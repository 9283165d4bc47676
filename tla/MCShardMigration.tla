-------------------------- MODULE MCShardMigration --------------------------
(***************************************************************************)
(* Instances of ShardMigration for TLC.                                    *)
(***************************************************************************)
EXTENDS ShardMigration
=============================================================================
