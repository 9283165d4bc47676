---------------------------- MODULE RunOwnership ----------------------------
(***************************************************************************)
(* What the stores promise about one train run, whatever migrations are    *)
(* planned, interrupted, rolled back or reversed: at most one store        *)
(* accepts its writes, every write is made on the rows the previous one    *)
(* left, and taking the run away from a store or giving it to another      *)
(* changes no row.                                                         *)
(***************************************************************************)
EXTENDS Integers, FiniteSets

CONSTANTS Stores, RowSets, LogRow

VARIABLES
    owners,  \* the stores that accept writes
    rows     \* the run's rows, each the number of the write that left it

OwnershipInit ==
    /\ \E s \in Stores : owners = {s}
    /\ rows = [t \in {LogRow} \cup RowSets |-> 1]

\* A write changes a row and appends an event to the log.
Write ==
    \E t \in RowSets :
        /\ owners # {}
        /\ rows' = [rows EXCEPT ![t] = rows[LogRow] + 1, ![LogRow] = @ + 1]
        /\ UNCHANGED owners

\* The run is fenced, opened, or moved in one step.
Transfer ==
    /\ owners' \in SUBSET Stores
    /\ Cardinality(owners') <= 1
    /\ UNCHANGED rows

OwnershipNext == Write \/ Transfer

Ownership == OwnershipInit /\ [][OwnershipNext]_<<owners, rows>>
=============================================================================
