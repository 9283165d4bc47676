----------------------------- MODULE ShardAudit -----------------------------
(***************************************************************************)
(* The reconciliation audits of shard assignments and of migrations        *)
(* between control schemas: what each check of a report demands of a       *)
(* complete observation.  The audits read in one repeatable-read snapshot  *)
(* of the control database, so each is a predicate of one state.           *)
(***************************************************************************)
EXTENDS LogicalMigration

FenceExists(s) == store[s].gen # 0
Open == {s \in ControlShards : FenceExists(s) /\ store[s].on}

-----------------------------------------------------------------------------
(* checkAssignment *)

AssignmentStateCheck == (assignment.state = "stable") <=> (assignment.logical = 0)

ActiveFenceCheck ==
    /\ store[assignment.shard].gen = assignment.gen
    /\ Open \subseteq {assignment.shard}

ExactWriterCount ==
    Cardinality(Open) = IF assignment.state = "migrating" THEN 0 ELSE 1

AssignmentAuditClean ==
    AssignmentStateCheck /\ ActiveFenceCheck /\ ExactWriterCount

-----------------------------------------------------------------------------
(* The audit of a migration record. *)

\* validateMigrationAssignment
MigrationAssignmentCheck(id) ==
    LET m == lm[id] IN
    IF m.state = "rolled_back"
    THEN /\ assignment.logical = 0 /\ assignment.state = "stable"
         /\ Route = [shard |-> m.source, gen |-> IF m.back = 0 THEN m.sgen ELSE m.back]
         /\ m.back # 0 => m.back > m.tgen
    ELSE /\ assignment.logical = id
         /\ Route = IF m.state = "rollback_window" THEN TargetRoute(m) ELSE SourceRoute(m)
         /\ assignment.state = AssignmentState(m.state)

\* checkMigrationFences
MigrationFenceCheck(id) ==
    LET m == lm[id]
        sourceOpen == m.source \in Open
        targetOpen == m.target \in Open
    IN /\ FenceExists(m.source)
       /\ m.state \notin BeforeCopy => FenceExists(m.target)
       /\ sourceOpen = (m.state \in BeforeCopy \cup {"rolled_back"})
       /\ targetOpen = (m.state = "rollback_window")
       /\ store[m.source].gen = IF m.back # 0 THEN m.back ELSE m.sgen
       /\ FenceExists(m.target) => store[m.target].gen = m.tgen

\* requiresEqualCopy, and the source kept as it was while it may be needed.
CopyCheck(id) ==
    LET m == lm[id] IN
    m.copied = NumTables /\ m.state # "rolled_back" =>
        \/ store[m.source].rows = store[m.target].rows
        \/ m.state = "rollback_window"

\* The generation-write evidence of CentralMigrationSnapshot.
GenerationWriteCheck(id) ==
    LET m == lm[id]
        evidence == {w \in genWrites : w.gen = m.tgen /\ w.shard = m.target}
    IN /\ m.state = "rollback_window" \/ m.back # 0 => Cardinality(evidence) = 1
       /\ m.back # 0 => \A w \in evidence : w.count = 0

MigrationCardinalityCheck ==
    Cardinality({id \in LogicalIds : lm[id].state # "rolled_back"}) <= 1

MigrationAuditClean(id) ==
    /\ MigrationAssignmentCheck(id)
    /\ MigrationFenceCheck(id)
    /\ CopyCheck(id)
    /\ GenerationWriteCheck(id)
    /\ MigrationCardinalityCheck
=============================================================================
