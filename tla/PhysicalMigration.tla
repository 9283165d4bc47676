------------------------- MODULE PhysicalMigration --------------------------
(***************************************************************************)
(* The engine that moves a train run to or from a physical shard, with the *)
(* control store that records its progress and the administrator's         *)
(* commands that drive it.                                                 *)
(*                                                                         *)
(* The engine works on three databases and has no transaction over them:   *)
(* it changes a shard, then records the step in the control database.  op  *)
(* holds what was done and not yet recorded.  It is lost when the process  *)
(* stops or an answer does not arrive (Interrupt), and the next command    *)
(* starts the recorded state again.  One administrator works at a time.    *)
(***************************************************************************)
EXTENDS ControlSource

Ids == DOMAIN pm

\* PhysicalState, in the order of a migration that is not rolled back.
Phases ==
    <<"planned", "preparing_target", "capture_enabled", "base_copying",
      "catching_up", "validating_online", "draining", "source_fenced",
      "final_catchup", "final_validating", "target_enabled",
      "switching_assignment", "rollback_window", "completed">>
PhysicalStates == ToSet(Phases) \cup {"rolled_back", "reverse_migration_required"}

\* The machine a record's state moves through.
CanTransition(from, to) ==
    \E i \in 1..(Len(Phases) - 1) : Phases[i] = from /\ Phases[i + 1] = to
CanDirectRollback(state) == state \in ToSet(Phases) \ {"completed"}

\* shardOperations: which adapter serves a migration.
ToControl(m) == m.target \in ControlShards
FromControl(m) == m.source \in ControlShards

\* The order of the base copy.  The outbox of a control source is a table
\* like the others; that of a physical source is staged apart.
CopyOrder(m) ==
    [i \in Tables |-> i] \o (IF FromControl(m) THEN <<Outbox>> ELSE <<>>)

Resting == op = NoOp

\* The process is free to take up migration id.
Idle(id) == Resting /\ id \in Ids
Doing(at, id) == op' = [NoOp EXCEPT !.at = at, !.mig = id]
At(stage, id) == op.at = stage /\ op.mig = id
ControlUnchanged == UNCHANGED <<assignment, genWrites, pm, lm>>

\* A step on a shard: it leaves the control database alone.
ShardStep == ControlUnchanged /\ UNCHANGED <<txn, known, latest>>

\* A step on the control database leaves the shards alone.
ControlStep == ResolvedBy(assignment') /\ UNCHANGED <<store, txn, latest, genWrites, lm>>

\* Persist: the record is saved if it still is where the change expects it.
Persist(id, expected, change) ==
    /\ pm[id].state = expected
    /\ change.state = expected \/ CanTransition(expected, change.state)
    /\ pm' = [pm EXCEPT ![id] = change]
    /\ op' = NoOp
    /\ UNCHANGED assignment
    /\ ControlStep

-----------------------------------------------------------------------------
(* Commands that plan. *)

NewRecord(source, sgen, target, tgen, parent, retained) ==
    [state |-> "planned", source |-> source, sgen |-> sgen, target |-> target,
     tgen |-> tgen, parent |-> parent, retained |-> retained,
     copied |-> 0, last |-> 0, final |-> 0, cleanup |-> "none"]

Plan(target) ==
    /\ Resting
    /\ Len(pm) + Len(lm) < MaxPlans
    /\ assignment.physical = 0 /\ assignment.logical = 0
    /\ assignment.state = "stable"
    /\ target \in PhysicalShards \ {assignment.shard}
    /\ pm' = Append(pm, NewRecord(assignment.shard, assignment.gen, target,
                                  assignment.gen + 1, 0, 0))
    /\ assignment' = [assignment EXCEPT !.state = "migrating", !.physical = Len(pm) + 1]
    /\ UNCHANGED op
    /\ ControlStep

\* PlanReverse refuses when the two kinds of evidence disagree.
EvidenceAgrees(m) ==
    \/ ToControl(m)
    \/ EvidenceKnown(m) /\ TargetWrote(m) = RowsShowWrite(m)

\* CreateReverse: the original is closed, its mirror image becomes the active
\* migration of the run.
CreateReverse(id, gen) ==
    LET m == pm[id] IN
    /\ m.cleanup = "none"
    /\ Route = [shard |-> m.target, gen |-> m.tgen]
    /\ assignment.physical \in {0, id}
    /\ assignment.state \in {"rollback_window", "migrating"}
    /\ pm' = Append([pm EXCEPT ![id].state = "reverse_migration_required"],
                    NewRecord(m.target, m.tgen, m.source, gen, id, m.sgen))
    /\ assignment' = [assignment EXCEPT !.state = "migrating", !.physical = Len(pm) + 1]

PlanReverse(id) ==
    /\ Idle(id)
    /\ Len(pm) + Len(lm) < MaxPlans
    /\ pm[id].state \in {"rollback_window", "completed", "reverse_migration_required"}
    /\ EvidenceAgrees(pm[id])
    /\ CreateReverse(id, pm[id].tgen + 1)
    /\ UNCHANGED op
    /\ ControlStep

-----------------------------------------------------------------------------
(* Advance, state by state. *)

StartPreparing(id) ==
    /\ Idle(id)
    /\ Persist(id, "planned", [pm[id] EXCEPT !.state = "preparing_target"])

PrepareOnTarget(id) ==
    LET m == pm[id] IN
    /\ Idle(id) /\ m.state = "preparing_target"
    /\ \/ ToControl(m) /\ ReversePreflight(m, id) /\ ReversePrepareTarget(m)
       \/ FromControl(m) /\ ControlPreflight(m, id) /\ Prepare(m)
       \/ ~ToControl(m) /\ ~FromControl(m) /\ Preflight(m) /\ Prepare(m)
    /\ Doing(IF ToControl(m) THEN "installed" ELSE "prepared", id)
    /\ ShardStep

InstallOnTarget(id) ==
    LET m == pm[id] IN
    /\ At("prepared", id)
    /\ IF FromControl(m) THEN ControlInstallTarget(m) ELSE InstallTarget(m)
    /\ Doing("installed", id)
    /\ ShardStep

RecordPrepared(id) ==
    /\ At("installed", id)
    /\ Persist(id, "preparing_target", [pm[id] EXCEPT !.state = "capture_enabled"])

StartCapture(id) ==
    /\ Idle(id) /\ pm[id].state = "capture_enabled"
    /\ IF FromControl(pm[id]) THEN ControlEnableCapture(pm[id], id)
       ELSE EnableCapture(pm[id], id)
    /\ Doing("captured", id)
    /\ ShardStep

RecordCapture(id) ==
    /\ At("captured", id)
    /\ Persist(id, "capture_enabled", [pm[id] EXCEPT !.state = "base_copying"])

\* copyOneBatch: read, apply, record the cursor.
ReadBatch(id) ==
    LET m == pm[id]
        t == CopyOrder(m)[m.copied + 1]
        v == IF FromControl(m) THEN ControlReadBaseBatch(m, t) ELSE ReadBaseBatch(m, t)
    IN
    /\ Idle(id) /\ m.state = "base_copying"
    /\ op' = [NoOp EXCEPT !.at = "read", !.mig = id, !.batch = <<[t |-> t, v |-> v]>>]
    /\ ShardStep /\ UNCHANGED store

ApplyBatch(id) ==
    LET m == pm[id] row == Head(op.batch) IN
    /\ At("read", id)
    /\ IF ToControl(m) THEN ReverseApplyBaseBatch(m, row.t, row.v)
                       ELSE ApplyBaseBatch(m, row.t, row.v)
    /\ Doing("applied", id)
    /\ ShardStep

RecordBatch(id) ==
    LET m == pm[id] done == m.copied + 1 = Len(CopyOrder(m)) IN
    /\ At("applied", id)
    /\ Persist(id, "base_copying",
         [m EXCEPT !.copied = @ + 1,
                   !.state = IF done THEN "catching_up" ELSE @])

\* readAndApplyJournal: list a batch, load the rows it names, apply the
\* entries one at a time.
Replaying == {"catching_up", "validating_online", "source_fenced"}

ReadJournal(id) ==
    LET m == pm[id] IN
    /\ Idle(id) /\ m.state \in Replaying
    /\ op' = [at |-> "listed", mig |-> id, seq |-> m.last,
              batch |-> IF FromControl(m) THEN ControlListJournal(m, m.last)
                        ELSE ListJournal(m, m.last),
              goal |-> Len(store[m.source].cap.log)]
    /\ ShardStep /\ UNCHANGED store

LoadJournal(id) ==
    LET m == pm[id] IN
    /\ At("listed", id)
    /\ op' = [op EXCEPT
         !.at = "loaded",
         !.batch = [i \in DOMAIN @ |-> [t |-> @[i],
            v |-> IF FromControl(m) THEN ControlLoadPayload(m, @[i])
                  ELSE LoadPayload(m, @[i])]]]
    /\ ShardStep /\ UNCHANGED store

ApplyEntry(id) ==
    LET m == pm[id] row == Head(op.batch) IN
    /\ At("loaded", id) /\ op.batch # <<>>
    /\ IF ToControl(m) THEN ReverseApplyJournal(m, id, op.seq + 1, row.t, row.v)
                       ELSE ApplyJournal(m, id, op.seq + 1, row.t, row.v)
    /\ op' = [op EXCEPT !.batch = Tail(@), !.seq = @ + 1]
    /\ ShardStep

\* replayOneBatch: the state moves on when the journal is exhausted.  Online
\* that is its length when the batch was read, at the end the sequence at
\* which the source was fenced.
RecordReplay(id) ==
    LET m == pm[id]
        next == CASE m.state = "catching_up" /\ op.seq = op.goal -> "validating_online"
                  [] m.state = "source_fenced" /\ op.seq = m.final -> "final_catchup"
                  [] OTHER -> m.state
    IN /\ At("loaded", id) /\ op.batch = <<>>
       /\ ~(m.state = "validating_online" /\ op.seq = m.last)
       /\ Persist(id, m.state, [m EXCEPT !.last = op.seq, !.state = next])

\* validating_online with nothing to replay goes on to validate.
StageOutbox(id) ==
    LET m == pm[id] IN
    /\ \/ At("loaded", id) /\ m.state = "validating_online"
            /\ op.batch = <<>> /\ op.seq = m.last
       \/ Idle(id) /\ m.state = "final_catchup"
    /\ CASE ToControl(m) -> ReverseCaptureOutbox(m)
         [] FromControl(m) -> ControlCaptureOutbox(m)
         [] OTHER -> CaptureOutbox(m)
    /\ Doing("staged", id)
    /\ ShardStep

\* The online validation reads two databases that go on changing: it may pass
\* whatever the stores hold.  BeginDrain stops the handing out of routes.
BeginDrain(id) ==
    /\ At("staged", id) /\ pm[id].state = "validating_online"
    /\ Route = [shard |-> pm[id].source, gen |-> pm[id].sgen]
    /\ assignment.physical = id
    /\ assignment.state \in {"migrating", "draining"}
    /\ assignment' = [assignment EXCEPT !.state = "draining"]
    /\ pm' = [pm EXCEPT ![id].state = "draining"]
    /\ op' = NoOp
    /\ ControlStep

FenceOnSource(id) ==
    LET m == pm[id] IN
    /\ Idle(id) /\ m.state = "draining"
    /\ IF FromControl(m) THEN ControlFenceSource(m, id) ELSE FenceSource(m, id)
    /\ op' = [NoOp EXCEPT !.at = "fenced", !.mig = id, !.seq = Len(store[m.source].cap.log)]
    /\ ShardStep

RecordFence(id) ==
    /\ At("fenced", id)
    /\ Persist(id, "draining",
         [pm[id] EXCEPT !.state = "source_fenced", !.final = op.seq])

\* The final validation compares stores that no longer change.
ValidateFinal(id) ==
    /\ At("staged", id)
    /\ CASE ToControl(pm[id]) -> ReverseRowsMatch(pm[id])
         [] FromControl(pm[id]) -> ControlRowsMatch(pm[id])
         [] OTHER -> RowsMatch(pm[id])
    /\ Persist(id, "final_catchup", [pm[id] EXCEPT !.state = "final_validating"])

EnableOnTarget(id) ==
    LET m == pm[id] IN
    /\ Idle(id) /\ m.state = "final_validating"
    /\ IF ToControl(m) THEN ReverseEnableTarget(m) ELSE EnableTarget(m)
    /\ Doing("enabled", id)
    /\ ShardStep

RecordEnabled(id) ==
    /\ At("enabled", id)
    /\ Persist(id, "final_validating", [pm[id] EXCEPT !.state = "target_enabled"])

\* SwitchAssignment: the assignment, the directories, the locators and the
\* open commands of the run name the target from one transaction on.
SwitchAssignment(id) ==
    LET m == pm[id] IN
    /\ Idle(id) /\ m.state = "target_enabled"
    /\ Route = [shard |-> m.source, gen |-> m.sgen]
    /\ assignment.physical = id
    /\ assignment' = [assignment EXCEPT !.shard = m.target, !.gen = m.tgen,
                                        !.state = "rollback_window"]
    /\ pm' = [pm EXCEPT ![id].state = "switching_assignment"]
    /\ UNCHANGED op
    /\ ControlStep

OpenRollbackWindow(id) ==
    /\ Idle(id)
    /\ Persist(id, "switching_assignment", [pm[id] EXCEPT !.state = "rollback_window"])

-----------------------------------------------------------------------------
(* Complete. *)

StopCapture(id) ==
    LET m == pm[id] IN
    /\ Idle(id) /\ m.state = "rollback_window"
    /\ ToControl(m) \/ TargetWriteCountKnown(m)
    /\ DisableCapture(m, id)
    /\ Doing("uncaptured", id)
    /\ ShardStep

RetainOnSource(id) ==
    LET m == pm[id] IN
    /\ At("uncaptured", id)
    /\ IF FromControl(m) THEN ControlRetainSource(m) ELSE RetainSource(m)
    /\ Doing("retained", id)
    /\ ShardStep

RecordComplete(id) ==
    LET m == pm[id] IN
    /\ At("retained", id) /\ m.state = "rollback_window"
    /\ Route = [shard |-> m.target, gen |-> m.tgen]
    /\ assignment.physical = id
    /\ assignment' = [assignment EXCEPT !.state = "stable", !.physical = 0]
    /\ pm' = [pm EXCEPT ![id].state = "completed"]
    /\ op' = NoOp
    /\ ControlStep

-----------------------------------------------------------------------------
(* Rollback. *)

Preparing == {"planned", "preparing_target"}
Enabled == {"target_enabled", "switching_assignment", "rollback_window"}

\* Mutant: the source is opened at the generation it had.
RollbackToSourceGeneration(m) == m.sgen

RollbackGeneration(m) == m.tgen + 1

\* Before the source was touched the run only has to be released.
AbandonPlan(id) ==
    LET m == pm[id] IN
    /\ Idle(id) /\ m.state \in Preparing
    /\ Route = [shard |-> m.source, gen |-> m.sgen]
    /\ assignment.physical = id
    /\ assignment' = [assignment EXCEPT !.state = "stable", !.physical = 0]
    /\ pm' = [pm EXCEPT ![id].state = "rolled_back"]
    /\ UNCHANGED op
    /\ ControlStep

\* The checks of Rollback.  A control target counts the run's commands, which
\* SwitchAssignment has rewritten to name it: the count may be anything.
RollbackAllowed(m) ==
    /\ CanDirectRollback(m.state) /\ m.state \notin Preparing
    /\ \/ ToControl(m)
       \/ /\ TargetWriteCountKnown(m) /\ ~TargetWrote(m)
          /\ m.state \in Enabled => EvidenceKnown(m) /\ ~RowsShowWrite(m)

DisableOnTarget(id) ==
    LET m == pm[id] IN
    /\ Idle(id)
    /\ RollbackAllowed(m)
    /\ CASE ToControl(m) -> ReverseDisableTarget(m)
         [] FromControl(m) -> ControlDisableTarget(m)
         [] OTHER -> DisableZeroWriteTarget(m)
    /\ Doing("disabled", id)
    /\ ShardStep

\* A reverse migration to a control schema never gets past this point.
RebindOnSource(id) ==
    LET m == pm[id] IN
    /\ At("disabled", id) /\ ~ToControl(m)
    /\ IF FromControl(m) THEN ControlRebindSource(m, id, RollbackGeneration(m))
       ELSE RebindRollbackSource(m, id, RollbackGeneration(m))
    /\ Doing("rebound", id)
    /\ ShardStep

RecordRollback(id) ==
    LET m == pm[id]
        switched == m.state \in {"switching_assignment", "rollback_window"}
        back == [shard |-> m.source, gen |-> RollbackGeneration(m)]
    IN /\ At("rebound", id)
       /\ Route = IF switched THEN [shard |-> m.target, gen |-> m.tgen]
                  ELSE [shard |-> m.source, gen |-> m.sgen]
       /\ assignment' = [shard |-> back.shard, gen |-> back.gen, state |-> "stable",
                         logical |-> 0, physical |-> 0]
       /\ pm' = [pm EXCEPT ![id].state = "rolled_back"]
       /\ op' = NoOp
       /\ ControlStep

-----------------------------------------------------------------------------
(* Cleanup of a completed migration's source. *)

BeginCleanup(id) ==
    LET m == pm[id] IN
    /\ Idle(id) /\ m.state = "completed"
    /\ m.cleanup \in {"none", "running"}
    /\ \A j \in Ids : pm[j].parent = id => pm[j].state = "rolled_back"
    /\ pm' = [pm EXCEPT ![id].cleanup = "running"]
    /\ Doing(IF m.cleanup = "running" THEN "resuming" ELSE "cleaning", id)
    /\ UNCHANGED assignment
    /\ ControlStep

DeleteRetained(id) ==
    LET m == pm[id] IN
    /\ At("cleaning", id) \/ At("resuming", id)
    /\ IF FromControl(m) THEN CleanupControlSource(m, id)
       ELSE CleanupRetained(m, op.at = "resuming")
    /\ Doing("deleted", id)
    /\ ShardStep

FinishCleanup(id) ==
    /\ At("deleted", id) /\ pm[id].cleanup = "running"
    /\ Persist(id, "completed", [pm[id] EXCEPT !.cleanup = "completed"])

-----------------------------------------------------------------------------
\* The process stops, a call fails or its answer is lost.
Interrupt ==
    /\ op # NoOp
    /\ op' = NoOp
    /\ ControlUnchanged
    /\ UNCHANGED <<store, txn, known, latest>>

AdvanceNext(id) ==
    \/ StartPreparing(id) \/ PrepareOnTarget(id) \/ InstallOnTarget(id)
    \/ RecordPrepared(id) \/ StartCapture(id) \/ RecordCapture(id)
    \/ ReadBatch(id) \/ ApplyBatch(id) \/ RecordBatch(id)
    \/ ReadJournal(id) \/ LoadJournal(id) \/ ApplyEntry(id) \/ RecordReplay(id)
    \/ StageOutbox(id) \/ BeginDrain(id) \/ FenceOnSource(id) \/ RecordFence(id)
    \/ ValidateFinal(id) \/ EnableOnTarget(id) \/ RecordEnabled(id)
    \/ SwitchAssignment(id) \/ OpenRollbackWindow(id)

EndNext(id) ==
    \/ StopCapture(id) \/ RetainOnSource(id) \/ RecordComplete(id)
    \/ AbandonPlan(id) \/ DisableOnTarget(id) \/ RebindOnSource(id)
    \/ RecordRollback(id)
    \/ BeginCleanup(id) \/ DeleteRetained(id) \/ FinishCleanup(id)

PhysicalNext ==
    \/ \E target \in PhysicalShards : Plan(target)
    \/ \E id \in 1..MaxPlans : PlanReverse(id) \/ AdvanceNext(id) \/ EndNext(id)
    \/ Interrupt
=============================================================================
