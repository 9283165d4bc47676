-------------------------- MODULE LogicalMigration --------------------------
(***************************************************************************)
(* Moving a train run from one schema of the control database to another.  *)
(* Every operation of the control service is one transaction of that       *)
(* database, fences and assignment included, so each is one action.  The   *)
(* source does not accept writes while its rows are copied.                *)
(* No command of the repository completes such a migration; the window in  *)
(* which it can be rolled back stays open.                                 *)
(***************************************************************************)
EXTENDS ShardStores

LogicalIds == DOMAIN lm

\* The states of a migration that is not rolled back.  An operation may pass
\* through one of them inside its transaction.
Lifecycle == <<"planned", "draining", "copying", "validating", "cutover_ready",
               "cutting_over", "rollback_window">>
BeforeCopy == {"planned", "draining"}
Copying == {"copying", "validating", "cutover_ready", "cutting_over"}
BeforeCutover == BeforeCopy \cup (Copying \ {"cutting_over"})
LogicalStates == ToSet(Lifecycle) \cup {"rolled_back"}

\* Transition, applied as often as an operation does.
MayBecome(from, to) ==
    \/ from = to
    \/ \E i, j \in DOMAIN Lifecycle : i < j /\ Lifecycle[i] = from /\ Lifecycle[j] = to
    \/ to = "rolled_back" /\ from \in BeforeCutover \cup {"rollback_window"}

SourceRoute(m) == [shard |-> m.source, gen |-> m.sgen]
TargetRoute(m) == [shard |-> m.target, gen |-> m.tgen]

\* assignmentStateForMigration: saving a record saves the assignment's state.
AssignmentState(state) ==
    CASE state \in BeforeCopy -> "draining"
      [] state \in Copying -> "migrating"
      [] state = "rollback_window" -> "rollback_window"
      [] OTHER -> "stable"

ActiveMigration(state, id) == IF AssignmentState(state) = "stable" THEN 0 ELSE id

\* WriteFenceEnabledForUpdate: a fence of another generation is a mismatch.
FenceIs(r, on) == store[r.shard].gen = r.gen /\ store[r.shard].on = on

\* SetWriteFence never takes a fence back to an older generation.
FenceSettable(r) == store[r.shard].gen <= r.gen
WithFence(x, gen, on) == [x EXCEPT !.gen = gen, !.on = on, !.state = Plain]

\* ActivateRoute moves the assignment, and the locators with it.
ActivateRoute(route) == [assignment EXCEPT !.shard = route.shard, !.gen = route.gen]

\* SaveMigration at a route, which ActivateRoute may have changed.
SaveMigration(id, m, route) ==
    /\ MayBecome(lm[id].state, m.state)
    /\ lm' = [lm EXCEPT ![id] = m]
    /\ assignment' = [ActivateRoute(route) EXCEPT
                         !.state = AssignmentState(m.state),
                         !.logical = ActiveMigration(m.state, id)]
    /\ ResolvedBy(assignment')
    /\ UNCHANGED <<txn, latest, pm, op>>

\* ActiveRouteForUpdate, as every operation checks it.
ActiveAt(id, route) == Route = route /\ assignment.logical = id

\* planInput of the command: a run at rest and another schema that is writable.
Plannable(target) ==
    /\ assignment.shard \in ControlShards
    /\ target \in ControlShards \ {assignment.shard}
    /\ assignment.state = "stable"
    /\ assignment.logical = 0 /\ assignment.physical = 0

InsertMigration(m) ==
    /\ lm' = Append(lm, m)
    /\ assignment' = [assignment EXCEPT !.state = AssignmentState(m.state),
                                        !.logical = Len(lm) + 1]

PlanLogical(target) ==
    LET m == [state |-> "planned", source |-> assignment.shard, sgen |-> assignment.gen,
              target |-> target, tgen |-> assignment.gen + 1, copied |-> 0, back |-> 0]
    IN /\ Len(pm) + Len(lm) < MaxPlans
       /\ Plannable(target)
       /\ FenceIs(Route, TRUE)
       /\ FenceSettable(TargetRoute(m))
       /\ store' = [store EXCEPT ![target] = WithFence(@, m.tgen, FALSE)]
       /\ InsertMigration(m)
       /\ UNCHANGED <<txn, known, latest, genWrites, pm, op>>

\* quiesceSourceForCopy, in the transaction that copies the first page.
QuiesceSource(m) ==
    /\ FenceIs(SourceRoute(m), TRUE)
    /\ FenceIs(TargetRoute(m), FALSE)


\* The outbox is one table of the control database and moves with the run.
CopyPage(m, t) ==
    [store EXCEPT
        ![m.source].on = FALSE,
        ![m.target].rows[t] = store[m.source].rows[t],
        ![m.target].rows[Outbox] = store[m.source].rows[Outbox]]

CopyBatch(id) ==
    LET m == lm[id] done == m.copied + 1 = NumTables IN
    /\ id \in LogicalIds /\ m.state \in BeforeCopy \cup {"copying"}
    /\ ActiveAt(id, SourceRoute(m))
    /\ m.state \in BeforeCopy => QuiesceSource(m)
    /\ store' = CopyPage(m, m.copied + 1)
    /\ SaveMigration(id, [m EXCEPT !.copied = @ + 1,
                                   !.state = IF done THEN "validating" ELSE "copying"],
                     SourceRoute(m))
    /\ UNCHANGED genWrites

\* Validate and the second validation of Cutover compare digests.
DigestsEqual(m) == store[m.source].rows = store[m.target].rows

ValidateLogical(id) ==
    LET m == lm[id] IN
    /\ id \in LogicalIds /\ m.state = "validating"
    /\ DigestsEqual(m)
    /\ SaveMigration(id, [m EXCEPT !.state = "cutover_ready"], SourceRoute(m))
    /\ UNCHANGED <<store, genWrites>>

\* The row that counts the target's writes is new in this transaction.
Cutover(id) ==
    LET m == lm[id] IN
    /\ id \in LogicalIds /\ m.state = "cutover_ready"
    /\ ActiveAt(id, SourceRoute(m))
    /\ DigestsEqual(m)
    /\ FenceIs(SourceRoute(m), FALSE) /\ FenceIs(TargetRoute(m), FALSE)
    /\ \A w \in genWrites : w.gen # m.tgen
    /\ store' = [store EXCEPT ![m.source].on = FALSE, ![m.target].on = TRUE]
    /\ genWrites' = genWrites \cup
         {[gen |-> m.tgen, shard |-> m.target, mig |-> id, count |-> 0]}
    /\ SaveMigration(id, [m EXCEPT !.state = "rollback_window"], TargetRoute(m))

\* DirectRollback before the cutover: the source opens at its generation.
RollbackBeforeCutover(id) ==
    LET m == lm[id] IN
    /\ id \in LogicalIds /\ m.state \in BeforeCutover
    /\ ActiveAt(id, SourceRoute(m))
    /\ store' = [store EXCEPT
         ![m.target] = WithFence(@, m.tgen, FALSE),
         ![m.source] = WithFence(@, m.sgen, TRUE)]
    /\ SaveMigration(id, [m EXCEPT !.state = "rolled_back"], SourceRoute(m))
    /\ UNCHANGED genWrites

\* HasDurableTargetWrites: without its row the answer is unknown.
NoDurableTargetWrites(m) ==
    \E w \in genWrites : w.gen = m.tgen /\ w.shard = m.target /\ w.count = 0

RollbackGenerationFor(m) == m.tgen + 1

\* DirectRollback in the window: the source opens at a newer generation.
RollbackInWindow(id) ==
    LET m == lm[id]
        back == [shard |-> m.source, gen |-> RollbackGenerationFor(m)]
    IN /\ id \in LogicalIds /\ m.state = "rollback_window"
       /\ ActiveAt(id, TargetRoute(m))
       /\ FenceIs(TargetRoute(m), TRUE) /\ FenceIs(SourceRoute(m), FALSE)
       /\ NoDurableTargetWrites(m)
       /\ store' = [store EXCEPT
            ![m.target].on = FALSE,
            ![m.source] = WithFence(@, back.gen, TRUE)]
       /\ SaveMigration(id, [m EXCEPT !.state = "rolled_back", !.back = back.gen], back)
       /\ UNCHANGED genWrites

LogicalNext ==
    \/ \E target \in ControlShards : PlanLogical(target)
    \/ \E id \in 1..MaxPlans :
         \/ CopyBatch(id) \/ ValidateLogical(id) \/ Cutover(id)
         \/ RollbackBeforeCutover(id) \/ RollbackInWindow(id)
=============================================================================
