--------------------------- MODULE ControlSource ----------------------------
(***************************************************************************)
(* The same operations when one end of the migration is a schema of the    *)
(* control database: the forward adapter copies a control schema to a      *)
(* physical shard, the reverse adapter brings it back.  A control schema's *)
(* fence has only a generation and a flag, and its writes are one action,  *)
(* so nothing here waits for a transaction of the control database.        *)
(* Operations the adapters delegate are those of PhysicalShards.           *)
(***************************************************************************)
EXTENDS PhysicalShards

-----------------------------------------------------------------------------
(* The forward adapter: control source, physical target. *)

ControlPreflight(m, id) ==
    /\ assignment = [shard |-> m.source, gen |-> m.sgen, state |-> "migrating",
                     logical |-> 0, physical |-> id]
    /\ store[m.source].gen = m.sgen /\ store[m.source].on
    /\ ~store[m.target].on

\* The relations of the control schema, shaped like those of a shard.
SourceQuery(m, t) == store[m.source].rows[t]
TargetQuery(m, t) == store[m.target].rows[t]
SourceRows(m) == [t \in AllTables |-> SourceQuery(m, t)]
TargetRows(m) == [t \in AllTables |-> TargetQuery(m, t)]

\* The snapshot row is copied like a base batch, which installs the fence.
ControlInstallTarget(m) == ApplyBaseBatch(m, Snapshot, SourceQuery(m, Snapshot))

\* The capture row is keyed by the run alone, whichever schema holds it.
ControlEnableCapture(m, id) ==
    /\ store[m.source].cap.on => store[m.source].cap.mig = id
    /\ store' = [store EXCEPT ![m.source].cap = Capturing(@, id)]

ControlReadBaseBatch(m, t) == SourceQuery(m, t)

\* ReadJournal of the adapter; a row that has vanished since its entry was
\* written is deleted, its value Absent like that of any missing row.
ControlListJournal(m, last) == ListJournal(m, last)
ControlLoadPayload(m, t) == SourceQuery(m, t)

\* Validate compares the canonical rows of every table.
ControlRowsMatch(m) == SourceRows(m) = TargetRows(m)

\* The outbox is journaled with the other tables; nothing is staged.
ControlCaptureOutbox(m) == UNCHANGED store

\* Unlike the physical operation this one is refused the second time.
ControlFenceSource(m, id) ==
    /\ store[m.source].gen = m.sgen /\ store[m.source].on
    /\ store[m.source].cap.mig = id /\ store[m.source].cap.on
    /\ store' = [store EXCEPT ![m.source].on = FALSE]

\* disableZeroWriteTarget of the adapter needs the baseline EnableTarget sets.
ControlZeroWriteTarget(m) ==
    LET x == store[m.target] IN
    /\ EvidenceKnown(m) /\ ~TargetWrote(m) /\ ~RowsShowWrite(m)
    /\ x.state \in {"standby", "active", "disabled"}

ControlDisableTarget(m) ==
    /\ Quiet(m.target)
    /\ ControlZeroWriteTarget(m)
    /\ store' = [store EXCEPT ![m.target].on = FALSE, ![m.target].state = "disabled"]

ControlRebindSource(m, id, gen) ==
    /\ store[m.source].gen = m.sgen /\ ~store[m.source].on
    /\ store' = [store EXCEPT
         ![m.source].gen = gen,
         ![m.source].on = TRUE,
         ![m.source].cap.on = IF store[m.source].cap.mig = id THEN FALSE ELSE @]

\* RetainSource only checks.
ControlRetainSource(m) ==
    store[m.source].gen = m.sgen /\ ~store[m.source].on /\ UNCHANGED store

\* The rows of a control schema carry no generation; the disabled capture row
\* of this migration and the fence stand for it.
CleanupControlSource(m, id) ==
    /\ store[m.source].cap.mig = id /\ ~store[m.source].cap.on
    /\ store[m.source].gen = m.sgen /\ ~store[m.source].on
    /\ store' = [store EXCEPT ![m.source] = EmptyStore]

-----------------------------------------------------------------------------
(* The reverse adapter: physical source, control target. *)

\* authorizeTargetApply
ApplyAuthorized(m) ==
    /\ m.parent # 0
    /\ m.state \in {"preparing_target", "capture_enabled", "base_copying",
                    "catching_up", "validating_online", "draining",
                    "source_fenced", "final_catchup", "final_validating"}

ReversePreflight(m, id) ==
    /\ FenceAdmits(m.source, m.sgen)
    /\ Route = [shard |-> m.source, gen |-> m.sgen]
    /\ assignment.physical = id

\* The statements the adapter builds for a control schema.
ReverseCleared(x) == [x EXCEPT !.rows = [t \in AllTables |-> Absent]]
ReverseFencePrepared(m, x) == [x EXCEPT !.gen = m.tgen, !.state = Plain]
ReverseUpsert(x, t, v) == [x EXCEPT !.rows[t] = v]
ReverseReceipt(x, id, seq) == [x EXCEPT !.receipts = [mig |-> id, upto |-> seq]]

\* One transaction clears what the schema still holds and moves its fence.
ReversePrepareTarget(m) ==
    /\ ApplyAuthorized(m)
    /\ ~store[m.target].on
    /\ store' = [store EXCEPT
         ![m.target] = ReverseFencePrepared(m, ReverseCleared([@ EXCEPT !.cap.on = FALSE]))]

ReverseApplyBaseBatch(m, t, v) ==
    ApplyAuthorized(m) /\ store' = [store EXCEPT ![m.target] = ReverseUpsert(@, t, v)]

ReverseApplyJournal(m, id, seq, t, v) ==
    /\ ApplyAuthorized(m)
    /\ IF HasReceipt(m.target, id, seq) THEN UNCHANGED store
       ELSE store' = [store EXCEPT
              ![m.target] = ReverseReceipt(ReverseUpsert(@, t, v), id, seq)]

ReverseCaptureOutbox(m) == ApplyAuthorized(m) /\ CaptureOutbox(m)

\* The rows both validations read, the snapshot's included.
ReverseSourceRows(m) == store[m.source].rows
ReverseTargetRows(m) == store[m.target].rows
ReverseRowsMatch(m) == ReverseSourceRows(m) = ReverseTargetRows(m)

ReverseEnableTarget(m) ==
    /\ store[m.target].gen = m.tgen /\ ~store[m.target].on
    /\ store' = [store EXCEPT ![m.target].on = TRUE]

\* The target is disabled; the source's snapshot then takes the new generation
\* and its fence with it, so that the update of the fence at the old one finds
\* no row and the second transaction always rolls back.
ReverseDisableTarget(m) ==
    /\ store[m.target].gen = m.tgen /\ store[m.target].on
    /\ store' = [store EXCEPT ![m.target].on = FALSE]
=============================================================================
