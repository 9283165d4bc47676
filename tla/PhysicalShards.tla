--------------------------- MODULE PhysicalShards ---------------------------
(***************************************************************************)
(* The operations a migration performs on the databases of its source and  *)
(* target when both are physical shards.  Each is one transaction, gives   *)
(* the guard under which it succeeds and the stores it leaves; a refused   *)
(* operation changes nothing.  An update of a row some write transaction   *)
(* holds waits for that transaction.                                       *)
(*                                                                         *)
(* m is the migration's record, id its number.                             *)
(***************************************************************************)
EXTENDS ShardStores

Quiet(s) == s \in PhysicalShards => txn[s] = NoTxn

-----------------------------------------------------------------------------
(* Preparing the target. *)

Preflight(m) == FenceAdmits(m.source, m.sgen) /\ ~store[m.target].on

\* Prepare for a forward migration only looks: any other generation of the
\* run, or an open fence, is a conflict.
TargetVacant(m) == store[m.target].gen \in {0, m.tgen} /\ ~store[m.target].on

\* prepareRetainedPredecessor: the source of the migration being reversed
\* still holds its old rows, which are wiped.  It may have been done before.
AlreadyPrepared(m) ==
    /\ store[m.target].gen = m.tgen
    /\ ~store[m.target].on
    /\ store[m.target].state \in {"standby", "disabled"}

RetainedPredecessor(m) ==
    /\ store[m.target].gen = m.retained
    /\ ~store[m.target].on
    /\ store[m.target].state \in {"quiescing", "retained"}

PrepareRetainedPredecessor(m) ==
    \/ AlreadyPrepared(m) /\ UNCHANGED store
    \/ /\ RetainedPredecessor(m)
       /\ store' = [store EXCEPT
            ![m.target] = [EmptyStore EXCEPT !.gen = m.retained, !.state = "retained"]]

Prepare(m) ==
    IF m.parent = 0 THEN TargetVacant(m) /\ UNCHANGED store
    ELSE PrepareRetainedPredecessor(m)

\* The standby fence and the evidence row that come with the snapshot row.
Standby(m, x) == [x EXCEPT !.gen = m.tgen, !.state = "standby", !.ev.row = TRUE]

\* The second transaction of PrepareTarget.
InstallTarget(m) ==
    /\ ~store[m.target].on
    /\ ~store[m.target].ev.wrote
    /\ store' = [store EXCEPT
         ![m.target] = Standby(m, [@ EXCEPT
            !.rows[Snapshot] = store[m.source].rows[Snapshot]])]

-----------------------------------------------------------------------------
(* Capture, base copy and journal. *)

\* The capture row as EnableCapture leaves it: installed when missing, reset
\* when another migration left it disabled, and switched on.
Capturing(cap, id) ==
    IF cap.mig = id THEN [cap EXCEPT !.on = TRUE]
    ELSE [mig |-> id, on |-> TRUE, log |-> <<>>]

\* EnableCapture waits for a write that holds the snapshot row, which its
\* foreign key locks, or the capture row, if one existed when it wrote.
CaptureRowFree(s) ==
    s \in PhysicalShards =>
        txn[s] = NoTxn \/ (txn[s].locks = "fence" /\ store[s].cap.mig = 0)

EnableCapture(m, id) ==
    /\ CaptureRowFree(m.source)
    /\ store[m.source].gen = m.sgen
    /\ store[m.source].cap.on => store[m.source].cap.mig = id
    /\ store' = [store EXCEPT ![m.source].cap = Capturing(@, id)]

\* ReadBaseBatch: the rows of the next table as they are now.
ReadBaseBatch(m, t) == store[m.source].rows[t]

\* ApplyBaseBatch: an upsert without any check of the migration's state.
\* Copying the snapshot table also installs the standby fence if none is open.
ApplyBaseBatch(m, t, v) ==
    store' = [store EXCEPT
      ![m.target] =
        LET copied == [@ EXCEPT !.rows[t] = v]
        IN IF t = Snapshot /\ ~@.on THEN Standby(m, copied) ELSE copied]

\* ReadJournal: the entries after `last', at most a batch.
ListJournal(m, last) ==
    LET log == store[m.source].cap.log
        upto == IF Len(log) < last + JournalBatch THEN Len(log) ELSE last + JournalBatch
    IN SubSeq(log, last + 1, upto)

\* loadMutationPayload: an entry names a row; its value is read when the
\* entry is loaded, not when it was written.
LoadPayload(m, t) == store[m.source].rows[t]

\* ApplyJournal: the receipt makes a second application a no-op.
HasReceipt(s, id, seq) ==
    store[s].receipts.mig = id /\ seq <= store[s].receipts.upto

ApplyMutation(x, t, v) == [x EXCEPT !.rows[t] = v]

ApplyJournal(m, id, seq, t, v) ==
    IF HasReceipt(m.target, id, seq) THEN UNCHANGED store
    ELSE store' = [store EXCEPT
           ![m.target] = [ApplyMutation(@, t, v) EXCEPT
              !.receipts = [mig |-> id, upto |-> seq]]]

-----------------------------------------------------------------------------
(* Validation and cutover. *)

\* The outbox of a physical source is not journaled: it is replaced as a whole.
CaptureOutbox(m) ==
    store' = [store EXCEPT ![m.target].rows[Outbox] = store[m.source].rows[Outbox]]

\* BoundedValidator.Validate compares the digests of every table.
TableDigest(s, t) == store[s].rows[t]
RowsMatch(m) == \A t \in AllTables : TableDigest(m.source, t) = TableDigest(m.target, t)

\* Mutant: the fence is lowered under a transaction that has passed it.
FenceSourceNoWait(m, id) ==
    /\ store[m.source].gen = m.sgen
    /\ store[m.source].state \in {"active", "quiescing"}
    /\ store[m.source].cap.mig = id /\ store[m.source].cap.on
    /\ store' = [store EXCEPT ![m.source].on = FALSE, ![m.source].state = "quiescing"]

\* FenceSource: from here no transaction can begin on the source.
FenceSource(m, id) ==
    /\ Quiet(m.source)
    /\ store[m.source].gen = m.sgen
    /\ store[m.source].state \in {"active", "quiescing"}
    /\ store[m.source].cap.mig = id /\ store[m.source].cap.on
    /\ store' = [store EXCEPT ![m.source].on = FALSE, ![m.source].state = "quiescing"]

\* EnableTarget records the baseline the evidence is later compared with.
EnableTarget(m) ==
    LET x == store[m.target] IN
    /\ Quiet(m.target)
    /\ x.ev.row /\ ~x.ev.wrote
    /\ x.gen = m.tgen
    /\ x.state \in {"standby", "active"}
    /\ store' = [store EXCEPT
         ![m.target].on = TRUE,
         ![m.target].state = "active",
         ![m.target].ev.base = IF @ = NoBaseline THEN x.rows[Outbox] ELSE @]

\* TargetWriteCount and TargetCommandOutboxEvidence: has the target counted a
\* write, and do its rows show one.  Both fail when the row they need is missing.
TargetWriteCountKnown(m) == store[m.target].gen = m.tgen /\ store[m.target].ev.row
TargetWrote(m) == store[m.target].ev.wrote
EvidenceKnown(m) == TargetWriteCountKnown(m) /\ store[m.target].ev.base # NoBaseline
RowsShowWrite(m) == store[m.target].rows[Outbox] # store[m.target].ev.base

-----------------------------------------------------------------------------
(* Rollback and completion. *)

\* disableZeroWriteTarget
ZeroWriteTarget(m) ==
    LET x == store[m.target] IN
    /\ x.gen = m.tgen
    /\ x.ev.row /\ ~x.ev.wrote
    /\ IF x.ev.base = NoBaseline
       THEN ~x.on /\ x.state \in {"standby", "disabled"}
       ELSE ~RowsShowWrite(m)
    /\ x.state \in {"standby", "active", "disabled"}

DisableZeroWriteTarget(m) ==
    /\ Quiet(m.target)
    /\ ZeroWriteTarget(m)
    /\ store' = [store EXCEPT
         ![m.target].on = FALSE,
         ![m.target].state = "disabled",
         ![m.target].ev.base = IF @ = NoBaseline THEN store[m.target].rows[Outbox] ELSE @]

\* rebindRollbackSource: the snapshot's new generation cascades to the fence.
RebindRollbackSource(m, id, gen) ==
    /\ Quiet(m.source)
    /\ store[m.source].gen \in {m.sgen, gen}
    /\ store[m.source].state \in {"quiescing", "retained", "active"}
    /\ store' = [store EXCEPT
         ![m.source].gen = gen,
         ![m.source].on = TRUE,
         ![m.source].state = "active",
         ![m.source].cap.on = IF store[m.source].cap.mig = id THEN FALSE ELSE @]

DisableCapture(m, id) ==
    /\ store[m.source].cap.mig = id
    /\ store' = [store EXCEPT ![m.source].cap.on = FALSE]

RetainSource(m) ==
    /\ store[m.source].gen = m.sgen
    /\ store[m.source].state \in {"quiescing", "retained"}
    /\ store' = [store EXCEPT ![m.source].on = FALSE, ![m.source].state = "retained"]

\* The deletions of a cleanup name the generation, so a repeated cleanup does
\* not touch what a later migration brought back.
CleanupRetained(m, resuming) ==
    IF store[m.source].gen = m.sgen
    THEN /\ ~store[m.source].on /\ store[m.source].state = "retained"
         /\ store' = [store EXCEPT ![m.source] = EmptyStore]
    ELSE resuming /\ UNCHANGED store
=============================================================================
