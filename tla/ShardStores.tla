---------------------------- MODULE ShardStores ----------------------------
(***************************************************************************)
(* Where one train run's booking rows live and who may write them.         *)
(*                                                                         *)
(* A run is assigned to one store at a time: a schema of the control       *)
(* database (ControlShards: legacy, shard-0, shard-1) or a database of its *)
(* own (PhysicalShards).  Three things decide whether a write happens:     *)
(*   - assignment, the row of train_run_shard_assignments;                 *)
(*   - the route the writer holds, which may be any route ever resolved    *)
(*     (a cache entry, a command planned earlier, a slow resolver);        *)
(*   - the write fence of the store, a row the write transaction locks.    *)
(* Writes on a control schema lock the assignment row until they commit,   *)
(* and are one action.  Writes on a physical shard cannot see the control  *)
(* database: they lock the fence (booking commands the run's snapshot row  *)
(* too), and other steps happen before they commit.                        *)
(*                                                                         *)
(* A row is represented by the number of the write that produced it, so    *)
(* two stores hold the same data exactly when their numbers agree.         *)
(***************************************************************************)
EXTENDS Integers, Sequences, FiniteSets, SequencesExt

CONSTANTS
    ControlShards,   \* schemas of the control database
    PhysicalShards,  \* booking databases
    Homes,           \* the stores a run may be created in
    NumTables,       \* tables copied one batch at a time
    JournalBatch,    \* entries one replay batch may hold
    MaxWrites,       \* bound: writes committed in a behaviour
    MaxPlans         \* bound: migrations planned in a behaviour

VARIABLES
    assignment,  \* the run's row of train_run_shard_assignments
    store,       \* per store: fence, rows, capture, receipts, evidence
    txn,         \* per physical shard: the write transaction holding its fence
    known,       \* the routes that were resolved and may still be held
    latest,      \* history: for every table the last committed write
    genWrites,   \* rows of train_run_generation_writes
    pm,          \* physical_shard_migrations, in the order of planning
    lm,          \* train_run_shard_migrations, in the order of planning
    op           \* the admin process: what it did and has not recorded yet

vars == <<assignment, store, txn, known, latest, genWrites, pm, lm, op>>

Shards == ControlShards \cup PhysicalShards
Tables == 1..NumTables

\* outbox_events is copied apart from the other tables.
Outbox == 0
AllTables == {Outbox} \cup Tables

\* The snapshot table, whose copy also installs the target's fence.
Snapshot == 1

\* A row never written in this store, and the rows the run was created with.
Absent == 0
Created == 1
Versions == 0..(MaxWrites + 1)

ASSUME ShardAssumption ==
    /\ ControlShards \cap PhysicalShards = {}
    /\ Homes \subseteq Shards
    /\ NumTables \in Nat \ {0}
    /\ JournalBatch \in Nat \ {0}
    /\ MaxWrites \in Nat
    /\ MaxPlans \in Nat

NoTxn == [locks |-> "none", logged |-> FALSE]
NoCapture == [mig |-> 0, on |-> FALSE, log |-> <<>>]
NoReceipts == [mig |-> 0, upto |-> 0]

\* base is the outbox counted when the baseline was initialised.
NoBaseline == -1
NoEvidence == [row |-> FALSE, wrote |-> FALSE, base |-> NoBaseline]

EmptyStore ==
    [gen |-> 0, on |-> FALSE, state |-> "none",
     rows |-> [t \in AllTables |-> Absent],
     cap |-> NoCapture, receipts |-> NoReceipts, ev |-> NoEvidence]

\* The state of a control schema's fence row, which only has a flag.
Plain == "plain"

NoOp == [at |-> "idle", mig |-> 0, batch |-> <<>>, seq |-> 0, goal |-> 0]

Route == [shard |-> assignment.shard, gen |-> assignment.gen]

-----------------------------------------------------------------------------
(* Routes. *)

\* CatalogRouter.load gives out the route of a physical shard in these states;
\* loadTrainRun that of a control schema in any.
CatalogLoads(a) == a.state \in {"stable", "migrating", "rollback_window"}
Resolvable(a) == a.shard \in ControlShards \/ CatalogLoads(a)

\* A route is resolved as soon as it can be and then kept for ever: both routers
\* cache it, commands and sagas store it.  A writer that resolves it later or
\* forgets it does nothing that this one does not.
ResolvedBy(a) ==
    known' = known \cup
        (IF Resolvable(a) THEN {[shard |-> a.shard, gen |-> a.gen]} ELSE {})

-----------------------------------------------------------------------------
(* Admission of writes. *)

\* BeginTrainRunWrite: what a routed write on a control schema is told.
RoutedVerdict(r) ==
    CASE r # Route -> "stale"
      [] assignment.state = "draining" -> "migrating"
      [] assignment.state = "stable" /\ assignment.logical # 0 -> "migrating"
      [] assignment.state = "migrating" /\ assignment.logical = 0 -> "unavailable"
      [] store[r.shard].gen # r.gen \/ ~store[r.shard].on -> "fenced"
      [] OTHER -> "ok"

\* BeginTrainRunWriteWithRefresh: one refresh of a stale route, then as it is.
RefreshedRoute(r) == IF RoutedVerdict(r) = "stale" THEN Route ELSE r

\* recordSuccessfulGenerationWrite: in a rollback window a write is refused
\* unless it can be counted against the logical migration that opened it.
GenerationWriteRecorded(r) ==
    assignment.logical = 0 => assignment.state # "rollback_window"

CountGenerationWrite(r) ==
    IF assignment.logical = 0 THEN genWrites
    ELSE LET old == {w \in genWrites : w.gen = r.gen}
             count == IF old = {} THEN 0 ELSE (CHOOSE w \in old : TRUE).count
         IN (genWrites \ old) \cup
              {[gen |-> r.gen, shard |-> r.shard, mig |-> assignment.logical,
                count |-> count + 1]}

\* BeginWrite and lockFence: a physical shard only compares the route with
\* its own fence row.
FenceAdmits(s, gen) ==
    /\ store[s].gen = gen
    /\ store[s].on
    /\ store[s].state = "active"

-----------------------------------------------------------------------------
(* Committing a write. *)

\* The number of the next write.
NextWrite == latest[Outbox] + 1

\* booking_shard_capture_mutation: one journal entry for each row changed
\* while capture is on.  The outbox of a physical shard is not captured.
Journaled(s, t) ==
    IF s \in PhysicalShards THEN <<t>> ELSE <<t, Outbox>>

\* A committed write changes a row and appends an outbox event.
WriteRows(s, t, logged) ==
    /\ latest' = [latest EXCEPT ![t] = NextWrite, ![Outbox] = NextWrite]
    /\ store' = [store EXCEPT
         ![s].rows[t] = NextWrite,
         ![s].rows[Outbox] = NextWrite,
         ![s].cap.log = IF logged THEN @ \o Journaled(s, t) ELSE @,
         ![s].ev = IF s \in PhysicalShards
                   THEN [@ EXCEPT !.row = TRUE, !.wrote = TRUE] ELSE @]

\* A booking operation on a control schema, from BeginTrainRunWriteWithRefresh
\* to commit.  The trigger on the control database journals while the
\* assignment is not in a rollback window.
RoutedWrite(r, t) ==
    LET used == RefreshedRoute(r) IN
    /\ NextWrite <= MaxWrites + 1
    /\ used.shard \in ControlShards
    /\ RoutedVerdict(used) = "ok"
    /\ GenerationWriteRecorded(used)
    /\ WriteRows(used.shard, t,
                 store[used.shard].cap.on /\ assignment.state # "rollback_window")
    /\ genWrites' = CountGenerationWrite(used)
    /\ UNCHANGED <<assignment, txn, known, pm, lm, op>>

\* Opening a transaction on a physical shard and changing its first row: the
\* trigger locks the capture row, if there is one, and sees whether it is on.
OpenTxn(s, locks) ==
    /\ txn[s] = NoTxn
    /\ NextWrite <= MaxWrites + 1
    /\ txn' = [txn EXCEPT ![s] = [locks |-> locks, logged |-> store[s].cap.on]]
    /\ UNCHANGED <<assignment, store, known, latest, genWrites, pm, lm, op>>

\* BeginWrite: a booking command executed with a route resolved earlier.
BeginBooking(r) ==
    /\ r.shard \in PhysicalShards
    /\ FenceAdmits(r.shard, r.gen)
    /\ OpenTxn(r.shard, "fence and snapshot")

\* A payment command: resolve compares its route with a freshly resolved or
\* cached one, lockFence with the fence.  Only the fence row is locked.
BeginPayment(r) ==
    /\ r.shard \in PhysicalShards
    /\ FenceAdmits(r.shard, r.gen)
    /\ OpenTxn(r.shard, "fence")

\* expireOne: the worker of a shard holds no route at all.
BeginExpire(s) ==
    /\ FenceAdmits(s, store[s].gen)
    /\ OpenTxn(s, "fence")

\* The commit, with its outbox event and its evidence row.
CommitShardWrite(s, t) ==
    /\ txn[s] # NoTxn
    /\ NextWrite <= MaxWrites + 1
    /\ WriteRows(s, t, txn[s].logged)
    /\ txn' = [txn EXCEPT ![s] = NoTxn]
    /\ UNCHANGED <<assignment, known, genWrites, pm, lm, op>>

\* The transaction is abandoned: a refused command, a lost connection.
AbortShardWrite(s) ==
    /\ txn[s] # NoTxn
    /\ txn' = [txn EXCEPT ![s] = NoTxn]
    /\ UNCHANGED <<assignment, store, known, latest, genWrites, pm, lm, op>>

WriterNext ==
    \/ \E r \in known, t \in Tables : RoutedWrite(r, t)
    \/ \E r \in known : BeginBooking(r)
    \/ \E r \in known : BeginPayment(r)
    \/ \E s \in PhysicalShards : BeginExpire(s)
    \/ \E s \in PhysicalShards, t \in Tables : CommitShardWrite(s, t)
    \/ \E s \in PhysicalShards : AbortShardWrite(s)

-----------------------------------------------------------------------------
(* A run as it is created: assigned to a home store that holds its rows and *)
(* is open for writing at generation 1.                                     *)
HomeStore(s) ==
    [EmptyStore EXCEPT
        !.gen = 1, !.on = TRUE,
        !.state = IF s \in PhysicalShards THEN "active" ELSE Plain,
        !.rows = [t \in AllTables |-> Created]]

StoresInit(home) ==
    /\ assignment = [shard |-> home, gen |-> 1, state |-> "stable",
                     logical |-> 0, physical |-> 0]
    /\ store = [s \in Shards |-> IF s = home THEN HomeStore(s) ELSE EmptyStore]
    /\ txn = [s \in PhysicalShards |-> NoTxn]
    /\ known = {Route}
    /\ latest = [t \in AllTables |-> Created]
    /\ genWrites = {}
    /\ pm = <<>>
    /\ lm = <<>>
    /\ op = NoOp
=============================================================================
