------------------------------ MODULE ReadModel ------------------------------
(***************************************************************************)
(* The journey projection and the worker that keeps it                     *)
(* (internal/query/readmodel).  Consumers of one Redis consumer group take *)
(* the events the relay published, rotate the cache namespaces an event    *)
(* makes stale, rebuild the train runs it affects page by page, and write  *)
(* a receipt when everything is done.  Operators rebuild the projection    *)
(* and redrive events by hand.                                             *)
(*                                                                         *)
(* What a row shows is abstracted to the set of changes it reflects: a     *)
(* rebuild of a train run reloads the source, so it reflects every change  *)
(* committed by then that concerns the run.                                *)
(***************************************************************************)
EXTENDS EventRelay, Sequences

CONSTANTS
    Runs,               \* train runs, numbered 1, 2, ... in the order of their identifiers
    Impact,             \* the train runs an event's aggregate concerns
    ProjectionEvents,   \* trainrun, station, route, train and fare events
    AvailabilityEvents, \* reservation, ticket, trainrun, coach and seat events
    CreatedBy,          \* the event that announces a run's creation; 0: it exists
    Consumers,          \* read-model worker processes
    Admins,             \* read-model-admin commands being run
    ConsumerBatch,      \* READ_MODEL_WORKER_BATCH_SIZE
    MaxDeliveries,      \* READ_MODEL_MAX_ATTEMPTS
    PageLimit,          \* MaxRebuildAllBatchSize, of impact pages and of rebuild pages
    Built               \* the projection was built once before the first event

ASSUME RunsAssumption == IsFiniteSet(Runs) /\ Runs \subseteq 1..Cardinality(Runs)
ASSUME ImpactAssumption ==
    /\ Impact \in [Events -> SUBSET Runs]
    /\ CreatedBy \in [Runs -> ProjectionEvents \cup {0}]
    /\ \A r \in Runs : CreatedBy[r] # 0 => r \in Impact[CreatedBy[r]]
    /\ 0 \notin Events
ASSUME EventKindsAssumption ==
    /\ ProjectionEvents \subseteq Events
    /\ AvailabilityEvents \subseteq Events
ASSUME ConsumerConfigAssumption ==
    /\ ConsumerBatch \in Nat \ {0}
    /\ MaxDeliveries \in Nat \ {0}
    /\ PageLimit \in Nat \ {0}
    /\ Built \in BOOLEAN

VARIABLES
    stream,             \* the Redis stream: the event of every entry ever added
    readTo,             \* the group's last delivered entry
    pel,                \* pending entries: how often each was delivered
    dlq,                \* events in the dead-letter stream
    progress,           \* read_model_event_progress
    receipts,           \* read_model_event_receipts
    projection,         \* train_run_journey_read_model: what each run's rows reflect
    state,              \* read_model_projection_state
    version,            \* the current token of every cache namespace; 0: no key
    consumer,           \* each consumer's pass
    admin               \* each admin command

readModelVars == <<stream, readTo, pel, dlq, progress, receipts, projection, state,
                   version, consumer, admin>>

NoRows == {0}           \* a run without projection rows

NoProgress == [phase |-> "none", after |-> 0]

Search == 0             \* the search namespace; a run names its availability one

Phases == {"none", "invalidating", "processing", "finalizing"}

Cursor == Runs \cup {0}

ConsumerSteps == {"idle", "begin", "rotate", "mark", "resolve", "rotateRuns", "process",
                  "commit", "complete", "ack", "continue"}

ConsumerIdle == [pc |-> "idle", todo |-> {}, after |-> 0, page |-> {}, left |-> {},
                 more |-> FALSE, asOf |-> {}]

AdminIdle == [pc |-> "idle", event |-> 0, after |-> 0, left |-> {}, last |-> 0, more |-> FALSE,
              run |-> 0, asOf |-> {}]

ReadModelTypeOK ==
    /\ stream \in Seq(Events)
    /\ readTo \in 0..Len(stream)
    /\ DOMAIN pel \subseteq 1..readTo /\ \A m \in DOMAIN pel : pel[m] \in Nat \ {0}
    /\ dlq \subseteq Events
    /\ progress \in [Events -> [phase : Phases, after : Cursor]]
    /\ receipts \subseteq Events
    /\ projection \in [Runs -> (SUBSET Events) \cup {NoRows}]
    /\ state \in [ready : BOOLEAN, after : Cursor]
    /\ version \in [Cursor -> Nat]
    /\ consumer \in [Consumers -> [pc : ConsumerSteps, todo : SUBSET Nat, after : Cursor,
                                   page : SUBSET Runs, left : SUBSET Runs, more : BOOLEAN,
                                   asOf : SUBSET Events]]
    /\ admin \in [Admins -> [pc : {"idle", "enqueue", "list", "rebuild", "commitRun", "commitCandidate"},
                             event : Events \cup {0}, after : Cursor, left : SUBSET Runs,
                             last : Cursor, more : BOOLEAN, run : Cursor, asOf : SUBSET Events]]

-----------------------------------------------------------------------------
(* The source tables, as the changes that have been committed to them. *)
Exists(r) == CreatedBy[r] = 0 \/ CreatedBy[r] \in Created

Journeys(r) == {e \in Created \cap ProjectionEvents : r \in Impact[e]}

Seats(r) == {e \in Created \cap AvailabilityEvents : r \in Impact[e]}

(***************************************************************************)
(* rebuildTrainRunTx replaces the run's rows by what the source held when  *)
(* the transaction read it: asOf is what had been committed by then.       *)
(***************************************************************************)
Rebuilt(r, asOf) ==
    IF CreatedBy[r] = 0 \/ CreatedBy[r] \in asOf
    THEN {e \in asOf \cap ProjectionEvents : r \in Impact[e]} ELSE NoRows

(* A keyset page: the first runs of S after the cursor, and whether more follow. *)
Page(S, after) == {r \in S : after < r /\ Cardinality({q \in S : after < q /\ q < r}) < PageLimit}

HasMore(S, after) == {r \in S : after < r} # Page(S, after)

Last(S, default) == IF S = {} THEN default ELSE CHOOSE r \in S : \A q \in S : q <= r

(***************************************************************************)
(* AffectedTrainRunIDs: the runs of the event's aggregate in the source    *)
(* tables as they are when it is asked.                                    *)
(***************************************************************************)
Affected(e) == {r \in Impact[e] : Exists(r)}

(***************************************************************************)
(* The gate of Store.SearchTrainRuns: the projection is used only when it  *)
(* was built once and no projection event is under way or still to come.   *)
(***************************************************************************)
ProjectionAvailable ==
    /\ state.ready
    /\ \A e \in ProjectionEvents : progress[e].phase = "none"
    /\ \A e \in Created \cap ProjectionEvents : e \in receipts \/ progress[e].phase # "none"

ReadModelInit ==
    /\ stream = <<>> /\ readTo = 0 /\ pel = <<>> /\ dlq = {}
    /\ progress = [e \in Events |-> NoProgress]
    /\ receipts = {}
    /\ projection = [r \in Runs |-> IF Built THEN Rebuilt(r, {}) ELSE NoRows]
    /\ state = [ready |-> Built,
                after |-> IF Built THEN Last({r \in Runs : CreatedBy[r] = 0}, 0) ELSE 0]
    /\ version = [k \in Cursor |-> 0]
    /\ consumer = [c \in Consumers |-> ConsumerIdle]
    /\ admin = [a \in Admins |-> AdminIdle]

-----------------------------------------------------------------------------
XAdd(e) == stream' = Append(stream, e)

Rotate(k) == version' = [version EXCEPT ![k] = @ + 1]

(* A consumer goes through its messages in the order of their entries. *)
Current(c, m) ==
    /\ m \in consumer[c].todo
    /\ \A n \in consumer[c].todo : m <= n

(* lockProjectionEvent: held by a consumer from reading the event's row to its commit. *)
EventLocked(e) ==
    \E c \in Consumers : consumer[c].pc = "commit" /\ \E m \in consumer[c].todo :
       Current(c, m) /\ stream[m] = e

(* Mutant: rebuilds of one train run do not wait for each other. *)
RunNeverLocked(r) == FALSE

(* lockTrainRunProjection: held from before the source is read to the commit. *)
RunLocked(r) ==
    \/ \E c \in Consumers : consumer[c].pc = "commit" /\ r \in consumer[c].page
    \/ \E a \in Admins : admin[a].pc \in {"commitRun", "commitCandidate"} /\ admin[a].run = r

BeingHandled(m) == \E c \in Consumers : m \in consumer[c].todo

(* The next message of the pass, or the end of it. *)
NextMessage(c, m) ==
    LET rest == consumer[c].todo \ {m}
    IN consumer' = [consumer EXCEPT ![c] =
                      [ConsumerIdle EXCEPT !.todo = rest,
                                           !.pc = IF rest = {} THEN "idle" ELSE "begin"]]

GoTo(c, pc) == consumer' = [consumer EXCEPT ![c].pc = pc]

Drop(f, m) == [n \in DOMAIN f \ {m} |-> f[n]]

(* The phase of the row decides what HandleEvent does next. *)
StepOf(phase) ==
    CASE phase = "invalidating" -> "rotate"
      [] phase = "processing" -> "resolve"
      [] phase = "finalizing" -> "complete"
      [] phase = "none" -> "continue"

(***************************************************************************)
(* RunOnce up to its loop: ClaimPending takes over idle entries of any     *)
(* consumer, ReadNew fills the batch with entries never delivered.         *)
(***************************************************************************)
Receive(c, claimed) ==
    /\ consumer[c].pc = "idle"
    /\ claimed \subseteq DOMAIN pel /\ Cardinality(claimed) <= ConsumerBatch
    /\ LET room == ConsumerBatch - Cardinality(claimed)
           fresh == {m \in 1..Len(stream) : readTo < m /\ m <= readTo + room}
           todo == claimed \cup fresh
       IN /\ todo # {}
          /\ readTo' = readTo + Cardinality(fresh)
          /\ pel' = [m \in DOMAIN pel \cup fresh |->
                       IF m \in fresh THEN 1 ELSE IF m \in claimed THEN pel[m] + 1 ELSE pel[m]]
          /\ consumer' = [consumer EXCEPT ![c] = [ConsumerIdle EXCEPT !.pc = "begin", !.todo = todo]]
    /\ UNCHANGED <<stream, dlq, progress, receipts, projection, state, version, admin>>

(* BeginEventProgress: a completed event is done, another one is created or resumed. *)
BeginEventProgress(c, m) ==
    /\ consumer[c].pc = "begin" /\ Current(c, m) /\ ~EventLocked(stream[m])
    /\ LET e == stream[m]
           row == IF progress[e].phase = "none"
                  THEN [phase |-> "invalidating", after |-> 0] ELSE progress[e]
       IN IF e \in receipts
          THEN GoTo(c, "ack") /\ UNCHANGED progress
          ELSE /\ progress' = [progress EXCEPT ![e] = row]
               /\ consumer' = [consumer EXCEPT ![c].pc = StepOf(row.phase), ![c].after = row.after]
    /\ UNCHANGED <<stream, readTo, pel, dlq, receipts, projection, state, version, admin>>

(* rotateGlobalCaches: the search namespace, for the events that change journeys. *)
RotateGlobalCaches(c, m) ==
    /\ consumer[c].pc = "rotate" /\ Current(c, m)
    /\ IF stream[m] \in ProjectionEvents THEN Rotate(Search) ELSE UNCHANGED version
    /\ GoTo(c, "mark")
    /\ UNCHANGED <<stream, readTo, pel, dlq, progress, receipts, projection, state, admin>>

MarkEventInvalidated(c, m) ==
    /\ consumer[c].pc = "mark" /\ Current(c, m) /\ ~EventLocked(stream[m])
    /\ LET e == stream[m]
           row == IF progress[e].phase = "invalidating"
                  THEN [progress[e] EXCEPT !.phase = "processing"] ELSE progress[e]
       IN /\ progress' = [progress EXCEPT ![e] = row]
          /\ consumer' = [consumer EXCEPT ![c].pc = StepOf(row.phase), ![c].after = row.after]
    /\ UNCHANGED <<stream, readTo, pel, dlq, receipts, projection, state, version, admin>>

(* The next page of affected runs, asked for only when the event needs it. *)
ResolveImpact(c, m) ==
    /\ consumer[c].pc = "resolve" /\ Current(c, m)
    /\ LET e == stream[m]
           runs == IF e \in ProjectionEvents \cup AvailabilityEvents THEN Affected(e) ELSE {}
           page == Page(runs, consumer[c].after)
       IN consumer' = [consumer EXCEPT
                         ![c].pc = "rotateRuns",
                         ![c].page = page,
                         ![c].left = IF e \in AvailabilityEvents THEN page ELSE {},
                         ![c].more = HasMore(runs, consumer[c].after)]
    /\ UNCHANGED <<stream, readTo, pel, dlq, progress, receipts, projection, state, version, admin>>

(* rotateAvailabilityCaches, one train run after the other. *)
RotateAvailabilityCaches(c, m) ==
    /\ consumer[c].pc = "rotateRuns" /\ Current(c, m)
    /\ IF consumer[c].left = {}
       THEN GoTo(c, "process") /\ UNCHANGED version
       ELSE \E r \in consumer[c].left :
               /\ \A q \in consumer[c].left : r <= q
               /\ Rotate(r)
               /\ consumer' = [consumer EXCEPT ![c].left = @ \ {r}]
    /\ UNCHANGED <<stream, readTo, pel, dlq, progress, receipts, projection, state, admin>>

(***************************************************************************)
(* ProcessEventPage up to its last read: nothing unless the row is still   *)
(* where this consumer found it.  The locks of a page's runs are taken in  *)
(* the order of their identifiers, so consumers never wait in a circle.    *)
(***************************************************************************)
ProcessEventPage(c, m) ==
    /\ consumer[c].pc = "process" /\ Current(c, m) /\ ~EventLocked(stream[m])
    /\ LET row == progress[stream[m]]
       IN \/ /\ ~(row.phase = "processing" /\ row.after = consumer[c].after)
             /\ GoTo(c, "continue")
          \/ /\ row.phase = "processing" /\ row.after = consumer[c].after
             /\ \A r \in consumer[c].page : ~RunLocked(r)
             /\ consumer' = [consumer EXCEPT ![c].pc = "commit", ![c].asOf = Created]
    /\ UNCHANGED <<stream, readTo, pel, dlq, progress, receipts, projection, state, version, admin>>

(* Mutant: the first page is taken for the last. *)
CommitOnlyPage(c, m) ==
    /\ consumer[c].pc = "commit" /\ Current(c, m)
    /\ LET e == stream[m]
           me == consumer[c]
       IN /\ progress' = [progress EXCEPT ![e] =
                            [phase |-> "finalizing", after |-> Last(me.page, me.after)]]
          /\ projection' = [r \in Runs |-> IF e \in ProjectionEvents /\ r \in me.page
                                           THEN Rebuilt(r, me.asOf) ELSE projection[r]]
          /\ GoTo(c, "complete")
    /\ UNCHANGED <<stream, readTo, pel, dlq, receipts, state, version, admin>>

(* ProcessEventPage: the rows of the page and the cursor, in one commit. *)
CommitEventPage(c, m) ==
    /\ consumer[c].pc = "commit" /\ Current(c, m)
    /\ LET e == stream[m]
           me == consumer[c]
       IN /\ progress' = [progress EXCEPT ![e] =
                            [phase |-> IF me.more THEN "processing" ELSE "finalizing",
                             after |-> Last(me.page, me.after)]]
          /\ projection' = [r \in Runs |-> IF e \in ProjectionEvents /\ r \in me.page
                                           THEN Rebuilt(r, me.asOf) ELSE projection[r]]
          /\ GoTo(c, IF me.more THEN "continue" ELSE "complete")
    /\ UNCHANGED <<stream, readTo, pel, dlq, receipts, state, version, admin>>

(* CompleteEvent: the receipt, once the row says that every page is done. *)
CompleteEvent(c, m) ==
    /\ consumer[c].pc = "complete" /\ Current(c, m) /\ ~EventLocked(stream[m])
    /\ LET e == stream[m]
       IN \/ /\ e \in receipts
             /\ GoTo(c, "ack") /\ UNCHANGED <<progress, receipts>>
          \/ /\ e \notin receipts /\ progress[e].phase # "finalizing"
             /\ GoTo(c, "continue") /\ UNCHANGED <<progress, receipts>>
          \/ /\ e \notin receipts /\ progress[e].phase = "finalizing"
             /\ receipts' = receipts \cup {e}
             /\ progress' = [progress EXCEPT ![e] = NoProgress]
             /\ GoTo(c, "ack")
    /\ UNCHANGED <<stream, readTo, pel, dlq, projection, state, version, admin>>

(* Ack: an entry another consumer acknowledged first is a conflict, and over as well. *)
Ack(c, m) ==
    /\ consumer[c].pc = "ack" /\ Current(c, m)
    /\ pel' = Drop(pel, m)
    /\ NextMessage(c, m)
    /\ UNCHANGED <<stream, readTo, dlq, progress, receipts, projection, state, version, admin>>

(* Mutant: the entry of an unfinished event is acknowledged and not continued. *)
AckUnfinished(c, m) ==
    /\ consumer[c].pc = "continue" /\ Current(c, m)
    /\ pel' = Drop(pel, m)
    /\ NextMessage(c, m)
    /\ UNCHANGED <<stream, readTo, dlq, progress, receipts, projection, state, version, admin>>

(* ContinueAndAck: the event is appended again and the entry acknowledged, or neither. *)
ContinueAndAck(c, m) ==
    /\ consumer[c].pc = "continue" /\ Current(c, m)
    /\ IF m \in DOMAIN pel THEN XAdd(stream[m]) ELSE UNCHANGED stream
    /\ pel' = Drop(pel, m)
    /\ NextMessage(c, m)
    /\ UNCHANGED <<readTo, dlq, progress, receipts, projection, state, version, admin>>

(***************************************************************************)
(* HandleEvent fails: a database or Redis call returned an error.  The     *)
(* entry stays pending, or goes to the dead-letter stream when it has been *)
(* delivered often enough and that call does not fail as well.             *)
(***************************************************************************)
HandleFailure(c, m) ==
    /\ consumer[c].pc \notin {"idle", "ack", "continue"} /\ Current(c, m)
    /\ \/ /\ m \in DOMAIN pel /\ pel[m] >= MaxDeliveries
          /\ pel' = Drop(pel, m) /\ dlq' = dlq \cup {stream[m]}
       \/ UNCHANGED <<pel, dlq>>
    /\ NextMessage(c, m)
    /\ UNCHANGED <<stream, readTo, progress, receipts, projection, state, version, admin>>

(* The acknowledgement fails: the entry stays pending. *)
AckError(c, m) ==
    /\ consumer[c].pc \in {"ack", "continue"} /\ Current(c, m)
    /\ NextMessage(c, m)
    /\ UNCHANGED <<stream, readTo, pel, dlq, progress, receipts, projection, state, version, admin>>

(* The process dies or its pass ends early; what it was given stays pending. *)
ConsumerCrash(c) ==
    /\ consumer[c].pc # "idle"
    /\ consumer' = [consumer EXCEPT ![c] = ConsumerIdle]
    /\ UNCHANGED <<stream, readTo, pel, dlq, progress, receipts, projection, state, version, admin>>

-----------------------------------------------------------------------------
(* RebuildTrainRun: lock the run, read the source, then commit its new rows. *)
LoadTrainRun(a, r, pc) ==
    /\ ~RunLocked(r)
    /\ admin' = [admin EXCEPT ![a].pc = pc, ![a].run = r, ![a].asOf = Created,
                              ![a].left = @ \ {r}]

CommitTrainRun(a) ==
    /\ admin[a].pc \in {"commitRun", "commitCandidate"}
    /\ projection' = [projection EXCEPT ![admin[a].run] = Rebuilt(admin[a].run, admin[a].asOf)]
    /\ admin' = [admin EXCEPT ![a] = IF admin[a].pc = "commitRun" THEN AdminIdle
                                     ELSE [admin[a] EXCEPT !.pc = "rebuild", !.run = 0, !.asOf = {}]]
    /\ UNCHANGED <<stream, readTo, pel, dlq, progress, receipts, state, version, consumer>>

(* read-model-admin rebuild-train-run *)
RebuildTrainRun(a, r) ==
    /\ admin[a].pc = "idle"
    /\ LoadTrainRun(a, r, "commitRun")
    /\ UNCHANGED <<stream, readTo, pel, dlq, progress, receipts, projection, state, version, consumer>>

(***************************************************************************)
(* read-model-admin rebuild-all.  A rebuild from the start takes the       *)
(* projection out of use; a later page must resume where the last ended.   *)
(***************************************************************************)
BeginRebuildAll(a, after) ==
    /\ admin[a].pc = "idle"
    /\ after # 0 => state.after = after
    /\ state' = IF after = 0 THEN [ready |-> FALSE, after |-> 0] ELSE state
    /\ admin' = [admin EXCEPT ![a] = [AdminIdle EXCEPT !.pc = "list", !.after = after]]
    /\ UNCHANGED <<stream, readTo, pel, dlq, progress, receipts, projection, version, consumer>>

ListRebuildCandidates(a) ==
    /\ admin[a].pc = "list"
    /\ LET runs == {r \in Runs : Exists(r)}
           page == Page(runs, admin[a].after)
       IN admin' = [admin EXCEPT ![a].pc = "rebuild", ![a].left = page,
                                 ![a].last = Last(page, admin[a].after),
                                 ![a].more = HasMore(runs, admin[a].after)]
    /\ UNCHANGED <<stream, readTo, pel, dlq, progress, receipts, projection, state, version, consumer>>

RebuildCandidate(a, r) ==
    /\ admin[a].pc = "rebuild"
    /\ r \in admin[a].left /\ \A q \in admin[a].left : r <= q
    /\ LoadTrainRun(a, r, "commitCandidate")
    /\ UNCHANGED <<stream, readTo, pel, dlq, progress, receipts, projection, state, version, consumer>>

CheckpointRebuildAll(a) ==
    /\ admin[a].pc = "rebuild" /\ admin[a].left = {}
    /\ state' = IF state.after = admin[a].after
                THEN [ready |-> ~admin[a].more, after |-> admin[a].last] ELSE state
    /\ admin' = [admin EXCEPT ![a] = AdminIdle]
    /\ UNCHANGED <<stream, readTo, pel, dlq, progress, receipts, projection, version, consumer>>

(***************************************************************************)
(* read-model-admin resume-event and replay-outbox: look an unfinished     *)
(* event up, then add it to the stream again.                              *)
(***************************************************************************)
PendingEvent(a, e) ==
    /\ admin[a].pc = "idle"
    /\ \/ progress[e].phase # "none"
       \/ outbox[e].status \in {"published", "dead_letter"} /\ e \notin receipts
    /\ admin' = [admin EXCEPT ![a] = [AdminIdle EXCEPT !.pc = "enqueue", !.event = e]]
    /\ UNCHANGED <<stream, readTo, pel, dlq, progress, receipts, projection, state, version, consumer>>

EnqueueEvent(a) ==
    /\ admin[a].pc = "enqueue"
    /\ XAdd(admin[a].event)
    /\ admin' = [admin EXCEPT ![a] = AdminIdle]
    /\ UNCHANGED <<readTo, pel, dlq, progress, receipts, projection, state, version, consumer>>

(* The command is interrupted: pages already rebuilt stay, nothing is checkpointed. *)
AdminStops(a) ==
    /\ admin[a].pc # "idle"
    /\ admin' = [admin EXCEPT ![a] = AdminIdle]
    /\ UNCHANGED <<stream, readTo, pel, dlq, progress, receipts, projection, state, version, consumer>>
=============================================================================
