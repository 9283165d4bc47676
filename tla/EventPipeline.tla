---------------------------- MODULE EventPipeline ----------------------------
(***************************************************************************)
(* From a committed change to what a search shows: the outbox relay, the   *)
(* Redis stream, the read-model workers, the projection and the caches.    *)
(***************************************************************************)
EXTENDS QueryCache

CONSTANTS
    MaxFaults,          \* bound: crashes, errors and lost leases in a behaviour
    MaxCommands,        \* bound: admin commands in a behaviour
    MaxRequests         \* bound: cached reads in a behaviour

ASSUME BoundsAssumption == {MaxFaults, MaxCommands, MaxRequests} \subseteq Nat

VARIABLE spent          \* how many of each bound a behaviour has used

vars == <<outbox, relay, stream, readTo, pel, dlq, progress, receipts, projection, state,
          version, consumer, admin, cache, reader, spent>>

Spend(what, bound) ==
    /\ spent[what] < bound
    /\ spent' = [spent EXCEPT ![what] = @ + 1]

Fault == Spend("faults", MaxFaults)

TypeOK ==
    /\ RelayTypeOK
    /\ ReadModelTypeOK
    /\ CacheTypeOK
    /\ spent \in [{"faults", "commands", "requests"} -> Nat]

Init ==
    /\ RelayInit
    /\ ReadModelInit
    /\ CacheInit
    /\ spent = [w \in {"faults", "commands", "requests"} |-> 0]

-----------------------------------------------------------------------------
(* A change of the source tables and its event, in one transaction. *)
CommitChange(e) ==
    /\ InsertOutbox(e)
    /\ UNCHANGED <<readModelVars, cacheVars, spent>>

(* Taking over a row its worker still works on needs a delay past the timeout. *)
RelayClaim(w) ==
    /\ \E due \in SUBSET Claimable :
          /\ Claim(w, due)
          /\ IF \E e \in due : HeldLive(e) THEN Fault ELSE UNCHANGED spent
    /\ UNCHANGED <<readModelVars, cacheVars>>

RelayPublish(w) ==
    /\ \E e \in Events : Publish(w, e, TRUE) /\ XAdd(e)
    /\ UNCHANGED <<readTo, pel, dlq, progress, receipts, projection, state, version, consumer,
                   admin, cacheVars, spent>>

(* XADD fails, or succeeds with its answer lost. *)
RelayPublishFails(w) ==
    /\ \E e \in Events : Publish(w, e, FALSE) /\ (XAdd(e) \/ UNCHANGED stream)
    /\ Fault
    /\ UNCHANGED <<readTo, pel, dlq, progress, receipts, projection, state, version, consumer,
                   admin, cacheVars>>

RelayFinalize(w) ==
    /\ \E e \in Events : MarkPublished(w, e) \/ MarkFailed(w, e)
    /\ UNCHANGED <<readModelVars, cacheVars, spent>>

RelayStops(w) ==
    /\ RelayCrash(w) \/ \E e \in Events : FinalizeError(w, e)
    /\ Fault
    /\ UNCHANGED <<readModelVars, cacheVars>>

(* Claiming an entry its consumer still handles needs a pass longer than the idle time. *)
ConsumerReceive(c) ==
    /\ \E claimed \in SUBSET DOMAIN pel :
          /\ Receive(c, claimed)
          /\ IF \E m \in claimed : BeingHandled(m) THEN Fault ELSE UNCHANGED spent
    /\ UNCHANGED <<relayVars, cacheVars>>

ConsumerStep(c) ==
    /\ \E m \in consumer[c].todo :
          \/ BeginEventProgress(c, m)
          \/ RotateGlobalCaches(c, m)
          \/ MarkEventInvalidated(c, m)
          \/ ResolveImpact(c, m)
          \/ RotateAvailabilityCaches(c, m)
          \/ ProcessEventPage(c, m)
          \/ CommitEventPage(c, m)
          \/ CompleteEvent(c, m)
          \/ Ack(c, m)
          \/ ContinueAndAck(c, m)
    /\ UNCHANGED <<relayVars, cacheVars, spent>>

ConsumerFails(c) ==
    /\ \/ ConsumerCrash(c)
       \/ \E m \in consumer[c].todo : HandleFailure(c, m) \/ AckError(c, m)
    /\ Fault
    /\ UNCHANGED <<relayVars, cacheVars>>

AdminStarts(a) ==
    /\ \/ \E r \in Runs : RebuildTrainRun(a, r)
       \/ \E after \in Cursor : BeginRebuildAll(a, after)
       \/ \E e \in Events : PendingEvent(a, e)
    /\ Spend("commands", MaxCommands)
    /\ UNCHANGED <<relayVars, cacheVars>>

AdminStep(a) ==
    /\ \/ ListRebuildCandidates(a)
       \/ \E r \in admin[a].left : RebuildCandidate(a, r)
       \/ CommitTrainRun(a)
       \/ CheckpointRebuildAll(a)
       \/ EnqueueEvent(a)
    /\ UNCHANGED <<relayVars, cacheVars, spent>>

AdminFails(a) ==
    /\ AdminStops(a)
    /\ UNCHANGED <<relayVars, cacheVars, spent>>

Request(q) ==
    /\ \E api \in Apis, r \in Runs :
          \/ SearchTrainRuns(q, api, r) \/ Availability(q, api, r)
          \/ \E kind \in {"search", "availability"} : SourceOnly(q, api, kind, r)
    /\ Spend("requests", MaxRequests)
    /\ UNCHANGED <<relayVars, stream, readTo, pel, dlq, progress, receipts, projection, state,
                   consumer, admin>>

ReaderStep(q) ==
    /\ \/ CacheHit(q) \/ CacheMiss(q) \/ CoalescerDo(q)
       \/ FillVersion(q) \/ FillHit(q) \/ FillMiss(q)
       \/ SearchProjection(q) \/ ReadSource(q)
       \/ InstallVersion(q) \/ RereadSource(q)
       \/ WriteCache(q) \/ WriteError(q) \/ SourceError(q)
    /\ UNCHANGED <<relayVars, stream, readTo, pel, dlq, progress, receipts, projection, state,
                   consumer, admin, spent>>

Next ==
    \/ \E e \in Events : CommitChange(e)
    \/ \E w \in Relays : \/ RelayClaim(w) \/ RelayPublish(w) \/ RelayPublishFails(w)
                         \/ RelayFinalize(w) \/ RelayStops(w)
    \/ \E c \in Consumers : ConsumerReceive(c) \/ ConsumerStep(c) \/ ConsumerFails(c)
    \/ \E a \in Admins : AdminStarts(a) \/ AdminStep(a) \/ AdminFails(a)
    \/ \E q \in Readers : Request(q) \/ ReaderStep(q)

Spec == Init /\ [][Next]_vars

(***************************************************************************)
(* Workers poll for ever and a pass that has begun goes on.                *)
(***************************************************************************)
Fairness ==
    /\ \A w \in Relays : WF_vars(RelayClaim(w) \/ RelayPublish(w) \/ RelayFinalize(w))
    /\ \A c \in Consumers : WF_vars(ConsumerReceive(c) \/ ConsumerStep(c))

FairSpec == Spec /\ Fairness

-----------------------------------------------------------------------------
(***************************************************************************)
(* Whenever the gate of the journey search lets the projection be used,    *)
(* its rows for every train run that exists reflect every committed change *)
(* of that run, whatever rebuilds, duplicate deliveries and admin commands *)
(* are under way.                                                          *)
(***************************************************************************)
ProjectionCurrent ==
    ProjectionAvailable => \A r \in Runs : Exists(r) => projection[r] = Journeys(r)

(***************************************************************************)
(* An event with a receipt has been applied to every run it concerned: the *)
(* receipt is never written over a page another consumer left undone.      *)
(***************************************************************************)
ReceiptMeansApplied ==
    /\ TypeOK
    /\ \A e \in receipts \cap ProjectionEvents : \A r \in Impact[e] :
         (CreatedBy[r] <= e /\ Exists(r)) => projection[r] # NoRows /\ e \in projection[r]

(***************************************************************************)
(* A committed event without a receipt can still be processed: its row     *)
(* waits in the outbox, an entry is unread or pending in the stream, or it *)
(* is in one of the two dead-letter places an operator redrives from.      *)
(***************************************************************************)
NoEventLost ==
    \A e \in Created \ receipts :
       \/ outbox[e].status \in {"pending", "processing", "dead_letter"}
       \/ \E m \in (readTo + 1)..Len(stream) : stream[m] = e
       \/ \E m \in DOMAIN pel : stream[m] = e
       \/ e \in dlq

(* The events whose change a request for run r should show. *)
Relevant(kind, r) ==
    {e \in IF kind = "search" THEN ProjectionEvents ELSE AvailabilityEvents : r \in Impact[e]}

(***************************************************************************)
(* Whatever is cached under a namespace's current token shows every event  *)
(* that has its receipt: a slow fill never puts a value read before an     *)
(* invalidation where requests after it look.                              *)
(***************************************************************************)
CacheEntriesFresh ==
    \A k \in DOMAIN cache :
       k[2] = version[k[1]] =>
          receipts \cap Relevant(IF k[1] = Search THEN "search" ELSE "availability", k[3])
             \subseteq cache[k]

(***************************************************************************)
(* A request that began after an event's receipt shows the event's change, *)
(* whether the answer came from Redis, from the projection, from the       *)
(* source or from another request's fill.  The one exception is an         *)
(* availability request that joined a fill: its flight key has no token.   *)
(***************************************************************************)
AnswersFresh ==
    \A q \in Readers :
       reader[q].pc = "done" /\ ~(reader[q].kind = "availability" /\ reader[q].joined) =>
          reader[q].since \cap Relevant(reader[q].kind, reader[q].run) \subseteq reader[q].value

(***************************************************************************)
(* Every committed event gets its receipt, unless it ends in a dead-letter *)
(* place: crashes, lost leases and duplicate entries only delay it.        *)
(***************************************************************************)
EventsFinish ==
    \A e \in Events :
       e \in Created ~> (e \in receipts \/ e \in dlq \/ outbox[e].status = "dead_letter")
=============================================================================
