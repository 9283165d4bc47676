------------------------ MODULE EventPipelineTypes -------------------------
(***************************************************************************)
(* Type correctness of the pipeline from a committed change to a search    *)
(* result, for any number of events, train runs, relays, consumers, admin  *)
(* commands, readers and faults, and what its pages of train runs contain. *)
(***************************************************************************)
EXTENDS EventPipeline, TLAPS

-----------------------------------------------------------------------------
(* Pages and cursors.                                                      *)

LEMMA RunsFacts ==
    /\ Runs \subseteq Nat \ {0}
    /\ Cursor \subseteq Nat /\ Search \in Cursor /\ Runs \subseteq Cursor
BY RunsAssumption DEF Cursor, Search

\* What counting and ordering give on finite sets: a set of runs that is not
\* empty has a last one; a page takes the runs after the cursor without a gap,
\* and all of them when no more follow; a set of entries has a size.  These are
\* facts about the constants, proved with the theorems on finite sets in
\* EventPipelineTheorems; the invariants carry them along.
LastFound(S, d) ==
    /\ Last(S, d) \in Cursor
    /\ S = {} => Last(S, d) = d
    /\ S # {} => Last(S, d) \in S
    /\ \A q \in S : q <= Last(S, d)

PageFound(S, after) ==
    /\ Page(S, after) \subseteq S
    /\ \A r \in Page(S, after) : after < r
    /\ \A r \in S : after < r /\ r <= Last(Page(S, after), after) => r \in Page(S, after)
    /\ ~ HasMore(S, after) => \A r \in S : after < r => r \in Page(S, after)

Counting ==
    /\ \A S \in SUBSET Runs, d \in Cursor : LastFound(S, d) /\ PageFound(S, d)
    /\ \A n \in Nat : \A S \in SUBSET (1..n) : Cardinality(S) \in Nat
    /\ \A m, n \in Nat : m <= n => Cardinality((m + 1)..n) = n - m

LEMMA LastOf ==
    ASSUME Counting, NEW S \in SUBSET Runs, NEW d \in Cursor
    PROVE  /\ Last(S, d) \in Cursor
           /\ S = {} => Last(S, d) = d
           /\ S # {} => Last(S, d) \in S
           /\ \A q \in S : q <= Last(S, d)
BY Zenon DEF Counting, LastFound

LEMMA PageOf ==
    ASSUME Counting, NEW S \in SUBSET Runs, NEW after \in Cursor
    PROVE  /\ Page(S, after) \subseteq S
           /\ \A r \in Page(S, after) : after < r
           /\ \A r \in S : after < r /\ r <= Last(Page(S, after), after) => r \in Page(S, after)
           /\ ~ HasMore(S, after) => \A r \in S : after < r => r \in Page(S, after)
BY Zenon DEF Counting, PageFound

-----------------------------------------------------------------------------
(* Types.  Besides the types, what a consumer handles has been read, and a  *)
(* request under way holds the token its step needs, never a future one.    *)

ConsumerRec == [pc : ConsumerSteps, todo : SUBSET Nat, after : Cursor, page : SUBSET Runs,
                left : SUBSET Runs, more : BOOLEAN, asOf : SUBSET Events]

AdminRec == [pc : {"idle", "enqueue", "list", "rebuild", "commitRun", "commitCandidate"},
             event : Events \cup {0}, after : Cursor, left : SUBSET Runs,
             last : Cursor, more : BOOLEAN, run : Cursor, asOf : SUBSET Events]

ReaderRec == [pc : ReaderSteps, kind : {"search", "availability"}, run : Cursor, api : Apis,
              since : SUBSET Events, token : Nat, value : SUBSET Events, joined : BOOLEAN]

StreamType ==
    /\ stream \in Seq(Events)
    /\ readTo \in 0..Len(stream)
    /\ DOMAIN pel \subseteq 1..readTo /\ \A m \in DOMAIN pel : pel[m] \in Nat \ {0}
    /\ dlq \subseteq Events

RowsType ==
    /\ progress \in [Events -> [phase : Phases, after : Cursor]]
    /\ receipts \subseteq Events
    /\ projection \in [Runs -> (SUBSET Events) \cup {NoRows}]
    /\ state \in [ready : BOOLEAN, after : Cursor]
    /\ version \in [Cursor -> Nat]

ConsumerType ==
    /\ consumer \in [Consumers -> ConsumerRec]
    /\ \A c \in Consumers : consumer[c].todo \subseteq 1..readTo

AdminType ==
    /\ admin \in [Admins -> AdminRec]
    /\ \A a \in Admins :
          /\ admin[a].pc = "enqueue" => admin[a].event \in Events
          /\ admin[a].pc \in {"commitRun", "commitCandidate"} => admin[a].run \in Runs

CachedType ==
    /\ DOMAIN cache \subseteq Cursor \X (Nat \ {0}) \X Runs
    /\ \A k \in DOMAIN cache : cache[k] \subseteq Events

ReaderGood(q) ==
    ~Free(q) =>
       /\ reader[q].run \in Runs /\ Exists(reader[q].run)
       /\ reader[q].token <= version[Namespace(q)]
       /\ reader[q].kind = "search" => reader[q].token # 0
       /\ reader[q].pc \in {"read", "fillRead", "projection", "write", "reread"} =>
             reader[q].token # 0
       /\ reader[q].pc \in {"install", "reread"} => reader[q].kind = "availability"
       /\ reader[q].pc = "install" => reader[q].token = 0
       /\ reader[q].pc = "projection" => reader[q].kind = "search"

ReaderType ==
    /\ reader \in [Readers -> ReaderRec]
    /\ \A q \in Readers : ReaderGood(q)

SpentType == spent \in [{"faults", "commands", "requests"} -> Nat]

TypeInv ==
    /\ Counting
    /\ RelayTypeOK /\ StreamType /\ RowsType /\ ConsumerType /\ AdminType
    /\ CachedType /\ ReaderType /\ SpentType

LEMMA TypeInvImpliesTypeOK == TypeInv => TypeOK
BY Zenon DEF TypeInv, TypeOK, ReadModelTypeOK, CacheTypeOK, StreamType, RowsType, ConsumerType,
       AdminType, CachedType, ReaderType, SpentType, ConsumerRec, AdminRec, ReaderRec

\* A rebuild's rows are events, or the mark of a run without rows.
LEMMA RebuiltType ==
    ASSUME NEW r \in Runs, NEW asOf \in SUBSET Events
    PROVE  Rebuilt(r, asOf) \in (SUBSET Events) \cup {NoRows}
BY Zenon DEF Rebuilt

LEMMA NoRowsIsNoValue == NoRows \notin SUBSET Events
BY Zenon, ImpactAssumption DEF NoRows

LEMMA InitTypes == Counting /\ Init => TypeInv
<1> SUFFICES ASSUME Counting, Init PROVE TypeInv
  BY Zenon
<1> USE DEF Init
<1>1. RelayTypeOK
  BY Zenon DEF RelayInit, RelayTypeOK, OutboxRow, OutboxStatus, RelayIdle
<1>2. StreamType
  BY DEF ReadModelInit, StreamType
<1>3. RowsType
  <2>1. {r \in Runs : CreatedBy[r] = 0} \in SUBSET Runs /\ 0 \in Cursor
    BY Zenon DEF Cursor
  <2>2. Last({r \in Runs : CreatedBy[r] = 0}, 0) \in Cursor
    BY Zenon, <2>1, LastOf
  <2>3. state \in [ready : BOOLEAN, after : Cursor]
    BY Zenon, <2>1, <2>2, ConsumerConfigAssumption DEF ReadModelInit
  <2>4. \A r \in Runs : Rebuilt(r, {}) \in (SUBSET Events) \cup {NoRows}
    BY Zenon, RebuiltType
  <2>5. projection \in [Runs -> (SUBSET Events) \cup {NoRows}]
    BY Zenon, <2>4 DEF ReadModelInit
  <2> QED
    BY Zenon, <2>1, <2>3, <2>5 DEF ReadModelInit, RowsType, NoProgress, Phases
<1>4. ConsumerType
  BY Zenon DEF ReadModelInit, ConsumerType, ConsumerRec, ConsumerIdle, ConsumerSteps, Cursor
<1>5. AdminType
  BY Zenon DEF ReadModelInit, AdminType, AdminRec, AdminIdle, Cursor
<1>6. CachedType
  BY DEF CacheInit, CachedType
<1>7. ReaderType
  BY DEF CacheInit, ReaderType, ReaderGood, ReaderRec, ReaderSteps, FillSteps, NoRequest, Free, Cursor
<1>8. SpentType
  BY Zenon DEF SpentType
<1> QED
  BY Zenon, <1>1, <1>2, <1>3, <1>4, <1>5, <1>6, <1>7, <1>8 DEF TypeInv

-----------------------------------------------------------------------------
(* What every step keeps: committed changes stay committed, receipts stay, *)
(* the stream only grows, tokens only go up.                               *)

Grows ==
    /\ Created \subseteq Created'
    /\ receipts \subseteq receipts'
    /\ Len(stream) <= Len(stream') /\ \A m \in 1..Len(stream) : stream'[m] = stream[m]
    /\ readTo <= readTo'
    /\ \A k \in Cursor : version[k] <= version'[k]

LEMMA SpendType ==
    ASSUME SpentType, NEW w \in {"faults", "commands", "requests"}, NEW b, Spend(w, b)
    PROVE  SpentType'
BY DEF SpentType, Spend

LEMMA ModelKept ==
    ASSUME TypeInv, UNCHANGED readModelVars
    PROVE  StreamType' /\ RowsType' /\ ConsumerType' /\ AdminType'
BY Zenon DEF TypeInv, readModelVars, StreamType, RowsType, ConsumerType, AdminType

LEMMA ReadersKept ==
    ASSUME TypeInv, Created \subseteq Created', version' \in [Cursor -> Nat],
           \A k \in Cursor : version[k] <= version'[k], UNCHANGED cacheVars
    PROVE  CachedType' /\ ReaderType'
<1>1. CachedType'
  BY Zenon DEF TypeInv, CachedType, cacheVars
<1>2. ASSUME NEW q \in Readers, ~Free(q)
      PROVE  reader[q].token <= version'[Namespace(q)] /\ Exists(reader[q].run)'
  <2>1. reader[q] \in ReaderRec /\ reader[q].run \in Runs
    BY Zenon, <1>2 DEF TypeInv, ReaderType, ReaderGood
  <2>2. Namespace(q) \in Cursor
    BY Zenon, <2>1, RunsFacts DEF Namespace, ReaderRec
  <2>3. reader[q].token <= version[Namespace(q)] /\ Exists(reader[q].run) /\ reader[q].token \in Nat
    BY Zenon, <1>2, <2>1 DEF TypeInv, ReaderType, ReaderGood, ReaderRec
  <2>4. version[Namespace(q)] \in Nat /\ version'[Namespace(q)] \in Nat
    BY Zenon, <2>2 DEF TypeInv, RowsType
  <2>5. reader' = reader
    BY Zenon DEF cacheVars
  <2> QED
    BY <2>2, <2>3, <2>4, <2>5 DEF Exists
<1>3. ReaderType'
  BY Zenon, <1>2 DEF TypeInv, ReaderType, ReaderGood, cacheVars, Namespace, Free
<1> QED
  BY Zenon, <1>1, <1>3

-----------------------------------------------------------------------------
(* Types: the outbox and its relays. *)

LEMMA StillGrows ==
    ASSUME TypeInv, Created \subseteq Created', UNCHANGED <<receipts, stream, readTo, version>>
    PROVE  Grows
BY DEF Grows, TypeInv, StreamType, RowsType

LEMMA OutboxStill ==
    ASSUME TypeInv, UNCHANGED <<outbox, stream, readTo>>, receipts \subseteq receipts',
           UNCHANGED version \/ \A k \in Cursor : version[k] <= version'[k]
    PROVE  Grows
BY DEF Grows, Created, TypeInv, StreamType, RowsType

LEMMA AppendGrows ==
    ASSUME TypeInv, NEW e \in Events, XAdd(e), UNCHANGED <<readTo, pel, dlq>>
    PROVE  /\ StreamType'
           /\ Len(stream') = Len(stream) + 1
           /\ \A m \in 1..Len(stream) : stream'[m] = stream[m]
           /\ stream'[Len(stream) + 1] = e
<1>1. stream \in Seq(Events) /\ Len(stream) \in Nat /\ readTo \in 0..Len(stream)
  BY DEF TypeInv, StreamType
<1>2. /\ stream' \in Seq(Events) /\ Len(stream') = Len(stream) + 1
      /\ \A i \in 1..Len(stream) : stream'[i] = stream[i]
      /\ stream'[Len(stream) + 1] = e
  BY <1>1 DEF XAdd
<1>3. readTo' \in 0..Len(stream')
  BY <1>1, <1>2
<1> QED
  BY Zenon, <1>2, <1>3 DEF TypeInv, StreamType

LEMMA CommitTypes ==
    ASSUME TypeInv, NEW e \in Events, CommitChange(e)
    PROVE  TypeInv' /\ Grows /\ Created' = Created \cup {e}
<1> USE DEF CommitChange, InsertOutbox
<1>1. RelayTypeOK'
  BY Zenon DEF TypeInv, RelayTypeOK, OutboxRow, OutboxStatus
<1>2. Created' = Created \cup {e}
  BY Zenon DEF Created, TypeInv, RelayTypeOK, OutboxRow, OutboxStatus
<1>3. StreamType' /\ RowsType' /\ ConsumerType' /\ AdminType'
  BY Zenon, ModelKept
<1>4. Grows
  BY Zenon, <1>2, StillGrows DEF readModelVars
<1>5. version' = version /\ version \in [Cursor -> Nat]
  BY Zenon DEF readModelVars, TypeInv, RowsType
<1>6. CachedType' /\ ReaderType'
  BY Zenon, <1>2, <1>3, <1>4, ReadersKept DEF Grows, RowsType
<1>7. SpentType'
  BY Zenon DEF TypeInv, SpentType
<1> QED
  BY Zenon, <1>1, <1>2, <1>3, <1>4, <1>6, <1>7 DEF TypeInv

\* No relay step makes or unmakes a change.
RelayRowsOK == RelayTypeOK' /\ Created' = Created

LEMMA ClaimRows ==
    ASSUME TypeInv, NEW w \in Relays, NEW due, Claim(w, due)
    PROVE  RelayRowsOK
<1> DEFINE taken == {e \in due : Cardinality({f \in due : f < e}) < RelayBatch}
<1> HIDE DEF taken
<1>1. taken \subseteq Claimable /\ Claimable \subseteq Events
  BY Zenon DEF taken, Claim, Claimable
<1>2. /\ outbox' = [e \in Events |-> IF e \in taken
                                     THEN [status |-> "processing", attempts |-> outbox[e].attempts + 1,
                                           lockedBy |-> w]
                                     ELSE outbox[e]]
      /\ relay' = [relay EXCEPT ![w] = [batch |-> taken, tried |-> "no"]]
  BY Zenon DEF Claim, taken
<1>3. \A e \in taken : outbox[e].status # "absent"
  BY Zenon, <1>1 DEF Claimable
<1>4. RelayTypeOK'
  BY <1>1, <1>2 DEF TypeInv, RelayTypeOK, OutboxRow, OutboxStatus
<1>5. Created' = Created
  BY Zenon, <1>1, <1>2, <1>3 DEF Created
<1> QED
  BY Zenon, <1>4, <1>5 DEF RelayRowsOK

LEMMA OtherRelayRows ==
    ASSUME TypeInv, NEW w \in Relays, NEW e \in Events,
           \/ Publish(w, e, TRUE) \/ Publish(w, e, FALSE)
           \/ MarkPublished(w, e) \/ MarkFailed(w, e) \/ FinalizeError(w, e) \/ RelayCrash(w)
    PROVE  RelayRowsOK
<1> USE DEF TypeInv, RelayTypeOK
<1>1. CASE Publish(w, e, TRUE) \/ Publish(w, e, FALSE) \/ FinalizeError(w, e) \/ RelayCrash(w)
  BY <1>1 DEF RelayRowsOK, Publish, FinalizeError, NextInBatch, RelayCrash, RelayIdle, Created
<1>2. ASSUME NEW s \in {"published", "dead_letter", "pending"}, Finalize(w, e, s), NextInBatch(w, e)
      PROVE  RelayRowsOK
  <2>1. relay' \in [Relays -> [batch : SUBSET Events, tried : {"no", "sent", "failed"}]]
    BY Zenon, <1>2 DEF NextInBatch
  <2>2. outbox' \in [Events -> OutboxRow]
    BY ZenonT(30), <1>2 DEF Finalize, OutboxRow, OutboxStatus
  <2>3. Created' = Created
    BY Zenon, <1>2 DEF Finalize, OwnsLock, Created, OutboxRow, OutboxStatus
  <2> QED
    BY Zenon, <2>1, <2>2, <2>3 DEF RelayRowsOK
<1>3. CASE MarkPublished(w, e) \/ MarkFailed(w, e)
  BY Zenon, <1>2, <1>3 DEF MarkPublished, MarkFailed
<1> QED
  BY Zenon, <1>1, <1>3

LEMMA RelayTypes ==
    ASSUME TypeInv, NEW w \in Relays,
           \/ RelayClaim(w) \/ RelayPublish(w) \/ RelayPublishFails(w)
           \/ RelayFinalize(w) \/ RelayStops(w)
    PROVE  /\ TypeInv' /\ Grows /\ Created' = Created
           /\ UNCHANGED <<readTo, pel, dlq, progress, receipts, projection, state, version,
                          consumer, admin, cacheVars>>
<1>1. /\ RelayRowsOK /\ SpentType'
      /\ UNCHANGED <<readTo, pel, dlq, progress, receipts, projection, state, version,
                     consumer, admin, cacheVars>>
      /\ UNCHANGED stream \/ \E e \in Events : XAdd(e)
  <2>1. CASE RelayClaim(w)
    <3>1. RelayRowsOK
      BY Zenon, <2>1, ClaimRows DEF RelayClaim
    <3> QED
      BY Zenon, <2>1, <3>1, SpendType DEF RelayClaim, readModelVars, Fault, TypeInv, SpentType
  <2>2. CASE RelayPublish(w)
    <3>1. RelayRowsOK
      BY Zenon, <2>2, OtherRelayRows DEF RelayPublish
    <3> QED
      BY Zenon, <2>2, <3>1 DEF RelayPublish, TypeInv, SpentType
  <2>3. CASE RelayPublishFails(w)
    <3>1. RelayRowsOK
      BY Zenon, <2>3, OtherRelayRows DEF RelayPublishFails
    <3>2. SpentType'
      BY Zenon, <2>3, SpendType DEF RelayPublishFails, Fault, TypeInv
    <3> QED
      BY Zenon, <2>3, <3>1, <3>2 DEF RelayPublishFails
  <2>4. CASE RelayFinalize(w)
    <3>1. RelayRowsOK
      BY Zenon, <2>4, OtherRelayRows DEF RelayFinalize
    <3> QED
      BY Zenon, <2>4, <3>1 DEF RelayFinalize, readModelVars, TypeInv, SpentType
  <2>5. CASE RelayStops(w)
    <3>1. RelayRowsOK
      <4>1. CASE RelayCrash(w)
        BY Zenon, <4>1 DEF RelayCrash, RelayIdle, RelayRowsOK, TypeInv, RelayTypeOK, Created
      <4> QED
        BY Zenon, <2>5, <4>1, OtherRelayRows DEF RelayStops
    <3>2. SpentType'
      BY Zenon, <2>5, SpendType DEF RelayStops, Fault, TypeInv
    <3> QED
      BY Zenon, <2>5, <3>1, <3>2 DEF RelayStops, readModelVars
  <2> QED
    BY Zenon, <2>1, <2>2, <2>3, <2>4, <2>5
<1>2. StreamType' /\ Len(stream) <= Len(stream') /\ \A m \in 1..Len(stream) : stream'[m] = stream[m]
  <2>1. Len(stream) \in Nat
    BY DEF TypeInv, StreamType
  <2>2. CASE UNCHANGED stream
    BY <1>1, <2>1, <2>2 DEF TypeInv, StreamType
  <2>3. CASE \E e \in Events : XAdd(e)
    <3> PICK e \in Events : XAdd(e)
      BY Zenon, <2>3
    <3>1. /\ StreamType' /\ Len(stream') = Len(stream) + 1
          /\ \A m \in 1..Len(stream) : stream'[m] = stream[m]
      BY Zenon, <1>1, AppendGrows
    <3> QED
      BY <2>1, <3>1
  <2> QED
    BY Zenon, <1>1, <2>2, <2>3
<1>3. RowsType' /\ ConsumerType' /\ AdminType'
  BY Zenon, <1>1 DEF TypeInv, RowsType, ConsumerType, AdminType
<1>4. Grows
  BY <1>1, <1>2 DEF Grows, RelayRowsOK, TypeInv, StreamType, RowsType
<1>5. CachedType' /\ ReaderType'
  BY Zenon, <1>1, <1>3, <1>4, ReadersKept DEF Grows, RowsType
<1> QED
  BY Zenon, <1>1, <1>2, <1>3, <1>4, <1>5 DEF TypeInv, RelayRowsOK

-----------------------------------------------------------------------------
(* Types: the consumers. *)

\* What a consumer's step leaves alone.
ConsumerFrame == UNCHANGED <<outbox, relay, state, admin, cache, reader>>

LEMMA ConsumerFramed ==
    ASSUME TypeInv, ConsumerFrame, StreamType', RowsType', ConsumerType', SpentType', Grows
    PROVE  TypeInv'
<1>1. RelayTypeOK' /\ AdminType'
  BY Zenon DEF TypeInv, ConsumerFrame, RelayTypeOK, AdminType
<1>2. CachedType' /\ ReaderType'
  BY Zenon, ReadersKept DEF Grows, RowsType, ConsumerFrame, cacheVars
<1> QED
  BY Zenon, <1>1, <1>2 DEF TypeInv

LEMMA OneConsumer ==
    ASSUME TypeInv, NEW c \in Consumers, NEW rec \in ConsumerRec, rec.todo \subseteq 1..readTo',
           consumer' = [consumer EXCEPT ![c] = rec],
           readTo' \in Nat, readTo <= readTo'
    PROVE  ConsumerType'
<1>1. readTo \in Nat
  BY DEF TypeInv, StreamType
<1>2. \A d \in Consumers : consumer[d].todo \subseteq 1..readTo'
  BY <1>1 DEF TypeInv, ConsumerType
<1> QED
  BY Zenon, <1>2 DEF TypeInv, ConsumerType

\* The consumer goes on with the rest of its messages.
LEMMA NextMessageType ==
    ASSUME TypeInv, NEW c \in Consumers, NEW m, NextMessage(c, m), UNCHANGED readTo
    PROVE  ConsumerType'
<1> DEFINE rest == consumer[c].todo \ {m}
           rec == [ConsumerIdle EXCEPT !.todo = rest, !.pc = IF rest = {} THEN "idle" ELSE "begin"]
<1>1. rest \subseteq 1..readTo /\ readTo \in Nat
  BY DEF TypeInv, ConsumerType, StreamType
<1>2. rec \in ConsumerRec /\ rec.todo = rest
  <2>1. rest \in SUBSET Nat /\ (IF rest = {} THEN "idle" ELSE "begin") \in ConsumerSteps
    BY <1>1 DEF ConsumerSteps
  <2> HIDE DEF rest
  <2> QED
    BY Zenon, <2>1 DEF ConsumerRec, ConsumerIdle, Cursor
<1>3. consumer' = [consumer EXCEPT ![c] = rec]
  BY Zenon DEF NextMessage
<1>4. rec.todo \subseteq 1..readTo' /\ readTo' \in Nat /\ readTo <= readTo'
  BY <1>1, <1>2
<1> HIDE DEF rec
<1> QED
  BY Zenon, <1>2, <1>3, <1>4, OneConsumer

LEMMA MessageFacts ==
    ASSUME TypeInv, NEW c \in Consumers, NEW m \in consumer[c].todo
    PROVE  m \in 1..readTo /\ m \in 1..Len(stream) /\ m \in Nat /\ stream[m] \in Events
<1>1. m \in 1..readTo /\ readTo \in 0..Len(stream) /\ stream \in Seq(Events)
  BY Zenon DEF TypeInv, ConsumerType, StreamType
<1> QED
  BY <1>1

LEMMA DropType ==
    ASSUME TypeInv, NEW m, pel' = Drop(pel, m), UNCHANGED <<stream, readTo>>, dlq' \subseteq Events
    PROVE  StreamType' /\ DOMAIN pel' = DOMAIN pel \ {m}
BY Zenon DEF Drop, TypeInv, StreamType

\* The three phases a row can have send the consumer to a step of its own.
LEMMA StepOfType ==
    ASSUME NEW p \in Phases
    PROVE  StepOf(p) \in {"rotate", "resolve", "complete", "continue"}
BY Zenon DEF StepOf, Phases

\* A pass reads the next entries of the stream without leaving one out.
LEMMA Received ==
    ASSUME TypeInv, NEW c \in Consumers, NEW claimed, Receive(c, claimed)
    PROVE  /\ readTo' \in Nat /\ readTo <= readTo' /\ readTo' <= Len(stream)
           /\ DOMAIN pel' = DOMAIN pel \cup (readTo + 1)..readTo'
           /\ \A m \in DOMAIN pel' : pel'[m] \in Nat \ {0}
           /\ claimed \subseteq DOMAIN pel
           /\ consumer' = [consumer EXCEPT ![c] = [ConsumerIdle EXCEPT !.pc = "begin",
                                 !.todo = claimed \cup (readTo + 1)..readTo']]
<1> DEFINE room == ConsumerBatch - Cardinality(claimed)
           fresh == {m \in 1..Len(stream) : readTo < m /\ m <= readTo + room}
           k == IF readTo + room <= Len(stream) THEN readTo + room ELSE Len(stream)
<1>1. /\ claimed \subseteq DOMAIN pel /\ Cardinality(claimed) <= ConsumerBatch
      /\ readTo' = readTo + Cardinality(fresh)
      /\ pel' = [m \in DOMAIN pel \cup fresh |->
                   IF m \in fresh THEN 1 ELSE IF m \in claimed THEN pel[m] + 1 ELSE pel[m]]
      /\ consumer' = [consumer EXCEPT ![c] = [ConsumerIdle EXCEPT !.pc = "begin",
                                                     !.todo = claimed \cup fresh]]
  BY Zenon DEF Receive
<1>2. /\ readTo \in Nat /\ Len(stream) \in Nat /\ readTo <= Len(stream)
      /\ DOMAIN pel \subseteq 1..readTo /\ \A m \in DOMAIN pel : pel[m] \in Nat \ {0}
  BY DEF TypeInv, StreamType
<1>3. room \in Nat
  <2>1. claimed \in SUBSET (1..readTo)
    BY Zenon, <1>1, <1>2
  <2>2. Cardinality(claimed) \in Nat
    BY Zenon, <1>2, <2>1 DEF TypeInv, Counting
  <2> QED
    BY <1>1, <2>2, ConsumerConfigAssumption
<1> HIDE DEF room
<1>4. k \in Nat /\ readTo <= k /\ k <= Len(stream)
  BY <1>2, <1>3
<1>5. fresh = (readTo + 1)..k
  BY <1>2, <1>3
<1> HIDE DEF k, fresh
<1>6. Cardinality(fresh) = k - readTo
  <2>1. Cardinality((readTo + 1)..k) = k - readTo
    BY Zenon, <1>2, <1>4 DEF TypeInv, Counting
  <2> QED
    BY Zenon, <1>5, <2>1
<1>7. readTo' = k
  BY <1>1, <1>2, <1>4, <1>6
<1>8. \A m \in DOMAIN pel' : pel'[m] \in Nat \ {0}
  BY <1>1, <1>2
<1>9. DOMAIN pel' = DOMAIN pel \cup fresh
  BY Zenon, <1>1
<1> QED
  BY Zenon, <1>1, <1>4, <1>5, <1>7, <1>8, <1>9

LEMMA ReceiveTypes ==
    ASSUME TypeInv, NEW c \in Consumers, ConsumerReceive(c)
    PROVE  TypeInv' /\ Grows /\ ConsumerFrame
<1> PICK claimed \in SUBSET DOMAIN pel :
        /\ Receive(c, claimed)
        /\ IF \E m \in claimed : BeingHandled(m) THEN Fault ELSE UNCHANGED spent
  BY Zenon DEF ConsumerReceive
<1>1. ConsumerFrame /\ UNCHANGED <<stream, dlq, progress, receipts, projection, version>>
  BY Zenon DEF ConsumerReceive, Receive, ConsumerFrame, relayVars, cacheVars
<1>2. SpentType'
  BY Zenon, SpendType DEF Fault, TypeInv, SpentType
<1>3. /\ readTo' \in Nat /\ readTo <= readTo' /\ readTo' <= Len(stream)
      /\ DOMAIN pel' = DOMAIN pel \cup (readTo + 1)..readTo'
      /\ \A m \in DOMAIN pel' : pel'[m] \in Nat \ {0}
      /\ consumer' = [consumer EXCEPT ![c] = [ConsumerIdle EXCEPT !.pc = "begin",
                            !.todo = claimed \cup (readTo + 1)..readTo']]
  BY Zenon, Received
<1>4. /\ readTo \in Nat /\ Len(stream) \in Nat /\ DOMAIN pel \subseteq 1..readTo
  BY DEF TypeInv, StreamType
<1>5. StreamType'
  BY <1>1, <1>3, <1>4 DEF TypeInv, StreamType
<1>6. ConsumerType'
  <2> DEFINE todo == claimed \cup (readTo + 1)..readTo'
             rec == [ConsumerIdle EXCEPT !.pc = "begin", !.todo = todo]
  <2>1. todo \subseteq 1..readTo' /\ todo \subseteq Nat
    BY <1>3, <1>4
  <2> HIDE DEF todo
  <2>2. rec \in ConsumerRec /\ rec.todo = todo
    BY Zenon, <2>1 DEF ConsumerRec, ConsumerIdle, ConsumerSteps, Cursor
  <2>3. consumer' = [consumer EXCEPT ![c] = rec]
    BY Zenon, <1>3 DEF todo
  <2>4. rec.todo \subseteq 1..readTo'
    BY Zenon, <2>1, <2>2
  <2> HIDE DEF rec
  <2> QED
    BY Zenon, <1>3, <2>2, <2>3, <2>4, OneConsumer
<1>7. RowsType'
  BY Zenon, <1>1 DEF TypeInv, RowsType, ConsumerFrame
<1>8. Grows
  BY <1>1, <1>3, <1>4 DEF Grows, TypeInv, RowsType, ConsumerFrame, Created
<1> QED
  BY Zenon, <1>1, <1>2, <1>5, <1>6, <1>7, <1>8, ConsumerFramed

LEMMA TodoKept ==
    ASSUME TypeInv, UNCHANGED readTo, consumer' \in [Consumers -> ConsumerRec],
           \A d \in Consumers : consumer'[d].todo = consumer[d].todo
    PROVE  ConsumerType'
BY Zenon DEF TypeInv, ConsumerType

\* The rows of one event.
LEMMA RowKept ==
    ASSUME TypeInv, NEW e \in Events, NEW row \in [phase : Phases, after : Cursor],
           progress' = [progress EXCEPT ![e] = row],
           UNCHANGED <<receipts, projection, state, version>>
    PROVE  RowsType'
BY Zenon DEF TypeInv, RowsType

LEMMA RotateType ==
    ASSUME TypeInv, NEW k \in Cursor, Rotate(k)
    PROVE  /\ version' \in [Cursor -> Nat] /\ version'[k] = version[k] + 1
           /\ \A j \in Cursor : version[j] <= version'[j] /\ (j # k => version'[j] = version[j])
<1>1. version \in [Cursor -> Nat]
  BY Zenon DEF TypeInv, RowsType
<1> QED
  BY <1>1 DEF Rotate

\* What a step of a consumer may do to the types.
ConsumerOK == StreamType' /\ RowsType' /\ ConsumerType' /\ Grows

LEMMA BeginTypes ==
    ASSUME TypeInv, ConsumerFrame, NEW c \in Consumers, NEW m \in consumer[c].todo,
           BeginEventProgress(c, m) \/ MarkEventInvalidated(c, m)
    PROVE  ConsumerOK
<1> DEFINE e == stream[m]
<1>1. e \in Events /\ progress[e] \in [phase : Phases, after : Cursor] /\ 0 \in Cursor
  BY Zenon, MessageFacts DEF TypeInv, RowsType, Cursor
<1> HIDE DEF e
<1>2. ASSUME NEW row \in [phase : Phases, after : Cursor]
      PROVE  /\ StepOf(row.phase) \in ConsumerSteps
             /\ [consumer EXCEPT ![c].pc = StepOf(row.phase), ![c].after = row.after]
                   \in [Consumers -> ConsumerRec]
  <2>1. StepOf(row.phase) \in ConsumerSteps
    BY Zenon, StepOfType DEF ConsumerSteps
  <2> QED
    BY ZenonT(30), <2>1 DEF TypeInv, ConsumerType, ConsumerRec
<1>3. UNCHANGED <<stream, readTo, pel, dlq, receipts, projection, state, version>>
  BY Zenon DEF BeginEventProgress, MarkEventInvalidated
<1>4. ConsumerType' /\ RowsType'
  <2>1. CASE e \in receipts /\ GoTo(c, "ack") /\ UNCHANGED progress
    <3>1. consumer' \in [Consumers -> ConsumerRec] /\ \A d \in Consumers : consumer'[d].todo = consumer[d].todo
      BY <2>1 DEF GoTo, TypeInv, ConsumerType, ConsumerRec, ConsumerSteps
    <3> QED
      BY Zenon, <1>3, <2>1, <3>1, TodoKept DEF TypeInv, RowsType
  <2>2. ASSUME NEW row \in [phase : Phases, after : Cursor], progress' = [progress EXCEPT ![e] = row],
               consumer' = [consumer EXCEPT ![c].pc = StepOf(row.phase), ![c].after = row.after]
        PROVE  ConsumerType' /\ RowsType'
    <3> DEFINE s == StepOf(row.phase)
    <3>0. s \in ConsumerSteps /\ row.after \in Cursor
      BY Zenon, <1>2, <2>2
    <3> HIDE DEF s
    <3>1. consumer' \in [Consumers -> ConsumerRec] /\ \A d \in Consumers : consumer'[d].todo = consumer[d].todo
      <4>1. consumer' = [consumer EXCEPT ![c].pc = s, ![c].after = row.after]
        BY Zenon, <2>2 DEF s
      <4> QED
        BY ZenonT(30), <3>0, <4>1 DEF TypeInv, ConsumerType, ConsumerRec
    <3> QED
      BY Zenon, <1>1, <1>3, <2>2, <3>1, TodoKept, RowKept
  <2>3. CASE BeginEventProgress(c, m)
    <3> DEFINE row == IF progress[e].phase = "none"
                      THEN [phase |-> "invalidating", after |-> 0] ELSE progress[e]
    <3>1. row \in [phase : Phases, after : Cursor]
      BY Zenon, <1>1 DEF Phases
    <3>2. \/ e \in receipts /\ GoTo(c, "ack") /\ UNCHANGED progress
          \/ /\ progress' = [progress EXCEPT ![e] = row]
             /\ consumer' = [consumer EXCEPT ![c].pc = StepOf(row.phase), ![c].after = row.after]
      BY Zenon, <2>3 DEF BeginEventProgress, e
    <3> HIDE DEF row
    <3> QED
      BY Zenon, <2>1, <2>2, <3>1, <3>2
  <2>4. CASE MarkEventInvalidated(c, m)
    <3> DEFINE row == IF progress[e].phase = "invalidating"
                      THEN [progress[e] EXCEPT !.phase = "processing"] ELSE progress[e]
    <3>1. row \in [phase : Phases, after : Cursor]
      BY Zenon, <1>1 DEF Phases
    <3>2. /\ progress' = [progress EXCEPT ![e] = row]
          /\ consumer' = [consumer EXCEPT ![c].pc = StepOf(row.phase), ![c].after = row.after]
      BY Zenon, <2>4 DEF MarkEventInvalidated, e
    <3> HIDE DEF row
    <3> QED
      BY Zenon, <2>2, <3>1, <3>2
  <2> QED
    BY Zenon, <2>3, <2>4
<1>5. Created \subseteq Created'
  BY Zenon DEF ConsumerFrame, Created
<1> QED
  BY Zenon, <1>3, <1>4, <1>5, StillGrows DEF ConsumerOK, TypeInv, StreamType

LEMMA RotateTypes ==
    ASSUME TypeInv, ConsumerFrame, NEW c \in Consumers, NEW m \in consumer[c].todo,
           RotateGlobalCaches(c, m) \/ RotateAvailabilityCaches(c, m)
    PROVE  ConsumerOK
<1>1. UNCHANGED <<stream, readTo, pel, dlq, progress, receipts, projection, state>>
  BY Zenon DEF RotateGlobalCaches, RotateAvailabilityCaches
<1>2. version' \in [Cursor -> Nat] /\ \A k \in Cursor : version[k] <= version'[k]
  <2>1. CASE UNCHANGED version
    BY <2>1 DEF TypeInv, RowsType
  <2>2. CASE \E k \in Cursor : Rotate(k)
    BY Zenon, <2>2, RotateType
  <2>3. consumer[c].left \subseteq Cursor
    BY Zenon, RunsFacts DEF TypeInv, ConsumerType, ConsumerRec
  <2> QED
    BY Zenon, <2>1, <2>2, <2>3, RunsFacts DEF RotateGlobalCaches, RotateAvailabilityCaches
<1>3. consumer' \in [Consumers -> ConsumerRec] /\ \A d \in Consumers : consumer'[d].todo = consumer[d].todo
  BY DEF RotateGlobalCaches, RotateAvailabilityCaches, GoTo, TypeInv, ConsumerType, ConsumerRec, ConsumerSteps
<1>4. StreamType' /\ RowsType' /\ ConsumerType'
  BY Zenon, <1>1, <1>2, <1>3, TodoKept DEF TypeInv, StreamType, RowsType
<1> QED
  BY <1>1, <1>2, <1>4 DEF ConsumerOK, Grows, ConsumerFrame, Created, TypeInv, StreamType

LEMMA ResolveTypes ==
    ASSUME TypeInv, ConsumerFrame, NEW c \in Consumers, NEW m \in consumer[c].todo,
           ResolveImpact(c, m) \/ ProcessEventPage(c, m)
    PROVE  ConsumerOK
<1>1. UNCHANGED <<stream, readTo, pel, dlq, progress, receipts, projection, state, version>>
  BY Zenon DEF ResolveImpact, ProcessEventPage
<1>2. consumer' \in [Consumers -> ConsumerRec] /\ \A d \in Consumers : consumer'[d].todo = consumer[d].todo
  <2>1. CASE ResolveImpact(c, m)
    <3> DEFINE e == stream[m]
               runs == IF e \in ProjectionEvents \cup AvailabilityEvents THEN Affected(e) ELSE {}
               page == Page(runs, consumer[c].after)
    <3>1. page \in SUBSET Runs
      BY Zenon, MessageFacts, ImpactAssumption DEF Page, Affected
    <3> DEFINE left == IF e \in AvailabilityEvents THEN page ELSE {}
               more == HasMore(runs, consumer[c].after)
    <3>2. more \in BOOLEAN /\ left \in SUBSET Runs
      BY Zenon, <3>1 DEF HasMore
    <3>3. consumer' = [consumer EXCEPT ![c].pc = "rotateRuns", ![c].page = page, ![c].left = left,
                                       ![c].more = more]
      BY Zenon, <2>1 DEF ResolveImpact
    <3> HIDE DEF page, left, more
    <3> DEFINE rec == [consumer[c] EXCEPT !.pc = "rotateRuns", !.page = page, !.left = left, !.more = more]
    <3>4. rec \in ConsumerRec /\ rec.todo = consumer[c].todo
      BY ZenonT(30), <3>1, <3>2 DEF TypeInv, ConsumerType, ConsumerRec, ConsumerSteps
    <3>5. consumer' = [consumer EXCEPT ![c] = rec]
      BY Zenon, <3>3 DEF TypeInv, ConsumerType, ConsumerRec
    <3> HIDE DEF rec
    <3> QED
      BY Zenon, <3>4, <3>5 DEF TypeInv, ConsumerType
  <2>2. CASE ProcessEventPage(c, m)
    BY SMTT(30), <2>2 DEF ProcessEventPage, GoTo, TypeInv, ConsumerType, ConsumerRec, ConsumerSteps, Created
  <2> QED
    BY Zenon, <2>1, <2>2
<1>3. StreamType' /\ RowsType' /\ ConsumerType'
  BY Zenon, <1>1, <1>2, TodoKept DEF TypeInv, StreamType, RowsType
<1>4. Created \subseteq Created'
  BY Zenon DEF ConsumerFrame, Created
<1> QED
  BY Zenon, <1>1, <1>3, <1>4, StillGrows DEF ConsumerOK

LEMMA PageTypes ==
    ASSUME TypeInv, ConsumerFrame, NEW c \in Consumers, NEW m \in consumer[c].todo,
           CommitEventPage(c, m) \/ CompleteEvent(c, m)
    PROVE  ConsumerOK
<1>1. UNCHANGED <<stream, readTo, pel, dlq, state, version>> /\ receipts \subseteq receipts'
  BY Zenon DEF CommitEventPage, CompleteEvent
<1>2. stream[m] \in Events
  BY Zenon, MessageFacts
<1>3. consumer' \in [Consumers -> ConsumerRec] /\ \A d \in Consumers : consumer'[d].todo = consumer[d].todo
  <2>1. PICK pc \in ConsumerSteps : GoTo(c, pc)
    BY Zenon DEF CommitEventPage, CompleteEvent, ConsumerSteps
  <2> QED
    BY <2>1 DEF GoTo, TypeInv, ConsumerType, ConsumerRec
<1>4. RowsType'
  <2>1. CASE CommitEventPage(c, m)
    <3>1. consumer[c] \in ConsumerRec
      BY Zenon DEF TypeInv, ConsumerType
    <3>2. Last(consumer[c].page, consumer[c].after) \in Cursor
      BY Zenon, <3>1, LastOf DEF ConsumerRec, TypeInv
    <3>3. progress' \in [Events -> [phase : Phases, after : Cursor]]
      BY ZenonT(30), <1>2, <2>1, <3>2 DEF CommitEventPage, TypeInv, RowsType, Phases
    <3>4. \A r \in Runs : Rebuilt(r, consumer[c].asOf) \in (SUBSET Events) \cup {NoRows}
      BY ZenonT(30), <3>1, RebuiltType DEF ConsumerRec
    <3>5. projection' \in [Runs -> (SUBSET Events) \cup {NoRows}]
      BY ZenonT(30), <2>1, <3>4 DEF CommitEventPage, TypeInv, RowsType
    <3> QED
      BY Zenon, <1>1, <2>1, <3>3, <3>5 DEF CommitEventPage, TypeInv, RowsType
  <2>2. CASE CompleteEvent(c, m)
    BY SMTT(30), <1>1, <1>2, <2>2, RunsFacts DEF CompleteEvent, TypeInv, RowsType, NoProgress, Phases, Search
  <2> QED
    BY Zenon, <2>1, <2>2
<1>5. StreamType' /\ ConsumerType'
  BY Zenon, <1>1, <1>3, TodoKept DEF TypeInv, StreamType
<1>6. Grows
  BY Zenon, <1>1, OutboxStill DEF ConsumerFrame
<1> QED
  BY Zenon, <1>4, <1>5, <1>6 DEF ConsumerOK

LEMMA AckTypes ==
    ASSUME TypeInv, ConsumerFrame, NEW c \in Consumers, NEW m \in consumer[c].todo,
           Ack(c, m) \/ ContinueAndAck(c, m) \/ HandleFailure(c, m) \/ AckError(c, m)
    PROVE  ConsumerOK
<1>1. NextMessage(c, m) /\ UNCHANGED <<readTo, progress, receipts, projection, state, version>>
  BY Zenon DEF Ack, ContinueAndAck, HandleFailure, AckError
<1>2. ConsumerType' /\ RowsType'
  BY ZenonT(30), <1>1, NextMessageType DEF TypeInv, RowsType
<1>3. stream[m] \in Events /\ dlq \subseteq Events /\ Len(stream) \in Nat
  BY SMTT(30), MessageFacts DEF TypeInv, StreamType
<1>4. StreamType' /\ Len(stream) <= Len(stream') /\ \A n \in 1..Len(stream) : stream'[n] = stream[n]
  <2>1. CASE UNCHANGED stream
    <3>1. CASE pel' = Drop(pel, m)
      <4>1. dlq' \subseteq Events
        BY ZenonT(30), <1>3 DEF Ack, ContinueAndAck, HandleFailure, AckError
      <4>2. UNCHANGED <<stream, readTo>>
        BY Zenon, <1>1, <2>1
      <4>3. StreamType'
        BY ZenonT(30), <3>1, <4>1, <4>2, DropType
      <4> QED
        BY SMTT(30), <1>3, <4>2, <4>3
    <3>2. CASE UNCHANGED <<pel, dlq>>
      BY <1>1, <1>3, <2>1, <3>2 DEF TypeInv, StreamType
    <3> QED
      BY ZenonT(30), <3>1, <3>2 DEF Ack, ContinueAndAck, HandleFailure, AckError
  <2>2. CASE XAdd(stream[m]) /\ pel' = Drop(pel, m) /\ UNCHANGED dlq
    <3>1. stream \in Seq(Events) /\ readTo \in 0..Len(stream)
      BY Zenon DEF TypeInv, StreamType
    <3>2. /\ stream' \in Seq(Events) /\ Len(stream') = Len(stream) + 1
          /\ \A i \in 1..Len(stream) : stream'[i] = stream[i]
      BY SMTT(30), <1>3, <2>2, <3>1 DEF XAdd
    <3>3. /\ DOMAIN pel' \subseteq 1..readTo /\ \A n \in DOMAIN pel' : pel'[n] \in Nat \ {0}
      BY Zenon, <2>2 DEF Drop, TypeInv, StreamType
    <3>4. readTo' \in 0..Len(stream') /\ Len(stream) <= Len(stream')
      BY SMTT(30), <1>1, <1>3, <3>1, <3>2
    <3> QED
      BY Zenon, <1>1, <1>3, <2>2, <3>2, <3>3, <3>4 DEF StreamType
  <2> QED
    BY ZenonT(30), <2>1, <2>2 DEF Ack, ContinueAndAck, HandleFailure, AckError
<1>5. Grows
  BY SMTT(30), <1>1, <1>4 DEF Grows, ConsumerFrame, Created, TypeInv, RowsType, StreamType
<1> QED
  BY Zenon, <1>2, <1>4, <1>5 DEF ConsumerOK

LEMMA ConsumerTypes ==
    ASSUME TypeInv, NEW c \in Consumers,
           ConsumerReceive(c) \/ ConsumerStep(c) \/ ConsumerFails(c)
    PROVE  TypeInv' /\ Grows /\ ConsumerFrame
<1>1. CASE ConsumerReceive(c)
  BY Zenon, <1>1, ReceiveTypes
<1>2. CASE ConsumerStep(c)
  <2>1. ConsumerFrame /\ UNCHANGED spent
    BY ZenonT(30), <1>2 DEF ConsumerStep, ConsumerFrame, relayVars, cacheVars, BeginEventProgress,
                RotateGlobalCaches, MarkEventInvalidated, ResolveImpact, RotateAvailabilityCaches,
                ProcessEventPage, CommitEventPage, CompleteEvent, Ack, ContinueAndAck
  <2>2. ConsumerOK
    BY Zenon, <1>2, <2>1, BeginTypes, RotateTypes, ResolveTypes, PageTypes, AckTypes DEF ConsumerStep
  <2> QED
    BY Zenon, <2>1, <2>2, ConsumerFramed DEF ConsumerOK, TypeInv, SpentType
<1>3. CASE ConsumerFails(c)
  <2>1. ConsumerFrame /\ SpentType'
    BY ZenonT(30), <1>3, SpendType DEF ConsumerFails, ConsumerFrame, relayVars, cacheVars, Fault, TypeInv,
                           ConsumerCrash, HandleFailure, AckError
  <2>2. ConsumerOK
    <3>1. CASE ConsumerCrash(c)
      <4>1. UNCHANGED <<stream, readTo, pel, dlq, progress, receipts, projection, state, version>>
        BY Zenon, <3>1 DEF ConsumerCrash
      <4>2. ConsumerIdle \in ConsumerRec /\ ConsumerIdle.todo = {}
        BY Zenon DEF ConsumerIdle, ConsumerRec, ConsumerSteps, Cursor
      <4>3. ConsumerType'
        BY ZenonT(30), <3>1, <4>1, <4>2 DEF ConsumerCrash, TypeInv, ConsumerType
      <4>4. StreamType' /\ RowsType' /\ Created \subseteq Created'
        BY Zenon, <2>1, <4>1 DEF TypeInv, StreamType, RowsType, ConsumerFrame, Created
      <4> QED
        BY Zenon, <4>1, <4>3, <4>4, StillGrows DEF ConsumerOK
    <3> QED
      BY Zenon, <1>3, <2>1, <3>1, AckTypes DEF ConsumerFails
  <2> QED
    BY Zenon, <2>1, <2>2, ConsumerFramed DEF ConsumerOK
<1> QED
  BY Zenon, <1>1, <1>2, <1>3

-----------------------------------------------------------------------------
(* Types: the admin commands. *)

AdminFrame == UNCHANGED <<outbox, relay, readTo, pel, dlq, progress, receipts, version, consumer,
                          cache, reader>>

LEMMA OneAdmin ==
    ASSUME TypeInv, NEW a \in Admins, NEW rec \in AdminRec,
           rec.pc = "enqueue" => rec.event \in Events,
           rec.pc \in {"commitRun", "commitCandidate"} => rec.run \in Runs,
           admin' = [admin EXCEPT ![a] = rec]
    PROVE  AdminType'
BY Zenon DEF TypeInv, AdminType

LEMMA AdminIdleType == AdminIdle \in AdminRec /\ AdminIdle.pc = "idle"
BY Zenon DEF AdminIdle, AdminRec, Cursor

LEMMA LoadTypes ==
    ASSUME TypeInv, NEW a \in Admins, NEW r \in Runs, NEW pc \in {"commitRun", "commitCandidate"},
           LoadTrainRun(a, r, pc)
    PROVE  AdminType'
<1> DEFINE rec == [admin[a] EXCEPT !.pc = pc, !.run = r, !.asOf = Created, !.left = @ \ {r}]
<1>1. Created \subseteq Events /\ r \in Cursor
  BY Zenon, RunsFacts DEF Created
<1>2. rec \in AdminRec /\ rec.pc = pc /\ rec.run = r
  BY Zenon, <1>1 DEF TypeInv, AdminType, AdminRec
<1>3. admin' = [admin EXCEPT ![a] = rec]
  BY ZenonT(30) DEF LoadTrainRun, TypeInv, AdminType, AdminRec
<1>4. pc # "enqueue"
  BY Zenon
<1> HIDE DEF rec
<1> QED
  BY Zenon, <1>2, <1>3, <1>4, OneAdmin

LEMMA AdminTypes ==
    ASSUME TypeInv, NEW a \in Admins, AdminStarts(a) \/ AdminStep(a) \/ AdminFails(a)
    PROVE  TypeInv' /\ Grows /\ AdminFrame
<1>1. AdminFrame
  BY Zenon DEF AdminFrame, AdminStarts, AdminStep, AdminFails, relayVars, cacheVars, RebuildTrainRun,
         BeginRebuildAll, PendingEvent, ListRebuildCandidates, RebuildCandidate, CommitTrainRun,
         CheckpointRebuildAll, EnqueueEvent, AdminStops
<1>2. SpentType'
  BY Zenon, SpendType DEF AdminStarts, AdminStep, AdminFails, TypeInv, SpentType
<1>3. admin[a] \in AdminRec /\ 0 \in Cursor
  BY Zenon DEF TypeInv, AdminType, Cursor
<1>4. AdminType'
  <2>1. CASE UNCHANGED admin \/ admin' = [admin EXCEPT ![a] = AdminIdle]
    BY Zenon, <2>1, AdminIdleType, OneAdmin DEF TypeInv, AdminType
  <2>2. CASE \E r \in Runs : RebuildTrainRun(a, r)
    BY Zenon, <2>2, LoadTypes DEF RebuildTrainRun
  <2>3. CASE \E after \in Cursor : BeginRebuildAll(a, after)
    <3> PICK after \in Cursor : BeginRebuildAll(a, after)
      BY Zenon, <2>3
    <3> DEFINE rec == [AdminIdle EXCEPT !.pc = "list", !.after = after]
    <3>1. rec \in AdminRec /\ rec.pc = "list"
      BY Zenon, AdminIdleType DEF AdminIdle, AdminRec
    <3>2. admin' = [admin EXCEPT ![a] = rec]
      BY Zenon DEF BeginRebuildAll
    <3> HIDE DEF rec
    <3> QED
      BY Zenon, <3>1, <3>2, OneAdmin
  <2>4. CASE \E e \in Events : PendingEvent(a, e)
    <3> PICK e \in Events : PendingEvent(a, e)
      BY Zenon, <2>4
    <3> DEFINE rec == [AdminIdle EXCEPT !.pc = "enqueue", !.event = e]
    <3>1. rec \in AdminRec /\ rec.pc = "enqueue" /\ rec.event = e
      BY Zenon, AdminIdleType DEF AdminIdle, AdminRec
    <3>2. admin' = [admin EXCEPT ![a] = rec]
      BY Zenon DEF PendingEvent
    <3> HIDE DEF rec
    <3> QED
      BY Zenon, <3>1, <3>2, OneAdmin
  <2>5. CASE ListRebuildCandidates(a)
    <3> DEFINE runs == {r \in Runs : Exists(r)}
               page == Page(runs, admin[a].after)
               last == Last(page, admin[a].after)
               more == HasMore(runs, admin[a].after)
               rec == [admin[a] EXCEPT !.pc = "rebuild", !.left = page, !.last = last, !.more = more]
    <3>1. page \in SUBSET Runs /\ more \in BOOLEAN
      BY Zenon DEF Page, HasMore
    <3>2. last \in Cursor
      BY Zenon, <1>3, <3>1, LastOf DEF AdminRec, TypeInv
    <3>3. admin' = [admin EXCEPT ![a].pc = "rebuild", ![a].left = page, ![a].last = last,
                                 ![a].more = more]
      BY Zenon, <2>5 DEF ListRebuildCandidates
    <3> HIDE DEF page, last, more
    <3>4. rec \in AdminRec /\ rec.pc = "rebuild"
      BY Zenon, <1>3, <3>1, <3>2 DEF AdminRec
    <3>5. admin' = [admin EXCEPT ![a] = rec]
      BY Zenon, <3>3 DEF TypeInv, AdminType, AdminRec
    <3> HIDE DEF rec
    <3> QED
      BY Zenon, <3>4, <3>5, OneAdmin
  <2>6. CASE \E r \in admin[a].left : RebuildCandidate(a, r)
    BY Zenon, <1>3, <2>6, LoadTypes DEF RebuildCandidate, AdminRec
  <2>7. CASE CommitTrainRun(a)
    <3> DEFINE rec == IF admin[a].pc = "commitRun" THEN AdminIdle
                      ELSE [admin[a] EXCEPT !.pc = "rebuild", !.run = 0, !.asOf = {}]
    <3>1. rec \in AdminRec /\ rec.pc \in {"idle", "rebuild"}
      BY Zenon, <1>3, AdminIdleType DEF AdminRec
    <3>2. admin' = [admin EXCEPT ![a] = rec]
      BY Zenon, <2>7 DEF CommitTrainRun
    <3> HIDE DEF rec
    <3> QED
      BY Zenon, <3>1, <3>2, OneAdmin
  <2> QED
    BY Zenon, <2>1, <2>2, <2>3, <2>4, <2>5, <2>6, <2>7
       DEF AdminStarts, AdminStep, AdminFails, CheckpointRebuildAll, EnqueueEvent, AdminStops
<1>5. RowsType'
  <2>1. state' \in [ready : BOOLEAN, after : Cursor]
    <3>1. state \in [ready : BOOLEAN, after : Cursor]
      BY Zenon DEF TypeInv, RowsType
    <3>2. CASE UNCHANGED state
      BY Zenon, <3>1, <3>2
    <3>3. CASE \E after \in Cursor : BeginRebuildAll(a, after)
      BY SMTT(30), <1>3, <3>1, <3>3 DEF BeginRebuildAll
    <3>4. CASE CheckpointRebuildAll(a)
      BY Zenon, <1>3, <3>1, <3>4 DEF CheckpointRebuildAll, AdminRec
    <3> QED
      BY Zenon, <3>2, <3>3, <3>4 DEF AdminStarts, AdminStep, AdminFails, RebuildTrainRun, PendingEvent,
         ListRebuildCandidates, RebuildCandidate, CommitTrainRun, EnqueueEvent, AdminStops
  <2>2. projection' \in [Runs -> (SUBSET Events) \cup {NoRows}]
    <3>1. CASE UNCHANGED projection
      BY Zenon, <3>1 DEF TypeInv, RowsType
    <3>2. CASE CommitTrainRun(a)
      <4>1. admin[a].run \in Runs /\ admin[a].asOf \in SUBSET Events
        BY Zenon, <1>3, <3>2 DEF CommitTrainRun, TypeInv, AdminType, AdminRec
      <4>2. Rebuilt(admin[a].run, admin[a].asOf) \in (SUBSET Events) \cup {NoRows}
        BY Zenon, <4>1, RebuiltType
      <4> QED
        BY Zenon, <3>2, <4>1, <4>2 DEF CommitTrainRun, TypeInv, RowsType
    <3> QED
      BY Zenon, <3>1, <3>2 DEF AdminStarts, AdminStep, AdminFails, RebuildTrainRun, BeginRebuildAll,
         PendingEvent, ListRebuildCandidates, RebuildCandidate, CheckpointRebuildAll, EnqueueEvent,
         AdminStops
  <2> QED
    BY Zenon, <1>1, <2>1, <2>2 DEF TypeInv, RowsType, AdminFrame
<1>6. StreamType' /\ Len(stream) <= Len(stream') /\ \A m \in 1..Len(stream) : stream'[m] = stream[m]
  <2>1. Len(stream) \in Nat
    BY DEF TypeInv, StreamType
  <2>2. CASE UNCHANGED stream
    BY <1>1, <2>1, <2>2 DEF TypeInv, StreamType, AdminFrame
  <2>3. CASE EnqueueEvent(a)
    <3>1. admin[a].event \in Events /\ XAdd(admin[a].event)
      BY Zenon, <2>3 DEF EnqueueEvent, TypeInv, AdminType
    <3>2. /\ StreamType' /\ Len(stream') = Len(stream) + 1
          /\ \A m \in 1..Len(stream) : stream'[m] = stream[m]
      BY Zenon, <1>1, <3>1, AppendGrows DEF AdminFrame
    <3> QED
      BY <2>1, <3>2
  <2> QED
    BY Zenon, <2>2, <2>3 DEF AdminStarts, AdminStep, AdminFails, RebuildTrainRun, BeginRebuildAll,
       PendingEvent, ListRebuildCandidates, RebuildCandidate, CommitTrainRun, CheckpointRebuildAll,
       AdminStops
<1>7. RelayTypeOK' /\ ConsumerType'
  BY Zenon, <1>1 DEF TypeInv, AdminFrame, RelayTypeOK, ConsumerType
<1>8. Grows
  BY SMTT(30), <1>1, <1>6 DEF Grows, AdminFrame, Created, TypeInv, StreamType, RowsType
<1>9. CachedType' /\ ReaderType'
  BY Zenon, <1>1, <1>5, <1>8, ReadersKept DEF Grows, RowsType, AdminFrame, cacheVars
<1> QED
  BY Zenon, <1>1, <1>2, <1>4, <1>5, <1>6, <1>7, <1>8, <1>9 DEF TypeInv

-----------------------------------------------------------------------------
(* Types: the requests. *)

ReaderFrame == UNCHANGED <<outbox, relay, stream, readTo, pel, dlq, progress, receipts, projection,
                           state, consumer, admin>>

TokensGoUp == version' \in [Cursor -> Nat] /\ \A k \in Cursor : version[k] <= version'[k]

LEMMA RequestFacts ==
    ASSUME TypeInv, NEW q \in Readers
    PROVE  /\ reader[q] \in ReaderRec
           /\ ~Free(q) => reader[q].run \in Runs /\ Namespace(q) \in Cursor /\ version[Namespace(q)] \in Nat
<1>1. reader[q] \in ReaderRec
  BY Zenon DEF TypeInv, ReaderType
<1>2. ~Free(q) => reader[q].run \in Runs
  BY Zenon DEF TypeInv, ReaderType, ReaderGood
<1>3. ~Free(q) => Namespace(q) \in Cursor
  BY Zenon, <1>1, <1>2, RunsFacts DEF Namespace, ReaderRec
<1> QED
  BY Zenon, <1>1, <1>2, <1>3 DEF TypeInv, RowsType

\* A request that is left alone stays as it should be while tokens go up.
LEMMA StillGood ==
    ASSUME TypeInv, NEW q \in Readers, ReaderFrame, TokensGoUp, reader'[q] = reader[q]
    PROVE  ReaderGood(q)'
<1>1. ReaderGood(q)
  BY Zenon DEF TypeInv, ReaderType
<1>2. Free(q)' = Free(q) /\ Namespace(q)' = Namespace(q)
  BY Zenon DEF Free, Namespace
<1>3. Exists(reader[q].run)' = Exists(reader[q].run)
  BY ZenonT(30) DEF Exists, Created, ReaderFrame
<1>4. ~Free(q) => reader[q].token <= version'[Namespace(q)]
  BY SMTT(30), <1>1, RequestFacts DEF ReaderGood, TokensGoUp, ReaderRec
<1> QED
  BY Zenon, <1>1, <1>2, <1>3, <1>4 DEF ReaderGood, Exists, Created, ReaderFrame

LEMMA OneReader ==
    ASSUME TypeInv, ReaderFrame, TokensGoUp, NEW q \in Readers, NEW rec \in ReaderRec,
           reader' = [reader EXCEPT ![q] = rec], ReaderGood(q)'
    PROVE  ReaderType'
<1>1. reader' \in [Readers -> ReaderRec]
  BY Zenon DEF TypeInv, ReaderType
<1>2. ASSUME NEW p \in Readers PROVE ReaderGood(p)'
  <2>1. CASE p # q
    <3>1. reader'[p] = reader[p]
      BY Zenon, <2>1 DEF TypeInv, ReaderType
    <3> QED
      BY Zenon, <3>1, StillGood
  <2> QED
    BY Zenon, <2>1
<1> QED
  BY Zenon, <1>1, <1>2 DEF ReaderType

LEMMA ReturnTypes ==
    ASSUME TypeInv, ReaderFrame, TokensGoUp, NEW q \in Readers, NEW v \in SUBSET Events, Return(q, v)
    PROVE  ReaderType'
<1>1. reader' \in [Readers -> ReaderRec]
  <2>1. \A p \in Readers : [reader[p] EXCEPT !.pc = "done", !.value = v] \in ReaderRec
    BY Zenon DEF TypeInv, ReaderType, ReaderRec, ReaderSteps
  <2>2. \A p \in Readers : reader[p] \in ReaderRec
    BY Zenon DEF TypeInv, ReaderType
  <2> QED
    BY Zenon, <2>1, <2>2 DEF Return
<1>2. ASSUME NEW p \in Readers PROVE ReaderGood(p)'
  <2>1. CASE p \in Waiting(q) \cup {q}
    <3>1. reader'[p].pc = "done"
      BY Zenon, <2>1 DEF Return, TypeInv, ReaderType, ReaderRec
    <3> QED
      BY Zenon, <3>1 DEF ReaderGood, Free
  <2>2. CASE p \notin Waiting(q) \cup {q}
    <3>1. reader'[p] = reader[p]
      BY Zenon, <2>2 DEF Return
    <3> QED
      BY Zenon, <3>1, StillGood
  <2> QED
    BY Zenon, <2>1, <2>2
<1> QED
  BY Zenon, <1>1, <1>2 DEF ReaderType

\* The token of a namespace that has none is installed.
LEMMA InstallType ==
    ASSUME TypeInv, NEW k \in Cursor,
           version' = IF version[k] = 0 THEN [version EXCEPT ![k] = 1] ELSE version
    PROVE  /\ TokensGoUp /\ version'[k] \in Nat \ {0}
           /\ \A j \in Cursor : version[j] # 0 => version'[j] = version[j]
           /\ \A j \in Cursor : j # k => version'[j] = version[j]
           /\ version[k] = 0 => version'[k] = 1
<1>1. version \in [Cursor -> Nat]
  BY Zenon DEF TypeInv, RowsType
<1> QED
  BY <1>1 DEF TokensGoUp

LEMMA SourceType ==
    ASSUME NEW kind, NEW r
    PROVE  Source(kind, r) \in SUBSET Events /\ Seats(r) \in SUBSET Events /\ Journeys(r) \in SUBSET Events
BY Zenon DEF Source, Seats, Journeys, Created

LEMMA RequestTypes ==
    ASSUME TypeInv, NEW q \in Readers, Request(q)
    PROVE  TypeInv' /\ Grows /\ ReaderFrame
<1>1. ReaderFrame /\ SpentType'
  BY Zenon, SpendType DEF Request, ReaderFrame, relayVars, TypeInv
<1>2. receipts \in SUBSET Events /\ version \in [Cursor -> Nat]
  BY Zenon DEF TypeInv, RowsType
<1>3. \A r : Exists(r)' = Exists(r)
  BY Zenon, <1>1 DEF Exists, Created, ReaderFrame
<1>4. UNCHANGED cache /\ TokensGoUp /\ ReaderType'
  <2> PICK api \in Apis, r \in Runs :
         \/ SearchTrainRuns(q, api, r) \/ Availability(q, api, r)
         \/ \E kind \in {"search", "availability"} : SourceOnly(q, api, kind, r)
    BY Zenon DEF Request
  <2>0. r \in Cursor
    BY Zenon, RunsFacts
  <2>1. CASE SearchTrainRuns(q, api, r)
    <3> DEFINE rec == [pc |-> "read", kind |-> "search", run |-> r, api |-> api, since |-> receipts,
                       token |-> version'[Search], value |-> {}, joined |-> FALSE]
    <3>1. TokensGoUp /\ version'[Search] \in Nat \ {0}
      BY Zenon, <2>1, RunsFacts, InstallType DEF SearchTrainRuns
    <3>2. rec \in ReaderRec
      BY ZenonT(30), <1>2, <2>0, <3>1 DEF ReaderRec, ReaderSteps
    <3>3. reader' = [reader EXCEPT ![q] = rec] /\ Exists(r)
      BY ZenonT(30), <2>1 DEF SearchTrainRuns, NewRequest
    <3>4. reader'[q] = rec
      BY ZenonT(30), <3>3 DEF TypeInv, ReaderType
    <3>5. ReaderGood(q)'
      <4>1. /\ reader'[q].run = r /\ reader'[q].kind = "search" /\ reader'[q].pc = "read"
            /\ reader'[q].token = version'[Search]
        BY SMTT(30), <3>4
      <4>2. version'[Search] <= version'[Search] /\ version'[Search] # 0
        BY <3>1
      <4> QED
        BY Zenon, <1>3, <3>3, <4>1, <4>2 DEF ReaderGood, Namespace
    <3> HIDE DEF rec
    <3> QED
      BY ZenonT(30), <1>1, <2>1, <3>1, <3>2, <3>3, <3>5, OneReader DEF SearchTrainRuns
  <2>2. CASE Availability(q, api, r)
    <3> DEFINE pc == IF version[r] = 0 THEN "do" ELSE "read"
               rec == [pc |-> pc, kind |-> "availability", run |-> r, api |-> api,
                       since |-> receipts, token |-> version[r], value |-> {}, joined |-> FALSE]
    <3>1. TokensGoUp /\ version'[r] = version[r] /\ version[r] \in Nat
      BY <1>2, <2>0, <2>2 DEF Availability, TokensGoUp
    <3>2. rec \in ReaderRec
      BY Zenon, <1>2, <2>0, <3>1 DEF ReaderRec, ReaderSteps
    <3>3. reader' = [reader EXCEPT ![q] = rec] /\ Exists(r)
      BY ZenonT(30), <2>2 DEF Availability, NewRequest
    <3>4. reader'[q] = rec
      BY ZenonT(30), <3>3 DEF TypeInv, ReaderType
    <3>5. ReaderGood(q)'
      <4>1. /\ reader'[q].run = r /\ reader'[q].kind = "availability" /\ reader'[q].pc = pc
            /\ reader'[q].token = version[r]
        BY SMTT(30), <3>4
      <4>2. version'[r] = version[r] /\ version[r] <= version[r]
        BY <3>1
      <4>3. pc \in {"do", "read"} /\ (pc = "read" => version[r] # 0)
        BY Zenon
      <4> HIDE DEF pc
      <4> QED
        BY Zenon, <1>3, <3>3, <4>1, <4>2, <4>3 DEF ReaderGood, Namespace
    <3> HIDE DEF rec
    <3> QED
      BY ZenonT(30), <1>1, <2>2, <3>1, <3>2, <3>3, <3>5, OneReader DEF Availability
  <2>3. CASE \E kind \in {"search", "availability"} : SourceOnly(q, api, kind, r)
    <3> PICK kind \in {"search", "availability"} : SourceOnly(q, api, kind, r)
      BY Zenon, <2>3
    <3> DEFINE rec == [NoRequest(api) EXCEPT !.pc = "done", !.kind = kind, !.run = r,
                                             !.since = receipts, !.value = Source(kind, r)]
    <3>1. TokensGoUp
      BY <1>2 DEF SourceOnly, TokensGoUp
    <3>2. rec \in ReaderRec /\ rec.pc = "done"
      BY ZenonT(30), <1>2, <2>0, SourceType DEF ReaderRec, ReaderSteps, NoRequest
    <3>3. reader' = [reader EXCEPT ![q] = rec]
      BY Zenon DEF SourceOnly
    <3> HIDE DEF rec
    <3>4. reader'[q] = rec
      BY Zenon, <3>3 DEF TypeInv, ReaderType
    <3>5. ReaderGood(q)'
      BY Zenon, <3>2, <3>4 DEF ReaderGood, Free
    <3> QED
      BY Zenon, <1>1, <3>1, <3>2, <3>3, <3>5, OneReader DEF SourceOnly
  <2> QED
    BY Zenon, <2>1, <2>2, <2>3
<1>5. RelayTypeOK' /\ StreamType' /\ RowsType' /\ ConsumerType' /\ AdminType' /\ CachedType'
  BY Zenon, <1>1, <1>4 DEF TypeInv, ReaderFrame, RelayTypeOK, StreamType, RowsType, ConsumerType, AdminType,
                    CachedType, TokensGoUp
<1>6. Grows
  BY Zenon, <1>1, <1>4, OutboxStill DEF ReaderFrame, TokensGoUp
<1> QED
  BY Zenon, <1>1, <1>4, <1>5, <1>6 DEF TypeInv

LEMMA ReaderStepTypes ==
    ASSUME TypeInv, NEW q \in Readers, ReaderStep(q)
    PROVE  TypeInv' /\ Grows /\ ReaderFrame
<1>1. ReaderFrame /\ SpentType'
  BY Zenon DEF ReaderStep, ReaderFrame, relayVars, TypeInv, SpentType
<1>2. /\ reader[q] \in ReaderRec /\ version \in [Cursor -> Nat]
      /\ reader \in [Readers -> ReaderRec] /\ ReaderGood(q)
  BY Zenon DEF TypeInv, RowsType, ReaderType
<1>3. \A r : Exists(r)' = Exists(r)
  BY Zenon, <1>1 DEF Exists, Created, ReaderFrame
<1>4. TokensGoUp
  <2>1. CASE UNCHANGED version
    BY <1>2, <2>1 DEF TokensGoUp
  <2>2. CASE InstallVersion(q)
    <3>1. reader[q].run \in Cursor
      BY Zenon, <1>2 DEF ReaderRec
    <3> QED
      BY Zenon, <2>2, <3>1, InstallType DEF InstallVersion
  <2> QED
    BY Zenon, <2>1, <2>2 DEF ReaderStep, CacheHit, CacheMiss, CoalescerDo, FillVersion, FillHit, FillMiss,
       SearchProjection, ReadSource, RereadSource, WriteCache, WriteError, SourceError
\* One request's step, given what it becomes.
<1>5. ASSUME NEW rec \in ReaderRec, reader' = [reader EXCEPT ![q] = rec],
             rec.pc = "done" \/ (~Free(q) /\ UNCHANGED version /\ rec.run = reader[q].run
                                 /\ rec.kind = reader[q].kind /\ rec.token = reader[q].token
                                 /\ (rec.pc \in {"read", "fillRead", "projection", "write", "reread"}
                                        => rec.token # 0)
                                 /\ (rec.pc = "install" => rec.kind = "availability" /\ rec.token = 0)
                                 /\ rec.pc # "reread"
                                 /\ (rec.pc = "projection" => rec.kind = "search"))
      PROVE  ReaderType'
  <2>1. reader'[q] = rec
    BY Zenon, <1>2, <1>5
  <2>2. ReaderGood(q)'
    BY Zenon, <1>2, <1>3, <1>5, <2>1 DEF ReaderGood, Free, Namespace
  <2> QED
    BY ZenonT(30), <1>1, <1>4, <1>5, <2>2, OneReader
<1>6. ReaderType'
  <2>1. CASE CacheHit(q)
    <3> DEFINE rec == [reader[q] EXCEPT !.pc = "done", !.value = cache[DataKey(q)]]
    <3>1. cache[DataKey(q)] \in SUBSET Events
      BY Zenon, <2>1 DEF CacheHit, TypeInv, CachedType
    <3>2. rec \in ReaderRec /\ rec.pc = "done"
      BY Zenon, <1>2, <3>1 DEF ReaderRec, ReaderSteps
    <3>3. reader' = [reader EXCEPT ![q] = rec]
      BY Zenon, <2>1, <1>2 DEF CacheHit, ReaderRec
    <3> HIDE DEF rec
    <3> QED
      BY Zenon, <1>5, <3>2, <3>3
  <2>2. CASE CacheMiss(q) \/ CoalescerDo(q)
    <3>1. PICK pc \in {"do", "wait", "fill"}, j \in BOOLEAN :
             reader' = [reader EXCEPT ![q] = [reader[q] EXCEPT !.pc = pc, !.joined = j]]
      <4>1. CASE reader' = [reader EXCEPT ![q].pc = "wait", ![q].joined = TRUE]
        BY ZenonT(30), <1>2, <4>1 DEF ReaderRec
      <4>2. CASE Step(q, "do")
        <5>1. /\ reader' = [reader EXCEPT ![q] = [reader[q] EXCEPT !.pc = "do", !.joined = reader[q].joined]]
              /\ reader[q].joined \in BOOLEAN
          BY Zenon, <1>2, <4>2 DEF ReaderRec, Step
        <5> QED
          BY Zenon, <5>1
      <4>3. CASE Step(q, "fill")
        <5>1. /\ reader' = [reader EXCEPT ![q] = [reader[q] EXCEPT !.pc = "fill", !.joined = reader[q].joined]]
              /\ reader[q].joined \in BOOLEAN
          BY Zenon, <1>2, <4>3 DEF ReaderRec, Step
        <5> QED
          BY Zenon, <5>1
      <4> QED
        BY Zenon, <2>2, <4>1, <4>2, <4>3 DEF CacheMiss, CoalescerDo
    <3> DEFINE rec == [reader[q] EXCEPT !.pc = pc, !.joined = j]
    <3>2. /\ rec \in ReaderRec /\ rec.pc = pc /\ rec.run = reader[q].run
          /\ rec.kind = reader[q].kind /\ rec.token = reader[q].token
      BY Zenon, <1>2 DEF ReaderRec, ReaderSteps, FillSteps
    <3>3. ~Free(q) /\ UNCHANGED version
      BY Zenon, <2>2 DEF CacheMiss, CoalescerDo, Free
    <3> HIDE DEF rec
    <3> QED
      BY ZenonT(30), <1>5, <3>1, <3>2, <3>3 DEF rec
  <2>3. CASE FillVersion(q)
    <3>1. CASE reader[q].kind = "search"
      <4> DEFINE rec == [reader[q] EXCEPT !.pc = "fillRead"]
      <4>1. /\ rec \in ReaderRec /\ rec.pc = "fillRead" /\ rec.run = reader[q].run
            /\ rec.kind = reader[q].kind /\ rec.token = reader[q].token
        BY Zenon, <1>2 DEF ReaderRec, ReaderSteps, FillSteps
      <4>2. reader' = [reader EXCEPT ![q] = rec] /\ ~Free(q) /\ UNCHANGED version /\ reader[q].token # 0
        BY Zenon, <1>2, <2>3, <3>1 DEF FillVersion, Step, Free, ReaderGood
      <4> HIDE DEF rec
      <4> QED
        BY Zenon, <1>5, <4>1, <4>2
    <3>2. CASE reader[q].kind # "search"
      <4> PICK token \in {0, version[reader[q].run]} :
             reader' = [reader EXCEPT ![q].token = token,
                                      ![q].pc = IF token = 0 THEN "source" ELSE "fillRead"]
        BY Zenon, <2>3, <3>2 DEF FillVersion
      <4> DEFINE pc == IF token = 0 THEN "source" ELSE "fillRead"
                 rec == [reader[q] EXCEPT !.token = token, !.pc = pc]
      <4>1. ~Free(q) /\ UNCHANGED version
        BY Zenon, <2>3 DEF FillVersion, Free
      <4>2. reader[q].run \in Runs /\ reader[q].run \in Cursor /\ Exists(reader[q].run)
        BY Zenon, <1>2, <4>1, RunsFacts DEF ReaderGood
      <4>3. token \in Nat /\ token <= version[reader[q].run]
        BY <1>2, <4>2
      <4>4. /\ rec \in ReaderRec /\ rec.pc = pc /\ rec.run = reader[q].run
            /\ rec.kind = "availability" /\ rec.token = token
        BY Zenon, <1>2, <3>2, <4>3 DEF ReaderRec, ReaderSteps, FillSteps
      <4>5. reader' = [reader EXCEPT ![q] = rec]
        BY Zenon, <1>2 DEF ReaderRec
      <4> HIDE DEF rec
      <4>6. reader'[q] = rec
        BY Zenon, <1>2, <4>5
      <4>7. ReaderGood(q)'
        BY Zenon, <1>3, <4>1, <4>2, <4>3, <4>4, <4>6 DEF ReaderGood, Namespace
      <4> QED
        BY Zenon, <1>1, <1>4, <4>4, <4>5, <4>7, OneReader
    <3> QED
      BY Zenon, <3>1, <3>2
  <2>4. CASE FillHit(q)
    <3>1. cache[DataKey(q)] \in SUBSET Events
      BY Zenon, <2>4 DEF FillHit, TypeInv, CachedType
    <3> QED
      BY Zenon, <1>1, <1>4, <2>4, <3>1, ReturnTypes DEF FillHit
  <2>5. CASE FillMiss(q)
    <3> DEFINE pc == IF reader[q].kind = "search" THEN "projection" ELSE "source"
               rec == [reader[q] EXCEPT !.pc = pc]
    <3>1. /\ rec \in ReaderRec /\ rec.pc = pc /\ rec.run = reader[q].run
          /\ rec.kind = reader[q].kind /\ rec.token = reader[q].token
      BY Zenon, <1>2 DEF ReaderRec, ReaderSteps, FillSteps
    <3>2. reader' = [reader EXCEPT ![q] = rec] /\ ~Free(q) /\ UNCHANGED version /\ reader[q].token # 0
      BY Zenon, <1>2, <2>5 DEF FillMiss, Step, Free, ReaderGood
    <3> HIDE DEF rec
    <3> QED
      BY Zenon, <1>5, <3>1, <3>2
  <2>6. CASE SearchProjection(q)
    <3>0. ~Free(q) /\ UNCHANGED version /\ reader[q].token # 0 /\ reader[q].run \in Runs
      BY Zenon, <1>2, <2>6 DEF SearchProjection, Free, ReaderGood
    <3>1. PICK pc \in {"write", "source"}, v \in SUBSET Events :
             reader' = [reader EXCEPT ![q] = [reader[q] EXCEPT !.pc = pc, !.value = v]]
      <4>1. CASE Step(q, "source")
        <5>1. reader' = [reader EXCEPT ![q] = [reader[q] EXCEPT !.pc = "source", !.value = reader[q].value]]
          BY Zenon, <1>2, <4>1 DEF Step, ReaderRec
        <5> QED
          BY Zenon, <1>2, <5>1 DEF ReaderRec
      <4>2. CASE /\ projection[reader[q].run] # NoRows
                 /\ reader' = [reader EXCEPT ![q].pc = "write", ![q].value = projection[reader[q].run]]
        <5>1. projection[reader[q].run] \in SUBSET Events
          BY Zenon, <3>0, <4>2 DEF TypeInv, RowsType
        <5> QED
          BY Zenon, <1>2, <4>2, <5>1 DEF ReaderRec
      <4> QED
        BY Zenon, <2>6, <4>1, <4>2 DEF SearchProjection
    <3> DEFINE rec == [reader[q] EXCEPT !.pc = pc, !.value = v]
    <3>2. /\ rec \in ReaderRec /\ rec.pc = pc /\ rec.run = reader[q].run
          /\ rec.kind = reader[q].kind /\ rec.token = reader[q].token
      BY Zenon, <1>2 DEF ReaderRec, ReaderSteps, FillSteps
    <3> HIDE DEF rec
    <3> QED
      BY ZenonT(30), <1>5, <3>0, <3>1, <3>2 DEF rec
  <2>7. CASE ReadSource(q)
    <3> DEFINE v == Source(reader[q].kind, reader[q].run)
               pc == IF reader[q].token = 0 THEN "install" ELSE "write"
               rec == [reader[q] EXCEPT !.value = v, !.pc = pc]
    <3>1. v \in SUBSET Events
      BY Zenon, SourceType
    <3>2. reader' = [reader EXCEPT ![q] = rec] /\ ~Free(q) /\ UNCHANGED version
      BY Zenon, <1>2, <2>7 DEF ReadSource, Free, ReaderRec
    <3> HIDE DEF v
    <3>3. /\ rec \in ReaderRec /\ rec.pc = pc /\ rec.run = reader[q].run
          /\ rec.kind = reader[q].kind /\ rec.token = reader[q].token
      BY ZenonT(30), <1>2, <3>1 DEF ReaderRec, ReaderSteps, FillSteps
    <3> HIDE DEF rec
    <3>4. pc = "install" => reader[q].kind = "availability" /\ reader[q].token = 0
      BY Zenon, <1>2, <3>2 DEF ReaderGood, ReaderRec
    <3> QED
      BY Zenon, <1>5, <3>2, <3>3, <3>4
  <2>8. CASE InstallVersion(q)
    <3> DEFINE r == reader[q].run
               pc == IF version[r] = 0 THEN "write" ELSE "reread"
               rec == [reader[q] EXCEPT !.token = version'[r], !.pc = pc]
    <3>1. /\ ~Free(q) /\ reader[q].kind = "availability" /\ r \in Runs /\ r \in Cursor /\ Exists(r)
          /\ reader' = [reader EXCEPT ![q].token = version'[r], ![q].pc = pc]
      BY Zenon, <1>2, <2>8, RunsFacts DEF InstallVersion, ReaderGood, Free
    <3>2. version'[r] \in Nat \ {0}
      BY Zenon, <2>8, <3>1, InstallType DEF InstallVersion
    <3>3. /\ rec \in ReaderRec /\ rec.pc = pc /\ rec.run = r /\ rec.kind = "availability"
          /\ rec.token = version'[r]
      BY Zenon, <1>2, <3>1, <3>2 DEF ReaderRec, ReaderSteps, FillSteps
    <3>4. reader' = [reader EXCEPT ![q] = rec]
      BY Zenon, <1>2, <3>1 DEF ReaderRec
    <3> HIDE DEF rec
    <3>5. reader'[q] = rec
      BY Zenon, <1>2, <3>4
    <3>6. ReaderGood(q)'
      BY SMTT(30), <1>3, <3>1, <3>2, <3>3, <3>5 DEF ReaderGood, Namespace
    <3> QED
      BY Zenon, <1>1, <1>4, <3>3, <3>4, <3>6, OneReader
  <2>9. CASE RereadSource(q)
    <3> DEFINE v == Seats(reader[q].run)
               rec == [reader[q] EXCEPT !.pc = "write", !.value = v]
    <3>1. v \in SUBSET Events
      BY Zenon, SourceType
    <3>2. reader' = [reader EXCEPT ![q] = rec] /\ ~Free(q) /\ UNCHANGED version /\ reader[q].token # 0
      BY Zenon, <1>2, <2>9 DEF RereadSource, Free, ReaderRec, ReaderGood
    <3> HIDE DEF v
    <3>3. /\ rec \in ReaderRec /\ rec.pc = "write" /\ rec.run = reader[q].run
          /\ rec.kind = reader[q].kind /\ rec.token = reader[q].token
      BY Zenon, <1>2, <3>1 DEF ReaderRec, ReaderSteps, FillSteps
    <3> HIDE DEF rec
    <3> QED
      BY Zenon, <1>5, <3>2, <3>3
  <2>10. CASE WriteCache(q) \/ WriteError(q)
    <3>1. reader[q].value \in SUBSET Events
      BY Zenon, <1>2 DEF ReaderRec
    <3> QED
      BY Zenon, <1>1, <1>4, <2>10, <3>1, ReturnTypes DEF WriteCache, WriteError
  <2>11. CASE SourceError(q)
    <3>1. \A p \in Readers : NoRequest(reader[p].api) \in ReaderRec /\ NoRequest(reader[p].api).pc = "idle"
      BY Zenon, <1>2 DEF NoRequest, ReaderRec, ReaderSteps, Cursor
    <3>2. reader' = [p \in Readers |-> IF p \in Waiting(q) \cup {q} THEN NoRequest(reader[p].api)
                                                                    ELSE reader[p]]
      BY Zenon, <2>11 DEF SourceError
    <3>3. reader' \in [Readers -> ReaderRec]
      BY Zenon, <1>2, <3>1, <3>2
    <3>4. ASSUME NEW p \in Readers PROVE ReaderGood(p)'
      <4>1. CASE p \in Waiting(q) \cup {q}
        BY ZenonT(30), <3>1, <3>2, <4>1 DEF ReaderGood, Free
      <4>2. CASE p \notin Waiting(q) \cup {q}
        <5>1. reader'[p] = reader[p]
          BY Zenon, <3>2, <4>2
        <5> QED
          BY Zenon, <1>1, <1>4, <5>1, StillGood
      <4> QED
        BY Zenon, <4>1, <4>2
    <3> QED
      BY Zenon, <3>3, <3>4 DEF ReaderType
  <2> QED
    BY Zenon, <2>1, <2>2, <2>3, <2>4, <2>5, <2>6, <2>7, <2>8, <2>9, <2>10, <2>11 DEF ReaderStep
<1>7. CachedType'
  <2>1. CASE UNCHANGED cache
    BY Zenon, <2>1 DEF TypeInv, CachedType
  <2>2. CASE WriteCache(q)
    <3>1. ~Free(q) /\ reader[q].pc = "write"
      BY Zenon, <2>2 DEF WriteCache, Free
    <3>2. DataKey(q) \in Cursor \X (Nat \ {0}) \X Runs
      BY Zenon, <1>2, <3>1, RequestFacts DEF DataKey, ReaderGood, ReaderRec
    <3>3. reader[q].value \subseteq Events
      BY Zenon, <1>2 DEF ReaderRec
    <3> QED
      BY Zenon, <2>2, <3>2, <3>3 DEF WriteCache, TypeInv, CachedType
  <2> QED
    BY Zenon, <2>1, <2>2 DEF ReaderStep, CacheHit, CacheMiss, CoalescerDo, FillVersion, FillHit, FillMiss,
       SearchProjection, ReadSource, InstallVersion, RereadSource, WriteError, SourceError
<1>8. RelayTypeOK' /\ StreamType' /\ RowsType' /\ ConsumerType' /\ AdminType'
  BY ZenonT(30), <1>1, <1>4 DEF TypeInv, ReaderFrame, RelayTypeOK, StreamType, RowsType, ConsumerType, AdminType,
                    TokensGoUp
<1>9. Grows
  BY Zenon, <1>1, <1>4, OutboxStill DEF ReaderFrame, TokensGoUp
<1> QED
  BY Zenon, <1>1, <1>6, <1>7, <1>8, <1>9 DEF TypeInv

LEMMA TypeStep == TypeInv /\ [Next]_vars => TypeInv' /\ Grows
<1> SUFFICES ASSUME TypeInv, [Next]_vars PROVE TypeInv' /\ Grows
  BY Zenon
<1>1. CASE UNCHANGED vars
  <2>1. TypeInv'
    BY ZenonT(30), <1>1 DEF vars, TypeInv, RelayTypeOK, StreamType, RowsType, ConsumerType, AdminType, CachedType,
                ReaderType, ReaderGood, Free, Namespace, Exists, Created, SpentType
  <2>2. Created \subseteq Created'
    BY Zenon, <1>1 DEF vars, Created
  <2> QED
    BY Zenon, <1>1, <2>1, <2>2, StillGrows DEF vars
<1>2. CASE Next
  BY Zenon, <1>2, CommitTypes, RelayTypes, ConsumerTypes, AdminTypes, RequestTypes, ReaderStepTypes DEF Next
<1> QED
  BY Zenon, <1>1, <1>2
============================================================================
