------------------------ MODULE EventPipelineProofs ------------------------
(***************************************************************************)
(* What the pipeline from a committed change to the journey projection     *)
(* promises, for any number of events, train runs, relays, consumers,      *)
(* admin commands, readers and faults: no event is lost, a receipt means   *)
(* the event was applied, and the projection is current whenever it may be *)
(* used.                                                                   *)
(***************************************************************************)
EXTENDS EventPipelineTypes

-----------------------------------------------------------------------------
(* No event is lost.  NoEventLost is not inductive: a relay marks a row     *)
(* published because it added an entry earlier, and a consumer acknowledges *)
(* an entry because it saw the receipt earlier.                             *)

\* The event can be processed without its outbox row, or has been.
Safe(e) ==
    \/ e \in receipts
    \/ e \in dlq
    \/ \E m \in (readTo + 1)..Len(stream) : stream[m] = e
    \/ \E m \in DOMAIN pel : stream[m] = e

\* A worker about to mark its event published has added it to the stream.
SentAreSafe ==
    \A w \in Relays, e \in Events : relay[w].tried = "sent" /\ AtEvent(w, e) => Safe(e)

PublishedAreSafe == \A e \in Events : outbox[e].status = "published" => Safe(e)

\* A consumer acknowledges an entry only when its event has the receipt.
AcksAreJustified ==
    \A c \in Consumers : consumer[c].pc = "ack" =>
        \A m \in consumer[c].todo : Current(c, m) => stream[m] \in receipts

FlowInv == SentAreSafe /\ PublishedAreSafe /\ AcksAreJustified

SafeStay == \A e \in Events : Safe(e) => Safe(e)'

LEMMA LengthFacts ==
    ASSUME TypeInv
    PROVE  /\ readTo \in Nat /\ Len(stream) \in Nat /\ readTo <= Len(stream)
           /\ DOMAIN pel \subseteq 1..Len(stream)
<1>1. readTo \in 0..Len(stream) /\ stream \in Seq(Events) /\ DOMAIN pel \subseteq 1..readTo
  BY Zenon DEF TypeInv, StreamType
<1> QED
  BY <1>1

\* Entries added and receipts written take nothing away.
LEMMA StillSafe ==
    ASSUME TypeInv, TypeInv', Grows, UNCHANGED readTo, DOMAIN pel' = DOMAIN pel, dlq \subseteq dlq'
    PROVE  SafeStay
<1> SUFFICES ASSUME NEW e \in Events, Safe(e) PROVE Safe(e)'
  BY Zenon DEF SafeStay
<1>0. Len(stream) <= Len(stream') /\ Len(stream) \in Nat /\ Len(stream') \in Nat /\ readTo \in Nat
  BY LengthFacts DEF Grows, TypeInv, StreamType
<1>1. CASE e \in receipts \/ e \in dlq
  BY Zenon, <1>1 DEF Safe, Grows
<1>2. CASE \E m \in (readTo + 1)..Len(stream) : stream[m] = e
  <2> PICK m \in (readTo + 1)..Len(stream) : stream[m] = e
    BY Zenon, <1>2
  <2>1. m \in 1..Len(stream) /\ m \in (readTo' + 1)..Len(stream')
    BY <1>0
  <2> QED
    BY Zenon, <2>1 DEF Safe, Grows
<1>3. CASE \E m \in DOMAIN pel : stream[m] = e
  <2> PICK m \in DOMAIN pel : stream[m] = e
    BY Zenon, <1>3
  <2>1. m \in 1..Len(stream)
    BY Zenon, LengthFacts
  <2> QED
    BY Zenon, <2>1 DEF Safe, Grows
<1> QED
  BY Zenon, <1>1, <1>2, <1>3 DEF Safe

LEMMA IntervalSplit ==
    ASSUME NEW a \in Nat, NEW b \in Nat, NEW c \in Nat, NEW m \in (a + 1)..c
    PROVE  m \in (a + 1)..b \/ m \in (b + 1)..c
OBVIOUS

\* Entries that are read become pending.
LEMMA ReceiveSafe ==
    ASSUME TypeInv, TypeInv', NEW c \in Consumers, ConsumerReceive(c)
    PROVE  SafeStay
<1> SUFFICES ASSUME NEW e \in Events, Safe(e) PROVE Safe(e)'
  BY Zenon DEF SafeStay
<1> PICK claimed : Receive(c, claimed)
  BY Zenon DEF ConsumerReceive
<1>1. /\ readTo' \in Nat /\ readTo <= readTo' /\ readTo' <= Len(stream)
      /\ DOMAIN pel' = DOMAIN pel \cup (readTo + 1)..readTo'
      /\ UNCHANGED <<stream, dlq, receipts>>
  BY Zenon, Received DEF Receive
<1>2. CASE \E m \in (readTo + 1)..Len(stream) : stream[m] = e
  <2> PICK m \in (readTo + 1)..Len(stream) : stream[m] = e
    BY Zenon, <1>2
  <2>0. readTo \in Nat /\ Len(stream) \in Nat /\ readTo' \in Nat
    BY Zenon, <1>1, LengthFacts
  <2>1. m \in (readTo + 1)..readTo' \/ m \in (readTo' + 1)..Len(stream)
    BY Zenon, <2>0, IntervalSplit
  <2>2. stream'[m] = e /\ Len(stream') = Len(stream)
    BY Zenon, <1>1
  <2> QED
    BY Zenon, <1>1, <2>1, <2>2 DEF Safe
<1> QED
  BY Zenon, <1>1, <1>2 DEF Safe

\* What happens to an entry that is dropped.
LEMMA DropSafe ==
    ASSUME TypeInv, TypeInv', Grows, UNCHANGED readTo, dlq \subseteq dlq',
           NEW m \in 1..Len(stream), DOMAIN pel' = DOMAIN pel \ {m}, m \in DOMAIN pel => Safe(stream[m])'
    PROVE  SafeStay
<1> SUFFICES ASSUME NEW e \in Events, Safe(e) PROVE Safe(e)'
  BY Zenon DEF SafeStay
<1>0. Len(stream) <= Len(stream') /\ Len(stream) \in Nat /\ Len(stream') \in Nat /\ readTo \in Nat
  BY LengthFacts DEF Grows, TypeInv, StreamType
<1>1. CASE e \in receipts \/ e \in dlq
  BY Zenon, <1>1 DEF Safe, Grows
<1>2. CASE \E n \in (readTo + 1)..Len(stream) : stream[n] = e
  <2> PICK n \in (readTo + 1)..Len(stream) : stream[n] = e
    BY Zenon, <1>2
  <2>1. n \in 1..Len(stream) /\ n \in (readTo' + 1)..Len(stream')
    BY <1>0
  <2> QED
    BY Zenon, <2>1 DEF Safe, Grows
<1>3. CASE \E n \in DOMAIN pel : stream[n] = e
  <2> PICK n \in DOMAIN pel : stream[n] = e
    BY Zenon, <1>3
  <2>1. n \in 1..Len(stream)
    BY Zenon, LengthFacts
  <2> QED
    BY Zenon, <2>1 DEF Safe, Grows
<1> QED
  BY Zenon, <1>1, <1>2, <1>3 DEF Safe

LEMMA AckSafe ==
    ASSUME TypeInv, TypeInv', Grows, AcksAreJustified, NEW c \in Consumers, NEW m \in consumer[c].todo,
           Ack(c, m) \/ ContinueAndAck(c, m) \/ HandleFailure(c, m) \/ AckError(c, m)
    PROVE  SafeStay
<1>1. m \in 1..Len(stream) /\ stream[m] \in Events
  BY Zenon, MessageFacts
<1>2. UNCHANGED <<readTo, receipts>> /\ dlq \subseteq dlq'
  BY Zenon DEF Ack, ContinueAndAck, HandleFailure, AckError
<1>3. CASE UNCHANGED pel
  BY Zenon, <1>2, <1>3, StillSafe
<1>4. CASE pel' = Drop(pel, m)
  <2>1. DOMAIN pel' = DOMAIN pel \ {m}
    BY Zenon, <1>4 DEF Drop
  <2>2. CASE Ack(c, m)
    <3>1. stream[m] \in receipts /\ UNCHANGED stream
      BY Zenon, <2>2 DEF Ack, AcksAreJustified
    <3>2. Safe(stream[m])'
      BY Zenon, <1>2, <3>1 DEF Safe
    <3> QED
      BY Zenon, <1>1, <1>2, <2>1, <3>2, DropSafe
  <2>3. CASE ContinueAndAck(c, m)
    <3>1. CASE m \in DOMAIN pel
      <4>1. XAdd(stream[m]) /\ stream \in Seq(Events) /\ Len(stream) \in Nat
        BY <2>3, <3>1 DEF ContinueAndAck, TypeInv, StreamType
      <4>2. Len(stream') = Len(stream) + 1 /\ stream'[Len(stream) + 1] = stream[m]
        BY <1>1, <4>1 DEF XAdd
      <4>3. Len(stream) + 1 \in (readTo' + 1)..Len(stream')
        BY <1>2, <4>1, <4>2, LengthFacts
      <4>4. Safe(stream[m])'
        <5>1. stream'[m] = stream[m]
          BY Zenon, <1>1 DEF Grows
        <5> QED
          BY Zenon, <4>2, <4>3, <5>1 DEF Safe
      <4> QED
        BY Zenon, <1>1, <1>2, <2>1, <4>4, DropSafe
    <3>2. CASE m \notin DOMAIN pel
      BY Zenon, <1>1, <1>2, <2>1, <3>2, DropSafe
    <3> QED
      BY Zenon, <3>1, <3>2
  <2>4. CASE HandleFailure(c, m)
    <3>1. UNCHANGED stream /\ (stream[m] \in dlq' \/ UNCHANGED pel)
      BY Zenon, <2>4 DEF HandleFailure
    <3>2. CASE stream[m] \in dlq'
      BY Zenon, <1>1, <1>2, <2>1, <3>1, <3>2, DropSafe DEF Safe
    <3> QED
      BY Zenon, <1>3, <3>1, <3>2
  <2>5. CASE AckError(c, m)
    BY Zenon, <1>3, <2>5 DEF AckError
  <2> QED
    BY Zenon, <2>2, <2>3, <2>4, <2>5
<1> QED
  BY Zenon, <1>3, <1>4 DEF Ack, ContinueAndAck, HandleFailure, AckError

LEMMA RelayKept ==
    ASSUME FlowInv, SafeStay, UNCHANGED <<outbox, relay>>
    PROVE  SentAreSafe' /\ PublishedAreSafe'
BY Zenon DEF FlowInv, SafeStay, SentAreSafe, PublishedAreSafe, AtEvent

LEMMA AcksKept ==
    ASSUME TypeInv, FlowInv, Grows, UNCHANGED consumer
    PROVE  AcksAreJustified'
<1> SUFFICES ASSUME NEW c \in Consumers, consumer[c].pc = "ack", NEW m \in consumer[c].todo, Current(c, m)
             PROVE  stream'[m] \in receipts'
  BY Zenon DEF AcksAreJustified, Current
<1>1. m \in 1..Len(stream) /\ stream[m] \in receipts
  BY Zenon, MessageFacts DEF FlowInv, AcksAreJustified
<1> QED
  BY Zenon, <1>1 DEF Grows

\* A consumer's own step: it is at "ack" only with the receipt before it.
LEMMA AcksMade ==
    ASSUME TypeInv, FlowInv, Grows, NEW c \in Consumers,
           \A d \in Consumers \ {c} : consumer'[d] = consumer[d],
           \/ consumer'[c].pc # "ack"
           \/ /\ consumer'[c].todo = consumer[c].todo
              /\ \E m \in consumer[c].todo : Current(c, m) /\ stream[m] \in receipts'
    PROVE  AcksAreJustified'
<1> SUFFICES ASSUME NEW d \in Consumers, consumer'[d].pc = "ack", NEW n \in consumer'[d].todo, Current(d, n)'
             PROVE  stream'[n] \in receipts'
  BY Zenon DEF AcksAreJustified
<1>1. CASE d # c
  <2>1. n \in consumer[d].todo /\ Current(d, n) /\ consumer[d].pc = "ack"
    BY Zenon, <1>1 DEF Current
  <2>2. n \in 1..Len(stream) /\ stream[n] \in receipts
    BY Zenon, <2>1, MessageFacts DEF FlowInv, AcksAreJustified
  <2> QED
    BY Zenon, <2>2 DEF Grows
<1>2. CASE d = c
  <2> PICK m \in consumer[c].todo : Current(c, m) /\ stream[m] \in receipts'
    BY Zenon, <1>2
  <2>1. m \in consumer'[c].todo /\ n \in consumer[c].todo
    BY Zenon, <1>2
  <2>2. n <= m /\ m <= n
    BY Zenon, <1>2, <2>1 DEF Current
  <2>3. n = m /\ m \in 1..Len(stream)
    BY <2>1, <2>2, MessageFacts
  <2> QED
    BY Zenon, <2>3 DEF Grows
<1> QED
  BY Zenon, <1>1, <1>2

LEMMA FlowInit == Init => FlowInv
BY DEF Init, RelayInit, ReadModelInit, FlowInv, SentAreSafe, PublishedAreSafe, AcksAreJustified,
       RelayIdle, ConsumerIdle, AtEvent

LEMMA RelayFlow ==
    ASSUME TypeInv, TypeInv', FlowInv, NEW w \in Relays,
           \/ RelayClaim(w) \/ RelayPublish(w) \/ RelayPublishFails(w)
           \/ RelayFinalize(w) \/ RelayStops(w)
    PROVE  FlowInv'
<1>1. /\ Grows
      /\ UNCHANGED <<readTo, pel, dlq, receipts, consumer>>
  BY Zenon, RelayTypes
<1>2. SafeStay
  BY Zenon, <1>1, StillSafe
<1>3. AcksAreJustified'
  BY Zenon, <1>1, AcksKept
<1>4. /\ relay \in [Relays -> [batch : SUBSET Events, tried : {"no", "sent", "failed"}]]
      /\ outbox \in [Events -> OutboxRow]
  BY Zenon DEF TypeInv, RelayTypeOK
<1>5. SentAreSafe'
  <2> SUFFICES ASSUME NEW v \in Relays, NEW e \in Events, relay'[v].tried = "sent", AtEvent(v, e)'
               PROVE  Safe(e)'
    BY Zenon DEF SentAreSafe
  <2>1. CASE relay'[v] = relay[v]
    BY Zenon, <1>2, <2>1 DEF FlowInv, SentAreSafe, SafeStay, AtEvent
  <2>2. CASE v = w /\ RelayPublish(w)
    <3> PICK x \in Events : Publish(w, x, TRUE) /\ XAdd(x)
      BY Zenon, <2>2 DEF RelayPublish
    <3>1. relay'[w].batch = relay[w].batch /\ AtEvent(w, x) /\ e \in relay'[w].batch
      BY Zenon, <1>4, <2>2 DEF Publish, AtEvent
    <3>2. e <= x /\ x <= e
      BY Zenon, <2>2, <3>1 DEF AtEvent
    <3>3. e = x
      BY <3>2, EventsAssumption
    <3>4. Len(stream') = Len(stream) + 1 /\ stream'[Len(stream) + 1] = x
      BY Zenon, <1>1, AppendGrows
    <3>5. Len(stream) + 1 \in (readTo' + 1)..Len(stream')
      BY <1>1, <3>4, LengthFacts
    <3> QED
      BY Zenon, <3>3, <3>4, <3>5 DEF Safe
  <2>3. v = w \/ relay'[v] = relay[v]
    BY Zenon, <1>4 DEF RelayClaim, RelayPublish, RelayPublishFails, RelayFinalize, RelayStops, Claim, Publish,
              MarkPublished, MarkFailed, FinalizeError, RelayCrash, NextInBatch
  <2>4. RelayClaim(w) \/ RelayPublishFails(w) \/ RelayFinalize(w) \/ RelayStops(w) => relay'[w].tried # "sent"
    BY <1>4 DEF RelayClaim, RelayPublishFails, RelayFinalize, RelayStops, Claim, Publish,
              MarkPublished, MarkFailed, FinalizeError, RelayCrash, NextInBatch, RelayIdle
  <2> QED
    BY Zenon, <2>1, <2>2, <2>3, <2>4
<1>6. PublishedAreSafe'
  <2> SUFFICES ASSUME NEW e \in Events, outbox'[e].status = "published"
               PROVE  Safe(e)'
    BY Zenon DEF PublishedAreSafe
  <2>1. CASE outbox[e].status = "published"
    BY Zenon, <1>2, <2>1 DEF FlowInv, PublishedAreSafe, SafeStay
  <2>2. CASE outbox[e].status # "published"
    <3>1. CASE RelayFinalize(w)
      <4>1. PICK x \in Events : MarkPublished(w, x) \/ MarkFailed(w, x)
        BY Zenon, <3>1 DEF RelayFinalize
      <4>2. CASE MarkPublished(w, x)
        <5>1. e = x /\ AtEvent(w, x) /\ relay[w].tried = "sent"
          BY Zenon, <1>4, <2>2, <4>2 DEF MarkPublished, Finalize
        <5> QED
          BY Zenon, <1>2, <5>1 DEF FlowInv, SentAreSafe, SafeStay
      <4>3. CASE MarkFailed(w, x)
        BY Zenon, <1>4, <2>2, <4>3 DEF MarkFailed, Finalize, OutboxRow
      <4> QED
        BY Zenon, <4>1, <4>2, <4>3
    <3>2. CASE RelayClaim(w)
      BY <1>4, <2>2, <3>2 DEF RelayClaim, Claim
    <3>3. CASE RelayPublish(w) \/ RelayPublishFails(w) \/ RelayStops(w)
      BY Zenon, <2>2, <3>3 DEF RelayPublish, RelayPublishFails, RelayStops, Publish, FinalizeError, RelayCrash
    <3> QED
      BY Zenon, <3>1, <3>2, <3>3
  <2> QED
    BY Zenon, <2>1, <2>2
<1> QED
  BY Zenon, <1>3, <1>5, <1>6 DEF FlowInv

LEMMA ConsumerFlow ==
    ASSUME TypeInv, TypeInv', FlowInv, NEW c \in Consumers,
           ConsumerReceive(c) \/ ConsumerStep(c) \/ ConsumerFails(c)
    PROVE  FlowInv'
<1>1. Grows /\ ConsumerFrame
  BY Zenon, ConsumerTypes
<1>2. consumer \in [Consumers -> ConsumerRec]
  BY ZenonT(30) DEF TypeInv, ConsumerType
<1>3. SafeStay
  <2>1. CASE ConsumerReceive(c)
    BY Zenon, <2>1, ReceiveSafe
  <2>2. CASE UNCHANGED <<readTo, pel, dlq>>
    BY Zenon, <1>1, <2>2, StillSafe
  <2>3. CASE \E m \in consumer[c].todo :
                Ack(c, m) \/ ContinueAndAck(c, m) \/ HandleFailure(c, m) \/ AckError(c, m)
    BY Zenon, <1>1, <2>3, AckSafe DEF FlowInv
  <2> QED
    BY Zenon, <2>1, <2>2, <2>3 DEF ConsumerStep, ConsumerFails, BeginEventProgress, RotateGlobalCaches,
       MarkEventInvalidated, ResolveImpact, RotateAvailabilityCaches, ProcessEventPage, CommitEventPage,
       CompleteEvent, ConsumerCrash
<1>4. AcksAreJustified'
  <2>1. \A d \in Consumers \ {c} : consumer'[d] = consumer[d]
    <3>1. CASE ConsumerReceive(c)
      BY ZenonT(30), <1>2, <3>1 DEF ConsumerReceive, Receive
    <3>2. CASE ConsumerStep(c)
      BY ZenonT(30), <1>2, <3>2 DEF ConsumerStep, BeginEventProgress, RotateGlobalCaches, MarkEventInvalidated,
         ResolveImpact, RotateAvailabilityCaches, ProcessEventPage, CommitEventPage, CompleteEvent,
         Ack, ContinueAndAck, GoTo, NextMessage
    <3>3. CASE ConsumerFails(c)
      BY Zenon, <1>2, <3>3 DEF ConsumerFails, ConsumerCrash, HandleFailure, AckError, NextMessage
    <3> QED
      BY Zenon, <3>1, <3>2, <3>3
  <2>2. \/ consumer'[c].pc # "ack"
        \/ /\ consumer'[c].todo = consumer[c].todo
           /\ \E m \in consumer[c].todo : Current(c, m) /\ stream[m] \in receipts'
    <3>1. CASE ConsumerReceive(c)
      BY Zenon, <1>2, <3>1 DEF ConsumerReceive, Receive, ConsumerIdle
    <3>2. CASE ConsumerFails(c)
      <4>1. CASE ConsumerCrash(c)
        BY Zenon, <1>2, <4>1 DEF ConsumerCrash, ConsumerIdle
      <4>2. CASE \E m : NextMessage(c, m)
        BY Zenon, <1>2, <4>2 DEF NextMessage, ConsumerIdle
      <4> QED
        BY Zenon, <3>2, <4>1, <4>2 DEF ConsumerFails, HandleFailure, AckError
    <3>3. ASSUME NEW m \in consumer[c].todo, Ack(c, m) \/ ContinueAndAck(c, m)
          PROVE  consumer'[c].pc # "ack"
      BY Zenon, <1>2, <3>3 DEF Ack, ContinueAndAck, NextMessage, ConsumerIdle
    <3>4. ASSUME NEW m \in consumer[c].todo, BeginEventProgress(c, m) \/ MarkEventInvalidated(c, m)
          PROVE  \/ consumer'[c].pc # "ack"
                 \/ /\ consumer'[c].todo = consumer[c].todo
                    /\ Current(c, m) /\ stream[m] \in receipts'
      <4>1. stream[m] \in Events /\ progress[stream[m]] \in [phase : Phases, after : Cursor]
        BY Zenon, MessageFacts DEF TypeInv, RowsType
      <4>2. CASE stream[m] \in receipts /\ GoTo(c, "ack")
        BY <1>1, <1>2, <3>4, <4>2 DEF GoTo, BeginEventProgress, MarkEventInvalidated, Grows, ConsumerRec
      <4>3. ASSUME NEW row, row.phase \in Phases,
                   consumer' = [consumer EXCEPT ![c].pc = StepOf(row.phase), ![c].after = row.after]
            PROVE  consumer'[c].pc # "ack"
        <5>1. StepOf(row.phase) # "ack"
          BY Zenon, <4>3, StepOfType
        <5> QED
          BY Zenon, <1>2, <4>3, <5>1 DEF ConsumerRec
      <4>4. CASE BeginEventProgress(c, m)
        <5> DEFINE row == IF progress[stream[m]].phase = "none"
                          THEN [phase |-> "invalidating", after |-> 0] ELSE progress[stream[m]]
        <5>1. row.phase \in Phases
          BY Zenon, <4>1 DEF Phases
        <5>2. \/ stream[m] \in receipts /\ GoTo(c, "ack")
              \/ consumer' = [consumer EXCEPT ![c].pc = StepOf(row.phase), ![c].after = row.after]
          BY Zenon, <4>4 DEF BeginEventProgress
        <5> HIDE DEF row
        <5> QED
          BY Zenon, <4>2, <4>3, <5>1, <5>2
      <4>5. CASE MarkEventInvalidated(c, m)
        <5> DEFINE row == IF progress[stream[m]].phase = "invalidating"
                          THEN [progress[stream[m]] EXCEPT !.phase = "processing"] ELSE progress[stream[m]]
        <5>1. row.phase \in Phases
          BY Zenon, <4>1 DEF Phases
        <5>2. consumer' = [consumer EXCEPT ![c].pc = StepOf(row.phase), ![c].after = row.after]
          BY Zenon, <4>5 DEF MarkEventInvalidated
        <5> HIDE DEF row
        <5> QED
          BY Zenon, <4>3, <5>1, <5>2
      <4> QED
        BY Zenon, <3>4, <4>4, <4>5
    <3>5. ASSUME NEW m \in consumer[c].todo, CompleteEvent(c, m)
          PROVE  \/ consumer'[c].pc # "ack"
                 \/ /\ consumer'[c].todo = consumer[c].todo
                    /\ Current(c, m) /\ stream[m] \in receipts'
      BY <1>2, <3>5 DEF CompleteEvent, GoTo, ConsumerRec
    <3>6. ASSUME NEW m \in consumer[c].todo,
                 \/ RotateGlobalCaches(c, m) \/ ResolveImpact(c, m) \/ RotateAvailabilityCaches(c, m)
                 \/ ProcessEventPage(c, m) \/ CommitEventPage(c, m)
          PROVE  consumer'[c].pc # "ack"
      <4>1. CASE RotateGlobalCaches(c, m) \/ ProcessEventPage(c, m) \/ CommitEventPage(c, m)
        BY <1>2, <4>1 DEF RotateGlobalCaches, ProcessEventPage, CommitEventPage, GoTo, ConsumerRec
      <4>2. CASE RotateAvailabilityCaches(c, m)
        BY <1>2, <4>2 DEF RotateAvailabilityCaches, GoTo, ConsumerRec
      <4>3. CASE ResolveImpact(c, m)
        BY <1>2, <4>3 DEF ResolveImpact, ConsumerRec
      <4> QED
        BY Zenon, <3>6, <4>1, <4>2, <4>3
    <3>7. CASE ConsumerStep(c)
      BY Zenon, <3>3, <3>4, <3>5, <3>6, <3>7 DEF ConsumerStep
    <3> QED
      BY Zenon, <3>1, <3>2, <3>7
  <2> QED
    BY Zenon, <1>1, <2>1, <2>2, AcksMade
<1> QED
  BY Zenon, <1>1, <1>3, <1>4, RelayKept DEF FlowInv, ConsumerFrame

LEMMA FlowStep == TypeInv /\ FlowInv /\ [Next]_vars => FlowInv'
<1> SUFFICES ASSUME TypeInv, FlowInv, [Next]_vars PROVE FlowInv'
  BY Zenon
<1>1. TypeInv' /\ Grows
  BY Zenon, TypeStep
<1>2. ASSUME UNCHANGED <<readTo, pel, dlq, outbox, relay, consumer>> PROVE FlowInv'
  <2>1. SafeStay
    BY Zenon, <1>1, <1>2, StillSafe
  <2> QED
    BY Zenon, <1>1, <1>2, <2>1, RelayKept, AcksKept DEF FlowInv
<1>3. CASE UNCHANGED vars
  BY Zenon, <1>2, <1>3 DEF vars
<1>4. ASSUME NEW e \in Events, CommitChange(e) PROVE FlowInv'
  <2>1. UNCHANGED <<readTo, pel, dlq, relay, consumer, receipts>>
    BY Zenon, <1>4 DEF CommitChange, InsertOutbox, readModelVars
  <2>2. SafeStay
    BY Zenon, <1>1, <2>1, StillSafe
  <2>3. AcksAreJustified'
    BY Zenon, <1>1, <2>1, AcksKept
  <2>4. SentAreSafe'
    BY Zenon, <2>1, <2>2 DEF FlowInv, SentAreSafe, SafeStay, AtEvent
  <2>5. PublishedAreSafe'
    <3>1. \A f \in Events : outbox'[f].status = "published" => outbox[f].status = "published"
      BY Zenon, <1>4 DEF CommitChange, InsertOutbox, TypeInv, RelayTypeOK, OutboxRow
    <3> QED
      BY Zenon, <2>2, <3>1 DEF FlowInv, PublishedAreSafe, SafeStay
  <2> QED
    BY Zenon, <2>3, <2>4, <2>5 DEF FlowInv
<1>5. ASSUME NEW a \in Admins, AdminStarts(a) \/ AdminStep(a) \/ AdminFails(a) PROVE FlowInv'
  BY Zenon, <1>2, <1>5, AdminTypes DEF AdminFrame
<1>6. ASSUME NEW q \in Readers, Request(q) \/ ReaderStep(q) PROVE FlowInv'
  BY Zenon, <1>2, <1>6, RequestTypes, ReaderStepTypes DEF ReaderFrame
<1> QED
  BY Zenon, <1>1, <1>3, <1>4, <1>5, <1>6, RelayFlow, ConsumerFlow DEF Next

LEMMA FlowIsEnough == TypeInv /\ FlowInv => NoEventLost
<1> SUFFICES ASSUME TypeInv, FlowInv, NEW e \in Created \ receipts,
                    outbox[e].status \notin {"pending", "processing", "dead_letter"}
             PROVE  \/ \E m \in (readTo + 1)..Len(stream) : stream[m] = e
                    \/ \E m \in DOMAIN pel : stream[m] = e
                    \/ e \in dlq
  BY Zenon DEF NoEventLost
<1>1. e \in Events /\ outbox[e].status = "published"
  BY Zenon DEF Created, TypeInv, RelayTypeOK, OutboxRow, OutboxStatus
<1> QED
  BY Zenon, <1>1 DEF FlowInv, PublishedAreSafe, Safe

-----------------------------------------------------------------------------
(* What a receipt means.  The invariant follows the code's argument: rows   *)
(* are only ever replaced by a later reading of the source because both     *)
(* kinds of rebuild hold the run's lock from before they read, and the      *)
(* cursor of an event moves over a run only together with its rows.         *)

\* A state of the source: changes are committed in the order of their events.
Snapshot(D) == D \subseteq Created /\ \A e \in D : \A f \in Events : f < e => f \in D

\* Only committed changes are announced.
AnnouncedAreCreated ==
    /\ Snapshot(Created)
    /\ \A w \in Relays : relay[w].batch \subseteq Created
    /\ \A m \in 1..Len(stream) : stream[m] \in Created
    /\ \A a \in Admins : admin[a].pc = "enqueue" => admin[a].event \in Created
    /\ \A e \in Events : progress[e].phase # "none" => e \in Created
    /\ receipts \subseteq Created

HasRows(r) == projection[r] # NoRows

Applied(e, r) == HasRows(r) /\ e \in projection[r]

\* Rows reflect the run's changes up to some moment, its creation included.
RowsAreSnapshots ==
    \A r \in Runs : HasRows(r) =>
       /\ projection[r] \subseteq Journeys(r)
       /\ CreatedBy[r] # 0 => CreatedBy[r] \in projection[r]
       /\ \A e \in projection[r] : \A f \in ProjectionEvents :
             f < e /\ r \in Impact[f] => f \in projection[r]

\* Who holds the lock of a run, and what it has read.
ConsumerHolds(c, r) == consumer[c].pc = "commit" /\ r \in consumer[c].page
AdminHolds(a, r) == admin[a].pc \in {"commitRun", "commitCandidate"} /\ admin[a].run = r

RunLocksExclusive ==
    /\ \A r \in Runs : \A c, d \in Consumers : ConsumerHolds(c, r) /\ ConsumerHolds(d, r) => c = d
    /\ \A r \in Runs : \A a, b \in Admins : AdminHolds(a, r) /\ AdminHolds(b, r) => a = b
    /\ \A r \in Runs : \A c \in Consumers, a \in Admins : ~(ConsumerHolds(c, r) /\ AdminHolds(a, r))

\* The source as the holder of a lock has read it is no older than the rows.
HoldersReadAfterRows ==
    /\ \A c \in Consumers : consumer[c].pc = "commit" => Snapshot(consumer[c].asOf)
    /\ \A a \in Admins : admin[a].pc \in {"commitRun", "commitCandidate"} => Snapshot(admin[a].asOf)
    /\ \A r \in Runs : HasRows(r) =>
          /\ \A c \in Consumers : ConsumerHolds(c, r) => projection[r] \subseteq consumer[c].asOf
          /\ \A a \in Admins : AdminHolds(a, r) => projection[r] \subseteq admin[a].asOf

ProjectedInv == AnnouncedAreCreated /\ RowsAreSnapshots /\ RunLocksExclusive /\ HoldersReadAfterRows

\* The runs a completed event must have been applied to.
Need(e) == {r \in Impact[e] : CreatedBy[r] <= e}

\* The consumer is at message m, in one of the steps.
At(c, m, steps) == consumer[c].pc \in steps /\ Current(c, m)

EventLocksExclusive ==
    \A c, d \in Consumers : \A m \in consumer[c].todo, n \in consumer[d].todo :
       At(c, m, {"commit"}) /\ At(d, n, {"commit"}) /\ stream[m] = stream[n] => c = d

\* A page has no gap, and everything that is left when no more follow.
PagesAreComplete ==
    \A c \in Consumers : \A m \in consumer[c].todo : At(c, m, {"rotateRuns", "process", "commit"}) =>
       LET me == consumer[c]
           need == IF stream[m] \in ProjectionEvents \cup AvailabilityEvents
                   THEN Need(stream[m]) ELSE {}
       IN /\ \A r \in need : me.after < r /\ r <= Last(me.page, me.after) => r \in me.page
          /\ ~me.more => \A r \in need : me.after < r => r \in me.page

\* What a consumer commits, it does to the row it found.
CommitsAreCurrent ==
    \A c \in Consumers : \A m \in consumer[c].todo : At(c, m, {"commit"}) =>
       /\ progress[stream[m]] = [phase |-> "processing", after |-> consumer[c].after]
       /\ stream[m] \in consumer[c].asOf

\* A row's cursor is behind the work.
CursorsFollowRows ==
    \A e \in ProjectionEvents :
       /\ progress[e].phase = "invalidating" => progress[e].after = 0
       /\ progress[e].phase = "processing" =>
             \A r \in Need(e) : r <= progress[e].after => Applied(e, r)
       /\ e \in receipts \/ progress[e].phase = "finalizing" => \A r \in Need(e) : Applied(e, r)

AppliedInv == EventLocksExclusive /\ PagesAreComplete /\ CommitsAreCurrent /\ CursorsFollowRows

\* The runs that existed before the first event have rows as far as the checkpoint says.
CheckpointFollowsRows ==
    \A r \in Runs : CreatedBy[r] = 0 /\ (state.ready \/ r <= state.after) => HasRows(r)

RebuildsAreComplete ==
    \A a \in Admins : admin[a].pc \in {"rebuild", "commitCandidate"} =>
       \A r \in Runs :
          CreatedBy[r] = 0 /\ admin[a].after < r /\ (r <= admin[a].last \/ ~admin[a].more) =>
             r \in admin[a].left \/ AdminHolds(a, r) \/ HasRows(r)

ReadyInv == CheckpointFollowsRows /\ RebuildsAreComplete

LEMMA SnapshotStays ==
    ASSUME NEW D, Snapshot(D), Created \subseteq Created'
    PROVE  D \subseteq Created' /\ \A e \in D : \A f \in Events : f < e => f \in D
BY Zenon DEF Snapshot

LEMMA AnnouncedKept ==
    ASSUME TypeInv, AnnouncedAreCreated, Grows, Snapshot(Created)',
           \A w \in Relays : relay'[w].batch \subseteq Created',
           UNCHANGED stream \/ \E x \in Created : XAdd(x),
           \A a \in Admins : admin'[a].pc = "enqueue" => admin'[a].event \in Created,
           \A e \in Events : progress'[e].phase # "none" => e \in Created,
           receipts' \subseteq Created
    PROVE  AnnouncedAreCreated'
<1>1. Created \subseteq Created' /\ Created \subseteq Events
  BY Zenon DEF Grows, Created
<1>2. \A m \in 1..Len(stream') : stream'[m] \in Created'
  <2>1. CASE UNCHANGED stream
    BY Zenon, <1>1, <2>1 DEF AnnouncedAreCreated
  <2>2. CASE \E x \in Created : XAdd(x)
    <3> PICK x \in Created : XAdd(x)
      BY Zenon, <2>2
    <3>1. stream \in Seq(Events) /\ Len(stream) \in Nat /\ x \in Events
      BY <1>1 DEF TypeInv, StreamType
    <3>2. /\ Len(stream') = Len(stream) + 1 /\ stream'[Len(stream) + 1] = x
          /\ \A i \in 1..Len(stream) : stream'[i] = stream[i]
      BY <3>1 DEF XAdd
    <3>3. \A m \in 1..(Len(stream) + 1) : m \in 1..Len(stream) \/ m = Len(stream) + 1
      BY <3>1
    <3> QED
      BY Zenon, <1>1, <3>2, <3>3 DEF AnnouncedAreCreated
  <2> QED
    BY Zenon, <2>1, <2>2
<1> QED
  BY Zenon, <1>1, <1>2 DEF AnnouncedAreCreated

\* Nothing but a committed change makes a snapshot.
LEMMA SnapshotKept ==
    ASSUME AnnouncedAreCreated, Created' = Created
    PROVE  Snapshot(Created)'
BY Zenon DEF AnnouncedAreCreated, Snapshot

LEMMA AnnouncedStep == TypeInv /\ AnnouncedAreCreated /\ [Next]_vars => AnnouncedAreCreated'
<1> SUFFICES ASSUME TypeInv, AnnouncedAreCreated, [Next]_vars PROVE AnnouncedAreCreated'
  BY Zenon
<1>1. TypeInv' /\ Grows
  BY Zenon, TypeStep
<1>2. /\ \A w \in Relays : relay[w].batch \subseteq Created
      /\ \A a \in Admins : admin[a].pc = "enqueue" => admin[a].event \in Created
      /\ \A e \in Events : progress[e].phase # "none" => e \in Created
      /\ receipts \subseteq Created /\ Created \subseteq Created'
  BY Zenon, <1>1 DEF AnnouncedAreCreated, Grows
<1>3. ASSUME NEW e \in Events, CommitChange(e) PROVE AnnouncedAreCreated'
  <2>1. Created' = Created \cup {e}
    BY Zenon, <1>3, CommitTypes
  <2>2. UNCHANGED <<relay, stream, admin, progress, receipts>>
    BY Zenon, <1>3 DEF CommitChange, InsertOutbox, readModelVars
  <2>3. \A f \in Events : f < e => f \in Created
    BY Zenon, <1>3 DEF CommitChange, InsertOutbox, Created
  <2>4. Snapshot(Created)'
    BY Zenon, <2>1, <2>3 DEF AnnouncedAreCreated, Snapshot
  <2> QED
    BY Zenon, <1>1, <1>2, <2>2, <2>4, AnnouncedKept
<1>4. ASSUME NEW w \in Relays,
             \/ RelayClaim(w) \/ RelayPublish(w) \/ RelayPublishFails(w)
             \/ RelayFinalize(w) \/ RelayStops(w)
      PROVE AnnouncedAreCreated'
  <2>1. Created' = Created /\ UNCHANGED <<admin, progress, receipts>>
    BY Zenon, <1>4, RelayTypes
  <2>2. \A v \in Relays : relay'[v].batch \subseteq Created'
    <3>0. relay \in [Relays -> [batch : SUBSET Events, tried : {"no", "sent", "failed"}]]
      BY Zenon DEF TypeInv, RelayTypeOK
    <3>1. CASE RelayClaim(w)
      <4> PICK due : Claim(w, due)
        BY Zenon, <3>1 DEF RelayClaim
      <4>1. due \subseteq Created
        BY Zenon DEF Claim, Claimable, Created
      <4> QED
        BY Zenon, <1>2, <2>1, <3>0, <4>1 DEF Claim
    <3>2. \A v \in Relays : RelayClaim(w) \/ relay'[v].batch \subseteq relay[v].batch
      BY <1>4, <3>0 DEF RelayPublish, RelayPublishFails, RelayFinalize, RelayStops, Publish,
         MarkPublished, MarkFailed, FinalizeError, RelayCrash, NextInBatch, RelayIdle
    <3> QED
      BY Zenon, <1>2, <2>1, <3>1, <3>2
  <2>3. UNCHANGED stream \/ \E x \in Created : XAdd(x)
    BY Zenon, <1>2, <1>4 DEF RelayClaim, RelayPublish, RelayPublishFails, RelayFinalize, RelayStops, Publish,
       AtEvent, readModelVars
  <2> QED
    BY Zenon, <1>1, <1>2, <2>1, <2>2, <2>3, SnapshotKept, AnnouncedKept
<1>5. ASSUME NEW c \in Consumers, ConsumerReceive(c) \/ ConsumerStep(c) \/ ConsumerFails(c)
      PROVE  AnnouncedAreCreated'
  <2>1. ConsumerFrame
    BY Zenon, <1>5, ConsumerTypes
  <2>2. Created' = Created
    BY Zenon, <2>1 DEF ConsumerFrame, Created
  <2>3. \A m \in consumer[c].todo : stream[m] \in Created
    BY ZenonT(30), MessageFacts DEF AnnouncedAreCreated
  <2>4. UNCHANGED stream \/ \E x \in Created : XAdd(x)
    BY ZenonT(30), <1>5, <2>3 DEF ConsumerReceive, ConsumerStep, ConsumerFails, Receive, BeginEventProgress,
       RotateGlobalCaches, MarkEventInvalidated, ResolveImpact, RotateAvailabilityCaches,
       ProcessEventPage, CommitEventPage, CompleteEvent, Ack, ContinueAndAck, ConsumerCrash,
       HandleFailure, AckError
  <2>5. UNCHANGED progress \/ \E m \in consumer[c].todo : \E row : progress' = [progress EXCEPT ![stream[m]] = row]
    BY ZenonT(30), <1>5 DEF ConsumerReceive, ConsumerStep, ConsumerFails, Receive, BeginEventProgress,
       RotateGlobalCaches, MarkEventInvalidated, ResolveImpact, RotateAvailabilityCaches,
       ProcessEventPage, CommitEventPage, CompleteEvent, Ack, ContinueAndAck, ConsumerCrash,
       HandleFailure, AckError
  <2>6. \A e \in Events : progress'[e].phase # "none" => e \in Created
    BY <1>2, <2>3, <2>5 DEF TypeInv, RowsType
  <2>7. receipts' \subseteq Created
    BY ZenonT(30), <1>2, <1>5, <2>3 DEF ConsumerReceive, ConsumerStep, ConsumerFails, Receive, BeginEventProgress,
       RotateGlobalCaches, MarkEventInvalidated, ResolveImpact, RotateAvailabilityCaches,
       ProcessEventPage, CommitEventPage, CompleteEvent, Ack, ContinueAndAck, ConsumerCrash,
       HandleFailure, AckError
  <2> QED
    BY Zenon, <1>1, <1>2, <2>1, <2>2, <2>4, <2>6, <2>7, SnapshotKept, AnnouncedKept DEF ConsumerFrame
<1>6. ASSUME NEW a \in Admins, AdminStarts(a) \/ AdminStep(a) \/ AdminFails(a)
      PROVE  AnnouncedAreCreated'
  <2>1. AdminFrame
    BY Zenon, <1>6, AdminTypes
  <2>2. Created' = Created
    BY Zenon, <2>1 DEF AdminFrame, Created
  <2>3. UNCHANGED stream \/ \E x \in Created : XAdd(x)
    BY Zenon, <1>2, <1>6 DEF AdminStarts, AdminStep, AdminFails, RebuildTrainRun, BeginRebuildAll, PendingEvent,
       ListRebuildCandidates, RebuildCandidate, CommitTrainRun, CheckpointRebuildAll, EnqueueEvent,
       AdminStops
  <2>4. ASSUME NEW b \in Admins, admin'[b].pc = "enqueue" PROVE admin'[b].event \in Created
    <3>1. CASE b = a /\ \E e \in Events : PendingEvent(a, e)
      <4> PICK e \in Events : PendingEvent(a, e)
        BY Zenon, <3>1
      <4>1. admin'[a].event = e
        BY Zenon DEF PendingEvent, AdminIdle, TypeInv, AdminType
      <4>2. e \in Created
        BY Zenon, <1>2 DEF PendingEvent, Created
      <4> QED
        BY Zenon, <3>1, <4>1, <4>2
    <3>2. admin'[b] = admin[b] \/ (b = a /\ \E e \in Events : PendingEvent(a, e))
      <4>1. CASE b # a
        BY Zenon, <1>6, <4>1 DEF AdminStarts, AdminStep, AdminFails, RebuildTrainRun, BeginRebuildAll,
           PendingEvent, ListRebuildCandidates, RebuildCandidate, CommitTrainRun, CheckpointRebuildAll,
           EnqueueEvent, AdminStops, LoadTrainRun, TypeInv, AdminType
      <4>2. ASSUME b = a, AdminStarts(a) => \A e \in Events : ~PendingEvent(a, e) PROVE FALSE
        <5>1. admin[a] \in AdminRec /\ admin \in [Admins -> AdminRec]
          BY Zenon DEF TypeInv, AdminType
        <5>2. CASE \E r \in Runs : RebuildTrainRun(a, r) \/ RebuildCandidate(a, r)
          BY <2>4, <4>2, <5>1, <5>2 DEF RebuildTrainRun, RebuildCandidate, LoadTrainRun, AdminRec
        <5>3. CASE \E after \in Cursor : BeginRebuildAll(a, after)
          BY <2>4, <4>2, <5>1, <5>3 DEF BeginRebuildAll, AdminIdle
        <5>4. CASE ListRebuildCandidates(a)
          BY Zenon, <2>4, <4>2, <5>1, <5>4 DEF ListRebuildCandidates, AdminRec
        <5>5. CASE CommitTrainRun(a)
          BY Zenon, <2>4, <4>2, <5>1, <5>5 DEF CommitTrainRun, AdminRec, AdminIdle
        <5>6. CASE CheckpointRebuildAll(a) \/ EnqueueEvent(a) \/ AdminStops(a)
          BY <2>4, <4>2, <5>1, <5>6 DEF CheckpointRebuildAll, EnqueueEvent, AdminStops, AdminIdle
        <5>7. admin[a].left \subseteq Runs
          BY Zenon, <5>1 DEF AdminRec
        <5> QED
          BY Zenon, <1>6, <4>2, <5>2, <5>3, <5>4, <5>5, <5>6, <5>7 DEF AdminStarts, AdminStep, AdminFails
      <4> QED
        BY ZenonT(30), <4>1, <4>2
    <3> QED
      BY Zenon, <1>2, <2>4, <3>1, <3>2
  <2> QED
    BY Zenon, <1>1, <1>2, <2>1, <2>2, <2>3, <2>4, SnapshotKept, AnnouncedKept DEF AdminFrame
<1>7. ASSUME UNCHANGED <<outbox, relay, stream, progress, receipts, admin>> PROVE AnnouncedAreCreated'
  <2>1. Created' = Created
    BY Zenon, <1>7 DEF Created
  <2> QED
    BY Zenon, <1>1, <1>2, <1>7, <2>1, SnapshotKept, AnnouncedKept
<1>8. ASSUME NEW q \in Readers, Request(q) \/ ReaderStep(q) PROVE AnnouncedAreCreated'
  BY Zenon, <1>7, <1>8, RequestTypes, ReaderStepTypes DEF ReaderFrame
<1> QED
  BY Zenon, <1>3, <1>4, <1>5, <1>6, <1>7, <1>8 DEF Next, vars

-----------------------------------------------------------------------------
(* Rows and the locks of their runs. *)

\* What a step does to rows: it never takes a change back.
RowsGrow == \A r \in Runs : HasRows(r) => HasRows(r)' /\ projection[r] \subseteq projection'[r]

ConsumersRelease == \A c \in Consumers : consumer'[c].pc = "commit" => consumer'[c] = consumer[c]

AdminsRelease ==
    \A a \in Admins : admin'[a].pc \in {"commitRun", "commitCandidate"} => admin'[a] = admin[a]

RowsInv == RowsAreSnapshots /\ RunLocksExclusive /\ HoldersReadAfterRows

\* A rebuild from a snapshot that is no older than the rows.
LEMMA RebuildGrows ==
    ASSUME NEW r \in Runs, NEW D, Snapshot(D), RowsAreSnapshots, TypeInv,
           HasRows(r) => projection[r] \subseteq D
    PROVE  /\ Rebuilt(r, D) # NoRows =>
                /\ Rebuilt(r, D) \subseteq Journeys(r)
                /\ CreatedBy[r] # 0 => CreatedBy[r] \in Rebuilt(r, D)
                /\ \A e \in Rebuilt(r, D) : \A f \in ProjectionEvents :
                      f < e /\ r \in Impact[f] => f \in Rebuilt(r, D)
           /\ HasRows(r) => Rebuilt(r, D) # NoRows /\ projection[r] \subseteq Rebuilt(r, D)
           /\ CreatedBy[r] = 0 \/ CreatedBy[r] \in D =>
                /\ Rebuilt(r, D) # NoRows
                /\ \A e \in D \cap ProjectionEvents : r \in Impact[e] => e \in Rebuilt(r, D)
<1> DEFINE X == {e \in D \cap ProjectionEvents : r \in Impact[e]}
<1>1. X \in SUBSET Events /\ X # NoRows
  BY Zenon, NoRowsIsNoValue, EventKindsAssumption
<1>2. CreatedBy[r] = 0 \/ CreatedBy[r] \in D => Rebuilt(r, D) = X
  BY Zenon DEF Rebuilt
<1>3. ~(CreatedBy[r] = 0 \/ CreatedBy[r] \in D) => Rebuilt(r, D) = NoRows
  BY Zenon DEF Rebuilt
<1>4. X \subseteq Journeys(r)
  BY Zenon DEF Snapshot, Journeys
<1>5. CreatedBy[r] # 0 => CreatedBy[r] \in ProjectionEvents /\ r \in Impact[CreatedBy[r]]
  BY Zenon, ImpactAssumption
<1>6. \A e \in X : \A f \in ProjectionEvents : f < e /\ r \in Impact[f] => f \in X
  BY Zenon, EventKindsAssumption DEF Snapshot
<1>7. HasRows(r) => (CreatedBy[r] = 0 \/ CreatedBy[r] \in D) /\ projection[r] \subseteq X
  BY Zenon DEF RowsAreSnapshots, Journeys
<1> HIDE DEF X
<1>8. Rebuilt(r, D) # NoRows => Rebuilt(r, D) = X /\ (CreatedBy[r] # 0 => CreatedBy[r] \in D)
  BY Zenon, <1>2, <1>3
<1>9. CreatedBy[r] # 0 /\ CreatedBy[r] \in D => CreatedBy[r] \in X
  BY Zenon, <1>5 DEF X
<1>10. \A e \in D \cap ProjectionEvents : r \in Impact[e] => e \in X
  BY Zenon DEF X
<1> QED
  BY Zenon, <1>1, <1>2, <1>4, <1>6, <1>7, <1>8, <1>9, <1>10

\* The rows of the runs in S are replaced by their holder, who lets the locks go.
LEMMA RowsReplaced ==
    ASSUME TypeInv, RowsInv, Created \subseteq Created', NEW S \in SUBSET Runs, NEW D, Snapshot(D),
           \A r \in S : HasRows(r) => projection[r] \subseteq D,
           projection' = [r \in Runs |-> IF r \in S THEN Rebuilt(r, D) ELSE projection[r]],
           ConsumersRelease, AdminsRelease,
           \A r \in S : /\ \A c \in Consumers : ~ConsumerHolds(c, r)'
                        /\ \A a \in Admins : ~AdminHolds(a, r)'
    PROVE  RowsInv' /\ RowsGrow
<1>1. ASSUME NEW r \in S
      PROVE  /\ projection'[r] = Rebuilt(r, D)
             /\ Rebuilt(r, D) # NoRows =>
                  /\ Rebuilt(r, D) \subseteq Journeys(r)
                  /\ CreatedBy[r] # 0 => CreatedBy[r] \in Rebuilt(r, D)
                  /\ \A e \in Rebuilt(r, D) : \A f \in ProjectionEvents :
                        f < e /\ r \in Impact[f] => f \in Rebuilt(r, D)
             /\ HasRows(r) => Rebuilt(r, D) # NoRows /\ projection[r] \subseteq Rebuilt(r, D)
  BY Zenon, RebuildGrows DEF RowsInv
<1>2. \A r \in Runs : r \notin S => projection'[r] = projection[r]
  BY Zenon
<1>3. \A r \in Runs : Journeys(r) \subseteq Journeys(r)'
  BY Zenon DEF Journeys
<1>4. RowsGrow
  BY Zenon, <1>1, <1>2 DEF RowsGrow, HasRows
<1>5. RowsAreSnapshots'
  <2> SUFFICES ASSUME NEW r \in Runs, HasRows(r)'
               PROVE  /\ projection'[r] \subseteq Journeys(r)'
                      /\ CreatedBy[r] # 0 => CreatedBy[r] \in projection'[r]
                      /\ \A e \in projection'[r] : \A f \in ProjectionEvents :
                            f < e /\ r \in Impact[f] => f \in projection'[r]
    BY Zenon DEF RowsAreSnapshots
  <2>1. CASE r \in S
    BY Zenon, <1>1, <1>3, <2>1 DEF HasRows
  <2>2. CASE r \notin S
    BY Zenon, <1>2, <1>3, <2>2 DEF HasRows, RowsInv, RowsAreSnapshots
  <2> QED
    BY Zenon, <2>1, <2>2
<1>6. /\ \A c \in Consumers, r \in Runs : ConsumerHolds(c, r)' => ConsumerHolds(c, r) /\ consumer'[c] = consumer[c]
      /\ \A a \in Admins, r \in Runs : AdminHolds(a, r)' => AdminHolds(a, r) /\ admin'[a] = admin[a]
  BY Zenon DEF ConsumersRelease, AdminsRelease, ConsumerHolds, AdminHolds
<1>7. RunLocksExclusive'
  BY Zenon, <1>6 DEF RowsInv, RunLocksExclusive
<1>8. HoldersReadAfterRows'
  <2>1. \A c \in Consumers : consumer'[c].pc = "commit" => Snapshot(consumer[c].asOf)' /\ consumer'[c] = consumer[c]
    BY Zenon, SnapshotStays DEF ConsumersRelease, RowsInv, HoldersReadAfterRows, Snapshot
  <2>2. \A a \in Admins : admin'[a].pc \in {"commitRun", "commitCandidate"} =>
           Snapshot(admin[a].asOf)' /\ admin'[a] = admin[a]
    BY Zenon, SnapshotStays DEF AdminsRelease, RowsInv, HoldersReadAfterRows, Snapshot
  <2>3. ASSUME NEW r \in Runs, HasRows(r)'
        PROVE  /\ \A c \in Consumers : ConsumerHolds(c, r)' => projection'[r] \subseteq consumer'[c].asOf
               /\ \A a \in Admins : AdminHolds(a, r)' => projection'[r] \subseteq admin'[a].asOf
    <3>1. CASE r \notin S
      BY Zenon, <1>2, <1>6, <2>3, <3>1 DEF RowsInv, HoldersReadAfterRows, HasRows
    <3> QED
      BY Zenon, <3>1
  <2> QED
    BY Zenon, <2>1, <2>2, <2>3 DEF HoldersReadAfterRows, Snapshot
<1> QED
  BY Zenon, <1>4, <1>5, <1>7, <1>8 DEF RowsInv

\* No rows change and no lock is taken.
LEMMA RowsKept ==
    ASSUME TypeInv, RowsInv, AnnouncedAreCreated, Created \subseteq Created', UNCHANGED projection,
           ConsumersRelease, AdminsRelease
    PROVE  RowsInv' /\ RowsGrow
<1>1. Snapshot(Created)
  BY Zenon DEF AnnouncedAreCreated
<1> DEFINE S == {}
<1>2. S \in SUBSET Runs /\ \A r \in S : FALSE
  BY Zenon
<1> HIDE DEF S
<1>3. projection' = [r \in Runs |-> IF r \in S THEN Rebuilt(r, Created) ELSE projection[r]]
  BY Zenon, <1>2 DEF TypeInv, RowsType
<1> QED
  BY Zenon, <1>1, <1>2, <1>3, RowsReplaced

\* A lock is taken by somebody who then reads the source.
LEMMA LocksTaken ==
    ASSUME TypeInv, RowsInv, AnnouncedAreCreated, Created' = Created, UNCHANGED projection,
           NEW S \in SUBSET Runs, \A r \in S : ~RunLocked(r),
           \/ \E c \in Consumers :
                /\ \A d \in Consumers \ {c} : consumer'[d] = consumer[d]
                /\ consumer[c].pc # "commit" /\ consumer'[c].page = S /\ consumer'[c].asOf = Created
                /\ UNCHANGED admin
           \/ \E a \in Admins :
                /\ \A b \in Admins \ {a} : admin'[b] = admin[b]
                /\ admin[a].pc \notin {"commitRun", "commitCandidate"}
                /\ S = {admin'[a].run} /\ admin'[a].asOf = Created
                /\ UNCHANGED consumer
    PROVE  RowsInv' /\ RowsGrow
<1>1. RowsGrow /\ RowsAreSnapshots'
  BY Zenon DEF RowsGrow, HasRows, RowsInv, RowsAreSnapshots, Journeys
<1>2. /\ \A r \in S : \A c \in Consumers : ~ConsumerHolds(c, r)
      /\ \A r \in S : \A a \in Admins : ~AdminHolds(a, r)
  BY Zenon DEF RunLocked, ConsumerHolds, AdminHolds
<1>3. /\ \A c \in Consumers : Snapshot(consumer[c].asOf) \/ consumer[c].pc # "commit"
      /\ \A a \in Admins : Snapshot(admin[a].asOf) \/ admin[a].pc \notin {"commitRun", "commitCandidate"}
      /\ Snapshot(Created) /\ \A D : Snapshot(D) => D \subseteq Created' /\ \A e \in D : \A f \in Events : f < e => f \in D
  BY Zenon DEF RowsInv, HoldersReadAfterRows, AnnouncedAreCreated, Snapshot
<1>4. \A r \in Runs : HasRows(r) => projection[r] \subseteq Created
  BY Zenon DEF RowsInv, RowsAreSnapshots, Journeys
<1>5. CASE \E c \in Consumers :
                /\ \A d \in Consumers \ {c} : consumer'[d] = consumer[d]
                /\ consumer[c].pc # "commit" /\ consumer'[c].page = S /\ consumer'[c].asOf = Created
                /\ UNCHANGED admin
  <2> PICK c \in Consumers :
                /\ \A d \in Consumers \ {c} : consumer'[d] = consumer[d]
                /\ consumer[c].pc # "commit" /\ consumer'[c].page = S /\ consumer'[c].asOf = Created
                /\ UNCHANGED admin
    BY Zenon, <1>5
  <2>1. /\ \A r \in Runs, a \in Admins : AdminHolds(a, r)' = AdminHolds(a, r)
        /\ \A r \in Runs, d \in Consumers \ {c} : ConsumerHolds(d, r)' = ConsumerHolds(d, r)
        /\ \A r \in Runs : ConsumerHolds(c, r)' => r \in S
    BY Zenon DEF AdminHolds, ConsumerHolds
  <2>2. RunLocksExclusive'
    BY <1>2, <2>1 DEF RowsInv, RunLocksExclusive
  <2>3. HoldersReadAfterRows'
    BY <1>3, <1>4, <2>1 DEF RowsInv, HoldersReadAfterRows, HasRows, Snapshot
  <2> QED
    BY Zenon, <1>1, <2>2, <2>3 DEF RowsInv
<1>6. CASE \E a \in Admins :
                /\ \A b \in Admins \ {a} : admin'[b] = admin[b]
                /\ admin[a].pc \notin {"commitRun", "commitCandidate"}
                /\ S = {admin'[a].run} /\ admin'[a].asOf = Created
                /\ UNCHANGED consumer
  <2> PICK a \in Admins :
                /\ \A b \in Admins \ {a} : admin'[b] = admin[b]
                /\ admin[a].pc \notin {"commitRun", "commitCandidate"}
                /\ S = {admin'[a].run} /\ admin'[a].asOf = Created
                /\ UNCHANGED consumer
    BY Zenon, <1>6
  <2>1. /\ \A r \in Runs, c \in Consumers : ConsumerHolds(c, r)' = ConsumerHolds(c, r)
        /\ \A r \in Runs, b \in Admins \ {a} : AdminHolds(b, r)' = AdminHolds(b, r)
        /\ \A r \in Runs : AdminHolds(a, r)' => r \in S
    BY Zenon DEF AdminHolds, ConsumerHolds
  <2>2. RunLocksExclusive'
    BY SMTT(30), <1>2, <2>1 DEF RowsInv, RunLocksExclusive
  <2>3. HoldersReadAfterRows'
    BY <1>3, <1>4, <2>1 DEF RowsInv, HoldersReadAfterRows, HasRows, Snapshot
  <2> QED
    BY Zenon, <1>1, <2>2, <2>3 DEF RowsInv
<1> QED
  BY Zenon, <1>5, <1>6

LEMMA ConsumerRows ==
    ASSUME TypeInv, RowsInv, AnnouncedAreCreated, NEW c \in Consumers,
           ConsumerReceive(c) \/ ConsumerStep(c) \/ ConsumerFails(c)
    PROVE  RowsInv' /\ RowsGrow
<1>1. ConsumerFrame /\ Grows
  BY Zenon, ConsumerTypes
<1>2. Created' = Created /\ AdminsRelease
  BY Zenon, <1>1 DEF ConsumerFrame, Created, AdminsRelease
<1>3. consumer \in [Consumers -> ConsumerRec]
  BY Zenon DEF TypeInv, ConsumerType
<1>4. ASSUME NEW m \in consumer[c].todo, ProcessEventPage(c, m) PROVE RowsInv' /\ RowsGrow
  <2>1. UNCHANGED projection /\ consumer[c].pc = "process"
    BY Zenon, <1>4 DEF ProcessEventPage
  <2>2. CASE GoTo(c, "continue")
    <3>1. ConsumersRelease
      BY Zenon, <1>3, <2>2 DEF GoTo, ConsumersRelease, ConsumerRec
    <3> QED
      BY Zenon, <1>2, <2>1, <3>1, RowsKept
  <2>3. CASE /\ \A r \in consumer[c].page : ~RunLocked(r)
             /\ consumer' = [consumer EXCEPT ![c].pc = "commit", ![c].asOf = Created]
    <3>1. /\ \A d \in Consumers \ {c} : consumer'[d] = consumer[d]
          /\ consumer'[c].page = consumer[c].page /\ consumer'[c].asOf = Created
          /\ consumer[c].page \in SUBSET Runs /\ UNCHANGED admin
      BY Zenon, <1>1, <1>3, <2>3 DEF ConsumerRec, ConsumerFrame
    <3> QED
      BY Zenon, <1>2, <2>1, <2>3, <3>1, LocksTaken
  <2> QED
    BY Zenon, <1>4, <2>2, <2>3 DEF ProcessEventPage
<1>5. ASSUME NEW m \in consumer[c].todo, CommitEventPage(c, m) PROVE RowsInv' /\ RowsGrow
  <2> DEFINE e == stream[m]
             S == IF e \in ProjectionEvents THEN consumer[c].page ELSE {}
             D == consumer[c].asOf
  <2>1. consumer[c].pc = "commit" /\ consumer[c] \in ConsumerRec
    BY Zenon, <1>3, <1>5 DEF CommitEventPage
  <2>2. S \in SUBSET Runs /\ \A r \in S : ConsumerHolds(c, r)
    BY Zenon, <2>1 DEF ConsumerRec, ConsumerHolds
  <2>3. projection' = [r \in Runs |-> IF r \in S THEN Rebuilt(r, D) ELSE projection[r]]
    BY Zenon, <1>5 DEF CommitEventPage
  <2>4. Snapshot(D) /\ \A r \in S : HasRows(r) => projection[r] \subseteq D
    BY Zenon, <2>1, <2>2 DEF RowsInv, HoldersReadAfterRows
  <2>5. ConsumersRelease /\ consumer'[c].pc # "commit" /\ \A d \in Consumers \ {c} : consumer'[d] = consumer[d]
    BY Zenon, <1>3, <1>5 DEF CommitEventPage, GoTo, ConsumersRelease, ConsumerRec
  <2>6. \A r \in S : /\ \A d \in Consumers : ~ConsumerHolds(d, r)'
                     /\ \A a \in Admins : ~AdminHolds(a, r)'
    <3> HIDE DEF S
    <3>1. \A r \in S, d \in Consumers \ {c} : ~ConsumerHolds(d, r)
      BY Zenon, <2>2 DEF RowsInv, RunLocksExclusive
    <3>2. \A r \in S, a \in Admins : ~AdminHolds(a, r)
      BY Zenon, <2>2 DEF RowsInv, RunLocksExclusive
    <3> QED
      BY Zenon, <1>1, <2>5, <3>1, <3>2 DEF ConsumerHolds, AdminHolds, ConsumerFrame
  <2> HIDE DEF S, D
  <2> QED
    BY Zenon, <1>2, <2>2, <2>3, <2>4, <2>5, <2>6, RowsReplaced
<1>6. ASSUME UNCHANGED projection, consumer'[c].pc # "commit", \A d \in Consumers \ {c} : consumer'[d] = consumer[d]
      PROVE  RowsInv' /\ RowsGrow
  <2>1. ConsumersRelease
    BY Zenon, <1>6 DEF ConsumersRelease
  <2> QED
    BY Zenon, <1>2, <1>6, <2>1, RowsKept
<1>7. CASE ConsumerReceive(c)
  BY Zenon, <1>3, <1>6, <1>7 DEF ConsumerReceive, Receive, ConsumerIdle
<1>8. ASSUME NEW m, NextMessage(c, m)
      PROVE  consumer'[c].pc # "commit" /\ \A d \in Consumers \ {c} : consumer'[d] = consumer[d]
  BY Zenon, <1>3, <1>8 DEF NextMessage, ConsumerIdle
<1>9. CASE ConsumerFails(c)
  <2>1. CASE ConsumerCrash(c)
    BY Zenon, <1>3, <1>6, <2>1 DEF ConsumerCrash, ConsumerIdle
  <2> QED
    BY Zenon, <1>6, <1>8, <1>9, <2>1 DEF ConsumerFails, HandleFailure, AckError
<1>10. ASSUME NEW m \in consumer[c].todo, Ack(c, m) \/ ContinueAndAck(c, m) PROVE RowsInv' /\ RowsGrow
  BY Zenon, <1>6, <1>8, <1>10 DEF Ack, ContinueAndAck
<1>11. ASSUME NEW m \in consumer[c].todo, BeginEventProgress(c, m) \/ MarkEventInvalidated(c, m)
       PROVE  RowsInv' /\ RowsGrow
  <2>1. PICK pc, after : /\ pc # "commit"
                         /\ \/ consumer' = [consumer EXCEPT ![c].pc = pc]
                            \/ consumer' = [consumer EXCEPT ![c].pc = pc, ![c].after = after]
    <3>1. CASE GoTo(c, "ack")
      BY Zenon, <3>1 DEF GoTo
    <3>2. ASSUME NEW row \in [phase : Phases, after : Cursor],
                 consumer' = [consumer EXCEPT ![c].pc = StepOf(row.phase), ![c].after = row.after]
          PROVE  \E pc, after : pc # "commit" /\ consumer' = [consumer EXCEPT ![c].pc = pc, ![c].after = after]
      <4>1. StepOf(row.phase) # "commit"
        BY Zenon, StepOfType
      <4> QED
        BY Zenon, <3>2, <4>1
    <3>3. stream[m] \in Events /\ progress[stream[m]] \in [phase : Phases, after : Cursor] /\ 0 \in Cursor
      BY Zenon, MessageFacts DEF TypeInv, RowsType, Cursor
    <3> DEFINE row1 == IF progress[stream[m]].phase = "none"
                       THEN [phase |-> "invalidating", after |-> 0] ELSE progress[stream[m]]
               row2 == IF progress[stream[m]].phase = "invalidating"
                       THEN [progress[stream[m]] EXCEPT !.phase = "processing"] ELSE progress[stream[m]]
    <3>4. row1 \in [phase : Phases, after : Cursor] /\ row2 \in [phase : Phases, after : Cursor]
      BY Zenon, <3>3 DEF Phases
    <3>5. \/ GoTo(c, "ack")
          \/ consumer' = [consumer EXCEPT ![c].pc = StepOf(row1.phase), ![c].after = row1.after]
          \/ consumer' = [consumer EXCEPT ![c].pc = StepOf(row2.phase), ![c].after = row2.after]
      BY Zenon, <1>11 DEF BeginEventProgress, MarkEventInvalidated
    <3> HIDE DEF row1, row2
    <3> QED
      BY Zenon, <3>1, <3>2, <3>4, <3>5
  <2>2. consumer'[c].pc # "commit" /\ \A d \in Consumers \ {c} : consumer'[d] = consumer[d]
    BY <1>3, <2>1 DEF ConsumerRec
  <2> QED
    BY Zenon, <1>6, <1>11, <2>2 DEF BeginEventProgress, MarkEventInvalidated
<1>12. ASSUME NEW m \in consumer[c].todo,
              \/ RotateGlobalCaches(c, m) \/ RotateAvailabilityCaches(c, m)
              \/ ResolveImpact(c, m) \/ CompleteEvent(c, m)
       PROVE  RowsInv' /\ RowsGrow
  <2>1. consumer'[c].pc # "commit" /\ \A d \in Consumers \ {c} : consumer'[d] = consumer[d]
    <3>1. CASE ResolveImpact(c, m)
      BY <1>3, <3>1 DEF ResolveImpact, ConsumerRec
    <3>2. CASE RotateGlobalCaches(c, m) \/ CompleteEvent(c, m)
      BY <1>3, <3>2 DEF RotateGlobalCaches, CompleteEvent, GoTo, ConsumerRec
    <3>3. CASE RotateAvailabilityCaches(c, m)
      BY <1>3, <3>3 DEF RotateAvailabilityCaches, GoTo, ConsumerRec
    <3> QED
      BY Zenon, <1>12, <3>1, <3>2, <3>3
  <2> QED
    BY Zenon, <1>6, <1>12, <2>1 DEF RotateGlobalCaches, RotateAvailabilityCaches, ResolveImpact, CompleteEvent
<1> QED
  BY Zenon, <1>4, <1>5, <1>7, <1>9, <1>10, <1>11, <1>12 DEF ConsumerStep

LEMMA AdminRows ==
    ASSUME TypeInv, RowsInv, AnnouncedAreCreated, NEW a \in Admins,
           AdminStarts(a) \/ AdminStep(a) \/ AdminFails(a)
    PROVE  RowsInv' /\ RowsGrow
<1>1. AdminFrame
  BY Zenon, AdminTypes
<1>2. Created' = Created /\ ConsumersRelease
  BY Zenon, <1>1 DEF AdminFrame, Created, ConsumersRelease
<1>3. admin \in [Admins -> AdminRec] /\ admin[a] \in AdminRec
  BY Zenon DEF TypeInv, AdminType
<1>4. ASSUME NEW r \in Runs, RebuildTrainRun(a, r) \/ RebuildCandidate(a, r) PROVE RowsInv' /\ RowsGrow
  <2>1. /\ ~RunLocked(r) /\ UNCHANGED projection
        /\ admin[a].pc \notin {"commitRun", "commitCandidate"}
        /\ \A b \in Admins \ {a} : admin'[b] = admin[b]
        /\ admin'[a].run = r /\ admin'[a].asOf = Created
    BY <1>3, <1>4 DEF RebuildTrainRun, RebuildCandidate, LoadTrainRun, AdminRec
  <2> DEFINE S == {r}
  <2>2. S \in SUBSET Runs /\ (\A s \in S : ~RunLocked(s)) /\ S = {admin'[a].run}
    BY Zenon, <2>1
  <2> HIDE DEF S
  <2> QED
    BY Zenon, <1>1, <1>2, <2>1, <2>2, LocksTaken DEF AdminFrame
<1>5. CASE CommitTrainRun(a)
  <2> PICK r \in Runs : r = admin[a].run
    BY Zenon, <1>5 DEF CommitTrainRun, TypeInv, AdminType
  <2> DEFINE S == {r}
             D == admin[a].asOf
  <2>1. AdminHolds(a, r)
    BY Zenon, <1>5 DEF CommitTrainRun, AdminHolds
  <2>2. S \in SUBSET Runs
    BY Zenon, <2>1
  <2>3. projection' = [q \in Runs |-> IF q \in S THEN Rebuilt(q, D) ELSE projection[q]]
    BY Zenon, <1>5, <2>1 DEF CommitTrainRun, TypeInv, RowsType
  <2>4. Snapshot(D) /\ \A q \in S : HasRows(q) => projection[q] \subseteq D
    BY Zenon, <2>1 DEF RowsInv, HoldersReadAfterRows, AdminHolds
  <2>5. /\ AdminsRelease /\ admin'[a].pc \notin {"commitRun", "commitCandidate"}
        /\ \A b \in Admins \ {a} : admin'[b] = admin[b]
    BY Zenon, <1>3, <1>5 DEF CommitTrainRun, AdminsRelease, AdminRec, AdminIdle
  <2>6. \A q \in S : /\ \A c \in Consumers : ~ConsumerHolds(c, q)'
                     /\ \A b \in Admins : ~AdminHolds(b, q)'
    <3>1. \A b \in Admins \ {a} : ~AdminHolds(b, r)
      BY Zenon, <2>1 DEF RowsInv, RunLocksExclusive
    <3>2. \A c \in Consumers : ~ConsumerHolds(c, r)
      BY Zenon, <2>1 DEF RowsInv, RunLocksExclusive
    <3>3. /\ \A b \in Admins : ~AdminHolds(b, r)'
          /\ \A c \in Consumers : ~ConsumerHolds(c, r)'
      BY Zenon, <1>1, <2>5, <3>1, <3>2 DEF ConsumerHolds, AdminHolds, AdminFrame
    <3> QED
      BY Zenon, <3>3
  <2> HIDE DEF S, D
  <2> QED
    BY Zenon, <1>2, <2>2, <2>3, <2>4, <2>5, <2>6, RowsReplaced
<1>6. ASSUME UNCHANGED projection, admin'[a].pc \notin {"commitRun", "commitCandidate"},
             \A b \in Admins \ {a} : admin'[b] = admin[b]
      PROVE  RowsInv' /\ RowsGrow
  <2>1. AdminsRelease
    BY Zenon, <1>6 DEF AdminsRelease
  <2> QED
    BY Zenon, <1>2, <1>6, <2>1, RowsKept
<1>7. CASE \E e \in Events : PendingEvent(a, e)
  BY <1>3, <1>6, <1>7 DEF PendingEvent, AdminIdle
<1>8. CASE \E after \in Cursor : BeginRebuildAll(a, after)
  BY <1>3, <1>6, <1>8 DEF BeginRebuildAll, AdminIdle
<1>9. CASE ListRebuildCandidates(a)
  BY Zenon, <1>3, <1>6, <1>9 DEF ListRebuildCandidates, AdminRec
<1>10. CASE CheckpointRebuildAll(a) \/ EnqueueEvent(a) \/ AdminStops(a)
  BY <1>3, <1>6, <1>10 DEF CheckpointRebuildAll, EnqueueEvent, AdminStops, AdminIdle
<1>11. admin[a].left \subseteq Runs
  BY Zenon, <1>3 DEF AdminRec
<1> QED
  BY Zenon, <1>4, <1>5, <1>7, <1>8, <1>9, <1>10, <1>11 DEF AdminStarts, AdminStep, AdminFails

LEMMA RowsInit == Init => AnnouncedAreCreated /\ RowsInv
<1> SUFFICES ASSUME Init PROVE AnnouncedAreCreated /\ RowsInv
  BY Zenon
<1>1. Created = {}
  BY Zenon DEF Init, RelayInit, Created
<1>2. AnnouncedAreCreated
  BY <1>1 DEF Init, RelayInit, ReadModelInit, AnnouncedAreCreated, Snapshot, RelayIdle, AdminIdle, NoProgress
<1>3. \A r \in Runs : HasRows(r) => projection[r] = {} /\ CreatedBy[r] = 0
  BY Zenon DEF Init, ReadModelInit, HasRows, Rebuilt
<1>4. RowsAreSnapshots
  BY Zenon, <1>3 DEF RowsAreSnapshots
<1>5. RunLocksExclusive /\ HoldersReadAfterRows
  BY Zenon DEF Init, ReadModelInit, RunLocksExclusive, HoldersReadAfterRows, ConsumerHolds, AdminHolds,
         ConsumerIdle, AdminIdle
<1> QED
  BY Zenon, <1>2, <1>4, <1>5 DEF RowsInv

LEMMA RowsStep ==
    TypeInv /\ AnnouncedAreCreated /\ RowsInv /\ [Next]_vars => RowsInv' /\ RowsGrow
<1> SUFFICES ASSUME TypeInv, AnnouncedAreCreated, RowsInv, [Next]_vars PROVE RowsInv' /\ RowsGrow
  BY Zenon
<1>1. Created \subseteq Created'
  BY Zenon, TypeStep DEF Grows
<1>2. ASSUME UNCHANGED <<projection, consumer, admin>> PROVE RowsInv' /\ RowsGrow
  BY Zenon, <1>1, <1>2, RowsKept DEF ConsumersRelease, AdminsRelease
<1>3. ASSUME NEW e \in Events, CommitChange(e) PROVE RowsInv' /\ RowsGrow
  BY Zenon, <1>2, <1>3 DEF CommitChange, readModelVars
<1>4. ASSUME NEW w \in Relays,
             \/ RelayClaim(w) \/ RelayPublish(w) \/ RelayPublishFails(w)
             \/ RelayFinalize(w) \/ RelayStops(w)
      PROVE  RowsInv' /\ RowsGrow
  BY Zenon, <1>2, <1>4, RelayTypes
<1>5. ASSUME NEW q \in Readers, Request(q) \/ ReaderStep(q) PROVE RowsInv' /\ RowsGrow
  BY Zenon, <1>2, <1>5, RequestTypes, ReaderStepTypes DEF ReaderFrame
<1> QED
  BY Zenon, <1>2, <1>3, <1>4, <1>5, ConsumerRows, AdminRows DEF Next, vars

-----------------------------------------------------------------------------
(* The steps of a consumer, by what they do to the rows, the tables and the *)
(* caches.                                                                  *)

Working == {"mark", "rotateRuns", "process", "commit"}

OthersSame(c) == \A d \in Consumers \ {c} : consumer'[d] = consumer[d]

\* The consumer is at none of the steps that later ones rely on.
Quiet(c) == consumer'[c].pc \notin Working /\ UNCHANGED <<progress, receipts, projection, version>>

Started(c, e) ==
    /\ consumer'[c].pc \notin Working
    /\ ~EventLocked(e) /\ e \notin receipts /\ progress[e].phase = "none"
    /\ progress' = [progress EXCEPT ![e] = [phase |-> "invalidating", after |-> 0]]
    /\ UNCHANGED <<receipts, projection, version>>

Rotated(c, e) ==
    /\ consumer[c].pc = "rotate" /\ consumer' = [consumer EXCEPT ![c].pc = "mark"]
    /\ IF e \in ProjectionEvents THEN Rotate(Search) ELSE UNCHANGED version
    /\ UNCHANGED <<progress, receipts, projection>>

Invalidated(c, e) ==
    /\ consumer[c].pc = "mark" /\ consumer'[c].pc \notin Working
    /\ ~EventLocked(e) /\ progress[e].phase = "invalidating"
    /\ progress' = [progress EXCEPT ![e] = [phase |-> "processing", after |-> progress[e].after]]
    /\ UNCHANGED <<receipts, projection, version>>

Impacted(e) == IF e \in ProjectionEvents \cup AvailabilityEvents THEN Affected(e) ELSE {}

Resolved(c, e) ==
    LET page == Page(Impacted(e), consumer[c].after)
    IN /\ consumer[c].pc = "resolve"
       /\ consumer' = [consumer EXCEPT ![c].pc = "rotateRuns", ![c].page = page,
                                       ![c].left = IF e \in AvailabilityEvents THEN page ELSE {},
                                       ![c].more = HasMore(Impacted(e), consumer[c].after)]
       /\ UNCHANGED <<progress, receipts, projection, version>>

RunRotated(c) ==
    /\ consumer[c].pc = "rotateRuns"
    /\ \E r \in consumer[c].left : Rotate(r) /\ consumer' = [consumer EXCEPT ![c].left = @ \ {r}]
    /\ UNCHANGED <<progress, receipts, projection>>

RunsRotated(c) ==
    /\ consumer[c].pc = "rotateRuns" /\ consumer[c].left = {}
    /\ consumer' = [consumer EXCEPT ![c].pc = "process"]
    /\ UNCHANGED <<progress, receipts, projection, version>>

PageLocked(c, e) ==
    /\ consumer[c].pc = "process" /\ ~EventLocked(e)
    /\ progress[e].phase = "processing" /\ progress[e].after = consumer[c].after
    /\ consumer' = [consumer EXCEPT ![c].pc = "commit", ![c].asOf = Created]
    /\ UNCHANGED <<progress, receipts, projection, version>>

PageCommitted(c, e) ==
    LET me == consumer[c]
    IN /\ me.pc = "commit" /\ consumer'[c].pc \notin Working
       /\ progress' = [progress EXCEPT ![e] = [phase |-> IF me.more THEN "processing" ELSE "finalizing",
                                               after |-> Last(me.page, me.after)]]
       /\ projection' = [r \in Runs |-> IF e \in ProjectionEvents /\ r \in me.page
                                        THEN Rebuilt(r, me.asOf) ELSE projection[r]]
       /\ UNCHANGED <<receipts, version>>

Completed(c, e) ==
    /\ consumer'[c].pc \notin Working
    /\ ~EventLocked(e) /\ e \notin receipts /\ progress[e].phase = "finalizing"
    /\ receipts' = receipts \cup {e} /\ progress' = [progress EXCEPT ![e] = NoProgress]
    /\ UNCHANGED <<projection, version>>

LEMMA ConsumerShapes ==
    ASSUME TypeInv, NEW c \in Consumers, ConsumerReceive(c) \/ ConsumerStep(c) \/ ConsumerFails(c)
    PROVE  /\ OthersSame(c)
           /\ \/ Quiet(c)
              \/ \E m \in consumer[c].todo :
                    /\ Current(c, m)
                    /\ \/ Started(c, stream[m]) \/ Rotated(c, stream[m]) \/ Invalidated(c, stream[m])
                       \/ Resolved(c, stream[m]) \/ RunRotated(c) \/ RunsRotated(c)
                       \/ PageLocked(c, stream[m]) \/ PageCommitted(c, stream[m])
                       \/ Completed(c, stream[m])
<1>1. consumer \in [Consumers -> ConsumerRec]
  BY Zenon DEF TypeInv, ConsumerType
<1>2. ASSUME NEW pc, GoTo(c, pc) PROVE OthersSame(c) /\ consumer'[c].pc = pc
  BY Zenon, <1>1, <1>2 DEF GoTo, OthersSame, ConsumerRec
<1>3. ASSUME NEW m, NextMessage(c, m) PROVE OthersSame(c) /\ consumer'[c].pc \notin Working
  BY ZenonT(30), <1>1, <1>3 DEF NextMessage, ConsumerIdle, OthersSame, Working
<1>4. CASE ConsumerReceive(c)
  BY ZenonT(30), <1>1, <1>4 DEF ConsumerReceive, Receive, ConsumerIdle, OthersSame, Quiet, Working
<1>5. CASE ConsumerFails(c)
  <2>1. CASE ConsumerCrash(c)
    BY Zenon, <1>1, <2>1 DEF ConsumerCrash, ConsumerIdle, OthersSame, Quiet, Working
  <2> QED
    BY Zenon, <1>3, <1>5, <2>1 DEF ConsumerFails, HandleFailure, AckError, Quiet
<1>6. ASSUME NEW m \in consumer[c].todo, Ack(c, m) \/ ContinueAndAck(c, m) PROVE OthersSame(c) /\ Quiet(c)
  BY Zenon, <1>3, <1>6 DEF Ack, ContinueAndAck, Quiet
<1>7. ASSUME NEW m \in consumer[c].todo, BeginEventProgress(c, m) \/ MarkEventInvalidated(c, m)
      PROVE  /\ OthersSame(c) /\ Current(c, m)
             /\ Quiet(c) \/ Started(c, stream[m]) \/ Invalidated(c, stream[m])
  <2> DEFINE e == stream[m]
  <2>1. /\ e \in Events /\ progress \in [Events -> [phase : Phases, after : Cursor]] /\ 0 \in Cursor
        /\ progress[e] \in [phase : Phases, after : Cursor]
    BY Zenon, MessageFacts DEF TypeInv, RowsType, Cursor
  <2> HIDE DEF e
  <2>2. ASSUME NEW row \in [phase : Phases, after : Cursor],
               consumer' = [consumer EXCEPT ![c].pc = StepOf(row.phase), ![c].after = row.after]
        PROVE  OthersSame(c) /\ consumer'[c].pc \notin Working
    <3>1. StepOf(row.phase) \notin Working
      BY Zenon, StepOfType DEF Working
    <3> QED
      BY Zenon, <1>1, <2>2, <3>1 DEF OthersSame, ConsumerRec
  <2>3. CASE BeginEventProgress(c, m)
    <3>1. CASE e \in receipts
      BY <1>2, <2>3, <3>1 DEF BeginEventProgress, Quiet, Working, e
    <3>2. CASE e \notin receipts /\ progress[e].phase = "none"
      <4> DEFINE row == [phase |-> "invalidating", after |-> 0]
      <4>1. row \in [phase : Phases, after : Cursor]
        BY Zenon, <2>1 DEF Phases
      <4>2. /\ progress' = [progress EXCEPT ![e] = row] /\ ~EventLocked(e)
            /\ consumer' = [consumer EXCEPT ![c].pc = StepOf(row.phase), ![c].after = row.after]
            /\ UNCHANGED <<receipts, projection, version>> /\ Current(c, m)
        BY Zenon, <2>3, <3>2 DEF BeginEventProgress, e
      <4>3. OthersSame(c) /\ consumer'[c].pc \notin Working
        <5> HIDE DEF row
        <5> QED
          BY Zenon, <2>2, <4>1, <4>2
      <4> QED
        BY Zenon, <3>2, <4>2, <4>3 DEF Started, e
    <3>3. CASE e \notin receipts /\ progress[e].phase # "none"
      <4>1. /\ progress' = [progress EXCEPT ![e] = progress[e]]
            /\ consumer' = [consumer EXCEPT ![c].pc = StepOf(progress[e].phase), ![c].after = progress[e].after]
            /\ UNCHANGED <<receipts, projection, version>> /\ Current(c, m)
        BY Zenon, <2>3, <3>3 DEF BeginEventProgress, e
      <4>2. progress' = progress
        BY Zenon, <2>1, <4>1
      <4> QED
        BY Zenon, <2>1, <2>2, <4>1, <4>2 DEF Quiet
    <3> QED
      BY Zenon, <3>1, <3>2, <3>3
  <2>4. CASE MarkEventInvalidated(c, m)
    <3>1. CASE progress[e].phase = "invalidating"
      <4> DEFINE row == [progress[e] EXCEPT !.phase = "processing"]
      <4>1. /\ row \in [phase : Phases, after : Cursor]
            /\ row = [phase |-> "processing", after |-> progress[e].after]
        BY <2>1 DEF Phases
      <4>2. /\ progress' = [progress EXCEPT ![e] = row] /\ ~EventLocked(e) /\ consumer[c].pc = "mark"
            /\ consumer' = [consumer EXCEPT ![c].pc = StepOf(row.phase), ![c].after = row.after]
            /\ UNCHANGED <<receipts, projection, version>> /\ Current(c, m)
        BY Zenon, <2>4, <3>1 DEF MarkEventInvalidated, e
      <4> HIDE DEF row
      <4>3. OthersSame(c) /\ consumer'[c].pc \notin Working
        BY Zenon, <2>2, <4>1, <4>2
      <4> QED
        BY Zenon, <3>1, <4>1, <4>2, <4>3 DEF Invalidated, e
    <3>2. CASE progress[e].phase # "invalidating"
      <4>1. /\ progress' = [progress EXCEPT ![e] = progress[e]]
            /\ consumer' = [consumer EXCEPT ![c].pc = StepOf(progress[e].phase), ![c].after = progress[e].after]
            /\ UNCHANGED <<receipts, projection, version>> /\ Current(c, m)
        BY Zenon, <2>4, <3>2 DEF MarkEventInvalidated, e
      <4>2. progress' = progress
        BY Zenon, <2>1, <4>1
      <4> QED
        BY Zenon, <2>1, <2>2, <4>1, <4>2 DEF Quiet
    <3> QED
      BY Zenon, <3>1, <3>2
  <2> QED
    BY Zenon, <1>7, <2>3, <2>4
<1>8. ASSUME NEW m \in consumer[c].todo, RotateGlobalCaches(c, m)
      PROVE  OthersSame(c) /\ Current(c, m) /\ Rotated(c, stream[m])
  BY Zenon, <1>2, <1>8 DEF RotateGlobalCaches, Rotated, GoTo
<1>9. ASSUME NEW m \in consumer[c].todo, ResolveImpact(c, m)
      PROVE  OthersSame(c) /\ Current(c, m) /\ Resolved(c, stream[m])
  <2>1. Current(c, m) /\ Resolved(c, stream[m])
    BY Zenon, <1>9 DEF ResolveImpact, Resolved, Impacted
  <2>2. OthersSame(c)
    BY Zenon, <1>1, <2>1 DEF Resolved, OthersSame
  <2> QED
    BY Zenon, <2>1, <2>2
<1>10. ASSUME NEW m \in consumer[c].todo, RotateAvailabilityCaches(c, m)
       PROVE  OthersSame(c) /\ Current(c, m) /\ (RunRotated(c) \/ RunsRotated(c))
  <2>1. Current(c, m) /\ (RunRotated(c) \/ RunsRotated(c))
    BY Zenon, <1>10 DEF RotateAvailabilityCaches, RunRotated, RunsRotated, GoTo
  <2>2. OthersSame(c)
    BY Zenon, <1>1, <2>1 DEF RunRotated, RunsRotated, OthersSame
  <2> QED
    BY Zenon, <2>1, <2>2
<1>11. ASSUME NEW m \in consumer[c].todo, ProcessEventPage(c, m)
       PROVE  OthersSame(c) /\ Current(c, m) /\ (Quiet(c) \/ PageLocked(c, stream[m]))
  <2>1. CASE GoTo(c, "continue")
    BY <1>2, <1>11, <2>1 DEF ProcessEventPage, Quiet, Working
  <2>2. CASE ~GoTo(c, "continue")
    <3>1. Current(c, m) /\ PageLocked(c, stream[m])
      BY Zenon, <1>11, <2>2 DEF ProcessEventPage, PageLocked
    <3>2. OthersSame(c)
      BY Zenon, <1>1, <3>1 DEF PageLocked, OthersSame
    <3> QED
      BY Zenon, <3>1, <3>2
  <2> QED
    BY Zenon, <2>1, <2>2
<1>12. ASSUME NEW m \in consumer[c].todo, CommitEventPage(c, m)
       PROVE  OthersSame(c) /\ Current(c, m) /\ PageCommitted(c, stream[m])
  BY SMTT(30), <1>2, <1>12 DEF CommitEventPage, PageCommitted, Working
<1>13. ASSUME NEW m \in consumer[c].todo, CompleteEvent(c, m)
       PROVE  OthersSame(c) /\ Current(c, m) /\ (Quiet(c) \/ Completed(c, stream[m]))
  BY <1>2, <1>13 DEF CompleteEvent, Quiet, Completed, Working
<1>14. CASE ConsumerStep(c)
  <2>1. PICK m \in consumer[c].todo :
          \/ BeginEventProgress(c, m) \/ RotateGlobalCaches(c, m) \/ MarkEventInvalidated(c, m)
          \/ ResolveImpact(c, m) \/ RotateAvailabilityCaches(c, m) \/ ProcessEventPage(c, m)
          \/ CommitEventPage(c, m) \/ CompleteEvent(c, m) \/ Ack(c, m) \/ ContinueAndAck(c, m)
    BY Zenon, <1>14 DEF ConsumerStep
  <2> QED
    BY Zenon, <2>1, <1>6, <1>7, <1>8, <1>9, <1>10, <1>11, <1>12, <1>13
<1> QED
  BY Zenon, <1>4, <1>5, <1>14

-----------------------------------------------------------------------------
(* The pages of an event and its cursor. *)

\* A consumer has one current message.
LEMMA OneCurrent ==
    ASSUME TypeInv, NEW c \in Consumers, NEW m \in consumer[c].todo, NEW n \in consumer[c].todo,
           Current(c, m), Current(c, n)
    PROVE  m = n
<1>1. m \in Nat /\ n \in Nat /\ m <= n /\ n <= m
  BY Zenon, MessageFacts DEF Current
<1> QED
  BY <1>1

\* What a consumer that does not step is at.
LEMMA SameConsumer ==
    ASSUME TypeInv, Grows, NEW d \in Consumers, consumer'[d] = consumer[d], NEW m \in consumer'[d].todo
    PROVE  /\ m \in consumer[d].todo /\ stream'[m] = stream[m]
           /\ \A steps : At(d, m, steps)' = At(d, m, steps)
<1>1. m \in consumer[d].todo
  BY Zenon
<1>2. stream'[m] = stream[m]
  BY Zenon, <1>1, MessageFacts DEF Grows
<1>3. \A steps : At(d, m, steps)' = At(d, m, steps)
  BY Zenon DEF At, Current
<1> QED
  BY Zenon, <1>1, <1>2, <1>3

\* The runs an event must be applied to are there once it is committed.
LEMMA NeededExist ==
    ASSUME TypeInv, NEW D, Snapshot(D), NEW e \in D, NEW r \in Need(e)
    PROVE  r \in Runs /\ (CreatedBy[r] = 0 \/ CreatedBy[r] \in D) /\ r \in Impact[e]
<1>1. e \in Events /\ e \in Nat
  BY Zenon, EventsAssumption DEF Snapshot, Created
<1>2. r \in Runs /\ r \in Impact[e] /\ CreatedBy[r] <= e
  BY Zenon, <1>1, ImpactAssumption DEF Need
<1>3. CreatedBy[r] \in Events \cup {0}
  BY Zenon, <1>2, ImpactAssumption, EventKindsAssumption
<1>4. CASE CreatedBy[r] \in Events
  <2>1. CreatedBy[r] \in Nat
    BY Zenon, <1>4, EventsAssumption
  <2>2. CreatedBy[r] = e \/ CreatedBy[r] < e
    BY <1>1, <1>2, <2>1
  <2> QED
    BY Zenon, <1>2, <1>4, <2>2 DEF Snapshot
<1> QED
  BY Zenon, <1>2, <1>3, <1>4

LEMMA PagesStep ==
    ASSUME TypeInv, AnnouncedAreCreated, AppliedInv, NEW c \in Consumers,
           ConsumerReceive(c) \/ ConsumerStep(c) \/ ConsumerFails(c)
    PROVE  EventLocksExclusive' /\ PagesAreComplete' /\ CommitsAreCurrent'
<1> USE DEF AppliedInv
<1>1. Grows /\ consumer \in [Consumers -> ConsumerRec] /\ progress \in [Events -> [phase : Phases, after : Cursor]]
  BY Zenon, ConsumerTypes DEF TypeInv, ConsumerType, RowsType
<1>2. OthersSame(c)
  BY Zenon, ConsumerShapes
<1>3. \A d \in Consumers \ {c} : \A m \in consumer'[d].todo :
         /\ m \in consumer[d].todo /\ stream'[m] = stream[m]
         /\ \A steps : At(d, m, steps)' = At(d, m, steps)
  BY Zenon, <1>1, <1>2, SameConsumer DEF OthersSame
<1>4. ASSUME consumer'[c].pc \in {"rotateRuns", "process", "commit"}
      PROVE  \E m \in consumer[c].todo :
                /\ Current(c, m)
                /\ Resolved(c, stream[m]) \/ RunRotated(c) \/ RunsRotated(c) \/ PageLocked(c, stream[m])
  BY Zenon, <1>1, <1>4, ConsumerShapes
  DEF Quiet, Started, Rotated, Invalidated, PageCommitted, Completed, Working, ConsumerRec
<1>5. ASSUME NEW m \in consumer[c].todo, Current(c, m),
             Resolved(c, stream[m]) \/ RunRotated(c) \/ RunsRotated(c) \/ PageLocked(c, stream[m])
      PROVE  /\ consumer'[c].todo = consumer[c].todo /\ consumer'[c].after = consumer[c].after
             /\ \A n \in consumer'[c].todo : Current(c, n)' => n = m /\ stream'[n] = stream[m]
  <2>1. consumer'[c].todo = consumer[c].todo /\ consumer'[c].after = consumer[c].after
    BY <1>1, <1>5 DEF Resolved, RunRotated, RunsRotated, PageLocked, ConsumerRec
  <2>2. \A n \in consumer[c].todo : Current(c, n)' => Current(c, n)
    BY Zenon, <2>1 DEF Current
  <2>3. stream'[m] = stream[m]
    BY Zenon, <1>1, MessageFacts DEF Grows
  <2> QED
    BY Zenon, <1>5, <2>1, <2>2, <2>3, OneCurrent
<1>6. ASSUME consumer'[c].pc = "commit"
      PROVE  \E m \in consumer[c].todo : Current(c, m) /\ PageLocked(c, stream[m])
  <2>1. PICK m \in consumer[c].todo :
             /\ Current(c, m)
             /\ Resolved(c, stream[m]) \/ RunRotated(c) \/ RunsRotated(c) \/ PageLocked(c, stream[m])
    BY Zenon, <1>4, <1>6
  <2>2. ~Resolved(c, stream[m])
    BY <1>1, <1>6 DEF Resolved, ConsumerRec
  <2>3. ~RunRotated(c) /\ ~RunsRotated(c)
    BY <1>1, <1>6 DEF RunRotated, RunsRotated, ConsumerRec
  <2> QED
    BY Zenon, <2>1, <2>2, <2>3
<1>7. EventLocksExclusive'
  <2>1. ASSUME NEW d \in Consumers \ {c}, NEW m \in consumer'[c].todo, NEW n \in consumer'[d].todo,
               At(c, m, {"commit"})', At(d, n, {"commit"})', stream'[m] = stream'[n]
        PROVE  FALSE
    <3>1. PICK k \in consumer[c].todo : Current(c, k) /\ PageLocked(c, stream[k])
      BY Zenon, <1>6, <2>1 DEF At
    <3>2. stream'[m] = stream[k]
      BY Zenon, <1>5, <2>1, <3>1 DEF At
    <3>3. At(d, n, {"commit"}) /\ stream'[n] = stream[n] /\ n \in consumer[d].todo
      BY Zenon, <1>3, <2>1
    <3>4. EventLocked(stream[k])
      BY Zenon, <2>1, <3>2, <3>3 DEF EventLocked, At
    <3> QED
      BY Zenon, <3>1, <3>4 DEF PageLocked
  <2>2. ASSUME NEW b \in Consumers \ {c}, NEW d \in Consumers \ {c},
               NEW m \in consumer'[b].todo, NEW n \in consumer'[d].todo,
               At(b, m, {"commit"})', At(d, n, {"commit"})', stream'[m] = stream'[n]
        PROVE  b = d
    BY <1>3, <2>2 DEF EventLocksExclusive
  <2> QED
    BY Zenon, <2>1, <2>2 DEF EventLocksExclusive
<1>8. PagesAreComplete'
  <2> DEFINE Wanted(e) == IF e \in ProjectionEvents \cup AvailabilityEvents THEN Need(e) ELSE {}
             Covers(after, page, more, e) ==
                /\ \A r \in Wanted(e) : after < r /\ r <= Last(page, after) => r \in page
                /\ ~more => \A r \in Wanted(e) : after < r => r \in page
  <2>1. PagesAreComplete =
          \A d \in Consumers : \A m \in consumer[d].todo : At(d, m, {"rotateRuns", "process", "commit"}) =>
             Covers(consumer[d].after, consumer[d].page, consumer[d].more, stream[m])
    BY Zenon DEF PagesAreComplete
  <2>2. PagesAreComplete' =
          \A d \in Consumers : \A m \in consumer'[d].todo : At(d, m, {"rotateRuns", "process", "commit"})' =>
             Covers(consumer'[d].after, consumer'[d].page, consumer'[d].more, stream'[m])
    BY Zenon DEF PagesAreComplete, Need
  <2>3. ASSUME NEW m \in consumer[c].todo, Current(c, m), Resolved(c, stream[m])
        PROVE  Covers(consumer[c].after, consumer'[c].page, consumer'[c].more, stream[m])
    <3> DEFINE e == stream[m]
               S == Impacted(e)
               after == consumer[c].after
    <3>1. consumer'[c].page = Page(S, after) /\ consumer'[c].more = HasMore(S, after)
      BY <1>1, <2>3 DEF Resolved, ConsumerRec
    <3>2. e \in Events /\ e \in Created /\ Snapshot(Created)
      BY Zenon, MessageFacts DEF AnnouncedAreCreated
    <3>3. S \in SUBSET Runs /\ after \in Cursor
      BY Zenon, <1>1, <3>2, ImpactAssumption DEF Impacted, Affected, ConsumerRec
    <3>4. Wanted(e) \subseteq S
      <4>1. ASSUME NEW r \in Need(e) PROVE r \in Affected(e)
        BY Zenon, <3>2, NeededExist DEF Affected, Exists
      <4> QED
        BY Zenon, <4>1 DEF Impacted
    <3> HIDE DEF e, S, after
    <3>5. Covers(after, Page(S, after), HasMore(S, after), e)
      <4> HIDE DEF Wanted
      <4> QED
        BY Zenon, <3>3, <3>4, PageOf DEF TypeInv
    <3> HIDE DEF Covers
    <3> QED
      BY Zenon, <3>1, <3>5 DEF e, after
  <2> HIDE DEF Covers
  <2>4. ASSUME NEW n \in consumer'[c].todo, At(c, n, {"rotateRuns", "process", "commit"})'
        PROVE  Covers(consumer'[c].after, consumer'[c].page, consumer'[c].more, stream'[n])
    <3>1. PICK m \in consumer[c].todo :
             /\ Current(c, m)
             /\ Resolved(c, stream[m]) \/ RunRotated(c) \/ RunsRotated(c) \/ PageLocked(c, stream[m])
      BY Zenon, <1>4, <2>4 DEF At
    <3>2. stream'[n] = stream[m] /\ consumer'[c].after = consumer[c].after
      BY Zenon, <1>5, <2>4, <3>1 DEF At
    <3>3. CASE Resolved(c, stream[m])
      BY Zenon, <2>3, <3>1, <3>2, <3>3
    <3>4. CASE RunRotated(c) \/ RunsRotated(c) \/ PageLocked(c, stream[m])
      <4>1. /\ consumer'[c].page = consumer[c].page /\ consumer'[c].more = consumer[c].more
            /\ consumer[c].pc \in {"rotateRuns", "process", "commit"}
        BY <1>1, <3>4 DEF RunRotated, RunsRotated, PageLocked, ConsumerRec
      <4>2. Covers(consumer[c].after, consumer[c].page, consumer[c].more, stream[m])
        BY Zenon, <2>1, <3>1, <4>1 DEF At
      <4> QED
        BY Zenon, <3>2, <4>1, <4>2
    <3> QED
      BY Zenon, <3>1, <3>3, <3>4
  <2>5. ASSUME NEW d \in Consumers \ {c}, NEW n \in consumer'[d].todo,
               At(d, n, {"rotateRuns", "process", "commit"})'
        PROVE  Covers(consumer'[d].after, consumer'[d].page, consumer'[d].more, stream'[n])
    BY ZenonT(30), <1>2, <1>3, <2>1, <2>5 DEF OthersSame
  <2> QED
    BY Zenon, <2>2, <2>4, <2>5
<1>9. CommitsAreCurrent'
  <2> DEFINE OK(d, m) == /\ progress'[stream'[m]] = [phase |-> "processing", after |-> consumer'[d].after]
                         /\ stream'[m] \in consumer'[d].asOf
  <2>1. ASSUME NEW n \in consumer'[c].todo, At(c, n, {"commit"})' PROVE OK(c, n)
    <3>1. PICK m \in consumer[c].todo : Current(c, m) /\ PageLocked(c, stream[m])
      BY Zenon, <1>6, <2>1 DEF At
    <3>2. stream'[n] = stream[m] /\ consumer'[c].after = consumer[c].after
      BY Zenon, <1>5, <2>1, <3>1 DEF At
    <3>3. consumer'[c].asOf = Created /\ progress' = progress
          /\ progress[stream[m]].phase = "processing" /\ progress[stream[m]].after = consumer[c].after
      BY Zenon, <1>1, <3>1 DEF PageLocked, ConsumerRec
    <3>4. stream[m] \in Created /\ progress[stream[m]] \in [phase : Phases, after : Cursor]
      BY Zenon, <1>1, MessageFacts DEF AnnouncedAreCreated
    <3> QED
      BY Zenon, <3>2, <3>3, <3>4
  <2>2. ASSUME NEW d \in Consumers \ {c}, NEW n \in consumer'[d].todo, At(d, n, {"commit"})' PROVE OK(d, n)
    <3>1. n \in consumer[d].todo /\ stream'[n] = stream[n] /\ consumer'[d] = consumer[d] /\ At(d, n, {"commit"})
      BY Zenon, <1>2, <1>3, <2>2 DEF OthersSame
    <3>2. /\ progress[stream[n]] = [phase |-> "processing", after |-> consumer[d].after]
          /\ stream[n] \in consumer[d].asOf
      BY Zenon, <3>1 DEF CommitsAreCurrent
    <3>3. EventLocked(stream[n])
      BY Zenon, <3>1 DEF EventLocked, At
    <3>4. progress'[stream[n]] = progress[stream[n]]
      <4>1. stream[n] \in Events
        BY Zenon, <3>1, MessageFacts
      <4>2. ASSUME NEW m \in consumer[c].todo, Current(c, m), PageCommitted(c, stream[m])
            PROVE  stream[m] # stream[n]
        BY Zenon, <3>1, <4>2 DEF PageCommitted, EventLocksExclusive, At
      <4>3. ASSUME NEW m \in consumer[c].todo, Current(c, m),
                   \/ Started(c, stream[m]) \/ Rotated(c, stream[m]) \/ Invalidated(c, stream[m])
                   \/ Resolved(c, stream[m]) \/ RunRotated(c) \/ RunsRotated(c)
                   \/ PageLocked(c, stream[m]) \/ PageCommitted(c, stream[m])
                   \/ Completed(c, stream[m])
            PROVE  progress'[stream[n]] = progress[stream[n]]
        BY Zenon, <1>1, <3>3, <4>1, <4>2, <4>3
        DEF Started, Rotated, Invalidated, Resolved, RunRotated, RunsRotated, PageLocked, PageCommitted, Completed
      <4> QED
        BY Zenon, <4>3, ConsumerShapes DEF Quiet
    <3> QED
      BY Zenon, <3>1, <3>2, <3>4
  <2> QED
    BY <2>1, <2>2 DEF CommitsAreCurrent
<1> QED
  BY Zenon, <1>7, <1>8, <1>9

\* A page's commit applies its event to every run the cursor passes.
LEMMA PageApplies ==
    ASSUME TypeInv, RowsInv, AppliedInv, RowsGrow, NEW c \in Consumers, NEW m \in consumer[c].todo,
           Current(c, m), NEW e \in ProjectionEvents, e = stream[m], PageCommitted(c, e),
           NEW r \in Need(e), r <= Last(consumer[c].page, consumer[c].after) \/ ~consumer[c].more
    PROVE  Applied(e, r)'
<1> DEFINE D == consumer[c].asOf
<1>1. consumer[c] \in ConsumerRec /\ e \in Events /\ consumer[c].pc = "commit"
  BY Zenon, MessageFacts DEF TypeInv, ConsumerType, PageCommitted
<1>2. At(c, m, {"rotateRuns", "process", "commit"}) /\ At(c, m, {"commit"})
  BY Zenon, <1>1 DEF At
<1>3. /\ Snapshot(D) /\ e \in D
      /\ progress[e] = [phase |-> "processing", after |-> consumer[c].after]
  BY Zenon, <1>1, <1>2 DEF RowsInv, HoldersReadAfterRows, AppliedInv, CommitsAreCurrent
<1>4. r \in Runs /\ (CreatedBy[r] = 0 \/ CreatedBy[r] \in D) /\ r \in Impact[e]
  <2> HIDE DEF D
  <2> QED
    BY Zenon, <1>3, NeededExist
<1>5. CASE r <= consumer[c].after
  <2>1. progress[e].phase = "processing" /\ r <= progress[e].after
    BY <1>3, <1>5
  <2>2. Applied(e, r)
    BY Zenon, <2>1 DEF AppliedInv, CursorsFollowRows
  <2> QED
    BY Zenon, <1>4, <2>2 DEF RowsGrow, Applied, HasRows
<1>6. CASE consumer[c].after < r
  <2>1. r \in consumer[c].page
    BY Zenon, <1>2, <1>6 DEF AppliedInv, PagesAreComplete
  <2>2. HasRows(r) => projection[r] \subseteq D
    BY Zenon, <1>1, <1>4, <2>1 DEF RowsInv, HoldersReadAfterRows, ConsumerHolds
  <2>3. projection'[r] = Rebuilt(r, D)
    BY Zenon, <1>4, <2>1 DEF PageCommitted
  <2>4. Rebuilt(r, D) # NoRows /\ e \in Rebuilt(r, D)
    <3> HIDE DEF D
    <3>1. /\ Rebuilt(r, D) # NoRows
          /\ \A f \in D \cap ProjectionEvents : r \in Impact[f] => f \in Rebuilt(r, D)
      BY Zenon, <1>3, <1>4, <2>2, RebuildGrows DEF RowsInv
    <3> QED
      BY Zenon, <1>3, <1>4, <3>1
  <2> QED
    BY Zenon, <2>3, <2>4 DEF Applied, HasRows
<1>7. r \in Nat /\ consumer[c].after \in Nat
  BY Zenon, <1>1, <1>4, RunsFacts DEF ConsumerRec
<1> QED
  BY <1>5, <1>6, <1>7

LEMMA CursorsStep ==
    ASSUME TypeInv, RowsInv, AppliedInv, RowsGrow, NEW c \in Consumers,
           ConsumerReceive(c) \/ ConsumerStep(c) \/ ConsumerFails(c)
    PROVE  CursorsFollowRows'
<1> SUFFICES ASSUME NEW e \in ProjectionEvents
             PROVE  /\ progress'[e].phase = "invalidating" => progress'[e].after = 0
                    /\ progress'[e].phase = "processing" =>
                          \A r \in Need(e) : r <= progress'[e].after => Applied(e, r)'
                    /\ e \in receipts' \/ progress'[e].phase = "finalizing" =>
                          \A r \in Need(e) : Applied(e, r)'
  BY Zenon DEF CursorsFollowRows, Need
<1>1. progress \in [Events -> [phase : Phases, after : Cursor]] /\ e \in Events
  BY Zenon, EventKindsAssumption DEF TypeInv, RowsType
<1>2. /\ progress[e].phase = "invalidating" => progress[e].after = 0
      /\ progress[e].phase = "processing" => \A r \in Need(e) : r <= progress[e].after => Applied(e, r)
      /\ e \in receipts \/ progress[e].phase = "finalizing" => \A r \in Need(e) : Applied(e, r)
  BY Zenon DEF AppliedInv, CursorsFollowRows
<1>3. \A r \in Need(e) : r \in Runs /\ r \in Nat /\ ~(r <= 0)
  BY <1>1, ImpactAssumption, RunsFacts DEF Need
<1>4. \A r \in Need(e) : Applied(e, r) => Applied(e, r)'
  BY Zenon, <1>3 DEF RowsGrow, Applied, HasRows
<1> HIDE DEF Applied, Need
<1>5. CASE UNCHANGED <<progress, receipts>>
  BY Zenon, <1>2, <1>4, <1>5
<1>6. ASSUME NEW f \in Events, Started(c, f) \/ Invalidated(c, f) \/ Completed(c, f), f # e
      PROVE  progress'[e] = progress[e] /\ (e \in receipts' => e \in receipts)
  BY Zenon, <1>1, <1>6 DEF Started, Invalidated, Completed
<1>7. CASE Started(c, e)
  <2>1. progress'[e] = [phase |-> "invalidating", after |-> 0] /\ receipts' = receipts
    BY Zenon, <1>1, <1>7 DEF Started
  <2> QED
    BY <1>2, <1>4, <2>1
<1>8. CASE Invalidated(c, e)
  <2>1. progress'[e] = [phase |-> "processing", after |-> progress[e].after] /\ receipts' = receipts
        /\ progress[e].phase = "invalidating"
    BY Zenon, <1>1, <1>8 DEF Invalidated
  <2> QED
    BY <1>2, <1>3, <1>4, <2>1
<1>9. CASE Completed(c, e)
  <2>1. progress'[e] = NoProgress /\ progress[e].phase = "finalizing"
    BY Zenon, <1>1, <1>9 DEF Completed
  <2> QED
    BY <1>2, <1>4, <2>1 DEF NoProgress
<1>10. ASSUME NEW m \in consumer[c].todo, Current(c, m), PageCommitted(c, stream[m]), stream[m] = e
       PROVE  /\ progress'[e].phase = "invalidating" => progress'[e].after = 0
              /\ progress'[e].phase = "processing" =>
                    \A r \in Need(e) : r <= progress'[e].after => Applied(e, r)'
              /\ e \in receipts' \/ progress'[e].phase = "finalizing" =>
                    \A r \in Need(e) : Applied(e, r)'
  <2>1. /\ receipts' = receipts
        /\ progress'[e].phase = IF consumer[c].more THEN "processing" ELSE "finalizing"
        /\ progress'[e].after = Last(consumer[c].page, consumer[c].after)
    BY Zenon, <1>1, <1>10 DEF PageCommitted
  <2>2. \A r \in Need(e) : r <= Last(consumer[c].page, consumer[c].after) \/ ~consumer[c].more => Applied(e, r)'
    BY Zenon, <1>10, PageApplies
  <2> QED
    BY Zenon, <1>2, <1>4, <2>1, <2>2
<1>11. ASSUME NEW m \in consumer[c].todo, Current(c, m), PageCommitted(c, stream[m]), stream[m] # e
       PROVE  progress'[e] = progress[e] /\ receipts' = receipts
  <2>1. stream[m] \in Events
    BY Zenon, MessageFacts
  <2> QED
    BY Zenon, <1>1, <1>11, <2>1 DEF PageCommitted
<1>12. CASE Quiet(c) \/ RunRotated(c) \/ RunsRotated(c) \/ \E f : Rotated(c, f) \/ Resolved(c, f) \/ PageLocked(c, f)
  BY Zenon, <1>5, <1>12 DEF Quiet, RunRotated, RunsRotated, Rotated, Resolved, PageLocked
<1>13. ASSUME NEW m \in consumer[c].todo, Current(c, m), PageCommitted(c, stream[m])
       PROVE  /\ progress'[e].phase = "invalidating" => progress'[e].after = 0
              /\ progress'[e].phase = "processing" =>
                    \A r \in Need(e) : r <= progress'[e].after => Applied(e, r)'
              /\ e \in receipts' \/ progress'[e].phase = "finalizing" =>
                    \A r \in Need(e) : Applied(e, r)'
  BY Zenon, <1>2, <1>4, <1>10, <1>11, <1>13
<1>14. CASE \E m \in consumer[c].todo :
               Started(c, stream[m]) \/ Invalidated(c, stream[m]) \/ Completed(c, stream[m])
  <2>1. PICK f \in Events : Started(c, f) \/ Invalidated(c, f) \/ Completed(c, f)
    BY Zenon, <1>14, MessageFacts
  <2> QED
    BY Zenon, <1>2, <1>4, <1>6, <1>7, <1>8, <1>9, <2>1
<1> QED
  BY Zenon, <1>12, <1>13, <1>14, ConsumerShapes

LEMMA AppliedStep ==
    TypeInv /\ AnnouncedAreCreated /\ RowsInv /\ AppliedInv /\ [Next]_vars => AppliedInv'
<1> SUFFICES ASSUME TypeInv, AnnouncedAreCreated, RowsInv, AppliedInv, [Next]_vars PROVE AppliedInv'
  BY Zenon
<1>1. Grows /\ RowsGrow
  BY Zenon, TypeStep, RowsStep
<1>2. ASSUME UNCHANGED <<consumer, progress, receipts>> PROVE AppliedInv'
  <2>1. \A d \in Consumers : \A m \in consumer'[d].todo :
           /\ m \in consumer[d].todo /\ stream'[m] = stream[m]
           /\ \A steps : At(d, m, steps)' = At(d, m, steps)
    BY Zenon, <1>1, <1>2, SameConsumer
  <2>2. EventLocksExclusive'
    BY <2>1 DEF AppliedInv, EventLocksExclusive
  <2>3. PagesAreComplete'
    BY <1>2, <2>1 DEF AppliedInv, PagesAreComplete, Need
  <2>4. CommitsAreCurrent'
    BY <1>2, <2>1 DEF AppliedInv, CommitsAreCurrent
  <2>5. CursorsFollowRows'
    <3>1. \A e \in ProjectionEvents : \A r \in Need(e) : r \in Runs
      BY Zenon, EventKindsAssumption, ImpactAssumption DEF Need
    <3>2. \A e \in ProjectionEvents : \A r \in Need(e) : Applied(e, r) => Applied(e, r)'
      BY Zenon, <1>1, <3>1 DEF RowsGrow, Applied, HasRows
    <3>3. \A e : Need(e)' = Need(e)
      BY Zenon DEF Need
    <3> QED
      BY Zenon, <1>2, <3>2, <3>3 DEF AppliedInv, CursorsFollowRows
  <2> QED
    BY Zenon, <2>2, <2>3, <2>4, <2>5 DEF AppliedInv
<1>3. ASSUME NEW e \in Events, CommitChange(e) PROVE AppliedInv'
  BY Zenon, <1>2, <1>3 DEF CommitChange, readModelVars
<1>4. ASSUME NEW w \in Relays,
             \/ RelayClaim(w) \/ RelayPublish(w) \/ RelayPublishFails(w)
             \/ RelayFinalize(w) \/ RelayStops(w)
      PROVE  AppliedInv'
  BY <1>2, <1>4, RelayTypes
<1>5. ASSUME NEW q \in Readers, Request(q) \/ ReaderStep(q) PROVE AppliedInv'
  BY Zenon, <1>2, <1>5, RequestTypes, ReaderStepTypes DEF ReaderFrame
<1>6. ASSUME NEW a \in Admins, AdminStarts(a) \/ AdminStep(a) \/ AdminFails(a) PROVE AppliedInv'
  BY <1>2, <1>6, AdminTypes DEF AdminFrame
<1>7. ASSUME NEW c \in Consumers, ConsumerReceive(c) \/ ConsumerStep(c) \/ ConsumerFails(c)
      PROVE  AppliedInv'
  BY Zenon, <1>1, <1>7, PagesStep, CursorsStep DEF AppliedInv
<1> QED
  BY Zenon, <1>2, <1>3, <1>4, <1>5, <1>6, <1>7 DEF Next, vars

LEMMA AppliedInit == Init => AppliedInv
<1> SUFFICES ASSUME Init PROVE AppliedInv
  BY Zenon
<1>1. /\ \A c \in Consumers : consumer[c].todo = {}
      /\ \A e \in Events : progress[e].phase = "none" /\ receipts = {}
  BY Zenon DEF Init, ReadModelInit, ConsumerIdle, NoProgress
<1>2. EventLocksExclusive /\ PagesAreComplete /\ CommitsAreCurrent
  BY Zenon, <1>1 DEF EventLocksExclusive, PagesAreComplete, CommitsAreCurrent
<1>3. CursorsFollowRows
  BY Zenon, <1>1, EventKindsAssumption DEF CursorsFollowRows
<1> QED
  BY Zenon, <1>2, <1>3 DEF AppliedInv

LEMMA AppliedIsEnough == TypeInv /\ AppliedInv => ReceiptMeansApplied
<1> SUFFICES ASSUME TypeInv, AppliedInv,
                    NEW e \in receipts \cap ProjectionEvents, NEW r \in Impact[e], CreatedBy[r] <= e
             PROVE  projection[r] # NoRows /\ e \in projection[r]
  BY Zenon, TypeInvImpliesTypeOK DEF ReceiptMeansApplied
<1>1. r \in Need(e)
  BY Zenon DEF Need
<1> QED
  BY Zenon, <1>1 DEF AppliedInv, CursorsFollowRows, Applied, HasRows

-----------------------------------------------------------------------------
(* The rebuild of everything, and the gate of the search. *)

LEMMA OtherAdmins ==
    ASSUME TypeInv, NEW a \in Admins, AdminStarts(a) \/ AdminStep(a) \/ AdminFails(a)
    PROVE  \A b \in Admins \ {a} : admin'[b] = admin[b]
<1>1. admin \in [Admins -> AdminRec]
  BY Zenon DEF TypeInv, AdminType
<1>2. CASE AdminStarts(a)
  BY Zenon, <1>1, <1>2 DEF AdminStarts, RebuildTrainRun, LoadTrainRun, BeginRebuildAll, PendingEvent
<1>3. CASE AdminFails(a)
  BY Zenon, <1>1, <1>3 DEF AdminFails, AdminStops
<1>4. CASE AdminStep(a)
  <2>1. ASSUME ListRebuildCandidates(a) PROVE \A b \in Admins \ {a} : admin'[b] = admin[b]
    BY Zenon, <1>1, <2>1 DEF ListRebuildCandidates
  <2>2. ASSUME NEW r \in admin[a].left, RebuildCandidate(a, r) PROVE \A b \in Admins \ {a} : admin'[b] = admin[b]
    BY Zenon, <1>1, <2>2 DEF RebuildCandidate, LoadTrainRun
  <2>3. ASSUME CommitTrainRun(a) \/ CheckpointRebuildAll(a) \/ EnqueueEvent(a)
        PROVE  \A b \in Admins \ {a} : admin'[b] = admin[b]
    BY Zenon, <1>1, <2>3 DEF CommitTrainRun, CheckpointRebuildAll, EnqueueEvent
  <2> QED
    BY Zenon, <1>4, <2>1, <2>2, <2>3 DEF AdminStep
<1> QED
  BY Zenon, <1>2, <1>3, <1>4

\* What one command still owes to the rows of run r.
Covered(a, r) ==
    CreatedBy[r] = 0 /\ admin[a].after < r /\ (r <= admin[a].last \/ ~admin[a].more) =>
       r \in admin[a].left \/ AdminHolds(a, r) \/ HasRows(r)

LEMMA CommandKept ==
    ASSUME RowsGrow, NEW a \in Admins, admin'[a] = admin[a], NEW r \in Runs, Covered(a, r)
    PROVE  Covered(a, r)'
<1>1. HasRows(r) => HasRows(r)'
  BY Zenon DEF RowsGrow
<1>2. AdminHolds(a, r)' = AdminHolds(a, r)
  BY Zenon DEF AdminHolds
<1> QED
  BY Zenon, <1>1, <1>2 DEF Covered

LEMMA CommandCovers ==
    ASSUME TypeInv, RowsInv, ReadyInv, RowsGrow, NEW a \in Admins,
           AdminStarts(a) \/ AdminStep(a) \/ AdminFails(a),
           admin'[a].pc \in {"rebuild", "commitCandidate"}, NEW r \in Runs
    PROVE  Covered(a, r)'
<1>1. admin \in [Admins -> AdminRec] /\ admin[a] \in AdminRec
  BY Zenon DEF TypeInv, AdminType
<1>2. admin[a].pc \in {"rebuild", "commitCandidate"} => Covered(a, r)
  BY Zenon DEF ReadyInv, RebuildsAreComplete, Covered
<1>3. HasRows(r) => HasRows(r)'
  BY Zenon DEF RowsGrow
<1>4. ~AdminStarts(a) /\ ~AdminFails(a)
  <2>1. \A e \in Events : ~PendingEvent(a, e)
    BY Zenon, <1>1 DEF PendingEvent, AdminIdle
  <2>2. \A x \in Cursor : ~BeginRebuildAll(a, x)
    BY ZenonT(30), <1>1 DEF BeginRebuildAll, AdminIdle
  <2>3. \A x \in Runs : ~RebuildTrainRun(a, x)
    BY <1>1 DEF RebuildTrainRun, LoadTrainRun, AdminRec
  <2>4. ~AdminFails(a)
    BY <1>1 DEF AdminFails, AdminStops, AdminIdle
  <2> QED
    BY Zenon, <2>1, <2>2, <2>3, <2>4 DEF AdminStarts
<1>5. CASE ListRebuildCandidates(a)
  <2> DEFINE S == {x \in Runs : Exists(x)}
             after == admin[a].after
  <2>1. /\ admin'[a].after = after /\ admin'[a].left = Page(S, after)
        /\ admin'[a].last = Last(Page(S, after), after) /\ admin'[a].more = HasMore(S, after)
    BY Zenon, <1>1, <1>5 DEF ListRebuildCandidates, AdminRec
  <2>2. S \in SUBSET Runs /\ after \in Cursor
    BY Zenon, <1>1 DEF AdminRec
  <2>3. CreatedBy[r] = 0 => r \in S
    BY Zenon DEF Exists
  <2> HIDE DEF S, after
  <2>4. CreatedBy[r] = 0 /\ after < r /\ (r <= Last(Page(S, after), after) \/ ~HasMore(S, after)) =>
           r \in Page(S, after)
    BY Zenon, <2>2, <2>3, PageOf DEF TypeInv
  <2> QED
    BY Zenon, <2>1, <2>4 DEF Covered
<1>6. ASSUME NEW x \in admin[a].left, RebuildCandidate(a, x) PROVE Covered(a, r)'
  <2>1. /\ admin'[a].after = admin[a].after /\ admin'[a].last = admin[a].last /\ admin'[a].more = admin[a].more
        /\ admin'[a].left = admin[a].left \ {x} /\ admin'[a].run = x /\ admin'[a].pc = "commitCandidate"
        /\ admin[a].pc = "rebuild"
    BY Zenon, <1>1, <1>6 DEF RebuildCandidate, LoadTrainRun, AdminRec
  <2>2. Covered(a, r) /\ ~AdminHolds(a, r) /\ AdminHolds(a, x)'
    BY Zenon, <1>2, <2>1 DEF AdminHolds
  <2>3. r # x /\ r \in admin[a].left => r \in admin'[a].left
    BY Zenon, <2>1
  <2> QED
    BY Zenon, <1>3, <2>1, <2>2, <2>3 DEF Covered
<1>7. CASE CommitTrainRun(a)
  <2>1. admin[a].pc = "commitCandidate"
    BY Zenon, <1>1, <1>7 DEF CommitTrainRun, AdminIdle
  <2>2. /\ admin'[a].after = admin[a].after /\ admin'[a].last = admin[a].last /\ admin'[a].more = admin[a].more
        /\ admin'[a].left = admin[a].left
    BY <1>1, <1>7, <2>1 DEF CommitTrainRun, AdminRec
  <2>3. Covered(a, r)
    BY Zenon, <1>2, <2>1
  <2>4. ASSUME AdminHolds(a, r), CreatedBy[r] = 0 PROVE HasRows(r)'
    <3>1. admin[a].run = r /\ admin[a].asOf \in SUBSET Events
      BY Zenon, <1>1, <2>4 DEF AdminHolds, AdminRec
    <3>2. projection'[r] = Rebuilt(r, admin[a].asOf)
      BY Zenon, <1>7, <3>1 DEF CommitTrainRun, TypeInv, RowsType
    <3>3. Rebuilt(r, admin[a].asOf) \in SUBSET Events
      BY Zenon, <2>4, <3>1 DEF Rebuilt
    <3> QED
      BY <3>2, <3>3, NoRowsIsNoValue DEF HasRows
  <2> QED
    BY <1>3, <2>2, <2>3, <2>4 DEF Covered
<1>8. ~CheckpointRebuildAll(a) /\ ~EnqueueEvent(a)
  BY <1>1 DEF CheckpointRebuildAll, EnqueueEvent, AdminIdle
<1> QED
  BY Zenon, <1>4, <1>5, <1>6, <1>7, <1>8 DEF AdminStep

LEMMA ReadyStep ==
    TypeInv /\ AnnouncedAreCreated /\ RowsInv /\ ReadyInv /\ [Next]_vars => ReadyInv'
<1> SUFFICES ASSUME TypeInv, AnnouncedAreCreated, RowsInv, ReadyInv, [Next]_vars PROVE ReadyInv'
  BY Zenon
<1>1. RowsGrow
  BY Zenon, RowsStep
<1>2. \A r \in Runs : HasRows(r) => HasRows(r)'
  BY Zenon, <1>1 DEF RowsGrow
<1>3. \A a \in Admins : admin[a].pc \in {"rebuild", "commitCandidate"} => \A r \in Runs : Covered(a, r)
  BY Zenon DEF ReadyInv, RebuildsAreComplete, Covered
<1>4. ASSUME NEW a \in Admins, admin'[a] = admin[a], admin'[a].pc \in {"rebuild", "commitCandidate"},
             NEW r \in Runs
      PROVE  Covered(a, r)'
  BY Zenon, <1>1, <1>3, <1>4, CommandKept
<1>5. ASSUME UNCHANGED <<state, admin>> PROVE ReadyInv'
  <2>1. CheckpointFollowsRows'
    BY Zenon, <1>2, <1>5 DEF ReadyInv, CheckpointFollowsRows
  <2>2. RebuildsAreComplete'
    BY Zenon, <1>4, <1>5 DEF RebuildsAreComplete, Covered
  <2> QED
    BY Zenon, <2>1, <2>2 DEF ReadyInv
<1>6. ASSUME NEW e \in Events, CommitChange(e) PROVE ReadyInv'
  BY Zenon, <1>5, <1>6 DEF CommitChange, readModelVars
<1>7. ASSUME NEW w \in Relays,
             \/ RelayClaim(w) \/ RelayPublish(w) \/ RelayPublishFails(w)
             \/ RelayFinalize(w) \/ RelayStops(w)
      PROVE  ReadyInv'
  BY Zenon, <1>5, <1>7, RelayTypes
<1>8. ASSUME NEW q \in Readers, Request(q) \/ ReaderStep(q) PROVE ReadyInv'
  BY Zenon, <1>5, <1>8, RequestTypes, ReaderStepTypes DEF ReaderFrame
<1>9. ASSUME NEW c \in Consumers, ConsumerReceive(c) \/ ConsumerStep(c) \/ ConsumerFails(c)
      PROVE  ReadyInv'
  BY Zenon, <1>5, <1>9, ConsumerTypes DEF ConsumerFrame
<1>10. ASSUME NEW a \in Admins, AdminStarts(a) \/ AdminStep(a) \/ AdminFails(a) PROVE ReadyInv'
  <2>1. RebuildsAreComplete'
    BY Zenon, <1>1, <1>4, <1>10, OtherAdmins, CommandCovers DEF RebuildsAreComplete, Covered
  <2>2. CheckpointFollowsRows'
    <3>1. CASE UNCHANGED state
      BY Zenon, <1>2, <3>1 DEF ReadyInv, CheckpointFollowsRows
    <3>2. CASE state' = [ready |-> FALSE, after |-> 0]
      <4>1. \A r \in Runs : ~(r <= 0)
        BY RunsFacts
      <4> QED
        BY Zenon, <3>2, <4>1 DEF CheckpointFollowsRows
    <3>3. CASE /\ CheckpointRebuildAll(a) /\ state.after = admin[a].after
               /\ state' = [ready |-> ~admin[a].more, after |-> admin[a].last]
      <4>1. admin[a].pc = "rebuild" /\ admin[a].left = {} /\ admin[a].after \in Nat
        BY Zenon, <3>3, RunsFacts DEF CheckpointRebuildAll, TypeInv, AdminType, AdminRec
      <4>2. ASSUME NEW r \in Runs, CreatedBy[r] = 0, r <= admin[a].last \/ ~admin[a].more PROVE HasRows(r)
        <5>1. CASE admin[a].after < r
          BY Zenon, <1>3, <4>1, <4>2, <5>1 DEF Covered, AdminHolds
        <5>2. CASE r <= admin[a].after
          BY Zenon, <3>3, <4>2, <5>2 DEF ReadyInv, CheckpointFollowsRows
        <5> QED
          BY <4>1, <5>1, <5>2, RunsFacts
      <4> QED
        BY Zenon, <1>2, <3>3, <4>2 DEF CheckpointFollowsRows
    <3>4. CASE AdminStarts(a) \/ AdminFails(a)
      BY Zenon, <3>1, <3>2, <3>4
      DEF AdminStarts, AdminFails, AdminStops, RebuildTrainRun, BeginRebuildAll, PendingEvent
    <3>5. CASE AdminStep(a)
      BY Zenon, <3>1, <3>3, <3>5
      DEF AdminStep, ListRebuildCandidates, RebuildCandidate, CommitTrainRun, CheckpointRebuildAll, EnqueueEvent
    <3> QED
      BY Zenon, <1>10, <3>4, <3>5
  <2> QED
    BY Zenon, <2>1, <2>2 DEF ReadyInv
<1> QED
  BY Zenon, <1>5, <1>6, <1>7, <1>8, <1>9, <1>10 DEF Next, vars

LEMMA ReadyInit == Init => ReadyInv
<1> SUFFICES ASSUME Init PROVE ReadyInv
  BY Zenon
<1>1. RebuildsAreComplete
  BY Zenon DEF Init, ReadModelInit, AdminIdle, RebuildsAreComplete
<1>2. CASE Built
  <2>1. \A r \in Runs : CreatedBy[r] = 0 => projection[r] = {}
    BY Zenon, <1>2 DEF Init, ReadModelInit, Rebuilt
  <2> QED
    BY Zenon, <1>1, <2>1 DEF ReadyInv, CheckpointFollowsRows, HasRows, NoRows
<1>3. CASE ~Built
  <2>1. state = [ready |-> Built, after |-> 0] /\ \A r \in Runs : ~(r <= 0)
    BY <1>3, RunsFacts DEF Init, ReadModelInit
  <2> QED
    BY Zenon, <1>1, <1>3, <2>1 DEF ReadyInv, CheckpointFollowsRows
<1> QED
  BY Zenon, <1>2, <1>3

PipelineInv == TypeInv /\ AnnouncedAreCreated /\ RowsInv /\ AppliedInv /\ ReadyInv

LEMMA PipelineInit == Counting /\ Init => PipelineInv
BY Zenon, InitTypes, RowsInit, AppliedInit, ReadyInit DEF PipelineInv

LEMMA PipelineStep == PipelineInv /\ [Next]_vars => PipelineInv'
BY Zenon, TypeStep, AnnouncedStep, RowsStep, AppliedStep, ReadyStep DEF PipelineInv

LEMMA CreatedByType == \A r \in Runs : CreatedBy[r] \in Nat
<1> SUFFICES ASSUME NEW r \in Runs PROVE CreatedBy[r] \in Nat
  BY Zenon
<1>1. CreatedBy[r] = 0 \/ CreatedBy[r] \in ProjectionEvents
  BY Zenon, ImpactAssumption
<1>2. CASE CreatedBy[r] \in ProjectionEvents
  BY Zenon, <1>2, EventsAssumption, EventKindsAssumption
<1> QED
  BY <1>1, <1>2

LEMMA GateIsEnough == PipelineInv => ProjectionCurrent
<1> SUFFICES ASSUME PipelineInv, ProjectionAvailable, NEW r \in Runs, Exists(r)
             PROVE  projection[r] = Journeys(r)
  BY Zenon DEF ProjectionCurrent
<1>1. \A e \in Created \cap ProjectionEvents : e \in receipts /\ e \in Nat
  BY Zenon, EventsAssumption, EventKindsAssumption DEF ProjectionAvailable
<1>2. \A e \in receipts \cap ProjectionEvents : \A x \in Need(e) : Applied(e, x)
  BY Zenon DEF PipelineInv, AppliedInv, CursorsFollowRows
<1>3. HasRows(r)
  <2>1. CASE CreatedBy[r] = 0
    BY Zenon, <2>1 DEF PipelineInv, ReadyInv, CheckpointFollowsRows, ProjectionAvailable
  <2>2. CASE CreatedBy[r] # 0
    <3>1. CreatedBy[r] \in Created \cap ProjectionEvents /\ r \in Impact[CreatedBy[r]]
      BY Zenon, <2>2, ImpactAssumption DEF Exists
    <3>2. CreatedBy[r] \in receipts /\ r \in Need(CreatedBy[r])
      BY <1>1, <3>1 DEF Need
    <3> QED
      BY Zenon, <1>2, <3>1, <3>2 DEF Applied
  <2> QED
    BY Zenon, <2>1, <2>2
<1>4. /\ projection[r] \subseteq Journeys(r)
      /\ CreatedBy[r] # 0 => CreatedBy[r] \in projection[r]
      /\ \A e \in projection[r] : \A f \in ProjectionEvents : f < e /\ r \in Impact[f] => f \in projection[r]
  BY Zenon, <1>3 DEF PipelineInv, RowsInv, RowsAreSnapshots
<1>5. ASSUME NEW e \in Journeys(r) PROVE e \in projection[r]
  <2>1. e \in Created \cap ProjectionEvents /\ r \in Impact[e] /\ e \in Nat /\ e \in receipts
    BY Zenon, <1>1, <1>5 DEF Journeys
  <2>2. CASE CreatedBy[r] <= e
    BY Zenon, <1>2, <2>1, <2>2 DEF Need, Applied
  <2>3. CASE ~(CreatedBy[r] <= e)
    <3>1. CreatedBy[r] \in Nat
      BY Zenon, CreatedByType
    <3>2. CreatedBy[r] # 0 /\ e < CreatedBy[r]
      BY <2>1, <2>3, <3>1
    <3> QED
      BY Zenon, <1>4, <2>1, <3>2
  <2> QED
    BY Zenon, <2>2, <2>3
<1> QED
  BY Zenon, <1>4, <1>5
============================================================================
