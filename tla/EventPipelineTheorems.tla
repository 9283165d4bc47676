----------------------- MODULE EventPipelineTheorems -----------------------
(***************************************************************************)
(* What is proved of the pipeline from a committed change to a search      *)
(* result, for any number of events, train runs, relays, consumers, admin  *)
(* commands, readers and faults.                                           *)
(*                                                                         *)
(* The steps are in EventPipelineTypes (types, and that nothing is taken   *)
(* back), EventPipelineProofs (delivery, the projection and its gate) and  *)
(* QueryCacheProofs (the caches).  What they take from the theory of finite*)
(* sets is proved here, next to the theorems.                              *)
(***************************************************************************)
EXTENDS QueryCacheProofs, FiniteSetTheorems

\* A set of runs that is not empty has a last one.
LEMMA LastExists ==
    ASSUME NEW S \in SUBSET Runs, NEW d \in Cursor
    PROVE  /\ Last(S, d) \in Cursor
           /\ S = {} => Last(S, d) = d
           /\ S # {} => Last(S, d) \in S
           /\ \A q \in S : q <= Last(S, d)
<1>1. CASE S = {}
  BY Zenon, <1>1 DEF Last
<1>2. CASE S # {}
  <2> DEFINE n == Cardinality(Runs)
             T == {n - r : r \in S}
             R == OpToRel(<, Nat)
  <2>1. n \in Nat /\ S \subseteq 1..n
    BY RunsAssumption, FS_CardinalityType
  <2> HIDE DEF n
  <2>2. T \subseteq Nat
    BY <2>1
  <2>3. T # {}
    BY Zenon, <1>2
  <2>4. PICK x \in T : \A y \in T : ~(<<y, x>> \in R)
    <3>1. IsWellFoundedOn(R, Nat)
      BY Zenon, NatLessThanWellFounded
    <3> HIDE DEF R, T
    <3> QED
      BY Zenon, <2>2, <2>3, <3>1, WFMin
  <2>5. PICK r \in S : x = n - r
    BY Zenon
  <2>6. ASSUME NEW q \in S PROVE q <= r
    <3>1. n - q \in T /\ n - q \in Nat /\ x \in Nat
      BY Zenon, <2>2
    <3>2. ~(n - q < x)
      BY Zenon, <2>4, <3>1 DEF OpToRel
    <3> QED
      BY SMTT(30), <2>1, <2>5, <3>2
  <2>7. \E s \in S : \A q \in S : q <= s
    BY Zenon, <2>6
  <2>8. Last(S, d) \in S /\ \A q \in S : q <= Last(S, d)
    BY SMTT(30), <1>2, <2>7 DEF Last
  <2> QED
    BY Zenon, <1>2, <2>8, RunsFacts
<1> QED
  BY <1>1, <1>2

\* A page takes the runs after the cursor without a gap, and all of them when
\* no more follow.
LEMMA PagesHaveNoGap ==
    ASSUME NEW S \in SUBSET Runs, NEW after \in Cursor
    PROVE  /\ Page(S, after) \subseteq S
           /\ \A r \in Page(S, after) : after < r
           /\ \A r \in S : after < r /\ r <= Last(Page(S, after), after) => r \in Page(S, after)
           /\ ~ HasMore(S, after) => \A r \in S : after < r => r \in Page(S, after)
<1> DEFINE P == Page(S, after)
           l == Last(P, after)
           Before(r) == {q \in S : after < q /\ q < r}
<1>1. P \in SUBSET Runs /\ P \subseteq S /\ \A r \in P : after < r
  BY Zenon DEF Page
<1>2. ASSUME NEW r \in S, after < r, r <= l PROVE r \in P
  <2>1. P # {}
    <3>1. CASE P = {}
      <4>1. l = after
        BY Zenon, <1>1, <3>1, LastExists
      <4> QED
        BY SMTT(30), <1>2, <4>1, RunsFacts
    <3> QED
      BY SMTT(30), <3>1
  <2>2. l \in P
    BY Zenon, <1>1, <2>1, LastExists
  <2> HIDE DEF l
  <2>3. Cardinality(Before(l)) < PageLimit
    BY Zenon, <2>2 DEF Page
  <2>4. Before(r) \subseteq Before(l)
    <3>1. l \in Nat /\ r \in Nat /\ \A q \in S : q \in Nat
      BY Zenon, <1>1, <2>2, RunsFacts
    <3>2. r <= l
      BY SMTT(30), <1>2 DEF l
    <3>3. ASSUME NEW q \in S, q < r PROVE q < l
      BY SMTT(30), <3>1, <3>2, <3>3
    <3> QED
      BY Zenon, <3>3
  <2>5. IsFiniteSet(Before(l))
    <3>1. Before(l) \subseteq Runs
      OBVIOUS
    <3> QED
      BY Zenon, <3>1, RunsAssumption, FS_Subset
  <2>6. Cardinality(Before(r)) <= Cardinality(Before(l)) /\ IsFiniteSet(Before(r))
    BY Zenon, <2>4, <2>5, FS_Subset
  <2>7. Cardinality(Before(r)) < PageLimit
    BY SMTT(30), <2>3, <2>5, <2>6, FS_CardinalityType, ConsumerConfigAssumption
  <2> QED
    BY Zenon, <1>2, <2>7 DEF Page
<1>3. ~ HasMore(S, after) => \A r \in S : after < r => r \in P
  BY Zenon DEF HasMore
<1> QED
  BY Zenon, <1>1, <1>2, <1>3

LEMMA Counts == Counting
<1>1. \A S \in SUBSET Runs, d \in Cursor : LastFound(S, d) /\ PageFound(S, d)
  BY Zenon, LastExists, PagesHaveNoGap DEF LastFound, PageFound
<1>2. ASSUME NEW n \in Nat, NEW S \in SUBSET (1..n) PROVE Cardinality(S) \in Nat
  <2>1. IsFiniteSet(1..n)
    BY SMTT(30), FS_Interval
  <2>2. IsFiniteSet(S)
    BY Zenon, <2>1, FS_Subset
  <2> QED
    BY Zenon, <2>2, FS_CardinalityType
<1>3. ASSUME NEW m \in Nat, NEW n \in Nat, m <= n PROVE Cardinality((m + 1)..n) = n - m
  <2>1. Cardinality((m + 1)..n) = IF m + 1 > n THEN 0 ELSE n - (m + 1) + 1
    BY FS_Interval
  <2> QED
    BY SMTT(30), <1>3, <2>1
<1> QED
  BY ZenonT(30), <1>1, <1>2, <1>3 DEF Counting

-----------------------------------------------------------------------------
(* The theorems. *)

\* Every variable keeps its type.
THEOREM TypeCorrect == Spec => []TypeOK
<1>1. Init => TypeInv
  BY SMTT(30), Counts, InitTypes
<1>2. TypeInv /\ [Next]_vars => TypeInv'
  BY Zenon, TypeStep
<1> QED
  BY <1>1, <1>2, TypeInvImpliesTypeOK, PTL DEF Spec

(***************************************************************************)
(* A committed event without a receipt can still be processed, for any     *)
(* number of relays, consumers and faults: Claim takes over the rows       *)
(* crashed relays left behind, MarkPublished follows the XADD, and Ack the *)
(* receipt.                                                                *)
(***************************************************************************)
THEOREM EventsAreNotLost == Spec => []NoEventLost
<1>1. Init => TypeInv /\ FlowInv
  BY Zenon, Counts, InitTypes, FlowInit
<1>2. TypeInv /\ FlowInv /\ [Next]_vars => (TypeInv /\ FlowInv)'
  BY SMTT(30), TypeStep, FlowStep
<1> QED
  BY <1>1, <1>2, FlowIsEnough, PTL DEF Spec

LEMMA PipelineHolds == Spec => []PipelineInv
<1>1. Init => PipelineInv
  BY Zenon, Counts, PipelineInit
<1> QED
  BY <1>1, PipelineStep, PTL DEF Spec

\* A receipt means that the event has been applied to every train run it
\* concerned: the worker's pages, cursors and locks never let CompleteEvent
\* write one over a page that is still undone.
THEOREM ReceiptsAreEarned == Spec => []ReceiptMeansApplied
<1>1. PipelineInv => ReceiptMeansApplied
  BY Zenon, AppliedIsEnough DEF PipelineInv
<1> QED
  BY <1>1, PipelineHolds, PTL

\* Whenever the gate of the search (Store.SearchTrainRuns) lets the projection
\* be used, every run's rows are exactly what the source tables say.
THEOREM ProjectionIsCurrent == Spec => []ProjectionCurrent
BY PipelineHolds, GateIsEnough, PTL

\* Whatever is cached under a namespace's current token shows every event that
\* has its receipt, whichever fills were slow.
THEOREM CachedEntriesAreFresh == Spec => []CacheEntriesFresh
<1>1. Init => PipelineInv /\ CachedInv
  BY Zenon, Counts, PipelineInit, CachedInit
<1>2. PipelineInv /\ CachedInv /\ [Next]_vars => (PipelineInv /\ CachedInv)'
  BY SMTT(30), PipelineStep, CachedStep
<1>3. PipelineInv /\ CachedInv => CacheEntriesFresh
  BY Zenon, EntriesFresh DEF PipelineInv
<1> QED
  BY <1>1, <1>2, <1>3, PTL DEF Spec

\* A request that began after an event's receipt shows the event's change,
\* whoever filled the cache; only an availability request that joined another
\* one's fill is exempt.
THEOREM AnswersAreFresh == Spec => []AnswersFresh
<1> DEFINE Inv == PipelineInv /\ CachedInv /\ RequestsFindFresh /\ AnswersFresh
<1>1. Init => Inv
  BY Zenon, Counts, PipelineInit, CachedInit, RequestsInit
<1>2. Inv /\ [Next]_vars => Inv'
  BY SMTT(30), PipelineStep, CachedStep, RequestsStep
<1>3. Inv => AnswersFresh
  BY Zenon
<1> QED
  BY <1>1, <1>2, <1>3, PTL DEF Spec
============================================================================
