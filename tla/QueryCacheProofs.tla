------------------------- MODULE QueryCacheProofs --------------------------
(***************************************************************************)
(* What the caches of the read path show, for any number of events, train  *)
(* runs, workers and requests: whatever is cached under a current token,   *)
(* and whatever a request answers, shows every event that had its receipt. *)
(*                                                                         *)
(* The argument follows the code: an event's namespaces are rotated before *)
(* the row that lets it go on is written, a rotation makes every value     *)
(* read before it unreachable, and a value read afterwards shows the       *)
(* event, because the change was committed before it was announced.        *)
(***************************************************************************)
EXTENDS EventPipelineProofs


-----------------------------------------------------------------------------
(* What a cache shows. *)

KindOf(ns) == IF ns = Search THEN "search" ELSE "availability"

\* Nothing that a request with the namespace's token finds misses event e.
CacheShows(e, ns, r) == \A k \in DOMAIN cache : k = <<ns, version[ns], r>> => e \in cache[k]

ReaderShows(q, e, ns, r) ==
    Namespace(q) = ns /\ reader[q].run = r =>
       /\ reader[q].pc = "write" /\ reader[q].token = version[ns] => e \in reader[q].value
       /\ reader[q].pc = "install" /\ version[ns] = 0 => e \in reader[q].value

Fresh(e, ns, r) == CacheShows(e, ns, r) /\ \A q \in Readers : ReaderShows(q, e, ns, r)

KeysAreKnown ==
    \A k \in DOMAIN cache : k[2] <= version[k[1]] /\ (k[1] = Search \/ k[1] = k[3])

\* An event that changes journeys rotates the search namespace before its row says so.
SearchRotated ==
    /\ \A c \in Consumers : \A m \in consumer[c].todo :
          At(c, m, {"mark"}) /\ stream[m] \in ProjectionEvents =>
             \A r \in Impact[stream[m]] : Fresh(stream[m], Search, r)
    /\ \A e \in ProjectionEvents :
          e \in receipts \/ progress[e].phase \in {"processing", "finalizing"} =>
             \A r \in Impact[e] : Fresh(e, Search, r)

\* An event that changes seats rotates a run's namespace before the cursor passes it.
AvailabilityRotated ==
    /\ \A c \in Consumers : \A m \in consumer[c].todo :
          At(c, m, {"rotateRuns", "process", "commit"}) /\ stream[m] \in AvailabilityEvents =>
             /\ \A r \in (Need(stream[m]) \cap consumer[c].page) \ consumer[c].left : Fresh(stream[m], r, r)
             /\ consumer[c].pc # "rotateRuns" => consumer[c].left = {}
    /\ \A e \in AvailabilityEvents : \A r \in Need(e) :
          \/ e \in receipts \/ progress[e].phase = "finalizing"
          \/ progress[e].phase = "processing" /\ r <= progress[e].after
          => Fresh(e, r, r)

AvailabilityCursors ==
    \A e \in AvailabilityEvents : progress[e].phase = "invalidating" => progress[e].after = 0

\* Nobody asks for a run before it exists: its first changes are in whatever was read.
EarlyEventsSeen ==
    \A r \in Runs : \A e \in AvailabilityEvents : r \in Impact[e] /\ e < CreatedBy[r] =>
       /\ \A k \in DOMAIN cache : k[1] = r => e \in cache[k]
       /\ \A q \in Readers : reader[q].kind = "availability" /\ reader[q].run = r
                             /\ reader[q].pc \in {"install", "write"} => e \in reader[q].value

CachedInv == KeysAreKnown /\ SearchRotated /\ AvailabilityRotated /\ AvailabilityCursors /\ EarlyEventsSeen

\* Nothing under a data key, or about to be put there, misses event e.
Shown(e, key) ==
    /\ \A k \in DOMAIN cache : k = key => e \in cache[k]
    /\ \A p \in Readers : reader[p].pc = "write" /\ DataKey(p) = key => e \in reader[p].value

\* A request under way finds nothing older than the receipts it began after.
RequestsFindFresh ==
    \A q \in Readers : ~Free(q) =>
       /\ reader[q].since \subseteq receipts
       /\ reader[q].pc = "wait" => reader[q].joined
       /\ \A e \in reader[q].since \cap Relevant(reader[q].kind, reader[q].run) :
             /\ Shown(e, DataKey(q))
             /\ reader[q].pc = "install" => e \in reader[q].value

-----------------------------------------------------------------------------
(* The steps of a request, by what they do to the tokens and the values. *)

OnlyReader(q) == \A p \in Readers \ {q} : reader'[p] = reader[p]

SameRequest(q) ==
    /\ reader'[q].kind = reader[q].kind /\ reader'[q].run = reader[q].run
    /\ reader'[q].since = reader[q].since

Asks(q) ==
    /\ OnlyReader(q) /\ reader'[q].pc \in {"read", "do"}
    /\ reader'[q].since = receipts /\ reader'[q].token = version'[Namespace(q)']
    /\ \/ version' = version
       \/ /\ version[Search] = 0 /\ version' = [version EXCEPT ![Search] = 1]
          /\ reader'[q].kind = "search"
    /\ UNCHANGED cache

Moves(q) ==
    /\ OnlyReader(q) /\ SameRequest(q) /\ ~Free(q)
    /\ reader'[q].pc \notin {"idle", "done", "write", "install"}
    /\ reader'[q].token = reader[q].token
    /\ reader'[q].pc = "wait" => reader'[q].joined
    /\ UNCHANGED <<cache, version>>

Retokens(q) ==
    /\ OnlyReader(q) /\ SameRequest(q) /\ ~Free(q)
    /\ reader[q].kind = "availability"
    /\ reader'[q].pc \notin {"idle", "done", "write", "install", "wait"}
    /\ reader'[q].token \in {0, version[reader[q].run]}
    /\ UNCHANGED <<cache, version>>

Reads(q) ==
    /\ OnlyReader(q) /\ SameRequest(q) /\ ~Free(q)
    /\ reader'[q].pc \in {"write", "install"}
    /\ reader'[q].token = reader[q].token
    /\ Created \cap Relevant(reader[q].kind, reader[q].run) \subseteq reader'[q].value
    /\ UNCHANGED <<cache, version>>

Installs(q) ==
    /\ OnlyReader(q) /\ SameRequest(q)
    /\ reader[q].pc = "install" /\ reader[q].kind = "availability"
    /\ version[reader[q].run] = 0 /\ version' = [version EXCEPT ![reader[q].run] = 1]
    /\ reader'[q].pc = "write" /\ reader'[q].token = 1 /\ reader'[q].value = reader[q].value
    /\ UNCHANGED cache

Answers(q, v) ==
    /\ reader'[q].pc = "done" /\ reader'[q].value = v /\ SameRequest(q)
    /\ \A p \in Readers \ {q} :
          \/ reader'[p] = reader[p]
          \/ /\ p \in Waiting(q) /\ SameRequest(p) /\ reader'[p].joined = reader[p].joined
             /\ reader'[p].pc = "done" /\ reader'[p].value = v
    /\ UNCHANGED version

Finds(q) ==
    /\ ~Free(q) /\ DataKey(q) \in DOMAIN cache
    /\ Answers(q, cache[DataKey(q)]) /\ UNCHANGED cache

Stores(q) ==
    /\ reader[q].pc = "write"
    /\ cache' = [k \in {j \in DOMAIN cache : Readable(j)} \cup {DataKey(q)} |->
                   IF k = DataKey(q) THEN reader[q].value ELSE cache[k]]
    /\ Answers(q, reader[q].value)

Returns(q) ==
    /\ reader[q].pc \in {"install", "write"}
    /\ Answers(q, reader[q].value) /\ UNCHANGED cache

GivesUp(q) ==
    /\ \A p \in Readers : reader'[p] = reader[p] \/ reader'[p].pc = "idle"
    /\ UNCHANGED <<cache, version>>

Bypasses(q) ==
    /\ OnlyReader(q) /\ reader'[q].pc = "done"
    /\ receipts \cap Relevant(reader'[q].kind, reader'[q].run) \subseteq reader'[q].value
    /\ reader'[q].since = receipts
    /\ UNCHANGED <<cache, version>>

\* What the source shows of a run, and the projection when it may be used.
LEMMA SourceShows ==
    ASSUME NEW kind \in {"search", "availability"}, NEW r
    PROVE  Created \cap Relevant(kind, r) = Source(kind, r)
BY Zenon DEF Relevant, Source, Journeys, Seats

LEMMA RequestShapes ==
    ASSUME TypeInv, AnnouncedAreCreated, NEW q \in Readers, Request(q)
    PROVE  Asks(q) \/ Bypasses(q)
<1>1. reader \in [Readers -> ReaderRec] /\ version \in [Cursor -> Nat]
  BY Zenon DEF TypeInv, ReaderType, RowsType
<1>2. PICK api \in Apis, r \in Runs :
         \/ SearchTrainRuns(q, api, r) \/ Availability(q, api, r)
         \/ \E kind \in {"search", "availability"} : SourceOnly(q, api, kind, r)
  BY Zenon DEF Request
<1>3. CASE SearchTrainRuns(q, api, r)
  <2>1. /\ OnlyReader(q) /\ reader'[q].pc = "read" /\ reader'[q].kind = "search"
        /\ reader'[q].since = receipts /\ reader'[q].token = version'[Search]
    BY Zenon, <1>1, <1>3 DEF SearchTrainRuns, NewRequest, OnlyReader
  <2>2. Namespace(q)' = Search
    BY Zenon, <2>1 DEF Namespace
  <2>3. version' = version \/ (version[Search] = 0 /\ version' = [version EXCEPT ![Search] = 1])
    BY Zenon, <1>3 DEF SearchTrainRuns
  <2> QED
    BY Zenon, <1>3, <2>1, <2>2, <2>3 DEF Asks, SearchTrainRuns
<1>4. CASE Availability(q, api, r)
  <2>1. /\ OnlyReader(q) /\ reader'[q].pc \in {"read", "do"} /\ reader'[q].kind = "availability"
        /\ reader'[q].since = receipts /\ reader'[q].token = version[r] /\ reader'[q].run = r
        /\ UNCHANGED <<cache, version>>
    BY Zenon, <1>1, <1>4 DEF Availability, NewRequest, OnlyReader
  <2>2. Namespace(q)' = r
    BY Zenon, <2>1 DEF Namespace
  <2> QED
    BY Zenon, <2>1, <2>2 DEF Asks
<1>5. ASSUME NEW kind \in {"search", "availability"}, SourceOnly(q, api, kind, r) PROVE Bypasses(q)
  <2>1. /\ OnlyReader(q) /\ reader'[q].pc = "done" /\ reader'[q].kind = kind /\ reader'[q].run = r
        /\ reader'[q].since = receipts /\ reader'[q].value = Source(kind, r)
        /\ UNCHANGED <<cache, version>>
    BY Zenon, <1>1, <1>5 DEF SourceOnly, NoRequest, OnlyReader
  <2>2. receipts \cap Relevant(kind, r) \subseteq Source(kind, r)
    BY Zenon, SourceShows DEF AnnouncedAreCreated
  <2> QED
    BY Zenon, <2>1, <2>2 DEF Bypasses
<1> QED
  BY Zenon, <1>2, <1>3, <1>4, <1>5

LEMMA ReaderShapes ==
    ASSUME PipelineInv, NEW q \in Readers, ReaderStep(q)
    PROVE  \/ Moves(q) \/ Retokens(q) \/ Reads(q) \/ Installs(q) \/ Finds(q) \/ Stores(q)
           \/ Returns(q) \/ GivesUp(q)
<1>1. /\ reader \in [Readers -> ReaderRec] /\ reader[q] \in ReaderRec /\ version \in [Cursor -> Nat]
      /\ ReaderGood(q)
  BY Zenon DEF PipelineInv, TypeInv, ReaderType, RowsType
<1>2. ASSUME NEW v, Return(q, v), UNCHANGED version PROVE Answers(q, v)
  <2>1. reader'[q] = [reader[q] EXCEPT !.pc = "done", !.value = v]
    BY Zenon, <1>2 DEF Return
  <2>2. ASSUME NEW p \in Readers, reader'[p] = [reader[p] EXCEPT !.pc = "done", !.value = v]
        PROVE  /\ reader'[p].pc = "done" /\ reader'[p].value = v /\ SameRequest(p)
               /\ reader'[p].joined = reader[p].joined
    BY ZenonT(30), <1>1, <2>2 DEF SameRequest, ReaderRec
  <2>3. \A p \in Readers \ {q} :
           reader'[p] = reader[p] \/ (p \in Waiting(q) /\ reader'[p] = [reader[p] EXCEPT !.pc = "done", !.value = v])
    BY Zenon, <1>2 DEF Return
  <2> QED
    BY ZenonT(30), <1>2, <2>1, <2>2, <2>3 DEF Answers
<1>3. ASSUME NEW pc \in {"do", "fill", "fillRead", "projection", "source"}, Step(q, pc), ~Free(q),
             UNCHANGED <<cache, version>>
      PROVE  Moves(q)
  BY Zenon, <1>1, <1>3 DEF Step, Moves, OnlyReader, SameRequest, ReaderRec
<1>4. CASE CacheHit(q)
  <2>1. reader'[q].pc = "done" /\ reader'[q].value = cache[DataKey(q)] /\ SameRequest(q) /\ OnlyReader(q)
    BY Zenon, <1>1, <1>4 DEF CacheHit, SameRequest, OnlyReader, ReaderRec
  <2>2. Answers(q, cache[DataKey(q)])
    BY Zenon, <1>4, <2>1 DEF Answers, OnlyReader, CacheHit
  <2> QED
    BY Zenon, <1>4, <2>2 DEF Finds, CacheHit, Free
<1>5. CASE CacheMiss(q) \/ FillMiss(q)
  BY Zenon, <1>3, <1>5 DEF CacheMiss, FillMiss, Free
<1>6. CASE CoalescerDo(q)
  <2>1. CASE Step(q, "fill")
    BY Zenon, <1>3, <1>6, <2>1 DEF CoalescerDo, Free
  <2>2. CASE reader' = [reader EXCEPT ![q].pc = "wait", ![q].joined = TRUE]
    BY Zenon, <1>1, <1>6, <2>2 DEF CoalescerDo, Moves, OnlyReader, SameRequest, ReaderRec, Free
  <2> QED
    BY Zenon, <1>6, <2>1, <2>2 DEF CoalescerDo
<1>7. CASE FillVersion(q)
  <2>1. CASE reader[q].kind = "search"
    BY Zenon, <1>3, <1>7, <2>1 DEF FillVersion, Free
  <2>2. CASE reader[q].kind # "search"
    <3>1. PICK token \in {0, version[reader[q].run]} :
             reader' = [reader EXCEPT ![q].token = token,
                                      ![q].pc = IF token = 0 THEN "source" ELSE "fillRead"]
      BY Zenon, <1>7, <2>2 DEF FillVersion
    <3>2. reader'[q].token = token /\ reader'[q].pc \in {"source", "fillRead"} /\ OnlyReader(q) /\ SameRequest(q)
      BY Zenon, <1>1, <3>1 DEF OnlyReader, SameRequest, ReaderRec
    <3> QED
      BY Zenon, <1>1, <1>7, <2>2, <3>2 DEF Retokens, FillVersion, Free, ReaderRec
  <2> QED
    BY Zenon, <2>1, <2>2
<1>8. CASE FillHit(q)
  BY Zenon, <1>2, <1>8 DEF FillHit, Finds, Free
<1>9. CASE SearchProjection(q)
  <2>1. CASE Step(q, "source")
    BY Zenon, <1>3, <1>9, <2>1 DEF SearchProjection, Free
  <2>2. CASE ~Step(q, "source")
    <3>1. /\ ProjectionAvailable /\ reader[q].pc = "projection" /\ UNCHANGED <<cache, version>>
          /\ reader' = [reader EXCEPT ![q].pc = "write", ![q].value = projection[reader[q].run]]
      BY Zenon, <1>9, <2>2 DEF SearchProjection
    <3>2. reader[q].run \in Runs /\ Exists(reader[q].run) /\ reader[q].kind = "search" /\ ~Free(q)
      BY Zenon, <1>1, <3>1 DEF ReaderGood, Free
    <3>3. projection[reader[q].run] = Source("search", reader[q].run)
      BY Zenon, <3>1, <3>2, GateIsEnough DEF ProjectionCurrent, Source
    <3>4. /\ OnlyReader(q) /\ SameRequest(q) /\ reader'[q].pc = "write" /\ reader'[q].token = reader[q].token
          /\ reader'[q].value = projection[reader[q].run]
      BY Zenon, <1>1, <3>1 DEF OnlyReader, SameRequest, ReaderRec
    <3> QED
      BY Zenon, <3>1, <3>2, <3>3, <3>4, SourceShows DEF Reads
  <2> QED
    BY Zenon, <2>1, <2>2
<1>10. CASE ReadSource(q) \/ RereadSource(q)
  <2>1. /\ OnlyReader(q) /\ SameRequest(q) /\ reader'[q].pc \in {"write", "install"}
        /\ reader'[q].token = reader[q].token /\ ~Free(q) /\ UNCHANGED <<cache, version>>
    BY <1>1, <1>10 DEF ReadSource, RereadSource, OnlyReader, SameRequest, ReaderRec, Free
  <2>2. CASE ReadSource(q)
    <3>1. reader'[q].value = Source(reader[q].kind, reader[q].run) /\ reader[q].kind \in {"search", "availability"}
      BY Zenon, <1>1, <2>2 DEF ReadSource, ReaderRec
    <3> QED
      BY Zenon, <2>1, <3>1, SourceShows DEF Reads
  <2>3. CASE RereadSource(q)
    <3>1. reader'[q].value = Seats(reader[q].run)
      BY Zenon, <1>1, <2>3 DEF RereadSource, ReaderRec
    <3>2. reader[q].kind = "availability"
      BY Zenon, <1>1, <2>1, <2>3 DEF RereadSource, ReaderGood
    <3>3. reader'[q].value = Source(reader[q].kind, reader[q].run)
      BY Zenon, <3>1, <3>2 DEF Source
    <3> QED
      BY Zenon, <2>1, <3>2, <3>3, SourceShows DEF Reads
  <2> QED
    BY Zenon, <1>10, <2>2, <2>3
<1>11. CASE InstallVersion(q)
  <2>1. reader[q].pc = "install" /\ ~Free(q) /\ reader[q].kind = "availability" /\ reader[q].run \in Runs
        /\ UNCHANGED cache
    BY Zenon, <1>1, <1>11 DEF InstallVersion, Free, ReaderGood
  <2>2. /\ OnlyReader(q) /\ SameRequest(q) /\ reader'[q].value = reader[q].value
        /\ reader'[q].token = version'[reader[q].run]
        /\ reader'[q].pc = IF version[reader[q].run] = 0 THEN "write" ELSE "reread"
    BY Zenon, <1>1, <1>11 DEF InstallVersion, OnlyReader, SameRequest, ReaderRec
  <2>3. CASE version[reader[q].run] = 0
    <3>1. version' = [version EXCEPT ![reader[q].run] = 1] /\ reader[q].run \in Cursor
      BY Zenon, <1>11, <2>1, <2>3, RunsFacts DEF InstallVersion
    <3>2. version'[reader[q].run] = 1
      BY Zenon, <1>1, <3>1
    <3> QED
      BY SMTT(30), <2>1, <2>2, <2>3, <3>1, <3>2 DEF Installs
  <2>4. CASE version[reader[q].run] # 0
    <3>1. version' = version
      BY Zenon, <1>11, <2>4 DEF InstallVersion
    <3> QED
      BY Zenon, <2>1, <2>2, <2>4, <3>1 DEF Retokens
  <2> QED
    BY Zenon, <2>3, <2>4
<1>12. CASE WriteCache(q)
  BY Zenon, <1>2, <1>12 DEF WriteCache, Stores
<1>13. CASE WriteError(q)
  BY Zenon, <1>2, <1>13 DEF WriteError, Returns
<1>14. CASE SourceError(q)
  BY Zenon, <1>14 DEF SourceError, GivesUp, NoRequest
<1> QED
  BY Zenon, <1>4, <1>5, <1>6, <1>7, <1>8, <1>9, <1>10, <1>11, <1>12, <1>13, <1>14 DEF ReaderStep

-----------------------------------------------------------------------------
(* Once no reader of a namespace can miss an event, none ever does. *)

LEMMA ReaderFacts ==
    ASSUME TypeInv, NEW q \in Readers, ~Free(q)
    PROVE  /\ reader[q].run \in Runs /\ reader[q].run # Search /\ Namespace(q) \in Cursor
           /\ reader[q].token \in Nat /\ version[Namespace(q)] \in Nat
           /\ reader[q].token <= version[Namespace(q)]
           /\ reader[q].kind = KindOf(Namespace(q))
           /\ Namespace(q) = Search \/ Namespace(q) = reader[q].run
           /\ reader[q].kind = "availability" => Namespace(q) = reader[q].run
<1>1. reader[q] \in ReaderRec /\ ReaderGood(q) /\ version \in [Cursor -> Nat]
  BY Zenon DEF TypeInv, ReaderType, RowsType
<1>2. reader[q].run \in Runs /\ reader[q].token <= version[Namespace(q)] /\ reader[q].token \in Nat
  BY Zenon, <1>1 DEF ReaderGood, ReaderRec
<1>3. reader[q].run # Search
  BY Zenon, <1>2, RunsFacts DEF Search
<1>4. Namespace(q) \in Cursor
  BY Zenon, <1>2, RunsFacts DEF Namespace
<1> QED
  BY Zenon, <1>1, <1>2, <1>3, <1>4 DEF Namespace, KindOf, ReaderRec

\* A reader that has not moved shows what it showed.
LEMMA ReaderStillShows ==
    ASSUME TypeInv, NEW p \in Readers, NEW ns \in Cursor, NEW r \in Runs, NEW e,
           version[ns] <= version'[ns], version'[ns] \in Nat,
           ReaderShows(p, e, ns, r), reader'[p] = reader[p] \/ reader'[p].pc \notin {"write", "install"}
    PROVE  ReaderShows(p, e, ns, r)'
<1>1. CASE reader'[p].pc \notin {"write", "install"}
  BY Zenon, <1>1 DEF ReaderShows
<1>2. CASE reader'[p] = reader[p]
  <2>1. Namespace(p)' = Namespace(p) /\ version[ns] \in Nat
    BY Zenon, <1>2 DEF Namespace, TypeInv, RowsType
  <2>2. CASE version'[ns] = version[ns]
    BY Zenon, <1>2, <2>1, <2>2 DEF ReaderShows
  <2>3. CASE version[ns] < version'[ns]
    <3>1. version'[ns] # 0
      BY <2>1, <2>3
    <3>2. ASSUME reader[p].pc = "write", Namespace(p) = ns PROVE reader[p].token # version'[ns]
      <4>1. reader[p].token \in Nat /\ reader[p].token <= version[ns]
        BY Zenon, <3>2, ReaderFacts DEF Free
      <4> QED
        BY <2>1, <2>3, <4>1
    <3> QED
      BY Zenon, <1>2, <2>1, <3>1, <3>2 DEF ReaderShows
  <2> QED
    BY <2>1, <2>2, <2>3
<1> QED
  BY Zenon, <1>1, <1>2

\* A token that has just been given to a namespace has no entries.
LEMMA NewTokenIsEmpty ==
    ASSUME TypeInv, KeysAreKnown, UNCHANGED cache, NEW ns \in Cursor, version[ns] < version'[ns],
           version'[ns] \in Nat, NEW e, NEW r
    PROVE  CacheShows(e, ns, r)'
<1>1. ASSUME NEW k \in DOMAIN cache, k = <<ns, version'[ns], r>> PROVE FALSE
  <2>1. k[2] = version'[ns] /\ k[1] = ns /\ version[ns] \in Nat
    BY Zenon, <1>1 DEF TypeInv, RowsType
  <2>2. version'[ns] <= version[ns]
    BY Zenon, <2>1 DEF KeysAreKnown
  <2> QED
    BY <2>1, <2>2
<1> QED
  BY Zenon, <1>1 DEF CacheShows

LEMMA CacheStillShows ==
    ASSUME TypeInv, KeysAreKnown, UNCHANGED cache, NEW ns \in Cursor, version[ns] <= version'[ns],
           version'[ns] \in Nat, NEW e, NEW r, CacheShows(e, ns, r)
    PROVE  CacheShows(e, ns, r)'
<1>1. version[ns] \in Nat
  BY Zenon DEF TypeInv, RowsType
<1>2. CASE version'[ns] = version[ns]
  BY Zenon, <1>2 DEF CacheShows
<1>3. CASE version[ns] < version'[ns]
  BY Zenon, <1>3, NewTokenIsEmpty
<1> QED
  BY <1>1, <1>2, <1>3

\* Giving a namespace a new token leaves nothing old behind.
LEMMA RotateFreshens ==
    ASSUME TypeInv, KeysAreKnown, NEW ns \in Cursor, Rotate(ns), UNCHANGED <<cache, reader>>,
           NEW e, NEW r \in Runs
    PROVE  Fresh(e, ns, r)'
<1>1. version[ns] < version'[ns] /\ version'[ns] \in Nat /\ version'[ns] # 0 /\ version[ns] \in Nat
  BY DEF Rotate, TypeInv, RowsType
<1>2. CacheShows(e, ns, r)'
  BY Zenon, <1>1, NewTokenIsEmpty
<1>3. ASSUME NEW p \in Readers, reader[p].pc = "write", Namespace(p) = ns PROVE reader[p].token # version'[ns]
  <2>1. reader[p].token \in Nat /\ reader[p].token <= version[ns]
    BY Zenon, <1>3, ReaderFacts DEF Free
  <2> QED
    BY <1>1, <2>1
<1>4. \A p \in Readers : ReaderShows(p, e, ns, r)'
  BY Zenon, <1>1, <1>3 DEF ReaderShows, Namespace
<1> QED
  BY Zenon, <1>2, <1>4 DEF Fresh

\* Only requests touch the caches, only consumers the rows of events.
LEMMA CachesTouched ==
    ASSUME TypeInv, [Next]_vars
    PROVE  UNCHANGED <<cache, reader>> \/ \E q \in Readers : Request(q) \/ ReaderStep(q)
<1>1. ASSUME NEW x \in Events, CommitChange(x) PROVE UNCHANGED <<cache, reader>>
  BY Zenon, <1>1 DEF CommitChange, cacheVars
<1>2. ASSUME NEW w \in Relays,
             \/ RelayClaim(w) \/ RelayPublish(w) \/ RelayPublishFails(w)
             \/ RelayFinalize(w) \/ RelayStops(w)
      PROVE  UNCHANGED <<cache, reader>>
  BY Zenon, <1>2 DEF RelayClaim, RelayPublish, RelayPublishFails, RelayFinalize, RelayStops, cacheVars
<1>3. ASSUME NEW c \in Consumers, ConsumerReceive(c) \/ ConsumerStep(c) \/ ConsumerFails(c)
      PROVE  UNCHANGED <<cache, reader>>
  BY Zenon, <1>3, ConsumerTypes DEF ConsumerFrame
<1>4. ASSUME NEW a \in Admins, AdminStarts(a) \/ AdminStep(a) \/ AdminFails(a) PROVE UNCHANGED <<cache, reader>>
  BY Zenon, <1>4, AdminTypes DEF AdminFrame
<1> QED
  BY Zenon, <1>1, <1>2, <1>3, <1>4 DEF Next, vars

LEMMA EventsTouched ==
    ASSUME TypeInv, [Next]_vars
    PROVE  \/ UNCHANGED <<consumer, progress, receipts>>
           \/ \E c \in Consumers : ConsumerReceive(c) \/ ConsumerStep(c) \/ ConsumerFails(c)
<1>1. ASSUME NEW x \in Events, CommitChange(x) PROVE UNCHANGED <<consumer, progress, receipts>>
  BY Zenon, <1>1 DEF CommitChange, readModelVars
<1>2. ASSUME NEW w \in Relays,
             \/ RelayClaim(w) \/ RelayPublish(w) \/ RelayPublishFails(w)
             \/ RelayFinalize(w) \/ RelayStops(w)
      PROVE  UNCHANGED <<consumer, progress, receipts>>
  BY Zenon, <1>2, RelayTypes
<1>3. ASSUME NEW q \in Readers, Request(q) \/ ReaderStep(q) PROVE UNCHANGED <<consumer, progress, receipts>>
  BY Zenon, <1>3, RequestTypes, ReaderStepTypes DEF ReaderFrame
<1>4. ASSUME NEW a \in Admins, AdminStarts(a) \/ AdminStep(a) \/ AdminFails(a)
      PROVE  UNCHANGED <<consumer, progress, receipts>>
  BY Zenon, <1>4, AdminTypes DEF AdminFrame
<1> QED
  BY Zenon, <1>1, <1>2, <1>3, <1>4 DEF Next, vars

LEMMA FreshStays ==
    ASSUME PipelineInv, KeysAreKnown, [Next]_vars, NEW ns \in Cursor, NEW r \in Runs,
           ns = Search \/ ns = r, NEW e \in Created \cap Relevant(KindOf(ns), r), Fresh(e, ns, r)
    PROVE  Fresh(e, ns, r)'
<1>1. TypeInv /\ TypeInv' /\ Grows
  BY Zenon, TypeStep DEF PipelineInv
<1>2. version[ns] <= version'[ns] /\ version'[ns] \in Nat /\ version[ns] \in Nat
  BY Zenon, <1>1 DEF Grows, TypeInv, RowsType
<1>3. CacheShows(e, ns, r) /\ \A p \in Readers : ReaderShows(p, e, ns, r)
  BY Zenon DEF Fresh
<1>4. ASSUME UNCHANGED cache PROVE CacheShows(e, ns, r)'
  BY Zenon, <1>1, <1>2, <1>3, <1>4, CacheStillShows
<1>5. ASSUME NEW p \in Readers, reader'[p] = reader[p] \/ reader'[p].pc \notin {"write", "install"}
      PROVE  ReaderShows(p, e, ns, r)'
  BY Zenon, <1>1, <1>2, <1>3, <1>5, ReaderStillShows
<1>6. ASSUME UNCHANGED <<cache, reader>> PROVE Fresh(e, ns, r)'
  BY Zenon, <1>4, <1>5, <1>6 DEF Fresh
<1>7. ASSUME NEW q \in Readers, Request(q) \/ ReaderStep(q) PROVE Fresh(e, ns, r)'
  <2>1. \/ Asks(q) \/ Bypasses(q) \/ Moves(q) \/ Retokens(q) \/ Reads(q) \/ Installs(q)
        \/ Finds(q) \/ Stores(q) \/ Returns(q) \/ GivesUp(q)
    BY ZenonT(30), <1>1, <1>7, RequestShapes, ReaderShapes DEF PipelineInv
  <2>2. \A p \in Readers \ {q} : reader'[p] = reader[p] \/ reader'[p].pc \notin {"write", "install"}
    BY Zenon, <2>1 DEF Asks, Bypasses, Moves, Retokens, Reads, Installs, Finds, Stores, Returns, GivesUp,
                OnlyReader, Answers
  <2>3. CASE Asks(q) \/ Bypasses(q) \/ Moves(q) \/ Retokens(q) \/ Finds(q) \/ Returns(q) \/ GivesUp(q)
    <3>1. UNCHANGED cache /\ (reader'[q] = reader[q] \/ reader'[q].pc \notin {"write", "install"})
      BY Zenon, <2>3 DEF Asks, Bypasses, Moves, Retokens, Finds, Returns, GivesUp, Answers
    <3> QED
      BY Zenon, <1>4, <1>5, <2>2, <3>1 DEF Fresh
  <2>4. CASE Reads(q)
    <3>1. ASSUME Namespace(q)' = ns, reader'[q].run = r PROVE e \in reader'[q].value
      <4>1. reader[q].run = r /\ Namespace(q) = ns /\ ~Free(q)
        BY Zenon, <2>4, <3>1 DEF Reads, SameRequest, Namespace
      <4>2. reader[q].kind = KindOf(ns)
        BY Zenon, <1>1, <4>1, ReaderFacts
      <4> QED
        BY Zenon, <2>4, <4>1, <4>2 DEF Reads
    <3>2. ReaderShows(q, e, ns, r)'
      BY Zenon, <3>1 DEF ReaderShows
    <3> QED
      BY Zenon, <1>4, <1>5, <2>2, <2>4, <3>2 DEF Fresh, Reads
  <2>5. CASE Installs(q)
    <3>1. ~Free(q) /\ Namespace(q) = reader[q].run /\ Namespace(q)' = Namespace(q) /\ reader'[q].run = reader[q].run
      BY Zenon, <1>1, <2>5, ReaderFacts DEF Installs, Free, SameRequest, Namespace
    <3>2. ReaderShows(q, e, ns, r)
      BY Zenon, <1>3
    <3>3. ReaderShows(q, e, ns, r)'
      BY Zenon, <2>5, <3>1, <3>2 DEF ReaderShows, Installs
    <3> QED
      BY SMTT(30), <1>4, <1>5, <2>2, <2>5, <3>3 DEF Fresh, Installs
  <2>6. CASE Stores(q)
    <3>1. reader'[q].pc = "done" /\ version' = version
      BY Zenon, <2>6 DEF Stores, Answers
    <3>2. ASSUME NEW k \in DOMAIN cache', k = <<ns, version[ns], r>> PROVE e \in cache'[k]
      <4>1. CASE k = DataKey(q)
        <5>1. Namespace(q) = ns /\ reader[q].token = version[ns] /\ reader[q].run = r
          BY <3>2, <4>1 DEF DataKey
        <5>2. e \in reader[q].value
          BY Zenon, <1>3, <2>6, <5>1 DEF ReaderShows, Stores
        <5> QED
          BY Zenon, <2>6, <3>2, <4>1, <5>2 DEF Stores
      <4>2. CASE k # DataKey(q)
        <5>1. k \in DOMAIN cache /\ cache'[k] = cache[k]
          BY Zenon, <2>6, <3>2, <4>2 DEF Stores
        <5> QED
          BY Zenon, <1>3, <3>2, <5>1 DEF CacheShows
      <4> QED
        BY Zenon, <4>1, <4>2
    <3>3. CacheShows(e, ns, r)'
      BY Zenon, <3>1, <3>2 DEF CacheShows
    <3> QED
      BY Zenon, <1>5, <2>2, <3>1, <3>3 DEF Fresh
  <2> QED
    BY <2>1, <2>3, <2>4, <2>5, <2>6
<1> QED
  BY Zenon, <1>1, <1>6, <1>7, CachesTouched

-----------------------------------------------------------------------------
(* An event's namespaces are rotated before its row goes on. *)

LEMMA KeysStep ==
    ASSUME PipelineInv, KeysAreKnown, [Next]_vars
    PROVE  KeysAreKnown'
<1>1. TypeInv /\ TypeInv' /\ Grows
  BY Zenon, TypeStep DEF PipelineInv
<1>2. ASSUME NEW k \in DOMAIN cache
      PROVE  k[2] <= version'[k[1]] /\ (k[1] = Search \/ k[1] = k[3])
  <2>1. k[1] \in Cursor /\ k[2] \in Nat
    BY Zenon, <1>1 DEF TypeInv, CachedType
  <2>2. k[2] <= version[k[1]] /\ version[k[1]] \in Nat /\ version'[k[1]] \in Nat /\ version[k[1]] <= version'[k[1]]
    BY Zenon, <1>1, <2>1 DEF KeysAreKnown, TypeInv, RowsType, Grows
  <2> QED
    BY <2>1, <2>2 DEF KeysAreKnown
<1>3. CASE UNCHANGED cache
  BY Zenon, <1>2, <1>3 DEF KeysAreKnown
<1>4. ASSUME NEW q \in Readers, Stores(q) PROVE KeysAreKnown'
  <2>1. ~Free(q) /\ version' = version
    BY Zenon, <1>4 DEF Stores, Free, Answers
  <2>2. /\ DataKey(q)[2] <= version[DataKey(q)[1]]
        /\ DataKey(q)[1] = Search \/ DataKey(q)[1] = DataKey(q)[3]
    BY Zenon, <1>1, <2>1, ReaderFacts DEF DataKey
  <2>3. \A k \in DOMAIN cache' : k \in DOMAIN cache \/ k = DataKey(q)
    BY Zenon, <1>4 DEF Stores
  <2> QED
    BY Zenon, <1>2, <2>1, <2>2, <2>3 DEF KeysAreKnown
<1>5. ASSUME NEW q \in Readers, Request(q) \/ ReaderStep(q) PROVE KeysAreKnown'
  <2>1. UNCHANGED cache \/ Stores(q)
    BY Zenon, <1>1, <1>5, RequestShapes, ReaderShapes
    DEF PipelineInv, Asks, Bypasses, Moves, Retokens, Reads, Installs, Finds, Returns, GivesUp
  <2> QED
    BY Zenon, <1>3, <1>4, <2>1
<1> QED
  BY Zenon, <1>1, <1>3, <1>5, CachesTouched

LEMMA SearchStep ==
    ASSUME PipelineInv, CachedInv, [Next]_vars
    PROVE  SearchRotated'
<1>1. TypeInv /\ Grows /\ AnnouncedAreCreated /\ AppliedInv /\ KeysAreKnown /\ SearchRotated
  BY Zenon, TypeStep DEF PipelineInv, CachedInv
<1>2. ASSUME NEW e \in Created \cap ProjectionEvents, NEW r \in Impact[e], Fresh(e, Search, r)
      PROVE  Fresh(e, Search, r)'
  <2>1. r \in Runs /\ Search \in Cursor /\ KindOf(Search) = "search" /\ e \in Relevant("search", r)
    BY Zenon, EventKindsAssumption, ImpactAssumption, RunsFacts DEF KindOf, Relevant
  <2> QED
    BY Zenon, <1>1, <1>2, <2>1, FreshStays
<1>3. ASSUME NEW e \in ProjectionEvents, e \in receipts \/ progress[e].phase \in {"processing", "finalizing"},
             NEW r \in Impact[e]
      PROVE  Fresh(e, Search, r) /\ e \in Created
  <2>1. e \in Created
    BY Zenon, <1>1, <1>3, EventKindsAssumption DEF AnnouncedAreCreated
  <2> QED
    BY Zenon, <1>1, <1>3, <2>1 DEF SearchRotated
<1>4. ASSUME NEW c \in Consumers, NEW m \in consumer[c].todo, At(c, m, {"mark"}), NEW e, e = stream[m],
             e \in ProjectionEvents, NEW r \in Impact[e]
      PROVE  Fresh(e, Search, r)'
  <2>1. e \in Created
    BY Zenon, <1>1, <1>4, MessageFacts DEF AnnouncedAreCreated
  <2>2. Fresh(e, Search, r)
    BY Zenon, <1>1, <1>4 DEF SearchRotated
  <2> QED
    BY Zenon, <1>2, <1>4, <2>1, <2>2
<1>5. CASE UNCHANGED <<consumer, progress, receipts>>
  <2>1. ASSUME NEW c \in Consumers, NEW m \in consumer'[c].todo, At(c, m, {"mark"})',
               NEW e, e = stream'[m], e \in ProjectionEvents, NEW r \in Impact[e]
        PROVE  Fresh(e, Search, r)'
    <3>1. m \in consumer[c].todo /\ stream'[m] = stream[m] /\ At(c, m, {"mark"})
      BY Zenon, <1>1, <1>5, <2>1, SameConsumer
    <3> QED
      BY Zenon, <1>4, <2>1, <3>1
  <2>2. ASSUME NEW e \in ProjectionEvents, e \in receipts' \/ progress'[e].phase \in {"processing", "finalizing"},
               NEW r \in Impact[e]
        PROVE  Fresh(e, Search, r)'
    BY Zenon, <1>2, <1>3, <1>5, <2>2
  <2> QED
    BY Zenon, <2>1, <2>2 DEF SearchRotated
<1>6. ASSUME NEW c \in Consumers, ConsumerReceive(c) \/ ConsumerStep(c) \/ ConsumerFails(c)
      PROVE  SearchRotated'
  <2>1. /\ OthersSame(c) /\ UNCHANGED <<cache, reader>> /\ consumer \in [Consumers -> ConsumerRec]
        /\ progress \in [Events -> [phase : Phases, after : Cursor]]
    BY Zenon, <1>1, <1>6, ConsumerTypes, ConsumerShapes DEF ConsumerFrame, TypeInv, ConsumerType, RowsType
  <2>2. ASSUME NEW d \in Consumers \ {c}, NEW m \in consumer'[d].todo, At(d, m, {"mark"})',
               NEW e, e = stream'[m], e \in ProjectionEvents, NEW r \in Impact[e]
        PROVE  Fresh(e, Search, r)'
    <3>1. m \in consumer[d].todo /\ stream'[m] = stream[m] /\ At(d, m, {"mark"})
      BY Zenon, <1>1, <2>1, <2>2, SameConsumer DEF OthersSame
    <3> QED
      BY Zenon, <1>4, <2>2, <3>1
  <2>3. ASSUME NEW n \in consumer'[c].todo, At(c, n, {"mark"})',
               NEW e, e = stream'[n], e \in ProjectionEvents, NEW r \in Impact[e]
        PROVE  Fresh(e, Search, r)'
    <3>1. PICK m \in consumer[c].todo : Current(c, m) /\ Rotated(c, stream[m])
      <4>1. consumer'[c].pc = "mark"
        BY Zenon, <2>3 DEF At
      <4>2. PICK m \in consumer[c].todo :
                /\ Current(c, m)
                /\ \/ Rotated(c, stream[m])
                   \/ Resolved(c, stream[m]) \/ RunRotated(c) \/ RunsRotated(c) \/ PageLocked(c, stream[m])
        BY Zenon, <1>1, <1>6, <4>1, ConsumerShapes DEF Quiet, Started, Invalidated, PageCommitted, Completed, Working
      <4>3. ~Resolved(c, stream[m])
        BY <2>1, <4>1 DEF Resolved, ConsumerRec
      <4>4. ~RunRotated(c) /\ ~RunsRotated(c)
        BY <2>1, <4>1 DEF RunRotated, RunsRotated, ConsumerRec
      <4>5. ~PageLocked(c, stream[m])
        BY <2>1, <4>1 DEF PageLocked, ConsumerRec
      <4> QED
        BY Zenon, <4>2, <4>3, <4>4, <4>5
    <3>2. consumer'[c].todo = consumer[c].todo
      BY Zenon, <2>1, <3>1 DEF Rotated, ConsumerRec
    <3>3. n \in consumer[c].todo /\ Current(c, n) /\ stream'[n] = stream[n]
      BY Zenon, <1>1, <2>3, <3>2, MessageFacts DEF At, Current, Grows
    <3>4. n = m
      BY Zenon, <1>1, <3>1, <3>3, OneCurrent
    <3>5. Rotate(Search) /\ r \in Runs /\ Search \in Cursor
      BY Zenon, <2>3, <3>1, <3>3, <3>4, EventKindsAssumption, ImpactAssumption, RunsFacts DEF Rotated
    <3> QED
      BY SMTT(30), <1>1, <2>1, <3>5, RotateFreshens
  <2>4. ASSUME NEW e \in ProjectionEvents, e \in receipts' \/ progress'[e].phase \in {"processing", "finalizing"},
               NEW r \in Impact[e]
        PROVE  Fresh(e, Search, r)'
    <3>1. e \in Events
      BY Zenon, EventKindsAssumption
    <3>2. CASE e \in receipts \/ progress[e].phase \in {"processing", "finalizing"}
      BY Zenon, <1>2, <1>3, <3>2
    <3>3. CASE ~(e \in receipts \/ progress[e].phase \in {"processing", "finalizing"})
      <4>1. ~(progress'[e] = progress[e] /\ (e \in receipts' => e \in receipts))
        BY ZenonT(30), <2>4, <3>3
      <4>2. PICK m \in consumer[c].todo :
               /\ Current(c, m)
               /\ \/ Started(c, stream[m]) \/ Invalidated(c, stream[m])
                  \/ PageCommitted(c, stream[m]) \/ Completed(c, stream[m])
        BY Zenon, <1>1, <1>6, <4>1, ConsumerShapes
        DEF Quiet, Rotated, Resolved, RunRotated, RunsRotated, PageLocked
      <4>3. stream[m] \in Events
        BY Zenon, <1>1, MessageFacts
      <4>4. stream[m] = e
        BY Zenon, <2>1, <3>1, <4>1, <4>2, <4>3 DEF Started, Invalidated, PageCommitted, Completed
      <4>5. ~Started(c, e)
        BY SMTT(30), <2>1, <2>4, <3>1, <3>3 DEF Started
      <4>6. ~Completed(c, e)
        BY Zenon, <3>3 DEF Completed
      <4>7. ~PageCommitted(c, e)
        <5>1. PageCommitted(c, e) => At(c, m, {"commit"})
          BY Zenon, <4>2 DEF PageCommitted, At
        <5>2. At(c, m, {"commit"}) => progress[e].phase = "processing"
          <6>1. At(c, m, {"commit"}) => progress[stream[m]] = [phase |-> "processing", after |-> consumer[c].after]
            BY Zenon, <1>1 DEF AppliedInv, CommitsAreCurrent
          <6> QED
            BY <4>4, <6>1
        <5> QED
          BY Zenon, <3>3, <5>1, <5>2
      <4>8. At(c, m, {"mark"})
        BY Zenon, <4>2, <4>4, <4>5, <4>6, <4>7 DEF Invalidated, At
      <4> QED
        BY Zenon, <1>4, <4>4, <4>8
    <3> QED
      BY Zenon, <3>2, <3>3
  <2> QED
    BY <2>2, <2>3, <2>4 DEF SearchRotated
<1> QED
  BY Zenon, <1>1, <1>5, <1>6, EventsTouched

LEMMA AvailabilityStep ==
    ASSUME PipelineInv, CachedInv, [Next]_vars
    PROVE  AvailabilityRotated' /\ AvailabilityCursors'
<1> DEFINE Passing == {"rotateRuns", "process", "commit"}
           Done(e, r) == \/ e \in receipts \/ progress[e].phase = "finalizing"
                         \/ progress[e].phase = "processing" /\ r <= progress[e].after
<1>1. TypeInv /\ Grows /\ AnnouncedAreCreated /\ AppliedInv /\ KeysAreKnown /\ AvailabilityRotated /\ AvailabilityCursors
  BY Zenon, TypeStep DEF PipelineInv, CachedInv
<1>2. ASSUME NEW e \in Created \cap AvailabilityEvents, NEW r \in Need(e), Fresh(e, r, r)
      PROVE  Fresh(e, r, r)'
  <2>1. r \in Runs /\ r \in Impact[e]
    BY Zenon, EventKindsAssumption, ImpactAssumption DEF Need
  <2>2. r \in Cursor /\ KindOf(r) = "availability" /\ e \in Relevant("availability", r)
    BY Zenon, <2>1, RunsFacts DEF KindOf, Relevant, Search
  <2> QED
    BY Zenon, <1>1, <1>2, <2>1, <2>2, FreshStays
<1>3. ASSUME NEW e \in AvailabilityEvents, NEW r \in Need(e), Done(e, r)
      PROVE  Fresh(e, r, r)'
  <2>1. e \in Created
    BY Zenon, <1>1, <1>3, EventKindsAssumption DEF AnnouncedAreCreated
  <2>2. Fresh(e, r, r)
    BY Zenon, <1>1, <1>3 DEF AvailabilityRotated
  <2> QED
    BY Zenon, <1>2, <2>1, <2>2
<1>4. ASSUME NEW c \in Consumers, NEW m \in consumer[c].todo, At(c, m, Passing), NEW e, e = stream[m],
             e \in AvailabilityEvents, NEW r \in (Need(e) \cap consumer[c].page) \ consumer[c].left
      PROVE  Fresh(e, r, r)'
  <2>1. e \in Created
    BY Zenon, <1>1, <1>4, MessageFacts DEF AnnouncedAreCreated
  <2>2. Fresh(e, r, r)
    BY Zenon, <1>1, <1>4 DEF AvailabilityRotated
  <2> QED
    BY Zenon, <1>2, <1>4, <2>1, <2>2
<1>5. ASSUME NEW c \in Consumers, NEW m \in consumer[c].todo, At(c, m, Passing),
             stream[m] \in AvailabilityEvents, consumer[c].pc # "rotateRuns"
      PROVE  consumer[c].left = {}
  BY Zenon, <1>1, <1>5 DEF AvailabilityRotated
<1>6. CASE UNCHANGED <<consumer, progress, receipts>>
  <2>1. ASSUME NEW c \in Consumers, NEW m \in consumer'[c].todo, At(c, m, Passing)',
               stream'[m] \in AvailabilityEvents
        PROVE  /\ \A r \in (Need(stream'[m]) \cap consumer'[c].page) \ consumer'[c].left :
                      \A e : e = stream'[m] => Fresh(e, r, r)'
               /\ consumer'[c].pc # "rotateRuns" => consumer'[c].left = {}
    <3>1. m \in consumer[c].todo /\ stream'[m] = stream[m] /\ At(c, m, Passing)
      BY Zenon, <1>1, <1>6, <2>1, SameConsumer
    <3> HIDE DEF Passing
    <3> QED
      BY Zenon, <1>4, <1>5, <1>6, <2>1, <3>1
  <2>2. ASSUME NEW e \in AvailabilityEvents, NEW r \in Need(e), Done(e, r)'
        PROVE  Fresh(e, r, r)'
    BY Zenon, <1>3, <1>6, <2>2
  <2>3. AvailabilityRotated'
    BY Zenon, <2>1, <2>2 DEF AvailabilityRotated, Need
  <2>4. AvailabilityCursors'
    BY Zenon, <1>1, <1>6 DEF AvailabilityCursors
  <2> QED
    BY Zenon, <2>3, <2>4
<1>7. ASSUME NEW c \in Consumers, ConsumerReceive(c) \/ ConsumerStep(c) \/ ConsumerFails(c)
      PROVE  AvailabilityRotated' /\ AvailabilityCursors'
  <2>1. /\ OthersSame(c) /\ UNCHANGED <<cache, reader>> /\ consumer \in [Consumers -> ConsumerRec]
        /\ progress \in [Events -> [phase : Phases, after : Cursor]]
    BY ZenonT(30), <1>1, <1>7, ConsumerTypes, ConsumerShapes DEF ConsumerFrame, TypeInv, ConsumerType, RowsType
  <2>2. ASSUME NEW d \in Consumers \ {c}, NEW m \in consumer'[d].todo, At(d, m, Passing)',
               stream'[m] \in AvailabilityEvents
        PROVE  /\ \A r \in (Need(stream'[m]) \cap consumer'[d].page) \ consumer'[d].left :
                      \A e : e = stream'[m] => Fresh(e, r, r)'
               /\ consumer'[d].pc # "rotateRuns" => consumer'[d].left = {}
    <3>1. m \in consumer[d].todo /\ stream'[m] = stream[m] /\ At(d, m, Passing) /\ consumer'[d] = consumer[d]
      BY Zenon, <1>1, <2>1, <2>2, SameConsumer DEF OthersSame
    <3> HIDE DEF Passing
    <3> QED
      BY Zenon, <1>4, <1>5, <2>2, <3>1
  <2>3. ASSUME NEW n \in consumer'[c].todo, At(c, n, Passing)', stream'[n] \in AvailabilityEvents
        PROVE  /\ \A r \in (Need(stream'[n]) \cap consumer'[c].page) \ consumer'[c].left :
                      \A e : e = stream'[n] => Fresh(e, r, r)'
               /\ consumer'[c].pc # "rotateRuns" => consumer'[c].left = {}
    <3>1. PICK m \in consumer[c].todo :
             /\ Current(c, m)
             /\ Resolved(c, stream[m]) \/ RunRotated(c) \/ RunsRotated(c) \/ PageLocked(c, stream[m])
      BY ZenonT(30), <1>1, <1>7, <2>1, <2>3, ConsumerShapes
      DEF At, Quiet, Started, Rotated, Invalidated, PageCommitted, Completed, Working, ConsumerRec
    <3>2. consumer'[c].todo = consumer[c].todo
      BY <2>1, <3>1 DEF Resolved, RunRotated, RunsRotated, PageLocked, ConsumerRec
    <3>3. n \in consumer[c].todo /\ Current(c, n) /\ stream'[n] = stream[n]
      BY Zenon, <1>1, <2>3, <3>2, MessageFacts DEF At, Current, Grows
    <3>4. n = m /\ stream'[n] = stream[m]
      BY Zenon, <1>1, <3>1, <3>3, OneCurrent
    <3>5. CASE Resolved(c, stream[m])
      <4>1. consumer'[c].page = consumer'[c].left /\ consumer'[c].pc = "rotateRuns"
        BY SMTT(30), <2>1, <2>3, <3>4, <3>5 DEF Resolved, ConsumerRec
      <4> QED
        BY Zenon, <4>1
    <3>6. CASE RunRotated(c)
      <4>1. PICK x \in consumer[c].left : Rotate(x) /\ consumer' = [consumer EXCEPT ![c].left = @ \ {x}]
        BY Zenon, <3>6 DEF RunRotated
      <4>2. /\ consumer'[c].page = consumer[c].page /\ consumer'[c].left = consumer[c].left \ {x}
            /\ consumer'[c].pc = "rotateRuns" /\ x \in Runs /\ At(c, m, Passing)
        BY SMTT(30), <2>1, <3>1, <3>6, <4>1 DEF RunRotated, ConsumerRec, At
      <4>3. ASSUME NEW r \in (Need(stream'[n]) \cap consumer'[c].page) \ consumer'[c].left, NEW e, e = stream'[n]
            PROVE  Fresh(e, r, r)'
        <5>1. CASE r = x
          BY Zenon, <1>1, <2>1, <4>1, <4>2, <5>1, RotateFreshens, RunsFacts
        <5>2. CASE r # x
          <6>1. r \in (Need(e) \cap consumer[c].page) \ consumer[c].left /\ e = stream[m] /\ e \in AvailabilityEvents
            BY SMTT(30), <2>3, <3>4, <4>2, <4>3, <5>2
          <6> QED
            BY Zenon, <1>4, <4>2, <6>1
        <5> QED
          BY Zenon, <5>1, <5>2
      <4> QED
        BY Zenon, <4>2, <4>3
    <3>7. CASE RunsRotated(c) \/ PageLocked(c, stream[m])
      <4>1. /\ consumer'[c].page = consumer[c].page /\ consumer'[c].left = consumer[c].left
            /\ At(c, m, Passing) /\ (consumer[c].pc = "rotateRuns" => consumer[c].left = {})
        BY SMTT(30), <2>1, <3>1, <3>7 DEF RunsRotated, PageLocked, ConsumerRec, At
      <4>2. consumer[c].left = {}
        BY Zenon, <1>5, <2>3, <3>1, <3>4, <4>1
      <4> HIDE DEF Passing
      <4> QED
        BY Zenon, <1>4, <2>3, <3>1, <3>4, <4>1, <4>2
    <3> QED
      BY SMTT(30), <3>1, <3>5, <3>6, <3>7
  <2>4. ASSUME NEW e \in AvailabilityEvents, NEW r \in Need(e), Done(e, r)'
        PROVE  Fresh(e, r, r)'
    <3>1. e \in Events /\ r \in Runs
      BY Zenon, EventKindsAssumption, ImpactAssumption DEF Need
    <3>2. CASE Done(e, r)
      BY Zenon, <1>3, <3>2
    <3>3. CASE ~Done(e, r)
      <4>1. ~(progress'[e] = progress[e] /\ (e \in receipts' => e \in receipts))
        BY Zenon, <2>4, <3>3
      <4>2. PICK m \in consumer[c].todo :
               /\ Current(c, m)
               /\ \/ Started(c, stream[m]) \/ Invalidated(c, stream[m])
                  \/ PageCommitted(c, stream[m]) \/ Completed(c, stream[m])
        BY Zenon, <1>1, <1>7, <4>1, ConsumerShapes
        DEF Quiet, Rotated, Resolved, RunRotated, RunsRotated, PageLocked
      <4>3. stream[m] \in Events
        BY Zenon, <1>1, MessageFacts
      <4>4. stream[m] = e
        BY SMTT(30), <2>1, <3>1, <4>1, <4>2, <4>3 DEF Started, Invalidated, PageCommitted, Completed
      <4>5. ~Started(c, e)
        BY SMTT(30), <2>1, <2>4, <3>1, <3>3 DEF Started
      <4>6. ~Completed(c, e)
        BY Zenon, <3>3 DEF Completed
      <4>7. ~Invalidated(c, e)
        <5>1. ASSUME Invalidated(c, e) PROVE progress'[e] = [phase |-> "processing", after |-> 0] /\ receipts' = receipts
          <6>1. progress[e].after = 0
            BY Zenon, <1>1, <5>1 DEF Invalidated, AvailabilityCursors
          <6> QED
            BY Zenon, <2>1, <3>1, <5>1, <6>1 DEF Invalidated
        <5> QED
          BY SMTT(30), <2>4, <3>1, <3>3, <5>1, RunsFacts
      <4>8. PageCommitted(c, e)
        BY ZenonT(30), <4>2, <4>4, <4>5, <4>6, <4>7
      <4>9. At(c, m, {"commit"}) /\ At(c, m, Passing) /\ consumer[c] \in ConsumerRec
        BY Zenon, <2>1, <4>2, <4>8 DEF PageCommitted, At
      <4>10. /\ progress[stream[m]] = [phase |-> "processing", after |-> consumer[c].after]
             /\ \A x \in Need(stream[m]) : consumer[c].after < x /\ x <= Last(consumer[c].page, consumer[c].after) =>
                   x \in consumer[c].page
             /\ ~consumer[c].more => \A x \in Need(stream[m]) : consumer[c].after < x => x \in consumer[c].page
        BY Zenon, <1>1, <4>4, <4>9 DEF AppliedInv, CommitsAreCurrent, PagesAreComplete
      <4>11. ~(r <= consumer[c].after)
        BY SMTT(30), <3>3, <4>4, <4>10
      <4>12. consumer[c].after < r
        <5>1. consumer[c].after \in Nat /\ r \in Nat
          BY Zenon, <3>1, <4>9, RunsFacts DEF ConsumerRec
        <5> HIDE DEF Done, Passing
        <5> QED
          BY SMTT(30), <4>11, <5>1
      <4>13. /\ progress'[e].phase = IF consumer[c].more THEN "processing" ELSE "finalizing"
             /\ progress'[e].after = Last(consumer[c].page, consumer[c].after) /\ receipts' = receipts
        BY Zenon, <2>1, <3>1, <4>8 DEF PageCommitted
      <4>14. r \in consumer[c].page
        <5>1. r <= Last(consumer[c].page, consumer[c].after) \/ ~consumer[c].more
          BY Zenon, <2>4, <3>3, <4>13
        <5>2. r \in Need(stream[m])
          BY Zenon, <4>4
        <5> QED
          BY Zenon, <4>10, <4>12, <5>1, <5>2
      <4>15. consumer[c].left = {}
        BY Zenon, <1>5, <4>4, <4>8, <4>9 DEF PageCommitted
      <4> QED
        BY Zenon, <1>4, <4>4, <4>9, <4>14, <4>15
    <3> QED
      BY Zenon, <3>2, <3>3
  <2>5. AvailabilityRotated'
    BY Zenon, <2>2, <2>3, <2>4 DEF AvailabilityRotated, Need
  <2>6. AvailabilityCursors'
    <3> SUFFICES ASSUME NEW e \in AvailabilityEvents, progress'[e].phase = "invalidating"
                 PROVE  progress'[e].after = 0
      BY Zenon DEF AvailabilityCursors
    <3>1. e \in Events
      BY Zenon, EventKindsAssumption
    <3>2. CASE progress'[e] = progress[e]
      BY Zenon, <1>1, <3>2 DEF AvailabilityCursors
    <3>3. CASE progress'[e] # progress[e]
      <4>1. PICK m \in consumer[c].todo :
               \/ Started(c, stream[m]) \/ Invalidated(c, stream[m])
               \/ PageCommitted(c, stream[m]) \/ Completed(c, stream[m])
        BY Zenon, <1>1, <1>7, <3>3, ConsumerShapes
        DEF Quiet, Rotated, Resolved, RunRotated, RunsRotated, PageLocked
      <4>2. stream[m] \in Events
        BY Zenon, <1>1, MessageFacts
      <4>3. stream[m] = e
        BY ZenonT(30), <2>1, <3>1, <3>3, <4>1, <4>2 DEF Started, Invalidated, PageCommitted, Completed
      <4>4. ~Invalidated(c, e) /\ ~Completed(c, e)
        BY SMTT(30), <2>1, <3>1 DEF Invalidated, Completed, NoProgress
      <4>5. ~PageCommitted(c, e)
        BY <2>1, <3>1 DEF PageCommitted
      <4> QED
        BY SMTT(30), <2>1, <3>1, <4>1, <4>3, <4>4, <4>5 DEF Started
    <3> QED
      BY Zenon, <3>2, <3>3
  <2> QED
    BY Zenon, <2>5, <2>6
<1> QED
  BY Zenon, <1>1, <1>6, <1>7, EventsTouched

\* An event older than a run is part of whatever is read of the run.
LEMMA EarlyIsCreated ==
    ASSUME TypeInv, AnnouncedAreCreated, NEW q \in Readers, ~Free(q), NEW e \in AvailabilityEvents,
           reader[q].run \in Impact[e], e < CreatedBy[reader[q].run]
    PROVE  e \in Created \cap Relevant("availability", reader[q].run)
<1>1. reader[q].run \in Runs /\ Exists(reader[q].run)
  BY Zenon DEF TypeInv, ReaderType, ReaderGood
<1>2. e \in Events /\ e \in Nat
  BY Zenon, EventKindsAssumption, EventsAssumption
<1>3. CreatedBy[reader[q].run] \in Created
  BY <1>1, <1>2 DEF Exists
<1>4. e \in Created
  BY Zenon, <1>2, <1>3 DEF AnnouncedAreCreated, Snapshot
<1> QED
  BY Zenon, <1>4 DEF Relevant

LEMMA EarlyStep ==
    ASSUME PipelineInv, EarlyEventsSeen, [Next]_vars
    PROVE  EarlyEventsSeen'
<1>1. TypeInv /\ AnnouncedAreCreated
  BY Zenon DEF PipelineInv
<1>2. CASE UNCHANGED <<cache, reader>>
  BY Zenon, <1>2 DEF EarlyEventsSeen
<1>3. ASSUME NEW q \in Readers, Request(q) \/ ReaderStep(q),
             NEW r \in Runs, NEW e \in AvailabilityEvents, r \in Impact[e], e < CreatedBy[r]
      PROVE  /\ \A k \in DOMAIN cache' : k[1] = r => e \in cache'[k]
             /\ \A p \in Readers : reader'[p].kind = "availability" /\ reader'[p].run = r
                                   /\ reader'[p].pc \in {"install", "write"} => e \in reader'[p].value
  <2>1. /\ \A k \in DOMAIN cache : k[1] = r => e \in cache[k]
        /\ \A p \in Readers : reader[p].kind = "availability" /\ reader[p].run = r
                              /\ reader[p].pc \in {"install", "write"} => e \in reader[p].value
    BY Zenon, <1>3 DEF EarlyEventsSeen
  <2>2. \/ Asks(q) \/ Bypasses(q) \/ Moves(q) \/ Retokens(q) \/ Reads(q) \/ Installs(q)
        \/ Finds(q) \/ Stores(q) \/ Returns(q) \/ GivesUp(q)
    BY Zenon, <1>1, <1>3, RequestShapes, ReaderShapes
  <2>3. \A p \in Readers \ {q} : reader'[p] = reader[p] \/ reader'[p].pc \notin {"write", "install"}
    BY Zenon, <2>2 DEF Asks, Bypasses, Moves, Retokens, Reads, Installs, Finds, Stores, Returns, GivesUp,
                OnlyReader, Answers
  <2>4. UNCHANGED cache \/ Stores(q)
    BY Zenon, <2>2 DEF Asks, Bypasses, Moves, Retokens, Reads, Installs, Finds, Returns, GivesUp
  <2>5. ASSUME reader'[q].kind = "availability", reader'[q].run = r, reader'[q].pc \in {"install", "write"}
        PROVE  e \in reader'[q].value
    <3>1. CASE reader'[q] = reader[q]
      BY ZenonT(30), <2>1, <2>5, <3>1
    <3>2. CASE Reads(q)
      <4>1. ~Free(q) /\ reader[q].run = r /\ reader[q].kind = "availability"
        BY Zenon, <2>5, <3>2 DEF Reads, SameRequest
      <4> QED
        BY Zenon, <1>1, <1>3, <3>2, <4>1, EarlyIsCreated DEF Reads
    <3>3. CASE Installs(q)
      BY Zenon, <2>1, <2>5, <3>3 DEF Installs, SameRequest
    <3> QED
      BY Zenon, <2>2, <2>5, <3>1, <3>2, <3>3
      DEF Asks, Bypasses, Moves, Retokens, Finds, Stores, Returns, GivesUp, Answers
  <2>6. ASSUME Stores(q), NEW k \in DOMAIN cache', k[1] = r PROVE e \in cache'[k]
    <3>1. CASE k = DataKey(q)
      <4>1. Namespace(q) = r /\ ~Free(q) /\ reader[q].pc = "write"
        BY Zenon, <2>6, <3>1 DEF DataKey, Stores, Free
      <4>2. reader[q].kind = "availability" /\ reader[q].run = r
        <5>1. r # Search
          BY Zenon, RunsFacts DEF Search
        <5> QED
          BY Zenon, <1>1, <4>1, <5>1, ReaderFacts DEF KindOf
      <4>3. e \in reader[q].value
        BY Zenon, <2>1, <4>1, <4>2
      <4> QED
        BY Zenon, <2>6, <3>1, <4>3 DEF Stores
    <3>2. CASE k # DataKey(q)
      BY Zenon, <2>1, <2>6, <3>2 DEF Stores
    <3> QED
      BY Zenon, <3>1, <3>2
  <2>7. ASSUME UNCHANGED cache, NEW k \in DOMAIN cache', k[1] = r PROVE e \in cache'[k]
    BY Zenon, <2>1, <2>7
  <2> QED
    BY SMTT(30), <2>1, <2>3, <2>4, <2>5, <2>6, <2>7
<1>4. ASSUME NEW q \in Readers, Request(q) \/ ReaderStep(q) PROVE EarlyEventsSeen'
  BY Zenon, <1>3, <1>4 DEF EarlyEventsSeen
<1> QED
  BY Zenon, <1>1, <1>2, <1>4, CachesTouched

LEMMA CachedInit == Init => CachedInv
<1> SUFFICES ASSUME Init PROVE CachedInv
  BY Zenon
<1>1. /\ \A c \in Consumers : consumer[c].todo = {}
      /\ \A e \in Events : progress[e].phase = "none"
      /\ receipts = {} /\ DOMAIN cache = {}
  BY DEF Init, ReadModelInit, CacheInit, ConsumerIdle, NoProgress
<1>2. \A q \in Readers : reader[q].pc = "idle"
  BY DEF Init, CacheInit, NoRequest
<1>3. KeysAreKnown /\ EarlyEventsSeen
  BY Zenon, <1>1, <1>2 DEF KeysAreKnown, EarlyEventsSeen
<1>4. SearchRotated
  BY Zenon, <1>1, EventKindsAssumption DEF SearchRotated
<1>5. AvailabilityRotated /\ AvailabilityCursors
  BY Zenon, <1>1, EventKindsAssumption DEF AvailabilityRotated, AvailabilityCursors
<1> QED
  BY Zenon, <1>3, <1>4, <1>5 DEF CachedInv

LEMMA CachedStep == PipelineInv /\ CachedInv /\ [Next]_vars => CachedInv'
BY Zenon, KeysStep, SearchStep, AvailabilityStep, EarlyStep DEF CachedInv

\* Nothing under a current token misses an event with a receipt.
LEMMA ReceiptsShown ==
    ASSUME TypeInv, CachedInv, NEW ns \in Cursor, NEW r \in Runs, ns = Search \/ ns = r,
           NEW e \in receipts \cap Relevant(KindOf(ns), r)
    PROVE  Fresh(e, ns, r)
<1>1. CASE ns = Search
  <2>1. e \in ProjectionEvents /\ r \in Impact[e]
    BY Zenon, <1>1 DEF KindOf, Relevant
  <2> QED
    BY Zenon, <1>1, <2>1 DEF CachedInv, SearchRotated
<1>2. CASE ns # Search
  <2>1. ns = r /\ e \in AvailabilityEvents /\ r \in Impact[e]
    BY Zenon, <1>2 DEF KindOf, Relevant
  <2>2. CASE CreatedBy[r] <= e
    BY Zenon, <2>1, <2>2 DEF CachedInv, AvailabilityRotated, Need
  <2>3. CASE ~(CreatedBy[r] <= e)
    <3>1. e \in Nat
      BY Zenon, <2>1, EventKindsAssumption, EventsAssumption
    <3>2. CreatedBy[r] \in Nat
      BY Zenon, CreatedByType
    <3>3. e < CreatedBy[r]
      BY <2>3, <3>1, <3>2
    <3>4. /\ \A k \in DOMAIN cache : k[1] = r => e \in cache[k]
          /\ \A q \in Readers : reader[q].kind = "availability" /\ reader[q].run = r
                                /\ reader[q].pc \in {"install", "write"} => e \in reader[q].value
      BY Zenon, <2>1, <3>3 DEF CachedInv, EarlyEventsSeen
    <3>5. CacheShows(e, ns, r)
      BY Zenon, <2>1, <3>4 DEF CacheShows
    <3>6. \A q \in Readers : ReaderShows(q, e, ns, r)
      <4>1. \A q \in Readers : reader[q] \in ReaderRec
        BY Zenon DEF TypeInv, ReaderType
      <4> QED
        BY Zenon, <1>2, <2>1, <3>4, <4>1 DEF ReaderShows, Namespace, ReaderRec
    <3> QED
      BY Zenon, <3>5, <3>6 DEF Fresh
  <2> QED
    BY Zenon, <2>2, <2>3
<1> QED
  BY Zenon, <1>1, <1>2

LEMMA EntriesFresh == TypeInv /\ CachedInv => CacheEntriesFresh
<1> SUFFICES ASSUME TypeInv, CachedInv, NEW k \in DOMAIN cache, k[2] = version[k[1]],
                    NEW e \in receipts \cap Relevant(KindOf(k[1]), k[3])
             PROVE  e \in cache[k]
  BY ZenonT(30) DEF CacheEntriesFresh, KindOf
<1>1. k[1] \in Cursor /\ k[3] \in Runs /\ k = <<k[1], k[2], k[3]>>
  BY SMTT(30) DEF TypeInv, CachedType
<1>2. k[1] = Search \/ k[1] = k[3]
  BY Zenon DEF CachedInv, KeysAreKnown
<1>3. Fresh(e, k[1], k[3])
  BY Zenon, <1>1, <1>2, ReceiptsShown
<1> QED
  BY Zenon, <1>1, <1>3 DEF Fresh, CacheShows

-----------------------------------------------------------------------------
(* What a request finds. *)

ReadersKnown ==
    \A q \in Readers : ~Free(q) =>
       /\ reader[q].run \in Runs /\ Namespace(q) \in Cursor
       /\ reader[q].kind = KindOf(Namespace(q))
       /\ Namespace(q) = Search \/ Namespace(q) = reader[q].run

LEMMA ReadersKnownNext == TypeInv' => ReadersKnown'
<1>1. TypeInv => ReadersKnown
  BY Zenon, ReaderFacts DEF ReadersKnown
<1> QED
  BY <1>1, PTL

\* A namespace without a token has no entries and nobody writes there.
NothingUnderNoToken == \A e : \A ns \in Cursor : \A r \in Runs : Shown(e, <<ns, 0, r>>)

LEMMA NoTokenNoEntry == TypeInv' => NothingUnderNoToken'
<1>1. TypeInv => NothingUnderNoToken
  <2> SUFFICES ASSUME TypeInv, NEW e, NEW ns \in Cursor, NEW r \in Runs PROVE Shown(e, <<ns, 0, r>>)
    BY Zenon DEF NothingUnderNoToken
  <2>1. ASSUME NEW k \in DOMAIN cache, k = <<ns, 0, r>> PROVE FALSE
    <3>1. k[2] = 0 /\ k[2] \in Nat \ {0}
      BY Zenon, <2>1 DEF TypeInv, CachedType
    <3> QED
      BY Zenon, <3>1
  <2>2. ASSUME NEW p \in Readers, reader[p].pc = "write", DataKey(p) = <<ns, 0, r>> PROVE FALSE
    <3>1. reader[p].token = 0
      BY Zenon, <2>2 DEF DataKey
    <3>2. reader[p].token # 0
      BY Zenon, <2>2 DEF TypeInv, ReaderType, ReaderGood, Free
    <3> QED
      BY Zenon, <3>1, <3>2
  <2> QED
    BY Zenon, <2>1, <2>2 DEF Shown
<1> QED
  BY <1>1, PTL

LEMMA FreshIsShown ==
    ASSUME NEW e, NEW ns \in Cursor, NEW r \in Runs, Fresh(e, ns, r)'
    PROVE  Shown(e, <<ns, version[ns], r>>)'
<1>1. CacheShows(e, ns, r)' /\ \A q \in Readers : ReaderShows(q, e, ns, r)'
  BY Zenon DEF Fresh
<1>2. ASSUME NEW p \in Readers, reader'[p].pc = "write", DataKey(p)' = <<ns, version'[ns], r>>
      PROVE  e \in reader'[p].value
  <2>1. Namespace(p)' = ns /\ reader'[p].token = version'[ns] /\ reader'[p].run = r
    BY Zenon, <1>2 DEF DataKey
  <2> QED
    BY Zenon, <1>1, <1>2, <2>1 DEF ReaderShows
<1> QED
  BY Zenon, <1>1, <1>2 DEF Shown, CacheShows

\* What a key shows it goes on showing.
LEMMA ShownStays ==
    ASSUME TypeInv, NEW q \in Readers,
           \/ Asks(q) \/ Bypasses(q) \/ Moves(q) \/ Retokens(q) \/ Reads(q) \/ Installs(q)
           \/ Finds(q) \/ Stores(q) \/ Returns(q) \/ GivesUp(q),
           NEW ns \in Cursor, NEW t \in Nat, NEW r \in Runs, t <= version[ns],
           NEW e \in Created \cap Relevant(KindOf(ns), r), Shown(e, <<ns, t, r>>)
    PROVE  Shown(e, <<ns, t, r>>)'
<1>1. ASSUME NEW k \in DOMAIN cache', k = <<ns, t, r>> PROVE e \in cache'[k]
  <2>1. CASE UNCHANGED cache
    BY ZenonT(30), <1>1, <2>1 DEF Shown
  <2>2. CASE Stores(q)
    <3>1. CASE k = DataKey(q)
      BY ZenonT(30), <1>1, <2>2, <3>1 DEF Shown, Stores
    <3>2. CASE k # DataKey(q)
      BY Zenon, <1>1, <2>2, <3>2 DEF Shown, Stores
    <3> QED
      BY Zenon, <3>1, <3>2
  <2> QED
    BY Zenon, <2>1, <2>2 DEF Asks, Bypasses, Moves, Retokens, Reads, Installs, Finds, Returns, GivesUp
<1>2. ASSUME NEW p \in Readers, reader'[p].pc = "write", DataKey(p)' = <<ns, t, r>> PROVE e \in reader'[p].value
  <2>1. CASE reader'[p] = reader[p]
    <3>1. DataKey(p) = <<ns, t, r>> /\ reader[p].pc = "write"
      BY Zenon, <1>2, <2>1 DEF DataKey, Namespace
    <3> QED
      BY Zenon, <2>1, <3>1 DEF Shown
  <2>2. CASE reader'[p] # reader[p]
    <3>1. p = q /\ (Reads(q) \/ Installs(q))
      BY Zenon, <1>2, <2>2 DEF Asks, Bypasses, Moves, Retokens, Reads, Installs, Finds, Stores, Returns, GivesUp,
                        OnlyReader, Answers
    <3>2. ~Free(q) /\ SameRequest(q)
      BY ZenonT(30), <3>1 DEF Reads, Installs, Free
    <3>3. Namespace(q)' = Namespace(q) /\ reader'[q].run = reader[q].run
      BY Zenon, <3>2 DEF SameRequest, Namespace
    <3>4. Namespace(q) = ns /\ reader'[q].token = t /\ reader[q].run = r
      BY ZenonT(30), <1>2, <3>1, <3>3 DEF DataKey
    <3>5. reader[q].kind = KindOf(ns)
      BY Zenon, <3>2, <3>4, ReaderFacts
    <3>6. CASE Reads(q)
      BY Zenon, <3>1, <3>4, <3>5, <3>6 DEF Reads
    <3>7. CASE Installs(q)
      <4>1. t = 1 /\ version[r] = 0 /\ reader[q].kind = "availability"
        BY ZenonT(30), <3>4, <3>7 DEF Installs
      <4>2. ns = r
        BY Zenon, <3>2, <3>4, <4>1, ReaderFacts
      <4> QED
        BY SMTT(30), <4>1, <4>2
    <3> QED
      BY Zenon, <3>1, <3>6, <3>7
  <2> QED
    BY ZenonT(30), <2>1, <2>2
<1> QED
  BY ZenonT(30), <1>1, <1>2 DEF Shown

\* What a request found before a step it goes on finding.
LEMMA FoundStays ==
    ASSUME PipelineInv, RequestsFindFresh, NEW q \in Readers,
           \/ Asks(q) \/ Bypasses(q) \/ Moves(q) \/ Retokens(q) \/ Reads(q) \/ Installs(q)
           \/ Finds(q) \/ Stores(q) \/ Returns(q) \/ GivesUp(q),
           NEW x \in Readers, ~Free(x), SameRequest(x), reader'[x].token = reader[x].token,
           NEW e \in reader[x].since \cap Relevant(reader[x].kind, reader[x].run)
    PROVE  Shown(e, DataKey(x))'
<1>1. TypeInv /\ receipts \subseteq Created
  BY ZenonT(30) DEF PipelineInv, AnnouncedAreCreated
<1>2. PICK ns \in Cursor, t \in Nat, r \in Runs :
         /\ ns = Namespace(x) /\ t = reader[x].token /\ r = reader[x].run /\ t <= version[ns]
         /\ reader[x].kind = KindOf(ns)
  BY ZenonT(30), <1>1, ReaderFacts
<1>3. Shown(e, <<ns, t, r>>) /\ e \in receipts
  BY Zenon, <1>2 DEF RequestsFindFresh, DataKey
<1>4. e \in Created \cap Relevant(KindOf(ns), r)
  BY ZenonT(30), <1>1, <1>2, <1>3
<1>5. Shown(e, <<ns, t, r>>)'
  BY Zenon, <1>1, <1>2, <1>3, <1>4, ShownStays
<1>6. DataKey(x)' = <<ns, t, r>>
  BY Zenon, <1>2 DEF DataKey, Namespace, SameRequest
<1> QED
  BY Zenon, <1>5, <1>6 DEF Shown

LEMMA RequestsStep ==
    PipelineInv /\ CachedInv /\ RequestsFindFresh /\ AnswersFresh /\ [Next]_vars =>
       RequestsFindFresh' /\ AnswersFresh'
<1> SUFFICES ASSUME PipelineInv, CachedInv, RequestsFindFresh, AnswersFresh, [Next]_vars
             PROVE  RequestsFindFresh' /\ AnswersFresh'
  BY Zenon
<1>1. TypeInv /\ TypeInv' /\ Grows /\ receipts \subseteq Created /\ KeysAreKnown
  BY Zenon, TypeStep DEF PipelineInv, AnnouncedAreCreated, CachedInv
<1>2. CASE UNCHANGED <<cache, reader>>
  <2>1. receipts \subseteq receipts'
    BY ZenonT(30), <1>1 DEF Grows
  <2>2. RequestsFindFresh'
    BY SMTT(30), <1>2, <2>1 DEF RequestsFindFresh, Free, Shown, DataKey, Namespace, Relevant
  <2>3. AnswersFresh'
    BY Zenon, <1>2 DEF AnswersFresh, Relevant
  <2> QED
    BY Zenon, <2>2, <2>3
<1>3. ASSUME NEW q \in Readers, Request(q) \/ ReaderStep(q) PROVE RequestsFindFresh' /\ AnswersFresh'
  <2>1. \/ Asks(q) \/ Bypasses(q) \/ Moves(q) \/ Retokens(q) \/ Reads(q) \/ Installs(q)
        \/ Finds(q) \/ Stores(q) \/ Returns(q) \/ GivesUp(q)
    BY Zenon, <1>1, <1>3, RequestShapes, ReaderShapes DEF PipelineInv
  <2>2. receipts' = receipts
    BY Zenon, <1>1, <1>3, RequestTypes, ReaderStepTypes DEF ReaderFrame
  <2> DEFINE Informed(x) ==
               /\ reader'[x].since \subseteq receipts'
               /\ reader'[x].pc = "wait" => reader'[x].joined
               /\ \A e \in reader'[x].since \cap Relevant(reader'[x].kind, reader'[x].run) :
                     /\ Shown(e, DataKey(x))'
                     /\ reader'[x].pc = "install" => e \in reader'[x].value
  <2>3. ASSUME NEW x \in Readers, ~Free(x), SameRequest(x), reader'[x].token = reader[x].token,
               reader'[x].pc = "wait" => reader'[x].joined,
               \A e \in reader[x].since \cap Relevant(reader[x].kind, reader[x].run) :
                  reader'[x].pc = "install" => e \in reader'[x].value
        PROVE  Informed(x)
    <3>1. \A e \in reader[x].since \cap Relevant(reader[x].kind, reader[x].run) : Shown(e, DataKey(x))'
      BY Zenon, <2>1, <2>3, FoundStays
    <3>2. reader[x].since \subseteq receipts
      BY ZenonT(30), <2>3 DEF RequestsFindFresh
    <3> QED
      BY Zenon, <2>2, <2>3, <3>1, <3>2 DEF SameRequest
  <2>4. ASSUME NEW x \in Readers, ~Free(x), reader'[x] = reader[x] PROVE Informed(x)
    <3>1. /\ reader[x].pc = "wait" => reader[x].joined
          /\ \A e \in reader[x].since \cap Relevant(reader[x].kind, reader[x].run) :
                  reader[x].pc = "install" => e \in reader[x].value
      BY Zenon, <2>4 DEF RequestsFindFresh
    <3>2. SameRequest(x)
      BY ZenonT(30), <2>4 DEF SameRequest
    <3> QED
      BY Zenon, <2>3, <2>4, <3>1, <3>2
  <2>5. ASSUME Moves(q) PROVE Informed(q)
    BY Zenon, <2>3, <2>5 DEF Moves
  <2>6. ASSUME Reads(q) PROVE Informed(q)
    <3>1. reader[q].since \subseteq receipts /\ ~Free(q)
      BY Zenon, <2>6 DEF RequestsFindFresh, Reads
    <3>2. \A e \in reader[q].since \cap Relevant(reader[q].kind, reader[q].run) : e \in reader'[q].value
      BY Zenon, <1>1, <2>6, <3>1 DEF Reads
    <3> QED
      BY ZenonT(30), <2>3, <2>6, <3>2 DEF Reads
  <2>7. ASSUME Asks(q) \/ Retokens(q) PROVE Informed(q)
    <3>1. /\ reader'[q].since \subseteq receipts /\ reader'[q].pc \notin {"wait", "install", "idle", "done"}
      BY Zenon, <2>7 DEF Asks, Retokens, RequestsFindFresh, SameRequest
    <3>2. ~Free(q)'
      BY Zenon, <3>1 DEF Free
    <3>3. PICK ns \in Cursor, r \in Runs :
             /\ ns = Namespace(q)' /\ r = reader'[q].run /\ reader'[q].kind = KindOf(ns)
             /\ ns = Search \/ ns = r
      BY Zenon, <1>1, <3>2, ReadersKnownNext DEF ReadersKnown
    <3>4. reader'[q].token \in {0, version'[ns]}
      <4>1. CASE Asks(q)
        BY Zenon, <3>3, <4>1 DEF Asks
      <4>2. CASE Retokens(q)
        <5>1. Namespace(q)' = reader[q].run
          BY Zenon, <4>2 DEF Retokens, SameRequest, Namespace
        <5> QED
          BY Zenon, <3>3, <4>2, <5>1 DEF Retokens
      <4> QED
        BY Zenon, <2>7, <4>1, <4>2
    <3>5. ASSUME NEW e \in reader'[q].since \cap Relevant(reader'[q].kind, reader'[q].run)
          PROVE  Shown(e, DataKey(q))'
      <4>1. e \in receipts \cap Relevant(KindOf(ns), r) /\ e \in Created
        BY Zenon, <1>1, <3>1, <3>3, <3>5
      <4>2. Fresh(e, ns, r)
        BY ZenonT(30), <1>1, <3>3, <4>1, ReceiptsShown
      <4>3. Fresh(e, ns, r)'
        BY Zenon, <1>1, <3>3, <4>1, <4>2, FreshStays
      <4>4. Shown(e, <<ns, version[ns], r>>)'
        BY Zenon, <4>3, FreshIsShown
      <4>5. Shown(e, <<ns, 0, r>>)'
        BY Zenon, <1>1, NoTokenNoEntry DEF NothingUnderNoToken
      <4>6. DataKey(q)' = <<ns, version'[ns], r>> \/ DataKey(q)' = <<ns, 0, r>>
        BY Zenon, <3>3, <3>4 DEF DataKey
      <4> QED
        BY ZenonT(30), <4>4, <4>5, <4>6 DEF Shown
    <3> QED
      BY Zenon, <2>2, <3>1, <3>5
  <2>8. ASSUME Installs(q) PROVE Informed(q)
    <3>1. ~Free(q) /\ reader[q].since \subseteq receipts /\ reader[q].kind = "availability"
      BY Zenon, <2>8 DEF Installs, Free, RequestsFindFresh
    <3>2. PICK r \in Runs : r = reader[q].run /\ r = Namespace(q) /\ r \in Cursor
      BY ZenonT(30), <1>1, <3>1, ReaderFacts
    <3>3. DataKey(q)' = <<r, 1, r>> /\ version[r] = 0 /\ reader'[q].value = reader[q].value
      BY SMTT(30), <2>8, <3>1, <3>2 DEF Installs, SameRequest, DataKey, Namespace
    <3>4. ASSUME NEW e \in reader[q].since \cap Relevant(reader[q].kind, reader[q].run)
          PROVE  Shown(e, DataKey(q))'
      <4>1. e \in reader[q].value
        BY ZenonT(30), <2>8, <3>1, <3>4 DEF RequestsFindFresh, Installs
      <4>2. ASSUME NEW k \in DOMAIN cache, k = <<r, 1, r>> PROVE FALSE
        <5>1. k[2] = 1 /\ k[1] = r
          BY Zenon, <4>2
        <5>2. k[2] <= version[k[1]]
          BY Zenon, <1>1, <4>2 DEF KeysAreKnown
        <5> QED
          BY SMTT(30), <3>3, <5>1, <5>2
      <4>3. ASSUME NEW p \in Readers \ {q}, reader[p].pc = "write", DataKey(p) = <<r, 1, r>> PROVE FALSE
        <5>1. reader[p].token = 1 /\ Namespace(p) = r
          BY Zenon, <4>3 DEF DataKey
        <5>2. reader[p].token <= version[Namespace(p)]
          BY Zenon, <1>1, <4>3, ReaderFacts DEF Free
        <5> QED
          BY SMTT(30), <3>3, <5>1, <5>2
      <4>4. \A p \in Readers \ {q} : reader'[p] = reader[p] /\ DataKey(p)' = DataKey(p)
        BY Zenon, <2>8 DEF Installs, OnlyReader, DataKey, Namespace
      <4>5. cache' = cache
        BY Zenon, <2>8 DEF Installs
      <4> QED
        BY SMTT(30), <3>3, <4>1, <4>2, <4>3, <4>4, <4>5 DEF Shown
    <3>5. reader'[q].pc = "write" /\ SameRequest(q)
      BY Zenon, <2>8 DEF Installs
    <3> QED
      BY ZenonT(30), <2>2, <3>1, <3>4, <3>5 DEF SameRequest
  <2>9. ASSUME NEW x \in Readers, ~Free(x)' PROVE Informed(x)
    <3>1. CASE reader'[x] = reader[x]
      BY SMTT(30), <2>4, <2>9, <3>1 DEF Free
    <3>2. CASE reader'[x] # reader[x]
      <4>1. x = q /\ (Asks(q) \/ Moves(q) \/ Retokens(q) \/ Reads(q) \/ Installs(q))
        BY Zenon, <2>1, <2>9, <3>2 DEF Asks, Bypasses, Moves, Retokens, Reads, Installs, Finds, Stores, Returns,
                                GivesUp, OnlyReader, Answers, Free
      <4> HIDE DEF Informed
      <4> QED
        BY Zenon, <2>5, <2>6, <2>7, <2>8, <4>1
    <3> QED
      BY ZenonT(30), <3>1, <3>2
  <2>10. RequestsFindFresh'
    BY Zenon, <2>9 DEF RequestsFindFresh, Relevant
  <2>11. ASSUME ~Free(q), NEW v, Answers(q, v),
                \/ DataKey(q) \in DOMAIN cache /\ v = cache[DataKey(q)]
                \/ reader[q].pc \in {"install", "write"} /\ v = reader[q].value,
                NEW x \in Readers, reader'[x].pc = "done", reader'[x] # reader[x],
                ~(reader'[x].kind = "availability" /\ reader'[x].joined)
         PROVE  reader'[x].since \cap Relevant(reader'[x].kind, reader'[x].run) \subseteq reader'[x].value
    <3>1. reader'[x].value = v /\ SameRequest(x) /\ (x = q \/ (x \in Waiting(q) /\ reader'[x].joined = reader[x].joined))
      BY Zenon, <2>11 DEF Answers
    <3> SUFFICES ASSUME NEW e \in reader[x].since \cap Relevant(reader[x].kind, reader[x].run) PROVE e \in v
      BY ZenonT(30), <3>1 DEF SameRequest
    <3>2. CASE x = q
      BY SMTT(30), <2>11, <3>2 DEF RequestsFindFresh, Shown
    <3>3. CASE x # q
      <4>1. reader[x].pc = "wait" /\ SameFlight(x, q) /\ ~Free(x)
        BY Zenon, <3>1, <3>3 DEF Waiting, Free
      <4>2. reader[x].joined /\ Shown(e, DataKey(x))
        BY Zenon, <4>1 DEF RequestsFindFresh
      <4>3. reader[x].kind = "search" /\ reader[x] \in ReaderRec /\ reader[q] \in ReaderRec
        BY Zenon, <1>1, <2>11, <3>1, <3>3, <4>2 DEF SameRequest, TypeInv, ReaderType, ReaderRec
      <4>4. FlightKey(x) = FlightKey(q) /\ FlightKey(x) = <<"search", reader[x].run, reader[x].token>>
        BY Zenon, <4>1, <4>3 DEF SameFlight, FlightKey, SearchFlightKey
      <4>5. reader[q].kind = "search"
        <5>1. reader[q].kind # "search" => FlightKey(q)[1] = "availability"
          BY Zenon DEF FlightKey, AvailabilityRequestFlightKey
        <5>2. FlightKey(x)[1] = "search"
          BY <4>4
        <5> QED
          BY ZenonT(30), <4>4, <5>1, <5>2
      <4>6. DataKey(x) = DataKey(q)
        <5>1. FlightKey(q) = <<"search", reader[q].run, reader[q].token>>
          BY Zenon, <4>5 DEF FlightKey, SearchFlightKey
        <5>2. reader[x].run = reader[q].run /\ reader[x].token = reader[q].token
          <6>1. FlightKey(x)[2] = reader[x].run /\ FlightKey(x)[3] = reader[x].token
            BY <4>4
          <6>2. FlightKey(q)[2] = reader[q].run /\ FlightKey(q)[3] = reader[q].token
            BY SMTT(30), <5>1
          <6> QED
            BY Zenon, <4>4, <6>1, <6>2
        <5> QED
          BY ZenonT(30), <4>3, <4>5, <5>2 DEF DataKey, Namespace
      <4>7. reader[q].pc # "install"
        BY ZenonT(30), <1>1, <2>11, <4>5 DEF TypeInv, ReaderType, ReaderGood
      <4> QED
        BY Zenon, <2>11, <4>2, <4>6, <4>7 DEF Shown
    <3> QED
      BY Zenon, <3>2, <3>3
  <2>12. ASSUME NEW x \in Readers, reader'[x].pc = "done", ~(reader'[x].kind = "availability" /\ reader'[x].joined)
         PROVE  reader'[x].since \cap Relevant(reader'[x].kind, reader'[x].run) \subseteq reader'[x].value
    <3>1. CASE reader'[x] = reader[x]
      BY ZenonT(30), <2>12, <3>1 DEF AnswersFresh
    <3>2. CASE reader'[x] # reader[x] /\ Bypasses(q)
      BY Zenon, <2>12, <3>2 DEF Bypasses, OnlyReader
    <3>3. CASE reader'[x] # reader[x] /\ Finds(q)
      BY Zenon, <2>11, <2>12, <3>3 DEF Finds
    <3>4. CASE reader'[x] # reader[x] /\ (Stores(q) \/ Returns(q))
      BY Zenon, <2>11, <2>12, <3>4 DEF Stores, Returns, Free
    <3> QED
      BY Zenon, <2>1, <2>12, <3>1, <3>2, <3>3, <3>4
      DEF Asks, Moves, Retokens, Reads, Installs, GivesUp, OnlyReader
  <2>13. AnswersFresh'
    BY Zenon, <2>12 DEF AnswersFresh, Relevant
  <2> QED
    BY Zenon, <2>10, <2>13
<1> QED
  BY Zenon, <1>1, <1>2, <1>3, CachesTouched

LEMMA RequestsInit == Init => RequestsFindFresh /\ AnswersFresh
<1> SUFFICES ASSUME Init PROVE RequestsFindFresh /\ AnswersFresh
  BY Zenon
<1>1. \A q \in Readers : reader[q].pc = "idle"
  BY DEF Init, CacheInit, NoRequest
<1> QED
  BY Zenon, <1>1 DEF RequestsFindFresh, AnswersFresh, Free
============================================================================
