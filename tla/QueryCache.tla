----------------------------- MODULE QueryCache -----------------------------
(***************************************************************************)
(* The public read path (internal/query/cache): train search through the   *)
(* search namespace, the projection and the source; availability through   *)
(* the namespace of its train run and the source.  A namespace is          *)
(* invalidated by giving it a new token, so a fill that started before a   *)
(* rotation writes under a token no later request reads.  Requests of one  *)
(* API process that miss with the same flight key share one fill.          *)
(*                                                                         *)
(* A request is for one train run.  Its answer is the set of changes it    *)
(* reflects.                                                               *)
(***************************************************************************)
EXTENDS ReadModel

CONSTANTS
    Readers,            \* requests under way at the same time
    Apis                \* API processes, each with its own coalescer

VARIABLES
    cache,              \* the data keys in Redis: <<namespace, token, run>> -> value
    reader              \* each request

cacheVars == <<cache, reader>>

FillSteps == {"fill", "fillRead", "projection", "source", "install", "reread", "write"}

ReaderSteps == {"idle", "read", "do", "wait", "done"} \cup FillSteps

NoRequest(api) == [pc |-> "idle", kind |-> "search", run |-> 0, api |-> api, since |-> {},
                   token |-> 0, value |-> {}, joined |-> FALSE]

CacheTypeOK ==
    /\ DOMAIN cache \subseteq Cursor \X (Nat \ {0}) \X Runs
    /\ \A k \in DOMAIN cache : cache[k] \subseteq Events
    /\ reader \in [Readers -> [pc : ReaderSteps, kind : {"search", "availability"}, run : Cursor,
                               api : Apis, since : SUBSET Events, token : Nat,
                               value : SUBSET Events, joined : BOOLEAN]]

CacheInit ==
    /\ cache = <<>>
    /\ \E api \in Apis : reader = [q \in Readers |-> NoRequest(api)]

Namespace(q) == IF reader[q].kind = "search" THEN Search ELSE reader[q].run

DataKey(q) == <<Namespace(q), reader[q].token, reader[q].run>>

Source(kind, r) == IF kind = "search" THEN Journeys(r) ELSE Seats(r)

Free(q) == reader[q].pc \in {"idle", "done"}

(* No request under way or to come can read an entry under any other token. *)
Readable(k) ==
    \/ k[2] = version[k[1]]
    \/ \E q \in Readers : ~Free(q) /\ k = DataKey(q)

Step(q, pc) == reader' = [reader EXCEPT ![q].pc = pc]

NewRequest(q, api, kind, r, token, pc) ==
    reader' = [reader EXCEPT ![q] = [pc |-> pc, kind |-> kind, run |-> r, api |-> api,
                                     since |-> receipts, token |-> token, value |-> {},
                                     joined |-> FALSE]]

(* Mutant: identical searches share a fill whatever token they hold. *)
SearchFlightKeyTokenless(q) == <<"search", reader[q].run>>

(***************************************************************************)
(* What requests share a fill: identical searches under one token, and     *)
(* identical availability requests under whatever token.                   *)
(***************************************************************************)
SearchFlightKey(q) == <<"search", reader[q].run, reader[q].token>>

AvailabilityRequestFlightKey(q) == <<"availability", reader[q].run>>

FlightKey(q) ==
    IF reader[q].kind = "search" THEN SearchFlightKey(q) ELSE AvailabilityRequestFlightKey(q)

SameFlight(q, other) == reader[q].api = reader[other].api /\ FlightKey(q) = FlightKey(other)

Waiting(q) == {p \in Readers : reader[p].pc = "wait" /\ SameFlight(p, q)}

(* The fill returns: its leader and everyone waiting for it get the value. *)
Return(q, value) ==
    reader' = [p \in Readers |->
                 IF p \in Waiting(q) \cup {q}
                 THEN [reader[p] EXCEPT !.pc = "done", !.value = value] ELSE reader[p]]

-----------------------------------------------------------------------------
(* SearchTrainRuns: get the namespace's token, installing one when there is none. *)
SearchTrainRuns(q, api, r) ==
    /\ Free(q) /\ Exists(r)
    /\ version' = IF version[Search] = 0 THEN [version EXCEPT ![Search] = 1] ELSE version
    /\ NewRequest(q, api, "search", r, version'[Search], "read")
    /\ UNCHANGED cache

(* Availability: a namespace without a token has nothing to read. *)
Availability(q, api, r) ==
    /\ Free(q) /\ Exists(r)
    /\ NewRequest(q, api, "availability", r, version[r], IF version[r] = 0 THEN "do" ELSE "read")
    /\ UNCHANGED <<cache, version>>

CacheHit(q) ==
    /\ reader[q].pc = "read" /\ DataKey(q) \in DOMAIN cache
    /\ reader' = [reader EXCEPT ![q].pc = "done", ![q].value = cache[DataKey(q)]]
    /\ UNCHANGED <<cache, version>>

(* No entry, or one that expired, is too old, does not decode or could not be read. *)
CacheMiss(q) ==
    /\ reader[q].pc = "read"
    /\ Step(q, "do")
    /\ UNCHANGED <<cache, version>>

(* Coalescer.Do: wait for a fill of the same flight key, or lead one. *)
CoalescerDo(q) ==
    /\ reader[q].pc = "do"
    /\ IF \E p \in Readers : reader[p].pc \in FillSteps /\ SameFlight(p, q)
       THEN reader' = [reader EXCEPT ![q].pc = "wait", ![q].joined = TRUE]
       ELSE Step(q, "fill")
    /\ UNCHANGED <<cache, version>>

(***************************************************************************)
(* A fill of availability gets the token anew, and goes on without one if  *)
(* Redis does not answer; a fill of search keeps its key.                  *)
(***************************************************************************)
FillVersion(q) ==
    /\ reader[q].pc = "fill"
    /\ IF reader[q].kind = "search"
       THEN Step(q, "fillRead")
       ELSE \E token \in {0, version[reader[q].run]} :
               reader' = [reader EXCEPT ![q].token = token,
                                        ![q].pc = IF token = 0 THEN "source" ELSE "fillRead"]
    /\ UNCHANGED <<cache, version>>

FillHit(q) ==
    /\ reader[q].pc = "fillRead" /\ DataKey(q) \in DOMAIN cache
    /\ Return(q, cache[DataKey(q)])
    /\ UNCHANGED <<cache, version>>

FillMiss(q) ==
    /\ reader[q].pc = "fillRead"
    /\ Step(q, IF reader[q].kind = "search" THEN "projection" ELSE "source")
    /\ UNCHANGED <<cache, version>>

(* searchProjectionOrSource: the rows of the projection, when it may be used and has any. *)
SearchProjection(q) ==
    /\ reader[q].pc = "projection"
    /\ IF ProjectionAvailable /\ projection[reader[q].run] # NoRows
       THEN reader' = [reader EXCEPT ![q].pc = "write", ![q].value = projection[reader[q].run]]
       ELSE Step(q, "source")
    /\ UNCHANGED <<cache, version>>

ReadSource(q) ==
    /\ reader[q].pc = "source"
    /\ reader' = [reader EXCEPT ![q].value = Source(reader[q].kind, reader[q].run),
                                ![q].pc = IF reader[q].token = 0 THEN "install" ELSE "write"]
    /\ UNCHANGED <<cache, version>>

(* Mutant: the value read before is stored under a token somebody else installed. *)
InstallVersionTrusting(q) ==
    /\ reader[q].pc = "install"
    /\ LET r == reader[q].run
       IN /\ version' = IF version[r] = 0 THEN [version EXCEPT ![r] = 1] ELSE version
          /\ reader' = [reader EXCEPT ![q].token = version'[r], ![q].pc = "write"]
    /\ UNCHANGED cache

(***************************************************************************)
(* GetOrCreateWithStatus: a token somebody else installed since means that *)
(* a rotation may have happened after the source was read.                 *)
(***************************************************************************)
InstallVersion(q) ==
    /\ reader[q].pc = "install"
    /\ LET r == reader[q].run
       IN /\ version' = IF version[r] = 0 THEN [version EXCEPT ![r] = 1] ELSE version
          /\ reader' = [reader EXCEPT ![q].token = version'[r],
                                      ![q].pc = IF version[r] = 0 THEN "write" ELSE "reread"]
    /\ UNCHANGED cache

RereadSource(q) ==
    /\ reader[q].pc = "reread"
    /\ reader' = [reader EXCEPT ![q].pc = "write", ![q].value = Seats(reader[q].run)]
    /\ UNCHANGED <<cache, version>>

(* The answer is stored under the token the fill holds, then returned. *)
WriteCache(q) ==
    /\ reader[q].pc = "write"
    /\ cache' = [k \in {j \in DOMAIN cache : Readable(j)} \cup {DataKey(q)} |->
                   IF k = DataKey(q) THEN reader[q].value ELSE cache[k]]
    /\ Return(q, reader[q].value)
    /\ UNCHANGED version

(* Redis refuses the token or the write; the answer is returned all the same. *)
WriteError(q) ==
    /\ reader[q].pc \in {"install", "write"}
    /\ Return(q, reader[q].value)
    /\ UNCHANGED <<cache, version>>

(* The source fails: so do the request that led the fill and those that waited. *)
SourceError(q) ==
    /\ reader[q].pc \in {"source", "reread"}
    /\ reader' = [p \in Readers |->
                    IF p \in Waiting(q) \cup {q} THEN NoRequest(reader[p].api) ELSE reader[p]]
    /\ UNCHANGED <<cache, version>>

(* The token cannot be read: the request goes to the source, past the coalescer. *)
SourceOnly(q, api, kind, r) ==
    /\ Free(q) /\ Exists(r)
    /\ reader' = [reader EXCEPT ![q] = [NoRequest(api) EXCEPT !.pc = "done", !.kind = kind,
                                           !.run = r, !.since = receipts, !.value = Source(kind, r)]]
    /\ UNCHANGED <<cache, version>>
=============================================================================
