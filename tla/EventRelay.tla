----------------------------- MODULE EventRelay -----------------------------
(***************************************************************************)
(* The transactional outbox and the relay that empties it                  *)
(* (internal/eventrelay).  A writer inserts an event row in the            *)
(* transaction of the change it announces.  A relay worker claims a batch  *)
(* of rows in one short transaction, publishes each event to the Redis     *)
(* stream with no transaction open, and finalises every row on its own.    *)
(*                                                                         *)
(* Events are numbered in the order their rows are created, the order in   *)
(* which Claim takes them.  Times are not modelled: a row waiting for its  *)
(* next attempt may be due, and a lock may be older than the processing    *)
(* timeout, at any moment.                                                 *)
(***************************************************************************)
EXTENDS Integers, FiniteSets

CONSTANTS
    Events,             \* the changes announced, numbered 1, 2, ...
    Relays,             \* outbox worker processes, each with its own worker ID
    MaxAttempts,        \* OUTBOX_MAX_ATTEMPTS
    RelayBatch,         \* OUTBOX_BATCH_SIZE
    NoWorker            \* locked_by IS NULL

ASSUME EventsAssumption == Events \subseteq Nat
ASSUME RelayConfigAssumption ==
    /\ MaxAttempts \in Nat \ {0}
    /\ RelayBatch \in Nat \ {0}
    /\ NoWorker \notin Relays

VARIABLES
    outbox,             \* outbox_events: one row per event once it is created
    relay               \* each worker's pass: the claimed events it has left

relayVars == <<outbox, relay>>

(***************************************************************************)
(* "absent" is an event whose change has not been committed.               *)
(***************************************************************************)
OutboxStatus == {"absent", "pending", "processing", "published", "dead_letter"}

OutboxRow == [status : OutboxStatus, attempts : Nat, lockedBy : Relays \cup {NoWorker}]

RelayIdle == [batch |-> {}, tried |-> "no"]

RelayTypeOK ==
    /\ outbox \in [Events -> OutboxRow]
    /\ relay \in [Relays -> [batch : SUBSET Events, tried : {"no", "sent", "failed"}]]

RelayInit ==
    /\ outbox = [e \in Events |-> [status |-> "absent", attempts |-> 0, lockedBy |-> NoWorker]]
    /\ relay = [w \in Relays |-> RelayIdle]

Created == {e \in Events : outbox[e].status # "absent"}

-----------------------------------------------------------------------------
(* The insert of the row, part of the transaction that makes the change. *)
InsertOutbox(e) ==
    /\ outbox[e].status = "absent"
    /\ \A f \in Events : f < e => outbox[f].status # "absent"
    /\ outbox' = [outbox EXCEPT ![e].status = "pending"]
    /\ UNCHANGED relay

(***************************************************************************)
(* A row in processing belongs to a worker that is still working on it, or *)
(* was left behind by one that crashed or could not finalise it.           *)
(***************************************************************************)
HeldLive(e) == \E w \in Relays : outbox[e].lockedBy = w /\ e \in relay[w].batch

(* Mutant: rows left in processing are never taken over. *)
ClaimablePending == {e \in Events : outbox[e].status = "pending"}

Claimable == {e \in Events : outbox[e].status \in {"pending", "processing"}}

(***************************************************************************)
(* Claim: the due and the stale rows, oldest first, up to the batch size.  *)
(* due is the subset of the claimable rows whose times have come.          *)
(***************************************************************************)
Claim(w, due) ==
    /\ relay[w].batch = {}
    /\ due # {} /\ due \subseteq Claimable
    /\ LET taken == {e \in due : Cardinality({f \in due : f < e}) < RelayBatch}
       IN /\ outbox' = [e \in Events |->
                          IF e \in taken
                          THEN [status |-> "processing", attempts |-> outbox[e].attempts + 1,
                                lockedBy |-> w]
                          ELSE outbox[e]]
          /\ relay' = [relay EXCEPT ![w] = [batch |-> taken, tried |-> "no"]]

(* The event a worker is at: it goes through its batch in the order of creation. *)
AtEvent(w, e) ==
    /\ e \in relay[w].batch
    /\ \A f \in relay[w].batch : e <= f

(* Publish the event the worker is at; the stream entry itself is added by XADD. *)
Publish(w, e, ok) ==
    /\ AtEvent(w, e) /\ relay[w].tried = "no"
    /\ relay' = [relay EXCEPT ![w].tried = IF ok THEN "sent" ELSE "failed"]
    /\ UNCHANGED outbox

NextInBatch(w, e) ==
    relay' = [relay EXCEPT ![w] = [batch |-> relay[w].batch \ {e}, tried |-> "no"]]

(* The guard of both finalising updates: the row is still locked by this worker. *)
OwnsLock(w, e) == outbox[e].status = "processing" /\ outbox[e].lockedBy = w

Finalize(w, e, status) ==
    outbox' = IF OwnsLock(w, e)
              THEN [outbox EXCEPT ![e].status = status, ![e].lockedBy = NoWorker]
              ELSE outbox

MarkPublished(w, e) ==
    /\ AtEvent(w, e) /\ relay[w].tried = "sent"
    /\ Finalize(w, e, "published")
    /\ NextInBatch(w, e)

(***************************************************************************)
(* The attempts compared are those the claim returned.  While the worker   *)
(* still owns the lock they are the row's: another claim changes both.     *)
(***************************************************************************)
MarkFailed(w, e) ==
    /\ AtEvent(w, e) /\ relay[w].tried = "failed"
    /\ Finalize(w, e, IF outbox[e].attempts >= MaxAttempts THEN "dead_letter" ELSE "pending")
    /\ NextInBatch(w, e)

(* The finalising update fails: the row keeps its lock, the worker goes on. *)
FinalizeError(w, e) ==
    /\ AtEvent(w, e) /\ relay[w].tried # "no"
    /\ NextInBatch(w, e)
    /\ UNCHANGED outbox

(* The process dies, or its pass runs out of time; its rows stay locked. *)
RelayCrash(w) ==
    /\ relay[w].batch # {}
    /\ relay' = [relay EXCEPT ![w] = RelayIdle]
    /\ UNCHANGED outbox
=============================================================================
