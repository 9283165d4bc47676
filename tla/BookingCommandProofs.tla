------------------------ MODULE BookingCommandProofs ------------------------
(* What the two databases and the processes of BookingCommand know of each   *)
(* other (Core), kept by every step; then seats, quota, final decisions and  *)
(* the theorems, for any number of commands, handlers and reconciler workers.*)
EXTENDS BookingCommand, FiniteSetTheorems, TLAPS

\* The rows of one create command, on both sides.
RowsAgree ==
    \A r \in Creates :
        /\ command[r] = "none" => lease[r] = "none" /\ directory[r] = "none" /\ receipt[r] = "none"
        /\ command[r] = "reserved" => lease[r] = "pending" /\ directory[r] = "pending"
        /\ command[r] = "finalized" => /\ lease[r] \in {"active_hold", "released"}
                                       /\ directory[r] = "active" /\ receipt[r] = "succeeded"
        /\ command[r] = "failed" => /\ lease[r] = "released" /\ directory[r] = "failed"
                                    /\ receipt[r] = "rejected"
        /\ command[r] = "expired" => /\ lease[r] = "expired" /\ directory[r] = "failed"
                                     /\ expires[r] <= now
        /\ receipt[r] = "succeeded" <=> status[r] # "none"

\* A confirm or cancel command exists only for a finalized create, and its
\* receipt tells what the shard's reservation has become.
LifecycleAgrees ==
    \A c \in Lifecycle :
        /\ command[c] # "expired"
        /\ command[c] # "none" => command[c.rsv] = "finalized"
        /\ command[c] = "none" => receipt[c] = "none"
        /\ command[c] = "finalized" => receipt[c] = "succeeded"
        /\ command[c] = "failed" => receipt[c] = "rejected"
        /\ receipt[c] = "succeeded" =>
             status[c.rsv] \in (IF c.op = "cancel" THEN {"cancelled"} ELSE {"confirmed", "cancelled"})

\* The lease of a finalized create is released only after its hold has ended.
ReleaseJustified ==
    \A r \in Creates : lease[r] = "released" /\ command[r] = "finalized"
                       => status[r] \in {"confirmed", "cancelled"}

LedgerAgrees ==
    /\ \A r \in Creates : orderLocator[r] \in {"none", ledger[r]}
    /\ \A c \in Lifecycle : command[c] = "finalized" =>
         IF c.op = "cancel" THEN ledger[c.rsv] = "cancelled" ELSE orderLocator[c.rsv] # "none"

\* What a handler carries along is still true when it is used.
HandlerFacts ==
    \A h \in Handlers : handler[h] # Idle =>
        /\ command[handler[h].cmd] # "none"
        /\ handler[h].pc = "finalize" \/ handler[h].replayed =>
             receipt[handler[h].cmd] = "succeeded"

\* A receipt a worker has seen is still there; a missing one may have come.
WorkerFacts ==
    \A w \in Workers : worker[w] # Idle =>
        /\ command[worker[w].cmd] # "none"
        /\ worker[w].pc = "repair" /\ worker[w].seen # "none" =>
             receipt[worker[w].cmd] = worker[w].seen

Core ==
    /\ TypeOK /\ RowsAgree /\ LifecycleAgrees /\ ReleaseJustified
    /\ LedgerAgrees /\ HandlerFacts /\ WorkerFacts

-----------------------------------------------------------------------------
(* Commands and the records that carry them.                               *)

\* A lifecycle command is no create and names a create command's reservation.
LEMMA LifecycleFacts ==
    ASSUME NEW c \in Lifecycle
    PROVE  c \notin Creates /\ c.rsv \in Creates /\ c.op \in {"confirm", "cancel"}
BY Zenon, CommandAssumption DEF LifecycleCommand

\* Every command is of one kind and belongs to one reservation.
LEMMA CommandFacts ==
    ASSUME NEW c \in Commands
    PROVE  /\ c \in Creates => IsCreate(c) /\ ReservationOf(c) = c /\ Operation(c) = "create"
           /\ c \notin Creates => /\ c \in Lifecycle /\ ~IsCreate(c)
                                 /\ ReservationOf(c) = c.rsv /\ Operation(c) = c.op
           /\ ReservationOf(c) \in Creates
BY Zenon, LifecycleFacts DEF Commands, IsCreate, ReservationOf, Operation

\* A busy handler carries a command.
LEMMA BusyHandler ==
    ASSUME TypeOK, NEW h \in Handlers, handler[h] # Idle
    PROVE  /\ handler[h] \in [pc : {"execute", "locked", "finalize"}, cmd : Commands,
                              replayed : BOOLEAN]
           /\ handler[h].cmd \in Commands
BY Zenon DEF TypeOK

\* A busy worker carries a candidate.
LEMMA BusyWorker ==
    ASSUME TypeOK, NEW w \in Workers, worker[w] # Idle
    PROVE  /\ worker[w] \in [pc : {"inspect", "repair"}, cmd : Commands,
                             state : {"reserved", "finalized"},
                             seen : {"none", "succeeded", "rejected"}]
           /\ worker[w].cmd \in Commands
BY Zenon DEF TypeOK

\* A process counter other than "idle" belongs to a busy process.
LEMMA NotIdle == ASSUME NEW p, p.pc # "idle" PROVE p # Idle
BY DEF Idle

\* Only the record of the handler that moves is changed.
LEMMA HandlerUpdate ==
    ASSUME TypeOK, NEW h \in Handlers, NEW rec, handler' = [handler EXCEPT ![h] = rec]
    PROVE  handler'[h] = rec /\ \A g \in Handlers \ {h} : handler'[g] = handler[g]
BY DEF TypeOK

\* A handler's step to another point of its command, or away from it.
LEMMA HandlerMoves ==
    ASSUME TypeOK, NEW h \in Handlers,
           \/ Leave(h)
           \/ \E c \in Commands, pc \in {"execute", "locked", "finalize"}, rep \in BOOLEAN :
                GoTo(h, c, pc, rep)
    PROVE  handler' \in [Handlers -> {Idle} \cup
              [pc : {"execute", "locked", "finalize"}, cmd : Commands, replayed : BOOLEAN]]
BY DEF TypeOK, Leave, GoTo

\* A worker that rests.
LEMMA WorkerRests ==
    ASSUME TypeOK, NEW w \in Workers, Rest(w)
    PROVE  worker' \in [Workers -> {Idle} \cup
              [pc : {"inspect", "repair"}, cmd : Commands,
               state : {"reserved", "finalized"}, seen : {"none", "succeeded", "rejected"}]]
BY Zenon DEF TypeOK, Rest

\* Only the record of the worker that moves is changed.
LEMMA WorkerUpdate ==
    ASSUME TypeOK, NEW w \in Workers, NEW rec, worker' = [worker EXCEPT ![w] = rec]
    PROVE  worker'[w] = rec /\ \A v \in Workers \ {w} : worker'[v] = worker[v]
BY DEF TypeOK

-----------------------------------------------------------------------------
(* Facts persist: no command disappears and no receipt is rewritten.       *)

Persist ==
    \A c \in Commands : /\ command[c] # "none" => command'[c] # "none"
                        /\ receipt[c] # "none" => receipt'[c] = receipt[c]

\* Handlers whose record stays the same or goes back to idle keep their facts.
LEMMA HandlerFactsPersist ==
    ASSUME Core, Persist,
           \A h \in Handlers :
              \/ handler'[h] = handler[h]
              \/ handler'[h] = Idle
              \/ /\ command'[handler'[h].cmd] # "none"
                 /\ handler'[h].pc = "finalize" \/ handler'[h].replayed =>
                      receipt'[handler'[h].cmd] = "succeeded"
    PROVE  HandlerFacts'
<1> SUFFICES ASSUME NEW h \in Handlers, handler'[h] # Idle, handler'[h] = handler[h]
             PROVE  /\ command'[handler'[h].cmd] # "none"
                    /\ handler'[h].pc = "finalize" \/ handler'[h].replayed =>
                         receipt'[handler'[h].cmd] = "succeeded"
  BY Zenon DEF HandlerFacts, Idle
<1>1. handler[h].cmd \in Commands /\ handler[h] # Idle
  BY Zenon, BusyHandler DEF Core
<1>2. QED
  BY Zenon, <1>1 DEF Core, HandlerFacts, Persist

\* Workers whose record stays the same or goes back to idle keep their facts.
LEMMA WorkerFactsPersist ==
    ASSUME Core, Persist,
           \A w \in Workers :
              \/ worker'[w] = worker[w]
              \/ worker'[w] = Idle
              \/ /\ command'[worker'[w].cmd] # "none"
                 /\ worker'[w].pc = "repair" /\ worker'[w].seen # "none" =>
                      receipt'[worker'[w].cmd] = worker'[w].seen
    PROVE  WorkerFacts'
<1> SUFFICES ASSUME NEW w \in Workers, worker'[w] # Idle, worker'[w] = worker[w]
             PROVE  /\ command'[worker'[w].cmd] # "none"
                    /\ worker'[w].pc = "repair" /\ worker'[w].seen # "none" =>
                         receipt'[worker'[w].cmd] = worker'[w].seen
  BY Zenon DEF WorkerFacts, Idle
<1>1. worker[w].cmd \in Commands /\ worker[w] # Idle
  BY Zenon, BusyWorker DEF Core
<1>2. QED
  BY Zenon, <1>1 DEF Core, WorkerFacts, Persist

-----------------------------------------------------------------------------
(* Steps that leave both databases alone.                                  *)

\* Without a change to either database only what processes carry can change.
LEMMA QuietStep ==
    ASSUME Core, UNCHANGED <<control, shard>>, now <= now', TypeOK', HandlerFacts', WorkerFacts'
    PROVE  Core'
<1>1. RowsAgree'
  BY DEF Core, RowsAgree, TypeOK, control, shard
<1>2. LifecycleAgrees'
  BY Zenon DEF Core, LifecycleAgrees, control, shard
<1>3. ReleaseJustified' /\ LedgerAgrees'
  BY Zenon DEF Core, ReleaseJustified, LedgerAgrees, control, shard
<1>4. QED
  BY Zenon, <1>1, <1>2, <1>3 DEF Core

\* Time passes; the claims of commands run out.
LEMMA ClockStep ==
    ASSUME Core, Tick \/ \E c \in Commands : LeaseRunsOut(c)
    PROVE  Core'
<1>1. TypeOK' /\ now <= now' /\ UNCHANGED <<control, shard, handler, worker>>
  BY BoundAssumption DEF Core, TypeOK, Tick, LeaseRunsOut, control, shard
<1>2. Persist
  BY Zenon, <1>1 DEF Persist, control, shard
<1>3. HandlerFacts' /\ WorkerFacts'
  BY Zenon, <1>1, <1>2, HandlerFactsPersist, WorkerFactsPersist
<1>4. QED
  BY Zenon, <1>1, <1>3, QuietStep

\* A handler takes up a stored command, reads a receipt, or is gone.
LEMMA HandlerReads ==
    ASSUME Core, NEW h \in Handlers,
           \/ \E c \in Commands : Replay(h, c)
           \/ ExecuteOnce(h)
           \/ HandlerFails(h)
    PROVE  Core'
<1>1. UNCHANGED <<now, control, claimed, shard, worker>>
  BY Zenon DEF Replay, ExecuteOnce, HandlerFails
<1>2. Persist
  BY Zenon, <1>1 DEF Persist, control, shard
<1>3. WorkerFacts'
  BY Zenon, <1>1, <1>2, WorkerFactsPersist
<1>4. handler' \in [Handlers -> {Idle} \cup
          [pc : {"execute", "locked", "finalize"}, cmd : Commands, replayed : BOOLEAN]]
      /\ HandlerFacts'
  <2>1. CASE \E c \in Commands : Replay(h, c)
    <3>1. PICK c \in Commands : Replay(h, c)
      BY Zenon, <2>1
    <3>2. GoTo(h, c, "execute", command[c] = "finalized") /\ command[c] # "none"
      BY Zenon, <3>1 DEF Replay
    <3>3. command[c] = "finalized" => receipt[c] = "succeeded"
      BY Zenon DEF Core, RowsAgree, LifecycleAgrees, Commands
    <3>4. PICK rep \in BOOLEAN : GoTo(h, c, "execute", rep) /\ (rep => command[c] = "finalized")
      <4>1. CASE command[c] = "finalized"
        <5>1. (command[c] = "finalized") = TRUE
          BY Zenon, <4>1
        <5>2. GoTo(h, c, "execute", TRUE)
          BY Zenon, <3>2, <5>1
        <5>3. QED
          BY Zenon, <4>1, <5>2
      <4>2. CASE command[c] # "finalized"
        <5>1. (command[c] = "finalized") = FALSE
          BY Zenon, <4>2
        <5>2. GoTo(h, c, "execute", FALSE)
          BY Zenon, <3>2, <5>1
        <5>3. QED
          BY Zenon, <5>2
      <4>3. QED
        BY Zenon, <4>1, <4>2
    <3>5. /\ handler'[h] = [pc |-> "execute", cmd |-> c, replayed |-> rep]
          /\ \A g \in Handlers \ {h} : handler'[g] = handler[g]
      BY Zenon, <3>4, HandlerUpdate DEF GoTo, Core
    <3>6. HandlerFacts'
      BY <1>1, <1>2, <3>2, <3>3, <3>4, <3>5, HandlerFactsPersist DEF control, shard
    <3>7. QED
      BY Zenon, <3>4, <3>6, HandlerMoves DEF Core
  <2>2. CASE HandlerFails(h)
    <3>1. handler' = [handler EXCEPT ![h] = Idle]
      BY Zenon, <2>2 DEF HandlerFails, Leave
    <3>2. HandlerFacts'
      BY <1>2, <3>1, HandlerFactsPersist DEF Core, TypeOK
    <3>3. QED
      BY Zenon, <3>1, <3>2, HandlerMoves DEF Core, Leave
  <2>3. CASE ExecuteOnce(h)
    <3> DEFINE c == handler[h].cmd
    <3>1. handler[h] # Idle /\ c \in Commands /\ handler[h].replayed \in BOOLEAN
      BY Zenon, <2>3, NotIdle, BusyHandler DEF ExecuteOnce, Core
    <3>2. command[c] # "none" /\ (handler[h].replayed => receipt[c] = "succeeded")
      BY Zenon, <3>1 DEF Core, HandlerFacts
    <3>3. \/ Leave(h)
          \/ GoTo(h, c, "finalize", FALSE) /\ receipt[c] = "succeeded"
          \/ GoTo(h, c, "locked", handler[h].replayed)
      BY Zenon, <2>3 DEF ExecuteOnce, AfterReceipt
    <3>4. \A g \in Handlers \ {h} : handler'[g] = handler[g]
      BY Zenon, <3>3, HandlerUpdate DEF GoTo, Leave, Core
    <3>5. \/ handler'[h] = Idle
          \/ /\ handler'[h] = [pc |-> "finalize", cmd |-> c, replayed |-> FALSE]
             /\ receipt[c] = "succeeded"
          \/ handler'[h] = [pc |-> "locked", cmd |-> c, replayed |-> handler[h].replayed]
      <4>1. CASE Leave(h)
        BY Zenon, <4>1, HandlerUpdate DEF Leave, Core
      <4>2. CASE GoTo(h, c, "finalize", FALSE) /\ receipt[c] = "succeeded"
        BY Zenon, <4>2, HandlerUpdate DEF GoTo, Core
      <4>3. CASE GoTo(h, c, "locked", handler[h].replayed)
        BY Zenon, <4>3, HandlerUpdate DEF GoTo, Core
      <4>4. QED
        BY Zenon, <3>3, <4>1, <4>2, <4>3
    <3>6. HandlerFacts'
      BY <1>1, <1>2, <3>2, <3>4, <3>5, HandlerFactsPersist DEF control, shard
    <3>7. QED
      BY Zenon, <3>1, <3>3, <3>6, HandlerMoves DEF Core
  <2>4. QED
    BY Zenon, <2>1, <2>2, <2>3
<1>5. TypeOK'
  BY Zenon, <1>1, <1>4 DEF Core, TypeOK, control, shard
<1>6. now <= now'
  BY <1>1 DEF Core, TypeOK
<1>7. QED
  BY Zenon, <1>1, <1>3, <1>4, <1>5, <1>6, QuietStep

\* A worker claims a command, reads its receipt, or is gone.
LEMMA WorkerReads ==
    ASSUME Core, NEW w \in Workers,
           \/ \E c \in Commands : Claim(w, c)
           \/ Inspect(w)
           \/ WorkerFails(w)
    PROVE  Core'
<1>1. UNCHANGED <<now, control, shard, handler>>
  BY Zenon DEF Claim, Inspect, WorkerFails
<1>2. Persist
  BY Zenon, <1>1 DEF Persist, control, shard
<1>3. HandlerFacts'
  BY Zenon, <1>1, <1>2, HandlerFactsPersist
<1>4. /\ claimed' \subseteq Commands
      /\ worker' \in [Workers -> {Idle} \cup
           [pc : {"inspect", "repair"}, cmd : Commands,
            state : {"reserved", "finalized"}, seen : {"none", "succeeded", "rejected"}]]
      /\ WorkerFacts'
  <2>1. CASE \E c \in Commands : Claim(w, c)
    <3>1. PICK c \in Commands : Claim(w, c)
      BY Zenon, <2>1
    <3> DEFINE rec == [pc |-> "inspect", cmd |-> c, state |-> command[c], seen |-> "none"]
    <3>2. command[c] \in {"reserved", "finalized"}
      BY Zenon, <3>1 DEF Claim, Eligible
    <3>3. rec \in [pc : {"inspect", "repair"}, cmd : Commands,
                   state : {"reserved", "finalized"}, seen : {"none", "succeeded", "rejected"}]
      BY Zenon, <3>2
    <3>4. /\ claimed' \subseteq Commands
          /\ worker' = [worker EXCEPT ![w] = rec]
      BY <3>1 DEF Claim, Core, TypeOK
    <3>5. rec.cmd = c /\ rec.pc # "repair"
      BY Zenon
    <3> HIDE DEF rec
    <3>6. worker'[w] = rec /\ \A v \in Workers \ {w} : worker'[v] = worker[v]
      BY Zenon, <3>4, WorkerUpdate DEF Core
    <3>7. WorkerFacts'
      BY Zenon, <1>1, <1>2, <3>2, <3>5, <3>6, WorkerFactsPersist DEF control
    <3>8. QED
      BY Zenon, <3>3, <3>4, <3>7 DEF Core, TypeOK
  <2>2. CASE WorkerFails(w)
    <3>1. Rest(w) /\ claimed' = claimed
      BY Zenon, <2>2 DEF WorkerFails
    <3>2. worker'[w] = Idle /\ \A v \in Workers \ {w} : worker'[v] = worker[v]
      BY Zenon, <3>1, WorkerUpdate DEF Rest, Core
    <3>3. WorkerFacts'
      BY Zenon, <1>2, <3>2, WorkerFactsPersist
    <3>4. QED
      BY Zenon, <3>1, <3>3, WorkerRests DEF Core, TypeOK
  <2>3. CASE Inspect(w)
    <3> DEFINE c == worker[w].cmd
               rec == [worker[w] EXCEPT !.pc = "repair", !.seen = receipt[c]]
    <3>1. /\ worker[w] \in [pc : {"inspect", "repair"}, cmd : Commands,
                            state : {"reserved", "finalized"},
                            seen : {"none", "succeeded", "rejected"}]
          /\ c \in Commands /\ command[c] # "none"
      BY Zenon, <2>3, NotIdle, BusyWorker DEF Inspect, Core, WorkerFacts
    <3>2. receipt[c] \in {"none", "succeeded", "rejected"}
      BY Zenon, <3>1 DEF Core, TypeOK
    <3>3. claimed' = claimed /\ (Rest(w) \/ worker' = [worker EXCEPT ![w] = rec])
      BY Zenon, <2>3 DEF Inspect
    <3>4. /\ rec \in [pc : {"inspect", "repair"}, cmd : Commands,
                      state : {"reserved", "finalized"}, seen : {"none", "succeeded", "rejected"}]
          /\ rec.cmd = c /\ rec.seen = receipt[c]
      BY Zenon, <3>1, <3>2
    <3> HIDE DEF rec
    <3>5. CASE Rest(w)
      <4>1. worker'[w] = Idle /\ \A v \in Workers \ {w} : worker'[v] = worker[v]
        BY Zenon, <3>5, WorkerUpdate DEF Rest, Core
      <4>2. WorkerFacts'
        BY Zenon, <1>2, <4>1, WorkerFactsPersist
      <4>3. QED
        BY Zenon, <3>3, <3>5, <4>2, WorkerRests DEF Core, TypeOK
    <3>6. CASE worker' = [worker EXCEPT ![w] = rec]
      <4>1. worker'[w] = rec /\ \A v \in Workers \ {w} : worker'[v] = worker[v]
        BY Zenon, <3>6, WorkerUpdate DEF Core
      <4>2. WorkerFacts'
        BY Zenon, <1>1, <1>2, <3>1, <3>4, <4>1, WorkerFactsPersist DEF control, shard
      <4>3. QED
        BY Zenon, <3>3, <3>4, <3>6, <4>2 DEF Core, TypeOK
    <3>7. QED
      BY Zenon, <3>3, <3>5, <3>6
  <2>4. QED
    BY Zenon, <2>1, <2>2, <2>3
<1>5. TypeOK'
  BY Zenon, <1>1, <1>4 DEF Core, TypeOK, control, shard
<1>6. now <= now'
  BY <1>1 DEF Core, TypeOK
<1>7. QED
  BY Zenon, <1>1, <1>3, <1>4, <1>5, <1>6, QuietStep

-----------------------------------------------------------------------------
(* The first control transaction.                                          *)

\* A new create command brings its lease and its directory row.
LEMMA ReserveStep ==
    ASSUME Core, NEW h \in Handlers, NEW c \in Commands, Reserve(h, c)
    PROVE  Core'
<1>1. /\ c \in Creates /\ command[c] = "none" /\ receipt[c] = "none" /\ status[c] = "none"
      /\ c \notin Lifecycle
  BY Zenon, LifecycleFacts DEF Reserve, IsCreate, Core, TypeOK, RowsAgree
<1>2. /\ command' = [command EXCEPT ![c] = "reserved"]
      /\ lease' = [lease EXCEPT ![c] = "pending"]
      /\ expires' = [expires EXCEPT ![c] = now + HoldTTL]
      /\ directory' = [directory EXCEPT ![c] = "pending"]
      /\ GoTo(h, c, "execute", FALSE)
      /\ UNCHANGED <<now, ledger, orderLocator, claimed, receipt, status, free, runOpen, worker>>
  BY Zenon DEF Reserve, shard
<1>3. TypeOK'
  <2>1. handler' \in [Handlers -> {Idle} \cup
          [pc : {"execute", "locked", "finalize"}, cmd : Commands, replayed : BOOLEAN]]
    BY Zenon, <1>2, HandlerMoves DEF Core
  <2>2. now + HoldTTL \in Nat
    BY BoundAssumption DEF Core, TypeOK
  <2>3. QED
    BY Zenon, <1>2, <2>1, <2>2 DEF Core, TypeOK
<1>4. RowsAgree'
  BY SMTT(60), <1>1, <1>2 DEF Core, TypeOK, RowsAgree
<1>5. \A d \in Lifecycle : command[d] # "none" => d.rsv # c
  BY Zenon, <1>1 DEF Core, LifecycleAgrees
<1>6. LifecycleAgrees'
  BY SMTT(60), <1>1, <1>2, <1>5, LifecycleFacts DEF Core, TypeOK, LifecycleAgrees, Commands
<1>7. ReleaseJustified' /\ LedgerAgrees'
  BY SMTT(30), <1>1, <1>2, LifecycleFacts DEF Core, TypeOK, ReleaseJustified, LedgerAgrees, Commands
<1>8. Persist
  BY <1>1, <1>2 DEF Persist, Core, TypeOK
<1>9. /\ handler'[h] = [pc |-> "execute", cmd |-> c, replayed |-> FALSE]
      /\ \A g \in Handlers \ {h} : handler'[g] = handler[g]
  BY Zenon, <1>2, HandlerUpdate DEF GoTo, Core
<1>10. command'[c] # "none"
  BY <1>2 DEF Core, TypeOK
<1>11. HandlerFacts'
  BY <1>8, <1>9, <1>10, HandlerFactsPersist
<1>12. WorkerFacts'
  BY Zenon, <1>2, <1>8, WorkerFactsPersist
<1>13. QED
  BY Zenon, <1>3, <1>4, <1>6, <1>7, <1>11, <1>12 DEF Core

\* A new confirm or cancel command is for a finalized create.
LEMMA ReserveLifecycleStep ==
    ASSUME Core, NEW h \in Handlers, NEW c \in Commands, ReserveLifecycle(h, c)
    PROVE  Core'
<1>1. /\ c \in Lifecycle /\ c \notin Creates /\ c.rsv \in Creates
      /\ command[c] = "none" /\ receipt[c] = "none" /\ directory[c.rsv] = "active"
  BY Zenon, LifecycleFacts, CommandFacts DEF ReserveLifecycle, IsCreate, Core, LifecycleAgrees
<1>2. command[c.rsv] = "finalized"
  BY SMTT(30), <1>1 DEF Core, TypeOK, RowsAgree, Commands
<1>3. /\ command' = [command EXCEPT ![c] = "reserved"]
      /\ GoTo(h, c, "execute", FALSE)
      /\ UNCHANGED <<now, lease, expires, directory, ledger, orderLocator, claimed,
                     receipt, status, free, runOpen, worker>>
  BY Zenon DEF ReserveLifecycle, shard
<1>4. TypeOK'
  BY Zenon, <1>3, HandlerMoves DEF Core, TypeOK
<1>5. \A r \in Creates : command'[r] = command[r]
  BY <1>1, <1>3 DEF Core, TypeOK, Commands
<1>6. RowsAgree' /\ ReleaseJustified'
  BY <1>3, <1>5 DEF Core, RowsAgree, ReleaseJustified
<1>7. LifecycleAgrees'
  BY SMTT(30), <1>1, <1>2, <1>3, <1>5, LifecycleFacts DEF Core, TypeOK, LifecycleAgrees, Commands
<1>8. LedgerAgrees'
  BY Zenon, <1>1, <1>3 DEF Core, TypeOK, LedgerAgrees, Commands
<1>9. Persist
  BY <1>1, <1>3 DEF Persist, Core, TypeOK
<1>10. /\ handler'[h] = [pc |-> "execute", cmd |-> c, replayed |-> FALSE]
       /\ \A g \in Handlers \ {h} : handler'[g] = handler[g]
  BY Zenon, <1>3, HandlerUpdate DEF GoTo, Core
<1>11. command'[c] # "none"
  BY <1>3 DEF Core, TypeOK
<1>12. HandlerFacts'
  BY <1>9, <1>10, <1>11, HandlerFactsPersist
<1>13. WorkerFacts'
  BY Zenon, <1>3, <1>9, WorkerFactsPersist
<1>14. QED
  BY Zenon, <1>4, <1>6, <1>7, <1>8, <1>12, <1>13 DEF Core

-----------------------------------------------------------------------------
(* The shard transaction.                                                  *)

Occupied == {r \in Creates : status[r] \in {"held", "confirmed"}}

\* There is room for the seat of a reservation that occupies one.
LEMMA SeatTaken ==
    ASSUME TypeOK, SeatsExact, NEW r \in Creates, status[r] \in {"held", "confirmed"}
    PROVE  free + 1 <= Capacity
<1>1. IsFiniteSet(Occupied) /\ r \in Occupied
  BY Zenon, CommandAssumption, FS_Subset DEF Occupied
<1>2. Cardinality(Occupied) \in Nat /\ Cardinality(Occupied) # 0
  BY Zenon, <1>1, FS_CardinalityType, FS_EmptySet
<1>3. free + Cardinality(Occupied) = Capacity
  BY Zenon DEF SeatsExact, Occupied
<1>4. free \in Int /\ Capacity \in Int
  BY BoundAssumption DEF TypeOK
<1>5. QED
  BY <1>2, <1>3, <1>4

\* What the shard half of a command may do, with its receipt.
Effect(c, outcome, newStatus) ==
    LET r == ReservationOf(c) IN
    /\ receipt[c] = "none"
    /\ receipt' = [receipt EXCEPT ![c] = outcome]
    /\ status' = [status EXCEPT ![r] = newStatus]
    /\ \/ outcome = "rejected" /\ newStatus = status[r] /\ free' = free
       \/ /\ outcome = "succeeded"
          /\ \/ /\ c \in Creates /\ status[r] = "none" /\ newStatus = "held"
                /\ free > 0 /\ free' = free - 1
             \/ /\ c \in Lifecycle /\ c.op = "confirm" /\ status[r] \in {"held", "confirmed"}
                /\ newStatus = "confirmed" /\ free' = free
             \/ /\ c \in Lifecycle /\ c.op = "cancel" /\ status[r] \in {"held", "confirmed"}
                /\ newStatus = "cancelled" /\ free' = free + 1
             \/ /\ c \in Lifecycle /\ c.op = "cancel" /\ status[r] = "cancelled"
                /\ newStatus = "cancelled" /\ free' = free

Outcomes == {"succeeded", "rejected"}
Statuses == {"none", "held", "confirmed", "cancelled", "expired"}

\* Under the fence lock either nothing happens on the shard or one effect.
LEMMA ExecuteCases ==
    ASSUME Core, NEW h \in Handlers, NEW fare \in BOOLEAN, ExecuteLocked(h, fare)
    PROVE  LET c == handler[h].cmd IN
           /\ c \in Commands /\ command[c] # "none"
           /\ UNCHANGED <<now, control, claimed, worker, runOpen>>
           /\ \/ UNCHANGED shard /\ (Leave(h) \/ AfterReceipt(h, c, receipt[c]))
              \/ \E outcome \in Outcomes, newStatus \in Statuses :
                   Effect(c, outcome, newStatus) /\ AfterReceipt(h, c, outcome)
<1> DEFINE c == handler[h].cmd
           r == ReservationOf(c)
<1>1. handler[h] # Idle /\ c \in Commands /\ command[c] # "none"
  BY Zenon, NotIdle, BusyHandler DEF ExecuteLocked, Core, HandlerFacts
<1>2. status[r] \in Statuses /\ status \in [Creates -> Statuses] /\ r \in Creates
      /\ receipt \in [Commands -> {"none", "succeeded", "rejected"}] /\ free \in Int
  BY <1>1, CommandFacts DEF Core, TypeOK, Statuses
<1>3. UNCHANGED <<now, control, claimed, worker, runOpen>>
  BY Zenon DEF ExecuteLocked, shard
<1>4. CASE UNCHANGED shard /\ (Leave(h) \/ AfterReceipt(h, c, receipt[c]))
  BY Zenon, <1>1, <1>3, <1>4
<1>5. CASE /\ receipt[c] = "none"
           /\ CASE Operation(c) = "create" -> CreateReservation(c, fare)
                [] Operation(c) = "confirm" -> ConfirmReservation(c)
                [] Operation(c) = "cancel" -> CancelReservation(c)
           /\ AfterReceipt(h, c, receipt'[c])
  <2> SUFFICES \E outcome \in Outcomes, newStatus \in Statuses :
                  Effect(c, outcome, newStatus) /\ receipt'[c] = outcome
    BY Zenon, <1>1, <1>3, <1>5
  <2>1. CASE c \in Creates
    <3>1. Operation(c) = "create" /\ r = c /\ status[c] = "none"
      BY Zenon, <1>1, <1>5, <2>1, CommandFacts DEF Core, RowsAgree, TypeOK
    <3>2. CreateReservation(c, fare)
      BY Zenon, <1>5, <3>1
    <3>3. CASE fare /\ free > 0
      <4>1. Apply(c, "succeeded", "held", -1)
        BY Zenon, <3>2, <3>3 DEF CreateReservation
      <4>2. Effect(c, "succeeded", "held")
        BY Zenon, <1>2, <1>5, <2>1, <3>1, <3>3, <4>1 DEF Apply, Effect
      <4>3. receipt'[c] = "succeeded"
        BY Zenon, <1>1, <1>2, <4>1 DEF Apply
      <4>4. QED
        BY Zenon, <4>2, <4>3 DEF Outcomes, Statuses
    <3>4. CASE ~(fare /\ free > 0)
      <4>1. Apply(c, "rejected", status[c], 0)
        BY Zenon, <3>2, <3>4 DEF CreateReservation
      <4>2. Effect(c, "rejected", status[r])
        BY <1>2, <1>5, <3>1, <4>1 DEF Apply, Effect
      <4>3. receipt'[c] = "rejected"
        BY Zenon, <1>1, <1>2, <4>1 DEF Apply
      <4>4. QED
        BY Zenon, <1>2, <4>2, <4>3 DEF Outcomes
    <3>5. QED
      BY Zenon, <3>3, <3>4
  <2>2. CASE c \notin Creates
    <3>1. c \in Lifecycle /\ Operation(c) = c.op /\ r = c.rsv /\ c.op \in {"confirm", "cancel"}
      BY Zenon, <1>1, <2>2, CommandFacts, LifecycleFacts
    <3>2. CASE c.op = "confirm"
      <4>1. ConfirmReservation(c)
        BY Zenon, <1>5, <3>1, <3>2
      <4>2. CASE status[r] \in {"held", "confirmed"} /\ Apply(c, "succeeded", "confirmed", 0)
        <5>1. Effect(c, "succeeded", "confirmed")
          BY SMTT(30), <1>2, <1>5, <3>1, <3>2, <4>2 DEF Apply, Effect
        <5>2. receipt'[c] = "succeeded"
          BY Zenon, <1>1, <1>2, <4>2 DEF Apply
        <5>3. QED
          BY Zenon, <5>1, <5>2 DEF Outcomes, Statuses
      <4>3. CASE Apply(c, "rejected", status[r], 0)
        <5>1. Effect(c, "rejected", status[r])
          BY <1>2, <1>5, <4>3 DEF Apply, Effect
        <5>2. receipt'[c] = "rejected"
          BY Zenon, <1>1, <1>2, <4>3 DEF Apply
        <5>3. QED
          BY Zenon, <1>2, <5>1, <5>2 DEF Outcomes
      <4>4. QED
        BY Zenon, <3>1, <4>1, <4>2, <4>3 DEF ConfirmReservation
    <3>3. CASE c.op = "cancel"
      <4>1. CancelReservation(c)
        BY Zenon, <1>5, <3>1, <3>3
      <4>2. CASE status[r] \in {"held", "confirmed"} /\ Apply(c, "succeeded", "cancelled", 1)
        <5>1. Effect(c, "succeeded", "cancelled")
          BY Zenon, <1>2, <1>5, <3>1, <3>3, <4>2 DEF Apply, Effect
        <5>2. receipt'[c] = "succeeded"
          BY Zenon, <1>1, <1>2, <4>2 DEF Apply
        <5>3. QED
          BY Zenon, <5>1, <5>2 DEF Outcomes, Statuses
      <4>3. CASE status[r] = "cancelled" /\ Apply(c, "succeeded", "cancelled", 0)
        <5>1. Effect(c, "succeeded", "cancelled")
          BY <1>2, <1>5, <3>1, <3>3, <4>3 DEF Apply, Effect
        <5>2. receipt'[c] = "succeeded"
          BY Zenon, <1>1, <1>2, <4>3 DEF Apply
        <5>3. QED
          BY Zenon, <5>1, <5>2 DEF Outcomes, Statuses
      <4>4. CASE Apply(c, "rejected", status[r], 0)
        <5>1. Effect(c, "rejected", status[r])
          BY <1>2, <1>5, <4>4 DEF Apply, Effect
        <5>2. receipt'[c] = "rejected"
          BY Zenon, <1>1, <1>2, <4>4 DEF Apply
        <5>3. QED
          BY Zenon, <1>2, <5>1, <5>2 DEF Outcomes
      <4>5. QED
        BY Zenon, <3>1, <4>1, <4>2, <4>3, <4>4 DEF CancelReservation
    <3>4. QED
      BY Zenon, <3>1, <3>2, <3>3
  <2>3. QED
    BY Zenon, <2>1, <2>2
<1>6. QED
  BY Zenon, <1>4, <1>5 DEF ExecuteLocked

-----------------------------------------------------------------------------
(* The shard transactions and the second control transaction.                *)

\* What the handler does with a receipt keeps its facts.
LEMMA AfterReceiptMoves ==
    ASSUME Core, Persist, NEW h \in Handlers, handler[h] # Idle,
           NEW outcome, receipt'[handler[h].cmd] = outcome,
           Leave(h) \/ AfterReceipt(h, handler[h].cmd, outcome)
    PROVE  /\ handler' \in [Handlers -> {Idle} \cup
                [pc : {"execute", "locked", "finalize"}, cmd : Commands, replayed : BOOLEAN]]
           /\ HandlerFacts'
<1> DEFINE c == handler[h].cmd
<1>1. c \in Commands /\ command[c] # "none"
  BY Zenon, BusyHandler DEF Core, HandlerFacts
<1>2. CASE Leave(h)
  <2>1. handler'[h] = Idle /\ \A g \in Handlers \ {h} : handler'[g] = handler[g]
    BY Zenon, <1>2, HandlerUpdate DEF Leave, Core
  <2>2. HandlerFacts'
    BY Zenon, <2>1, HandlerFactsPersist
  <2>3. QED
    BY Zenon, <1>2, <2>2, HandlerMoves DEF Core
<1>3. CASE outcome = "succeeded" /\ GoTo(h, c, "finalize", FALSE)
  <2>1. /\ handler'[h] = [pc |-> "finalize", cmd |-> c, replayed |-> FALSE]
        /\ \A g \in Handlers \ {h} : handler'[g] = handler[g]
    BY Zenon, <1>3, HandlerUpdate DEF GoTo, Core
  <2>2. HandlerFacts'
    BY <1>1, <1>3, <2>1, HandlerFactsPersist DEF Persist
  <2>3. QED
    BY Zenon, <1>1, <1>3, <2>2, HandlerMoves DEF Core
<1>4. QED
  BY Zenon, <1>2, <1>3 DEF AfterReceipt

\* The shard half of a command.
LEMMA EffectStep ==
    ASSUME Core, SeatsExact, NEW h \in Handlers, handler[h] # Idle,
           NEW outcome \in Outcomes, NEW newStatus \in Statuses,
           Effect(handler[h].cmd, outcome, newStatus), AfterReceipt(h, handler[h].cmd, outcome),
           UNCHANGED <<now, control, claimed, worker, runOpen>>
    PROVE  Core'
<1> DEFINE c == handler[h].cmd
           r == ReservationOf(c)
<1>1. c \in Commands /\ command[c] # "none" /\ r \in Creates
  BY Zenon, BusyHandler, CommandFacts DEF Core, HandlerFacts
<1>2. /\ receipt[c] = "none" /\ receipt' = [receipt EXCEPT ![c] = outcome]
      /\ status' = [status EXCEPT ![r] = newStatus]
  BY Zenon DEF Effect
<1>3. /\ receipt'[c] = outcome /\ status'[r] = newStatus
      /\ \A d \in Commands \ {c} : receipt'[d] = receipt[d]
      /\ \A q \in Creates \ {r} : status'[q] = status[q]
  BY <1>1, <1>2 DEF Core, TypeOK
<1>4. Persist
  BY Zenon, <1>2, <1>3 DEF Persist, control
<1>5. /\ handler' \in [Handlers -> {Idle} \cup
            [pc : {"execute", "locked", "finalize"}, cmd : Commands, replayed : BOOLEAN]]
      /\ HandlerFacts'
  BY Zenon, <1>3, <1>4, AfterReceiptMoves
<1>6. WorkerFacts'
  BY Zenon, <1>4, WorkerFactsPersist
<1>7. free' \in 0 .. Capacity
  <2>1. free \in 0 .. Capacity /\ free \in Int /\ Capacity \in Int
    BY BoundAssumption DEF Core, TypeOK
  <2>2. CASE free' = free
    BY Zenon, <2>1, <2>2
  <2>3. CASE free > 0 /\ free' = free - 1
    BY <2>1, <2>3
  <2>4. CASE status[r] \in {"held", "confirmed"} /\ free' = free + 1
    BY <1>1, <2>1, <2>4, SeatTaken DEF Core
  <2>5. QED
    BY Zenon, <2>2, <2>3, <2>4 DEF Effect
<1>8. TypeOK'
  <2>1. /\ receipt' \in [Commands -> {"none", "succeeded", "rejected"}]
        /\ status' \in [Creates -> {"none", "held", "confirmed", "cancelled", "expired"}]
    BY Zenon, <1>1, <1>2 DEF Core, TypeOK, Outcomes, Statuses
  <2>2. QED
    BY Zenon, <1>5, <1>7, <2>1 DEF Core, TypeOK, control
<1>9. UNCHANGED <<command, lease, expires, directory, ledger, orderLocator>>
  BY Zenon DEF control
<1>10. CASE outcome = "rejected"
  <2>1. \A q \in Creates : status'[q] = status[q]
    BY Zenon, <1>1, <1>3, <1>10 DEF Effect
  <2>2. \A q \in Creates : receipt'[q] = receipt[q] \/
             (receipt[q] = "none" /\ receipt'[q] = "rejected" /\ command[q] # "none")
    BY Zenon, <1>1, <1>2, <1>3, <1>10 DEF Commands
  <2>3. RowsAgree'
    BY <1>9, <2>1, <2>2 DEF Core, TypeOK, RowsAgree
  <2>4. \A d \in Lifecycle : receipt'[d] = receipt[d] \/
             (receipt[d] = "none" /\ receipt'[d] = "rejected" /\ command[d] # "none")
    BY Zenon, <1>1, <1>2, <1>3, <1>10 DEF Commands
  <2>5. LifecycleAgrees'
    BY <1>9, <2>1, <2>4, LifecycleFacts DEF Core, LifecycleAgrees
  <2>6. ReleaseJustified' /\ LedgerAgrees'
    BY Zenon, <1>9, <2>1 DEF Core, ReleaseJustified, LedgerAgrees
  <2>7. QED
    BY Zenon, <1>5, <1>6, <1>8, <2>3, <2>5, <2>6 DEF Core
<1>11. CASE outcome = "succeeded" /\ c \in Creates
  <2>1. r = c /\ c \notin Lifecycle /\ status[c] = "none" /\ newStatus = "held"
    BY Zenon, <1>1, <1>11, CommandFacts, LifecycleFacts DEF Effect
  <2>2. command[c] \in {"reserved", "expired"}
    BY SMTT(30), <1>1, <1>2, <1>11 DEF Core, TypeOK, RowsAgree
  <2>3. RowsAgree'
    BY SMTT(30), <1>1, <1>3, <1>9, <1>11, <2>1, <2>2 DEF Core, TypeOK, RowsAgree, Commands
  <2>4. \A d \in Lifecycle : receipt'[d] = receipt[d]
    BY Zenon, <1>3, <2>1 DEF Commands
  <2>5. \A d \in Lifecycle : command[d] # "none" => d.rsv # c
    BY Zenon, <2>2 DEF Core, LifecycleAgrees
  <2>6. \A d \in Lifecycle : receipt[d] = "none" \/ status'[d.rsv] = status[d.rsv]
    BY SMTT(30), <1>3, <2>1, <2>5, LifecycleFacts DEF Core, LifecycleAgrees
  <2>7. LifecycleAgrees'
    BY <1>9, <2>4, <2>6 DEF Core, LifecycleAgrees
  <2>8. ReleaseJustified'
    BY Zenon, <1>3, <1>9, <2>1, <2>2 DEF Core, ReleaseJustified
  <2>9. LedgerAgrees'
    BY <1>9 DEF Core, LedgerAgrees
  <2>10. QED
    BY Zenon, <1>5, <1>6, <1>8, <2>3, <2>7, <2>8, <2>9 DEF Core
<1>12. CASE outcome = "succeeded" /\ c \notin Creates
  <2>1. c \in Lifecycle /\ r = c.rsv /\ c.op \in {"confirm", "cancel"}
    BY Zenon, <1>1, <1>12, CommandFacts, LifecycleFacts
  <2>2. /\ status[r] \in {"held", "confirmed", "cancelled"}
        /\ newStatus = (IF c.op = "cancel" THEN "cancelled" ELSE "confirmed")
        /\ status[r] = "cancelled" => newStatus = "cancelled"
    BY Zenon, <1>12, <2>1 DEF Effect
  <2>3. \A q \in Creates : receipt'[q] = receipt[q] /\ (status'[q] = "none" <=> status[q] = "none")
    BY Zenon, <1>3, <1>12, <2>2 DEF Commands
  <2>4. RowsAgree'
    BY <1>9, <2>3 DEF Core, TypeOK, RowsAgree
  <2>5. \A q \in Creates :
           /\ status[q] = "cancelled" => status'[q] = "cancelled"
           /\ status[q] = "confirmed" => status'[q] \in {"confirmed", "cancelled"}
    BY Zenon, <1>3, <2>2
  <2>6. LifecycleAgrees'
    <3> SUFFICES ASSUME NEW d \in Lifecycle
                 PROVE  /\ command[d] = "none" => receipt'[d] = "none"
                        /\ command[d] = "finalized" => receipt'[d] = "succeeded"
                        /\ command[d] = "failed" => receipt'[d] = "rejected"
                        /\ receipt'[d] = "succeeded" => status'[d.rsv] \in
                             (IF d.op = "cancel" THEN {"cancelled"} ELSE {"confirmed", "cancelled"})
      BY Zenon, <1>9 DEF Core, LifecycleAgrees
    <3>1. CASE d = c
      BY SMTT(60), <1>1, <1>2, <1>3, <1>12, <2>1, <2>2, <3>1 DEF Core, LifecycleAgrees
    <3>2. CASE d # c
      <4>1. receipt'[d] = receipt[d] /\ d.rsv \in Creates
        BY Zenon, <1>3, <3>2, LifecycleFacts DEF Commands
      <4>2. /\ status[d.rsv] = "cancelled" => status'[d.rsv] = "cancelled"
            /\ status[d.rsv] = "confirmed" => status'[d.rsv] \in {"confirmed", "cancelled"}
        BY Zenon, <2>5, <4>1
      <4>3. /\ command[d] = "none" => receipt[d] = "none"
            /\ command[d] = "finalized" => receipt[d] = "succeeded"
            /\ command[d] = "failed" => receipt[d] = "rejected"
            /\ receipt[d] = "succeeded" => status[d.rsv] \in
                 (IF d.op = "cancel" THEN {"cancelled"} ELSE {"confirmed", "cancelled"})
        BY Zenon DEF Core, LifecycleAgrees
      <4>4. QED
        BY Zenon, <4>1, <4>2, <4>3
    <3>3. QED
      BY Zenon, <3>1, <3>2
  <2>7. ReleaseJustified'
    <3> SUFFICES ASSUME NEW q \in Creates, lease[q] = "released", command[q] = "finalized"
                 PROVE  status'[q] \in {"confirmed", "cancelled"}
      BY Zenon, <1>9 DEF ReleaseJustified
    <3>1. status[q] \in {"confirmed", "cancelled"}
      BY Zenon DEF Core, ReleaseJustified
    <3>2. QED
      BY Zenon, <2>5, <3>1
  <2>8. LedgerAgrees'
    BY Zenon, <1>9 DEF Core, LedgerAgrees
  <2>9. QED
    BY Zenon, <1>5, <1>6, <1>8, <2>4, <2>6, <2>7, <2>8 DEF Core
<1>13. QED
  BY Zenon, <1>10, <1>11, <1>12 DEF Outcomes

\* The shard transaction of a command as a whole.
LEMMA ExecuteStep ==
    ASSUME Core, SeatsExact, NEW h \in Handlers, NEW fare \in BOOLEAN, ExecuteLocked(h, fare)
    PROVE  Core'
<1> DEFINE c == handler[h].cmd
<1>1. handler[h] # Idle
  BY Zenon, NotIdle DEF ExecuteLocked
<1>2. UNCHANGED <<now, control, claimed, worker, runOpen>>
  BY Zenon, ExecuteCases
<1>3. CASE UNCHANGED shard /\ (Leave(h) \/ AfterReceipt(h, c, receipt[c]))
  <2>1. Persist /\ receipt'[c] = receipt[c]
    BY Zenon, <1>2, <1>3 DEF Persist, control, shard
  <2>2. /\ handler' \in [Handlers -> {Idle} \cup
              [pc : {"execute", "locked", "finalize"}, cmd : Commands, replayed : BOOLEAN]]
        /\ HandlerFacts'
    BY Zenon, <1>1, <1>3, <2>1, AfterReceiptMoves
  <2>3. WorkerFacts'
    BY Zenon, <1>2, <2>1, WorkerFactsPersist
  <2>4. TypeOK' /\ now <= now'
    BY <1>2, <1>3, <2>2 DEF Core, TypeOK, control, shard
  <2>5. QED
    BY Zenon, <1>2, <1>3, <2>2, <2>3, <2>4, QuietStep
<1>4. CASE \E outcome \in Outcomes, newStatus \in Statuses :
             Effect(c, outcome, newStatus) /\ AfterReceipt(h, c, outcome)
  BY Zenon, <1>1, <1>2, <1>4, EffectStep
<1>5. QED
  BY Zenon, <1>3, <1>4, ExecuteCases

\* The operator closes the run; the hold expirer ends a hold.
LEMMA ShardMaintenance ==
    ASSUME Core, SeatsExact, CancelTrainRun \/ \E r \in Creates : ExpireHold(r)
    PROVE  Core'
<1>1. UNCHANGED <<now, control, claimed, receipt, handler, worker>>
  BY Zenon DEF CancelTrainRun, ExpireHold
<1>2. UNCHANGED <<command, lease, expires, directory, ledger, orderLocator>>
  BY Zenon, <1>1 DEF control
<1>3. Persist
  BY Zenon, <1>1, <1>2 DEF Persist
<1>4. HandlerFacts' /\ WorkerFacts'
  BY Zenon, <1>1, <1>3, HandlerFactsPersist, WorkerFactsPersist
<1>5. CASE CancelTrainRun
  <2>1. UNCHANGED <<status, free>> /\ runOpen' = FALSE
    BY Zenon, <1>5 DEF CancelTrainRun
  <2>2. TypeOK' /\ RowsAgree'
    BY Zenon, <1>1, <1>2, <2>1 DEF Core, TypeOK, RowsAgree
  <2>3. LifecycleAgrees' /\ ReleaseJustified' /\ LedgerAgrees'
    BY <1>1, <1>2, <2>1 DEF Core, LifecycleAgrees, ReleaseJustified, LedgerAgrees
  <2>4. QED
    BY Zenon, <1>4, <2>2, <2>3 DEF Core
<1>6. ASSUME NEW r \in Creates, ExpireHold(r) PROVE Core'
  <2>1. status[r] = "held" /\ status' = [status EXCEPT ![r] = "expired"] /\ free' = free + 1
        /\ runOpen' = runOpen
    BY Zenon, <1>6 DEF ExpireHold
  <2>2. free' \in 0 .. Capacity
    <3>1. free + 1 <= Capacity
      BY Zenon, <2>1, SeatTaken DEF Core
    <3>2. QED
      BY <2>1, <3>1, BoundAssumption DEF Core, TypeOK
  <2>3. TypeOK'
    BY Zenon, <1>1, <1>2, <2>1, <2>2 DEF Core, TypeOK
  <2>4. \A q \in Creates : status'[q] = status[q] \/ (status[q] = "held" /\ status'[q] = "expired")
    BY <2>1 DEF Core, TypeOK
  <2>5. RowsAgree'
    BY <1>1, <1>2, <2>4 DEF Core, TypeOK, RowsAgree
  <2>6. LifecycleAgrees'
    <3> SUFFICES ASSUME NEW d \in Lifecycle, receipt[d] = "succeeded"
                 PROVE  status'[d.rsv] = status[d.rsv]
      BY Zenon, <1>1, <1>2 DEF Core, LifecycleAgrees
    <3>1. status[d.rsv] # "held" /\ d.rsv \in Creates
      BY Zenon, LifecycleFacts DEF Core, LifecycleAgrees
    <3>2. QED
      BY Zenon, <2>4, <3>1
  <2>7. ReleaseJustified'
    <3> SUFFICES ASSUME NEW q \in Creates, lease[q] = "released", command[q] = "finalized"
                 PROVE  status'[q] \in {"confirmed", "cancelled"}
      BY Zenon, <1>2 DEF ReleaseJustified
    <3>1. status[q] \in {"confirmed", "cancelled"}
      BY Zenon DEF Core, ReleaseJustified
    <3>2. QED
      BY Zenon, <2>4, <3>1
  <2>8. LedgerAgrees'
    BY Zenon, <1>2 DEF Core, LedgerAgrees
  <2>9. QED
    BY Zenon, <1>4, <2>3, <2>5, <2>6, <2>7, <2>8 DEF Core
<1>7. QED
  BY Zenon, <1>5, <1>6

-----------------------------------------------------------------------------
(* The second control transaction.                                         *)

\* A create that committed on the shard becomes finalized, by either side.
LEMMA CreateFinalized ==
    ASSUME Core, NEW c \in Creates, command[c] \in {"reserved", "finalized"},
           receipt[c] = "succeeded", FinalizeCreate(c) \/ FinalizeCandidate(c),
           UNCHANGED <<now, shard>>
    PROVE  /\ command' = [command EXCEPT ![c] = "finalized"]
           /\ UNCHANGED <<expires, ledger, orderLocator>>
           /\ lease' \in [Creates -> {"none", "pending", "active_hold", "released", "expired"}]
           /\ directory' \in [Creates -> {"none", "pending", "active", "failed"}]
           /\ RowsAgree' /\ LifecycleAgrees' /\ ReleaseJustified' /\ LedgerAgrees'
<1>1. /\ command' = [command EXCEPT ![c] = "finalized"]
      /\ UNCHANGED <<expires, ledger, orderLocator, receipt, status>>
  BY Zenon DEF FinalizeCreate, FinalizeCandidate, shard
<1>2. /\ lease' \in [Creates -> {"none", "pending", "active_hold", "released", "expired"}]
      /\ directory' \in [Creates -> {"none", "pending", "active", "failed"}]
  BY DEF Core, TypeOK, FinalizeCreate, FinalizeCandidate
<1>3. c \in Commands /\ c \notin Lifecycle
  BY Zenon, CommandAssumption DEF Commands
<1>4. /\ command'[c] = "finalized" /\ directory'[c] = "active"
      /\ lease'[c] = "active_hold" \/ (lease'[c] = lease[c] /\ command[c] = "finalized")
      /\ lease'[c] \in {"active_hold", "released"}
  BY SMTT(60), <1>1, <1>3 DEF Core, TypeOK, RowsAgree, FinalizeCreate, FinalizeCandidate
<1>5. \A q \in Creates \ {c} :
         command'[q] = command[q] /\ lease'[q] = lease[q] /\ directory'[q] = directory[q]
  BY <1>1 DEF Core, TypeOK, FinalizeCreate, FinalizeCandidate, Commands
<1>6. \A d \in Lifecycle : command'[d] = command[d]
  BY <1>1, <1>3 DEF Core, TypeOK, Commands
<1>7. \A q \in Creates : command[q] = "finalized" => command'[q] = "finalized"
  BY Zenon, <1>4, <1>5
<1>8. RowsAgree'
  <2> SUFFICES ASSUME NEW q \in Creates
               PROVE  RowsAgree!(q)'
    BY Zenon DEF RowsAgree
  <2>1. RowsAgree!(q)
    BY Zenon DEF Core, RowsAgree
  <2>2. CASE q = c
    BY Zenon, <1>1, <1>4, <2>1, <2>2
  <2>3. CASE q # c
    <3>1. command'[q] = command[q] /\ lease'[q] = lease[q] /\ directory'[q] = directory[q]
      BY Zenon, <1>5, <2>3
    <3>2. now' = now
      BY Zenon
    <3>3. QED
      BY Zenon, <1>1, <2>1, <3>1, <3>2
  <2>4. QED
    BY Zenon, <2>2, <2>3
<1>9. LifecycleAgrees'
  BY SMTT(60), <1>1, <1>6, <1>7, LifecycleFacts DEF Core, LifecycleAgrees
<1>10. ReleaseJustified'
  BY SMTT(60), <1>1, <1>4, <1>5 DEF Core, ReleaseJustified
<1>11. LedgerAgrees'
  BY Zenon, <1>1, <1>6 DEF Core, LedgerAgrees
<1>12. QED
  BY Zenon, <1>1, <1>2, <1>8, <1>9, <1>10, <1>11

\* A confirm or cancel that committed on the shard is finalized, by either side.
LEMMA LifecycleFinalized ==
    ASSUME Core, NEW c \in Lifecycle, command[c] \in {"reserved", "finalized"},
           receipt[c] = "succeeded", FinalizeLifecycle(c), UNCHANGED <<now, shard>>
    PROVE  /\ command' = [command EXCEPT ![c] = "finalized"]
           /\ UNCHANGED <<expires, directory>>
           /\ lease' \in [Creates -> {"none", "pending", "active_hold", "released", "expired"}]
           /\ ledger' \in [Creates -> {"none", "confirmed", "cancelled"}]
           /\ orderLocator' \in [Creates -> {"none", "confirmed", "cancelled"}]
           /\ RowsAgree' /\ LifecycleAgrees' /\ ReleaseJustified' /\ LedgerAgrees'
<1> DEFINE r == c.rsv
<1>1. /\ command' = [command EXCEPT ![c] = "finalized"]
      /\ UNCHANGED <<expires, directory, receipt, status, now>>
      /\ ledger' = [ledger EXCEPT ![r] = Advanced(r, c.op)]
      /\ orderLocator' = [orderLocator EXCEPT ![r] =
           IF c.op = "confirm" \/ @ # "none" THEN Advanced(r, c.op) ELSE @]
      /\ lease' = [lease EXCEPT ![r] =
           IF @ \in {"pending", "active_hold", "released"} THEN "released" ELSE @]
  BY Zenon DEF FinalizeLifecycle, shard
<1>2. c \in Commands /\ c \notin Creates /\ r \in Creates /\ c.op \in {"confirm", "cancel"}
  BY Zenon, LifecycleFacts DEF Commands
<1>3. Advanced(r, c.op) \in {"confirmed", "cancelled"}
  BY Zenon DEF Advanced
<1>4. /\ lease' \in [Creates -> {"none", "pending", "active_hold", "released", "expired"}]
      /\ ledger' \in [Creates -> {"none", "confirmed", "cancelled"}]
      /\ orderLocator' \in [Creates -> {"none", "confirmed", "cancelled"}]
  BY SMTT(30), <1>1, <1>2, <1>3 DEF Core, TypeOK
<1>5. /\ command[r] = "finalized" /\ lease[r] \in {"active_hold", "released"}
      /\ status[r] \in {"confirmed", "cancelled"}
  BY Zenon, <1>2 DEF Core, RowsAgree, LifecycleAgrees
<1>6. /\ lease'[r] = "released" /\ ledger'[r] = Advanced(r, c.op)
      /\ orderLocator'[r] = (IF c.op = "confirm" \/ orderLocator[r] # "none"
                             THEN Advanced(r, c.op) ELSE "none")
  BY SMTT(30), <1>1, <1>2, <1>5 DEF Core, TypeOK
<1>7. \A q \in Creates \ {r} :
         lease'[q] = lease[q] /\ ledger'[q] = ledger[q] /\ orderLocator'[q] = orderLocator[q]
  BY <1>1, <1>2 DEF Core, TypeOK
<1>8. /\ \A q \in Creates : command'[q] = command[q]
      /\ \A d \in Lifecycle : command'[d] = IF d = c THEN "finalized" ELSE command[d]
  BY SMTT(30), <1>1, <1>2 DEF Core, TypeOK, Commands
<1>9. RowsAgree'
  <2> SUFFICES ASSUME NEW q \in Creates PROVE RowsAgree!(q)'
    BY Zenon DEF RowsAgree
  <2>1. RowsAgree!(q)
    BY Zenon DEF Core, RowsAgree
  <2>2. CASE q = r
    BY SMTT(30), <1>1, <1>5, <1>6, <1>8, <2>1, <2>2
  <2>3. CASE q # r
    BY Zenon, <1>1, <1>7, <1>8, <2>1, <2>3
  <2>4. QED
    BY Zenon, <2>2, <2>3
<1>10. LifecycleAgrees'
  BY SMTT(60), <1>1, <1>2, <1>5, <1>8, LifecycleFacts DEF Core, LifecycleAgrees
<1>11. ReleaseJustified'
  BY SMTT(30), <1>1, <1>5, <1>6, <1>7, <1>8 DEF Core, ReleaseJustified
<1>12. LedgerAgrees'
  <2>1. \A q \in Creates : orderLocator'[q] \in {"none", ledger'[q]}
    BY Zenon, <1>6, <1>7 DEF Core, LedgerAgrees
  <2>2. ASSUME NEW d \in Lifecycle, command'[d] = "finalized"
        PROVE  IF d.op = "cancel" THEN ledger'[d.rsv] = "cancelled"
               ELSE orderLocator'[d.rsv] # "none"
    <3>1. d.rsv \in Creates /\ d.op \in {"confirm", "cancel"}
      BY Zenon, LifecycleFacts
    <3>2. CASE d = c
      BY Zenon, <1>2, <1>6, <3>2 DEF Advanced
    <3>3. CASE d # c
      <4>1. IF d.op = "cancel" THEN ledger[d.rsv] = "cancelled" ELSE orderLocator[d.rsv] # "none"
        BY Zenon, <1>8, <2>2, <3>3 DEF Core, LedgerAgrees
      <4>2. CASE d.rsv = r
        BY Zenon, <1>3, <1>6, <4>1, <4>2 DEF Advanced
      <4>3. CASE d.rsv # r
        BY Zenon, <1>7, <3>1, <4>1, <4>3
      <4>4. QED
        BY Zenon, <4>2, <4>3
    <3>4. QED
      BY Zenon, <3>2, <3>3
  <2>3. QED
    BY Zenon, <2>1, <2>2 DEF LedgerAgrees
<1>13. QED
  BY Zenon, <1>1, <1>4, <1>9, <1>10, <1>11, <1>12

\* A command the shard rejected fails; a create whose deadline passed expires.
LEMMA CommandTerminated ==
    ASSUME Core, NEW c \in Commands, command[c] \in {"reserved", "failed", "expired"},
           UNCHANGED <<now, shard>>,
           \/ receipt[c] = "rejected" /\ Terminal(c, "failed", "released")
           \/ c \in Creates /\ expires[c] <= now /\ Terminal(c, "expired", "expired")
    PROVE  /\ \E target \in {"failed", "expired"} : command' = [command EXCEPT ![c] = target]
           /\ UNCHANGED <<expires, ledger, orderLocator>>
           /\ lease' \in [Creates -> {"none", "pending", "active_hold", "released", "expired"}]
           /\ directory' \in [Creates -> {"none", "pending", "active", "failed"}]
           /\ RowsAgree' /\ LifecycleAgrees' /\ ReleaseJustified' /\ LedgerAgrees'
<1>1. UNCHANGED <<expires, ledger, orderLocator, receipt, status, now>>
  BY Zenon DEF Terminal, shard
<1>2. \E target \in {"failed", "expired"} : command' = [command EXCEPT ![c] = target]
  BY Zenon DEF Terminal
<1>3. command'[c] \in {"failed", "expired"} /\ \A d \in Commands \ {c} : command'[d] = command[d]
  BY <1>2 DEF Core, TypeOK
<1>4. \A q \in Creates : command[q] = "finalized" => command'[q] = "finalized"
  BY Zenon, <1>3 DEF Commands
<1>5. LedgerAgrees'
  <2>1. \A d \in Lifecycle : command'[d] = "finalized" => command[d] = "finalized"
    BY Zenon, <1>3 DEF Commands
  <2>2. QED
    BY Zenon, <1>1, <2>1 DEF Core, LedgerAgrees
<1>6. CASE c \in Creates
  <2>1. /\ directory' = [directory EXCEPT ![c] = "failed"]
        /\ \/ /\ receipt[c] = "rejected" /\ command'[c] = "failed"
              /\ lease' = [lease EXCEPT ![c] = "released"]
           \/ /\ expires[c] <= now /\ command'[c] = "expired"
              /\ lease' = [lease EXCEPT ![c] = "expired"]
    BY <1>6 DEF Terminal, IsCreate, Core, TypeOK
  <2>2. /\ lease' \in [Creates -> {"none", "pending", "active_hold", "released", "expired"}]
        /\ directory' \in [Creates -> {"none", "pending", "active", "failed"}]
    BY ZenonT(60), <2>1 DEF Core, TypeOK
  <2>3. /\ directory'[c] = "failed"
        /\ \/ receipt[c] = "rejected" /\ command'[c] = "failed" /\ lease'[c] = "released"
           \/ expires[c] <= now /\ command'[c] = "expired" /\ lease'[c] = "expired"
        /\ \A q \in Creates \ {c} : lease'[q] = lease[q] /\ directory'[q] = directory[q]
    BY <1>6, <2>1 DEF Core, TypeOK
  <2>4. RowsAgree'
    <3> SUFFICES ASSUME NEW q \in Creates PROVE RowsAgree!(q)'
      BY Zenon DEF RowsAgree
    <3>1. RowsAgree!(q)
      BY Zenon DEF Core, RowsAgree
    <3>2. CASE q = c
      BY Zenon, <1>1, <2>3, <3>1, <3>2
    <3>3. CASE q # c
      BY Zenon, <1>1, <1>3, <2>3, <3>1, <3>3 DEF Commands
    <3>4. QED
      BY Zenon, <3>2, <3>3
  <2>5. \A d \in Lifecycle : command'[d] = command[d]
    BY Zenon, <1>3, <1>6, LifecycleFacts DEF Commands
  <2>6. LifecycleAgrees'
    BY SMTT(60), <1>1, <1>4, <2>5, LifecycleFacts DEF Core, LifecycleAgrees
  <2>7. ReleaseJustified'
    BY Zenon, <1>1, <1>3, <2>3 DEF Core, ReleaseJustified, Commands
  <2>8. QED
    BY Zenon, <1>1, <1>2, <1>5, <2>2, <2>4, <2>6, <2>7
<1>7. CASE c \notin Creates
  <2>1. c \in Lifecycle /\ receipt[c] = "rejected" /\ command'[c] = "failed"
        /\ UNCHANGED <<directory, lease>>
    BY <1>7, CommandFacts DEF Terminal, Core, TypeOK
  <2>2. \A q \in Creates : command'[q] = command[q]
    BY Zenon, <1>3, <1>7 DEF Commands
  <2>3. RowsAgree' /\ ReleaseJustified'
    BY SMTT(60), <1>1, <2>1, <2>2 DEF Core, RowsAgree, ReleaseJustified
  <2>4. command[c] # "none"
    BY Zenon
  <2>5. \A d \in Lifecycle \ {c} : command'[d] = command[d]
    BY Zenon, <1>3 DEF Commands
  <2>6. LifecycleAgrees'
    BY SMTT(60), <1>1, <2>1, <2>2, <2>4, <2>5, LifecycleFacts DEF Core, LifecycleAgrees
  <2>7. QED
    BY Zenon, <1>1, <1>2, <1>5, <2>1, <2>3, <2>6 DEF Core, TypeOK
<1>8. QED
  BY Zenon, <1>6, <1>7

-----------------------------------------------------------------------------
(* Seats, quota and final decisions.                                          *)

\* The inductive invariant.
IInv == Core /\ SeatsExact /\ LiveHoldsWithinQuota

-----------------------------------------------------------------------------
(* Every step.                                                             *)

\* A handler finalizes what its shard transaction committed.
LEMMA FinalizeStep ==
    ASSUME Core, NEW h \in Handlers, Finalize(h)
    PROVE  Core'
<1> DEFINE c == handler[h].cmd
<1>1. /\ handler[h] # Idle /\ c \in Commands
      /\ command[c] # "none" /\ receipt[c] = "succeeded"
  BY Zenon, NotIdle, BusyHandler DEF Finalize, Core, HandlerFacts
<1>2. UNCHANGED <<now, shard, worker>> /\ Leave(h)
  BY Zenon DEF Finalize
<1>3. handler' \in [Handlers -> {Idle} \cup
          [pc : {"execute", "locked", "finalize"}, cmd : Commands, replayed : BOOLEAN]]
  BY Zenon, <1>2, HandlerMoves DEF Core
<1>4. ASSUME Persist PROVE HandlerFacts' /\ WorkerFacts'
  <2>1. handler'[h] = Idle /\ \A g \in Handlers \ {h} : handler'[g] = handler[g]
    BY Zenon, <1>2, HandlerUpdate DEF Leave, Core
  <2>2. QED
    BY Zenon, <1>2, <1>4, <2>1, HandlerFactsPersist, WorkerFactsPersist
<1>5. CASE UNCHANGED <<control, claimed>>
  <2>1. Persist
    BY Zenon, <1>2, <1>5 DEF Persist, control, shard
  <2>2. TypeOK' /\ now <= now'
    BY <1>2, <1>3, <1>5 DEF Core, TypeOK, control, shard
  <2>3. QED
    BY Zenon, <1>2, <1>4, <1>5, <2>1, <2>2, QuietStep
<1>6. CASE /\ command[c] \notin Refused
           /\ IF IsCreate(c) THEN FinalizeCreate(c) ELSE FinalizeLifecycle(c)
           /\ claimed' = claimed \ {c}
  <2>1. command[c] \in {"reserved", "finalized"}
    BY <1>1, <1>6 DEF Core, TypeOK, Refused
  <2>2. /\ command' = [command EXCEPT ![c] = "finalized"]
        /\ expires' = expires
        /\ lease' \in [Creates -> {"none", "pending", "active_hold", "released", "expired"}]
        /\ directory' \in [Creates -> {"none", "pending", "active", "failed"}]
        /\ ledger' \in [Creates -> {"none", "confirmed", "cancelled"}]
        /\ orderLocator' \in [Creates -> {"none", "confirmed", "cancelled"}]
        /\ RowsAgree' /\ LifecycleAgrees' /\ ReleaseJustified' /\ LedgerAgrees'
    <3>1. CASE c \in Creates
      BY SMTT(30), <1>1, <1>2, <1>6, <2>1, <3>1, CreateFinalized DEF IsCreate, Core, TypeOK
    <3>2. CASE c \notin Creates
      BY SMTT(30), <1>1, <1>2, <1>6, <2>1, <3>2, CommandFacts, LifecycleFinalized DEF Core, TypeOK
    <3>3. QED
      BY Zenon, <3>1, <3>2
  <2>3. Persist
    BY <1>2, <2>2 DEF Persist, Core, TypeOK, shard
  <2>4. TypeOK'
    BY Zenon, <1>2, <1>3, <1>6, <2>2 DEF Core, TypeOK, shard
  <2>5. QED
    BY Zenon, <1>4, <2>2, <2>3, <2>4 DEF Core
<1>7. QED
  BY Zenon, <1>5, <1>6 DEF Finalize

\* The reconciler repairs what it inspected, however long ago.
LEMMA RepairStep ==
    ASSUME Core, NEW w \in Workers, Repair(w)
    PROVE  Core'
<1> DEFINE c == worker[w].cmd
<1>1. /\ worker[w] # Idle /\ c \in Commands /\ command[c] # "none"
      /\ worker[w].seen \in {"none", "succeeded", "rejected"}
      /\ worker[w].seen # "none" => receipt[c] = worker[w].seen
  BY Zenon, NotIdle, BusyWorker DEF Repair, Core, WorkerFacts
<1>2. UNCHANGED <<now, shard, handler>> /\ Rest(w)
  BY Zenon DEF Repair
<1>3. worker' \in [Workers -> {Idle} \cup
          [pc : {"inspect", "repair"}, cmd : Commands,
           state : {"reserved", "finalized"}, seen : {"none", "succeeded", "rejected"}]]
  BY Zenon, <1>2, WorkerRests DEF Core
<1>4. ASSUME Persist PROVE HandlerFacts' /\ WorkerFacts'
  <2>1. worker'[w] = Idle /\ \A v \in Workers \ {w} : worker'[v] = worker[v]
    BY Zenon, <1>2, WorkerUpdate DEF Rest, Core
  <2>2. QED
    BY ZenonT(30), <1>2, <1>4, <2>1, HandlerFactsPersist, WorkerFactsPersist
<1>5. CASE UNCHANGED <<control, claimed>>
  <2>1. Persist
    BY Zenon, <1>2, <1>5 DEF Persist, control, shard
  <2>2. TypeOK' /\ now <= now'
    BY <1>2, <1>3, <1>5 DEF Core, TypeOK, control, shard
  <2>3. QED
    BY Zenon, <1>2, <1>4, <1>5, <2>1, <2>2, QuietStep
<1>6. CASE Decisive(w) /\ Settle(w) /\ claimed' = claimed \ {c}
  <2>1. /\ \E target \in {"finalized", "failed", "expired"} :
              command' = [command EXCEPT ![c] = target]
        /\ expires' = expires
        /\ lease' \in [Creates -> {"none", "pending", "active_hold", "released", "expired"}]
        /\ directory' \in [Creates -> {"none", "pending", "active", "failed"}]
        /\ ledger' \in [Creates -> {"none", "confirmed", "cancelled"}]
        /\ orderLocator' \in [Creates -> {"none", "confirmed", "cancelled"}]
        /\ RowsAgree' /\ LifecycleAgrees' /\ ReleaseJustified' /\ LedgerAgrees'
    <3>1. CASE worker[w].seen = "succeeded"
      <4>1. /\ receipt[c] = "succeeded" /\ command[c] \in {"reserved", "finalized"}
            /\ IF IsCreate(c) THEN FinalizeCandidate(c) ELSE FinalizeLifecycle(c)
        BY SMTT(30), <1>1, <1>6, <3>1 DEF Decisive, Settle, Refused, Core, TypeOK
      <4>2. CASE c \in Creates
        BY SMTT(30), <1>1, <1>2, <4>1, <4>2, CreateFinalized DEF IsCreate, Core, TypeOK
      <4>3. CASE c \notin Creates
        BY SMTT(30), <1>1, <1>2, <4>1, <4>3, CommandFacts, LifecycleFinalized DEF Core, TypeOK
      <4>4. QED
        BY Zenon, <4>2, <4>3
    <3>2. CASE worker[w].seen = "rejected"
      <4>1. /\ receipt[c] = "rejected" /\ command[c] \in {"reserved", "failed", "expired"}
            /\ Terminal(c, "failed", "released")
        BY SMTT(30), <1>1, <1>6, <3>2 DEF Decisive, Settle, Core, TypeOK
      <4>2. QED
        BY <1>1, <1>2, <4>1, CommandTerminated DEF Core, TypeOK
    <3>3. CASE worker[w].seen = "none"
      <4>1. /\ c \in Creates /\ expires[c] <= now
            /\ command[c] \in {"reserved", "failed", "expired"}
            /\ Terminal(c, "expired", "expired")
        BY SMTT(30), <1>1, <1>6, <3>3 DEF Decisive, Settle, IsCreate, Core, TypeOK
      <4>2. QED
        BY <1>1, <1>2, <4>1, CommandTerminated DEF Core, TypeOK
    <3>4. QED
      BY Zenon, <1>1, <3>1, <3>2, <3>3
  <2>2. command' \in [Commands -> {"none", "reserved", "finalized", "failed", "expired"}]
    BY <1>1, <2>1 DEF Core, TypeOK
  <2>3. Persist
    BY <1>1, <1>2, <2>1 DEF Persist, Core, TypeOK, shard
  <2>4. TypeOK'
    BY Zenon, <1>2, <1>3, <1>6, <2>1, <2>2 DEF Core, TypeOK, shard
  <2>5. QED
    BY Zenon, <1>4, <2>1, <2>3, <2>4 DEF Core
<1>7. QED
  BY Zenon, <1>5, <1>6 DEF Repair

\* Every step keeps what control, shard and processes know of each other.
LEMMA CoreStep ==
    ASSUME Core, SeatsExact, [Next]_vars
    PROVE  Core'
<1>1. CASE Next
  <2>1. CASE Tick \/ \E c \in Commands : LeaseRunsOut(c)
    BY Zenon, <2>1, ClockStep
  <2>2. ASSUME NEW h \in Handlers, NEW c \in Commands,
               Reserve(h, c) \/ ReserveLifecycle(h, c) \/ Replay(h, c)
        PROVE  Core'
    BY Zenon, <2>2, ReserveStep, ReserveLifecycleStep, HandlerReads
  <2>3. ASSUME NEW h \in Handlers, ExecuteOnce(h) \/ Finalize(h) \/ HandlerFails(h)
        PROVE  Core'
    BY Zenon, <2>3, FinalizeStep, HandlerReads
  <2>4. ASSUME NEW h \in Handlers, NEW fare \in BOOLEAN, ExecuteLocked(h, fare)
        PROVE  Core'
    BY Zenon, <2>4, ExecuteStep
  <2>5. CASE CancelTrainRun \/ \E r \in Creates : ExpireHold(r)
    BY Zenon, <2>5, ShardMaintenance
  <2>6. ASSUME NEW w \in Workers, NEW c \in Commands, Claim(w, c)
        PROVE  Core'
    BY Zenon, <2>6, WorkerReads
  <2>7. ASSUME NEW w \in Workers, Inspect(w) \/ Repair(w) \/ WorkerFails(w)
        PROVE  Core'
    BY Zenon, <2>7, WorkerReads, RepairStep
  <2>8. QED
    BY Zenon, <1>1, <2>1, <2>2, <2>3, <2>4, <2>5, <2>6, <2>7 DEF Next
<1>2. CASE UNCHANGED vars
  <2>1. UNCHANGED <<now, control, claimed, shard, handler, worker>>
    BY Zenon, <1>2 DEF vars
  <2>2. Persist
    BY Zenon, <2>1 DEF Persist, control, shard
  <2>3. HandlerFacts' /\ WorkerFacts'
    BY Zenon, <2>1, <2>2, HandlerFactsPersist, WorkerFactsPersist
  <2>4. TypeOK' /\ now <= now'
    BY SMTT(30), <2>1 DEF Core, TypeOK, control, shard
  <2>5. QED
    BY Zenon, <2>1, <2>3, <2>4, QuietStep
<1>3. QED
  BY Zenon, <1>1, <1>2

-----------------------------------------------------------------------------
(* Seats.                                                                  *)

\* What a step may do to the seats: nothing, take one or give one back.
SeatShape ==
    \/ Occupied' = Occupied /\ free' = free
    \/ \E r \in Creates \ Occupied : Occupied' = Occupied \cup {r} /\ free' = free - 1
    \/ \E r \in Occupied : Occupied' = Occupied \ {r} /\ free' = free + 1

\* The shard's transactions change the occupied reservations and the free
\* seats together.
LEMMA SeatShapes ==
    ASSUME Core, [Next]_vars
    PROVE  SeatShape
<1>1. CASE UNCHANGED <<status, free>>
  BY Zenon, <1>1 DEF SeatShape, Occupied
<1>2. ASSUME NEW h \in Handlers, NEW fare \in BOOLEAN, ExecuteLocked(h, fare),
             ~UNCHANGED <<status, free>>
      PROVE  SeatShape
  <2> DEFINE c == handler[h].cmd
             r == ReservationOf(c)
  <2>1. PICK outcome \in Outcomes, newStatus \in Statuses : Effect(c, outcome, newStatus)
    BY Zenon, <1>2, ExecuteCases DEF shard
  <2>2. c \in Commands /\ r \in Creates
    BY Zenon, <1>2, ExecuteCases, CommandFacts
  <2>3. /\ status' = [status EXCEPT ![r] = newStatus] /\ status'[r] = newStatus
        /\ \A q \in Creates \ {r} : status'[q] = status[q]
    BY <2>1, <2>2 DEF Effect, Core, TypeOK
  <2>4. CASE status[r] = "none" /\ newStatus = "held" /\ free' = free - 1
    <3>1. r \in Creates \ Occupied /\ Occupied' = Occupied \cup {r}
      BY Zenon, <2>2, <2>3, <2>4 DEF Occupied
    <3>2. QED
      BY Zenon, <2>4, <3>1 DEF SeatShape
  <2>5. CASE status[r] \in {"held", "confirmed"} /\ newStatus = "confirmed" /\ free' = free
    <3>1. Occupied' = Occupied
      BY Zenon, <2>2, <2>3, <2>5 DEF Occupied
    <3>2. QED
      BY Zenon, <2>5, <3>1 DEF SeatShape
  <2>6. CASE status[r] \in {"held", "confirmed"} /\ newStatus = "cancelled" /\ free' = free + 1
    <3>1. r \in Occupied /\ Occupied' = Occupied \ {r}
      BY Zenon, <2>2, <2>3, <2>6 DEF Occupied
    <3>2. QED
      BY Zenon, <2>6, <3>1 DEF SeatShape
  <2>7. CASE newStatus = status[r] /\ free' = free
    <3>1. Occupied' = Occupied
      BY Zenon, <2>2, <2>3, <2>7 DEF Occupied
    <3>2. QED
      BY Zenon, <2>7, <3>1 DEF SeatShape
  <2>8. QED
    BY Zenon, <2>1, <2>4, <2>5, <2>6, <2>7 DEF Effect
<1>3. ASSUME NEW r \in Creates, ExpireHold(r) PROVE SeatShape
  <2>1. /\ status[r] = "held" /\ status'[r] = "expired" /\ free' = free + 1
        /\ \A q \in Creates \ {r} : status'[q] = status[q]
    BY <1>3 DEF ExpireHold, Core, TypeOK
  <2>2. r \in Occupied /\ Occupied' = Occupied \ {r}
    BY Zenon, <2>1 DEF Occupied
  <2>3. QED
    BY Zenon, <2>1, <2>2 DEF SeatShape
<1>4. QED
  BY Zenon, <1>1, <1>2, <1>3 DEF Next, vars, shard, Tick, Reserve, ReserveLifecycle, Replay, ExecuteOnce,
     Finalize, HandlerFails, CancelTrainRun, Claim, Inspect, Repair, WorkerFails, LeaseRunsOut

\* Seats are taken and given back once per reservation.
LEMMA SeatsStep ==
    ASSUME Core, SeatsExact, [Next]_vars
    PROVE  SeatsExact'
<1>1. IsFiniteSet(Occupied) /\ Cardinality(Occupied) \in Nat
  BY Zenon, CommandAssumption, FS_Subset, FS_CardinalityType DEF Occupied
<1>2. free + Cardinality(Occupied) = Capacity /\ free \in Int /\ Capacity \in Int
  BY BoundAssumption DEF SeatsExact, Occupied, Core, TypeOK
<1>3. SUFFICES free' + Cardinality(Occupied') = Capacity
  BY Zenon DEF SeatsExact, Occupied
<1>4. CASE Occupied' = Occupied /\ free' = free
  BY Zenon, <1>2, <1>4
<1>5. ASSUME NEW r \in Creates \ Occupied, Occupied' = Occupied \cup {r}, free' = free - 1
      PROVE  free' + Cardinality(Occupied') = Capacity
  <2>1. Cardinality(Occupied \cup {r}) = Cardinality(Occupied) + 1
    BY Zenon, <1>1, FS_AddElement
  <2>2. QED
    BY <1>1, <1>2, <1>5, <2>1
<1>6. ASSUME NEW r \in Occupied, Occupied' = Occupied \ {r}, free' = free + 1
      PROVE  free' + Cardinality(Occupied') = Capacity
  <2>1. Cardinality(Occupied \ {r}) = Cardinality(Occupied) - 1
    BY Zenon, <1>1, FS_RemoveElement
  <2>2. QED
    BY <1>1, <1>2, <1>6, <2>1
<1>7. QED
  BY Zenon, <1>4, <1>5, <1>6, SeatShapes DEF SeatShape

-----------------------------------------------------------------------------
(* Decisions and the quota.                                                *)

\* What is decided stays decided: the body of DecisionsAreFinal.
Decided ==
    /\ \A c \in Commands :
         /\ command[c] = "finalized" => command'[c] = "finalized"
         /\ receipt[c] # "none" => receipt'[c] = receipt[c]
    /\ \A r \in Creates :
         status[r] \in {"cancelled", "expired"} => status'[r] = status[r]

\* No hold comes up but that of a create command that is still open.
NoNewHold ==
    /\ expires' = expires /\ now <= now'
    /\ \A r \in Creates :
         /\ status'[r] = "held" =>
              status[r] = "held" \/ (command[r] # "none" /\ receipt[r] = "none")
         /\ command'[r] = "reserved" => command[r] = "reserved"
         /\ receipt'[r] = "none" => receipt[r] = "none"

\* A shard transaction decides once and makes no hold of its own.
LEMMA ExecuteDecides ==
    ASSUME Core, NEW h \in Handlers, NEW fare \in BOOLEAN, ExecuteLocked(h, fare)
    PROVE  Decided /\ NoNewHold
<1> DEFINE c == handler[h].cmd
           r == ReservationOf(c)
<1>1. /\ c \in Commands /\ r \in Creates /\ command[c] # "none"
      /\ UNCHANGED <<now, command, expires>> /\ now \in Int
  BY SMTT(60), ExecuteCases, CommandFacts DEF control, Core, TypeOK
<1>2. CASE UNCHANGED shard
  BY <1>1, <1>2 DEF Decided, NoNewHold, shard
<1>3. ASSUME NEW outcome \in Outcomes, NEW newStatus \in Statuses, Effect(c, outcome, newStatus)
      PROVE  Decided /\ NoNewHold
  <2>1. /\ receipt[c] = "none" /\ receipt'[c] = outcome /\ status'[r] = newStatus
        /\ \A d \in Commands \ {c} : receipt'[d] = receipt[d]
        /\ \A q \in Creates \ {r} : status'[q] = status[q]
    BY SMTT(60), <1>1, <1>3 DEF Effect, Core, TypeOK
  <2>2. /\ status[r] \in {"cancelled", "expired"} => newStatus = status[r]
        /\ newStatus = "held" => status[r] = "held" \/ c \in Creates
    BY Zenon, <1>3 DEF Effect
  <2>3. Decided
    BY Zenon, <1>1, <2>1, <2>2 DEF Decided
  <2>4. \A q \in Creates : receipt'[q] = "none" => receipt[q] = "none"
    BY Zenon, <2>1 DEF Commands
  <2>5. c \in Creates => r = c
    BY Zenon, <1>1, CommandFacts
  <2>6. NoNewHold
    BY <1>1, <2>1, <2>2, <2>4, <2>5 DEF NoNewHold
  <2>7. QED
    BY Zenon, <2>3, <2>6
<1>4. QED
  BY Zenon, <1>2, <1>3, ExecuteCases

\* The reconciler never takes a decision back.
LEMMA RepairDecides ==
    ASSUME Core, NEW w \in Workers, Repair(w)
    PROVE  Decided /\ NoNewHold
<1> DEFINE c == worker[w].cmd
<1>1. /\ c \in Commands /\ worker[w].seen \in {"none", "succeeded", "rejected"}
      /\ UNCHANGED <<now, receipt, status>> /\ now \in Int
  BY SMTT(60), NotIdle, BusyWorker DEF Repair, Core, TypeOK, shard
<1>2. CASE UNCHANGED control
  BY <1>1, <1>2 DEF Decided, NoNewHold, control
<1>3. CASE Decisive(w) /\ Settle(w)
  <2>1. /\ expires' = expires
        /\ \/ command' = [command EXCEPT ![c] = "finalized"]
           \/ /\ command[c] # "finalized"
              /\ \E target \in {"failed", "expired"} : command' = [command EXCEPT ![c] = target]
    BY Zenon, <1>1, <1>3 DEF Decisive, Settle, FinalizeCandidate, FinalizeLifecycle, Terminal
  <2>2. /\ \A d \in Commands : command[d] = "finalized" => command'[d] = "finalized"
        /\ \A d \in Commands : command'[d] = "reserved" => command[d] = "reserved"
    BY <1>1, <2>1 DEF Core, TypeOK
  <2>3. QED
    BY SMTT(30), <1>1, <2>1, <2>2 DEF Decided, NoNewHold, Commands
<1>4. QED
  BY Zenon, <1>2, <1>3 DEF Repair

\* Every step but a new create decides once and makes no new hold; a new
\* create decides nothing.
LEMMA DecidedStep ==
    ASSUME Core, [Next]_vars
    PROVE  Decided /\ (NoNewHold \/ \E h \in Handlers, c \in Commands : Reserve(h, c))
<1> now \in Int /\ command \in [Commands -> {"none", "reserved", "finalized", "failed", "expired"}]
  BY DEF Core, TypeOK
<1>1. CASE UNCHANGED <<command, expires, shard>> /\ now <= now'
  BY Zenon, <1>1 DEF Decided, NoNewHold, shard
<1>2. ASSUME NEW h \in Handlers, NEW c \in Commands, Reserve(h, c)
      PROVE  Decided
  BY Zenon, <1>2 DEF Reserve, Decided, shard
<1>3. ASSUME NEW h \in Handlers, NEW c \in Commands, ReserveLifecycle(h, c)
      PROVE  Decided /\ NoNewHold
  <2>1. /\ c \notin Creates /\ command[c] = "none"
        /\ command' = [command EXCEPT ![c] = "reserved"]
        /\ UNCHANGED <<now, expires, receipt, status>>
    BY Zenon, <1>3 DEF ReserveLifecycle, IsCreate, shard
  <2>2. QED
    BY <2>1 DEF Decided, NoNewHold, Commands
<1>4. ASSUME NEW h \in Handlers, Finalize(h)
      PROVE  Decided /\ NoNewHold
  <2>1. /\ \/ command' = command
           \/ command' = [command EXCEPT ![handler[h].cmd] = "finalized"]
        /\ UNCHANGED <<now, expires, receipt, status>>
    BY Zenon, <1>4 DEF Finalize, FinalizeCreate, FinalizeLifecycle, control, shard
  <2>2. QED
    BY SMTT(30), <2>1 DEF Decided, NoNewHold, Commands
<1>5. CASE CancelTrainRun
  BY SMTT(60), <1>5 DEF CancelTrainRun, Decided, NoNewHold, control
<1>6. ASSUME NEW r \in Creates, ExpireHold(r) PROVE Decided /\ NoNewHold
  BY <1>6 DEF ExpireHold, Decided, NoNewHold, control, Core, TypeOK
<1>7. CASE Tick \/ \E c \in Commands : LeaseRunsOut(c)
  BY SMTT(30), <1>1, <1>7 DEF Tick, LeaseRunsOut, control
<1>8. CASE \E h \in Handlers : ExecuteOnce(h) \/ HandlerFails(h) \/ \E c \in Commands : Replay(h, c)
  BY SMTT(60), <1>1, <1>8 DEF ExecuteOnce, HandlerFails, Replay, control
<1>9. CASE \E w \in Workers : Inspect(w) \/ WorkerFails(w) \/ \E c \in Commands : Claim(w, c)
  BY <1>1, <1>9 DEF Inspect, WorkerFails, Claim, control
<1>10. CASE UNCHANGED vars
  BY <1>1, <1>10 DEF vars, control
<1>11. QED
  BY Zenon, <1>2, <1>3, <1>4, <1>5, <1>6, <1>7, <1>8, <1>9, <1>10, ExecuteDecides, RepairDecides DEF Next

\* Quota is not given back early: a hold that may still be confirmed, or come
\* up, has a counted lease.
LEMMA HeldIsCounted ==
    ASSUME Core, NEW r \in Creates, MayBeHeld(r)
    PROVE  lease[r] \in Counted
<1>1. CASE command[r] = "reserved"
  BY Zenon, <1>1 DEF Core, RowsAgree, Counted
<1>2. CASE command[r] # "reserved"
  <2>1. status[r] = "held" /\ ~(expires[r] <= now)
    BY <1>2 DEF MayBeHeld, LiveHold, Core, TypeOK
  <2>2. receipt[r] = "succeeded" /\ command[r] = "finalized"
    BY <1>2, <2>1 DEF Core, RowsAgree, TypeOK, Commands
  <2>3. QED
    BY Zenon, <2>1, <2>2 DEF Core, RowsAgree, ReleaseJustified, Counted
<1>3. QED
  BY Zenon, <1>1, <1>2

HeldBy(u) == {r \in Creates : Owner[r] = u /\ MayBeHeld(r)}

\* Without a new create command nothing new may become a hold.
LEMMA HeldShrinks ==
    ASSUME Core, TypeOK', NoNewHold, NEW r \in Creates, MayBeHeld(r)'
    PROVE  MayBeHeld(r)
<1>1. /\ expires'[r] = expires[r] /\ now <= now' /\ expires'[r] > now' /\ r \in Commands
      /\ now \in Int /\ now' \in Int /\ expires[r] \in Int
  BY SMTT(60) DEF NoNewHold, MayBeHeld, LiveHold, Core, TypeOK, Commands
<1>2. CASE status'[r] = "held"
  <2>1. CASE status[r] = "held"
    BY <1>1, <2>1 DEF MayBeHeld, LiveHold
  <2>2. CASE command[r] # "none" /\ receipt[r] = "none"
    <3>1. command[r] \in {"reserved", "expired"}
      BY SMTT(60), <1>1, <2>2 DEF Core, TypeOK, RowsAgree
    <3>2. QED
      BY SMTT(30), <1>1, <2>2, <3>1 DEF MayBeHeld, Core, RowsAgree
  <2>3. QED
    BY Zenon, <1>2, <2>1, <2>2 DEF NoNewHold
<1>3. CASE status'[r] # "held"
  BY <1>1, <1>3 DEF MayBeHeld, LiveHold, NoNewHold
<1>4. QED
  BY Zenon, <1>2, <1>3

\* The user's limit across both databases is kept.
LEMMA QuotaStep ==
    ASSUME Core, Core', LiveHoldsWithinQuota, [Next]_vars
    PROVE  LiveHoldsWithinQuota'
<1> SUFFICES ASSUME NEW u \in {Owner[r] : r \in Creates}
             PROVE  Cardinality(HeldBy(u)') <= MaxHolds
  BY Zenon DEF LiveHoldsWithinQuota, HeldBy
<1>1. \A S \in SUBSET Creates : IsFiniteSet(S) /\ Cardinality(S) \in Nat
  BY Zenon, CommandAssumption, FS_Subset, FS_CardinalityType
<1>2. /\ HeldBy(u) \subseteq Creates /\ HeldBy(u)' \subseteq Creates
      /\ CountedLeases(u) \subseteq Creates /\ MaxHolds \in Nat
  BY Zenon, BoundAssumption DEF HeldBy, CountedLeases
<1>3. Cardinality(HeldBy(u)) <= MaxHolds
  BY Zenon DEF LiveHoldsWithinQuota, HeldBy
<1>4. CASE NoNewHold
  <2>1. HeldBy(u)' \subseteq HeldBy(u)
    <3> SUFFICES ASSUME NEW r \in Creates, Owner[r] = u, MayBeHeld(r)'
                 PROVE  MayBeHeld(r)
      BY Zenon DEF HeldBy
    <3>1. TypeOK'
      BY Zenon DEF Core
    <3>2. QED
      BY Zenon, <1>4, <3>1, HeldShrinks
  <2>2. Cardinality(HeldBy(u)') <= Cardinality(HeldBy(u))
    BY Zenon, <1>1, <1>2, <2>1, FS_Subset
  <2>3. QED
    BY <1>1, <1>2, <1>3, <2>2
<1>5. ASSUME NEW h \in Handlers, NEW c \in Commands, Reserve(h, c)
      PROVE  Cardinality(HeldBy(u)') <= MaxHolds
  <2>1. /\ c \in Creates /\ Cardinality(CountedLeases(Owner[c])) + 1 <= MaxHolds
        /\ command' = [command EXCEPT ![c] = "reserved"]
        /\ expires' = [expires EXCEPT ![c] = now + HoldTTL]
        /\ UNCHANGED <<now, receipt, status>>
    BY Zenon, <1>5 DEF Reserve, IsCreate, shard
  <2>2. \A r \in Creates \ {c} : MayBeHeld(r)' <=> MayBeHeld(r)
    BY SMTT(60), <2>1 DEF MayBeHeld, LiveHold, Core, TypeOK, Commands
  <2>3. CASE Owner[c] = u
    <3>1. HeldBy(u)' \subseteq CountedLeases(u) \cup {c}
      BY Zenon, <2>2, HeldIsCounted DEF HeldBy, CountedLeases
    <3>2. Cardinality(CountedLeases(u) \cup {c}) <= Cardinality(CountedLeases(u)) + 1
      BY <1>1, <1>2, FS_AddElement
    <3>3. Cardinality(HeldBy(u)') <= Cardinality(CountedLeases(u) \cup {c})
      BY Zenon, <1>1, <1>2, <2>1, <3>1, FS_Subset
    <3>4. CountedLeases(u) \cup {c} \subseteq Creates
      BY Zenon, <1>2, <2>1
    <3>5. QED
      <4>1. /\ Cardinality(HeldBy(u)') \in Nat /\ Cardinality(CountedLeases(u)) \in Nat
            /\ Cardinality(CountedLeases(u) \cup {c}) \in Nat
        BY Zenon, <1>1, <1>2, <3>4
      <4>2. Cardinality(CountedLeases(u)) + 1 <= MaxHolds
        BY Zenon, <2>1, <2>3
      <4>3. QED
        BY <1>2, <3>2, <3>3, <4>1, <4>2
  <2>4. CASE Owner[c] # u
    <3>1. HeldBy(u)' \subseteq HeldBy(u)
      BY Zenon, <2>2, <2>4 DEF HeldBy
    <3>2. Cardinality(HeldBy(u)') <= Cardinality(HeldBy(u))
      BY Zenon, <1>1, <1>2, <3>1, FS_Subset
    <3>3. QED
      BY <1>1, <1>2, <1>3, <3>2
  <2>5. QED
    BY Zenon, <2>3, <2>4
<1>6. QED
  BY Zenon, <1>4, <1>5, DecidedStep

-----------------------------------------------------------------------------
(* Theorems.                                                               *)

\* Before any command, nothing is held and every seat is free.
LEMMA InitIInv == Init => IInv
<1> SUFFICES ASSUME Init PROVE IInv
  BY Zenon
<1>1. TypeOK
  BY BoundAssumption DEF Init, TypeOK
<1>2. RowsAgree /\ LifecycleAgrees /\ ReleaseJustified
  BY Zenon, LifecycleFacts DEF Init, RowsAgree, LifecycleAgrees, ReleaseJustified, Commands
<1>3. LedgerAgrees /\ HandlerFacts /\ WorkerFacts
  BY Zenon, LifecycleFacts DEF Init, LedgerAgrees, HandlerFacts, WorkerFacts, Commands
<1>4. SeatsExact
  <2>1. Occupied = {}
    BY Zenon DEF Init, Occupied
  <2>2. Cardinality(Occupied) = 0
    BY Zenon, <2>1, FS_EmptySet
  <2>3. QED
    BY <2>2, BoundAssumption DEF SeatsExact, Occupied, Init
<1>5. LiveHoldsWithinQuota
  <2> SUFFICES ASSUME NEW u \in {Owner[r] : r \in Creates}
               PROVE  Cardinality(HeldBy(u)) <= MaxHolds
    BY Zenon DEF LiveHoldsWithinQuota, HeldBy
  <2>1. HeldBy(u) = {}
    BY Zenon DEF HeldBy, MayBeHeld, LiveHold, Init, Commands
  <2>2. Cardinality(HeldBy(u)) = 0
    BY Zenon, <2>1, FS_EmptySet
  <2>3. QED
    BY <2>2, BoundAssumption
<1>6. QED
  BY Zenon, <1>1, <1>2, <1>3, <1>4, <1>5 DEF IInv, Core

\* One step of any handler, worker or database keeps the invariant.
LEMMA StepIInv == IInv /\ [Next]_vars => IInv'
<1> SUFFICES ASSUME IInv, [Next]_vars PROVE IInv'
  BY Zenon
<1>1. Core'
  BY Zenon, CoreStep DEF IInv
<1>2. SeatsExact'
  BY Zenon, SeatsStep DEF IInv
<1>3. LiveHoldsWithinQuota'
  BY Zenon, <1>1, QuotaStep DEF IInv
<1>4. QED
  BY Zenon, <1>1, <1>2, <1>3 DEF IInv

\* The inductive invariant holds whatever handlers, the reconciler, the
\* expirer and the operator do, in any order.
THEOREM CommandInvariant == Spec => []IInv
<1>1. Init => IInv
  BY Zenon, InitIInv
<1>2. IInv /\ [Next]_vars => IInv'
  BY Zenon, StepIInv
<1>3. QED
  BY <1>1, <1>2, PTL DEF Spec

\* Type correctness, the bound 0 .. Capacity of the free seats included.
THEOREM CommandTypeCorrect == Spec => []TypeOK
<1>1. IInv => TypeOK
  BY Zenon DEF IInv, Core
<1>2. QED
  BY <1>1, CommandInvariant, PTL

\* Quota is never given back before the hold's deadline or its end.
THEOREM CommandHoldsCounted == Spec => []HoldsAreCounted
<1>1. IInv => HoldsAreCounted
  BY Zenon, HeldIsCounted DEF IInv, HoldsAreCounted, MayBeHeld
<1>2. QED
  BY <1>1, CommandInvariant, PTL

\* MaxActiveHoldsPerUser bounds the live holds of a user across the databases.
THEOREM CommandQuota == Spec => []LiveHoldsWithinQuota
<1>1. IInv => LiveHoldsWithinQuota
  BY Zenon DEF IInv
<1>2. QED
  BY <1>1, CommandInvariant, PTL

\* Control database and shard agree on the outcome of every command.
THEOREM CommandOutcomes == Spec => []OutcomesAgree
<1>1. IInv => OutcomesAgree
  <2> SUFFICES ASSUME IInv PROVE OutcomesAgree
    BY Zenon
  <2>1. \A c \in Commands : /\ command[c] = "finalized" => receipt[c] = "succeeded"
                            /\ command[c] = "failed" => receipt[c] = "rejected"
    BY Zenon DEF IInv, Core, RowsAgree, LifecycleAgrees, Commands
  <2>2. \A r \in Creates : directory[r] = "active" <=> command[r] = "finalized"
    BY DEF IInv, Core, TypeOK, RowsAgree, Commands
  <2>3. QED
    BY Zenon, <2>1, <2>2 DEF OutcomesAgree
<1>2. QED
  BY <1>1, CommandInvariant, PTL

\* The control database's view of a reservation follows the shard's.
THEOREM CommandLedger == Spec => []LedgerFollowsShard
<1>1. IInv => LedgerFollowsShard
  <2> SUFFICES ASSUME IInv, NEW c \in Lifecycle, command[c] = "finalized"
               PROVE  IF c.op = "cancel"
                      THEN /\ status[c.rsv] = "cancelled" /\ ledger[c.rsv] = "cancelled"
                           /\ orderLocator[c.rsv] # "confirmed"
                      ELSE /\ status[c.rsv] \in {"confirmed", "cancelled"}
                           /\ orderLocator[c.rsv] = ledger[c.rsv] /\ ledger[c.rsv] # "none"
    BY Zenon DEF LedgerFollowsShard
  <2>1. c.rsv \in Creates /\ orderLocator[c.rsv] \in {"none", ledger[c.rsv]}
    BY Zenon, LifecycleFacts DEF IInv, Core, LedgerAgrees
  <2>2. status[c.rsv] \in (IF c.op = "cancel" THEN {"cancelled"} ELSE {"confirmed", "cancelled"})
    BY Zenon DEF IInv, Core, LifecycleAgrees
  <2>3. IF c.op = "cancel" THEN ledger[c.rsv] = "cancelled" ELSE orderLocator[c.rsv] # "none"
    BY Zenon DEF IInv, Core, LedgerAgrees
  <2>4. QED
    BY Zenon, <2>1, <2>2, <2>3
<1>2. QED
  BY <1>1, CommandInvariant, PTL

\* The shard's free seats are exact.
THEOREM CommandSeats == Spec => []SeatsExact
<1>1. IInv => SeatsExact
  BY Zenon DEF IInv
<1>2. QED
  BY <1>1, CommandInvariant, PTL

\* Finalized commands, receipts and finished reservations are never rewritten.
THEOREM CommandDecisions == Spec => DecisionsAreFinal
<1>1. IInv /\ [Next]_vars => [Decided]_vars
  BY Zenon, DecidedStep DEF IInv
<1>2. Spec => [][Decided]_vars
  BY <1>1, CommandInvariant, PTL DEF Spec
<1>3. QED
  BY Zenon, <1>2 DEF DecisionsAreFinal, Decided
=============================================================================
