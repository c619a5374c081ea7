--------------------------- MODULE EngineLifecycle -------------------------
(***************************************************************************)
(* The engine process: the advisory lock that keeps it alone, what it loads *)
(* before it starts its tasks, the boot reconcile that lets entries and     *)
(* strategies go, the halted() composite, the heartbeat, and the order in   *)
(* which a shutdown takes everything down again.                            *)
(*                                                                         *)
(* Any number of processes may be launched for one portfolio, some while    *)
(* another runs.  What a task does is in the other modules; here a task is  *)
(* alive or done, an entry is a signal, then an order on the bus, then on   *)
(* its way to the broker, and a flatten is a task of its own beside the     *)
(* bus.  The database session that holds the lock is one the engine opens   *)
(* and then never looks at: it may end under a process that works on, and   *)
(* the server takes a while to notice that a process has died.              *)
(***************************************************************************)
EXTENDS Integers, Sequences, FiniteSets

CONSTANTS
  Engines,   \* processes
  Tasks,     \* the critical tasks besides the three named below
  Nobody,    \* holds a free lock
  Depth,     \* bound on the bus
  MaxDeaths, \* bound on the tasks of one process that die
  MaxLost    \* bound on the processes that have lost their session

bus == "event_bus"
strategies == "strategies"
sweeper == "commands_sweep"
Critical == Tasks \cup {bus, strategies, sweeper}

ASSUME LifecycleAssumption ==
  Nobody \notin Engines /\ Depth \in Nat \ {0} /\ {MaxDeaths, MaxLost} \subseteq Nat
  /\ IsFiniteSet(Engines) /\ IsFiniteSet(Tasks)

VARIABLES
  pc,      \* by engine, in main(): one of Phases
  lock,    \* who holds pg_advisory_lock
  done,    \* by engine, its critical tasks that are done
  ready,   \* boot_reconciled
  trading, \* strategies registered and started
  kill,    \* the kill switch in memory
  stale,   \* the feed gate
  queue,   \* the bus: "signal" and "order"
  sending, \* an entry past its last check, row committed
  flatten, \* a flatten task runs
  halted,  \* the kill-state recorded in the database
  beat,    \* the heartbeat key: Silent, or the tasks it reports as done
  behind,  \* history: by engine, a command was recorded since it last read the log
  slipped, \* history: entries that went out since entries were last allowed
  lost     \* history: processes whose session has ended under them

process == <<done, ready, trading, kill, stale, queue, sending, flatten>>
session == <<lock, lost>>
vars == <<pc, session, process, halted, beat, behind, slipped>>

Phases == {"off", "loading", "up", "draining", "joining", "closing", "closed"}

Silent == {"no key"}

Init ==
  /\ pc = [e \in Engines |-> "off"] /\ lock = Nobody
  /\ done = [e \in Engines |-> {}]
  /\ ready = [e \in Engines |-> FALSE] /\ trading = [e \in Engines |-> FALSE]
  /\ kill = [e \in Engines |-> FALSE] /\ stale = [e \in Engines |-> TRUE]
  /\ queue = [e \in Engines |-> <<>>]
  /\ sending = [e \in Engines |-> FALSE] /\ flatten = [e \in Engines |-> FALSE]
  /\ halted \in BOOLEAN /\ beat = Silent
  /\ behind = [e \in Engines |-> FALSE] /\ slipped = [e \in Engines |-> 0]
  /\ lost = {}

(* What is left of tasks that have ended: nothing.                          *)
Forget(e) ==
  /\ done' = [done EXCEPT ![e] = {}]
  /\ ready' = [ready EXCEPT ![e] = FALSE] /\ trading' = [trading EXCEPT ![e] = FALSE]
  /\ kill' = [kill EXCEPT ![e] = FALSE] /\ stale' = [stale EXCEPT ![e] = TRUE]
  /\ queue' = [queue EXCEPT ![e] = <<>>]
  /\ sending' = [sending EXCEPT ![e] = FALSE]
  /\ behind' = [behind EXCEPT ![e] = FALSE]

Running(e) == pc[e] \in {"up", "draining"}
Alive(e, t) == Running(e) /\ t \notin done[e]

(* Mutant: the composite without the tasks.                                 *)
halted_by_flags(e) == ~ready[e] \/ kill[e] \/ stale[e]

(* The composite, read fresh at each of the two checks.                     *)
is_halted(e) == ~ready[e] \/ done[e] # {} \/ kill[e] \/ stale[e]

-----------------------------------------------------------------------------
(* BOOT                                                                     *)

(* pg_try_advisory_lock: a process that does not get it exits at once.      *)
Launch(e) ==
  /\ pc[e] = "off" /\ lock = Nobody
  /\ pc' = [pc EXCEPT ![e] = "loading"] /\ lock' = e
  /\ UNCHANGED <<lost, process, halted, beat, behind>>

(* The kill-state is read before any task exists.                           *)
LoadAndStart(e) ==
  /\ pc[e] = "loading"
  /\ pc' = [pc EXCEPT ![e] = "up"]
  /\ kill' = [kill EXCEPT ![e] = halted]
  /\ behind' = [behind EXCEPT ![e] = FALSE]
  /\ UNCHANGED <<session, done, ready, trading, stale, queue, sending, flatten, halted, beat>>

(* The boot reconcile, retried until it succeeds: a failure changes nothing.*)
BootReconcile(e) ==
  /\ pc[e] = "up" /\ ~ready[e]
  /\ ready' = [ready EXCEPT ![e] = TRUE]
  /\ UNCHANGED <<pc, session, done, trading, kill, stale, queue, sending, flatten, halted, beat, behind>>

(* The strategies' task waits for the reconciled book.                      *)
StartStrategies(e) ==
  /\ pc[e] = "up" /\ Alive(e, strategies) /\ ready[e] /\ ~trading[e]
  /\ trading' = [trading EXCEPT ![e] = TRUE]
  /\ UNCHANGED <<pc, session, done, ready, kill, stale, queue, sending, flatten, halted, beat, behind>>

-----------------------------------------------------------------------------
(* AN ENTRY                                                                 *)

(* Handlers stay subscribed when the strategies' task is gone.              *)
Emit(e) ==
  /\ Alive(e, bus) /\ trading[e] /\ Len(queue[e]) < Depth
  /\ queue' = [queue EXCEPT ![e] = Append(@, "signal")]
  /\ UNCHANGED <<pc, session, done, ready, trading, kill, stale, sending, flatten, halted, beat, behind>>

(* The one consumer: what it is sending, it waits for.  A shutdown that     *)
(* finds it waiting for the queue lets it take one more event.              *)
Takes(e, event) ==
  /\ Alive(e, bus) /\ ~sending[e] /\ queue[e] # <<>> /\ Head(queue[e]) = event

EndsAfter(e) == done' = IF pc[e] = "up" THEN done ELSE [done EXCEPT ![e] = @ \cup {bus}]

(* RiskStage: a halted engine rejects; otherwise the controls decide.       *)
OnSignal(e, passes) ==
  /\ Takes(e, "signal")
  /\ queue' = [queue EXCEPT ![e] =
       IF passes /\ ~is_halted(e) THEN Append(Tail(@), "order") ELSE Tail(@)]
  /\ EndsAfter(e)
  /\ UNCHANGED <<pc, session, ready, trading, kill, stale, sending, flatten, halted, beat, behind>>

(* Mutant: an approval is good until it is used.                            *)
never_suppressed(e) == FALSE

suppressed(e) == is_halted(e)

(* ExecutionStage: asked again, the row committed, the order on its way.    *)
OnOrder(e) ==
  /\ Takes(e, "order")
  /\ queue' = [queue EXCEPT ![e] = Tail(@)]
  /\ sending' = [sending EXCEPT ![e] = ~suppressed(e)]
  /\ EndsAfter(e)
  /\ UNCHANGED <<pc, session, ready, trading, kill, stale, flatten, halted, beat, behind>>

Send(e) ==
  /\ sending[e]
  /\ sending' = [sending EXCEPT ![e] = FALSE]
  /\ UNCHANGED <<pc, session, done, ready, trading, kill, stale, queue, flatten, halted, beat, behind>>

(* A flatten: asked by nobody's halt, off the bus.                          *)
StartFlatten(e) ==
  /\ Alive(e, bus) /\ ~sending[e] /\ ~flatten[e]
  /\ flatten' = [flatten EXCEPT ![e] = TRUE]
  /\ UNCHANGED <<pc, session, done, ready, trading, kill, stale, queue, sending, halted, beat, behind>>

EndFlatten(e) ==
  /\ flatten[e]
  /\ flatten' = [flatten EXCEPT ![e] = FALSE]
  /\ UNCHANGED <<pc, session, done, ready, trading, kill, stale, queue, sending, halted, beat, behind>>

-----------------------------------------------------------------------------
(* WHAT HAPPENS WHILE IT RUNS                                               *)

(* An operator's command is a row; the kill-state is the latest row's.      *)
Command ==
  /\ halted' = ~halted /\ behind' = [e \in Engines |-> Running(e)]
  /\ UNCHANGED <<pc, session, process, beat>>

(* The sweeper waits for the reconciled book, then reads the latest row.    *)
Sweep(e) ==
  /\ Alive(e, sweeper) /\ ready[e]
  /\ kill' = [kill EXCEPT ![e] = halted] /\ behind' = [behind EXCEPT ![e] = FALSE]
  /\ UNCHANGED <<pc, session, done, ready, trading, stale, queue, sending, flatten, halted, beat>>

FeedTurns(e) ==
  /\ Running(e)
  /\ stale' = [stale EXCEPT ![e] = ~@]
  /\ UNCHANGED <<pc, session, done, ready, trading, kill, queue, sending, flatten, halted, beat, behind>>

(* A task dies of an exception; the entry the bus was sending is in doubt.  *)
TaskDies(e, t) ==
  /\ Alive(e, t) /\ Cardinality(done[e]) < MaxDeaths
  /\ done' = [done EXCEPT ![e] = @ \cup {t}]
  /\ sending' = [sending EXCEPT ![e] = @ /\ t # bus]
  /\ UNCHANGED <<pc, session, ready, trading, kill, stale, queue, flatten, halted, beat, behind>>

(* Mutant: the tasks as they were when the engine started.                  *)
health_at_start(e) == {}

task_health(e) == done[e]

Heartbeat(e) ==
  /\ pc[e] = "up"
  /\ beat' = task_health(e)
  /\ UNCHANGED <<pc, session, process, halted, behind>>

(* The key outlives three beats that did not come.                          *)
BeatLapses ==
  /\ beat # Silent /\ \A e \in Engines : pc[e] # "up"
  /\ beat' = Silent
  /\ UNCHANGED <<pc, session, process, halted, behind>>

-----------------------------------------------------------------------------
(* SHUTDOWN: the streams, the flattens, the tasks, the adapter, the lock.   *)

Shutdown(e) ==
  /\ pc[e] = "up"
  /\ pc' = [pc EXCEPT ![e] = "draining"]
  /\ UNCHANGED <<session, process, halted, beat, behind>>

(* The loops that watch the event end by themselves.                        *)
TaskEnds(e, t) ==
  /\ pc[e] = "draining" /\ Alive(e, t) /\ (t = bus => ~sending[e])
  /\ done' = [done EXCEPT ![e] = @ \cup {t}]
  /\ UNCHANGED <<pc, session, ready, trading, kill, stale, queue, sending, flatten, halted, beat, behind>>

(* Mutant: the drain waits for the flatten however long it takes.           *)
drained_fully(e) == ~flatten[e]

(* drain_flattens: finished, or ten seconds are over and it is cancelled.   *)
drained(e) == TRUE

(* Every task is cancelled, and so is a flatten the drain gave up on: what  *)
(* was on its way may or may not have reached the broker.                   *)
Cancel(e) ==
  /\ pc[e] = "draining" /\ drained(e)
  /\ pc' = [pc EXCEPT ![e] = "joining"]
  /\ UNCHANGED <<session, process, halted, beat, behind>>

(* gather: all the tasks are done; a cancelled flatten is not among them.   *)
Join(e) ==
  /\ pc[e] = "joining"
  /\ pc' = [pc EXCEPT ![e] = "closing"]
  /\ Forget(e)
  /\ UNCHANGED <<session, flatten, halted, beat>>

(* adapter.aclose: nothing reaches the broker any more.                     *)
CloseAdapter(e) ==
  /\ pc[e] = "closing"
  /\ pc' = [pc EXCEPT ![e] = "closed"]
  /\ flatten' = [flatten EXCEPT ![e] = FALSE]
  /\ UNCHANGED <<session, done, ready, trading, kill, stale, queue, sending, halted, beat, behind>>

(* Mutant: the lock goes before the adapter is closed.                      *)
lock_before_close(e) == pc[e] \in {"closing", "closed"}

may_release(e) == pc[e] = "closed"

(* engine_lock.close(), or the end of the process that follows it: the pool *)
(* may keep the connection until then.                                      *)
ReleaseLock(e) ==
  /\ lock = e /\ may_release(e)
  /\ lock' = Nobody
  /\ UNCHANGED <<pc, lost, process, halted, beat, behind>>

Exit(e) ==
  /\ pc[e] = "closed" /\ lock # e
  /\ pc' = [pc EXCEPT ![e] = "off"]
  /\ lost' = lost \ {e}
  /\ UNCHANGED <<lock, process, halted, beat, behind>>

(* The process is killed, or its boot raises; its session dangles until the *)
(* database server notices.                                                 *)
Die(e) ==
  /\ pc[e] # "off"
  /\ pc' = [pc EXCEPT ![e] = "off"]
  /\ Forget(e)
  /\ flatten' = [flatten EXCEPT ![e] = FALSE]
  /\ lost' = lost \ {e}
  /\ UNCHANGED <<lock, halted, beat>>

SessionReaped(e) ==
  /\ lock = e /\ pc[e] = "off"
  /\ lock' = Nobody
  /\ UNCHANGED <<pc, lost, process, halted, beat, behind>>

(* The server or the network ends the session under a live process, which   *)
(* holds the connection and does not use it: nothing tells.                 *)
SessionLost(e) ==
  /\ lock = e /\ pc[e] # "off" /\ Cardinality(lost) < MaxLost
  /\ lock' = Nobody /\ lost' = lost \cup {e}
  /\ UNCHANGED <<pc, process, halted, beat, behind>>

-----------------------------------------------------------------------------
Boot(e) == Launch(e) \/ LoadAndStart(e) \/ BootReconcile(e) \/ StartStrategies(e)

Trade(e) ==
  \/ Sweep(e)
  \/ \E b \in BOOLEAN : OnSignal(e, b)
  \/ Emit(e) \/ OnOrder(e) \/ Send(e) \/ StartFlatten(e) \/ EndFlatten(e)

Stop(e) ==
  \/ Cancel(e) \/ Join(e) \/ CloseAdapter(e) \/ ReleaseLock(e) \/ Exit(e)
  \/ \E t \in Critical : TaskEnds(e, t)

World(e) ==
  \/ FeedTurns(e) \/ Shutdown(e) \/ Die(e) \/ SessionReaped(e) \/ SessionLost(e)
  \/ \E t \in Critical : TaskDies(e, t)

(* Entries are allowed again, or one more has gone out although they are    *)
(* not.                                                                     *)
Forbidden(e) == Running(e) /\ (~ready[e] \/ done[e] # {} \/ (halted /\ ~behind[e]) \/ stale[e])

History ==
  slipped' = [e \in Engines |->
    IF ~Forbidden(e)' THEN 0
    ELSE IF sending[e] /\ ~sending'[e] /\ slipped[e] < 2 THEN slipped[e] + 1 ELSE slipped[e]]

Next ==
  /\ \/ \E e \in Engines : Boot(e) \/ Trade(e) \/ Heartbeat(e) \/ Stop(e) \/ World(e)
     \/ BeatLapses \/ Command
  /\ History

Spec == Init /\ [][Next]_vars

(* main() goes on, the sweeper's timer and the heartbeat fire, an expired   *)
(* key is gone, and the database server ends the session of a dead client.  *)
FairSpec ==
  /\ Spec
  /\ \A e \in Engines :
       /\ WF_vars((Cancel(e) \/ Join(e) \/ CloseAdapter(e) \/ ReleaseLock(e) \/ Exit(e)) /\ History)
       /\ WF_vars(Heartbeat(e) /\ History)
       /\ WF_vars(Sweep(e) /\ History) /\ WF_vars(SessionReaped(e) /\ History)
  /\ WF_vars(BeatLapses /\ History)

-----------------------------------------------------------------------------
(* PROPERTIES                                                               *)

(* The whole state has its type; strategies trade only on a reconciled      *)
(* book, and nothing is on its way from a process that is gone.             *)
TypeOK ==
  /\ pc \in [Engines -> Phases] /\ lock \in Engines \cup {Nobody} /\ lost \in SUBSET Engines
  /\ done \in [Engines -> SUBSET Critical] /\ halted \in BOOLEAN
  /\ behind \in [Engines -> BOOLEAN] /\ slipped \in [Engines -> 0..2]
  /\ queue \in [Engines -> Seq({"signal", "order"})]
  /\ ready \in [Engines -> BOOLEAN] /\ trading \in [Engines -> BOOLEAN]
  /\ kill \in [Engines -> BOOLEAN] /\ stale \in [Engines -> BOOLEAN]
  /\ sending \in [Engines -> BOOLEAN] /\ flatten \in [Engines -> BOOLEAN]
  /\ beat = Silent \/ beat \subseteq Critical
  /\ \A e \in Engines :
       /\ Len(queue[e]) <= Depth
       /\ trading[e] => ready[e]
       /\ sending[e] => Running(e) \/ pc[e] = "joining"
       /\ flatten[e] => Running(e) \/ pc[e] \in {"joining", "closing"}

(* It may still drive the broker: a task, a flatten, an entry on its way.   *)
AtWork(e) == pc[e] \in {"loading", "up", "draining", "joining", "closing"}

(* Whoever is at work holds the lock, through the whole of an orderly       *)
(* shutdown, unless its session has ended under it; and one that has lost   *)
(* its session never has the lock again.  So a second engine is never let   *)
(* in but by a lost session, whatever dies and is launched.  (And the whole *)
(* state has its type.)                                                     *)
WorksUnderLock ==
  /\ TypeOK
  /\ \A e \in Engines : AtWork(e) => lock = e \/ e \in lost
  /\ \A e \in lost : pc[e] # "off" /\ lock # e

(* From the moment entries are forbidden - a dead task, a stale feed, a     *)
(* kill switch, a book not reconciled, a restart - at most the one entry    *)
(* that was past its last check goes out, however many were queued.         *)
AtMostOneSlips == \A e \in Engines : slipped[e] <= 1

(* A recorded halt comes to stop the entries of an engine that stays up,    *)
(* also of one whose sweeper is dead and reads no command any more.         *)
HaltHolds ==
  \A e \in Engines : <>[](halted /\ pc[e] = "up") => <>[]is_halted(e)

(* A shutdown ends, with the lock free, even under a flatten that hangs.    *)
ShutdownEnds ==
  \A e \in Engines :
    (pc[e] = "draining" ~> pc[e] = "off") /\ (pc[e] = "draining" ~> lock # e)

(* A beating heart does not hide a dead task, and a dead process goes       *)
(* silent: where one engine is up, for two would write the same key.        *)
HeartbeatTells ==
  /\ \A e \in Engines, t \in Critical :
       <>[](pc[e] = "up" /\ t \in done[e] /\ \A f \in Engines \ {e} : pc[f] # "up")
         => <>[](t \in beat)
  /\ <>[](\A e \in Engines : pc[e] = "off") => <>[](beat = Silent)

-----------------------------------------------------------------------------
(* The inductive invariant.                                                 *)

(* An engine that has read the log since the last command holds what it     *)
(* says: it read it before its first task ran.                              *)
KillIsCurrent == \A e \in Engines : Running(e) /\ ~behind[e] => kill[e] = halted

(* Once an entry has slipped, no other is past its last check.              *)
NoneInReserve ==
  \A e \in Engines : slipped[e] # 0 => slipped[e] = 1 /\ Forbidden(e) /\ ~sending[e]

IInv == WorksUnderLock /\ KillIsCurrent /\ NoneInReserve
=============================================================================
