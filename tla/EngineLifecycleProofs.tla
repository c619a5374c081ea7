----------------------- MODULE EngineLifecycleProofs -----------------------
(***************************************************************************)
(* Proofs about the engine's life, for any set of processes and tasks and   *)
(* any bound on the bus.  The argument: a process is past its launch only   *)
(* with the lock, which its shutdown gives up after everything else and     *)
(* which only the end of its session takes from it before, once; and an     *)
(* entry gets past its last check only while entries are allowed, because   *)
(* what the check reads in memory is at least as strict as what the log     *)
(* said when it was last read.                                              *)
(***************************************************************************)
EXTENDS EngineLifecycle, SequenceTheorems, TLAPS

Event == {"signal", "order"}

(* The history variable keeps its type whatever the step.                   *)
LEMMA SlippedCounts ==
  ASSUME slipped \in [Engines -> 0..2], History
  PROVE  slipped' \in [Engines -> 0..2]
BY DEF History

(* The bus keeps its bound: an event taken may be replaced, one is added    *)
(* only where there is room.                                                *)
LEMMA BusBound ==
  ASSUME LifecycleAssumption, NEW q \in Seq(Event), Len(q) <= Depth
  PROVE  /\ q # <<>> => /\ Tail(q) \in Seq(Event) /\ Len(Tail(q)) <= Depth
                        /\ \A v \in Event : Append(Tail(q), v) \in Seq(Event)
                                            /\ Len(Append(Tail(q), v)) <= Depth
         /\ Len(q) < Depth => \A v \in Event : Append(q, v) \in Seq(Event)
                                               /\ Len(Append(q, v)) <= Depth
<1>1. Len(q) \in Nat /\ Depth \in Nat
  BY LenProperties DEF LifecycleAssumption
<1>2. ASSUME q # <<>>
      PROVE  Tail(q) \in Seq(Event) /\ Len(Tail(q)) = Len(q) - 1
  BY <1>2, HeadTailProperties
<1>3. \A r \in Seq(Event), v \in Event : Append(r, v) \in Seq(Event) /\ Len(Append(r, v)) = Len(r) + 1
  BY AppendProperties
<1> QED BY <1>1, <1>2, <1>3

(* What is left of a process is nothing, which is in order.                 *)
LEMMA Forgotten ==
  ASSUME LifecycleAssumption, TypeOK, NEW e \in Engines, Forget(e)
  PROVE  /\ done' \in [Engines -> SUBSET Critical]
         /\ ready' \in [Engines -> BOOLEAN] /\ trading' \in [Engines -> BOOLEAN]
         /\ kill' \in [Engines -> BOOLEAN] /\ stale' \in [Engines -> BOOLEAN]
         /\ sending' \in [Engines -> BOOLEAN] /\ behind' \in [Engines -> BOOLEAN]
         /\ queue' \in [Engines -> Seq(Event)]
         /\ \A f \in Engines : /\ Len(queue'[f]) <= Depth
                               /\ trading'[f] => ready'[f]
                               /\ sending'[f] => f # e /\ sending[f]
                               /\ f # e => kill'[f] = kill[f] /\ behind'[f] = behind[f]
<1>1. <<>> \in Seq(Event) /\ Len(<<>>) = 0 /\ Len(<<>>) <= Depth
  BY EmptySeq DEF LifecycleAssumption
<1>2. queue' = [queue EXCEPT ![e] = <<>>] /\ queue \in [Engines -> Seq(Event)]
  BY DEF Forget, TypeOK, Event
<1>3. queue' \in [Engines -> Seq(Event)] /\ \A f \in Engines : Len(queue'[f]) <= Depth
  BY <1>1, <1>2 DEF TypeOK
<1>4. /\ done' \in [Engines -> SUBSET Critical]
      /\ ready' \in [Engines -> BOOLEAN] /\ trading' \in [Engines -> BOOLEAN]
      /\ kill' \in [Engines -> BOOLEAN] /\ stale' \in [Engines -> BOOLEAN]
      /\ sending' \in [Engines -> BOOLEAN] /\ behind' \in [Engines -> BOOLEAN]
  BY DEF Forget, TypeOK
<1>5. \A f \in Engines :
        /\ trading'[f] => ready'[f]
        /\ sending'[f] => f # e /\ sending[f]
        /\ f # e => kill'[f] = kill[f] /\ behind'[f] = behind[f]
  BY DEF Forget, TypeOK
<1> QED BY <1>3, <1>4, <1>5

-----------------------------------------------------------------------------
(* The steps.                                                               *)

(* What WorksUnderLock says beyond the types.                               *)
LockIsHeld ==
  /\ \A e \in Engines : AtWork(e) => lock = e \/ e \in lost
  /\ \A e \in lost : pc[e] # "off" /\ lock # e

(* Boot: the lock is free when a process takes it, and the kill-state is    *)
(* read before the process counts as running.                               *)
LEMMA BootStep ==
  ASSUME LifecycleAssumption, WorksUnderLock, KillIsCurrent, NEW e \in Engines, Boot(e), History
  PROVE  WorksUnderLock' /\ KillIsCurrent'
<1> USE DEF WorksUnderLock, LockIsHeld, AtWork, TypeOK, KillIsCurrent, Phases, Running, session
<1>1. slipped' \in [Engines -> 0..2]
  BY SlippedCounts
<1>2. CASE Launch(e)
  <2>1. TypeOK'
    BY <1>2, <1>1 DEF Launch, process
  <2>2. LockIsHeld'
    BY <1>2 DEF Launch, process
  <2>3. KillIsCurrent'
    BY <1>2 DEF Launch, process
  <2> QED BY <2>1, <2>2, <2>3
<1>3. CASE LoadAndStart(e)
  <2>1. TypeOK'
    BY <1>3, <1>1 DEF LoadAndStart
  <2>2. LockIsHeld'
    BY <1>3 DEF LoadAndStart
  <2>3. KillIsCurrent'
    BY <1>3 DEF LoadAndStart
  <2> QED BY <2>1, <2>2, <2>3
<1>4. CASE BootReconcile(e)
  <2>1. TypeOK'
    BY <1>4, <1>1 DEF BootReconcile
  <2>2. LockIsHeld'
    BY <1>4 DEF BootReconcile
  <2>3. KillIsCurrent'
    BY <1>4 DEF BootReconcile
  <2> QED BY <2>1, <2>2, <2>3
<1>5. CASE StartStrategies(e)
  <2>1. TypeOK'
    BY <1>5, <1>1 DEF StartStrategies
  <2>2. LockIsHeld'
    BY <1>5 DEF StartStrategies
  <2>3. KillIsCurrent'
    BY <1>5 DEF StartStrategies
  <2> QED BY <2>1, <2>2, <2>3
<1> QED BY <1>2, <1>3, <1>4, <1>5 DEF Boot

(* Signals, orders, flattens and the sweeps: none touches the lock, and     *)
(* a sweep reads what was recorded.                                         *)
LEMMA TradeStep ==
  ASSUME LifecycleAssumption, WorksUnderLock, KillIsCurrent, NEW e \in Engines, Trade(e), History
  PROVE  WorksUnderLock' /\ KillIsCurrent'
<1> USE DEF WorksUnderLock, LockIsHeld, AtWork, TypeOK, KillIsCurrent, Phases, Running, session
<1>1. slipped' \in [Engines -> 0..2]
  BY SlippedCounts
<1>2. CASE Sweep(e)
  <2>1. TypeOK'
    BY <1>2, <1>1 DEF Sweep
  <2>2. LockIsHeld'
    BY <1>2 DEF Sweep
  <2>3. KillIsCurrent'
    BY <1>2 DEF Sweep
  <2> QED BY <2>1, <2>2, <2>3
<1>3. ASSUME NEW b \in BOOLEAN, OnSignal(e, b) PROVE WorksUnderLock' /\ KillIsCurrent'
  <2> DEFINE q == queue[e]
  <2>a. q \in Seq(Event) /\ Len(q) <= Depth
    BY DEF Event
  <2>b. queue' \in [Engines -> Seq(Event)] /\ \A f \in Engines : Len(queue'[f]) <= Depth
    BY <1>3, <2>a, BusBound DEF OnSignal, Takes, Event
  <2>1. TypeOK'
    BY <1>3, <1>1, <2>b DEF OnSignal, EndsAfter, Event, Critical
  <2>2. LockIsHeld'
    BY <1>3 DEF OnSignal
  <2>3. KillIsCurrent'
    BY <1>3 DEF OnSignal
  <2> QED BY <2>1, <2>2, <2>3
<1>4. CASE Emit(e)
  <2> DEFINE q == queue[e]
  <2>a. q \in Seq(Event) /\ Len(q) <= Depth
    BY DEF Event
  <2>b. queue' \in [Engines -> Seq(Event)] /\ \A f \in Engines : Len(queue'[f]) <= Depth
    BY <1>4, <2>a, BusBound DEF Emit, Event
  <2>1. TypeOK'
    BY <1>4, <1>1, <2>b DEF Emit, Event
  <2>2. LockIsHeld'
    BY <1>4 DEF Emit
  <2>3. KillIsCurrent'
    BY <1>4 DEF Emit
  <2> QED BY <2>1, <2>2, <2>3
<1>5. CASE OnOrder(e)
  <2> DEFINE q == queue[e]
  <2>a. q \in Seq(Event) /\ Len(q) <= Depth
    BY DEF Event
  <2>b. queue' \in [Engines -> Seq(Event)] /\ \A f \in Engines : Len(queue'[f]) <= Depth
    BY <1>5, <2>a, BusBound DEF OnOrder, Takes, Event
  <2>1. TypeOK'
    BY <1>5, <1>1, <2>b DEF OnOrder, EndsAfter, Event, Takes, Alive, Critical
  <2>2. LockIsHeld'
    BY <1>5 DEF OnOrder
  <2>3. KillIsCurrent'
    BY <1>5 DEF OnOrder
  <2> QED BY <2>1, <2>2, <2>3
<1>6. CASE Send(e)
  <2>1. TypeOK'
    BY <1>6, <1>1 DEF Send
  <2>2. LockIsHeld'
    BY <1>6 DEF Send
  <2>3. KillIsCurrent'
    BY <1>6 DEF Send
  <2> QED BY <2>1, <2>2, <2>3
<1>7. CASE StartFlatten(e)
  <2>1. TypeOK'
    BY <1>7, <1>1 DEF StartFlatten, Alive
  <2>2. LockIsHeld'
    BY <1>7 DEF StartFlatten
  <2>3. KillIsCurrent'
    BY <1>7 DEF StartFlatten
  <2> QED BY <2>1, <2>2, <2>3
<1>8. CASE EndFlatten(e)
  <2>1. TypeOK'
    BY <1>8, <1>1 DEF EndFlatten
  <2>2. LockIsHeld'
    BY <1>8 DEF EndFlatten
  <2>3. KillIsCurrent'
    BY <1>8 DEF EndFlatten
  <2> QED BY <2>1, <2>2, <2>3
<1> QED BY <1>2, <1>3, <1>4, <1>5, <1>6, <1>7, <1>8 DEF Trade

(* A shutdown: the lock goes last, after the adapter.                       *)
LEMMA StopStep ==
  ASSUME LifecycleAssumption, WorksUnderLock, KillIsCurrent, NEW e \in Engines, Stop(e), History
  PROVE  WorksUnderLock' /\ KillIsCurrent'
<1> USE DEF WorksUnderLock, LockIsHeld, AtWork, TypeOK, KillIsCurrent, Phases, Running, session
<1>1. slipped' \in [Engines -> 0..2]
  BY SlippedCounts
<1>2. CASE Cancel(e)
  <2>1. TypeOK'
    BY <1>2, <1>1 DEF Cancel, process
  <2>2. LockIsHeld'
    BY <1>2 DEF Cancel, process
  <2>3. KillIsCurrent'
    BY <1>2 DEF Cancel, process
  <2> QED BY <2>1, <2>2, <2>3
<1>3. CASE Join(e)
  <2>a. /\ pc' = [pc EXCEPT ![e] = "closing"] /\ pc[e] = "joining" /\ Forget(e)
        /\ UNCHANGED <<lock, lost, flatten, halted, beat>>
    BY <1>3 DEF Join
  <2>1. TypeOK'
    <3>1. pc' \in [Engines -> Phases]
      BY <2>a
    <3>2. \A f \in Engines : sending'[f] => Running(f)' \/ pc'[f] = "joining"
      BY <2>a, Forgotten
    <3>3. \A f \in Engines : flatten'[f] => Running(f)' \/ pc'[f] \in {"joining", "closing"}
      BY <2>a
    <3> QED BY <1>1, <2>a, <3>1, <3>2, <3>3, Forgotten DEF Event
  <2>2. LockIsHeld'
    BY <2>a
  <2>3. KillIsCurrent'
    BY <2>a, Forgotten
  <2> QED BY <2>1, <2>2, <2>3
<1>7. CASE CloseAdapter(e)
  <2>1. TypeOK'
    BY <1>7, <1>1 DEF CloseAdapter
  <2>2. LockIsHeld'
    BY <1>7 DEF CloseAdapter
  <2>3. KillIsCurrent'
    BY <1>7 DEF CloseAdapter
  <2> QED BY <2>1, <2>2, <2>3
<1>4. CASE ReleaseLock(e)
  <2>1. TypeOK'
    BY <1>4, <1>1 DEF ReleaseLock, process, may_release
  <2>2. LockIsHeld'
    BY <1>4 DEF ReleaseLock, process, may_release
  <2>3. KillIsCurrent'
    BY <1>4 DEF ReleaseLock, process
  <2> QED BY <2>1, <2>2, <2>3
<1>5. CASE Exit(e)
  <2>1. TypeOK'
    BY <1>5, <1>1 DEF Exit, process
  <2>2. LockIsHeld'
    BY <1>5 DEF Exit, process
  <2>3. KillIsCurrent'
    BY <1>5 DEF Exit, process
  <2> QED BY <2>1, <2>2, <2>3
<1>6. ASSUME NEW t \in Critical, TaskEnds(e, t) PROVE WorksUnderLock' /\ KillIsCurrent'
  <2>1. TypeOK'
    BY <1>6, <1>1 DEF TaskEnds
  <2>2. LockIsHeld'
    BY <1>6 DEF TaskEnds
  <2>3. KillIsCurrent'
    BY <1>6 DEF TaskEnds
  <2> QED BY <2>1, <2>2, <2>3
<1> QED BY <1>2, <1>3, <1>4, <1>5, <1>6, <1>7 DEF Stop

(* The feed, an operator's stop signal, a killed process, the database      *)
(* server that notices it or ends the session of a live one, a task that    *)
(* dies.                                                                    *)
LEMMA WorldStep ==
  ASSUME LifecycleAssumption, WorksUnderLock, KillIsCurrent, NEW e \in Engines, World(e), History
  PROVE  WorksUnderLock' /\ KillIsCurrent'
<1> USE DEF WorksUnderLock, LockIsHeld, AtWork, TypeOK, KillIsCurrent, Phases, Running, session
<1>1. slipped' \in [Engines -> 0..2]
  BY SlippedCounts
<1>2. CASE FeedTurns(e)
  <2>1. TypeOK'
    BY <1>2, <1>1 DEF FeedTurns
  <2>2. LockIsHeld'
    BY <1>2 DEF FeedTurns
  <2>3. KillIsCurrent'
    BY <1>2 DEF FeedTurns
  <2> QED BY <2>1, <2>2, <2>3
<1>3. CASE Shutdown(e)
  <2>1. TypeOK'
    BY <1>3, <1>1 DEF Shutdown, process
  <2>2. LockIsHeld'
    BY <1>3 DEF Shutdown, process
  <2>3. KillIsCurrent'
    BY <1>3 DEF Shutdown, process
  <2> QED BY <2>1, <2>2, <2>3
<1>4. CASE Die(e)
  <2>1. /\ pc' = [pc EXCEPT ![e] = "off"] /\ Forget(e) /\ UNCHANGED <<lock, halted, beat>>
        /\ flatten' = [flatten EXCEPT ![e] = FALSE] /\ lost' = lost \ {e}
    BY <1>4 DEF Die
  <2>2. TypeOK'
    <3>1. pc' \in [Engines -> Phases]
      BY <2>1
    <3>2. \A f \in Engines : sending'[f] => Running(f)' \/ pc'[f] = "joining"
      BY <2>1, Forgotten
    <3>3. /\ flatten' \in [Engines -> BOOLEAN]
          /\ \A f \in Engines : flatten'[f] => Running(f)' \/ pc'[f] \in {"joining", "closing"}
      BY <2>1
    <3> QED BY <1>1, <2>1, <3>1, <3>2, <3>3, Forgotten DEF Event
  <2>3. LockIsHeld'
    BY <2>1
  <2>4. KillIsCurrent'
    BY <2>1, Forgotten
  <2> QED BY <2>2, <2>3, <2>4
<1>5. CASE SessionReaped(e)
  <2>1. TypeOK'
    BY <1>5, <1>1 DEF SessionReaped, process
  <2>2. LockIsHeld'
    BY <1>5 DEF SessionReaped, process
  <2>3. KillIsCurrent'
    BY <1>5 DEF SessionReaped, process
  <2> QED BY <2>1, <2>2, <2>3
<1>7. CASE SessionLost(e)
  <2>1. TypeOK'
    BY <1>7, <1>1 DEF SessionLost, process
  <2>2. LockIsHeld'
    BY <1>7 DEF SessionLost, process, LifecycleAssumption
  <2>3. KillIsCurrent'
    BY <1>7 DEF SessionLost, process
  <2> QED BY <2>1, <2>2, <2>3
<1>6. ASSUME NEW t \in Critical, TaskDies(e, t) PROVE WorksUnderLock' /\ KillIsCurrent'
  <2>1. TypeOK'
    BY <1>6, <1>1 DEF TaskDies
  <2>2. LockIsHeld'
    BY <1>6 DEF TaskDies
  <2>3. KillIsCurrent'
    BY <1>6 DEF TaskDies
  <2> QED BY <2>1, <2>2, <2>3
<1> QED BY <1>2, <1>3, <1>4, <1>5, <1>6, <1>7 DEF World

(* The heartbeat key, and an operator's command, which leaves every running *)
(* engine behind the log.                                                   *)
LEMMA SharedStep ==
  ASSUME LifecycleAssumption, WorksUnderLock, KillIsCurrent, (\E e \in Engines : Heartbeat(e)) \/ BeatLapses \/ Command, History
  PROVE  WorksUnderLock' /\ KillIsCurrent'
<1> USE DEF WorksUnderLock, LockIsHeld, AtWork, TypeOK, KillIsCurrent, Phases, Running, session
<1>1. slipped' \in [Engines -> 0..2]
  BY SlippedCounts
<1>2. ASSUME NEW e \in Engines, Heartbeat(e) PROVE WorksUnderLock' /\ KillIsCurrent'
  <2>1. TypeOK'
    BY <1>2, <1>1 DEF Heartbeat, process, task_health
  <2>2. LockIsHeld'
    BY <1>2 DEF Heartbeat, process
  <2>3. KillIsCurrent'
    BY <1>2 DEF Heartbeat, process
  <2> QED BY <2>1, <2>2, <2>3
<1>3. CASE BeatLapses
  <2>1. TypeOK'
    BY <1>3, <1>1 DEF BeatLapses, process
  <2>2. LockIsHeld'
    BY <1>3 DEF BeatLapses, process
  <2>3. KillIsCurrent'
    BY <1>3 DEF BeatLapses, process
  <2> QED BY <2>1, <2>2, <2>3
<1>4. CASE Command
  <2>1. TypeOK'
    BY <1>4, <1>1 DEF Command, process
  <2>2. LockIsHeld'
    BY <1>4 DEF Command, process
  <2>3. KillIsCurrent'
    BY <1>4 DEF Command, process
  <2> QED BY <2>1, <2>2, <2>3
<1> QED BY <1>2, <1>3, <1>4

-----------------------------------------------------------------------------
(* An entry's last check.                                                   *)

(* What the check reads in memory is at least as strict as what forbids     *)
(* entries: an engine that is not halted() may trade.                       *)
LEMMA HaltedIsStrict ==
  ASSUME TypeOK, KillIsCurrent, NEW e \in Engines, ~is_halted(e)
  PROVE  ~Forbidden(e)
BY DEF TypeOK, KillIsCurrent, is_halted, Forbidden

(* Only the check lets an entry through, and only from an engine that is    *)
(* not halted().                                                            *)
LEMMA OnlyTheCheckSends ==
  ASSUME TypeOK, NEW f \in Engines, ~sending[f], sending'[f],
         \/ \E e \in Engines : Boot(e) \/ Trade(e) \/ Heartbeat(e) \/ Stop(e) \/ World(e)
         \/ BeatLapses \/ Command
  PROVE  ~is_halted(f)
<1>1. ASSUME NEW e \in Engines, OnOrder(e) PROVE ~is_halted(f)
  BY <1>1 DEF OnOrder, suppressed, TypeOK
<1>2. ASSUME NEW e \in Engines, Send(e) PROVE FALSE
  BY <1>2 DEF Send, TypeOK
<1>3. ASSUME NEW e \in Engines, NEW t \in Critical, TaskDies(e, t) PROVE FALSE
  BY <1>3 DEF TaskDies, TypeOK
<1>4. ASSUME NEW e \in Engines, Forget(e) PROVE FALSE
  BY <1>4 DEF Forget, TypeOK
<1>5. ASSUME sending' = sending PROVE FALSE
  BY <1>5
<1>6. ASSUME NEW e \in Engines, Boot(e) PROVE FALSE
  BY <1>5, <1>6 DEF Boot, Launch, LoadAndStart, BootReconcile, StartStrategies, process
<1>7. ASSUME NEW e \in Engines, Trade(e) PROVE ~is_halted(f)
  BY <1>1, <1>2, <1>5, <1>7 DEF Trade, Sweep, OnSignal, Emit, StartFlatten, EndFlatten
<1>8. ASSUME NEW e \in Engines, Stop(e) PROVE FALSE
  BY <1>4, <1>5, <1>8 DEF Stop, Cancel, Join, CloseAdapter, ReleaseLock, Exit, TaskEnds, process
<1>9. ASSUME NEW e \in Engines, World(e) PROVE FALSE
  BY <1>3, <1>4, <1>5, <1>9 DEF World, FeedTurns, Shutdown, Die, SessionReaped, SessionLost, process
<1>10. (\E e \in Engines : Heartbeat(e)) \/ BeatLapses \/ Command => FALSE
  BY <1>5 DEF Heartbeat, BeatLapses, Command, process
<1> QED BY <1>6, <1>7, <1>8, <1>9, <1>10

(* One entry at most is past its check when entries become forbidden; it    *)
(* slips, and no other follows while they are.                              *)
LEMMA ReserveStep ==
  ASSUME IInv, Next, WorksUnderLock'
  PROVE  NoneInReserve'
<1>1. TypeOK /\ TypeOK' /\ KillIsCurrent /\ NoneInReserve
  BY DEF IInv, WorksUnderLock
<1> SUFFICES ASSUME NEW f \in Engines, slipped'[f] # 0
             PROVE  slipped'[f] = 1 /\ Forbidden(f)' /\ ~sending'[f]
  BY DEF NoneInReserve
<1>2. slipped'[f] = IF ~Forbidden(f)' THEN 0
                    ELSE IF sending[f] /\ ~sending'[f] /\ slipped[f] < 2 THEN slipped[f] + 1
                    ELSE slipped[f]
  BY DEF Next, History
<1>3. Forbidden(f)'
  BY <1>2
<1>4. CASE slipped[f] = 0
  BY <1>2, <1>3, <1>4
<1>5. CASE slipped[f] # 0
  <2>1. slipped[f] = 1 /\ Forbidden(f) /\ ~sending[f]
    BY <1>1, <1>5 DEF NoneInReserve
  <2>2. ~sending'[f]
    BY <1>1, <2>1, HaltedIsStrict, OnlyTheCheckSends DEF Next
  <2> QED BY <1>2, <1>3, <2>1, <2>2
<1> QED BY <1>4, <1>5

-----------------------------------------------------------------------------
LEMMA InitIInv == LifecycleAssumption /\ Init => IInv
<1> SUFFICES ASSUME LifecycleAssumption, Init PROVE IInv
  OBVIOUS
<1>1. \A e \in Engines : queue[e] \in Seq(Event) /\ Len(queue[e]) = 0
  BY EmptySeq DEF Init
<1>2. TypeOK
  BY <1>1 DEF Init, TypeOK, Phases, Event, LifecycleAssumption
<1>3. WorksUnderLock
  BY <1>2 DEF WorksUnderLock, Init, AtWork
<1>4. KillIsCurrent /\ NoneInReserve
  BY DEF Init, KillIsCurrent, NoneInReserve, Running
<1> QED BY <1>3, <1>4 DEF IInv

LEMMA NextIInv == LifecycleAssumption /\ IInv /\ [Next]_vars => IInv'
<1> SUFFICES ASSUME LifecycleAssumption, IInv, [Next]_vars PROVE IInv'
  OBVIOUS
<1>1. CASE Next
  <2>1. History /\ WorksUnderLock /\ KillIsCurrent
    BY <1>1 DEF Next, IInv
  <2>2. WorksUnderLock' /\ KillIsCurrent'
    BY <1>1, <2>1, BootStep, TradeStep, StopStep, WorldStep, SharedStep DEF Next
  <2> QED BY <1>1, <2>2, ReserveStep DEF IInv
<1>2. CASE UNCHANGED vars
  BY <1>2 DEF IInv, WorksUnderLock, TypeOK, KillIsCurrent, NoneInReserve, Running, Forbidden,
              AtWork, vars, process, session
<1> QED BY <1>1, <1>2

(* The inductive invariant holds in every reachable state.                  *)
THEOREM Invariance == Spec => []IInv
<1>1. Init => IInv
  BY LifecycleAssumption, InitIInv
<1>2. IInv /\ [Next]_vars => IInv'
  BY LifecycleAssumption, NextIInv
<1> QED BY <1>1, <1>2, PTL DEF Spec

(* However many processes are launched, killed and reaped, whoever may      *)
(* drive the broker holds the lock, unless its session has ended under it.  *)
THEOREM OneEngineWorks == Spec => []WorksUnderLock
<1>1. IInv => WorksUnderLock
  BY DEF IInv
<1> QED BY <1>1, Invariance, PTL

(* What main() promises without condition - one engine per portfolio -      *)
(* holds up to the sessions lost: of two processes at work one has lost     *)
(* its own, so k lost sessions let k engines in and no more.                *)
THEOREM OneMorePerLoss ==
  Spec => [](\A e, f \in Engines : AtWork(e) /\ AtWork(f) /\ e # f => e \in lost \/ f \in lost)
<1>1. WorksUnderLock =>
        \A e, f \in Engines : AtWork(e) /\ AtWork(f) /\ e # f => e \in lost \/ f \in lost
  BY DEF WorksUnderLock
<1> QED BY <1>1, OneEngineWorks, PTL

(* From the moment entries are forbidden at most one goes out, whatever the *)
(* length of the queue and the number of critical tasks.                    *)
THEOREM OneSlips == Spec => []AtMostOneSlips
<1>1. IInv => AtMostOneSlips
  <2> SUFFICES ASSUME IInv, NEW e \in Engines PROVE slipped[e] <= 1
    BY DEF AtMostOneSlips
  <2>1. slipped[e] = 0 \/ slipped[e] = 1
    BY DEF IInv, NoneInReserve
  <2> QED BY <2>1
<1> QED BY <1>1, Invariance, PTL
=============================================================================
