-------------------------- MODULE FlattenDriveProofs --------------------------
(***************************************************************************)
(* Proofs about the flatten drive, for every set of operators and of       *)
(* liquidations and every bound on the log and on crashes.                 *)
(*                                                                         *)
(* First, the drive implements the command log: whatever the book does,    *)
(* the log, the sweeper and the kill switch take the steps of CommandLog   *)
(* or none.  So the invariant proved there holds here (CL), and on top of  *)
(* it: as long as the captured flatten has no outcome no resume can have   *)
(* been inserted after it, the kill switch stays halted, and no entry gets *)
(* past its gate between the controller's three reads.                     *)
(***************************************************************************)
EXTENDS FlattenDrive, TLAPS

CL == INSTANCE CommandLogProofs

-----------------------------------------------------------------------------
(* The refinement.                                                          *)

(* The initial states are initial states of the log.                        *)
LEMMA InitRefines == Init => Commands!Init
  BY DEF Init

(* Every step is a step of the log, or leaves the log alone.                *)
LEMMA StepRefines == [Next]_vars => [Commands!Next]_(Commands!vars)
  <1> SUFFICES ASSUME [Next]_vars PROVE [Commands!Next]_(Commands!vars)
    OBVIOUS
  <1> USE DEF command
  <1>1. CASE EntryStep
    BY <1>1 DEF EntryStep, Approve, PassGate, PersistEntry, SubmitEntry, SettleRow, Commands!vars
  <1>2. CASE BrokerStep
    BY <1>2 DEF BrokerStep, BrokerTakeEntry, BrokerFillEntry, BrokerFillLeg, BrokerCancel,
                BrokerTakeLiquidation, BrokerMissLiquidation, BrokerFillLiquidation, Commands!vars
  <1>3. CASE ControllerStep
    <2>1. CASE ReadPositions \/ ReadOrders \/ count_pending_submit
      BY <2>1 DEF ReadPositions, ReadOrders, count_pending_submit, Commands!vars
    <2>2. CASE ~(ReadPositions \/ ReadOrders \/ count_pending_submit)
      <3>1. Commands!DriveStep
        BY <1>3, <2>2 DEF ControllerStep, BeginDrive, Verify, Publish, Wait, FailTick,
                          ClearFlattening, Commands!DriveStep
      <3> QED BY <3>1 DEF Commands!Next
    <2> QED BY <2>1, <2>2
  <1>4. CASE PassStep
    BY <1>4 DEF PassStep, StartPass, LoseFlattenEvent, ListOrders, ReadBook, EndPass, FailPass,
                CancelOrders, SubmitLiquidation, Commands!vars
  <1>5. CASE CommandStep
    BY <1>5 DEF CommandStep, Alone, Commands!Next
  <1>6. CASE Crash
    BY <1>6 DEF Crash, Commands!Next
  <1>7. CASE UNCHANGED vars
    BY <1>7 DEF vars, Commands!vars
  <1> QED BY <1>1, <1>2, <1>3, <1>4, <1>5, <1>6, <1>7 DEF Next

(* The flatten drive implements the command log.                            *)
THEOREM Refinement == Spec => ImplementsCommandLog
  BY InitRefines, StepRefines, PTL DEF Spec, ImplementsCommandLog, Commands!Spec

-----------------------------------------------------------------------------
(* What CommandLog's proofs say of every step of the drive.                 *)

(* The bounds CommandLog assumes are the drive's.                           *)
LEMMA LogBounds == CL!CommandBounds
  BY DriveBounds DEF CL!CommandBounds

(* A step keeps the log's invariant, never shortens the log nor takes an    *)
(* outcome back, and never takes the engine back to an older command.       *)
LEMMA LogStep ==
  ASSUME CL!IInv, [Next]_vars
  PROVE  /\ CL!IInv' /\ CL!LogGrows(log, log')
         /\ kill'.seq >= kill.seq
  <1>1. [CL!Next]_(CL!vars)
    <2>1. [Commands!Next]_(Commands!vars)
      BY StepRefines
    <2> QED BY <2>1
       DEF Commands!Next, Commands!vars, Commands!IssueStep, Commands!TakeLock, Commands!CheckGuard,
           Commands!InsertCommand, Commands!AbandonCommand, Commands!Start, Commands!BootReconciled,
           Commands!SweepStep, Commands!SweepRead, Commands!SweepCommit, Commands!SweepApply,
           Commands!SweepFail, Commands!DriveStep, Commands!BeginDrive, Commands!EndDrive,
           Commands!MarkVerified, Commands!ClearFlattening, Commands!Crash, Commands!Action,
           Commands!unresolved, Commands!LastResume, Commands!Armed, Commands!apply_latest,
           Commands!derive_kill_state, Commands!stamp_applied, Commands!supersede_stale_flattens,
           Commands!IdleSweeper, Commands!IdleDrive,
           CL!Next, CL!vars, CL!IssueStep, CL!TakeLock, CL!CheckGuard,
           CL!InsertCommand, CL!AbandonCommand, CL!Start, CL!BootReconciled,
           CL!SweepStep, CL!SweepRead, CL!SweepCommit, CL!SweepApply,
           CL!SweepFail, CL!DriveStep, CL!BeginDrive, CL!EndDrive,
           CL!MarkVerified, CL!ClearFlattening, CL!Crash, CL!Action,
           CL!unresolved, CL!LastResume, CL!Armed, CL!apply_latest,
           CL!derive_kill_state, CL!stamp_applied, CL!supersede_stale_flattens,
           CL!IdleSweeper, CL!IdleDrive
  <1> QED BY <1>1, LogBounds, CL!NextIInv, CL!KillForward

(* The two instances of the log say the same.                               *)
LEMMA SameInvariant == (Commands!IInv <=> CL!IInv) /\ (Commands!IInv' <=> CL!IInv')
  BY DEF Commands!IInv, Commands!TypeOK, Commands!Command, Commands!Action, Commands!Result,
         Commands!KillSwitch, Commands!Seqs, Commands!Sweeper, Commands!IdleSweeper, Commands!Drive,
         Commands!IdleDrive, Commands!ResumeFollowsOutcome, Commands!IssueInv, Commands!EngineInv,
         CL!IInv, CL!TypeOK, CL!Command, CL!Action, CL!Result,
         CL!KillSwitch, CL!Seqs, CL!Sweeper, CL!IdleSweeper, CL!Drive,
         CL!IdleDrive, CL!ResumeFollowsOutcome, CL!IssueInv, CL!EngineInv

(* The log, the kill switch and the captured flatten, as the proofs below   *)
(* need them.                                                               *)
LEMMA LogFacts ==
  ASSUME CL!IInv
  PROVE  /\ Len(log) \in Nat /\ DOMAIN log = 1 .. Len(log)
         /\ kill.seq \in 0 .. Len(log) /\ kill.halted \in BOOLEAN
         /\ kill.halted <=> kill.seq # 0 /\ log[kill.seq].action # "resume"
         /\ drive.pc \in {"idle", "checking", "marked"}
         /\ drive.pc # "idle" =>
              engine = "running" /\ drive.seq \in 1 .. Len(log) /\ log[drive.seq].action = "flatten"
         /\ kill.flattening => kill.seq # 0 /\ log[kill.seq].action = "flatten"
  <1>1. Len(log) \in Nat /\ DOMAIN log = 1 .. Len(log)
    BY CL!LogShape DEF CL!IInv, CL!TypeOK
  <1>2. kill.seq \in Nat /\ kill.halted \in BOOLEAN
    BY DEF CL!IInv, CL!TypeOK, CL!KillSwitch, CL!Seqs
  <1>3. /\ drive.pc \in {"idle", "checking", "marked"}
        /\ drive.pc # "idle" => drive.seq \in Nat \ {0}
    BY DEF CL!IInv, CL!TypeOK, CL!Drive, CL!IdleDrive, CL!Seqs
  <1> QED BY <1>1, <1>2, <1>3 DEF CL!IInv, CL!EngineInv

(* While the flatten a drive has captured is without an outcome, nothing    *)
(* has disarmed the halt.                                                   *)
LEMMA StillHalted ==
  ASSUME CL!IInv, DriveIsCurrent, drive.pc # "idle", log[drive.seq].result = "none"
  PROVE  kill.halted
  <1>1. /\ Len(log) \in Nat /\ DOMAIN log = 1 .. Len(log) /\ kill.seq \in 0 .. Len(log)
        /\ drive.seq \in 1 .. Len(log) /\ log[drive.seq].action = "flatten"
        /\ drive.seq <= kill.seq
    BY LogFacts DEF DriveIsCurrent
  <1>2. CASE kill.seq = drive.seq
    BY <1>1, <1>2, LogFacts
  <1>3. CASE drive.seq < kill.seq
    <2>1. log[kill.seq].action # "resume"
      BY <1>1, <1>3 DEF CL!IInv, CL!ResumeFollowsOutcome
    <2> QED BY <1>1, <1>3, <2>1, LogFacts
  <1> QED BY <1>1, <1>2, <1>3

-----------------------------------------------------------------------------
(* The inductive invariant, one group of steps at a time.                   *)

(* A step that leaves the drive and its reads alone: as outcomes are never  *)
(* taken back, it is enough that no entry gets past its gate and no         *)
(* position appears while the reads are quiet and the flatten open.         *)
LEMMA ReadsKept ==
  ASSUME CL!IInv, CL!IInv', CL!LogGrows(log, log'), kill'.seq >= kill.seq,
         DriveIsCurrent, QuietHolds, UNCHANGED <<drive, look>>,
         look.pc # "idle" => drive.pc # "idle",
         look.pc # "idle" /\ look.quiet /\ log[drive.seq].result = "none"
             /\ entry \notin {"passed", "persisted", "sent", "working"} =>
           /\ entry' \notin {"passed", "persisted", "sent", "working"}
           /\ pos = 0 => pos' = 0
  PROVE  DriveIsCurrent' /\ QuietHolds'
  <1>1. DriveIsCurrent'
    <2>1. drive.pc # "idle" => drive.seq \in Nat /\ kill.seq \in Nat /\ kill'.seq \in Nat
      <3>1. kill'.seq \in Nat
        BY DEF CL!IInv, CL!TypeOK, CL!KillSwitch, CL!Seqs
      <3> QED BY <3>1, LogFacts
    <2> QED BY <2>1 DEF DriveIsCurrent
  <1>2. look.pc # "idle" /\ log'[drive.seq].result = "none" => log[drive.seq].result = "none"
    BY LogFacts DEF CL!LogGrows
  <1> QED BY <1>1, <1>2 DEF QuietHolds

(* The entry's own steps: its gate is shut.                                 *)
LEMMA EntryStepIInv ==
  ASSUME CL!IInv, TypeOK, DriveIsCurrent, QuietHolds, EntryStep
  PROVE  /\ TypeOK'
         /\ look.pc # "idle" /\ look.quiet /\ log[drive.seq].result = "none"
                /\ entry \notin {"passed", "persisted", "sent", "working"} =>
              entry' \notin {"passed", "persisted", "sent", "working"}
         /\ UNCHANGED <<drive, look, pos>>
  <1> USE DEF EntryStep, Approve, PassGate, PersistEntry, SubmitEntry, SettleRow
  <1>1. UNCHANGED <<command, pos, leg, canceling, liq, drivers>>
    OBVIOUS
  <1>2. entry' \in EntryState /\ pending' \in BOOLEAN
    BY DEF TypeOK, EntryState
  <1>3. TypeOK'
    BY <1>1, <1>2 DEF TypeOK, command, drivers
  <1>4. look.pc # "idle" /\ look.quiet /\ log[drive.seq].result = "none" => kill.halted
    <2>1. look.pc # "idle" => drive.pc # "idle"
      BY DEF TypeOK
    <2> QED BY <2>1, StillHalted
  <1> QED BY <1>1, <1>3, <1>4 DEF command, drivers

(* The broker's: only a working entry fills, and a position only goes.      *)
LEMMA BrokerStepIInv ==
  ASSUME TypeOK, BrokerStep
  PROVE  /\ TypeOK'
         /\ entry \notin {"passed", "persisted", "sent", "working"} =>
              /\ entry' \notin {"passed", "persisted", "sent", "working"}
              /\ pos = 0 => pos' = 0
         /\ UNCHANGED <<drive, look>>
  <1> USE DEF BrokerStep, BrokerTakeEntry, BrokerFillEntry, BrokerFillLeg, BrokerCancel,
              BrokerTakeLiquidation, BrokerMissLiquidation, BrokerFillLiquidation
  <1>1. UNCHANGED <<command, pending, drivers>>
    OBVIOUS
  <1>2. entry' \in EntryState /\ leg' \in {"none", "working", "canceled"} /\ pos' \in 0 .. 1
    BY DEF TypeOK, EntryState
  <1>3. canceling' \in SUBSET {"entry", "leg"}
    BY DEF TypeOK
  <1>4. liq' \in [Liquidations -> LiqState]
    BY DEF TypeOK, LiqState
  <1>5. TypeOK'
    BY <1>1, <1>2, <1>3, <1>4 DEF TypeOK, command, drivers
  <1>6. entry \notin {"passed", "persisted", "sent", "working"} =>
          /\ entry' \notin {"passed", "persisted", "sent", "working"}
          /\ pos = 0 => pos' = 0
    OBVIOUS
  <1> QED BY <1>1, <1>5, <1>6 DEF command, drivers

(* The execution stage's pass: cancels and liquidations, never an entry.    *)
LEMMA PassStepIInv ==
  ASSUME TypeOK, PassStep
  PROVE  TypeOK' /\ UNCHANGED <<drive, look, entry, pos>>
  <1> DEFINE Pass == [pc : {"idle", "list", "cancel", "confirm", "liquidate", "wait"},
                      cancel : SUBSET {"entry", "leg"}, covered : BOOLEAN]
  <1> USE DEF PassStep, StartPass, LoseFlattenEvent, ListOrders, CancelOrders, ReadBook,
              SubmitLiquidation, EndPass, FailPass
  <1>1. UNCHANGED <<command, entry, pending, pos, leg, look>>
    BY DEF book
  <1>2. IdlePass \in Pass /\ \A r \in Pass : r.cancel \in SUBSET {"entry", "leg"}
    BY DEF IdlePass
  <1>3. pass' \in Pass
    <2>1. CASE StartPass
      BY <2>1 DEF IdlePass
    <2>2. CASE ListOrders
      <3>1. {x \in {"entry", "leg"} : IF x = "entry" THEN entry = "working" ELSE leg = "working"}
              \in SUBSET {"entry", "leg"}
        OBVIOUS
      <3> QED BY <2>2, <3>1
    <2>3. CASE \E accepted \in SUBSET {"entry", "leg"} : CancelOrders(accepted)
      BY <2>3 DEF TypeOK
    <2>4. CASE LoseFlattenEvent \/ ReadBook \/ EndPass \/ FailPass
      BY <2>4, <1>2 DEF TypeOK
    <2>5. CASE \E l \in Liquidations : SubmitLiquidation(l)
      BY <2>5 DEF TypeOK
    <2> QED BY <2>1, <2>2, <2>3, <2>4, <2>5
  <1>4. canceling' \in SUBSET {"entry", "leg"}
    BY DEF TypeOK, book
  <1>5. liq' \in [Liquidations -> LiqState]
    BY DEF TypeOK, LiqState, book
  <1>6. flattenEvent' \in BOOLEAN /\ (flattenEvent' => flattenEvent)
    <2>1. flattenEvent' = FALSE \/ flattenEvent' = flattenEvent
      OBVIOUS
    <2>2. CASE flattenEvent' = FALSE
      BY <2>2
    <2>3. CASE flattenEvent' = flattenEvent
      BY <2>3 DEF TypeOK
    <2> QED BY <2>1, <2>2, <2>3
  <1>7. engine # "running" => pass' = IdlePass
    BY DEF TypeOK, IdlePass
  <1> QED BY <1>1, <1>3, <1>4, <1>5, <1>6, <1>7 DEF TypeOK, command

(* The command log's other steps: the book and the drive do not move.       *)
LEMMA CommandStepIInv ==
  ASSUME CL!IInv, TypeOK, CommandStep
  PROVE  TypeOK' /\ UNCHANGED <<drive, look, entry, pos>>
  <1>1. UNCHANGED <<book, drivers>>
    BY DEF CommandStep, Alone
  <1>2. UNCHANGED drive /\ (engine = "running" => engine' = "running")
    BY DEF CommandStep, Alone, Commands!IssueStep, Commands!TakeLock, Commands!CheckGuard,
           Commands!InsertCommand, Commands!AbandonCommand, Commands!Start, Commands!BootReconciled,
           Commands!SweepStep, Commands!SweepRead, Commands!SweepCommit, Commands!SweepApply,
           Commands!SweepFail
  <1>3. TypeOK'
    BY <1>1, <1>2 DEF TypeOK, book, drivers
  <1> QED BY <1>1, <1>2, <1>3 DEF book, drivers

(* The controller's: what a drive reads while it is quiet stays true until  *)
(* its outcome is written.                                                  *)
LEMMA ControllerStepIInv ==
  ASSUME CL!IInv, CL!IInv', CL!LogGrows(log, log'), kill'.seq >= kill.seq,
         TypeOK, DriveIsCurrent, QuietHolds, ControllerStep
  PROVE  TypeOK' /\ DriveIsCurrent' /\ QuietHolds'
  <1> DEFINE Look == [pc : {"idle", "positions", "orders", "rows", "decide"}, held : BOOLEAN,
                      working : BOOLEAN, covered : BOOLEAN, pending : BOOLEAN, quiet : BOOLEAN]
  <1>1. IdleLook \in Look /\ IdleLook.pc = "idle"
    BY DEF IdleLook
  <1>2. look \in Look /\ flattenEvent \in BOOLEAN
    BY DEF TypeOK
  <1>3. CASE BeginDrive
    <2>1. /\ look' = [IdleLook EXCEPT !.pc = "positions",
                        !.quiet = entry \notin {"passed", "persisted", "sent", "working"}]
          /\ engine = "running" /\ engine' = engine
          /\ drive' = [pc |-> "checking", seq |-> kill.seq]
          /\ UNCHANGED <<log, kill, book, flattenEvent, pass>>
      BY <1>3 DEF BeginDrive, Commands!BeginDrive
    <2>2. /\ look' \in Look /\ look'.pc = "positions"
          /\ look'.quiet => entry \notin {"passed", "persisted", "sent", "working"}
      BY <2>1 DEF IdleLook
    <2>3. TypeOK'
      BY <2>1, <2>2 DEF TypeOK, book
    <2>4. DriveIsCurrent'
      BY <2>1, LogFacts DEF DriveIsCurrent
    <2>5. QuietHolds'
      BY <2>1, <2>2 DEF QuietHolds, book
    <2> QED BY <2>3, <2>4, <2>5
  <1>4. CASE ReadPositions \/ ReadOrders \/ count_pending_submit
    <2>1. UNCHANGED <<command, book, flattenEvent, pass>> /\ look.pc # "idle"
      BY <1>4 DEF ReadPositions, ReadOrders, count_pending_submit
    <2>2. /\ look' \in Look /\ look'.pc # "idle" /\ look'.quiet = look.quiet
          /\ look.pc = "positions" => look'.held = (pos > 0)
          /\ look.pc # "positions" => look'.held = look.held
      <3>1. CASE ReadPositions
        <4>1. (pos > 0) \in BOOLEAN /\ look' = [look EXCEPT !.pc = "orders", !.held = pos > 0]
          BY <3>1 DEF ReadPositions
        <4> QED BY <3>1, <4>1, <1>2 DEF ReadPositions
      <3>2. CASE ReadOrders
        <4>1. /\ (entry = "working" \/ leg = "working") \in BOOLEAN
              /\ (\E l \in Liquidations : liq[l] = "working") \in BOOLEAN
          OBVIOUS
        <4> QED BY <3>2, <4>1, <1>2 DEF ReadOrders
      <3>3. CASE count_pending_submit
        BY <3>3, <1>2 DEF count_pending_submit, TypeOK
      <3> QED BY <1>4, <3>1, <3>2, <3>3
    <2>3. TypeOK'
      <3>1. engine = "running"
        BY <2>1 DEF TypeOK, IdleLook
      <3> QED BY <2>1, <2>2, <3>1 DEF TypeOK, book, command
    <2>4. QuietHolds'
      <3>1. pos \in 0 .. 1
        BY DEF TypeOK
      <3> QED BY <2>1, <2>2, <3>1 DEF QuietHolds, book, command
    <2> QED BY <2>1, <2>3, <2>4 DEF DriveIsCurrent, command
  <1>5. CASE Verify \/ Publish \/ Wait \/ FailTick
    <2> USE DEF Verify, Publish, Wait, FailTick, Commands!MarkVerified, Commands!EndDrive
    <2>1. look' = IdleLook /\ UNCHANGED <<book, pass, engine, kill>> /\ drive.pc # "idle"
      BY <1>5
    <2>2. flattenEvent' \in BOOLEAN
      <3>1. flattenEvent' = TRUE \/ flattenEvent' = flattenEvent
        BY <1>5
      <3> QED BY <1>2, <3>1
    <2>3. /\ drive'.pc \in {"idle", "marked"}
          /\ drive'.pc # "idle" => drive'.seq = drive.seq
      <3>1. drive' = Commands!IdleDrive \/ drive' = [drive EXCEPT !.pc = "marked"]
        BY <1>5
      <3>2. drive \in CL!Drive
        BY DEF CL!IInv, CL!TypeOK
      <3> QED BY <3>1, <3>2 DEF Commands!IdleDrive, CL!Drive, CL!IdleDrive
    <2>4. engine = "running"
      BY <2>1, LogFacts
    <2>5. TypeOK'
      BY <1>1, <2>1, <2>2, <2>3, <2>4 DEF TypeOK, book
    <2>6. DriveIsCurrent'
      BY <2>1, <2>3 DEF DriveIsCurrent
    <2>7. QuietHolds'
      BY <1>1, <2>1 DEF QuietHolds
    <2> QED BY <2>5, <2>6, <2>7
  <1>6. CASE ClearFlattening
    <2>1. /\ drive.pc = "marked" /\ drive' = Commands!IdleDrive
          /\ UNCHANGED <<book, drivers, engine>>
      BY <1>6 DEF ClearFlattening, Commands!ClearFlattening
    <2>2. look.pc = "idle" /\ drive'.pc = "idle"
      BY <2>1 DEF TypeOK, Commands!IdleDrive
    <2>3. TypeOK'
      BY <2>1, <2>2 DEF TypeOK, book, drivers
    <2> QED BY <2>1, <2>2, <2>3 DEF DriveIsCurrent, QuietHolds, drivers
  <1> QED BY <1>3, <1>4, <1>5, <1>6 DEF ControllerStep

(* A crash forgets the reads, the pass and the entry that was not sent.     *)
LEMMA CrashIInv ==
  ASSUME TypeOK, Crash
  PROVE  TypeOK' /\ DriveIsCurrent' /\ QuietHolds'
  <1>1. /\ drive' = Commands!IdleDrive /\ look' = IdleLook /\ pass' = IdlePass
        /\ flattenEvent' = FALSE /\ entry' \in EntryState
        /\ UNCHANGED <<pending, pos, leg, canceling, liq>>
    BY DEF Crash, Commands!Crash, TypeOK, EntryState
  <1>2. /\ drive'.pc = "idle" /\ look'.pc = "idle"
        /\ look' \in [pc : {"idle", "positions", "orders", "rows", "decide"}, held : BOOLEAN,
                      working : BOOLEAN, covered : BOOLEAN, pending : BOOLEAN, quiet : BOOLEAN]
        /\ pass' \in [pc : {"idle", "list", "cancel", "confirm", "liquidate", "wait"},
                      cancel : SUBSET {"entry", "leg"}, covered : BOOLEAN]
    BY <1>1 DEF IdleLook, IdlePass, Commands!IdleDrive
  <1> QED BY <1>1, <1>2 DEF TypeOK, DriveIsCurrent, QuietHolds

(* The initial state.                                                       *)
LEMMA InitIInv == Init => IInv
  <1> SUFFICES ASSUME Init PROVE IInv
    OBVIOUS
  <1>1. Commands!IInv
    <2>1. CL!Init
      BY DEF Init, Commands!Init, CL!Init, Commands!Armed, CL!Armed, Commands!IdleSweeper,
             CL!IdleSweeper, Commands!IdleDrive, CL!IdleDrive
    <2> QED BY <2>1, LogBounds, CL!InitIInv, SameInvariant
  <1>2. drive.pc = "idle" /\ look.pc = "idle"
    BY DEF Init, Commands!Init, Commands!IdleDrive, IdleLook
  <1>3. TypeOK
    <2>1. /\ look \in [pc : {"idle", "positions", "orders", "rows", "decide"}, held : BOOLEAN,
                       working : BOOLEAN, covered : BOOLEAN, pending : BOOLEAN, quiet : BOOLEAN]
          /\ pass \in [pc : {"idle", "list", "cancel", "confirm", "liquidate", "wait"},
                       cancel : SUBSET {"entry", "leg"}, covered : BOOLEAN]
      BY DEF Init, IdleLook, IdlePass
    <2>2. entry \in EntryState /\ pos \in 0 .. 1 /\ leg \in {"none", "working", "canceled"}
      BY DEF Init, EntryState
    <2>3. pending \in BOOLEAN /\ flattenEvent \in BOOLEAN /\ canceling \in SUBSET {"entry", "leg"}
      BY DEF Init
    <2>4. liq \in [Liquidations -> LiqState]
      BY DEF Init, LiqState
    <2>5. look = IdleLook /\ pass = IdlePass /\ ~flattenEvent
      BY DEF Init
    <2> QED BY <1>2, <2>1, <2>2, <2>3, <2>4, <2>5 DEF TypeOK
  <1> QED BY <1>1, <1>2, <1>3 DEF IInv, DriveIsCurrent, QuietHolds

(* Every step, real or stuttering.                                          *)
LEMMA NextIInv == IInv /\ [Next]_vars => IInv'
  <1> SUFFICES ASSUME IInv, [Next]_vars PROVE IInv'
    OBVIOUS
  <1>1. /\ CL!IInv /\ CL!IInv' /\ CL!LogGrows(log, log') /\ kill'.seq >= kill.seq
        /\ TypeOK /\ DriveIsCurrent /\ QuietHolds
    BY SameInvariant, LogStep DEF IInv
  <1>2. Commands!IInv'
    BY <1>1, SameInvariant
  <1>3. look.pc # "idle" => drive.pc # "idle"
    BY <1>1 DEF TypeOK
  <1>4. CASE EntryStep
    <2>1. /\ TypeOK'
          /\ look.pc # "idle" /\ look.quiet /\ log[drive.seq].result = "none"
                 /\ entry \notin {"passed", "persisted", "sent", "working"} =>
               entry' \notin {"passed", "persisted", "sent", "working"}
          /\ UNCHANGED <<drive, look, pos>>
      BY <1>1, <1>4, EntryStepIInv
    <2>2. DriveIsCurrent' /\ QuietHolds'
      BY <1>1, <1>3, <2>1, ReadsKept
    <2> QED BY <1>2, <2>1, <2>2 DEF IInv
  <1>5. CASE BrokerStep
    <2>1. /\ TypeOK'
          /\ entry \notin {"passed", "persisted", "sent", "working"} =>
               /\ entry' \notin {"passed", "persisted", "sent", "working"}
               /\ pos = 0 => pos' = 0
          /\ UNCHANGED <<drive, look>>
      BY <1>1, <1>5, BrokerStepIInv
    <2>2. DriveIsCurrent' /\ QuietHolds'
      BY <1>1, <1>3, <2>1, ReadsKept
    <2> QED BY <1>2, <2>1, <2>2 DEF IInv
  <1>6. CASE PassStep \/ CommandStep
    <2>1. TypeOK' /\ UNCHANGED <<drive, look, entry, pos>>
      BY <1>1, <1>6, PassStepIInv, CommandStepIInv
    <2>2. DriveIsCurrent' /\ QuietHolds'
      BY <1>1, <1>3, <2>1, ReadsKept
    <2> QED BY <1>2, <2>1, <2>2 DEF IInv
  <1>7. CASE ControllerStep
    BY <1>1, <1>2, <1>7, ControllerStepIInv DEF IInv
  <1>8. CASE Crash
    BY <1>1, <1>2, <1>8, CrashIInv DEF IInv
  <1>9. CASE UNCHANGED vars
    BY <1>1, <1>2, <1>9
       DEF IInv, vars, command, book, drivers, TypeOK, DriveIsCurrent, QuietHolds
  <1> QED BY <1>4, <1>5, <1>6, <1>7, <1>8, <1>9 DEF Next

(* An outcome "verified" is written by the controller only, and on the      *)
(* flatten its drive has captured.                                          *)
LEMMA OnlyVerifyVerifies ==
  ASSUME CL!IInv, [Next]_vars, NewlyVerified
  PROVE  /\ look.pc = "decide" /\ ~exposed /\ drive.pc = "checking"
         /\ log[drive.seq].result = "none"
  <1>1. PICK s \in DOMAIN log : log[s].result # "flat_verified" /\ log'[s].result = "flat_verified"
    BY DEF NewlyVerified
  <1>2. DOMAIN log = 1 .. Len(log) /\ Len(log) \in Nat
    BY LogFacts
  <1>3. ~UNCHANGED log
    BY <1>1
  <1>4. Verify \/ Commands!SweepCommit \/ \E p \in Operators : Commands!InsertCommand(p)
    BY <1>3
       DEF Next, vars, EntryStep, Approve, PassGate, PersistEntry, SubmitEntry, SettleRow,
           BrokerStep, BrokerTakeEntry, BrokerFillEntry, BrokerFillLeg, BrokerCancel,
           BrokerTakeLiquidation, BrokerMissLiquidation, BrokerFillLiquidation,
           ControllerStep, BeginDrive, ReadPositions, ReadOrders, count_pending_submit,
           Publish, Wait, FailTick, ClearFlattening,
           PassStep, StartPass, LoseFlattenEvent, ListOrders, ReadBook, EndPass, FailPass,
           CancelOrders, SubmitLiquidation, CommandStep, Alone, Crash, command,
           Commands!IssueStep, Commands!TakeLock, Commands!CheckGuard, Commands!AbandonCommand,
           Commands!Start, Commands!BootReconciled, Commands!SweepStep, Commands!SweepRead,
           Commands!SweepApply, Commands!SweepFail, Commands!BeginDrive, Commands!EndDrive,
           Commands!ClearFlattening, Commands!Crash
  <1>5. ~Commands!SweepCommit
    <2> SUFFICES ASSUME Commands!SweepCommit PROVE FALSE
      OBVIOUS
    <2>1. log[s] \in CL!Command
      BY <1>2, CL!LogShape DEF CL!IInv, CL!TypeOK
    <2>2. log'[s].result = Commands!supersede_stale_flattens(s, sweeper.seq)
      BY <2>1 DEF Commands!SweepCommit, CL!Command
    <2> QED BY <1>1, <2>2 DEF Commands!supersede_stale_flattens
  <1>6. ASSUME NEW p \in Operators, Commands!InsertCommand(p)
        PROVE  FALSE
    <2>1. log'[s] = log[s]
      BY <1>2, <1>6 DEF Commands!InsertCommand, CL!IInv, CL!TypeOK
    <2> QED BY <1>1, <2>1
  <1>7. Verify
    BY <1>4, <1>5, <1>6
  <1> QED BY <1>3, <1>7 DEF Verify, Commands!MarkVerified

-----------------------------------------------------------------------------
(* Theorems.                                                                *)

(* The inductive invariant holds in every reachable state.                  *)
THEOREM Invariance == Spec => []IInv
  BY InitIInv, NextIInv, PTL DEF Spec

(* A flatten is reported verified only on a flat book with no entry on its  *)
(* way, if none was past its gate when the drive began.                     *)
THEOREM VerifiedMeansFlat == Spec => VerifiedIsFlatOnceQuiet
  <1>1. IInv => TypeOK
    BY DEF IInv
  <1>2. IInv /\ [Next]_vars => [NewlyVerified /\ look.quiet => ~AtRisk]_vars
    <2> SUFFICES ASSUME IInv, [Next]_vars, NewlyVerified, look.quiet PROVE ~AtRisk
      OBVIOUS
    <2>1. /\ look.pc = "decide" /\ ~exposed /\ drive.pc = "checking"
          /\ log[drive.seq].result = "none"
      BY SameInvariant, OnlyVerifyVerifies DEF IInv
    <2> QED BY <2>1 DEF IInv, QuietHolds, exposed, AtRisk
  <1> QED BY <1>1, <1>2, Invariance, PTL DEF Spec, VerifiedIsFlatOnceQuiet
=============================================================================
