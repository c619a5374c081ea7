-------------------------- MODULE CommandLogProofs --------------------------
(***************************************************************************)
(* Proofs about the kill-switch command log, for every set of operators    *)
(* and every bound on the log and on crashes.  The argument: the advisory  *)
(* lock makes the resume guard's answer still true when the row is         *)
(* inserted, because results are only ever filled in; and the engine's     *)
(* in-memory state always describes a row of the log.                      *)
(***************************************************************************)
EXTENDS CommandLog, SequenceTheorems, TLAPS

(* How any step may change the log: rows are only appended, and a row's     *)
(* action, pickup and outcome are never taken back.                         *)
LogGrows(l, m) ==
  /\ m \in Seq(Command)
  /\ Len(l) <= Len(m) /\ Len(m) <= MaxCommands
  /\ \A s \in 1 .. Len(l) :
       /\ m[s].action = l[s].action
       /\ l[s].applied => m[s].applied
       /\ l[s].result # "none" => m[s].result = l[s].result

(* A log is a function on 1 .. Len into commands.                           *)
LEMMA LogShape ==
  ASSUME NEW l \in Seq(Command)
  PROVE  /\ Len(l) \in Nat
         /\ DOMAIN l = 1 .. Len(l)
         /\ \A s \in 1 .. Len(l) :
              l[s] \in Command /\ l[s].action \in Action /\ l[s].result \in Result
              /\ l[s].applied \in BOOLEAN
<1>1. Len(l) \in Nat /\ DOMAIN l = 1 .. Len(l) /\ l \in [1 .. Len(l) -> Command]
  BY LenProperties
<1> QED BY <1>1 DEF Command

(* Rewriting every row of a log gives a log of the same length.             *)
LEMMA RewriteLog ==
  ASSUME NEW l \in Seq(Command), NEW m \in [1 .. Len(l) -> Command]
  PROVE  m \in Seq(Command) /\ Len(m) = Len(l)
<1>1. Len(l) \in Nat
  BY LogShape
<1>2. m \in Seq(Command)
  BY <1>1, SeqDef
<1>3. DOMAIN m = 1 .. Len(l) /\ DOMAIN m = 1 .. Len(m) /\ Len(m) \in Nat
  BY <1>2, LenProperties
<1> QED BY <1>1, <1>2, <1>3

(* An unchanged log has grown, trivially.                                   *)
LEMMA LogStays == ASSUME TypeOK, log' = log PROVE LogGrows(log, log')
  BY LogShape DEF LogGrows, TypeOK

(* Inserting a command appends one row without an outcome.                  *)
LEMMA InsertGrows ==
  ASSUME TypeOK, CommandBounds, NEW p \in Operators, InsertCommand(p)
  PROVE  /\ LogGrows(log, log')
         /\ Len(log') = Len(log) + 1
         /\ log'[Len(log) + 1] = [action |-> op[p].action, applied |-> FALSE, result |-> "none"]
         /\ \A s \in 1 .. Len(log) : log'[s] = log[s]
<1> DEFINE c == [action |-> op[p].action, applied |-> FALSE, result |-> "none"]
<1>1. c \in Command
  BY DEF TypeOK, Command, Result
<1>2. log' = Append(log, c) /\ Len(log) < MaxCommands
  BY DEF InsertCommand
<1>3. /\ log' \in Seq(Command)
      /\ Len(log') = Len(log) + 1
      /\ \A s \in 1 .. Len(log) : log'[s] = log[s]
      /\ log'[Len(log) + 1] = c
  BY <1>1, <1>2, AppendProperties DEF TypeOK
<1> QED BY <1>2, <1>3, LogShape DEF LogGrows, TypeOK, CommandBounds

(* The sweep's transaction fills in pickups and outcomes, nothing else.     *)
LEMMA SweepGrows ==
  ASSUME TypeOK, SweepCommit
  PROVE  LogGrows(log, log') /\ Len(log') = Len(log)
<1>1. Len(log) \in Nat /\ DOMAIN log = 1 .. Len(log)
  BY LogShape DEF TypeOK
<1>2. \A s \in 1 .. Len(log) :
        /\ log[s] \in Command
        /\ stamp_applied(s, sweeper.seq) \in BOOLEAN
        /\ supersede_stale_flattens(s, sweeper.seq) \in Result
  BY LogShape DEF TypeOK, stamp_applied, supersede_stale_flattens, Result
<1>3. log' = [s \in 1 .. Len(log) |->
               [log[s] EXCEPT !.applied = stamp_applied(s, sweeper.seq),
                              !.result = supersede_stale_flattens(s, sweeper.seq)]]
  BY <1>1 DEF SweepCommit
<1>4. log' \in [1 .. Len(log) -> Command]
  BY <1>2, <1>3 DEF Command
<1>5. log' \in Seq(Command) /\ Len(log') = Len(log)
  BY <1>4, RewriteLog DEF TypeOK
<1>6. \A s \in 1 .. Len(log) :
        /\ log'[s].action = log[s].action
        /\ log'[s].applied = stamp_applied(s, sweeper.seq)
        /\ log'[s].result = supersede_stale_flattens(s, sweeper.seq)
  BY <1>2, <1>3 DEF Command
<1>7. \A s \in 1 .. Len(log) : log[s].applied => log'[s].applied
  BY <1>6 DEF stamp_applied
<1>8. \A s \in 1 .. Len(log) : log[s].result # "none" => log'[s].result = log[s].result
  BY <1>6 DEF supersede_stale_flattens
<1> QED BY <1>1, <1>5, <1>6, <1>7, <1>8 DEF LogGrows, TypeOK

(* A verified outcome is written only where there is none.                  *)
LEMMA MarkGrows ==
  ASSUME TypeOK, EngineInv, MarkVerified
  PROVE  LogGrows(log, log') /\ Len(log') = Len(log)
<1>1. Len(log) \in Nat /\ drive.seq \in 1 .. Len(log)
  BY LogShape DEF TypeOK, EngineInv, MarkVerified, Drive, IdleDrive, Seqs
<1>2. CASE log[drive.seq].result = "none"
  <2>1. log' = [log EXCEPT ![drive.seq].result = "flat_verified"]
    BY <1>2 DEF MarkVerified
  <2>2. log \in [1 .. Len(log) -> Command] /\ DOMAIN log = 1 .. Len(log)
    BY LenProperties DEF TypeOK
  <2>3. log' \in [1 .. Len(log) -> Command]
    BY <1>1, <2>1, <2>2 DEF Command, Result
  <2>4. log' \in Seq(Command) /\ Len(log') = Len(log)
    BY <2>3, RewriteLog DEF TypeOK
  <2>5. \A s \in 1 .. Len(log) :
          /\ log'[s].action = log[s].action
          /\ log'[s].applied = log[s].applied
          /\ s # drive.seq => log'[s] = log[s]
    BY <1>1, <2>1, <2>2 DEF Command
  <2> QED BY <1>1, <1>2, <2>4, <2>5 DEF LogGrows, TypeOK
<1>3. CASE log[drive.seq].result # "none"
  <2>1. log' = log
    BY <1>3 DEF MarkVerified
  <2> QED BY <2>1, LogStays
<1> QED BY <1>2, <1>3

(* The initial state.                                                       *)
LEMMA InitIInv == CommandBounds /\ Init => IInv
<1> SUFFICES ASSUME CommandBounds, Init PROVE IInv
  OBVIOUS
<1>1. log = <<>> /\ Len(log) = 0 /\ log \in Seq(Command) /\ DOMAIN log = {}
  BY DEF Init
<1>2. TypeOK
  BY <1>1 DEF Init, TypeOK, CommandBounds, Action, KillSwitch, Armed, Seqs, Sweeper, Drive
<1>3. ResumeFollowsOutcome /\ IssueInv
  BY <1>1 DEF Init, ResumeFollowsOutcome, IssueInv
<1>4. EngineInv
  BY <1>1 DEF Init, EngineInv, Armed, IdleSweeper, IdleDrive
<1> QED BY <1>2, <1>3, <1>4 DEF IInv

(* What the engine holds about a row stays true while the log grows.        *)
LEMMA EngineStays ==
  ASSUME TypeOK, EngineInv, LogGrows(log, log'), UNCHANGED <<kill, sweeper, drive>>,
         engine' = engine \/ engine' = "running"
  PROVE  EngineInv'
<1>1. /\ Len(log) \in Nat /\ Len(log') \in Nat /\ Len(log) <= Len(log')
      /\ \A s \in 1 .. Len(log) : log'[s].action = log[s].action
  BY LogShape DEF TypeOK, LogGrows
<1>2. kill.seq \in Nat /\ (kill.seq # 0 => kill.seq \in 1 .. Len(log))
  BY <1>1 DEF TypeOK, KillSwitch, Seqs, EngineInv
<1>3. sweeper.pc # "idle" => sweeper.seq \in 1 .. Len(log)
  BY <1>1 DEF TypeOK, Sweeper, IdleSweeper, Seqs, EngineInv
<1>4. drive.pc # "idle" => drive.seq \in 1 .. Len(log)
  BY <1>1 DEF TypeOK, Drive, IdleDrive, Seqs, EngineInv
<1>5. kill.halted <=> kill.seq # 0 /\ log'[kill.seq].action # "resume"
  BY <1>1, <1>2 DEF EngineInv
<1>6. kill.flattening => kill.seq # 0 /\ log'[kill.seq].action = "flatten"
  BY <1>1, <1>2 DEF EngineInv
<1>7. sweeper.pc # "idle" =>
        /\ kill.seq <= sweeper.seq /\ sweeper.seq <= Len(log')
        /\ sweeper.action = log'[sweeper.seq].action
  BY <1>1, <1>3 DEF EngineInv
<1>8. drive.pc # "idle" => drive.seq <= Len(log') /\ log'[drive.seq].action = "flatten"
  BY <1>1, <1>4 DEF EngineInv
<1> QED BY <1>1, <1>2, <1>5, <1>6, <1>7, <1>8 DEF EngineInv

(* Filling in results cannot break a guard that has passed, nor a resume    *)
(* that is in the log.                                                      *)
LEMMA OutcomesStay ==
  ASSUME TypeOK, ResumeFollowsOutcome, IssueInv, LogGrows(log, log'), Len(log') = Len(log),
         UNCHANGED op
  PROVE  ResumeFollowsOutcome' /\ IssueInv'
<1>1. DOMAIN log = 1 .. Len(log) /\ DOMAIN log' = DOMAIN log
  BY LogShape DEF TypeOK, LogGrows
<1>2. \A s \in DOMAIN log : log'[s].action = log[s].action
                         /\ (log[s].result # "none" => log'[s].result = log[s].result)
  BY <1>1 DEF LogGrows
<1>3. ResumeFollowsOutcome'
  BY <1>1, <1>2 DEF ResumeFollowsOutcome
<1>4. IssueInv'
  BY <1>1, <1>2 DEF IssueInv
<1> QED BY <1>3, <1>4

-----------------------------------------------------------------------------
(* The steps.                                                               *)

(* Operators: the guard is read under the lock and the row inserted under   *)
(* the same lock.                                                           *)
LEMMA IssueStepIInv ==
  ASSUME CommandBounds, IInv, NEW p \in Operators, IssueStep(p)
  PROVE  IInv' /\ LogGrows(log, log')
<1> USE DEF IInv
<1>1. DOMAIN log = 1 .. Len(log) /\ Len(log) \in Nat
  BY LogShape DEF TypeOK
<1>2. ASSUME NEW a \in Action, TakeLock(p, a) PROVE IInv' /\ LogGrows(log, log')
  <2>1. LogGrows(log, log') /\ log' = log
    BY <1>2, LogStays DEF TakeLock
  <2>2. TypeOK'
    BY <1>2 DEF TakeLock, TypeOK
  <2>3. EngineInv'
    BY <1>2, <2>1, EngineStays DEF TakeLock
  <2>4. ResumeFollowsOutcome'
    BY <2>1 DEF ResumeFollowsOutcome
  <2>5. IssueInv'
    BY <1>2, <2>1 DEF TakeLock, IssueInv, TypeOK
  <2> QED BY <2>1, <2>2, <2>3, <2>4, <2>5
<1>3. CASE CheckGuard(p)
  <2>1. LogGrows(log, log') /\ log' = log
    BY <1>3, LogStays DEF CheckGuard
  <2>2. TypeOK'
    BY <1>3 DEF CheckGuard, TypeOK
  <2>3. EngineInv'
    BY <1>3, <2>1, EngineStays DEF CheckGuard
  <2>4. ResumeFollowsOutcome'
    BY <2>1 DEF ResumeFollowsOutcome
  <2>5. op[p].action = "resume" /\ op'[p].pc = "checked" =>
          \A f \in DOMAIN log : log[f].action = "flatten" => log[f].result # "none"
    <3> SUFFICES ASSUME op[p].action = "resume", op'[p].pc = "checked",
                        NEW f \in DOMAIN log, log[f].action = "flatten", log[f].result = "none"
                 PROVE  FALSE
      OBVIOUS
    <3>1. unresolved = {}
      BY <1>3 DEF CheckGuard, TypeOK
    <3>2. PICK r \in DOMAIN log : log[r].action = "resume" /\ ~(r < f)
      BY <3>1 DEF unresolved, LastResume
    <3>3. f < r
      BY <1>1, <3>2
    <3> QED BY <3>2, <3>3 DEF ResumeFollowsOutcome
  <2>6. IssueInv'
    BY <1>3, <2>1, <2>5 DEF CheckGuard, IssueInv, TypeOK
  <2> QED BY <2>1, <2>2, <2>3, <2>4, <2>6
<1>4. CASE InsertCommand(p)
  <2>1. /\ LogGrows(log, log')
        /\ Len(log') = Len(log) + 1
        /\ log'[Len(log) + 1].action = op[p].action
        /\ \A s \in 1 .. Len(log) : log'[s] = log[s]
    <3>1. TypeOK
      OBVIOUS
    <3>2. /\ LogGrows(log, log')
          /\ Len(log') = Len(log) + 1
          /\ log'[Len(log) + 1] = [action |-> op[p].action, applied |-> FALSE, result |-> "none"]
          /\ \A s \in 1 .. Len(log) : log'[s] = log[s]
      BY <1>4, <3>1, InsertGrows
    <3> QED BY <3>2
  <2>2. TypeOK'
    BY <1>4, <2>1 DEF InsertCommand, TypeOK, LogGrows
  <2>3. EngineInv'
    BY <1>4, <2>1, EngineStays DEF InsertCommand
  <2>4. DOMAIN log' = 1 .. (Len(log) + 1)
    BY <2>1, LogShape DEF LogGrows
  <2>5. ResumeFollowsOutcome'
    <3> SUFFICES ASSUME NEW r \in DOMAIN log', NEW f \in DOMAIN log', f < r,
                        log'[r].action = "resume", log'[f].action = "flatten"
                 PROVE  log'[f].result # "none"
      BY DEF ResumeFollowsOutcome
    <3>1. f \in DOMAIN log /\ log'[f] = log[f]
      BY <1>1, <2>1, <2>4
    <3>2. CASE r \in DOMAIN log
      BY <1>1, <2>1, <3>1, <3>2 DEF ResumeFollowsOutcome
    <3>3. CASE r = Len(log) + 1
      BY <1>4, <2>1, <3>1, <3>3 DEF IssueInv, InsertCommand
    <3> QED BY <1>1, <2>4, <3>2, <3>3
  <2>6. IssueInv'
    <3>1. \A q \in Operators : op'[q].pc = "idle"
      BY <1>4 DEF InsertCommand, IssueInv, TypeOK
    <3> QED BY <3>1 DEF IssueInv
  <2> QED BY <2>1, <2>2, <2>3, <2>5, <2>6
<1>5. CASE AbandonCommand(p)
  <2>1. LogGrows(log, log') /\ log' = log
    BY <1>5, LogStays DEF AbandonCommand
  <2>2. TypeOK'
    BY <1>5 DEF AbandonCommand, TypeOK
  <2>3. EngineInv'
    BY <1>5, <2>1, EngineStays DEF AbandonCommand
  <2>4. ResumeFollowsOutcome'
    BY <2>1 DEF ResumeFollowsOutcome
  <2>5. IssueInv'
    BY <1>5, <2>1 DEF AbandonCommand, IssueInv, TypeOK
  <2> QED BY <2>1, <2>2, <2>3, <2>4, <2>5
<1> QED BY <1>2, <1>3, <1>4, <1>5 DEF IssueStep

(* A step that leaves the log and the operators alone only owes the         *)
(* engine's part of the invariant.                                          *)
LEMMA LogUntouched ==
  ASSUME IInv, log' = log, op' = op
  PROVE  LogGrows(log, log') /\ ResumeFollowsOutcome' /\ IssueInv'
<1>1. TypeOK /\ ResumeFollowsOutcome /\ IssueInv
  BY DEF IInv
<1>2. LogGrows(log, log')
  BY <1>1, LogStays
<1> QED BY <1>1, <1>2, OutcomesStay

(* The engine starts, finishes booting, or crashes.                         *)
LEMMA LifecycleIInv ==
  ASSUME CommandBounds, IInv, Start \/ BootReconciled \/ Crash
  PROVE  IInv' /\ LogGrows(log, log')
<1>1. log' = log /\ op' = op
  BY DEF Start, BootReconciled, Crash
<1>2. LogGrows(log, log') /\ ResumeFollowsOutcome' /\ IssueInv'
  BY <1>1, LogUntouched
<1>3. TypeOK /\ EngineInv /\ Len(log) \in Nat
      /\ \A s \in 1 .. Len(log) : log[s].action \in Action
  BY LogShape DEF IInv, TypeOK
<1>4. CASE Start
  <2>1. CASE log = <<>>
    <3>1. kill' = Armed
      BY <1>4, <2>1 DEF Start
    <3>2. kill' \in KillSwitch
      BY <3>1 DEF KillSwitch, Armed, Seqs, CommandBounds
    <3>3. TypeOK'
      BY <1>3, <1>4, <3>2 DEF Start, TypeOK
    <3>4. EngineInv'
      BY <1>1, <1>3, <1>4, <3>1 DEF Start, EngineInv, Armed
    <3> QED BY <1>2, <3>3, <3>4 DEF IInv
  <2>2. CASE log # <<>>
    <3> DEFINE n == Len(log)
    <3>1. n \in 1 .. n /\ n \in Seqs
      BY <1>3, <2>2, EmptySeq DEF TypeOK, Seqs
    <3>2. kill' = [halted |-> log[n].action # "resume",
                   flattening |-> log[n].action = "flatten" /\ log[n].result # "flat_verified",
                   seq |-> n]
      BY <1>4, <2>2 DEF Start, apply_latest, derive_kill_state
    <3>3. kill' \in KillSwitch
      BY <3>1, <3>2 DEF KillSwitch
    <3>4. TypeOK'
      BY <1>3, <1>4, <3>3 DEF Start, TypeOK
    <3>5. kill'.seq = n /\ (kill'.halted <=> log[n].action # "resume")
          /\ (kill'.flattening => log[n].action = "flatten")
      BY <3>2
    <3>6. n # 0
      BY <3>1, <1>3
    <3>7. engine' = "booting" /\ sweeper' = sweeper /\ drive' = drive
          /\ sweeper.pc = "idle" /\ drive.pc = "idle"
      BY <1>3, <1>4 DEF Start, EngineInv
    <3>8. EngineInv'
      BY <1>1, <1>3, <3>5, <3>6, <3>7 DEF EngineInv
    <3> QED BY <1>2, <3>4, <3>8 DEF IInv
  <2> QED BY <2>1, <2>2
<1>5. CASE BootReconciled
  <2>1. TypeOK'
    BY <1>3, <1>5 DEF BootReconciled, TypeOK
  <2>2. EngineInv'
    BY <1>2, <1>3, <1>5, EngineStays DEF BootReconciled
  <2> QED BY <1>2, <2>1, <2>2 DEF IInv
<1>6. CASE Crash
  <2>1. TypeOK'
    BY <1>3, <1>6 DEF Crash, TypeOK, CommandBounds, Sweeper, Drive
  <2>2. EngineInv'
    BY <1>1, <1>3, <1>6 DEF Crash, EngineInv, IdleSweeper, IdleDrive
  <2> QED BY <1>2, <2>1, <2>2 DEF IInv
<1> QED BY <1>4, <1>5, <1>6

(* The sweep: read, commit, refresh.                                        *)
LEMMA SweepStepIInv ==
  ASSUME CommandBounds, IInv, SweepStep
  PROVE  IInv' /\ LogGrows(log, log')
<1>1. TypeOK /\ EngineInv /\ ResumeFollowsOutcome /\ IssueInv
  BY DEF IInv
<1>2. Len(log) \in Nat /\ \A s \in 1 .. Len(log) : log[s].action \in Action /\ log[s].result \in Result
  BY <1>1, LogShape DEF TypeOK
<1>3. CASE SweepRead
  <2>1. LogGrows(log, log') /\ ResumeFollowsOutcome' /\ IssueInv' /\ log' = log
    BY <1>3, LogUntouched DEF SweepRead
  <2>2. CASE log = <<>>
    <3>1. kill' = Armed /\ sweeper' = sweeper /\ sweeper.pc = "idle"
      BY <1>3, <2>2 DEF SweepRead
    <3>2. kill' \in KillSwitch
      BY <3>1 DEF KillSwitch, Armed, Seqs, CommandBounds
    <3>3. TypeOK'
      BY <1>1, <1>3, <3>1, <3>2 DEF SweepRead, TypeOK
    <3>4. EngineInv'
      BY <1>1, <1>2, <1>3, <2>1, <3>1 DEF SweepRead, EngineInv, Armed
    <3> QED BY <2>1, <3>3, <3>4 DEF IInv
  <2>3. CASE log # <<>>
    <3> DEFINE n == Len(log)
    <3>1. n \in 1 .. n /\ n \in Seqs \ {0}
      BY <1>1, <1>2, <2>3, EmptySeq DEF TypeOK, Seqs
    <3>2. sweeper' = [pc |-> "read", seq |-> n, action |-> log[n].action, result |-> log[n].result]
          /\ kill' = kill
      BY <1>3, <2>3 DEF SweepRead
    <3>3. TypeOK'
      BY <1>1, <1>2, <1>3, <3>1, <3>2 DEF SweepRead, TypeOK, Sweeper
    <3>4. EngineInv'
      BY <1>1, <1>2, <1>3, <2>1, <3>2 DEF SweepRead, EngineInv
    <3> QED BY <2>1, <3>3, <3>4 DEF IInv
  <2> QED BY <2>2, <2>3
<1>4. CASE SweepCommit
  <2>1. LogGrows(log, log') /\ Len(log') = Len(log)
    BY <1>1, <1>4, SweepGrows
  <2>2. ResumeFollowsOutcome' /\ IssueInv'
    BY <1>1, <1>4, <2>1, OutcomesStay DEF SweepCommit
  <2>3. sweeper \in [pc : {"read", "committed"}, seq : Seqs \ {0}, action : Action, result : Result]
        /\ sweeper' = [sweeper EXCEPT !.pc = "committed"] /\ sweeper.pc = "read"
    <3>1. sweeper \in Sweeper /\ sweeper.pc = "read" /\ sweeper' = [sweeper EXCEPT !.pc = "committed"]
      BY <1>1, <1>4 DEF SweepCommit, TypeOK
    <3> QED BY <3>1 DEF Sweeper, IdleSweeper
  <2>4. /\ sweeper'.pc = "committed" /\ sweeper'.seq = sweeper.seq
        /\ sweeper'.action = sweeper.action /\ sweeper'.result = sweeper.result
        /\ sweeper' \in Sweeper
    BY <2>3 DEF Sweeper
  <2>5. TypeOK'
    BY <1>1, <1>4, <2>1, <2>4 DEF SweepCommit, TypeOK, LogGrows
  <2>6. EngineInv'
    <3>1. sweeper.seq \in 1 .. Len(log) /\ kill.seq \in 0 .. Len(log)
      <4>1. sweeper.seq \in Nat \ {0} /\ kill.seq \in Nat
        BY <1>1, <2>3 DEF Seqs, TypeOK, KillSwitch
      <4>2. sweeper.seq <= Len(log) /\ kill.seq <= Len(log)
        BY <1>1, <2>3 DEF EngineInv
      <4> QED BY <1>2, <4>1, <4>2
    <3>2. drive.pc # "idle" => drive.seq \in 1 .. Len(log)
      BY <1>1, <1>2 DEF TypeOK, Drive, IdleDrive, Seqs, EngineInv
    <3>3. \A s \in 1 .. Len(log) : log'[s].action = log[s].action
      BY <2>1 DEF LogGrows
    <3>4. kill' = kill /\ drive' = drive
      BY <1>4 DEF SweepCommit
    <3>5. sweeper.pc # "idle"
      BY <1>4 DEF SweepCommit
    <3>6. kill.seq # 0 => log'[kill.seq].action = log[kill.seq].action
      BY <3>1, <3>3
    <3>7. sweeper'.action = log'[sweeper'.seq].action /\ kill.seq <= sweeper'.seq
          /\ sweeper'.seq <= Len(log)
      BY <1>1, <2>4, <3>1, <3>3, <3>5 DEF EngineInv
    <3>8. drive.pc # "idle" => drive.seq <= Len(log) /\ log'[drive.seq].action = "flatten"
      BY <1>1, <3>2, <3>3 DEF EngineInv
    <3>9. kill.seq <= Len(log) /\ (kill.halted <=> kill.seq # 0 /\ log'[kill.seq].action # "resume")
      BY <1>1, <3>6 DEF EngineInv
    <3>10. kill.flattening => kill.seq # 0 /\ log'[kill.seq].action = "flatten"
      BY <1>1, <3>6 DEF EngineInv
    <3>11. engine' = "running"
      BY <1>1, <1>4, <3>5 DEF EngineInv, SweepCommit
    <3> QED BY <2>1, <3>4, <3>7, <3>8, <3>9, <3>10, <3>11 DEF EngineInv
  <2> QED BY <2>1, <2>2, <2>5, <2>6 DEF IInv
<1>5. CASE SweepApply
  <2>1. LogGrows(log, log') /\ ResumeFollowsOutcome' /\ IssueInv' /\ log' = log
    BY <1>5, LogUntouched DEF SweepApply
  <2>2. sweeper \in [pc : {"read", "committed"}, seq : Seqs \ {0}, action : Action, result : Result]
    BY <1>1, <1>5 DEF SweepApply, TypeOK, Sweeper, IdleSweeper
  <2>3. kill' = [halted |-> sweeper.action # "resume",
                 flattening |-> sweeper.action = "flatten" /\ sweeper.result # "flat_verified",
                 seq |-> sweeper.seq]
    BY <1>5 DEF SweepApply, apply_latest, derive_kill_state
  <2>4. TypeOK'
    BY <1>1, <1>5, <2>2, <2>3 DEF SweepApply, TypeOK, KillSwitch, Sweeper
  <2>5. sweeper.seq <= Len(log) /\ sweeper.seq # 0 /\ sweeper.action = log[sweeper.seq].action
    BY <1>1, <1>5, <2>2 DEF SweepApply, EngineInv
  <2>6. /\ kill'.seq = sweeper.seq
        /\ kill'.halted <=> sweeper.action # "resume"
        /\ kill'.flattening => sweeper.action = "flatten"
    BY <2>3
  <2>7. sweeper'.pc = "idle" /\ engine' = engine /\ drive' = drive
    BY <1>5 DEF SweepApply, IdleSweeper
  <2>8. EngineInv'
    BY <1>1, <2>1, <2>5, <2>6, <2>7 DEF EngineInv
  <2> QED BY <2>1, <2>4, <2>8 DEF IInv
<1>6. CASE SweepFail
  <2>1. LogGrows(log, log') /\ ResumeFollowsOutcome' /\ IssueInv' /\ log' = log
    BY <1>6, LogUntouched DEF SweepFail
  <2>2. TypeOK'
    BY <1>1, <1>6 DEF SweepFail, TypeOK, Sweeper
  <2>3. EngineInv'
    BY <1>1, <1>6, <2>1 DEF SweepFail, EngineInv, IdleSweeper
  <2> QED BY <2>1, <2>2, <2>3 DEF IInv
<1> QED BY <1>3, <1>4, <1>5, <1>6 DEF SweepStep

(* The controller's drive of a flatten.                                     *)
LEMMA DriveStepIInv ==
  ASSUME CommandBounds, IInv, DriveStep
  PROVE  IInv' /\ LogGrows(log, log')
<1>1. TypeOK /\ EngineInv /\ ResumeFollowsOutcome /\ IssueInv
  BY DEF IInv
<1>2. CASE BeginDrive
  <2>1. LogGrows(log, log') /\ ResumeFollowsOutcome' /\ IssueInv' /\ log' = log
    BY <1>2, LogUntouched DEF BeginDrive
  <2>2. TypeOK'
    BY <1>1, <1>2 DEF BeginDrive, TypeOK, Drive, EngineInv, KillSwitch, Seqs
  <2>3. EngineInv'
    BY <1>1, <1>2, <2>1 DEF BeginDrive, EngineInv
  <2> QED BY <2>1, <2>2, <2>3 DEF IInv
<1>3. CASE EndDrive
  <2>1. LogGrows(log, log') /\ ResumeFollowsOutcome' /\ IssueInv' /\ log' = log
    BY <1>3, LogUntouched DEF EndDrive
  <2>2. TypeOK'
    BY <1>1, <1>3 DEF EndDrive, TypeOK, Drive
  <2>3. EngineInv'
    BY <1>1, <1>3, <2>1 DEF EndDrive, EngineInv, IdleDrive
  <2> QED BY <2>1, <2>2, <2>3 DEF IInv
<1>4. CASE MarkVerified
  <2>1. LogGrows(log, log') /\ Len(log') = Len(log)
    BY <1>1, <1>4, MarkGrows
  <2>2. ResumeFollowsOutcome' /\ IssueInv'
    BY <1>1, <1>4, <2>1, OutcomesStay DEF MarkVerified
  <2>3. drive \in [pc : {"checking", "marked"}, seq : Seqs \ {0}]
    BY <1>1, <1>4 DEF MarkVerified, TypeOK, Drive, IdleDrive
  <2>4. drive' = IdleDrive \/ drive' = [drive EXCEPT !.pc = "marked"]
    BY <1>4 DEF MarkVerified
  <2>5. drive' \in Drive /\ (drive'.pc # "idle" => drive'.seq = drive.seq)
    BY <2>3, <2>4 DEF Drive, IdleDrive
  <2>6. TypeOK'
    BY <1>1, <1>4, <2>1, <2>5 DEF MarkVerified, TypeOK, LogGrows
  <2>7. EngineInv'
    <3>1. Len(log) \in Nat /\ drive.seq \in 1 .. Len(log)
      BY <1>1, <1>4, <2>3, LogShape DEF EngineInv, MarkVerified, Seqs, TypeOK
    <3>2. kill' = kill /\ sweeper' = sweeper /\ drive.pc # "idle"
      BY <1>4 DEF MarkVerified
    <3>3. \A s \in 1 .. Len(log) : log'[s].action = log[s].action
      BY <2>1 DEF LogGrows
    <3>4. kill.seq # 0 => log'[kill.seq].action = log[kill.seq].action
      BY <1>1, <3>1, <3>3 DEF EngineInv, TypeOK, KillSwitch, Seqs
    <3>5. sweeper.pc # "idle" => log'[sweeper.seq].action = log[sweeper.seq].action
      BY <1>1, <3>1, <3>3 DEF EngineInv, TypeOK, Sweeper, IdleSweeper, Seqs
    <3>6. drive'.pc # "idle" => drive'.seq <= Len(log) /\ log'[drive'.seq].action = "flatten"
      BY <1>1, <2>5, <3>1, <3>2, <3>3 DEF EngineInv
    <3>7. kill.seq <= Len(log) /\ (kill.halted <=> kill.seq # 0 /\ log'[kill.seq].action # "resume")
      BY <1>1, <3>4 DEF EngineInv
    <3>8. kill.flattening => kill.seq # 0 /\ log'[kill.seq].action = "flatten"
      BY <1>1, <3>4 DEF EngineInv
    <3>9. sweeper.pc # "idle" => /\ kill.seq <= sweeper.seq /\ sweeper.seq <= Len(log)
                                /\ sweeper.action = log'[sweeper.seq].action
      BY <1>1, <3>5 DEF EngineInv
    <3>10. engine' = "running"
      BY <1>1, <1>4, <3>2 DEF EngineInv, MarkVerified
    <3> QED BY <2>1, <3>2, <3>6, <3>7, <3>8, <3>9, <3>10 DEF EngineInv
  <2> QED BY <2>1, <2>2, <2>6, <2>7 DEF IInv
<1>5. CASE ClearFlattening
  <2>1. LogGrows(log, log') /\ ResumeFollowsOutcome' /\ IssueInv' /\ log' = log
    BY <1>5, LogUntouched DEF ClearFlattening
  <2>2. TypeOK'
    BY <1>1, <1>5 DEF ClearFlattening, TypeOK, Drive, KillSwitch
  <2>3. kill'.halted = kill.halted /\ kill'.seq = kill.seq /\ ~kill'.flattening
    BY <1>1, <1>5 DEF ClearFlattening, TypeOK, KillSwitch
  <2>4. EngineInv'
    BY <1>1, <1>5, <2>1, <2>3 DEF ClearFlattening, EngineInv, IdleDrive
  <2> QED BY <2>1, <2>2, <2>4 DEF IInv
<1> QED BY <1>2, <1>3, <1>4, <1>5 DEF DriveStep

-----------------------------------------------------------------------------
(* Every step, real or stuttering, keeps the invariant and grows the log.   *)
LEMMA NextIInv ==
  ASSUME CommandBounds, IInv, [Next]_vars
  PROVE  IInv' /\ LogGrows(log, log')
<1>1. CASE Next
  BY <1>1, IssueStepIInv, LifecycleIInv, SweepStepIInv, DriveStepIInv DEF Next
<1>2. CASE UNCHANGED vars
  <2>1. LogGrows(log, log') /\ ResumeFollowsOutcome' /\ IssueInv'
    BY <1>2, LogUntouched DEF vars
  <2>2. TypeOK'
    BY <1>2 DEF IInv, TypeOK, vars
  <2>3. EngineInv'
    BY <1>2, <2>1, EngineStays DEF IInv, vars
  <2> QED BY <2>1, <2>2, <2>3 DEF IInv
<1> QED BY <1>1, <1>2

(* The inductive invariant holds in every reachable state.                  *)
THEOREM Invariance == Spec => []IInv
<1>1. Init => IInv
  BY CommandBounds, InitIInv
<1>2. IInv /\ [Next]_vars => IInv'
  BY CommandBounds, NextIInv
<1> QED BY <1>1, <1>2, PTL DEF Spec

(* Type correctness of the log, the operators and the engine's view.        *)
THEOREM TypeCorrect == Spec => []TypeOK
<1>1. IInv => TypeOK
  BY DEF IInv
<1> QED BY <1>1, Invariance, PTL

(* The resume guard: no resume ever follows a flatten without an outcome.   *)
THEOREM ResumeGuard == Spec => []ResumeFollowsOutcome
<1>1. IInv => ResumeFollowsOutcome
  BY DEF IInv
<1> QED BY <1>1, Invariance, PTL

(* An armed engine has left no flatten behind without an outcome.           *)
THEOREM ArmedIsSafe == Spec => []ArmedOnlyAfterOutcomes
<1>1. IInv => ArmedOnlyAfterOutcomes
  <2> SUFFICES ASSUME IInv, ~kill.halted, NEW f \in DOMAIN log, f <= kill.seq,
                      log[f].action = "flatten"
               PROVE  log[f].result # "none"
    BY DEF ArmedOnlyAfterOutcomes
  <2>1. DOMAIN log = 1 .. Len(log) /\ Len(log) \in Nat /\ kill.seq \in Nat /\ kill.seq <= Len(log)
    BY LogShape DEF IInv, TypeOK, EngineInv, KillSwitch, Seqs
  <2>2. kill.seq \in DOMAIN log /\ log[kill.seq].action = "resume"
    BY <2>1 DEF IInv, EngineInv
  <2>3. f < kill.seq
    BY <2>1, <2>2
  <2> QED BY <2>2, <2>3 DEF IInv, ResumeFollowsOutcome
<1> QED BY <1>1, Invariance, PTL

(* The log is append-only and an outcome is never overwritten.              *)
THEOREM OutcomesAreFinal == Spec => ResultsAreFinal
<1> DEFINE Kept == \A s \in DOMAIN log :
                     /\ s \in DOMAIN log'
                     /\ log'[s].action = log[s].action
                     /\ log[s].applied => log'[s].applied
                     /\ log[s].result # "none" => log'[s].result = log[s].result
<1>1. IInv /\ [Next]_vars => [Kept]_vars
  <2> SUFFICES ASSUME IInv, [Next]_vars PROVE Kept
    OBVIOUS
  <2>1. LogGrows(log, log')
    BY CommandBounds, NextIInv
  <2>2. /\ DOMAIN log = 1 .. Len(log) /\ Len(log) \in Nat
        /\ DOMAIN log' = 1 .. Len(log') /\ Len(log') \in Nat
    BY <2>1, LogShape DEF IInv, TypeOK, LogGrows
  <2> QED BY <2>1, <2>2 DEF LogGrows
<1> QED BY <1>1, Invariance, PTL DEF Spec, ResultsAreFinal

(* The engine never goes back to an older command, and obeys a halt until   *)
(* it has a newer command.                                                  *)
LEMMA KillForward ==
  ASSUME CommandBounds, IInv, [Next]_vars
  PROVE  /\ kill'.seq >= kill.seq
         /\ kill.halted /\ ~kill'.halted => kill'.seq > kill.seq
<1>1. IInv' /\ LogGrows(log, log')
  BY NextIInv
<1>2. /\ Len(log) \in Nat /\ Len(log') \in Nat
      /\ kill.seq \in 0 .. Len(log) /\ kill'.seq \in 0 .. Len(log')
  BY <1>1, LogShape DEF IInv, TypeOK, EngineInv, KillSwitch, Seqs, LogGrows
<1>3. kill'.seq >= kill.seq
  <2>1. CASE kill'.seq = kill.seq
    BY <1>2, <2>1
  <2>2. CASE Start
    BY <1>2, <2>2, EmptySeq DEF Start, Armed, apply_latest, IInv, TypeOK
  <2>3. CASE SweepRead
    BY <1>2, <2>3, EmptySeq DEF SweepRead, Armed, IInv, TypeOK
  <2>4. CASE SweepApply
    <3>1. sweeper.seq \in Nat /\ kill.seq <= sweeper.seq /\ kill'.seq = sweeper.seq
      BY <2>4 DEF SweepApply, apply_latest, IInv, EngineInv, TypeOK, Sweeper, IdleSweeper, Seqs
    <3> QED BY <1>2, <3>1
  <2>5. ~Start /\ ~SweepRead /\ ~SweepApply => kill'.seq = kill.seq
    BY DEF Next, vars, IssueStep, TakeLock, CheckGuard, InsertCommand, AbandonCommand,
           BootReconciled, SweepStep, SweepCommit, SweepFail, DriveStep, BeginDrive, EndDrive,
           MarkVerified, ClearFlattening, Crash, IInv, TypeOK, KillSwitch
  <2> QED BY <2>1, <2>2, <2>3, <2>4, <2>5
<1>4. kill'.seq = kill.seq /\ kill.halted => kill'.halted
  <2> SUFFICES ASSUME kill'.seq = kill.seq, kill.halted PROVE kill'.halted
    OBVIOUS
  <2>1. kill.seq # 0 /\ log[kill.seq].action # "resume"
    BY DEF IInv, EngineInv
  <2>2. log'[kill.seq].action = log[kill.seq].action
    BY <1>1, <1>2, <2>1 DEF LogGrows
  <2> QED BY <1>1, <2>1, <2>2 DEF IInv, EngineInv
<1> QED BY <1>2, <1>3, <1>4

(* Nothing but a newer command changes what the engine obeys, and nothing   *)
(* but a newer command disarms a halt -- not even a restart.                *)
THEOREM HaltSurvives == Spec => KillStateNeverOlder
<1>1. IInv /\ [Next]_vars => [/\ kill'.seq >= kill.seq
                              /\ kill.halted /\ ~kill'.halted => kill'.seq > kill.seq]_vars
  BY CommandBounds, KillForward
<1> QED BY <1>1, Invariance, PTL DEF Spec, KillStateNeverOlder

(* Only a sweep voids a flatten, and it has picked up a later command in    *)
(* the same transaction; inserting a row and writing a verified outcome     *)
(* void nothing.                                                            *)
LEMMA VoidIsOvertaken ==
  ASSUME CommandBounds, IInv, OnlyOvertakenIsVoid, [Next]_vars
  PROVE  OnlyOvertakenIsVoid'
<1>1. TypeOK /\ EngineInv /\ LogGrows(log, log')
  BY NextIInv DEF IInv
<1>2. /\ DOMAIN log = 1 .. Len(log) /\ Len(log) \in Nat
      /\ DOMAIN log' = 1 .. Len(log') /\ Len(log') \in Nat
  BY <1>1, LogShape DEF TypeOK, LogGrows
<1> SUFFICES ASSUME NEW s \in DOMAIN log', log'[s].result = "superseded"
             PROVE  log'[s].action = "flatten" /\ \E t \in DOMAIN log' : t > s /\ log'[t].applied
  BY DEF OnlyOvertakenIsVoid
<1>3. CASE s \in DOMAIN log /\ log[s].result = "superseded"
  <2>1. log[s].action = "flatten"
    BY <1>3 DEF OnlyOvertakenIsVoid
  <2>2. PICK t \in DOMAIN log : t > s /\ log[t].applied
    BY <1>3 DEF OnlyOvertakenIsVoid
  <2> QED BY <1>1, <1>2, <1>3, <2>1, <2>2 DEF LogGrows
<1>4. CASE SweepCommit
  <2>1. sweeper.seq \in 1 .. Len(log) /\ sweeper.seq \in DOMAIN log'
    <3>1. sweeper.pc = "read" /\ sweeper \in Sweeper
      BY <1>1, <1>4 DEF SweepCommit, TypeOK
    <3>2. sweeper \in [pc : {"read", "committed"}, seq : Seqs \ {0}, action : Action, result : Result]
      BY <3>1 DEF Sweeper, IdleSweeper
    <3>3. sweeper.seq \in Nat \ {0}
      BY <3>2 DEF Seqs
    <3>4. sweeper.seq <= Len(log)
      BY <1>1, <3>1 DEF EngineInv
    <3> QED BY <1>1, <1>2, <3>3, <3>4 DEF LogGrows
  <2>2. /\ DOMAIN log' = DOMAIN log
        /\ log'[sweeper.seq].applied
        /\ \A u \in DOMAIN log : log'[u].result = supersede_stale_flattens(u, sweeper.seq)
    <3>1. \A u \in DOMAIN log : log[u] \in Command
      BY <1>1, <1>2, LogShape DEF TypeOK
    <3>2. stamp_applied(sweeper.seq, sweeper.seq) = TRUE
      BY <1>2, <2>1 DEF stamp_applied
    <3> QED BY <1>2, <1>4, <2>1, <3>1, <3>2 DEF SweepCommit, Command
  <2>3. log[s].result = "superseded" \/ (log[s].action = "flatten" /\ s < sweeper.seq)
    BY <2>2 DEF supersede_stale_flattens
  <2> QED BY <1>1, <1>2, <1>3, <2>1, <2>2, <2>3 DEF LogGrows
<1>5. CASE \E p \in Operators : InsertCommand(p)
  <2>1. PICK p \in Operators : InsertCommand(p)
    BY <1>5
  <2>2. /\ Len(log') = Len(log) + 1
        /\ log'[Len(log) + 1] = [action |-> op[p].action, applied |-> FALSE, result |-> "none"]
        /\ \A u \in 1 .. Len(log) : log'[u] = log[u]
    BY <1>1, <2>1, InsertGrows
  <2>3. s # Len(log) + 1
    BY <2>2
  <2> QED BY <1>2, <1>3, <2>2, <2>3
<1>6. CASE MarkVerified
  <2>1. log' = log \/ log' = [log EXCEPT ![drive.seq].result = "flat_verified"]
    BY <1>6 DEF MarkVerified
  <2>2. DOMAIN log' = DOMAIN log
    BY <2>1
  <2>3. log'[s].result = log[s].result \/ log'[s].result = "flat_verified"
    <3>1. log[s] \in Command
      BY <1>1, <1>2, <2>2, LogShape DEF TypeOK
    <3> QED BY <2>1, <2>2, <3>1 DEF Command
  <2> QED BY <1>3, <2>2, <2>3
<1>7. CASE log' = log
  BY <1>3, <1>7
<1> QED BY <1>4, <1>5, <1>6, <1>7
       DEF Next, vars, IssueStep, TakeLock, CheckGuard, AbandonCommand, Start, BootReconciled,
           SweepStep, SweepRead, SweepApply, SweepFail, DriveStep, BeginDrive, EndDrive,
           ClearFlattening, Crash

(* The latest ask of an operator is never voided: a superseded row is a     *)
(* flatten, and a later command has been picked up.                         *)
THEOREM LatestIsNeverVoid == Spec => []OnlyOvertakenIsVoid
<1> DEFINE Both == IInv /\ OnlyOvertakenIsVoid
<1>1. Init => Both
  <2>1. Init => OnlyOvertakenIsVoid
    BY DEF Init, OnlyOvertakenIsVoid
  <2> QED BY <2>1, CommandBounds, InitIInv
<1>2. Both /\ [Next]_vars => Both'
  BY CommandBounds, NextIInv, VoidIsOvertaken
<1>3. Both => OnlyOvertakenIsVoid
  OBVIOUS
<1> QED BY <1>1, <1>2, <1>3, PTL DEF Spec
=============================================================================
