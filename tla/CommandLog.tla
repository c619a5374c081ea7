---------------------------- MODULE CommandLog -----------------------------
(***************************************************************************)
(* The durable kill-switch command log and everything that writes it or    *)
(* derives state from it: operators (API and CLI) issuing commands under   *)
(* an advisory lock, the engine's command sweeper, the in-memory kill      *)
(* switch it refreshes, and the flatten controller's verified outcome.     *)
(*                                                                         *)
(* A step ends where the code awaits: the operators' check and insert, the *)
(* sweeper's read, transaction and refresh, and the controller's capture,  *)
(* write and clearing of the flag are steps of their own, because anything *)
(* may run between them.                                                   *)
(*                                                                         *)
(* A command's seq is its position in the log.  Reasons and actors are     *)
(* left out, and so is the Redis poke: it can only make a sweep or a tick  *)
(* happen earlier, and here either may happen at any time.  What the       *)
(* controller reads to decide that the book is flat is left open (any      *)
(* answer is possible); FlattenDrive fills it in.                          *)
(***************************************************************************)
EXTENDS Integers, Sequences

CONSTANTS
  Operators,    \* sessions issuing commands
  MaxCommands,  \* bound on the log
  MaxCrashes    \* bound on engine crashes

ASSUME CommandBounds == MaxCommands \in Nat /\ MaxCrashes \in Nat

VARIABLES
  log,      \* engine_commands, by seq
  op,       \* each operator session: its progress and the action it asks for
  engine,   \* "down", "booting" (boot reconcile pending) or "running"
  kill,     \* the engine's KillSwitch object
  sweeper,  \* the sweep in progress and the latest row it read
  drive,    \* the controller's drive in progress and the seq it captured
  crashes

vars == <<log, op, engine, kill, sweeper, drive, crashes>>

Action == {"halt", "flatten", "resume"}
Result == {"none", "flat_verified", "superseded"}
Command == [action : Action, applied : BOOLEAN, result : Result]
Seqs == 0 .. MaxCommands

KillSwitch == [halted : BOOLEAN, flattening : BOOLEAN, seq : Seqs]
Armed == [halted |-> FALSE, flattening |-> FALSE, seq |-> 0]

IdleSweeper == [pc |-> "idle", seq |-> 0, action |-> "resume", result |-> "none"]
IdleDrive == [pc |-> "idle", seq |-> 0]

(* What has been captured names a row of the log.                           *)
Sweeper ==
  {IdleSweeper} \cup
  [pc : {"read", "committed"}, seq : Seqs \ {0}, action : Action, result : Result]
Drive == {IdleDrive} \cup [pc : {"checking", "marked"}, seq : Seqs \ {0}]

TypeOK ==
  /\ log \in Seq(Command)
  /\ Len(log) <= MaxCommands
  /\ op \in [Operators -> [pc : {"idle", "locked", "checked"}, action : Action]]
  /\ engine \in {"down", "booting", "running"}
  /\ kill \in KillSwitch
  /\ sweeper \in Sweeper
  /\ drive \in Drive
  /\ crashes \in 0 .. MaxCrashes

Init ==
  /\ log = <<>>
  /\ op = [p \in Operators |-> [pc |-> "idle", action |-> "halt"]]
  /\ engine = "down"
  /\ kill = Armed
  /\ sweeper = IdleSweeper
  /\ drive = IdleDrive
  /\ crashes = 0

-----------------------------------------------------------------------------
(* Operators: issue_command.                                                *)

(* Mutant: no advisory lock around the read-then-insert.                    *)
TakeNoLock(p, a) ==
  /\ op[p].pc = "idle"
  /\ Len(log) < MaxCommands
  /\ op' = [op EXCEPT ![p] = [pc |-> "locked", action |-> a]]
  /\ UNCHANGED <<log, engine, kill, sweeper, drive, crashes>>

(* pg_advisory_xact_lock: one command is being issued at a time.            *)
TakeLock(p, a) ==
  /\ op[p].pc = "idle"
  /\ \A q \in Operators : op[q].pc = "idle"
  /\ Len(log) < MaxCommands
  /\ op' = [op EXCEPT ![p] = [pc |-> "locked", action |-> a]]
  /\ UNCHANGED <<log, engine, kill, sweeper, drive, crashes>>

LastResume == {s \in DOMAIN log : log[s].action = "resume"}

(* Mutant: the guard reads the latest row only.                             *)
unresolved_latest ==
  {s \in DOMAIN log : s = Len(log) /\ log[s].action = "flatten" /\ log[s].result = "none"}

(* Flattens since the last resume without a verified or superseded outcome. *)
unresolved ==
  {s \in DOMAIN log : /\ log[s].action = "flatten"
                      /\ log[s].result = "none"
                      /\ \A r \in LastResume : r < s}

(* The resume guard, read under the lock; ResumeRefusedError otherwise.     *)
CheckGuard(p) ==
  /\ op[p].pc = "locked"
  /\ op' = [op EXCEPT ![p].pc =
              IF op[p].action = "resume" /\ unresolved # {} THEN "idle" ELSE "checked"]
  /\ UNCHANGED <<log, engine, kill, sweeper, drive, crashes>>

(* The row is committed, which releases the lock.                           *)
InsertCommand(p) ==
  /\ op[p].pc = "checked"
  /\ Len(log) < MaxCommands
  /\ log' = Append(log, [action |-> op[p].action, applied |-> FALSE, result |-> "none"])
  /\ op' = [op EXCEPT ![p].pc = "idle"]
  /\ UNCHANGED <<engine, kill, sweeper, drive, crashes>>

(* The session dies before its commit: rolled back, lock released.          *)
AbandonCommand(p) ==
  /\ op[p].pc # "idle"
  /\ op' = [op EXCEPT ![p].pc = "idle"]
  /\ UNCHANGED <<log, engine, kill, sweeper, drive, crashes>>

-----------------------------------------------------------------------------
(* The engine's view.                                                       *)

derive_kill_state(action, result) ==
  [halted |-> action # "resume",
   flattening |-> action = "flatten" /\ result # "flat_verified"]

apply_latest(seq, action, result) ==
  [halted |-> derive_kill_state(action, result).halted,
   flattening |-> derive_kill_state(action, result).flattening,
   seq |-> seq]

(* Mutant: a restart forgets the operator's command.                        *)
StartArmed ==
  /\ engine = "down"
  /\ engine' = "booting"
  /\ kill' = Armed
  /\ UNCHANGED <<log, op, sweeper, drive, crashes>>

(* KillSwitch.load at start-up, before any task runs.                       *)
Start ==
  /\ engine = "down"
  /\ engine' = "booting"
  /\ kill' = IF log = <<>> THEN Armed
             ELSE apply_latest(Len(log), log[Len(log)].action, log[Len(log)].result)
  /\ UNCHANGED <<log, op, sweeper, drive, crashes>>

(* boot_reconciled: the sweeper and the controller leave their wait.        *)
BootReconciled ==
  /\ engine = "booting"
  /\ engine' = "running"
  /\ UNCHANGED <<log, op, kill, sweeper, drive, crashes>>

(* The latest row, read without a lock.  An empty log arms at once.         *)
SweepRead ==
  /\ engine = "running"
  /\ sweeper.pc = "idle"
  /\ IF log = <<>>
     THEN kill' = Armed /\ UNCHANGED sweeper
     ELSE /\ sweeper' = [pc |-> "read", seq |-> Len(log),
                         action |-> log[Len(log)].action, result |-> log[Len(log)].result]
          /\ UNCHANGED kill
  /\ UNCHANGED <<log, op, engine, drive, crashes>>

stamp_applied(s, latest) == IF s <= latest THEN TRUE ELSE log[s].applied

(* Mutant: off by one, the latest flatten voids itself.                     *)
supersede_up_to_latest(s, latest) ==
  IF log[s].action = "flatten" /\ log[s].result = "none" /\ s <= latest
  THEN "superseded"
  ELSE log[s].result

supersede_stale_flattens(s, latest) ==
  IF log[s].action = "flatten" /\ log[s].result = "none" /\ s < latest
  THEN "superseded"
  ELSE log[s].result

(* The sweep's transaction.  Both statements re-evaluate their conditions   *)
(* on the rows they lock.                                                   *)
SweepCommit ==
  /\ sweeper.pc = "read"
  /\ log' = [s \in DOMAIN log |->
               [log[s] EXCEPT !.applied = stamp_applied(s, sweeper.seq),
                              !.result = supersede_stale_flattens(s, sweeper.seq)]]
  /\ sweeper' = [sweeper EXCEPT !.pc = "committed"]
  /\ UNCHANGED <<op, engine, kill, drive, crashes>>

(* Mutant: a command already applied is not applied again.                  *)
SweepApplyNewOnly ==
  /\ sweeper.pc = "committed"
  /\ kill' = IF sweeper.seq = kill.seq THEN kill
             ELSE apply_latest(sweeper.seq, sweeper.action, sweeper.result)
  /\ sweeper' = IdleSweeper
  /\ UNCHANGED <<log, op, engine, drive, crashes>>

(* The kill switch is refreshed from the row object read at the start.      *)
SweepApply ==
  /\ sweeper.pc = "committed"
  /\ kill' = apply_latest(sweeper.seq, sweeper.action, sweeper.result)
  /\ sweeper' = IdleSweeper
  /\ UNCHANGED <<log, op, engine, drive, crashes>>

(* A sweep that raises is logged and tried again on the next tick.          *)
SweepFail ==
  /\ sweeper.pc # "idle"
  /\ sweeper' = IdleSweeper
  /\ UNCHANGED <<log, op, engine, kill, drive, crashes>>

-----------------------------------------------------------------------------
(* The flatten controller's use of the log.                                 *)

(* flatten_command_seq is captured before the exposure is read.             *)
BeginDrive ==
  /\ engine = "running"
  /\ drive.pc = "idle"
  /\ kill.flattening
  /\ drive' = [pc |-> "checking", seq |-> kill.seq]
  /\ UNCHANGED <<log, op, engine, kill, sweeper, crashes>>

(* Exposed (a flatten is published), market closed, or the tick raised --   *)
(* possibly after the row was committed.                                    *)
EndDrive ==
  /\ drive.pc # "idle"
  /\ drive' = IdleDrive
  /\ UNCHANGED <<log, op, engine, kill, sweeper, crashes>>

(* Mutant: writes the outcome over whatever outcome is there.               *)
MarkVerifiedAnyway ==
  /\ drive.pc = "checking"
  /\ log' = [log EXCEPT ![drive.seq].result = "flat_verified"]
  /\ drive' = [drive EXCEPT !.pc = "marked"]
  /\ UNCHANGED <<op, engine, kill, sweeper, crashes>>

(* Not exposed: mark_flatten_verified locks the row and writes its outcome  *)
(* unless there is one already.                                             *)
MarkVerified ==
  /\ drive.pc = "checking"
  /\ IF log[drive.seq].result = "none"
     THEN /\ log' = [log EXCEPT ![drive.seq].result = "flat_verified"]
          /\ drive' = [drive EXCEPT !.pc = "marked"]
     ELSE /\ drive' = IdleDrive
          /\ UNCHANGED log
  /\ UNCHANGED <<op, engine, kill, sweeper, crashes>>

(* After the commit returns, whatever the sweeper has applied meanwhile.    *)
ClearFlattening ==
  /\ drive.pc = "marked"
  /\ kill' = [kill EXCEPT !.flattening = FALSE]
  /\ drive' = IdleDrive
  /\ UNCHANGED <<log, op, engine, sweeper, crashes>>

-----------------------------------------------------------------------------
(* The engine process dies; the log and the operators do not.               *)
Crash ==
  /\ engine # "down"
  /\ crashes < MaxCrashes
  /\ crashes' = crashes + 1
  /\ engine' = "down"
  /\ sweeper' = IdleSweeper
  /\ drive' = IdleDrive
  /\ UNCHANGED <<log, op, kill>>

IssueStep(p) ==
  \/ \E a \in Action : TakeLock(p, a)
  \/ CheckGuard(p) \/ InsertCommand(p) \/ AbandonCommand(p)

SweepStep == SweepRead \/ SweepCommit \/ SweepApply \/ SweepFail
DriveStep == BeginDrive \/ EndDrive \/ MarkVerified \/ ClearFlattening

Next ==
  \/ \E p \in Operators : IssueStep(p)
  \/ Start \/ BootReconciled
  \/ SweepStep \/ DriveStep
  \/ Crash

Spec == Init /\ [][Next]_vars

(* The engine is restarted when it dies and its boot reconcile retries      *)
(* until it succeeds; the sweep loop and the controller loop run for ever,  *)
(* and a sweep may fail any number of times but not every time.             *)
EngineFairness ==
  /\ WF_vars(Start) /\ WF_vars(BootReconciled)
  /\ WF_vars(SweepRead) /\ SF_vars(SweepCommit) /\ SF_vars(SweepApply)
  /\ SF_vars(BeginDrive) /\ WF_vars(EndDrive \/ MarkVerified \/ ClearFlattening)

FairSpec == Spec /\ EngineFairness

-----------------------------------------------------------------------------
(* Properties.                                                              *)

(* No resume is in the log after a flatten without an outcome, whatever     *)
(* two operators and the engine do at once: the guard's read and the insert *)
(* are not leapfrogged by a concurrent flatten, and a halt in between does  *)
(* not hide the flatten.                                                    *)
ResumeFollowsOutcome ==
  \A r, f \in DOMAIN log :
    f < r /\ log[r].action = "resume" /\ log[f].action = "flatten" => log[f].result # "none"

(* The log is append-only and a result, once written, is the outcome: the   *)
(* sweeper superseding a flatten and the controller verifying it never      *)
(* overwrite one another.                                                   *)
ResultsAreFinal ==
  [][\A s \in DOMAIN log :
       /\ s \in DOMAIN log'
       /\ log'[s].action = log[s].action
       /\ log[s].applied => log'[s].applied
       /\ log[s].result # "none" => log'[s].result = log[s].result]_vars

(* Only a flatten that a later command, already picked up, has overtaken is *)
(* ever void: the latest ask of an operator is never voided.                *)
OnlyOvertakenIsVoid ==
  \A s \in DOMAIN log : log[s].result = "superseded" =>
    log[s].action = "flatten" /\ \E t \in DOMAIN log : t > s /\ log[t].applied

(* An engine that lets entries through -- running or just restarted -- has  *)
(* left no flatten without an outcome behind.                               *)
ArmedOnlyAfterOutcomes ==
  engine # "down" /\ ~kill.halted =>
    \A f \in DOMAIN log : f <= kill.seq /\ log[f].action = "flatten" => log[f].result # "none"

(* The kill switch never goes back to an older command, not even through a  *)
(* restart: nothing but a newer command disarms a halt.                     *)
KillStateNeverOlder ==
  [][/\ kill'.seq >= kill.seq
     /\ kill.halted /\ ~kill'.halted => kill'.seq > kill.seq]_vars

(* Once the commands and the crashes stop, the engine's view becomes and    *)
(* stays what the operators' status reader derives from the log.            *)
ViewsAgree ==
  log # <<>> =>
    LET last == log[Len(log)]
    IN  kill = apply_latest(Len(log), last.action, last.result)
ViewsConverge == <>[](engine = "running" /\ ViewsAgree)

-----------------------------------------------------------------------------
(* The inductive invariant.                                                 *)

(* One operator at a time, and a resume past its guard finds every flatten  *)
(* of the log with an outcome.                                              *)
IssueInv ==
  /\ \A p, q \in Operators : op[p].pc # "idle" /\ op[q].pc # "idle" => p = q
  /\ \A p \in Operators :
       op[p].pc = "checked" /\ op[p].action = "resume" =>
         \A f \in DOMAIN log : log[f].action = "flatten" => log[f].result # "none"

(* What the engine holds about a row is true of the log.                    *)
EngineInv ==
  /\ engine # "running" => sweeper.pc = "idle" /\ drive.pc = "idle"
  /\ kill.seq <= Len(log)
  /\ kill.halted <=> kill.seq # 0 /\ log[kill.seq].action # "resume"
  /\ kill.flattening => kill.seq # 0 /\ log[kill.seq].action = "flatten"
  /\ sweeper.pc # "idle" =>
       /\ kill.seq <= sweeper.seq /\ sweeper.seq <= Len(log)
       /\ sweeper.action = log[sweeper.seq].action
  /\ drive.pc # "idle" => drive.seq <= Len(log) /\ log[drive.seq].action = "flatten"

IInv == TypeOK /\ ResumeFollowsOutcome /\ IssueInv /\ EngineInv
=============================================================================
