---------------------------- MODULE FlattenDrive ----------------------------
(***************************************************************************)
(* The operator's flatten, from the command log to a flat book: the flatten *)
(* controller reading its exposure and publishing FlattenEvents, the        *)
(* execution stage's flatten pass (cancel, confirm, liquidate), the one     *)
(* entry order whose path to the broker crosses it, and the broker.         *)
(*                                                                         *)
(* The command log, the sweeper and the kill switch are those of module     *)
(* CommandLog, which this module implements: here the controller's answer   *)
(* "not exposed" comes from three reads, one after the other.               *)
(*                                                                         *)
(* One symbol and one entry of one share, protected by one stop leg; the    *)
(* market is open (a drive may still hold for any reason a closed market    *)
(* gives).  Requests may be lost or arrive late; cancels are asynchronous.  *)
(***************************************************************************)
EXTENDS Integers, Sequences

CONSTANTS Operators, MaxCommands, MaxCrashes,
          Liquidations   \* client ids a pass may use (reused once settled)

ASSUME DriveBounds == MaxCommands \in Nat /\ MaxCrashes \in Nat

VARIABLES
  log, op, engine, kill, sweeper, drive, crashes,   \* CommandLog's
  entry,      \* the entry order, from approval to its end at the broker
  pending,    \* its row is pending_submit
  pos,        \* broker: shares held
  leg,        \* broker: the entry's protective stop leg
  canceling,  \* broker: cancels accepted and not settled yet
  liq,        \* broker: each liquidation order
  look,       \* the controller's exposure read in progress
  flattenEvent, \* a FlattenEvent is on its way to the execution stage
  pass        \* the execution stage's flatten pass in progress

command == <<log, op, engine, kill, sweeper, drive, crashes>>
book == <<entry, pending, pos, leg, canceling, liq>>
drivers == <<look, flattenEvent, pass>>
vars == <<command, book, drivers>>

(* The command log this module refines: its variables are these, its        *)
(* constants are these.                                                     *)
Commands == INSTANCE CommandLog WITH
  Operators <- Operators, MaxCommands <- MaxCommands, MaxCrashes <- MaxCrashes,
  log <- log, op <- op, engine <- engine, kill <- kill, sweeper <- sweeper,
  drive <- drive, crashes <- crashes

(* "gone": suppressed, refused, canceled or lost -- it can never fill.      *)
EntryState ==
  {"none", "approved", "passed", "persisted", "sent", "working", "filled", "gone"}

(* "none": not sent, or sent and over, whatever its end.                    *)
LiqState == {"none", "sent", "working"}

IdleLook == [pc |-> "idle", held |-> FALSE, working |-> FALSE, covered |-> FALSE,
             pending |-> FALSE, quiet |-> FALSE]
IdlePass == [pc |-> "idle", cancel |-> {}, covered |-> FALSE]

TypeOK ==
  /\ entry \in EntryState
  /\ pending \in BOOLEAN
  /\ pos \in 0 .. 1
  /\ leg \in {"none", "working", "canceled"}
  /\ canceling \in SUBSET {"entry", "leg"}
  /\ liq \in [Liquidations -> LiqState]
  /\ look \in [pc : {"idle", "positions", "orders", "rows", "decide"}, held : BOOLEAN,
               working : BOOLEAN, covered : BOOLEAN, pending : BOOLEAN, quiet : BOOLEAN]
  /\ look.pc # "idle" <=> drive.pc = "checking"
  /\ flattenEvent \in BOOLEAN
  /\ pass \in [pc : {"idle", "list", "cancel", "confirm", "liquidate", "wait"},
               cancel : SUBSET {"entry", "leg"}, covered : BOOLEAN]
  /\ engine # "running" => look = IdleLook /\ pass = IdlePass /\ ~flattenEvent

Init ==
  /\ Commands!Init
  /\ entry = "none" /\ pending = FALSE
  /\ pos = 0 /\ leg = "none" /\ canceling = {}
  /\ liq = [l \in Liquidations |-> "none"]
  /\ look = IdleLook /\ flattenEvent = FALSE /\ pass = IdlePass

-----------------------------------------------------------------------------
(* The entry: risk gate, execution gate, persist, submit.                   *)

(* RiskStage evaluates with trading_halted and publishes the OrderEvent.    *)
Approve ==
  /\ engine = "running"
  /\ ~kill.halted
  /\ entry = "none"
  /\ entry' = "approved"
  /\ UNCHANGED <<command, pending, pos, leg, canceling, liq, drivers>>

(* Mutant: no second look at the kill switch.                               *)
PassUnchecked ==
  /\ entry = "approved"
  /\ entry' = "passed"
  /\ UNCHANGED <<command, pending, pos, leg, canceling, liq, drivers>>

(* _on_order re-checks halted() when the event reaches it ...               *)
PassGate ==
  /\ entry = "approved"
  /\ entry' = IF kill.halted THEN "gone" ELSE "passed"
  /\ UNCHANGED <<command, pending, pos, leg, canceling, liq, drivers>>

(* ... and only then awaits the commit of the row ...                       *)
PersistEntry ==
  /\ entry = "passed"
  /\ entry' = "persisted"
  /\ pending' = TRUE
  /\ UNCHANGED <<command, pos, leg, canceling, liq, drivers>>

(* ... and the submission.                                                  *)
SubmitEntry ==
  /\ entry = "persisted"
  /\ entry' = "sent"
  /\ UNCHANGED <<command, pending, pos, leg, canceling, liq, drivers>>

(* The row leaves pending_submit on any broker evidence, or ages out while  *)
(* the broker has no trace of the order - be its request still under way.   *)
SettleRow ==
  /\ pending
  /\ entry \in {"sent", "working", "filled", "gone"}
  /\ pending' = FALSE
  /\ UNCHANGED <<command, entry, pos, leg, canceling, liq, drivers>>

-----------------------------------------------------------------------------
(* The broker (external).                                                   *)

BrokerTakeEntry ==
  /\ entry = "sent"
  /\ \E fate \in {"working", "gone"} : entry' = fate
  /\ UNCHANGED <<command, pending, pos, leg, canceling, liq, drivers>>

BrokerFillEntry ==
  /\ entry = "working"
  /\ entry' = "filled" /\ pos' = 1 /\ leg' = "working"
  /\ canceling' = canceling \ {"entry"}
  /\ UNCHANGED <<command, pending, liq, drivers>>

BrokerFillLeg ==
  /\ leg = "working" /\ pos = 1
  /\ leg' = "none" /\ pos' = 0
  /\ canceling' = canceling \ {"leg"}
  /\ UNCHANGED <<command, entry, pending, liq, drivers>>

BrokerCancel ==
  /\ \/ /\ "entry" \in canceling /\ entry = "working"
        /\ entry' = "gone" /\ canceling' = canceling \ {"entry"}
        /\ UNCHANGED leg
     \/ /\ "leg" \in canceling /\ leg = "working"
        /\ leg' = "canceled" /\ canceling' = canceling \ {"leg"}
        /\ UNCHANGED entry
  /\ UNCHANGED <<command, pending, pos, liq, drivers>>

(* A sell-to-close is refused without free shares: none held, or all of     *)
(* them reserved by the leg or by another liquidation.                      *)
FreeShares ==
  pos = 1 /\ leg # "working" /\ \A l \in Liquidations : liq[l] # "working"

BrokerTakeLiquidation(l) ==
  /\ liq[l] = "sent"
  /\ liq' = [liq EXCEPT ![l] = IF FreeShares THEN "working" ELSE "none"]
  /\ UNCHANGED <<command, entry, pending, pos, leg, canceling, drivers>>

BrokerMissLiquidation(l) ==
  /\ liq[l] = "sent"
  /\ liq' = [liq EXCEPT ![l] = "none"]
  /\ UNCHANGED <<command, entry, pending, pos, leg, canceling, drivers>>

BrokerFillLiquidation(l) ==
  /\ liq[l] = "working"
  /\ liq' = [liq EXCEPT ![l] = "none"]
  /\ pos' = 0
  /\ UNCHANGED <<command, entry, pending, leg, canceling, drivers>>

-----------------------------------------------------------------------------
(* The controller: _drive_kill_flatten and _exposure.                       *)

(* quiet: (history) no entry was past its gate and still alive just then.   *)
BeginDrive ==
  /\ Commands!BeginDrive
  /\ look' = [IdleLook EXCEPT !.pc = "positions",
                !.quiet = entry \notin {"passed", "persisted", "sent", "working"}]
  /\ UNCHANGED <<book, flattenEvent, pass>>

ReadPositions ==
  /\ look.pc = "positions"
  /\ look' = [look EXCEPT !.pc = "orders", !.held = pos > 0]
  /\ UNCHANGED <<command, book, flattenEvent, pass>>

ReadOrders ==
  /\ look.pc = "orders"
  /\ look' = [look EXCEPT !.pc = "rows",
                !.working = entry = "working" \/ leg = "working",
                !.covered = \E l \in Liquidations : liq[l] = "working"]
  /\ UNCHANGED <<command, book, flattenEvent, pass>>

count_pending_submit ==
  /\ look.pc = "rows"
  /\ look' = [look EXCEPT !.pc = "decide", !.pending = pending]
  /\ UNCHANGED <<command, book, flattenEvent, pass>>

exposed == look.held \/ look.working \/ look.pending
fully_covered == look.held /\ ~look.working /\ ~look.pending /\ look.covered

(* Mutant: writes the outcome over whatever outcome is there.               *)
VerifyAnyway ==
  /\ look.pc = "decide" /\ ~exposed
  /\ Commands!MarkVerifiedAnyway
  /\ look' = IdleLook
  /\ UNCHANGED <<book, flattenEvent, pass>>

Verify ==
  /\ look.pc = "decide" /\ ~exposed
  /\ Commands!MarkVerified
  /\ look' = IdleLook
  /\ UNCHANGED <<book, flattenEvent, pass>>

Publish ==
  /\ look.pc = "decide" /\ exposed /\ ~fully_covered
  /\ Commands!EndDrive
  /\ flattenEvent' = TRUE
  /\ look' = IdleLook
  /\ UNCHANGED <<book, pass>>

(* A liquidation works on all there is, or the market is closed: wait.      *)
Wait ==
  /\ look.pc = "decide" /\ exposed
  /\ Commands!EndDrive
  /\ look' = IdleLook
  /\ UNCHANGED <<book, flattenEvent, pass>>

(* A read or the write of the outcome raised.                               *)
FailTick ==
  /\ Commands!EndDrive
  /\ look' = IdleLook
  /\ UNCHANGED <<book, flattenEvent, pass>>

ClearFlattening ==
  /\ Commands!ClearFlattening
  /\ UNCHANGED <<book, drivers>>

-----------------------------------------------------------------------------
(* The execution stage's flatten pass; exempt from halted().                *)

(* The bus dispatches one event at a time: none while _on_order is busy.    *)
StartPass ==
  /\ flattenEvent
  /\ entry \notin {"passed", "persisted"}
  /\ pass.pc = "idle"
  /\ flattenEvent' = FALSE
  /\ pass' = [IdlePass EXCEPT !.pc = "list"]
  /\ UNCHANGED <<command, book, look>>

(* Coalesced into the pass that is running, or its approval failed.         *)
LoseFlattenEvent ==
  /\ flattenEvent
  /\ flattenEvent' = FALSE
  /\ UNCHANGED <<command, book, look, pass>>

(* Mutant: the default nested listing, where a filled parent hides its leg. *)
ListOrdersNested ==
  /\ pass.pc = "list"
  /\ pass' = [pc |-> "cancel",
              cancel |-> {x \in {"entry"} : entry = "working"},
              covered |-> \E l \in Liquidations : liq[l] = "working"]
  /\ UNCHANGED <<command, book, look, flattenEvent>>

(* list_orders(nested=False): legs are listed beside their filled parent.   *)
ListOrders ==
  /\ pass.pc = "list"
  /\ pass' = [pc |-> "cancel",
              cancel |-> {x \in {"entry", "leg"} : IF x = "entry" THEN entry = "working"
                                                   ELSE leg = "working"},
              covered |-> \E l \in Liquidations : liq[l] = "working"]
  /\ UNCHANGED <<command, book, look, flattenEvent>>

(* Each cancel is isolated: any of them may fail without stopping the pass. *)
CancelOrders(accepted) ==
  /\ pass.pc = "cancel"
  /\ accepted \subseteq pass.cancel
  /\ canceling' = canceling \cup {x \in accepted : IF x = "entry" THEN entry = "working"
                                                   ELSE leg = "working"}
  /\ pass' = [pass EXCEPT !.pc = "confirm", !.cancel = {}]
  /\ UNCHANGED <<command, entry, pending, pos, leg, liq, look, flattenEvent>>

(* Cancels settled or polls used up: liquidate what a fresh position list   *)
(* shows, unless a prior liquidation was seen working.                      *)
ReadBook ==
  /\ pass.pc = "confirm"
  /\ pass' = IF pos > 0 /\ ~pass.covered THEN [pass EXCEPT !.pc = "liquidate"] ELSE IdlePass
  /\ UNCHANGED <<command, book, look, flattenEvent>>

SubmitLiquidation(l) ==
  /\ pass.pc = "liquidate"
  /\ liq[l] = "none"
  /\ liq' = [liq EXCEPT ![l] = "sent"]
  /\ pass' = [pass EXCEPT !.pc = "wait"]
  /\ UNCHANGED <<command, entry, pending, pos, leg, canceling, look, flattenEvent>>

(* The submission is answered, or left ambiguous.                           *)
EndPass ==
  /\ pass.pc = "wait"
  /\ pass' = IdlePass
  /\ UNCHANGED <<command, book, look, flattenEvent>>

(* A broker read of the pass, or the submission itself, raised.             *)
FailPass ==
  /\ pass.pc # "idle"
  /\ pass' = IdlePass
  /\ UNCHANGED <<command, book, look, flattenEvent>>

-----------------------------------------------------------------------------
(* The rest of the command log, and the death of the engine with all that   *)
(* is only in its memory.                                                   *)
Alone(step) == step /\ UNCHANGED <<book, drivers>>

CommandStep ==
  \/ \E p \in Operators : Alone(Commands!IssueStep(p))
  \/ Alone(Commands!Start) \/ Alone(Commands!BootReconciled) \/ Alone(Commands!SweepStep)

Crash ==
  /\ Commands!Crash
  /\ entry' = IF entry \in {"approved", "passed", "persisted"} THEN "gone" ELSE entry
  /\ look' = IdleLook /\ flattenEvent' = FALSE /\ pass' = IdlePass
  /\ UNCHANGED <<pending, pos, leg, canceling, liq>>

EntryStep == Approve \/ PassGate \/ PersistEntry \/ SubmitEntry \/ SettleRow

BrokerStep ==
  \/ BrokerTakeEntry \/ BrokerFillEntry \/ BrokerFillLeg \/ BrokerCancel
  \/ \E l \in Liquidations :
       BrokerTakeLiquidation(l) \/ BrokerMissLiquidation(l) \/ BrokerFillLiquidation(l)

ControllerStep ==
  \/ BeginDrive \/ ReadPositions \/ ReadOrders \/ count_pending_submit
  \/ Verify \/ Publish \/ Wait \/ FailTick \/ ClearFlattening

PassStep ==
  \/ StartPass \/ LoseFlattenEvent \/ ListOrders \/ ReadBook \/ EndPass \/ FailPass
  \/ \E accepted \in SUBSET {"entry", "leg"} : CancelOrders(accepted)
  \/ \E l \in Liquidations : SubmitLiquidation(l)

Next == EntryStep \/ BrokerStep \/ ControllerStep \/ PassStep \/ CommandStep \/ Crash

Spec == Init /\ [][Next]_vars

(* The engine restarts, its loops run for ever and take their next step,    *)
(* and the broker settles what it has accepted.  Nobody has to issue a      *)
(* command, and no order has to be submitted.                               *)
EngineFairness ==
  /\ WF_vars(Alone(Commands!Start)) /\ WF_vars(Alone(Commands!BootReconciled))
  /\ WF_vars(Alone(Commands!SweepRead \/ Commands!SweepCommit \/ Commands!SweepApply))
  /\ WF_vars(BeginDrive)
  /\ WF_vars(ReadPositions \/ ReadOrders \/ count_pending_submit \/ Verify \/ Publish)
  /\ WF_vars(Wait)
  /\ WF_vars(ClearFlattening)
  /\ WF_vars(StartPass)
  /\ WF_vars(ListOrders \/ CancelOrders(pass.cancel) \/ ReadBook \/ EndPass)
  /\ WF_vars(\E l \in Liquidations : SubmitLiquidation(l))
  /\ WF_vars(PassGate \/ PersistEntry \/ SubmitEntry) /\ WF_vars(SettleRow)

BrokerFairness ==
  /\ WF_vars(BrokerTakeEntry) /\ WF_vars(BrokerCancel)
  /\ \A l \in Liquidations : WF_vars(BrokerTakeLiquidation(l) \/ BrokerFillLiquidation(l))

(* Outages end: from some point on nothing that may fail does, and the      *)
(* market is open.  Any number of failures may come before.  A step that is *)
(* also what a working engine or broker would do is not a failure.          *)
Failure ==
  \/ Alone(Commands!SweepFail) \/ FailTick \/ FailPass
  \/ LoseFlattenEvent /\ pass.pc = "idle"
  \/ \E accepted \in SUBSET pass.cancel : CancelOrders(accepted)
  \/ \E l \in Liquidations : BrokerMissLiquidation(l)

Working ==
  \/ Alone(Commands!SweepApply) \/ Verify \/ ClearFlattening
  \/ Wait /\ fully_covered
  \/ EndPass \/ ReadBook \/ CancelOrders(pass.cancel)
  \/ \E l \in Liquidations : BrokerTakeLiquidation(l)

OutagesEnd == <>[][Failure => Working]_vars

FairSpec == Spec /\ EngineFairness /\ BrokerFairness /\ OutagesEnd

-----------------------------------------------------------------------------
(* Properties.                                                              *)

(* Whatever the book does, the log, the sweeper and the kill switch behave  *)
(* as CommandLog says: everything checked and proved there holds here.      *)
ImplementsCommandLog == Commands!Spec

NewlyVerified ==
  \E s \in DOMAIN log : log[s].result # "flat_verified" /\ log'[s].result = "flat_verified"

AtRisk == pos > 0 \/ entry \in {"passed", "persisted", "sent", "working"}

(* In well-typed states, with the drive's reads gone when the drive is:     *)
(* when no entry was past its halted() check as the drive began, a flatten  *)
(* is only reported verified on a book that is flat, with no entry on its   *)
(* way: three reads at three instants, an entry approved before the halt,   *)
(* a resume or a restart in between do not fool the controller.             *)
VerifiedIsFlatOnceQuiet ==
  /\ []TypeOK
  /\ [][NewlyVerified /\ look.quiet => ~AtRisk]_vars

(* A flatten that stays the latest command reaches a verified outcome:      *)
(* lost events, failing cancels, held shares, ambiguous liquidations and    *)
(* crashes cost ticks, never the intent.                                    *)
FlattenReachesFlat ==
  \A n \in 1 .. MaxCommands :
    (Len(log) = n /\ log[n].action = "flatten" /\ log[n].result = "none")
      ~> (Len(log) > n \/ (n \in DOMAIN log /\ log[n].result # "none"))

-----------------------------------------------------------------------------
(* The inductive invariant.                                                 *)

(* The kill switch is never behind the flatten a drive has captured.        *)
DriveIsCurrent == drive.pc # "idle" => drive.seq <= kill.seq

(* As long as the flatten of a drive that began quiet has no outcome, no    *)
(* entry has got past its gate, and a position that was not there when the  *)
(* positions were read is still not there.                                  *)
QuietHolds ==
  look.pc # "idle" /\ look.quiet /\ log[drive.seq].result = "none" =>
    /\ entry \notin {"passed", "persisted", "sent", "working"}
    /\ look.pc # "positions" /\ ~look.held => pos = 0

IInv == Commands!IInv /\ TypeOK /\ DriveIsCurrent /\ QuietHolds
=============================================================================
