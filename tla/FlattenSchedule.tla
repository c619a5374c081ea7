-------------------------- MODULE FlattenSchedule --------------------------
(***************************************************************************)
(* The flatten controller's loop against the calendar: wake, read the      *)
(* broker clock, apply the first rule that fits -- the operator's flatten, *)
(* the pre-open snapshot, the next-open remediation, the close window, the *)
(* post-close alarm -- and sleep towards the next deadline.                *)
(*                                                                         *)
(* Time is the broker's, in units of the floor of _sleep_toward, counted   *)
(* from the midnight before day 1.  A tick takes no time unless the        *)
(* process is suspended (a closed lid): then time passes and the sleep     *)
(* timer does not.  The process may restart at any instant.                *)
(*                                                                         *)
(* The book is one position, with the day it was opened and the day its    *)
(* lot says it was opened, which follows the fill stream and so lags.      *)
(* How a drive reads its exposure and how a pass works are in              *)
(* FlattenDrive; here exposure is the position and covered a working       *)
(* liquidation.  Of what the code keeps per date, the latest date is kept: *)
(* the clock does not go back, so an older date is never asked for again.  *)
(***************************************************************************)
EXTENDS Integers

CONSTANTS
  Days, Horizon, \* bounds: the days are 1 .. Days, of which Horizon units pass
  Sessions,      \* those with a session
  DayLen, Open, Close,   \* instants of a day, from its midnight
  Early,         \* an amended close
  Notice,        \* how long before an amended close it is known, at least
  Buffer,        \* flatten_buffer
  Grace,         \* _OPEN_GRACE
  InWindow, TickNear, TickFar, Near,   \* _TICK_IN_WINDOW ... _NEAR_THRESHOLD
  MaxErrors,     \* bound on the ticks of a day that raise
  MaxTorn        \* bound on a suspension in the middle of a tick

ASSUME CalendarAssumption ==
  /\ {Days, DayLen, Open, Close, Early, Buffer} \subseteq Nat \ {0}
  /\ Horizon \in 0 .. Days * DayLen - 1
  /\ Sessions \subseteq 1 .. Days
  /\ Open < Early /\ Early <= Close /\ Close < DayLen
  /\ Open + Grace < Early - Buffer
ASSUME CadenceAssumption ==
  /\ {Grace, InWindow, TickNear, TickFar, Near} \subseteq Nat \ {0}
  /\ InWindow < Buffer /\ InWindow <= TickFar /\ TickNear <= TickFar
  /\ MaxErrors \in Nat /\ MaxTorn \in Nat
(* The night is long: a sleep that a suspension has carried to midnight     *)
(* does not outlast the open, and the errors of a day end before it does.   *)
ASSUME NightAssumption ==
  TickFar <= Open + InWindow /\ Close + InWindow * (MaxErrors + 1) < DayLen
(* An early close is announced well before its window opens.                *)
ASSUME NoticeAssumption == Notice \in Nat /\ Notice >= TickFar + Buffer

VARIABLES
  now,        \* the broker's time
  close,      \* today's close, as the broker would report it
  opened,     \* the day the position held was opened, None when flat
  lot,        \* the same, by the open lots of the local database
  liq,        \* a liquidation is working
  flattening, \* KillSwitch.is_flattening
  pc,         \* the controller: "asleep", "kill" (rule 1) or "rules"
  left,       \* what is left of its sleep
  wake,       \* its wake event
  clk,        \* the clock it read at the start of the tick
  cache,      \* _calendar_cache: a date and its close as of the first lookup
  snapshot,   \* _next_open_snapshot
  fired,      \* _next_open_fired: the last date done
  checked,    \* _post_close_checked: the last date done
  history     \* what the properties speak about

world == <<now, close, opened, lot>>
loop == <<pc, left, wake, clk>>
memory == <<cache, snapshot, fired, checked>>
vars == <<world, liq, flattening, loop, memory, history>>

None == 0 - 1
NoClock == [at |-> 0, open |-> FALSE, close |-> Close]
NoDay == <<0, Close>>
Instants == 0 .. Horizon

(* All about the day that now is in.                                        *)
(*   slept, torn: was the process suspended, was it in the middle of a tick;*)
(*   errors: how many ticks raised;                                         *)
(*   leftover: what was held when the day began has not been found gone by  *)
(*   the rule that looks for it, as far as that rule was able to look;      *)
(*   tended: the book has been driven since the open's grace was over;      *)
(*   alarmed: the overnight alarm was raised;                               *)
(*   blind: for how long the close window has not been looked at;           *)
(*   ignored: ... the operator's flatten not driven, book held, market open;*)
(*   riding: ... an old position left alone, market open, grace over.       *)
History ==
  [slept : BOOLEAN, torn : BOOLEAN, errors : 0 .. MaxErrors,
   leftover : BOOLEAN, tended : BOOLEAN, alarmed : BOOLEAN,
   blind : Nat, ignored : Nat, riding : Nat]

Clock == [at : Instants, open : BOOLEAN, close : {Early, Close}]

TypeOK ==
  /\ now \in Instants
  /\ close \in {Early, Close}
  /\ opened \in {None} \cup 0 .. Days
  /\ lot \in {None} \cup 0 .. Days
  /\ liq \in BOOLEAN /\ flattening \in BOOLEAN
  /\ pc \in {"asleep", "kill", "rules"}
  /\ left \in Nat
  /\ wake \in BOOLEAN
  /\ clk \in Clock
  /\ cache \in (0 .. Days) \X {Early, Close}
  /\ snapshot \in (0 .. Days) \X BOOLEAN
  /\ fired \in {0} \cup Sessions /\ checked \in {0} \cup Sessions
  /\ history \in History

-----------------------------------------------------------------------------
(* The calendar.                                                            *)

DayOf(t) == t \div DayLen + 1
TimeOf(t) == t % DayLen
InSession(t) == DayOf(t) \in Sessions
OpenOf(d) == (d - 1) * DayLen + Open

IsOpen(t) == InSession(t) /\ Open <= TimeOf(t) /\ TimeOf(t) < close
InCloseWindow(t) ==
  IsOpen(t) /\ TimeOf(t) >= close - Buffer

(* clock.next_open; beyond the horizon when there is none.                  *)
next_open(t) ==
  LET later == {d \in Sessions : OpenOf(d) > t}
  IN  IF later = {} THEN Days * DayLen + Open
      ELSE OpenOf(CHOOSE d \in later : \A e \in later : d <= e)

NewDay ==
  [slept |-> FALSE, torn |-> FALSE, errors |-> 0,
   leftover |-> opened # None, tended |-> FALSE, alarmed |-> FALSE,
   blind |-> 0, ignored |-> 0, riding |-> 0]

Init ==
  /\ now = 0
  /\ close = Close
  /\ opened \in {None, 0} /\ lot = opened
  /\ liq = FALSE
  /\ flattening = FALSE
  /\ pc = "asleep" /\ left = 0 /\ wake = FALSE
  /\ clk = NoClock
  /\ cache = NoDay
  /\ snapshot = <<0, FALSE>>
  /\ fired = 0 /\ checked = 0
  /\ history = NewDay

-----------------------------------------------------------------------------
(* Time (external).                                                         *)

exposed == opened # None

Cap == TickFar + InWindow * (MaxErrors + 1) + 1
Count(n, condition) == IF ~condition THEN 0 ELSE IF n < Cap THEN n + 1 ELSE Cap

Advance(suspended) ==
  LET awake == ~suspended /\ ~history.slept
  IN  /\ now < Horizon
      /\ now' = now + 1
      /\ IF DayOf(now + 1) # DayOf(now)
         THEN history' = NewDay /\ liq' = FALSE /\ close' = Close
         ELSE /\ history' =
                   [history EXCEPT
                      !.slept = ~awake,
                      !.torn = @ \/ (suspended /\ pc # "asleep"),
                      !.blind = Count(@, awake /\ InCloseWindow(now)),
                      !.ignored = Count(@, awake /\ IsOpen(now) /\ flattening /\ exposed /\ ~liq),
                      !.riding = Count(@, /\ awake /\ IsOpen(now) /\ ~InCloseWindow(now)
                                          /\ TimeOf(now) >= Open + Grace
                                          /\ exposed /\ opened < DayOf(now) /\ ~liq)]
              /\ UNCHANGED <<liq, close>>

(* The sleep timer runs; it does not run past its end.                      *)
Pass ==
  /\ pc = "asleep" /\ left > 0 /\ ~wake
  /\ left' = left - 1
  /\ Advance(FALSE)
  /\ UNCHANGED <<opened, lot, flattening, pc, wake, clk, memory>>

(* The machine is suspended, asleep or in the middle of a tick.             *)
Suspend ==
  /\ pc = "asleep" \/ now < clk.at + MaxTorn
  /\ Advance(TRUE)
  /\ UNCHANGED <<opened, lot, flattening, loop, memory>>

-----------------------------------------------------------------------------
(* The broker, the book and the operator (external).                        *)

AmendClose ==
  /\ InSession(now) /\ TimeOf(now) + Notice <= Early
  /\ close' = Early
  /\ UNCHANGED <<now, opened, lot, liq, flattening, loop, memory, history>>

EntryFills ==
  /\ IsOpen(now) /\ opened = None
  /\ opened' = DayOf(now)
  /\ UNCHANGED <<now, close, lot, liq, flattening, loop, memory, history>>

(* A bracket leg, an exit or the operator closes the position; a working    *)
(* liquidation holds its shares.                                            *)
ExitFills ==
  /\ IsOpen(now) /\ exposed /\ ~liq
  /\ opened' = None
  /\ UNCHANGED <<now, close, lot, liq, flattening, loop, memory, history>>

BookLot ==
  /\ lot # opened
  /\ lot' = opened
  /\ UNCHANGED <<now, close, opened, liq, flattening, loop, memory, history>>

(* A working liquidation fills, or ends unfilled.                           *)
LiquidationEnds ==
  /\ liq
  /\ liq' = FALSE
  /\ opened' \in {opened} \cup (IF IsOpen(now) THEN {None} ELSE {})
  /\ UNCHANGED <<now, close, lot, flattening, loop, memory, history>>

(* A sweep applies a flatten and pokes the controller.                      *)
ApplyFlatten ==
  /\ ~flattening
  /\ flattening' = TRUE /\ wake' = TRUE
  /\ UNCHANGED <<world, liq, pc, left, clk, memory, history>>

-----------------------------------------------------------------------------
(* The loop: run, _session_for, _sleep_toward, _sleep.                      *)

(* Wake up: clear the wake event, read the clock, resolve the session.      *)
StartTick ==
  /\ pc = "asleep" /\ (left = 0 \/ wake)
  /\ pc' = "kill" /\ wake' = FALSE /\ left' = 0
  /\ clk' = [at |-> now, open |-> IsOpen(now), close |-> close]
  /\ cache' = IF InSession(now) /\ cache[1] # DayOf(now) THEN <<DayOf(now), close>> ELSE cache
  /\ UNCHANGED <<world, liq, flattening, snapshot, fired, checked, history>>

sleep_toward(target) ==
  LET remaining == target - clk.at
      half == remaining \div 2
      least(a, b) == IF a < b THEN a ELSE b
  IN  IF remaining <= 0 THEN InWindow
      ELSE IF remaining > Near THEN least(TickFar, half)
      ELSE least(TickNear, IF half < 1 THEN 1 ELSE half)

(* Mutant: the wake event is cleared before the sleep.                      *)
SleepClearing(n) == pc' = "asleep" /\ left' = n /\ clk' = NoClock /\ wake' = FALSE

Sleep(n) == pc' = "asleep" /\ left' = n /\ clk' = NoClock /\ UNCHANGED wake

(* Mutant: a day whose tick raised counts as checked.                       *)
TickErrorChecked ==
  /\ pc # "asleep" /\ history.errors < MaxErrors
  /\ Sleep(InWindow)
  /\ history' = [history EXCEPT !.errors = @ + 1]
  /\ checked' = IF InSession(clk.at) THEN DayOf(clk.at) ELSE checked
  /\ UNCHANGED <<world, liq, flattening, cache, snapshot, fired>>

(* A broker or database read raised somewhere in the tick.                  *)
TickError ==
  /\ pc # "asleep" /\ history.errors < MaxErrors
  /\ Sleep(InWindow)
  /\ history' = [history EXCEPT !.errors = @ + 1]
  /\ UNCHANGED <<world, liq, flattening, memory>>

(* The process dies and is started again: its memory is gone.               *)
Restart ==
  /\ pc' = "asleep" /\ left' = 0 /\ wake' = FALSE
  /\ clk' = NoClock
  /\ cache' = NoDay
  /\ snapshot' = <<0, FALSE>>
  /\ fired' = 0 /\ checked' = 0
  /\ UNCHANGED <<world, liq, flattening, history>>

(* What a tick leaves alone whatever it decides.                            *)
TickLeaves == UNCHANGED <<world, cache>>

(* The book has been looked at by a rule that drives.                       *)
Driven ==
  history' = [history EXCEPT !.blind = 0, !.ignored = 0, !.riding = 0,
                             !.tended = @ \/ TimeOf(now) >= Open + Grace]

(* Fire unless a working liquidation covers the position; the pass may or   *)
(* may not get one working.                                                 *)
drive == liq' \in {liq, liq \/ (exposed /\ IsOpen(now))} /\ Driven

-----------------------------------------------------------------------------
(* Rule 1: the operator's flatten.                                          *)

NoKillFlatten ==
  /\ pc = "kill" /\ ~flattening
  /\ pc' = "rules"
  /\ TickLeaves /\ UNCHANGED <<liq, flattening, left, wake, clk, snapshot, fired, checked, history>>

KillVerified ==
  /\ pc = "kill" /\ flattening /\ ~exposed
  /\ flattening' = FALSE
  /\ pc' = "rules"
  /\ TickLeaves /\ UNCHANGED <<liq, left, wake, clk, snapshot, fired, checked, history>>

KillMarketClosed ==
  /\ pc = "kill" /\ flattening /\ exposed /\ ~clk.open
  /\ pc' = "rules"
  /\ TickLeaves /\ UNCHANGED <<liq, flattening, left, wake, clk, snapshot, fired, checked, history>>

DriveKillFlatten ==
  /\ pc = "kill" /\ flattening /\ exposed /\ clk.open
  /\ drive
  /\ Sleep(InWindow)
  /\ TickLeaves /\ UNCHANGED <<flattening, snapshot, fired, checked>>

-----------------------------------------------------------------------------
(* The standing rules, for the date of the clock that was read.             *)

date == DayOf(clk.at)
rth_open == OpenOf(date)

(* Mutant: only the calendar's close, as cached.                            *)
rth_close_cached == (date - 1) * DayLen + cache[2]

(* The live clock's close wins while the market is open and it is earlier.  *)
rth_close ==
  (date - 1) * DayLen + IF clk.open /\ clk.close < cache[2] THEN clk.close ELSE cache[2]
flatten_at == rth_close - Buffer

InRules == pc = "rules" /\ TickLeaves /\ UNCHANGED flattening

Holiday ==
  /\ InRules /\ date \notin Sessions
  /\ Sleep(sleep_toward(next_open(clk.at)))
  /\ UNCHANGED <<liq, snapshot, fired, checked, history>>

PreOpen ==
  /\ InRules /\ date \in Sessions /\ clk.at < rth_open
  /\ snapshot' = <<date, exposed>>
  /\ Sleep(sleep_toward(rth_open))
  /\ UNCHANGED <<liq, fired, checked, history>>

Intraday == InRules /\ date \in Sessions /\ rth_open <= clk.at /\ clk.at < flatten_at

(* Done for the day, closed, or before the opening auction has printed.     *)
NextOpenWaits ==
  /\ Intraday
  /\ date = fired \/ ~clk.open \/ clk.at < rth_open + Grace
  /\ Sleep(sleep_toward(flatten_at))
  /\ UNCHANGED <<liq, snapshot, fired, checked, history>>

NextOpenDue == Intraday /\ date # fired /\ clk.open /\ clk.at >= rth_open + Grace

exposure_predates == lot = None \/ lot < date

(* Mutant: the last verdict, whatever date it is for.                       *)
stale_any_date == snapshot[2] \/ (snapshot[1] = 0 /\ exposure_predates)

(* The pre-open verdict of this very date, else the lots.                   *)
stale == IF snapshot[1] = date THEN snapshot[2] ELSE exposure_predates

NextOpenDone ==
  /\ NextOpenDue /\ ~(exposed /\ stale)
  /\ fired' = date
  /\ history' = [history EXCEPT !.leftover = @ /\ date # DayOf(now)]
  /\ Sleep(sleep_toward(flatten_at))
  /\ UNCHANGED <<liq, snapshot, checked>>

(* Mutant: no fast cadence while it drives.                                 *)
NextOpenFlattenFar ==
  /\ NextOpenDue /\ exposed /\ stale
  /\ drive
  /\ Sleep(sleep_toward(flatten_at))
  /\ UNCHANGED <<snapshot, fired, checked>>

NextOpenFlatten ==
  /\ NextOpenDue /\ exposed /\ stale
  /\ drive
  /\ Sleep(InWindow)
  /\ UNCHANGED <<snapshot, fired, checked>>

(* Unconditional, every session.                                            *)
CloseWindow ==
  /\ InRules /\ date \in Sessions
  /\ flatten_at <= clk.at /\ clk.at < rth_close /\ clk.open
  /\ drive
  /\ Sleep(InWindow)
  /\ UNCHANGED <<snapshot, fired, checked>>

PostClose ==
  /\ InRules /\ date \in Sessions
  /\ flatten_at <= clk.at /\ ~(clk.at < rth_close /\ clk.open)
  /\ checked' = date
  /\ history' = [history EXCEPT !.alarmed = @ \/ (date # checked /\ exposed)]
  /\ Sleep(sleep_toward(next_open(clk.at)))
  /\ UNCHANGED <<liq, snapshot, fired>>

-----------------------------------------------------------------------------
Rule1 == NoKillFlatten \/ KillVerified \/ KillMarketClosed \/ DriveKillFlatten
StandingRules ==
  \/ Holiday \/ PreOpen \/ NextOpenWaits \/ NextOpenDone \/ NextOpenFlatten
  \/ CloseWindow \/ PostClose
World ==
  \/ Pass \/ Suspend \/ AmendClose \/ EntryFills \/ ExitFills \/ BookLot
  \/ LiquidationEnds \/ ApplyFlatten

Next == World \/ StartTick \/ Rule1 \/ StandingRules \/ TickError \/ Restart

Spec == Init /\ [][Next]_vars

-----------------------------------------------------------------------------
(* Properties.  None is claimed of a day the process slept through: they    *)
(* hold, or not, of a loop that runs.                                       *)

Slack == InWindow * history.errors

(* The close window, also one that an early close has moved, is never left  *)
(* unwatched for longer than its cadence: no chain of sleeps oversleeps it. *)
(* (And the whole state has its type.)                                      *)
WindowIsWatched == TypeOK /\ history.blind <= InWindow + Slack

(* While the operator's flatten is owed and can be executed it is driven at *)
(* the fast cadence, whenever it was asked for: a poke in the middle of a   *)
(* tick, an ask overnight, a restart.                                       *)
FlattenIsTended == history.ignored <= InWindow + Slack

(* A position that predates the session is driven no later than one full    *)
(* sleep after the open's grace, and from then on at the fast cadence until *)
(* it is gone, whatever becomes of each liquidation.                        *)
TendedWithin == IF history.tended THEN InWindow ELSE TickFar
StaleIsTended == history.riding <= TendedWithin + Slack

(* flatten_controller.py:277: exposure that predates the session is         *)
(* flattened right after the open.                                          *)
NextOpenIsPrompt == history.errors = 0 => history.riding <= InWindow

(* The next-open rule drives nothing on a day that began flat, nor once it  *)
(* has found gone what was carried in, unless the lots cannot tell: neither *)
(* yesterday's verdict nor this morning's is replayed on a later position,  *)
(* not by a suspension, not by a restart.  (Until it has looked again after *)
(* the leftover went, it drives whatever is held: EntriesAreSpared.  A tick *)
(* suspended between its clock and its book may judge by the wrong one.)    *)
FreshIsSpared ==
  [][NextOpenFlatten /\ date = DayOf(now) /\ ~history.torn => history.leftover \/ lot # opened]_vars

(* flatten_controller.py:213-214: the open-tick knows leftovers from        *)
(* legitimate same-session entries.  When the rule is about to drive what   *)
(* the lots say was opened today, it does not.                              *)
EntriesAreSpared ==
  ~history.torn /\ opened = DayOf(now) /\ lot = opened => ~ENABLED NextOpenFlatten

(* A position that survives the close has raised the alarm by midnight,     *)
(* whatever failed at the bell.                                             *)
OvernightIsAlarmed ==
  [][Pass /\ DayOf(now') # DayOf(now) /\ InSession(now) /\ exposed /\ ~history.slept
       => history.alarmed]_vars
-----------------------------------------------------------------------------
(* The inductive invariant (FlattenScheduleProofs).                         *)

today == DayOf(now)
Old == exposed /\ opened < today

(* What a tick knows is true of the instant it began, and that is now       *)
(* unless it was suspended; a suspension over midnight leaves it at         *)
(* midnight.                                                                *)
TickInv ==
  /\ history.torn => history.slept
  /\ left <= TickFar
  /\ pc # "asleep" =>
       /\ left = 0 /\ clk.at <= now
       /\ history.torn \/ clk.at = now \/ (clk.at < now /\ TimeOf(now) = 0)
       /\ clk.at = now => /\ clk.open = IsOpen(now)
                          /\ \/ clk.close = close
                             \/ clk.close = Close /\ TimeOf(now) + Notice <= Early
       /\ date \in Sessions => cache[1] = date
       /\ snapshot[1] <= date
  /\ pc = "rules" => ~flattening \/ wake \/ ~clk.open
  /\ cache[1] <= today /\ (cache[1] = today => close <= cache[2])

(* An old position is a leftover, and neither the snapshot, nor the lots,   *)
(* nor what has been done today says otherwise; a snapshot that saw one is  *)
(* spent when the date is done.                                             *)
BookInv ==
  /\ opened <= today /\ lot <= today
  /\ lot = today => opened \in {None, today}
  /\ opened = today => InSession(now) /\ TimeOf(now) >= Open
  /\ Old => history.leftover
  /\ snapshot[1] <= today /\ fired <= today /\ checked <= today
  /\ Old => fired # today /\ (snapshot[1] = today => snapshot[2])
  /\ ~history.torn /\ snapshot[1] = today /\ snapshot[2] => history.leftover \/ fired = today

(* What is counted is counted from the instant it can happen ...            *)
Counts ==
  /\ history.blind > 0 => InSession(now) /\ TimeOf(now) > close - Buffer
  /\ history.ignored > 0 => InSession(now) /\ TimeOf(now) > Open
  /\ history.riding > 0 => InSession(now) /\ TimeOf(now) > Open + Grace
  /\ history.tended => TimeOf(now) >= Open + Grace
  /\ history.blind <= InWindow + Slack
  /\ history.ignored <= InWindow + Slack
  /\ history.riding <= TendedWithin + Slack

(* ... and a sleep ends before the count is too high: it is a short one, or *)
(* ends about when the counting begins, or no counting comes any more.      *)
Before(t) == TimeOf(now) <= t /\ TimeOf(now) + left <= t + InWindow
Closed == TimeOf(now) >= close
Alarmed == Closed /\ (exposed => history.alarmed)

SleepInv ==
  InSession(now) /\ ~history.slept =>
    /\ history.blind + left <= InWindow + Slack \/ Before(close - Buffer) \/ Closed
    /\ history.ignored + left <= InWindow + Slack \/ wake \/ ~flattening \/ Before(Open) \/ Closed
    /\ history.riding + left <= TendedWithin + Slack \/ ~Old \/ Closed
    /\ TimeOf(now) + left <= Close + InWindow + Slack \/ Alarmed
    /\ checked = today => Alarmed

IInv == TypeOK /\ TickInv /\ BookInv /\ Counts /\ SleepInv
=============================================================================
