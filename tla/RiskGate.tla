------------------------------ MODULE RiskGate -----------------------------
(***************************************************************************)
(* From a bar to an order: the probe strategy, the event bus with its one   *)
(* consumer, the risk stage and the execution stage's row, against the      *)
(* trades the broker executes and the lots the fill stream books.           *)
(*                                                                         *)
(* The strategy and the bus live in memory; order rows, lots, lot closes    *)
(* and equity snapshots are in the database.  Every control is computed     *)
(* from the database and the broker's account, so an approved order counts  *)
(* for nothing until it has filled and the fill is booked.                  *)
(*                                                                         *)
(* Time is the minute: it begins with the bars of some of the symbols, in    *)
(* some order, for market data is lossy.  One strategy, whose signals are   *)
(* market day orders: the checks on order type, time in force and extended  *)
(* hours pass, and the broker fills what it takes at once.  Exits may scale *)
(* out.  Prices move by one unit a share, up or down, and the stop is one   *)
(* unit away.  The halt composite belongs to other modules: here it may     *)
(* answer anything.  One thing is assumed that nothing in the code ensures: *)
(* the bus has drained before a minute ends, so no signal or order waits    *)
(* into the next (NextMinute).                                              *)
(***************************************************************************)
EXTENDS Integers, Sequences, FiniteSets, SequencesExt

CONSTANTS
  Symbols,
  MaxEntries,      \* the strategy's max_entries_per_session
  MaxPositions,    \* the strategy row's max_positions
  StrategyPct, UnprovenPct, CeilingPct, Proven,  \* risk per trade
  DayMultiple,     \* daily loss limit, in per-trade risks
  PortfolioPct,    \* daily loss limit of the portfolio
  MaxLosses,       \* max_consecutive_losses
  HalvePct, HaltPct,  \* the drawdown ladder
  Cooldown,        \* symbol_cooldown_seconds, in minutes
  Headroom,        \* margin_headroom_factor, in percent
  Price,           \* of a share
  Power,           \* the account's buying power with an empty book
  Equity0,         \* equity at the start
  DayLen, Buffer,  \* minutes of a session; of the flatten buffer
  MaxMinute, MaxTrades, MaxCrashes  \* bounds

ASSUME RiskAssumption ==
  /\ IsFiniteSet(Symbols)
  /\ {MaxEntries, MaxPositions, MaxLosses, DayLen, Price, Equity0} \subseteq Nat \ {0}
  /\ {StrategyPct, UnprovenPct, CeilingPct, DayMultiple, PortfolioPct, HalvePct, HaltPct,
      Cooldown, Headroom, Power, Buffer, MaxMinute, MaxTrades, MaxCrashes} \subseteq Nat
  /\ Proven \in BOOLEAN

VARIABLES
  now,      \* the minute
  up,       \* is the engine running (and the book reconciled)?
  bus,      \* the event queue
  stage,    \* what the bus's one consumer is in the middle of
  days,     \* the probe's _day_state, by symbol
  orders,   \* entry rows in creation order
  trades,   \* what the broker executed, in order: entries and exits
  booked,   \* how many of them the trade-updates writer has booked
  peak,     \* the highest equity snapshot
  crashes,
  began     \* how many trades were executed and booked when the minute began

memory == <<bus, stage, days>>
book == <<orders, trades, booked>>
vars == <<now, up, memory, book, peak, crashes, began>>

DayOf(m) == m \div DayLen
Today == DayOf(now)

Bar(s) == [kind |-> "bar", sym |-> s]
Signal(s) == [kind |-> "signal", sym |-> s]
Order(s, q) == [kind |-> "order", sym |-> s, qty |-> q]

Idle == [pc |-> "idle"]
NoDay == [day |-> -1, entries |-> 0]

(* status: "pending" (persisted), "held" (filled at the broker) or "dead"   *)
(* (refused or never sent); at: the minute of the row and of its fill.      *)
Row(s, q) == [sym |-> s, at |-> now, qty |-> q, status |-> "pending"]

(* qty is positive for the entry, negative for an exit.                     *)
Trade(o, q, pnl) == [order |-> o, qty |-> q, pnl |-> pnl, day |-> Today]

(* The bars of a minute.                                                    *)
Bars == {[k \in DOMAIN f |-> Bar(f[k])] : f \in UNION {SetToSeqs(S) : S \in SUBSET Symbols}}

Init ==
  /\ now = 0 /\ up = TRUE
  /\ bus \in Bars /\ stage = Idle /\ days = [s \in Symbols |-> NoDay]
  /\ orders = <<>> /\ trades = <<>> /\ booked = 0
  /\ peak = Equity0 /\ crashes = 0 /\ began = [executed |-> 0, booked |-> 0]

-----------------------------------------------------------------------------
(* The broker's view and the book's view of the same trades: the first n    *)
(* of them, with n all that were executed or all that are booked.           *)

Executed == Len(trades)

Of(o, n) == {i \in 1 .. n : trades[i].order = o}
PnL(I) == SumFunctionOnSet([i \in DOMAIN trades |-> trades[i].pnl], I)
Left(o, n) == SumFunctionOnSet([i \in DOMAIN trades |-> trades[i].qty], Of(o, n))
Open(n) == {o \in DOMAIN orders : Left(o, n) > 0}
OfDay(d, n) == {i \in 1 .. n : trades[i].day = d}

Equity == Equity0 + PnL(1 .. Executed)
SessionEquity == Equity - PnL(OfDay(Today, Executed))

MarketValue ==
  Price * SumFunctionOnSet([o \in DOMAIN orders |-> Left(o, Executed)], Open(Executed))
BuyingPower == Power - MarketValue

(* The lots the strategy holds in a symbol.                                 *)
OpenLots(s) == {o \in Open(booked) : orders[o].sym = s}

-----------------------------------------------------------------------------
(* RiskStateProvider: what the controls see of the database.                *)

(* A lot's closed_at is its last close, its realized_pnl their sum.         *)
ClosedLots(n) == {o \in DOMAIN orders : Of(o, n) # {} /\ Left(o, n) = 0}
ClosedAt(o, n) == Max(Of(o, n))

day_realized_pnl == PnL(OfDay(Today, booked))

open_positions_count == Cardinality({orders[o].sym : o \in Open(booked)})

(* The trailing run of losing lots.                                         *)
streak(n) ==
  Cardinality({o \in ClosedLots(n) :
    \A p \in ClosedLots(n) : ClosedAt(p, n) >= ClosedAt(o, n) => PnL(Of(p, n)) < 0})

consecutive_losses == streak(booked)

strategy_open_qty(s) ==
  SumFunctionOnSet([o \in DOMAIN orders |-> Left(o, booked)], OpenLots(s))

lots_opened(s) == {orders[o].at : o \in {p \in DOMAIN orders : Of(p, booked) # {} /\ orders[p].sym = s}}

(* Mutant: the peak is where the account is now.                            *)
peak_of_now(equity) == equity

peak_equity(equity) == Max({peak, equity})

-----------------------------------------------------------------------------
(* The controls.  account is the broker's answer of a moment ago.           *)

effective_risk_pct == Min({CeilingPct, StrategyPct} \cup (IF Proven THEN {} ELSE {UnprovenPct}))

DrawnDown(equity, pct) == (peak_equity(equity) - equity) * 100 >= pct * peak_equity(equity)

(* Risk per trade over the stop distance of one unit, halved by the ladder, *)
(* rounded down to whole shares.                                            *)
size_position(equity) ==
  (equity * effective_risk_pct) \div (100 * (IF DrawnDown(equity, HalvePct) THEN 2 ELSE 1))

check_session_open == now % DayLen < DayLen - Buffer

(* pnl has fallen by the limit; a limit of nothing is no limit.             *)
HitLimit(pnl, limit) == limit > 0 /\ pnl * 100 <= -limit

(* Mutant: only what is booked is lost.                                     *)
check_daily_loss_booked(account) ==
  ~HitLimit(day_realized_pnl, DayMultiple * account.equity * effective_risk_pct)

check_daily_loss(account) ==
  /\ ~HitLimit(day_realized_pnl, DayMultiple * account.equity * effective_risk_pct)
  /\ ~HitLimit(account.equity - account.last, PortfolioPct * account.equity)

check_consecutive_losses == consecutive_losses < MaxLosses
check_drawdown_halt(account) == ~DrawnDown(account.equity, HaltPct)

(* Mutant: one too many.                                                    *)
check_max_positions_reached == open_positions_count <= MaxPositions

check_max_positions == open_positions_count < MaxPositions

check_no_pyramiding(s) == strategy_open_qty(s) = 0

check_cooldown(s) == lots_opened(s) # {} => now - Max(lots_opened(s)) >= Cooldown

check_margin_headroom(account, qty) ==
  (account.held + qty * Price) * 100 <= account.power * Headroom

approved(account, s, qty) ==
  /\ qty >= 1
  /\ check_session_open
  /\ check_daily_loss(account)
  /\ check_consecutive_losses
  /\ check_drawdown_halt(account)
  /\ check_max_positions
  /\ check_no_pyramiding(s)
  /\ check_cooldown(s)
  /\ check_margin_headroom(account, qty)

-----------------------------------------------------------------------------
(* The event bus: first in, first out, one consumer.                        *)

Heads(kind) == up /\ stage = Idle /\ bus # <<>> /\ Head(bus).kind = kind

(* Mutant: a restart forgets the entries of the session.                    *)
entries_in_memory(s) == 0

(* Every entry row of the session counts, whatever became of it.            *)
entries_already_today(s) ==
  Cardinality({o \in DOMAIN orders : orders[o].sym = s /\ DayOf(orders[o].at) = Today})

slot_left(count) == count < MaxEntries

(* The probe: the first bar of a day seeds the count from the database; the *)
(* slot is taken before the signal is out.                                  *)
OnBar ==
  /\ Heads("bar")
  /\ LET s == Head(bus).sym
         count == IF days[s].day = Today THEN days[s].entries ELSE entries_already_today(s)
         fires == slot_left(count)
     IN /\ days' = [days EXCEPT ![s] = [day |-> Today,
                                        entries |-> IF fires THEN count + 1 ELSE count]]
        /\ bus' = IF fires THEN Append(Tail(bus), Signal(s)) ELSE Tail(bus)
  /\ UNCHANGED <<now, up, stage, book, peak, crashes, began>>

(* The count of the session's rows cannot be had: the bus logs the bar's    *)
(* exception, and the next bar of the day asks again.                       *)
OnBarError ==
  /\ Heads("bar")
  /\ days[Head(bus).sym].day # Today
  /\ bus' = Tail(bus)
  /\ UNCHANGED <<now, up, stage, days, book, peak, crashes, began>>

(* _on_signal: the account is read ...                                      *)
LoadAccount ==
  /\ Heads("signal")
  /\ stage' = [pc |-> "risk", sym |-> Head(bus).sym, equity |-> Equity,
               last |-> SessionEquity, held |-> MarketValue, power |-> BuyingPower]
  /\ bus' = Tail(bus)
  /\ UNCHANGED <<now, up, days, book, peak, crashes, began>>

(* ... then the database; the verdict is audited, the order published.  A   *)
(* halted engine rejects; an error is audited and drops the signal.         *)
Evaluate(dropped) ==
  /\ stage.pc = "risk"
  /\ LET qty == size_position(stage.equity)
     IN bus' = IF ~dropped /\ approved(stage, stage.sym, qty)
               THEN Append(bus, Order(stage.sym, qty)) ELSE bus
  /\ stage' = Idle
  /\ UNCHANGED <<now, up, days, book, peak, crashes, began>>

(* _on_order: suppressed if halted by now, else the row is committed ...    *)
PersistOrSuppress(halted) ==
  /\ Heads("order")
  /\ bus' = Tail(bus)
  /\ IF halted THEN UNCHANGED <<stage, orders>>
     ELSE /\ orders' = Append(orders, Row(Head(bus).sym, Head(bus).qty))
          /\ stage' = [pc |-> "submit"]
  /\ UNCHANGED <<now, up, days, trades, booked, peak, crashes, began>>

(* ... and submitted; the broker takes and fills it, or refuses it.         *)
Submit(taken) ==
  /\ stage.pc = "submit"
  /\ taken => Executed < MaxTrades /\ BuyingPower >= Price * orders[Len(orders)].qty
  /\ orders' = [orders EXCEPT ![Len(orders)].status = IF taken THEN "held" ELSE "dead"]
  /\ trades' = IF taken THEN Append(trades, Trade(Len(orders), orders[Len(orders)].qty, 0)) ELSE trades
  /\ stage' = Idle
  /\ UNCHANGED <<now, up, bus, days, booked, peak, crashes, began>>

-----------------------------------------------------------------------------
(* The market, the fill stream, the reconcile.                              *)

(* Part or all of a position is stopped out or taken profit on.             *)
BrokerExit(o, k, gain) ==
  /\ o \in Open(Executed) /\ k <= Left(o, Executed)
  /\ Executed < MaxTrades
  /\ trades' = Append(trades, Trade(o, -k, IF gain THEN k ELSE -k))
  /\ UNCHANGED <<now, up, memory, orders, booked, peak, crashes, began>>

(* The trade-updates writer, in the order of the stream.                    *)
BookTrade ==
  /\ up /\ booked < Executed
  /\ booked' = booked + 1
  /\ UNCHANGED <<now, up, memory, orders, trades, peak, crashes, began>>

(* A minute passes: the bus has drained, which is an assumption about the   *)
(* engine's speed; fills may still be unbooked.                             *)
NextMinute ==
  /\ now < MaxMinute
  /\ bus = <<>> /\ stage = Idle
  /\ now' = now + 1
  /\ bus' \in IF up THEN Bars ELSE {<<>>}
  /\ began' = [executed |-> Executed, booked |-> booked]
  /\ UNCHANGED <<up, stage, days, book, peak, crashes>>

Crash ==
  /\ up /\ crashes < MaxCrashes
  /\ crashes' = crashes + 1
  /\ up' = FALSE
  /\ bus' = <<>> /\ stage' = Idle /\ days' = [s \in Symbols |-> NoDay]
  /\ UNCHANGED <<now, book, peak, began>>

(* reconcile_portfolio: an equity snapshot, and everything executed so far  *)
(* booked; a row whose order never reached the broker ages out.  At boot it *)
(* comes before the first bar.                                              *)
Reconcile ==
  /\ stage.pc # "submit"
  /\ up' = TRUE
  /\ peak' = Max({peak, Equity})
  /\ booked' = Executed
  /\ orders' = [o \in DOMAIN orders |->
                  [orders[o] EXCEPT !.status = IF @ = "pending" THEN "dead" ELSE @]]
  /\ UNCHANGED <<now, memory, trades, crashes, began>>

-----------------------------------------------------------------------------
EngineStep ==
  \/ OnBar \/ OnBarError \/ LoadAccount
  \/ \E b \in BOOLEAN : Evaluate(b) \/ PersistOrSuppress(b) \/ Submit(b)

WorldStep ==
  \/ \E o \in DOMAIN orders : \E k \in 1 .. orders[o].qty, b \in BOOLEAN : BrokerExit(o, k, b)
  \/ BookTrade \/ NextMinute \/ Reconcile

Next == EngineStep \/ WorldStep \/ Crash
Spec == Init /\ [][Next]_vars
-----------------------------------------------------------------------------
(* PROPERTIES                                                               *)

(* The whole state has its type, and the book never runs ahead: every trade *)
(* is of a row, no exit precedes its entry or closes more than it opened.   *)
TypeOK ==
  /\ now \in 0 .. MaxMinute /\ up \in BOOLEAN
  /\ crashes \in 0 .. MaxCrashes /\ peak >= Equity0
  /\ \A k \in DOMAIN bus : bus[k].kind \in {"bar", "signal", "order"} /\ bus[k].sym \in Symbols
  /\ stage.pc \in {"idle", "risk", "submit"} /\ (stage # Idle => up)
  /\ \A s \in Symbols : days[s].day \in -1 .. Today /\ days[s].entries \in 0 .. MaxEntries
  /\ \A o \in DOMAIN orders :
       /\ orders[o].sym \in Symbols /\ orders[o].at \in 0 .. now /\ orders[o].qty \in Nat \ {0}
       /\ orders[o].status \in {"pending", "held", "dead"}
       /\ (Of(o, Executed) # {}) = (orders[o].status = "held")
       /\ Left(o, booked) \in 0 .. orders[o].qty
  /\ began.booked \in 0 .. booked /\ began.executed \in 0 .. Executed /\ booked <= Executed

(* However often the engine dies, a symbol gets at most max_entries_per_    *)
(* session entry rows a day: memory counts what it has emitted, the rows    *)
(* seed the count of a new process (probe.py's session bound).              *)
SessionBound ==
  \A s \in Symbols, d \in 0 .. Today :
    Cardinality({o \in DOMAIN orders : orders[o].sym = s /\ DayOf(orders[o].at) = d}) <= MaxEntries

EntriesBounded == TypeOK /\ SessionBound

(* The entry row of this step, if it is one.                                *)
Enters == Len(orders') > Len(orders)
Entered == orders'[Len(orders')]

(* Nothing was executed or booked since the minute began.                   *)
Quiet == began = [executed |-> Executed, booked |-> booked]

(* The lots that stood open in the book through the minute so far.          *)
OpenThrough == Open(began.booked) \cap Open(booked)

(* No entry row is written while max_positions symbols, or this one, have   *)
(* stood open in the book since the minute began: the signal may have       *)
(* waited on either side of the account's answer, the audit and the bus.    *)
PositionCap ==
  [][Enters => /\ Cardinality({orders[o].sym : o \in OpenThrough}) < MaxPositions
               /\ \A o \in OpenThrough : orders[o].sym # Entered.sym]_vars

(* A session whose booked loss, or whose account, is beyond its limit takes *)
(* no further entry in a quiet minute, nor does a strategy whose last       *)
(* max_consecutive_losses lots, in the order they were closed, all lost:    *)
(* the limits are computed from lot closes and the broker's equity, never   *)
(* from memory, and hold across restarts.                                   *)
LossesStop ==
  [][Enters /\ Quiet =>
       /\ ~HitLimit(PnL(OfDay(Today, booked)), DayMultiple * Equity * effective_risk_pct)
       /\ ~HitLimit(PnL(OfDay(Today, Executed)), PortfolioPct * Equity)
       /\ streak(booked) < MaxLosses]_vars

(* An entry row is written only while the account stands less than the halt *)
(* rung below its highest snapshot, for at most the clamped risk of the     *)
(* account, halved from the halve rung down: the snapshots survive a crash. *)
LadderHolds ==
  [][Enters /\ Quiet =>
       LET fall == (peak - Equity) * 100
           pct == IF Proven THEN StrategyPct ELSE UnprovenPct
       IN /\ fall < HaltPct * peak
          /\ Entered.qty * 100 * (IF fall >= HalvePct * peak THEN 2 ELSE 1) <= pct * Equity]_vars
=============================================================================
