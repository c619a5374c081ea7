------------------------------ MODULE LotBook ------------------------------
(***************************************************************************)
(* The money side of a symbol: the FIFO lot ledger, the parked remainders   *)
(* of strategy-less liquidations and the net Position row, kept by two      *)
(* transactions that overlap -- the trade-updates writer (one event at a    *)
(* time) and the engine's reconcile (all orders of the portfolio in one     *)
(* transaction) -- and by the API sync.                                     *)
(*                                                                         *)
(* Postgres runs them at READ COMMITTED.  Order rows and the lots a fill    *)
(* matches are locked FOR UPDATE until the end of the transaction; a lot    *)
(* inserted by an open transaction is invisible to the other one, and the   *)
(* Position row is read without a lock.  book is the committed state, view  *)
(* what the reconcile transaction sees: the same plus its own writes.       *)
(*                                                                         *)
(* The stream has no replay: an event may be applied never, late, out of    *)
(* order or twice, so stream is every event ever emitted and the writer     *)
(* takes any of them.  Row states, fill keys and lookups that fail are in   *)
(* OrderLedger; here a row is its filled quantity and whether it is final.  *)
(*                                                                         *)
(* Every order executes at one price, so a close's P&L is determined by     *)
(* which lot was closed by which order for how many shares.                 *)
(***************************************************************************)
EXTENDS Integers, FiniteSets, FiniteSetsExt, Functions

CONSTANTS
  Orders,       \* the orders of one symbol
  Shares,       \* shares each order asks for; a liquidation, at most
  Strategy,     \* the strategy an order belongs to, or NoStrategy
  NoStrategy,   \* a flatten liquidation: closes every strategy's lots
  Buys,         \* the orders that buy
  Cancelable,   \* the orders the broker may cancel (a bound)
  Late,         \* the orders that may be persisted while a reconcile runs (a bound)
  AlertCycles,  \* failed retries before a remainder is escalated
  MaySync,      \* does the API sync run as well?
  MaxTime,      \* bound on the clock
  MaxAborts,    \* bound on transactions that fail for an outside reason
  MaxGlitches   \* bound on empty position lists from a broker that holds

ASSUME OrdersAssumption ==
  /\ IsFiniteSet(Orders) /\ Buys \subseteq Orders /\ Cancelable \subseteq Orders
  /\ Late \subseteq Orders
  /\ Shares \in [Orders -> Nat \ {0}]
  /\ \A o \in Buys : Strategy[o] # NoStrategy
ASSUME BoundsAssumption ==
  /\ AlertCycles \in Nat \ {0} /\ MaySync \in BOOLEAN /\ MaxTime \in Nat
  /\ MaxAborts \in Nat /\ MaxGlitches \in Nat

VARIABLES
  now,       \* the clock the broker stamps prints with
  cum,       \* broker: shares of each order executed
  over,      \* broker: orders that are filled or canceled
  stream,    \* broker: the trade-update events emitted so far
  book,      \* committed: fill ledger, order rows, lots, parked remainders
  view,      \* the reconcile transaction's view of the same
  position,  \* the Position row's signed quantity (0: there is no row)
  w,         \* the trade-updates writer's transaction
  r,         \* the reconcile transaction
  aborts, glitches

broker == <<now, cum, over, stream>>
bounds == <<aborts, glitches>>
vars == <<broker, book, view, position, w, r, bounds>>

Time == 0 .. MaxTime
Update == [order : Orders, qty : Nat, cum : Nat, at : Time, over : BOOLEAN]

Lot == [order : Orders, orig : Nat, open : Nat, opened : Time]
Anomaly == [order : Orders, qty : Nat, at : Time, open : BOOLEAN, fails : 0 .. AlertCycles]

IsBook(b) ==
  /\ b.booked \in [Orders -> Nat]
  /\ b.row \in [Orders -> [filled : Nat, final : BOOLEAN]]
  /\ \A i \in DOMAIN b.lots : b.lots[i] \in Lot
  /\ DOMAIN b.closes = DOMAIN b.lots
  /\ \A i \in DOMAIN b.lots : b.closes[i] \in [Orders -> Nat]
  /\ \A a \in DOMAIN b.parked : b.parked[a] \in Anomaly

IdleWriter == [pc |-> "idle"]
IdleReconcile == [pc |-> "idle", value |-> FALSE, list |-> 0, real |-> [o \in Orders |-> 0],
                  at |-> 0, snap |-> <<>>, todo |-> {}, rows |-> {}, held |-> {}]

Signed(o, q) == IF o \in Buys THEN q ELSE -q
NetOf(c) == SumFunction([o \in Orders |-> Signed(o, c[o])])
Net == NetOf(cum)

Init ==
  /\ now = 0 /\ cum = [o \in Orders |-> 0] /\ over = {} /\ stream = {}
  /\ book = [booked |-> [o \in Orders |-> 0],
             row |-> [o \in Orders |-> [filled |-> 0, final |-> FALSE]],
             lots |-> <<>>, closes |-> <<>>, parked |-> <<>>]
  /\ view = book
  /\ position = 0
  /\ w = IdleWriter /\ r = IdleReconcile
  /\ aborts = 0 /\ glitches = 0

-----------------------------------------------------------------------------
(* apply_fill_to_lots.                                                      *)

(* Mutant: no time bound on what a liquidation closes.                      *)
open_lots_any_time(b, o, at, sees) ==
  {i \in DOMAIN b.lots \cap sees :
     /\ (b.lots[i].order \in Buys) # (o \in Buys)
     /\ b.lots[i].open > 0
     /\ Strategy[o] # NoStrategy => Strategy[b.lots[i].order] = Strategy[o]}

(* The open opposite lots a fill may consume: its own strategy's, or for a  *)
(* strategy-less fill every strategy's that was open when it printed.       *)
open_lots(b, o, at, sees) ==
  {i \in DOMAIN b.lots \cap sees :
     /\ (b.lots[i].order \in Buys) # (o \in Buys)
     /\ b.lots[i].open > 0
     /\ IF Strategy[o] = NoStrategy THEN b.lots[i].opened <= at
        ELSE Strategy[b.lots[i].order] = Strategy[o]}

Older(b, i, j) ==
  \/ b.lots[i].opened < b.lots[j].opened
  \/ b.lots[i].opened = b.lots[j].opened /\ i < j

OpenShares(b, S) == SumFunction([i \in S |-> b.lots[i].open])

(* FIFO: a lot gives what the older ones leave over.                        *)
consumed(b, m, i, qty) ==
  Min({b.lots[i].open, Max({0, qty - OpenShares(b, {j \in m : Older(b, j, i)})})})

(* qty_open is written as a value, a LotClose row is added.                 *)
Consume(b, o, qty, m) ==
  IF m = {} THEN b ELSE
  LET taken == [i \in m |-> consumed(b, m, i, qty)]
  IN [b EXCEPT
        !.lots = [i \in DOMAIN b.lots |->
                    IF i \in m THEN [b.lots[i] EXCEPT !.open = @ - taken[i]] ELSE b.lots[i]],
        !.closes = [i \in DOMAIN b.lots |->
                    IF i \in m THEN [b.closes[i] EXCEPT ![o] = @ + taken[i]] ELSE b.closes[i]]]

Remaining(b, qty, m) == Max({0, qty - OpenShares(b, m)})

NoCloses == [o \in Orders |-> 0]
NewLot(b) == 1 + Max(DOMAIN b.lots \cup DOMAIN view.lots \cup {0})
NewAnomaly(b) == 1 + Max(DOMAIN b.parked \cup DOMAIN view.parked \cup {0})
With(f, i, x) == [j \in DOMAIN f \cup {i} |-> IF j = i THEN x ELSE f[j]]

(* The remainder of a scoped fill opens a lot; a strategy-less one never    *)
(* does, it is parked.                                                      *)
open_or_park(b, o, rest, at) ==
  IF rest = 0 THEN b
  ELSE IF Strategy[o] = NoStrategy
  THEN [b EXCEPT !.parked = With(@, NewAnomaly(b),
          [order |-> o, qty |-> rest, at |-> at, open |-> TRUE, fails |-> 0])]
  ELSE [b EXCEPT
          !.lots = With(@, NewLot(b), [order |-> o, orig |-> rest, open |-> rest, opened |-> at]),
          !.closes = With(@, NewLot(b), NoCloses)]

apply_fill_to_lots(b, o, qty, at, sees) ==
  LET m == open_lots(b, o, at, sees)
  IN open_or_park(Consume(b, o, qty, m), o, Remaining(b, qty, m), at)

(* A Fill row and its effect on the lots; no row for no shares.             *)
record_fill(b, o, qty, at, sees) ==
  IF qty <= 0 THEN b
  ELSE [apply_fill_to_lots(b, o, qty, at, sees) EXCEPT !.booked[o] = @ + qty]

apply_snapshot(b, o, filled, final) ==
  IF b.row[o].final \/ filled < b.row[o].filled THEN b
  ELSE [b EXCEPT !.row[o] = [filled |-> filled, final |-> final]]

-----------------------------------------------------------------------------
(* The broker: never short, liquidations and exits sell what is held.       *)

Tick == now < MaxTime /\ now' = now + 1
        /\ UNCHANGED <<cum, over, stream, book, view, position, w, r, bounds>>

Emit(o, qty, c, final) ==
  stream' = stream \cup {[order |-> o, qty |-> qty, cum |-> c, at |-> now, over |-> final]}

(* An execution, the last one if the order asked for no more: a liquidation *)
(* asks for what was held when it was sent.                                 *)
BrokerFill(o, qty, last) ==
  /\ o \notin over /\ cum[o] + qty <= Shares[o]
  /\ cum[o] + qty = Shares[o] => last
  /\ last => cum[o] + qty = Shares[o] \/ Strategy[o] = NoStrategy
  /\ o \notin Buys => qty <= Net
  /\ cum' = [cum EXCEPT ![o] = @ + qty]
  /\ over' = IF last THEN over \cup {o} ELSE over
  /\ Emit(o, qty, cum'[o], last)
  /\ UNCHANGED <<now, book, view, position, w, r, bounds>>

BrokerCancel(o) ==
  /\ o \in Cancelable \ over
  /\ over' = over \cup {o}
  /\ Emit(o, 0, cum[o], TRUE)
  /\ UNCHANGED <<now, cum, book, view, position, w, r, bounds>>

Prints(o) == {u.at : u \in {v \in stream : v.order = o /\ v.qty > 0}}

(* filled_at: the broker sets it when the last share has printed.           *)
Filled(o) == \E u \in stream : u.order = o /\ u.qty > 0 /\ u.over
FilledAt(o, otherwise) == IF Filled(o) THEN Max(Prints(o)) ELSE otherwise

-----------------------------------------------------------------------------
(* The trade-updates writer.                                                *)

(* What an event adds to the ledger: the span it proves was missed, then    *)
(* the part of its own execution the cumulative leaves.  An execution that  *)
(* is already booked leaves nothing.                                        *)
Gap(b, u) == Max({0, u.cum - u.qty - b.booked[u.order]})
Effective(b, u) ==
  Max({0, Min({u.qty, u.cum - b.booked[u.order] - Gap(b, u)})})

record_execution(b, u, sees) ==
  record_fill(record_fill(b, u.order, Gap(b, u), u.at, sees),
              u.order, Effective(b, u), u.at, sees)

(* The same commit as the open reconcile sees it: the writer's row, the     *)
(* lots it locked and everything it inserted, next to its own writes.       *)
Closes(b, i) == IF i \in DOMAIN b.closes THEN b.closes[i] ELSE NoCloses

Seen(new, u) ==
  LET mine == w.held \cup (DOMAIN new.lots \ DOMAIN book.lots)
      fresh == DOMAIN new.parked \ DOMAIN book.parked
  IN [booked |-> [view.booked EXCEPT ![u.order] = new.booked[u.order]],
      row |-> [view.row EXCEPT ![u.order] = new.row[u.order]],
      lots |-> [i \in DOMAIN view.lots \cup mine |->
                  IF i \in mine THEN new.lots[i] ELSE view.lots[i]],
      closes |-> [i \in DOMAIN view.lots \cup mine |-> [o \in Orders |->
                    Closes(view, i)[o] + Closes(new, i)[o] - Closes(book, i)[o]]],
      parked |-> [a \in DOMAIN view.parked \cup fresh |->
                    IF a \in fresh THEN new.parked[a] ELSE view.parked[a]]]

(* _locate takes the row lock; nothing to book leaves the snapshot.         *)
ApplySnapshotOnly(u) ==
  /\ w = IdleWriter /\ u.order \notin r.rows
  /\ Gap(book, u) + Effective(book, u) = 0
  /\ view' = apply_snapshot(view, u.order, u.cum, u.over)
  /\ book' = apply_snapshot(book, u.order, u.cum, u.over)
  /\ UNCHANGED <<broker, position, w, r, bounds>>

Locate(u) ==
  /\ w = IdleWriter /\ u.order \notin r.rows
  /\ Gap(book, u) + Effective(book, u) > 0
  /\ w' = [pc |-> "lots", u |-> u, sees |-> DOMAIN book.lots, held |-> {}, pos |-> 0]
  /\ UNCHANGED <<broker, book, view, position, r, bounds>>

(* SELECT ... FOR UPDATE waits for the reconcile's lots, then rechecks the  *)
(* rows it saw; rows inserted meanwhile it does not see.                    *)
WantedLots == open_lots(book, w.u.order, w.u.at, w.sees)

(* Mutant: reads the lots without FOR UPDATE.                               *)
ReadLots ==
  /\ w.pc = "lots"
  /\ w' = [w EXCEPT !.pc = "commit", !.pos = position]
  /\ UNCHANGED <<broker, book, view, position, r, bounds>>

LockLots ==
  /\ w.pc = "lots"
  /\ WantedLots \cap r.held = {}
  /\ w' = [w EXCEPT !.pc = "commit", !.held = WantedLots, !.pos = position]
  /\ UNCHANGED <<broker, book, view, position, r, bounds>>

Booked(u) == Signed(u.order, Gap(book, u) + Effective(book, u))

(* The Position write is absolute.  A row both inserted is a unique         *)
(* violation, an UPDATE of a deleted row is a stale-data error: either      *)
(* rolls the event back.                                                    *)
PositionConflict ==
  \/ w.pos = 0 /\ position # 0
  \/ w.pos # 0 /\ position = 0 /\ w.pos + Booked(w.u) # 0

WriterCommit ==
  /\ w.pc = "commit" /\ ~PositionConflict
  /\ w' = IdleWriter
  /\ \E new \in {apply_snapshot(record_execution(book, w.u, w.sees), w.u.order, w.u.cum, w.u.over)} :
       book' = new /\ view' = Seen(new, w.u)
  /\ position' = w.pos + Booked(w.u)
  /\ UNCHANGED <<broker, r, bounds>>

WriterConflict ==
  /\ w.pc = "commit" /\ PositionConflict
  /\ w' = IdleWriter
  /\ UNCHANGED <<broker, book, view, position, r, bounds>>

WriterAbort ==
  /\ w.pc # "idle" /\ aborts < MaxAborts
  /\ aborts' = aborts + 1
  /\ w' = IdleWriter
  /\ UNCHANGED <<broker, book, view, position, r, glitches>>

-----------------------------------------------------------------------------
(* The reconcile transaction.                                               *)

WriterHas(o) == w.pc # "idle" /\ w.u.order = o
WriterHeld == IF w.pc = "commit" THEN w.held ELSE {}

(* get_account, then list_positions -- which may come back empty although   *)
(* shares are held -- then list_orders(open); then the local rows.          *)
ReadAccount ==
  /\ r.pc = "idle"
  /\ r' = [r EXCEPT !.pc = "positions", !.value = Net # 0]
  /\ UNCHANGED <<broker, book, view, position, w, bounds>>

ReadPositions(glitch) ==
  /\ r.pc = "positions"
  /\ glitch => Net # 0 /\ glitches < MaxGlitches
  /\ glitches' = IF glitch THEN glitches + 1 ELSE glitches
  /\ r' = [r EXCEPT !.pc = "orders", !.list = IF glitch THEN 0 ELSE Net, !.real = cum]
  /\ UNCHANGED <<broker, book, view, position, w, aborts>>

(* Mutant: only the orders the broker lists are adopted.                    *)
ReadOpenOrdersOnly ==
  /\ r.pc = "orders"
  /\ r' = [r EXCEPT !.pc = "adopt", !.at = now,
                    !.snap = [o \in Orders \ over |-> cum[o]],
                    !.todo = Orders \ over]
  /\ UNCHANGED <<broker, book, view, position, w, bounds>>

(* An order without an execution may be persisted only after this.          *)
ReadOrders ==
  /\ r.pc = "orders"
  /\ \E later \in SUBSET {o \in Late \ over : cum[o] = 0} :
       r' = [r EXCEPT !.pc = "adopt", !.at = now,
                      !.snap = [o \in Orders \ (over \cup later) |-> cum[o]],
                      !.todo = ((Orders \ over) \cup {o \in Orders : ~view.row[o].final}) \ later]
  /\ UNCHANGED <<broker, book, view, position, w, bounds>>

(* Broker truth onto one locked row, with the fills the ledger never saw.   *)
AdoptInto(b, o, target, final, stamp) ==
  LET m == open_lots(b, o, stamp, DOMAIN b.lots)
      missed == target - b.booked[o]
  IN /\ ~WriterHas(o)
     /\ missed > 0 => m \cap WriterHeld = {}
     /\ r' = [r EXCEPT !.todo = @ \ {o}, !.rows = @ \cup {o},
                       !.held = IF missed > 0 THEN @ \cup m ELSE @]
     /\ view' = apply_snapshot(record_fill(b, o, missed, stamp, DOMAIN b.lots),
                               o, target, final)
     /\ UNCHANGED <<broker, book, position, w, bounds>>

(* 1) the orders the broker listed as open, with the state in the list;     *)
(* 2) the other rows that are not final, with the state looked up now.      *)
AdoptListed(o) ==
  /\ r.pc = "adopt" /\ o \in r.todo \cap DOMAIN r.snap
  /\ AdoptInto(view, o, r.snap[o], FALSE, r.at)

AdoptLookedUp(o) ==
  /\ r.pc = "adopt" /\ o \in r.todo /\ r.todo \cap DOMAIN r.snap = {}
  /\ AdoptInto(view, o, cum[o], o \in over, FilledAt(o, r.at))

(* Mutant: no ledger-deficit sweep.                                         *)
SkipDeficits ==
  /\ r.pc = "adopt" /\ r.todo = {}
  /\ r' = [r EXCEPT !.pc = "sweep"]
  /\ UNCHANGED <<broker, book, view, position, w, bounds>>

(* 3) rows whose filled_qty exceeds the ledger, with the broker's state or, *)
(* when the broker does not know the order any more, up to the row's own    *)
(* filled_qty, stamped with its filled_at and with the row left as it is.   *)
ListDeficits ==
  /\ r.pc = "adopt" /\ r.todo = {}
  /\ r' = [r EXCEPT !.pc = "sweep",
                    !.todo = {o \in Orders : view.row[o].filled > view.booked[o]}]
  /\ UNCHANGED <<broker, book, view, position, w, bounds>>

sweep_ledger_deficits(o, known) ==
  /\ r.pc = "sweep" /\ o \in r.todo
  /\ LET row == view.row[o]
     IN IF known THEN AdoptInto(view, o, cum[o], o \in over, FilledAt(o, r.at))
        ELSE AdoptInto(view, o, row.filled, row.final,
                       IF row.final THEN FilledAt(o, r.at) ELSE r.at)

(* Mutant: a remainder is not retried once the operator was alerted.        *)
ListUnalerted ==
  /\ r.pc = "sweep" /\ r.todo = {}
  /\ r' = [r EXCEPT !.pc = "retry",
                    !.todo = {a \in DOMAIN view.parked :
                                view.parked[a].open /\ view.parked[a].fails < AlertCycles}]
  /\ UNCHANGED <<broker, book, view, position, w, bounds>>

(* 4) the parked remainders, oldest first.                                  *)
ListRemainders ==
  /\ r.pc = "sweep" /\ r.todo = {}
  /\ r' = [r EXCEPT !.pc = "retry",
                    !.todo = {a \in DOMAIN view.parked : view.parked[a].open}]
  /\ UNCHANGED <<broker, book, view, position, w, bounds>>

(* Mutant: a remainder applied in part stays open beside its residual.      *)
retried_unresolved(b, a) ==
  LET p == b.parked[a]
      m == open_lots(b, p.order, p.at, DOMAIN b.lots)
      rest == Remaining(b, p.qty, m)
  IN open_or_park([Consume(b, p.order, p.qty, m) EXCEPT !.parked[a].open = rest > 0],
                  p.order, IF rest = p.qty THEN 0 ELSE rest, p.at)

(* Applied in full: resolved.  In part: resolved, and a new smaller anomaly *)
(* carries the residual.  Not at all: one more failed cycle, and from       *)
(* AlertCycles on the operator has been alerted.                            *)
retried(b, a) ==
  LET p == b.parked[a]
      m == open_lots(b, p.order, p.at, DOMAIN b.lots)
      rest == Remaining(b, p.qty, m)
      closed == [Consume(b, p.order, p.qty, m) EXCEPT !.parked[a].open = FALSE]
  IN IF rest = p.qty
     THEN [b EXCEPT !.parked[a].fails = Min({@ + 1, AlertCycles})]
     ELSE open_or_park(closed, p.order, rest, p.at)

retry_unapplied_remainder(a) ==
  /\ r.pc = "retry" /\ r.todo # {} /\ a = Min(r.todo)
  /\ LET p == view.parked[a]
         m == open_lots(view, p.order, p.at, DOMAIN view.lots)
     IN /\ m \cap WriterHeld = {}
        /\ r' = [r EXCEPT !.todo = @ \ {a}, !.held = @ \cup m]
  /\ view' = retried(view, a)
  /\ UNCHANGED <<broker, book, position, w, bounds>>

(* Mutant: deletes what an empty list no longer reports, unchecked.         *)
reconcile_positions_trusting(list, value) == list

(* The Position row from the list read at the start; an empty list that     *)
(* contradicts the account's market value deletes nothing.                  *)
reconcile_positions(list, value) ==
  IF list = 0 /\ value /\ position # 0 THEN position ELSE list

ReconcileCommit ==
  /\ r.pc = "retry" /\ r.todo = {}
  /\ position' = reconcile_positions(r.list, r.value)
  /\ book' = view
  /\ r' = IdleReconcile
  /\ UNCHANGED <<broker, view, w, bounds>>

(* A broker error, a lost connection or a crash: nothing of it stays.       *)
ReconcileAbort ==
  /\ r.pc # "idle" /\ aborts < MaxAborts
  /\ aborts' = aborts + 1
  /\ view' = book /\ r' = IdleReconcile
  /\ UNCHANGED <<broker, book, position, w, glitches>>

(* The reconcile wants the order row the writer has while the writer waits  *)
(* for a lot the reconcile has: Postgres rolls one of the two back.         *)
WriterWaits == w.pc = "lots" /\ WantedLots \cap r.held # {}
ReconcileWaitsForRow ==
  /\ r.pc \in {"adopt", "sweep"}
  /\ \E o \in r.todo : WriterHas(o) /\ (r.todo \cap DOMAIN r.snap # {} => o \in DOMAIN r.snap)

Deadlocked == WriterWaits /\ ReconcileWaitsForRow

BreakDeadlock ==
  /\ Deadlocked
  /\ \/ w' = IdleWriter /\ UNCHANGED <<view, r>>
     \/ view' = book /\ r' = IdleReconcile /\ UNCHANGED w
  /\ UNCHANGED <<broker, book, position, bounds>>

(* POST /sync: the same reads and adoption without synthesis, so that a     *)
(* row may be final and ahead of its ledger; and the position overwrite.    *)
(* It waits for the rows the engine's transactions hold, unless it takes    *)
(* them for final already.  Its slow reads are in OrderLedger.              *)
SyncPortfolio ==
  /\ MaySync /\ \A o \in r.rows \cup {o \in Orders : WriterHas(o)} : book.row[o].final
  /\ LET synced(b) == [b EXCEPT !.row = [o \in Orders |->
                         apply_snapshot(b, o, cum[o], o \in over).row[o]]]
     IN view' = synced(view) /\ book' = synced(book)
  /\ position' = Net
  /\ UNCHANGED <<broker, w, r, bounds>>

-----------------------------------------------------------------------------
BrokerStep ==
  \/ Tick
  \/ \E o \in Orders :
       \/ BrokerCancel(o)
       \/ \E q \in 1 .. Shares[o], last \in BOOLEAN : BrokerFill(o, q, last)

WriterStep ==
  \/ \E u \in stream : ApplySnapshotOnly(u) \/ Locate(u)
  \/ LockLots \/ WriterCommit \/ WriterConflict

Adoption ==
  \E o \in Orders : \/ AdoptListed(o) \/ AdoptLookedUp(o)
                    \/ \E known \in BOOLEAN : sweep_ledger_deficits(o, known)

ReconcileStep ==
  \/ ReadAccount \/ ReadPositions(FALSE) \/ ReadOrders
  \/ Adoption \/ ListDeficits \/ ListRemainders
  \/ \E a \in DOMAIN view.parked : retry_unapplied_remainder(a)
  \/ ReconcileCommit

Next ==
  \/ BrokerStep \/ WriterStep \/ ReconcileStep \/ SyncPortfolio
  \/ ReadPositions(TRUE) \/ WriterAbort \/ ReconcileAbort \/ BreakDeadlock

Spec == Init /\ [][Next]_vars

(* The reconcile runs every minute for ever, a transaction that can go on   *)
(* does, and Postgres breaks a deadlock.  No event has to be delivered.     *)
FairSpec ==
  Spec /\ WF_vars(ReconcileStep) /\ WF_vars(BreakDeadlock)
       /\ WF_vars(LockLots \/ WriterCommit \/ WriterConflict)

-----------------------------------------------------------------------------
(* Properties.                                                              *)

TypeOK ==
  /\ now \in Time /\ cum \in [Orders -> Nat] /\ over \subseteq Orders
  /\ stream \subseteq Update
  /\ IsBook(book) /\ IsBook(view) /\ position \in Int
  /\ w.pc \in {"idle", "lots", "commit"}
  /\ r.pc \in {"idle", "positions", "orders", "adopt", "sweep", "retry"}
  /\ r.rows \subseteq Orders /\ r.held \subseteq DOMAIN view.lots
  /\ r.pc = "idle" => view = book

(* Every booked share of an order is in exactly one place: a lot it opened, *)
(* a lot it closed, or an open parked remainder.  Two transactions, the     *)
(* retry of a remainder, its residual, an abort or a redelivered event      *)
(* neither lose a share nor book it twice.                                  *)
InLots(b, o, i) == b.closes[i][o] + (IF b.lots[i].order = o THEN b.lots[i].orig ELSE 0)
InParked(b, o, a) == IF b.parked[a].order = o /\ b.parked[a].open THEN b.parked[a].qty ELSE 0

Accounted(b) ==
  \A o \in Orders : b.booked[o] = SumFunction([i \in DOMAIN b.lots |-> InLots(b, o, i)])
                                + SumFunction([a \in DOMAIN b.parked |-> InParked(b, o, a)])

SharesAccounted == Accounted(book) /\ Accounted(view)

(* What is open in a lot is what its closes leave: no lot is consumed twice *)
(* by the writer and the reconcile.                                         *)
Balanced(b) ==
  \A i \in DOMAIN b.lots : b.lots[i].orig = b.lots[i].open + SumFunction(b.closes[i])

LotsBalance == Balanced(book)

(* The ledger never runs ahead of the broker.                               *)
NeverOverbooked == \A o \in Orders : book.booked[o] <= cum[o]

(* The three together: the books balance, whoever wrote last.               *)
BooksBalance == TypeOK /\ SharesAccounted /\ LotsBalance /\ NeverOverbooked

(* A liquidation that executed in one piece never closes a lot opened after *)
(* it printed, whichever writer books the two and however late.  (In pieces *)
(* it may: a synthesized part of an open order is stamped with the time of  *)
(* the reconcile.)                                                          *)
InOnePiece(f) == \A u \in stream : u.order = f => u.over

LiquidationClosesOlder ==
  \A i \in DOMAIN book.lots : \A f \in Orders :
    Strategy[f] = NoStrategy /\ InOnePiece(f) /\ book.closes[i][f] > 0
      => book.lots[i].opened <= Max(Prints(f))

(* A reconcile never deletes the Position row of a symbol that was held     *)
(* from the account read to the position list, whatever the list said.      *)
HeldIsNeverWiped ==
  [][r.pc = "retry" /\ r'.pc = "idle" /\ position # 0 /\ position' = 0
       => ~(r.value /\ NetOf(r.real) # 0)]_vars

(* What the position list read at the start includes is booked by the time  *)
(* the overwrite commits, so that no later event or synthesis adds a share  *)
(* to the Position row that the overwrite brought already -- for rows that  *)
(* are open, looked up, or final and behind their ledger alike.             *)
OverwriteIsBooked ==
  r.pc = "retry" => \A o \in Orders : view.booked[o] >= r.real[o]

(* Once the broker is quiet everything it executed is booked and the        *)
(* Position row says what it holds, whatever was lost, rolled back or       *)
(* overwritten on the way.                                                  *)
BookConverges == <>[](position = Net /\ \A o \in Orders : book.booked[o] = cum[o])

(* No parked remainder is left that an open lot could absorb, not even one  *)
(* that has been escalated to the operator.                                 *)
RemaindersAreApplied ==
  <>[](\A a \in DOMAIN book.parked :
         LET p == book.parked[a]
         IN p.open => open_lots(book, p.order, p.at, DOMAIN book.lots) = {})

(* lots.py:205-206: a parked remainder is retried against the lots that     *)
(* appear later, "e.g. a synthesized missing entry" -- a liquidation never  *)
(* sells more than was bought, so a retry finds nothing to close only while *)
(* an execution is still missing from the ledger.                           *)
RetryFailsOnlyWhileMissing ==
  [][\A a \in DOMAIN view.parked \cap DOMAIN view'.parked :
       view'.parked[a].fails > view.parked[a].fails
         => \E o \in Orders : view.booked[o] < cum[o]]_vars

-----------------------------------------------------------------------------
(* The inductive invariant of the ledger (LotBookProofs).                   *)

HasLedger(b) ==
  /\ b = [booked |-> b.booked, row |-> b.row, lots |-> b.lots, closes |-> b.closes,
          parked |-> b.parked]
  /\ b.booked \in [Orders -> Nat]
  /\ b.row \in [Orders -> [filled : Nat, final : BOOLEAN]]

LedgerTypes ==
  /\ now \in Time
  /\ cum \in [Orders -> Nat] /\ over \in SUBSET Orders /\ stream \in SUBSET Update
  /\ HasLedger(book) /\ HasLedger(view)

Transactions ==
  /\ \/ w = IdleWriter
     \/ /\ w = [pc |-> w.pc, u |-> w.u, sees |-> w.sees, held |-> w.held, pos |-> w.pos]
        /\ w.pc \in {"lots", "commit"} /\ w.u \in stream
  /\ r = [pc |-> r.pc, value |-> r.value, list |-> r.list, real |-> r.real, at |-> r.at,
          snap |-> r.snap, todo |-> r.todo, rows |-> r.rows, held |-> r.held]
  /\ r.pc \in {"idle", "positions", "orders", "adopt", "sweep", "retry"}
  /\ r.real \in [Orders -> Nat] /\ r.rows \in SUBSET Orders

(* An event says no more than what happened, and one that ends its order    *)
(* says all of it.                                                          *)
EventsAreTrue ==
  \A u \in stream : /\ u.cum <= cum[u.order]
                    /\ u.over => u.order \in over /\ u.cum = cum[u.order]

RowsAreTrue(b) ==
  \A o \in Orders : /\ b.booked[o] <= cum[o] /\ b.row[o].filled <= cum[o]
                    /\ b.row[o].final => o \in over /\ b.row[o].filled = cum[o]

(* A row the reconcile has not locked is to it as it is committed, and the  *)
(* two transactions never have the same row.                                *)
RowsAreLocked ==
  /\ r.pc \in {"idle", "positions", "orders"} => r.rows = {}
  /\ \A o \in Orders : /\ o \notin r.rows => /\ view.booked[o] = book.booked[o]
                                            /\ view.row[o] = book.row[o]
                       /\ WriterHas(o) => o \notin r.rows

(* What the position list included is booked when its order has been        *)
(* adopted, at the latest by the deficit sweep when its row was final.      *)
ListIsBooked ==
  /\ r.pc \notin {"idle", "positions"} => \A o \in Orders : r.real[o] <= cum[o]
  /\ r.pc = "adopt" => \A o \in Orders :
       /\ o \in r.todo \cap DOMAIN r.snap =>
            r.snap[o] \in Nat /\ r.real[o] <= r.snap[o] /\ r.snap[o] <= cum[o]
       /\ o \in r.todo \/ r.real[o] <= view.booked[o] \/ view.row[o].final
  /\ r.pc = "sweep" => \A o \in Orders :
       r.real[o] <= view.booked[o] \/ (o \in r.todo /\ view.row[o].final)
  /\ r.pc = "retry" => \A o \in Orders : r.real[o] <= view.booked[o]

LedgerInv ==
  /\ LedgerTypes /\ Transactions /\ EventsAreTrue
  /\ RowsAreTrue(book) /\ RowsAreTrue(view) /\ RowsAreLocked /\ ListIsBooked

(* The inductive invariant of the lots.  The reconcile has locked whatever  *)
(* it changed and the writer whatever it is about to: the two books agree   *)
(* on every other lot, and on what is written once.                         *)
LotTypes(b) ==
  /\ b.lots \in [DOMAIN b.lots -> Lot]
  /\ b.closes \in [DOMAIN b.lots -> [Orders -> Nat]]
  /\ b.parked \in [DOMAIN b.parked -> Anomaly]
  /\ DOMAIN b.lots \in SUBSET Nat /\ IsFiniteSet(DOMAIN b.lots)
  /\ DOMAIN b.parked \in SUBSET Nat /\ IsFiniteSet(DOMAIN b.parked)

PositionTypes ==
  /\ position \in Int /\ r.list \in Int /\ r.at \in Time
  /\ w # IdleWriter => /\ w.pos \in Int /\ w.sees \in SUBSET DOMAIN book.lots
                       /\ w.held \in SUBSET DOMAIN book.lots

SharedLots ==
  /\ r.held \in SUBSET DOMAIN view.lots
  /\ DOMAIN book.lots \in SUBSET DOMAIN view.lots
  /\ \A i \in DOMAIN book.lots :
       /\ view.lots[i].order = book.lots[i].order /\ view.lots[i].orig = book.lots[i].orig
       /\ view.lots[i].opened = book.lots[i].opened /\ view.lots[i].open <= book.lots[i].open
       /\ i \notin r.held => view.lots[i] = book.lots[i] /\ view.closes[i] = book.closes[i]
  /\ w.pc = "commit" => w.held \cap r.held = {} /\ WantedLots \in SUBSET w.held

SharedParked ==
  /\ DOMAIN book.parked \in SUBSET DOMAIN view.parked
  /\ \A a \in DOMAIN book.parked : /\ view.parked[a].order = book.parked[a].order
                                  /\ view.parked[a].qty = book.parked[a].qty
                                  /\ view.parked[a].at = book.parked[a].at
  /\ r.pc = "retry" => \A a \in r.todo : a \in DOMAIN view.parked /\ view.parked[a].open

LotsInv ==
  /\ LotTypes(book) /\ LotTypes(view) /\ PositionTypes /\ SharedLots /\ SharedParked
  /\ r.pc = "idle" => view = book
  /\ SharesAccounted /\ Balanced(book) /\ Balanced(view)

IInv == LedgerInv /\ LotsInv

(* How old a lot may be that an order in one piece has closed, whatever     *)
(* stamp its fill carried.                                                  *)
Stamped(f, t) ==
  Strategy[f] = NoStrategy /\ InOnePiece(f)
    => \E u \in stream : u.order = f /\ u.qty > 0 /\ t <= u.at

ClosesAreStamped(b) ==
  /\ \A i \in DOMAIN b.lots, f \in Orders : b.closes[i][f] > 0 => Stamped(f, b.lots[i].opened)
  /\ \A a \in DOMAIN b.parked : Stamped(b.parked[a].order, b.parked[a].at)

PiecesShow ==
  /\ \A o \in Orders :
       /\ cum[o] > 0 => \E u \in stream : u.order = o /\ u.qty > 0
       /\ o \notin over /\ cum[o] > 0 => ~InOnePiece(o)
       /\ r.pc = "adopt" /\ o \in DOMAIN r.snap /\ r.snap[o] > 0 => ~InOnePiece(o)
       /\ \A b \in {book, view} : b.row[o].filled > 0 /\ ~b.row[o].final => ~InOnePiece(o)
  /\ \A u \in stream : u.qty = 0 /\ u.cum > 0 => ~InOnePiece(u.order)
  /\ w # IdleWriter => w.u.cum > 0

AgeInv == ClosesAreStamped(book) /\ ClosesAreStamped(view) /\ PiecesShow
=============================================================================
