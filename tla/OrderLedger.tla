---------------------------- MODULE OrderLedger ----------------------------
(***************************************************************************)
(* One order's life in ROI-GEN: the execution stage that persists and      *)
(* submits it, the broker that fills it, and the three writers that copy   *)
(* broker evidence onto the local row -- the post-submit apply, the        *)
(* trade-updates writer and reconciliation -- with the durable fill ledger *)
(* (SUM(Fill.qty) per order) and the net Position row they keep.           *)
(*                                                                         *)
(* Every writer mutates an order row inside one transaction that holds     *)
(* SELECT ... FOR UPDATE on it, so each mutation is one action here; what  *)
(* is NOT atomic, and is modelled step by step, is everything read from    *)
(* the broker before the lock: the submit response, the reconciler's       *)
(* position list, its open-order list and its lookups.                     *)
(*                                                                         *)
(* The trade-updates stream (websocket -> Redis -> buffer -> writer) has   *)
(* no replay: an event that was emitted may reach the writer never, once   *)
(* or more than once, and late.  It is the set of events ever emitted.     *)
(*                                                                         *)
(* Abstractions: every order is a buy on a symbol of its own, so its       *)
(* broker position is its cumulative quantity; prices are left out;        *)
(* "open" stands for every non-absorbing broker status, and "canceled" for *)
(* expired, replaced and asynchronously rejected as well.  Bracket legs    *)
(* are not in this module.                                                 *)
(***************************************************************************)
EXTENDS Integers, FiniteSets

CONSTANTS
  Orders,      \* client order ids
  Qty,         \* shares every order asks for
  Modes,       \* the reconcilers that run: "engine" (synthesizes), "sync" (API)
  MayAge,      \* may a row outlive the grace window with its submit unsettled?
  MaxCrashes   \* bound on engine crashes

ASSUME QtyAssumption == Qty \in Nat \ {0}
ASSUME ModesAssumption == Modes \subseteq {"engine", "sync"}
ASSUME BoundsAssumption == MayAge \in BOOLEAN /\ MaxCrashes \in Nat

VARIABLES
  bStatus,   \* broker: the order's status, "none" until it is accepted
  bCum,      \* broker: its cumulative filled quantity
  emitted,   \* broker: the trade-update events put on the stream so far
  request,   \* the submit request's fate
  pc,        \* where the execution stage is with the order
  resp,      \* the broker snapshot the execution stage is about to apply
  row,       \* the Order row: status, filled_qty, broker_order_id known
  ledger,    \* SUM(Fill.qty)
  keys,      \* the broker_fill_ids of the order's Fill rows
  pos,       \* the Position row of the order's symbol (0 = no row)
  rec,       \* each reconciler's progress and what it has read
  released,  \* the subscriber processes its buffer (after the boot reconcile)
  crashes

broker == <<bStatus, bCum, emitted>>
money == <<ledger, keys, pos>>
vars == <<broker, request, pc, resp, row, money, rec, released, crashes>>

Quantity == 0 .. Qty
BrokerStatus == {"none", "open", "filled", "canceled"}
RowStatus == {"none", "pending_submit", "open", "filled", "canceled", "rejected", "failed"}

(* Statuses with no transition out, apart from the resurrection of failed. *)
ABSORBING == {"filled", "canceled", "rejected", "failed"}

Snapshot == [status : BrokerStatus, cum : Quantity]
Unknown == [status |-> "none", cum |-> 0]

(* qty = 0: an event without an execution (new, canceled, expired ...).     *)
TradeUpdate == [status : BrokerStatus \ {"none"}, cum : Quantity, qty : Quantity]

(* A Fill's key: the execution id (which identifies the cumulative it       *)
(* reached), or the deterministic synthetic id  tag-order-cumulative.       *)
FillKey == {"exec", "gap", "recon"} \X Quantity

NoRow == [status |-> "none", filled |-> 0, known |-> FALSE]
Row == [status : RowStatus, filled : Quantity, known : BOOLEAN]

Reconciler ==
  [pc : {"idle", "positions", "orders", "rows"},
   posSnap : [Orders -> Quantity],   \* list_positions
   seen : [Orders -> Snapshot],      \* list_orders(open), then the lookups
   todo : SUBSET Orders,             \* local non-terminal rows still to look up
   unknown : SUBSET Orders]          \* never-acknowledged rows the lookup missed

IdleReconciler ==
  [pc |-> "idle", posSnap |-> [o \in Orders |-> 0],
   seen |-> [o \in Orders |-> Unknown], todo |-> {}, unknown |-> {}]

TypeOK ==
  /\ bStatus \in [Orders -> BrokerStatus]
  /\ bCum \in [Orders -> Quantity]
  /\ emitted \in [Orders -> SUBSET TradeUpdate]
  /\ request \in [Orders -> {"unsent", "inflight", "accepted", "rejected", "throttled"}]
  /\ pc \in [Orders -> {"idle", "persisted", "waiting", "resolving", "adopting", "done"}]
  /\ resp \in [Orders -> Snapshot]
  /\ row \in [Orders -> Row]
  /\ ledger \in [Orders -> Quantity]
  /\ keys \in [Orders -> SUBSET FillKey]
  /\ pos \in [Orders -> Int]
  /\ rec \in [Modes -> Reconciler]
  /\ released \in BOOLEAN
  /\ crashes \in 0 .. MaxCrashes

Init ==
  /\ bStatus = [o \in Orders |-> "none"]
  /\ bCum = [o \in Orders |-> 0]
  /\ emitted = [o \in Orders |-> {}]
  /\ request = [o \in Orders |-> "unsent"]
  /\ pc = [o \in Orders |-> "idle"]
  /\ resp = [o \in Orders |-> Unknown]
  /\ row = [o \in Orders |-> NoRow]
  /\ ledger = [o \in Orders |-> 0]
  /\ keys = [o \in Orders |-> {}]
  /\ pos = [o \in Orders |-> 0]
  /\ rec = [m \in Modes |-> IdleReconciler]
  /\ released = FALSE
  /\ crashes = 0

-----------------------------------------------------------------------------
(* The shared snapshot application.                                         *)

BrokerView(o) == [status |-> bStatus[o], cum |-> bCum[o]]

is_absorbing(status) == status \in ABSORBING

(* Mutant: believes any snapshot of an order that is not absorbing.         *)
plan_ignoring_staleness(r, s) ==
  IF is_absorbing(r.status) THEN "terminal_conflict" ELSE "apply"

(* "terminal_conflict", "stale" or "apply", tried in that order.            *)
plan_transition(r, s) ==
  IF is_absorbing(r.status) THEN "terminal_conflict"
  ELSE IF s.cum < r.filled THEN "stale"
  ELSE "apply"

(* Mutant: copies the status and leaves filled_qty behind.                  *)
apply_status_only(r, s) ==
  IF plan_transition(r, s) = "apply"
  THEN [r EXCEPT !.status = s.status, !.known = TRUE]
  ELSE [r EXCEPT !.known = TRUE]

(* Identity always, state only when the plan allows.                        *)
apply_snapshot(r, s) ==
  IF plan_transition(r, s) = "apply"
  THEN [status |-> s.status, filled |-> s.cum, known |-> TRUE]
  ELSE [r EXCEPT !.known = TRUE]

(* Broker evidence about a row written off as not placed: reopen it first.  *)
Resurrect(r) ==
  IF r.status = "failed" THEN [r EXCEPT !.status = "pending_submit"] ELSE r

(* What the fill ledger is while one transaction works on it.               *)
Ledger == [qty : Quantity, keys : SUBSET FillKey]
LedgerOf(o) == [qty |-> ledger[o], keys |-> keys[o]]

(* Bring the ledger up to a cumulative: nothing when it is already there,   *)
(* nothing when the deterministic key exists, else one synthetic Fill.      *)
synthesize_span(l, target, tag) ==
  IF l.qty >= target \/ <<tag, target>> \in l.keys
  THEN l
  ELSE [qty |-> target, keys |-> l.keys \cup {<<tag, target>>}]

-----------------------------------------------------------------------------
(* The broker (external) and the wire to it.                                *)

Emit(o, status, cum, qty) ==
  emitted' = [emitted EXCEPT ![o] = @ \cup {[status |-> status, cum |-> cum, qty |-> qty]}]

BrokerAccept(o) ==
  /\ request[o] = "inflight"
  /\ request' = [request EXCEPT ![o] = "accepted"]
  /\ bStatus' = [bStatus EXCEPT ![o] = "open"]
  /\ Emit(o, "open", 0, 0)
  /\ UNCHANGED <<bCum, pc, resp, row, money, rec, released, crashes>>

(* A definitive refusal: 422 ("rejected") or 429 before processing.         *)
BrokerRefuse(o) ==
  /\ request[o] = "inflight"
  /\ \E fate \in {"rejected", "throttled"} : request' = [request EXCEPT ![o] = fate]
  /\ UNCHANGED <<broker, pc, resp, row, money, rec, released, crashes>>

BrokerFill(o) ==
  /\ bStatus[o] = "open"
  /\ \E n \in 1 .. (Qty - bCum[o]) :
       LET cum == bCum[o] + n
           status == IF cum = Qty THEN "filled" ELSE "open"
       IN  /\ bCum' = [bCum EXCEPT ![o] = cum]
           /\ bStatus' = [bStatus EXCEPT ![o] = status]
           /\ Emit(o, status, cum, n)
  /\ UNCHANGED <<request, pc, resp, row, money, rec, released, crashes>>

BrokerCancel(o) ==
  /\ bStatus[o] = "open"
  /\ bStatus' = [bStatus EXCEPT ![o] = "canceled"]
  /\ Emit(o, "canceled", bCum[o], 0)
  /\ UNCHANGED <<bCum, request, pc, resp, row, money, rec, released, crashes>>

-----------------------------------------------------------------------------
(* The execution stage: persist, submit, then adopt what the broker says.   *)

(* _persist_pending commits the row before any broker call.  The stage is   *)
(* halted until the boot reconcile has committed.                           *)
Persist(o) ==
  /\ pc[o] = "idle"
  /\ released
  /\ row' = [row EXCEPT ![o] = [NoRow EXCEPT !.status = "pending_submit"]]
  /\ pc' = [pc EXCEPT ![o] = "persisted"]
  /\ UNCHANGED <<broker, request, resp, money, rec, released, crashes>>

Submit(o) ==
  /\ pc[o] = "persisted"
  /\ pc' = [pc EXCEPT ![o] = "waiting"]
  /\ request' = [request EXCEPT ![o] = "inflight"]
  /\ UNCHANGED <<broker, resp, row, money, rec, released, crashes>>

(* Mutant: treats the acknowledgement of a buy as its complete fill.        *)
ReceiveAckAsFill(o) ==
  /\ pc[o] = "waiting"
  /\ request[o] = "accepted"
  /\ resp' = [resp EXCEPT ![o] = [status |-> "filled", cum |-> Qty]]
  /\ pc' = [pc EXCEPT ![o] = "adopting"]
  /\ UNCHANGED <<broker, request, row, money, rec, released, crashes>>

ReceiveAck(o) ==
  /\ pc[o] = "waiting"
  /\ request[o] = "accepted"
  /\ resp' = [resp EXCEPT ![o] = BrokerView(o)]
  /\ pc' = [pc EXCEPT ![o] = "adopting"]
  /\ UNCHANGED <<broker, request, row, money, rec, released, crashes>>

(* Mutant: takes a timeout for a definitive rejection.                      *)
ReceiveRefusalOrTimeout(o) ==
  /\ pc[o] = "waiting"
  /\ \/ /\ request[o] \in {"inflight", "rejected"}
        /\ row' = [row EXCEPT ![o].status = "rejected"]
     \/ /\ request[o] = "throttled"
        /\ row' = [row EXCEPT ![o].status = "failed"]
  /\ pc' = [pc EXCEPT ![o] = "done"]
  /\ UNCHANGED <<broker, request, resp, money, rec, released, crashes>>

(* OrderRejected -> rejected, BrokerRateLimited -> failed: _mark_terminal   *)
(* writes the status whatever the row holds by then.                        *)
ReceiveRefusal(o) ==
  /\ pc[o] = "waiting"
  /\ \/ /\ request[o] = "rejected"
        /\ row' = [row EXCEPT ![o].status = "rejected"]
     \/ /\ request[o] = "throttled"
        /\ row' = [row EXCEPT ![o].status = "failed"]
  /\ pc' = [pc EXCEPT ![o] = "done"]
  /\ UNCHANGED <<broker, request, resp, money, rec, released, crashes>>

(* Timeout, dropped connection, 5xx or anything unexpected: ambiguous.      *)
LoseResponse(o) ==
  /\ pc[o] = "waiting"
  /\ pc' = [pc EXCEPT ![o] = "resolving"]
  /\ UNCHANGED <<broker, request, resp, row, money, rec, released, crashes>>

(* A bounded number of lookups by client id, and never a second submit.     *)
ResolveFound(o) ==
  /\ pc[o] = "resolving"
  /\ bStatus[o] # "none"
  /\ resp' = [resp EXCEPT ![o] = BrokerView(o)]
  /\ pc' = [pc EXCEPT ![o] = "adopting"]
  /\ UNCHANGED <<broker, request, row, money, rec, released, crashes>>

(* Out of lookups, or a lookup or a nested fetch raised: the row is left    *)
(* as it is for reconciliation.                                             *)
GiveUp(o) ==
  /\ pc[o] \in {"resolving", "adopting"}
  /\ pc' = [pc EXCEPT ![o] = "done"]
  /\ UNCHANGED <<broker, request, resp, row, money, rec, released, crashes>>

(* _apply_submit_result, under the row lock.  It does not resurrect.        *)
AdoptResponse(o) ==
  /\ pc[o] = "adopting"
  /\ row' = [row EXCEPT ![o] = apply_snapshot(@, resp[o])]
  /\ pc' = [pc EXCEPT ![o] = "done"]
  /\ UNCHANGED <<broker, request, resp, money, rec, released, crashes>>

-----------------------------------------------------------------------------
(* The trade-updates writer: one transaction per event.                     *)

(* Mutant: no clamp to the cumulative delta.                                *)
record_unclamped(l, u) ==
  IF u.qty = 0 THEN synthesize_span(l, u.cum, "gap")
  ELSE IF <<"exec", u.cum>> \in l.keys THEN l
  ELSE LET g == synthesize_span(l, u.cum - u.qty, "gap")
       IN  [qty |-> g.qty + u.qty, keys |-> g.keys \cup {<<"exec", u.cum>>}]

(* The ledger after the event's execution, if any: first the gap below it,  *)
(* then the execution itself, clamped to the cumulative delta.              *)
record_execution(l, u) ==
  IF u.qty = 0 THEN synthesize_span(l, u.cum, "gap")
  ELSE IF <<"exec", u.cum>> \in l.keys THEN l
  ELSE LET g == synthesize_span(l, u.cum - u.qty, "gap")
           effective == IF u.qty < u.cum - g.qty THEN u.qty ELSE u.cum - g.qty
       IN  IF effective <= 0 THEN g
           ELSE [qty |-> g.qty + effective, keys |-> g.keys \cup {<<"exec", u.cum>>}]

(* _process: resurrect, record, apply the snapshot, move the Position row   *)
(* by every share the ledger gained, commit.                                *)
ApplyTradeUpdate(o) ==
  /\ released
  /\ row[o].status # "none"
  /\ \E u \in emitted[o] :
       LET l == record_execution(LedgerOf(o), u)
       IN  /\ ledger' = [ledger EXCEPT ![o] = l.qty]
           /\ keys' = [keys EXCEPT ![o] = l.keys]
           /\ pos' = [pos EXCEPT ![o] = @ + l.qty - ledger[o]]
           /\ row' = [row EXCEPT ![o] =
                        apply_snapshot(Resurrect(@), [status |-> u.status, cum |-> u.cum])]
  /\ UNCHANGED <<broker, request, pc, resp, rec, released, crashes>>

-----------------------------------------------------------------------------
(* Reconciliation, in the order the service awaits its reads.               *)

ReadPositions(m) ==
  /\ rec[m].pc = "idle"
  /\ rec' = [rec EXCEPT ![m].pc = "positions", ![m].posSnap = bCum]
  /\ UNCHANGED <<broker, request, pc, resp, row, money, released, crashes>>

ReadOpenOrders(m) ==
  /\ rec[m].pc = "positions"
  /\ rec' = [rec EXCEPT ![m].pc = "orders",
               ![m].seen = [o \in Orders |-> IF bStatus[o] = "open" THEN BrokerView(o) ELSE Unknown]]
  /\ UNCHANGED <<broker, request, pc, resp, row, money, released, crashes>>

(* The unlocked read of the local rows decides which ones to look up.       *)
ReadRows(m) ==
  /\ rec[m].pc = "orders"
  /\ rec' = [rec EXCEPT ![m].pc = "rows",
               ![m].todo = {o \in Orders : /\ row[o].status # "none"
                                           /\ ~is_absorbing(row[o].status)
                                           /\ rec[m].seen[o] = Unknown}]
  /\ UNCHANGED <<broker, request, pc, resp, row, money, released, crashes>>

lookup(m, o) ==
  /\ rec[m].pc = "rows"
  /\ o \in rec[m].todo
  /\ rec' = [rec EXCEPT ![m].todo = @ \ {o},
               ![m].seen[o] = BrokerView(o),
               ![m].unknown = IF bStatus[o] = "none" /\ row[o].status = "pending_submit" /\ ~row[o].known
                              THEN @ \cup {o} ELSE @]
  /\ UNCHANGED <<broker, request, pc, resp, row, money, released, crashes>>

(* adopt: one order's row and ledger after broker snapshot s.              *)
adopt(w, s, synthesize_fills) ==
  [row |-> apply_snapshot(Resurrect(w.row), s),
   led |-> IF synthesize_fills THEN synthesize_span(w.led, s.cum, "recon") ELSE w.led]

(* Steps 1 and 2: adopt what the broker reported; age out a row it never    *)
(* heard of, re-checking the status under the lock; leave the rest alone.   *)
AdoptOrAge(m, o, aged) ==
  LET w == [row |-> row[o], led |-> LedgerOf(o)]
  IN  IF rec[m].seen[o] # Unknown /\ w.row.status # "none"
      THEN adopt(w, rec[m].seen[o], m = "engine")
      ELSE IF o \in aged /\ w.row.status = "pending_submit"
      THEN [w EXCEPT !.row.status = "failed"]
      ELSE w

(* Step 3: a row whose filled_qty is ahead of its ledger, from the broker's *)
(* truth or, when the broker no longer returns the order, its own columns.  *)
sweep_ledger_deficits(m, o, w, gone) ==
  IF m # "engine" \/ w.row.filled <= w.led.qty THEN w
  ELSE IF o \in gone THEN [w EXCEPT !.led = synthesize_span(@, w.row.filled, "recon")]
  ELSE adopt(w, BrokerView(o), TRUE)

(* Mutant: corrects the rows that are there, inserts none.                  *)
correct_positions(m) == pos' = [o \in Orders |-> IF pos[o] = 0 THEN 0 ELSE rec[m].posSnap[o]]

(* The Position rows become the broker's list: upserts, and deletes of what  *)
(* it no longer reports (quantity 0 here).                                  *)
reconcile_positions(m) == pos' = rec[m].posSnap

(* The transaction: orders, then the position overwrite; the engine's first *)
(* successful one opens the subscriber and the execution stage.             *)
Commit(m) ==
  /\ rec[m].pc = "rows"
  /\ rec[m].todo = {}
  /\ \E aged \in SUBSET rec[m].unknown, gone \in SUBSET Orders :
       /\ MayAge \/ aged = {}
       /\ LET w == [o \in Orders |->
                      sweep_ledger_deficits(m, o, AdoptOrAge(m, o, aged), gone)]
          IN  /\ row' = [o \in Orders |-> w[o].row]
              /\ ledger' = [o \in Orders |-> w[o].led.qty]
              /\ keys' = [o \in Orders |-> w[o].led.keys]
  /\ reconcile_positions(m)
  /\ rec' = [rec EXCEPT ![m] = IdleReconciler]
  /\ released' = (released \/ m = "engine")
  /\ UNCHANGED <<broker, request, pc, resp, crashes>>

(* A broker read raised, or the transaction was rolled back.                *)
Abort(m) ==
  /\ rec[m].pc # "idle"
  /\ rec' = [rec EXCEPT ![m] = IdleReconciler]
  /\ UNCHANGED <<broker, request, pc, resp, row, money, released, crashes>>

-----------------------------------------------------------------------------
(* The engine process dies and starts again; the API process does not.      *)
Crash ==
  /\ crashes < MaxCrashes
  /\ crashes' = crashes + 1
  /\ released' = FALSE
  /\ pc' = [o \in Orders |-> IF pc[o] = "idle" THEN "idle" ELSE "done"]
  /\ rec' = [m \in Modes |-> IF m = "engine" THEN IdleReconciler ELSE rec[m]]
  /\ UNCHANGED <<broker, request, resp, row, money>>

BrokerStep(o) == BrokerAccept(o) \/ BrokerRefuse(o) \/ BrokerFill(o) \/ BrokerCancel(o)

ExecutionStep(o) ==
  \/ Persist(o) \/ Submit(o) \/ ReceiveAck(o) \/ ReceiveRefusal(o)
  \/ LoseResponse(o) \/ ResolveFound(o) \/ GiveUp(o) \/ AdoptResponse(o)

ReconcileStep(m) ==
  \/ ReadPositions(m) \/ ReadOpenOrders(m) \/ ReadRows(m)
  \/ \E o \in Orders : lookup(m, o)
  \/ Commit(m) \/ Abort(m)

Next ==
  \/ \E o \in Orders : BrokerStep(o) \/ ExecutionStep(o) \/ ApplyTradeUpdate(o)
  \/ \E m \in Modes : ReconcileStep(m)
  \/ Crash

Spec == Init /\ [][Next]_vars

(* The engine reconciles at boot until it succeeds and then periodically    *)
(* for ever.  A cycle may fail at any read any number of times, but no read *)
(* and no commit fails every time it is tried: strong fairness.  Nothing is *)
(* assumed of the stream, the submit path, the API or the broker.           *)
ReconcileFairness ==
  /\ SF_vars(ReadPositions("engine"))
  /\ SF_vars(ReadOpenOrders("engine"))
  /\ SF_vars(ReadRows("engine"))
  /\ \A o \in Orders : SF_vars(lookup("engine", o))
  /\ SF_vars(Commit("engine"))

FairSpec == Spec /\ ReconcileFairness

-----------------------------------------------------------------------------
(* Properties.                                                              *)

(* No interleaving of stream events (lost, late, repeated), submit          *)
(* responses, reconciles and restarts books a share the broker did not      *)
(* execute: the clamp of record_execution and the deltas of adopt.        *)
LedgerWithinBroker == \A o \in Orders : ledger[o] <= bCum[o]

(* A Fill's key is never ahead of the ledger: so the idempotency check of   *)
(* synthesize_span never swallows a span that is still missing, and the     *)
(* duplicate check of record_execution never skips a gap below the event.  *)
KeysCovered == \A o \in Orders : \A k \in keys[o] : k[2] <= ledger[o]

(* Something that claims a status and a cumulative for the order is never   *)
(* ahead of the broker, and is exact once it claims a final status.         *)
Final == {"filled", "canceled"}
TrueOf(status, cum, o) ==
  /\ cum <= bCum[o]
  /\ status \in Final => status = bStatus[o] /\ cum = bCum[o]

(* A row that says filled or canceled says exactly what the broker holds,   *)
(* status and quantity, whichever writer put it there, and no row is ahead  *)
(* of the broker.                                                           *)
RowIsBrokerTruth == \A o \in Orders : TrueOf(row[o].status, row[o].filled, o)

(* A row is rejected only when the broker refused the order for good: no    *)
(* path guesses rejection of an order that is, or will be, live.            *)
RejectedIsRefused ==
  \A o \in Orders : row[o].status = "rejected" => bStatus[o] = "none" /\ request[o] = "rejected"

(* A stale snapshot is never believed over a newer one: filled_qty never    *)
(* goes backwards on a row, the fill ledger is append-only, and no writer   *)
(* leaves an absorbing status -- except that broker evidence reopens failed *)
(* and that a refusal arriving late turns an aged-out row from failed into  *)
(* rejected.                                                                *)
NothingRegresses ==
  [][\A o \in Orders :
       /\ row'[o].filled >= row[o].filled /\ ledger'[o] >= ledger[o] /\ keys[o] \subseteq keys'[o]
       /\ is_absorbing(row[o].status) /\ row'[o] \notin {row[o], [row[o] EXCEPT !.known = TRUE]} =>
            /\ row[o].status = "failed"
            /\ row'[o].status = "rejected" \/ bStatus[o] # "none"]_vars

(* Missed executions reach the fill ledger without any help from the        *)
(* stream, unless the row was written off as failed, and whatever           *)
(* overwrites and deltas crossed, the Position row ends up at the broker's. *)
BooksConverge ==
  \A o \in Orders :
    <>[]((ledger[o] = bCum[o] \/ row[o].status = "failed") /\ pos[o] = bCum[o])

-----------------------------------------------------------------------------
(* The inductive invariant: every piece of evidence still in flight is true *)
(* of the broker, whatever has happened since it was taken.                 *)

EvidenceIsTrue ==
  \A o \in Orders :
    /\ TrueOf(resp[o].status, resp[o].cum, o)
    /\ \A m \in Modes : TrueOf(rec[m].seen[o].status, rec[m].seen[o].cum, o)
    /\ \A u \in emitted[o] : TrueOf(u.status, u.cum, o) /\ u.qty <= u.cum

(* What the execution stage knows of its own request.                       *)
RequestInv ==
  \A o \in Orders :
    /\ pc[o] \in {"idle", "persisted"} => request[o] = "unsent"
    /\ request[o] # "accepted" => bStatus[o] = "none"

IInv ==
  /\ TypeOK
  /\ LedgerWithinBroker
  /\ KeysCovered
  /\ RowIsBrokerTruth
  /\ RejectedIsRefused
  /\ EvidenceIsTrue
  /\ RequestInv

(* Nothing is said of an order before there is one: the broker reports only *)
(* what it has accepted, and a row begins with the execution stage.         *)
FirstThingsFirst ==
  \A o \in Orders :
    /\ bStatus[o] = "none" => bCum[o] = 0 /\ emitted[o] = {}
    /\ \A m \in Modes : rec[m].seen[o] # Unknown => bStatus[o] # "none"
    /\ pc[o] = "idle" => row[o] = NoRow
=============================================================================
