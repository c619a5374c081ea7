-------------------------- MODULE OrderLedgerProofs --------------------------
(***************************************************************************)
(* Proofs about OrderLedger, for every set of orders, every quantity, any  *)
(* combination of reconcilers and any number of crashes.                   *)
(***************************************************************************)
EXTENDS OrderLedger, TLAPS

-----------------------------------------------------------------------------
(* What the operators the writers are built from return and preserve.       *)

(* Fill keys of one ledger are never ahead of its quantity.                 *)
Covered(l) == \A k \in l.keys : k[2] <= l.qty

(* Bringing a ledger up to a target keeps it well formed and covered,       *)
(* reaches the target, and goes no further than the target.                 *)
LEMMA SynthesizeSpan ==
  ASSUME NEW l \in Ledger, Covered(l),
         NEW target \in Quantity, NEW tag \in {"exec", "gap", "recon"}
  PROVE  LET r == synthesize_span(l, target, tag)
         IN  /\ r \in Ledger /\ Covered(r)
             /\ l.qty <= r.qty /\ target <= r.qty
             /\ r.qty = l.qty \/ r.qty = target
  <1>1. CASE l.qty >= target
    BY <1>1, QtyAssumption DEF synthesize_span, Ledger, Quantity
  <1>2. CASE l.qty < target
    <2>1. <<tag, target>> \notin l.keys
      BY <1>2, QtyAssumption DEF Covered, Ledger, Quantity, FillKey
    <2>2. synthesize_span(l, target, tag)
            = [qty |-> target, keys |-> l.keys \cup {<<tag, target>>}]
      BY <1>2, <2>1, QtyAssumption DEF synthesize_span, Ledger, Quantity
    <2>3. <<tag, target>> \in FillKey
      BY DEF FillKey
    <2>4. \A k \in l.keys \cup {<<tag, target>>} : k[2] <= target
      BY <1>2, QtyAssumption DEF Covered, Ledger, Quantity, FillKey
    <2> QED BY <1>2, <2>2, <2>3, <2>4, QtyAssumption DEF Ledger, Covered, Quantity
  <1> QED BY <1>1, <1>2, QtyAssumption DEF Ledger, Quantity

(* An event moves the ledger up, and never beyond the cumulative it         *)
(* carries: a replayed or late event applies nothing.                       *)
LEMMA RecordExecution ==
  ASSUME NEW l \in Ledger, Covered(l),
         NEW u \in TradeUpdate, u.qty <= u.cum
  PROVE  LET r == record_execution(l, u)
         IN  /\ r \in Ledger /\ Covered(r)
             /\ l.qty <= r.qty
             /\ r.qty <= l.qty \/ r.qty <= u.cum
  <1> DEFINE g == synthesize_span(l, u.cum - u.qty, "gap")
             e == IF u.qty < u.cum - g.qty THEN u.qty ELSE u.cum - g.qty
             f == [qty |-> g.qty + e, keys |-> g.keys \cup {<<"exec", u.cum>>}]
  <1>1. u.cum \in Quantity /\ u.qty \in Quantity /\ u.cum - u.qty \in Quantity
    BY QtyAssumption DEF TradeUpdate, Quantity
  <1>2. CASE u.qty = 0
    <2>1. record_execution(l, u) = synthesize_span(l, u.cum, "gap")
      BY <1>2 DEF record_execution
    <2> DEFINE r == synthesize_span(l, u.cum, "gap")
    <2>2. /\ r \in Ledger /\ Covered(r) /\ l.qty <= r.qty
          /\ r.qty = l.qty \/ r.qty = u.cum
      BY <1>1, SynthesizeSpan
    <2> HIDE DEF r
    <2>3. l.qty \in Nat /\ u.cum \in Nat
      BY <1>1, QtyAssumption DEF Ledger, Quantity
    <2>4. r.qty <= l.qty \/ r.qty <= u.cum
      BY <2>2, <2>3
    <2> QED BY <2>1, <2>2, <2>4 DEF r
  <1>3. CASE u.qty # 0 /\ <<"exec", u.cum>> \in l.keys
    BY <1>3, QtyAssumption DEF record_execution, Ledger, Quantity
  <1>4. CASE u.qty # 0 /\ <<"exec", u.cum>> \notin l.keys
    <2>1. /\ g \in Ledger /\ Covered(g)
          /\ l.qty <= g.qty /\ u.cum - u.qty <= g.qty
          /\ g.qty = l.qty \/ g.qty = u.cum - u.qty
      BY <1>1, SynthesizeSpan
    <2>2. g.qty \in Quantity /\ l.qty \in Quantity
      BY <2>1 DEF Ledger
    <2>3. record_execution(l, u) = IF e <= 0 THEN g ELSE f
      BY <1>4 DEF record_execution
    <2> HIDE DEF g
    <2>4. CASE e <= 0
      BY <1>1, <2>1, <2>2, <2>3, <2>4, QtyAssumption DEF Quantity
    <2>5. CASE e > 0
      <3>1. e = u.cum - g.qty /\ g.qty + e = u.cum
        BY <1>1, <2>1, <2>2, <2>5, QtyAssumption DEF Quantity
      <3>2. f \in Ledger
        BY <1>1, <2>1, <3>1 DEF Ledger, FillKey
      <3>3. Covered(f)
        BY <1>1, <2>1, <2>2, <2>5, <3>1, QtyAssumption DEF Covered, Ledger, FillKey, Quantity
      <3>4. record_execution(l, u) = f /\ f.qty = u.cum
        BY <1>1, <2>2, <2>3, <2>5, <3>1, QtyAssumption DEF Quantity
      <3>5. l.qty <= u.cum
        <4>1. l.qty <= g.qty /\ g.qty < u.cum
          BY <1>1, <2>1, <2>2, <2>5, <3>1, QtyAssumption DEF Quantity
        <4> QED BY <4>1, <1>1, <2>2, QtyAssumption DEF Quantity
      <3> QED BY <3>2, <3>3, <3>4, <3>5, <1>1, QtyAssumption DEF Quantity
    <2>6. e <= 0 \/ e > 0
      BY <1>1, <2>2, QtyAssumption DEF Quantity
    <2> HIDE DEF e
    <2> QED BY <2>4, <2>5, <2>6
  <1> QED BY <1>2, <1>3, <1>4

(* Applying a true snapshot to a true row leaves a true row, and never a    *)
(* rejected one that was not rejected before.                               *)
LEMMA ApplySnapshot ==
  ASSUME NEW r \in Row, NEW s, s.status \in BrokerStatus, s.cum \in Quantity,
         NEW o \in Orders,
         TrueOf(r.status, r.filled, o), TrueOf(s.status, s.cum, o)
  PROVE  LET t == apply_snapshot(r, s)
         IN  /\ t \in Row
             /\ TrueOf(t.status, t.filled, o)
             /\ t.status = r.status \/ t.status = s.status
  BY DEF apply_snapshot, plan_transition, is_absorbing, ABSORBING, Row, RowStatus, BrokerStatus

(* Reopening a failed row invents nothing about the broker.                 *)
LEMMA ResurrectTrue ==
  ASSUME NEW r \in Row, NEW o \in Orders, TrueOf(r.status, r.filled, o)
  PROVE  /\ Resurrect(r) \in Row
         /\ TrueOf(Resurrect(r).status, Resurrect(r).filled, o)
         /\ Resurrect(r).status = "rejected" <=> r.status = "rejected"
  BY DEF Resurrect, Row, RowStatus, TrueOf, Final

(* What one order looks like to a reconcile transaction in progress.        *)
Work == [row : Row, led : Ledger]
Sound(w, o) ==
  /\ w \in Work
  /\ Covered(w.led)
  /\ ledger[o] <= w.led.qty /\ w.led.qty <= bCum[o]
  /\ TrueOf(w.row.status, w.row.filled, o)
  /\ w.row.status = "rejected" => row[o].status = "rejected"

(* Adopting a true snapshot keeps an order's row and ledger sound.          *)
LEMMA AdoptSound ==
  ASSUME TypeOK, NEW o \in Orders, NEW w, Sound(w, o),
         NEW s \in Snapshot, TrueOf(s.status, s.cum, o),
         NEW synthesize_fills \in BOOLEAN
  PROVE  Sound(adopt(w, s, synthesize_fills), o)
  <1> DEFINE a == adopt(w, s, synthesize_fills)
  <1>1. w.row \in Row /\ w.led \in Ledger /\ Covered(w.led)
    BY DEF Sound, Work
  <1>2. s.status \in BrokerStatus /\ s.cum \in Quantity /\ s.status # "rejected"
    BY DEF Snapshot, BrokerStatus
  <1>3. /\ a.row = apply_snapshot(Resurrect(w.row), s)
        /\ a.led = IF synthesize_fills THEN synthesize_span(w.led, s.cum, "recon") ELSE w.led
        /\ a = [row |-> a.row, led |-> a.led]
    BY DEF adopt
  <1> HIDE DEF a
  <1>4. /\ a.row \in Row /\ TrueOf(a.row.status, a.row.filled, o)
        /\ a.row.status = "rejected" => row[o].status = "rejected"
    <2>1. /\ Resurrect(w.row) \in Row
          /\ TrueOf(Resurrect(w.row).status, Resurrect(w.row).filled, o)
          /\ Resurrect(w.row).status = "rejected" => row[o].status = "rejected"
      BY <1>1, ResurrectTrue DEF Sound
    <2> DEFINE v == Resurrect(w.row)
               t == apply_snapshot(v, s)
    <2>2. a.row = t
      BY <1>3
    <2>3. v \in Row /\ TrueOf(v.status, v.filled, o) /\ (v.status = "rejected" => row[o].status = "rejected")
      BY <2>1
    <2> HIDE DEF v
    <2>4. t \in Row /\ TrueOf(t.status, t.filled, o) /\ (t.status = v.status \/ t.status = s.status)
      BY <1>2, <2>3, ApplySnapshot
    <2> HIDE DEF t
    <2> QED BY <1>2, <2>2, <2>3, <2>4
  <1>5. /\ a.led \in Ledger /\ Covered(a.led)
        /\ w.led.qty <= a.led.qty
        /\ a.led.qty = w.led.qty \/ a.led.qty = s.cum
    <2>1. CASE synthesize_fills
      BY <1>1, <1>2, <1>3, <2>1, SynthesizeSpan
    <2>2. CASE ~synthesize_fills
      BY <1>1, <1>3, <2>2, QtyAssumption DEF Ledger, Quantity
    <2> QED BY <2>1, <2>2
  <1>6. ledger[o] <= a.led.qty /\ a.led.qty <= bCum[o]
    BY <1>1, <1>5, QtyAssumption DEF Sound, TypeOK, Ledger, Quantity, TrueOf
  <1> QED BY <1>3, <1>4, <1>5, <1>6 DEF Sound, Work, a

(* Steps 1 and 2 leave every order sound.                                   *)
LEMMA AdoptOrAgeSound ==
  ASSUME IInv, NEW m \in Modes, NEW o \in Orders, NEW aged
  PROVE  Sound(AdoptOrAge(m, o, aged), o)
  <1> DEFINE w == [row |-> row[o], led |-> LedgerOf(o)]
             a == AdoptOrAge(m, o, aged)
  <1>1. Sound(w, o)
    BY QtyAssumption
       DEF Sound, Work, Covered, LedgerOf, Ledger, Quantity, IInv, TypeOK, LedgerWithinBroker, KeysCovered, RowIsBrokerTruth
  <1>2. CASE rec[m].seen[o] # Unknown /\ w.row.status # "none"
    <2>1. a = adopt(w, rec[m].seen[o], m = "engine")
      BY <1>2 DEF AdoptOrAge
    <2>2. rec[m].seen[o] \in Snapshot /\ TrueOf(rec[m].seen[o].status, rec[m].seen[o].cum, o)
      BY DEF IInv, TypeOK, Reconciler, EvidenceIsTrue
    <2>3. Sound(adopt(w, rec[m].seen[o], m = "engine"), o)
      <3> HIDE DEF w
      <3> QED BY <1>1, <2>2, AdoptSound DEF IInv
    <2> QED BY <2>1, <2>3
  <1>3. CASE ~(rec[m].seen[o] # Unknown /\ w.row.status # "none")
    <2>1. CASE o \in aged /\ w.row.status = "pending_submit"
      <3>1. a = [w EXCEPT !.row.status = "failed"]
        BY <1>3, <2>1 DEF AdoptOrAge
      <3> QED BY <1>1, <3>1 DEF Sound, Work, Row, RowStatus, TrueOf, Final
    <2>2. CASE ~(o \in aged /\ w.row.status = "pending_submit")
      BY <1>1, <1>3, <2>2 DEF AdoptOrAge
    <2> QED BY <2>1, <2>2
  <1> QED BY <1>2, <1>3

(* Step 3, the deficit sweep, keeps a sound order sound.                    *)
LEMMA SweepSound ==
  ASSUME IInv, NEW m \in Modes, NEW o \in Orders, NEW w, Sound(w, o), NEW gone
  PROVE  Sound(sweep_ledger_deficits(m, o, w, gone), o)
  <1> DEFINE v == sweep_ledger_deficits(m, o, w, gone)
             l == synthesize_span(w.led, w.row.filled, "recon")
  <1>1. CASE m # "engine" \/ w.row.filled <= w.led.qty
    BY <1>1 DEF sweep_ledger_deficits
  <1>2. CASE ~(m # "engine" \/ w.row.filled <= w.led.qty) /\ o \in gone
    <2>1. v = [w EXCEPT !.led = l]
      BY <1>2 DEF sweep_ledger_deficits
    <2>2. /\ w.led \in Ledger /\ Covered(w.led) /\ w.row.filled \in Quantity
          /\ w.row.filled <= bCum[o] /\ ledger[o] <= w.led.qty /\ w.led.qty <= bCum[o]
          /\ w \in Work
      BY DEF Sound, Work, Row, TrueOf
    <2>3. /\ l \in Ledger /\ Covered(l) /\ w.led.qty <= l.qty
          /\ l.qty = w.led.qty \/ l.qty = w.row.filled
      BY <2>2, SynthesizeSpan
    <2>4. ledger[o] <= l.qty /\ l.qty <= bCum[o]
      BY <2>2, <2>3, QtyAssumption DEF Ledger, Quantity, IInv, TypeOK
    <2> HIDE DEF l
    <2>5. v.row = w.row /\ v.led = l /\ v \in Work
      BY <2>1, <2>2, <2>3 DEF Work
    <2> QED BY <2>3, <2>4, <2>5 DEF Sound
  <1>3. CASE ~(m # "engine" \/ w.row.filled <= w.led.qty) /\ o \notin gone
    <2>1. v = adopt(w, BrokerView(o), TRUE)
      BY <1>3 DEF sweep_ledger_deficits
    <2>2. BrokerView(o) \in Snapshot /\ TrueOf(BrokerView(o).status, BrokerView(o).cum, o)
      BY QtyAssumption DEF BrokerView, Snapshot, TrueOf, IInv, TypeOK, Quantity
    <2> QED BY <2>1, <2>2, AdoptSound DEF IInv
  <1> QED BY <1>1, <1>2, <1>3

-----------------------------------------------------------------------------
(* The inductive invariant.                                                 *)

(* The initial state.                                                       *)
LEMMA InitIInv == Init => IInv
  <1> SUFFICES ASSUME Init PROVE IInv
    OBVIOUS
  <1>1. TypeOK
    <2>1. Unknown \in Snapshot /\ NoRow \in Row /\ 0 \in Quantity /\ 0 \in Int
      BY QtyAssumption DEF Unknown, Snapshot, BrokerStatus, NoRow, Row, RowStatus, Quantity
    <2>2. IdleReconciler \in Reconciler
      BY <2>1 DEF IdleReconciler, Reconciler
    <2>3. /\ bStatus \in [Orders -> BrokerStatus] /\ bCum \in [Orders -> Quantity]
          /\ emitted \in [Orders -> SUBSET TradeUpdate]
          /\ resp \in [Orders -> Snapshot] /\ row \in [Orders -> Row]
          /\ ledger \in [Orders -> Quantity] /\ keys \in [Orders -> SUBSET FillKey]
          /\ rec \in [Modes -> Reconciler]
      BY <2>1, <2>2 DEF Init, BrokerStatus
    <2>4. /\ request \in [Orders -> {"unsent", "inflight", "accepted", "rejected", "throttled"}]
          /\ pc \in [Orders -> {"idle", "persisted", "waiting", "resolving", "adopting", "done"}]
          /\ pos \in [Orders -> Int] /\ released \in BOOLEAN
      BY <2>1 DEF Init
    <2>5. crashes \in 0 .. MaxCrashes
      BY BoundsAssumption DEF Init
    <2> QED BY <2>3, <2>4, <2>5 DEF TypeOK
  <1>2. LedgerWithinBroker /\ KeysCovered /\ RejectedIsRefused /\ RequestInv
    BY DEF Init, LedgerWithinBroker, KeysCovered, RejectedIsRefused, RequestInv, NoRow
  <1>3. RowIsBrokerTruth
    BY DEF Init, RowIsBrokerTruth, NoRow, TrueOf, Final
  <1>4. EvidenceIsTrue
    BY DEF Init, EvidenceIsTrue, TrueOf, Final, Unknown, IdleReconciler
  <1> QED BY <1>1, <1>2, <1>3, <1>4 DEF IInv

(* A broker that only moves forward keeps what is known about it true.      *)
LEMMA TrueStays ==
  ASSUME NEW o \in Orders, NEW status, NEW cum \in Quantity, TypeOK, TypeOK',
         TrueOf(status, cum, o),
         \/ UNCHANGED <<bStatus[o], bCum[o]>>
         \/ bStatus[o] \notin Final /\ bCum[o] <= bCum'[o]
  PROVE  /\ cum <= bCum'[o]
         /\ status \in Final => status = bStatus'[o] /\ cum = bCum'[o]
  BY QtyAssumption DEF TrueOf, Final, TypeOK, Quantity

(* Steps of the broker: it accepts, refuses, fills or cancels one order.    *)
LEMMA BrokerStepIInv ==
  ASSUME IInv, NEW o \in Orders, BrokerStep(o)
  PROVE  IInv'
  <1>1. TypeOK'
    <2>1. CASE BrokerAccept(o)
      BY <2>1, QtyAssumption
         DEF BrokerAccept, Emit, IInv, TypeOK, BrokerStatus, TradeUpdate, Quantity, money
    <2>2. CASE BrokerRefuse(o)
      BY <2>2 DEF BrokerRefuse, IInv, TypeOK, broker, money
    <2>3. CASE BrokerFill(o)
      <3>1. PICK n \in 1 .. (Qty - bCum[o]) :
              LET cum == bCum[o] + n
                  status == IF cum = Qty THEN "filled" ELSE "open"
              IN  /\ bCum' = [bCum EXCEPT ![o] = cum]
                  /\ bStatus' = [bStatus EXCEPT ![o] = status]
                  /\ Emit(o, status, cum, n)
        BY <2>3 DEF BrokerFill
      <3>2. bCum[o] + n \in Quantity /\ n \in Quantity
        BY QtyAssumption DEF IInv, TypeOK, Quantity
      <3> QED BY <2>3, <3>1, <3>2
              DEF BrokerFill, Emit, IInv, TypeOK, BrokerStatus, TradeUpdate, money
    <2>4. CASE BrokerCancel(o)
      BY <2>4, QtyAssumption
         DEF BrokerCancel, Emit, IInv, TypeOK, BrokerStatus, TradeUpdate, Quantity, money
    <2> QED BY <2>1, <2>2, <2>3, <2>4 DEF BrokerStep
  <1>2. \A p \in Orders :
          \/ UNCHANGED <<bStatus[p], bCum[p]>>
          \/ bStatus[p] \notin Final /\ bCum[p] <= bCum'[p]
    BY QtyAssumption
       DEF BrokerStep, BrokerAccept, BrokerRefuse, BrokerFill, BrokerCancel, broker, Final,
           IInv, TypeOK, RequestInv, Quantity
  <1>3. UNCHANGED <<row, ledger, keys, resp, rec, pc>>
    BY DEF BrokerStep, BrokerAccept, BrokerRefuse, BrokerFill, BrokerCancel, broker, money
  <1>4. LedgerWithinBroker'
    BY <1>1, <1>2, <1>3, QtyAssumption DEF LedgerWithinBroker, IInv, TypeOK, Quantity
  <1>5. KeysCovered'
    BY <1>3 DEF KeysCovered, IInv
  <1>6. RowIsBrokerTruth'
    BY <1>1, <1>2, <1>3, TrueStays DEF RowIsBrokerTruth, TrueOf, IInv, TypeOK, Row
  <1>7. RejectedIsRefused' /\ RequestInv'
    BY <1>3 DEF BrokerStep, BrokerAccept, BrokerRefuse, BrokerFill, BrokerCancel, broker,
                RejectedIsRefused, RequestInv, IInv, TypeOK
  <1>8. EvidenceIsTrue'
    <2>1. ASSUME NEW p \in Orders
          PROVE  /\ TrueOf(resp[p].status, resp[p].cum, p)'
                 /\ \A m \in Modes : TrueOf(rec[m].seen[p].status, rec[m].seen[p].cum, p)'
      <3>1. TrueOf(resp[p].status, resp[p].cum, p)'
        <4>1. resp[p].cum \in Quantity /\ TrueOf(resp[p].status, resp[p].cum, p)
          BY DEF EvidenceIsTrue, IInv, TypeOK, Snapshot
        <4> QED BY <4>1, <1>1, <1>2, <1>3, TrueStays DEF TrueOf, IInv
      <3>2. ASSUME NEW m \in Modes
            PROVE  TrueOf(rec[m].seen[p].status, rec[m].seen[p].cum, p)'
        <4>1. /\ rec[m].seen[p].cum \in Quantity
              /\ TrueOf(rec[m].seen[p].status, rec[m].seen[p].cum, p)
          BY DEF EvidenceIsTrue, IInv, TypeOK, Snapshot, Reconciler
        <4> QED BY <4>1, <1>1, <1>2, <1>3, TrueStays DEF TrueOf, IInv
      <3> QED BY <3>1, <3>2
    <2>2. ASSUME NEW p \in Orders, NEW u \in emitted'[p]
          PROVE  TrueOf(u.status, u.cum, p)' /\ u.qty <= u.cum
      <3>1. CASE u \in emitted[p]
        <4>1. u.cum \in Quantity /\ TrueOf(u.status, u.cum, p) /\ u.qty <= u.cum
          BY <3>1 DEF EvidenceIsTrue, IInv, TypeOK, TradeUpdate
        <4> QED BY <4>1, <1>1, <1>2, TrueStays DEF TrueOf, IInv
      <3>2. CASE u \notin emitted[p]
        <4>1. p = o /\ ~BrokerRefuse(o)
          BY <3>2 DEF BrokerStep, BrokerAccept, BrokerRefuse, BrokerFill, BrokerCancel, broker,
                      Emit, IInv, TypeOK
        <4>2. CASE BrokerAccept(o)
          BY <3>2, <4>1, <4>2, <1>1, QtyAssumption
             DEF BrokerAccept, Emit, TrueOf, Final, IInv, TypeOK, Quantity
        <4>3. CASE BrokerFill(o)
          BY <3>2, <4>1, <4>3, <1>1, QtyAssumption
             DEF BrokerFill, Emit, TrueOf, Final, IInv, TypeOK, Quantity
        <4>4. CASE BrokerCancel(o)
          BY <3>2, <4>1, <4>4, <1>1, QtyAssumption
             DEF BrokerCancel, Emit, TrueOf, Final, IInv, TypeOK, Quantity
        <4> QED BY <4>1, <4>2, <4>3, <4>4 DEF BrokerStep
      <3> QED BY <3>1, <3>2
    <2> QED BY <2>1, <2>2 DEF EvidenceIsTrue
  <1> QED BY <1>1, <1>4, <1>5, <1>6, <1>7, <1>8 DEF IInv

(* Steps of the execution stage: they touch the row and the stage's own     *)
(* state, never the broker's or the ledger.                                 *)
LEMMA ExecutionStepIInv ==
  ASSUME IInv, NEW o \in Orders, ExecutionStep(o)
  PROVE  IInv'
  <1> USE DEF ExecutionStep, Persist, Submit, ReceiveAck, ReceiveRefusal, LoseResponse,
              ResolveFound, GiveUp, AdoptResponse
  <1>1. UNCHANGED <<bStatus, bCum, emitted, ledger, keys, pos, rec, released, crashes>>
    BY DEF broker, money
  <1>2. \/ row' = row
        \/ pc[o] = "idle" /\ row' = [row EXCEPT ![o] = [NoRow EXCEPT !.status = "pending_submit"]]
        \/ request[o] = "rejected" /\ row' = [row EXCEPT ![o].status = "rejected"]
        \/ row' = [row EXCEPT ![o].status = "failed"]
        \/ row' = [row EXCEPT ![o] = apply_snapshot(@, resp[o])]
    OBVIOUS
  <1>3. \/ resp' = resp
        \/ resp' = [resp EXCEPT ![o] = BrokerView(o)]
    OBVIOUS
  <1>4. \/ request' = request
        \/ pc[o] = "persisted" /\ request' = [request EXCEPT ![o] = "inflight"]
    OBVIOUS
  <1>5. /\ pc' \in [Orders -> {"idle", "persisted", "waiting", "resolving", "adopting", "done"}]
        /\ \A p \in Orders : pc'[p] \in {"idle", "persisted"} =>
             pc[p] \in {"idle", "persisted"} /\ request'[p] = request[p]
    BY DEF IInv, TypeOK
  <1>6. \A p \in Orders :
          /\ row'[p] \in Row
          /\ TrueOf(row'[p].status, row'[p].filled, p)
          /\ row'[p].status = "rejected" => row[p].status = "rejected" \/ request[p] = "rejected"
    <2> SUFFICES ASSUME NEW p \in Orders
                 PROVE  /\ row'[p] \in Row
                        /\ TrueOf(row'[p].status, row'[p].filled, p)
                        /\ row'[p].status = "rejected" =>
                             row[p].status = "rejected" \/ request[p] = "rejected"
      OBVIOUS
    <2>1. row[p] \in Row /\ TrueOf(row[p].status, row[p].filled, p) /\ bCum[p] \in Quantity
      BY DEF IInv, TypeOK, RowIsBrokerTruth
    <2>2. CASE row'[p] = row[p]
      BY <2>1, <2>2
    <2>3. CASE row'[p] = [NoRow EXCEPT !.status = "pending_submit"]
      <3>1. row'[p] = [status |-> "pending_submit", filled |-> 0, known |-> FALSE]
        BY <2>3 DEF NoRow
      <3>2. 0 \in Quantity /\ 0 <= bCum[p]
        BY <2>1, QtyAssumption DEF Quantity
      <3> QED BY <3>1, <3>2 DEF Row, RowStatus, TrueOf, Final
    <2>4. CASE request[p] = "rejected" /\ row'[p] = [row[p] EXCEPT !.status = "rejected"]
      BY <2>1, <2>4 DEF Row, RowStatus, TrueOf, Final
    <2>5. CASE row'[p] = [row[p] EXCEPT !.status = "failed"]
      BY <2>1, <2>5 DEF Row, RowStatus, TrueOf, Final
    <2>6. CASE row'[p] = apply_snapshot(row[p], resp[p])
      <3>1. /\ resp[p].status \in BrokerStatus /\ resp[p].cum \in Quantity
            /\ TrueOf(resp[p].status, resp[p].cum, p) /\ resp[p].status # "rejected"
        BY DEF IInv, TypeOK, Snapshot, EvidenceIsTrue, BrokerStatus
      <3> QED BY <2>1, <2>6, <3>1, ApplySnapshot
    <2> QED BY <1>2, <2>2, <2>3, <2>4, <2>5, <2>6 DEF IInv, TypeOK
  <1> USE <1>1
  <1>7. TypeOK'
    <2>1. row' \in [Orders -> Row]
      BY <1>2, <1>6 DEF IInv, TypeOK
    <2>2. resp' \in [Orders -> Snapshot]
      BY <1>3 DEF BrokerView, Snapshot, IInv, TypeOK
    <2>3. request' \in [Orders -> {"unsent", "inflight", "accepted", "rejected", "throttled"}]
      BY <1>4 DEF IInv, TypeOK
    <2> QED BY <1>5, <2>1, <2>2, <2>3 DEF IInv, TypeOK
  <1>8. LedgerWithinBroker' /\ KeysCovered'
    BY DEF IInv, LedgerWithinBroker, KeysCovered
  <1>9. RowIsBrokerTruth'
    BY <1>6 DEF RowIsBrokerTruth, TrueOf
  <1>10. RequestInv'
    BY <1>4, <1>5 DEF RequestInv, IInv, TypeOK
  <1>11. RejectedIsRefused'
    BY <1>4, <1>6 DEF RejectedIsRefused, RequestInv, IInv, TypeOK
  <1>12. EvidenceIsTrue'
    BY <1>3, QtyAssumption DEF EvidenceIsTrue, TrueOf, BrokerView, IInv, TypeOK, Quantity
  <1> QED BY <1>7, <1>8, <1>9, <1>10, <1>11, <1>12 DEF IInv

(* One trade update: the row and the ledger move together.                  *)
LEMMA ApplyTradeUpdateIInv ==
  ASSUME IInv, NEW o \in Orders, ApplyTradeUpdate(o)
  PROVE  IInv'
  <1>1. PICK u \in emitted[o] :
          LET l == record_execution(LedgerOf(o), u)
          IN  /\ ledger' = [ledger EXCEPT ![o] = l.qty]
              /\ keys' = [keys EXCEPT ![o] = l.keys]
              /\ pos' = [pos EXCEPT ![o] = @ + l.qty - ledger[o]]
              /\ row' = [row EXCEPT ![o] =
                           apply_snapshot(Resurrect(@), [status |-> u.status, cum |-> u.cum])]
    BY DEF ApplyTradeUpdate
  <1>2. UNCHANGED <<bStatus, bCum, emitted, request, pc, resp, rec, released, crashes>>
    BY DEF ApplyTradeUpdate, broker
  <1>3. u \in TradeUpdate /\ u.qty <= u.cum /\ TrueOf(u.status, u.cum, o)
    BY DEF IInv, TypeOK, EvidenceIsTrue
  <1> DEFINE l == record_execution(LedgerOf(o), u)
             r == apply_snapshot(Resurrect(row[o]), [status |-> u.status, cum |-> u.cum])
  <1>4. l \in Ledger /\ Covered(l) /\ l.qty <= bCum[o]
    <2>1. /\ LedgerOf(o) \in Ledger /\ Covered(LedgerOf(o))
          /\ LedgerOf(o).qty <= bCum[o] /\ bCum[o] \in Quantity
      BY DEF LedgerOf, Ledger, Covered, IInv, TypeOK, LedgerWithinBroker, KeysCovered
    <2>2. /\ l \in Ledger /\ Covered(l)
          /\ l.qty <= LedgerOf(o).qty \/ l.qty <= u.cum
      BY <1>3, <2>1, RecordExecution
    <2> HIDE DEF l
    <2> QED BY <1>3, <2>1, <2>2, QtyAssumption DEF Ledger, Quantity, TrueOf, TradeUpdate
  <1>5. /\ r \in Row /\ TrueOf(r.status, r.filled, o)
        /\ r.status = "rejected" => row[o].status = "rejected"
    <2>1. row[o] \in Row /\ TrueOf(row[o].status, row[o].filled, o)
      BY DEF IInv, TypeOK, RowIsBrokerTruth
    <2>2. u.status \in BrokerStatus /\ u.cum \in Quantity /\ u.status # "rejected"
      BY <1>3 DEF TradeUpdate, BrokerStatus
    <2>3. /\ Resurrect(row[o]) \in Row
          /\ TrueOf(Resurrect(row[o]).status, Resurrect(row[o]).filled, o)
          /\ Resurrect(row[o]).status = "rejected" <=> row[o].status = "rejected"
      BY <2>1, ResurrectTrue
    <2> QED BY <1>3, <2>2, <2>3, ApplySnapshot
  <1>6. /\ ledger' = [ledger EXCEPT ![o] = l.qty] /\ keys' = [keys EXCEPT ![o] = l.keys]
        /\ row' = [row EXCEPT ![o] = r] /\ pos' = [pos EXCEPT ![o] = @ + l.qty - ledger[o]]
    BY <1>1
  <1> HIDE DEF l, r
  <1>7. TypeOK'
    BY <1>2, <1>4, <1>5, <1>6, QtyAssumption DEF IInv, TypeOK, Ledger, Quantity
  <1>8. LedgerWithinBroker' /\ KeysCovered'
    BY <1>2, <1>4, <1>6 DEF IInv, TypeOK, LedgerWithinBroker, KeysCovered, Covered
  <1>9. RowIsBrokerTruth' /\ RejectedIsRefused'
    BY <1>2, <1>5, <1>6 DEF IInv, TypeOK, RowIsBrokerTruth, RejectedIsRefused, TrueOf
  <1>10. EvidenceIsTrue' /\ RequestInv'
    BY <1>2 DEF IInv, EvidenceIsTrue, RequestInv, TrueOf
  <1> QED BY <1>7, <1>8, <1>9, <1>10 DEF IInv

(* The reconciler's reads: what it keeps is true of the broker it read.     *)
LEMMA ReconcileReadIInv ==
  ASSUME IInv, NEW m \in Modes,
         \/ ReadPositions(m) \/ ReadOpenOrders(m) \/ ReadRows(m)
         \/ (\E o \in Orders : lookup(m, o)) \/ Abort(m)
  PROVE  IInv'
  <1>1. UNCHANGED <<bStatus, bCum, emitted, request, pc, resp, row, ledger, keys, pos, released, crashes>>
    BY DEF ReadPositions, ReadOpenOrders, ReadRows, lookup, Abort, broker, money
  <1>2. rec[m] \in Reconciler /\ \A o \in Orders : BrokerView(o) \in Snapshot
    BY DEF IInv, TypeOK, BrokerView, Snapshot
  <1>3. Unknown \in Snapshot /\ 0 \in Quantity
    BY QtyAssumption DEF Unknown, Snapshot, BrokerStatus, Quantity
  <1>4. \E r \in Reconciler :
          /\ rec' = [rec EXCEPT ![m] = r]
          /\ \A o \in Orders : r.seen[o] \in {rec[m].seen[o], BrokerView(o), Unknown}
    <2>1. CASE ReadPositions(m)
      <3> DEFINE r == [rec[m] EXCEPT !.pc = "positions", !.posSnap = bCum]
      <3>1. r \in Reconciler /\ r.seen = rec[m].seen
        BY <1>2 DEF Reconciler, IInv, TypeOK
      <3>2. rec' = [rec EXCEPT ![m] = r]
        BY <2>1 DEF ReadPositions
      <3> QED BY <3>1, <3>2
    <2>2. CASE ReadOpenOrders(m)
      <3> DEFINE seen == [o \in Orders |-> IF bStatus[o] = "open" THEN BrokerView(o) ELSE Unknown]
                 r == [rec[m] EXCEPT !.pc = "orders", !.seen = seen]
      <3>1. seen \in [Orders -> Snapshot] /\ \A o \in Orders : seen[o] \in {BrokerView(o), Unknown}
        BY <1>2, <1>3
      <3>2. rec' = [rec EXCEPT ![m] = r]
        BY <2>2 DEF ReadOpenOrders
      <3> HIDE DEF seen
      <3>3. r \in Reconciler /\ r.seen = seen
        BY <1>2, <3>1 DEF Reconciler
      <3> QED BY <3>1, <3>2, <3>3
    <2>3. CASE ReadRows(m)
      <3> DEFINE todo == {o \in Orders : /\ row[o].status # "none"
                                         /\ ~is_absorbing(row[o].status)
                                         /\ rec[m].seen[o] = Unknown}
                 r == [rec[m] EXCEPT !.pc = "rows", !.todo = todo]
      <3>1. todo \in SUBSET Orders
        OBVIOUS
      <3>2. rec' = [rec EXCEPT ![m] = r]
        BY <2>3 DEF ReadRows
      <3> HIDE DEF todo
      <3>3. r \in Reconciler /\ r.seen = rec[m].seen
        BY <1>2, <3>1 DEF Reconciler
      <3> QED BY <3>2, <3>3
    <2>4. ASSUME NEW o \in Orders, lookup(m, o)
          PROVE  \E r \in Reconciler :
                   /\ rec' = [rec EXCEPT ![m] = r]
                   /\ \A p \in Orders : r.seen[p] \in {rec[m].seen[p], BrokerView(p), Unknown}
      <3> DEFINE unknown == IF /\ bStatus[o] = "none" /\ row[o].status = "pending_submit"
                               /\ ~row[o].known
                            THEN rec[m].unknown \cup {o} ELSE rec[m].unknown
                 r == [rec[m] EXCEPT !.todo = @ \ {o}, !.seen[o] = BrokerView(o), !.unknown = unknown]
      <3>1. unknown \in SUBSET Orders
        BY <1>2 DEF Reconciler
      <3>2. rec' = [rec EXCEPT ![m] = r]
        BY <2>4 DEF lookup
      <3> HIDE DEF unknown
      <3>3. /\ r \in Reconciler
            /\ \A p \in Orders : r.seen[p] \in {rec[m].seen[p], BrokerView(p)}
        BY <1>2, <3>1 DEF Reconciler
      <3> QED BY <3>2, <3>3
    <2>5. CASE Abort(m)
      <3>1. IdleReconciler \in Reconciler /\ \A o \in Orders : IdleReconciler.seen[o] = Unknown
        BY <1>3 DEF IdleReconciler, Reconciler
      <3> QED BY <2>5, <3>1 DEF Abort
    <2> QED BY <2>1, <2>2, <2>3, <2>4, <2>5
  <1>5. TypeOK'
    BY <1>1, <1>4 DEF IInv, TypeOK
  <1>6. EvidenceIsTrue'
    <2>1. \A o \in Orders : /\ TrueOf(BrokerView(o).status, BrokerView(o).cum, o)
                            /\ TrueOf(Unknown.status, Unknown.cum, o)
      BY QtyAssumption DEF BrokerView, Unknown, TrueOf, Final, IInv, TypeOK, Quantity
    <2>2. ASSUME NEW n \in Modes, NEW o \in Orders
          PROVE  TrueOf(rec'[n].seen[o].status, rec'[n].seen[o].cum, o)
      <3>1. TrueOf(rec[n].seen[o].status, rec[n].seen[o].cum, o)
        BY DEF IInv, EvidenceIsTrue
      <3>2. rec'[n] = rec[n] \/ rec'[n].seen[o] \in {rec[n].seen[o], BrokerView(o), Unknown}
        BY <1>4 DEF IInv, TypeOK
      <3> QED BY <2>1, <3>1, <3>2
    <2> QED BY <1>1, <2>2 DEF IInv, EvidenceIsTrue, TrueOf
  <1>7. /\ LedgerWithinBroker' /\ KeysCovered' /\ RowIsBrokerTruth'
        /\ RejectedIsRefused' /\ RequestInv'
    BY <1>1 DEF IInv, LedgerWithinBroker, KeysCovered, RowIsBrokerTruth, RejectedIsRefused,
                RequestInv, TrueOf
  <1> QED BY <1>5, <1>6, <1>7 DEF IInv

(* The reconcile transaction.                                               *)
LEMMA CommitIInv ==
  ASSUME IInv, NEW m \in Modes, Commit(m)
  PROVE  IInv'
  <1>1. PICK aged \in SUBSET rec[m].unknown, gone \in SUBSET Orders :
          LET w == [o \in Orders |->
                      sweep_ledger_deficits(m, o, AdoptOrAge(m, o, aged), gone)]
          IN  /\ row' = [o \in Orders |-> w[o].row]
              /\ ledger' = [o \in Orders |-> w[o].led.qty]
              /\ keys' = [o \in Orders |-> w[o].led.keys]
    BY DEF Commit
  <1> DEFINE w(o) == sweep_ledger_deficits(m, o, AdoptOrAge(m, o, aged), gone)
  <1>2. /\ row' = [o \in Orders |-> w(o).row]
        /\ ledger' = [o \in Orders |-> w(o).led.qty]
        /\ keys' = [o \in Orders |-> w(o).led.keys]
    BY <1>1
  <1>3. \A o \in Orders : Sound(w(o), o)
    BY AdoptOrAgeSound, SweepSound
  <1> HIDE DEF w
  <1>4. \A o \in Orders : /\ row'[o] \in Row /\ ledger'[o] \in Quantity
                          /\ keys'[o] \in SUBSET FillKey
                          /\ ledger'[o] <= bCum[o]
                          /\ \A k \in keys'[o] : k[2] <= ledger'[o]
                          /\ TrueOf(row'[o].status, row'[o].filled, o)
                          /\ row'[o].status = "rejected" => row[o].status = "rejected"
    BY <1>2, <1>3 DEF Sound, Work, Ledger, Covered
  <1>5. /\ UNCHANGED <<bStatus, bCum, emitted, request, pc, resp, crashes>>
        /\ pos' = rec[m].posSnap /\ rec' = [rec EXCEPT ![m] = IdleReconciler]
        /\ released' \in BOOLEAN
    BY DEF Commit, reconcile_positions, broker, IInv, TypeOK
  <1>6. IdleReconciler \in Reconciler /\ \A o \in Orders : IdleReconciler.seen[o] = Unknown
    BY QtyAssumption DEF IdleReconciler, Reconciler, Unknown, Snapshot, BrokerStatus, Quantity
  <1>7. TypeOK'
    <2>1. pos' \in [Orders -> Int]
      BY <1>5 DEF IInv, TypeOK, Reconciler, Quantity
    <2>2. rec' \in [Modes -> Reconciler]
      BY <1>5, <1>6 DEF IInv, TypeOK
    <2>3. row' \in [Orders -> Row] /\ ledger' \in [Orders -> Quantity] /\ keys' \in [Orders -> SUBSET FillKey]
      BY <1>2, <1>4
    <2> QED BY <1>5, <2>1, <2>2, <2>3 DEF IInv, TypeOK
  <1>8. LedgerWithinBroker' /\ KeysCovered'
    BY <1>4, <1>5 DEF LedgerWithinBroker, KeysCovered
  <1>9. RowIsBrokerTruth' /\ RejectedIsRefused' /\ RequestInv'
    BY <1>4, <1>5 DEF IInv, RowIsBrokerTruth, RejectedIsRefused, RequestInv, TrueOf
  <1>10. EvidenceIsTrue'
    <2>1. \A o \in Orders : TrueOf(Unknown.status, Unknown.cum, o)
      BY QtyAssumption DEF Unknown, TrueOf, Final, IInv, TypeOK, Quantity
    <2>2. ASSUME NEW n \in Modes, NEW o \in Orders
          PROVE  TrueOf(rec'[n].seen[o].status, rec'[n].seen[o].cum, o)
      BY <1>5, <1>6, <2>1 DEF IInv, TypeOK, EvidenceIsTrue
    <2> QED BY <1>5, <2>2 DEF IInv, EvidenceIsTrue, TrueOf
  <1> QED BY <1>7, <1>8, <1>9, <1>10 DEF IInv

(* A restart forgets what was in flight and touches nothing durable.        *)
LEMMA CrashIInv ==
  ASSUME IInv, Crash
  PROVE  IInv'
  <1>1. /\ UNCHANGED <<bStatus, bCum, emitted, request, resp, row, ledger, keys, pos>>
        /\ released' = FALSE
        /\ pc' = [o \in Orders |-> IF pc[o] = "idle" THEN "idle" ELSE "done"]
        /\ rec' = [m \in Modes |-> IF m = "engine" THEN IdleReconciler ELSE rec[m]]
    BY DEF Crash, broker, money
  <1>2. IdleReconciler \in Reconciler /\ \A o \in Orders : IdleReconciler.seen[o] = Unknown
    BY QtyAssumption DEF IdleReconciler, Reconciler, Unknown, Snapshot, BrokerStatus, Quantity
  <1>3. TypeOK'
    <2>1. crashes' \in 0 .. MaxCrashes
      BY BoundsAssumption DEF Crash, IInv, TypeOK
    <2>2. rec' \in [Modes -> Reconciler]
      BY <1>1, <1>2 DEF IInv, TypeOK
    <2> QED BY <1>1, <2>1, <2>2 DEF IInv, TypeOK
  <1>4. EvidenceIsTrue'
    <2>1. \A o \in Orders : TrueOf(Unknown.status, Unknown.cum, o)
      BY QtyAssumption DEF Unknown, TrueOf, Final, IInv, TypeOK, Quantity
    <2>2. ASSUME NEW n \in Modes, NEW o \in Orders
          PROVE  TrueOf(rec'[n].seen[o].status, rec'[n].seen[o].cum, o)
      BY <1>1, <1>2, <2>1 DEF IInv, EvidenceIsTrue
    <2> QED BY <1>1, <2>2 DEF IInv, EvidenceIsTrue, TrueOf
  <1>5. /\ LedgerWithinBroker' /\ KeysCovered' /\ RowIsBrokerTruth'
        /\ RejectedIsRefused' /\ RequestInv'
    BY <1>1 DEF IInv, LedgerWithinBroker, KeysCovered, RowIsBrokerTruth, RejectedIsRefused,
                RequestInv, TrueOf
  <1> QED BY <1>3, <1>4, <1>5 DEF IInv

(* Every step, real or stuttering, keeps the invariant.                     *)
LEMMA NextIInv == IInv /\ [Next]_vars => IInv'
  <1> SUFFICES ASSUME IInv, [Next]_vars PROVE IInv'
    OBVIOUS
  <1>1. ASSUME NEW o \in Orders, BrokerStep(o) \/ ExecutionStep(o) \/ ApplyTradeUpdate(o)
        PROVE  IInv'
    BY <1>1, BrokerStepIInv, ExecutionStepIInv, ApplyTradeUpdateIInv
  <1>2. ASSUME NEW m \in Modes, ReconcileStep(m)
        PROVE  IInv'
    BY <1>2, ReconcileReadIInv, CommitIInv DEF ReconcileStep
  <1>3. CASE Crash
    BY <1>3, CrashIInv
  <1>4. CASE UNCHANGED vars
    BY <1>4 DEF vars, broker, money, IInv, TypeOK, LedgerWithinBroker, KeysCovered,
                RowIsBrokerTruth, RejectedIsRefused, EvidenceIsTrue, RequestInv, TrueOf
  <1> QED BY <1>1, <1>2, <1>3, <1>4 DEF Next

-----------------------------------------------------------------------------
(* Nothing regresses: what one step may do to a row and to its ledger.      *)

(* A row moves on: its quantity never falls, and it leaves an absorbing     *)
(* status only from failed, and only for an order the broker knows.         *)
Onward(r, t, o) ==
  /\ t.filled >= r.filled
  /\ is_absorbing(r.status) /\ t \notin {r, [r EXCEPT !.known = TRUE]} =>
       r.status = "failed" /\ bStatus[o] # "none"

(* Moving on twice is moving on.                                            *)
LEMMA OnwardTwice ==
  ASSUME NEW o, NEW r \in Row, NEW t \in Row, NEW v \in Row, Onward(r, t, o), Onward(t, v, o)
  PROVE  Onward(r, v, o)
  <1>1. v.filled >= r.filled
    BY QtyAssumption DEF Onward, Row, Quantity
  <1>2. ASSUME is_absorbing(r.status), v \notin {r, [r EXCEPT !.known = TRUE]}
        PROVE  r.status = "failed" /\ bStatus[o] # "none"
    <2>1. CASE t \notin {r, [r EXCEPT !.known = TRUE]}
      BY <1>2, <2>1 DEF Onward
    <2>2. CASE t \in {r, [r EXCEPT !.known = TRUE]}
      <3>1. t.status = r.status /\ v \notin {t, [t EXCEPT !.known = TRUE]}
        BY <1>2, <2>2 DEF Row
      <3> QED BY <1>2, <3>1 DEF Onward
    <2> QED BY <2>1, <2>2
  <1> QED BY <1>1, <1>2 DEF Onward

(* The shared snapshot application moves a row on; so does the reopening    *)
(* before it, when the broker knows the order.                              *)
LEMMA ApplyOnward ==
  ASSUME NEW o, NEW r \in Row, NEW s, s.status \in BrokerStatus, s.cum \in Quantity
  PROVE  /\ Onward(r, apply_snapshot(r, s), o)
         /\ (r.status = "failed" => bStatus[o] # "none") =>
              Onward(r, apply_snapshot(Resurrect(r), s), o)
  <1>1. Onward(r, apply_snapshot(r, s), o)
    BY QtyAssumption
       DEF Onward, apply_snapshot, plan_transition, is_absorbing, ABSORBING, Row, RowStatus, Quantity
  <1>2. CASE r.status # "failed"
    BY <1>1, <1>2 DEF Resurrect
  <1>3. CASE r.status = "failed"
    <2>1. Resurrect(r) \in Row /\ Resurrect(r).filled = r.filled
      BY <1>3 DEF Resurrect, Row, RowStatus
    <2>2. apply_snapshot(Resurrect(r), s).filled >= r.filled
      BY <2>1, QtyAssumption DEF apply_snapshot, plan_transition, Row, Quantity
    <2> QED BY <1>1, <1>3, <2>2 DEF Onward
  <1> QED BY <1>1, <1>2, <1>3

(* The ledger's writers only add Fill rows.                                 *)
LEMMA KeysGrow ==
  ASSUME NEW l, NEW target, NEW tag, NEW u
  PROVE  /\ l.keys \subseteq synthesize_span(l, target, tag).keys
         /\ l.keys \subseteq record_execution(l, u).keys
  <1>1. \A t, g : l.keys \subseteq synthesize_span(l, t, g).keys
    BY DEF synthesize_span
  <1> DEFINE g == synthesize_span(l, u.cum - u.qty, "gap")
             e == IF u.qty < u.cum - g.qty THEN u.qty ELSE u.cum - g.qty
  <1>2. record_execution(l, u) =
          IF u.qty = 0 THEN synthesize_span(l, u.cum, "gap")
          ELSE IF <<"exec", u.cum>> \in l.keys THEN l
          ELSE IF e <= 0 THEN g ELSE [qty |-> g.qty + e, keys |-> g.keys \cup {<<"exec", u.cum>>}]
    BY DEF record_execution
  <1>3. l.keys \subseteq g.keys
    BY <1>1
  <1> HIDE DEF g, e
  <1>4. [qty |-> g.qty + e, keys |-> g.keys \cup {<<"exec", u.cum>>}].keys
          = g.keys \cup {<<"exec", u.cum>>}
    OBVIOUS
  <1>5. l.keys \subseteq record_execution(l, u).keys
    <2>1. CASE u.qty = 0
      BY <1>1, <1>2, <2>1
    <2>2. CASE u.qty # 0 /\ <<"exec", u.cum>> \in l.keys
      BY <1>2, <2>2
    <2>3. CASE u.qty # 0 /\ <<"exec", u.cum>> \notin l.keys
      BY <1>2, <1>3, <1>4, <2>3
    <2> QED BY <2>1, <2>2, <2>3
  <1> QED BY <1>1, <1>5

(* A reconcile transaction in progress has lost nothing of an order.        *)
Kept(w, o) == keys[o] \subseteq w.led.keys /\ Onward(row[o], w.row, o)

(* Adopting a snapshot of an order the broker knows loses nothing.          *)
LEMMA AdoptKept ==
  ASSUME TypeOK, NEW o \in Orders, NEW w, Sound(w, o), Kept(w, o), bStatus[o] # "none",
         NEW s \in Snapshot, TrueOf(s.status, s.cum, o), NEW synthesize_fills \in BOOLEAN
  PROVE  Kept(adopt(w, s, synthesize_fills), o)
  <1> DEFINE a == adopt(w, s, synthesize_fills)
  <1>1. /\ a.row = apply_snapshot(Resurrect(w.row), s)
        /\ a.led = IF synthesize_fills THEN synthesize_span(w.led, s.cum, "recon") ELSE w.led
    BY DEF adopt
  <1>2. Sound(a, o)
    BY AdoptSound
  <1>3. /\ w.row \in Row /\ a.row \in Row /\ row[o] \in Row
        /\ s.status \in BrokerStatus /\ s.cum \in Quantity
    BY <1>2 DEF Sound, Work, TypeOK, Snapshot
  <1> HIDE DEF a
  <1>4. Onward(w.row, a.row, o)
    BY <1>1, <1>3, ApplyOnward
  <1>5. Onward(row[o], a.row, o)
    BY <1>3, <1>4, OnwardTwice DEF Kept
  <1>6. keys[o] \subseteq a.led.keys
    BY <1>1, KeysGrow DEF Kept
  <1> QED BY <1>5, <1>6 DEF Kept, a

(* The reconcile transaction, both its passes over the orders.  Neither     *)
(* touches an order that has no row yet.                                    *)
LEMMA TransactionKept ==
  ASSUME IInv, FirstThingsFirst, NEW m \in Modes, NEW o \in Orders, NEW aged, NEW gone
  PROVE  LET w == sweep_ledger_deficits(m, o, AdoptOrAge(m, o, aged), gone)
         IN  Kept(w, o) /\ (row[o] = NoRow => w.row = NoRow)
  <1> DEFINE b == [row |-> row[o], led |-> LedgerOf(o)]
             a == AdoptOrAge(m, o, aged)
             w == sweep_ledger_deficits(m, o, a, gone)
  <1> SUFFICES Kept(w, o) /\ (row[o] = NoRow => w.row = NoRow)
    OBVIOUS
  <1>1. /\ row[o] \in Row /\ ledger[o] \in Quantity /\ bCum[o] \in Quantity
        /\ (m = "engine") \in BOOLEAN
    BY DEF IInv, TypeOK
  <1>2. Sound(b, o) /\ Kept(b, o)
    BY <1>1, QtyAssumption
       DEF Sound, Kept, Onward, Work, Covered, LedgerOf, Ledger, Quantity, Row, IInv, TypeOK,
           LedgerWithinBroker, KeysCovered, RowIsBrokerTruth
  <1>3. Sound(a, o)
    BY AdoptOrAgeSound
  <1>4. Kept(a, o) /\ (row[o] = NoRow => a.row = NoRow)
    <2>1. CASE rec[m].seen[o] # Unknown /\ b.row.status # "none"
      <3>1. a = adopt(b, rec[m].seen[o], m = "engine") /\ row[o] # NoRow
        BY <2>1 DEF AdoptOrAge, NoRow
      <3>2. /\ rec[m].seen[o] \in Snapshot /\ bStatus[o] # "none"
            /\ TrueOf(rec[m].seen[o].status, rec[m].seen[o].cum, o)
        BY <2>1 DEF FirstThingsFirst, IInv, TypeOK, Reconciler, EvidenceIsTrue
      <3> HIDE DEF b
      <3>3. Kept(adopt(b, rec[m].seen[o], m = "engine"), o)
        BY <1>1, <1>2, <3>2, AdoptKept DEF IInv
      <3> QED BY <3>1, <3>3
    <2>2. CASE /\ ~(rec[m].seen[o] # Unknown /\ b.row.status # "none")
               /\ o \in aged /\ b.row.status = "pending_submit"
      <3>1. a = [b EXCEPT !.row.status = "failed"] /\ row[o] # NoRow
        BY <2>2 DEF AdoptOrAge, NoRow
      <3>2. /\ a.led.keys = keys[o] /\ a.row.filled = row[o].filled
            /\ ~is_absorbing(row[o].status)
        BY <1>1, <2>2, <3>1 DEF LedgerOf, Row, is_absorbing, ABSORBING
      <3> QED BY <1>1, <3>1, <3>2, QtyAssumption DEF Kept, Onward, Row, Quantity
    <2>3. CASE /\ ~(rec[m].seen[o] # Unknown /\ b.row.status # "none")
               /\ ~(o \in aged /\ b.row.status = "pending_submit")
      <3>1. a = b
        BY <2>3 DEF AdoptOrAge
      <3> QED BY <1>2, <3>1
    <2> QED BY <2>1, <2>2, <2>3
  <1> HIDE DEF a
  <1>5. CASE m # "engine" \/ a.row.filled <= a.led.qty
    <2>1. w = a
      BY <1>5 DEF sweep_ledger_deficits
    <2> HIDE DEF w
    <2> QED BY <1>4, <2>1
  <1>6. CASE ~(m # "engine" \/ a.row.filled <= a.led.qty)
    <2>1. /\ a.row.filled \in Quantity /\ a.led.qty \in Quantity
          /\ ledger[o] <= a.led.qty /\ a.row.filled <= bCum[o]
      BY <1>3 DEF Sound, Work, Row, Ledger, TrueOf
    <2>2. bCum[o] # 0 /\ a.row.filled # 0
      BY <1>1, <1>6, <2>1, QtyAssumption DEF Quantity
    <2>3. bStatus[o] # "none" /\ row[o] # NoRow
      BY <1>4, <2>2 DEF FirstThingsFirst, NoRow
    <2>4. CASE o \in gone
      <3>1. w = [a EXCEPT !.led = synthesize_span(@, a.row.filled, "recon")]
        BY <1>6, <2>4 DEF sweep_ledger_deficits
      <3>2. w.row = a.row /\ w.led = synthesize_span(a.led, a.row.filled, "recon")
        BY <1>3, <3>1 DEF Sound, Work
      <3>3. a.led.keys \subseteq w.led.keys
        BY <3>2, KeysGrow
      <3> HIDE DEF w
      <3> QED BY <1>4, <2>3, <3>2, <3>3 DEF Kept
    <2>5. CASE o \notin gone
      <3>1. w = adopt(a, BrokerView(o), TRUE)
        BY <1>6, <2>5 DEF sweep_ledger_deficits
      <3>2. BrokerView(o) \in Snapshot /\ TrueOf(BrokerView(o).status, BrokerView(o).cum, o)
        BY QtyAssumption DEF BrokerView, Snapshot, TrueOf, IInv, TypeOK, Quantity
      <3>3. Kept(adopt(a, BrokerView(o), TRUE), o)
        BY <1>3, <1>4, <2>3, <3>2, AdoptKept DEF IInv
      <3> HIDE DEF w
      <3> QED BY <2>3, <3>1, <3>3
    <2> QED BY <2>4, <2>5
  <1> QED BY <1>5, <1>6

-----------------------------------------------------------------------------
(* What each step does to one order.                                        *)
Regressless(o) ==
  /\ row'[o].filled >= row[o].filled /\ ledger'[o] >= ledger[o] /\ keys[o] \subseteq keys'[o]
  /\ is_absorbing(row[o].status) /\ row'[o] \notin {row[o], [row[o] EXCEPT !.known = TRUE]} =>
       /\ row[o].status = "failed"
       /\ row'[o].status = "rejected" \/ bStatus[o] # "none"

(* A step that leaves the durable rows alone.                               *)
LEMMA NothingTouched ==
  ASSUME TypeOK, UNCHANGED <<row, ledger, keys>>
  PROVE  \A o \in Orders : Regressless(o)
  BY QtyAssumption DEF Regressless, TypeOK, Row, Quantity

(* Steps of the broker.                                                     *)
LEMMA BrokerStepOnward ==
  ASSUME IInv, FirstThingsFirst, NEW o \in Orders, BrokerStep(o)
  PROVE  (\A p \in Orders : Regressless(p)) /\ FirstThingsFirst'
  <1>1. UNCHANGED <<row, ledger, keys, rec, pc>>
    BY DEF BrokerStep, BrokerAccept, BrokerRefuse, BrokerFill, BrokerCancel, broker, money
  <1>2. \A p \in Orders : Regressless(p)
    BY <1>1, NothingTouched DEF IInv
  <1>3. \A p \in Orders : /\ bStatus'[p] = "none" => bStatus[p] = "none"
                          /\ bStatus'[p] = "none" => bCum'[p] = bCum[p] /\ emitted'[p] = emitted[p]
    BY DEF BrokerStep, BrokerAccept, BrokerRefuse, BrokerFill, BrokerCancel, Emit, broker, IInv, TypeOK
  <1> QED BY <1>1, <1>2, <1>3 DEF FirstThingsFirst

(* Steps of the execution stage.  A refusal can only meet a row that no     *)
(* broker evidence ever touched.                                            *)
LEMMA ExecutionStepOnward ==
  ASSUME IInv, FirstThingsFirst, NEW o \in Orders, ExecutionStep(o)
  PROVE  (\A p \in Orders : Regressless(p)) /\ FirstThingsFirst'
  <1>0. Onward(row[o], apply_snapshot(row[o], resp[o]), o)
    <2>1. row[o] \in Row /\ resp[o].status \in BrokerStatus /\ resp[o].cum \in Quantity
      BY DEF IInv, TypeOK, Snapshot
    <2> QED BY <2>1, ApplyOnward
  <1> USE DEF ExecutionStep, Persist, Submit, ReceiveAck, ReceiveRefusal, LoseResponse,
              ResolveFound, GiveUp, AdoptResponse
  <1>1. UNCHANGED <<bStatus, bCum, emitted, ledger, keys, rec>>
    BY DEF broker, money
  <1>2. /\ \A p \in Orders : p # o => row'[p] = row[p] /\ pc'[p] = pc[p]
        /\ pc'[o] # "idle"
    BY DEF IInv, TypeOK
  <1>3. \/ row'[o] = row[o]
        \/ pc[o] = "idle" /\ row'[o] = [NoRow EXCEPT !.status = "pending_submit"]
        \/ request[o] = "rejected" /\ row'[o] = [row[o] EXCEPT !.status = "rejected"]
        \/ request[o] = "throttled" /\ row'[o] = [row[o] EXCEPT !.status = "failed"]
        \/ row'[o] = apply_snapshot(row[o], resp[o])
    BY DEF IInv, TypeOK
  <1>4. row[o] \in Row /\ \A p \in Orders : ledger[p] \in Quantity /\ row[p] \in Row
    BY DEF IInv, TypeOK
  <1>5. Regressless(o)
    <2>1. ledger'[o] >= ledger[o] /\ keys[o] \subseteq keys'[o] /\ row[o].filled >= row[o].filled
      BY <1>1, <1>4, QtyAssumption DEF Quantity, Row
    <2>2. CASE row'[o] = row[o]
      BY <2>1, <2>2 DEF Regressless
    <2>3. CASE pc[o] = "idle" /\ row'[o] = [NoRow EXCEPT !.status = "pending_submit"]
      <3>1. row[o] = NoRow
        BY <2>3 DEF FirstThingsFirst
      <3> QED BY <2>1, <2>3, <3>1 DEF Regressless, NoRow, is_absorbing, ABSORBING
    <2>4. CASE \/ request[o] = "rejected" /\ row'[o] = [row[o] EXCEPT !.status = "rejected"]
               \/ request[o] = "throttled" /\ row'[o] = [row[o] EXCEPT !.status = "failed"]
      <3>1. bStatus[o] = "none"
        BY <2>4 DEF IInv, RequestInv
      <3>2. row[o].status \notin Final
        BY <3>1 DEF IInv, RowIsBrokerTruth, TrueOf, Final
      <3>3. row[o].status = "rejected" => request[o] = "rejected"
        BY DEF IInv, RejectedIsRefused
      <3>4. row'[o].filled = row[o].filled
        BY <1>4, <2>4 DEF Row
      <3>5. CASE row[o].status = "rejected"
        <4>1. row'[o] = row[o]
          BY <1>4, <2>4, <3>3, <3>5 DEF Row
        <4> QED BY <2>2, <4>1
      <3>6. CASE row[o].status = "failed"
        <4>1. row'[o] = row[o] \/ row'[o].status = "rejected"
          BY <1>4, <2>4, <3>6 DEF Row
        <4> QED BY <2>1, <3>4, <3>6, <4>1 DEF Regressless
      <3>7. CASE row[o].status \notin {"rejected", "failed"}
        BY <2>1, <3>2, <3>4, <3>7 DEF Regressless, is_absorbing, ABSORBING, Final
      <3> QED BY <3>5, <3>6, <3>7
    <2>5. CASE row'[o] = apply_snapshot(row[o], resp[o])
      <3>1. Onward(row[o], row'[o], o)
        BY <1>0, <2>5
      <3> QED BY <2>1, <3>1 DEF Onward, Regressless
    <2> QED BY <1>3, <2>2, <2>3, <2>4, <2>5
  <1>6. \A p \in Orders : p # o => Regressless(p)
    BY <1>1, <1>2, <1>4, QtyAssumption DEF Regressless, Quantity, Row
  <1>7. FirstThingsFirst'
    BY <1>1, <1>2 DEF FirstThingsFirst
  <1> QED BY <1>5, <1>6, <1>7

(* One trade update: an event exists only of an order the broker knows.     *)
LEMMA ApplyTradeUpdateOnward ==
  ASSUME IInv, FirstThingsFirst, NEW o \in Orders, ApplyTradeUpdate(o)
  PROVE  (\A p \in Orders : Regressless(p)) /\ FirstThingsFirst'
  <1>1. PICK u \in emitted[o] :
          LET l == record_execution(LedgerOf(o), u)
          IN  /\ ledger' = [ledger EXCEPT ![o] = l.qty]
              /\ keys' = [keys EXCEPT ![o] = l.keys]
              /\ row' = [row EXCEPT ![o] =
                           apply_snapshot(Resurrect(@), [status |-> u.status, cum |-> u.cum])]
    BY DEF ApplyTradeUpdate
  <1> DEFINE l == record_execution(LedgerOf(o), u)
             s == [status |-> u.status, cum |-> u.cum]
  <1>2. u \in TradeUpdate /\ u.qty <= u.cum /\ s.status \in BrokerStatus /\ s.cum \in Quantity
    BY DEF IInv, TypeOK, EvidenceIsTrue, TradeUpdate
  <1>3. /\ LedgerOf(o) \in Ledger /\ Covered(LedgerOf(o))
        /\ LedgerOf(o).qty = ledger[o] /\ LedgerOf(o).keys = keys[o]
    BY DEF LedgerOf, Ledger, Covered, IInv, TypeOK, KeysCovered
  <1>4. l.qty >= ledger[o] /\ keys[o] \subseteq l.keys
    <2>1. l \in Ledger /\ LedgerOf(o).qty <= l.qty
      BY <1>2, <1>3, RecordExecution
    <2>2. LedgerOf(o).keys \subseteq l.keys
      BY KeysGrow
    <2> HIDE DEF l
    <2> QED BY <1>3, <2>1, <2>2, QtyAssumption DEF Ledger, Quantity
  <1>5. bStatus[o] # "none" /\ row[o].status # "none"
    BY DEF FirstThingsFirst, ApplyTradeUpdate
  <1>6. Onward(row[o], apply_snapshot(Resurrect(row[o]), s), o)
    BY <1>2, <1>5, ApplyOnward DEF IInv, TypeOK
  <1>7. /\ ledger'[o] = l.qty /\ keys'[o] = l.keys
        /\ row'[o] = apply_snapshot(Resurrect(row[o]), s)
        /\ \A p \in Orders : p # o => ledger'[p] = ledger[p] /\ keys'[p] = keys[p] /\ row'[p] = row[p]
    BY <1>1 DEF IInv, TypeOK
  <1> HIDE DEF l, s
  <1>8. Regressless(o)
    BY <1>4, <1>6, <1>7 DEF Onward, Regressless
  <1>9. \A p \in Orders : p # o => Regressless(p)
    BY <1>7, QtyAssumption DEF Regressless, IInv, TypeOK, Quantity, Row
  <1>10. FirstThingsFirst'
    BY <1>5, <1>7 DEF FirstThingsFirst, ApplyTradeUpdate, broker, NoRow
  <1> QED BY <1>8, <1>9, <1>10

(* The reconciler's reads touch nothing durable, and what they keep about   *)
(* an order comes from a broker that knows it.                              *)
LEMMA ReconcileReadOnward ==
  ASSUME IInv, FirstThingsFirst, NEW m \in Modes,
         \/ ReadPositions(m) \/ ReadOpenOrders(m) \/ ReadRows(m)
         \/ (\E o \in Orders : lookup(m, o)) \/ Abort(m)
  PROVE  (\A p \in Orders : Regressless(p)) /\ FirstThingsFirst'
  <1>1. UNCHANGED <<bStatus, bCum, emitted, pc, row, ledger, keys>>
    BY DEF ReadPositions, ReadOpenOrders, ReadRows, lookup, Abort, broker, money
  <1>2. \A p \in Orders : Regressless(p)
    BY <1>1, NothingTouched DEF IInv
  <1>3. \A n \in Modes, p \in Orders : rec'[n].seen[p] \in {rec[n].seen[p], BrokerView(p), Unknown}
    <2>1. rec \in [Modes -> Reconciler] /\ \A n \in Modes : rec[n].seen \in [Orders -> Snapshot]
      BY DEF IInv, TypeOK, Reconciler
    <2>2. \A n \in Modes : n # m => rec'[n] = rec[n]
      BY <2>1 DEF ReadPositions, ReadOpenOrders, ReadRows, lookup, Abort
    <2>3. CASE ReadPositions(m) \/ ReadRows(m)
      <3>1. rec'[m].seen = rec[m].seen
        BY <2>1, <2>3 DEF ReadPositions, ReadRows, Reconciler
      <3> QED BY <2>2, <3>1
    <2>4. CASE ReadOpenOrders(m)
      <3>1. rec'[m].seen = [o \in Orders |-> IF bStatus[o] = "open" THEN BrokerView(o) ELSE Unknown]
        BY <2>1, <2>4 DEF ReadOpenOrders, Reconciler
      <3> QED BY <2>2, <3>1
    <2>5. ASSUME NEW o \in Orders, lookup(m, o)
          PROVE  \A n \in Modes, p \in Orders :
                   rec'[n].seen[p] \in {rec[n].seen[p], BrokerView(p), Unknown}
      <3>1. rec'[m].seen = [rec[m].seen EXCEPT ![o] = BrokerView(o)]
        <4> DEFINE missed == IF /\ bStatus[o] = "none" /\ row[o].status = "pending_submit"
                                /\ ~row[o].known
                             THEN rec[m].unknown \cup {o} ELSE rec[m].unknown
                   got == BrokerView(o)
                   left == rec[m].todo \ {o}
        <4>1. rec' = [rec EXCEPT ![m].todo = left, ![m].seen[o] = got, ![m].unknown = missed]
          BY <2>1, <2>5 DEF lookup, Reconciler
        <4> HIDE DEF missed, got, left
        <4>2. rec'[m].seen = [rec[m].seen EXCEPT ![o] = got]
          BY <2>1, <4>1 DEF Reconciler
        <4> QED BY <4>2 DEF got
      <3>2. \A p \in Orders : rec'[m].seen[p] \in {rec[m].seen[p], BrokerView(p)}
        BY <2>1, <3>1
      <3> QED BY <2>2, <3>2
    <2>6. CASE Abort(m)
      <3>1. rec'[m].seen = [o \in Orders |-> Unknown]
        BY <2>1, <2>6 DEF Abort, IdleReconciler
      <3> QED BY <2>2, <3>1
    <2> QED BY <2>3, <2>4, <2>5, <2>6
  <1>4. \A p \in Orders : BrokerView(p) # Unknown => bStatus[p] # "none"
    BY DEF FirstThingsFirst, BrokerView, Unknown
  <1>5. ASSUME NEW n \in Modes, NEW p \in Orders, rec'[n].seen[p] # Unknown
        PROVE  bStatus[p] # "none"
    <2>1. rec'[n].seen[p] = rec[n].seen[p] \/ rec'[n].seen[p] = BrokerView(p)
      BY <1>3, <1>5
    <2>2. rec[n].seen[p] # Unknown => bStatus[p] # "none"
      BY DEF FirstThingsFirst
    <2> QED BY <1>4, <1>5, <2>1, <2>2
  <1> QED BY <1>1, <1>2, <1>5 DEF FirstThingsFirst

(* The reconcile transaction.                                               *)
LEMMA CommitOnward ==
  ASSUME IInv, FirstThingsFirst, NEW m \in Modes, Commit(m)
  PROVE  (\A p \in Orders : Regressless(p)) /\ FirstThingsFirst'
  <1>1. PICK aged \in SUBSET rec[m].unknown, gone \in SUBSET Orders :
          LET w == [o \in Orders |->
                      sweep_ledger_deficits(m, o, AdoptOrAge(m, o, aged), gone)]
          IN  /\ row' = [o \in Orders |-> w[o].row]
              /\ ledger' = [o \in Orders |-> w[o].led.qty]
              /\ keys' = [o \in Orders |-> w[o].led.keys]
    BY DEF Commit
  <1> DEFINE w(o) == sweep_ledger_deficits(m, o, AdoptOrAge(m, o, aged), gone)
  <1>2. \A o \in Orders : row'[o] = w(o).row /\ ledger'[o] = w(o).led.qty /\ keys'[o] = w(o).led.keys
    BY <1>1
  <1>3. \A o \in Orders : Sound(w(o), o)
    BY AdoptOrAgeSound, SweepSound
  <1>4. \A o \in Orders : Kept(w(o), o) /\ (row[o] = NoRow => w(o).row = NoRow)
    BY TransactionKept
  <1> HIDE DEF w
  <1>5. \A o \in Orders : Regressless(o)
    <2> SUFFICES ASSUME NEW o \in Orders PROVE Regressless(o)
      OBVIOUS
    <2>1. ledger'[o] >= ledger[o]
      BY <1>2, <1>3, QtyAssumption DEF Sound, Work, Ledger, Quantity, IInv, TypeOK
    <2>2. keys[o] \subseteq keys'[o] /\ Onward(row[o], row'[o], o)
      BY <1>2, <1>4 DEF Kept
    <2> QED BY <2>1, <2>2 DEF Onward, Regressless
  <1>6. UNCHANGED <<bStatus, bCum, emitted, pc>> /\ rec' = [rec EXCEPT ![m] = IdleReconciler]
    BY DEF Commit, broker
  <1>7. FirstThingsFirst'
    <2>1. \A n \in Modes, p \in Orders : rec'[n].seen[p] \in {rec[n].seen[p], Unknown}
      BY <1>6 DEF IdleReconciler, IInv, TypeOK
    <2> QED BY <1>2, <1>4, <1>6, <2>1 DEF FirstThingsFirst
  <1> QED BY <1>5, <1>7

(* Every step, real or stuttering.                                          *)
LEMMA NextOnward ==
  ASSUME IInv, FirstThingsFirst, [Next]_vars
  PROVE  (\A p \in Orders : Regressless(p)) /\ FirstThingsFirst'
  <1>1. ASSUME NEW o \in Orders, BrokerStep(o) \/ ExecutionStep(o) \/ ApplyTradeUpdate(o)
        PROVE  (\A p \in Orders : Regressless(p)) /\ FirstThingsFirst'
    BY <1>1, BrokerStepOnward, ExecutionStepOnward, ApplyTradeUpdateOnward
  <1>2. ASSUME NEW m \in Modes, ReconcileStep(m)
        PROVE  (\A p \in Orders : Regressless(p)) /\ FirstThingsFirst'
    BY <1>2, ReconcileReadOnward, CommitOnward DEF ReconcileStep
  <1>3. CASE Crash
    <2>1. /\ UNCHANGED <<bStatus, bCum, emitted, row, ledger, keys>>
          /\ \A o \in Orders : pc'[o] = "idle" => pc[o] = "idle"
          /\ \A n \in Modes, p \in Orders : rec'[n].seen[p] \in {rec[n].seen[p], Unknown}
      BY <1>3 DEF Crash, broker, money, IdleReconciler
    <2> QED BY <2>1, NothingTouched DEF FirstThingsFirst, IInv
  <1>4. CASE UNCHANGED vars
    BY <1>4, NothingTouched DEF vars, broker, money, FirstThingsFirst, IInv
  <1> QED BY <1>1, <1>2, <1>3, <1>4 DEF Next

-----------------------------------------------------------------------------
(* Theorems.                                                                *)

(* The inductive invariant holds in every reachable state.                  *)
THEOREM Invariance == Spec => []IInv
  BY InitIInv, NextIInv, PTL DEF Spec

(* Type correctness of the whole order life cycle.                          *)
THEOREM TypeCorrect == Spec => []TypeOK
  <1>1. IInv => TypeOK
    BY DEF IInv
  <1> QED BY <1>1, Invariance, PTL

(* The fill ledger never books a share the broker did not execute, whatever *)
(* is lost, replayed, reordered, reconciled or restarted.                   *)
THEOREM NoPhantomShare == Spec => []LedgerWithinBroker
  <1>1. IInv => LedgerWithinBroker
    BY DEF IInv
  <1> QED BY <1>1, Invariance, PTL

(* A deterministic or execution key never hides a span that is missing.     *)
THEOREM NoSwallowedSpan == Spec => []KeysCovered
  <1>1. IInv => KeysCovered
    BY DEF IInv
  <1> QED BY <1>1, Invariance, PTL

(* No row is ahead of the broker, and a row that is filled or canceled is   *)
(* so at the broker, with the same quantity.                                *)
THEOREM RowTruth == Spec => []RowIsBrokerTruth
  <1>1. IInv => RowIsBrokerTruth
    BY DEF IInv
  <1> QED BY <1>1, Invariance, PTL

(* A rejected row's order was refused and never becomes live.               *)
THEOREM RejectionIsFinal == Spec => []RejectedIsRefused
  <1>1. IInv => RejectedIsRefused
    BY DEF IInv
  <1> QED BY <1>1, Invariance, PTL

(* Quantities, Fill rows and final statuses never go backwards, on any      *)
(* interleaving of the three writers with a broker, crashes and late news.  *)
THEOREM RowsNeverRegress == Spec => NothingRegresses
  <1>1. Init => FirstThingsFirst
    BY DEF Init, FirstThingsFirst, IdleReconciler
  <1>2. IInv /\ FirstThingsFirst /\ [Next]_vars => FirstThingsFirst'
    BY NextOnward
  <1>3. Spec => []FirstThingsFirst
    BY <1>1, <1>2, Invariance, PTL DEF Spec
  <1>4. IInv /\ FirstThingsFirst /\ [Next]_vars =>
          [\A o \in Orders :
             /\ row'[o].filled >= row[o].filled /\ ledger'[o] >= ledger[o] /\ keys[o] \subseteq keys'[o]
             /\ is_absorbing(row[o].status) /\ row'[o] \notin {row[o], [row[o] EXCEPT !.known = TRUE]} =>
                  /\ row[o].status = "failed"
                  /\ row'[o].status = "rejected" \/ bStatus[o] # "none"]_vars
    BY NextOnward DEF Regressless
  <1> QED BY <1>3, <1>4, Invariance, PTL DEF Spec, NothingRegresses
=============================================================================
