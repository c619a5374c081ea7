--------------------------- MODULE RiskGateProofs --------------------------
(***************************************************************************)
(* Proofs about the risk gate, for every set of symbols, every limit and   *)
(* every bound.                                                            *)
(*                                                                         *)
(* Sums over finite sets of trades come first, by the lemmas LotBookProofs *)
(* has for its own book: a statement is proved by taking a smallest set of *)
(* indices for which it fails.  Then the arithmetic of the controls, what  *)
(* the bus, the rows and the trades look like after one more, the parts of *)
(* the inductive invariant, and for each part that every step keeps it.    *)
(***************************************************************************)
EXTENDS RiskGate, FiniteSetTheorems, WellFoundedInduction, TLAPS

-----------------------------------------------------------------------------
(* What RiskAssumption says of each constant, a fact apiece.                *)
LEMMA Parameters ==
  /\ IsFiniteSet(Symbols) /\ Proven \in BOOLEAN
  /\ MaxEntries \in Nat \ {0} /\ MaxPositions \in Nat \ {0} /\ MaxLosses \in Nat \ {0}
  /\ DayLen \in Nat \ {0} /\ Price \in Nat \ {0} /\ Equity0 \in Nat \ {0}
  /\ StrategyPct \in Nat /\ UnprovenPct \in Nat /\ CeilingPct \in Nat
  /\ DayMultiple \in Nat /\ PortfolioPct \in Nat /\ HalvePct \in Nat /\ HaltPct \in Nat
  /\ Cooldown \in Nat /\ Headroom \in Nat /\ Power \in Nat /\ Buffer \in Nat
  /\ MaxMinute \in Nat /\ MaxTrades \in Nat /\ MaxCrashes \in Nat
  <1>1. \A c \in {MaxEntries, MaxPositions, MaxLosses, DayLen, Price, Equity0} : c \in Nat \ {0}
    BY RiskAssumption, Zenon
  <1>2. \A c \in {StrategyPct, UnprovenPct, CeilingPct, DayMultiple, PortfolioPct, HalvePct,
                  HaltPct, Cooldown, Headroom, Power, Buffer, MaxMinute, MaxTrades, MaxCrashes} :
           c \in Nat
    BY RiskAssumption, Zenon
  <1>3. IsFiniteSet(Symbols) /\ Proven \in BOOLEAN
    BY RiskAssumption, Zenon
  <1> QED BY <1>1, <1>2, <1>3

-----------------------------------------------------------------------------
(* Sums.                                                                    *)

(* A nonempty collection of finite subsets of a set has a minimal one.      *)
LEMMA MinimalSet ==
  ASSUME NEW S, NEW C \in SUBSET FiniteSubsetsOf(S), C # {}
  PROVE  \E T \in C : \A U \in C : U \subseteq T => U = T
  <1> DEFINE R == StrictSubsetOrdering(S)
  <1>1. IsWellFoundedOn(R, FiniteSubsetsOf(S))
    BY FS_StrictSubsetOrderingWellFounded
  <1> HIDE DEF R
  <1>3. \E T \in C : \A U \in C : ~ (<<U, T>> \in R)
    BY <1>1, WFMin
  <1>5. PICK T \in C : \A U \in C : <<U, T>> \notin R
    BY <1>3
  <1>4. ASSUME NEW U \in C, U \subseteq T, U # T
        PROVE  <<U, T>> \in R
    BY <1>4 DEF R, StrictSubsetOrdering, FiniteSubsetsOf
  <1>6. \A U \in C : U \subseteq T => U = T
    BY <1>4, <1>5
  <1> QED BY <1>6, Zenon

LEMMA LeastNat ==
  ASSUME NEW T \in SUBSET Nat, T # {}
  PROVE  \E n \in T : \A m \in T : n <= m
  <1> DEFINE C == {0 .. n : n \in T}
  <1>1. C # {} /\ C \in SUBSET FiniteSubsetsOf(Nat)
    <2>1. \A n \in T : 0 .. n \subseteq Nat /\ IsFiniteSet(0 .. n)
      BY FS_Interval
    <2> QED BY <2>1 DEF FiniteSubsetsOf
  <1>5. C = {0 .. n : n \in T}
    OBVIOUS
  <1> HIDE DEF C
  <1>2. PICK A \in C : \A U \in C : U \subseteq A => U = A
    BY <1>1, MinimalSet
  <1>3. PICK n \in T : A = 0 .. n
    BY <1>5
  <1>4. ASSUME NEW m \in T, m < n
        PROVE  FALSE
    <2>1. 0 .. m \in C /\ 0 .. m \subseteq A
      BY <1>3, <1>4, <1>5
    <2>2. 0 .. m = 0 .. n
      BY <1>2, <1>3, <2>1
    <2>3. n \in 0 .. n /\ n \notin 0 .. m
      BY <1>4
    <2> QED BY <2>2, <2>3
  <1> QED BY <1>4

(* The function that SumFunctionOnSet folds with.                           *)
Pick(s) == CHOOSE x \in s : TRUE
FoldsTo(f, S, g) ==
  g = [s \in SUBSET S |-> IF s = {} THEN 0 ELSE f[Pick(s)] + g[s \ {Pick(s)}]]

LEMMA SumIsFold ==
  ASSUME NEW f, NEW S
  PROVE  SumFunctionOnSet(f, S) = (CHOOSE g : FoldsTo(f, S, g))[S]
  BY DEF SumFunctionOnSet, FoldFunctionOnSet, MapThenFoldSet, FoldsTo, Pick

LEMMA FoldAt ==
  ASSUME NEW f, NEW S, NEW g, FoldsTo(f, S, g), NEW s \in SUBSET S
  PROVE  g[s] = IF s = {} THEN 0 ELSE f[Pick(s)] + g[s \ {Pick(s)}]
  <1> DEFINE h == [t \in SUBSET S |-> IF t = {} THEN 0 ELSE f[Pick(t)] + g[t \ {Pick(t)}]]
  <1>1. g = h
    BY DEF FoldsTo
  <1>2. h[s] = IF s = {} THEN 0 ELSE f[Pick(s)] + g[s \ {Pick(s)}]
    OBVIOUS
  <1> HIDE DEF h
  <1> QED BY <1>1, <1>2

LEMMA PickIn ==
  ASSUME NEW s, s # {}
  PROVE  Pick(s) \in s
  BY DEF Pick

(* Two such functions agree where their domains overlap.                    *)
LEMMA FoldsAgree ==
  ASSUME NEW f, NEW S, NEW T, NEW g, NEW h, FoldsTo(f, S, g), FoldsTo(f, T, h),
         IsFiniteSet(S)
  PROVE  \A s \in SUBSET (S \cap T) : g[s] = h[s]
  <1> DEFINE C == {s \in SUBSET (S \cap T) : g[s] # h[s]}
  <1> SUFFICES ASSUME C # {} PROVE FALSE
    OBVIOUS
  <1>1. C \in SUBSET FiniteSubsetsOf(S)
    BY FS_Subset DEF FiniteSubsetsOf
  <1>2. PICK s \in C : \A u \in C : u \subseteq s => u = s
    <2> HIDE DEF C
    <2> QED BY <1>1, MinimalSet
  <1>7. s \in SUBSET S /\ s \in SUBSET T /\ g[s] # h[s]
    BY <1>2
  <1>8. \A t \in SUBSET (S \cap T) : t \notin C => g[t] = h[t]
    OBVIOUS
  <1> HIDE DEF C
  <1>3. g[s] = IF s = {} THEN 0 ELSE f[Pick(s)] + g[s \ {Pick(s)}]
    BY <1>7, FoldAt
  <1>4. h[s] = IF s = {} THEN 0 ELSE f[Pick(s)] + h[s \ {Pick(s)}]
    BY <1>7, FoldAt
  <1>5. CASE s = {}
    BY <1>3, <1>4, <1>5, <1>7
  <1>6. CASE s # {}
    <2>1. Pick(s) \in s
      BY <1>6, PickIn
    <2>2. s \ {Pick(s)} \notin C
      BY <1>2, <2>1
    <2>3. g[s \ {Pick(s)}] = h[s \ {Pick(s)}]
      BY <1>7, <1>8, <2>2
    <2> QED BY <1>3, <1>4, <1>6, <1>7, <2>3
  <1> QED BY <1>5, <1>6

LEMMA FoldExists ==
  ASSUME NEW f, NEW S, IsFiniteSet(S)
  PROVE  \E g : FoldsTo(f, S, g)
  <1> DEFINE C == {s \in SUBSET S : ~ \E g : FoldsTo(f, s, g)}
  <1> SUFFICES ASSUME C # {} PROVE FALSE
    OBVIOUS
  <1>1. C \in SUBSET FiniteSubsetsOf(S)
    BY FS_Subset DEF FiniteSubsetsOf
  <1>2. PICK s \in C : \A u \in C : u \subseteq s => u = s
    <2> HIDE DEF C
    <2> QED BY <1>1, MinimalSet
  <1>3. \A u \in SUBSET s : IsFiniteSet(u) /\ (u # s => \E g : FoldsTo(f, u, g))
    BY <1>1, <1>2, FS_Subset DEF FiniteSubsetsOf
  <1> DEFINE G(u) == CHOOSE g : FoldsTo(f, u, g)
  <1>4. \A u \in SUBSET s : u # s => FoldsTo(f, u, G(u))
    BY <1>3
  <1> HIDE DEF G
  <1> DEFINE v(u) == IF u = {} THEN 0 ELSE f[Pick(u)] + G(u \ {Pick(u)})[u \ {Pick(u)}]
             h == [u \in SUBSET s |-> v(u)]
  <1>5. ASSUME NEW u \in SUBSET s
        PROVE  h[u] = IF u = {} THEN 0 ELSE f[Pick(u)] + h[u \ {Pick(u)}]
    <2>1. CASE u = {}
      BY <2>1
    <2>2. CASE u # {}
      <3> DEFINE t == u \ {Pick(u)}
      <3>1. Pick(u) \in u
        BY <2>2, PickIn
      <3>2. t \in SUBSET s /\ t # s /\ IsFiniteSet(t)
        BY <1>3, <3>1
      <3>3. h[t] = v(t) /\ h[u] = f[Pick(u)] + G(t)[t]
        BY <2>2, <3>2
      <3>4. FoldsTo(f, t, G(t))
        BY <1>4, <3>2
      <3> HIDE DEF h
      <3>5. G(t)[t] = IF t = {} THEN 0 ELSE f[Pick(t)] + G(t)[t \ {Pick(t)}]
        <4> HIDE DEF t
        <4> QED BY <3>4, FoldAt
      <3>6. CASE t = {}
        BY <3>3, <3>5, <3>6, <2>2
      <3>7. CASE t # {}
        <4> DEFINE q == t \ {Pick(t)}
        <4>1. Pick(t) \in t /\ q \in SUBSET s /\ q # s
          BY <3>2, <3>7, PickIn
        <4>2. FoldsTo(f, q, G(q))
          BY <1>4, <4>1
        <4>3. G(t)[q] = G(q)[q]
          BY <3>2, <3>4, <4>2, FoldsAgree
        <4> QED BY <2>2, <3>3, <3>5, <3>7, <4>3
      <3> QED BY <3>6, <3>7
    <2> QED BY <2>1, <2>2
  <1>6. h = [u \in SUBSET s |-> h[u]]
    OBVIOUS
  <1> HIDE DEF h
  <1>7. FoldsTo(f, s, h)
    BY <1>5, <1>6 DEF FoldsTo
  <1> QED BY <1>2, <1>7

(* The sum over no indices, and over the rest once one is picked.           *)
LEMMA SumEmpty == \A f : SumFunctionOnSet(f, {}) = 0
  <1> TAKE f
  <1> DEFINE g == CHOOSE g : FoldsTo(f, {}, g)
  <1>1. FoldsTo(f, {}, g)
    BY FS_EmptySet, FoldExists
  <1>2. SumFunctionOnSet(f, {}) = g[{}]
    BY SumIsFold
  <1> HIDE DEF g
  <1> QED BY <1>1, <1>2, FoldAt

LEMMA SumPick ==
  ASSUME NEW f, NEW S, IsFiniteSet(S), S # {}
  PROVE  SumFunctionOnSet(f, S) = f[Pick(S)] + SumFunctionOnSet(f, S \ {Pick(S)})
  <1> DEFINE T == S \ {Pick(S)}
             g == CHOOSE g : FoldsTo(f, S, g)
             h == CHOOSE h : FoldsTo(f, T, h)
  <1>1. IsFiniteSet(T)
    BY FS_RemoveElement
  <1>2. SumFunctionOnSet(f, S) = g[S] /\ SumFunctionOnSet(f, T) = h[T]
    BY SumIsFold
  <1>3. FoldsTo(f, S, g)
    BY FoldExists
  <1> HIDE DEF g, T
  <1>4. FoldsTo(f, T, h)
    BY <1>1, FoldExists
  <1> HIDE DEF h
  <1>5. g[S] = f[Pick(S)] + g[S \ {Pick(S)}]
    BY <1>3, FoldAt
  <1>6. g[T] = h[T]
    <2>1. T \in SUBSET (S \cap T)
      BY DEF T
    <2> QED BY <1>3, <1>4, <2>1, FoldsAgree
  <1> QED BY <1>2, <1>5, <1>6 DEF T

(* Induction on the finite set of indices: a set for which a statement      *)
(* fails has a smallest subset for which it does.                           *)
LEMMA SumType ==
  ASSUME NEW S, IsFiniteSet(S), NEW f, \A i \in S : f[i] \in Int
  PROVE  SumFunctionOnSet(f, S) \in Int
  <1> DEFINE C == {s \in SUBSET S : SumFunctionOnSet(f, s) \notin Int}
  <1> SUFFICES ASSUME C # {} PROVE FALSE
    OBVIOUS
  <1>1. C \in SUBSET FiniteSubsetsOf(S)
    BY FS_Subset DEF FiniteSubsetsOf
  <1>2. PICK s \in C : \A u \in C : u \subseteq s => u = s
    <2> HIDE DEF C
    <2> QED BY <1>1, MinimalSet
  <1>3. IsFiniteSet(s) /\ s \in SUBSET S
    BY <1>1 DEF FiniteSubsetsOf
  <1>4. CASE s = {}
    BY <1>4, SumEmpty
  <1>5. CASE s # {}
    <2>1. Pick(s) \in s
      BY <1>5, PickIn
    <2>2. SumFunctionOnSet(f, s \ {Pick(s)}) \in Int
      BY <1>2, <2>1
    <2>3. SumFunctionOnSet(f, s) = f[Pick(s)] + SumFunctionOnSet(f, s \ {Pick(s)})
      BY <1>3, <1>5, SumPick
    <2> QED BY <1>3, <2>1, <2>2, <2>3
  <1> QED BY <1>4, <1>5

LEMMA SumNat ==
  ASSUME NEW S, IsFiniteSet(S), NEW f, \A i \in S : f[i] \in Nat
  PROVE  SumFunctionOnSet(f, S) \in Nat
  <1> DEFINE C == {s \in SUBSET S : SumFunctionOnSet(f, s) \notin Nat}
  <1> SUFFICES ASSUME C # {} PROVE FALSE
    OBVIOUS
  <1>1. C \in SUBSET FiniteSubsetsOf(S)
    BY FS_Subset DEF FiniteSubsetsOf
  <1>2. PICK s \in C : \A u \in C : u \subseteq s => u = s
    <2> HIDE DEF C
    <2> QED BY <1>1, MinimalSet
  <1>3. IsFiniteSet(s) /\ s \in SUBSET S
    BY <1>1 DEF FiniteSubsetsOf
  <1>4. CASE s = {}
    BY <1>4, SumEmpty
  <1>5. CASE s # {}
    <2>1. Pick(s) \in s
      BY <1>5, PickIn
    <2>2. SumFunctionOnSet(f, s \ {Pick(s)}) \in Nat
      BY <1>2, <2>1
    <2>3. SumFunctionOnSet(f, s) = f[Pick(s)] + SumFunctionOnSet(f, s \ {Pick(s)})
      BY <1>3, <1>5, SumPick
    <2> QED BY <1>3, <2>1, <2>2, <2>3
  <1> QED BY <1>4, <1>5

(* Any index can be taken out first.                                        *)
LEMMA SumTake ==
  ASSUME NEW S, IsFiniteSet(S), NEW f, \A i \in S : f[i] \in Int, NEW x \in S
  PROVE  SumFunctionOnSet(f, S) = f[x] + SumFunctionOnSet(f, S \ {x})
  <1> DEFINE Holds(s) == \A i \in s : SumFunctionOnSet(f, s) = f[i] + SumFunctionOnSet(f, s \ {i})
             C == {s \in SUBSET S : ~Holds(s)}
  <1> SUFFICES ASSUME C # {} PROVE FALSE
    OBVIOUS
  <1>1. C \in SUBSET FiniteSubsetsOf(S)
    BY FS_Subset DEF FiniteSubsetsOf
  <1>2. PICK s \in C : \A u \in C : u \subseteq s => u = s
    <2> HIDE DEF C
    <2> QED BY <1>1, MinimalSet
  <1>3. IsFiniteSet(s) /\ s \in SUBSET S
    BY <1>1 DEF FiniteSubsetsOf
  <1>4. PICK i \in s : ~(SumFunctionOnSet(f, s) = f[i] + SumFunctionOnSet(f, s \ {i}))
    BY <1>2
  <1> DEFINE p == Pick(s)
  <1>5. p \in s
    BY PickIn
  <1>6. SumFunctionOnSet(f, s) = f[p] + SumFunctionOnSet(f, s \ {p})
    BY <1>3, SumPick
  <1> HIDE DEF p
  <1>7. p # i
    BY <1>4, <1>6
  <1>8. \A u \in SUBSET s : u # s => Holds(u)
    BY <1>2, <1>3
  <1>9. SumFunctionOnSet(f, s \ {p}) = f[i] + SumFunctionOnSet(f, (s \ {p}) \ {i})
    BY <1>5, <1>7, <1>8
  <1>10. SumFunctionOnSet(f, s \ {i}) = f[p] + SumFunctionOnSet(f, (s \ {i}) \ {p})
    BY <1>5, <1>7, <1>8
  <1>11. (s \ {p}) \ {i} = (s \ {i}) \ {p}
    OBVIOUS
  <1>12. SumFunctionOnSet(f, (s \ {p}) \ {i}) \in Int
    <2>1. IsFiniteSet((s \ {p}) \ {i})
      BY <1>3, FS_RemoveElement
    <2> QED BY <1>3, <2>1, SumType
  <1>13. f[p] \in Int /\ f[i] \in Int
    BY <1>3, <1>5
  <1> DEFINE rest == SumFunctionOnSet(f, (s \ {p}) \ {i})
  <1>14. SumFunctionOnSet(f, s \ {p}) = f[i] + rest /\ SumFunctionOnSet(f, s \ {i}) = f[p] + rest
    BY <1>9, <1>10, <1>11
  <1>15. rest \in Int
    BY <1>12
  <1> HIDE DEF rest
  <1>16. SumFunctionOnSet(f, s) = f[i] + SumFunctionOnSet(f, s \ {i})
    BY <1>6, <1>13, <1>14, <1>15
  <1> QED BY <1>4, <1>16

(* Equal summands, equal sums.                                              *)
LEMMA SumSame ==
  ASSUME NEW S, IsFiniteSet(S), NEW f, NEW g, \A i \in S : f[i] = g[i]
  PROVE  SumFunctionOnSet(f, S) = SumFunctionOnSet(g, S)
  <1> DEFINE C == {s \in SUBSET S : SumFunctionOnSet(f, s) # SumFunctionOnSet(g, s)}
  <1> SUFFICES ASSUME C # {} PROVE FALSE
    OBVIOUS
  <1>1. C \in SUBSET FiniteSubsetsOf(S)
    BY FS_Subset DEF FiniteSubsetsOf
  <1>2. PICK s \in C : \A u \in C : u \subseteq s => u = s
    <2> HIDE DEF C
    <2> QED BY <1>1, MinimalSet
  <1>3. IsFiniteSet(s) /\ s \in SUBSET S
    BY <1>1 DEF FiniteSubsetsOf
  <1>4. CASE s = {}
    BY <1>4, SumEmpty
  <1>5. CASE s # {}
    <2>1. Pick(s) \in s
      BY <1>5, PickIn
    <2>2. SumFunctionOnSet(f, s \ {Pick(s)}) = SumFunctionOnSet(g, s \ {Pick(s)})
      BY <1>2, <1>3, <2>1
    <2>3. /\ SumFunctionOnSet(f, s) = f[Pick(s)] + SumFunctionOnSet(f, s \ {Pick(s)})
          /\ SumFunctionOnSet(g, s) = g[Pick(s)] + SumFunctionOnSet(g, s \ {Pick(s)})
      BY <1>3, <1>5, SumPick
    <2> QED BY <1>3, <2>1, <2>2, <2>3
  <1> QED BY <1>4, <1>5

(* The minimum of a set of naturals.                                        *)
LEMMA MinOfNats ==
  ASSUME NEW S \in SUBSET Nat, S # {}
  PROVE  Min(S) \in S /\ \A y \in S : Min(S) <= y
  <1>1. PICK n \in S : \A m \in S : n <= m
    BY LeastNat
  <1> QED BY <1>1 DEF Min

(* The maximum of two numbers.                                              *)
LEMMA MaxOfTwo ==
  ASSUME NEW a \in Int, NEW b \in Int
  PROVE  Max({a, b}) = IF a >= b THEN a ELSE b
  <1> DEFINE m == IF a >= b THEN a ELSE b
  <1>1. m \in {a, b} /\ \A y \in {a, b} : m >= y
    OBVIOUS
  <1>2. \A x \in {a, b} : (\A y \in {a, b} : x >= y) => x = m
    OBVIOUS
  <1> QED BY <1>1, <1>2 DEF Max

-----------------------------------------------------------------------------
(* Arithmetic of the controls.                                              *)

(* Days follow each other.                                                  *)
LEMMA DayOfGrows ==
  ASSUME NEW a \in Nat, NEW b \in Nat, a <= b
  PROVE  DayOf(a) \in Nat /\ DayOf(a) <= DayOf(b)
  <1>0. DayLen \in Nat /\ DayLen > 0
    BY Parameters
  <1> DEFINE p == a \div DayLen  q == b \div DayLen
  <1>1. p \in Nat /\ q \in Nat
    BY <1>0
  <1>2. p * DayLen <= a /\ b < q * DayLen + DayLen
    BY <1>0
  <1> QED BY <1>0, <1>1, <1>2 DEF DayOf

LEMMA Divided ==
  ASSUME NEW a \in Int, NEW d \in Nat \ {0}
  PROVE  a \div d \in Int /\ (a \div d) * d <= a
  OBVIOUS

(* The clamped risk per trade.                                              *)
LEMMA RiskPct ==
  /\ effective_risk_pct \in Nat
  /\ effective_risk_pct <= IF Proven THEN StrategyPct ELSE UnprovenPct
  <1> DEFINE S == {CeilingPct, StrategyPct} \cup (IF Proven THEN {} ELSE {UnprovenPct})
  <1>1. S \subseteq Nat /\ S # {} /\ (IF Proven THEN StrategyPct ELSE UnprovenPct) \in S
    BY Parameters
  <1>2. effective_risk_pct = Min(S)
    BY DEF effective_risk_pct
  <1> HIDE DEF S
  <1>3. Min(S) \in S /\ \A y \in S : Min(S) <= y
    BY <1>1, MinOfNats
  <1> QED BY <1>1, <1>2, <1>3

-----------------------------------------------------------------------------
(* The bus.                                                                 *)

Events ==
  [kind : {"bar", "signal"}, sym : Symbols] \cup [kind : {"order"}, sym : Symbols, qty : Nat \ {0}]

(* Where a signal or an order of a symbol is in a queue.                    *)
Entry(e, s) == e.kind # "bar" /\ e.sym = s
Where(q, s) == {k \in DOMAIN q : Entry(q[k], s)}

LEMMA WhereFinite ==
  ASSUME NEW q \in Seq(Events), NEW s
  PROVE  IsFiniteSet(Where(q, s)) /\ Cardinality(Where(q, s)) \in Nat
  <1>1. Where(q, s) \in SUBSET (1 .. Len(q))
    BY DEF Where
  <1>2. IsFiniteSet(1 .. Len(q))
    BY FS_Interval
  <1> QED BY <1>1, <1>2, FS_Subset, FS_CardinalityType

LEMMA WhereTail ==
  ASSUME NEW q \in Seq(Events), q # <<>>, NEW s
  PROVE  Cardinality(Where(q, s)) =
           Cardinality(Where(Tail(q), s)) + (IF Entry(Head(q), s) THEN 1 ELSE 0)
  <1> DEFINE W == Where(Tail(q), s)
             V == {k + 1 : k \in W}
             f == [k \in W |-> k + 1]
  <1>1. Tail(q) \in Seq(Events) /\ Len(Tail(q)) = Len(q) - 1 /\ \A k \in 1 .. Len(Tail(q)) : Tail(q)[k] = q[k + 1]
    OBVIOUS
  <1>2. IsFiniteSet(W) /\ Cardinality(W) \in Nat
    BY <1>1, WhereFinite
  <1>3. W \subseteq Nat
    BY <1>1 DEF Where
  <1>4. f \in Bijection(W, V)
    BY <1>3 DEF Bijection, Injection, Surjection, IsInjective
  <1>5. IsFiniteSet(V) /\ Cardinality(V) = Cardinality(W)
    BY <1>2, <1>4, FS_Bijection DEF ExistsBijection
  <1>6. Where(q, s) = IF Entry(Head(q), s) THEN V \cup {1} ELSE V
    <2>1. ASSUME NEW k \in Where(q, s), k # 1
          PROVE  k \in V
      <3>1. k - 1 \in 1 .. Len(Tail(q)) /\ k = (k - 1) + 1 /\ Tail(q)[k - 1] = q[k]
        BY <1>1, <2>1 DEF Where
      <3>2. k - 1 \in W
        BY <2>1, <3>1 DEF Where
      <3> QED BY <3>1, <3>2
    <2>2. ASSUME NEW k \in W
          PROVE  k + 1 \in Where(q, s)
      <3>1. k \in 1 .. Len(Tail(q)) /\ Entry(Tail(q)[k], s)
        BY <1>1 DEF Where
      <3>2. k + 1 \in DOMAIN q /\ Entry(q[k + 1], s)
        BY <1>1, <3>1
      <3> QED BY <3>2 DEF Where
    <2>3. 1 \in Where(q, s) <=> Entry(Head(q), s)
      BY DEF Where
    <2>4. \A k \in V : k \in Where(q, s)
      BY <2>2
    <2> HIDE DEF V, W
    <2> QED BY <2>1, <2>3, <2>4
  <1>7. 1 \notin V
    BY <1>1 DEF Where
  <1> HIDE DEF V, W
  <1>8. Cardinality(V \cup {1}) = Cardinality(V) + 1
    BY <1>5, <1>7, FS_AddElement
  <1> QED BY <1>5, <1>6, <1>8, <1>2 DEF W

LEMMA WhereAppend ==
  ASSUME NEW q \in Seq(Events), NEW e \in Events, NEW s
  PROVE  Cardinality(Where(Append(q, e), s)) =
           Cardinality(Where(q, s)) + (IF Entry(e, s) THEN 1 ELSE 0)
  <1>1. Len(Append(q, e)) = Len(q) + 1 /\ Append(q, e)[Len(q) + 1] = e
    OBVIOUS
  <1>2. \A k \in 1 .. Len(q) : Append(q, e)[k] = q[k]
    OBVIOUS
  <1>3. Where(Append(q, e), s) =
          IF Entry(e, s) THEN Where(q, s) \cup {Len(q) + 1} ELSE Where(q, s)
    BY <1>1, <1>2 DEF Where
  <1>4. Len(q) + 1 \notin Where(q, s)
    BY DEF Where
  <1>5. IsFiniteSet(Where(q, s)) /\ Cardinality(Where(q, s)) \in Nat
    BY WhereFinite
  <1>6. Cardinality(Where(q, s) \cup {Len(q) + 1}) = Cardinality(Where(q, s)) + 1
    BY <1>4, <1>5, FS_AddElement
  <1> QED BY <1>3, <1>5, <1>6

(* Bars alone.                                                              *)
LEMMA WhereBars ==
  ASSUME NEW q \in Bars
  PROVE  q \in Seq(Events) /\ \A k \in DOMAIN q : q[k].kind = "bar"
  <1>1. PICK S \in SUBSET Symbols : \E f \in SetToSeqs(S) : q = [k \in DOMAIN f |-> Bar(f[k])]
    BY DEF Bars
  <1>2. PICK f \in SetToSeqs(S) : q = [k \in DOMAIN f |-> Bar(f[k])]
    BY <1>1
  <1>3. f \in [1 .. Cardinality(S) -> S]
    BY DEF SetToSeqs
  <1>4. Cardinality(S) \in Nat
    BY Parameters, FS_Subset, FS_CardinalityType
  <1>5. DOMAIN q = 1 .. Cardinality(S) /\ \A k \in DOMAIN q : q[k] = Bar(f[k]) /\ f[k] \in Symbols
    BY <1>2, <1>3
  <1>6. \A k \in DOMAIN q : q[k] \in Events /\ q[k].kind = "bar"
    BY <1>5 DEF Bar, Events
  <1>7. q = [k \in 1 .. Cardinality(S) |-> q[k]]
    BY <1>2, <1>3
  <1>8. q \in [1 .. Cardinality(S) -> Events]
    BY <1>5, <1>6, <1>7
  <1> QED BY <1>4, <1>6, <1>8

-----------------------------------------------------------------------------
(* Trades, and one more of them.                                            *)

Trades == [order : Nat \ {0}, qty : Int, pnl : Int, day : Int]

(* What Of, Left and PnL say of a sequence of trades.                       *)
OfIn(t, o, n) == {i \in 1 .. n : t[i].order = o}
QtyIn(t) == [i \in DOMAIN t |-> t[i].qty]
LeftIn(t, o, n) == SumFunctionOnSet(QtyIn(t), OfIn(t, o, n))
PnLIn(t, I) == SumFunctionOnSet([i \in DOMAIN t |-> t[i].pnl], I)

LEMMA OfInFinite ==
  ASSUME NEW t, NEW o, NEW n \in Nat
  PROVE  IsFiniteSet(OfIn(t, o, n)) /\ OfIn(t, o, n) \subseteq 1 .. n
  <1>1. IsFiniteSet(1 .. n)
    BY FS_Interval
  <1>2. OfIn(t, o, n) \in SUBSET (1 .. n)
    BY DEF OfIn
  <1> QED BY <1>1, <1>2, FS_Subset

LEMMA LeftInType ==
  ASSUME NEW t \in Seq(Trades), NEW o, NEW n \in 0 .. Len(t)
  PROVE  LeftIn(t, o, n) \in Int
  <1>1. IsFiniteSet(OfIn(t, o, n)) /\ OfIn(t, o, n) \subseteq 1 .. n
    BY OfInFinite
  <1>2. ASSUME NEW i \in OfIn(t, o, n)
        PROVE  QtyIn(t)[i] \in Int
    <2>1. i \in 1 .. Len(t)
      BY <1>1
    <2>2. t[i] \in Trades
      BY <2>1
    <2> QED BY <2>1, <2>2 DEF QtyIn, Trades
  <1> QED BY <1>1, <1>2, SumType DEF LeftIn

LEMMA PnLInType ==
  ASSUME NEW t \in Seq(Trades), NEW I \in SUBSET (1 .. Len(t))
  PROVE  PnLIn(t, I) \in Int
  <1> DEFINE f == [i \in DOMAIN t |-> t[i].pnl]
  <1>1. IsFiniteSet(I)
    <2>1. IsFiniteSet(1 .. Len(t))
      BY FS_Interval
    <2> QED BY <2>1, FS_Subset
  <1>2. ASSUME NEW i \in I
        PROVE  f[i] \in Int
    <2>1. i \in DOMAIN t /\ t[i] \in Trades
      OBVIOUS
    <2>2. f[i] = t[i].pnl
      BY <2>1
    <2>3. t[i].pnl \in Int
      BY <2>1 DEF Trades
    <2> QED BY <2>2, <2>3
  <1> HIDE DEF f
  <1>3. SumFunctionOnSet(f, I) \in Int
    BY <1>1, <1>2, SumType
  <1> QED BY <1>3 DEF PnLIn, f

(* No trade of an order, nothing left of it.                                *)
LEMMA LeftInNone ==
  ASSUME NEW t, NEW o, NEW n, OfIn(t, o, n) = {}
  PROVE  LeftIn(t, o, n) = 0
  BY SumEmpty DEF LeftIn

LEMMA TradeAppended ==
  ASSUME NEW t \in Seq(Trades), NEW x \in Trades
  PROVE  /\ Append(t, x) \in Seq(Trades) /\ Len(Append(t, x)) = Len(t) + 1
         /\ Append(t, x)[Len(t) + 1] = x
         /\ \A i \in 1 .. Len(t) : Append(t, x)[i] = t[i]
  OBVIOUS

LEMMA OfPrefix ==
  ASSUME NEW t \in Seq(Trades), NEW x \in Trades, NEW o, NEW n \in 0 .. Len(t)
  PROVE  OfIn(Append(t, x), o, n) = OfIn(t, o, n)
  <1>1. \A i \in 1 .. n : Append(t, x)[i] = t[i]
    OBVIOUS
  <1> DEFINE u == Append(t, x)
  <1> HIDE DEF u
  <1>2. OfIn(u, o, n) = OfIn(t, o, n)
    BY <1>1 DEF OfIn, u
  <1> QED BY <1>2 DEF u

LEMMA OfAppended ==
  ASSUME NEW t \in Seq(Trades), NEW x \in Trades, NEW o
  PROVE  /\ \A n \in 0 .. Len(t) : OfIn(Append(t, x), o, n) = OfIn(t, o, n)
         /\ OfIn(Append(t, x), o, Len(t) + 1) =
              IF x.order = o THEN OfIn(t, o, Len(t)) \cup {Len(t) + 1} ELSE OfIn(t, o, Len(t))
  <1>1. \A i \in 1 .. Len(t) : Append(t, x)[i] = t[i]
    OBVIOUS
  <1>2. Append(t, x)[Len(t) + 1] = x
    OBVIOUS
  <1>3. Len(t) \in Nat
    OBVIOUS
  <1> DEFINE u == Append(t, x)
  <1> HIDE DEF u
  <1>4. \A n \in 0 .. Len(t) : OfIn(u, o, n) = OfIn(t, o, n)
    BY OfPrefix DEF u
  <1>5. 1 .. Len(t) + 1 = (1 .. Len(t)) \cup {Len(t) + 1}
    BY <1>3
  <1>6. OfIn(u, o, Len(t) + 1) =
              IF x.order = o THEN OfIn(t, o, Len(t)) \cup {Len(t) + 1} ELSE OfIn(t, o, Len(t))
    BY <1>1, <1>2, <1>5 DEF OfIn, u
  <1> QED BY <1>4, <1>6 DEF u

LEMMA LeftAppended ==
  ASSUME NEW t \in Seq(Trades), NEW x \in Trades, NEW o
  PROVE  /\ \A n \in 0 .. Len(t) : LeftIn(Append(t, x), o, n) = LeftIn(t, o, n)
         /\ LeftIn(Append(t, x), o, Len(t) + 1) =
              LeftIn(t, o, Len(t)) + (IF x.order = o THEN x.qty ELSE 0)
  <1> DEFINE u == Append(t, x)
             last == Len(t) + 1
  <1>1. u \in Seq(Trades) /\ Len(u) = last /\ u[last] = x /\ \A i \in 1 .. Len(t) : u[i] = t[i]
    OBVIOUS
  <1>2. /\ \A n \in 0 .. Len(t) : OfIn(u, o, n) = OfIn(t, o, n)
        /\ OfIn(u, o, last) = IF x.order = o THEN OfIn(t, o, Len(t)) \cup {last} ELSE OfIn(t, o, Len(t))
    BY OfAppended
  <1>0. Len(t) \in Nat /\ last = Len(t) + 1
    OBVIOUS
  <1> HIDE DEF u, last
  <1>3. ASSUME NEW n \in 0 .. Len(t)
        PROVE  SumFunctionOnSet(QtyIn(u), OfIn(t, o, n)) = SumFunctionOnSet(QtyIn(t), OfIn(t, o, n))
    <2>1. IsFiniteSet(OfIn(t, o, n)) /\ OfIn(t, o, n) \subseteq 1 .. n
      BY <1>0, OfInFinite
    <2>2. ASSUME NEW i \in OfIn(t, o, n)
          PROVE  QtyIn(u)[i] = QtyIn(t)[i]
      <3>1. i \in 1 .. Len(t)
        BY <1>0, <2>1
      <3>2. i \in DOMAIN t /\ i \in DOMAIN u /\ u[i] = t[i]
        BY <1>0, <1>1, <3>1
      <3> QED BY <3>2 DEF QtyIn
    <2> QED BY <2>1, <2>2, SumSame
  <1>4. \A n \in 0 .. Len(t) : LeftIn(u, o, n) = LeftIn(t, o, n)
    BY <1>2, <1>3 DEF LeftIn
  <1>5. CASE x.order # o
    <2>1. LeftIn(u, o, last) = LeftIn(t, o, Len(t))
      BY <1>0, <1>2, <1>3, <1>5 DEF LeftIn
    <2>2. LeftIn(t, o, Len(t)) \in Int
      BY <1>0, LeftInType
    <2> QED BY <1>4, <1>5, <2>1, <2>2 DEF u, last
  <1>6. CASE x.order = o
    <2> DEFINE S == OfIn(t, o, Len(t)) \cup {last}
    <2>1. IsFiniteSet(OfIn(t, o, Len(t))) /\ OfIn(t, o, Len(t)) \subseteq 1 .. Len(t)
      BY <1>0, OfInFinite
    <2>2. IsFiniteSet(S) /\ last \in S /\ S \ {last} = OfIn(t, o, Len(t))
      BY <1>0, <2>1, FS_AddElement
    <2>3. ASSUME NEW i \in S
          PROVE  QtyIn(u)[i] \in Int
      <3>1. i \in 1 .. last
        BY <1>0, <2>1
      <3>2. i \in DOMAIN u /\ u[i] \in Trades
        BY <1>1, <3>1
      <3> QED BY <3>2 DEF QtyIn, Trades
    <2>5. OfIn(u, o, last) = S
      BY <1>2, <1>6
    <2> HIDE DEF S
    <2>4. SumFunctionOnSet(QtyIn(u), S) = QtyIn(u)[last] + SumFunctionOnSet(QtyIn(u), S \ {last})
      BY <2>2, <2>3, SumTake
    <2>6. QtyIn(u)[last] = x.qty
      BY <1>0, <1>1 DEF QtyIn
    <2>7. LeftIn(u, o, last) = x.qty + LeftIn(t, o, Len(t))
      <3>1. SumFunctionOnSet(QtyIn(u), OfIn(t, o, Len(t))) = SumFunctionOnSet(QtyIn(t), OfIn(t, o, Len(t)))
        BY <1>0, <1>3
      <3> QED BY <2>2, <2>4, <2>5, <2>6, <3>1 DEF LeftIn
    <2>8. LeftIn(t, o, Len(t)) \in Int /\ x.qty \in Int
      BY <1>0, LeftInType DEF Trades
    <2> QED BY <1>4, <1>6, <2>7, <2>8 DEF u, last
  <1> QED BY <1>5, <1>6

-----------------------------------------------------------------------------
(* The parts of the inductive invariant.                                    *)

Stages ==
  {Idle, [pc |-> "submit"]}
    \cup [pc : {"risk"}, sym : Symbols, equity : Int, last : Int, held : Int, power : Int]
Rows == [sym : Symbols, at : Nat, qty : Nat \ {0}, status : {"pending", "held", "dead"}]

Types ==
  /\ now \in 0 .. MaxMinute /\ up \in BOOLEAN
  /\ bus \in Seq(Events) /\ stage \in Stages
  /\ days \in [Symbols -> [day : Int, entries : 0 .. MaxEntries]]
  /\ orders \in Seq(Rows) /\ trades \in Seq(Trades) /\ booked \in 0 .. Executed
  /\ peak \in Int /\ peak >= Equity0 /\ crashes \in 0 .. MaxCrashes
  /\ began \in [executed : 0 .. Executed, booked : 0 .. booked]

(* Nothing is of the future, every trade is of a row, a row is held from    *)
(* its entry on, and the row that is being submitted is the last one.       *)
Shape ==
  /\ stage # Idle => up
  /\ \A s \in Symbols : days[s].day \in -1 .. Today
  /\ \A o \in DOMAIN orders : orders[o].at <= now
  /\ \A i \in DOMAIN trades : trades[i].order \in DOMAIN orders
  /\ \A o \in DOMAIN orders : (Of(o, Executed) # {}) <=> (orders[o].status = "held")
  /\ stage.pc = "submit" => orders # <<>> /\ orders[Len(orders)].status = "pending"

(* However many trades one looks at, what is left of a row is between       *)
(* nothing and its quantity, and from its entry on it only ebbs.            *)
Ledger ==
  \A o \in DOMAIN orders : \A n \in 0 .. Executed :
    /\ Left(o, n) \in 0 .. orders[o].qty
    /\ \A m \in n .. Executed : Of(o, n) # {} => Left(o, m) <= Left(o, n)

(* The rows of a symbol's session, the signals and orders it has on the     *)
(* bus, the signal being weighed: memory has counted them all, and once it  *)
(* has not seen the day there is none under way.                            *)
OfSession(s, d) == {o \in DOMAIN orders : orders[o].sym = s /\ DayOf(orders[o].at) = d}
Weighed(s) == IF stage.pc = "risk" /\ stage.sym = s THEN 1 ELSE 0

Slots ==
  \A s \in Symbols :
    /\ days[s].day = Today =>
         Cardinality(OfSession(s, Today)) + Cardinality(Where(bus, s)) + Weighed(s) <= days[s].entries
    /\ days[s].day # Today => Cardinality(Where(bus, s)) = 0 /\ Weighed(s) = 0
    /\ \A d \in 0 .. Today : Cardinality(OfSession(s, d)) <= MaxEntries

(* What the risk stage found still stands while its order waits: the open   *)
(* positions of the minute only shrink, and in a quiet minute neither the   *)
(* losses nor the ladder move.                                              *)
Room == Cardinality({orders[o].sym : o \in OpenThrough}) < MaxPositions

Losses ==
  /\ ~HitLimit(PnL(OfDay(Today, booked)), DayMultiple * Equity * effective_risk_pct)
  /\ ~HitLimit(PnL(OfDay(Today, Executed)), PortfolioPct * Equity)
  /\ streak(booked) < MaxLosses

Sized(q) ==
  /\ ~DrawnDown(Equity, HaltPct)
  /\ q * (100 * (IF DrawnDown(Equity, HalvePct) THEN 2 ELSE 1)) <= Equity * effective_risk_pct

Cleared ==
  /\ stage.pc = "risk" /\ Quiet => stage.equity = Equity /\ stage.last = SessionEquity
  /\ \A k \in DOMAIN bus : bus[k].kind = "order" =>
       /\ Room
       /\ \A o \in OpenThrough : orders[o].sym # bus[k].sym
       /\ Quiet => Losses /\ Sized(bus[k].qty)

Invariant == Types /\ Shape /\ Ledger /\ Slots /\ Cleared

-----------------------------------------------------------------------------
(* Types.                                                                   *)

LEMMA LeftType ==
  ASSUME Types, NEW o, NEW n \in 0 .. Executed
  PROVE  Left(o, n) \in Int
  BY LeftInType DEF Types, Left, LeftIn, QtyIn, Of, OfIn, Executed

LEMMA PnLType ==
  ASSUME Types, NEW I \in SUBSET (1 .. Executed)
  PROVE  PnL(I) \in Int
  BY PnLInType DEF Types, PnL, PnLIn, Executed

LEMMA Account ==
  ASSUME Types
  PROVE  /\ Equity \in Int /\ SessionEquity \in Int
         /\ MarketValue \in Int /\ BuyingPower \in Int
         /\ PnL(OfDay(Today, Executed)) \in Int /\ PnL(OfDay(Today, booked)) \in Int
  <1> DEFINE f == [o \in DOMAIN orders |-> Left(o, Executed)]
             S == Open(Executed)
  <1>1. Executed \in Nat /\ booked \in 0 .. Executed /\ orders \in Seq(Rows)
    BY DEF Types, Executed
  <1>2. PnL(1 .. Executed) \in Int
    BY PnLType
  <1>3. OfDay(Today, Executed) \in SUBSET (1 .. Executed) /\ OfDay(Today, booked) \in SUBSET (1 .. Executed)
    BY <1>1 DEF OfDay
  <1>4. PnL(OfDay(Today, Executed)) \in Int /\ PnL(OfDay(Today, booked)) \in Int
    BY <1>3, PnLType
  <1>5. IsFiniteSet(S) /\ S \subseteq DOMAIN orders
    <2>1. Len(orders) \in Nat /\ DOMAIN orders = 1 .. Len(orders)
      BY <1>1
    <2>2. IsFiniteSet(1 .. Len(orders))
      BY <2>1, FS_Interval
    <2>3. S \in SUBSET (1 .. Len(orders))
      BY <2>1 DEF Open
    <2> QED BY <2>1, <2>2, <2>3, FS_Subset
  <1>6. \A o \in S : f[o] \in Int
    BY <1>1, <1>5, LeftType
  <1> HIDE DEF f, S
  <1>7. SumFunctionOnSet(f, S) \in Int
    BY <1>5, <1>6, SumType
  <1>8. MarketValue = Price * SumFunctionOnSet(f, S)
    BY DEF MarketValue, f, S
  <1>9. Price \in Int /\ Power \in Int /\ Equity0 \in Int
    BY Parameters
  <1>10. MarketValue \in Int
    BY <1>7, <1>8, <1>9
  <1>11. Equity \in Int
    <2> DEFINE total == PnL(1 .. Executed)
    <2>1. total \in Int /\ Equity = Equity0 + total
      BY <1>2 DEF Equity
    <2> HIDE DEF total
    <2> QED BY <1>9, <2>1
  <1>12. SessionEquity \in Int
    <2> DEFINE today == PnL(OfDay(Today, Executed))
    <2>1. today \in Int /\ SessionEquity = Equity - today
      BY <1>4 DEF SessionEquity
    <2> HIDE DEF today
    <2> QED BY <1>11, <2>1
  <1>13. BuyingPower \in Int
    BY <1>9, <1>10 DEF BuyingPower
  <1> QED BY <1>4, <1>10, <1>11, <1>12, <1>13

(* The peak of the drawdown ladder.                                         *)
LEMMA PeakIs ==
  ASSUME Types, NEW e \in Int
  PROVE  peak_equity(e) \in Int /\ peak_equity(e) = IF peak >= e THEN peak ELSE e
  BY MaxOfTwo DEF Types, peak_equity

(* Whole shares, for no more than the risk of the account.                  *)
LEMMA Sizing ==
  ASSUME Types, NEW e \in Int
  PROVE  /\ size_position(e) \in Int
         /\ size_position(e) * (100 * (IF DrawnDown(e, HalvePct) THEN 2 ELSE 1)) <= e * effective_risk_pct
  <1> DEFINE h == 100 * (IF DrawnDown(e, HalvePct) THEN 2 ELSE 1)
             a == e * effective_risk_pct
  <1>1. h \in Nat \ {0}
    OBVIOUS
  <1>2. a \in Int
    BY RiskPct
  <1>3. size_position(e) = a \div h
    BY DEF size_position
  <1> HIDE DEF h, a
  <1>4. a \div h \in Int /\ (a \div h) * h <= a
    BY <1>1, <1>2, Divided
  <1> QED BY <1>3, <1>4 DEF h, a

LEMMA TypesInit == Init => Types
  <1> SUFFICES ASSUME Init PROVE Types
    OBVIOUS
  <1>1. bus \in Seq(Events)
    BY WhereBars DEF Init
  <1>2. trades \in Seq(Trades) /\ orders \in Seq(Rows) /\ Executed = 0
    BY DEF Init, Executed
  <1>3. days \in [Symbols -> [day : Int, entries : 0 .. MaxEntries]]
    BY Parameters DEF Init, NoDay
  <1>4. stage \in Stages
    BY DEF Init, Stages
  <1>5. /\ now = 0 /\ up = TRUE /\ booked = 0 /\ peak = Equity0 /\ crashes = 0
        /\ began = [executed |-> 0, booked |-> 0]
    BY DEF Init
  <1>6. /\ now \in 0 .. MaxMinute /\ up \in BOOLEAN /\ crashes \in 0 .. MaxCrashes
        /\ peak \in Int /\ peak >= Equity0
    BY <1>5, Parameters
  <1>7. booked \in 0 .. Executed /\ began \in [executed : 0 .. Executed, booked : 0 .. booked]
    BY <1>2, <1>5
  <1> QED BY <1>1, <1>2, <1>3, <1>4, <1>6, <1>7 DEF Types

LEMMA SessionRows ==
  ASSUME Types, NEW s, NEW d
  PROVE  IsFiniteSet(OfSession(s, d)) /\ Cardinality(OfSession(s, d)) \in Nat
  <1>1. OfSession(s, d) \in SUBSET (1 .. Len(orders))
    BY DEF Types, OfSession
  <1>2. IsFiniteSet(1 .. Len(orders))
    BY FS_Interval DEF Types
  <1> QED BY <1>1, <1>2, FS_Subset, FS_CardinalityType

LEMMA TodayType ==
  ASSUME Types
  PROVE  Today \in Nat /\ now \in Nat
  <1>1. now \in Nat
    BY Parameters DEF Types
  <1>2. DayOf(now) \in Nat
    BY <1>1, DayOfGrows
  <1> QED BY <1>1, <1>2 DEF Today

(* The head of a queue that is not empty.                                   *)
LEMMA HeadIs ==
  ASSUME Types, bus # <<>>
  PROVE  /\ Head(bus) \in Events /\ Tail(bus) \in Seq(Events) /\ Head(bus).sym \in Symbols
         /\ Head(bus).kind = "order" => Head(bus).qty \in Nat \ {0}
  <1>1. Head(bus) \in Events /\ Tail(bus) \in Seq(Events)
    BY DEF Types
  <1> QED BY <1>1 DEF Events

LEMMA TypesStep ==
  ASSUME Types, Shape, Ledger, Slots, [Next]_vars
  PROVE  Types'
  <1>0. bus \in Seq(Events) /\ orders \in Seq(Rows) /\ trades \in Seq(Trades) /\ Today \in Nat
    BY TodayType DEF Types
  <1>1. CASE OnBar
    <2> DEFINE s == Head(bus).sym
               count == IF days[s].day = Today THEN days[s].entries ELSE entries_already_today(s)
               fires == slot_left(count)
    <2>1. s \in Symbols /\ Tail(bus) \in Seq(Events)
      BY <1>1, HeadIs DEF OnBar, Heads
    <2>2. Cardinality(OfSession(s, Today)) \in 0 .. MaxEntries
      <3>1. Cardinality(OfSession(s, Today)) \in Nat
        BY SessionRows
      <3>2. Cardinality(OfSession(s, Today)) <= MaxEntries
        BY <1>0, <2>1 DEF Slots
      <3> QED BY <3>1, <3>2, Parameters
    <2>3. count \in 0 .. MaxEntries
      BY <2>1, <2>2 DEF Types, entries_already_today, OfSession
    <2>4. Signal(s) \in Events
      BY <2>1 DEF Signal, Events
    <2>5. days' = [days EXCEPT ![s] = [day |-> Today, entries |-> IF fires THEN count + 1 ELSE count]]
      BY <1>1 DEF OnBar
    <2>6. bus' = IF fires THEN Append(Tail(bus), Signal(s)) ELSE Tail(bus)
      BY <1>1 DEF OnBar
    <2>7. fires => count < MaxEntries
      BY DEF slot_left
    <2> HIDE DEF s, count, fires
    <2>8. bus' \in Seq(Events)
      BY <2>1, <2>4, <2>6
    <2>9. (IF fires THEN count + 1 ELSE count) \in 0 .. MaxEntries
      BY <2>3, <2>7, Parameters
    <2>10. days' \in [Symbols -> [day : Int, entries : 0 .. MaxEntries]]
      BY <1>0, <2>1, <2>5, <2>9 DEF Types
    <2>11. UNCHANGED <<now, up, stage, orders, trades, booked, peak, crashes, began>>
      BY <1>1 DEF OnBar, book
    <2> QED BY <2>8, <2>10, <2>11 DEF Types, Executed
  <1>2. CASE OnBarError
    BY <1>2, HeadIs DEF OnBarError, Heads, Types, book, Executed
  <1>3. CASE LoadAccount
    <2>1. Head(bus).sym \in Symbols /\ Tail(bus) \in Seq(Events)
      BY <1>3, HeadIs DEF LoadAccount, Heads
    <2>2. stage' \in Stages
      BY <1>3, <2>1, Account DEF LoadAccount, Stages
    <2>3. bus' \in Seq(Events) /\ UNCHANGED <<now, up, days, orders, trades, booked, peak, crashes, began>>
      BY <1>3, <2>1 DEF LoadAccount, book
    <2> QED BY <2>2, <2>3 DEF Types, Executed
  <1>4. ASSUME NEW b \in BOOLEAN, Evaluate(b)
        PROVE  Types'
    <2> DEFINE q == size_position(stage.equity)
    <2>1. stage.pc = "risk" /\ stage.sym \in Symbols /\ stage.equity \in Int
      BY <1>4 DEF Evaluate, Types, Stages, Idle
    <2>2. q \in Int
      BY <2>1, Sizing
    <2>3. ASSUME approved(stage, stage.sym, q)
          PROVE  Order(stage.sym, q) \in Events
      BY <2>1, <2>2, <2>3 DEF approved, Order, Events
    <2>4. bus' = bus \/ (bus' = Append(bus, Order(stage.sym, q)) /\ approved(stage, stage.sym, q))
      BY <1>4 DEF Evaluate
    <2>5. bus' \in Seq(Events)
      BY <1>0, <2>3, <2>4
    <2>6. stage' \in Stages
      BY <1>4 DEF Evaluate, Stages
    <2>7. UNCHANGED <<now, up, days, orders, trades, booked, peak, crashes, began>>
      BY <1>4 DEF Evaluate, book
    <2> QED BY <2>5, <2>6, <2>7 DEF Types, Executed
  <1>5. ASSUME NEW b \in BOOLEAN, PersistOrSuppress(b)
        PROVE  Types'
    <2>1. Tail(bus) \in Seq(Events) /\ Head(bus).sym \in Symbols /\ Head(bus).qty \in Nat \ {0}
      BY <1>5, HeadIs DEF PersistOrSuppress, Heads
    <2>2. Row(Head(bus).sym, Head(bus).qty) \in Rows
      BY <2>1, TodayType DEF Row, Rows
    <2>3. CASE b
      <3>1. orders' = orders /\ stage' = stage
        BY <1>5, <2>3 DEF PersistOrSuppress
      <3> QED BY <1>5, <2>1, <3>1 DEF PersistOrSuppress, Types, Executed
    <2>4. CASE ~b
      <3>1. orders' = Append(orders, Row(Head(bus).sym, Head(bus).qty)) /\ stage' = [pc |-> "submit"]
        BY <1>5, <2>4 DEF PersistOrSuppress
      <3>2. orders' \in Seq(Rows) /\ stage' \in Stages
        BY <1>0, <2>2, <3>1 DEF Stages
      <3>3. bus' = Tail(bus) /\ UNCHANGED <<now, up, days, trades, booked, peak, crashes, began>>
        BY <1>5 DEF PersistOrSuppress
      <3> QED BY <2>1, <3>2, <3>3 DEF Types, Executed
    <2> QED BY <2>3, <2>4
  <1>6. ASSUME NEW b \in BOOLEAN, Submit(b)
        PROVE  Types'
    <2> DEFINE l == Len(orders)
    <2>1. l \in DOMAIN orders /\ orders[l] \in Rows /\ l \in Nat \ {0}
      BY <1>0, <1>6 DEF Submit, Shape
    <2>2. Trade(l, orders[l].qty, 0) \in Trades
      BY <1>0, <2>1 DEF Trade, Trades, Rows
    <2>3. trades' \in Seq(Trades) /\ Len(trades') \in {Len(trades), Len(trades) + 1}
      BY <1>0, <1>6, <2>2 DEF Submit
    <2>4. orders' \in Seq(Rows)
      <3>1. [orders[l] EXCEPT !.status = IF b THEN "held" ELSE "dead"] \in Rows
        BY <2>1 DEF Rows
      <3>2. orders' = [orders EXCEPT ![l] = [orders[l] EXCEPT !.status = IF b THEN "held" ELSE "dead"]]
        BY <1>6, <2>1 DEF Submit
      <3> QED BY <1>0, <2>1, <3>1, <3>2
    <2>5. stage' \in Stages
      BY <1>6 DEF Submit, Stages
    <2>6. UNCHANGED <<now, up, bus, days, booked, peak, crashes, began>>
      BY <1>6 DEF Submit
    <2>7. Executed \in Nat /\ Executed' \in Nat /\ Executed <= Executed'
      BY <1>0, <2>3 DEF Executed
    <2>8. booked' \in 0 .. Executed' /\ began' \in [executed : 0 .. Executed', booked : 0 .. booked']
      BY <2>6, <2>7 DEF Types
    <2> QED BY <2>3, <2>4, <2>5, <2>6, <2>8 DEF Types
  <1>7. ASSUME NEW o \in DOMAIN orders, NEW k \in 1 .. orders[o].qty, NEW b \in BOOLEAN, BrokerExit(o, k, b)
        PROVE  Types'
    <2>1. o \in Nat \ {0} /\ k \in Int
      BY <1>0
    <2>2. Trade(o, -k, IF b THEN k ELSE -k) \in Trades
      BY <1>0, <2>1 DEF Trade, Trades
    <2>3. trades' \in Seq(Trades) /\ Len(trades') = Len(trades) + 1
      BY <1>0, <1>7, <2>2 DEF BrokerExit
    <2>6. UNCHANGED <<now, up, bus, stage, days, orders, booked, peak, crashes, began>>
      BY <1>7 DEF BrokerExit, memory
    <2>7. Executed \in Nat /\ Executed' \in Nat /\ Executed <= Executed'
      BY <1>0, <2>3 DEF Executed
    <2>8. booked' \in 0 .. Executed' /\ began' \in [executed : 0 .. Executed', booked : 0 .. booked']
      BY <2>6, <2>7 DEF Types
    <2> QED BY <2>3, <2>6, <2>8 DEF Types
  <1>8. CASE BookTrade
    <2>1. booked' \in 0 .. Executed /\ booked <= booked' /\ booked \in Nat /\ booked' \in Nat
      <3>1. booked \in 0 .. Executed /\ Executed \in Nat
        BY <1>0 DEF Types, Executed
      <3>2. booked < Executed /\ booked' = booked + 1
        BY <1>8 DEF BookTrade
      <3> QED BY <3>1, <3>2
    <2>2. UNCHANGED <<now, up, bus, stage, days, orders, trades, peak, crashes, began>>
      BY <1>8 DEF BookTrade, memory
    <2>3. began' \in [executed : 0 .. Executed', booked : 0 .. booked']
      BY <2>1, <2>2 DEF Types, Executed
    <2> QED BY <2>1, <2>2, <2>3 DEF Types, Executed
  <1>9. CASE NextMinute
    <2>1. bus' \in Seq(Events)
      <3>1. bus' \in IF up THEN Bars ELSE {<<>>}
        BY <1>9 DEF NextMinute
      <3>2. <<>> \in Seq(Events)
        OBVIOUS
      <3>3. ASSUME bus' \in Bars
            PROVE  bus' \in Seq(Events)
        <4> DEFINE q == bus'
        <4> HIDE DEF q
        <4>1. q \in Bars
          BY <3>3 DEF q
        <4>2. q \in Seq(Events)
          BY <4>1, WhereBars
        <4> QED BY <4>2 DEF q
      <3> QED BY <3>1, <3>2, <3>3
    <2>2. now' \in 0 .. MaxMinute
      <3>1. now \in 0 .. MaxMinute /\ now < MaxMinute /\ now' = now + 1 /\ MaxMinute \in Nat
        BY <1>9, Parameters DEF NextMinute, Types
      <3> QED BY <3>1
    <2>3. began' \in [executed : 0 .. Executed, booked : 0 .. booked]
      BY <1>0, <1>9 DEF NextMinute, Types, Executed
    <2>4. UNCHANGED <<up, stage, days, orders, trades, booked, peak, crashes>>
      BY <1>9 DEF NextMinute, book
    <2> QED BY <2>1, <2>2, <2>3, <2>4 DEF Types, Executed
  <1>10. CASE Crash
    <2>1. days' \in [Symbols -> [day : Int, entries : 0 .. MaxEntries]]
      BY <1>10, Parameters DEF Crash, NoDay
    <2>2. crashes' \in 0 .. MaxCrashes
      <3>1. crashes \in 0 .. MaxCrashes /\ crashes < MaxCrashes /\ crashes' = crashes + 1 /\ MaxCrashes \in Nat
        BY <1>10, Parameters DEF Crash, Types
      <3> QED BY <3>1
    <2>3. bus' \in Seq(Events) /\ stage' \in Stages
      BY <1>10 DEF Crash, Stages
    <2>4. up' \in BOOLEAN /\ UNCHANGED <<now, orders, trades, booked, peak, began>>
      BY <1>10 DEF Crash, book
    <2> QED BY <2>1, <2>2, <2>3, <2>4 DEF Types, Executed
  <1>11. CASE Reconcile
    <2>1. orders' \in Seq(Rows)
      <3>1. ASSUME NEW o \in DOMAIN orders
            PROVE  [orders[o] EXCEPT !.status = IF @ = "pending" THEN "dead" ELSE @] \in Rows
        <4>1. orders[o] \in Rows
          BY <1>0
        <4> QED BY <4>1 DEF Rows
      <3> DEFINE g == [o \in DOMAIN orders |->
                         [orders[o] EXCEPT !.status = IF @ = "pending" THEN "dead" ELSE @]]
      <3>2. orders' = g
        BY <1>11 DEF Reconcile
      <3>3. g \in [1 .. Len(orders) -> Rows] /\ Len(orders) \in Nat
        BY <1>0, <3>1
      <3> QED BY <3>2, <3>3
    <2>2. peak' \in Int /\ peak' >= Equity0
      <3>1. Equity \in Int /\ peak \in Int /\ peak >= Equity0 /\ Equity0 \in Int
        BY Account, Parameters DEF Types
      <3>2. peak' = Max({peak, Equity})
        BY <1>11 DEF Reconcile
      <3> HIDE DEF Equity
      <3>3. Max({peak, Equity}) = IF peak >= Equity THEN peak ELSE Equity
        BY <3>1, MaxOfTwo
      <3> QED BY <3>1, <3>2, <3>3
    <2>3. booked' = Executed /\ Executed \in Nat /\ booked \in 0 .. Executed
      BY <1>0, <1>11 DEF Reconcile, Types, Executed
    <2>4. up' \in BOOLEAN /\ UNCHANGED <<now, bus, stage, days, trades, crashes, began>>
      BY <1>11 DEF Reconcile, memory
    <2>5. began' \in [executed : 0 .. Executed', booked : 0 .. booked']
      BY <2>3, <2>4 DEF Types, Executed
    <2> QED BY <2>1, <2>2, <2>3, <2>4, <2>5 DEF Types, Executed
  <1>12. CASE UNCHANGED vars
    BY <1>12 DEF vars, memory, book, Types, Executed
  <1> QED BY <1>1, <1>2, <1>3, <1>4, <1>5, <1>6, <1>7, <1>8, <1>9, <1>10, <1>11, <1>12
          DEF Next, EngineStep, WorldStep

-----------------------------------------------------------------------------
(* Rows and trades.                                                         *)

LEMMA Views ==
  ASSUME NEW o, NEW n
  PROVE  Of(o, n) = OfIn(trades, o, n) /\ Left(o, n) = LeftIn(trades, o, n)
  BY DEF Of, OfIn, Left, LeftIn, QtyIn

LEMMA OneMoreTrade ==
  ASSUME Types, NEW x \in Trades, trades' = Append(trades, x)
  PROVE  /\ Executed \in Nat /\ Executed' = Executed + 1
         /\ trades'[Executed + 1] = x /\ \A i \in 1 .. Executed : trades'[i] = trades[i]
         /\ \A o : OfIn(trades', o, Executed + 1) =
                     IF x.order = o THEN Of(o, Executed) \cup {Executed + 1} ELSE Of(o, Executed)
         /\ \A o : \A n \in 0 .. Executed :
              OfIn(trades', o, n) = Of(o, n) /\ LeftIn(trades', o, n) = Left(o, n)
         /\ \A o : LeftIn(trades', o, Executed + 1) =
                     Left(o, Executed) + (IF x.order = o THEN x.qty ELSE 0)
  <1>1. trades \in Seq(Trades) /\ Executed = Len(trades)
    BY DEF Types, Executed
  <1>2. Executed \in Nat /\ Executed' = Executed + 1 /\ trades'[Executed + 1] = x
        /\ \A i \in 1 .. Executed : trades'[i] = trades[i]
    BY <1>1 DEF Executed
  <1>3. ASSUME NEW o
        PROVE  /\ OfIn(trades', o, Executed + 1) =
                     IF x.order = o THEN Of(o, Executed) \cup {Executed + 1} ELSE Of(o, Executed)
               /\ \A n \in 0 .. Executed :
                    OfIn(trades', o, n) = Of(o, n) /\ LeftIn(trades', o, n) = Left(o, n)
               /\ LeftIn(trades', o, Executed + 1) =
                     Left(o, Executed) + (IF x.order = o THEN x.qty ELSE 0)
    <2>0. trades \in Seq(Trades) /\ x \in Trades
      BY <1>1
    <2>1. /\ OfIn(Append(trades, x), o, Len(trades) + 1) =
               IF x.order = o THEN OfIn(trades, o, Len(trades)) \cup {Len(trades) + 1}
               ELSE OfIn(trades, o, Len(trades))
          /\ \A n \in 0 .. Len(trades) : OfIn(Append(trades, x), o, n) = OfIn(trades, o, n)
      <3> DEFINE t == trades
      <3>1. t \in Seq(Trades)
        BY <2>0
      <3> HIDE DEF t
      <3>2. OfIn(Append(t, x), o, Len(t) + 1) =
              IF x.order = o THEN OfIn(t, o, Len(t)) \cup {Len(t) + 1} ELSE OfIn(t, o, Len(t))
        BY <2>0, <3>1, OfAppended
      <3>3. ASSUME NEW n \in 0 .. Len(t)
            PROVE  OfIn(Append(t, x), o, n) = OfIn(t, o, n)
        BY <2>0, <3>1, OfPrefix
      <3> QED BY <3>2, <3>3 DEF t
    <2>2. /\ \A n \in 0 .. Len(trades) : LeftIn(Append(trades, x), o, n) = LeftIn(trades, o, n)
          /\ LeftIn(Append(trades, x), o, Len(trades) + 1) =
               LeftIn(trades, o, Len(trades)) + (IF x.order = o THEN x.qty ELSE 0)
      BY <2>0, LeftAppended
    <2>3. \A n : Left(o, n) = LeftIn(trades, o, n) /\ Of(o, n) = OfIn(trades, o, n)
      BY Views
    <2>4. OfIn(trades', o, Executed + 1) =
            IF x.order = o THEN Of(o, Executed) \cup {Executed + 1} ELSE Of(o, Executed)
      BY <1>1, <2>1, <2>3
    <2>5. ASSUME NEW n \in 0 .. Executed
          PROVE  OfIn(trades', o, n) = Of(o, n) /\ LeftIn(trades', o, n) = Left(o, n)
      BY <1>1, <2>1, <2>2, <2>3
    <2>6. LeftIn(trades', o, Executed + 1) = Left(o, Executed) + (IF x.order = o THEN x.qty ELSE 0)
      BY <1>1, <2>2, <2>3
    <2> QED BY <2>4, <2>5, <2>6
  <1> QED BY <1>2, <1>3

(* A row no trade is of.                                                    *)
LEMMA Untraded ==
  ASSUME Types, Shape, NEW o, o \notin DOMAIN orders, NEW n \in 0 .. Executed
  PROVE  Of(o, n) = {} /\ Left(o, n) = 0
  <1>1. Of(o, n) = {}
    <2>1. \A i \in 1 .. n : i \in DOMAIN trades
      BY DEF Types, Executed
    <2>2. \A i \in DOMAIN trades : trades[i].order # o
      BY DEF Shape
    <2> QED BY <2>1, <2>2 DEF Of
  <1>2. OfIn(trades, o, n) = {} /\ Left(o, n) = LeftIn(trades, o, n)
    BY <1>1, Views
  <1> QED BY <1>1, <1>2, LeftInNone

LEMMA UntradedYet ==
  ASSUME Types, Shape, NEW o \in DOMAIN orders, orders[o].status # "held", NEW n \in 0 .. Executed
  PROVE  Of(o, n) = {} /\ Left(o, n) = 0
  <1>1. Of(o, Executed) = {}
    BY DEF Shape
  <1>2. Of(o, n) \subseteq Of(o, Executed)
    BY DEF Of, Types, Executed
  <1>3. Of(o, n) = {}
    BY <1>1, <1>2
  <1>4. OfIn(trades, o, n) = {} /\ Left(o, n) = LeftIn(trades, o, n)
    BY <1>3, Views
  <1> QED BY <1>3, <1>4, LeftInNone

(* A row with something left was filled.                                    *)
LEMMA LeftIsHeld ==
  ASSUME Types, Shape, NEW o \in DOMAIN orders, NEW n \in 0 .. Executed, Left(o, n) > 0
  PROVE  orders[o].status = "held"
  BY UntradedYet

LEMMA ShapeInit == Init => Shape
  <1> SUFFICES ASSUME Init PROVE Shape
    OBVIOUS
  <1>1. now = 0 /\ 0 \in Nat
    BY DEF Init
  <1>2. Today \in Nat
    BY <1>1, DayOfGrows DEF Today
  <1>3. \A s \in Symbols : days[s].day \in -1 .. Today
    BY <1>2 DEF Init, NoDay
  <1>4. DOMAIN orders = {} /\ DOMAIN trades = {}
    BY DEF Init
  <1>5. stage = Idle /\ stage.pc = "idle"
    BY DEF Init, Idle
  <1> QED BY <1>3, <1>4, <1>5 DEF Shape

LEMMA ShapeStep ==
  ASSUME Types, Shape, Ledger, [Next]_vars
  PROVE  Shape'
  <1>0. /\ orders \in Seq(Rows) /\ trades \in Seq(Trades) /\ Today \in Nat /\ now \in Nat
        /\ days \in [Symbols -> [day : Int, entries : 0 .. MaxEntries]]
    BY TodayType DEF Types
  <1>a. Idle.pc = "idle"
    BY DEF Idle
  <1>1. CASE OnBar
    <2>1. \A s \in Symbols : days'[s].day \in {days[s].day, Today}
      BY <1>0, <1>1 DEF OnBar
    <2>2. ASSUME NEW s \in Symbols
          PROVE  days'[s].day \in -1 .. Today
      <3>1. days[s].day \in -1 .. Today /\ Today \in -1 .. Today
        BY <1>0 DEF Shape
      <3> QED BY <2>1, <3>1
    <2>3. UNCHANGED <<now, up, stage, orders, trades, booked>>
      BY <1>1 DEF OnBar, book
    <2> QED BY <2>2, <2>3 DEF Shape, Today, DayOf, Of, Executed
  <1>2. CASE OnBarError
    BY <1>2 DEF OnBarError, Shape, Today, DayOf, Of, Executed, book
  <1>3. CASE LoadAccount
    <2>1. stage'.pc = "risk" /\ up'
      BY <1>3 DEF LoadAccount, Heads
    <2>2. UNCHANGED <<now, up, days, orders, trades, booked>>
      BY <1>3 DEF LoadAccount, book
    <2> QED BY <2>1, <2>2 DEF Shape, Today, DayOf, Of, Executed
  <1>4. ASSUME NEW b \in BOOLEAN, Evaluate(b)
        PROVE  Shape'
    <2>1. stage' = Idle
      BY <1>4 DEF Evaluate
    <2>2. UNCHANGED <<now, up, days, orders, trades, booked>>
      BY <1>4 DEF Evaluate, book
    <2> QED BY <1>a, <2>1, <2>2 DEF Shape, Today, DayOf, Of, Executed
  <1>5. ASSUME NEW b \in BOOLEAN, PersistOrSuppress(b)
        PROVE  Shape'
    <2>1. UNCHANGED <<now, up, days, trades, booked>> /\ up
      BY <1>5 DEF PersistOrSuppress, Heads
    <2>2. CASE b
      <3>1. UNCHANGED <<stage, orders>>
        BY <1>5, <2>2 DEF PersistOrSuppress
      <3> QED BY <2>1, <3>1 DEF Shape, Today, DayOf, Of, Executed
    <2>3. CASE ~b
      <3> DEFINE r == Row(Head(bus).sym, Head(bus).qty)
                 l == Len(orders) + 1
      <3>1. orders' = Append(orders, r) /\ stage' = [pc |-> "submit"]
        BY <1>5, <2>3 DEF PersistOrSuppress
      <3>2. r.at = now /\ r.status = "pending"
        BY DEF Row
      <3> HIDE DEF r
      <3>3. /\ Len(orders') = l /\ orders'[l] = r /\ DOMAIN orders' = DOMAIN orders \cup {l}
            /\ \A o \in DOMAIN orders : orders'[o] = orders[o]
            /\ l \notin DOMAIN orders
        BY <1>0, <3>1
      <3>4. \A o \in DOMAIN orders' : orders'[o].at <= now
        BY <1>0, <3>2, <3>3 DEF Shape
      <3>5. Of(l, Executed) = {}
        BY <3>3, Untraded, <1>0 DEF Executed
      <3>6. \A o \in DOMAIN orders' : (Of(o, Executed) # {}) <=> (orders'[o].status = "held")
        BY <3>2, <3>3, <3>5 DEF Shape
      <3>7. \A i \in DOMAIN trades : trades[i].order \in DOMAIN orders'
        BY <3>3 DEF Shape
      <3>8. orders' # <<>> /\ orders'[Len(orders')].status = "pending"
        BY <3>2, <3>3, <1>0, <3>1
      <3> QED BY <2>1, <3>4, <3>6, <3>7, <3>8 DEF Shape, Today, DayOf, Of, Executed
    <2> QED BY <2>2, <2>3
  <1>6. ASSUME NEW b \in BOOLEAN, Submit(b)
        PROVE  Shape'
    <2> DEFINE l == Len(orders)
               x == Trade(l, orders[l].qty, 0)
    <2>1. l \in DOMAIN orders /\ orders[l] \in Rows /\ l \in Nat \ {0} /\ orders[l].status = "pending"
      BY <1>0, <1>6 DEF Submit, Shape
    <2>2. x \in Trades /\ x.order = l
      BY <1>0, <2>1 DEF Trade, Trades, Rows
    <2>3. /\ DOMAIN orders' = DOMAIN orders
          /\ \A o \in DOMAIN orders : orders'[o].at = orders[o].at
          /\ \A o \in DOMAIN orders \ {l} : orders'[o].status = orders[o].status
          /\ orders'[l].status = IF b THEN "held" ELSE "dead"
      <3>1. orders' = [orders EXCEPT ![l] = [orders[l] EXCEPT !.status = IF b THEN "held" ELSE "dead"]]
        BY <1>6, <2>1 DEF Submit
      <3> DEFINE r == [orders[l] EXCEPT !.status = IF b THEN "held" ELSE "dead"]
      <3>2. r.at = orders[l].at /\ r.status = IF b THEN "held" ELSE "dead"
        BY <2>1 DEF Rows
      <3>3. orders' = [orders EXCEPT ![l] = r]
        BY <3>1
      <3> HIDE DEF r
      <3>4. /\ DOMAIN orders' = DOMAIN orders /\ orders'[l] = r
            /\ \A o \in DOMAIN orders \ {l} : orders'[o] = orders[o]
        BY <1>0, <2>1, <3>3
      <3> QED BY <3>2, <3>4
    <2>4. stage' = Idle /\ UNCHANGED <<now, up, days, booked>>
      BY <1>6 DEF Submit
    <2>5. Of(l, Executed) = {}
      BY <2>1 DEF Shape
    <2>6. CASE b
      <3>1. trades' = Append(trades, x)
        BY <1>6, <2>6 DEF Submit
      <3> HIDE DEF x
      <3>2. /\ Executed \in Nat /\ Executed' = Executed + 1
            /\ trades'[Executed + 1] = x /\ \A i \in 1 .. Executed : trades'[i] = trades[i]
            /\ \A o : OfIn(trades', o, Executed + 1) =
                        IF x.order = o THEN Of(o, Executed) \cup {Executed + 1} ELSE Of(o, Executed)
        BY <2>2, <3>1, OneMoreTrade
      <3>3. ASSUME NEW o \in DOMAIN orders
            PROVE  (OfIn(trades', o, Executed + 1) # {}) <=> (orders'[o].status = "held")
        <4>1. CASE o = l
          <5>1. Executed + 1 \in OfIn(trades', o, Executed + 1)
            BY <2>2, <3>2, <4>1
          <5>2. orders'[o].status = "held"
            BY <2>3, <2>6, <4>1
          <5> QED BY <5>1, <5>2
        <4>2. CASE o # l
          <5>1. OfIn(trades', o, Executed + 1) = Of(o, Executed)
            BY <2>2, <3>2, <4>2
          <5>2. orders'[o].status = orders[o].status
            BY <2>3, <4>2
          <5>3. (Of(o, Executed) # {}) <=> (orders[o].status = "held")
            BY DEF Shape
          <5> QED BY <5>1, <5>2, <5>3
        <4> QED BY <4>1, <4>2
      <3>4. \A o \in DOMAIN orders : (Of(o, Executed)' # {}) <=> (orders'[o].status = "held")
        BY <3>2, <3>3 DEF Of, OfIn
      <3>5. \A i \in DOMAIN trades' : trades'[i].order \in DOMAIN orders
        <4>1. DOMAIN trades' = (1 .. Executed) \cup {Executed + 1} /\ DOMAIN trades = 1 .. Executed
          BY <1>0, <3>1, <2>2 DEF Executed
        <4> QED BY <2>1, <2>2, <3>2, <4>1 DEF Shape
      <3> QED BY <1>a, <2>3, <2>4, <3>4, <3>5 DEF Shape, Today, DayOf
    <2>7. CASE ~b
      <3>1. trades' = trades
        BY <1>6, <2>7 DEF Submit
      <3>2. \A o \in DOMAIN orders : (Of(o, Executed) # {}) <=> (orders'[o].status = "held")
        BY <2>3, <2>5, <2>7 DEF Shape
      <3> QED BY <1>a, <2>3, <2>4, <3>1, <3>2 DEF Shape, Today, DayOf, Of, Executed
    <2> QED BY <2>6, <2>7
  <1>7. ASSUME NEW o \in DOMAIN orders, NEW k \in 1 .. orders[o].qty, NEW b \in BOOLEAN, BrokerExit(o, k, b)
        PROVE  Shape'
    <2> DEFINE x == Trade(o, -k, IF b THEN k ELSE -k)
    <2>1. x \in Trades /\ x.order = o
      BY <1>0 DEF Trade, Trades
    <2>2. trades' = Append(trades, x) /\ UNCHANGED <<now, up, stage, days, orders, booked>>
      BY <1>7 DEF BrokerExit, memory
    <2>3. Left(o, Executed) > 0 /\ Executed \in 0 .. Executed
      BY <1>0, <1>7 DEF BrokerExit, Open, Executed
    <2>4. orders[o].status = "held"
      BY <2>3, LeftIsHeld
    <2> HIDE DEF x
    <2>5. /\ Executed \in Nat /\ Executed' = Executed + 1
          /\ trades'[Executed + 1] = x /\ \A i \in 1 .. Executed : trades'[i] = trades[i]
          /\ \A p : OfIn(trades', p, Executed + 1) =
                      IF x.order = p THEN Of(p, Executed) \cup {Executed + 1} ELSE Of(p, Executed)
      BY <2>1, <2>2, OneMoreTrade
    <2>6. \A p \in DOMAIN orders : (OfIn(trades', p, Executed + 1) # {}) <=> (orders[p].status = "held")
      BY <2>1, <2>4, <2>5 DEF Shape
    <2>7. \A p \in DOMAIN orders : (Of(p, Executed)' # {}) <=> (orders[p].status = "held")
      BY <2>5, <2>6 DEF Of, OfIn
    <2>8. \A i \in DOMAIN trades' : trades'[i].order \in DOMAIN orders
      <3>1. DOMAIN trades' = (1 .. Executed) \cup {Executed + 1} /\ DOMAIN trades = 1 .. Executed
        BY <1>0, <2>1, <2>2 DEF Executed
      <3> QED BY <2>1, <2>5, <3>1 DEF Shape
    <2> QED BY <2>2, <2>7, <2>8 DEF Shape, Today, DayOf
  <1>8. CASE BookTrade
    BY <1>8 DEF BookTrade, memory, Shape, Today, DayOf, Of, Executed
  <1>9. CASE NextMinute
    <2>1. UNCHANGED <<up, stage, days, orders, trades, booked>> /\ now' = now + 1
      BY <1>9 DEF NextMinute, book
    <2>2. Today' \in Nat /\ Today <= Today'
      <3>1. now + 1 \in Nat /\ now <= now + 1
        BY <1>0
      <3>2. DayOf(now + 1) \in Nat /\ DayOf(now) <= DayOf(now + 1)
        BY <1>0, <3>1, DayOfGrows
      <3> QED BY <2>1, <3>2 DEF Today
    <2>3. \A s \in Symbols : days[s].day \in -1 .. Today'
      BY <1>0, <2>2 DEF Shape
    <2>4. \A o \in DOMAIN orders : orders[o].at <= now'
      <3>1. ASSUME NEW o \in DOMAIN orders
            PROVE  orders[o].at \in Nat
        <4>1. orders[o] \in Rows
          BY <1>0
        <4> QED BY <4>1 DEF Rows
      <3> QED BY <1>0, <2>1, <3>1 DEF Shape
    <2> QED BY <2>1, <2>3, <2>4 DEF Shape, Of, Executed
  <1>10. CASE Crash
    <2>1. UNCHANGED <<now, orders, trades, booked>> /\ stage' = Idle /\ days' = [s \in Symbols |-> NoDay]
      BY <1>10 DEF Crash, book
    <2>2. \A s \in Symbols : days'[s].day \in -1 .. Today
      BY <1>0, <2>1 DEF NoDay
    <2> QED BY <1>a, <2>1, <2>2 DEF Shape, Today, DayOf, Of, Executed
  <1>11. CASE Reconcile
    <2>1. UNCHANGED <<now, stage, days, trades>> /\ up' /\ stage.pc # "submit"
      BY <1>11 DEF Reconcile, memory
    <2>2. /\ DOMAIN orders' = DOMAIN orders
          /\ \A o \in DOMAIN orders : orders'[o].at = orders[o].at
          /\ \A o \in DOMAIN orders : (orders'[o].status = "held") <=> (orders[o].status = "held")
      <3>1. orders' = [o \in DOMAIN orders |->
                         [orders[o] EXCEPT !.status = IF @ = "pending" THEN "dead" ELSE @]]
        BY <1>11 DEF Reconcile
      <3>2. \A o \in DOMAIN orders : orders[o] \in Rows
        BY <1>0
      <3> QED BY <3>1, <3>2 DEF Rows
    <2> QED BY <2>1, <2>2 DEF Shape, Today, DayOf, Of, Executed
  <1>12. CASE UNCHANGED vars
    BY <1>12 DEF vars, memory, book, Shape, Today, DayOf, Of, Executed
  <1> QED BY <1>1, <1>2, <1>3, <1>4, <1>5, <1>6, <1>7, <1>8, <1>9, <1>10, <1>11, <1>12
          DEF Next, EngineStep, WorldStep

LEMMA LedgerInit == Init => Ledger
  <1>1. Init => DOMAIN orders = {}
    BY DEF Init
  <1> QED BY <1>1 DEF Ledger

(* One more trade of a row: all there is of a row nothing was left of, or   *)
(* an exit of no more than is left.                                         *)
LEMMA LedgerTrade ==
  ASSUME Types, Ledger, NEW x \in Trades, trades' = Append(trades, x),
         DOMAIN orders' = DOMAIN orders, \A o \in DOMAIN orders : orders'[o].qty = orders[o].qty,
         x.order \in DOMAIN orders,
         LET l == Left(x.order, Executed)
         IN \/ l > 0 /\ x.qty < 0 /\ l + x.qty >= 0
            \/ Of(x.order, Executed) = {} /\ x.qty = orders[x.order].qty
  PROVE  Ledger'
  <1>1. /\ Executed \in Nat /\ Executed' = Executed + 1
        /\ \A o : \A n \in 0 .. Executed :
             OfIn(trades', o, n) = Of(o, n) /\ LeftIn(trades', o, n) = Left(o, n)
        /\ \A o : LeftIn(trades', o, Executed + 1) =
                    Left(o, Executed) + (IF x.order = o THEN x.qty ELSE 0)
    BY OneMoreTrade
  <1>2. ASSUME NEW o \in DOMAIN orders
        PROVE  /\ orders[o].qty \in Nat \ {0}
               /\ \A n \in 0 .. Executed : Left(o, n) \in Int
    <2>1. orders[o] \in Rows
      BY DEF Types
    <2> QED BY <2>1, LeftType DEF Rows
  <1>3. x.qty \in Int
    BY DEF Trades
  <1> DEFINE last == Executed + 1
             now_left(o, n) == LeftIn(trades', o, n)
             now_of(o, n) == OfIn(trades', o, n)
  <1>4. ASSUME NEW o \in DOMAIN orders
        PROVE  \A n \in 0 .. last :
                 /\ now_left(o, n) \in 0 .. orders[o].qty
                 /\ \A m \in n .. last : now_of(o, n) # {} => now_left(o, m) <= now_left(o, n)
    <2> DEFINE L(n) == Left(o, n)
               q == orders[o].qty
               d == IF x.order = o THEN x.qty ELSE 0
    <2>1. q \in Nat \ {0} /\ d \in Int /\ \A n \in 0 .. Executed : L(n) \in 0 .. q
      BY <1>2, <1>3 DEF Ledger
    <2>2. \A n \in 0 .. Executed : \A m \in n .. Executed : Of(o, n) # {} => L(m) <= L(n)
      BY DEF Ledger
    <2>9. \A n \in 0 .. Executed : Of(o, n) \subseteq Of(o, Executed)
      BY <1>1 DEF Of
    <2>3. \/ d = 0
          \/ L(Executed) > 0 /\ d < 0 /\ L(Executed) + d >= 0
          \/ Of(o, Executed) = {} /\ L(Executed) = 0 /\ d = q
      BY LeftInNone, Views
    <2>4. /\ \A n \in 0 .. Executed : now_of(o, n) = Of(o, n) /\ now_left(o, n) = L(n)
          /\ now_left(o, last) = L(Executed) + d
      BY <1>1
    <2> HIDE DEF L, q, d, now_left, now_of
    <2>5. L(Executed) + d \in 0 .. q
      BY <1>1, <2>1, <2>3
    <2>6. \A n \in 0 .. last : n = last \/ n \in 0 .. Executed
      BY <1>1
    <2>7. \A n \in 0 .. last : now_left(o, n) \in 0 .. q
      BY <2>1, <2>4, <2>5, <2>6
    <2>8. ASSUME NEW n \in 0 .. last, NEW m \in n .. last, now_of(o, n) # {}
          PROVE  now_left(o, m) <= now_left(o, n)
      <3>1. CASE n = last
        <4>1. m = n
          BY <1>1, <3>1
        <4> QED BY <2>1, <2>7, <4>1
      <3>2. CASE n \in 0 .. Executed /\ m \in n .. Executed
        BY <1>1, <2>2, <2>4, <2>8, <3>2
      <3>3. CASE n \in 0 .. Executed /\ m = last
        <4>1. Executed \in n .. Executed
          BY <1>1, <3>3
        <4>2. Of(o, n) # {} /\ L(Executed) <= L(n)
          BY <2>2, <2>4, <2>8, <3>3, <4>1
        <4>3. L(n) \in Int /\ L(Executed) \in Int /\ d <= 0
          BY <1>1, <2>1, <2>3, <2>9, <3>3, <4>2
        <4>4. L(Executed) + d <= L(n)
          BY <2>1, <4>2, <4>3
        <4> QED BY <2>4, <3>3, <4>4
      <3>4. n = last \/ (n \in 0 .. Executed /\ (m = last \/ m \in n .. Executed))
        BY <1>1
      <3> QED BY <3>1, <3>2, <3>3, <3>4
    <2> QED BY <2>7, <2>8 DEF q
  <1>5. \A o : \A n : Of(o, n)' = now_of(o, n) /\ Left(o, n)' = now_left(o, n)
    BY DEF Left, LeftIn, QtyIn, Of, OfIn
  <1> HIDE DEF now_left, now_of
  <1> QED BY <1>1, <1>4, <1>5 DEF Ledger

(* The rows keep their quantities, and nothing is executed.                 *)
LEMMA LedgerKept ==
  ASSUME Ledger, trades' = trades, DOMAIN orders' = DOMAIN orders,
         \A o \in DOMAIN orders : orders'[o].qty = orders[o].qty
  PROVE  Ledger'
  <1>1. \A o : \A n : Of(o, n)' = Of(o, n) /\ Left(o, n)' = Left(o, n)
    BY DEF Left, Of
  <1>2. Executed' = Executed
    BY DEF Executed
  <1> QED BY <1>1, <1>2 DEF Ledger

LEMMA LedgerStep ==
  ASSUME Types, Shape, Ledger, [Next]_vars
  PROVE  Ledger'
  <1>0. orders \in Seq(Rows) /\ trades \in Seq(Trades) /\ Executed \in Nat /\ Today \in Nat
    BY TodayType DEF Types, Executed
  <1>1. ASSUME UNCHANGED <<orders, trades>>
        PROVE  Ledger'
    BY <1>1, LedgerKept
  <1>2. CASE OnBar \/ OnBarError \/ LoadAccount
    BY <1>1, <1>2 DEF OnBar, OnBarError, LoadAccount, book
  <1>4. ASSUME NEW b \in BOOLEAN, Evaluate(b)
        PROVE  Ledger'
    BY <1>1, <1>4 DEF Evaluate, book
  <1>5. ASSUME NEW b \in BOOLEAN, PersistOrSuppress(b)
        PROVE  Ledger'
    <2>1. trades' = trades
      BY <1>5 DEF PersistOrSuppress
    <2>2. CASE b
      <3>1. orders' = orders
        BY <1>5, <2>2 DEF PersistOrSuppress
      <3> QED BY <1>1, <2>1, <3>1
    <2>3. CASE ~b
      <3> DEFINE r == Row(Head(bus).sym, Head(bus).qty)
                 l == Len(orders) + 1
      <3>1. orders' = Append(orders, r)
        BY <1>5, <2>3 DEF PersistOrSuppress
      <3>2. r.qty \in Nat \ {0}
        BY <1>5, HeadIs DEF Row, PersistOrSuppress, Heads
      <3> HIDE DEF r
      <3>3. /\ orders'[l] = r /\ DOMAIN orders' = DOMAIN orders \cup {l}
            /\ \A o \in DOMAIN orders : orders'[o] = orders[o]
            /\ l \notin DOMAIN orders
        BY <1>0, <3>1
      <3>4. \A n \in 0 .. Executed : Left(l, n) = 0
        BY <3>3, Untraded
      <3>5. \A o : \A n : Of(o, n)' = Of(o, n) /\ Left(o, n)' = Left(o, n)
        BY <2>1 DEF Left, Of
      <3>6. Executed' = Executed
        BY <2>1 DEF Executed
      <3>8. \A n \in 0 .. Executed : \A m \in n .. Executed : m \in 0 .. Executed
        BY <1>0
      <3>7. \A o \in DOMAIN orders' : \A n \in 0 .. Executed :
              /\ Left(o, n) \in 0 .. orders'[o].qty
              /\ \A m \in n .. Executed : Of(o, n) # {} => Left(o, m) <= Left(o, n)
        <4>1. ASSUME NEW n \in 0 .. Executed
              PROVE  /\ Left(l, n) \in 0 .. orders'[l].qty
                     /\ \A m \in n .. Executed : Of(l, n) # {} => Left(l, m) <= Left(l, n)
          BY <3>2, <3>3, <3>4, <3>8
        <4>2. ASSUME NEW o \in DOMAIN orders, NEW n \in 0 .. Executed
              PROVE  /\ Left(o, n) \in 0 .. orders'[o].qty
                     /\ \A m \in n .. Executed : Of(o, n) # {} => Left(o, m) <= Left(o, n)
          BY <3>3 DEF Ledger
        <4> QED BY <3>3, <4>1, <4>2
      <3> QED BY <3>5, <3>6, <3>7 DEF Ledger
    <2> QED BY <2>2, <2>3
  <1>6. ASSUME NEW b \in BOOLEAN, Submit(b)
        PROVE  Ledger'
    <2> DEFINE l == Len(orders)
               x == Trade(l, orders[l].qty, 0)
    <2>1. l \in DOMAIN orders /\ orders[l] \in Rows /\ l \in Nat \ {0} /\ orders[l].status = "pending"
      BY <1>0, <1>6 DEF Submit, Shape
    <2>2. x \in Trades /\ x.order = l /\ x.qty = orders[l].qty
      BY <1>0, <2>1 DEF Trade, Trades, Rows
    <2>3. DOMAIN orders' = DOMAIN orders /\ \A o \in DOMAIN orders : orders'[o].qty = orders[o].qty
      <3> DEFINE r == [orders[l] EXCEPT !.status = IF b THEN "held" ELSE "dead"]
      <3>1. orders' = [orders EXCEPT ![l] = r]
        BY <1>6, <2>1 DEF Submit
      <3>2. r.qty = orders[l].qty
        BY <2>1 DEF Rows
      <3> HIDE DEF r
      <3> QED BY <1>0, <2>1, <3>1, <3>2
    <2>4. Of(l, Executed) = {}
      BY <1>0, <2>1, UntradedYet
    <2> HIDE DEF x
    <2>5. trades' = Append(trades, x) \/ trades' = trades
      BY <1>6 DEF Submit, x
    <2> QED BY <2>1, <2>2, <2>3, <2>4, <2>5, LedgerTrade, LedgerKept
  <1>7. ASSUME NEW o \in DOMAIN orders, NEW k \in 1 .. orders[o].qty, NEW b \in BOOLEAN, BrokerExit(o, k, b)
        PROVE  Ledger'
    <2> DEFINE x == Trade(o, -k, IF b THEN k ELSE -k)
    <2>1. x \in Trades /\ x.order = o /\ x.qty = -k
      BY <1>0 DEF Trade, Trades
    <2>2. trades' = Append(trades, x) /\ orders' = orders
      BY <1>7 DEF BrokerExit
    <2>3. Left(o, Executed) \in Int
      BY <1>0, LeftType
    <2>4. Left(o, Executed) > 0 /\ k <= Left(o, Executed)
      BY <1>7 DEF BrokerExit, Open
    <2> HIDE DEF x
    <2>5. x.qty < 0 /\ Left(o, Executed) + x.qty >= 0
      BY <2>1, <2>3, <2>4
    <2> QED BY <2>1, <2>2, <2>4, <2>5, LedgerTrade
  <1>8. CASE BookTrade \/ NextMinute \/ Crash
    BY <1>1, <1>8 DEF BookTrade, NextMinute, Crash, book
  <1>11. CASE Reconcile
    <2>1. orders' = [o \in DOMAIN orders |->
                       [orders[o] EXCEPT !.status = IF @ = "pending" THEN "dead" ELSE @]]
      BY <1>11 DEF Reconcile
    <2>2. \A o \in DOMAIN orders : orders[o] \in Rows
      BY <1>0
    <2>3. DOMAIN orders' = DOMAIN orders /\ \A o \in DOMAIN orders : orders'[o].qty = orders[o].qty
      BY <2>1, <2>2 DEF Rows
    <2> QED BY <1>11, <2>3, LedgerKept DEF Reconcile
  <1>12. CASE UNCHANGED vars
    BY <1>1, <1>12 DEF vars, book
  <1> QED BY <1>2, <1>4, <1>5, <1>6, <1>7, <1>8, <1>11, <1>12
          DEF Next, EngineStep, WorldStep

(* A lot that stood open after some trades, and does after more, stood open *)
(* in between.                                                              *)
LEMMA OpenBetween ==
  ASSUME Types, Ledger, NEW n \in 0 .. Executed, NEW m \in n .. Executed, NEW r \in m .. Executed
  PROVE  Open(n) \cap Open(r) \subseteq Open(m)
  <1>1. Executed \in Nat /\ m \in 0 .. Executed /\ r \in 0 .. Executed
    BY DEF Types, Executed
  <1> SUFFICES ASSUME NEW o \in Open(n), o \in Open(r), o \notin Open(m)
               PROVE  FALSE
    OBVIOUS
  <1>2. o \in DOMAIN orders /\ Left(o, r) > 0
    BY DEF Open
  <1>3. orders[o] \in Rows
    BY <1>2 DEF Types
  <1>4. orders[o].qty \in Nat
    BY <1>3 DEF Rows
  <1>5. Left(o, m) \in 0 .. orders[o].qty /\ Left(o, r) \in 0 .. orders[o].qty
    BY <1>1, <1>2 DEF Ledger
  <1>6. Left(o, m) = 0
    BY <1>2, <1>4, <1>5 DEF Open
  <1>7. Of(o, n) # {}
    <2>1. Left(o, n) # 0
      BY DEF Open
    <2> QED BY <2>1, LeftInNone, Views
  <1>8. Of(o, m) # {}
    BY <1>1, <1>7 DEF Of
  <1>9. Left(o, r) <= Left(o, m)
    BY <1>1, <1>2, <1>8 DEF Ledger
  <1> QED BY <1>2, <1>4, <1>5, <1>6, <1>9

-----------------------------------------------------------------------------
(* The session bound.                                                       *)

LEMMA WeighedType == \A s : Weighed(s) \in {0, 1}
  BY DEF Weighed

LEMMA IdleWeighsNone ==
  ASSUME stage.pc # "risk"
  PROVE  \A s : Weighed(s) = 0
  BY DEF Weighed

LEMMA HeadLeaves ==
  ASSUME Types, bus # <<>>, NEW s
  PROVE  /\ Cardinality(Where(bus, s)) \in Nat /\ Cardinality(Where(Tail(bus), s)) \in Nat
         /\ Cardinality(Where(bus, s)) =
              Cardinality(Where(Tail(bus), s)) + (IF Entry(Head(bus), s) THEN 1 ELSE 0)
  BY WhereTail, WhereFinite, HeadIs DEF Types

LEMMA NothingWaits ==
  ASSUME NEW q, \A k \in DOMAIN q : q[k].kind = "bar", NEW s
  PROVE  Cardinality(Where(q, s)) = 0
  <1>1. Where(q, s) = {}
    BY DEF Where, Entry
  <1> QED BY <1>1, FS_EmptySet

LEMMA SlotsInit == Init => Slots
  <1> SUFFICES ASSUME Init PROVE Slots
    OBVIOUS
  <1>1. \A s : Cardinality(Where(bus, s)) = 0
    BY WhereBars, NothingWaits DEF Init
  <1>2. \A s : Weighed(s) = 0
    BY DEF Weighed, Init, Idle
  <1>3. \A s, d : Cardinality(OfSession(s, d)) = 0
    <2>1. \A s, d : OfSession(s, d) = {}
      BY DEF OfSession, Init
    <2> QED BY <2>1, FS_EmptySet
  <1>4. \A s \in Symbols : days[s].day = -1
    BY DEF Init, NoDay
  <1>5. Today \in Nat
    BY TypesInit, TodayType
  <1> QED BY <1>1, <1>2, <1>3, <1>4, <1>5, Parameters DEF Slots

(* A step that touches no count.                                            *)
LEMMA SlotsKept ==
  ASSUME Slots, days' = days, now' = now,
         \A s : Where(bus', s) = Where(bus, s), \A s : Weighed(s)' = Weighed(s),
         DOMAIN orders' = DOMAIN orders,
         \A o \in DOMAIN orders : orders'[o].sym = orders[o].sym /\ orders'[o].at = orders[o].at
  PROVE  Slots'
  <1>1. Today' = Today
    BY DEF Today, DayOf
  <1>2. \A s, d : OfSession(s, d)' = OfSession(s, d)
    BY DEF OfSession, DayOf
  <1> QED BY <1>1, <1>2 DEF Slots

LEMMA SlotsStep ==
  ASSUME Types, Shape, Slots, [Next]_vars
  PROVE  Slots'
  <1>0. /\ orders \in Seq(Rows) /\ Today \in Nat /\ now \in Nat
        /\ days \in [Symbols -> [day : Int, entries : 0 .. MaxEntries]]
        /\ MaxEntries \in Nat
    BY TodayType, Parameters DEF Types
  <1> DEFINE rows(s) == Cardinality(OfSession(s, Today))
             waits(s) == Cardinality(Where(bus, s))
  <1>a. \A s : rows(s) \in Nat /\ waits(s) \in Nat /\ Weighed(s) \in 0 .. 1
    BY SessionRows, WhereFinite, WeighedType DEF Types
  <1>b. \A s \in Symbols : days[s].day \in Int /\ days[s].entries \in 0 .. MaxEntries
    BY <1>0
  <1>c. Idle.pc = "idle"
    BY DEF Idle
  <1>d. \A s \in Symbols :
          /\ days[s].day = Today => rows(s) + waits(s) + Weighed(s) <= days[s].entries
          /\ days[s].day # Today => waits(s) = 0 /\ Weighed(s) = 0
          /\ \A d \in 0 .. Today : Cardinality(OfSession(s, d)) <= MaxEntries
    BY DEF Slots
  <1>e. \A s \in Symbols : rows(s) <= MaxEntries
    BY <1>0, <1>d
  <1>1. CASE OnBar
    <2> DEFINE h == Head(bus).sym
               count == IF days[h].day = Today THEN days[h].entries ELSE entries_already_today(h)
               fires == slot_left(count)
               total == IF fires THEN count + 1 ELSE count
    <2>1. bus # <<>> /\ h \in Symbols /\ Head(bus).kind = "bar" /\ Tail(bus) \in Seq(Events)
      BY <1>1, HeadIs DEF OnBar, Heads
    <2>2. UNCHANGED <<now, stage, orders>>
      BY <1>1 DEF OnBar, book
    <2>3. days' = [days EXCEPT ![h] = [day |-> Today, entries |-> total]]
      BY <1>1 DEF OnBar
    <2>4. bus' = IF fires THEN Append(Tail(bus), Signal(h)) ELSE Tail(bus)
      BY <1>1 DEF OnBar
    <2>5. \A s : waits(s) = Cardinality(Where(Tail(bus), s))
      BY <2>1, HeadLeaves, <1>a DEF Entry
    <2>6. Signal(h) \in Events /\ \A s : Entry(Signal(h), s) <=> s = h
      BY <2>1 DEF Signal, Events, Entry
    <2>7. \A s : Cardinality(Where(bus', s)) = waits(s) + (IF fires /\ s = h THEN 1 ELSE 0)
      <3> TAKE s
      <3>1. CASE fires
        <4>1. Cardinality(Where(Append(Tail(bus), Signal(h)), s)) =
                Cardinality(Where(Tail(bus), s)) + (IF Entry(Signal(h), s) THEN 1 ELSE 0)
          BY <2>1, <2>6, WhereAppend
        <4> QED BY <2>4, <2>5, <2>6, <3>1, <4>1
      <3>2. CASE ~fires
        BY <2>4, <2>5, <3>2, <1>a
      <3> QED BY <3>1, <3>2
    <2>8. fires => count < MaxEntries
      BY DEF slot_left
    <2>9. count = IF days[h].day = Today THEN days[h].entries ELSE rows(h)
      BY DEF entries_already_today, OfSession
    <2>10. count \in 0 .. MaxEntries /\ rows(h) + waits(h) + Weighed(h) <= count
      BY <1>a, <1>b, <1>d, <1>e, <2>1, <2>9
    <2>11. \A s, d : OfSession(s, d)' = OfSession(s, d)
      BY <2>2 DEF OfSession, DayOf
    <2>12. Today' = Today /\ \A s : Weighed(s)' = Weighed(s)
      BY <2>2 DEF Today, DayOf, Weighed
    <2>13. /\ days'[h].day = Today /\ days'[h].entries = total
           /\ \A s \in Symbols \ {h} : days'[s] = days[s]
      BY <1>0, <2>1, <2>3
    <2>14. rows(h) + Cardinality(Where(bus', h)) + Weighed(h) <= total
      <3>1. Cardinality(Where(bus', h)) = waits(h) + (IF fires THEN 1 ELSE 0)
        BY <2>7
      <3> HIDE DEF count, fires, rows, waits, h
      <3> QED BY <3>1, <2>10, <1>a
    <2>15. \A s \in Symbols \ {h} : Cardinality(Where(bus', s)) = waits(s)
      BY <2>7, <1>a
    <2> HIDE DEF h, total, count, fires
    <2>16. ASSUME NEW s \in Symbols
           PROVE  /\ days'[s].day = Today =>
                       rows(s) + Cardinality(Where(bus', s)) + Weighed(s) <= days'[s].entries
                  /\ days'[s].day # Today => Cardinality(Where(bus', s)) = 0 /\ Weighed(s) = 0
      <3>1. CASE s = h
        BY <3>1, <2>13, <2>14
      <3>2. CASE s # h
        BY <3>2, <2>13, <2>15, <1>d
      <3> QED BY <3>1, <3>2
    <2> QED BY <1>d, <2>11, <2>12, <2>16 DEF Slots
  <1>2. CASE OnBarError
    <2>1. bus # <<>> /\ Head(bus).kind = "bar" /\ bus' = Tail(bus)
      BY <1>2 DEF OnBarError, Heads
    <2>2. UNCHANGED <<now, stage, days, orders>>
      BY <1>2 DEF OnBarError, book
    <2>3. \A s : Cardinality(Where(bus', s)) = waits(s)
      BY <2>1, HeadLeaves, <1>a DEF Entry
    <2>4. \A s, d : OfSession(s, d)' = OfSession(s, d)
      BY <2>2 DEF OfSession, DayOf
    <2>5. Today' = Today /\ \A s : Weighed(s)' = Weighed(s)
      BY <2>2 DEF Today, DayOf, Weighed
    <2> QED BY <1>d, <2>2, <2>3, <2>4, <2>5 DEF Slots
  <1>3. CASE LoadAccount
    <2>1. bus # <<>> /\ Head(bus).kind = "signal" /\ bus' = Tail(bus) /\ stage = Idle
      BY <1>3 DEF LoadAccount, Heads
    <2>2. stage'.pc = "risk" /\ stage'.sym = Head(bus).sym /\ UNCHANGED <<now, days, orders>>
      BY <1>3 DEF LoadAccount, book
    <2>3. \A s : Entry(Head(bus), s) <=> s = Head(bus).sym
      BY <2>1 DEF Entry
    <2>4. \A s : Weighed(s) = 0 /\ Weighed(s)' = IF s = Head(bus).sym THEN 1 ELSE 0
      BY <1>c, <2>1, <2>2 DEF Weighed
    <2>5. ASSUME NEW s
          PROVE  waits(s) + Weighed(s) = Cardinality(Where(bus', s)) + Weighed(s)'
                 /\ (waits(s) = 0 /\ Weighed(s) = 0 => Cardinality(Where(bus', s)) = 0 /\ Weighed(s)' = 0)
                 /\ Cardinality(Where(bus', s)) \in Nat /\ Weighed(s)' \in Nat
      <3>1. /\ waits(s) \in Nat /\ Cardinality(Where(bus', s)) \in Nat
            /\ waits(s) = Cardinality(Where(bus', s)) + (IF Entry(Head(bus), s) THEN 1 ELSE 0)
        BY <2>1, HeadLeaves
      <3> HIDE DEF waits
      <3> QED BY <2>3, <2>4, <3>1
    <2>6. \A s, d : OfSession(s, d)' = OfSession(s, d)
      BY <2>2 DEF OfSession, DayOf
    <2>7. Today' = Today
      BY <2>2 DEF Today, DayOf
    <2>8. ASSUME NEW s \in Symbols, days[s].day = Today
          PROVE  rows(s) + Cardinality(Where(bus', s)) + Weighed(s)' <= days[s].entries
      <3>1. rows(s) + waits(s) + Weighed(s) <= days[s].entries
        BY <1>d, <2>8
      <3>2. rows(s) \in Nat /\ waits(s) \in Nat /\ Weighed(s) \in Nat /\ days[s].entries \in Nat
        BY <1>a, <1>b
      <3> DEFINE g == Weighed(s)'
      <3> HIDE DEF rows, waits, g
      <3>3. waits(s) + Weighed(s) = Cardinality(Where(bus', s)) + g /\ Cardinality(Where(bus', s)) \in Nat /\ g \in Nat
        BY <2>5 DEF g
      <3>4. rows(s) + Cardinality(Where(bus', s)) + g <= days[s].entries
        BY <3>1, <3>2, <3>3
      <3> QED BY <3>4 DEF g
    <2> QED BY <1>d, <2>2, <2>5, <2>6, <2>7, <2>8 DEF Slots
  <1>4. ASSUME NEW b \in BOOLEAN, Evaluate(b)
        PROVE  Slots'
    <2> DEFINE e == Order(stage.sym, size_position(stage.equity))
    <2>1. stage.pc = "risk" /\ stage' = Idle /\ UNCHANGED <<now, days, orders>>
      BY <1>4 DEF Evaluate, book
    <2>2. stage.equity \in Int /\ stage.sym \in Symbols
      <3>1. stage \in Stages /\ stage.pc # "idle" /\ stage.pc # "submit"
        BY <2>1 DEF Types
      <3> QED BY <3>1 DEF Stages, Idle
    <2>3. \A s : Weighed(s)' = 0 /\ Weighed(s) = IF s = stage.sym THEN 1 ELSE 0
      BY <1>c, <2>1 DEF Weighed
    <2>4. (bus' = Append(bus, e) /\ e \in Events) \/ bus' = bus
      <3> DEFINE q == size_position(stage.equity)
      <3>1. q \in Int
        BY <2>2, Sizing
      <3>2. (bus' = Append(bus, e) /\ approved(stage, stage.sym, q)) \/ bus' = bus
        BY <1>4 DEF Evaluate
      <3>3. approved(stage, stage.sym, q) => q >= 1
        BY DEF approved
      <3> HIDE DEF q
      <3>4. q >= 1 => Order(stage.sym, q) \in Events
        BY <2>2, <3>1 DEF Order, Events
      <3> QED BY <3>2, <3>3, <3>4 DEF q
    <2>5. \A s : Entry(e, s) <=> s = stage.sym
      BY DEF Entry, Order
    <2>6. ASSUME NEW s
          PROVE  /\ Cardinality(Where(bus', s)) \in Nat
                 /\ Cardinality(Where(bus', s)) <= waits(s) + Weighed(s)
      <3>1. CASE bus' = bus
        BY <1>a, <3>1
      <3>2. CASE bus' = Append(bus, e) /\ e \in Events
        <4>1. Cardinality(Where(bus', s)) = waits(s) + (IF Entry(e, s) THEN 1 ELSE 0)
          BY <3>2, WhereAppend DEF Types
        <4> HIDE DEF waits, e
        <4> QED BY <1>a, <2>3, <2>5, <4>1
      <3> QED BY <2>4, <3>1, <3>2
    <2>7. \A s, d : OfSession(s, d)' = OfSession(s, d)
      BY <2>1 DEF OfSession, DayOf
    <2>8. Today' = Today
      BY <2>1 DEF Today, DayOf
    <2>9. ASSUME NEW s \in Symbols
          PROVE  /\ days[s].day = Today =>
                      rows(s) + Cardinality(Where(bus', s)) + 0 <= days[s].entries
                 /\ days[s].day # Today => Cardinality(Where(bus', s)) = 0
      <3>1. rows(s) \in Nat /\ waits(s) \in Nat /\ Weighed(s) \in Nat /\ days[s].entries \in Nat
        BY <1>a, <1>b
      <3>2. /\ Cardinality(Where(bus', s)) \in Nat
            /\ Cardinality(Where(bus', s)) <= waits(s) + Weighed(s)
        BY <2>6
      <3>3. /\ days[s].day = Today => rows(s) + waits(s) + Weighed(s) <= days[s].entries
            /\ days[s].day # Today => waits(s) = 0 /\ Weighed(s) = 0
        BY <1>d
      <3> HIDE DEF rows, waits
      <3> QED BY <3>1, <3>2, <3>3
    <2> QED BY <1>d, <2>1, <2>3, <2>7, <2>8, <2>9 DEF Slots
  <1>5. ASSUME NEW b \in BOOLEAN, PersistOrSuppress(b)
        PROVE  Slots'
    <2> DEFINE h == Head(bus).sym
               r == Row(h, Head(bus).qty)
               l == Len(orders) + 1
               wait(s) == Cardinality(Where(bus', s))
    <2>1. bus # <<>> /\ h \in Symbols /\ Head(bus).kind = "order" /\ bus' = Tail(bus) /\ stage = Idle
      BY <1>5, HeadIs DEF PersistOrSuppress, Heads
    <2>2. UNCHANGED <<now, days>> /\ (orders' = orders \/ orders' = Append(orders, r))
      BY <1>5 DEF PersistOrSuppress
    <2>3. stage'.pc # "risk"
      BY <1>5, <1>c, <2>1 DEF PersistOrSuppress
    <2>4. \A s : Weighed(s) = 0 /\ Weighed(s)' = 0
      BY <1>c, <2>1, <2>3 DEF Weighed
    <2>5. ASSUME NEW s
          PROVE  wait(s) \in Nat /\ waits(s) = wait(s) + (IF s = h THEN 1 ELSE 0)
      <3>1. /\ wait(s) \in Nat
            /\ waits(s) = wait(s) + (IF Entry(Head(bus), s) THEN 1 ELSE 0)
        BY <2>1, HeadLeaves
      <3>2. Entry(Head(bus), s) <=> s = h
        BY <2>1 DEF Entry
      <3> QED BY <3>1, <3>2
    <2>6. Today' = Today
      BY <2>2 DEF Today, DayOf
    <2>7. r.sym = h /\ r.at = now
      BY DEF Row
    <2> HIDE DEF h, r
    <2>8. ASSUME NEW s, NEW d
          PROVE  Cardinality(OfSession(s, d)') \in Nat
                 /\ Cardinality(OfSession(s, d)') <= Cardinality(OfSession(s, d)) + (IF s = h /\ d = Today THEN 1 ELSE 0)
      <3>1. IsFiniteSet(OfSession(s, d)) /\ Cardinality(OfSession(s, d)) \in Nat
        BY SessionRows
      <3>2. CASE orders' = orders
        <4>1. OfSession(s, d)' = OfSession(s, d)
          BY <2>2, <3>2 DEF OfSession, DayOf
        <4> QED BY <3>1, <4>1
      <3>3. CASE orders' = Append(orders, r)
        <4>1. /\ orders'[l] = r /\ DOMAIN orders' = DOMAIN orders \cup {l}
              /\ \A o \in DOMAIN orders : orders'[o] = orders[o]
              /\ l \notin DOMAIN orders
          BY <1>0, <3>3
        <4>2. OfSession(s, d)' = IF s = h /\ d = Today THEN OfSession(s, d) \cup {l} ELSE OfSession(s, d)
          BY <2>7, <4>1 DEF OfSession, DayOf, Today
        <4>3. l \notin OfSession(s, d)
          BY <4>1 DEF OfSession
        <4>4. Cardinality(OfSession(s, d) \cup {l}) = Cardinality(OfSession(s, d)) + 1
          BY <3>1, <4>3, FS_AddElement
        <4> QED BY <3>1, <4>2, <4>4
      <3> QED BY <2>2, <3>2, <3>3
    <2>9. ASSUME NEW s \in Symbols
          PROVE  /\ days[s].day = Today => Cardinality(OfSession(s, Today)') + wait(s) + 0 <= days[s].entries
                 /\ days[s].day # Today => wait(s) = 0
                 /\ \A d \in 0 .. Today : Cardinality(OfSession(s, d)') <= MaxEntries
      <3> DEFINE row(d) == Cardinality(OfSession(s, d)')
                 old(d) == Cardinality(OfSession(s, d))
      <3>1. rows(s) \in Nat /\ waits(s) \in Nat /\ days[s].entries \in 0 .. MaxEntries
        BY <1>a, <1>b
      <3>2. wait(s) \in Nat /\ waits(s) = wait(s) + (IF s = h THEN 1 ELSE 0)
        BY <2>5
      <3>3. /\ days[s].day = Today => rows(s) + waits(s) + 0 <= days[s].entries
            /\ days[s].day # Today => waits(s) = 0
            /\ \A d \in 0 .. Today : old(d) <= MaxEntries
        BY <1>d, <2>4
      <3>4. \A d : row(d) \in Nat /\ row(d) <= old(d) + (IF s = h /\ d = Today THEN 1 ELSE 0)
        BY <2>8
      <3>5. rows(s) = old(Today) /\ \A d : old(d) \in Nat
        BY SessionRows
      <3> HIDE DEF row, old, rows, waits, wait
      <3>6. ASSUME days[s].day = Today
            PROVE  row(Today) + wait(s) + 0 <= days[s].entries
        <4>1. rows(s) + waits(s) + 0 <= days[s].entries
          BY <3>3, <3>6
        <4>2. row(Today) <= old(Today) + (IF s = h THEN 1 ELSE 0) /\ row(Today) \in Nat
          BY <3>4
        <4>3. rows(s) = old(Today)
          BY <3>5
        <4> DEFINE R == row(Today)  W == wait(s)  n == days[s].entries
                   E == rows(s)  V == waits(s)
        <4>4. R \in Nat /\ W \in Nat /\ n \in Nat /\ E \in Nat /\ V \in Nat
          BY <3>1, <3>2, <4>2
        <4>5. E + V + 0 <= n /\ R <= E + (IF s = h THEN 1 ELSE 0) /\ V = W + (IF s = h THEN 1 ELSE 0)
          BY <3>2, <4>1, <4>2, <4>3
        <4> HIDE DEF R, W, n, E, V
        <4>6. R + W + 0 <= n
          BY <4>4, <4>5
        <4> QED BY <4>6 DEF R, W, n
      <3>7. days[s].day # Today => wait(s) = 0 /\ s # h
        BY <3>1, <3>2, <3>3
      <3>8. ASSUME NEW d \in 0 .. Today
            PROVE  row(d) <= MaxEntries
        <4>1. CASE s = h /\ d = Today
          BY <1>0, <3>1, <3>2, <3>4, <3>6, <3>7, <4>1
        <4>2. CASE ~(s = h /\ d = Today)
          BY <1>0, <3>3, <3>4, <3>5, <4>2
        <4> QED BY <4>1, <4>2
      <3> QED BY <3>6, <3>7, <3>8 DEF row
    <2> QED BY <2>2, <2>4, <2>6, <2>9 DEF Slots
  <1>6. ASSUME NEW b \in BOOLEAN, Submit(b)
        PROVE  Slots'
    <2>1. stage.pc = "submit" /\ stage' = Idle /\ UNCHANGED <<now, bus, days>>
      BY <1>6 DEF Submit
    <2>2. \A s : Weighed(s)' = Weighed(s)
      BY <1>c, <2>1 DEF Weighed
    <2>3. /\ DOMAIN orders' = DOMAIN orders
          /\ \A o \in DOMAIN orders : orders'[o].sym = orders[o].sym /\ orders'[o].at = orders[o].at
      <3> DEFINE l == Len(orders)
                 r == [orders[l] EXCEPT !.status = IF b THEN "held" ELSE "dead"]
      <3>0. l \in DOMAIN orders /\ orders[l] \in Rows
        BY <1>0, <2>1 DEF Shape
      <3>1. orders' = [orders EXCEPT ![l] = r]
        BY <1>6, <3>0 DEF Submit
      <3>2. r.sym = orders[l].sym /\ r.at = orders[l].at
        BY <3>0 DEF Rows
      <3> HIDE DEF r
      <3> QED BY <1>0, <3>0, <3>1, <3>2
    <2> QED BY <2>1, <2>2, <2>3, SlotsKept
  <1>7. ASSUME NEW o \in DOMAIN orders, NEW k \in 1 .. orders[o].qty, NEW b \in BOOLEAN, BrokerExit(o, k, b)
        PROVE  Slots'
    BY <1>7, SlotsKept DEF BrokerExit, memory, Weighed
  <1>8. CASE BookTrade
    BY <1>8, SlotsKept DEF BookTrade, memory, Weighed
  <1>9. CASE NextMinute
    <2>1. UNCHANGED <<days, orders>> /\ stage = Idle /\ stage' = Idle /\ now' = now + 1
      BY <1>9 DEF NextMinute, book
    <2>2. \A s : Cardinality(Where(bus', s)) = 0
      <3>1. bus' \in Bars \/ bus' = <<>>
        BY <1>9 DEF NextMinute
      <3> DEFINE q == bus'
      <3> HIDE DEF q
      <3>2. q \in Bars => \A k \in DOMAIN q : q[k].kind = "bar"
        BY WhereBars
      <3>3. q = <<>> => \A k \in DOMAIN q : q[k].kind = "bar"
        OBVIOUS
      <3>4. \A k \in DOMAIN q : q[k].kind = "bar"
        BY <3>1, <3>2, <3>3 DEF q
      <3>5. \A s : Cardinality(Where(q, s)) = 0
        BY <3>4, NothingWaits
      <3> QED BY <3>5 DEF q
    <2>3. \A s : Weighed(s)' = 0
      BY <1>c, <2>1 DEF Weighed
    <2>4. \A s, d : OfSession(s, d)' = OfSession(s, d)
      BY <2>1 DEF OfSession, DayOf
    <2>5. Today' \in Nat /\ Today <= Today'
      <3>1. now + 1 \in Nat /\ now <= now + 1
        BY <1>0
      <3>2. DayOf(now + 1) \in Nat /\ DayOf(now) <= DayOf(now + 1)
        BY <1>0, <3>1, DayOfGrows
      <3> QED BY <2>1, <3>2 DEF Today
    <2>6. ASSUME NEW s, NEW d \in Int, d > Today
          PROVE  Cardinality(OfSession(s, d)) = 0
      <3>1. ASSUME NEW o \in DOMAIN orders
            PROVE  DayOf(orders[o].at) # d
        <4>1. orders[o].at \in Nat /\ orders[o].at <= now
          <5>1. orders[o] \in Rows
            BY <1>0
          <5> QED BY <5>1 DEF Shape, Rows
        <4>2. DayOf(orders[o].at) \in Nat /\ DayOf(orders[o].at) <= DayOf(now)
          BY <1>0, <4>1, DayOfGrows
        <4> QED BY <1>0, <2>6, <4>2 DEF Today
      <3>2. OfSession(s, d) = {}
        BY <3>1 DEF OfSession
      <3> QED BY <3>2, FS_EmptySet
    <2>7. ASSUME NEW s \in Symbols
          PROVE  /\ days[s].day = Today' => Cardinality(OfSession(s, Today')) + 0 + 0 <= days[s].entries
                 /\ \A d \in 0 .. Today' : Cardinality(OfSession(s, d)) <= MaxEntries
      <3> DEFINE t == Today'
      <3>1. t \in Nat /\ Today <= t
        BY <2>5
      <3> HIDE DEF t
      <3>2. days[s].day \in -1 .. Today
        BY DEF Shape
      <3>3. days[s].day = t => t = Today
        BY <1>0, <3>1, <3>2
      <3>4. days[s].day = Today => rows(s) + 0 + 0 <= days[s].entries
        <4> HIDE DEF rows, waits
        <4> QED BY <1>a, <1>b, <1>d
      <3>5. \A d \in 0 .. t : Cardinality(OfSession(s, d)) <= MaxEntries
        <4>1. \A d \in 0 .. t : d \in 0 .. Today \/ (d \in Int /\ d > Today)
          BY <1>0, <3>1
        <4> QED BY <1>0, <1>d, <2>6, <4>1
      <3> QED BY <3>3, <3>4, <3>5 DEF t
    <2>8. ASSUME NEW s
          PROVE  /\ OfSession(s, Today)' = OfSession(s, Today')
                 /\ Where(bus, s)' = Where(bus', s)
      BY <2>1 DEF OfSession, DayOf, Where
    <2> QED BY <2>1, <2>2, <2>3, <2>4, <2>7, <2>8 DEF Slots
  <1>10. CASE Crash
    <2>1. UNCHANGED <<now, orders>> /\ bus' = <<>> /\ stage' = Idle /\ days' = [s \in Symbols |-> NoDay]
      BY <1>10 DEF Crash, book
    <2>2. \A s \in Symbols : days'[s].day # Today
      BY <1>0, <2>1 DEF NoDay
    <2>3. \A s : Cardinality(Where(bus', s)) = 0 /\ Weighed(s)' = 0
      <3>1. \A s : Cardinality(Where(<<>>, s)) = 0
        BY NothingWaits
      <3> QED BY <1>c, <2>1, <3>1 DEF Weighed
    <2>4. \A s, d : OfSession(s, d)' = OfSession(s, d)
      BY <2>1 DEF OfSession, DayOf
    <2>5. Today' = Today
      BY <2>1 DEF Today, DayOf
    <2> QED BY <1>d, <2>2, <2>3, <2>4, <2>5 DEF Slots
  <1>11. CASE Reconcile
    <2>1. UNCHANGED <<now, bus, stage, days>>
      BY <1>11 DEF Reconcile, memory
    <2>2. orders' = [o \in DOMAIN orders |->
                       [orders[o] EXCEPT !.status = IF @ = "pending" THEN "dead" ELSE @]]
      BY <1>11 DEF Reconcile
    <2>3. \A o \in DOMAIN orders : orders[o] \in Rows
      BY <1>0
    <2>4. /\ DOMAIN orders' = DOMAIN orders
          /\ \A o \in DOMAIN orders : orders'[o].sym = orders[o].sym /\ orders'[o].at = orders[o].at
      BY <2>2, <2>3 DEF Rows
    <2> QED BY <2>1, <2>4, SlotsKept DEF Weighed
  <1>12. CASE UNCHANGED vars
    BY <1>12, SlotsKept DEF vars, memory, book, Weighed
  <1> QED BY <1>1, <1>2, <1>3, <1>4, <1>5, <1>6, <1>7, <1>8, <1>9, <1>10, <1>11, <1>12
          DEF Next, EngineStep, WorldStep

-----------------------------------------------------------------------------
(* What the risk stage found still stands.                                  *)

(* What a step does to the book, the clock and the peak.                    *)
LEMMA StepFacts ==
  ASSUME Types, Shape, [Next]_vars
  PROVE  /\ trades' = trades \/ \E x \in Trades : trades' = Append(trades, x)
         /\ booked' \in booked .. Executed
         /\ DOMAIN orders \subseteq DOMAIN orders'
         /\ \A o \in DOMAIN orders : orders'[o].sym = orders[o].sym
         /\ NextMinute \/ (now' = now /\ began' = began)
         /\ peak' \in {peak, Max({peak, Equity})}
  <1>0. /\ orders \in Seq(Rows) /\ trades \in Seq(Trades) /\ Today \in Nat
        /\ booked \in booked .. Executed /\ Executed \in booked .. Executed
        /\ booked \in Nat /\ Executed \in Nat
    BY TodayType DEF Types, Executed
  <1>1. CASE OnBar \/ OnBarError \/ LoadAccount
    BY <1>0, <1>1 DEF OnBar, OnBarError, LoadAccount, book
  <1>4. ASSUME NEW b \in BOOLEAN, Evaluate(b)
        PROVE  UNCHANGED <<orders, trades, booked, now, began, peak>>
    BY <1>4 DEF Evaluate, book
  <1>5. ASSUME NEW b \in BOOLEAN, PersistOrSuppress(b)
        PROVE  /\ UNCHANGED <<trades, booked, now, began, peak>>
               /\ DOMAIN orders \subseteq DOMAIN orders'
               /\ \A o \in DOMAIN orders : orders'[o].sym = orders[o].sym
    <2>1. UNCHANGED <<trades, booked, now, began, peak>>
      BY <1>5 DEF PersistOrSuppress
    <2>2. orders' = orders \/ orders' = Append(orders, Row(Head(bus).sym, Head(bus).qty))
      BY <1>5 DEF PersistOrSuppress
    <2> QED BY <1>0, <2>1, <2>2
  <1>6. ASSUME NEW b \in BOOLEAN, Submit(b)
        PROVE  /\ UNCHANGED <<booked, now, began, peak>>
               /\ trades' = trades \/ \E x \in Trades : trades' = Append(trades, x)
               /\ DOMAIN orders' = DOMAIN orders
               /\ \A o \in DOMAIN orders : orders'[o].sym = orders[o].sym
    <2> DEFINE l == Len(orders)
               x == Trade(l, orders[l].qty, 0)
               r == [orders[l] EXCEPT !.status = IF b THEN "held" ELSE "dead"]
    <2>1. l \in DOMAIN orders /\ orders[l] \in Rows /\ l \in Nat \ {0}
      BY <1>0, <1>6 DEF Submit, Shape
    <2>2. x \in Trades
      BY <1>0, <2>1 DEF Trade, Trades, Rows
    <2>3. trades' = trades \/ trades' = Append(trades, x)
      BY <1>6 DEF Submit
    <2>4. orders' = [orders EXCEPT ![l] = r]
      BY <1>6, <2>1 DEF Submit
    <2>5. r.sym = orders[l].sym
      BY <2>1 DEF Rows
    <2>6. UNCHANGED <<booked, now, began, peak>>
      BY <1>6 DEF Submit
    <2> HIDE DEF x, r
    <2>7. DOMAIN orders' = DOMAIN orders /\ \A o \in DOMAIN orders : orders'[o].sym = orders[o].sym
      BY <1>0, <2>1, <2>4, <2>5
    <2> QED BY <2>2, <2>3, <2>6, <2>7
  <1>7. ASSUME NEW o \in DOMAIN orders, NEW k \in 1 .. orders[o].qty, NEW b \in BOOLEAN, BrokerExit(o, k, b)
        PROVE  /\ UNCHANGED <<orders, booked, now, began, peak>>
               /\ \E x \in Trades : trades' = Append(trades, x)
    <2>1. Trade(o, -k, IF b THEN k ELSE -k) \in Trades
      BY <1>0 DEF Trade, Trades
    <2> QED BY <1>7, <2>1 DEF BrokerExit
  <1>8. CASE BookTrade
    <2>1. booked' \in booked .. Executed
      <3>1. booked < Executed /\ booked' = booked + 1
        BY <1>8 DEF BookTrade
      <3> QED BY <1>0, <3>1
    <2> QED BY <1>8, <2>1 DEF BookTrade
  <1>9. CASE NextMinute
    BY <1>0, <1>9 DEF NextMinute, book
  <1>10. CASE Crash
    BY <1>0, <1>10 DEF Crash, book
  <1>11. CASE Reconcile
    <2>1. orders' = [o \in DOMAIN orders |->
                       [orders[o] EXCEPT !.status = IF @ = "pending" THEN "dead" ELSE @]]
      BY <1>11 DEF Reconcile
    <2>2. \A o \in DOMAIN orders : orders[o] \in Rows
      BY <1>0
    <2>3. DOMAIN orders' = DOMAIN orders /\ \A o \in DOMAIN orders : orders'[o].sym = orders[o].sym
      BY <2>1, <2>2 DEF Rows
    <2> QED BY <1>0, <1>11, <2>3 DEF Reconcile
  <1>12. CASE UNCHANGED vars
    BY <1>0, <1>12 DEF vars, book
  <1> QED BY <1>0, <1>1, <1>4, <1>5, <1>6, <1>7, <1>8, <1>9, <1>10, <1>11, <1>12
          DEF Next, EngineStep, WorldStep

LEMMA ThroughType ==
  ASSUME Types
  PROVE  /\ OpenThrough \subseteq DOMAIN orders /\ OpenThrough \subseteq Open(booked)
         /\ IsFiniteSet(Open(booked)) /\ Open(booked) \subseteq DOMAIN orders
  <1>1. DOMAIN orders = 1 .. Len(orders) /\ Len(orders) \in Nat
    BY DEF Types
  <1>2. IsFiniteSet(1 .. Len(orders))
    BY <1>1, FS_Interval
  <1>3. Open(booked) \in SUBSET (1 .. Len(orders)) /\ OpenThrough \subseteq Open(booked)
    BY <1>1 DEF Open, OpenThrough
  <1> QED BY <1>1, <1>2, <1>3, FS_Subset

(* The symbols of fewer lots are no more.                                   *)
SymbolsOf(f, S) == {f[o].sym : o \in S}

LEMMA FewerSymbols ==
  ASSUME NEW S, IsFiniteSet(S), NEW f, NEW T \in SUBSET S, NEW g, \A o \in T : g[o].sym = f[o].sym
  PROVE  /\ Cardinality(SymbolsOf(g, T)) <= Cardinality(SymbolsOf(f, S))
         /\ Cardinality(SymbolsOf(g, T)) \in Nat
         /\ Cardinality(SymbolsOf(f, S)) \in Nat
  <1> DEFINE A == {f[o].sym : o \in S}
             B == {g[o].sym : o \in T}
             h == [o \in S |-> f[o].sym]
  <1>1. h \in Surjection(S, A)
    BY DEF Surjection
  <1>2. IsFiniteSet(A)
    <2> HIDE DEF h, A
    <2> QED BY <1>1, FS_Surjection
  <1>3. B \in SUBSET A
    OBVIOUS
  <1> HIDE DEF A, B
  <1>4. IsFiniteSet(B) /\ Cardinality(B) <= Cardinality(A)
    BY <1>2, <1>3, FS_Subset
  <1>5. Cardinality(A) \in Nat /\ Cardinality(B) \in Nat
    BY <1>2, <1>4, FS_CardinalityType
  <1> QED BY <1>4, <1>5 DEF A, B, SymbolsOf

(* The lots that stood open through a minute become fewer as it goes on.    *)
LEMMA ThroughShrinks ==
  ASSUME Types, Shape, Ledger, [Next]_vars, began' = began
  PROVE  OpenThrough' \subseteq OpenThrough
  <1>1. /\ trades' = trades \/ \E x \in Trades : trades' = Append(trades, x)
        /\ booked' \in booked .. Executed
    BY StepFacts
  <1>2. \A o : \A n \in 0 .. Executed : LeftIn(trades', o, n) = Left(o, n)
    <2>1. ASSUME trades' = trades
          PROVE  \A o : \A n \in 0 .. Executed : LeftIn(trades', o, n) = Left(o, n)
      BY <2>1, Views
    <2>2. ASSUME NEW x \in Trades, trades' = Append(trades, x)
          PROVE  \A o : \A n \in 0 .. Executed : LeftIn(trades', o, n) = Left(o, n)
      BY <2>2, OneMoreTrade
    <2> QED BY <1>1, <2>1, <2>2
  <1>3. /\ began.booked \in 0 .. Executed /\ booked \in 0 .. Executed /\ booked' \in 0 .. Executed
        /\ booked \in began.booked .. Executed
    BY <1>1 DEF Types, Executed
  <1> SUFFICES ASSUME NEW o \in OpenThrough'
               PROVE  o \in OpenThrough
    OBVIOUS
  <1>4. LeftIn(trades', o, began.booked) > 0 /\ LeftIn(trades', o, booked') > 0
    BY DEF OpenThrough, Open, Left, LeftIn, QtyIn, Of, OfIn
  <1>5. Left(o, began.booked) > 0 /\ Left(o, booked') > 0
    BY <1>2, <1>3, <1>4
  <1>6. o \in DOMAIN orders
    BY <1>3, <1>5, Untraded
  <1>7. o \in Open(began.booked) /\ o \in Open(booked')
    BY <1>5, <1>6 DEF Open
  <1> DEFINE r == booked'
  <1>8. r \in booked .. Executed /\ o \in Open(r)
    BY <1>1, <1>7
  <1> HIDE DEF r
  <1>9. Open(began.booked) \cap Open(r) \subseteq Open(booked)
    BY <1>3, <1>8, OpenBetween
  <1> QED BY <1>7, <1>8, <1>9 DEF OpenThrough

(* In a minute that is quiet after a step nothing has moved.                *)
LEMMA QuietStep ==
  ASSUME Types, Shape, [Next]_vars, began' = began, now' = now, Quiet'
  PROVE  /\ Quiet /\ trades' = trades /\ booked' = booked
         /\ Equity' = Equity /\ SessionEquity' = SessionEquity
         /\ Losses => Losses'
         /\ \A q \in Nat : Sized(q) => Sized(q)'
  <1>0. /\ booked \in Nat /\ Executed \in Nat /\ trades \in Seq(Trades)
        /\ began \in [executed : 0 .. Executed, booked : 0 .. booked]
    BY DEF Types, Executed
  <1>1. began.executed = Executed' /\ began.booked = booked'
    BY DEF Quiet
  <1>2. trades' = trades
    <2>1. ASSUME NEW x \in Trades, trades' = Append(trades, x)
          PROVE  FALSE
      <3>1. Executed' = Executed + 1
        BY <2>1, OneMoreTrade
      <3>2. began.executed \in 0 .. Executed
        BY <1>0
      <3> QED BY <1>0, <1>1, <3>1, <3>2
    <2> QED BY <2>1, StepFacts
  <1>3. booked' = booked
    <2>1. booked' \in booked .. Executed
      BY StepFacts
    <2>2. began.booked \in 0 .. booked
      BY <1>0
    <2> QED BY <1>0, <1>1, <2>1, <2>2
  <1>4. Quiet
    <2>1. Executed' = Executed
      BY <1>2 DEF Executed
    <2> QED BY <1>3, <2>1 DEF Quiet
  <1>5. Today' = Today /\ Executed' = Executed
    BY <1>2 DEF Today, DayOf, Executed
  <1>6. Equity' = Equity /\ SessionEquity' = SessionEquity
    BY <1>2, <1>5 DEF Equity, SessionEquity, PnL, OfDay
  <1>7. /\ PnL(OfDay(Today, booked))' = PnL(OfDay(Today, booked))
        /\ PnL(OfDay(Today, Executed))' = PnL(OfDay(Today, Executed))
    BY <1>2, <1>3, <1>5 DEF PnL, OfDay
  <1>8. streak(booked)' = streak(booked)
    <2>1. \A o : Of(o, booked)' = Of(o, booked) /\ Left(o, booked)' = Left(o, booked)
      BY <1>2, <1>3 DEF Of, Left
    <2>2. \A o \in DOMAIN orders' : Of(o, booked) # {} => o \in DOMAIN orders
      BY <1>0, Untraded DEF Types
    <2>3. DOMAIN orders \subseteq DOMAIN orders'
      BY StepFacts
    <2>4. ClosedLots(booked)' = ClosedLots(booked)
      BY <2>1, <2>2, <2>3 DEF ClosedLots
    <2>5. \A o : ClosedAt(o, booked)' = ClosedAt(o, booked) /\ PnL(Of(o, booked))' = PnL(Of(o, booked))
      BY <1>2, <2>1 DEF ClosedAt, PnL
    <2> QED BY <2>4, <2>5 DEF streak
  <1>9. Losses => Losses'
    BY <1>6, <1>7, <1>8 DEF Losses, HitLimit
  <1>10. peak_equity(Equity)' = peak_equity(Equity)
    <2>1. peak \in Int /\ Equity \in Int
      BY Account DEF Types
    <2>2. peak' \in {peak, Max({peak, Equity})}
      BY StepFacts
    <2>3. Max({peak, Equity}) = IF peak >= Equity THEN peak ELSE Equity
      BY <2>1, MaxOfTwo
    <2> DEFINE e == Equity
               p == peak'
    <2>4. p \in Int /\ e \in Int
      BY <2>1, <2>2, <2>3
    <2>5. peak_equity(Equity)' = Max({p, e}) /\ peak_equity(Equity) = Max({peak, e})
      BY <1>6 DEF peak_equity
    <2> HIDE DEF p, e
    <2>6. Max({p, e}) = IF p >= e THEN p ELSE e
      BY <2>4, MaxOfTwo
    <2>7. Max({peak, e}) = IF peak >= e THEN peak ELSE e
      BY <2>1, <2>4, MaxOfTwo
    <2>8. p = peak \/ p = Max({peak, e})
      BY <2>2 DEF p, e
    <2> QED BY <2>1, <2>4, <2>5, <2>6, <2>7, <2>8
  <1>11. \A q \in Nat : Sized(q) => Sized(q)'
    <2>1. /\ DrawnDown(Equity, HaltPct)' <=> DrawnDown(Equity, HaltPct)
          /\ DrawnDown(Equity, HalvePct)' <=> DrawnDown(Equity, HalvePct)
      BY <1>6, <1>10 DEF DrawnDown
    <2> QED BY <1>6, <2>1 DEF Sized
  <1> QED BY <1>2, <1>3, <1>4, <1>6, <1>9, <1>11

(* An order on the bus was there before the step, or was approved by it.    *)
Approves(e) ==
  /\ stage.pc = "risk"
  /\ approved(stage, stage.sym, size_position(stage.equity))
  /\ e = Order(stage.sym, size_position(stage.equity))
  /\ UNCHANGED <<now, orders, trades, booked, peak, began>>

LEMMA OrdersOnBus ==
  ASSUME Types, [Next]_vars, NEW k \in DOMAIN bus', bus'[k].kind = "order"
  PROVE  /\ now' = now /\ began' = began
         /\ (\E j \in DOMAIN bus : bus[j] = bus'[k]) \/ Approves(bus'[k])
  <1>0. bus \in Seq(Events)
    BY DEF Types
  <1>a. ASSUME bus # <<>>, bus' = Tail(bus)
        PROVE  \E j \in DOMAIN bus : bus[j] = bus'[k]
    BY <1>0, <1>a
  <1>b. ASSUME bus' = bus
        PROVE  \E j \in DOMAIN bus : bus[j] = bus'[k]
    BY <1>b
  <1>c. ASSUME bus # <<>>, NEW s, bus' = Append(Tail(bus), Signal(s))
        PROVE  \E j \in DOMAIN bus : bus[j] = bus'[k]
    <2>1. Tail(bus) \in Seq(Events) /\ Len(Tail(bus)) = Len(bus) - 1
      BY <1>0, <1>c
    <2>2. k \in 1 .. Len(bus)
      BY <1>0, <1>c, <2>1
    <2>3. Signal(s).kind # "order"
      BY DEF Signal
    <2>4. k # Len(bus)
      BY <1>0, <1>c, <2>1, <2>3
    <2>5. bus'[k] = bus[k + 1] /\ k + 1 \in DOMAIN bus
      BY <1>0, <1>c, <2>1, <2>2, <2>4
    <2> QED BY <2>5
  <1>1. CASE OnBar
    <2>1. bus # <<>> /\ UNCHANGED <<now, began>>
      BY <1>1 DEF OnBar, Heads
    <2>2. bus' = Append(Tail(bus), Signal(Head(bus).sym)) \/ bus' = Tail(bus)
      BY <1>1 DEF OnBar
    <2> QED BY <1>a, <1>c, <2>1, <2>2
  <1>2. CASE OnBarError \/ LoadAccount
    BY <1>a, <1>2 DEF OnBarError, LoadAccount, Heads
  <1>4. ASSUME NEW b \in BOOLEAN, Evaluate(b)
        PROVE  /\ now' = now /\ began' = began
               /\ (\E j \in DOMAIN bus : bus[j] = bus'[k]) \/ Approves(bus'[k])
    <2> DEFINE q == size_position(stage.equity)
               e == Order(stage.sym, q)
    <2>1. stage.pc = "risk" /\ UNCHANGED <<now, orders, trades, booked, peak, began>>
      BY <1>4 DEF Evaluate, book
    <2>2. bus' = bus \/ (bus' = Append(bus, e) /\ approved(stage, stage.sym, q))
      BY <1>4 DEF Evaluate
    <2> HIDE DEF q, e
    <2>3. CASE bus' = Append(bus, e) /\ approved(stage, stage.sym, q)
      <3>1. bus'[k] = e \/ (k \in DOMAIN bus /\ bus'[k] = bus[k])
        BY <1>0, <2>3
      <3> QED BY <2>1, <2>3, <3>1 DEF Approves, q, e
    <2> QED BY <1>b, <2>1, <2>2, <2>3
  <1>5. ASSUME NEW b \in BOOLEAN, PersistOrSuppress(b)
        PROVE  now' = now /\ began' = began /\ \E j \in DOMAIN bus : bus[j] = bus'[k]
    BY <1>a, <1>5 DEF PersistOrSuppress, Heads
  <1>6. ASSUME NEW b \in BOOLEAN, Submit(b)
        PROVE  now' = now /\ began' = began /\ \E j \in DOMAIN bus : bus[j] = bus'[k]
    BY <1>b, <1>6 DEF Submit
  <1>7. ASSUME NEW o, NEW q, NEW b \in BOOLEAN, BrokerExit(o, q, b)
        PROVE  now' = now /\ began' = began /\ \E j \in DOMAIN bus : bus[j] = bus'[k]
    BY <1>b, <1>7 DEF BrokerExit, memory
  <1>8. CASE BookTrade \/ Reconcile
    BY <1>b, <1>8 DEF BookTrade, Reconcile, memory
  <1>9. ~NextMinute
    <2> SUFFICES ASSUME NextMinute PROVE FALSE
      OBVIOUS
    <2>1. bus' \in IF up THEN Bars ELSE {<<>>}
      BY DEF NextMinute
    <2> DEFINE q == bus'
    <2>2. q \in Bars \/ q = <<>>
      BY <2>1
    <2>3. k \in DOMAIN q /\ q[k].kind = "order"
      OBVIOUS
    <2> HIDE DEF q
    <2>4. q \in Bars => \A i \in DOMAIN q : q[i].kind = "bar"
      BY WhereBars
    <2> QED BY <2>2, <2>3, <2>4
  <1>10. ~Crash
    BY DEF Crash
  <1>12. CASE UNCHANGED vars
    BY <1>b, <1>12 DEF vars, memory
  <1> QED BY <1>1, <1>2, <1>4, <1>5, <1>6, <1>7, <1>8, <1>9, <1>10, <1>12
          DEF Next, EngineStep, WorldStep

(* What the controls let through.                                           *)
LEMMA ApprovedClears ==
  ASSUME Types, Ledger, Cleared, NEW e, Approves(e)
  PROVE  /\ Room
         /\ \A o \in OpenThrough : orders[o].sym # e.sym
         /\ e.qty \in Nat
         /\ Quiet => Losses /\ Sized(e.qty)
  <1> DEFINE q == size_position(stage.equity)
  <1>0. stage.equity \in Int /\ stage.last \in Int
    BY DEF Approves, Types, Stages, Idle
  <1>1. approved(stage, stage.sym, q) /\ stage.pc = "risk" /\ e.sym = stage.sym /\ e.qty = q
    BY DEF Approves, Order
  <1>2. q \in Int /\ q >= 1
    BY <1>0, <1>1, Sizing DEF approved
  <1>3. Room
    <2>1. Cardinality(SymbolsOf(orders, Open(booked))) < MaxPositions
      BY <1>1 DEF approved, check_max_positions, open_positions_count, SymbolsOf
    <2>2. OpenThrough \in SUBSET Open(booked) /\ IsFiniteSet(Open(booked))
      BY ThroughType
    <2>3. /\ Cardinality(SymbolsOf(orders, OpenThrough)) <= Cardinality(SymbolsOf(orders, Open(booked)))
          /\ Cardinality(SymbolsOf(orders, OpenThrough)) \in Nat
          /\ Cardinality(SymbolsOf(orders, Open(booked))) \in Nat
      BY <2>2, FewerSymbols
    <2>4. Cardinality(SymbolsOf(orders, OpenThrough)) < MaxPositions
      BY <2>1, <2>3, Parameters
    <2> QED BY <2>4 DEF Room, SymbolsOf
  <1>4. OpenLots(e.sym) = {}
    <2> DEFINE S == OpenLots(e.sym)
               f == [o \in DOMAIN orders |-> Left(o, booked)]
    <2>1. SumFunctionOnSet(f, S) = 0
      BY <1>1 DEF approved, check_no_pyramiding, strategy_open_qty
    <2>2. S \subseteq Open(booked) /\ S \subseteq DOMAIN orders /\ IsFiniteSet(S)
      <3>1. S \in SUBSET Open(booked)
        BY DEF OpenLots
      <3> QED BY <3>1, ThroughType, FS_Subset
    <2>3. \A o \in S : f[o] \in Nat /\ f[o] > 0
      <3>1. booked \in 0 .. Executed
        BY DEF Types
      <3> QED BY <2>2, <3>1, LeftType DEF Open
    <2> SUFFICES ASSUME NEW o \in S PROVE FALSE
      OBVIOUS
    <2> HIDE DEF S, f
    <2>4. SumFunctionOnSet(f, S) = f[o] + SumFunctionOnSet(f, S \ {o})
      <3>1. \A i \in S : f[i] \in Int
        BY <2>3
      <3> QED BY <2>2, <3>1, SumTake
    <2>5. SumFunctionOnSet(f, S \ {o}) \in Nat
      <3>1. IsFiniteSet(S \ {o})
        BY <2>2, FS_RemoveElement
      <3>2. \A i \in S \ {o} : f[i] \in Nat
        BY <2>3
      <3> QED BY <3>1, <3>2, SumNat
    <2> QED BY <2>1, <2>3, <2>4, <2>5
  <1>5. \A o \in OpenThrough : orders[o].sym # e.sym
    BY <1>4, ThroughType DEF OpenLots
  <1>6. ASSUME Quiet
        PROVE  Losses /\ Sized(q)
    <2>1. stage.equity = Equity /\ stage.last = SessionEquity
      BY <1>1, <1>6 DEF Cleared
    <2>2. Equity \in Int /\ PnL(OfDay(Today, Executed)) \in Int
      BY Account
    <2>3. stage.equity - stage.last = PnL(OfDay(Today, Executed))
      <3>1. SessionEquity = Equity - PnL(OfDay(Today, Executed))
        BY DEF SessionEquity
      <3> DEFINE p == PnL(OfDay(Today, Executed))
                 eq == Equity
      <3>2. stage.equity = eq /\ stage.last = eq - p /\ p \in Int /\ eq \in Int
        BY <2>1, <2>2, <3>1
      <3> HIDE DEF p, eq
      <3>3. stage.equity - stage.last = p
        BY <3>2
      <3> QED BY <3>3 DEF p
    <2>4. /\ ~HitLimit(day_realized_pnl, DayMultiple * stage.equity * effective_risk_pct)
          /\ ~HitLimit(stage.equity - stage.last, PortfolioPct * stage.equity)
          /\ consecutive_losses < MaxLosses
          /\ ~DrawnDown(stage.equity, HaltPct)
      BY <1>1 DEF approved, check_daily_loss, check_consecutive_losses, check_drawdown_halt
    <2>5. Losses
      BY <2>1, <2>3, <2>4 DEF Losses, day_realized_pnl, consecutive_losses
    <2>6. Sized(q)
      BY <2>1, <2>2, <2>4, Sizing DEF Sized
    <2> QED BY <2>5, <2>6
  <1> QED BY <1>1, <1>2, <1>3, <1>5, <1>6

LEMMA ClearedInit == Init => Cleared
  <1> SUFFICES ASSUME Init PROVE Cleared
    OBVIOUS
  <1>1. \A k \in DOMAIN bus : bus[k].kind = "bar"
    BY WhereBars DEF Init
  <1>2. stage.pc # "risk"
    BY DEF Init, Idle
  <1> QED BY <1>1, <1>2 DEF Cleared

LEMMA ClearedStep ==
  ASSUME Types, Types', Shape, Ledger, Cleared, [Next]_vars
  PROVE  Cleared'
  <1>1. ASSUME stage'.pc = "risk", Quiet'
        PROVE  stage'.equity = Equity' /\ stage'.last = SessionEquity'
    <2>0. Idle.pc = "idle"
      BY DEF Idle
    <2>1. CASE LoadAccount
      <3>1. stage'.equity = Equity /\ stage'.last = SessionEquity
        BY <2>1 DEF LoadAccount
      <3>2. began' = began /\ now' = now
        BY <2>1 DEF LoadAccount
      <3> QED BY <1>1, <3>1, <3>2, QuietStep
    <2>2. CASE ~LoadAccount
      <3>1. stage' = stage /\ began' = began /\ now' = now
        <4>1. ASSUME NEW b \in BOOLEAN, Evaluate(b) \/ PersistOrSuppress(b) \/ Submit(b)
              PROVE  stage' = stage /\ began' = began /\ now' = now
          BY <1>1, <2>0, <4>1 DEF Evaluate, PersistOrSuppress, Submit
        <4>2. ASSUME NEW o, NEW k, NEW b, BrokerExit(o, k, b)
              PROVE  stage' = stage /\ began' = began /\ now' = now
          BY <4>2 DEF BrokerExit, memory
        <4>3. CASE OnBar \/ OnBarError \/ BookTrade \/ Reconcile
          BY <4>3 DEF OnBar, OnBarError, BookTrade, Reconcile, memory
        <4>4. ~NextMinute /\ ~Crash
          BY <1>1, <2>0 DEF NextMinute, Crash
        <4>5. CASE UNCHANGED vars
          BY <4>5 DEF vars, memory
        <4> QED BY <2>2, <4>1, <4>2, <4>3, <4>4, <4>5 DEF Next, EngineStep, WorldStep
      <3>2. Quiet /\ Equity' = Equity /\ SessionEquity' = SessionEquity
        BY <1>1, <3>1, QuietStep
      <3> QED BY <1>1, <3>1, <3>2 DEF Cleared
    <2> QED BY <2>1, <2>2
  <1>2. ASSUME NEW k \in DOMAIN bus', bus'[k].kind = "order"
        PROVE  /\ Room'
               /\ \A o \in OpenThrough' : orders'[o].sym # bus'[k].sym
               /\ Quiet' => Losses' /\ Sized(bus[k].qty)'
    <2> DEFINE e == bus'[k]
    <2>1. /\ now' = now /\ began' = began
          /\ (\E j \in DOMAIN bus : bus[j] = e) \/ Approves(e)
      BY <1>2, OrdersOnBus
    <2>2. /\ Room
          /\ \A o \in OpenThrough : orders[o].sym # e.sym
          /\ e.qty \in Nat
          /\ Quiet => Losses /\ Sized(e.qty)
      <3>1. ASSUME NEW j \in DOMAIN bus, bus[j] = e
            PROVE  /\ Room
                   /\ \A o \in OpenThrough : orders[o].sym # e.sym
                   /\ e.qty \in Nat
                   /\ Quiet => Losses /\ Sized(e.qty)
        <4>1. bus[j].kind = "order" /\ bus[j] \in Events
          <5>1. bus \in Seq(Events)
            BY DEF Types
          <5>2. bus[j] \in Events
            BY <5>1
          <5>3. bus[j].kind = "order"
            BY <1>2, <3>1
          <5> QED BY <5>2, <5>3
        <4>2. bus[j].qty \in Nat
          BY <4>1 DEF Events
        <4> HIDE DEF e
        <4> QED BY <3>1, <4>1, <4>2 DEF Cleared
      <3> HIDE DEF e
      <3>2. CASE \E j \in DOMAIN bus : bus[j] = e
        <4>1. PICK j \in DOMAIN bus : bus[j] = e
          BY <3>2
        <4> QED BY <3>1, <4>1
      <3>3. CASE Approves(e)
        BY <3>3, ApprovedClears
      <3> QED BY <2>1, <3>2, <3>3
    <2> HIDE DEF e
    <2>3. OpenThrough' \subseteq OpenThrough
      BY <2>1, ThroughShrinks
    <2>4. \A o \in OpenThrough' : o \in DOMAIN orders /\ orders'[o].sym = orders[o].sym
      BY <2>3, StepFacts, ThroughType
    <2>5. Room'
      <3> DEFINE T == OpenThrough'
                 g == orders'
      <3>1. T \in SUBSET OpenThrough /\ \A o \in T : g[o].sym = orders[o].sym
        BY <2>3, <2>4
      <3>2. IsFiniteSet(OpenThrough)
        BY ThroughType, FS_Subset
      <3> HIDE DEF T, g
      <3>3. /\ Cardinality(SymbolsOf(g, T)) <= Cardinality(SymbolsOf(orders, OpenThrough))
            /\ Cardinality(SymbolsOf(g, T)) \in Nat
            /\ Cardinality(SymbolsOf(orders, OpenThrough)) \in Nat
        BY <3>1, <3>2, FewerSymbols
      <3>5. Cardinality(SymbolsOf(orders, OpenThrough)) < MaxPositions
        BY <2>2 DEF Room, SymbolsOf
      <3>4. Cardinality(SymbolsOf(g, T)) < MaxPositions
        BY <3>3, <3>5, Parameters
      <3> QED BY <3>4 DEF Room, SymbolsOf, T, g
    <2>6. ASSUME Quiet'
          PROVE  Losses' /\ Sized(bus[k].qty)'
      <3>1. /\ Quiet
            /\ Losses => Losses'
            /\ \A q \in Nat : Sized(q) => Sized(q)'
        BY <2>1, <2>6, QuietStep
      <3>2. \E q \in Nat : q = e.qty
        BY <2>2
      <3>3. PICK q \in Nat : q = e.qty
        BY <3>2
      <3>4. Sized(q)'
        BY <2>2, <3>1, <3>3
      <3>5. Sized(bus[k].qty)'
        BY <3>3, <3>4 DEF Sized, e
      <3> QED BY <2>2, <3>1, <3>5
    <2> QED BY <2>2, <2>3, <2>4, <2>5, <2>6 DEF e
  <1> QED BY <1>1, <1>2 DEF Cleared

-----------------------------------------------------------------------------
(* The invariant, and what it implies.                                      *)

LEMMA InvariantInit == Init => Invariant
  BY TypesInit, ShapeInit, LedgerInit, SlotsInit, ClearedInit DEF Invariant

LEMMA InvariantStep == Invariant /\ [Next]_vars => Invariant'
  <1> SUFFICES ASSUME Invariant, [Next]_vars
               PROVE  Invariant'
    OBVIOUS
  <1>1. Types /\ Shape /\ Ledger /\ Slots /\ Cleared
    BY DEF Invariant
  <1>2. Types'
    BY <1>1, TypesStep
  <1>3. Shape' /\ Ledger' /\ Slots'
    BY <1>1, ShapeStep, LedgerStep, SlotsStep
  <1>4. Cleared'
    BY <1>1, <1>2, ClearedStep
  <1> QED BY <1>2, <1>3, <1>4 DEF Invariant

(* The inductive invariant holds of every behaviour: the types, the shape   *)
(* of the book, the ledger of what is left, the counted slots of a session  *)
(* and what the controls cleared while its order waits on the bus.          *)
THEOREM Invariance == Spec => []Invariant
  <1>1. Init => Invariant
    BY InvariantInit
  <1>2. Invariant /\ [Next]_vars => Invariant'
    BY InvariantStep
  <1> QED BY <1>1, <1>2, PTL DEF Spec

LEMMA InvariantBounds == Invariant => EntriesBounded
  <1> SUFFICES ASSUME Invariant PROVE EntriesBounded
    OBVIOUS
  <1>1. Types /\ Shape /\ Ledger /\ Slots
    BY DEF Invariant
  <1>2. /\ \A k \in DOMAIN bus : bus[k].kind \in {"bar", "signal", "order"} /\ bus[k].sym \in Symbols
        /\ stage.pc \in {"idle", "risk", "submit"} /\ (stage # Idle => up)
    <2>1. \A k \in DOMAIN bus : bus[k] \in Events
      BY <1>1 DEF Types
    <2>2. \A k \in DOMAIN bus : bus[k].kind \in {"bar", "signal", "order"} /\ bus[k].sym \in Symbols
      BY <2>1 DEF Events
    <2>3. stage.pc \in {"idle", "risk", "submit"}
      BY <1>1 DEF Types, Stages, Idle
    <2> QED BY <1>1, <2>2, <2>3 DEF Shape
  <1>3. \A s \in Symbols : days[s].day \in -1 .. Today /\ days[s].entries \in 0 .. MaxEntries
    BY <1>1 DEF Types, Shape
  <1>4. ASSUME NEW o \in DOMAIN orders
        PROVE  /\ orders[o].sym \in Symbols /\ orders[o].at \in 0 .. now /\ orders[o].qty \in Nat \ {0}
               /\ orders[o].status \in {"pending", "held", "dead"}
               /\ (Of(o, Executed) # {}) = (orders[o].status = "held")
               /\ Left(o, booked) \in 0 .. orders[o].qty
    <2>1. orders[o] \in Rows
      BY <1>1 DEF Types
    <2>2. orders[o].at \in 0 .. now
      BY <1>1, <2>1, TodayType DEF Shape, Rows
    <2>3. (Of(o, Executed) # {}) <=> (orders[o].status = "held")
      BY <1>1 DEF Shape
    <2>4. Left(o, booked) \in 0 .. orders[o].qty
      BY <1>1 DEF Types, Ledger
    <2> QED BY <2>1, <2>2, <2>3, <2>4 DEF Rows
  <1>5. began.booked \in 0 .. booked /\ began.executed \in 0 .. Executed /\ booked <= Executed
    BY <1>1 DEF Types, Executed
  <1>6. TypeOK
    BY <1>1, <1>2, <1>3, <1>4, <1>5 DEF TypeOK, Types
  <1>7. SessionBound
    BY <1>1 DEF Slots, SessionBound, OfSession
  <1> QED BY <1>6, <1>7 DEF EntriesBounded

(* However often the engine dies and whatever it loses with the bus, no     *)
(* symbol gets more than max_entries_per_session entry rows a day.          *)
THEOREM SessionsBounded == Spec => []EntriesBounded
  BY Invariance, InvariantBounds, PTL

(* The step that writes an entry row consumes the order at the head.        *)
LEMMA EntryIs ==
  ASSUME Types, [Next]_vars, Enters
  PROVE  /\ 1 \in DOMAIN bus /\ bus[1].kind = "order" /\ bus[1].qty \in Nat \ {0}
         /\ Entered.sym = bus[1].sym /\ Entered.qty = bus[1].qty
  <1>0. orders \in Seq(Rows) /\ bus \in Seq(Events)
    BY DEF Types
  <1>a. Len(orders') # Len(orders) /\ orders' # orders
    BY <1>0 DEF Enters
  <1>1. ~(OnBar \/ OnBarError \/ LoadAccount \/ BookTrade \/ NextMinute \/ Crash)
    BY <1>a DEF OnBar, OnBarError, LoadAccount, BookTrade, NextMinute, Crash, book
  <1>2. ASSUME NEW b \in BOOLEAN, Evaluate(b)
        PROVE  FALSE
    BY <1>a, <1>2 DEF Evaluate, book
  <1>3. ASSUME NEW b \in BOOLEAN, Submit(b)
        PROVE  FALSE
    <2>1. orders' = [orders EXCEPT ![Len(orders)].status = IF b THEN "held" ELSE "dead"]
      BY <1>3 DEF Submit
    <2>2. Len(orders') = Len(orders)
      BY <1>0, <2>1
    <2> QED BY <1>a, <2>2
  <1>4. ASSUME NEW o, NEW k, NEW b, BrokerExit(o, k, b)
        PROVE  FALSE
    BY <1>a, <1>4 DEF BrokerExit
  <1>5. ~Reconcile
    <2> SUFFICES ASSUME Reconcile PROVE FALSE
      OBVIOUS
    <2>1. orders' = [o \in DOMAIN orders |->
                       [orders[o] EXCEPT !.status = IF @ = "pending" THEN "dead" ELSE @]]
      BY DEF Reconcile
    <2>2. DOMAIN orders' = 1 .. Len(orders) /\ Len(orders) \in Nat
      BY <1>0, <2>1
    <2>3. Len(orders') = Len(orders)
      BY <2>1, <2>2
    <2> QED BY <1>a, <2>3
  <1>6. ~UNCHANGED vars
    BY <1>a DEF vars, book
  <1>7. PICK b \in BOOLEAN : PersistOrSuppress(b)
    BY <1>1, <1>2, <1>3, <1>4, <1>5, <1>6 DEF Next, EngineStep, WorldStep
  <1>8. bus # <<>> /\ Head(bus).kind = "order" /\ orders' = Append(orders, Row(Head(bus).sym, Head(bus).qty))
    BY <1>7, <1>a DEF PersistOrSuppress, Heads
  <1>9. Head(bus) = bus[1] /\ 1 \in DOMAIN bus
    BY <1>0, <1>8
  <1>10. Entered = Row(Head(bus).sym, Head(bus).qty)
    BY <1>0, <1>8 DEF Entered
  <1>11. Head(bus).qty \in Nat \ {0}
    BY <1>8, HeadIs
  <1> QED BY <1>8, <1>9, <1>10, <1>11 DEF Row

(* No row is written beyond max_positions, or on top of a position of its   *)
(* own symbol, that has stood in the book through the minute.               *)
THEOREM PositionsCapped == Spec => PositionCap
  <1> DEFINE A == Enters => /\ Cardinality({orders[o].sym : o \in OpenThrough}) < MaxPositions
                            /\ \A o \in OpenThrough : orders[o].sym # Entered.sym
  <1>1. ASSUME Invariant, [Next]_vars
        PROVE  A
    <2> SUFFICES ASSUME Enters
                 PROVE  /\ Cardinality({orders[o].sym : o \in OpenThrough}) < MaxPositions
                        /\ \A o \in OpenThrough : orders[o].sym # Entered.sym
      OBVIOUS
    <2>1. Types /\ Cleared
      BY <1>1 DEF Invariant
    <2>2. 1 \in DOMAIN bus /\ bus[1].kind = "order" /\ Entered.sym = bus[1].sym
      BY <1>1, <2>1, EntryIs
    <2>3. Room /\ \A o \in OpenThrough : orders[o].sym # bus[1].sym
      BY <2>1, <2>2 DEF Cleared
    <2> QED BY <2>2, <2>3 DEF Room
  <1>2. Invariant /\ [Next]_vars => [A]_vars
    BY <1>1
  <1>3. Spec => [][A]_vars
    <2> HIDE DEF A
    <2> QED BY <1>2, Invariance, PTL DEF Spec
  <1> QED BY <1>3, PTL DEF PositionCap

(* In a minute in which nothing was executed or booked no row is written    *)
(* beyond the loss limits, of the session or of the trailing run.           *)
THEOREM LossesBite == Spec => LossesStop
  <1> DEFINE A == Enters /\ Quiet =>
       /\ ~HitLimit(PnL(OfDay(Today, booked)), DayMultiple * Equity * effective_risk_pct)
       /\ ~HitLimit(PnL(OfDay(Today, Executed)), PortfolioPct * Equity)
       /\ streak(booked) < MaxLosses
  <1>1. ASSUME Invariant, [Next]_vars
        PROVE  A
    <2>1. Types /\ Cleared
      BY <1>1 DEF Invariant
    <2>2. ASSUME Enters, Quiet
          PROVE  Losses
      <3>1. 1 \in DOMAIN bus /\ bus[1].kind = "order"
        BY <1>1, <2>1, <2>2, EntryIs
      <3> QED BY <2>1, <2>2, <3>1 DEF Cleared
    <2> QED BY <2>2 DEF Losses
  <1>2. Invariant /\ [Next]_vars => [A]_vars
    BY <1>1
  <1> HIDE DEF A
  <1>3. Spec => [][A]_vars
    BY <1>2, Invariance, PTL DEF Spec
  <1> QED BY <1>3 DEF A, LossesStop

(* A size for no more than the risk of the account, below the halt rung.    *)
LEMMA SizedHolds ==
  ASSUME Types, NEW q \in Nat \ {0}, Sized(q)
  PROVE  LET fall == (peak - Equity) * 100
             pct == IF Proven THEN StrategyPct ELSE UnprovenPct
         IN /\ fall < HaltPct * peak
            /\ q * 100 * (IF fall >= HalvePct * peak THEN 2 ELSE 1) <= pct * Equity
  <1> DEFINE e == Equity
             p == peak_equity(Equity)
             r == effective_risk_pct
             pct == IF Proven THEN StrategyPct ELSE UnprovenPct
             h == IF (p - e) * 100 >= HalvePct * p THEN 2 ELSE 1
             g == IF (peak - e) * 100 >= HalvePct * peak THEN 2 ELSE 1
  <1>1. e \in Int /\ peak \in Nat /\ p \in Int /\ p = IF peak >= e THEN peak ELSE e
    <2>1. Equity \in Int /\ peak \in Int /\ peak >= Equity0
      BY Account DEF Types
    <2> QED BY <2>1, PeakIs, Parameters
  <1>2. r \in Nat /\ pct \in Nat /\ r <= pct
    BY RiskPct, Parameters
  <1>3. HaltPct \in Nat /\ HalvePct \in Nat
    BY Parameters
  <1>4. ~((p - e) * 100 >= HaltPct * p) /\ q * (100 * h) <= e * r
    BY DEF Sized, DrawnDown
  <1> SUFFICES (peak - e) * 100 < HaltPct * peak /\ q * 100 * g <= pct * e
    OBVIOUS
  <1>a. h \in {1, 2} /\ g \in {1, 2}
    OBVIOUS
  <1>5. HaltPct * peak \in Nat /\ HalvePct * peak \in Nat
    BY <1>1, <1>3
  <1>6. g <= h /\ (peak - e) * 100 < HaltPct * peak
    <2>1. CASE peak >= e
      <3>1. p = peak
        BY <1>1, <2>1
      <3>2. g = h
        BY <3>1
      <3>3. (peak - e) * 100 \in Int
        BY <1>1
      <3> QED BY <1>4, <1>5, <1>a, <3>1, <3>2, <3>3
    <2>2. CASE ~(peak >= e)
      <3>1. (peak - e) * 100 < 0 /\ (peak - e) * 100 \in Int
        BY <1>1, <2>2
      <3>2. ~((peak - e) * 100 >= HalvePct * peak) /\ (peak - e) * 100 < HaltPct * peak
        BY <1>5, <3>1
      <3>3. g = 1
        BY <3>2
      <3> QED BY <1>a, <3>2, <3>3
    <2> QED BY <2>1, <2>2
  <1> HIDE DEF e, p, r, pct, h, g
  <1>7. q * 100 * g <= q * (100 * h) /\ q * (100 * h) > 0 /\ q * 100 * g \in Int
    BY <1>6, <1>a
  <1>8. e * r > 0 /\ e * r \in Int
    BY <1>1, <1>2, <1>4, <1>7, <1>a
  <1>9. e > 0
    BY <1>1, <1>2, <1>8
  <1>10. e * r <= pct * e /\ pct * e \in Int
    BY <1>1, <1>2, <1>9
  <1>11. q * 100 * g <= pct * e
    <2>1. q * (100 * h) \in Int
      BY <1>a
    <2> QED BY <1>4, <1>7, <1>8, <1>10, <2>1
  <1> QED BY <1>6, <1>11

(* In such a minute a row is written only above the halt rung of the        *)
(* drawdown ladder, and for no more than the clamped risk of the account.   *)
THEOREM LadderKept == Spec => LadderHolds
  <1> DEFINE A == Enters /\ Quiet =>
       LET fall == (peak - Equity) * 100
           pct == IF Proven THEN StrategyPct ELSE UnprovenPct
       IN /\ fall < HaltPct * peak
          /\ Entered.qty * 100 * (IF fall >= HalvePct * peak THEN 2 ELSE 1) <= pct * Equity
  <1>1. ASSUME Invariant, [Next]_vars
        PROVE  A
    <2>1. Types /\ Cleared
      BY <1>1 DEF Invariant
    <2> SUFFICES ASSUME Enters, Quiet
                 PROVE  LET fall == (peak - Equity) * 100
                            pct == IF Proven THEN StrategyPct ELSE UnprovenPct
                        IN /\ fall < HaltPct * peak
                           /\ Entered.qty * 100 * (IF fall >= HalvePct * peak THEN 2 ELSE 1) <= pct * Equity
      OBVIOUS
    <2> DEFINE q == bus[1].qty
    <2>2. 1 \in DOMAIN bus /\ bus[1].kind = "order" /\ q \in Nat \ {0} /\ Entered.qty = q
      BY <1>1, <2>1, EntryIs
    <2>3. Sized(q)
      BY <2>1, <2>2 DEF Cleared
    <2> HIDE DEF q
    <2>4. LET fall == (peak - Equity) * 100
              pct == IF Proven THEN StrategyPct ELSE UnprovenPct
          IN /\ fall < HaltPct * peak
             /\ q * 100 * (IF fall >= HalvePct * peak THEN 2 ELSE 1) <= pct * Equity
      BY <2>1, <2>2, <2>3, SizedHolds
    <2> QED BY <2>2, <2>4
  <1>2. Invariant /\ [Next]_vars => [A]_vars
    BY <1>1
  <1> HIDE DEF A
  <1>3. Spec => [][A]_vars
    BY <1>2, Invariance, PTL DEF Spec
  <1> QED BY <1>3 DEF A, LadderHolds
=============================================================================
