--------------------------- MODULE LotBookProofs ---------------------------
(***************************************************************************)
(* Proofs about the lot book, for every set of orders and every bound.     *)
(*                                                                         *)
(* Sums over finite sets of lots, remainders and orders come first: a      *)
(* statement about them is proved by taking a smallest set of indices for  *)
(* which it fails.  Then what the operators on a book do to its ledger and *)
(* to its lots, the invariant of the ledger, and the invariant of the lots *)
(* that rests on it.                                                       *)
(***************************************************************************)
EXTENDS LotBook, FiniteSetTheorems, WellFoundedInduction, TLAPS

-----------------------------------------------------------------------------
(* Sums.                                                                    *)

(* A nonempty collection of finite subsets of a set has a minimal one.      *)
LEMMA MinimalSet ==
  ASSUME NEW S, NEW C \in SUBSET FiniteSubsetsOf(S), C # {}
  PROVE  \E T \in C : \A U \in C : U \subseteq T => U = T
  <1> DEFINE R == StrictSubsetOrdering(S)
  <1>1. IsWellFoundedOn(R, FiniteSubsetsOf(S))
    BY FS_StrictSubsetOrderingWellFounded
  <1> HIDE DEF R
  <1>3. \E T \in C : \A U \in C : ~ (<<U, T>> \in R)
    BY <1>1, WFMin
  <1>5. PICK T \in C : \A U \in C : <<U, T>> \notin R
    BY <1>3
  <1>4. ASSUME NEW U \in C, U \subseteq T, U # T
        PROVE  <<U, T>> \in R
    BY <1>4 DEF R, StrictSubsetOrdering, FiniteSubsetsOf
  <1>6. \A U \in C : U \subseteq T => U = T
    BY <1>4, <1>5
  <1> QED BY <1>6, Zenon

LEMMA LeastNat ==
  ASSUME NEW T \in SUBSET Nat, T # {}
  PROVE  \E n \in T : \A m \in T : n <= m
  <1> DEFINE C == {0 .. n : n \in T}
  <1>1. C # {} /\ C \in SUBSET FiniteSubsetsOf(Nat)
    <2>1. \A n \in T : 0 .. n \subseteq Nat /\ IsFiniteSet(0 .. n)
      BY FS_Interval
    <2> QED BY <2>1 DEF FiniteSubsetsOf
  <1>5. C = {0 .. n : n \in T}
    OBVIOUS
  <1> HIDE DEF C
  <1>2. PICK A \in C : \A U \in C : U \subseteq A => U = A
    BY <1>1, MinimalSet
  <1>3. PICK n \in T : A = 0 .. n
    BY <1>5
  <1>4. ASSUME NEW m \in T, m < n
        PROVE  FALSE
    <2>1. 0 .. m \in C /\ 0 .. m \subseteq A
      BY <1>3, <1>4, <1>5
    <2>2. 0 .. m = 0 .. n
      BY <1>2, <1>3, <2>1
    <2>3. n \in 0 .. n /\ n \notin 0 .. m
      BY <1>4
    <2> QED BY <2>2, <2>3
  <1> QED BY <1>4

(* The function that SumFunctionOnSet folds with.                           *)
Pick(s) == CHOOSE x \in s : TRUE
FoldsTo(f, S, g) ==
  g = [s \in SUBSET S |-> IF s = {} THEN 0 ELSE f[Pick(s)] + g[s \ {Pick(s)}]]

LEMMA SumIsFold ==
  ASSUME NEW f, NEW S
  PROVE  SumFunctionOnSet(f, S) = (CHOOSE g : FoldsTo(f, S, g))[S]
  BY DEF SumFunctionOnSet, FoldFunctionOnSet, MapThenFoldSet, FoldsTo, Pick

LEMMA FoldAt ==
  ASSUME NEW f, NEW S, NEW g, FoldsTo(f, S, g), NEW s \in SUBSET S
  PROVE  g[s] = IF s = {} THEN 0 ELSE f[Pick(s)] + g[s \ {Pick(s)}]
  <1> DEFINE h == [t \in SUBSET S |-> IF t = {} THEN 0 ELSE f[Pick(t)] + g[t \ {Pick(t)}]]
  <1>1. g = h
    BY DEF FoldsTo
  <1>2. h[s] = IF s = {} THEN 0 ELSE f[Pick(s)] + g[s \ {Pick(s)}]
    OBVIOUS
  <1> HIDE DEF h
  <1> QED BY <1>1, <1>2

LEMMA PickIn ==
  ASSUME NEW s, s # {}
  PROVE  Pick(s) \in s
  BY DEF Pick

(* Two such functions agree where their domains overlap.                    *)
LEMMA FoldsAgree ==
  ASSUME NEW f, NEW S, NEW T, NEW g, NEW h, FoldsTo(f, S, g), FoldsTo(f, T, h),
         IsFiniteSet(S)
  PROVE  \A s \in SUBSET (S \cap T) : g[s] = h[s]
  <1> DEFINE C == {s \in SUBSET (S \cap T) : g[s] # h[s]}
  <1> SUFFICES ASSUME C # {} PROVE FALSE
    OBVIOUS
  <1>1. C \in SUBSET FiniteSubsetsOf(S)
    BY FS_Subset DEF FiniteSubsetsOf
  <1>2. PICK s \in C : \A u \in C : u \subseteq s => u = s
    <2> HIDE DEF C
    <2> QED BY <1>1, MinimalSet
  <1>7. s \in SUBSET S /\ s \in SUBSET T /\ g[s] # h[s]
    BY <1>2
  <1>8. \A t \in SUBSET (S \cap T) : t \notin C => g[t] = h[t]
    OBVIOUS
  <1> HIDE DEF C
  <1>3. g[s] = IF s = {} THEN 0 ELSE f[Pick(s)] + g[s \ {Pick(s)}]
    BY <1>7, FoldAt
  <1>4. h[s] = IF s = {} THEN 0 ELSE f[Pick(s)] + h[s \ {Pick(s)}]
    BY <1>7, FoldAt
  <1>5. CASE s = {}
    BY <1>3, <1>4, <1>5, <1>7
  <1>6. CASE s # {}
    <2>1. Pick(s) \in s
      BY <1>6, PickIn
    <2>2. s \ {Pick(s)} \notin C
      BY <1>2, <2>1
    <2>3. g[s \ {Pick(s)}] = h[s \ {Pick(s)}]
      BY <1>7, <1>8, <2>2
    <2> QED BY <1>3, <1>4, <1>6, <1>7, <2>3
  <1> QED BY <1>5, <1>6

LEMMA FoldExists ==
  ASSUME NEW f, NEW S, IsFiniteSet(S)
  PROVE  \E g : FoldsTo(f, S, g)
  <1> DEFINE C == {s \in SUBSET S : ~ \E g : FoldsTo(f, s, g)}
  <1> SUFFICES ASSUME C # {} PROVE FALSE
    OBVIOUS
  <1>1. C \in SUBSET FiniteSubsetsOf(S)
    BY FS_Subset DEF FiniteSubsetsOf
  <1>2. PICK s \in C : \A u \in C : u \subseteq s => u = s
    <2> HIDE DEF C
    <2> QED BY <1>1, MinimalSet
  <1>3. \A u \in SUBSET s : IsFiniteSet(u) /\ (u # s => \E g : FoldsTo(f, u, g))
    BY <1>1, <1>2, FS_Subset DEF FiniteSubsetsOf
  <1> DEFINE G(u) == CHOOSE g : FoldsTo(f, u, g)
  <1>4. \A u \in SUBSET s : u # s => FoldsTo(f, u, G(u))
    BY <1>3
  <1> HIDE DEF G
  <1> DEFINE v(u) == IF u = {} THEN 0 ELSE f[Pick(u)] + G(u \ {Pick(u)})[u \ {Pick(u)}]
             h == [u \in SUBSET s |-> v(u)]
  <1>5. ASSUME NEW u \in SUBSET s
        PROVE  h[u] = IF u = {} THEN 0 ELSE f[Pick(u)] + h[u \ {Pick(u)}]
    <2>1. CASE u = {}
      BY <2>1
    <2>2. CASE u # {}
      <3> DEFINE t == u \ {Pick(u)}
      <3>1. Pick(u) \in u
        BY <2>2, PickIn
      <3>2. t \in SUBSET s /\ t # s /\ IsFiniteSet(t)
        BY <1>3, <3>1
      <3>3. h[t] = v(t) /\ h[u] = f[Pick(u)] + G(t)[t]
        BY <2>2, <3>2
      <3>4. FoldsTo(f, t, G(t))
        BY <1>4, <3>2
      <3> HIDE DEF h
      <3>5. G(t)[t] = IF t = {} THEN 0 ELSE f[Pick(t)] + G(t)[t \ {Pick(t)}]
        <4> HIDE DEF t
        <4> QED BY <3>4, FoldAt
      <3>6. CASE t = {}
        BY <3>3, <3>5, <3>6, <2>2
      <3>7. CASE t # {}
        <4> DEFINE q == t \ {Pick(t)}
        <4>1. Pick(t) \in t /\ q \in SUBSET s /\ q # s
          BY <3>2, <3>7, PickIn
        <4>2. FoldsTo(f, q, G(q))
          BY <1>4, <4>1
        <4>3. G(t)[q] = G(q)[q]
          BY <3>2, <3>4, <4>2, FoldsAgree
        <4> QED BY <2>2, <3>3, <3>5, <3>7, <4>3
      <3> QED BY <3>6, <3>7
    <2> QED BY <2>1, <2>2
  <1>6. h = [u \in SUBSET s |-> h[u]]
    OBVIOUS
  <1> HIDE DEF h
  <1>7. FoldsTo(f, s, h)
    BY <1>5, <1>6 DEF FoldsTo
  <1> QED BY <1>2, <1>7

(* The sum over no indices, and over the rest once one is picked.           *)
LEMMA SumEmpty == \A f : SumFunctionOnSet(f, {}) = 0
  <1> TAKE f
  <1> DEFINE g == CHOOSE g : FoldsTo(f, {}, g)
  <1>1. FoldsTo(f, {}, g)
    BY FS_EmptySet, FoldExists
  <1>2. SumFunctionOnSet(f, {}) = g[{}]
    BY SumIsFold
  <1> HIDE DEF g
  <1> QED BY <1>1, <1>2, FoldAt

LEMMA SumPick ==
  ASSUME NEW f, NEW S, IsFiniteSet(S), S # {}
  PROVE  SumFunctionOnSet(f, S) = f[Pick(S)] + SumFunctionOnSet(f, S \ {Pick(S)})
  <1> DEFINE T == S \ {Pick(S)}
             g == CHOOSE g : FoldsTo(f, S, g)
             h == CHOOSE h : FoldsTo(f, T, h)
  <1>1. IsFiniteSet(T)
    BY FS_RemoveElement
  <1>2. SumFunctionOnSet(f, S) = g[S] /\ SumFunctionOnSet(f, T) = h[T]
    BY SumIsFold
  <1>3. FoldsTo(f, S, g)
    BY FoldExists
  <1> HIDE DEF g, T
  <1>4. FoldsTo(f, T, h)
    BY <1>1, FoldExists
  <1> HIDE DEF h
  <1>5. g[S] = f[Pick(S)] + g[S \ {Pick(S)}]
    BY <1>3, FoldAt
  <1>6. g[T] = h[T]
    <2>1. T \in SUBSET (S \cap T)
      BY DEF T
    <2> QED BY <1>3, <1>4, <2>1, FoldsAgree
  <1> QED BY <1>2, <1>5, <1>6 DEF T

(* Induction on the finite set of indices: a set for which a statement      *)
(* fails has a smallest subset for which it does.                           *)
LEMMA SumType ==
  ASSUME NEW S, IsFiniteSet(S), NEW f, \A i \in S : f[i] \in Int
  PROVE  SumFunctionOnSet(f, S) \in Int
  <1> DEFINE C == {s \in SUBSET S : SumFunctionOnSet(f, s) \notin Int}
  <1> SUFFICES ASSUME C # {} PROVE FALSE
    OBVIOUS
  <1>1. C \in SUBSET FiniteSubsetsOf(S)
    BY FS_Subset DEF FiniteSubsetsOf
  <1>2. PICK s \in C : \A u \in C : u \subseteq s => u = s
    <2> HIDE DEF C
    <2> QED BY <1>1, MinimalSet
  <1>3. IsFiniteSet(s) /\ s \in SUBSET S
    BY <1>1 DEF FiniteSubsetsOf
  <1>4. CASE s = {}
    BY <1>4, SumEmpty
  <1>5. CASE s # {}
    <2>1. Pick(s) \in s
      BY <1>5, PickIn
    <2>2. SumFunctionOnSet(f, s \ {Pick(s)}) \in Int
      BY <1>2, <2>1
    <2>3. SumFunctionOnSet(f, s) = f[Pick(s)] + SumFunctionOnSet(f, s \ {Pick(s)})
      BY <1>3, <1>5, SumPick
    <2> QED BY <1>3, <2>1, <2>2, <2>3
  <1> QED BY <1>4, <1>5

LEMMA SumNat ==
  ASSUME NEW S, IsFiniteSet(S), NEW f, \A i \in S : f[i] \in Nat
  PROVE  SumFunctionOnSet(f, S) \in Nat
  <1> DEFINE C == {s \in SUBSET S : SumFunctionOnSet(f, s) \notin Nat}
  <1> SUFFICES ASSUME C # {} PROVE FALSE
    OBVIOUS
  <1>1. C \in SUBSET FiniteSubsetsOf(S)
    BY FS_Subset DEF FiniteSubsetsOf
  <1>2. PICK s \in C : \A u \in C : u \subseteq s => u = s
    <2> HIDE DEF C
    <2> QED BY <1>1, MinimalSet
  <1>3. IsFiniteSet(s) /\ s \in SUBSET S
    BY <1>1 DEF FiniteSubsetsOf
  <1>4. CASE s = {}
    BY <1>4, SumEmpty
  <1>5. CASE s # {}
    <2>1. Pick(s) \in s
      BY <1>5, PickIn
    <2>2. SumFunctionOnSet(f, s \ {Pick(s)}) \in Nat
      BY <1>2, <2>1
    <2>3. SumFunctionOnSet(f, s) = f[Pick(s)] + SumFunctionOnSet(f, s \ {Pick(s)})
      BY <1>3, <1>5, SumPick
    <2> QED BY <1>3, <2>1, <2>2, <2>3
  <1> QED BY <1>4, <1>5

(* Any index can be taken out first.                                        *)
LEMMA SumTake ==
  ASSUME NEW S, IsFiniteSet(S), NEW f, \A i \in S : f[i] \in Int, NEW x \in S
  PROVE  SumFunctionOnSet(f, S) = f[x] + SumFunctionOnSet(f, S \ {x})
  <1> DEFINE Holds(s) == \A i \in s : SumFunctionOnSet(f, s) = f[i] + SumFunctionOnSet(f, s \ {i})
             C == {s \in SUBSET S : ~Holds(s)}
  <1> SUFFICES ASSUME C # {} PROVE FALSE
    OBVIOUS
  <1>1. C \in SUBSET FiniteSubsetsOf(S)
    BY FS_Subset DEF FiniteSubsetsOf
  <1>2. PICK s \in C : \A u \in C : u \subseteq s => u = s
    <2> HIDE DEF C
    <2> QED BY <1>1, MinimalSet
  <1>3. IsFiniteSet(s) /\ s \in SUBSET S
    BY <1>1 DEF FiniteSubsetsOf
  <1>4. PICK i \in s : ~(SumFunctionOnSet(f, s) = f[i] + SumFunctionOnSet(f, s \ {i}))
    BY <1>2
  <1> DEFINE p == Pick(s)
  <1>5. p \in s
    BY PickIn
  <1>6. SumFunctionOnSet(f, s) = f[p] + SumFunctionOnSet(f, s \ {p})
    BY <1>3, SumPick
  <1> HIDE DEF p
  <1>7. p # i
    BY <1>4, <1>6
  <1>8. \A u \in SUBSET s : u # s => Holds(u)
    BY <1>2, <1>3
  <1>9. SumFunctionOnSet(f, s \ {p}) = f[i] + SumFunctionOnSet(f, (s \ {p}) \ {i})
    BY <1>5, <1>7, <1>8
  <1>10. SumFunctionOnSet(f, s \ {i}) = f[p] + SumFunctionOnSet(f, (s \ {i}) \ {p})
    BY <1>5, <1>7, <1>8
  <1>11. (s \ {p}) \ {i} = (s \ {i}) \ {p}
    OBVIOUS
  <1>12. SumFunctionOnSet(f, (s \ {p}) \ {i}) \in Int
    <2>1. IsFiniteSet((s \ {p}) \ {i})
      BY <1>3, FS_RemoveElement
    <2> QED BY <1>3, <2>1, SumType
  <1>13. f[p] \in Int /\ f[i] \in Int
    BY <1>3, <1>5
  <1> DEFINE rest == SumFunctionOnSet(f, (s \ {p}) \ {i})
  <1>14. SumFunctionOnSet(f, s \ {p}) = f[i] + rest /\ SumFunctionOnSet(f, s \ {i}) = f[p] + rest
    BY <1>9, <1>10, <1>11
  <1>15. rest \in Int
    BY <1>12
  <1> HIDE DEF rest
  <1>16. SumFunctionOnSet(f, s) = f[i] + SumFunctionOnSet(f, s \ {i})
    BY <1>6, <1>13, <1>14, <1>15
  <1> QED BY <1>4, <1>16

(* Equal summands, equal sums.                                              *)
LEMMA SumSame ==
  ASSUME NEW S, IsFiniteSet(S), NEW f, NEW g, \A i \in S : f[i] = g[i]
  PROVE  SumFunctionOnSet(f, S) = SumFunctionOnSet(g, S)
  <1> DEFINE C == {s \in SUBSET S : SumFunctionOnSet(f, s) # SumFunctionOnSet(g, s)}
  <1> SUFFICES ASSUME C # {} PROVE FALSE
    OBVIOUS
  <1>1. C \in SUBSET FiniteSubsetsOf(S)
    BY FS_Subset DEF FiniteSubsetsOf
  <1>2. PICK s \in C : \A u \in C : u \subseteq s => u = s
    <2> HIDE DEF C
    <2> QED BY <1>1, MinimalSet
  <1>3. IsFiniteSet(s) /\ s \in SUBSET S
    BY <1>1 DEF FiniteSubsetsOf
  <1>4. CASE s = {}
    BY <1>4, SumEmpty
  <1>5. CASE s # {}
    <2>1. Pick(s) \in s
      BY <1>5, PickIn
    <2>2. SumFunctionOnSet(f, s \ {Pick(s)}) = SumFunctionOnSet(g, s \ {Pick(s)})
      BY <1>2, <1>3, <2>1
    <2>3. /\ SumFunctionOnSet(f, s) = f[Pick(s)] + SumFunctionOnSet(f, s \ {Pick(s)})
          /\ SumFunctionOnSet(g, s) = g[Pick(s)] + SumFunctionOnSet(g, s \ {Pick(s)})
      BY <1>3, <1>5, SumPick
    <2> QED BY <1>3, <2>1, <2>2, <2>3
  <1> QED BY <1>4, <1>5

(* The sum of sums.                                                         *)
LEMMA SumPlus ==
  ASSUME NEW S, IsFiniteSet(S), NEW f, NEW g, NEW h,
         \A i \in S : f[i] \in Int /\ g[i] \in Int /\ h[i] = f[i] + g[i]
  PROVE  SumFunctionOnSet(h, S) = SumFunctionOnSet(f, S) + SumFunctionOnSet(g, S)
  <1> DEFINE C == {s \in SUBSET S : SumFunctionOnSet(h, s) # SumFunctionOnSet(f, s) + SumFunctionOnSet(g, s)}
  <1> SUFFICES ASSUME C # {} PROVE FALSE
    OBVIOUS
  <1>1. C \in SUBSET FiniteSubsetsOf(S)
    BY FS_Subset DEF FiniteSubsetsOf
  <1>2. PICK s \in C : \A u \in C : u \subseteq s => u = s
    <2> HIDE DEF C
    <2> QED BY <1>1, MinimalSet
  <1>3. IsFiniteSet(s) /\ s \in SUBSET S
    BY <1>1 DEF FiniteSubsetsOf
  <1>6. ~(SumFunctionOnSet(h, s) = SumFunctionOnSet(f, s) + SumFunctionOnSet(g, s))
    BY <1>2
  <1>4. CASE s = {}
    BY <1>4, SumEmpty
  <1>5. CASE s # {}
    <2> DEFINE p == Pick(s)
               t == s \ {Pick(s)}
    <2>1. p \in s
      BY <1>5, PickIn
    <2>2. SumFunctionOnSet(h, t) = SumFunctionOnSet(f, t) + SumFunctionOnSet(g, t)
      BY <1>2, <1>3, <2>1
    <2>3. /\ SumFunctionOnSet(f, s) = f[p] + SumFunctionOnSet(f, t)
          /\ SumFunctionOnSet(g, s) = g[p] + SumFunctionOnSet(g, t)
          /\ SumFunctionOnSet(h, s) = h[p] + SumFunctionOnSet(h, t)
      BY <1>3, <1>5, SumPick
    <2>4. IsFiniteSet(t) /\ t \in SUBSET S
      BY <1>3, FS_RemoveElement
    <2> HIDE DEF t, p
    <2>5. SumFunctionOnSet(f, t) \in Int /\ SumFunctionOnSet(g, t) \in Int
      BY <2>4, SumType
    <2>6. f[p] \in Int /\ g[p] \in Int /\ h[p] = f[p] + g[p]
      BY <1>3, <2>1
    <2>7. SumFunctionOnSet(h, s) = SumFunctionOnSet(f, s) + SumFunctionOnSet(g, s)
      BY <2>2, <2>3, <2>5, <2>6
    <2> QED BY <1>6, <2>7
  <1> QED BY <1>4, <1>5

(* Summands of nothing.                                                     *)
LEMMA SumExtend ==
  ASSUME NEW S, IsFiniteSet(S), NEW f, \A i \in S : f[i] \in Int,
         NEW T \in SUBSET S, \A i \in S \ T : f[i] = 0
  PROVE  SumFunctionOnSet(f, S) = SumFunctionOnSet(f, T)
  <1> DEFINE C == {s \in SUBSET S : T \subseteq s /\ SumFunctionOnSet(f, s) # SumFunctionOnSet(f, T)}
  <1> SUFFICES ASSUME C # {} PROVE FALSE
    OBVIOUS
  <1>1. C \in SUBSET FiniteSubsetsOf(S)
    BY FS_Subset DEF FiniteSubsetsOf
  <1>2. PICK s \in C : \A u \in C : u \subseteq s => u = s
    <2> HIDE DEF C
    <2> QED BY <1>1, MinimalSet
  <1>3. IsFiniteSet(s) /\ s \in SUBSET S
    BY <1>1 DEF FiniteSubsetsOf
  <1>4. PICK x \in s : x \notin T
    <2>1. T \subseteq s /\ s # T
      BY <1>2
    <2> QED BY <2>1
  <1>5. SumFunctionOnSet(f, s) = f[x] + SumFunctionOnSet(f, s \ {x})
    BY <1>3, SumTake
  <1>6. SumFunctionOnSet(f, s \ {x}) = SumFunctionOnSet(f, T)
    BY <1>2, <1>3, <1>4
  <1>7. f[x] = 0 /\ SumFunctionOnSet(f, s \ {x}) \in Int
    <2>1. IsFiniteSet(s \ {x})
      BY <1>3, FS_RemoveElement
    <2> QED BY <1>3, <1>4, <2>1, SumType
  <1> QED BY <1>2, <1>5, <1>6, <1>7

(* One summand changes.                                                     *)
LEMMA SumChange ==
  ASSUME NEW S, IsFiniteSet(S), NEW f, NEW g, NEW x \in S,
         \A i \in S : f[i] \in Int /\ g[i] \in Int, \A i \in S \ {x} : f[i] = g[i]
  PROVE  SumFunctionOnSet(g, S) = SumFunctionOnSet(f, S) - f[x] + g[x]
  <1>1. IsFiniteSet(S \ {x})
    BY FS_RemoveElement
  <1>2. SumFunctionOnSet(f, S \ {x}) = SumFunctionOnSet(g, S \ {x})
    BY <1>1, SumSame
  <1>3. SumFunctionOnSet(f, S) = f[x] + SumFunctionOnSet(f, S \ {x})
    BY SumTake
  <1>4. SumFunctionOnSet(g, S) = g[x] + SumFunctionOnSet(g, S \ {x})
    BY SumTake
  <1>5. SumFunctionOnSet(f, S \ {x}) \in Int
    BY <1>1, SumType
  <1> QED BY <1>2, <1>3, <1>4, <1>5

(* The maximum of a finite set of numbers, the minimum of any of naturals.  *)
LEMMA MaxOfFinite ==
  ASSUME NEW S \in SUBSET Int, S # {}, IsFiniteSet(S)
  PROVE  Max(S) \in S /\ \A y \in S : Max(S) >= y
  <1> DEFINE above(x) == {y \in S : y > x}
             C == {above(x) : x \in S}
  <1>1. C \in SUBSET FiniteSubsetsOf(S) /\ C # {}
    <2>1. \A x \in S : above(x) \in SUBSET S
      OBVIOUS
    <2>2. ASSUME NEW x \in S
          PROVE  above(x) \in FiniteSubsetsOf(S)
      BY <2>1, FS_Subset DEF FiniteSubsetsOf
    <2> HIDE DEF above
    <2> QED BY <2>2
  <1>2. PICK A \in C : \A U \in C : U \subseteq A => U = A
    <2> HIDE DEF C
    <2> QED BY <1>1, MinimalSet
  <1>3. PICK x \in S : A = above(x)
    OBVIOUS
  <1>4. A = {}
    <2> SUFFICES ASSUME NEW y \in A PROVE FALSE
      OBVIOUS
    <2>1. y \in S /\ y > x
      BY <1>3
    <2>2. above(y) \in C
      BY <2>1
    <2>3. above(y) \subseteq A /\ y \notin above(y)
      <3>1. \A z \in above(y) : z \in above(x)
        BY <2>1
      <3>2. y \notin above(y)
        BY <2>1
      <3> QED BY <1>3, <3>1, <3>2
    <2> QED BY <1>2, <2>2, <2>3
  <1>5. \A y \in S : x >= y
    BY <1>3, <1>4
  <1> QED BY <1>5 DEF Max

LEMMA MinOfNats ==
  ASSUME NEW S \in SUBSET Nat, S # {}
  PROVE  Min(S) \in S /\ \A y \in S : Min(S) <= y
  <1>1. PICK n \in S : \A m \in S : n <= m
    BY LeastNat
  <1> QED BY <1>1 DEF Min

(* Max and Min of two numbers.                                              *)
LEMMA MaxOfTwo ==
  ASSUME NEW a \in Int, NEW b \in Int
  PROVE  Max({a, b}) = IF a >= b THEN a ELSE b
  <1> DEFINE m == IF a >= b THEN a ELSE b
  <1>1. m \in {a, b} /\ \A y \in {a, b} : m >= y
    OBVIOUS
  <1>2. \A x \in {a, b} : (\A y \in {a, b} : x >= y) => x = m
    OBVIOUS
  <1> QED BY <1>1, <1>2 DEF Max

LEMMA MinOfTwo ==
  ASSUME NEW a \in Int, NEW b \in Int
  PROVE  Min({a, b}) = IF a <= b THEN a ELSE b
  <1> DEFINE m == IF a <= b THEN a ELSE b
  <1>1. m \in {a, b} /\ \A y \in {a, b} : m <= y
    OBVIOUS
  <1>2. \A x \in {a, b} : (\A y \in {a, b} : x <= y) => x = m
    OBVIOUS
  <1> QED BY <1>1, <1>2 DEF Min

-----------------------------------------------------------------------------
(* First in, first out.                                                     *)

(* The lots of a finite set have a newest one.                              *)
LEMMA Newest ==
  ASSUME NEW b, NEW T \in SUBSET Int, T # {}, IsFiniteSet(T), \A i \in T : b.lots[i].opened \in Int
  PROVE  \E x \in T : \A y \in T \ {x} : Older(b, y, x) /\ ~Older(b, x, y)
  <1> DEFINE newer(x) == {y \in T : Older(b, x, y)}
             C == {newer(x) : x \in T}
  <1>1. C \in SUBSET FiniteSubsetsOf(T) /\ C # {}
    <2>1. \A x \in T : newer(x) \in SUBSET T
      OBVIOUS
    <2>2. ASSUME NEW x \in T
          PROVE  newer(x) \in FiniteSubsetsOf(T)
      BY <2>1, FS_Subset DEF FiniteSubsetsOf
    <2> HIDE DEF newer
    <2> QED BY <2>2
  <1>2. PICK A \in C : \A U \in C : U \subseteq A => U = A
    <2> HIDE DEF C
    <2> QED BY <1>1, MinimalSet
  <1>3. PICK x \in T : A = newer(x)
    OBVIOUS
  <1>4. A = {}
    <2> SUFFICES ASSUME NEW y \in A PROVE FALSE
      OBVIOUS
    <2>1. y \in T /\ Older(b, x, y)
      BY <1>3
    <2>2. newer(y) \in C
      BY <2>1
    <2>3. newer(y) \subseteq A /\ y \notin newer(y)
      <3>1. ASSUME NEW z \in newer(y)
            PROVE  z \in newer(x)
        <4>1. z \in T /\ Older(b, y, z)
          OBVIOUS
        <4>2. {x, y, z} \subseteq Int /\ {b.lots[x].opened, b.lots[y].opened, b.lots[z].opened} \subseteq Int
          BY <2>1, <4>1
        <4>3. Older(b, x, z)
          BY <2>1, <4>1, <4>2 DEF Older
        <4> QED BY <4>1, <4>3
      <3>2. y \notin newer(y)
        <4>1. y \in Int /\ b.lots[y].opened \in Int
          BY <2>1
        <4> QED BY <4>1 DEF Older
      <3> HIDE DEF newer
      <3> QED BY <1>3, <3>1, <3>2
    <2> QED BY <1>2, <2>2, <2>3
  <1>5. \A y \in T \ {x} : ~Older(b, x, y)
    BY <1>3, <1>4
  <1>6. ASSUME NEW y \in T \ {x}
        PROVE  Older(b, y, x)
    <2>1. {x, y} \subseteq Int /\ {b.lots[x].opened, b.lots[y].opened} \subseteq Int /\ x # y
      OBVIOUS
    <2>2. ~Older(b, x, y)
      BY <1>5
    <2> QED BY <2>1, <2>2 DEF Older
  <1> QED BY <1>5, <1>6

MayConsume(b, m) ==
  /\ m \in SUBSET Nat /\ IsFiniteSet(m)
  /\ \A i \in m : b.lots[i].open \in Nat /\ b.lots[i].opened \in Int

LEMMA OpenSharesType ==
  ASSUME NEW b, NEW m, MayConsume(b, m)
  PROVE  /\ OpenShares(b, m) \in Nat
         /\ OpenShares(b, m) = SumFunctionOnSet([i \in m |-> b.lots[i].open], m)
  <1>1. OpenShares(b, m) = SumFunctionOnSet([i \in m |-> b.lots[i].open], m)
    BY DEF OpenShares, SumFunction
  <1>2. \A i \in m : [j \in m |-> b.lots[j].open][i] \in Nat
    BY DEF MayConsume
  <1> HIDE DEF OpenShares
  <1> DEFINE f == [i \in m |-> b.lots[i].open]
  <1> HIDE DEF f
  <1>3. SumFunctionOnSet(f, m) \in Nat
    BY <1>2, SumNat DEF f, MayConsume
  <1> QED BY <1>1, <1>3 DEF f

LEMMA SubsetMayConsume ==
  ASSUME NEW b, NEW m, MayConsume(b, m), NEW t \in SUBSET m
  PROVE  MayConsume(b, t)
  BY FS_Subset DEF MayConsume

(* A lot gives no more than it has, and what the older ones leave over.     *)
LEMMA ConsumedIs ==
  ASSUME NEW b, NEW m, MayConsume(b, m), NEW i \in m, NEW qty \in Int
  PROVE  LET before == OpenShares(b, {j \in m : Older(b, j, i)})
             left == IF qty - before <= 0 THEN 0 ELSE qty - before
         IN  /\ before \in Nat
             /\ consumed(b, m, i, qty) = IF b.lots[i].open <= left THEN b.lots[i].open ELSE left
             /\ consumed(b, m, i, qty) \in 0 .. b.lots[i].open
  <1> DEFINE before == OpenShares(b, {j \in m : Older(b, j, i)})
             left == IF qty - before <= 0 THEN 0 ELSE qty - before
  <1>1. before \in Nat
    <2>1. MayConsume(b, {j \in m : Older(b, j, i)})
      BY SubsetMayConsume
    <2> QED BY <2>1, OpenSharesType
  <1> HIDE DEF before
  <1>2. Max({0, qty - before}) = left
    BY <1>1, MaxOfTwo
  <1>3. b.lots[i].open \in Nat
    BY DEF MayConsume
  <1>4. consumed(b, m, i, qty) = Min({b.lots[i].open, left})
    BY <1>2 DEF consumed, before
  <1>5. Min({b.lots[i].open, left}) = IF b.lots[i].open <= left THEN b.lots[i].open ELSE left
    BY <1>1, <1>3, MinOfTwo
  <1>6. consumed(b, m, i, qty) \in 0 .. b.lots[i].open
    BY <1>1, <1>3, <1>4, <1>5
  <1> QED BY <1>1, <1>4, <1>5, <1>6 DEF before

LEMMA ConsumedInRange ==
  ASSUME NEW b, NEW m, MayConsume(b, m), NEW i \in m, NEW qty \in Int
  PROVE  consumed(b, m, i, qty) \in 0 .. b.lots[i].open
  BY ConsumedIs

(* The lots give what is asked for, or all they have.                       *)
LEMMA FirstInFirstOut ==
  ASSUME NEW b, NEW m, MayConsume(b, m), NEW qty \in Nat
  PROVE  SumFunctionOnSet([i \in m |-> consumed(b, m, i, qty)], m)
           = IF OpenShares(b, m) <= qty THEN OpenShares(b, m) ELSE qty
  <1> DEFINE Gives(s) == SumFunctionOnSet([i \in s |-> consumed(b, s, i, qty)], s)
             Asked(s) == IF OpenShares(b, s) <= qty THEN OpenShares(b, s) ELSE qty
             C == {s \in SUBSET m : Gives(s) # Asked(s)}
  <1> SUFFICES ASSUME C # {} PROVE FALSE
    OBVIOUS
  <1>1. C \in SUBSET FiniteSubsetsOf(m)
    BY FS_Subset DEF FiniteSubsetsOf, MayConsume
  <1>2. PICK s \in C : \A u \in C : u \subseteq s => u = s
    <2> HIDE DEF C
    <2> QED BY <1>1, MinimalSet
  <1>3. IsFiniteSet(s) /\ s \in SUBSET m /\ MayConsume(b, s)
    BY <1>1, SubsetMayConsume DEF FiniteSubsetsOf
  <1>4. Gives(s) # Asked(s) /\ \A u \in SUBSET s : u # s => Gives(u) = Asked(u)
    BY <1>2, <1>3
  <1> HIDE DEF C
  <1>5. CASE s = {}
    <2>1. Gives(s) = 0
      BY <1>5, SumEmpty
    <2>2. OpenShares(b, s) = 0
      BY <1>3, <1>5, SumEmpty, OpenSharesType
    <2> QED BY <1>4, <2>1, <2>2
  <1>6. CASE s # {}
    <2>1. PICK x \in s : \A y \in s \ {x} : Older(b, y, x) /\ ~Older(b, x, y)
      <3>1. s \in SUBSET Int /\ \A i \in s : b.lots[i].opened \in Int
        BY <1>3 DEF MayConsume
      <3> QED BY <1>3, <1>6, <3>1, Newest
    <2> DEFINE t == s \ {x}
               g == [i \in s |-> consumed(b, s, i, qty)]
               h == [i \in t |-> consumed(b, t, i, qty)]
               op == [i \in s |-> b.lots[i].open]
               oq == [i \in t |-> b.lots[i].open]
    <2>2. MayConsume(b, t) /\ IsFiniteSet(t) /\ t \in SUBSET s /\ t # s
      <3>1. t \in SUBSET s /\ t # s
        BY <2>1
      <3> HIDE DEF t
      <3>2. MayConsume(b, t)
        BY <1>3, <3>1, SubsetMayConsume
      <3> QED BY <3>1, <3>2 DEF MayConsume
    <2>3. {j \in s : Older(b, j, x)} = t
      <3>1. ~Older(b, x, x)
        <4>1. x \in Int /\ b.lots[x].opened \in Int
          BY <1>3 DEF MayConsume
        <4> QED BY <4>1 DEF Older
      <3> QED BY <2>1, <3>1
    <2>4. \A i \in t : {j \in s : Older(b, j, i)} = {j \in t : Older(b, j, i)}
      BY <2>1
    <2>5. \A i \in t : g[i] = h[i]
      BY <2>4 DEF consumed
    <2>6. \A i \in s : g[i] \in Int
      <3> SUFFICES ASSUME NEW i \in s PROVE consumed(b, s, i, qty) \in Int
        OBVIOUS
      <3>1. consumed(b, s, i, qty) \in 0 .. b.lots[i].open
        <4>1. qty \in Int
          OBVIOUS
        <4> QED BY <1>3, <4>1, ConsumedInRange
      <3> QED BY <1>3, <3>1 DEF MayConsume
    <2>7. OpenShares(b, s) = b.lots[x].open + OpenShares(b, t)
      <3>1. OpenShares(b, s) = SumFunctionOnSet(op, s) /\ OpenShares(b, t) = SumFunctionOnSet(oq, t)
        BY <1>3, <2>2, OpenSharesType
      <3>2. \A i \in s : op[i] \in Int
        BY <1>3 DEF MayConsume
      <3>3. \A i \in t : op[i] = oq[i]
        OBVIOUS
      <3>4. op[x] = b.lots[x].open
        OBVIOUS
      <3> HIDE DEF op, oq, t
      <3>5. SumFunctionOnSet(op, s) = op[x] + SumFunctionOnSet(op, s \ {x})
        BY <1>3, <3>2, SumTake
      <3>6. SumFunctionOnSet(op, t) = SumFunctionOnSet(oq, t)
        BY <2>2, <3>3, SumSame
      <3> QED BY <3>1, <3>4, <3>5, <3>6 DEF t
    <2>8. Gives(s) = g[x] + Gives(t)
      <3> HIDE DEF g, h, t
      <3>1. SumFunctionOnSet(g, s) = g[x] + SumFunctionOnSet(g, s \ {x})
        BY <1>3, <2>6, SumTake
      <3>2. SumFunctionOnSet(g, t) = SumFunctionOnSet(h, t)
        BY <2>2, <2>5, SumSame
      <3> QED BY <3>1, <3>2 DEF g, h, t
    <2> DEFINE P == OpenShares(b, t)
               a == b.lots[x].open
               left == IF qty - P <= 0 THEN 0 ELSE qty - P
    <2>9. P \in Nat /\ a \in Nat
      BY <1>3, <2>2, OpenSharesType DEF MayConsume
    <2>10. g[x] = IF a <= left THEN a ELSE left
      <3>1. g[x] = consumed(b, s, x, qty)
        OBVIOUS
      <3> QED BY <1>3, <2>3, <3>1, ConsumedIs
    <2>11. Gives(t) = Asked(t)
      BY <1>4, <2>2
    <2> HIDE DEF t, g, Gives, P, a
    <2>12. Asked(t) = (IF P <= qty THEN P ELSE qty) /\ Asked(s) = (IF a + P <= qty THEN a + P ELSE qty)
      BY <2>7 DEF P, a
    <2> HIDE DEF Asked
    <2> QED BY <1>4, <2>8, <2>9, <2>10, <2>11, <2>12
  <1> QED BY <1>5, <1>6

-----------------------------------------------------------------------------
(* What the operators on a book do to its ledger.                           *)

LEMMA ConsumeKeepsLedger ==
  ASSUME NEW b, HasLedger(b), NEW o, NEW qty, NEW m
  PROVE  /\ HasLedger(Consume(b, o, qty, m))
         /\ Consume(b, o, qty, m).booked = b.booked
         /\ Consume(b, o, qty, m).row = b.row
  BY DEF HasLedger, Consume

LEMMA OpenOrParkKeepsLedger ==
  ASSUME NEW b, HasLedger(b), NEW o, NEW rest, NEW at
  PROVE  /\ HasLedger(open_or_park(b, o, rest, at))
         /\ open_or_park(b, o, rest, at).booked = b.booked
         /\ open_or_park(b, o, rest, at).row = b.row
  BY DEF HasLedger, open_or_park

LEMMA FillsKeepLedger ==
  ASSUME NEW b, HasLedger(b), NEW o, NEW qty, NEW at, NEW sees
  PROVE  /\ HasLedger(apply_fill_to_lots(b, o, qty, at, sees))
         /\ apply_fill_to_lots(b, o, qty, at, sees).booked = b.booked
         /\ apply_fill_to_lots(b, o, qty, at, sees).row = b.row
  <1> DEFINE m == open_lots(b, o, at, sees)
             c == Consume(b, o, qty, m)
  <1>1. HasLedger(c) /\ c.booked = b.booked /\ c.row = b.row
    BY ConsumeKeepsLedger
  <1> HIDE DEF c
  <1>2. /\ HasLedger(open_or_park(c, o, Remaining(b, qty, m), at))
        /\ open_or_park(c, o, Remaining(b, qty, m), at).booked = c.booked
        /\ open_or_park(c, o, Remaining(b, qty, m), at).row = c.row
    BY <1>1, OpenOrParkKeepsLedger
  <1> QED BY <1>1, <1>2 DEF apply_fill_to_lots, c

LEMMA RecordFillBooks ==
  ASSUME NEW b, HasLedger(b), NEW o \in Orders, NEW qty \in Int, NEW at, NEW sees
  PROVE  LET new == record_fill(b, o, qty, at, sees)
         IN  /\ HasLedger(new) /\ new.row = b.row
             /\ new.booked = IF qty > 0 THEN [b.booked EXCEPT ![o] = @ + qty] ELSE b.booked
  <1> DEFINE f == apply_fill_to_lots(b, o, qty, at, sees)
  <1>1. HasLedger(f) /\ f.booked = b.booked /\ f.row = b.row
    BY FillsKeepLedger
  <1> HIDE DEF f
  <1>2. CASE qty <= 0
    BY <1>2 DEF record_fill
  <1>3. CASE qty > 0
    <2>1. record_fill(b, o, qty, at, sees) = [f EXCEPT !.booked[o] = @ + qty]
      BY <1>3 DEF record_fill, f
    <2> DEFINE c == [f EXCEPT !.booked[o] = @ + qty]
    <2>2. /\ c = [booked |-> c.booked, row |-> c.row, lots |-> c.lots, closes |-> c.closes,
                  parked |-> c.parked]
          /\ c.booked = [f.booked EXCEPT ![o] = @ + qty] /\ c.row = f.row
      BY <1>1 DEF HasLedger
    <2> HIDE DEF c
    <2>3. c.booked = [b.booked EXCEPT ![o] = @ + qty] /\ c.row = b.row
      BY <1>1, <2>2
    <2>4. c.booked \in [Orders -> Nat] /\ c.row \in [Orders -> [filled : Nat, final : BOOLEAN]]
      BY <1>1, <1>3, <2>2 DEF HasLedger
    <2>5. HasLedger(c)
      BY <2>2, <2>4 DEF HasLedger
    <2> QED BY <1>3, <2>1, <2>3, <2>5 DEF c
  <1> QED BY <1>2, <1>3

LEMMA SnapshotKeepsLedger ==
  ASSUME NEW b, HasLedger(b), NEW o \in Orders, NEW filled \in Nat, NEW final \in BOOLEAN
  PROVE  LET new == apply_snapshot(b, o, filled, final)
         IN  /\ HasLedger(new) /\ new.booked = b.booked
             /\ \A p \in Orders \ {o} : new.row[p] = b.row[p]
             /\ \/ new.row[o] = b.row[o]
                \/ ~b.row[o].final /\ new.row[o] = [filled |-> filled, final |-> final]
  BY DEF HasLedger, apply_snapshot

LEMMA RetriedKeepsLedger ==
  ASSUME NEW b, HasLedger(b), NEW a
  PROVE  /\ HasLedger(retried(b, a))
         /\ retried(b, a).booked = b.booked
         /\ retried(b, a).row = b.row
  <1> DEFINE p == b.parked[a]
             m == open_lots(b, p.order, p.at, DOMAIN b.lots)
             rest == Remaining(b, p.qty, m)
             c == Consume(b, p.order, p.qty, m)
             d == [c EXCEPT !.parked[a].open = FALSE]
             e == [b EXCEPT !.parked[a].fails = Min({@ + 1, AlertCycles})]
  <1>1. HasLedger(c) /\ c.booked = b.booked /\ c.row = b.row
    BY ConsumeKeepsLedger
  <1>2. retried(b, a) = IF rest = p.qty THEN e ELSE open_or_park(d, p.order, rest, p.at)
    BY DEF retried
  <1>3. HasLedger(e) /\ e.booked = b.booked /\ e.row = b.row
    BY DEF HasLedger
  <1> HIDE DEF c, e
  <1>4. HasLedger(d) /\ d.booked = b.booked /\ d.row = b.row
    <2>1. ASSUME NEW f, HasLedger(f)
          PROVE  LET g == [f EXCEPT !.parked[a].open = FALSE]
                 IN  HasLedger(g) /\ g.booked = f.booked /\ g.row = f.row
      <3> DEFINE x == [f.parked EXCEPT ![a].open = FALSE]
                 g == [f EXCEPT !.parked = x]
      <3>1. [f EXCEPT !.parked[a].open = FALSE] = g
        BY Zenon
      <3> HIDE DEF x
      <3>2. HasLedger(g) /\ g.booked = f.booked /\ g.row = f.row
        BY <2>1 DEF HasLedger
      <3> QED BY <3>1, <3>2 DEF x
    <2> QED BY <1>1, <2>1
  <1> HIDE DEF d
  <1>5. /\ HasLedger(open_or_park(d, p.order, rest, p.at))
        /\ open_or_park(d, p.order, rest, p.at).booked = b.booked
        /\ open_or_park(d, p.order, rest, p.at).row = b.row
    BY <1>4, OpenOrParkKeepsLedger
  <1> QED BY <1>2, <1>3, <1>5

(* The two parts of an event, as numbers.                                   *)
LEMMA GapAndEffective ==
  ASSUME NEW b, HasLedger(b), NEW u \in Update
  PROVE  LET x == u.cum - u.qty - b.booked[u.order]
             y == u.cum - b.booked[u.order] - Gap(b, u)
             z == IF u.qty <= y THEN u.qty ELSE y
         IN  /\ Gap(b, u) = IF x <= 0 THEN 0 ELSE x
             /\ Effective(b, u) = IF z <= 0 THEN 0 ELSE z
             /\ Gap(b, u) \in Nat /\ Effective(b, u) \in Nat
  <1> DEFINE o == u.order
             g == Gap(b, u)
             e == Effective(b, u)
  <1>1. o \in Orders /\ u.qty \in Nat /\ u.cum \in Nat
    BY DEF Update
  <1>2. b.booked \in [Orders -> Nat]
    BY DEF HasLedger
  <1> DEFINE x == u.cum - u.qty - b.booked[o]
  <1>3. g = IF x <= 0 THEN 0 ELSE x
    <2>1. x \in Int
      BY <1>1, <1>2
    <2>2. Max({0, x}) = IF 0 >= x THEN 0 ELSE x
      BY <2>1, MaxOfTwo
    <2> QED BY <2>1, <2>2 DEF Gap
  <1>4. g \in Nat
    BY <1>1, <1>2, <1>3
  <1> HIDE DEF g
  <1> DEFINE y == u.cum - b.booked[o] - g
             z == IF u.qty <= y THEN u.qty ELSE y
  <1>5. e = IF z <= 0 THEN 0 ELSE z
    <2>1. y \in Int
      BY <1>1, <1>2, <1>4
    <2>2. Min({u.qty, y}) = z
      BY <2>1, <1>1, MinOfTwo
    <2>3. z \in Int
      BY <2>1, <1>1
    <2>4. Max({0, z}) = IF 0 >= z THEN 0 ELSE z
      BY <2>3, MaxOfTwo
    <2> QED BY <2>2, <2>3, <2>4 DEF Effective, g
  <1>6. e \in Nat
    BY <1>1, <1>2, <1>4, <1>5
  <1> QED BY <1>3, <1>4, <1>5, <1>6 DEF g

(* An execution adds to its order's ledger what the event's cumulative      *)
(* proves, and takes nothing away.                                          *)
LEMMA RecordExecutionBooks ==
  ASSUME NEW b, HasLedger(b), NEW u \in Update, NEW sees
  PROVE  LET new == record_execution(b, u, sees)
         IN  /\ HasLedger(new) /\ new.row = b.row
             /\ \A p \in Orders \ {u.order} : new.booked[p] = b.booked[p]
             /\ new.booked[u.order] >= b.booked[u.order]
             /\ new.booked[u.order] <= u.cum \/ new.booked[u.order] = b.booked[u.order]
  <1> DEFINE o == u.order
             g == Gap(b, u)
             e == Effective(b, u)
             c == record_fill(b, o, g, u.at, sees)
             d == record_fill(c, o, e, u.at, sees)
  <1>1. o \in Orders /\ u.qty \in Nat /\ u.cum \in Nat
    BY DEF Update
  <1>2. b.booked \in [Orders -> Nat]
    BY DEF HasLedger
  <1> DEFINE x == u.cum - u.qty - b.booked[o]
             y == u.cum - b.booked[o] - g
             z == IF u.qty <= y THEN u.qty ELSE y
  <1>3. g = (IF x <= 0 THEN 0 ELSE x) /\ g \in Nat
    BY GapAndEffective
  <1>4. e = (IF z <= 0 THEN 0 ELSE z) /\ e \in Nat
    BY GapAndEffective
  <1> HIDE DEF g, e
  <1>5. /\ HasLedger(c) /\ c.row = b.row
        /\ c.booked = IF g > 0 THEN [b.booked EXCEPT ![o] = @ + g] ELSE b.booked
    BY <1>1, <1>3, RecordFillBooks
  <1> HIDE DEF c
  <1>6. /\ HasLedger(d) /\ d.row = c.row
        /\ d.booked = IF e > 0 THEN [c.booked EXCEPT ![o] = @ + e] ELSE c.booked
    BY <1>1, <1>4, <1>5, RecordFillBooks
  <1>7. record_execution(b, u, sees) = d
    BY DEF record_execution, c, g, e
  <1> HIDE DEF d, o, x, z
  <1>8. c.booked = [b.booked EXCEPT ![o] = b.booked[o] + g]
    BY <1>1, <1>2, <1>3, <1>5 DEF o
  <1>9. d.booked = [b.booked EXCEPT ![o] = b.booked[o] + g + e]
    BY <1>1, <1>2, <1>3, <1>4, <1>6, <1>8 DEF o
  <1>10. g + e >= 0 /\ (g + e = 0 \/ b.booked[o] + g + e <= u.cum)
    BY <1>1, <1>2, <1>3, <1>4 DEF o, x, z
  <1>11. /\ d.booked[o] = b.booked[o] + g + e
         /\ \A p \in Orders \ {o} : d.booked[p] = b.booked[p]
    BY <1>1, <1>2, <1>9 DEF o
  <1>12. b.booked[o] \in Nat
    BY <1>1, <1>2 DEF o
  <1>13. /\ d.booked[o] >= b.booked[o]
         /\ d.booked[o] <= u.cum \/ d.booked[o] = b.booked[o]
    <2> DEFINE k == b.booked[o]
               n == d.booked[o]
    <2>1. k \in Nat /\ g \in Nat /\ e \in Nat /\ n = k + g + e
      BY <1>3, <1>4, <1>11, <1>12
    <2>2. g + e >= 0 /\ (g + e = 0 \/ k + g + e <= u.cum)
      BY <1>10
    <2> HIDE DEF k, n
    <2>3. n >= k
      BY <2>1
    <2>4. n <= u.cum \/ n = k
      BY <2>1, <2>2
    <2> QED BY <2>3, <2>4 DEF k, n
  <1> QED BY <1>5, <1>6, <1>7, <1>11, <1>13 DEF o

-----------------------------------------------------------------------------
(* The invariant of the ledger.                                             *)

LEMMA InitLedgerInv == Init => LedgerInv
  <1> SUFFICES ASSUME Init PROVE LedgerInv
    OBVIOUS
  <1> USE DEF Init
  <1>1. LedgerTypes
    BY BoundsAssumption DEF LedgerTypes, HasLedger, Time
  <1>2. Transactions
    BY DEF Transactions, IdleWriter, IdleReconcile
  <1>3. EventsAreTrue /\ RowsAreTrue(book) /\ RowsAreTrue(view)
    BY DEF EventsAreTrue, RowsAreTrue
  <1>4. RowsAreLocked /\ ListIsBooked
    BY DEF RowsAreLocked, ListIsBooked, IdleWriter, IdleReconcile, WriterHas
  <1> QED BY <1>1, <1>2, <1>3, <1>4 DEF LedgerInv

(* An execution or a cancel: the cumulative grows only while its order is   *)
(* not over, and the event emitted is true.                                 *)
LEMMA BrokerStepLedgerInv ==
  ASSUME LedgerInv, BrokerStep
  PROVE  LedgerInv'
  <1>1. CASE Tick
    <2>1. now' \in Time
      BY <1>1, BoundsAssumption DEF Tick, Time, LedgerInv, LedgerTypes
    <2> QED
      BY <1>1, <2>1 DEF Tick, LedgerInv, LedgerTypes, Transactions, EventsAreTrue, RowsAreTrue,
                RowsAreLocked, ListIsBooked, bounds, WriterHas
  <1>2. ASSUME NEW o \in Orders,
               BrokerCancel(o) \/ \E q \in 1 .. Shares[o], last \in BOOLEAN : BrokerFill(o, q, last)
        PROVE  LedgerInv'
    <2> DEFINE Executed ==
          /\ cum' \in [Orders -> Nat] /\ over' \in SUBSET Orders
          /\ \A p \in Orders : cum[p] <= cum'[p]
          /\ \A p \in over : p \in over' /\ cum'[p] = cum[p]
          /\ UNCHANGED <<now, book, view, w, r>>
          Emits(n, final) == Emit(o, n, cum'[o], final) /\ (final => o \in over')
    <2>0. Executed /\ \E n \in Nat, final \in BOOLEAN : Emits(n, final)
      <3>1. CASE BrokerCancel(o)
        <4>1. Executed
          BY <3>1, <1>2 DEF BrokerCancel, bounds, LedgerInv, LedgerTypes
        <4>2. Emits(0, TRUE)
          BY <3>1 DEF BrokerCancel, bounds
        <4> QED BY <4>1, <4>2
      <3>2. ASSUME NEW q \in 1 .. Shares[o], NEW last \in BOOLEAN, BrokerFill(o, q, last)
            PROVE  Executed /\ \E n \in Nat, final \in BOOLEAN : Emits(n, final)
        <4>1. Executed
          BY <3>2, OrdersAssumption DEF BrokerFill, bounds, LedgerInv, LedgerTypes
        <4>2. Emits(q, last) /\ q \in Nat
          BY <3>2, OrdersAssumption DEF BrokerFill
        <4> QED BY <4>1, <4>2
      <3> QED BY <3>1, <3>2, <1>2
    <2>1. Executed
      BY <2>0
    <2> HIDE DEF Executed
    <2>2. PICK n \in Nat, final \in BOOLEAN : Emits(n, final)
      BY <2>0
    <2> DEFINE e == [order |-> o, qty |-> n, cum |-> cum'[o], at |-> now, over |-> final]
    <2>3. e \in Update /\ stream' = stream \cup {e}
      BY <2>1, <2>2 DEF Emit, Update, LedgerInv, LedgerTypes, Executed
    <2>4. LedgerTypes' /\ Transactions'
      BY <2>1, <2>3 DEF LedgerInv, LedgerTypes, Transactions, HasLedger, Executed
    <2>5. EventsAreTrue'
      <3>1. SUFFICES ASSUME NEW u \in stream'
                     PROVE  u.cum <= cum'[u.order] /\ (u.over => u.order \in over' /\ u.cum = cum'[u.order])
        BY DEF EventsAreTrue
      <3>2. CASE u = e
        BY <3>2, <2>1, <2>2 DEF Executed
      <3>3. CASE u \in stream
        BY <3>3, <2>1 DEF Executed, EventsAreTrue, LedgerInv, LedgerTypes, Update
      <3> QED BY <2>3, <3>2, <3>3
    <2>6. RowsAreTrue(book)' /\ RowsAreTrue(view)'
      BY <2>1 DEF Executed, RowsAreTrue, LedgerInv, LedgerTypes, HasLedger
    <2>7. RowsAreLocked'
      BY <2>1 DEF Executed, RowsAreLocked, LedgerInv, WriterHas
    <2>8. ListIsBooked'
      BY <2>1 DEF Executed, ListIsBooked, LedgerInv, LedgerTypes, Transactions
    <2> QED BY <2>4, <2>5, <2>6, <2>7, <2>8 DEF LedgerInv
  <1> QED BY <1>1, <1>2 DEF BrokerStep

(* What a snapshot of an event or of the broker leaves in a true row.       *)
LEMMA SnapshotIsTrue ==
  ASSUME LedgerInv, NEW b, HasLedger(b), RowsAreTrue(b),
         NEW o \in Orders, NEW filled \in Nat, NEW final \in BOOLEAN, filled <= cum[o],
         final => o \in over /\ filled = cum[o]
  PROVE  LET new == apply_snapshot(b, o, filled, final)
         IN  HasLedger(new) /\ RowsAreTrue(new) /\ new.booked = b.booked
             /\ \A p \in Orders : /\ p # o => new.row[p] = b.row[p]
                                  /\ b.row[p].final => new.row[p].final
  <1> DEFINE new == apply_snapshot(b, o, filled, final)
  <1>1. /\ HasLedger(new) /\ new.booked = b.booked
        /\ \A p \in Orders \ {o} : new.row[p] = b.row[p]
        /\ \/ new.row[o] = b.row[o]
           \/ ~b.row[o].final /\ new.row[o] = [filled |-> filled, final |-> final]
    BY SnapshotKeepsLedger
  <1> HIDE DEF new
  <1>2. \A p \in Orders : /\ p # o => new.row[p] = b.row[p]
                         /\ b.row[p].final => new.row[p].final
    BY <1>1
  <1>3. RowsAreTrue(new)
    BY <1>1 DEF RowsAreTrue
  <1> QED BY <1>1, <1>2, <1>3 DEF new

(* A step that changes neither the broker nor the transactions, and leaves  *)
(* the two books true, in step on unlocked rows, and no less booked.        *)
LEMMA BooksMoveOn ==
  ASSUME LedgerInv,
         UNCHANGED <<now, cum, over, stream, r>>, Transactions', 
         HasLedger(book'), HasLedger(view'), RowsAreTrue(book)', RowsAreTrue(view)',
         RowsAreLocked',
         \A o \in Orders : /\ view.booked[o] <= view'.booked[o]
                           /\ view.row[o].final => view'.row[o].final
  PROVE  LedgerInv'
  <1>1. LedgerTypes' /\ EventsAreTrue'
    BY DEF LedgerInv, LedgerTypes, EventsAreTrue, HasLedger
  <1>2. ListIsBooked'
    BY DEF LedgerInv, LedgerTypes, Transactions, HasLedger, ListIsBooked
  <1> QED BY <1>1, <1>2 DEF LedgerInv

LEMMA ApplySnapshotOnlyLedgerInv ==
  ASSUME LedgerInv, NEW u \in stream, ApplySnapshotOnly(u)
  PROVE  LedgerInv'
  <1>1. u.order \in Orders /\ u.cum \in Nat /\ u.over \in BOOLEAN
    BY DEF LedgerInv, LedgerTypes, Update
  <1>2. u.cum <= cum[u.order] /\ (u.over => u.order \in over /\ u.cum = cum[u.order])
    BY DEF LedgerInv, EventsAreTrue
  <1>3. HasLedger(book) /\ HasLedger(view) /\ RowsAreTrue(book) /\ RowsAreTrue(view)
    BY DEF LedgerInv, LedgerTypes
  <1>4. /\ view' = apply_snapshot(view, u.order, u.cum, u.over)
        /\ book' = apply_snapshot(book, u.order, u.cum, u.over)
        /\ UNCHANGED <<now, cum, over, stream, w, r>>
        /\ u.order \notin r.rows
    BY DEF ApplySnapshotOnly, broker
  <1>5. /\ HasLedger(book') /\ RowsAreTrue(book)' /\ book'.booked = book.booked
        /\ \A p \in Orders : p # u.order => book'.row[p] = book.row[p]
    <2> DEFINE c == apply_snapshot(book, u.order, u.cum, u.over)
    <2>1. /\ HasLedger(c) /\ RowsAreTrue(c) /\ c.booked = book.booked
          /\ \A p \in Orders : p # u.order => c.row[p] = book.row[p]
      BY <1>1, <1>2, <1>3, SnapshotIsTrue
    <2>2. book' = c /\ UNCHANGED <<cum, over>>
      BY <1>4
    <2> HIDE DEF c
    <2> QED BY <2>1, <2>2 DEF RowsAreTrue
  <1>6. /\ HasLedger(view') /\ RowsAreTrue(view)' /\ view'.booked = view.booked
        /\ \A p \in Orders : /\ p # u.order => view'.row[p] = view.row[p]
                             /\ view.row[p].final => view'.row[p].final
    <2> DEFINE c == apply_snapshot(view, u.order, u.cum, u.over)
    <2>1. /\ HasLedger(c) /\ RowsAreTrue(c) /\ c.booked = view.booked
          /\ \A p \in Orders : /\ p # u.order => c.row[p] = view.row[p]
                               /\ view.row[p].final => c.row[p].final
      BY <1>1, <1>2, <1>3, SnapshotIsTrue
    <2>2. view' = c /\ UNCHANGED <<cum, over>>
      BY <1>4
    <2> HIDE DEF c
    <2> QED BY <2>1, <2>2 DEF RowsAreTrue
  <1>7. view'.row[u.order] = book'.row[u.order]
    BY <1>1, <1>3, <1>4 DEF LedgerInv, RowsAreLocked, apply_snapshot, HasLedger
  <1>8. RowsAreLocked'
    BY <1>4, <1>5, <1>6, <1>7 DEF LedgerInv, RowsAreLocked, WriterHas
  <1>9. Transactions'
    BY <1>4 DEF LedgerInv, Transactions
  <1>10. \A o \in Orders : view.booked[o] <= view'.booked[o]
    BY <1>3, <1>6 DEF HasLedger
  <1> QED BY <1>4, <1>5, <1>6, <1>8, <1>9, <1>10, BooksMoveOn

(* Locating a row, locking the lots and rolling back touch no book.         *)
LEMMA WriterAloneLedgerInv ==
  ASSUME LedgerInv, UNCHANGED <<broker, book, view, r>>, Transactions',
         w' # IdleWriter => /\ w'.u.order \notin r.rows
  PROVE  LedgerInv'
  <1>1. RowsAreLocked'
    BY DEF LedgerInv, RowsAreLocked, WriterHas, IdleWriter
  <1>2. HasLedger(book) /\ HasLedger(view)
    BY DEF LedgerInv, LedgerTypes
  <1> QED BY <1>1, <1>2, BooksMoveOn DEF LedgerInv, broker, RowsAreTrue, HasLedger

LEMMA WriterStepLedgerInv ==
  ASSUME LedgerInv,
         (\E u \in stream : Locate(u)) \/ LockLots \/ WriterConflict \/ WriterAbort
  PROVE  LedgerInv'
  <1>1. ASSUME NEW u \in stream, Locate(u)
        PROVE  LedgerInv'
    <2>1. Transactions' /\ UNCHANGED <<broker, book, view, r>> /\ w'.u = u
      BY <1>1 DEF Locate, LedgerInv, Transactions, broker
    <2> QED BY <1>1, <2>1, WriterAloneLedgerInv DEF Locate
  <1>2. CASE LockLots
    <2>1. w # IdleWriter
      BY <1>2 DEF LockLots, IdleWriter
    <2>2. Transactions' /\ UNCHANGED <<broker, book, view, r>> /\ w'.u = w.u
      BY <1>2, <2>1 DEF LockLots, LedgerInv, Transactions, broker
    <2>3. w.u.order \in Orders /\ WriterHas(w.u.order)
      BY <1>2, <2>1 DEF LockLots, LedgerInv, LedgerTypes, Transactions, WriterHas, Update
    <2> QED BY <2>2, <2>3, WriterAloneLedgerInv DEF LedgerInv, RowsAreLocked
  <1>3. CASE WriterConflict \/ WriterAbort
    <2>1. Transactions' /\ UNCHANGED <<broker, book, view, r>> /\ w' = IdleWriter
      BY <1>3 DEF WriterConflict, WriterAbort, LedgerInv, Transactions, broker
    <2> QED BY <2>1, WriterAloneLedgerInv
  <1> QED BY <1>1, <1>2, <1>3

(* What the reconcile sees once the writer has committed, column by column. *)
LEMMA SeenColumns ==
  ASSUME NEW new, NEW u
  PROVE  LET c == Seen(new, u)
         IN  /\ c.booked = [view.booked EXCEPT ![u.order] = new.booked[u.order]]
             /\ c.row = [view.row EXCEPT ![u.order] = new.row[u.order]]
             /\ c = [booked |-> c.booked, row |-> c.row, lots |-> c.lots,
                     closes |-> c.closes, parked |-> c.parked]
  BY DEF Seen

(* The commit books the execution and the event's snapshot on a row the     *)
(* reconcile does not have, in the committed book and in what it sees.      *)
LEMMA WriterCommitLedgerInv ==
  ASSUME LedgerInv, WriterCommit
  PROVE  LedgerInv'
  <1> DEFINE u == w.u
             o == w.u.order
             c == record_execution(book, w.u, w.sees)
             new == apply_snapshot(c, o, u.cum, u.over)
  <1>1. u \in stream
    BY DEF LedgerInv, Transactions, WriterCommit, IdleWriter
  <1>2. u \in Update /\ o \in Orders /\ u.cum \in Nat /\ u.over \in BOOLEAN
    BY <1>1 DEF LedgerInv, LedgerTypes, Update
  <1>3. u.cum <= cum[o] /\ (u.over => o \in over /\ u.cum = cum[o])
    BY <1>1 DEF LedgerInv, EventsAreTrue
  <1>4. /\ HasLedger(book) /\ HasLedger(view) /\ RowsAreTrue(book) /\ RowsAreTrue(view)
        /\ cum \in [Orders -> Nat]
    BY DEF LedgerInv, LedgerTypes
  <1>5. /\ HasLedger(c) /\ c.row = book.row
        /\ \A p \in Orders \ {o} : c.booked[p] = book.booked[p]
        /\ c.booked[o] >= book.booked[o]
        /\ c.booked[o] <= u.cum \/ c.booked[o] = book.booked[o]
    BY <1>2, <1>4, RecordExecutionBooks
  <1>6. book' = new /\ view' = Seen(new, u) /\ w' = IdleWriter
        /\ UNCHANGED <<now, cum, over, stream, r>>
    BY DEF WriterCommit, broker
  <1>7. o \notin r.rows /\ view.booked[o] = book.booked[o] /\ view.row[o] = book.row[o]
    BY <1>2 DEF WriterCommit, LedgerInv, RowsAreLocked, WriterHas
  <1> HIDE DEF c, u, o
  <1>8. RowsAreTrue(c)
    <2>1. \A p \in Orders : book.booked[p] \in Nat /\ cum[p] \in Nat /\ c.booked[p] \in Nat
      BY <1>4, <1>5 DEF HasLedger
    <2>2. c.booked[o] <= cum[o]
      BY <1>2, <1>3, <1>4, <1>5, <2>1 DEF RowsAreTrue
    <2>3. \A p \in Orders : c.booked[p] <= cum[p]
      BY <1>4, <1>5, <2>2 DEF RowsAreTrue
    <2> QED BY <1>4, <1>5, <2>3 DEF RowsAreTrue
  <1>9. /\ HasLedger(new) /\ RowsAreTrue(new) /\ new.booked = c.booked
        /\ \A p \in Orders : /\ p # o => new.row[p] = c.row[p]
                             /\ c.row[p].final => new.row[p].final
    BY <1>2, <1>3, <1>5, <1>8, SnapshotIsTrue
  <1> HIDE DEF new
  <1>10. /\ view'.booked = [view.booked EXCEPT ![o] = new.booked[o]]
         /\ view'.row = [view.row EXCEPT ![o] = new.row[o]]
    <2>1. view' = Seen(new, u) /\ u.order = o
      BY <1>6 DEF o, u
    <2> QED BY <2>1, SeenColumns
  <1>11. HasLedger(view')
    <2>1. view' = [booked |-> view'.booked, row |-> view'.row, lots |-> view'.lots,
                   closes |-> view'.closes, parked |-> view'.parked]
      BY <1>6, SeenColumns
    <2> QED BY <2>1, <1>2, <1>4, <1>9, <1>10 DEF HasLedger
  <1>12. /\ view'.booked[o] = new.booked[o] /\ view'.row[o] = new.row[o]
         /\ \A p \in Orders \ {o} : view'.booked[p] = view.booked[p] /\ view'.row[p] = view.row[p]
    BY <1>2, <1>4, <1>10 DEF HasLedger
  <1>13. RowsAreTrue(book)' /\ RowsAreTrue(view)'
    BY <1>4, <1>6, <1>9, <1>12 DEF RowsAreTrue
  <1>14. \A p \in Orders : /\ view.booked[p] <= view'.booked[p]
                           /\ view.row[p].final => view'.row[p].final
    <2>1. ASSUME NEW p \in Orders \ {o}
          PROVE  /\ view.booked[p] <= view'.booked[p]
                 /\ view.row[p].final => view'.row[p].final
      <3>1. view.booked[p] \in Nat
        BY <1>4, <2>1 DEF HasLedger
      <3> QED BY <1>12, <3>1
    <2>2. view.booked[o] <= view'.booked[o] /\ (view.row[o].final => view'.row[o].final)
      BY <1>2, <1>5, <1>7, <1>9, <1>12
    <2> QED BY <2>1, <2>2
  <1>15. RowsAreLocked'
    <2>1. \A p \in r.rows : p # o
      BY <1>7
    <2> QED BY <1>5, <1>6, <1>9, <1>12, <2>1 DEF LedgerInv, RowsAreLocked, WriterHas, IdleWriter
  <1>16. Transactions'
    BY <1>6 DEF LedgerInv, Transactions
  <1> QED BY <1>6, <1>9, <1>11, <1>13, <1>14, <1>15, <1>16, BooksMoveOn

-----------------------------------------------------------------------------
(* The reconcile.                                                           *)

(* What adopting one order does: its row is locked and true, its ledger     *)
(* reaches the target, and the others stay.                                 *)
LEMMA AdoptIntoBooks ==
  ASSUME LedgerInv, NEW o \in Orders, NEW target \in Nat, NEW final \in BOOLEAN, NEW stamp,
         target <= cum[o], final => o \in over /\ target = cum[o],
         r.pc \in {"adopt", "sweep"},
         AdoptInto(view, o, target, final, stamp)
  PROVE  /\ UNCHANGED <<now, cum, over, stream, book, w>>
         /\ HasLedger(view') /\ RowsAreTrue(view)' /\ RowsAreLocked' /\ Transactions'
         /\ \A p \in Orders : /\ view.booked[p] <= view'.booked[p]
                              /\ view.row[p].final => view'.row[p].final
         /\ target <= view'.booked[o]
         /\ r'.pc = r.pc /\ r'.real = r.real /\ r'.snap = r.snap /\ r'.todo = r.todo \ {o}
  <1> DEFINE missed == target - view.booked[o]
             c == record_fill(view, o, missed, stamp, DOMAIN view.lots)
             new == apply_snapshot(c, o, target, final)
  <1>1. HasLedger(view) /\ RowsAreTrue(view) /\ cum \in [Orders -> Nat]
    BY DEF LedgerInv, LedgerTypes
  <1>2. missed \in Int /\ view.booked[o] \in Nat
    BY <1>1 DEF HasLedger
  <1>3. /\ HasLedger(c) /\ c.row = view.row
        /\ c.booked = IF missed > 0 THEN [view.booked EXCEPT ![o] = @ + missed] ELSE view.booked
    BY <1>1, <1>2, RecordFillBooks
  <1>4. /\ view' = new
        /\ UNCHANGED <<now, cum, over, stream, book, w>>
        /\ ~WriterHas(o)
    BY DEF AdoptInto, broker
  <1>5. /\ r'.pc = r.pc /\ r'.real = r.real /\ r'.snap = r.snap /\ r'.todo = r.todo \ {o}
        /\ r'.rows = r.rows \cup {o} /\ Transactions'
    BY <1>4 DEF AdoptInto, LedgerInv, Transactions
  <1> HIDE DEF c
  <1>6. /\ \A p \in Orders \ {o} : c.booked[p] = view.booked[p]
        /\ c.booked[o] = IF target > view.booked[o] THEN target ELSE view.booked[o]
    BY <1>1, <1>2, <1>3 DEF HasLedger
  <1>7. RowsAreTrue(c)
    BY <1>1, <1>2, <1>3, <1>6 DEF RowsAreTrue
  <1>8. /\ HasLedger(new) /\ RowsAreTrue(new) /\ new.booked = c.booked
        /\ \A p \in Orders : /\ p # o => new.row[p] = c.row[p]
                             /\ c.row[p].final => new.row[p].final
    BY <1>3, <1>7, SnapshotIsTrue
  <1> HIDE DEF new
  <1>9. RowsAreTrue(view)'
    BY <1>4, <1>8 DEF RowsAreTrue
  <1>10. RowsAreLocked'
    BY <1>3, <1>4, <1>5, <1>6, <1>8 DEF LedgerInv, RowsAreLocked, WriterHas
  <1>11. \A p \in Orders : /\ view.booked[p] <= view'.booked[p]
                           /\ view.row[p].final => view'.row[p].final
    BY <1>1, <1>2, <1>3, <1>4, <1>6, <1>8 DEF HasLedger
  <1>12. target <= view'.booked[o]
    BY <1>2, <1>4, <1>6, <1>8
  <1> QED BY <1>4, <1>5, <1>8, <1>9, <1>10, <1>11, <1>12

LEMMA AdoptionLedgerInv ==
  ASSUME LedgerInv, Adoption
  PROVE  LedgerInv'
  <1> DEFINE Adopts(o, target) ==
        /\ UNCHANGED <<now, cum, over, stream, book, w>>
        /\ HasLedger(view') /\ RowsAreTrue(view)' /\ RowsAreLocked' /\ Transactions'
        /\ \A p \in Orders : /\ view.booked[p] <= view'.booked[p]
                             /\ view.row[p].final => view'.row[p].final
        /\ target <= view'.booked[o]
        /\ r'.pc = r.pc /\ r'.real = r.real /\ r'.snap = r.snap /\ r'.todo = r.todo \ {o}
  <1>1. PICK o \in Orders : \/ AdoptListed(o) \/ AdoptLookedUp(o)
                            \/ \E known \in BOOLEAN : sweep_ledger_deficits(o, known)
    BY DEF Adoption
  <1>2. /\ cum \in [Orders -> Nat] /\ HasLedger(view) /\ r.real \in [Orders -> Nat]
        /\ RowsAreTrue(view) /\ view.booked[o] \in Nat
        /\ view.row[o] \in [filled : Nat, final : BOOLEAN]
    BY DEF LedgerInv, LedgerTypes, Transactions, HasLedger
  <1>3. ASSUME NEW target \in Nat, Adopts(o, target), r.real[o] <= target \/ (r.pc = "sweep" /\ ~view.row[o].final)
        PROVE  LedgerInv'
    <2>1. LedgerTypes' /\ EventsAreTrue' /\ RowsAreTrue(book)'
      BY <1>3 DEF LedgerInv, LedgerTypes, EventsAreTrue, RowsAreTrue, HasLedger
    <2>2. \A p \in Orders : /\ view.booked[p] \in Nat /\ view'.booked[p] \in Nat
                            /\ r.real[p] \in Nat
      BY <1>2, <1>3 DEF HasLedger
    <2>3. r.pc \in {"adopt", "sweep"}
      BY <1>1 DEF AdoptListed, AdoptLookedUp, sweep_ledger_deficits
    <2>4. ListIsBooked'
      BY <1>2, <1>3, <2>2, <2>3 DEF LedgerInv, ListIsBooked
    <2> QED BY <1>3, <2>1, <2>4 DEF LedgerInv
  <1>4. CASE AdoptListed(o)
    <2>1. /\ r.snap[o] \in Nat /\ r.real[o] <= r.snap[o] /\ r.snap[o] <= cum[o]
          /\ r.pc = "adopt" /\ AdoptInto(view, o, r.snap[o], FALSE, r.at)
      BY <1>4 DEF AdoptListed, LedgerInv, ListIsBooked
    <2>2. Adopts(o, r.snap[o])
      BY <2>1, AdoptIntoBooks
    <2> QED BY <1>3, <2>1, <2>2
  <1>5. ASSUME NEW stamp, r.pc \in {"adopt", "sweep"}, AdoptInto(view, o, cum[o], o \in over, stamp)
        PROVE  LedgerInv'
    <2>1. cum[o] \in Nat /\ r.real[o] <= cum[o]
      BY <1>2, <1>5 DEF LedgerInv, ListIsBooked
    <2>2. Adopts(o, cum[o])
      <3>1. ASSUME NEW final \in BOOLEAN, final = (o \in over)
            PROVE  Adopts(o, cum[o])
        <4>1. AdoptInto(view, o, cum[o], final, stamp)
          BY <1>5, <3>1, Zenon
        <4>2. final => o \in over
          BY <3>1
        <4> QED BY <1>2, <1>5, <2>1, <4>1, <4>2, AdoptIntoBooks
      <3>2. CASE o \in over
        <4>1. TRUE = (o \in over)
          BY <3>2
        <4> QED BY <4>1, <3>1
      <3>3. CASE o \notin over
        <4>1. FALSE = (o \in over)
          BY <3>3
        <4> QED BY <4>1, <3>1
      <3> QED BY <3>2, <3>3
    <2> QED BY <1>3, <2>1, <2>2
  <1>6. CASE AdoptLookedUp(o)
    BY <1>5, <1>6 DEF AdoptLookedUp
  <1>7. ASSUME NEW known \in BOOLEAN, sweep_ledger_deficits(o, known)
        PROVE  LedgerInv'
    <2>1. CASE known
      BY <1>5, <1>7, <2>1 DEF sweep_ledger_deficits
    <2>2. CASE ~known
      <3> DEFINE row == view.row[o]
                 stamp == IF row.final THEN FilledAt(o, r.at) ELSE r.at
      <3>1. AdoptInto(view, o, row.filled, row.final, stamp) /\ r.pc = "sweep"
        BY <1>7, <2>2 DEF sweep_ledger_deficits
      <3>2. /\ row.filled \in Nat /\ row.final \in BOOLEAN /\ row.filled <= cum[o]
            /\ row.final => o \in over /\ row.filled = cum[o]
        BY <1>2 DEF RowsAreTrue
      <3> HIDE DEF stamp
      <3>3. Adopts(o, row.filled)
        BY <3>1, <3>2, AdoptIntoBooks
      <3>4. r.real[o] <= row.filled \/ ~row.final
        BY <3>1, <3>2 DEF LedgerInv, ListIsBooked
      <3> QED BY <1>3, <3>1, <3>2, <3>3, <3>4
    <2> QED BY <2>1, <2>2
  <1> QED BY <1>1, <1>4, <1>6, <1>7

(* The reads, and the lists of what is left to do.                          *)
LEMMA ReadsLedgerInv ==
  ASSUME LedgerInv,
         \/ ReadAccount \/ ReadPositions(TRUE) \/ ReadPositions(FALSE)
         \/ ReadOrders \/ ListDeficits \/ ListRemainders
  PROVE  LedgerInv'
  <1>1. /\ UNCHANGED <<now, cum, over, stream, book, view, w>>
        /\ r'.rows = r.rows
    BY DEF ReadAccount, ReadPositions, ReadOrders, ListDeficits, ListRemainders, broker,
           LedgerInv, Transactions
  <1>2. LedgerTypes' /\ EventsAreTrue' /\ RowsAreTrue(book)' /\ RowsAreTrue(view)'
    BY <1>1 DEF LedgerInv, LedgerTypes, EventsAreTrue, RowsAreTrue, HasLedger
  <1>3. cum \in [Orders -> Nat] /\ RowsAreTrue(view) /\ HasLedger(view) /\ r.real \in [Orders -> Nat]
    BY DEF LedgerInv, LedgerTypes, Transactions
  <1>4. CASE ReadAccount
    <2>0. PICK held : r' = [r EXCEPT !.pc = "positions", !.value = held]
      BY <1>4, Zenon DEF ReadAccount
    <2>1. Transactions' /\ r'.pc = "positions"
      BY <1>1, <2>0 DEF LedgerInv, Transactions
    <2>2. r.pc = "idle"
      BY <1>4 DEF ReadAccount
    <2>3. RowsAreLocked'
      BY <1>1, <2>1, <2>2 DEF LedgerInv, RowsAreLocked, WriterHas
    <2>4. ListIsBooked'
      BY <2>1 DEF ListIsBooked
    <2> QED BY <1>2, <2>1, <2>3, <2>4 DEF LedgerInv
  <1>5. CASE ReadPositions(TRUE) \/ ReadPositions(FALSE)
    <2>1. Transactions' /\ r'.pc = "orders" /\ r'.real = cum /\ r.pc = "positions"
      BY <1>1, <1>3, <1>5 DEF ReadPositions, LedgerInv, Transactions
    <2>2. RowsAreLocked'
      BY <1>1, <2>1 DEF LedgerInv, RowsAreLocked, WriterHas
    <2>3. ListIsBooked'
      BY <1>1, <1>3, <2>1 DEF ListIsBooked
    <2> QED BY <1>2, <2>1, <2>2, <2>3 DEF LedgerInv
  <1>6. CASE ReadOrders
    <2>1. PICK later \in SUBSET {o \in Late \ over : cum[o] = 0} :
            r' = [r EXCEPT !.pc = "adopt", !.at = now,
                      !.snap = [o \in Orders \ (over \cup later) |-> cum[o]],
                      !.todo = ((Orders \ over) \cup {o \in Orders : ~view.row[o].final}) \ later]
      BY <1>6 DEF ReadOrders
    <2>2. /\ Transactions' /\ r'.pc = "adopt" /\ r'.real = r.real /\ r.pc = "orders"
          /\ r'.snap = [o \in Orders \ (over \cup later) |-> cum[o]]
          /\ r'.todo = ((Orders \ over) \cup {o \in Orders : ~view.row[o].final}) \ later
      BY <1>1, <1>6, <2>1 DEF ReadOrders, LedgerInv, Transactions
    <2>3. RowsAreLocked'
      BY <1>1, <2>2 DEF LedgerInv, RowsAreLocked, WriterHas
    <2>4. \A o \in Orders : cum[o] \in Nat /\ r.real[o] \in Nat /\ r.real[o] <= cum[o]
                            /\ view.booked[o] \in Nat
      BY <1>3, <2>2 DEF LedgerInv, ListIsBooked, HasLedger
    <2>5. ASSUME NEW o \in Orders, o \in r'.todo \cap DOMAIN r'.snap
          PROVE  r'.snap[o] \in Nat /\ r'.real[o] <= r'.snap[o] /\ r'.snap[o] <= cum[o]
      BY <2>2, <2>4, <2>5
    <2>6. ASSUME NEW o \in Orders
          PROVE  o \in r'.todo \/ r'.real[o] <= view.booked[o] \/ view.row[o].final
      <3>1. CASE o \in later
        BY <2>2, <2>4, <3>1
      <3>2. CASE o \notin later
        BY <2>2, <3>2
      <3> QED BY <3>1, <3>2
    <2>7. ListIsBooked'
      BY <1>1, <2>2, <2>4, <2>5, <2>6 DEF ListIsBooked
    <2> QED BY <1>2, <2>2, <2>3, <2>7 DEF LedgerInv
  <1>7. CASE ListDeficits
    <2>1. /\ Transactions' /\ r'.pc = "sweep" /\ r'.real = r.real /\ r.pc = "adopt" /\ r.todo = {}
          /\ r'.todo = {o \in Orders : view.row[o].filled > view.booked[o]}
      BY <1>1, <1>7 DEF ListDeficits, LedgerInv, Transactions
    <2>2. RowsAreLocked'
      BY <1>1, <2>1 DEF LedgerInv, RowsAreLocked, WriterHas
    <2>3. \A o \in Orders : /\ r.real[o] \in Nat /\ view.booked[o] \in Nat /\ r.real[o] <= cum[o]
                            /\ r.real[o] <= view.booked[o] \/ view.row[o].final
                            /\ view.row[o].final => view.row[o].filled = cum[o]
                            /\ cum[o] \in Nat
      BY <1>3, <2>1 DEF LedgerInv, ListIsBooked, RowsAreTrue, HasLedger
    <2>4. ListIsBooked'
      BY <1>1, <2>1, <2>3 DEF ListIsBooked
    <2> QED BY <1>2, <2>1, <2>2, <2>4 DEF LedgerInv
  <1>8. CASE ListRemainders
    <2>1. Transactions' /\ r'.pc = "retry" /\ r'.real = r.real /\ r.pc = "sweep" /\ r.todo = {}
      BY <1>1, <1>8 DEF ListRemainders, LedgerInv, Transactions
    <2>2. RowsAreLocked' /\ ListIsBooked'
      BY <1>1, <2>1 DEF LedgerInv, RowsAreLocked, ListIsBooked, WriterHas
    <2> QED BY <1>2, <2>1, <2>2 DEF LedgerInv
  <1> QED BY <1>4, <1>5, <1>6, <1>7, <1>8

LEMMA RetryLedgerInv ==
  ASSUME LedgerInv, NEW a, retry_unapplied_remainder(a)
  PROVE  LedgerInv'
  <1>1. /\ UNCHANGED <<now, cum, over, stream, book, w>> /\ view' = retried(view, a)
        /\ r.pc = "retry" /\ r'.pc = r.pc /\ r'.rows = r.rows /\ r'.real = r.real
        /\ Transactions'
    BY DEF retry_unapplied_remainder, broker, LedgerInv, Transactions
  <1>2. HasLedger(view)
    BY DEF LedgerInv, LedgerTypes
  <1>3. HasLedger(view') /\ view'.booked = view.booked /\ view'.row = view.row
    BY <1>1, <1>2, RetriedKeepsLedger
  <1>4. LedgerTypes' /\ EventsAreTrue' /\ RowsAreTrue(book)' /\ RowsAreTrue(view)'
    BY <1>1, <1>3 DEF LedgerInv, LedgerTypes, EventsAreTrue, RowsAreTrue, HasLedger
  <1>5. RowsAreLocked' /\ ListIsBooked'
    BY <1>1, <1>3 DEF LedgerInv, RowsAreLocked, ListIsBooked, WriterHas
  <1> QED BY <1>1, <1>4, <1>5 DEF LedgerInv

(* The end of the reconcile: committed, or rolled back.                     *)
LEMMA ReconcileEndLedgerInv ==
  ASSUME LedgerInv, UNCHANGED <<broker, w>>, r' = IdleReconcile, view' = book',
         book' \in {book, view}
  PROVE  LedgerInv'
  <1>1. Transactions'
    BY DEF LedgerInv, Transactions, IdleReconcile, broker
  <1>2. LedgerTypes' /\ EventsAreTrue' /\ RowsAreTrue(book)' /\ RowsAreTrue(view)'
    BY DEF LedgerInv, LedgerTypes, EventsAreTrue, RowsAreTrue, broker, HasLedger
  <1>3. RowsAreLocked' /\ ListIsBooked'
    BY DEF RowsAreLocked, ListIsBooked, IdleReconcile
  <1> QED BY <1>1, <1>2, <1>3 DEF LedgerInv

LEMMA BreakDeadlockLedgerInv ==
  ASSUME LedgerInv, BreakDeadlock
  PROVE  LedgerInv'
  <1>1. UNCHANGED <<broker, book>>
    BY DEF BreakDeadlock
  <1>2. CASE w' = IdleWriter /\ UNCHANGED <<view, r>>
    <2>1. Transactions'
      BY <1>1, <1>2 DEF LedgerInv, Transactions, broker
    <2> QED BY <1>1, <1>2, <2>1, WriterAloneLedgerInv
  <1>3. CASE view' = book /\ r' = IdleReconcile /\ UNCHANGED w
    BY <1>1, <1>3, ReconcileEndLedgerInv
  <1> QED BY <1>2, <1>3 DEF BreakDeadlock

(* The API sync moves rows, the same way in both books, and books nothing.  *)
LEMMA SyncLedgerInv ==
  ASSUME LedgerInv, SyncPortfolio
  PROVE  LedgerInv'
  <1> DEFINE synced(b) == [b EXCEPT !.row = [o \in Orders |->
                             apply_snapshot(b, o, cum[o], o \in over).row[o]]]
  <1>1. /\ view' = synced(view) /\ book' = synced(book)
        /\ UNCHANGED <<now, cum, over, stream, w, r>>
    BY DEF SyncPortfolio, broker
  <1>2. /\ HasLedger(book) /\ HasLedger(view) /\ RowsAreTrue(book) /\ RowsAreTrue(view)
        /\ cum \in [Orders -> Nat]
    BY DEF LedgerInv, LedgerTypes
  <1>3. ASSUME NEW b, HasLedger(b), RowsAreTrue(b)
        PROVE  /\ HasLedger(synced(b)) /\ RowsAreTrue(synced(b)) /\ synced(b).booked = b.booked
               /\ \A o \in Orders :
                    /\ synced(b).row[o] = apply_snapshot(b, o, cum[o], o \in over).row[o]
                    /\ b.row[o].final => synced(b).row[o].final
    <2> DEFINE row == [o \in Orders |-> apply_snapshot(b, o, cum[o], o \in over).row[o]]
               new == [b EXCEPT !.row = row]
    <2>1. ASSUME NEW o \in Orders
          PROVE  /\ row[o] \in [filled : Nat, final : BOOLEAN] /\ row[o].filled <= cum[o]
                 /\ row[o].final => o \in over /\ row[o].filled = cum[o]
                 /\ b.row[o].final => row[o].final
      <3>1. ASSUME NEW final \in BOOLEAN, final = (o \in over)
            PROVE  <2>1!2
        <4> DEFINE x == apply_snapshot(b, o, cum[o], final)
        <4>1. row[o] = x.row[o]
          BY <3>1, Zenon
        <4>2. final => o \in over
          BY <3>1
        <4>3. HasLedger(x) /\ RowsAreTrue(x) /\ (b.row[o].final => x.row[o].final)
          BY <1>2, <1>3, <4>2, SnapshotIsTrue
        <4> HIDE DEF x, row
        <4>4. x.row[o] \in [filled : Nat, final : BOOLEAN]
          BY <4>3 DEF HasLedger
        <4> QED BY <4>1, <4>3, <4>4 DEF RowsAreTrue
      <3>2. CASE o \in over
        <4>1. TRUE = (o \in over)
          BY <3>2
        <4> QED BY <4>1, <3>1
      <3>3. CASE o \notin over
        <4>1. FALSE = (o \in over)
          BY <3>3
        <4> QED BY <4>1, <3>1
      <3> QED BY <3>2, <3>3
    <2>2. DOMAIN row = Orders /\ row = [o \in Orders |-> row[o]]
      OBVIOUS
    <2>3. synced(b) = new /\ \A o \in Orders : row[o] = apply_snapshot(b, o, cum[o], o \in over).row[o]
      BY Zenon
    <2> HIDE DEF row
    <2>4. HasLedger(new) /\ new.booked = b.booked /\ new.row = row
      BY <1>3, <2>1, <2>2 DEF HasLedger
    <2>5. RowsAreTrue(new)
      BY <1>3, <2>1, <2>4 DEF RowsAreTrue
    <2> HIDE DEF new, synced
    <2>6. \A o \in Orders :
            /\ synced(b).row[o] = apply_snapshot(b, o, cum[o], o \in over).row[o]
            /\ b.row[o].final => synced(b).row[o].final
      BY <2>1, <2>3, <2>4
    <2> QED BY <2>3, <2>4, <2>5, <2>6
  <1> HIDE DEF synced
  <1>4. RowsAreTrue(book)' /\ RowsAreTrue(view)' /\ HasLedger(book') /\ HasLedger(view')
    BY <1>1, <1>2, <1>3 DEF RowsAreTrue
  <1>5. \A o \in Orders : /\ view.booked[o] <= view'.booked[o]
                          /\ view.row[o].final => view'.row[o].final
    BY <1>1, <1>2, <1>3 DEF HasLedger
  <1>6. ASSUME NEW o \in Orders, o \notin r.rows
        PROVE  view'.booked[o] = book'.booked[o] /\ view'.row[o] = book'.row[o]
    <2>1. view.booked[o] = book.booked[o] /\ view.row[o] = book.row[o]
      BY <1>6 DEF LedgerInv, RowsAreLocked
    <2>2. ASSUME NEW final
          PROVE  apply_snapshot(view, o, cum[o], final).row[o] = apply_snapshot(book, o, cum[o], final).row[o]
      BY <1>2, <2>1 DEF apply_snapshot, HasLedger
    <2> QED BY <1>1, <1>2, <1>3, <2>1, <2>2
  <1>7. RowsAreLocked' /\ Transactions'
    BY <1>1, <1>6 DEF LedgerInv, RowsAreLocked, Transactions, WriterHas
  <1> QED BY <1>1, <1>4, <1>5, <1>7, BooksMoveOn

LEMMA NextLedgerInv == LedgerInv /\ [Next]_vars => LedgerInv'
  <1> SUFFICES ASSUME LedgerInv, [Next]_vars PROVE LedgerInv'
    OBVIOUS
  <1>1. CASE BrokerStep
    BY <1>1, BrokerStepLedgerInv
  <1>2. CASE WriterStep \/ WriterAbort
    BY <1>2, ApplySnapshotOnlyLedgerInv, WriterCommitLedgerInv, WriterStepLedgerInv DEF WriterStep
  <1>3. CASE ReconcileCommit
    BY <1>3, ReconcileEndLedgerInv DEF ReconcileCommit
  <1>4. CASE ReconcileAbort
    BY <1>4, ReconcileEndLedgerInv DEF ReconcileAbort
  <1>5. CASE ReconcileStep \/ ReadPositions(TRUE)
    BY <1>3, <1>5, AdoptionLedgerInv, ReadsLedgerInv, RetryLedgerInv DEF ReconcileStep
  <1>6. CASE BreakDeadlock \/ SyncPortfolio
    BY <1>6, BreakDeadlockLedgerInv, SyncLedgerInv
  <1>7. CASE UNCHANGED vars
    <2>1. UNCHANGED <<broker, book, view, w, r>>
      BY <1>7 DEF vars
    <2> QED BY <2>1 DEF LedgerInv, LedgerTypes, Transactions, EventsAreTrue, RowsAreTrue,
              RowsAreLocked, ListIsBooked, broker, HasLedger, WriterHas
  <1> QED BY <1>1, <1>2, <1>3, <1>4, <1>5, <1>6, <1>7 DEF Next

(* The ledger's invariant: no row and no book runs ahead of the broker, the *)
(* two transactions have no row in common, and what the position list said  *)
(* is booked in time.                                                       *)
THEOREM LedgerInvariance == Spec => []LedgerInv
  BY InitLedgerInv, NextLedgerInv, PTL DEF Spec

(* The reconcile's absolute overwrite of the Position row never brings a    *)
(* share that the ledger has yet to book.                                   *)
THEOREM OverwriteBooked == Spec => []OverwriteIsBooked
  <1>1. LedgerInv => OverwriteIsBooked
    BY DEF LedgerInv, LedgerTypes, Transactions, HasLedger, ListIsBooked, OverwriteIsBooked
  <1> QED BY <1>1, LedgerInvariance, PTL

(* The ledger never runs ahead of the broker.                               *)
THEOREM NothingOverbooked == Spec => []NeverOverbooked
  <1>1. LedgerInv => NeverOverbooked
    BY DEF LedgerInv, RowsAreTrue, NeverOverbooked
  <1> QED BY <1>1, LedgerInvariance, PTL

(* A reconcile deletes no Position row that the account said is held.       *)
THEOREM NoWipe == Spec => HeldIsNeverWiped
  <1>1. ASSUME Next, r.pc = "retry", r'.pc = "idle", position # 0, position' = 0
        PROVE  ~(r.value /\ NetOf(r.real) # 0)
    <2>1. ReconcileCommit
      <3>1. ~BrokerStep /\ ~SyncPortfolio /\ ~WriterStep /\ ~WriterAbort
        BY <1>1 DEF BrokerStep, Tick, BrokerFill, BrokerCancel, SyncPortfolio, WriterStep,
                    ApplySnapshotOnly, Locate, LockLots, WriterCommit, WriterConflict, WriterAbort
      <3>2. ~ReadPositions(TRUE) /\ ~ReconcileAbort /\ ~BreakDeadlock
        BY <1>1 DEF ReadPositions, ReconcileAbort, BreakDeadlock
      <3>3. ~ReadAccount /\ ~ReadPositions(FALSE) /\ ~ReadOrders /\ ~ListDeficits /\ ~ListRemainders
        BY <1>1 DEF ReadAccount, ReadPositions, ReadOrders, ListDeficits, ListRemainders
      <3>4. ~Adoption /\ ~(\E a \in DOMAIN view.parked : retry_unapplied_remainder(a))
        BY <1>1 DEF Adoption, AdoptListed, AdoptLookedUp, sweep_ledger_deficits, AdoptInto,
                    retry_unapplied_remainder
      <3> QED BY <1>1, <3>1, <3>2, <3>3, <3>4 DEF Next, ReconcileStep
    <2> QED BY <1>1, <2>1 DEF ReconcileCommit, reconcile_positions
  <1>2. ASSUME UNCHANGED vars, position # 0
        PROVE  position' # 0
    BY <1>2 DEF vars
  <1>3. [Next]_vars => [r.pc = "retry" /\ r'.pc = "idle" /\ position # 0 /\ position' = 0
                          => ~(r.value /\ NetOf(r.real) # 0)]_vars
    BY <1>1, <1>2
  <1> QED BY <1>3, PTL DEF Spec, HeldIsNeverWiped

-----------------------------------------------------------------------------
(* What the operators on a book do to its lots.                             *)

LotSum(b, o) == SumFunction([i \in DOMAIN b.lots |-> InLots(b, o, i)])
ParkedSum(b, o) == SumFunction([a \in DOMAIN b.parked |-> InParked(b, o, a)])

(* c is b after a fill of o, stamped at, that may have closed the lots m:   *)
(* what is written once stays, what is new is new to the reconcile too.     *)
Extends(b, c, m, o, at) ==
  /\ DOMAIN b.lots \subseteq DOMAIN c.lots /\ DOMAIN b.parked \subseteq DOMAIN c.parked
  /\ \A i \in DOMAIN b.lots :
       /\ c.lots[i].order = b.lots[i].order /\ c.lots[i].orig = b.lots[i].orig
       /\ c.lots[i].opened = b.lots[i].opened /\ c.lots[i].open <= b.lots[i].open
       /\ i \notin m => c.lots[i] = b.lots[i] /\ c.closes[i] = b.closes[i]
  /\ \A a \in DOMAIN b.parked : c.parked[a] = b.parked[a]
  /\ \A i \in DOMAIN c.lots \ DOMAIN b.lots : i \notin DOMAIN view.lots
  /\ \A a \in DOMAIN c.parked \ DOMAIN b.parked :
       a \notin DOMAIN view.parked /\ c.parked[a].order = o /\ c.parked[a].at = at
  /\ \A i \in DOMAIN c.lots, f \in Orders :
       c.closes[i][f] > 0 => i \in DOMAIN b.lots /\ (b.closes[i][f] > 0 \/ (f = o /\ i \in m))

LEMMA LotsMayBeConsumed ==
  ASSUME NEW b, LotTypes(b), NEW m \in SUBSET DOMAIN b.lots
  PROVE  MayConsume(b, m)
  <1>1. m \in SUBSET Nat /\ IsFiniteSet(m)
    BY FS_Subset DEF LotTypes
  <1>2. ASSUME NEW i \in m
        PROVE  b.lots[i].open \in Nat /\ b.lots[i].opened \in Int
    <2>1. b.lots[i] \in Lot
      BY DEF LotTypes
    <2> QED BY <2>1, BoundsAssumption DEF Lot, Time
  <1> QED BY <1>1, <1>2 DEF MayConsume

LEMMA InLotsType ==
  ASSUME NEW b, LotTypes(b), NEW o \in Orders, NEW i \in DOMAIN b.lots
  PROVE  InLots(b, o, i) \in Nat
  <1>1. b.lots[i] \in Lot /\ b.closes[i] \in [Orders -> Nat]
    BY DEF LotTypes
  <1> QED BY <1>1 DEF InLots, Lot

LEMMA InParkedType ==
  ASSUME NEW b, LotTypes(b), NEW o \in Orders, NEW a \in DOMAIN b.parked
  PROVE  InParked(b, o, a) \in Nat
  <1>1. b.parked[a] \in Anomaly
    BY DEF LotTypes
  <1> QED BY <1>1 DEF InParked, Anomaly

LEMMA RemainingIs ==
  ASSUME NEW b, NEW m, MayConsume(b, m), NEW qty \in Nat
  PROVE  /\ Remaining(b, qty, m) \in 0 .. qty
         /\ qty - Remaining(b, qty, m) = IF OpenShares(b, m) <= qty THEN OpenShares(b, m) ELSE qty
  <1> DEFINE s == OpenShares(b, m)
  <1>1. s \in Nat
    BY OpenSharesType
  <1> HIDE DEF s
  <1>2. Max({0, qty - s}) = IF 0 >= qty - s THEN 0 ELSE qty - s
    BY <1>1, MaxOfTwo
  <1>3. Remaining(b, qty, m) = Max({0, qty - s})
    BY DEF Remaining, s
  <1>4. Remaining(b, qty, m) \in 0 .. qty
    BY <1>1, <1>2, <1>3
  <1>5. qty - Remaining(b, qty, m) = IF s <= qty THEN s ELSE qty
    BY <1>1, <1>2, <1>3
  <1> QED BY <1>4, <1>5 DEF s

(* Consuming lots: what is taken from them is booked as closed by o.        *)
LEMMA ConsumeLots ==
  ASSUME NEW b, HasLedger(b), LotTypes(b), NEW o \in Orders, NEW qty \in Nat,
         NEW m \in SUBSET DOMAIN b.lots, NEW at
  PROVE  /\ LotTypes(Consume(b, o, qty, m)) /\ Extends(b, Consume(b, o, qty, m), m, o, at)
         /\ DOMAIN Consume(b, o, qty, m).lots = DOMAIN b.lots
         /\ Consume(b, o, qty, m).parked = b.parked
         /\ \A i \in DOMAIN b.lots : \E n \in Nat :
              /\ Consume(b, o, qty, m).lots[i].open = b.lots[i].open - n
              /\ Consume(b, o, qty, m).closes[i] = [b.closes[i] EXCEPT ![o] = @ + n]
              /\ n = IF i \in m THEN consumed(b, m, i, qty) ELSE 0
  <1>0. MayConsume(b, m)
    BY LotsMayBeConsumed
  <1>1. CASE m = {}
    <2>1. Consume(b, o, qty, m) = b
      BY <1>1 DEF Consume
    <2>2. \A i \in DOMAIN b.lots : b.closes[i] \in [Orders -> Nat] /\ b.lots[i].open \in Nat
      BY DEF LotTypes, Lot
    <2>3. Extends(b, b, m, o, at)
      BY <2>2 DEF Extends
    <2>4. \A i \in DOMAIN b.lots : /\ b.lots[i].open = b.lots[i].open - 0
                                  /\ b.closes[i] = [b.closes[i] EXCEPT ![o] = @ + 0]
      BY <2>2
    <2> QED BY <1>1, <2>1, <2>3, <2>4
  <1>2. CASE m # {}
    <2> DEFINE taken == [i \in m |-> consumed(b, m, i, qty)]
               lots == [i \in DOMAIN b.lots |->
                    IF i \in m THEN [b.lots[i] EXCEPT !.open = @ - taken[i]] ELSE b.lots[i]]
               closes == [i \in DOMAIN b.lots |->
                    IF i \in m THEN [b.closes[i] EXCEPT ![o] = @ + taken[i]] ELSE b.closes[i]]
               c == [b EXCEPT !.lots = lots, !.closes = closes]
    <2>1. Consume(b, o, qty, m) = c
      BY <1>2 DEF Consume
    <2>2. c.lots = lots /\ c.closes = closes /\ c.parked = b.parked
      BY DEF HasLedger
    <2>3. \A i \in DOMAIN b.lots : b.lots[i] \in Lot /\ b.closes[i] \in [Orders -> Nat]
      BY DEF LotTypes
    <2>4. \A i \in m : taken[i] \in 0 .. b.lots[i].open /\ taken[i] = consumed(b, m, i, qty)
      BY <1>0, ConsumedInRange
    <2> HIDE DEF c, taken
    <2>5. ASSUME NEW i \in DOMAIN b.lots
          PROVE  /\ lots[i] \in Lot /\ closes[i] \in [Orders -> Nat]
                 /\ lots[i].order = b.lots[i].order /\ lots[i].orig = b.lots[i].orig
                 /\ lots[i].opened = b.lots[i].opened /\ lots[i].open <= b.lots[i].open
                 /\ i \notin m => lots[i] = b.lots[i] /\ closes[i] = b.closes[i]
                 /\ \A f \in Orders : closes[i][f] > 0 => b.closes[i][f] > 0 \/ (f = o /\ i \in m)
                 /\ \E n \in Nat :
                      /\ lots[i].open = b.lots[i].open - n
                      /\ closes[i] = [b.closes[i] EXCEPT ![o] = @ + n]
                      /\ n = IF i \in m THEN consumed(b, m, i, qty) ELSE 0
      <3>1. CASE i \in m
        <4>1. lots[i] = [b.lots[i] EXCEPT !.open = @ - taken[i]]
          BY <3>1
        <4>2. closes[i] = [b.closes[i] EXCEPT ![o] = @ + taken[i]]
          BY <3>1
        <4>3. taken[i] \in 0 .. b.lots[i].open /\ b.lots[i].open \in Nat /\ taken[i] \in Nat
          BY <2>3, <2>4, <3>1 DEF Lot
        <4> HIDE DEF lots, closes
        <4>4. lots[i] \in Lot
          BY <2>3, <4>1, <4>3 DEF Lot
        <4>5. closes[i] \in [Orders -> Nat]
          BY <2>3, <4>2, <4>3
        <4>6. /\ lots[i].order = b.lots[i].order /\ lots[i].orig = b.lots[i].orig
              /\ lots[i].opened = b.lots[i].opened /\ lots[i].open = b.lots[i].open - taken[i]
          BY <2>3, <4>1 DEF Lot
        <4>7. \A f \in Orders : closes[i][f] > 0 => b.closes[i][f] > 0 \/ (f = o /\ i \in m)
          BY <2>3, <3>1, <4>2
        <4> QED BY <2>4, <3>1, <4>2, <4>3, <4>4, <4>5, <4>6, <4>7
      <3>2. CASE i \notin m
        <4>1. lots[i] = b.lots[i] /\ closes[i] = b.closes[i]
          BY <3>2
        <4> HIDE DEF lots, closes
        <4>2. b.lots[i].open \in Nat
          BY <2>3 DEF Lot
        <4>3. /\ lots[i].open = b.lots[i].open - 0
              /\ closes[i] = [b.closes[i] EXCEPT ![o] = @ + 0]
          BY <2>3, <4>1, <4>2
        <4>4. \E n \in Nat :
                /\ lots[i].open = b.lots[i].open - n
                /\ closes[i] = [b.closes[i] EXCEPT ![o] = @ + n]
                /\ n = IF i \in m THEN consumed(b, m, i, qty) ELSE 0
          <5>1. 0 = IF i \in m THEN consumed(b, m, i, qty) ELSE 0
            BY <3>2
          <5> WITNESS 0 \in Nat
          <5> QED BY <4>3, <5>1
        <4>5. /\ lots[i] \in Lot /\ closes[i] \in [Orders -> Nat]
              /\ lots[i].open <= b.lots[i].open
          BY <2>3, <4>1, <4>2
        <4>6. \A f \in Orders : closes[i][f] > 0 => b.closes[i][f] > 0 \/ (f = o /\ i \in m)
          BY <4>1
        <4> QED BY <4>1, <4>4, <4>5, <4>6
      <3> QED BY <3>1, <3>2
    <2>6. DOMAIN lots = DOMAIN b.lots /\ DOMAIN closes = DOMAIN b.lots
      OBVIOUS
    <2>7. lots = [i \in DOMAIN b.lots |-> lots[i]] /\ closes = [i \in DOMAIN b.lots |-> closes[i]]
      OBVIOUS
    <2> HIDE DEF lots, closes
    <2>8. LotTypes(c)
      BY <2>2, <2>5, <2>6, <2>7 DEF LotTypes
    <2>9. Extends(b, c, m, o, at)
      BY <2>2, <2>5, <2>6 DEF Extends
    <2>10. ASSUME NEW i \in DOMAIN b.lots
           PROVE  \E n \in Nat :
                    /\ c.lots[i].open = b.lots[i].open - n
                    /\ c.closes[i] = [b.closes[i] EXCEPT ![o] = @ + n]
                    /\ n = IF i \in m THEN consumed(b, m, i, qty) ELSE 0
      BY <2>2, <2>5
    <2>11. DOMAIN c.lots = DOMAIN b.lots /\ c.parked = b.parked
      BY <2>2, <2>6
    <2> QED BY <2>1, <2>8, <2>9, <2>10, <2>11
  <1> QED BY <1>1, <1>2

(* A fresh id is new to both transactions.                                  *)
LEMMA FreshId ==
  ASSUME NEW S \in SUBSET Nat, NEW T \in SUBSET Nat, IsFiniteSet(S), IsFiniteSet(T)
  PROVE  /\ 1 + Max(S \cup T \cup {0}) \in Nat
         /\ 1 + Max(S \cup T \cup {0}) \notin S \cup T
  <1> DEFINE U == S \cup T \cup {0}
  <1>1. U \in SUBSET Nat /\ U # {} /\ IsFiniteSet(U)
    <2>1. IsFiniteSet(S \cup T)
      BY FS_Union
    <2>2. IsFiniteSet((S \cup T) \cup {0})
      BY <2>1, FS_AddElement
    <2> QED BY <2>2
  <1>2. S \cup T \subseteq U
    OBVIOUS
  <1> HIDE DEF U
  <1>3. U \in SUBSET Int
    BY <1>1
  <1>4. Max(U) \in U /\ \A y \in U : Max(U) >= y
    BY <1>1, <1>3, MaxOfFinite
  <1>5. Max(U) \in Nat
    BY <1>1, <1>4
  <1> DEFINE k == Max(U)
  <1>6. 1 + k \in Nat /\ 1 + k \notin U
    BY <1>1, <1>4, <1>5
  <1> QED BY <1>2, <1>6 DEF U

LEMMA NewIds ==
  ASSUME NEW b, LotTypes(b), LotTypes(view)
  PROVE  /\ NewLot(b) \in Nat /\ NewLot(b) \notin DOMAIN b.lots \cup DOMAIN view.lots
         /\ NewAnomaly(b) \in Nat /\ NewAnomaly(b) \notin DOMAIN b.parked \cup DOMAIN view.parked
  <1>1. /\ DOMAIN b.lots \in SUBSET Nat /\ IsFiniteSet(DOMAIN b.lots)
        /\ DOMAIN view.lots \in SUBSET Nat /\ IsFiniteSet(DOMAIN view.lots)
        /\ DOMAIN b.parked \in SUBSET Nat /\ IsFiniteSet(DOMAIN b.parked)
        /\ DOMAIN view.parked \in SUBSET Nat /\ IsFiniteSet(DOMAIN view.parked)
    BY DEF LotTypes
  <1>2. NewLot(b) \in Nat /\ NewLot(b) \notin DOMAIN b.lots \cup DOMAIN view.lots
    BY <1>1, FreshId DEF NewLot
  <1>3. NewAnomaly(b) \in Nat /\ NewAnomaly(b) \notin DOMAIN b.parked \cup DOMAIN view.parked
    BY <1>1, FreshId DEF NewAnomaly
  <1> QED BY <1>2, <1>3

(* What the closes of a lot add up to.                                      *)
LEMMA CloseSum ==
  ASSUME NEW f \in [Orders -> Nat]
  PROVE  SumFunction(f) = SumFunctionOnSet(f, Orders) /\ SumFunction(f) \in Nat
  <1>1. SumFunction(f) = SumFunctionOnSet(f, Orders)
    BY DEF SumFunction
  <1>2. \A o \in Orders : f[o] \in Nat
    OBVIOUS
  <1>3. SumFunctionOnSet(f, Orders) \in Nat
    BY <1>2, SumNat, OrdersAssumption
  <1> QED BY <1>1, <1>3

LEMMA CloseMore ==
  ASSUME NEW f \in [Orders -> Nat], NEW o \in Orders, NEW n \in Nat
  PROVE  SumFunction([f EXCEPT ![o] = @ + n]) = SumFunction(f) + n
  <1> DEFINE g == [f EXCEPT ![o] = @ + n]
  <1>1. g \in [Orders -> Nat] /\ g[o] = f[o] + n /\ \A p \in Orders \ {o} : f[p] = g[p]
    OBVIOUS
  <1>2. \A p \in Orders : f[p] \in Int /\ g[p] \in Int
    BY <1>1
  <1> HIDE DEF g
  <1>3. SumFunctionOnSet(g, Orders) = SumFunctionOnSet(f, Orders) - f[o] + g[o]
    BY <1>1, <1>2, SumChange, OrdersAssumption
  <1>4. SumFunction(g) = SumFunctionOnSet(g, Orders)
    BY <1>1, CloseSum
  <1>5. SumFunction(f) = SumFunctionOnSet(f, Orders) /\ SumFunction(f) \in Nat
    BY CloseSum
  <1> DEFINE x == SumFunction(f)
             y == SumFunction(g)
  <1>6. y = x - f[o] + g[o] /\ x \in Nat /\ f[o] \in Nat
    BY <1>3, <1>4, <1>5
  <1> HIDE DEF x, y
  <1>7. y = x + n
    BY <1>1, <1>6
  <1> QED BY <1>7 DEF x, y, g

(* A lot that is consumed keeps its balance, whoever closed it before.      *)
LEMMA ConsumeBalanced ==
  ASSUME NEW b, HasLedger(b), LotTypes(b), Balanced(b), NEW o \in Orders, NEW qty \in Nat,
         NEW m \in SUBSET DOMAIN b.lots
  PROVE  Balanced(Consume(b, o, qty, m))
  <1> DEFINE c == Consume(b, o, qty, m)
  <1>1. /\ LotTypes(c) /\ Extends(b, c, m, o, 0) /\ DOMAIN c.lots = DOMAIN b.lots
        /\ \A i \in DOMAIN b.lots : \E n \in Nat :
             /\ c.lots[i].open = b.lots[i].open - n
             /\ c.closes[i] = [b.closes[i] EXCEPT ![o] = @ + n]
             /\ n = IF i \in m THEN consumed(b, m, i, qty) ELSE 0
    BY ConsumeLots
  <1> HIDE DEF c
  <1>2. ASSUME NEW i \in DOMAIN b.lots
        PROVE  c.lots[i].orig = c.lots[i].open + SumFunction(c.closes[i])
    <2>1. PICK n \in Nat : /\ c.lots[i].open = b.lots[i].open - n
                           /\ c.closes[i] = [b.closes[i] EXCEPT ![o] = @ + n]
      BY <1>1
    <2>2. b.closes[i] \in [Orders -> Nat] /\ b.lots[i].open \in Nat
      BY DEF LotTypes, Lot
    <2>3. SumFunction(c.closes[i]) = SumFunction(b.closes[i]) + n
      BY <2>1, <2>2, CloseMore
    <2>4. SumFunction(b.closes[i]) \in Nat
      BY <2>2, CloseSum
    <2>5. b.lots[i].orig = b.lots[i].open + SumFunction(b.closes[i])
      BY DEF Balanced
    <2>6. c.lots[i].orig = b.lots[i].orig
      BY <1>1 DEF Extends
    <2> DEFINE s == SumFunction(b.closes[i])
    <2> HIDE DEF s
    <2>7. b.lots[i].open + s = (b.lots[i].open - n) + (s + n)
      BY <2>2, <2>4 DEF s
    <2> QED BY <2>1, <2>3, <2>5, <2>6, <2>7 DEF s
  <1>3. Balanced(c)
    BY <1>1, <1>2 DEF Balanced
  <1> QED BY <1>3 DEF c

(* What a lot holds of an order, added up.                                  *)
LEMMA LotSumIs ==
  ASSUME NEW b, LotTypes(b), NEW p \in Orders
  PROVE  /\ LotSum(b, p) = SumFunctionOnSet([i \in DOMAIN b.lots |-> InLots(b, p, i)], DOMAIN b.lots)
         /\ LotSum(b, p) \in Nat
  <1> DEFINE f == [i \in DOMAIN b.lots |-> InLots(b, p, i)]
  <1>1. LotSum(b, p) = SumFunctionOnSet(f, DOMAIN b.lots)
    BY DEF LotSum, SumFunction
  <1>2. \A i \in DOMAIN b.lots : f[i] \in Nat
    BY InLotsType
  <1> HIDE DEF f
  <1>3. SumFunctionOnSet(f, DOMAIN b.lots) \in Nat
    BY <1>2, SumNat DEF LotTypes
  <1> QED BY <1>1, <1>3 DEF f

LEMMA ParkedSumIs ==
  ASSUME NEW b, LotTypes(b), NEW p \in Orders
  PROVE  /\ ParkedSum(b, p) = SumFunctionOnSet([a \in DOMAIN b.parked |-> InParked(b, p, a)], DOMAIN b.parked)
         /\ ParkedSum(b, p) \in Nat
  <1> DEFINE f == [a \in DOMAIN b.parked |-> InParked(b, p, a)]
  <1>1. ParkedSum(b, p) = SumFunctionOnSet(f, DOMAIN b.parked)
    BY DEF ParkedSum, SumFunction
  <1>2. \A a \in DOMAIN b.parked : f[a] \in Nat
    BY InParkedType
  <1> HIDE DEF f
  <1>3. SumFunctionOnSet(f, DOMAIN b.parked) \in Nat
    BY <1>2, SumNat DEF LotTypes
  <1> QED BY <1>1, <1>3 DEF f

(* The shares of o that a consumption books as closes are those it takes.   *)
LEMMA ConsumeSum ==
  ASSUME NEW b, HasLedger(b), LotTypes(b), NEW o \in Orders, NEW qty \in Nat,
         NEW m \in SUBSET DOMAIN b.lots, NEW p \in Orders
  PROVE  LotSum(Consume(b, o, qty, m), p)
           = LotSum(b, p) + (IF p = o THEN qty - Remaining(b, qty, m) ELSE 0)
  <1> DEFINE c == Consume(b, o, qty, m)
             D == DOMAIN b.lots
  <1>0. MayConsume(b, m)
    BY LotsMayBeConsumed
  <1>1. /\ LotTypes(c) /\ Extends(b, c, m, o, 0) /\ DOMAIN c.lots = D
        /\ \A i \in D : \E n \in Nat :
             /\ c.lots[i].open = b.lots[i].open - n
             /\ c.closes[i] = [b.closes[i] EXCEPT ![o] = @ + n]
             /\ n = IF i \in m THEN consumed(b, m, i, qty) ELSE 0
    BY ConsumeLots
  <1> HIDE DEF c
  <1> DEFINE f == [i \in D |-> InLots(b, p, i)]
             h == [i \in D |-> InLots(c, p, i)]
             g == [i \in D |-> IF p = o /\ i \in m THEN consumed(b, m, i, qty) ELSE 0]
  <1>2. ASSUME NEW i \in D
        PROVE  f[i] \in Int /\ g[i] \in Nat /\ h[i] = f[i] + g[i]
    <2>1. PICK n \in Nat : /\ c.closes[i] = [b.closes[i] EXCEPT ![o] = @ + n]
                           /\ n = IF i \in m THEN consumed(b, m, i, qty) ELSE 0
      BY <1>1
    <2>2. b.closes[i] \in [Orders -> Nat] /\ b.lots[i].orig \in Nat
      BY DEF LotTypes, Lot
    <2>3. c.lots[i].order = b.lots[i].order /\ c.lots[i].orig = b.lots[i].orig
      BY <1>1 DEF Extends
    <2>4. c.closes[i][p] = b.closes[i][p] + (IF p = o THEN n ELSE 0)
      BY <2>1, <2>2
    <2>5. g[i] = IF p = o THEN n ELSE 0
      BY <2>1
    <2> HIDE DEF g
    <2>6. InLots(c, p, i) = InLots(b, p, i) + (IF p = o THEN n ELSE 0)
      BY <2>2, <2>3, <2>4 DEF InLots
    <2>7. InLots(b, p, i) \in Nat
      BY InLotsType
    <2> QED BY <2>5, <2>6, <2>7
  <1>3. LotSum(c, p) = SumFunctionOnSet(h, D) /\ LotSum(b, p) = SumFunctionOnSet(f, D)
    BY <1>1, LotSumIs
  <1>4. IsFiniteSet(D) /\ IsFiniteSet(m) /\ m \in SUBSET D
    BY <1>0 DEF LotTypes, MayConsume
  <1>5. \A i \in D \ m : g[i] = 0
    OBVIOUS
  <1>6. p = o => \A i \in m : g[i] = [j \in m |-> consumed(b, m, j, qty)][i]
    OBVIOUS
  <1>7. p # o => \A i \in D : g[i] = 0
    OBVIOUS
  <1> HIDE DEF f, g, h, D
  <1>8. SumFunctionOnSet(h, D) = SumFunctionOnSet(f, D) + SumFunctionOnSet(g, D)
    <2>1. \A i \in D : f[i] \in Int /\ g[i] \in Int /\ h[i] = f[i] + g[i]
      BY <1>2
    <2> QED BY <1>4, <2>1, SumPlus
  <1>9. \A i \in D : g[i] \in Int
    BY <1>2
  <1>10. CASE p = o
    <2>1. SumFunctionOnSet(g, D) = SumFunctionOnSet(g, m)
      BY <1>4, <1>5, <1>9, SumExtend
    <2>2. SumFunctionOnSet(g, m) = SumFunctionOnSet([j \in m |-> consumed(b, m, j, qty)], m)
      BY <1>4, <1>6, <1>10, SumSame
    <2>3. SumFunctionOnSet([j \in m |-> consumed(b, m, j, qty)], m) = qty - Remaining(b, qty, m)
      BY <1>0, FirstInFirstOut, RemainingIs
    <2> QED BY <1>3, <1>8, <1>10, <2>1, <2>2, <2>3 DEF c
  <1>11. CASE p # o
    <2>1. SumFunctionOnSet(g, D) = SumFunctionOnSet(g, {})
      BY <1>4, <1>7, <1>9, <1>11, SumExtend
    <2>2. SumFunctionOnSet(g, D) = 0
      BY <2>1, SumEmpty
    <2> QED BY <1>3, <1>8, <1>11, <2>2 DEF c
  <1> QED BY <1>10, <1>11

LEMMA ExtendsSelf ==
  ASSUME NEW b, LotTypes(b), NEW m, NEW o, NEW at
  PROVE  Extends(b, b, m, o, at)
  <1>1. \A i \in DOMAIN b.lots : b.lots[i].open \in Nat
    BY DEF LotTypes, Lot
  <1> QED BY <1>1 DEF Extends

(* A second fill of the same order extends what the first one left.         *)
LEMMA ExtendsMore ==
  ASSUME NEW b, NEW c, NEW d, NEW m, NEW k \in SUBSET m, NEW o, NEW at,
         LotTypes(b), LotTypes(c), LotTypes(d), m \in SUBSET DOMAIN b.lots,
         Extends(b, c, m, o, at), Extends(c, d, k, o, at)
  PROVE  Extends(b, d, m, o, at)
  <1>1. DOMAIN b.lots \subseteq DOMAIN d.lots /\ DOMAIN b.parked \subseteq DOMAIN d.parked
    BY DEF Extends
  <1>2. ASSUME NEW i \in DOMAIN b.lots
        PROVE  /\ d.lots[i].order = b.lots[i].order /\ d.lots[i].orig = b.lots[i].orig
               /\ d.lots[i].opened = b.lots[i].opened /\ d.lots[i].open <= b.lots[i].open
               /\ i \notin m => d.lots[i] = b.lots[i] /\ d.closes[i] = b.closes[i]
    <2>1. i \in DOMAIN c.lots /\ i \in DOMAIN d.lots
      BY DEF Extends
    <2>2. b.lots[i].open \in Nat /\ c.lots[i].open \in Nat /\ d.lots[i].open \in Nat
      BY <2>1 DEF LotTypes, Lot
    <2>3. d.lots[i].open <= c.lots[i].open /\ c.lots[i].open <= b.lots[i].open
      BY <2>1 DEF Extends
    <2>4. d.lots[i].open <= b.lots[i].open
      BY <2>2, <2>3
    <2> QED BY <2>1, <2>4 DEF Extends
  <1>3. \A a \in DOMAIN b.parked : d.parked[a] = b.parked[a]
    BY DEF Extends
  <1>4. \A i \in DOMAIN d.lots \ DOMAIN b.lots : i \notin DOMAIN view.lots
    BY DEF Extends
  <1>5. \A a \in DOMAIN d.parked \ DOMAIN b.parked :
          a \notin DOMAIN view.parked /\ d.parked[a].order = o /\ d.parked[a].at = at
    BY DEF Extends
  <1>6. \A i \in DOMAIN d.lots, f \in Orders :
          d.closes[i][f] > 0 => i \in DOMAIN b.lots /\ (b.closes[i][f] > 0 \/ (f = o /\ i \in m))
    BY DEF Extends
  <1> QED BY <1>1, <1>2, <1>3, <1>4, <1>5, <1>6 DEF Extends

(* The remainder of a fill becomes a lot ...                                *)
AddLot(b, n, x) == [b EXCEPT !.lots = With(@, n, x), !.closes = With(@, n, NoCloses)]

LEMMA AddLotIs ==
  ASSUME NEW b, HasLedger(b), LotTypes(b), LotTypes(view), Balanced(b),
         NEW o \in Orders, NEW rest \in Nat, NEW at \in Time
  PROVE  LET c == AddLot(b, NewLot(b), [order |-> o, orig |-> rest, open |-> rest, opened |-> at])
         IN  /\ LotTypes(c) /\ Balanced(c) /\ Extends(b, c, {}, o, at)
             /\ \A p \in Orders : /\ LotSum(c, p) = LotSum(b, p) + (IF p = o THEN rest ELSE 0)
                                  /\ ParkedSum(c, p) = ParkedSum(b, p)
  <1> DEFINE n == NewLot(b)
             x == [order |-> o, orig |-> rest, open |-> rest, opened |-> at]
             c == AddLot(b, n, x)
             D == DOMAIN b.lots
  <1>1. n \in Nat /\ n \notin D /\ n \notin DOMAIN view.lots
    BY NewIds
  <1>2. x \in Lot /\ NoCloses \in [Orders -> Nat]
    BY DEF Lot, NoCloses
  <1>3. x.order = o /\ x.orig = rest /\ x.open = rest /\ x.opened = at
    OBVIOUS
  <1> HIDE DEF n, x
  <1>4. c.lots = With(b.lots, n, x) /\ c.closes = With(b.closes, n, NoCloses) /\ c.parked = b.parked
    BY DEF HasLedger, AddLot
  <1>5. DOMAIN b.closes = D
    BY DEF LotTypes
  <1> HIDE DEF c
  <1>6. /\ DOMAIN c.lots = D \cup {n} /\ DOMAIN c.closes = D \cup {n}
        /\ c.lots = [j \in D \cup {n} |-> c.lots[j]] /\ c.closes = [j \in D \cup {n} |-> c.closes[j]]
        /\ c.lots[n] = x /\ c.closes[n] = NoCloses
        /\ \A i \in D : c.lots[i] = b.lots[i] /\ c.closes[i] = b.closes[i]
    BY <1>1, <1>4, <1>5 DEF With
  <1>7. IsFiniteSet(D \cup {n}) /\ D \cup {n} \in SUBSET Nat
    <2>1. IsFiniteSet(D) /\ D \in SUBSET Nat
      BY DEF LotTypes
    <2> HIDE DEF D
    <2> QED BY <1>1, <2>1, FS_AddElement
  <1>8. LotTypes(c)
    <2>1. \A i \in D : b.lots[i] \in Lot /\ b.closes[i] \in [Orders -> Nat]
      BY DEF LotTypes
    <2> HIDE DEF D
    <2>2. c.lots \in [D \cup {n} -> Lot] /\ c.closes \in [D \cup {n} -> [Orders -> Nat]]
      BY <1>2, <1>6, <2>1
    <2> QED BY <1>4, <1>6, <1>7, <2>2 DEF LotTypes
  <1>9. SumFunction(NoCloses) = 0
    <2>1. \A i \in Orders : NoCloses[i] = 0 /\ NoCloses[i] \in Int
      BY DEF NoCloses
    <2>2. SumFunctionOnSet(NoCloses, Orders) = SumFunctionOnSet(NoCloses, {})
      BY <2>1, SumExtend, OrdersAssumption
    <2>3. SumFunction(NoCloses) = SumFunctionOnSet(NoCloses, Orders)
      BY <1>2, CloseSum
    <2> QED BY <2>2, <2>3, SumEmpty
  <1>10. Balanced(c)
    <2>1. \A i \in D : c.lots[i].orig = c.lots[i].open + SumFunction(c.closes[i])
      <3>1. \A i \in D : b.lots[i].orig = b.lots[i].open + SumFunction(b.closes[i])
        BY DEF Balanced
      <3> HIDE DEF D
      <3> QED BY <1>6, <3>1
    <2>2. c.lots[n].orig = c.lots[n].open + SumFunction(c.closes[n])
      <3>1. SumFunction(c.closes[n]) = 0 /\ c.lots[n].orig = rest /\ c.lots[n].open = rest
        BY <1>3, <1>6, <1>9
      <3> QED BY <3>1
    <2> QED BY <1>6, <2>1, <2>2 DEF Balanced
  <1>11. Extends(b, c, {}, o, at)
    <2>1. \A i \in D : b.lots[i].open \in Nat
      BY DEF LotTypes, Lot
    <2>2. \A f \in Orders : ~(c.closes[n][f] > 0)
      BY <1>6 DEF NoCloses
    <2>3. \A i \in DOMAIN b.lots :
            /\ c.lots[i].order = b.lots[i].order /\ c.lots[i].orig = b.lots[i].orig
            /\ c.lots[i].opened = b.lots[i].opened /\ c.lots[i].open <= b.lots[i].open
            /\ i \notin {} => c.lots[i] = b.lots[i] /\ c.closes[i] = b.closes[i]
      <3>1. ASSUME NEW i \in D
            PROVE  c.lots[i] = b.lots[i] /\ c.closes[i] = b.closes[i]
        BY <1>6
      <3>2. ASSUME NEW i \in D
            PROVE  b.lots[i].open <= b.lots[i].open
        BY <2>1
      <3> QED BY <3>1, <3>2
    <2>4. /\ \A a \in DOMAIN b.parked : c.parked[a] = b.parked[a]
          /\ DOMAIN c.parked \ DOMAIN b.parked = {}
      BY <1>4
    <2>5. \A i \in DOMAIN c.lots \ DOMAIN b.lots : i \notin DOMAIN view.lots
      BY <1>1, <1>6
    <2>6. \A i \in DOMAIN c.lots, f \in Orders :
            c.closes[i][f] > 0 => i \in DOMAIN b.lots /\ (b.closes[i][f] > 0 \/ (f = o /\ i \in {}))
      BY <1>6, <2>2
    <2>7. DOMAIN b.lots \subseteq DOMAIN c.lots /\ DOMAIN b.parked \subseteq DOMAIN c.parked
      BY <1>4, <1>6
    <2> QED BY <2>3, <2>4, <2>5, <2>6, <2>7 DEF Extends
  <1>12. ASSUME NEW p \in Orders
         PROVE  /\ LotSum(c, p) = LotSum(b, p) + (IF p = o THEN rest ELSE 0)
                /\ ParkedSum(c, p) = ParkedSum(b, p)
    <2> DEFINE f == [i \in D |-> InLots(b, p, i)]
               g == [i \in D \cup {n} |-> InLots(c, p, i)]
    <2>1. LotSum(b, p) = SumFunctionOnSet(f, D) /\ LotSum(b, p) \in Nat
      BY LotSumIs
    <2>2. LotSum(c, p) = SumFunctionOnSet(g, D \cup {n})
      BY <1>6, <1>8, LotSumIs
    <2>3. \A i \in D \cup {n} : g[i] \in Int
      <3>1. \A i \in D \cup {n} : InLots(c, p, i) \in Nat
        BY <1>6, <1>8, InLotsType
      <3> QED BY <3>1
    <2>4. g[n] = IF p = o THEN rest ELSE 0
      <3>1. g[n] = InLots(c, p, n)
        OBVIOUS
      <3> QED BY <1>3, <1>6, <3>1 DEF InLots, NoCloses
    <2>5. \A i \in D : f[i] = g[i]
      BY <1>6 DEF InLots
    <2>6. (D \cup {n}) \ {n} = D /\ IsFiniteSet(D)
      BY <1>1 DEF LotTypes
    <2> HIDE DEF f, g, D
    <2>7. SumFunctionOnSet(g, D \cup {n}) = g[n] + SumFunctionOnSet(g, D)
      BY <1>7, <2>3, <2>6, SumTake
    <2>8. SumFunctionOnSet(f, D) = SumFunctionOnSet(g, D)
      BY <2>5, <2>6, SumSame
    <2>9. LotSum(c, p) = g[n] + LotSum(b, p)
      BY <2>1, <2>2, <2>7, <2>8
    <2>10. ParkedSum(c, p) = ParkedSum(b, p)
      BY <1>4 DEF ParkedSum, InParked
    <2> DEFINE s == LotSum(b, p)
    <2> HIDE DEF s
    <2>11. s \in Nat /\ LotSum(c, p) = g[n] + s
      BY <2>1, <2>9 DEF s
    <2>12. LotSum(c, p) = s + (IF p = o THEN rest ELSE 0)
      BY <2>4, <2>11
    <2> QED BY <2>10, <2>12 DEF s
  <1> QED BY <1>8, <1>10, <1>11, <1>12 DEF c, n, x

(* ... or it is parked.                                                     *)
Park(b, n, x) == [b EXCEPT !.parked = With(@, n, x)]

LEMMA ParkIs ==
  ASSUME NEW b, HasLedger(b), LotTypes(b), LotTypes(view), Balanced(b),
         NEW o \in Orders, NEW rest \in Nat, NEW at \in Time
  PROVE  LET c == Park(b, NewAnomaly(b),
                       [order |-> o, qty |-> rest, at |-> at, open |-> TRUE, fails |-> 0])
         IN  /\ LotTypes(c) /\ Balanced(c) /\ Extends(b, c, {}, o, at)
             /\ \A p \in Orders : /\ ParkedSum(c, p) = ParkedSum(b, p) + (IF p = o THEN rest ELSE 0)
                                  /\ LotSum(c, p) = LotSum(b, p)
  <1> DEFINE n == NewAnomaly(b)
             x == [order |-> o, qty |-> rest, at |-> at, open |-> TRUE, fails |-> 0]
             c == Park(b, n, x)
             D == DOMAIN b.parked
  <1>1. n \in Nat /\ n \notin D /\ n \notin DOMAIN view.parked
    BY NewIds
  <1>2. x \in Anomaly
    BY BoundsAssumption DEF Anomaly
  <1>3. x.order = o /\ x.qty = rest /\ x.at = at /\ x.open
    BY Zenon
  <1> HIDE DEF n, x
  <1>4. c.parked = With(b.parked, n, x) /\ c.lots = b.lots /\ c.closes = b.closes
    BY DEF HasLedger, Park
  <1> HIDE DEF c
  <1>6. /\ DOMAIN c.parked = D \cup {n}
        /\ c.parked = [j \in D \cup {n} |-> c.parked[j]]
        /\ c.parked[n] = x
        /\ \A a \in D : c.parked[a] = b.parked[a]
    BY <1>1, <1>4 DEF With
  <1>7. IsFiniteSet(D \cup {n}) /\ D \cup {n} \in SUBSET Nat
    <2>1. IsFiniteSet(D) /\ D \in SUBSET Nat
      BY DEF LotTypes
    <2> HIDE DEF D
    <2> QED BY <1>1, <2>1, FS_AddElement
  <1>8. LotTypes(c)
    <2>1. \A a \in D : b.parked[a] \in Anomaly
      BY DEF LotTypes
    <2> HIDE DEF D
    <2>2. c.parked \in [D \cup {n} -> Anomaly]
      BY <1>2, <1>6, <2>1
    <2> QED BY <1>4, <1>6, <1>7, <2>2 DEF LotTypes
  <1>10. Balanced(c)
    BY <1>4 DEF Balanced
  <1>11. Extends(b, c, {}, o, at)
    <2>1. \A i \in DOMAIN b.lots : b.lots[i].open \in Nat
      BY DEF LotTypes, Lot
    <2>2. \A a \in DOMAIN c.parked \ DOMAIN b.parked :
            a \notin DOMAIN view.parked /\ c.parked[a].order = o /\ c.parked[a].at = at
      BY <1>1, <1>3, <1>6
    <2>3. DOMAIN b.parked \subseteq DOMAIN c.parked
      BY <1>6
    <2>4. \A i \in DOMAIN b.lots :
            /\ c.lots[i].order = b.lots[i].order /\ c.lots[i].orig = b.lots[i].orig
            /\ c.lots[i].opened = b.lots[i].opened /\ c.lots[i].open <= b.lots[i].open
            /\ i \notin {} => c.lots[i] = b.lots[i] /\ c.closes[i] = b.closes[i]
      BY <1>4, <2>1
    <2>5. /\ \A i \in DOMAIN c.lots \ DOMAIN b.lots : i \notin DOMAIN view.lots
          /\ DOMAIN b.lots \subseteq DOMAIN c.lots
          /\ \A i \in DOMAIN c.lots, f \in Orders :
               c.closes[i][f] > 0 => i \in DOMAIN b.lots /\ (b.closes[i][f] > 0 \/ (f = o /\ i \in {}))
      BY <1>4
    <2> QED BY <1>6, <2>2, <2>3, <2>4, <2>5 DEF Extends
  <1>12. ASSUME NEW p \in Orders
         PROVE  /\ ParkedSum(c, p) = ParkedSum(b, p) + (IF p = o THEN rest ELSE 0)
                /\ LotSum(c, p) = LotSum(b, p)
    <2> DEFINE f == [a \in D |-> InParked(b, p, a)]
               g == [a \in D \cup {n} |-> InParked(c, p, a)]
    <2>1. ParkedSum(b, p) = SumFunctionOnSet(f, D) /\ ParkedSum(b, p) \in Nat
      BY ParkedSumIs
    <2>2. ParkedSum(c, p) = SumFunctionOnSet(g, D \cup {n})
      BY <1>6, <1>8, ParkedSumIs
    <2>3. \A a \in D \cup {n} : g[a] \in Int
      <3>1. \A a \in D \cup {n} : InParked(c, p, a) \in Nat
        BY <1>6, <1>8, InParkedType
      <3> QED BY <3>1
    <2>4. g[n] = IF p = o THEN rest ELSE 0
      <3>1. g[n] = InParked(c, p, n)
        OBVIOUS
      <3> QED BY <1>3, <1>6, <3>1 DEF InParked
    <2>5. \A a \in D : f[a] = g[a]
      BY <1>6 DEF InParked
    <2>6. (D \cup {n}) \ {n} = D /\ IsFiniteSet(D)
      BY <1>1 DEF LotTypes
    <2> HIDE DEF f, g, D
    <2>7. SumFunctionOnSet(g, D \cup {n}) = g[n] + SumFunctionOnSet(g, D)
      BY <1>7, <2>3, <2>6, SumTake
    <2>8. SumFunctionOnSet(f, D) = SumFunctionOnSet(g, D)
      BY <2>5, <2>6, SumSame
    <2>9. ParkedSum(c, p) = g[n] + ParkedSum(b, p)
      BY <2>1, <2>2, <2>7, <2>8
    <2>10. LotSum(c, p) = LotSum(b, p)
      BY <1>4 DEF LotSum, InLots
    <2> DEFINE s == ParkedSum(b, p)
    <2> HIDE DEF s
    <2>11. s \in Nat /\ ParkedSum(c, p) = g[n] + s
      BY <2>1, <2>9 DEF s
    <2>12. ParkedSum(c, p) = s + (IF p = o THEN rest ELSE 0)
      BY <2>4, <2>11
    <2> QED BY <2>10, <2>12 DEF s
  <1> QED BY <1>8, <1>10, <1>11, <1>12 DEF c, n, x

LEMMA OpenOrPark ==
  ASSUME NEW b, HasLedger(b), LotTypes(b), LotTypes(view), Balanced(b),
         NEW o \in Orders, NEW rest \in Nat, NEW at \in Time
  PROVE  LET c == open_or_park(b, o, rest, at)
         IN  /\ LotTypes(c) /\ Balanced(c) /\ Extends(b, c, {}, o, at)
             /\ \A p \in Orders :
                  LotSum(c, p) + ParkedSum(c, p)
                    = LotSum(b, p) + ParkedSum(b, p) + (IF p = o THEN rest ELSE 0)
  <1> DEFINE c == open_or_park(b, o, rest, at)
  <1>1. \A p \in Orders : LotSum(b, p) \in Nat /\ ParkedSum(b, p) \in Nat
    BY LotSumIs, ParkedSumIs
  <1>2. CASE rest = 0
    <2>1. c = b
      BY <1>2 DEF open_or_park
    <2>2. Extends(b, b, {}, o, at)
      BY ExtendsSelf
    <2> HIDE DEF c
    <2> QED BY <1>1, <1>2, <2>1, <2>2 DEF c
  <1>3. CASE rest # 0 /\ Strategy[o] = NoStrategy
    <2>1. c = Park(b, NewAnomaly(b), [order |-> o, qty |-> rest, at |-> at, open |-> TRUE, fails |-> 0])
      BY <1>3 DEF open_or_park, Park
    <2> HIDE DEF c
    <2>2. LotTypes(c) /\ Balanced(c) /\ Extends(b, c, {}, o, at)
      BY <2>1, ParkIs
    <2>3. ASSUME NEW p \in Orders
          PROVE  LotSum(c, p) + ParkedSum(c, p)
                    = LotSum(b, p) + ParkedSum(b, p) + (IF p = o THEN rest ELSE 0)
      <3>1. /\ ParkedSum(c, p) = ParkedSum(b, p) + (IF p = o THEN rest ELSE 0)
            /\ LotSum(c, p) = LotSum(b, p)
        BY <2>1, ParkIs
      <3> QED BY <1>1, <3>1
    <2> QED BY <2>2, <2>3 DEF c
  <1>4. CASE rest # 0 /\ Strategy[o] # NoStrategy
    <2>1. c = AddLot(b, NewLot(b), [order |-> o, orig |-> rest, open |-> rest, opened |-> at])
      BY <1>4 DEF open_or_park, AddLot
    <2> HIDE DEF c
    <2>2. LotTypes(c) /\ Balanced(c) /\ Extends(b, c, {}, o, at)
      BY <2>1, AddLotIs
    <2>3. ASSUME NEW p \in Orders
          PROVE  LotSum(c, p) + ParkedSum(c, p)
                    = LotSum(b, p) + ParkedSum(b, p) + (IF p = o THEN rest ELSE 0)
      <3>1. /\ LotSum(c, p) = LotSum(b, p) + (IF p = o THEN rest ELSE 0)
            /\ ParkedSum(c, p) = ParkedSum(b, p)
        BY <2>1, AddLotIs
      <3> QED BY <1>1, <3>1
    <2> QED BY <2>2, <2>3 DEF c
  <1> QED BY <1>2, <1>3, <1>4

(* A fill's effect on the lots: every share of it is booked in one place.   *)
LEMMA ApplyFill ==
  ASSUME NEW b, HasLedger(b), LotTypes(b), LotTypes(view), Balanced(b),
         NEW o \in Orders, NEW qty \in Nat, NEW at \in Time, NEW sees
  PROVE  LET c == apply_fill_to_lots(b, o, qty, at, sees)
         IN  /\ LotTypes(c) /\ Balanced(c) /\ Extends(b, c, open_lots(b, o, at, sees), o, at)
             /\ \A p \in Orders :
                  LotSum(c, p) + ParkedSum(c, p)
                    = LotSum(b, p) + ParkedSum(b, p) + (IF p = o THEN qty ELSE 0)
  <1> DEFINE m == open_lots(b, o, at, sees)
             d == Consume(b, o, qty, m)
             rest == Remaining(b, qty, m)
             c == open_or_park(d, o, rest, at)
  <1>1. m \in SUBSET DOMAIN b.lots
    BY DEF open_lots
  <1>2. apply_fill_to_lots(b, o, qty, at, sees) = c
    BY DEF apply_fill_to_lots
  <1> HIDE DEF m
  <1>3. rest \in 0 .. qty
    BY <1>1, LotsMayBeConsumed, RemainingIs
  <1>4. LotTypes(d) /\ Extends(b, d, m, o, at) /\ d.parked = b.parked
    BY <1>1, ConsumeLots
  <1>5. Balanced(d)
    BY <1>1, ConsumeBalanced
  <1>6. HasLedger(d)
    BY ConsumeKeepsLedger
  <1>7. \A p \in Orders : LotSum(d, p) = LotSum(b, p) + (IF p = o THEN qty - rest ELSE 0)
    BY <1>1, ConsumeSum
  <1>8. \A p \in Orders : ParkedSum(d, p) = ParkedSum(b, p)
    BY <1>4 DEF ParkedSum, InParked
  <1> HIDE DEF d, rest
  <1>9. rest \in Nat
    BY <1>3
  <1>10. /\ LotTypes(c) /\ Balanced(c) /\ Extends(d, c, {}, o, at)
         /\ \A p \in Orders :
              LotSum(c, p) + ParkedSum(c, p)
                = LotSum(d, p) + ParkedSum(d, p) + (IF p = o THEN rest ELSE 0)
    BY <1>4, <1>5, <1>6, <1>9, OpenOrPark
  <1> HIDE DEF c
  <1>11. Extends(b, c, m, o, at)
    <2>1. {} \in SUBSET m
      OBVIOUS
    <2> QED BY <1>1, <1>4, <1>10, <2>1, ExtendsMore
  <1>12. ASSUME NEW p \in Orders
         PROVE  LotSum(c, p) + ParkedSum(c, p)
                  = LotSum(b, p) + ParkedSum(b, p) + (IF p = o THEN qty ELSE 0)
    <2> DEFINE x == LotSum(b, p)
               y == ParkedSum(b, p)
    <2>1. x \in Nat /\ y \in Nat
      BY LotSumIs, ParkedSumIs
    <2>2. LotSum(c, p) + ParkedSum(c, p)
            = (x + (IF p = o THEN qty - rest ELSE 0)) + y + (IF p = o THEN rest ELSE 0)
      BY <1>7, <1>8, <1>10
    <2> HIDE DEF x, y
    <2>3. (x + (IF p = o THEN qty - rest ELSE 0)) + y + (IF p = o THEN rest ELSE 0)
            = x + y + (IF p = o THEN qty ELSE 0)
      BY <1>9, <2>1
    <2> QED BY <2>2, <2>3 DEF x, y
  <1> QED BY <1>2, <1>10, <1>11, <1>12 DEF m

(* A book in which every booked share has one place, and every lot its own. *)
Sound(b) == LotTypes(b) /\ Accounted(b) /\ Balanced(b)

LEMMA AccountedIs ==
  \A b : Accounted(b) <=> \A p \in Orders : b.booked[p] = LotSum(b, p) + ParkedSum(b, p)
  BY DEF Accounted, LotSum, ParkedSum

(* A Fill row, and the lots it is for.                                      *)
LEMMA RecordFillLots ==
  ASSUME NEW b, HasLedger(b), Sound(b), LotTypes(view),
         NEW o \in Orders, NEW qty \in Int, NEW at \in Time, NEW sees
  PROVE  LET c == record_fill(b, o, qty, at, sees)
         IN  Sound(c) /\ Extends(b, c, IF qty > 0 THEN open_lots(b, o, at, sees) ELSE {}, o, at)
  <1> DEFINE c == record_fill(b, o, qty, at, sees)
  <1>1. CASE qty <= 0
    <2>1. c = b
      BY <1>1 DEF record_fill
    <2> HIDE DEF c
    <2>2. Extends(b, b, {}, o, at)
      BY ExtendsSelf DEF Sound
    <2> QED BY <1>1, <2>1, <2>2 DEF c
  <1>2. CASE qty > 0
    <2> DEFINE d == apply_fill_to_lots(b, o, qty, at, sees)
               m == open_lots(b, o, at, sees)
    <2>1. qty \in Nat
      BY <1>2
    <2>2. /\ LotTypes(d) /\ Balanced(d) /\ Extends(b, d, m, o, at)
          /\ \A p \in Orders :
               LotSum(d, p) + ParkedSum(d, p)
                 = LotSum(b, p) + ParkedSum(b, p) + (IF p = o THEN qty ELSE 0)
      BY <2>1, ApplyFill DEF Sound
    <2>3. HasLedger(d) /\ d.booked = b.booked
      BY FillsKeepLedger
    <2>4. c = [d EXCEPT !.booked[o] = @ + qty]
      BY <1>2 DEF record_fill
    <2> HIDE DEF c, d, m
    <2>5. /\ c.lots = d.lots /\ c.closes = d.closes /\ c.parked = d.parked
          /\ c.booked = [b.booked EXCEPT ![o] = @ + qty]
      BY <2>3, <2>4 DEF HasLedger
    <2>6. LotTypes(c) /\ Balanced(c)
      BY <2>2, <2>5 DEF LotTypes, Balanced
    <2>7. Extends(b, c, m, o, at)
      BY <2>2, <2>5 DEF Extends
    <2>8. \A p \in Orders : LotSum(c, p) = LotSum(d, p) /\ ParkedSum(c, p) = ParkedSum(d, p)
      BY <2>5 DEF LotSum, ParkedSum, InLots, InParked
    <2>9. ASSUME NEW p \in Orders
          PROVE  c.booked[p] = LotSum(c, p) + ParkedSum(c, p)
      <3>1. c.booked[p] = b.booked[p] + (IF p = o THEN qty ELSE 0)
        <4>1. b.booked \in [Orders -> Nat]
          BY DEF HasLedger
        <4> QED BY <2>1, <2>5, <4>1
      <3>2. b.booked[p] = LotSum(b, p) + ParkedSum(b, p)
        BY AccountedIs DEF Sound
      <3> QED BY <2>2, <2>8, <3>1, <3>2
    <2>10. Accounted(c)
      BY <2>9, AccountedIs
    <2> QED BY <1>2, <2>6, <2>7, <2>10 DEF Sound, c, m
  <1> QED BY <1>1, <1>2

(* A snapshot touches nothing but the row.                                  *)
SameLots(b, c) == c.booked = b.booked /\ c.lots = b.lots /\ c.closes = b.closes /\ c.parked = b.parked

LEMMA SnapshotKeepsLots ==
  ASSUME NEW b, HasLedger(b), NEW o \in Orders, NEW filled, NEW final
  PROVE  SameLots(b, apply_snapshot(b, o, filled, final))
  BY DEF SameLots, apply_snapshot, HasLedger

LEMMA SameLotsAre ==
  ASSUME NEW b, NEW c, SameLots(b, c)
  PROVE  /\ LotTypes(b) => LotTypes(c)
         /\ Balanced(b) => Balanced(c)
         /\ Sound(b) => Sound(c)
         /\ \A d, m, o, at : Extends(d, b, m, o, at) => Extends(d, c, m, o, at)
  <1>1. LotTypes(b) => LotTypes(c)
    BY DEF SameLots, LotTypes
  <1>2. Balanced(b) => Balanced(c)
    BY DEF SameLots, Balanced
  <1>3. Accounted(b) => Accounted(c)
    BY DEF SameLots, Accounted, InLots, InParked
  <1>4. \A d, m, o, at : Extends(d, b, m, o, at) => Extends(d, c, m, o, at)
    BY DEF SameLots, Extends
  <1> QED BY <1>1, <1>2, <1>3, <1>4 DEF Sound

LEMMA ExtendsWeaken ==
  ASSUME NEW b, NEW c, NEW m, NEW k \in SUBSET m, NEW o, NEW at, Extends(b, c, k, o, at)
  PROVE  Extends(b, c, m, o, at)
  BY DEF Extends

(* After a fill no lot is open to its order that was not before.            *)
LEMMA FewerToClose ==
  ASSUME NEW b, NEW c, NEW m, NEW o, NEW at, LotTypes(b), LotTypes(c), Extends(b, c, m, o, at),
         NEW sees \in SUBSET DOMAIN b.lots
  PROVE  open_lots(c, o, at, sees) \subseteq open_lots(b, o, at, sees)
  <1> SUFFICES ASSUME NEW i \in open_lots(c, o, at, sees) PROVE i \in open_lots(b, o, at, sees)
    OBVIOUS
  <1>1. i \in DOMAIN b.lots /\ i \in DOMAIN c.lots /\ i \in sees
    BY DEF open_lots
  <1>2. b.lots[i].open \in Nat /\ c.lots[i].open \in Nat /\ c.lots[i].open > 0
    BY <1>1 DEF LotTypes, Lot, open_lots
  <1>3. c.lots[i].order = b.lots[i].order /\ c.lots[i].opened = b.lots[i].opened
    BY <1>1 DEF Extends
  <1>4. c.lots[i].open <= b.lots[i].open
    BY <1>1 DEF Extends
  <1>5. b.lots[i].open > 0
    BY <1>2, <1>4
  <1> QED BY <1>1, <1>3, <1>5 DEF open_lots

(* Both parts of an event: the missed span and the execution itself.        *)
LEMMA RecordExecutionLots ==
  ASSUME NEW b, HasLedger(b), Sound(b), LotTypes(view), NEW u \in Update,
         NEW sees \in SUBSET DOMAIN b.lots
  PROVE  LET c == record_execution(b, u, sees)
         IN  Sound(c) /\ Extends(b, c, open_lots(b, u.order, u.at, sees), u.order, u.at)
  <1> DEFINE o == u.order
             at == u.at
             gap == Gap(b, u)
             eff == Effective(b, u)
             d == record_fill(b, o, gap, at, sees)
             c == record_fill(d, o, eff, at, sees)
             m == open_lots(b, o, at, sees)
             k == open_lots(d, o, at, sees)
  <1>1. o \in Orders /\ u.qty \in Nat /\ u.cum \in Nat /\ at \in Time
    BY DEF Update
  <1>2. gap \in Nat /\ eff \in Nat
    BY GapAndEffective
  <1>3. m \in SUBSET DOMAIN b.lots
    BY DEF open_lots
  <1>4. record_execution(b, u, sees) = c
    BY DEF record_execution
  <1> HIDE DEF gap, eff
  <1>5. Sound(d) /\ Extends(b, d, IF gap > 0 THEN m ELSE {}, o, at)
    <2> HIDE DEF o, at
    <2> QED BY <1>1, <1>2, RecordFillLots
  <1>6. HasLedger(d)
    <2> HIDE DEF o, at
    <2>1. gap \in Int
      BY <1>2
    <2> QED BY <1>1, <2>1, RecordFillBooks
  <1> HIDE DEF d
  <1>7. Sound(c) /\ Extends(d, c, IF eff > 0 THEN k ELSE {}, o, at)
    <2> HIDE DEF o, at
    <2> QED BY <1>1, <1>2, <1>5, <1>6, RecordFillLots
  <1> HIDE DEF c, m, k, o, at
  <1>8. LotTypes(b) /\ LotTypes(d) /\ LotTypes(c)
    BY <1>5, <1>7 DEF Sound
  <1>9. Extends(b, d, m, o, at)
    <2>1. (IF gap > 0 THEN m ELSE {}) \in SUBSET m
      OBVIOUS
    <2> QED BY <1>5, <2>1, ExtendsWeaken
  <1>10. k \subseteq m
    BY <1>8, <1>9, FewerToClose DEF k, m
  <1>11. (IF eff > 0 THEN k ELSE {}) \in SUBSET m
    BY <1>10
  <1>12. Extends(b, c, m, o, at)
    BY <1>3, <1>7, <1>8, <1>9, <1>11, ExtendsMore
  <1> QED BY <1>4, <1>7, <1>12 DEF m, o, at

-----------------------------------------------------------------------------
(* The invariant of the lots.                                               *)

(* c is, lot by lot and remainder by remainder, the writer's commit where   *)
(* the writer locked or inserted it, and the reconcile's view elsewhere.    *)
Mine(new, held) == held \cup (DOMAIN new.lots \ DOMAIN book.lots)
Fresh(new) == DOMAIN new.parked \ DOMAIN book.parked

Merged(c, new, held, o) ==
  /\ DOMAIN c.lots = DOMAIN view.lots \cup Mine(new, held)
  /\ DOMAIN c.parked = DOMAIN view.parked \cup Fresh(new)
  /\ \A i \in Mine(new, held) : c.lots[i] = new.lots[i] /\ c.closes[i] = new.closes[i]
  /\ \A i \in DOMAIN view.lots \ Mine(new, held) :
       c.lots[i] = view.lots[i] /\ c.closes[i] = view.closes[i]
  /\ \A a \in Fresh(new) : c.parked[a] = new.parked[a]
  /\ \A a \in DOMAIN view.parked : c.parked[a] = view.parked[a]
  /\ c.booked = [view.booked EXCEPT ![o] = new.booked[o]]
  /\ c.row = [view.row EXCEPT ![o] = new.row[o]]

LEMMA SeenIs ==
  ASSUME LotTypes(book), LotTypes(view), SharedLots, SharedParked,
         NEW held \in SUBSET DOMAIN book.lots, held = w.held, held \cap r.held = {},
         NEW new, LotTypes(new), NEW u, NEW at, Extends(book, new, held, u.order, at)
  PROVE  /\ Merged(Seen(new, u), new, held, u.order) /\ LotTypes(Seen(new, u))
         /\ Mine(new, held) \in SUBSET DOMAIN new.lots
  <1> DEFINE mine == held \cup (DOMAIN new.lots \ DOMAIN book.lots)
             fresh == DOMAIN new.parked \ DOMAIN book.parked
             c == Seen(new, u)
             D == DOMAIN view.lots \cup mine
             P == DOMAIN view.parked \cup fresh
  <1>1. /\ c.booked = [view.booked EXCEPT ![u.order] = new.booked[u.order]]
        /\ c.row = [view.row EXCEPT ![u.order] = new.row[u.order]]
        /\ c.lots = [i \in D |-> IF i \in mine THEN new.lots[i] ELSE view.lots[i]]
        /\ c.closes = [i \in D |-> [p \in Orders |->
                          Closes(view, i)[p] + Closes(new, i)[p] - Closes(book, i)[p]]]
        /\ c.parked = [a \in P |-> IF a \in fresh THEN new.parked[a] ELSE view.parked[a]]
    BY DEF Seen
  <1> HIDE DEF c
  <1>2. /\ DOMAIN book.closes = DOMAIN book.lots /\ DOMAIN view.closes = DOMAIN view.lots
        /\ DOMAIN new.closes = DOMAIN new.lots
        /\ \A i \in DOMAIN book.lots : book.closes[i] \in [Orders -> Nat]
        /\ \A i \in DOMAIN view.lots : view.closes[i] \in [Orders -> Nat]
        /\ \A i \in DOMAIN new.lots : new.closes[i] \in [Orders -> Nat]
    BY DEF LotTypes
  <1>3. /\ DOMAIN book.lots \subseteq DOMAIN view.lots /\ DOMAIN book.lots \subseteq DOMAIN new.lots
        /\ DOMAIN view.lots \cap DOMAIN new.lots = DOMAIN book.lots
    BY DEF Extends, SharedLots
  <1>4. ASSUME NEW i \in mine
        PROVE  c.lots[i] = new.lots[i] /\ c.closes[i] = new.closes[i]
    <2>1. c.lots[i] = new.lots[i]
      BY <1>1
    <2>2. c.closes[i] = [p \in Orders |-> Closes(view, i)[p] + Closes(new, i)[p] - Closes(book, i)[p]]
      BY <1>1
    <2>3. i \in DOMAIN new.lots /\ Closes(new, i) = new.closes[i]
      BY <1>2, <1>3 DEF Closes
    <2>4. Closes(view, i) = Closes(book, i) /\ Closes(view, i) \in [Orders -> Nat]
      <3>1. CASE i \in DOMAIN book.lots
        <4>1. i \notin r.held
          BY <3>1
        <4>2. view.closes[i] = book.closes[i]
          BY <3>1, <4>1 DEF SharedLots
        <4> QED BY <1>2, <1>3, <3>1, <4>2 DEF Closes
      <3>2. CASE i \notin DOMAIN book.lots
        <4>1. i \notin DOMAIN view.lots
          BY <1>3, <2>3, <3>2
        <4> QED BY <1>2, <3>2, <4>1 DEF Closes, NoCloses
      <3> QED BY <3>1, <3>2
    <2>5. \A p \in Orders : c.closes[i][p] = new.closes[i][p]
      <3> SUFFICES ASSUME NEW p \in Orders PROVE c.closes[i][p] = new.closes[i][p]
        OBVIOUS
      <3>1. c.closes[i][p] = Closes(view, i)[p] + new.closes[i][p] - Closes(view, i)[p]
        BY <2>2, <2>3, <2>4
      <3>2. new.closes[i][p] \in Nat /\ Closes(view, i)[p] \in Nat
        BY <1>2, <2>3, <2>4
      <3> QED BY <3>1, <3>2
    <2>6. c.closes[i] = [p \in Orders |-> c.closes[i][p]]
      BY <2>2
    <2> QED BY <1>2, <2>1, <2>3, <2>5, <2>6
  <1>5. ASSUME NEW i \in DOMAIN view.lots \ mine
        PROVE  c.lots[i] = view.lots[i] /\ c.closes[i] = view.closes[i]
    <2>1. c.lots[i] = view.lots[i]
      BY <1>1
    <2>2. c.closes[i] = [p \in Orders |-> Closes(view, i)[p] + Closes(new, i)[p] - Closes(book, i)[p]]
      BY <1>1
    <2>3. Closes(view, i) = view.closes[i]
      BY <1>2 DEF Closes
    <2>4. Closes(new, i) = Closes(book, i) /\ Closes(book, i) \in [Orders -> Nat]
      <3>1. CASE i \in DOMAIN book.lots
        <4>1. new.closes[i] = book.closes[i]
          BY <3>1 DEF Extends
        <4> QED BY <1>2, <1>3, <3>1, <4>1 DEF Closes
      <3>2. CASE i \notin DOMAIN book.lots
        <4>1. i \notin DOMAIN new.lots
          BY <1>3, <3>2
        <4> QED BY <1>2, <3>2, <4>1 DEF Closes, NoCloses
      <3> QED BY <3>1, <3>2
    <2>5. \A p \in Orders : c.closes[i][p] = view.closes[i][p]
      <3> SUFFICES ASSUME NEW p \in Orders PROVE c.closes[i][p] = view.closes[i][p]
        OBVIOUS
      <3>1. c.closes[i][p] = view.closes[i][p] + Closes(book, i)[p] - Closes(book, i)[p]
        BY <2>2, <2>3, <2>4
      <3>2. view.closes[i][p] \in Nat /\ Closes(book, i)[p] \in Nat
        BY <1>2, <2>4
      <3> QED BY <3>1, <3>2
    <2>6. c.closes[i] = [p \in Orders |-> c.closes[i][p]]
      BY <2>2
    <2> QED BY <1>2, <2>1, <2>5, <2>6
  <1>6. ASSUME NEW a \in DOMAIN view.parked
        PROVE  a \notin fresh /\ c.parked[a] = view.parked[a]
    <2>1. a \notin fresh
      BY DEF Extends
    <2> QED BY <1>1, <2>1
  <1>7. mine \in SUBSET DOMAIN new.lots /\ fresh \in SUBSET DOMAIN new.parked
    BY <1>3
  <1>8. LotTypes(c)
    <2>1. \A i \in D : c.lots[i] \in Lot /\ c.closes[i] \in [Orders -> Nat]
      <3>1. ASSUME NEW i \in mine PROVE c.lots[i] \in Lot /\ c.closes[i] \in [Orders -> Nat]
        BY <1>4, <1>7 DEF LotTypes
      <3>2. ASSUME NEW i \in DOMAIN view.lots \ mine
            PROVE  c.lots[i] \in Lot /\ c.closes[i] \in [Orders -> Nat]
        BY <1>5 DEF LotTypes
      <3> QED BY <3>1, <3>2
    <2>2. \A a \in P : c.parked[a] \in Anomaly
      BY <1>1, <1>7 DEF LotTypes
    <2>3. D \in SUBSET Nat /\ IsFiniteSet(D) /\ P \in SUBSET Nat /\ IsFiniteSet(P)
      <3>1. IsFiniteSet(mine) /\ IsFiniteSet(fresh)
        BY <1>7, FS_Subset DEF LotTypes
      <3> HIDE DEF mine, fresh
      <3> QED BY <1>7, <3>1, FS_Union DEF LotTypes
    <2> HIDE DEF D, P
    <2> QED BY <1>1, <2>1, <2>2, <2>3 DEF LotTypes
  <1> QED BY <1>1, <1>4, <1>5, <1>6, <1>7, <1>8 DEF c, Merged, Mine, Fresh

(* Two pairs of summands that add up to the same do so in sum.              *)
LEMMA SumTwo ==
  ASSUME NEW S, IsFiniteSet(S), NEW f, NEW g, NEW h, NEW k,
         \A i \in S : f[i] \in Int /\ g[i] \in Int /\ h[i] \in Int /\ k[i] \in Int
                      /\ f[i] + g[i] = h[i] + k[i]
  PROVE  SumFunctionOnSet(f, S) + SumFunctionOnSet(g, S) = SumFunctionOnSet(h, S) + SumFunctionOnSet(k, S)
  <1> DEFINE e == [i \in S |-> f[i] + g[i]]
  <1>1. /\ \A i \in S : f[i] \in Int /\ g[i] \in Int /\ e[i] = f[i] + g[i]
        /\ \A i \in S : h[i] \in Int /\ k[i] \in Int /\ e[i] = h[i] + k[i]
    OBVIOUS
  <1> HIDE DEF e
  <1>2. SumFunctionOnSet(e, S) = SumFunctionOnSet(f, S) + SumFunctionOnSet(g, S)
    BY <1>1, SumPlus
  <1>3. SumFunctionOnSet(e, S) = SumFunctionOnSet(h, S) + SumFunctionOnSet(k, S)
    BY <1>1, SumPlus
  <1> QED BY <1>2, <1>3

(* The sums of a book, over a larger set of ids.                            *)
LotOver(b, p, D) == [i \in D |-> IF i \in DOMAIN b.lots THEN InLots(b, p, i) ELSE 0]
ParkedOver(b, p, D) == [a \in D |-> IF a \in DOMAIN b.parked THEN InParked(b, p, a) ELSE 0]

LEMMA LotSumOver ==
  ASSUME NEW b, LotTypes(b), NEW p \in Orders, NEW D, IsFiniteSet(D), DOMAIN b.lots \subseteq D
  PROVE  LotSum(b, p) = SumFunctionOnSet(LotOver(b, p, D), D)
  <1> DEFINE f == LotOver(b, p, D)
             T == DOMAIN b.lots
             g == [i \in T |-> InLots(b, p, i)]
  <1>1. \A i \in D : f[i] \in Int
    <2>1. \A i \in T : InLots(b, p, i) \in Nat
      BY InLotsType
    <2> QED BY <2>1 DEF LotOver
  <1>2. (\A i \in D \ T : f[i] = 0) /\ \A i \in T : g[i] = f[i]
    BY DEF LotOver
  <1>3. IsFiniteSet(T)
    BY DEF LotTypes
  <1>4. LotSum(b, p) = SumFunctionOnSet(g, T)
    BY LotSumIs
  <1> HIDE DEF f, g, T
  <1>5. SumFunctionOnSet(f, D) = SumFunctionOnSet(f, T)
    BY <1>1, <1>2, SumExtend DEF T
  <1>6. SumFunctionOnSet(g, T) = SumFunctionOnSet(f, T)
    BY <1>2, <1>3, SumSame
  <1> QED BY <1>4, <1>5, <1>6 DEF f

LEMMA ParkedSumOver ==
  ASSUME NEW b, LotTypes(b), NEW p \in Orders, NEW D, IsFiniteSet(D), DOMAIN b.parked \subseteq D
  PROVE  ParkedSum(b, p) = SumFunctionOnSet(ParkedOver(b, p, D), D)
  <1> DEFINE f == ParkedOver(b, p, D)
             T == DOMAIN b.parked
             g == [i \in T |-> InParked(b, p, i)]
  <1>1. \A i \in D : f[i] \in Int
    <2>1. \A i \in T : InParked(b, p, i) \in Nat
      BY InParkedType
    <2> QED BY <2>1 DEF ParkedOver
  <1>2. (\A i \in D \ T : f[i] = 0) /\ \A i \in T : g[i] = f[i]
    BY DEF ParkedOver
  <1>3. IsFiniteSet(T)
    BY DEF LotTypes
  <1>4. ParkedSum(b, p) = SumFunctionOnSet(g, T)
    BY ParkedSumIs
  <1> HIDE DEF f, g, T
  <1>5. SumFunctionOnSet(f, D) = SumFunctionOnSet(f, T)
    BY <1>1, <1>2, SumExtend DEF T
  <1>6. SumFunctionOnSet(g, T) = SumFunctionOnSet(f, T)
    BY <1>2, <1>3, SumSame
  <1> QED BY <1>4, <1>5, <1>6 DEF f

(* A commit moves the open reconcile's sums by what it moved its own.       *)
LEMMA SeenSums ==
  ASSUME LotTypes(book), LotTypes(view), SharedLots, SharedParked,
         w.held \in SUBSET DOMAIN book.lots, w.held \cap r.held = {},
         NEW new, LotTypes(new), Extends(book, new, w.held, w.u.order, w.u.at),
         NEW p \in Orders
  PROVE  /\ LotSum(Seen(new, w.u), p) + LotSum(book, p) = LotSum(view, p) + LotSum(new, p)
         /\ ParkedSum(Seen(new, w.u), p) + ParkedSum(book, p)
              = ParkedSum(view, p) + ParkedSum(new, p)
  <1> DEFINE held == w.held
             u == w.u
             mine == held \cup (DOMAIN new.lots \ DOMAIN book.lots)
             fresh == DOMAIN new.parked \ DOMAIN book.parked
             c == Seen(new, u)
             D == DOMAIN view.lots \cup mine
             P == DOMAIN view.parked \cup fresh
  <1>1. /\ DOMAIN c.lots = D /\ DOMAIN c.parked = P /\ LotTypes(c)
        /\ \A i \in mine : c.lots[i] = new.lots[i] /\ c.closes[i] = new.closes[i]
        /\ \A i \in DOMAIN view.lots \ mine :
             c.lots[i] = view.lots[i] /\ c.closes[i] = view.closes[i]
        /\ \A a \in fresh : c.parked[a] = new.parked[a]
        /\ \A a \in DOMAIN view.parked : c.parked[a] = view.parked[a]
    <2>1. Merged(c, new, held, u.order) /\ LotTypes(c)
      BY SeenIs
    <2> QED BY <2>1 DEF Merged, Mine, Fresh
  <1> HIDE DEF c
  <1>2. /\ DOMAIN book.lots \subseteq DOMAIN view.lots /\ DOMAIN book.lots \subseteq DOMAIN new.lots
        /\ DOMAIN view.lots \cap DOMAIN new.lots = DOMAIN book.lots
        /\ DOMAIN book.parked \subseteq DOMAIN view.parked
        /\ DOMAIN book.parked \subseteq DOMAIN new.parked
        /\ DOMAIN view.parked \cap DOMAIN new.parked = DOMAIN book.parked
    BY DEF Extends, SharedLots, SharedParked
  <1>3. /\ DOMAIN view.lots \subseteq D /\ DOMAIN new.lots \subseteq D /\ DOMAIN book.lots \subseteq D
        /\ DOMAIN view.parked \subseteq P /\ DOMAIN new.parked \subseteq P
        /\ DOMAIN book.parked \subseteq P
    BY <1>2
  <1>4. IsFiniteSet(D) /\ IsFiniteSet(P)
    BY <1>1 DEF LotTypes
  <1>5. ASSUME NEW i \in D
        PROVE  /\ LotOver(c, p, D)[i] \in Int /\ LotOver(book, p, D)[i] \in Int
               /\ LotOver(view, p, D)[i] \in Int /\ LotOver(new, p, D)[i] \in Int
               /\ LotOver(c, p, D)[i] + LotOver(book, p, D)[i]
                    = LotOver(view, p, D)[i] + LotOver(new, p, D)[i]
    <2>1. /\ i \in DOMAIN book.lots => InLots(book, p, i) \in Nat
          /\ i \in DOMAIN view.lots => InLots(view, p, i) \in Nat
          /\ i \in DOMAIN new.lots => InLots(new, p, i) \in Nat
          /\ InLots(c, p, i) \in Nat
      BY <1>1, InLotsType
    <2>2. CASE i \in mine
      <3>1. InLots(c, p, i) = InLots(new, p, i) /\ i \in DOMAIN new.lots
        BY <1>1, <1>2, <2>2 DEF InLots
      <3>2. i \in DOMAIN book.lots <=> i \in DOMAIN view.lots
        BY <1>2, <3>1
      <3>3. i \in DOMAIN book.lots => InLots(book, p, i) = InLots(view, p, i)
        <4> SUFFICES ASSUME i \in DOMAIN book.lots PROVE InLots(book, p, i) = InLots(view, p, i)
          OBVIOUS
        <4>1. i \notin r.held
          BY <2>2
        <4>2. view.lots[i] = book.lots[i] /\ view.closes[i] = book.closes[i]
          BY <4>1 DEF SharedLots
        <4> QED BY <4>2 DEF InLots
      <3> QED BY <1>1, <2>1, <3>1, <3>2, <3>3 DEF LotOver
    <2>3. CASE i \notin mine
      <3>1. i \in DOMAIN view.lots
        BY <2>3
      <3>2. InLots(c, p, i) = InLots(view, p, i)
        BY <1>1, <2>3, <3>1 DEF InLots
      <3>3. i \in DOMAIN book.lots <=> i \in DOMAIN new.lots
        BY <1>2, <2>3
      <3>4. i \in DOMAIN book.lots => InLots(book, p, i) = InLots(new, p, i)
        BY <2>3 DEF InLots, Extends
      <3> QED BY <1>1, <2>1, <3>1, <3>2, <3>3, <3>4 DEF LotOver
    <2> QED BY <2>2, <2>3
  <1>6. ASSUME NEW a \in P
        PROVE  /\ ParkedOver(c, p, P)[a] \in Int /\ ParkedOver(book, p, P)[a] \in Int
               /\ ParkedOver(view, p, P)[a] \in Int /\ ParkedOver(new, p, P)[a] \in Int
               /\ ParkedOver(c, p, P)[a] + ParkedOver(book, p, P)[a]
                    = ParkedOver(view, p, P)[a] + ParkedOver(new, p, P)[a]
    <2>1. /\ a \in DOMAIN book.parked => InParked(book, p, a) \in Nat
          /\ a \in DOMAIN view.parked => InParked(view, p, a) \in Nat
          /\ a \in DOMAIN new.parked => InParked(new, p, a) \in Nat
          /\ InParked(c, p, a) \in Nat
      BY <1>1, InParkedType
    <2>2. CASE a \in fresh
      <3>1. InParked(c, p, a) = InParked(new, p, a) /\ a \in DOMAIN new.parked
        BY <1>1, <2>2 DEF InParked
      <3>2. a \notin DOMAIN book.parked /\ a \notin DOMAIN view.parked
        BY <1>2, <2>2
      <3> QED BY <1>1, <2>1, <3>1, <3>2 DEF ParkedOver
    <2>3. CASE a \notin fresh
      <3>1. a \in DOMAIN view.parked
        BY <2>3
      <3>2. InParked(c, p, a) = InParked(view, p, a)
        BY <1>1, <3>1 DEF InParked
      <3>3. a \in DOMAIN book.parked <=> a \in DOMAIN new.parked
        BY <1>2, <2>3
      <3>4. a \in DOMAIN book.parked => InParked(book, p, a) = InParked(new, p, a)
        BY DEF InParked, Extends
      <3> QED BY <1>1, <2>1, <3>1, <3>2, <3>3, <3>4 DEF ParkedOver
    <2> QED BY <2>2, <2>3
  <1> HIDE DEF D, P, mine, fresh
  <1>7. LotSum(c, p) + LotSum(book, p) = LotSum(view, p) + LotSum(new, p)
    <2>1. /\ LotSum(c, p) = SumFunctionOnSet(LotOver(c, p, D), D)
          /\ LotSum(book, p) = SumFunctionOnSet(LotOver(book, p, D), D)
          /\ LotSum(view, p) = SumFunctionOnSet(LotOver(view, p, D), D)
          /\ LotSum(new, p) = SumFunctionOnSet(LotOver(new, p, D), D)
      BY <1>1, <1>3, <1>4, LotSumOver
    <2>2. SumFunctionOnSet(LotOver(c, p, D), D) + SumFunctionOnSet(LotOver(book, p, D), D)
            = SumFunctionOnSet(LotOver(view, p, D), D) + SumFunctionOnSet(LotOver(new, p, D), D)
      BY <1>4, <1>5, SumTwo
    <2> QED BY <2>1, <2>2
  <1>8. ParkedSum(c, p) + ParkedSum(book, p) = ParkedSum(view, p) + ParkedSum(new, p)
    <2>1. /\ ParkedSum(c, p) = SumFunctionOnSet(ParkedOver(c, p, P), P)
          /\ ParkedSum(book, p) = SumFunctionOnSet(ParkedOver(book, p, P), P)
          /\ ParkedSum(view, p) = SumFunctionOnSet(ParkedOver(view, p, P), P)
          /\ ParkedSum(new, p) = SumFunctionOnSet(ParkedOver(new, p, P), P)
      BY <1>1, <1>3, <1>4, ParkedSumOver
    <2>2. SumFunctionOnSet(ParkedOver(c, p, P), P) + SumFunctionOnSet(ParkedOver(book, p, P), P)
            = SumFunctionOnSet(ParkedOver(view, p, P), P) + SumFunctionOnSet(ParkedOver(new, p, P), P)
      BY <1>4, <1>6, SumTwo
    <2> QED BY <2>1, <2>2
  <1> QED BY <1>7, <1>8 DEF c

LEMMA LotsInvSound ==
  ASSUME LotsInv
  PROVE  Sound(book) /\ Sound(view)
  BY DEF LotsInv, Sound, SharesAccounted

(* What the writer commits, as a fill of its order on the committed book.   *)
LEMMA WriterBooks ==
  ASSUME LedgerInv, LotsInv, w.pc = "commit",
         NEW new, new = apply_snapshot(record_execution(book, w.u, w.sees), w.u.order, w.u.cum, w.u.over)
  PROVE  /\ Sound(new) /\ Extends(book, new, w.held, w.u.order, w.u.at) /\ HasLedger(new)
         /\ Extends(book, new, WantedLots, w.u.order, w.u.at) /\ w.u \in stream
         /\ \/ new.row[w.u.order] = book.row[w.u.order]
            \/ new.row[w.u.order] = [filled |-> w.u.cum, final |-> w.u.over]
         /\ w.u \in Update /\ w.held \in SUBSET DOMAIN book.lots /\ w.held \cap r.held = {}
         /\ \A p \in Orders \ {w.u.order} : new.booked[p] = book.booked[p] /\ new.row[p] = book.row[p]
  <1> DEFINE u == w.u
             o == w.u.order
             exec == record_execution(book, u, w.sees)
  <1>1. w # IdleWriter /\ u \in Update /\ u \in stream
    BY DEF LedgerInv, LedgerTypes, Transactions, IdleWriter
  <1>2. w.sees \in SUBSET DOMAIN book.lots /\ w.held \in SUBSET DOMAIN book.lots
    BY <1>1 DEF LotsInv, PositionTypes
  <1>3. w.held \cap r.held = {} /\ WantedLots \in SUBSET w.held
    BY DEF LotsInv, SharedLots
  <1>4. HasLedger(book) /\ Sound(book) /\ LotTypes(view)
    BY LotsInvSound DEF LedgerInv, LedgerTypes, LotsInv
  <1>5. o \in Orders /\ u.cum \in Nat /\ u.over \in BOOLEAN
    BY <1>1 DEF Update
  <1>6. Sound(exec) /\ Extends(book, exec, open_lots(book, o, u.at, w.sees), o, u.at)
    BY <1>1, <1>2, <1>4, RecordExecutionLots
  <1>7. /\ HasLedger(exec) /\ exec.row = book.row
        /\ \A p \in Orders \ {o} : exec.booked[p] = book.booked[p]
    BY <1>1, <1>4, RecordExecutionBooks
  <1>8. Extends(book, exec, w.held, o, u.at)
    BY <1>3, <1>6, ExtendsWeaken DEF WantedLots
  <1>9. new = apply_snapshot(exec, o, u.cum, u.over)
    OBVIOUS
  <1> HIDE DEF exec
  <1>10. SameLots(exec, new)
    BY <1>5, <1>7, <1>9, SnapshotKeepsLots
  <1>11. /\ HasLedger(new) /\ new.booked = exec.booked
         /\ \A p \in Orders \ {o} : new.row[p] = exec.row[p]
         /\ new.row[o] = exec.row[o] \/ new.row[o] = [filled |-> u.cum, final |-> u.over]
    <2> DEFINE filled == u.cum
               final == u.over
    <2>1. filled \in Nat /\ final \in BOOLEAN
      BY <1>5
    <2>2. new = apply_snapshot(exec, o, filled, final)
      BY <1>9
    <2>3. o \in Orders
      BY <1>5
    <2> DEFINE next == apply_snapshot(exec, o, filled, final)
    <2> HIDE DEF filled, final, o, u
    <2>4. /\ HasLedger(next) /\ next.booked = exec.booked
          /\ \A p \in Orders \ {o} : next.row[p] = exec.row[p]
          /\ next.row[o] = exec.row[o] \/ next.row[o] = [filled |-> filled, final |-> final]
      BY <1>7, <2>1, <2>3, SnapshotKeepsLedger
    <2> HIDE DEF next
    <2> QED BY <2>2, <2>4 DEF next, filled, final
  <1>12. Sound(new) /\ Extends(book, new, w.held, o, u.at) /\ Extends(book, new, WantedLots, o, u.at)
    BY <1>6, <1>8, <1>10, SameLotsAre DEF WantedLots
  <1> QED BY <1>1, <1>2, <1>3, <1>7, <1>11, <1>12

LEMMA WriterCommitLotsInv ==
  ASSUME LedgerInv, LotsInv, WriterCommit
  PROVE  LotsInv'
  <1> DEFINE o == w.u.order
             new == book'
             held == w.held
  <1>1. /\ w.pc = "commit" /\ w' = IdleWriter /\ UNCHANGED <<broker, r>>
        /\ new = apply_snapshot(record_execution(book, w.u, w.sees), w.u.order, w.u.cum, w.u.over)
        /\ view' = Seen(new, w.u) /\ position' = w.pos + Booked(w.u)
    BY DEF WriterCommit
  <1>2. /\ Sound(new) /\ Extends(book, new, held, o, w.u.at) /\ HasLedger(new)
        /\ w.u \in Update /\ held \in SUBSET DOMAIN book.lots /\ held \cap r.held = {}
        /\ \A p \in Orders \ {o} : new.booked[p] = book.booked[p] /\ new.row[p] = book.row[p]
    BY <1>1, WriterBooks
  <1>3. LotTypes(book) /\ LotTypes(view) /\ SharedLots /\ SharedParked /\ LotTypes(new)
    BY <1>2 DEF LotsInv, Sound
  <1>4. HasLedger(book) /\ HasLedger(view) /\ o \in Orders /\ w # IdleWriter
    <2>1. HasLedger(book) /\ HasLedger(view)
      BY DEF LedgerInv, LedgerTypes
    <2>2. o \in Orders
      BY <1>2 DEF Update
    <2>3. w # IdleWriter
      BY <1>1 DEF IdleWriter
    <2> QED BY <2>1, <2>2, <2>3
  <1> HIDE DEF new
  <1>5. Merged(view', new, held, o) /\ LotTypes(view')
    <2>1. Merged(Seen(new, w.u), new, held, o) /\ LotTypes(Seen(new, w.u))
      BY <1>2, <1>3, SeenIs
    <2>2. view' = Seen(new, w.u)
      BY <1>1
    <2> HIDE DEF held, o
    <2> QED BY <2>1, <2>2
  <1>6. Mine(new, held) \in SUBSET DOMAIN new.lots
    BY <1>2, <1>3, SeenIs
  <1>7. \A p \in Orders :
          /\ LotSum(view', p) + LotSum(book, p) = LotSum(view, p) + LotSum(new, p)
          /\ ParkedSum(view', p) + ParkedSum(book, p) = ParkedSum(view, p) + ParkedSum(new, p)
    <2>1. ASSUME NEW p \in Orders
          PROVE  /\ LotSum(Seen(new, w.u), p) + LotSum(book, p) = LotSum(view, p) + LotSum(new, p)
                 /\ ParkedSum(Seen(new, w.u), p) + ParkedSum(book, p)
                      = ParkedSum(view, p) + ParkedSum(new, p)
      <3>1. /\ Extends(book, new, w.held, w.u.order, w.u.at)
            /\ w.held \in SUBSET DOMAIN book.lots /\ w.held \cap r.held = {}
        BY <1>2
      <3> HIDE DEF held, o
      <3> QED BY <1>3, <3>1, SeenSums
    <2>2. view' = Seen(new, w.u)
      BY <1>1
    <2> QED BY <2>1, <2>2
  <1>8. /\ DOMAIN book.lots \subseteq DOMAIN view.lots /\ DOMAIN book.lots \subseteq DOMAIN new.lots
        /\ DOMAIN view.lots \cap DOMAIN new.lots = DOMAIN book.lots
        /\ DOMAIN book.parked \subseteq DOMAIN view.parked
        /\ DOMAIN book.parked \subseteq DOMAIN new.parked
        /\ DOMAIN view.parked \cap DOMAIN new.parked = DOMAIN book.parked
    <2>1. /\ DOMAIN book.lots \subseteq DOMAIN new.lots
          /\ DOMAIN book.parked \subseteq DOMAIN new.parked
          /\ \A i \in DOMAIN new.lots \ DOMAIN book.lots : i \notin DOMAIN view.lots
          /\ \A a \in DOMAIN new.parked \ DOMAIN book.parked : a \notin DOMAIN view.parked
      BY <1>2 DEF Extends
    <2>2. DOMAIN book.lots \subseteq DOMAIN view.lots /\ DOMAIN book.parked \subseteq DOMAIN view.parked
      BY <1>3 DEF SharedLots, SharedParked
    <2> QED BY <2>1, <2>2
  <1>9. view.booked[o] = book.booked[o] /\ view.row[o] = book.row[o]
    BY <1>1, <1>4 DEF LedgerInv, RowsAreLocked, WriterHas
  <1>10. Accounted(view')
    <2>1. ASSUME NEW p \in Orders
          PROVE  view'.booked[p] = LotSum(view', p) + ParkedSum(view', p)
      <3> DEFINE lv == LotSum(view, p)   pv == ParkedSum(view, p)
                 lb == LotSum(book, p)   pb == ParkedSum(book, p)
                 ln == LotSum(new, p)    pn == ParkedSum(new, p)
                 lw == LotSum(view', p)  pw == ParkedSum(view', p)
      <3>1. /\ lv \in Nat /\ pv \in Nat /\ lb \in Nat /\ pb \in Nat /\ ln \in Nat /\ pn \in Nat
            /\ lw \in Nat /\ pw \in Nat
        BY <1>3, <1>5, LotSumIs, ParkedSumIs
      <3>2. view.booked[p] = lv + pv /\ book.booked[p] = lb + pb /\ new.booked[p] = ln + pn
        BY <1>2, LotsInvSound, AccountedIs DEF Sound
      <3>3. lw + lb = lv + ln /\ pw + pb = pv + pn
        BY <1>7
      <3>4. view'.booked[p] = IF p = o THEN new.booked[p] ELSE view.booked[p]
        BY <1>4, <1>5 DEF Merged, HasLedger
      <3>5. IF p = o THEN view.booked[p] = book.booked[p] ELSE new.booked[p] = book.booked[p]
        BY <1>2, <1>9
      <3> HIDE DEF lv, pv, lb, pb, ln, pn, lw, pw
      <3>6. view'.booked[p] = lw + pw
        BY <3>1, <3>2, <3>3, <3>4, <3>5
      <3> QED BY <3>6 DEF lw, pw
    <2> QED BY <2>1, AccountedIs
  <1>11. Balanced(view')
    <2>1. Balanced(new) /\ Balanced(view)
      BY <1>2 DEF Sound, LotsInv
    <2>2. ASSUME NEW i \in DOMAIN view'.lots
          PROVE  view'.lots[i].orig = view'.lots[i].open + SumFunction(view'.closes[i])
      <3>1. CASE i \in Mine(new, held)
        <4>1. view'.lots[i] = new.lots[i] /\ view'.closes[i] = new.closes[i] /\ i \in DOMAIN new.lots
          BY <1>5, <1>6, <3>1 DEF Merged
        <4> QED BY <2>1, <4>1 DEF Balanced
      <3>2. CASE i \notin Mine(new, held)
        <4>1. /\ view'.lots[i] = view.lots[i] /\ view'.closes[i] = view.closes[i]
              /\ i \in DOMAIN view.lots
          BY <1>5, <3>2 DEF Merged
        <4> QED BY <2>1, <4>1 DEF Balanced
      <3> QED BY <3>1, <3>2
    <2> QED BY <2>2 DEF Balanced
  <1>12. SharedLots'
    <2>1. r'.held \in SUBSET DOMAIN view'.lots /\ DOMAIN new.lots \in SUBSET DOMAIN view'.lots
      BY <1>1, <1>3, <1>5, <1>8 DEF Merged, Mine, SharedLots
    <2>2. ASSUME NEW i \in DOMAIN new.lots
          PROVE  /\ view'.lots[i].order = new.lots[i].order /\ view'.lots[i].orig = new.lots[i].orig
                 /\ view'.lots[i].opened = new.lots[i].opened /\ view'.lots[i].open <= new.lots[i].open
                 /\ i \notin r'.held => view'.lots[i] = new.lots[i] /\ view'.closes[i] = new.closes[i]
      <3>1. CASE i \in Mine(new, held)
        <4>1. view'.lots[i] = new.lots[i] /\ view'.closes[i] = new.closes[i]
          BY <1>5, <3>1 DEF Merged
        <4>2. new.lots[i].open \in Nat
          BY <1>3 DEF LotTypes, Lot
        <4> QED BY <4>1, <4>2
      <3>2. CASE i \notin Mine(new, held)
        <4>1. i \in DOMAIN book.lots /\ i \in DOMAIN view.lots /\ i \notin held
          BY <1>8, <3>2 DEF Mine
        <4>2. view'.lots[i] = view.lots[i] /\ view'.closes[i] = view.closes[i]
          BY <1>5, <3>2, <4>1 DEF Merged
        <4>3. new.lots[i] = book.lots[i] /\ new.closes[i] = book.closes[i]
          BY <1>2, <4>1 DEF Extends
        <4>4. r'.held = r.held
          BY <1>1
        <4> HIDE DEF held, o
        <4> QED BY <1>3, <4>1, <4>2, <4>3, <4>4 DEF SharedLots
      <3> QED BY <3>1, <3>2
    <2>3. w'.pc # "commit"
      BY <1>1 DEF IdleWriter
    <2> QED BY <2>1, <2>2, <2>3 DEF SharedLots, new
  <1>13. SharedParked'
    <2>1. DOMAIN new.parked \in SUBSET DOMAIN view'.parked
      BY <1>5, <1>8 DEF Merged, Fresh
    <2>2. ASSUME NEW a \in DOMAIN new.parked
          PROVE  /\ view'.parked[a].order = new.parked[a].order
                 /\ view'.parked[a].qty = new.parked[a].qty /\ view'.parked[a].at = new.parked[a].at
      <3>1. CASE a \in Fresh(new)
        BY <1>5, <3>1 DEF Merged
      <3>2. CASE a \notin Fresh(new)
        <4>1. a \in DOMAIN book.parked /\ a \in DOMAIN view.parked
          BY <1>8, <3>2 DEF Fresh
        <4>2. view'.parked[a] = view.parked[a] /\ new.parked[a] = book.parked[a]
          BY <1>2, <1>5, <4>1 DEF Merged, Extends
        <4> QED BY <1>3, <4>1, <4>2 DEF SharedParked
      <3> QED BY <3>1, <3>2
    <2>3. r'.pc = "retry" => \A a \in r'.todo : a \in DOMAIN view'.parked /\ view'.parked[a].open
      BY <1>1, <1>3, <1>5 DEF Merged, SharedParked
    <2> QED BY <2>1, <2>2, <2>3 DEF SharedParked, new
  <1>14. PositionTypes'
    <2>1. Gap(book, w.u) \in Nat /\ Effective(book, w.u) \in Nat
      BY <1>2, <1>4, GapAndEffective
    <2>2. Booked(w.u) \in Int
      BY <2>1 DEF Booked, Signed
    <2>3. w.pos \in Int /\ r.list \in Int /\ r.at \in Time
      BY <1>4 DEF LotsInv, PositionTypes
    <2> QED BY <1>1, <2>2, <2>3 DEF PositionTypes
  <1>15. r'.pc = "idle" => view' = new
    <2> SUFFICES ASSUME r.pc = "idle" PROVE view' = new
      BY <1>1
    <2>1. view = book
      BY DEF LotsInv
    <2>2. DOMAIN view'.lots = DOMAIN new.lots /\ DOMAIN view'.parked = DOMAIN new.parked
      BY <1>5, <1>6, <1>8, <2>1 DEF Merged, Mine, Fresh
    <2>3. \A i \in DOMAIN new.lots : view'.lots[i] = new.lots[i] /\ view'.closes[i] = new.closes[i]
      BY <1>2, <1>5, <1>8, <2>1 DEF Merged, Mine, Extends
    <2>4. \A a \in DOMAIN new.parked : view'.parked[a] = new.parked[a]
      BY <1>2, <1>5, <1>8, <2>1 DEF Merged, Fresh, Extends
    <2>5. view'.lots = new.lots /\ view'.closes = new.closes /\ view'.parked = new.parked
      BY <1>3, <1>5, <2>2, <2>3, <2>4 DEF LotTypes
    <2>6. view'.booked = new.booked
      <3>1. view'.booked = [book.booked EXCEPT ![o] = new.booked[o]]
        BY <1>5, <2>1 DEF Merged
      <3> QED BY <1>2, <1>4, <3>1 DEF HasLedger
    <2>7. view'.row = new.row
      <3>1. view'.row = [book.row EXCEPT ![o] = new.row[o]]
        BY <1>5, <2>1 DEF Merged
      <3> QED BY <1>2, <1>4, <3>1 DEF HasLedger
    <2>8. view' = [booked |-> view'.booked, row |-> view'.row, lots |-> view'.lots,
                   closes |-> view'.closes, parked |-> view'.parked]
      BY <1>1 DEF Seen
    <2> QED BY <1>2, <2>5, <2>6, <2>7, <2>8 DEF HasLedger
  <1> QED BY <1>2, <1>5, <1>10, <1>11, <1>12, <1>13, <1>14, <1>15
          DEF LotsInv, SharesAccounted, Sound, new

LEMMA InitLotsInv == Init => LotsInv
  <1> SUFFICES ASSUME Init PROVE LotsInv
    OBVIOUS
  <1>1. /\ book.lots = <<>> /\ book.closes = <<>> /\ book.parked = <<>> /\ view = book
        /\ book.booked = [o \in Orders |-> 0]
        /\ w = IdleWriter /\ r = IdleReconcile /\ position = 0
    BY DEF Init
  <1>2. DOMAIN book.lots = {} /\ DOMAIN book.parked = {} /\ DOMAIN book.closes = {}
    BY <1>1
  <1>3. LotTypes(book)
    <2>1. IsFiniteSet({})
      BY FS_EmptySet
    <2> QED BY <1>1, <1>2, <2>1 DEF LotTypes
  <1>4. Accounted(book)
    <2>1. ASSUME NEW p \in Orders
          PROVE  book.booked[p] = LotSum(book, p) + ParkedSum(book, p)
      <3>1. LotSum(book, p) = 0
        BY <1>2, <1>3, LotSumIs, SumEmpty
      <3>2. ParkedSum(book, p) = 0
        BY <1>2, <1>3, ParkedSumIs, SumEmpty
      <3> QED BY <1>1, <3>1, <3>2
    <2> QED BY <2>1, AccountedIs
  <1>5. Balanced(book)
    BY <1>2 DEF Balanced
  <1>6. PositionTypes
    BY <1>1, BoundsAssumption DEF PositionTypes, IdleReconcile, Time
  <1>7. SharedLots /\ SharedParked
    BY <1>1, <1>2 DEF SharedLots, SharedParked, IdleReconcile, IdleWriter
  <1> QED BY <1>1, <1>3, <1>4, <1>5, <1>6, <1>7 DEF LotsInv, SharesAccounted

LEMMA NetType ==
  ASSUME NEW c \in [Orders -> Nat]
  PROVE  NetOf(c) \in Int
  <1> DEFINE f == [o \in Orders |-> Signed(o, c[o])]
  <1>1. \A o \in Orders : f[o] \in Int
    BY DEF Signed
  <1>2. NetOf(c) = SumFunctionOnSet(f, Orders)
    BY DEF NetOf, SumFunction
  <1> HIDE DEF f
  <1> QED BY <1>1, <1>2, SumType, OrdersAssumption

(* Steps that leave both books as they are.                                 *)
LEMMA KeepsLots ==
  ASSUME LotsInv, book' = book, view' = view, PositionTypes', r'.held = r.held,
         r'.pc = "idle" => r.pc = "idle",
         r'.pc = "retry" => \A a \in r'.todo : a \in DOMAIN view.parked /\ view.parked[a].open,
         w'.pc = "commit" => w'.held \cap r.held = {} /\ WantedLots' \in SUBSET w'.held
  PROVE  LotsInv'
  <1>1. LotTypes(book)' /\ LotTypes(view)' /\ SharesAccounted' /\ Balanced(book)' /\ Balanced(view)'
    BY DEF LotsInv, SharesAccounted
  <1>2. SharedLots'
    BY DEF LotsInv, SharedLots
  <1>3. SharedParked'
    BY DEF LotsInv, SharedParked
  <1> QED BY <1>1, <1>2, <1>3 DEF LotsInv

LEMMA BrokerStepLotsInv ==
  ASSUME LotsInv, BrokerStep
  PROVE  LotsInv'
  <1>1. UNCHANGED <<book, view, position, w, r>>
    BY DEF BrokerStep, Tick, BrokerCancel, BrokerFill
  <1>2. PositionTypes' /\ WantedLots' = WantedLots
    BY <1>1 DEF LotsInv, PositionTypes, WantedLots
  <1>3. /\ r.pc = "retry" => \A a \in r.todo : a \in DOMAIN view.parked /\ view.parked[a].open
        /\ w.pc = "commit" => w.held \cap r.held = {} /\ WantedLots \in SUBSET w.held
    BY DEF LotsInv, SharedParked, SharedLots
  <1> QED BY <1>1, <1>2, <1>3, KeepsLots

(* The reads of the reconcile.                                              *)
LEMMA ReadsLotsInv ==
  ASSUME LedgerInv, LotsInv,
         ReadAccount \/ (\E glitch \in BOOLEAN : ReadPositions(glitch)) \/ ReadOrders
           \/ ListDeficits \/ ListRemainders
  PROVE  LotsInv'
  <1>1. UNCHANGED <<broker, book, view, position, w>>
    BY DEF ReadAccount, ReadPositions, ReadOrders, ListDeficits, ListRemainders
  <1>2. r = [pc |-> r.pc, value |-> r.value, list |-> r.list, real |-> r.real, at |-> r.at,
             snap |-> r.snap, todo |-> r.todo, rows |-> r.rows, held |-> r.held]
    BY DEF LedgerInv, Transactions
  <1>3. Net \in Int /\ now \in Time
    BY NetType DEF Net, LedgerInv, LedgerTypes
  <1>4. r.list \in Int /\ r.at \in Time
    BY DEF LotsInv, PositionTypes
  <1>5. /\ r'.held = r.held /\ r'.list \in Int /\ r'.at \in Time /\ r'.pc # "idle"
        /\ r'.pc = "retry" => r'.todo = {a \in DOMAIN view.parked : view.parked[a].open}
    <2>1. CASE ReadAccount
      <3>1. PICK v : r' = [r EXCEPT !.pc = "positions", !.value = v]
        BY <2>1, Zenon DEF ReadAccount
      <3> QED BY <1>2, <1>4, <3>1
    <2>2. ASSUME NEW glitch \in BOOLEAN, ReadPositions(glitch)
          PROVE  /\ r'.held = r.held /\ r'.list \in Int /\ r'.at \in Time /\ r'.pc # "idle"
                 /\ r'.pc # "retry"
      <3> DEFINE n == IF glitch THEN 0 ELSE Net
      <3>1. n \in Int
        BY <1>3
      <3>2. r' = [r EXCEPT !.pc = "orders", !.list = n, !.real = cum]
        BY <2>2 DEF ReadPositions
      <3> HIDE DEF n
      <3> QED BY <1>2, <1>4, <3>1, <3>2
    <2>3. CASE ReadOrders
      <3>1. PICK snap, todo : r' = [r EXCEPT !.pc = "adopt", !.at = now, !.snap = snap, !.todo = todo]
        BY <2>3 DEF ReadOrders
      <3> QED BY <1>2, <1>3, <1>4, <3>1
    <2>4. CASE ListDeficits
      <3>1. PICK todo : r' = [r EXCEPT !.pc = "sweep", !.todo = todo]
        BY <2>4 DEF ListDeficits
      <3> QED BY <1>2, <1>4, <3>1
    <2>5. CASE ListRemainders
      <3>1. r' = [r EXCEPT !.pc = "retry", !.todo = {a \in DOMAIN view.parked : view.parked[a].open}]
        BY <2>5 DEF ListRemainders
      <3> QED BY <1>2, <1>4, <3>1
    <2> QED BY <2>1, <2>2, <2>3, <2>4, <2>5
  <1>6. PositionTypes' /\ WantedLots' = WantedLots
    BY <1>1, <1>5 DEF LotsInv, PositionTypes, WantedLots
  <1>7. w.pc = "commit" => w.held \cap r.held = {} /\ WantedLots \in SUBSET w.held
    BY DEF LotsInv, SharedLots
  <1> QED BY <1>1, <1>5, <1>6, <1>7, KeepsLots

(* The writer before it commits, and when it gives up.                      *)
LEMMA WriterStepLotsInv ==
  ASSUME LedgerInv, LotsInv,
         (\E u \in stream : Locate(u)) \/ LockLots \/ WriterConflict \/ WriterAbort
  PROVE  LotsInv'
  <1>1. UNCHANGED <<book, view, position, r>>
    BY DEF Locate, LockLots, WriterConflict, WriterAbort
  <1>2. r.pc = "retry" => \A a \in r.todo : a \in DOMAIN view.parked /\ view.parked[a].open
    BY DEF LotsInv, SharedParked
  <1>3. position \in Int /\ r.list \in Int /\ r.at \in Time
    BY DEF LotsInv, PositionTypes
  <1>4. CASE \E u \in stream : Locate(u)
    <2>1. PICK u \in stream : Locate(u)
      BY <1>4
    <2>2. w' = [pc |-> "lots", u |-> u, sees |-> DOMAIN book.lots, held |-> {}, pos |-> 0]
      BY <2>1 DEF Locate
    <2>3. PositionTypes'
      BY <1>1, <1>3, <2>2 DEF PositionTypes
    <2> QED BY <1>1, <1>2, <2>2, <2>3, KeepsLots
  <1>5. CASE LockLots
    <2>1. w.pc = "lots" /\ w = [pc |-> w.pc, u |-> w.u, sees |-> w.sees, held |-> w.held, pos |-> w.pos]
      BY <1>5 DEF LockLots, LedgerInv, Transactions, IdleWriter
    <2>2. /\ w' = [w EXCEPT !.pc = "commit", !.held = WantedLots, !.pos = position]
          /\ WantedLots \cap r.held = {}
      BY <1>5 DEF LockLots
    <2>3. w'.u = w.u /\ w'.sees = w.sees /\ w'.held = WantedLots /\ w'.pos = position
      BY <2>1, <2>2
    <2>4. WantedLots' = WantedLots /\ WantedLots \in SUBSET DOMAIN book.lots
      BY <1>1, <2>3 DEF WantedLots, open_lots
    <2>5. w # IdleWriter
      BY <2>1 DEF IdleWriter
    <2>6. PositionTypes'
      BY <1>1, <1>3, <2>3, <2>4, <2>5 DEF LotsInv, PositionTypes
    <2> QED BY <1>1, <1>2, <2>2, <2>3, <2>4, <2>6, KeepsLots
  <1>6. CASE WriterConflict \/ WriterAbort
    <2>1. w' = IdleWriter
      BY <1>6 DEF WriterConflict, WriterAbort
    <2>2. PositionTypes' /\ w'.pc # "commit"
      BY <1>1, <1>3, <2>1 DEF PositionTypes, IdleWriter
    <2> QED BY <1>1, <1>2, <2>2, KeepsLots
  <1> QED BY <1>4, <1>5, <1>6

(* Adopting an order locks the lots that its missed shares close.           *)
LEMMA AdoptIntoLotsInv ==
  ASSUME LedgerInv, LotsInv, NEW o \in Orders, NEW target \in Nat, NEW stamp \in Time, NEW final,
         r.pc \in {"adopt", "sweep"}, AdoptInto(view, o, target, final, stamp)
  PROVE  LotsInv'
  <1> DEFINE missed == target - view.booked[o]
             m == open_lots(view, o, stamp, DOMAIN view.lots)
             k == IF missed > 0 THEN m ELSE {}
             filled == record_fill(view, o, missed, stamp, DOMAIN view.lots)
  <1>1. HasLedger(view) /\ Sound(view) /\ LotTypes(view) /\ missed \in Int
    <2>1. HasLedger(view) /\ view.booked \in [Orders -> Nat]
      BY DEF LedgerInv, LedgerTypes, HasLedger
    <2> QED BY <2>1, LotsInvSound DEF LotsInv
  <1>2. /\ UNCHANGED <<broker, book, position, w>>
        /\ view' = apply_snapshot(filled, o, target, final)
        /\ missed > 0 => m \cap WriterHeld = {}
        /\ r' = [r EXCEPT !.todo = @ \ {o}, !.rows = @ \cup {o},
                          !.held = IF missed > 0 THEN @ \cup m ELSE @]
    BY DEF AdoptInto
  <1>3. m \in SUBSET DOMAIN view.lots
    BY DEF open_lots
  <1> HIDE DEF missed, m
  <1>4. Sound(filled) /\ Extends(view, filled, k, o, stamp)
    BY <1>1, RecordFillLots DEF missed, m
  <1>5. HasLedger(filled)
    BY <1>1, RecordFillBooks
  <1> HIDE DEF filled
  <1>6. SameLots(filled, view')
    BY <1>2, <1>5, SnapshotKeepsLots
  <1>7. Sound(view') /\ Extends(view, view', k, o, stamp)
    BY <1>4, <1>6, SameLotsAre
  <1>8. r'.pc = r.pc /\ r'.held = r.held \cup k /\ r'.list = r.list /\ r'.at = r.at
    <2>1. r = [pc |-> r.pc, value |-> r.value, list |-> r.list, real |-> r.real, at |-> r.at,
               snap |-> r.snap, todo |-> r.todo, rows |-> r.rows, held |-> r.held]
      BY DEF LedgerInv, Transactions
    <2> QED BY <1>2, <2>1
  <1>9. k \cap WriterHeld = {}
    BY <1>2
  <1> HIDE DEF k
  <1>10. SharedLots'
    <2>1. /\ r.held \in SUBSET DOMAIN view.lots /\ DOMAIN book.lots \in SUBSET DOMAIN view.lots
          /\ DOMAIN view.lots \subseteq DOMAIN view'.lots
      BY <1>7 DEF LotsInv, SharedLots, Extends
    <2>2. r'.held \in SUBSET DOMAIN view'.lots /\ DOMAIN book.lots \in SUBSET DOMAIN view'.lots
      BY <1>3, <1>8, <2>1 DEF k
    <2>3. ASSUME NEW i \in DOMAIN book.lots
          PROVE  /\ view'.lots[i].order = book.lots[i].order /\ view'.lots[i].orig = book.lots[i].orig
                 /\ view'.lots[i].opened = book.lots[i].opened /\ view'.lots[i].open <= book.lots[i].open
                 /\ i \notin r'.held => view'.lots[i] = book.lots[i] /\ view'.closes[i] = book.closes[i]
      <3>1. i \in DOMAIN view.lots /\ i \in DOMAIN view'.lots
        BY <2>1
      <3>2. book.lots[i].open \in Nat /\ view.lots[i].open \in Nat /\ view'.lots[i].open \in Nat
        BY <1>1, <1>7, <3>1 DEF Sound, LotTypes, Lot, LotsInv
      <3>3. /\ view'.lots[i].open <= view.lots[i].open /\ view.lots[i].open <= book.lots[i].open
            /\ view'.lots[i].order = view.lots[i].order /\ view'.lots[i].orig = view.lots[i].orig
            /\ view'.lots[i].opened = view.lots[i].opened
            /\ i \notin k => view'.lots[i] = view.lots[i] /\ view'.closes[i] = view.closes[i]
        BY <1>7, <3>1 DEF Extends, LotsInv, SharedLots
      <3>4. view'.lots[i].open <= book.lots[i].open
        BY <3>2, <3>3
      <3> QED BY <1>8, <3>3, <3>4 DEF LotsInv, SharedLots
    <2>4. w.pc = "commit" => w.held \cap r'.held = {} /\ WantedLots \in SUBSET w.held
      BY <1>8, <1>9 DEF LotsInv, SharedLots, WriterHeld
    <2>5. WantedLots' = WantedLots
      BY <1>2 DEF WantedLots
    <2> QED BY <1>2, <2>2, <2>3, <2>4, <2>5 DEF SharedLots
  <1>11. SharedParked'
    <2>1. /\ DOMAIN view.parked \subseteq DOMAIN view'.parked
          /\ \A a \in DOMAIN view.parked : view'.parked[a] = view.parked[a]
      BY <1>7 DEF Extends
    <2>2. r'.pc # "retry"
      BY <1>8
    <2> QED BY <1>2, <2>1, <2>2 DEF LotsInv, SharedParked
  <1>12. PositionTypes'
    BY <1>2, <1>8 DEF LotsInv, PositionTypes
  <1>13. LotTypes(book)' /\ Accounted(book)' /\ Balanced(book)' /\ r'.pc # "idle"
    BY <1>2, <1>8 DEF LotsInv, SharesAccounted
  <1> QED BY <1>7, <1>10, <1>11, <1>12, <1>13 DEF LotsInv, SharesAccounted, Sound

(* The stamp of an order that the broker reports.                           *)
LEMMA StampType ==
  ASSUME LedgerTypes, NEW o \in Orders, NEW t \in Time
  PROVE  /\ FilledAt(o, t) \in Time
         /\ Filled(o) => FilledAt(o, t) \in Prints(o) /\ \A s \in Prints(o) : s <= FilledAt(o, t)
  <1>1. CASE ~Filled(o)
    BY <1>1 DEF FilledAt
  <1>2. CASE Filled(o)
    <2>1. Prints(o) \in SUBSET Time
      BY DEF Prints, LedgerTypes, Update
    <2>2. Prints(o) # {}
      BY <1>2 DEF Filled, Prints
    <2>3. IsFiniteSet(Time) /\ Time \in SUBSET Int
      BY BoundsAssumption, FS_Interval DEF Time
    <2>4. IsFiniteSet(Prints(o)) /\ Prints(o) \in SUBSET Int
      BY <2>1, <2>3, FS_Subset
    <2> DEFINE P == Prints(o)
    <2> HIDE DEF P
    <2>5. Max(P) \in P /\ \A s \in P : Max(P) >= s
      BY <2>2, <2>4, MaxOfFinite DEF P
    <2>6. FilledAt(o, t) = Max(P)
      BY <1>2 DEF FilledAt, P
    <2>7. Max(P) \in Int /\ P \in SUBSET Int
      BY <2>4, <2>5 DEF P
    <2>8. \A s \in P : s <= Max(P)
      BY <2>5, <2>7
    <2> QED BY <2>1, <2>5, <2>6, <2>8 DEF P
  <1> QED BY <1>1, <1>2

LEMMA AdoptionLotsInv ==
  ASSUME LedgerInv, LotsInv, Adoption
  PROVE  LotsInv'
  <1>1. LedgerTypes /\ r.at \in Time /\ cum \in [Orders -> Nat]
    BY DEF LedgerInv, LedgerTypes, LotsInv, PositionTypes
  <1>2. PICK o \in Orders : \/ AdoptListed(o) \/ AdoptLookedUp(o)
                            \/ \E known \in BOOLEAN : sweep_ledger_deficits(o, known)
    BY DEF Adoption
  <1>3. FilledAt(o, r.at) \in Time
    BY <1>1, StampType
  <1>4. CASE AdoptListed(o)
    <2>1. PICK final : r.pc = "adopt" /\ AdoptInto(view, o, r.snap[o], final, r.at)
      BY <1>4, Zenon DEF AdoptListed
    <2>2. r.snap[o] \in Nat
      BY <1>4 DEF AdoptListed, LedgerInv, ListIsBooked
    <2> QED BY <1>1, <2>1, <2>2, AdoptIntoLotsInv
  <1>5. CASE AdoptLookedUp(o)
    <2>1. PICK final : r.pc = "adopt" /\ AdoptInto(view, o, cum[o], final, FilledAt(o, r.at))
      BY <1>5, Zenon DEF AdoptLookedUp
    <2> QED BY <1>1, <1>3, <2>1, AdoptIntoLotsInv
  <1>6. ASSUME NEW known \in BOOLEAN, sweep_ledger_deficits(o, known)
        PROVE  LotsInv'
    <2>1. CASE known
      <3>1. PICK final : r.pc = "sweep" /\ AdoptInto(view, o, cum[o], final, FilledAt(o, r.at))
        BY <1>6, <2>1, Zenon DEF sweep_ledger_deficits
      <3> QED BY <1>1, <1>3, <3>1, AdoptIntoLotsInv
    <2>2. CASE ~known
      <3> DEFINE stamp == IF view.row[o].final THEN FilledAt(o, r.at) ELSE r.at
      <3>1. stamp \in Time
        BY <1>1, <1>3
      <3>2. PICK final : r.pc = "sweep" /\ AdoptInto(view, o, view.row[o].filled, final, stamp)
        BY <1>6, <2>2, Zenon DEF sweep_ledger_deficits
      <3>3. view.row[o].filled \in Nat
        BY <1>1 DEF LedgerTypes, HasLedger
      <3> HIDE DEF stamp
      <3> QED BY <3>1, <3>2, <3>3, AdoptIntoLotsInv
    <2> QED BY <2>1, <2>2
  <1> QED BY <1>2, <1>4, <1>5, <1>6

(* A retry of a parked remainder: the remainder is taken out and its fill   *)
(* booked again, unless there is nothing to close.                          *)
Unpark(b, a) == [b EXCEPT !.parked[a].open = FALSE]
OneMoreFailed(b, a) == [b EXCEPT !.parked[a].fails = Min({@ + 1, AlertCycles})]

LEMMA UnparkIs ==
  ASSUME NEW b, HasLedger(b), LotTypes(b), NEW a \in DOMAIN b.parked
  PROVE  /\ HasLedger(Unpark(b, a)) /\ Unpark(b, a).booked = b.booked /\ Unpark(b, a).lots = b.lots
         /\ Unpark(b, a).closes = b.closes /\ DOMAIN Unpark(b, a).parked = DOMAIN b.parked
         /\ LotTypes(Unpark(b, a))
         /\ \A x \in DOMAIN b.parked \ {a} : Unpark(b, a).parked[x] = b.parked[x]
         /\ Unpark(b, a).parked[a].order = b.parked[a].order /\ ~Unpark(b, a).parked[a].open
         /\ Unpark(b, a).parked[a].qty = b.parked[a].qty /\ Unpark(b, a).parked[a].at = b.parked[a].at
  <1> DEFINE x == [b.parked[a] EXCEPT !.open = FALSE]
             p == [b.parked EXCEPT ![a] = x]
             c == [b EXCEPT !.parked = p]
  <1>1. Unpark(b, a) = c
    BY Zenon DEF Unpark
  <1>2. b.parked[a] \in Anomaly /\ b.parked \in [DOMAIN b.parked -> Anomaly]
    BY DEF LotTypes
  <1>3. /\ x \in Anomaly /\ x.order = b.parked[a].order /\ x.qty = b.parked[a].qty
        /\ x.at = b.parked[a].at
    BY <1>2 DEF Anomaly
  <1>4. ~x.open
    BY <1>2 DEF Anomaly
  <1> HIDE DEF x
  <1>5. /\ DOMAIN p = DOMAIN b.parked /\ p[a] = x /\ p \in [DOMAIN b.parked -> Anomaly]
        /\ \A y \in DOMAIN b.parked \ {a} : p[y] = b.parked[y]
    BY <1>2, <1>3
  <1> HIDE DEF p
  <1>6. /\ HasLedger(c) /\ c.booked = b.booked /\ c.lots = b.lots /\ c.closes = b.closes
        /\ c.parked = p
    BY DEF HasLedger
  <1>7. LotTypes(c)
    BY <1>5, <1>6 DEF LotTypes
  <1> QED BY <1>1, <1>3, <1>4, <1>5, <1>6, <1>7

LEMMA FailedIs ==
  ASSUME NEW b, HasLedger(b), LotTypes(b), NEW a \in DOMAIN b.parked
  PROVE  LET c == OneMoreFailed(b, a)
         IN  /\ c.booked = b.booked /\ c.lots = b.lots
             /\ c.closes = b.closes /\ DOMAIN c.parked = DOMAIN b.parked
             /\ LotTypes(c)
             /\ \A y \in DOMAIN b.parked :
                  /\ c.parked[y].order = b.parked[y].order /\ c.parked[y].qty = b.parked[y].qty
                  /\ c.parked[y].at = b.parked[y].at /\ c.parked[y].open = b.parked[y].open
             /\ \A y \in DOMAIN b.parked \ {a} : c.parked[y] = b.parked[y]
  <1> DEFINE n == Min({b.parked[a].fails + 1, AlertCycles})
             x == [b.parked[a] EXCEPT !.fails = n]
             p == [b.parked EXCEPT ![a] = x]
             c == [b EXCEPT !.parked = p]
  <1>1. OneMoreFailed(b, a) = c
    BY DEF OneMoreFailed
  <1>2. b.parked[a] \in Anomaly /\ b.parked \in [DOMAIN b.parked -> Anomaly]
    BY DEF LotTypes
  <1>3. n \in 0 .. AlertCycles
    <2> DEFINE f == b.parked[a].fails
    <2>1. f \in 0 .. AlertCycles /\ AlertCycles \in Nat
      BY <1>2, BoundsAssumption DEF Anomaly
    <2> HIDE DEF f
    <2>2. f + 1 \in Int /\ AlertCycles \in Int
      BY <2>1
    <2>3. Min({f + 1, AlertCycles}) = IF f + 1 <= AlertCycles THEN f + 1 ELSE AlertCycles
      BY <2>2, MinOfTwo
    <2> QED BY <2>1, <2>3 DEF f
  <1> HIDE DEF n
  <1>4. /\ x \in Anomaly /\ x.order = b.parked[a].order /\ x.qty = b.parked[a].qty
        /\ x.at = b.parked[a].at
    BY <1>2, <1>3 DEF Anomaly
  <1>5. x.open = b.parked[a].open
    BY <1>2 DEF Anomaly
  <1> HIDE DEF x
  <1>6. /\ DOMAIN p = DOMAIN b.parked /\ p[a] = x /\ p \in [DOMAIN b.parked -> Anomaly]
        /\ \A y \in DOMAIN b.parked \ {a} : p[y] = b.parked[y]
    BY <1>2, <1>4
  <1> HIDE DEF p
  <1>7. /\ c.booked = b.booked /\ c.lots = b.lots /\ c.closes = b.closes
        /\ c.parked = p
    BY DEF HasLedger
  <1>8. LotTypes(c)
    BY <1>6, <1>7 DEF LotTypes
  <1>9. \A y \in DOMAIN b.parked :
          /\ p[y].order = b.parked[y].order /\ p[y].qty = b.parked[y].qty
          /\ p[y].at = b.parked[y].at /\ p[y].open = b.parked[y].open
    BY <1>4, <1>5, <1>6
  <1> QED BY <1>1, <1>6, <1>7, <1>8, <1>9

LEMMA UnparkSum ==
  ASSUME NEW b, HasLedger(b), LotTypes(b), NEW a \in DOMAIN b.parked, b.parked[a].open, NEW p \in Orders
  PROVE  /\ LotSum(Unpark(b, a), p) = LotSum(b, p)
         /\ ParkedSum(b, p)
              = ParkedSum(Unpark(b, a), p) + (IF p = b.parked[a].order THEN b.parked[a].qty ELSE 0)
  <1> DEFINE c == Unpark(b, a)
             D == DOMAIN b.parked
             f == [x \in D |-> InParked(b, p, x)]
             g == [x \in D |-> InParked(c, p, x)]
  <1>1. /\ c.lots = b.lots /\ c.closes = b.closes /\ DOMAIN c.parked = D /\ LotTypes(c)
        /\ \A x \in D \ {a} : c.parked[x] = b.parked[x]
        /\ ~c.parked[a].open
    BY UnparkIs
  <1> HIDE DEF c
  <1>2. LotSum(c, p) = LotSum(b, p)
    BY <1>1 DEF LotSum, InLots
  <1>3. ParkedSum(b, p) = SumFunctionOnSet(f, D) /\ ParkedSum(c, p) = SumFunctionOnSet(g, D)
    BY <1>1, ParkedSumIs
  <1>4. \A x \in D : f[x] \in Nat /\ g[x] \in Nat
    BY <1>1, InParkedType
  <1>5. \A x \in D \ {a} : f[x] = g[x]
    BY <1>1 DEF InParked
  <1>6. g[a] = 0 /\ f[a] = IF p = b.parked[a].order THEN b.parked[a].qty ELSE 0
    BY <1>1 DEF InParked
  <1>7. IsFiniteSet(D)
    BY DEF LotTypes
  <1>8. SumFunctionOnSet(f, D) \in Int /\ SumFunctionOnSet(g, D) \in Int
    <2> HIDE DEF f, g, D
    <2>1. \A x \in D : f[x] \in Int /\ g[x] \in Int
      BY <1>4
    <2> QED BY <1>7, <2>1, SumType
  <1>9. SumFunctionOnSet(g, D) = SumFunctionOnSet(f, D) - f[a] + g[a]
    <2>1. a \in D
      OBVIOUS
    <2> HIDE DEF f, g, D
    <2>2. \A x \in D : f[x] \in Int /\ g[x] \in Int
      BY <1>4
    <2> QED BY <1>5, <1>7, <2>1, <2>2, SumChange
  <1> DEFINE x == SumFunctionOnSet(f, D)
             y == SumFunctionOnSet(g, D)
             n == IF p = b.parked[a].order THEN b.parked[a].qty ELSE 0
  <1>10. x \in Int /\ y \in Int /\ n \in Nat /\ y = x - n + 0
    BY <1>4, <1>6, <1>8, <1>9
  <1> HIDE DEF x, y, n
  <1>11. x = y + n
    BY <1>10
  <1> QED BY <1>2, <1>3, <1>11 DEF x, y, n, c

LEMMA RetriedIs ==
  ASSUME NEW b, HasLedger(b), LotTypes(b), NEW a \in DOMAIN b.parked
  PROVE  LET p == b.parked[a]
             m == open_lots(b, p.order, p.at, DOMAIN b.lots)
         IN  retried(b, a) = IF Remaining(b, p.qty, m) = p.qty THEN OneMoreFailed(b, a)
                             ELSE apply_fill_to_lots(Unpark(b, a), p.order, p.qty, p.at, DOMAIN b.lots)
  <1> DEFINE p == b.parked[a]
             m == open_lots(b, p.order, p.at, DOMAIN b.lots)
             rest == Remaining(b, p.qty, m)
             c == Unpark(b, a)
             closed == [Consume(b, p.order, p.qty, m) EXCEPT !.parked[a].open = FALSE]
  <1>1. c.lots = b.lots /\ c.closes = b.closes /\ HasLedger(c)
    BY UnparkIs
  <1>2. open_lots(c, p.order, p.at, DOMAIN b.lots) = m
    BY <1>1 DEF open_lots
  <1>3. Remaining(c, p.qty, m) = rest
    BY <1>1 DEF Remaining, OpenShares
  <1>4. Consume(c, p.order, p.qty, m) = closed
    <2>1. \A i \in m : consumed(c, m, i, p.qty) = consumed(b, m, i, p.qty)
      BY <1>1 DEF consumed, OpenShares, Older
    <2>2. CASE m = {}
      BY <2>2 DEF Consume, Unpark
    <2>3. CASE m # {}
      <3> DEFINE taken == [i \in m |-> consumed(b, m, i, p.qty)]
                 lots == [i \in DOMAIN b.lots |->
                    IF i \in m THEN [b.lots[i] EXCEPT !.open = @ - taken[i]] ELSE b.lots[i]]
                 closes == [i \in DOMAIN b.lots |->
                    IF i \in m THEN [b.closes[i] EXCEPT ![p.order] = @ + taken[i]] ELSE b.closes[i]]
                 parked == [b.parked EXCEPT ![a].open = FALSE]
      <3>1. Consume(b, p.order, p.qty, m) = [b EXCEPT !.lots = lots, !.closes = closes]
        BY <2>3 DEF Consume
      <3>2. taken = [i \in m |-> consumed(c, m, i, p.qty)]
        BY <2>1
      <3>3. Consume(c, p.order, p.qty, m) = [c EXCEPT !.lots = lots, !.closes = closes]
        <4> HIDE DEF taken, c, m, p
        <4> QED BY <1>1, <2>3, <3>2 DEF Consume
      <3>4. c = [b EXCEPT !.parked = parked]
        BY Zenon DEF Unpark
      <3>5. closed = [[b EXCEPT !.lots = lots, !.closes = closes] EXCEPT !.parked = parked]
        <4> DEFINE e == [b EXCEPT !.lots = lots, !.closes = closes]
        <4>1. e.parked = b.parked
          <5> HIDE DEF lots, closes
          <5> QED BY DEF HasLedger
        <4>2. closed = [e EXCEPT !.parked[a].open = FALSE]
          BY <3>1, Zenon
        <4> HIDE DEF e
        <4>3. [e EXCEPT !.parked[a].open = FALSE] = [e EXCEPT !.parked = [e.parked EXCEPT ![a].open = FALSE]]
          BY Zenon
        <4> HIDE DEF closed
        <4>4. closed = [e EXCEPT !.parked = parked]
          BY <4>1, <4>2, <4>3, Zenon
        <4> QED BY <4>4 DEF e
      <3> HIDE DEF lots, closes, parked, closed, c
      <3>6. [[b EXCEPT !.lots = lots, !.closes = closes] EXCEPT !.parked = parked]
              = [[b EXCEPT !.parked = parked] EXCEPT !.lots = lots, !.closes = closes]
        BY DEF HasLedger
      <3> QED BY <3>3, <3>4, <3>5, <3>6
    <2> QED BY <2>2, <2>3
  <1>5. retried(b, a) = IF rest = p.qty THEN OneMoreFailed(b, a)
                        ELSE open_or_park(closed, p.order, rest, p.at)
    BY DEF retried, OneMoreFailed
  <1>6. apply_fill_to_lots(c, p.order, p.qty, p.at, DOMAIN b.lots) = open_or_park(closed, p.order, rest, p.at)
    <2> HIDE DEF closed, c, m, p, rest
    <2> QED BY <1>2, <1>3, <1>4 DEF apply_fill_to_lots
  <1> QED BY <1>5, <1>6

(* What a retry does to a book: a share it closes leaves the parked ones.   *)
LEMMA RetriedLots ==
  ASSUME NEW b, HasLedger(b), Sound(b), LotTypes(view), NEW a \in DOMAIN b.parked, b.parked[a].open
  PROVE  LET c == retried(b, a)
             m == open_lots(b, b.parked[a].order, b.parked[a].at, DOMAIN b.lots)
         IN  /\ Sound(c)
             /\ \/ c = OneMoreFailed(b, a)
                \/ Extends(Unpark(b, a), c, m, b.parked[a].order, b.parked[a].at)
  <1> DEFINE p == b.parked[a]
             o == p.order
             m == open_lots(b, o, p.at, DOMAIN b.lots)
             d == Unpark(b, a)
             c == apply_fill_to_lots(d, o, p.qty, p.at, DOMAIN b.lots)
             e == OneMoreFailed(b, a)
  <1>1. retried(b, a) = IF Remaining(b, p.qty, m) = p.qty THEN e ELSE c
    BY RetriedIs DEF Sound
  <1>2. p.qty \in Nat /\ o \in Orders /\ p.at \in Time
    BY DEF Sound, LotTypes, Anomaly
  <1>3. /\ HasLedger(d) /\ LotTypes(d) /\ d.lots = b.lots /\ d.closes = b.closes
        /\ d.booked = b.booked
    BY UnparkIs DEF Sound
  <1>4. Balanced(d) /\ open_lots(d, o, p.at, DOMAIN b.lots) = m
    BY <1>3 DEF Sound, Balanced, open_lots
  <1>5. \A q \in Orders : b.booked[q] = LotSum(b, q) + ParkedSum(b, q)
    BY AccountedIs DEF Sound
  <1>6. \A q \in Orders : /\ LotSum(d, q) = LotSum(b, q)
                          /\ ParkedSum(b, q) = ParkedSum(d, q) + (IF q = o THEN p.qty ELSE 0)
    BY UnparkSum DEF Sound
  <1> HIDE DEF d
  <1>7. Sound(c) /\ Extends(d, c, m, o, p.at)
    <2>1. /\ LotTypes(c) /\ Balanced(c) /\ Extends(d, c, open_lots(d, o, p.at, DOMAIN b.lots), o, p.at)
          /\ \A q \in Orders :
               LotSum(c, q) + ParkedSum(c, q)
                 = LotSum(d, q) + ParkedSum(d, q) + (IF q = o THEN p.qty ELSE 0)
      <3> HIDE DEF o, p
      <3> QED BY <1>2, <1>3, <1>4, ApplyFill
    <2>2. c.booked = b.booked
      BY <1>3, FillsKeepLedger
    <2> HIDE DEF c
    <2>3. ASSUME NEW q \in Orders
          PROVE  c.booked[q] = LotSum(c, q) + ParkedSum(c, q)
      <3> DEFINE x == LotSum(d, q)
                 y == ParkedSum(d, q)
                 n == IF q = o THEN p.qty ELSE 0
      <3>1. x \in Nat /\ y \in Nat /\ n \in Nat
        BY <1>2, <1>3, LotSumIs, ParkedSumIs
      <3>2. LotSum(c, q) + ParkedSum(c, q) = x + y + n /\ c.booked[q] = x + (y + n)
        BY <1>5, <1>6, <2>1, <2>2
      <3> HIDE DEF x, y, n
      <3> QED BY <3>1, <3>2
    <2>4. Accounted(c)
      BY <2>3, AccountedIs
    <2> QED BY <1>4, <2>1, <2>4 DEF Sound
  <1>8. Sound(e)
    <2>1. /\ e.booked = b.booked /\ e.lots = b.lots /\ e.closes = b.closes
          /\ DOMAIN e.parked = DOMAIN b.parked /\ LotTypes(e)
          /\ \A y \in DOMAIN b.parked :
               /\ e.parked[y].order = b.parked[y].order /\ e.parked[y].qty = b.parked[y].qty
               /\ e.parked[y].open = b.parked[y].open
      BY FailedIs DEF Sound
    <2> HIDE DEF e
    <2>2. Balanced(e)
      BY <2>1 DEF Sound, Balanced
    <2>3. \A q \in Orders : LotSum(e, q) = LotSum(b, q) /\ ParkedSum(e, q) = ParkedSum(b, q)
      <3> SUFFICES ASSUME NEW q \in Orders
                   PROVE  LotSum(e, q) = LotSum(b, q) /\ ParkedSum(e, q) = ParkedSum(b, q)
        OBVIOUS
      <3>1. LotSum(e, q) = LotSum(b, q)
        BY <2>1 DEF LotSum, InLots
      <3>2. \A y \in DOMAIN b.parked : InParked(e, q, y) = InParked(b, q, y)
        BY <2>1 DEF InParked
      <3>3. [y \in DOMAIN e.parked |-> InParked(e, q, y)] = [y \in DOMAIN b.parked |-> InParked(b, q, y)]
        BY <2>1, <3>2
      <3> QED BY <3>1, <3>3 DEF ParkedSum
    <2>4. Accounted(e)
      BY <1>5, <2>1, <2>3, AccountedIs
    <2> QED BY <2>1, <2>2, <2>4 DEF Sound
  <1> QED BY <1>1, <1>7, <1>8 DEF d

LEMMA RetryLotsInv ==
  ASSUME LedgerInv, LotsInv, NEW a \in DOMAIN view.parked, retry_unapplied_remainder(a)
  PROVE  LotsInv'
  <1> DEFINE p == view.parked[a]
             m == open_lots(view, p.order, p.at, DOMAIN view.lots)
             d == Unpark(view, a)
             e == OneMoreFailed(view, a)
  <1>1. /\ r.pc = "retry" /\ r.todo # {} /\ a = Min(r.todo) /\ m \cap WriterHeld = {}
        /\ r' = [r EXCEPT !.todo = @ \ {a}, !.held = @ \cup m]
        /\ view' = retried(view, a) /\ UNCHANGED <<broker, book, position, w>>
    BY DEF retry_unapplied_remainder
  <1>2. /\ HasLedger(view) /\ Sound(view) /\ LotTypes(view)
    BY LotsInvSound DEF LedgerInv, LedgerTypes, LotsInv
  <1>3. a \in r.todo /\ p.open
    <2>1. \A x \in r.todo : x \in DOMAIN view.parked /\ view.parked[x].open
      BY <1>1 DEF LotsInv, SharedParked
    <2>2. r.todo \in SUBSET Nat
      BY <1>2, <2>1 DEF LotTypes
    <2>3. Min(r.todo) \in r.todo
      BY <1>1, <2>2, MinOfNats
    <2> QED BY <1>1, <2>1, <2>3
  <1>4. Sound(view') /\ (view' = e \/ Extends(d, view', m, p.order, p.at))
    BY <1>1, <1>2, <1>3, RetriedLots
  <1>5. m \in SUBSET DOMAIN view.lots
    BY DEF open_lots
  <1>6. r'.pc = "retry" /\ r'.held = r.held \cup m /\ r'.todo = r.todo \ {a} /\ r'.list = r.list /\ r'.at = r.at
    <2>1. r = [pc |-> r.pc, value |-> r.value, list |-> r.list, real |-> r.real, at |-> r.at,
               snap |-> r.snap, todo |-> r.todo, rows |-> r.rows, held |-> r.held]
      BY DEF LedgerInv, Transactions
    <2> HIDE DEF m
    <2> QED BY <1>1, <2>1
  <1>7. /\ DOMAIN view.lots \subseteq DOMAIN view'.lots /\ DOMAIN view.parked \subseteq DOMAIN view'.parked
        /\ \A i \in DOMAIN view.lots :
             /\ view'.lots[i].order = view.lots[i].order /\ view'.lots[i].orig = view.lots[i].orig
             /\ view'.lots[i].opened = view.lots[i].opened /\ view'.lots[i].open <= view.lots[i].open
             /\ i \notin m => view'.lots[i] = view.lots[i] /\ view'.closes[i] = view.closes[i]
        /\ \A y \in DOMAIN view.parked :
             /\ view'.parked[y].order = view.parked[y].order /\ view'.parked[y].qty = view.parked[y].qty
             /\ view'.parked[y].at = view.parked[y].at
             /\ y # a => view'.parked[y] = view.parked[y]
    <2>1. CASE view' = e
      <3>1. /\ e.lots = view.lots /\ e.closes = view.closes /\ DOMAIN e.parked = DOMAIN view.parked
            /\ \A y \in DOMAIN view.parked :
                 /\ e.parked[y].order = view.parked[y].order /\ e.parked[y].qty = view.parked[y].qty
                 /\ e.parked[y].at = view.parked[y].at
            /\ \A y \in DOMAIN view.parked \ {a} : e.parked[y] = view.parked[y]
        BY <1>2, FailedIs
      <3>2. \A i \in DOMAIN view.lots : view.lots[i].open \in Nat
        BY <1>2 DEF LotTypes, Lot
      <3> HIDE DEF e, m
      <3> QED BY <2>1, <3>1, <3>2
    <2>2. CASE Extends(d, view', m, p.order, p.at)
      <3>1. /\ d.lots = view.lots /\ d.closes = view.closes /\ DOMAIN d.parked = DOMAIN view.parked
            /\ \A y \in DOMAIN view.parked \ {a} : d.parked[y] = view.parked[y]
            /\ d.parked[a].order = view.parked[a].order
            /\ d.parked[a].qty = view.parked[a].qty /\ d.parked[a].at = view.parked[a].at
        BY <1>2, UnparkIs
      <3> HIDE DEF d, m
      <3>2. /\ DOMAIN d.lots \subseteq DOMAIN view'.lots /\ DOMAIN d.parked \subseteq DOMAIN view'.parked
            /\ \A i \in DOMAIN d.lots :
                 /\ view'.lots[i].order = d.lots[i].order /\ view'.lots[i].orig = d.lots[i].orig
                 /\ view'.lots[i].opened = d.lots[i].opened /\ view'.lots[i].open <= d.lots[i].open
                 /\ i \notin m => view'.lots[i] = d.lots[i] /\ view'.closes[i] = d.closes[i]
            /\ \A y \in DOMAIN d.parked : view'.parked[y] = d.parked[y]
        BY <2>2 DEF Extends
      <3> QED BY <3>1, <3>2
    <2> QED BY <1>4, <2>1, <2>2
  <1> HIDE DEF m, d, e
  <1>8. SharedLots'
    <2>1. r.held \in SUBSET DOMAIN view.lots /\ DOMAIN book.lots \in SUBSET DOMAIN view.lots
      BY DEF LotsInv, SharedLots
    <2>2. r'.held \in SUBSET DOMAIN view'.lots /\ DOMAIN book.lots \in SUBSET DOMAIN view'.lots
      BY <1>5, <1>6, <1>7, <2>1
    <2>3. ASSUME NEW i \in DOMAIN book.lots
          PROVE  /\ view'.lots[i].order = book.lots[i].order /\ view'.lots[i].orig = book.lots[i].orig
                 /\ view'.lots[i].opened = book.lots[i].opened /\ view'.lots[i].open <= book.lots[i].open
                 /\ i \notin r'.held => view'.lots[i] = book.lots[i] /\ view'.closes[i] = book.closes[i]
      <3>1. i \in DOMAIN view.lots /\ i \in DOMAIN view'.lots
        BY <1>7, <2>1
      <3>2. book.lots[i].open \in Nat /\ view.lots[i].open \in Nat /\ view'.lots[i].open \in Nat
        BY <1>2, <1>4, <3>1 DEF Sound, LotTypes, Lot, LotsInv
      <3>3. view'.lots[i].open <= view.lots[i].open /\ view.lots[i].open <= book.lots[i].open
        BY <1>7, <3>1 DEF LotsInv, SharedLots
      <3>4. view'.lots[i].open <= book.lots[i].open
        BY <3>2, <3>3
      <3> QED BY <1>6, <1>7, <3>1, <3>4 DEF LotsInv, SharedLots
    <2>4. w.pc = "commit" => w.held \cap r'.held = {} /\ WantedLots \in SUBSET w.held
      BY <1>1, <1>6 DEF LotsInv, SharedLots, WriterHeld, m
    <2>5. WantedLots' = WantedLots
      BY <1>1 DEF WantedLots
    <2> QED BY <1>1, <2>2, <2>3, <2>4, <2>5 DEF SharedLots
  <1>9. SharedParked'
    <2>1. DOMAIN book.parked \in SUBSET DOMAIN view'.parked
      BY <1>7 DEF LotsInv, SharedParked
    <2>2. \A y \in DOMAIN book.parked :
            /\ view'.parked[y].order = book.parked[y].order /\ view'.parked[y].qty = book.parked[y].qty
            /\ view'.parked[y].at = book.parked[y].at
      BY <1>7 DEF LotsInv, SharedParked
    <2>3. \A y \in r'.todo : y \in DOMAIN view'.parked /\ view'.parked[y].open
      BY <1>1, <1>6, <1>7 DEF LotsInv, SharedParked
    <2> QED BY <1>1, <2>1, <2>2, <2>3 DEF SharedParked
  <1>10. PositionTypes'
    BY <1>1, <1>6 DEF LotsInv, PositionTypes
  <1>11. LotTypes(book)' /\ Accounted(book)' /\ Balanced(book)' /\ r'.pc # "idle"
    BY <1>1, <1>6 DEF LotsInv, SharesAccounted
  <1> QED BY <1>4, <1>8, <1>9, <1>10, <1>11 DEF LotsInv, SharesAccounted, Sound

(* The reconcile's commit: what it saw is what there is.                    *)
LEMMA ReconcileCommitLotsInv ==
  ASSUME LedgerInv, LotsInv, ReconcileCommit
  PROVE  LotsInv'
  <1>1. /\ book' = view /\ view' = view /\ w' = w /\ r' = IdleReconcile
        /\ position' = reconcile_positions(r.list, r.value)
    BY DEF ReconcileCommit
  <1>2. Sound(view) /\ LotTypes(view) /\ LotTypes(book)
    BY LotsInvSound DEF LotsInv
  <1>3. position' \in Int
    BY <1>1 DEF reconcile_positions, LotsInv, PositionTypes
  <1>4. DOMAIN book.lots \in SUBSET DOMAIN view.lots
    BY DEF LotsInv, SharedLots
  <1>5. PositionTypes'
    BY <1>1, <1>3, <1>4, BoundsAssumption DEF LotsInv, PositionTypes, IdleReconcile, Time
  <1>6. w.pc = "commit" => WantedLots' \in SUBSET w.held
    <2> SUFFICES ASSUME w.pc = "commit" PROVE WantedLots' \in SUBSET w.held
      OBVIOUS
    <2>1. w # IdleWriter /\ w.sees \in SUBSET DOMAIN book.lots
      BY DEF IdleWriter, LotsInv, PositionTypes
    <2>2. ASSUME NEW i \in WantedLots'
          PROVE  i \in WantedLots
      <3>1. i \in open_lots(view, w.u.order, w.u.at, w.sees)
        BY <1>1 DEF WantedLots
      <3>2. i \in DOMAIN book.lots /\ i \in DOMAIN view.lots /\ i \in w.sees
        BY <2>1, <3>1 DEF open_lots
      <3>3. view.lots[i].open > 0 /\ view.lots[i].open \in Nat /\ book.lots[i].open \in Nat
        BY <1>2, <3>1, <3>2 DEF open_lots, LotTypes, Lot
      <3>4. /\ view.lots[i].order = book.lots[i].order /\ view.lots[i].opened = book.lots[i].opened
            /\ view.lots[i].open <= book.lots[i].open
        BY <3>2 DEF LotsInv, SharedLots
      <3>5. book.lots[i].open > 0
        BY <3>3, <3>4
      <3> QED BY <3>1, <3>2, <3>4, <3>5 DEF open_lots, WantedLots
    <2>3. WantedLots \in SUBSET w.held
      BY DEF LotsInv, SharedLots
    <2> QED BY <2>2, <2>3
  <1>7. SharedLots'
    <2>1. \A i \in DOMAIN view.lots : view.lots[i].open \in Nat
      BY <1>2 DEF LotTypes, Lot
    <2> QED BY <1>1, <1>6, <2>1 DEF SharedLots, IdleReconcile
  <1>8. SharedParked'
    BY <1>1 DEF SharedParked, IdleReconcile
  <1> QED BY <1>1, <1>2, <1>5, <1>7, <1>8 DEF LotsInv, SharesAccounted, Sound

(* The reconcile rolled back: it sees the committed book again.             *)
LEMMA ReconcileRollbackLotsInv ==
  ASSUME LedgerInv, LotsInv, view' = book, r' = IdleReconcile, UNCHANGED <<book, position, w>>
  PROVE  LotsInv'
  <1>1. Sound(book) /\ LotTypes(book)
    BY LotsInvSound DEF LotsInv
  <1>2. PositionTypes'
    BY BoundsAssumption DEF LotsInv, PositionTypes, IdleReconcile, Time
  <1>3. WantedLots' = WantedLots
    BY DEF WantedLots
  <1>4. SharedLots'
    <2>1. \A i \in DOMAIN book.lots : book.lots[i].open \in Nat
      BY <1>1 DEF LotTypes, Lot
    <2>2. w.pc = "commit" => WantedLots \in SUBSET w.held
      BY DEF LotsInv, SharedLots
    <2> QED BY <1>3, <2>1, <2>2 DEF SharedLots, IdleReconcile
  <1>5. SharedParked'
    BY DEF SharedParked, IdleReconcile
  <1> QED BY <1>1, <1>2, <1>4, <1>5 DEF LotsInv, SharesAccounted, Sound

LEMMA BreakDeadlockLotsInv ==
  ASSUME LedgerInv, LotsInv, BreakDeadlock
  PROVE  LotsInv'
  <1>1. UNCHANGED <<book, position>>
    BY DEF BreakDeadlock
  <1>2. CASE view' = book /\ r' = IdleReconcile /\ UNCHANGED w
    BY <1>1, <1>2, ReconcileRollbackLotsInv
  <1>3. CASE w' = IdleWriter /\ UNCHANGED <<view, r>>
    <2>1. PositionTypes' /\ w'.pc # "commit"
      BY <1>1, <1>3 DEF LotsInv, PositionTypes, IdleWriter
    <2>2. r.pc = "retry" => \A a \in r.todo : a \in DOMAIN view.parked /\ view.parked[a].open
      BY DEF LotsInv, SharedParked
    <2> QED BY <1>1, <1>3, <2>1, <2>2, KeepsLots
  <1> QED BY <1>2, <1>3 DEF BreakDeadlock

(* Steps that change rows only.                                             *)
LEMMA RowsOnlyLotsInv ==
  ASSUME LotsInv, SameLots(book, book'), SameLots(view, view'), UNCHANGED <<w, r>>,
         position' \in Int, view = book => view' = book'
  PROVE  LotsInv'
  <1>1. Sound(book') /\ Sound(view')
    BY LotsInvSound, SameLotsAre
  <1>2. WantedLots' = WantedLots
    BY DEF WantedLots, open_lots, SameLots
  <1>3. SharedLots' /\ SharedParked'
    BY <1>2 DEF LotsInv, SharedLots, SharedParked, SameLots
  <1>4. PositionTypes'
    BY DEF LotsInv, PositionTypes, SameLots
  <1> QED BY <1>1, <1>3, <1>4 DEF LotsInv, SharesAccounted, Sound

LEMMA ApplySnapshotOnlyLotsInv ==
  ASSUME LedgerInv, LotsInv, NEW u \in stream, ApplySnapshotOnly(u)
  PROVE  LotsInv'
  <1>1. PICK final : /\ book' = apply_snapshot(book, u.order, u.cum, final)
                     /\ view' = apply_snapshot(view, u.order, u.cum, final)
    BY Zenon DEF ApplySnapshotOnly
  <1>2. HasLedger(book) /\ HasLedger(view) /\ u.order \in Orders
    BY DEF LedgerInv, LedgerTypes, Update
  <1>3. SameLots(book, book') /\ SameLots(view, view')
    BY <1>1, <1>2, SnapshotKeepsLots
  <1>4. UNCHANGED <<w, r, position>>
    BY DEF ApplySnapshotOnly
  <1>5. position' \in Int /\ (view = book => view' = book')
    BY <1>1, <1>4 DEF LotsInv, PositionTypes
  <1> QED BY <1>3, <1>4, <1>5, RowsOnlyLotsInv

LEMMA SyncLotsInv ==
  ASSUME LedgerInv, LotsInv, SyncPortfolio
  PROVE  LotsInv'
  <1> DEFINE synced(b) == [b EXCEPT !.row = [o \in Orders |->
                             apply_snapshot(b, o, cum[o], o \in over).row[o]]]
  <1>1. /\ view' = synced(view) /\ book' = synced(book) /\ UNCHANGED <<w, r>> /\ position' = Net
    BY DEF SyncPortfolio
  <1>2. HasLedger(book) /\ HasLedger(view) /\ cum \in [Orders -> Nat]
    BY DEF LedgerInv, LedgerTypes
  <1>3. ASSUME NEW b, HasLedger(b)
        PROVE  SameLots(b, synced(b))
    <2> DEFINE rows == [o \in Orders |-> apply_snapshot(b, o, cum[o], o \in over).row[o]]
    <2>1. synced(b) = [b EXCEPT !.row = rows]
      OBVIOUS
    <2> HIDE DEF rows, synced
    <2> QED BY <1>3, <2>1 DEF HasLedger, SameLots
  <1>4. SameLots(book, book') /\ SameLots(view, view')
    <2> HIDE DEF synced
    <2> QED BY <1>1, <1>2, <1>3
  <1>5. position' \in Int
    BY <1>1, <1>2, NetType DEF Net
  <1>6. view = book => view' = book'
    BY <1>1
  <1> QED BY <1>1, <1>4, <1>5, <1>6, RowsOnlyLotsInv

LEMMA NextLotsInv == LedgerInv /\ LotsInv /\ [Next]_vars => LotsInv'
  <1> SUFFICES ASSUME LedgerInv, LotsInv, [Next]_vars PROVE LotsInv'
    OBVIOUS
  <1>1. CASE BrokerStep
    BY <1>1, BrokerStepLotsInv
  <1>2. CASE WriterStep \/ WriterAbort
    BY <1>2, ApplySnapshotOnlyLotsInv, WriterCommitLotsInv, WriterStepLotsInv DEF WriterStep
  <1>3. CASE ReconcileCommit
    BY <1>3, ReconcileCommitLotsInv
  <1>4. CASE ReconcileAbort
    BY <1>4, ReconcileRollbackLotsInv DEF ReconcileAbort
  <1>5. CASE ReconcileStep \/ ReadPositions(TRUE)
    BY <1>3, <1>5, AdoptionLotsInv, ReadsLotsInv, RetryLotsInv DEF ReconcileStep
  <1>6. CASE BreakDeadlock \/ SyncPortfolio
    BY <1>6, BreakDeadlockLotsInv, SyncLotsInv
  <1>7. CASE UNCHANGED vars
    <2>1. UNCHANGED <<book, view, position, w, r>>
      BY <1>7 DEF vars
    <2>2. PositionTypes' /\ WantedLots' = WantedLots
      BY <2>1 DEF LotsInv, PositionTypes, WantedLots
    <2>3. /\ r.pc = "retry" => \A a \in r.todo : a \in DOMAIN view.parked /\ view.parked[a].open
          /\ w.pc = "commit" => w.held \cap r.held = {} /\ WantedLots \in SUBSET w.held
      BY DEF LotsInv, SharedParked, SharedLots
    <2> QED BY <2>1, <2>2, <2>3, KeepsLots
  <1> QED BY <1>1, <1>2, <1>3, <1>4, <1>5, <1>6, <1>7 DEF Next

(* The invariant of the ledger and the lots together: the two transactions  *)
(* share no lot that either may change, and each book is sound by itself.   *)
THEOREM LotsInvariance == Spec => []IInv
  BY InitLedgerInv, InitLotsInv, NextLedgerInv, NextLotsInv, PTL DEF Spec, IInv

(* Whatever the interleaving of the writer's events, the reconcile's        *)
(* adoption and retries, aborts, deadlocks and the API sync: every booked   *)
(* share of every order is in exactly one place, what is open in a lot is   *)
(* what its closes leave, and nothing is booked that did not execute.       *)
THEOREM TheBooksBalance == Spec => []BooksBalance
  <1>1. IInv => BooksBalance
    <2> SUFFICES ASSUME LedgerInv, LotsInv PROVE BooksBalance
      BY DEF IInv
    <2>1. IsBook(book) /\ IsBook(view)
      <3>1. ASSUME NEW b, HasLedger(b), LotTypes(b)
            PROVE  IsBook(b)
        BY <3>1 DEF HasLedger, LotTypes, IsBook
      <3> QED BY <3>1 DEF LedgerInv, LedgerTypes, LotsInv
    <2>2. w.pc \in {"idle", "lots", "commit"}
      BY DEF LedgerInv, Transactions, IdleWriter
    <2>3. TypeOK
      BY <2>1, <2>2 DEF TypeOK, LedgerInv, LedgerTypes, Transactions, LotsInv, PositionTypes, SharedLots
    <2>4. NeverOverbooked
      BY DEF LedgerInv, RowsAreTrue, NeverOverbooked
    <2> QED BY <2>3, <2>4 DEF BooksBalance, LotsInv, LotsBalance
  <1> QED BY <1>1, LotsInvariance, PTL

-----------------------------------------------------------------------------
(* How old the lots are that a liquidation closes.                          *)

LEMMA StampedOlder ==
  ASSUME LedgerTypes, NEW f, NEW s \in Int, NEW t \in Int, Stamped(f, t), s <= t
  PROVE  Stamped(f, s)
  <1>1. \A u \in stream : u.at \in Int
    BY BoundsAssumption DEF LedgerTypes, Update, Time
  <1>2. ASSUME NEW u \in stream, t <= u.at
        PROVE  s <= u.at
    BY <1>1, <1>2
  <1> QED BY <1>2 DEF Stamped

(* More events only make a stamp easier to come by, and an order in one     *)
(* piece harder.                                                            *)
LEMMA StampsStay ==
  ASSUME stream \subseteq stream'
  PROVE  /\ \A f, t : Stamped(f, t) => Stamped(f, t)'
         /\ \A f : InOnePiece(f)' => InOnePiece(f)
  <1>1. \A f : InOnePiece(f)' => InOnePiece(f)
    BY DEF InOnePiece
  <1> QED BY <1>1 DEF Stamped

(* A fill with a true stamp closes only what is older.                      *)
LEMMA FillIsStamped ==
  ASSUME LedgerTypes, NEW b, NEW c, LotTypes(b), LotTypes(c), NEW m \in SUBSET DOMAIN b.lots,
         NEW o \in Orders, NEW at \in Time, Extends(b, c, m, o, at), Stamped(o, at),
         \A i \in m : Strategy[o] = NoStrategy => b.lots[i].opened <= at, ClosesAreStamped(b)
  PROVE  ClosesAreStamped(c)
  <1>1. ASSUME NEW i \in DOMAIN c.lots, NEW f \in Orders, c.closes[i][f] > 0
        PROVE  Stamped(f, c.lots[i].opened)
    <2>1. i \in DOMAIN b.lots /\ (b.closes[i][f] > 0 \/ (f = o /\ i \in m))
      BY <1>1 DEF Extends
    <2>2. c.lots[i].opened = b.lots[i].opened
      BY <2>1 DEF Extends
    <2>3. CASE b.closes[i][f] > 0
      BY <2>1, <2>2, <2>3 DEF ClosesAreStamped
    <2>4. CASE f = o /\ i \in m
      <3>1. CASE Strategy[o] # NoStrategy
        BY <2>4, <3>1 DEF Stamped
      <3>2. CASE Strategy[o] = NoStrategy
        <4>1. b.lots[i].opened \in Int /\ at \in Int
          BY <2>1, BoundsAssumption DEF LotTypes, Lot, Time
        <4>2. b.lots[i].opened <= at
          BY <2>4, <3>2
        <4> QED BY <2>2, <2>4, <4>1, <4>2, StampedOlder
      <3> QED BY <3>1, <3>2
    <2> QED BY <2>1, <2>3, <2>4
  <1>2. ASSUME NEW a \in DOMAIN c.parked
        PROVE  Stamped(c.parked[a].order, c.parked[a].at)
    <2>1. CASE a \in DOMAIN b.parked
      BY <2>1 DEF Extends, ClosesAreStamped
    <2>2. CASE a \notin DOMAIN b.parked
      <3>1. c.parked[a].order = o /\ c.parked[a].at = at
        BY <2>2 DEF Extends
      <3> QED BY <3>1
    <2> QED BY <2>1, <2>2
  <1> QED BY <1>1, <1>2 DEF ClosesAreStamped

LEMMA OpenLotsAreOlder ==
  ASSUME NEW b, NEW o, NEW at, NEW sees
  PROVE  \A i \in open_lots(b, o, at, sees) : Strategy[o] = NoStrategy => b.lots[i].opened <= at
  BY DEF open_lots

LEMMA SameLotsStamped ==
  ASSUME NEW b, NEW c, SameLots(b, c)
  PROVE  ClosesAreStamped(b) => ClosesAreStamped(c)
  BY DEF SameLots, ClosesAreStamped

(* What the event's row or the broker's truth says of an order that is not  *)
(* over and has executed is that it did not do so in one piece.             *)
RowShows(b) == \A o \in Orders : b.row[o].filled > 0 /\ ~b.row[o].final => ~InOnePiece(o)

SnapShows ==
  \A o \in Orders : r.pc = "adopt" /\ o \in DOMAIN r.snap /\ r.snap[o] > 0 => ~InOnePiece(o)

BrokerShows ==
  /\ \A o \in Orders : /\ cum[o] > 0 => \E u \in stream : u.order = o /\ u.qty > 0
                       /\ o \notin over /\ cum[o] > 0 => ~InOnePiece(o)
  /\ \A u \in stream : u.qty = 0 /\ u.cum > 0 => ~InOnePiece(u.order)

LEMMA PiecesAre ==
  PiecesShow <=> /\ BrokerShows /\ RowShows(book) /\ RowShows(view) /\ SnapShows
                 /\ w # IdleWriter => w.u.cum > 0
  BY DEF PiecesShow, BrokerShows, RowShows, SnapShows

LEMMA InitAgeInv == Init => AgeInv
  <1> SUFFICES ASSUME Init PROVE AgeInv
    OBVIOUS
  <1>1. /\ book.lots = <<>> /\ book.closes = <<>> /\ book.parked = <<>> /\ view = book
        /\ book.row = [o \in Orders |-> [filled |-> 0, final |-> FALSE]]
        /\ w = IdleWriter /\ r = IdleReconcile /\ stream = {} /\ cum = [o \in Orders |-> 0]
    BY DEF Init
  <1>2. DOMAIN book.lots = {} /\ DOMAIN book.parked = {}
    BY <1>1
  <1>3. ClosesAreStamped(book)
    BY <1>2 DEF ClosesAreStamped
  <1>4. BrokerShows /\ RowShows(book) /\ SnapShows
    BY <1>1 DEF BrokerShows, RowShows, SnapShows, IdleReconcile
  <1> QED BY <1>1, <1>3, <1>4, PiecesAre DEF AgeInv

(* The broker: an execution that is not the last one shows in the stream.   *)
LEMMA BrokerStepAgeInv ==
  ASSUME LedgerInv, AgeInv, BrokerStep
  PROVE  AgeInv'
  <1>1. UNCHANGED <<book, view, w, r>>
    BY DEF BrokerStep, Tick, BrokerCancel, BrokerFill
  <1>2. stream \subseteq stream' /\ BrokerShows'
    <2>0. /\ BrokerShows /\ cum \in [Orders -> Nat] /\ over \in SUBSET Orders
          /\ stream \in SUBSET Update
      BY PiecesAre DEF AgeInv, LedgerInv, LedgerTypes
    <2>1. CASE Tick
      BY <2>0, <2>1 DEF Tick, BrokerShows, InOnePiece
    <2>2. ASSUME NEW o \in Orders, BrokerCancel(o)
          PROVE  stream \subseteq stream' /\ BrokerShows'
      <3> DEFINE e == [order |-> o, qty |-> 0, cum |-> cum[o], at |-> now, over |-> TRUE]
      <3>1. o \notin over /\ over' = over \cup {o} /\ cum' = cum /\ stream' = stream \cup {e}
        BY <2>2 DEF BrokerCancel, Emit
      <3>2. e.order = o /\ e.qty = 0 /\ e.cum = cum[o]
        BY Zenon
      <3> HIDE DEF e
      <3>3. \A f : InOnePiece(f)' => InOnePiece(f)
        BY <3>1, StampsStay
      <3>4. \A p \in Orders : /\ cum'[p] > 0 => \E u \in stream' : u.order = p /\ u.qty > 0
                              /\ p \notin over' /\ cum'[p] > 0 => ~InOnePiece(p)'
        BY <2>0, <3>1, <3>3 DEF BrokerShows
      <3>5. ASSUME NEW u \in stream', u.qty = 0, u.cum > 0
            PROVE  ~InOnePiece(u.order)'
        <4>1. CASE u \in stream
          BY <2>0, <3>3, <3>5, <4>1 DEF BrokerShows
        <4>2. CASE u = e
          BY <2>0, <3>1, <3>2, <3>3, <3>5, <4>2 DEF BrokerShows
        <4> QED BY <3>1, <4>1, <4>2
      <3> QED BY <3>1, <3>4, <3>5 DEF BrokerShows
    <2>3. ASSUME NEW o \in Orders, NEW q \in 1 .. Shares[o], NEW last \in BOOLEAN, BrokerFill(o, q, last)
          PROVE  stream \subseteq stream' /\ BrokerShows'
      <3> DEFINE e == [order |-> o, qty |-> q, cum |-> cum'[o], at |-> now, over |-> last]
      <3>1. /\ o \notin over /\ over' = (IF last THEN over \cup {o} ELSE over)
            /\ cum' = [cum EXCEPT ![o] = @ + q] /\ stream' = stream \cup {e}
        BY <2>3 DEF BrokerFill, Emit
      <3>2. e.order = o /\ e.qty = q /\ q > 0
        <4>1. Shares[o] \in Nat
          BY OrdersAssumption
        <4> QED BY <4>1
      <3>3. e.over = last
        BY Zenon
      <3> HIDE DEF e
      <3>4. \A f : InOnePiece(f)' => InOnePiece(f)
        BY <3>1, StampsStay
      <3>5. ASSUME NEW p \in Orders
            PROVE  /\ cum'[p] > 0 => \E u \in stream' : u.order = p /\ u.qty > 0
                   /\ p \notin over' /\ cum'[p] > 0 => ~InOnePiece(p)'
        <4>1. CASE p # o
          <5>1. cum'[p] = cum[p] /\ (p \notin over' => p \notin over)
            BY <2>0, <3>1, <4>1
          <5> QED BY <2>0, <3>1, <3>4, <5>1 DEF BrokerShows
        <4>2. CASE p = o
          <5>1. e \in stream' /\ e.order = p /\ e.qty > 0
            BY <3>1, <3>2, <4>2
          <5>2. p \notin over' => ~InOnePiece(p)'
            <6> SUFFICES ASSUME p \notin over' PROVE ~InOnePiece(p)'
              OBVIOUS
            <6>1. ~last
              BY <3>1, <4>2
            <6> QED BY <3>3, <5>1, <6>1 DEF InOnePiece
          <5> QED BY <5>1, <5>2
        <4> QED BY <4>1, <4>2
      <3>6. ASSUME NEW u \in stream', u.qty = 0, u.cum > 0
            PROVE  ~InOnePiece(u.order)'
        <4>1. CASE u \in stream
          BY <2>0, <3>4, <3>6, <4>1 DEF BrokerShows
        <4>2. CASE u = e
          BY <3>2, <3>6, <4>2
        <4> QED BY <3>1, <4>1, <4>2
      <3> QED BY <3>1, <3>5, <3>6 DEF BrokerShows
    <2> QED BY <2>1, <2>2, <2>3 DEF BrokerStep
  <1>3. (\A f, t : Stamped(f, t) => Stamped(f, t)') /\ \A f : InOnePiece(f)' => InOnePiece(f)
    BY <1>2, StampsStay
  <1>4. ClosesAreStamped(book)' /\ ClosesAreStamped(view)'
    BY <1>1, <1>3 DEF AgeInv, ClosesAreStamped
  <1>5. RowShows(book)' /\ RowShows(view)' /\ SnapShows' /\ (w' # IdleWriter => w'.u.cum > 0)
    BY <1>1, <1>3, PiecesAre DEF AgeInv, RowShows, SnapShows
  <1>6. PiecesShow'
    BY <1>2, <1>5 DEF PiecesShow, BrokerShows, RowShows, SnapShows
  <1> QED BY <1>4, <1>6 DEF AgeInv

(* A step of the transactions, with the broker as it was.                   *)
LEMMA AgeMoves ==
  ASSUME AgeInv, UNCHANGED broker, ClosesAreStamped(book'), ClosesAreStamped(view'),
         RowShows(book'), RowShows(view'), SnapShows', w' # IdleWriter => w'.u.cum > 0
  PROVE  AgeInv'
  <1>1. stream' = stream /\ cum' = cum /\ over' = over
    BY DEF broker
  <1>2. BrokerShows
    BY PiecesAre DEF AgeInv
  <1>3. \A f : InOnePiece(f)' <=> InOnePiece(f)
    BY <1>1 DEF InOnePiece
  <1>4. \A f, t : Stamped(f, t)' <=> Stamped(f, t)
    BY <1>1, <1>3 DEF Stamped
  <1>5. ClosesAreStamped(book)' /\ ClosesAreStamped(view)'
    BY <1>4 DEF ClosesAreStamped
  <1>6. BrokerShows' /\ RowShows(book)' /\ RowShows(view)'
    BY <1>1, <1>2, <1>3 DEF BrokerShows, RowShows
  <1>7. PiecesShow'
    BY <1>6 DEF PiecesShow, BrokerShows, RowShows, SnapShows
  <1> QED BY <1>5, <1>7 DEF AgeInv

LEMMA AgeParts ==
  ASSUME AgeInv
  PROVE  /\ ClosesAreStamped(book) /\ ClosesAreStamped(view) /\ BrokerShows
         /\ RowShows(book) /\ RowShows(view) /\ SnapShows /\ (w # IdleWriter => w.u.cum > 0)
  BY PiecesAre DEF AgeInv

(* A row that takes over a truth that shows still shows.                    *)
LEMMA RowStillShows ==
  ASSUME NEW b, NEW c, RowShows(b), NEW o \in Orders, NEW filled, NEW final,
         \A p \in Orders \ {o} : c.row[p] = b.row[p],
         c.row[o] = b.row[o] \/ c.row[o] = [filled |-> filled, final |-> final],
         filled > 0 /\ ~final => ~InOnePiece(o)
  PROVE  RowShows(c)
  <1> SUFFICES ASSUME NEW p \in Orders, c.row[p].filled > 0, ~c.row[p].final
               PROVE  ~InOnePiece(p)
    BY DEF RowShows
  <1>1. CASE c.row[p] = b.row[p]
    BY <1>1 DEF RowShows
  <1>2. CASE p = o /\ c.row[o] = [filled |-> filled, final |-> final]
    <2> DEFINE x == [filled |-> filled, final |-> final]
    <2>1. x.filled = filled /\ x.final = final
      BY Zenon
    <2> HIDE DEF x
    <2> QED BY <1>2, <2>1
  <1> QED BY <1>1, <1>2

LEMMA WriterCommitAgeInv ==
  ASSUME LedgerInv, LotsInv, AgeInv, WriterCommit
  PROVE  AgeInv'
  <1> DEFINE u == w.u
             o == w.u.order
             new == book'
             held == w.held
  <1>1. /\ w.pc = "commit" /\ w' = IdleWriter /\ UNCHANGED <<broker, r>>
        /\ new = apply_snapshot(record_execution(book, w.u, w.sees), w.u.order, w.u.cum, w.u.over)
        /\ view' = Seen(new, w.u)
    BY DEF WriterCommit
  <1>2. /\ Sound(new) /\ Extends(book, new, held, o, u.at) /\ Extends(book, new, WantedLots, o, u.at)
        /\ HasLedger(new) /\ u \in Update /\ u \in stream
        /\ held \in SUBSET DOMAIN book.lots /\ held \cap r.held = {}
        /\ \A p \in Orders \ {o} : new.row[p] = book.row[p]
        /\ new.row[o] = book.row[o] \/ new.row[o] = [filled |-> u.cum, final |-> u.over]
    BY <1>1, WriterBooks
  <1>3. LotTypes(book) /\ LotTypes(view) /\ SharedLots /\ SharedParked /\ LotTypes(new) /\ LedgerTypes
    BY <1>2 DEF LotsInv, LedgerInv, Sound
  <1>4. o \in Orders /\ w # IdleWriter /\ u.at \in Time /\ u.qty \in Nat /\ u.cum > 0
    <2>1. o \in Orders /\ u.at \in Time /\ u.qty \in Nat
      BY <1>2 DEF Update
    <2>2. w # IdleWriter
      BY <1>1 DEF IdleWriter
    <2> QED BY <2>1, <2>2, AgeParts
  <1> HIDE DEF new
  <1>5. Merged(view', new, held, o)
    BY <1>1, <1>2, <1>3, SeenIs
  <1>6. Mine(new, held) \in SUBSET DOMAIN new.lots
    BY <1>2, <1>3, SeenIs
  <1>7. Stamped(o, u.at)
    <2>1. InOnePiece(o) => u.qty # 0
      BY <1>2, <1>4, AgeParts DEF BrokerShows
    <2>2. u.at \in Int
      BY <1>4, BoundsAssumption DEF Time
    <2>3. u.qty # 0 => u.qty > 0
      BY <1>4
    <2> QED BY <1>2, <2>1, <2>2, <2>3 DEF Stamped
  <1>8. ClosesAreStamped(new)
    <2>1. WantedLots \in SUBSET DOMAIN book.lots
      BY DEF WantedLots, open_lots
    <2>2. \A i \in WantedLots : Strategy[o] = NoStrategy => book.lots[i].opened <= u.at
      BY OpenLotsAreOlder DEF WantedLots
    <2> HIDE DEF o, u
    <2> QED BY <1>2, <1>3, <1>4, <1>7, <2>1, <2>2, AgeParts, FillIsStamped
  <1>9. ClosesAreStamped(view')
    <2>1. ClosesAreStamped(view)
      BY AgeParts
    <2>2. ASSUME NEW i \in DOMAIN view'.lots, NEW f \in Orders, view'.closes[i][f] > 0
          PROVE  Stamped(f, view'.lots[i].opened)
      <3>1. CASE i \in Mine(new, held)
        <4>1. view'.lots[i] = new.lots[i] /\ view'.closes[i] = new.closes[i] /\ i \in DOMAIN new.lots
          BY <1>5, <1>6, <3>1 DEF Merged
        <4> QED BY <1>8, <2>2, <4>1 DEF ClosesAreStamped
      <3>2. CASE i \notin Mine(new, held)
        <4>1. /\ view'.lots[i] = view.lots[i] /\ view'.closes[i] = view.closes[i]
              /\ i \in DOMAIN view.lots
          BY <1>5, <3>2 DEF Merged
        <4> QED BY <2>1, <2>2, <4>1 DEF ClosesAreStamped
      <3> QED BY <3>1, <3>2
    <2>3. ASSUME NEW a \in DOMAIN view'.parked
          PROVE  Stamped(view'.parked[a].order, view'.parked[a].at)
      <3>1. CASE a \in Fresh(new)
        BY <1>5, <1>8, <3>1 DEF Merged, Fresh, ClosesAreStamped
      <3>2. CASE a \notin Fresh(new)
        BY <1>5, <2>1, <3>2 DEF Merged, ClosesAreStamped
      <3> QED BY <3>1, <3>2
    <2> QED BY <2>2, <2>3 DEF ClosesAreStamped
  <1>10. u.cum > 0 /\ ~u.over => ~InOnePiece(o)
    BY <1>2 DEF InOnePiece
  <1>11. RowShows(new)
    <2> DEFINE filled == u.cum
               final == u.over
    <2>1. /\ new.row[o] = book.row[o] \/ new.row[o] = [filled |-> filled, final |-> final]
          /\ filled > 0 /\ ~final => ~InOnePiece(o)
      BY <1>2, <1>10
    <2>2. \A p \in Orders \ {o} : new.row[p] = book.row[p]
      BY <1>2
    <2> HIDE DEF filled, final, o
    <2> QED BY <1>4, <2>1, <2>2, AgeParts, RowStillShows
  <1>12. RowShows(view')
    <2>1. \A p \in Orders : view'.row[p] = IF p = o THEN new.row[p] ELSE view.row[p]
      <3>1. view.row \in [Orders -> [filled : Nat, final : BOOLEAN]]
        BY DEF LedgerInv, LedgerTypes, HasLedger
      <3> QED BY <1>5, <3>1 DEF Merged
    <2> QED BY <1>11, <2>1, AgeParts DEF RowShows
  <1>13. SnapShows'
    <2>1. stream' = stream
      BY <1>1 DEF broker
    <2> QED BY <1>1, <2>1, AgeParts DEF SnapShows, InOnePiece
  <1> QED BY <1>1, <1>8, <1>9, <1>11, <1>12, <1>13, AgeMoves DEF new

(* The writer's other steps: an event that adds something has executed.     *)
LEMMA WriterStepAgeInv ==
  ASSUME LedgerInv, AgeInv,
         (\E u \in stream : Locate(u)) \/ LockLots \/ WriterConflict \/ WriterAbort
  PROVE  AgeInv'
  <1>1. UNCHANGED <<broker, book, view, r>>
    BY DEF Locate, LockLots, WriterConflict, WriterAbort
  <1>2. w' # IdleWriter => w'.u.cum > 0
    <2>1. CASE \E u \in stream : Locate(u)
      <3>1. PICK u \in stream : Locate(u)
        BY <2>1
      <3>2. u \in Update /\ HasLedger(book) /\ Gap(book, u) + Effective(book, u) > 0
        BY <3>1 DEF LedgerInv, LedgerTypes, Locate
      <3>3. w' = [pc |-> "lots", u |-> u, sees |-> DOMAIN book.lots, held |-> {}, pos |-> 0]
        BY <3>1 DEF Locate
      <3> DEFINE g == Gap(book, u)
                 e == Effective(book, u)
                 k == book.booked[u.order]
                 x == u.cum - u.qty - k
                 y == u.cum - k - g
                 z == IF u.qty <= y THEN u.qty ELSE y
      <3>4. g = (IF x <= 0 THEN 0 ELSE x) /\ e = (IF z <= 0 THEN 0 ELSE z) /\ g + e > 0
        BY <3>2, GapAndEffective
      <3>5. u.cum \in Nat /\ u.qty \in Nat /\ k \in Nat
        BY <3>2 DEF Update, HasLedger
      <3> HIDE DEF g, e, k
      <3>6. u.cum > 0
        BY <3>4, <3>5
      <3> QED BY <3>3, <3>6
    <2>2. CASE LockLots
      <3>1. w # IdleWriter /\ w = [pc |-> w.pc, u |-> w.u, sees |-> w.sees, held |-> w.held, pos |-> w.pos]
        BY <2>2 DEF LockLots, LedgerInv, Transactions, IdleWriter
      <3>2. w'.u = w.u
        BY <2>2, <3>1 DEF LockLots
      <3> QED BY <3>1, <3>2, AgeParts
    <2>3. CASE WriterConflict \/ WriterAbort
      BY <2>3 DEF WriterConflict, WriterAbort
    <2> QED BY <2>1, <2>2, <2>3
  <1>3. stream' = stream
    BY <1>1 DEF broker
  <1>4. SnapShows'
    BY <1>1, <1>3, AgeParts DEF SnapShows, InOnePiece
  <1> QED BY <1>1, <1>2, <1>4, AgeParts, AgeMoves

LEMMA ApplySnapshotOnlyAgeInv ==
  ASSUME LedgerInv, AgeInv, NEW u \in stream, ApplySnapshotOnly(u)
  PROVE  AgeInv'
  <1>1. u \in Update /\ HasLedger(book) /\ HasLedger(view)
    BY DEF LedgerInv, LedgerTypes
  <1>2. UNCHANGED <<broker, w, r>> /\ stream' = stream
    BY DEF ApplySnapshotOnly, broker
  <1> DEFINE o == u.order
             filled == u.cum
             final == u.over
  <1>3. o \in Orders /\ filled \in Nat /\ final \in BOOLEAN
    BY <1>1 DEF Update
  <1>4. filled > 0 /\ ~final => ~InOnePiece(o)
    BY DEF InOnePiece
  <1>5. book' = apply_snapshot(book, o, filled, final) /\ view' = apply_snapshot(view, o, filled, final)
    BY DEF ApplySnapshotOnly
  <1> HIDE DEF o, filled, final
  <1>6. ASSUME NEW b, HasLedger(b), RowShows(b), ClosesAreStamped(b)
        PROVE  LET c == apply_snapshot(b, o, filled, final) IN RowShows(c) /\ ClosesAreStamped(c)
    <2> DEFINE c == apply_snapshot(b, o, filled, final)
    <2>1. /\ \A p \in Orders \ {o} : c.row[p] = b.row[p]
          /\ c.row[o] = b.row[o] \/ c.row[o] = [filled |-> filled, final |-> final]
      BY <1>3, <1>6, SnapshotKeepsLedger
    <2>2. SameLots(b, c)
      BY <1>3, <1>6, SnapshotKeepsLots
    <2> HIDE DEF c
    <2>3. RowShows(c)
      BY <1>3, <1>4, <1>6, <2>1, RowStillShows
    <2> QED BY <1>6, <2>2, <2>3, SameLotsStamped DEF c
  <1>7. /\ RowShows(book') /\ RowShows(view')
        /\ ClosesAreStamped(book') /\ ClosesAreStamped(view')
    BY <1>1, <1>5, <1>6, AgeParts
  <1>8. SnapShows' /\ (w' # IdleWriter => w'.u.cum > 0)
    BY <1>2, AgeParts DEF SnapShows, InOnePiece
  <1> QED BY <1>2, <1>7, <1>8, AgeMoves

(* What the open list says of an order in one piece is nothing.             *)
LEMMA ReadsAgeInv ==
  ASSUME LedgerInv, AgeInv,
         ReadAccount \/ (\E glitch \in BOOLEAN : ReadPositions(glitch)) \/ ReadOrders
           \/ ListDeficits \/ ListRemainders
  PROVE  AgeInv'
  <1>1. UNCHANGED <<broker, book, view, w>>
    BY DEF ReadAccount, ReadPositions, ReadOrders, ListDeficits, ListRemainders
  <1>2. stream' = stream
    BY <1>1 DEF broker
  <1>3. r = [pc |-> r.pc, value |-> r.value, list |-> r.list, real |-> r.real, at |-> r.at,
             snap |-> r.snap, todo |-> r.todo, rows |-> r.rows, held |-> r.held]
    BY DEF LedgerInv, Transactions
  <1>4. SnapShows'
    <2>1. CASE ReadOrders
      <3>0. PICK later :
              r' = [r EXCEPT !.pc = "adopt", !.at = now,
                             !.snap = [o \in Orders \ (over \cup later) |-> cum[o]],
                             !.todo = ((Orders \ over) \cup {o \in Orders : ~view.row[o].final}) \ later]
        BY <2>1, Zenon DEF ReadOrders
      <3>1. r'.snap = [o \in Orders \ (over \cup later) |-> cum[o]]
        BY <1>3, <3>0
      <3>2. ASSUME NEW o \in Orders, o \in DOMAIN r'.snap, r'.snap[o] > 0
            PROVE  ~InOnePiece(o)
        <4>1. o \notin over /\ cum[o] > 0
          BY <3>1, <3>2
        <4>2. BrokerShows
          BY AgeParts
        <4> QED BY <4>1, <4>2 DEF BrokerShows
      <3> QED BY <1>2, <3>2 DEF SnapShows, InOnePiece
    <2>2. CASE ReadAccount \/ (\E glitch \in BOOLEAN : ReadPositions(glitch)) \/ ListDeficits \/ ListRemainders
      <3>1. r'.pc # "adopt"
        BY <1>3, <2>2 DEF ReadAccount, ReadPositions, ListDeficits, ListRemainders
      <3> QED BY <3>1 DEF SnapShows
    <2> QED BY <2>1, <2>2
  <1> QED BY <1>1, <1>4, AgeParts, AgeMoves

LEMMA AdoptIntoAgeInv ==
  ASSUME LedgerInv, LotsInv, AgeInv, NEW o \in Orders, NEW target \in Nat, NEW stamp \in Time,
         NEW final \in BOOLEAN, r.pc \in {"adopt", "sweep"}, AdoptInto(view, o, target, final, stamp),
         target > 0 => Stamped(o, stamp), target > 0 /\ ~final => ~InOnePiece(o)
  PROVE  AgeInv'
  <1> DEFINE missed == target - view.booked[o]
             m == open_lots(view, o, stamp, DOMAIN view.lots)
             filled == record_fill(view, o, missed, stamp, DOMAIN view.lots)
  <1>1. /\ HasLedger(view) /\ Sound(view) /\ LotTypes(view) /\ missed \in Int /\ LedgerTypes
        /\ missed > 0 => target > 0
    <2>1. HasLedger(view) /\ view.booked \in [Orders -> Nat] /\ LedgerTypes
      BY DEF LedgerInv, LedgerTypes, HasLedger
    <2> QED BY <2>1, LotsInvSound DEF LotsInv
  <1>2. /\ UNCHANGED <<broker, book, position, w>>
        /\ view' = apply_snapshot(filled, o, target, final)
        /\ r' = [r EXCEPT !.todo = @ \ {o}, !.rows = @ \cup {o},
                          !.held = IF missed > 0 THEN @ \cup m ELSE @]
    BY DEF AdoptInto
  <1>3. m \in SUBSET DOMAIN view.lots
    BY DEF open_lots
  <1>4. missed <= 0 => filled = view
    BY DEF record_fill
  <1> HIDE DEF missed, m
  <1>5. Sound(filled) /\ Extends(view, filled, IF missed > 0 THEN m ELSE {}, o, stamp)
    BY <1>1, RecordFillLots DEF missed, m
  <1>6. HasLedger(filled) /\ filled.row = view.row
    <2>1. HasLedger(view) /\ missed \in Int
      BY <1>1
    <2>2. /\ HasLedger(filled) /\ filled.row = view.row
          /\ filled.booked = IF missed > 0 THEN [view.booked EXCEPT ![o] = @ + missed] ELSE view.booked
      BY <2>1, RecordFillBooks
    <2> QED BY <2>2
  <1> HIDE DEF filled
  <1>7. ClosesAreStamped(filled)
    <2>1. CASE missed > 0
      <3>1. \A i \in m : Strategy[o] = NoStrategy => view.lots[i].opened <= stamp
        BY OpenLotsAreOlder DEF m
      <3>2. Extends(view, filled, m, o, stamp) /\ Stamped(o, stamp) /\ LotTypes(filled)
        BY <1>1, <1>5, <2>1 DEF Sound
      <3> QED BY <1>1, <1>3, <3>1, <3>2, AgeParts, FillIsStamped
    <2>2. CASE ~(missed > 0)
      <3>1. missed <= 0
        BY <1>1, <2>2
      <3> QED BY <1>4, <3>1, AgeParts
    <2> QED BY <2>1, <2>2
  <1>8. ClosesAreStamped(view')
    <2>1. SameLots(filled, view')
      BY <1>2, <1>6, SnapshotKeepsLots
    <2> QED BY <1>7, <2>1, SameLotsStamped
  <1>9. RowShows(view')
    <2> DEFINE c == apply_snapshot(filled, o, target, final)
    <2>1. /\ \A p \in Orders \ {o} : c.row[p] = filled.row[p]
          /\ c.row[o] = filled.row[o] \/ c.row[o] = [filled |-> target, final |-> final]
      BY <1>6, SnapshotKeepsLedger
    <2> HIDE DEF c
    <2>2. RowShows(c)
      BY <1>6, <2>1, AgeParts, RowStillShows
    <2> QED BY <1>2, <2>2 DEF c
  <1>10. SnapShows'
    <2>1. r = [pc |-> r.pc, value |-> r.value, list |-> r.list, real |-> r.real, at |-> r.at,
               snap |-> r.snap, todo |-> r.todo, rows |-> r.rows, held |-> r.held]
      BY DEF LedgerInv, Transactions
    <2>2. r'.pc = r.pc /\ r'.snap = r.snap
      BY <1>2, <2>1
    <2>3. stream' = stream
      BY <1>2 DEF broker
    <2> QED BY <2>2, <2>3, AgeParts DEF SnapShows, InOnePiece
  <1> QED BY <1>2, <1>8, <1>9, <1>10, AgeParts, AgeMoves

(* An order that is filled in one piece has its stamp from its one print.   *)
LEMMA StampIsAPrint ==
  ASSUME LedgerInv, AgeInv, NEW o \in Orders, NEW t \in Time, cum[o] > 0
  PROVE  Stamped(o, FilledAt(o, t))
  <1> SUFFICES ASSUME InOnePiece(o)
               PROVE  \E u \in stream : u.order = o /\ u.qty > 0 /\ FilledAt(o, t) <= u.at
    BY DEF Stamped
  <1>1. LedgerTypes
    BY DEF LedgerInv
  <1>2. PICK u \in stream : u.order = o /\ u.qty > 0
    BY AgeParts DEF BrokerShows
  <1>3. Filled(o)
    BY <1>2 DEF Filled, InOnePiece
  <1>4. FilledAt(o, t) \in Prints(o)
    BY <1>1, <1>3, StampType
  <1>5. PICK v \in stream : v.order = o /\ v.qty > 0 /\ v.at = FilledAt(o, t)
    BY <1>4 DEF Prints
  <1>6. v.at \in Int
    BY <1>1, BoundsAssumption DEF LedgerTypes, Update, Time
  <1> QED BY <1>5, <1>6

LEMMA AdoptionAgeInv ==
  ASSUME LedgerInv, LotsInv, AgeInv, Adoption
  PROVE  AgeInv'
  <1>1. LedgerTypes /\ r.at \in Time /\ cum \in [Orders -> Nat]
    BY DEF LedgerInv, LedgerTypes, LotsInv, PositionTypes
  <1>2. PICK o \in Orders : \/ AdoptListed(o) \/ AdoptLookedUp(o)
                            \/ \E known \in BOOLEAN : sweep_ledger_deficits(o, known)
    BY DEF Adoption
  <1>3. FilledAt(o, r.at) \in Time
    BY <1>1, StampType
  <1>4. CASE AdoptListed(o)
    <2>1. PICK final \in BOOLEAN : ~final /\ r.pc = "adopt" /\ AdoptInto(view, o, r.snap[o], final, r.at)
      BY <1>4, Zenon DEF AdoptListed
    <2>2. r.snap[o] \in Nat /\ o \in DOMAIN r.snap
      BY <1>4 DEF AdoptListed, LedgerInv, ListIsBooked
    <2>3. r.snap[o] > 0 => ~InOnePiece(o)
      BY <2>1, <2>2, AgeParts DEF SnapShows
    <2>4. r.snap[o] > 0 => Stamped(o, r.at)
      BY <2>3 DEF Stamped
    <2> QED BY <1>1, <2>1, <2>2, <2>3, <2>4, AdoptIntoAgeInv
  <1>5. ASSUME r.pc \in {"adopt", "sweep"}, AdoptInto(view, o, cum[o], o \in over, FilledAt(o, r.at))
        PROVE  AgeInv'
    <2> DEFINE final == o \in over
    <2>0. AdoptInto(view, o, cum[o], final, FilledAt(o, r.at))
      BY <1>5, Zenon
    <2>4. final \in BOOLEAN
      OBVIOUS
    <2>1. cum[o] > 0 => Stamped(o, FilledAt(o, r.at))
      BY <1>1, StampIsAPrint
    <2>2. cum[o] > 0 /\ ~final => ~InOnePiece(o)
      BY AgeParts DEF BrokerShows
    <2>3. cum[o] \in Nat
      BY <1>1
    <2> HIDE DEF final
    <2> QED BY <1>3, <1>5, <2>0, <2>4, <2>1, <2>2, <2>3, AdoptIntoAgeInv
  <1>6. CASE AdoptLookedUp(o)
    BY <1>5, <1>6, Zenon DEF AdoptLookedUp
  <1>7. ASSUME NEW known \in BOOLEAN, sweep_ledger_deficits(o, known)
        PROVE  AgeInv'
    <2>1. CASE known
      BY <1>5, <1>7, <2>1, Zenon DEF sweep_ledger_deficits
    <2>2. CASE ~known
      <3> DEFINE stamp == IF view.row[o].final THEN FilledAt(o, r.at) ELSE r.at
      <3>1. stamp \in Time
        BY <1>1, <1>3
      <3>2. view.row[o].filled \in Nat /\ view.row[o].final \in BOOLEAN
        BY <1>1 DEF LedgerTypes, HasLedger
      <3>3. PICK final \in BOOLEAN : /\ final <=> view.row[o].final
                                     /\ r.pc = "sweep"
                                     /\ AdoptInto(view, o, view.row[o].filled, final, stamp)
        BY <1>7, <2>2, <3>2, Zenon DEF sweep_ledger_deficits
      <3>4. view.row[o].filled > 0 /\ ~final => ~InOnePiece(o)
        BY <3>3, AgeParts DEF RowShows
      <3>5. view.row[o].filled > 0 => Stamped(o, stamp)
        <4>1. CASE view.row[o].final
          <5>1. view.row[o].filled = cum[o]
            BY <4>1 DEF LedgerInv, RowsAreTrue
          <5> QED BY <1>1, <4>1, <5>1, StampIsAPrint
        <4>2. CASE ~view.row[o].final
          BY <3>3, <3>4, <4>2 DEF Stamped
        <4> QED BY <4>1, <4>2
      <3> HIDE DEF stamp
      <3> QED BY <3>1, <3>2, <3>3, <3>4, <3>5, AdoptIntoAgeInv
    <2> QED BY <2>1, <2>2
  <1> QED BY <1>2, <1>4, <1>6, <1>7

(* A retried remainder keeps the stamp it was parked with.                  *)
LEMMA RetryAgeInv ==
  ASSUME LedgerInv, LotsInv, AgeInv, NEW a \in DOMAIN view.parked, retry_unapplied_remainder(a)
  PROVE  AgeInv'
  <1> DEFINE o == view.parked[a].order
             at == view.parked[a].at
             m == open_lots(view, o, at, DOMAIN view.lots)
             d == Unpark(view, a)
             e == OneMoreFailed(view, a)
  <1>1. /\ r.pc = "retry" /\ r.todo # {} /\ a = Min(r.todo)
        /\ r' = [r EXCEPT !.todo = @ \ {a}, !.held = @ \cup m]
        /\ view' = retried(view, a) /\ UNCHANGED <<broker, book, position, w>>
    BY DEF retry_unapplied_remainder
  <1>2. /\ HasLedger(view) /\ Sound(view) /\ LotTypes(view) /\ LedgerTypes
    BY LotsInvSound DEF LedgerInv, LedgerTypes, LotsInv
  <1>3. a \in r.todo /\ view.parked[a].open
    <2>1. \A x \in r.todo : x \in DOMAIN view.parked /\ view.parked[x].open
      BY <1>1 DEF LotsInv, SharedParked
    <2>2. r.todo \in SUBSET Nat
      BY <1>2, <2>1 DEF LotTypes
    <2>3. Min(r.todo) \in r.todo
      BY <1>1, <2>2, MinOfNats
    <2> QED BY <1>1, <2>1, <2>3
  <1>4. Sound(view') /\ (view' = e \/ Extends(d, view', m, o, at))
    BY <1>1, <1>2, <1>3, RetriedLots
  <1>5. r'.pc = "retry"
    <2>1. r = [pc |-> r.pc, value |-> r.value, list |-> r.list, real |-> r.real, at |-> r.at,
               snap |-> r.snap, todo |-> r.todo, rows |-> r.rows, held |-> r.held]
      BY DEF LedgerInv, Transactions
    <2> HIDE DEF m
    <2> QED BY <1>1, <2>1
  <1>6. view'.row = view.row
    BY <1>1, <1>2, RetriedKeepsLedger
  <1>7. ClosesAreStamped(view')
    <2>1. CASE view' = e
      <3>1. /\ e.lots = view.lots /\ e.closes = view.closes /\ DOMAIN e.parked = DOMAIN view.parked
            /\ \A y \in DOMAIN view.parked :
                 e.parked[y].order = view.parked[y].order /\ e.parked[y].at = view.parked[y].at
        BY <1>2, FailedIs
      <3> HIDE DEF e
      <3> QED BY <2>1, <3>1, AgeParts DEF ClosesAreStamped
    <2>2. CASE Extends(d, view', m, o, at)
      <3>1. /\ d.lots = view.lots /\ d.closes = view.closes /\ DOMAIN d.parked = DOMAIN view.parked
            /\ LotTypes(d)
            /\ \A y \in DOMAIN view.parked \ {a} : d.parked[y] = view.parked[y]
            /\ d.parked[a].order = o /\ d.parked[a].at = at
        BY <1>2, UnparkIs
      <3>2. m \in SUBSET DOMAIN d.lots
        BY <3>1 DEF open_lots
      <3>3. \A i \in m : Strategy[o] = NoStrategy => d.lots[i].opened <= at
        BY <3>1, OpenLotsAreOlder
      <3>4. o \in Orders /\ at \in Time
        BY <1>2 DEF LotTypes, Anomaly
      <3>5. Stamped(o, at)
        BY AgeParts DEF ClosesAreStamped
      <3> HIDE DEF d, m, o, at
      <3>6. ClosesAreStamped(d)
        <4>1. \A i \in DOMAIN d.lots, f \in Orders : d.closes[i][f] > 0 => Stamped(f, d.lots[i].opened)
          BY <3>1, AgeParts DEF ClosesAreStamped
        <4>2. ASSUME NEW y \in DOMAIN d.parked
              PROVE  Stamped(d.parked[y].order, d.parked[y].at)
          <5>1. CASE y = a
            BY <3>1, <3>5, <5>1
          <5>2. CASE y # a
            BY <3>1, <4>2, <5>2, AgeParts DEF ClosesAreStamped
          <5> QED BY <5>1, <5>2
        <4> QED BY <4>1, <4>2 DEF ClosesAreStamped
      <3>7. LotTypes(view')
        BY <1>4 DEF Sound
      <3> QED BY <1>2, <2>2, <3>1, <3>2, <3>3, <3>4, <3>5, <3>6, <3>7, FillIsStamped
    <2> QED BY <1>4, <2>1, <2>2
  <1>8. RowShows(view')
    BY <1>6, AgeParts DEF RowShows
  <1>9. SnapShows'
    BY <1>5 DEF SnapShows
  <1> QED BY <1>1, <1>7, <1>8, <1>9, AgeParts, AgeMoves

(* The reconcile is over: committed, rolled back, or a deadlock's victim.   *)
LEMMA ReconcileEndAgeInv ==
  ASSUME AgeInv, UNCHANGED broker, r' = IdleReconcile \/ r' = r, w' = w \/ w' = IdleWriter,
         book' \in {book, view}, view' \in {book, view}
  PROVE  AgeInv'
  <1>1. stream' = stream
    BY DEF broker
  <1>2. SnapShows'
    BY <1>1, AgeParts DEF SnapShows, IdleReconcile, InOnePiece
  <1> QED BY <1>2, AgeParts, AgeMoves

LEMMA SyncAgeInv ==
  ASSUME LedgerInv, AgeInv, SyncPortfolio
  PROVE  AgeInv'
  <1> DEFINE synced(b) == [b EXCEPT !.row = [o \in Orders |->
                             apply_snapshot(b, o, cum[o], o \in over).row[o]]]
  <1>1. /\ view' = synced(view) /\ book' = synced(book) /\ UNCHANGED <<broker, w, r>>
    BY DEF SyncPortfolio
  <1>2. HasLedger(book) /\ HasLedger(view) /\ cum \in [Orders -> Nat]
    BY DEF LedgerInv, LedgerTypes
  <1>3. ASSUME NEW b, HasLedger(b), RowShows(b), ClosesAreStamped(b)
        PROVE  RowShows(synced(b)) /\ ClosesAreStamped(synced(b))
    <2> DEFINE row(o) == apply_snapshot(b, o, cum[o], o \in over).row[o]
               rows == [o \in Orders |-> row(o)]
    <2>1. synced(b) = [b EXCEPT !.row = rows]
      OBVIOUS
    <2>2. \A o \in Orders : row(o).filled > 0 /\ ~row(o).final => ~InOnePiece(o)
      <3> SUFFICES ASSUME NEW o \in Orders, row(o).filled > 0, ~row(o).final
                   PROVE  ~InOnePiece(o)
        OBVIOUS
      <3> DEFINE final == o \in over
                 c == apply_snapshot(b, o, cum[o], final)
      <3>1. final \in BOOLEAN
        OBVIOUS
      <3>2. cum[o] > 0 /\ ~final => ~InOnePiece(o)
        BY AgeParts DEF BrokerShows
      <3>3. row(o) = c.row[o]
        OBVIOUS
      <3> HIDE DEF final, row
      <3>4. c.row[o] = b.row[o] \/ c.row[o] = [filled |-> cum[o], final |-> final]
        BY <1>2, <1>3, <3>1, SnapshotKeepsLedger
      <3> HIDE DEF c
      <3>5. CASE c.row[o] = b.row[o]
        BY <1>3, <3>3, <3>5 DEF RowShows
      <3>6. CASE c.row[o] = [filled |-> cum[o], final |-> final]
        <4> DEFINE x == [filled |-> cum[o], final |-> final]
        <4>1. x.filled = cum[o] /\ x.final = final
          BY Zenon
        <4> HIDE DEF x
        <4> QED BY <3>2, <3>3, <3>6, <4>1
      <3> QED BY <3>4, <3>5, <3>6
    <2> HIDE DEF synced, row
    <2>3. \A o \in Orders : rows[o] = row(o)
      OBVIOUS
    <2> HIDE DEF rows
    <2>4. synced(b).row = rows /\ SameLots(b, synced(b))
      BY <1>3, <2>1 DEF HasLedger, SameLots
    <2>5. RowShows(synced(b))
      BY <2>2, <2>3, <2>4 DEF RowShows
    <2> QED BY <1>3, <2>4, <2>5, SameLotsStamped
  <1>4. /\ RowShows(book') /\ RowShows(view')
        /\ ClosesAreStamped(book') /\ ClosesAreStamped(view')
    <2> HIDE DEF synced
    <2> QED BY <1>1, <1>2, <1>3, AgeParts
  <1>5. stream' = stream
    BY <1>1 DEF broker
  <1>6. SnapShows' /\ (w' # IdleWriter => w'.u.cum > 0)
    BY <1>1, <1>5, AgeParts DEF SnapShows, InOnePiece
  <1> QED BY <1>1, <1>4, <1>6, AgeMoves

LEMMA NextAgeInv == LedgerInv /\ LotsInv /\ AgeInv /\ [Next]_vars => AgeInv'
  <1> SUFFICES ASSUME LedgerInv, LotsInv, AgeInv, [Next]_vars PROVE AgeInv'
    OBVIOUS
  <1>1. CASE BrokerStep
    BY <1>1, BrokerStepAgeInv
  <1>2. CASE WriterStep \/ WriterAbort
    BY <1>2, ApplySnapshotOnlyAgeInv, WriterCommitAgeInv, WriterStepAgeInv DEF WriterStep
  <1>3. CASE ReconcileCommit
    <2>1. UNCHANGED <<broker, view, w>> /\ book' = view /\ r' = IdleReconcile
      BY <1>3 DEF ReconcileCommit
    <2> QED BY <2>1, ReconcileEndAgeInv
  <1>4. CASE ReconcileAbort
    <2>1. UNCHANGED <<broker, book, w>> /\ view' = book /\ r' = IdleReconcile
      BY <1>4 DEF ReconcileAbort
    <2> QED BY <2>1, ReconcileEndAgeInv
  <1>5. CASE ReconcileStep \/ ReadPositions(TRUE)
    <2>1. CASE Adoption
      BY <2>1, AdoptionAgeInv
    <2>2. CASE \/ ReadAccount \/ (\E glitch \in BOOLEAN : ReadPositions(glitch)) \/ ReadOrders
               \/ ListDeficits \/ ListRemainders
      BY <2>2, ReadsAgeInv
    <2>3. CASE \E a \in DOMAIN view.parked : retry_unapplied_remainder(a)
      BY <2>3, RetryAgeInv
    <2> QED BY <1>3, <1>5, <2>1, <2>2, <2>3 DEF ReconcileStep
  <1>6. CASE BreakDeadlock
    <2>1. /\ UNCHANGED <<broker, book>>
          /\ \/ w' = IdleWriter /\ UNCHANGED <<view, r>>
             \/ view' = book /\ r' = IdleReconcile /\ UNCHANGED w
      BY <1>6 DEF BreakDeadlock
    <2> QED BY <2>1, ReconcileEndAgeInv
  <1>7. CASE SyncPortfolio
    BY <1>7, SyncAgeInv
  <1>8. CASE UNCHANGED vars
    <2>1. UNCHANGED <<broker, book, view, w, r>>
      BY <1>8 DEF vars
    <2> QED BY <2>1, ReconcileEndAgeInv
  <1> QED BY <1>1, <1>2, <1>3, <1>4, <1>5, <1>6, <1>7, <1>8 DEF Next

(* A liquidation that executed in one piece never closes a lot opened after *)
(* it printed, whichever of the two transactions books the two, however     *)
(* late, and however often a remainder of it was parked and retried.        *)
THEOREM LiquidationsCloseOlder == Spec => []LiquidationClosesOlder
  <1>1. Init => AgeInv
    BY InitAgeInv
  <1>2. IInv /\ AgeInv /\ [Next]_vars => AgeInv'
    BY NextAgeInv DEF IInv
  <1>3. IInv /\ AgeInv => LiquidationClosesOlder
    <2> SUFFICES ASSUME LedgerInv, LotsInv, AgeInv, NEW i \in DOMAIN book.lots, NEW f \in Orders,
                        Strategy[f] = NoStrategy, InOnePiece(f), book.closes[i][f] > 0
                 PROVE  book.lots[i].opened <= Max(Prints(f))
      BY DEF IInv, LiquidationClosesOlder
    <2>1. PICK u \in stream : u.order = f /\ u.qty > 0 /\ book.lots[i].opened <= u.at
      BY AgeParts DEF ClosesAreStamped, Stamped
    <2>2. stream \in SUBSET Update /\ MaxTime \in Nat
      BY BoundsAssumption DEF LedgerInv, LedgerTypes
    <2>3. Prints(f) \in SUBSET Time /\ u.at \in Prints(f)
      BY <2>1, <2>2 DEF Prints, Update
    <2>4. IsFiniteSet(Time) /\ Time \in SUBSET Int
      BY <2>2, FS_Interval DEF Time
    <2>5. Max(Prints(f)) \in Prints(f) /\ u.at <= Max(Prints(f))
      <3> DEFINE P == Prints(f)
      <3> HIDE DEF P
      <3>1. P \in SUBSET Int /\ u.at \in P /\ IsFiniteSet(P)
        BY <2>3, <2>4, FS_Subset DEF P
      <3>2. Max(P) \in P /\ \A y \in P : Max(P) >= y
        BY <3>1, MaxOfFinite
      <3>3. Max(P) \in Int /\ u.at \in Int /\ Max(P) >= u.at
        BY <3>1, <3>2
      <3> QED BY <3>1, <3>2, <3>3 DEF P
    <2>6. book.lots[i].opened \in Int
      BY <2>2 DEF LotsInv, LotTypes, Lot, Time
    <2>7. u.at \in Int /\ Max(Prints(f)) \in Int
      BY <2>3, <2>4, <2>5
    <2> QED BY <2>1, <2>5, <2>6, <2>7
  <1> QED BY <1>1, <1>2, <1>3, LotsInvariance, PTL DEF Spec
=============================================================================
