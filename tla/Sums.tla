---------------------------------- MODULE Sums ----------------------------------
(***************************************************************************)
(* Lemmas the other proof modules share: a set of numbers has a least      *)
(* element, and what MapThenSumSet adds up over a finite set.               *)
(***************************************************************************)
EXTENDS Integers, FiniteSets, FiniteSetTheorems, NaturalsInduction, WellFoundedInduction,
        TLAPS

-----------------------------------------------------------------------------
(* A set of numbers has a least element, by which what holds of every number *)
(* is proved from its least counterexample.                                  *)

Below == {pair \in Nat \X Nat : pair[1] < pair[2]}

LEMMA LeastNumber ==
  ASSUME NEW T, T \subseteq Nat, T # {}
  PROVE  \E n \in T : \A m \in T : n <= m
  <1>1. IsWellFoundedOn(Below, Nat)
    BY NatLessThanWellFounded DEF OpToRel, Below
  <1>2. \E n \in T : \A m \in T : ~(<<m, n>> \in Below)
    BY <1>1, WFMin
  <1>3. ASSUME NEW n \in T, NEW m \in T, ~(<<m, n>> \in Below)
        PROVE  n <= m
    BY <1>3 DEF Below
  <1> QED
    BY <1>2, <1>3

-----------------------------------------------------------------------------
(* MapThenSumSet takes one element away after another; the number of units   *)
(* below says the same without an order, and is easy to reason about.        *)

Picked(T) == CHOOSE x \in T : TRUE

(* The function MapThenSumSet evaluates at S. *)
SumLoop(iter, f, S) ==
    iter = [T \in SUBSET S |-> IF T = {} THEN 0 ELSE f[Picked(T)] + iter[T \ {Picked(T)}]]

Units(f, T) == {u \in T \X Nat : 1 <= u[2] /\ u[2] <= f[u[1]]}
Tally(f) == Cardinality(Units(f, DOMAIN f))

LEMMA UnitsOfOne ==
  ASSUME NEW x, NEW n \in Nat
  PROVE  IsFiniteSet({x} \X (1 .. n)) /\ Cardinality({x} \X (1 .. n)) = n
  <1>1. IsFiniteSet({x}) /\ Cardinality({x}) = 1
    BY FS_Singleton
  <1>2. IsFiniteSet(1 .. n) /\ Cardinality(1 .. n) = n
    BY FS_Interval
  <1>3. /\ IsFiniteSet({x} \X (1 .. n))
        /\ Cardinality({x} \X (1 .. n)) = Cardinality({x}) * Cardinality(1 .. n)
    <2>1. IsFiniteSet({x}) /\ IsFiniteSet(1 .. n)
      BY <1>1, <1>2
    <2> QED
      BY <2>1, FS_Product, Zenon
  <1> QED
    BY <1>1, <1>2, <1>3

LEMMA UnitsFinite ==
  ASSUME NEW S, IsFiniteSet(S), NEW f \in [S -> Nat]
  PROVE  IsFiniteSet(Units(f, S))
  <1> DEFINE row == [x \in S |-> {x} \X (1 .. f[x])]
             rows == {row[x] : x \in S}
  <1>1. row \in Surjection(S, rows)
    BY DEF Surjection
  <1>2. IsFiniteSet(rows)
    BY <1>1, FS_Surjection
  <1>3. \A T \in rows : IsFiniteSet(T)
    <2>1. ASSUME NEW x \in S PROVE IsFiniteSet(row[x])
      <3>1. f[x] \in Nat /\ row[x] = {x} \X (1 .. f[x])
        OBVIOUS
      <3> QED
        BY <3>1, UnitsOfOne, Zenon
    <2> QED
      BY <2>1
  <1>4. IsFiniteSet(UNION rows)
    BY <1>2, <1>3, FS_UNION
  <1>5. Units(f, S) = UNION rows
    BY DEF Units
  <1> QED
    BY <1>4, <1>5

(* One element more adds its number. *)
LEMMA UnitsStep ==
  ASSUME NEW S, IsFiniteSet(S), NEW f \in [S -> Nat], NEW x \in S
  PROVE  Cardinality(Units(f, S)) = f[x] + Cardinality(Units(f, S \ {x}))
  <1> DEFINE rest == Units(f, S \ {x})
             row == {x} \X (1 .. f[x])
  <1>1. IsFiniteSet(row) /\ Cardinality(row) = f[x]
    BY UnitsOfOne
  <1>2. Units(f, S) = rest \union row /\ rest \cap row = {}
    BY DEF Units
  <1>3. IsFiniteSet(rest)
    BY UnitsFinite, FS_Subset, <1>2
  <1>4. Cardinality(rest) \in Nat
    BY <1>3, FS_CardinalityType
  <1>5. Cardinality(rest \union row)
           = Cardinality(rest) + Cardinality(row) - Cardinality(rest \cap row)
    BY <1>1, <1>3, FS_Union
  <1>6. Cardinality(rest \cap row) = 0 /\ f[x] \in Nat
    BY <1>2, FS_EmptySet
  <1> HIDE DEF rest, row
  <1>7. Cardinality(Units(f, S)) = f[x] + Cardinality(rest)
    BY <1>1, <1>2, <1>4, <1>5, <1>6
  <1> QED
    BY <1>7 DEF rest

LEMMA UnitsSub ==
  ASSUME NEW S, NEW f \in [S -> Nat], NEW T \in SUBSET S
  PROVE  LET g == [x \in T |-> f[x]] IN g \in [T -> Nat] /\ \A U \in SUBSET T : Units(g, U) = Units(f, U)
  BY DEF Units

LEMMA LoopStep ==
  ASSUME NEW S, IsFiniteSet(S), NEW f \in [S -> Nat], NEW T \in SUBSET S, T # {}
  PROVE  Cardinality(Units(f, T)) = f[Picked(T)] + Cardinality(Units(f, T \ {Picked(T)}))
  <1> DEFINE g == [x \in T |-> f[x]]
  <1>1. g \in [T -> Nat] /\ \A U \in SUBSET T : Units(g, U) = Units(f, U)
    BY UnitsSub
  <1>2. Picked(T) \in T /\ IsFiniteSet(T)
    BY FS_Subset DEF Picked
  <1>3. Cardinality(Units(g, T)) = g[Picked(T)] + Cardinality(Units(g, T \ {Picked(T)}))
    BY <1>1, <1>2, UnitsStep
  <1>4. g[Picked(T)] = f[Picked(T)] /\ T \ {Picked(T)} \in SUBSET T
    BY <1>2
  <1> QED
    BY <1>1, <1>3, <1>4

LEMMA LoopExists ==
  ASSUME NEW S, IsFiniteSet(S), NEW f \in [S -> Nat]
  PROVE  \E iter : SumLoop(iter, f, S)
  <1> DEFINE iter == [T \in SUBSET S |-> Cardinality(Units(f, T))]
  <1>1. Units(f, {}) = {}
    BY DEF Units
  <1>2. Cardinality(Units(f, {})) = 0
    BY <1>1, FS_EmptySet
  <1>3. ASSUME NEW T \in SUBSET S
        PROVE  Cardinality(Units(f, T)) = IF T = {} THEN 0 ELSE f[Picked(T)] + iter[T \ {Picked(T)}]
    BY <1>2, LoopStep, ZenonT(30)
  <1>4. SumLoop(iter, f, S)
    BY <1>3 DEF SumLoop
  <1> QED
    BY <1>4

LEMMA LoopCounts ==
  ASSUME NEW S, IsFiniteSet(S), NEW f \in [S -> Nat], NEW iter, SumLoop(iter, f, S)
  PROVE  iter[S] = Cardinality(Units(f, S))
  <1> DEFINE Wrong(T) == iter[T] # Cardinality(Units(f, T))
             sizes == {n \in Nat : \E T \in SUBSET S : Cardinality(T) = n /\ Wrong(T)}
  <1> SUFFICES ASSUME Wrong(S) PROVE FALSE
    OBVIOUS
  <1>1. \A T \in SUBSET S : IsFiniteSet(T) /\ Cardinality(T) \in Nat
    BY FS_Subset, FS_CardinalityType
  <1>2. PICK n \in sizes : \A m \in sizes : n <= m
    <2>1. Cardinality(S) \in sizes
      BY <1>1
    <2> HIDE DEF sizes
    <2>2. sizes \subseteq Nat
      BY DEF sizes
    <2> QED
      BY <2>1, <2>2, LeastNumber
  <1>3. PICK T \in SUBSET S : Cardinality(T) = n /\ Wrong(T)
    OBVIOUS
  <1>4. T # {}
    <2>1. iter[{}] = 0 /\ Units(f, {}) = {}
      BY DEF SumLoop, Units
    <2>2. ~Wrong({})
      BY <2>1, FS_EmptySet
    <2> QED
      BY <1>3, <2>2
  <1> DEFINE U == T \ {Picked(T)}
  <1>5. Picked(T) \in T /\ U \in SUBSET S
    BY <1>4 DEF Picked
  <1>6. Cardinality(U) = n - 1
    BY <1>1, <1>3, <1>5, FS_RemoveElement
  <1>7. ~Wrong(U)
    <2>1. Cardinality(U) \in Nat /\ n \in Nat
      BY <1>1, <1>5
    <2>2. Cardinality(U) \notin sizes
      <3>1. ~(n <= Cardinality(U))
        BY <1>6, <2>1
      <3> QED
        BY <1>2, <3>1, Zenon
    <2> QED
      BY <1>5, <2>1, <2>2
  <1>8. iter[T] = f[Picked(T)] + iter[U]
    BY <1>4 DEF SumLoop
  <1> QED
    BY <1>3, <1>4, <1>7, <1>8, LoopStep

LEMMA TallyType ==
  ASSUME NEW S, IsFiniteSet(S), NEW f \in [S -> Nat]
  PROVE  Tally(f) \in Nat
  BY UnitsFinite, FS_CardinalityType DEF Tally

LEMMA TallyEmpty ==
  ASSUME NEW f, DOMAIN f = {}
  PROVE  Tally(f) = 0
  BY FS_EmptySet DEF Tally, Units

LEMMA TallyAdds ==
  ASSUME NEW S, IsFiniteSet(S), NEW f \in [S -> Nat], NEW x, x \notin S,
         NEW more \in [S \union {x} -> Nat], \A y \in S : more[y] = f[y]
  PROVE  Tally(more) = Tally(f) + more[x]
  <1>1. IsFiniteSet(S \union {x})
    BY FS_AddElement
  <1>2. Units(more, (S \union {x}) \ {x}) = Units(f, S)
    BY DEF Units
  <1>3. Cardinality(Units(more, S \union {x}))
           = more[x] + Cardinality(Units(more, (S \union {x}) \ {x}))
    BY <1>1, UnitsStep
  <1>4. Tally(more) = more[x] + Tally(f)
    BY <1>2, <1>3 DEF Tally
  <1>5. Tally(f) \in Nat /\ more[x] \in Nat
    BY TallyType
  <1> QED
    BY <1>4, <1>5

(* Tallies add up element by element. *)
LEMMA TallyPlus ==
  ASSUME NEW S, IsFiniteSet(S), NEW f \in [S -> Nat], NEW g \in [S -> Nat],
         NEW h \in [S -> Nat], \A x \in S : h[x] = f[x] + g[x]
  PROVE  Tally(h) = Tally(f) + Tally(g)
  <1> DEFINE F(T) == Cardinality(Units(f, T))
             G(T) == Cardinality(Units(g, T))
             H(T) == Cardinality(Units(h, T))
             Wrong(T) == H(T) # F(T) + G(T)
             sizes == {n \in Nat : \E T \in SUBSET S : Cardinality(T) = n /\ Wrong(T)}
  <1> SUFFICES ASSUME Wrong(S) PROVE FALSE
    BY DEF Tally
  <1>1. \A T \in SUBSET S : IsFiniteSet(T) /\ Cardinality(T) \in Nat
    BY FS_Subset, FS_CardinalityType
  <1>2. ASSUME NEW T \in SUBSET S PROVE F(T) \in Nat /\ G(T) \in Nat /\ H(T) \in Nat
    <2>1. Units(f, T) \subseteq Units(f, S) /\ Units(g, T) \subseteq Units(g, S)
          /\ Units(h, T) \subseteq Units(h, S)
      BY DEF Units
    <2>2. IsFiniteSet(Units(f, S)) /\ IsFiniteSet(Units(g, S)) /\ IsFiniteSet(Units(h, S))
      BY UnitsFinite
    <2> QED
      BY <2>1, <2>2, FS_Subset, FS_CardinalityType
  <1>3. ASSUME NEW T \in SUBSET S, T # {}
        PROVE  LET x == Picked(T)
               IN  /\ F(T) = f[x] + F(T \ {x}) /\ G(T) = g[x] + G(T \ {x})
                   /\ H(T) = h[x] + H(T \ {x})
    BY <1>3, LoopStep
  <1>4. F({}) = 0 /\ G({}) = 0 /\ H({}) = 0
    <2>1. Units(f, {}) = {} /\ Units(g, {}) = {} /\ Units(h, {}) = {}
      BY DEF Units
    <2> QED
      BY <2>1, FS_EmptySet
  <1> HIDE DEF F, G, H
  <1>5. PICK n \in sizes : \A m \in sizes : n <= m
    <2>1. Cardinality(S) \in sizes
      BY <1>1
    <2> HIDE DEF sizes
    <2>2. sizes \subseteq Nat
      BY DEF sizes
    <2> QED
      BY <2>1, <2>2, LeastNumber
  <1>6. PICK T \in SUBSET S : Cardinality(T) = n /\ Wrong(T)
    OBVIOUS
  <1>7. T # {}
    BY <1>4, <1>6
  <1> DEFINE U == T \ {Picked(T)}
  <1>8. Picked(T) \in T /\ U \in SUBSET S
    BY <1>7 DEF Picked
  <1>9. Cardinality(U) = n - 1
    BY <1>1, <1>6, <1>8, FS_RemoveElement
  <1>10. ~Wrong(U)
    <2>1. Cardinality(U) \in Nat /\ n \in Nat
      BY <1>1, <1>8
    <2>2. Cardinality(U) \notin sizes
      <3>1. ~(n <= Cardinality(U))
        BY <1>9, <2>1
      <3> QED
        BY <1>5, <3>1, Zenon
    <2> QED
      BY <1>8, <2>1, <2>2
  <1>11. /\ F(T) = f[Picked(T)] + F(U) /\ G(T) = g[Picked(T)] + G(U) /\ H(T) = h[Picked(T)] + H(U)
         /\ h[Picked(T)] = f[Picked(T)] + g[Picked(T)]
         /\ f[Picked(T)] \in Nat /\ g[Picked(T)] \in Nat
    BY <1>3, <1>7, <1>8
  <1>12. F(U) \in Nat /\ G(U) \in Nat
    BY <1>2, <1>8
  <1>13. H(T) = F(T) + G(T)
    BY <1>10, <1>11, <1>12
  <1> QED
    BY <1>6, <1>13
=============================================================================
