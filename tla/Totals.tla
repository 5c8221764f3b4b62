------------------------------- MODULE Totals -------------------------------
(***************************************************************************)
(* Sums over finite sets, as MapThenSumSet of the community modules folds  *)
(* them: that the fold is defined, that its order does not matter, and     *)
(* that a summand can be taken out. Nothing here is about the bank; the    *)
(* proofs about balances and about connections in use rest on it.          *)
(*                                                                         *)
(* Induction is stated on sets, not on predicates: it is the well-founded  *)
(* minimum of WellFoundedInduction for the order of the natural numbers.   *)
(***************************************************************************)
EXTENDS Integers, FiniteSets, FiniteSetsExt, FiniteSetTheorems, WellFoundedInduction, TLAPS

\* The order of the natural numbers, as a set of pairs.
LEMMA NatWellFounded == IsWellFoundedOn({ss \in Nat \X Nat : ss[1] < ss[2]}, Nat)
  BY NatLessThanWellFounded DEF OpToRel

\* A set of natural numbers that has an element has a least one.
LEMMA LeastElement ==
  ASSUME NEW T \in SUBSET Nat, T # {}
  PROVE \E x \in T : \A y \in T : ~(y < x)
  <1>1. PICK x \in T : \A y \in T : ~ (<<y,x>> \in {ss \in Nat \X Nat : ss[1] < ss[2]})
    BY NatWellFounded, WFMin
  <1>2. \A y \in T : ~(y < x)
    <2>1. TAKE y \in T
    <2>2. <<y, x>> \in Nat \X Nat
      OBVIOUS
    <2>3. ~ (<<y,x>> \in {ss \in Nat \X Nat : ss[1] < ss[2]})
      BY <1>1
    <2>4. QED BY <2>2, <2>3
  <1>3. QED BY <1>2

\* Induction on a set of natural numbers in place of a predicate.
LEMMA NaturalsByInduction ==
  ASSUME NEW T \in SUBSET Nat, \A n \in Nat : (\A m \in Nat : m < n => m \in T) => n \in T
  PROVE T = Nat
  <1>1. SUFFICES ASSUME Nat \ T # {} PROVE FALSE
    OBVIOUS
  <1>2. PICK x \in Nat \ T : \A y \in Nat \ T : ~(y < x)
    BY <1>1, LeastElement
  <1>3. QED BY <1>2

\* Induction on the subsets of a finite set, each after its own subsets.
LEMMA SubsetsByInduction ==
  ASSUME NEW S, IsFiniteSet(S), NEW T,
         \A U \in SUBSET S : (\A V \in SUBSET U : V # U => V \in T) => U \in T
  PROVE  \A U \in SUBSET S : U \in T
  <1> DEFINE Sizes == {n \in Nat : \A U \in SUBSET S : Cardinality(U) = n => U \in T}
  <1>1. \A U \in SUBSET S : IsFiniteSet(U) /\ Cardinality(U) \in Nat
    BY FS_Subset, FS_CardinalityType
  <1>2. ASSUME NEW n \in Nat, \A m \in Nat : m < n => m \in Sizes
        PROVE  n \in Sizes
    <2>1. ASSUME NEW U \in SUBSET S, Cardinality(U) = n PROVE U \in T
      <3>1. ASSUME NEW V \in SUBSET U, V # U PROVE V \in T
        <4>1. Cardinality(V) < Cardinality(U)
          BY <1>1, <3>1, FS_Subset, FS_CardinalityType
        <4>2. Cardinality(V) \in Nat /\ Cardinality(V) \in Sizes
          BY <1>1, <1>2, <2>1, <4>1
        <4>3. QED  BY <4>2
      <3>2. QED  BY <3>1
    <2>2. QED  BY <2>1
  <1>3. Sizes \in SUBSET Nat
    OBVIOUS
  <1>4. Sizes = Nat
    <2> HIDE DEF Sizes
    <2>1. QED  BY <1>2, <1>3, NaturalsByInduction
  <1>5. QED  BY <1>1, <1>4

\* The element with which the library's folds go on.
Picked(U) == CHOOSE x \in U : TRUE

\* The partial sums of a fold over S: the recursive function in MapThenFoldSet.
Adds(f, S, g) ==
  g = [U \in SUBSET S |-> IF U = {} THEN 0 ELSE f[Picked(U)] + g[U \ {Picked(U)}]]

\* The sum of f over S.
Total(f, S) == MapThenSumSet(LAMBDA x : f[x], S)

\* The element picked from a set is one of it.
LEMMA PickedIn ==
  ASSUME NEW S, NEW U \in SUBSET S, U # {}
  PROVE  /\ Picked(U) \in U /\ Picked(U) \in S
         /\ U \ {Picked(U)} \in SUBSET S /\ U \ {Picked(U)} \in SUBSET U /\ U \ {Picked(U)} # U
  BY DEF Picked

\* A fold over a finite set has partial sums.
LEMMA AddsExists ==
  ASSUME NEW S, IsFiniteSet(S), NEW f, \A x \in S : f[x] \in Int
  PROVE  \E g \in [SUBSET S -> Int] : Adds(f, S, g)
  <1> DEFINE Step(g, U) == IF U = {} THEN 0 ELSE f[Picked(U)] + g[U \ {Picked(U)}]
             AddsTo(g, n) == \A U \in SUBSET S : Cardinality(U) <= n => g[U] = Step(g, U)
             Reached == {n \in Nat : \E g \in [SUBSET S -> Int] : AddsTo(g, n)}
  <1>1. \A U \in SUBSET S : IsFiniteSet(U) /\ Cardinality(U) \in Nat /\ Cardinality(U) <= Cardinality(S)
    BY FS_Subset, FS_CardinalityType
  <1>2. \A U \in SUBSET S : (Cardinality(U) = 0) <=> U = {}
    BY <1>1, FS_EmptySet
  <1>3. ASSUME NEW n \in Nat, \A m \in Nat : m < n => m \in Reached
        PROVE  n \in Reached
    <2>1. CASE n = 0
      <3>1. [U \in SUBSET S |-> 0] \in [SUBSET S -> Int]
        OBVIOUS
      <3>2. AddsTo([U \in SUBSET S |-> 0], n)
        BY <1>1, <1>2, <2>1
      <3>3. QED  BY <3>1, <3>2
    <2>2. CASE n # 0
      <3>1. n - 1 \in Nat /\ n - 1 < n
        BY <2>2
      <3>2. PICK h \in [SUBSET S -> Int] : AddsTo(h, n - 1)
        BY <1>3, <3>1
      <3> DEFINE g == [U \in SUBSET S |-> Step(h, U)]
      <3>3. ASSUME NEW U \in SUBSET S
            PROVE  Step(h, U) \in Int
        <4>1. CASE U = {}
          BY <4>1
        <4>2. CASE U # {}
          BY <4>2, PickedIn
        <4>3. QED  BY <4>1, <4>2
      <3>4. g \in [SUBSET S -> Int]
        BY <3>3
      <3>5. ASSUME NEW U \in SUBSET S, Cardinality(U) <= n
            PROVE  g[U] = Step(g, U)
        <4>1. CASE U = {}
          BY <4>1
        <4>2. CASE U # {}
          <5> DEFINE V == U \ {Picked(U)}
          <5>1. V \in SUBSET S /\ Picked(U) \in U
            BY <4>2, PickedIn
          <5>2. Cardinality(V) = Cardinality(U) - 1
            BY <1>1, <5>1, FS_RemoveElement
          <5>3. Cardinality(V) <= n - 1
            BY <1>1, <3>5, <5>2
          <5>4. h[V] = Step(h, V)
            BY <3>2, <5>1, <5>3
          <5>5. g[V] = h[V]
            BY <5>1, <5>4
          <5>6. QED  BY <4>2, <5>5
        <4>3. QED  BY <4>1, <4>2
      <3>6. QED  BY <3>4, <3>5
    <2>3. QED  BY <2>1, <2>2
  <1>4. Reached = Nat
    <2> HIDE DEF Reached
    <2>1. Reached \in SUBSET Nat
      BY DEF Reached
    <2>2. QED  BY <1>3, <2>1, NaturalsByInduction
  <1>5. Cardinality(S) \in Reached
    BY <1>4, FS_CardinalityType
  <1>6. PICK g \in [SUBSET S -> Int] : AddsTo(g, Cardinality(S))
    BY <1>5
  <1>7. \A U \in SUBSET S : g[U] = Step(g, U)
    BY <1>1, <1>6
  <1>8. g = [U \in SUBSET S |-> Step(g, U)]
    BY <1>7
  <1>9. QED  BY <1>8 DEF Adds

\* Partial sums depend on the summands only, not on the set they are taken in.
LEMMA AddsAgree ==
  ASSUME NEW S, NEW T, IsFiniteSet(S), NEW f, NEW e, NEW g, NEW h,
         Adds(f, S, g), Adds(e, T, h), S \subseteq T, \A x \in S : f[x] = e[x]
  PROVE  \A U \in SUBSET S : g[U] = h[U]
  <1> DEFINE Same == {U \in SUBSET S : g[U] = h[U]}
  <1>1. ASSUME NEW U \in SUBSET S, \A V \in SUBSET U : V # U => V \in Same
        PROVE  U \in Same
    <2>1. CASE U = {}
      BY <2>1 DEF Adds
    <2>2. CASE U # {}
      <3> DEFINE V == U \ {Picked(U)}
      <3>1. /\ Picked(U) \in S /\ V \in SUBSET U /\ V # U /\ V \in SUBSET S
        BY <2>2, PickedIn
      <3>2. V \in Same
        BY <1>1, <3>1
      <3>3. g[V] = h[V] /\ f[Picked(U)] = e[Picked(U)]
        BY <3>1, <3>2
      <3>4. g[U] = f[Picked(U)] + g[V]
        BY <2>2 DEF Adds
      <3>5. h[U] = e[Picked(U)] + h[V]
        BY <2>2, U \in SUBSET T DEF Adds
      <3>6. QED  BY <3>3, <3>4, <3>5
    <2>3. QED  BY <2>1, <2>2
  <1>2. \A U \in SUBSET S : U \in Same
    <2> HIDE DEF Same
    <2>1. QED  BY <1>1, SubsetsByInduction
  <1>3. QED  BY <1>2

\* A partial sum is any summand and the partial sum of the others.
AnyOrder(f, S, g) == \A U \in SUBSET S : \A x \in U : g[U] = f[x] + g[U \ {x}]

\* The order of the summands does not matter.
LEMMA AddsAny ==
  ASSUME NEW S, IsFiniteSet(S), NEW f, \A x \in S : f[x] \in Int, NEW g \in [SUBSET S -> Int], Adds(f, S, g)
  PROVE  AnyOrder(f, S, g)
  <1> DEFINE Free == {U \in SUBSET S : \A x \in U : g[U] = f[x] + g[U \ {x}]}
  <1>1. ASSUME NEW U \in SUBSET S, \A V \in SUBSET U : V # U => V \in Free
        PROVE  U \in Free
    <2>1. ASSUME NEW x \in U PROVE g[U] = f[x] + g[U \ {x}]
      <3> DEFINE p == Picked(U)
      <3>1. U # {}
        BY <2>1
      <3>2. p \in U /\ p \in S /\ x \in S
        BY <3>1, PickedIn
      <3>3. g[U] = f[p] + g[U \ {p}]
        BY <3>1 DEF Adds
      <3>4. CASE x = p
        BY <3>3, <3>4
      <3>5. CASE x # p
        <4>1. U \ {p} \in SUBSET U /\ U \ {p} # U /\ x \in U \ {p}
          BY <3>2, <3>5
        <4>2. U \ {x} \in SUBSET U /\ U \ {x} # U /\ p \in U \ {x}
          BY <3>2, <3>5
        <4>3. g[U \ {p}] = f[x] + g[(U \ {p}) \ {x}]
          BY <1>1, <4>1
        <4>4. g[U \ {x}] = f[p] + g[(U \ {x}) \ {p}]
          BY <1>1, <4>2
        <4>5. (U \ {p}) \ {x} = (U \ {x}) \ {p} /\ (U \ {x}) \ {p} \in SUBSET S
          OBVIOUS
        <4> DEFINE w == g[(U \ {x}) \ {p}]
        <4>6. f[x] \in Int /\ f[p] \in Int /\ w \in Int
          BY <3>2, <4>5
        <4>7. g[U \ {p}] = f[x] + w
          BY <4>3, <4>5
        <4>8. g[U] = f[p] + (f[x] + w) /\ g[U \ {x}] = f[p] + w
          BY <3>3, <4>4, <4>7
        <4>9. f[p] + (f[x] + w) = f[x] + (f[p] + w)
          <5> HIDE DEF p, w
          <5>1. QED  BY <4>6
        <4>10. QED  BY <4>8, <4>9
      <3>6. QED  BY <3>4, <3>5
    <2>2. QED  BY <2>1
  <1>2. \A U \in SUBSET S : U \in Free
    <2> HIDE DEF Free
    <2>1. QED  BY <1>1, SubsetsByInduction
  <1>3. QED  BY <1>2 DEF AnyOrder

\* The fold of the library is the last partial sum.
LEMMA TotalAdds ==
  ASSUME NEW S, IsFiniteSet(S), NEW f, \A x \in S : f[x] \in Int, NEW g, Adds(f, S, g)
  PROVE  Total(f, S) = g[S]
  <1> DEFINE chosen == CHOOSE h : Adds(f, S, h)
  <1>1. Adds(f, S, chosen)
    OBVIOUS
  <1>2. Total(f, S) = chosen[S]
    BY DEF Total, MapThenSumSet, MapThenFoldSet, Picked, Adds
  <1>3. chosen[S] = g[S]
    <2> HIDE DEF chosen
    <2>1. QED  BY <1>1, AddsAgree
  <1>4. QED  BY <1>2, <1>3

\* What a sum is, whatever order the fold adds in: the empty sum is 0, and any
\* summand can be taken out.
LEMMA TotalIs ==
  ASSUME NEW S, IsFiniteSet(S), NEW f, \A x \in S : f[x] \in Int
  PROVE  /\ Total(f, S) \in Int
         /\ S = {} => Total(f, S) = 0
         /\ \A x \in S : Total(f, S) = f[x] + Total(f, S \ {x})
  <1>1. PICK g \in [SUBSET S -> Int] : Adds(f, S, g)
    BY AddsExists
  <1>2. Total(f, S) = g[S]
    BY <1>1, TotalAdds
  <1>3. S = {} => g[S] = 0
    BY <1>1 DEF Adds
  <1>4. ASSUME NEW x \in S PROVE Total(f, S) = f[x] + Total(f, S \ {x})
    <2> DEFINE V == S \ {x}
    <2>1. IsFiniteSet(V) /\ \A y \in V : f[y] \in Int
      BY FS_RemoveElement
    <2>2. PICK h \in [SUBSET V -> Int] : Adds(f, V, h)
      BY <2>1, AddsExists
    <2>3. Total(f, V) = h[V]
      BY <2>1, <2>2, TotalAdds
    <2>4. h[V] = g[V]
      <3>1. V \subseteq S /\ V \in SUBSET V
        OBVIOUS
      <3>2. QED
        <4> HIDE DEF V
        <4>1. QED  BY <1>1, <2>1, <2>2, <3>1, AddsAgree
    <2>5. g[S] = f[x] + g[V]
      <3>1. \A U \in SUBSET S : \A y \in U : g[U] = f[y] + g[U \ {y}]
        <4>1. AnyOrder(f, S, g)
          BY <1>1, AddsAny
        <4>2. QED  BY <4>1 DEF AnyOrder
      <3>2. S \in SUBSET S
        OBVIOUS
      <3>3. QED  BY <3>1, <3>2
    <2>6. QED  BY <1>2, <2>3, <2>4, <2>5
  <1>5. QED  BY <1>2, <1>3, <1>4

\* Equal summands have equal sums.
LEMMA TotalAgrees ==
  ASSUME NEW S, IsFiniteSet(S), NEW f, NEW e, \A x \in S : f[x] \in Int /\ f[x] = e[x]
  PROVE  Total(f, S) = Total(e, S)
  <1>1. PICK g \in [SUBSET S -> Int] : Adds(f, S, g)
    BY AddsExists
  <1>2. PICK h \in [SUBSET S -> Int] : Adds(e, S, h)
    BY AddsExists
  <1>3. Total(f, S) = g[S] /\ Total(e, S) = h[S]
    BY <1>1, <1>2, TotalAdds
  <1>4. g[S] = h[S]
    BY <1>1, <1>2, AddsAgree
  <1>5. QED  BY <1>3, <1>4

\* A sum of natural numbers is one.
LEMMA TotalNat ==
  ASSUME NEW S, IsFiniteSet(S), NEW f, \A x \in S : f[x] \in Nat
  PROVE  Total(f, S) \in Nat
  <1>0. \A x \in S : f[x] \in Int
    OBVIOUS
  <1>1. PICK g \in [SUBSET S -> Int] : Adds(f, S, g)
    BY <1>0, AddsExists
  <1> DEFINE Natural == {U \in SUBSET S : g[U] \in Nat}
  <1>2. ASSUME NEW U \in SUBSET S, \A V \in SUBSET U : V # U => V \in Natural
        PROVE  U \in Natural
    <2>1. CASE U = {}
      BY <1>1, <2>1 DEF Adds
    <2>2. CASE U # {}
      <3>1. Picked(U) \in S /\ g[U \ {Picked(U)}] \in Nat
        BY <1>2, <2>2, PickedIn
      <3>2. g[U] = f[Picked(U)] + g[U \ {Picked(U)}]
        BY <1>1, <2>2 DEF Adds
      <3>3. QED  BY <3>1, <3>2
    <2>3. QED  BY <2>1, <2>2
  <1>3. \A U \in SUBSET S : U \in Natural
    <2> HIDE DEF Natural
    <2>1. QED  BY <1>2, SubsetsByInduction
  <1>4. QED  BY <1>0, <1>1, <1>3, TotalAdds

\* A sum of nothing but zeros is zero.
LEMMA NoTotal ==
  ASSUME NEW S, IsFiniteSet(S), NEW f, \A x \in S : f[x] = 0
  PROVE  Total(f, S) = 0
  <1>0. \A x \in S : f[x] \in Int
    OBVIOUS
  <1>1. PICK g \in [SUBSET S -> Int] : Adds(f, S, g)
    BY <1>0, AddsExists
  <1> DEFINE Zero == {U \in SUBSET S : g[U] = 0}
  <1>2. ASSUME NEW U \in SUBSET S, \A V \in SUBSET U : V # U => V \in Zero
        PROVE  U \in Zero
    <2>1. CASE U = {}
      BY <1>1, <2>1 DEF Adds
    <2>2. CASE U # {}
      <3>1. f[Picked(U)] = 0 /\ g[U \ {Picked(U)}] = 0
        BY <1>2, <2>2, PickedIn
      <3>2. g[U] = f[Picked(U)] + g[U \ {Picked(U)}]
        BY <1>1, <2>2 DEF Adds
      <3>3. QED  BY <3>1, <3>2
    <2>3. QED  BY <2>1, <2>2
  <1>3. \A U \in SUBSET S : U \in Zero
    <2> HIDE DEF Zero
    <2>1. QED  BY <1>2, SubsetsByInduction
  <1>4. QED  BY <1>0, <1>1, <1>3, TotalAdds

\* More summands, and greater ones, make a greater sum.
LEMMA TotalMonotone ==
  ASSUME NEW T, IsFiniteSet(T), NEW S \in SUBSET T, NEW f, NEW e,
         \A x \in T : f[x] \in Nat, \A x \in S : e[x] \in Nat /\ e[x] <= f[x]
  PROVE  Total(e, S) <= Total(f, T)
  <1>0. /\ \A x \in T : f[x] \in Int
        /\ \A x \in S : e[x] \in Int
        /\ IsFiniteSet(S)
    BY FS_Subset
  <1>1. PICK g \in [SUBSET T -> Int] : Adds(f, T, g)
    BY <1>0, AddsExists
  <1>2. PICK h \in [SUBSET S -> Int] : Adds(e, S, h)
    BY <1>0, AddsExists
  <1>3. AnyOrder(e, S, h)
    BY <1>0, <1>2, AddsAny
  <1> DEFINE Below == {U \in SUBSET T : h[U \cap S] <= g[U]}
  <1>4. ASSUME NEW U \in SUBSET T, \A V \in SUBSET U : V # U => V \in Below
        PROVE  U \in Below
    <2>1. CASE U = {}
      <3>1. U \cap S = {} /\ {} \in SUBSET S /\ {} \in SUBSET T
        BY <2>1
      <3>2. g[{}] = 0 /\ h[{}] = 0
        BY <1>1, <1>2, <3>1 DEF Adds
      <3>3. QED  BY <2>1, <3>1, <3>2
    <2>2. CASE U # {}
      <3> DEFINE p == Picked(U)
                 V == U \ {p}
      <3>1. p \in U /\ p \in T /\ V \in SUBSET U /\ V # U /\ V \in SUBSET T
        BY <2>2, PickedIn
      <3>2. g[U] = f[p] + g[V]
        BY <1>1, <2>2 DEF Adds
      <3>3. h[V \cap S] <= g[V]
        BY <1>4, <3>1
      <3>4. f[p] \in Nat /\ g[V] \in Int /\ h[V \cap S] \in Int /\ h[U \cap S] \in Int /\ g[U] \in Int
        BY <3>1
      <3> HIDE DEF p, V
      <3>5. CASE p \in S
        <4>1. h[U \cap S] = e[p] + h[(U \cap S) \ {p}]
          BY <1>3, <3>1, <3>5 DEF AnyOrder
        <4>2. (U \cap S) \ {p} = V \cap S
          BY DEF V
        <4>3. e[p] \in Nat /\ e[p] <= f[p]
          BY <3>5
        <4> DEFINE a == h[V \cap S]
                   b == g[V]
        <4>4. a \in Int /\ b \in Int /\ f[p] \in Int /\ a <= b
          BY <3>3, <3>4
        <4>5. h[U \cap S] = e[p] + a /\ g[U] = f[p] + b
          BY <3>2, <4>1, <4>2
        <4>6. e[p] + a <= f[p] + b
          <5> HIDE DEF a, b
          <5>1. QED  BY <4>3, <4>4
        <4>7. QED  BY <4>5, <4>6
      <3>6. CASE p \notin S
        <4>1. U \cap S = V \cap S
          BY <3>6 DEF V
        <4> DEFINE a == h[V \cap S]
                   b == g[V]
        <4>2. a \in Int /\ b \in Int /\ f[p] \in Nat /\ a <= b
          BY <3>3, <3>4
        <4>3. h[U \cap S] = a /\ g[U] = f[p] + b
          BY <3>2, <4>1
        <4>4. a <= f[p] + b
          <5> HIDE DEF a, b
          <5>1. QED  BY <4>2
        <4>5. QED  BY <4>3, <4>4
      <3>7. QED  BY <3>5, <3>6
    <2>3. QED  BY <2>1, <2>2
  <1>5. \A U \in SUBSET T : U \in Below
    <2> HIDE DEF Below
    <2>1. QED  BY <1>4, SubsetsByInduction
  <1>6. T \in SUBSET T /\ T \cap S = S
    OBVIOUS
  <1>7. h[S] <= g[T]
    BY <1>5, <1>6
  <1>8. Total(e, S) = h[S] /\ Total(f, T) = g[T]
    BY <1>0, <1>1, <1>2, TotalAdds
  <1>9. QED  BY <1>7, <1>8

\* One summand more by one, the sum is more by one.
LEMMA OneMoreInTotal ==
  ASSUME NEW S, IsFiniteSet(S), NEW f, NEW e, NEW c \in S,
         \A x \in S : f[x] \in Int, \A x \in S \ {c} : e[x] = f[x], e[c] = f[c] + 1
  PROVE  Total(e, S) = Total(f, S) + 1
  <1> DEFINE R == S \ {c}
  <1>1. IsFiniteSet(R) /\ \A x \in R : f[x] \in Int /\ f[x] = e[x]
    BY FS_RemoveElement
  <1>2. \A x \in S : e[x] \in Int
    OBVIOUS
  <1>3. Total(f, S) = f[c] + Total(f, R) /\ Total(e, S) = e[c] + Total(e, R)
    BY <1>2, TotalIs
  <1>4. Total(f, R) = Total(e, R)
    <2> HIDE DEF R
    <2>1. QED  BY <1>1, TotalAgrees
  <1>5. Total(f, R) \in Int
    <2> HIDE DEF R
    <2>1. QED  BY <1>1, TotalIs
  <1>6. f[c] \in Int
    OBVIOUS
  <1>7. QED  BY <1>3, <1>4, <1>5, <1>6
=============================================================================
