------------------------------ MODULE GraphProofs ------------------------------
(***************************************************************************)
(* Theorems of WorkflowGraph, for every program, every number of functions *)
(* and blocks and every limit: the expansion of a default flow lists what  *)
(* the calls reach and nothing else, the validators accept every default   *)
(* flow, a projection is complete exactly if it is the whole catalogue,    *)
(* and only redacted ids keep it from being reduced.                       *)
(* Theorems of AttackTree, for every proposed tree, every depth and every  *)
(* sequence of random numbers: the check accepts trees and nothing else,   *)
(* and an attempt that stops early decides as if it had tried every leaf.  *)
(*                                                                         *)
(* The operators of sequences are folds, and a fold is a CHOOSE of some    *)
(* recursive function: the first lemmas say that this function exists and  *)
(* what one step of it does; what the operators return follows from that   *)
(* by induction on sets of numbers.                                        *)
(***************************************************************************)
EXTENDS WorkflowGraph, AttackTree, Totals, SequenceTheorems

(***************************************************************************)
(* Folds over sets and sequences                                           *)
(***************************************************************************)
\* What a recursion over a set, over numbers, and a fold over a sequence compute.
SetRecursion(h, S, pick, base, g) ==
  /\ DOMAIN h = SUBSET S
  /\ \A U \in SUBSET S : h[U] = IF U = {} THEN base ELSE g[<<h[U \ {pick[U]}], pick[U]>>]

NumberRecursion(h, N, base, g) ==
  h[0] = base /\ \A n \in 1 .. N : h[n] = g[<<h[n - 1], n>>]

FoldRecursion(h, n, base, g) ==
  \A U \in SUBSET (1 .. n) : h[U] = IF U = {} THEN base ELSE g[<<h[U \ {Max(U)}], Max(U)>>]

\* Recursion over a finite set: elements are taken in the order that pick gives.
LEMMA SetSteps ==
  ASSUME NEW S, IsFiniteSet(S), NEW pick, \A U \in SUBSET S : U # {} => pick[U] \in U,
         NEW R, NEW base \in R, NEW g \in [R \X S -> R]
  PROVE  \E h \in [SUBSET S -> R] : SetRecursion(h, S, pick, base, g)
  <1> DEFINE Step(h, U) == IF U = {} THEN base ELSE g[<<h[U \ {pick[U]}], pick[U]>>]
             StepsTo(h, n) == \A U \in SUBSET S : Cardinality(U) <= n => h[U] = Step(h, U)
             Done == {n \in Nat : \E h \in [SUBSET S -> R] : StepsTo(h, n)}
  <1>1. \A U \in SUBSET S : IsFiniteSet(U) /\ Cardinality(U) \in Nat /\ Cardinality(U) <= Cardinality(S)
    BY FS_Subset, FS_CardinalityType
  <1>2. \A U \in SUBSET S : (Cardinality(U) = 0) <=> U = {}
    BY <1>1, FS_EmptySet
  <1>3. ASSUME NEW n \in Nat, \A m \in Nat : m < n => m \in Done
        PROVE  n \in Done
    <2>1. CASE n = 0
      <3>1. [U \in SUBSET S |-> base] \in [SUBSET S -> R]
        OBVIOUS
      <3>2. StepsTo([U \in SUBSET S |-> base], n)
        BY <1>1, <1>2, <2>1
      <3>3. QED  BY <3>1, <3>2
    <2>2. CASE n # 0
      <3>1. n - 1 \in Nat /\ n - 1 < n
        BY <2>2
      <3>2. PICK e \in [SUBSET S -> R] : StepsTo(e, n - 1)
        BY <1>3, <3>1
      <3> DEFINE h == [U \in SUBSET S |-> Step(e, U)]
      <3>3. ASSUME NEW U \in SUBSET S PROVE Step(e, U) \in R
        <4>1. CASE U = {}
          BY <4>1
        <4>2. CASE U # {}
          <5>1. pick[U] \in S /\ U \ {pick[U]} \in SUBSET S
            BY <4>2
          <5>2. QED  BY <4>2, <5>1
        <4>3. QED  BY <4>1, <4>2
      <3>4. h \in [SUBSET S -> R]
        BY <3>3
      <3>5. ASSUME NEW U \in SUBSET S, Cardinality(U) <= n
            PROVE  h[U] = Step(h, U)
        <4>1. CASE U = {}
          BY <4>1
        <4>2. CASE U # {}
          <5> DEFINE V == U \ {pick[U]}
          <5>1. V \in SUBSET S /\ pick[U] \in U
            BY <4>2
          <5>2. Cardinality(V) = Cardinality(U) - 1
            BY <1>1, <5>1, FS_RemoveElement
          <5>3. Cardinality(V) <= n - 1
            BY <1>1, <3>5, <5>2
          <5>4. e[V] = Step(e, V)
            BY <3>2, <5>1, <5>3
          <5>5. h[V] = e[V]
            BY <5>1, <5>4
          <5>6. QED  BY <4>2, <5>5
        <4>3. QED  BY <4>1, <4>2
      <3>6. QED  BY <3>4, <3>5
    <2>3. QED  BY <2>1, <2>2
  <1>4. Done = Nat
    <2> HIDE DEF Done
    <2>1. Done \in SUBSET Nat
      BY DEF Done
    <2>2. QED  BY <1>3, <2>1, NaturalsByInduction
  <1>5. Cardinality(S) \in Done
    BY <1>4, FS_CardinalityType
  <1>6. PICK h \in [SUBSET S -> R] : StepsTo(h, Cardinality(S))
    BY <1>5
  <1>7. \A U \in SUBSET S : h[U] = Step(h, U)
    BY <1>1, <1>6
  <1>8. QED  BY <1>7 DEF SetRecursion

\* Recursion over the numbers up to N.
LEMMA NumberSteps ==
  ASSUME NEW N \in Nat, NEW R, NEW base \in R, NEW g \in [R \X (1 .. N) -> R]
  PROVE  \E h \in [0 .. N -> R] : NumberRecursion(h, N, base, g)
  <1> DEFINE Rec(h, k) == h[0] = base /\ \A n \in 1 .. k : h[n] = g[<<h[n - 1], n>>]
             Done == {k \in Nat : k <= N => \E h \in [0 .. N -> R] : Rec(h, k)}
  <1>1. ASSUME NEW k \in Nat, \A m \in Nat : m < k => m \in Done
        PROVE  k \in Done
    <2>1. CASE k = 0
      <3>1. [n \in 0 .. N |-> base] \in [0 .. N -> R] /\ Rec([n \in 0 .. N |-> base], 0)
        OBVIOUS
      <3>2. QED  BY <2>1, <3>1
    <2>2. CASE k # 0 /\ k <= N
      <3>1. PICK e \in [0 .. N -> R] : Rec(e, k - 1)
        <4>1. k - 1 \in Nat /\ k - 1 < k /\ k - 1 <= N
          BY <2>2
        <4>2. k - 1 \in Done
          BY <1>1, <4>1
        <4>3. QED  BY <4>1, <4>2
      <3> DEFINE h == [e EXCEPT ![k] = g[<<e[k - 1], k>>]]
      <3>2. k \in 1 .. N /\ k - 1 \in 0 .. N /\ k \in 0 .. N
        BY <2>2
      <3>3. g[<<e[k - 1], k>>] \in R
        BY <3>2
      <3>4. h \in [0 .. N -> R]
        BY <3>2, <3>3
      <3>5. \A n \in 0 .. N : n # k => h[n] = e[n]
        OBVIOUS
      <3>6. h[k] = g[<<e[k - 1], k>>]
        BY <3>2
      <3> HIDE DEF h
      <3>7. Rec(h, k)
        <4>1. h[0] = base
          BY <2>2, <3>1, <3>5
        <4>2. ASSUME NEW n \in 1 .. k PROVE h[n] = g[<<h[n - 1], n>>]
          <5>1. n - 1 \in 0 .. N /\ n - 1 # k /\ h[n - 1] = e[n - 1]
            BY <2>2, <3>5
          <5>2. CASE n = k
            BY <3>6, <5>1, <5>2
          <5>3. CASE n # k
            <6>1. n \in 1 .. k - 1 /\ n \in 0 .. N
              BY <2>2, <5>3
            <6>2. e[n] = g[<<e[n - 1], n>>]
              BY <3>1, <6>1
            <6>3. QED  BY <3>5, <5>1, <5>3, <6>1, <6>2
          <5>4. QED  BY <5>2, <5>3
        <4>3. QED  BY <4>1, <4>2
      <3>8. QED  BY <3>4, <3>7
    <2>3. QED  BY <2>1, <2>2
  <1>2. Done = Nat
    <2> HIDE DEF Done
    <2>1. Done \in SUBSET Nat
      BY DEF Done
    <2>2. QED  BY <1>1, <2>1, NaturalsByInduction
  <1>3. N \in Done
    <2> HIDE DEF Done
    <2>1. QED  BY <1>2
  <1>4. QED  BY <1>3 DEF NumberRecursion

\* The greatest of some numbers up to n.
LEMMA MaxOfNumbers ==
  ASSUME NEW n \in Nat, NEW U \in SUBSET (1 .. n), U # {}
  PROVE  Max(U) \in U /\ \A x \in U : Max(U) >= x
  <1> DEFINE T == {n - x : x \in U}
  <1>1. T \in SUBSET Nat /\ T # {}
    OBVIOUS
  <1>2. PICK t \in T : \A y \in T : ~(y < t)
    <2> HIDE DEF T
    <2>1. QED  BY <1>1, LeastElement
  <1>3. PICK m \in U : t = n - m
    BY <1>2
  <1>4. \A x \in U : m >= x
    <2>1. TAKE x \in U
    <2>2. n - x \in T
      OBVIOUS
    <2>3. ~(n - x < n - m)
      BY <1>2, <1>3, <2>2
    <2>4. x \in Int /\ m \in Int
      OBVIOUS
    <2>5. QED  BY <2>3, <2>4
  <1>5. QED  BY <1>3, <1>4 DEF Max

\* Folding from the left: the step that takes element k is given by g.
LEMMA FoldSteps ==
  ASSUME NEW n \in Nat, NEW R, NEW base \in R, NEW g \in [R \X (1 .. n) -> R]
  PROVE  \E h \in [SUBSET (1 .. n) -> R] : FoldRecursion(h, n, base, g)
  <1> DEFINE S == 1 .. n
             pick == [U \in SUBSET S |-> Max(U)]
  <1>1. \A U \in SUBSET S : U # {} => pick[U] \in U
    BY MaxOfNumbers
  <1>2. IsFiniteSet(S) /\ g \in [R \X S -> R]
    BY FS_Interval
  <1>3. PICK h \in [SUBSET S -> R] : SetRecursion(h, S, pick, base, g)
    <2> HIDE DEF pick, S
    <2>1. QED  BY <1>1, <1>2, SetSteps
  <1>4. QED  BY <1>3 DEF SetRecursion, FoldRecursion

\* Removing the last of the first k numbers.
LEMMA LastOfFirst ==
  ASSUME NEW k \in Nat, k # 0
  PROVE  Max(1 .. k) = k /\ (1 .. k) \ {k} = 1 .. k - 1 /\ 1 .. k # {}
  <1>1. 1 .. k # {} /\ (1 .. k) \ {k} = 1 .. k - 1 /\ k \in 1 .. k
    OBVIOUS
  <1>2. Max(1 .. k) \in 1 .. k /\ Max(1 .. k) >= k
    <2>1. 1 .. k \in SUBSET (1 .. k)
      OBVIOUS
    <2>2. QED  BY <1>1, <2>1, MaxOfNumbers
  <1>3. QED  BY <1>1, <1>2

(***************************************************************************)
(* Listings                                                                *)
(***************************************************************************)
\* Distinct, element by element.
LEMMA DistinctSteps ==
  ASSUME NEW X, NEW s \in Seq(X)
  PROVE  \E pre : /\ pre[0] = << >>
                  /\ \A k \in 1 .. Len(s) :
                       pre[k] = IF s[k] \in Range(pre[k - 1]) THEN pre[k - 1] ELSE Append(pre[k - 1], s[k])
                  /\ Distinct(s) = pre[Len(s)]
  <1> DEFINE n == Len(s)
             R == Seq(X)
             Op(r, x) == IF x \in Range(r) THEN r ELSE Append(r, x)
             g == [c \in R \X (1 .. n) |-> Op(c[1], s[c[2]])]
             Iter(h) == h = [U \in SUBSET DOMAIN s |-> IF U = {} THEN << >> ELSE Op(h[U \ {Max(U)}], s[Max(U)])]
  <1>1. n \in Nat /\ DOMAIN s = 1 .. n /\ \A k \in 1 .. n : s[k] \in X
    OBVIOUS
  <1>2. g \in [R \X (1 .. n) -> R] /\ << >> \in R
    <2>1. ASSUME NEW c \in R \X (1 .. n) PROVE Op(c[1], s[c[2]]) \in R
      <3>1. c[1] \in Seq(X) /\ s[c[2]] \in X
        BY <1>1
      <3>2. QED  BY <3>1
    <2>2. QED  BY <2>1
  <1>3. PICK h \in [SUBSET (1 .. n) -> R] : FoldRecursion(h, n, << >>, g)
    <2> HIDE DEF R, g, n
    <2>1. QED  BY <1>1, <1>2, FoldSteps
  <1>4. Iter(h)
    <2>1. ASSUME NEW U \in SUBSET (1 .. n)
          PROVE  h[U] = IF U = {} THEN << >> ELSE Op(h[U \ {Max(U)}], s[Max(U)])
      <3>1. CASE U # {}
        <4>1. Max(U) \in 1 .. n /\ U \ {Max(U)} \in SUBSET (1 .. n)
          BY <1>1, <3>1, MaxOfNumbers
        <4>2. QED  BY <1>3, <3>1, <4>1 DEF FoldRecursion
      <3>2. QED  BY <1>3, <3>1 DEF FoldRecursion
    <2>2. QED  BY <1>1, <2>1
  <1> DEFINE iter == CHOOSE f : Iter(f)
             pre == [k \in 0 .. n |-> iter[1 .. k]]
  <1>5. Iter(iter)
    BY <1>4
  <1>6. Distinct(s) = iter[DOMAIN s]
    BY DEF Distinct, FoldLeft, MapThenFoldSet
  <1>7. ASSUME NEW k \in 1 .. n PROVE pre[k] = Op(pre[k - 1], s[k])
    <2>1. iter[1 .. k] = Op(iter[1 .. k - 1], s[k])
      <3>1. 1 .. k \in SUBSET DOMAIN s /\ k \in Nat /\ k # 0
        BY <1>1
      <3>2. Max(1 .. k) = k /\ (1 .. k) \ {k} = 1 .. k - 1 /\ 1 .. k # {}
        BY <3>1, LastOfFirst
      <3> HIDE DEF iter
      <3>3. iter[1 .. k] = Op(iter[(1 .. k) \ {Max(1 .. k)}], s[Max(1 .. k)])
        BY <1>5, <3>1, <3>2
      <3>4. QED  BY <3>2, <3>3
    <2>2. QED  BY <2>1
  <1>8. pre[0] = << >>
    <2> HIDE DEF iter
    <2>1. 1 .. 0 = {} /\ {} \in SUBSET DOMAIN s
      OBVIOUS
    <2>2. QED  BY <1>5, <2>1
  <1>9. pre[n] = iter[DOMAIN s]
    BY <1>1
  <1>10. QED
    <2> HIDE DEF iter, pre
    <2>1. QED  BY <1>6, <1>7, <1>8, <1>9

\* The sequence that starts with s[1 .. n].
LEMMA FirstOfIs ==
  ASSUME NEW X, NEW s \in Seq(X), NEW n \in Nat
  PROVE  /\ FirstOf(s, n) \in Seq(X)
         /\ Len(FirstOf(s, n)) = IF Len(s) < n THEN Len(s) ELSE n
         /\ \A i \in 1 .. Len(FirstOf(s, n)) : FirstOf(s, n)[i] = s[i]
         /\ Range(FirstOf(s, n)) \subseteq Range(s)
         /\ Len(s) <= n => FirstOf(s, n) = s
  <1> DEFINE m == IF Len(s) < n THEN Len(s) ELSE n
             t == FirstOf(s, n)
  <1>1. m \in Nat /\ m <= Len(s) /\ Len(s) \in Nat
    OBVIOUS
  <1>2. t = SubSeq(s, 1, m)
    BY DEF FirstOf
  <1>3. t \in Seq(X) /\ Len(t) = m /\ \A i \in 1 .. m : t[i] = s[i]
    <2> HIDE DEF m, t
    <2>1. QED  BY <1>1, <1>2
  <1>4. Range(t) \subseteq Range(s)
    <2> HIDE DEF m, t
    <2>1. QED  BY <1>1, <1>3 DEF Range
  <1>5. ASSUME Len(s) <= n PROVE t = s
    <2>1. m = Len(s)
      BY <1>1, <1>5
    <2>2. Len(t) = Len(s) /\ \A i \in 1 .. Len(s) : t[i] = s[i]
      BY <1>3, <2>1
    <2> HIDE DEF m, t
    <2>3. QED  BY <1>3, <2>2, SeqEqual
  <1>6. QED  BY <1>3, <1>4, <1>5

\* What appending does to the set of elements.
LEMMA RangeOfAppend ==
  ASSUME NEW X, NEW s \in Seq(X), NEW x \in X
  PROVE  /\ Append(s, x) \in Seq(X) /\ Range(Append(s, x)) = Range(s) \cup {x}
         /\ Range(s) \subseteq X
         /\ IsInjective(s) /\ x \notin Range(s) => IsInjective(Append(s, x))
  <1>1. /\ Append(s, x) \in Seq(X) /\ Len(Append(s, x)) = Len(s) + 1 /\ Len(s) \in Nat
        /\ \A i \in 1 .. Len(s) : Append(s, x)[i] = s[i] /\ s[i] \in X
        /\ Append(s, x)[Len(s) + 1] = x
        /\ DOMAIN s = 1 .. Len(s) /\ DOMAIN Append(s, x) = 1 .. Len(s) + 1
    OBVIOUS
  <1>2. 1 .. Len(s) + 1 = (1 .. Len(s)) \cup {Len(s) + 1}
    BY <1>1
  <1>3. Range(Append(s, x)) = Range(s) \cup {x} /\ Range(s) \subseteq X
    BY <1>1, <1>2 DEF Range
  <1>4. ASSUME IsInjective(s), x \notin Range(s) PROVE IsInjective(Append(s, x))
    <2>1. ASSUME NEW a \in 1 .. Len(s) + 1, NEW b \in 1 .. Len(s) + 1, Append(s, x)[a] = Append(s, x)[b]
          PROVE  a = b
      <3>1. CASE a \in 1 .. Len(s) /\ b \in 1 .. Len(s)
        BY <1>1, <1>4, <2>1, <3>1 DEF IsInjective
      <3>2. CASE a \in 1 .. Len(s) /\ b = Len(s) + 1
        BY <1>1, <1>4, <2>1, <3>2 DEF Range
      <3>3. CASE b \in 1 .. Len(s) /\ a = Len(s) + 1
        BY <1>1, <1>4, <2>1, <3>3 DEF Range
      <3>4. QED  BY <1>2, <3>1, <3>2, <3>3
    <2>2. QED  BY <1>1, <2>1 DEF IsInjective
  <1>5. QED  BY <1>1, <1>3, <1>4

\* Induction along the first n numbers, on a set in place of a predicate.
LEMMA UpToByInduction ==
  ASSUME NEW n \in Nat, NEW T, 0 \in T, \A k \in 1 .. n : k - 1 \in T => k \in T
  PROVE  \A k \in 0 .. n : k \in T
  <1> DEFINE D == {k \in Nat : k <= n => k \in T}
  <1>1. ASSUME NEW k \in Nat, \A m \in Nat : m < k => m \in D PROVE k \in D
    <2>1. CASE k = 0
      BY <2>1
    <2>2. CASE k # 0 /\ k <= n
      <3>1. k \in 1 .. n /\ k - 1 \in Nat /\ k - 1 < k /\ k - 1 <= n
        BY <2>2
      <3>2. k - 1 \in D
        BY <1>1, <3>1
      <3>3. QED  BY <3>1, <3>2
    <2>3. QED  BY <2>1, <2>2
  <1>2. D = Nat
    <2> HIDE DEF D
    <2>1. D \in SUBSET Nat
      BY DEF D
    <2>2. QED  BY <1>1, <2>1, NaturalsByInduction
  <1>3. \A k \in 0 .. n : k \in D /\ k <= n
    <2> HIDE DEF D
    <2>1. QED  BY <1>2
  <1>4. QED  BY <1>3

\* Distinct keeps every element, once.
LEMMA DistinctIs ==
  ASSUME NEW X, NEW s \in Seq(X)
  PROVE  Distinct(s) \in Seq(X) /\ Range(Distinct(s)) = Range(s) /\ IsInjective(Distinct(s))
  <1>1. PICK pre : /\ pre[0] = << >>
                   /\ \A k \in 1 .. Len(s) :
                        pre[k] = IF s[k] \in Range(pre[k - 1]) THEN pre[k - 1] ELSE Append(pre[k - 1], s[k])
                   /\ Distinct(s) = pre[Len(s)]
    BY DistinctSteps
  <1> DEFINE Good == {k \in Nat : /\ pre[k] \in Seq(X) /\ IsInjective(pre[k])
                                  /\ Range(pre[k]) = {s[i] : i \in 1 .. k}}
  <1>2. Len(s) \in Nat /\ \A k \in 1 .. Len(s) : s[k] \in X
    OBVIOUS
  <1>3. 0 \in Good
    <2>1. << >> \in Seq(X) /\ IsInjective(<< >>) /\ Range(<< >>) = {}
      BY DEF IsInjective, Range
    <2>2. 1 .. 0 = {}
      OBVIOUS
    <2>3. QED  BY <1>1, <2>1, <2>2
  <1>4. ASSUME NEW k \in 1 .. Len(s), k - 1 \in Good PROVE k \in Good
    <2>1. 1 .. k = (1 .. k - 1) \cup {k} /\ k \in Nat
      OBVIOUS
    <2>2. {s[i] : i \in 1 .. k} = {s[i] : i \in 1 .. k - 1} \cup {s[k]}
      BY <2>1
    <2>3. s[k] \in X /\ pre[k - 1] \in Seq(X)
      BY <1>2, <1>4
    <2> DEFINE r == pre[k - 1]
    <2>4. CASE s[k] \in Range(r)
      BY <1>1, <1>4, <2>1, <2>2, <2>4
    <2>5. CASE s[k] \notin Range(r)
      <3>1. pre[k] = Append(r, s[k])
        BY <1>1, <2>5
      <3>2. Append(r, s[k]) \in Seq(X) /\ Range(Append(r, s[k])) = Range(r) \cup {s[k]}
            /\ IsInjective(Append(r, s[k]))
        <4>1. IsInjective(r)
          BY <1>4
        <4> HIDE DEF r
        <4>2. QED  BY <2>3, <2>5, <4>1, RangeOfAppend DEF r
      <3>3. QED  BY <1>4, <2>1, <2>2, <3>1, <3>2
    <2>6. QED  BY <2>4, <2>5
  <1>5. Len(s) \in Good
    <2> DEFINE n == Len(s)
    <2> HIDE DEF Good, n
    <2>1. n \in Nat /\ \A k \in 1 .. n : k - 1 \in Good => k \in Good
      BY <1>2, <1>4 DEF n
    <2>2. \A k \in 0 .. n : k \in Good
      BY <1>3, <2>1, UpToByInduction
    <2>3. n \in 0 .. n
      BY <2>1
    <2>4. QED  BY <2>2, <2>3 DEF n
  <1>6. Range(s) = {s[i] : i \in 1 .. Len(s)}
    BY DEF Range
  <1>7. QED  BY <1>1, <1>5, <1>6

\* The numbers of a set in order are its numbers.
LEMMA InOrderIs ==
  ASSUME NEW S, IsFiniteSet(S), S \subseteq Nat
  PROVE  InOrder(S) \in Seq(S) /\ Len(InOrder(S)) = Cardinality(S) /\ Range(InOrder(S)) = S
  <1> DEFINE n == Cardinality(S)
             Below(x) == {y \in S : y < x}
             rank == [x \in S |-> Cardinality(Below(x))]
             T == 0 .. n - 1
  <1>1. n \in Nat /\ \A x \in S : x \in Nat
    BY FS_CardinalityType
  <1>2. ASSUME NEW x \in S PROVE IsFiniteSet(Below(x)) /\ rank[x] \in T
    <2>1. IsFiniteSet(S \ {x}) /\ Cardinality(S \ {x}) = n - 1
      BY FS_RemoveElement
    <2>2. Below(x) \in SUBSET (S \ {x})
      BY <1>1
    <2>3. IsFiniteSet(Below(x)) /\ Cardinality(Below(x)) <= n - 1
      BY <2>1, <2>2, FS_Subset
    <2>4. Cardinality(Below(x)) \in Nat
      BY <2>3, FS_CardinalityType
    <2>5. QED  BY <1>1, <2>3, <2>4
  <1>3. ASSUME NEW x \in S, NEW y \in S, x < y PROVE rank[x] # rank[y]
    <2>1. Below(x) \in SUBSET Below(y) /\ x \in Below(y) /\ x \notin Below(x)
      <3>1. \A z \in S : z < x => z < y
        BY <1>1, <1>3
      <3>2. ~(x < x)
        BY <1>1
      <3>3. QED  BY <1>3, <3>1, <3>2
    <2>2. Below(x) # Below(y)
      BY <2>1
    <2>3. Cardinality(Below(x)) # Cardinality(Below(y))
      BY <1>2, <2>1, <2>2, FS_Subset
    <2>4. QED  BY <2>3
  <1>4. rank \in Injection(S, T)
    <2>1. rank \in [S -> T]
      BY <1>2
    <2>2. ASSUME NEW x \in S, NEW y \in S, rank[x] = rank[y] PROVE x = y
      <3>1. ~(x < y) /\ ~(y < x)
        <4> HIDE DEF rank
        <4>1. QED  BY <1>3, <2>2
      <3>2. QED  BY <1>1, <3>1
    <2> HIDE DEF rank
    <2>3. QED  BY <2>1, <2>2 DEF Injection, IsInjective
  <1>5. rank \in Surjection(S, T)
    <2>1. IsFiniteSet(T) /\ Cardinality(T) = n
      <3>1. n - 1 \in Int /\ 0 \in Int
        BY <1>1
      <3>2. Cardinality(T) = IF 0 > n - 1 THEN 0 ELSE (n - 1) - 0 + 1
        BY <3>1, FS_Interval
      <3>3. IsFiniteSet(T)
        BY <3>1, FS_Interval
      <3>4. QED  BY <1>1, <3>2, <3>3
    <2> HIDE DEF rank, T
    <2>2. QED  BY <1>4, <2>1, FS_Injection
  <1> DEFINE Has(k) == {x \in S : Cardinality({y \in S : y < x}) = k - 1}
  <1>6. ASSUME NEW k \in 1 .. n PROVE InOrder(S)[k] \in S /\ rank[InOrder(S)[k]] = k - 1
    <2>1. PICK x \in S : rank[x] = k - 1
      <3>1. k - 1 \in T
        BY <1>1
      <3> HIDE DEF rank, T
      <3>2. QED  BY <1>5, <3>1 DEF Surjection
    <2>2. Cardinality({y \in S : y < x}) = k - 1
      BY <2>1
    <2>3. InOrder(S)[k] = CHOOSE z \in S : Cardinality({y \in S : y < z}) = k - 1
      BY DEF InOrder
    <2>4. QED  BY <2>2, <2>3
  <1>7. InOrder(S) \in [1 .. n -> S]
    <2> DEFINE At(k) == CHOOSE x \in S : Cardinality({y \in S : y < x}) = k - 1
    <2>1. InOrder(S) = [k \in 1 .. n |-> At(k)]
      BY Zenon DEF InOrder
    <2> HIDE DEF At, n
    <2>2. \A k \in 1 .. n : At(k) \in S
      BY <1>6, <2>1
    <2>3. QED  BY <2>1, <2>2
  <1>8. InOrder(S) \in Seq(S) /\ Len(InOrder(S)) = n
    BY <1>1, <1>7
  <1>9. ASSUME NEW x \in S PROVE \E k \in 1 .. n : InOrder(S)[k] = x
    <2>1. rank[x] + 1 \in 1 .. n
      BY <1>1, <1>2
    <2>2. InOrder(S)[rank[x] + 1] \in S /\ rank[InOrder(S)[rank[x] + 1]] = rank[x]
      <3> HIDE DEF rank
      <3>1. rank[x] \in Int
        BY <1>2 DEF rank
      <3>2. QED  BY <1>6, <2>1, <3>1
    <2>3. InOrder(S)[rank[x] + 1] = x
      <3> HIDE DEF rank
      <3>1. QED  BY <1>4, <2>2 DEF Injection, IsInjective
    <2>4. QED  BY <2>1, <2>3
  <1>10. Range(InOrder(S)) = S
    BY <1>7, <1>9 DEF Range
  <1>11. QED  BY <1>8, <1>10

\* A set as a list has the elements of the set, each once.
LEMMA ListedIs ==
  ASSUME NEW S, IsFiniteSet(S)
  PROVE  Listed(S) \in Seq(S) /\ Range(Listed(S)) = S /\ IsInjective(Listed(S))
  <1> DEFINE R == Seq(S)
             pick == [U \in SUBSET S |-> CHOOSE x \in U : TRUE]
             g == [c \in R \X S |-> Append(c[1], c[2])]
             Iter(h) == h = [U \in SUBSET S |-> IF U = {} THEN << >>
                               ELSE Append(h[U \ {CHOOSE x \in U : TRUE}], CHOOSE x \in U : TRUE)]
             iter == CHOOSE f : Iter(f)
  <1>1. \A U \in SUBSET S : U # {} => pick[U] \in U
    OBVIOUS
  <1>2. g \in [R \X S -> R] /\ << >> \in R
    OBVIOUS
  <1>3. PICK h \in [SUBSET S -> R] : SetRecursion(h, S, pick, << >>, g)
    <2> HIDE DEF R, g, pick
    <2>1. QED  BY <1>1, <1>2, SetSteps
  <1>4. Iter(h)
    <2>1. ASSUME NEW U \in SUBSET S
          PROVE  h[U] = IF U = {} THEN << >> ELSE Append(h[U \ {CHOOSE x \in U : TRUE}], CHOOSE x \in U : TRUE)
      <3>1. CASE U # {}
        <4>1. pick[U] \in S /\ U \ {pick[U]} \in SUBSET S /\ pick[U] = CHOOSE x \in U : TRUE
          BY <1>1, <3>1
        <4>2. h[U] = g[<<h[U \ {pick[U]}], pick[U]>>] /\ h[U \ {pick[U]}] \in R
          <5> HIDE DEF pick, g, R
          <5>1. QED  BY <1>3, <3>1, <4>1 DEF SetRecursion
        <4>3. QED  BY <3>1, <4>1, <4>2
      <3>2. QED  BY <1>3, <3>1 DEF SetRecursion
    <2>2. QED  BY <2>1
  <1>5. Iter(iter)
    BY <1>4
  <1>6. Listed(S) = iter[S]
    BY DEF Listed, FoldSet, MapThenFoldSet
  <1> DEFINE Good == {U \in SUBSET S : /\ iter[U] \in Seq(S) /\ Range(iter[U]) = U
                                       /\ IsInjective(iter[U])}
  <1>7. ASSUME NEW U \in SUBSET S, \A V \in SUBSET U : V # U => V \in Good PROVE U \in Good
    <2>1. CASE U = {}
      <3>1. << >> \in Seq(S) /\ IsInjective(<< >>) /\ Range(<< >>) = {}
        BY DEF IsInjective, Range
      <3>2. iter[U] = << >>
        <4> HIDE DEF iter
        <4>1. QED  BY <1>5, <2>1
      <3> HIDE DEF iter
      <3>3. QED  BY <2>1, <3>1, <3>2
    <2>2. CASE U # {}
      <3> DEFINE x == CHOOSE z \in U : TRUE
                 r == iter[U \ {x}]
      <3>1. x \in U /\ x \in S /\ U \ {x} \in SUBSET U /\ U \ {x} # U
        BY <2>2
      <3>2. iter[U] = Append(r, x)
        <4> HIDE DEF iter
        <4>1. QED  BY <1>5, <2>2
      <3> HIDE DEF iter, x
      <3>3. r \in Seq(S) /\ Range(r) = U \ {x} /\ IsInjective(r)
        BY <1>7, <3>1
      <3>4. Append(r, x) \in Seq(S) /\ Range(Append(r, x)) = Range(r) \cup {x} /\ IsInjective(Append(r, x))
        <4> HIDE DEF r
        <4>1. QED  BY <3>1, <3>3, RangeOfAppend
      <3>5. QED  BY <3>1, <3>2, <3>3, <3>4
    <2>3. QED  BY <2>1, <2>2
  <1>8. S \in Good
    <2> HIDE DEF Good
    <2>1. QED  BY <1>7, SubsetsByInduction
  <1>9. QED
    <2> HIDE DEF iter
    <2>1. QED  BY <1>6, <1>8

\* Putting sequences one after the other collects their elements.
LEMMA FlattenIs ==
  ASSUME NEW X, NEW n \in Nat, NEW s \in [1 .. n -> Seq(X)]
  PROVE  FlattenSeq(s) \in Seq(X) /\ Range(FlattenSeq(s)) = UNION {Range(s[i]) : i \in 1 .. n}
  <1>1. Len(s) = n /\ s \in Seq(Seq(X))
    OBVIOUS
  <1>2. CASE n = 0
    <2>1. FlattenSeq(s) = << >>
      BY <1>1, <1>2 DEF FlattenSeq
    <2>2. << >> \in Seq(X) /\ Range(<< >>) = {} /\ 1 .. n = {}
      BY <1>2 DEF Range
    <2>3. QED  BY <2>1, <2>2
  <1>3. CASE n # 0
    <2> DEFINE R == Seq(X)
               N == n - 1
               g == [c \in R \X (1 .. N) |-> c[1] \o s[c[2] + 1]]
               Iter(f) == f = [i \in 1 .. Len(s) |-> IF i = 1 THEN s[i] ELSE f[i - 1] \o s[i]]
               flatten == CHOOSE f : Iter(f)
    <2>1. g \in [R \X (1 .. N) -> R] /\ s[1] \in R /\ N \in Nat
      <3>1. ASSUME NEW c \in R \X (1 .. N) PROVE c[1] \o s[c[2] + 1] \in R
        <4>1. c[1] \in R /\ c[2] + 1 \in 1 .. n
          OBVIOUS
        <4>2. QED  BY <4>1, ConcatProperties
      <3>2. 1 \in 1 .. n /\ N \in Nat
        BY <1>3
      <3>3. QED  BY <3>1, <3>2
    <2>2. PICK h \in [0 .. N -> R] : NumberRecursion(h, N, s[1], g)
      <3> HIDE DEF R, g, N
      <3>1. QED  BY <2>1, NumberSteps
    <2>3. Iter([i \in 1 .. n |-> h[i - 1]])
      <3>1. ASSUME NEW i \in 1 .. n, i # 1 PROVE h[i - 1] = h[i - 1 - 1] \o s[i]
        <4>1. i - 1 \in 1 .. N /\ i - 1 - 1 \in 0 .. N /\ i - 1 + 1 = i
          BY <3>1
        <4>2. h[i - 1] = g[<<h[i - 1 - 1], i - 1>>]
          <5> HIDE DEF g, N, R
          <5>1. QED  BY <2>2, <4>1 DEF NumberRecursion
        <4>3. h[i - 1 - 1] \in R
          BY <2>2, <4>1
        <4>4. g[<<h[i - 1 - 1], i - 1>>] = h[i - 1 - 1] \o s[i - 1 + 1]
          BY <4>1, <4>3
        <4>5. QED  BY <4>1, <4>2, <4>4
      <3>2. h[0] = s[1]
        BY <2>2 DEF NumberRecursion
      <3>3. ASSUME NEW i \in 1 .. n
            PROVE  [j \in 1 .. n |-> h[j - 1]][i]
                   = IF i = 1 THEN s[i] ELSE [j \in 1 .. n |-> h[j - 1]][i - 1] \o s[i]
        <4>1. CASE i = 1
          BY <3>2, <4>1
        <4>2. CASE i # 1
          <5>1. i - 1 \in 1 .. n
            BY <4>2
          <5>2. QED  BY <3>1, <4>2, <5>1
        <4>3. QED  BY <4>1, <4>2
      <3>4. QED  BY <1>1, <3>3
    <2>4. Iter(flatten)
      BY <2>3
    <2>5. FlattenSeq(s) = flatten[n]
      BY <1>1, <1>3 DEF FlattenSeq
    <2> DEFINE Good == {k \in Nat : k # 0 => /\ flatten[k] \in Seq(X)
                                             /\ Range(flatten[k]) = UNION {Range(s[i]) : i \in 1 .. k}}
    <2>6. 0 \in Good
      OBVIOUS
    <2>7. ASSUME NEW k \in 1 .. n, k - 1 \in Good PROVE k \in Good
      <3>1. flatten[k] = IF k = 1 THEN s[k] ELSE flatten[k - 1] \o s[k]
        <4> HIDE DEF flatten
        <4>1. QED  BY <1>1, <2>4
      <3>2. s[k] \in Seq(X)
        OBVIOUS
      <3> HIDE DEF flatten
      <3>3. CASE k = 1
        <4>1. 1 .. k = {1}
          BY <3>3
        <4>2. UNION {Range(s[i]) : i \in 1 .. k} = Range(s[k])
          BY <3>3, <4>1
        <4>3. QED  BY <3>1, <3>2, <3>3, <4>2
      <3>4. CASE k # 1
        <4>1. /\ flatten[k - 1] \in Seq(X)
              /\ Range(flatten[k - 1]) = UNION {Range(s[i]) : i \in 1 .. k - 1}
          <5>1. k - 1 # 0
            BY <3>4
          <5>2. QED  BY <2>7, <5>1
        <4> DEFINE a == flatten[k - 1]
                   b == s[k]
        <4>2. a \o b \in Seq(X) /\ Range(a \o b) = Range(a) \cup Range(b)
          <5>1. a \in Seq(X) /\ b \in Seq(X)
            BY <3>2, <4>1
          <5> HIDE DEF a, b
          <5>2. QED  BY <5>1, RangeConcatenation, ConcatProperties
        <4>3. 1 .. k = (1 .. k - 1) \cup {k}
          BY <3>4
        <4>4. {Range(s[i]) : i \in 1 .. k} = {Range(s[i]) : i \in 1 .. k - 1} \cup {Range(s[k])}
          <5>1. k \in 1 .. k
            OBVIOUS
          <5>2. QED  BY <4>3, <5>1
        <4>5. UNION {Range(s[i]) : i \in 1 .. k} = (UNION {Range(s[i]) : i \in 1 .. k - 1}) \cup Range(s[k])
          <5> DEFINE A == {Range(s[i]) : i \in 1 .. k - 1}
          <5> HIDE DEF A
          <5>1. UNION (A \cup {Range(s[k])}) = (UNION A) \cup Range(s[k])
            OBVIOUS
          <5>2. QED  BY <4>4, <5>1 DEF A
        <4> DEFINE c == a \o b
        <4>6. flatten[k] = c
          BY <3>1, <3>4
        <4>7. Range(c) = UNION {Range(s[i]) : i \in 1 .. k}
          <5>1. Range(c) = (UNION {Range(s[i]) : i \in 1 .. k - 1}) \cup Range(s[k])
            <6> DEFINE A == UNION {Range(s[i]) : i \in 1 .. k - 1}
            <6>1. Range(a) = A /\ Range(b) = Range(s[k])
              BY <4>1
            <6> HIDE DEF a, b, A
            <6>2. Range(c) = A \cup Range(s[k])
              BY <4>2, <6>1
            <6>3. QED  BY <6>2 DEF A
          <5> HIDE DEF c
          <5>2. QED  BY <4>5, <5>1
        <4>8. c \in Seq(X)
          BY <4>2
        <4> HIDE DEF c
        <4>9. QED  BY <4>6, <4>7, <4>8
      <3>5. QED  BY <3>3, <3>4
    <2>8. n \in Good
      <3> HIDE DEF Good
      <3>1. \A k \in 0 .. n : k \in Good
        BY <2>6, <2>7, UpToByInduction
      <3>2. QED  BY <3>1
    <2>9. QED
      <3> HIDE DEF flatten
      <3>1. QED  BY <1>3, <2>5, <2>8
  <1>4. QED  BY <1>2, <1>3

\* Those, element by element.
LEMMA ThoseSteps ==
  ASSUME NEW X, NEW s \in Seq(X), NEW S
  PROVE  \E pre : /\ pre[0] = << >>
                  /\ \A k \in 1 .. Len(s) : pre[k] = IF s[k] \in S THEN Append(pre[k - 1], s[k]) ELSE pre[k - 1]
                  /\ Those(s, S) = pre[Len(s)]
  <1> DEFINE n == Len(s)
             R == Seq(X)
             Op(r, x) == IF x \in S THEN Append(r, x) ELSE r
             g == [c \in R \X (1 .. n) |-> Op(c[1], s[c[2]])]
             Iter(h) == h = [U \in SUBSET DOMAIN s |-> IF U = {} THEN << >> ELSE Op(h[U \ {Max(U)}], s[Max(U)])]
             iter == CHOOSE f : Iter(f)
             pre == [k \in 0 .. n |-> iter[1 .. k]]
  <1>1. n \in Nat /\ DOMAIN s = 1 .. n /\ \A k \in 1 .. n : s[k] \in X
    OBVIOUS
  <1>2. g \in [R \X (1 .. n) -> R] /\ << >> \in R
    <2>1. ASSUME NEW c \in R \X (1 .. n) PROVE Op(c[1], s[c[2]]) \in R
      <3>1. c[1] \in Seq(X) /\ s[c[2]] \in X
        BY <1>1
      <3>2. QED  BY <3>1
    <2>2. QED  BY <2>1
  <1>3. PICK h \in [SUBSET (1 .. n) -> R] : FoldRecursion(h, n, << >>, g)
    <2> HIDE DEF R, g, n
    <2>1. QED  BY <1>1, <1>2, FoldSteps
  <1>4. Iter(h)
    <2>1. ASSUME NEW U \in SUBSET (1 .. n)
          PROVE  h[U] = IF U = {} THEN << >> ELSE Op(h[U \ {Max(U)}], s[Max(U)])
      <3>1. CASE U # {}
        <4>1. Max(U) \in 1 .. n /\ U \ {Max(U)} \in SUBSET (1 .. n)
          BY <1>1, <3>1, MaxOfNumbers
        <4>2. QED  BY <1>3, <3>1, <4>1 DEF FoldRecursion
      <3>2. QED  BY <1>3, <3>1 DEF FoldRecursion
    <2>2. QED  BY <1>1, <2>1
  <1>5. Iter(iter)
    BY <1>4
  <1>6. Those(s, S) = iter[DOMAIN s]
    BY DEF Those, FoldLeft, MapThenFoldSet
  <1>7. ASSUME NEW k \in 1 .. n PROVE pre[k] = Op(pre[k - 1], s[k])
    <2>1. iter[1 .. k] = Op(iter[1 .. k - 1], s[k])
      <3>1. 1 .. k \in SUBSET DOMAIN s /\ k \in Nat /\ k # 0
        BY <1>1
      <3>2. Max(1 .. k) = k /\ (1 .. k) \ {k} = 1 .. k - 1 /\ 1 .. k # {}
        BY <3>1, LastOfFirst
      <3> HIDE DEF iter
      <3>3. iter[1 .. k] = Op(iter[(1 .. k) \ {Max(1 .. k)}], s[Max(1 .. k)])
        BY <1>5, <3>1, <3>2
      <3>4. QED  BY <3>2, <3>3
    <2>2. pre[k] = iter[1 .. k] /\ pre[k - 1] = iter[1 .. k - 1]
      <3>1. k \in 0 .. n /\ k - 1 \in 0 .. n
        BY <1>1
      <3>2. QED  BY <3>1
    <2> HIDE DEF pre, iter
    <2>3. QED  BY <2>1, <2>2
  <1>8. pre[0] = << >>
    <2> HIDE DEF iter
    <2>1. 1 .. 0 = {} /\ {} \in SUBSET DOMAIN s
      OBVIOUS
    <2>2. QED  BY <1>5, <2>1
  <1>9. pre[n] = iter[DOMAIN s]
    BY <1>1
  <1>10. QED
    <2> HIDE DEF iter, pre
    <2>1. QED  BY <1>6, <1>7, <1>8, <1>9

\* Those keeps what is in the set, and everything where all is in it.
LEMMA ThoseIs ==
  ASSUME NEW X, NEW s \in Seq(X), NEW S
  PROVE  /\ Those(s, S) \in Seq(X) /\ Range(Those(s, S)) \subseteq S
         /\ Range(s) \subseteq S => Those(s, S) = s
  <1>1. PICK pre : /\ pre[0] = << >>
                   /\ \A k \in 1 .. Len(s) : pre[k] = IF s[k] \in S THEN Append(pre[k - 1], s[k]) ELSE pre[k - 1]
                   /\ Those(s, S) = pre[Len(s)]
    BY ThoseSteps
  <1> DEFINE n == Len(s)
             Good == {k \in Nat : /\ pre[k] \in Seq(X) /\ Range(pre[k]) \subseteq S
                                  /\ Range(s) \subseteq S => Len(pre[k]) = k /\ \A i \in 1 .. k : pre[k][i] = s[i]}
  <1>2. n \in Nat /\ \A k \in 1 .. n : s[k] \in X /\ s[k] \in Range(s)
    BY DEF Range
  <1>3. 0 \in Good
    <2>1. << >> \in Seq(X) /\ Range(<< >>) = {} /\ Len(<< >>) = 0 /\ 1 .. 0 = {}
      BY DEF Range
    <2>2. QED  BY <1>1, <2>1
  <1>4. ASSUME NEW k \in 1 .. n, k - 1 \in Good PROVE k \in Good
    <2> DEFINE r == pre[k - 1]
    <2>1. s[k] \in X /\ s[k] \in Range(s) /\ r \in Seq(X) /\ Range(r) \subseteq S /\ k \in Nat
      BY <1>2, <1>4
    <2>2. CASE s[k] \notin S
      BY <1>1, <1>4, <2>1, <2>2
    <2>3. CASE s[k] \in S
      <3>1. pre[k] = Append(r, s[k])
        BY <1>1, <2>3
      <3>2. Append(r, s[k]) \in Seq(X) /\ Range(Append(r, s[k])) \subseteq S
        <4> HIDE DEF r
        <4>1. QED  BY <2>1, <2>3, RangeOfAppend
      <3>3. ASSUME Range(s) \subseteq S
            PROVE  Len(Append(r, s[k])) = k /\ \A i \in 1 .. k : Append(r, s[k])[i] = s[i]
        <4>1. Len(r) = k - 1 /\ \A i \in 1 .. k - 1 : r[i] = s[i]
          BY <1>4, <3>3
        <4> HIDE DEF r
        <4>2. QED  BY <2>1, <4>1, AppendProperties
      <3> HIDE DEF r
      <3>4. QED  BY <2>1, <3>1, <3>2, <3>3
    <2>4. QED  BY <2>2, <2>3
  <1>5. n \in Good
    <2> HIDE DEF Good, n
    <2>1. \A k \in 0 .. n : k \in Good
      BY <1>2, <1>3, <1>4, UpToByInduction
    <2>2. QED  BY <1>2, <2>1
  <1>6. ASSUME Range(s) \subseteq S PROVE pre[n] = s
    <2>1. pre[n] \in Seq(X) /\ Len(pre[n]) = n /\ \A i \in 1 .. n : pre[n][i] = s[i]
      BY <1>5, <1>6
    <2>2. QED  BY <2>1, SeqEqual
  <1>7. QED  BY <1>1, <1>5, <1>6

\* The fold of Shorten, element by element.
LEMMA UnrepeatedSteps ==
  ASSUME NEW X, NEW s \in Seq(X)
  PROVE  \E pre : /\ pre[0] = << >>
                  /\ \A k \in 1 .. Len(s) :
                       pre[k] = IF pre[k - 1] # << >> /\ Last(pre[k - 1]) = s[k] THEN pre[k - 1]
                                ELSE Append(pre[k - 1], s[k])
                  /\ Unrepeated(s) = pre[Len(s)]
  <1> DEFINE n == Len(s)
             R == Seq(X)
             Op(r, x) == IF r # << >> /\ Last(r) = x THEN r ELSE Append(r, x)
             g == [c \in R \X (1 .. n) |-> Op(c[1], s[c[2]])]
             Iter(h) == h = [U \in SUBSET DOMAIN s |-> IF U = {} THEN << >> ELSE Op(h[U \ {Max(U)}], s[Max(U)])]
             iter == CHOOSE f : Iter(f)
             pre == [k \in 0 .. n |-> iter[1 .. k]]
  <1>1. n \in Nat /\ DOMAIN s = 1 .. n /\ \A k \in 1 .. n : s[k] \in X
    OBVIOUS
  <1>2. g \in [R \X (1 .. n) -> R] /\ << >> \in R
    <2>1. ASSUME NEW c \in R \X (1 .. n) PROVE Op(c[1], s[c[2]]) \in R
      <3>1. c[1] \in Seq(X) /\ s[c[2]] \in X
        BY <1>1
      <3>2. QED  BY <3>1
    <2>2. QED  BY <2>1
  <1>3. PICK h \in [SUBSET (1 .. n) -> R] : FoldRecursion(h, n, << >>, g)
    <2> HIDE DEF R, g, n
    <2>1. QED  BY <1>1, <1>2, FoldSteps
  <1>4. Iter(h)
    <2>1. ASSUME NEW U \in SUBSET (1 .. n)
          PROVE  h[U] = IF U = {} THEN << >> ELSE Op(h[U \ {Max(U)}], s[Max(U)])
      <3>1. CASE U # {}
        <4>1. Max(U) \in 1 .. n /\ U \ {Max(U)} \in SUBSET (1 .. n)
          BY <1>1, <3>1, MaxOfNumbers
        <4>2. QED  BY <1>3, <3>1, <4>1 DEF FoldRecursion
      <3>2. QED  BY <1>3, <3>1 DEF FoldRecursion
    <2>2. QED  BY <1>1, <2>1
  <1>5. Iter(iter)
    BY <1>4
  <1>6. Unrepeated(s) = iter[DOMAIN s]
    BY DEF Unrepeated, FoldLeft, MapThenFoldSet
  <1>7. ASSUME NEW k \in 1 .. n PROVE pre[k] = Op(pre[k - 1], s[k])
    <2>1. iter[1 .. k] = Op(iter[1 .. k - 1], s[k])
      <3>1. 1 .. k \in SUBSET DOMAIN s /\ k \in Nat /\ k # 0
        BY <1>1
      <3>2. Max(1 .. k) = k /\ (1 .. k) \ {k} = 1 .. k - 1 /\ 1 .. k # {}
        BY <3>1, LastOfFirst
      <3> HIDE DEF iter
      <3>3. iter[1 .. k] = Op(iter[(1 .. k) \ {Max(1 .. k)}], s[Max(1 .. k)])
        BY <1>5, <3>1, <3>2
      <3>4. QED  BY <3>2, <3>3
    <2>2. pre[k] = iter[1 .. k] /\ pre[k - 1] = iter[1 .. k - 1]
      <3>1. k \in 0 .. n /\ k - 1 \in 0 .. n
        BY <1>1
      <3>2. QED  BY <3>1
    <2> HIDE DEF pre, iter
    <2>3. QED  BY <2>1, <2>2
  <1>8. pre[0] = << >>
    <2> HIDE DEF iter
    <2>1. 1 .. 0 = {} /\ {} \in SUBSET DOMAIN s
      OBVIOUS
    <2>2. QED  BY <1>5, <2>1
  <1>9. pre[n] = iter[DOMAIN s]
    BY <1>1
  <1>10. QED
    <2> HIDE DEF iter, pre
    <2>1. QED  BY <1>6, <1>7, <1>8, <1>9

\* A shortened sequence starts where the sequence does.
LEMMA ShortenIs ==
  ASSUME WorkflowGraphAssumption, NEW X, NEW s \in Seq(X)
  PROVE  /\ Shorten(s) \in Seq(X) /\ Range(Shorten(s)) \subseteq Range(s) /\ Len(Shorten(s)) <= MaxSequence
         /\ s # << >> => Len(Shorten(s)) >= 1 /\ Shorten(s)[1] = s[1]
  <1> DEFINE t == FirstOf(s, MaxSequence)
             n == Len(t)
  <1>1. MaxSequence \in Nat /\ MaxSequence # 0
    BY DEF WorkflowGraphAssumption
  <1>2. /\ t \in Seq(X) /\ Len(t) <= MaxSequence /\ Range(t) \subseteq Range(s)
        /\ s # << >> => Len(t) >= 1 /\ t[1] = s[1]
    <2>1. /\ t \in Seq(X) /\ Len(t) = IF Len(s) < MaxSequence THEN Len(s) ELSE MaxSequence
          /\ \A i \in 1 .. Len(t) : t[i] = s[i]
          /\ Range(t) \subseteq Range(s)
      BY <1>1, FirstOfIs
    <2>2. s # << >> => Len(s) >= 1
      OBVIOUS
    <2> HIDE DEF t
    <2>3. QED  BY <1>1, <2>1, <2>2
  <1>3. Shorten(s) = Unrepeated(t)
    BY DEF Shorten
  <1> HIDE DEF t
  <1>4. PICK pre : /\ pre[0] = << >>
                   /\ \A k \in 1 .. Len(t) :
                        pre[k] = IF pre[k - 1] # << >> /\ Last(pre[k - 1]) = t[k] THEN pre[k - 1]
                                 ELSE Append(pre[k - 1], t[k])
                   /\ Unrepeated(t) = pre[Len(t)]
    BY <1>2, UnrepeatedSteps
  <1> DEFINE Good == {k \in Nat : /\ pre[k] \in Seq(X) /\ Range(pre[k]) \subseteq Range(t) /\ Len(pre[k]) <= k
                                  /\ k # 0 => Len(pre[k]) >= 1 /\ pre[k][1] = t[1]}
  <1>5. n \in Nat /\ \A k \in 1 .. n : t[k] \in X /\ t[k] \in Range(t)
    BY <1>2 DEF Range
  <1>6. 0 \in Good
    <2>1. << >> \in Seq(X) /\ Range(<< >>) = {} /\ Len(<< >>) = 0
      BY DEF Range
    <2>2. pre[0] = << >>
      BY <1>4
    <2>3. pre[0] \in Seq(X) /\ Range(pre[0]) \subseteq Range(t) /\ Len(pre[0]) <= 0
      BY <2>1, <2>2
    <2>4. QED  BY <2>3
  <1>7. ASSUME NEW k \in 1 .. n, k - 1 \in Good PROVE k \in Good
    <2> DEFINE r == pre[k - 1]
    <2>1. /\ t[k] \in X /\ t[k] \in Range(t) /\ r \in Seq(X) /\ Range(r) \subseteq Range(t)
          /\ Len(r) <= k - 1 /\ k \in Nat
          /\ k # 1 => Len(r) >= 1 /\ r[1] = t[1]
      BY <1>5, <1>7
    <2>2. CASE r # << >> /\ Last(r) = t[k]
      <3>1. pre[k] = r
        BY <1>4, <2>2
      <3>2. k # 1
        <4>1. Len(r) # 0
          BY <2>1, <2>2
        <4>2. QED  BY <2>1, <4>1
      <3> HIDE DEF r
      <3>3. QED  BY <2>1, <3>1, <3>2
    <2>3. CASE ~(r # << >> /\ Last(r) = t[k])
      <3>1. pre[k] = Append(r, t[k])
        BY <1>4, <2>3
      <3> HIDE DEF r
      <3>2. Append(r, t[k]) \in Seq(X) /\ Range(Append(r, t[k])) \subseteq Range(t)
        BY <2>1, RangeOfAppend
      <3>3. Len(Append(r, t[k])) = Len(r) + 1 /\ (Len(r) >= 1 => Append(r, t[k])[1] = r[1])
            /\ (Len(r) = 0 => Append(r, t[k])[1] = t[k])
        BY <2>1, AppendProperties
      <3>4. CASE k = 1
        <4>1. Len(r) = 0
          BY <2>1, <3>4
        <4> HIDE DEF Good
        <4>2. Append(r, t[k])[1] = t[1] /\ Len(Append(r, t[k])) = 1
          BY <3>3, <3>4, <4>1
        <4>3. /\ pre[k] \in Seq(X) /\ Range(pre[k]) \subseteq Range(t)
              /\ Len(pre[k]) >= 1 /\ Len(pre[k]) <= k /\ pre[k][1] = t[1]
          BY <3>1, <3>2, <3>4, <4>2
        <4>4. QED  BY <4>3 DEF Good
      <3>5. CASE k # 1
        <4> HIDE DEF Good
        <4>1. Append(r, t[k])[1] = t[1] /\ Len(Append(r, t[k])) >= 1 /\ Len(Append(r, t[k])) <= k
          BY <2>1, <3>3, <3>5
        <4>2. /\ pre[k] \in Seq(X) /\ Range(pre[k]) \subseteq Range(t)
              /\ Len(pre[k]) >= 1 /\ Len(pre[k]) <= k /\ pre[k][1] = t[1]
          BY <3>1, <3>2, <4>1
        <4>3. QED  BY <4>2 DEF Good
      <3>6. QED  BY <3>4, <3>5
    <2>4. QED  BY <2>2, <2>3
  <1>8. n \in Good
    <2> HIDE DEF Good, n
    <2>1. \A k \in 0 .. n : k \in Good
      BY <1>5, <1>6, <1>7, UpToByInduction
    <2>2. QED  BY <1>5, <2>1
  <1>9. QED  BY <1>1, <1>2, <1>3, <1>4, <1>8

\* Two lists without repetitions and without a common element make one.
LEMMA InjectiveConcat ==
  ASSUME NEW X, NEW s \in Seq(X), NEW t \in Seq(X), IsInjective(s), IsInjective(t), Range(s) \cap Range(t) = {}
  PROVE  IsInjective(s \o t) /\ s \o t \in Seq(X) /\ Range(s \o t) = Range(s) \cup Range(t)
  <1> DEFINE m == Len(s)
             n == Len(t)
             u == s \o t
  <1>1. m \in Nat /\ n \in Nat /\ DOMAIN s = 1 .. m /\ DOMAIN t = 1 .. n
    OBVIOUS
  <1>2. u \in Seq(X) /\ Len(u) = m + n /\ \A i \in 1 .. m + n : u[i] = IF i <= m THEN s[i] ELSE t[i - m]
    BY ConcatProperties
  <1> HIDE DEF u
  <1>3. DOMAIN u = 1 .. m + n
    BY <1>1, <1>2
  <1>4. ASSUME NEW i \in 1 .. m + n, NEW j \in 1 .. m + n, u[i] = u[j] PROVE i = j
    <2>1. CASE i <= m /\ j <= m
      BY <1>1, <1>2, <1>4, <2>1 DEF IsInjective
    <2>2. CASE ~(i <= m) /\ ~(j <= m)
      <3>1. i - m \in 1 .. n /\ j - m \in 1 .. n /\ t[i - m] = t[j - m]
        BY <1>1, <1>2, <1>4, <2>2
      <3>2. i - m = j - m
        BY <1>1, <3>1 DEF IsInjective
      <3>3. QED  BY <1>1, <3>2
    <2>3. CASE i <= m /\ ~(j <= m)
      <3>1. i \in 1 .. m /\ j - m \in 1 .. n /\ s[i] = t[j - m]
        BY <1>1, <1>2, <1>4, <2>3
      <3>2. s[i] \in Range(s) /\ t[j - m] \in Range(t)
        BY <1>1, <3>1 DEF Range
      <3>3. QED  BY <3>1, <3>2
    <2>4. CASE ~(i <= m) /\ j <= m
      <3>1. j \in 1 .. m /\ i - m \in 1 .. n /\ s[j] = t[i - m]
        BY <1>1, <1>2, <1>4, <2>4
      <3>2. s[j] \in Range(s) /\ t[i - m] \in Range(t)
        BY <1>1, <3>1 DEF Range
      <3>3. QED  BY <3>1, <3>2
    <2>5. QED  BY <2>1, <2>2, <2>3, <2>4
  <1>5. IsInjective(u)
    BY <1>3, <1>4 DEF IsInjective
  <1>6. Range(u) = Range(s) \cup Range(t)
    BY RangeConcatenation DEF u
  <1>7. QED  BY <1>2, <1>5, <1>6 DEF u

(***************************************************************************)
(* Expansions                                                              *)
(***************************************************************************)
\* What is needed to know of the functions and blocks.
LEMMA GraphConstants ==
  ASSUME WorkflowGraphAssumption
  PROVE  /\ 0 \notin Functions /\ \A f \in Functions : f \in Nat
         /\ IsFiniteSet(Functions) /\ IsFiniteSet(Blocks) /\ Blocks \subseteq Nat /\ Functions \subseteq Nat
         /\ MaxCallDepth \in Nat /\ MaxDependencyDepth \in Nat /\ MaxModelFlows \in Nat /\ MaxModelNodes \in Nat
         /\ MaxModelEdges \in Nat /\ MinModelNodes \in Nat /\ MaxEntryFlows \in Nat
         /\ MaxSequence \in Nat /\ MaxSequence >= 1
  BY DEF WorkflowGraphAssumption

\* What one event lists, with what opening the functions it calls lists.
Entry(p, call, lists, i) ==
  LET g == p.events[call[1]][i]
  IN  IF g = 0 THEN <<Own(call[1], i)>> ELSE <<Fn(g)>> \o lists[<<g, call[2] \cup {call[1]}>>]

\* An expansion, level by level.
Opens(p, h) ==
  /\ h[0] = [call \in Call |-> << >>]
  /\ \A left \in 1 .. MaxCallDepth + 1 : \A call \in Call :
       h[left][call] = IF call[1] \in call[2] THEN << >>
                       ELSE FlattenSeq([i \in DOMAIN p.events[call[1]] |-> Entry(p, call, h[left - 1], i)])

\* Events are calls of functions, or the function's own.
LEMMA ProgramIs ==
  ASSUME NEW p \in Program, NEW f \in Functions
  PROVE  /\ p.events[f] \in Seq(Functions \cup {0}) /\ Len(p.events[f]) \in Nat
         /\ DOMAIN p.events[f] = 1 .. Len(p.events[f])
         /\ \A i \in DOMAIN p.events[f] : p.events[f][i] \in Functions \cup {0}
         /\ CalledBy(p, f) \subseteq Functions
         /\ p.routes \subseteq Functions /\ p.constrained \subseteq Functions
  <1>1. p.events \in [Functions -> Seq(Functions \cup {0})] /\ p.routes \subseteq Functions
        /\ p.constrained \subseteq Functions
    BY DEF Program
  <1>2. p.events[f] \in Seq(Functions \cup {0})
    BY <1>1
  <1> DEFINE s == p.events[f]
  <1>3. Len(s) \in Nat /\ DOMAIN s = 1 .. Len(s) /\ \A i \in DOMAIN s : s[i] \in Functions \cup {0}
    <2> HIDE DEF s
    <2>1. s \in Seq(Functions \cup {0})
      BY <1>2 DEF s
    <2>2. QED  BY <2>1
  <1>4. QED  BY <1>1, <1>2, <1>3 DEF CalledBy

\* Functions, what they own and routes are nodes.
LEMMA NodesHere ==
  ASSUME NEW p, NEW f \in Functions
  PROVE  /\ Fn(f) \in PythonNodes(p) /\ Owns(p, f) \subseteq PythonNodes(p)
         /\ f \in p.routes => Route(f) \in PythonNodes(p)
         /\ f \in p.constrained => Constraint \in PythonNodes(p)
  <1> DEFINE F == {{Fn(g)} \cup Owns(p, g) : g \in Functions}
  <1>1. {Fn(f)} \cup Owns(p, f) \in F
    OBVIOUS
  <1>2. {Fn(f)} \cup Owns(p, f) \subseteq UNION F
    <2> HIDE DEF F
    <2>1. QED  BY <1>1
  <1>3. UNION F \subseteq PythonNodes(p)
    BY DEF PythonNodes
  <1>4. QED  BY <1>2, <1>3 DEF PythonNodes

\* A level of the expansion lists nodes of the program if the level below it does.
Listing(p) == [Call -> Seq(PythonNodes(p))]

LEMMA EntryIs ==
  ASSUME WorkflowGraphAssumption, NEW p \in Program, NEW call \in Call, NEW lists \in Listing(p),
         NEW i \in DOMAIN p.events[call[1]]
  PROVE  /\ Entry(p, call, lists, i) \in Seq(PythonNodes(p))
         /\ Range(Entry(p, call, lists, i)) =
              IF p.events[call[1]][i] = 0 THEN {Own(call[1], i)}
              ELSE {Fn(p.events[call[1]][i])}
                   \cup Range(lists[<<p.events[call[1]][i], call[2] \cup {call[1]}>>])
  <1> DEFINE f == call[1]
             g == p.events[f][i]
             X == PythonNodes(p)
  <1>1. f \in Functions /\ call[2] \cup {f} \in SUBSET Functions
    BY DEF Call
  <1>2. g \in Functions \cup {0}
    BY <1>1, ProgramIs
  <1>3. CASE g = 0
    <2>1. Own(f, i) \in Owns(p, f)
      BY <1>3 DEF Owns
    <2>2. Own(f, i) \in X
      BY <1>1, <2>1, NodesHere
    <2>3. Entry(p, call, lists, i) = <<Own(f, i)>>
      BY <1>3 DEF Entry
    <2> DEFINE x == Own(f, i)
    <2> HIDE DEF x, X
    <2>4. <<x>> \in Seq(X) /\ Range(<<x>>) = {x}
      BY <2>2 DEF Range, x
    <2>5. QED  BY <1>3, <2>3, <2>4 DEF x, X
  <1>4. CASE g # 0
    <2>1. g \in Functions
      BY <1>2, <1>4
    <2>2. Fn(g) \in X
      BY <2>1 DEF PythonNodes
    <2> DEFINE x == Fn(g)
               t == lists[<<g, call[2] \cup {f}>>]
    <2>3. t \in Seq(X)
      BY <1>1, <2>1 DEF Call, Listing
    <2>4. Entry(p, call, lists, i) = <<x>> \o t
      BY <1>4 DEF Entry
    <2>5. <<x>> \o t \in Seq(X) /\ Range(<<x>> \o t) = {x} \cup Range(t)
      <3>1. x \in X
        BY <2>2
      <3> HIDE DEF x, t, X
      <3>2. <<x>> \in Seq(X) /\ Range(<<x>>) = {x}
        BY <3>1 DEF Range
      <3> DEFINE u == <<x>>
      <3>3. u \in Seq(X) /\ Range(u) = {x}
        BY <3>2
      <3>4. Range(u \o t) = {x} \cup Range(t) /\ u \o t \in Seq(X)
        <4> HIDE DEF u
        <4>1. QED  BY <2>3, <3>3, RangeConcatenation, ConcatProperties
      <3>5. QED  BY <3>4
    <2>6. QED  BY <1>4, <2>4, <2>5
  <1>5. QED  BY <1>3, <1>4

\* Opening a function lists its own events, its calls, and what opening those lists.
Opened(p, call, lists) == FlattenSeq([i \in DOMAIN p.events[call[1]] |-> Entry(p, call, lists, i)])
Deeper(p, call, lists) == UNION {Range(lists[<<g, call[2] \cup {call[1]}>>]) : g \in CalledBy(p, call[1])}

LEMMA OpenedIs ==
  ASSUME WorkflowGraphAssumption, NEW p \in Program, NEW call \in Call, NEW lists \in Listing(p)
  PROVE  /\ Opened(p, call, lists) \in Seq(PythonNodes(p))
         /\ Range(Opened(p, call, lists)) = Direct(p, call[1]) \cup Deeper(p, call, lists)
  <1> DEFINE f == call[1]
             n == Len(p.events[f])
             X == PythonNodes(p)
             s == [i \in DOMAIN p.events[f] |-> Entry(p, call, lists, i)]
             To(g) == Range(lists[<<g, call[2] \cup {f}>>])
  <1>1. f \in Functions
    BY DEF Call
  <1>2. n \in Nat /\ DOMAIN p.events[f] = 1 .. n
    BY <1>1, ProgramIs
  <1>3. s \in [1 .. n -> Seq(X)]
    <2>1. \A i \in 1 .. n : Entry(p, call, lists, i) \in Seq(X)
      BY <1>2, EntryIs
    <2> HIDE DEF X
    <2>2. QED  BY <1>2, <2>1
  <1>4. FlattenSeq(s) \in Seq(X) /\ Range(FlattenSeq(s)) = UNION {Range(s[i]) : i \in 1 .. n}
    <2> HIDE DEF s, X, n
    <2>1. QED  BY <1>2, <1>3, FlattenIs
  <1>5. ASSUME NEW i \in 1 .. n
        PROVE  Range(s[i]) = IF p.events[f][i] = 0 THEN {Own(f, i)}
                             ELSE {Fn(p.events[f][i])} \cup To(p.events[f][i])
    <2>1. s[i] = Entry(p, call, lists, i) /\ i \in DOMAIN p.events[f]
      BY <1>2
    <2>2. QED  BY <2>1, EntryIs
  <1>6. \A x : x \in UNION {Range(s[i]) : i \in 1 .. n} <=> \E i \in 1 .. n : x \in Range(s[i])
    <2> HIDE DEF s
    <2>1. QED  OBVIOUS
  <1>7. ASSUME NEW x, NEW i \in 1 .. n, x \in Range(s[i])
        PROVE  x \in Direct(p, f) \cup Deeper(p, call, lists)
    <2> DEFINE g == p.events[f][i]
    <2>1. CASE g = 0
      <3>1. x = Own(f, i)
        <4> HIDE DEF s
        <4>1. QED  BY <1>5, <1>7, <2>1
      <3>2. x \in Owns(p, f)
        BY <1>2, <2>1, <3>1 DEF Owns
      <3>3. QED  BY <3>2 DEF Direct
    <2>2. CASE g # 0
      <3>1. g \in CalledBy(p, f)
        BY <1>2, <2>2 DEF CalledBy
      <3>2. x = Fn(g) \/ x \in To(g)
        <4> HIDE DEF s, To
        <4>1. QED  BY <1>5, <1>7, <2>2
      <3>3. To(g) \subseteq Deeper(p, call, lists)
        BY <3>1 DEF Deeper
      <3>4. Fn(g) \in Direct(p, f)
        BY <3>1 DEF Direct
      <3> HIDE DEF To
      <3>5. QED  BY <3>2, <3>3, <3>4
    <2>3. QED  BY <2>1, <2>2
  <1>8. ASSUME NEW x \in Owns(p, f) PROVE \E i \in 1 .. n : x \in Range(s[i])
    <2>1. PICK i \in 1 .. n : p.events[f][i] = 0 /\ x = Own(f, i)
      BY <1>2 DEF Owns
    <2>2. Range(s[i]) = {Own(f, i)}
      <3> HIDE DEF s
      <3>1. QED  BY <1>5, <2>1
    <2> HIDE DEF s
    <2>3. QED  BY <2>1, <2>2
  <1>9. ASSUME NEW g \in CalledBy(p, f)
        PROVE  \E i \in 1 .. n : {Fn(g)} \cup To(g) \subseteq Range(s[i])
    <2>1. PICK i \in 1 .. n : g = p.events[f][i] /\ g # 0
      BY <1>2 DEF CalledBy
    <2>2. Range(s[i]) = {Fn(g)} \cup To(g)
      <3> HIDE DEF s, To
      <3>1. QED  BY <1>5, <2>1
    <2> HIDE DEF s, To
    <2>3. QED  BY <2>2
  <1>10. ASSUME NEW x, x \in Direct(p, f) \cup Deeper(p, call, lists)
         PROVE  \E i \in 1 .. n : x \in Range(s[i])
    <2>1. CASE x \in Owns(p, f)
      <3> HIDE DEF s
      <3>1. QED  BY <1>8, <2>1
    <2>2. CASE \E g \in CalledBy(p, f) : x = Fn(g) \/ x \in To(g)
      <3> HIDE DEF s, To
      <3>1. PICK g \in CalledBy(p, f) : x \in {Fn(g)} \cup To(g)
        BY <2>2
      <3>2. QED  BY <1>9, <3>1
    <2>3. QED  BY <1>10, <2>1, <2>2 DEF Direct, Deeper
  <1>11. UNION {Range(s[i]) : i \in 1 .. n} = Direct(p, f) \cup Deeper(p, call, lists)
    <2> DEFINE A == UNION {Range(s[i]) : i \in 1 .. n}
               B == Direct(p, f) \cup Deeper(p, call, lists)
    <2>1. \A x : x \in A <=> \E i \in 1 .. n : x \in Range(s[i])
      BY <1>6
    <2>2. \A x : x \in B <=> \E i \in 1 .. n : x \in Range(s[i])
      <3> HIDE DEF s, B
      <3>1. QED  BY <1>7, <1>10 DEF B
    <2> HIDE DEF A, B
    <2>3. A = B
      BY <2>1, <2>2
    <2>4. QED  BY <2>3 DEF A, B
  <1>12. Opened(p, call, lists) = FlattenSeq(s)
    BY DEF Opened
  <1>13. QED
    <2> HIDE DEF s
    <2>1. QED  BY <1>4, <1>11, <1>12

\* An expansion as its levels.
LEMMA ExpandLevels ==
  ASSUME WorkflowGraphAssumption, NEW p \in Program, NEW f \in Functions
  PROVE  \E h \in [0 .. MaxCallDepth + 1 -> Listing(p)] :
           Opens(p, h) /\ Expand(p, f) = h[MaxCallDepth + 1][<<f, {}>>]
  <1> DEFINE N == MaxCallDepth + 1
             R == Listing(p)
             Step(lists) == [call \in Call |-> IF call[1] \in call[2] THEN << >> ELSE Opened(p, call, lists)]
             base == [call \in Call |-> << >>]
             g == [c \in R \X (1 .. N) |-> Step(c[1])]
             Iter(e) == e = [left \in 0 .. MaxCallDepth + 1 |-> [call \in Call |->
                IF left = 0 \/ call[1] \in call[2] THEN << >>
                ELSE FlattenSeq([i \in DOMAIN p.events[call[1]] |->
                       IF p.events[call[1]][i] = 0 THEN <<Own(call[1], i)>>
                       ELSE <<Fn(p.events[call[1]][i])>>
                            \o e[left - 1][<<p.events[call[1]][i], call[2] \cup {call[1]}>>]])]]
             expand == CHOOSE e : Iter(e)
  <1>1. N \in Nat /\ base \in R
    BY GraphConstants DEF Listing
  <1>2. g \in [R \X (1 .. N) -> R]
    <2>1. ASSUME NEW lists \in R PROVE Step(lists) \in R
      <3>1. ASSUME NEW call \in Call
            PROVE  (IF call[1] \in call[2] THEN << >> ELSE Opened(p, call, lists)) \in Seq(PythonNodes(p))
        BY OpenedIs
      <3>2. QED  BY <3>1 DEF Listing
    <2> HIDE DEF Step, R
    <2>2. QED  BY <2>1
  <1>3. PICK h \in [0 .. N -> R] : NumberRecursion(h, N, base, g)
    <2> HIDE DEF N, R, g, base
    <2>1. QED  BY <1>1, <1>2, NumberSteps
  <1>4. h[0] = base /\ \A left \in 1 .. N : h[left] = Step(h[left - 1])
    <2>1. ASSUME NEW left \in 1 .. N PROVE h[left] = Step(h[left - 1])
      <3>1. left - 1 \in 0 .. N
        BY <1>1
      <3>2. h[left - 1] \in R
        BY <3>1
      <3>3. h[left] = g[<<h[left - 1], left>>]
        <4> HIDE DEF g, N, R, base
        <4>1. QED  BY <1>3 DEF NumberRecursion
      <3> HIDE DEF Step, R, N
      <3>4. g[<<h[left - 1], left>>] = Step(h[left - 1])
        BY <3>2
      <3>5. QED  BY <3>3, <3>4
    <2>2. h[0] = base
      BY <1>3 DEF NumberRecursion
    <2>3. QED  BY <2>1, <2>2
  <1>5. Iter(h)
    <2>1. ASSUME NEW left \in 0 .. N
          PROVE  h[left] = [call \in Call |->
                    IF left = 0 \/ call[1] \in call[2] THEN << >> ELSE Opened(p, call, h[left - 1])]
      <3>1. CASE left = 0
        BY <1>4, <3>1
      <3>2. CASE left # 0
        <4>1. left \in 1 .. N
          BY <3>2
        <4>2. h[left] = Step(h[left - 1])
          <5> HIDE DEF Step, N
          <5>1. QED  BY <1>4, <4>1
        <4>3. QED  BY <3>2, <4>2
      <3>3. QED  BY <3>1, <3>2
    <2>2. h = [left \in 0 .. N |-> h[left]]
      <3> HIDE DEF N, R
      <3>1. QED  OBVIOUS
    <2>3. h = [left \in 0 .. N |-> [call \in Call |->
                    IF left = 0 \/ call[1] \in call[2] THEN << >> ELSE Opened(p, call, h[left - 1])]]
      <3> HIDE DEF N, R
      <3>1. QED  BY <2>1, <2>2
    <2>4. QED  BY <2>3 DEF Opened, Entry
  <1>6. Iter(expand)
    <2> HIDE DEF Iter
    <2>1. QED  BY <1>5
  <1> DEFINE Same == {k \in Nat : expand[k] = h[k]}
  <1>7. ASSUME NEW k \in 0 .. N
        PROVE  expand[k] = [call \in Call |->
                  IF k = 0 \/ call[1] \in call[2] THEN << >> ELSE Opened(p, call, expand[k - 1])]
    <2> HIDE DEF expand
    <2>1. QED  BY <1>6 DEF Opened, Entry
  <1>8. 0 \in Same
    <2>1. expand[0] = base
      <3> HIDE DEF expand
      <3>1. QED  BY <1>1, <1>7
    <2> HIDE DEF expand, base
    <2>2. QED  BY <1>4, <2>1
  <1>9. ASSUME NEW k \in 1 .. N, k - 1 \in Same PROVE k \in Same
    <2>1. expand[k] = Step(expand[k - 1])
      <3>1. k \in 0 .. N /\ k # 0
        BY <1>1
      <3> HIDE DEF expand
      <3>2. QED  BY <1>7, <3>1
    <2> HIDE DEF expand, Step
    <2>2. QED  BY <1>4, <1>9, <2>1
  <1>10. expand[N] = h[N]
    <2> HIDE DEF Same, N
    <2>1. \A k \in 0 .. N : k \in Same
      BY <1>1, <1>8, <1>9, UpToByInduction
    <2>2. N \in 0 .. N
      BY <1>1
    <2> HIDE DEF expand
    <2>3. QED  BY <2>1, <2>2 DEF Same
  <1>11. Opens(p, h)
    <2>1. ASSUME NEW left \in 1 .. N, NEW call \in Call
          PROVE  h[left][call] = IF call[1] \in call[2] THEN << >> ELSE Opened(p, call, h[left - 1])
      <3>1. h[left] = Step(h[left - 1])
        <4> HIDE DEF Step
        <4>1. QED  BY <1>4
      <3>2. QED  BY <3>1
    <2>2. h[0] = [call \in Call |-> << >>]
      BY <1>4
    <2> HIDE DEF R
    <2>3. QED  BY <2>1, <2>2 DEF Opens, Opened
  <1>12. Expand(p, f) = expand[N][<<f, {}>>]
    BY DEF Expand
  <1>13. QED
    <2> HIDE DEF expand, base, g, Step
    <2>1. QED  BY <1>10, <1>11, <1>12

\* What functions call, and what so many calls reach.
Calls(p, G) == UNION {CalledBy(p, g) : g \in G}
Grows(p, f, w, N) == w[0] = {f} /\ \A n \in 1 .. N : w[n] = w[n - 1] \cup Calls(p, w[n - 1])

\* What so many calls reach, call by call.
LEMMA ReachedLevels ==
  ASSUME NEW p \in Program, NEW f \in Functions, NEW N \in Nat
  PROVE  \E w \in [0 .. N -> SUBSET Functions] : Grows(p, f, w, N) /\ Reached(p, f, N) = w[N]
  <1> DEFINE R == SUBSET Functions
             g == [c \in R \X (1 .. N) |-> c[1] \cup Calls(p, c[1])]
             Iter(w) == w = [n \in 0 .. N |-> IF n = 0 THEN {f} ELSE w[n - 1] \cup Calls(p, w[n - 1])]
             within == CHOOSE w : Iter(w)
  <1>1. g \in [R \X (1 .. N) -> R] /\ {f} \in R
    <2>1. ASSUME NEW G \in R PROVE G \cup Calls(p, G) \in R
      <3>1. \A x \in G : CalledBy(p, x) \subseteq Functions
        BY ProgramIs
      <3>2. QED  BY <3>1 DEF Calls
    <2>2. QED  BY <2>1
  <1>2. PICK w \in [0 .. N -> R] : NumberRecursion(w, N, {f}, g)
    <2> HIDE DEF R, g
    <2>1. QED  BY <1>1, NumberSteps
  <1>3. w[0] = {f} /\ \A n \in 1 .. N : w[n] = w[n - 1] \cup Calls(p, w[n - 1])
    <2>1. ASSUME NEW n \in 1 .. N PROVE w[n] = w[n - 1] \cup Calls(p, w[n - 1])
      <3>1. w[n] = g[<<w[n - 1], n>>] /\ w[n - 1] \in R
        <4> HIDE DEF g, R
        <4>1. QED  BY <1>2 DEF NumberRecursion
      <3>2. QED  BY <3>1
    <2>2. QED  BY <1>2, <2>1 DEF NumberRecursion
  <1>4. Iter(w)
    <2>1. ASSUME NEW n \in 0 .. N PROVE w[n] = IF n = 0 THEN {f} ELSE w[n - 1] \cup Calls(p, w[n - 1])
      BY <1>3
    <2>2. QED  BY <2>1
  <1>5. Iter(within)
    <2> HIDE DEF Iter
    <2>1. QED  BY <1>4
  <1> DEFINE Same == {k \in Nat : within[k] = w[k]}
  <1>6. 0 \in Same
    <2> HIDE DEF within
    <2>1. QED  BY <1>3, <1>5
  <1>7. ASSUME NEW k \in 1 .. N, k - 1 \in Same PROVE k \in Same
    <2> HIDE DEF within
    <2>1. k \in 0 .. N /\ k # 0 /\ k \in Nat
      OBVIOUS
    <2>2. within[k] = within[k - 1] \cup Calls(p, within[k - 1])
      BY <1>5, <2>1
    <2>3. within[k - 1] = w[k - 1]
      BY <1>7
    <2>4. w[k] = w[k - 1] \cup Calls(p, w[k - 1])
      BY <1>3
    <2>5. within[k] = w[k]
      BY <2>2, <2>3, <2>4
    <2>6. QED  BY <2>1, <2>5
  <1>8. within[N] = w[N]
    <2> HIDE DEF Same
    <2>1. \A k \in 0 .. N : k \in Same
      BY <1>6, <1>7, UpToByInduction
    <2>2. N \in 0 .. N
      OBVIOUS
    <2> HIDE DEF within
    <2>3. QED  BY <2>1, <2>2 DEF Same
  <1>9. Reached(p, f, N) = within[N]
    BY DEF Reached, Calls
  <1>10. QED
    <2> HIDE DEF within
    <2>1. QED  BY <1>3, <1>8, <1>9 DEF Grows

\* Fewer calls reach no more.
LEMMA ReachedGrows ==
  ASSUME NEW p, NEW f, NEW N \in Nat, NEW w \in [0 .. N -> SUBSET Functions], Grows(p, f, w, N)
  PROVE  \A n \in 0 .. N : w[n] \subseteq w[N]
  <1> DEFINE Good == {j \in Nat : w[N - j] \subseteq w[N]}
  <1>1. 0 \in Good
    OBVIOUS
  <1>2. ASSUME NEW j \in 1 .. N, j - 1 \in Good PROVE j \in Good
    <2>1. N - (j - 1) \in 1 .. N /\ (N - (j - 1)) - 1 = N - j
      OBVIOUS
    <2>2. w[N - j] \subseteq w[N - (j - 1)]
      BY <2>1 DEF Grows
    <2>3. w[N - (j - 1)] \subseteq w[N]
      BY <1>2
    <2>4. QED  BY <2>2, <2>3
  <1>3. \A j \in 0 .. N : j \in Good
    <2> HIDE DEF Good
    <2>1. QED  BY <1>1, <1>2, UpToByInduction
  <1>4. ASSUME NEW n \in 0 .. N PROVE w[n] \subseteq w[N]
    <2>1. N - n \in 0 .. N /\ N - (N - n) = n
      OBVIOUS
    <2>2. N - n \in Good
      <3> HIDE DEF Good
      <3>1. QED  BY <1>3, <2>1
    <2>3. QED  BY <2>1, <2>2
  <1>5. QED  BY <1>4

\* What a call lists at a level.
LEMMA LevelLists ==
  ASSUME WorkflowGraphAssumption, NEW p \in Program, NEW h \in [0 .. MaxCallDepth + 1 -> Listing(p)], Opens(p, h),
         NEW left \in 0 .. MaxCallDepth + 1, NEW call \in Call
  PROVE  /\ left = 0 => Range(h[left][call]) = {}
         /\ left # 0 /\ call[1] \notin call[2] =>
              Range(h[left][call]) = Direct(p, call[1]) \cup Deeper(p, call, h[left - 1])
         /\ call[1] \in call[2] => Range(h[left][call]) = {}
  <1>1. Range(<< >>) = {}
    BY DEF Range
  <1>2. CASE left = 0
    <2>1. h[left][call] = << >>
      BY <1>2 DEF Opens
    <2>2. QED  BY <1>1, <1>2, <2>1
  <1>3. CASE left # 0
    <2>1. left \in 1 .. MaxCallDepth + 1 /\ left - 1 \in 0 .. MaxCallDepth + 1
      BY <1>3, GraphConstants
    <2>2. h[left][call] = IF call[1] \in call[2] THEN << >> ELSE Opened(p, call, h[left - 1])
      BY <2>1 DEF Opens, Opened
    <2>3. Range(Opened(p, call, h[left - 1])) = Direct(p, call[1]) \cup Deeper(p, call, h[left - 1])
      <3>1. h[left - 1] \in Listing(p)
        BY <2>1
      <3>2. QED  BY <3>1, OpenedIs
    <2>4. QED  BY <1>1, <1>3, <2>2, <2>3
  <1>4. QED  BY <1>2, <1>3

\* An expansion lists what the functions that MaxCallDepth calls reach do: no more,
\* as every call on the way is one of these, and no less, as no function is opened
\* twice on a shortest way to it.
LEMMA ExpandFollows ==
  ASSUME WorkflowGraphAssumption, NEW p \in Program, NEW f \in Functions
  PROVE  Follows(p, f) /\ Expand(p, f) \in Seq(PythonNodes(p))
  <1> DEFINE D == MaxCallDepth
  <1>1. D \in Nat
    BY GraphConstants
  <1>2. PICK h \in [0 .. D + 1 -> Listing(p)] : Opens(p, h) /\ Expand(p, f) = h[D + 1][<<f, {}>>]
    BY ExpandLevels
  <1>3. PICK w \in [0 .. D -> SUBSET Functions] : Grows(p, f, w, D) /\ Reached(p, f, D) = w[D]
    BY <1>1, ReachedLevels
  <1> DEFINE All == UNION {Direct(p, g) : g \in w[D]}
             L(left, g, stack) == Range(h[left][<<g, stack>>])
             Whole == L(D + 1, f, {})
  <1> HIDE DEF D
  <1>4. \A n \in 0 .. D : w[n] \subseteq w[D] /\ w[n] \subseteq Functions
    BY <1>1, <1>3, ReachedGrows
  <1>5. \A n \in 1 .. D : \A g \in w[n - 1] : CalledBy(p, g) \subseteq w[n]
    BY <1>3 DEF Grows, Calls
  <1>6. ASSUME NEW left \in 0 .. D + 1, NEW g \in Functions, NEW stack \in SUBSET Functions
        PROVE  /\ left = 0 \/ g \in stack => L(left, g, stack) = {}
               /\ left # 0 /\ g \notin stack =>
                    L(left, g, stack) = Direct(p, g) \cup UNION {L(left - 1, x, stack \cup {g}) : x \in CalledBy(p, g)}
    <2> DEFINE call == <<g, stack>>
    <2>1. call \in Call /\ call[1] = g /\ call[2] = stack
      BY DEF Call
    <2> HIDE DEF call
    <2>2. /\ left = 0 => Range(h[left][call]) = {}
          /\ left # 0 /\ call[1] \notin call[2] =>
               Range(h[left][call]) = Direct(p, call[1]) \cup Deeper(p, call, h[left - 1])
          /\ call[1] \in call[2] => Range(h[left][call]) = {}
      BY <1>2, <2>1, LevelLists DEF D
    <2>3. Deeper(p, call, h[left - 1]) = UNION {L(left - 1, x, stack \cup {g}) : x \in CalledBy(p, g)}
      BY <2>1 DEF Deeper
    <2>4. QED  BY <2>1, <2>2, <2>3 DEF call
  <1> DEFINE Below == {left \in Nat : left <= D + 1 =>
               \A g \in Functions : \A stack \in SUBSET Functions :
                 (left = 0 \/ g \in w[D + 1 - left]) => L(left, g, stack) \subseteq All}
  <1> HIDE DEF L
  <1>7. 0 \in Below
    <2>1. 0 \in 0 .. D + 1
      BY <1>1
    <2>2. QED  BY <1>6, <2>1
  <1>8. ASSUME NEW left \in 1 .. D + 1, left - 1 \in Below PROVE left \in Below
    <2>1. ASSUME NEW g \in Functions, NEW stack \in SUBSET Functions, g \in w[D + 1 - left]
          PROVE  L(left, g, stack) \subseteq All
      <3>1. left \in 0 .. D + 1 /\ left # 0 /\ D + 1 - left \in 0 .. D /\ left - 1 \in Nat /\ left - 1 <= D + 1
        BY <1>1
      <3>2. Direct(p, g) \subseteq All
        <4>1. g \in w[D]
          BY <1>4, <2>1, <3>1
        <4>2. QED  BY <4>1
      <3>3. ASSUME NEW x \in CalledBy(p, g) PROVE L(left - 1, x, stack \cup {g}) \subseteq All
        <4>1. x \in Functions
          BY ProgramIs
        <4>2. left - 1 = 0 \/ x \in w[D + 1 - (left - 1)]
          <5>1. CASE left # 1
            <6> DEFINE n == D + 1 - (left - 1)
            <6>1. n \in 1 .. D /\ n - 1 = D + 1 - left
              BY <1>1, <5>1
            <6> HIDE DEF n
            <6>2. g \in w[n - 1]
              BY <2>1, <6>1
            <6>3. x \in w[n]
              BY <1>5, <6>1, <6>2
            <6>4. QED  BY <6>3 DEF n
          <5>2. QED  BY <5>1
        <4> HIDE DEF All
        <4>3. QED  BY <1>8, <3>1, <4>1, <4>2
      <3>4. CASE g \in stack
        BY <1>6, <3>1, <3>4
      <3>5. CASE g \notin stack
        <4>1. L(left, g, stack) = Direct(p, g) \cup UNION {L(left - 1, x, stack \cup {g}) : x \in CalledBy(p, g)}
          BY <1>6, <3>1, <3>5
        <4> HIDE DEF All
        <4>2. QED  BY <3>2, <3>3, <4>1
      <3>6. QED  BY <3>4, <3>5
    <2> HIDE DEF All
    <2>2. QED  BY <2>1
  <1>9. Whole \subseteq All
    <2>1. D + 1 \in Below
      <3> HIDE DEF Below
      <3> DEFINE n == D + 1
      <3>1. n \in Nat
        BY <1>1
      <3>2. \A left \in 0 .. n : left \in Below
        <4>1. \A left \in 1 .. n : left - 1 \in Below => left \in Below
          BY <1>8
        <4> HIDE DEF n
        <4>2. QED  BY <1>7, <3>1, <4>1, UpToByInduction
      <3>3. QED  BY <3>1, <3>2
    <2>2. f \in w[0] /\ D + 1 - (D + 1) = 0 /\ D + 1 \in Nat
      BY <1>1, <1>3 DEF Grows
    <2> HIDE DEF All
    <2>3. QED  BY <2>1, <2>2
  <1> DEFINE Fresh(k, g) == \E stack \in SUBSET Functions :
               /\ k = 0 => stack = {}
               /\ k # 0 => stack \subseteq w[k - 1]
               /\ L(D + 1 - k, g, stack) \subseteq Whole
             New(k) == IF k = 0 THEN w[0] ELSE w[k] \ w[k - 1]
             Above == {k \in Nat : \A g \in New(k) : Fresh(k, g)}
  <1>10. ASSUME NEW k \in 0 .. D, NEW g \in New(k), NEW stack \in SUBSET Functions,
               k = 0 => stack = {}, k # 0 => stack \subseteq w[k - 1], L(D + 1 - k, g, stack) \subseteq Whole
        PROVE  /\ Direct(p, g) \subseteq Whole
               /\ \A x \in CalledBy(p, g) : L(D - k, x, stack \cup {g}) \subseteq Whole
    <2>1. g \notin stack /\ g \in Functions
      <3>1. g \in w[k] /\ (k # 0 => g \notin w[k - 1])
        OBVIOUS
      <3>2. QED  BY <1>4, <1>10, <3>1
    <2>2. D + 1 - k \in 0 .. D + 1 /\ D + 1 - k # 0 /\ (D + 1 - k) - 1 = D - k
      BY <1>1
    <2>3. L(D + 1 - k, g, stack) = Direct(p, g) \cup UNION {L(D - k, x, stack \cup {g}) : x \in CalledBy(p, g)}
      <3> DEFINE left == D + 1 - k
      <3>1. left \in 0 .. D + 1 /\ left # 0 /\ left - 1 = D - k
        BY <2>2
      <3> HIDE DEF left
      <3>2. L(left, g, stack) = Direct(p, g) \cup UNION {L(left - 1, x, stack \cup {g}) : x \in CalledBy(p, g)}
        BY <1>6, <2>1, <3>1
      <3>3. QED  BY <3>1, <3>2 DEF left
    <2> HIDE DEF Whole
    <2>4. QED  BY <1>10, <2>3
  <1>11. 0 \in Above
    <2>1. ASSUME NEW g \in New(0) PROVE Fresh(0, g)
      <3>1. g = f
        BY <1>3 DEF Grows
      <3>2. L(D + 1 - 0, g, {}) \subseteq Whole
        BY <1>1, <3>1
      <3> HIDE DEF Whole
      <3>3. QED  BY <3>2
    <2>2. QED  BY <2>1
  <1>12. ASSUME NEW k \in 1 .. D, k - 1 \in Above PROVE k \in Above
    <2>1. ASSUME NEW g \in New(k) PROVE Fresh(k, g)
      <3>1. g \in w[k] /\ g \notin w[k - 1] /\ k - 1 \in 0 .. D
        BY <1>1
      <3>2. PICK x \in w[k - 1] : g \in CalledBy(p, x)
        <4>1. w[k] = w[k - 1] \cup Calls(p, w[k - 1])
          BY <1>3 DEF Grows
        <4>2. g \in Calls(p, w[k - 1])
          BY <3>1, <4>1
        <4>3. QED  BY <4>2 DEF Calls
      <3>3. x \in New(k - 1)
        <4>1. CASE k - 1 = 0
          BY <3>2, <4>1
        <4>2. CASE k - 1 # 0
          <5>1. k - 1 \in 1 .. D
            BY <1>1, <4>2
          <5>2. x \notin w[k - 1 - 1]
            BY <1>5, <3>1, <3>2, <5>1
          <5>3. QED  BY <3>2, <4>2, <5>2
        <4>3. QED  BY <4>1, <4>2
      <3> HIDE DEF New, Whole
      <3>4. PICK stack \in SUBSET Functions : /\ k - 1 = 0 => stack = {}
                                              /\ k - 1 # 0 => stack \subseteq w[k - 1 - 1]
                                              /\ L(D + 1 - (k - 1), x, stack) \subseteq Whole
        BY <1>12, <3>3
      <3>5. L(D - (k - 1), g, stack \cup {x}) \subseteq Whole
        BY <1>10, <3>1, <3>2, <3>3, <3>4
      <3>6. D - (k - 1) = D + 1 - k /\ k # 0
        BY <1>1
      <3>7. stack \cup {x} \subseteq w[k - 1] /\ w[k - 1] \subseteq Functions
        <4>1. k - 1 # 0 => w[k - 1 - 1] \subseteq w[k - 1]
          <5>1. k - 1 # 0 => k - 1 \in 1 .. D
            BY <1>1
          <5>2. QED  BY <1>3, <5>1 DEF Grows
        <4>2. QED  BY <1>4, <3>1, <3>2, <3>4, <4>1
      <3> DEFINE after == stack \cup {x}
      <3>8. L(D + 1 - k, g, after) \subseteq Whole /\ after \in SUBSET Functions /\ after \subseteq w[k - 1] /\ k # 0
        BY <3>5, <3>6, <3>7
      <3> HIDE DEF after
      <3>9. QED  BY <3>8
    <2> HIDE DEF Fresh, New
    <2>2. QED  BY <2>1
  <1>13. \A k \in 0 .. D : \A g \in New(k) : Direct(p, g) \subseteq Whole
    <2>1. \A k \in 0 .. D : k \in Above
      <3> HIDE DEF Above
      <3>1. QED  BY <1>1, <1>11, <1>12, UpToByInduction
    <2>2. ASSUME NEW k \in 0 .. D, NEW g \in New(k) PROVE Direct(p, g) \subseteq Whole
      <3>1. Fresh(k, g)
        BY <2>1
      <3> HIDE DEF New, Whole
      <3>2. QED  BY <1>10, <3>1
    <2>3. QED  BY <2>2
  <1> DEFINE Covered == {k \in Nat : \A g \in w[k] : Direct(p, g) \subseteq Whole}
  <1>14. 0 \in Covered
    <2>1. 0 \in 0 .. D /\ New(0) = w[0]
      BY <1>1
    <2> HIDE DEF New, Whole
    <2>2. QED  BY <1>13, <2>1
  <1>15. ASSUME NEW k \in 1 .. D, k - 1 \in Covered PROVE k \in Covered
    <2>1. k \in 0 .. D /\ New(k) = w[k] \ w[k - 1]
      OBVIOUS
    <2> HIDE DEF New, Whole
    <2>2. QED  BY <1>13, <1>15, <2>1
  <1>16. All \subseteq Whole
    <2>1. D \in Covered
      <3> HIDE DEF Covered
      <3>1. \A k \in 0 .. D : k \in Covered
        BY <1>1, <1>14, <1>15, UpToByInduction
      <3>2. QED  BY <1>1, <3>1
    <2> HIDE DEF Whole
    <2>2. QED  BY <2>1
  <1>17. Follows(p, f)
    <2>1. Range(Expand(p, f)) = Whole
      BY <1>2 DEF L, D
    <2>2. UNION {Direct(p, g) : g \in Reached(p, f, MaxCallDepth)} = All
      BY <1>3 DEF D
    <2> HIDE DEF All, Whole
    <2>3. QED  BY <1>9, <1>16, <2>1, <2>2 DEF Follows
  <1>18. Expand(p, f) \in Seq(PythonNodes(p))
    <2>1. <<f, {}>> \in Call /\ D + 1 \in 0 .. D + 1
      BY <1>1 DEF Call
    <2>2. h[D + 1] \in [Call -> Seq(PythonNodes(p))]
      BY <2>1 DEF Listing
    <2>3. QED  BY <1>2, <2>1, <2>2 DEF D
  <1>19. QED  BY <1>17, <1>18

(***************************************************************************)
(* Catalogues whose flows are among their edges                            *)
(***************************************************************************)
\* Flows and edges among some nodes.
RoleSets == {RolesOf[f] : f \in Functions} \cup {{"SYSTEM"}}
FlowsIn(nodes) == {x \in [roles : RoleSets, ids : Seq(nodes)] : Len(x.ids) >= 1 /\ Len(x.ids) <= MaxSequence}
EdgeTypes == {"calls", "contains", "handled_by", "enforced_by", "next", "documented_by", "depends_on"}
EdgesIn(nodes) == nodes \X nodes \X EdgeTypes

\* A catalogue in which edges and flows are among its nodes, and the steps of flows edges.
SoundCatalog(c) ==
  /\ IsFiniteSet(c.nodes)
  /\ c.edges \subseteq EdgesIn(c.nodes)
  /\ c.flows \in Seq(FlowsIn(c.nodes))
  /\ \A i \in DOMAIN c.flows : Edges("next", Pairs(c.flows[i].ids)) \subseteq c.edges

\* Edges made of pairs of nodes, and pairs of neighbours in a list of nodes.
LEMMA EdgesAre ==
  ASSUME NEW N, NEW type \in EdgeTypes, NEW pairs \in SUBSET (N \X N)
  PROVE  Edges(type, pairs) \subseteq EdgesIn(N)
  BY DEF Edges, EdgesIn

\* Neighbours in a list of nodes are nodes.
LEMMA PairsAre ==
  ASSUME NEW N, NEW s \in Seq(N)
  PROVE  Pairs(s) \in SUBSET (N \X N)
  <1>1. \A i \in 1 .. Len(s) - 1 : s[i] \in N /\ s[i + 1] \in N
    OBVIOUS
  <1>2. QED  BY <1>1 DEF Pairs

\* The image of a finite set is finite.
LEMMA ImageFinite ==
  ASSUME NEW S, IsFiniteSet(S), NEW F
  PROVE  IsFiniteSet({F[x] : x \in S})
  <1> DEFINE T == {F[x] : x \in S}
             g == [x \in S |-> F[x]]
  <1>1. g \in Surjection(S, T)
    BY DEF Surjection
  <1>2. QED  BY <1>1, FS_Surjection

\* There are finitely many edges among finitely many nodes.
LEMMA EdgesInFinite ==
  ASSUME NEW N, IsFiniteSet(N)
  PROVE  IsFiniteSet(EdgesIn(N))
  <1> DEFINE P == (N \X N) \X EdgeTypes
             F == [q \in P |-> <<q[1][1], q[1][2], q[2]>>]
  <1>1. IsFiniteSet(EdgeTypes)
    <2> DEFINE name == <<"calls", "contains", "handled_by", "enforced_by", "next", "documented_by", "depends_on">>
    <2>1. IsFiniteSet(1 .. 7)
      <3>1. 1 \in Int /\ 7 \in Int
        OBVIOUS
      <3>2. \A a, b \in Int : IsFiniteSet(a .. b)
        BY FS_Interval
      <3>3. QED  BY <3>1, <3>2, Zenon
    <2>2. IsFiniteSet({name[i] : i \in 1 .. 7})
      <3> HIDE DEF name
      <3>1. QED  BY <2>1, ImageFinite
    <2>3. 1 .. 7 = {1, 2, 3, 4, 5, 6, 7}
      OBVIOUS
    <2>4. EdgeTypes = {name[i] : i \in {1, 2, 3, 4, 5, 6, 7}}
      BY DEF EdgeTypes
    <2>5. QED  BY <2>2, <2>3, <2>4
  <1>2. IsFiniteSet(P)
    <2>1. IsFiniteSet(N \X N)
      BY FS_Product
    <2>2. QED  BY <1>1, <2>1, FS_Product
  <1>3. IsFiniteSet({F[q] : q \in P})
    <2> HIDE DEF P, F
    <2>1. QED  BY <1>2, ImageFinite
  <1>4. EdgesIn(N) \subseteq {F[q] : q \in P}
    <2>1. ASSUME NEW a \in N, NEW b \in N, NEW t \in EdgeTypes
          PROVE  <<a, b, t>> \in {F[q] : q \in P}
      <3>1. <<<<a, b>>, t>> \in P
        OBVIOUS
      <3>2. F[<<<<a, b>>, t>>] = <<a, b, t>>
        BY <3>1
      <3>3. QED  BY <3>1, <3>2
    <2>2. QED  BY <2>1 DEF EdgesIn
  <1>5. QED  BY <1>3, <1>4, FS_Subset

\* Building a catalogue of nodes, edges and flows among the nodes.
LEMMA CatalogSound ==
  ASSUME NEW nodes, IsFiniteSet(nodes), NEW edges \in SUBSET EdgesIn(nodes), NEW flows \in Seq(FlowsIn(nodes))
  PROVE  SoundCatalog(Catalog(nodes, edges, flows))
  <1> DEFINE P == UNION {Pairs(flows[i].ids) : i \in DOMAIN flows}
             c == Catalog(nodes, edges, flows)
  <1>1. \A i \in DOMAIN flows : flows[i] \in FlowsIn(nodes)
    OBVIOUS
  <1>2. \A i \in DOMAIN flows : Pairs(flows[i].ids) \in SUBSET (nodes \X nodes)
    <2>1. \A i \in DOMAIN flows : flows[i].ids \in Seq(nodes)
      BY <1>1 DEF FlowsIn
    <2>2. QED  BY <2>1, PairsAre
  <1>3. Edges("next", P) \subseteq EdgesIn(nodes)
    <2>1. P \in SUBSET (nodes \X nodes)
      BY <1>2
    <2>2. "next" \in EdgeTypes
      BY DEF EdgeTypes
    <2> HIDE DEF P
    <2>3. QED  BY <2>1, <2>2, EdgesAre
  <1>4. c.nodes = nodes /\ c.flows = flows /\ c.edges = edges \cup Edges("next", P)
    BY DEF Catalog
  <1>5. \A i \in DOMAIN flows : Edges("next", Pairs(flows[i].ids)) \subseteq Edges("next", P)
    BY DEF Edges
  <1> HIDE DEF c, P
  <1>6. QED  BY <1>3, <1>4, <1>5 DEF SoundCatalog, c

\* A flow among some nodes is one among more.
LEMMA FlowsInGrow ==
  ASSUME NEW A, NEW B, A \subseteq B
  PROVE  FlowsIn(A) \subseteq FlowsIn(B) /\ EdgesIn(A) \subseteq EdgesIn(B)
  <1>1. Seq(A) \subseteq Seq(B)
    BY SeqMonotonic
  <1>2. QED  BY <1>1 DEF FlowsIn, EdgesIn

\* _merge_catalogs keeps catalogues sound.
LEMMA MergedSound ==
  ASSUME NEW a, NEW b, SoundCatalog(a), SoundCatalog(b)
  PROVE  SoundCatalog([nodes |-> a.nodes \cup b.nodes, edges |-> a.edges \cup b.edges, flows |-> a.flows \o b.flows])
  <1> DEFINE N == a.nodes \cup b.nodes
             X == FlowsIn(N)
             s == a.flows
             t == b.flows
             E == a.edges \cup b.edges
             c == [nodes |-> N, edges |-> E, flows |-> s \o t]
             Good == {x \in X : Edges("next", Pairs(x.ids)) \subseteq E}
  <1>1. IsFiniteSet(N)
    BY FS_Union DEF SoundCatalog
  <1>2. E \subseteq EdgesIn(N)
    <2>1. EdgesIn(a.nodes) \subseteq EdgesIn(N) /\ EdgesIn(b.nodes) \subseteq EdgesIn(N)
      BY FlowsInGrow
    <2>2. QED  BY <2>1 DEF SoundCatalog
  <1>3. s \in Seq(Good) /\ t \in Seq(Good)
    <2>1. FlowsIn(a.nodes) \subseteq X /\ FlowsIn(b.nodes) \subseteq X
      BY FlowsInGrow
    <2>2. s \in Seq(FlowsIn(a.nodes)) /\ t \in Seq(FlowsIn(b.nodes))
      BY DEF SoundCatalog
    <2>3. ASSUME NEW i \in DOMAIN s PROVE s[i] \in Good
      <3>1. s[i] \in FlowsIn(a.nodes)
        BY <2>2
      <3>2. Edges("next", Pairs(s[i].ids)) \subseteq a.edges
        BY DEF SoundCatalog
      <3>3. QED  BY <2>1, <3>1, <3>2
    <2>4. ASSUME NEW i \in DOMAIN t PROVE t[i] \in Good
      <3>1. t[i] \in FlowsIn(b.nodes)
        BY <2>2
      <3>2. Edges("next", Pairs(t[i].ids)) \subseteq b.edges
        BY DEF SoundCatalog
      <3>3. QED  BY <2>1, <3>1, <3>2
    <2> HIDE DEF Good, s, t
    <2>5. QED  BY <2>2, <2>3, <2>4
  <1>4. s \o t \in Seq(Good)
    <2> HIDE DEF Good, s, t
    <2>1. QED  BY <1>3, ConcatProperties
  <1>5. \A i \in DOMAIN (s \o t) : Edges("next", Pairs((s \o t)[i].ids)) \subseteq E
    <2> DEFINE u == s \o t
    <2> HIDE DEF s, t
    <2>1. \A i \in DOMAIN u : u[i] \in Good
      <3> HIDE DEF Good, u
      <3>1. u \in Seq(Good)
        BY <1>4 DEF u
      <3>2. QED  BY <3>1
    <2> HIDE DEF u
    <2>2. \A i \in DOMAIN u : Edges("next", Pairs(u[i].ids)) \subseteq E
      BY <2>1
    <2>3. QED  BY <2>2 DEF u
  <1>6. s \o t \in Seq(X)
    <2> HIDE DEF s, t
    <2>1. Good \subseteq X
      OBVIOUS
    <2> HIDE DEF Good, X
    <2>2. QED  BY <1>4, <2>1, SeqMonotonic
  <1>7. c.nodes = N /\ c.edges = E /\ c.flows = s \o t
    OBVIOUS
  <1>8. SoundCatalog(c)
    <2> HIDE DEF s, t, E, N, c
    <2>1. QED  BY <1>1, <1>2, <1>5, <1>6, <1>7 DEF SoundCatalog, X
  <1>9. QED  BY <1>8

\* A function on the first numbers is a sequence.
LEMMA FunctionIsSeq ==
  ASSUME NEW S, NEW n \in Nat, NEW s \in [1 .. n -> S]
  PROVE  s \in Seq(S) /\ Len(s) = n
  OBVIOUS

(***************************************************************************)
(* The catalogues of Python functions                                      *)
(***************************************************************************)
\* A program has finitely many nodes.
LEMMA PythonNodesFinite ==
  ASSUME WorkflowGraphAssumption, NEW p \in Program
  PROVE  IsFiniteSet(PythonNodes(p))
  <1> DEFINE F == [f \in Functions |-> {Fn(f)} \cup Owns(p, f)]
             G == [f \in p.routes |-> Route(f)]
             Groups == {F[f] : f \in Functions}
  <1>1. IsFiniteSet(Functions) /\ IsFiniteSet(p.routes) /\ IsFiniteSet(p.constrained)
    <2>1. p.routes \in SUBSET Functions /\ p.constrained \in SUBSET Functions
      BY DEF Program
    <2>2. QED  BY <2>1, GraphConstants, FS_Subset
  <1>2. ASSUME NEW f \in Functions PROVE IsFiniteSet(F[f])
    <2> DEFINE J == {j \in DOMAIN p.events[f] : p.events[f][j] = 0}
               H == [i \in J |-> Own(f, i)]
               n == Len(p.events[f])
    <2>1. n \in Nat /\ J \in SUBSET (1 .. n)
      BY ProgramIs
    <2>2. IsFiniteSet(1 .. n)
      <3> HIDE DEF n
      <3>1. n \in Int /\ 1 \in Int
        BY <2>1
      <3>2. QED  BY <3>1, FS_Interval
    <2>3. IsFiniteSet(J)
      BY <2>1, <2>2, FS_Subset
    <2>4. IsFiniteSet({H[i] : i \in J})
      <3> HIDE DEF H, J
      <3>1. QED  BY <2>3, ImageFinite
    <2>5. Owns(p, f) = {H[i] : i \in J}
      BY DEF Owns
    <2>6. IsFiniteSet({Fn(f)} \cup Owns(p, f))
      <3>1. IsFiniteSet(Owns(p, f)) /\ IsFiniteSet({Fn(f)})
        BY <2>4, <2>5, FS_Singleton
      <3>2. QED  BY <3>1, FS_Union
    <2>7. QED  BY <2>6
  <1>3. IsFiniteSet(Groups)
    <2> HIDE DEF F
    <2>1. QED  BY <1>1, ImageFinite
  <1>4. IsFiniteSet(UNION Groups)
    <2> HIDE DEF F
    <2>1. \A T \in Groups : IsFiniteSet(T)
      BY <1>2
    <2> HIDE DEF Groups
    <2>2. QED  BY <1>3, <2>1, FS_UNION
  <1>5. IsFiniteSet({G[f] : f \in p.routes})
    <2> HIDE DEF G
    <2>1. QED  BY <1>1, ImageFinite
  <1>6. IsFiniteSet({Constraint : f \in p.constrained})
    <2>1. {Constraint : f \in p.constrained} \in SUBSET {Constraint}
      OBVIOUS
    <2>2. QED  BY <2>1, FS_Singleton, FS_Subset
  <1>7. PythonNodes(p) = (UNION Groups) \cup {G[f] : f \in p.routes} \cup {Constraint : f \in p.constrained}
    <2>1. Groups = {{Fn(f)} \cup Owns(p, f) : f \in Functions}
      OBVIOUS
    <2>2. {G[f] : f \in p.routes} = {Route(f) : f \in p.routes}
      OBVIOUS
    <2> HIDE DEF Groups, G
    <2>3. QED  BY <2>1, <2>2 DEF PythonNodes
  <1>8. QED
    <2> DEFINE A == UNION Groups
               B == {G[f] : f \in p.routes}
               C == {Constraint : f \in p.constrained}
    <2> HIDE DEF A, B, C
    <2>1. IsFiniteSet(A \cup B)
      BY <1>4, <1>5, FS_Union DEF A, B
    <2>2. IsFiniteSet(A \cup B \cup C)
      BY <1>6, <2>1, FS_Union DEF C
    <2>3. QED  BY <1>7, <2>2 DEF A, B, C

\* Edges of the Python builders are between nodes.
LEMMA PythonEdgesIn ==
  ASSUME NEW p \in Program
  PROVE  PythonEdges(p) \subseteq EdgesIn(PythonNodes(p))
  <1> DEFINE N == PythonNodes(p)
  <1>1. p.routes \subseteq Functions /\ p.constrained \subseteq Functions
    BY DEF Program
  <1>2. \A f \in Functions : Fn(f) \in N /\ Owns(p, f) \subseteq N
    BY NodesHere
  <1>3. \A f \in Functions : CalledBy(p, f) \subseteq Functions
    BY ProgramIs
  <1>4. {"calls", "contains", "handled_by", "enforced_by"} \subseteq EdgeTypes
    BY DEF EdgeTypes
  <1>5. ASSUME NEW f \in Functions
        PROVE  /\ Edges("calls", {<<Fn(f), Fn(g)>> : g \in CalledBy(p, f)}) \subseteq EdgesIn(N)
               /\ Edges("contains", {<<Fn(f), n>> : n \in Owns(p, f)}) \subseteq EdgesIn(N)
    <2>1. {<<Fn(f), Fn(g)>> : g \in CalledBy(p, f)} \in SUBSET (N \X N)
      <3> HIDE DEF N
      <3>1. QED  BY <1>2, <1>3
    <2>2. {<<Fn(f), n>> : n \in Owns(p, f)} \in SUBSET (N \X N)
      <3> HIDE DEF N
      <3>1. QED  BY <1>2
    <2>3. "calls" \in EdgeTypes /\ "contains" \in EdgeTypes
      BY <1>4
    <2> HIDE DEF N
    <2>4. QED  BY <2>1, <2>2, <2>3, EdgesAre
  <1>6. Edges("handled_by", {<<Route(f), Fn(f)>> : f \in p.routes}) \subseteq EdgesIn(N)
    <2>1. \A f \in p.routes : Route(f) \in N /\ Fn(f) \in N
      BY <1>1, NodesHere
    <2>2. "handled_by" \in EdgeTypes
      BY <1>4
    <2> HIDE DEF N
    <2>3. {<<Route(f), Fn(f)>> : f \in p.routes} \in SUBSET (N \X N)
      BY <2>1
    <2>4. QED  BY <2>2, <2>3, EdgesAre
  <1>7. Edges("enforced_by", UNION {Owns(p, f) \X {Constraint} : f \in p.constrained}) \subseteq EdgesIn(N)
    <2>1. \A f \in p.constrained : Constraint \in N /\ Owns(p, f) \subseteq N
      BY <1>1, NodesHere
    <2>2. "enforced_by" \in EdgeTypes
      BY <1>4
    <2> DEFINE P == UNION {Owns(p, f) \X {Constraint} : f \in p.constrained}
    <2> HIDE DEF N
    <2>3. P \in SUBSET (N \X N)
      BY <2>1
    <2> HIDE DEF P
    <2>4. Edges("enforced_by", P) \subseteq EdgesIn(N)
      BY <2>2, <2>3, EdgesAre
    <2>5. QED  BY <2>4 DEF P
  <1>8. QED
    <2> DEFINE A(f) == Edges("calls", {<<Fn(f), Fn(g)>> : g \in CalledBy(p, f)})
               B(f) == Edges("contains", {<<Fn(f), n>> : n \in Owns(p, f)})
               U == UNION {A(f) \cup B(f) : f \in Functions}
               C == Edges("handled_by", {<<Route(f), Fn(f)>> : f \in p.routes})
               D == Edges("enforced_by", UNION {Owns(p, f) \X {Constraint} : f \in p.constrained})
               E == EdgesIn(N)
    <2>1. PythonEdges(p) = U \cup C \cup D
      BY DEF PythonEdges
    <2>2. U \subseteq E
      <3>1. \A f \in Functions : A(f) \subseteq E /\ B(f) \subseteq E
        BY <1>5
      <3> HIDE DEF A, B, E
      <3>2. QED  BY <3>1
    <2>3. C \subseteq E /\ D \subseteq E
      BY <1>6, <1>7
    <2> HIDE DEF U, C, D, E
    <2>4. PythonEdges(p) \subseteq E
      BY <2>1, <2>2, <2>3
    <2>5. QED  BY <2>4 DEF E

\* A sequence of one or two nodes and then others.
LEMMA Started ==
  ASSUME WorkflowGraphAssumption, NEW X, NEW s \in Seq(X), NEW t \in Seq(X), s # << >>
  PROVE  /\ Shorten(s \o t) \in Seq(X)
         /\ Len(Shorten(s \o t)) >= 1 /\ Len(Shorten(s \o t)) <= MaxSequence /\ Shorten(s \o t)[1] = s[1]
  <1> DEFINE u == s \o t
  <1>1. u \in Seq(X) /\ Len(u) = Len(s) + Len(t) /\ Len(s) >= 1 /\ Len(t) \in Nat /\ u[1] = s[1]
    <2>1. Len(s) \in Nat /\ Len(s) # 0 /\ Len(t) \in Nat
      OBVIOUS
    <2>2. QED  BY <2>1, ConcatProperties
  <1>2. u # << >>
    <2> HIDE DEF u
    <2>1. Len(u) # 0
      BY <1>1
    <2>2. QED  BY <2>1
  <1> HIDE DEF u
  <1>3. /\ Shorten(u) \in Seq(X) /\ Len(Shorten(u)) <= MaxSequence
        /\ Len(Shorten(u)) >= 1 /\ Shorten(u)[1] = u[1]
    BY <1>1, <1>2, ShortenIs
  <1>4. QED  BY <1>1, <1>3 DEF u

\* The flow of a route starts there and stays among the nodes.
LEMMA RouteFlowIs ==
  ASSUME WorkflowGraphAssumption, NEW p \in Program, NEW f \in p.routes
  PROVE  /\ RouteFlow(p, f) \in FlowsIn(PythonNodes(p))
         /\ RouteFlow(p, f).ids[1] = Route(f) /\ RouteFlow(p, f).roles = RolesOf[f]
  <1> DEFINE X == PythonNodes(p)
             s == <<Route(f), Fn(f)>>
             t == Expand(p, f)
  <1>1. f \in Functions
    BY DEF Program
  <1>2. s \in Seq(X) /\ s # << >> /\ s[1] = Route(f)
    <2> DEFINE a == Route(f)
               b == Fn(f)
    <2>1. a \in X /\ b \in X
      BY <1>1, NodesHere
    <2> HIDE DEF a, b, X
    <2>2. <<a, b>> \in Seq(X) /\ <<a, b>> # << >> /\ <<a, b>>[1] = a
      BY <2>1
    <2>3. QED  BY <2>2 DEF a, b
  <1>3. t \in Seq(X)
    BY <1>1, ExpandFollows
  <1> HIDE DEF s, t, X
  <1>4. /\ Shorten(s \o t) \in Seq(X)
        /\ Len(Shorten(s \o t)) >= 1 /\ Len(Shorten(s \o t)) <= MaxSequence /\ Shorten(s \o t)[1] = s[1]
    BY <1>2, <1>3, Started
  <1>5. RouteFlow(p, f) = [roles |-> RolesOf[f], ids |-> Shorten(s \o t)]
    BY DEF RouteFlow, Flow, s, t
  <1>6. RolesOf[f] \in RoleSets
    BY <1>1 DEF RoleSets
  <1>7. QED  BY <1>2, <1>4, <1>5, <1>6 DEF FlowsIn, X

\* The flow of a function that no route reaches starts at the function.
LEMMA SystemFlowIs ==
  ASSUME WorkflowGraphAssumption, NEW p \in Program, NEW f \in Functions
  PROVE  /\ SystemFlow(p, f) \in FlowsIn(PythonNodes(p))
         /\ SystemFlow(p, f).ids[1] = Fn(f) /\ SystemFlow(p, f).roles = {"SYSTEM"}
  <1> DEFINE X == PythonNodes(p)
             s == <<Fn(f)>>
             t == Expand(p, f)
  <1>1. s \in Seq(X) /\ s # << >> /\ s[1] = Fn(f)
    <2> DEFINE b == Fn(f)
    <2>1. b \in X
      BY NodesHere
    <2> HIDE DEF b, X
    <2>2. <<b>> \in Seq(X) /\ <<b>> # << >> /\ <<b>>[1] = b
      BY <2>1
    <2>3. QED  BY <2>2 DEF b
  <1>2. t \in Seq(X)
    BY ExpandFollows
  <1> HIDE DEF s, t, X
  <1>3. /\ Shorten(s \o t) \in Seq(X)
        /\ Len(Shorten(s \o t)) >= 1 /\ Len(Shorten(s \o t)) <= MaxSequence /\ Shorten(s \o t)[1] = s[1]
    BY <1>1, <1>2, Started
  <1>4. SystemFlow(p, f) = [roles |-> {"SYSTEM"}, ids |-> Shorten(s \o t)]
    BY DEF SystemFlow, Flow, s, t
  <1>5. {"SYSTEM"} \in RoleSets
    BY DEF RoleSets
  <1>6. QED  BY <1>1, <1>3, <1>4, <1>5 DEF FlowsIn, X

\* Every default flow of Python functions starts at a route or at a function.
PythonFlows(p, systems) == {RouteFlow(p, f) : f \in p.routes} \cup {SystemFlow(p, f) : f \in systems}

LEMMA FlowsOfAre ==
  ASSUME WorkflowGraphAssumption, NEW p \in Program, NEW systems \in SUBSET Functions
  PROVE  /\ FlowsOf(p, systems) \in Seq(PythonFlows(p, systems))
         /\ PythonFlows(p, systems) \subseteq FlowsIn(PythonNodes(p))
  <1> DEFINE X == PythonFlows(p, systems)
             m == Cardinality(p.routes)
             n == Cardinality(systems)
             a == [i \in 1 .. m |-> RouteFlow(p, InOrder(p.routes)[i])]
             b == [i \in 1 .. n |-> SystemFlow(p, InOrder(systems)[i])]
  <1>1. /\ p.routes \subseteq Functions /\ IsFiniteSet(p.routes) /\ IsFiniteSet(systems)
        /\ p.routes \subseteq Nat /\ systems \subseteq Nat
    <2>1. p.routes \in SUBSET Functions
      BY DEF Program
    <2>2. IsFiniteSet(Functions) /\ Functions \subseteq Nat
      BY GraphConstants
    <2>3. QED  BY <2>1, <2>2, FS_Subset
  <1>2. /\ InOrder(p.routes) \in Seq(p.routes) /\ Len(InOrder(p.routes)) = m
        /\ InOrder(systems) \in Seq(systems) /\ Len(InOrder(systems)) = n
        /\ m \in Nat /\ n \in Nat
    BY <1>1, InOrderIs, FS_CardinalityType
  <1>3. \A i \in 1 .. m : InOrder(p.routes)[i] \in p.routes
    BY <1>2, ElementOfSeq
  <1>4. \A i \in 1 .. n : InOrder(systems)[i] \in systems
    BY <1>2, ElementOfSeq
  <1>5. a \in [1 .. m -> X] /\ b \in [1 .. n -> X]
    BY <1>3, <1>4 DEF PythonFlows
  <1>6. a \o b \in Seq(X)
    <2>1. a \in Seq(X) /\ b \in Seq(X)
      <3> HIDE DEF a, b, X, m, n
      <3>1. QED  BY <1>2, <1>5, FunctionIsSeq
    <2> HIDE DEF a, b, X
    <2>2. QED  BY <2>1, ConcatProperties
  <1>7. FlowsOf(p, systems) = a \o b
    BY DEF FlowsOf
  <1>8. X \subseteq FlowsIn(PythonNodes(p))
    BY RouteFlowIs, SystemFlowIs DEF PythonFlows
  <1> HIDE DEF a, b
  <1>9. QED  BY <1>6, <1>7, <1>8

\* The built-in catalogue is sound.
LEMMA BuiltInSound ==
  ASSUME WorkflowGraphAssumption, NEW p \in Program
  PROVE  /\ SoundCatalog(BuiltInCatalog(p)) /\ BuiltInCatalog(p).nodes = PythonNodes(p)
         /\ BuiltInCatalog(p).flows \in Seq(PythonFlows(p, SystemSymbols))
  <1> DEFINE N == PythonNodes(p)
             E == PythonEdges(p)
             F == FlowsOf(p, SystemSymbols)
  <1>1. SystemSymbols \in SUBSET Functions
    BY DEF WorkflowGraphAssumption
  <1>2. F \in Seq(PythonFlows(p, SystemSymbols)) /\ PythonFlows(p, SystemSymbols) \subseteq FlowsIn(N)
    BY <1>1, FlowsOfAre
  <1>3. F \in Seq(FlowsIn(N)) /\ E \in SUBSET EdgesIn(N) /\ IsFiniteSet(N)
    <2>1. E \subseteq EdgesIn(N) /\ IsFiniteSet(N)
      BY PythonEdgesIn, PythonNodesFinite
    <2> HIDE DEF F, N, E
    <2>2. QED  BY <1>2, <2>1, SeqMonotonic
  <1>4. BuiltInCatalog(p) = Catalog(N, E, F)
    BY DEF BuiltInCatalog
  <1> HIDE DEF N, E, F
  <1>5. SoundCatalog(Catalog(N, E, F))
    BY <1>3, CatalogSound
  <1>6. Catalog(N, E, F).nodes = N /\ Catalog(N, E, F).flows = F
    BY DEF Catalog
  <1>7. QED  BY <1>2, <1>4, <1>5, <1>6 DEF N

\* What documents mention is an edge to the document.
LEMMA DocumentedIn ==
  ASSUME NEW nodes
  PROVE  DocumentedBy(nodes) \subseteq EdgesIn(nodes \cup {Doc})
  <1> DEFINE N == nodes \cup {Doc}
             P == (Documented \cap nodes) \X {Doc}
  <1>1. P \in SUBSET (N \X N) /\ "documented_by" \in EdgeTypes
    BY DEF EdgeTypes
  <1> HIDE DEF N, P
  <1>2. Edges("documented_by", P) \subseteq EdgesIn(N)
    BY <1>1, EdgesAre
  <1>3. QED  BY <1>2 DEF DocumentedBy, P, N

\* So is the catalogue of a repository's Python functions.
LEMMA PythonSound ==
  ASSUME WorkflowGraphAssumption, NEW p \in Program
  PROVE  SoundCatalog(PythonCatalog(p))
  <1> DEFINE M == PythonNodes(p)
             N == M \cup {Doc}
             E == PythonEdges(p) \cup DocumentedBy(M)
             F == FlowsOf(p, PythonEntries(p))
  <1>1. PythonEntries(p) \in SUBSET Functions
    <2> DEFINE entries == {f \in Functions \ (p.routes \cup Private) :
                             f \in Mains \/ \A g \in Functions : f \notin CalledBy(p, g)}
    <2>1. IsFiniteSet(entries) /\ entries \subseteq Functions /\ entries \subseteq Nat
      <3>1. entries \in SUBSET Functions
        OBVIOUS
      <3> HIDE DEF entries
      <3>2. QED  BY <3>1, GraphConstants, FS_Subset
    <2>2. PythonEntries(p) = Range(FirstOf(InOrder(entries), MaxEntryFlows))
      BY DEF PythonEntries
    <2> HIDE DEF entries
    <2>3. InOrder(entries) \in Seq(entries) /\ Range(InOrder(entries)) = entries
      BY <2>1, InOrderIs
    <2>4. Range(FirstOf(InOrder(entries), MaxEntryFlows)) \subseteq entries
      BY <2>3, GraphConstants, FirstOfIs
    <2>5. QED  BY <2>1, <2>2, <2>4
  <1>2. F \in Seq(PythonFlows(p, PythonEntries(p))) /\ PythonFlows(p, PythonEntries(p)) \subseteq FlowsIn(M)
    BY <1>1, FlowsOfAre
  <1>3. FlowsIn(M) \subseteq FlowsIn(N) /\ EdgesIn(M) \subseteq EdgesIn(N)
    BY FlowsInGrow
  <1>4. F \in Seq(FlowsIn(N))
    <2> HIDE DEF F, M, N
    <2>1. PythonFlows(p, PythonEntries(p)) \subseteq FlowsIn(N)
      BY <1>2, <1>3
    <2>2. QED  BY <1>2, <2>1, SeqMonotonic
  <1>5. E \in SUBSET EdgesIn(N)
    BY <1>3, PythonEdgesIn, DocumentedIn
  <1>6. IsFiniteSet(N)
    BY PythonNodesFinite, FS_AddElement
  <1>7. PythonCatalog(p) = Catalog(N, E, F)
    BY DEF PythonCatalog
  <1> HIDE DEF N, E, F
  <1>8. QED  BY <1>4, <1>5, <1>6, <1>7, CatalogSound

(***************************************************************************)
(* The catalogue of blocks, and both merged                                *)
(***************************************************************************)
\* What blocks depend on are blocks.
LEMMA DependsIn ==
  ASSUME WorkflowGraphAssumption, NEW p \in Program
  PROVE  DependsOn(p) \subseteq Blocks \X Blocks
  <1>1. ASSUME NEW b \in Blocks, NEW a \in p.refers[b] PROVE BlockAt(a) \in Blocks
    <2>1. p.refers \in [Blocks -> SUBSET {AddressOf[c] : c \in Blocks}]
      BY DEF Program
    <2>2. PICK d \in Blocks : AddressOf[d] = a
      BY <2>1
    <2> DEFINE T == {c \in Blocks : AddressOf[c] = a}
    <2>3. T \in SUBSET Nat /\ T # {}
      BY <2>2, GraphConstants
    <2>4. PICK t \in T : \A y \in T : ~(y < t)
      <3> HIDE DEF T
      <3>1. QED  BY <2>3, LeastElement
    <2>5. t \in Blocks /\ AddressOf[t] = a /\ \A c \in Blocks : AddressOf[c] = a => t <= c
      BY <2>3, <2>4
    <2>6. QED  BY <2>5 DEF BlockAt
  <1>2. QED  BY <1>1 DEF DependsOn

\* Visiting one block after another.
BlockVisit == Seq(Blocks) \X Blocks
Visited == {r \in [BlockVisit -> Seq(Blocks)] : \A call \in BlockVisit : Len(r[call]) >= Len(call[1])}
Walk(r, start, s) == FoldLeft(LAMBDA result, c : r[<<result, c>>], start, s)

\* Visiting blocks one after the other keeps to blocks and loses none.
LEMMA WalkIs ==
  ASSUME NEW r \in Visited, NEW start \in Seq(Blocks), NEW s \in Seq(Blocks)
  PROVE  Walk(r, start, s) \in Seq(Blocks) /\ Len(Walk(r, start, s)) >= Len(start)
  <1> DEFINE n == Len(s)
             R == {t \in Seq(Blocks) : Len(t) >= Len(start)}
             g == [c \in R \X (1 .. n) |-> r[<<c[1], s[c[2]]>>]]
             Iter(h) == h = [U \in SUBSET DOMAIN s |-> IF U = {} THEN start ELSE r[<<h[U \ {Max(U)}], s[Max(U)]>>]]
             iter == CHOOSE f : Iter(f)
             pre == [k \in 0 .. n |-> iter[1 .. k]]
             Good == {k \in Nat : pre[k] \in R}
  <1>1. n \in Nat /\ DOMAIN s = 1 .. n /\ \A k \in 1 .. n : s[k] \in Blocks
    OBVIOUS
  <1>2. Len(start) \in Nat /\ start \in R
    OBVIOUS
  <1>3. ASSUME NEW t \in R, NEW b \in Blocks PROVE r[<<t, b>>] \in R
    <2> DEFINE call == <<t, b>>
    <2>1. call \in BlockVisit /\ call[1] = t
      BY DEF BlockVisit
    <2> HIDE DEF call
    <2>2. r[call] \in Seq(Blocks) /\ Len(r[call]) >= Len(t)
      BY <2>1 DEF Visited
    <2>3. Len(t) \in Nat /\ Len(r[call]) \in Nat /\ Len(t) >= Len(start)
      BY <2>2
    <2>4. QED  BY <1>2, <2>2, <2>3 DEF call
  <1>4. g \in [R \X (1 .. n) -> R]
    <2>1. ASSUME NEW c \in R \X (1 .. n) PROVE r[<<c[1], s[c[2]]>>] \in R
      <3>1. c[1] \in R /\ s[c[2]] \in Blocks
        BY <1>1
      <3> HIDE DEF R
      <3>2. QED  BY <1>3, <3>1
    <2> HIDE DEF R
    <2>2. QED  BY <2>1
  <1>5. PICK h \in [SUBSET (1 .. n) -> R] : FoldRecursion(h, n, start, g)
    <2> HIDE DEF R, g, n
    <2>1. QED  BY <1>1, <1>2, <1>4, FoldSteps
  <1>6. Iter(h)
    <2>1. ASSUME NEW U \in SUBSET (1 .. n)
          PROVE  h[U] = IF U = {} THEN start ELSE r[<<h[U \ {Max(U)}], s[Max(U)]>>]
      <3>1. CASE U # {}
        <4>1. Max(U) \in 1 .. n /\ U \ {Max(U)} \in SUBSET (1 .. n)
          BY <1>1, <3>1, MaxOfNumbers
        <4>2. h[U] = g[<<h[U \ {Max(U)}], Max(U)>>] /\ h[U \ {Max(U)}] \in R
          <5> HIDE DEF g, R, n
          <5>1. QED  BY <1>5, <3>1, <4>1 DEF FoldRecursion
        <4>3. QED  BY <3>1, <4>1, <4>2
      <3>2. QED  BY <1>5, <3>1 DEF FoldRecursion
    <2>2. QED  BY <1>1, <2>1
  <1>7. Iter(iter)
    BY <1>6
  <1>8. Walk(r, start, s) = iter[DOMAIN s]
    BY DEF Walk, FoldLeft, MapThenFoldSet
  <1>9. ASSUME NEW k \in 1 .. n PROVE pre[k] = r[<<pre[k - 1], s[k]>>]
    <2>1. iter[1 .. k] = r[<<iter[1 .. k - 1], s[k]>>]
      <3>1. 1 .. k \in SUBSET DOMAIN s /\ k \in Nat /\ k # 0
        BY <1>1
      <3>2. Max(1 .. k) = k /\ (1 .. k) \ {k} = 1 .. k - 1 /\ 1 .. k # {}
        BY <3>1, LastOfFirst
      <3> HIDE DEF iter
      <3>3. iter[1 .. k] = r[<<iter[(1 .. k) \ {Max(1 .. k)}], s[Max(1 .. k)]>>]
        BY <1>7, <3>1, <3>2
      <3>4. QED  BY <3>2, <3>3
    <2>2. pre[k] = iter[1 .. k] /\ pre[k - 1] = iter[1 .. k - 1]
      <3>1. k \in 0 .. n /\ k - 1 \in 0 .. n
        BY <1>1
      <3>2. QED  BY <3>1
    <2> HIDE DEF pre, iter
    <2>3. QED  BY <2>1, <2>2
  <1>10. pre[0] = start
    <2> HIDE DEF iter
    <2>1. 1 .. 0 = {} /\ {} \in SUBSET DOMAIN s
      OBVIOUS
    <2>2. QED  BY <1>7, <2>1
  <1>11. pre[n] = iter[DOMAIN s]
    BY <1>1
  <1>12. n \in Good
    <2> HIDE DEF pre, R
    <2>1. 0 \in Good
      BY <1>2, <1>10
    <2>2. ASSUME NEW k \in 1 .. n, k - 1 \in Good PROVE k \in Good
      <3>1. pre[k - 1] \in R /\ s[k] \in Blocks /\ k \in Nat
        BY <1>1, <2>2
      <3>2. r[<<pre[k - 1], s[k]>>] \in R
        BY <1>3, <3>1
      <3>3. pre[k] \in R
        BY <1>9, <3>2
      <3>4. QED  BY <3>1, <3>3
    <2> HIDE DEF Good, n
    <2>3. \A k \in 0 .. n : k \in Good
      BY <1>1, <2>1, <2>2, UpToByInduction
    <2>4. n \in 0 .. n
      BY <1>1
    <2>5. QED  BY <2>3, <2>4
  <1>13. QED
    <2> HIDE DEF pre, iter, n
    <2>1. Walk(r, start, s) \in R
      BY <1>8, <1>11, <1>12
    <2>2. QED  BY <2>1

\* What a block depends on, in order.
DependsInOrder(p, b) == InOrder({c \in Blocks : <<b, c>> \in DependsOn(p)})

\* What a block depends on, in order, is blocks.
LEMMA DependsInOrderAre ==
  ASSUME WorkflowGraphAssumption, NEW p, NEW b
  PROVE  DependsInOrder(p, b) \in Seq(Blocks)
  <1> DEFINE S == {c \in Blocks : <<b, c>> \in DependsOn(p)}
  <1>1. S \in SUBSET Blocks /\ IsFiniteSet(Blocks) /\ Blocks \subseteq Nat
    BY GraphConstants
  <1> HIDE DEF S
  <1>2. IsFiniteSet(S) /\ S \subseteq Nat
    BY <1>1, FS_Subset
  <1>3. InOrder(S) \in Seq(S)
    BY <1>2, InOrderIs
  <1>4. InOrder(S) \in Seq(Blocks)
    BY <1>1, <1>3, SeqMonotonic
  <1>5. QED  BY <1>4 DEF DependsInOrder, S

\* The order in which a flow of Terraform visits blocks: some, and not too many.
LEMMA DependencySequenceIs ==
  ASSUME WorkflowGraphAssumption, NEW p \in Program, NEW b \in Blocks
  PROVE  /\ DependencySequence(p, b) \in Seq(Blocks)
         /\ Len(DependencySequence(p, b)) >= 1 /\ Len(DependencySequence(p, b)) <= MaxSequence
  <1> DEFINE N == MaxDependencyDepth + 1
             Then(r, call) == IF call[2] \in Range(call[1]) THEN call[1]
                              ELSE Walk(r, Append(call[1], call[2]), DependsInOrder(p, call[2]))
             Step(r) == [call \in BlockVisit |-> Then(r, call)]
             base == [call \in BlockVisit |-> call[1]]
             g == [c \in Visited \X (1 .. N) |-> Step(c[1])]
             Iter(v) == v = [left \in 0 .. MaxDependencyDepth + 1 |-> [call \in BlockVisit |->
                IF left = 0 \/ call[2] \in Range(call[1]) THEN call[1]
                ELSE Walk(v[left - 1], Append(call[1], call[2]), DependsInOrder(p, call[2]))]]
             visit == CHOOSE v : Iter(v)
  <1>1. N \in Nat /\ base \in Visited
    <2>1. N \in Nat
      BY GraphConstants
    <2>2. ASSUME NEW call \in BlockVisit PROVE call[1] \in Seq(Blocks) /\ Len(call[1]) >= Len(call[1])
      BY DEF BlockVisit
    <2>3. QED  BY <2>1, <2>2 DEF Visited
  <1>2. ASSUME NEW r \in Visited, NEW call \in BlockVisit
        PROVE  /\ Then(r, call) \in Seq(Blocks) /\ Len(Then(r, call)) >= Len(call[1])
               /\ call[2] \notin Range(call[1]) => Len(Then(r, call)) >= Len(call[1]) + 1
    <2>1. call[1] \in Seq(Blocks) /\ call[2] \in Blocks
      BY DEF BlockVisit
    <2> DEFINE start == Append(call[1], call[2])
    <2>2. start \in Seq(Blocks) /\ Len(start) = Len(call[1]) + 1 /\ Len(call[1]) \in Nat
      BY <2>1
    <2>3. DependsInOrder(p, call[2]) \in Seq(Blocks)
      BY DependsInOrderAre
    <2> DEFINE w == Walk(r, start, DependsInOrder(p, call[2]))
    <2>4. w \in Seq(Blocks) /\ Len(w) >= Len(start) /\ Len(w) \in Nat
      <3>1. w \in Seq(Blocks) /\ Len(w) >= Len(start)
        <4> HIDE DEF start
        <4>1. QED  BY <2>2, <2>3, WalkIs
      <3> HIDE DEF w
      <3>2. QED  BY <3>1
    <2>5. Then(r, call) = IF call[2] \in Range(call[1]) THEN call[1] ELSE w
      OBVIOUS
    <2> HIDE DEF Then, w, start
    <2>6. QED  BY <2>1, <2>2, <2>4, <2>5
  <1>3. \A r \in Visited : Step(r) \in Visited
    <2> HIDE DEF Then
    <2>1. QED  BY <1>2 DEF Visited
  <1>4. g \in [Visited \X (1 .. N) -> Visited]
    <2> HIDE DEF Step
    <2>1. QED  BY <1>3
  <1>5. PICK h \in [0 .. N -> Visited] : NumberRecursion(h, N, base, g)
    <2> HIDE DEF N, g, base
    <2>1. QED  BY <1>1, <1>4, NumberSteps
  <1>6. h[0] = base /\ \A left \in 1 .. N : h[left] = Step(h[left - 1]) /\ h[left - 1] \in Visited
    <2>1. ASSUME NEW left \in 1 .. N PROVE h[left] = Step(h[left - 1]) /\ h[left - 1] \in Visited
      <3>1. h[left - 1] \in Visited
        BY <1>1
      <3>2. h[left] = g[<<h[left - 1], left>>]
        <4> HIDE DEF g, N, base
        <4>1. QED  BY <1>5 DEF NumberRecursion
      <3> HIDE DEF Step, N
      <3>3. QED  BY <3>1, <3>2
    <2>2. h[0] = base
      BY <1>5 DEF NumberRecursion
    <2>3. QED  BY <2>1, <2>2
  <1>7. Iter(h)
    <2>1. ASSUME NEW left \in 0 .. N
          PROVE  h[left] = [call \in BlockVisit |->
                    IF left = 0 \/ call[2] \in Range(call[1]) THEN call[1]
                    ELSE Walk(h[left - 1], Append(call[1], call[2]), DependsInOrder(p, call[2]))]
      <3>1. CASE left = 0
        BY <1>6, <3>1
      <3>2. CASE left # 0
        <4>1. left \in 1 .. N
          BY <3>2
        <4>2. h[left] = Step(h[left - 1])
          <5> HIDE DEF Step, N
          <5>1. QED  BY <1>6, <4>1
        <4>3. QED  BY <3>2, <4>2
      <3>3. QED  BY <3>1, <3>2
    <2>2. h = [left \in 0 .. N |-> h[left]]
      <3> HIDE DEF N
      <3>1. QED  OBVIOUS
    <2> HIDE DEF Visited
    <2>3. QED  BY <2>1, <2>2
  <1>8. Iter(visit)
    <2> HIDE DEF Iter
    <2>1. QED  BY <1>7
  <1> DEFINE Same == {k \in Nat : visit[k] = h[k]}
  <1>9. 0 \in Same
    <2>1. visit[0] = base
      <3> HIDE DEF visit
      <3>1. 0 \in 0 .. N
        BY <1>1
      <3>2. QED  BY <1>8, <3>1
    <2> HIDE DEF visit, base
    <2>2. QED  BY <1>6, <2>1
  <1>10. ASSUME NEW k \in 1 .. N, k - 1 \in Same PROVE k \in Same
    <2>1. visit[k] = Step(visit[k - 1])
      <3>1. k \in 0 .. N /\ k # 0
        BY <1>1
      <3> HIDE DEF visit
      <3>2. QED  BY <1>8, <3>1
    <2> HIDE DEF visit, Step
    <2>2. QED  BY <1>6, <1>10, <2>1
  <1>11. visit[N] = h[N]
    <2> HIDE DEF Same, N
    <2>1. \A k \in 0 .. N : k \in Same
      BY <1>1, <1>9, <1>10, UpToByInduction
    <2>2. N \in 0 .. N
      BY <1>1
    <2> HIDE DEF visit
    <2>3. QED  BY <2>1, <2>2 DEF Same
  <1> DEFINE first == << << >>, b>>
             d == h[N][first]
  <1>12. DependencySequence(p, b) = FirstOf(visit[N][first], MaxSequence)
    BY DEF DependencySequence, Walk, DependsInOrder, BlockVisit
  <1>13. d \in Seq(Blocks) /\ Len(d) >= 1
    <2>1. first \in BlockVisit /\ first[1] = << >> /\ first[2] = b /\ b \notin Range(<< >>) /\ Len(<< >>) = 0
      <3>1. Range(<< >>) = {} /\ Len(<< >>) = 0
        BY DEF Range
      <3> DEFINE e == << >>
      <3>2. e \in Seq(Blocks)
        OBVIOUS
      <3> HIDE DEF e
      <3>3. <<e, b>> \in BlockVisit /\ <<e, b>>[1] = e /\ <<e, b>>[2] = b
        BY <3>2 DEF BlockVisit
      <3>4. QED  BY <3>1, <3>3 DEF e
    <2>2. h[N] = Step(h[N - 1]) /\ h[N - 1] \in Visited
      <3>1. N \in 1 .. N
        BY GraphConstants
      <3> HIDE DEF N, Step
      <3>2. QED  BY <1>6, <3>1
    <2> DEFINE r == h[N - 1]
    <2> HIDE DEF first, Then, r
    <2>3. d = Then(r, first)
      BY <2>1, <2>2 DEF r
    <2>4. r \in Visited
      BY <2>2 DEF r
    <2> HIDE DEF d
    <2>5. /\ Then(r, first) \in Seq(Blocks)
          /\ first[2] \notin Range(first[1]) => Len(Then(r, first)) >= Len(first[1]) + 1
      BY <1>2, <2>1, <2>4
    <2>6. QED  BY <2>1, <2>3, <2>5
  <1>14. FirstOf(d, MaxSequence) \in Seq(Blocks) /\ Len(FirstOf(d, MaxSequence)) >= 1
         /\ Len(FirstOf(d, MaxSequence)) <= MaxSequence
    <2>1. MaxSequence \in Nat /\ MaxSequence >= 1
      BY GraphConstants
    <2> HIDE DEF d
    <2>2. FirstOf(d, MaxSequence) \in Seq(Blocks)
          /\ Len(FirstOf(d, MaxSequence)) = IF Len(d) < MaxSequence THEN Len(d) ELSE MaxSequence
      BY <1>13, <2>1, FirstOfIs
    <2>3. Len(d) \in Nat
      BY <1>13
    <2>4. QED  BY <1>13, <2>1, <2>2, <2>3
  <1>15. QED
    <2> HIDE DEF visit
    <2>1. DependencySequence(p, b) = FirstOf(d, MaxSequence)
      BY <1>11, <1>12
    <2> HIDE DEF d
    <2>2. QED  BY <1>14, <2>1

\* The flow of a block keeps to blocks.
LEMMA TerraformFlowIs ==
  ASSUME WorkflowGraphAssumption, NEW p \in Program, NEW b \in Blocks
  PROVE  TerraformFlow(p, b) \in FlowsIn({Block(c) : c \in Blocks})
  <1> DEFINE X == {Block(c) : c \in Blocks}
             s == DependencySequence(p, b)
             n == Len(s)
             t == [i \in DOMAIN s |-> Block(s[i])]
  <1>1. s \in Seq(Blocks) /\ n >= 1 /\ n <= MaxSequence
    BY DependencySequenceIs
  <1> HIDE DEF s
  <1>2. n \in Nat /\ DOMAIN s = 1 .. n /\ \A i \in 1 .. n : s[i] \in Blocks
    BY <1>1
  <1>3. t \in [1 .. n -> X]
    BY <1>2
  <1>4. t \in Seq(X) /\ Len(t) = n
    <2> HIDE DEF t, n, X
    <2>1. QED  BY <1>2, <1>3, FunctionIsSeq
  <1>5. TerraformFlow(p, b) = [roles |-> {"SYSTEM"}, ids |-> t]
    BY DEF TerraformFlow, Flow, s
  <1>6. {"SYSTEM"} \in RoleSets
    BY DEF RoleSets
  <1> HIDE DEF t
  <1>7. QED  BY <1>1, <1>4, <1>5, <1>6 DEF FlowsIn

\* The catalogue of blocks is sound.
LEMMA TerraformSound ==
  ASSUME WorkflowGraphAssumption, NEW p \in Program
  PROVE  SoundCatalog(TerraformCatalog(p))
  <1> DEFINE M == {Block(b) : b \in Blocks}
             N == M \cup {Doc}
             P == {<<Block(d[1]), Block(d[2])>> : d \in DependsOn(p)}
             E == Edges("depends_on", P) \cup DocumentedBy(M)
             starts == InOrder(Entries)
             F == [i \in DOMAIN starts |-> TerraformFlow(p, starts[i])]
  <1>1. IsFiniteSet(N)
    <2> DEFINE G == [b \in Blocks |-> Block(b)]
    <2>1. IsFiniteSet({G[b] : b \in Blocks})
      <3> HIDE DEF G
      <3>1. QED  BY GraphConstants, ImageFinite
    <2>2. {G[b] : b \in Blocks} = M
      OBVIOUS
    <2>3. IsFiniteSet(M)
      BY <2>1, <2>2
    <2>4. QED  BY <2>3, FS_AddElement
  <1>2. E \in SUBSET EdgesIn(N)
    <2>1. P \in SUBSET (N \X N)
      <3>1. \A d \in DependsOn(p) : d[1] \in Blocks /\ d[2] \in Blocks
        BY DependsIn
      <3>2. \A b \in Blocks : Block(b) \in N
        OBVIOUS
      <3>3. ASSUME NEW d \in DependsOn(p) PROVE <<Block(d[1]), Block(d[2])>> \in N \X N
        <4> HIDE DEF N
        <4>1. QED  BY <3>1, <3>2
      <3> HIDE DEF N
      <3>4. QED  BY <3>3
    <2>2. "depends_on" \in EdgeTypes
      BY DEF EdgeTypes
    <2>3. DocumentedBy(M) \subseteq EdgesIn(N)
      BY DocumentedIn
    <2> HIDE DEF P, N
    <2>4. Edges("depends_on", P) \subseteq EdgesIn(N)
      BY <2>1, <2>2, EdgesAre
    <2>5. QED  BY <2>3, <2>4
  <1>3. F \in Seq(FlowsIn(N))
    <2>1. starts \in Seq(Entries) /\ Entries \subseteq Blocks
      <3>1. Entries \in SUBSET Blocks
        BY DEF WorkflowGraphAssumption
      <3>2. IsFiniteSet(Entries) /\ Entries \subseteq Nat
        BY <3>1, GraphConstants, FS_Subset
      <3>3. QED  BY <3>1, <3>2, InOrderIs
    <2> DEFINE n == Len(starts)
    <2> HIDE DEF starts
    <2>2. n \in Nat /\ DOMAIN starts = 1 .. n /\ \A i \in 1 .. n : starts[i] \in Blocks
      <3>1. n \in Nat /\ DOMAIN starts = 1 .. n /\ \A i \in 1 .. n : starts[i] \in Entries
        BY <2>1
      <3> HIDE DEF n
      <3>2. QED  BY <2>1, <3>1
    <2>3. FlowsIn(M) \subseteq FlowsIn(N)
      BY FlowsInGrow
    <2>4. \A i \in 1 .. n : TerraformFlow(p, starts[i]) \in FlowsIn(N)
      <3> HIDE DEF N
      <3>1. QED  BY <2>2, <2>3, TerraformFlowIs
    <2>5. F \in [1 .. n -> FlowsIn(N)]
      <3> HIDE DEF N
      <3>1. QED  BY <2>2, <2>4
    <2> HIDE DEF F, n, N
    <2>6. QED  BY <2>2, <2>5, FunctionIsSeq
  <1>4. TerraformCatalog(p) = Catalog(N, E, F)
    BY DEF TerraformCatalog
  <1> HIDE DEF N, E, F
  <1>5. QED  BY <1>1, <1>2, <1>3, <1>4, CatalogSound

\* The merged catalogue is sound.
LEMMA RepositorySound ==
  ASSUME WorkflowGraphAssumption, NEW p \in Program
  PROVE  SoundCatalog(RepositoryCatalog(p))
  BY PythonSound, TerraformSound, MergedSound DEF RepositoryCatalog

(***************************************************************************)
(* The validators accept every default flow                                *)
(***************************************************************************)
\* Steps of a flow of a sound catalogue are connected.
LEMMA FlowOfSound ==
  ASSUME NEW c, SoundCatalog(c), NEW i \in DOMAIN c.flows, NEW types, "next" \in types
  PROVE  /\ Connected(c, c.flows[i].ids, types)
         /\ c.flows[i].ids \in Seq(c.nodes) /\ Range(c.flows[i].ids) \subseteq c.nodes
         /\ Len(c.flows[i].ids) >= 1 /\ Len(c.flows[i].ids) <= MaxSequence /\ Len(c.flows[i].ids) \in Nat
         /\ c.flows[i].ids # << >>
  <1> DEFINE s == c.flows[i].ids
  <1>1. c.flows[i] \in FlowsIn(c.nodes)
    BY DEF SoundCatalog
  <1>2. s \in Seq(c.nodes) /\ Len(s) >= 1 /\ Len(s) <= MaxSequence
    BY <1>1 DEF FlowsIn
  <1>3. Edges("next", Pairs(s)) \subseteq c.edges
    BY DEF SoundCatalog
  <1>4. Connected(c, s, types)
    <2>1. \A pair \in Pairs(s) : <<pair[1], pair[2], "next">> \in c.edges
      BY <1>3 DEF Edges
    <2> HIDE DEF s
    <2>2. QED  BY <2>1 DEF Connected
  <1> HIDE DEF s
  <1>5. Range(s) \subseteq c.nodes /\ s # << >> /\ Len(s) \in Nat
    BY <1>2 DEF Range
  <1>6. QED  BY <1>2, <1>4, <1>5 DEF s

\* The validator of a repository accepts every default flow of a sound catalogue.
LEMMA RepositoryFlowAccepted ==
  ASSUME NEW c, SoundCatalog(c), NEW i \in DOMAIN c.flows, NEW role \in c.flows[i].roles
  PROVE  RepositoryAccepts(c, role, c.flows[i].ids)
  <1> DEFINE types == {"next", "calls", "handled_by", "depends_on", "documented_by",
                       "checks", "contains", "reads", "writes", "enforced_by"}
             s == c.flows[i].ids
  <1>1. "next" \in types
    OBVIOUS
  <1>2. /\ Connected(c, s, types) /\ Range(s) \subseteq c.nodes
        /\ Len(s) >= 1 /\ Len(s) <= MaxSequence /\ Len(s) \in Nat /\ s # << >>
    <2> HIDE DEF types
    <2>1. QED  BY <1>1, FlowOfSound
  <1>3. role \in EntryRoles(c, s[1])
    BY <1>2 DEF EntryRoles
  <1>4. Len(s) \in 1 .. MaxSequence
    BY <1>2
  <1> HIDE DEF s
  <1>5. RepositoryAccepts(c, role, s)
    BY <1>2, <1>3, <1>4 DEF RepositoryAccepts
  <1>6. QED  BY <1>5 DEF s

\* The validator of the built-in workflows accepts those of two nodes and more.
LEMMA BuiltInFlowAccepted ==
  ASSUME WorkflowGraphAssumption, NEW p \in Program, UniquePaths(p), catalogs.builtIn = BuiltInCatalog(p),
         NEW i \in DOMAIN catalogs.builtIn.flows, Len(catalogs.builtIn.flows[i].ids) > 1,
         NEW role \in catalogs.builtIn.flows[i].roles
  PROVE  BuiltInAccepts(p, role, catalogs.builtIn.flows[i].ids)
  <1> DEFINE c == catalogs.builtIn
             flow == c.flows[i]
             s == flow.ids
             types == {"next", "calls", "handled_by"}
  <1>1. SoundCatalog(c) /\ c.flows \in Seq(PythonFlows(p, SystemSymbols))
    BY BuiltInSound
  <1>2. /\ Connected(c, s, types) /\ Range(s) \subseteq c.nodes
        /\ Len(s) >= 1 /\ Len(s) <= MaxSequence /\ Len(s) \in Nat
    <2>1. "next" \in types
      OBVIOUS
    <2> HIDE DEF types, c
    <2>2. QED  BY <1>1, <2>1, FlowOfSound DEF c
  <1>3. flow \in PythonFlows(p, SystemSymbols)
    BY <1>1
  <1>4. SystemSymbols \subseteq Functions /\ p.routes \subseteq Functions
    BY DEF WorkflowGraphAssumption, Program
  <1>5. CASE \E f \in p.routes : flow = RouteFlow(p, f)
    <2>1. PICK f \in p.routes : flow = RouteFlow(p, f)
      BY <1>5
    <2>2. s[1] = Route(f) /\ flow.roles = RolesOf[f]
      BY <2>1, RouteFlowIs
    <2>3. role \in RolesOf[f] /\ role # "SYSTEM"
      BY <1>4, <2>2 DEF WorkflowGraphAssumption
    <2>4. Kind(s[1]) = "route"
      BY <2>2 DEF Kind, Route
    <2>5. RolesAt(p, s[1]) = RolesOf[f]
      <3>1. \A g \in p.routes : Route(g) = s[1] => g = f
        BY <2>2 DEF Route, UniquePaths
      <3>2. f \in Nat
        BY <1>4, GraphConstants
      <3>3. Route(f) = s[1] /\ \A g \in p.routes : Route(g) = s[1] => g <= f
        BY <2>2, <3>1, <3>2
      <3> HIDE DEF s
      <3>4. (CHOOSE g \in p.routes : Route(g) = s[1] /\ \A x \in p.routes : Route(x) = s[1] => x <= g) = f
        BY <3>1, <3>3
      <3>5. QED  BY <2>4, <3>4 DEF RolesAt
    <2>6. Kind(s[1]) = IF role = "SYSTEM" THEN "function" ELSE "route"
      BY <2>3, <2>4
    <2>7. Len(s) \in 2 .. MaxSequence
      BY <1>2, GraphConstants
    <2>8. role \in RolesAt(p, s[1])
      BY <2>3, <2>5
    <2> HIDE DEF s
    <2>9. BuiltInAccepts(p, role, s)
      BY <1>2, <2>6, <2>7, <2>8 DEF BuiltInAccepts
    <2>10. QED  BY <2>9 DEF s
  <1>6. CASE \E f \in SystemSymbols : flow = SystemFlow(p, f)
    <2>1. PICK f \in SystemSymbols : flow = SystemFlow(p, f)
      BY <1>6
    <2>2. s[1] = Fn(f) /\ flow.roles = {"SYSTEM"}
      BY <1>4, <2>1, SystemFlowIs
    <2>3. role = "SYSTEM" /\ Kind(s[1]) = "function"
      BY <2>2 DEF Kind, Fn
    <2>4. RolesAt(p, s[1]) = {}
      BY <2>3 DEF RolesAt
    <2>5. Len(s) \in 2 .. MaxSequence
      BY <1>2, GraphConstants
    <2> HIDE DEF s
    <2>6. BuiltInAccepts(p, role, s)
      BY <1>2, <2>3, <2>4, <2>5 DEF BuiltInAccepts
    <2>7. QED  BY <2>6 DEF s
  <1>7. QED  BY <1>3, <1>5, <1>6 DEF PythonFlows

\* A behaviour keeps one program, and what is stored was built of it.
LEMMA WorkflowGraphInvariant == WorkflowGraphSpec => []WorkflowGraphInv
  <1>1. WorkflowGraphInit => WorkflowGraphInv
    BY DEF WorkflowGraphInit, WorkflowGraphInv
  <1>2. WorkflowGraphInv /\ [BuildCatalogs]_workflowGraphVars => WorkflowGraphInv'
    BY DEF WorkflowGraphInv, BuildCatalogs, workflowGraphVars
  <1>3. QED  BY <1>1, <1>2, PTL DEF WorkflowGraphSpec

\* Default flows of a stored catalogue are accepted.
LEMMA InvAccepts ==
  ASSUME WorkflowGraphAssumption, WorkflowGraphInv
  PROVE  DefaultFlowsAccepted
  <1> SUFFICES ASSUME catalogs # NotBuilt
               PROVE  /\ UniquePaths(program) => \A i \in DOMAIN catalogs.builtIn.flows :
                           Len(catalogs.builtIn.flows[i].ids) > 1 =>
                             \A role \in catalogs.builtIn.flows[i].roles :
                               BuiltInAccepts(program, role, catalogs.builtIn.flows[i].ids)
                      /\ \A i \in DOMAIN catalogs.repository.flows : \A role \in catalogs.repository.flows[i].roles :
                           RepositoryAccepts(catalogs.repository, role, catalogs.repository.flows[i].ids)
                      /\ \A f \in Functions : Follows(program, f)
    BY DEF DefaultFlowsAccepted
  <1>1. program \in Program /\ catalogs = MadeOf(program)
    BY DEF WorkflowGraphInv
  <1>2. catalogs.builtIn = BuiltInCatalog(program) /\ catalogs.repository = RepositoryCatalog(program)
    BY <1>1 DEF MadeOf
  <1>3. SoundCatalog(catalogs.repository)
    BY <1>1, <1>2, RepositorySound
  <1>4. QED  BY <1>1, <1>2, <1>3, BuiltInFlowAccepted, RepositoryFlowAccepted, ExpandFollows

\* What the builders generate, the validators accept; and an expansion lists what the
\* calls reach (_expand, _dedupe_consecutive, _merge_catalogs, both validators).
THEOREM FlowsAccepted == WorkflowGraphSpec => []DefaultFlowsAccepted
  BY WorkflowGraphInvariant, InvAccepts, WorkflowGraphAssumption, PTL

(***************************************************************************)
(* Projections                                                             *)
(***************************************************************************)
\* The start of a list without repetitions has none.
LEMMA InjectiveFirst ==
  ASSUME NEW X, NEW s \in Seq(X), NEW n \in Nat, IsInjective(s)
  PROVE  IsInjective(FirstOf(s, n))
  <1> DEFINE t == FirstOf(s, n)
  <1>1. /\ t \in Seq(X) /\ Len(t) = IF Len(s) < n THEN Len(s) ELSE n
        /\ \A i \in 1 .. Len(t) : t[i] = s[i]
    BY FirstOfIs
  <1>2. Len(s) \in Nat /\ DOMAIN s = 1 .. Len(s)
    OBVIOUS
  <1> HIDE DEF t
  <1>3. DOMAIN t = 1 .. Len(t) /\ 1 .. Len(t) \subseteq DOMAIN s
    BY <1>1, <1>2
  <1>4. IsInjective(t)
    BY <1>1, <1>3 DEF IsInjective
  <1>5. QED  BY <1>4 DEF t

\* The nodes of a projection before the text is cut: nodes of the catalogue, each once.
LEMMA SelectedAre ==
  ASSUME WorkflowGraphAssumption, NEW c, SoundCatalog(c)
  PROVE  SelectedIds(c) \in Seq(c.nodes) /\ IsInjective(SelectedIds(c))
  <1> DEFINE N == c.nodes
             flows == FirstOf(c.flows, MaxModelFlows)
             n == Len(flows)
             parts == [i \in DOMAIN flows |-> c.flows[i].ids]
             ids == FlattenSeq(parts)
             distinct == Distinct(ids)
             all == IF distinct = << >> THEN Listed(N) ELSE distinct
             chosen == FirstOf(all, MaxModelNodes)
             documents == {e[2] : e \in {x \in c.edges : x[3] = "documented_by" /\ x[1] \in Range(chosen)}}
             rest == documents \ Range(chosen)
  <1>1. MaxModelFlows \in Nat /\ MaxModelNodes \in Nat
    BY GraphConstants
  <1>2. IsFiniteSet(N) /\ c.flows \in Seq(FlowsIn(N)) /\ c.edges \subseteq EdgesIn(N)
    BY DEF SoundCatalog
  <1>3. n \in Nat /\ DOMAIN flows = 1 .. n /\ 1 .. n \subseteq DOMAIN c.flows
    <2>1. flows \in Seq(FlowsIn(N)) /\ n = IF Len(c.flows) < MaxModelFlows THEN Len(c.flows) ELSE MaxModelFlows
      <3> HIDE DEF N
      <3>1. QED  BY <1>1, <1>2, FirstOfIs
    <2>2. Len(c.flows) \in Nat /\ DOMAIN c.flows = 1 .. Len(c.flows)
      BY <1>2
    <2> HIDE DEF flows
    <2>3. QED  BY <1>1, <2>1, <2>2
  <1>4. parts \in [1 .. n -> Seq(N)]
    <2>1. \A i \in 1 .. n : c.flows[i] \in FlowsIn(N)
      BY <1>2, <1>3
    <2>2. \A i \in 1 .. n : c.flows[i].ids \in Seq(N)
      BY <2>1 DEF FlowsIn
    <2> HIDE DEF n, N, flows
    <2>3. QED  BY <1>3, <2>2
  <1>5. ids \in Seq(N)
    <2> HIDE DEF parts, n, N
    <2>1. QED  BY <1>3, <1>4, FlattenIs
  <1>6. distinct \in Seq(N) /\ IsInjective(distinct)
    <2> HIDE DEF ids, N
    <2>1. QED  BY <1>5, DistinctIs
  <1>7. all \in Seq(N) /\ IsInjective(all)
    <2>1. Listed(N) \in Seq(N) /\ IsInjective(Listed(N))
      <3> HIDE DEF N
      <3>1. QED  BY <1>2, ListedIs
    <2> HIDE DEF distinct, N
    <2>2. QED  BY <1>6, <2>1
  <1>8. chosen \in Seq(N) /\ IsInjective(chosen)
    <2> HIDE DEF all, N
    <2>1. QED  BY <1>1, <1>7, FirstOfIs, InjectiveFirst
  <1>9. documents \subseteq N
    <2>1. \A e \in c.edges : e[2] \in N
      BY <1>2 DEF EdgesIn
    <2> HIDE DEF chosen, N
    <2>2. QED  BY <2>1
  <1>10. Listed(rest) \in Seq(N) /\ IsInjective(Listed(rest)) /\ Range(Listed(rest)) = rest
    <2>1. rest \in SUBSET N
      BY <1>9
    <2> HIDE DEF rest, N
    <2>2. IsFiniteSet(rest)
      BY <1>2, <2>1, FS_Subset
    <2>3. Listed(rest) \in Seq(rest) /\ IsInjective(Listed(rest)) /\ Range(Listed(rest)) = rest
      BY <2>2, ListedIs
    <2>4. QED  BY <2>1, <2>3, SeqMonotonic
  <1>11. Range(chosen) \cap Range(Listed(rest)) = {}
    <2> HIDE DEF documents, chosen
    <2>1. Range(chosen) \cap rest = {}
      OBVIOUS
    <2> HIDE DEF rest
    <2>2. QED  BY <1>10, <2>1
  <1> DEFINE whole == chosen \o Listed(rest)
  <1>12. whole \in Seq(N) /\ IsInjective(whole)
    <2> HIDE DEF chosen, rest, N
    <2>1. QED  BY <1>8, <1>10, <1>11, InjectiveConcat
  <1>13. SelectedIds(c) = FirstOf(whole, MaxModelNodes)
    BY DEF SelectedIds
  <1> HIDE DEF whole, N
  <1>14. FirstOf(whole, MaxModelNodes) \in Seq(N) /\ IsInjective(FirstOf(whole, MaxModelNodes))
    BY <1>1, <1>12, FirstOfIs, InjectiveFirst
  <1>15. QED  BY <1>13, <1>14 DEF N

\* The elements of a sequence over a set are in it.
LEMMA RangeIn ==
  ASSUME NEW X, NEW s \in Seq(X)
  PROVE  Range(s) \subseteq X
  BY DEF Range

\* Cutting a list without repetitions loses an element.
LEMMA CutLoses ==
  ASSUME NEW X, NEW s \in Seq(X), IsInjective(s), NEW k \in Nat, Range(s) \subseteq Range(FirstOf(s, k))
  PROVE  k >= Len(s)
  <1> DEFINE t == FirstOf(s, k)
  <1>1. /\ t \in Seq(X) /\ Len(t) = IF Len(s) < k THEN Len(s) ELSE k
        /\ \A i \in 1 .. Len(t) : t[i] = s[i]
    BY FirstOfIs
  <1>2. Len(s) \in Nat /\ DOMAIN s = 1 .. Len(s)
    OBVIOUS
  <1> SUFFICES ASSUME k < Len(s) PROVE FALSE
    BY <1>2
  <1> HIDE DEF t
  <1>3. k + 1 \in DOMAIN s /\ Len(t) = k /\ DOMAIN t = 1 .. k
    <2>1. k + 1 \in 1 .. Len(s)
      BY <1>2
    <2>2. Len(t) = k
      <3>1. ~(Len(s) < k)
        BY <1>2
      <3>2. QED  BY <1>1, <3>1
    <2>3. DOMAIN t = 1 .. Len(t)
      BY <1>1
    <2>4. QED  BY <1>2, <2>1, <2>2, <2>3
  <1>4. s[k + 1] \in Range(t)
    BY <1>3 DEF Range, t
  <1>5. PICK j \in 1 .. k : t[j] = s[k + 1]
    BY <1>3, <1>4 DEF Range
  <1>6. s[j] = s[k + 1] /\ j \in DOMAIN s /\ j # k + 1
    <2>1. j \in 1 .. Len(t)
      BY <1>3
    <2>2. t[j] = s[j]
      BY <1>1, <2>1
    <2>3. j \in 1 .. Len(s) /\ j # k + 1
      BY <1>2
    <2>4. QED  BY <1>2, <1>5, <2>2, <2>3
  <1>7. QED  BY <1>3, <1>6 DEF IsInjective

\* A list without repetitions is as long as a set it is over exactly if it covers it.
LEMMA InjectiveCovers ==
  ASSUME NEW X, IsFiniteSet(X), NEW s \in Seq(X), IsInjective(s)
  PROVE  Len(s) = Cardinality(X) <=> Range(s) = X
  <1> DEFINE n == Len(s)
  <1>1. n \in Nat /\ s \in [1 .. n -> X] /\ DOMAIN s = 1 .. n
    OBVIOUS
  <1> HIDE DEF n
  <1>2. s \in Injection(1 .. n, X)
    BY <1>1 DEF Injection, IsInjective
  <1>3. Cardinality(1 .. n) = Cardinality(X) <=> s \in Surjection(1 .. n, X)
    BY <1>2, FS_Injection
  <1>4. Cardinality(1 .. n) = n
    <2>1. 1 \in Int /\ n \in Int
      BY <1>1
    <2>2. Cardinality(1 .. n) = IF 1 > n THEN 0 ELSE n - 1 + 1
      BY <2>1, FS_Interval
    <2>3. QED  BY <1>1, <2>2
  <1>5. Range(s) \subseteq X
    BY <1>1 DEF Range
  <1>6. s \in Surjection(1 .. n, X) <=> Range(s) = X
    BY <1>1, <1>5 DEF Surjection, Range
  <1>7. QED  BY <1>3, <1>4, <1>6 DEF n

\* None of these nodes looks like a redacted id.
Unredacted(N) == \A node \in N : Kind(node) # "redacted"

\* No node of a repository's catalogue does.
LEMMA NodesUnredacted ==
  ASSUME NEW p
  PROVE  Unredacted(RepositoryCatalog(p).nodes)
  <1> DEFINE M == PythonNodes(p)
             B == {Block(b) : b \in Blocks}
  <1>1. RepositoryCatalog(p).nodes = (M \cup {Doc}) \cup (B \cup {Doc})
    <2>1. PythonCatalog(p).nodes = M \cup {Doc}
      BY DEF PythonCatalog, Catalog
    <2>2. TerraformCatalog(p).nodes = B \cup {Doc}
      BY DEF TerraformCatalog, Catalog
    <2> HIDE DEF M, B
    <2>3. QED  BY <2>1, <2>2 DEF RepositoryCatalog
  <1>2. \A node \in B : node[1] = "block"
    BY DEF Block
  <1>3. Doc[1] = "documentation"
    BY DEF Doc
  <1>4. \A node \in M : node[1] \in {"function", "event", "route", "constraint"}
    <2>1. \A f \in Functions : \A node \in Owns(p, f) : node[1] = "event"
      BY DEF Owns, Own
    <2>2. \A f : Fn(f)[1] = "function" /\ Route(f)[1] = "route"
      BY DEF Fn, Route
    <2>3. Constraint[1] = "constraint"
      BY DEF Constraint
    <2> HIDE DEF M
    <2>4. ASSUME NEW node \in M
          PROVE  \/ \E f \in Functions : node = Fn(f) \/ node \in Owns(p, f)
                 \/ \E f \in p.routes : node = Route(f)
                 \/ node = Constraint
      BY DEF M, PythonNodes
    <2>5. QED  BY <2>1, <2>2, <2>3, <2>4
  <1> HIDE DEF M, B
  <1>5. QED  BY <1>1, <1>2, <1>3, <1>4 DEF Unredacted, Kind

\* The redaction moves an id out of the catalogue or leaves it alone.
LEMMA RedactedIs ==
  ASSUME NEW N, Unredacted(N), NEW node \in N
  PROVE  /\ Redacted(node) \in N <=> node \notin Rewritten
         /\ node \notin Rewritten => Redacted(node) = node
  <1>1. CASE node \in Rewritten
    <2>1. Kind(Redacted(node)) = "redacted"
      BY <1>1 DEF Redacted, Kind
    <2>2. QED  BY <1>1, <2>1 DEF Unredacted
  <1>2. CASE node \notin Rewritten
    BY <1>2 DEF Redacted
  <1>3. QED  BY <1>1, <1>2

\* Ids that a list still has, or has no longer, when all after one place are taken off.
LEMMA TakenOffIs ==
  ASSUME NEW N, Unredacted(N), NEW s \in Seq(N), IsInjective(s), NEW k \in Nat,
         \A i \in k + 1 .. Len(s) : s[i] \notin Rewritten
  PROVE  \A j \in 1 .. Len(s) : s[j] \in TakenOff(s, k) <=> j > k
  <1>1. Len(s) \in Nat /\ DOMAIN s = 1 .. Len(s) /\ \A i \in 1 .. Len(s) : s[i] \in N
    OBVIOUS
  <1>2. ASSUME NEW i \in k + 1 .. Len(s) PROVE i \in 1 .. Len(s) /\ Redacted(s[i]) = s[i]
    <2>1. i \in 1 .. Len(s)
      BY <1>1
    <2>2. QED  BY <1>1, <2>1, RedactedIs
  <1>3. TakenOff(s, k) = {s[i] : i \in k + 1 .. Len(s)}
    BY <1>2 DEF TakenOff
  <1>4. ASSUME NEW j \in 1 .. Len(s) PROVE s[j] \in TakenOff(s, k) <=> j > k
    <2>1. ASSUME s[j] \in TakenOff(s, k) PROVE j > k
      <3>1. PICK i \in k + 1 .. Len(s) : s[j] = s[i]
        BY <1>3, <2>1
      <3>2. i \in 1 .. Len(s)
        BY <1>2
      <3>3. i = j
        BY <1>1, <3>1, <3>2 DEF IsInjective
      <3>4. QED  BY <3>3
    <2>2. ASSUME j > k PROVE s[j] \in TakenOff(s, k)
      <3>1. j \in k + 1 .. Len(s)
        BY <1>1, <2>2
      <3>2. QED  BY <1>3, <3>1
    <2>3. QED  BY <2>1, <2>2
  <1>5. QED  BY <1>4

\* selected.remove() finds every id to take off exactly if none of them is redacted.
LEMMA ReducibleIs ==
  ASSUME NEW N, Unredacted(N), NEW c, SelectedIds(c) \in Seq(N), IsInjective(SelectedIds(c)), NEW k \in Nat
  PROVE  Reducible(c, k) <=> \A i \in k + 1 .. Len(SelectedIds(c)) : SelectedIds(c)[i] \notin Rewritten
  <1> DEFINE s == SelectedIds(c)
             n == Len(s)
  <1>1. Reducible(c, k) <=> \A i \in k + 1 .. n : Redacted(s[i]) \in Range(s) \ TakenOff(s, i)
    BY DEF Reducible
  <1>2. s \in Seq(N) /\ IsInjective(s)
    OBVIOUS
  <1> HIDE DEF s
  <1>3. n \in Nat /\ DOMAIN s = 1 .. n /\ \A i \in 1 .. n : s[i] \in N
    BY <1>2
  <1>4. Range(s) \subseteq N
    BY <1>2, RangeIn
  <1>5. \A i \in k + 1 .. n : i \in 1 .. n /\ i \in Nat
    BY <1>3
  <1>6. ASSUME NEW i \in k + 1 .. n, Redacted(s[i]) \in Range(s) PROVE s[i] \notin Rewritten
    BY <1>3, <1>4, <1>5, <1>6, RedactedIs
  <1>7. ASSUME \A i \in k + 1 .. n : s[i] \notin Rewritten, NEW i \in k + 1 .. n
        PROVE  Redacted(s[i]) \in Range(s) \ TakenOff(s, i)
    <2>1. Redacted(s[i]) = s[i]
      BY <1>3, <1>5, <1>7, RedactedIs
    <2>2. s[i] \in Range(s)
      BY <1>3, <1>5 DEF Range
    <2>3. \A j \in i + 1 .. n : s[j] \notin Rewritten
      <3>1. \A j \in i + 1 .. n : j \in k + 1 .. n
        BY <1>3
      <3>2. QED  BY <1>7, <3>1
    <2>4. i \in 1 .. n /\ i \in Nat
      BY <1>5
    <2>5. s[i] \notin TakenOff(s, i)
      <3>1. s[i] \in TakenOff(s, i) <=> i > i
        BY <1>2, <2>3, <2>4, TakenOffIs DEF n
      <3>2. QED  BY <2>4, <3>1
    <2>6. QED  BY <2>1, <2>2, <2>5
  <1>8. QED
    <2> HIDE DEF n
    <2>1. QED  BY <1>1, <1>6, <1>7 DEF n, s

\* Then what is left of the ids are those of the nodes shown.
LEMMA LeftIs ==
  ASSUME NEW N, Unredacted(N), NEW s \in Seq(N), IsInjective(s), NEW k \in Nat,
         \A i \in k + 1 .. Len(s) : s[i] \notin Rewritten
  PROVE  Range(s) \ TakenOff(s, k) = Range(FirstOf(s, k))
  <1> DEFINE t == FirstOf(s, k)
  <1>1. /\ t \in Seq(N) /\ Len(t) = IF Len(s) < k THEN Len(s) ELSE k
        /\ \A i \in 1 .. Len(t) : t[i] = s[i]
    BY FirstOfIs
  <1> HIDE DEF t
  <1>2. Len(s) \in Nat /\ DOMAIN s = 1 .. Len(s) /\ Len(t) \in Nat /\ DOMAIN t = 1 .. Len(t)
    BY <1>1
  <1>3. \A j \in 1 .. Len(s) : j \in 1 .. Len(t) <=> ~(j > k)
    BY <1>1, <1>2
  <1>4. \A j \in 1 .. Len(t) : j \in 1 .. Len(s)
    BY <1>1, <1>2
  <1>5. \A j \in 1 .. Len(s) : s[j] \in TakenOff(s, k) <=> j > k
    BY TakenOffIs
  <1>6. Range(t) = {s[j] : j \in 1 .. Len(t)}
    BY <1>1, <1>2 DEF Range
  <1>7. Range(s) = {s[j] : j \in 1 .. Len(s)}
    BY <1>2 DEF Range
  <1>8. QED  BY <1>3, <1>4, <1>5, <1>6, <1>7 DEF t

\* All that a projection names is in a set if its edges and flows are.
LEMMA NamedIn ==
  ASSUME NEW P, NEW S, \A e \in P.edges : e[1] \in S /\ e[2] \in S,
         \A i \in DOMAIN P.flows : Range(P.flows[i].ids) \subseteq S
  PROVE  Named(P) \subseteq S
  <1> DEFINE ends == {{e[1], e[2]} : e \in P.edges}
             ids == {Range(P.flows[i].ids) : i \in DOMAIN P.flows}
  <1>1. ASSUME NEW A \in ends \cup ids PROVE A \subseteq S
    <2>1. CASE A \in ends
      <3>1. PICK e \in P.edges : A = {e[1], e[2]}
        BY <2>1
      <3>2. QED  BY <3>1
    <2>2. CASE A \in ids
      <3>1. PICK i \in DOMAIN P.flows : A = Range(P.flows[i].ids)
        BY <2>2
      <3>2. QED  BY <3>1
    <2>3. QED  BY <2>1, <2>2
  <1>2. Named(P) = (UNION ends) \cup (UNION ids)
    BY DEF Named
  <1> HIDE DEF ends, ids
  <1>3. QED  BY <1>1, <1>2

\* What a projection of a sound catalogue names has its node there if no id taken off
\* is redacted, and the projection knows whether it is all.
LEMMA ProjectionIs ==
  ASSUME WorkflowGraphAssumption, NEW c, SoundCatalog(c), Unredacted(c.nodes), NEW kept \in Nat,
         \A i \in kept + 1 .. Len(SelectedIds(c)) : SelectedIds(c)[i] \notin Rewritten
  PROVE  /\ \A id \in Named(Projection(c, kept)) : Redacted(id) \in AllowedNodes(Projection(c, kept))
         /\ Projection(c, kept).complete <=>
              /\ Len(Projection(c, kept).nodes) = Cardinality(c.nodes)
              /\ AllowedNodes(Projection(c, kept)) = {Redacted(n) : n \in c.nodes}
              /\ Projection(c, kept).edges = c.edges /\ Projection(c, kept).flows = c.flows
  <1> DEFINE N == c.nodes
             selected == SelectedIds(c)
             shown == FirstOf(selected, kept)
             list == [i \in DOMAIN shown |-> Redacted(shown[i])]
             nodes == Range(selected) \ TakenOff(selected, kept)
             flows == FirstOf(c.flows, MaxModelFlows)
             among == Range(selected)
             within == {e \in c.edges : e[1] \in among /\ e[2] \in among}
             first == Range(FirstOf(Listed(within), MaxModelEdges))
             edges == first \cap {e \in c.edges : e[1] \in nodes /\ e[2] \in nodes}
             left == [i \in DOMAIN flows |-> [flows[i] EXCEPT !.ids = Those(@, nodes)]]
             complete == kept >= Len(selected) /\ among = N /\ Len(flows) = Len(c.flows) /\ first = within
             projection == Projection(c, kept)
  <1>1. projection = [nodes |-> list, edges |-> edges, flows |-> left, complete |-> complete]
    BY DEF Projection
  <1>2. projection.nodes = list /\ projection.edges = edges /\ projection.flows = left /\ projection.complete = complete
    <2> HIDE DEF list, edges, left, complete, projection
    <2>1. QED  BY <1>1
  <1> HIDE DEF projection
  <1>3. kept \in Nat /\ MaxModelFlows \in Nat /\ MaxModelEdges \in Nat
    BY GraphConstants
  <1>4. selected \in Seq(N) /\ IsInjective(selected)
    BY SelectedAre
  <1>5. nodes = Range(shown)
    <2>1. Unredacted(N) /\ \A i \in kept + 1 .. Len(selected) : selected[i] \notin Rewritten
      OBVIOUS
    <2> HIDE DEF N, selected
    <2>2. QED  BY <1>3, <1>4, <2>1, LeftIs
  <1> HIDE DEF selected
  <1>6. IsFiniteSet(N) /\ c.edges \subseteq EdgesIn(N) /\ c.flows \in Seq(FlowsIn(N))
    BY DEF SoundCatalog
  <1>7. \A e \in c.edges : e[1] \in N /\ e[2] \in N
    BY <1>6 DEF EdgesIn
  <1> HIDE DEF nodes
  <1>8. /\ shown \in Seq(N) /\ IsInjective(shown) /\ DOMAIN shown = 1 .. Len(shown)
        /\ Range(shown) \subseteq among /\ among \subseteq N
        /\ Len(selected) \in Nat
        /\ Len(selected) <= kept => shown = selected
    <2>1. among \subseteq N
      BY <1>4, RangeIn
    <2>2. /\ shown \in Seq(N) /\ IsInjective(shown) /\ Range(shown) \subseteq among
          /\ Len(selected) <= kept => shown = selected
      <3> HIDE DEF N
      <3>1. QED  BY <1>3, <1>4, FirstOfIs, InjectiveFirst
    <2> HIDE DEF shown, among, N
    <2>3. QED  BY <1>4, <2>1, <2>2
  <1>9. Len(list) = Len(shown) /\ AllowedNodes(projection) = {Redacted(n) : n \in Range(shown)}
    <2>1. DOMAIN list = 1 .. Len(shown) /\ Len(shown) \in Nat
      <3> HIDE DEF N
      <3>1. Len(shown) \in Nat
        <4> HIDE DEF shown
        <4>1. QED  BY <1>8
      <3>2. QED  BY <1>8, <3>1
    <2>2. list \in [1 .. Len(shown) -> {Redacted(n) : n \in Range(shown)}]
      <3> HIDE DEF shown
      <3>1. \A i \in DOMAIN shown : shown[i] \in Range(shown)
        BY DEF Range
      <3>2. QED  BY <1>8, <3>1
    <2>3. Len(list) = Len(shown)
      <3> HIDE DEF list, shown
      <3>1. QED  BY <2>1, <2>2, FunctionIsSeq
    <2>4. Range(list) = {Redacted(n) : n \in Range(shown)}
      <3> HIDE DEF shown
      <3>1. QED  BY DEF Range
    <2>5. AllowedNodes(projection) = Range(list)
      BY <1>2 DEF AllowedNodes
    <2>6. QED  BY <2>3, <2>4, <2>5
  <1> HIDE DEF list, shown
  <1>10. Len(list) = Cardinality(N) <=> Range(shown) = N
    <2> HIDE DEF N
    <2>1. QED  BY <1>6, <1>8, <1>9, InjectiveCovers
  <1>11. IsFiniteSet(within)
    <2>1. IsFiniteSet(EdgesIn(N))
      BY <1>6, EdgesInFinite
    <2>2. within \in SUBSET EdgesIn(N)
      BY <1>6
    <2>3. QED  BY <2>1, <2>2, FS_Subset
  <1>12. first \subseteq within
    <2> HIDE DEF within
    <2>1. Listed(within) \in Seq(within)
      BY <1>11, ListedIs
    <2>2. Range(FirstOf(Listed(within), MaxModelEdges)) \subseteq Range(Listed(within))
      BY <1>3, <2>1, FirstOfIs
    <2>3. Range(Listed(within)) = within
      BY <1>11, ListedIs
    <2>4. QED  BY <2>2, <2>3
  <1> HIDE DEF first
  <1>13. \A e \in projection.edges : e[1] \in nodes /\ e[2] \in nodes
    BY <1>2
  <1>14. /\ flows \in Seq(FlowsIn(N)) /\ Len(c.flows) \in Nat /\ DOMAIN c.flows = 1 .. Len(c.flows)
         /\ Len(flows) = IF Len(c.flows) < MaxModelFlows THEN Len(c.flows) ELSE MaxModelFlows
         /\ Len(c.flows) <= MaxModelFlows => flows = c.flows
    <2> HIDE DEF N
    <2>1. Len(c.flows) \in Nat /\ DOMAIN c.flows = 1 .. Len(c.flows)
      BY <1>6
    <2>2. QED  BY <1>3, <1>6, <2>1, FirstOfIs
  <1> HIDE DEF flows
  <1>15. ASSUME NEW i \in DOMAIN flows
         PROVE  /\ flows[i] \in [roles : RoleSets, ids : Seq(N)] /\ flows[i].ids \in Seq(N)
                /\ left[i] = [flows[i] EXCEPT !.ids = Those(flows[i].ids, nodes)]
                /\ left[i].ids = Those(flows[i].ids, nodes)
    <2>1. flows[i] \in FlowsIn(N)
      <3> HIDE DEF N
      <3>1. QED  BY <1>14
    <2>2. flows[i] \in [roles : RoleSets, ids : Seq(N)]
      BY <2>1 DEF FlowsIn
    <2>3. left[i] = [flows[i] EXCEPT !.ids = Those(flows[i].ids, nodes)]
      OBVIOUS
    <2> HIDE DEF left, N
    <2>4. QED  BY <2>2, <2>3
  <1>16. \A i \in DOMAIN projection.flows : Range(projection.flows[i].ids) \subseteq nodes
    <2>1. DOMAIN left = DOMAIN flows
      OBVIOUS
    <2> HIDE DEF left, N
    <2>2. ASSUME NEW i \in DOMAIN flows PROVE Range(left[i].ids) \subseteq nodes
      <3>1. Range(Those(flows[i].ids, nodes)) \subseteq nodes
        BY <1>15, ThoseIs
      <3>2. QED  BY <1>15, <3>1
    <2>3. QED  BY <1>2, <2>1, <2>2
  <1>17. \A id \in Named(projection) : Redacted(id) \in AllowedNodes(projection)
    <2>1. Named(projection) \subseteq nodes
      BY <1>13, <1>16, NamedIn
    <2>2. QED  BY <1>5, <1>9, <2>1
  <1>18. ASSUME complete PROVE nodes = N /\ edges = c.edges /\ left = c.flows
    <2>1. nodes = N
      <3> HIDE DEF N
      <3>1. QED  BY <1>3, <1>5, <1>8, <1>18
    <2>2. edges = c.edges
      <3> HIDE DEF among, N
      <3>1. within = c.edges
        BY <1>7, <1>18
      <3>2. QED  BY <1>7, <1>18, <2>1, <3>1
    <2>3. flows = c.flows
      BY <1>3, <1>14, <1>18
    <2>4. ASSUME NEW i \in DOMAIN flows PROVE left[i] = flows[i]
      <3>1. nodes = N
        BY <2>1
      <3> HIDE DEF left, N
      <3> DEFINE s == flows[i].ids
      <3>2. s \in Seq(N)
        BY <1>15
      <3>3. Those(s, nodes) = s
        <4> HIDE DEF s
        <4>1. Range(s) \subseteq nodes
          BY <3>1, <3>2, RangeIn
        <4>2. QED  BY <3>2, <4>1, ThoseIs
      <3>4. [flows[i] EXCEPT !.ids = flows[i].ids] = flows[i]
        BY <1>15
      <3>5. QED  BY <1>15, <3>3, <3>4
    <2>5. left = [i \in DOMAIN flows |-> left[i]]
      OBVIOUS
    <2>6. flows = [i \in DOMAIN flows |-> flows[i]]
      BY <1>14
    <2>7. left = flows
      <3> HIDE DEF left
      <3>1. QED  BY <2>4, <2>5, <2>6
    <2>8. QED  BY <2>1, <2>2, <2>3, <2>7
  <1>19. ASSUME nodes = N, edges = c.edges, left = c.flows PROVE complete
    <2>1. kept >= Len(selected)
      <3>1. Range(selected) \subseteq Range(FirstOf(selected, kept))
        <4>1. Range(selected) \subseteq N
          BY <1>4 DEF Range
        <4>2. QED  BY <1>5, <1>19, <4>1 DEF shown
      <3>2. QED  BY <1>3, <1>4, <3>1, CutLoses
    <2>2. first = within
      BY <1>12, <1>19
    <2>3. Len(flows) = Len(c.flows)
      <3>1. DOMAIN c.flows = DOMAIN flows
        BY <1>19
      <3>2. DOMAIN flows = 1 .. Len(flows) /\ Len(flows) \in Nat
        <4> HIDE DEF N
        <4>1. QED  BY <1>14
      <3>3. 1 .. Len(flows) = 1 .. Len(c.flows)
        BY <1>14, <3>1, <3>2
      <3>4. QED  BY <1>14, <3>2, <3>3
    <2>4. among = N
      <3> HIDE DEF N
      <3>1. QED  BY <1>5, <1>8, <1>19
    <2>5. QED  BY <2>1, <2>2, <2>3, <2>4
  <1>20. projection.complete <=>
           /\ Len(projection.nodes) = Cardinality(N)
           /\ AllowedNodes(projection) = {Redacted(n) : n \in N}
           /\ projection.edges = c.edges /\ projection.flows = c.flows
    <2>1. projection.complete => nodes = N /\ edges = c.edges /\ left = c.flows
      <3> HIDE DEF left
      <3>1. QED  BY <1>2, <1>18
    <2>2. nodes = N /\ edges = c.edges /\ left = c.flows => projection.complete
      <3> HIDE DEF left
      <3>1. QED  BY <1>2, <1>19
    <2>3. complete \in BOOLEAN
      OBVIOUS
    <2>4. nodes = N => AllowedNodes(projection) = {Redacted(n) : n \in N}
      <3> HIDE DEF N
      <3>1. QED  BY <1>5, <1>9
    <2> HIDE DEF left, edges, complete, N
    <2>5. QED  BY <1>2, <1>5, <1>10, <2>1, <2>2, <2>3, <2>4
  <1>21. QED
    <2> HIDE DEF left, complete, within, edges
    <2>1. QED  BY <1>17, <1>20 DEF projection

\* A stored catalogue is sound, so its projections tell the truth.
LEMMA InvHonest ==
  ASSUME WorkflowGraphAssumption, WorkflowGraphInv
  PROVE  ProjectionHonest
  <1> DEFINE catalog == catalogs.repository
             selected == SelectedIds(catalog)
             Untouched(kept) == \A i \in kept + 1 .. Len(selected) : selected[i] \notin Rewritten
             Tells(kept) ==
               /\ \A id \in Named(Projection(catalog, kept)) : Redacted(id) \in AllowedNodes(Projection(catalog, kept))
               /\ Projection(catalog, kept).complete <=>
                    /\ Len(Projection(catalog, kept).nodes) = Cardinality(catalog.nodes)
                    /\ AllowedNodes(Projection(catalog, kept)) = {Redacted(n) : n \in catalog.nodes}
                    /\ Projection(catalog, kept).edges = catalog.edges
                    /\ Projection(catalog, kept).flows = catalog.flows
  <1>1. ASSUME catalogs # NotBuilt, NEW kept \in Keeps
        PROVE  (Reducible(catalog, kept) <=> Untouched(kept)) /\ (Reducible(catalog, kept) => Tells(kept))
    <2>1. program \in Program /\ catalogs = MadeOf(program)
      BY <1>1 DEF WorkflowGraphInv
    <2>2. catalog = RepositoryCatalog(program)
      BY <2>1 DEF MadeOf
    <2>3. SoundCatalog(catalog) /\ Unredacted(catalog.nodes)
      BY <2>1, <2>2, RepositorySound, NodesUnredacted
    <2>4. kept \in Nat
      BY GraphConstants DEF Keeps
    <2> HIDE DEF catalog
    <2>5. selected \in Seq(catalog.nodes) /\ IsInjective(selected)
      BY <2>3, SelectedAre
    <2>6. Reducible(catalog, kept) <=> Untouched(kept)
      BY <2>3, <2>4, <2>5, ReducibleIs
    <2>7. Untouched(kept) => Tells(kept)
      BY <2>3, <2>4, ProjectionIs
    <2>8. QED
      <3> HIDE DEF Untouched, Tells
      <3>1. QED  BY <2>6, <2>7
  <1>2. QED  BY <1>1 DEF ProjectionHonest

\* A projection of redacted_graph_projection that can be reduced has the node of every
\* id in its edges and flows, redacted or not; it is marked complete exactly if nothing
\* was cut off anywhere; and it can be reduced exactly if no id to take off is redacted.
THEOREM ProjectionsHonest == WorkflowGraphSpec => []ProjectionHonest
  BY WorkflowGraphInvariant, InvHonest, WorkflowGraphAssumption, PTL

(***************************************************************************)
(* Trees and the levels of their nodes                                     *)
(***************************************************************************)
\* A proposal is over finitely many ids.
LEMMA TreeIs ==
  ASSUME AttackTreeAssumption, AttackTreeInv
  PROVE  /\ IsFiniteSet(AttackNodes) /\ AttackNodes \subseteq Nat /\ MaxTreeDepth \in Nat
         /\ tree.root \in AttackNodes /\ tree.nodes \subseteq AttackNodes
         /\ tree.edges \subseteq AttackNodes \X AttackNodes
         /\ IsFiniteSet(tree.nodes) /\ IsFiniteSet(tree.edges)
         /\ \A id \in AttackNodes : tree.operator[id] \in {"LEAF", "AND", "OR"}
         /\ tree.repeats \in BOOLEAN
  <1>1. IsFiniteSet(AttackNodes) /\ AttackNodes \subseteq Nat /\ MaxTreeDepth \in Nat
    BY DEF AttackTreeAssumption
  <1>2. /\ tree.root \in AttackNodes /\ tree.nodes \subseteq AttackNodes
        /\ tree.edges \subseteq AttackNodes \X AttackNodes
        /\ \A id \in AttackNodes : tree.operator[id] \in {"LEAF", "AND", "OR"}
        /\ tree.repeats \in BOOLEAN
    BY DEF AttackTreeInv, Proposals
  <1>3. IsFiniteSet(AttackNodes \X AttackNodes)
    BY <1>1, FS_Product
  <1>4. IsFiniteSet(tree.nodes) /\ IsFiniteSet(tree.edges)
    BY <1>1, <1>2, <1>3, FS_Subset
  <1>5. QED  BY <1>1, <1>2, <1>4

\* The children of a node, in order.
LEMMA ChildrenAre ==
  ASSUME AttackTreeAssumption, AttackTreeInv, NEW id
  PROVE  /\ Children(id) \subseteq AttackNodes
         /\ \A c : c \in Children(id) <=> <<id, c>> \in tree.edges
         /\ InOrder(Children(id)) \in Seq(AttackNodes)
         /\ Range(InOrder(Children(id))) = Children(id)
         /\ Len(InOrder(Children(id))) = Cardinality(Children(id))
  <1>1. \A c : c \in Children(id) <=> <<id, c>> \in tree.edges
    BY DEF Children
  <1>2. Children(id) \subseteq AttackNodes
    <2>1. ASSUME NEW c \in Children(id) PROVE c \in AttackNodes
      <3>1. <<id, c>> \in AttackNodes \X AttackNodes
        BY <1>1, TreeIs
      <3>2. QED  BY <3>1
    <2>2. QED  BY <2>1
  <1> DEFINE S == Children(id)
  <1>3. IsFiniteSet(S) /\ S \subseteq Nat /\ S \in SUBSET AttackNodes
    BY <1>2, TreeIs, FS_Subset
  <1> HIDE DEF S
  <1>4. InOrder(S) \in Seq(S) /\ Len(InOrder(S)) = Cardinality(S) /\ Range(InOrder(S)) = S
    BY <1>3, InOrderIs
  <1>5. InOrder(S) \in Seq(AttackNodes)
    BY <1>3, <1>4, SeqMonotonic
  <1>6. QED  BY <1>1, <1>2, <1>4, <1>5 DEF S

\* The children of some nodes.
Below(G) == UNION {Children(id) : id \in G}

\* The levels of a proposal, one by one.
LEMMA LevelSteps ==
  ASSUME AttackTreeAssumption, AttackTreeInv
  PROVE  /\ Level \in [0 .. MaxTreeDepth -> SUBSET AttackNodes]
         /\ Level[0] = {tree.root}
         /\ \A n \in 1 .. MaxTreeDepth : n - 1 \in 0 .. MaxTreeDepth /\ Level[n] = Below(Level[n - 1])
  <1> DEFINE N == MaxTreeDepth
             R == SUBSET AttackNodes
             base == {tree.root}
             g == [c \in R \X (1 .. N) |-> Below(c[1])]
             Iter(f) == f = [n \in 0 .. MaxTreeDepth |-> IF n = 0 THEN {tree.root} ELSE Below(f[n - 1])]
             level == CHOOSE f : Iter(f)
  <1>1. N \in Nat /\ base \in R
    BY TreeIs
  <1>2. \A G : Below(G) \in R
    BY ChildrenAre DEF Below
  <1>3. g \in [R \X (1 .. N) -> R]
    BY <1>2
  <1>4. PICK h \in [0 .. N -> R] : NumberRecursion(h, N, base, g)
    <2> HIDE DEF N, R, g, base
    <2>1. QED  BY <1>1, <1>3, NumberSteps
  <1>5. h[0] = base /\ \A n \in 1 .. N : h[n] = Below(h[n - 1])
    <2>1. ASSUME NEW n \in 1 .. N PROVE h[n] = Below(h[n - 1])
      <3>1. h[n] = g[<<h[n - 1], n>>] /\ h[n - 1] \in R
        <4>1. n - 1 \in 0 .. N
          BY <1>1
        <4> HIDE DEF g, N, base, R
        <4>2. QED  BY <1>4, <4>1 DEF NumberRecursion
      <3>2. QED  BY <3>1
    <2>2. h[0] = base
      BY <1>4 DEF NumberRecursion
    <2>3. QED  BY <2>1, <2>2
  <1>6. Iter(h)
    <2>1. ASSUME NEW n \in 0 .. N PROVE h[n] = IF n = 0 THEN base ELSE Below(h[n - 1])
      <3>1. n = 0 \/ n \in 1 .. N
        BY <1>1
      <3>2. QED  BY <1>5, <3>1
    <2>2. h = [n \in 0 .. N |-> h[n]]
      <3> HIDE DEF N
      <3>1. QED  OBVIOUS
    <2>3. QED  BY <2>1, <2>2
  <1>7. Iter(level)
    <2> HIDE DEF Iter
    <2>1. QED  BY <1>6
  <1>8. Level = level
    BY DEF Level, Below
  <1> HIDE DEF level
  <1>9. \A n \in 0 .. N : level[n] = IF n = 0 THEN base ELSE Below(level[n - 1])
    BY <1>7
  <1>10. \A n \in 0 .. N : level[n] \in R
    BY <1>9, <1>2, <1>1
  <1>11. level = [n \in 0 .. N |-> level[n]]
    <2>1. DOMAIN level = 0 .. N
      BY <1>7
    <2> DEFINE e == [n \in 0 .. N |-> IF n = 0 THEN base ELSE Below(level[n - 1])]
    <2>2. level = e
      BY <1>7
    <2>3. \A n \in 0 .. N : e[n] = level[n]
      BY <1>9
    <2> HIDE DEF e, N
    <2>4. e = [n \in 0 .. N |-> e[n]]
      BY <2>1, <2>2 DEF e
    <2>5. QED  BY <2>2, <2>4
  <1>12. level \in [0 .. N -> R]
    BY <1>10, <1>11
  <1>13. \A n \in 1 .. N : n \in 0 .. N /\ n # 0 /\ n - 1 \in 0 .. N
    BY <1>1
  <1>14. 0 \in 0 .. N
    BY <1>1
  <1>15. QED  BY <1>8, <1>9, <1>12, <1>13, <1>14

\* Every edge is the only one to its node, and none is to the root.
OneWay == \A e \in tree.edges : e[2] # tree.root /\ \A f \in tree.edges : f[2] = e[2] => f = e

\* The levels of nodes with one parent each have no node in common.
LEMMA LevelsDisjoint ==
  ASSUME AttackTreeAssumption, AttackTreeInv, OneWay
  PROVE  \A m, n \in 0 .. MaxTreeDepth : m # n => Level[m] \cap Level[n] = {}
  <1> DEFINE D == MaxTreeDepth
             T == {m \in 0 .. D : \A n \in 0 .. D : m < n => Level[m] \cap Level[n] = {}}
  <1>1. D \in Nat /\ Level[0] = {tree.root} /\ \A n \in 1 .. D : n - 1 \in 0 .. D /\ Level[n] = Below(Level[n - 1])
    BY TreeIs, LevelSteps
  <1>2. ASSUME NEW n \in 1 .. D, NEW x \in Level[n]
        PROVE  \E y \in Level[n - 1] : <<y, x>> \in tree.edges
    <2>1. x \in Below(Level[n - 1])
      BY <1>1
    <2>2. PICK y \in Level[n - 1] : x \in Children(y)
      BY <2>1 DEF Below
    <2>3. QED  BY <2>2, ChildrenAre
  <1>3. 0 \in T
    <2>1. ASSUME NEW n \in 0 .. D, 0 < n PROVE Level[0] \cap Level[n] = {}
      <3>1. n \in 1 .. D
        BY <1>1, <2>1
      <3>2. tree.root \notin Level[n]
        <4>1. SUFFICES ASSUME tree.root \in Level[n] PROVE FALSE
          OBVIOUS
        <4>2. PICK y \in Level[n - 1] : <<y, tree.root>> \in tree.edges
          BY <1>2, <3>1, <4>1
        <4> DEFINE e == <<y, tree.root>>
        <4>3. e \in tree.edges /\ e[2] = tree.root
          BY <4>2
        <4>4. QED  BY <4>3 DEF OneWay
      <3>3. QED  BY <1>1, <3>2
    <2>2. QED  BY <1>1, <2>1
  <1>4. ASSUME NEW m \in 1 .. D, m - 1 \in T PROVE m \in T
    <2>1. ASSUME NEW n \in 0 .. D, m < n, NEW x \in Level[m], x \in Level[n] PROVE FALSE
      <3>1. n \in 1 .. D /\ m - 1 \in 0 .. D /\ n - 1 \in 0 .. D /\ m - 1 < n - 1
        BY <1>1, <2>1
      <3>2. PICK y \in Level[m - 1] : <<y, x>> \in tree.edges
        BY <1>2
      <3>3. PICK z \in Level[n - 1] : <<z, x>> \in tree.edges
        BY <1>2, <2>1, <3>1
      <3>4. y = z
        <4> DEFINE e == <<y, x>>
                   f == <<z, x>>
        <4>1. e \in tree.edges /\ f \in tree.edges /\ e[2] = f[2]
          BY <3>2, <3>3
        <4> HIDE DEF e, f
        <4>2. f = e
          BY <4>1 DEF OneWay
        <4>3. QED  BY <4>2 DEF e, f
      <3>5. Level[m - 1] \cap Level[n - 1] = {}
        BY <1>4, <3>1
      <3>6. QED  BY <3>4, <3>5
    <2>2. m \in 0 .. D
      BY <1>1
    <2>3. QED  BY <2>1, <2>2
  <1>5. \A m \in 0 .. D : m \in T
    <2> HIDE DEF T, D
    <2>1. QED  BY <1>1, <1>3, <1>4, UpToByInduction
  <1>6. ASSUME NEW m \in 0 .. D, NEW n \in 0 .. D, m # n PROVE Level[m] \cap Level[n] = {}
    <2>1. m < n \/ n < m
      BY <1>1, <1>6
    <2>2. CASE m < n
      BY <1>5, <2>2
    <2>3. CASE n < m
      BY <1>5, <2>3
    <2>4. QED  BY <2>1, <2>2, <2>3
  <1>7. QED  BY <1>6

(***************************************************************************)
(* The check of a proposed tree                                            *)
(***************************************************************************)
\* The results of the visits of one level.
Visits == [Visiting -> [ok : BOOLEAN, visited : SUBSET AttackNodes]]

\* Visiting the children of a node.
VisitBelow(v, call) ==
  FoldLeft(LAMBDA r, c : IF r.ok THEN v[<<c, call[2] \cup {call[1]}, r.visited>>] ELSE r,
           Visit(TRUE, call[3]), InOrder(Children(call[1])))

\* A visit of the nodes below one goes from child to child.
LEMMA VisitBelowSteps ==
  ASSUME AttackTreeAssumption, AttackTreeInv, NEW v \in Visits, NEW call \in Visiting,
         NEW s, s = InOrder(Children(call[1]))
  PROVE  \E pre \in [0 .. Len(s) -> [ok : BOOLEAN, visited : SUBSET AttackNodes]] :
           /\ pre[0] = Visit(TRUE, call[3])
           /\ \A k \in 1 .. Len(s) :
                pre[k] = IF pre[k - 1].ok THEN v[<<s[k], call[2] \cup {call[1]}, pre[k - 1].visited>>] ELSE pre[k - 1]
           /\ VisitBelow(v, call) = pre[Len(s)]
  <1> DEFINE n == Len(s)
             start == Visit(TRUE, call[3])
             up == call[2] \cup {call[1]}
             R == [ok : BOOLEAN, visited : SUBSET AttackNodes]
             Op(r, c) == IF r.ok THEN v[<<c, up, r.visited>>] ELSE r
             g == [c \in R \X (1 .. n) |-> Op(c[1], s[c[2]])]
             Iter(h) == h = [U \in SUBSET DOMAIN s |-> IF U = {} THEN start ELSE Op(h[U \ {Max(U)}], s[Max(U)])]
             iter == CHOOSE f : Iter(f)
             pre == [k \in 0 .. n |-> iter[1 .. k]]
             Good == {k \in Nat : pre[k] \in R}
  <1>1. s \in Seq(AttackNodes) /\ n \in Nat /\ DOMAIN s = 1 .. n /\ \A k \in 1 .. n : s[k] \in AttackNodes
    <2>1. s \in Seq(AttackNodes)
      BY ChildrenAre
    <2>2. QED  BY <2>1
  <1>2. call[1] \in AttackNodes /\ call[2] \in SUBSET AttackNodes /\ call[3] \in SUBSET AttackNodes
    BY DEF Visiting
  <1>3. start \in R
    BY <1>2 DEF Visit
  <1>4. ASSUME NEW r \in R, NEW c \in AttackNodes PROVE Op(r, c) \in R
    <2>1. up \in SUBSET AttackNodes /\ r.visited \in SUBSET AttackNodes
      BY <1>2
    <2> HIDE DEF up
    <2>2. <<c, up, r.visited>> \in Visiting
      BY <2>1 DEF Visiting
    <2>3. v[<<c, up, r.visited>>] \in R
      BY <2>2 DEF Visits
    <2>4. QED  BY <2>3
  <1>5. g \in [R \X (1 .. n) -> R]
    <2> HIDE DEF Op, R
    <2>1. QED  BY <1>1, <1>4
  <1>6. PICK h \in [SUBSET (1 .. n) -> R] : FoldRecursion(h, n, start, g)
    <2> HIDE DEF R, g, n, start
    <2>1. QED  BY <1>1, <1>3, <1>5, FoldSteps
  <1>7. Iter(h)
    <2>1. ASSUME NEW U \in SUBSET (1 .. n)
          PROVE  h[U] = IF U = {} THEN start ELSE Op(h[U \ {Max(U)}], s[Max(U)])
      <3>1. CASE U # {}
        <4>1. Max(U) \in 1 .. n /\ U \ {Max(U)} \in SUBSET (1 .. n)
          BY <1>1, <3>1, MaxOfNumbers
        <4>2. h[U] = g[<<h[U \ {Max(U)}], Max(U)>>] /\ h[U \ {Max(U)}] \in R
          <5> HIDE DEF g, R, n, start
          <5>1. QED  BY <1>6, <3>1, <4>1 DEF FoldRecursion
        <4> HIDE DEF Op, R
        <4>3. QED  BY <3>1, <4>1, <4>2
      <3>2. QED  BY <1>6, <3>1 DEF FoldRecursion
    <2> HIDE DEF Op, start
    <2>2. QED  BY <1>1, <2>1
  <1>8. Iter(iter)
    <2> HIDE DEF Iter
    <2>1. QED  BY <1>7
  <1>9. VisitBelow(v, call) = iter[DOMAIN s]
    BY DEF VisitBelow, FoldLeft, MapThenFoldSet
  <1> HIDE DEF iter
  <1>10. ASSUME NEW k \in 1 .. n PROVE pre[k] = Op(pre[k - 1], s[k])
    <2>1. iter[1 .. k] = Op(iter[1 .. k - 1], s[k])
      <3>1. 1 .. k \in SUBSET DOMAIN s /\ k \in Nat /\ k # 0
        BY <1>1
      <3>2. Max(1 .. k) = k /\ (1 .. k) \ {k} = 1 .. k - 1 /\ 1 .. k # {}
        BY <3>1, LastOfFirst
      <3> HIDE DEF Op
      <3>3. iter[1 .. k] = Op(iter[(1 .. k) \ {Max(1 .. k)}], s[Max(1 .. k)])
        BY <1>8, <3>1, <3>2
      <3>4. QED  BY <3>2, <3>3
    <2>2. pre[k] = iter[1 .. k] /\ pre[k - 1] = iter[1 .. k - 1]
      <3>1. k \in 0 .. n /\ k - 1 \in 0 .. n
        BY <1>1
      <3>2. QED  BY <3>1
    <2> HIDE DEF pre, Op
    <2>3. QED  BY <2>1, <2>2
  <1>11. pre[0] = start
    <2>1. 1 .. 0 = {} /\ {} \in SUBSET DOMAIN s
      OBVIOUS
    <2> HIDE DEF Op, start
    <2>2. QED  BY <1>1, <1>8, <2>1
  <1>12. \A k \in 0 .. n : k \in Good
    <2> HIDE DEF pre, R, Op
    <2>1. 0 \in Good
      BY <1>3, <1>11
    <2>2. ASSUME NEW k \in 1 .. n, k - 1 \in Good PROVE k \in Good
      <3>1. pre[k - 1] \in R /\ s[k] \in AttackNodes /\ k \in Nat
        BY <1>1, <2>2
      <3>2. Op(pre[k - 1], s[k]) \in R
        BY <1>4, <3>1
      <3>3. QED  BY <1>10, <3>1, <3>2
    <2> HIDE DEF Good, n
    <2>3. QED  BY <1>1, <2>1, <2>2, UpToByInduction
  <1>13. pre \in [0 .. n -> R]
    <2>1. pre = [k \in 0 .. n |-> pre[k]]
      OBVIOUS
    <2> HIDE DEF pre, R
    <2>2. QED  BY <1>12, <2>1
  <1>14. VisitBelow(v, call) = pre[n]
    BY <1>1, <1>9
  <1> HIDE DEF pre
  <1>15. QED  BY <1>10, <1>11, <1>13, <1>14

\* What visiting a node does where a level is left, with the visits of the level below.
VisitOne(v, call) ==
  IF call[1] \in call[2] THEN Visit(FALSE, call[3])
  ELSE IF call[1] \in call[3] THEN Visit(TRUE, call[3])
  ELSE IF VisitBelow(v, call).ok THEN Visit(TRUE, VisitBelow(v, call).visited \cup {call[1]})
  ELSE VisitBelow(v, call)

\* The visits, level by level.
LEMMA VisitLevels ==
  ASSUME AttackTreeAssumption, AttackTreeInv
  PROVE  \E h \in [0 .. MaxTreeDepth -> Visits] :
           /\ \A call \in Visiting : h[0][call] = Visit(FALSE, call[3])
           /\ \A left \in 1 .. MaxTreeDepth :
                left - 1 \in 0 .. MaxTreeDepth /\ \A call \in Visiting : h[left][call] = VisitOne(h[left - 1], call)
           /\ VisitRoot = h[MaxTreeDepth][<<tree.root, {}, {}>>]
  <1> DEFINE N == MaxTreeDepth
             Result == [ok : BOOLEAN, visited : SUBSET AttackNodes]
             Step(v) == [call \in Visiting |-> VisitOne(v, call)]
             base == [call \in Visiting |-> Visit(FALSE, call[3])]
             g == [c \in Visits \X (1 .. N) |-> Step(c[1])]
             Iter(v) == v = [left \in 0 .. MaxTreeDepth |-> [call \in Visiting |->
               IF left = 0 \/ call[1] \in call[2] THEN Visit(FALSE, call[3])
               ELSE IF call[1] \in call[3] THEN Visit(TRUE, call[3])
               ELSE IF VisitBelow(v[left - 1], call).ok
                    THEN Visit(TRUE, VisitBelow(v[left - 1], call).visited \cup {call[1]})
                    ELSE VisitBelow(v[left - 1], call)]]
             visit == CHOOSE v : Iter(v)
  <1>1. N \in Nat
    BY TreeIs
  <1>2. \A call \in Visiting : call[1] \in AttackNodes /\ call[3] \in SUBSET AttackNodes
    BY DEF Visiting
  <1>3. ASSUME NEW ok \in BOOLEAN, NEW T \in SUBSET AttackNodes PROVE Visit(ok, T) \in Result
    BY DEF Visit
  <1>4. base \in Visits
    <2> HIDE DEF Result
    <2>1. \A call \in Visiting : Visit(FALSE, call[3]) \in Result
      BY <1>2, <1>3
    <2>2. QED  BY <2>1 DEF Visits, Result
  <1>5. ASSUME NEW v \in Visits, NEW call \in Visiting PROVE VisitOne(v, call) \in Result
    <2>1. VisitBelow(v, call) \in Result
      <3> DEFINE s == InOrder(Children(call[1]))
      <3>1. Len(s) \in Nat
        <4>1. s \in Seq(AttackNodes)
          BY ChildrenAre
        <4> HIDE DEF s
        <4>2. QED  BY <4>1
      <3> HIDE DEF s
      <3>2. PICK pre \in [0 .. Len(s) -> Result] : VisitBelow(v, call) = pre[Len(s)]
        BY VisitBelowSteps DEF s
      <3>3. QED  BY <3>1, <3>2
    <2>2. VisitBelow(v, call).visited \cup {call[1]} \in SUBSET AttackNodes
      BY <1>2, <2>1
    <2> HIDE DEF Result
    <2>3. QED  BY <1>2, <1>3, <2>1, <2>2 DEF VisitOne
  <1>6. \A v \in Visits : Step(v) \in Visits
    <2> HIDE DEF Result
    <2>1. QED  BY <1>5 DEF Visits, Result
  <1>7. g \in [Visits \X (1 .. N) -> Visits]
    <2> HIDE DEF Step
    <2>1. QED  BY <1>6
  <1>8. PICK h \in [0 .. N -> Visits] : NumberRecursion(h, N, base, g)
    <2> HIDE DEF N, g, base
    <2>1. QED  BY <1>1, <1>4, <1>7, NumberSteps
  <1>9. h[0] = base /\ \A left \in 1 .. N : left - 1 \in 0 .. N /\ h[left] = Step(h[left - 1])
    <2>1. ASSUME NEW left \in 1 .. N PROVE left - 1 \in 0 .. N /\ h[left] = Step(h[left - 1])
      <3>1. left - 1 \in 0 .. N /\ h[left - 1] \in Visits
        BY <1>1
      <3>2. h[left] = g[<<h[left - 1], left>>]
        <4> HIDE DEF g, N, base
        <4>1. QED  BY <1>8 DEF NumberRecursion
      <3> HIDE DEF Step, N
      <3>3. QED  BY <3>1, <3>2
    <2>2. h[0] = base
      BY <1>8 DEF NumberRecursion
    <2>3. QED  BY <2>1, <2>2
  <1>10. Iter(h)
    <2>1. ASSUME NEW left \in 0 .. N
          PROVE  h[left] = [call \in Visiting |->
                   IF left = 0 \/ call[1] \in call[2] THEN Visit(FALSE, call[3])
                   ELSE IF call[1] \in call[3] THEN Visit(TRUE, call[3])
                   ELSE IF VisitBelow(h[left - 1], call).ok
                        THEN Visit(TRUE, VisitBelow(h[left - 1], call).visited \cup {call[1]})
                        ELSE VisitBelow(h[left - 1], call)]
      <3>1. CASE left = 0
        BY <1>9, <3>1
      <3>2. CASE left # 0
        <4>1. left \in 1 .. N
          BY <3>2
        <4>2. h[left] = Step(h[left - 1])
          <5> HIDE DEF Step, N
          <5>1. QED  BY <1>9, <4>1
        <4>3. QED  BY <3>2, <4>2 DEF VisitOne
      <3>3. QED  BY <3>1, <3>2
    <2>2. h = [left \in 0 .. N |-> h[left]]
      <3> HIDE DEF N
      <3>1. QED  OBVIOUS
    <2>3. QED  BY <2>1, <2>2
  <1>11. Iter(visit)
    <2> HIDE DEF Iter
    <2>1. QED  BY <1>10
  <1> DEFINE first == <<tree.root, {}, {}>>
  <1>12. VisitRoot = visit[N][first]
    BY DEF VisitRoot, VisitBelow
  <1> HIDE DEF visit
  <1> DEFINE Same == {k \in Nat : visit[k] = h[k]}
  <1>13. 0 \in Same
    <2>1. visit[0] = base
      <3>1. 0 \in 0 .. N
        BY <1>1
      <3>2. QED  BY <1>11, <3>1
    <2> HIDE DEF base
    <2>2. QED  BY <1>9, <2>1
  <1>14. ASSUME NEW k \in 1 .. N, k - 1 \in Same PROVE k \in Same
    <2>1. visit[k] = Step(visit[k - 1])
      <3>1. k \in 0 .. N /\ k # 0
        BY <1>1
      <3>2. QED  BY <1>11, <3>1 DEF VisitOne
    <2> HIDE DEF Step
    <2>2. k \in Nat
      BY <1>1
    <2>3. QED  BY <1>9, <1>14, <2>1, <2>2
  <1>15. visit[N] = h[N]
    <2> HIDE DEF Same, N
    <2>1. \A k \in 0 .. N : k \in Same
      BY <1>1, <1>13, <1>14, UpToByInduction
    <2>2. N \in 0 .. N
      BY <1>1
    <2>3. QED  BY <2>1, <2>2 DEF Same
  <1>16. /\ \A call \in Visiting : h[0][call] = Visit(FALSE, call[3])
         /\ \A left \in 1 .. N :
              left - 1 \in 0 .. N /\ \A call \in Visiting : h[left][call] = VisitOne(h[left - 1], call)
    <2> HIDE DEF N
    <2>1. QED  BY <1>9
  <1>17. VisitRoot = h[N][first]
    <2> HIDE DEF first, N
    <2>1. QED  BY <1>12, <1>15
  <1>18. QED  BY <1>16, <1>17

\* Visits, level by level.
VisitsAre(h) ==
  /\ \A call \in Visiting : h[0][call] = Visit(FALSE, call[3])
  /\ \A left \in 1 .. MaxTreeDepth :
       left - 1 \in 0 .. MaxTreeDepth /\ \A call \in Visiting : h[left][call] = VisitOne(h[left - 1], call)

\* The nodes of the levels above the last one allowed.
Some == UNION {Level[n] : n \in 0 .. MaxTreeDepth - 1}
\* Nodes with all below them.
Closed(V) == \A y \in V : Children(y) \subseteq V

\* A node of a level is visited with the levels below it left, and so are its children.
LEMMA LevelBelow ==
  ASSUME AttackTreeAssumption, AttackTreeInv, NEW left \in 1 .. MaxTreeDepth, NEW id \in Level[MaxTreeDepth - left]
  PROVE  /\ id \in Some /\ MaxTreeDepth - left \in 0 .. MaxTreeDepth - 1 /\ id \in AttackNodes
         /\ \A c \in Children(id) : c \in Level[MaxTreeDepth - (left - 1)] /\ c \in AttackNodes
  <1> DEFINE D == MaxTreeDepth
             m == D - left
  <1>1. D \in Nat
    BY TreeIs
  <1>2. m \in 0 .. D - 1 /\ m \in 0 .. D /\ m + 1 \in 1 .. D /\ D - (left - 1) = m + 1 /\ (m + 1) - 1 = m
    BY <1>1
  <1>3. Level[m] \in SUBSET AttackNodes /\ Level[m + 1] = Below(Level[m])
    <2> HIDE DEF D
    <2>1. Level \in [0 .. D -> SUBSET AttackNodes] /\ \A n \in 1 .. D : Level[n] = Below(Level[n - 1])
      BY LevelSteps DEF D
    <2> HIDE DEF m
    <2>2. Level[m + 1] = Below(Level[(m + 1) - 1])
      BY <1>2, <2>1
    <2>3. QED  BY <1>2, <2>1, <2>2
  <1>4. id \in Some
    BY <1>2 DEF Some
  <1>5. \A c \in Children(id) : c \in Level[m + 1] /\ c \in AttackNodes
    BY <1>3, ChildrenAre DEF Below
  <1>6. QED  BY <1>2, <1>3, <1>4, <1>5

\* Only nodes of the levels are visited.
LEMMA VisitedInLevels ==
  ASSUME AttackTreeAssumption, AttackTreeInv, NEW h \in [0 .. MaxTreeDepth -> Visits], VisitsAre(h)
  PROVE  \A left \in 0 .. MaxTreeDepth : \A call \in Visiting :
           call[1] \in Level[MaxTreeDepth - left] => h[left][call].visited \subseteq call[3] \cup Some
  <1> DEFINE D == MaxTreeDepth
             Result == [ok : BOOLEAN, visited : SUBSET AttackNodes]
             StaysIn(left, call) == call[1] \in Level[D - left] => h[left][call].visited \subseteq call[3] \cup Some
             T == {left \in 0 .. D : \A call \in Visiting : StaysIn(left, call)}
  <1>1. D \in Nat
    BY TreeIs
  <1>2. 0 \in T
    <2>1. \A call \in Visiting : h[0][call] = Visit(FALSE, call[3])
      BY DEF VisitsAre
    <2>2. ASSUME NEW call \in Visiting PROVE h[0][call].visited = call[3]
      <3>1. Visit(FALSE, call[3]).visited = call[3]
        BY DEF Visit
      <3>2. QED  BY <2>1, <3>1
    <2>3. QED  BY <1>1, <2>2
  <1>3. ASSUME NEW left \in 1 .. D, left - 1 \in T PROVE left \in T
    <2>1. left - 1 \in 0 .. D /\ left \in 0 .. D /\ h[left - 1] \in Visits
      BY <1>1
    <2>2. ASSUME NEW call \in Visiting, call[1] \in Level[D - left]
          PROVE  h[left][call].visited \subseteq call[3] \cup Some
      <3> DEFINE v == h[left - 1]
                 s == InOrder(Children(call[1]))
                 n == Len(s)
      <3>1. /\ call[1] \in Some /\ call[2] \in SUBSET AttackNodes /\ call[3] \in SUBSET AttackNodes
            /\ call[1] \in AttackNodes
            /\ \A c \in Children(call[1]) : c \in Level[D - (left - 1)] /\ c \in AttackNodes
        BY <2>2, LevelBelow DEF Visiting
      <3>2. s \in Seq(AttackNodes) /\ Range(s) = Children(call[1])
        BY ChildrenAre
      <3> HIDE DEF s, v, Result
      <3>3. PICK pre \in [0 .. n -> Result] :
              /\ pre[0] = Visit(TRUE, call[3])
              /\ \A k \in 1 .. n :
                   pre[k] = IF pre[k - 1].ok THEN v[<<s[k], call[2] \cup {call[1]}, pre[k - 1].visited>>] ELSE pre[k - 1]
              /\ VisitBelow(v, call) = pre[n]
        BY <2>1, VisitBelowSteps DEF s, v, Result
      <3> DEFINE Good == {k \in 0 .. n : pre[k].visited \subseteq call[3] \cup Some}
      <3>4. n \in Nat /\ \A k \in 1 .. n : k - 1 \in 0 .. n /\ k \in 0 .. n /\ s[k] \in Children(call[1])
        BY <3>2 DEF Range
      <3>5. 0 \in Good
        BY <3>3, <3>4 DEF Visit
      <3>6. ASSUME NEW k \in 1 .. n, k - 1 \in Good PROVE k \in Good
        <4> DEFINE r == pre[k - 1]
                   next == <<s[k], call[2] \cup {call[1]}, r.visited>>
        <4>1. r \in Result /\ r.visited \subseteq call[3] \cup Some
          BY <3>4, <3>6
        <4>2. next \in Visiting /\ next[1] = s[k] /\ next[3] = r.visited
          <5>1. s[k] \in AttackNodes /\ call[2] \cup {call[1]} \in SUBSET AttackNodes /\ r.visited \in SUBSET AttackNodes
            BY <3>1, <3>4, <4>1 DEF Result
          <5> DEFINE up == call[2] \cup {call[1]}
          <5> HIDE DEF r, up
          <5>2. QED  BY <5>1 DEF Visiting, up
        <4> HIDE DEF r, next
        <4>3. v[next].visited \subseteq next[3] \cup Some
          <5>1. StaysIn(left - 1, next)
            BY <1>3, <4>2
          <5>2. next[1] \in Level[D - (left - 1)]
            BY <3>1, <3>4, <4>2
          <5>3. QED  BY <5>1, <5>2 DEF v
        <4>4. pre[k] = IF r.ok THEN v[next] ELSE r
          BY <3>3 DEF r, next
        <4>5. pre[k].visited \subseteq call[3] \cup Some
          BY <4>1, <4>2, <4>3, <4>4
        <4>6. QED  BY <3>4, <4>5
      <3>7. VisitBelow(v, call).visited \subseteq call[3] \cup Some
        <4> HIDE DEF Good, n
        <4>1. \A k \in 0 .. n : k \in Good
          BY <3>4, <3>5, <3>6, UpToByInduction
        <4>2. n \in 0 .. n
          BY <3>4
        <4>3. QED  BY <3>3, <4>1, <4>2 DEF Good
      <3>8. h[left][call] = VisitOne(v, call)
        BY DEF VisitsAre, v
      <3>9. VisitOne(v, call).visited \subseteq call[3] \cup Some
        BY <3>1, <3>7 DEF VisitOne, Visit
      <3>10. QED  BY <3>8, <3>9
    <2>3. QED  BY <2>1, <2>2
  <1>4. \A left \in 0 .. D : left \in T
    <2> HIDE DEF T, D
    <2>1. QED  BY <1>1, <1>2, <1>3, UpToByInduction
  <1>5. QED  BY <1>4

\* In a tree every visit succeeds, and visits whatever is below its node.
LEMMA VisitsSucceed ==
  ASSUME AttackTreeAssumption, AttackTreeInv, NEW h \in [0 .. MaxTreeDepth -> Visits], VisitsAre(h),
         OneWay, Level[MaxTreeDepth] = {}
  PROVE  \A left \in 0 .. MaxTreeDepth : \A call \in Visiting :
           /\ call[1] \in Level[MaxTreeDepth - left]
           /\ \A y \in call[2] : \E m \in 0 .. MaxTreeDepth - left - 1 : y \in Level[m]
           /\ Closed(call[3])
           => /\ h[left][call].ok /\ call[1] \in h[left][call].visited
              /\ call[3] \subseteq h[left][call].visited /\ Closed(h[left][call].visited)
  <1> DEFINE D == MaxTreeDepth
             Result == [ok : BOOLEAN, visited : SUBSET AttackNodes]
             Ready(left, call) == /\ call[1] \in Level[D - left]
                                  /\ \A y \in call[2] : \E m \in 0 .. D - left - 1 : y \in Level[m]
                                  /\ Closed(call[3])
             Done(r, id, V) == r.ok /\ id \in r.visited /\ V \subseteq r.visited /\ Closed(r.visited)
             T == {left \in 0 .. D : \A call \in Visiting : Ready(left, call) => Done(h[left][call], call[1], call[3])}
  <1>1. D \in Nat
    BY TreeIs
  <1>2. 0 \in T
    BY <1>1
  <1>3. ASSUME NEW left \in 1 .. D, left - 1 \in T PROVE left \in T
    <2>1. left - 1 \in 0 .. D /\ left \in 0 .. D /\ h[left - 1] \in Visits
      BY <1>1
    <2>2. ASSUME NEW call \in Visiting, Ready(left, call)
          PROVE  Done(h[left][call], call[1], call[3])
      <3> DEFINE v == h[left - 1]
                 s == InOrder(Children(call[1]))
                 n == Len(s)
                 up == call[2] \cup {call[1]}
      <3>1. /\ call[1] \in Some /\ call[2] \in SUBSET AttackNodes /\ call[3] \in SUBSET AttackNodes
            /\ call[1] \in AttackNodes /\ call[1] \in Level[D - left]
            /\ \A c \in Children(call[1]) : c \in Level[D - (left - 1)] /\ c \in AttackNodes
        BY <2>2, LevelBelow DEF Visiting
      <3>2. s \in Seq(AttackNodes) /\ Range(s) = Children(call[1])
        BY ChildrenAre
      <3>3. up \in SUBSET AttackNodes /\ \A y \in up : \E m \in 0 .. D - (left - 1) - 1 : y \in Level[m]
        <4>1. D - left \in 0 .. D - (left - 1) - 1 /\ 0 .. D - left - 1 \subseteq 0 .. D - (left - 1) - 1
          BY <1>1
        <4>2. QED  BY <2>2, <3>1, <4>1
      <3>4. call[1] \notin call[2]
        <4>1. SUFFICES ASSUME call[1] \in call[2] PROVE FALSE
          OBVIOUS
        <4>2. PICK m \in 0 .. D - left - 1 : call[1] \in Level[m]
          BY <2>2, <4>1
        <4>3. m \in 0 .. D /\ D - left \in 0 .. D /\ m # D - left
          BY <1>1
        <4>4. Level[m] \cap Level[D - left] = {}
          BY <4>3, LevelsDisjoint
        <4>5. QED  BY <3>1, <4>2, <4>4
      <3> HIDE DEF s, v, Result, up
      <3>5. PICK pre \in [0 .. n -> Result] :
              /\ pre[0] = Visit(TRUE, call[3])
              /\ \A k \in 1 .. n :
                   pre[k] = IF pre[k - 1].ok THEN v[<<s[k], up, pre[k - 1].visited>>] ELSE pre[k - 1]
              /\ VisitBelow(v, call) = pre[n]
        BY <2>1, VisitBelowSteps DEF s, v, Result, up
      <3>6. n \in Nat /\ \A k \in 1 .. n : k - 1 \in 0 .. n /\ k \in 0 .. n /\ s[k] \in Children(call[1])
        BY <3>2 DEF Range
      <3> DEFINE Upto(k, r) == /\ r.ok /\ call[3] \subseteq r.visited /\ Closed(r.visited)
                               /\ \A j \in 1 .. k : s[j] \in r.visited
                 Good == {k \in 0 .. n : Upto(k, pre[k])}
      <3>7. 0 \in Good
        <4>1. Closed(call[3])
          BY <2>2
        <4>2. QED  BY <3>5, <3>6, <4>1 DEF Visit
      <3>8. ASSUME NEW k \in 1 .. n, k - 1 \in Good PROVE k \in Good
        <4> DEFINE r == pre[k - 1]
                   next == <<s[k], up, r.visited>>
        <4>1. r \in Result /\ Upto(k - 1, r)
          BY <3>6, <3>8
        <4>2. next \in Visiting /\ next[1] = s[k] /\ next[2] = up /\ next[3] = r.visited
          <5>1. s[k] \in AttackNodes /\ r.visited \in SUBSET AttackNodes
            BY <3>1, <3>6, <4>1 DEF Result
          <5> HIDE DEF r
          <5>2. QED  BY <3>3, <5>1 DEF Visiting
        <4> HIDE DEF r, next
        <4>3. Done(v[next], s[k], r.visited)
          <5>1. Ready(left - 1, next)
            <6>1. next[1] \in Level[D - (left - 1)] /\ Closed(next[3])
              BY <3>1, <3>6, <4>1, <4>2
            <6>2. \A y \in next[2] : \E m \in 0 .. D - (left - 1) - 1 : y \in Level[m]
              BY <3>3, <4>2
            <6>3. QED  BY <6>1, <6>2
          <5> HIDE DEF Ready, Done
          <5>2. Done(h[left - 1][next], next[1], next[3])
            BY <1>3, <4>2, <5>1
          <5>3. QED  BY <4>2, <5>2 DEF v
        <4>4. pre[k] = v[next]
          BY <3>5, <4>1 DEF r, next
        <4>5. Upto(k, pre[k])
          <5>1. \A j \in 1 .. k : j = k \/ j \in 1 .. k - 1
            BY <3>6
          <5>2. QED  BY <4>1, <4>3, <4>4, <5>1
        <4>6. QED  BY <3>6, <4>5
      <3> DEFINE b == VisitBelow(v, call)
      <3>9. Upto(n, b)
        <4> HIDE DEF Good, n, Upto
        <4>1. \A k \in 0 .. n : k \in Good
          BY <3>6, <3>7, <3>8, UpToByInduction
        <4>2. n \in 0 .. n
          BY <3>6
        <4>3. QED  BY <3>5, <4>1, <4>2 DEF Good
      <3>10. h[left][call] = VisitOne(v, call)
        BY DEF VisitsAre, v
      <3>11. Done(VisitOne(v, call), call[1], call[3])
        <4>1. Closed(call[3])
          BY <2>2
        <4>2. CASE call[1] \in call[3]
          <5>1. VisitOne(v, call) = Visit(TRUE, call[3])
            BY <3>4, <4>2 DEF VisitOne
          <5>2. QED  BY <4>1, <4>2, <5>1 DEF Visit
        <4>3. CASE call[1] \notin call[3]
          <5>1. VisitOne(v, call) = Visit(TRUE, b.visited \cup {call[1]})
            BY <3>4, <3>9, <4>3 DEF VisitOne
          <5>2. Children(call[1]) \subseteq b.visited
            BY <3>2, <3>9 DEF Range
          <5>3. Closed(b.visited \cup {call[1]})
            BY <3>9, <5>2 DEF Closed
          <5> HIDE DEF b
          <5>4. QED  BY <3>9, <5>1, <5>3 DEF Visit
        <4>4. QED  BY <4>2, <4>3
      <3> HIDE DEF Done
      <3>12. QED  BY <3>10, <3>11
    <2> HIDE DEF Ready, Done
    <2>3. QED  BY <2>1, <2>2
  <1>4. \A left \in 0 .. D : left \in T
    <2> HIDE DEF T, D
    <2>1. QED  BY <1>1, <1>2, <1>3, UpToByInduction
  <1>5. QED  BY <1>4

\* The check of the edges: each node below the root has one of its own.
LEMMA OneIncoming ==
  ASSUME AttackTreeAssumption, AttackTreeInv,
         \A e \in tree.edges : e[1] \in tree.nodes /\ e[2] \in tree.nodes /\ e[1] # e[2],
         \A id \in tree.nodes : Incoming(id) = IF id = tree.root THEN 0 ELSE 1
  PROVE  OneWay /\ \A id \in tree.nodes \ {tree.root} : \E e \in tree.edges : e[2] = id
  <1>1. IsFiniteSet(tree.edges)
    BY TreeIs
  <1> DEFINE To(id) == {e \in tree.edges : e[2] = id}
  <1>2. ASSUME NEW id \in tree.nodes
        PROVE  /\ id = tree.root => To(id) = {}
               /\ id # tree.root => \E e : To(id) = {e}
    <2> DEFINE S == To(id)
    <2>1. IsFiniteSet(S) /\ Cardinality(S) = IF id = tree.root THEN 0 ELSE 1
      <3>1. IsFiniteSet(S)
        <4>1. S \in SUBSET tree.edges
          OBVIOUS
        <4>2. QED  BY <1>1, <4>1, FS_Subset
      <3>2. Incoming(id) = Cardinality(S)
        BY DEF Incoming
      <3>3. QED  BY <3>1, <3>2
    <2> HIDE DEF S
    <2>2. id = tree.root => S = {}
      BY <2>1, FS_EmptySet
    <2>3. id # tree.root => \E e : S = {e}
      BY <2>1, FS_Singleton
    <2>4. QED  BY <2>2, <2>3 DEF S
  <1>3. ASSUME NEW e \in tree.edges PROVE e[2] # tree.root /\ \A f \in tree.edges : f[2] = e[2] => f = e
    <2>1. e \in To(e[2]) /\ e[2] \in tree.nodes
      OBVIOUS
    <2>2. \A f \in tree.edges : f[2] = e[2] => f \in To(e[2])
      OBVIOUS
    <2> HIDE DEF To
    <2>3. QED  BY <1>2, <2>1, <2>2
  <1>4. ASSUME NEW id \in tree.nodes \ {tree.root} PROVE \E e \in tree.edges : e[2] = id
    <2>1. PICK e : To(id) = {e}
      BY <1>2
    <2>2. QED  BY <2>1
  <1>5. QED  BY <1>3, <1>4 DEF OneWay

\* One edge for each node but the root.
LEMMA EdgesCounted ==
  ASSUME AttackTreeAssumption, AttackTreeInv, OneWay, tree.root \in tree.nodes,
         \A e \in tree.edges : e[2] \in tree.nodes,
         \A id \in tree.nodes \ {tree.root} : \E e \in tree.edges : e[2] = id
  PROVE  Cardinality(tree.edges) = Cardinality(tree.nodes) - 1
  <1> DEFINE E == tree.edges
             B == tree.nodes \ {tree.root}
             f == [e \in E |-> e[2]]
  <1>1. IsFiniteSet(E) /\ IsFiniteSet(tree.nodes) /\ IsFiniteSet(B) /\ Cardinality(B) = Cardinality(tree.nodes) - 1
    BY TreeIs, FS_RemoveElement
  <1>2. f \in Surjection(E, B) /\ f \in Injection(E, B)
    <2>1. f \in [E -> B]
      BY DEF OneWay
    <2>2. \A a, b \in E : f[a] = f[b] => a = b
      BY DEF OneWay
    <2>3. \A b \in B : \E a \in E : f[a] = b
      <3>1. \A b \in B : \E a \in E : a[2] = b
        OBVIOUS
      <3>2. QED  BY <3>1
    <2> HIDE DEF f, E, B
    <2>4. QED  BY <2>1, <2>2, <2>3 DEF Injection, Surjection, IsInjective
  <1> HIDE DEF E, B, f
  <1>4. Cardinality(E) = Cardinality(B)
    BY <1>1, <1>2, FS_Surjection
  <1>5. QED  BY <1>1, <1>4 DEF E

\* What the check accepts is a tree.
LEMMA AcceptsTrees ==
  ASSUME AttackTreeAssumption, AttackTreeInv, StructureIsValid
  PROVE  IsTree /\ OneWay
  <1> DEFINE D == MaxTreeDepth
             first == <<tree.root, {}, {}>>
  <1>1. OneWay /\ \A id \in tree.nodes \ {tree.root} : \E e \in tree.edges : e[2] = id
    BY OneIncoming DEF StructureIsValid
  <1>2. Cardinality(tree.edges) = Cardinality(tree.nodes) - 1
    BY <1>1, EdgesCounted DEF StructureIsValid
  <1>3. /\ D \in Nat /\ tree.root \in AttackNodes /\ tree.root \in Level[0]
        /\ Level \in [0 .. D -> SUBSET AttackNodes]
        /\ \A n \in 1 .. D : n - 1 \in 0 .. D /\ Level[n] = Below(Level[n - 1])
    BY TreeIs, LevelSteps
  <1>4. PICK h \in [0 .. D -> Visits] : VisitsAre(h) /\ VisitRoot = h[D][first]
    <2> HIDE DEF first
    <2>1. PICK h \in [0 .. D -> Visits] :
            /\ \A call \in Visiting : h[0][call] = Visit(FALSE, call[3])
            /\ \A left \in 1 .. D :
                 left - 1 \in 0 .. D /\ \A call \in Visiting : h[left][call] = VisitOne(h[left - 1], call)
            /\ VisitRoot = h[D][first]
      BY VisitLevels DEF first
    <2>2. QED  BY <2>1 DEF VisitsAre
  <1>5. first \in Visiting /\ first[1] = tree.root /\ first[3] = {}
    BY <1>3 DEF Visiting
  <1>6. VisitRoot.ok /\ VisitRoot.visited = tree.nodes
    BY DEF StructureIsValid, VisitsAll
  <1>7. D # 0
    <2>1. SUFFICES ASSUME D = 0 PROVE FALSE
      OBVIOUS
    <2>2. VisitRoot = Visit(FALSE, first[3])
      <3> HIDE DEF first
      <3>1. QED  BY <1>4, <1>5, <2>1 DEF VisitsAre
    <2>3. QED  BY <1>6, <2>2 DEF Visit
  <1>8. tree.nodes \subseteq Some
    <2> HIDE DEF first
    <2>1. D \in 0 .. D /\ D - D = 0
      BY <1>3
    <2>2. h[D][first].visited \subseteq first[3] \cup Some
      BY <1>3, <1>4, <1>5, <2>1, VisitedInLevels
    <2>3. QED  BY <1>4, <1>5, <1>6, <2>2
  <1>9. \A n \in 0 .. D : Level[n] \subseteq tree.nodes
    <2> DEFINE T == {n \in 0 .. D : Level[n] \subseteq tree.nodes}
    <2>1. 0 \in T
      BY <1>3, LevelSteps DEF StructureIsValid
    <2>2. ASSUME NEW n \in 1 .. D PROVE n \in T
      <3>1. \A id : Children(id) \subseteq tree.nodes
        <4>1. ASSUME NEW id, NEW c \in Children(id) PROVE c \in tree.nodes
          <5>1. <<id, c>> \in tree.edges
            BY ChildrenAre
          <5> DEFINE e == <<id, c>>
          <5>2. e \in tree.edges /\ e[2] = c
            BY <5>1
          <5>3. QED  BY <5>2 DEF StructureIsValid
        <4>2. QED  BY <4>1
      <3>2. n \in 0 .. D /\ Level[n] = Below(Level[n - 1])
        BY <1>3
      <3>3. QED  BY <3>1, <3>2 DEF Below
    <2>3. \A n \in 0 .. D : n = 0 \/ n \in 1 .. D
      BY <1>3
    <2>4. QED  BY <2>1, <2>2, <2>3
  <1>10. Some = tree.nodes
    <2>1. 0 .. D - 1 \subseteq 0 .. D
      BY <1>3
    <2>2. QED  BY <1>8, <1>9, <2>1 DEF Some
  <1>11. Level[D] = {}
    <2>1. SUFFICES ASSUME NEW x \in Level[D] PROVE FALSE
      OBVIOUS
    <2>2. x \in Some
      BY <1>3, <1>9, <1>10
    <2>3. PICK n \in 0 .. D - 1 : x \in Level[n]
      BY <2>2 DEF Some
    <2>4. n \in 0 .. D /\ D \in 0 .. D /\ n # D
      BY <1>3
    <2>5. QED  BY <1>1, <2>3, <2>4, LevelsDisjoint
  <1>12. QED  BY <1>1, <1>2, <1>10, <1>11 DEF IsTree, Some

\* In a tree every node below the root has another one above it.
LEMMA ParentsAre ==
  ASSUME AttackTreeAssumption, AttackTreeInv, IsTree
  PROVE  /\ MaxTreeDepth >= 1 /\ tree.root \in tree.nodes
         /\ \A x \in tree.nodes \ {tree.root} : \E e \in tree.edges : e[2] = x /\ e[1] \in tree.nodes /\ e[1] # e[2]
  <1> DEFINE D == MaxTreeDepth
  <1>1. /\ D \in Nat /\ Level[0] = {tree.root}
        /\ Level \in [0 .. D -> SUBSET AttackNodes]
        /\ \A n \in 1 .. D : n - 1 \in 0 .. D /\ Level[n] = Below(Level[n - 1])
    BY TreeIs, LevelSteps
  <1>2. UNION {Level[n] : n \in 0 .. D - 1} = tree.nodes /\ Level[D] = {}
    BY DEF IsTree
  <1>3. D >= 1
    <2>1. D # 0
      <3>1. Level[0] # {}
        BY <1>1
      <3>2. QED  BY <1>2, <3>1
    <2>2. QED  BY <1>1, <2>1
  <1>4. tree.root \in tree.nodes
    <2>1. 0 \in 0 .. D - 1
      BY <1>1, <1>3
    <2>2. QED  BY <1>1, <1>2, <2>1
  <1>5. ASSUME NEW x \in tree.nodes \ {tree.root}
        PROVE  \E e \in tree.edges : e[2] = x /\ e[1] \in tree.nodes /\ e[1] # e[2]
    <2> DEFINE N == {n \in Nat : n <= D - 1 /\ x \in Level[n]}
    <2>1. N \in SUBSET Nat /\ N # {}
      <3>1. PICK m \in 0 .. D - 1 : x \in Level[m]
        BY <1>2
      <3>2. m \in N
        BY <1>1, <3>1
      <3>3. QED  BY <3>2
    <2>2. PICK n \in N : \A m \in N : ~(m < n)
      <3> HIDE DEF N
      <3>1. QED  BY <2>1, LeastElement
    <2>3. n \in 1 .. D /\ n <= D - 1 /\ x \in Level[n] /\ n # 0
      BY <1>1, <2>2
    <2>4. n - 1 \in 0 .. D - 1 /\ n - 1 \in Nat /\ n - 1 < n
      BY <1>1, <2>3
    <2>5. PICK y \in Level[n - 1] : x \in Children(y)
      <3>1. x \in Below(Level[n - 1])
        BY <1>1, <2>3
      <3>2. QED  BY <3>1 DEF Below
    <2>6. y # x
      <3>1. SUFFICES ASSUME y = x PROVE FALSE
        OBVIOUS
      <3>2. n - 1 \in N
        BY <1>1, <2>3, <2>4, <2>5, <3>1
      <3>3. QED  BY <2>2, <2>4, <3>2
    <2>7. y \in tree.nodes
      BY <1>2, <2>4, <2>5
    <2> DEFINE e == <<y, x>>
    <2>8. e \in tree.edges
      BY <2>5, ChildrenAre
    <2>9. QED  BY <2>6, <2>7, <2>8
  <1>6. QED  BY <1>3, <1>4, <1>5

\* In a tree these are all the edges.
LEMMA TreeEdges ==
  ASSUME AttackTreeAssumption, AttackTreeInv, IsTree
  PROVE  /\ OneWay
         /\ \A e \in tree.edges : e[1] \in tree.nodes /\ e[2] \in tree.nodes /\ e[1] # e[2]
         /\ \A id \in tree.nodes : Incoming(id) = IF id = tree.root THEN 0 ELSE 1
  <1> DEFINE E == tree.edges
             B == tree.nodes \ {tree.root}
             g == [x \in B |-> CHOOSE e \in E : e[2] = x /\ e[1] \in tree.nodes /\ e[1] # e[2]]
  <1>1. tree.root \in tree.nodes
    BY ParentsAre
  <1>2. ASSUME NEW x \in B PROVE g[x] \in E /\ g[x][2] = x /\ g[x][1] \in tree.nodes /\ g[x][1] # g[x][2]
    BY ParentsAre
  <1> HIDE DEF g
  <1>3. g \in Injection(B, E)
    <2>1. g = [x \in B |-> g[x]]
      BY DEF g
    <2>2. g \in [B -> E]
      BY <1>2, <2>1
    <2>3. \A a, b \in B : g[a] = g[b] => a = b
      BY <1>2
    <2> HIDE DEF B, E
    <2>4. QED  BY <2>2, <2>3 DEF Injection, IsInjective
  <1>4. IsFiniteSet(E) /\ IsFiniteSet(B) /\ Cardinality(E) = Cardinality(B)
    BY <1>1, TreeIs, FS_RemoveElement DEF IsTree
  <1>5. \A e \in E : \E x \in B : g[x] = e
    <2>1. g \in Surjection(B, E)
      <3> HIDE DEF B, E
      <3>1. QED  BY <1>3, <1>4, FS_Injection
    <2>2. QED  BY <2>1 DEF Surjection
  <1>6. ASSUME NEW e \in E
        PROVE  e[2] \in B /\ g[e[2]] = e /\ e[1] \in tree.nodes /\ e[1] # e[2]
    <2>1. PICK x \in B : g[x] = e
      BY <1>5
    <2>2. QED  BY <1>2, <2>1
  <1>7. OneWay
    <2>1. ASSUME NEW e \in E, NEW f \in E, f[2] = e[2] PROVE f = e
      BY <1>6, <2>1
    <2>2. QED  BY <1>6, <2>1 DEF OneWay
  <1>8. ASSUME NEW id \in tree.nodes PROVE Incoming(id) = IF id = tree.root THEN 0 ELSE 1
    <2> DEFINE S == {e \in E : e[2] = id}
    <2>1. id = tree.root => S = {}
      BY <1>6
    <2>2. id # tree.root => S = {g[id]}
      BY <1>2, <1>6
    <2>3. Incoming(id) = Cardinality(S)
      BY DEF Incoming
    <2> HIDE DEF S
    <2>4. QED  BY <2>1, <2>2, <2>3, FS_EmptySet, FS_Singleton
  <1>9. QED  BY <1>6, <1>7, <1>8

\* The check accepts every tree of well-formed nodes.
LEMMA TreesAccepted ==
  ASSUME AttackTreeAssumption, AttackTreeInv, ~tree.repeats, IsTree,
         \A id \in tree.nodes : WellFormedNode(id) /\ (tree.kind[id] = "GOAL" <=> id = tree.root)
  PROVE  StructureIsValid
  <1> DEFINE D == MaxTreeDepth
             first == <<tree.root, {}, {}>>
             V == VisitRoot.visited
  <1>1. /\ D \in Nat /\ tree.root \in AttackNodes /\ Level[0] = {tree.root}
        /\ Level \in [0 .. D -> SUBSET AttackNodes]
        /\ \A n \in 1 .. D : n - 1 \in 0 .. D /\ Level[n] = Below(Level[n - 1])
    BY TreeIs, LevelSteps
  <1>2. Some = tree.nodes /\ Level[D] = {} /\ OneWay
    BY TreeEdges DEF IsTree, Some
  <1>3. PICK h \in [0 .. D -> Visits] : VisitsAre(h) /\ VisitRoot = h[D][first]
    <2> HIDE DEF first
    <2>1. PICK h \in [0 .. D -> Visits] :
            /\ \A call \in Visiting : h[0][call] = Visit(FALSE, call[3])
            /\ \A left \in 1 .. D :
                 left - 1 \in 0 .. D /\ \A call \in Visiting : h[left][call] = VisitOne(h[left - 1], call)
            /\ VisitRoot = h[D][first]
      BY VisitLevels DEF first
    <2>2. QED  BY <2>1 DEF VisitsAre
  <1>4. first \in Visiting /\ first[1] = tree.root /\ first[2] = {} /\ first[3] = {}
    BY <1>1 DEF Visiting
  <1>5. D \in 0 .. D /\ D - D = 0 /\ first[1] \in Level[D - D]
    BY <1>1
  <1> HIDE DEF first
  <1>6. V \subseteq tree.nodes
    <2>1. h[D][first].visited \subseteq first[3] \cup Some
      BY <1>3, <1>4, <1>5, VisitedInLevels
    <2>2. QED  BY <1>2, <1>3, <1>4, <2>1
  <1>7. VisitRoot.ok /\ tree.root \in V /\ Closed(V)
    <2>1. Closed(first[3])
      BY <1>4 DEF Closed
    <2>2. \A y \in first[2] : \E m \in 0 .. D - D - 1 : y \in Level[m]
      BY <1>4
    <2>3. h[D][first].ok /\ first[1] \in h[D][first].visited /\ Closed(h[D][first].visited)
      BY <1>2, <1>3, <1>4, <1>5, <2>1, <2>2, VisitsSucceed
    <2>4. QED  BY <1>3, <1>4, <2>3
  <1>8. \A n \in 0 .. D : Level[n] \subseteq V
    <2> DEFINE T == {n \in 0 .. D : Level[n] \subseteq V}
    <2>1. 0 \in T
      BY <1>1, <1>7
    <2>2. ASSUME NEW n \in 1 .. D, n - 1 \in T PROVE n \in T
      <3>1. n \in 0 .. D /\ Level[n] = Below(Level[n - 1])
        BY <1>1
      <3>2. QED  BY <1>7, <2>2, <3>1 DEF Below, Closed
    <2>3. \A n \in 0 .. D : n \in T
      <3> HIDE DEF T, D
      <3>1. QED  BY <1>1, <2>1, <2>2, UpToByInduction
    <2>4. QED  BY <2>3
  <1>9. VisitsAll
    <2>1. 0 .. D - 1 \subseteq 0 .. D
      BY <1>1
    <2>2. Some \subseteq V
      BY <1>8, <2>1 DEF Some
    <2>3. QED  BY <1>2, <1>6, <1>7, <2>2 DEF VisitsAll
  <1>10. QED  BY <1>9, TreeEdges, ParentsAre DEF StructureIsValid

(***************************************************************************)
(* What the leaves decide                                                  *)
(***************************************************************************)
\* What reaches a node also does with more leaves.
LEMMA ReachesMore ==
  ASSUME NEW id, NEW W, NEW V, W \subseteq V, Reaches(id, W)
  PROVE  Reaches(id, V)
  <1>1. PICK S \in SUBSET tree.nodes :
          /\ id \in S
          /\ \A n \in S : CASE tree.operator[n] = "LEAF" -> n \in W
                           [] tree.operator[n] = "AND"  -> Children(n) \subseteq S
                           [] OTHER -> Children(n) \cap S # {}
    BY DEF Reaches
  <1>2. \A n \in S : CASE tree.operator[n] = "LEAF" -> n \in V
                      [] tree.operator[n] = "AND"  -> Children(n) \subseteq S
                      [] OTHER -> Children(n) \cap S # {}
    BY <1>1
  <1>3. QED  BY <1>1, <1>2 DEF Reaches

\* A leaf is reached by itself, and any other node through its children.
LEMMA ReachesIs ==
  ASSUME NEW id \in tree.nodes, NEW W, tree.operator[id] \in {"LEAF", "AND", "OR"}
  PROVE  /\ tree.operator[id] = "LEAF" => (Reaches(id, W) <=> id \in W)
         /\ tree.operator[id] = "AND" => (Reaches(id, W) <=> \A c \in Children(id) : Reaches(c, W))
         /\ tree.operator[id] = "OR" => (Reaches(id, W) <=> \E c \in Children(id) : Reaches(c, W))
  <1> DEFINE Justifies(S, n) == CASE tree.operator[n] = "LEAF" -> n \in W
                                  [] tree.operator[n] = "AND"  -> Children(n) \subseteq S
                                  [] OTHER -> Children(n) \cap S # {}
             Plan(S) == S \in SUBSET tree.nodes /\ \A n \in S : Justifies(S, n)
  <1>1. \A c : Reaches(c, W) <=> \E S : Plan(S) /\ c \in S
    BY DEF Reaches
  <1>2. ASSUME NEW S, NEW V, S \subseteq V, NEW n \in S, Justifies(S, n) PROVE Justifies(V, n)
    BY <1>2
  <1>3. CASE tree.operator[id] = "LEAF"
    <2>1. Reaches(id, W) => id \in W
      BY <1>1, <1>3
    <2>2. id \in W => Plan({id})
      BY <1>3
    <2>3. QED  BY <1>1, <1>3, <2>1, <2>2
  <1>4. CASE tree.operator[id] = "AND"
    <2>1. ASSUME Reaches(id, W), NEW c \in Children(id) PROVE Reaches(c, W)
      <3>1. PICK S : Plan(S) /\ id \in S
        BY <1>1, <2>1
      <3>2. Justifies(S, id)
        BY <3>1
      <3>3. c \in S
        BY <1>4, <3>2
      <3> HIDE DEF Plan
      <3>4. QED  BY <1>1, <3>1, <3>3
    <2>2. ASSUME \A c \in Children(id) : Reaches(c, W) PROVE Reaches(id, W)
      <3> DEFINE S == {n \in tree.nodes : Reaches(n, W)} \cup {id}
      <3>1. S \in SUBSET tree.nodes /\ id \in S
        OBVIOUS
      <3>2. ASSUME NEW n \in tree.nodes, Reaches(n, W) PROVE Justifies(S, n)
        <4>1. PICK P : Plan(P) /\ n \in P
          <5> HIDE DEF Plan
          <5>1. QED  BY <1>1, <3>2
        <4>2. P \subseteq S
          <5>1. \A m \in P : m \in tree.nodes /\ Reaches(m, W)
            BY <1>1, <4>1
          <5>2. QED  BY <5>1
        <4>3. Justifies(P, n)
          BY <4>1
        <4> HIDE DEF S, Justifies
        <4>4. QED  BY <1>2, <4>1, <4>2, <4>3
      <3>3. Justifies(S, id)
        <4>1. \A c \in Children(id) : c \in tree.nodes
          <5>1. \A c \in Children(id) : \E P : Plan(P) /\ c \in P
            <6> HIDE DEF Plan
            <6>1. QED  BY <1>1, <2>2
          <5>2. QED  BY <5>1
        <4>2. Children(id) \subseteq S
          BY <2>2, <4>1
        <4> HIDE DEF S
        <4>3. QED  BY <1>4, <4>2
      <3>4. Plan(S)
        <4>1. \A n \in S : Justifies(S, n)
          <5>1. \A n \in S : n = id \/ (n \in tree.nodes /\ Reaches(n, W))
            OBVIOUS
          <5> HIDE DEF S, Justifies
          <5>2. QED  BY <3>2, <3>3, <5>1
        <4> HIDE DEF S, Justifies
        <4>2. QED  BY <3>1, <4>1
      <3> HIDE DEF S, Plan
      <3>5. QED  BY <1>1, <3>1, <3>4
    <2>3. QED  BY <1>4, <2>1, <2>2
  <1>5. CASE tree.operator[id] = "OR"
    <2>1. ASSUME Reaches(id, W) PROVE \E c \in Children(id) : Reaches(c, W)
      <3>1. PICK S : Plan(S) /\ id \in S
        BY <1>1, <2>1
      <3>2. Justifies(S, id)
        BY <3>1
      <3>3. Children(id) \cap S # {}
        BY <1>5, <3>2
      <3> HIDE DEF Plan
      <3>4. QED  BY <1>1, <3>1, <3>3
    <2>2. ASSUME NEW c \in Children(id), Reaches(c, W) PROVE Reaches(id, W)
      <3>1. PICK P : Plan(P) /\ c \in P
        <4> HIDE DEF Plan
        <4>1. QED  BY <1>1, <2>2
      <3> DEFINE S == P \cup {id}
      <3>2. S \in SUBSET tree.nodes /\ id \in S /\ P \subseteq S
        BY <3>1
      <3>3. Justifies(S, id)
        <4>1. c \in Children(id) \cap S
          BY <3>1
        <4> HIDE DEF S
        <4>2. QED  BY <1>5, <4>1
      <3>4. \A n \in P : Justifies(S, n)
        <4>1. \A n \in P : Justifies(P, n)
          BY <3>1
        <4> HIDE DEF S, Justifies
        <4>2. QED  BY <1>2, <3>2, <4>1
      <3>5. Plan(S)
        <4> HIDE DEF Justifies
        <4>1. QED  BY <3>2, <3>3, <3>4
      <3> HIDE DEF S, Plan
      <3>6. QED  BY <1>1, <3>2, <3>5
    <2>3. QED  BY <1>5, <2>1, <2>2
  <1>6. QED  BY <1>3, <1>4, <1>5

\* The nodes below a node and the node itself.
Under(id) == {x \in AttackNodes : \A S \in SUBSET AttackNodes : id \in S /\ Closed(S) => x \in S}

\* The leaves under a node are it, or those under its children.
LEMMA UnderIs ==
  ASSUME AttackTreeAssumption, AttackTreeInv, NEW id \in AttackNodes
  PROVE  /\ id \in Under(id) /\ Closed(Under(id)) /\ Under(id) \in SUBSET AttackNodes
         /\ \A S \in SUBSET AttackNodes : id \in S /\ Closed(S) => Under(id) \subseteq S
         /\ \A c \in Children(id) : Under(c) \subseteq Under(id)
  <1>1. id \in Under(id) /\ Under(id) \in SUBSET AttackNodes
    BY DEF Under
  <1>2. \A S \in SUBSET AttackNodes : id \in S /\ Closed(S) => Under(id) \subseteq S
    BY DEF Under
  <1>3. Closed(Under(id))
    <2>1. ASSUME NEW y \in Under(id), NEW c \in Children(y) PROVE c \in Under(id)
      <3>1. c \in AttackNodes
        BY ChildrenAre
      <3>2. ASSUME NEW S \in SUBSET AttackNodes, id \in S, Closed(S) PROVE c \in S
        BY <1>2, <3>2 DEF Closed
      <3>3. QED  BY <3>1, <3>2 DEF Under
    <2>2. QED  BY <2>1 DEF Closed
  <1>4. \A c \in Children(id) : Under(c) \subseteq Under(id)
    <2>1. ASSUME NEW c \in Children(id) PROVE Under(c) \subseteq Under(id)
      <3>1. c \in Under(id)
        BY <1>1, <1>3 DEF Closed
      <3> DEFINE S == Under(id)
      <3>2. S \in SUBSET AttackNodes /\ c \in S /\ Closed(S)
        BY <1>1, <1>3, <3>1
      <3> HIDE DEF S
      <3>3. \A x \in Under(c) : x \in S
        BY <3>2 DEF Under
      <3>4. QED  BY <3>3 DEF S
    <2>2. QED  BY <2>1
  <1>5. QED  BY <1>1, <1>2, <1>3, <1>4

\* Siblings have no node below them in common.
LEMMA SiblingsApart ==
  ASSUME AttackTreeAssumption, AttackTreeInv, OneWay, Level[MaxTreeDepth] = {},
         NEW left \in 1 .. MaxTreeDepth, NEW id \in Level[MaxTreeDepth - left],
         NEW c \in Children(id), NEW d \in Children(id), c # d
  PROVE  Under(c) \cap Under(d) = {}
  <1> DEFINE D == MaxTreeDepth
             m == D - left
             Deep == UNION {Level[n] : n \in m + 1 .. D}
  <1>1. /\ D \in Nat
        /\ Level \in [0 .. D -> SUBSET AttackNodes]
        /\ \A n \in 1 .. D : n - 1 \in 0 .. D /\ Level[n] = Below(Level[n - 1])
    BY TreeIs, LevelSteps
  <1>2. m \in 0 .. D /\ m + 1 \in m + 1 .. D /\ D - (left - 1) = m + 1
    BY <1>1
  <1>3. \A x \in Children(id) : x \in Deep /\ x \in AttackNodes
    <2>1. \A x \in Children(id) : x \in Level[m + 1] /\ x \in AttackNodes
      <3>1. \A x \in Children(id) : x \in Level[D - (left - 1)] /\ x \in AttackNodes
        BY LevelBelow
      <3>2. QED  BY <1>2, <3>1
    <2> HIDE DEF m
    <2>2. QED  BY <1>2, <2>1
  <1>4. Deep \in SUBSET AttackNodes /\ id \notin Deep
    <2>1. \A n \in m + 1 .. D : n \in 0 .. D /\ n # m
      BY <1>2
    <2> HIDE DEF m, D
    <2>2. Deep \in SUBSET AttackNodes
      BY <1>1, <2>1
    <2>3. \A n \in m + 1 .. D : Level[m] \cap Level[n] = {}
      BY <1>2, <2>1, LevelsDisjoint DEF D
    <2>4. id \in Level[m]
      BY DEF m, D
    <2>5. QED  BY <2>2, <2>3, <2>4
  <1>5. Closed(Deep)
    <2>1. ASSUME NEW y \in Deep, NEW x \in Children(y) PROVE x \in Deep
      <3>1. PICK n \in m + 1 .. D : y \in Level[n]
        OBVIOUS
      <3>2. n # D /\ n \in 0 .. D
        BY <1>2, <3>1
      <3>3. n + 1 \in 1 .. D /\ n + 1 \in m + 1 .. D /\ (n + 1) - 1 = n
        BY <1>1, <1>2, <3>2
      <3>4. Level[n + 1] = Below(Level[n])
        <4> DEFINE k == n + 1
        <4>1. k \in 1 .. D /\ k - 1 = n
          BY <3>3
        <4> HIDE DEF k, D
        <4>2. Level[k] = Below(Level[k - 1])
          BY <1>1, <4>1
        <4>3. QED  BY <4>1, <4>2 DEF k
      <3>5. x \in Level[n + 1]
        BY <3>1, <3>4 DEF Below
      <3>6. QED  BY <3>3, <3>5
    <2>2. QED  BY <2>1 DEF Closed
  <1> HIDE DEF Deep
  <1>6. ASSUME NEW x \in Children(id) PROVE Under(x) \subseteq Deep /\ id \notin Under(x)
    BY <1>3, <1>4, <1>5, UnderIs
  \* A node under x has x or another node under x above it.
  <1>7. ASSUME NEW x \in Children(id), NEW z \in Under(x), NEW y, z \in Children(y)
        PROVE  z = x \/ y \in Under(x)
    <2>1. SUFFICES ASSUME z # x, y \notin Under(x) PROVE FALSE
      OBVIOUS
    <2> DEFINE S == Under(x) \ {z}
    <2>2. x \in AttackNodes /\ x \in Under(x) /\ Closed(Under(x)) /\ Under(x) \in SUBSET AttackNodes
      BY <1>3, UnderIs
    <2>3. Closed(S)
      <3>1. ASSUME NEW w \in S, NEW u \in Children(w) PROVE u \in S
        <4>1. u \in Under(x)
          BY <2>2 DEF Closed
        <4>2. u # z
          <5>1. SUFFICES ASSUME u = z PROVE FALSE
            OBVIOUS
          <5> DEFINE e == <<w, z>>
                     f == <<y, z>>
          <5>2. e \in tree.edges /\ f \in tree.edges /\ e[2] = f[2]
            BY <1>7, <3>1, <5>1, ChildrenAre
          <5> HIDE DEF e, f
          <5>3. f = e
            BY <5>2 DEF OneWay
          <5>4. w = y
            BY <5>3 DEF e, f
          <5>5. QED  BY <2>1, <3>1, <5>4
        <4>3. QED  BY <4>1, <4>2
      <3>2. QED  BY <3>1 DEF Closed
    <2>4. x \in S /\ S \in SUBSET AttackNodes
      BY <2>1, <2>2
    <2>5. Under(x) \subseteq S
      <3> HIDE DEF S
      <3>1. QED  BY <2>2, <2>3, <2>4, UnderIs
    <2>6. QED  BY <1>7, <2>5
  <1>8. c \notin Under(d)
    BY <1>6, <1>7
  <1> DEFINE S == Under(c) \ Under(d)
  <1>9. c \in S /\ S \in SUBSET AttackNodes
    BY <1>3, <1>8, UnderIs
  <1>10. Closed(S)
    <2>1. ASSUME NEW y \in S, NEW z \in Children(y) PROVE z \in S
      <3>1. z \in Under(c)
        BY <1>3, UnderIs DEF Closed
      <3>2. z \notin Under(d)
        <4>1. SUFFICES ASSUME z \in Under(d) PROVE FALSE
          OBVIOUS
        <4>2. z = d
          BY <1>7, <2>1, <4>1
        <4>3. y = id
          <5> DEFINE e == <<y, d>>
                     f == <<id, d>>
          <5>1. e \in tree.edges /\ f \in tree.edges /\ e[2] = f[2]
            BY <2>1, <4>2, ChildrenAre
          <5> HIDE DEF e, f
          <5>2. f = e
            BY <5>1 DEF OneWay
          <5>3. QED  BY <5>2 DEF e, f
        <4>4. QED  BY <1>6, <4>3
      <3>3. QED  BY <3>1, <3>2
    <2>2. QED  BY <2>1 DEF Closed
  <1>11. Under(c) \subseteq S
    <2> HIDE DEF S
    <2>1. QED  BY <1>3, <1>9, <1>10, UnderIs
  <1>12. QED  BY <1>11

(***************************************************************************)
(* Attempts                                                                *)
(***************************************************************************)
\* Outcomes of attempts, and the attempts of one level.
Results == [ok : BOOLEAN, path : Seq(AttackNodes), tried : Seq(AttackNodes), at : Nat]
Tries == [AttackNodes \X Nat -> Results]

\* Trying the children of a node.
TryChildren(v, id, at) ==
  FoldLeft(LAMBDA q, c : IF q.ok # (tree.operator[id] = "AND") THEN q
                         ELSE With(q, v[<<c, q.at>>], tree.operator[id] = "AND"),
           Outcome(tree.operator[id] = "AND", << >>, << >>, at), InOrder(Children(id)))

\* One more child of two results.
LEMMA WithIs ==
  ASSUME NEW q \in Results, NEW one \in Results, NEW all \in BOOLEAN
  PROVE  With(q, one, all) \in Results
  <1>1. q.path \o one.path \in Seq(AttackNodes) /\ q.tried \o one.tried \in Seq(AttackNodes) /\ << >> \in Seq(AttackNodes)
    <2>1. q.path \in Seq(AttackNodes) /\ one.path \in Seq(AttackNodes)
      BY DEF Results
    <2>2. q.tried \in Seq(AttackNodes) /\ one.tried \in Seq(AttackNodes)
      BY DEF Results
    <2> DEFINE p == q.path
               o == one.path
               t == q.tried
               u == one.tried
    <2> HIDE DEF p, o, t, u
    <2>3. p \o o \in Seq(AttackNodes)
      BY <2>1 DEF p, o
    <2>4. t \o u \in Seq(AttackNodes)
      BY <2>2 DEF t, u
    <2>5. << >> \in Seq(AttackNodes)
      OBVIOUS
    <2>6. QED  BY <2>3, <2>4, <2>5 DEF p, o, t, u
  <1> DEFINE p == q.path \o one.path
             t == q.tried \o one.tried
             e == << >>
  <1> HIDE DEF p, t, e
  <1>2. (IF ~one.ok THEN e ELSE IF all THEN p ELSE one.path) \in Seq(AttackNodes)
    BY <1>1 DEF p, e, Results
  <1> DEFINE x == IF ~one.ok THEN e ELSE IF all THEN p ELSE one.path
  <1> HIDE DEF x
  <1>3. Outcome(one.ok, x, t, one.at) \in Results
    BY <1>1, <1>2 DEF Outcome, Results, x, t
  <1>4. QED  BY <1>3 DEF With, x, p, t, e

\* The outcomes of attempts on children, one after the other, until one decides.
ChildSteps(pre, s, all, v, at) ==
  /\ pre[0] = Outcome(all, << >>, << >>, at)
  /\ \A k \in 1 .. Len(s) :
       pre[k] = IF pre[k - 1].ok # all THEN pre[k - 1] ELSE With(pre[k - 1], v[<<s[k], pre[k - 1].at>>], all)

\* Trying children goes from child to child.
LEMMA TryChildrenSteps ==
  ASSUME AttackTreeAssumption, AttackTreeInv, NEW v \in Tries, NEW id \in AttackNodes, NEW at \in Nat,
         NEW s, s = InOrder(Children(id)), NEW all, all = (tree.operator[id] = "AND")
  PROVE  \E pre \in [0 .. Len(s) -> Results] :
           ChildSteps(pre, s, all, v, at) /\ TryChildren(v, id, at) = pre[Len(s)]
  <1> DEFINE n == Len(s)
             start == Outcome(all, << >>, << >>, at)
             R == Results
             Op(r, c) == IF r.ok # all THEN r ELSE With(r, v[<<c, r.at>>], all)
             g == [c \in R \X (1 .. n) |-> Op(c[1], s[c[2]])]
             Iter(h) == h = [U \in SUBSET DOMAIN s |-> IF U = {} THEN start ELSE Op(h[U \ {Max(U)}], s[Max(U)])]
             iter == CHOOSE f : Iter(f)
             pre == [k \in 0 .. n |-> iter[1 .. k]]
             Good == {k \in Nat : pre[k] \in R}
  <1>1. s \in Seq(AttackNodes) /\ n \in Nat /\ DOMAIN s = 1 .. n /\ \A k \in 1 .. n : s[k] \in AttackNodes
    <2>1. s \in Seq(AttackNodes)
      BY ChildrenAre
    <2>2. QED  BY <2>1
  <1>2. all \in BOOLEAN
    OBVIOUS
  <1>3. start \in R
    <2>1. << >> \in Seq(AttackNodes)
      OBVIOUS
    <2> DEFINE e == << >>
    <2> HIDE DEF e
    <2>2. e \in Seq(AttackNodes)
      BY <2>1 DEF e
    <2>3. Outcome(all, e, e, at) \in Results
      BY <1>2, <2>2 DEF Outcome, Results
    <2>4. QED  BY <2>3 DEF e
  <1>4. ASSUME NEW r \in R, NEW c \in AttackNodes PROVE Op(r, c) \in R
    <2>1. r.at \in Nat
      BY DEF Results
    <2>2. v[<<c, r.at>>] \in R
      BY <2>1 DEF Tries
    <2>3. QED  BY <1>2, <2>2, WithIs
  <1>5. g \in [R \X (1 .. n) -> R]
    <2> HIDE DEF Op, R
    <2>1. QED  BY <1>1, <1>4
  <1>6. PICK h \in [SUBSET (1 .. n) -> R] : FoldRecursion(h, n, start, g)
    <2> HIDE DEF R, g, n, start
    <2>1. QED  BY <1>1, <1>3, <1>5, FoldSteps
  <1>7. Iter(h)
    <2>1. ASSUME NEW U \in SUBSET (1 .. n)
          PROVE  h[U] = IF U = {} THEN start ELSE Op(h[U \ {Max(U)}], s[Max(U)])
      <3>1. CASE U # {}
        <4>1. Max(U) \in 1 .. n /\ U \ {Max(U)} \in SUBSET (1 .. n)
          BY <1>1, <3>1, MaxOfNumbers
        <4>2. h[U] = g[<<h[U \ {Max(U)}], Max(U)>>] /\ h[U \ {Max(U)}] \in R
          <5> HIDE DEF g, R, n, start
          <5>1. QED  BY <1>6, <3>1, <4>1 DEF FoldRecursion
        <4> HIDE DEF Op, R
        <4>3. QED  BY <3>1, <4>1, <4>2
      <3>2. QED  BY <1>6, <3>1 DEF FoldRecursion
    <2> HIDE DEF Op, start
    <2>2. QED  BY <1>1, <2>1
  <1>8. Iter(iter)
    <2> HIDE DEF Iter
    <2>1. QED  BY <1>7
  <1>9. TryChildren(v, id, at) = iter[DOMAIN s]
    BY DEF TryChildren, FoldLeft, MapThenFoldSet
  <1> HIDE DEF iter
  <1>10. ASSUME NEW k \in 1 .. n PROVE pre[k] = Op(pre[k - 1], s[k])
    <2>1. iter[1 .. k] = Op(iter[1 .. k - 1], s[k])
      <3>1. 1 .. k \in SUBSET DOMAIN s /\ k \in Nat /\ k # 0
        BY <1>1
      <3>2. Max(1 .. k) = k /\ (1 .. k) \ {k} = 1 .. k - 1 /\ 1 .. k # {}
        BY <3>1, LastOfFirst
      <3> HIDE DEF Op
      <3>3. iter[1 .. k] = Op(iter[(1 .. k) \ {Max(1 .. k)}], s[Max(1 .. k)])
        BY <1>8, <3>1, <3>2
      <3>4. QED  BY <3>2, <3>3
    <2>2. pre[k] = iter[1 .. k] /\ pre[k - 1] = iter[1 .. k - 1]
      <3>1. k \in 0 .. n /\ k - 1 \in 0 .. n
        BY <1>1
      <3>2. QED  BY <3>1
    <2> HIDE DEF pre, Op
    <2>3. QED  BY <2>1, <2>2
  <1>11. pre[0] = start
    <2>1. 1 .. 0 = {} /\ {} \in SUBSET DOMAIN s
      OBVIOUS
    <2> HIDE DEF Op, start
    <2>2. QED  BY <1>1, <1>8, <2>1
  <1>12. \A k \in 0 .. n : k \in Good
    <2> HIDE DEF pre, R, Op
    <2>1. 0 \in Good
      BY <1>3, <1>11
    <2>2. ASSUME NEW k \in 1 .. n, k - 1 \in Good PROVE k \in Good
      <3>1. pre[k - 1] \in R /\ s[k] \in AttackNodes /\ k \in Nat
        BY <1>1, <2>2
      <3>2. Op(pre[k - 1], s[k]) \in R
        BY <1>4, <3>1
      <3>3. QED  BY <1>10, <3>1, <3>2
    <2> HIDE DEF Good, n
    <2>3. QED  BY <1>1, <2>1, <2>2, UpToByInduction
  <1>13. pre \in [0 .. n -> R]
    <2>1. pre = [k \in 0 .. n |-> pre[k]]
      OBVIOUS
    <2> HIDE DEF pre, R
    <2>2. QED  BY <1>12, <2>1
  <1>14. TryChildren(v, id, at) = pre[n]
    BY <1>1, <1>9
  <1> HIDE DEF pre
  <1>15. ChildSteps(pre, s, all, v, at)
    <2> HIDE DEF R, iter
    <2>1. QED  BY <1>10, <1>11 DEF ChildSteps
  <1>16. QED  BY <1>13, <1>14, <1>15

\* An attempt on a node where a level is left, with those of the level below.
AttemptOne(v, controlled, id, at) ==
  IF id \notin tree.nodes THEN Outcome(FALSE, << >>, << >>, at)
  ELSE IF tree.operator[id] = "LEAF" THEN
    Outcome(Bernoulli(at, SuccessProbability(id, controlled)),
            IF Bernoulli(at, SuccessProbability(id, controlled)) THEN <<id>> ELSE << >>, <<id>>, at + 1)
  ELSE Outcome(TryChildren(v, id, at).ok /\ (tree.operator[id] = "AND" => TryChildren(v, id, at).path # << >>),
               TryChildren(v, id, at).path, TryChildren(v, id, at).tried, TryChildren(v, id, at).at)

\* An attempt on a node has an outcome.
LEMMA AttemptOneIs ==
  ASSUME AttackTreeAssumption, AttackTreeInv, NEW v \in Tries, NEW controlled, NEW id \in AttackNodes, NEW at \in Nat
  PROVE  AttemptOne(v, controlled, id, at) \in Results
  <1> DEFINE e == << >>
             one == <<id>>
  <1>1. e \in Seq(AttackNodes) /\ one \in Seq(AttackNodes) /\ at + 1 \in Nat
    OBVIOUS
  <1> HIDE DEF e, one
  <1>2. ASSUME NEW ok \in BOOLEAN, NEW p \in Seq(AttackNodes), NEW t \in Seq(AttackNodes), NEW n \in Nat
        PROVE  Outcome(ok, p, t, n) \in Results
    BY DEF Outcome, Results
  <1>3. CASE id \notin tree.nodes
    <2>1. AttemptOne(v, controlled, id, at) = Outcome(FALSE, e, e, at)
      BY <1>3 DEF AttemptOne, e
    <2>2. QED  BY <1>1, <1>2, <2>1
  <1>4. CASE id \in tree.nodes /\ tree.operator[id] = "LEAF"
    <2> DEFINE ok == Bernoulli(at, SuccessProbability(id, controlled))
    <2>1. ok \in BOOLEAN
      BY DEF Bernoulli
    <2>2. AttemptOne(v, controlled, id, at) = Outcome(ok, IF ok THEN one ELSE e, one, at + 1)
      BY <1>4 DEF AttemptOne, e, one
    <2> HIDE DEF ok
    <2>3. (IF ok THEN one ELSE e) \in Seq(AttackNodes)
      BY <1>1
    <2>4. QED  BY <1>1, <1>2, <2>1, <2>2, <2>3
  <1>5. CASE id \in tree.nodes /\ tree.operator[id] # "LEAF"
    <2> DEFINE r == TryChildren(v, id, at)
               s == InOrder(Children(id))
               all == tree.operator[id] = "AND"
               ok == r.ok /\ (all => r.path # << >>)
    <2>1. r \in Results
      <3>1. Len(s) \in Nat
        <4>1. s \in Seq(AttackNodes)
          BY ChildrenAre
        <4> HIDE DEF s
        <4>2. QED  BY <4>1
      <3> HIDE DEF s, r, all
      <3>2. PICK pre \in [0 .. Len(s) -> Results] : r = pre[Len(s)]
        <4>1. s = InOrder(Children(id)) /\ all = (tree.operator[id] = "AND") /\ r = TryChildren(v, id, at)
          BY DEF s, r, all
        <4>2. \E pre \in [0 .. Len(s) -> Results] :
                ChildSteps(pre, s, all, v, at) /\ TryChildren(v, id, at) = pre[Len(s)]
          BY <4>1, TryChildrenSteps
        <4>3. QED  BY <4>1, <4>2
      <3>3. QED  BY <3>1, <3>2
    <2>2. AttemptOne(v, controlled, id, at) = Outcome(ok, r.path, r.tried, r.at)
      BY <1>5 DEF AttemptOne
    <2>3. ok \in BOOLEAN
      OBVIOUS
    <2> HIDE DEF r, ok
    <2>4. r.path \in Seq(AttackNodes) /\ r.tried \in Seq(AttackNodes) /\ r.at \in Nat
      BY <2>1 DEF Results
    <2>5. QED  BY <1>2, <2>2, <2>3, <2>4
  <1>6. QED  BY <1>3, <1>4, <1>5

\* Attempts, level by level.
AttemptsAre(h, controlled) ==
  \A left \in 1 .. MaxTreeDepth + 1 :
    /\ left - 1 \in 0 .. MaxTreeDepth + 1
    /\ \A call \in AttackNodes \X Nat : h[left][call] = AttemptOne(h[left - 1], controlled, call[1], call[2])

\* An attempt is one on the root with all levels left.
LEMMA AttemptLevels ==
  ASSUME AttackTreeAssumption, AttackTreeInv, NEW root \in AttackNodes, NEW controlled, NEW start \in Nat
  PROVE  \E h \in [0 .. MaxTreeDepth + 1 -> Tries] :
           AttemptsAre(h, controlled) /\ Attempt(root, controlled, start) = h[MaxTreeDepth + 1][<<root, start>>]
  <1> DEFINE N == MaxTreeDepth + 1
             Args == AttackNodes \X Nat
             One(v, call) == AttemptOne(v, controlled, call[1], call[2])
             Step(v) == [call \in Args |-> One(v, call)]
             base == [call \in Args |-> Outcome(FALSE, << >>, << >>, call[2])]
             g == [c \in Tries \X (1 .. N) |-> Step(c[1])]
             Body(v, left, call) ==
               IF call[1] \notin tree.nodes \/ left = 0 THEN Outcome(FALSE, << >>, << >>, call[2])
               ELSE IF tree.operator[call[1]] = "LEAF" THEN
                 Outcome(Bernoulli(call[2], SuccessProbability(call[1], controlled)),
                   IF Bernoulli(call[2], SuccessProbability(call[1], controlled)) THEN <<call[1]>> ELSE << >>,
                   <<call[1]>>, call[2] + 1)
               ELSE Outcome(/\ TryChildren(v[left - 1], call[1], call[2]).ok
                            /\ (tree.operator[call[1]] = "AND" => TryChildren(v[left - 1], call[1], call[2]).path # << >>),
                            TryChildren(v[left - 1], call[1], call[2]).path,
                            TryChildren(v[left - 1], call[1], call[2]).tried,
                            TryChildren(v[left - 1], call[1], call[2]).at)
             Iter(v) == v = [left \in 0 .. MaxTreeDepth + 1 |-> [call \in Args |-> Body(v, left, call)]]
             attempt == CHOOSE v : Iter(v)
  <1>1. N \in Nat
    BY TreeIs
  <1>2. \A call \in Args : call[1] \in AttackNodes /\ call[2] \in Nat
    OBVIOUS
  <1>4. base \in Tries
    <2> DEFINE e == << >>
    <2>1. e \in Seq(AttackNodes)
      OBVIOUS
    <2> HIDE DEF e
    <2>2. \A call \in Args : Outcome(FALSE, e, e, call[2]) \in Results
      BY <1>2, <2>1 DEF Outcome, Results
    <2>3. \A call \in Args : Outcome(FALSE, << >>, << >>, call[2]) \in Results
      BY <2>2 DEF e
    <2>4. QED  BY <2>3 DEF Tries
  <1>6. \A v \in Tries : Step(v) \in Tries
    <2>1. \A v \in Tries : \A call \in Args : One(v, call) \in Results
      BY <1>2, AttemptOneIs
    <2> HIDE DEF One
    <2>2. QED  BY <2>1 DEF Tries
  <1>7. g \in [Tries \X (1 .. N) -> Tries]
    <2> HIDE DEF Step
    <2>1. QED  BY <1>6
  <1>8. PICK h \in [0 .. N -> Tries] : NumberRecursion(h, N, base, g)
    <2> HIDE DEF N, g, base
    <2>1. QED  BY <1>1, <1>4, <1>7, NumberSteps
  <1>9. h[0] = base /\ \A left \in 1 .. N : left - 1 \in 0 .. N /\ h[left] = Step(h[left - 1])
    <2>1. ASSUME NEW left \in 1 .. N PROVE left - 1 \in 0 .. N /\ h[left] = Step(h[left - 1])
      <3>1. left - 1 \in 0 .. N /\ h[left - 1] \in Tries
        BY <1>1
      <3>2. h[left] = g[<<h[left - 1], left>>]
        <4> HIDE DEF g, N, base
        <4>1. QED  BY <1>8 DEF NumberRecursion
      <3> HIDE DEF Step, N
      <3>3. QED  BY <3>1, <3>2
    <2>2. h[0] = base
      BY <1>8 DEF NumberRecursion
    <2>3. QED  BY <2>1, <2>2
  <1>10. Iter(h)
    <2>1. ASSUME NEW left \in 0 .. N
          PROVE  h[left] = [call \in Args |-> Body(h, left, call)]
      <3>1. CASE left = 0
        BY <1>9, <3>1
      <3>2. CASE left # 0
        <4>1. left \in 1 .. N
          BY <3>2
        <4>2. h[left] = Step(h[left - 1])
          <5> HIDE DEF Step, N
          <5>1. QED  BY <1>9, <4>1
        <4>3. \A call \in Args : One(h[left - 1], call) = Body(h, left, call)
          BY <3>2 DEF AttemptOne
        <4> HIDE DEF One, Body
        <4>4. QED  BY <4>2, <4>3
      <3>3. QED  BY <3>1, <3>2
    <2>2. h = [left \in 0 .. N |-> h[left]]
      <3> HIDE DEF N
      <3>1. QED  OBVIOUS
    <2> HIDE DEF Body
    <2>3. QED  BY <2>1, <2>2
  <1>11. Iter(attempt)
    <2> HIDE DEF Iter
    <2>1. QED  BY <1>10
  <1> DEFINE first == <<root, start>>
  <1>12. Attempt(root, controlled, start) = attempt[N][first]
    BY DEF Attempt, TryChildren
  <1> HIDE DEF attempt
  <1> DEFINE Same == {k \in Nat : attempt[k] = h[k]}
  <1>13. 0 \in Same
    <2>1. attempt[0] = base
      <3>1. 0 \in 0 .. N
        BY <1>1
      <3>2. QED  BY <1>11, <3>1
    <2> HIDE DEF base
    <2>2. QED  BY <1>9, <2>1
  <1>14. ASSUME NEW k \in 1 .. N, k - 1 \in Same PROVE k \in Same
    <2>1. attempt[k] = Step(attempt[k - 1])
      <3>1. k \in 0 .. N /\ k # 0
        BY <1>1
      <3>2. \A call \in Args : One(attempt[k - 1], call) = Body(attempt, k, call)
        BY <3>1 DEF AttemptOne
      <3> HIDE DEF One, Body, Args
      <3>3. attempt[k] = [call \in Args |-> Body(attempt, k, call)]
        BY <1>11, <3>1
      <3>4. QED  BY <3>2, <3>3
    <2> HIDE DEF Step
    <2>2. k \in Nat
      BY <1>1
    <2>3. QED  BY <1>9, <1>14, <2>1, <2>2
  <1>15. attempt[N] = h[N]
    <2> HIDE DEF Same, N
    <2>1. \A k \in 0 .. N : k \in Same
      BY <1>1, <1>13, <1>14, UpToByInduction
    <2>2. N \in 0 .. N
      BY <1>1
    <2>3. QED  BY <2>1, <2>2 DEF Same
  <1>16. AttemptsAre(h, controlled)
    <2> HIDE DEF N
    <2>1. ASSUME NEW left \in 1 .. N, NEW call \in Args PROVE h[left][call] = One(h[left - 1], call)
      <3>1. h[left] = [c \in Args |-> One(h[left - 1], c)]
        BY <1>9
      <3> HIDE DEF One, Args
      <3>2. QED  BY <3>1
    <2>2. \A left \in 1 .. N : left - 1 \in 0 .. N
      BY <1>9
    <2>3. QED  BY <2>1, <2>2 DEF AttemptsAre, N
  <1>17. Attempt(root, controlled, start) = h[N][first]
    <2> HIDE DEF first, N
    <2>1. QED  BY <1>12, <1>15
  <1>18. QED  BY <1>16, <1>17

\* The leaves of a list of tries from a random number on that succeed, and the others.
Succeeds(t, at, controlled, n) == Bernoulli(at + n - 1, SuccessProbability(t[n], controlled))
Hits(t, at, controlled) == {t[i] : i \in {n \in 1 .. Len(t) : Succeeds(t, at, controlled, n)}}
Misses(t, at, controlled) == {t[i] : i \in {n \in 1 .. Len(t) : ~Succeeds(t, at, controlled, n)}}

\* Leaves that succeeded and failed, of two attempts after one another.
LEMMA HitsOfConcat ==
  ASSUME NEW X, NEW t \in Seq(X), NEW u \in Seq(X), NEW at \in Nat, NEW controlled
  PROVE  /\ Hits(t \o u, at, controlled) = Hits(t, at, controlled) \cup Hits(u, at + Len(t), controlled)
         /\ Misses(t \o u, at, controlled) = Misses(t, at, controlled) \cup Misses(u, at + Len(t), controlled)
  <1> DEFINE m == Len(t)
             n == Len(u)
             w == t \o u
  <1>1. m \in Nat /\ n \in Nat /\ Len(w) = m + n
    OBVIOUS
  <1>2. /\ \A i \in 1 .. m : w[i] = t[i] /\ i \in 1 .. m + n
        /\ \A i \in 1 .. n : w[m + i] = u[i] /\ m + i \in 1 .. m + n
        /\ \A i \in 1 .. m + n : i \in 1 .. m \/ \E j \in 1 .. n : i = m + j
    <2>1. \A i \in 1 .. m : w[i] = t[i] /\ i \in 1 .. m + n
      BY <1>1
    <2>2. \A i \in 1 .. n : w[m + i] = u[i] /\ m + i \in 1 .. m + n
      BY <1>1
    <2>3. ASSUME NEW i \in 1 .. m + n PROVE i \in 1 .. m \/ \E j \in 1 .. n : i = m + j
      <3>1. CASE i <= m
        BY <1>1, <3>1
      <3>2. CASE i > m
        <4>1. i - m \in 1 .. n /\ i = m + (i - m)
          BY <1>1, <3>2
        <4>2. QED  BY <4>1
      <3>3. QED  BY <1>1, <3>1, <3>2
    <2>4. QED  BY <2>1, <2>2, <2>3
  <1>3. ASSUME NEW i \in 1 .. n PROVE at + (m + i) - 1 = (at + m) + i - 1
    BY <1>1
  <1> HIDE DEF m, n, w
  <1>4. \A i \in 1 .. m : Succeeds(w, at, controlled, i) = Succeeds(t, at, controlled, i)
    BY <1>2 DEF Succeeds
  <1>5. \A i \in 1 .. n : Succeeds(w, at, controlled, m + i) = Succeeds(u, at + m, controlled, i)
    BY <1>2, <1>3 DEF Succeeds
  <1>6. Hits(w, at, controlled) = Hits(t, at, controlled) \cup Hits(u, at + m, controlled)
    <2> DEFINE G == {i \in 1 .. m + n : Succeeds(w, at, controlled, i)}
               H == {i \in 1 .. m : Succeeds(t, at, controlled, i)}
               K == {i \in 1 .. n : Succeeds(u, at + m, controlled, i)}
    <2>1. /\ \A i \in H : i \in G /\ w[i] = t[i]
          /\ \A i \in K : m + i \in G /\ w[m + i] = u[i]
          /\ \A i \in G : i \in H \/ \E j \in K : i = m + j
      BY <1>2, <1>4, <1>5
    <2> HIDE DEF G, H, K
    <2>2. {w[i] : i \in G} = {t[i] : i \in H} \cup {u[i] : i \in K}
      BY <2>1
    <2>3. QED  BY <1>1, <2>2 DEF Hits, G, H, K, m, n
  <1>7. Misses(w, at, controlled) = Misses(t, at, controlled) \cup Misses(u, at + m, controlled)
    <2> DEFINE G == {i \in 1 .. m + n : ~Succeeds(w, at, controlled, i)}
               H == {i \in 1 .. m : ~Succeeds(t, at, controlled, i)}
               K == {i \in 1 .. n : ~Succeeds(u, at + m, controlled, i)}
    <2>1. /\ \A i \in H : i \in G /\ w[i] = t[i]
          /\ \A i \in K : m + i \in G /\ w[m + i] = u[i]
          /\ \A i \in G : i \in H \/ \E j \in K : i = m + j
      BY <1>2, <1>4, <1>5
    <2> HIDE DEF G, H, K
    <2>2. {w[i] : i \in G} = {t[i] : i \in H} \cup {u[i] : i \in K}
      BY <2>1
    <2>3. QED  BY <1>1, <2>2 DEF Misses, G, H, K, m, n
  <1>8. QED  BY <1>6, <1>7 DEF w, m

\* Every child is tried once.
LEMMA ChildrenOnce ==
  ASSUME AttackTreeAssumption, AttackTreeInv, NEW id
  PROVE  IsInjective(InOrder(Children(id)))
  <1> DEFINE s == InOrder(Children(id))
             S == Children(id)
             n == Len(s)
  <1>1. s \in Seq(AttackNodes) /\ Range(s) = S /\ n = Cardinality(S)
    BY ChildrenAre
  <1> HIDE DEF s, S
  <1>2. n \in Nat /\ DOMAIN s = 1 .. n
    BY <1>1
  <1>3. s \in Surjection(1 .. n, S)
    <2>1. \A i \in 1 .. n : s[i] \in S
      BY <1>1, <1>2 DEF Range
    <2>2. \A x \in S : \E i \in 1 .. n : s[i] = x
      BY <1>1, <1>2 DEF Range
    <2>3. s = [i \in 1 .. n |-> s[i]]
      BY <1>1, <1>2
    <2> HIDE DEF n
    <2>4. s \in [1 .. n -> S]
      BY <2>1, <2>3
    <2>5. QED  BY <2>2, <2>4 DEF Surjection
  <1>4. IsFiniteSet(1 .. n) /\ Cardinality(1 .. n) = n
    <2>1. 1 \in Int /\ n \in Int /\ n >= 0
      BY <1>2
    <2>2. IsFiniteSet(1 .. n) /\ Cardinality(1 .. n) = IF 1 > n THEN 0 ELSE n - 1 + 1
      <3> HIDE DEF n
      <3>1. QED  BY <2>1, FS_Interval
    <2>3. QED  BY <2>1, <2>2
  <1>5. s \in Injection(1 .. n, S)
    <2> HIDE DEF n
    <2>1. QED  BY <1>1, <1>3, <1>4, FS_SurjSameCardinalityImpliesInj DEF n
  <1>6. QED  BY <1>2, <1>5 DEF Injection, IsInjective, s

\* The leaves taken reach a node, and all of them succeeded; or nothing does that
\* leaves out the leaves that failed, whatever the leaves that were not tried.
Wins(id, at, r, controlled) ==
  r.path # << >> /\ Range(r.path) \subseteq Hits(r.tried, at, controlled) /\ Reaches(id, Range(r.path))
Loses(id, at, r, controlled) ==
  \A W : W \cap Misses(r.tried, at, controlled) = {} => ~Reaches(id, W)

\* What the result of an attempt tells of its node.
Tells(at, r, below) ==
  /\ r \in Results /\ r.at = at + Len(r.tried)
  /\ IsInjective(r.tried) /\ Range(r.tried) \subseteq below \cap Leaves

\* The result of an attempt tells whether the leaves reach its node.
Sound(id, at, r, controlled) ==
  Tells(at, r, Under(id)) /\ IF r.ok THEN Wins(id, at, r, controlled) ELSE Loses(id, at, r, controlled)

\* So do the children tried so far.
Upto(s, k, all, at, q, controlled) ==
  /\ Tells(at, q, UNION {Under(s[j]) : j \in 1 .. k})
  /\ IF all THEN IF q.ok THEN /\ Range(q.path) \subseteq Hits(q.tried, at, controlled)
                              /\ \A j \in 1 .. k : Reaches(s[j], Range(q.path)) /\ q.path # << >>
                 ELSE \E c \in Range(s) : Loses(c, at, q, controlled)
     ELSE IF q.ok THEN \E c \in Range(s) : Wins(c, at, q, controlled)
          ELSE \A j \in 1 .. k : Loses(s[j], at, q, controlled)

\* Losing is about the leaves that failed, and more of them lose as well.
LEMMA LosesMore ==
  ASSUME NEW id, NEW at, NEW bt, NEW r, NEW q, NEW controlled, Loses(id, bt, r, controlled),
         Misses(r.tried, bt, controlled) \subseteq Misses(q.tried, at, controlled)
  PROVE  Loses(id, at, q, controlled)
  BY DEF Loses

\* One more child.
LEMMA UptoNext ==
  ASSUME NEW s \in Seq(AttackNodes), NEW k \in 1 .. Len(s), NEW all \in BOOLEAN, NEW at \in Nat, NEW controlled,
         NEW q, Upto(s, k - 1, all, at, q, controlled), q.ok = all,
         NEW one, Sound(s[k], q.at, one, controlled),
         \A j \in 1 .. k - 1 : Under(s[j]) \cap Under(s[k]) = {}
  PROVE  Upto(s, k, all, at, With(q, one, all), controlled)
  <1> DEFINE r == With(q, one, all)
             before == UNION {Under(s[j]) : j \in 1 .. k - 1}
             now == UNION {Under(s[j]) : j \in 1 .. k}
             t == q.tried
             u == one.tried
  <1>1. Tells(at, q, before) /\ Tells(q.at, one, Under(s[k]))
    BY DEF Upto, Sound
  <1>2. /\ q \in Results /\ one \in Results /\ q.at = at + Len(t) /\ one.at = q.at + Len(u)
        /\ IsInjective(t) /\ IsInjective(u)
        /\ Range(t) \subseteq before \cap Leaves /\ Range(u) \subseteq Under(s[k]) \cap Leaves
    BY <1>1 DEF Tells
  <1>3. t \in Seq(AttackNodes) /\ u \in Seq(AttackNodes) /\ q.path \in Seq(AttackNodes) /\ one.path \in Seq(AttackNodes)
    BY <1>2 DEF Results
  <1>4. k \in Nat /\ k >= 1 /\ k <= Len(s) /\ Len(s) \in Nat /\ DOMAIN s = 1 .. Len(s)
    OBVIOUS
  <1>5. now = before \cup Under(s[k])
    <2>1. \A j \in 1 .. k : j = k \/ j \in 1 .. k - 1
      BY <1>4
    <2>2. k \in 1 .. k /\ \A j \in 1 .. k - 1 : j \in 1 .. k
      BY <1>4
    <2>3. QED  BY <2>1, <2>2
  <1>6. before \cap Under(s[k]) = {}
    OBVIOUS
  <1>7. /\ r \in Results /\ r.ok = one.ok /\ r.tried = t \o u /\ r.at = one.at
        /\ r.path = IF ~one.ok THEN << >> ELSE IF all THEN q.path \o one.path ELSE one.path
    BY <1>2, WithIs DEF With, Outcome
  <1> HIDE DEF r, before, now, t, u
  <1>8. IsInjective(t \o u) /\ Range(t \o u) = Range(t) \cup Range(u) /\ Len(t \o u) = Len(t) + Len(u)
    <2>1. Range(t) \cap Range(u) = {}
      BY <1>2, <1>6
    <2>2. IsInjective(t \o u) /\ Range(t \o u) = Range(t) \cup Range(u)
      BY <1>2, <1>3, <2>1, InjectiveConcat
    <2>3. QED  BY <1>3, <2>2
  <1>9. Tells(at, r, now)
    <2>1. r.at = at + Len(r.tried)
      <3>1. Len(t) \in Nat /\ Len(u) \in Nat
        BY <1>3
      <3>2. QED  BY <1>2, <1>7, <1>8, <3>1
    <2>2. QED  BY <1>2, <1>5, <1>7, <1>8, <2>1 DEF Tells
  <1>10. /\ Hits(r.tried, at, controlled) = Hits(t, at, controlled) \cup Hits(u, q.at, controlled)
         /\ Misses(r.tried, at, controlled) = Misses(t, at, controlled) \cup Misses(u, q.at, controlled)
    BY <1>2, <1>3, <1>7, HitsOfConcat
  <1>11. s[k] \in Range(s)
    BY <1>4 DEF Range
  <1>12. CASE all /\ one.ok
    <2>1. /\ Range(q.path) \subseteq Hits(t, at, controlled)
          /\ \A j \in 1 .. k - 1 : Reaches(s[j], Range(q.path)) /\ q.path # << >>
      BY <1>12 DEF Upto, t
    <2>2. one.path # << >> /\ Range(one.path) \subseteq Hits(u, q.at, controlled) /\ Reaches(s[k], Range(one.path))
      BY <1>12 DEF Sound, Wins, u
    <2> DEFINE p == q.path
               o == one.path
    <2>3. r.path = p \o o /\ p \in Seq(AttackNodes) /\ o \in Seq(AttackNodes)
      BY <1>3, <1>7, <1>12
    <2> HIDE DEF p, o
    <2>4. Range(p \o o) = Range(p) \cup Range(o)
      BY <2>3, RangeConcatenation
    <2>5. p \o o # << >>
      <3>1. Len(o) # 0 /\ Len(o) \in Nat /\ Len(p) \in Nat
        <4>1. o # << >>
          BY <2>2 DEF o
        <4>2. QED  BY <2>3, <4>1
      <3>2. Len(p \o o) # 0
        BY <2>3, <3>1
      <3>3. QED  BY <3>2
    <2>6. Range(r.path) \subseteq Hits(r.tried, at, controlled)
      BY <1>10, <2>1, <2>2, <2>3, <2>4 DEF p, o
    <2>7. \A j \in 1 .. k : Reaches(s[j], Range(r.path)) /\ r.path # << >>
      <3>1. Range(p) \subseteq Range(r.path) /\ Range(o) \subseteq Range(r.path)
        BY <2>3, <2>4
      <3>2. Reaches(s[k], Range(r.path))
        BY <2>2, <3>1, ReachesMore DEF o
      <3>3. \A j \in 1 .. k - 1 : Reaches(s[j], Range(r.path))
        BY <2>1, <3>1, ReachesMore DEF p
      <3>4. \A j \in 1 .. k : j = k \/ j \in 1 .. k - 1
        BY <1>4
      <3>5. QED  BY <2>3, <2>5, <3>2, <3>3, <3>4
    <2>8. r.ok
      BY <1>7, <1>12
    <2>9. QED  BY <1>9, <1>12, <2>6, <2>7, <2>8 DEF Upto, now, r
  <1>13. CASE all /\ ~one.ok
    <2>1. Loses(s[k], q.at, one, controlled)
      BY <1>13 DEF Sound
    <2>2. Misses(one.tried, q.at, controlled) \subseteq Misses(r.tried, at, controlled)
      BY <1>10 DEF u
    <2>3. Loses(s[k], at, r, controlled)
      BY <2>1, <2>2, LosesMore
    <2>4. ~r.ok
      BY <1>7, <1>13
    <2>5. QED  BY <1>9, <1>11, <1>13, <2>3, <2>4 DEF Upto, now, r
  <1>14. CASE ~all /\ one.ok
    <2>1. one.path # << >> /\ Range(one.path) \subseteq Hits(u, q.at, controlled) /\ Reaches(s[k], Range(one.path))
      BY <1>14 DEF Sound, Wins, u
    <2>2. r.path = one.path /\ r.ok
      BY <1>7, <1>14
    <2>3. Wins(s[k], at, r, controlled)
      BY <1>10, <2>1, <2>2 DEF Wins
    <2>4. QED  BY <1>9, <1>11, <1>14, <2>2, <2>3 DEF Upto, now, r
  <1>15. CASE ~all /\ ~one.ok
    <2>1. \A j \in 1 .. k - 1 : Loses(s[j], at, q, controlled)
      BY <1>15 DEF Upto
    <2>2. Loses(s[k], q.at, one, controlled)
      BY <1>15 DEF Sound
    <2>3. /\ Misses(q.tried, at, controlled) \subseteq Misses(r.tried, at, controlled)
          /\ Misses(one.tried, q.at, controlled) \subseteq Misses(r.tried, at, controlled)
      BY <1>10 DEF t, u
    <2>4. Loses(s[k], at, r, controlled)
      BY <2>2, <2>3, LosesMore
    <2>5. \A j \in 1 .. k - 1 : Loses(s[j], at, r, controlled)
      BY <2>1, <2>3, LosesMore
    <2>6. \A j \in 1 .. k : j = k \/ j \in 1 .. k - 1
      BY <1>4
    <2>7. ~r.ok
      BY <1>7, <1>15
    <2>8. QED  BY <1>9, <1>15, <2>4, <2>5, <2>6, <2>7 DEF Upto, now, r
  <1>16. QED  BY <1>12, <1>13, <1>14, <1>15

\* An attempt on an inner node of a tree, if those on its children tell the truth.
LEMMA InnerSound ==
  ASSUME AttackTreeAssumption, AttackTreeInv, OneWay, Level[MaxTreeDepth] = {},
         NEW left \in 1 .. MaxTreeDepth, NEW id \in Level[MaxTreeDepth - left],
         id \in tree.nodes, tree.operator[id] # "LEAF", Children(id) # {},
         NEW controlled, NEW at \in Nat, NEW v \in Tries,
         \A c \in Children(id) : \A n \in Nat : Sound(c, n, v[<<c, n>>], controlled)
  PROVE  Sound(id, at, AttemptOne(v, controlled, id, at), controlled)
  <1> DEFINE s == InOrder(Children(id))
             n == Len(s)
             all == tree.operator[id] = "AND"
             q == TryChildren(v, id, at)
             r == AttemptOne(v, controlled, id, at)
  <1>1. /\ s \in Seq(AttackNodes) /\ Range(s) = Children(id) /\ IsInjective(s)
        /\ id \in AttackNodes
    BY TreeIs, ChildrenAre, ChildrenOnce
  <1>2. all \in BOOLEAN /\ tree.operator[id] \in {"LEAF", "AND", "OR"}
    BY <1>1, TreeIs
  <1> HIDE DEF s, all, q, r
  <1>3. /\ n \in Nat /\ DOMAIN s = 1 .. n
        /\ \A k \in 1 .. n : s[k] \in Children(id) /\ k - 1 \in 0 .. n /\ k \in 0 .. n
    BY <1>1 DEF Range
  <1>4. PICK pre \in [0 .. n -> Results] :
          /\ pre[0] = Outcome(all, << >>, << >>, at)
          /\ \A k \in 1 .. n :
               pre[k] = IF pre[k - 1].ok # all THEN pre[k - 1] ELSE With(pre[k - 1], v[<<s[k], pre[k - 1].at>>], all)
          /\ q = pre[n]
    <2>1. s = InOrder(Children(id)) /\ all = (tree.operator[id] = "AND") /\ q = TryChildren(v, id, at)
      BY DEF s, all, q
    <2>2. id \in AttackNodes
      BY <1>1
    <2>3. \E pre \in [0 .. Len(s) -> Results] :
            ChildSteps(pre, s, all, v, at) /\ TryChildren(v, id, at) = pre[Len(s)]
      BY <2>1, <2>2, TryChildrenSteps
    <2>4. PICK pre \in [0 .. Len(s) -> Results] : ChildSteps(pre, s, all, v, at) /\ TryChildren(v, id, at) = pre[Len(s)]
      BY <2>3
    <2>5. QED  BY <2>1, <2>4 DEF ChildSteps
  <1> DEFINE Good == {k \in 0 .. n : Upto(s, k, all, at, pre[k], controlled)}
  <1>5. 0 \in Good
    <2> DEFINE e == << >>
               z == pre[0]
    <2>1. z.ok = all /\ z.path = e /\ z.tried = e /\ z.at = at /\ z \in Results
      BY <1>3, <1>4 DEF Outcome
    <2>2. Len(e) = 0 /\ Range(e) = {} /\ IsInjective(e)
      BY DEF Range, IsInjective
    <2>3. 1 .. 0 = {} /\ 0 \in 0 .. n
      BY <1>3
    <2> HIDE DEF e, z
    <2>4. Tells(at, z, UNION {Under(s[j]) : j \in 1 .. 0})
      BY <2>1, <2>2 DEF Tells
    <2>5. Upto(s, 0, all, at, z, controlled)
      BY <2>1, <2>2, <2>3, <2>4 DEF Upto
    <2>6. QED  BY <2>3, <2>5 DEF z
  <1>6. ASSUME NEW k \in 1 .. n, k - 1 \in Good PROVE k \in Good
    <2> DEFINE p == pre[k - 1]
               one == v[<<s[k], p.at>>]
    <2>1. Upto(s, k - 1, all, at, p, controlled) /\ p \in Results
      BY <1>3, <1>6
    <2>2. CASE p.ok # all
      <3>1. pre[k] = p
        BY <1>4, <2>2
      <3> HIDE DEF p
      <3>2. Tells(at, p, UNION {Under(s[j]) : j \in 1 .. k})
        <4>1. Tells(at, p, UNION {Under(s[j]) : j \in 1 .. k - 1})
          BY <2>1 DEF Upto
        <4>2. \A j \in 1 .. k - 1 : j \in 1 .. k
          BY <1>3
        <4>3. UNION {Under(s[j]) : j \in 1 .. k - 1} \subseteq UNION {Under(s[j]) : j \in 1 .. k}
          BY <4>2
        <4>4. QED  BY <4>1, <4>3 DEF Tells
      <3>3. p.ok \in BOOLEAN
        BY <2>1 DEF Results
      <3>4. Upto(s, k, all, at, p, controlled)
        BY <1>2, <2>1, <2>2, <3>2, <3>3 DEF Upto
      <3>5. QED  BY <1>3, <3>1, <3>4
    <2>3. CASE p.ok = all
      <3>1. pre[k] = With(p, one, all)
        BY <1>4, <2>3
      <3> HIDE DEF p
      <3>2. p.at \in Nat
        BY <2>1 DEF Results
      <3>3. Sound(s[k], p.at, one, controlled)
        BY <1>3, <3>2
      <3>4. \A j \in 1 .. k - 1 : Under(s[j]) \cap Under(s[k]) = {}
        <4>1. ASSUME NEW j \in 1 .. k - 1 PROVE Under(s[j]) \cap Under(s[k]) = {}
          <5>1. j \in 1 .. n /\ j # k
            BY <1>3
          <5>2. s[j] # s[k]
            BY <1>1, <1>3, <5>1 DEF IsInjective
          <5>3. s[j] \in Children(id) /\ s[k] \in Children(id)
            BY <1>3, <5>1
          <5>4. QED  BY <5>2, <5>3, SiblingsApart
        <4>2. QED  BY <4>1
      <3> HIDE DEF one
      <3>5. Upto(s, k, all, at, With(p, one, all), controlled)
        BY <1>1, <1>2, <2>1, <2>3, <3>3, <3>4, UptoNext
      <3>6. QED  BY <1>3, <3>1, <3>5
    <2>4. QED  BY <2>2, <2>3
  <1>7. Upto(s, n, all, at, q, controlled)
    <2> HIDE DEF Good, n
    <2>1. \A k \in 0 .. n : k \in Good
      BY <1>3, <1>5, <1>6, UpToByInduction
    <2>2. n \in 0 .. n
      BY <1>3
    <2>3. QED  BY <1>4, <2>1, <2>2 DEF Good
  <1>8. n >= 1
    <2>1. n # 0
      <3>1. SUFFICES ASSUME n = 0 PROVE FALSE
        OBVIOUS
      <3>2. Range(s) = {}
        BY <1>3, <3>1 DEF Range
      <3>3. QED  BY <1>1, <3>2
    <2>2. QED  BY <1>3, <2>1
  <1>9. /\ r.ok = (q.ok /\ (all => q.path # << >>)) /\ r.path = q.path /\ r.tried = q.tried /\ r.at = q.at
        /\ r \in Results /\ q \in Results
    <2>1. r \in Results
      BY <1>1, AttemptOneIs DEF r
    <2>2. q \in Results
      BY <1>3, <1>4
    <2>3. r = Outcome(q.ok /\ (all => q.path # << >>), q.path, q.tried, q.at)
      BY DEF AttemptOne, r, q, all
    <2>4. QED  BY <2>1, <2>2, <2>3 DEF Outcome
  <1>10. Tells(at, r, Under(id))
    <2>1. Tells(at, q, UNION {Under(s[j]) : j \in 1 .. n})
      BY <1>7 DEF Upto
    <2>2. UNION {Under(s[j]) : j \in 1 .. n} \subseteq Under(id)
      BY <1>1, <1>3, UnderIs
    <2>3. QED  BY <1>9, <2>1, <2>2 DEF Tells
  <1>11. CASE all
    <2>1. CASE q.ok
      <3>1. /\ Range(q.path) \subseteq Hits(q.tried, at, controlled)
            /\ \A j \in 1 .. n : Reaches(s[j], Range(q.path)) /\ q.path # << >>
        BY <1>7, <1>11, <2>1 DEF Upto
      <3>2. q.path # << >>
        <4>1. 1 \in 1 .. n
          BY <1>3, <1>8
        <4>2. QED  BY <3>1, <4>1
      <3>3. \A c \in Children(id) : Reaches(c, Range(q.path))
        BY <1>1, <1>3, <3>1 DEF Range
      <3>4. Reaches(id, Range(q.path))
        BY <1>2, <1>11, <3>3, ReachesIs DEF all
      <3>5. r.ok
        BY <1>9, <2>1, <3>2
      <3>6. Wins(id, at, r, controlled)
        BY <1>9, <3>1, <3>2, <3>4 DEF Wins
      <3>7. QED  BY <1>10, <3>5, <3>6 DEF Sound, r
    <2>2. CASE ~q.ok
      <3>1. PICK c \in Range(s) : Loses(c, at, q, controlled)
        BY <1>7, <1>11, <2>2 DEF Upto
      <3>2. Loses(id, at, r, controlled)
        <4>1. ASSUME NEW W, W \cap Misses(r.tried, at, controlled) = {} PROVE ~Reaches(id, W)
          <5>1. ~Reaches(c, W)
            BY <1>9, <3>1, <4>1 DEF Loses
          <5>2. QED  BY <1>1, <1>2, <1>11, <5>1, ReachesIs DEF all
        <4>2. QED  BY <4>1 DEF Loses
      <3>3. ~r.ok
        BY <1>9, <2>2
      <3>4. QED  BY <1>10, <3>2, <3>3 DEF Sound, r
    <2>3. QED  BY <2>1, <2>2
  <1>12. CASE ~all
    <2>0. r.ok = q.ok
      BY <1>9, <1>12 DEF Results
    <2>1. CASE q.ok
      <3>1. PICK c \in Range(s) : Wins(c, at, q, controlled)
        BY <1>7, <1>12, <2>1 DEF Upto
      <3>2. Reaches(c, Range(q.path)) /\ q.path # << >> /\ Range(q.path) \subseteq Hits(q.tried, at, controlled)
        BY <3>1 DEF Wins
      <3>3. Reaches(id, Range(q.path))
        BY <1>1, <1>2, <1>12, <3>2, ReachesIs DEF all
      <3>4. Wins(id, at, r, controlled)
        BY <1>9, <3>2, <3>3 DEF Wins
      <3>5. QED  BY <1>10, <2>0, <2>1, <3>4 DEF Sound, r
    <2>2. CASE ~q.ok
      <3>1. \A j \in 1 .. n : Loses(s[j], at, q, controlled)
        BY <1>7, <1>12, <2>2 DEF Upto
      <3>2. Loses(id, at, r, controlled)
        <4>1. ASSUME NEW W, W \cap Misses(r.tried, at, controlled) = {} PROVE ~Reaches(id, W)
          <5>1. \A j \in 1 .. n : ~Reaches(s[j], W)
            BY <1>9, <3>1, <4>1 DEF Loses
          <5>2. \A c \in Children(id) : ~Reaches(c, W)
            BY <1>1, <1>3, <5>1 DEF Range
          <5>3. QED  BY <1>2, <1>12, <5>2, ReachesIs DEF all
        <4>2. QED  BY <4>1 DEF Loses
      <3>3. QED  BY <1>10, <2>0, <2>2, <3>2 DEF Sound, r
    <2>3. QED  BY <2>1, <2>2
  <1>13. QED  BY <1>11, <1>12 DEF r

\* An attempt on a leaf.
LEMMA LeafSound ==
  ASSUME AttackTreeAssumption, AttackTreeInv, NEW id \in tree.nodes, tree.operator[id] = "LEAF",
         NEW controlled, NEW at \in Nat, NEW v \in Tries
  PROVE  Sound(id, at, AttemptOne(v, controlled, id, at), controlled)
  <1> DEFINE ok == Bernoulli(at, SuccessProbability(id, controlled))
             r == AttemptOne(v, controlled, id, at)
             one == <<id>>
             e == << >>
  <1>1. id \in AttackNodes /\ r \in Results
    BY TreeIs, AttemptOneIs
  <1>2. r = Outcome(ok, IF ok THEN one ELSE e, one, at + 1)
    BY DEF AttemptOne
  <1>3. Len(one) = 1 /\ one[1] = id /\ Range(one) = {id} /\ IsInjective(one) /\ one # e
    BY DEF Range, IsInjective
  <1>4. Succeeds(one, at, controlled, 1) = ok
    <2>1. at + 1 - 1 = at
      OBVIOUS
    <2>2. QED  BY <2>1 DEF Succeeds
  <1> HIDE DEF r, one, e, ok
  <1>5. r.ok = ok /\ r.path = (IF ok THEN one ELSE e) /\ r.tried = one /\ r.at = at + 1
    BY <1>2 DEF Outcome
  <1>6. /\ ok => id \in Hits(one, at, controlled)
        /\ ~ok => id \in Misses(one, at, controlled)
    <2>1. 1 \in 1 .. Len(one)
      BY <1>3
    <2>2. QED  BY <1>3, <1>4, <2>1 DEF Hits, Misses
  <1>7. Tells(at, r, Under(id))
    <2>1. id \in Leaves /\ id \in Under(id)
      BY <1>1, UnderIs DEF Leaves
    <2>2. QED  BY <1>1, <1>3, <1>5, <2>1 DEF Tells
  <1>8. \A W : Reaches(id, W) <=> id \in W
    BY ReachesIs
  <1>9. CASE ok
    <2>1. Wins(id, at, r, controlled)
      BY <1>3, <1>5, <1>6, <1>8, <1>9 DEF Wins, e
    <2>2. QED  BY <1>5, <1>7, <1>9, <2>1 DEF Sound, r
  <1>10. CASE ~ok
    <2>1. Loses(id, at, r, controlled)
      BY <1>5, <1>6, <1>8, <1>10 DEF Loses
    <2>2. QED  BY <1>5, <1>7, <1>10, <2>1 DEF Sound, r
  <1>11. QED  BY <1>9, <1>10

\* Every attempt in an accepted tree tells the truth.
LEMMA AttemptSound ==
  ASSUME AttackTreeAssumption, AttackTreeInv, StructureIsValid, NEW controlled, NEW start \in Nat
  PROVE  Sound(tree.root, start, Attempt(tree.root, controlled, start), controlled)
  <1> DEFINE D == MaxTreeDepth
  <1>1. /\ D \in Nat /\ tree.root \in AttackNodes /\ Level[0] = {tree.root}
        /\ Level[D] = {} /\ OneWay /\ Some = tree.nodes
    BY TreeIs, LevelSteps, AcceptsTrees DEF IsTree, Some
  <1>2. PICK h \in [0 .. D + 1 -> Tries] :
          AttemptsAre(h, controlled) /\ Attempt(tree.root, controlled, start) = h[D + 1][<<tree.root, start>>]
    <2>1. tree.root \in AttackNodes
      BY <1>1
    <2> DEFINE root == tree.root
    <2> HIDE DEF root
    <2>2. \E h \in [0 .. MaxTreeDepth + 1 -> Tries] :
            AttemptsAre(h, controlled) /\ Attempt(root, controlled, start) = h[MaxTreeDepth + 1][<<root, start>>]
      BY <2>1, AttemptLevels DEF root
    <2>3. QED  BY <2>2 DEF root
  <1> DEFINE T == {left \in 0 .. D : \A id \in AttackNodes : \A at \in Nat :
                     id \in Level[D - left] => Sound(id, at, h[left + 1][<<id, at>>], controlled)}
  <1>3. 0 \in T
    <2>1. D - 0 = D /\ 0 \in 0 .. D
      BY <1>1
    <2>2. QED  BY <1>1, <2>1
  <1>4. ASSUME NEW left \in 1 .. D, left - 1 \in T PROVE left \in T
    <2>1. ASSUME NEW id \in AttackNodes, NEW at \in Nat, id \in Level[D - left]
          PROVE  Sound(id, at, h[left + 1][<<id, at>>], controlled)
      <3> DEFINE call == <<id, at>>
                 v == h[left]
      <3>1. v \in Tries /\ left + 1 \in 1 .. D + 1 /\ (left + 1) - 1 = left /\ (left - 1) + 1 = left
        BY <1>1
      <3>2. h[left + 1][call] = AttemptOne(v, controlled, id, at)
        <4>1. call \in AttackNodes \X Nat /\ call[1] = id /\ call[2] = at
          OBVIOUS
        <4> DEFINE k == left + 1
        <4>2. k \in 1 .. MaxTreeDepth + 1 /\ k - 1 = left
          BY <3>1
        <4> HIDE DEF k, call
        <4>3. h[k][call] = AttemptOne(h[k - 1], controlled, call[1], call[2])
          BY <1>2, <4>1, <4>2 DEF AttemptsAre
        <4>4. QED  BY <4>1, <4>2, <4>3 DEF k
      <3>3. id \in tree.nodes
        BY <1>1, <2>1, LevelBelow
      <3>4. CASE tree.operator[id] = "LEAF"
        BY <3>1, <3>2, <3>3, <3>4, LeafSound
      <3>5. CASE tree.operator[id] # "LEAF"
        <4>1. Children(id) # {}
          <5>1. Cardinality(Children(id)) >= 2
            BY <3>3, <3>5 DEF StructureIsValid, WellFormedNode
          <5>2. Cardinality({}) = 0 /\ ~(0 >= 2)
            BY FS_EmptySet
          <5>3. QED  BY <5>1, <5>2
        <4>2. ASSUME NEW c \in Children(id), NEW n \in Nat PROVE Sound(c, n, v[<<c, n>>], controlled)
          <5>1. c \in Level[D - (left - 1)] /\ c \in AttackNodes
            BY <2>1, LevelBelow
          <5>2. QED  BY <1>4, <3>1, <5>1
        <4>3. Sound(id, at, AttemptOne(v, controlled, id, at), controlled)
          <5> HIDE DEF v
          <5>1. QED  BY <1>1, <2>1, <3>1, <3>3, <3>5, <4>1, <4>2, InnerSound
        <4>4. QED  BY <3>2, <4>3
      <3>6. QED  BY <3>4, <3>5
    <2>2. left \in 0 .. D
      BY <1>1
    <2>3. QED  BY <2>1, <2>2
  <1>5. D \in T
    <2> HIDE DEF T, D
    <2>1. \A left \in 0 .. D : left \in T
      BY <1>1, <1>3, <1>4, UpToByInduction
    <2>2. D \in 0 .. D
      BY <1>1
    <2>3. QED  BY <2>1, <2>2
  <1>6. tree.root \in Level[D - D]
    BY <1>1
  <1>7. Sound(tree.root, start, h[D + 1][<<tree.root, start>>], controlled)
    BY <1>1, <1>5, <1>6
  <1>8. QED  BY <1>2, <1>7

\* The check accepts trees and nothing else, and an attempt in one decides as if every
\* leaf had been tried.
LEMMA TreesSound ==
  ASSUME AttackTreeAssumption, AttackTreeInv
  PROVE  AttackTreesSound
  <1>1. ASSUME StructureIsValid
        PROVE  LET attempt == Attempt(tree.root, FALSE, 1)
                   tried == attempt.tried
                   won == {tried[i] : i \in {n \in DOMAIN tried : Bernoulli(n, chance[tried[n]].success)}}
               IN  /\ attempt.ok <=> Reaches(tree.root, won)
                   /\ attempt.ok <=> Reaches(tree.root, won \cup (Leaves \ Range(tried)))
                   /\ attempt.ok => Range(attempt.path) \subseteq won /\ Reaches(tree.root, Range(attempt.path))
    <2> DEFINE a == Attempt(tree.root, FALSE, 1)
               t == a.tried
               won == {t[i] : i \in {n \in DOMAIN t : Bernoulli(n, chance[t[n]].success)}}
               rest == won \cup (Leaves \ Range(t))
    <2>1. Sound(tree.root, 1, a, FALSE)
      BY <1>1, AttemptSound
    <2> HIDE DEF a
    <2>2. a \in Results /\ IsInjective(t) /\ Range(t) \subseteq Leaves
      BY <2>1 DEF Sound, Tells
    <2>3. t \in Seq(AttackNodes) /\ a.ok \in BOOLEAN
      BY <2>2 DEF Results
    <2> HIDE DEF t
    <2>4. DOMAIN t = 1 .. Len(t) /\ Len(t) \in Nat
      BY <2>3
    <2>5. \A n \in 1 .. Len(t) : Succeeds(t, 1, FALSE, n) = Bernoulli(n, chance[t[n]].success)
      <3>1. ASSUME NEW n \in 1 .. Len(t) PROVE 1 + n - 1 = n
        BY <2>4
      <3>2. QED  BY <3>1 DEF Succeeds, SuccessProbability
    <2>6. won = Hits(t, 1, FALSE)
      BY <2>4, <2>5 DEF Hits
    <2> HIDE DEF won
    <2>7. \A x \in Misses(t, 1, FALSE) : x \notin Hits(t, 1, FALSE) /\ x \in Range(t)
      BY <2>2, <2>4 DEF Hits, Misses, IsInjective, Range
    <2>8. CASE a.ok
      <3>1. Range(a.path) \subseteq won /\ Reaches(tree.root, Range(a.path))
        BY <2>1, <2>6, <2>8 DEF Sound, Wins, t
      <3>2. Reaches(tree.root, won)
        BY <3>1, ReachesMore
      <3>3. Reaches(tree.root, rest)
        BY <3>2, ReachesMore
      <3>4. QED  BY <2>8, <3>1, <3>2, <3>3 DEF a, t, won
    <2>9. CASE ~a.ok
      <3>1. \A W : W \cap Misses(t, 1, FALSE) = {} => ~Reaches(tree.root, W)
        BY <2>1, <2>9 DEF Sound, Loses, t
      <3>2. won \cap Misses(t, 1, FALSE) = {} /\ rest \cap Misses(t, 1, FALSE) = {}
        BY <2>6, <2>7
      <3> HIDE DEF rest
      <3>3. ~Reaches(tree.root, won) /\ ~Reaches(tree.root, rest)
        BY <3>1, <3>2
      <3>4. QED  BY <2>9, <3>3 DEF a, t, won, rest
    <2>10. QED  BY <2>8, <2>9
  <1>2. StructureIsValid => IsTree
    BY AcceptsTrees
  <1>3. /\ ~tree.repeats /\ IsTree
        /\ \A id \in tree.nodes : WellFormedNode(id) /\ (tree.kind[id] = "GOAL" <=> id = tree.root)
        => StructureIsValid
    BY TreesAccepted
  <1>4. QED  BY <1>1, <1>2, <1>3 DEF AttackTreesSound

\* A behaviour keeps what it simulates.
LEMMA AttackTreeInvariant == AttackTreeSpec => []AttackTreeInv
  <1>1. AttackTreeInit => AttackTreeInv
    BY DEF AttackTreeInit
  <1>2. AttackTreeInv /\ [CompareRuns]_attackTreeVars => AttackTreeInv'
    BY DEF AttackTreeInv, CompareRuns, attackTreeVars
  <1>3. QED  BY <1>1, <1>2, PTL DEF AttackTreeSpec

\* The check of attack_tree_structure_is_valid accepts trees and nothing else, and
\* _attempt decides as if it had tried every leaf, and names leaves that reach the goal.
THEOREM AttackTreesAreSound == AttackTreeSpec => []AttackTreesSound
  <1>1. AttackTreeInv => AttackTreesSound
    BY AttackTreeAssumption, TreesSound
  <1>2. QED  BY <1>1, AttackTreeInvariant, PTL
=============================================================================
