------------------------------ MODULE Listings ------------------------------
(***************************************************************************)
(* Sets as lists and lists without their repetitions: what sorted(), a     *)
(* membership test before append() and a slice do in the builders of       *)
(* graphs, in their projection and in the simulation of attack trees.      *)
(***************************************************************************)
EXTENDS Integers, Sequences, FiniteSets, SequencesExt

\* A set of numbers in increasing order: the k-th has k - 1 below it.
InOrder(S) ==
  [k \in 1 .. Cardinality(S) |-> CHOOSE x \in S : Cardinality({y \in S : y < x}) = k - 1]

\* A set of anything in some order, each element once.
Listed(S) == FoldSet(LAMBDA x, s : Append(s, x), << >>, S)

\* s[:n]
FirstOf(s, n) == SubSeq(s, 1, IF Len(s) < n THEN Len(s) ELSE n)

\* The elements of s in order of their first appearance.
Distinct(s) ==
  FoldLeft(LAMBDA kept, x : IF x \in Range(kept) THEN kept ELSE Append(kept, x), << >>, s)

\* The elements of s that are in S.
Those(s, S) ==
  FoldLeft(LAMBDA kept, x : IF x \in S THEN Append(kept, x) ELSE kept, << >>, s)
=============================================================================
