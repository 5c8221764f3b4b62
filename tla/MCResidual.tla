----------------------------- MODULE MCResidual -----------------------------
(***************************************************************************)
(* One year of AttackTree with one attempt: a goal either of two steps     *)
(* reaches, each as likely to fail as to succeed, and a remediation that   *)
(* halves the probability of the first. Every short run of random numbers  *)
(* is tried. Detection changes no loss here (Multiplier = Scale). A real   *)
(* run that has no attempt in any other year ends with the same sums.      *)
(***************************************************************************)
EXTENDS AttackTree, TLC

EitherStep ==
  [root |-> 1, nodes |-> 1 .. 3, edges |-> {<<1, 2>>, <<1, 3>>}, repeats |-> FALSE,
   operator |-> <<"OR", "LEAF", "LEAF">>, kind |-> <<"GOAL", "ACTION", "ACTION">>]

ResidualInit ==
  /\ tree = EitherStep
  /\ chance = [id \in 1 .. 3 |-> [success |-> 2, detection |-> 1]]
  /\ control = <<0, 2, 0>>
  /\ numbers \in [1 .. 5 -> 0 .. 3]
  /\ compared = NotCompared

ResidualNext == CompareRuns
=============================================================================
