---------------------------- MODULE MCProjection ----------------------------
(***************************************************************************)
(* One repository of WorkflowGraph: a function that calls another and      *)
(* checks something itself, one whose name is "token", so that the colon   *)
(* after it in the ids of its two events makes the redaction rewrite them, *)
(* and a Terraform block without references.                               *)
(***************************************************************************)
EXTENDS WorkflowGraph, TLC

NoPaths == <<"none", "none">>
NoRoles == <<{}, {}>>
OneAddress == <<"a">>
OfToken == {Own(2, 1), Own(2, 2)}

CallsToken ==
  [events |-> << <<2, 0>>, <<0, 0>> >>, routes |-> {}, constrained |-> {}, refers |-> <<{}>>]

ProjectionInit == program = CallsToken /\ catalogs = NotBuilt

ProjectionNext == BuildCatalogs
=============================================================================
