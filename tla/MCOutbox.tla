------------------------------ MODULE MCOutbox ------------------------------
(***************************************************************************)
(* Small instances of Outbox: a few events whose transactions may commit   *)
(* in another order than they started, and two publishers.                  *)
(***************************************************************************)
EXTENDS Outbox

CONSTANTS e1, e2

MCCreatedAt == [e \in Events |-> IF e = e1 THEN 1 ELSE 2]
=============================================================================
