------------------------------- MODULE MCMfa --------------------------------
(***************************************************************************)
(* Small instances of Mfa: one administrator with one or two authenticators*)
(* and an app, two requests at a time, two or three challenges.            *)
(***************************************************************************)
EXTENDS Mfa, TLC

CONSTANT root

MCDevice == [c \in Passkeys |-> root]

\* Ids, requests and authenticators are interchangeable.
Interchangeable ==
  Permutations(Transactions) \cup Permutations(Sessions) \cup Permutations(Passkeys)
=============================================================================
