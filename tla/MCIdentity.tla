----------------------------- MODULE MCIdentity -----------------------------
(***************************************************************************)
(* Small instances of Mfa and Access. They share nothing in the model -    *)
(* Access takes a login with a factor as one step - and each behaviour     *)
(* plays one scene:                                                        *)
(*   factors   one administrator with an authenticator and an app          *)
(*   sessions  logins, logouts and re-enrolments of the bootstrap          *)
(*             administrator and of a customer, two at a time              *)
(*   approvals two administrators who create users and decide about an     *)
(*             auditor, while nobody logs out                              *)
(***************************************************************************)
EXTENDS MCMfa, Access

CONSTANT ann

VARIABLE scene

MCBootstrap == root :> "BANK_ADMIN"

IdentityInit == scene \in {"factors", "sessions", "approvals"} /\ Init /\ AccessInit

Administering == \E c \in Calls : call'[c].at \in {"mayCreate", "mayDecide", "deciding"}

IdentityNext ==
  /\ \/ scene = "factors" /\ Next /\ UNCHANGED accessVars
     \/ /\ \/ scene = "sessions" /\ AccessNext /\ approvals' = approvals /\ ~Administering
           \/ scene = "approvals" /\ AccessNext /\ UNCHANGED <<revocations, enrolments>>
        /\ UNCHANGED vars
  /\ UNCHANGED scene

IdentitySpec == IdentityInit /\ [][IdentityNext]_<<vars, accessVars, scene>>

\* The inductive invariants of both modules with their types: what a request relies
\* on between two of its statements, its locks, what it has read of rows that others
\* may change, and the session or account it acts for.
IdentityTypes == MfaInv /\ AccessInv

IdentitySymmetry == Permutations(Sessions) \cup Permutations(Transactions)
=============================================================================
