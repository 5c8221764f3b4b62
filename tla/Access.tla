------------------------------- MODULE Access -------------------------------
(***************************************************************************)
(* Accounts, sessions and who may act: registration, bootstrap, login,     *)
(* the checks every authenticated request makes, logout, and the approval  *)
(* of auditors (bantam/api.py, auth.py, seed.py).                          *)
(*                                                                         *)
(* The pool's connections commit every statement on its own, except inside *)
(* connection.transaction(). An authenticated request reads the database   *)
(* three times before it acts - the revocations, the account, the scopes - *)
(* and other requests run in between. Its token's expiry is checked first. *)
(* The factors themselves are the module Mfa; here an MFA login is a step  *)
(* that puts the time of the proof into the token.                         *)
(***************************************************************************)
EXTENDS Integers, Sequences, FiniteSets

CONSTANTS
  Emails,       \* e-mail addresses, the unique key of an account
  Applicants,   \* those of them that register themselves
  Jtis,         \* ids of access tokens
  Calls,        \* requests that are in progress at the same time
  SuperAdmin,   \* settings.super_admin_email
  Bootstrap,    \* the bootstrap e-mails and their roles
  JwtTtl,       \* life of a token
  StepUpTtl,    \* how long an MFA proof is recent
  LastSecond,   \* bound: the clock stops here
  Nothing       \* no row, or no value

ASSUME AccessAssumption ==
  /\ SuperAdmin \in Emails /\ Applicants \subseteq Emails /\ DOMAIN Bootstrap \subseteq Emails
  /\ \A e \in DOMAIN Bootstrap : Bootstrap[e] \in {"BANK_ADMIN", "ASPIS_ADMIN"}
  /\ {JwtTtl, StepUpTtl, LastSecond} \subseteq Nat
  /\ JwtTtl > 0
  /\ Nothing \notin Emails \cup Jtis

VARIABLES
  accounts,         \* user_accounts with admin_permissions, by e-mail
  approvals,        \* status of the aspis_auditor_requests row of an account
  tokens,           \* the tokens that were issued
  revocations,      \* session_revocations: [jti, exp]
  enrolments,       \* open mfa_transactions begun by a session: [email, jti, exp]
  clock,            \* the time of database and servers
  call,             \* what each request in progress has read so far
  ended,            \* history: tokens whose logout or re-enrolment was answered
  decisions         \* history: the decisions committed for each auditor

accessVars == <<accounts, approvals, tokens, revocations, enrolments, clock,
                call, ended, decisions>>

Scopes == {"admin_users", "aspis_auditors"}
Roles == {"CUSTOMER", "BANK_ADMIN", "ASPIS_ADMIN", "ASPIS_AUDITOR", "PENDING_APPROVAL"}
MfaRoles == {"BANK_ADMIN", "ASPIS_ADMIN", "ASPIS_AUDITOR"}
Account == [role: Roles, status: {"ACTIVE", "DISABLED"}, scopes: SUBSET Scopes]
Token == [email: Emails, role: Roles \ {"PENDING_APPROVAL"}, exp: Nat, mfa: Nat \cup {Nothing}]
Approval == {"PENDING", "APPROVED", "REJECTED"}

\* A row is not the absence of one.
ASSUME NothingAssumption == Nothing \notin Account /\ Nothing \notin Token /\ Nothing \notin Approval

\* A request between two of its statements. "endedBefore" and "disabledBefore"
\* are history: what had been committed when the request arrived.
Call ==
  [at: {"idle"}]
  \cup [at: {"booting"}, email: Emails]
  \cup [at: {"passwordOk", "proved"}, email: Emails, role: Roles]
  \cup [at: {"parsed", "unrevoked", "authenticated", "leaving", "mayCreate", "mayDecide",
             "deciding"},
        jti: Jtis, on: Emails \cup {Nothing}, endedBefore: BOOLEAN, disabledBefore: BOOLEAN]

NoCall == [at |-> "idle"]
At(c, place) == call[c].at = place
GoTo(c, place) == call' = [call EXCEPT ![c].at = place]
Answer(c) == call' = [call EXCEPT ![c] = NoCall]

Exists(e) == accounts[e] # Nothing
HasRole(e, roles) == Exists(e) /\ accounts[e].role \in roles
InService(e) == Exists(e) /\ accounts[e].status = "ACTIVE"
TokenOf(c) == tokens[call[c].jti]

AccessInit ==
  /\ accounts = [e \in Emails |-> Nothing]
  /\ approvals = [e \in Emails |-> Nothing]
  /\ tokens = [j \in Jtis |-> Nothing]
  /\ revocations = {}
  /\ enrolments = {}
  /\ clock = 0
  /\ call = [c \in Calls |-> NoCall]
  /\ ended = {}
  /\ decisions = [e \in Emails |-> << >>]

(***************************************************************************)
(* Accounts                                                                *)
(***************************************************************************)
NewAccount(e, role, scopes) ==
  accounts' = [accounts EXCEPT ![e] = [role |-> role, status |-> "ACTIVE", scopes |-> scopes]]

\* FOR UPDATE of a row that is not there locks nothing: two replicas may both
\* find no administrator. An existing one is kept as it is.
BootstrapLook(c, e) ==
  /\ At(c, "idle")
  /\ ~Exists(e)
  /\ call' = [call EXCEPT ![c] = [at |-> "booting", email |-> e]]
  /\ UNCHANGED <<accounts, approvals, tokens, revocations, enrolments, clock, ended, decisions>>

\* The unique e-mail refuses the second INSERT, and that replica fails to start.
BootstrapInsert(c) ==
  LET e == call[c].email
  IN  /\ At(c, "booting")
      /\ IF Exists(e)
           THEN UNCHANGED accounts
           ELSE NewAccount(e, Bootstrap[e], IF Bootstrap[e] = "BANK_ADMIN" THEN Scopes ELSE {})
      /\ Answer(c)
      /\ UNCHANGED <<approvals, tokens, revocations, enrolments, clock, ended, decisions>>

\* The answer is the same whether or not the address was taken.
Register(e) ==
  /\ IF Exists(e) THEN UNCHANGED accounts ELSE NewAccount(e, "CUSTOMER", {})
  /\ UNCHANGED <<approvals, tokens, revocations, enrolments, clock, call, ended, decisions>>

RegisterAspisAuditor(e) ==
  /\ ~Exists(e)
  /\ NewAccount(e, "PENDING_APPROVAL", {})
  /\ approvals' = [approvals EXCEPT ![e] = "PENDING"]
  /\ UNCHANGED <<tokens, revocations, enrolments, clock, call, ended, decisions>>

\* An operator takes an account out of service in the database. No route does.
OperatorDisables(e) ==
  /\ InService(e)
  /\ accounts' = [accounts EXCEPT ![e].status = "DISABLED"]
  /\ UNCHANGED <<approvals, tokens, revocations, enrolments, clock, call, ended, decisions>>

(***************************************************************************)
(* Login                                                                   *)
(***************************************************************************)
\* The password is right; the row is read once.
LoginRead(c, e) ==
  /\ At(c, "idle")
  /\ InService(e)
  /\ accounts[e].role # "PENDING_APPROVAL"
  /\ call' = [call EXCEPT ![c] = [at |-> "passwordOk", email |-> e, role |-> accounts[e].role]]
  /\ UNCHANGED <<accounts, approvals, tokens, revocations, enrolments, clock, ended, decisions>>

\* For a role that needs MFA, _consume reads the role of the active account again.
MfaProved(c) ==
  /\ At(c, "passwordOk")
  /\ call[c].role \in MfaRoles
  /\ IF InService(call[c].email)
       THEN call' = [call EXCEPT ![c].at = "proved", ![c].role = accounts[call[c].email].role]
       ELSE Answer(c)
  /\ UNCHANGED <<accounts, approvals, tokens, revocations, enrolments, clock, ended, decisions>>

IssueSession(c, j) ==
  /\ \/ At(c, "proved")
     \/ At(c, "passwordOk") /\ call[c].role \notin MfaRoles
  /\ tokens[j] = Nothing
  /\ tokens' = [tokens EXCEPT ![j] =
       [email |-> call[c].email, role |-> call[c].role, exp |-> clock + JwtTtl,
        mfa |-> IF At(c, "proved") THEN clock ELSE Nothing]]
  /\ Answer(c)
  /\ UNCHANGED <<accounts, approvals, revocations, enrolments, clock, ended, decisions>>

(***************************************************************************)
(* The checks of an authenticated request                                  *)
(***************************************************************************)
\* jwt.decode: the expiry is compared with the clock before any read.
Parse(c, j) ==
  /\ At(c, "idle")
  /\ tokens[j] # Nothing
  /\ clock < tokens[j].exp
  /\ call' = [call EXCEPT ![c] =
       [at |-> "parsed", jti |-> j, on |-> Nothing, endedBefore |-> j \in ended,
        disabledBefore |-> ~InService(tokens[j].email)]]
  /\ UNCHANGED <<accounts, approvals, tokens, revocations, enrolments, clock, ended, decisions>>

Revoked(j) == \E r \in revocations : r.jti = j /\ r.exp > clock

\* _reject_revoked_token, on a connection of its own.
RejectRevoked(c) ==
  /\ At(c, "parsed")
  /\ IF Revoked(call[c].jti) THEN Answer(c) ELSE GoTo(c, "unrevoked")
  /\ UNCHANGED <<accounts, approvals, tokens, revocations, enrolments, clock, ended, decisions>>

AccountAllows(t) == InService(t.email) /\ accounts[t.email].role = t.role

Authenticate(c) ==
  /\ At(c, "unrevoked")
  /\ IF AccountAllows(TokenOf(c)) THEN GoTo(c, "authenticated") ELSE Answer(c)
  /\ UNCHANGED <<accounts, approvals, tokens, revocations, enrolments, clock, ended, decisions>>

RecentMfa(t) == t.mfa # Nothing /\ clock - t.mfa <= StepUpTtl

IsSuperAdmin(e) == e = SuperAdmin /\ HasRole(e, {"BANK_ADMIN"}) /\ InService(e)

\* The role the route asks for; both routes ask for a recent MFA proof.
RoleMay(goal, role) ==
  role \in IF goal = "mayCreate" THEN {"BANK_ADMIN"} ELSE {"BANK_ADMIN", "ASPIS_ADMIN"}

HasScope(goal, t) ==
  \/ t.role # "BANK_ADMIN"
  \/ IsSuperAdmin(t.email)
  \/ (IF goal = "mayCreate" THEN "admin_users" ELSE "aspis_auditors")
       \in accounts[t.email].scopes

\* require_roles, require_recent_mfa and require_admin_scope, before admin_create_user
\* or decide_aspis_auditor_request. A request that is refused ends as in Read.
Authorize(c, goal) ==
  /\ At(c, "authenticated")
  /\ RoleMay(goal, TokenOf(c).role)
  /\ RecentMfa(TokenOf(c))
  /\ HasScope(goal, TokenOf(c))
  /\ GoTo(c, goal)
  /\ UNCHANGED <<accounts, approvals, tokens, revocations, enrolments, clock, ended, decisions>>

\* GET /v1/me, every other read, and every refusal.
Read(c) ==
  /\ At(c, "authenticated")
  /\ Answer(c)
  /\ UNCHANGED <<accounts, approvals, tokens, revocations, enrolments, clock, ended, decisions>>

\* No connection, a lost connection, a crash: what was committed stays.
Fail(c) ==
  /\ ~At(c, "idle")
  /\ Answer(c)
  /\ UNCHANGED <<accounts, approvals, tokens, revocations, enrolments, clock, ended, decisions>>

(***************************************************************************)
(* The end of a session                                                    *)
(***************************************************************************)
\* Mutant: the purge keeps the rows that ran out, and drops the others.
MutPurgeRevocations(c) ==
  /\ At(c, "authenticated")
  /\ revocations' = {r \in revocations : r.exp <= clock}
  /\ GoTo(c, "leaving")
  /\ UNCHANGED <<accounts, approvals, tokens, enrolments, clock, ended, decisions>>

\* logout: LOGOUT_SUCCEEDED is committed, then revocations that ran out go, and
\* only then is the token revoked.
PurgeRevocations(c) ==
  /\ At(c, "authenticated")
  /\ revocations' = {r \in revocations : r.exp > clock}
  /\ GoTo(c, "leaving")
  /\ UNCHANGED <<accounts, approvals, tokens, enrolments, clock, ended, decisions>>

\* ON CONFLICT (jti) DO NOTHING: the expiry of a token never changes, so the
\* row that is there is the same.
EndToken(j) == revocations' = revocations \cup {[jti |-> j, exp |-> tokens[j].exp]}

RevokeAccessToken(c) ==
  /\ At(c, "leaving")
  /\ EndToken(call[c].jti)
  /\ ended' = ended \cup {call[c].jti}
  /\ Answer(c)
  /\ UNCHANGED <<accounts, approvals, tokens, enrolments, clock, decisions>>

BeginMfaEnrollment(c) ==
  /\ At(c, "authenticated")
  /\ enrolments' =
       IF TokenOf(c).role \in MfaRoles /\ InService(TokenOf(c).email)
         THEN enrolments \cup {[email |-> TokenOf(c).email, jti |-> call[c].jti]}
         ELSE enrolments
  /\ Answer(c)
  /\ UNCHANGED <<accounts, approvals, tokens, revocations, clock, ended, decisions>>

\* The new factor answered its challenge: one transaction consumes it, revokes
\* the session that began it and reads the account again. A session follows.
CompleteEnrollment(c, x) ==
  /\ At(c, "idle")
  /\ x \in enrolments
  /\ InService(x.email)
  /\ enrolments' = enrolments \ {x}
  /\ EndToken(x.jti)
  /\ ended' = ended \cup {x.jti}
  /\ call' = [call EXCEPT ![c] =
       [at |-> "proved", email |-> x.email, role |-> accounts[x.email].role]]
  /\ UNCHANGED <<accounts, approvals, tokens, clock, decisions>>

(***************************************************************************)
(* Administration                                                          *)
(***************************************************************************)
\* A taken address is answered EMAIL_EXISTS.
CreateUser(c, e, scopes) ==
  /\ At(c, "mayCreate")
  /\ scopes # {}
  /\ IF Exists(e) THEN UNCHANGED accounts ELSE NewAccount(e, "BANK_ADMIN", scopes)
  /\ Answer(c)
  /\ UNCHANGED <<approvals, tokens, revocations, enrolments, clock, ended, decisions>>

\* Mutant: the request is read without FOR UPDATE.
MutApprovalFree(e) == e \in Emails

\* FOR UPDATE OF r, u waits for the transaction that holds the rows.
ApprovalFree(e) == \A c \in Calls : At(c, "deciding") => call[c].on # e

LockApproval(c, e) ==
  /\ At(c, "mayDecide")
  /\ approvals[e] # Nothing
  /\ ApprovalFree(e)
  /\ IF approvals[e] = "PENDING"
       THEN call' = [call EXCEPT ![c].at = "deciding", ![c].on = e]
       ELSE Answer(c)
  /\ UNCHANGED <<accounts, approvals, tokens, revocations, enrolments, clock, ended, decisions>>

\* Both UPDATEs of user_accounts ask for role PENDING_APPROVAL.
Decide(c, status) ==
  LET e == call[c].on
  IN  /\ At(c, "deciding")
      /\ accounts[e].role = "PENDING_APPROVAL"
      /\ accounts' = [accounts EXCEPT ![e] =
           IF status = "APPROVED"
             THEN [@ EXCEPT !.role = "ASPIS_AUDITOR", !.status = "ACTIVE"]
             ELSE [@ EXCEPT !.status = "DISABLED"]]
      /\ approvals' = [approvals EXCEPT ![e] = status]
      /\ decisions' = [decisions EXCEPT ![e] = Append(@, status)]
      /\ Answer(c)
      /\ UNCHANGED <<tokens, revocations, enrolments, clock, ended>>

AccessTick ==
  /\ clock < LastSecond
  /\ clock' = clock + 1
  /\ UNCHANGED <<accounts, approvals, tokens, revocations, enrolments, call, ended, decisions>>

AccessNext ==
  \/ AccessTick
  \/ \E e \in Applicants : Register(e) \/ RegisterAspisAuditor(e)
  \/ \E e \in Emails : OperatorDisables(e)
  \/ \E c \in Calls :
       \/ \E e \in DOMAIN Bootstrap : BootstrapLook(c, e)
       \/ BootstrapInsert(c)
       \/ MfaProved(c)
       \/ RejectRevoked(c) \/ Authenticate(c) \/ Read(c) \/ Fail(c)
       \/ PurgeRevocations(c) \/ RevokeAccessToken(c)
       \/ BeginMfaEnrollment(c)
       \/ \E x \in enrolments : CompleteEnrollment(c, x)
       \/ \E e \in Emails : LoginRead(c, e) \/ LockApproval(c, e)
       \/ \E e \in Emails, scopes \in SUBSET Scopes : CreateUser(c, e, scopes)
       \/ \E status \in {"APPROVED", "REJECTED"} : Decide(c, status)
       \/ \E j \in Jtis : IssueSession(c, j) \/ Parse(c, j)
       \/ \E goal \in {"mayCreate", "mayDecide"} : Authorize(c, goal)

AccessSpec == AccessInit /\ [][AccessNext]_accessVars

(***************************************************************************)
(* Properties                                                              *)
(***************************************************************************)
AccessTypeOK ==
  /\ accounts \in [Emails -> Account \cup {Nothing}]
  /\ approvals \in [Emails -> Approval \cup {Nothing}]
  /\ tokens \in [Jtis -> Token \cup {Nothing}]
  /\ revocations \subseteq [jti: Jtis, exp: Nat]
  /\ enrolments \subseteq [email: Emails, jti: Jtis]
  /\ clock \in 0 .. LastSecond
  /\ call \in [Calls -> Call]
  /\ ended \subseteq Jtis
  /\ decisions \in [Emails -> Seq(Approval)]

\* A request that passed its checks.
Through == {"authenticated", "mayCreate", "mayDecide", "leaving", "deciding"}
Passed(c) == call[c].at \in Through

\* The answer to a logout, and the end of a re-enrolment, are final: a request
\* that arrives later does not get through with that token, unless the token's
\* own life ended while the request was being checked. Revocations are purged
\* by time and read after the expiry was compared, so both ends must meet.
\* An account that was out of service when the request arrived does not get
\* through either, whatever its token says.
EndedSessionsRefused ==
  \A c \in Calls : Passed(c) =>
    /\ call[c].endedBefore => clock >= TokenOf(c).exp
    /\ ~call[c].disabledBefore

\* An auditor is decided once, however many administrators decide, and the two
\* tables agree: who is APPROVED is an auditor, who is REJECTED is out of
\* service for good and never held a session.
AuditorDecidedOnce ==
  \A e \in Emails :
    /\ Len(decisions[e]) <= 1
    /\ decisions[e] = <<"APPROVED">> <=> HasRole(e, {"ASPIS_AUDITOR"})
    /\ decisions[e] = <<"REJECTED">> =>
         /\ HasRole(e, {"PENDING_APPROVAL"}) /\ ~InService(e)
         /\ \A j \in Jtis : tokens[j] = Nothing \/ tokens[j].email # e

\* The role of an account changes only when an auditor is approved, and nobody
\* logs in before that: a session has the role of its account.
HasRoleFor(e, role) == Exists(e) /\ accounts[e].role = role /\ role # "PENDING_APPROVAL"
TokensFit == \A j \in Jtis : tokens[j] # Nothing => HasRoleFor(tokens[j].email, tokens[j].role)
EnrolmentsFit == \A x \in enrolments : tokens[x.jti] # Nothing /\ tokens[x.jti].email = x.email

\* A token whose end was answered has a revocation of its own for as long as it lives.
RevocationsFit ==
  \A j \in ended :
    /\ tokens[j] # Nothing
    /\ clock < tokens[j].exp => [jti |-> j, exp |-> tokens[j].exp] \in revocations

\* The request of an auditor and the account say the same.
ApprovalFits(e) ==
  CASE approvals[e] = "PENDING"  -> HasRole(e, {"PENDING_APPROVAL"}) /\ decisions[e] = << >>
    [] approvals[e] = "APPROVED" -> HasRole(e, {"ASPIS_AUDITOR"}) /\ decisions[e] = <<"APPROVED">>
    [] approvals[e] = "REJECTED" -> /\ HasRole(e, {"PENDING_APPROVAL"}) /\ ~InService(e)
                                    /\ decisions[e] = <<"REJECTED">>
    [] OTHER -> ~HasRole(e, {"PENDING_APPROVAL", "ASPIS_AUDITOR"}) /\ decisions[e] = << >>

\* What a request in progress relies on. A login has the role of its account. A
\* request whose token was ended before it began is past the check only if the
\* token's life is over; an account that is out of service stays so, and so its
\* requests do not get through. Who decides has a row that is PENDING.
Relies(k) ==
  /\ k.at = "booting" => k.email \in DOMAIN Bootstrap
  /\ k.at \in {"passwordOk", "proved"} => HasRoleFor(k.email, k.role)
  /\ k.at \in {"parsed", "unrevoked"} \cup Through =>
       /\ tokens[k.jti] # Nothing
       /\ k.endedBefore => k.jti \in ended /\ (k.at # "parsed" => clock >= tokens[k.jti].exp)
       /\ k.disabledBefore => k.at \notin Through /\ ~InService(tokens[k.jti].email)
  /\ k.at = "deciding" => k.on \in Emails /\ approvals[k.on] = "PENDING"

DecidersDiffer ==
  \A c, d \in Calls : At(c, "deciding") /\ At(d, "deciding") /\ call[c].on = call[d].on => c = d

\* Inductive: it holds at first and every step keeps it.
AccessInv ==
  /\ AccessTypeOK
  /\ TokensFit /\ EnrolmentsFit /\ RevocationsFit
  /\ \A e \in Emails : ApprovalFits(e)
  /\ \A c \in Calls : Relies(call[c])
  /\ DecidersDiffer
=============================================================================
