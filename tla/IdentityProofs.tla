--------------------------- MODULE IdentityProofs ---------------------------
(***************************************************************************)
(* Theorems of Access and Mfa, for every number of accounts, tokens,       *)
(* factors, transactions and requests in progress: an ended session is     *)
(* over, an account out of service is refused and an auditor is decided    *)
(* once; a code is used once, a challenge answered once, and a login ends  *)
(* with a factor that is active. The two share no state.                   *)
(***************************************************************************)
EXTENDS MCIdentity, TLAPS

(***************************************************************************)
(* Sessions, tokens and accounts                                           *)
(***************************************************************************)
Requesting == {"parsed", "unrevoked"} \cup Through
LoginCall == [at: {"passwordOk", "proved"}, email: Emails, role: Roles]
SessionCall ==
  [at: Requesting, jti: Jtis, on: Emails \cup {Nothing}, endedBefore: BOOLEAN, disabledBefore: BOOLEAN]

\* The record of a request says by its place which fields it has.
LEMMA CallShape ==
  ASSUME NEW k \in Call
  PROVE  /\ k.at = "booting" => k.email \in Emails
         /\ k.at \in {"passwordOk", "proved"} => k \in LoginCall
         /\ k.at \in Requesting => k \in SessionCall
  BY DEF Call, LoginCall, SessionCall, Requesting, Through

\* The kinds of call the actions write are kinds of call.
LEMMA CallsAre ==
  /\ NoCall \in Call /\ NoCall.at = "idle"
  /\ \A e \in Emails : [at |-> "booting", email |-> e] \in Call
  /\ LoginCall \subseteq Call /\ SessionCall \subseteq Call
  BY DEF Call, NoCall, LoginCall, SessionCall, Requesting, Through

\* A request that moves on keeps what it has read.
LEMMA Moves ==
  ASSUME NEW k \in SessionCall, NEW place \in Requesting
  PROVE  /\ [k EXCEPT !.at = place] \in SessionCall
         /\ [k EXCEPT !.at = place].at = place
         /\ [k EXCEPT !.at = place].jti = k.jti
         /\ [k EXCEPT !.at = place].on = k.on
         /\ [k EXCEPT !.at = place].endedBefore = k.endedBefore
         /\ [k EXCEPT !.at = place].disabledBefore = k.disabledBefore
  BY DEF SessionCall, Requesting, Through

\* What no step takes back from the requests in progress.
Grows ==
  /\ \A e \in Emails : Exists(e) /\ accounts[e].role # "PENDING_APPROVAL" =>
       /\ Exists(e)' /\ accounts'[e].role = accounts[e].role
       /\ ~InService(e) => ~InService(e)'
  /\ \A j \in Jtis : tokens[j] # Nothing => tokens'[j] = tokens[j]
  /\ ended \subseteq ended'
  /\ clock' >= clock

\* Nobody else changes the row of a request that decides.
KeepsRow(d) == At(d, "deciding") => approvals'[call[d].on] = approvals[call[d].on]

\* A request keeps what it relies on while another one moves.
LEMMA StillRelies ==
  ASSUME AccessInv, Grows, NEW d \in Calls, KeepsRow(d), clock' \in Int, call'[d] = call[d]
  PROVE  Relies(call[d])'
  <1> DEFINE k == call[d]
  <1>1. k \in Call /\ Relies(k)
    BY DEF AccessInv, AccessTypeOK
  <1>2. CASE k.at \in {"passwordOk", "proved"}
    <2>1. k \in LoginCall /\ HasRoleFor(k.email, k.role)
      BY <1>1, <1>2, CallShape DEF Relies
    <2>2. k.email \in Emails /\ Exists(k.email) /\ accounts[k.email].role = k.role
          /\ k.role # "PENDING_APPROVAL"
      BY <2>1 DEF LoginCall, HasRoleFor
    <2>3. accounts'[k.email] # Nothing /\ accounts'[k.email].role = k.role
      BY <2>2 DEF Grows, Exists
    <2>4. QED  BY <1>2, <2>2, <2>3 DEF Relies, HasRoleFor, Exists, Through
  <1>3. CASE k.at \in Requesting
    <2> DEFINE j == k.jti
    <2>1. k \in SessionCall /\ j \in Jtis /\ tokens[j] # Nothing /\ tokens'[j] = tokens[j]
      BY <1>1, <1>3, CallShape DEF Relies, Requesting, SessionCall, Grows
    <2>2. tokens[j] \in Token /\ tokens[j].email \in Emails /\ tokens[j].exp \in Nat
      BY <2>1 DEF AccessInv, AccessTypeOK, Token
    <2>3. Exists(tokens[j].email) /\ accounts[tokens[j].email].role # "PENDING_APPROVAL"
      BY <2>1 DEF AccessInv, TokensFit, HasRoleFor
    <2>4. ~InService(tokens[j].email) => ~InService(tokens[j].email)'
      BY <2>1, <2>2, <2>3 DEF Grows, InService, Exists
    <2>5. k.endedBefore => j \in ended' /\ (k.at # "parsed" => clock' >= tokens'[j].exp)
      <3>1. clock \in Int
        BY DEF AccessInv, AccessTypeOK
      <3>2. QED  BY <1>1, <1>3, <2>1, <2>2, <3>1 DEF Relies, Requesting, Grows
    <2>6. k.disabledBefore => k.at \notin Through /\ ~InService(tokens[j].email)
      BY <1>1, <1>3 DEF Relies, Requesting
    <2>7. k.at = "deciding" => k.on \in Emails /\ approvals'[k.on] = "PENDING"
      BY <1>1 DEF Relies, KeepsRow, At
    <2>8. QED  BY <1>3, <2>1, <2>4, <2>5, <2>6, <2>7 DEF Relies, Requesting, Through, InService, Exists
  <1>4. CASE k.at \notin {"passwordOk", "proved"} \cup Requesting
    BY <1>1, <1>4 DEF Relies, Requesting, Through
  <1>5. QED  BY <1>2, <1>3, <1>4

\* So what a step has to show: its tables, and what the request that moves relies
\* on from now on.
LEMMA StepKeeps ==
  ASSUME AccessInv, Grows, NEW c \in Calls, \A d \in Calls : d # c => KeepsRow(d), NEW k \in Call, call' = [call EXCEPT ![c] = k],
         Relies(k)', \A d \in Calls : k.at = "deciding" /\ d # c /\ At(d, "deciding") => call[d].on # k.on,
         accounts' \in [Emails -> Account \cup {Nothing}],
         approvals' \in [Emails -> Approval \cup {Nothing}],
         tokens' \in [Jtis -> Token \cup {Nothing}],
         revocations' \subseteq [jti: Jtis, exp: Nat],
         enrolments' \subseteq [email: Emails, jti: Jtis],
         clock' \in 0 .. LastSecond, ended' \subseteq Jtis,
         decisions' \in [Emails -> Seq(Approval)],
         TokensFit', EnrolmentsFit', RevocationsFit', \A e \in Emails : ApprovalFits(e)'
  PROVE  AccessInv'
  <1>1. /\ call' \in [Calls -> Call] /\ call'[c] = k
        /\ \A d \in Calls : d # c => call'[d] = call[d]
    BY DEF AccessInv, AccessTypeOK
  <1>2. AccessTypeOK'
    BY <1>1 DEF AccessTypeOK
  <1>3. ASSUME NEW d \in Calls PROVE Relies(call[d])'
    <2>1. CASE d = c
      <3>1. call'[d] = k
        BY <1>1, <2>1
      <3>2. QED  BY <3>1 DEF Relies
    <2>2. CASE d # c
      BY <1>1, <2>2, StillRelies
    <2>3. QED  BY <2>1, <2>2
  <1>4. DecidersDiffer'
    BY <1>1 DEF AccessInv, DecidersDiffer, At
  <1>5. QED  BY <1>2, <1>3, <1>4 DEF AccessInv

\* A request reads, or is answered: the tables stay.
LEMMA ReadKeeps ==
  ASSUME AccessInv, NEW c \in Calls, NEW k \in Call, call' = [call EXCEPT ![c] = k],
         UNCHANGED <<accounts, approvals, tokens, revocations, enrolments, clock, ended, decisions>>,
         Relies(k), \A d \in Calls : k.at = "deciding" /\ d # c /\ At(d, "deciding") => call[d].on # k.on
  PROVE  AccessInv'
  <1>1. Grows /\ \A d \in Calls : KeepsRow(d)
    BY DEF Grows, KeepsRow, AccessInv, AccessTypeOK, Exists, InService
  <1>2. Relies(k)'
    BY DEF Relies, HasRoleFor, Exists, InService
  <1>3. TokensFit' /\ EnrolmentsFit' /\ RevocationsFit'
    BY DEF AccessInv, TokensFit, EnrolmentsFit, RevocationsFit, HasRoleFor, Exists
  <1>4. \A e \in Emails : ApprovalFits(e)'
    BY DEF AccessInv, ApprovalFits, HasRole, InService, Exists
  <1>5. QED  BY <1>1, <1>2, <1>3, <1>4, StepKeeps DEF AccessInv, AccessTypeOK

\* An idle request relies on nothing.
LEMMA IdleRelies == Relies(NoCall) /\ Relies(NoCall)' /\ NoCall \in Call /\ NoCall.at # "deciding"
  BY CallsAre DEF Relies, NoCall, Through

\* A request that goes on keeps its token and what it was told when it began.
LEMMA GoToMoves ==
  ASSUME AccessInv, NEW c \in Calls, NEW place \in Requesting, GoTo(c, place),
         call[c].at \in Requesting
  PROVE  \E k \in SessionCall :
           /\ call' = [call EXCEPT ![c] = k] /\ k \in Call
           /\ k.at = place /\ k.jti = call[c].jti /\ k.on = call[c].on
           /\ k.endedBefore = call[c].endedBefore /\ k.disabledBefore = call[c].disabledBefore
  <1>1. call[c] \in SessionCall
    BY CallShape DEF AccessInv, AccessTypeOK
  <1>2. call' = [call EXCEPT ![c] = [call[c] EXCEPT !.at = place]]
    BY DEF GoTo
  <1>3. QED  BY <1>1, <1>2, Moves, CallsAre

\* What is known of a request past its first check.
LEMMA InSession ==
  ASSUME AccessInv, NEW c \in Calls, call[c].at \in Requesting
  PROVE  /\ call[c] \in SessionCall /\ call[c].jti \in Jtis
         /\ TokenOf(c) # Nothing /\ TokenOf(c) \in Token
         /\ TokenOf(c).email \in Emails
         /\ Exists(TokenOf(c).email) /\ accounts[TokenOf(c).email].role = TokenOf(c).role
         /\ TokenOf(c).role # "PENDING_APPROVAL"
         /\ call[c].endedBefore =>
              call[c].jti \in ended /\ (call[c].at # "parsed" => clock >= TokenOf(c).exp)
         /\ call[c].disabledBefore =>
              call[c].at \notin Through /\ ~InService(TokenOf(c).email)
  <1>1. call[c] \in SessionCall
    BY CallShape DEF AccessInv, AccessTypeOK
  <1>2. Relies(call[c]) /\ call[c].jti \in Jtis
    BY <1>1 DEF AccessInv, SessionCall
  <1>3. TokenOf(c) # Nothing /\ TokenOf(c) \in Token /\ TokenOf(c).email \in Emails
    BY <1>2 DEF Relies, Requesting, TokenOf, AccessInv, AccessTypeOK, Token
  <1>4. HasRoleFor(TokenOf(c).email, TokenOf(c).role)
    BY <1>2, <1>3 DEF TokenOf, AccessInv, TokensFit
  <1>5. QED  BY <1>1, <1>2, <1>3, <1>4 DEF Relies, Requesting, TokenOf, HasRoleFor

-----------------------------------------------------------------------------
(* Logins *)

\* A login that read its row of users, or a start-up that looked for one.
LEMMA LoginKeeps ==
  ASSUME AccessInv, NEW c \in Calls, NEW e \in Emails,
         LoginRead(c, e) \/ (e \in DOMAIN Bootstrap /\ BootstrapLook(c, e))
  PROVE  AccessInv'
  <1>1. CASE LoginRead(c, e)
    <2> DEFINE k == [at |-> "passwordOk", email |-> e, role |-> accounts[e].role]
    <2>1. Exists(e) /\ accounts[e] \in Account /\ accounts[e].role \in Roles
      BY <1>1 DEF LoginRead, InService, Exists, AccessInv, AccessTypeOK, Account
    <2>2. k \in LoginCall
      BY <2>1 DEF LoginCall
    <2>3. Relies(k)
      BY <1>1, <2>1 DEF LoginRead, Relies, HasRoleFor, Through
    <2>4. k \in Call /\ call' = [call EXCEPT ![c] = k] /\ k.at # "deciding"
      BY <1>1, <2>2, CallsAre DEF LoginRead
    <2>5. UNCHANGED <<accounts, approvals, tokens, revocations, enrolments, clock, ended, decisions>>
      BY <1>1 DEF LoginRead
    <2> HIDE DEF k
    <2>6. QED  BY <2>3, <2>4, <2>5, ReadKeeps
  <1>2. CASE e \in DOMAIN Bootstrap /\ BootstrapLook(c, e)
    <2> DEFINE k == [at |-> "booting", email |-> e]
    <2>1. k \in Call /\ k.at # "deciding" /\ Relies(k)
      BY <1>2, CallsAre DEF Relies, Through
    <2>2. /\ call' = [call EXCEPT ![c] = k]
          /\ UNCHANGED <<accounts, approvals, tokens, revocations, enrolments, clock, ended, decisions>>
      BY <1>2 DEF BootstrapLook
    <2> HIDE DEF k
    <2>3. QED  BY <2>1, <2>2, ReadKeeps
  <1>3. QED  BY <1>1, <1>2

\* The second read of the role finds what the first one found.
LEMMA MfaProvedKeeps ==
  ASSUME AccessInv, NEW c \in Calls, MfaProved(c)
  PROVE  AccessInv'
  <1> DEFINE e == call[c].email
  <1>1. /\ call[c] \in LoginCall /\ e \in Emails
        /\ Exists(e) /\ accounts[e].role = call[c].role /\ call[c].role # "PENDING_APPROVAL"
    <2>1. call[c] \in Call /\ Relies(call[c]) /\ call[c].at = "passwordOk"
      BY DEF AccessInv, AccessTypeOK, MfaProved, At
    <2>2. QED  BY <2>1, CallShape DEF LoginCall, Relies, HasRoleFor
  <1>2. UNCHANGED <<accounts, approvals, tokens, revocations, enrolments, clock, ended, decisions>>
    BY DEF MfaProved
  <1>3. CASE InService(e)
    <2> DEFINE k == [call[c] EXCEPT !.at = "proved", !.role = accounts[e].role]
    <2>1. call' = [call EXCEPT ![c] = k]
      BY <1>3 DEF MfaProved
    <2>2. k \in LoginCall /\ k.at = "proved" /\ k.email = e /\ k.role = call[c].role
      BY <1>1 DEF LoginCall
    <2>3. Relies(k) /\ k \in Call /\ k.at # "deciding"
      BY <1>1, <2>2, CallsAre DEF Relies, HasRoleFor, Through
    <2> HIDE DEF k
    <2>4. QED  BY <1>2, <2>1, <2>3, ReadKeeps
  <1>4. CASE ~InService(e)
    BY <1>2, <1>4, IdleRelies, ReadKeeps DEF MfaProved, Answer
  <1>5. QED  BY <1>3, <1>4

-----------------------------------------------------------------------------
(* The checks *)

\* decode_access_token: the request starts with the state its token has now.
LEMMA ParseKeeps ==
  ASSUME AccessInv, NEW c \in Calls, NEW j \in Jtis, Parse(c, j)
  PROVE  AccessInv'
  <1> DEFINE k == [at |-> "parsed", jti |-> j, on |-> Nothing, endedBefore |-> j \in ended,
                   disabledBefore |-> ~InService(tokens[j].email)]
  <1>1. k \in SessionCall
    BY DEF SessionCall, Requesting
  <1>2. k \in Call /\ k.at # "deciding"
    BY <1>1, CallsAre
  <1>3. Relies(k)
    BY DEF Parse, Relies, Through
  <1>4. /\ call' = [call EXCEPT ![c] = k]
        /\ UNCHANGED <<accounts, approvals, tokens, revocations, enrolments, clock, ended, decisions>>
    BY DEF Parse
  <1> HIDE DEF k
  <1>5. QED  BY <1>2, <1>3, <1>4, ReadKeeps

\* The check of the revocations comes after the expiry was compared: a request
\* whose token was ended before it began gets past it only if the token's life
\* has run out meanwhile.
LEMMA RejectRevokedKeeps ==
  ASSUME AccessInv, NEW c \in Calls, RejectRevoked(c)
  PROVE  AccessInv'
  <1> DEFINE j == call[c].jti
  <1>1. call[c].at = "parsed" /\ call[c].at \in Requesting
    BY DEF RejectRevoked, At, Requesting
  <1>2. UNCHANGED <<accounts, approvals, tokens, revocations, enrolments, clock, ended, decisions>>
    BY DEF RejectRevoked
  <1>3. CASE Revoked(j)
    BY <1>2, <1>3, IdleRelies, ReadKeeps DEF RejectRevoked, Answer
  <1>4. CASE ~Revoked(j)
    <2>1. PICK k \in SessionCall :
            /\ call' = [call EXCEPT ![c] = k] /\ k \in Call
            /\ k.at = "unrevoked" /\ k.jti = j /\ k.on = call[c].on
            /\ k.endedBefore = call[c].endedBefore /\ k.disabledBefore = call[c].disabledBefore
      BY <1>1, <1>4, GoToMoves DEF RejectRevoked, Requesting
    <2>2. j \in ended => clock >= tokens[j].exp
      <3> SUFFICES ASSUME j \in ended, ~(clock >= tokens[j].exp) PROVE FALSE
        OBVIOUS
      <3>1. clock \in Int /\ tokens[j].exp \in Nat
        BY <1>1, InSession, AccessAssumption DEF TokenOf, Token, AccessInv, AccessTypeOK
      <3>2. [jti |-> j, exp |-> tokens[j].exp] \in revocations
        BY <3>1 DEF AccessInv, RevocationsFit
      <3>3. QED  BY <1>4, <3>1, <3>2 DEF Revoked
    <2>3. Relies(k)
      BY <1>1, <2>1, <2>2, InSession DEF Relies, TokenOf, Through
    <2>4. QED  BY <1>2, <2>1, <2>3, ReadKeeps
  <1>5. QED  BY <1>3, <1>4

\* An account out of service is refused, whatever the token says.
LEMMA AuthenticateKeeps ==
  ASSUME AccessInv, NEW c \in Calls, Authenticate(c)
  PROVE  AccessInv'
  <1>1. call[c].at = "unrevoked" /\ call[c].at \in Requesting
    BY DEF Authenticate, At, Requesting
  <1>2. UNCHANGED <<accounts, approvals, tokens, revocations, enrolments, clock, ended, decisions>>
    BY DEF Authenticate
  <1>3. CASE ~AccountAllows(TokenOf(c))
    BY <1>2, <1>3, IdleRelies, ReadKeeps DEF Authenticate, Answer
  <1>4. CASE AccountAllows(TokenOf(c))
    <2>1. PICK k \in SessionCall :
            /\ call' = [call EXCEPT ![c] = k] /\ k \in Call
            /\ k.at = "authenticated" /\ k.jti = call[c].jti /\ k.on = call[c].on
            /\ k.endedBefore = call[c].endedBefore /\ k.disabledBefore = call[c].disabledBefore
      BY <1>1, <1>4, GoToMoves DEF Authenticate, Requesting, Through
    <2>2. InService(TokenOf(c).email)
      BY <1>4 DEF AccountAllows
    <2>3. Relies(k)
      BY <1>1, <2>1, <2>2, InSession DEF Relies, TokenOf, Through
    <2>4. QED  BY <1>2, <2>1, <2>3, ReadKeeps
  <1>5. QED  BY <1>3, <1>4

\* The checks on role, MFA and scope passed: the request goes on to its work.
LEMMA AuthorizeKeeps ==
  ASSUME AccessInv, NEW c \in Calls, NEW goal \in {"mayCreate", "mayDecide"}, Authorize(c, goal)
  PROVE  AccessInv'
  <1>1. call[c].at = "authenticated" /\ call[c].at \in Requesting /\ goal \in Requesting
    BY DEF Authorize, At, Requesting, Through
  <1>2. PICK k \in SessionCall :
          /\ call' = [call EXCEPT ![c] = k] /\ k \in Call
          /\ k.at = goal /\ k.jti = call[c].jti /\ k.on = call[c].on
          /\ k.endedBefore = call[c].endedBefore /\ k.disabledBefore = call[c].disabledBefore
    BY <1>1, GoToMoves DEF Authorize
  <1>3. Relies(k)
    BY <1>1, <1>2, InSession DEF Relies, TokenOf, Through
  <1>4. QED  BY <1>2, <1>3, ReadKeeps DEF Authorize

\* A read that answers and a call that fails leave every row alone.
LEMMA AnswerKeeps ==
  ASSUME AccessInv, NEW c \in Calls, Read(c) \/ Fail(c)
  PROVE  AccessInv'
  BY IdleRelies, ReadKeeps DEF Read, Fail, Answer

\* FOR UPDATE: who decides is alone with the row, and it is PENDING.
LEMMA LockApprovalKeeps ==
  ASSUME AccessInv, NEW c \in Calls, NEW e \in Emails, LockApproval(c, e)
  PROVE  AccessInv'
  <1>1. call[c].at = "mayDecide" /\ call[c].at \in Requesting
    BY DEF LockApproval, At, Requesting, Through
  <1>2. UNCHANGED <<accounts, approvals, tokens, revocations, enrolments, clock, ended, decisions>>
    BY DEF LockApproval
  <1>3. CASE approvals[e] = "PENDING"
    <2>1. PICK k \in SessionCall :
            /\ call' = [call EXCEPT ![c] = k]
            /\ k.at = "deciding" /\ k.jti = call[c].jti /\ k.on = e
            /\ k.endedBefore = call[c].endedBefore /\ k.disabledBefore = call[c].disabledBefore
      <3> DEFINE d == [call[c] EXCEPT !.at = "deciding", !.on = e]
      <3>1. call' = [call EXCEPT ![c] = d]
        BY <1>3 DEF LockApproval
      <3>2. /\ d \in SessionCall /\ d.at = "deciding" /\ d.jti = call[c].jti /\ d.on = e
            /\ d.endedBefore = call[c].endedBefore /\ d.disabledBefore = call[c].disabledBefore
        BY <1>1, InSession DEF SessionCall, Requesting, Through
      <3>3. QED  BY <3>1, <3>2
    <2>2. Relies(k)
      BY <1>1, <1>3, <2>1, InSession DEF Relies, TokenOf, Through
    <2>3. k \in Call /\ \A d \in Calls : At(d, "deciding") => call[d].on # k.on
      BY <1>3, <2>1, CallsAre DEF LockApproval, ApprovalFree
    <2>4. QED  BY <1>2, <2>1, <2>2, <2>3, ReadKeeps
  <1>4. CASE approvals[e] # "PENDING"
    BY <1>2, <1>4, IdleRelies, ReadKeeps DEF LockApproval, Answer
  <1>5. QED  BY <1>3, <1>4

-----------------------------------------------------------------------------
(* Accounts *)

\* The tables of a step that makes no token, no enrolment and ends no session.
LEMMA SessionsStay ==
  ASSUME AccessInv, Grows,
         UNCHANGED <<tokens, revocations, enrolments, clock, ended>>
  PROVE  /\ tokens' \in [Jtis -> Token \cup {Nothing}]
         /\ revocations' \subseteq [jti: Jtis, exp: Nat]
         /\ enrolments' \subseteq [email: Emails, jti: Jtis]
         /\ clock' \in 0 .. LastSecond /\ ended' \subseteq Jtis
         /\ TokensFit' /\ EnrolmentsFit' /\ RevocationsFit'
  <1>1. TokensFit'
    <2> SUFFICES ASSUME NEW j \in Jtis, tokens[j] # Nothing
                 PROVE  HasRoleFor(tokens[j].email, tokens[j].role)'
      BY DEF TokensFit
    <2>1. tokens[j].email \in Emails
      BY DEF AccessInv, AccessTypeOK, Token
    <2>2. HasRoleFor(tokens[j].email, tokens[j].role)
      BY DEF AccessInv, TokensFit
    <2>3. QED  BY <2>1, <2>2 DEF HasRoleFor, Grows, Exists
  <1>2. EnrolmentsFit' /\ RevocationsFit'
    BY DEF AccessInv, EnrolmentsFit, RevocationsFit
  <1>3. QED  BY <1>1, <1>2 DEF AccessInv, AccessTypeOK

\* A row is added for an address that has none: an account that is no auditor's, or
\* the account of an auditor with its request.
LEMMA NewAccountFits ==
  ASSUME AccessInv, NEW e \in Emails, ~Exists(e), NEW role \in Roles, NEW scopes \in SUBSET Scopes,
         NewAccount(e, role, scopes), UNCHANGED <<tokens, clock, ended, decisions>>,
         \/ role \notin {"PENDING_APPROVAL", "ASPIS_AUDITOR"} /\ UNCHANGED approvals
         \/ role = "PENDING_APPROVAL" /\ approvals' = [approvals EXCEPT ![e] = "PENDING"]
  PROVE  /\ Grows /\ \A d \in Calls : KeepsRow(d)
         /\ accounts' \in [Emails -> Account \cup {Nothing}]
         /\ approvals' \in [Emails -> Approval \cup {Nothing}]
         /\ \A x \in Emails : ApprovalFits(x)'
  <1> DEFINE row == [role |-> role, status |-> "ACTIVE", scopes |-> scopes]
  <1>1. row \in Account /\ row # Nothing
    BY NothingAssumption DEF Account
  <1>2. /\ accounts' \in [Emails -> Account \cup {Nothing}]
        /\ accounts'[e] = row
        /\ \A x \in Emails : x # e => accounts'[x] = accounts[x]
    BY <1>1 DEF NewAccount, AccessInv, AccessTypeOK
  <1>3. approvals[e] \notin Approval /\ decisions[e] = << >>
    <2>1. ApprovalFits(e)
      BY DEF AccessInv
    <2>2. \A roles : ~HasRole(e, roles)
      BY DEF HasRole
    <2>3. QED  BY <2>1, <2>2 DEF ApprovalFits, Approval
  <1>4. /\ approvals' \in [Emails -> Approval \cup {Nothing}]
        /\ \A x \in Emails : x # e => approvals'[x] = approvals[x]
        /\ approvals'[e] = IF role = "PENDING_APPROVAL" THEN "PENDING" ELSE approvals[e]
    BY DEF AccessInv, AccessTypeOK, Approval
  <1>5. Grows /\ \A d \in Calls : KeepsRow(d)
    <2>1. \A d \in Calls : At(d, "deciding") => call[d].on \in Emails /\ approvals[call[d].on] = "PENDING"
      BY DEF AccessInv, Relies, At
    <2>2. \A d \in Calls : At(d, "deciding") => approvals'[call[d].on] = approvals[call[d].on]
      BY <1>3, <1>4, <2>1 DEF Approval
    <2>3. clock' >= clock
      BY DEF AccessInv, AccessTypeOK
    <2>4. \A x \in Emails : Exists(x) => accounts'[x] = accounts[x]
      BY <1>2
    <2>5. QED  BY <2>2, <2>3, <2>4 DEF Grows, KeepsRow, Exists, InService
  <1>6. ASSUME NEW x \in Emails PROVE ApprovalFits(x)'
    <2>1. ApprovalFits(x)
      BY DEF AccessInv
    <2>2. CASE x # e
      BY <1>2, <1>4, <2>1, <2>2 DEF ApprovalFits, HasRole, InService, Exists
    <2>3. CASE x = e /\ role = "PENDING_APPROVAL"
      BY <1>1, <1>2, <1>3, <1>4, <2>3 DEF ApprovalFits, HasRole, InService, Exists
    <2>4. CASE x = e /\ role # "PENDING_APPROVAL"
      BY <1>1, <1>2, <1>3, <1>4, <2>4 DEF ApprovalFits, HasRole, InService, Exists, Approval
    <2>5. QED  BY <2>2, <2>3, <2>4
  <1>7. QED  BY <1>2, <1>4, <1>5, <1>6

\* A step of no request: the tables are all it has to show.
LEMMA TablesKeep ==
  ASSUME AccessInv, Grows, \A d \in Calls : KeepsRow(d), UNCHANGED call,
         accounts' \in [Emails -> Account \cup {Nothing}],
         approvals' \in [Emails -> Approval \cup {Nothing}],
         tokens' \in [Jtis -> Token \cup {Nothing}],
         revocations' \subseteq [jti: Jtis, exp: Nat],
         enrolments' \subseteq [email: Emails, jti: Jtis],
         clock' \in 0 .. LastSecond, ended' \subseteq Jtis,
         decisions' \in [Emails -> Seq(Approval)],
         TokensFit', EnrolmentsFit', RevocationsFit', \A e \in Emails : ApprovalFits(e)'
  PROVE  AccessInv'
  <1>1. AccessTypeOK'
    BY DEF AccessInv, AccessTypeOK
  <1>2. \A d \in Calls : Relies(call[d])'
    BY StillRelies
  <1>3. DecidersDiffer'
    BY DEF AccessInv, DecidersDiffer, At
  <1>4. QED  BY <1>1, <1>2, <1>3 DEF AccessInv

\* Nothing moves.
LEMMA StutterKeeps ==
  ASSUME AccessInv, UNCHANGED accessVars
  PROVE  AccessInv'
  <1>1. UNCHANGED <<accounts, approvals, tokens, revocations, enrolments, clock, call, ended, decisions>>
    BY DEF accessVars
  <1>2. Grows /\ \A d \in Calls : KeepsRow(d)
    BY <1>1 DEF Grows, KeepsRow, AccessInv, AccessTypeOK, Exists, InService
  <1>3. \A e \in Emails : ApprovalFits(e)'
    BY <1>1 DEF AccessInv, ApprovalFits, HasRole, InService, Exists
  <1>4. QED  BY <1>1, <1>2, <1>3, SessionsStay, TablesKeep DEF AccessInv, AccessTypeOK

\* Registration adds a row of users; nobody has a token for it yet.
LEMMA RegisterKeeps ==
  ASSUME AccessInv, NEW e \in Emails, Register(e) \/ RegisterAspisAuditor(e)
  PROVE  AccessInv'
  <1>1. UNCHANGED <<tokens, revocations, enrolments, clock, call, ended, decisions>>
    BY DEF Register, RegisterAspisAuditor
  <1>2. decisions' \in [Emails -> Seq(Approval)]
    BY <1>1 DEF AccessInv, AccessTypeOK
  <1>3. CASE Register(e) /\ Exists(e)
    <2>1. UNCHANGED <<accounts, approvals>>
      BY <1>3 DEF Register
    <2>2. QED  BY <1>1, <2>1, StutterKeeps DEF accessVars
  <1>4. CASE ~Exists(e)
    <2>1. PICK role \in Roles :
            /\ NewAccount(e, role, {})
            /\ \/ role \notin {"PENDING_APPROVAL", "ASPIS_AUDITOR"} /\ UNCHANGED approvals
               \/ role = "PENDING_APPROVAL" /\ approvals' = [approvals EXCEPT ![e] = "PENDING"]
      BY <1>4 DEF Register, RegisterAspisAuditor, Roles
    <2>2. /\ Grows /\ \A d \in Calls : KeepsRow(d)
          /\ accounts' \in [Emails -> Account \cup {Nothing}]
          /\ approvals' \in [Emails -> Approval \cup {Nothing}]
          /\ \A x \in Emails : ApprovalFits(x)'
      BY <1>1, <1>4, <2>1, NewAccountFits
    <2>3. QED  BY <1>1, <1>2, <2>2, SessionsStay, TablesKeep
  <1>5. QED  BY <1>3, <1>4 DEF RegisterAspisAuditor

\* The unique e-mail: the second replica, and a second administrator, add nothing.
LEMMA InsertUserKeeps ==
  ASSUME AccessInv, NEW c \in Calls,
         BootstrapInsert(c) \/ \E e \in Emails, scopes \in SUBSET Scopes : CreateUser(c, e, scopes)
  PROVE  AccessInv'
  <1>1. UNCHANGED <<approvals, tokens, revocations, enrolments, clock, ended, decisions>>
        /\ call' = [call EXCEPT ![c] = NoCall]
    BY DEF BootstrapInsert, CreateUser, Answer
  <1>2. CASE UNCHANGED accounts
    BY <1>1, <1>2, IdleRelies, ReadKeeps
  <1>3. CASE ~UNCHANGED accounts
    <2>1. PICK e \in Emails, role \in Roles, scopes \in SUBSET Scopes :
            /\ ~Exists(e) /\ NewAccount(e, role, scopes)
            /\ role \notin {"PENDING_APPROVAL", "ASPIS_AUDITOR"}
      <3>1. CASE BootstrapInsert(c)
        <4> DEFINE b == call[c].email
        <4>1. At(c, "booting") /\ call[c] \in Call /\ Relies(call[c])
          BY <3>1 DEF BootstrapInsert, AccessInv, AccessTypeOK
        <4>2. b \in Emails /\ b \in DOMAIN Bootstrap
          BY <4>1, CallShape DEF Relies, At
        <4>3. Bootstrap[b] \in {"BANK_ADMIN", "ASPIS_ADMIN"}
          BY <4>2, AccessAssumption
        <4>4. QED  BY <1>3, <3>1, <4>2, <4>3 DEF BootstrapInsert, Roles
      <3>2. CASE \E e \in Emails, scopes \in SUBSET Scopes : CreateUser(c, e, scopes)
        BY <1>3, <3>2 DEF CreateUser, Roles
      <3>3. QED  BY <3>1, <3>2
    <2>2. /\ Grows /\ \A d \in Calls : KeepsRow(d)
          /\ accounts' \in [Emails -> Account \cup {Nothing}]
          /\ approvals' \in [Emails -> Approval \cup {Nothing}]
          /\ \A x \in Emails : ApprovalFits(x)'
      BY <1>1, <2>1, NewAccountFits
    <2>3. decisions' \in [Emails -> Seq(Approval)]
      BY <1>1 DEF AccessInv, AccessTypeOK
    <2>4. QED  BY <1>1, <2>2, <2>3, IdleRelies, SessionsStay, StepKeeps
  <1>4. QED  BY <1>2, <1>3

\* An operator disables an account while its requests are in progress.
LEMMA OperatorDisablesKeeps ==
  ASSUME AccessInv, NEW e \in Emails, OperatorDisables(e)
  PROVE  AccessInv'
  <1>1. /\ InService(e) /\ accounts' = [accounts EXCEPT ![e].status = "DISABLED"]
        /\ UNCHANGED <<approvals, tokens, revocations, enrolments, clock, call, ended, decisions>>
    BY DEF OperatorDisables
  <1>2. Exists(e) /\ accounts[e] \in Account
    BY <1>1 DEF InService, Exists, AccessInv, AccessTypeOK
  <1>3. /\ accounts' \in [Emails -> Account \cup {Nothing}]
        /\ accounts'[e] \in Account /\ accounts'[e].role = accounts[e].role
        /\ accounts'[e].status = "DISABLED"
        /\ \A x \in Emails : x # e => accounts'[x] = accounts[x]
    BY <1>1, <1>2 DEF AccessInv, AccessTypeOK, Account
  <1>4. Exists(e)' /\ ~InService(e)'
    BY <1>3, NothingAssumption DEF Exists, InService
  <1>5. Grows /\ \A d \in Calls : KeepsRow(d)
    BY <1>1, <1>2, <1>3, <1>4 DEF Grows, KeepsRow, AccessInv, AccessTypeOK, Exists, InService
  <1>6. ASSUME NEW x \in Emails PROVE ApprovalFits(x)'
    <2>1. ApprovalFits(x)
      BY DEF AccessInv
    <2>2. CASE x = e
      BY <1>1, <1>2, <1>3, <1>4, <2>1, <2>2 DEF ApprovalFits, HasRole, InService, Exists
    <2>3. CASE x # e
      BY <1>1, <1>3, <2>1, <2>3 DEF ApprovalFits, HasRole, InService, Exists
    <2>4. QED  BY <2>2, <2>3
  <1>7. approvals' \in [Emails -> Approval \cup {Nothing}] /\ decisions' \in [Emails -> Seq(Approval)]
    BY <1>1 DEF AccessInv, AccessTypeOK
  <1>8. QED  BY <1>1, <1>3, <1>5, <1>6, <1>7, SessionsStay, TablesKeep

\* Time takes nothing back; a token whose life is over needs no revocation.
LEMMA TickKeeps ==
  ASSUME AccessInv, AccessTick
  PROVE  AccessInv'
  <1>1. /\ clock' = clock + 1 /\ clock < LastSecond
        /\ UNCHANGED <<accounts, approvals, tokens, revocations, enrolments, call, ended, decisions>>
    BY DEF AccessTick
  <1>2. clock' \in 0 .. LastSecond /\ clock \in Int /\ clock' >= clock
    BY <1>1, AccessAssumption DEF AccessInv, AccessTypeOK
  <1>3. Grows /\ \A d \in Calls : KeepsRow(d)
    BY <1>1, <1>2 DEF Grows, KeepsRow, Exists, InService
  <1>4. TokensFit' /\ EnrolmentsFit'
    BY <1>1 DEF AccessInv, TokensFit, EnrolmentsFit, HasRoleFor, Exists
  <1>5. RevocationsFit'
    <2>1. \A j \in ended : tokens[j] # Nothing /\ tokens[j].exp \in Nat
      BY DEF AccessInv, AccessTypeOK, RevocationsFit, Token
    <2>2. QED  BY <1>1, <1>2, <2>1 DEF AccessInv, RevocationsFit
  <1>6. \A e \in Emails : ApprovalFits(e)'
    BY <1>1 DEF AccessInv, ApprovalFits, HasRole, InService, Exists
  <1>7. QED  BY <1>1, <1>2, <1>3, <1>4, <1>5, <1>6, TablesKeep DEF AccessInv, AccessTypeOK

-----------------------------------------------------------------------------
(* Sessions *)

\* The tables of a step that changes no account and no approval.
LEMMA AccountsStay ==
  ASSUME AccessInv, UNCHANGED <<accounts, approvals, clock, decisions>>,
         \A j \in Jtis : tokens[j] # Nothing => tokens'[j] = tokens[j], ended \subseteq ended'
  PROVE  /\ Grows /\ \A d \in Calls : KeepsRow(d)
         /\ accounts' \in [Emails -> Account \cup {Nothing}]
         /\ approvals' \in [Emails -> Approval \cup {Nothing}]
         /\ clock' \in 0 .. LastSecond
         /\ decisions' \in [Emails -> Seq(Approval)]
         /\ \A e \in Emails : ApprovalFits(e)'
  <1>1. Grows /\ \A d \in Calls : KeepsRow(d)
    BY DEF Grows, KeepsRow, AccessInv, AccessTypeOK, Exists, InService
  <1>2. \A e \in Emails : ApprovalFits(e)'
    BY DEF AccessInv, ApprovalFits, HasRole, InService, Exists
  <1>3. QED  BY <1>1, <1>2 DEF AccessInv, AccessTypeOK

\* A token is issued once, for the role its account has.
LEMMA IssueSessionKeeps ==
  ASSUME AccessInv, NEW c \in Calls, NEW j \in Jtis, IssueSession(c, j)
  PROVE  AccessInv'
  <1> DEFINE t == [email |-> call[c].email, role |-> call[c].role, exp |-> clock + JwtTtl,
                   mfa |-> IF At(c, "proved") THEN clock ELSE Nothing]
  <1>1. /\ tokens[j] = Nothing /\ tokens' = [tokens EXCEPT ![j] = t]
        /\ call' = [call EXCEPT ![c] = NoCall]
        /\ UNCHANGED <<accounts, approvals, revocations, enrolments, clock, ended, decisions>>
    BY DEF IssueSession, Answer
  <1>2. call[c] \in LoginCall /\ HasRoleFor(call[c].email, call[c].role)
    <2>1. call[c] \in Call /\ Relies(call[c]) /\ call[c].at \in {"passwordOk", "proved"}
      BY DEF AccessInv, AccessTypeOK, IssueSession, At
    <2>2. QED  BY <2>1, CallShape DEF Relies
  <1>3. clock \in Nat /\ clock + JwtTtl \in Nat
    BY AccessAssumption DEF AccessInv, AccessTypeOK
  <1>4. t \in Token /\ t.email = call[c].email /\ t.role = call[c].role
    <2>1. call[c].email \in Emails /\ call[c].role \in Roles \ {"PENDING_APPROVAL"}
      BY <1>2 DEF LoginCall, HasRoleFor
    <2>2. QED  BY <1>3, <2>1 DEF Token
  <1> HIDE DEF t
  <1>5. /\ tokens' \in [Jtis -> Token \cup {Nothing}] /\ tokens'[j] = t
        /\ \A i \in Jtis : i # j => tokens'[i] = tokens[i]
    BY <1>1, <1>4 DEF AccessInv, AccessTypeOK
  <1>6. TokensFit'
    BY <1>1, <1>2, <1>4, <1>5 DEF AccessInv, TokensFit, HasRoleFor, Exists
  <1>7. EnrolmentsFit'
    <2>1. \A x \in enrolments : x.jti \in Jtis /\ x.jti # j
      BY <1>1 DEF AccessInv, AccessTypeOK, EnrolmentsFit
    <2>2. QED  BY <1>1, <1>5, <2>1 DEF AccessInv, EnrolmentsFit
  <1>8. RevocationsFit'
    <2>1. \A i \in ended : i \in Jtis /\ i # j
      BY <1>1 DEF AccessInv, AccessTypeOK, RevocationsFit
    <2>2. QED  BY <1>1, <1>5, <2>1 DEF AccessInv, RevocationsFit
  <1>9. revocations' \subseteq [jti: Jtis, exp: Nat] /\ enrolments' \subseteq [email: Emails, jti: Jtis]
        /\ ended' \subseteq Jtis
    BY <1>1 DEF AccessInv, AccessTypeOK
  <1>10. \A i \in Jtis : tokens[i] # Nothing => tokens'[i] = tokens[i]
    BY <1>1, <1>5
  <1>11. QED  BY <1>1, <1>5, <1>6, <1>7, <1>8, <1>9, <1>10, AccountsStay, IdleRelies, StepKeeps

\* The purge drops only rows whose token's life is over.
LEMMA PurgeKeeps ==
  ASSUME AccessInv, NEW c \in Calls, PurgeRevocations(c)
  PROVE  AccessInv'
  <1>1. /\ revocations' = {r \in revocations : r.exp > clock}
        /\ UNCHANGED <<accounts, approvals, tokens, enrolments, clock, ended, decisions>>
    BY DEF PurgeRevocations
  <1>2. call[c].at = "authenticated" /\ call[c].at \in Requesting
    BY DEF PurgeRevocations, At, Requesting, Through
  <1>3. PICK k \in SessionCall :
          /\ call' = [call EXCEPT ![c] = k] /\ k \in Call
          /\ k.at = "leaving" /\ k.jti = call[c].jti /\ k.on = call[c].on
          /\ k.endedBefore = call[c].endedBefore /\ k.disabledBefore = call[c].disabledBefore
    BY <1>2, GoToMoves DEF PurgeRevocations, Requesting, Through
  <1>4. Relies(k)'
    <2>1. Relies(k)
      BY <1>2, <1>3, InSession DEF Relies, TokenOf, Through
    <2>2. QED  BY <1>1, <2>1 DEF Relies, HasRoleFor, Exists, InService
  <1>5. TokensFit' /\ EnrolmentsFit'
    BY <1>1 DEF AccessInv, TokensFit, EnrolmentsFit, HasRoleFor, Exists
  <1>6. RevocationsFit'
    <2> SUFFICES ASSUME NEW j \in ended, clock < tokens[j].exp
                 PROVE  [jti |-> j, exp |-> tokens[j].exp] \in revocations'
      BY <1>1 DEF RevocationsFit, AccessInv
    <2>1. [jti |-> j, exp |-> tokens[j].exp] \in revocations
      BY DEF AccessInv, RevocationsFit
    <2>2. clock \in Int /\ tokens[j].exp \in Nat
      BY <2>1 DEF AccessInv, AccessTypeOK
    <2>3. QED  BY <1>1, <2>1, <2>2
  <1>7. /\ tokens' \in [Jtis -> Token \cup {Nothing}]
        /\ revocations' \subseteq [jti: Jtis, exp: Nat] /\ enrolments' \subseteq [email: Emails, jti: Jtis]
        /\ ended' \subseteq Jtis
    BY <1>1 DEF AccessInv, AccessTypeOK
  <1>8. \A i \in Jtis : tokens[i] # Nothing => tokens'[i] = tokens[i]
    BY <1>1
  <1>9. k.at # "deciding"
    BY <1>3
  <1>10. QED  BY <1>1, <1>3, <1>4, <1>5, <1>6, <1>7, <1>8, <1>9, AccountsStay, StepKeeps

\* Ending a token writes a row with the token's own expiry.
LEMMA EndTokenFits ==
  ASSUME AccessInv, NEW j \in Jtis, tokens[j] # Nothing, EndToken(j), ended' = ended \cup {j},
         UNCHANGED <<tokens, accounts, clock>>
  PROVE  /\ revocations' \subseteq [jti: Jtis, exp: Nat] /\ ended' \subseteq Jtis
         /\ tokens' \in [Jtis -> Token \cup {Nothing}]
         /\ TokensFit' /\ RevocationsFit'
  <1>1. tokens[j].exp \in Nat
    BY DEF AccessInv, AccessTypeOK, Token
  <1>2. TokensFit'
    BY DEF AccessInv, TokensFit, HasRoleFor, Exists
  <1>3. RevocationsFit'
    BY DEF AccessInv, RevocationsFit, EndToken
  <1>4. QED  BY <1>1, <1>2, <1>3 DEF AccessInv, AccessTypeOK, EndToken

\* Logout writes the revocation that later requests will find.
LEMMA RevokeKeeps ==
  ASSUME AccessInv, NEW c \in Calls, RevokeAccessToken(c)
  PROVE  AccessInv'
  <1> DEFINE j == call[c].jti
  <1>1. /\ EndToken(j) /\ ended' = ended \cup {j} /\ call' = [call EXCEPT ![c] = NoCall]
        /\ UNCHANGED <<accounts, approvals, tokens, enrolments, clock, decisions>>
    BY DEF RevokeAccessToken, Answer
  <1>2. j \in Jtis /\ tokens[j] # Nothing
    <2>1. call[c].at \in Requesting
      BY DEF RevokeAccessToken, At, Requesting, Through
    <2>2. QED  BY <2>1, InSession DEF TokenOf
  <1>3. /\ revocations' \subseteq [jti: Jtis, exp: Nat] /\ ended' \subseteq Jtis
        /\ tokens' \in [Jtis -> Token \cup {Nothing}]
        /\ TokensFit' /\ RevocationsFit'
    BY <1>1, <1>2, EndTokenFits
  <1>4. EnrolmentsFit' /\ enrolments' \subseteq [email: Emails, jti: Jtis]
    BY <1>1 DEF AccessInv, EnrolmentsFit, AccessTypeOK
  <1>5. ended \subseteq ended' /\ \A i \in Jtis : tokens[i] # Nothing => tokens'[i] = tokens[i]
    BY <1>1
  <1>6. QED  BY <1>1, <1>3, <1>4, <1>5, AccountsStay, IdleRelies, StepKeeps

\* An enrolment that is begun has the token that begins it.
LEMMA BeginMfaEnrollmentKeeps ==
  ASSUME AccessInv, NEW c \in Calls, BeginMfaEnrollment(c)
  PROVE  AccessInv'
  <1>1. /\ call' = [call EXCEPT ![c] = NoCall]
        /\ UNCHANGED <<accounts, approvals, tokens, revocations, clock, ended, decisions>>
    BY DEF BeginMfaEnrollment, Answer
  <1>2. /\ TokenOf(c) # Nothing /\ TokenOf(c).email \in Emails /\ call[c].jti \in Jtis
    BY InSession DEF BeginMfaEnrollment, At, Requesting, Through
  <1>3. EnrolmentsFit' /\ enrolments' \subseteq [email: Emails, jti: Jtis]
    <2> DEFINE x == [email |-> TokenOf(c).email, jti |-> call[c].jti]
    <2>1. enrolments' \subseteq enrolments \cup {x}
      BY DEF BeginMfaEnrollment
    <2>2. tokens[x.jti] # Nothing /\ tokens[x.jti].email = x.email
          /\ x \in [email: Emails, jti: Jtis]
      BY <1>2 DEF TokenOf
    <2> HIDE DEF x
    <2>3. QED  BY <1>1, <2>1, <2>2 DEF AccessInv, AccessTypeOK, EnrolmentsFit
  <1>4. TokensFit' /\ RevocationsFit'
    BY <1>1 DEF AccessInv, TokensFit, RevocationsFit, HasRoleFor, Exists
  <1>5. /\ tokens' \in [Jtis -> Token \cup {Nothing}]
        /\ revocations' \subseteq [jti: Jtis, exp: Nat] /\ ended' \subseteq Jtis
    BY <1>1 DEF AccessInv, AccessTypeOK
  <1>6. ended \subseteq ended' /\ \A i \in Jtis : tokens[i] # Nothing => tokens'[i] = tokens[i]
    BY <1>1
  <1>7. QED  BY <1>1, <1>3, <1>4, <1>5, <1>6, AccountsStay, IdleRelies, StepKeeps

\* The session that began the enrolment ends with it.
LEMMA CompleteEnrollmentKeeps ==
  ASSUME AccessInv, NEW c \in Calls, NEW x \in enrolments, CompleteEnrollment(c, x)
  PROVE  AccessInv'
  <1>1. /\ EndToken(x.jti) /\ ended' = ended \cup {x.jti}
        /\ call' = [call EXCEPT ![c] =
                      [at |-> "proved", email |-> x.email, role |-> accounts[x.email].role]]
        /\ enrolments' = enrolments \ {x}
        /\ UNCHANGED <<accounts, approvals, tokens, clock, decisions>>
    BY DEF CompleteEnrollment
  <1>2. x.jti \in Jtis /\ x.email \in Emails /\ tokens[x.jti] # Nothing /\ tokens[x.jti].email = x.email
    BY DEF AccessInv, AccessTypeOK, EnrolmentsFit
  <1>3. Exists(x.email) /\ accounts[x.email].role # "PENDING_APPROVAL"
        /\ accounts[x.email].role \in Roles
    <2>1. HasRoleFor(x.email, tokens[x.jti].role)
      BY <1>2 DEF AccessInv, TokensFit
    <2>2. accounts[x.email] \in Account
      BY <1>2, <2>1 DEF HasRoleFor, Exists, AccessInv, AccessTypeOK
    <2>3. QED  BY <2>1, <2>2 DEF HasRoleFor, Account
  <1>4. PICK k \in LoginCall :
          /\ call' = [call EXCEPT ![c] = k]
          /\ k.at = "proved" /\ k.email = x.email /\ k.role = accounts[x.email].role
    <2> DEFINE k == [at |-> "proved", email |-> x.email, role |-> accounts[x.email].role]
    <2>1. k \in LoginCall /\ call' = [call EXCEPT ![c] = k]
      BY <1>1, <1>2, <1>3 DEF LoginCall
    <2>2. k.at = "proved" /\ k.email = x.email /\ k.role = accounts[x.email].role
      OBVIOUS
    <2>3. QED  BY <2>1, <2>2
  <1>5. k \in Call /\ k.at # "deciding" /\ Relies(k)'
    <2>1. Relies(k)'
      BY <1>1, <1>3, <1>4 DEF Relies, HasRoleFor, Exists, Through
    <2>2. QED  BY <1>4, <2>1, CallsAre
  <1>6. /\ revocations' \subseteq [jti: Jtis, exp: Nat] /\ ended' \subseteq Jtis
        /\ tokens' \in [Jtis -> Token \cup {Nothing}]
        /\ TokensFit' /\ RevocationsFit'
    BY <1>1, <1>2, EndTokenFits
  <1>7. EnrolmentsFit' /\ enrolments' \subseteq [email: Emails, jti: Jtis]
    BY <1>1 DEF AccessInv, EnrolmentsFit, AccessTypeOK
  <1>8. ended \subseteq ended' /\ \A i \in Jtis : tokens[i] # Nothing => tokens'[i] = tokens[i]
    BY <1>1
  <1>9. QED  BY <1>1, <1>4, <1>5, <1>6, <1>7, <1>8, AccountsStay, StepKeeps

-----------------------------------------------------------------------------
(* Decisions *)

\* Who decides has found the row PENDING and nobody else has it: the account still
\* waits for its approval, and no session has been opened for it.
LEMMA DecideKeeps ==
  ASSUME AccessInv, NEW c \in Calls, NEW status \in {"APPROVED", "REJECTED"}, Decide(c, status)
  PROVE  AccessInv'
  <1> DEFINE e == call[c].on
             row == IF status = "APPROVED"
                      THEN [accounts[e] EXCEPT !.role = "ASPIS_AUDITOR", !.status = "ACTIVE"]
                      ELSE [accounts[e] EXCEPT !.status = "DISABLED"]
  <1>1. /\ At(c, "deciding") /\ accounts' = [accounts EXCEPT ![e] = row]
        /\ approvals' = [approvals EXCEPT ![e] = status]
        /\ decisions' = [decisions EXCEPT ![e] = Append(@, status)]
        /\ call' = [call EXCEPT ![c] = NoCall]
        /\ UNCHANGED <<tokens, revocations, enrolments, clock, ended>>
    BY DEF Decide, Answer
  <1>2. e \in Emails /\ approvals[e] = "PENDING"
    BY <1>1 DEF AccessInv, Relies, At
  <1>3. /\ Exists(e) /\ accounts[e] \in Account /\ accounts[e].role = "PENDING_APPROVAL"
        /\ decisions[e] = << >>
    BY <1>2 DEF AccessInv, AccessTypeOK, ApprovalFits, HasRole, Exists
  <1>4. /\ row \in Account /\ row # Nothing
        /\ status = "APPROVED" => row.role = "ASPIS_AUDITOR"
        /\ status = "REJECTED" => row.role = "PENDING_APPROVAL" /\ row.status = "DISABLED"
    BY <1>3, NothingAssumption DEF Account, Roles
  <1> HIDE DEF row
  <1>5. /\ accounts' \in [Emails -> Account \cup {Nothing}] /\ accounts'[e] = row
        /\ \A x \in Emails : x # e => accounts'[x] = accounts[x]
    BY <1>1, <1>2, <1>4 DEF AccessInv, AccessTypeOK
  <1>6. /\ approvals' \in [Emails -> Approval \cup {Nothing}] /\ approvals'[e] = status
        /\ \A x \in Emails : x # e => approvals'[x] = approvals[x]
    BY <1>1, <1>2 DEF AccessInv, AccessTypeOK, Approval
  <1>7. /\ decisions' \in [Emails -> Seq(Approval)] /\ decisions'[e] = <<status>>
        /\ \A x \in Emails : x # e => decisions'[x] = decisions[x]
    <2>1. Append(decisions[e], status) = <<status>> /\ <<status>> \in Seq(Approval)
      BY <1>3 DEF Approval
    <2>2. QED  BY <1>1, <1>2, <2>1 DEF AccessInv, AccessTypeOK
  <1>8. Grows /\ \A d \in Calls : d # c => KeepsRow(d)
    <2>1. \A x \in Emails : Exists(x) /\ accounts[x].role # "PENDING_APPROVAL" => accounts'[x] = accounts[x]
      BY <1>3, <1>5
    <2>2. clock' >= clock
      BY <1>1 DEF AccessInv, AccessTypeOK
    <2>3. Grows
      BY <1>1, <2>1, <2>2 DEF Grows, Exists, InService
    <2>4. ASSUME NEW d \in Calls, d # c, At(d, "deciding") PROVE approvals'[call[d].on] = approvals[call[d].on]
      BY <1>1, <1>6, <2>4 DEF AccessInv, DecidersDiffer, Relies, At
    <2>5. QED  BY <2>3, <2>4 DEF KeepsRow
  <1>9. ASSUME NEW x \in Emails PROVE ApprovalFits(x)'
    <2>1. ApprovalFits(x)
      BY DEF AccessInv
    <2>2. CASE x # e
      BY <1>5, <1>6, <1>7, <2>1, <2>2 DEF ApprovalFits, HasRole, InService, Exists
    <2>3. CASE x = e
      <3>1. approvals'[x] = status /\ accounts'[x] = row /\ decisions'[x] = <<status>>
        BY <1>5, <1>6, <1>7, <2>3
      <3>2. QED  BY <1>4, <3>1 DEF ApprovalFits, HasRole, InService, Exists
    <2>4. QED  BY <2>2, <2>3
  <1>10. QED  BY <1>1, <1>5, <1>6, <1>7, <1>8, <1>9, SessionsStay, IdleRelies, StepKeeps

-----------------------------------------------------------------------------
\* What requests in progress rely on holds in every behaviour.
THEOREM AccessInductive == AccessSpec => []AccessInv
  <1>1. AccessInit => AccessInv
    <2> SUFFICES ASSUME AccessInit PROVE AccessInv
      OBVIOUS
    <2>1. \A c \in Calls : call[c] = NoCall
      BY DEF AccessInit
    <2>2. AccessTypeOK
      BY AccessAssumption, CallsAre DEF AccessInit, AccessTypeOK
    <2>3. TokensFit /\ EnrolmentsFit /\ RevocationsFit
      BY DEF AccessInit, TokensFit, EnrolmentsFit, RevocationsFit
    <2>4. \A e \in Emails : ApprovalFits(e)
      BY NothingAssumption DEF AccessInit, ApprovalFits, HasRole, Exists, Approval
    <2>5. \A c \in Calls : Relies(call[c])
      BY <2>1, IdleRelies
    <2>6. DecidersDiffer
      BY <2>1 DEF DecidersDiffer, At, NoCall
    <2>7. QED  BY <2>2, <2>3, <2>4, <2>5, <2>6 DEF AccessInv
  <1>2. ASSUME AccessInv, [AccessNext]_accessVars PROVE AccessInv'
    <2>1. CASE AccessTick
      BY <1>2, <2>1, TickKeeps
    <2>2. ASSUME NEW e \in Applicants, Register(e) \/ RegisterAspisAuditor(e) PROVE AccessInv'
      BY <1>2, <2>2, AccessAssumption, RegisterKeeps
    <2>3. ASSUME NEW e \in Emails, OperatorDisables(e) PROVE AccessInv'
      BY <1>2, <2>3, OperatorDisablesKeeps
    <2>4. ASSUME NEW c \in Calls, NEW e \in DOMAIN Bootstrap, BootstrapLook(c, e) PROVE AccessInv'
      BY <1>2, <2>4, AccessAssumption, LoginKeeps
    <2>5. ASSUME NEW c \in Calls,
                 \/ BootstrapInsert(c) \/ MfaProved(c) \/ RejectRevoked(c) \/ Authenticate(c)
                 \/ Read(c) \/ Fail(c) \/ PurgeRevocations(c) \/ RevokeAccessToken(c)
                 \/ BeginMfaEnrollment(c)
          PROVE  AccessInv'
      BY <1>2, <2>5, InsertUserKeeps, MfaProvedKeeps, RejectRevokedKeeps, AuthenticateKeeps,
         AnswerKeeps, PurgeKeeps, RevokeKeeps, BeginMfaEnrollmentKeeps
    <2>6. ASSUME NEW c \in Calls, NEW x \in enrolments, CompleteEnrollment(c, x) PROVE AccessInv'
      BY <1>2, <2>6, CompleteEnrollmentKeeps
    <2>7. ASSUME NEW c \in Calls, NEW e \in Emails, LoginRead(c, e) \/ LockApproval(c, e)
          PROVE  AccessInv'
      BY <1>2, <2>7, LoginKeeps, LockApprovalKeeps
    <2>8. ASSUME NEW c \in Calls, NEW e \in Emails, NEW scopes \in SUBSET Scopes,
                 CreateUser(c, e, scopes)
          PROVE  AccessInv'
      BY <1>2, <2>8, InsertUserKeeps
    <2>9. ASSUME NEW c \in Calls, NEW status \in {"APPROVED", "REJECTED"}, Decide(c, status)
          PROVE  AccessInv'
      BY <1>2, <2>9, DecideKeeps
    <2>10. ASSUME NEW c \in Calls, NEW j \in Jtis, IssueSession(c, j) \/ Parse(c, j) PROVE AccessInv'
      BY <1>2, <2>10, IssueSessionKeeps, ParseKeeps
    <2>11. ASSUME NEW c \in Calls, NEW goal \in {"mayCreate", "mayDecide"}, Authorize(c, goal)
           PROVE  AccessInv'
      BY <1>2, <2>11, AuthorizeKeeps
    <2>12. CASE UNCHANGED accessVars
      BY <1>2, <2>12, StutterKeeps
    <2>13. QED  BY <1>2, <2>1, <2>2, <2>3, <2>4, <2>5, <2>6, <2>7, <2>8, <2>9, <2>10, <2>11, <2>12
      DEF AccessNext
  <1>3. QED  BY <1>1, <1>2, PTL DEF AccessSpec

\* Logout and re-enrolment are final, and an account that is out of service gets
\* nothing more: no request that arrives later passes its checks (auth.py,
\* _reject_revoked_token and current_user).
THEOREM EndedSessionsStayOut == AccessSpec => []EndedSessionsRefused
  <1>1. ASSUME AccessInv PROVE EndedSessionsRefused
    <2> SUFFICES ASSUME NEW c \in Calls, Passed(c)
                 PROVE  /\ call[c].endedBefore => clock >= TokenOf(c).exp
                        /\ ~call[c].disabledBefore
      BY DEF EndedSessionsRefused
    <2>1. call[c].at \in Requesting /\ call[c].at \in Through /\ call[c].at # "parsed"
      BY DEF Passed, Requesting, Through
    <2>2. call[c] \in SessionCall
      BY <1>1, <2>1, InSession
    <2>3. QED  BY <1>1, <2>1, <2>2, InSession DEF SessionCall
  <1>2. QED  BY <1>1, AccessInductive, PTL

\* An auditor is decided once, and never held a session before the approval
\* (api.py, decide_aspis_auditor_request).
THEOREM AuditorsDecidedOnce == AccessSpec => []AuditorDecidedOnce
  <1>1. ASSUME AccessInv PROVE AuditorDecidedOnce
    <2> SUFFICES ASSUME NEW e \in Emails
                 PROVE  /\ Len(decisions[e]) <= 1
                        /\ decisions[e] = <<"APPROVED">> <=> HasRole(e, {"ASPIS_AUDITOR"})
                        /\ decisions[e] = <<"REJECTED">> =>
                             /\ HasRole(e, {"PENDING_APPROVAL"}) /\ ~InService(e)
                             /\ \A j \in Jtis : tokens[j] = Nothing \/ tokens[j].email # e
      BY DEF AuditorDecidedOnce
    <2>1. ApprovalFits(e)
      BY <1>1 DEF AccessInv
    <2>2. /\ <<"APPROVED">> # <<"REJECTED">> /\ << >> # <<"APPROVED">> /\ << >> # <<"REJECTED">>
          /\ Len(<<"APPROVED">>) = 1 /\ Len(<<"REJECTED">>) = 1 /\ Len(<< >>) = 0
      OBVIOUS
    <2>3. /\ decisions[e] = << >> \/ decisions[e] = <<"APPROVED">> \/ decisions[e] = <<"REJECTED">>
          /\ decisions[e] = <<"APPROVED">> <=> HasRole(e, {"ASPIS_AUDITOR"})
          /\ decisions[e] = <<"REJECTED">> => HasRole(e, {"PENDING_APPROVAL"}) /\ ~InService(e)
      <3>1. CASE approvals[e] = "PENDING" \/ approvals[e] \notin Approval
        <4>1. decisions[e] = << >> /\ ~HasRole(e, {"ASPIS_AUDITOR"})
          BY <2>1, <3>1 DEF ApprovalFits, HasRole, Approval
        <4>2. QED  BY <2>2, <4>1
      <3>2. CASE approvals[e] = "APPROVED"
        <4>1. decisions[e] = <<"APPROVED">> /\ HasRole(e, {"ASPIS_AUDITOR"})
          BY <2>1, <3>2 DEF ApprovalFits
        <4>2. QED  BY <2>2, <4>1
      <3>3. CASE approvals[e] = "REJECTED"
        <4>1. /\ decisions[e] = <<"REJECTED">> /\ HasRole(e, {"PENDING_APPROVAL"}) /\ ~InService(e)
              /\ ~HasRole(e, {"ASPIS_AUDITOR"})
          BY <2>1, <3>3 DEF ApprovalFits, HasRole
        <4>2. QED  BY <2>2, <4>1
      <3>4. QED  BY <3>1, <3>2, <3>3 DEF Approval
    <2>4. HasRole(e, {"PENDING_APPROVAL"}) => \A j \in Jtis : tokens[j] = Nothing \/ tokens[j].email # e
      BY <1>1 DEF AccessInv, TokensFit, HasRoleFor, HasRole
    <2>5. Len(decisions[e]) <= 1
      <3>1. CASE decisions[e] = << >>
        BY <3>1
      <3>2. CASE decisions[e] = <<"APPROVED">>
        BY <3>2
      <3>3. CASE decisions[e] = <<"REJECTED">>
        BY <3>3
      <3>4. QED  BY <2>3, <3>1, <3>2, <3>3
    <2>6. QED  BY <2>3, <2>4, <2>5
  <1>2. QED  BY <1>1, AccessInductive, PTL

-----------------------------------------------------------------------------
(***************************************************************************)
(* Factors and challenges                                                  *)
(***************************************************************************)
Labels == {"idle", "insert", "verify", "commit", "guard", "revoke"}

Completing == [kind : {"complete"}, txn : Transactions, answer : Given,
               factor : Factors \cup {None}, ok : BOOLEAN]
Removing   == [kind : {"remove"}, factor : Factors]
Starting   == [kind : {"start"}, user : Users, purpose : {"LOGIN", "ENROLL_CHOICE"}]

\* What a request holds at each label (mfa.py, the locals of each method).
LEMMA JobsByLabel ==
  /\ JobAt("idle") = {NoJob}
  /\ JobAt("insert") = Starting
  /\ JobAt("guard") = Removing /\ JobAt("revoke") = Removing
  /\ JobAt("verify") = Completing /\ JobAt("commit") = Completing
  BY DEF JobAt, Starting, Removing, Completing

\* The jobs of a well-typed state.
LEMMA JobOf ==
  ASSUME TypeOK, NEW s \in Sessions
  PROVE  /\ pc[s] \in Labels
         /\ pc[s] = "insert" => job[s] \in Starting
         /\ pc[s] \in {"guard", "revoke"} => job[s] \in Removing
         /\ pc[s] \in {"verify", "commit"} => job[s] \in Completing
  BY JobsByLabel DEF TypeOK, Labels

\* A factor is an authenticator app or a passkey, and names its row.
LEMMA FactorKinds ==
  /\ \A f \in Factors : (\E u \in Users : f = TotpOf(u)) \/ (\E c \in Passkeys : f = PasskeyOf(c))
  /\ \A u \in Users : TotpOf(u) \in Factors
  /\ \A c \in Passkeys : PasskeyOf(c) \in Factors
  /\ \A u : TotpOf(u)[1] = "totp" /\ TotpOf(u)[2] = u
  /\ \A c : PasskeyOf(c)[1] = "passkey" /\ PasskeyOf(c)[2] = c
  BY DEF Factors, TotpOf, PasskeyOf

\* One request moves; the others stay where they are (Goto, Finish).
LEMMA JobMoves ==
  ASSUME TypeOK, NEW s \in Sessions, NEW label \in Labels, NEW j \in JobAt(label),
         Goto(s, label, j)
  PROVE  /\ pc' \in [Sessions -> Labels]
         /\ DOMAIN job' = Sessions /\ \A t \in Sessions : job'[t] \in JobAt(pc'[t])
         /\ pc'[s] = label /\ job'[s] = j
         /\ \A t \in Sessions : t # s => pc'[t] = pc[t] /\ job'[t] = job[t]
  <1>1. /\ pc'[s] = label /\ job'[s] = j
        /\ \A t \in Sessions : t # s => pc'[t] = pc[t] /\ job'[t] = job[t]
        /\ pc' \in [Sessions -> Labels] /\ DOMAIN job' = Sessions
    BY DEF Goto, TypeOK, Labels
  <1>2. ASSUME NEW t \in Sessions PROVE job'[t] \in JobAt(pc'[t])
    BY <1>1 DEF TypeOK
  <1>3. QED  BY <1>1, <1>2

\* A request that ends goes back to nothing.
LEMMA Ends ==
  ASSUME TypeOK, NEW s \in Sessions, Finish(s)
  PROVE  /\ pc' \in [Sessions -> Labels]
         /\ DOMAIN job' = Sessions /\ \A t \in Sessions : job'[t] \in JobAt(pc'[t])
         /\ pc'[s] = "idle" /\ job'[s] = NoJob
         /\ \A t \in Sessions : t # s => pc'[t] = pc[t] /\ job'[t] = job[t]
  <1>1. Goto(s, "idle", NoJob)
    BY DEF Finish, Goto
  <1>2. NoJob \in JobAt("idle") /\ "idle" \in Labels
    BY JobsByLabel DEF Labels
  <1>3. QED  BY <1>1, <1>2, JobMoves

\* The locks of a request that ends are free again; those of the others stay.
LEMMA LocksReleased ==
  ASSUME TypeOK, LocksHeld, NEW s \in Sessions, Finish(s)
  PROVE  LocksHeld'
  <1>1. /\ pc'[s] = "idle"
        /\ \A t \in Sessions : t # s => pc'[t] = pc[t] /\ job'[t] = job[t]
    BY Ends
  <1>2. QED  BY <1>1 DEF LocksHeld, HoldsTransaction, HoldsFactor

\* A right answer, row by row: it fits the app of the user or a passkey of theirs.
LEMMA RightAnswers ==
  ASSUME TypeOK, NEW x \in Transactions, transactions[x] # NoTransaction,
         NEW answer \in Given, NEW f
  PROVE  LET u == transactions[x].user
         IN RightLogin(x, answer, f) <=>
              \/ /\ answer.kind = "totp" /\ f = TotpOf(u) /\ totp[u].active
                 /\ answer.secret = totp[u].secret /\ answer.step > totp[u].lastUsed
              \/ /\ answer.kind = "passkey" /\ f = PasskeyOf(answer.id)
                 /\ Device[answer.id] = u /\ passkeys[answer.id] = "ACTIVE"
  <1>1. CASE answer.kind = "totp"
    BY <1>1, FactorKinds DEF RightLogin, FactorOf, OwnerOf, Active
  <1>2. CASE answer.kind = "passkey"
    BY <1>2, FactorKinds DEF RightLogin, FactorOf, OwnerOf, Active
  <1>3. QED  BY <1>1, <1>2 DEF Given

\* What a request found right stays right while nobody changes its challenge and
\* its factor.
LEMMA FitStays ==
  ASSUME TypeOK, NEW t \in Sessions, AnswerFits(t), pc'[t] = pc[t], job'[t] = job[t],
         pc[t] \in {"verify", "commit"} =>
           /\ transactions'[job[t].txn] # NoTransaction
           /\ transactions'[job[t].txn].user = transactions[job[t].txn].user
           /\ transactions'[job[t].txn].purpose = transactions[job[t].txn].purpose
           /\ transactions'[job[t].txn].attempts = transactions[job[t].txn].attempts
           /\ transactions'[job[t].txn].consumed = transactions[job[t].txn].consumed,
         pc[t] = "commit" =>
           /\ \A u \in Users : job[t].factor = TotpOf(u) => totp'[u] = totp[u]
           /\ \A c \in Passkeys :
                job[t].factor = PasskeyOf(c) /\ passkeys[c] = "ACTIVE" => passkeys'[c] = "ACTIVE"
  PROVE  AnswerFits(t)'
  <1>1. pc[t] \in {"verify", "commit"} => Open(job[t].txn)'
    BY DEF AnswerFits, Open
  <1>2. ASSUME pc[t] = "commit", job[t].ok, transactions[job[t].txn].purpose = "LOGIN"
        PROVE  RightLogin(job[t].txn, job[t].answer, job[t].factor)'
    <2>1. /\ job[t] \in Completing /\ transactions[job[t].txn] # NoTransaction
          /\ RightLogin(job[t].txn, job[t].answer, job[t].factor)
      BY <1>2, JobOf DEF AnswerFits, Open
    <2>2. /\ job[t].txn \in Transactions /\ job[t].answer \in Given
          /\ transactions[job[t].txn].user \in Users
      BY <2>1 DEF Completing, TypeOK, TransactionRow
    <2>3. CASE job[t].answer.kind = "totp"
      BY <1>2, <2>1, <2>2, <2>3, FactorKinds DEF RightLogin, FactorOf, OwnerOf, Active
    <2>4. CASE job[t].answer.kind = "passkey"
      BY <1>2, <2>1, <2>2, <2>4, FactorKinds DEF RightLogin, FactorOf, OwnerOf, Active, Given
    <2>5. QED  BY <2>2, <2>3, <2>4 DEF Given
  <1>3. QED  BY <1>1, <1>2 DEF AnswerFits

\* While the rows stay, so does everything that relates them.
LEMMA RowsKept ==
  ASSUME Counted, SecretsKnown, CodeUsedOnce, UNCHANGED <<tables, history>>
  PROVE  Counted' /\ SecretsKnown' /\ CodeUsedOnce'
  BY DEF Counted, SecretsKnown, CodeUsedOnce, Enrolled, tables, history

\* A change of challenges that keeps the consumed ones keeps what is known of codes.
LEMMA CodesKept ==
  ASSUME TypeOK, SecretsKnown, CodeUsedOnce, UNCHANGED <<totp, accepted>>,
         \A x \in Transactions : Enrolled(x) =>
           /\ transactions'[x] # NoTransaction /\ transactions'[x].consumed
           /\ transactions'[x].user = transactions[x].user
  PROVE  SecretsKnown' /\ CodeUsedOnce'
  <1>1. CodeUsedOnce'
    BY DEF CodeUsedOnce
  <1>2. \A y : Enrolled(y) => Enrolled(y)'
    BY DEF Enrolled
  <1>3. ASSUME NEW u \in Users
        PROVE  /\ totp'[u].active => totp'[u].secret # None
               /\ totp'[u].secret # None =>
                    Enrolled(totp[u].secret)' /\ transactions'[totp'[u].secret].user = u
    BY DEF SecretsKnown, Enrolled
  <1>4. ASSUME NEW a \in accepted
        PROVE  /\ a.step \in Int /\ Enrolled(a.secret)'
               /\ \A u \in Users : totp'[u].secret = a.secret => a.step <= totp'[u].lastUsed
    BY <1>2 DEF SecretsKnown, Enrolled
  <1>5. QED  BY <1>1, <1>3, <1>4 DEF SecretsKnown

\* A request that leaves a challenge, or has none, has nothing to fit.
LEMMA OthersFit ==
  ASSUME TypeOK, AnswersFit, NEW s \in Sessions, pc'[s] \notin {"verify", "commit"},
         \A t \in Sessions : t # s => pc'[t] = pc[t] /\ job'[t] = job[t], UNCHANGED tables
  PROVE  AnswersFit'
  <1> SUFFICES ASSUME NEW t \in Sessions PROVE AnswerFits(t)'
    BY DEF AnswersFit
  <1>1. CASE t = s
    BY <1>1 DEF AnswerFits
  <1>2. CASE t # s
    <2>1. pc[t] \in {"verify", "commit"} => transactions[job[t].txn] # NoTransaction
      BY DEF AnswersFit, AnswerFits, Open
    <2>2. AnswerFits(t) /\ pc'[t] = pc[t] /\ job'[t] = job[t]
      BY <1>2 DEF AnswersFit
    <2>3. QED  BY <2>1, <2>2, FitStays DEF tables
  <1>3. QED  BY <1>1, <1>2

-----------------------------------------------------------------------------
\* begin_login and begin_authenticated_enrollment only read.
LEMMA BeginKeeps ==
  ASSUME MfaInv, NEW s \in Sessions, NEW u \in Users, BeginLogin(s, u) \/ BeginEnrollment(s, u)
  PROVE  MfaInv'
  <1>1. PICK p \in {"LOGIN", "ENROLL_CHOICE"} :
          Goto(s, "insert", [kind |-> "start", user |-> u, purpose |-> p])
    BY DEF BeginLogin, BeginEnrollment
  <1>2. [kind |-> "start", user |-> u, purpose |-> p] \in JobAt("insert") /\ "insert" \in Labels
    BY JobsByLabel DEF Starting, Labels
  <1>3. UNCHANGED <<tables, now, history>>
    BY DEF BeginLogin, BeginEnrollment
  <1>4. /\ pc' \in [Sessions -> Labels]
        /\ DOMAIN job' = Sessions /\ \A t \in Sessions : job'[t] \in JobAt(pc'[t])
        /\ pc'[s] = "insert"
        /\ \A t \in Sessions : t # s => pc'[t] = pc[t] /\ job'[t] = job[t]
    BY <1>1, <1>2, JobMoves DEF MfaInv
  <1>5. TypeOK'
    BY <1>3, <1>4 DEF MfaInv, TypeOK, tables, history, Labels
  <1>6. LocksHeld'
    BY <1>4 DEF MfaInv, LocksHeld, HoldsTransaction, HoldsFactor
  <1>7. AnswersFit'
    BY <1>3, <1>4, OthersFit DEF MfaInv
  <1>8. Counted' /\ SecretsKnown' /\ CodeUsedOnce'
    BY <1>3, RowsKept DEF MfaInv
  <1>9. QED  BY <1>5, <1>6, <1>7, <1>8 DEF MfaInv

\* _insert_transaction takes an id no row has.
LEMMA InsertKeeps ==
  ASSUME MfaInv, NEW s \in Sessions, NEW x \in Transactions, InsertTransaction(s, x)
  PROVE  MfaInv'
  <1>1. /\ pc' \in [Sessions -> Labels]
        /\ DOMAIN job' = Sessions /\ \A t \in Sessions : job'[t] \in JobAt(pc'[t])
        /\ pc'[s] = "idle"
        /\ \A t \in Sessions : t # s => pc'[t] = pc[t] /\ job'[t] = job[t]
    BY Ends DEF MfaInv, InsertTransaction
  <1>2. job[s] \in Starting
    BY JobOf DEF MfaInv, InsertTransaction
  <1>3. PICK row \in TransactionRow :
          /\ row.attempts = 0 /\ ~row.consumed
          /\ transactions' = [transactions EXCEPT ![x] = row]
    <2>1. [user |-> job[s].user, purpose |-> job[s].purpose, attempts |-> 0,
           expired |-> FALSE, consumed |-> FALSE] \in TransactionRow
      BY <1>2 DEF Starting, TransactionRow, Purpose
    <2>2. QED  BY <2>1 DEF InsertTransaction
  <1>4. row # NoTransaction
    BY DEF TransactionRow, NoTransaction, Purpose
  <1>5. UNCHANGED <<passkeys, totp, now, completed, accepted>> /\ transactions[x] = NoTransaction
    BY DEF InsertTransaction, history
  <1>6. TypeOK'
    BY <1>1, <1>3, <1>5 DEF MfaInv, TypeOK, Labels
  <1>7. LocksHeld'
    BY LocksReleased DEF MfaInv, InsertTransaction
  <1>8. AnswersFit'
    <2> SUFFICES ASSUME NEW t \in Sessions PROVE AnswerFits(t)'
      BY DEF AnswersFit
    <2>1. CASE t = s
      BY <1>1, <2>1 DEF AnswerFits
    <2>2. CASE t # s
      <3>1. AnswerFits(t) /\ pc'[t] = pc[t] /\ job'[t] = job[t]
        BY <1>1, <2>2 DEF MfaInv, AnswersFit
      <3>2. pc[t] \in {"verify", "commit"} =>
              /\ transactions[job[t].txn] # NoTransaction
              /\ transactions'[job[t].txn] = transactions[job[t].txn]
        BY <1>3, <1>5, <3>1, JobOf DEF MfaInv, TypeOK, AnswerFits, Open, Completing
      <3>3. QED  BY <1>5, <3>1, <3>2, FitStays DEF MfaInv
    <2>3. QED  BY <2>1, <2>2
  <1>9. Counted'
    <2>1. transactions'[x] = row /\ completed'[x] = 0
      BY <1>3, <1>5 DEF MfaInv, TypeOK, Counted
    <2>2. row.attempts <= MaxAttempts
      BY <1>3, MfaAssumption
    <2>3. \A y \in Transactions : y # x =>
            transactions'[y] = transactions[y] /\ completed'[y] = completed[y]
      BY <1>3, <1>5 DEF MfaInv, TypeOK
    <2>4. QED  BY <1>3, <1>4, <2>1, <2>2, <2>3 DEF MfaInv, Counted
  <1>10. SecretsKnown' /\ CodeUsedOnce'
    <2>1. \A y \in Transactions : Enrolled(y) => transactions'[y] = transactions[y]
      BY <1>3, <1>5 DEF MfaInv, TypeOK, Enrolled
    <2>2. QED  BY <1>5, <2>1, CodesKept DEF MfaInv, Enrolled
  <1>11. QED  BY <1>6, <1>7, <1>8, <1>9, <1>10 DEF MfaInv

\* prepare_enrollment locks the challenge, so nobody is answering it.
LEMMA PrepareKeeps ==
  ASSUME MfaInv, NEW x \in Transactions, NEW p \in {"ENROLL_TOTP", "ENROLL_PASSKEY"},
         PrepareEnrollment(x, p)
  PROVE  MfaInv'
  <1>1. /\ transactions[x] \in TransactionRow
        /\ transactions' = [transactions EXCEPT ![x].purpose = p]
        /\ UNCHANGED <<passkeys, totp, now, pc, job, completed, accepted>>
        /\ transactions[x] # NoTransaction
    BY DEF PrepareEnrollment, Usable, MfaInv, TypeOK, history
  <1>2. /\ transactions' \in [Transactions -> TransactionRow \cup {NoTransaction}]
        /\ transactions'[x] # NoTransaction
        /\ transactions'[x].user = transactions[x].user
        /\ transactions'[x].attempts = transactions[x].attempts
        /\ transactions'[x].consumed = transactions[x].consumed
        /\ \A y \in Transactions : y # x => transactions'[y] = transactions[y]
    BY <1>1 DEF MfaInv, TypeOK, TransactionRow, Purpose, NoTransaction
  <1>3. TypeOK'
    BY <1>1, <1>2 DEF MfaInv, TypeOK
  <1>4. LocksHeld'
    BY <1>1 DEF MfaInv, LocksHeld, HoldsTransaction, HoldsFactor
  <1>5. AnswersFit'
    <2> SUFFICES ASSUME NEW t \in Sessions PROVE AnswerFits(t)'
      BY DEF AnswersFit
    <2>1. AnswerFits(t) /\ pc'[t] = pc[t] /\ job'[t] = job[t]
      BY <1>1 DEF MfaInv, AnswersFit
    <2>2. pc[t] \in {"verify", "commit"} =>
            /\ transactions[job[t].txn] # NoTransaction
            /\ transactions'[job[t].txn] = transactions[job[t].txn]
      BY <1>2, <2>1, JobOf
         DEF MfaInv, AnswerFits, Open, Completing, PrepareEnrollment, TransactionFree, HoldsTransaction
    <2>3. QED  BY <1>1, <2>1, <2>2, FitStays DEF MfaInv
  <1>6. Counted'
    <2> SUFFICES ASSUME NEW y \in Transactions
                 PROVE  IF transactions'[y] = NoTransaction THEN completed'[y] = 0
                        ELSE /\ completed'[y] = IF transactions'[y].consumed THEN 1 ELSE 0
                             /\ transactions'[y].attempts <= MaxAttempts
                             /\ transactions'[y].consumed => transactions'[y].attempts < MaxAttempts
      BY DEF Counted
    <2>1. QED  BY <1>1, <1>2 DEF MfaInv, Counted
  <1>7. SecretsKnown' /\ CodeUsedOnce'
    BY <1>1, <1>2, CodesKept DEF MfaInv, Enrolled
  <1>8. QED  BY <1>3, <1>4, <1>5, <1>6, <1>7 DEF MfaInv

\* An answered challenge may expire meanwhile; it was locked when it was still good.
LEMMA ExpireKeeps ==
  ASSUME MfaInv, NEW x \in Transactions, Expire(x)
  PROVE  MfaInv'
  <1>1. /\ transactions[x] \in TransactionRow
        /\ transactions' = [transactions EXCEPT ![x].expired = TRUE]
        /\ UNCHANGED <<passkeys, totp, now, pc, job, completed, accepted>>
        /\ transactions[x] # NoTransaction
    BY DEF Expire, MfaInv, TypeOK, history
  <1>2. /\ transactions' \in [Transactions -> TransactionRow \cup {NoTransaction}]
        /\ transactions'[x] # NoTransaction
        /\ transactions'[x].user = transactions[x].user
        /\ transactions'[x].purpose = transactions[x].purpose
        /\ transactions'[x].attempts = transactions[x].attempts
        /\ transactions'[x].consumed = transactions[x].consumed
        /\ \A y \in Transactions : y # x => transactions'[y] = transactions[y]
    BY <1>1 DEF MfaInv, TypeOK, TransactionRow, Purpose, NoTransaction
  <1>3. TypeOK'
    BY <1>1, <1>2 DEF MfaInv, TypeOK
  <1>4. LocksHeld'
    BY <1>1 DEF MfaInv, LocksHeld, HoldsTransaction, HoldsFactor
  <1>5. AnswersFit'
    <2> SUFFICES ASSUME NEW t \in Sessions PROVE AnswerFits(t)'
      BY DEF AnswersFit
    <2>1. AnswerFits(t) /\ pc'[t] = pc[t] /\ job'[t] = job[t]
      BY <1>1 DEF MfaInv, AnswersFit
    <2>2. pc[t] \in {"verify", "commit"} =>
            job[t].txn \in Transactions /\ transactions[job[t].txn] # NoTransaction
      BY <2>1, JobOf DEF MfaInv, AnswerFits, Open, Completing
    <2>3. QED  BY <1>1, <1>2, <2>1, <2>2, FitStays DEF MfaInv
  <1>6. Counted'
    <2> SUFFICES ASSUME NEW y \in Transactions
                 PROVE  IF transactions'[y] = NoTransaction THEN completed'[y] = 0
                        ELSE /\ completed'[y] = IF transactions'[y].consumed THEN 1 ELSE 0
                             /\ transactions'[y].attempts <= MaxAttempts
                             /\ transactions'[y].consumed => transactions'[y].attempts < MaxAttempts
      BY DEF Counted
    <2>1. QED  BY <1>1, <1>2 DEF MfaInv, Counted
  <1>7. SecretsKnown' /\ CodeUsedOnce'
    BY <1>1, <1>2, CodesKept DEF MfaInv, Enrolled
  <1>8. QED  BY <1>3, <1>4, <1>5, <1>6, <1>7 DEF MfaInv

\* Time passes (the TOTP step of the clock).
LEMMA ClockKeeps ==
  ASSUME MfaInv, Tick
  PROVE  MfaInv'
  <1>1. UNCHANGED <<tables, pc, job, history>> /\ now' \in 1 .. LastStep
    BY MfaAssumption DEF Tick, MfaInv, TypeOK
  <1>2. TypeOK' /\ LocksHeld'
    BY <1>1 DEF MfaInv, TypeOK, LocksHeld, HoldsTransaction, HoldsFactor, tables, history
  <1>3. AnswersFit'
    BY <1>1 DEF MfaInv, AnswersFit, AnswerFits, Open, RightLogin, FactorOf, Active, OwnerOf, tables
  <1>4. QED  BY <1>1, <1>2, <1>3, RowsKept DEF MfaInv

\* _transaction_for_update: the challenge is open and nobody else answers it.
LEMMA LockTransactionKeeps ==
  ASSUME MfaInv, NEW s \in Sessions, NEW x \in Transactions, NEW answer \in Given,
         LockTransaction(s, x, answer)
  PROVE  MfaInv'
  <1> DEFINE j == [kind |-> "complete", txn |-> x, answer |-> answer, factor |-> None, ok |-> FALSE]
  <1>1. j \in Completing /\ j.txn = x /\ "verify" \in Labels
    BY DEF Completing, Labels
  <1> HIDE DEF j
  <1>2. Goto(s, "verify", j) /\ UNCHANGED <<tables, now, history>> /\ Usable(x) /\ TransactionFree(x)
    BY DEF LockTransaction, j
  <1>3. /\ pc' \in [Sessions -> Labels]
        /\ DOMAIN job' = Sessions /\ \A t \in Sessions : job'[t] \in JobAt(pc'[t])
        /\ pc'[s] = "verify" /\ job'[s] = j
        /\ \A t \in Sessions : t # s => pc'[t] = pc[t] /\ job'[t] = job[t]
    BY <1>1, <1>2, JobMoves, JobsByLabel DEF MfaInv
  <1>4. TypeOK'
    BY <1>2, <1>3 DEF MfaInv, TypeOK, tables, history, Labels
  <1>5. LocksHeld'
    BY <1>1, <1>2, <1>3 DEF MfaInv, LocksHeld, HoldsTransaction, HoldsFactor, TransactionFree
  <1>6. AnswersFit'
    <2> SUFFICES ASSUME NEW t \in Sessions PROVE AnswerFits(t)'
      BY DEF AnswersFit
    <2>1. CASE t = s
      <3>1. Open(x)'
        BY <1>2 DEF Usable, Open, tables
      <3>2. QED  BY <1>1, <1>3, <2>1, <3>1 DEF AnswerFits, Open
    <2>2. CASE t # s
      <3>1. AnswerFits(t) /\ pc'[t] = pc[t] /\ job'[t] = job[t]
        BY <1>3, <2>2 DEF MfaInv, AnswersFit
      <3>2. pc[t] \in {"verify", "commit"} => transactions[job[t].txn] # NoTransaction
        BY <3>1 DEF AnswerFits, Open
      <3>3. QED  BY <1>2, <3>1, <3>2, FitStays DEF MfaInv, tables
    <2>3. QED  BY <2>1, <2>2
  <1>7. QED  BY <1>2, <1>4, <1>5, <1>6, RowsKept DEF MfaInv

\* A request that gives up, is refused or loses its connection changes no row.
LEMMA LeaveKeeps ==
  ASSUME MfaInv, NEW s \in Sessions, Finish(s), UNCHANGED <<tables, now, history>>
  PROVE  MfaInv'
  <1>1. /\ pc' \in [Sessions -> Labels]
        /\ DOMAIN job' = Sessions /\ \A t \in Sessions : job'[t] \in JobAt(pc'[t])
        /\ pc'[s] = "idle"
        /\ \A t \in Sessions : t # s => pc'[t] = pc[t] /\ job'[t] = job[t]
    BY Ends DEF MfaInv
  <1>2. TypeOK'
    BY <1>1 DEF MfaInv, TypeOK, tables, history, Labels
  <1>3. LocksHeld'
    BY LocksReleased DEF MfaInv
  <1>4. AnswersFit'
    BY <1>1, OthersFit DEF MfaInv
  <1>5. QED  BY <1>2, <1>3, <1>4, RowsKept DEF MfaInv

\* complete_totp and complete_passkey: what they find holds while they hold the rows.
LEMMA VerifyKeeps ==
  ASSUME MfaInv, NEW s \in Sessions, Verify(s)
  PROVE  MfaInv'
  <1>1. PICK x \in Transactions, answer \in Given :
          job[s] \in Completing /\ job[s].txn = x /\ job[s].answer = answer
    BY JobOf DEF MfaInv, Verify, Completing
  <1>2. UNCHANGED <<tables, now, history>> /\ pc[s] = "verify"
    BY DEF Verify
  <1>3. CASE ~Accepts(transactions[x].purpose, answer.kind)
    <2>1. Finish(s)
      BY <1>1, <1>3 DEF Verify
    <2>2. QED  BY <1>2, <2>1, LeaveKeeps
  <1>4. CASE Accepts(transactions[x].purpose, answer.kind)
    <2>1. /\ transactions[x] # NoTransaction /\ transactions[x] \in TransactionRow
          /\ transactions[x].user \in Users
      BY <1>1, <1>2 DEF MfaInv, AnswersFit, AnswerFits, Open, TypeOK, TransactionRow
    <2>2. PICK f \in Factors \cup {None}, ok \in BOOLEAN :
            /\ f = IF Found(x, answer) THEN FactorOf(x, answer) ELSE None
            /\ ok = Correct(x, answer)
      <3>1. Found(x, answer) => FactorOf(x, answer) \in Factors
        BY DEF Found, ActiveFactors
      <3>2. Correct(x, answer) \in BOOLEAN
        BY <2>1 DEF Correct
      <3>3. QED  BY <3>1, <3>2
    <2>3. PICK j \in Completing :
            /\ j.txn = x /\ j.answer = answer /\ j.factor = f /\ j.ok = ok
            /\ Goto(s, "commit", j)
      <3> DEFINE k == [job[s] EXCEPT !.factor = f, !.ok = ok]
      <3>1. k \in Completing /\ k.txn = x /\ k.answer = answer /\ k.factor = f /\ k.ok = ok
        BY <1>1 DEF Completing
      <3>2. Goto(s, "commit", k)
        BY <1>1, <1>4, <2>2 DEF Verify
      <3>3. QED  BY <3>1, <3>2
    <2>4. Found(x, answer) => FactorFree(f)
      BY <1>1, <1>4, <2>2 DEF Verify
    <2>5. /\ pc' \in [Sessions -> Labels]
          /\ DOMAIN job' = Sessions /\ \A t \in Sessions : job'[t] \in JobAt(pc'[t])
          /\ pc'[s] = "commit" /\ job'[s] = j
          /\ \A t \in Sessions : t # s => pc'[t] = pc[t] /\ job'[t] = job[t]
      <3>1. j \in JobAt("commit") /\ "commit" \in Labels
        BY JobsByLabel DEF Labels
      <3>2. QED  BY <2>3, <3>1, JobMoves DEF MfaInv
    <2>6. TypeOK'
      BY <1>2, <2>5 DEF MfaInv, TypeOK, tables, history, Labels
    <2>7. LocksHeld'
      <3>1. \A t, r \in Sessions : \A y \in Transactions :
              HoldsTransaction(t, y)' /\ HoldsTransaction(r, y)' => t = r
        BY <1>1, <1>2, <2>3, <2>5 DEF MfaInv, LocksHeld, HoldsTransaction
      <3>2. \A g \in Factors : HoldsFactor(s, g)' => Found(x, answer) /\ g = f
        BY <2>2, <2>3, <2>5, FactorAssumption DEF HoldsFactor
      <3>3. \A t \in Sessions : t # s => \A g : HoldsFactor(t, g)' <=> HoldsFactor(t, g)
        BY <2>5 DEF HoldsFactor
      <3>4. \A t, r \in Sessions : \A g \in Factors :
              HoldsFactor(t, g)' /\ HoldsFactor(r, g)' => t = r
        BY <2>4, <3>2, <3>3 DEF MfaInv, LocksHeld, FactorFree
      <3>5. QED  BY <3>1, <3>4 DEF LocksHeld
    <2>8. AnswerFits(s)'
      <3>1. Open(x)'
        BY <1>1, <1>2 DEF MfaInv, AnswersFit, AnswerFits, Open, tables
      <3>2. ASSUME ok, transactions[x].purpose = "LOGIN" PROVE RightLogin(x, answer, f)
        <4>1. Found(x, answer) /\ f = FactorOf(x, answer)
          BY <2>2, <3>2 DEF Correct
        <4>2. answer.kind = "totp" =>
                /\ answer.secret = totp[transactions[x].user].secret
                /\ answer.step > totp[transactions[x].user].lastUsed
          BY <2>2, <3>2 DEF Correct
        <4>3. QED  BY <4>1, <4>2 DEF RightLogin, Found, ActiveFactors
      <3>3. /\ ok /\ transactions[x].purpose = "ENROLL_TOTP" => answer.kind = "totp" /\ answer.secret = x
            /\ ok /\ transactions[x].purpose = "ENROLL_PASSKEY" => answer.kind = "passkey"
        BY <2>2 DEF Correct
      <3>4. ASSUME ok, transactions[x].purpose = "LOGIN" PROVE RightLogin(x, answer, f)'
        BY <1>2, <3>2, <3>4 DEF RightLogin, FactorOf, Active, OwnerOf, tables
      <3>5. transactions' = transactions
        BY <1>2 DEF tables
      <3>6. QED
        BY <2>3, <2>5, <3>1, <3>3, <3>4, <3>5
           DEF AnswerFits, Open, RightLogin, FactorOf, Active, OwnerOf
    <2>9. AnswersFit'
      <3> SUFFICES ASSUME NEW t \in Sessions PROVE AnswerFits(t)'
        BY DEF AnswersFit
      <3>1. CASE t = s
        BY <2>8, <3>1
      <3>2. CASE t # s
        <4>1. AnswerFits(t) /\ pc'[t] = pc[t] /\ job'[t] = job[t]
          BY <2>5, <3>2 DEF MfaInv, AnswersFit
        <4>2. pc[t] \in {"verify", "commit"} => transactions[job[t].txn] # NoTransaction
          BY <4>1 DEF AnswerFits, Open
        <4>3. QED  BY <1>2, <4>1, <4>2, FitStays DEF MfaInv, tables
      <3>3. QED  BY <3>1, <3>2
    <2>10. QED  BY <1>2, <2>6, <2>7, <2>9, RowsKept DEF MfaInv
  <1>5. QED  BY <1>3, <1>4

\* remove_totp and remove_passkey lock the factor, read the others, then write it.
LEMMA LockFactorKeeps ==
  ASSUME MfaInv, NEW s \in Sessions, NEW f \in Factors, LockFactor(s, f)
  PROVE  MfaInv'
  <1>1. PICK j \in Removing : j.factor = f /\ Goto(s, "guard", j)
    BY DEF LockFactor, Removing
  <1>2. UNCHANGED <<tables, now, history>> /\ FactorFree(f)
    BY DEF LockFactor
  <1>3. /\ pc' \in [Sessions -> Labels]
        /\ DOMAIN job' = Sessions /\ \A t \in Sessions : job'[t] \in JobAt(pc'[t])
        /\ pc'[s] = "guard" /\ job'[s] = j
        /\ \A t \in Sessions : t # s => pc'[t] = pc[t] /\ job'[t] = job[t]
    BY <1>1, JobMoves, JobsByLabel DEF MfaInv, Labels
  <1>4. TypeOK'
    BY <1>2, <1>3 DEF MfaInv, TypeOK, tables, history, Labels
  <1>5. LocksHeld'
    BY <1>1, <1>2, <1>3 DEF MfaInv, LocksHeld, HoldsTransaction, HoldsFactor, FactorFree
  <1>6. AnswersFit'
    BY <1>2, <1>3, OthersFit DEF MfaInv
  <1>7. QED  BY <1>2, <1>4, <1>5, <1>6, RowsKept DEF MfaInv

\* _guard_last_factor lets the removal go on, or refuses it.
LEMMA GuardKeeps ==
  ASSUME MfaInv, NEW s \in Sessions, Guard(s)
  PROVE  MfaInv'
  <1>1. UNCHANGED <<tables, now, history>> /\ pc[s] = "guard" /\ job[s] \in Removing
    BY JobOf DEF Guard, MfaInv
  <1>2. CASE Finish(s)
    BY <1>1, <1>2, LeaveKeeps
  <1>3. CASE Goto(s, "revoke", job[s])
    <2>1. /\ pc' \in [Sessions -> Labels]
          /\ DOMAIN job' = Sessions /\ \A t \in Sessions : job'[t] \in JobAt(pc'[t])
          /\ pc'[s] = "revoke" /\ job'[s] = job[s]
          /\ \A t \in Sessions : t # s => pc'[t] = pc[t] /\ job'[t] = job[t]
      BY <1>1, <1>3, JobMoves, JobsByLabel DEF MfaInv, Labels
    <2>2. TypeOK'
      BY <1>1, <2>1 DEF MfaInv, TypeOK, tables, history, Labels
    <2>3. LocksHeld'
      BY <1>1, <2>1 DEF MfaInv, LocksHeld, HoldsTransaction, HoldsFactor
    <2>4. AnswersFit'
      BY <1>1, <2>1, OthersFit DEF MfaInv
    <2>5. QED  BY <1>1, <2>2, <2>3, <2>4, RowsKept DEF MfaInv
  <1>4. QED  BY <1>2, <1>3 DEF Guard

\* Whoever changes a factor, or relies on it, holds its lock, and holds it alone.
LEMMA FactorAlone ==
  ASSUME LocksHeld, NEW s \in Sessions, NEW f \in Factors, HoldsFactor(s, f),
         NEW t \in Sessions, t # s
  PROVE  pc[t] = "commit" => job[t].factor # f
  BY DEF LocksHeld, HoldsFactor

\* The UPDATE of a removal: the row was locked before it was looked at.
LEMMA RemovalKeeps ==
  ASSUME MfaInv, NEW s \in Sessions, Revoke(s)
  PROVE  MfaInv'
  <1>1. PICK f \in Factors : job[s].factor = f /\ pc[s] = "revoke"
    BY JobOf DEF Revoke, MfaInv, Removing
  <1>2. /\ pc' \in [Sessions -> Labels]
        /\ DOMAIN job' = Sessions /\ \A t \in Sessions : job'[t] \in JobAt(pc'[t])
        /\ pc'[s] = "idle"
        /\ \A t \in Sessions : t # s => pc'[t] = pc[t] /\ job'[t] = job[t]
    BY Ends DEF MfaInv, Revoke
  <1>3. UNCHANGED <<transactions, now, completed, accepted>>
    BY DEF Revoke, history
  <1>4. LocksHeld'
    BY LocksReleased DEF MfaInv, Revoke
  <1>5. /\ totp' \in [Users -> TotpRow]
        /\ \A u \in Users : f # TotpOf(u) => totp'[u] = totp[u]
        /\ \A u \in Users :
             /\ totp'[u].secret = totp[u].secret
             /\ totp'[u].lastUsed = totp[u].lastUsed
             /\ totp'[u].active => totp[u].active
    <2>1. CASE f[1] = "totp"
      <3>1. PICK u \in Users : f = TotpOf(u) /\ f[2] = u
        BY <2>1, FactorKinds
      <3>2. totp' = [totp EXCEPT ![u].active = FALSE]
        BY <1>1, <2>1, <3>1 DEF Revoke
      <3>3. /\ totp' \in [Users -> TotpRow]
            /\ \A v \in Users : v # u => totp'[v] = totp[v]
            /\ totp'[u].secret = totp[u].secret /\ totp'[u].lastUsed = totp[u].lastUsed
            /\ ~totp'[u].active
        BY <3>2 DEF MfaInv, TypeOK, TotpRow
      <3>4. QED  BY <3>1, <3>3, FactorKinds
    <2>2. CASE f[1] # "totp"
      BY <1>1, <2>2 DEF Revoke, MfaInv, TypeOK
    <2>3. QED  BY <2>1, <2>2
  <1>6. /\ passkeys' \in [Passkeys -> {"ABSENT", "ACTIVE", "REVOKED"}]
        /\ \A c \in Passkeys : f # PasskeyOf(c) => passkeys'[c] = passkeys[c]
    <2>1. CASE f[1] = "totp"
      BY <1>1, <2>1 DEF Revoke, MfaInv, TypeOK
    <2>2. CASE f[1] # "totp"
      <3>1. PICK c \in Passkeys : f = PasskeyOf(c) /\ f[2] = c
        BY <2>2, FactorKinds
      <3>2. passkeys' = [passkeys EXCEPT ![c] = "REVOKED"]
        BY <1>1, <2>2, <3>1 DEF Revoke
      <3>3. QED  BY <3>1, <3>2, FactorKinds DEF MfaInv, TypeOK
    <2>3. QED  BY <2>1, <2>2
  <1>7. TypeOK'
    BY <1>2, <1>3, <1>5, <1>6 DEF MfaInv, TypeOK, Labels
  <1>8. AnswersFit'
    <2> SUFFICES ASSUME NEW t \in Sessions PROVE AnswerFits(t)'
      BY DEF AnswersFit
    <2>1. CASE t = s
      BY <1>2, <2>1 DEF AnswerFits
    <2>2. CASE t # s
      <3>1. AnswerFits(t) /\ pc'[t] = pc[t] /\ job'[t] = job[t]
        BY <1>2, <2>2 DEF MfaInv, AnswersFit
      <3>2. pc[t] \in {"verify", "commit"} => transactions[job[t].txn] # NoTransaction
        BY <3>1 DEF AnswerFits, Open
      <3>3. pc[t] = "commit" => job[t].factor # f
        BY <1>1, <2>2, FactorAlone DEF MfaInv, HoldsFactor
      <3>4. QED  BY <1>3, <1>5, <1>6, <3>1, <3>2, <3>3, FitStays DEF MfaInv
    <2>3. QED  BY <2>1, <2>2
  <1>9. Counted' /\ CodeUsedOnce'
    BY <1>3 DEF MfaInv, Counted, CodeUsedOnce
  <1>10. SecretsKnown'
    <2>1. ASSUME NEW u \in Users
          PROVE  /\ totp'[u].active => totp'[u].secret # None
                 /\ totp'[u].secret # None =>
                      Enrolled(totp[u].secret)' /\ transactions'[totp'[u].secret].user = u
      <3>1. /\ totp'[u].secret = totp[u].secret
            /\ totp'[u].active => totp[u].active
        BY <1>5
      <3>2. /\ totp[u].active => totp[u].secret # None
            /\ totp[u].secret # None => Enrolled(totp[u].secret) /\ transactions[totp[u].secret].user = u
        BY DEF MfaInv, SecretsKnown
      <3>3. QED  BY <1>3, <3>1, <3>2 DEF Enrolled
    <2>2. ASSUME NEW a \in accepted
          PROVE  /\ a.step \in Int /\ Enrolled(a.secret)'
                 /\ \A u \in Users : totp'[u].secret = a.secret => a.step <= totp'[u].lastUsed
      <3>1. /\ a.step \in Int /\ Enrolled(a.secret)
            /\ \A u \in Users : totp[u].secret = a.secret => a.step <= totp[u].lastUsed
        BY DEF MfaInv, SecretsKnown
      <3>2. Enrolled(a.secret)'
        BY <1>3, <3>1 DEF Enrolled
      <3>3. QED  BY <1>5, <3>1, <3>2
    <2>3. QED  BY <1>3, <2>1, <2>2 DEF SecretsKnown
  <1>11. QED  BY <1>4, <1>7, <1>8, <1>9, <1>10 DEF MfaInv

\* A session that answers a challenge is the only one that changes its row.
LEMMA ChallengeAlone ==
  ASSUME TypeOK, LocksHeld, AnswersFit, NEW s \in Sessions, pc[s] = "commit"
  PROVE  /\ job[s] \in Completing /\ job[s].txn \in Transactions
         /\ transactions[job[s].txn] \in TransactionRow
         /\ transactions[job[s].txn] # NoTransaction
         /\ ~transactions[job[s].txn].consumed
         /\ transactions[job[s].txn].attempts < MaxAttempts
         /\ \A t \in Sessions : t # s /\ pc[t] \in {"verify", "commit"} =>
              /\ job[t] \in Completing /\ job[t].txn # job[s].txn
              /\ transactions[job[t].txn] # NoTransaction
  <1>1. job[s] \in Completing /\ job[s].txn \in Transactions
    BY JobOf DEF Completing
  <1>2. Open(job[s].txn)
    BY DEF AnswersFit, AnswerFits
  <1>3. \A t \in Sessions : t # s /\ pc[t] \in {"verify", "commit"} =>
          job[t] \in Completing /\ job[t].txn # job[s].txn /\ Open(job[t].txn)
    BY <1>1, JobOf DEF LocksHeld, HoldsTransaction, AnswersFit, AnswerFits
  <1>4. QED  BY <1>1, <1>2, <1>3 DEF Open, TypeOK

\* _record_failure counts the attempt.
LEMMA FailureKeeps ==
  ASSUME MfaInv, NEW s \in Sessions, RecordFailure(s)
  PROVE  MfaInv'
  <1>1. PICK x \in Transactions : job[s].txn = x
    BY ChallengeAlone DEF MfaInv, RecordFailure
  <1>2. /\ transactions[x] \in TransactionRow /\ transactions[x] # NoTransaction
        /\ ~transactions[x].consumed /\ transactions[x].attempts < MaxAttempts
        /\ \A t \in Sessions : t # s /\ pc[t] \in {"verify", "commit"} =>
             job[t] \in Completing /\ job[t].txn # x /\ transactions[job[t].txn] # NoTransaction
    BY <1>1, ChallengeAlone DEF MfaInv, RecordFailure
  <1>3. /\ pc' \in [Sessions -> Labels]
        /\ DOMAIN job' = Sessions /\ \A t \in Sessions : job'[t] \in JobAt(pc'[t])
        /\ pc'[s] = "idle"
        /\ \A t \in Sessions : t # s => pc'[t] = pc[t] /\ job'[t] = job[t]
    BY Ends DEF MfaInv, RecordFailure
  <1>4. /\ transactions' = [transactions EXCEPT ![x].attempts = @ + 1]
        /\ UNCHANGED <<passkeys, totp, now, completed, accepted>>
    BY <1>1 DEF RecordFailure, history
  <1>5. /\ transactions' \in [Transactions -> TransactionRow \cup {NoTransaction}]
        /\ transactions'[x] # NoTransaction
        /\ transactions'[x].user = transactions[x].user
        /\ transactions'[x].attempts = transactions[x].attempts + 1
        /\ transactions'[x].consumed = transactions[x].consumed
        /\ \A y \in Transactions : y # x => transactions'[y] = transactions[y]
    BY <1>2, <1>4 DEF MfaInv, TypeOK, TransactionRow, Purpose, NoTransaction
  <1>6. TypeOK'
    BY <1>3, <1>4, <1>5 DEF MfaInv, TypeOK, Labels
  <1>7. LocksHeld'
    BY LocksReleased DEF MfaInv, RecordFailure
  <1>8. AnswersFit'
    <2> SUFFICES ASSUME NEW t \in Sessions PROVE AnswerFits(t)'
      BY DEF AnswersFit
    <2>1. CASE t = s
      BY <1>3, <2>1 DEF AnswerFits
    <2>2. CASE t # s
      <3>1. AnswerFits(t) /\ pc'[t] = pc[t] /\ job'[t] = job[t]
        BY <1>3, <2>2 DEF MfaInv, AnswersFit
      <3>2. pc[t] \in {"verify", "commit"} =>
              /\ transactions[job[t].txn] # NoTransaction
              /\ transactions'[job[t].txn] = transactions[job[t].txn]
        BY <1>2, <1>5, <2>2 DEF Completing
      <3>3. QED  BY <1>4, <3>1, <3>2, FitStays DEF MfaInv
    <2>3. QED  BY <2>1, <2>2
  <1>9. Counted'
    <2>1. completed[x] = 0
      BY <1>2 DEF MfaInv, Counted
    <2>2. transactions'[x].attempts <= MaxAttempts
      BY <1>2, <1>5, MfaAssumption DEF TransactionRow
    <2>3. QED  BY <1>2, <1>4, <1>5, <2>1, <2>2 DEF MfaInv, Counted
  <1>10. SecretsKnown' /\ CodeUsedOnce'
    BY <1>4, <1>5, CodesKept DEF MfaInv, Enrolled
  <1>11. QED  BY <1>6, <1>7, <1>8, <1>9, <1>10 DEF MfaInv

\* _consume and the commit: the challenge is spent, and its locks are free.
LEMMA ConsumeRows ==
  ASSUME TypeOK, LocksHeld, AnswersFit, Counted, NEW s \in Sessions, pc[s] = "commit",
         Consume(s), NEW x \in Transactions, job[s].txn = x
  PROVE  /\ pc' \in [Sessions -> Labels]
         /\ DOMAIN job' = Sessions /\ \A t \in Sessions : job'[t] \in JobAt(pc'[t])
         /\ pc'[s] = "idle"
         /\ \A t \in Sessions : t # s => pc'[t] = pc[t] /\ job'[t] = job[t]
         /\ LocksHeld'
         /\ transactions' \in [Transactions -> TransactionRow \cup {NoTransaction}]
         /\ transactions'[x] # NoTransaction /\ transactions'[x].consumed
         /\ transactions'[x].user = transactions[x].user
         /\ \A y \in Transactions : y # x => transactions'[y] = transactions[y]
         /\ completed' \in [Transactions -> Nat]
         /\ Counted'
         /\ now' = now
  <1>1. Finish(s) /\ now' = now
    BY DEF Consume
  <1>2. /\ transactions[x] \in TransactionRow /\ transactions[x] # NoTransaction
        /\ ~transactions[x].consumed /\ transactions[x].attempts < MaxAttempts
    BY ChallengeAlone
  <1>3. /\ transactions' = [transactions EXCEPT ![x].consumed = TRUE]
        /\ completed' = [completed EXCEPT ![x] = @ + 1]
    BY DEF Consume
  <1>4. /\ transactions' \in [Transactions -> TransactionRow \cup {NoTransaction}]
        /\ transactions'[x] # NoTransaction /\ transactions'[x].consumed
        /\ transactions'[x].user = transactions[x].user
        /\ transactions'[x].attempts = transactions[x].attempts
        /\ \A y \in Transactions : y # x => transactions'[y] = transactions[y]
    BY <1>2, <1>3 DEF TypeOK, TransactionRow, Purpose, NoTransaction
  <1>5. completed' \in [Transactions -> Nat]
    BY <1>3 DEF TypeOK
  <1>6. Counted'
    <2>1. completed[x] = 0 /\ completed'[x] = 1
      BY <1>2, <1>3 DEF TypeOK, Counted
    <2>2. transactions'[x].attempts <= MaxAttempts /\ transactions'[x].attempts < MaxAttempts
      BY <1>2, <1>4, MfaAssumption DEF TransactionRow
    <2>3. \A y \in Transactions : y # x => completed'[y] = completed[y]
      BY <1>3 DEF TypeOK
    <2>4. QED  BY <1>4, <2>1, <2>2, <2>3 DEF Counted
  <1>7. QED  BY <1>1, <1>4, <1>5, <1>6, Ends, LocksReleased

\* What the others found right is still right after a commit that changes only
\* factors they do not hold.
LEMMA CommitFits ==
  ASSUME MfaInv, NEW s \in Sessions, pc[s] = "commit", Consume(s),
         \A t \in Sessions : t # s /\ pc[t] = "commit" =>
           /\ \A u \in Users : job[t].factor = TotpOf(u) => totp'[u] = totp[u]
           /\ \A c \in Passkeys :
                job[t].factor = PasskeyOf(c) /\ passkeys[c] = "ACTIVE" => passkeys'[c] = "ACTIVE"
  PROVE  AnswersFit'
  <1> SUFFICES ASSUME NEW t \in Sessions PROVE AnswerFits(t)'
    BY DEF AnswersFit
  <1>1. PICK x \in Transactions : job[s].txn = x
    BY ChallengeAlone DEF MfaInv
  <1>2. /\ pc'[s] = "idle"
        /\ \A r \in Sessions : r # s => pc'[r] = pc[r] /\ job'[r] = job[r]
        /\ \A y \in Transactions : y # x => transactions'[y] = transactions[y]
    BY <1>1, ConsumeRows DEF MfaInv
  <1>3. CASE t = s
    BY <1>2, <1>3 DEF AnswerFits
  <1>4. CASE t # s
    <2>1. AnswerFits(t) /\ pc'[t] = pc[t] /\ job'[t] = job[t]
      BY <1>2, <1>4 DEF MfaInv, AnswersFit
    <2>2. pc[t] \in {"verify", "commit"} =>
            /\ transactions[job[t].txn] # NoTransaction
            /\ transactions'[job[t].txn] = transactions[job[t].txn]
      BY <1>1, <1>2, <1>4, ChallengeAlone DEF Completing, MfaInv
    <2>3. QED  BY <1>4, <2>1, <2>2, FitStays DEF MfaInv
  <1>5. QED  BY <1>3, <1>4

\* An enrolment with a code: the secret is new, so no code of it was accepted.
LEMMA CommitTotpKeeps ==
  ASSUME MfaInv, NEW s \in Sessions, CommitTotp(s)
  PROVE  MfaInv'
  <1>1. PICK x \in Transactions, answer \in Given :
          job[s].txn = x /\ job[s].answer = answer /\ job[s].ok /\ pc[s] = "commit"
    BY ChallengeAlone DEF MfaInv, CommitTotp, Completing
  <1>2. /\ transactions[x] \in TransactionRow /\ transactions[x] # NoTransaction
        /\ ~transactions[x].consumed
    BY <1>1, ChallengeAlone DEF MfaInv
  <1>3. answer.kind = "totp" /\ answer.secret = x /\ answer.step \in Int
    BY <1>1 DEF MfaInv, AnswersFit, AnswerFits, CommitTotp, Given
  <1>4. PICK u \in Users : u = transactions[x].user
    BY <1>2 DEF TransactionRow
  <1>5. /\ Consume(s) /\ FactorFree(TotpOf(u)) /\ UNCHANGED passkeys
        /\ totp' = [totp EXCEPT ![u] = [secret |-> x, lastUsed |-> answer.step, active |-> TRUE]]
    BY <1>1, <1>4 DEF CommitTotp
  <1>6. /\ totp' \in [Users -> TotpRow]
        /\ totp'[u].secret = x /\ totp'[u].lastUsed = answer.step
        /\ \A v \in Users : v # u => totp'[v] = totp[v]
    BY <1>3, <1>5 DEF MfaInv, TypeOK, TotpRow
  <1>7. accepted' = accepted \cup {[txn |-> x, secret |-> x, step |-> answer.step]}
    BY <1>1, <1>3, <1>5 DEF Consume
  <1>8. /\ pc' \in [Sessions -> Labels]
        /\ DOMAIN job' = Sessions /\ \A t \in Sessions : job'[t] \in JobAt(pc'[t])
        /\ LocksHeld'
        /\ transactions' \in [Transactions -> TransactionRow \cup {NoTransaction}]
        /\ transactions'[x] # NoTransaction /\ transactions'[x].consumed
        /\ transactions'[x].user = transactions[x].user
        /\ \A y \in Transactions : y # x => transactions'[y] = transactions[y]
        /\ completed' \in [Transactions -> Nat]
        /\ Counted'
        /\ now' = now
    BY <1>1, <1>5, ConsumeRows DEF MfaInv
  <1>9. TypeOK'
    BY <1>5, <1>6, <1>8 DEF MfaInv, TypeOK, Labels
  <1>10. AnswersFit'
    <2>1. \A t \in Sessions : t # s /\ pc[t] = "commit" => job[t].factor # TotpOf(u)
      BY <1>5 DEF FactorFree, HoldsFactor
    <2>2. \A v \in Users : TotpOf(v) # TotpOf(u) => totp'[v] = totp[v]
      BY <1>6
    <2>3. QED  BY <1>1, <1>5, <2>1, <2>2, CommitFits
  <1>11. ~Enrolled(x) /\ \A v \in Users : totp[v].secret # x
    BY <1>2, MfaAssumption DEF Enrolled, MfaInv, SecretsKnown
  <1>12. \A a \in accepted : a.secret # x
    BY <1>11 DEF MfaInv, SecretsKnown
  <1>13. CodeUsedOnce'
    BY <1>7, <1>12 DEF MfaInv, CodeUsedOnce
  <1>14. SecretsKnown'
    <2>1. ASSUME NEW v \in Users
          PROVE  /\ totp'[v].active => totp'[v].secret # None
                 /\ totp'[v].secret # None =>
                      Enrolled(totp[v].secret)' /\ transactions'[totp'[v].secret].user = v
      <3>1. CASE v = u
        BY <1>4, <1>6, <1>8, <3>1, MfaAssumption DEF Enrolled
      <3>2. CASE v # u
        BY <1>6, <1>8, <1>11, <3>2 DEF MfaInv, SecretsKnown, Enrolled
      <3>3. QED  BY <3>1, <3>2
    <2>2. ASSUME NEW a \in accepted'
          PROVE  /\ a.step \in Int /\ Enrolled(a.secret)'
                 /\ \A v \in Users : totp'[v].secret = a.secret => a.step <= totp'[v].lastUsed
      <3>1. CASE a = [txn |-> x, secret |-> x, step |-> answer.step]
        BY <1>3, <1>6, <1>8, <1>11, <3>1 DEF Enrolled
      <3>2. CASE a \in accepted
        BY <1>6, <1>8, <1>11, <1>12, <3>2 DEF MfaInv, SecretsKnown, Enrolled
      <3>3. QED  BY <1>7, <3>1, <3>2
    <2>3. QED  BY <2>1, <2>2 DEF SecretsKnown
  <1>15. QED  BY <1>8, <1>9, <1>10, <1>13, <1>14 DEF MfaInv

\* A login with a code: the step is newer than every step accepted for the secret,
\* and the row that says so is locked.
LEMMA CommitLoginKeeps ==
  ASSUME MfaInv, NEW s \in Sessions, CommitLogin(s)
  PROVE  MfaInv'
  <1>1. PICK x, answer, f :
          /\ x \in Transactions /\ answer \in Given
          /\ job[s].txn = x /\ job[s].answer = answer /\ job[s].factor = f
          /\ job[s].ok /\ pc[s] = "commit"
    BY ChallengeAlone DEF MfaInv, CommitLogin, Completing
  <1>2. /\ transactions[x] \in TransactionRow /\ transactions[x] # NoTransaction
        /\ ~transactions[x].consumed
    BY <1>1, ChallengeAlone DEF MfaInv
  <1>3. PICK u \in Users : u = transactions[x].user
    BY <1>2 DEF TransactionRow
  <1>4. RightLogin(x, answer, f)
    BY <1>1 DEF MfaInv, AnswersFit, AnswerFits, CommitLogin
  <1>5. Consume(s) /\ UNCHANGED passkeys
    BY DEF CommitLogin
  <1>6. /\ pc' \in [Sessions -> Labels]
        /\ DOMAIN job' = Sessions /\ \A t \in Sessions : job'[t] \in JobAt(pc'[t])
        /\ LocksHeld'
        /\ transactions' \in [Transactions -> TransactionRow \cup {NoTransaction}]
        /\ transactions'[x] # NoTransaction /\ transactions'[x].consumed
        /\ transactions'[x].user = transactions[x].user
        /\ \A y \in Transactions : y # x => transactions'[y] = transactions[y]
        /\ completed' \in [Transactions -> Nat]
        /\ Counted'
        /\ now' = now
    BY <1>1, <1>5, ConsumeRows DEF MfaInv
  <1>7. CASE answer.kind = "passkey"
    <2>1. UNCHANGED <<totp, accepted>>
      BY <1>1, <1>7 DEF CommitLogin, Consume
    <2>2. TypeOK'
      BY <1>5, <1>6, <2>1 DEF MfaInv, TypeOK, Labels
    <2>3. AnswersFit'
      BY <1>1, <1>5, <2>1, CommitFits
    <2>4. SecretsKnown' /\ CodeUsedOnce'
      BY <1>6, <2>1, CodesKept DEF MfaInv, Enrolled
    <2>5. QED  BY <1>6, <2>2, <2>3, <2>4 DEF MfaInv
  <1>8. CASE answer.kind = "totp"
    <2>1. /\ f = TotpOf(u) /\ totp[u].active
          /\ answer.secret = totp[u].secret /\ answer.step > totp[u].lastUsed
      BY <1>1, <1>2, <1>3, <1>4, <1>8, RightAnswers DEF MfaInv
    <2>2. totp' = [totp EXCEPT ![u].lastUsed = answer.step]
      BY <1>1, <1>3, <1>8 DEF CommitLogin
    <2>3. answer.step \in Int /\ totp[u].lastUsed \in Int
      BY <1>1, <1>8 DEF Given, MfaInv, TypeOK, TotpRow
    <2>4. /\ totp' \in [Users -> TotpRow]
          /\ totp'[u].secret = totp[u].secret /\ totp'[u].lastUsed = answer.step
          /\ totp'[u].active = totp[u].active
          /\ \A v \in Users : v # u => totp'[v] = totp[v]
      BY <2>2, <2>3 DEF MfaInv, TypeOK, TotpRow
    <2>5. accepted' = accepted \cup {[txn |-> x, secret |-> totp[u].secret, step |-> answer.step]}
      BY <1>1, <1>5, <1>8, <2>1 DEF Consume
    <2>6. TypeOK'
      BY <1>5, <1>6, <2>4 DEF MfaInv, TypeOK, Labels
    <2>7. AnswersFit'
      <3>1. HoldsFactor(s, TotpOf(u)) /\ TotpOf(u) \in Factors
        BY <1>1, <2>1, FactorKinds DEF HoldsFactor
      <3>2. \A t \in Sessions : t # s /\ pc[t] = "commit" => job[t].factor # TotpOf(u)
        BY <3>1, FactorAlone DEF MfaInv
      <3>3. \A v \in Users : TotpOf(v) # TotpOf(u) => totp'[v] = totp[v]
        BY <2>4
      <3>4. QED  BY <1>1, <1>5, <3>2, <3>3, CommitFits
    <2>8. /\ totp[u].secret # None /\ Enrolled(totp[u].secret)
          /\ transactions[totp[u].secret].user = u
      BY <2>1 DEF MfaInv, SecretsKnown
    <2>9. \A a \in accepted : a.secret = totp[u].secret => a.step \in Int /\ a.step < answer.step
      BY <2>1, <2>3 DEF MfaInv, SecretsKnown
    <2>10. CodeUsedOnce'
      BY <2>3, <2>5, <2>9 DEF MfaInv, CodeUsedOnce
    <2>11. \A v \in Users : totp'[v].secret = totp[v].secret /\ totp'[v].active = totp[v].active
      BY <2>4
    <2>12. SecretsKnown'
      <3>1. ASSUME NEW v \in Users
            PROVE  /\ totp'[v].active => totp'[v].secret # None
                   /\ totp'[v].secret # None =>
                        Enrolled(totp[v].secret)' /\ transactions'[totp'[v].secret].user = v
        <4>1. totp'[v].secret = totp[v].secret /\ totp'[v].active = totp[v].active
          BY <2>11
        <4>2. /\ totp[v].active => totp[v].secret # None
              /\ totp[v].secret # None =>
                   Enrolled(totp[v].secret) /\ transactions[totp[v].secret].user = v
          BY DEF MfaInv, SecretsKnown
        <4>3. QED  BY <1>6, <4>1, <4>2 DEF Enrolled
      <3>2. ASSUME NEW a \in accepted'
            PROVE  /\ a.step \in Int /\ Enrolled(a.secret)'
                   /\ \A v \in Users : totp'[v].secret = a.secret => a.step <= totp'[v].lastUsed
        <4>1. CASE a = [txn |-> x, secret |-> totp[u].secret, step |-> answer.step]
          <5>1. Enrolled(a.secret)'
            BY <1>6, <2>8, <4>1 DEF Enrolled
          <5>2. \A v \in Users : totp'[v].secret = a.secret => v = u
            BY <2>8, <2>11, <4>1 DEF MfaInv, SecretsKnown
          <5>3. QED  BY <2>3, <2>4, <4>1, <5>1, <5>2
        <4>2. CASE a \in accepted
          <5>1. /\ a.step \in Int /\ Enrolled(a.secret)
                /\ \A v \in Users : totp[v].secret = a.secret => a.step <= totp[v].lastUsed
            BY <4>2 DEF MfaInv, SecretsKnown
          <5>2. Enrolled(a.secret)'
            BY <1>6, <5>1 DEF Enrolled
          <5>3. ASSUME NEW v \in Users, totp'[v].secret = a.secret PROVE a.step <= totp'[v].lastUsed
            <6>1. CASE v = u
              BY <2>3, <2>4, <2>9, <4>2, <5>1, <5>3, <6>1
            <6>2. CASE v # u
              BY <2>4, <5>1, <5>3, <6>2
            <6>3. QED  BY <6>1, <6>2
          <5>4. QED  BY <5>1, <5>2, <5>3
        <4>3. QED  BY <2>5, <4>1, <4>2
      <3>3. QED  BY <3>1, <3>2 DEF SecretsKnown
    <2>13. QED  BY <1>6, <2>6, <2>7, <2>10, <2>12 DEF MfaInv
  <1>9. QED  BY <1>1, <1>7, <1>8 DEF Given

\* A passkey is inserted under an id that no row has; or the request fails.
LEMMA CommitPasskeyKeeps ==
  ASSUME MfaInv, NEW s \in Sessions, CommitPasskey(s)
  PROVE  MfaInv'
  <1>1. PICK x \in Transactions, answer \in Given :
          job[s].txn = x /\ job[s].answer = answer /\ job[s].ok /\ pc[s] = "commit"
    BY ChallengeAlone DEF MfaInv, CommitPasskey, Completing
  <1>2. answer.kind = "passkey" /\ answer.id \in Passkeys
    BY <1>1 DEF MfaInv, AnswersFit, AnswerFits, CommitPasskey, Given
  <1>3. CASE passkeys[answer.id] # "ABSENT"
    <2>1. Finish(s) /\ UNCHANGED <<tables, now, history>>
      BY <1>1, <1>3 DEF CommitPasskey, tables
    <2>2. QED  BY <2>1, LeaveKeeps
  <1>4. CASE passkeys[answer.id] = "ABSENT"
    <2>1. /\ Consume(s) /\ passkeys' = [passkeys EXCEPT ![answer.id] = "ACTIVE"]
          /\ UNCHANGED <<totp, accepted>>
      BY <1>1, <1>2, <1>4 DEF CommitPasskey, Consume
    <2>2. /\ pc' \in [Sessions -> Labels]
          /\ DOMAIN job' = Sessions /\ \A t \in Sessions : job'[t] \in JobAt(pc'[t])
          /\ LocksHeld'
          /\ transactions' \in [Transactions -> TransactionRow \cup {NoTransaction}]
          /\ transactions'[x] # NoTransaction /\ transactions'[x].consumed
          /\ transactions'[x].user = transactions[x].user
          /\ \A y \in Transactions : y # x => transactions'[y] = transactions[y]
          /\ completed' \in [Transactions -> Nat]
          /\ Counted'
          /\ now' = now
      BY <1>1, <2>1, ConsumeRows DEF MfaInv
    <2>3. TypeOK'
      BY <1>2, <2>1, <2>2 DEF MfaInv, TypeOK, Labels
    <2>4. \A c \in Passkeys : passkeys[c] = "ACTIVE" => passkeys'[c] = "ACTIVE"
      BY <1>2, <2>1 DEF MfaInv, TypeOK
    <2>5. AnswersFit'
      BY <1>1, <2>1, <2>4, CommitFits
    <2>6. SecretsKnown' /\ CodeUsedOnce'
      BY <2>1, <2>2, CodesKept DEF MfaInv, Enrolled
    <2>7. QED  BY <2>2, <2>3, <2>5, <2>6 DEF MfaInv
  <1>5. QED  BY <1>3, <1>4

-----------------------------------------------------------------------------
\* The answers that come with a request are well formed (the endpoints parse them).
LEMMA AnswersWellFormed ==
  ASSUME TypeOK, NEW x \in Transactions, NEW answer \in Answers(x)
  PROVE  answer \in Given
  <1>1. now \in Int
    BY MfaAssumption DEF TypeOK
  <1>2. QED  BY <1>1 DEF Answers, Given, Code, Response

\* Locks have one holder, and what a request has read of a challenge and of a factor
\* it locked stays so to its commit; challenges and codes are counted
\* (mfa.py, complete_totp and complete_passkey).
THEOREM MfaInductive == Spec => []MfaInv
  <1>1. Init => MfaInv
    <2> SUFFICES ASSUME Init PROVE MfaInv
      OBVIOUS
    <2>1. TypeOK
      <3>1. 1 \in 1 .. LastStep
        BY MfaAssumption
      <3>2. totp \in [Users -> TotpRow]
        BY DEF Init, TotpRow
      <3>3. QED  BY <3>1, <3>2, JobsByLabel DEF Init, TypeOK
    <2>2. LocksHeld /\ AnswersFit
      BY DEF Init, LocksHeld, AnswersFit, AnswerFits, HoldsTransaction, HoldsFactor
    <2>3. Counted /\ SecretsKnown /\ CodeUsedOnce
      BY DEF Init, Counted, SecretsKnown, CodeUsedOnce
    <2>4. QED  BY <2>1, <2>2, <2>3 DEF MfaInv
  <1>2. MfaInv /\ [Next]_vars => MfaInv'
    <2> SUFFICES ASSUME MfaInv, [Next]_vars PROVE MfaInv'
      OBVIOUS
    <2>1. CASE UNCHANGED vars
      <3>1. UNCHANGED <<tables, now, pc, job, history>>
        BY <2>1 DEF vars
      <3>2. TypeOK' /\ LocksHeld'
        BY <3>1 DEF MfaInv, TypeOK, LocksHeld, HoldsTransaction, HoldsFactor, tables, history
      <3>3. AnswersFit'
        BY <3>1 DEF MfaInv, AnswersFit, AnswerFits, Open, RightLogin, FactorOf, Active, OwnerOf, tables
      <3>4. QED  BY <3>1, <3>2, <3>3, RowsKept DEF MfaInv
    <2>2. ASSUME NEW s \in Sessions, NEW u \in Users, BeginLogin(s, u) \/ BeginEnrollment(s, u)
          PROVE  MfaInv'
      BY <2>2, BeginKeeps
    <2>3. ASSUME NEW s \in Sessions, NEW x \in Transactions, InsertTransaction(s, x) PROVE MfaInv'
      BY <2>3, InsertKeeps
    <2>4. ASSUME NEW s \in Sessions, NEW x \in Transactions, NEW answer \in Answers(x),
                 LockTransaction(s, x, answer)
          PROVE  MfaInv'
      BY <2>4, LockTransactionKeeps, AnswersWellFormed DEF MfaInv
    <2>5. ASSUME NEW s \in Sessions,
                 Verify(s) \/ RecordFailure(s) \/ CommitLogin(s) \/ CommitTotp(s) \/ CommitPasskey(s)
          PROVE  MfaInv'
      BY <2>5, VerifyKeeps, FailureKeeps, CommitLoginKeeps, CommitTotpKeeps, CommitPasskeyKeeps
    <2>6. ASSUME NEW s \in Sessions, NEW f \in Factors, LockFactor(s, f) PROVE MfaInv'
      BY <2>6, LockFactorKeeps
    <2>7. ASSUME NEW s \in Sessions, Guard(s) \/ Revoke(s) \/ Abort(s) PROVE MfaInv'
      BY <2>7, GuardKeeps, RemovalKeeps, LeaveKeeps DEF Abort
    <2>8. ASSUME NEW x \in Transactions, NEW p \in {"ENROLL_TOTP", "ENROLL_PASSKEY"},
                 PrepareEnrollment(x, p)
          PROVE  MfaInv'
      BY <2>8, PrepareKeeps
    <2>9. ASSUME NEW x \in Transactions, Expire(x) PROVE MfaInv'
      BY <2>9, ExpireKeeps
    <2>10. CASE Tick
      BY <2>10, ClockKeeps
    <2>11. QED
      BY <2>1, <2>2, <2>3, <2>4, <2>5, <2>6, <2>7, <2>8, <2>9, <2>10 DEF Next
  <1>3. QED  BY <1>1, <1>2, PTL DEF Spec

\* No code is accepted for two challenges (mfa.py, complete_totp: last_used_step).
THEOREM CodesOnce == Spec => []CodeUsedOnce
  <1>1. MfaInv => CodeUsedOnce
    BY DEF MfaInv
  <1>2. QED  BY <1>1, MfaInductive, PTL

\* A challenge is completed at most once, and never after its last wrong answer
\* (mfa.py, _transaction_for_update, _record_failure and _consume).
THEOREM ChallengesOnce == Spec => []ChallengeAnsweredOnce
  <1>1. ASSUME MfaInv PROVE ChallengeAnsweredOnce
    <2> SUFFICES ASSUME NEW x \in Transactions
                 PROVE  /\ completed[x] <= 1
                        /\ transactions[x] # NoTransaction =>
                             /\ transactions[x].attempts <= MaxAttempts
                             /\ transactions[x].attempts = MaxAttempts => completed[x] = 0
      BY DEF ChallengeAnsweredOnce
    <2>1. IF transactions[x] = NoTransaction THEN completed[x] = 0
          ELSE /\ completed[x] = IF transactions[x].consumed THEN 1 ELSE 0
               /\ transactions[x].attempts <= MaxAttempts
               /\ transactions[x].consumed => transactions[x].attempts < MaxAttempts
      BY <1>1 DEF MfaInv, Counted
    <2>2. MaxAttempts \in Nat
      BY MfaAssumption
    <2>3. QED  BY <2>1, <2>2
  <1>2. QED  BY <1>1, MfaInductive, PTL

\* A login commits with a factor that is still active: removals wait for it
\* (mfa.py, complete_totp and complete_passkey, SELECT ... FOR UPDATE of the factor).
THEOREM LoginsWithActiveFactor == Spec => LoginWithActiveFactor
  <1>1. ASSUME MfaInv, NEW s \in Sessions, pc[s] = "commit", CommitLogin(s)
        PROVE  Active(job[s].factor)
    BY <1>1 DEF MfaInv, AnswersFit, AnswerFits, CommitLogin, RightLogin
  <1>2. MfaInv => [\A s \in Sessions :
                     pc[s] = "commit" /\ CommitLogin(s) => Active(job[s].factor)]_vars
    BY <1>1
  <1>3. QED  BY <1>2, MfaInductive, PTL DEF LoginWithActiveFactor

(***************************************************************************)
(* Factors and sessions beside each other                                  *)
(***************************************************************************)
\* A behaviour of MCIdentity is one of Mfa and one of Access, whatever its scene.
LEMMA IdentityIsBoth == IdentitySpec => Spec /\ AccessSpec
  <1>1. IdentityInit => Init /\ AccessInit
    BY DEF IdentityInit
  <1>2. [IdentityNext]_<<vars, accessVars, scene>> => [Next]_vars /\ [AccessNext]_accessVars
    BY DEF IdentityNext
  <1>3. QED  BY <1>1, <1>2, PTL DEF IdentitySpec, Spec, AccessSpec

\* In every instance the scenes of MCIdentity keep what the requests of both modules
\* rely on between two of their statements.
THEOREM IdentityKeepsTypes == IdentitySpec => []IdentityTypes
  <1>1. MfaInv /\ AccessInv => IdentityTypes
    BY DEF IdentityTypes
  <1>2. QED  BY <1>1, IdentityIsBoth, MfaInductive, AccessInductive, PTL
=============================================================================
