-------------------------------- MODULE Mfa ---------------------------------
(***************************************************************************)
(* MfaService: login challenges, enrolment and removal of passkeys and     *)
(* authenticator apps (TOTP), as concurrent requests over the factor rows  *)
(* and the mfa_transactions rows.                                          *)
(*                                                                         *)
(* A step is a committed read, a row lock or a commit, as in Ledger.       *)
(* Cryptography is abstract: a TOTP secret is named after the enrolment    *)
(* that drew it, a code is a secret and a time step, and a passkey         *)
(* response is good or not.  Passkeys are configured for the host.  The    *)
(* legacy flag mfa_enabled, which decides nothing, and labels, audit rows  *)
(* and sessions are left out, and so is the DELETE of expired and consumed *)
(* rows, which no reader can tell from the rows themselves.                *)
(***************************************************************************)
EXTENDS Integers, FiniteSets

CONSTANTS
  Users,
  Admins,        \* users of a role that requires MFA
  Passkeys,      \* credential ids that authenticators can make
  Device,        \* the user who has the authenticator
  Transactions,  \* ids of mfa_transactions
  Sessions,      \* requests in progress
  MaxAttempts,   \* 5 in the code
  LastStep,      \* bound: the last TOTP time step
  None

ASSUME MfaAssumption ==
  /\ Admins \subseteq Users
  /\ Device \in [Passkeys -> Users]
  /\ MaxAttempts \in Nat \ {0}
  /\ LastStep \in Nat \ {0}
  /\ None \notin Transactions \cup Users

VARIABLES
  passkeys,      \* webauthn_credentials
  totp,          \* totp_credentials
  transactions,  \* mfa_transactions
  now,           \* the current TOTP time step
  pc, job,       \* what each request is doing, and with what
  completed,     \* history: how often each transaction was completed
  accepted       \* history: every code accepted, with its transaction

tables  == <<passkeys, totp, transactions>>
history == <<completed, accepted>>
vars    == <<tables, now, pc, job, history>>

-----------------------------------------------------------------------------
TotpRow == [secret : Transactions \cup {None}, lastUsed : Int, active : BOOLEAN]
Purpose == {"LOGIN", "ENROLL_CHOICE", "ENROLL_PASSKEY", "ENROLL_TOTP"}

NoTransaction == [purpose |-> "ABSENT"]
TransactionRow == [user : Users, purpose : Purpose, attempts : Nat,
                   expired : BOOLEAN, consumed : BOOLEAN]
NoJob == [kind |-> "NONE"]

TotpOf(u)    == <<"totp", u>>
PasskeyOf(c) == <<"passkey", c>>
Factors == {TotpOf(u) : u \in Users} \cup {PasskeyOf(c) : c \in Passkeys}

OwnerOf(f) == IF f[1] = "totp" THEN f[2] ELSE Device[f[2]]
Active(f)  == IF f[1] = "totp" THEN totp[f[2]].active ELSE passkeys[f[2]] = "ACTIVE"

ActiveFactors(u) == {f \in Factors : OwnerOf(f) = u /\ Active(f)}

\* What a client may answer with: a code, or the response of an authenticator.
Given ==
  [kind : {"totp"}, secret : Transactions \cup {None}, step : Int]
  \cup [kind : {"passkey"}, id : Passkeys, good : BOOLEAN]

\* The secret None stands for a code that no secret makes.
Code(secret, step) == [kind |-> "totp", secret |-> secret, step |-> step]
Response(c, good)  == [kind |-> "passkey", id |-> c, good |-> good]

\* What a request works on, by its label.
JobAt(label) ==
  CASE label = "idle"   -> {NoJob}
    [] label = "insert" -> [kind : {"start"}, user : Users, purpose : {"LOGIN", "ENROLL_CHOICE"}]
    [] label \in {"guard", "revoke"} -> [kind : {"remove"}, factor : Factors]
    [] OTHER -> [kind : {"complete"}, txn : Transactions, answer : Given,
                 factor : Factors \cup {None}, ok : BOOLEAN]

\* No factor is the absence of one.
ASSUME FactorAssumption == None \notin Factors

\* The WHERE clause of _transaction_for_update.
Usable(x) ==
  /\ transactions[x] # NoTransaction
  /\ ~transactions[x].expired
  /\ ~transactions[x].consumed
  /\ transactions[x].attempts < MaxAttempts

\* Row locks, held to the end of the request's transaction.
HoldsTransaction(s, x) == pc[s] \in {"verify", "commit"} /\ job[s].txn = x
\* Mutant: challenges are read without FOR UPDATE.
MutTransactionFree(x) == x \in Transactions

TransactionFree(x) == \A s \in Sessions : ~HoldsTransaction(s, x)

HoldsFactor(s, f) == pc[s] \in {"commit", "guard", "revoke"} /\ job[s].factor = f
\* Mutant: factors are read without FOR UPDATE.
MutFactorFree(f) == f \in Factors

FactorFree(f) == \A s \in Sessions : ~HoldsFactor(s, f)

Finish(s) ==
  /\ pc'  = [pc EXCEPT ![s] = "idle"]
  /\ job' = [job EXCEPT ![s] = NoJob]

Goto(s, label, j) ==
  /\ pc'  = [pc EXCEPT ![s] = label]
  /\ job' = [job EXCEPT ![s] = j]

-----------------------------------------------------------------------------
Init ==
  /\ passkeys     = [c \in Passkeys |-> "ABSENT"]
  /\ totp         = [u \in Users |-> [secret |-> None, lastUsed |-> -1, active |-> FALSE]]
  /\ transactions = [x \in Transactions |-> NoTransaction]
  /\ now          = 1
  /\ pc           = [s \in Sessions |-> "idle"]
  /\ job          = [s \in Sessions |-> NoJob]
  /\ completed    = [x \in Transactions |-> 0]
  /\ accepted     = {}

Tick ==
  /\ now < LastStep
  /\ now' = now + 1
  /\ UNCHANGED <<tables, pc, job, history>>

\* Mutant: an expired challenge is deleted while it is answered.
MutExpire(x) ==
  /\ transactions[x] # NoTransaction
  /\ transactions' = [transactions EXCEPT ![x] = NoTransaction]
  /\ UNCHANGED <<passkeys, totp, now, pc, job, history>>

Expire(x) ==
  /\ transactions[x] # NoTransaction
  /\ ~transactions[x].expired /\ ~transactions[x].consumed
  /\ transactions' = [transactions EXCEPT ![x].expired = TRUE]
  /\ UNCHANGED <<passkeys, totp, now, pc, job, history>>

-----------------------------------------------------------------------------
(* Starting *)

\* begin_login reads the user's factors; without any, an administrator must
\* enrol, and anybody else needs no challenge.
BeginLogin(s, u) ==
  /\ pc[s] = "idle"
  /\ ActiveFactors(u) # {} \/ u \in Admins
  /\ Goto(s, "insert",
          [kind |-> "start", user |-> u,
           purpose |-> IF ActiveFactors(u) = {} THEN "ENROLL_CHOICE" ELSE "LOGIN"])
  /\ UNCHANGED <<tables, now, history>>

\* begin_authenticated_enrollment: the user is already signed in.
BeginEnrollment(s, u) ==
  /\ pc[s] = "idle"
  /\ Goto(s, "insert", [kind |-> "start", user |-> u, purpose |-> "ENROLL_CHOICE"])
  /\ UNCHANGED <<tables, now, history>>

\* _insert_transaction.
InsertTransaction(s, x) ==
  /\ pc[s] = "insert"
  /\ transactions[x] = NoTransaction
  /\ transactions' = [transactions EXCEPT ![x] =
       [user |-> job[s].user, purpose |-> job[s].purpose, attempts |-> 0,
        expired |-> FALSE, consumed |-> FALSE]]
  /\ Finish(s)
  /\ UNCHANGED <<passkeys, totp, now, history>>

\* prepare_enrollment: one choice per transaction, and no second authenticator
\* app while there is one.  Its secret is drawn here.
PrepareEnrollment(x, purpose) ==
  /\ Usable(x)
  /\ TransactionFree(x)
  /\ transactions[x].purpose = "ENROLL_CHOICE"
  /\ purpose = "ENROLL_TOTP" => ~totp[transactions[x].user].active
  /\ transactions' = [transactions EXCEPT ![x].purpose = purpose]
  /\ UNCHANGED <<passkeys, totp, now, pc, job, history>>

-----------------------------------------------------------------------------
(* complete_totp and complete_passkey *)

\* _transaction_for_update; the answer comes with the request.
LockTransaction(s, x, answer) ==
  /\ pc[s] = "idle"
  /\ Usable(x)
  /\ TransactionFree(x)
  /\ Goto(s, "verify", [kind |-> "complete", txn |-> x, answer |-> answer,
                        factor |-> None, ok |-> FALSE])
  /\ UNCHANGED <<tables, now, history>>

\* _matching_totp_step: this step, the one before or the one after.
InWindow(step) == step \in (now - 1)..(now + 1)

\* The row a login's answer is looked up by, and locked if there is one.
FactorOf(x, answer) ==
  IF answer.kind = "totp" THEN TotpOf(transactions[x].user) ELSE PasskeyOf(answer.id)

Found(x, answer) ==
  /\ transactions[x].purpose = "LOGIN"
  /\ FactorOf(x, answer) \in ActiveFactors(transactions[x].user)

Correct(x, answer) ==
  LET u == transactions[x].user
      purpose == transactions[x].purpose
  IN  \/ /\ purpose = "LOGIN" /\ answer.kind = "totp"
         /\ Found(x, answer)
         /\ answer.secret = totp[u].secret
         /\ InWindow(answer.step)
         /\ answer.step > totp[u].lastUsed
      \/ /\ purpose = "LOGIN" /\ answer.kind = "passkey"
         /\ Found(x, answer)
         /\ answer.good
      \/ /\ purpose = "ENROLL_TOTP" /\ answer.kind = "totp"
         /\ answer.secret = x
         /\ InWindow(answer.step)
      \/ /\ purpose = "ENROLL_PASSKEY" /\ answer.kind = "passkey"
         /\ passkeys[answer.id] = "ABSENT"
         /\ answer.good

\* The purposes each endpoint accepts; the others leave the transaction as it is.
Accepts(purpose, kind) ==
  \/ purpose = "LOGIN"
  \/ purpose = "ENROLL_TOTP" /\ kind = "totp"
  \/ purpose = "ENROLL_PASSKEY" /\ kind = "passkey"

\* Lock the factor a login is answered with, then verify.
Verify(s) ==
  LET x == job[s].txn
      answer == job[s].answer
      f == FactorOf(x, answer)
  IN  /\ pc[s] = "verify"
      /\ IF Accepts(transactions[x].purpose, answer.kind)
         THEN /\ Found(x, answer) => FactorFree(f)
              /\ Goto(s, "commit", [job[s] EXCEPT
                   !.factor = IF Found(x, answer) THEN f ELSE None,
                   !.ok = Correct(x, answer)])
         ELSE Finish(s)
      /\ UNCHANGED <<tables, now, history>>

\* _record_failure: the attempt counts although the request fails.
RecordFailure(s) ==
  LET x == job[s].txn
  IN  /\ pc[s] = "commit"
      /\ ~job[s].ok
      /\ transactions' = [transactions EXCEPT ![x].attempts = @ + 1]
      /\ Finish(s)
      /\ UNCHANGED <<passkeys, totp, now, history>>

\* _consume, with the commit of what the answer was good for.
Consume(s) ==
  LET x == job[s].txn
  IN  /\ transactions' = [transactions EXCEPT ![x].consumed = TRUE]
      /\ completed' = [completed EXCEPT ![x] = @ + 1]
      /\ accepted' = IF job[s].answer.kind = "totp"
                     THEN accepted \cup {[txn |-> x, secret |-> job[s].answer.secret,
                                          step |-> job[s].answer.step]}
                     ELSE accepted
      /\ Finish(s)
      /\ UNCHANGED now

CommitLogin(s) ==
  LET x == job[s].txn
      u == transactions[x].user
  IN  /\ pc[s] = "commit"
      /\ job[s].ok
      /\ transactions[x].purpose = "LOGIN"
      /\ totp' = IF job[s].answer.kind = "totp"
                 THEN [totp EXCEPT ![u].lastUsed = job[s].answer.step] ELSE totp
      /\ Consume(s)
      /\ UNCHANGED passkeys

\* INSERT ... ON CONFLICT (user_id) DO UPDATE: it waits for the row, then
\* writes it whatever it is by now.
CommitTotp(s) ==
  LET x == job[s].txn
      u == transactions[x].user
  IN  /\ pc[s] = "commit"
      /\ job[s].ok
      /\ transactions[x].purpose = "ENROLL_TOTP"
      /\ FactorFree(TotpOf(u))
      /\ totp' = [totp EXCEPT ![u] =
           [secret |-> x, lastUsed |-> job[s].answer.step, active |-> TRUE]]
      /\ Consume(s)
      /\ UNCHANGED passkeys

\* The credential id is unique: a second insert is rolled back.
CommitPasskey(s) ==
  LET x == job[s].txn
      c == job[s].answer.id
  IN  /\ pc[s] = "commit"
      /\ job[s].ok
      /\ transactions[x].purpose = "ENROLL_PASSKEY"
      /\ IF passkeys[c] = "ABSENT"
         THEN passkeys' = [passkeys EXCEPT ![c] = "ACTIVE"] /\ Consume(s)
         ELSE Finish(s) /\ UNCHANGED <<passkeys, transactions, now, history>>
      /\ UNCHANGED totp

-----------------------------------------------------------------------------
(* remove_totp and remove_passkey *)

\* Mutant: a removal does not lock the factor.
MutLockFactor(s, f) ==
  /\ pc[s] = "idle"
  /\ Active(f)
  /\ Goto(s, "guard", [kind |-> "remove", factor |-> f])
  /\ UNCHANGED <<tables, now, history>>

LockFactor(s, f) ==
  /\ pc[s] = "idle"
  /\ Active(f)
  /\ FactorFree(f)
  /\ Goto(s, "guard", [kind |-> "remove", factor |-> f])
  /\ UNCHANGED <<tables, now, history>>

\* _guard_last_factor counts the other factors without locking them.
Guard(s) ==
  LET f == job[s].factor
  IN  /\ pc[s] = "guard"
      /\ IF OwnerOf(f) \in Admins /\ ActiveFactors(OwnerOf(f)) \subseteq {f}
         THEN Finish(s)
         ELSE Goto(s, "revoke", job[s])
      /\ UNCHANGED <<tables, now, history>>

Revoke(s) ==
  LET f == job[s].factor
  IN  /\ pc[s] = "revoke"
      /\ IF f[1] = "totp"
         THEN totp' = [totp EXCEPT ![f[2]].active = FALSE] /\ UNCHANGED passkeys
         ELSE passkeys' = [passkeys EXCEPT ![f[2]] = "REVOKED"] /\ UNCHANGED totp
      /\ Finish(s)
      /\ UNCHANGED <<transactions, now, history>>

\* The connection is lost: everything uncommitted is rolled back.
Abort(s) ==
  /\ pc[s] # "idle"
  /\ Finish(s)
  /\ UNCHANGED <<tables, now, history>>

-----------------------------------------------------------------------------
\* Answers worth trying: codes of the secrets drawn so far, near the present;
\* a wrong code; and the user's own authenticators.
Answers(x) ==
  {Code(y, step) : y \in {z \in Transactions : transactions[z].purpose = "ENROLL_TOTP"},
                   step \in (now - 1)..(now + 1)}
  \cup {Code(None, now)}
  \cup {Response(c, good) : c \in {d \in Passkeys : Device[d] = transactions[x].user},
                            good \in BOOLEAN}

Next ==
  \/ \E s \in Sessions :
       \/ \E u \in Users : BeginLogin(s, u) \/ BeginEnrollment(s, u)
       \/ \E x \in Transactions : InsertTransaction(s, x)
       \/ \E x \in Transactions :
            Usable(x) /\ \E answer \in Answers(x) : LockTransaction(s, x, answer)
       \/ Verify(s) \/ RecordFailure(s)
       \/ CommitLogin(s) \/ CommitTotp(s) \/ CommitPasskey(s)
       \/ \E f \in Factors : LockFactor(s, f)
       \/ Guard(s) \/ Revoke(s) \/ Abort(s)
  \/ \E x \in Transactions, p \in {"ENROLL_TOTP", "ENROLL_PASSKEY"} : PrepareEnrollment(x, p)
  \/ \E x \in Transactions : Expire(x)
  \/ Tick

Spec == Init /\ [][Next]_vars

-----------------------------------------------------------------------------
(* Properties *)

TypeOK ==
  /\ passkeys \in [Passkeys -> {"ABSENT", "ACTIVE", "REVOKED"}]
  /\ totp \in [Users -> TotpRow]
  /\ transactions \in [Transactions -> TransactionRow \cup {NoTransaction}]
  /\ now \in 1..LastStep
  /\ pc \in [Sessions -> {"idle", "insert", "verify", "commit", "guard", "revoke"}]
  /\ DOMAIN job = Sessions /\ \A s \in Sessions : job[s] \in JobAt(pc[s])
  /\ completed \in [Transactions -> Nat]

\* An authenticator code counts once: two logins racing with the same code, or
\* a login with the code of the enrolment, cannot both be accepted.
CodeUsedOnce ==
  \A a, b \in accepted : a.secret = b.secret /\ a.step = b.step => a.txn = b.txn

\* A challenge is answered at most once, and after MaxAttempts wrong answers
\* never, however many requests answer it at the same time.
ChallengeAnsweredOnce ==
  \A x \in Transactions :
    /\ completed[x] <= 1
    /\ transactions[x] # NoTransaction =>
         /\ transactions[x].attempts <= MaxAttempts
         /\ transactions[x].attempts = MaxAttempts => completed[x] = 0

\* A row lock has one holder, and a challenge that is being answered is open: the
\* answer was right for a factor nobody else can change before the commit.
LocksHeld ==
  /\ \A s, t \in Sessions : \A x \in Transactions :
       HoldsTransaction(s, x) /\ HoldsTransaction(t, x) => s = t
  /\ \A s, t \in Sessions : \A f \in Factors : HoldsFactor(s, f) /\ HoldsFactor(t, f) => s = t

Open(x) ==
  transactions[x] # NoTransaction /\ ~transactions[x].consumed /\ transactions[x].attempts < MaxAttempts

RightLogin(x, answer, f) ==
  /\ f = FactorOf(x, answer)
  /\ OwnerOf(f) = transactions[x].user /\ Active(f)
  /\ answer.kind = "totp" =>
       /\ answer.secret = totp[transactions[x].user].secret
       /\ answer.step > totp[transactions[x].user].lastUsed

AnswerFits(s) ==
  /\ pc[s] \in {"verify", "commit"} => Open(job[s].txn)
  /\ pc[s] = "commit" /\ job[s].ok =>
       /\ transactions[job[s].txn].purpose = "LOGIN" =>
            RightLogin(job[s].txn, job[s].answer, job[s].factor)
       /\ transactions[job[s].txn].purpose = "ENROLL_TOTP" =>
            job[s].answer.kind = "totp" /\ job[s].answer.secret = job[s].txn
       /\ transactions[job[s].txn].purpose = "ENROLL_PASSKEY" => job[s].answer.kind = "passkey"

AnswersFit == \A s \in Sessions : AnswerFits(s)

\* A completed challenge is consumed, and none was answered wrongly too often.
Counted ==
  \A x \in Transactions :
    IF transactions[x] = NoTransaction THEN completed[x] = 0
    ELSE /\ completed[x] = IF transactions[x].consumed THEN 1 ELSE 0
         /\ transactions[x].attempts <= MaxAttempts
         /\ transactions[x].consumed => transactions[x].attempts < MaxAttempts

\* A secret belongs to the user of the enrolment that drew it, which is over; the
\* codes accepted for it are no newer than its last one.
Enrolled(y) == y \in Transactions /\ transactions[y] # NoTransaction /\ transactions[y].consumed

SecretsKnown ==
  /\ \A u \in Users :
       /\ totp[u].active => totp[u].secret # None
       /\ totp[u].secret # None => Enrolled(totp[u].secret) /\ transactions[totp[u].secret].user = u
  /\ \A a \in accepted :
       /\ a.step \in Int /\ Enrolled(a.secret)
       /\ \A u \in Users : totp[u].secret = a.secret => a.step <= totp[u].lastUsed

\* Inductive: it holds at first and every step keeps it.
MfaInv == TypeOK /\ LocksHeld /\ AnswersFit /\ Counted /\ SecretsKnown /\ CodeUsedOnce

\* A login that completes was answered with a factor that is active when it
\* completes: a removal that commits first wins, one that waits comes after.
LoginWithActiveFactor ==
  [][\A s \in Sessions :
       pc[s] = "commit" /\ CommitLogin(s) => Active(job[s].factor)]_vars

\* What _guard_last_factor promises: "Administrators must keep at least one
\* MFA factor."
AdministratorsKeepFactor ==
  [][\A u \in Admins : ActiveFactors(u) # {} => ActiveFactors(u)' # {}]_vars

\* What prepare_enrollment promises: "Remove the existing authenticator app
\* before replacing it."
RemovedBeforeReplaced ==
  [][\A u \in Users :
       totp[u].active /\ totp'[u].active => totp'[u].secret = totp[u].secret]_vars
=============================================================================
