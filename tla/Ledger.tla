------------------------------- MODULE Ledger -------------------------------
(***************************************************************************)
(* Money movement in Bantam: LedgerService.create_transfer with the SCA    *)
(* challenges it consumes, the reversal and deposit routes that call it,   *)
(* and the handlers that change, under its feet, what it reads: freezing,  *)
(* account opening and KYC decisions.                                      *)
(*                                                                         *)
(* Every session is one request served on one PostgreSQL connection at     *)
(* READ COMMITTED.  A step is one statement as the other sessions see it:  *)
(* a committed read, the grant of a lock, or a commit.  Uncommitted writes *)
(* are invisible, so the writes of create_transfer are the one step Post,  *)
(* which holds every lock taken since AcquireKey.  A rollback (an error, a *)
(* lost connection, a crash of the server) releases the locks and leaves   *)
(* the tables as they were.                                                *)
(*                                                                         *)
(* Abstracted: ids are positions in the tables, the only currency is GBP   *)
(* (everything else is refused before any state changes), available and    *)
(* current balance move together, and the audit row each handler writes    *)
(* in its own transaction is left out.                                     *)
(***************************************************************************)
EXTENDS Integers, Sequences, FiniteSets, FiniteSetsExt

CONSTANTS
  Sessions,         \* requests that may be in progress at the same time
  Customers,        \* users with a customer profile
  Admins,           \* users with the role BANK_ADMIN
  Accounts,         \* account ids, opened or not
  Owner,            \* the customer of an account, None for a SYSTEM account
  Order,            \* the order of account ids, as ORDER BY account_id sorts
  Seeded,           \* accounts the seed command has opened
  Keys,             \* idempotency keys
  ReversalKeys,     \* the keys administrators send with reversals
  Challenges,       \* SCA challenge ids
  Threshold,        \* amounts from here on need a challenge
  Commands,         \* transfer and deposit commands clients may send
  ChallengeRequests,\* SCA challenge requests clients may send
  MaxTransactions,  \* bound: rows of the transactions table
  MaxEvents,        \* bound: outbox rows from which on operators are idle
  None              \* SQL NULL

Users == Customers \cup Admins

\* A transfer command as the routes build it.  rightCode says whether the
\* six digits sent are the ones of the challenge; reverses is 0 for NULL.
Command == [type        : {"TRANSFER", "DEMO_DEPOSIT", "REVERSAL"},
            user        : Users,
            key         : Keys,
            source      : Accounts,
            destination : Accounts,
            amount      : Nat,
            challenge   : Challenges \cup {None},
            rightCode   : BOOLEAN,
            reverses    : Nat]

ChallengeRequest == [type        : {"CHALLENGE"},
                     user        : Customers,
                     source      : Accounts,
                     destination : Accounts,
                     amount      : Nat]

OpenRequest == [type : {"OPEN"}, user : Customers, account : Accounts]

ASSUME ConstantsAssumption ==
  /\ None \notin Users \cup Challenges
  /\ Customers \cap Admins = {}
  /\ Owner \in [Accounts -> Customers \cup {None}]
  /\ IsFiniteSet(Accounts) /\ Order \in [Accounts -> Nat]
  /\ \A a, b \in Accounts : Order[a] = Order[b] => a = b
  /\ Seeded \subseteq Accounts
  /\ \A a \in Accounts : Owner[a] = None => a \in Seeded
  /\ Threshold \in Nat
  /\ MaxTransactions \in Nat
  /\ MaxEvents \in Nat

\* A challenge as the bank sees it; NULL is not one.
AuthorityRow == [user        : Customers,
                 source      : Accounts,
                 destination : Accounts,
                 amount      : Nat,
                 spent       : BOOLEAN]

ASSUME NullAssumption == None \notin AuthorityRow

\* The routes that take a command body: customers transfer, administrators
\* deposit from a SYSTEM account; reversals are built by SubmitReversal.
ASSUME CommandsAssumption ==
  /\ Commands \subseteq Command
  /\ ReversalKeys \subseteq Keys
  /\ \A c \in Commands :
       /\ c.reverses = 0
       /\ \/ c.type = "TRANSFER" /\ c.user \in Customers
          \/ /\ c.type = "DEMO_DEPOSIT"
             /\ c.user \in Admins
             /\ Owner[c.source] = None
             /\ c.challenge = None
  /\ ChallengeRequests \subseteq ChallengeRequest

VARIABLES
  status,        \* bank_accounts.status, "ABSENT" while the row does not exist
  balance,       \* account_balances
  kyc,           \* customers.kyc_status
  transactions,  \* the transactions table, in the order of commits
  entries,       \* the ledger_entries table
  outbox,        \* the outbox_events table
  challenges,    \* the sca_challenges table
  pc,            \* where each session's request is
  request,       \* the request a session is serving
  seen,          \* account rows the session has locked, as it read them
  reply          \* the transaction the session's last request was answered with

bankVars    == <<status, balance, kyc, transactions, entries, outbox, challenges>>
sessionVars == <<pc, request, seen, reply>>
vars        == <<bankVars, sessionVars>>

-----------------------------------------------------------------------------
(* Rows and helpers *)

AccountStatus == {"ABSENT", "ACTIVE", "FROZEN"}
KycStatus     == {"PENDING_KYC", "PENDING_REVIEW", "KYC_VERIFIED", "KYC_REJECTED"}

NoRequest == [type |-> "NONE"]
NothingRead == [a \in {} |-> None]
NoChallenge == [status |-> "ABSENT"]

AccountRow == [status : AccountStatus, balance : Int]

\* The columns of a posted row; challenge is a history field (the table does
\* not keep it) naming the challenge its session consumed.
Transaction == [type        : {"TRANSFER", "DEMO_DEPOSIT", "REVERSAL"},
                user        : Users,
                key         : Keys,
                source      : Accounts,
                destination : Accounts,
                amount      : Nat,
                reverses    : Nat,
                status      : {"POSTED", "REVERSED"},
                challenge   : Challenges \cup {None}]

Entry == [transaction : Nat, account : Accounts, amount : Int]

ChallengeRow == [status      : {"PENDING", "CONSUMED"},
                 expired     : BOOLEAN,
                 user        : Customers,
                 source      : Accounts,
                 destination : Accounts,
                 amount      : Nat]

\* Mutant: the balance is not checked, by service or trigger.
MutAllowNegative(a) == TRUE

\* The column allow_negative, tied to the account type by a CHECK.
AllowNegative(a) == Owner[a] = None

\* SCAService.required, and only customer transfers reach it.
Required(amount) == amount >= Threshold
OperatorOverride(c) == c.type # "TRANSFER"

\* Mutant: the lookup sees the newest row only.
MutNewestExisting(u, k) ==
  {t \in DOMAIN transactions : /\ t = Len(transactions)
                               /\ transactions[t].user = u
                               /\ transactions[t].key = k}

\* Mutant: the lookup forgets the user.
MutExistingOfAnyone(u, k) ==
  {t \in DOMAIN transactions : transactions[t].key = k}

\* SELECT ... WHERE initiated_by_user_id = u AND idempotency_key = k
Existing(u, k) ==
  {t \in DOMAIN transactions : transactions[t].user = u /\ transactions[t].key = k}

\* What _normalise and the table's CHECKs demand of a command.
Normalised(c) ==
  /\ c.amount > 0
  /\ c.source # c.destination
  /\ OperatorOverride(c) => c.user \in Admins

\* The states in which a session holds the advisory lock of its command.
InTransaction == {"recheck", "lock", "check", "sca", "post"}
Labels == InTransaction \cup {"idle", "find", "key", "open", "issue"}

\* Mutant: no advisory lock.
MutHoldsKey(s, u, k) == FALSE

HoldsKey(s, u, k) ==
  pc[s] \in InTransaction /\ request[s].user = u /\ request[s].key = k

\* FOR UPDATE locks live as long as the rows they returned.
HoldsAccount(s, a) == a \in DOMAIN seen[s]
\* Mutant: the account rows are read without FOR UPDATE.
MutAccountFree(a) == TRUE

AccountFree(a) == \A s \in Sessions : ~HoldsAccount(s, a)

\* A session between SCA consumption and commit keeps the challenge row locked.
UsesChallenge(c) ==
  IF ~OperatorOverride(c) /\ Required(c.amount) THEN c.challenge ELSE None
HoldsChallenge(s, h) == pc[s] = "post" /\ UsesChallenge(request[s]) = h

\* The account the ordered locking query locks next.
Wanted(s) == {request[s].source, request[s].destination} \ DOMAIN seen[s]
\* Mutant: accounts are locked source first.
MutNextAccount(s) ==
  IF request[s].source \in Wanted(s) THEN request[s].source ELSE request[s].destination

NextAccount(s) ==
  CHOOSE a \in Wanted(s) : \A b \in Wanted(s) : Order[a] <= Order[b]

\* The request ends; whatever it had not committed is gone, its locks too.
Finish(s, t) ==
  /\ pc'      = [pc EXCEPT ![s] = "idle"]
  /\ request' = [request EXCEPT ![s] = IF t = None THEN NoRequest ELSE request[s]]
  /\ seen'    = [seen EXCEPT ![s] = NothingRead]
  /\ reply'   = [reply EXCEPT ![s] = t]

Fail(s) == Finish(s, None) /\ UNCHANGED bankVars

Goto(s, label) ==
  /\ pc' = [pc EXCEPT ![s] = label]
  /\ UNCHANGED <<request, reply>>

-----------------------------------------------------------------------------
Init ==
  /\ status       = [a \in Accounts |-> IF a \in Seeded THEN "ACTIVE" ELSE "ABSENT"]
  /\ balance      = [a \in Accounts |-> 0]
  /\ kyc          = [c \in Customers |-> IF \E a \in Seeded : Owner[a] = c
                                         THEN "KYC_VERIFIED" ELSE "PENDING_KYC"]
  /\ transactions = <<>>
  /\ entries      = <<>>
  /\ outbox       = <<>>
  /\ challenges   = [h \in Challenges |-> NoChallenge]
  /\ pc           = [s \in Sessions |-> "idle"]
  /\ request      = [s \in Sessions |-> NoRequest]
  /\ seen         = [s \in Sessions |-> NothingRead]
  /\ reply        = [s \in Sessions |-> None]

-----------------------------------------------------------------------------
(* create_transfer *)

Begin(s, label, r) ==
  /\ pc[s] = "idle"
  /\ pc'      = [pc EXCEPT ![s] = label]
  /\ request' = [request EXCEPT ![s] = r]
  /\ reply'   = [reply EXCEPT ![s] = None]
  /\ UNCHANGED <<seen, bankVars>>

\* POST /v1/transfers, and the demo-deposit route, whose source is a SYSTEM
\* account read outside the transaction (operators cannot freeze one).
Submit(s, c) ==
  /\ Normalised(c)
  /\ c.type = "DEMO_DEPOSIT" => status[c.source] = "ACTIVE"
  /\ Begin(s, "find", c)

\* The reversal route reads the original outside the transaction and mirrors it.
SubmitReversal(s, u, k, t) ==
  /\ transactions[t].status = "POSTED"
  /\ Begin(s, "find",
           [type        |-> "REVERSAL",
            user        |-> u,
            key         |-> k,
            source      |-> transactions[t].destination,
            destination |-> transactions[t].source,
            amount      |-> transactions[t].amount,
            challenge   |-> None,
            rightCode   |-> FALSE,
            reverses    |-> t])

\* The first find_by_idempotency, on a connection of its own.
Find(s) ==
  /\ pc[s] = "find"
  /\ LET found == Existing(request[s].user, request[s].key)
     IN  IF found # {}
         THEN \E t \in found : Finish(s, t)
         ELSE Goto(s, "key") /\ UNCHANGED seen
  /\ UNCHANGED bankVars

\* pg_advisory_xact_lock on (user, key); it waits while another session has it.
AcquireKey(s) ==
  /\ pc[s] = "key"
  /\ \A o \in Sessions : ~HoldsKey(o, request[s].user, request[s].key)
  /\ Goto(s, "recheck")
  /\ UNCHANGED <<seen, bankVars>>

\* The second lookup, under the advisory lock.
Recheck(s) ==
  /\ pc[s] = "recheck"
  /\ LET found == Existing(request[s].user, request[s].key)
     IN  IF found # {}
         THEN \E t \in found : Finish(s, t)
         ELSE Goto(s, "lock") /\ UNCHANGED seen
  /\ UNCHANGED bankVars

\* _lock_accounts: FOR UPDATE in the order of account ids, one row at a time;
\* a row is read as it is when its lock is granted.
LockAccount(s) ==
  /\ pc[s] = "lock"
  /\ LET a == NextAccount(s)
     IN  /\ status[a] # "ABSENT"
         /\ AccountFree(a)
         /\ seen' = [seen EXCEPT ![s] =
              [b \in DOMAIN @ \cup {a} |->
                 IF b = a THEN [status |-> status[a], balance |-> balance[a]] ELSE @[b]]]
         /\ Goto(s, IF Wanted(s) = {a} THEN "check" ELSE "lock")
  /\ UNCHANGED bankVars

\* Fewer than two rows: NOT_FOUND.
AccountMissing(s) ==
  /\ pc[s] = "lock"
  /\ status[NextAccount(s)] = "ABSENT"
  /\ Fail(s)

\* Mutant: the destination's status is not checked.
MutPermitted(s) ==
  LET c == request[s]
  IN  /\ seen[s][c.source].status = "ACTIVE"
      /\ ~OperatorOverride(c) =>
           /\ Owner[c.source] = c.user
           /\ kyc[c.user] = "KYC_VERIFIED"

\* The rules checked on the rows just locked, and on the customer row, which
\* is read without a lock.
Permitted(s) ==
  LET c == request[s]
  IN  /\ seen[s][c.source].status = "ACTIVE"
      /\ seen[s][c.destination].status = "ACTIVE"
      /\ ~OperatorOverride(c) =>
           /\ Owner[c.source] = c.user
           /\ kyc[c.user] = "KYC_VERIFIED"

Check(s) ==
  /\ pc[s] = "check"
  /\ IF Permitted(s)
     THEN /\ Goto(s, IF ~OperatorOverride(request[s]) /\ Required(request[s].amount)
                     THEN "sca" ELSE "post")
          /\ UNCHANGED <<seen, bankVars>>
     ELSE Fail(s)

\* Every input bound into the challenge's HMAC equals the command's.
Bound(row, c) ==
  /\ row.user        = c.user
  /\ row.source      = c.source
  /\ row.destination = c.destination
  /\ row.amount      = c.amount

\* Mutant: the status of the challenge is not checked.
MutChallengeAccepted(c) ==
  /\ c.challenge # None
  /\ challenges[c.challenge] # NoChallenge
  /\ ~challenges[c.challenge].expired
  /\ Bound(challenges[c.challenge], c)
  /\ c.rightCode

ChallengeAccepted(c) ==
  /\ c.challenge # None
  /\ challenges[c.challenge].status = "PENDING"
  /\ ~challenges[c.challenge].expired
  /\ Bound(challenges[c.challenge], c)
  /\ c.rightCode

\* validate_and_consume: lock the challenge row, read it, mark it consumed.
\* The mark becomes visible with the commit (Post) or is rolled back.
ConsumeChallenge(s) ==
  /\ pc[s] = "sca"
  /\ \A o \in Sessions : request[s].challenge # None => ~HoldsChallenge(o, request[s].challenge)
  /\ IF ChallengeAccepted(request[s])
     THEN Goto(s, "post") /\ UNCHANGED <<seen, bankVars>>
     ELSE Fail(s)

SufficientFunds(s) ==
  LET c == request[s]
  IN  AllowNegative(c.source) \/ seen[s][c.source].balance >= c.amount

\* Mutant: a reversal may be reversed.
MutReversalAllowed(c) ==
  c.reverses # 0 =>
    LET original == transactions[c.reverses]
    IN  /\ original.status = "POSTED"
        /\ c.source = original.destination
        /\ c.destination = original.source
        /\ c.amount = original.amount

\* _validate_reversal, which locks and re-reads the original.
ReversalAllowed(c) ==
  c.reverses # 0 =>
    LET original == transactions[c.reverses]
    IN  /\ c.reverses \in DOMAIN transactions
        /\ original.status = "POSTED"
        /\ original.type # "REVERSAL"
        /\ c.source = original.destination
        /\ c.destination = original.source
        /\ c.amount = original.amount

\* Mutant: the destination's balance is not updated.
MutMoved(c) ==
  [balance EXCEPT ![c.source] = @ - c.amount]

Moved(c) ==
  [balance EXCEPT ![c.source] = @ - c.amount, ![c.destination] = @ + c.amount]

\* The unique indexes and the non-negative balance trigger.
DatabaseAccepts(c) ==
  /\ Existing(c.user, c.key) = {}
  /\ c.reverses # 0 =>
       \A t \in DOMAIN transactions : transactions[t].reverses # c.reverses
  /\ \A a \in {c.source, c.destination} : AllowNegative(a) \/ Moved(c)[a] >= 0

PostedRow(c) ==
  [type        |-> c.type,
   user        |-> c.user,
   key         |-> c.key,
   source      |-> c.source,
   destination |-> c.destination,
   amount      |-> c.amount,
   reverses    |-> c.reverses,
   status      |-> "POSTED",
   challenge   |-> UsesChallenge(c)]

\* Mutant: the UPDATE has a wrong WHERE clause.
MutMarkReversed(table, t) ==
  [i \in DOMAIN table |->
     IF i <= t THEN [table[i] EXCEPT !.status = "REVERSED"] ELSE table[i]]

\* UPDATE transactions SET status = 'REVERSED'
MarkReversed(table, t) ==
  [i \in DOMAIN table |->
     IF i = t THEN [table[i] EXCEPT !.status = "REVERSED"] ELSE table[i]]

\* The two rows INSERT INTO ledger_entries writes.
Postings(c, t) ==
  << [transaction |-> t, account |-> c.source,      amount |-> 0 - c.amount],
     [transaction |-> t, account |-> c.destination, amount |-> c.amount] >>

Commit(s) ==
  LET c == request[s]
      t == Len(transactions) + 1
      h == UsesChallenge(c)
  IN  /\ transactions' = Append(MarkReversed(transactions, c.reverses), PostedRow(c))
      /\ entries'      = entries \o Postings(c, t)
      /\ balance'      = Moved(c)
      /\ challenges'   = [x \in Challenges |->
                            IF x = h THEN [challenges[x] EXCEPT !.status = "CONSUMED"]
                            ELSE challenges[x]]
      /\ outbox'       = Append(outbox, [type |-> "payment.transfer_posted.v1",
                                         aggregate |-> t])
      /\ UNCHANGED <<status, kyc>>
      /\ Finish(s, t)

Post(s) ==
  /\ pc[s] = "post"
  /\ IF SufficientFunds(s) /\ ReversalAllowed(request[s]) /\ DatabaseAccepts(request[s])
     THEN /\ Len(transactions) < MaxTransactions
          /\ Commit(s)
     ELSE Fail(s)

\* The connection or the server goes away, or PostgreSQL cancels the session.
Abort(s) ==
  /\ pc[s] # "idle"
  /\ Fail(s)

-----------------------------------------------------------------------------
(* SCA challenges: SCAService.create reads both accounts, then inserts *)

RequestChallenge(s, r) ==
  /\ r.amount > 0
  /\ r.source # r.destination
  /\ Owner[r.source] = r.user
  /\ status[r.source] = "ACTIVE"
  /\ status[r.destination] = "ACTIVE"
  /\ Required(r.amount)
  /\ Begin(s, "issue", r)

\* The foreign keys of the new row take KEY SHARE locks on both accounts,
\* which wait for the FOR UPDATE locks of transfers.
IssueChallenge(s, h) ==
  LET r == request[s]
  IN  /\ pc[s] = "issue"
      /\ challenges[h] = NoChallenge
      /\ AccountFree(r.source)
      /\ AccountFree(r.destination)
      /\ challenges' = [challenges EXCEPT ![h] =
           [status |-> "PENDING", expired |-> FALSE, user |-> r.user,
            source |-> r.source, destination |-> r.destination, amount |-> r.amount]]
      /\ Finish(s, None)
      /\ UNCHANGED <<status, balance, kyc, transactions, entries, outbox>>

\* The clock passes expires_at.
Expire(h) ==
  /\ challenges[h].status = "PENDING"
  /\ ~challenges[h].expired
  /\ challenges' = [challenges EXCEPT ![h].expired = TRUE]
  /\ UNCHANGED <<status, balance, kyc, transactions, entries, outbox, sessionVars>>

-----------------------------------------------------------------------------
(* Customers and accounts *)

SubmitKyc(c) ==
  /\ kyc[c] \in {"PENDING_KYC", "KYC_REJECTED"}
  /\ kyc' = [kyc EXCEPT ![c] = "PENDING_REVIEW"]
  /\ UNCHANGED <<status, balance, transactions, entries, outbox, challenges, sessionVars>>

\* Mutant: a decision does not ask for PENDING_REVIEW.
MutDecideKyc(c, decision) ==
  /\ Len(outbox) < MaxEvents
  /\ kyc' = [kyc EXCEPT ![c] = decision]
  /\ outbox' = Append(outbox, [type |-> decision, aggregate |-> c])
  /\ UNCHANGED <<status, balance, transactions, entries, challenges, sessionVars>>

DecideKyc(c, decision) ==
  /\ Len(outbox) < MaxEvents
  /\ kyc[c] = "PENDING_REVIEW"
  /\ kyc' = [kyc EXCEPT ![c] = decision]
  /\ outbox' = Append(outbox, [type |-> decision, aggregate |-> c])
  /\ UNCHANGED <<status, balance, transactions, entries, challenges, sessionVars>>

\* open_account reads the customer first and inserts in a later transaction.
RequestAccount(s, a) ==
  /\ Owner[a] # None
  /\ status[a] = "ABSENT"
  /\ \A o \in Sessions : request[o] # [type |-> "OPEN", user |-> Owner[a], account |-> a]
  /\ kyc[Owner[a]] = "KYC_VERIFIED"
  /\ Begin(s, "open", [type |-> "OPEN", user |-> Owner[a], account |-> a])

OpenAccount(s) ==
  LET a == request[s].account
  IN  /\ pc[s] = "open"
      /\ Len(outbox) < MaxEvents
      /\ status'  = [status EXCEPT ![a] = "ACTIVE"]
      /\ balance' = [balance EXCEPT ![a] = 0]
      /\ outbox'  = Append(outbox, [type |-> "account.opened.v1", aggregate |-> a])
      /\ Finish(s, None)
      /\ UNCHANGED <<kyc, transactions, entries, challenges>>

\* operator_set_account_status: the UPDATE waits for the row lock of a transfer
\* and touches CURRENT accounts only.
SetAccountStatus(a, new) ==
  /\ Len(outbox) < MaxEvents
  /\ Owner[a] # None
  /\ status[a] # "ABSENT"
  /\ AccountFree(a)
  /\ status' = [status EXCEPT ![a] = new]
  /\ outbox' = Append(outbox, [type |-> IF new = "FROZEN" THEN "account.frozen.v1"
                                        ELSE "account.unfrozen.v1",
                               aggregate |-> a])
  /\ UNCHANGED <<balance, kyc, transactions, entries, challenges, sessionVars>>

-----------------------------------------------------------------------------
Transfer(s) ==
  \/ Find(s) \/ AcquireKey(s) \/ Recheck(s)
  \/ LockAccount(s) \/ AccountMissing(s)
  \/ Check(s) \/ ConsumeChallenge(s) \/ Post(s)

Client(s) ==
  \/ \E c \in Commands : Submit(s, c)
  \/ \E u \in Admins, k \in ReversalKeys, t \in DOMAIN transactions : SubmitReversal(s, u, k, t)
  \/ \E r \in ChallengeRequests : RequestChallenge(s, r)
  \/ \E a \in Accounts : RequestAccount(s, a)

Operators ==
  \/ \E c \in Customers : SubmitKyc(c)
  \/ \E c \in Customers, d \in {"KYC_VERIFIED", "KYC_REJECTED"} : DecideKyc(c, d)
  \/ \E a \in Accounts, new \in {"ACTIVE", "FROZEN"} : SetAccountStatus(a, new)

Next ==
  \/ \E s \in Sessions :
       \/ Client(s)
       \/ Transfer(s)
       \/ Abort(s)
       \/ \E h \in Challenges : IssueChallenge(s, h)
       \/ OpenAccount(s)
  \/ \E h \in Challenges : Expire(h)
  \/ Operators

Spec == Init /\ [][Next]_vars

\* Lock waits in PostgreSQL are served in order, so a session that keeps being
\* able to take its lock gets it: strong fairness of the steps that wait, weak
\* fairness of the others.  No fairness for clients, operators or failures.
Fairness ==
  \A s \in Sessions :
    /\ SF_vars(AcquireKey(s) \/ LockAccount(s) \/ ConsumeChallenge(s))
    /\ WF_vars(Find(s) \/ Recheck(s) \/ AccountMissing(s) \/ Check(s) \/ Post(s))

FairSpec == Spec /\ Fairness

-----------------------------------------------------------------------------
(* Properties *)

TablesTyped ==
  /\ status \in [Accounts -> AccountStatus]
  /\ balance \in [Accounts -> Int]
  /\ kyc \in [Customers -> KycStatus]
  /\ transactions \in Seq(Transaction)
  /\ entries \in Seq(Entry)
  /\ challenges \in [Challenges -> ChallengeRow \cup {NoChallenge}]

\* The columns a request must have at the label its session has reached.
Serves(label, r) ==
  /\ label \in InTransaction \cup {"find", "key"} => r \in Command /\ Normalised(r)
  /\ label = "open" => r \in OpenRequest
  /\ label = "issue" => r \in ChallengeRequest

SessionsTyped ==
  /\ pc \in [Sessions -> Labels]
  /\ DOMAIN request = Sessions
  /\ DOMAIN seen = Sessions
  /\ reply \in [Sessions -> Nat \cup {None}]
  /\ \A s \in Sessions :
       /\ Serves(pc[s], request[s])
       /\ DOMAIN seen[s] \subseteq Accounts
       /\ \A a \in DOMAIN seen[s] : seen[s][a] \in AccountRow

\* Every table and every session holds rows of its type, and a session in
\* create_transfer is serving a transfer command.
TypeOK == TablesTyped /\ SessionsTyped

\* No interleaving of transfers, retries, deposits and reversals drives a
\* customer account below zero (ledger.py spends what it read under the lock).
NoOverdraft == \A a \in Accounts : Owner[a] # None => balance[a] >= 0

\* A user's idempotency key posts at most once, however often and however
\* concurrently the request is sent (ledger.py:74-102).
OnePostingPerKey ==
  \A t, o \in DOMAIN transactions :
    transactions[t].user = transactions[o].user /\ transactions[t].key = transactions[o].key
      => t = o

\* What reconcile reports: every balance is the sum of its ledger entries, and
\* money is neither created nor destroyed.
Authoritative(a) ==
  MapThenSumSet(LAMBDA i : entries[i].amount,
                {i \in DOMAIN entries : entries[i].account = a})

Reconciles ==
  /\ \A a \in Accounts : balance[a] = Authoritative(a)
  /\ MapThenSumSet(LAMBDA a : balance[a], Accounts) = 0

\* A request is answered with a posting made under its own user and key, never
\* with another user's, whether it posted, was replayed or raced.
AnswersOwnRequest ==
  \A s \in Sessions :
    reply[s] # None =>
      /\ reply[s] \in DOMAIN transactions
      /\ transactions[reply[s]].user = request[s].user
      /\ transactions[reply[s]].key = request[s].key

\* What a session read before it waited is still true when it posts: the rows
\* it locked have not changed, the customer is still verified, the challenge
\* is still unspent, and nobody has used its key.
NothingStaleAtPost ==
  \A s \in Sessions :
    pc[s] = "post" =>
      LET c == request[s]
      IN  /\ \A a \in {c.source, c.destination} :
               seen[s][a] = [status |-> status[a], balance |-> balance[a]]
          /\ c.type = "TRANSFER" => kyc[c.user] = "KYC_VERIFIED"
          /\ UsesChallenge(c) # None =>
               /\ challenges[c.challenge].status = "PENDING"
               /\ Bound(challenges[c.challenge], c)
          /\ Existing(c.user, c.key) = {}

\* The unique indexes and the balance trigger are a second line: whenever the
\* service's own checks pass, the database accepts, and no client sees a
\* constraint error.
DatabaseNeverRefuses ==
  \A s \in Sessions :
    pc[s] = "post" /\ SufficientFunds(s) /\ ReversalAllowed(request[s])
      => DatabaseAccepts(request[s])

\* Strong customer authentication: every high customer transfer spent a
\* challenge bound to its user, accounts and amount; no challenge was spent
\* twice; and none was spent without a posting.
ChallengeSpentOnce ==
  /\ \A t \in DOMAIN transactions :
       LET x == transactions[t]
       IN  x.type = "TRANSFER" /\ Required(x.amount) =>
             /\ x.challenge # None
             /\ challenges[x.challenge].status = "CONSUMED"
             /\ Bound(challenges[x.challenge], x)
  /\ \A h \in Challenges :
       challenges[h].status = "CONSUMED" =>
         Cardinality({t \in DOMAIN transactions : transactions[t].challenge = h}) = 1

\* A posting is REVERSED exactly when one later posting gives its money back,
\* and a reversal is never itself reversed.
ReversedOnce ==
  \A t \in DOMAIN transactions :
    LET undoing == {r \in DOMAIN transactions : transactions[r].reverses = t}
    IN  /\ transactions[t].status = "REVERSED" <=> undoing # {}
        /\ \A r, q \in undoing : r = q
        /\ \A r \in undoing :
             /\ r > t
             /\ transactions[t].type # "REVERSAL"
             /\ transactions[r].source = transactions[t].destination
             /\ transactions[r].destination = transactions[t].source
             /\ transactions[r].amount = transactions[t].amount

\* Posted history is durable: rows are only appended, a row changes only from
\* POSTED to REVERSED and that in the step that appends its reversal, and a
\* spent challenge stays spent.
HistoryIsDurable ==
  [][/\ \A t \in DOMAIN transactions :
          /\ t \in DOMAIN transactions'
          /\ \/ transactions'[t] = transactions[t]
             \/ /\ transactions[t].status = "POSTED"
                /\ transactions'[t] = [transactions[t] EXCEPT !.status = "REVERSED"]
                /\ transactions'[Len(transactions')].reverses = t
     /\ Len(entries') >= Len(entries)
     /\ \A i \in DOMAIN entries : entries'[i] = entries[i]
     /\ \A h \in Challenges :
          challenges[h].status = "CONSUMED" => challenges'[h] = challenges[h]]_vars

\* Money moves only between accounts that are ACTIVE at the moment it moves:
\* once a freeze has committed, no transfer in flight gets past it.
FreezeStopsMoney ==
  [][\A a \in Accounts :
       balance'[a] # balance[a] => status[a] = "ACTIVE" /\ status'[a] = "ACTIVE"]_vars

\* An account in use belongs to a verified customer, although KYC is read
\* without a lock, before the account is inserted or the transfer commits.
AccountsOfVerified ==
  \A a \in Accounts :
    status[a] # "ABSENT" /\ Owner[a] # None => kyc[Owner[a]] = "KYC_VERIFIED"

\* No session waits for ever: every transfer request is answered or refused,
\* because all sessions take key, accounts and challenge in the same order.
EveryRequestEnds ==
  \A s \in Sessions :
    pc[s] \in InTransaction \cup {"find", "key"} ~> pc[s] = "idle"

-----------------------------------------------------------------------------
(* The inductive invariant: what each label of create_transfer may rely on *)

\* A locked row is as its session read it, and exists.
LockedRowsFresh ==
  \A s \in Sessions : \A a \in DOMAIN seen[s] :
    /\ seen[s][a] = [status |-> status[a], balance |-> balance[a]]
    /\ status[a] # "ABSENT"

\* Row locks are held only between "lock" and "post", on the command's accounts.
LocksFollowLabels ==
  \A s \in Sessions :
    /\ pc[s] \notin {"lock", "check", "sca", "post"} => DOMAIN seen[s] = {}
    /\ pc[s] = "lock" =>
         /\ DOMAIN seen[s] \subseteq {request[s].source, request[s].destination}
         /\ Wanted(s) # {}
    /\ pc[s] \in {"check", "sca", "post"} =>
         DOMAIN seen[s] = {request[s].source, request[s].destination}

\* No two sessions hold the same account, key or challenge.
LocksExclusive ==
  \A s, o \in Sessions : s # o =>
    /\ \A a \in DOMAIN seen[s] : a \notin DOMAIN seen[o]
    /\ pc[s] \in InTransaction /\ pc[o] \in InTransaction =>
         ~(request[s].user = request[o].user /\ request[s].key = request[o].key)
    /\ pc[s] = "post" /\ pc[o] = "post" /\ UsesChallenge(request[s]) # None =>
         UsesChallenge(request[s]) # UsesChallenge(request[o])

\* Past the second lookup, nobody has posted under the session's key.
KeyUnused ==
  \A s \in Sessions : pc[s] \in {"lock", "check", "sca", "post"} =>
    Existing(request[s].user, request[s].key) = {}

\* Past the checks, they still hold, and what needs a challenge goes by "sca".
ChecksHold ==
  \A s \in Sessions :
    /\ pc[s] \in {"sca", "post"} => Permitted(s)
    /\ pc[s] = "sca" => ~OperatorOverride(request[s]) /\ Required(request[s].amount)

\* A session about to post holds an unspent challenge made for its command.
ChallengeHeld ==
  \A s \in Sessions :
    LET c == request[s]
    IN  pc[s] = "post" /\ ~OperatorOverride(c) /\ Required(c.amount) =>
          /\ c.challenge # None
          /\ challenges[c.challenge].status = "PENDING"
          /\ Bound(challenges[c.challenge], c)

\* Deposits and reversals come from administrators, and leave the right account.
RequestsFromRoutes ==
  \A s \in Sessions : pc[s] \in InTransaction \cup {"find", "key"} =>
    LET c == request[s]
    IN  /\ c.type = "REVERSAL" =>
             /\ c.user \in Admins
             /\ c.challenge = None
             /\ c.reverses \in DOMAIN transactions
        /\ c.type = "DEMO_DEPOSIT" =>
             /\ c.user \in Admins
             /\ Owner[c.source] = None
             /\ c.challenge = None
             /\ c.reverses = 0
        /\ c.type = "TRANSFER" => c.reverses = 0

\* An account being opened does not exist yet, is empty, and will have a
\* verified owner; no two sessions open the same one.
OpeningsValid ==
  /\ \A a \in Accounts : status[a] = "ABSENT" => balance[a] = 0
  /\ \A s \in Sessions : pc[s] = "open" =>
       /\ status[request[s].account] = "ABSENT"
       /\ Owner[request[s].account] = request[s].user
       /\ kyc[request[s].user] = "KYC_VERIFIED"
       /\ \A o \in Sessions : pc[o] = "open" /\ o # s =>
            request[o].account # request[s].account

\* A challenge is asked for by the owner of its source account.
ChallengesOwned ==
  /\ \A s \in Sessions : pc[s] = "issue" => Owner[request[s].source] = request[s].user
  /\ \A h \in Challenges : challenges[h] # NoChallenge =>
       Owner[challenges[h].source] = challenges[h].user

\* Posted rows satisfy the CHECKs of their table.
RowsNormal ==
  \A t \in DOMAIN transactions :
    transactions[t].amount > 0 /\ transactions[t].source # transactions[t].destination

\* Inductive: it holds at first, every step of Next keeps it, and it implies
\* the invariants below it is proved for.
IInv ==
  /\ TypeOK
  /\ LockedRowsFresh
  /\ LocksFollowLabels
  /\ LocksExclusive
  /\ KeyUnused
  /\ ChecksHold
  /\ ChallengeHeld
  /\ RequestsFromRoutes
  /\ OpeningsValid
  /\ ChallengesOwned
  /\ NoOverdraft
  /\ OnePostingPerKey
  /\ RowsNormal

\* A reversal names an earlier row.
ReversesEarlier ==
  \A t \in DOMAIN transactions :
    transactions[t].reverses # 0 => transactions[t].reverses \in 1..(t - 1)

\* The challenge a row names is spent, on no other row, and was made for it;
\* high transfers name one; and every spent challenge is named by a row.
ChallengesNamed ==
  /\ \A t \in DOMAIN transactions :
       LET x == transactions[t]
       IN  /\ x.type = "TRANSFER" /\ Required(x.amount) => x.challenge # None
           /\ x.challenge # None =>
                /\ challenges[x.challenge].status = "CONSUMED"
                /\ Bound(challenges[x.challenge], x)
                /\ \A o \in DOMAIN transactions : transactions[o].challenge = x.challenge => o = t
  /\ \A h \in Challenges : challenges[h].status = "CONSUMED" =>
       \E t \in DOMAIN transactions : transactions[t].challenge = h

\* What the tables say about the past, inductive on top of IInv.
HistoryInv ==
  /\ ReversesEarlier
  /\ ReversedOnce
  /\ ChallengesNamed
  /\ AnswersOwnRequest
  /\ AccountsOfVerified

LedgerInv == IInv /\ HistoryInv

-----------------------------------------------------------------------------
\* The ledger implements the bank.
Authority(h) ==
  IF challenges[h] = NoChallenge THEN None
  ELSE [user        |-> challenges[h].user,
        source      |-> challenges[h].source,
        destination |-> challenges[h].destination,
        amount      |-> challenges[h].amount,
        spent       |-> challenges[h].status = "CONSUMED"]

Abstract == INSTANCE Bank WITH authority <- [h \in Challenges |-> Authority(h)]

\* Sessions, locks, cached rows and retries are invisible from outside: what
\* the tables go through is a behaviour of the atomic bank.
ImplementsBank == Abstract!Spec
=============================================================================
