-------------------------------- MODULE Bank --------------------------------
(***************************************************************************)
(* What the ledger promises, without sessions, locks or cached rows: every *)
(* posting happens at one instant, and at that instant everything it       *)
(* needs is true.  ledger.py states the promise in its header: the checks, *)
(* the SCA consumption, the postings and the balances "either commit       *)
(* together or do not commit at all".                                      *)
(*                                                                         *)
(* An SCA challenge is only an authority here: issued for one user, pair   *)
(* of accounts and amount, and spent at most once.                         *)
(***************************************************************************)
EXTENDS Integers, Sequences

CONSTANTS Customers, Admins, Accounts, Owner, Challenges, Threshold, None

VARIABLES
  status,        \* "ABSENT", "ACTIVE" or "FROZEN", for every account
  balance,       \* what every account holds
  kyc,           \* the KYC status of every customer
  transactions,  \* everything posted, oldest first
  authority      \* for every challenge: None, or whom and what it authorises

vars == <<status, balance, kyc, transactions, authority>>

Init ==
  /\ status \in [Accounts -> {"ABSENT", "ACTIVE"}]
  /\ balance = [a \in Accounts |-> 0]
  /\ kyc \in [Customers -> {"PENDING_KYC", "KYC_VERIFIED"}]
  /\ transactions = <<>>
  /\ authority = [h \in Challenges |-> None]

-----------------------------------------------------------------------------
\* x may be appended as a new row: its key is new and its accounts are usable.
Postable(x) ==
  /\ \A t \in DOMAIN transactions :
       ~(transactions[t].user = x.user /\ transactions[t].key = x.key)
  /\ x.source # x.destination
  /\ x.amount > 0
  /\ status[x.source] = "ACTIVE"
  /\ status[x.destination] = "ACTIVE"
  /\ Owner[x.source] = None \/ balance[x.source] >= x.amount

MoveMoney(x) ==
  balance' = [balance EXCEPT ![x.source]      = @ - x.amount,
                             ![x.destination] = @ + x.amount]

\* The row being posted, when one is.
Posting == Len(transactions') = Len(transactions) + 1
Posted  == transactions'[Len(transactions) + 1]

\* A customer pays from an account of their own; a high amount spends the
\* authority issued for exactly this payment.
Pay ==
  LET x == Posted
  IN  /\ Posting
      /\ transactions' = Append(transactions, x)
      /\ x.type = "TRANSFER"
      /\ x.status = "POSTED"
      /\ x.reverses = 0
      /\ Postable(x)
      /\ Owner[x.source] = x.user
      /\ kyc[x.user] = "KYC_VERIFIED"
      /\ IF x.amount >= Threshold
         THEN /\ authority[x.challenge] =
                   [user |-> x.user, source |-> x.source, destination |-> x.destination,
                    amount |-> x.amount, spent |-> FALSE]
              /\ authority' = [authority EXCEPT ![x.challenge].spent = TRUE]
         ELSE x.challenge = None /\ UNCHANGED authority
      /\ MoveMoney(x)
      /\ UNCHANGED <<status, kyc>>

\* An administrator pays in from an account of the bank.
Deposit ==
  LET x == Posted
  IN  /\ Posting
      /\ transactions' = Append(transactions, x)
      /\ x.type = "DEMO_DEPOSIT"
      /\ x.status = "POSTED"
      /\ x.reverses = 0
      /\ x.user \in Admins
      /\ Postable(x)
      /\ Owner[x.source] = None
      /\ MoveMoney(x)
      /\ UNCHANGED <<status, kyc, authority>>

\* An administrator undoes one posting, once: the money goes back.
Reverse ==
  LET x == Posted
      original == transactions[x.reverses]
  IN  /\ Posting
      /\ x.type = "REVERSAL"
      /\ x.user \in Admins
      /\ x.reverses \in DOMAIN transactions
      /\ original.status = "POSTED"
      /\ original.type # "REVERSAL"
      /\ x.source = original.destination
      /\ x.destination = original.source
      /\ x.amount = original.amount
      /\ x.status = "POSTED"
      /\ transactions' =
           Append([transactions EXCEPT ![x.reverses].status = "REVERSED"], x)
      /\ Postable(x)
      /\ MoveMoney(x)
      /\ UNCHANGED <<status, kyc, authority>>

\* A challenge is issued to the owner of the source account.
Authorise ==
  \E h \in Challenges :
    /\ authority[h] = None
    /\ authority'[h] # None
    /\ authority'[h].spent = FALSE
    /\ Owner[authority'[h].source] = authority'[h].user
    /\ authority' = [authority EXCEPT ![h] = authority'[h]]
    /\ UNCHANGED <<status, balance, kyc, transactions>>

\* A new account is its customer's, is empty, and its customer is verified.
Open ==
  \E a \in Accounts :
    /\ status[a] = "ABSENT"
    /\ Owner[a] # None
    /\ kyc[Owner[a]] = "KYC_VERIFIED"
    /\ balance[a] = 0
    /\ status' = [status EXCEPT ![a] = "ACTIVE"]
    /\ UNCHANGED <<balance, kyc, transactions, authority>>

\* Operators freeze and unfreeze customers' accounts.
Freeze ==
  \E a \in Accounts, new \in {"ACTIVE", "FROZEN"} :
    /\ Owner[a] # None
    /\ status[a] # "ABSENT"
    /\ status' = [status EXCEPT ![a] = new]
    /\ UNCHANGED <<balance, kyc, transactions, authority>>

\* Once verified, a customer stays verified.
Review ==
  \E c \in Customers, new \in {"PENDING_REVIEW", "KYC_VERIFIED", "KYC_REJECTED"} :
    /\ kyc[c] # "KYC_VERIFIED"
    /\ kyc' = [kyc EXCEPT ![c] = new]
    /\ UNCHANGED <<status, balance, transactions, authority>>

Next == Pay \/ Deposit \/ Reverse \/ Authorise \/ Open \/ Freeze \/ Review

Spec == Init /\ [][Next]_vars
=============================================================================
