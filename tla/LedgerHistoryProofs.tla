------------------------- MODULE LedgerHistoryProofs -------------------------
(***************************************************************************)
(* Theorems about what Ledger's tables say about the past - reversals,     *)
(* spent challenges, answers, verified owners - and that Ledger implements *)
(* Bank, for every instance. IInv of LedgerProofs carries most of them.    *)
(***************************************************************************)
EXTENDS LedgerProofs, Totals

-----------------------------------------------------------------------------
(* Who changes the tables *)

\* A commit that every check of create_transfer has let through.
CheckedCommit(s) ==
  /\ pc[s] = "post"
  /\ SufficientFunds(s)
  /\ ReversalAllowed(request[s])
  /\ DatabaseAccepts(request[s])
  /\ Commit(s)

\* Rows of transactions and entries are written by a commit only.
LEMMA RowsOnlyByCommit ==
  ASSUME [Next]_vars
  PROVE  \/ \E s \in Sessions : CheckedCommit(s)
         \/ UNCHANGED <<transactions, entries>>
  <1> USE DEF bankVars
  <1>1. ASSUME NEW s \in Sessions, Client(s) PROVE UNCHANGED <<transactions, entries>>
    BY <1>1 DEF Client, Submit, SubmitReversal, RequestChallenge, RequestAccount, Begin
  <1>2. ASSUME NEW s \in Sessions, Transfer(s)
        PROVE  CheckedCommit(s) \/ UNCHANGED <<transactions, entries>>
    BY <1>2 DEF Transfer, Find, AcquireKey, Recheck, LockAccount, AccountMissing, Check,
                ConsumeChallenge, Post, Fail, CheckedCommit
  <1>3. ASSUME NEW s \in Sessions, Abort(s) PROVE UNCHANGED <<transactions, entries>>
    BY <1>3 DEF Abort, Fail
  <1>4. ASSUME NEW s \in Sessions, NEW h \in Challenges, IssueChallenge(s, h)
        PROVE  UNCHANGED <<transactions, entries>>
    BY <1>4 DEF IssueChallenge
  <1>5. ASSUME NEW s \in Sessions, OpenAccount(s) PROVE UNCHANGED <<transactions, entries>>
    BY <1>5 DEF OpenAccount
  <1>6. ASSUME NEW h \in Challenges, Expire(h) PROVE UNCHANGED <<transactions, entries>>
    BY <1>6 DEF Expire
  <1>7. CASE Operators
    BY <1>7 DEF Operators, SubmitKyc, DecideKyc, SetAccountStatus
  <1>8. CASE UNCHANGED vars
    BY <1>8 DEF vars
  <1>9. QED
    BY <1>1, <1>2, <1>3, <1>4, <1>5, <1>6, <1>7, <1>8 DEF Next

\* Without a commit a challenge stays as it is, is inserted, or expires.
LEMMA ChallengesOnlyGrow ==
  ASSUME IInv, [Next]_vars, UNCHANGED transactions, NEW h \in Challenges
  PROVE  \/ challenges'[h] = challenges[h]
         \/ challenges[h] = NoChallenge /\ challenges'[h].status = "PENDING"
         \/ /\ challenges[h] \in ChallengeRow
            /\ challenges[h].status = "PENDING"
            /\ challenges'[h] = [challenges[h] EXCEPT !.expired = TRUE]
  <1> USE DEF bankVars
  <1> DEFINE P == \/ challenges'[h] = challenges[h]
                  \/ challenges[h] = NoChallenge /\ challenges'[h].status = "PENDING"
                  \/ /\ challenges[h] \in ChallengeRow
                     /\ challenges[h].status = "PENDING"
                     /\ challenges'[h] = [challenges[h] EXCEPT !.expired = TRUE]
  <1>0. challenges \in [Challenges -> ChallengeRow \cup {NoChallenge}]
    BY DEF IInv, TypeOK, TablesTyped
  <1>1. ASSUME NEW s \in Sessions, Client(s) PROVE P
    BY <1>1 DEF Client, Submit, SubmitReversal, RequestChallenge, RequestAccount, Begin
  <1>2. ASSUME NEW s \in Sessions, Transfer(s) PROVE P
    <2>1. CASE Commit(s) /\ pc[s] = "post"
      <3>1. Len(transactions) \in Nat /\ DOMAIN transactions = 1..Len(transactions)
            /\ DOMAIN transactions' = 1..(Len(transactions) + 1)
        BY <2>1, TransactionsAfterCommit
      <3>2. QED  BY <3>1
    <2>2. CASE UNCHANGED challenges
      BY <2>2
    <2>3. QED
      BY <1>2, <2>1, <2>2 DEF Transfer, Find, AcquireKey, Recheck, LockAccount, AccountMissing,
         Check, ConsumeChallenge, Post, Fail
  <1>3. ASSUME NEW s \in Sessions, Abort(s) PROVE P
    BY <1>3 DEF Abort, Fail
  <1>4. ASSUME NEW s \in Sessions, NEW x \in Challenges, IssueChallenge(s, x) PROVE P
    BY <1>0, <1>4 DEF IssueChallenge
  <1>5. ASSUME NEW s \in Sessions, OpenAccount(s) PROVE P
    BY <1>5 DEF OpenAccount
  <1>6. ASSUME NEW x \in Challenges, Expire(x) PROVE P
    BY <1>0, <1>6 DEF Expire, NoChallenge
  <1>7. CASE Operators
    BY <1>7 DEF Operators, SubmitKyc, DecideKyc, SetAccountStatus
  <1>8. CASE UNCHANGED vars
    BY <1>8 DEF vars
  <1>9. QED
    BY <1>1, <1>2, <1>3, <1>4, <1>5, <1>6, <1>7, <1>8 DEF Next

-----------------------------------------------------------------------------
(* The table after a commit, column by column *)

\* The row a commit inserts is the request's, and earlier rows stay.
LEMMA ColumnsAfterCommit ==
  ASSUME IInv, NEW s \in Sessions, CheckedCommit(s)
  PROVE  LET c == request[s]
             n == Len(transactions)
         IN  /\ n \in Nat
             /\ c \in Command
             /\ DOMAIN transactions = 1..n
             /\ DOMAIN transactions' = 1..(n + 1)
             /\ transactions'[n + 1] = PostedRow(c)
             /\ \A i \in 1..n :
                  /\ transactions[i] \in Transaction
                  /\ transactions'[i].type = transactions[i].type
                  /\ transactions'[i].user = transactions[i].user
                  /\ transactions'[i].key = transactions[i].key
                  /\ transactions'[i].source = transactions[i].source
                  /\ transactions'[i].destination = transactions[i].destination
                  /\ transactions'[i].amount = transactions[i].amount
                  /\ transactions'[i].reverses = transactions[i].reverses
                  /\ transactions'[i].challenge = transactions[i].challenge
                  /\ transactions'[i].status = IF i = c.reverses THEN "REVERSED"
                                               ELSE transactions[i].status
                  /\ i # c.reverses => transactions'[i] = transactions[i]
                  /\ transactions'[i] = IF i = c.reverses
                                        THEN [transactions[i] EXCEPT !.status = "REVERSED"]
                                        ELSE transactions[i]
  <1> DEFINE c == request[s]
             n == Len(transactions)
  <1>1. pc[s] = "post" /\ Commit(s)
    BY DEF CheckedCommit
  <1>2. c \in Command
    BY <1>1, ServedCommand DEF InTransaction
  <1>3. /\ n \in Nat
        /\ DOMAIN transactions = 1..n
        /\ DOMAIN transactions' = 1..(n + 1)
        /\ transactions'[n + 1] = PostedRow(c)
        /\ \A i \in 1..n :
             transactions'[i] = IF i = c.reverses
                                THEN [transactions[i] EXCEPT !.status = "REVERSED"]
                                ELSE transactions[i]
    BY <1>1, TransactionsAfterCommit
  <1>4. \A i \in 1..n : transactions[i] \in Transaction
    BY <1>3 DEF IInv, TypeOK, TablesTyped
  <1>5. QED  BY <1>2, <1>3, <1>4 DEF Transaction

-----------------------------------------------------------------------------
(* Reversals *)

\* A reversal that commits found its original and found it not reversed.
LEMMA ReversalsKeep ==
  ASSUME IInv, HistoryInv, [Next]_vars
  PROVE  ReversesEarlier' /\ ReversedOnce'
  <1>1. ASSUME NEW s \in Sessions, CheckedCommit(s)
        PROVE  ReversesEarlier' /\ ReversedOnce'
    <2> DEFINE c == request[s]
               n == Len(transactions)
               undoing(t) == {r \in DOMAIN transactions : transactions[r].reverses = t}
    <2>1. /\ n \in Nat
          /\ c \in Command
          /\ DOMAIN transactions = 1..n
          /\ DOMAIN transactions' = 1..(n + 1)
          /\ transactions'[n + 1] = PostedRow(c)
          /\ \A i \in 1..n :
               /\ transactions'[i].type = transactions[i].type
               /\ transactions'[i].source = transactions[i].source
               /\ transactions'[i].destination = transactions[i].destination
               /\ transactions'[i].amount = transactions[i].amount
               /\ transactions'[i].reverses = transactions[i].reverses
               /\ transactions'[i].status = IF i = c.reverses THEN "REVERSED"
                                            ELSE transactions[i].status
      BY <1>1, ColumnsAfterCommit
    <2>2. /\ transactions'[n + 1].reverses = c.reverses
          /\ transactions'[n + 1].status = "POSTED"
          /\ transactions'[n + 1].source = c.source
          /\ transactions'[n + 1].destination = c.destination
          /\ transactions'[n + 1].amount = c.amount
      BY <2>1 DEF PostedRow
    <2>3. c.reverses # 0 =>
            /\ c.reverses \in 1..n
            /\ transactions[c.reverses].status = "POSTED"
            /\ transactions[c.reverses].type # "REVERSAL"
            /\ c.source = transactions[c.reverses].destination
            /\ c.destination = transactions[c.reverses].source
            /\ c.amount = transactions[c.reverses].amount
            /\ undoing(c.reverses) = {}
      BY <1>1, <2>1 DEF CheckedCommit, ReversalAllowed, HistoryInv, ReversedOnce
    <2>4. ReversesEarlier'
      BY <2>1, <2>2, <2>3 DEF ReversesEarlier, HistoryInv
    <2>5. ReversedOnce'
      <3> DEFINE after(t) == {r \in DOMAIN transactions' : transactions'[r].reverses = t}
      <3> SUFFICES ASSUME NEW t \in 1..(n + 1)
                   PROVE  /\ transactions'[t].status = "REVERSED" <=> after(t) # {}
                          /\ \A r, q \in after(t) : r = q
                          /\ \A r \in after(t) :
                               /\ r > t
                               /\ transactions'[t].type # "REVERSAL"
                               /\ transactions'[r].source = transactions'[t].destination
                               /\ transactions'[r].destination = transactions'[t].source
                               /\ transactions'[r].amount = transactions'[t].amount
        BY <2>1 DEF ReversedOnce
      <3>1. CASE t = n + 1
        <4>1. after(t) = {}
          BY <2>1, <2>4, <3>1 DEF ReversesEarlier
        <4>2. QED  BY <2>2, <3>1, <4>1
      <3>2. CASE t # n + 1 /\ t = c.reverses
        <4>1. after(t) = {n + 1} /\ t \in 1..n
          BY <2>1, <2>2, <2>3, <3>2
        <4>2. QED  BY <2>1, <2>2, <2>3, <3>2, <4>1
      <3>3. CASE t # n + 1 /\ t # c.reverses
        <4>1. after(t) = undoing(t) /\ t \in 1..n
          BY <2>1, <2>2, <3>3
        <4>2. /\ transactions[t].status = "REVERSED" <=> undoing(t) # {}
              /\ \A r, q \in undoing(t) : r = q
              /\ \A r \in undoing(t) :
                   /\ r \in 1..n
                   /\ r > t
                   /\ transactions[t].type # "REVERSAL"
                   /\ transactions[r].source = transactions[t].destination
                   /\ transactions[r].destination = transactions[t].source
                   /\ transactions[r].amount = transactions[t].amount
          BY <2>1, <4>1 DEF HistoryInv, ReversedOnce
        <4>3. QED  BY <2>1, <3>3, <4>1, <4>2
      <3>4. QED  BY <3>1, <3>2, <3>3
    <2>6. QED  BY <2>4, <2>5
  <1>2. CASE UNCHANGED <<transactions, entries>>
    BY <1>2 DEF HistoryInv, ReversesEarlier, ReversedOnce
  <1>3. QED  BY <1>1, <1>2, RowsOnlyByCommit

-----------------------------------------------------------------------------
(* Challenges *)

\* A challenge is named by the one transaction that consumed it.
LEMMA ChallengesKeep ==
  ASSUME IInv, HistoryInv, [Next]_vars
  PROVE  ChallengesNamed'
  <1>1. ASSUME NEW s \in Sessions, CheckedCommit(s)
        PROVE  ChallengesNamed'
    <2> DEFINE c == request[s]
               n == Len(transactions)
               h == UsesChallenge(c)
    <2>1. /\ n \in Nat
          /\ c \in Command
          /\ DOMAIN transactions = 1..n
          /\ DOMAIN transactions' = 1..(n + 1)
          /\ transactions'[n + 1] = PostedRow(c)
          /\ \A i \in 1..n :
               /\ transactions[i] \in Transaction
               /\ transactions'[i].type = transactions[i].type
               /\ transactions'[i].user = transactions[i].user
               /\ transactions'[i].source = transactions[i].source
               /\ transactions'[i].destination = transactions[i].destination
               /\ transactions'[i].amount = transactions[i].amount
               /\ transactions'[i].challenge = transactions[i].challenge
      BY <1>1, ColumnsAfterCommit
    <2>2. /\ transactions'[n + 1].type = c.type
          /\ transactions'[n + 1].user = c.user
          /\ transactions'[n + 1].source = c.source
          /\ transactions'[n + 1].destination = c.destination
          /\ transactions'[n + 1].amount = c.amount
          /\ transactions'[n + 1].challenge = h
      BY <2>1 DEF PostedRow
    <2>3. h \in Challenges \cup {None} /\ None \notin Challenges
      BY <2>1, ConstantsAssumption DEF UsesChallenge, Command
    <2>4. h # None =>
            /\ c.challenge = h
            /\ challenges[h] \in ChallengeRow
            /\ challenges[h].status = "PENDING"
            /\ Bound(challenges[h], c)
      <3>1. h # None => /\ c.challenge = h
                        /\ challenges[h].status = "PENDING"
                        /\ Bound(challenges[h], c)
        BY <1>1 DEF IInv, ChallengeHeld, UsesChallenge, CheckedCommit
      <3>2. QED  BY <2>3, <3>1 DEF IInv, TypeOK, TablesTyped, NoChallenge
    <2>5. c.type = "TRANSFER" /\ Required(c.amount) => h # None
      BY <1>1 DEF IInv, ChallengeHeld, UsesChallenge, OperatorOverride, CheckedCommit
    <2>6. \A x \in Challenges :
            challenges'[x] = IF x = h THEN [challenges[x] EXCEPT !.status = "CONSUMED"]
                             ELSE challenges[x]
      BY <1>1 DEF CheckedCommit, Commit
    <2>7. h # None => /\ challenges'[h].status = "CONSUMED"
                      /\ Bound(challenges'[h], c)
      BY <2>3, <2>4, <2>6 DEF Bound, ChallengeRow
    <2>8. \A i \in 1..n : transactions[i].challenge # None =>
            /\ transactions[i].challenge \in Challenges
            /\ transactions[i].challenge # h
      BY <2>1, <2>3, <2>4 DEF HistoryInv, ChallengesNamed, Transaction
    <2>9. ASSUME NEW t \in 1..(n + 1)
          PROVE  LET x == transactions'[t]
                 IN  /\ x.type = "TRANSFER" /\ Required(x.amount) => x.challenge # None
                     /\ x.challenge # None =>
                          /\ challenges'[x.challenge].status = "CONSUMED"
                          /\ Bound(challenges'[x.challenge], x)
                          /\ \A o \in 1..(n + 1) :
                               transactions'[o].challenge = x.challenge => o = t
      <3>1. CASE t = n + 1
        BY <2>1, <2>2, <2>5, <2>7, <2>8, <3>1 DEF Bound
      <3>2. CASE t \in 1..n
        <4>1. /\ transactions[t].type = "TRANSFER" /\ Required(transactions[t].amount) =>
                   transactions[t].challenge # None
              /\ transactions[t].challenge # None =>
                   /\ challenges[transactions[t].challenge].status = "CONSUMED"
                   /\ Bound(challenges[transactions[t].challenge], transactions[t])
                   /\ \A o \in 1..n :
                        transactions[o].challenge = transactions[t].challenge => o = t
          BY <2>1, <3>2 DEF HistoryInv, ChallengesNamed
        <4>2. transactions[t].challenge # None =>
                challenges'[transactions[t].challenge] = challenges[transactions[t].challenge]
          BY <2>6, <2>8, <3>2
        <4>3. QED  BY <2>1, <2>2, <2>8, <3>2, <4>1, <4>2 DEF Bound
      <3>3. QED  BY <2>1, <3>1, <3>2
    <2>10. ASSUME NEW x \in Challenges, challenges'[x].status = "CONSUMED"
           PROVE  \E t \in 1..(n + 1) : transactions'[t].challenge = x
      <3>1. CASE x = h
        BY <2>1, <2>2, <3>1
      <3>2. CASE x # h
        <4>1. PICK t \in 1..n : transactions[t].challenge = x
          BY <2>1, <2>6, <2>10, <3>2 DEF HistoryInv, ChallengesNamed
        <4>2. QED  BY <2>1, <4>1
      <3>3. QED  BY <3>1, <3>2
    <2>11. QED  BY <2>1, <2>9, <2>10 DEF ChallengesNamed, Required
  <1>2. CASE UNCHANGED <<transactions, entries>>
    <2>1. ASSUME NEW x \in Challenges
          PROVE  /\ challenges'[x].status = "CONSUMED" => challenges[x].status = "CONSUMED"
                 /\ challenges[x].status = "CONSUMED" => challenges'[x] = challenges[x]
      <3>1. CASE challenges'[x] = challenges[x]
        BY <3>1
      <3>2. CASE challenges[x] = NoChallenge /\ challenges'[x].status = "PENDING"
        BY <3>2 DEF NoChallenge
      <3>3. CASE /\ challenges[x] \in ChallengeRow
                 /\ challenges[x].status = "PENDING"
                 /\ challenges'[x] = [challenges[x] EXCEPT !.expired = TRUE]
        BY <3>3 DEF ChallengeRow
      <3>4. QED  BY <1>2, <3>1, <3>2, <3>3, ChallengesOnlyGrow
    <2>2. \A t \in DOMAIN transactions : transactions[t] \in Transaction
      BY DEF IInv, TypeOK, TablesTyped
    <2>3. \A t \in DOMAIN transactions :
            transactions[t].challenge # None => transactions[t].challenge \in Challenges
      BY <2>2 DEF Transaction
    <2>4. QED  BY <1>2, <2>1, <2>3 DEF HistoryInv, ChallengesNamed, Bound, Required
  <1>3. QED  BY <1>1, <1>2, RowsOnlyByCommit

-----------------------------------------------------------------------------
(* Answers *)

\* A session keeps its answer until it begins anew; nobody else changes it.
LEMMA AnswersKeep ==
  ASSUME IInv, HistoryInv, [Next]_vars
  PROVE  AnswersOwnRequest'
  <1> USE DEF bankVars
  <1> DEFINE Answered(s) ==
               reply[s] # None =>
                 /\ reply[s] \in DOMAIN transactions
                 /\ transactions[reply[s]].user = request[s].user
                 /\ transactions[reply[s]].key = request[s].key
  <1>0. \A s \in Sessions : Answered(s)
    BY DEF HistoryInv, AnswersOwnRequest
  <1>1. DOMAIN request = Sessions /\ DOMAIN reply = Sessions
    BY DEF IInv, TypeOK, SessionsTyped
  <1>2. ASSUME UNCHANGED transactions, NEW s \in Sessions,
               \A o \in Sessions : o # s => request'[o] = request[o] /\ reply'[o] = reply[o],
               reply'[s] # None =>
                 /\ request'[s] = request[s]
                 /\ reply'[s] = reply[s] \/ reply'[s] \in Existing(request[s].user, request[s].key)
        PROVE  AnswersOwnRequest'
    BY <1>0, <1>2 DEF AnswersOwnRequest, Existing
  <1>3. ASSUME NEW s \in Sessions, Client(s) PROVE AnswersOwnRequest'
    BY <1>1, <1>2, <1>3 DEF Client, Submit, SubmitReversal, RequestChallenge, RequestAccount, Begin
  <1>4. ASSUME NEW s \in Sessions, NEW t, Finish(s, t),
               t = None \/ t \in Existing(request[s].user, request[s].key),
               UNCHANGED transactions
        PROVE  AnswersOwnRequest'
    BY <1>1, <1>2, <1>4 DEF Finish
  <1>5. ASSUME NEW s \in Sessions, NEW label, Goto(s, label), UNCHANGED transactions
        PROVE  AnswersOwnRequest'
    BY <1>0, <1>5 DEF Goto, AnswersOwnRequest
  <1>6. ASSUME NEW s \in Sessions, CheckedCommit(s) PROVE AnswersOwnRequest'
    <2> DEFINE n == Len(transactions)
    <2>1. /\ n \in Nat
          /\ DOMAIN transactions = 1..n
          /\ DOMAIN transactions' = 1..(n + 1)
          /\ transactions'[n + 1] = PostedRow(request[s])
          /\ \A i \in 1..n : /\ transactions'[i].user = transactions[i].user
                             /\ transactions'[i].key = transactions[i].key
      BY <1>6, ColumnsAfterCommit
    <2>2. Finish(s, n + 1)
      BY <1>6 DEF CheckedCommit, Commit
    <2>3. ASSUME NEW o \in Sessions, o # s PROVE Answered(o)'
      BY <1>0, <2>1, <2>2, <2>3 DEF Finish
    <2>4. reply'[s] # None => request'[s] = request[s] /\ reply'[s] = n + 1
      BY <1>1, <2>2 DEF Finish
    <2>5. Answered(s)'
      BY <2>1, <2>4 DEF PostedRow
    <2>6. QED  BY <2>3, <2>5 DEF AnswersOwnRequest
  <1>7. ASSUME NEW s \in Sessions, Transfer(s) PROVE AnswersOwnRequest'
    <2>1. CASE Find(s) \/ Recheck(s)
      BY <1>4, <1>5, <2>1 DEF Find, Recheck
    <2>2. CASE AcquireKey(s) \/ LockAccount(s)
      BY <1>5, <2>2 DEF AcquireKey, LockAccount
    <2>3. CASE AccountMissing(s) \/ Check(s) \/ ConsumeChallenge(s)
      BY <1>4, <1>5, <2>3 DEF AccountMissing, Check, ConsumeChallenge, Fail
    <2>4. CASE Post(s)
      BY <1>4, <1>6, <2>4 DEF Post, Fail, CheckedCommit
    <2>5. QED  BY <1>7, <2>1, <2>2, <2>3, <2>4 DEF Transfer
  <1>8. ASSUME NEW s \in Sessions, Abort(s) PROVE AnswersOwnRequest'
    BY <1>4, <1>8 DEF Abort, Fail
  <1>9. ASSUME NEW s \in Sessions, NEW h \in Challenges, IssueChallenge(s, h)
        PROVE  AnswersOwnRequest'
    BY <1>4, <1>9 DEF IssueChallenge
  <1>10. ASSUME NEW s \in Sessions, OpenAccount(s) PROVE AnswersOwnRequest'
    BY <1>4, <1>10 DEF OpenAccount
  <1>11. ASSUME UNCHANGED <<transactions, sessionVars>> PROVE AnswersOwnRequest'
    BY <1>0, <1>11 DEF sessionVars, AnswersOwnRequest
  <1>12. ASSUME NEW h \in Challenges, Expire(h) PROVE AnswersOwnRequest'
    BY <1>11, <1>12 DEF Expire
  <1>13. CASE Operators
    BY <1>11, <1>13 DEF Operators, SubmitKyc, DecideKyc, SetAccountStatus
  <1>14. CASE UNCHANGED vars
    BY <1>11, <1>14 DEF vars
  <1>15. QED
    BY <1>3, <1>7, <1>8, <1>9, <1>10, <1>12, <1>13, <1>14 DEF Next

-----------------------------------------------------------------------------
(* Owners *)

\* An account is opened for a verified owner, who stays verified.
LEMMA VerifiedOwnersKeep ==
  ASSUME IInv, HistoryInv, [Next]_vars
  PROVE  AccountsOfVerified'
  <1> USE DEF bankVars
  <1>0. /\ \A a \in Accounts : status[a] # "ABSENT" /\ Owner[a] # None => kyc[Owner[a]] = "KYC_VERIFIED"
        /\ \A a \in Accounts : Owner[a] \in Customers \cup {None}
        /\ status \in [Accounts -> AccountStatus]
        /\ kyc \in [Customers -> KycStatus]
    BY ConstantsAssumption DEF HistoryInv, AccountsOfVerified, IInv, TypeOK, TablesTyped
  <1>1. ASSUME UNCHANGED kyc,
               \A a \in Accounts : status'[a] # "ABSENT" =>
                 status[a] # "ABSENT" \/ Owner[a] = None \/ kyc[Owner[a]] = "KYC_VERIFIED"
        PROVE  AccountsOfVerified'
    BY <1>0, <1>1 DEF AccountsOfVerified
  <1>2. ASSUME NEW s \in Sessions, Client(s) PROVE AccountsOfVerified'
    BY <1>1, <1>2 DEF Client, Submit, SubmitReversal, RequestChallenge, RequestAccount, Begin
  <1>3. ASSUME NEW s \in Sessions, Transfer(s) PROVE AccountsOfVerified'
    BY <1>1, <1>3 DEF Transfer, Find, AcquireKey, Recheck, LockAccount, AccountMissing, Check,
                      ConsumeChallenge, Post, Fail, Commit
  <1>4. ASSUME NEW s \in Sessions, Abort(s) PROVE AccountsOfVerified'
    BY <1>1, <1>4 DEF Abort, Fail
  <1>5. ASSUME NEW s \in Sessions, NEW h \in Challenges, IssueChallenge(s, h)
        PROVE  AccountsOfVerified'
    BY <1>1, <1>5 DEF IssueChallenge
  <1>6. ASSUME NEW s \in Sessions, OpenAccount(s) PROVE AccountsOfVerified'
    <2>1. pc[s] = "open" /\ kyc[Owner[request[s].account]] = "KYC_VERIFIED"
      BY <1>6 DEF OpenAccount, IInv, OpeningsValid
    <2>2. QED  BY <1>0, <1>1, <1>6, <2>1 DEF OpenAccount
  <1>7. ASSUME NEW h \in Challenges, Expire(h) PROVE AccountsOfVerified'
    BY <1>1, <1>7 DEF Expire
  <1>8. ASSUME NEW c \in Customers,
               SubmitKyc(c) \/ \E d \in {"KYC_VERIFIED", "KYC_REJECTED"} : DecideKyc(c, d)
        PROVE  AccountsOfVerified'
    <2>1. \A x \in Customers : kyc[x] = "KYC_VERIFIED" => kyc'[x] = "KYC_VERIFIED"
      BY <1>0, <1>8 DEF SubmitKyc, DecideKyc
    <2>2. UNCHANGED status
      BY <1>8 DEF SubmitKyc, DecideKyc
    <2>3. QED  BY <1>0, <2>1, <2>2 DEF AccountsOfVerified
  <1>9. ASSUME NEW a \in Accounts, NEW new \in {"ACTIVE", "FROZEN"}, SetAccountStatus(a, new)
        PROVE  AccountsOfVerified'
    BY <1>0, <1>1, <1>9 DEF SetAccountStatus
  <1>10. CASE UNCHANGED vars
    BY <1>1, <1>10 DEF vars
  <1>11. QED
    BY <1>2, <1>3, <1>4, <1>5, <1>6, <1>7, <1>8, <1>9, <1>10 DEF Next, Operators

-----------------------------------------------------------------------------
(* The invariant *)

\* With no transaction there is no history.
LEMMA HistoryInit == Init => HistoryInv
  <1> SUFFICES ASSUME Init PROVE HistoryInv
    OBVIOUS
  <1>1. DOMAIN transactions = {}
    BY DEF Init
  <1>2. \A h \in Challenges : challenges[h].status # "CONSUMED"
    BY DEF Init, NoChallenge
  <1>3. ReversesEarlier /\ ReversedOnce /\ ChallengesNamed
    BY <1>1, <1>2 DEF ReversesEarlier, ReversedOnce, ChallengesNamed
  <1>4. AnswersOwnRequest
    BY DEF Init, AnswersOwnRequest
  <1>5. AccountsOfVerified
    BY ConstantsAssumption DEF Init, AccountsOfVerified
  <1>6. QED  BY <1>3, <1>4, <1>5 DEF HistoryInv

\* With the labels' promises, what the tables say about the past is kept by
\* every step: reversals, spent challenges, answers and verified owners.
THEOREM LedgerInductive == Spec => []LedgerInv
  <1>1. Init => LedgerInv
    BY InitKeeps, HistoryInit DEF LedgerInv
  <1>2. LedgerInv /\ [Next]_vars => LedgerInv'
    <2> SUFFICES ASSUME LedgerInv, [Next]_vars PROVE LedgerInv'
      OBVIOUS
    <2>1. IInv /\ HistoryInv
      BY DEF LedgerInv
    <2>2. IInv'
      BY <2>1, NextKeeps
    <2>3. HistoryInv'
      BY <2>1, ReversalsKeep, ChallengesKeep, AnswersKeep, VerifiedOwnersKeep DEF HistoryInv
    <2>4. QED  BY <2>2, <2>3 DEF LedgerInv
  <1>3. QED  BY <1>1, <1>2, PTL DEF Spec

-----------------------------------------------------------------------------
(* What follows from it *)

\* A posting is REVERSED exactly when one later row gives its money back, and
\* no reversal is undone: the original is re-read under its row lock.
THEOREM UndoneOnce == Spec => []ReversedOnce
  <1>1. LedgerInv => ReversedOnce
    BY DEF LedgerInv, HistoryInv
  <1>2. QED  BY <1>1, LedgerInductive, PTL

\* A request is answered with a posting of its own user and key, whether it
\* posted, was replayed or lost a race.
THEOREM AnswersAreOwn == Spec => []AnswersOwnRequest
  <1>1. LedgerInv => AnswersOwnRequest
    BY DEF LedgerInv, HistoryInv
  <1>2. QED  BY <1>1, LedgerInductive, PTL

\* Every account in use belongs to a verified customer: a decision is only
\* taken in PENDING_REVIEW, and a verified customer never goes back there.
THEOREM OwnersVerified == Spec => []AccountsOfVerified
  <1>1. LedgerInv => AccountsOfVerified
    BY DEF LedgerInv, HistoryInv
  <1>2. QED  BY <1>1, LedgerInductive, PTL

\* Every high customer transfer spent a challenge made for it, and every spent
\* challenge was spent by exactly one row: the consumption commits with the
\* posting or not at all.
THEOREM SpentOnce == Spec => []ChallengeSpentOnce
  <1>1. ASSUME LedgerInv PROVE ChallengeSpentOnce
    <2>1. \A t \in DOMAIN transactions :
            transactions[t].type = "TRANSFER" /\ Required(transactions[t].amount) =>
              /\ transactions[t].challenge # None
              /\ challenges[transactions[t].challenge].status = "CONSUMED"
              /\ Bound(challenges[transactions[t].challenge], transactions[t])
      BY <1>1 DEF LedgerInv, HistoryInv, ChallengesNamed
    <2>2. ASSUME NEW h \in Challenges, challenges[h].status = "CONSUMED"
          PROVE  Cardinality({t \in DOMAIN transactions : transactions[t].challenge = h}) = 1
      <3>1. PICK t \in DOMAIN transactions : transactions[t].challenge = h
        BY <1>1, <2>2 DEF LedgerInv, HistoryInv, ChallengesNamed
      <3>2. h # None
        BY ConstantsAssumption
      <3>3. {o \in DOMAIN transactions : transactions[o].challenge = h} = {t}
        BY <1>1, <3>1, <3>2 DEF LedgerInv, HistoryInv, ChallengesNamed
      <3>4. QED  BY <3>3, FS_Singleton
    <2>3. QED  BY <2>1, <2>2 DEF ChallengeSpentOnce
  <1>2. QED  BY <1>1, LedgerInductive, PTL

\* When create_transfer's own checks pass, no unique index and no trigger of
\* the database refuses the rows it writes.
LEMMA DatabaseAgrees ==
  ASSUME LedgerInv, NEW s \in Sessions, pc[s] = "post",
         SufficientFunds(s), ReversalAllowed(request[s])
  PROVE  DatabaseAccepts(request[s])
  <1> DEFINE c == request[s]
  <1>1. /\ c.source \in Accounts
        /\ c.destination \in Accounts
        /\ c.source # c.destination
        /\ c.amount \in Nat
    BY ServedCommand DEF LedgerInv, InTransaction
  <1>2. Existing(c.user, c.key) = {}
    BY DEF LedgerInv, IInv, KeyUnused
  <1>3. c.reverses # 0 => \A t \in DOMAIN transactions : transactions[t].reverses # c.reverses
    <2> SUFFICES ASSUME c.reverses # 0
                 PROVE  {r \in DOMAIN transactions : transactions[r].reverses = c.reverses} = {}
      OBVIOUS
    <2>1. c.reverses \in DOMAIN transactions /\ transactions[c.reverses].status = "POSTED"
      BY DEF ReversalAllowed
    <2>2. QED  BY <2>1 DEF LedgerInv, HistoryInv, ReversedOnce
  <1>4. \A a \in {c.source, c.destination} : AllowNegative(a) \/ Moved(c)[a] >= 0
    <2>1. balance \in [Accounts -> Int]
      BY DEF LedgerInv, IInv, TypeOK, TablesTyped
    <2>2. seen[s][c.source].balance = balance[c.source]
      <3>1. c.source \in DOMAIN seen[s]
        BY DEF LedgerInv, IInv, LocksFollowLabels
      <3>2. seen[s][c.source] = [status |-> status[c.source], balance |-> balance[c.source]]
        BY <3>1 DEF LedgerInv, IInv, LockedRowsFresh
      <3>3. QED  BY <3>2
    <2>3. /\ Moved(c)[c.source] = balance[c.source] - c.amount
          /\ Moved(c)[c.destination] = balance[c.destination] + c.amount
      BY <1>1, <2>1 DEF Moved
    <2>4. AllowNegative(c.source) \/ Moved(c)[c.source] >= 0
      BY <1>1, <2>1, <2>2, <2>3 DEF SufficientFunds
    <2>5. AllowNegative(c.destination) \/ Moved(c)[c.destination] >= 0
      <3>1. Owner[c.destination] # None => balance[c.destination] >= 0
        BY <1>1 DEF LedgerInv, IInv, NoOverdraft
      <3>2. QED  BY <1>1, <2>1, <2>3, <3>1 DEF AllowNegative
    <2>6. QED  BY <2>4, <2>5
  <1>5. QED  BY <1>2, <1>3, <1>4 DEF DatabaseAccepts

\* No client of create_transfer sees a constraint error.
THEOREM ConstraintsNeverBite == Spec => []DatabaseNeverRefuses
  <1>1. LedgerInv => DatabaseNeverRefuses
    BY DatabaseAgrees DEF DatabaseNeverRefuses
  <1>2. QED  BY <1>1, LedgerInductive, PTL

\* Posted history is durable: a commit appends one row and two entries, marks
\* at most the row it reverses, and spends a challenge that was unspent.
THEOREM HistoryStays == Spec => HistoryIsDurable
  <1> DEFINE RowKept(t) ==
               /\ t \in DOMAIN transactions'
               /\ \/ transactions'[t] = transactions[t]
                  \/ /\ transactions[t].status = "POSTED"
                     /\ transactions'[t] = [transactions[t] EXCEPT !.status = "REVERSED"]
                     /\ transactions'[Len(transactions')].reverses = t
             A == /\ \A t \in DOMAIN transactions : RowKept(t)
                  /\ Len(entries') >= Len(entries)
                  /\ \A i \in DOMAIN entries : entries'[i] = entries[i]
                  /\ \A h \in Challenges :
                       challenges[h].status = "CONSUMED" => challenges'[h] = challenges[h]
  <1>0. ASSUME LedgerInv PROVE entries \in Seq(Entry) /\ transactions \in Seq(Transaction)
    BY <1>0 DEF LedgerInv, IInv, TypeOK, TablesTyped
  <1>1. ASSUME LedgerInv, NEW s \in Sessions, CheckedCommit(s) PROVE A
    <2> DEFINE c == request[s]
               n == Len(transactions)
    <2>1. /\ n \in Nat
          /\ c \in Command
          /\ DOMAIN transactions = 1..n
          /\ DOMAIN transactions' = 1..(n + 1)
          /\ transactions'[n + 1] = PostedRow(c)
          /\ \A i \in 1..n : transactions'[i] = IF i = c.reverses
                                                THEN [transactions[i] EXCEPT !.status = "REVERSED"]
                                                ELSE transactions[i]
      BY <1>1, ColumnsAfterCommit DEF LedgerInv
    <2>2. Len(transactions') = n + 1
      <3>1. transactions' \in Seq(Transaction)
        BY <1>1, TransactionsAfterCommit DEF LedgerInv, CheckedCommit
      <3>2. Len(transactions') \in Nat /\ DOMAIN transactions' = 1..Len(transactions')
        BY <3>1
      <3>3. QED  BY <2>1, <3>2
    <2>3. transactions'[n + 1].reverses = c.reverses
      BY <2>1 DEF PostedRow
    <2>4. \A t \in DOMAIN transactions : RowKept(t)
      BY <1>1, <2>1, <2>2, <2>3 DEF CheckedCommit, ReversalAllowed
    <2>5. entries' = entries \o Postings(c, n + 1)
      BY <1>1 DEF CheckedCommit, Commit
    <2>6. Postings(c, n + 1) \in Seq(Entry)
      BY <2>1 DEF Postings, Entry, Command
    <2>7. Len(entries') >= Len(entries) /\ \A i \in DOMAIN entries : entries'[i] = entries[i]
      BY <1>0, <1>1, <2>5, <2>6
    <2>8. \A h \in Challenges :
            challenges'[h] = IF h = UsesChallenge(c)
                             THEN [challenges[h] EXCEPT !.status = "CONSUMED"]
                             ELSE challenges[h]
      BY <1>1 DEF CheckedCommit, Commit
    <2>9. UsesChallenge(c) \in Challenges => challenges[UsesChallenge(c)].status = "PENDING"
      BY <1>1, ConstantsAssumption
         DEF CheckedCommit, LedgerInv, IInv, ChallengeHeld, UsesChallenge
    <2>10. QED  BY <2>4, <2>7, <2>8, <2>9
  <1>2. ASSUME LedgerInv, [Next]_vars, UNCHANGED <<transactions, entries>> PROVE A
    <2>1. ASSUME NEW h \in Challenges, challenges[h].status = "CONSUMED"
          PROVE  challenges'[h] = challenges[h]
      <3>1. challenges[h] # NoChallenge
        BY <2>1 DEF NoChallenge
      <3>2. QED  BY <1>2, <2>1, <3>1, ChallengesOnlyGrow DEF LedgerInv
    <2>2. Len(entries) \in Nat
      BY <1>0, <1>2
    <2>3. QED  BY <1>2, <2>1, <2>2
  <1>3. ASSUME LedgerInv, [Next]_vars PROVE [A]_vars
    BY <1>1, <1>2, <1>3, RowsOnlyByCommit
  <1>4. QED
    BY <1>3, LedgerInductive, PTL DEF Spec, HistoryIsDurable

\* The step under Reconciles: balances and ledger entries change only together,
\* by one amount that leaves one account and reaches another, and an account
\* that is opened starts from nothing (ledger.py:339-396).
BooksMove ==
  \/ UNCHANGED <<balance, entries>>
  \/ \E a, b \in Accounts, m \in Nat \ {0} :
       /\ a # b
       /\ balance' = [balance EXCEPT ![a] = @ - m, ![b] = @ + m]
       /\ entries' = entries \o
            << [transaction |-> Len(transactions'), account |-> a, amount |-> 0 - m],
               [transaction |-> Len(transactions'), account |-> b, amount |-> m] >>

BooksMoveTogether == [][BooksMove]_vars

\* Only a commit that was let through moves money, and with its two entries.
LEMMA BooksStep ==
  ASSUME LedgerInv, [Next]_vars
  PROVE  BooksMove
  <1> USE DEF bankVars
  <1>1. ASSUME LedgerInv, NEW s \in Sessions, CheckedCommit(s) PROVE BooksMove
    <2> DEFINE c == request[s]
               n == Len(transactions)
    <2>1. pc[s] = "post" /\ Commit(s)
      BY <1>1 DEF CheckedCommit
    <2>2. /\ c.source \in Accounts /\ c.destination \in Accounts
          /\ c.source # c.destination /\ c.amount \in Nat \ {0}
      BY <1>1, <2>1, ServedCommand DEF LedgerInv, InTransaction
    <2>3. Len(transactions') = n + 1
      <3>1. /\ transactions' \in Seq(Transaction)
            /\ n \in Nat
            /\ DOMAIN transactions' = 1..(n + 1)
        BY <1>1, <2>1, TransactionsAfterCommit DEF LedgerInv
      <3>2. Len(transactions') \in Nat /\ DOMAIN transactions' = 1..Len(transactions')
        BY <3>1
      <3>3. QED  BY <3>1, <3>2
    <2>4. balance' = [balance EXCEPT ![c.source] = @ - c.amount, ![c.destination] = @ + c.amount]
      BY <2>1 DEF Commit, Moved
    <2>5. entries' = entries \o
            << [transaction |-> Len(transactions'), account |-> c.source, amount |-> 0 - c.amount],
               [transaction |-> Len(transactions'), account |-> c.destination, amount |-> c.amount] >>
      BY <2>1, <2>3 DEF Commit, Postings
    <2>6. QED  BY <2>2, <2>4, <2>5 DEF BooksMove
  <1>2. ASSUME LedgerInv, NEW s \in Sessions, OpenAccount(s) PROVE UNCHANGED balance
    <2>1. balance[request[s].account] = 0
      BY <1>2 DEF LedgerInv, IInv, TypeOK, SessionsTyped, Serves, OpenRequest, OpeningsValid,
                  OpenAccount
    <2>2. QED  BY <1>2, <2>1 DEF OpenAccount, LedgerInv, IInv, TypeOK, TablesTyped
  <1>3. ASSUME LedgerInv, [Next]_vars
        PROVE  UNCHANGED balance \/ \E s \in Sessions : CheckedCommit(s)
    <2>1. ASSUME NEW s \in Sessions, Client(s) PROVE UNCHANGED balance
      BY <2>1 DEF Client, Submit, SubmitReversal, RequestChallenge, RequestAccount, Begin
    <2>2. ASSUME NEW s \in Sessions, Transfer(s) PROVE UNCHANGED balance \/ CheckedCommit(s)
      BY <2>2 DEF Transfer, Find, AcquireKey, Recheck, LockAccount, AccountMissing, Check,
                  ConsumeChallenge, Post, Fail, CheckedCommit
    <2>3. ASSUME NEW s \in Sessions, Abort(s) PROVE UNCHANGED balance
      BY <2>3 DEF Abort, Fail
    <2>4. ASSUME NEW s \in Sessions, NEW h \in Challenges, IssueChallenge(s, h)
          PROVE  UNCHANGED balance
      BY <2>4 DEF IssueChallenge
    <2>5. ASSUME NEW h \in Challenges, Expire(h) PROVE UNCHANGED balance
      BY <2>5 DEF Expire
    <2>6. CASE Operators
      BY <2>6 DEF Operators, SubmitKyc, DecideKyc, SetAccountStatus
    <2>7. CASE UNCHANGED vars
      BY <2>7 DEF vars
    <2>8. QED  BY <1>2, <1>3, <2>1, <2>2, <2>3, <2>4, <2>5, <2>6, <2>7 DEF Next
  <1>4. UNCHANGED <<balance, entries>> \/ \E s \in Sessions : CheckedCommit(s)
    BY <1>3, RowsOnlyByCommit DEF LedgerInv
  <1>5. QED  BY <1>1, <1>4 DEF BooksMove

\* No step of any session changes a balance without its two entries, or writes
\* entries that do not add up to zero.
THEOREM BooksBalance == Spec => BooksMoveTogether
  <1>1. LedgerInv /\ [Next]_vars => [BooksMove]_vars
    BY BooksStep
  <1>2. QED
    BY <1>1, LedgerInductive, PTL DEF Spec, BooksMoveTogether

-----------------------------------------------------------------------------
(* Every balance is the sum of its entries *)

\* What reconcile adds up for one account, of any rows.
EntriesOf(rows, a) == {i \in DOMAIN rows : rows[i].account = a}
SumOfEntries(rows, a) == MapThenSumSet(LAMBDA i : rows[i].amount, EntriesOf(rows, a))
Amounts(rows) == [i \in DOMAIN rows |-> rows[i].amount]

\* The entries of an account are finitely many, and their amounts are integers.
LEMMA EntriesFinite ==
  ASSUME NEW rows \in Seq(Entry), NEW a
  PROVE  /\ IsFiniteSet(EntriesOf(rows, a))
         /\ \A i \in EntriesOf(rows, a) : /\ i \in DOMAIN rows
                                         /\ Amounts(rows)[i] = rows[i].amount
                                         /\ Amounts(rows)[i] \in Int
  <1>1. IsFiniteSet(1 .. Len(rows))
    BY FS_Interval
  <1>2. EntriesOf(rows, a) \in SUBSET (1 .. Len(rows))
    BY DEF EntriesOf
  <1>3. IsFiniteSet(EntriesOf(rows, a))
    BY <1>1, <1>2, FS_Subset
  <1>4. \A i \in DOMAIN rows : rows[i] \in Entry
    OBVIOUS
  <1>5. QED  BY <1>3, <1>4 DEF EntriesOf, Amounts, Entry

\* The sum in the query is the total of the amounts.
LEMMA EntriesTotal ==
  ASSUME NEW rows \in Seq(Entry), NEW a
  PROVE  SumOfEntries(rows, a) = Total(Amounts(rows), EntriesOf(rows, a))
  <1> DEFINE S == EntriesOf(rows, a)
             f == Amounts(rows)
             Step(g) == [U \in SUBSET S |->
                           IF U = {} THEN 0 ELSE rows[Picked(U)].amount + g[U \ {Picked(U)}]]
             chosen == CHOOSE g : g = Step(g)
  <1>1. IsFiniteSet(S) /\ \A i \in S : f[i] = rows[i].amount /\ f[i] \in Int
    BY EntriesFinite
  <1>2. ASSUME NEW g PROVE Adds(f, S, g) <=> g = Step(g)
    <2>1. \A U \in SUBSET S : U # {} => f[Picked(U)] = rows[Picked(U)].amount
      BY <1>1, PickedIn
    <2>2. QED  BY <2>1 DEF Adds
  <1>3. \E g : g = Step(g)
    BY <1>1, <1>2, AddsExists
  <1>4. chosen = Step(chosen)
    BY <1>3
  <1>5. Adds(f, S, chosen)
    BY <1>2, <1>4
  <1>6. SumOfEntries(rows, a) = chosen[S]
    BY DEF SumOfEntries, MapThenSumSet, MapThenFoldSet, Picked
  <1>7. QED
    <2> HIDE DEF chosen, S, f
    <2>1. QED  BY <1>1, <1>5, <1>6, TotalAdds DEF S, f

\* One more row adds its amount to the account it is about, and to no other.
LEMMA OneMoreEntry ==
  ASSUME NEW rows \in Seq(Entry), NEW x \in Entry, NEW a
  PROVE  /\ SumOfEntries(rows, a) \in Int
         /\ SumOfEntries(Append(rows, x), a) =
              SumOfEntries(rows, a) + IF x.account = a THEN x.amount ELSE 0
  <1> DEFINE n == Len(rows) + 1
             new == Append(rows, x)
  <1>1. /\ new \in Seq(Entry) /\ Len(rows) \in Nat /\ DOMAIN rows = 1 .. Len(rows)
        /\ DOMAIN new = 1 .. n /\ new[n] = x /\ \A i \in DOMAIN rows : new[i] = rows[i]
    OBVIOUS
  <1>2. n \notin DOMAIN rows /\ DOMAIN new = DOMAIN rows \cup {n}
    BY <1>1
  <1>3. EntriesOf(new, a) = IF x.account = a THEN EntriesOf(rows, a) \cup {n}
                                             ELSE EntriesOf(rows, a)
    <2> HIDE DEF n, new
    <2>1. QED  BY <1>1, <1>2 DEF EntriesOf
  <1>4. /\ IsFiniteSet(EntriesOf(rows, a))
        /\ \A i \in EntriesOf(rows, a) : Amounts(rows)[i] \in Int /\ i \in DOMAIN rows
    BY EntriesFinite
  <1>5. /\ IsFiniteSet(EntriesOf(new, a))
        /\ \A i \in EntriesOf(new, a) : Amounts(new)[i] \in Int
    BY <1>1, EntriesFinite
  <1>6. \A i \in EntriesOf(rows, a) : Amounts(rows)[i] = Amounts(new)[i]
    <2> HIDE DEF n, new
    <2>1. QED  BY <1>1, <1>2 DEF Amounts, EntriesOf
  <1>7. Total(Amounts(rows), EntriesOf(rows, a)) = Total(Amounts(new), EntriesOf(rows, a))
    BY <1>4, <1>6, TotalAgrees
  <1>8. Total(Amounts(rows), EntriesOf(rows, a)) \in Int
    BY <1>4, TotalIs
  <1>9. CASE x.account = a
    <2>1. n \in EntriesOf(new, a) /\ EntriesOf(new, a) \ {n} = EntriesOf(rows, a)
      BY <1>2, <1>3, <1>4, <1>9
    <2>2. Amounts(new)[n] = x.amount
      BY <1>1, <1>2 DEF Amounts
    <2>3. Total(Amounts(new), EntriesOf(new, a)) =
            Amounts(new)[n] + Total(Amounts(new), EntriesOf(new, a) \ {n})
      <3> HIDE DEF n, new
      <3>1. QED  BY <1>5, <2>1, TotalIs
    <2>4. x.amount \in Int
      BY DEF Entry
    <2>5. SumOfEntries(new, a) = x.amount + SumOfEntries(rows, a)
      <3> HIDE DEF n, new
      <3>1. QED  BY <1>1, <1>7, <2>1, <2>2, <2>3, EntriesTotal
    <2>6. SumOfEntries(rows, a) \in Int
      BY <1>8, EntriesTotal
    <2>7. QED  BY <1>9, <2>4, <2>5, <2>6
  <1>10. CASE x.account # a
    <2>1. SumOfEntries(new, a) = SumOfEntries(rows, a)
      <3> HIDE DEF n, new
      <3>1. QED  BY <1>1, <1>3, <1>7, <1>10, EntriesTotal
    <2>2. SumOfEntries(rows, a) \in Int
      BY <1>8, EntriesTotal
    <2>3. QED  BY <1>10, <2>1, <2>2
  <1>11. QED  BY <1>9, <1>10

\* What leaves one balance reaches another, so their sum stays.
LEMMA BalancesMoved ==
  ASSUME IsFiniteSet(Accounts), NEW old \in [Accounts -> Int], NEW new \in [Accounts -> Int],
         NEW a \in Accounts, NEW b \in Accounts, a # b, NEW m \in Int,
         new[a] = old[a] - m, new[b] = old[b] + m,
         \A c \in Accounts \ {a, b} : new[c] = old[c]
  PROVE  Total(new, Accounts) = Total(old, Accounts)
  <1> DEFINE Others == (Accounts \ {a}) \ {b}
  <1>1. IsFiniteSet(Accounts \ {a}) /\ IsFiniteSet(Others)
    BY FS_RemoveElement
  <1>2. ASSUME NEW f \in [Accounts -> Int]
        PROVE  /\ Total(f, Accounts) = f[a] + (f[b] + Total(f, Others))
               /\ Total(f, Others) \in Int
    <2>1. Total(f, Accounts) = f[a] + Total(f, Accounts \ {a})
      BY TotalIs
    <2>2. b \in Accounts \ {a} /\ \A x \in Accounts \ {a} : f[x] \in Int
      OBVIOUS
    <2>3. Total(f, Accounts \ {a}) = f[b] + Total(f, Others)
      BY <1>1, <2>2, TotalIs
    <2>4. \A x \in Others : f[x] \in Int
      OBVIOUS
    <2>5. Total(f, Others) \in Int
      <3> HIDE DEF Others
      <3>1. QED  BY <1>1, <2>4, TotalIs
    <2>6. QED  BY <2>1, <2>3, <2>5
  <1>3. Total(old, Others) = Total(new, Others)
    <2>1. \A x \in Others : old[x] \in Int /\ old[x] = new[x]
      OBVIOUS
    <2> HIDE DEF Others
    <2>2. QED  BY <1>1, <2>1, TotalAgrees
  <1>4. old[a] \in Int /\ old[b] \in Int
    OBVIOUS
  <1>5. QED
    <2> HIDE DEF Others
    <2>1. QED  BY <1>2, <1>3, <1>4

\* Reconciles, in the sums the lemmas above are about.
Reconciled(bal, rows) ==
  /\ \A a \in Accounts : bal[a] = SumOfEntries(rows, a)
  /\ Total(bal, Accounts) = 0

\* Two rows that take an amount from one account and give it to another.
LEMMA TwoMoreEntries ==
  ASSUME IsFiniteSet(Accounts), NEW bal \in [Accounts -> Int], NEW rows \in Seq(Entry),
         Reconciled(bal, rows), NEW x \in Entry, NEW y \in Entry, x.account # y.account,
         x.account \in Accounts, y.account \in Accounts, y.amount = 0 - x.amount,
         NEW new \in [Accounts -> Int],
         new = [bal EXCEPT ![x.account] = @ + x.amount, ![y.account] = @ + y.amount]
  PROVE  Reconciled(new, rows \o <<x, y>>)
  <1> DEFINE one == Append(rows, x)
             two == Append(one, y)
  <1>1. one \in Seq(Entry) /\ rows \o <<x, y>> = two
    OBVIOUS
  <1>2. x.amount \in Int /\ y.amount \in Int
    BY DEF Entry
  <1>3. ASSUME NEW a \in Accounts PROVE new[a] = SumOfEntries(two, a)
    <2>1. bal[a] = SumOfEntries(rows, a) /\ bal[a] \in Int
      BY DEF Reconciled
    <2>2. SumOfEntries(one, a) = SumOfEntries(rows, a) + IF x.account = a THEN x.amount ELSE 0
      BY OneMoreEntry
    <2>3. SumOfEntries(two, a) = SumOfEntries(one, a) + IF y.account = a THEN y.amount ELSE 0
      <3> HIDE DEF one
      <3>1. QED  BY <1>1, OneMoreEntry
    <2>4. new[a] = IF a = x.account THEN bal[a] + x.amount
                   ELSE IF a = y.account THEN bal[a] + y.amount ELSE bal[a]
      OBVIOUS
    <2>5. CASE a = x.account
      <3>1. SumOfEntries(two, a) = SumOfEntries(rows, a) + x.amount + 0
        BY <2>2, <2>3, <2>5
      <3>2. QED  BY <1>2, <2>1, <2>4, <2>5, <3>1
    <2>6. CASE a = y.account
      <3>1. SumOfEntries(two, a) = SumOfEntries(rows, a) + 0 + y.amount
        BY <2>2, <2>3, <2>6
      <3>2. QED  BY <1>2, <2>1, <2>4, <2>6, <3>1
    <2>7. CASE a # x.account /\ a # y.account
      <3>1. SumOfEntries(two, a) = SumOfEntries(rows, a) + 0 + 0
        BY <2>2, <2>3, <2>7
      <3>2. QED  BY <2>1, <2>4, <2>7, <3>1
    <2>8. QED  BY <2>5, <2>6, <2>7
  <1>4. Total(new, Accounts) = Total(bal, Accounts)
    <2>1. /\ new[x.account] = bal[x.account] - y.amount
          /\ new[y.account] = bal[y.account] + y.amount
          /\ \A c \in Accounts \ {x.account, y.account} : new[c] = bal[c]
      BY <1>2
    <2>2. QED  BY <1>2, <2>1, BalancesMoved
  <1>5. QED  BY <1>1, <1>3, <1>4 DEF Reconciled

\* The invariant that the run checks, now and after a step.
LEMMA ReconcilesIs ==
  /\ Reconciles <=> Reconciled(balance, entries)
  /\ Reconciles' <=> Reconciled(balance', entries')
  <1>1. Reconciles <=> Reconciled(balance, entries)
    BY DEF Reconciles, Reconciled, Authoritative, SumOfEntries, EntriesOf, Total,
           MapThenSumSet, MapThenFoldSet
  <1>2. Reconciles' <=> Reconciled(balance', entries')
    BY DEF Reconciles, Reconciled, Authoritative, SumOfEntries, EntriesOf, Total,
           MapThenSumSet, MapThenFoldSet
  <1>3. QED  BY <1>1, <1>2

\* At first there are no entries and every balance is 0.
LEMMA InitReconciles ==
  ASSUME Init
  PROVE  Reconciles
  <1>1. entries = << >> /\ entries \in Seq(Entry) /\ balance = [a \in Accounts |-> 0]
    BY DEF Init
  <1>2. \A a : EntriesOf(entries, a) = {}
    BY <1>1 DEF EntriesOf
  <1>3. \A a : SumOfEntries(entries, a) = 0
    BY <1>1, <1>2, EntriesTotal, EntriesFinite, TotalIs
  <1>4. Total(balance, Accounts) = 0
    <2> DEFINE Zero == {U \in SUBSET Accounts : Total(balance, U) = 0}
    <2>1. IsFiniteSet(Accounts)
      BY ConstantsAssumption
    <2>2. ASSUME NEW U \in SUBSET Accounts, \A V \in SUBSET U : V # U => V \in Zero
          PROVE  U \in Zero
      <3>1. IsFiniteSet(U) /\ \A a \in U : balance[a] = 0
        BY <1>1, <2>1, FS_Subset
      <3>2. CASE U = {}
        BY <3>1, <3>2, TotalIs
      <3>3. CASE U # {}
        <4>1. PICK a \in U : TRUE
          BY <3>3
        <4>2. Total(balance, U) = balance[a] + Total(balance, U \ {a})
          BY <3>1, TotalIs
        <4>3. U \ {a} \in Zero
          BY <2>2, <4>1
        <4>4. QED  BY <3>1, <4>2, <4>3
      <3>4. QED  BY <3>2, <3>3
    <2>3. Accounts \in Zero
      <3> HIDE DEF Zero
      <3>1. Accounts \in SUBSET Accounts
        OBVIOUS
      <3>2. QED  BY <2>1, <2>2, <3>1, SubsetsByInduction
    <2>4. QED  BY <2>3
  <1>5. QED  BY <1>1, <1>3, <1>4, ReconcilesIs DEF Reconciled

\* A step that moves money writes the two entries that account for it.
LEMMA StepReconciles ==
  ASSUME LedgerInv, LedgerInv', Reconciles, BooksMove
  PROVE  Reconciles'
  <1>1. /\ balance \in [Accounts -> Int] /\ balance' \in [Accounts -> Int]
        /\ entries \in Seq(Entry) /\ entries' \in Seq(Entry) /\ IsFiniteSet(Accounts)
    BY ConstantsAssumption DEF LedgerInv, IInv, TypeOK, TablesTyped
  <1>2. CASE UNCHANGED <<balance, entries>>
    BY <1>2, ReconcilesIs
  <1>3. CASE ~ UNCHANGED <<balance, entries>>
    <2>1. PICK a \in Accounts, b \in Accounts, m \in Nat \ {0} :
            /\ a # b
            /\ balance' = [balance EXCEPT ![a] = @ - m, ![b] = @ + m]
            /\ entries' = entries \o
                 << [transaction |-> Len(transactions'), account |-> a, amount |-> 0 - m],
                    [transaction |-> Len(transactions'), account |-> b, amount |-> m] >>
      BY <1>3 DEF BooksMove
    <2> DEFINE x == [transaction |-> Len(transactions'), account |-> a, amount |-> 0 - m]
               y == [transaction |-> Len(transactions'), account |-> b, amount |-> m]
    <2>2. Len(transactions') \in Nat
      BY DEF LedgerInv, IInv, TypeOK, TablesTyped
    <2>3. x \in Entry /\ y \in Entry
      BY <2>2 DEF Entry
    <2>4. balance' = [balance EXCEPT ![x.account] = @ + x.amount, ![y.account] = @ + y.amount]
      <3>1. x.account = a /\ y.account = b /\ balance[a] - m = balance[a] + x.amount /\ y.amount = m
        BY <1>1
      <3> HIDE DEF x, y
      <3>2. QED  BY <2>1, <3>1
    <2>5. Reconciled(balance', entries \o <<x, y>>)
      <3>1. x.account # y.account /\ y.amount = 0 - x.amount
        BY <2>1
      <3>2. Reconciled(balance, entries) /\ x.account \in Accounts /\ y.account \in Accounts
        BY ReconcilesIs
      <3> HIDE DEF x, y
      <3>3. QED  BY <1>1, <2>3, <2>4, <3>1, <3>2, TwoMoreEntries
    <2>6. QED  BY <2>1, <2>5, ReconcilesIs
  <1>4. QED  BY <1>2, <1>3

\* What POST /v1/reconciliation/runs reports is always a match, for every
\* account and every history: the balance kept beside the ledger is the sum of
\* the account's entries, and the balances add up to zero.
THEOREM BalancesReconcile == Spec => []Reconciles
  <1>1. Init => Reconciles
    BY InitReconciles
  <1>2. LedgerInv /\ LedgerInv' /\ Reconciles /\ [Next]_vars => Reconciles'
    BY BooksStep, StepReconciles
  <1>3. QED  BY <1>1, <1>2, LedgerInductive, PTL DEF Spec

-----------------------------------------------------------------------------
(* The ledger implements the bank *)

\* The empty books are the bank's.
LEMMA InitMaps == Init => Abstract!Init
  <1> SUFFICES ASSUME Init PROVE Abstract!Init
    OBVIOUS
  <1>1. [h \in Challenges |-> Authority(h)] = [h \in Challenges |-> None]
    BY DEF Init, Authority
  <1>2. QED  BY <1>1 DEF Init, Abstract!Init

\* What a posting needs of the bank is what its session has checked: the rows
\* it locked are the tables' rows.
LEMMA CommitPostable ==
  ASSUME LedgerInv, NEW s \in Sessions, CheckedCommit(s)
  PROVE  /\ Abstract!Postable(PostedRow(request[s]))
         /\ Abstract!MoveMoney(PostedRow(request[s]))
         /\ UNCHANGED <<status, kyc>>
  <1> DEFINE c == request[s]
             x == PostedRow(c)
  <1>1. pc[s] = "post" /\ Commit(s) /\ SufficientFunds(s)
    BY DEF CheckedCommit
  <1>2. /\ c.source # c.destination
        /\ c.amount > 0
        /\ x.user = c.user /\ x.key = c.key
        /\ x.source = c.source /\ x.destination = c.destination /\ x.amount = c.amount
    BY <1>1, ServedCommand DEF LedgerInv, InTransaction, PostedRow, Normalised
  <1>3. \A t \in DOMAIN transactions :
          ~(transactions[t].user = c.user /\ transactions[t].key = c.key)
    BY <1>1 DEF LedgerInv, IInv, KeyUnused, Existing
  <1>4. ASSUME NEW a \in {c.source, c.destination}
        PROVE  seen[s][a] = [status |-> status[a], balance |-> balance[a]]
    <2>1. a \in DOMAIN seen[s]
      BY <1>1 DEF LedgerInv, IInv, LocksFollowLabels
    <2>2. QED  BY <2>1 DEF LedgerInv, IInv, LockedRowsFresh
  <1>5. status[c.source] = "ACTIVE" /\ status[c.destination] = "ACTIVE"
    <2>1. Permitted(s)
      BY <1>1 DEF LedgerInv, IInv, ChecksHold
    <2>2. QED  BY <1>4, <2>1 DEF Permitted
  <1>6. Owner[c.source] = None \/ balance[c.source] >= c.amount
    BY <1>1, <1>4 DEF SufficientFunds, AllowNegative
  <1>7. Abstract!Postable(x)
    BY <1>2, <1>3, <1>5, <1>6 DEF Abstract!Postable
  <1>8. Abstract!MoveMoney(x) /\ UNCHANGED <<status, kyc>>
    BY <1>1, <1>2 DEF Commit, Moved, Abstract!MoveMoney
  <1>9. QED  BY <1>7, <1>8

\* The table after a commit, as the bank writes it.
LEMMA CommitAppends ==
  ASSUME LedgerInv, NEW s \in Sessions, CheckedCommit(s)
  PROVE  /\ Abstract!Posting
         /\ Abstract!Posted = PostedRow(request[s])
         /\ request[s].reverses = 0 =>
              transactions' = Append(transactions, PostedRow(request[s]))
         /\ request[s].reverses \in DOMAIN transactions =>
              transactions' =
                Append([transactions EXCEPT ![request[s].reverses].status = "REVERSED"],
                       PostedRow(request[s]))
  <1> DEFINE c == request[s]
             n == Len(transactions)
  <1>1. /\ n \in Nat
        /\ DOMAIN transactions = 1..n
        /\ transactions' \in Seq(Transaction)
        /\ DOMAIN transactions' = 1..(n + 1)
        /\ transactions'[n + 1] = PostedRow(c)
    BY TransactionsAfterCommit DEF LedgerInv, CheckedCommit
  <1>2. Len(transactions') = n + 1
    <2>1. Len(transactions') \in Nat /\ DOMAIN transactions' = 1..Len(transactions')
      BY <1>1
    <2>2. QED  BY <1>1, <2>1
  <1>3. transactions \in [1..n -> Transaction]
    BY <1>1 DEF LedgerInv, IInv, TypeOK, TablesTyped
  <1>4. c.reverses = 0 => MarkReversed(transactions, c.reverses) = transactions
    BY <1>1, <1>3 DEF MarkReversed
  <1>5. c.reverses \in DOMAIN transactions =>
          MarkReversed(transactions, c.reverses) =
            [transactions EXCEPT ![c.reverses].status = "REVERSED"]
    BY <1>1, <1>3 DEF MarkReversed
  <1>6. transactions' = Append(MarkReversed(transactions, c.reverses), PostedRow(c))
    BY DEF CheckedCommit, Commit
  <1>7. QED
    BY <1>1, <1>2, <1>4, <1>5, <1>6 DEF Abstract!Posting, Abstract!Posted

\* Consuming a challenge spends its authority; no other authority changes.
LEMMA CommitSpends ==
  ASSUME LedgerInv, NEW s \in Sessions, CheckedCommit(s), NEW h \in Challenges
  PROVE  LET c == request[s]
         IN  IF h = UsesChallenge(c)
             THEN /\ Authority(h) = [user |-> c.user, source |-> c.source,
                                     destination |-> c.destination,
                                     amount |-> c.amount, spent |-> FALSE]
                  /\ Authority(h)' = [user |-> c.user, source |-> c.source,
                                      destination |-> c.destination,
                                      amount |-> c.amount, spent |-> TRUE]
             ELSE Authority(h)' = Authority(h)
  <1> DEFINE c == request[s]
  <1>1. pc[s] = "post" /\ Commit(s)
    BY DEF CheckedCommit
  <1>2. challenges'[h] = IF h = UsesChallenge(c)
                         THEN [challenges[h] EXCEPT !.status = "CONSUMED"]
                         ELSE challenges[h]
    BY <1>1 DEF Commit
  <1>3. CASE h = UsesChallenge(c)
    <2>1. challenges[h].status = "PENDING" /\ Bound(challenges[h], c)
      BY <1>1, <1>3, ConstantsAssumption DEF LedgerInv, IInv, ChallengeHeld, UsesChallenge
    <2>2. challenges[h] \in ChallengeRow /\ challenges[h] # NoChallenge
      BY <2>1 DEF LedgerInv, IInv, TypeOK, TablesTyped, NoChallenge
    <2>3. /\ challenges'[h] = [challenges[h] EXCEPT !.status = "CONSUMED"]
          /\ challenges'[h].status = "CONSUMED"
          /\ challenges'[h].user = c.user
          /\ challenges'[h].source = c.source
          /\ challenges'[h].destination = c.destination
          /\ challenges'[h].amount = c.amount
      BY <1>2, <1>3, <2>1, <2>2 DEF ChallengeRow, Bound
    <2>4. challenges'[h] # NoChallenge
      BY <2>3 DEF NoChallenge
    <2>5. Authority(h) = [user |-> c.user, source |-> c.source, destination |-> c.destination,
                          amount |-> c.amount, spent |-> FALSE]
      BY <2>1, <2>2 DEF Authority, Bound
    <2>6. Authority(h)' = [user |-> c.user, source |-> c.source, destination |-> c.destination,
                           amount |-> c.amount, spent |-> TRUE]
      BY <2>3, <2>4 DEF Authority
    <2>7. QED  BY <1>3, <2>5, <2>6
  <1>4. CASE h # UsesChallenge(c)
    BY <1>2, <1>4 DEF Authority
  <1>5. QED  BY <1>3, <1>4

\* Setting a field of a record is the record with that field.
LEMMA SpentOf ==
  ASSUME NEW u, NEW a, NEW b, NEW m
  PROVE  [[user |-> u, source |-> a, destination |-> b, amount |-> m, spent |-> FALSE]
             EXCEPT !.spent = TRUE] =
         [user |-> u, source |-> a, destination |-> b, amount |-> m, spent |-> TRUE]
  <1> DEFINE R == [user : {u}, source : {a}, destination : {b}, amount : {m}, spent : BOOLEAN]
             r == [user |-> u, source |-> a, destination |-> b, amount |-> m, spent |-> FALSE]
             q == [r EXCEPT !.spent = TRUE]
  <1>1. /\ q \in R
        /\ q.user = u /\ q.source = a /\ q.destination = b /\ q.amount = m /\ q.spent = TRUE
    OBVIOUS
  <1>2. \A z \in R : z = [user |-> z.user, source |-> z.source, destination |-> z.destination,
                          amount |-> z.amount, spent |-> z.spent]
    OBVIOUS
  <1> HIDE DEF q
  <1>3. q = [user |-> u, source |-> a, destination |-> b, amount |-> m, spent |-> TRUE]
    BY <1>1, <1>2
  <1>4. QED  BY <1>3 DEF q

\* A commit is the bank's payment, deposit or reversal.
LEMMA CommitMaps ==
  ASSUME LedgerInv, NEW s \in Sessions, CheckedCommit(s)
  PROVE  Abstract!Pay \/ Abstract!Deposit \/ Abstract!Reverse
  <1> DEFINE c == request[s]
             x == PostedRow(c)
             h == UsesChallenge(c)
             authority == [g \in Challenges |-> Authority(g)]
  <1>1. pc[s] = "post" /\ ReversalAllowed(c)
    BY DEF CheckedCommit
  <1>2. c \in Command
    BY <1>1, ServedCommand DEF LedgerInv, InTransaction
  <1>3. /\ Abstract!Postable(x)
        /\ Abstract!MoveMoney(x)
        /\ UNCHANGED <<status, kyc>>
    BY CommitPostable
  <1>4. /\ Abstract!Posting
        /\ Abstract!Posted = x
        /\ c.reverses = 0 => transactions' = Append(transactions, x)
        /\ c.reverses \in DOMAIN transactions =>
             transactions' = Append([transactions EXCEPT ![c.reverses].status = "REVERSED"], x)
    BY CommitAppends
  <1>5. /\ x.type = c.type /\ x.user = c.user /\ x.source = c.source
        /\ x.destination = c.destination /\ x.amount = c.amount
        /\ x.reverses = c.reverses /\ x.status = "POSTED" /\ x.challenge = h
    BY DEF PostedRow
  <1>6. None \notin Challenges /\ h \in Challenges \cup {None}
    BY <1>2, ConstantsAssumption DEF UsesChallenge, Command
  <1>7. h = None => UNCHANGED authority
    <2> SUFFICES ASSUME h = None
                 PROVE  \A g \in Challenges : Authority(g)' = Authority(g)
      OBVIOUS
    <2>1. QED  BY <1>6, CommitSpends
  <1>8. CASE c.type = "TRANSFER"
    <2>1. c.reverses = 0
      BY <1>1, <1>8 DEF LedgerInv, IInv, RequestsFromRoutes, InTransaction
    <2>2. Owner[c.source] = c.user /\ kyc[c.user] = "KYC_VERIFIED"
      BY <1>1, <1>8 DEF LedgerInv, IInv, ChecksHold, Permitted, OperatorOverride
    <2>3. IF c.amount >= Threshold
          THEN /\ authority[h] = [user |-> c.user, source |-> c.source,
                                  destination |-> c.destination,
                                  amount |-> c.amount, spent |-> FALSE]
               /\ authority' = [authority EXCEPT ![h].spent = TRUE]
          ELSE h = None /\ UNCHANGED authority
      <3>1. CASE c.amount >= Threshold
        <4>1. h \in Challenges
          BY <1>1, <1>6, <1>8, <3>1
             DEF LedgerInv, IInv, ChallengeHeld, UsesChallenge, OperatorOverride, Required
        <4>2. \A g \in Challenges :
                IF g = h
                THEN /\ Authority(g) = [user |-> c.user, source |-> c.source,
                                        destination |-> c.destination,
                                        amount |-> c.amount, spent |-> FALSE]
                     /\ Authority(g)' = [user |-> c.user, source |-> c.source,
                                         destination |-> c.destination,
                                         amount |-> c.amount, spent |-> TRUE]
                ELSE Authority(g)' = Authority(g)
          BY CommitSpends
        <4>3. authority[h] = [user |-> c.user, source |-> c.source,
                              destination |-> c.destination,
                              amount |-> c.amount, spent |-> FALSE]
          BY <4>1, <4>2
        <4>4. [authority[h] EXCEPT !.spent = TRUE] =
                [user |-> c.user, source |-> c.source, destination |-> c.destination,
                 amount |-> c.amount, spent |-> TRUE]
          <5> HIDE DEF authority, c, h
          <5>1. QED  BY <4>3, SpentOf
        <4>5. \A g \in Challenges :
                Authority(g)' = IF g = h THEN [authority[h] EXCEPT !.spent = TRUE]
                                ELSE authority[g]
          BY <4>2, <4>4
        <4>6. authority' = [authority EXCEPT ![h].spent = TRUE]
          BY <4>1, <4>5
        <4>7. QED  BY <3>1, <4>3, <4>6
      <3>2. CASE ~(c.amount >= Threshold)
        <4>1. h = None
          BY <3>2 DEF UsesChallenge, Required
        <4>2. QED  BY <1>7, <3>2, <4>1
      <3>3. QED  BY <3>1, <3>2
    <2>4. QED  BY <1>3, <1>4, <1>5, <1>8, <2>1, <2>2, <2>3 DEF Abstract!Pay
  <1>9. CASE c.type = "DEMO_DEPOSIT"
    <2>1. h = None
      BY <1>9 DEF UsesChallenge, OperatorOverride
    <2>2. c.user \in Admins /\ Owner[c.source] = None /\ c.reverses = 0
      BY <1>1, <1>9 DEF LedgerInv, IInv, RequestsFromRoutes, InTransaction
    <2>3. QED  BY <1>3, <1>4, <1>5, <1>7, <1>9, <2>1, <2>2 DEF Abstract!Deposit
  <1>10. CASE c.type = "REVERSAL"
    <2>1. h = None
      BY <1>10 DEF UsesChallenge, OperatorOverride
    <2>2. c.user \in Admins /\ c.reverses \in DOMAIN transactions
      BY <1>1, <1>10 DEF LedgerInv, IInv, RequestsFromRoutes, InTransaction
    <2>3. /\ transactions[c.reverses].status = "POSTED"
          /\ transactions[c.reverses].type # "REVERSAL"
          /\ c.source = transactions[c.reverses].destination
          /\ c.destination = transactions[c.reverses].source
          /\ c.amount = transactions[c.reverses].amount
      <3>1. c.reverses # 0
        BY <2>2 DEF LedgerInv, IInv, TypeOK, TablesTyped
      <3>2. QED  BY <1>1, <3>1 DEF ReversalAllowed
    <2>4. QED  BY <1>3, <1>4, <1>5, <1>7, <1>10, <2>1, <2>2, <2>3 DEF Abstract!Reverse
  <1>11. QED  BY <1>2, <1>8, <1>9, <1>10 DEF Command

\* Authorities change only with the challenges table.
LEMMA AuthoritiesStay ==
  ASSUME \A h \in Challenges : Authority(h)' = Authority(h),
         UNCHANGED <<status, balance, kyc, transactions>>
  PROVE  UNCHANGED Abstract!vars
  <1>1. UNCHANGED [h \in Challenges |-> Authority(h)]
    OBVIOUS
  <1>2. QED  BY <1>1 DEF Abstract!vars

\* The challenge that the ledger stores is the bank's authorisation.
LEMMA ChallengeMaps ==
  ASSUME LedgerInv, NEW s \in Sessions, NEW h \in Challenges, IssueChallenge(s, h)
  PROVE  Abstract!Authorise
  <1> DEFINE r == request[s]
             authority == [g \in Challenges |-> Authority(g)]
  <1>1. /\ pc[s] = "issue"
        /\ challenges[h] = NoChallenge
        /\ challenges' = [challenges EXCEPT ![h] =
             [status |-> "PENDING", expired |-> FALSE, user |-> r.user,
              source |-> r.source, destination |-> r.destination, amount |-> r.amount]]
        /\ UNCHANGED <<status, balance, kyc, transactions>>
    BY DEF IssueChallenge
  <1>2. challenges \in [Challenges -> ChallengeRow \cup {NoChallenge}]
    BY DEF LedgerInv, IInv, TypeOK, TablesTyped
  <1>3. r \in ChallengeRequest /\ Owner[r.source] = r.user
    BY <1>1 DEF LedgerInv, IInv, TypeOK, SessionsTyped, Serves, ChallengesOwned
  <1>4. /\ challenges'[h].status = "PENDING"
        /\ challenges'[h].source = r.source
        /\ challenges'[h].user = r.user
        /\ challenges'[h] # NoChallenge
    BY <1>1, <1>2 DEF NoChallenge
  <1>5. Authority(h) = None
    BY <1>1 DEF Authority
  <1>6. /\ Authority(h)'.spent = FALSE
        /\ Authority(h)'.source = r.source
        /\ Authority(h)'.user = r.user
    BY <1>4 DEF Authority
  <1>7. Authority(h)' # None
    <2>1. challenges'[h] \in ChallengeRow
      BY <1>1, <1>2, <1>3 DEF ChallengeRow, ChallengeRequest
    <2>2. Authority(h)' \in AuthorityRow
      BY <1>4, <2>1 DEF Authority, AuthorityRow, ChallengeRow
    <2>3. QED  BY <2>2, NullAssumption
  <1>8. \A g \in Challenges : g # h => Authority(g)' = Authority(g)
    BY <1>1, <1>2 DEF Authority
  <1>9. authority' = [authority EXCEPT ![h] = authority'[h]]
    BY <1>8
  <1>10. QED
    BY <1>1, <1>3, <1>5, <1>6, <1>7, <1>9 DEF Abstract!Authorise

\* Every step of the ledger is a step of the bank or leaves it alone.
LEMMA StepMaps ==
  ASSUME LedgerInv, [Next]_vars
  PROVE  [Abstract!Next]_(Abstract!vars)
  <1> USE DEF bankVars
  <1>1. ASSUME UNCHANGED <<status, balance, kyc, transactions, challenges>>
        PROVE  UNCHANGED Abstract!vars
    <2>1. \A h \in Challenges : Authority(h)' = Authority(h)
      BY <1>1 DEF Authority
    <2>2. QED  BY <1>1, <2>1, AuthoritiesStay
  <1>2. ASSUME NEW s \in Sessions, Client(s)
        PROVE  UNCHANGED <<status, balance, kyc, transactions, challenges>>
    BY <1>2 DEF Client, Submit, SubmitReversal, RequestChallenge, RequestAccount, Begin
  <1>3. ASSUME NEW s \in Sessions, Transfer(s)
        PROVE  CheckedCommit(s) \/ UNCHANGED <<status, balance, kyc, transactions, challenges>>
    BY <1>3 DEF Transfer, Find, AcquireKey, Recheck, LockAccount, AccountMissing, Check,
                ConsumeChallenge, Post, Fail, CheckedCommit
  <1>4. ASSUME NEW s \in Sessions, CheckedCommit(s) PROVE Abstract!Next
    BY <1>4, CommitMaps DEF Abstract!Next
  <1>5. ASSUME NEW s \in Sessions, Abort(s)
        PROVE  UNCHANGED <<status, balance, kyc, transactions, challenges>>
    BY <1>5 DEF Abort, Fail
  <1>6. ASSUME NEW s \in Sessions, NEW h \in Challenges, IssueChallenge(s, h)
        PROVE  Abstract!Next
    BY <1>6, ChallengeMaps DEF Abstract!Next
  <1>7. ASSUME NEW s \in Sessions, OpenAccount(s) PROVE Abstract!Next
    <2> DEFINE a == request[s].account
    <2>1. /\ a \in Accounts
          /\ status[a] = "ABSENT"
          /\ balance[a] = 0
          /\ request[s].user \in Customers
          /\ Owner[a] = request[s].user
          /\ kyc[Owner[a]] = "KYC_VERIFIED"
      BY <1>7 DEF OpenAccount, LedgerInv, IInv, OpeningsValid, TypeOK, SessionsTyped,
                  Serves, OpenRequest
    <2>2. Owner[a] # None
      BY <2>1, ConstantsAssumption DEF Users
    <2>3. balance' = balance
      BY <1>7, <2>1 DEF OpenAccount, LedgerInv, IInv, TypeOK, TablesTyped
    <2>4. UNCHANGED [g \in Challenges |-> Authority(g)]
      <3>1. \A g \in Challenges : Authority(g)' = Authority(g)
        BY <1>7 DEF OpenAccount, Authority
      <3>2. QED  BY <3>1
    <2>5. status' = [status EXCEPT ![a] = "ACTIVE"] /\ UNCHANGED <<kyc, transactions>>
      BY <1>7 DEF OpenAccount
    <2>6. Abstract!Open
      BY <2>1, <2>2, <2>3, <2>4, <2>5 DEF Abstract!Open
    <2>7. QED  BY <2>6 DEF Abstract!Next
  <1>8. ASSUME NEW h \in Challenges, Expire(h) PROVE UNCHANGED Abstract!vars
    <2>1. \A g \in Challenges : Authority(g)' = Authority(g)
      <3> SUFFICES ASSUME NEW g \in Challenges PROVE Authority(g)' = Authority(g)
        OBVIOUS
      <3>1. CASE g = h
        <4>1. challenges[h] \in ChallengeRow /\ challenges[h] # NoChallenge
          BY <1>8 DEF Expire, LedgerInv, IInv, TypeOK, TablesTyped, NoChallenge
        <4>2. challenges'[h] = [challenges[h] EXCEPT !.expired = TRUE]
          BY <1>8 DEF Expire, LedgerInv, IInv, TypeOK, TablesTyped
        <4>3. /\ challenges'[h].status = "PENDING"
              /\ challenges[h].status = "PENDING"
              /\ challenges'[h].user = challenges[h].user
              /\ challenges'[h].source = challenges[h].source
              /\ challenges'[h].destination = challenges[h].destination
              /\ challenges'[h].amount = challenges[h].amount
          BY <1>8, <4>1, <4>2 DEF Expire, ChallengeRow
        <4>4. challenges'[h] # NoChallenge
          BY <4>3 DEF NoChallenge
        <4>5. QED  BY <3>1, <4>1, <4>3, <4>4 DEF Authority
      <3>2. CASE g # h
        <4>1. challenges'[g] = challenges[g]
          BY <1>8, <3>2 DEF Expire, LedgerInv, IInv, TypeOK, TablesTyped
        <4>2. QED  BY <4>1 DEF Authority
      <3>3. QED  BY <3>1, <3>2
    <2>2. QED  BY <1>8, <2>1, AuthoritiesStay DEF Expire
  <1>9. ASSUME NEW c \in Customers,
               SubmitKyc(c) \/ \E d \in {"KYC_VERIFIED", "KYC_REJECTED"} : DecideKyc(c, d)
        PROVE  Abstract!Next
    <2>1. \A g \in Challenges : Authority(g)' = Authority(g)
      BY <1>9 DEF SubmitKyc, DecideKyc, Authority
    <2>2. UNCHANGED [g \in Challenges |-> Authority(g)]
      BY <2>1
    <2>3. Abstract!Review
      BY <1>9, <2>2 DEF SubmitKyc, DecideKyc, Abstract!Review
    <2>4. QED  BY <2>3 DEF Abstract!Next
  <1>10. ASSUME NEW a \in Accounts, NEW new \in {"ACTIVE", "FROZEN"}, SetAccountStatus(a, new)
         PROVE  Abstract!Next
    <2>1. \A g \in Challenges : Authority(g)' = Authority(g)
      BY <1>10 DEF SetAccountStatus, Authority
    <2>2. UNCHANGED [g \in Challenges |-> Authority(g)]
      BY <2>1
    <2>3. Abstract!Freeze
      BY <1>10, <2>2 DEF SetAccountStatus, Abstract!Freeze
    <2>4. QED  BY <2>3 DEF Abstract!Next
  <1>11. CASE UNCHANGED vars
    BY <1>1, <1>11 DEF vars
  <1>12. QED
    BY <1>1, <1>2, <1>3, <1>4, <1>5, <1>6, <1>7, <1>8, <1>9, <1>10, <1>11 DEF Next, Operators

\* Whatever sessions, locks, retries and rollbacks do, the tables go through a
\* behaviour of the atomic bank: every posting happens at one instant at which
\* everything it needs is true.
THEOREM Implements == Spec => ImplementsBank
  <1>1. Init => Abstract!Init
    BY InitMaps
  <1>2. LedgerInv /\ [Next]_vars => [Abstract!Next]_(Abstract!vars)
    BY StepMaps
  <1>3. QED
    BY <1>1, <1>2, LedgerInductive, PTL DEF Spec, ImplementsBank, Abstract!Spec
=============================================================================
