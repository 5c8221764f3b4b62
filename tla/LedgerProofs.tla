---------------------------- MODULE LedgerProofs ----------------------------
(***************************************************************************)
(* Theorems of Ledger, for every set of sessions, accounts, customers,     *)
(* commands and challenges and every bound.                                *)
(***************************************************************************)
EXTENDS Ledger, TLAPS, SequenceTheorems

-----------------------------------------------------------------------------
(* Types *)

\* The three ways in which a step changes its session keep sessions typed.
LEMMA FinishTyped ==
  ASSUME SessionsTyped, NEW s \in Sessions, NEW t \in Nat \cup {None}, Finish(s, t)
  PROVE  SessionsTyped'
  <1>1. /\ pc' \in [Sessions -> Labels]
        /\ DOMAIN request' = Sessions
        /\ DOMAIN seen' = Sessions
        /\ reply' \in [Sessions -> Nat \cup {None}]
    BY DEF SessionsTyped, Finish, Labels
  <1>2. ASSUME NEW o \in Sessions
        PROVE  /\ Serves(pc'[o], request'[o])
               /\ DOMAIN seen'[o] \subseteq Accounts
               /\ \A a \in DOMAIN seen'[o] : seen'[o][a] \in AccountRow
    <2>1. CASE o = s
      <3>1. pc'[o] = "idle" /\ seen'[o] = NothingRead
        BY <2>1 DEF SessionsTyped, Finish
      <3>2. QED  BY <3>1 DEF Serves, InTransaction, NothingRead
    <2>2. CASE o # s
      <3>1. pc'[o] = pc[o] /\ request'[o] = request[o] /\ seen'[o] = seen[o]
        BY <2>2 DEF SessionsTyped, Finish
      <3>2. QED  BY <3>1 DEF SessionsTyped
    <2>3. QED  BY <2>1, <2>2
  <1>3. QED  BY <1>1, <1>2 DEF SessionsTyped, Serves, Normalised

\* A session inside a request goes on to another place in it.
LEMMA GotoTyped ==
  ASSUME SessionsTyped, NEW s \in Sessions, NEW label \in InTransaction \cup {"key"},
         pc[s] \in InTransaction \cup {"find", "key"},
         Goto(s, label), UNCHANGED seen
  PROVE  SessionsTyped'
  <1>1. pc' \in [Sessions -> Labels]
    BY DEF SessionsTyped, Goto, Labels
  <1>2. \A o \in Sessions : Serves(pc'[o], request'[o])
    <2> SUFFICES ASSUME NEW o \in Sessions PROVE Serves(pc'[o], request'[o])
      OBVIOUS
    <2>1. CASE o = s
      BY <2>1 DEF SessionsTyped, Goto, Serves, InTransaction
    <2>2. CASE o # s
      BY <2>2 DEF SessionsTyped, Goto
    <2>3. QED  BY <2>1, <2>2
  <1>3. QED  BY <1>1, <1>2 DEF SessionsTyped, Goto, Serves, Normalised

\* A session begins a request that its first place can serve.
LEMMA BeginTyped ==
  ASSUME SessionsTyped, NEW s \in Sessions, NEW label \in Labels, NEW r,
         Serves(label, r), Begin(s, label, r)
  PROVE  SessionsTyped'
  <1>1. pc' \in [Sessions -> Labels] /\ reply' \in [Sessions -> Nat \cup {None}]
    BY DEF SessionsTyped, Begin, Labels
  <1>2. \A o \in Sessions : Serves(pc'[o], request'[o])
    <2> SUFFICES ASSUME NEW o \in Sessions PROVE Serves(pc'[o], request'[o])
      OBVIOUS
    <2>1. CASE o = s
      BY <2>1 DEF SessionsTyped, Begin
    <2>2. CASE o # s
      BY <2>2 DEF SessionsTyped, Begin
    <2>3. QED  BY <2>1, <2>2
  <1>3. QED  BY <1>1, <1>2 DEF SessionsTyped, Begin, Serves, Normalised

\* The types hold at first.
LEMMA InitTyped == Init => TypeOK
  <1> SUFFICES ASSUME Init PROVE TypeOK
    OBVIOUS
  <1>1. TablesTyped
    BY DEF Init, TablesTyped, AccountStatus, KycStatus
  <1>2. SessionsTyped
    BY DEF Init, SessionsTyped, Labels, InTransaction, NothingRead, Serves
  <1>3. QED  BY <1>1, <1>2 DEF TypeOK

-----------------------------------------------------------------------------
(* Steps that leave the tables alone *)

\* A request that ends without a commit keeps the invariant.
LEMMA FinishKeeps ==
  ASSUME IInv, NEW s \in Sessions, NEW t \in Nat \cup {None}, Finish(s, t),
         UNCHANGED bankVars
  PROVE  IInv'
  <1> USE DEF IInv
  <1>0. /\ pc'[s] = "idle"
        /\ seen'[s] = NothingRead
        /\ \A o \in Sessions : o # s =>
             pc'[o] = pc[o] /\ request'[o] = request[o] /\ seen'[o] = seen[o]
    BY DEF Finish, TypeOK, SessionsTyped
  <1>1. UNCHANGED <<status, balance, kyc, transactions, entries, outbox, challenges>>
    BY DEF bankVars
  <1>2. TypeOK'
    BY <1>1, FinishTyped DEF TypeOK, TablesTyped
  <1>3. LockedRowsFresh'
    BY <1>0, <1>1 DEF LockedRowsFresh, NothingRead
  <1>4. LocksFollowLabels'
    BY <1>0, <1>1 DEF LocksFollowLabels, NothingRead, Wanted
  <1>5. LocksExclusive'
    BY <1>0, <1>1 DEF LocksExclusive, NothingRead, InTransaction, UsesChallenge, Required, OperatorOverride
  <1>6. KeyUnused'
    BY <1>0, <1>1 DEF KeyUnused, Existing
  <1>7. ChecksHold'
    BY <1>0, <1>1 DEF ChecksHold, Permitted
  <1>8. ChallengeHeld'
    BY <1>0, <1>1 DEF ChallengeHeld
  <1>9. RequestsFromRoutes'
    BY <1>0, <1>1 DEF RequestsFromRoutes, InTransaction
  <1>10. OpeningsValid'
    BY <1>0, <1>1 DEF OpeningsValid
  <1>11. ChallengesOwned'
    BY <1>0, <1>1 DEF ChallengesOwned
  <1>12. NoOverdraft' /\ OnePostingPerKey' /\ RowsNormal'
    BY <1>1 DEF NoOverdraft, OnePostingPerKey, RowsNormal
  <1>13. QED
    BY <1>2, <1>3, <1>4, <1>5, <1>6, <1>7, <1>8, <1>9, <1>10, <1>11, <1>12

\* A session that moves to its next label keeps the invariant when the label's
\* own promises hold for it.
LEMMA GotoKeeps ==
  ASSUME IInv, NEW s \in Sessions, NEW label \in InTransaction \cup {"key"},
         pc[s] \in InTransaction \cup {"find", "key"},
         Goto(s, label), UNCHANGED seen, UNCHANGED bankVars,
         label \in InTransaction =>
           \A o \in Sessions : o # s => ~HoldsKey(o, request[s].user, request[s].key),
         label \in {"key", "recheck"} => DOMAIN seen[s] = {},
         label = "lock" => DOMAIN seen[s] = {} /\ Wanted(s) # {},
         label \in {"check", "sca", "post"} =>
           DOMAIN seen[s] = {request[s].source, request[s].destination},
         label \in {"lock", "check", "sca", "post"} =>
           Existing(request[s].user, request[s].key) = {},
         label \in {"sca", "post"} => Permitted(s),
         label = "sca" => ~OperatorOverride(request[s]) /\ Required(request[s].amount),
         label = "post" /\ ~OperatorOverride(request[s]) /\ Required(request[s].amount) =>
           ChallengeAccepted(request[s]),
         label = "post" /\ UsesChallenge(request[s]) # None =>
           \A o \in Sessions : ~HoldsChallenge(o, UsesChallenge(request[s]))
  PROVE  IInv'
  <1> USE DEF IInv
  <1>0. /\ pc'[s] = label
        /\ \A o \in Sessions : o # s => pc'[o] = pc[o]
        /\ request' = request
        /\ seen' = seen
    BY DEF Goto, TypeOK, SessionsTyped
  <1>1. UNCHANGED <<status, balance, kyc, transactions, entries, outbox, challenges>>
    BY DEF bankVars
  <1>2. TypeOK'
    BY <1>1, GotoTyped DEF TypeOK, TablesTyped
  <1>3. LockedRowsFresh'
    BY <1>0, <1>1 DEF LockedRowsFresh
  <1>4. LocksFollowLabels'
    <2>1. \A o \in Sessions : Wanted(o)' = Wanted(o)
      BY <1>0 DEF Wanted
    <2>2. QED  BY <1>0, <2>1 DEF LocksFollowLabels, InTransaction
  <1>5. LocksExclusive'
    <2>1. \A o \in Sessions : UsesChallenge(request[o])' = UsesChallenge(request[o])
      BY <1>0 DEF UsesChallenge, Required, OperatorOverride
    <2>2. QED  BY <1>0, <2>1 DEF LocksExclusive, InTransaction, HoldsKey, HoldsChallenge
  <1>6. KeyUnused'
    BY <1>0, <1>1 DEF KeyUnused, Existing
  <1>7. ChecksHold'
    BY <1>0, <1>1 DEF ChecksHold, Permitted, OperatorOverride, Required
  <1>8. ChallengeHeld'
    BY <1>0, <1>1 DEF ChallengeHeld, ChallengeAccepted, OperatorOverride, Required, Bound
  <1>9. RequestsFromRoutes'
    BY <1>0, <1>1 DEF RequestsFromRoutes
  <1>10. OpeningsValid'
    BY <1>0, <1>1 DEF OpeningsValid, InTransaction
  <1>11. ChallengesOwned'
    BY <1>0, <1>1 DEF ChallengesOwned, InTransaction
  <1>12. NoOverdraft' /\ OnePostingPerKey' /\ RowsNormal'
    BY <1>1 DEF NoOverdraft, OnePostingPerKey, RowsNormal
  <1>13. QED
    BY <1>2, <1>3, <1>4, <1>5, <1>6, <1>7, <1>8, <1>9, <1>10, <1>11, <1>12

\* So does one that takes a new request of its route.
LEMMA BeginKeeps ==
  ASSUME IInv, NEW s \in Sessions, NEW label \in {"find", "open", "issue"}, NEW r,
         Begin(s, label, r), Serves(label, r),
         label = "find" =>
           /\ r.type = "REVERSAL" =>
                r.user \in Admins /\ r.challenge = None /\ r.reverses \in DOMAIN transactions
           /\ r.type = "DEMO_DEPOSIT" =>
                /\ r.user \in Admins
                /\ Owner[r.source] = None
                /\ r.challenge = None
                /\ r.reverses = 0
           /\ r.type = "TRANSFER" => r.reverses = 0,
         label = "open" =>
           /\ status[r.account] = "ABSENT"
           /\ Owner[r.account] = r.user
           /\ kyc[r.user] = "KYC_VERIFIED"
           /\ \A o \in Sessions : pc[o] = "open" => request[o].account # r.account,
         label = "issue" => Owner[r.source] = r.user
  PROVE  IInv'
  <1> USE DEF IInv
  <1>0. /\ pc[s] = "idle"
        /\ pc'[s] = label
        /\ request'[s] = r
        /\ \A o \in Sessions : o # s => pc'[o] = pc[o] /\ request'[o] = request[o]
        /\ seen' = seen
    BY DEF Begin, TypeOK, SessionsTyped
  <1>1. UNCHANGED <<status, balance, kyc, transactions, entries, outbox, challenges>>
    BY DEF Begin, bankVars
  <1>2. TypeOK'
    BY <1>1, BeginTyped DEF TypeOK, TablesTyped, Labels
  <1>3. LockedRowsFresh'
    BY <1>0, <1>1 DEF LockedRowsFresh
  <1>4. LocksFollowLabels'
    BY <1>0, <1>1 DEF LocksFollowLabels, Wanted
  <1>5. LocksExclusive'
    BY <1>0, <1>1 DEF LocksExclusive, InTransaction, UsesChallenge, Required, OperatorOverride
  <1>6. KeyUnused'
    BY <1>0, <1>1 DEF KeyUnused, Existing
  <1>7. ChecksHold'
    BY <1>0, <1>1 DEF ChecksHold, Permitted
  <1>8. ChallengeHeld'
    BY <1>0, <1>1 DEF ChallengeHeld
  <1>9. RequestsFromRoutes'
    BY <1>0, <1>1 DEF RequestsFromRoutes, InTransaction
  <1>10. OpeningsValid'
    BY <1>0, <1>1 DEF OpeningsValid
  <1>11. ChallengesOwned'
    BY <1>0, <1>1 DEF ChallengesOwned
  <1>12. NoOverdraft' /\ OnePostingPerKey' /\ RowsNormal'
    BY <1>1 DEF NoOverdraft, OnePostingPerKey, RowsNormal
  <1>13. QED
    BY <1>2, <1>3, <1>4, <1>5, <1>6, <1>7, <1>8, <1>9, <1>10, <1>11, <1>12

-----------------------------------------------------------------------------
(* create_transfer up to its commit *)

\* Inside a request the session has a normalised command between two accounts.
LEMMA ServedCommand ==
  ASSUME IInv, NEW s \in Sessions, pc[s] \in InTransaction \cup {"find", "key"}
  PROVE  /\ request[s] \in Command
         /\ Normalised(request[s])
         /\ request[s].source \in Accounts
         /\ request[s].destination \in Accounts
         /\ request[s].source # request[s].destination
         /\ request[s].amount \in Nat \ {0}
  BY DEF IInv, TypeOK, SessionsTyped, Serves, Normalised, Command

\* A transaction found by its idempotency key is a row's number.
LEMMA ExistingTyped ==
  ASSUME IInv, NEW u, NEW k, NEW t \in Existing(u, k)
  PROVE  t \in Nat
  BY DEF IInv, TypeOK, TablesTyped, Existing

\* The look-up by key before the lock, and the one under it.
LEMMA LookupKeeps ==
  ASSUME IInv, NEW s \in Sessions, Find(s) \/ Recheck(s)
  PROVE  IInv'
  <1> DEFINE found == Existing(request[s].user, request[s].key)
  <1>1. UNCHANGED bankVars
    BY DEF Find, Recheck
  <1>2. CASE found # {}
    <2>1. PICK t \in found : Finish(s, t)
      BY <1>2 DEF Find, Recheck
    <2>2. QED  BY <1>1, <2>1, ExistingTyped, FinishKeeps
  <1>3. CASE found = {} /\ Find(s)
    <2>1. pc[s] = "find" /\ Goto(s, "key") /\ UNCHANGED seen
      BY <1>3 DEF Find
    <2>2. DOMAIN seen[s] = {}
      BY <2>1 DEF IInv, LocksFollowLabels
    <2>3. QED  BY <1>1, <2>1, <2>2, GotoKeeps DEF InTransaction
  <1>4. CASE found = {} /\ Recheck(s)
    <2>1. pc[s] = "recheck" /\ Goto(s, "lock") /\ UNCHANGED seen
      BY <1>4 DEF Recheck
    <2>2. DOMAIN seen[s] = {} /\ Wanted(s) # {}
      BY <2>1 DEF IInv, LocksFollowLabels, Wanted
    <2>3. \A o \in Sessions : o # s => ~HoldsKey(o, request[s].user, request[s].key)
      BY <2>1 DEF IInv, LocksExclusive, HoldsKey, InTransaction
    <2>4. QED  BY <1>1, <1>4, <2>1, <2>2, <2>3, GotoKeeps DEF InTransaction
  <1>5. QED  BY <1>2, <1>3, <1>4

\* pg_advisory_xact_lock on the key: nobody else has it.
LEMMA AcquireKeyKeeps ==
  ASSUME IInv, NEW s \in Sessions, AcquireKey(s)
  PROVE  IInv'
  <1>1. /\ pc[s] = "key"
        /\ \A o \in Sessions : ~HoldsKey(o, request[s].user, request[s].key)
        /\ Goto(s, "recheck") /\ UNCHANGED seen /\ UNCHANGED bankVars
    BY DEF AcquireKey
  <1>2. DOMAIN seen[s] = {}
    BY <1>1 DEF IInv, LocksFollowLabels
  <1>3. QED  BY <1>1, <1>2, GotoKeeps DEF InTransaction

\* The ordered locking query picks one of the two accounts still to lock.
LEMMA NextAccountWanted ==
  ASSUME IInv, NEW s \in Sessions, pc[s] = "lock"
  PROVE  /\ NextAccount(s) \in Wanted(s)
         /\ \A b \in Wanted(s) : Order[NextAccount(s)] <= Order[b]
         /\ Wanted(s) \subseteq Accounts
  <1>1. Wanted(s) # {} /\ Wanted(s) \subseteq {request[s].source, request[s].destination}
    BY DEF IInv, LocksFollowLabels, Wanted
  <1>2. request[s].source \in Accounts /\ request[s].destination \in Accounts
    BY ServedCommand DEF InTransaction
  <1>3. \E a \in Wanted(s) : \A b \in Wanted(s) : Order[a] <= Order[b]
    BY <1>1, <1>2, ConstantsAssumption
  <1>4. QED  BY <1>1, <1>2, <1>3 DEF NextAccount

\* SELECT ... FOR UPDATE reads the row that it locks.
LEMMA LockAccountKeeps ==
  ASSUME IInv, NEW s \in Sessions, LockAccount(s)
  PROVE  IInv'
  <1> USE DEF IInv
  <1> DEFINE a == NextAccount(s)
             c == request[s]
  <1>0. /\ pc[s] = "lock"
        /\ a \in Wanted(s)
        /\ a \in Accounts
        /\ status[a] # "ABSENT"
        /\ \A o \in Sessions : a \notin DOMAIN seen[o]
    BY NextAccountWanted DEF LockAccount, AccountFree, HoldsAccount
  <1>1. UNCHANGED <<status, balance, kyc, transactions, entries, outbox, challenges>>
    BY DEF LockAccount, bankVars
  <1>2. /\ pc'[s] \in {"lock", "check"}
        /\ pc'[s] = "check" <=> Wanted(s) = {a}
        /\ request' = request
        /\ reply' = reply
        /\ pc' \in [Sessions -> Labels]
        /\ \A o \in Sessions : o # s => pc'[o] = pc[o] /\ seen'[o] = seen[o]
        /\ DOMAIN seen' = Sessions
    BY <1>0 DEF LockAccount, Goto, TypeOK, SessionsTyped, Labels, InTransaction
  <1>3. /\ DOMAIN seen'[s] = DOMAIN seen[s] \cup {a}
        /\ seen'[s][a] = [status |-> status[a], balance |-> balance[a]]
        /\ \A b \in DOMAIN seen[s] : b # a => seen'[s][b] = seen[s][b]
    BY <1>0 DEF LockAccount, TypeOK, SessionsTyped
  <1>4. TypeOK'
    <2>1. TablesTyped'
      BY <1>1 DEF TypeOK, TablesTyped
    <2>2. \A o \in Sessions : Serves(pc'[o], request'[o])
      BY <1>0, <1>2 DEF TypeOK, SessionsTyped, Serves, InTransaction
    <2>3. \A o \in Sessions : /\ DOMAIN seen'[o] \subseteq Accounts
                              /\ \A b \in DOMAIN seen'[o] : seen'[o][b] \in AccountRow
      <3>1. [status |-> status[a], balance |-> balance[a]] \in AccountRow
        BY <1>0 DEF TypeOK, TablesTyped, AccountRow
      <3>2. QED  BY <1>0, <1>2, <1>3, <3>1 DEF TypeOK, SessionsTyped
    <2>4. QED  BY <1>2, <2>1, <2>2, <2>3 DEF TypeOK, SessionsTyped, Serves, Normalised
  <1>5. LockedRowsFresh'
    <2>1. \A o \in Sessions : \A b \in DOMAIN seen'[o] :
            /\ seen'[o][b] = [status |-> status[b], balance |-> balance[b]]
            /\ status[b] # "ABSENT"
      <3> SUFFICES ASSUME NEW o \in Sessions, NEW b \in DOMAIN seen'[o]
                   PROVE  /\ seen'[o][b] = [status |-> status[b], balance |-> balance[b]]
                          /\ status[b] # "ABSENT"
        OBVIOUS
      <3>1. CASE o = s /\ b = a
        BY <1>0, <1>3, <3>1
      <3>2. CASE ~(o = s /\ b = a)
        <4>1. b \in DOMAIN seen[o] /\ seen'[o][b] = seen[o][b]
          BY <1>2, <1>3, <3>2
        <4>2. QED  BY <4>1 DEF LockedRowsFresh
      <3>3. QED  BY <3>1, <3>2
    <2>2. QED  BY <1>1, <2>1 DEF LockedRowsFresh
  <1>6. LocksFollowLabels'
    <2>1. \A o \in Sessions : o # s => Wanted(o)' = Wanted(o)
      BY <1>2 DEF Wanted
    <2>2. Wanted(s)' = Wanted(s) \ {a}
      BY <1>2, <1>3 DEF Wanted
    <2>3. /\ DOMAIN seen'[s] \subseteq {c.source, c.destination}
          /\ Wanted(s) = {a} => DOMAIN seen'[s] = {c.source, c.destination}
      BY <1>0, <1>3 DEF LocksFollowLabels, Wanted
    <2>4. QED  BY <1>0, <1>2, <2>1, <2>2, <2>3 DEF LocksFollowLabels
  <1>7. LocksExclusive'
    <2>1. \A o \in Sessions : pc'[o] \in InTransaction <=> pc[o] \in InTransaction
      BY <1>0, <1>2 DEF InTransaction
    <2>2. \A o \in Sessions : UsesChallenge(request[o])' = UsesChallenge(request[o])
      BY <1>2 DEF UsesChallenge, Required, OperatorOverride
    <2>3. \A o \in Sessions : pc'[o] = "post" <=> pc[o] = "post"
      BY <1>0, <1>2
    <2>4. \A o, q \in Sessions : o # q => \A b \in DOMAIN seen'[o] : b \notin DOMAIN seen'[q]
      BY <1>0, <1>2, <1>3 DEF LocksExclusive
    <2>5. QED  BY <1>2, <2>1, <2>2, <2>3, <2>4 DEF LocksExclusive
  <1>8. KeyUnused'
    BY <1>0, <1>1, <1>2 DEF KeyUnused, Existing
  <1>9. ChecksHold'
    BY <1>0, <1>1, <1>2 DEF ChecksHold, Permitted, OperatorOverride, Required
  <1>10. ChallengeHeld'
    BY <1>0, <1>1, <1>2 DEF ChallengeHeld, OperatorOverride, Required, Bound
  <1>11. RequestsFromRoutes'
    BY <1>0, <1>1, <1>2 DEF RequestsFromRoutes, InTransaction
  <1>12. OpeningsValid' /\ ChallengesOwned'
    BY <1>0, <1>1, <1>2 DEF OpeningsValid, ChallengesOwned
  <1>13. NoOverdraft' /\ OnePostingPerKey' /\ RowsNormal'
    BY <1>1 DEF NoOverdraft, OnePostingPerKey, RowsNormal
  <1>14. QED
    BY <1>4, <1>5, <1>6, <1>7, <1>8, <1>9, <1>10, <1>11, <1>12, <1>13

\* The checks read the rows that this session has locked.
LEMMA CheckKeeps ==
  ASSUME IInv, NEW s \in Sessions, Check(s)
  PROVE  IInv'
  <1>1. pc[s] = "check" /\ UNCHANGED bankVars
    BY DEF Check, Fail
  <1>2. CASE ~Permitted(s)
    BY <1>1, <1>2, FinishKeeps DEF Check, Fail
  <1>3. CASE Permitted(s)
    <2> DEFINE needed == ~OperatorOverride(request[s]) /\ Required(request[s].amount)
    <2>1. /\ DOMAIN seen[s] = {request[s].source, request[s].destination}
          /\ Existing(request[s].user, request[s].key) = {}
          /\ \A o \in Sessions : o # s => ~HoldsKey(o, request[s].user, request[s].key)
      BY <1>1 DEF IInv, LocksFollowLabels, KeyUnused, LocksExclusive, HoldsKey, InTransaction
    <2>2. CASE needed
      <3>1. Goto(s, "sca") /\ UNCHANGED seen
        BY <1>3, <2>2 DEF Check
      <3>2. QED  BY <1>1, <1>3, <2>1, <2>2, <3>1, GotoKeeps DEF InTransaction
    <2>3. CASE ~needed
      <3>1. Goto(s, "post") /\ UNCHANGED seen
        BY <1>3, <2>3 DEF Check
      <3>2. UsesChallenge(request[s]) = None
        BY <2>3 DEF UsesChallenge
      <3>3. QED  BY <1>1, <1>3, <2>1, <2>3, <3>1, <3>2, GotoKeeps DEF InTransaction
    <2>4. QED  BY <2>2, <2>3
  <1>4. QED  BY <1>2, <1>3

\* The UPDATE that consumes a challenge accepts it and locks it, or fails.
LEMMA ConsumeChallengeKeeps ==
  ASSUME IInv, NEW s \in Sessions, ConsumeChallenge(s)
  PROVE  IInv'
  <1>1. pc[s] = "sca" /\ UNCHANGED bankVars
    BY DEF ConsumeChallenge, Fail
  <1>2. CASE ~ChallengeAccepted(request[s])
    BY <1>1, <1>2, FinishKeeps DEF ConsumeChallenge, Fail
  <1>3. CASE ChallengeAccepted(request[s])
    <2>1. /\ DOMAIN seen[s] = {request[s].source, request[s].destination}
          /\ Existing(request[s].user, request[s].key) = {}
          /\ \A o \in Sessions : o # s => ~HoldsKey(o, request[s].user, request[s].key)
          /\ Permitted(s)
          /\ UsesChallenge(request[s]) = request[s].challenge
      BY <1>1 DEF IInv, LocksFollowLabels, KeyUnused, LocksExclusive, HoldsKey, InTransaction,
                  ChecksHold, UsesChallenge
    <2>2. Goto(s, "post") /\ UNCHANGED seen
      BY <1>3 DEF ConsumeChallenge
    <2>3. UsesChallenge(request[s]) # None =>
            \A o \in Sessions : ~HoldsChallenge(o, UsesChallenge(request[s]))
      BY <2>1 DEF ConsumeChallenge
    <2>4. QED  BY <1>1, <1>3, <2>1, <2>2, <2>3, GotoKeeps DEF InTransaction
  <1>4. QED  BY <1>2, <1>3

\* A request that fails releases its locks and changes no row.
LEMMA FailKeeps ==
  ASSUME IInv, NEW s \in Sessions, Fail(s)
  PROVE  IInv'
  BY FinishKeeps DEF Fail

-----------------------------------------------------------------------------
(* The commit *)

\* What the transactions table looks like after a commit.
LEMMA TransactionsAfterCommit ==
  ASSUME IInv, NEW s \in Sessions, pc[s] = "post", Commit(s)
  PROVE  LET c == request[s]
             n == Len(transactions)
         IN  /\ n \in Nat
             /\ DOMAIN transactions = 1..n
             /\ transactions' \in Seq(Transaction)
             /\ DOMAIN transactions' = 1..(n + 1)
             /\ transactions'[n + 1] = PostedRow(c)
             /\ \A i \in 1..n :
                  transactions'[i] =
                    IF i = c.reverses THEN [transactions[i] EXCEPT !.status = "REVERSED"]
                    ELSE transactions[i]
  <1> DEFINE c == request[s]
             n == Len(transactions)
             marked == MarkReversed(transactions, c.reverses)
  <1>1. c \in Command /\ Normalised(c)
    BY ServedCommand DEF InTransaction
  <1>2. n \in Nat /\ DOMAIN transactions = 1..n
        /\ \A i \in 1..n : transactions[i] \in Transaction
    BY DEF IInv, TypeOK, TablesTyped
  <1>3. PostedRow(c) \in Transaction
    <2>1. UsesChallenge(c) \in Challenges \cup {None}
      BY <1>1 DEF UsesChallenge, Command
    <2>2. QED  BY <1>1, <2>1 DEF PostedRow, Transaction, Command
  <1>4. marked \in Seq(Transaction) /\ Len(marked) = n
    <2>1. \A i \in 1..n : [transactions[i] EXCEPT !.status = "REVERSED"] \in Transaction
      BY <1>2 DEF Transaction
    <2>2. marked \in [1..n -> Transaction]
      BY <1>2, <2>1 DEF MarkReversed
    <2>3. marked \in Seq(Transaction)
      BY <1>2, <2>2, SeqDef
    <2>4. QED  BY <1>2, <2>2, <2>3
  <1>5. \A i \in 1..n :
          marked[i] = IF i = c.reverses THEN [transactions[i] EXCEPT !.status = "REVERSED"]
                      ELSE transactions[i]
    BY <1>2 DEF MarkReversed
  <1>6. transactions' = Append(marked, PostedRow(c))
    BY DEF Commit
  <1>7. QED  BY <1>2, <1>3, <1>4, <1>5, <1>6

\* The rows a commit writes have their types.
LEMMA CommitTyped ==
  ASSUME IInv, NEW s \in Sessions, pc[s] = "post", Commit(s)
  PROVE  TypeOK'
  <1> DEFINE c == request[s]
             t == Len(transactions) + 1
             h == UsesChallenge(c)
  <1> USE DEF IInv, TypeOK
  <1>1. c \in Command /\ Normalised(c)
    BY ServedCommand DEF InTransaction
  <1>2. balance' \in [Accounts -> Int]
    <2>1. c.source \in Accounts /\ c.destination \in Accounts /\ c.amount \in Int
      BY <1>1 DEF Command
    <2>2. QED  BY <2>1 DEF Commit, Moved, TablesTyped
  <1>3. transactions' \in Seq(Transaction)
    BY TransactionsAfterCommit
  <1>4. entries' \in Seq(Entry)
    <2>1. Postings(c, t) \in Seq(Entry)
      BY <1>1 DEF Postings, Entry, Command, TablesTyped
    <2>2. QED  BY <2>1 DEF Commit, TablesTyped
  <1>5. challenges' \in [Challenges -> ChallengeRow \cup {NoChallenge}]
    <2>1. ASSUME NEW x \in Challenges, x = h
          PROVE  [challenges[x] EXCEPT !.status = "CONSUMED"] \in ChallengeRow
      <3>1. challenges[x].status = "PENDING"
        BY <2>1, ConstantsAssumption DEF ChallengeHeld, UsesChallenge
      <3>2. challenges[x] \in ChallengeRow
        BY <3>1 DEF TablesTyped, NoChallenge
      <3>3. QED  BY <3>2 DEF ChallengeRow
    <2>2. QED  BY <2>1 DEF Commit, TablesTyped
  <1>6. TablesTyped'
    BY <1>2, <1>3, <1>4, <1>5 DEF TablesTyped, Commit
  <1>7. SessionsTyped'
    <2>1. t \in Nat /\ Finish(s, t)
      BY DEF Commit, TablesTyped
    <2>2. QED  BY <2>1, FinishTyped
  <1>8. QED  BY <1>6, <1>7

\* Posting on checked rows keeps the invariant: the other sessions hold other
\* accounts, other keys and other challenges.
LEMMA CommitKeeps ==
  ASSUME IInv, NEW s \in Sessions, pc[s] = "post", SufficientFunds(s), Commit(s)
  PROVE  IInv'
  <1> USE DEF IInv
  <1> DEFINE c == request[s]
             n == Len(transactions)
  <1>0. /\ c.source \in Accounts
        /\ c.destination \in Accounts
        /\ c.source # c.destination
        /\ c.amount \in Nat
    BY ServedCommand DEF InTransaction
  <1>1. /\ pc'[s] = "idle"
        /\ seen'[s] = NothingRead
        /\ \A o \in Sessions : o # s =>
             pc'[o] = pc[o] /\ request'[o] = request[o] /\ seen'[o] = seen[o]
        /\ UNCHANGED <<status, kyc>>
    BY DEF Commit, Finish, TypeOK, SessionsTyped
  <1>2. /\ balance'[c.source] = balance[c.source] - c.amount
        /\ balance'[c.destination] = balance[c.destination] + c.amount
        /\ \A a \in Accounts : a \notin {c.source, c.destination} => balance'[a] = balance[a]
        /\ \A a \in Accounts : balance[a] \in Int
    BY <1>0 DEF Commit, Moved, TypeOK, TablesTyped
  <1>3. /\ n \in Nat
        /\ DOMAIN transactions = 1..n
        /\ DOMAIN transactions' = 1..(n + 1)
        /\ transactions'[n + 1].user = c.user
        /\ transactions'[n + 1].key = c.key
        /\ \A i \in 1..n : /\ transactions'[i].user = transactions[i].user
                           /\ transactions'[i].key = transactions[i].key
    <2>1. PostedRow(c).user = c.user /\ PostedRow(c).key = c.key
      BY DEF PostedRow
    <2>2. \A i \in 1..Len(transactions) : transactions[i] \in Transaction
      BY DEF TypeOK, TablesTyped
    <2>3. QED  BY <2>1, <2>2, TransactionsAfterCommit DEF Transaction
  <1>4. /\ DOMAIN seen[s] = {c.source, c.destination}
        /\ \A a \in {c.source, c.destination} :
             /\ seen[s][a] = [status |-> status[a], balance |-> balance[a]]
             /\ status[a] # "ABSENT"
        /\ \A o \in Sessions : o # s =>
             c.source \notin DOMAIN seen[o] /\ c.destination \notin DOMAIN seen[o]
    BY DEF LocksFollowLabels, LockedRowsFresh, LocksExclusive
  <1>5. TypeOK'
    BY CommitTyped
  <1>6. LockedRowsFresh'
    <2> SUFFICES ASSUME NEW o \in Sessions, NEW a \in DOMAIN seen'[o]
                 PROVE  (/\ seen[o][a] = [status |-> status[a], balance |-> balance[a]]
                         /\ status[a] # "ABSENT")'
      BY DEF LockedRowsFresh
    <2>1. o # s /\ a \in DOMAIN seen[o]
      BY <1>1 DEF NothingRead
    <2>2. a \in Accounts
      BY <2>1 DEF TypeOK, SessionsTyped
    <2>3. balance'[a] = balance[a]
      BY <1>2, <1>4, <2>1, <2>2
    <2>4. QED  BY <1>1, <2>1, <2>3 DEF LockedRowsFresh
  <1>7. LocksFollowLabels'
    BY <1>1 DEF LocksFollowLabels, NothingRead, Wanted
  <1>8. LocksExclusive'
    BY <1>1 DEF LocksExclusive, NothingRead, InTransaction, UsesChallenge, Required, OperatorOverride
  <1>9. KeyUnused'
    <2> SUFFICES ASSUME NEW o \in Sessions, pc'[o] \in {"lock", "check", "sca", "post"}
                 PROVE  Existing(request[o].user, request[o].key)' = {}
      BY DEF KeyUnused
    <2>1. o # s /\ pc[o] \in {"lock", "check", "sca", "post"} /\ request'[o] = request[o]
      BY <1>1
    <2>2. Existing(request[o].user, request[o].key) = {}
      BY <2>1 DEF KeyUnused
    <2>3. ~(request[o].user = c.user /\ request[o].key = c.key)
      BY <2>1 DEF LocksExclusive, InTransaction
    <2>4. QED  BY <1>3, <2>1, <2>2, <2>3 DEF Existing
  <1>10. ChecksHold'
    BY <1>1 DEF ChecksHold, Permitted
  <1>11. ChallengeHeld'
    <2> SUFFICES ASSUME NEW o \in Sessions, pc'[o] = "post",
                        ~OperatorOverride(request'[o]), Required(request'[o].amount)
                 PROVE  /\ request'[o].challenge # None
                        /\ challenges'[request'[o].challenge].status = "PENDING"
                        /\ Bound(challenges'[request'[o].challenge], request'[o])
      BY DEF ChallengeHeld, OperatorOverride, Required, Bound
    <2>1. o # s /\ pc[o] = "post" /\ request'[o] = request[o]
      BY <1>1
    <2>2. /\ request[o].challenge # None
          /\ challenges[request[o].challenge].status = "PENDING"
          /\ Bound(challenges[request[o].challenge], request[o])
          /\ UsesChallenge(request[o]) = request[o].challenge
      BY <2>1 DEF ChallengeHeld, UsesChallenge
    <2>3. request[o].challenge # UsesChallenge(c)
      BY <2>1, <2>2 DEF LocksExclusive
    <2>4. request[o].challenge \in Challenges
      BY <2>1, <2>2, ServedCommand DEF InTransaction, Command
    <2>5. challenges'[request[o].challenge] = challenges[request[o].challenge]
      BY <2>3, <2>4 DEF Commit
    <2>6. QED  BY <2>1, <2>2, <2>5
  <1>12. RequestsFromRoutes'
    BY <1>1, <1>3 DEF RequestsFromRoutes, InTransaction
  <1>13. OpeningsValid'
    BY <1>1, <1>2, <1>4 DEF OpeningsValid
  <1>14. ChallengesOwned'
    <2>1. \A x \in Challenges : challenges'[x] # NoChallenge =>
            /\ challenges[x] # NoChallenge
            /\ challenges'[x].source = challenges[x].source
            /\ challenges'[x].user = challenges[x].user
      <3> SUFFICES ASSUME NEW x \in Challenges, challenges'[x] # NoChallenge
                   PROVE  /\ challenges[x] # NoChallenge
                          /\ challenges'[x].source = challenges[x].source
                          /\ challenges'[x].user = challenges[x].user
        OBVIOUS
      <3>1. CASE x # UsesChallenge(c)
        BY <3>1 DEF Commit
      <3>2. CASE x = UsesChallenge(c)
        <4>1. challenges[x].status = "PENDING"
          BY <3>2, ConstantsAssumption DEF ChallengeHeld, UsesChallenge
        <4>2. challenges[x] \in ChallengeRow /\ challenges[x] # NoChallenge
          BY <4>1 DEF TypeOK, TablesTyped, NoChallenge
        <4>3. challenges'[x] = [challenges[x] EXCEPT !.status = "CONSUMED"]
          BY <3>2 DEF Commit
        <4>4. QED  BY <4>2, <4>3 DEF ChallengeRow
      <3>3. QED  BY <3>1, <3>2
    <2>2. QED  BY <1>1, <2>1 DEF ChallengesOwned
  <1>15. NoOverdraft'
    <2>1. Owner[c.source] # None => balance[c.source] >= c.amount
      BY <1>4 DEF SufficientFunds, AllowNegative
    <2>2. QED  BY <1>0, <1>2, <2>1 DEF NoOverdraft
  <1>16. OnePostingPerKey'
    <2>1. \A i \in 1..n : ~(transactions[i].user = c.user /\ transactions[i].key = c.key)
      BY <1>3 DEF KeyUnused, Existing
    <2>2. QED  BY <1>3, <2>1 DEF OnePostingPerKey
  <1>17. RowsNormal'
    <2>1. PostedRow(c).amount > 0 /\ PostedRow(c).source # PostedRow(c).destination
      BY <1>0, ServedCommand DEF PostedRow, InTransaction
    <2>2. \A i \in 1..n : transactions[i] \in Transaction
      BY DEF TypeOK, TablesTyped
    <2>3. ASSUME NEW i \in 1..n
          PROVE  /\ transactions'[i].amount = transactions[i].amount
                 /\ transactions'[i].source = transactions[i].source
                 /\ transactions'[i].destination = transactions[i].destination
      <3>1. transactions'[i] = IF i = c.reverses
                               THEN [transactions[i] EXCEPT !.status = "REVERSED"]
                               ELSE transactions[i]
        BY TransactionsAfterCommit
      <3>2. transactions[i] \in Transaction
        BY <2>2
      <3>3. QED  BY <3>1, <3>2 DEF Transaction
    <2>4. transactions'[n + 1] = PostedRow(c)
      BY TransactionsAfterCommit
    <2>5. QED  BY <1>3, <2>1, <2>3, <2>4 DEF RowsNormal
  <1>18. QED
    BY <1>5, <1>6, <1>7, <1>8, <1>9, <1>10, <1>11, <1>12, <1>13, <1>14, <1>15, <1>16, <1>17

\* Posting commits, or fails.
LEMMA PostKeeps ==
  ASSUME IInv, NEW s \in Sessions, Post(s)
  PROVE  IInv'
  BY CommitKeeps, FailKeeps DEF Post

-----------------------------------------------------------------------------
(* Clients, challenges, customers and operators *)

\* A client asks for a posting, a reversal, a challenge or an account.
LEMMA ClientKeeps ==
  ASSUME IInv, NEW s \in Sessions, Client(s)
  PROVE  IInv'
  <1> USE DEF IInv
  <1>1. ASSUME NEW c \in Commands, Submit(s, c)
        PROVE  IInv'
    <2>1. /\ c \in Command
          /\ c.reverses = 0
          /\ \/ c.type = "TRANSFER"
             \/ /\ c.type = "DEMO_DEPOSIT"
                /\ c.user \in Admins
                /\ Owner[c.source] = None
                /\ c.challenge = None
      BY CommandsAssumption
    <2>2. Begin(s, "find", c) /\ Serves("find", c)
      BY <1>1, <2>1 DEF Submit, Serves
    <2>3. QED  BY <2>1, <2>2, BeginKeeps
  <1>2. ASSUME NEW u \in Admins, NEW k \in ReversalKeys, NEW t \in DOMAIN transactions,
               SubmitReversal(s, u, k, t)
        PROVE  IInv'
    <2> DEFINE r == [type        |-> "REVERSAL",
                     user        |-> u,
                     key         |-> k,
                     source      |-> transactions[t].destination,
                     destination |-> transactions[t].source,
                     amount      |-> transactions[t].amount,
                     challenge   |-> None,
                     rightCode   |-> FALSE,
                     reverses    |-> t]
    <2>1. transactions[t] \in Transaction /\ t \in Nat
      BY DEF TypeOK, TablesTyped
    <2>2. transactions[t].amount > 0 /\ transactions[t].source # transactions[t].destination
      BY DEF RowsNormal
    <2>3. r \in Command /\ Normalised(r)
      BY <2>1, <2>2, CommandsAssumption
         DEF Command, Transaction, Normalised, OperatorOverride, Users
    <2>4. Begin(s, "find", r)
      BY <1>2 DEF SubmitReversal
    <2>5. QED  BY <2>3, <2>4, BeginKeeps DEF Serves
  <1>3. ASSUME NEW r \in ChallengeRequests, RequestChallenge(s, r)
        PROVE  IInv'
    <2>1. /\ Begin(s, "issue", r) /\ Serves("issue", r)
          /\ Owner[r.source] = r.user
      BY <1>3, CommandsAssumption DEF RequestChallenge, Serves, InTransaction
    <2>2. QED  BY <2>1, BeginKeeps
  <1>4. ASSUME NEW a \in Accounts, RequestAccount(s, a)
        PROVE  IInv'
    <2> DEFINE r == [type |-> "OPEN", user |-> Owner[a], account |-> a]
    <2>1. Owner[a] \in Customers
      BY <1>4, ConstantsAssumption DEF RequestAccount
    <2>2. Begin(s, "open", r) /\ status[a] = "ABSENT" /\ kyc[Owner[a]] = "KYC_VERIFIED"
      BY <1>4 DEF RequestAccount
    <2>3. Serves("open", r)
      BY <2>1 DEF Serves, OpenRequest, InTransaction
    <2>4. \A o \in Sessions : pc[o] = "open" => request[o].account # a
      <3> SUFFICES ASSUME NEW o \in Sessions, pc[o] = "open", request[o].account = a
                   PROVE  FALSE
        OBVIOUS
      <3>1. request[o] \in OpenRequest /\ Owner[a] = request[o].user
        BY DEF TypeOK, SessionsTyped, Serves, OpeningsValid
      <3>2. request[o] = r
        BY <3>1 DEF OpenRequest
      <3>3. QED  BY <1>4, <3>2 DEF RequestAccount
    <2>5. QED  BY <2>2, <2>3, <2>4, BeginKeeps
  <1>5. QED  BY <1>1, <1>2, <1>3, <1>4 DEF Client

\* A challenge is stored for a payment that it is bound to.
LEMMA IssueChallengeKeeps ==
  ASSUME IInv, NEW s \in Sessions, NEW h \in Challenges, IssueChallenge(s, h)
  PROVE  IInv'
  <1> USE DEF IInv
  <1> DEFINE r == request[s]
  <1>0. r \in ChallengeRequest /\ pc[s] = "issue" /\ Owner[r.source] = r.user
    BY DEF IssueChallenge, TypeOK, SessionsTyped, Serves, ChallengesOwned
  <1>1. /\ pc'[s] = "idle"
        /\ seen'[s] = NothingRead
        /\ \A o \in Sessions : o # s =>
             pc'[o] = pc[o] /\ request'[o] = request[o] /\ seen'[o] = seen[o]
        /\ UNCHANGED <<status, balance, kyc, transactions, entries, outbox>>
    BY DEF IssueChallenge, Finish, TypeOK, SessionsTyped
  <1>2. /\ challenges[h] = NoChallenge
        /\ challenges'[h] \in ChallengeRow
        /\ challenges'[h].source = r.source
        /\ challenges'[h].user = r.user
        /\ \A x \in Challenges : x # h => challenges'[x] = challenges[x]
        /\ challenges' \in [Challenges -> ChallengeRow \cup {NoChallenge}]
    BY <1>0 DEF IssueChallenge, TypeOK, TablesTyped, ChallengeRow, ChallengeRequest
  <1>3. TypeOK'
    <2>1. SessionsTyped'
      BY FinishTyped DEF IssueChallenge, TypeOK
    <2>2. QED  BY <1>1, <1>2, <2>1 DEF TypeOK, TablesTyped
  <1>4. LockedRowsFresh'
    BY <1>1 DEF LockedRowsFresh, NothingRead
  <1>5. LocksFollowLabels'
    BY <1>1 DEF LocksFollowLabels, NothingRead, Wanted
  <1>6. LocksExclusive'
    BY <1>1 DEF LocksExclusive, NothingRead, InTransaction, UsesChallenge, Required, OperatorOverride
  <1>7. KeyUnused'
    BY <1>1 DEF KeyUnused, Existing
  <1>8. ChecksHold'
    BY <1>1 DEF ChecksHold, Permitted
  <1>9. ChallengeHeld'
    <2> SUFFICES ASSUME NEW o \in Sessions, pc'[o] = "post",
                        ~OperatorOverride(request'[o]), Required(request'[o].amount)
                 PROVE  /\ request'[o].challenge # None
                        /\ challenges'[request'[o].challenge].status = "PENDING"
                        /\ Bound(challenges'[request'[o].challenge], request'[o])
      BY DEF ChallengeHeld, OperatorOverride, Required, Bound
    <2>1. o # s /\ pc[o] = "post" /\ request'[o] = request[o]
      BY <1>1
    <2>2. /\ request[o].challenge # None
          /\ challenges[request[o].challenge].status = "PENDING"
          /\ Bound(challenges[request[o].challenge], request[o])
      BY <2>1 DEF ChallengeHeld
    <2>3. request[o].challenge \in Challenges
      BY <2>1, <2>2, ServedCommand DEF InTransaction, Command
    <2>4. request[o].challenge # h
      BY <1>2, <2>2 DEF NoChallenge
    <2>5. QED  BY <1>2, <2>1, <2>2, <2>3, <2>4
  <1>10. RequestsFromRoutes'
    BY <1>1 DEF RequestsFromRoutes, InTransaction
  <1>11. OpeningsValid'
    BY <1>1 DEF OpeningsValid
  <1>12. ChallengesOwned'
    BY <1>0, <1>1, <1>2 DEF ChallengesOwned
  <1>13. NoOverdraft' /\ OnePostingPerKey' /\ RowsNormal'
    BY <1>1 DEF NoOverdraft, OnePostingPerKey, RowsNormal
  <1>14. QED
    BY <1>3, <1>4, <1>5, <1>6, <1>7, <1>8, <1>9, <1>10, <1>11, <1>12, <1>13

\* A challenge expires, whoever is about to consume it.
LEMMA ExpireKeeps ==
  ASSUME IInv, NEW h \in Challenges, Expire(h)
  PROVE  IInv'
  <1> USE DEF IInv
  <1>1. UNCHANGED <<status, balance, kyc, transactions, entries, outbox>>
        /\ UNCHANGED <<pc, request, seen, reply>>
    BY DEF Expire, sessionVars
  <1>2. challenges[h] \in ChallengeRow
    BY DEF Expire, TypeOK, TablesTyped, NoChallenge
  <1>3. /\ challenges' \in [Challenges -> ChallengeRow \cup {NoChallenge}]
        /\ \A x \in Challenges :
             \/ challenges'[x] = challenges[x]
             \/ /\ x = h
                /\ challenges[x] # NoChallenge
                /\ challenges'[x].status = challenges[x].status
                /\ challenges'[x].user = challenges[x].user
                /\ challenges'[x].source = challenges[x].source
                /\ challenges'[x].destination = challenges[x].destination
                /\ challenges'[x].amount = challenges[x].amount
    BY <1>2 DEF Expire, TypeOK, TablesTyped, ChallengeRow, NoChallenge
  <1>4. TypeOK'
    BY <1>1, <1>3 DEF TypeOK, TablesTyped, SessionsTyped, Serves, Normalised
  <1>5. LockedRowsFresh' /\ LocksFollowLabels'
    BY <1>1 DEF LockedRowsFresh, LocksFollowLabels, Wanted
  <1>6. LocksExclusive'
    BY <1>1 DEF LocksExclusive, UsesChallenge, Required, OperatorOverride
  <1>7. KeyUnused' /\ ChecksHold'
    BY <1>1 DEF KeyUnused, Existing, ChecksHold, Permitted, OperatorOverride, Required
  <1>8. ChallengeHeld'
    <2>1. \A o \in Sessions : pc[o] = "post" /\ request[o].challenge # None =>
            request[o].challenge \in Challenges
      BY ServedCommand DEF InTransaction, Command
    <2>2. QED  BY <1>1, <1>3, <2>1 DEF ChallengeHeld, OperatorOverride, Required, Bound
  <1>9. RequestsFromRoutes' /\ OpeningsValid'
    BY <1>1 DEF RequestsFromRoutes, OpeningsValid
  <1>10. ChallengesOwned'
    BY <1>1, <1>3 DEF ChallengesOwned
  <1>11. NoOverdraft' /\ OnePostingPerKey' /\ RowsNormal'
    BY <1>1 DEF NoOverdraft, OnePostingPerKey, RowsNormal
  <1>12. QED
    BY <1>4, <1>5, <1>6, <1>7, <1>8, <1>9, <1>10, <1>11

\* KYC only moves customers that are not verified, so it takes nothing from
\* a session that has read KYC_VERIFIED.
LEMMA KycKeeps ==
  ASSUME IInv, NEW c \in Customers,
         SubmitKyc(c) \/ \E d \in {"KYC_VERIFIED", "KYC_REJECTED"} : DecideKyc(c, d)
  PROVE  IInv'
  <1> USE DEF IInv
  <1>1. UNCHANGED <<status, balance, transactions, entries, challenges>>
        /\ UNCHANGED <<pc, request, seen, reply>>
    BY DEF SubmitKyc, DecideKyc, sessionVars
  <1>2. /\ kyc' \in [Customers -> KycStatus]
        /\ \A x \in Customers : kyc[x] = "KYC_VERIFIED" => kyc'[x] = "KYC_VERIFIED"
    BY DEF SubmitKyc, DecideKyc, TypeOK, TablesTyped, KycStatus
  <1>3. TypeOK'
    BY <1>1, <1>2 DEF TypeOK, TablesTyped, SessionsTyped, Serves, Normalised
  <1>4. LockedRowsFresh' /\ LocksFollowLabels'
    BY <1>1 DEF LockedRowsFresh, LocksFollowLabels, Wanted
  <1>5. LocksExclusive' /\ KeyUnused'
    BY <1>1 DEF LocksExclusive, UsesChallenge, Required, OperatorOverride, KeyUnused, Existing
  <1>6. ChecksHold'
    <2>1. ASSUME NEW s \in Sessions, pc[s] \in {"sca", "post"}
          PROVE  Permitted(s)'
      <3>1. Permitted(s) /\ request[s] \in Command
        BY <2>1, ServedCommand DEF ChecksHold, InTransaction
      <3>2. ~OperatorOverride(request[s]) => request[s].user \in Customers
        BY <3>1, ConstantsAssumption DEF Permitted, Command
      <3>3. QED  BY <1>1, <1>2, <3>1, <3>2 DEF Permitted, OperatorOverride
    <2>2. QED  BY <1>1, <2>1 DEF ChecksHold, OperatorOverride, Required
  <1>7. ChallengeHeld' /\ RequestsFromRoutes'
    BY <1>1 DEF ChallengeHeld, OperatorOverride, Required, Bound, RequestsFromRoutes
  <1>8. OpeningsValid'
    <2>1. \A s \in Sessions : pc[s] = "open" => request[s].user \in Customers
      BY DEF TypeOK, SessionsTyped, Serves, OpenRequest
    <2>2. QED  BY <1>1, <1>2, <2>1 DEF OpeningsValid
  <1>9. ChallengesOwned' /\ NoOverdraft' /\ OnePostingPerKey' /\ RowsNormal'
    BY <1>1 DEF ChallengesOwned, NoOverdraft, OnePostingPerKey, RowsNormal
  <1>10. QED
    BY <1>3, <1>4, <1>5, <1>6, <1>7, <1>8, <1>9

\* A new account has no entry and a balance of 0.
LEMMA OpenAccountKeeps ==
  ASSUME IInv, NEW s \in Sessions, OpenAccount(s)
  PROVE  IInv'
  <1> USE DEF IInv
  <1> DEFINE a == request[s].account
  <1>0. pc[s] = "open" /\ a \in Accounts /\ status[a] = "ABSENT" /\ balance[a] = 0
    BY DEF OpenAccount, TypeOK, SessionsTyped, Serves, OpenRequest, OpeningsValid
  <1>1. /\ pc'[s] = "idle"
        /\ seen'[s] = NothingRead
        /\ \A o \in Sessions : o # s =>
             pc'[o] = pc[o] /\ request'[o] = request[o] /\ seen'[o] = seen[o]
        /\ UNCHANGED <<kyc, transactions, entries, challenges>>
    BY DEF OpenAccount, Finish, TypeOK, SessionsTyped
  <1>2. /\ balance' = balance
        /\ status' \in [Accounts -> AccountStatus]
        /\ status'[a] = "ACTIVE"
        /\ \A b \in Accounts : b # a => status'[b] = status[b]
    BY <1>0 DEF OpenAccount, TypeOK, TablesTyped, AccountStatus
  <1>3. \A o \in Sessions : a \notin DOMAIN seen[o]
    BY <1>0 DEF LockedRowsFresh
  <1>4. TypeOK'
    <2>1. SessionsTyped'
      BY FinishTyped DEF OpenAccount, TypeOK
    <2>2. QED  BY <1>1, <1>2, <2>1 DEF TypeOK, TablesTyped
  <1>5. LockedRowsFresh'
    <2>1. \A o \in Sessions : DOMAIN seen[o] \subseteq Accounts
      BY DEF TypeOK, SessionsTyped
    <2>2. QED  BY <1>1, <1>2, <1>3, <2>1 DEF LockedRowsFresh, NothingRead
  <1>6. LocksFollowLabels'
    BY <1>1 DEF LocksFollowLabels, NothingRead, Wanted
  <1>7. LocksExclusive'
    BY <1>1 DEF LocksExclusive, NothingRead, InTransaction, UsesChallenge, Required, OperatorOverride
  <1>8. KeyUnused' /\ ChecksHold'
    BY <1>1 DEF KeyUnused, Existing, ChecksHold, Permitted
  <1>9. ChallengeHeld' /\ RequestsFromRoutes'
    BY <1>1 DEF ChallengeHeld, RequestsFromRoutes, InTransaction
  <1>10. OpeningsValid'
    <2>1. \A o \in Sessions : pc[o] = "open" => request[o].account \in Accounts
      BY DEF TypeOK, SessionsTyped, Serves, OpenRequest
    <2>2. QED  BY <1>0, <1>1, <1>2, <2>1 DEF OpeningsValid
  <1>11. ChallengesOwned' /\ NoOverdraft' /\ OnePostingPerKey' /\ RowsNormal'
    BY <1>1, <1>2 DEF ChallengesOwned, NoOverdraft, OnePostingPerKey, RowsNormal
  <1>12. QED
    BY <1>4, <1>5, <1>6, <1>7, <1>8, <1>9, <1>10, <1>11

\* Freezing and unfreezing change the status and nothing else.
LEMMA SetAccountStatusKeeps ==
  ASSUME IInv, NEW a \in Accounts, NEW new \in {"ACTIVE", "FROZEN"}, SetAccountStatus(a, new)
  PROVE  IInv'
  <1> USE DEF IInv
  <1>1. UNCHANGED <<balance, kyc, transactions, entries, challenges>>
        /\ UNCHANGED <<pc, request, seen, reply>>
    BY DEF SetAccountStatus, sessionVars
  <1>2. /\ status' \in [Accounts -> AccountStatus]
        /\ status[a] # "ABSENT" /\ status'[a] # "ABSENT"
        /\ \A b \in Accounts : b # a => status'[b] = status[b]
        /\ \A o \in Sessions : a \notin DOMAIN seen[o]
    BY DEF SetAccountStatus, AccountFree, HoldsAccount, TypeOK, TablesTyped, AccountStatus
  <1>3. TypeOK'
    BY <1>1, <1>2 DEF TypeOK, TablesTyped, SessionsTyped, Serves, Normalised
  <1>4. LockedRowsFresh'
    <2>1. \A o \in Sessions : DOMAIN seen[o] \subseteq Accounts
      BY DEF TypeOK, SessionsTyped
    <2>2. QED  BY <1>1, <1>2, <2>1 DEF LockedRowsFresh
  <1>5. LocksFollowLabels'
    BY <1>1 DEF LocksFollowLabels, Wanted
  <1>6. LocksExclusive' /\ KeyUnused'
    BY <1>1 DEF LocksExclusive, UsesChallenge, Required, OperatorOverride, KeyUnused, Existing
  <1>7. ChecksHold' /\ ChallengeHeld' /\ RequestsFromRoutes'
    BY <1>1 DEF ChecksHold, Permitted, ChallengeHeld, OperatorOverride, Required, Bound,
                RequestsFromRoutes
  <1>8. OpeningsValid'
    <2>1. \A o \in Sessions : pc[o] = "open" => request[o].account \in Accounts
      BY DEF TypeOK, SessionsTyped, Serves, OpenRequest
    <2>2. QED  BY <1>1, <1>2, <2>1 DEF OpeningsValid
  <1>9. ChallengesOwned' /\ NoOverdraft' /\ OnePostingPerKey' /\ RowsNormal'
    BY <1>1 DEF ChallengesOwned, NoOverdraft, OnePostingPerKey, RowsNormal
  <1>10. QED
    BY <1>3, <1>4, <1>5, <1>6, <1>7, <1>8, <1>9


-----------------------------------------------------------------------------
(* The inductive invariant *)

\* The invariant holds at first.
LEMMA InitKeeps == Init => IInv
  <1> SUFFICES ASSUME Init PROVE IInv
    OBVIOUS
  <1>1. TypeOK
    BY InitTyped
  <1>2. \A s \in Sessions : pc[s] = "idle" /\ request[s] = NoRequest /\ seen[s] = NothingRead
    BY DEF Init
  <1>3. LockedRowsFresh /\ LocksFollowLabels /\ LocksExclusive
    BY <1>2 DEF LockedRowsFresh, LocksFollowLabels, LocksExclusive, NothingRead, InTransaction
  <1>4. KeyUnused /\ ChecksHold /\ ChallengeHeld /\ RequestsFromRoutes
    BY <1>2 DEF KeyUnused, ChecksHold, ChallengeHeld, RequestsFromRoutes, InTransaction
  <1>5. OpeningsValid
    BY <1>2 DEF OpeningsValid, Init
  <1>6. ChallengesOwned
    BY <1>2 DEF ChallengesOwned, Init
  <1>7. NoOverdraft
    BY DEF NoOverdraft, Init
  <1>8. OnePostingPerKey /\ RowsNormal
    <2>1. DOMAIN transactions = {}
      BY DEF Init
    <2>2. QED  BY <2>1 DEF OnePostingPerKey, RowsNormal
  <1>9. QED
    BY <1>1, <1>3, <1>4, <1>5, <1>6, <1>7, <1>8 DEF IInv

\* A stuttering step changes nothing the invariant reads.
LEMMA StutterKeeps ==
  ASSUME IInv, UNCHANGED vars
  PROVE  IInv'
  <1>1. UNCHANGED <<status, balance, kyc, transactions, entries, outbox, challenges>>
        /\ UNCHANGED <<pc, request, seen, reply>>
    BY DEF vars, bankVars, sessionVars
  <1> USE DEF IInv
  <1>2. TypeOK'
    BY <1>1 DEF TypeOK, TablesTyped, SessionsTyped, Serves, Normalised
  <1>3. LockedRowsFresh' /\ LocksFollowLabels'
    BY <1>1 DEF LockedRowsFresh, LocksFollowLabels, Wanted
  <1>4. LocksExclusive' /\ KeyUnused'
    BY <1>1 DEF LocksExclusive, UsesChallenge, Required, OperatorOverride, KeyUnused, Existing
  <1>5. ChecksHold' /\ ChallengeHeld' /\ RequestsFromRoutes'
    BY <1>1 DEF ChecksHold, Permitted, ChallengeHeld, OperatorOverride, Required, Bound,
                RequestsFromRoutes
  <1>6. OpeningsValid' /\ ChallengesOwned'
    BY <1>1 DEF OpeningsValid, ChallengesOwned
  <1>7. NoOverdraft' /\ OnePostingPerKey' /\ RowsNormal'
    BY <1>1 DEF NoOverdraft, OnePostingPerKey, RowsNormal
  <1>8. QED
    BY <1>2, <1>3, <1>4, <1>5, <1>6, <1>7

\* Every step keeps the invariant.
LEMMA NextKeeps ==
  ASSUME IInv, [Next]_vars
  PROVE  IInv'
  <1>1. ASSUME NEW s \in Sessions, Client(s) PROVE IInv'
    BY <1>1, ClientKeeps
  <1>2. ASSUME NEW s \in Sessions, Transfer(s) PROVE IInv'
    <2>1. CASE Find(s) \/ Recheck(s)
      BY <2>1, LookupKeeps
    <2>2. CASE AcquireKey(s)
      BY <2>2, AcquireKeyKeeps
    <2>3. CASE LockAccount(s)
      BY <2>3, LockAccountKeeps
    <2>4. CASE AccountMissing(s)
      BY <2>4, FailKeeps DEF AccountMissing
    <2>5. CASE Check(s)
      BY <2>5, CheckKeeps
    <2>6. CASE ConsumeChallenge(s)
      BY <2>6, ConsumeChallengeKeeps
    <2>7. CASE Post(s)
      BY <2>7, PostKeeps
    <2>8. QED  BY <1>2, <2>1, <2>2, <2>3, <2>4, <2>5, <2>6, <2>7 DEF Transfer
  <1>3. ASSUME NEW s \in Sessions, Abort(s) PROVE IInv'
    BY <1>3, FailKeeps DEF Abort
  <1>4. ASSUME NEW s \in Sessions, NEW h \in Challenges, IssueChallenge(s, h) PROVE IInv'
    BY <1>4, IssueChallengeKeeps
  <1>5. ASSUME NEW s \in Sessions, OpenAccount(s) PROVE IInv'
    BY <1>5, OpenAccountKeeps
  <1>6. ASSUME NEW h \in Challenges, Expire(h) PROVE IInv'
    BY <1>6, ExpireKeeps
  <1>7. CASE Operators
    <2>1. ASSUME NEW c \in Customers,
                 SubmitKyc(c) \/ \E d \in {"KYC_VERIFIED", "KYC_REJECTED"} : DecideKyc(c, d)
          PROVE  IInv'
      BY <2>1, KycKeeps
    <2>2. ASSUME NEW a \in Accounts, NEW new \in {"ACTIVE", "FROZEN"}, SetAccountStatus(a, new)
          PROVE  IInv'
      BY <2>2, SetAccountStatusKeeps
    <2>3. QED  BY <1>7, <2>1, <2>2 DEF Operators
  <1>8. CASE UNCHANGED vars
    BY <1>8, StutterKeeps
  <1>9. QED
    BY <1>1, <1>2, <1>3, <1>4, <1>5, <1>6, <1>7, <1>8 DEF Next

\* The labels of create_transfer mean what the code relies on: every behaviour
\* of the ledger keeps the inductive invariant.
THEOREM Inductive == Spec => []IInv
  <1>1. Init => IInv
    BY InitKeeps
  <1>2. IInv /\ [Next]_vars => IInv'
    BY NextKeeps
  <1>3. QED  BY <1>1, <1>2, PTL DEF Spec

-----------------------------------------------------------------------------
(* What follows from it *)

\* Every table and every session always holds rows of its type.
THEOREM TypeCorrect == Spec => []TypeOK
  <1>1. IInv => TypeOK
    BY DEF IInv
  <1>2. QED  BY <1>1, Inductive, PTL

\* No customer account is ever overdrawn: create_transfer compares the amount
\* with a balance it read under the row lock it still holds.
THEOREM NeverOverdrawn == Spec => []NoOverdraft
  <1>1. IInv => NoOverdraft
    BY DEF IInv
  <1>2. QED  BY <1>1, Inductive, PTL

\* A user's idempotency key never posts twice: the second lookup is made under
\* the advisory lock of (user, key), which is held until the commit.
THEOREM PostsOncePerKey == Spec => []OnePostingPerKey
  <1>1. IInv => OnePostingPerKey
    BY DEF IInv
  <1>2. QED  BY <1>1, Inductive, PTL

\* Nothing create_transfer checked before it waited for a lock has changed when
\* it posts.
THEOREM NothingStale == Spec => []NothingStaleAtPost
  <1>1. ASSUME IInv PROVE NothingStaleAtPost
    <2> SUFFICES ASSUME NEW s \in Sessions, pc[s] = "post"
                 PROVE  LET c == request[s]
                        IN  /\ \A a \in {c.source, c.destination} :
                                 seen[s][a] = [status |-> status[a], balance |-> balance[a]]
                            /\ c.type = "TRANSFER" => kyc[c.user] = "KYC_VERIFIED"
                            /\ UsesChallenge(c) # None =>
                                 /\ challenges[c.challenge].status = "PENDING"
                                 /\ Bound(challenges[c.challenge], c)
                            /\ Existing(c.user, c.key) = {}
      BY DEF NothingStaleAtPost
    <2> DEFINE c == request[s]
    <2>1. \A a \in {c.source, c.destination} :
            seen[s][a] = [status |-> status[a], balance |-> balance[a]]
      BY <1>1 DEF IInv, LocksFollowLabels, LockedRowsFresh
    <2>2. c.type = "TRANSFER" => kyc[c.user] = "KYC_VERIFIED"
      BY <1>1 DEF IInv, ChecksHold, Permitted, OperatorOverride
    <2>3. UsesChallenge(c) # None =>
            /\ challenges[c.challenge].status = "PENDING"
            /\ Bound(challenges[c.challenge], c)
      BY <1>1 DEF IInv, ChallengeHeld, UsesChallenge
    <2>4. Existing(c.user, c.key) = {}
      BY <1>1 DEF IInv, KeyUnused
    <2>5. QED  BY <2>1, <2>2, <2>3, <2>4
  <1>2. QED  BY <1>1, Inductive, PTL

\* Money moves only between accounts that are ACTIVE when it moves: a freeze
\* waits for the row locks of a posting, so none is in flight when it commits.
THEOREM FrozenMoneyStays == Spec => FreezeStopsMoney
  <1> DEFINE A == \A a \in Accounts :
                    balance'[a] # balance[a] => status[a] = "ACTIVE" /\ status'[a] = "ACTIVE"
  <1>1. ASSUME IInv, Next PROVE A
    <2>1. ASSUME NEW s \in Sessions, Commit(s), pc[s] = "post" PROVE A
      <3> DEFINE c == request[s]
      <3>1. /\ c.source \in Accounts
            /\ c.destination \in Accounts
        BY <1>1, <2>1, ServedCommand DEF InTransaction
      <3>2. \A a \in Accounts \ {c.source, c.destination} : balance'[a] = balance[a]
        BY <2>1, <3>1, <1>1 DEF Commit, Moved, IInv, TypeOK, TablesTyped
      <3>3. \A a \in {c.source, c.destination} : seen[s][a].status = "ACTIVE"
        BY <1>1, <2>1 DEF IInv, ChecksHold, Permitted
      <3>4. \A a \in {c.source, c.destination} :
              seen[s][a] = [status |-> status[a], balance |-> balance[a]]
        BY <1>1, <2>1 DEF IInv, LocksFollowLabels, LockedRowsFresh
      <3>5. \A a \in {c.source, c.destination} : status[a] = "ACTIVE"
        BY <3>3, <3>4
      <3>6. status' = status
        BY <2>1 DEF Commit
      <3>7. QED  BY <3>2, <3>5, <3>6
    <2>2. ASSUME NEW s \in Sessions, OpenAccount(s) PROVE A
      <3>1. balance[request[s].account] = 0
        BY <1>1, <2>2 DEF IInv, TypeOK, SessionsTyped, Serves, OpenRequest, OpeningsValid, OpenAccount
      <3>2. balance' = balance
        BY <1>1, <2>2, <3>1 DEF OpenAccount, IInv, TypeOK, TablesTyped
      <3>3. QED  BY <3>2
    <2>3. ASSUME UNCHANGED balance PROVE A
      BY <2>3
    <2>4. ASSUME NEW s \in Sessions, Client(s) PROVE UNCHANGED balance
      BY <2>4 DEF Client, Submit, SubmitReversal, RequestChallenge, RequestAccount, Begin, bankVars
    <2>5. ASSUME NEW s \in Sessions, Transfer(s)
          PROVE  UNCHANGED balance \/ (Commit(s) /\ pc[s] = "post")
      BY <2>5 DEF Transfer, Find, AcquireKey, Recheck, LockAccount, AccountMissing, Check,
                  ConsumeChallenge, Post, Fail, bankVars
    <2>6. ASSUME NEW s \in Sessions, Abort(s) PROVE UNCHANGED balance
      BY <2>6 DEF Abort, Fail, bankVars
    <2>7. ASSUME NEW s \in Sessions, NEW h \in Challenges, IssueChallenge(s, h)
          PROVE  UNCHANGED balance
      BY <2>7 DEF IssueChallenge
    <2>8. ASSUME NEW h \in Challenges, Expire(h) PROVE UNCHANGED balance
      BY <2>8 DEF Expire
    <2>9. CASE Operators
      <3>1. UNCHANGED balance
        BY <2>9 DEF Operators, SubmitKyc, DecideKyc, SetAccountStatus
      <3>2. QED  BY <3>1
    <2>10. QED
      BY <1>1, <2>1, <2>2, <2>3, <2>4, <2>5, <2>6, <2>7, <2>8, <2>9 DEF Next
  <1>2. ASSUME IInv, [Next]_vars PROVE [A]_vars
    BY <1>1, <1>2
  <1>3. QED
    BY <1>2, Inductive, PTL DEF Spec, FreezeStopsMoney
=============================================================================
