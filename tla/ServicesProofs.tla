---------------------------- MODULE ServicesProofs ----------------------------
(***************************************************************************)
(* Theorems of Outbox, for every number of publishers, events and faults.  *)
(* Theorems of Consumers, for every number of workers, publishers, events  *)
(* and recipients: the effects of a transfer happen at most once, and a    *)
(* message is acknowledged only after them. Theorems of Database, for      *)
(* every number of servers, of releases and of migration files: the        *)
(* migrations are applied once, in order, whoever starts, fails or dies;   *)
(* and for every pool and every number of requests: no more connections    *)
(* are out than there are, and each request holds what its script says.    *)
(***************************************************************************)
EXTENDS MCServices, Totals

(***************************************************************************)
(* The outbox                                                              *)
(***************************************************************************)
\* With no row there is nothing claimed and nothing sent.
LEMMA OutboxInitKeeps == OutboxInit => OutboxIInv
  <1> SUFFICES ASSUME OutboxInit PROVE OutboxIInv
    OBVIOUS
  <1>1. OutboxTypeOK
    BY OutboxAssumption DEF OutboxInit, OutboxTypeOK, Row, RowStatus
  <1>2. ClaimsInOrder /\ PublishedWasSent /\ ClaimsExclusive
    BY DEF OutboxInit, ClaimsInOrder, PublishedWasSent, ClaimsExclusive
  <1>3. QED  BY <1>1, <1>2 DEF OutboxIInv

\* Setting a row's status changes no other row and no attempt count.
LEMMA SetStatusRow ==
  ASSUME rows \in [Events -> Row], NEW e \in Events, NEW st \in RowStatus
  PROVE  /\ SetStatus(e, st) \in [Events -> Row]
         /\ \A x \in Events : SetStatus(e, st)[x].attempts = rows[x].attempts
         /\ SetStatus(e, st)[e].status = st
         /\ \A x \in Events : x # e => SetStatus(e, st)[x] = rows[x]
  <1>1. [rows[e] EXCEPT !.status = st, !.expired = FALSE] \in Row
    BY DEF Row
  <1>2. [rows[e] EXCEPT !.status = st, !.expired = FALSE].attempts = rows[e].attempts
        /\ [rows[e] EXCEPT !.status = st, !.expired = FALSE].status = st
    BY DEF Row
  <1>3. QED  BY <1>1, <1>2 DEF SetStatus

\* A publisher that ends its batch takes nothing from the others.
LEMMA EndBatchKeeps ==
  ASSUME OutboxIInv, NEW p \in Publishers, EndBatch(p),
         rows' \in [Events -> Row], faults' \in 0..MaxFaults, UNCHANGED copies,
         \A e \in Events : rows'[e].attempts = rows[e].attempts,
         \A e \in Events : rows'[e].status = "PUBLISHED" => rows[e].status = "PUBLISHED"
  PROVE  OutboxIInv'
  <1> USE DEF OutboxIInv
  <1>1. /\ pc'[p] = "idle" /\ claim'[p] = None /\ attempt'[p] = 0
        /\ \A q \in Publishers : q # p =>
             /\ pc'[q] = pc[q] /\ claim'[q] = claim[q]
             /\ attempt'[q] = attempt[q] /\ batch'[q] = batch[q]
    BY DEF EndBatch, OutboxTypeOK
  <1>2. OutboxTypeOK'
    BY OutboxAssumption DEF OutboxTypeOK, EndBatch
  <1>3. ClaimsInOrder'
    BY <1>1 DEF ClaimsInOrder, OutboxTypeOK
  <1>4. PublishedWasSent'
    BY DEF PublishedWasSent
  <1>5. ClaimsExclusive'
    BY <1>1 DEF ClaimsExclusive
  <1>6. QED  BY <1>2, <1>3, <1>4, <1>5

\* Handlers and the clock touch neither publishers nor attempts.
LEMMA RowsOnlyKeeps ==
  ASSUME OutboxIInv, UNCHANGED <<copies, publisherVars>>,
         rows' \in [Events -> Row], faults' \in 0..MaxFaults,
         \A e \in Events : rows'[e].attempts = rows[e].attempts,
         \A e \in Events : rows'[e].status = "PUBLISHED" => rows[e].status = "PUBLISHED"
  PROVE  OutboxIInv'
  <1> USE DEF OutboxIInv
  <1>1. UNCHANGED <<copies, pc, claim, attempt, batch>>
    BY DEF publisherVars
  <1>2. OutboxTypeOK'
    BY <1>1 DEF OutboxTypeOK
  <1>3. ClaimsInOrder'
    BY <1>1 DEF ClaimsInOrder, OutboxTypeOK
  <1>4. PublishedWasSent' /\ ClaimsExclusive'
    BY <1>1 DEF PublishedWasSent, ClaimsExclusive
  <1>5. QED  BY <1>2, <1>3, <1>4

\* A batch begins with the rows whose claim expired: they are pending again.
LEMMA StartBatchKeeps ==
  ASSUME OutboxIInv, NEW p \in Publishers, StartBatch(p)
  PROVE  OutboxIInv'
  <1> USE DEF OutboxIInv
  <1>1. /\ rows' \in [Events -> Row]
        /\ \A e \in Events : rows'[e].attempts = rows[e].attempts
        /\ \A e \in Events : rows'[e].status = "PUBLISHED" => rows[e].status = "PUBLISHED"
    BY DEF StartBatch, OutboxTypeOK, Row, RowStatus
  <1>2. /\ pc[p] = "idle" /\ pc'[p] = "select"
        /\ \A q \in Publishers : q # p => pc'[q] = pc[q]
        /\ UNCHANGED <<copies, claim, attempt, batch, faults>>
    BY DEF StartBatch, OutboxTypeOK
  <1>3. OutboxTypeOK'
    BY <1>1, <1>2 DEF OutboxTypeOK, StartBatch
  <1>4. ClaimsInOrder'
    BY <1>1, <1>2 DEF ClaimsInOrder, OutboxTypeOK
  <1>5. PublishedWasSent' /\ ClaimsExclusive'
    BY <1>1, <1>2 DEF PublishedWasSent, ClaimsExclusive
  <1>6. QED  BY <1>3, <1>4, <1>5

\* SKIP LOCKED: the row it picks is locked by nobody, and no publisher that is
\* past its claim has attempt 0.
LEMMA SelectKeeps ==
  ASSUME OutboxIInv, NEW p \in Publishers, Select(p)
  PROVE  OutboxIInv'
  <1> USE DEF OutboxIInv
  <1>1. PICK e \in Events : Oldest(e) /\ claim' = [claim EXCEPT ![p] = e]
    BY DEF Select
  <1>2. /\ pc[p] = "select" /\ pc'[p] = "claiming" /\ claim'[p] = e /\ batch[p] < BatchSize
        /\ \A q \in Publishers : q # p => pc'[q] = pc[q] /\ claim'[q] = claim[q]
        /\ UNCHANGED <<rows, copies, attempt, batch, faults>>
    BY <1>1 DEF Select, OutboxTypeOK
  <1>3. \A q \in Publishers : pc[q] = "claiming" => claim[q] # e
    BY <1>1 DEF Oldest, Claimable, Locked
  <1>4. OutboxTypeOK'
    BY <1>1, <1>2, OutboxAssumption DEF OutboxTypeOK, Select
  <1>5. ClaimsInOrder'
    BY <1>2, <1>3 DEF ClaimsInOrder, OutboxTypeOK
  <1>6. PublishedWasSent'
    BY <1>2 DEF PublishedWasSent
  <1>7. ClaimsExclusive'
    <2>1. attempt[p] = 0
      BY <1>2 DEF ClaimsInOrder
    <2>2. \A q \in Publishers : q # p /\ claim[q] = e => attempt[q] > 0
      BY <1>3, OutboxAssumption DEF ClaimsInOrder, OutboxTypeOK
    <2>3. QED  BY <1>2, <2>1, <2>2 DEF ClaimsExclusive, OutboxTypeOK
  <1>8. QED  BY <1>4, <1>5, <1>6, <1>7

\* The new attempt is larger than any the row has given out.
LEMMA ClaimKeeps ==
  ASSUME OutboxIInv, NEW p \in Publishers, Claim(p)
  PROVE  OutboxIInv'
  <1> USE DEF OutboxIInv
  <1> DEFINE e == claim[p]
  <1>0. pc[p] = "claiming" /\ e \in Events
    BY DEF Claim, OutboxTypeOK
  <1>1. /\ pc'[p] = "send" /\ attempt'[p] = rows[e].attempts + 1
        /\ \A q \in Publishers : q # p => pc'[q] = pc[q] /\ attempt'[q] = attempt[q]
        /\ UNCHANGED <<copies, claim, batch, faults>>
    BY DEF Claim, OutboxTypeOK
  <1>2. /\ rows' \in [Events -> Row]
        /\ rows'[e].attempts = rows[e].attempts + 1
        /\ rows'[e].status = "PUBLISHING"
        /\ \A x \in Events : x # e => rows'[x] = rows[x]
        /\ rows[e].attempts \in Nat
    BY <1>0 DEF Claim, OutboxTypeOK, Row, RowStatus
  <1>3. OutboxTypeOK'
    BY <1>0, <1>1, <1>2 DEF OutboxTypeOK, Claim
  <1>4. ClaimsInOrder'
    <2>1. \A q \in Publishers : claim[q] # None => claim[q] \in Events
      BY DEF OutboxTypeOK
    <2>2. \A x \in Events : rows[x].attempts \in Nat /\ rows[x].attempts <= rows'[x].attempts
      BY <1>2 DEF OutboxTypeOK, Row
    <2>3. QED  BY <1>0, <1>1, <1>2, <2>1, <2>2 DEF ClaimsInOrder, OutboxTypeOK
  <1>5. PublishedWasSent'
    BY <1>1, <1>2 DEF PublishedWasSent
  <1>6. ClaimsExclusive'
    <2>1. \A q \in Publishers : q # p /\ claim[q] = e => attempt[q] <= rows[e].attempts
      BY <1>0, <1>2, OutboxAssumption DEF ClaimsInOrder, OutboxTypeOK
    <2>2. \A q \in Publishers : attempt[q] \in Nat
      BY DEF OutboxTypeOK
    <2>3. QED  BY <1>0, <1>1, <1>2, <2>1, <2>2 DEF ClaimsExclusive
  <1>7. QED  BY <1>3, <1>4, <1>5, <1>6

\* A send, or one that fails, is of a row the publisher has claimed.
LEMMA SendKeeps ==
  ASSUME OutboxIInv, NEW p \in Publishers, Send(p) \/ SendFails(p)
  PROVE  OutboxIInv'
  <1> USE DEF OutboxIInv
  <1>0. pc[p] = "send" /\ claim[p] \in Events
    BY DEF Send, SendFails, OutboxTypeOK
  <1>1. /\ pc' \in [Publishers -> {"idle", "select", "claiming", "send", "mark", "release"}]
        /\ pc'[p] \in {"mark", "release"}
        /\ \A q \in Publishers : q # p => pc'[q] = pc[q]
        /\ UNCHANGED <<rows, claim, attempt, batch>>
        /\ faults' \in 0..MaxFaults
    BY OutboxAssumption DEF Send, SendFails, Fault, OutboxTypeOK
  <1>2. /\ copies' \in [Events -> Nat]
        /\ \A e \in Events : copies'[e] >= copies[e] /\ copies[e] \in Nat
        /\ pc'[p] = "mark" => copies'[claim[p]] > 0
    <2>1. CASE Send(p)
      BY <1>0, <2>1 DEF Send, Accept, OutboxTypeOK
    <2>2. CASE SendFails(p)
      <3>1. pc'[p] = "release"
        BY <2>2 DEF SendFails, OutboxTypeOK
      <3>2. QED  BY <1>0, <2>2, <3>1 DEF SendFails, Accept, OutboxTypeOK
    <2>3. QED  BY <2>1, <2>2
  <1>3. OutboxTypeOK'
    BY <1>0, <1>1, <1>2 DEF OutboxTypeOK
  <1>4. ClaimsInOrder'
    <2>1. \A q \in Publishers : pc[q] = "mark" => claim[q] \in Events
      BY DEF OutboxTypeOK
    <2>2. QED  BY <1>0, <1>1, <1>2, <2>1 DEF ClaimsInOrder
  <1>5. PublishedWasSent'
    BY <1>1, <1>2 DEF PublishedWasSent
  <1>6. ClaimsExclusive'
    BY <1>1 DEF ClaimsExclusive
  <1>7. QED  BY <1>3, <1>4, <1>5, <1>6

\* The row that was sent is marked, by its number alone.
LEMMA MarkPublishedKeeps ==
  ASSUME OutboxIInv, NEW p \in Publishers, MarkPublished(p)
  PROVE  OutboxIInv'
  <1> USE DEF OutboxIInv
  <1>0. pc[p] = "mark" /\ claim[p] \in Events /\ copies[claim[p]] > 0
    BY DEF MarkPublished, OutboxTypeOK, ClaimsInOrder
  <1>1. /\ pc'[p] = "select" /\ claim'[p] = None /\ attempt'[p] = 0
        /\ \A q \in Publishers : q # p =>
             /\ pc'[q] = pc[q] /\ claim'[q] = claim[q]
             /\ attempt'[q] = attempt[q] /\ batch'[q] = batch[q]
        /\ UNCHANGED <<copies, faults>>
    BY DEF MarkPublished, OutboxTypeOK
  <1>2. /\ rows' \in [Events -> Row]
        /\ \A e \in Events : rows'[e].attempts = rows[e].attempts
        /\ \A e \in Events : e # claim[p] => rows'[e] = rows[e]
    BY <1>0, SetStatusRow DEF MarkPublished, OutboxTypeOK, RowStatus
  <1>3. batch[p] < BatchSize
    BY <1>0, OutboxAssumption DEF ClaimsInOrder
  <1>4. OutboxTypeOK'
    BY <1>1, <1>2, <1>3, OutboxAssumption DEF OutboxTypeOK, MarkPublished
  <1>5. ClaimsInOrder'
    BY <1>1, <1>2 DEF ClaimsInOrder, OutboxTypeOK
  <1>6. PublishedWasSent'
    BY <1>0, <1>1, <1>2 DEF PublishedWasSent
  <1>7. ClaimsExclusive'
    BY <1>1 DEF ClaimsExclusive
  <1>8. QED  BY <1>4, <1>5, <1>6, <1>7

\* The batch is over: done, given back or cut short by a crash.
LEMMA EndOfBatchKeeps ==
  ASSUME OutboxIInv, NEW p \in Publishers, BatchDone(p) \/ Release(p) \/ Crash(p)
  PROVE  OutboxIInv'
  <1>1. EndBatch(p) /\ UNCHANGED copies
    BY DEF BatchDone, Release, Crash
  <1>2. faults' \in 0..MaxFaults
    BY OutboxAssumption DEF BatchDone, Release, Crash, Fault, OutboxIInv, OutboxTypeOK
  <1>3. /\ rows' \in [Events -> Row]
        /\ \A e \in Events : rows'[e].attempts = rows[e].attempts
        /\ \A e \in Events : rows'[e].status = "PUBLISHED" => rows[e].status = "PUBLISHED"
    <2>1. CASE UNCHANGED rows
      BY <2>1 DEF OutboxIInv, OutboxTypeOK
    <2>2. CASE rows' = SetStatus(claim[p], "PENDING")
      <3>1. CASE claim[p] \in Events
        BY <2>2, <3>1, SetStatusRow DEF OutboxIInv, OutboxTypeOK, RowStatus
      <3>2. CASE claim[p] \notin Events
        BY <2>2, <3>2 DEF SetStatus, OutboxIInv, OutboxTypeOK
      <3>3. QED  BY <3>1, <3>2
    <2>3. QED  BY <2>1, <2>2 DEF BatchDone, Release, Crash
  <1>4. QED  BY <1>1, <1>2, <1>3, EndBatchKeeps

\* A new row has no claim; a claim that expires leaves its row where it is.
LEMMA WriteKeeps ==
  ASSUME OutboxIInv, NEW e \in Events, Write(e) \/ Expire(e)
  PROVE  OutboxIInv'
  <1>1. UNCHANGED <<copies, publisherVars>>
    BY DEF Write, Expire
  <1>2. faults' \in 0..MaxFaults
    BY OutboxAssumption DEF Write, Expire, Fault, OutboxIInv, OutboxTypeOK
  <1>3. /\ rows' \in [Events -> Row]
        /\ \A x \in Events : rows'[x].attempts = rows[x].attempts
        /\ \A x \in Events : rows'[x].status = "PUBLISHED" => rows[x].status = "PUBLISHED"
    <2>1. CASE Write(e)
      BY <2>1, SetStatusRow DEF Write, OutboxIInv, OutboxTypeOK, RowStatus
    <2>2. CASE Expire(e)
      BY <2>2 DEF Expire, OutboxIInv, OutboxTypeOK, Row
    <2>3. QED  BY <2>1, <2>2
  <1>4. QED  BY <1>1, <1>2, <1>3, RowsOnlyKeeps

\* Nothing moves.
LEMMA OutboxStutterKeeps ==
  ASSUME OutboxIInv, UNCHANGED outboxVars
  PROVE  OutboxIInv'
  <1>1. UNCHANGED <<rows, copies, publisherVars, faults>>
    BY DEF outboxVars
  <1>2. QED  BY <1>1, RowsOnlyKeeps DEF OutboxIInv, OutboxTypeOK

\* Every step keeps the invariant.
LEMMA OutboxNextKeeps ==
  ASSUME OutboxIInv, [OutboxNext]_outboxVars
  PROVE  OutboxIInv'
  <1>1. ASSUME NEW e \in Events, Write(e) \/ Expire(e) PROVE OutboxIInv'
    BY <1>1, WriteKeeps
  <1>2. ASSUME NEW p \in Publishers, Publish(p) PROVE OutboxIInv'
    <2>1. CASE StartBatch(p)
      BY <2>1, StartBatchKeeps
    <2>2. CASE Select(p)
      BY <2>2, SelectKeeps
    <2>3. CASE Claim(p)
      BY <2>3, ClaimKeeps
    <2>4. CASE Send(p)
      BY <2>4, SendKeeps
    <2>5. CASE MarkPublished(p)
      BY <2>5, MarkPublishedKeeps
    <2>6. CASE BatchDone(p) \/ Release(p)
      BY <2>6, EndOfBatchKeeps
    <2>7. QED  BY <1>2, <2>1, <2>2, <2>3, <2>4, <2>5, <2>6 DEF Publish
  <1>3. ASSUME NEW p \in Publishers, SendFails(p) PROVE OutboxIInv'
    BY <1>3, SendKeeps
  <1>4. ASSUME NEW p \in Publishers, Crash(p) PROVE OutboxIInv'
    BY <1>4, EndOfBatchKeeps
  <1>5. CASE UNCHANGED outboxVars
    BY <1>5, OutboxStutterKeeps
  <1>6. QED  BY <1>1, <1>2, <1>3, <1>4, <1>5 DEF OutboxNext

-----------------------------------------------------------------------------
\* What each label of publish_batch relies on holds in every behaviour.
THEOREM OutboxInductive == OutboxSpec => []OutboxIInv
  <1>1. OutboxInit => OutboxIInv
    BY OutboxInitKeeps
  <1>2. OutboxIInv /\ [OutboxNext]_outboxVars => OutboxIInv'
    BY OutboxNextKeeps
  <1>3. QED  BY <1>1, <1>2, PTL DEF OutboxSpec

\* Nothing is marked PUBLISHED that the bus has not accepted (events.py:148-153).
THEOREM NothingForgotten == OutboxSpec => []PublishedWasSent
  <1>1. OutboxIInv => PublishedWasSent
    BY DEF OutboxIInv
  <1>2. QED  BY <1>1, OutboxInductive, PTL

\* FOR UPDATE SKIP LOCKED gives every claim to one publisher (events.py:176-203).
THEOREM OnePublisherPerClaim == OutboxSpec => []ClaimsExclusive
  <1>1. OutboxIInv => ClaimsExclusive
    BY DEF OutboxIInv
  <1>2. QED  BY <1>1, OutboxInductive, PTL

-----------------------------------------------------------------------------
(* Messages are counted by claims *)

\* Of finitely many publishers, finitely many are about to send an event.
LEMMA SendingFinite ==
  ASSUME NEW e \in Events
  PROVE  /\ IsFiniteSet(Sending(e)) /\ Cardinality(Sending(e)) \in Nat
         /\ IsFiniteSet(Sending(e)') /\ Cardinality(Sending(e)') \in Nat
  <1>1. Sending(e) \subseteq Publishers /\ Sending(e)' \subseteq Publishers
    BY DEF Sending
  <1>2. QED  BY <1>1, OutboxAssumption, FS_Subset, FS_CardinalityType

\* A step that sends nothing and starts no sending: nobody's claim is reused.
LEMMA NoNewSending ==
  ASSUME OutboxIInv, OutboxIInv', SendsCounted, UNCHANGED copies,
         \A e \in Events : rows'[e].attempts >= rows[e].attempts,
         \A e \in Events : Sending(e)' \subseteq Sending(e)
  PROVE  SendsCounted'
  <1> SUFFICES ASSUME NEW e \in Events
               PROVE  copies'[e] + Cardinality(Sending(e)') <= rows'[e].attempts
    BY DEF SendsCounted
  <1>1. Cardinality(Sending(e)') <= Cardinality(Sending(e))
    BY SendingFinite, FS_Subset
  <1>2. copies[e] + Cardinality(Sending(e)) <= rows[e].attempts
    BY DEF SendsCounted
  <1>3. copies[e] \in Nat /\ rows[e].attempts \in Nat /\ rows'[e].attempts \in Nat
    BY DEF OutboxIInv, OutboxTypeOK, Row
  <1>4. QED  BY <1>1, <1>2, <1>3, SendingFinite

\* A claim adds one attempt and one publisher that will send.
LEMMA ClaimCounted ==
  ASSUME OutboxIInv, OutboxIInv', SendsCounted, NEW p \in Publishers, Claim(p)
  PROVE  SendsCounted'
  <1> DEFINE c == claim[p]
  <1>1. /\ pc[p] = "claiming" /\ c \in Events
        /\ UNCHANGED <<copies, claim>>
        /\ pc' = [pc EXCEPT ![p] = "send"]
        /\ rows'[c].attempts = rows[c].attempts + 1
        /\ \A e \in Events : e # c => rows'[e] = rows[e]
    BY DEF Claim, OutboxIInv, OutboxTypeOK
  <1>2. \A e \in Events : copies[e] \in Nat /\ rows[e].attempts \in Nat
    BY DEF OutboxIInv, OutboxTypeOK, Row
  <1>3. ASSUME NEW e \in Events
        PROVE  copies'[e] + Cardinality(Sending(e)') <= rows'[e].attempts
    <2>1. copies[e] + Cardinality(Sending(e)) <= rows[e].attempts
      BY DEF SendsCounted
    <2>2. CASE e = c
      <3>1. Sending(e)' = Sending(e) \cup {p}
        BY <1>1, <2>2 DEF Sending, OutboxIInv, OutboxTypeOK
      <3>2. Cardinality(Sending(e) \cup {p}) <= Cardinality(Sending(e)) + 1
        <4>1. IsFiniteSet(Sending(e)) /\ Cardinality(Sending(e)) \in Nat
          BY SendingFinite
        <4>2. Cardinality(Sending(e) \cup {p}) =
                IF p \in Sending(e) THEN Cardinality(Sending(e)) ELSE Cardinality(Sending(e)) + 1
          BY <4>1, FS_AddElement
        <4>3. QED  BY <4>1, <4>2
      <3>3. Cardinality(Sending(e)') <= Cardinality(Sending(e)) + 1
        BY <3>1, <3>2
      <3>4. copies'[e] = copies[e] /\ rows'[e].attempts = rows[e].attempts + 1
        BY <1>1, <2>2
      <3>5. QED  BY <1>2, <2>1, <3>3, <3>4, SendingFinite
    <2>3. CASE e # c
      <3>1. Sending(e)' = Sending(e)
        BY <1>1, <2>3 DEF Sending, OutboxIInv, OutboxTypeOK
      <3>2. QED  BY <1>1, <2>1, <2>3, <3>1
    <2>4. QED  BY <2>2, <2>3
  <1>4. QED  BY <1>3 DEF SendsCounted

\* Sending turns the claim into at most one message, whatever the bus answers.
LEMMA SendCounted ==
  ASSUME OutboxIInv, OutboxIInv', SendsCounted, NEW p \in Publishers, Send(p) \/ SendFails(p)
  PROVE  SendsCounted'
  <1> DEFINE c == claim[p]
  <1>1. /\ pc[p] = "send" /\ c \in Events
        /\ UNCHANGED <<rows, claim>>
        /\ \E label \in {"mark", "release"} : pc' = [pc EXCEPT ![p] = label]
        /\ copies' = [copies EXCEPT ![c] = @ + 1] \/ copies' = copies
    BY DEF Send, SendFails, Accept, OutboxIInv, OutboxTypeOK
  <1>2. \A e \in Events : copies[e] \in Nat /\ rows[e].attempts \in Nat
    BY DEF OutboxIInv, OutboxTypeOK, Row
  <1>3. ASSUME NEW e \in Events
        PROVE  copies'[e] + Cardinality(Sending(e)') <= rows'[e].attempts
    <2>1. copies[e] + Cardinality(Sending(e)) <= rows[e].attempts
      BY DEF SendsCounted
    <2>2. CASE e = c
      <3>1. Sending(e)' = Sending(e) \ {p} /\ p \in Sending(e)
        BY <1>1, <2>2 DEF Sending, OutboxIInv, OutboxTypeOK
      <3>2. Cardinality(Sending(e)') = Cardinality(Sending(e)) - 1
        BY <3>1, SendingFinite, FS_RemoveElement
      <3>3. copies'[e] <= copies[e] + 1 /\ copies'[e] \in Nat
        BY <1>1, <1>2, <2>2 DEF OutboxIInv, OutboxTypeOK
      <3>4. QED  BY <1>1, <1>2, <2>1, <3>2, <3>3, SendingFinite
    <2>3. CASE e # c
      <3>1. Sending(e)' = Sending(e) /\ copies'[e] = copies[e]
        BY <1>1, <2>3 DEF Sending, OutboxIInv, OutboxTypeOK
      <3>2. QED  BY <1>1, <2>1, <3>1
    <2>4. QED  BY <2>2, <2>3
  <1>4. QED  BY <1>3 DEF SendsCounted

\* Recovering an expired claim keeps its attempts.
LEMMA RecoveryCounted ==
  ASSUME rows \in [Events -> Row], NEW p \in Publishers, StartBatch(p), NEW e \in Events
  PROVE  rows'[e].attempts = rows[e].attempts
  <1>1. CASE rows[e].status = "PUBLISHING" /\ rows[e].expired
    <2>1. rows'[e] = [rows[e] EXCEPT !.status = "PENDING", !.expired = FALSE]
      BY <1>1 DEF StartBatch
    <2>2. QED  BY <2>1 DEF Row
  <1>2. CASE ~(rows[e].status = "PUBLISHING" /\ rows[e].expired)
    BY <1>2 DEF StartBatch
  <1>3. QED  BY <1>1, <1>2

\* The count of claims that bounds the copies keeps up with every send.
LEMMA SendsKeep ==
  ASSUME OutboxIInv, OutboxIInv', SendsCounted, [OutboxNext]_outboxVars
  PROVE  SendsCounted'
  <1> USE DEF OutboxIInv, OutboxTypeOK
  <1>0. \A e \in Events : rows[e].attempts >= rows[e].attempts
    BY DEF Row
  <1>1. ASSUME NEW e \in Events, Write(e) \/ Expire(e) PROVE SendsCounted'
    <2>1. UNCHANGED <<copies, pc, claim>>
      BY <1>1 DEF Write, Expire, publisherVars
    <2>2. \A x \in Events : rows'[x].attempts = rows[x].attempts
      <3>1. CASE Write(e)
        BY <3>1, SetStatusRow DEF Write, RowStatus
      <3>2. CASE Expire(e)
        BY <3>2 DEF Expire, Row
      <3>3. QED  BY <1>1, <3>1, <3>2
    <2>3. \A x \in Events : Sending(x)' \subseteq Sending(x)
      BY <2>1 DEF Sending
    <2>4. QED  BY <1>0, <2>1, <2>2, <2>3, NoNewSending
  <1>2. ASSUME NEW p \in Publishers, Claim(p) PROVE SendsCounted'
    BY <1>2, ClaimCounted
  <1>3. ASSUME NEW p \in Publishers, Send(p) \/ SendFails(p) PROVE SendsCounted'
    BY <1>3, SendCounted
  <1>4. ASSUME NEW p \in Publishers,
               StartBatch(p) \/ Select(p) \/ BatchDone(p) \/ MarkPublished(p) \/ Release(p)
                 \/ Crash(p)
        PROVE  SendsCounted'
    <2>1. UNCHANGED copies
      BY <1>4 DEF StartBatch, Select, BatchDone, MarkPublished, Release, Crash
    <2>2. /\ pc'[p] # "send"
          /\ \A q \in Publishers : q # p => pc'[q] = pc[q] /\ claim'[q] = claim[q]
      BY <1>4 DEF StartBatch, Select, BatchDone, MarkPublished, Release, Crash, EndBatch
    <2>3. \A x \in Events : Sending(x)' \subseteq Sending(x)
      BY <2>2 DEF Sending
    <2>4. \A x \in Events : rows'[x].attempts = rows[x].attempts
      <3>1. CASE StartBatch(p)
        BY <3>1, RecoveryCounted
      <3>2. CASE Select(p) \/ BatchDone(p) \/ Crash(p)
        BY <3>2 DEF Select, BatchDone, Crash
      <3>3. CASE MarkPublished(p) \/ Release(p)
        <4>1. claim[p] \in Events
          BY <3>3 DEF MarkPublished, Release
        <4>2. QED  BY <3>3, <4>1, SetStatusRow DEF MarkPublished, Release, RowStatus
      <3>4. QED  BY <1>4, <3>1, <3>2, <3>3
    <2>5. QED  BY <1>0, <2>1, <2>3, <2>4, NoNewSending
  <1>5. CASE UNCHANGED outboxVars
    <2>1. UNCHANGED <<rows, copies, pc, claim>>
      BY <1>5 DEF outboxVars, publisherVars
    <2>2. \A x \in Events : Sending(x)' \subseteq Sending(x)
      BY <2>1 DEF Sending
    <2>3. QED  BY <1>0, <2>1, <2>2, NoNewSending
  <1>6. QED  BY <1>1, <1>2, <1>3, <1>4, <1>5 DEF OutboxNext, Publish

\* Publishers, claims and messages: the labels' promises, and no claim ever
\* sends twice.
THEOREM OutboxClaimsSendOnce == OutboxSpec => []OutboxInv
  <1>1. OutboxInit => OutboxInv
    <2> SUFFICES ASSUME OutboxInit PROVE SendsCounted
      BY OutboxInitKeeps DEF OutboxInv
    <2>1. \A e \in Events : Sending(e) = {}
      BY DEF OutboxInit, Sending
    <2>2. \A e \in Events : Cardinality(Sending(e)) = 0
      BY <2>1, FS_EmptySet
    <2>3. \A e \in Events : copies[e] = 0 /\ rows[e].attempts = 0
      BY DEF OutboxInit
    <2>4. QED  BY <2>2, <2>3 DEF SendsCounted
  <1>2. OutboxInv /\ [OutboxNext]_outboxVars => OutboxInv'
    BY OutboxNextKeeps, SendsKeep DEF OutboxInv
  <1>3. QED  BY <1>1, <1>2, PTL DEF OutboxSpec

\* What has been sent was claimed.
LEMMA ClaimsBoundCopies ==
  ASSUME OutboxInv
  PROVE  CopiesFromClaims
  <1> SUFFICES ASSUME NEW e \in Events PROVE copies[e] <= rows[e].attempts
    BY DEF CopiesFromClaims
  <1>1. copies[e] + Cardinality(Sending(e)) <= rows[e].attempts
    BY DEF OutboxInv, SendsCounted
  <1>2. copies[e] \in Nat /\ rows[e].attempts \in Nat
    BY DEF OutboxInv, OutboxIInv, OutboxTypeOK, Row
  <1>3. QED  BY <1>1, <1>2, SendingFinite

\* The bus never has more copies of an event than its row was claimed times.
THEOREM CopiesAreClaims == OutboxSpec => []CopiesFromClaims
  BY ClaimsBoundCopies, OutboxClaimsSendOnce, PTL

(***************************************************************************)
(* The pipeline of workers                                                 *)
(***************************************************************************)
\* What the tables and messages are about.
LEMMA TransfersAreEvents ==
  /\ High \subseteq Transfers /\ Transfers \subseteq Events
  /\ \A t \in High : FlagOf[t] \in Events /\ FlagOf[t] \in Flags
  /\ \A w \in Workers : w \in RiskWorkers <=> w \notin NotificationWorkers
  BY ConsumersAssumption DEF Flags, Workers

\* What a worker has in hand is a transfer, and its consumer is one of the two.
LEMMA InHand ==
  ASSUME TypeOK, NEW w \in Workers, at[w] # "idle"
  PROVE  /\ handling[w] \in Transfers \X (Nat \ {0})
         /\ Transfer(w) \in Transfers
         /\ Rows(Transfer(w)) = Recipients[Transfer(w)]
         /\ Consumer(w) \in {"risk", "notification"}
  <1>1. handling[w] \in Transfers \X (Nat \ {0})
    BY DEF TypeOK
  <1>2. QED  BY <1>1 DEF Transfer, Rows, Consumer

\* Nothing was written, sent or handled yet.
LEMMA PipelineInitKeeps == Init => PipelineInv
  <1> SUFFICES ASSUME Init PROVE PipelineInv
    OBVIOUS
  <1>1. OutboxInv
    <2>1. OutboxIInv
      BY OutboxInitKeeps DEF Init
    <2>2. \A e \in Events : Sending(e) = {}
      BY DEF Init, OutboxInit, Sending
    <2>3. \A e \in Events : Cardinality(Sending(e)) = 0
      BY <2>2, FS_EmptySet
    <2>4. \A e \in Events : copies[e] = 0 /\ rows[e].attempts = 0
      BY DEF Init, OutboxInit
    <2>5. QED  BY <2>1, <2>3, <2>4 DEF SendsCounted, OutboxInv
  <1>2. TypeOK
    BY <1>1, TransfersAreEvents
    DEF Init, TypeOK, OutboxInv, OutboxIInv, NoMessage, Rows, Transfer
  <1>3. WorkInOrder
    BY DEF Init, OutboxInit, WorkInOrder, Workers
  <1>4. EffectsOnce
    BY TransfersAreEvents DEF Init, OutboxInit, EffectsOnce, Committed
  <1>5. QED  BY <1>1, <1>2, <1>3, <1>4 DEF PipelineInv

-----------------------------------------------------------------------------
(* The outbox, seen from the workers *)

\* A publisher commits no row and uncommits none, and claims only committed ones.
LEMMA PublishersCommitNothing ==
  ASSUME OutboxInv, WorkInOrder, NEW p \in Publishers, Publish(p) \/ SendFails(p) \/ Crash(p)
  PROVE  /\ \A e \in Events : Committed(e)' <=> Committed(e)
         /\ \A q \in Publishers : claim'[q] # None => Committed(claim'[q])
  <1> USE DEF OutboxInv, OutboxIInv
  <1>1. CASE StartBatch(p)
    BY <1>1 DEF StartBatch, Committed, OutboxTypeOK, Row, WorkInOrder
  <1>2. CASE Select(p)
    BY <1>2 DEF Select, Oldest, Claimable, Committed, OutboxTypeOK, WorkInOrder
  <1>3. CASE BatchDone(p) \/ Crash(p)
    BY <1>3 DEF BatchDone, Crash, EndBatch, Committed, OutboxTypeOK, WorkInOrder
  <1>4. CASE Claim(p)
    BY <1>4 DEF Claim, Committed, OutboxTypeOK, WorkInOrder
  <1>5. CASE Send(p) \/ SendFails(p)
    BY <1>5 DEF Send, SendFails, Committed, OutboxTypeOK, WorkInOrder
  <1>6. CASE MarkPublished(p) \/ Release(p)
    <2>1. claim[p] \in Events /\ Committed(claim[p])
      BY <1>6, OutboxAssumption DEF MarkPublished, Release, OutboxTypeOK, WorkInOrder
    <2>2. PICK st \in {"PUBLISHED", "PENDING"} : rows' = SetStatus(claim[p], st)
      BY <1>6 DEF MarkPublished, Release
    <2>3. \A x \in Events : Committed(x)' <=> Committed(x)
      <3>1. st \in RowStatus /\ st # "ABSENT" /\ rows \in [Events -> Row]
        BY DEF RowStatus, OutboxTypeOK
      <3>2. rows'[claim[p]].status = st /\ \A x \in Events : x # claim[p] => rows'[x] = rows[x]
        BY <2>1, <2>2, <3>1, SetStatusRow
      <3>3. QED  BY <2>1, <3>1, <3>2 DEF Committed
    <2>4. \A q \in Publishers : claim'[q] = None \/ claim'[q] = claim[q]
      BY <1>6 DEF MarkPublished, Release, EndBatch, OutboxTypeOK
    <2>5. \A q \in Publishers : claim[q] # None => Committed(claim[q]) /\ claim[q] \in Events
      BY DEF WorkInOrder, OutboxTypeOK
    <2>6. \A q \in Publishers : claim'[q] # None => claim'[q] \in Events /\ Committed(claim'[q])
      <3> SUFFICES ASSUME NEW q \in Publishers, claim'[q] # None
                   PROVE  claim'[q] \in Events /\ Committed(claim'[q])
        OBVIOUS
      <3>1. claim'[q] = claim[q]
        BY <2>4
      <3>2. QED  BY <3>1, <2>5
    <2>7. QED  BY <2>3, <2>6
  <1>7. QED  BY <1>1, <1>2, <1>3, <1>4, <1>5, <1>6 DEF Publish

\* Writing a row commits that row and no other.
LEMMA WriteCommitsOne ==
  ASSUME OutboxInv, NEW e \in Events, Write(e)
  PROVE  /\ Committed(e)' /\ ~Committed(e)
         /\ \A x \in Events : x # e => (Committed(x)' <=> Committed(x))
         /\ UNCHANGED claim
  BY SetStatusRow DEF Write, Committed, OutboxInv, OutboxIInv, OutboxTypeOK, RowStatus, publisherVars

\* Time commits nothing.
LEMMA ExpireCommitsNothing ==
  ASSUME OutboxInv, NEW e \in Events, Expire(e)
  PROVE  /\ \A x \in Events : Committed(x)' <=> Committed(x)
         /\ UNCHANGED claim
  BY DEF Expire, Committed, OutboxInv, OutboxIInv, OutboxTypeOK, Row, publisherVars

\* The claims of the publishers stay claims of committed rows.
LEMMA ClaimsStayCommitted ==
  ASSUME OutboxInv, OutboxInv', WorkInOrder, OutboxNext
  PROVE  \A p \in Publishers : claim'[p] # None => Committed(claim[p])'
  <1>1. \A p \in Publishers : claim[p] # None => claim[p] \in Events /\ Committed(claim[p])
    BY DEF WorkInOrder, OutboxInv, OutboxIInv, OutboxTypeOK
  <1>2. \A p \in Publishers : claim'[p] # None => claim'[p] \in Events
    BY DEF OutboxInv, OutboxIInv, OutboxTypeOK
  <1>3. ASSUME NEW e \in Events, Write(e) \/ Expire(e)
        PROVE  /\ \A x \in Events : Committed(x) => Committed(x)'
               /\ UNCHANGED claim
    BY <1>3, WriteCommitsOne, ExpireCommitsNothing
  <1>4. ASSUME NEW q \in Publishers, Publish(q) \/ SendFails(q) \/ Crash(q)
        PROVE  /\ \A x \in Events : Committed(x)' <=> Committed(x)
               /\ \A p \in Publishers : claim'[p] # None => Committed(claim'[p])
    BY <1>4, PublishersCommitNothing
  <1> SUFFICES ASSUME NEW p \in Publishers, claim'[p] # None PROVE Committed(claim[p])'
    OBVIOUS
  <1>5. CASE \E e \in Events : Write(e) \/ Expire(e)
    <2>1. claim' = claim /\ Committed(claim[p])'
      BY <1>1, <1>3, <1>5 DEF Committed
    <2>2. QED  BY <2>1
  <1>6. CASE \E q \in Publishers : Publish(q) \/ SendFails(q) \/ Crash(q)
    <2>1. Committed(claim'[p]) /\ claim'[p] \in Events
      BY <1>2, <1>4, <1>6
    <2>2. \A x \in Events : Committed(x) => rows'[x].status # "ABSENT"
      BY <1>4, <1>6 DEF Committed
    <2>3. QED  BY <2>1, <2>2 DEF Committed
  <1>7. QED  BY <1>5, <1>6 DEF OutboxNext

\* The outbox's own invariant survives its own steps.
LEMMA OutboxKeepsOutboxInv ==
  ASSUME OutboxInv, [OutboxNext]_outboxVars
  PROVE  OutboxInv'
  BY OutboxNextKeeps, SendsKeep DEF OutboxInv

\* A worker's death costs the outbox a fault and nothing else.
LEMMA FaultKeepsOutboxInv ==
  ASSUME OutboxInv, Fault, UNCHANGED <<rows, copies, publisherVars>>
  PROVE  OutboxInv'
  <1>1. UNCHANGED <<rows, copies, pc, claim, attempt, batch>>
    BY DEF publisherVars
  <1>2. rows' \in [Events -> Row] /\ faults' \in 0..MaxFaults
    BY <1>1, OutboxAssumption DEF Fault, OutboxInv, OutboxIInv, OutboxTypeOK
  <1>3. OutboxIInv'
    BY <1>1, <1>2, RowsOnlyKeeps DEF OutboxInv
  <1>4. \A e \in Events : Sending(e)' = Sending(e)
    BY <1>1 DEF Sending
  <1>5. SendsCounted'
    BY <1>1, <1>4 DEF OutboxInv, SendsCounted
  <1>6. QED  BY <1>3, <1>5 DEF OutboxInv

-----------------------------------------------------------------------------
(* The steps *)

\* The outbox moves; only its sends add copies to the topics.
LEMMA ProducersKeep ==
  ASSUME PipelineInv, Producers
  PROVE  PipelineInv'
  <1> USE DEF PipelineInv
  <1>1. OutboxNext /\ UNCHANGED <<acked, alerts, notifications, at, handling, todo>>
    BY DEF Producers, OutboxNext, Flags, workerVars
  <1>2. OutboxInv'
    BY <1>1, OutboxKeepsOutboxInv
  <1>3. TypeOK'
    BY <1>1, <1>2 DEF TypeOK, OutboxInv, OutboxIInv, Rows, Transfer
  <1>4. WorkInOrder'
    BY <1>1, <1>2, ClaimsStayCommitted DEF WorkInOrder, Transfer, Rows
  <1>5. \A t \in High : Committed(FlagOf[t])' <=> Committed(FlagOf[t])
    <2>1. ASSUME NEW e \in Events \ Flags, Write(e)
          PROVE  \A x \in Flags \cap Events : Committed(x)' <=> Committed(x)
      BY <2>1, WriteCommitsOne
    <2>2. \A x \in Flags \cap Events : Committed(x)' <=> Committed(x)
      BY <2>1, ExpireCommitsNothing, PublishersCommitNothing DEF Producers
    <2>3. QED  BY <2>2, TransfersAreEvents
  <1>6. EffectsOnce'
    BY <1>1, <1>5 DEF EffectsOnce
  <1>7. QED  BY <1>2, <1>3, <1>4, <1>6

\* A worker that takes a message has done nothing about it yet.
LEMMA FetchKeeps ==
  ASSUME PipelineInv, NEW w \in Workers, Fetch(w)
  PROVE  PipelineInv'
  <1> USE DEF PipelineInv
  <1>1. PICK m \in Outstanding(Consumer(w)) :
          /\ handling' = [handling EXCEPT ![w] = m]
          /\ todo' = [todo EXCEPT ![w] =
                        IF w \in NotificationWorkers THEN Recipients[m[1]] ELSE {}]
    BY DEF Fetch
  <1>2. m \in Transfers \X (Nat \ {0}) /\ m # NoMessage
    <2>1. PICK t \in Transfers : m \in Messages(t)
      BY DEF Outstanding
    <2>2. PICK n \in 1..copies[t] : m = <<t, n>>
      BY <2>1 DEF Messages
    <2>3. copies[t] \in Nat
      BY TransfersAreEvents DEF OutboxInv, OutboxIInv, OutboxTypeOK
    <2>4. QED  BY <2>2, <2>3, TransfersAreEvents, OutboxAssumption DEF NoMessage
  <1>3. UNCHANGED <<rows, copies, pc, claim, attempt, batch, faults, acked, alerts, notifications>>
    BY DEF Fetch, outboxVars, publisherVars
  <1>4. at' = [at EXCEPT ![w] = "handle"]
    BY DEF Fetch
  <1>5. OutboxInv'
    BY <1>3, OutboxKeepsOutboxInv DEF outboxVars, publisherVars
  <1>6. /\ handling'[w] = m /\ at'[w] = "handle"
        /\ todo'[w] = IF w \in NotificationWorkers THEN Recipients[m[1]] ELSE {}
        /\ \A o \in Workers : o # w => handling'[o] = handling[o] /\ at'[o] = at[o] /\ todo'[o] = todo[o]
    BY <1>1, <1>4 DEF TypeOK
  <1>7. TypeOK'
    <2>1. handling' \in [Workers -> (Transfers \X (Nat \ {0})) \cup {NoMessage}]
      BY <1>1, <1>2 DEF TypeOK, NoMessage
    <2>2. at' \in [Workers -> {"idle", "handle", "ack"}] /\ DOMAIN todo' = Workers
      BY <1>1, <1>4 DEF TypeOK
    <2>3. \A o \in Workers : /\ handling'[o] = NoMessage <=> at'[o] = "idle"
                             /\ todo'[o] \subseteq Rows(handling'[o][1])
      BY <1>2, <1>6 DEF TypeOK, Rows, Transfer
    <2>4. QED  BY <1>3, <1>5, <2>1, <2>2, <2>3
      DEF TypeOK, OutboxInv, OutboxIInv, Rows, Transfer, NoMessage
  <1>8. WorkInOrder'
    <2>1. \A p \in Publishers : claim'[p] # None => Committed(claim[p])'
      BY <1>3 DEF WorkInOrder, Committed
    <2>2. ASSUME NEW o \in RiskWorkers, at'[o] = "ack", Transfer(o)' \in High
          PROVE  alerts'[Transfer(o)'] > 0
      BY <1>3, <1>6, <2>2 DEF WorkInOrder, Workers, Transfer
    <2>3. ASSUME NEW o \in NotificationWorkers
          PROVE  /\ at'[o] = "ack" => todo'[o] = {}
                 /\ at'[o] # "idle" =>
                      \A r \in Rows(Transfer(o))' \ todo'[o] : notifications'[Transfer(o)'][r] > 0
      <3>1. CASE o = w
        BY <1>2, <1>6, <3>1 DEF Transfer, Rows
      <3>2. CASE o # w
        BY <1>3, <1>6, <3>2 DEF WorkInOrder, Workers, Transfer, Rows
      <3>3. QED  BY <3>1, <3>2
    <2>4. QED  BY <2>1, <2>2, <2>3 DEF WorkInOrder
  <1>9. EffectsOnce'
    BY <1>3 DEF EffectsOnce, Committed
  <1>10. QED  BY <1>5, <1>7, <1>8, <1>9

\* The alert and its event are written together or not at all.
LEMMA AlertKeeps ==
  ASSUME PipelineInv, NEW w \in Workers, Alert(w)
  PROVE  PipelineInv'
  <1> USE DEF PipelineInv
  <1> DEFINE t == Transfer(w)
             raised == t \in High /\ alerts[t] = 0
  <1>1. /\ at[w] = "handle" /\ w \in RiskWorkers /\ t \in Transfers
        /\ UNCHANGED <<acked, notifications, handling, todo>>
        /\ at' = [at EXCEPT ![w] = "ack"]
    BY InHand DEF Alert
  <1>2. /\ raised => alerts' = [alerts EXCEPT ![t] = 1] /\ Write(FlagOf[t])
        /\ ~raised => UNCHANGED <<alerts, outboxVars>>
    BY DEF Alert
  <1>3. [OutboxNext]_outboxVars
    BY <1>2, TransfersAreEvents DEF OutboxNext
  <1>4. OutboxInv'
    BY <1>3, OutboxKeepsOutboxInv
  <1>5. /\ at'[w] = "ack" /\ \A o \in Workers : o # w => at'[o] = at[o]
        /\ at' \in [Workers -> {"idle", "handle", "ack"}]
    BY <1>1 DEF TypeOK
  <1>6. /\ alerts' \in [High -> Nat]
        /\ \A h \in High : h # t => alerts'[h] = alerts[h]
        /\ t \in High => alerts'[t] = 1
    <2>1. alerts \in [High -> Nat] /\ \A h \in High : alerts[h] <= 1
      BY DEF TypeOK, EffectsOnce
    <2>2. QED  BY <1>2, <2>1
  <1>7. TypeOK'
    BY <1>1, <1>4, <1>5, <1>6 DEF TypeOK, OutboxInv, OutboxIInv, Rows, Transfer, NoMessage
  <1>8. WorkInOrder'
    <2>1. \A p \in Publishers : claim'[p] # None => Committed(claim[p])'
      <3>1. CASE raised
        BY <1>2, <1>4, <3>1, TransfersAreEvents, ClaimsStayCommitted DEF OutboxNext
      <3>2. CASE ~raised
        BY <1>2, <3>2 DEF WorkInOrder, Committed, outboxVars, publisherVars
      <3>3. QED  BY <3>1, <3>2
    <2>2. \A o \in RiskWorkers : at'[o] = "ack" /\ Transfer(o) \in High => alerts'[Transfer(o)] > 0
      <3>1. \A h \in High : alerts[h] > 0 => alerts'[h] > 0
        BY <1>6 DEF TypeOK
      <3>2. QED  BY <1>5, <1>6, <3>1 DEF WorkInOrder, Workers
    <2>3. QED  BY <1>1, <1>5, <2>1, <2>2, TransfersAreEvents DEF WorkInOrder, Transfer, Rows, Workers
  <1>9. EffectsOnce'
    <2>1. \A h \in High : alerts'[h] <= 1 /\ (alerts'[h] = 1 <=> Committed(FlagOf[h])')
      <3>1. CASE raised
        <4>1. \A h \in High : h # t => FlagOf[h] # FlagOf[t]
          BY <3>1, ConsumersAssumption
        <4>2. PICK f \in Events : f = FlagOf[t] /\ Write(f)
          BY <1>2, <3>1, TransfersAreEvents
        <4>3. Committed(f)' /\ \A x \in Events : x # f => (Committed(x)' <=> Committed(x))
          BY <4>2, WriteCommitsOne
        <4>4. ASSUME NEW h \in High
              PROVE  alerts'[h] <= 1 /\ (alerts'[h] = 1 <=> Committed(FlagOf[h])')
          <5>1. CASE h = t
            <6>1. Committed(FlagOf[h])'
              BY <4>2, <4>3, <5>1
            <6>2. alerts'[h] = 1
              BY <1>6, <5>1
            <6>3. QED  BY <6>1, <6>2
          <5>2. CASE h # t
            <6>1. Committed(FlagOf[h])' <=> Committed(FlagOf[h])
              BY <4>1, <4>2, <4>3, <5>2, TransfersAreEvents
            <6>2. alerts'[h] = alerts[h]
              BY <1>6, <5>2
            <6>3. alerts[h] <= 1 /\ (alerts[h] = 1 <=> Committed(FlagOf[h]))
              BY DEF EffectsOnce
            <6>4. QED  BY <6>1, <6>2, <6>3
          <5>3. QED  BY <5>1, <5>2
        <4>5. QED  BY <4>4
      <3>2. CASE ~raised
        BY <1>2, <3>2 DEF EffectsOnce, Committed, outboxVars
      <3>3. QED  BY <3>1, <3>2
    <2>2. \A h \in High : alerts[h] > 0 => alerts'[h] > 0
      BY <1>6 DEF TypeOK
    <2>3. QED  BY <1>1, <2>1, <2>2 DEF EffectsOnce
  <1>10. QED  BY <1>4, <1>7, <1>8, <1>9

\* One insert more: nobody has a second row, and the recipient leaves the list.
LEMMA NotifyKeeps ==
  ASSUME PipelineInv, NEW w \in Workers, Notify(w)
  PROVE  PipelineInv'
  <1> USE DEF PipelineInv
  <1> DEFINE t == Transfer(w)
  <1>1. /\ at[w] = "handle" /\ w \in NotificationWorkers
        /\ t \in Transfers /\ Rows(t) = Recipients[t]
        /\ UNCHANGED <<rows, copies, pc, claim, attempt, batch, faults, acked, alerts, at, handling>>
    BY InHand DEF Notify, outboxVars, publisherVars
  <1>2. PICK r \in todo[w] :
          /\ notifications' = [notifications EXCEPT ![t][r] = IF @ = 0 THEN 1 ELSE @]
          /\ todo' = [todo EXCEPT ![w] = @ \ {r}]
    BY DEF Notify
  <1>3. r \in Recipients[t] /\ todo[w] \subseteq Recipients[t]
    BY <1>1 DEF TypeOK
  <1>4. OutboxInv'
    BY <1>1, OutboxKeepsOutboxInv DEF outboxVars, publisherVars
  <1>5. /\ DOMAIN notifications' = Transfers
        /\ \A x \in Transfers : x # t => notifications'[x] = notifications[x]
        /\ notifications'[t] = [notifications[t] EXCEPT ![r] = IF @ = 0 THEN 1 ELSE @]
    BY <1>1, <1>2 DEF TypeOK
  <1>6. /\ notifications[t] \in [Recipients[t] -> Nat]
        /\ \A o \in Recipients[t] : notifications[t][o] <= 1
    BY <1>1 DEF TypeOK, EffectsOnce
  <1>7. /\ notifications'[t] \in [Recipients[t] -> Nat]
        /\ notifications'[t][r] > 0
        /\ \A o \in Recipients[t] : /\ notifications'[t][o] <= 1
                                   /\ notifications[t][o] > 0 => notifications'[t][o] > 0
    BY <1>3, <1>5, <1>6
  <1>8. /\ DOMAIN todo' = Workers /\ todo'[w] = todo[w] \ {r}
        /\ \A o \in Workers : o # w => todo'[o] = todo[o]
    BY <1>2 DEF TypeOK
  <1>9. \A x \in Transfers : \A o \in Recipients[x] :
          notifications[x][o] > 0 => notifications'[x][o] > 0
    BY <1>5, <1>7
  <1>10. TypeOK'
    <2>1. \A x \in Transfers : notifications'[x] \in [Recipients[x] -> Nat]
      BY <1>5, <1>7 DEF TypeOK
    <2>2. \A o \in Workers : todo'[o] \subseteq todo[o]
      BY <1>8
    <2>3. QED  BY <1>1, <1>4, <1>5, <1>8, <2>1, <2>2
      DEF TypeOK, OutboxInv, OutboxIInv, Rows, Transfer, NoMessage
  <1>11. WorkInOrder'
    <2>1. \A p \in Publishers : claim'[p] # None => Committed(claim[p])'
      BY <1>1 DEF WorkInOrder, Committed
    <2>2. ASSUME NEW o \in NotificationWorkers, at[o] # "idle",
                 NEW x \in Rows(Transfer(o)) \ todo'[o]
          PROVE  notifications'[Transfer(o)][x] > 0
      <3>1. Transfer(o) \in Transfers /\ Rows(Transfer(o)) = Recipients[Transfer(o)]
        BY <2>2, InHand DEF Workers
      <3>2. CASE o = w /\ x = r
        BY <1>7, <3>2
      <3>3. CASE ~(o = w /\ x = r)
        <4>1. x \notin todo[o]
          BY <1>8, <2>2, <3>3 DEF Workers
        <4>2. notifications[Transfer(o)][x] > 0
          BY <2>2, <4>1 DEF WorkInOrder
        <4>3. QED  BY <1>9, <2>2, <3>1, <4>2
      <3>4. QED  BY <3>2, <3>3
    <2>3. \A o \in NotificationWorkers : at[o] = "ack" => todo'[o] = {}
      BY <1>1, <1>8 DEF WorkInOrder, Workers
    <2>4. QED  BY <1>1, <2>1, <2>2, <2>3 DEF WorkInOrder, Transfer, Rows
  <1>12. EffectsOnce'
    <2>1. \A x \in Transfers : \A o \in Recipients[x] : notifications'[x][o] <= 1
      BY <1>5, <1>7 DEF EffectsOnce
    <2>2. \A m \in acked["notification"] :
            m[1] \in Transfers /\ \A o \in Recipients[m[1]] : notifications'[m[1]][o] > 0
      <3>1. \A m \in acked["notification"] : m[1] \in Transfers
        BY DEF TypeOK
      <3>2. QED  BY <1>9, <3>1 DEF EffectsOnce
    <2>3. QED  BY <1>1, <2>1, <2>2 DEF EffectsOnce, Committed
  <1>13. QED  BY <1>4, <1>10, <1>11, <1>12

\* With every notification inserted, the worker goes on to acknowledge.
LEMMA NotifiedKeeps ==
  ASSUME PipelineInv, NEW w \in Workers, Notified(w)
  PROVE  PipelineInv'
  <1> USE DEF PipelineInv
  <1>1. /\ at[w] = "handle" /\ w \in NotificationWorkers /\ todo[w] = {}
        /\ at' = [at EXCEPT ![w] = "ack"]
        /\ UNCHANGED <<rows, copies, pc, claim, attempt, batch, faults>>
        /\ UNCHANGED <<acked, alerts, notifications, handling, todo>>
    BY DEF Notified, outboxVars, publisherVars
  <1>2. OutboxInv'
    BY <1>1, OutboxKeepsOutboxInv DEF outboxVars, publisherVars
  <1>3. /\ at'[w] = "ack" /\ \A o \in Workers : o # w => at'[o] = at[o]
        /\ at' \in [Workers -> {"idle", "handle", "ack"}]
    BY <1>1 DEF TypeOK
  <1>4. TypeOK'
    BY <1>1, <1>2, <1>3 DEF TypeOK, OutboxInv, OutboxIInv, Rows, Transfer, NoMessage
  <1>5. WorkInOrder'
    BY <1>1, <1>3, TransfersAreEvents DEF WorkInOrder, Transfer, Rows, Committed, Workers
  <1>6. EffectsOnce'
    BY <1>1 DEF EffectsOnce, Committed
  <1>7. QED  BY <1>2, <1>4, <1>5, <1>6

\* A worker that has no message left owes nobody anything.
LEMMA PutDownKeeps ==
  ASSUME PipelineInv, OutboxInv', NEW w \in Workers, at[w] # "idle", PutDown(w),
         UNCHANGED <<rows, copies, publisherVars, alerts, notifications>>
  PROVE  /\ acked' \in [{"risk", "notification"} -> SUBSET (Transfers \X (Nat \ {0}))] => TypeOK'
         /\ WorkInOrder'
  <1> USE DEF PipelineInv
  <1>1. /\ at'[w] = "idle" /\ handling'[w] = NoMessage /\ todo'[w] = {}
        /\ \A o \in Workers : o # w => at'[o] = at[o] /\ handling'[o] = handling[o] /\ todo'[o] = todo[o]
        /\ at' \in [Workers -> {"idle", "handle", "ack"}]
        /\ handling' \in [Workers -> (Transfers \X (Nat \ {0})) \cup {NoMessage}]
        /\ DOMAIN todo' = Workers
    BY DEF PutDown, TypeOK
  <1>2. \A o \in Workers : (handling'[o] = NoMessage <=> at'[o] = "idle")
                           /\ todo'[o] \subseteq Rows(handling'[o][1])
    BY <1>1 DEF TypeOK, Transfer
  <1>3. ASSUME acked' \in [{"risk", "notification"} -> SUBSET (Transfers \X (Nat \ {0}))]
        PROVE  TypeOK'
    BY <1>1, <1>2, <1>3 DEF TypeOK, OutboxInv, OutboxIInv, Rows, Transfer, NoMessage
  <1>4. WorkInOrder'
    BY <1>1 DEF WorkInOrder, Transfer, Rows, Committed, Workers, publisherVars
  <1>5. QED  BY <1>3, <1>4

\* The message is acknowledged when its work is done.
LEMMA AckKeeps ==
  ASSUME PipelineInv, NEW w \in Workers, Ack(w)
  PROVE  PipelineInv'
  <1> USE DEF PipelineInv
  <1> DEFINE m == handling[w]
  <1>1. /\ at[w] = "ack" /\ PutDown(w)
        /\ UNCHANGED <<rows, copies, publisherVars, faults, alerts, notifications>>
        /\ acked' = [acked EXCEPT ![Consumer(w)] = @ \cup {m}]
    BY DEF Ack, outboxVars
  <1>2. m \in Transfers \X (Nat \ {0}) /\ Consumer(w) \in {"risk", "notification"}
        /\ Rows(m[1]) = Recipients[m[1]] /\ m[1] = Transfer(w)
    BY <1>1, InHand DEF Transfer
  <1>3. OutboxInv'
    BY <1>1, OutboxKeepsOutboxInv DEF outboxVars
  <1>4. acked' \in [{"risk", "notification"} -> SUBSET (Transfers \X (Nat \ {0}))]
    BY <1>1, <1>2 DEF TypeOK
  <1>5. TypeOK' /\ WorkInOrder'
    BY <1>1, <1>3, <1>4, PutDownKeeps
  <1>6. EffectsOnce'
    <2>1. ASSUME NEW x \in acked'["risk"], x[1] \in High PROVE alerts'[x[1]] > 0
      <3>1. CASE x \in acked["risk"]
        BY <1>1, <2>1, <3>1 DEF EffectsOnce
      <3>2. CASE x \notin acked["risk"]
        <4>1. x = m /\ w \in RiskWorkers
          BY <1>1, <3>2 DEF Consumer, TypeOK
        <4>2. QED  BY <1>1, <1>2, <2>1, <4>1 DEF WorkInOrder
      <3>3. QED  BY <3>1, <3>2
    <2>2. ASSUME NEW x \in acked'["notification"], NEW r \in Recipients[x[1]]
          PROVE  notifications'[x[1]][r] > 0
      <3>1. CASE x \in acked["notification"]
        BY <1>1, <3>1 DEF EffectsOnce
      <3>2. CASE x \notin acked["notification"]
        <4>1. x = m /\ w \in NotificationWorkers
          BY <1>1, <3>2, TransfersAreEvents DEF Consumer, TypeOK
        <4>2. QED  BY <1>1, <1>2, <4>1 DEF WorkInOrder
      <3>3. QED  BY <3>1, <3>2
    <2>3. QED  BY <1>1, <2>1, <2>2 DEF EffectsOnce, Committed
  <1>7. QED  BY <1>3, <1>5, <1>6

\* A message that is dropped takes nothing with it.
LEMMA DropKeeps ==
  ASSUME PipelineInv, NEW w \in Workers, Drop(w)
  PROVE  PipelineInv'
  <1> USE DEF PipelineInv
  <1>1. /\ at[w] # "idle" /\ PutDown(w) /\ Fault
        /\ UNCHANGED <<rows, copies, publisherVars, acked, alerts, notifications>>
    BY DEF Drop
  <1>2. OutboxInv'
    BY <1>1, FaultKeepsOutboxInv
  <1>3. TypeOK' /\ WorkInOrder'
    BY <1>1, <1>2, PutDownKeeps DEF TypeOK
  <1>4. EffectsOnce'
    BY <1>1 DEF EffectsOnce, Committed
  <1>5. QED  BY <1>2, <1>3, <1>4

\* Nothing moves.
LEMMA PipelineStutterKeeps ==
  ASSUME PipelineInv, UNCHANGED vars
  PROVE  PipelineInv'
  <1>1. OutboxInv'
    BY OutboxKeepsOutboxInv DEF PipelineInv, vars
  <1>2. /\ UNCHANGED <<rows, copies, pc, claim, attempt, batch, faults>>
        /\ UNCHANGED <<acked, alerts, notifications, at, handling, todo>>
    BY DEF vars, workerVars, outboxVars, publisherVars
  <1>3. TypeOK'
    BY <1>1, <1>2 DEF PipelineInv, TypeOK, OutboxInv, OutboxIInv, Rows, Transfer, NoMessage
  <1>4. WorkInOrder' /\ EffectsOnce'
    BY <1>2 DEF PipelineInv, WorkInOrder, EffectsOnce, Committed, Transfer, Rows
  <1>5. QED  BY <1>1, <1>3, <1>4 DEF PipelineInv

-----------------------------------------------------------------------------
\* Whatever publishers, workers and the bus do next.
LEMMA PipelineNextKeeps == PipelineInv /\ [Next]_vars => PipelineInv'
  <1>1. SUFFICES ASSUME PipelineInv, [Next]_vars PROVE PipelineInv'
    OBVIOUS
  <1>2. CASE Producers
    BY <1>1, <1>2, ProducersKeep
  <1>3. ASSUME NEW w \in Workers, Fetch(w) \/ Drop(w) PROVE PipelineInv'
    BY <1>1, <1>3, FetchKeeps, DropKeeps
  <1>4. ASSUME NEW w \in Workers, Handle(w) PROVE PipelineInv'
    BY <1>1, <1>4, AlertKeeps, NotifyKeeps, NotifiedKeeps, AckKeeps DEF Handle
  <1>5. CASE UNCHANGED vars
    BY <1>1, <1>5, PipelineStutterKeeps
  <1>6. QED  BY <1>1, <1>2, <1>3, <1>4, <1>5 DEF Next

\* What workers and publishers rely on at each of their labels holds in every
\* behaviour of the pipeline.
THEOREM PipelineInductive == Spec => []PipelineInv
  <1>1. QED  BY PipelineInitKeeps, PipelineNextKeeps, PTL DEF Spec

\* Delivered again and again, by crashing workers, a transfer raises at most one
\* alert with its event, notifies each customer at most once, and is acknowledged
\* only after all of that (workers/risk.py, workers/notifications.py).
THEOREM PipelineEffectsOnce == Spec => []EffectsOnce
  <1>1. PipelineInv => EffectsOnce
    BY DEF PipelineInv
  <1>2. QED  BY <1>1, PipelineInductive, PTL

\* Behind the workers too, no claim of a row sends twice.
THEOREM PipelineCopiesAreClaims == Spec => []CopiesFromClaims
  <1>1. ASSUME PipelineInv PROVE CopiesFromClaims
    <2>1. OutboxInv
      BY <1>1 DEF PipelineInv
    <2>2. QED  BY <2>1, ClaimsBoundCopies
  <1>2. QED  BY <1>1, PipelineInductive, PTL

(***************************************************************************)
(* The database: migrations                                                *)
(***************************************************************************)
Places == {"down", "waiting", "checking", "applying", "done", "raised", "up"}

\* What a server has passed, locked and been given, when only its own place and
\* file change and the tables do not.
LEMMA PlaceKeeps ==
  ASSUME MigrationInv, UNCHANGED <<schema, recorded, refused>>, failures' \in 0 .. MaxFailures,
         NEW s \in Servers, NEW place \in Places, NEW file \in Nat,
         starting' = [starting EXCEPT ![s] = [at |-> place, file |-> file]],
         place \in {"checking", "applying", "done", "raised"} =>
           HasMigrationLock(s) \/ MigrationLockFree,
         IF place \in {"checking", "applying", "done", "raised"} THEN file > 0 ELSE file = 0,
         place = "checking" => 1 .. (file - 1) \subseteq recorded,
         place = "applying" => file = Len(schema) + 1,
         place \in {"done", "up"} => 1 .. Ships[s] \subseteq recorded
  PROVE  MigrationInv'
  <1>1. /\ starting'[s].at = place /\ starting'[s].file = file
        /\ \A o \in Servers : o # s => starting'[o] = starting[o]
    BY DEF MigrationInv, MigrationTypeOK
  <1>2. MigrationTypeOK'
    BY DEF MigrationInv, MigrationTypeOK, Places
  <1>3. MigratedOnce'
    BY <1>1 DEF MigrationInv, MigratedOnce, IsAt
  <1>4. \A x, y \in Servers : HasMigrationLock(x)' /\ HasMigrationLock(y)' => x = y
    BY <1>1 DEF MigrationInv, HasMigrationLock, MigrationLockFree
  <1>5. ASSUME NEW x \in Servers
        PROVE  /\ IF HasMigrationLock(x)' THEN starting'[x].file > 0 ELSE starting'[x].file = 0
               /\ IsAt(x, "checking")' => 1 .. (starting'[x].file - 1) \subseteq recorded'
               /\ IsAt(x, "applying")' => starting'[x].file = Len(schema') + 1
               /\ IsAt(x, "done")' => 1 .. Ships[x] \subseteq recorded'
    BY <1>1 DEF MigrationInv, HasMigrationLock, IsAt
  <1>6. QED  BY <1>2, <1>3, <1>4, <1>5 DEF MigrationInv

\* Setting the place of a server leaves its file alone.
LEMMA Goes ==
  ASSUME MigrationInv, NEW s \in Servers, NEW place \in Places, StartGoes(s, place)
  PROVE  /\ starting' = [starting EXCEPT ![s] = [at |-> place, file |-> starting[s].file]]
         /\ starting[s].file \in Nat
  <1>1. starting[s] \in [at : Places, file : Nat]
    BY DEF MigrationInv, MigrationTypeOK, Places
  <1>2. [starting[s] EXCEPT !.at = place] = [at |-> place, file |-> starting[s].file]
    BY <1>1
  <1>3. QED  BY <1>1, <1>2 DEF StartGoes

\* A server that is done with one migration file goes on to the next.
LEMMA GoesOn ==
  ASSUME MigrationInv, NEW s \in Servers, NextFile(s)
  PROVE  /\ starting' = [starting EXCEPT ![s] = [at |-> "checking", file |-> starting[s].file + 1]]
         /\ starting[s].file \in Nat
  BY DEF NextFile, MigrationInv, MigrationTypeOK

\* The numbers of the schema's files are those of its places.
LEMMA RecordedAreFirst ==
  ASSUME MigrationInv
  PROVE  /\ Len(schema) \in Nat
         /\ recorded = 1 .. Len(schema)
  <1>1. DOMAIN schema = 1 .. Len(schema) /\ Len(schema) \in Nat
    BY DEF MigrationInv, MigrationTypeOK
  <1>2. recorded = {schema[i] : i \in DOMAIN schema} /\ \A i \in DOMAIN schema : schema[i] = i
    BY DEF MigrationInv, MigratedOnce
  <1>3. QED  BY <1>1, <1>2

\* A server that gets the advisory lock starts with the first file.
LEMMA LockMigrationsKeeps ==
  ASSUME MigrationInv, NEW s \in Servers, LockMigrations(s)
  PROVE  MigrationInv'
  <1>1. starting[s].file = 0
    BY DEF LockMigrations, MigrationInv, IsAt, HasMigrationLock
  <1>2. starting' = [starting EXCEPT ![s] = [at |-> "checking", file |-> 1]]
    BY <1>1, GoesOn DEF LockMigrations
  <1>3. MigrationLockFree /\ UNCHANGED <<schema, recorded, refused, failures>>
    BY DEF LockMigrations
  <1>4. 1 .. (1 - 1) \subseteq recorded /\ failures' \in 0 .. MaxFailures
    BY <1>3 DEF MigrationInv, MigrationTypeOK
  <1> DEFINE first == 1
  <1>5. first \in Nat /\ first > 0 /\ 1 .. (first - 1) \subseteq recorded
    BY <1>4
  <1>6. starting' = [starting EXCEPT ![s] = [at |-> "checking", file |-> first]]
    BY <1>2
  <1> HIDE DEF first
  <1>7. QED  BY <1>3, <1>4, <1>5, <1>6, PlaceKeeps DEF Places

\* All files before the one it checks are recorded; the first that is not is the
\* next one of the schema.
LEMMA CheckFileKeeps ==
  ASSUME MigrationInv, NEW s \in Servers, CheckFile(s)
  PROVE  MigrationInv'
  <1> DEFINE f == starting[s].file
  <1>1. /\ IsAt(s, "checking") /\ UNCHANGED <<schema, recorded, refused, failures>>
        /\ failures' \in 0 .. MaxFailures
    BY DEF CheckFile, MigrationInv, MigrationTypeOK
  <1>2. /\ HasMigrationLock(s) /\ f > 0 /\ f \in Nat
        /\ 1 .. (f - 1) \subseteq recorded
        /\ Ships[s] \in Nat
    BY <1>1, DatabaseAssumption DEF HasMigrationLock, IsAt, MigrationInv, MigrationTypeOK
  <1>3. CASE f > Ships[s]
    <2>1. starting' = [starting EXCEPT ![s] = [at |-> "done", file |-> f]]
      BY <1>3, Goes DEF CheckFile, Places
    <2>2. 1 .. Ships[s] \subseteq recorded
      BY <1>2, <1>3
    <2>3. QED  BY <1>1, <1>2, <2>1, <2>2, PlaceKeeps DEF Places
  <1>4. CASE ~(f > Ships[s]) /\ f \in recorded
    <2>1. starting' = [starting EXCEPT ![s] = [at |-> "checking", file |-> f + 1]]
      BY <1>4, GoesOn DEF CheckFile
    <2>2. 1 .. ((f + 1) - 1) \subseteq recorded
      BY <1>2, <1>4
    <2>3. f + 1 \in Nat /\ f + 1 > 0
      BY <1>2
    <2>4. QED  BY <1>1, <1>2, <2>1, <2>2, <2>3, PlaceKeeps DEF Places
  <1>5. CASE ~(f > Ships[s]) /\ f \notin recorded
    <2>1. starting' = [starting EXCEPT ![s] = [at |-> "applying", file |-> f]]
      BY <1>5, Goes DEF CheckFile, Places
    <2>2. f = Len(schema) + 1
      <3>1. Len(schema) \in Nat /\ recorded = 1 .. Len(schema)
        BY RecordedAreFirst
      <3>2. f > Len(schema)
        BY <1>2, <1>5, <3>1
      <3>3. f - 1 > 0 => f - 1 \in recorded
        BY <1>2
      <3>4. QED  BY <1>2, <3>1, <3>2, <3>3
    <2>3. QED  BY <1>1, <1>2, <2>1, <2>2, PlaceKeeps DEF Places
  <1>6. QED  BY <1>3, <1>4, <1>5

\* The file and its row are committed together: nobody else has the lock, so the
\* row is not there yet, and the file is the next of the schema.
LEMMA CommitFileKeeps ==
  ASSUME MigrationInv, NEW s \in Servers, CommitFile(s)
  PROVE  MigrationInv'
  <1> DEFINE f == starting[s].file
             n == Len(schema)
  <1>1. /\ IsAt(s, "applying") /\ f = n + 1 /\ n \in Nat
        /\ recorded = 1 .. n /\ f \notin recorded /\ HasMigrationLock(s)
    BY RecordedAreFirst DEF CommitFile, MigrationInv, IsAt, HasMigrationLock
  <1>2. /\ schema' = Append(schema, f) /\ recorded' = recorded \cup {f}
        /\ starting' = [starting EXCEPT ![s] = [at |-> "checking", file |-> f + 1]]
        /\ UNCHANGED <<refused, failures>>
    BY <1>1, GoesOn DEF CommitFile
  <1>3. /\ schema' \in Seq(Nat) /\ Len(schema') = n + 1
        /\ DOMAIN schema' = 1 .. (n + 1)
        /\ \A i \in 1 .. (n + 1) : schema'[i] = i
    <2>1. schema \in Seq(Nat) /\ \A i \in 1 .. n : schema[i] = i
      BY DEF MigrationInv, MigrationTypeOK, MigratedOnce
    <2>2. schema' \in Seq(Nat) /\ Len(schema') = n + 1
      BY <1>1, <1>2, <2>1
    <2>3. \A i \in 1 .. (n + 1) : schema'[i] = IF i <= n THEN schema[i] ELSE f
      BY <1>1, <1>2, <2>1, <2>2
    <2>4. DOMAIN schema' = 1 .. (n + 1)
      BY <2>2
    <2>5. ASSUME NEW i \in 1 .. (n + 1) PROVE schema'[i] = i
      <3>1. CASE i <= n
        BY <1>1, <2>1, <2>3, <3>1
      <3>2. CASE ~(i <= n)
        BY <1>1, <2>3, <3>2
      <3>3. QED  BY <3>1, <3>2
    <2>6. QED  BY <2>2, <2>4, <2>5
  <1>4. recorded' = 1 .. (n + 1) /\ recorded \subseteq recorded'
    BY <1>1, <1>2
  <1>5. /\ starting'[s].at = "checking" /\ starting'[s].file = n + 2
        /\ \A o \in Servers : o # s => starting'[o] = starting[o]
    BY <1>1, <1>2 DEF MigrationInv, MigrationTypeOK
  <1>6. \A o \in Servers : o # s => ~HasMigrationLock(o)
    BY <1>1 DEF MigrationInv
  <1>7. MigrationTypeOK'
    BY <1>1, <1>2, <1>3, <1>4 DEF MigrationInv, MigrationTypeOK
  <1>8. MigratedOnce'
    <2>1. {schema'[i] : i \in DOMAIN schema'} = recorded'
      BY <1>3, <1>4
    <2>2. \A o \in Servers : IsAt(o, "up")' => 1 .. Ships[o] \subseteq recorded'
      BY <1>4, <1>5 DEF MigrationInv, MigratedOnce, IsAt
    <2>3. refused' = {}
      BY <1>2 DEF MigrationInv, MigratedOnce
    <2>4. QED  BY <1>3, <2>1, <2>2, <2>3 DEF MigratedOnce
  <1>9. \A x, y \in Servers : HasMigrationLock(x)' /\ HasMigrationLock(y)' => x = y
    BY <1>5, <1>6 DEF HasMigrationLock
  <1>10. ASSUME NEW x \in Servers
         PROVE  /\ IF HasMigrationLock(x)' THEN starting'[x].file > 0 ELSE starting'[x].file = 0
                /\ IsAt(x, "checking")' => 1 .. (starting'[x].file - 1) \subseteq recorded'
                /\ IsAt(x, "applying")' => starting'[x].file = Len(schema') + 1
                /\ IsAt(x, "done")' => 1 .. Ships[x] \subseteq recorded'
    <2>1. CASE x = s
      BY <1>1, <1>4, <1>5, <2>1 DEF HasMigrationLock, IsAt
    <2>2. CASE x # s
      BY <1>5, <1>6, <2>2 DEF MigrationInv, HasMigrationLock, IsAt
    <2>3. QED  BY <2>1, <2>2
  <1>11. QED  BY <1>7, <1>8, <1>9, <1>10 DEF MigrationInv

\* The steps around the lock, and the failures: the tables stay.
LEMMA OtherStepsKeep ==
  ASSUME MigrationInv, NEW s \in Servers,
         OpenPool(s) \/ FailFile(s) \/ UnlockMigrations(s) \/ CloseDatabase(s) \/ LoseSession(s)
  PROVE  MigrationInv'
  <1> DEFINE f == starting[s].file
  <1>1. UNCHANGED <<schema, recorded, refused>> /\ failures' \in 0 .. MaxFailures
    BY DatabaseAssumption
    DEF OpenPool, FailFile, UnlockMigrations, CloseDatabase, LoseSession, MigrationFails,
        MigrationInv, MigrationTypeOK
  <1>2. CASE OpenPool(s) \/ CloseDatabase(s)
    <2>1. f = 0
      BY <1>2 DEF OpenPool, CloseDatabase, IsAt, HasMigrationLock, MigrationInv
    <2>2. \E place \in {"waiting", "down"} :
            starting' = [starting EXCEPT ![s] = [at |-> place, file |-> 0]]
      BY <1>2, <2>1, Goes DEF OpenPool, CloseDatabase, Places
    <2>3. QED  BY <1>1, <2>2, PlaceKeeps DEF Places
  <1>3. CASE FailFile(s)
    <2>1. HasMigrationLock(s) /\ f > 0
      BY <1>3 DEF FailFile, IsAt, HasMigrationLock, MigrationInv
    <2>2. starting' = [starting EXCEPT ![s] = [at |-> "raised", file |-> f]] /\ f \in Nat
      BY <1>3, Goes DEF FailFile, Places
    <2>3. QED  BY <1>1, <2>1, <2>2, PlaceKeeps DEF Places
  <1>4. CASE UnlockMigrations(s) /\ IsAt(s, "done")
    <2>1. starting' = [starting EXCEPT ![s] = [at |-> "up", file |-> 0]]
      BY <1>4 DEF UnlockMigrations
    <2>2. 1 .. Ships[s] \subseteq recorded
      BY <1>4 DEF MigrationInv
    <2>3. QED  BY <1>1, <2>1, <2>2, PlaceKeeps DEF Places
  <1>5. CASE LoseSession(s) \/ (UnlockMigrations(s) /\ ~IsAt(s, "done"))
    <2>1. starting' = [starting EXCEPT ![s] = [at |-> "down", file |-> 0]]
      BY <1>5 DEF LoseSession, UnlockMigrations
    <2>2. QED  BY <1>1, <2>1, PlaceKeeps DEF Places
  <1>6. QED  BY <1>2, <1>3, <1>4, <1>5

-----------------------------------------------------------------------------
\* No server has started, and no file was applied.
LEMMA MigrationInitKeeps == DatabaseInit => MigrationInv
  <1> SUFFICES ASSUME DatabaseInit PROVE MigrationInv
    OBVIOUS
  <1>1. /\ schema = << >> /\ recorded = {} /\ refused = {} /\ failures = 0
        /\ \A s \in Servers : starting[s].at = "down" /\ starting[s].file = 0
        /\ starting \in [Servers -> [at : Places, file : Nat]]
    BY DEF DatabaseInit, Places
  <1>2. MigrationTypeOK
    BY <1>1, DatabaseAssumption DEF MigrationTypeOK, Places
  <1>3. MigratedOnce
    BY <1>1 DEF MigratedOnce, IsAt
  <1>4. QED  BY <1>1, <1>2, <1>3 DEF MigrationInv, IsAt, HasMigrationLock

\* Whatever servers and requests do next.
LEMMA MigrationNextKeeps == MigrationInv /\ [DatabaseNext]_databaseAllVars => MigrationInv'
  <1>0. SUFFICES ASSUME MigrationInv, [DatabaseNext]_databaseAllVars PROVE MigrationInv'
    OBVIOUS
  <1>1. CASE UNCHANGED migrationVars
    BY <1>0, <1>1
    DEF migrationVars, MigrationInv, MigrationTypeOK, MigratedOnce, HasMigrationLock, IsAt
  <1>2. PoolNext => UNCHANGED migrationVars
    BY DEF PoolNext, PoolStep, TakeConnection, GiveConnection, PoolTimeout, EndProbe, SendProbe,
           Serve
  <1>3. ASSUME NEW s \in Servers, Migrate(s) PROVE MigrationInv'
    BY <1>0, <1>3, LockMigrationsKeeps, CheckFileKeeps, CommitFileKeeps, OtherStepsKeep DEF Migrate
  <1>4. ASSUME NEW s \in Servers, OpenPool(s) \/ CloseDatabase(s) \/ FailFile(s) \/ LoseSession(s)
        PROVE  MigrationInv'
    BY <1>0, <1>4, OtherStepsKeep
  <1>5. UNCHANGED databaseAllVars => UNCHANGED migrationVars
    BY DEF databaseAllVars, migrationVars
  <1>6. QED  BY <1>0, <1>1, <1>2, <1>3, <1>4, <1>5 DEF DatabaseNext, MigrationNext

\* What a server relies on while it migrates holds in every behaviour.
THEOREM MigrationInductive == DatabaseSpec => []MigrationInv
  <1>1. QED  BY MigrationInitKeeps, MigrationNextKeeps, PTL DEF DatabaseSpec

\* Every migration is committed once, in order and with its record, the primary
\* key refuses nobody, and a server that serves has its release's schema
\* (database.py, apply_migrations).
THEOREM MigrationsApplyOnce == DatabaseSpec => []MigratedOnce
  <1>1. MigrationInv => MigratedOnce
    BY DEF MigrationInv
  <1>2. QED  BY <1>1, MigrationInductive, PTL

(***************************************************************************)
(* The pool                                                                *)
(***************************************************************************)
\* How many connections each request holds.
HeldBy(requests) == [r \in PoolRequests |-> requests[r].held]

\* A script has between six and ten steps and begins with nothing.
LEMMA ScriptLengths == \A k \in Kinds : Len(Script[k]) \in 6 .. 10 /\ Holdings[k][1] = 0
  <1>1. SUFFICES ASSUME NEW k \in Kinds PROVE Len(Script[k]) \in 6 .. 10 /\ Holdings[k][1] = 0
    OBVIOUS
  <1>2. k \in {"read", "enrolment", "run"}
    BY DEF Kinds, Script
  <1>3. QED  BY <1>2 DEF Script, Holdings

\* Every step leaves its request with what the next step says, the last one
\* with nothing, and only what is held is returned.
LEMMA HoldingsAreScripted ==
  ASSUME NEW k \in Kinds, NEW i \in 1 .. Len(Script[k])
  PROVE  /\ Len(Script[k]) \in 6 .. 10 /\ Holdings[k][1] = 0 /\ Holdings[k][i] \in 0 .. 2
         /\ Script[k][i] \in {"take", "give", "probe"}
         /\ i = Len(Script[k]) => Script[k][i] = "give" /\ Holdings[k][i] = 1
         /\ i # Len(Script[k]) =>
              /\ Script[k][i] = "take" => Holdings[k][i + 1] = Holdings[k][i] + 1
              /\ Script[k][i] = "give" => Holdings[k][i + 1] = Holdings[k][i] - 1
              /\ Script[k][i] = "probe" => Holdings[k][i + 1] = Holdings[k][i]
  <1>0. k \in {"read", "enrolment", "run"}
    BY DEF Kinds, Script
  <1>1. CASE k = "read"
    <2>1. i \in {1, 2, 3, 4, 5, 6}
      BY <1>1 DEF Script
    <2>2. QED  BY <1>1, <2>1 DEF Script, Holdings
  <1>2. CASE k = "enrolment"
    <2>1. i \in {1, 2, 3, 4, 5, 6, 7, 8, 9, 10}
      BY <1>2 DEF Script
    <2>2. QED  BY <1>2, <2>1 DEF Script, Holdings
  <1>3. CASE k = "run"
    <2>1. i \in {1, 2, 3, 4, 5, 6, 7, 8, 9}
      BY <1>3 DEF Script
    <2>2. QED  BY <1>3, <2>1 DEF Script, Holdings
  <1>4. QED  BY <1>0, <1>1, <1>2, <1>3

\* The sum in FreeConnections is the total of what the requests hold.
LEMMA HeldTotal ==
  ASSUME NEW requests \in [PoolRequests -> Serving]
  PROVE  /\ MapThenSumSet(LAMBDA r : requests[r].held, PoolRequests)
              = Total(HeldBy(requests), PoolRequests)
         /\ Total(HeldBy(requests), PoolRequests) \in Nat
  <1> DEFINE S == PoolRequests
             f == HeldBy(requests)
             Step(g) == [U \in SUBSET S |->
                           IF U = {} THEN 0 ELSE requests[Picked(U)].held + g[U \ {Picked(U)}]]
             chosen == CHOOSE g : g = Step(g)
  <1>1. \A r \in S : f[r] = requests[r].held /\ f[r] \in Nat /\ f[r] \in Int
    BY DEF HeldBy, Serving
  <1>2. IsFiniteSet(S)
    BY DatabaseAssumption
  <1>3. ASSUME NEW g PROVE Adds(f, S, g) <=> g = Step(g)
    <2>1. \A U \in SUBSET S : U # {} => f[Picked(U)] = requests[Picked(U)].held
      BY <1>1, PickedIn
    <2>2. QED  BY <2>1 DEF Adds
  <1>4. \E g : g = Step(g)
    <2>1. \E g : Adds(f, S, g)
      <3> HIDE DEF S, f
      <3>1. QED  BY <1>1, <1>2, AddsExists
    <2>2. QED  BY <1>3, <2>1
  <1>5. Adds(f, S, chosen)
    <2>1. chosen = Step(chosen)
      BY <1>4
    <2>2. QED  BY <1>3, <2>1
  <1>6. MapThenSumSet(LAMBDA r : requests[r].held, S) = chosen[S]
    BY DEF MapThenSumSet, MapThenFoldSet, Picked
  <1>7. chosen[S] = Total(f, S)
    <2> HIDE DEF chosen, S, f
    <2>1. QED  BY <1>1, <1>2, <1>5, TotalAdds
  <1>8. Total(f, S) \in Nat
    <2> HIDE DEF S, f
    <2>1. QED  BY <1>1, <1>2, TotalNat
  <1>9. QED  BY <1>6, <1>7, <1>8

\* The connections that are left, before a step and after it.
LEMMA FreeIs ==
  /\ serving \in [PoolRequests -> Serving] =>
       FreeConnections = PoolSize - Total(HeldBy(serving), PoolRequests)
  /\ serving' \in [PoolRequests -> Serving] =>
       FreeConnections' = PoolSize - Total(HeldBy(serving'), PoolRequests)
  <1>1. FreeConnections = PoolSize - MapThenSumSet(LAMBDA r : serving[r].held, PoolRequests)
    BY DEF FreeConnections
  <1>2. FreeConnections' = PoolSize - MapThenSumSet(LAMBDA r : serving'[r].held, PoolRequests)
    BY DEF FreeConnections, MapThenSumSet, MapThenFoldSet
  <1>3. ASSUME serving \in [PoolRequests -> Serving]
        PROVE  FreeConnections = PoolSize - Total(HeldBy(serving), PoolRequests)
    BY <1>1, <1>3, HeldTotal
  <1>4. ASSUME serving' \in [PoolRequests -> Serving]
        PROVE  FreeConnections' = PoolSize - Total(HeldBy(serving'), PoolRequests)
    BY <1>2, <1>4, HeldTotal
  <1>5. QED  BY <1>3, <1>4

\* When one request takes or gives, the sum changes by that.
LEMMA OneHolds ==
  ASSUME NEW before \in [PoolRequests -> Serving], NEW now \in [PoolRequests -> Serving],
         NEW r \in PoolRequests, \A q \in PoolRequests \ {r} : now[q].held = before[q].held
  PROVE  Total(HeldBy(now), PoolRequests)
           = Total(HeldBy(before), PoolRequests) + (now[r].held - before[r].held)
  <1> DEFINE Others == PoolRequests \ {r}
             f == HeldBy(before)
             g == HeldBy(now)
  <1>1. /\ f[r] = before[r].held /\ g[r] = now[r].held
        /\ \A q \in PoolRequests : f[q] \in Int /\ g[q] \in Int
        /\ \A q \in Others : f[q] \in Int /\ f[q] = g[q]
    BY DEF HeldBy, Serving
  <1>2. IsFiniteSet(PoolRequests) /\ IsFiniteSet(Others)
    BY DatabaseAssumption, FS_RemoveElement
  <1> HIDE DEF f, g
  <1>3. /\ Total(f, PoolRequests) = f[r] + Total(f, Others)
        /\ Total(g, PoolRequests) = g[r] + Total(g, Others)
    BY <1>1, <1>2, TotalIs
  <1>4. Total(f, Others) = Total(g, Others)
    <2> HIDE DEF Others
    <2>1. QED  BY <1>1, <1>2, TotalAgrees
  <1>5. Total(f, Others) \in Int
    <2> HIDE DEF Others
    <2>1. QED  BY <1>1, <1>2, TotalIs
  <1>6. f[r] \in Int /\ g[r] \in Int
    BY <1>1
  <1>7. Total(g, PoolRequests) = Total(f, PoolRequests) + (g[r] - f[r])
    BY <1>3, <1>4, <1>5, <1>6
  <1>8. QED  BY <1>1, <1>7 DEF f, g

\* What a request should hold, by its step.
AsScripted(now) ==
  IF now.step > 0 THEN now.step <= Len(Script[now.kind]) /\ now.held = Holdings[now.kind][now.step]
                 ELSE now.held = 0

\* Before a step and after it.
LEMMA ScriptedIs ==
  /\ \A q \in PoolRequests : HoldsAsScripted(q) <=> AsScripted(serving[q])
  /\ \A q \in PoolRequests : HoldsAsScripted(q)' <=> AsScripted(serving'[q])
  BY DEF HoldsAsScripted, Busy, AsScripted

\* One request takes what is left, or less, and all stay with their scripts.
LEMMA OneMoves ==
  ASSUME PoolInv, serving' \in [PoolRequests -> Serving], UNCHANGED migrationVars,
         NEW r \in PoolRequests,
         \A q \in PoolRequests \ {r} : serving'[q].held = serving[q].held,
         serving'[r].held <= serving[r].held + FreeConnections,
         \A q \in PoolRequests : AsScripted(serving'[q])
  PROVE  PoolInv'
  <1>1. serving \in [PoolRequests -> Serving] /\ FreeConnections \in 0 .. PoolSize /\ MigrationTypeOK
    BY DEF PoolInv, DatabaseTypeOK
  <1>2. MigrationTypeOK'
    BY <1>1 DEF MigrationTypeOK, migrationVars
  <1>3. Total(HeldBy(serving'), PoolRequests)
          = Total(HeldBy(serving), PoolRequests) + (serving'[r].held - serving[r].held)
    BY <1>1, OneHolds
  <1>4. Total(HeldBy(serving'), PoolRequests) \in Nat /\ Total(HeldBy(serving), PoolRequests) \in Nat
    BY <1>1, HeldTotal
  <1>5. /\ FreeConnections = PoolSize - Total(HeldBy(serving), PoolRequests)
        /\ FreeConnections' = PoolSize - Total(HeldBy(serving'), PoolRequests)
    BY <1>1, FreeIs
  <1>6. PoolSize \in Nat /\ serving'[r].held \in Nat /\ serving[r].held \in Nat
    BY <1>1, DatabaseAssumption DEF Serving
  <1>7. FreeConnections' \in 0 .. PoolSize
    BY <1>1, <1>3, <1>4, <1>5, <1>6
  <1>8. \A q \in PoolRequests : HoldsAsScripted(q)'
    BY ScriptedIs
  <1>9. QED  BY <1>2, <1>7, <1>8 DEF PoolInv, DatabaseTypeOK

\* A request that is not at anything holds nothing; one that begins neither.
LEMMA BeginsWithNothing ==
  /\ NoRequest \notin PoolRequests
  /\ NotServing \in Serving /\ AsScripted(NotServing) /\ NotServing.held = 0
  /\ \A k \in Kinds : /\ [NotServing EXCEPT !.kind = k, !.step = 1] \in Serving
                       /\ AsScripted([NotServing EXCEPT !.kind = k, !.step = 1])
                       /\ [NotServing EXCEPT !.kind = k, !.step = 1].held = 0
  <1>1. "read" \in Kinds
    BY DEF Kinds, Script
  <1>2. \A k \in Kinds : Len(Script[k]) \in 6 .. 10 /\ Holdings[k][1] = 0
    BY ScriptLengths
  <1>3. NotServing \in Serving /\ AsScripted(NotServing) /\ NotServing.held = 0
    BY <1>1 DEF NotServing, Serving, AsScripted
  <1>4. ASSUME NEW k \in Kinds
        PROVE  /\ [NotServing EXCEPT !.kind = k, !.step = 1] \in Serving
               /\ AsScripted([NotServing EXCEPT !.kind = k, !.step = 1])
               /\ [NotServing EXCEPT !.kind = k, !.step = 1].held = 0
    <2> DEFINE now == [NotServing EXCEPT !.kind = k, !.step = 1]
    <2>1. now \in Serving /\ now.kind = k /\ now.step = 1 /\ now.held = 0
      <3>1. [NotServing EXCEPT !.kind = k] = [kind |-> k, step |-> 0, held |-> 0, probe |-> NoRequest]
        BY DEF NotServing
      <3>2. now = [[NotServing EXCEPT !.kind = k] EXCEPT !.step = 1]
        OBVIOUS
      <3> HIDE DEF now
      <3>3. now = [kind |-> k, step |-> 1, held |-> 0, probe |-> NoRequest]
        BY <3>1, <3>2
      <3>4. QED  BY <3>3 DEF Serving
    <2>2. AsScripted(now)
      <3> HIDE DEF now
      <3>1. Len(Script[k]) \in 6 .. 10 /\ Holdings[k][1] = 0
        BY <1>2
      <3>2. 1 <= Len(Script[k])
        <4> DEFINE n == Len(Script[k])
        <4>1. n \in 6 .. 10
          BY <3>1
        <4> HIDE DEF n
        <4>2. 1 <= n
          BY <4>1
        <4>3. QED  BY <4>2 DEF n
      <3>3. QED  BY <2>1, <3>1, <3>2 DEF AsScripted
    <2>3. QED  BY <2>1, <2>2
  <1>5. QED  BY <1>3, <1>4, DatabaseAssumption

\* A request that is at a step has a script, and the table is about that step.
LEMMA AtStep ==
  ASSUME PoolInv, NEW r \in PoolRequests, Busy(r)
  PROVE  /\ serving[r] \in Serving /\ serving[r].kind \in Kinds
         /\ serving[r].step \in 1 .. Len(Script[serving[r].kind])
         /\ serving[r].held = Holdings[serving[r].kind][serving[r].step]
         /\ Len(Script[serving[r].kind]) \in 6 .. 10
  <1>1. serving[r] \in Serving /\ HoldsAsScripted(r)
    BY DEF PoolInv, DatabaseTypeOK
  <1>2. serving[r].kind \in Kinds /\ serving[r].step \in 0 .. 10
    BY <1>1 DEF Serving
  <1>3. Len(Script[serving[r].kind]) \in 6 .. 10
    BY <1>2, ScriptLengths
  <1>4. QED  BY <1>1, <1>2, <1>3 DEF HoldsAsScripted, Busy

\* A request goes on with as many connections as the next step of its script
\* wants, and one that went through all steps has none.
LEMMA AdvanceKeeps ==
  ASSUME PoolInv, UNCHANGED migrationVars, NEW r \in PoolRequests, Busy(r), NEW held, Advance(r, held),
         held <= serving[r].held + FreeConnections,
         \/ Doing(r, "take") /\ held = serving[r].held + 1
         \/ Doing(r, "give") /\ held = serving[r].held - 1
         \/ Doing(r, "probe") /\ held = serving[r].held
  PROVE  PoolInv'
  <1> DEFINE now == serving[r]
             k == serving[r].kind
             i == serving[r].step
             on == [kind |-> k, step |-> i + 1, held |-> held, probe |-> NoRequest]
             to == IF i = Len(Script[k]) THEN NotServing ELSE on
  <1>1. /\ now \in Serving /\ k \in Kinds /\ i \in 1 .. Len(Script[k]) /\ now.held = Holdings[k][i]
        /\ Len(Script[k]) \in 6 .. 10
    BY AtStep
  <1>2. serving \in [PoolRequests -> Serving] /\ FreeConnections \in 0 .. PoolSize
    BY DEF PoolInv, DatabaseTypeOK
  <1>3. now.held \in Nat
    BY <1>1 DEF Serving
  <1>4. /\ serving' = [serving EXCEPT ![r] = to]
        /\ to \in Serving /\ AsScripted(to) /\ to.held <= serving[r].held + FreeConnections
    <2>1. CASE i = Len(Script[k])
      <3>1. serving' = [serving EXCEPT ![r] = NotServing] /\ to = NotServing
        BY <2>1 DEF Advance
      <3>2. to \in Serving /\ AsScripted(to) /\ to.held = 0
        BY <3>1, BeginsWithNothing
      <3>3. QED
        <4> HIDE DEF to
        <4>1. QED  BY <1>2, <1>3, <3>1, <3>2
    <2>2. CASE i # Len(Script[k])
      <3>1. i + 1 \in 1 .. Len(Script[k]) /\ i + 1 \in 0 .. 10
        <4> DEFINE n == Len(Script[k])
        <4>1. i \in 1 .. n /\ n \in 6 .. 10 /\ i # n
          BY <1>1, <2>2
        <4> HIDE DEF i, n
        <4>2. i + 1 \in 1 .. n /\ i + 1 \in 0 .. 10
          BY <4>1
        <4>3. QED  BY <4>2 DEF n
      <3>2. held = Holdings[k][i + 1]
        BY <1>1, <2>2, HoldingsAreScripted DEF Doing
      <3>3. held \in 0 .. 2
        BY <1>1, <3>1, <3>2, HoldingsAreScripted
      <3>4. to = on /\ serving' = [serving EXCEPT ![r] = on]
        BY <2>2 DEF Advance
      <3>5. /\ on \in Serving /\ on.kind = k /\ on.step = i + 1 /\ on.held = held
        BY <1>1, <3>1, <3>3 DEF Serving
      <3>6. AsScripted(on)
        <4> HIDE DEF on
        <4>1. QED  BY <1>1, <3>1, <3>2, <3>5 DEF AsScripted
      <3>7. QED  BY <1>2, <1>3, <3>3, <3>4, <3>5, <3>6
    <2>3. QED  BY <2>1, <2>2
  <1> HIDE DEF to
  <1>5. serving' \in [PoolRequests -> Serving] /\ serving'[r] = to
    BY <1>2, <1>4
  <1>6. \A q \in PoolRequests \ {r} : serving'[q] = serving[q]
    BY <1>2, <1>4
  <1>7. \A q \in PoolRequests : AsScripted(serving'[q])
    BY <1>4, <1>5, <1>6, ScriptedIs DEF PoolInv
  <1>8. QED  BY <1>4, <1>5, <1>6, <1>7, OneMoves

\* A step of a request: _connect's checkouts and returns, the timeout of the
\* pool, which returns everything, and a probe with its end.
LEMMA PoolStepKeeps ==
  ASSUME PoolInv, NEW r \in PoolRequests, PoolStep(r)
  PROVE  PoolInv'
  <1>1. /\ serving \in [PoolRequests -> Serving] /\ FreeConnections \in 0 .. PoolSize
        /\ \A q \in PoolRequests : AsScripted(serving[q])
    BY ScriptedIs DEF PoolInv, DatabaseTypeOK
  <1>2. serving[r].held \in Nat /\ FreeConnections \in Nat
    BY <1>1 DEF Serving
  <1>3. CASE TakeConnection(r)
    <2>1. Busy(r) /\ UNCHANGED migrationVars /\ serving[r].held + 1 <= serving[r].held + FreeConnections
      BY <1>2, <1>3 DEF TakeConnection, Doing
    <2>2. QED  BY <1>3, <2>1, AdvanceKeeps DEF TakeConnection
  <1>4. CASE GiveConnection(r)
    <2>1. Busy(r) /\ UNCHANGED migrationVars /\ serving[r].held - 1 <= serving[r].held + FreeConnections
      BY <1>2, <1>4 DEF GiveConnection, Doing
    <2>2. QED  BY <1>4, <2>1, AdvanceKeeps DEF GiveConnection
  <1>5. CASE EndProbe(r)
    <2>1. Busy(r) /\ UNCHANGED migrationVars /\ serving[r].held <= serving[r].held + FreeConnections
      BY <1>2, <1>5 DEF EndProbe, Doing
    <2>2. QED  BY <1>5, <2>1, AdvanceKeeps DEF EndProbe
  <1>6. CASE PoolTimeout(r)
    <2>1. serving' = [serving EXCEPT ![r] = NotServing] /\ UNCHANGED migrationVars
      BY <1>6 DEF PoolTimeout
    <2>2. serving' \in [PoolRequests -> Serving] /\ serving'[r] = NotServing
      BY <1>1, <2>1, BeginsWithNothing
    <2>3. \A q \in PoolRequests \ {r} : serving'[q] = serving[q]
      BY <1>1, <2>1
    <2>4. \A q \in PoolRequests : AsScripted(serving'[q])
      BY <1>1, <2>2, <2>3, BeginsWithNothing
    <2>5. serving'[r].held <= serving[r].held + FreeConnections
      <3>1. serving'[r].held = 0
        BY <2>2, BeginsWithNothing
      <3>2. QED  BY <1>2, <3>1
    <2>6. QED  BY <2>1, <2>2, <2>3, <2>4, <2>5, OneMoves
  <1>7. ASSUME NEW q \in PoolRequests, SendProbe(r, q) PROVE PoolInv'
    <2> DEFINE asks == [serving[r] EXCEPT !.probe = q]
               asked == [NotServing EXCEPT !.step = 1]
    <2>1. /\ Busy(r) /\ ~Busy(q) /\ r # q /\ UNCHANGED migrationVars
          /\ serving' = [serving EXCEPT ![r].probe = q, ![q] = asked]
      BY <1>7 DEF SendProbe, Doing
    <2>2. /\ asks \in Serving /\ asks.held = serving[r].held
          /\ asks.kind = serving[r].kind /\ asks.step = serving[r].step
      BY <1>1 DEF Serving
    <2>3. asked \in Serving /\ AsScripted(asked) /\ asked.held = 0
      <3> DEFINE reads == [NotServing EXCEPT !.kind = "read", !.step = 1]
      <3>1. "read" \in Kinds /\ asked = reads
        <4>1. NotServing = [NotServing EXCEPT !.kind = "read"]
          BY DEF NotServing
        <4>2. [NotServing EXCEPT !.kind = "read", !.step = 1]
                = [[NotServing EXCEPT !.kind = "read"] EXCEPT !.step = 1]
          OBVIOUS
        <4>3. "read" \in Kinds
          BY DEF Kinds, Script
        <4>4. QED  BY <4>1, <4>2, <4>3
      <3>2. reads \in Serving /\ AsScripted(reads) /\ reads.held = 0
        BY <3>1, BeginsWithNothing
      <3> HIDE DEF asked, reads
      <3>3. QED  BY <3>1, <3>2
    <2>4. serving' = [[serving EXCEPT ![r] = asks] EXCEPT ![q] = asked]
      BY <1>1, <2>1
    <2> HIDE DEF asks, asked
    <2>5. /\ serving' \in [PoolRequests -> Serving]
          /\ serving'[r] = asks /\ serving'[q] = asked
          /\ \A o \in PoolRequests \ {r, q} : serving'[o] = serving[o]
      BY <1>1, <2>1, <2>2, <2>3, <2>4
    <2>6. AsScripted(asks)
      BY <1>1, <2>2 DEF AsScripted
    <2>7. \A o \in PoolRequests : AsScripted(serving'[o])
      BY <1>1, <2>3, <2>5, <2>6
    <2>8. serving[q].held = 0
      BY <1>1, <2>1 DEF AsScripted, Busy, Serving
    <2>9. \A o \in PoolRequests \ {r} : serving'[o].held = serving[o].held
      BY <2>3, <2>5, <2>8
    <2>10. serving'[r].held <= serving[r].held + FreeConnections
      BY <1>2, <2>2, <2>5
    <2>11. QED  BY <2>1, <2>5, <2>7, <2>9, <2>10, OneMoves
  <1>8. QED  BY <1>3, <1>4, <1>5, <1>6, <1>7 DEF PoolStep

\* A request that arrives holds nothing yet.
LEMMA ServeKeeps ==
  ASSUME PoolInv, NEW r \in PoolRequests, NEW kind \in Kinds, Serve(r, kind)
  PROVE  PoolInv'
  <1> DEFINE begins == [NotServing EXCEPT !.kind = kind, !.step = 1]
  <1>1. /\ serving \in [PoolRequests -> Serving] /\ FreeConnections \in Nat
        /\ \A q \in PoolRequests : AsScripted(serving[q])
    BY ScriptedIs DEF PoolInv, DatabaseTypeOK
  <1>2. serving' = [serving EXCEPT ![r] = begins] /\ UNCHANGED migrationVars /\ ~Busy(r)
    BY DEF Serve
  <1>3. begins \in Serving /\ AsScripted(begins) /\ begins.held = 0
    BY BeginsWithNothing
  <1> HIDE DEF begins
  <1>4. /\ serving' \in [PoolRequests -> Serving] /\ serving'[r] = begins
        /\ \A q \in PoolRequests \ {r} : serving'[q] = serving[q]
    BY <1>1, <1>2, <1>3
  <1>5. \A q \in PoolRequests : AsScripted(serving'[q])
    BY <1>1, <1>3, <1>4
  <1>6. serving[r].held \in Nat
    BY <1>1 DEF Serving
  <1>7. serving'[r].held <= serving[r].held + FreeConnections
    BY <1>1, <1>3, <1>4, <1>6
  <1>8. QED  BY <1>2, <1>4, <1>5, <1>7, OneMoves

\* The first state: every request idle, every connection free.
LEMMA PoolInitKeeps == DatabaseInit /\ MigrationInv => PoolInv
  <1> SUFFICES ASSUME DatabaseInit, MigrationInv PROVE PoolInv
    OBVIOUS
  <1>1. serving = [r \in PoolRequests |-> NotServing] /\ MigrationTypeOK
    BY DEF DatabaseInit, MigrationInv
  <1>2. serving \in [PoolRequests -> Serving] /\ \A r \in PoolRequests : serving[r] = NotServing
    BY <1>1, BeginsWithNothing
  <1>3. \A r \in PoolRequests : HoldsAsScripted(r)
    BY <1>2, BeginsWithNothing, ScriptedIs
  <1> DEFINE f == HeldBy(serving)
  <1>4. Total(f, PoolRequests) = 0
    <2> DEFINE none == [r \in PoolRequests |-> 0]
    <2>1. \A r \in PoolRequests : f[r] = 0
      BY <1>2, BeginsWithNothing DEF HeldBy
    <2>2. QED  BY <2>1, NoTotal, DatabaseAssumption
  <1>5. FreeConnections = PoolSize
    BY <1>2, <1>4, FreeIs, DatabaseAssumption
  <1>6. QED  BY <1>1, <1>2, <1>3, <1>5, DatabaseAssumption DEF PoolInv, DatabaseTypeOK

\* Whatever requests and servers do next.
LEMMA PoolNextKeeps ==
  PoolInv /\ MigrationInv /\ MigrationInv' /\ [DatabaseNext]_databaseAllVars => PoolInv'
  <1>0. SUFFICES ASSUME PoolInv, MigrationInv, MigrationInv', [DatabaseNext]_databaseAllVars PROVE PoolInv'
    OBVIOUS
  <1>1. CASE PoolNext
    BY <1>0, <1>1, PoolStepKeeps, ServeKeeps DEF PoolNext
  <1>2. CASE UNCHANGED serving
    <2>1. MigrationTypeOK'
      BY <1>0 DEF MigrationInv
    <2>2. serving \in [PoolRequests -> Serving] /\ FreeConnections \in 0 .. PoolSize
      BY <1>0 DEF PoolInv, DatabaseTypeOK
    <2>3. FreeConnections' = FreeConnections
      BY <1>2, <2>2, FreeIs
    <2>4. \A r \in PoolRequests : HoldsAsScripted(r)'
      BY <1>0, <1>2, ScriptedIs DEF PoolInv
    <2>5. QED  BY <1>2, <2>1, <2>2, <2>3, <2>4 DEF PoolInv, DatabaseTypeOK
  <1>3. MigrationNext => UNCHANGED serving
    BY DEF MigrationNext, Migrate, OpenPool, LockMigrations, CheckFile, CommitFile, UnlockMigrations,
           CloseDatabase, FailFile, LoseSession, poolVars
  <1>4. databaseAllVars' = databaseAllVars => UNCHANGED serving
    BY DEF databaseAllVars
  <1>5. QED  BY <1>0, <1>1, <1>2, <1>3, <1>4 DEF DatabaseNext

\* The pool never hands out more connections than it has, never counts one twice
\* as returned, and every request returns exactly what it took: whoever waits,
\* times out in the middle of its script, or is a probe of another (database.py,
\* ConnectionPool; api.py, begin_mfa_enrollment; asvs.py).
THEOREM PoolInductive == DatabaseSpec => []PoolInv
  <1>1. QED  BY PoolInitKeeps, PoolNextKeeps, MigrationInductive, PTL DEF DatabaseSpec

(***************************************************************************)
(* Workers, pool and migrations beside each other                          *)
(***************************************************************************)
\* A behaviour of MCServices is one of the pipeline and one of the database, whatever
\* its scene: what was proved of either holds of the instance that TLC runs.
LEMMA ServicesAreBoth == ServicesSpec => Spec /\ DatabaseSpec
  <1>1. ServicesInit => Init /\ DatabaseInit
    BY DEF ServicesInit
  <1>2. [ServicesNext]_<<vars, databaseAllVars, scene>> => [Next]_vars /\ [DatabaseNext]_databaseAllVars
    BY DEF ServicesNext, DatabaseNext
  <1>3. QED  BY <1>1, <1>2, PTL DEF ServicesSpec, Spec, DatabaseSpec

\* In every instance the scenes of MCServices keep what workers, publishers, servers
\* and requests rely on at each of their labels.
THEOREM ServicesKeepTypes == ServicesSpec => []ServicesTypes
  <1>1. PipelineInv /\ MigrationInv /\ PoolInv => ServicesTypes
    BY DEF ServicesTypes
  <1>2. QED  BY <1>1, ServicesAreBoth, PipelineInductive, MigrationInductive, PoolInductive, PTL
=============================================================================
