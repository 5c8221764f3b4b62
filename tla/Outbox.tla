------------------------------- MODULE Outbox -------------------------------
(***************************************************************************)
(* The transactional outbox: rows committed by the handlers, and the       *)
(* OutboxPublisher processes that claim them, hand them to the event bus   *)
(* and mark them published.  Any number of publishers may run (the service *)
(* and Cloud Run jobs overlap); each may be slow, fail to reach the bus,   *)
(* lose the bus's answer, or die at any point.                             *)
(*                                                                         *)
(* The bus keeps every copy it accepts, except that NATS drops a copy with *)
(* a known Nats-Msg-Id inside its duplicate window; Pub/Sub keeps all.     *)
(***************************************************************************)
EXTENDS Naturals, FiniteSets

CONSTANTS
  Events,       \* outbox_event_id
  CreatedAt,    \* created_at, the start of the transaction that wrote a row
  Publishers,   \* publisher processes
  BatchSize,    \* rows one batch may publish, 50 in the code
  MaxFaults,    \* bound: crashes, bus errors and claims that outlive a minute
  None

ASSUME OutboxAssumption ==
  /\ CreatedAt \in [Events -> Nat]
  /\ BatchSize \in Nat \ {0}
  /\ MaxFaults \in Nat
  /\ None \notin Events
  /\ IsFiniteSet(Publishers)

VARIABLES
  rows,      \* outbox_events: status, publish_attempts, and whether claimed_at
             \* lies more than a minute back
  copies,    \* for every event, how many messages the bus has accepted
  pc,        \* where each publisher is in publish_batch
  claim,     \* the event a publisher works on, None if it has none
  attempt,   \* history: the publish_attempts its claim was given
  batch,     \* how many rows its batch has published
  faults     \* faults so far

publisherVars == <<pc, claim, attempt, batch>>
outboxVars    == <<rows, copies, publisherVars, faults>>

-----------------------------------------------------------------------------
RowStatus == {"ABSENT", "PENDING", "PUBLISHING", "PUBLISHED"}
Row == [status : RowStatus, attempts : Nat, expired : BOOLEAN]

Committed(e) == rows[e].status # "ABSENT"

\* Mutant: a row being claimed is not locked.
MutLocked(e) == FALSE

\* SELECT ... FOR UPDATE holds the row until the claim commits.
Locked(e) == \E p \in Publishers : pc[p] = "claiming" /\ claim[p] = e

\* A live publisher still works on the event.
Held(e) == \E p \in Publishers : claim[p] = e

\* Mutant: the claim does not skip locked rows.
MutClaimable(e) == rows[e].status = "PENDING"

\* The oldest PENDING row that nobody has locked: ORDER BY created_at
\* FOR UPDATE SKIP LOCKED LIMIT 1.
Claimable(e) == rows[e].status = "PENDING" /\ ~Locked(e)
Oldest(e) ==
  /\ Claimable(e)
  /\ \A o \in Events : Claimable(o) => CreatedAt[e] <= CreatedAt[o]

SetStatus(e, status) ==
  [rows EXCEPT ![e] = [@ EXCEPT !.status = status, !.expired = FALSE]]

Fault == faults < MaxFaults /\ faults' = faults + 1

\* The batch ends: by return, by an exception that run() logs, or by a crash.
EndBatch(p) ==
  /\ pc'      = [pc EXCEPT ![p] = "idle"]
  /\ claim'   = [claim EXCEPT ![p] = None]
  /\ attempt' = [attempt EXCEPT ![p] = 0]
  /\ batch'   = [batch EXCEPT ![p] = 0]

-----------------------------------------------------------------------------
OutboxInit ==
  /\ rows    = [e \in Events |-> [status |-> "ABSENT", attempts |-> 0, expired |-> FALSE]]
  /\ copies  = [e \in Events |-> 0]
  /\ pc      = [p \in Publishers |-> "idle"]
  /\ claim   = [p \in Publishers |-> None]
  /\ attempt = [p \in Publishers |-> 0]
  /\ batch   = [p \in Publishers |-> 0]
  /\ faults  = 0

\* A handler commits its transaction, and the row with it.
Write(e) ==
  /\ ~Committed(e)
  /\ rows' = SetStatus(e, "PENDING")
  /\ UNCHANGED <<copies, publisherVars, faults>>

\* Mutant: expired claims are not recovered.
MutStartBatch(p) ==
  /\ pc[p] = "idle"
  /\ pc' = [pc EXCEPT ![p] = "select"]
  /\ UNCHANGED <<rows, copies, claim, attempt, batch, faults>>

\* _recover_expired_claims, the first statement of a batch.
StartBatch(p) ==
  /\ pc[p] = "idle"
  /\ rows' = [e \in Events |->
                IF rows[e].status = "PUBLISHING" /\ rows[e].expired
                THEN [rows[e] EXCEPT !.status = "PENDING", !.expired = FALSE]
                ELSE rows[e]]
  /\ pc' = [pc EXCEPT ![p] = "select"]
  /\ UNCHANGED <<copies, claim, attempt, batch, faults>>

\* _claim: lock a row ...
Select(p) ==
  /\ pc[p] = "select"
  /\ batch[p] < BatchSize
  /\ \E e \in Events :
       /\ Oldest(e)
       /\ claim' = [claim EXCEPT ![p] = e]
  /\ pc' = [pc EXCEPT ![p] = "claiming"]
  /\ UNCHANGED <<rows, copies, attempt, batch, faults>>

\* ... nothing to lock, or the batch is full ...
BatchDone(p) ==
  /\ pc[p] = "select"
  /\ batch[p] = BatchSize \/ ~ \E e \in Events : Claimable(e)
  /\ EndBatch(p)
  /\ UNCHANGED <<rows, copies, faults>>

\* ... and mark it PUBLISHING, claimed now.
Claim(p) ==
  LET e == claim[p]
  IN  /\ pc[p] = "claiming"
      /\ rows' = [rows EXCEPT ![e] = [status   |-> "PUBLISHING",
                                      attempts |-> @.attempts + 1,
                                      expired  |-> FALSE]]
      /\ attempt' = [attempt EXCEPT ![p] = rows[e].attempts + 1]
      /\ pc' = [pc EXCEPT ![p] = "send"]
      /\ UNCHANGED <<copies, claim, batch, faults>>

\* The bus accepts the message, or recognises a duplicate and drops it.
Accept(e) ==
  \/ copies' = [copies EXCEPT ![e] = @ + 1]
  \/ copies[e] > 0 /\ UNCHANGED copies

\* Mutant: a published event may be sent again at once.
MutSend(p) ==
  /\ pc[p] = "send"
  /\ Accept(claim[p])
  /\ \/ pc' = [pc EXCEPT ![p] = "mark"]
     \/ UNCHANGED pc
  /\ UNCHANGED <<rows, claim, attempt, batch, faults>>

Send(p) ==
  /\ pc[p] = "send"
  /\ Accept(claim[p])
  /\ pc' = [pc EXCEPT ![p] = "mark"]
  /\ UNCHANGED <<rows, claim, attempt, batch, faults>>

\* Mutant: a failed publish is taken for a success.
MutSendFails(p) ==
  /\ pc[p] = "send"
  /\ Fault
  /\ Accept(claim[p]) \/ UNCHANGED copies
  /\ pc' = [pc EXCEPT ![p] = "mark"]
  /\ UNCHANGED <<rows, claim, attempt, batch>>

\* publish raises: the message may have reached the bus or not.
SendFails(p) ==
  /\ pc[p] = "send"
  /\ Fault
  /\ Accept(claim[p]) \/ UNCHANGED copies
  /\ pc' = [pc EXCEPT ![p] = "release"]
  /\ UNCHANGED <<rows, claim, attempt, batch>>

\* _mark_published, whatever the row says by now.
MarkPublished(p) ==
  /\ pc[p] = "mark"
  /\ ~Locked(claim[p])
  /\ rows'    = SetStatus(claim[p], "PUBLISHED")
  /\ pc'      = [pc EXCEPT ![p] = "select"]
  /\ claim'   = [claim EXCEPT ![p] = None]
  /\ attempt' = [attempt EXCEPT ![p] = 0]
  /\ batch'   = [batch EXCEPT ![p] = @ + 1]
  /\ UNCHANGED <<copies, faults>>

\* Mutant: a failed event is marked PUBLISHED.
MutRelease(p) ==
  /\ pc[p] = "release"
  /\ ~Locked(claim[p])
  /\ rows' = SetStatus(claim[p], "PUBLISHED")
  /\ EndBatch(p)
  /\ UNCHANGED <<copies, faults>>

\* _release, whatever the row says by now; the exception ends the batch.
Release(p) ==
  /\ pc[p] = "release"
  /\ ~Locked(claim[p])
  /\ rows' = SetStatus(claim[p], "PENDING")
  /\ EndBatch(p)
  /\ UNCHANGED <<copies, faults>>

\* The process dies, or a statement of the batch fails.
Crash(p) ==
  /\ pc[p] # "idle"
  /\ Fault
  /\ EndBatch(p)
  /\ UNCHANGED <<rows, copies>>

\* A minute passes since the claim.  That a live publisher takes so long is a fault.
Expire(e) ==
  /\ rows[e].status = "PUBLISHING"
  /\ ~rows[e].expired
  /\ IF Held(e) THEN Fault ELSE UNCHANGED faults
  /\ rows' = [rows EXCEPT ![e].expired = TRUE]
  /\ UNCHANGED <<copies, publisherVars>>

-----------------------------------------------------------------------------
Publish(p) ==
  \/ StartBatch(p) \/ Select(p) \/ BatchDone(p) \/ Claim(p)
  \/ Send(p) \/ MarkPublished(p) \/ Release(p)

OutboxNext ==
  \/ \E e \in Events : Write(e) \/ Expire(e)
  \/ \E p \in Publishers : Publish(p) \/ SendFails(p) \/ Crash(p)

OutboxSpec == OutboxInit /\ [][OutboxNext]_outboxVars

\* A publisher that is alive keeps polling, and the clock keeps running.  Row
\* locks last one statement, so waiting for one is not starvation.
OutboxFairness ==
  /\ \A p \in Publishers : WF_outboxVars(Publish(p))
  /\ \A e \in Events : WF_outboxVars(~Held(e) /\ Expire(e))

FairOutboxSpec == OutboxSpec /\ OutboxFairness

-----------------------------------------------------------------------------
(* Properties *)

OutboxTypeOK ==
  /\ rows \in [Events -> Row]
  /\ copies \in [Events -> Nat]
  /\ pc \in [Publishers -> {"idle", "select", "claiming", "send", "mark", "release"}]
  /\ claim \in [Publishers -> Events \cup {None}]
  /\ \A p \in Publishers : claim[p] = None <=> pc[p] \in {"idle", "select"}
  /\ attempt \in [Publishers -> Nat]
  /\ batch \in [Publishers -> 0..BatchSize]
  /\ faults \in 0..MaxFaults

\* A row says PUBLISHED only if the bus has accepted its event, whoever claimed,
\* lost and reclaimed it: nothing is marked as sent and then forgotten.
PublishedWasSent ==
  \A e \in Events : rows[e].status = "PUBLISHED" => copies[e] > 0

\* The bus has an event twice only if its row was claimed again: the number of
\* messages never exceeds publish_attempts (events.py:176-203).
CopiesFromClaims ==
  \A e \in Events : copies[e] <= rows[e].attempts

\* No two publishers work on the same claim: whoever has an event another
\* publisher also has, claimed it after that claim was given up on.
ClaimsExclusive ==
  \A p, q \in Publishers :
    p # q /\ claim[p] # None /\ claim[p] = claim[q] => attempt[p] # attempt[q]

\* Every committed event gets to the bus and ends up PUBLISHED for good, once
\* faults stop: crashed claims expire, released rows are claimed again, and a
\* late release is itself repaired.
EveryEventPublished ==
  \A e \in Events : Committed(e) ~> [](rows[e].status = "PUBLISHED")

\* What each label of publish_batch may rely on: a row is locked once, a claim
\* in progress has its attempt, the row has had at least as many, before marking
\* the bus has answered, and a batch that claims is not full.
ClaimsInOrder ==
  \A p \in Publishers :
    /\ pc[p] \in {"idle", "select", "claiming"} => attempt[p] = 0
    /\ pc[p] \in {"send", "mark", "release"} =>
         attempt[p] > 0 /\ attempt[p] <= rows[claim[p]].attempts
    /\ pc[p] = "mark" => copies[claim[p]] > 0
    /\ claim[p] # None => batch[p] < BatchSize
    /\ \A q \in Publishers :
         p # q /\ pc[p] = "claiming" /\ pc[q] = "claiming" => claim[p] # claim[q]

\* Inductive: it holds at first and every step keeps it.
OutboxIInv ==
  /\ OutboxTypeOK
  /\ ClaimsInOrder
  /\ PublishedWasSent
  /\ ClaimsExclusive

\* A claim sends once: what the bus has, and what it is about to get, never
\* exceeds publish_attempts.
Sending(e) == {p \in Publishers : pc[p] = "send" /\ claim[p] = e}
SendsCounted == \A e \in Events : copies[e] + Cardinality(Sending(e)) <= rows[e].attempts

OutboxInv == OutboxIInv /\ SendsCounted

\* What the comment above _claim promises: publishers cooperate without
\* publishing the same row.
NeverTheSameRow ==
  \A p, q \in Publishers :
    p # q /\ pc[p] = "send" /\ pc[q] = "send" => claim[p] # claim[q]
=============================================================================
