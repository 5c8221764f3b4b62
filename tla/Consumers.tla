----------------------------- MODULE Consumers ------------------------------
(***************************************************************************)
(* The event pipeline end to end: Outbox, and behind the bus the two       *)
(* durable consumers, the risk worker and the notification worker.  Both   *)
(* are handed a message again and again until they acknowledge it; several *)
(* processes of one consumer may hold the same message at once; they die   *)
(* anywhere.  The risk worker writes to the outbox in turn.                *)
(*                                                                         *)
(* Only what the workers do with payment.transfer_posted.v1 matters: other *)
(* events have no consumer.                                                *)
(***************************************************************************)
EXTENDS Outbox

CONSTANTS
  Transfers,    \* the events that are payment.transfer_posted.v1
  High,         \* those whose amount is above the risk threshold
  FlagOf,       \* the risk.transaction_flagged.v1 event of a high transfer
  Recipients,   \* for every transfer, the customer accounts it touches
  RiskWorkers, NotificationWorkers

Workers == RiskWorkers \cup NotificationWorkers

ASSUME ConsumersAssumption ==
  /\ Transfers \subseteq Events
  /\ High \subseteq Transfers
  /\ FlagOf \in [High -> Events \ Transfers]
  /\ \A t, o \in High : FlagOf[t] = FlagOf[o] => t = o
  /\ RiskWorkers \cap NotificationWorkers = {}

VARIABLES
  acked,         \* per consumer, the messages it will not be sent again
  alerts,        \* risk_alerts rows of rule HIGH_VALUE_TRANSFER per transfer
  notifications, \* notifications rows per transfer and recipient
  at,            \* what each worker is doing
  handling,      \* the message a worker holds, as <<event, copy>>
  todo           \* the recipients a notification worker has yet to write

workerVars == <<acked, alerts, notifications, at, handling, todo>>
vars       == <<outboxVars, workerVars>>

-----------------------------------------------------------------------------
Consumer(w) == IF w \in RiskWorkers THEN "risk" ELSE "notification"
NoMessage   == <<None, 0>>
Transfer(w) == handling[w][1]

Messages(t) == {<<t, n>> : n \in 1..copies[t]}
Outstanding(c) == (UNION {Messages(t) : t \in Transfers}) \ acked[c]

Rows(t) == IF t \in Transfers THEN Recipients[t] ELSE {}

\* Mutant: the recipients of the last message are kept.
MutPutDown(w) ==
  /\ at'       = [at EXCEPT ![w] = "idle"]
  /\ handling' = [handling EXCEPT ![w] = NoMessage]
  /\ UNCHANGED todo

PutDown(w) ==
  /\ at'       = [at EXCEPT ![w] = "idle"]
  /\ handling' = [handling EXCEPT ![w] = NoMessage]
  /\ todo'     = [todo EXCEPT ![w] = {}]

Init ==
  /\ OutboxInit
  /\ acked = [c \in {"risk", "notification"} |-> {}]
  /\ alerts = [t \in High |-> 0]
  /\ notifications = [t \in Transfers |-> [r \in Recipients[t] |-> 0]]
  /\ at = [w \in Workers |-> "idle"]
  /\ handling = [w \in Workers |-> NoMessage]
  /\ todo = [w \in Workers |-> {}]

-----------------------------------------------------------------------------
\* fetch or pull: any unacknowledged message, even one another worker holds
\* (its ack deadline may have passed).  create_notifications reads the
\* recipients first.
Fetch(w) ==
  /\ at[w] = "idle"
  /\ \E m \in Outstanding(Consumer(w)) :
       /\ handling' = [handling EXCEPT ![w] = m]
       /\ todo' = [todo EXCEPT ![w] =
                     IF w \in NotificationWorkers THEN Recipients[m[1]] ELSE {}]
  /\ at' = [at EXCEPT ![w] = "handle"]
  /\ UNCHANGED <<outboxVars, acked, alerts, notifications>>

\* Mutant: the alert is written without its event.
MutAlert(w) ==
  LET t == Transfer(w)
  IN  /\ at[w] = "handle"
      /\ w \in RiskWorkers
      /\ alerts' = IF t \in High THEN [alerts EXCEPT ![t] = 1] ELSE alerts
      /\ at' = [at EXCEPT ![w] = "ack"]
      /\ UNCHANGED <<outboxVars, acked, notifications, handling, todo>>

\* create_risk_alert: at or below the threshold, nothing.  Above it the alert,
\* ON CONFLICT DO NOTHING, and only if it was created its event, in one
\* transaction.
Alert(w) ==
  LET t == Transfer(w)
  IN  /\ at[w] = "handle"
      /\ w \in RiskWorkers
      /\ IF t \in High /\ alerts[t] = 0
         THEN /\ alerts' = [alerts EXCEPT ![t] = 1]
              /\ Write(FlagOf[t])
         ELSE UNCHANGED <<alerts, outboxVars>>
      /\ at' = [at EXCEPT ![w] = "ack"]
      /\ UNCHANGED <<acked, notifications, handling, todo>>

\* One INSERT ... ON CONFLICT DO NOTHING per recipient, each its own commit.
Notify(w) ==
  LET t == Transfer(w)
  IN  /\ at[w] = "handle"
      /\ w \in NotificationWorkers
      /\ \E r \in todo[w] :
           /\ notifications' = [notifications EXCEPT ![t][r] = IF @ = 0 THEN 1 ELSE @]
           /\ todo' = [todo EXCEPT ![w] = @ \ {r}]
      /\ UNCHANGED <<outboxVars, acked, alerts, at, handling>>

Notified(w) ==
  /\ at[w] = "handle"
  /\ w \in NotificationWorkers
  /\ todo[w] = {}
  /\ at' = [at EXCEPT ![w] = "ack"]
  /\ UNCHANGED <<outboxVars, acked, alerts, notifications, handling, todo>>

Ack(w) ==
  /\ at[w] = "ack"
  /\ acked' = [acked EXCEPT ![Consumer(w)] = @ \cup {handling[w]}]
  /\ PutDown(w)
  /\ UNCHANGED <<outboxVars, alerts, notifications>>

\* handle raises (the message is nak'ed, or left to its deadline), the ack is
\* lost, or the process dies.
Drop(w) ==
  /\ at[w] # "idle"
  /\ Fault
  /\ PutDown(w)
  /\ UNCHANGED <<rows, copies, publisherVars, acked, alerts, notifications>>

-----------------------------------------------------------------------------
\* Flagged events are written by the risk worker only.
Flags == {FlagOf[t] : t \in High}

Producers ==
  /\ \/ \E e \in Events \ Flags : Write(e)
     \/ \E e \in Events : Expire(e)
     \/ \E p \in Publishers : Publish(p) \/ SendFails(p) \/ Crash(p)
  /\ UNCHANGED workerVars

Handle(w) == Alert(w) \/ Notify(w) \/ Notified(w) \/ Ack(w)

Next == Producers \/ \E w \in Workers : Fetch(w) \/ Handle(w) \/ Drop(w)

Spec == Init /\ [][Next]_vars

\* The bus hands every unacknowledged message out again; faults are bounded.
Fairness ==
  /\ \A p \in Publishers : WF_vars(Publish(p) /\ UNCHANGED workerVars)
  /\ \A e \in Events : WF_vars(~Held(e) /\ Expire(e) /\ UNCHANGED workerVars)
  /\ \A w \in Workers : WF_vars(Fetch(w)) /\ WF_vars(Handle(w))

FairSpec == Spec /\ Fairness

-----------------------------------------------------------------------------
(* Properties *)

TypeOK ==
  /\ OutboxTypeOK
  /\ acked \in [{"risk", "notification"} -> SUBSET (Transfers \X (Nat \ {0}))]
  /\ alerts \in [High -> Nat]
  /\ DOMAIN notifications = Transfers
  /\ \A t \in Transfers : notifications[t] \in [Recipients[t] -> Nat]
  /\ at \in [Workers -> {"idle", "handle", "ack"}]
  /\ handling \in [Workers -> (Transfers \X (Nat \ {0})) \cup {NoMessage}]
  /\ DOMAIN todo = Workers
  /\ \A w \in Workers :
       /\ handling[w] = NoMessage <=> at[w] = "idle"
       /\ todo[w] \subseteq Rows(Transfer(w))

\* However often a transfer is published, delivered and handled, it raises at
\* most one alert and notifies each customer account at most once; the alert
\* has its own event in the outbox, exactly when it exists. A message is
\* acknowledged only when its work is committed, all of it: a crash after some
\* of the notifications leaves the message with the bus.
EffectsOnce ==
  /\ \A t \in High : alerts[t] <= 1 /\ (alerts[t] = 1 <=> Committed(FlagOf[t]))
  /\ \A t \in Transfers : \A r \in Recipients[t] : notifications[t][r] <= 1
  /\ \A m \in acked["risk"] : m[1] \in High => alerts[m[1]] > 0
  /\ \A m \in acked["notification"] :
       \A r \in Recipients[m[1]] : notifications[m[1]][r] > 0

\* What a worker may rely on at each of its labels: a claimed row was committed, a
\* risk worker acknowledges after its alert, a notification worker has written to
\* everybody who is no longer on its list, and acknowledges when nobody is.
WorkInOrder ==
  /\ \A p \in Publishers : claim[p] # None => Committed(claim[p])
  /\ \A w \in RiskWorkers :
       at[w] = "ack" /\ Transfer(w) \in High => alerts[Transfer(w)] > 0
  /\ \A w \in NotificationWorkers :
       /\ at[w] = "ack" => todo[w] = {}
       /\ at[w] # "idle" =>
            \A r \in Rows(Transfer(w)) \ todo[w] : notifications[Transfer(w)][r] > 0

\* Inductive: it holds at first and every step keeps it.
PipelineInv ==
  /\ OutboxInv
  /\ TypeOK
  /\ WorkInOrder
  /\ EffectsOnce

\* Every committed transfer eventually has its alert and its notifications.
EveryTransferHandled ==
  \A t \in Transfers :
    Committed(t) ~>
      /\ t \in High => alerts[t] = 1
      /\ \A r \in Recipients[t] : notifications[t][r] = 1
=============================================================================
