----------------------------- MODULE MCServices -----------------------------
(***************************************************************************)
(* Small instances of Consumers and Database. They share nothing in the    *)
(* model, and each behaviour plays one scene:                              *)
(*   workers     a high transfer between two customers and its alert       *)
(*   pool        three requests, two connections                           *)
(*   migrations  two replicas of one release and a replica of the next     *)
(***************************************************************************)
EXTENDS Consumers, Database, TLC

CONSTANTS high, flag, alice, bob, old1, old2, new

VARIABLE scene

MCCreatedAt  == [e \in Events |-> IF e = high THEN 1 ELSE 2]
MCFlagOf     == [t \in High |-> flag]
MCRecipients == [t \in Transfers |-> {alice, bob}]
MCShips      == [s \in Servers |-> IF s = new THEN 3 ELSE 2]

ServicesInit ==
  /\ scene \in {"workers", "pool", "migrations"}
  /\ Init
  /\ DatabaseInit

ServicesNext ==
  /\ \/ scene = "workers" /\ Next /\ UNCHANGED databaseAllVars
     \/ scene = "pool" /\ PoolNext /\ UNCHANGED vars
     \/ scene = "migrations" /\ MigrationNext /\ UNCHANGED vars
  /\ UNCHANGED scene

\* The inductive invariants of both modules with their types: what workers and
\* servers rely on at each label; a worker that holds no message has no recipient
\* left, and no more connections are out than the pool has.
ServicesTypes == PipelineInv /\ MigrationInv /\ PoolInv

\* The workers and publishers are fair on their own scene; an idle publisher would
\* poll behind any other, where nothing but its own scene's steps can happen. A
\* request that nobody sent is never enabled, so the pool needs no such care.
ServicesSpec ==
  /\ ServicesInit
  /\ [][ServicesNext]_<<vars, databaseAllVars, scene>>
  /\ scene = "workers" => Fairness
  /\ PoolFairness
=============================================================================
