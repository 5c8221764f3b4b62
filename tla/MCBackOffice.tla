---------------------------- MODULE MCBackOffice ----------------------------
(***************************************************************************)
(* Small instances of the modules around the ledger. They share nothing in *)
(* the model, and each behaviour plays one scene:                          *)
(*   database  the limiters of two requests for one address and account    *)
(*   memory    the limiter in memory with more keys than it holds          *)
(*   body      one request body                                            *)
(*   quota     three plans asked for in three sessions of two accounts     *)
(*   runs      one plan and two requests that run probes                   *)
(*   graphs    programs of three functions and four Terraform blocks       *)
(*   trees     graphs of up to seven nodes                                 *)
(*   snapshots two requests to the attack lab, up to scenario sets         *)
(*   advice    the same, up to simulations and plans, of built-in graphs  *)
(***************************************************************************)
EXTENDS Limits, AsvsPlans, WorkflowGraph, AttackTree, AttackLab, TLC

CONSTANTS
  proxy, real, forged,
  s1, s2, s3, a1, a2,
  old, new, commit1, commit2, n1, n2, n3

VARIABLE scene

\* What the client claims, followed by what its own proxy appends.
MCChains == {<<real>>, <<forged, real>>}

MCOwner == s1 :> a1 @@ s2 :> a1 @@ s3 :> a2

MCNodesOf == old :> {n1} @@ new :> {n2, n3} @@ commit1 :> {n1} @@ commit2 :> {n1, n2}

(***************************************************************************)
(* Programs: every short program of functions 1, 2 and 3, and every way in *)
(* which four blocks may refer to each other's addresses.                  *)
(***************************************************************************)
MCPathOf == <<"shared", "shared", "other">>
MCRolesOf == <<{"CUSTOMER"}, {"BANK_ADMIN", "ASPIS_ADMIN"}, {"PUBLIC"}>>
MCAddressOf == <<"a", "b", "c", "a">>
MCDocumented == {Fn(2), Block(1)}
MCRewritten == {Own(2, 1), Own(2, 2)}

EventsOf(f, n) == BoundedSeq({0} \cup (Functions \ {f}), n)

Programs ==
  [events: {<<e1, e2, e3>> : e1 \in EventsOf(1, 2), e2 \in EventsOf(2, 2), e3 \in EventsOf(3, 1)},
   routes: {{1}, {1, 2}, {1, 3}}, constrained: {{1}}, refers: {<<{}, {"a"}, {}, {}>>}]
  \cup
  [events: {<< <<2, 3>>, << >>, << >> >>}, routes: {{1}}, constrained: {{}},
   refers: {<<b1, b2, b3, b4>> : b1 \in SUBSET {"b", "c"}, b2 \in SUBSET {"a", "c"},
                                 b3 \in SUBSET {"a", "b"}, b4 \in SUBSET {"a", "b", "c"}}]

(***************************************************************************)
(* Trees: every graph over two or three nodes, a good one with one field   *)
(* spoiled, and every way to hang four more nodes under 2 and 3.           *)
(***************************************************************************)
Shape(ids, edges, op) ==
  LET inner(id) == \E e \in edges : e[1] = id
  IN  [root |-> 1, nodes |-> ids, edges |-> edges, repeats |-> FALSE,
       operator |-> [id \in AttackNodes |-> IF inner(id) THEN op ELSE "LEAF"],
       kind |-> [id \in AttackNodes |-> IF id = 1 THEN "GOAL" ELSE IF inner(id) THEN "SUBGOAL" ELSE "ACTION"]]

Operators == {"AND", "OR"}
Fork == {<<1, 2>>, <<1, 3>>}
Balanced == Fork \cup {<<2, 4>>, <<2, 5>>, <<3, 6>>, <<3, 7>>}

SmallGraphs == {Shape(ids, edges, op) :
  ids \in {{1, 2}, {1, 2, 3}}, edges \in SUBSET ((1 .. 3) \X (1 .. 3)), op \in Operators}

Misfits == {[Shape(1 .. 3, Fork, op) EXCEPT !.kind[2] = k, !.operator[3] = o, !.repeats = r] :
  op \in Operators, k \in {"GOAL", "SUBGOAL", "ACTION"}, o \in {"AND", "LEAF"}, r \in BOOLEAN}

Hangings == {Shape(1 .. 7, Fork \cup {<<parent[i], i>> : i \in 4 .. 7}, op) :
  parent \in [4 .. 7 -> 1 .. 7], op \in Operators}

Mixed == {[Shape(1 .. 7, Balanced, "OR") EXCEPT !.operator[1] = o1, !.operator[2] = o2, !.operator[3] = o3] :
  o1, o2, o3 \in Operators}

AnyTree ==
  \/ tree \in SmallGraphs \cup Misfits \cup Hangings /\ numbers \in {<<0, 1, 1>>, <<1, 0, 1, 0, 0>>}
  \/ tree \in Mixed /\ numbers \in [1 .. 4 -> {0, 1}]

SomeProgram == [events |-> << << >>, << >>, << >> >>, routes |-> {}, constrained |-> {}, refers |-> <<{}, {}, {}, {}>>]
SomeTree == [Shape(1 .. 3, Fork, "AND") EXCEPT !.repeats = TRUE]

\* What the scenes begin with is what the builders read and what the schema lets
\* through, and a random number can be 0 or 1.
ASSUME InstanceAssumption ==
  /\ Programs \cup {SomeProgram} \subseteq Program
  /\ SmallGraphs \cup Misfits \cup Hangings \cup Mixed \cup {SomeTree} \subseteq Proposals
  /\ Scale > 1

BackOfficeInit ==
  /\ scene \in {"database", "memory", "body", "quota", "runs", "graphs", "trees", "snapshots", "advice"}
  /\ LimitsInit /\ AsvsInit
  /\ AttackLabInit /\ (branch = commit1 \/ scene = "snapshots")
  /\ IF scene = "graphs" THEN program \in Programs ELSE program = SomeProgram
  /\ IF scene = "trees" THEN AnyTree ELSE tree = SomeTree /\ numbers = <<0>>
  /\ chance = [id \in AttackNodes |-> [success |-> 1, detection |-> 0]]
  /\ control = [id \in AttackNodes |-> 0]
  /\ compared = NotCompared
  /\ catalogs = NotBuilt

\* The scene "runs" has one plan at most, of session s3.
OnePlan ==
  /\ Cardinality({g \in Generations : asking'[g] # NewAsk}) <= 1
  /\ \A g \in Generations : asking'[g].session \in {s3, NoPlan}

BackOfficeNext ==
  /\ UNCHANGED scene
  /\ \/ /\ \/ scene = "database" /\ (DatabaseLimiterNext \/ LimitsTick)
           \/ scene = "memory" /\ (MemoryLimiterNext \/ LimitsTick)
           \/ scene = "body" /\ BodyNext
        /\ UNCHANGED <<asvsVars, workflowGraphVars, attackTreeVars, attackLabVars>>
     \/ /\ \/ scene = "quota" /\ (AsvsTick \/ \E g \in Generations : GenerationStep(g))
           \/ scene = "runs" /\ AsvsNext /\ OnePlan
        /\ UNCHANGED <<limitsVars, workflowGraphVars, attackTreeVars, attackLabVars>>
     \/ /\ scene = "graphs" /\ BuildCatalogs
        /\ UNCHANGED <<limitsVars, asvsVars, attackTreeVars, attackLabVars>>
     \/ /\ scene = "trees" /\ CompareRuns
        /\ UNCHANGED <<limitsVars, asvsVars, workflowGraphVars, attackLabVars>>
     \/ /\ \/ scene = "snapshots" /\ AttackLabNext /\ UNCHANGED <<simulations, plans>>
           \/ scene = "advice" /\ AttackLabNext /\ UNCHANGED <<snapshots, branch>>
        /\ UNCHANGED <<limitsVars, asvsVars, workflowGraphVars, attackTreeVars>>

BackOfficeSpec ==
  /\ BackOfficeInit
  /\ [][BackOfficeNext]_<<scene, limitsVars, asvsVars, workflowGraphVars, attackTreeVars, attackLabVars>>

\* Counters, plans, runs and lab tables are of their types, the limiter in memory
\* never holds more keys than it may, and a body that reaches a route is whole; with
\* them the inductive invariants: what a reservation, a live run, an approved plan
\* and a request to the lab rely on between two of their statements, that a stored
\* catalogue was built of the program it belongs to, and that a simulation keeps what
\* it was given.
BackOfficeTypes ==
  /\ scene \in {"database", "memory", "body"} => LimitsInv
  /\ scene \in {"quota", "runs"} => AsvsInv
  /\ scene \in {"snapshots", "advice"} => LabInv
  /\ scene = "graphs" => WorkflowGraphInv
  /\ scene = "trees" => AttackTreeInv

MCSymmetry == Permutations(Requests)
=============================================================================
