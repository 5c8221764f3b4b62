----------------------------- MODULE AttackTree -----------------------------
(***************************************************************************)
(* Attack trees: the check a proposed tree must pass                       *)
(* (attack_tree_structure_is_valid of bantam/repository_graph.py) and the  *)
(* simulation of one year over it (simulate_scenario of                    *)
(* attack_simulation.py).                                                  *)
(*                                                                         *)
(* Probabilities are counted in parts of Scale, a random number is one of  *)
(* 0 .. Scale - 1, and a generator is the sequence of its numbers from a   *)
(* seed on. A PERT sample, which the code makes of many numbers, takes one *)
(* here. The children of a node are tried in the order of their ids, which *)
(* stands for the order in which the tree lists its edges.                 *)
(***************************************************************************)
EXTENDS Listings

CONSTANTS
  AttackNodes,    \* ids a proposed tree may use, in the order of their edges
  MaxTreeDepth,   \* MAX_ATTACK_TREE_DEPTH
  Scale,          \* a certain success
  Attempts,       \* attempts in the year, the first sample of every run
  MaxGross,       \* maximum_credible_single_loss_gbp
  RetentionGbp, CoverGbp,  \* of the insurance
  Multiplier      \* detected_loss_multiplier, in parts of Scale

ASSUME AttackTreeAssumption ==
  /\ IsFiniteSet(AttackNodes) /\ AttackNodes \subseteq Nat
  /\ {MaxTreeDepth, Attempts, MaxGross, RetentionGbp, CoverGbp, Multiplier} \subseteq Nat
  /\ Scale \in Nat \ {0}

VARIABLES
  tree,           \* [root, nodes, edges, operator, kind, repeats]
  chance,         \* success and detection probability of each node
  control,        \* what the selected remediations take off each success probability
  numbers,        \* the random numbers of the seed
  compared        \* the losses of the baseline and of the residual run

attackTreeVars == <<tree, chance, control, numbers, compared>>

\* A proposal as the schema lets it through: edges may name ids of no node, whose
\* operator and kind are never read. It repeats if two nodes have one id, or two
\* edges are the same.
Proposals ==
  [root : AttackNodes, nodes : SUBSET AttackNodes, edges : SUBSET (AttackNodes \X AttackNodes),
   operator : [AttackNodes -> {"LEAF", "AND", "OR"}],
   kind : [AttackNodes -> {"GOAL", "SUBGOAL", "ACTION"}], repeats : BOOLEAN]

Children(id) == {c \in {e[2] : e \in tree.edges} : <<id, c>> \in tree.edges}
Leaves == {id \in tree.nodes : tree.operator[id] = "LEAF"}

(***************************************************************************)
(* attack_tree_structure_is_valid                                          *)
(***************************************************************************)
Incoming(id) == Cardinality({e \in tree.edges : e[2] = id})

\* visit of a node with those being visited and those visited, with so many levels
\* left: whether the nodes under it can be visited, and those visited then.
Visiting == AttackNodes \X (SUBSET AttackNodes) \X (SUBSET AttackNodes)

Visit(ok, visited) == [ok |-> ok, visited |-> visited]

VisitRoot ==
  LET visit[left \in 0 .. MaxTreeDepth] == [call \in Visiting |->
        IF left = 0 \/ call[1] \in call[2] THEN Visit(FALSE, call[3])
        ELSE IF call[1] \in call[3] THEN Visit(TRUE, call[3])
        ELSE LET below == FoldLeft(LAMBDA r, c :
                             IF r.ok THEN visit[left - 1][<<c, call[2] \cup {call[1]}, r.visited>>] ELSE r,
                           Visit(TRUE, call[3]), InOrder(Children(call[1])))
             IN  IF below.ok THEN Visit(TRUE, below.visited \cup {call[1]}) ELSE below]
  IN  visit[MaxTreeDepth][<<tree.root, {}, {}>>]

WellFormedNode(id) ==
  IF tree.operator[id] = "LEAF" THEN Children(id) = {} /\ tree.kind[id] = "ACTION"
  ELSE Cardinality(Children(id)) >= 2 /\ tree.kind[id] # "ACTION"

\* Mutant: whether all nodes were visited is not asked.
MutVisitsAll == VisitRoot.ok

VisitsAll == VisitRoot.ok /\ VisitRoot.visited = tree.nodes

StructureIsValid ==
  /\ ~tree.repeats
  /\ tree.root \in tree.nodes
  /\ \A id \in tree.nodes : tree.kind[id] = "GOAL" <=> id = tree.root
  /\ \A e \in tree.edges : e[1] \in tree.nodes /\ e[2] \in tree.nodes /\ e[1] # e[2]
  /\ \A id \in tree.nodes : Incoming(id) = IF id = tree.root THEN 0 ELSE 1
  /\ \A id \in tree.nodes : WellFormedNode(id)
  /\ VisitsAll

(***************************************************************************)
(* _attempt                                                                *)
(***************************************************************************)
\* The next number of the generator; the model's run short and then repeat.
NumberAt(n) == numbers[((n - 1) % Len(numbers)) + 1]
Bernoulli(n, probability) == NumberAt(n) < probability

SuccessProbability(id, controlled) ==
  IF controlled THEN (chance[id].success * (Scale - control[id])) \div Scale ELSE chance[id].success

\* The outcome, the leaves it took, the leaves that were tried, and the index of
\* the next random number.
Outcome(ok, path, tried, at) == [ok |-> ok, path |-> path, tried |-> tried, at |-> at]

\* What the children so far come to, with the outcome of one more.
With(r, one, all) ==
  Outcome(one.ok, IF ~one.ok THEN << >> ELSE IF all THEN r.path \o one.path ELSE one.path,
          r.tried \o one.tried, one.at)

\* An attempt on a node from a random number on, with so many levels left. The
\* children are tried until one decides; an AND node needs some leaf.
Attempt(root, controlled, start) ==
  LET attempt[left \in 0 .. MaxTreeDepth + 1] == [call \in AttackNodes \X Nat |->
        LET id == call[1]
            at == call[2]
        IN  IF id \notin tree.nodes \/ left = 0 THEN Outcome(FALSE, << >>, << >>, at)
            ELSE IF tree.operator[id] = "LEAF" THEN
              LET ok == Bernoulli(at, SuccessProbability(id, controlled))
              IN  Outcome(ok, IF ok THEN <<id>> ELSE << >>, <<id>>, at + 1)
            ELSE
              LET all == tree.operator[id] = "AND"
                  r == FoldLeft(LAMBDA q, c :
                         IF q.ok # all THEN q ELSE With(q, attempt[left - 1][<<c, q.at>>], all),
                       Outcome(all, << >>, << >>, at), InOrder(Children(id)))
              IN  Outcome(r.ok /\ (all => r.path # << >>), r.path, r.tried, r.at)]
  IN  attempt[MaxTreeDepth + 1][<<root, start>>]

(***************************************************************************)
(* simulate_scenario, one year                                             *)
(***************************************************************************)
\* any(bernoulli for leaf in path): stops at the first leaf that is detected.
Detect(path, at) ==
  LET seen == {i \in DOMAIN path : Bernoulli(at + i - 1, chance[path[i]].detection)}
  IN  [detected |-> seen # {}, at |-> at + IF seen = {} THEN Len(path) ELSE Min(seen)]

\* What an event costs after the multiplier, the cap and the insurance.
NetLoss(sample, detected) ==
  LET seen == IF detected THEN (sample * Multiplier) \div Scale ELSE sample
      gross == IF seen > MaxGross THEN MaxGross ELSE seen
      over == IF gross - RetentionGbp < CoverGbp THEN gross - RetentionGbp ELSE CoverGbp
  IN  IF over > 0 THEN gross - over ELSE gross

\* One attempt after those before it: primary and secondary loss, then detection.
Year(y, controlled) ==
  LET attempt == Attempt(tree.root, controlled, y.at)
      sample == NumberAt(attempt.at) + NumberAt(attempt.at + 1)
      detection == Detect(attempt.path, attempt.at + 2)
  IN  IF attempt.ok THEN [loss |-> y.loss + NetLoss(sample, detection.detected), at |-> detection.at]
      ELSE [loss |-> y.loss, at |-> attempt.at]

AnnualLoss(controlled) ==
  FoldLeft(LAMBDA y, i : Year(y, controlled), [loss |-> 0, at |-> 1], [i \in 1 .. Attempts |-> i]).loss

\* simulate: the same scenario and seed without and with the remediations. Only a
\* tree that passed the check was stored.
NotCompared == [baseline |-> 0, residual |-> 0, done |-> FALSE]

CompareRuns ==
  /\ StructureIsValid
  /\ ~compared.done
  /\ compared' = [baseline |-> AnnualLoss(FALSE), residual |-> AnnualLoss(TRUE), done |-> TRUE]
  /\ UNCHANGED <<tree, chance, control, numbers>>

\* What a simulation is given stays as it was proposed, priced and seeded.
AttackTreeInv ==
  /\ tree \in Proposals
  /\ chance \in [AttackNodes -> [success : 0 .. Scale, detection : 0 .. Scale]]
  /\ control \in [AttackNodes -> 0 .. Scale]
  /\ numbers \in Seq(0 .. Scale - 1) \ {<< >>}

AttackTreeInit == AttackTreeInv /\ compared = NotCompared

AttackTreeSpec == AttackTreeInit /\ [][CompareRuns]_attackTreeVars

(***************************************************************************)
(* Properties                                                              *)
(***************************************************************************)
\* A tree, said otherwise: one edge less than nodes, and every node some way
\* below the root, in fewer levels than MaxTreeDepth.
Level ==
  LET f[n \in 0 .. MaxTreeDepth] ==
        IF n = 0 THEN {tree.root} ELSE UNION {Children(id) : id \in f[n - 1]}
  IN  f

IsTree ==
  /\ Cardinality(tree.edges) = Cardinality(tree.nodes) - 1
  /\ UNION {Level[n] : n \in 0 .. MaxTreeDepth - 1} = tree.nodes
  /\ Level[MaxTreeDepth] = {}

\* Whether the leaves in won reach a node: some nodes with it that they justify.
Reaches(id, won) ==
  \E S \in SUBSET tree.nodes :
    /\ id \in S
    /\ \A n \in S : CASE tree.operator[n] = "LEAF" -> n \in won
                     [] tree.operator[n] = "AND"  -> Children(n) \subseteq S
                     [] OTHER -> Children(n) \cap S # {}

\* The check accepts trees and nothing else: no cycle beside the tree, no shared
\* node, none too deep, whatever order it visits them in. And over a tree it
\* accepts, an attempt that stops early decides as if every leaf had been tried,
\* is never cut off by the depth limit, and names leaves that reach the goal.
AttackTreesSound ==
  /\ StructureIsValid =>
       /\ IsTree
       /\ LET attempt == Attempt(tree.root, FALSE, 1)
              tried == attempt.tried
              won == {tried[i] : i \in {n \in DOMAIN tried : Bernoulli(n, chance[tried[n]].success)}}
          IN  /\ attempt.ok <=> Reaches(tree.root, won)
              /\ attempt.ok <=> Reaches(tree.root, won \cup (Leaves \ Range(tried)))
              /\ attempt.ok => Range(attempt.path) \subseteq won /\ Reaches(tree.root, Range(attempt.path))
  /\ /\ ~tree.repeats /\ IsTree
     /\ \A id \in tree.nodes : WellFormedNode(id) /\ (tree.kind[id] = "GOAL" <=> id = tree.root)
     => StructureIsValid

\* "the difference reflects the modelled control effects alone": where detection
\* does not change a loss, a control that only makes steps fail more often cannot
\* raise the loss of the same seed.
DifferenceIsControlEffects ==
  Multiplier = Scale => compared.residual <= compared.baseline
=============================================================================
