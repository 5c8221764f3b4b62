--------------------------- MODULE WorkflowGraph ---------------------------
(***************************************************************************)
(* The catalogues of bantam/workflow_graph.py and repository_graph.py:     *)
(* a graph extracted from Python functions or Terraform blocks, the        *)
(* default flows expanded from it, the two validators of workflows, and    *)
(* the projection of a catalogue that is sent to a model.                  *)
(*                                                                         *)
(* A program is what the builders read: the events of every function in    *)
(* the order of their lines, the routes, the functions whose statements    *)
(* meet a trigger's table, and what blocks refer to. (A trigger that no    *)
(* statement meets is a node like any other and left out.) An event is a   *)
(* call of another function, or 0 for a check, a transaction or a          *)
(* statement of the function itself. Functions and blocks are numbered in  *)
(* the order in which the builders sort them.                              *)
(***************************************************************************)
EXTENDS Listings

CONSTANTS
  Functions, Blocks,  \* 1 .. number of functions, of Terraform blocks
  PathOf, RolesOf,    \* path and roles of each function's route, if it has one
  SystemSymbols,      \* the functions SYSTEM_FLOWS names
  Private, Mains,     \* functions named "_...", and those of main or cli files
  AddressOf,          \* address of each block
  Entries,            \* blocks that are a resource, a module or an output
  Documented,         \* nodes the only document mentions
  Rewritten,          \* nodes whose id redact_sensitive_text does not leave alone
  MaxCallDepth,       \* 2 in _expand
  MaxSequence,        \* 160
  MaxDependencyDepth, \* 8 in _dependency_sequence
  MaxEntryFlows,      \* 200 in _system_flows
  MaxModelFlows, MaxModelNodes, MaxModelEdges,
  MinModelNodes       \* 20: a projection is not reduced further

\* A route has the roles its function is open to; the system has no route.
ASSUME WorkflowGraphAssumption ==
  /\ IsFiniteSet(Functions) /\ Functions \subseteq Nat \ {0}
  /\ IsFiniteSet(Blocks) /\ Blocks \subseteq Nat \ {0}
  /\ \A f \in Functions : "SYSTEM" \notin RolesOf[f]
  /\ SystemSymbols \subseteq Functions /\ Entries \subseteq Blocks
  /\ {MaxCallDepth, MaxDependencyDepth, MaxEntryFlows, MaxModelFlows, MaxModelNodes, MaxModelEdges,
      MinModelNodes} \subseteq Nat
  /\ MaxSequence \in Nat \ {0}

VARIABLES
  program,      \* [events, routes, constrained, refers]: see above
  catalogs      \* what was built of it: load_catalog, and a repository's snapshot

workflowGraphVars == <<program, catalogs>>

Fn(f) == <<"function", f>>
Own(f, i) == <<"event", f, i>>
Route(f) == <<"route", PathOf[f]>>
Constraint == <<"constraint", 0>>
Block(b) == <<"block", b>>
Doc == <<"documentation", 0>>

Kind(node) == node[1]
Pairs(s) == {<<s[i], s[i + 1]>> : i \in 1 .. Len(s) - 1}
Edges(type, pairs) == {<<p[1], p[2], type>> : p \in pairs}

\* _dedupe_consecutive(sequence[:160])
Unrepeated(s) ==
  FoldLeft(LAMBDA kept, x : IF kept # << >> /\ Last(kept) = x THEN kept ELSE Append(kept, x), << >>, s)

Shorten(s) == Unrepeated(FirstOf(s, MaxSequence))

(***************************************************************************)
(* CatalogBuilder                                                          *)
(***************************************************************************)
\* Calls of a function to itself are no events.
CalledBy(p, f) == {p.events[f][i] : i \in DOMAIN p.events[f]} \ {0}
Owns(p, f) == {Own(f, i) : i \in {j \in DOMAIN p.events[f] : p.events[f][j] = 0}}

PythonNodes(p) ==
  (UNION {{Fn(f)} \cup Owns(p, f) : f \in Functions}) \cup {Route(f) : f \in p.routes}
  \cup {Constraint : f \in p.constrained}

PythonEdges(p) ==
  (UNION {Edges("calls", {<<Fn(f), Fn(g)>> : g \in CalledBy(p, f)})
          \cup Edges("contains", {<<Fn(f), n>> : n \in Owns(p, f)}) : f \in Functions})
  \cup Edges("handled_by", {<<Route(f), Fn(f)>> : f \in p.routes})
  \cup Edges("enforced_by", UNION {Owns(p, f) \X {Constraint} : f \in p.constrained})

\* _expand, with so many levels left, for a function reached through those of a stack.
Call == Functions \X SUBSET Functions

Expand(p, f) ==
  LET expand[left \in 0 .. MaxCallDepth + 1] == [call \in Call |->
        IF left = 0 \/ call[1] \in call[2] THEN << >>
        ELSE FlattenSeq([i \in DOMAIN p.events[call[1]] |->
               LET g == p.events[call[1]][i]
               IN  IF g = 0 THEN <<Own(call[1], i)>>
                   ELSE <<Fn(g)>> \o expand[left - 1][<<g, call[2] \cup {call[1]}>>]])]
  IN  expand[MaxCallDepth + 1][<<f, {}>>]

Flow(roles, ids) == [roles |-> roles, ids |-> ids]

\* Mutant: only the expansion is cut, not the flow.
MutRouteFlow(p, f) ==
  Flow(RolesOf[f], <<Route(f)>> \o Shorten(<<Fn(f)>> \o Expand(p, f)))

RouteFlow(p, f) == Flow(RolesOf[f], Shorten(<<Route(f), Fn(f)>> \o Expand(p, f)))
SystemFlow(p, f) == Flow({"SYSTEM"}, Shorten(<<Fn(f)>> \o Expand(p, f)))

FlowsOf(p, systems) ==
  [i \in 1 .. Cardinality(p.routes) |-> RouteFlow(p, InOrder(p.routes)[i])]
  \o [i \in 1 .. Cardinality(systems) |-> SystemFlow(p, InOrder(systems)[i])]

\* The catalogue, in which every step of a flow is an edge too.
Catalog(nodes, edges, flows) ==
  [nodes |-> nodes, flows |-> flows,
   edges |-> edges \cup Edges("next", UNION {Pairs(flows[i].ids) : i \in DOMAIN flows})]

BuiltInCatalog(p) == Catalog(PythonNodes(p), PythonEdges(p), FlowsOf(p, SystemSymbols))

\* RepositoryPythonCatalogBuilder: a system flow starts at each of the first public
\* functions that no other one calls. A document mentions some of the nodes.
PythonEntries(p) ==
  LET entries == {f \in Functions \ (p.routes \cup Private) :
                    f \in Mains \/ \A g \in Functions : f \notin CalledBy(p, g)}
  IN  Range(FirstOf(InOrder(entries), MaxEntryFlows))

DocumentedBy(nodes) == Edges("documented_by", (Documented \cap nodes) \X {Doc})

PythonCatalog(p) ==
  Catalog(PythonNodes(p) \cup {Doc}, PythonEdges(p) \cup DocumentedBy(PythonNodes(p)),
          FlowsOf(p, PythonEntries(p)))

(***************************************************************************)
(* TerraformCatalogBuilder                                                 *)
(***************************************************************************)
\* address_to_id keeps the first block of an address, whatever its directory.
BlockAt(address) == CHOOSE b \in Blocks :
  AddressOf[b] = address /\ \A c \in Blocks : AddressOf[c] = address => b <= c

DependsOn(p) ==
  (UNION {{<<b, BlockAt(a)>> : a \in p.refers[b]} : b \in Blocks}) \ {<<b, b>> : b \in Blocks}

\* visit of _dependency_sequence, with so many levels left, for the result so far
\* and a block. What is being visited is in the result already.
DependencySequence(p, b) ==
  LET visit[left \in 0 .. MaxDependencyDepth + 1] == [call \in Seq(Blocks) \X Blocks |->
        IF left = 0 \/ call[2] \in Range(call[1]) THEN call[1]
        ELSE FoldLeft(LAMBDA result, c : visit[left - 1][<<result, c>>], Append(call[1], call[2]),
                      InOrder({c \in Blocks : <<call[2], c>> \in DependsOn(p)}))]
  IN  FirstOf(visit[MaxDependencyDepth + 1][<< << >>, b>>], MaxSequence)

TerraformFlow(p, b) ==
  LET s == DependencySequence(p, b) IN Flow({"SYSTEM"}, [i \in DOMAIN s |-> Block(s[i])])

TerraformCatalog(p) ==
  LET nodes == {Block(b) : b \in Blocks}
      starts == InOrder(Entries)
  IN  Catalog(nodes \cup {Doc},
              Edges("depends_on", {<<Block(d[1]), Block(d[2])>> : d \in DependsOn(p)})
                \cup DocumentedBy(nodes),
              [i \in DOMAIN starts |-> TerraformFlow(p, starts[i])])

\* _merge_catalogs, for a repository of both languages.
RepositoryCatalog(p) ==
  LET python == PythonCatalog(p)
      terraform == TerraformCatalog(p)
  IN  [nodes |-> python.nodes \cup terraform.nodes,
       edges |-> python.edges \cup terraform.edges,
       flows |-> python.flows \o terraform.flows]

\* A catalogue is built once; every later request reads what was stored.
NotBuilt == [builtIn |-> Catalog({}, {}, << >>), repository |-> Catalog({}, {}, << >>)]
MadeOf(p) == [builtIn |-> BuiltInCatalog(p), repository |-> RepositoryCatalog(p)]

Program ==
  [events : [Functions -> Seq(Functions \cup {0})],
   routes : SUBSET Functions, constrained : SUBSET Functions,
   refers : [Blocks -> SUBSET {AddressOf[b] : b \in Blocks}]]

WorkflowGraphInit == program \in Program /\ catalogs = NotBuilt

BuildCatalogs ==
  /\ catalogs = NotBuilt
  /\ catalogs' = MadeOf(program)
  /\ UNCHANGED program

WorkflowGraphSpec == WorkflowGraphInit /\ [][BuildCatalogs]_workflowGraphVars

\* What is stored was built of the program, and of nothing else.
WorkflowGraphInv == program \in Program /\ catalogs \in {NotBuilt, MadeOf(program)}

(***************************************************************************)
(* The validators                                                          *)
(***************************************************************************)
Connected(catalog, ids, types) ==
  \A pair \in Pairs(ids) : \E type \in types : <<pair[1], pair[2], type>> \in catalog.edges

\* Two functions of a repository may have one route; the last one's roles stay.
RolesAt(p, node) ==
  IF Kind(node) # "route" THEN {}
  ELSE RolesOf[CHOOSE f \in p.routes : Route(f) = node /\ \A g \in p.routes : Route(g) = node => g <= f]

\* WorkflowGraphService.validate
BuiltInAccepts(p, role, ids) ==
  /\ Len(ids) \in 2 .. MaxSequence
  /\ Range(ids) \subseteq catalogs.builtIn.nodes
  /\ Kind(ids[1]) = IF role = "SYSTEM" THEN "function" ELSE "route"
  /\ RolesAt(p, ids[1]) # {} => role \in RolesAt(p, ids[1])
  /\ Connected(catalogs.builtIn, ids, {"next", "calls", "handled_by"})

\* RepositoryWorkflowValidator
EntryRoles(catalog, node) ==
  UNION {catalog.flows[i].roles :
           i \in {j \in DOMAIN catalog.flows : catalog.flows[j].ids # << >> /\ catalog.flows[j].ids[1] = node}}

RepositoryAccepts(catalog, role, ids) ==
  /\ Len(ids) \in 1 .. MaxSequence
  /\ Range(ids) \subseteq catalog.nodes
  /\ role \in EntryRoles(catalog, ids[1])
  /\ Connected(catalog, ids, {"next", "calls", "handled_by", "depends_on", "documented_by",
                              "checks", "contains", "reads", "writes", "enforced_by"})

(***************************************************************************)
(* redacted_graph_projection                                               *)
(***************************************************************************)
\* The catalogue is sorted by ids; what is cut off there is cut off somewhere here.

\* The nodes of the first flows in order of appearance, then the documents of those.
SelectedIds(catalog) ==
  LET ids == FlattenSeq([i \in DOMAIN FirstOf(catalog.flows, MaxModelFlows) |-> catalog.flows[i].ids])
      distinct == Distinct(ids)
      chosen == FirstOf(IF distinct = << >> THEN Listed(catalog.nodes) ELSE distinct, MaxModelNodes)
      documents == {e[2] : e \in {x \in catalog.edges : x[3] = "documented_by" /\ x[1] \in Range(chosen)}}
  IN  FirstOf(chosen \o Listed(documents \ Range(chosen)), MaxModelNodes)

\* What redact_sensitive_text leaves of an id that has a word like "token" with a
\* colon after it: the part up to there, which all such events of a function share.
Redacted(node) == IF node \in Rewritten THEN <<"redacted", Kind(node), node[2]>> ELSE node

\* Nodes are taken off the end, by the ids they were given, until the text is short
\* enough or few are left: kept is how many stay. Edges and flows name what is left
\* of the catalogue's own ids.
TakenOff(selected, kept) == {Redacted(selected[i]) : i \in kept + 1 .. Len(selected)}

\* Every id taken off is still there: selected.remove() raises a KeyError otherwise.
Reducible(catalog, kept) ==
  LET selected == SelectedIds(catalog)
  IN  \A i \in kept + 1 .. Len(selected) : Redacted(selected[i]) \in Range(selected) \ TakenOff(selected, i)

\* Mutant: edges that were cut off do not count.
MutProjection(catalog, kept) ==
  LET selected == SelectedIds(catalog)
      shown == FirstOf(selected, kept)
      left == Range(selected) \ TakenOff(selected, kept)
      flows == FirstOf(catalog.flows, MaxModelFlows)
      Within(S) == {e \in catalog.edges : e[1] \in S /\ e[2] \in S}
      edges == Range(FirstOf(Listed(Within(Range(selected))), MaxModelEdges))
  IN  [nodes |-> [i \in DOMAIN shown |-> Redacted(shown[i])],
       edges |-> edges \cap Within(left),
       flows |-> [i \in DOMAIN flows |-> [flows[i] EXCEPT !.ids = Those(@, left)]],
       complete |-> /\ kept >= Len(selected)
                    /\ Range(selected) = catalog.nodes
                    /\ Len(flows) = Len(catalog.flows)]

Projection(catalog, kept) ==
  LET selected == SelectedIds(catalog)
      shown == FirstOf(selected, kept)
      left == Range(selected) \ TakenOff(selected, kept)
      flows == FirstOf(catalog.flows, MaxModelFlows)
      Within(S) == {e \in catalog.edges : e[1] \in S /\ e[2] \in S}
      edges == Range(FirstOf(Listed(Within(Range(selected))), MaxModelEdges))
  IN  [nodes |-> [i \in DOMAIN shown |-> Redacted(shown[i])],
       edges |-> edges \cap Within(left),
       flows |-> [i \in DOMAIN flows |-> [flows[i] EXCEPT !.ids = Those(@, left)]],
       complete |-> /\ kept >= Len(selected)
                    /\ Range(selected) = catalog.nodes
                    /\ Len(flows) = Len(catalog.flows)
                    /\ edges = Within(Range(selected))]

\* The ids that generate_repository_narrative and _scenario_reference_error let a
\* model cite.
AllowedNodes(projection) == Range(projection.nodes)

(***************************************************************************)
(* Properties                                                              *)
(***************************************************************************)
\* What a function does itself, and which functions it calls.
Direct(p, f) == Owns(p, f) \cup {Fn(g) : g \in CalledBy(p, f)}

\* The functions that so many calls reach from f.
Reached(p, f, calls) ==
  LET within[n \in 0 .. calls] ==
        IF n = 0 THEN {f} ELSE within[n - 1] \cup UNION {CalledBy(p, g) : g \in within[n - 1]}
  IN  within[calls]

\* Of the functions that MaxCallDepth calls reach an expansion lists every event, the
\* calls of the last ones included, and it lists nothing else: although a function is
\* not opened again below itself, and is opened wherever else it is called.
Follows(p, f) == Range(Expand(p, f)) = UNION {Direct(p, g) : g \in Reached(p, f, MaxCallDepth)}

UniquePaths(p) == \A f, g \in p.routes : PathOf[f] = PathOf[g] => f = g

\* What the builders generate, the validators accept: every default flow is a
\* valid workflow for each of its roles, although flows are cut, deduplicated
\* and merged, and two functions of a repository may share a path. (The built-in
\* validator wants two nodes and, as in FastAPI, one function for a path.)
\* The expansion itself lists what the calls reach, no more and no less.
DefaultFlowsAccepted ==
  catalogs # NotBuilt =>
    LET builtIn == catalogs.builtIn
        repository == catalogs.repository
    IN  /\ UniquePaths(program) => \A i \in DOMAIN builtIn.flows :
             Len(builtIn.flows[i].ids) > 1 =>
               \A role \in builtIn.flows[i].roles : BuiltInAccepts(program, role, builtIn.flows[i].ids)
        /\ \A i \in DOMAIN repository.flows : \A role \in repository.flows[i].roles :
             RepositoryAccepts(repository, role, repository.flows[i].ids)
        /\ \A f \in Functions : Follows(program, f)

\* How many nodes a projection keeps depends on the length of its text.
Keeps == MinModelNodes .. MaxModelNodes

\* Ids in an edge or a flow of a projection.
Named(projection) ==
  (UNION {{e[1], e[2]} : e \in projection.edges})
  \cup UNION {Range(projection.flows[i].ids) : i \in DOMAIN projection.flows}

\* A projection that has lost some of its nodes names none of them in an edge or a
\* flow, although it has the rest under their redacted ids; it says it is complete
\* exactly when it has every node, edge and flow of the catalogue; and what keeps it
\* from being reduced is a redacted id among those to take off, and nothing else.
ProjectionHonest ==
  LET catalog == catalogs.repository
      selected == SelectedIds(catalog)
  IN  catalogs # NotBuilt => \A kept \in Keeps :
        LET projection == Projection(catalog, kept)
        IN  /\ Reducible(catalog, kept) <=> \A i \in kept + 1 .. Len(selected) : selected[i] \notin Rewritten
            /\ Reducible(catalog, kept) =>
                 /\ \A id \in Named(projection) : Redacted(id) \in AllowedNodes(projection)
                 /\ projection.complete <=>
                      /\ Len(projection.nodes) = Cardinality(catalog.nodes)
                      /\ AllowedNodes(projection) = {Redacted(n) : n \in catalog.nodes}
                      /\ projection.edges = catalog.edges /\ projection.flows = catalog.flows

\* Nodes can be taken off a projection until its text is short enough ("Bantam
\* projects a bounded, redacted slice of the deterministic catalogue"). False where an
\* id to take off is rewritten.
AlwaysReducible == catalogs # NotBuilt => \A kept \in Keeps : Reducible(catalogs.repository, kept)
=============================================================================
