----------------------------- MODULE AttackLab -----------------------------
(***************************************************************************)
(* What the attack lab stores and what each piece was made from: versions  *)
(* of the company financials (bantam/financials.py), repository snapshots  *)
(* (repository_graph.py), scenario sets, simulations and remediation plans *)
(* (attack_simulation.py). Rows are only ever inserted.                    *)
(*                                                                         *)
(* A request reads what it needs, each piece on a connection of its own,   *)
(* then waits for GitHub or for the model, then inserts its row; meanwhile *)
(* others save financials, the branch moves and a release is rolled out,   *)
(* whose servers ship another built-in catalogue.                          *)
(***************************************************************************)
EXTENDS Integers, Sequences, FiniteSets, SequencesExt

CONSTANTS
  Profiles, DefaultProfile,  \* contents of a financial profile; the one shipped
  Releases,       \* releases of the program, each with its built-in catalogue
  Commits,        \* commits of a remote repository; each is a catalogue too
  NodesOf,        \* node ids of a release's or commit's catalogue that a model is sent
  RedactedIds,    \* ids of those that the redaction changed: no catalogue has them
  Scenarios,      \* scenario ids of a set
  LabRequests,    \* requests in progress at the same time
  MaxVersions, MaxSnapshots, MaxSets, MaxSimulations, MaxPlans  \* bounds: rows

ASSUME AttackLabAssumption ==
  /\ DefaultProfile \in Profiles
  /\ Releases # {} /\ Releases \cap Commits = {}
  /\ \A g \in Releases \cup Commits : IsFiniteSet(NodesOf[g])
  /\ {MaxVersions, MaxSnapshots, MaxSets, MaxSimulations, MaxPlans} \subseteq Nat

VARIABLES
  financials,     \* company_financial_profiles, by version
  snapshots,      \* repository_graph_snapshots
  scenarioSets,   \* attack_scenario_sets
  simulations,    \* attack_simulations
  plans,          \* attack_remediation_plans
  branch,         \* where the remote branch points
  deployed,       \* releases whose servers take requests
  job,            \* what each request has read
  saved           \* history: versions answered to whoever saved them

tables == <<financials, snapshots, scenarioSets, simulations, plans>>
attackLabVars == <<tables, branch, deployed, job, saved>>

Graphs == Releases \cup Commits
AllNodes == UNION {NodesOf[g] : g \in Graphs}
NoJob == [at |-> "idle"]
JobGoes(r, what) == job' = [job EXCEPT ![r] = what]
Ends(r) == JobGoes(r, NoJob)
JobIs(r, place) == job[r].at = place

AttackLabInit ==
  /\ financials = [v \in {} |-> DefaultProfile]
  /\ snapshots = << >> /\ scenarioSets = << >> /\ simulations = << >> /\ plans = << >>
  /\ branch \in Commits
  /\ deployed = {CHOOSE release \in Releases : TRUE}
  /\ job = [r \in LabRequests |-> NoJob]
  /\ saved = {}

(***************************************************************************)
(* Around the lab                                                          *)
(***************************************************************************)
PushCommit(c) ==
  /\ branch' = c
  /\ UNCHANGED <<tables, deployed, job, saved>>

\* A release is rolled out beside the others, or an old one is withdrawn.
Deploy(releases) ==
  /\ releases # {}
  /\ deployed' = releases
  /\ UNCHANGED <<tables, branch, job, saved>>

\* The request fails, or its server dies, before its row is committed.
FailJob(r) ==
  /\ ~JobIs(r, "idle")
  /\ Ends(r)
  /\ UNCHANGED <<tables, branch, deployed, saved>>

(***************************************************************************)
(* Company financials                                                      *)
(***************************************************************************)
Versions == DOMAIN financials
Latest == Cardinality(Versions)

\* current: the newest version, or version 0, the profile that is shipped.
CurrentProfile == IF Latest = 0 THEN DefaultProfile ELSE financials[Latest]

\* INSERT ... SELECT COALESCE(MAX(version), 0) + 1 sees what was committed.
InsertProfile(r, profile) ==
  /\ JobIs(r, "idle")
  /\ Latest < MaxVersions
  /\ JobGoes(r, [at |-> "saving", version |-> Latest + 1, profile |-> profile])
  /\ UNCHANGED <<tables, branch, deployed, saved>>

\* The unique version refuses the second of two.
CommitProfile(r) ==
  LET v == job[r].version
  IN  /\ JobIs(r, "saving")
      /\ IF v \in Versions THEN UNCHANGED <<financials, saved>>
         ELSE /\ financials' = [x \in Versions \cup {v} |-> IF x = v THEN job[r].profile ELSE financials[x]]
              /\ saved' = saved \cup {<<v, job[r].profile>>}
      /\ Ends(r)
      /\ UNCHANGED <<snapshots, scenarioSets, simulations, plans, branch, deployed>>

(***************************************************************************)
(* Repository snapshots                                                    *)
(***************************************************************************)
\* fetch: the ref is resolved to a commit, whose tree names its blobs by hash.
ResolveCommit(r) ==
  /\ JobIs(r, "idle")
  /\ Len(snapshots) < MaxSnapshots
  /\ JobGoes(r, [at |-> "resolved", commit |-> branch])
  /\ UNCHANGED <<tables, branch, deployed, saved>>

TreeOf(r) == job[r].commit

FetchBlobs(r) ==
  /\ JobIs(r, "resolved")
  /\ JobGoes(r, [at |-> "fetched", commit |-> job[r].commit, graph |-> TreeOf(r)])
  /\ UNCHANGED <<tables, branch, deployed, saved>>

\* The catalogue, with or without a narrative, is stored whole.
InsertSnapshot(r) ==
  /\ JobIs(r, "fetched")
  /\ Len(snapshots) < MaxSnapshots
  /\ snapshots' = Append(snapshots, [commit |-> job[r].commit, graph |-> job[r].graph])
  /\ Ends(r)
  /\ UNCHANGED <<financials, scenarioSets, simulations, plans, branch, deployed, saved>>

(***************************************************************************)
(* Scenario sets                                                           *)
(***************************************************************************)
\* _catalog_for: the catalogue of the server that was asked, or a snapshot's.
CatalogFor(source, release) == IF source = 0 THEN release ELSE snapshots[source].graph

ReadGraph(r, source) ==
  /\ JobIs(r, "idle")
  /\ Len(scenarioSets) < MaxSets
  /\ \E release \in deployed :
       JobGoes(r, [at |-> "graph", source |-> source, graph |-> CatalogFor(source, release)])
  /\ UNCHANGED <<tables, branch, deployed, saved>>

ReadProfile(r) ==
  /\ JobIs(r, "graph")
  /\ JobGoes(r, [at |-> "asking", source |-> job[r].source, graph |-> job[r].graph,
              version |-> Latest, profile |-> CurrentProfile])
  /\ UNCHANGED <<tables, branch, deployed, saved>>

\* _scenario_reference_error: a set that cites what was not sent is not READY.
CitesOnly(cited, nodes) == cited \subseteq nodes

\* generate_attack_scenarios: not requested, no client, a failed call and a
\* rejected answer give no scenarios, which is the empty set here.
ProposedScenarios(cited, nodes) == IF CitesOnly(cited, nodes) THEN cited ELSE {}

\* All of them store a set.
InsertSet(r, cited) ==
  /\ JobIs(r, "asking")
  /\ Len(scenarioSets) < MaxSets
  /\ scenarioSets' = Append(scenarioSets,
       [source |-> job[r].source, graph |-> job[r].graph, version |-> job[r].version,
        profile |-> job[r].profile, cited |-> ProposedScenarios(cited, NodesOf[job[r].graph])])
  /\ Ends(r)
  /\ UNCHANGED <<financials, snapshots, simulations, plans, branch, deployed, saved>>

Ready(s) == scenarioSets[s].cited # {}

(***************************************************************************)
(* Simulations and remediations                                            *)
(***************************************************************************)
\* _selected_remediations: of a plan of this set and scenario that has some.
PlanFits(p, s, scenario) ==
  /\ plans[p].set = s
  /\ plans[p].scenario = scenario
  /\ plans[p].ready

\* Everything it reads was inserted once and for all; plan 0 is none.
Simulate(r, s, scenario, p) ==
  /\ JobIs(r, "idle")
  /\ Len(simulations) < MaxSimulations
  /\ Ready(s)
  /\ p # 0 => PlanFits(p, s, scenario)
  /\ simulations' = Append(simulations,
       [set |-> s, scenario |-> scenario, profile |-> scenarioSets[s].profile, plan |-> p])
  /\ UNCHANGED <<financials, snapshots, scenarioSets, plans, branch, deployed, job, saved>>

\* Mutant: the whole catalogue is sent, not what the tree cites.
MutGraphEvidence(s, release) == NodesOf[CatalogFor(scenarioSets[s].source, release)]

\* _graph_evidence: of the ids the tree cites, those of nodes the catalogue has today.
GraphEvidence(s, release) ==
  (scenarioSets[s].cited \ RedactedIds) \cap NodesOf[CatalogFor(scenarioSets[s].source, release)]

BeginRemediation(r, n) ==
  LET s == simulations[n].set
  IN  /\ JobIs(r, "idle")
      /\ Len(plans) < MaxPlans
      /\ Ready(s)
      /\ \E release \in deployed :
           JobGoes(r, [at |-> "remediating", simulation |-> n, evidence |-> GraphEvidence(s, release)])
      /\ UNCHANGED <<tables, branch, deployed, saved>>

\* generate_remediations: _remediation_reference_error looks at the evidence
\* that was sent. Without an answer, or with a rejected one, nothing is READY.
ProposedRemediations(cited, evidence, fails) ==
  IF fails \/ ~CitesOnly(cited, evidence) THEN [ready |-> FALSE, cited |-> {}]
  ELSE [ready |-> TRUE, cited |-> cited]

InsertPlan(r, cited, fails) ==
  LET simulation == simulations[job[r].simulation]
      proposed == ProposedRemediations(cited, job[r].evidence, fails)
  IN  /\ JobIs(r, "remediating")
      /\ Len(plans) < MaxPlans
      /\ plans' = Append(plans,
           [set |-> simulation.set, scenario |-> simulation.scenario,
            ready |-> proposed.ready, cited |-> proposed.cited])
      /\ Ends(r)
      /\ UNCHANGED <<financials, snapshots, scenarioSets, simulations, branch, deployed, saved>>

LabRequest(r) ==
  \/ \E profile \in Profiles : InsertProfile(r, profile)
  \/ CommitProfile(r)
  \/ ResolveCommit(r) \/ FetchBlobs(r) \/ InsertSnapshot(r)
  \/ \E source \in 0 .. Len(snapshots) : ReadGraph(r, source)
  \/ ReadProfile(r)
  \/ \E cited \in SUBSET AllNodes : InsertSet(r, cited) \/ \E fails \in BOOLEAN : InsertPlan(r, cited, fails)
  \/ \E s \in DOMAIN scenarioSets, scenario \in Scenarios, p \in 0 .. Len(plans) :
       Simulate(r, s, scenario, p)
  \/ \E n \in DOMAIN simulations : BeginRemediation(r, n)
  \/ FailJob(r)

AttackLabNext ==
  \/ \E c \in Commits : PushCommit(c)
  \/ \E releases \in SUBSET Releases : Deploy(releases)
  \/ \E r \in LabRequests : LabRequest(r)

AttackLabSpec == AttackLabInit /\ [][AttackLabNext]_attackLabVars

(***************************************************************************)
(* Properties                                                              *)
(***************************************************************************)
Snapshot == [commit: Commits, graph: Graphs]
ScenarioSet == [source: Nat, graph: Graphs, version: Nat, profile: Profiles, cited: SUBSET AllNodes]
Simulation == [set: Nat, scenario: Scenarios, profile: Profiles, plan: Nat]
Plan == [set: Nat, scenario: Scenarios, ready: BOOLEAN, cited: SUBSET AllNodes]
Job ==
  [at: {"idle"}]
  \cup [at: {"saving"}, version: Nat, profile: Profiles]
  \cup [at: {"resolved"}, commit: Commits]
  \cup [at: {"fetched"}, commit: Commits, graph: Graphs]
  \cup [at: {"graph"}, source: Nat, graph: Graphs]
  \cup [at: {"asking"}, source: Nat, graph: Graphs, version: Nat, profile: Profiles]
  \cup [at: {"remediating"}, simulation: Nat, evidence: SUBSET AllNodes]

AttackLabTypeOK ==
  /\ Versions = 1 .. Latest /\ \A v \in Versions : financials[v] \in Profiles
  /\ snapshots \in Seq(Snapshot)
  /\ scenarioSets \in Seq(ScenarioSet)
  /\ simulations \in Seq(Simulation)
  /\ plans \in Seq(Plan)
  /\ branch \in Commits /\ deployed \subseteq Releases /\ deployed # {}
  /\ job \in [LabRequests -> Job]
  /\ saved \subseteq Nat \X Profiles

Version(v) == IF v = 0 THEN DefaultProfile ELSE financials[v]

\* "each analysis pins the version it used so an old simulation never changes
\* underneath a decision": a version keeps the figures its author was answered
\* with, and no other author was answered with it; a set has the figures of the
\* version it names and cites its own graph; a simulation uses the figures of
\* its set and fixes made for its own scenario, which cite what the set cites,
\* whatever was saved, pushed or deployed while the request waited.
AnalysesPinned ==
  /\ \A x \in saved : financials[x[1]] = x[2]
  /\ \A i \in DOMAIN snapshots : snapshots[i].graph = snapshots[i].commit
  /\ \A s \in DOMAIN scenarioSets :
       /\ scenarioSets[s].profile = Version(scenarioSets[s].version)
       /\ scenarioSets[s].cited \subseteq NodesOf[scenarioSets[s].graph]
       /\ scenarioSets[s].source # 0 => scenarioSets[s].graph = snapshots[scenarioSets[s].source].commit
  /\ \A n \in DOMAIN simulations :
       LET set == scenarioSets[simulations[n].set]
           p == simulations[n].plan
       IN  /\ simulations[n].profile = Version(set.version)
           /\ p # 0 => /\ plans[p].set = simulations[n].set
                       /\ plans[p].scenario = simulations[n].scenario
                       /\ plans[p].cited \subseteq NodesOf[set.graph]

\* What a request read before it waited, and what a row was made from, is there
\* and stays as it is.
ProfileFits(x) == x.version \in 0 .. Latest /\ x.profile = Version(x.version)
GraphFits(x) ==
  /\ x.source \in 0 .. Len(snapshots)
  /\ x.source # 0 => x.graph = snapshots[x.source].commit

LabJobFits(r) ==
  /\ JobIs(r, "saving") => job[r].version \in 1 .. Latest + 1
  /\ JobIs(r, "fetched") => job[r].graph = job[r].commit
  /\ JobIs(r, "graph") => GraphFits(job[r])
  /\ JobIs(r, "asking") => GraphFits(job[r]) /\ ProfileFits(job[r])
  /\ JobIs(r, "remediating") =>
       /\ job[r].simulation \in DOMAIN simulations
       /\ job[r].evidence \subseteq scenarioSets[simulations[job[r].simulation].set].cited

RowsPinned ==
  /\ \A x \in saved : x[1] \in Versions /\ financials[x[1]] = x[2]
  /\ \A i \in DOMAIN snapshots : snapshots[i].graph = snapshots[i].commit
  /\ \A s \in DOMAIN scenarioSets :
       /\ ProfileFits(scenarioSets[s]) /\ GraphFits(scenarioSets[s])
       /\ scenarioSets[s].cited \subseteq NodesOf[scenarioSets[s].graph]
  /\ \A p \in DOMAIN plans :
       plans[p].set \in DOMAIN scenarioSets /\ plans[p].cited \subseteq scenarioSets[plans[p].set].cited
  /\ \A n \in DOMAIN simulations :
       /\ simulations[n].set \in DOMAIN scenarioSets
       /\ simulations[n].profile = scenarioSets[simulations[n].set].profile
       /\ simulations[n].plan # 0 =>
            /\ simulations[n].plan \in DOMAIN plans
            /\ plans[simulations[n].plan].set = simulations[n].set
            /\ plans[simulations[n].plan].scenario = simulations[n].scenario

\* Inductive: it holds at first and every step keeps it.
LabInv ==
  /\ AttackLabTypeOK /\ IsFiniteSet(Versions)
  /\ RowsPinned /\ \A r \in LabRequests : LabJobFits(r)
=============================================================================
