----------------------------- MODULE AsvsPlans -----------------------------
(***************************************************************************)
(* The verification service (bantam/asvs.py) and the test plans a model    *)
(* proposes for it (bantam/asvs_ai.py): quotas are reserved before the     *)
(* model is asked, a plan is approved in the session that asked for it,    *)
(* and one live run at a time probes the API itself.                       *)
(*                                                                         *)
(* A live run holds a session-level advisory lock on a connection of the   *)
(* pool from the cooldown check to its finally clause. When that           *)
(* connection breaks, PostgreSQL frees the lock at once, wherever the run  *)
(* is. A reservation holds a transaction-level lock, and its now() is the  *)
(* time at which its transaction began, before it waited for that lock.    *)
(***************************************************************************)
EXTENDS Integers, Sequences, FiniteSets, FiniteSetsExt

CONSTANTS
  Generations,      \* ids of asvs_ai_generations rows
  BrowserSessions,  \* sessions that ask for plans
  Owner,            \* the account of each session
  Executions,       \* requests that run probes at the same time
  SessionLimit, AccountLimitPerDay, LimitPerDay,
  Cooldown,         \* RUN_COOLDOWN_SECONDS
  DayLength,        \* length of a day
  LastHour,         \* bound: the clock stops here
  MaxRuns,          \* bound: runs recorded
  NoPlan            \* a run no plan asked for; no row

ASSUME AsvsAssumption ==
  /\ NoPlan \notin Generations
  /\ {SessionLimit, AccountLimitPerDay, LimitPerDay, DayLength} \subseteq Nat \ {0}
  /\ {Cooldown, LastHour, MaxRuns} \subseteq Nat
  /\ BrowserSessions \subseteq DOMAIN Owner

VARIABLES
  generations,   \* asvs_ai_generations
  asking,        \* what each POST /v1/admin/asvs/test-plans is at
  runs,          \* asvs_runs, in the order of their commit
  executing,     \* what each execution is at
  hour,          \* the time of database and servers
  losses         \* history: runs of a plan whose commit was never answered

asvsVars == <<generations, asking, runs, executing, hour, losses>>

Day(t) == t \div DayLength

Generation == [status: {"PENDING", "READY", "FAILED", "EXECUTING", "EXECUTED"},
               session: BrowserSessions, created: 0 .. LastHour, run: 0 .. MaxRuns]
Ask == [at: {"new", "reserving", "counted", "asked", "valid", "failed", "ended"},
        session: BrowserSessions \cup {NoPlan}, began: 0 .. LastHour]
Run == [plan: Generations \cup {NoPlan}, start: 0 .. LastHour, done: 0 .. LastHour,
        status: {"PASS", "FAIL", "INCONCLUSIVE", "ERROR"}]
Execution == [at: {"idle", "approving", "locking", "locked", "probing", "adrift", "probed",
                   "recorded", "ran", "failed"},
              plan: Generations \cup {NoPlan}, start: 0 .. LastHour, done: 0 .. LastHour,
              status: {"PASS", "FAIL", "INCONCLUSIVE", "ERROR"}, run: 0 .. MaxRuns]

\* A row is not the absence of one.
ASSUME NoPlanAssumption == NoPlan \notin Generation \cup BrowserSessions

NewAsk == [at |-> "new", session |-> NoPlan, began |-> 0]
NoExecution == [at |-> "idle", plan |-> NoPlan, start |-> 0, done |-> 0, status |-> "ERROR", run |-> 0]

AsvsInit ==
  /\ generations = [g \in Generations |-> NoPlan]
  /\ asking = [g \in Generations |-> NewAsk]
  /\ runs = << >>
  /\ executing = [e \in Executions |-> NoExecution]
  /\ hour = 0
  /\ losses = [g \in Generations |-> 0]

Stored == {g \in Generations : generations[g] # NoPlan}
HasStatus(g, status) == g \in Stored /\ generations[g].status = status
SetStatus(g, from, to) ==
  generations' = IF HasStatus(g, from) THEN [generations EXCEPT ![g].status = to] ELSE generations

(***************************************************************************)
(* AsvsAiService.generate                                                  *)
(***************************************************************************)
AskGoes(g, place) == asking' = [asking EXCEPT ![g].at = place]

\* The context is built; the transaction of _reserve begins.
BeginGeneration(g, s) ==
  /\ asking[g].at = "new"
  /\ asking' = [asking EXCEPT ![g] = [at |-> "reserving", session |-> s, began |-> hour]]
  /\ UNCHANGED <<generations, runs, executing, hour, losses>>

\* Mutant: no advisory lock.
MutQuotaFree == Generations # {}

\* pg_advisory_xact_lock(QUOTA_LOCK_NAME)
QuotaFree == \A g \in Generations : asking[g].at # "counted"

\* The rows _quota counts for a session, its account and everyone, when the
\* transaction began at that time.
UsedBySession(s) == {g \in Stored : generations[g].session = s}
UsedSince(t) == {g \in Stored : Day(generations[g].created) >= Day(t)}
UsedByAccountSince(a, t) == {g \in UsedSince(t) : Owner[generations[g].session] = a}

WithinQuota(s, t) ==
  /\ Cardinality(UsedBySession(s)) < SessionLimit
  /\ Cardinality(UsedByAccountSince(Owner[s], t)) < AccountLimitPerDay
  /\ Cardinality(UsedSince(t)) < LimitPerDay

CountQuota(g) ==
  /\ asking[g].at = "reserving"
  /\ QuotaFree
  /\ AskGoes(g, IF WithinQuota(asking[g].session, asking[g].began) THEN "counted" ELSE "ended")
  /\ UNCHANGED <<generations, runs, executing, hour, losses>>

\* created_at defaults to now(), the time the transaction began.
Reserve(g) ==
  /\ asking[g].at = "counted"
  /\ generations' = [generations EXCEPT ![g] =
       [status |-> "PENDING", session |-> asking[g].session, created |-> asking[g].began, run |-> 0]]
  /\ AskGoes(g, "asked")
  /\ UNCHANGED <<runs, executing, hour, losses>>

\* The provider answers with a plan that passes validate_generated_plan, or it
\* fails, or its plan is rejected.
ModelAnswers(g, valid) ==
  /\ asking[g].at = "asked"
  /\ AskGoes(g, IF valid THEN "valid" ELSE "failed")
  /\ UNCHANGED <<generations, runs, executing, hour, losses>>

FinishGeneration(g) ==
  /\ asking[g].at \in {"valid", "failed"}
  /\ SetStatus(g, "PENDING", IF asking[g].at = "valid" THEN "READY" ELSE "FAILED")
  /\ AskGoes(g, "ended")
  /\ UNCHANGED <<runs, executing, hour, losses>>

\* The server dies or cannot reach the database: a reservation stays PENDING.
AbandonGeneration(g) ==
  /\ asking[g].at \notin {"new", "ended"}
  /\ AskGoes(g, "ended")
  /\ UNCHANGED <<generations, runs, executing, hour, losses>>

GenerationStep(g) ==
  \/ \E s \in BrowserSessions : BeginGeneration(g, s)
  \/ CountQuota(g) \/ Reserve(g) \/ FinishGeneration(g) \/ AbandonGeneration(g)
  \/ \E valid \in BOOLEAN : ModelAnswers(g, valid)

(***************************************************************************)
(* approve_and_execute                                                     *)
(***************************************************************************)
ExecutionGoes(e, place) == executing' = [executing EXCEPT ![e].at = place]

\* Mutant: the plan is read without FOR UPDATE.
MutPlanFree(g) == g \in Generations

PlanFree(g) == \A e \in Executions : executing[e].at = "approving" => executing[e].plan # g

\* SELECT ... FOR UPDATE in the session that owns the plan, which is validated
\* once more against the context it was made from.
LockPlan(e, g) ==
  /\ executing[e].at = "idle"
  /\ HasStatus(g, "READY")
  /\ PlanFree(g)
  /\ executing' = [executing EXCEPT ![e].at = "approving", ![e].plan = g]
  /\ UNCHANGED <<generations, asking, runs, hour, losses>>

MarkExecuting(e) ==
  /\ executing[e].at = "approving"
  /\ generations' = [generations EXCEPT ![executing[e].plan].status = "EXECUTING"]
  /\ ExecutionGoes(e, "locking")
  /\ UNCHANGED <<asking, runs, hour, losses>>

\* An execute() that raised: a connection of its own puts the plan back.
RestoreReady(e) ==
  /\ executing[e].at = "failed"
  /\ IF executing[e].plan = NoPlan THEN UNCHANGED generations
     ELSE SetStatus(executing[e].plan, "EXECUTING", "READY")
  /\ executing' = [executing EXCEPT ![e] = NoExecution]
  /\ UNCHANGED <<asking, runs, hour, losses>>

MarkExecuted(e) ==
  LET g == executing[e].plan
  IN  /\ executing[e].at = "ran"
      /\ generations' = IF HasStatus(g, "EXECUTING")
           THEN [generations EXCEPT ![g].status = "EXECUTED", ![g].run = executing[e].run]
           ELSE generations
      /\ executing' = [executing EXCEPT ![e] = NoExecution]
      /\ UNCHANGED <<asking, runs, hour, losses>>

(***************************************************************************)
(* AsvsService.execute                                                     *)
(***************************************************************************)
\* POST /v1/admin/asvs/runs, without a plan.
StartRun(e) ==
  /\ executing[e].at = "idle"
  /\ ExecutionGoes(e, "locking")
  /\ UNCHANGED <<generations, asking, runs, hour, losses>>

HoldsRunLock(e) == executing[e].at \in {"locked", "probing", "probed", "recorded"}
\* Mutant: no advisory lock.
MutRunLockFree == Executions # {}

RunLockFree == \A e \in Executions : ~HoldsRunLock(e)

\* pg_try_advisory_lock does not wait.
TryRunLock(e) ==
  /\ executing[e].at = "locking"
  /\ ExecutionGoes(e, IF RunLockFree THEN "locked" ELSE "failed")
  /\ UNCHANGED <<generations, asking, runs, hour, losses>>

LastDone == Max({0} \cup {runs[i].done : i \in DOMAIN runs})
CoolingDown == runs # << >> /\ hour - LastDone < Cooldown

ReadCooldown(e) ==
  /\ executing[e].at = "locked"
  /\ executing' = IF CoolingDown THEN [executing EXCEPT ![e].at = "failed"]
                  ELSE [executing EXCEPT ![e].at = "probing", ![e].start = hour]
  /\ UNCHANGED <<generations, asking, runs, hour, losses>>

Controls == 1 .. 5
Expected == "expected"      \* the status and error code the control asks for
Outcomes == {Expected, "other", "unavailable"}
Verdict(outcome) ==
  CASE outcome = Expected -> "pass" [] outcome = "other" -> "fail" [] OTHER -> "error"

\* LiveAsvsRunner.run: without a login only the first probe is made, and the
\* last one, the replay, needs a logout that was answered 200.
Evidence ==
  {[c \in Controls |-> Verdict(IF (c > 1 /\ ~login) \/ (c = 5 /\ ~logout) THEN "unavailable" ELSE o[c])] :
     o \in [Controls -> Outcomes], login \in BOOLEAN, logout \in BOOLEAN}

\* _run_status. No probe is ever inconclusive.
RunStatus(evidence) ==
  IF \E c \in Controls : evidence[c] = "error" THEN "ERROR"
  ELSE IF \E c \in Controls : evidence[c] = "fail" THEN "FAIL" ELSE "PASS"

RunStatuses == {RunStatus(evidence) : evidence \in Evidence}

FinishProbes(e) ==
  /\ executing[e].at = "probing"
  /\ \E status \in RunStatuses :
       executing' = [executing EXCEPT ![e].at = "probed", ![e].done = hour, ![e].status = status]
  /\ UNCHANGED <<generations, asking, runs, hour, losses>>

\* The row and its audit record, in one transaction.
RecordRun(e) ==
  /\ executing[e].at = "probed"
  /\ Len(runs) < MaxRuns
  /\ runs' = Append(runs, [plan |-> executing[e].plan, start |-> executing[e].start,
                           done |-> executing[e].done, status |-> executing[e].status])
  /\ executing' = [executing EXCEPT ![e].at = "recorded", ![e].run = Len(runs) + 1]
  /\ UNCHANGED <<generations, asking, hour, losses>>

\* finally: pg_advisory_unlock
Unlock(e) ==
  /\ executing[e].at = "recorded"
  /\ executing' = IF executing[e].plan = NoPlan THEN [executing EXCEPT ![e] = NoExecution]
                  ELSE [executing EXCEPT ![e].at = "ran"]
  /\ UNCHANGED <<generations, asking, runs, hour, losses>>

\* The connection breaks and the lock with it. Probes go on, to no avail; after
\* the commit, the unlock raises and the run counts as failed.
LoseConnection(e) ==
  /\ HoldsRunLock(e)
  /\ ExecutionGoes(e, IF executing[e].at = "probing" THEN "adrift" ELSE "failed")
  /\ losses' = IF executing[e].at = "recorded" /\ executing[e].plan # NoPlan
                 THEN [losses EXCEPT ![executing[e].plan] = @ + 1] ELSE losses
  /\ UNCHANGED <<generations, asking, runs, hour>>

EndAdrift(e) ==
  /\ executing[e].at = "adrift"
  /\ ExecutionGoes(e, "failed")
  /\ UNCHANGED <<generations, asking, runs, hour, losses>>

\* The server dies: a plan it had approved stays EXECUTING.
DieExecuting(e) ==
  /\ executing[e].at # "idle"
  /\ executing' = [executing EXCEPT ![e] = NoExecution]
  /\ UNCHANGED <<generations, asking, runs, hour, losses>>

ExecutionStep(e) ==
  \/ \E g \in Generations : LockPlan(e, g)
  \/ MarkExecuting(e) \/ RestoreReady(e) \/ MarkExecuted(e)
  \/ StartRun(e) \/ TryRunLock(e) \/ ReadCooldown(e) \/ FinishProbes(e) \/ RecordRun(e)
  \/ Unlock(e) \/ LoseConnection(e) \/ EndAdrift(e) \/ DieExecuting(e)

AsvsTick ==
  /\ hour < LastHour
  /\ hour' = hour + 1
  /\ UNCHANGED <<generations, asking, runs, executing, losses>>

AsvsNext ==
  \/ \E g \in Generations : GenerationStep(g)
  \/ \E e \in Executions : ExecutionStep(e)
  \/ AsvsTick

AsvsSpec == AsvsInit /\ [][AsvsNext]_asvsVars

(***************************************************************************)
(* Properties                                                              *)
(***************************************************************************)
AsvsTypeOK ==
  /\ generations \in [Generations -> Generation \cup {NoPlan}]
  /\ asking \in [Generations -> Ask]
  /\ runs \in Seq(Run) /\ Len(runs) <= MaxRuns
  /\ executing \in [Executions -> Execution]
  /\ hour \in 0 .. LastHour
  /\ losses \in [Generations -> 0 .. MaxRuns]

\* No session, no account on any day and no day gets more plans than its limit,
\* however reservations interleave, wait for the lock over midnight, fail or die:
\* a reservation is spent before the model is asked.
QuotaKept ==
  /\ \A s \in BrowserSessions : Cardinality(UsedBySession(s)) <= SessionLimit
  /\ \A d \in 0 .. Day(LastHour) :
       LET ofDay == {g \in Stored : Day(generations[g].created) = d}
       IN  /\ Cardinality(ofDay) <= LimitPerDay
           /\ \A a \in {Owner[s] : s \in BrowserSessions} :
                Cardinality({g \in ofDay : Owner[generations[g].session] = a}) <= AccountLimitPerDay

\* Of the runs that are recorded, each began a whole cooldown after the one
\* before it ended: a run that lost its lock, or outlived another, leaves no row.
RunsSpaced ==
  \A i, j \in DOMAIN runs : i < j => runs[j].start >= runs[i].done + Cooldown

\* An EXECUTED plan names a run that was made for it, and a plan runs once. Only
\* a connection lost after the commit of a run brings the plan back for another.
PlansRunOnce ==
  \A g \in Stored :
    /\ generations[g].status = "EXECUTED" =>
         generations[g].run \in DOMAIN runs /\ runs[generations[g].run].plan = g
    /\ Cardinality({i \in DOMAIN runs : runs[i].plan = g}) <= 1 + losses[g]
    /\ generations[g].status \in {"PENDING", "FAILED"} => \A i \in DOMAIN runs : runs[i].plan # g

\* What _reserve relies on between the count and the insert: it alone holds the
\* quota lock, so what it counted is still so.
ReservationFits(g) ==
  /\ asking[g].at \in {"new", "reserving", "counted"} => generations[g] = NoPlan
  /\ asking[g].at \notin {"new", "ended"} => asking[g].session \in BrowserSessions
  /\ asking[g].at = "counted" => WithinQuota(asking[g].session, asking[g].began)

ReservationsFit ==
  /\ IsFiniteSet(Stored)
  /\ \A g \in Generations : ReservationFits(g)
  /\ \A g, h \in Generations : asking[g].at = "counted" /\ asking[h].at = "counted" => g = h

\* What a live run relies on: it alone holds the run lock, and every recorded run
\* ended a cooldown before it began.
RunFits(e) ==
  /\ executing[e].at = "idle" => executing[e] = NoExecution
  /\ executing[e].at \in {"probing", "probed"} =>
       /\ executing[e].start <= hour
       /\ \A i \in DOMAIN runs : executing[e].start >= runs[i].done + Cooldown
  /\ executing[e].at = "probed" => executing[e].start <= executing[e].done /\ executing[e].done <= hour

RunsFit ==
  /\ \A e \in Executions : RunFits(e)
  /\ \A e, f \in Executions : HoldsRunLock(e) /\ HoldsRunLock(f) => e = f
  /\ \A i \in DOMAIN runs : runs[i].start <= runs[i].done /\ runs[i].done <= hour

\* Whose plan it is: one request at a time, from the approval to its end; and how
\* often the plan ran by then.
RunsOf(g) == Cardinality({i \in DOMAIN runs : runs[i].plan = g})
Recorded(e) == executing[e].at \in {"recorded", "ran"}

ApprovedPlanFits(e) ==
  LET g == executing[e].plan
  IN  g # NoPlan =>
        /\ executing[e].at # "idle"
        /\ HasStatus(g, IF executing[e].at = "approving" THEN "READY" ELSE "EXECUTING")
        /\ RunsOf(g) = IF Recorded(e) THEN losses[g] + 1 ELSE losses[g]
        /\ Recorded(e) => executing[e].run \in DOMAIN runs /\ runs[executing[e].run].plan = g

CountFits(g) ==
  /\ losses[g] <= RunsOf(g) /\ RunsOf(g) <= losses[g] + 1
  /\ g \notin Stored => RunsOf(g) = 0
  /\ HasStatus(g, "PENDING") \/ HasStatus(g, "FAILED") => RunsOf(g) = 0
  /\ HasStatus(g, "READY") => RunsOf(g) = losses[g]
  /\ HasStatus(g, "EXECUTED") =>
       generations[g].run \in DOMAIN runs /\ runs[generations[g].run].plan = g

PlansFit ==
  /\ \A e \in Executions : ApprovedPlanFits(e)
  /\ \A e, f \in Executions : executing[e].plan = executing[f].plan /\ executing[e].plan # NoPlan => e = f
  /\ \A e \in Executions : executing[e].at = "approving" => executing[e].plan # NoPlan
  /\ \A g \in Generations : CountFits(g)

\* Inductive: they hold at first and every step keeps them.
AsvsInv == AsvsTypeOK /\ ReservationsFit /\ QuotaKept /\ RunsFit /\ RunsSpaced /\ PlansFit
=============================================================================
