-------------------------- MODULE BackOfficeProofs --------------------------
(***************************************************************************)
(* Proofs about AsvsPlans and AttackLab: quotas, live runs and approved    *)
(* plans of the verification service, and what the attack lab's analyses   *)
(* were made from; and about MCBackOffice: a behaviour of its scenes is    *)
(* one of each module, so what is proved of the modules holds in them.     *)
(***************************************************************************)
EXTENDS MCBackOffice, LimitsProofs, GraphProofs

Places == {"idle", "approving", "locking", "locked", "probing", "adrift", "probed",
           "recorded", "ran", "failed"}
Asks == {"new", "reserving", "counted", "asked", "valid", "failed", "ended"}

\* The fields of a record of each type.
LEMMA ExecutionFields ==
  ASSUME NEW x \in Execution
  PROVE  /\ x.at \in Places /\ x.plan \in Generations \cup {NoPlan}
         /\ x.start \in Int /\ x.done \in Int /\ x.run \in 0 .. MaxRuns
  BY AsvsAssumption DEF Execution, Places

\* The numbers the module counts with.
LEMMA Numbers ==
  /\ Cooldown \in Nat /\ MaxRuns \in Nat /\ LastHour \in Nat /\ DayLength \in Nat \ {0}
  /\ SessionLimit \in Nat /\ AccountLimitPerDay \in Nat /\ LimitPerDay \in Nat
  BY AsvsAssumption

\* Recorded runs are numbered from 1, and each is of its type.
LEMMA RunRows ==
  ASSUME AsvsTypeOK
  PROVE  /\ runs \in Seq(Run) /\ Len(runs) \in Nat /\ DOMAIN runs = 1 .. Len(runs)
         /\ \A i \in DOMAIN runs : runs[i].plan \in Generations \cup {NoPlan}
                                   /\ runs[i].start \in Int /\ runs[i].done \in Int
  <1>1. runs \in Seq(Run)
    BY DEF AsvsTypeOK
  <1>2. \A i \in DOMAIN runs : runs[i] \in Run
    BY <1>1
  <1>3. \A x \in Run : x.plan \in Generations \cup {NoPlan} /\ x.start \in Int /\ x.done \in Int
    BY Numbers DEF Run
  <1>4. QED  BY <1>1, <1>2, <1>3

\* A request moves to another place; its other fields and the others stay.
LEMMA ExecutionMoves ==
  ASSUME AsvsTypeOK, NEW e \in Executions, NEW place \in Places, ExecutionGoes(e, place)
  PROVE  /\ executing' \in [Executions -> Execution]
         /\ executing'[e].at = place /\ executing'[e].plan = executing[e].plan
         /\ executing'[e].start = executing[e].start /\ executing'[e].done = executing[e].done
         /\ executing'[e].run = executing[e].run
         /\ \A f \in Executions : f # e => executing'[f] = executing[f]
  BY DEF AsvsTypeOK, ExecutionGoes, Execution, Places

\* A request becomes another record.
LEMMA ExecutionBecomes ==
  ASSUME AsvsTypeOK, NEW e \in Executions, NEW x \in Execution,
         executing' = [executing EXCEPT ![e] = x]
  PROVE  /\ executing' \in [Executions -> Execution]
         /\ executing'[e] = x
         /\ \A f \in Executions : f # e => executing'[f] = executing[f]
  BY DEF AsvsTypeOK

\* A request that does nothing.
LEMMA NoExecutionType == NoExecution \in Execution /\ NoExecution.at = "idle" /\ NoExecution.plan = NoPlan
  BY Numbers DEF NoExecution, Execution

-----------------------------------------------------------------------------
\* What is recorded is spaced, so the last run is the one that ended last
\* (the MAX(completed_at) of the cooldown).
LEMMA LastDoneIsLast ==
  ASSUME AsvsTypeOK, RunsFit, RunsSpaced
  PROVE  LastDone \in Int /\ \A i \in DOMAIN runs : LastDone >= runs[i].done
  <1> DEFINE S == {0} \cup {runs[i].done : i \in DOMAIN runs}
  <1>1. S \subseteq Int
    BY RunRows
  <1>2. \E x \in S : \A y \in S : x >= y
    <2>1. CASE runs = << >>
      <3>1. S = {0}
        BY <2>1
      <3>2. QED  BY <3>1
    <2>2. CASE runs # << >>
      <3> DEFINE n == Len(runs)
      <3>1. n \in DOMAIN runs /\ n \in Nat
        BY <2>2, RunRows
      <3>2. \A i \in DOMAIN runs : runs[n].done >= runs[i].done
        <4>1. ASSUME NEW i \in DOMAIN runs, i # n PROVE runs[n].done >= runs[i].done
          <5>1. i < n
            BY <4>1, <3>1, RunRows
          <5>2. runs[n].start >= runs[i].done + Cooldown
            BY <3>1, <5>1 DEF RunsSpaced
          <5>3. runs[n].done >= runs[n].start
            BY <3>1, RunRows DEF RunsFit
          <5>4. QED  BY <3>1, <5>2, <5>3, RunRows, Numbers
        <4>2. QED  BY <3>1, <4>1, RunRows
      <3>3. runs[n].done >= 0
        <4>1. runs[n] \in Run
          BY <3>1, RunRows
        <4>2. QED  BY <4>1, Numbers DEF Run
      <3>4. QED  BY <3>1, <3>2, <3>3
    <2>3. QED  BY <2>1, <2>2
  <1>3. Max(S) \in S /\ \A y \in S : Max(S) >= y
    BY <1>2 DEF Max
  <1>4. QED  BY <1>1, <1>3 DEF LastDone

\* Requests that move without recording a run keep the runs spaced.
LEMMA RunsStay ==
  ASSUME RunsFit, RunsSpaced, NEW e \in Executions, UNCHANGED <<runs, hour>>,
         \A f \in Executions : f # e => executing'[f] = executing[f],
         RunFits(e)', HoldsRunLock(e)' => HoldsRunLock(e) \/ RunLockFree
  PROVE  RunsFit' /\ RunsSpaced'
  <1>1. ASSUME NEW f \in Executions PROVE RunFits(f)'
    <2>1. CASE f = e
      BY <2>1
    <2>2. CASE f # e
      BY <2>2 DEF RunsFit, RunFits
    <2>3. QED  BY <2>1, <2>2
  <1>2. ASSUME NEW f \in Executions, NEW h \in Executions, HoldsRunLock(f)', HoldsRunLock(h)'
        PROVE  f = h
    BY <1>2 DEF RunsFit, HoldsRunLock, RunLockFree
  <1>3. QED  BY <1>1, <1>2 DEF RunsFit, RunsSpaced

\* Requests that move without changing a plan keep to their plan, or leave it.
LEMMA PlansStay ==
  ASSUME PlansFit, NEW e \in Executions, UNCHANGED <<generations, runs, losses>>,
         \A f \in Executions : f # e => executing'[f] = executing[f],
         executing'[e].plan \in {executing[e].plan, NoPlan}, ApprovedPlanFits(e)',
         executing'[e].at = "approving" => executing'[e].plan # NoPlan
  PROVE  PlansFit'
  <1>1. ASSUME NEW f \in Executions PROVE ApprovedPlanFits(f)'
    <2>1. CASE f = e
      BY <2>1
    <2>2. CASE f # e
      <3>1. ApprovedPlanFits(f) /\ executing'[f] = executing[f]
        BY <2>2 DEF PlansFit
      <3>2. PICK x : x = executing[f]
        OBVIOUS
      <3>3. RunsOf(x.plan)' = RunsOf(x.plan)
        BY DEF RunsOf
      <3>4. QED  BY <3>1, <3>2, <3>3 DEF ApprovedPlanFits, HasStatus, Stored, RunsOf, Recorded
    <2>3. QED  BY <2>1, <2>2
  <1>2. ASSUME NEW g \in Generations PROVE CountFits(g)'
    BY DEF PlansFit, CountFits, HasStatus, Stored, RunsOf
  <1>3. \A f, h \in Executions :
          executing'[f].plan = executing'[h].plan /\ executing'[f].plan # NoPlan => f = h
    BY DEF PlansFit
  <1>4. \A f \in Executions : executing'[f].at = "approving" => executing'[f].plan # NoPlan
    BY DEF PlansFit
  <1>5. QED  BY <1>1, <1>2, <1>3, <1>4 DEF PlansFit

\* While the owner and the day of every plan stay, so does what the quotas count.
LEMMA CountedRowsStay ==
  ASSUME \A g \in Generations :
           /\ generations'[g] = NoPlan <=> generations[g] = NoPlan
           /\ generations[g] # NoPlan =>
                /\ generations'[g].session = generations[g].session
                /\ generations'[g].created = generations[g].created
  PROVE  /\ Stored' = Stored
         /\ \A s : UsedBySession(s)' = UsedBySession(s)
         /\ \A t : UsedSince(t)' = UsedSince(t)
         /\ \A a, t : UsedByAccountSince(a, t)' = UsedByAccountSince(a, t)
         /\ QuotaKept => QuotaKept'
  <1>1. Stored' = Stored
    BY DEF Stored
  <1>2. \A s : UsedBySession(s)' = UsedBySession(s)
    BY DEF UsedBySession, Stored
  <1>3. \A t : UsedSince(t)' = UsedSince(t)
    BY DEF UsedSince, Stored
  <1>4. \A a, t : UsedByAccountSince(a, t)' = UsedByAccountSince(a, t)
    BY DEF UsedByAccountSince, UsedSince, Stored
  <1>5. ASSUME QuotaKept PROVE QuotaKept'
    <2>1. ASSUME NEW d \in 0 .. Day(LastHour)
          PROVE  {g \in Stored : Day(generations[g].created) = d}' =
                 {g \in Stored : Day(generations[g].created) = d}
      BY DEF Stored
    <2>2. ASSUME NEW d \in 0 .. Day(LastHour), NEW a
          PROVE  {g \in {h \in Stored : Day(generations[h].created) = d} :
                    Owner[generations[g].session] = a}' =
                 {g \in {h \in Stored : Day(generations[h].created) = d} :
                    Owner[generations[g].session] = a}
      BY DEF Stored
    <2>3. \A s \in BrowserSessions : Cardinality(UsedBySession(s)') <= SessionLimit
      BY <1>2, <1>5 DEF QuotaKept
    <2>4. QED  BY <1>5, <2>1, <2>2, <2>3 DEF QuotaKept, Day
  <1>6. QED  BY <1>1, <1>2, <1>3, <1>4, <1>5

\* Rows that keep their session and their time of creation count as before.
LEMMA QuotasStay ==
  ASSUME ReservationsFit, QuotaKept, UNCHANGED asking,
         \A g \in Generations :
           /\ generations'[g] = NoPlan <=> generations[g] = NoPlan
           /\ generations[g] # NoPlan =>
                /\ generations'[g].session = generations[g].session
                /\ generations'[g].created = generations[g].created
  PROVE  ReservationsFit' /\ QuotaKept'
  <1>1. ASSUME NEW g \in Generations PROVE ReservationFits(g)'
    BY CountedRowsStay DEF ReservationsFit, ReservationFits, WithinQuota
  <1>2. QED  BY <1>1, CountedRowsStay DEF ReservationsFit

\* A request that moves on with its plan, or ends, and changes no row.
LEMMA MoveKeeps ==
  ASSUME AsvsInv, NEW e \in Executions, NEW x \in Execution,
         executing' = [executing EXCEPT ![e] = x],
         UNCHANGED <<generations, asking, runs, hour, losses>>,
         x.at = "idle" => x = NoExecution,
         x.at \in {"probing", "probed"} =>
           x.start <= hour /\ \A i \in DOMAIN runs : x.start >= runs[i].done + Cooldown,
         x.at = "probed" => x.start <= x.done /\ x.done <= hour,
         x.at \in {"locked", "probing", "probed", "recorded"} => HoldsRunLock(e) \/ RunLockFree,
         x.at = "approving" => x.plan # NoPlan,
         x.plan # NoPlan =>
           /\ x.plan = executing[e].plan /\ x.run = executing[e].run /\ x.at # "idle"
           /\ x.at = "approving" <=> executing[e].at = "approving"
           /\ x.at \in {"recorded", "ran"} <=> executing[e].at \in {"recorded", "ran"}
  PROVE  AsvsInv'
  <1>1. /\ executing' \in [Executions -> Execution]
        /\ executing'[e] = x
        /\ \A f \in Executions : f # e => executing'[f] = executing[f]
    BY ExecutionBecomes DEF AsvsInv
  <1>2. AsvsTypeOK'
    BY <1>1 DEF AsvsInv, AsvsTypeOK
  <1>3. ReservationsFit' /\ QuotaKept'
    BY QuotasStay DEF AsvsInv
  <1>4. RunsFit' /\ RunsSpaced'
    <2>1. RunFits(e)'
      BY <1>1 DEF RunFits
    <2>2. HoldsRunLock(e)' => HoldsRunLock(e) \/ RunLockFree
      BY <1>1 DEF HoldsRunLock
    <2>3. QED  BY <1>1, <2>1, <2>2, RunsStay DEF AsvsInv
  <1>5. PlansFit'
    <2>1. ApprovedPlanFits(e)'
      <3>1. CASE x.plan = NoPlan
        BY <1>1, <3>1 DEF ApprovedPlanFits
      <3>2. CASE x.plan # NoPlan
        <4>1. PICK g : g = executing[e].plan /\ g = x.plan /\ g # NoPlan
          BY <3>2
        <4>2. /\ HasStatus(g, IF executing[e].at = "approving" THEN "READY" ELSE "EXECUTING")
              /\ RunsOf(g) = IF Recorded(e) THEN losses[g] + 1 ELSE losses[g]
              /\ Recorded(e) => executing[e].run \in DOMAIN runs /\ runs[executing[e].run].plan = g
          BY <4>1 DEF AsvsInv, PlansFit, ApprovedPlanFits
        <4>3. RunsOf(g)' = RunsOf(g)
          BY DEF RunsOf
        <4>4. x.at = "approving" <=> executing[e].at = "approving"
          BY <4>1
        <4>5. Recorded(e)' <=> Recorded(e)
          BY <1>1, <4>1 DEF Recorded
        <4>6. x.run = executing[e].run /\ x.at # "idle"
          BY <4>1
        <4>7. PICK st : /\ st = (IF executing[e].at = "approving" THEN "READY" ELSE "EXECUTING")
                        /\ HasStatus(g, st)
          BY <4>2
        <4>8. HasStatus(g, st)'
          BY <4>7 DEF HasStatus, Stored
        <4>9. st = IF executing'[e].at = "approving" THEN "READY" ELSE "EXECUTING"
          BY <1>1, <4>4, <4>7
        <4>10. RunsOf(g)' = IF Recorded(e)' THEN losses'[g] + 1 ELSE losses'[g]
          BY <4>2, <4>3, <4>5
        <4>11. Recorded(e)' => executing'[e].run \in DOMAIN runs' /\ runs'[executing'[e].run].plan = g
          BY <1>1, <4>2, <4>5, <4>6
        <4>12. executing'[e].plan = g /\ executing'[e].at # "idle"
          BY <1>1, <4>1, <4>6
        <4>13. QED  BY <4>8, <4>9, <4>10, <4>11, <4>12 DEF ApprovedPlanFits
      <3>3. QED  BY <3>1, <3>2
    <2>2. QED  BY <1>1, <2>1, PlansStay DEF AsvsInv
  <1>6. QED  BY <1>2, <1>3, <1>4, <1>5 DEF AsvsInv

\* A request that ends, or whose server dies, leaves its plan as it is.
LEMMA EndKeeps ==
  ASSUME AsvsInv, NEW e \in Executions, executing' = [executing EXCEPT ![e] = NoExecution],
         UNCHANGED <<generations, asking, runs, hour, losses>>
  PROVE  AsvsInv'
  BY NoExecutionType, MoveKeeps

-----------------------------------------------------------------------------
\* POST /v1/admin/asvs/runs.
LEMMA StartRunKeeps ==
  ASSUME AsvsInv, NEW e \in Executions, StartRun(e)
  PROVE  AsvsInv'
  <1>1. executing[e] = NoExecution
    BY DEF AsvsInv, RunsFit, RunFits, StartRun
  <1>2. PICK x \in Execution : /\ executing' = [executing EXCEPT ![e] = x]
                              /\ x.at = "locking" /\ x.plan = NoPlan
    <2>1. executing[e] \in Execution /\ executing[e].plan = NoPlan
      BY <1>1, NoExecutionType
    <2> DEFINE k == [executing[e] EXCEPT !.at = "locking"]
    <2>2. k \in Execution /\ k.at = "locking" /\ k.plan = NoPlan
      BY <2>1 DEF Execution
    <2>3. executing' = [executing EXCEPT ![e] = k]
      BY DEF StartRun, ExecutionGoes
    <2>4. QED  BY <2>2, <2>3
  <1>3. UNCHANGED <<generations, asking, runs, hour, losses>>
    BY DEF StartRun
  <1>4. QED  BY <1>2, <1>3, MoveKeeps

\* pg_try_advisory_lock.
LEMMA TryRunLockKeeps ==
  ASSUME AsvsInv, NEW e \in Executions, TryRunLock(e)
  PROVE  AsvsInv'
  <1>1. executing[e] \in Execution /\ executing[e].at = "locking"
    BY DEF AsvsInv, AsvsTypeOK, TryRunLock
  <1>2. PICK x \in Execution :
          /\ executing' = [executing EXCEPT ![e] = x]
          /\ x.at = IF RunLockFree THEN "locked" ELSE "failed"
          /\ x.plan = executing[e].plan /\ x.run = executing[e].run
    <2> DEFINE k == [executing[e] EXCEPT !.at = (IF RunLockFree THEN "locked" ELSE "failed")]
    <2>1. /\ k \in Execution /\ k.at = (IF RunLockFree THEN "locked" ELSE "failed")
         /\ k.plan = executing[e].plan /\ k.run = executing[e].run
      BY <1>1 DEF Execution
    <2>2. executing' = [executing EXCEPT ![e] = k]
      BY DEF TryRunLock, ExecutionGoes
    <2>3. QED  BY <2>1, <2>2
  <1>3. UNCHANGED <<generations, asking, runs, hour, losses>>
    BY DEF TryRunLock
  <1>4. QED  BY <1>1, <1>2, <1>3, MoveKeeps

\* The cooldown is read under the lock: whoever may record a run later waits for it.
LEMMA ReadCooldownKeeps ==
  ASSUME AsvsInv, NEW e \in Executions, ReadCooldown(e)
  PROVE  AsvsInv'
  <1>1. executing[e] \in Execution /\ executing[e].at = "locked" /\ HoldsRunLock(e)
    BY DEF AsvsInv, AsvsTypeOK, ReadCooldown, HoldsRunLock
  <1>2. UNCHANGED <<generations, asking, runs, hour, losses>>
    BY DEF ReadCooldown
  <1>3. hour \in 0 .. LastHour /\ hour \in Int
    BY Numbers DEF AsvsInv, AsvsTypeOK
  <1>4. CASE CoolingDown
    <2>1. PICK x \in Execution :
            /\ executing' = [executing EXCEPT ![e] = x]
            /\ x.at = "failed" /\ x.plan = executing[e].plan /\ x.run = executing[e].run
      <3> DEFINE k == [executing[e] EXCEPT !.at = "failed"]
      <3>1. /\ k \in Execution /\ k.at = "failed"
           /\ k.plan = executing[e].plan /\ k.run = executing[e].run
        BY <1>1 DEF Execution
      <3>2. executing' = [executing EXCEPT ![e] = k]
        BY <1>4 DEF ReadCooldown
      <3>3. QED  BY <3>1, <3>2
    <2>2. QED  BY <1>1, <1>2, <2>1, MoveKeeps
  <1>5. CASE ~CoolingDown
    <2>1. PICK x \in Execution :
            /\ executing' = [executing EXCEPT ![e] = x]
            /\ x.at = "probing" /\ x.start = hour
            /\ x.plan = executing[e].plan /\ x.run = executing[e].run
      <3> DEFINE k == [executing[e] EXCEPT !.at = "probing", !.start = hour]
      <3>1. /\ k \in Execution /\ k.at = "probing" /\ k.start = hour
            /\ k.plan = executing[e].plan /\ k.run = executing[e].run
        BY <1>1, <1>3 DEF Execution
      <3>2. executing' = [executing EXCEPT ![e] = k]
        BY <1>5 DEF ReadCooldown
      <3>3. QED  BY <3>1, <3>2
    <2>2. \A i \in DOMAIN runs : hour >= runs[i].done + Cooldown
      <3> SUFFICES ASSUME NEW i \in DOMAIN runs PROVE hour >= runs[i].done + Cooldown
        OBVIOUS
      <3>1. runs # << >>
        OBVIOUS
      <3>2. ~(hour - LastDone < Cooldown)
        BY <1>5, <3>1 DEF CoolingDown
      <3>3. LastDone >= runs[i].done
        BY LastDoneIsLast DEF AsvsInv
      <3>4. runs[i].done \in Int /\ LastDone \in Int
        <4>1. runs[i].done \in Int
          BY RunRows DEF AsvsInv
        <4>2. LastDone \in Int
          BY LastDoneIsLast DEF AsvsInv
        <4>3. QED  BY <4>1, <4>2
      <3>5. QED  BY <1>3, <3>2, <3>3, <3>4, Numbers
    <2>3. x.start <= hour /\ \A i \in DOMAIN runs : x.start >= runs[i].done + Cooldown
      BY <1>3, <2>1, <2>2
    <2>4. QED  BY <1>1, <1>2, <2>1, <2>3, MoveKeeps
  <1>6. QED  BY <1>4, <1>5

\* The runner is done with its probes.
LEMMA FinishProbesKeeps ==
  ASSUME AsvsInv, NEW e \in Executions, FinishProbes(e)
  PROVE  AsvsInv'
  <1>1. executing[e] \in Execution /\ executing[e].at = "probing" /\ HoldsRunLock(e)
    BY DEF AsvsInv, AsvsTypeOK, FinishProbes, HoldsRunLock
  <1>2. UNCHANGED <<generations, asking, runs, hour, losses>>
    BY DEF FinishProbes
  <1>3. hour \in 0 .. LastHour /\ hour \in Int
    BY Numbers DEF AsvsInv, AsvsTypeOK
  <1>4. PICK status \in RunStatuses :
          executing' = [executing EXCEPT ![e].at = "probed", ![e].done = hour, ![e].status = status]
    BY DEF FinishProbes
  <1>5. status \in {"PASS", "FAIL", "INCONCLUSIVE", "ERROR"}
    BY DEF RunStatuses, RunStatus
  <1>6. PICK x \in Execution :
          /\ executing' = [executing EXCEPT ![e] = x]
          /\ x.at = "probed" /\ x.done = hour /\ x.start = executing[e].start
          /\ x.plan = executing[e].plan /\ x.run = executing[e].run
    <2> DEFINE k == [executing[e] EXCEPT !.at = "probed", !.done = hour, !.status = status]
    <2>1. /\ k \in Execution /\ k.at = "probed" /\ k.done = hour /\ k.start = executing[e].start
          /\ k.plan = executing[e].plan /\ k.run = executing[e].run
      BY <1>1, <1>3, <1>5 DEF Execution
    <2>2. executing' = [executing EXCEPT ![e] = k]
      BY <1>4
    <2>3. QED  BY <2>1, <2>2
  <1>7. /\ executing[e].start <= hour
        /\ \A i \in DOMAIN runs : executing[e].start >= runs[i].done + Cooldown
    BY <1>1 DEF AsvsInv, RunsFit, RunFits
  <1>8. /\ x.start <= hour /\ \A i \in DOMAIN runs : x.start >= runs[i].done + Cooldown
        /\ x.start <= x.done /\ x.done <= hour
    BY <1>3, <1>6, <1>7
  <1>9. QED  BY <1>1, <1>2, <1>6, <1>8, MoveKeeps

\* finally: pg_advisory_unlock.
LEMMA UnlockKeeps ==
  ASSUME AsvsInv, NEW e \in Executions, Unlock(e)
  PROVE  AsvsInv'
  <1>1. executing[e] \in Execution /\ executing[e].at = "recorded"
    BY DEF AsvsInv, AsvsTypeOK, Unlock
  <1>2. UNCHANGED <<generations, asking, runs, hour, losses>>
    BY DEF Unlock
  <1>3. CASE executing[e].plan = NoPlan
    BY <1>2, <1>3, EndKeeps DEF Unlock
  <1>4. CASE executing[e].plan # NoPlan
    <2>1. PICK x \in Execution :
            /\ executing' = [executing EXCEPT ![e] = x]
            /\ x.at = "ran" /\ x.plan = executing[e].plan /\ x.run = executing[e].run
      <3> DEFINE k == [executing[e] EXCEPT !.at = "ran"]
      <3>1. /\ k \in Execution /\ k.at = "ran"
           /\ k.plan = executing[e].plan /\ k.run = executing[e].run
        BY <1>1 DEF Execution
      <3>2. executing' = [executing EXCEPT ![e] = k]
        BY <1>4 DEF Unlock
      <3>3. QED  BY <3>1, <3>2
    <2>2. QED  BY <1>1, <1>2, <2>1, MoveKeeps
  <1>5. QED  BY <1>3, <1>4

\* The runs of a plan are counted, and are among the recorded ones.
LEMMA RunsCounted ==
  ASSUME AsvsTypeOK, NEW g
  PROVE  /\ IsFiniteSet({i \in DOMAIN runs : runs[i].plan = g})
         /\ RunsOf(g) \in Nat /\ RunsOf(g) <= Len(runs)
  <1>1. Len(runs) \in Nat /\ DOMAIN runs = 1 .. Len(runs)
    BY RunRows
  <1>2. IsFiniteSet(1 .. Len(runs)) /\ Cardinality(1 .. Len(runs)) = Len(runs)
    <2> DEFINE n == Len(runs)
    <2>1. n \in Nat
      BY <1>1
    <2> HIDE DEF n
    <2>2. IsFiniteSet(1 .. n) /\ Cardinality(1 .. n) = IF 1 > n THEN 0 ELSE n - 1 + 1
      BY <2>1, FS_Interval
    <2>3. Cardinality(1 .. n) = n
      BY <2>1, <2>2
    <2>4. QED  BY <2>2, <2>3 DEF n
  <1>3. {i \in DOMAIN runs : runs[i].plan = g} \subseteq 1 .. Len(runs)
    BY <1>1
  <1>4. QED  BY <1>2, <1>3, FS_Subset, FS_CardinalityType DEF RunsOf

\* The connection breaks after the commit of a run: the plan comes back.
LEMMA LoseRecordedKeeps ==
  ASSUME AsvsInv, NEW e \in Executions, LoseConnection(e),
         executing[e].at = "recorded", executing[e].plan # NoPlan
  PROVE  AsvsInv'
  <1>1. PICK p \in Generations : p = executing[e].plan /\ p # NoPlan
    <2>1. executing[e] \in Execution
      BY DEF AsvsInv, AsvsTypeOK
    <2>2. QED  BY <2>1, ExecutionFields
  <1>2. UNCHANGED <<generations, asking, runs, hour>>
    BY DEF LoseConnection
  <1>3. /\ executing' \in [Executions -> Execution]
        /\ executing'[e].at = "failed" /\ executing'[e].plan = p
        /\ \A f \in Executions : f # e => executing'[f] = executing[f]
    <2>1. ExecutionGoes(e, "failed") /\ "failed" \in Places
      BY DEF LoseConnection, Places
    <2>2. QED  BY <1>1, <2>1, ExecutionMoves DEF AsvsInv
  <1>4. losses' = [losses EXCEPT ![p] = @ + 1]
    BY <1>1 DEF LoseConnection
  <1>5. HasStatus(p, "EXECUTING") /\ RunsOf(p) = losses[p] + 1
    BY <1>1 DEF AsvsInv, PlansFit, ApprovedPlanFits, Recorded
  <1>6. /\ losses' \in [Generations -> 0 .. MaxRuns]
        /\ losses'[p] = losses[p] + 1
        /\ \A g \in Generations : g # p => losses'[g] = losses[g]
    <2>1. losses[p] \in Nat /\ losses[p] + 1 <= MaxRuns
      <3>1. RunsOf(p) \in Nat /\ RunsOf(p) <= Len(runs) /\ Len(runs) \in Nat /\ Len(runs) <= MaxRuns
        BY RunsCounted, RunRows DEF AsvsInv, AsvsTypeOK
      <3>2. losses[p] \in 0 .. MaxRuns
        BY DEF AsvsInv, AsvsTypeOK
      <3>3. QED  BY <1>5, <3>1, <3>2, Numbers
    <2>2. QED  BY <1>4, <2>1, Numbers DEF AsvsInv, AsvsTypeOK
  <1>7. AsvsTypeOK'
    BY <1>2, <1>3, <1>6 DEF AsvsInv, AsvsTypeOK
  <1>8. ReservationsFit' /\ QuotaKept'
    BY <1>2, QuotasStay DEF AsvsInv
  <1>9. RunsFit' /\ RunsSpaced'
    <2>1. RunFits(e)' /\ ~HoldsRunLock(e)'
      BY <1>3 DEF RunFits, HoldsRunLock
    <2>2. QED  BY <1>2, <1>3, <2>1, RunsStay DEF AsvsInv
  <1>10. PlansFit'
    <2>1. \A g : RunsOf(g)' = RunsOf(g)
      BY <1>2 DEF RunsOf
    <2>2. \A f \in Executions : f # e => executing[f].plan # p
      BY <1>1 DEF AsvsInv, PlansFit
    <2>3. ASSUME NEW f \in Executions PROVE ApprovedPlanFits(f)'
      <3>1. CASE f = e
        <4>1. RunsOf(p)' = losses'[p]
          BY <1>5, <1>6, <2>1
        <4>2. HasStatus(p, "EXECUTING")'
          BY <1>2, <1>5 DEF HasStatus, Stored
        <4>3. ~Recorded(e)'
          BY <1>3 DEF Recorded
        <4>4. QED  BY <1>3, <3>1, <4>1, <4>2, <4>3 DEF ApprovedPlanFits
      <3>2. CASE f # e
        <4>1. PICK q \in Generations \cup {NoPlan} : q = executing[f].plan
          BY ExecutionFields DEF AsvsInv, AsvsTypeOK
        <4>2. q # p /\ executing'[f] = executing[f] /\ ApprovedPlanFits(f)
          BY <1>3, <2>2, <3>2, <4>1 DEF AsvsInv, PlansFit
        <4>3. RunsOf(q)' = RunsOf(q)
          BY <2>1
        <4>4. q # NoPlan => losses'[q] = losses[q]
          BY <1>6, <4>2
        <4>5. QED
          BY <1>2, <4>1, <4>2, <4>3, <4>4 DEF ApprovedPlanFits, HasStatus, Stored, Recorded
      <3>3. QED  BY <3>1, <3>2
    <2>4. ASSUME NEW g \in Generations PROVE CountFits(g)'
      <3>1. RunsOf(g)' = RunsOf(g) /\ CountFits(g)
        BY <2>1 DEF AsvsInv, PlansFit
      <3>2. CASE g = p
        <4>1. /\ g \in Stored' /\ ~HasStatus(g, "PENDING")' /\ ~HasStatus(g, "FAILED")'
              /\ ~HasStatus(g, "READY")' /\ ~HasStatus(g, "EXECUTED")'
          BY <1>2, <1>5, <3>2 DEF HasStatus, Stored
        <4>2. losses'[g] <= RunsOf(g)' /\ RunsOf(g)' <= losses'[g] + 1
          <5>1. RunsOf(g)' = losses'[g] /\ losses'[g] \in Int
            BY <1>5, <1>6, <3>1, <3>2, Numbers
          <5>2. QED  BY <5>1
        <4>3. QED  BY <4>1, <4>2 DEF CountFits
      <3>3. CASE g # p
        BY <1>2, <1>6, <3>1, <3>3 DEF CountFits, HasStatus, Stored
      <3>4. QED  BY <3>2, <3>3
    <2>5. QED
      <3>1. \A f, h \in Executions :
              executing'[f].plan = executing'[h].plan /\ executing'[f].plan # NoPlan => f = h
        BY <1>1, <1>3 DEF AsvsInv, PlansFit
      <3>2. \A f \in Executions : executing'[f].at = "approving" => executing'[f].plan # NoPlan
        BY <1>3 DEF AsvsInv, PlansFit
      <3>3. QED  BY <2>3, <2>4, <3>1, <3>2 DEF PlansFit
  <1>11. QED  BY <1>7, <1>8, <1>9, <1>10 DEF AsvsInv

\* The connection breaks elsewhere: the run will not be recorded.
LEMMA LoseConnectionKeeps ==
  ASSUME AsvsInv, NEW e \in Executions, LoseConnection(e)
  PROVE  AsvsInv'
  <1>1. CASE executing[e].at = "recorded" /\ executing[e].plan # NoPlan
    BY <1>1, LoseRecordedKeeps
  <1>2. CASE ~(executing[e].at = "recorded" /\ executing[e].plan # NoPlan)
    <2>1. UNCHANGED <<generations, asking, runs, hour, losses>>
      BY <1>2 DEF LoseConnection
    <2>2. executing[e] \in Execution /\ HoldsRunLock(e)
      BY DEF AsvsInv, AsvsTypeOK, LoseConnection
    <2>3. PICK x \in Execution :
            /\ executing' = [executing EXCEPT ![e] = x]
            /\ x.at \in {"adrift", "failed"}
            /\ x.plan = executing[e].plan /\ x.run = executing[e].run
      <3> DEFINE k == [executing[e] EXCEPT !.at = IF executing[e].at = "probing" THEN "adrift" ELSE "failed"]
      <3>1. /\ k \in Execution /\ k.at \in {"adrift", "failed"}
            /\ k.plan = executing[e].plan /\ k.run = executing[e].run
        BY <2>2 DEF Execution
      <3>2. executing' = [executing EXCEPT ![e] = k]
        BY DEF LoseConnection, ExecutionGoes
      <3>3. QED  BY <3>1, <3>2
    <2>4. x.plan # NoPlan => executing[e].at \in {"locked", "probing", "probed"}
      BY <1>2, <2>2, <2>3 DEF HoldsRunLock
    <2>5. QED  BY <2>1, <2>3, <2>4, MoveKeeps
  <1>3. QED  BY <1>1, <1>2

\* The probes of a run without its lock come to nothing.
LEMMA EndAdriftKeeps ==
  ASSUME AsvsInv, NEW e \in Executions, EndAdrift(e)
  PROVE  AsvsInv'
  <1>1. executing[e] \in Execution /\ executing[e].at = "adrift"
    BY DEF AsvsInv, AsvsTypeOK, EndAdrift
  <1>2. UNCHANGED <<generations, asking, runs, hour, losses>>
    BY DEF EndAdrift
  <1>3. PICK x \in Execution :
          /\ executing' = [executing EXCEPT ![e] = x]
          /\ x.at = "failed" /\ x.plan = executing[e].plan /\ x.run = executing[e].run
    <2> DEFINE k == [executing[e] EXCEPT !.at = "failed"]
    <2>1. k \in Execution /\ k.at = "failed" /\ k.plan = executing[e].plan /\ k.run = executing[e].run
      BY <1>1 DEF Execution
    <2>2. executing' = [executing EXCEPT ![e] = k]
      BY DEF EndAdrift, ExecutionGoes
    <2>3. QED  BY <2>1, <2>2
  <1>4. QED  BY <1>1, <1>2, <1>3, MoveKeeps

\* The row of a run: it is spaced from all before it, and counts for its plan.
LEMMA RecordRunKeeps ==
  ASSUME AsvsInv, NEW e \in Executions, RecordRun(e)
  PROVE  AsvsInv'
  <1>1. executing[e] \in Execution /\ executing[e].at = "probed" /\ HoldsRunLock(e)
    BY DEF AsvsInv, AsvsTypeOK, RecordRun, HoldsRunLock
  <1>2. UNCHANGED <<generations, asking, hour, losses>> /\ Len(runs) < MaxRuns
    BY DEF RecordRun
  <1>3. PICK p \in Generations \cup {NoPlan} : p = executing[e].plan
    BY <1>1, ExecutionFields
  <1>4. PICK row \in Run :
          /\ runs' = Append(runs, row)
          /\ row.plan = p /\ row.start = executing[e].start /\ row.done = executing[e].done
    <2> DEFINE k == [plan |-> executing[e].plan, start |-> executing[e].start,
                     done |-> executing[e].done, status |-> executing[e].status]
    <2>1. k \in Run
      BY <1>1 DEF Execution, Run
    <2>2. runs' = Append(runs, k)
      BY DEF RecordRun
    <2>3. QED  BY <1>3, <2>1, <2>2
  <1>5. PICK n \in Nat : n = Len(runs) /\ n < MaxRuns /\ DOMAIN runs = 1 .. n
    BY <1>2, RunRows DEF AsvsInv
  <1>6. /\ runs' \in Seq(Run) /\ Len(runs') = n + 1 /\ DOMAIN runs' = 1 .. n + 1
        /\ runs'[n + 1] = row /\ \A i \in 1 .. n : runs'[i] = runs[i]
    <2>1. runs \in Seq(Run)
      BY RunRows DEF AsvsInv
    <2>2. QED  BY <1>4, <1>5, <2>1
  <1>7. PICK x \in Execution :
          /\ executing' = [executing EXCEPT ![e] = x]
          /\ x.at = "recorded" /\ x.plan = p /\ x.run = n + 1
    <2> DEFINE k == [executing[e] EXCEPT !.at = "recorded", !.run = Len(runs) + 1]
    <2>1. n + 1 \in 0 .. MaxRuns
      BY <1>5, Numbers
    <2>2. k \in Execution /\ k.at = "recorded" /\ k.plan = p /\ k.run = n + 1
      BY <1>1, <1>3, <1>5, <2>1 DEF Execution
    <2>3. executing' = [executing EXCEPT ![e] = k]
      BY DEF RecordRun
    <2>4. QED  BY <2>2, <2>3
  <1>8. /\ executing' \in [Executions -> Execution] /\ executing'[e] = x
        /\ \A f \in Executions : f # e => executing'[f] = executing[f]
    BY <1>7, ExecutionBecomes DEF AsvsInv
  <1>9. AsvsTypeOK'
    BY <1>2, <1>5, <1>6, <1>8, Numbers DEF AsvsInv, AsvsTypeOK
  <1>10. ReservationsFit' /\ QuotaKept'
    BY <1>2, QuotasStay DEF AsvsInv
  <1>11. /\ row.start <= row.done /\ row.done <= hour
         /\ \A i \in 1 .. n : row.start >= runs[i].done + Cooldown
    BY <1>1, <1>4, <1>5 DEF AsvsInv, RunsFit, RunFits
  <1>12. RunsSpaced'
    <2> SUFFICES ASSUME NEW i \in 1 .. n + 1, NEW j \in 1 .. n + 1, i < j
                 PROVE  runs'[j].start >= runs'[i].done + Cooldown
      BY <1>6 DEF RunsSpaced
    <2>1. i \in 1 .. n /\ runs'[i] = runs[i]
      BY <1>6
    <2>2. CASE j = n + 1
      BY <1>4, <1>6, <1>11, <2>1, <2>2
    <2>3. CASE j # n + 1
      <3>1. j \in 1 .. n /\ runs'[j] = runs[j]
        BY <1>6, <2>3
      <3>2. QED  BY <1>5, <2>1, <3>1 DEF AsvsInv, RunsSpaced
    <2>4. QED  BY <2>2, <2>3
  <1>13. RunsFit'
    <2>1. ASSUME NEW f \in Executions PROVE RunFits(f)'
      <3>1. CASE f = e
        BY <1>7, <1>8, <3>1 DEF RunFits
      <3>2. CASE f # e
        <4>1. executing'[f] = executing[f] /\ RunFits(f) /\ ~HoldsRunLock(f)
          BY <1>1, <1>8, <3>2 DEF AsvsInv, RunsFit
        <4>2. QED  BY <1>2, <4>1 DEF RunFits, HoldsRunLock
      <3>3. QED  BY <3>1, <3>2
    <2>2. \A f, h \in Executions : HoldsRunLock(f)' /\ HoldsRunLock(h)' => f = h
      BY <1>1, <1>8 DEF AsvsInv, RunsFit, HoldsRunLock
    <2>3. \A i \in 1 .. n + 1 : runs'[i].start <= runs'[i].done /\ runs'[i].done <= hour
      <3>1. \A i \in 1 .. n : runs'[i].start <= runs'[i].done /\ runs'[i].done <= hour
        BY <1>5, <1>6 DEF AsvsInv, RunsFit
      <3>2. runs'[n + 1].start <= runs'[n + 1].done /\ runs'[n + 1].done <= hour
        BY <1>6, <1>11
      <3>3. \A i \in 1 .. n + 1 : i \in 1 .. n \/ i = n + 1
        OBVIOUS
      <3>4. QED  BY <3>1, <3>2, <3>3
    <2>4. QED  BY <1>2, <1>6, <2>1, <2>2, <2>3 DEF RunsFit
  <1>14. PlansFit'
    <2>1. \A g : g # p => RunsOf(g)' = RunsOf(g)
      <3> SUFFICES ASSUME NEW g, g # p PROVE RunsOf(g)' = RunsOf(g)
        OBVIOUS
      <3>1. {i \in DOMAIN runs' : runs'[i].plan = g} = {i \in DOMAIN runs : runs[i].plan = g}
        BY <1>4, <1>5, <1>6
      <3>2. QED  BY <3>1 DEF RunsOf
    <2>2. RunsOf(p)' = RunsOf(p) + 1
      <3> DEFINE S == {i \in DOMAIN runs : runs[i].plan = p}
      <3>1. {i \in DOMAIN runs' : runs'[i].plan = p} = S \cup {n + 1}
        BY <1>4, <1>5, <1>6
      <3>2. n + 1 \notin S
        BY <1>5
      <3>3. IsFiniteSet(S)
        BY RunsCounted DEF AsvsInv
      <3> HIDE DEF S
      <3>4. Cardinality(S \cup {n + 1}) = Cardinality(S) + 1
        BY <3>2, <3>3, FS_AddElement
      <3>5. QED  BY <3>1, <3>4 DEF RunsOf, S
    <2>3. ASSUME NEW f \in Executions PROVE ApprovedPlanFits(f)'
      <3>1. CASE f = e
        <4>1. CASE p = NoPlan
          BY <1>7, <1>8, <3>1, <4>1 DEF ApprovedPlanFits
        <4>2. CASE p # NoPlan
          <5>1. HasStatus(p, "EXECUTING") /\ RunsOf(p) = losses[p]
            BY <1>1, <1>3, <4>2 DEF AsvsInv, PlansFit, ApprovedPlanFits, Recorded
          <5>2. HasStatus(p, "EXECUTING")'
            BY <1>2, <5>1 DEF HasStatus, Stored
          <5>3. RunsOf(p)' = losses'[p] + 1
            BY <1>2, <2>2, <5>1
          <5>4. Recorded(e)' /\ x.run \in DOMAIN runs' /\ runs'[x.run].plan = p
            BY <1>4, <1>6, <1>7, <1>8 DEF Recorded
          <5>5. executing'[e].plan = p /\ executing'[e].at = "recorded" /\ executing'[e].run = x.run
            BY <1>7, <1>8
          <5>6. QED  BY <3>1, <5>2, <5>3, <5>4, <5>5 DEF ApprovedPlanFits
        <4>3. QED  BY <4>1, <4>2
      <3>2. CASE f # e
        <4>1. PICK q \in Generations \cup {NoPlan} : q = executing[f].plan
          BY ExecutionFields DEF AsvsInv, AsvsTypeOK
        <4>2. q # NoPlan => q # p
          BY <1>3, <3>2, <4>1 DEF AsvsInv, PlansFit
        <4>3. executing'[f] = executing[f] /\ ApprovedPlanFits(f)
          BY <1>8, <3>2 DEF AsvsInv, PlansFit
        <4>4. q # NoPlan => RunsOf(q)' = RunsOf(q)
          BY <2>1, <4>2
        <4>5. \A i \in DOMAIN runs : i \in DOMAIN runs' /\ runs'[i] = runs[i]
          BY <1>5, <1>6
        <4>6. QED
          BY <1>2, <4>1, <4>3, <4>4, <4>5 DEF ApprovedPlanFits, HasStatus, Stored, Recorded
      <3>3. QED  BY <3>1, <3>2
    <2>4. ASSUME NEW g \in Generations PROVE CountFits(g)'
      <3>1. CountFits(g) /\ \A i \in DOMAIN runs : i \in DOMAIN runs' /\ runs'[i] = runs[i]
        BY <1>5, <1>6 DEF AsvsInv, PlansFit
      <3>2. CASE g = p
        <4>1. g # NoPlan
          BY AsvsAssumption
        <4>2. HasStatus(g, "EXECUTING") /\ RunsOf(g) = losses[g]
          BY <1>1, <1>3, <3>2, <4>1 DEF AsvsInv, PlansFit, ApprovedPlanFits, Recorded
        <4>3. /\ g \in Stored' /\ ~HasStatus(g, "PENDING")' /\ ~HasStatus(g, "FAILED")'
              /\ ~HasStatus(g, "READY")' /\ ~HasStatus(g, "EXECUTED")'
          BY <1>2, <4>2 DEF HasStatus, Stored
        <4>4. RunsOf(g)' = losses'[g] + 1 /\ losses'[g] \in Int
          BY <1>2, <2>2, <3>2, <4>2, Numbers DEF AsvsInv, AsvsTypeOK
        <4>5. losses'[g] <= RunsOf(g)' /\ RunsOf(g)' <= losses'[g] + 1
          BY <4>4
        <4>6. QED  BY <4>3, <4>5 DEF CountFits
      <3>3. CASE g # p
        <4>1. RunsOf(g)' = RunsOf(g)
          BY <2>1, <3>3
        <4>2. QED  BY <1>2, <3>1, <4>1 DEF CountFits, HasStatus, Stored
      <3>4. QED  BY <3>2, <3>3
    <2>5. \A f, h \in Executions :
            executing'[f].plan = executing'[h].plan /\ executing'[f].plan # NoPlan => f = h
      BY <1>3, <1>7, <1>8 DEF AsvsInv, PlansFit
    <2>6. \A f \in Executions : executing'[f].at = "approving" => executing'[f].plan # NoPlan
      BY <1>7, <1>8 DEF AsvsInv, PlansFit
    <2>7. QED  BY <2>3, <2>4, <2>5, <2>6 DEF PlansFit
  <1>15. QED  BY <1>9, <1>10, <1>12, <1>13, <1>14 DEF AsvsInv

-----------------------------------------------------------------------------
\* The row of a plan that no request holds may change; the others' plans stay.
LEMMA RowsOfOthersStay ==
  ASSUME AsvsTypeOK, PlansFit, NEW p \in Generations, NEW f \in Executions,
         UNCHANGED <<runs, losses>>, executing'[f] = executing[f], executing[f].plan # p,
         \A g \in Generations : g # p => generations'[g] = generations[g]
  PROVE  ApprovedPlanFits(f)'
  <1>1. PICK q \in Generations \cup {NoPlan} : q = executing[f].plan /\ q # p
    BY ExecutionFields DEF AsvsTypeOK
  <1>2. ApprovedPlanFits(f)
    BY DEF PlansFit
  <1>3. RunsOf(q)' = RunsOf(q)
    BY DEF RunsOf
  <1>4. q # NoPlan => generations'[q] = generations[q] /\ losses'[q] = losses[q]
    BY <1>1
  <1>5. QED  BY <1>1, <1>2, <1>3, <1>4 DEF ApprovedPlanFits, HasStatus, Stored, Recorded

\* The runs of a plan are counted apart from those of the others.
LEMMA CountsOfOthersStay ==
  ASSUME PlansFit, NEW p \in Generations, NEW g \in Generations, g # p,
         UNCHANGED <<runs, losses>>, generations'[g] = generations[g]
  PROVE  CountFits(g)'
  <1>1. CountFits(g) /\ RunsOf(g)' = RunsOf(g)
    BY DEF PlansFit, RunsOf
  <1>2. QED  BY <1>1 DEF CountFits, HasStatus, Stored

\* The request that holds a plan changes its row.
LEMMA PlanChanges ==
  ASSUME AsvsInv, NEW e \in Executions, NEW p \in Generations, executing[e].plan = p,
         NEW row \in Generation, generations[p] # NoPlan, generations' = [generations EXCEPT ![p] = row],
         row.session = generations[p].session, row.created = generations[p].created,
         NEW x \in Execution, executing' = [executing EXCEPT ![e] = x],
         x.plan \in {p, NoPlan}, x.at \in {"idle", "locking"}, x.at = "idle" => x = NoExecution,
         UNCHANGED <<asking, runs, hour, losses>>,
         ApprovedPlanFits(e)', CountFits(p)'
  PROVE  AsvsInv'
  <1>1. /\ executing' \in [Executions -> Execution]
        /\ executing'[e] = x
        /\ \A f \in Executions : f # e => executing'[f] = executing[f]
    BY ExecutionBecomes DEF AsvsInv
  <1>2. row # NoPlan
    BY NoPlanAssumption
  <1>3. AsvsTypeOK'
    BY <1>1 DEF AsvsInv, AsvsTypeOK
  <1>4. ReservationsFit' /\ QuotaKept'
    <2>1. \A g \in Generations :
            /\ generations'[g] = NoPlan <=> generations[g] = NoPlan
            /\ generations[g] # NoPlan =>
                 /\ generations'[g].session = generations[g].session
                 /\ generations'[g].created = generations[g].created
      BY <1>2 DEF AsvsInv, AsvsTypeOK
    <2>2. QED  BY <2>1, QuotasStay DEF AsvsInv
  <1>5. RunsFit' /\ RunsSpaced'
    <2>1. RunFits(e)' /\ ~HoldsRunLock(e)'
      BY <1>1 DEF RunFits, HoldsRunLock
    <2>2. QED  BY <1>1, <2>1, RunsStay DEF AsvsInv
  <1>6. PlansFit'
    <2>1. p # NoPlan /\ \A f \in Executions : f # e => executing[f].plan # p
      BY AsvsAssumption DEF AsvsInv, PlansFit
    <2>2. \A g \in Generations : g # p => generations'[g] = generations[g]
      BY DEF AsvsInv, AsvsTypeOK
    <2>3. ASSUME NEW f \in Executions PROVE ApprovedPlanFits(f)'
      BY <1>1, <2>1, <2>2, RowsOfOthersStay DEF AsvsInv
    <2>4. ASSUME NEW g \in Generations PROVE CountFits(g)'
      BY <2>2, CountsOfOthersStay DEF AsvsInv
    <2>5. \A f, h \in Executions :
            executing'[f].plan = executing'[h].plan /\ executing'[f].plan # NoPlan => f = h
      BY <1>1, <2>1 DEF AsvsInv, PlansFit
    <2>6. \A f \in Executions : executing'[f].at = "approving" => executing'[f].plan # NoPlan
      BY <1>1 DEF AsvsInv, PlansFit
    <2>7. QED  BY <2>3, <2>4, <2>5, <2>6 DEF PlansFit
  <1>7. QED  BY <1>3, <1>4, <1>5, <1>6 DEF AsvsInv

\* SELECT ... FOR UPDATE of a READY plan: nobody else has it.
LEMMA LockPlanKeeps ==
  ASSUME AsvsInv, NEW e \in Executions, NEW g \in Generations, LockPlan(e, g)
  PROVE  AsvsInv'
  <1>1. executing[e] = NoExecution /\ executing[e] \in Execution /\ g # NoPlan
    BY AsvsAssumption DEF AsvsInv, AsvsTypeOK, RunsFit, RunFits, LockPlan
  <1>2. UNCHANGED <<generations, asking, runs, hour, losses>> /\ HasStatus(g, "READY") /\ PlanFree(g)
    BY DEF LockPlan
  <1>3. PICK x \in Execution :
          executing' = [executing EXCEPT ![e] = x] /\ x.at = "approving" /\ x.plan = g
    <2> DEFINE k == [executing[e] EXCEPT !.at = "approving", !.plan = g]
    <2>1. k \in Execution /\ k.at = "approving" /\ k.plan = g
      BY <1>1 DEF Execution
    <2>2. executing' = [executing EXCEPT ![e] = k]
      BY DEF LockPlan
    <2>3. QED  BY <2>1, <2>2
  <1>4. /\ executing' \in [Executions -> Execution] /\ executing'[e] = x
        /\ \A f \in Executions : f # e => executing'[f] = executing[f]
    BY <1>3, ExecutionBecomes DEF AsvsInv
  <1>5. AsvsTypeOK'
    BY <1>2, <1>4 DEF AsvsInv, AsvsTypeOK
  <1>6. ReservationsFit' /\ QuotaKept'
    BY <1>2, QuotasStay DEF AsvsInv
  <1>7. RunsFit' /\ RunsSpaced'
    <2>1. RunFits(e)' /\ ~HoldsRunLock(e)'
      BY <1>3, <1>4 DEF RunFits, HoldsRunLock
    <2>2. QED  BY <1>2, <1>4, <2>1, RunsStay DEF AsvsInv
  <1>8. \A f \in Executions : executing[f].plan # g
    <2> SUFFICES ASSUME NEW f \in Executions, executing[f].plan = g PROVE FALSE
      OBVIOUS
    <2>1. HasStatus(g, IF executing[f].at = "approving" THEN "READY" ELSE "EXECUTING")
      BY <1>1 DEF AsvsInv, PlansFit, ApprovedPlanFits
    <2>2. executing[f].at # "approving"
      BY <1>2 DEF PlanFree
    <2>3. QED  BY <1>2, <2>1, <2>2 DEF HasStatus
  <1>9. PlansFit'
    <2>1. ASSUME NEW f \in Executions PROVE ApprovedPlanFits(f)'
      <3>1. CASE f = e
        <4>1. RunsOf(g) = losses[g] /\ RunsOf(g)' = RunsOf(g)
          BY <1>2 DEF AsvsInv, PlansFit, CountFits, RunsOf
        <4>2. HasStatus(g, "READY")'
          BY <1>2 DEF HasStatus, Stored
        <4>3. ~Recorded(e)' /\ executing'[e].plan = g /\ executing'[e].at = "approving"
          BY <1>3, <1>4 DEF Recorded
        <4>4. RunsOf(g)' = losses'[g]
          BY <1>2, <4>1
        <4>5. QED  BY <3>1, <4>2, <4>3, <4>4 DEF ApprovedPlanFits
      <3>2. CASE f # e
        BY <1>2, <1>4, <1>8, <3>2, RowsOfOthersStay DEF AsvsInv
      <3>3. QED  BY <3>1, <3>2
    <2>2. ASSUME NEW h \in Generations PROVE CountFits(h)'
      BY <1>2 DEF AsvsInv, PlansFit, CountFits, RunsOf, HasStatus, Stored
    <2>3. \A f, h \in Executions :
            executing'[f].plan = executing'[h].plan /\ executing'[f].plan # NoPlan => f = h
      BY <1>3, <1>4, <1>8 DEF AsvsInv, PlansFit
    <2>4. \A f \in Executions : executing'[f].at = "approving" => executing'[f].plan # NoPlan
      BY <1>1, <1>3, <1>4 DEF AsvsInv, PlansFit
    <2>5. QED  BY <2>1, <2>2, <2>3, <2>4 DEF PlansFit
  <1>10. QED  BY <1>5, <1>6, <1>7, <1>9 DEF AsvsInv

\* UPDATE ... SET status = 'EXECUTING', in the transaction that locked the plan.
LEMMA MarkExecutingKeeps ==
  ASSUME AsvsInv, NEW e \in Executions, MarkExecuting(e)
  PROVE  AsvsInv'
  <1>1. executing[e] \in Execution /\ executing[e].at = "approving"
    BY DEF AsvsInv, AsvsTypeOK, MarkExecuting
  <1>2. PICK p \in Generations : p = executing[e].plan /\ p # NoPlan
    BY <1>1, ExecutionFields DEF AsvsInv, PlansFit
  <1>3. HasStatus(p, "READY") /\ RunsOf(p) = losses[p]
    BY <1>1, <1>2 DEF AsvsInv, PlansFit, ApprovedPlanFits, Recorded
  <1>4. generations[p] \in Generation /\ generations[p] # NoPlan
    BY <1>3 DEF AsvsInv, AsvsTypeOK, HasStatus, Stored
  <1>5. PICK row \in Generation :
          /\ generations' = [generations EXCEPT ![p] = row]
          /\ row.status = "EXECUTING"
          /\ row.session = generations[p].session /\ row.created = generations[p].created
    <2> DEFINE k == [generations[p] EXCEPT !.status = "EXECUTING"]
    <2>1. /\ k \in Generation /\ k.status = "EXECUTING"
          /\ k.session = generations[p].session /\ k.created = generations[p].created
      BY <1>4 DEF Generation
    <2>2. generations' = [generations EXCEPT ![p] = k]
      BY <1>2 DEF MarkExecuting
    <2>3. QED  BY <2>1, <2>2
  <1>6. PICK x \in Execution :
          executing' = [executing EXCEPT ![e] = x] /\ x.at = "locking" /\ x.plan = p
    <2> DEFINE k == [executing[e] EXCEPT !.at = "locking"]
    <2>1. k \in Execution /\ k.at = "locking" /\ k.plan = p
      BY <1>1, <1>2 DEF Execution
    <2>2. executing' = [executing EXCEPT ![e] = k]
      BY DEF MarkExecuting, ExecutionGoes
    <2>3. QED  BY <2>1, <2>2
  <1>7. UNCHANGED <<asking, runs, hour, losses>> /\ executing'[e] = x /\ generations'[p] = row
    BY <1>5, <1>6 DEF MarkExecuting, AsvsInv, AsvsTypeOK
  <1>8. row # NoPlan
    BY NoPlanAssumption
  <1>9. RunsOf(p)' = losses'[p] /\ losses[p] \in Int
    BY <1>3, <1>7, Numbers DEF RunsOf, AsvsInv, AsvsTypeOK
  <1>10. ApprovedPlanFits(e)'
    <2>1. HasStatus(p, "EXECUTING")' /\ ~Recorded(e)'
      BY <1>5, <1>6, <1>7, <1>8 DEF HasStatus, Stored, Recorded
    <2>2. QED  BY <1>6, <1>7, <1>9, <2>1 DEF ApprovedPlanFits
  <1>11. CountFits(p)'
    BY <1>5, <1>7, <1>8, <1>9 DEF CountFits, HasStatus, Stored
  <1>12. QED  BY <1>2, <1>4, <1>5, <1>6, <1>7, <1>10, <1>11, PlanChanges

\* A run that failed puts its plan back, which it alone holds.
LEMMA RestoreReadyKeeps ==
  ASSUME AsvsInv, NEW e \in Executions, RestoreReady(e)
  PROVE  AsvsInv'
  <1>1. /\ executing[e] \in Execution /\ executing[e].at = "failed"
        /\ executing' = [executing EXCEPT ![e] = NoExecution]
        /\ UNCHANGED <<asking, runs, hour, losses>>
    BY DEF AsvsInv, AsvsTypeOK, RestoreReady
  <1>2. CASE executing[e].plan = NoPlan
    BY <1>1, <1>2, EndKeeps DEF RestoreReady
  <1>3. CASE executing[e].plan # NoPlan
    <2>1. PICK p \in Generations : p = executing[e].plan /\ p # NoPlan
      BY <1>1, <1>3, ExecutionFields
    <2>2. HasStatus(p, "EXECUTING") /\ RunsOf(p) = losses[p]
      BY <1>1, <2>1 DEF AsvsInv, PlansFit, ApprovedPlanFits, Recorded
    <2>3. generations[p] \in Generation /\ generations[p] # NoPlan
      BY <2>2 DEF AsvsInv, AsvsTypeOK, HasStatus, Stored
    <2>4. PICK row \in Generation :
            /\ generations' = [generations EXCEPT ![p] = row]
            /\ row.status = "READY"
            /\ row.session = generations[p].session /\ row.created = generations[p].created
      <3> DEFINE k == [generations[p] EXCEPT !.status = "READY"]
      <3>1. /\ k \in Generation /\ k.status = "READY"
            /\ k.session = generations[p].session /\ k.created = generations[p].created
        BY <2>3 DEF Generation
      <3>2. generations' = [generations EXCEPT ![p] = k]
        BY <2>1, <2>2 DEF RestoreReady, SetStatus
      <3>3. QED  BY <3>1, <3>2
    <2>5. executing'[e] = NoExecution /\ generations'[p] = row
      BY <1>1, <2>4 DEF AsvsInv, AsvsTypeOK
    <2>6. row # NoPlan
      BY NoPlanAssumption
    <2>7. RunsOf(p)' = losses'[p] /\ losses[p] \in Int
      BY <1>1, <2>2, Numbers DEF RunsOf, AsvsInv, AsvsTypeOK
    <2>8. ApprovedPlanFits(e)'
      BY <2>5, NoExecutionType DEF ApprovedPlanFits
    <2>9. CountFits(p)'
      BY <1>1, <2>4, <2>5, <2>6, <2>7 DEF CountFits, HasStatus, Stored
    <2>10. QED  BY <1>1, <2>1, <2>3, <2>4, <2>8, <2>9, NoExecutionType, PlanChanges
  <1>4. QED  BY <1>2, <1>3

\* A plan is EXECUTED by the run that was recorded for it.
LEMMA MarkExecutedKeeps ==
  ASSUME AsvsInv, NEW e \in Executions, MarkExecuted(e)
  PROVE  AsvsInv'
  <1>1. /\ executing[e] \in Execution /\ executing[e].at = "ran"
        /\ executing' = [executing EXCEPT ![e] = NoExecution]
        /\ UNCHANGED <<asking, runs, hour, losses>>
    BY DEF AsvsInv, AsvsTypeOK, MarkExecuted
  <1>2. CASE executing[e].plan = NoPlan
    <2>1. ~HasStatus(NoPlan, "EXECUTING")
      BY AsvsAssumption DEF HasStatus, Stored
    <2>2. QED  BY <1>1, <1>2, <2>1, EndKeeps DEF MarkExecuted
  <1>3. CASE executing[e].plan # NoPlan
    <2>1. PICK p \in Generations, n \in 0 .. MaxRuns :
            p = executing[e].plan /\ p # NoPlan /\ n = executing[e].run
      BY <1>1, <1>3, ExecutionFields
    <2>2. /\ HasStatus(p, "EXECUTING") /\ RunsOf(p) = losses[p] + 1
          /\ n \in DOMAIN runs /\ runs[n].plan = p
      BY <1>1, <2>1 DEF AsvsInv, PlansFit, ApprovedPlanFits, Recorded
    <2>3. generations[p] \in Generation /\ generations[p] # NoPlan
      BY <2>2 DEF AsvsInv, AsvsTypeOK, HasStatus, Stored
    <2>4. PICK row \in Generation :
            /\ generations' = [generations EXCEPT ![p] = row]
            /\ row.status = "EXECUTED" /\ row.run = n
            /\ row.session = generations[p].session /\ row.created = generations[p].created
      <3> DEFINE k == [generations[p] EXCEPT !.status = "EXECUTED", !.run = executing[e].run]
      <3>1. /\ k \in Generation /\ k.status = "EXECUTED" /\ k.run = n
            /\ k.session = generations[p].session /\ k.created = generations[p].created
        BY <2>1, <2>3 DEF Generation
      <3>2. generations' = [generations EXCEPT ![p] = k]
        BY <2>1, <2>2 DEF MarkExecuted
      <3>3. QED  BY <3>1, <3>2
    <2>5. executing'[e] = NoExecution /\ generations'[p] = row
      BY <1>1, <2>4 DEF AsvsInv, AsvsTypeOK
    <2>6. row # NoPlan
      BY NoPlanAssumption
    <2>7. RunsOf(p)' = losses'[p] + 1 /\ losses'[p] \in Int
      BY <1>1, <2>2, Numbers DEF RunsOf, AsvsInv, AsvsTypeOK
    <2>8. ApprovedPlanFits(e)'
      BY <2>5, NoExecutionType DEF ApprovedPlanFits
    <2>9. CountFits(p)'
      <3>1. losses'[p] <= RunsOf(p)' /\ RunsOf(p)' <= losses'[p] + 1
        BY <2>7
      <3>2. QED  BY <1>1, <2>2, <2>4, <2>5, <2>6, <3>1 DEF CountFits, HasStatus, Stored
    <2>10. QED  BY <1>1, <2>1, <2>3, <2>4, <2>8, <2>9, NoExecutionType, PlanChanges
  <1>4. QED  BY <1>2, <1>3

-----------------------------------------------------------------------------
\* Nobody has approved a plan that is not READY yet: its row may change.
LEMMA UnapprovedChanges ==
  ASSUME AsvsInv, NEW p \in Generations, UNCHANGED <<runs, executing, losses>>,
         ~HasStatus(p, "READY"), ~HasStatus(p, "EXECUTING"), RunsOf(p) = 0,
         \A g \in Generations : g # p => generations'[g] = generations[g],
         generations'[p] # NoPlan, generations'[p].status # "EXECUTED"
  PROVE  PlansFit'
  <1>1. \A f \in Executions : executing[f].plan # p
    BY AsvsAssumption DEF AsvsInv, PlansFit, ApprovedPlanFits
  <1>2. ASSUME NEW f \in Executions PROVE ApprovedPlanFits(f)'
    BY <1>1, RowsOfOthersStay DEF AsvsInv
  <1>3. ASSUME NEW g \in Generations PROVE CountFits(g)'
    <2>1. CASE g # p
      BY <2>1, CountsOfOthersStay DEF AsvsInv
    <2>2. CASE g = p
      <3>1. RunsOf(p)' = 0
        BY DEF RunsOf
      <3>2. losses'[p] = 0
        <4>1. losses[p] <= RunsOf(p) /\ losses[p] \in 0 .. MaxRuns
          BY DEF AsvsInv, PlansFit, CountFits, AsvsTypeOK
        <4>2. QED  BY <4>1, Numbers
      <3>3. QED  BY <2>2, <3>1, <3>2 DEF CountFits, HasStatus, Stored
    <2>3. QED  BY <2>1, <2>2
  <1>4. QED  BY <1>2, <1>3 DEF AsvsInv, PlansFit

\* A request for a plan moves on and changes no row.
LEMMA AskMoves ==
  ASSUME AsvsInv, NEW g \in Generations, NEW a \in Ask, asking' = [asking EXCEPT ![g] = a],
         UNCHANGED <<generations, runs, executing, hour, losses>>,
         a.at \in {"new", "reserving", "counted"} => generations[g] = NoPlan,
         a.at \notin {"new", "ended"} => a.session \in BrowserSessions,
         a.at = "counted" => WithinQuota(a.session, a.began) /\ QuotaFree
  PROVE  AsvsInv'
  <1>1. /\ asking' \in [Generations -> Ask] /\ asking'[g] = a
        /\ \A h \in Generations : h # g => asking'[h] = asking[h]
    BY DEF AsvsInv, AsvsTypeOK
  <1>2. AsvsTypeOK'
    BY <1>1 DEF AsvsInv, AsvsTypeOK
  <1>3. ReservationsFit'
    <2>1. ASSUME NEW h \in Generations PROVE ReservationFits(h)'
      <3>1. CASE h = g
        BY <1>1, <3>1, CountedRowsStay DEF ReservationFits, WithinQuota
      <3>2. CASE h # g
        BY <1>1, <3>2, CountedRowsStay DEF AsvsInv, ReservationsFit, ReservationFits, WithinQuota
      <3>3. QED  BY <3>1, <3>2
    <2>2. \A h, k \in Generations : asking'[h].at = "counted" /\ asking'[k].at = "counted" => h = k
      BY <1>1 DEF AsvsInv, ReservationsFit, QuotaFree
    <2>3. QED  BY <2>1, <2>2, CountedRowsStay DEF AsvsInv, ReservationsFit
  <1>4. QuotaKept'
    BY CountedRowsStay DEF AsvsInv
  <1>5. RunsFit' /\ RunsSpaced'
    BY DEF AsvsInv, RunsFit, RunFits, RunsSpaced, HoldsRunLock
  <1>6. PlansFit'
    BY DEF AsvsInv, PlansFit, ApprovedPlanFits, CountFits, RunsOf, HasStatus, Stored, Recorded
  <1>7. QED  BY <1>2, <1>3, <1>4, <1>5, <1>6 DEF AsvsInv

\* A request for a plan goes to another place (_reserve, the provider, a crash).
LEMMA AskGoesKeeps ==
  ASSUME AsvsInv, NEW g \in Generations, NEW place \in Asks, AskGoes(g, place),
         UNCHANGED <<generations, runs, executing, hour, losses>>,
         place \in {"new", "reserving", "counted"} => generations[g] = NoPlan,
         place \notin {"new", "ended"} => asking[g].session \in BrowserSessions,
         place = "counted" => WithinQuota(asking[g].session, asking[g].began) /\ QuotaFree
  PROVE  AsvsInv'
  <1>1. asking[g] \in Ask
    BY DEF AsvsInv, AsvsTypeOK
  <1>2. PICK a \in Ask :
          /\ asking' = [asking EXCEPT ![g] = a]
          /\ a.at = place /\ a.session = asking[g].session /\ a.began = asking[g].began
    <2> DEFINE k == [asking[g] EXCEPT !.at = place]
    <2>1. k \in Ask /\ k.at = place /\ k.session = asking[g].session /\ k.began = asking[g].began
      BY <1>1 DEF Ask, Asks
    <2>2. asking' = [asking EXCEPT ![g] = k]
      BY DEF AskGoes
    <2>3. QED  BY <2>1, <2>2
  <1>3. QED  BY <1>2, AskMoves

\* A request to generate a plan has reserved nothing yet.
LEMMA BeginGenerationKeeps ==
  ASSUME AsvsInv, NEW g \in Generations, NEW s \in BrowserSessions, BeginGeneration(g, s)
  PROVE  AsvsInv'
  <1>1. generations[g] = NoPlan
    BY DEF BeginGeneration, AsvsInv, ReservationsFit, ReservationFits
  <1>2. PICK a \in Ask :
          asking' = [asking EXCEPT ![g] = a] /\ a.at = "reserving" /\ a.session = s
    <2>1. [at |-> "reserving", session |-> s, began |-> hour] \in Ask
      BY DEF Ask, AsvsInv, AsvsTypeOK
    <2>2. QED  BY <2>1 DEF BeginGeneration
  <1>3. QED  BY <1>1, <1>2, AskMoves DEF BeginGeneration

\* The quotas are read under the advisory lock.
LEMMA CountQuotaKeeps ==
  ASSUME AsvsInv, NEW g \in Generations, CountQuota(g)
  PROVE  AsvsInv'
  <1>1. generations[g] = NoPlan /\ asking[g].session \in BrowserSessions
    BY DEF CountQuota, AsvsInv, ReservationsFit, ReservationFits
  <1>2. CASE WithinQuota(asking[g].session, asking[g].began)
    <2>1. AskGoes(g, "counted") /\ "counted" \in Asks
      BY <1>2 DEF CountQuota, Asks
    <2>2. QED  BY <1>1, <1>2, <2>1, AskGoesKeeps DEF CountQuota
  <1>3. CASE ~WithinQuota(asking[g].session, asking[g].began)
    <2>1. AskGoes(g, "ended") /\ "ended" \in Asks
      BY <1>3 DEF CountQuota, Asks
    <2>2. QED  BY <2>1, AskGoesKeeps DEF CountQuota
  <1>4. QED  BY <1>2, <1>3

\* The model's answer, valid or not, moves the request that waits for it.
LEMMA ModelAnswersKeeps ==
  ASSUME AsvsInv, NEW g \in Generations, NEW valid \in BOOLEAN, ModelAnswers(g, valid)
  PROVE  AsvsInv'
  <1>1. asking[g].session \in BrowserSessions
    BY DEF ModelAnswers, AsvsInv, ReservationsFit, ReservationFits
  <1>2. PICK place \in {"valid", "failed"} : AskGoes(g, place) /\ place \in Asks
    BY DEF ModelAnswers, Asks
  <1>3. QED  BY <1>1, <1>2, AskGoesKeeps DEF ModelAnswers

\* A request that is cut short leaves its plan as it is stored.
LEMMA AbandonGenerationKeeps ==
  ASSUME AsvsInv, NEW g \in Generations, AbandonGeneration(g)
  PROVE  AsvsInv'
  <1>1. AskGoes(g, "ended") /\ "ended" \in Asks
    BY DEF AbandonGeneration, Asks
  <1>2. QED  BY <1>1, AskGoesKeeps DEF AbandonGeneration

\* The plan is READY or FAILED, if it is still waited for.
LEMMA FinishGenerationKeeps ==
  ASSUME AsvsInv, NEW g \in Generations, FinishGeneration(g)
  PROVE  AsvsInv'
  <1>1. UNCHANGED <<runs, executing, hour, losses>>
    BY DEF FinishGeneration
  <1>2. AskGoes(g, "ended") /\ "ended" \in Asks
    BY DEF FinishGeneration, Asks
  <1>3. CASE ~HasStatus(g, "PENDING")
    <2>1. UNCHANGED generations
      BY <1>3 DEF FinishGeneration, SetStatus
    <2>2. QED  BY <1>1, <1>2, <2>1, AskGoesKeeps
  <1>4. CASE HasStatus(g, "PENDING")
    <2>1. generations[g] \in Generation /\ generations[g] # NoPlan
      BY <1>4 DEF AsvsInv, AsvsTypeOK, HasStatus, Stored
    <2>2. PICK row \in Generation :
            /\ generations' = [generations EXCEPT ![g] = row]
            /\ row.status \in {"READY", "FAILED"}
            /\ row.session = generations[g].session /\ row.created = generations[g].created
      <3> DEFINE k == [generations[g] EXCEPT !.status =
                         IF asking[g].at = "valid" THEN "READY" ELSE "FAILED"]
      <3>1. /\ k \in Generation /\ k.status \in {"READY", "FAILED"}
            /\ k.session = generations[g].session /\ k.created = generations[g].created
        BY <2>1 DEF Generation
      <3>2. generations' = [generations EXCEPT ![g] = k]
        BY <1>4 DEF FinishGeneration, SetStatus
      <3>3. QED  BY <3>1, <3>2
    <2>3. row # NoPlan
      BY NoPlanAssumption
    <2>4. /\ generations' \in [Generations -> Generation \cup {NoPlan}]
          /\ generations'[g] = row
          /\ \A h \in Generations : h # g => generations'[h] = generations[h]
      BY <2>2 DEF AsvsInv, AsvsTypeOK
    <2>5. \A h \in Generations :
            /\ generations'[h] = NoPlan <=> generations[h] = NoPlan
            /\ generations[h] # NoPlan =>
                 /\ generations'[h].session = generations[h].session
                 /\ generations'[h].created = generations[h].created
      BY <2>1, <2>2, <2>3, <2>4
    <2>6. /\ asking' \in [Generations -> Ask] /\ asking'[g].at = "ended"
          /\ \A h \in Generations : h # g => asking'[h] = asking[h]
      BY <1>2 DEF AskGoes, AsvsInv, AsvsTypeOK, Ask
    <2>7. AsvsTypeOK'
      BY <1>1, <2>4, <2>6 DEF AsvsInv, AsvsTypeOK
    <2>8. ReservationsFit'
      <3>1. ASSUME NEW h \in Generations PROVE ReservationFits(h)'
        <4>1. CASE h = g
          BY <2>6, <4>1 DEF ReservationFits
        <4>2. CASE h # g
          BY <2>4, <2>5, <2>6, <4>2, CountedRowsStay
             DEF AsvsInv, ReservationsFit, ReservationFits, WithinQuota
        <4>3. QED  BY <4>1, <4>2
      <3>2. \A h, k \in Generations : asking'[h].at = "counted" /\ asking'[k].at = "counted" => h = k
        BY <2>6 DEF AsvsInv, ReservationsFit
      <3>3. Stored' = Stored
        BY <2>5, CountedRowsStay
      <3>4. QED  BY <3>1, <3>2, <3>3 DEF AsvsInv, ReservationsFit
    <2>9. QuotaKept'
      BY <2>5, CountedRowsStay DEF AsvsInv
    <2>10. RunsFit' /\ RunsSpaced'
      BY <1>1 DEF AsvsInv, RunsFit, RunFits, RunsSpaced, HoldsRunLock
    <2>11. PlansFit'
      <3>1. RunsOf(g) = 0
        BY <1>4 DEF AsvsInv, PlansFit, CountFits
      <3>2. ~HasStatus(g, "READY") /\ ~HasStatus(g, "EXECUTING")
        BY <1>4 DEF HasStatus
      <3>3. QED  BY <1>1, <2>2, <2>3, <2>4, <3>1, <3>2, UnapprovedChanges
    <2>12. QED  BY <2>7, <2>8, <2>9, <2>10, <2>11 DEF AsvsInv
  <1>5. QED  BY <1>3, <1>4

\* A set of plans grows by one at most, and is still within its limit.
LEMMA OnePlanMore ==
  ASSUME NEW S, NEW T, NEW g, NEW limit \in Nat, IsFiniteSet(T), S \subseteq T \cup {g},
         Cardinality(T) < limit
  PROVE  Cardinality(S) <= limit
  <1>1. /\ IsFiniteSet(T \cup {g})
        /\ Cardinality(T \cup {g}) = IF g \in T THEN Cardinality(T) ELSE Cardinality(T) + 1
    BY FS_AddElement
  <1>2. IsFiniteSet(S) /\ Cardinality(S) <= Cardinality(T \cup {g})
    BY <1>1, FS_Subset
  <1>3. Cardinality(T) \in Nat /\ Cardinality(S) \in Nat /\ Cardinality(T \cup {g}) \in Nat
    BY <1>1, <1>2, FS_CardinalityType
  <1>4. QED  BY <1>1, <1>2, <1>3

\* INSERT INTO asvs_ai_generations: what was counted under the lock is still so, and
\* every plan of the day was among what was counted.
LEMMA ReserveKeeps ==
  ASSUME AsvsInv, NEW g \in Generations, Reserve(g)
  PROVE  AsvsInv'
  <1>1. UNCHANGED <<runs, executing, hour, losses>> /\ asking[g].at = "counted"
    BY DEF Reserve
  <1>2. /\ generations[g] = NoPlan /\ WithinQuota(asking[g].session, asking[g].began)
        /\ asking[g].session \in BrowserSessions /\ asking[g] \in Ask
    BY <1>1 DEF AsvsInv, ReservationsFit, ReservationFits, AsvsTypeOK
  <1>3. PICK s \in BrowserSessions, t \in 0 .. LastHour : s = asking[g].session /\ t = asking[g].began
    BY <1>2 DEF Ask
  <1>4. PICK row \in Generation :
          /\ generations' = [generations EXCEPT ![g] = row]
          /\ row.status = "PENDING" /\ row.session = s /\ row.created = t
    <2> DEFINE k == [status |-> "PENDING", session |-> asking[g].session,
                     created |-> asking[g].began, run |-> 0]
    <2>1. k \in Generation /\ k.status = "PENDING" /\ k.session = s /\ k.created = t
      BY <1>3, Numbers DEF Generation
    <2>2. generations' = [generations EXCEPT ![g] = k]
      BY DEF Reserve
    <2>3. QED  BY <2>1, <2>2
  <1>5. row # NoPlan
    BY NoPlanAssumption
  <1>6. /\ generations' \in [Generations -> Generation \cup {NoPlan}]
        /\ generations'[g] = row
        /\ \A h \in Generations : h # g => generations'[h] = generations[h]
    BY <1>4 DEF AsvsInv, AsvsTypeOK
  <1>7. /\ asking' \in [Generations -> Ask] /\ asking'[g].at = "asked" /\ asking'[g].session = s
        /\ \A h \in Generations : h # g => asking'[h] = asking[h]
    BY <1>3 DEF Reserve, AskGoes, AsvsInv, AsvsTypeOK, Ask
  <1>8. AsvsTypeOK'
    BY <1>1, <1>6, <1>7 DEF AsvsInv, AsvsTypeOK
  <1>9. Stored' = Stored \cup {g} /\ g \notin Stored
    BY <1>2, <1>5, <1>6 DEF Stored
  <1>10. IsFiniteSet(Stored) /\ IsFiniteSet(Stored')
    <2>1. IsFiniteSet(Stored)
      BY DEF AsvsInv, ReservationsFit
    <2>2. QED  BY <1>9, <2>1, FS_AddElement
  <1>11. ReservationsFit'
    <2>1. ASSUME NEW h \in Generations PROVE ReservationFits(h)'
      <3>1. CASE h = g
        BY <1>7, <3>1 DEF ReservationFits
      <3>2. CASE h # g
        <4>1. asking[h].at # "counted" /\ asking'[h] = asking[h] /\ generations'[h] = generations[h]
          BY <1>1, <1>6, <1>7, <3>2 DEF AsvsInv, ReservationsFit
        <4>2. QED  BY <4>1 DEF AsvsInv, ReservationsFit, ReservationFits
      <3>3. QED  BY <3>1, <3>2
    <2>2. \A h, k \in Generations : asking'[h].at = "counted" /\ asking'[k].at = "counted" => h = k
      BY <1>7 DEF AsvsInv, ReservationsFit
    <2>3. QED  BY <1>10, <2>1, <2>2 DEF ReservationsFit
  <1>12. /\ IsFiniteSet(UsedBySession(s)) /\ IsFiniteSet(UsedSince(t))
         /\ IsFiniteSet(UsedByAccountSince(Owner[s], t))
    BY <1>10, FS_Subset DEF UsedBySession, UsedSince, UsedByAccountSince
  <1>13. /\ Cardinality(UsedBySession(s)) < SessionLimit
         /\ Cardinality(UsedByAccountSince(Owner[s], t)) < AccountLimitPerDay
         /\ Cardinality(UsedSince(t)) < LimitPerDay
    BY <1>2, <1>3 DEF WithinQuota
  <1>14. \A r \in BrowserSessions : Cardinality(UsedBySession(r)') <= SessionLimit
    <2> SUFFICES ASSUME NEW r \in BrowserSessions PROVE Cardinality(UsedBySession(r)') <= SessionLimit
      OBVIOUS
    <2>1. CASE r = s
      <3>1. UsedBySession(r)' \subseteq UsedBySession(s) \cup {g}
        BY <1>6, <1>9, <2>1 DEF UsedBySession, Stored
      <3>2. QED  BY <1>12, <1>13, <3>1, OnePlanMore, Numbers
    <2>2. CASE r # s
      <3>1. UsedBySession(r)' = UsedBySession(r)
        BY <1>2, <1>4, <1>6, <1>9, <2>2 DEF UsedBySession, Stored
      <3>2. QED  BY <3>1 DEF AsvsInv, QuotaKept
    <2>3. QED  BY <2>1, <2>2
  <1>15. Day(t) \in Int
    BY <1>3, Numbers DEF Day
  <1>16. ASSUME NEW d \in 0 .. Day(LastHour)
         PROVE  /\ Cardinality({h \in Stored' : Day(generations'[h].created) = d}) <= LimitPerDay
                /\ \A a \in {Owner[r] : r \in BrowserSessions} :
                     Cardinality({h \in {k \in Stored' : Day(generations'[k].created) = d} :
                                    Owner[generations'[h].session] = a}) <= AccountLimitPerDay
    <2> DEFINE New == {h \in Stored' : Day(generations'[h].created) = d}
               Old == {h \in Stored : Day(generations[h].created) = d}
               NewOf(a) == {h \in New : Owner[generations'[h].session] = a}
               OldOf(a) == {h \in Old : Owner[generations[h].session] = a}
    <2>1. CASE d = Day(t)
      <3>1. Old \subseteq UsedSince(t)
        BY <1>15, <2>1 DEF UsedSince
      <3>2. New \subseteq Old \cup {g}
        BY <1>6, <1>9 DEF Stored
      <3>3. New \subseteq UsedSince(t) \cup {g}
        BY <3>1, <3>2
      <3>4. Cardinality(New) <= LimitPerDay
        <4> HIDE DEF New
        <4>1. QED  BY <1>12, <1>13, <3>3, OnePlanMore, Numbers
      <3>5. ASSUME NEW a \in {Owner[r] : r \in BrowserSessions}
            PROVE  Cardinality(NewOf(a)) <= AccountLimitPerDay
        <4>1. CASE a = Owner[s]
          <5>1. NewOf(a) \subseteq UsedByAccountSince(Owner[s], t) \cup {g}
            BY <1>6, <3>3, <4>1 DEF UsedByAccountSince, UsedSince, Stored
          <5> HIDE DEF NewOf
          <5>2. QED  BY <1>12, <1>13, <5>1, OnePlanMore, Numbers
        <4>2. CASE a # Owner[s]
          <5>1. NewOf(a) = OldOf(a)
            BY <1>4, <1>6, <1>9, <4>2 DEF Stored
          <5>2. Cardinality(OldOf(a)) <= AccountLimitPerDay
            BY <3>5 DEF AsvsInv, QuotaKept
          <5>3. QED  BY <5>1, <5>2
        <4>3. QED  BY <4>1, <4>2
      <3>6. QED  BY <3>4, <3>5
    <2>2. CASE d # Day(t)
      <3>1. New = Old
        BY <1>4, <1>6, <1>9, <2>2 DEF Stored
      <3>2. \A a : NewOf(a) = OldOf(a)
        BY <1>4, <1>6, <1>9, <2>2 DEF Stored
      <3>3. /\ Cardinality(Old) <= LimitPerDay
            /\ \A a \in {Owner[r] : r \in BrowserSessions} : Cardinality(OldOf(a)) <= AccountLimitPerDay
        BY DEF AsvsInv, QuotaKept
      <3>4. QED  BY <3>1, <3>2, <3>3
    <2>3. QED  BY <2>1, <2>2
  <1>17. QuotaKept'
    BY <1>14, <1>16 DEF QuotaKept, Day
  <1>18. RunsFit' /\ RunsSpaced'
    BY <1>1 DEF AsvsInv, RunsFit, RunFits, RunsSpaced, HoldsRunLock
  <1>19. PlansFit'
    <2>1. RunsOf(g) = 0 /\ ~HasStatus(g, "READY") /\ ~HasStatus(g, "EXECUTING")
      BY <1>9 DEF AsvsInv, PlansFit, CountFits, HasStatus
    <2>2. generations'[g] # NoPlan /\ generations'[g].status # "EXECUTED"
      BY <1>4, <1>5, <1>6
    <2>3. QED  BY <1>1, <1>6, <2>1, <2>2, UnapprovedChanges
  <1>20. QED  BY <1>8, <1>11, <1>17, <1>18, <1>19 DEF AsvsInv

\* What reservations, live runs and approved plans rely on between their statements
\* - the quota lock, the run lock, the row lock of a plan - holds in every state
\* (asvs.py, execute; asvs_ai.py, _reserve and approve_and_execute).
THEOREM AsvsInductive == AsvsSpec => []AsvsInv
  <1>1. AsvsInit => AsvsInv
    <2> SUFFICES ASSUME AsvsInit PROVE AsvsInv
      OBVIOUS
    <2>1. AsvsTypeOK
      <3>1. NewAsk \in Ask
        BY Numbers DEF NewAsk, Ask
      <3>2. runs \in Seq(Run) /\ Len(runs) = 0
        BY DEF AsvsInit
      <3>3. QED  BY <3>1, <3>2, NoExecutionType, Numbers DEF AsvsInit, AsvsTypeOK
    <2>2. Stored = {}
      BY DEF AsvsInit, Stored
    <2>3. ReservationsFit
      BY <2>2, FS_EmptySet DEF AsvsInit, ReservationsFit, ReservationFits, NewAsk
    <2>4. QuotaKept
      <3>1. \A S : S \subseteq Stored => Cardinality(S) = 0
        <4>1. Cardinality({}) = 0
          BY FS_EmptySet
        <4>2. QED  BY <2>2, <4>1
      <3>2. \A s : Cardinality(UsedBySession(s)) = 0
        BY <3>1 DEF UsedBySession
      <3>3. \A d : Cardinality({g \in Stored : Day(generations[g].created) = d}) = 0
        BY <3>1
      <3>4. \A d, a : Cardinality({g \in {h \in Stored : Day(generations[h].created) = d} :
                                    Owner[generations[g].session] = a}) = 0
        BY <3>1
      <3>5. 0 <= SessionLimit /\ 0 <= AccountLimitPerDay /\ 0 <= LimitPerDay
        BY Numbers
      <3>6. \A s \in BrowserSessions : Cardinality(UsedBySession(s)) <= SessionLimit
        BY <3>2, <3>5
      <3>7. ASSUME NEW d \in 0 .. Day(LastHour)
            PROVE  /\ Cardinality({g \in Stored : Day(generations[g].created) = d}) <= LimitPerDay
                   /\ \A a \in {Owner[s] : s \in BrowserSessions} :
                        Cardinality({g \in {h \in Stored : Day(generations[h].created) = d} :
                                       Owner[generations[g].session] = a}) <= AccountLimitPerDay
        BY <3>3, <3>4, <3>5
      <3>8. QED  BY <3>6, <3>7 DEF QuotaKept
    <2>5. RunsFit /\ RunsSpaced
      BY NoExecutionType DEF AsvsInit, RunsFit, RunFits, RunsSpaced, HoldsRunLock
    <2>6. PlansFit
      <3>1. \A g : RunsOf(g) = 0
        <4>1. \A g : {i \in DOMAIN runs : runs[i].plan = g} = {}
          BY DEF AsvsInit
        <4>2. QED  BY <4>1, FS_EmptySet DEF RunsOf
      <3>2. \A g \in Generations : CountFits(g)
        BY <2>2, <3>1 DEF AsvsInit, CountFits, HasStatus
      <3>3. QED  BY <3>2, NoExecutionType DEF AsvsInit, PlansFit, ApprovedPlanFits
    <2>7. QED  BY <2>1, <2>3, <2>4, <2>5, <2>6 DEF AsvsInv
  <1>2. AsvsInv /\ [AsvsNext]_asvsVars => AsvsInv'
    <2> SUFFICES ASSUME AsvsInv, [AsvsNext]_asvsVars PROVE AsvsInv'
      OBVIOUS
    <2>1. ASSUME UNCHANGED <<generations, asking, runs, executing, losses>>,
                 hour' \in 0 .. LastHour, hour' >= hour
          PROVE  AsvsInv'
      <3>1. AsvsTypeOK'
        BY <2>1 DEF AsvsInv, AsvsTypeOK
      <3>2. ReservationsFit' /\ QuotaKept'
        BY <2>1, QuotasStay DEF AsvsInv
      <3>3. hour \in Int /\ hour' \in Int
        BY <2>1, Numbers DEF AsvsInv, AsvsTypeOK
      <3>4. \A e \in Executions : executing[e].start \in Int /\ executing[e].done \in Int
        BY ExecutionFields DEF AsvsInv, AsvsTypeOK
      <3>5. ASSUME NEW e \in Executions PROVE RunFits(e)'
        <4>1. RunFits(e)
          BY DEF AsvsInv, RunsFit
        <4>2. QED  BY <2>1, <3>3, <3>4, <4>1 DEF RunFits
      <3>6. \A i \in DOMAIN runs : runs[i].start <= runs[i].done /\ runs[i].done <= hour'
        BY <2>1, <3>3, RunRows DEF AsvsInv, RunsFit
      <3>7. RunsFit' /\ RunsSpaced'
        BY <2>1, <3>5, <3>6 DEF AsvsInv, RunsFit, RunsSpaced, HoldsRunLock
      <3>8. PlansFit'
        BY <2>1 DEF AsvsInv, PlansFit, ApprovedPlanFits, CountFits, RunsOf, HasStatus, Stored, Recorded
      <3>9. QED  BY <3>1, <3>2, <3>7, <3>8 DEF AsvsInv
    <2>2. hour \in 0 .. LastHour
      BY DEF AsvsInv, AsvsTypeOK
    <2>3. CASE UNCHANGED asvsVars
      BY <2>1, <2>2, <2>3, Numbers DEF asvsVars
    <2>4. CASE AsvsTick
      BY <2>1, <2>2, <2>4, Numbers DEF AsvsTick
    <2>5. ASSUME NEW g \in Generations, GenerationStep(g) PROVE AsvsInv'
      BY <2>5, BeginGenerationKeeps, CountQuotaKeeps, ReserveKeeps, FinishGenerationKeeps,
         AbandonGenerationKeeps, ModelAnswersKeeps DEF GenerationStep
    <2>6. ASSUME NEW e \in Executions, ExecutionStep(e) PROVE AsvsInv'
      <3>1. CASE \E g \in Generations : LockPlan(e, g)
        BY <3>1, LockPlanKeeps
      <3>2. CASE MarkExecuting(e) \/ RestoreReady(e) \/ MarkExecuted(e)
        BY <3>2, MarkExecutingKeeps, RestoreReadyKeeps, MarkExecutedKeeps
      <3>3. CASE StartRun(e) \/ TryRunLock(e) \/ ReadCooldown(e) \/ FinishProbes(e) \/ RecordRun(e)
        BY <3>3, StartRunKeeps, TryRunLockKeeps, ReadCooldownKeeps, FinishProbesKeeps, RecordRunKeeps
      <3>4. CASE Unlock(e) \/ LoseConnection(e) \/ EndAdrift(e)
        BY <3>4, UnlockKeeps, LoseConnectionKeeps, EndAdriftKeeps
      <3>5. CASE DieExecuting(e)
        BY <3>5, EndKeeps DEF DieExecuting
      <3>6. QED  BY <2>6, <3>1, <3>2, <3>3, <3>4, <3>5 DEF ExecutionStep
    <2>7. QED  BY <2>3, <2>4, <2>5, <2>6 DEF AsvsNext
  <1>3. QED  BY <1>1, <1>2, PTL DEF AsvsSpec

\* No session, account or day gets more plans than its limit (asvs_ai.py, _reserve).
THEOREM QuotasKept == AsvsSpec => []QuotaKept
  <1>1. AsvsInv => QuotaKept
    BY DEF AsvsInv
  <1>2. QED  BY <1>1, AsvsInductive, PTL

\* Recorded live runs are a cooldown apart, although the lock of a run may be lost
\* with its connection (asvs.py, execute).
THEOREM LiveRunsSpaced == AsvsSpec => []RunsSpaced
  <1>1. AsvsInv => RunsSpaced
    BY DEF AsvsInv
  <1>2. QED  BY <1>1, AsvsInductive, PTL

\* An approved plan runs once, and once more for every lost answer (asvs_ai.py,
\* approve_and_execute).
THEOREM ApprovedPlansRunOnce == AsvsSpec => []PlansRunOnce
  <1>1. ASSUME AsvsInv PROVE PlansRunOnce
    <2> SUFFICES ASSUME NEW g \in Stored
                 PROVE  /\ generations[g].status = "EXECUTED" =>
                             generations[g].run \in DOMAIN runs /\ runs[generations[g].run].plan = g
                        /\ RunsOf(g) <= 1 + losses[g]
                        /\ generations[g].status \in {"PENDING", "FAILED"} =>
                             \A i \in DOMAIN runs : runs[i].plan # g
      BY DEF PlansRunOnce, RunsOf
    <2>1. g \in Generations /\ CountFits(g)
      BY <1>1 DEF Stored, AsvsInv, PlansFit
    <2>2. RunsOf(g) <= 1 + losses[g]
      <3>1. RunsOf(g) \in Int
        <4>1. AsvsTypeOK
          BY <1>1 DEF AsvsInv
        <4>2. RunsOf(g) \in Nat
          BY <4>1, RunsCounted
        <4>3. QED  BY <4>2
      <3>2. losses[g] \in Int
        BY <1>1, <2>1, Numbers DEF AsvsInv, AsvsTypeOK
      <3>3. QED  BY <2>1, <3>1, <3>2 DEF CountFits
    <2>3. ASSUME generations[g].status \in {"PENDING", "FAILED"}
          PROVE  \A i \in DOMAIN runs : runs[i].plan # g
      <3>1. RunsOf(g) = 0
        BY <2>1, <2>3 DEF CountFits, HasStatus
      <3>2. IsFiniteSet({i \in DOMAIN runs : runs[i].plan = g})
        BY <1>1, RunsCounted DEF AsvsInv
      <3>3. {i \in DOMAIN runs : runs[i].plan = g} = {}
        BY <3>1, <3>2, FS_EmptySet DEF RunsOf
      <3>4. QED  BY <3>3
    <2>4. QED  BY <2>1, <2>2, <2>3 DEF CountFits, HasStatus
  <1>2. QED  BY <1>1, AsvsInductive, PTL

-----------------------------------------------------------------------------
\* Rows of the attack lab are only ever inserted.
VersionIn(versions, v) == IF v = 0 THEN DefaultProfile ELSE versions[v]

\* Rows are only added, after those that are there.
RowsGrow(before, after) == /\ Len(before) \in Nat /\ Len(after) \in Nat /\ Len(before) <= Len(after)
                   /\ DOMAIN before = 1 .. Len(before) /\ DOMAIN after = 1 .. Len(after)
                   /\ \A i \in 1 .. Len(before) : after[i] = before[i]

\* Appending a row grows a table, and that row is the only new one.
LEMMA AppendGrows ==
  ASSUME NEW S, NEW rows \in Seq(S), NEW row \in S
  PROVE  /\ Append(rows, row) \in Seq(S)
         /\ RowsGrow(rows, Append(rows, row))
         /\ \A i \in DOMAIN Append(rows, row) :
              i \notin DOMAIN rows => Append(rows, row)[i] = row
  <1>1. Len(rows) \in Nat /\ DOMAIN rows = 1 .. Len(rows)
    OBVIOUS
  <1>2. /\ Append(rows, row) \in Seq(S) /\ Len(Append(rows, row)) = Len(rows) + 1
        /\ \A i \in 1 .. Len(rows) : Append(rows, row)[i] = rows[i]
        /\ Append(rows, row)[Len(rows) + 1] = row
    OBVIOUS
  <1>3. DOMAIN Append(rows, row) = 1 .. Len(rows) + 1
    BY <1>1, <1>2
  <1>4. QED  BY <1>1, <1>2, <1>3 DEF RowsGrow

\* A table that stays the same grows, by nothing.
LEMMA SameGrows ==
  ASSUME NEW S, NEW rows \in Seq(S)
  PROVE  RowsGrow(rows, rows)
  BY DEF RowsGrow

\* Versions are numbered from 1 without a gap.
LEMMA VersionsNumbered ==
  ASSUME LabInv
  PROVE  Latest \in Nat /\ Versions = 1 .. Latest
  BY FS_CardinalityType DEF LabInv, AttackLabTypeOK, Latest

\* What was made from rows that stay still fits, so only the new row matters.
LEMMA GrowKeeps ==
  ASSUME LabInv, AttackLabTypeOK', IsFiniteSet(Versions)',
         Latest <= Latest', \A v \in Versions : v \in Versions' /\ financials'[v] = financials[v],
         RowsGrow(snapshots, snapshots'), RowsGrow(scenarioSets, scenarioSets'),
         RowsGrow(simulations, simulations'), RowsGrow(plans, plans'),
         \A x \in saved' : x \notin saved => x[1] \in Versions' /\ financials'[x[1]] = x[2],
         \A i \in DOMAIN snapshots' : i \notin DOMAIN snapshots => snapshots'[i].graph = snapshots'[i].commit,
         \A s \in DOMAIN scenarioSets' : s \notin DOMAIN scenarioSets =>
           /\ scenarioSets'[s].version \in 0 .. Latest'
           /\ scenarioSets'[s].profile = VersionIn(financials', scenarioSets'[s].version)
           /\ scenarioSets'[s].source \in 0 .. Len(snapshots')
           /\ scenarioSets'[s].source # 0 =>
                scenarioSets'[s].graph = snapshots'[scenarioSets'[s].source].commit
           /\ scenarioSets'[s].cited \subseteq NodesOf[scenarioSets'[s].graph],
         \A p \in DOMAIN plans' : p \notin DOMAIN plans =>
           /\ plans'[p].set \in DOMAIN scenarioSets'
           /\ plans'[p].cited \subseteq scenarioSets'[plans'[p].set].cited,
         \A n \in DOMAIN simulations' : n \notin DOMAIN simulations =>
           /\ simulations'[n].set \in DOMAIN scenarioSets'
           /\ simulations'[n].profile = scenarioSets'[simulations'[n].set].profile
           /\ simulations'[n].plan # 0 =>
                /\ simulations'[n].plan \in DOMAIN plans'
                /\ plans'[simulations'[n].plan].set = simulations'[n].set
                /\ plans'[simulations'[n].plan].scenario = simulations'[n].scenario,
         NEW r, \A q \in LabRequests : q # r => job'[q] = job[q],
         r \in LabRequests => LabJobFits(r)'
  PROVE  LabInv'
  <1>1. Latest \in Nat /\ Versions = 1 .. Latest
    BY VersionsNumbered
  <1>2. Latest' \in Int
    <2>1. Latest' \in Nat
      BY FS_CardinalityType DEF Latest
    <2>2. QED  BY <2>1
  <1>3. \A v \in 0 .. Latest : /\ v \in 0 .. Latest'
                              /\ VersionIn(financials', v) = VersionIn(financials, v)
    BY <1>1, <1>2 DEF VersionIn
  <1>4. \A x \in saved' : x[1] \in Versions' /\ financials'[x[1]] = x[2]
    BY DEF LabInv, RowsPinned
  <1>5. \A i \in DOMAIN snapshots' : snapshots'[i].graph = snapshots'[i].commit
    BY DEF LabInv, RowsPinned, RowsGrow
  <1>6. ASSUME NEW s \in DOMAIN scenarioSets'
        PROVE  /\ ProfileFits(scenarioSets[s])' /\ GraphFits(scenarioSets[s])'
               /\ scenarioSets'[s].cited \subseteq NodesOf[scenarioSets'[s].graph]
    <2>1. CASE s \notin DOMAIN scenarioSets
      BY <2>1 DEF ProfileFits, GraphFits, Version, VersionIn
    <2>2. CASE s \in DOMAIN scenarioSets
      <3>1. scenarioSets'[s] = scenarioSets[s]
        BY <2>2 DEF RowsGrow
      <3>2. /\ ProfileFits(scenarioSets[s]) /\ GraphFits(scenarioSets[s])
            /\ scenarioSets[s].cited \subseteq NodesOf[scenarioSets[s].graph]
        BY <2>2 DEF LabInv, RowsPinned
      <3>3. /\ scenarioSets'[s].version \in 0 .. Latest'
            /\ scenarioSets'[s].profile = VersionIn(financials', scenarioSets'[s].version)
        BY <1>3, <3>1, <3>2 DEF ProfileFits, Version, VersionIn
      <3>4. /\ scenarioSets'[s].source \in 0 .. Len(snapshots')
            /\ scenarioSets'[s].source # 0 =>
                 scenarioSets'[s].graph = snapshots'[scenarioSets'[s].source].commit
        BY <3>1, <3>2 DEF GraphFits, RowsGrow
      <3>5. QED  BY <3>1, <3>2, <3>3, <3>4 DEF ProfileFits, GraphFits, Version, VersionIn
    <2>3. QED  BY <2>1, <2>2
  <1>7. \A p \in DOMAIN plans' :
          plans'[p].set \in DOMAIN scenarioSets' /\ plans'[p].cited \subseteq scenarioSets'[plans'[p].set].cited
    BY DEF LabInv, RowsPinned, RowsGrow
  <1>8. \A n \in DOMAIN simulations' :
          /\ simulations'[n].set \in DOMAIN scenarioSets'
          /\ simulations'[n].profile = scenarioSets'[simulations'[n].set].profile
          /\ simulations'[n].plan # 0 =>
               /\ simulations'[n].plan \in DOMAIN plans'
               /\ plans'[simulations'[n].plan].set = simulations'[n].set
               /\ plans'[simulations'[n].plan].scenario = simulations'[n].scenario
    BY DEF LabInv, RowsPinned, RowsGrow
  <1>9. RowsPinned'
    BY <1>4, <1>5, <1>6, <1>7, <1>8 DEF RowsPinned
  <1>10. ASSUME NEW q \in LabRequests PROVE LabJobFits(q)'
    <2>1. CASE q = r
      BY <2>1
    <2>2. CASE q # r
      <3>1. job'[q] = job[q] /\ LabJobFits(q)
        BY <2>2 DEF LabInv
      <3>2. JobIs(q, "saving") => job[q].version \in 1 .. Latest' + 1
        BY <1>1, <1>2, <3>1 DEF LabJobFits
      <3>3. GraphFits(job[q]) => /\ job[q].source \in 0 .. Len(snapshots')
                                 /\ job[q].source # 0 => job[q].graph = snapshots'[job[q].source].commit
        BY DEF GraphFits, RowsGrow
      <3>4. ProfileFits(job[q]) => /\ job[q].version \in 0 .. Latest'
                                   /\ job[q].profile = VersionIn(financials', job[q].version)
        BY <1>3 DEF ProfileFits, Version, VersionIn
      <3>5. JobIs(q, "remediating") =>
              /\ job[q].simulation \in DOMAIN simulations'
              /\ job[q].evidence \subseteq scenarioSets'[simulations'[job[q].simulation].set].cited
        BY <3>1 DEF LabJobFits, LabInv, RowsPinned, RowsGrow
      <3>6. QED
        BY <3>1, <3>2, <3>3, <3>4, <3>5
           DEF LabJobFits, JobIs, GraphFits, ProfileFits, Version, VersionIn
    <2>3. QED  BY <2>1, <2>2
  <1>11. QED  BY <1>9, <1>10 DEF LabInv

\* A request that only reads moves on with what it read.
LEMMA ReadingKeeps ==
  ASSUME LabInv, NEW r \in LabRequests, NEW what \in Job, JobGoes(r, what),
         UNCHANGED <<tables, branch, deployed, saved>>, LabJobFits(r)'
  PROVE  LabInv'
  <1>1. /\ financials' = financials /\ snapshots' = snapshots /\ scenarioSets' = scenarioSets
        /\ simulations' = simulations /\ plans' = plans /\ saved' = saved
        /\ branch' = branch /\ deployed' = deployed
    BY DEF tables
  <1>2. Latest' = Latest /\ Versions' = Versions
    BY <1>1 DEF Latest, Versions
  <1>3. job' \in [LabRequests -> Job] /\ \A q \in LabRequests : q # r => job'[q] = job[q]
    BY DEF JobGoes, LabInv, AttackLabTypeOK
  <1>4. AttackLabTypeOK' /\ IsFiniteSet(Versions)'
    BY <1>1, <1>2, <1>3 DEF LabInv, AttackLabTypeOK
  <1>5. Latest \in Nat
    BY VersionsNumbered
  <1>6. Latest <= Latest' /\ \A v \in Versions : v \in Versions' /\ financials'[v] = financials[v]
    BY <1>1, <1>2, <1>5
  <1>7. /\ RowsGrow(snapshots, snapshots') /\ RowsGrow(scenarioSets, scenarioSets')
        /\ RowsGrow(simulations, simulations') /\ RowsGrow(plans, plans')
    BY <1>1, SameGrows DEF LabInv, AttackLabTypeOK
  <1>8. QED  BY ONLY LabInv, LabJobFits(r)', <1>1, <1>3, <1>4, <1>6, <1>7, GrowKeeps

\* The branch moves and releases come and go: no row and no request has them.
LEMMA AroundKeeps ==
  ASSUME LabInv, UNCHANGED <<tables, job, saved>>, branch' \in Commits,
         deployed' \subseteq Releases /\ deployed' # {}
  PROVE  LabInv'
  <1>1. /\ financials' = financials /\ snapshots' = snapshots /\ scenarioSets' = scenarioSets
        /\ simulations' = simulations /\ plans' = plans /\ saved' = saved /\ job' = job
    BY DEF tables
  <1>2. Latest' = Latest /\ Versions' = Versions
    BY <1>1 DEF Latest, Versions
  <1>3. AttackLabTypeOK' /\ IsFiniteSet(Versions)'
    BY <1>1, <1>2 DEF LabInv, AttackLabTypeOK
  <1>4. RowsPinned'
    BY <1>1, <1>2 DEF LabInv, RowsPinned, ProfileFits, GraphFits, Version
  <1>5. \A r \in LabRequests : LabJobFits(r)'
    BY <1>1, <1>2 DEF LabInv, LabJobFits, JobIs, ProfileFits, GraphFits, Version
  <1>6. QED  BY <1>3, <1>4, <1>5 DEF LabInv

\* A request that ends has read nothing.
LEMMA EndedFits ==
  ASSUME LabInv, NEW r \in LabRequests, Ends(r)
  PROVE  /\ job' \in [LabRequests -> Job] /\ LabJobFits(r)'
         /\ \A q \in LabRequests : q # r => job'[q] = job[q]
  <1>1. NoJob \in Job /\ NoJob.at = "idle"
    BY DEF NoJob, Job
  <1>2. /\ job' \in [LabRequests -> Job] /\ job'[r] = NoJob
        /\ \A q \in LabRequests : q # r => job'[q] = job[q]
    BY <1>1 DEF Ends, JobGoes, LabInv, AttackLabTypeOK
  <1>3. QED  BY <1>1, <1>2 DEF LabJobFits, JobIs

\* A request that fails leaves every row alone.
LEMMA FailJobKeeps ==
  ASSUME LabInv, NEW r \in LabRequests, FailJob(r)
  PROVE  LabInv'
  <1>1. NoJob \in Job
    BY DEF NoJob, Job
  <1>2. Ends(r) /\ UNCHANGED <<tables, branch, deployed, saved>>
    BY DEF FailJob
  <1>3. JobGoes(r, NoJob)
    BY <1>2 DEF Ends
  <1>4. LabJobFits(r)'
    BY <1>2, EndedFits
  <1>5. QED  BY <1>1, <1>2, <1>3, <1>4, ReadingKeeps

\* What a request has read, by where it is.
LEMMA JobRead ==
  ASSUME LabInv, NEW r \in LabRequests
  PROVE  /\ job[r] \in Job
         /\ JobIs(r, "saving") => job[r].version \in Nat /\ job[r].profile \in Profiles
         /\ JobIs(r, "resolved") => job[r].commit \in Commits
         /\ JobIs(r, "fetched") => job[r].commit \in Commits /\ job[r].graph \in Graphs
         /\ JobIs(r, "graph") => job[r].source \in Nat /\ job[r].graph \in Graphs
         /\ JobIs(r, "asking") => /\ job[r].source \in Nat /\ job[r].graph \in Graphs
                                  /\ job[r].version \in Nat /\ job[r].profile \in Profiles
         /\ JobIs(r, "remediating") => job[r].simulation \in Nat /\ job[r].evidence \subseteq AllNodes
  <1>1. job[r] \in Job
    BY DEF LabInv, AttackLabTypeOK
  <1>2. QED  BY <1>1 DEF Job, JobIs

\* The version a server chooses is the next one it sees.
LEMMA InsertProfileKeeps ==
  ASSUME LabInv, NEW r \in LabRequests, NEW profile \in Profiles, InsertProfile(r, profile)
  PROVE  LabInv'
  <1> DEFINE what == [at |-> "saving", version |-> Latest + 1, profile |-> profile]
  <1>1. Latest \in Nat
    BY VersionsNumbered
  <1>2. what \in Job
    BY <1>1 DEF Job
  <1>3. JobGoes(r, what) /\ UNCHANGED <<tables, branch, deployed, saved>>
    BY DEF InsertProfile
  <1>4. job'[r] = what
    BY <1>3 DEF JobGoes, LabInv, AttackLabTypeOK
  <1>5. Latest' = Latest
    BY <1>3 DEF tables, Latest, Versions
  <1>6. LabJobFits(r)'
    BY <1>1, <1>4, <1>5 DEF LabJobFits, JobIs
  <1>7. QED  BY <1>2, <1>3, <1>6, ReadingKeeps

\* A commit is resolved, and its tree is fetched for that commit.
LEMMA ResolveCommitKeeps ==
  ASSUME LabInv, NEW r \in LabRequests, ResolveCommit(r)
  PROVE  LabInv'
  <1> DEFINE what == [at |-> "resolved", commit |-> branch]
  <1>1. what \in Job
    BY DEF Job, LabInv, AttackLabTypeOK
  <1>2. JobGoes(r, what) /\ UNCHANGED <<tables, branch, deployed, saved>>
    BY DEF ResolveCommit
  <1>3. job'[r] = what
    BY <1>2 DEF JobGoes, LabInv, AttackLabTypeOK
  <1>4. LabJobFits(r)'
    BY <1>3 DEF LabJobFits, JobIs
  <1>5. QED  BY <1>1, <1>2, <1>4, ReadingKeeps

\* The graph a request fetches is its own commit's.
LEMMA FetchBlobsKeeps ==
  ASSUME LabInv, NEW r \in LabRequests, FetchBlobs(r)
  PROVE  LabInv'
  <1> DEFINE what == [at |-> "fetched", commit |-> job[r].commit, graph |-> TreeOf(r)]
  <1>1. job[r].commit \in Commits
    BY JobRead DEF FetchBlobs
  <1>2. what \in Job
    BY <1>1 DEF Job, TreeOf, Graphs
  <1>3. JobGoes(r, what) /\ UNCHANGED <<tables, branch, deployed, saved>>
    BY DEF FetchBlobs
  <1>4. job'[r] = what
    BY <1>3 DEF JobGoes, LabInv, AttackLabTypeOK
  <1>5. LabJobFits(r)'
    BY <1>4 DEF LabJobFits, JobIs, TreeOf
  <1>6. QED  BY <1>2, <1>3, <1>5, ReadingKeeps

\* The built-in catalogue of a release, or the graph of a snapshot that is there.
LEMMA ReadGraphKeeps ==
  ASSUME LabInv, NEW r \in LabRequests, NEW source \in 0 .. Len(snapshots), ReadGraph(r, source)
  PROVE  LabInv'
  <1>1. PICK release \in deployed :
          JobGoes(r, [at |-> "graph", source |-> source, graph |-> CatalogFor(source, release)])
    BY DEF ReadGraph
  <1> DEFINE what == [at |-> "graph", source |-> source, graph |-> CatalogFor(source, release)]
  <1>2. UNCHANGED <<tables, branch, deployed, saved>>
    BY DEF ReadGraph
  <1>3. snapshots \in Seq(Snapshot) /\ release \in Releases
    BY DEF LabInv, AttackLabTypeOK
  <1>4. source \in Nat
    BY <1>3
  <1>5. source # 0 => source \in DOMAIN snapshots
    BY <1>3
  <1>6. \A i \in DOMAIN snapshots : snapshots[i] \in Snapshot
    BY <1>3
  <1>7. source # 0 => snapshots[source].graph = snapshots[source].commit
    BY <1>5 DEF LabInv, RowsPinned
  <1>8. CatalogFor(source, release) \in Graphs
    BY <1>3, <1>5, <1>6 DEF CatalogFor, Graphs, Snapshot
  <1>9. what \in Job
    BY <1>4, <1>8 DEF Job
  <1>10. job'[r] = what
    BY <1>1 DEF JobGoes, LabInv, AttackLabTypeOK
  <1>11. snapshots' = snapshots
    BY <1>2 DEF tables
  <1>12. LabJobFits(r)'
    BY <1>7, <1>10, <1>11 DEF LabJobFits, JobIs, GraphFits, CatalogFor
  <1>13. QED  BY <1>1, <1>2, <1>9, <1>12, ReadingKeeps

\* The current profile is the one of the latest version.
LEMMA ReadProfileKeeps ==
  ASSUME LabInv, NEW r \in LabRequests, ReadProfile(r)
  PROVE  LabInv'
  <1> DEFINE what == [at |-> "asking", source |-> job[r].source, graph |-> job[r].graph,
                      version |-> Latest, profile |-> CurrentProfile]
  <1>1. Latest \in Nat /\ Versions = 1 .. Latest
    BY VersionsNumbered
  <1>2. CurrentProfile \in Profiles /\ CurrentProfile = Version(Latest)
    BY <1>1, AttackLabAssumption DEF CurrentProfile, Version, LabInv, AttackLabTypeOK
  <1>3. JobIs(r, "graph") /\ JobGoes(r, what) /\ UNCHANGED <<tables, branch, deployed, saved>>
    BY DEF ReadProfile
  <1>4. job[r].source \in Nat /\ job[r].graph \in Graphs /\ GraphFits(job[r])
    BY <1>3, JobRead DEF LabInv, LabJobFits
  <1>5. what \in Job
    BY <1>1, <1>2, <1>4 DEF Job
  <1>6. job'[r] = what
    BY <1>3 DEF JobGoes, LabInv, AttackLabTypeOK
  <1>7. snapshots' = snapshots /\ financials' = financials
    BY <1>3 DEF tables
  <1>8. Latest' = Latest
    BY <1>7 DEF Latest, Versions
  <1>9. LabJobFits(r)'
    BY <1>1, <1>2, <1>4, <1>6, <1>7, <1>8
       DEF LabJobFits, JobIs, GraphFits, ProfileFits, Version
  <1>10. QED  BY <1>3, <1>5, <1>9, ReadingKeeps

\* The evidence is taken from what the set cites.
LEMMA BeginRemediationKeeps ==
  ASSUME LabInv, NEW r \in LabRequests, NEW n \in DOMAIN simulations, BeginRemediation(r, n)
  PROVE  LabInv'
  <1> DEFINE s == simulations[n].set
  <1>1. PICK release \in deployed :
          JobGoes(r, [at |-> "remediating", simulation |-> n, evidence |-> GraphEvidence(s, release)])
    BY DEF BeginRemediation
  <1> DEFINE what == [at |-> "remediating", simulation |-> n, evidence |-> GraphEvidence(s, release)]
  <1>2. UNCHANGED <<tables, branch, deployed, saved>>
    BY DEF BeginRemediation
  <1>3. s \in DOMAIN scenarioSets
    BY DEF LabInv, RowsPinned
  <1>4. scenarioSets[s] \in ScenarioSet /\ n \in Nat
    BY <1>3 DEF LabInv, AttackLabTypeOK
  <1>5. GraphEvidence(s, release) \subseteq scenarioSets[s].cited
    BY DEF GraphEvidence
  <1>6. what \in Job
    BY <1>4, <1>5 DEF Job, ScenarioSet
  <1>7. job'[r] = what
    BY <1>1 DEF JobGoes, LabInv, AttackLabTypeOK
  <1>8. scenarioSets' = scenarioSets /\ simulations' = simulations
    BY <1>2 DEF tables
  <1>9. LabJobFits(r)'
    BY <1>5, <1>7, <1>8 DEF LabJobFits, JobIs
  <1>10. QED  BY <1>1, <1>2, <1>6, <1>9, ReadingKeeps

\* Inserting a row in one table leaves the numbering of versions alone.
LEMMA VersionsStay ==
  ASSUME LabInv, financials' = financials
  PROVE  /\ Latest' = Latest /\ Versions' = Versions /\ Latest <= Latest'
         /\ IsFiniteSet(Versions)'
         /\ \A v \in Versions : v \in Versions' /\ financials'[v] = financials[v]
         /\ Versions' = 1 .. Latest' /\ \A v \in Versions' : financials'[v] \in Profiles
  <1>1. Latest' = Latest /\ Versions' = Versions
    BY DEF Latest, Versions
  <1>2. Latest \in Nat
    BY VersionsNumbered
  <1>3. QED  BY <1>1, <1>2 DEF LabInv, AttackLabTypeOK

\* A snapshot is stored with the commit it was read from.
LEMMA InsertSnapshotKeeps ==
  ASSUME LabInv, NEW r \in LabRequests, InsertSnapshot(r)
  PROVE  LabInv'
  <1> DEFINE row == [commit |-> job[r].commit, graph |-> job[r].graph]
  <1>1. job[r].commit \in Commits /\ job[r].graph \in Graphs /\ job[r].graph = job[r].commit
    BY JobRead DEF InsertSnapshot, LabInv, LabJobFits
  <1>2. row \in Snapshot /\ row.graph = row.commit
    BY <1>1 DEF Snapshot
  <1>3. snapshots' = Append(snapshots, row)
    BY DEF InsertSnapshot
  <1>4. /\ snapshots' \in Seq(Snapshot) /\ RowsGrow(snapshots, snapshots')
        /\ \A i \in DOMAIN snapshots' : i \notin DOMAIN snapshots => snapshots'[i] = row
    BY <1>2, <1>3, AppendGrows DEF LabInv, AttackLabTypeOK
  <1>5. /\ financials' = financials /\ scenarioSets' = scenarioSets /\ simulations' = simulations
        /\ plans' = plans /\ saved' = saved /\ branch' = branch /\ deployed' = deployed
    BY DEF InsertSnapshot
  <1>6. /\ job' \in [LabRequests -> Job] /\ LabJobFits(r)'
        /\ \A q \in LabRequests : q # r => job'[q] = job[q]
    BY EndedFits DEF InsertSnapshot
  <1>7. AttackLabTypeOK'
    BY <1>4, <1>5, <1>6, VersionsStay DEF LabInv, AttackLabTypeOK
  <1>8. /\ RowsGrow(scenarioSets, scenarioSets') /\ RowsGrow(simulations, simulations')
        /\ RowsGrow(plans, plans')
    BY <1>5, SameGrows DEF LabInv, AttackLabTypeOK
  <1>9. \A i \in DOMAIN snapshots' :
          i \notin DOMAIN snapshots => snapshots'[i].graph = snapshots'[i].commit
    BY <1>2, <1>4
  <1>10. QED
    BY ONLY LabInv, <1>4, <1>5, <1>6, <1>7, <1>8, <1>9, VersionsStay, GrowKeeps

\* A set names the version and the graph it was made from, and cites that graph.
LEMMA InsertSetKeeps ==
  ASSUME LabInv, NEW r \in LabRequests, NEW cited \in SUBSET AllNodes, InsertSet(r, cited)
  PROVE  LabInv'
  <1> DEFINE scenarios == ProposedScenarios(cited, NodesOf[job[r].graph])
             row == [source |-> job[r].source, graph |-> job[r].graph, version |-> job[r].version,
                     profile |-> job[r].profile, cited |-> scenarios]
  <1>1. /\ job[r].source \in Nat /\ job[r].graph \in Graphs
        /\ job[r].version \in Nat /\ job[r].profile \in Profiles
        /\ GraphFits(job[r]) /\ ProfileFits(job[r])
    BY JobRead DEF InsertSet, LabInv, LabJobFits
  <1>2. scenarios \subseteq NodesOf[job[r].graph] /\ scenarios \in SUBSET AllNodes
    BY DEF ProposedScenarios, CitesOnly
  <1>3. row \in ScenarioSet
    BY <1>1, <1>2 DEF ScenarioSet
  <1>4. scenarioSets' = Append(scenarioSets, row)
    BY DEF InsertSet
  <1>5. /\ scenarioSets' \in Seq(ScenarioSet) /\ RowsGrow(scenarioSets, scenarioSets')
        /\ \A s \in DOMAIN scenarioSets' : s \notin DOMAIN scenarioSets => scenarioSets'[s] = row
    BY <1>3, <1>4, AppendGrows DEF LabInv, AttackLabTypeOK
  <1>6. /\ financials' = financials /\ snapshots' = snapshots /\ simulations' = simulations
        /\ plans' = plans /\ saved' = saved /\ branch' = branch /\ deployed' = deployed
    BY DEF InsertSet
  <1>7. /\ job' \in [LabRequests -> Job] /\ LabJobFits(r)'
        /\ \A q \in LabRequests : q # r => job'[q] = job[q]
    BY EndedFits DEF InsertSet
  <1>8. AttackLabTypeOK'
    BY <1>5, <1>6, <1>7, VersionsStay DEF LabInv, AttackLabTypeOK
  <1>9. /\ RowsGrow(snapshots, snapshots') /\ RowsGrow(simulations, simulations')
        /\ RowsGrow(plans, plans')
    BY <1>6, SameGrows DEF LabInv, AttackLabTypeOK
  <1>10. /\ row.version \in 0 .. Latest' /\ row.profile = VersionIn(financials', row.version)
         /\ row.source \in 0 .. Len(snapshots')
         /\ row.source # 0 => row.graph = snapshots'[row.source].commit
         /\ row.cited \subseteq NodesOf[row.graph]
    BY <1>1, <1>2, <1>6, VersionsStay DEF GraphFits, ProfileFits, Version, VersionIn
  <1>11. \A s \in DOMAIN scenarioSets' : s \notin DOMAIN scenarioSets =>
           /\ scenarioSets'[s].version \in 0 .. Latest'
           /\ scenarioSets'[s].profile = VersionIn(financials', scenarioSets'[s].version)
           /\ scenarioSets'[s].source \in 0 .. Len(snapshots')
           /\ scenarioSets'[s].source # 0 =>
                scenarioSets'[s].graph = snapshots'[scenarioSets'[s].source].commit
           /\ scenarioSets'[s].cited \subseteq NodesOf[scenarioSets'[s].graph]
    <2> HIDE DEF row
    <2>1. QED  BY <1>5, <1>10
  <1>12. QED
    BY ONLY LabInv, <1>5, <1>6, <1>7, <1>8, <1>9, <1>11, VersionsStay, GrowKeeps

\* A simulation takes the figures of its set and a plan made for its scenario.
LEMMA SimulateKeeps ==
  ASSUME LabInv, NEW r \in LabRequests, NEW s \in DOMAIN scenarioSets,
         NEW scenario \in Scenarios, NEW p \in 0 .. Len(plans), Simulate(r, s, scenario, p)
  PROVE  LabInv'
  <1> DEFINE row == [set |-> s, scenario |-> scenario, profile |-> scenarioSets[s].profile,
                     plan |-> p]
  <1>1. scenarioSets \in Seq(ScenarioSet) /\ plans \in Seq(Plan)
    BY DEF LabInv, AttackLabTypeOK
  <1>2. s \in Nat /\ scenarioSets[s] \in ScenarioSet
    BY <1>1
  <1>3. row \in Simulation
    BY <1>1, <1>2 DEF Simulation, ScenarioSet
  <1>4. simulations' = Append(simulations, row)
    BY DEF Simulate
  <1>5. /\ simulations' \in Seq(Simulation) /\ RowsGrow(simulations, simulations')
        /\ \A n \in DOMAIN simulations' : n \notin DOMAIN simulations => simulations'[n] = row
    BY <1>3, <1>4, AppendGrows DEF LabInv, AttackLabTypeOK
  <1>6. /\ financials' = financials /\ snapshots' = snapshots /\ scenarioSets' = scenarioSets
        /\ plans' = plans /\ saved' = saved /\ branch' = branch /\ deployed' = deployed
        /\ job' = job
    BY DEF Simulate
  <1>7. Latest' = Latest
    BY <1>6, VersionsStay
  <1>8. LabJobFits(r)'
    <2>1. LabJobFits(r) /\ JobIs(r, "idle")
      BY DEF LabInv, Simulate
    <2>2. QED  BY <1>6, <2>1 DEF LabJobFits, JobIs
  <1>9. AttackLabTypeOK'
    BY <1>5, <1>6, VersionsStay DEF LabInv, AttackLabTypeOK
  <1>10. /\ RowsGrow(snapshots, snapshots') /\ RowsGrow(scenarioSets, scenarioSets')
         /\ RowsGrow(plans, plans')
    BY <1>6, SameGrows DEF LabInv, AttackLabTypeOK
  <1>11. p # 0 => /\ p \in DOMAIN plans
                  /\ plans[p].set = s /\ plans[p].scenario = scenario
    BY <1>1 DEF Simulate, PlanFits
  <1>12. /\ row.set \in DOMAIN scenarioSets'
         /\ row.profile = scenarioSets'[row.set].profile
         /\ row.plan # 0 => /\ row.plan \in DOMAIN plans'
                            /\ plans'[row.plan].set = row.set
                            /\ plans'[row.plan].scenario = row.scenario
    BY <1>6, <1>11
  <1>13. \A n \in DOMAIN simulations' : n \notin DOMAIN simulations =>
           /\ simulations'[n].set \in DOMAIN scenarioSets'
           /\ simulations'[n].profile = scenarioSets'[simulations'[n].set].profile
           /\ simulations'[n].plan # 0 =>
                /\ simulations'[n].plan \in DOMAIN plans'
                /\ plans'[simulations'[n].plan].set = simulations'[n].set
                /\ plans'[simulations'[n].plan].scenario = simulations'[n].scenario
    <2> HIDE DEF row
    <2>1. QED  BY <1>5, <1>12
  <1>14. QED
    BY ONLY LabInv, <1>5, <1>6, <1>8, <1>9, <1>10, <1>13, VersionsStay, GrowKeeps

\* A plan cites what its set cites, however late the model answers.
LEMMA InsertPlanKeeps ==
  ASSUME LabInv, NEW r \in LabRequests, NEW cited \in SUBSET AllNodes, NEW fails \in BOOLEAN,
         InsertPlan(r, cited, fails)
  PROVE  LabInv'
  <1> DEFINE simulation == simulations[job[r].simulation]
             proposed == ProposedRemediations(cited, job[r].evidence, fails)
             row == [set |-> simulation.set, scenario |-> simulation.scenario,
                     ready |-> proposed.ready, cited |-> proposed.cited]
  <1>1. /\ job[r].simulation \in DOMAIN simulations
        /\ job[r].evidence \subseteq scenarioSets[simulation.set].cited
    BY DEF LabInv, LabJobFits, InsertPlan
  <1>2. simulation \in Simulation /\ simulation.set \in DOMAIN scenarioSets
    BY <1>1 DEF LabInv, AttackLabTypeOK, RowsPinned
  <1>3. /\ proposed.ready \in BOOLEAN /\ proposed.cited \in SUBSET AllNodes
        /\ proposed.cited \subseteq job[r].evidence
    BY DEF ProposedRemediations, CitesOnly
  <1>4. row \in Plan
    BY <1>2, <1>3 DEF Simulation, Plan
  <1>5. plans' = Append(plans, row)
    BY DEF InsertPlan
  <1>6. /\ plans' \in Seq(Plan) /\ RowsGrow(plans, plans')
        /\ \A p \in DOMAIN plans' : p \notin DOMAIN plans => plans'[p] = row
    BY <1>4, <1>5, AppendGrows DEF LabInv, AttackLabTypeOK
  <1>7. /\ financials' = financials /\ snapshots' = snapshots /\ scenarioSets' = scenarioSets
        /\ simulations' = simulations /\ saved' = saved /\ branch' = branch /\ deployed' = deployed
    BY DEF InsertPlan
  <1>8. /\ job' \in [LabRequests -> Job] /\ LabJobFits(r)'
        /\ \A q \in LabRequests : q # r => job'[q] = job[q]
    BY EndedFits DEF InsertPlan
  <1>9. AttackLabTypeOK'
    BY <1>6, <1>7, <1>8, VersionsStay DEF LabInv, AttackLabTypeOK
  <1>10. /\ RowsGrow(snapshots, snapshots') /\ RowsGrow(scenarioSets, scenarioSets')
         /\ RowsGrow(simulations, simulations')
    BY <1>7, SameGrows DEF LabInv, AttackLabTypeOK
  <1>11. row.set \in DOMAIN scenarioSets' /\ row.cited \subseteq scenarioSets'[row.set].cited
    BY <1>1, <1>2, <1>3, <1>7
  <1>12. \A p \in DOMAIN plans' : p \notin DOMAIN plans =>
           /\ plans'[p].set \in DOMAIN scenarioSets'
           /\ plans'[p].cited \subseteq scenarioSets'[plans'[p].set].cited
    <2> HIDE DEF row
    <2>1. QED  BY <1>6, <1>11
  <1>13. QED
    BY ONLY LabInv, <1>6, <1>7, <1>8, <1>9, <1>10, <1>12, VersionsStay, GrowKeeps

\* The second of two that saved the same version is refused; the first one's
\* version is the next, so the versions stay numbered without a gap.
LEMMA CommitProfileKeeps ==
  ASSUME LabInv, NEW r \in LabRequests, CommitProfile(r)
  PROVE  LabInv'
  <1> DEFINE v == job[r].version
             profile == job[r].profile
  <1>1. /\ snapshots' = snapshots /\ scenarioSets' = scenarioSets /\ simulations' = simulations
        /\ plans' = plans /\ branch' = branch /\ deployed' = deployed
    BY DEF CommitProfile
  <1>2. /\ job' \in [LabRequests -> Job] /\ LabJobFits(r)'
        /\ \A q \in LabRequests : q # r => job'[q] = job[q]
    BY EndedFits DEF CommitProfile
  <1>3. Ends(r) /\ JobIs(r, "saving")
    BY DEF CommitProfile
  <1>4. CASE v \in Versions
    <2>1. UNCHANGED <<tables, branch, deployed, saved>>
      BY <1>1, <1>4 DEF CommitProfile, tables
    <2>2. NoJob \in Job /\ JobGoes(r, NoJob)
      BY <1>3 DEF NoJob, Job, Ends
    <2>3. QED  BY ONLY LabInv, <1>2, <2>1, <2>2, r \in LabRequests, ReadingKeeps
  <1>5. CASE v \notin Versions
    <2>1. /\ financials' = [x \in Versions \cup {v} |-> IF x = v THEN profile ELSE financials[x]]
          /\ saved' = saved \cup {<<v, profile>>}
      BY <1>5 DEF CommitProfile
    <2>2. Latest \in Nat /\ Versions = 1 .. Latest
      BY VersionsNumbered
    <2>3. v \in 1 .. Latest + 1 /\ profile \in Profiles
      BY <1>3, JobRead DEF LabInv, LabJobFits
    <2>4. v = Latest + 1
      BY <1>5, <2>2, <2>3
    <2>5. Versions' = Versions \cup {v}
      BY <2>1 DEF Versions
    <2>6. IsFiniteSet(Versions') /\ Latest' = Latest + 1
      BY <1>5, <2>5, FS_AddElement DEF LabInv, Latest
    <2>7. Versions' = 1 .. Latest'
      BY <2>2, <2>4, <2>5, <2>6
    <2>8. \A x \in Versions' : financials'[x] \in Profiles
      BY <2>1, <2>3, <2>5 DEF LabInv, AttackLabTypeOK
    <2>9. saved' \subseteq Nat \X Profiles
      BY <2>1, <2>3 DEF LabInv, AttackLabTypeOK
    <2>10. AttackLabTypeOK'
      BY <1>1, <1>2, <2>7, <2>8, <2>9 DEF LabInv, AttackLabTypeOK
    <2>11. Latest <= Latest' /\ \A x \in Versions : x \in Versions' /\ financials'[x] = financials[x]
      BY <1>5, <2>1, <2>2, <2>5, <2>6
    <2>12. \A x \in saved' : x \notin saved => x[1] \in Versions' /\ financials'[x[1]] = x[2]
      BY <2>1, <2>5
    <2>13. /\ RowsGrow(snapshots, snapshots') /\ RowsGrow(scenarioSets, scenarioSets')
           /\ RowsGrow(simulations, simulations') /\ RowsGrow(plans, plans')
      BY <1>1, SameGrows DEF LabInv, AttackLabTypeOK
    <2>14. IsFiniteSet(Versions)'
      BY <2>6
    <2>15. QED
      BY ONLY LabInv, <1>1, <1>2, <2>10, <2>11, <2>12, <2>13, <2>14, GrowKeeps
  <1>6. QED  BY <1>4, <1>5

\* What the lab stores is numbered, typed and made from rows that stay, and what
\* a request read before it waited is still there when it inserts its row.
THEOREM LabInductive == AttackLabSpec => []LabInv
<1>1. AttackLabInit => LabInv
  <2>1. SUFFICES ASSUME AttackLabInit PROVE LabInv
    OBVIOUS
  <2>2. Versions = {} /\ Latest = 0 /\ IsFiniteSet(Versions)
    <3>1. Versions = {}
      BY <2>1 DEF AttackLabInit, Versions
    <3>2. QED  BY <3>1, FS_EmptySet DEF Latest
  <2>3. (CHOOSE release \in Releases : TRUE) \in Releases
    BY AttackLabAssumption
  <2>4. job \in [LabRequests -> Job] /\ \A r \in LabRequests : job[r].at = "idle"
    BY <2>1 DEF AttackLabInit, NoJob, Job
  <2>5. AttackLabTypeOK
    <3>1. snapshots = << >> /\ scenarioSets = << >> /\ simulations = << >> /\ plans = << >>
      BY <2>1 DEF AttackLabInit
    <3>2. /\ snapshots \in Seq(Snapshot) /\ scenarioSets \in Seq(ScenarioSet)
          /\ simulations \in Seq(Simulation) /\ plans \in Seq(Plan)
      BY <3>1
    <3>3. deployed \subseteq Releases /\ deployed # {}
      <4>1. deployed = {CHOOSE release \in Releases : TRUE}
        BY <2>1 DEF AttackLabInit
      <4>2. QED  BY <2>3, <4>1
    <3>4. branch \in Commits /\ saved \subseteq Nat \X Profiles
      BY <2>1 DEF AttackLabInit
    <3>5. QED  BY <2>2, <2>4, <3>2, <3>3, <3>4 DEF AttackLabTypeOK
  <2>6. RowsPinned
    BY <2>1 DEF AttackLabInit, RowsPinned
  <2>7. \A r \in LabRequests : LabJobFits(r)
    BY <2>4 DEF LabJobFits, JobIs
  <2>8. QED  BY <2>2, <2>5, <2>6, <2>7 DEF LabInv
<1>2. LabInv /\ [AttackLabNext]_attackLabVars => LabInv'
  <2>1. SUFFICES ASSUME LabInv, [AttackLabNext]_attackLabVars PROVE LabInv'
    OBVIOUS
  <2>2. ASSUME NEW c \in Commits, PushCommit(c) PROVE LabInv'
    BY <2>1, <2>2, AroundKeeps DEF PushCommit, LabInv, AttackLabTypeOK
  <2>3. ASSUME NEW releases \in SUBSET Releases, Deploy(releases) PROVE LabInv'
    <3>1. deployed' \subseteq Releases /\ deployed' # {}
      BY <2>3 DEF Deploy
    <3>2. branch' \in Commits
      BY <2>1, <2>3 DEF Deploy, LabInv, AttackLabTypeOK
    <3>3. QED  BY <2>1, <2>3, <3>1, <3>2, AroundKeeps DEF Deploy
  <2>4. ASSUME NEW r \in LabRequests, LabRequest(r) PROVE LabInv'
    <3>1. ASSUME NEW profile \in Profiles, InsertProfile(r, profile) PROVE LabInv'
      BY <2>1, <3>1, InsertProfileKeeps
    <3>2. CASE CommitProfile(r)
      BY <2>1, <3>2, CommitProfileKeeps
    <3>3. CASE ResolveCommit(r) \/ FetchBlobs(r) \/ InsertSnapshot(r)
      BY <2>1, <3>3, ResolveCommitKeeps, FetchBlobsKeeps, InsertSnapshotKeeps
    <3>4. ASSUME NEW source \in 0 .. Len(snapshots), ReadGraph(r, source) PROVE LabInv'
      BY <2>1, <3>4, ReadGraphKeeps
    <3>5. CASE ReadProfile(r)
      BY <2>1, <3>5, ReadProfileKeeps
    <3>6. ASSUME NEW cited \in SUBSET AllNodes, InsertSet(r, cited) PROVE LabInv'
      BY <2>1, <3>6, InsertSetKeeps
    <3>7. ASSUME NEW cited \in SUBSET AllNodes, NEW fails \in BOOLEAN, InsertPlan(r, cited, fails)
          PROVE  LabInv'
      BY <2>1, <3>7, InsertPlanKeeps
    <3>8. ASSUME NEW s \in DOMAIN scenarioSets, NEW scenario \in Scenarios,
                 NEW p \in 0 .. Len(plans), Simulate(r, s, scenario, p)
          PROVE  LabInv'
      BY <2>1, <3>8, SimulateKeeps
    <3>9. ASSUME NEW n \in DOMAIN simulations, BeginRemediation(r, n) PROVE LabInv'
      BY <2>1, <3>9, BeginRemediationKeeps
    <3>10. CASE FailJob(r)
      BY <2>1, <3>10, FailJobKeeps
    <3>11. QED
      BY <2>4, <3>1, <3>2, <3>3, <3>4, <3>5, <3>6, <3>7, <3>8, <3>9, <3>10 DEF LabRequest
  <2>5. CASE UNCHANGED attackLabVars
    BY <2>1, <2>5, AroundKeeps DEF attackLabVars, LabInv, AttackLabTypeOK
  <2>6. QED  BY <2>1, <2>2, <2>3, <2>4, <2>5 DEF AttackLabNext
<1>3. QED  BY <1>1, <1>2, PTL DEF AttackLabSpec

\* An analysis keeps the figures, the graph and the fixes it was made from,
\* whatever is saved, pushed or deployed while requests wait.
THEOREM AnalysesStayPinned == AttackLabSpec => []AnalysesPinned
<1>1. LabInv => AnalysesPinned
  <2>1. SUFFICES ASSUME LabInv PROVE AnalysesPinned
    OBVIOUS
  <2>2. \A s \in DOMAIN scenarioSets :
          /\ scenarioSets[s].profile = Version(scenarioSets[s].version)
          /\ scenarioSets[s].cited \subseteq NodesOf[scenarioSets[s].graph]
          /\ scenarioSets[s].source # 0 =>
               scenarioSets[s].graph = snapshots[scenarioSets[s].source].commit
    BY <2>1 DEF LabInv, RowsPinned, ProfileFits, GraphFits
  <2>3. \A n \in DOMAIN simulations :
          LET set == scenarioSets[simulations[n].set]
              p == simulations[n].plan
          IN  /\ simulations[n].profile = Version(set.version)
              /\ p # 0 => /\ plans[p].set = simulations[n].set
                          /\ plans[p].scenario = simulations[n].scenario
                          /\ plans[p].cited \subseteq NodesOf[set.graph]
    BY <2>1, <2>2 DEF LabInv, RowsPinned
  <2>4. QED  BY <2>1, <2>2, <2>3 DEF AnalysesPinned, LabInv, RowsPinned
<1>2. QED  BY <1>1, LabInductive, PTL

(***************************************************************************)
(* The scenes beside each other                                            *)
(***************************************************************************)
\* A behaviour of MCBackOffice is one of each of its modules, whatever its scene.
LEMMA BackOfficeIsAll ==
  BackOfficeSpec => LimitsSpec /\ AsvsSpec /\ AttackLabSpec /\ WorkflowGraphSpec /\ AttackTreeSpec
  <1>1. BackOfficeInit => LimitsInit /\ AsvsInit /\ AttackLabInit
    BY DEF BackOfficeInit
  <1>2. BackOfficeInit => WorkflowGraphInit
    <2>1. BackOfficeInit => program \in Programs \cup {SomeProgram} /\ catalogs = NotBuilt
      BY DEF BackOfficeInit
    <2>2. QED  BY <2>1, InstanceAssumption DEF WorkflowGraphInit
  <1>3. BackOfficeInit => AttackTreeInit
    <2>1. SUFFICES ASSUME BackOfficeInit PROVE AttackTreeInit
      OBVIOUS
    <2>2. tree \in Proposals
      BY <2>1, InstanceAssumption DEF BackOfficeInit, AnyTree
    <2>3. Scale \in Nat /\ Scale > 1
      BY InstanceAssumption, AttackTreeAssumption
    <2>4. numbers \in Seq(0 .. Scale - 1) \ {<< >>}
      <3>1. 0 \in 0 .. Scale - 1 /\ 1 \in 0 .. Scale - 1
        BY <2>3
      <3>2. CASE numbers \in {<<0>>, <<0, 1, 1>>, <<1, 0, 1, 0, 0>>}
        <4>1. CASE numbers = <<0>>
          BY <3>1, <4>1
        <4>2. CASE numbers = <<0, 1, 1>>
          BY <3>1, <4>2
        <4>3. CASE numbers = <<1, 0, 1, 0, 0>>
          BY <3>1, <4>3
        <4>4. QED  BY <3>2, <4>1, <4>2, <4>3
      <3>3. CASE numbers \in [1 .. 4 -> {0, 1}]
        <4>1. numbers \in [1 .. 4 -> 0 .. Scale - 1]
          BY <3>1, <3>3
        <4>2. numbers \in Seq(0 .. Scale - 1)
          <5>1. Seq(0 .. Scale - 1) = UNION {[1 .. n -> 0 .. Scale - 1] : n \in Nat}
            BY SeqDef
          <5>2. 4 \in Nat
            OBVIOUS
          <5>3. QED  BY <4>1, <5>1, <5>2, Zenon
        <4>3. 1 \in DOMAIN numbers /\ 1 \notin DOMAIN << >>
          BY <3>3
        <4>4. numbers # << >>
          BY <4>3, Zenon
        <4>5. QED  BY <4>2, <4>4, Zenon
      <3>4. \/ numbers \in {<<0>>, <<0, 1, 1>>, <<1, 0, 1, 0, 0>>}
            \/ numbers \in [1 .. 4 -> {0, 1}]
        <4>1. AnyTree \/ numbers = <<0>>
          BY <2>1 DEF BackOfficeInit
        <4>2. QED  BY <4>1, Zenon DEF AnyTree
      <3>5. QED  BY <3>2, <3>3, <3>4, Zenon
    <2>5. chance \in [AttackNodes -> [success : 0 .. Scale, detection : 0 .. Scale]]
      <3>1. 0 \in 0 .. Scale /\ 1 \in 0 .. Scale
        BY <2>3
      <3>2. chance = [id \in AttackNodes |-> [success |-> 1, detection |-> 0]]
        BY <2>1 DEF BackOfficeInit
      <3>3. QED  BY <3>1, <3>2
    <2>6. control \in [AttackNodes -> 0 .. Scale] /\ compared = NotCompared
      <3>1. 0 \in 0 .. Scale
        BY <2>3
      <3>2. QED  BY <2>1, <3>1 DEF BackOfficeInit
    <2>7. QED  BY <2>2, <2>4, <2>5, <2>6 DEF AttackTreeInit, AttackTreeInv
  <1> DEFINE all == <<scene, limitsVars, asvsVars, workflowGraphVars, attackTreeVars, attackLabVars>>
  <1>4. [BackOfficeNext]_all => [LimitsNext]_limitsVars /\ [AsvsNext]_asvsVars
    BY DEF BackOfficeNext, LimitsNext, AsvsNext
  <1>5. [BackOfficeNext]_all =>
          [AttackLabNext]_attackLabVars /\ [BuildCatalogs]_workflowGraphVars /\ [CompareRuns]_attackTreeVars
    BY DEF BackOfficeNext
  <1>6. QED  BY <1>1, <1>2, <1>3, <1>4, <1>5, PTL
             DEF BackOfficeSpec, LimitsSpec, AsvsSpec, AttackLabSpec, WorkflowGraphSpec, AttackTreeSpec

\* In every instance the scenes of MCBackOffice keep what limiters, plans, runs, the
\* lab, stored catalogues and simulations rely on.
THEOREM BackOfficeKeepsTypes == BackOfficeSpec => []BackOfficeTypes
  <1>1. LimitsInv /\ AsvsInv /\ LabInv /\ WorkflowGraphInv /\ AttackTreeInv => BackOfficeTypes
    BY DEF BackOfficeTypes
  <1>2. QED  BY <1>1, BackOfficeIsAll, LimitsInductive, AsvsInductive, LabInductive,
                WorkflowGraphInvariant, AttackTreeInvariant, PTL
=============================================================================
