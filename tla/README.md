# Bantam, specified

TLA+ models of the parts of Bantam where concurrent requests, retries, crashes
and redelivered messages decide whether money and access are right, with TLC
configurations that check them on small instances and TLAPS proofs for
instances of any size.

All state lives in one PostgreSQL database. API replicas, outbox publishers and
workers are stateless processes around it, every request is served by a thread
with a pooled connection, and PostgreSQL runs at READ COMMITTED. So the modules
share one idea: **a step is one thing another process can see** - a committed
read, the grant of a lock, a commit - and everything a transaction writes
becomes visible in the step that commits it.

## Inventory

| Part | State | Operations | Talks to | What is hard | What must hold |
|---|---|---|---|---|---|
| Ledger (`ledger.py`) | `transactions`, `ledger_entries`, `account_balances` | `create_transfer`, `reconcile` | SCA, outbox (same transaction) | retries racing, reads before lock waits, lock order | no overdraft, one posting per key, balances are the sum of entries, every request ends |
| SCA (`sca.py`) | `sca_challenges` | `create`, `validate_and_consume` | ledger | two payments and one challenge, expiry, rollback after consumption | a challenge is spent by exactly the payment it was made for |
| Accounts, KYC, admin routes (`api.py`) | `bank_accounts.status`, `customers.kyc_status` | open, freeze, submit, decide, deposit, reverse | ledger, outbox | routes read without a lock and act later | freezes stop money, each posting reversed at most once, accounts belong to verified customers |
| Outbox (`events.py`) | `outbox_events` | claim, publish, mark, release, recover | every handler that writes a row; the bus | claims that expire under a live publisher, lost answers | nothing is marked and not sent, everything is sent in the end |
| Workers (`workers.py`) | `risk_alerts`, `notifications` | fetch, handle, acknowledge | the bus, outbox | at-least-once delivery, death between two commits | effects happen once, and happen |
| MFA (`mfa.py`) | factor rows, `mfa_transactions` | begin, prepare, complete, remove | login | races between logins, enrolments and removals | a code and a challenge are good once; administrators keep a factor |
| Sessions (`auth.py`, `api.py`) | `session_revocations`, tokens in clients' hands | issue, authenticate, log out, purge | all routes | a request is checked by four reads while others commit; revocations are purged by time | a session that was ended does not come back |
| Registration and auditor approval (`api.py`, `seed.py`) | `user_accounts`, `admin_permissions`, `aspis_auditor_requests` | bootstrap, register, create, decide | login | two deciders, two replicas that bootstrap | one decision, and both tables agree on it |
| Guards (`security.py`) | `auth_rate_limits`, an in-memory table | `check`, body limit | every route | concurrent increments, times read before a wait, capacity, forged proxies' hops | bounded attempts per window, whole bodies |
| ASVS runs and plans (`asvs.py`, `asvs_ai.py`) | `asvs_runs`, `asvs_ai_generations` | generate, approve, execute | a model provider, its own API | quotas over midnight, cooldown, a lock that is lost with its connection, death while EXECUTING | quotas are kept, runs are spaced, a plan runs once |
| Financials, attack lab (`financials.py`, `attack_simulation.py`) | `company_financial_profiles`, `attack_scenario_sets`, `attack_simulations`, `attack_remediation_plans` | update, generate, simulate, remediate | GitHub, a model provider | what a request read has changed when it inserts | an analysis names exactly what it was made from |
| Graphs (`workflow_graph.py`, `repository_graph.py`) | `repository_graph_snapshots` | build, validate, project, fetch | GitHub | cuts, cycles, colliding addresses, ids that the redaction rewrites | what is generated is valid; a projection knows whether it is complete and can be cut |
| Attack trees (`repository_graph.py`, `attack_simulation.py`) | none | check, simulate | the lab | cycles, shared nodes, early decisions, one random stream | only trees are accepted; an attempt decides right |
| Pool and migrations (`database.py`) | connections, `schema_migrations` | open, take, give, apply | everything | requests that hold one connection and want another; replicas of two releases | requests end; each file once, in order |
| Risk review (`api.py`) | `risk_alerts.status` | manual alert, review | workers | the audit row in a statement of its own | one review |
| Transports, configuration, entry points, web, reports, deployment | none of their own | - | - | - | - |

`PROJECT.json` lists the same parts as components, and under "hazards" every
place in the code, by line, where one of the hard things above bites.

## The modules

### Ledger

`create_transfer`, statement by statement, for any number of sessions. The
label `pc[s]` says which statement is next:

| Label | Action | Code |
|---|---|---|
| `find` | `Find` | `find_by_idempotency` on its own connection |
| `key` | `AcquireKey` | `pg_advisory_xact_lock` on user and key |
| `recheck` | `Recheck` | second lookup |
| `lock` | `LockAccount`, `AccountMissing` | `_lock_accounts`: `FOR UPDATE` ordered by id, one row at a time |
| `check` | `Check` | status, ownership, KYC (`seen` holds the rows as locked) |
| `sca` | `ConsumeChallenge` | `validate_and_consume` |
| `post` | `Post` | balance, reversal check, inserts, updates, outbox row, COMMIT |

`Abort` is a rollback at any of them: a lost connection, a crash, a cancelled
statement. Row locks are the domain of `seen`, the advisory lock and the
challenge's lock are read off the labels. Around it: `Submit` (transfers and
demo deposits), `SubmitReversal` (which reads the original outside the
transaction, as the route does), `RequestChallenge`/`IssueChallenge`, `Expire`,
`SubmitKyc`, `DecideKyc`, `RequestAccount`/`OpenAccount`, `SetAccountStatus`.

Abstractions: ids are positions; the only currency is GBP (others are refused
before anything changes); available and current balance move together; audit
rows are left out; a code is right or wrong; the challenge a posting spent is
kept in the row as a history field; two advisory keys whose hashes collide
would only wait longer; the two foreign-key locks that a new challenge takes
are one wait on both accounts.

### Bank

The promise: postings, openings, freezes, KYC decisions and challenges as
atomic steps over tables without sessions. `Ledger!ImplementsBank` states that
the ledger is a bank; the mapping reads the abstract `authority` off the
challenge rows.

### Outbox and Consumers

`Outbox` is `publish_batch`: `StartBatch` (recover expired claims), `Select`
and `Claim` (`SKIP LOCKED`, then `PUBLISHING`), `Send`/`SendFails`,
`MarkPublished`, `Release`, `BatchDone`, and `Crash` anywhere. The one-minute
expiry is a nondeterministic flag of the row. `Accept` is the bus: it keeps the
message, or, having it already, may drop a duplicate, which covers both NATS
with its duplicate window and Pub/Sub without one. `attempt` is a history
variable that tells claims of one row apart.

`Consumers` extends it with the two durable consumers. A message stays
outstanding until acknowledged and may be held by several workers; `Alert` is
one transaction with its own outbox row, `Notify` one commit per recipient,
`Drop` a death, a failure or a lost acknowledgement.

### Mfa

`MfaService` as concurrent requests. `BeginLogin` and `BeginEnrollment` read,
`InsertTransaction` writes; `PrepareEnrollment` is one locked transaction;
`LockTransaction`, `Verify` and the commits (`CommitLogin`, `CommitTotp`,
`CommitPasskey`, `RecordFailure`) are the two completion routines;
`LockFactor`, `Guard`, `Revoke` the two removals. A TOTP secret is named after
the enrolment that drew it, a code is a secret and a time step, and a passkey
response is good or not. Users stay active here; the display flag `mfa_enabled`
is left out.

### Access

Accounts, tokens and the four reads of an authenticated request, of which other
requests run in between: `Parse` compares the expiry, `RejectRevoked` reads the
revocations, `Authenticate` the account, `Authorize` role, age of the MFA proof
and scopes. `call[c].at` says how far a request is, `endedBefore` and
`disabledBefore` what had been committed when it arrived. `LoginRead`,
`MfaProved` and `IssueSession` are a login (the factors are `Mfa`'s subject and
one step here); `PurgeRevocations` and `RevokeAccessToken` a logout;
`BeginMfaEnrollment` and `CompleteEnrollment` a re-enrolment, which ends the
session that began it. `LockApproval` and `Decide` hold the rows of an auditor's
request between them. `OperatorDisables` is an operator's UPDATE, as the code
expects it (`api.py:215`); no route does it.

### Limits

`Arrive`, `CheckAddress` and `CheckAccount` are `enforce_auth_rate_limit`: each
upsert carries the `now()` of its statement's start, and waits for its row.
`ReadClock` and `CheckInMemory` are the limiter in memory, `Maintain` the daily
cleaning, `Declare`, `Receive`, `Disconnect` and `Replay` the body limit.

### AsvsPlans

`BeginGeneration` to `FinishGeneration` are `generate`, with the reservation's
transaction split where it waits for the quota lock; `LockPlan` to
`MarkExecuted` are `approve_and_execute`; `TryRunLock` to `Unlock` are
`execute`. `LoseConnection` takes the session's lock away wherever the run is,
`DieExecuting` and `AbandonGeneration` are dead servers. `RunStatuses` are the
verdicts that the five probes can really produce.

### WorkflowGraph

A program is the events of each function, the routes and the blocks' references;
`BuiltInCatalog`, `PythonCatalog` and `TerraformCatalog` build the nodes, edges
and default flows as the builders do, `BuiltInAccepts` and `RepositoryAccepts`
are the two validators, `Projection` what a model is sent. In its nodes, and only
there, ids are as `redact_sensitive_text` leaves them (`Redacted`): `Rewritten` says
of which nodes it rewrites the id, and what is left of it is what such events of one
function have in common. `Reducible` says whether the loop that takes nodes off the end
finds each of them by its id, `AllowedNodes` what the reader may cite. Otherwise texts
and hashes are left out; a parser's result is where the model begins. The recursions of the code
(`_expand`, `visit`, `_attempt`) are recursive functions over the levels left, and
its loops over lists are folds; `Listings` has the lists they share: sorted,
sliced, without repetitions.

### AttackTree and AttackLab

`AttackTree` has `StructureIsValid` beside the definition of a tree it stands
for, and a year of `simulate_scenario` over an explicit sequence of random
numbers, with one number for each PERT sample. `AttackLab` is what the lab
stores: each request reads on connections of its own (`ReadGraph`,
`ReadProfile`, `ResolveCommit`, `BeginRemediation`), waits, and inserts
(`InsertSet`, `InsertSnapshot`, `InsertPlan`), while `PushCommit`, `Deploy` and
`CommitProfile` change what it read. Node ids in scenarios are those the model was
sent; one that the redaction rewrote (`RedactedIds`) is found in no catalogue later.

### Database

`Script` lists what three kinds of request do with connections; `PoolTimeout` is
the pool's ten seconds. `OpenPool` to `UnlockMigrations` are a server that
starts and migrates, with failures and lost sessions.

### MC modules

Components that share nothing are checked as the scenes of one instance: a
behaviour plays one scene and the rest of the state stays as it began.
`MCIdentity` (`Mfa`, `Access`), `MCServices` (`Consumers` with `Outbox`,
`Database`) and `MCBackOffice` (`Limits`, `AsvsPlans`, `WorkflowGraph`,
`AttackTree`, `AttackLab`) say which scenes there are, and their specifications
(`IdentitySpec`, `ServicesSpec`, `BackOfficeSpec`) are what the runs check and what
the theorems about compositions speak of; `MCLedger`, `MCOutbox`,
`MCMfa`, `MCProjection` and `MCResidual` instantiate one module each.

## Runs

| Run | Question | Result |
|---|---|---|
| `ledger_payments` | whole balance spent under two keys, everything retried, freezes and deaths anywhere; two challenges, one presented under another key, for another amount, by another user or with a wrong code | no overdraft, one posting per key, reconciles, every client is answered with its own posting, and the database constraints never have to refuse; each challenge is spent once and for its own payment; nothing checked is stale at the commit; the inductive invariant `LedgerInv` holds |
| `ledger_lifecycle` | a customer joins, is paid, pays and is frozen while administrators reverse the payments under two keys | only verified customers have accounts, freezes stop money, each posting is reversed at most once and reversals never, history is append-only, the bank is implemented |
| `ledger_liveness` | opposite payments over two accounts | every request ends |
| `outbox` | two publishers, two events, three faults | claims are exclusive, nothing is marked and unsent, copies never exceed claims; once faults stop, every event becomes PUBLISHED and stays so |
| `outbox_same_row` | is one row ever published by two at once? | **yes**, see Findings |
| `services` | duplicates, parallel delivery and deaths, from the commit of a transfer to its effects; a pool of two under three requests; three replicas that migrate | one alert, one notification each, acknowledged means done, and everything is handled; every request ends; every migration is committed once and in order |
| `identity` | two requests over three challenges; two sessions that end while requests with them are checked; two administrators and one auditor | codes and challenges are good once, attempts are bounded, removed factors log nobody in; ended sessions stay ended; one decision, on which both tables agree |
| `back_office` | nine scenes, see `MCBackOffice` | limits, quotas and cooldowns are kept; default flows are valid; a projection that can be cut names only nodes it has and knows whether it is complete, and only redacted ids keep it from being cut; only trees are accepted; analyses name what they were made from |
| `mfa_last_factor` | does an administrator always keep a factor? | **violated**, see Findings |
| `mfa_replace` | is an active app ever replaced without removal? | **yes**, see Findings |
| `projection_reduced` | can a projection always be cut to the size limit? | **no**, see Findings |
| `residual` | can a control raise the simulated loss of the same seed? | **yes**, see Findings |

Every property of a passing run has a counterpart that shows it is not empty: an
operator named `Mut...` beside the definition it would replace, with one
plausible defect (a missing lock, a dropped guard), under which TLC finds the
property violated. Nothing in the specifications uses these operators;
`PROJECT.json` pairs them with properties.

### Bounds

- Two sessions in the ledger and MFA: every lock is between a holder and a
  waiter, and the races in the hazards are between two requests. The theorems
  remove this bound for what they cover.
- `Commands`: each run's traffic is a named set in `MCLedger`, chosen so that
  its requests conflict (same balance, same key, same challenge, opposite order).
- `MaxTransactions` bounds the ledger's table (3 or 4 rows: a deposit, the
  contested postings, a reversal); `MaxEvents` (2 to 5) stops operators once so many
  outbox rows exist, so that freezes and unfreezes do not go on for ever.
- `MaxFaults` (1 to 3) bounds crashes, bus errors and outlived claims: three are
  enough for a claim to be lost, reclaimed, and disturbed by its former owner.
- `BatchSize` 1 or 2 against two events (50 in the code) reaches both the full
  batch and the empty queue. Two publishers; the theorems cover any number.
- `MaxAttempts` 1 or 2 (5 in the code) reaches the last attempt while another
  answer is in flight; `LastStep` is the last TOTP time step: with 1 there are
  three codes per secret in the window, with 2 the window moves.
- `Transactions` has two or three challenge ids: an enrolment and two logins.

- `Access`: two requests and two tokens (a session and the one that ends it),
  a token that lives one second, and a clock of two: a token can run out between
  any two reads, and be purged.
- `Limits`: two requests for one account against a limit of two per address and
  one per account, a window of three ticks and waits of one, over two windows: the
  boundary is crossed with a statement that waited. The client forges one hop
  before the one its proxy appends; a header of too many hops is left to the
  theorem. The table in memory holds one key of two, two attempts
  each. The property allows for the wait: it counts over a window less `MaxWait`.
- `AsvsPlans`: three plans against limits of one per session and account and two
  a day, over midnight; two executions of one plan and two recorded runs.
- `WorkflowGraph`: every program of three functions with up to two events each,
  with one, two or colliding routes, and every dependency graph of four blocks
  two of which share an address, with the depth limits lowered to 1 and the
  length limits to 4, 9 and 12 (and 5 flows), so that each of them cuts something
  and some catalogues are projected whole. One system flow of a repository is kept
  (`MaxEntryFlows`), where there may be two; the events of function 2 have rewritten ids
  (`Rewritten`), so that projections can be cut, cannot, or hold such ids whole; at
  least two nodes are left (`MinModelNodes`). The constants keep their names: 2, 8, 160
  and so on in the code, and `MCProjection` has those values but for 20 nodes.
- `AttackTree`: every graph of two or three nodes and every way to hang four more
  under a fork, depth 3 (6 in the code), which rejects the deep ones.
- `AttackLab`: one row or two of each table, two commits, two releases, and two
  requests in flight: whatever a request read can change before it inserts. One of the
  three node ids is redacted (`RedactedIds`).
- `Database`: three requests and two connections, the smallest pool that two
  requests can fill and starve each other in; three replicas, two failures.

Symmetry is used for sessions, challenge ids, passkeys and requests only, and
never in a run with a liveness property. Deadlock is checked except in
`identity`, `back_office`, `residual`, `projection_reduced` and the MFA runs: their behaviours stop
when ids, rows or the clock are used up, or their one step is made.

### Fairness

`Ledger!Fairness`: PostgreSQL serves a lock's waiters in order, hence strong
fairness of the three waiting steps taken together; the others are statements a
running session gets to. Nothing is assumed of clients, operators or failures.
`OutboxFairness`: a live publisher keeps polling (`run` catches and sleeps) and
the clock runs, so an abandoned claim expires. `Consumers!Fairness` adds that
the bus hands out unacknowledged messages again, which JetStream and Pub/Sub
guarantee, and that workers that ended are restarted
(`restart: unless-stopped` in `deploy/digitalocean/compose.yml`).
`Database!PoolFairness`: a request in progress goes on, and whoever waits for a
connection is served or times out; it does not say that a request is ever
served. `MCServices` assumes the workers' fairness on their own scene only: an idle
publisher polls, and its polling could not go on beside a scene of the pool, which
would leave that scene without a fair behaviour and `RequestsEnd` without meaning.

## Proofs

The theorems hold for every value of the constants that satisfies the named
assumptions: any number of sessions, publishers, workers, replicas, requests and
rows, any programs, trees and random numbers, any limits and windows, and any
traffic the routes can send. Every safety invariant and action property that a
passing run checks is proved; only liveness is left to TLC. `PROJECT.json` pairs
each theorem with its property.

| Module | About | Inductive invariant | Results |
|---|---|---|---|
| `LedgerProofs` | `Ledger` | `IInv` | `TypeCorrect`, `NeverOverdrawn`, `PostsOncePerKey`, `NothingStale`, `FrozenMoneyStays` |
| `LedgerHistoryProofs` | `Ledger`, `Bank` | `LedgerInv` | `UndoneOnce`, `AnswersAreOwn`, `OwnersVerified`, `SpentOnce`, `ConstraintsNeverBite`, `HistoryStays`, `BooksBalance`, `BalancesReconcile`, and `Implements`: the ledger is a bank |
| `ServicesProofs` | `Outbox`, `Consumers`, `Database`, `MCServices` | `OutboxInv`, `PipelineInv`, `MigrationInv`, `PoolInv` | `NothingForgotten`, `OnePublisherPerClaim`, `CopiesAreClaims`, `PipelineEffectsOnce`, `PipelineCopiesAreClaims`, `MigrationsApplyOnce`, `PoolInductive`, `ServicesKeepTypes` |
| `IdentityProofs` | `Mfa`, `Access`, `MCIdentity` | `MfaInv`, `AccessInv` | `CodesOnce`, `ChallengesOnce`, `LoginsWithActiveFactor`, `EndedSessionsStayOut`, `AuditorsDecidedOnce`, `IdentityKeepsTypes` |
| `LimitsProofs` | `Limits` | `LimitsInv` | `NeverTwiceTheLimit`, `WindowsSlide`, `BodiesAreWhole` |
| `GraphProofs` | `WorkflowGraph`, `AttackTree` | - (what is built, simulated) | `FlowsAccepted`, `ProjectionsHonest`, `AttackTreesAreSound` |
| `BackOfficeProofs` | `AsvsPlans`, `AttackLab`, `MCBackOffice` | `AsvsInv`, `LabInv` | `QuotasKept`, `LiveRunsSpaced`, `ApprovedPlansRunOnce`, `AnalysesStayPinned`, `BackOfficeKeepsTypes` |
| `Totals` | sums over finite sets | - | lemmas for balances, connections and counts of requests |

TLC checks every inductive invariant too: `LedgerInv` in `ledger_payments`,
`OutboxInv` in `outbox`, the others in `services`, `identity` and `back_office`,
where `ServicesTypes`, `IdentityTypes` and `BackOfficeTypes` are their
conjunctions.

### Why the invariants are what they are

**The ledger.** `NoOverdraft` is not inductive: `Post` subtracts from the
balance after comparing with the balance *read*. `IInv` says why that is right.
The rows a session has locked are as it read them (`LockedRowsFresh`); locks are
held exactly between their labels and by one session each (`LocksFollowLabels`,
`LocksExclusive`); nobody posts under a key that is past its second lookup
(`KeyUnused`); what was checked stays true (`ChecksHold`, `ChallengeHeld`),
which needs that KYC is never withdrawn from a verified customer and that
requests only come from the routes (`RequestsFromRoutes`, `OpeningsValid`,
`ChallengesOwned`, `RowsNormal`). One lemma per action shows that it keeps
`IInv`; `FinishKeeps`, `GotoKeeps` and `BeginKeeps` carry the part that all
actions share.

**What its tables say about the past.** `HistoryInv` adds to `IInv` which row
undid which (`ReversesEarlier`), which challenge a row spent and which rows a
spent challenge names (`ChallengesNamed`), and whose posting answered whom. Only
a commit writes rows (`RowsOnlyByCommit`), and a commit that was let through
satisfies the unique indexes and the balance trigger because of `IInv`: so
`DatabaseNeverRefuses` follows from the invariant, not the other way round.
`Reconciles` is a sum over all accounts and entries. `BooksBalance` says what a
step does to them - one amount leaves one account and reaches another, in
balances and entries alike - and the lemmas of `Totals` carry that through the
sums; the set of accounts is finite.

**The refinement.** Seen through the mapping of `ImplementsBank`, `Post` is the bank's
`Pay`, `Deposit` or `Reverse`, `IssueChallenge` its `Authorise`, `OpenAccount`
its `Open`, `SetAccountStatus` its `Freeze`, the two KYC steps its `Review`, and
every other step leaves the mapped state alone. What the bank demands of a posting - money, status,
verified owner, an unspent challenge for this payment, an unused key - is what
`IInv` says a session at `post` still knows.

**The outbox and the workers.** Before a publisher marks a row the bus has a copy,
and a claim in progress carries an attempt no later than the row's, so two
claims on one row differ in their attempt. `SendsCounted` makes the copies
inductive: copies and publishers about to send together never exceed the row's
attempts. A worker that acknowledges has written everything, one
that still has recipients on its list has written to all others
(`WorkInOrder`); the workers' own outbox rows are why the publishers' promise is
proved again behind them.

**MFA.** `LocksHeld`: a factor or challenge row has one holder, and only between
the labels that lock it. `AnswersFit`: what a request read of a locked row is
still there. `Counted`: a challenge is completed once exactly when it is consumed. `SecretsKnown`:
no accepted code of a secret is newer than the last step in its row; since a
code's step is compared with that under the lock, it is used once.

**Access.** No lock protects the four reads of a request, so the invariant says
which of them may be stale: `Relies` keeps, for each place a request can be at,
what was committed before it arrived and is therefore still so. `RevocationsFit`
is why purging by time is right: an ended token is revoked until it ran out.

**Limits.** Both limiters compare with a time taken before the wait for the row
or the lock, so a window may be stretched by `MaxWait`; the properties count over
`Reach`, which is a window less that wait. `RowKeeps` is what a row's count says
about the requests it admitted: those since one `Reach` ago are fewer than the
limit and the count together, and those after the first instants of the row's
window fewer than the count. When a window ends, all that is recent came after
its first instants, hence fewer than the limit: that is why it is twice the
limit *less one*. It survives `Maintain` because a row is kept longer than a
window. `TimesKeep` says that what was let in lately is accounted for by as many
of the last remembered attempts, none of which is older than the wait allows -
although threads append their times out of order - so `popleft` and `_prune` drop
nothing that still counts. `ClientsAreFound` is the lemma about `client_ip`: no
header leads to a third row.

**Plans, runs, lab.** `ReservationsFit` is the quota lock: one request at a time is past the count, so
the quota it found free is still free when it inserts. `RunsFit` admits that a run may have lost its
lock with its connection, and keeps what cannot be lost, the rows. `PlansFit` is
the row lock of a plan. `LabJobFits` says that what a request read before it
waited stays in the tables, because versions and snapshots are only added.

**Graphs.** A behaviour builds the catalogues once, and a simulation is one step: the
invariants `WorkflowGraphInv` and `AttackTreeInv` say only that the stored catalogues
were built of the program and that inputs stay, which is plain. The work is in what
the builders compute. A catalogue is *sound* if its edges
and flows stay among its nodes and every flow starts at an entry of its roles;
both Python builders and Terraform's make sound catalogues, and `_merge_catalogs`
of sound ones is sound. Cutting at `MaxSequence` and dropping repetitions keep the
first node and never make a step that no edge has (`FlowsAccepted`).
The second part says what an expansion lists although a function is
never opened below itself: no more than the calls reach, as each call on the way
is one of these, and no less, since no function is opened twice on a
*shortest* way to any function reached. `ProjectionsHonest` needs that a
projection lists each node once: then a cut always loses one, so a list that was
cut is never all of the catalogue.

The redaction moves an id out of the catalogue or leaves it alone
(`NodesUnredacted`, `RedactedIs`), so `selected.remove` fails for the rewritten ones
and for no others (`ReducibleIs`), and a projection that was cut lost exactly the
nodes after the cut.

**Attack trees.** `StructureIsValid` counts parents, visits with a depth limit and
compares what it visited; `IsTree` speaks of levels. The levels of nodes with one
parent each have no node in common, and the number of edges leaves none over;
a visit that succeeds has visited exactly the levels, and in a tree every visit
succeeds. For an attempt the claim on each node is that what it tried decides:
it wins with a path whose leaves reach the node, or loses and no choice of the
leaves it had not tried, without those that failed, could reach it.
`SiblingsApart` is why the children's claims add up:
no leaf is below two of them. An accepted tree has at most `MaxTreeDepth` edges
between the root and a leaf, so no attempt is cut off by its own depth limit.

**Folds.** The community modules define a fold as a CHOOSE of some recursive
function. The first lemmas of `GraphProofs` show that the function exists and
what one step of it gives, by extending it from a smaller set (`Totals` has the
induction); the operators of `Listings` and the builders are then followed
element by element.

**Compositions.** A behaviour of `MCServices`, `MCIdentity` or `MCBackOffice` is one
of each of its modules: the scenes share no state, and a step of one is a stutter
of the others (`ServicesAreBoth`, `IdentityIsBoth`, `BackOfficeIsAll`). So the modules'
theorems hold in the compositions the runs check; `ServicesKeepTypes`,
`IdentityKeepsTypes` and `BackOfficeKeepsTypes` state it for all their inductive
invariants together.

**Pool and migrations.** `HoldsAsScripted`: what a request holds is what its
script says at its position, through timeouts in the middle of it, and all that
is held adds up to no more than the pool has (a sum again). `Script` lists the
steps as explicit tuples for the prover's sake. `MigrationInv`: one holder of
the advisory lock, and the file it applies is the next one of the schema.

### Assumptions

Each module names what it assumes of its constants, TLC evaluates it in the
runs, and it is what the code or its deployment fixes: numbers are naturals,
limits positive; the "nothing" values are not records of the tables
(`NullAssumption`, `NothingAssumption`, `FactorAssumption`, `NoPlanAssumption`);
publishers, accounts, requests of the pool and keys in memory are finitely many;
there is a release (`Releases # {}`). `LimitsAssumption` says more: a wait is
shorter than a window, a row is kept at least a window (`config.py` allows an
hour, `security.py` keeps a day), the account's limit is no more than the
address's, the client is not one of the trusted proxies, and each header ends
with the hop that the trusted proxy appended. `WorkflowGraphAssumption`: functions
and blocks are finitely many and numbered, no route is open to SYSTEM, and a
sequence may have one node at least; any set of nodes may have ids that are rewritten. `AttackTreeAssumption`: ids are finitely many
numbers. `InstanceAssumption` of `MCBackOffice` says that the programs and trees
its scenes begin with are among those that the modules speak of.

### Not proved

- Liveness (`EveryRequestEnds`, `EveryEventPublished`, `EveryTransferHandled`,
  `RequestsEnd`): fairness and ENABLED are outside the prover's reach. TLC checks
  them.
- Induction over data is used where it can be stated on sets (`Totals`): the
  library's induction rules take a predicate as a parameter, which the installed
  provers cannot instantiate, so `LeastElement` and `SubsetsByInduction` are
  stated with a set in its place.
- The properties of `mfa_last_factor`, `mfa_replace`, `outbox_same_row`,
  `projection_reduced` and `residual` are false.

## Findings

- **Two publishers, one row** (`outbox_same_row`). The comment at
  `bantam/events.py:177` says publishers cooperate "without publishing the same
  row". A publisher that is merely slow loses its claim after a minute and a
  second one publishes the row while the first still does. Harmless so far: the
  consumers are idempotent (`EffectsOnce`), and a late `_release` that puts a
  PUBLISHED row back is repaired (`EveryEventPublished`).
- **The last factor** (`mfa_last_factor`). "Administrators must keep at least
  one MFA factor." (`bantam/mfa.py:917`): two concurrent removals each lock only
  their own row and count the other's; both commit.
- **The replaced app** (`mfa_replace`). "Remove the existing authenticator app
  before replacing it." (`bantam/mfa.py:317`) is checked when an enrolment is
  prepared and not when it is completed; the upsert then overwrites whatever
  is there. One request at a time is enough.
- **The difference of two runs** (`residual`). "Both runs use the same seed,
  iteration count, and financial profile, so the difference reflects the
  modelled control effects alone." (`bantam/attack_simulation.py:1303`). Both
  runs draw from one stream each, and a run draws a number for every step it
  tries: a control that makes a step fail shifts every later draw, and the
  residual loss may exceed the baseline's. With many iterations the means come
  close to what the controls do; the difference still holds sampling noise. A
  stream for each year, or for each leaf, would make the sentence true.

- **A projection that cannot be cut** (`projection_reduced`). Where the text is over
  the limit, nodes are taken off the end and looked up by the redacted id
  (`bantam/repository_graph.py:1677`): `set.remove` raises `KeyError` for one that was
  rewritten, where the README promises "a bounded, redacted slice of the deterministic
  catalogue" and the code an error of its own once only 20 nodes are left. An id like
  `check:app.token:<sha>:1` is such a one: it becomes `check:app.token:[REDACTED]`, as
  do all checks of that function. Redacting ids nowhere, or when the projection is
  complete, would settle it.

What the models show beside the findings, and a reader may want to know: a plan
whose run was committed but whose unlock failed is READY again and may run
twice (`PlansRunOnce` counts those losses); a logout writes its audit row before
it revokes the token, so a LOGOUT_SUCCEEDED may stand for a session that is
still alive; a client whose header names too many hops is counted with its proxy,
in a row of its own (`AtMostTwiceTheLimit` allows for both rows). And a projection
whose node ids were redacted still names the old ids in its flows and edges, which
`ProjectionHonest` allows for: a model told to "Cite only supplied node_ids and
flow_ids" (`bantam/repository_graph.py:1707`) that cites one of those has its whole
answer refused, and one that cites the redacted id is accepted, although
`_graph_evidence` finds no node for it later. The shipped catalogue has two such nodes
(`bantam.pubsub.MetadataTokenProvider.token`), beyond what is sent of it.

## Not modelled

- The review of a risk alert and the manual alert (`api.py:2325-2430`): one
  statement each, beside an audit row that no model keeps: the review commits on its
  own and its audit row may fail after it (`api.py:2411`).
- `mfa_enabled` (`mfa.py:925`), which decides nothing.
- The order of the two foreign-key locks of a new challenge (`sca.py:95`).
- Parsing of Python and HCL, prompts, validation of generated plans and their
  rendering as tests, hashes and documentation: text.
- The gamma, beta, PERT and Poisson samples, percentiles and histograms:
  floating point.
- Paths that end as a modelled one does or that no state reaches: the unique violation
  that `create_transfer` turns into a conflict (`ledger.py:280`; never raised, by
  `DatabaseNeverRefuses`), the check that a customer is ACTIVE (`api.py:1149`; no route
  changes it), granting an existing administrator the same scopes again
  (`seed.py:99`), and hops that are no addresses (`security.py:75`; the proxy's row).
- What happens to a plan whose server died while it was EXECUTING
  (`asvs_ai.py:1573`): it stays so, and nothing in the code says otherwise.
- Transports, audit rows, configuration, entry points, web client, reports,
  scripts and deployment: no shared state, or I/O.

## Plan

1. Done: every module of the list above, and the proofs of every safety property
   a passing run checks.
2. The ledger's foreign-key locks split into their two steps, with PostgreSQL's
   deadlock detector as an action, and liveness under it.
3. `RowKeeps` for a limit that is not assumed below the address's, and the
   property of `Limits` over a whole window for checks that do not wait.
