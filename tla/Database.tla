------------------------------ MODULE Database ------------------------------
(***************************************************************************)
(* The connection pool and the migrations of bantam/database.py.           *)
(*                                                                         *)
(* The pool has a limit and a waiting time. Some requests take a second    *)
(* connection while they keep the first (begin_mfa_enrollment asks the     *)
(* rate limiter; a live ASVS run calls the API of its own server), so a    *)
(* full pool may consist of requests that wait for each other.             *)
(*                                                                         *)
(* Every server that starts may apply the migrations, one transaction per  *)
(* file, under a session-level advisory lock.                              *)
(***************************************************************************)
EXTENDS Integers, Sequences, FiniteSets, FiniteSetsExt

CONSTANTS
  PoolRequests,   \* requests a server handles at the same time
  PoolSize,       \* max_size
  Servers,        \* servers that start
  Ships,          \* the number of migration files in the image of each
  MaxFailures,    \* bound: failures and crashes
  NoRequest       \* no probe is under way

ASSUME DatabaseAssumption ==
  /\ PoolSize \in Nat \ {0}
  /\ Ships \in [Servers -> Nat \ {0}]
  /\ MaxFailures \in Nat
  /\ IsFiniteSet(PoolRequests) /\ NoRequest \notin PoolRequests

VARIABLES
  serving,     \* what each request is at
  starting,    \* what each server is at, between Database.open and its first request
  schema,      \* history: the files whose statements were committed, in order
  recorded,    \* schema_migrations
  refused,     \* history: servers that failed on the primary key of schema_migrations
  failures     \* how often a statement failed or a server died

poolVars == <<serving>>
migrationVars == <<starting, schema, recorded, refused, failures>>
databaseAllVars == <<serving, starting, schema, recorded, refused, failures>>

(***************************************************************************)
(* The pool                                                                *)
(***************************************************************************)
\* What a request does with connections, from its first check to its answer.
\* An authenticated request looks for a revocation of its token, then for its
\* account, and so takes two connections for a moment before it reads, enrols or
\* runs. The probes of a run follow one another; one stands for them.
Script ==
  [read      |-> <<"take", "give", "take", "give", "take", "give">>,
   enrolment |-> <<"take", "give", "take", "give",
                   "take", "take", "give", "take", "give", "give">>,
   run       |-> <<"take", "give", "take", "give", "take", "give",
                   "take", "probe", "give">>]
Kinds == DOMAIN Script

Serving == [kind: Kinds, step: 0 .. 10, held: 0 .. 2, probe: PoolRequests \cup {NoRequest}]
NotServing == [kind |-> "read", step |-> 0, held |-> 0, probe |-> NoRequest]

Busy(r) == serving[r].step > 0
Doing(r, what) == Busy(r) /\ Script[serving[r].kind][serving[r].step] = what
FreeConnections == PoolSize - MapThenSumSet(LAMBDA r : serving[r].held, PoolRequests)

DatabaseInit ==
  /\ serving = [r \in PoolRequests |-> NotServing]
  /\ starting = [s \in Servers |-> [at |-> "down", file |-> 0]]
  /\ schema = << >>
  /\ recorded = {}
  /\ refused = {}
  /\ failures = 0

\* The request goes on to its next step, holding that many connections.
Advance(r, held) ==
  LET at == serving[r]
  IN  serving' = [serving EXCEPT ![r] =
        IF at.step = Len(Script[at.kind]) THEN NotServing
        ELSE [kind |-> at.kind, step |-> at.step + 1, held |-> held, probe |-> NoRequest]]

Serve(r, kind) ==
  /\ ~Busy(r)
  /\ \A q \in PoolRequests : serving[q].probe # r
  /\ serving' = [serving EXCEPT ![r] = [NotServing EXCEPT !.kind = kind, !.step = 1]]
  /\ UNCHANGED migrationVars

TakeConnection(r) ==
  /\ Doing(r, "take")
  /\ FreeConnections > 0
  /\ Advance(r, serving[r].held + 1)
  /\ UNCHANGED migrationVars

GiveConnection(r) ==
  /\ Doing(r, "give")
  /\ Advance(r, serving[r].held - 1)
  /\ UNCHANGED migrationVars

\* Mutant: a request waits for a connection for ever.
MutPoolTimeout(r) ==
  /\ Doing(r, "take")
  /\ FreeConnections = 0
  /\ UNCHANGED databaseAllVars

\* PoolTimeout after ten seconds: the exception closes every "with" on its way.
PoolTimeout(r) ==
  /\ Doing(r, "take")
  /\ FreeConnections = 0
  /\ serving' = [serving EXCEPT ![r] = NotServing]
  /\ UNCHANGED migrationVars

\* A probe of a live run is a request to the same server.
SendProbe(r, q) ==
  /\ Doing(r, "probe")
  /\ serving[r].probe = NoRequest
  /\ ~Busy(q)
  /\ serving' = [serving EXCEPT ![r].probe = q, ![q] = [NotServing EXCEPT !.step = 1]]
  /\ UNCHANGED migrationVars

\* It was answered, or the four seconds of LoopbackHttpTransport are over.
EndProbe(r) ==
  /\ Doing(r, "probe")
  /\ Advance(r, serving[r].held)
  /\ UNCHANGED migrationVars

PoolStep(r) ==
  \/ TakeConnection(r) \/ GiveConnection(r) \/ PoolTimeout(r) \/ EndProbe(r)
  \/ \E q \in PoolRequests : SendProbe(r, q)

PoolNext == \E r \in PoolRequests : PoolStep(r) \/ \E kind \in Kinds : Serve(r, kind)

(***************************************************************************)
(* apply_migrations                                                        *)
(***************************************************************************)
IsAt(s, place) == starting[s].at = place
StartGoes(s, place) == starting' = [starting EXCEPT ![s].at = place]
NextFile(s) == starting' = [starting EXCEPT ![s] = [at |-> "checking", file |-> @.file + 1]]

HasMigrationLock(s) == starting[s].at \in {"checking", "applying", "done", "raised"}
\* Mutant: no advisory lock.
MutMigrationLockFree == Servers # {}

MigrationLockFree == \A s \in Servers : ~HasMigrationLock(s)

\* Database.open(migrate=True): the pool has its first connection.
OpenPool(s) ==
  /\ IsAt(s, "down")
  /\ StartGoes(s, "waiting")
  /\ UNCHANGED <<poolVars, schema, recorded, refused, failures>>

\* pg_advisory_lock waits; CREATE TABLE IF NOT EXISTS schema_migrations follows.
LockMigrations(s) ==
  /\ IsAt(s, "waiting")
  /\ MigrationLockFree
  /\ NextFile(s)
  /\ UNCHANGED <<poolVars, schema, recorded, refused, failures>>

\* The files are taken in the order of their names.
CheckFile(s) ==
  /\ IsAt(s, "checking")
  /\ IF starting[s].file > Ships[s] THEN StartGoes(s, "done")
     ELSE IF starting[s].file \in recorded THEN NextFile(s)
     ELSE StartGoes(s, "applying")
  /\ UNCHANGED <<poolVars, schema, recorded, refused, failures>>

\* The statements of the file and its row, in one transaction, which the primary
\* key refuses when the row is there.
CommitFile(s) ==
  LET file == starting[s].file
  IN  /\ IsAt(s, "applying")
      /\ IF file \in recorded
           THEN /\ refused' = refused \cup {s}
                /\ StartGoes(s, "raised")
                /\ UNCHANGED <<schema, recorded>>
           ELSE /\ schema' = Append(schema, file)
                /\ recorded' = recorded \cup {file}
                /\ NextFile(s)
                /\ UNCHANGED refused
      /\ UNCHANGED <<poolVars, failures>>

MigrationFails == failures < MaxFailures /\ failures' = failures + 1

FailFile(s) ==
  /\ IsAt(s, "applying")
  /\ MigrationFails
  /\ StartGoes(s, "raised")
  /\ UNCHANGED <<poolVars, schema, recorded, refused>>

\* finally: pg_advisory_unlock. Only a server that migrated starts to serve.
UnlockMigrations(s) ==
  /\ starting[s].at \in {"done", "raised"}
  /\ starting' = [starting EXCEPT ![s] =
       [at |-> IF IsAt(s, "done") THEN "up" ELSE "down", file |-> 0]]
  /\ UNCHANGED <<poolVars, schema, recorded, refused, failures>>

\* A server that served is replaced.
CloseDatabase(s) ==
  /\ IsAt(s, "up")
  /\ StartGoes(s, "down")
  /\ UNCHANGED <<poolVars, schema, recorded, refused, failures>>

\* The server dies, or loses its session and with it transaction and lock.
LoseSession(s) ==
  /\ ~IsAt(s, "down")
  /\ MigrationFails
  /\ starting' = [starting EXCEPT ![s] = [at |-> "down", file |-> 0]]
  /\ UNCHANGED <<poolVars, schema, recorded, refused>>

Migrate(s) == LockMigrations(s) \/ CheckFile(s) \/ CommitFile(s) \/ UnlockMigrations(s)

MigrationNext ==
  \E s \in Servers : OpenPool(s) \/ Migrate(s) \/ CloseDatabase(s) \/ FailFile(s) \/ LoseSession(s)

\* The pool wakes whoever waits for a connection, and every wait has an end.
PoolFairness == \A r \in PoolRequests : WF_databaseAllVars(PoolStep(r))

DatabaseNext == PoolNext \/ MigrationNext

DatabaseSpec == DatabaseInit /\ [][DatabaseNext]_databaseAllVars

(***************************************************************************)
(* Properties                                                              *)
(***************************************************************************)
MigrationTypeOK ==
  /\ starting \in [Servers -> [at: {"down", "waiting", "checking", "applying", "done", "raised", "up"},
                               file: Nat]]
  /\ schema \in Seq(Nat) /\ recorded \subseteq Nat /\ refused \subseteq Servers
  /\ failures \in 0 .. MaxFailures

DatabaseTypeOK ==
  /\ serving \in [PoolRequests -> Serving]
  /\ FreeConnections \in 0 .. PoolSize
  /\ MigrationTypeOK

\* What each step of a script finds its request holding. A request returns all
\* it took, and the pool has handed out no more than it has.
Holdings ==
  [read      |-> <<0, 1, 0, 1, 0, 1>>,
   enrolment |-> <<0, 1, 0, 1, 0, 1, 2, 1, 2, 1>>,
   run       |-> <<0, 1, 0, 1, 0, 1, 0, 1, 1>>]

HoldsAsScripted(r) ==
  IF Busy(r)
    THEN /\ serving[r].step <= Len(Script[serving[r].kind])
         /\ serving[r].held = Holdings[serving[r].kind][serving[r].step]
    ELSE serving[r].held = 0

\* Inductive: it holds at first and every step keeps it.
PoolInv == DatabaseTypeOK /\ \A r \in PoolRequests : HoldsAsScripted(r)

\* Every request ends, although requests hold connections while they wait for
\* more and a live run holds one while the same server answers its probes.
RequestsEnd == \A r \in PoolRequests : Busy(r) ~> ~Busy(r)

\* Whichever replicas start together, ship different releases, fail or die:
\* every file is committed once, in the order of the names, and is recorded
\* exactly when its statements were; the primary key never has to refuse
\* anyone; and a server that serves has the schema of its own release.
MigratedOnce ==
  /\ \A i \in DOMAIN schema : schema[i] = i
  /\ recorded = {schema[i] : i \in DOMAIN schema}
  /\ refused = {}
  /\ \A s \in Servers : IsAt(s, "up") => 1 .. Ships[s] \subseteq recorded

\* Inductive: one server has the lock; it has passed only recorded files, so the
\* file it applies is the next one of the schema, and it is done when all of its
\* release are there.
MigrationInv ==
  /\ MigrationTypeOK
  /\ MigratedOnce
  /\ \A s, o \in Servers : HasMigrationLock(s) /\ HasMigrationLock(o) => s = o
  /\ \A s \in Servers :
       /\ IF HasMigrationLock(s) THEN starting[s].file > 0 ELSE starting[s].file = 0
       /\ IsAt(s, "checking") => 1 .. (starting[s].file - 1) \subseteq recorded
       /\ IsAt(s, "applying") => starting[s].file = Len(schema) + 1
       /\ IsAt(s, "done") => 1 .. Ships[s] \subseteq recorded
=============================================================================
