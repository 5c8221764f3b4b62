------------------------------- MODULE Limits -------------------------------
(***************************************************************************)
(* The guards in front of the routes (bantam/security.py and               *)
(* enforce_auth_rate_limit of bantam/api.py): the limiter that counts in   *)
(* PostgreSQL, the limiter that counts in memory, and the body limit.      *)
(*                                                                         *)
(* Both limiters compare with a time that was taken before they held the   *)
(* row or the lock: now() is the start of the statement, which may wait    *)
(* for the row, and time.monotonic() is read before "with self._lock".     *)
(* MaxWait bounds that wait; nothing else orders the requests.             *)
(***************************************************************************)
EXTENDS Integers, Sequences, FiniteSets, FiniteSetsExt

CONSTANTS
  Hosts,          \* addresses
  Trusted,        \* settings.trusted_proxy_cidrs
  Chains,         \* X-Forwarded-For headers of a client, right after its proxy
  Client,         \* the host the client really has, that its proxy appends
  Proxy,          \* the peer of the connection
  MaxHops,        \* MAX_FORWARDED_HOPS
  Identifiers,    \* e-mail addresses or challenge ids, folded
  Requests,       \* requests being checked at the same time
  IpLimit, AccountLimit,
  Window,         \* AUTH_RATE_LIMIT_WINDOW
  Retention,      \* the 24 hours a row is kept
  MaxWait,        \* bound: a check waits no longer for its row or lock
  LastTick,       \* bound: the clock stops here
  MemoryKeys,     \* keys of the limiter in memory
  MaxKeys, KeyLimit,   \* its max_keys and limit
  MaxBytes,       \* bound of a request body
  MaxChunk        \* bound: the longest chunk a server hands over

ASSUME LimitsAssumption ==
  /\ {Window, Retention, MaxWait, LastTick, MaxBytes, MaxChunk, MaxHops} \subseteq Nat
  /\ {IpLimit, AccountLimit, MaxKeys, KeyLimit} \subseteq Nat \ {0}
  /\ MaxWait < Window
  /\ Window <= Retention      \* config: a window lasts an hour at most
  /\ AccountLimit <= IpLimit
  /\ Hosts \cap Identifiers = {}    \* a key says whether it is an address or an account
  /\ Client \in Hosts \ Trusted /\ Proxy \in Hosts \cap Trusted
  /\ \A chain \in Chains : chain \in Seq(Hosts) /\ chain # << >> /\ chain[Len(chain)] = Client
  /\ IsFiniteSet(MemoryKeys)

VARIABLES
  counters,     \* auth_rate_limits: rows by key
  checking,     \* what each request is waiting for
  tick,         \* the time
  admitted,     \* history: requests a row of counters admitted at each instant
  attempts,     \* SlidingWindowRateLimiter._attempts
  entering,     \* threads that have read the clock and want the lock
  entered,      \* history: checks the limiter in memory allowed at each instant
  body          \* RequestBodyLimitMiddleware: one request's body

databaseVars == <<counters, checking, admitted>>
memoryVars == <<attempts, entering, entered>>
limitsVars == <<counters, checking, tick, admitted, attempts, entering, entered, body>>

NotAsking == [at |-> "idle"]
Ticks == 0 .. LastTick
Keys == Hosts \cup Identifiers
NoRow == [start |-> -1, attempts |-> 0]

\* No window, stretched by a wait, reaches over as many instants as these.
Reach == Window - MaxWait

(***************************************************************************)
(* client_ip: the last untrusted hop, seen from the peer                   *)
(***************************************************************************)
\* Mutant: the first hop is taken for the client.
MutClientIp(peer, chain) ==
  IF peer \notin Trusted \/ chain = << >> \/ Len(chain) > MaxHops THEN peer ELSE chain[1]

ClientIp(peer, chain) ==
  LET hops == Append(chain, peer)
      untrusted == {i \in DOMAIN hops : hops[i] \notin Trusted}
  IN  IF peer \notin Trusted \/ chain = << >> \/ Len(chain) > MaxHops THEN peer
      ELSE IF untrusted = {} THEN chain[1]
      ELSE hops[Max(untrusted)]

(***************************************************************************)
(* DatabaseRateLimiter.check                                               *)
(***************************************************************************)
Ended(row, now) == row.start <= now - Window

\* The row after the upsert, with the now() of the statement. Beyond the limits
\* every count is refused alike, and the model stops counting.
Counted(row, now) ==
  IF row = NoRow \/ Ended(row, now)
    THEN [start |-> now, attempts |-> 1]
    ELSE [start |-> row.start, attempts |-> Min({row.attempts, IpLimit}) + 1]

LimitsInit ==
  /\ counters = [k \in Keys |-> NoRow]
  /\ checking = [r \in Requests |-> NotAsking]
  /\ tick = 0
  /\ admitted = [k \in Keys |-> [t \in Ticks |-> 0]]
  /\ attempts = [k \in {} |-> << >>]
  /\ entering = [r \in Requests |-> NotAsking]
  /\ entered = [k \in MemoryKeys |-> [t \in Ticks |-> 0]]
  /\ body = [at |-> "arriving", size |-> 0, sent |-> 0, reads |-> 0, whole |-> FALSE]

\* A route is called; the statement for the address starts.
Arrive(r, chain, id) ==
  /\ checking[r] = NotAsking
  /\ checking' = [checking EXCEPT ![r] =
       [at |-> "address", key |-> ClientIp(Proxy, chain), now |-> tick, id |-> id, ok |-> TRUE]]
  /\ UNCHANGED <<counters, tick, admitted, memoryVars, body>>

\* The row of the address is locked and counted. Both limiters are asked even
\* when the first refuses.
CheckAddress(r) ==
  LET row == Counted(counters[checking[r].key], checking[r].now)
  IN  /\ checking[r].at = "address"
      /\ counters' = [counters EXCEPT ![checking[r].key] = row]
      /\ checking' = [checking EXCEPT ![r] =
           [at |-> "account", key |-> checking[r].id, now |-> tick, id |-> checking[r].id,
            ok |-> row.attempts <= IpLimit]]
      /\ admitted' = IF row.attempts <= IpLimit
                       THEN [admitted EXCEPT ![checking[r].key][tick] = @ + 1] ELSE admitted
      /\ UNCHANGED <<tick, memoryVars, body>>

CheckAccount(r) ==
  LET row == Counted(counters[checking[r].key], checking[r].now)
  IN  /\ checking[r].at = "account"
      /\ counters' = [counters EXCEPT ![checking[r].key] = row]
      /\ checking' = [checking EXCEPT ![r] = NotAsking]
      /\ admitted' = IF checking[r].ok /\ row.attempts <= AccountLimit
                       THEN [admitted EXCEPT ![checking[r].key][tick] = @ + 1] ELSE admitted
      /\ UNCHANGED <<tick, memoryVars, body>>

\* No connection, or the statement failed: the request ends, counts stay.
Abandon(r) ==
  /\ checking[r] # NotAsking
  /\ checking' = [checking EXCEPT ![r] = NotAsking]
  /\ UNCHANGED <<counters, tick, admitted, memoryVars, body>>

\* Every 256th check deletes the rows not touched for a day. The model forgets
\* updated_at and lets any row go whose window began that long ago.
Maintain ==
  /\ \E k \in Keys : counters[k] # NoRow /\ counters[k].start < tick - Retention
  /\ \E gone \in SUBSET {k \in Keys : counters[k].start < tick - Retention} :
       counters' = [k \in Keys |-> IF k \in gone THEN NoRow ELSE counters[k]]
  /\ UNCHANGED <<checking, tick, admitted, memoryVars, body>>

DatabaseLimiterNext ==
  \/ \E r \in Requests :
       \/ \E chain \in Chains, id \in Identifiers : Arrive(r, chain, id)
       \/ CheckAddress(r) \/ CheckAccount(r) \/ Abandon(r)
  \/ Maintain

(***************************************************************************)
(* SlidingWindowRateLimiter.check                                          *)
(***************************************************************************)
ReadClock(r, k) ==
  /\ entering[r] = NotAsking
  /\ entering' = [entering EXCEPT ![r] = [at |-> "lock", key |-> k, now |-> tick]]
  /\ UNCHANGED <<databaseVars, tick, attempts, entered, body>>

\* _prune forgets the keys whose newest attempt left the window.
Prune(table, now) ==
  [k \in {x \in DOMAIN table : table[x][Len(table[x])] > now - Window} |-> table[k]]

AtCapacity(table, k) == Cardinality(DOMAIN table) >= MaxKeys /\ k \notin DOMAIN table

\* The table once there is room for k, or with no room if it is still full.
MakeRoom(k, now) == IF AtCapacity(attempts, k) THEN Prune(attempts, now) ELSE attempts

Saturated(k, now) == AtCapacity(MakeRoom(k, now), k)

\* Mutant: all attempts but the last are forgotten.
MutLive(table, k, now) ==
  LET times == IF k \in DOMAIN table THEN table[k] ELSE << >>
      kept == {i \in DOMAIN times : times[i] > now - Window}
  IN  IF kept = {} THEN << >> ELSE SubSeq(times, Max(kept), Len(times))

\* The attempts of k from the first that is still in the window.
Live(table, k, now) ==
  LET times == IF k \in DOMAIN table THEN table[k] ELSE << >>
      kept == {i \in DOMAIN times : times[i] > now - Window}
  IN  IF kept = {} THEN << >> ELSE SubSeq(times, Min(kept), Len(times))

CheckInMemory(r) ==
  LET k == entering[r].key
      now == entering[r].now
      table == MakeRoom(k, now)
      live == Live(table, k, now)
      allowed == Len(live) < KeyLimit
      times == IF allowed THEN Append(live, now) ELSE live
  IN  /\ entering[r].at = "lock"
      /\ entering' = [entering EXCEPT ![r] = NotAsking]
      /\ IF Saturated(k, now)
           THEN attempts' = table /\ UNCHANGED entered
           ELSE /\ attempts' = [x \in DOMAIN table \cup {k} |-> IF x = k THEN times ELSE table[x]]
                /\ entered' = IF allowed THEN [entered EXCEPT ![k][tick] = @ + 1] ELSE entered
      /\ UNCHANGED <<databaseVars, tick, body>>

MemoryLimiterNext ==
  \E r \in Requests : (\E k \in MemoryKeys : ReadClock(r, k)) \/ CheckInMemory(r)

\* No check waits longer than MaxWait. The histories keep what a property can
\* still ask for.
LimitsTick ==
  /\ tick < LastTick
  /\ \A r \in Requests :
       /\ checking[r] # NotAsking => tick < checking[r].now + MaxWait
       /\ entering[r] # NotAsking => tick < entering[r].now + MaxWait
  /\ tick' = tick + 1
  /\ admitted' = [k \in Keys |->
       [t \in Ticks |-> IF t < tick + 2 - Reach THEN 0 ELSE admitted[k][t]]]
  /\ entered' = [k \in MemoryKeys |->
       [t \in Ticks |-> IF t < tick - (Window + MaxWait) THEN 0 ELSE entered[k][t]]]
  /\ UNCHANGED <<counters, checking, attempts, entering, body>>

(***************************************************************************)
(* RequestBodyLimitMiddleware                                              *)
(***************************************************************************)
BodyIs(at) == body' = [body EXCEPT !.at = at]

\* Content-Length is absent or honest, malformed, negative, or too large.
Declare ==
  /\ body.at = "arriving"
  /\ BodyIs("reading") \/ BodyIs("refused")
  /\ UNCHANGED <<databaseVars, tick, memoryVars>>

\* Mutant: the last chunk is not compared with the limit.
MutReceive(n, more) ==
  LET size == body.size + n
      tooLarge == more /\ size > MaxBytes
  IN  /\ body.at = "reading"
      /\ body' = [body EXCEPT !.size = IF tooLarge THEN @ ELSE size, !.sent = @ + n,
                              !.whole = ~more,
                              !.at = IF tooLarge THEN "refused"
                                     ELSE IF more THEN "reading" ELSE "replay"]
      /\ UNCHANGED <<databaseVars, tick, memoryVars>>

\* One http.request message; more_body = FALSE ends the body.
Receive(n, more) ==
  LET size == body.size + n
  IN  /\ body.at = "reading"
      /\ body' = [body EXCEPT !.size = IF size > MaxBytes THEN @ ELSE size, !.sent = @ + n,
                              !.whole = ~more,
                              !.at = IF size > MaxBytes THEN "refused"
                                     ELSE IF more THEN "reading" ELSE "replay"]
      /\ body.sent + n <= MaxBytes + MaxChunk
      /\ UNCHANGED <<databaseVars, tick, memoryVars>>

Disconnect ==
  /\ body.at = "reading"
  /\ BodyIs("gone")
  /\ UNCHANGED <<databaseVars, tick, memoryVars>>

\* replay_receive hands the body over once, and then says http.disconnect.
Replay ==
  /\ body.at = "replay"
  /\ body' = [body EXCEPT !.at = "replayed", !.reads = @ + 1]
  /\ UNCHANGED <<databaseVars, tick, memoryVars>>

BodyNext ==
  \/ Declare \/ Disconnect \/ Replay
  \/ \E n \in 0 .. MaxChunk, more \in BOOLEAN : Receive(n, more)

LimitsNext == DatabaseLimiterNext \/ MemoryLimiterNext \/ LimitsTick \/ BodyNext

LimitsSpec == LimitsInit /\ [][LimitsNext]_limitsVars

(***************************************************************************)
(* Properties                                                              *)
(***************************************************************************)
Row == [start: -1 .. LastTick, attempts: 0 .. IpLimit + 1]

LimitsTypeOK ==
  /\ counters \in [Keys -> Row]
  /\ checking \in [Requests -> {NotAsking} \cup
       [at: {"address", "account"}, key: Keys, now: Ticks, id: Identifiers, ok: BOOLEAN]]
  /\ tick \in Ticks
  /\ admitted \in [Keys -> [Ticks -> Nat]]
  /\ DOMAIN attempts \subseteq MemoryKeys
  /\ \A k \in DOMAIN attempts : attempts[k] # << >> /\ attempts[k] \in Seq(Ticks)
  /\ Cardinality(DOMAIN attempts) <= MaxKeys
  /\ entering \in [Requests -> {NotAsking} \cup [at: {"lock"}, key: MemoryKeys, now: Ticks]]
  /\ entered \in [MemoryKeys -> [Ticks -> Nat]]
  /\ body \in [at: {"arriving", "reading", "refused", "gone", "replay", "replayed"},
               size: 0 .. MaxBytes, sent: Nat, reads: 0 .. 1, whole: BOOLEAN]

\* The requests a history counts from t on, and in the Reach instants from t on.
Since(history, t) == MapThenSumSet(LAMBDA x : history[x], {x \in Ticks : x >= t})
Recently(history, t) ==
  MapThenSumSet(LAMBDA x : history[x], {x \in Ticks : t <= x /\ x < t + Reach})

ClientRows == {IF Len(chain) <= MaxHops THEN Client ELSE Proxy : chain \in Chains}

\* A fixed window may let its whole limit but one through at its end and the
\* next whole limit at its start, and no more: not by way of two limiters, of
\* forged hops in X-Forwarded-For, of rows deleted while they count, or of a
\* statement that waited and brings an old now(). Counted are the requests of one
\* client and the requests for one identifier, whatever else either sent. A
\* client whose header names too many hops is counted with its proxy, in a row
\* of its own; no header finds it a third row.
AtMostTwiceTheLimit ==
  \A t \in Ticks :
    /\ \A host \in Hosts :
         Recently(admitted[host], t) <= IF host \in ClientRows THEN 2 * IpLimit - 1 ELSE 0
    /\ \A id \in Identifiers : Recently(admitted[id], t) <= 2 * AccountLimit - 1

\* The limiter in memory never lets more than the limit through in any window
\* (less the wait for the lock), although pruning forgets whole keys and times
\* may be appended out of order. It refuses a key for lack of room only while
\* as many others as it can hold were really let in during the window.
SlidingWindowHolds ==
  /\ \A k \in MemoryKeys, t \in Ticks : Recently(entered[k], t) <= KeyLimit
  /\ \A r \in Requests :
       entering[r] # NotAsking /\ Saturated(entering[r].key, entering[r].now) =>
         Cardinality({k \in MemoryKeys \ {entering[r].key} :
           \E t \in Ticks : t > entering[r].now - Window /\ entered[k][t] > 0}) >= MaxKeys

\* A route reads a body once, complete and within the limit; at most one chunk
\* beyond the limit is ever taken from the client.
BodiesWhole ==
  /\ body.reads > 0 => body.whole /\ body.size = body.sent /\ body.size <= MaxBytes
  /\ body.sent <= MaxBytes + MaxChunk

LimitOf(k) == IF k \in Hosts THEN IpLimit ELSE AccountLimit

\* What a row's count says about the requests it admitted, with that limit and at
\* that time: of the window before the current one only the last limit but one
\* are recent, and the current window's first check is among its first instants.
RowKeeps(row, history, now, limit) ==
  LET counted == IF row.attempts < limit THEN row.attempts ELSE limit
  IN  /\ \A t \in Ticks : Recently(history, t) <= 2 * limit - 1
      /\ Since(history, now - Reach + 1) <= limit - 1 + counted
      /\ row = NoRow \/ Since(history, row.start + MaxWait + 1) <= counted - 1

\* The attempts the limiter in memory remembers account for all it let in lately:
\* as many as that are its last ones, none of them older than a wait; and the
\* last of them, if it may still matter, was let in.
TimesKeep(times, history, now) ==
  /\ Len(times) <= KeyLimit
  /\ \A t \in Ticks : Recently(history, t) <= KeyLimit
  /\ \A t \in now - Reach + 1 .. now :
       /\ Since(history, t) <= Len(times)
       /\ \A i \in DOMAIN times : i > Len(times) - Since(history, t) => times[i] >= t - MaxWait
  /\ times # << >> /\ times[Len(times)] >= now - 1 - (Window + MaxWait) =>
       \E t \in Ticks : t >= times[Len(times)] /\ history[t] > 0

TimesOf(table, k) == IF k \in DOMAIN table THEN table[k] ELSE << >>

Waits(x) == x = NotAsking \/ (x.now <= tick /\ tick <= x.now + MaxWait)

\* Rows keep their promises, admit nothing in the future, and those of other
\* clients nothing at all.
RowsInv ==
  \A k \in Keys :
    /\ counters[k] = NoRow \/ (counters[k].start >= 0 /\ counters[k].attempts >= 1)
    /\ RowKeeps(counters[k], admitted[k], tick, LimitOf(k))
    /\ \A t \in Ticks : t > tick \/ k \in Hosts \ ClientRows => admitted[k][t] = 0

TimesInv ==
  \A k \in MemoryKeys :
    /\ TimesKeep(TimesOf(attempts, k), entered[k], tick)
    /\ \A t \in Ticks : t > tick => entered[k][t] = 0

\* No check waits too long, and it counts in a row of its own client or identifier.
WaitsInv ==
  \A r \in Requests :
    /\ Waits(checking[r]) /\ Waits(entering[r])
    /\ checking[r] # NotAsking =>
         IF checking[r].at = "address" THEN checking[r].key \in ClientRows
                                       ELSE checking[r].key = checking[r].id

BodyInv ==
  /\ BodiesWhole
  /\ body.at \in {"arriving", "reading", "replay"} => body.reads = 0 /\ body.size = body.sent
  /\ body.at = "replay" => body.whole

\* Inductive.
LimitsInv == LimitsTypeOK /\ RowsInv /\ TimesInv /\ WaitsInv /\ BodyInv
=============================================================================
