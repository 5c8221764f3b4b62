---------------------------- MODULE LimitsProofs ----------------------------
(***************************************************************************)
(* Theorems of Limits, for every number of hosts, identifiers and requests *)
(* in progress and every limit and window: what each limiter lets through  *)
(* in a window, although its checks wait for a row or the lock with a time *)
(* they took before. The sums of the properties are totals (Totals) of the *)
(* history of one row or key; the first two parts say what one check, one  *)
(* deletion and one tick do to them, the third carries that to the states. *)
(***************************************************************************)
EXTENDS Limits, Totals

(***************************************************************************)
(* The limiters                                                            *)
(***************************************************************************)
Counts == [Ticks -> Nat]
From(t) == {x \in Ticks : x >= t}
Span(t) == {x \in Ticks : t <= x /\ x < t + Reach}

\* The constants, as the proofs use them.
LEMMA LimitNumbers ==
  /\ Window \in Nat /\ Retention \in Nat /\ MaxWait \in Nat /\ LastTick \in Nat
  /\ Reach \in Nat /\ Reach > 0 /\ Window = Reach + MaxWait /\ Window <= Retention
  /\ IpLimit \in Nat \ {0} /\ AccountLimit \in 1 .. IpLimit
  /\ KeyLimit \in Nat \ {0} /\ MaxKeys \in Nat \ {0}
  /\ \A k \in Keys : LimitOf(k) \in 1 .. IpLimit
  <1>1. /\ Window \in Nat /\ Retention \in Nat /\ MaxWait \in Nat /\ LastTick \in Nat
        /\ IpLimit \in Nat \ {0} /\ AccountLimit \in Nat \ {0}
        /\ KeyLimit \in Nat \ {0} /\ MaxKeys \in Nat \ {0}
        /\ MaxWait < Window /\ Window <= Retention /\ AccountLimit <= IpLimit
    BY LimitsAssumption
  <1>2. Reach \in Nat /\ Reach > 0 /\ Window = Reach + MaxWait
    BY <1>1 DEF Reach
  <1>3. AccountLimit \in 1 .. IpLimit /\ IpLimit \in 1 .. IpLimit
    BY <1>1
  <1>4. QED  BY <1>1, <1>2, <1>3 DEF LimitOf

\* Instants are finitely many.
LEMMA TicksFinite == \A S \in SUBSET Ticks : IsFiniteSet(S)
  <1>1. IsFiniteSet(0 .. LastTick)
    BY LimitNumbers, FS_Interval
  <1>2. QED  BY <1>1, FS_Subset DEF Ticks

\* The sums of the properties are totals of a history.
LEMMA SumsAre ==
  ASSUME NEW h \in Counts, NEW t \in Int
  PROVE  /\ Since(h, t) = Total(h, From(t)) /\ Recently(h, t) = Total(h, Span(t))
         /\ Since(h, t) \in Nat /\ Recently(h, t) \in Nat
         /\ From(t) \in SUBSET Ticks /\ Span(t) \in SUBSET Ticks
  <1>1. Since(h, t) = Total(h, From(t)) /\ Recently(h, t) = Total(h, Span(t))
    BY DEF Since, Recently, Total, From, Span
  <1>2. From(t) \in SUBSET Ticks /\ Span(t) \in SUBSET Ticks
    BY DEF From, Span
  <1>3. /\ \A x \in From(t) : h[x] \in Nat
        /\ \A x \in Span(t) : h[x] \in Nat
    BY <1>2 DEF Counts
  <1>4. QED  BY <1>1, <1>2, <1>3, TicksFinite, TotalNat

\* A history that says less, from a later instant on, has smaller sums; and what
\* is recent was since.
LEMMA SumsGrow ==
  ASSUME NEW h \in Counts, NEW g \in Counts, \A x \in Ticks : g[x] <= h[x],
         NEW u \in Int, NEW t \in Int, u <= t
  PROVE  Since(g, t) <= Since(h, u) /\ Recently(g, t) <= Recently(h, t) /\ Recently(g, t) <= Since(h, u)
  <1>1. /\ From(t) \in SUBSET From(u) /\ Span(t) \in SUBSET From(u) /\ Span(t) \in SUBSET Span(t)
        /\ IsFiniteSet(From(u)) /\ IsFiniteSet(Span(t))
        /\ From(u) \in SUBSET Ticks /\ Span(t) \in SUBSET Ticks /\ From(t) \in SUBSET Ticks
    BY SumsAre, TicksFinite DEF From, Span, Ticks
  <1>2. \A x \in Ticks : h[x] \in Nat /\ g[x] \in Nat /\ g[x] <= h[x]
    BY DEF Counts
  <1>3. Total(g, From(t)) <= Total(h, From(u))
    BY <1>1, <1>2, TotalMonotone
  <1>4. Total(g, Span(t)) <= Total(h, Span(t))
    BY <1>1, <1>2, TotalMonotone
  <1>5. Total(g, Span(t)) <= Total(h, From(u))
    BY <1>1, <1>2, TotalMonotone
  <1>6. QED  BY <1>3, <1>4, <1>5, SumsAre

\* One more request now.
LEMMA OneMoreSince ==
  ASSUME NEW h \in Counts, NEW now \in Ticks, NEW t \in Int, NEW g, g = [h EXCEPT ![now] = @ + 1]
  PROVE  /\ g \in Counts
         /\ t <= now => Since(g, t) = Since(h, t) + 1
         /\ t > now => Since(g, t) = Since(h, t)
         /\ now \in Span(t) => Recently(g, t) = Recently(h, t) + 1
         /\ now \notin Span(t) => Recently(g, t) = Recently(h, t)
  <1>1. g \in Counts
    BY DEF Counts
  <1>2. /\ \A x \in Ticks : h[x] \in Int /\ g[x] \in Int
        /\ \A x \in Ticks \ {now} : g[x] = h[x]
        /\ g[now] = h[now] + 1
    BY DEF Counts
  <1>3. ASSUME NEW S \in SUBSET Ticks
        PROVE  /\ now \in S => Total(g, S) = Total(h, S) + 1
               /\ now \notin S => Total(g, S) = Total(h, S)
    <2>1. IsFiniteSet(S)
      BY TicksFinite
    <2>2. ASSUME now \in S PROVE Total(g, S) = Total(h, S) + 1
      <3>1. \A x \in S : h[x] \in Int
        BY <1>2
      <3>2. \A x \in S \ {now} : g[x] = h[x]
        BY <1>2
      <3>3. QED  BY <1>2, <2>1, <2>2, <3>1, <3>2, OneMoreInTotal
    <2>3. ASSUME now \notin S PROVE Total(g, S) = Total(h, S)
      <3>1. \A x \in S : g[x] \in Int /\ g[x] = h[x]
        BY <1>2, <2>3
      <3>2. QED  BY <2>1, <3>1, TotalAgrees
    <2>4. QED  BY <2>2, <2>3
  <1>4. now \in From(t) <=> t <= now
    BY DEF From, Ticks
  <1>5. t > now => ~(t <= now)
    BY DEF Ticks
  <1>6. From(t) \in SUBSET Ticks /\ Span(t) \in SUBSET Ticks
    BY DEF From, Span
  <1>7. /\ Since(h, t) = Total(h, From(t)) /\ Recently(h, t) = Total(h, Span(t))
        /\ Since(g, t) = Total(g, From(t)) /\ Recently(g, t) = Total(g, Span(t))
    BY <1>1, SumsAre
  <1>8. QED  BY <1>1, <1>3, <1>4, <1>5, <1>6, <1>7

\* The history after one more request now.
OneMore(h, now, g) == g = [h EXCEPT ![now] = @ + 1]

\* What of it is recent.
LEMMA OneMoreRecently ==
  ASSUME NEW h \in Counts, NEW now \in Ticks, NEW t \in Int, NEW g, OneMore(h, now, g)
  PROVE  Recently(g, t) = IF now \in Span(t) THEN Recently(h, t) + 1 ELSE Recently(h, t)
  <1>1. g = [h EXCEPT ![now] = @ + 1]
    BY DEF OneMore
  <1>2. now \in Span(t) => Recently(g, t) = Recently(h, t) + 1
    BY <1>1, OneMoreSince
  <1>3. now \notin Span(t) => Recently(g, t) = Recently(h, t)
    BY <1>1, OneMoreSince
  <1>4. QED  BY <1>2, <1>3

\* Where nothing was admitted, the sums are zero.
LEMMA NothingSince ==
  ASSUME NEW h \in Counts, NEW t \in Int
  PROVE  /\ (\A x \in Ticks : x >= t => h[x] = 0) => Since(h, t) = 0
         /\ (\A x \in Ticks : h[x] = 0) => Recently(h, t) = 0
  <1>1. IsFiniteSet(From(t)) /\ IsFiniteSet(Span(t))
    BY SumsAre, TicksFinite
  <1>2. ASSUME \A x \in Ticks : x >= t => h[x] = 0 PROVE Since(h, t) = 0
    <2>1. \A x \in From(t) : h[x] = 0
      BY <1>2 DEF From
    <2>2. QED  BY <1>1, <2>1, NoTotal, SumsAre
  <1>3. ASSUME \A x \in Ticks : h[x] = 0 PROVE Recently(h, t) = 0
    <2>1. \A x \in Span(t) : h[x] = 0
      BY <1>3 DEF Span
    <2>2. QED  BY <1>1, <2>1, NoTotal, SumsAre
  <1>4. QED  BY <1>2, <1>3

\* The smaller of two numbers, as the library chooses it.
LEMMA MinOfTwo ==
  ASSUME NEW a \in Int, NEW b \in Int
  PROVE  Min({a, b}) = IF a <= b THEN a ELSE b
  BY DEF Min

-----------------------------------------------------------------------------
(***************************************************************************)
(* One row of auth_rate_limits                                             *)
(***************************************************************************)
\* One more admitted request keeps the window's promise if the recent ones are
\* fewer than two limits but one.
LEMMA AdmitOne ==
  ASSUME NEW h \in Counts, NEW now \in Ticks, NEW limit \in Nat, NEW g, g = [h EXCEPT ![now] = @ + 1],
         \A t \in Ticks : Recently(h, t) <= limit,
         Since(h, now - Reach + 1) + 1 <= limit
  PROVE  \A t \in Ticks : Recently(g, t) <= limit
  <1>1. SUFFICES ASSUME NEW t \in Ticks PROVE Recently(g, t) <= limit
    OBVIOUS
  <1>2. t \in Int /\ now \in Int /\ now - Reach + 1 \in Int
    BY LimitNumbers DEF Ticks
  <1>3. Recently(g, t) = IF now \in Span(t) THEN Recently(h, t) + 1 ELSE Recently(h, t)
    <2>1. OneMore(h, now, g)
      BY DEF OneMore
    <2>2. QED  BY <1>2, <2>1, OneMoreRecently
  <1>4. CASE now \notin Span(t)
    BY <1>3, <1>4
  <1>5. CASE now \in Span(t)
    <2>1. now - Reach + 1 <= t
      BY <1>2, <1>5, LimitNumbers DEF Span
    <2>2. \A x \in Ticks : h[x] <= h[x]
      BY DEF Counts
    <2>3. Recently(h, t) <= Since(h, now - Reach + 1)
      BY <1>2, <2>1, <2>2, SumsGrow
    <2>4. Recently(g, t) = Recently(h, t) + 1
      BY <1>3, <1>5
    <2>5. Recently(h, t) \in Nat /\ Since(h, now - Reach + 1) \in Nat
      BY <1>2, SumsAre
    <2>6. QED  BY <2>3, <2>4, <2>5
  <1>6. QED  BY <1>4, <1>5

GoodRow(row) ==
  /\ row \in Row
  /\ row = NoRow \/ (row.start >= 0 /\ row.attempts >= 1)

\* When a window has ended, all that it admitted and that is still recent came
\* after its first instants: fewer than the limit.
LEMMA EndedKeepsLast ==
  ASSUME NEW row, GoodRow(row), NEW h \in Counts, NEW now \in Ticks, NEW limit \in 1 .. IpLimit,
         RowKeeps(row, h, now, limit), row = NoRow \/ row.start <= now - Window
  PROVE  Since(h, now - Reach + 1) <= limit - 1
  <1>1. limit \in Nat /\ limit >= 1 /\ now \in Int /\ now - Reach + 1 \in Int
    BY LimitNumbers DEF Ticks
  <1>2. Since(h, now - Reach + 1) \in Nat
    BY <1>1, SumsAre
  <1>3. CASE row = NoRow
    <2>1. row.attempts = 0
      BY <1>3 DEF NoRow
    <2>2. QED  BY <1>1, <1>2, <2>1 DEF RowKeeps
  <1>4. CASE row # NoRow
    <2>1. row.start \in Int /\ row.attempts \in Nat /\ row.start + MaxWait + 1 \in Int
      BY LimitNumbers DEF GoodRow, Row
    <2>2. row.start + MaxWait + 1 <= now - Reach + 1
      BY <1>1, <1>4, <2>1, LimitNumbers
    <2>3. \A x \in Ticks : h[x] <= h[x]
      BY DEF Counts
    <2>4. Since(h, now - Reach + 1) <= Since(h, row.start + MaxWait + 1)
      BY <1>1, <2>1, <2>2, <2>3, SumsGrow
    <2>5. Since(h, row.start + MaxWait + 1) <= limit - 1
      <3>1. Since(h, row.start + MaxWait + 1) \in Nat
        BY <2>1, SumsAre
      <3>2. QED  BY <1>1, <1>4, <2>1, <3>1 DEF RowKeeps
    <2>6. Since(h, row.start + MaxWait + 1) \in Nat
      BY <2>1, SumsAre
    <2>7. QED  BY <1>1, <1>2, <2>4, <2>5, <2>6
  <1>5. QED  BY <1>3, <1>4

\* A check that starts a new window.
LEMMA RowBegins ==
  ASSUME NEW row, GoodRow(row), NEW h \in Counts, NEW now \in Ticks, NEW limit \in 1 .. IpLimit,
         RowKeeps(row, h, now, limit), \A t \in Ticks : t > now => h[t] = 0,
         NEW n \in Ticks, n <= now, now <= n + MaxWait, row = NoRow \/ Ended(row, n),
         NEW g, g = h \/ g = [h EXCEPT ![now] = @ + 1]
  PROVE  RowKeeps([start |-> n, attempts |-> 1], g, now, limit)
  <1>1. limit \in Nat /\ limit >= 1 /\ now \in Int /\ n \in Int /\ now - Reach + 1 \in Int
        /\ n + MaxWait + 1 \in Int /\ 2 * limit - 1 \in Nat
    BY LimitNumbers DEF Ticks
  <1>2. row = NoRow \/ row.start <= now - Window
    BY <1>1, LimitNumbers DEF Ended, GoodRow, Row
  <1>3. Since(h, now - Reach + 1) <= limit - 1
    BY <1>2, EndedKeepsLast
  <1>4. Since(h, n + MaxWait + 1) = 0
    <2>1. \A x \in Ticks : x >= n + MaxWait + 1 => h[x] = 0
      BY <1>1, LimitNumbers DEF Ticks
    <2>2. QED  BY <1>1, <2>1, NothingSince
  <1>5. \A t \in Ticks : Recently(h, t) <= 2 * limit - 1
    BY DEF RowKeeps
  <1>6. Since(h, now - Reach + 1) \in Nat
    BY <1>1, SumsAre
  <1>7. /\ \A t \in Ticks : Recently(g, t) <= 2 * limit - 1
        /\ Since(g, now - Reach + 1) <= limit
        /\ Since(g, n + MaxWait + 1) = 0
    <2>1. CASE g = h
      BY <1>1, <1>3, <1>4, <1>5, <1>6, <2>1
    <2>2. CASE g = [h EXCEPT ![now] = @ + 1]
      <3>1. Since(g, now - Reach + 1) = Since(h, now - Reach + 1) + 1
        <4>1. now - Reach + 1 <= now
          BY <1>1, LimitNumbers
        <4>2. QED  BY <1>1, <2>2, <4>1, OneMoreSince
      <3>2. Since(g, n + MaxWait + 1) = Since(h, n + MaxWait + 1)
        <4>1. n + MaxWait + 1 > now
          BY <1>1, LimitNumbers
        <4>2. QED  BY <1>1, <2>2, <4>1, OneMoreSince
      <3>3. Since(h, now - Reach + 1) + 1 <= 2 * limit - 1
        BY <1>1, <1>3, <1>6
      <3>4. \A t \in Ticks : Recently(g, t) <= 2 * limit - 1
        BY <1>1, <1>5, <2>2, <3>3, AdmitOne
      <3>5. QED  BY <1>1, <1>3, <1>4, <1>6, <3>1, <3>2, <3>4
    <2>3. QED  BY <2>1, <2>2
  <1>8. Since(g, now - Reach + 1) \in Nat
    BY <1>1, <1>6, <1>7, OneMoreSince, SumsAre
  <1>9. QED  BY <1>1, <1>7, <1>8 DEF RowKeeps

\* A check that counts in the current window, and admits if the limit allows.
LEMMA RowGoesOn ==
  ASSUME NEW row, GoodRow(row), row # NoRow, NEW h \in Counts, NEW now \in Ticks, NEW limit \in 1 .. IpLimit,
         RowKeeps(row, h, now, limit),
         NEW n \in 1 .. IpLimit + 1,
         IF row.attempts <= IpLimit THEN n = row.attempts + 1 ELSE n = IpLimit + 1,
         NEW g, g = h \/ (n <= limit /\ g = [h EXCEPT ![now] = @ + 1])
  PROVE  RowKeeps([start |-> row.start, attempts |-> n], g, now, limit)
  <1> DEFINE first == now - Reach + 1
             later == row.start + MaxWait + 1
             counted == IF row.attempts < limit THEN row.attempts ELSE limit
             more == IF n < limit THEN n ELSE limit
  <1>1. /\ limit \in Nat /\ limit >= 1 /\ now \in Int /\ first \in Int /\ 2 * limit - 1 \in Nat /\ IpLimit \in Nat
        /\ limit <= IpLimit /\ n \in Nat
    BY LimitNumbers DEF Ticks
  <1>2. row.start \in Int /\ row.attempts \in Nat /\ later \in Int /\ row.attempts >= 1
    BY LimitNumbers DEF GoodRow, Row
  <1>3. /\ counted \in Nat /\ more \in Nat /\ counted <= more /\ more <= limit
        /\ n <= limit => more = counted + 1
    BY <1>1, <1>2
  <1>4. /\ \A t \in Ticks : Recently(h, t) <= 2 * limit - 1
        /\ Since(h, first) <= limit - 1 + counted
        /\ Since(h, later) <= counted - 1
    BY DEF RowKeeps
  <1>5. Since(h, first) \in Nat /\ Since(h, later) \in Nat
    BY <1>1, <1>2, SumsAre
  <1>6. first <= now
    BY <1>1, LimitNumbers
  <1> HIDE DEF first, later, counted, more
  <1>7. /\ \A t \in Ticks : Recently(g, t) <= 2 * limit - 1
        /\ Since(g, first) <= limit - 1 + more
        /\ Since(g, later) <= more - 1
    <2>1. CASE g = h
      BY <1>1, <1>3, <1>4, <1>5, <2>1
    <2>2. CASE n <= limit /\ g = [h EXCEPT ![now] = @ + 1]
      <3>1. Since(g, first) = Since(h, first) + 1
        BY <1>1, <1>6, <2>2, OneMoreSince
      <3>2. Since(g, later) \in {Since(h, later), Since(h, later) + 1}
        <4>1. later <= now \/ later > now
          BY <1>1, <1>2
        <4>2. QED  BY <1>2, <2>2, <4>1, OneMoreSince
      <3>3. Since(h, first) + 1 <= 2 * limit - 1
        BY <1>1, <1>3, <1>4, <1>5, <2>2
      <3>4. \A t \in Ticks : Recently(g, t) <= 2 * limit - 1
        BY <1>1, <1>4, <2>2, <3>3, AdmitOne DEF first
      <3>5. more = counted + 1
        BY <1>3, <2>2
      <3>6. Since(g, first) <= limit - 1 + more
        BY <1>1, <1>3, <1>4, <1>5, <3>1, <3>5
      <3>7. Since(g, later) <= more - 1
        BY <1>1, <1>3, <1>4, <1>5, <3>2, <3>5
      <3>8. QED  BY <3>4, <3>6, <3>7
    <2>3. QED  BY <2>1, <2>2
  <1>8. QED  BY <1>7 DEF RowKeeps, first, later, more

\* A check, whatever it finds in the row.
LEMMA RowCounts ==
  ASSUME NEW row, GoodRow(row), NEW h \in Counts, NEW now \in Ticks, NEW limit \in 1 .. IpLimit,
         RowKeeps(row, h, now, limit), \A t \in Ticks : t > now => h[t] = 0,
         NEW n \in Ticks, n <= now, now <= n + MaxWait,
         NEW g, g = h \/ (Counted(row, n).attempts <= limit /\ g = [h EXCEPT ![now] = @ + 1])
  PROVE  /\ GoodRow(Counted(row, n)) /\ Counted(row, n) # NoRow
         /\ RowKeeps(Counted(row, n), g, now, limit)
         /\ g \in Counts /\ \A t \in Ticks : t > now => g[t] = 0
  <1>0. g \in Counts /\ \A t \in Ticks : t > now => g[t] = 0
    <2>1. CASE g = h
      BY <2>1
    <2>2. CASE g = [h EXCEPT ![now] = @ + 1]
      <3>1. \A t \in Ticks : t > now => t # now /\ g[t] = h[t]
        BY <2>2 DEF Counts, Ticks
      <3>2. QED  BY <2>2, <3>1, OneMoreSince, 0 \in Int
    <2>3. QED  BY <2>1, <2>2
  <1>1. IpLimit \in Nat /\ IpLimit >= 1 /\ n \in 0 .. LastTick /\ n >= 0
    BY LimitNumbers DEF Ticks
  <1>2. CASE row = NoRow \/ Ended(row, n)
    <2>1. Counted(row, n) = [start |-> n, attempts |-> 1]
      BY <1>2 DEF Counted
    <2>2. RowKeeps([start |-> n, attempts |-> 1], g, now, limit)
      BY <1>2, RowBegins
    <2>3. [start |-> n, attempts |-> 1] \in Row /\ [start |-> n, attempts |-> 1] # NoRow
      BY <1>1, LimitNumbers DEF Row, NoRow
    <2>4. QED  BY <1>0, <1>1, <2>1, <2>2, <2>3 DEF GoodRow
  <1>3. CASE row # NoRow /\ ~Ended(row, n)
    <2> DEFINE m == Min({row.attempts, IpLimit}) + 1
    <2>1. Counted(row, n) = [start |-> row.start, attempts |-> m]
      BY <1>3 DEF Counted
    <2>2. row.start \in -1 .. LastTick /\ row.start >= 0 /\ row.attempts \in 1 .. IpLimit + 1
      BY <1>1, <1>3 DEF GoodRow, Row
    <2>3. Min({row.attempts, IpLimit}) = IF row.attempts <= IpLimit THEN row.attempts ELSE IpLimit
      BY <1>1, <2>2, MinOfTwo
    <2>4. m \in 1 .. IpLimit + 1 /\ IF row.attempts <= IpLimit THEN m = row.attempts + 1 ELSE m = IpLimit + 1
      BY <1>1, <2>2, <2>3
    <2> HIDE DEF m
    <2>5. g = h \/ (m <= limit /\ g = [h EXCEPT ![now] = @ + 1])
      BY <2>1
    <2>6. RowKeeps([start |-> row.start, attempts |-> m], g, now, limit)
      BY <1>3, <2>4, <2>5, RowGoesOn
    <2>7. [start |-> row.start, attempts |-> m] \in Row /\ [start |-> row.start, attempts |-> m] # NoRow
      BY <1>1, <2>2, <2>4, LimitNumbers DEF Row, NoRow
    <2>8. QED  BY <1>0, <2>1, <2>2, <2>4, <2>6, <2>7 DEF GoodRow
  <1>4. QED  BY <1>2, <1>3

\* A row may be deleted when its window began so long ago.
LEMMA RowForgotten ==
  ASSUME NEW row, GoodRow(row), NEW h \in Counts, NEW now \in Ticks, NEW limit \in 1 .. IpLimit,
         RowKeeps(row, h, now, limit), row.start < now - Retention
  PROVE  RowKeeps(NoRow, h, now, limit)
  <1>1. row.start \in Int /\ now \in Int /\ limit \in Nat /\ limit >= 1 /\ now - Reach + 1 \in Int
    BY LimitNumbers DEF GoodRow, Row, Ticks
  <1>2. row.start <= now - Window
    BY <1>1, LimitNumbers
  <1>3. Since(h, now - Reach + 1) <= limit - 1
    BY <1>2, EndedKeepsLast
  <1>4. Since(h, now - Reach + 1) \in Nat
    BY <1>1, SumsAre
  <1>5. NoRow.attempts = 0
    BY DEF NoRow
  <1>6. QED  BY <1>1, <1>3, <1>4, <1>5 DEF RowKeeps

\* The clock goes on, and old instants are forgotten.
LEMMA RowAges ==
  ASSUME NEW row, GoodRow(row), NEW h \in Counts, NEW now \in Ticks, NEW limit \in 1 .. IpLimit,
         RowKeeps(row, h, now, limit), NEW next \in Ticks, next = now + 1,
         NEW g \in Counts, \A t \in Ticks : g[t] <= h[t]
  PROVE  RowKeeps(row, g, next, limit)
  <1> DEFINE counted == IF row.attempts < limit THEN row.attempts ELSE limit
             later == row.start + MaxWait + 1
             first == now - Reach + 1
  <1>1. /\ limit \in Nat /\ first \in Int /\ first + 1 \in Int /\ first <= first + 1 /\ first + 1 = next - Reach + 1
        /\ row.attempts \in Nat /\ later \in Int /\ later <= later /\ counted \in Nat /\ 2 * limit - 1 \in Int
    BY LimitNumbers DEF GoodRow, Row, Ticks
  <1>2. /\ \A t \in Ticks : Recently(h, t) <= 2 * limit - 1
        /\ Since(h, first) <= limit - 1 + counted
        /\ row = NoRow \/ Since(h, later) <= counted - 1
    BY DEF RowKeeps
  <1>3. Since(g, first + 1) <= Since(h, first) /\ Since(g, later) <= Since(h, later)
    <2> HIDE DEF first, later
    <2>1. QED  BY <1>1, SumsGrow
  <1>4. \A t \in Ticks : /\ Recently(g, t) <= Recently(h, t)
                          /\ Recently(g, t) \in Nat /\ Recently(h, t) \in Nat
    <2>1. \A t \in Ticks : t \in Int /\ t <= t
      BY DEF Ticks
    <2>2. QED  BY <2>1, SumsGrow, SumsAre
  <1>5. Since(g, first + 1) \in Nat /\ Since(h, first) \in Nat /\ Since(g, later) \in Nat /\ Since(h, later) \in Nat
    <2> HIDE DEF first, later
    <2>1. QED  BY <1>1, SumsAre
  <1> HIDE DEF counted, later, first
  <1>6. /\ \A t \in Ticks : Recently(g, t) <= 2 * limit - 1
        /\ Since(g, first + 1) <= limit - 1 + counted
        /\ row = NoRow \/ Since(g, later) <= counted - 1
    BY <1>1, <1>2, <1>3, <1>4, <1>5
  <1>7. Since(g, next - Reach + 1) <= limit - 1 + counted
    BY <1>1, <1>6
  <1>8. QED  BY <1>6, <1>7 DEF RowKeeps, counted, later

-----------------------------------------------------------------------------
(***************************************************************************)
(* One key of SlidingWindowRateLimiter                                     *)
(***************************************************************************)
\* What is left when d attempts are dropped from the front.
Dropped(times, d, rest) ==
  /\ rest \in Seq(Ticks) /\ d \in 0 .. Len(times) /\ Len(rest) = Len(times) - d
  /\ \A i \in 1 .. Len(rest) : rest[i] = times[i + d]

\* popleft drops attempts from the front, up to the first one still in the window.
LEMMA LiveDrops ==
  ASSUME NEW table, NEW k, NEW now \in Int, NEW times \in Seq(Ticks), times = TimesOf(table, k)
  PROVE  \E d \in Nat : /\ Dropped(times, d, Live(table, k, now))
                        /\ \A i \in DOMAIN times : times[i] > now - Window => i > d
  <1> DEFINE kept == {i \in DOMAIN times : times[i] > now - Window}
  <1>1. Live(table, k, now) = IF kept = {} THEN << >> ELSE SubSeq(times, Min(kept), Len(times))
    BY DEF Live, TimesOf
  <1>2. Len(times) \in Nat /\ DOMAIN times = 1 .. Len(times)
    OBVIOUS
  <1>3. CASE kept = {}
    <2>1. Dropped(times, Len(times), << >>)
      BY <1>2 DEF Dropped
    <2>2. QED  BY <1>1, <1>2, <1>3, <2>1
  <1>4. CASE kept # {}
    <2>1. kept \in SUBSET Nat
      BY <1>2
    <2>2. PICK m \in kept : \A i \in kept : ~(i < m)
      BY <1>4, <2>1, LeastElement
    <2>3. \A i \in kept : m <= i
      BY <2>1, <2>2
    <2>4. Min(kept) = m
      BY <2>1, <2>2, <2>3 DEF Min
    <2>5. m \in 1 .. Len(times)
      BY <1>2, <2>2
    <2> HIDE DEF kept
    <2> DEFINE rest == SubSeq(times, m, Len(times))
               d == m - 1
    <2>6. rest \in Seq(Ticks) /\ Len(rest) = Len(times) - d
      BY <1>2, <2>5
    <2>7. \A i \in 1 .. Len(rest) : rest[i] = times[i + d]
      BY <1>2, <2>5, <2>6
    <2>8. Dropped(times, d, rest)
      BY <1>2, <2>5, <2>6, <2>7 DEF Dropped
    <2>9. d \in Nat
      BY <1>2, <2>5
    <2>10. \A i \in DOMAIN times : times[i] > now - Window => i > d
      BY <1>2, <2>3, <2>5 DEF kept
    <2>11. QED  BY <1>1, <1>4, <2>4, <2>8, <2>9, <2>10
  <1>5. QED  BY <1>3, <1>4

\* Instants are numbers.
LEMMA TimesAreNumbers ==
  ASSUME NEW times \in Seq(Ticks)
  PROVE  /\ Len(times) \in Nat /\ DOMAIN times = 1 .. Len(times)
         /\ \A i \in 1 .. Len(times) : times[i] \in Ticks /\ times[i] \in Int
         /\ times # << >> => Len(times) > 0
  <1>1. Len(times) \in Nat /\ DOMAIN times = 1 .. Len(times)
    OBVIOUS
  <1>2. \A i \in 1 .. Len(times) : times[i] \in Ticks
    OBVIOUS
  <1>3. Ticks \subseteq Int
    BY DEF Ticks
  <1>4. times # << >> => Len(times) > 0
    OBVIOUS
  <1>5. QED  BY <1>1, <1>2, <1>3, <1>4

\* The numbers in TimesKeep, for one instant.
LEMMA LateIs ==
  ASSUME NEW now \in Ticks, NEW n \in Ticks, n <= now, now <= n + MaxWait,
         NEW t \in now - Reach + 1 .. now
  PROVE  t \in Int /\ t <= now /\ t - MaxWait > n - Window /\ n >= t - MaxWait /\ n \in Int /\ now \in Int
  BY LimitNumbers DEF Ticks

\* What was let in lately is not dropped.
LEMMA TimesCut ==
  ASSUME NEW times \in Seq(Ticks), NEW h \in Counts, NEW now \in Ticks, TimesKeep(times, h, now),
         NEW n \in Ticks, n <= now, now <= n + MaxWait,
         NEW d \in Nat, NEW rest, Dropped(times, d, rest),
         \A i \in DOMAIN times : times[i] > n - Window => i > d
  PROVE  TimesKeep(rest, h, now)
  <1>1. /\ rest \in Seq(Ticks) /\ Len(times) \in Nat /\ Len(rest) \in Nat /\ Len(rest) = Len(times) - d
        /\ DOMAIN times = 1 .. Len(times) /\ DOMAIN rest = 1 .. Len(rest)
        /\ \A i \in 1 .. Len(rest) : rest[i] = times[i + d]
        /\ \A i \in 1 .. Len(times) : times[i] \in Int
    BY TimesAreNumbers DEF Dropped
  <1>2. Len(rest) <= KeyLimit /\ \A t \in Ticks : Recently(h, t) <= KeyLimit
    BY <1>1, LimitNumbers DEF TimesKeep
  <1>3. ASSUME NEW t \in now - Reach + 1 .. now
        PROVE  /\ Since(h, t) <= Len(rest)
               /\ \A i \in DOMAIN rest : i > Len(rest) - Since(h, t) => rest[i] >= t - MaxWait
    <2>1. t \in Int /\ t - MaxWait > n - Window /\ t - MaxWait \in Int /\ n - Window \in Int
      BY LateIs, LimitNumbers
    <2>2. Since(h, t) \in Nat
      BY <2>1, SumsAre
    <2> DEFINE N == Since(h, t)
    <2>3. N <= Len(times) /\ \A i \in DOMAIN times : i > Len(times) - N => times[i] >= t - MaxWait
      BY DEF TimesKeep
    <2> HIDE DEF N
    <2>4. \A i \in DOMAIN times : i > Len(times) - N => i > d
      BY <1>1, <2>1, <2>3
    <2>5. N <= Len(rest)
      <3>1. CASE N = 0
        BY <1>1, <3>1
      <3>2. CASE N > 0
        <4>1. Len(times) - N + 1 \in DOMAIN times
          BY <1>1, <2>2, <2>3, <3>2 DEF N
        <4>2. Len(times) - N + 1 > d
          BY <1>1, <2>2, <2>4, <4>1 DEF N
        <4>3. QED  BY <1>1, <2>2, <4>2 DEF N
      <3>3. QED  BY <2>2, <3>1, <3>2 DEF N
    <2>6. ASSUME NEW i \in DOMAIN rest, i > Len(rest) - N PROVE rest[i] >= t - MaxWait
      <3>1. i + d \in DOMAIN times /\ i + d > Len(times) - N
        BY <1>1, <2>2, <2>6 DEF N
      <3>2. times[i + d] >= t - MaxWait
        BY <2>3, <3>1
      <3>3. QED  BY <1>1, <3>2
    <2>7. QED  BY <2>5, <2>6 DEF N
  <1>4. rest # << >> => times # << >> /\ rest[Len(rest)] = times[Len(times)]
    <2>1. ASSUME rest # << >> PROVE times # << >> /\ rest[Len(rest)] = times[Len(times)]
      <3>1. Len(rest) \in 1 .. Len(rest) /\ Len(rest) + d = Len(times) /\ Len(times) > 0
        BY <1>1, <2>1
      <3>2. QED  BY <1>1, <3>1
    <2>2. QED  BY <2>1
  <1>5. QED  BY <1>2, <1>3, <1>4 DEF TimesKeep

\* One more is let in when there are fewer than the limit.
LEMMA TimesAdd ==
  ASSUME NEW times \in Seq(Ticks), NEW h \in Counts, NEW now \in Ticks, TimesKeep(times, h, now),
         NEW n \in Ticks, n <= now, now <= n + MaxWait, Len(times) < KeyLimit
  PROVE  TimesKeep(Append(times, n), [h EXCEPT ![now] = @ + 1], now)
  <1> DEFINE more == Append(times, n)
             g == [h EXCEPT ![now] = @ + 1]
  <1>1. /\ Len(times) \in Nat /\ Len(more) = Len(times) + 1 /\ more[Len(times) + 1] = n
        /\ DOMAIN more = 1 .. (Len(times) + 1) /\ DOMAIN times = 1 .. Len(times) /\ more # << >>
        /\ \A i \in 1 .. Len(times) : more[i] = times[i]
    OBVIOUS
  <1>2. g \in Counts /\ g[now] > 0
    BY OneMoreSince, 0 \in Int DEF Counts
  <1>3. Len(more) <= KeyLimit
    BY <1>1, LimitNumbers
  <1>4. now - Reach + 1 \in now - Reach + 1 .. now /\ now - Reach + 1 \in Int
    BY LimitNumbers DEF Ticks
  <1> HIDE DEF more, g
  <1>5. \A t \in Ticks : Recently(g, t) <= KeyLimit
    <2>1. Since(h, now - Reach + 1) <= Len(times) /\ \A t \in Ticks : Recently(h, t) <= KeyLimit
      BY <1>4 DEF TimesKeep
    <2>2. Since(h, now - Reach + 1) + 1 <= KeyLimit
      <3>1. Since(h, now - Reach + 1) \in Nat
        BY <1>4, SumsAre
      <3>2. QED  BY <1>1, <2>1, <3>1, LimitNumbers
    <2>3. KeyLimit \in Nat
      BY LimitNumbers
    <2>4. QED  BY <2>1, <2>2, <2>3, AdmitOne DEF g
  <1>6. ASSUME NEW t \in now - Reach + 1 .. now
        PROVE  /\ Since(g, t) <= Len(more)
               /\ \A i \in DOMAIN more : i > Len(more) - Since(g, t) => more[i] >= t - MaxWait
    <2>1. t \in Int /\ t <= now /\ n >= t - MaxWait
      BY LateIs
    <2>2. Since(h, t) \in Nat /\ Since(g, t) = Since(h, t) + 1
      BY <2>1, SumsAre, OneMoreSince DEF g
    <2> DEFINE N == Since(h, t)
    <2>3. N <= Len(times) /\ \A i \in DOMAIN times : i > Len(times) - N => times[i] >= t - MaxWait
      BY DEF TimesKeep
    <2>4. N \in Nat /\ Since(g, t) = N + 1
      BY <2>2
    <2> HIDE DEF N
    <2>5. Since(g, t) <= Len(more)
      BY <1>1, <2>3, <2>4
    <2>6. ASSUME NEW i \in DOMAIN more, i > Len(more) - Since(g, t) PROVE more[i] >= t - MaxWait
      <3>1. i \in 1 .. (Len(times) + 1) /\ i > Len(times) - N
        BY <1>1, <2>4, <2>6
      <3>2. CASE i = Len(times) + 1
        BY <1>1, <2>1, <3>2
      <3>3. CASE i # Len(times) + 1
        <4>1. i \in DOMAIN times
          BY <1>1, <3>1, <3>3
        <4>2. QED  BY <1>1, <2>3, <3>1, <4>1
      <3>4. QED  BY <3>2, <3>3
    <2>7. QED  BY <2>5, <2>6
  <1>7. \E t \in Ticks : t >= more[Len(more)] /\ g[t] > 0
    <2>1. now >= n
      BY DEF Ticks
    <2>2. QED  BY <1>1, <1>2, <2>1
  <1>8. TimesKeep(more, g, now)
    BY <1>3, <1>5, <1>6, <1>7 DEF TimesKeep
  <1>9. QED  BY <1>8 DEF more, g

\* A key is pruned only when nothing of it was let in lately.
LEMMA TimesPruned ==
  ASSUME NEW times \in Seq(Ticks), NEW h \in Counts, NEW now \in Ticks, TimesKeep(times, h, now),
         NEW n \in Ticks, n <= now, now <= n + MaxWait,
         times # << >>, ~(times[Len(times)] > n - Window)
  PROVE  TimesKeep(<< >>, h, now)
  <1>1. Len(times) \in DOMAIN times /\ Len(times) \in Nat /\ times[Len(times)] \in Int
    BY TimesAreNumbers
  <1>2. ASSUME NEW t \in now - Reach + 1 .. now PROVE Since(h, t) = 0
    <2>1. t \in Int /\ t - MaxWait > n - Window /\ t - MaxWait \in Int /\ n - Window \in Int
      BY LateIs, LimitNumbers
    <2>2. Since(h, t) \in Nat
      BY <2>1, SumsAre
    <2>3. Len(times) > Len(times) - Since(h, t) => times[Len(times)] >= t - MaxWait
      BY <1>1 DEF TimesKeep
    <2>4. QED  BY <1>1, <2>1, <2>2, <2>3
  <1>3. Len(<< >>) = 0 /\ DOMAIN << >> = {} /\ KeyLimit \in Nat
    BY LimitNumbers
  <1>4. \A t \in Ticks : Recently(h, t) <= KeyLimit
    BY DEF TimesKeep
  <1>5. QED  BY <1>2, <1>3, <1>4 DEF TimesKeep

\* The clock goes on, and old instants are forgotten.
LEMMA TimesAge ==
  ASSUME NEW times \in Seq(Ticks), NEW h \in Counts, NEW now \in Ticks, TimesKeep(times, h, now),
         \A t \in Ticks : t > now => h[t] = 0,
         NEW next \in Ticks, next = now + 1, NEW g \in Counts,
         \A t \in Ticks : g[t] = IF t < now - (Window + MaxWait) THEN 0 ELSE h[t]
  PROVE  TimesKeep(times, g, next)
  <1>1. \A t \in Ticks : g[t] <= h[t] /\ g[t] \in Nat /\ h[t] \in Nat /\ t \in Int
    BY DEF Counts, Ticks
  <1>2. Len(times) <= KeyLimit /\ \A t \in Ticks : Recently(h, t) <= KeyLimit
    BY DEF TimesKeep
  <1>3. \A t \in Ticks : Recently(g, t) <= KeyLimit
    <2>1. \A t \in Ticks : t <= t
      BY <1>1
    <2>2. \A t \in Ticks : /\ Recently(g, t) <= Recently(h, t)
                            /\ Recently(g, t) \in Nat /\ Recently(h, t) \in Nat
      BY <1>1, <2>1, SumsGrow, SumsAre
    <2>3. QED  BY <1>2, <2>2, LimitNumbers
  <1>4. now \in Int /\ next \in Int /\ Len(times) \in Nat /\ DOMAIN times = 1 .. Len(times)
        /\ \A i \in DOMAIN times : times[i] \in Int
    BY TimesAreNumbers DEF Ticks
  <1>5. ASSUME NEW t \in next - Reach + 1 .. next
        PROVE  /\ Since(g, t) <= Len(times)
               /\ \A i \in DOMAIN times : i > Len(times) - Since(g, t) => times[i] >= t - MaxWait
    <2>1. t \in Int
      BY <1>4, LimitNumbers
    <2>2. Since(g, t) \in Nat
      BY <2>1, SumsAre
    <2>3. CASE t = next
      <3>1. \A x \in Ticks : x >= t => g[x] = 0
        BY <1>1, <1>4, <2>3
      <3>2. Since(g, t) = 0
        BY <2>1, <3>1, NothingSince
      <3>3. QED  BY <1>4, <3>2
    <2>4. CASE t # next
      <3>1. t \in now - Reach + 1 .. now
        BY <1>4, <2>1, <2>4, LimitNumbers
      <3>2. Since(h, t) <= Len(times) /\ \A i \in DOMAIN times : i > Len(times) - Since(h, t) => times[i] >= t - MaxWait
        BY <3>1 DEF TimesKeep
      <3>3. Since(g, t) <= Since(h, t) /\ Since(h, t) \in Nat
        <4>1. t <= t
          BY <2>1
        <4>2. QED  BY <1>1, <2>1, <4>1, SumsGrow, SumsAre
      <3>4. Since(g, t) <= Len(times)
        BY <1>4, <2>2, <3>2, <3>3
      <3>5. \A i \in DOMAIN times : i > Len(times) - Since(g, t) => times[i] >= t - MaxWait
        BY <1>4, <2>2, <3>2, <3>3
      <3>6. QED  BY <3>4, <3>5
    <2>5. QED  BY <2>3, <2>4
  <1>6. ASSUME times # << >>, times[Len(times)] >= next - 1 - (Window + MaxWait)
        PROVE  \E t \in Ticks : t >= times[Len(times)] /\ g[t] > 0
    <2>1. times[Len(times)] \in Int
      BY <1>4, <1>6
    <2>2. times[Len(times)] >= now - (Window + MaxWait)
      BY <1>4, <1>6, <2>1, LimitNumbers
    <2>3. times[Len(times)] >= now - 1 - (Window + MaxWait)
      BY <1>4, <2>1, <2>2, LimitNumbers
    <2>4. PICK t \in Ticks : t >= times[Len(times)] /\ h[t] > 0
      BY <1>6, <2>3 DEF TimesKeep
    <2>5. ~(t < now - (Window + MaxWait))
      BY <1>1, <1>4, <2>1, <2>2, <2>4, LimitNumbers
    <2>6. QED  BY <2>4, <2>5
  <1>7. QED  BY <1>2, <1>3, <1>5, <1>6 DEF TimesKeep

-----------------------------------------------------------------------------
(***************************************************************************)
(* The states                                                              *)
(***************************************************************************)
\* The invariants of the rows and of the memory, of any values of the variables.
RowsAre(rows, history, now) ==
  \A k \in Keys :
    /\ rows[k] = NoRow \/ (rows[k].start >= 0 /\ rows[k].attempts >= 1)
    /\ RowKeeps(rows[k], history[k], now, LimitOf(k))
    /\ \A t \in Ticks : t > now \/ k \in Hosts \ ClientRows => history[k][t] = 0

TimesAre(table, history, now) ==
  \A k \in MemoryKeys :
    /\ TimesKeep(TimesOf(table, k), history[k], now)
    /\ \A t \in Ticks : t > now => history[k][t] = 0

\* In both states of a step, the invariant of the rows is the one of their values,
LEMMA RowsInvIs ==
  /\ RowsInv <=> RowsAre(counters, admitted, tick)
  /\ RowsInv' <=> RowsAre(counters', admitted', tick')
  BY DEF RowsInv, RowsAre, RowKeeps, Recently, Since, MapThenSumSet, MapThenFoldSet, LimitOf, Keys, Ticks, NoRow,
         ClientRows, Reach

\* and so is the invariant of the memory.
LEMMA TimesInvIs ==
  /\ TimesInv <=> TimesAre(attempts, entered, tick)
  /\ TimesInv' <=> TimesAre(attempts', entered', tick')
  BY DEF TimesInv, TimesAre, TimesKeep, TimesOf, Recently, Since, MapThenSumSet, MapThenFoldSet, Ticks, Reach

\* A step that leaves the rows alone keeps their invariant,
LEMMA RowsStay ==
  ASSUME RowsInv, UNCHANGED <<counters, admitted, tick>>
  PROVE  RowsInv'
  BY RowsInvIs

\* one that leaves the attempts alone keeps theirs,
LEMMA TimesStay ==
  ASSUME TimesInv, UNCHANGED <<attempts, entered, tick>>
  PROVE  TimesInv'
  BY TimesInvIs

\* one that leaves the body alone its own,
LEMMA BodyStays ==
  ASSUME BodyInv, UNCHANGED body
  PROVE  BodyInv'
  BY DEF BodyInv, BodiesWhole

\* and one that starts no check and lets no time pass those of the waiting.
LEMMA WaitsStay ==
  ASSUME WaitsInv, UNCHANGED <<checking, entering, tick>>
  PROVE  WaitsInv'
  BY DEF WaitsInv, Waits, ClientRows, NotAsking

\* Nothing is counted, waiting or read at the start.
LEMMA LimitsStarts ==
  ASSUME LimitsInit
  PROVE  LimitsInv
  <1> DEFINE none == [t \in Ticks |-> 0]
  <1>1. none \in Counts /\ \A t \in Ticks : none[t] = 0
    BY DEF Counts
  <1>2. 0 \in Ticks
    BY LimitNumbers DEF Ticks
  <1> HIDE DEF none
  <1>3. \A t \in Int : Since(none, t) = 0 /\ Recently(none, t) = 0
    BY <1>1, NothingSince
  <1>4. Ticks \subseteq Int
    BY DEF Ticks
  <1>5. 0 - Reach + 1 \in Int /\ 0 - Reach + 1 .. 0 \subseteq Int
    BY LimitNumbers
  <1>6. RowsInv
    <2>1. ASSUME NEW k \in Keys PROVE RowKeeps(NoRow, none, 0, LimitOf(k))
      <3>1. LimitOf(k) \in Nat /\ LimitOf(k) >= 1
        BY LimitNumbers
      <3>2. NoRow.attempts = 0
        BY DEF NoRow
      <3>3. QED  BY <1>3, <1>4, <1>5, <3>1, <3>2 DEF RowKeeps
    <2>2. counters = [k \in Keys |-> NoRow] /\ admitted = [k \in Keys |-> none] /\ tick = 0
      BY DEF LimitsInit, none
    <2>3. RowsAre(counters, admitted, tick)
      BY <1>1, <2>1, <2>2 DEF RowsAre
    <2>4. QED  BY <2>3, RowsInvIs
  <1>7. TimesInv
    <2>1. TimesKeep(<< >>, none, 0)
      BY <1>3, <1>4, <1>5, LimitNumbers DEF TimesKeep
    <2>2. \A k \in MemoryKeys : TimesOf(attempts, k) = << >>
      BY DEF LimitsInit, TimesOf
    <2>3. entered = [k \in MemoryKeys |-> none] /\ tick = 0
      BY DEF LimitsInit, none
    <2>4. TimesAre(attempts, entered, tick)
      BY <1>1, <2>1, <2>2, <2>3 DEF TimesAre
    <2>5. QED  BY <2>4, TimesInvIs
  <1>8. WaitsInv
    BY DEF LimitsInit, WaitsInv, Waits
  <1>9. BodyInv
    BY LimitsAssumption DEF LimitsInit, BodyInv, BodiesWhole
  <1>10. LimitsTypeOK
    <2>1. counters \in [Keys -> Row]
      BY LimitNumbers DEF LimitsInit, Row, NoRow
    <2>2. admitted \in [Keys -> [Ticks -> Nat]] /\ entered \in [MemoryKeys -> [Ticks -> Nat]]
      BY DEF LimitsInit
    <2>3. /\ DOMAIN attempts \subseteq MemoryKeys /\ Cardinality(DOMAIN attempts) <= MaxKeys
          /\ \A k \in DOMAIN attempts : attempts[k] # << >> /\ attempts[k] \in Seq(Ticks)
      <3>1. DOMAIN attempts = {}
        BY DEF LimitsInit
      <3>2. Cardinality({}) = 0
        BY FS_EmptySet
      <3>3. QED  BY <3>1, <3>2, LimitNumbers
    <2>4. body \in [at: {"arriving", "reading", "refused", "gone", "replay", "replayed"},
                    size: 0 .. MaxBytes, sent: Nat, reads: 0 .. 1, whole: BOOLEAN]
      BY LimitsAssumption DEF LimitsInit
    <2>5. QED  BY <1>2, <2>1, <2>2, <2>3, <2>4 DEF LimitsInit, LimitsTypeOK
  <1>11. QED  BY <1>6, <1>7, <1>8, <1>9, <1>10 DEF LimitsInv

\* What a step that leaves the guards of the other kind alone keeps of their types.
LEMMA TypesStay ==
  ASSUME LimitsTypeOK
  PROVE  /\ UNCHANGED <<counters, checking, admitted, tick>> =>
              /\ counters' \in [Keys -> Row]
              /\ checking' \in [Requests -> {NotAsking} \cup
                   [at: {"address", "account"}, key: Keys, now: Ticks, id: Identifiers, ok: BOOLEAN]]
              /\ tick' \in Ticks
              /\ admitted' \in [Keys -> [Ticks -> Nat]]
         /\ UNCHANGED memoryVars =>
              /\ DOMAIN attempts' \subseteq MemoryKeys
              /\ \A k \in DOMAIN attempts' : attempts'[k] # << >> /\ attempts'[k] \in Seq(Ticks)
              /\ Cardinality(DOMAIN attempts') <= MaxKeys
              /\ entering' \in [Requests -> {NotAsking} \cup [at: {"lock"}, key: MemoryKeys, now: Ticks]]
              /\ entered' \in [MemoryKeys -> [Ticks -> Nat]]
         /\ UNCHANGED body =>
              body' \in [at: {"arriving", "reading", "refused", "gone", "replay", "replayed"},
                         size: 0 .. MaxBytes, sent: Nat, reads: 0 .. 1, whole: BOOLEAN]
  BY DEF LimitsTypeOK, memoryVars

\* The steps of the body limit.
LEMMA BodySteps ==
  ASSUME LimitsInv, BodyNext
  PROVE  LimitsInv'
  <1>1. UNCHANGED <<counters, checking, admitted, tick, memoryVars>>
    BY DEF BodyNext, Declare, Disconnect, Replay, Receive, databaseVars
  <1>2. RowsInv' /\ TimesInv' /\ WaitsInv'
    BY <1>1, RowsStay, TimesStay, WaitsStay DEF LimitsInv, memoryVars
  <1>3. MaxBytes \in Nat /\ MaxChunk \in Nat
    BY LimitsAssumption
  <1> DEFINE Bodies == [at: {"arriving", "reading", "refused", "gone", "replay", "replayed"},
                        size: 0 .. MaxBytes, sent: Nat, reads: 0 .. 1, whole: BOOLEAN]
  <1>4. body \in Bodies /\ BodyInv
    BY DEF LimitsInv, LimitsTypeOK
  <1>5. body' \in Bodies /\ BodyInv'
    <2>1. CASE Declare
      BY <1>3, <1>4, <2>1 DEF Declare, BodyIs, BodyInv, BodiesWhole
    <2>2. CASE Disconnect
      BY <1>3, <1>4, <2>2 DEF Disconnect, BodyIs, BodyInv, BodiesWhole
    <2>3. CASE Replay
      <3>1. body.reads = 0 /\ body.whole /\ body.size = body.sent
        BY <1>4, <2>3 DEF Replay, BodyInv
      <3>2. body' \in Bodies /\ body'.at = "replayed"
        <4>1. body' = [at |-> body'.at, size |-> body'.size, sent |-> body'.sent, reads |-> body'.reads,
                       whole |-> body'.whole]
          BY <1>4, <2>3 DEF Replay
        <4>2. body'.at = "replayed" /\ body'.reads = body.reads + 1
          BY <1>4, <2>3 DEF Replay
        <4>3. body'.size = body.size /\ body'.sent = body.sent /\ body'.whole = body.whole
          BY <1>4, <2>3 DEF Replay
        <4>4. body'.reads \in 0 .. 1
          BY <3>1, <4>2
        <4>5. body.size \in 0 .. MaxBytes /\ body.sent \in Nat /\ body.whole \in BOOLEAN
          BY <1>4
        <4>6. QED  BY <4>1, <4>2, <4>3, <4>4, <4>5
      <3>3. body'.size = body.size /\ body'.sent = body.sent /\ body'.whole = body.whole
        BY <1>4, <2>3 DEF Replay
      <3>4. QED  BY <1>3, <1>4, <3>1, <3>2, <3>3 DEF BodyInv, BodiesWhole
    <2>4. ASSUME NEW n \in 0 .. MaxChunk, NEW more \in BOOLEAN, Receive(n, more)
          PROVE  body' \in Bodies /\ BodyInv'
      <3> DEFINE size == body.size + n
      <3>1. body.reads = 0 /\ body.size = body.sent
        BY <1>4, <2>4 DEF Receive, BodyInv
      <3>2. /\ body'.sent = size /\ body'.reads = 0 /\ body'.whole = ~more
            /\ body'.size = IF size > MaxBytes THEN body.size ELSE size
            /\ body'.at = IF size > MaxBytes THEN "refused" ELSE IF more THEN "reading" ELSE "replay"
        BY <1>4, <2>4, <3>1 DEF Receive
      <3>3. size \in Nat /\ body.size \in 0 .. MaxBytes /\ body.size + n <= MaxBytes + MaxChunk
        BY <1>3, <1>4
      <3>4. body' \in Bodies
        <4>1. body' = [at |-> body'.at, size |-> body'.size, sent |-> body'.sent, reads |-> body'.reads,
                       whole |-> body'.whole]
          BY <1>4, <2>4 DEF Receive
        <4>2. body'.size \in 0 .. MaxBytes
          BY <1>3, <3>2, <3>3
        <4>3. body'.at \in {"refused", "reading", "replay"} /\ body'.whole \in BOOLEAN
          BY <3>2
        <4>4. body'.sent \in Nat /\ body'.reads \in 0 .. 1
          BY <3>2, <3>3
        <4> HIDE DEF size
        <4>5. QED  BY <4>1, <4>2, <4>3, <4>4
      <3>5. BodiesWhole'
        BY <1>3, <3>2, <3>3 DEF BodiesWhole
      <3>6. body'.at \in {"arriving", "reading", "replay"} => body'.reads = 0 /\ body'.size = body'.sent
        BY <3>2
      <3>7. body'.at = "replay" => body'.whole
        BY <3>2
      <3>8. BodyInv'
        BY <3>5, <3>6, <3>7 DEF BodyInv
      <3>9. QED  BY <3>4, <3>8
    <2>5. QED  BY <2>1, <2>2, <2>3, <2>4 DEF BodyNext
  <1>6. LimitsTypeOK'
    BY <1>1, <1>5, TypesStay DEF LimitsInv, LimitsTypeOK
  <1>7. QED  BY <1>2, <1>5, <1>6 DEF LimitsInv

\* client_ip finds no third row for a client: its own address, behind a header of
\* too many hops its proxy's.
LEMMA ClientsAreFound ==
  ASSUME NEW chain \in Chains
  PROVE  ClientIp(Proxy, chain) \in ClientRows /\ ClientIp(Proxy, chain) \in Hosts
  <1>1. /\ Client \in Hosts \ Trusted /\ Proxy \in Hosts /\ Proxy \in Trusted
        /\ chain \in Seq(Hosts) /\ chain # << >> /\ chain[Len(chain)] = Client
    BY LimitsAssumption
  <1>2. CASE Len(chain) > MaxHops
    <2>1. ClientIp(Proxy, chain) = Proxy
      BY <1>2 DEF ClientIp
    <2>2. ~(Len(chain) <= MaxHops)
      BY <1>1, <1>2, LimitsAssumption
    <2>3. QED  BY <1>1, <2>1, <2>2 DEF ClientRows
  <1>3. CASE ~(Len(chain) > MaxHops)
    <2> DEFINE hops == Append(chain, Proxy)
               untrusted == {i \in DOMAIN hops : hops[i] \notin Trusted}
    <2>1. /\ Len(chain) \in Nat /\ Len(chain) > 0 /\ DOMAIN hops = 1 .. (Len(chain) + 1)
          /\ hops[Len(chain)] = Client /\ hops[Len(chain) + 1] = Proxy
      BY <1>1
    <2>2. Len(chain) \in untrusted /\ \A i \in untrusted : i \in Int /\ i <= Len(chain)
      BY <1>1, <2>1
    <2>3. Max(untrusted) = Len(chain)
      <3> HIDE DEF untrusted, hops
      <3>1. \A m \in untrusted : (\A i \in untrusted : m >= i) => m = Len(chain)
        BY <2>1, <2>2
      <3>2. \A i \in untrusted : Len(chain) >= i
        BY <2>1, <2>2
      <3>3. QED  BY <2>2, <3>1, <3>2 DEF Max
    <2>4. ClientIp(Proxy, chain) = hops[Max(untrusted)]
      BY <1>1, <1>3, <2>2 DEF ClientIp
    <2>5. ClientIp(Proxy, chain) = Client
      BY <2>1, <2>3, <2>4
    <2>6. Len(chain) <= MaxHops
      BY <1>1, <1>3, LimitsAssumption
    <2>7. QED  BY <1>1, <2>5, <2>6 DEF ClientRows
  <1>4. QED  BY <1>2, <1>3

\* One check counts in its row.
LEMMA RowsCount ==
  ASSUME LimitsTypeOK, RowsInv, NEW k \in Keys, k \notin Hosts \ ClientRows,
         NEW n \in Ticks, n <= tick, tick <= n + MaxWait,
         counters' = [counters EXCEPT ![k] = Counted(counters[k], n)], UNCHANGED tick,
         \/ UNCHANGED admitted
         \/ /\ Counted(counters[k], n).attempts <= LimitOf(k)
            /\ admitted' = [admitted EXCEPT ![k][tick] = @ + 1]
  PROVE  RowsInv' /\ counters' \in [Keys -> Row] /\ admitted' \in [Keys -> [Ticks -> Nat]]
  <1> DEFINE row == counters[k]
             h == admitted[k]
             g == admitted'[k]
             after == Counted(row, n)
  <1>1. /\ tick \in Ticks /\ counters \in [Keys -> Row] /\ admitted \in [Keys -> Counts]
        /\ LimitOf(k) \in 1 .. IpLimit
    BY LimitNumbers DEF LimitsTypeOK, Counts
  <1>2. RowsAre(counters, admitted, tick)
    BY RowsInvIs
  <1>3. GoodRow(row) /\ h \in Counts /\ RowKeeps(row, h, tick, LimitOf(k)) /\ \A t \in Ticks : t > tick => h[t] = 0
    BY <1>1, <1>2 DEF RowsAre, GoodRow
  <1>4. g = h \/ (after.attempts <= LimitOf(k) /\ g = [h EXCEPT ![tick] = @ + 1])
    BY <1>1
  <1>5. \A x \in Keys \ {k} : counters'[x] = counters[x] /\ admitted'[x] = admitted[x]
    BY <1>1
  <1>6. counters'[k] = after /\ DOMAIN counters' = Keys /\ DOMAIN admitted' = Keys
    BY <1>1
  <1>7. PICK rowOf, hOf, gOf, limit, now :
          rowOf = row /\ hOf = h /\ gOf = g /\ limit = LimitOf(k) /\ now = tick
    OBVIOUS
  <1> HIDE DEF row, h, g, after
  <1>8. /\ GoodRow(Counted(rowOf, n)) /\ Counted(rowOf, n) # NoRow
        /\ RowKeeps(Counted(rowOf, n), gOf, now, limit)
        /\ gOf \in Counts /\ \A t \in Ticks : t > now => gOf[t] = 0
    <2>1. /\ GoodRow(rowOf) /\ hOf \in Counts /\ now \in Ticks /\ limit \in 1 .. IpLimit
          /\ RowKeeps(rowOf, hOf, now, limit) /\ (\A t \in Ticks : t > now => hOf[t] = 0)
          /\ n <= now /\ now <= n + MaxWait
      BY <1>1, <1>3, <1>7
    <2>2. gOf = hOf \/ (Counted(rowOf, n).attempts <= limit /\ gOf = [hOf EXCEPT ![now] = @ + 1])
      BY <1>4, <1>7 DEF after
    <2>3. QED  BY <2>1, <2>2, RowCounts
  <1>9. /\ GoodRow(after) /\ RowKeeps(after, g, tick, LimitOf(k))
        /\ g \in Counts /\ \A t \in Ticks : t > tick => g[t] = 0
    BY <1>7, <1>8 DEF after
  <1>10. counters' \in [Keys -> Row]
    BY <1>1, <1>6, <1>9 DEF GoodRow
  <1>11. admitted' \in [Keys -> Counts]
    BY <1>1, <1>5, <1>6, <1>9 DEF g
  <1>12. RowsAre(counters', admitted', tick)
    <2>1. ASSUME NEW x \in Keys
          PROVE  /\ counters'[x] = NoRow \/ (counters'[x].start >= 0 /\ counters'[x].attempts >= 1)
                 /\ RowKeeps(counters'[x], admitted'[x], tick, LimitOf(x))
                 /\ \A t \in Ticks : t > tick \/ x \in Hosts \ ClientRows => admitted'[x][t] = 0
      <3>1. CASE x = k
        BY <1>6, <1>9, <3>1 DEF g, GoodRow
      <3>2. CASE x # k
        BY <1>2, <1>5, <3>2 DEF RowsAre
      <3>3. QED  BY <3>1, <3>2
    <2>2. QED  BY <2>1 DEF RowsAre
  <1>13. RowsInv'
    BY <1>12, RowsInvIs
  <1>14. QED  BY <1>10, <1>11, <1>13 DEF Counts

Checks == [at: {"address", "account"}, key: Keys, now: Ticks, id: Identifiers, ok: BOOLEAN]

\* One request starts a statement, or waits no longer.
LEMMA OneChecks ==
  ASSUME LimitsTypeOK, WaitsInv, NEW r \in Requests, NEW x,
         \/ x = NotAsking
         \/ /\ x \in Checks /\ x.now = tick
            /\ IF x.at = "address" THEN x.key \in ClientRows ELSE x.key = x.id,
         checking' = [checking EXCEPT ![r] = x], UNCHANGED <<tick, entering>>
  PROVE  WaitsInv' /\ checking' \in [Requests -> {NotAsking} \cup Checks]
  <1>1. checking \in [Requests -> {NotAsking} \cup Checks] /\ tick \in Nat /\ MaxWait \in Nat
    BY LimitNumbers DEF LimitsTypeOK, Checks, Ticks
  <1>2. /\ \A q \in Requests \ {r} : checking'[q] = checking[q]
        /\ checking'[r] = x
    BY <1>1
  <1>3. ASSUME NEW q \in Requests
        PROVE  /\ checking'[q] = NotAsking \/ (checking'[q].now <= tick /\ tick <= checking'[q].now + MaxWait)
               /\ entering[q] = NotAsking \/ (entering[q].now <= tick /\ tick <= entering[q].now + MaxWait)
               /\ checking'[q] # NotAsking =>
                    IF checking'[q].at = "address" THEN checking'[q].key \in ClientRows
                                                   ELSE checking'[q].key = checking'[q].id
    <2>1. /\ Waits(checking[q]) /\ Waits(entering[q])
          /\ checking[q] # NotAsking =>
               IF checking[q].at = "address" THEN checking[q].key \in ClientRows
                                             ELSE checking[q].key = checking[q].id
      BY DEF WaitsInv
    <2>2. CASE q = r
      BY <1>1, <1>2, <2>1, <2>2 DEF Waits
    <2>3. CASE q # r
      BY <1>2, <2>1, <2>3 DEF Waits
    <2>4. QED  BY <2>2, <2>3
  <1>4. WaitsInv'
    BY <1>3 DEF WaitsInv, Waits, NotAsking, ClientRows
  <1>5. checking' \in [Requests -> {NotAsking} \cup Checks]
    BY <1>1
  <1>6. QED  BY <1>4, <1>5

\* What is known of a request that waits for its row.
LEMMA CheckIs ==
  ASSUME LimitsTypeOK, WaitsInv, NEW r \in Requests, checking[r].at \in {"address", "account"}
  PROVE  /\ checking[r] \in Checks
         /\ checking[r].now \in Ticks /\ checking[r].now <= tick /\ tick <= checking[r].now + MaxWait
         /\ checking[r].key \in Keys /\ checking[r].key \notin Hosts \ ClientRows
         /\ checking[r].at = "address" => LimitOf(checking[r].key) = IpLimit
         /\ checking[r].at = "account" => LimitOf(checking[r].key) = AccountLimit
         /\ checking[r].id \in Identifiers /\ checking[r].id \in Keys
  <1>1. checking[r] # NotAsking
    BY DEF NotAsking
  <1>2. checking[r] \in Checks
    BY <1>1 DEF LimitsTypeOK, Checks
  <1>3. Waits(checking[r]) /\ IF checking[r].at = "address" THEN checking[r].key \in ClientRows
                                                           ELSE checking[r].key = checking[r].id
    BY <1>1 DEF WaitsInv
  <1>4. ClientRows \subseteq Hosts /\ Hosts \cap Identifiers = {}
    BY LimitsAssumption DEF ClientRows
  <1>5. checking[r].key \in Keys /\ checking[r].now \in Ticks /\ checking[r].id \in Identifiers
    BY <1>2 DEF Checks
  <1>6. CASE checking[r].at = "address"
    BY <1>1, <1>2, <1>3, <1>4, <1>5, <1>6 DEF Waits, LimitOf, Keys
  <1>7. CASE checking[r].at = "account"
    BY <1>1, <1>2, <1>3, <1>4, <1>5, <1>7 DEF Waits, LimitOf, Keys
  <1>8. QED  BY <1>6, <1>7

\* What the steps of the limiter in PostgreSQL have to keep.
LEMMA DatabaseKeeps ==
  ASSUME LimitsInv, UNCHANGED <<tick, memoryVars, body>>, RowsInv', WaitsInv',
         counters' \in [Keys -> Row], checking' \in [Requests -> {NotAsking} \cup Checks],
         admitted' \in [Keys -> [Ticks -> Nat]]
  PROVE  LimitsInv'
  <1>1. TimesInv' /\ BodyInv'
    BY TimesStay, BodyStays DEF LimitsInv, memoryVars
  <1>2. LimitsTypeOK'
    BY TypesStay DEF LimitsInv, LimitsTypeOK, Checks
  <1>3. QED  BY <1>1, <1>2 DEF LimitsInv

\* A check of a row, for the address or for the account.
LEMMA CheckSteps ==
  ASSUME LimitsInv, NEW r \in Requests, CheckAddress(r) \/ CheckAccount(r)
  PROVE  LimitsInv'
  <1> DEFINE k == checking[r].key
             n == checking[r].now
             row == Counted(counters[k], n)
  <1>1. checking[r].at \in {"address", "account"}
    BY DEF CheckAddress, CheckAccount
  <1>2. LimitsTypeOK /\ WaitsInv /\ RowsInv
    BY DEF LimitsInv
  <1>3. /\ k \in Keys /\ k \notin Hosts \ ClientRows /\ n \in Ticks /\ n <= tick /\ tick <= n + MaxWait
        /\ counters' = [counters EXCEPT ![k] = row] /\ UNCHANGED <<tick, memoryVars, body>>
    BY <1>1, <1>2, CheckIs DEF CheckAddress, CheckAccount
  <1>4. /\ UNCHANGED entering
    BY <1>3 DEF memoryVars
  <1>5. UNCHANGED admitted \/ (row.attempts <= LimitOf(k) /\ admitted' = [admitted EXCEPT ![k][tick] = @ + 1])
    <2>1. CASE CheckAddress(r)
      <3>1. LimitOf(k) = IpLimit
        BY <1>1, <1>2, <2>1, CheckIs DEF CheckAddress
      <3>2. QED  BY <2>1, <3>1 DEF CheckAddress
    <2>2. CASE CheckAccount(r)
      <3>1. LimitOf(k) = AccountLimit
        BY <1>1, <1>2, <2>2, CheckIs DEF CheckAccount
      <3>2. QED  BY <2>2, <3>1 DEF CheckAccount
    <2>3. QED  BY <2>1, <2>2
  <1>6. RowsInv' /\ counters' \in [Keys -> Row] /\ admitted' \in [Keys -> [Ticks -> Nat]]
    <2>1. PICK key, time : key = k /\ time = n
      OBVIOUS
    <2> HIDE DEF k, n
    <2>2. QED  BY <1>2, <1>3, <1>5, <2>1, RowsCount DEF row
  <1>7. WaitsInv' /\ checking' \in [Requests -> {NotAsking} \cup Checks]
    <2>1. CASE CheckAddress(r)
      <3> DEFINE x == [at |-> "account", key |-> checking[r].id, now |-> tick, id |-> checking[r].id,
                       ok |-> row.attempts <= IpLimit]
      <3>1. checking' = [checking EXCEPT ![r] = x]
        BY <2>1 DEF CheckAddress
      <3>2. checking[r].id \in Identifiers /\ checking[r].id \in Keys /\ tick \in Ticks
        BY <1>1, <1>2, CheckIs DEF LimitsTypeOK
      <3>3. x \in Checks /\ x.now = tick /\ x.at = "account" /\ x.key = x.id
        BY <3>2 DEF Checks
      <3> HIDE DEF x
      <3>4. QED  BY <1>2, <1>3, <1>4, <3>1, <3>3, OneChecks
    <2>2. CASE CheckAccount(r)
      <3>1. checking' = [checking EXCEPT ![r] = NotAsking]
        BY <2>2 DEF CheckAccount
      <3>2. QED  BY <1>2, <1>3, <1>4, <3>1, OneChecks
    <2>3. QED  BY <2>1, <2>2
  <1>8. QED  BY <1>3, <1>6, <1>7, DatabaseKeeps

\* A request that starts or ends, and the deletion of old rows.
LEMMA OtherDatabaseSteps ==
  ASSUME LimitsInv,
         \/ \E r \in Requests : Abandon(r) \/ \E chain \in Chains, id \in Identifiers : Arrive(r, chain, id)
         \/ Maintain
  PROVE  LimitsInv'
  <1>1. LimitsTypeOK /\ WaitsInv /\ RowsInv
    BY DEF LimitsInv
  <1>2. /\ counters \in [Keys -> Row] /\ checking \in [Requests -> {NotAsking} \cup Checks]
        /\ admitted \in [Keys -> [Ticks -> Nat]] /\ tick \in Ticks
    BY <1>1 DEF LimitsTypeOK, Checks
  <1>3. ASSUME NEW r \in Requests, NEW chain \in Chains, NEW id \in Identifiers, Arrive(r, chain, id)
        PROVE  LimitsInv'
    <2> DEFINE x == [at |-> "address", key |-> ClientIp(Proxy, chain), now |-> tick, id |-> id, ok |-> TRUE]
    <2>1. checking' = [checking EXCEPT ![r] = x] /\ UNCHANGED <<counters, tick, admitted, memoryVars, body>>
      BY <1>3 DEF Arrive
    <2>2. x \in Checks /\ x.now = tick /\ x.at = "address" /\ x.key \in ClientRows
      BY <1>2, ClientsAreFound DEF Checks, Keys
    <2> HIDE DEF x
    <2>3. UNCHANGED entering
      BY <2>1 DEF memoryVars
    <2>4. WaitsInv' /\ checking' \in [Requests -> {NotAsking} \cup Checks]
      BY <1>1, <2>1, <2>2, <2>3, OneChecks
    <2>5. RowsInv'
      BY <1>1, <2>1, RowsStay
    <2>6. QED  BY <1>2, <2>1, <2>4, <2>5, DatabaseKeeps
  <1>4. ASSUME NEW r \in Requests, Abandon(r) PROVE LimitsInv'
    <2>1. checking' = [checking EXCEPT ![r] = NotAsking] /\ UNCHANGED <<counters, tick, admitted, memoryVars, body>>
      BY <1>4 DEF Abandon
    <2>2. UNCHANGED entering
      BY <2>1 DEF memoryVars
    <2>3. WaitsInv' /\ checking' \in [Requests -> {NotAsking} \cup Checks]
      BY <1>1, <2>1, <2>2, OneChecks
    <2>4. RowsInv'
      BY <1>1, <2>1, RowsStay
    <2>5. QED  BY <1>2, <2>1, <2>3, <2>4, DatabaseKeeps
  <1>5. CASE Maintain
    <2>1. PICK gone \in SUBSET {k \in Keys : counters[k].start < tick - Retention} :
            counters' = [k \in Keys |-> IF k \in gone THEN NoRow ELSE counters[k]]
      BY <1>5 DEF Maintain
    <2>2. UNCHANGED <<checking, tick, admitted, memoryVars, body>>
      BY <1>5 DEF Maintain
    <2>3. RowsAre(counters, admitted, tick)
      BY <1>1, RowsInvIs
    <2>4. RowsAre(counters', admitted, tick)
      <3>1. ASSUME NEW k \in gone PROVE RowKeeps(NoRow, admitted[k], tick, LimitOf(k)) /\ k \in Keys
        <4>1. /\ k \in Keys /\ counters[k].start < tick - Retention /\ GoodRow(counters[k])
              /\ admitted[k] \in Counts /\ LimitOf(k) \in 1 .. IpLimit
              /\ RowKeeps(counters[k], admitted[k], tick, LimitOf(k))
          BY <1>2, <2>1, <2>3, LimitNumbers DEF RowsAre, GoodRow, Counts
        <4>2. PICK row, h, limit, now : row = counters[k] /\ h = admitted[k] /\ limit = LimitOf(k) /\ now = tick
          OBVIOUS
        <4>3. RowKeeps(NoRow, h, now, limit)
          <5>1. GoodRow(row) /\ h \in Counts /\ limit \in 1 .. IpLimit /\ RowKeeps(row, h, now, limit)
                /\ now \in Ticks /\ row.start < now - Retention
            BY <1>2, <4>1, <4>2
          <5>2. QED  BY <5>1, RowForgotten
        <4>4. QED  BY <4>1, <4>2, <4>3
      <3>2. ASSUME NEW k \in Keys
            PROVE  /\ counters'[k] = NoRow \/ (counters'[k].start >= 0 /\ counters'[k].attempts >= 1)
                   /\ RowKeeps(counters'[k], admitted[k], tick, LimitOf(k))
        BY <2>1, <2>3, <3>1 DEF RowsAre
      <3>3. QED  BY <2>3, <3>2 DEF RowsAre
    <2>5. RowsInv'
      BY <2>2, <2>4, RowsInvIs
    <2>6. counters' \in [Keys -> Row]
      <3>1. NoRow \in Row
        BY LimitNumbers DEF NoRow, Row
      <3>2. QED  BY <1>2, <2>1, <3>1
    <2>7. UNCHANGED entering
      BY <2>2 DEF memoryVars
    <2>8. WaitsInv'
      BY <1>1, <2>2, <2>7, WaitsStay
    <2>9. QED  BY <1>2, <2>2, <2>5, <2>6, <2>8, DatabaseKeeps
  <1>6. QED  BY <1>3, <1>4, <1>5

\* The clock goes on.
LEMMA TickSteps ==
  ASSUME LimitsInv, LimitsTick
  PROVE  LimitsInv'
  <1>1. LimitsTypeOK /\ WaitsInv /\ RowsAre(counters, admitted, tick) /\ TimesAre(attempts, entered, tick) /\ BodyInv
    BY RowsInvIs, TimesInvIs DEF LimitsInv
  <1>2. /\ counters \in [Keys -> Row] /\ checking \in [Requests -> {NotAsking} \cup Checks]
        /\ admitted \in [Keys -> Counts] /\ entered \in [MemoryKeys -> Counts] /\ tick \in Ticks
        /\ entering \in [Requests -> {NotAsking} \cup [at: {"lock"}, key: MemoryKeys, now: Ticks]]
        /\ \A k \in DOMAIN attempts : attempts[k] # << >> /\ attempts[k] \in Seq(Ticks)
    BY <1>1 DEF LimitsTypeOK, Checks, Counts
  <1>3. /\ tick' = tick + 1 /\ tick' \in Ticks /\ UNCHANGED <<counters, checking, attempts, entering, body>>
        /\ tick \in Nat
    BY <1>2, LimitNumbers DEF LimitsTick, Ticks
  <1>4. ASSUME NEW k \in Keys
        PROVE  /\ admitted'[k] \in Counts
               /\ \A t \in Ticks : admitted'[k][t] = IF t < tick + 2 - Reach THEN 0 ELSE admitted[k][t]
    <2>1. admitted'[k] = [t \in Ticks |-> IF t < tick + 2 - Reach THEN 0 ELSE admitted[k][t]]
      BY DEF LimitsTick
    <2>2. \A t \in Ticks : admitted[k][t] \in Nat
      BY <1>2 DEF Counts
    <2>3. QED  BY <2>1, <2>2 DEF Counts
  <1>5. ASSUME NEW k \in MemoryKeys
        PROVE  /\ entered'[k] \in Counts
               /\ \A t \in Ticks : entered'[k][t] = IF t < tick - (Window + MaxWait) THEN 0 ELSE entered[k][t]
    <2>1. entered'[k] = [t \in Ticks |-> IF t < tick - (Window + MaxWait) THEN 0 ELSE entered[k][t]]
      BY DEF LimitsTick
    <2>2. \A t \in Ticks : entered[k][t] \in Nat
      BY <1>2 DEF Counts
    <2>3. QED  BY <2>1, <2>2 DEF Counts
  <1>6. RowsInv'
    <2>1. ASSUME NEW k \in Keys
          PROVE  /\ counters[k] = NoRow \/ (counters[k].start >= 0 /\ counters[k].attempts >= 1)
                 /\ RowKeeps(counters[k], admitted'[k], tick', LimitOf(k))
                 /\ \A t \in Ticks : t > tick' \/ k \in Hosts \ ClientRows => admitted'[k][t] = 0
      <3>1. /\ counters[k] = NoRow \/ (counters[k].start >= 0 /\ counters[k].attempts >= 1)
            /\ RowKeeps(counters[k], admitted[k], tick, LimitOf(k))
            /\ \A t \in Ticks : t > tick \/ k \in Hosts \ ClientRows => admitted[k][t] = 0
        BY <1>1 DEF RowsAre
      <3>2. GoodRow(counters[k]) /\ admitted[k] \in Counts /\ LimitOf(k) \in 1 .. IpLimit
        BY <1>2, <3>1, LimitNumbers DEF GoodRow
      <3>3. \A t \in Ticks : admitted'[k][t] <= admitted[k][t] /\ (admitted[k][t] = 0 => admitted'[k][t] = 0)
        <4>1. \A t \in Ticks : admitted[k][t] \in Nat
          BY <3>2 DEF Counts
        <4>2. QED  BY <1>4, <4>1
      <3>4. RowKeeps(counters[k], admitted'[k], tick', LimitOf(k))
        <4>1. PICK row, h, g, limit, now, next :
                /\ row = counters[k] /\ h = admitted[k] /\ g = admitted'[k] /\ limit = LimitOf(k)
                /\ now = tick /\ next = tick'
          OBVIOUS
        <4>2. /\ GoodRow(row) /\ h \in Counts /\ g \in Counts /\ now \in Ticks /\ limit \in 1 .. IpLimit
              /\ RowKeeps(row, h, now, limit) /\ next \in Ticks /\ next = now + 1
              /\ \A t \in Ticks : g[t] <= h[t]
          BY <1>2, <1>3, <1>4, <3>1, <3>2, <3>3, <4>1
        <4>3. RowKeeps(row, g, next, limit)
          BY <4>2, RowAges
        <4>4. QED  BY <4>1, <4>3
      <3>5. \A t \in Ticks : t > tick' => t > tick
        BY <1>3 DEF Ticks
      <3>6. QED  BY <3>1, <3>3, <3>4, <3>5
    <2>2. RowsAre(counters', admitted', tick')
      BY <1>3, <2>1 DEF RowsAre
    <2>3. QED  BY <2>2, RowsInvIs
  <1>7. TimesInv'
    <2>1. ASSUME NEW k \in MemoryKeys
          PROVE  /\ TimesKeep(TimesOf(attempts, k), entered'[k], tick')
                 /\ \A t \in Ticks : t > tick' => entered'[k][t] = 0
      <3>1. TimesKeep(TimesOf(attempts, k), entered[k], tick) /\ \A t \in Ticks : t > tick => entered[k][t] = 0
        BY <1>1 DEF TimesAre
      <3>2. TimesOf(attempts, k) \in Seq(Ticks)
        BY <1>2 DEF TimesOf
      <3>3. TimesKeep(TimesOf(attempts, k), entered'[k], tick')
        <4>1. PICK times, h, g, now, next :
                times = TimesOf(attempts, k) /\ h = entered[k] /\ g = entered'[k] /\ now = tick /\ next = tick'
          OBVIOUS
        <4>2. /\ times \in Seq(Ticks) /\ h \in Counts /\ g \in Counts /\ now \in Ticks
              /\ TimesKeep(times, h, now) /\ next \in Ticks /\ next = now + 1
              /\ \A t \in Ticks : t > now => h[t] = 0
              /\ \A t \in Ticks : g[t] = IF t < now - (Window + MaxWait) THEN 0 ELSE h[t]
          BY <1>2, <1>3, <1>5, <3>1, <3>2, <4>1
        <4>3. TimesKeep(times, g, next)
          BY <4>2, TimesAge
        <4>4. QED  BY <4>1, <4>3
      <3>4. \A t \in Ticks : t > tick' => t > tick
        BY <1>3 DEF Ticks
      <3>5. QED  BY <1>5, <3>1, <3>3, <3>4
    <2>2. TimesAre(attempts', entered', tick')
      BY <1>3, <2>1 DEF TimesAre
    <2>3. QED  BY <2>2, TimesInvIs
  <1>8. WaitsInv'
    <2>1. ASSUME NEW r \in Requests
          PROVE  /\ checking[r] = NotAsking \/ (checking[r].now <= tick' /\ tick' <= checking[r].now + MaxWait)
                 /\ entering[r] = NotAsking \/ (entering[r].now <= tick' /\ tick' <= entering[r].now + MaxWait)
      <3>1. Waits(checking[r]) /\ Waits(entering[r])
        BY <1>1 DEF WaitsInv
      <3>2. /\ checking[r] # NotAsking => tick < checking[r].now + MaxWait /\ checking[r].now \in Int
            /\ entering[r] # NotAsking => tick < entering[r].now + MaxWait /\ entering[r].now \in Int
        BY <1>2 DEF LimitsTick, Checks, Ticks
      <3>3. QED  BY <1>3, <3>1, <3>2, LimitNumbers DEF Waits
    <2>2. QED  BY <1>1, <1>3, <2>1 DEF WaitsInv, Waits, NotAsking, ClientRows
  <1>9. BodyInv'
    BY <1>1, <1>3, BodyStays
  <1>10. LimitsTypeOK'
    <2>1. admitted' \in [Keys -> [Ticks -> Nat]]
      <3>1. admitted' = [k \in Keys |-> admitted'[k]]
        BY DEF LimitsTick
      <3>2. QED  BY <1>4, <3>1 DEF Counts
    <2>2. entered' \in [MemoryKeys -> [Ticks -> Nat]]
      <3>1. entered' = [k \in MemoryKeys |-> entered'[k]]
        BY DEF LimitsTick
      <3>2. QED  BY <1>5, <3>1 DEF Counts
    <2>3. Cardinality(DOMAIN attempts') <= MaxKeys /\ DOMAIN attempts' \subseteq MemoryKeys
      BY <1>1, <1>3 DEF LimitsTypeOK
    <2>4. QED  BY <1>1, <1>2, <1>3, <2>1, <2>2, <2>3 DEF LimitsTypeOK, Checks
  <1>11. QED  BY <1>6, <1>7, <1>8, <1>9, <1>10 DEF LimitsInv

TableOK(table) ==
  /\ DOMAIN table \subseteq MemoryKeys /\ Cardinality(DOMAIN table) <= MaxKeys
  /\ \A k \in DOMAIN table : table[k] # << >> /\ table[k] \in Seq(Ticks)

\* What the table remembers of a key is a sequence of instants.
LEMMA TimesOfType ==
  ASSUME NEW table, TableOK(table), NEW k
  PROVE  TimesOf(table, k) \in Seq(Ticks)
  BY DEF TimesOf, TableOK

\* Pruning makes room and forgets nothing that was let in lately.
LEMMA PruneKeeps ==
  ASSUME NEW table, TableOK(table), NEW history \in [MemoryKeys -> Counts], NEW now \in Ticks,
         TimesAre(table, history, now), NEW n \in Ticks, n <= now, now <= n + MaxWait
  PROVE  TableOK(Prune(table, n)) /\ TimesAre(Prune(table, n), history, now)
  <1> DEFINE pruned == Prune(table, n)
  <1>1. /\ DOMAIN pruned = {x \in DOMAIN table : table[x][Len(table[x])] > n - Window}
        /\ \A x \in DOMAIN pruned : pruned[x] = table[x]
    BY DEF Prune
  <1>2. IsFiniteSet(DOMAIN table)
    BY LimitsAssumption, FS_Subset DEF TableOK
  <1>3. Cardinality(DOMAIN pruned) <= MaxKeys
    <2>1. DOMAIN pruned \subseteq DOMAIN table
      BY <1>1
    <2>2. /\ Cardinality(DOMAIN pruned) <= Cardinality(DOMAIN table) /\ IsFiniteSet(DOMAIN pruned)
      BY <1>2, <2>1, FS_Subset
    <2>3. Cardinality(DOMAIN pruned) \in Nat /\ Cardinality(DOMAIN table) \in Nat
      BY <1>2, <2>2, FS_CardinalityType
    <2>4. QED  BY <2>2, <2>3, LimitNumbers DEF TableOK
  <1> HIDE DEF pruned
  <1>4. TableOK(pruned)
    BY <1>1, <1>3 DEF TableOK
  <1>5. ASSUME NEW x \in MemoryKeys PROVE TimesKeep(TimesOf(pruned, x), history[x], now)
    <2>1. TimesKeep(TimesOf(table, x), history[x], now) /\ history[x] \in Counts
      BY DEF TimesAre
    <2>2. CASE x \in DOMAIN pruned \/ x \notin DOMAIN table
      BY <1>1, <2>1, <2>2 DEF TimesOf
    <2>3. CASE x \notin DOMAIN pruned /\ x \in DOMAIN table
      <3>1. PICK times, h : times = table[x] /\ h = history[x]
        OBVIOUS
      <3>2. times \in Seq(Ticks) /\ times # << >> /\ ~(times[Len(times)] > n - Window)
        BY <1>1, <2>3, <3>1 DEF TableOK
      <3>3. TimesKeep(times, h, now) /\ h \in Counts
        BY <2>1, <2>3, <3>1 DEF TimesOf
      <3>4. TimesKeep(<< >>, h, now)
        BY <3>2, <3>3, TimesPruned
      <3>5. QED  BY <2>3, <3>1, <3>4 DEF TimesOf
    <2>4. QED  BY <2>2, <2>3
  <1>6. TimesAre(pruned, history, now)
    BY <1>5 DEF TimesAre
  <1>7. QED  BY <1>4, <1>6 DEF pruned

\* What a check for k does to a table that has room for it, and to the history.
Puts(table, k, n, history, now, live, times, after, later) ==
  /\ live = Live(table, k, n)
  /\ times = IF Len(live) < KeyLimit THEN Append(live, n) ELSE live
  /\ after = [x \in DOMAIN table \cup {k} |-> IF x = k THEN times ELSE table[x]]
  /\ later = IF Len(live) < KeyLimit THEN [history EXCEPT ![k][now] = @ + 1] ELSE history

\* A check that finds room for its key.
LEMMA TimesPut ==
  ASSUME NEW table, TableOK(table), NEW history \in [MemoryKeys -> Counts], NEW now \in Ticks,
         TimesAre(table, history, now), NEW n \in Ticks, n <= now, now <= n + MaxWait,
         NEW k \in MemoryKeys, ~AtCapacity(table, k),
         NEW live, NEW times, NEW after, NEW later, Puts(table, k, n, history, now, live, times, after, later)
  PROVE  TableOK(after) /\ TimesAre(after, later, now) /\ later \in [MemoryKeys -> Counts]
  <1>0. /\ live = Live(table, k, n)
        /\ times = IF Len(live) < KeyLimit THEN Append(live, n) ELSE live
        /\ after = [x \in DOMAIN table \cup {k} |-> IF x = k THEN times ELSE table[x]]
        /\ later = IF Len(live) < KeyLimit THEN [history EXCEPT ![k][now] = @ + 1] ELSE history
    BY DEF Puts
  <1>1. PICK h, old : h = history[k] /\ old = TimesOf(table, k)
    OBVIOUS
  <1>2. h \in Counts /\ old \in Seq(Ticks) /\ TimesKeep(old, h, now) /\ n \in Int /\ \A t \in Ticks : t > now => h[t] = 0
    BY <1>1, TimesOfType DEF TimesAre, Ticks
  <1>3. PICK d \in Nat : /\ Dropped(old, d, live)
                         /\ \A i \in DOMAIN old : old[i] > n - Window => i > d
    BY <1>0, <1>1, <1>2, LiveDrops
  <1>4. TimesKeep(live, h, now) /\ live \in Seq(Ticks)
    BY <1>2, <1>3, TimesCut DEF Dropped
  <1>5. PICK g : g = later[k]
    OBVIOUS
  <1>6. /\ TimesKeep(times, g, now) /\ times \in Seq(Ticks) /\ times # << >> /\ g \in Counts
        /\ \A t \in Ticks : t > now => g[t] = 0
    <2>1. CASE Len(live) < KeyLimit
      <3>1. g = [h EXCEPT ![now] = @ + 1] /\ times = Append(live, n)
        BY <1>0, <1>1, <1>5, <2>1
      <3>2. TimesKeep(times, g, now)
        BY <1>2, <1>4, <2>1, <3>1, TimesAdd
      <3>3. times \in Seq(Ticks) /\ times # << >>
        BY <1>4, <3>1
      <3>4. g \in Counts
        BY <1>2, <3>1, OneMoreSince, 0 \in Int
      <3>5. \A t \in Ticks : t > now => t # now /\ g[t] = h[t]
        BY <1>2, <3>1 DEF Counts, Ticks
      <3>6. QED  BY <1>2, <3>2, <3>3, <3>4, <3>5
    <2>2. CASE ~(Len(live) < KeyLimit)
      <3>1. g = h /\ times = live
        BY <1>0, <1>1, <1>5, <2>2
      <3>2. times # << >>
        BY <1>4, <2>2, <3>1, LimitNumbers
      <3>3. QED  BY <1>2, <1>4, <3>1, <3>2
    <2>3. QED  BY <2>1, <2>2
  <1>7. /\ DOMAIN later = MemoryKeys
        /\ \A x \in MemoryKeys \ {k} : later[x] = history[x]
    BY <1>0 DEF Counts
  <1>8. later \in [MemoryKeys -> Counts]
    <2>1. \A x \in MemoryKeys : later[x] \in Counts
      BY <1>5, <1>6, <1>7
    <2>2. later = [x \in MemoryKeys |-> later[x]]
      BY <1>0
    <2>3. QED  BY <2>1, <2>2
  <1>9. DOMAIN after = DOMAIN table \cup {k} /\ after[k] = times
        /\ \A x \in DOMAIN table \ {k} : after[x] = table[x]
    BY <1>0
  <1>10. Cardinality(DOMAIN after) <= MaxKeys
    <2>1. CASE k \in DOMAIN table
      <3>1. DOMAIN after = DOMAIN table
        BY <1>9, <2>1
      <3>2. QED  BY <3>1 DEF TableOK
    <2>2. CASE k \notin DOMAIN table
      <3>1. IsFiniteSet(DOMAIN table)
        BY LimitsAssumption, FS_Subset DEF TableOK
      <3>2. Cardinality(DOMAIN table) \in Nat
        BY <3>1, FS_CardinalityType
      <3>3. Cardinality(DOMAIN table \cup {k}) = Cardinality(DOMAIN table) + 1
        BY <2>2, <3>1, FS_AddElement
      <3>4. ~(Cardinality(DOMAIN table) >= MaxKeys)
        BY <2>2 DEF AtCapacity
      <3>5. QED  BY <1>9, <3>2, <3>3, <3>4, LimitNumbers
    <2>3. QED  BY <2>1, <2>2
  <1>11. TableOK(after)
    <2>1. \A x \in DOMAIN after : after[x] # << >> /\ after[x] \in Seq(Ticks)
      BY <1>6, <1>9 DEF TableOK
    <2>2. DOMAIN after \subseteq MemoryKeys
      BY <1>9 DEF TableOK
    <2>3. QED  BY <1>10, <2>1, <2>2 DEF TableOK
  <1>12. TimesAre(after, later, now)
    <2>1. ASSUME NEW x \in MemoryKeys
          PROVE  /\ TimesKeep(TimesOf(after, x), later[x], now)
                 /\ \A t \in Ticks : t > now => later[x][t] = 0
      <3>1. CASE x = k
        BY <1>5, <1>6, <1>9, <3>1 DEF TimesOf
      <3>2. CASE x # k
        <4>1. TimesOf(after, x) = TimesOf(table, x)
          BY <1>9, <3>2 DEF TimesOf
        <4>2. later[x] = history[x]
          BY <1>7, <3>2
        <4>3. QED  BY <4>1, <4>2 DEF TimesAre
      <3>3. QED  BY <3>1, <3>2
    <2>2. QED  BY <2>1 DEF TimesAre
  <1>13. QED  BY <1>8, <1>11, <1>12

\* What the steps of the limiter in memory have to keep.
LEMMA MemoryKeeps ==
  ASSUME LimitsInv, UNCHANGED <<databaseVars, tick, body>>,
         TableOK(attempts'), TimesAre(attempts', entered', tick), entered' \in [MemoryKeys -> Counts],
         NEW r \in Requests, NEW x,
         x = NotAsking \/ (x \in [at: {"lock"}, key: MemoryKeys, now: Ticks] /\ x.now = tick),
         entering' = [entering EXCEPT ![r] = x]
  PROVE  LimitsInv'
  <1>1. LimitsTypeOK /\ WaitsInv /\ RowsInv /\ BodyInv
    BY DEF LimitsInv
  <1>2. UNCHANGED <<counters, checking, admitted, tick, body>>
    BY DEF databaseVars
  <1>3. RowsInv' /\ BodyInv'
    BY <1>1, <1>2, RowsStay, BodyStays
  <1>4. TimesInv'
    BY <1>2, TimesInvIs
  <1> DEFINE Entries == {NotAsking} \cup [at: {"lock"}, key: MemoryKeys, now: Ticks]
  <1>5. entering \in [Requests -> Entries] /\ x \in Entries
    BY <1>1 DEF LimitsTypeOK
  <1>6. /\ entering' \in [Requests -> Entries] /\ entering'[r] = x
        /\ \A q \in Requests \ {r} : entering'[q] = entering[q]
    <2> HIDE DEF Entries
    <2>1. QED  BY <1>5
  <1>7. WaitsInv'
    <2>1. tick \in Nat /\ MaxWait \in Nat
      BY <1>1, LimitNumbers DEF LimitsTypeOK, Ticks
    <2>2. \A q \in Requests :
            entering'[q] = NotAsking \/ (entering'[q].now <= tick /\ tick <= entering'[q].now + MaxWait)
      BY <1>1, <1>6, <2>1 DEF WaitsInv, Waits
    <2>3. QED  BY <1>1, <1>2, <2>2 DEF WaitsInv, Waits, NotAsking, ClientRows
  <1>8. LimitsTypeOK'
    <2>1. /\ DOMAIN attempts' \subseteq MemoryKeys /\ Cardinality(DOMAIN attempts') <= MaxKeys
          /\ \A k \in DOMAIN attempts' : attempts'[k] # << >> /\ attempts'[k] \in Seq(Ticks)
      BY DEF TableOK
    <2>2. entered' \in [MemoryKeys -> [Ticks -> Nat]]
      BY DEF Counts
    <2>3. entering' \in [Requests -> {NotAsking} \cup [at: {"lock"}, key: MemoryKeys, now: Ticks]]
      BY <1>6
    <2>4. body' \in [at: {"arriving", "reading", "refused", "gone", "replay", "replayed"},
                     size: 0 .. MaxBytes, sent: Nat, reads: 0 .. 1, whole: BOOLEAN]
      BY <1>1, <1>2, TypesStay
    <2>5. QED  BY <1>1, <1>2, <2>1, <2>2, <2>3, <2>4, TypesStay DEF LimitsTypeOK
  <1>9. QED  BY <1>3, <1>4, <1>7, <1>8 DEF LimitsInv

\* The steps of the limiter in memory: reading the clock, and the check under the lock.
LEMMA MemorySteps ==
  ASSUME LimitsInv, MemoryLimiterNext
  PROVE  LimitsInv'
  <1>1. /\ TableOK(attempts) /\ TimesAre(attempts, entered, tick) /\ entered \in [MemoryKeys -> Counts]
        /\ tick \in Ticks
        /\ entering \in [Requests -> {NotAsking} \cup [at: {"lock"}, key: MemoryKeys, now: Ticks]]
    BY TimesInvIs DEF LimitsInv, LimitsTypeOK, TableOK, Counts
  <1>2. ASSUME NEW r \in Requests, NEW k \in MemoryKeys, ReadClock(r, k) PROVE LimitsInv'
    <2> DEFINE x == [at |-> "lock", key |-> k, now |-> tick]
    <2>1. entering' = [entering EXCEPT ![r] = x] /\ UNCHANGED <<databaseVars, tick, attempts, entered, body>>
      BY <1>2 DEF ReadClock
    <2>2. x \in [at: {"lock"}, key: MemoryKeys, now: Ticks] /\ x.now = tick
      BY <1>1
    <2> HIDE DEF x
    <2>3. TableOK(attempts') /\ TimesAre(attempts', entered', tick) /\ entered' \in [MemoryKeys -> Counts]
      BY <1>1, <2>1
    <2>4. QED  BY <2>1, <2>2, <2>3, MemoryKeeps
  <1>3. ASSUME NEW r \in Requests, CheckInMemory(r) PROVE LimitsInv'
    <2>1. PICK k, n : k = entering[r].key /\ n = entering[r].now
      OBVIOUS
    <2>2. entering[r] # NotAsking
      BY <1>3 DEF CheckInMemory, NotAsking
    <2>3. k \in MemoryKeys /\ n \in Ticks
      BY <1>1, <2>1, <2>2
    <2>4. n <= tick /\ tick <= n + MaxWait
      BY <2>1, <2>2 DEF LimitsInv, WaitsInv, Waits
    <2>5. PICK table : table = MakeRoom(k, n)
      OBVIOUS
    <2>6. TableOK(table) /\ TimesAre(table, entered, tick)
      <3>1. table = attempts \/ table = Prune(attempts, n)
        BY <2>5 DEF MakeRoom
      <3>2. TableOK(Prune(attempts, n)) /\ TimesAre(Prune(attempts, n), entered, tick)
        <4>1. PICK here, history, now : here = attempts /\ history = entered /\ now = tick
          OBVIOUS
        <4>2. TableOK(Prune(here, n)) /\ TimesAre(Prune(here, n), history, now)
          BY <1>1, <2>3, <2>4, <4>1, PruneKeeps
        <4>3. QED  BY <4>1, <4>2
      <3>3. QED  BY <1>1, <3>1, <3>2
    <2>7. PICK live : live = Live(table, k, n)
      OBVIOUS
    <2>8. PICK times : times = IF Len(live) < KeyLimit THEN Append(live, n) ELSE live
      OBVIOUS
    <2>9. /\ entering' = [entering EXCEPT ![r] = NotAsking] /\ UNCHANGED <<databaseVars, tick, body>>
          /\ Saturated(k, n) => attempts' = table /\ UNCHANGED entered
          /\ ~Saturated(k, n) =>
               /\ attempts' = [x \in DOMAIN table \cup {k} |-> IF x = k THEN times ELSE table[x]]
               /\ entered' = IF Len(live) < KeyLimit THEN [entered EXCEPT ![k][tick] = @ + 1] ELSE entered
      BY <1>3, <2>1, <2>5, <2>7, <2>8 DEF CheckInMemory
    <2>10. TableOK(attempts') /\ TimesAre(attempts', entered', tick) /\ entered' \in [MemoryKeys -> Counts]
      <3>1. CASE Saturated(k, n)
        BY <1>1, <2>6, <2>9, <3>1
      <3>2. CASE ~Saturated(k, n)
        <4>1. ~AtCapacity(table, k)
          BY <2>5, <3>2 DEF Saturated
        <4>2. PICK history, now, after, later :
                history = entered /\ now = tick /\ after = attempts' /\ later = entered'
          OBVIOUS
        <4>3. /\ history \in [MemoryKeys -> Counts] /\ now \in Ticks /\ TimesAre(table, history, now)
              /\ n <= now /\ now <= n + MaxWait
              /\ after = [x \in DOMAIN table \cup {k} |-> IF x = k THEN times ELSE table[x]]
              /\ later = IF Len(live) < KeyLimit THEN [history EXCEPT ![k][now] = @ + 1] ELSE history
          BY <1>1, <2>4, <2>6, <2>9, <3>2, <4>2
        <4>4. Puts(table, k, n, history, now, live, times, after, later)
          BY <2>7, <2>8, <4>3 DEF Puts
        <4>5. TableOK(after) /\ TimesAre(after, later, now) /\ later \in [MemoryKeys -> Counts]
          BY <2>3, <2>6, <4>1, <4>3, <4>4, TimesPut
        <4>6. QED  BY <4>2, <4>5
      <3>3. QED  BY <3>1, <3>2
    <2>11. QED  BY <2>9, <2>10, MemoryKeeps
  <1>4. QED  BY <1>2, <1>3 DEF MemoryLimiterNext

-----------------------------------------------------------------------------
\* The invariant of the limiters holds in every state: rows, attempts in memory and
\* bodies are what LimitsInv says.
THEOREM LimitsInductive == LimitsSpec => []LimitsInv
  <1>1. LimitsInit => LimitsInv
    BY LimitsStarts
  <1>2. LimitsInv /\ [LimitsNext]_limitsVars => LimitsInv'
    <2> SUFFICES ASSUME LimitsInv, [LimitsNext]_limitsVars PROVE LimitsInv'
      OBVIOUS
    <2>1. CASE DatabaseLimiterNext
      BY <2>1, CheckSteps, OtherDatabaseSteps DEF DatabaseLimiterNext
    <2>2. CASE MemoryLimiterNext
      BY <2>2, MemorySteps
    <2>3. CASE LimitsTick
      BY <2>3, TickSteps
    <2>4. CASE BodyNext
      BY <2>4, BodySteps
    <2>5. CASE UNCHANGED limitsVars
      <3>1. UNCHANGED <<counters, checking, tick, admitted, memoryVars, attempts, entering, entered, body>>
        BY <2>5 DEF limitsVars, memoryVars
      <3>2. RowsInv' /\ TimesInv' /\ WaitsInv' /\ BodyInv'
        BY <3>1, RowsStay, TimesStay, WaitsStay, BodyStays DEF LimitsInv
      <3>3. LimitsTypeOK'
        BY <3>1, TypesStay DEF LimitsInv, LimitsTypeOK
      <3>4. QED  BY <3>2, <3>3 DEF LimitsInv
    <2>6. QED  BY <2>1, <2>2, <2>3, <2>4, <2>5 DEF LimitsNext
  <1>3. QED  BY <1>1, <1>2, PTL DEF LimitsSpec

\* DatabaseRateLimiter admits, in any window less the longest wait for a row, fewer
\* than two limits of one client's or identifier's requests.
THEOREM NeverTwiceTheLimit == LimitsSpec => []AtMostTwiceTheLimit
  <1>1. LimitsInv => AtMostTwiceTheLimit
    <2> SUFFICES ASSUME LimitsInv, NEW t \in Ticks
                 PROVE  /\ \A host \in Hosts :
                             Recently(admitted[host], t) <= IF host \in ClientRows THEN 2 * IpLimit - 1 ELSE 0
                        /\ \A id \in Identifiers : Recently(admitted[id], t) <= 2 * AccountLimit - 1
      BY DEF AtMostTwiceTheLimit
    <2>1. RowsAre(counters, admitted, tick) /\ admitted \in [Keys -> Counts] /\ t \in Int
      BY RowsInvIs DEF LimitsInv, LimitsTypeOK, Counts, Ticks
    <2>2. \A k \in Keys : Recently(admitted[k], t) <= 2 * LimitOf(k) - 1
      BY <2>1 DEF RowsAre, RowKeeps
    <2>3. ASSUME NEW host \in Hosts
          PROVE  Recently(admitted[host], t) <= IF host \in ClientRows THEN 2 * IpLimit - 1 ELSE 0
      <3>1. CASE host \in ClientRows
        BY <2>2, <3>1 DEF Keys, LimitOf
      <3>2. CASE host \notin ClientRows
        <4>1. host \in Keys /\ admitted[host] \in Counts /\ \A x \in Ticks : admitted[host][x] = 0
          BY <2>1, <3>2 DEF Keys, RowsAre
        <4>2. PICK h : h = admitted[host]
          OBVIOUS
        <4>3. Recently(h, t) = 0
          BY <2>1, <4>1, <4>2, NothingSince
        <4>4. QED  BY <3>2, <4>2, <4>3
      <3>3. QED  BY <3>1, <3>2
    <2>4. \A id \in Identifiers : id \in Keys /\ LimitOf(id) = AccountLimit
      BY LimitsAssumption DEF Keys, LimitOf
    <2>5. QED  BY <2>2, <2>3, <2>4
  <1>2. QED  BY <1>1, LimitsInductive, PTL

\* SlidingWindowRateLimiter lets no more than the limit through in any window, less
\* the longest wait for the lock; and a key it refuses for lack of room is one more
\* than it can hold of those really let in.
THEOREM WindowsSlide == LimitsSpec => []SlidingWindowHolds
  <1>1. LimitsInv => SlidingWindowHolds
    <2> SUFFICES ASSUME LimitsInv PROVE SlidingWindowHolds
      OBVIOUS
    <2>1. /\ TableOK(attempts) /\ TimesAre(attempts, entered, tick) /\ tick \in Nat
          /\ entering \in [Requests -> {NotAsking} \cup [at: {"lock"}, key: MemoryKeys, now: Ticks]]
      BY TimesInvIs DEF LimitsInv, LimitsTypeOK, TableOK, Ticks
    <2>2. \A k \in MemoryKeys, t \in Ticks : Recently(entered[k], t) <= KeyLimit
      BY <2>1 DEF TimesAre, TimesKeep
    <2>3. ASSUME NEW r \in Requests, entering[r] # NotAsking, Saturated(entering[r].key, entering[r].now)
          PROVE  Cardinality({k \in MemoryKeys \ {entering[r].key} :
                   \E t \in Ticks : t > entering[r].now - Window /\ entered[k][t] > 0}) >= MaxKeys
      <3>1. PICK key, n : key = entering[r].key /\ n = entering[r].now
        OBVIOUS
      <3>2. key \in MemoryKeys /\ n \in Ticks /\ n \in Int
        BY <2>1, <2>3, <3>1 DEF Ticks
      <3>3. n <= tick /\ tick <= n + MaxWait
        BY <2>3, <3>1 DEF LimitsInv, WaitsInv, Waits
      <3> DEFINE room == Prune(attempts, n)
                 recent == {k \in MemoryKeys \ {key} : \E t \in Ticks : t > n - Window /\ entered[k][t] > 0}
      <3>4. AtCapacity(room, key)
        <4>1. AtCapacity(MakeRoom(key, n), key)
          BY <2>3, <3>1 DEF Saturated
        <4>2. AtCapacity(attempts, key)
          BY <4>1 DEF MakeRoom
        <4>3. MakeRoom(key, n) = room
          BY <4>2 DEF MakeRoom
        <4>4. QED  BY <4>1, <4>3
      <3>5. ASSUME NEW x \in DOMAIN room PROVE x \in recent
        <4>1. x \in DOMAIN attempts /\ attempts[x][Len(attempts[x])] > n - Window
          BY <3>5 DEF Prune
        <4>2. x \in MemoryKeys /\ x # key
          BY <2>1, <3>4, <3>5, <4>1 DEF TableOK, AtCapacity
        <4>3. PICK times : times = attempts[x]
          OBVIOUS
        <4>4. times \in Seq(Ticks) /\ times # << >> /\ times[Len(times)] > n - Window
          BY <2>1, <4>1, <4>3 DEF TableOK
        <4>5. times[Len(times)] \in Int
          BY <4>4, TimesAreNumbers
        <4>6. times[Len(times)] >= tick - 1 - (Window + MaxWait)
          BY <2>1, <3>2, <3>3, <4>4, <4>5, LimitNumbers
        <4>7. TimesKeep(times, entered[x], tick)
          BY <2>1, <4>1, <4>2, <4>3 DEF TimesAre, TimesOf
        <4>8. PICK t \in Ticks : t >= times[Len(times)] /\ entered[x][t] > 0
          BY <4>4, <4>6, <4>7 DEF TimesKeep
        <4>9. t > n - Window
          <5>1. t \in Int
            BY DEF Ticks
          <5>2. QED  BY <3>2, <4>4, <4>5, <4>8, <5>1, LimitNumbers
        <4>10. QED  BY <4>2, <4>8, <4>9
      <3>6. DOMAIN room \subseteq recent /\ IsFiniteSet(recent)
        <4>1. recent \subseteq MemoryKeys
          OBVIOUS
        <4>2. IsFiniteSet(recent)
          BY <4>1, LimitsAssumption, FS_Subset
        <4>3. QED  BY <3>5, <4>2
      <3> HIDE DEF room, recent
      <3>7. /\ Cardinality(DOMAIN room) <= Cardinality(recent) /\ IsFiniteSet(DOMAIN room)
        BY <3>6, FS_Subset
      <3>8. Cardinality(DOMAIN room) \in Nat /\ Cardinality(recent) \in Nat
        BY <3>6, <3>7, FS_CardinalityType
      <3>9. Cardinality(DOMAIN room) >= MaxKeys
        BY <3>4 DEF AtCapacity
      <3>10. Cardinality(recent) >= MaxKeys
        BY <3>7, <3>8, <3>9, LimitNumbers
      <3>11. QED  BY <3>1, <3>10 DEF recent
    <2>4. QED  BY <2>2, <2>3 DEF SlidingWindowHolds
  <1>2. QED  BY <1>1, LimitsInductive, PTL

\* RequestBodyLimitMiddleware hands a route a body once, whole and within the limit.
THEOREM BodiesAreWhole == LimitsSpec => []BodiesWhole
  <1>1. LimitsInv => BodiesWhole
    BY DEF LimitsInv, BodyInv
  <1>2. QED  BY <1>1, LimitsInductive, PTL
=============================================================================
