------------------------- MODULE AbuseControlProofs -------------------------
(***************************************************************************)
(* Proofs about the rate limits and the login lock of AbuseControl, for    *)
(* every number of accounts, addresses and requests, every limit and every *)
(* length of the windows.                                                  *)
(*                                                                         *)
(* What a counter let pass in a period is a sum over two of its windows:   *)
(* the one that is open, which began Ttl(k) - ttl[k] ago and let pass no   *)
(* more than was counted, and the part of the period before it, which is   *)
(* within the limit too.                                                   *)
(***************************************************************************)
EXTENDS AbuseControl, SumTheorems

Keys == RateKeys \cup FailedKeys

\* c, t: a counter and its time to live; p: what it let pass; W, L: its window and
\* its limit.
WindowFits(c, t, p, W, L) ==
  IF c = 0 THEN p[0] = 0 /\ Total(p, 0..(W - 1)) <= L
           ELSE /\ Total(p, 0..(W - t)) <= Lower(c, L)
                /\ Total(p, (W - t + 1)..(W - 1)) <= L

\* c, t: the counter of failures; l: the lock; f: the failures themselves.
FailuresFit(c, t, l, f) ==
  /\ c > 0 => Total(f, 0..(Hour - t)) >= c
  /\ l > 0 => Total(f, (Hour - l)..(Hour - l + Hour - 1)) >= MaxFailures
  /\ c = MaxFailures =>
       /\ l > 0 /\ l >= t
       /\ f[Hour - l] > 0
       /\ \A n \in 0..(Hour - l - 1) : f[n] = 0

RequestFits(q) ==
  /\ q.at \in {"email", "ip"} =>
       q.op \in Operations /\ q.account \in Accounts /\ q.ip \in Ips
  /\ q.at = "login" => q.account \in Accounts /\ q.ip \in Ips
  /\ q.at \notin {"idle", "send"} => q.account \in Accounts

IsHistory(p, N, V) == p \in [0..(N - 1) -> 0..V]

CountersFit ==
  /\ count \in [Keys -> Nat] /\ ttl \in [Keys -> Nat]
  /\ \A k \in Keys : /\ count[k] <= Cap(k) /\ ttl[k] <= Ttl(k)
                     /\ count[k] = 0 <=> ttl[k] = 0

RateLimitsFit ==
  /\ passed = [k \in RateKeys |-> passed[k]]
  /\ \A k \in RateKeys :
       /\ IsHistory(passed[k], Ttl(k), Limit(k) + 1)
       /\ WindowFits(count[k], ttl[k], passed[k], Ttl(k), Limit(k))

LocksFit ==
  /\ lock \in [Accounts -> 0..Hour]
  /\ failed = [a \in Accounts |-> failed[a]]
  /\ \A a \in Accounts :
       /\ IsHistory(failed[a], 2 * Hour, MaxFailures)
       /\ FailuresFit(count[FailedKey(a)], ttl[FailedKey(a)], lock[a], failed[a])

RequestsFit ==
  /\ req \in [Requests -> Request]
  /\ \A r \in Requests : RequestFits(req[r])

Inv == CountersFit /\ RateLimitsFit /\ LocksFit /\ RequestsFit

-----------------------------------------------------------------------------
(* Histories that age and grow                                             *)

LEMMA HistoryIsNatural ==
  ASSUME NEW N \in Nat \ {0}, NEW V \in Nat, NEW p, IsHistory(p, N, V),
         NEW a \in Nat, NEW b \in Int, b <= N - 1
  PROVE  /\ \A x \in a..b : p[x] \in Nat /\ p[x] <= V
         /\ Total(p, a..b) \in Nat
<1>1. ASSUME NEW x \in a..b PROVE p[x] \in Nat /\ p[x] <= V
  <2>1. x \in 0..(N - 1)
    OBVIOUS
  <2> QED BY <2>1 DEF IsHistory
<1> QED BY <1>1, TotalOfIntervalType

LEMMA OlderFits ==
  ASSUME NEW N \in Nat \ {0}, NEW V \in Nat, NEW p, IsHistory(p, N, V)
  PROVE  /\ IsHistory(Older(p), N, V)
         /\ Older(p)[0] = 0
         /\ \A x, y \in 0..(N - 1) : y = x + 1 => Older(p)[y] = p[x]
<1>1. DOMAIN p = 0..(N - 1)
  BY DEF IsHistory
<1>2. Older(p) = [n \in 0..(N - 1) |-> IF n = 0 THEN 0 ELSE p[n - 1]]
  BY <1>1 DEF Older
<1>3. ASSUME NEW n \in 0..(N - 1), n # 0 PROVE p[n - 1] \in 0..V
  <2>1. n - 1 \in 0..(N - 1)
    BY <1>3
  <2> QED BY <2>1 DEF IsHistory
<1>4. IsHistory(Older(p), N, V)
  BY <1>2, <1>3 DEF IsHistory
<1>5. Older(p)[0] = 0
  BY <1>2
<1>6. ASSUME NEW x \in 0..(N - 1), NEW y \in 0..(N - 1), y = x + 1
      PROVE  Older(p)[y] = p[x]
  BY <1>2, <1>6
<1> QED BY <1>4, <1>5, <1>6

\* A tick moves a sum by one.
LEMMA OlderTotals ==
  ASSUME NEW N \in Nat \ {0}, NEW V \in Nat, NEW p, IsHistory(p, N, V),
         NEW a \in Nat, NEW b \in Int, b <= N - 2,
         NEW c \in Nat, c = a + 1, NEW d \in Int, d = b + 1
  PROVE  Total(Older(p), c..d) = Total(p, a..b)
<1>1. \A x \in a..b : p[x] \in Nat /\ Older(p)[x + 1] = p[x]
  <2> TAKE x \in a..b
  <2>1. x \in 0..(N - 1) /\ x + 1 \in 0..(N - 1)
    OBVIOUS
  <2>2. p[x] \in Nat
    BY <2>1 DEF IsHistory
  <2> QED BY <2>1, <2>2, OlderFits
<1> QED BY <1>1, TotalShifts

LEMMA OlderTotalsFromNow ==
  ASSUME NEW N \in Nat \ {0}, NEW V \in Nat, NEW p, IsHistory(p, N, V),
         NEW b \in Int, -1 <= b, b <= N - 2, NEW d \in Int, d = b + 1
  PROVE  Total(Older(p), 0..d) = Total(p, 0..b)
<1>1. IsHistory(Older(p), N, V) /\ Older(p)[0] = 0
  BY OlderFits
<1>2. \A x \in 0..d : Older(p)[x] \in Nat
  <2>1. 0 \in Nat /\ d <= N - 1
    OBVIOUS
  <2> QED BY <1>1, <2>1, HistoryIsNatural, Zenon
<1>3. Total(Older(p), 0..d) = Older(p)[0] + Total(Older(p), 1..d)
  BY <1>2, TotalOfFirst
<1>4. Total(Older(p), 1..d) = Total(p, 0..b)
  BY OlderTotals
<1>5. Total(p, 0..b) \in Nat
  BY HistoryIsNatural
<1> QED BY <1>1, <1>3, <1>4, <1>5

\* One more event at age zero.
LEMMA NotedTotals ==
  ASSUME NEW N \in Nat \ {0}, NEW V \in Nat, NEW p, IsHistory(p, N, V),
         NEW v \in 0..V, NEW b \in Int, b <= N - 1
  PROVE  LET q == [p EXCEPT ![0] = v]
         IN  /\ IsHistory(q, N, V)
             /\ \A a \in Nat : a > 0 => Total(q, a..b) = Total(p, a..b)
             /\ b >= 0 => Total(q, 0..b) = v - p[0] + Total(p, 0..b)
<1> DEFINE q == [p EXCEPT ![0] = v]
<1>1. IsHistory(q, N, V) /\ q[0] = v /\ \A x \in 0..(N - 1) : x # 0 => q[x] = p[x]
  BY DEF IsHistory
<1> HIDE DEF q
<1>2. ASSUME NEW a \in Nat, a > 0 PROVE Total(q, a..b) = Total(p, a..b)
  <2>1. \A x \in a..b : p[x] \in Nat /\ q[x] = p[x]
    <3> TAKE x \in a..b
    <3>1. x \in 0..(N - 1) /\ x # 0
      BY <1>2
    <3>2. p[x] \in Nat
      BY <3>1 DEF IsHistory
    <3> QED BY <1>1, <3>1, <3>2
  <2> QED BY <2>1, TotalAgrees
<1>3. ASSUME b >= 0 PROVE Total(q, 0..b) = v - p[0] + Total(p, 0..b)
  <2>1. (\A x \in 0..b : p[x] \in Nat) /\ (\A x \in 0..b : q[x] \in Nat)
    BY <1>1, HistoryIsNatural
  <2>2. Total(q, 0..b) = q[0] + Total(q, 1..b)
    BY <1>3, <2>1, TotalOfFirst
  <2>3. Total(p, 0..b) = p[0] + Total(p, 1..b)
    BY <1>3, <2>1, TotalOfFirst
  <2>4. Total(q, 1..b) = Total(p, 1..b)
    BY <1>2
  <2>5. Total(p, 1..b) \in Nat
    BY HistoryIsNatural
  <2>6. p[0] \in Nat
    BY <1>3, <2>1
  <2> QED BY <1>1, <2>2, <2>3, <2>4, <2>5, <2>6
<1> QED BY <1>1, <1>2, <1>3 DEF q

-----------------------------------------------------------------------------
(* One counter of a rate limit                                             *)

LEMMA WindowStarts ==
  ASSUME NEW W \in Nat \ {0}, NEW L \in Nat \ {0},
         NEW p, p = [n \in 0..(W - 1) |-> 0]
  PROVE  WindowFits(0, 0, p, W, L)
<1>1. \A n \in 0..(W - 1) : p[n] = 0
  OBVIOUS
<1>2. Total(p, 0..(W - 1)) = 0
  BY <1>1, TotalOfZeros
<1>3. p[0] = 0
  BY <1>1
<1> QED BY <1>2, <1>3 DEF WindowFits

LEMMA WindowAges ==
  ASSUME NEW W \in Nat \ {0}, NEW L \in Nat \ {0}, NEW V \in Nat,
         NEW c \in Nat, NEW t \in 0..W, c = 0 <=> t = 0,
         NEW p, IsHistory(p, W, V), WindowFits(c, t, p, W, L)
  PROVE  WindowFits(IF t = 1 THEN 0 ELSE c, Down(t), Older(p), W, L)
<1> DEFINE o == Older(p)
<1>1. o[0] = 0
  BY OlderFits
<1>2. Total(o, 0..(W - 1)) = Total(p, 0..(W - 2))
  <2>1. W - 2 \in Int /\ -1 <= W - 2 /\ W - 1 \in Int /\ W - 1 = (W - 2) + 1
    OBVIOUS
  <2> QED BY <2>1, OlderTotalsFromNow
<1>3. /\ Total(p, 0..(W - 2)) \in Nat
      /\ Total(p, 0..(W - 1)) \in Nat
      /\ \A x \in 0..(W - 1) : p[x] \in Nat
  <2>1. 0 \in Nat /\ W - 2 \in Int /\ W - 2 <= W - 1 /\ W - 1 \in Int /\ W - 1 <= W - 1
    OBVIOUS
  <2> QED BY <2>1, HistoryIsNatural, Zenon
<1>4. Total(p, 0..(W - 2)) <= Total(p, 0..(W - 1))
  BY <1>3, TotalGrows
<1> HIDE DEF o
<1>5. CASE c = 0
  BY <1>1, <1>2, <1>3, <1>4, <1>5 DEF WindowFits, Down, o
<1>6. CASE t = 1
  <2>1. c # 0 /\ W - t = W - 1
    BY <1>6
  <2>2. Total(p, 0..(W - 1)) <= Lower(c, L)
    <3>1. Total(p, 0..(W - t)) <= Lower(c, L)
      BY <2>1 DEF WindowFits
    <3> QED BY <2>1, <3>1
  <2>3. Total(p, 0..(W - 1)) <= L
    BY <1>3, <2>2 DEF Lower
  <2> QED BY <1>1, <1>2, <1>3, <1>4, <1>6, <2>3 DEF WindowFits, o
<1>7. CASE t > 1
  <2> DEFINE a == W - t
             b == W - Down(t)
             a1 == a + 1
             b1 == b + 1
             w == W - 1
             w1 == W - 2
  <2>1. /\ c # 0 /\ Down(t) # 0
        /\ a \in Nat /\ a <= W - 2
        /\ b \in Nat /\ b = a + 1 /\ b <= W - 1
        /\ a1 \in Nat /\ a1 <= W - 1 /\ b1 \in Nat /\ b1 = a1 + 1
        /\ w \in Nat /\ w1 \in Int /\ w = w1 + 1 /\ w = W - 1 /\ w1 = W - 2
    BY <1>7 DEF Down
  <2>2. Total(p, 0..a) <= Lower(c, L) /\ Total(p, a1..w) <= L
    BY <2>1 DEF WindowFits
  <2>3. SUFFICES Total(o, 0..b) <= Lower(c, L) /\ Total(o, b1..w) <= L
    BY <1>7, <2>1 DEF WindowFits, o
  <2> HIDE DEF a, b, a1, b1, w, w1
  <2>4. Total(o, 0..b) = Total(p, 0..a)
    BY <2>1, OlderTotalsFromNow DEF o
  <2>5. Total(o, b1..w) = Total(p, a1..w1)
    BY <2>1, OlderTotals DEF o
  <2>6. /\ \A x \in a1..w : p[x] \in Nat
        /\ Total(p, a1..w) \in Nat /\ Total(p, a1..w1) \in Nat
    <3>1. w \in Int /\ w <= W - 1 /\ w1 \in Int /\ w1 <= W - 1
      BY <2>1
    <3> QED BY <2>1, <3>1, HistoryIsNatural, Zenon
  <2>7. Total(p, a1..w1) <= Total(p, a1..w)
    BY <2>1, <2>6, TotalGrows
  <2> QED BY <2>2, <2>4, <2>5, <2>6, <2>7
<1> QED BY <1>5, <1>6, <1>7

\* A request that was counted and not let pass.
LEMMA WindowCounts ==
  ASSUME NEW W \in Nat \ {0}, NEW L \in Nat \ {0}, NEW V \in Nat,
         NEW c \in Nat, NEW t \in 0..W, c = 0 <=> t = 0,
         NEW p, IsHistory(p, W, V), WindowFits(c, t, p, W, L),
         NEW d \in Nat, d = Lower(c + 1, L + 1)
  PROVE  /\ c # 0 => WindowFits(d, t, p, W, L)
         /\ c = 0 => WindowFits(d, W, p, W, L)
<1>1. d # 0 /\ Lower(d, L) >= Lower(c, L) /\ Lower(d, L) \in Nat /\ Lower(c, L) \in Nat
  BY DEF Lower
<1>2. CASE c # 0
  <2>1. Total(p, 0..(W - t)) \in Nat
    <3>1. 0 \in Nat /\ W - t \in Int /\ W - t <= W - 1
      BY <1>2
    <3> QED BY <3>1, HistoryIsNatural, Zenon
  <2>2. Total(p, 0..(W - t)) <= Lower(d, L)
    BY <1>1, <1>2, <2>1 DEF WindowFits
  <2> QED BY <1>1, <1>2, <2>2 DEF WindowFits
<1>3. CASE c = 0
  <2>1. p[0] = 0 /\ Total(p, 0..(W - 1)) <= L
    BY <1>3 DEF WindowFits
  <2>2. /\ Total(p, 0..(W - 1)) \in Nat /\ Total(p, 1..(W - 1)) \in Nat
        /\ \A x \in 0..(W - 1) : p[x] \in Nat
    <3>1. /\ 0 \in Nat /\ 1 \in Nat /\ W - 1 \in Int /\ W - 1 <= W - 1
          /\ 0 \in Int /\ 0 <= W - 1
      OBVIOUS
    <3> QED BY <3>1, HistoryIsNatural, Zenon
  <2>3. Total(p, 0..(W - 1)) = p[0] + Total(p, 1..(W - 1))
    BY <2>2, TotalOfFirst
  <2>4. Total(p, 0..0) = 0
    <3>1. p[0] \in Nat /\ 0 \in Int
      BY <2>1
    <3> QED BY <2>1, <3>1, TotalOfOne
  <2>5. W - W = 0 /\ W - W + 1 = 1
    OBVIOUS
  <2>6. Total(p, 0..(W - W)) <= Lower(d, L) /\ Total(p, (W - W + 1)..(W - 1)) <= L
    BY <1>1, <2>1, <2>2, <2>3, <2>4, <2>5
  <2> QED BY <1>1, <1>3, <2>6 DEF WindowFits
<1> QED BY <1>2, <1>3

\* A request that was counted and let pass.
LEMMA WindowPasses ==
  ASSUME NEW W \in Nat \ {0}, NEW L \in Nat \ {0},
         NEW c \in Nat, c < L, NEW t \in 0..W, c = 0 <=> t = 0,
         NEW p, IsHistory(p, W, L + 1), WindowFits(c, t, p, W, L),
         NEW u \in 1..W, u = IF c = 0 THEN W ELSE t
  PROVE  LET q == [p EXCEPT ![0] = Lower(p[0] + 1, L + 1)]
         IN  WindowFits(Lower(c + 1, L + 1), u, q, W, L) /\ IsHistory(q, W, L + 1)
<1> DEFINE V == L + 1
           v == Lower(p[0] + 1, L + 1)
           q == [p EXCEPT ![0] = v]
           d == Lower(c + 1, L + 1)
           a == W - u
           a1 == a + 1
           w == W - 1
<1>1. /\ a \in Nat /\ a \in Int /\ a <= W - 1 /\ a >= 0 /\ 0 \in Nat /\ 0 \in Int
      /\ a1 \in Nat /\ a1 > 0 /\ w \in Int /\ w <= W - 1 /\ a1 <= W
      /\ V \in Nat /\ d = c + 1 /\ Lower(d, L) = d /\ 0 <= W - 1
  BY DEF Lower
<1>2. p[0] \in Nat /\ p[0] <= V
  BY <1>1 DEF IsHistory
<1>3. v \in 0..V /\ v <= p[0] + 1
  BY <1>1, <1>2 DEF Lower
<1>4. WindowFits(d, u, p, W, L) /\ Total(p, 0..a) <= c
  <2>1. CASE c # 0
    <3>1. WindowFits(d, u, p, W, L)
      BY <1>1, <2>1, WindowCounts
    <3> QED BY <2>1, <3>1 DEF WindowFits, Lower
  <2>2. CASE c = 0
    <3>1. WindowFits(d, u, p, W, L)
      BY <1>1, <2>2, WindowCounts
    <3>2. p[0] = 0 /\ a = 0
      BY <2>2 DEF WindowFits
    <3>3. Total(p, 0..0) = 0
      BY <1>1, <1>2, <3>2, TotalOfOne
    <3> QED BY <2>2, <3>1, <3>2, <3>3
  <2> QED BY <2>1, <2>2
<1>5. IsHistory(p, W, V)
  OBVIOUS
<1> HIDE DEF V, v, a, a1, w
<1>6. /\ IsHistory(q, W, V)
      /\ Total(q, 0..a) = v - p[0] + Total(p, 0..a)
  BY <1>1, <1>3, <1>5, NotedTotals
<1>7. Total(q, a1..w) = Total(p, a1..w)
  BY <1>1, <1>3, <1>5, NotedTotals
<1>8. Total(p, 0..a) \in Nat
  BY <1>1, <1>5, HistoryIsNatural, Zenon
<1>9. Total(p, a1..w) <= L
  BY <1>1, <1>4 DEF WindowFits, a, a1, w
<1>10. Total(q, 0..a) <= d
  BY <1>1, <1>2, <1>3, <1>4, <1>6, <1>8
<1> HIDE DEF q, d
<1>11. WindowFits(d, u, q, W, L)
  <2>1. d # 0
    BY <1>1
  <2> QED BY <1>1, <1>7, <1>9, <1>10, <2>1 DEF WindowFits, a, a1, w
<1> QED BY <1>6, <1>11 DEF q, d, v, V

-----------------------------------------------------------------------------
(* The counter of failed logins and the lock                               *)

LEMMA Positive ==
  /\ Hour \in Nat \ {0} /\ LoginWindow \in Nat \ {0} /\ LoginWindow <= Hour
  /\ EmailLimit \in Nat \ {0} /\ IpLimit \in Nat \ {0} /\ LoginLimit \in Nat \ {0}
  /\ MaxFailures \in Nat \ {0}
BY AbuseAssumption

LEMMA FailuresStart ==
  ASSUME NEW f PROVE FailuresFit(0, 0, 0, f)
BY Positive DEF FailuresFit

LEMMA FailuresAge ==
  ASSUME NEW c \in 0..MaxFailures, NEW t \in 0..Hour, c = 0 <=> t = 0,
         NEW l \in 0..Hour, NEW f, IsHistory(f, 2 * Hour, MaxFailures),
         FailuresFit(c, t, l, f)
  PROVE  FailuresFit(IF t = 1 THEN 0 ELSE c, Down(t), Down(l), Older(f))
<1> DEFINE N == 2 * Hour
           o == Older(f)
           e == IF t = 1 THEN 0 ELSE c
<1>1. N \in Nat \ {0} /\ N = Hour + Hour /\ IsHistory(f, N, MaxFailures)
  BY Positive
<1> HIDE DEF N
<1>2. /\ o[0] = 0
      /\ \A x, y \in 0..(N - 1) : y = x + 1 => o[y] = f[x]
  BY <1>1, Positive, OlderFits
<1> HIDE DEF o
<1>3. ASSUME e > 0 PROVE Total(o, 0..(Hour - Down(t))) >= e
  <2> DEFINE b == Hour - t
             d == Hour - Down(t)
  <2>1. /\ c > 0 /\ e = c /\ b \in Int /\ -1 <= b /\ b <= N - 2
        /\ d \in Int /\ d = b + 1
    BY <1>1, <1>3, Positive DEF Down
  <2>2. Total(f, 0..b) >= c
    BY <2>1 DEF FailuresFit
  <2> HIDE DEF b, d, e
  <2>3. Total(o, 0..d) = Total(f, 0..b)
    BY <1>1, <2>1, Positive, OlderTotalsFromNow DEF o
  <2> QED BY <2>1, <2>2, <2>3 DEF d
<1>4. ASSUME Down(l) > 0
      PROVE  Total(o, (Hour - Down(l))..(Hour - Down(l) + Hour - 1)) >= MaxFailures
  <2> DEFINE a == Hour - l
             b == Hour - l + Hour - 1
             a1 == Hour - Down(l)
             b1 == Hour - Down(l) + Hour - 1
  <2>1. /\ l > 0 /\ a \in Nat /\ b \in Int /\ b <= N - 2
        /\ a1 \in Nat /\ a1 = a + 1 /\ b1 \in Int /\ b1 = b + 1
    BY <1>1, <1>4, Positive DEF Down
  <2>2. Total(f, a..b) >= MaxFailures
    BY <2>1 DEF FailuresFit
  <2> HIDE DEF a, b, a1, b1
  <2>3. Total(o, a1..b1) = Total(f, a..b)
    BY <1>1, <2>1, Positive, OlderTotals DEF o
  <2> QED BY <2>2, <2>3 DEF a1, b1
<1>5. ASSUME e = MaxFailures
      PROVE  /\ Down(l) > 0 /\ Down(l) >= Down(t)
             /\ o[Hour - Down(l)] > 0
             /\ \A n \in 0..(Hour - Down(l) - 1) : o[n] = 0
  <2>1. c = MaxFailures /\ t > 1
    BY <1>5, Positive
  <2>2. /\ l > 0 /\ l >= t
        /\ f[Hour - l] > 0
        /\ \A n \in 0..(Hour - l - 1) : f[n] = 0
    BY <2>1 DEF FailuresFit
  <2>3. /\ Down(l) > 0 /\ Down(l) >= Down(t) /\ Down(l) = l - 1
        /\ Hour - Down(l) = (Hour - l) + 1
        /\ Hour - l \in 0..(N - 1) /\ (Hour - l) + 1 \in 0..(N - 1)
    BY <1>1, <2>1, <2>2, Positive DEF Down
  <2>4. o[Hour - Down(l)] = f[Hour - l]
    BY <1>2, <2>3
  <2>5. ASSUME NEW n \in 0..(Hour - Down(l) - 1) PROVE o[n] = 0
    <3>1. CASE n = 0
      BY <1>2, <3>1
    <3>2. CASE n # 0
      <4> DEFINE g == Hour - Down(l)
      <4>1. /\ n - 1 \in 0..(Hour - l - 1) /\ n = (n - 1) + 1
            /\ n \in 0..(N - 1) /\ n - 1 \in 0..(N - 1)
        <5>1. n \in Int /\ 0 <= n /\ n <= g - 1 /\ g = (Hour - l) + 1 /\ l \in Nat
          BY <2>3, Positive
        <5> HIDE DEF g
        <5> QED BY <2>2, <3>2, <5>1, <1>1, Positive
      <4> QED BY <1>2, <2>2, <4>1
    <3> QED BY <3>1, <3>2
  <2> QED BY <2>2, <2>3, <2>4, <2>5
<1> QED BY <1>3, <1>4, <1>5 DEF FailuresFit, o

LEMMA FailureCounts ==
  ASSUME NEW c \in 0..MaxFailures, NEW t \in 0..Hour, c = 0 <=> t = 0,
         NEW l \in 0..Hour, NEW f, IsHistory(f, 2 * Hour, MaxFailures),
         FailuresFit(c, t, l, f),
         NEW u \in 1..Hour, u = IF c = 0 THEN Hour ELSE t,
         NEW m \in 0..Hour, m = IF c + 1 >= MaxFailures THEN Hour ELSE l
  PROVE  LET q == [f EXCEPT ![0] = Lower(f[0] + 1, MaxFailures)]
         IN  /\ IsHistory(q, 2 * Hour, MaxFailures)
             /\ FailuresFit(Lower(c + 1, MaxFailures), u, m, q)
<1> DEFINE N == 2 * Hour
           v == Lower(f[0] + 1, MaxFailures)
           q == [f EXCEPT ![0] = v]
           d == Lower(c + 1, MaxFailures)
<1>1. N \in Nat \ {0} /\ N = Hour + Hour /\ IsHistory(f, N, MaxFailures)
  BY Positive
<1>2. f[0] \in Nat /\ f[0] <= MaxFailures /\ MaxFailures \in Nat
  BY <1>1, Positive DEF IsHistory
<1>3. /\ v \in 0..MaxFailures /\ v >= f[0] /\ v >= 1
      /\ v = MaxFailures \/ v = f[0] + 1
  BY <1>2, Positive DEF Lower
<1>4. /\ d \in Nat /\ d >= 1 /\ d <= MaxFailures /\ d <= c + 1
      /\ d = MaxFailures => m = Hour
      /\ d # MaxFailures => m = l
  BY Positive DEF Lower
<1> HIDE DEF N, v
<1>5. IsHistory(q, N, MaxFailures) /\ q[0] = v
  BY <1>1, <1>3 DEF IsHistory
<1>6. ASSUME NEW b \in Int, 0 <= b, b <= N - 1
      PROVE  /\ Total(q, 0..b) = v - f[0] + Total(f, 0..b)
             /\ Total(f, 0..b) \in Nat /\ Total(q, 0..b) \in Nat
             /\ f[0] <= Total(f, 0..b)
             /\ Total(q, 0..b) >= v
  <2>1. Total(q, 0..b) = v - f[0] + Total(f, 0..b)
    BY <1>1, <1>2, <1>3, <1>6, NotedTotals
  <2>2. /\ Total(f, 0..b) \in Nat /\ Total(q, 0..b) \in Nat
        /\ \A x \in 0..b : f[x] \in Nat
    <3>1. 0 \in Nat
      OBVIOUS
    <3> HIDE DEF q
    <3> QED BY <1>1, <1>2, <1>5, <1>6, <3>1, HistoryIsNatural, Zenon
  <2>3. f[0] <= Total(f, 0..b)
    <3>1. 0 \in Int /\ 0 \in 0..b
      BY <1>6
    <3> QED BY <2>2, <3>1, TotalBoundsMember
  <2> HIDE DEF q
  <2> QED BY <1>2, <1>3, <2>1, <2>2, <2>3
<1>7. ASSUME NEW a \in Nat, a > 0, NEW b \in Int, b <= N - 1
      PROVE  Total(q, a..b) = Total(f, a..b)
  BY <1>1, <1>2, <1>3, <1>7, NotedTotals
<1> HIDE DEF q, d
<1>8. Total(q, 0..(Hour - u)) >= d
  <2> DEFINE b == Hour - u
  <2>1. b \in Int /\ 0 <= b /\ b <= N - 1
    BY <1>1, Positive
  <2>2. CASE c = 0
    <3>1. Total(q, 0..b) >= v /\ Total(q, 0..b) \in Nat
      BY <1>6, <2>1
    <3>2. d <= 1
      BY <1>4, <2>2
    <3> QED BY <1>3, <1>4, <3>1, <3>2
  <2>3. CASE c # 0
    <3>1. Total(f, 0..b) >= c
      BY <2>3 DEF FailuresFit
    <3>2. /\ Total(q, 0..b) = v - f[0] + Total(f, 0..b)
          /\ Total(f, 0..b) \in Nat /\ Total(q, 0..b) \in Nat
          /\ Total(q, 0..b) >= v
      BY <1>6, <2>1
    <3> HIDE DEF b
    <3>3. Total(q, 0..b) >= d
      BY <1>2, <1>3, <1>4, <3>1, <3>2
    <3> QED BY <3>3 DEF b
  <2> QED BY <2>2, <2>3
<1>9. ASSUME m > 0
      PROVE  Total(q, (Hour - m)..(Hour - m + Hour - 1)) >= MaxFailures
  <2> DEFINE w == Hour - 1
  <2>1. CASE d = MaxFailures
    <3> DEFINE b == Hour - u
    <3>1. /\ w \in Int /\ w <= N - 1 /\ 0 <= w
          /\ b \in Int /\ 0 - 1 <= b /\ b <= w /\ 0 <= b
          /\ Hour - m = 0 /\ Hour - m + Hour - 1 = w
      BY <1>1, <1>4, <2>1, Positive
    <3>2. Total(q, 0..b) >= MaxFailures
      BY <1>8, <2>1
    <3> HIDE DEF b, w
    <3>3. \A x \in 0..w : q[x] \in Nat
      <4>1. 0 \in Nat
        OBVIOUS
      <4> QED BY <1>1, <1>2, <1>5, <3>1, <4>1, HistoryIsNatural, Zenon
    <3>4. Total(q, 0..b) <= Total(q, 0..w)
      BY <3>1, <3>3, TotalGrows
    <3>5. Total(q, 0..b) \in Nat /\ Total(q, 0..w) \in Nat
      <4>1. b <= N - 1
        BY <1>1, <3>1
      <4> QED BY <1>6, <3>1, <4>1
    <3> QED BY <1>2, <3>1, <3>2, <3>4, <3>5
  <2>2. CASE d # MaxFailures
    <3> DEFINE a == Hour - l
               b == Hour - l + Hour - 1
    <3>1. /\ m = l /\ l > 0 /\ a \in Nat /\ b \in Int /\ b <= N - 1 /\ 0 <= b
      BY <1>1, <1>4, <1>9, <2>2, Positive
    <3>2. Total(f, a..b) >= MaxFailures
      BY <3>1 DEF FailuresFit
    <3> HIDE DEF a, b
    <3>3. CASE a = 0
      <4>1. /\ Total(q, 0..b) = v - f[0] + Total(f, 0..b)
            /\ Total(f, 0..b) \in Nat /\ Total(q, 0..b) \in Nat
        BY <1>6, <3>1
      <4>2. Total(q, 0..b) >= MaxFailures
        BY <1>2, <1>3, <3>2, <3>3, <4>1
      <4> QED BY <3>1, <3>3, <4>2 DEF a, b
    <3>4. CASE a # 0
      <4>1. Total(q, a..b) = Total(f, a..b)
        BY <1>7, <3>1, <3>4
      <4> QED BY <3>1, <3>2, <4>1 DEF a, b
    <3> QED BY <3>3, <3>4
  <2> QED BY <2>1, <2>2
<1>10. ASSUME d = MaxFailures
       PROVE  /\ m > 0 /\ m >= u
              /\ q[Hour - m] > 0
              /\ \A n \in 0..(Hour - m - 1) : q[n] = 0
  <2>1. m = Hour /\ Hour - m = 0
    BY <1>4, <1>10, Positive
  <2> QED BY <1>3, <1>5, <2>1, Positive
<1>11. FailuresFit(d, u, m, q)
  BY <1>8, <1>9, <1>10 DEF FailuresFit
<1> QED BY <1>5, <1>11 DEF d, q, v, N

-----------------------------------------------------------------------------
(* The keys                                                                *)

LEMMA RateKeyFacts ==
  ASSUME NEW k \in RateKeys
  PROVE  /\ k \in Keys /\ k \notin FailedKeys
         /\ Limit(k) \in Nat \ {0} /\ Ttl(k) \in Nat \ {0}
         /\ Cap(k) = Limit(k) + 1
<1>1. k \in Keys
  BY DEF Keys
<1>2. k \notin FailedKeys
  BY DEF RateKeys, EmailKeys, IpKeys, LoginKeys, FailedKeys, EmailKey, IpKey,
         LoginKey, FailedKey
<1>3. Limit(k) \in Nat \ {0}
  <2>1. CASE k \in EmailKeys
    <3>1. k \notin IpKeys /\ k \notin LoginKeys
      BY <2>1 DEF EmailKeys, IpKeys, LoginKeys, EmailKey, IpKey, LoginKey
    <3> QED BY <1>2, <2>1, <3>1, Positive DEF Limit
  <2>2. CASE k \in IpKeys
    <3>1. k \notin EmailKeys /\ k \notin LoginKeys
      BY <2>2 DEF EmailKeys, IpKeys, LoginKeys, EmailKey, IpKey, LoginKey
    <3> QED BY <1>2, <2>2, <3>1, Positive DEF Limit
  <2>3. CASE k \in LoginKeys
    <3>1. k \notin EmailKeys /\ k \notin IpKeys
      BY <2>3 DEF EmailKeys, IpKeys, LoginKeys, EmailKey, IpKey, LoginKey
    <3> QED BY <1>2, <2>3, <3>1, Positive DEF Limit
  <2> QED BY <2>1, <2>2, <2>3 DEF RateKeys
<1>4. Ttl(k) \in Nat \ {0}
  BY Positive DEF Ttl
<1>5. Cap(k) = Limit(k) + 1
  BY <1>2 DEF Cap
<1> QED BY <1>1, <1>2, <1>3, <1>4, <1>5

LEMMA FailedKeyFacts ==
  ASSUME NEW a \in Accounts
  PROVE  /\ FailedKey(a) \in Keys /\ FailedKey(a) \notin RateKeys
         /\ Ttl(FailedKey(a)) = Hour /\ Cap(FailedKey(a)) = MaxFailures
         /\ \A b \in Accounts : FailedKey(b) = FailedKey(a) => b = a
<1> DEFINE k == FailedKey(a)
<1>1. k \in FailedKeys /\ k \in Keys
  BY DEF FailedKeys, Keys
<1>2. k \notin EmailKeys /\ k \notin IpKeys /\ k \notin LoginKeys
  BY DEF EmailKeys, IpKeys, LoginKeys, EmailKey, IpKey, LoginKey, FailedKey
<1>3. \A b \in Accounts : FailedKey(b) = FailedKey(a) => b = a
  BY DEF FailedKey
<1> HIDE DEF k
<1>4. k \notin RateKeys
  BY <1>2 DEF RateKeys
<1>5. Limit(k) = MaxFailures
  BY <1>1, <1>2 DEF Limit
<1>6. Ttl(k) = Hour /\ Cap(k) = MaxFailures
  BY <1>1, <1>2, <1>5 DEF Ttl, Cap
<1> QED BY <1>1, <1>3, <1>4, <1>6 DEF k

LEMMA KeyFacts ==
  ASSUME NEW k \in Keys
  PROVE  Cap(k) \in Nat \ {0} /\ Ttl(k) \in Nat \ {0}
<1>1. CASE k \in RateKeys
  BY <1>1, RateKeyFacts
<1>2. CASE k \in FailedKeys
  <2>1. PICK a \in Accounts : k = FailedKey(a)
    BY <1>2 DEF FailedKeys
  <2> QED BY <2>1, FailedKeyFacts, Positive
<1> QED BY <1>1, <1>2 DEF Keys

-----------------------------------------------------------------------------
(* The scripts                                                             *)

LEMMA CountersAfterIncr ==
  ASSUME CountersFit, NEW k \in Keys, Incr(k)
  PROVE  /\ CountersFit'
         /\ count'[k] = Lower(count[k] + 1, Cap(k))
         /\ ttl'[k] = IF count[k] = 0 THEN Ttl(k) ELSE ttl[k]
         /\ \A j \in Keys : j # k => count'[j] = count[j] /\ ttl'[j] = ttl[j]
<1>1. /\ count \in [Keys -> Nat] /\ ttl \in [Keys -> Nat]
      /\ \A j \in Keys : /\ count[j] <= Cap(j) /\ ttl[j] <= Ttl(j)
                         /\ count[j] = 0 <=> ttl[j] = 0
  BY DEF CountersFit
<1>2. /\ count' = [count EXCEPT ![k] = Lower(count[k] + 1, Cap(k))]
      /\ ttl' = [ttl EXCEPT ![k] = IF count[k] = 0 THEN Ttl(k) ELSE ttl[k]]
  BY DEF Incr, SetsExpiry
<1>3. /\ count'[k] = Lower(count[k] + 1, Cap(k))
      /\ ttl'[k] = IF count[k] = 0 THEN Ttl(k) ELSE ttl[k]
      /\ \A j \in Keys : j # k => count'[j] = count[j] /\ ttl'[j] = ttl[j]
  BY <1>1, <1>2
<1>4. /\ Lower(count[k] + 1, Cap(k)) \in Nat \ {0}
      /\ Lower(count[k] + 1, Cap(k)) <= Cap(k)
  BY <1>1, KeyFacts DEF Lower
<1>5. Ttl(k) \in Nat \ {0}
  BY KeyFacts
<1>6. count' \in [Keys -> Nat] /\ ttl' \in [Keys -> Nat]
  BY <1>1, <1>2, <1>4, <1>5
<1>7. ASSUME NEW j \in Keys
      PROVE  /\ count'[j] <= Cap(j) /\ ttl'[j] <= Ttl(j)
             /\ count'[j] = 0 <=> ttl'[j] = 0
  <2>1. CASE j = k
    <3>1. count'[k] # 0 /\ ttl'[k] # 0 /\ count'[k] <= Cap(k) /\ ttl'[k] <= Ttl(k)
      BY <1>1, <1>3, <1>4, <1>5
    <3> QED BY <2>1, <3>1
  <2>2. CASE j # k
    BY <1>1, <1>3, <2>2
  <2> QED BY <2>1, <2>2
<1>8. CountersFit'
  BY <1>6, <1>7 DEF CountersFit
<1> QED BY <1>3, <1>8

LEMMA LimitsAfterCount ==
  ASSUME CountersFit, RateLimitsFit, NEW k \in RateKeys, Incr(k),
         NotePassed(k) \/ passed' = passed
  PROVE  RateLimitsFit'
<1> DEFINE W == Ttl(k)
           L == Limit(k)
           c == count[k]
           t == ttl[k]
           u == IF c = 0 THEN W ELSE t
           d == Lower(c + 1, L + 1)
           q == [passed[k] EXCEPT ![0] = Lower(passed[k][0] + 1, L + 1)]
<1>1. /\ k \in Keys /\ W \in Nat \ {0} /\ L \in Nat \ {0} /\ Cap(k) = L + 1
  BY RateKeyFacts
<1>2. /\ passed = [j \in RateKeys |-> passed[j]]
      /\ \A j \in RateKeys :
           /\ IsHistory(passed[j], Ttl(j), Limit(j) + 1)
           /\ WindowFits(count[j], ttl[j], passed[j], Ttl(j), Limit(j))
  BY DEF RateLimitsFit
<1>3. /\ c \in Nat /\ t \in 0..W /\ (c = 0 <=> t = 0) /\ u \in 1..W
  BY <1>1 DEF CountersFit
<1>4. /\ count'[k] = d /\ ttl'[k] = u
      /\ \A j \in Keys : j # k => count'[j] = count[j] /\ ttl'[j] = ttl[j]
  BY <1>1, CountersAfterIncr
<1>5. ASSUME passed' = passed PROVE RateLimitsFit'
  <2>1. WindowFits(d, u, passed[k], W, L)
    <3>1. IsHistory(passed[k], W, L + 1) /\ WindowFits(c, t, passed[k], W, L)
      BY <1>2
    <3>2. d \in Nat /\ L + 1 \in Nat
      BY <1>1, <1>3 DEF Lower
    <3> HIDE DEF W, L, c, t
    <3> QED BY <1>1, <1>3, <3>1, <3>2, WindowCounts
  <2>2. ASSUME NEW j \in RateKeys
        PROVE  /\ IsHistory(passed'[j], Ttl(j), Limit(j) + 1)
               /\ WindowFits(count'[j], ttl'[j], passed'[j], Ttl(j), Limit(j))
    <3>1. CASE j = k
      BY <1>2, <1>4, <1>5, <2>1, <3>1
    <3>2. CASE j # k
      BY <1>2, <1>4, <1>5, <3>2 DEF Keys
    <3> QED BY <3>1, <3>2
  <2> QED BY <1>2, <1>5, <2>2 DEF RateLimitsFit
<1>6. ASSUME NotePassed(k), WithinLimit(k) PROVE RateLimitsFit'
  <2>1. c < L
    BY <1>6 DEF WithinLimit
  <2>2. passed' = [passed EXCEPT ![k] = q]
    BY <1>6 DEF NotePassed
  <2>3. passed'[k] = q /\ \A j \in RateKeys : j # k => passed'[j] = passed[j]
    BY <1>2, <2>2
  <2>4. WindowFits(d, u, q, W, L) /\ IsHistory(q, W, L + 1)
    <3>1. IsHistory(passed[k], W, L + 1) /\ WindowFits(c, t, passed[k], W, L)
      BY <1>2
    <3> DEFINE p == passed[k]
    <3> HIDE DEF W, L, c, t, p
    <3>2. IsHistory(p, W, L + 1) /\ WindowFits(c, t, p, W, L)
      BY <3>1 DEF p
    <3>3. LET x == [p EXCEPT ![0] = Lower(p[0] + 1, L + 1)]
          IN  WindowFits(Lower(c + 1, L + 1), u, x, W, L) /\ IsHistory(x, W, L + 1)
      BY <1>1, <1>3, <2>1, <3>2, WindowPasses
    <3> QED BY <3>3 DEF p
  <2> HIDE DEF q
  <2>5. ASSUME NEW j \in RateKeys
        PROVE  /\ IsHistory(passed'[j], Ttl(j), Limit(j) + 1)
               /\ WindowFits(count'[j], ttl'[j], passed'[j], Ttl(j), Limit(j))
    <3>1. CASE j = k
      BY <1>4, <2>3, <2>4, <3>1
    <3>2. CASE j # k
      BY <1>2, <1>4, <2>3, <3>2 DEF Keys
    <3> QED BY <3>1, <3>2
  <2>6. passed' = [j \in RateKeys |-> passed'[j]]
    BY <1>2, <2>2
  <2> QED BY <2>5, <2>6 DEF RateLimitsFit
<1>7. CASE NotePassed(k) /\ ~WithinLimit(k)
  BY <1>5, <1>7 DEF NotePassed
<1> QED BY <1>5, <1>6, <1>7

LEMMA LimitsAfterFailure ==
  ASSUME CountersFit, RateLimitsFit, NEW a \in Accounts, Incr(FailedKey(a)),
         passed' = passed
  PROVE  RateLimitsFit'
<1>1. FailedKey(a) \in Keys /\ FailedKey(a) \notin RateKeys
  BY FailedKeyFacts
<1>2. \A j \in Keys : j # FailedKey(a) => count'[j] = count[j] /\ ttl'[j] = ttl[j]
  BY <1>1, CountersAfterIncr
<1>3. \A j \in RateKeys : count'[j] = count[j] /\ ttl'[j] = ttl[j]
  BY <1>1, <1>2 DEF Keys
<1> QED BY <1>3 DEF RateLimitsFit

LEMMA LocksAfterCount ==
  ASSUME CountersFit, LocksFit, NEW k \in RateKeys, Incr(k),
         lock' = lock, failed' = failed
  PROVE  LocksFit'
<1>1. k \in Keys
  BY DEF Keys
<1>2. \A j \in Keys : j # k => count'[j] = count[j] /\ ttl'[j] = ttl[j]
  BY <1>1, CountersAfterIncr
<1>3. \A a \in Accounts : /\ count'[FailedKey(a)] = count[FailedKey(a)]
                          /\ ttl'[FailedKey(a)] = ttl[FailedKey(a)]
  BY <1>2, FailedKeyFacts
<1> QED BY <1>3 DEF LocksFit

LEMMA LocksAfterFailure ==
  ASSUME CountersFit, LocksFit, NEW a \in Accounts, IncrFailed(a)
  PROVE  LocksFit'
<1> DEFINE k == FailedKey(a)
           c == count[k]
           t == ttl[k]
           l == lock[a]
           u == IF c = 0 THEN Hour ELSE t
           m == IF c + 1 >= MaxFailures THEN Hour ELSE l
           d == Lower(c + 1, MaxFailures)
           f == failed[a]
           q == [f EXCEPT ![0] = Lower(f[0] + 1, MaxFailures)]
<1>1. /\ k \in Keys /\ Ttl(k) = Hour /\ Cap(k) = MaxFailures
      /\ \A b \in Accounts : FailedKey(b) = k => b = a
  BY FailedKeyFacts
<1>2. /\ lock \in [Accounts -> 0..Hour]
      /\ failed = [b \in Accounts |-> failed[b]]
      /\ \A b \in Accounts :
           /\ IsHistory(failed[b], 2 * Hour, MaxFailures)
           /\ FailuresFit(count[FailedKey(b)], ttl[FailedKey(b)], lock[b], failed[b])
  BY DEF LocksFit
<1>3. /\ c \in 0..MaxFailures /\ t \in 0..Hour /\ (c = 0 <=> t = 0)
      /\ l \in 0..Hour /\ u \in 1..Hour /\ m \in 0..Hour
  BY <1>1, <1>2, Positive DEF CountersFit
<1>4. /\ count'[k] = d /\ ttl'[k] = u
      /\ \A j \in Keys : j # k => count'[j] = count[j] /\ ttl'[j] = ttl[j]
  BY <1>1, CountersAfterIncr DEF IncrFailed
<1>5. lock' = [lock EXCEPT ![a] = m]
  BY <1>2 DEF IncrFailed, Locks, LockTime
<1>6. failed' = [failed EXCEPT ![a] = q]
  BY DEF IncrFailed
<1>7. IsHistory(q, 2 * Hour, MaxFailures) /\ FailuresFit(d, u, m, q)
  <2>1. IsHistory(f, 2 * Hour, MaxFailures) /\ FailuresFit(c, t, l, f)
    BY <1>2
  <2> HIDE DEF c, t, l, f
  <2> QED BY <1>3, <2>1, FailureCounts
<1>8. ASSUME NEW b \in Accounts
      PROVE  /\ IsHistory(failed'[b], 2 * Hour, MaxFailures)
             /\ FailuresFit(count'[FailedKey(b)], ttl'[FailedKey(b)], lock'[b], failed'[b])
  <2> HIDE DEF q, m, u, d
  <2>1. CASE b = a
    <3>1. failed'[a] = q /\ lock'[a] = m
      BY <1>2, <1>5, <1>6
    <3> QED BY <1>4, <1>7, <2>1, <3>1
  <2>2. CASE b # a
    <3>1. failed'[b] = failed[b] /\ lock'[b] = lock[b]
      BY <1>2, <1>5, <1>6, <2>2
    <3>2. FailedKey(b) \in Keys /\ FailedKey(b) # k
      BY <1>1, <2>2, FailedKeyFacts
    <3> QED BY <1>2, <1>4, <3>1, <3>2
  <2> QED BY <2>1, <2>2
<1>9. lock' \in [Accounts -> 0..Hour]
  BY <1>2, <1>3, <1>5
<1>10. failed' = [b \in Accounts |-> failed'[b]]
  BY <1>2, <1>6
<1> QED BY <1>8, <1>9, <1>10 DEF LocksFit

LEMMA TimePasses ==
  ASSUME CountersFit, RateLimitsFit, LocksFit, Tick
  PROVE  CountersFit' /\ RateLimitsFit' /\ LocksFit'
<1>1. /\ count \in [Keys -> Nat] /\ ttl \in [Keys -> Nat]
      /\ \A k \in Keys : /\ count[k] <= Cap(k) /\ ttl[k] <= Ttl(k)
                         /\ count[k] = 0 <=> ttl[k] = 0
                         /\ Cap(k) \in Nat \ {0} /\ Ttl(k) \in Nat \ {0}
  BY KeyFacts DEF CountersFit
<1>2. /\ ttl' = [k \in Keys |-> Down(ttl[k])]
      /\ count' = [k \in Keys |-> IF ttl[k] = 1 THEN 0 ELSE count[k]]
      /\ lock' = [a \in Accounts |-> Down(lock[a])]
      /\ passed' = [k \in RateKeys |-> Older(passed[k])]
      /\ failed' = [a \in Accounts |-> Older(failed[a])]
  BY <1>1 DEF Tick
<1>3. CountersFit'
  <2>1. ASSUME NEW k \in Keys
        PROVE  /\ ttl'[k] \in Nat /\ count'[k] \in Nat
               /\ count'[k] <= Cap(k) /\ ttl'[k] <= Ttl(k)
               /\ count'[k] = 0 <=> ttl'[k] = 0
    BY <1>1, <1>2 DEF Down
  <2>2. count' = [k \in Keys |-> count'[k]] /\ ttl' = [k \in Keys |-> ttl'[k]]
    BY <1>2
  <2>3. count' \in [Keys -> Nat] /\ ttl' \in [Keys -> Nat]
    BY <2>1, <2>2
  <2> QED BY <2>1, <2>3 DEF CountersFit
<1>4. RateLimitsFit'
  <2>1. ASSUME NEW k \in RateKeys
        PROVE  /\ IsHistory(passed'[k], Ttl(k), Limit(k) + 1)
               /\ WindowFits(count'[k], ttl'[k], passed'[k], Ttl(k), Limit(k))
    <3> DEFINE W == Ttl(k)
               L == Limit(k)
               V == Limit(k) + 1
               c == count[k]
               t == ttl[k]
               p == passed[k]
    <3>1. /\ k \in Keys /\ W \in Nat \ {0} /\ L \in Nat \ {0} /\ V \in Nat
      BY RateKeyFacts
    <3>2. c \in Nat /\ t \in 0..W /\ (c = 0 <=> t = 0)
      BY <1>1, <3>1
    <3>3. IsHistory(p, W, V) /\ WindowFits(c, t, p, W, L)
      BY DEF RateLimitsFit
    <3>4. /\ passed'[k] = Older(p) /\ ttl'[k] = Down(t)
          /\ count'[k] = IF t = 1 THEN 0 ELSE c
      BY <1>2, <3>1
    <3> HIDE DEF W, L, V, c, t, p
    <3>5. IsHistory(Older(p), W, V)
      BY <3>1, <3>3, OlderFits
    <3>6. WindowFits(IF t = 1 THEN 0 ELSE c, Down(t), Older(p), W, L)
      BY <3>1, <3>2, <3>3, WindowAges
    <3>7. IsHistory(passed'[k], W, V) /\ WindowFits(count'[k], ttl'[k], passed'[k], W, L)
      BY <3>4, <3>5, <3>6
    <3> QED BY <3>7 DEF W, L, V
  <2> QED BY <1>2, <2>1 DEF RateLimitsFit
<1>5. LocksFit'
  <2>1. ASSUME NEW a \in Accounts
        PROVE  /\ lock'[a] \in 0..Hour
               /\ IsHistory(failed'[a], 2 * Hour, MaxFailures)
               /\ FailuresFit(count'[FailedKey(a)], ttl'[FailedKey(a)], lock'[a], failed'[a])
    <3> DEFINE k == FailedKey(a)
               c == count[k]
               t == ttl[k]
               l == lock[a]
               f == failed[a]
    <3>1. k \in Keys /\ Ttl(k) = Hour /\ Cap(k) = MaxFailures
      BY FailedKeyFacts
    <3>2. c \in 0..MaxFailures /\ t \in 0..Hour /\ (c = 0 <=> t = 0)
      BY <1>1, <3>1
    <3>3. /\ l \in 0..Hour
          /\ IsHistory(f, 2 * Hour, MaxFailures) /\ FailuresFit(c, t, l, f)
      BY DEF LocksFit
    <3>4. /\ failed'[a] = Older(f) /\ lock'[a] = Down(l) /\ ttl'[k] = Down(t)
          /\ count'[k] = IF t = 1 THEN 0 ELSE c
      BY <1>2, <3>1
    <3> HIDE DEF k, c, t, l, f
    <3>5. IsHistory(Older(f), 2 * Hour, MaxFailures)
      <4>1. 2 * Hour \in Nat \ {0} /\ MaxFailures \in Nat
        BY Positive
      <4> DEFINE N == 2 * Hour
      <4> HIDE DEF N
      <4> QED BY <3>3, <4>1, OlderFits DEF N
    <3>6. FailuresFit(IF t = 1 THEN 0 ELSE c, Down(t), Down(l), Older(f))
      BY <3>2, <3>3, FailuresAge
    <3>7. Down(l) \in 0..Hour
      BY <3>3, Positive DEF Down
    <3>8. FailuresFit(count'[k], ttl'[k], lock'[a], failed'[a])
      BY <3>4, <3>6
    <3> QED BY <3>4, <3>5, <3>7, <3>8 DEF k
  <2>2. lock' \in [Accounts -> 0..Hour]
    BY <1>2, <2>1
  <2> QED BY <1>2, <2>1, <2>2 DEF LocksFit
<1> QED BY <1>3, <1>4, <1>5

-----------------------------------------------------------------------------
(* Requests                                                                *)

CountersKept == UNCHANGED <<count, ttl, lock, passed, failed>>

LEMMA KeptCounters ==
  ASSUME CountersFit, RateLimitsFit, LocksFit, CountersKept
  PROVE  CountersFit' /\ RateLimitsFit' /\ LocksFit'
<1>1. count' = count /\ ttl' = ttl /\ lock' = lock /\ passed' = passed /\ failed' = failed
  BY DEF CountersKept
<1>2. CountersFit'
  BY <1>1 DEF CountersFit
<1>3. RateLimitsFit'
  BY <1>1 DEF RateLimitsFit
<1>4. LocksFit'
  BY <1>1 DEF LocksFit
<1> QED BY <1>2, <1>3, <1>4

LEMMA OneRequestChanges ==
  ASSUME RequestsFit, NEW r \in Requests, NEW q \in Request, RequestFits(q),
         req' = [req EXCEPT ![r] = q]
  PROVE  RequestsFit'
BY DEF RequestsFit

LEMMA FinishFits ==
  ASSUME RequestsFit, NEW r \in Requests, Finish(r)
  PROVE  RequestsFit'
<1>1. NoRequest \in Request /\ RequestFits(NoRequest)
  BY DEF NoRequest, Request, RequestFits
<1> QED BY <1>1, OneRequestChanges DEF Finish

Steps == {"idle", "email", "ip", "send", "login", "password", "gate",
          "challenge", "firstGate", "code", "failure", "secondGate", "session"}

\* A request keeps its operation, account and address; what its next step reads is
\* there.
LEMMA GotoFits ==
  ASSUME RequestsFit, NEW r \in Requests, NEW step \in Steps, Goto(r, step),
         ~At(r, "idle"), ~At(r, "send"),
         step \notin {"email", "login"},
         step = "ip" => At(r, "email")
  PROVE  RequestsFit'
<1> DEFINE q == [req[r] EXCEPT !.at = step]
<1>1. req[r] \in Request /\ RequestFits(req[r])
  BY DEF RequestsFit
<1>2. q \in Request
  BY <1>1 DEF Request, Steps
<1>3. /\ q.at = step /\ q.op = req[r].op
      /\ q.account = req[r].account /\ q.ip = req[r].ip
  BY <1>1 DEF Request
<1>4. req' = [req EXCEPT ![r] = q]
  BY DEF Goto
<1> HIDE DEF q
<1>5. req[r].account \in Accounts
  BY <1>1 DEF RequestFits, At
<1>6. RequestFits(q)
  BY <1>1, <1>3, <1>5 DEF RequestFits, At
<1> QED BY <1>2, <1>4, <1>6, OneRequestChanges

LEMMA BeginFits ==
  ASSUME RequestsFit, NEW r \in Requests, NEW step \in Steps,
         NEW op \in Operations \cup {None}, NEW a \in Accounts,
         NEW i \in Ips \cup {None},
         step \in {"email", "ip"} => op \in Operations /\ i \in Ips,
         step = "login" => i \in Ips,
         Begin(r, step, op, a, i)
  PROVE  RequestsFit' /\ CountersKept
<1> DEFINE q == [at |-> step, op |-> op, account |-> a, ip |-> i]
<1>1. q \in Request /\ RequestFits(q)
  BY DEF Request, RequestFits, Steps
<1>2. req' = [req EXCEPT ![r] = q] /\ CountersKept
  BY DEF Begin, CountersKept
<1> HIDE DEF q
<1> QED BY <1>1, <1>2, OneRequestChanges

LEMMA RateKeyIsKey ==
  ASSUME RequestsFit, NEW r \in Requests,
         At(r, "email") \/ At(r, "ip") \/ At(r, "login")
  PROVE  RateKey(r) \in RateKeys
<1>1. RequestFits(req[r])
  BY DEF RequestsFit
<1>2. CASE At(r, "email")
  <2>1. RateKey(r) = EmailKey(req[r].op, req[r].account)
    BY <1>2 DEF RateKey, At
  <2> QED BY <1>1, <1>2, <2>1 DEF RequestFits, At, RateKeys, EmailKeys
<1>3. CASE At(r, "ip")
  <2>1. RateKey(r) = IpKey(req[r].op, req[r].ip)
    BY <1>3 DEF RateKey, At
  <2> QED BY <1>1, <1>3, <2>1 DEF RequestFits, At, RateKeys, IpKeys
<1>4. CASE At(r, "login")
  <2>1. RateKey(r) = LoginKey(req[r].ip, req[r].account)
    BY <1>4 DEF RateKey, At
  <2> QED BY <1>1, <1>4, <2>1 DEF RequestFits, At, RateKeys, LoginKeys
<1> QED BY <1>2, <1>3, <1>4

LEMMA CountRateKeepsInv ==
  ASSUME Inv, NEW r \in Requests, NEW step \in {"email", "ip", "login"},
         NEW next \in Steps, next \notin {"email", "login"},
         next = "ip" => step = "email",
         CountRate(r, step, next)
  PROVE  Inv'
<1> DEFINE k == RateKey(r)
<1>1. CountersFit /\ RateLimitsFit /\ LocksFit /\ RequestsFit
  BY DEF Inv
<1>2. /\ At(r, step) /\ Incr(k) /\ NotePassed(k)
      /\ lock' = lock /\ failed' = failed
      /\ Goto(r, next) \/ Finish(r)
  BY DEF CountRate
<1>3. k \in RateKeys
  BY <1>1, <1>2, RateKeyIsKey
<1> HIDE DEF k
<1>4. CountersFit'
  BY <1>1, <1>2, <1>3, CountersAfterIncr DEF Keys
<1>5. RateLimitsFit'
  BY <1>1, <1>2, <1>3, LimitsAfterCount
<1>6. LocksFit'
  BY <1>1, <1>2, <1>3, LocksAfterCount
<1>7. RequestsFit'
  <2>1. ~At(r, "idle") /\ ~At(r, "send")
    BY <1>2 DEF At
  <2>2. next = "ip" => At(r, "email")
    BY <1>2
  <2>3. Goto(r, next) => RequestsFit'
    BY <1>1, <2>1, <2>2, GotoFits
  <2> QED BY <1>1, <1>2, <2>3, FinishFits
<1> QED BY <1>4, <1>5, <1>6, <1>7 DEF Inv

LEMMA FailureKeepsCounters ==
  ASSUME CountersFit, RateLimitsFit, LocksFit, NEW a \in Accounts, IncrFailed(a),
         passed' = passed
  PROVE  CountersFit' /\ RateLimitsFit' /\ LocksFit'
<1>1. Incr(FailedKey(a)) /\ FailedKey(a) \in Keys
  BY FailedKeyFacts DEF IncrFailed
<1>2. CountersFit'
  BY <1>1, CountersAfterIncr
<1>3. RateLimitsFit'
  BY <1>1, LimitsAfterFailure
<1>4. LocksFit'
  BY LocksAfterFailure
<1> QED BY <1>2, <1>3, <1>4

LEMMA LostReplyKeepsInv ==
  ASSUME Inv, NEW r \in Requests, LostReply(r)
  PROVE  Inv'
<1>1. CountersFit /\ RateLimitsFit /\ LocksFit /\ RequestsFit
  BY DEF Inv
<1>2. passed' = passed /\ (req' = req \/ Finish(r))
  BY DEF LostReply
<1>3. RequestsFit'
  <2>1. req' = req => RequestsFit'
    BY <1>1 DEF RequestsFit
  <2> QED BY <1>1, <1>2, <2>1, FinishFits
<1>4. CASE /\ \E step \in {"email", "ip", "login"} : At(r, step)
           /\ Incr(RateKey(r))
           /\ UNCHANGED <<lock, failed>>
  <2> DEFINE k == RateKey(r)
  <2>1. k \in RateKeys
    BY <1>1, <1>4, RateKeyIsKey
  <2>2. Incr(k) /\ lock' = lock /\ failed' = failed
    BY <1>4
  <2> HIDE DEF k
  <2>3. CountersFit'
    BY <1>1, <2>1, <2>2, CountersAfterIncr DEF Keys
  <2>4. RateLimitsFit'
    BY <1>1, <1>2, <2>1, <2>2, LimitsAfterCount
  <2>5. LocksFit'
    BY <1>1, <2>1, <2>2, LocksAfterCount
  <2> QED BY <1>3, <2>3, <2>4, <2>5 DEF Inv
<1>5. CASE At(r, "failure") /\ IncrFailed(req[r].account)
  <2>1. req[r].account \in Accounts
    BY <1>1, <1>5 DEF RequestsFit, RequestFits, At
  <2>2. CountersFit' /\ RateLimitsFit' /\ LocksFit'
    BY <1>1, <1>2, <1>5, <2>1, FailureKeepsCounters
  <2> QED BY <1>3, <2>2 DEF Inv
<1> QED BY <1>4, <1>5 DEF LostReply

LEMMA GateKeepsInv ==
  ASSUME Inv, NEW r \in Requests,
         NEW from \in {"gate", "firstGate", "secondGate"},
         NEW next \in {"challenge", "code", "session"}, Gate(r, from, next)
  PROVE  Inv'
<1>1. CountersFit /\ RateLimitsFit /\ LocksFit /\ RequestsFit
  BY DEF Inv
<1>2. At(r, from) /\ CountersKept /\ (Finish(r) \/ Goto(r, next))
  BY DEF Gate, CountersKept
<1>3. RequestsFit'
  <2>1. ~At(r, "idle") /\ ~At(r, "send") /\ next \in Steps
        /\ next \notin {"email", "login"} /\ next # "ip"
    BY <1>2 DEF At, Steps
  <2>2. Goto(r, next) => RequestsFit'
    BY <1>1, <2>1, GotoFits
  <2> QED BY <1>1, <1>2, <2>2, FinishFits
<1> QED BY <1>1, <1>2, <1>3, KeptCounters DEF Inv

LEMMA BranchKeepsInv ==
  ASSUME Inv, NEW r \in Requests, CheckPassword(r) \/ ConsumeCode(r) \/ Answer(r)
  PROVE  Inv'
<1>1. CountersFit /\ RateLimitsFit /\ LocksFit /\ RequestsFit
  BY DEF Inv
<1>2. CountersKept
  BY DEF CheckPassword, ConsumeCode, Answer, CountersKept
<1>3. RequestsFit'
  <2>1. CASE Answer(r)
    BY <1>1, <2>1, FinishFits DEF Answer
  <2>2. CASE CheckPassword(r) \/ ConsumeCode(r)
    <3>1. PICK step \in {"gate", "failure", "secondGate"} : Goto(r, step)
      BY <2>2 DEF CheckPassword, ConsumeCode
    <3>2. ~At(r, "idle") /\ ~At(r, "send")
      BY <2>2 DEF CheckPassword, ConsumeCode, At
    <3>3. step \in Steps /\ step \notin {"email", "login"} /\ step # "ip"
      BY DEF Steps
    <3> QED BY <1>1, <3>1, <3>2, <3>3, GotoFits
  <2> QED BY <2>1, <2>2
<1> QED BY <1>1, <1>2, <1>3, KeptCounters DEF Inv

LEMMA RecordFailureKeepsInv ==
  ASSUME Inv, NEW r \in Requests, RecordFailure(r)
  PROVE  Inv'
<1>1. CountersFit /\ RateLimitsFit /\ LocksFit /\ RequestsFit
  BY DEF Inv
<1>2. /\ At(r, "failure") /\ IncrFailed(req[r].account) /\ Finish(r)
      /\ passed' = passed
  BY DEF RecordFailure
<1>3. req[r].account \in Accounts
  BY <1>1, <1>2 DEF RequestsFit, RequestFits, At
<1>4. CountersFit' /\ RateLimitsFit' /\ LocksFit'
  BY <1>1, <1>2, <1>3, FailureKeepsCounters
<1>5. RequestsFit'
  BY <1>1, <1>2, FinishFits
<1> QED BY <1>4, <1>5 DEF Inv

LEMMA BeginKeepsInv ==
  ASSUME Inv, NEW r \in Requests,
         \/ \E op \in Operations, a \in Accounts, i \in Ips : StartMail(r, op, a, i)
         \/ \E a \in Accounts : CompleteLogin(r, a) \/ \E i \in Ips : StartLogin(r, a, i)
  PROVE  Inv'
<1>1. CountersFit /\ RateLimitsFit /\ LocksFit /\ RequestsFit
  BY DEF Inv
<1>2. {"email", "login", "firstGate"} \subseteq Steps
  BY DEF Steps
<1>3. ASSUME NEW op \in Operations, NEW a \in Accounts, NEW i \in Ips,
             StartMail(r, op, a, i)
      PROVE  RequestsFit' /\ CountersKept
  BY <1>1, <1>2, <1>3, BeginFits DEF StartMail
<1>4. ASSUME NEW a \in Accounts, CompleteLogin(r, a)
      PROVE  RequestsFit' /\ CountersKept
  BY <1>1, <1>2, <1>4, BeginFits DEF CompleteLogin
<1>5. ASSUME NEW a \in Accounts, NEW i \in Ips, StartLogin(r, a, i)
      PROVE  RequestsFit' /\ CountersKept
  BY <1>1, <1>2, <1>5, BeginFits DEF StartLogin
<1>6. RequestsFit' /\ CountersKept
  BY <1>3, <1>4, <1>5
<1> QED BY <1>1, <1>6, KeptCounters DEF Inv

-----------------------------------------------------------------------------
(* The invariant                                                           *)

LEMMA InitInv == Init => Inv
<1> SUFFICES ASSUME Init PROVE Inv
  OBVIOUS
<1>1. /\ count = [k \in Keys |-> 0] /\ ttl = [k \in Keys |-> 0]
      /\ lock = [a \in Accounts |-> 0]
      /\ req = [r \in Requests |-> NoRequest]
      /\ passed = [k \in RateKeys |-> [n \in 0..(Ttl(k) - 1) |-> 0]]
      /\ failed = [a \in Accounts |-> [n \in 0..(2 * Hour - 1) |-> 0]]
  BY DEF Init, Keys
<1>2. CountersFit
  BY <1>1, KeyFacts DEF CountersFit
<1>3. RateLimitsFit
  <2>1. ASSUME NEW k \in RateKeys
        PROVE  /\ IsHistory(passed[k], Ttl(k), Limit(k) + 1)
               /\ WindowFits(count[k], ttl[k], passed[k], Ttl(k), Limit(k))
    <3> DEFINE W == Ttl(k)
               L == Limit(k)
               p == passed[k]
    <3>1. k \in Keys /\ W \in Nat \ {0} /\ L \in Nat \ {0}
      BY RateKeyFacts
    <3>2. p = [n \in 0..(W - 1) |-> 0] /\ count[k] = 0 /\ ttl[k] = 0
      BY <1>1, <3>1
    <3> HIDE DEF W, L, p
    <3>3. IsHistory(p, W, L + 1)
      BY <3>1, <3>2 DEF IsHistory
    <3>4. WindowFits(count[k], ttl[k], p, W, L)
      BY <3>1, <3>2, WindowStarts
    <3> QED BY <3>3, <3>4 DEF W, L, p
  <2> QED BY <1>1, <2>1 DEF RateLimitsFit
<1>4. LocksFit
  <2>1. ASSUME NEW a \in Accounts
        PROVE  /\ IsHistory(failed[a], 2 * Hour, MaxFailures)
               /\ FailuresFit(count[FailedKey(a)], ttl[FailedKey(a)], lock[a], failed[a])
    <3>1. /\ count[FailedKey(a)] = 0 /\ ttl[FailedKey(a)] = 0 /\ lock[a] = 0
          /\ failed[a] = [n \in 0..(2 * Hour - 1) |-> 0]
      BY <1>1, FailedKeyFacts
    <3>2. IsHistory(failed[a], 2 * Hour, MaxFailures)
      BY <3>1, Positive DEF IsHistory
    <3> QED BY <3>1, <3>2, FailuresStart
  <2>2. lock \in [Accounts -> 0..Hour]
    BY <1>1, Positive
  <2> QED BY <1>1, <2>1, <2>2 DEF LocksFit
<1>5. RequestsFit
  <2>1. NoRequest \in Request /\ RequestFits(NoRequest)
    BY DEF NoRequest, Request, RequestFits
  <2> QED BY <1>1, <2>1 DEF RequestsFit
<1> QED BY <1>2, <1>3, <1>4, <1>5 DEF Inv

LEMMA NextKeepsInv == Inv /\ [Next]_vars => Inv'
<1> SUFFICES ASSUME Inv, [Next]_vars PROVE Inv'
  OBVIOUS
<1>1. ASSUME NEW r \in Requests, MailStep(r) PROVE Inv'
  <2>1. CASE \E op \in Operations, a \in Accounts, i \in Ips : StartMail(r, op, a, i)
    BY <2>1, BeginKeepsInv
  <2>2. CASE CountEmail(r)
    BY <2>2, CountRateKeepsInv DEF CountEmail, Steps
  <2>3. CASE CountIp(r)
    BY <2>3, CountRateKeepsInv DEF CountIp, Steps
  <2> QED BY <1>1, <2>1, <2>2, <2>3 DEF MailStep
<1>2. ASSUME NEW r \in Requests, LoginStep(r) PROVE Inv'
  <2>1. CASE \E a \in Accounts : CompleteLogin(r, a) \/ \E i \in Ips : StartLogin(r, a, i)
    BY <2>1, BeginKeepsInv
  <2>2. CASE CountLogin(r)
    BY <2>2, CountRateKeepsInv DEF CountLogin, Steps
  <2>3. CASE CheckPassword(r) \/ ConsumeCode(r)
    BY <2>3, BranchKeepsInv
  <2>4. CASE LoginGate(r) \/ FirstGate(r) \/ SecondGate(r)
    BY <2>4, GateKeepsInv DEF LoginGate, FirstGate, SecondGate
  <2>5. CASE RecordFailure(r)
    BY <2>5, RecordFailureKeepsInv
  <2> QED BY <1>2, <2>1, <2>2, <2>3, <2>4, <2>5 DEF LoginStep
<1>3. ASSUME NEW r \in Requests, Answer(r) PROVE Inv'
  BY <1>3, BranchKeepsInv
<1>4. ASSUME NEW r \in Requests, LostReply(r) PROVE Inv'
  BY <1>4, LostReplyKeepsInv
<1>5. CASE Tick
  <2>1. CountersFit' /\ RateLimitsFit' /\ LocksFit'
    BY <1>5, TimePasses DEF Inv
  <2>2. RequestsFit'
    BY <1>5 DEF Tick, RequestsFit, Inv
  <2> QED BY <2>1, <2>2 DEF Inv
<1>6. CASE UNCHANGED vars
  <2>1. CountersKept /\ req' = req
    BY <1>6 DEF vars, CountersKept
  <2>2. RequestsFit'
    BY <2>1 DEF RequestsFit, Inv
  <2> QED BY <2>1, <2>2, KeptCounters DEF Inv
<1> QED BY <1>1, <1>2, <1>3, <1>4, <1>5, <1>6 DEF Next

\* The counters, their histories and the requests stay as Inv describes them,
\* through every INCR, expiry, lost reply and retry.
THEOREM AbuseControlInvariant == Spec => []Inv
<1>1. Init => Inv
  BY InitInv
<1>2. Inv /\ [Next]_vars => Inv'
  BY NextKeepsInv
<1> QED BY <1>1, <1>2, PTL DEF Spec

-----------------------------------------------------------------------------
(* What the invariant says of the runs' properties                         *)

\* A counter is at most one beyond its limit, has a time to live exactly while it
\* counts something, and locks and histories are within their bounds.
THEOREM AbuseControlTypeCorrect == Spec => []TypeOK
<1>1. Inv => TypeOK
  <2> SUFFICES ASSUME Inv PROVE TypeOK
    OBVIOUS
  <2>1. CountersFit /\ RateLimitsFit /\ LocksFit /\ RequestsFit
    BY DEF Inv
  <2>2. ASSUME NEW k \in RateKeys \cup FailedKeys
        PROVE  /\ count[k] \in 0..Cap(k) /\ ttl[k] \in 0..Ttl(k)
               /\ count[k] = 0 <=> ttl[k] = 0
               /\ k \in RateKeys => passed[k] \in [0..(Ttl(k) - 1) -> 0..(Limit(k) + 1)]
    <3>1. k \in Keys
      BY DEF Keys
    <3>2. count[k] \in 0..Cap(k) /\ ttl[k] \in 0..Ttl(k)
      BY <2>1, <3>1, KeyFacts DEF CountersFit
    <3>3. count[k] = 0 <=> ttl[k] = 0
      BY <2>1, <3>1 DEF CountersFit
    <3>4. k \in RateKeys => passed[k] \in [0..(Ttl(k) - 1) -> 0..(Limit(k) + 1)]
      BY <2>1 DEF RateLimitsFit, IsHistory
    <3> QED BY <3>2, <3>3, <3>4
  <2>3. failed \in [Accounts -> [0..(2 * Hour - 1) -> 0..MaxFailures]]
    BY <2>1 DEF LocksFit, IsHistory
  <2>4. lock \in [Accounts -> 0..Hour] /\ req \in [Requests -> Request]
    BY <2>1 DEF LocksFit, RequestsFit
  <2> QED BY <2>2, <2>3, <2>4 DEF TypeOK
<1> QED BY <1>1, AbuseControlInvariant, PTL

LEMMA SumOfIsTotal == ASSUME NEW f, NEW N PROVE SumOf(f, N) = Total(f, N)
BY DEF SumOf, Total

\* In any period as long as a window a counter lets at most twice its limit pass:
\* the part before the open window and the part since it began are each within the
\* limit.
THEOREM BurstsAreBounded == Spec => []BurstIsBounded
<1>1. Inv => BurstIsBounded
  <2> SUFFICES ASSUME Inv, NEW k \in RateKeys
               PROVE  SumOf(passed[k], DOMAIN passed[k]) <= 2 * Limit(k)
    BY DEF BurstIsBounded
  <2> DEFINE W == Ttl(k)
             L == Limit(k)
             c == count[k]
             t == ttl[k]
             p == passed[k]
  <2>1. k \in Keys /\ W \in Nat \ {0} /\ L \in Nat \ {0}
    BY RateKeyFacts
  <2>2. c \in Nat /\ t \in 0..W /\ (c = 0 <=> t = 0)
    BY <2>1 DEF Inv, CountersFit
  <2>3. IsHistory(p, W, L + 1) /\ WindowFits(c, t, p, W, L)
    BY DEF Inv, RateLimitsFit
  <2> HIDE DEF W, L, c, t, p
  <2>4. DOMAIN p = 0..(W - 1)
    BY <2>3 DEF IsHistory
  <2>5. Total(p, 0..(W - 1)) <= 2 * L
    <3> DEFINE w == W - 1
               a == W - t
               a1 == a + 1
    <3>1. CASE c = 0
      <4>1. Total(p, 0..w) <= L
        BY <3>1, <2>3 DEF WindowFits
      <4>2. Total(p, 0..w) \in Nat
        <5>1. /\ 0 \in Nat /\ w \in Int /\ w <= W - 1 /\ L + 1 \in Nat
          BY <2>1
        <5> HIDE DEF w
        <5> QED BY <2>1, <2>3, <5>1, HistoryIsNatural, Zenon
      <4> HIDE DEF w
      <4>3. Total(p, 0..w) <= 2 * L
        BY <2>1, <4>1, <4>2
      <4> QED BY <4>3 DEF w
    <3>2. CASE c # 0
      <4>1. Total(p, 0..a) <= Lower(c, L) /\ Total(p, a1..w) <= L
        BY <3>2, <2>3 DEF WindowFits
      <4>2. /\ 0 \in Nat /\ a1 \in Nat /\ a \in Int /\ a <= W - 1 /\ L + 1 \in Nat
            /\ w \in Int /\ w <= W - 1 /\ 0 - 1 <= a /\ a <= w /\ 0 \in Int
            /\ a1 = a + 1
        BY <2>1, <2>2, <3>2
      <4> HIDE DEF a, a1, w
      <4>3. /\ \A x \in 0..w : p[x] \in Nat
            /\ Total(p, 0..a) \in Nat /\ Total(p, a1..w) \in Nat
        BY <2>1, <2>3, <4>2, HistoryIsNatural, Zenon
      <4>4. Total(p, 0..w) = Total(p, 0..a) + Total(p, a1..w)
        BY <4>2, <4>3, TotalSplits
      <4>5. Lower(c, L) <= L
        BY <2>1, <2>2 DEF Lower
      <4>6. Lower(c, L) \in Nat
        BY <2>1, <2>2 DEF Lower
      <4>7. Total(p, 0..w) <= 2 * L
        BY <2>1, <4>1, <4>3, <4>4, <4>5, <4>6
      <4> QED BY <4>7 DEF w
    <3> QED BY <3>1, <3>2
  <2>6. SumOf(p, DOMAIN p) <= 2 * L
    BY <2>4, <2>5, SumOfIsTotal
  <2> QED BY <2>6 DEF p, L
<1> QED BY <1>1, AbuseControlInvariant, PTL

\* An account is locked only by MaxFailures failures of one hour, and for an hour
\* from the last of them.
THEOREM LocksFollowFailures == Spec => []LockFollowsFailures
<1>1. Inv => LockFollowsFailures
  <2> SUFFICES ASSUME Inv, NEW a \in Accounts
               PROVE  /\ lock[a] > 0 =>
                            LET last == Hour - lock[a]
                            IN  SumOf(failed[a], last..(last + Hour - 1)) >= MaxFailures
                      /\ count[FailedKey(a)] = MaxFailures =>
                            lock[a] = Hour - Min(Recent(a))
    BY DEF LockFollowsFailures
  <2> DEFINE l == lock[a]
             f == failed[a]
  <2>1. /\ l \in 0..Hour /\ IsHistory(f, 2 * Hour, MaxFailures)
        /\ FailuresFit(count[FailedKey(a)], ttl[FailedKey(a)], l, f)
    BY DEF Inv, LocksFit
  <2>2. ASSUME l > 0
        PROVE  SumOf(f, (Hour - l)..(Hour - l + Hour - 1)) >= MaxFailures
    BY <2>1, <2>2, SumOfIsTotal DEF FailuresFit
  <2>3. ASSUME count[FailedKey(a)] = MaxFailures PROVE l = Hour - Min(Recent(a))
    <3>1. /\ l > 0 /\ f[Hour - l] > 0
          /\ \A n \in 0..(Hour - l - 1) : f[n] = 0
      BY <2>1, <2>3 DEF FailuresFit
    <3>2. Hour \in Nat \ {0} /\ Hour - l \in 0..(2 * Hour - 1)
      BY <2>1, <3>1, Positive
    <3>3. Recent(a) = {n \in 0..(2 * Hour - 1) : f[n] > 0}
      BY <2>1 DEF Recent, IsHistory
    <3>4. Hour - l \in Recent(a)
      BY <3>1, <3>2, <3>3
    <3>5. ASSUME NEW n \in Recent(a) PROVE Hour - l <= n /\ n \in Int
      <4>1. n \in 0..(2 * Hour - 1) /\ f[n] > 0
        BY <3>3
      <4> QED BY <2>1, <3>1, <3>2, <4>1
    <3>6. Min(Recent(a)) = Hour - l
      <4>1. /\ Min(Recent(a)) \in Recent(a)
            /\ \A n \in Recent(a) : Min(Recent(a)) <= n
        BY <3>4, <3>5 DEF Min
      <4>2. Hour - l \in Int
        BY <3>2
      <4> QED BY <3>4, <3>5, <4>1, <4>2
    <3> QED BY <2>1, <3>2, <3>6
  <2> QED BY <2>2, <2>3 DEF l, f
<1> QED BY <1>1, AbuseControlInvariant, PTL

\* No gate lets a login of an account pass that has used up its failures: while the
\* counter stands at MaxFailures the lock is there too.
THEOREM AttemptsAreLeft == Spec => LoginNeedsAttemptsLeft
<1> DEFINE A == \A r \in Requests :
                  LoginGate(r) \/ SecondGate(r) =>
                    At(r, "idle")' \/ count[FailedKey(req[r].account)] < MaxFailures
<1>1. Inv /\ [Next]_vars => [A]_vars
  <2> SUFFICES ASSUME Inv, NEW r \in Requests, LoginGate(r) \/ SecondGate(r),
                      ~At(r, "idle")'
               PROVE  count[FailedKey(req[r].account)] < MaxFailures
    OBVIOUS
  <2> DEFINE a == req[r].account
             k == FailedKey(a)
  <2>1. req \in [Requests -> Request] /\ RequestFits(req[r])
    BY DEF Inv, RequestsFit
  <2>2. a \in Accounts
    BY <2>1 DEF LoginGate, SecondGate, Gate, At, RequestFits
  <2>3. ~(lock[a] > 0)
    <3>1. SUFFICES ASSUME lock[a] > 0 PROVE At(r, "idle")'
      OBVIOUS
    <3>2. Finish(r)
      BY <3>1 DEF LoginGate, SecondGate, Gate
    <3>3. req'[r] = NoRequest
      BY <2>1, <3>2 DEF Finish
    <3> QED BY <3>3 DEF At, NoRequest
  <2>4. /\ FailuresFit(count[k], ttl[k], lock[a], failed[a])
        /\ k \in Keys /\ Cap(k) = MaxFailures
    BY <2>2, FailedKeyFacts DEF Inv, LocksFit
  <2>5. count[k] # MaxFailures
    BY <2>3, <2>4 DEF FailuresFit
  <2>6. count[k] \in Nat /\ count[k] <= MaxFailures
    BY <2>4 DEF Inv, CountersFit
  <2> QED BY <2>5, <2>6, Positive
<1>2. Spec => [][A]_vars
  BY <1>1, AbuseControlInvariant, PTL DEF Spec
<1> QED BY <1>2 DEF LoginNeedsAttemptsLeft
=============================================================================
