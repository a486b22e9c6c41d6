--------------------------- MODULE SoaPollProofs ---------------------------
(***************************************************************************)
(* The newest serial, the skew and the wait, for serials of any width, any  *)
(* number of servers and any limits: proofs about SoaPoll.                  *)
(*                                                                          *)
(* What the two loops over the servers compute is proved by least           *)
(* counterexample: the least prefix for which it fails does not exist.      *)
(***************************************************************************)
EXTENDS SoaPoll, WellFoundedInduction, TLAPS

LEMMA LeastNat ==
  ASSUME NEW T \in SUBSET Nat, T # {}
  PROVE  \E n \in T : \A m \in T : n <= m
<1> DEFINE R == OpToRel(<, Nat)
<1>1. IsWellFoundedOn(R, Nat)
  BY NatLessThanWellFounded
<1>2. \A m, n \in Nat : m < n => <<m, n>> \in R
  BY Zenon DEF OpToRel
<1> HIDE DEF R
<1>3. PICK n \in T : \A m \in T : ~(<<m, n>> \in R)
  BY <1>1, WFMin
<1>4. \A m \in T : ~(m < n)
  BY <1>2, <1>3, Zenon
<1>5. \A m \in T : n <= m
  BY <1>4
<1> QED BY <1>5

\* Max and Min are what they say, for sets of numbers that have them.
LEMMA MinOfNats ==
  ASSUME NEW T \in SUBSET Nat, T # {}
  PROVE  Min(T) \in T /\ \A m \in T : Min(T) <= m
<1>1. \E n \in T : \A m \in T : n <= m
  BY LeastNat
<1> QED BY <1>1, Zenon DEF Min

LEMMA MaxOfNats ==
  ASSUME NEW b \in Nat, NEW T \in SUBSET 0..b, T # {}
  PROVE  Max(T) \in T /\ \A m \in T : Max(T) >= m
<1> DEFINE U == {b - m : m \in T}
<1>1. U \in SUBSET Nat /\ U # {}
  <2>1. \A m \in T : b - m \in Nat
    OBVIOUS
  <2>2. PICK m : m \in T
    OBVIOUS
  <2> QED BY <2>1, <2>2
<1>2. PICK u \in U : \A v \in U : u <= v
  BY <1>1, LeastNat
<1>3. PICK n \in T : u = b - n
  BY <1>2
<1>4. \A m \in T : b - m \in U
  OBVIOUS
<1> HIDE DEF U
<1>5. \A m \in T : n >= m
  BY <1>2, <1>3, <1>4
<1>6. \E k \in T : \A m \in T : k >= m
  BY <1>5
<1> QED BY <1>6, Zenon DEF Max
-----------------------------------------------------------------------------
(* Serial arithmetic *)

LEMMA Remainder ==
  ASSUME NEW M \in Nat \ {0}, NEW x \in Int, NEW k \in Int, NEW r \in 0..(M - 1),
         x = M * k + r
  PROVE  x % M = r
<1> DEFINE q == x \div M
           s == x % M
<1>1. x = M * q + s /\ s \in 0..(M - 1) /\ q \in Int
  OBVIOUS
<1>2. q \in Int /\ s \in 0..(M - 1) /\ M * (q - k) = r - s
  BY <1>1
<1> HIDE DEF q, s
<1>3. q - k \in Int
  BY <1>2
<1>4. q - k >= 1 => M * (q - k) >= M
  BY <1>2
<1>5. q - k <= -1 => M * (q - k) <= -M
  BY <1>2
<1> QED BY <1>2, <1>3, <1>4, <1>5 DEF s

\* The difference of two serials, taken modulo the number of serials, is the
\* difference of the versions when that is small enough.
LEMMA SerialDifference ==
  ASSUME NEW a \in Nat, NEW b \in Nat
  PROVE  /\ a - b \in 0..(Modulus - 1) =>
              (serial(a) - serial(b)) % Modulus = a - b
         /\ b - a \in 1..(Modulus - 1) =>
              (serial(a) - serial(b)) % Modulus = Modulus - (b - a)
<1> DEFINE M == Modulus
           p == a \div M
           q == b \div M
           x == a % M
           y == b % M
<1>1. M \in Nat \ {0}
  BY PollAssumption DEF Modulus
<1> HIDE DEF M
<1>2. /\ a = M * p + x /\ x \in 0..(M - 1) /\ p \in Int
      /\ b = M * q + y /\ y \in 0..(M - 1) /\ q \in Int
  BY <1>1
<1> HIDE DEF p, q, x, y
<1>3. x - y = M * (q - p) + (a - b)
  BY <1>1, <1>2
<1>4. x - y = M * (q - p - 1) + (M - (b - a))
  BY <1>1, <1>3, <1>2
<1>5. x - y \in Int /\ q - p \in Int /\ q - p - 1 \in Int
  BY <1>1, <1>2
<1>6. a - b \in 0..(M - 1) => (x - y) % M = a - b
  BY <1>1, <1>3, <1>5, Remainder
<1>7. b - a \in 1..(M - 1) => (x - y) % M = M - (b - a)
  <2> SUFFICES ASSUME b - a \in 1..(M - 1) PROVE (x - y) % M = M - (b - a)
    OBVIOUS
  <2>1. M - (b - a) \in 0..(M - 1)
    BY <1>1
  <2> QED BY <1>1, <1>4, <1>5, <2>1, Remainder
<1> QED BY <1>6, <1>7 DEF M, x, y, serial

\* Less than half the serial space apart, serials are ordered as the versions.
LEMMA SerialOrder ==
  ASSUME NEW a \in Nat, NEW b \in Nat, a - b < Half, b - a < Half
  PROVE  serialGreater(serial(a), serial(b)) <=> a > b
<1>1. Half \in Nat \ {0} /\ Modulus = 2 * Half
  BY PollAssumption DEF Modulus
<1> DEFINE d == (serial(a) - serial(b)) % Modulus
<1>2. a >= b => d = a - b
  BY <1>1, SerialDifference
<1>3. a < b => d = Modulus - (b - a)
  BY <1>1, SerialDifference
<1> HIDE DEF d
<1>4. d \in 1..(Half - 1) <=> a > b
  BY <1>1, <1>2, <1>3
<1> QED BY <1>4 DEF d, serialGreater
-----------------------------------------------------------------------------
(* The probe loop *)

\* One round of the loop: server i after the best b so far.
Better(i, b) ==
  IF i \notin reach \/ (b # 0 /\ ~ProbeAllServers) THEN b
  ELSE IF b = 0 \/ serialGreater(serial(version[i]), serial(version[b])) THEN i
  ELSE b

IsBest(f, n) == f = [i \in 0..n |-> IF i = 0 THEN 0 ELSE Better(i, f[i - 1])]

LEMMA BestExists == \A n \in Nat : \E f : IsBest(f, n)
<1> DEFINE T == {n \in Nat : ~\E f : IsBest(f, n)}
<1> SUFFICES ASSUME T # {} PROVE FALSE
  OBVIOUS
<1>1. PICK n \in T : \A m \in T : n <= m
  BY LeastNat
<1>2. n # 0
  <2>1. IsBest([i \in 0..0 |-> 0], 0)
    BY DEF IsBest
  <2> QED BY <1>1, <2>1
<1>3. n - 1 \in Nat /\ n \in Nat /\ n - 1 \notin T
  BY <1>1, <1>2
<1>4. PICK f : IsBest(f, n - 1)
  BY <1>3
<1> DEFINE g == [i \in 0..n |-> IF i = n THEN Better(n, f[n - 1]) ELSE f[i]]
<1>5. ASSUME NEW i \in 0..n
      PROVE  g[i] = IF i = 0 THEN 0 ELSE Better(i, g[i - 1])
  <2>1. CASE i = n
    <3>1. n - 1 \in 0..n /\ n - 1 # n
      BY <1>3
    <3>2. g[n - 1] = f[n - 1]
      BY <3>1
    <3> QED BY <1>2, <2>1, <3>2
  <2>2. CASE i # n
    <3>1. i \in 0..(n - 1) /\ (i # 0 => i - 1 \in 0..n /\ i - 1 # n)
      BY <1>3, <2>2
    <3>2. g[i] = f[i] /\ (i # 0 => g[i - 1] = f[i - 1])
      BY <2>2, <3>1
    <3>3. f[i] = IF i = 0 THEN 0 ELSE Better(i, f[i - 1])
      BY <1>4, <3>1 DEF IsBest
    <3> QED BY <3>2, <3>3
  <2> QED BY <2>1, <2>2
<1>6. IsBest(g, n)
  <2>1. g = [i \in 0..n |-> g[i]]
    OBVIOUS
  <2> HIDE DEF g
  <2> QED BY <1>5, <2>1 DEF IsBest
<1> QED BY <1>1, <1>6

LEMMA BestOfDef == IsBest(BestOf, NumServers)
<1>1. \E f : IsBest(f, NumServers)
  BY PollAssumption, BestExists
<1>2. BestOf = CHOOSE f : IsBest(f, NumServers)
  BY Zenon DEF BestOf, IsBest, Better
<1> QED BY <1>1, <1>2
\* Versions are counts, and no two servers are half the serial space apart.
Together ==
  /\ version \in [Servers -> Nat]
  /\ \A s, t \in Servers : version[s] - version[t] < Half

\* The best of the first n servers.
Newest(n) ==
  LET R == {s \in reach : s <= n}
  IN  /\ R = {} => BestOf[n] = 0
      /\ R # {} => BestOf[n] \in R
      /\ R # {} /\ ProbeAllServers => \A s \in R : version[s] <= version[BestOf[n]]

LEMMA RoundOrdered ==
  ASSUME Together, NEW s \in Servers, NEW t \in Servers
  PROVE  serialGreater(serial(version[s]), serial(version[t])) <=> version[s] > version[t]
BY SerialOrder DEF Together

LEMMA LoopFindsNewest ==
  ASSUME Together, reach \subseteq Servers
  PROVE  \A n \in 0..NumServers : Newest(n)
<1> DEFINE T == {n \in 0..NumServers : ~Newest(n)}
<1> SUFFICES ASSUME T # {} PROVE FALSE
  OBVIOUS
<1>0. NumServers \in Nat /\ ProbeAllServers \in BOOLEAN
  BY PollAssumption
<1>1. PICK n \in T : \A m \in T : n <= m
  <2>1. T \in SUBSET Nat
    BY <1>0
  <2> QED BY <2>1, LeastNat
<1>2. BestOf[0] = 0 /\ \A i \in 0..NumServers : i # 0 => BestOf[i] = Better(i, BestOf[i - 1])
  BY <1>0, BestOfDef DEF IsBest
<1>3. n # 0
  <2>1. \A s \in reach : ~(s <= 0)
    BY <1>0 DEF Servers
  <2>2. {s \in reach : s <= 0} = {}
    BY <2>1
  <2>3. Newest(0)
    BY <1>2, <2>2 DEF Newest
  <2> QED BY <1>1, <2>3
<1>4. n - 1 \in 0..NumServers /\ n \in 0..NumServers /\ n - 1 \notin T /\ n \in Servers
  BY <1>0, <1>1, <1>3 DEF Servers
<1>5. Newest(n - 1)
  BY <1>4
<1> DEFINE R == {s \in reach : s <= n - 1}
           b == BestOf[n - 1]
           R2 == {s \in reach : s <= n}
<1>6. /\ R = {} => b = 0
      /\ R # {} => b \in R
      /\ R # {} /\ ProbeAllServers => \A s \in R : version[s] <= version[b]
  BY <1>5 DEF Newest
<1>7. BestOf[n] = Better(n, b)
  BY <1>2, <1>3, <1>4
<1>8. R2 = IF n \in reach THEN R \cup {n} ELSE R
  <2>1. \A s \in reach : s <= n <=> (s <= n - 1 \/ s = n)
    BY <1>0, <1>4 DEF Servers
  <2> QED BY <2>1
<1>9. \A s \in R : s \in Servers /\ version[s] \in Nat /\ s # 0
  BY <1>0 DEF Together, Servers
<1>10. version[n] \in Nat /\ n # 0
  BY <1>3, <1>4 DEF Together
<1> HIDE DEF R, b, R2, T
<1>11. CASE n \notin reach
  <2>1. BestOf[n] = b /\ R2 = R
    BY <1>7, <1>8, <1>11 DEF Better
  <2>2. Newest(n)
    BY <1>6, <2>1 DEF Newest, R2
  <2> QED BY <1>1, <2>2 DEF T
<1>12. CASE n \in reach
  <2>1. R2 = R \cup {n}
    BY <1>8, <1>12
  <2>2. CASE R = {}
    <3>1. BestOf[n] = n
      BY <1>6, <1>7, <1>12, <2>2 DEF Better
    <3>2. Newest(n)
      BY <1>10, <2>1, <2>2, <3>1 DEF Newest, R2
    <3> QED BY <1>1, <3>2 DEF T
  <2>3. CASE R # {}
    <3>1. b \in R /\ b \in Servers /\ b # 0 /\ version[b] \in Nat
      BY <1>6, <1>9, <2>3
    <3>2. serialGreater(serial(version[n]), serial(version[b])) <=> version[n] > version[b]
      BY <1>4, <3>1, RoundOrdered
    <3>3. /\ ~ProbeAllServers => BestOf[n] = b
          /\ ProbeAllServers => BestOf[n] = IF version[n] > version[b] THEN n ELSE b
      BY <1>0, <1>7, <1>12, <3>1, <3>2 DEF Better
    <3>4. /\ BestOf[n] \in R2
          /\ ProbeAllServers => \A s \in R2 : version[s] <= version[BestOf[n]]
      BY <1>0, <1>6, <1>9, <1>10, <2>1, <2>3, <3>1, <3>3
    <3>5. Newest(n)
      BY <3>4 DEF Newest, R2
    <3> QED BY <1>1, <3>5 DEF T
  <2> QED BY <2>2, <2>3
<1> QED BY <1>11, <1>12

LEMMA BestNewest ==
  ASSUME Together, reach \subseteq Servers, reach # {}
  PROVE  /\ best \in reach
         /\ ProbeAllServers => \A s \in reach : version[s] <= version[best]
<1>1. NumServers \in Nat /\ Newest(NumServers)
  BY PollAssumption, LoopFindsNewest
<1>2. \A s \in reach : s <= NumServers
  BY <1>1 DEF Servers
<1>3. {s \in reach : s <= NumServers} = reach
  BY <1>2
<1> QED BY <1>1, <1>3 DEF Newest, best
-----------------------------------------------------------------------------
(* The schedule *)

LEMMA ClampRange ==
  ASSUME NEW x \in Nat, NEW lo \in Nat, NEW hi \in Nat
  PROVE  clamp(x, lo, hi) \in Nat /\ clamp(x, lo, hi) <= hi
         /\ (lo <= hi => clamp(x, lo, hi) >= lo)
BY DEF clamp

\* A jittered wait between a floor and a ceiling.
LEMMA JitterRange ==
  ASSUME NEW base \in Nat, NEW lo \in Nat, NEW hi \in Nat, base <= hi,
         lo <= hi => base >= lo, NEW w \in Jittered(base)
  PROVE  /\ w \in Nat /\ w <= hi
         /\ lo <= hi => 100 * w >= lo * (100 - Jitter)
<1> DEFINE k == 100 - Jitter
<1>1. k \in Nat
  BY PollAssumption
<1>2. w \in Nat /\ w <= base /\ 100 * w >= base * k
  BY DEF Jittered
<1> HIDE DEF k
<1>3. ASSUME base >= lo PROVE base * k >= lo * k
  BY <1>1, <1>3
<1>4. base * k \in Nat /\ lo * k \in Nat
  BY <1>1
<1> QED BY <1>2, <1>3, <1>4 DEF k
\* The bounds on a wait after a poll that failed, and after one that did not.
LEMMA ScheduleRange ==
  ASSUME NEW refresh \in Nat, NEW retry \in Nat, NEW failed \in BOOLEAN,
         schedule(refresh, retry, failed)
  PROVE  LET lo == IF failed THEN RetryMin ELSE MinInterval
             hi == IF failed THEN RetryMax ELSE MaxInterval
         IN  wait' <= hi /\ (lo <= hi => 100 * wait' >= lo * (100 - Jitter))
<1>1. {MinInterval, MaxInterval, RetryMin, RetryMax} \subseteq Nat
  BY PollAssumption
<1>2. CASE failed
  <2>1. wait' \in Jittered(clamp(retry, RetryMin, RetryMax))
    BY <1>2 DEF schedule
  <2> QED BY <1>1, <1>2, <2>1, ClampRange, JitterRange
<1>3. CASE ~failed
  <2> DEFINE x == IF refresh = 0 THEN MaxInterval ELSE refresh
  <2>1. x \in Nat /\ wait' \in Jittered(clamp(x, MinInterval, MaxInterval))
    BY <1>1, <1>3 DEF schedule
  <2> HIDE DEF x
  <2> QED BY <1>1, <1>3, <2>1, ClampRange, JitterRange
<1> QED BY <1>2, <1>3
-----------------------------------------------------------------------------
PollInv ==
  /\ Together
  /\ reach \subseteq Servers
  /\ held \in Nat
  /\ soa \in [refresh : Intervals, retry : Intervals]
  /\ WaitInRange

LEMMA PublishStep ==
  ASSUME PollInv, NEW s \in Servers, Publish(s)
  PROVE  Together'
<1> DEFINE V == {version[t] : t \in Servers} \cup IF held = 0 THEN {} ELSE {held}
<1>1. version \in [Servers -> Nat] /\ held \in Nat /\ Half \in Nat \ {0}
  BY PollAssumption DEF PollInv, Together
<1>2. V \in SUBSET Nat /\ V # {}
  BY <1>1
<1>3. \A t \in Servers : version[t] \in V
  OBVIOUS
<1>4. Oldest = Min(V)
  BY DEF Oldest
<1> HIDE DEF V
<1>5. Oldest \in Nat /\ \A t \in Servers : Oldest <= version[t]
  BY <1>2, <1>3, <1>4, MinOfNats
<1>6. /\ version' = [version EXCEPT ![s] = @ + 1]
      /\ version[s] + 1 - Oldest < Half
  BY DEF Publish
<1>7. version' \in [Servers -> Nat]
  BY <1>1, <1>6
<1>8. ASSUME NEW t \in Servers, NEW u \in Servers
      PROVE  version'[t] - version'[u] < Half
  <2>1. version[t] - version[u] < Half
    BY DEF PollInv, Together
  <2> QED BY <1>1, <1>5, <1>6, <2>1
<1> QED BY <1>7, <1>8 DEF Together, Servers

\* A step that schedules the next poll.
LEMMA PollStep ==
  ASSUME PollInv,
         \/ Unreachable \/ Unchanged \/ TransferFails \/ Transfer
  PROVE  PollInv'
<1>1. /\ version \in [Servers -> Nat] /\ reach \subseteq Servers /\ held \in Nat
      /\ soa.refresh \in Nat /\ soa.retry \in Nat
  BY PollAssumption DEF PollInv, Together
<1>2. UNCHANGED <<version, reach, soa>>
  BY DEF Unreachable, Unchanged, TransferFails, Transfer
<1>3. Together' /\ reach' \subseteq Servers' /\ soa' \in [refresh : Intervals, retry : Intervals]
  BY <1>2 DEF PollInv, Together, Servers
<1>4. CASE Unreachable
  <2>1. schedule(0, 60, TRUE) /\ outcome' = "unreachable" /\ held' = held
    BY <1>4 DEF Unreachable
  <2>2. WaitInRange'
    BY <2>1, ScheduleRange DEF WaitInRange
  <2> QED BY <1>1, <1>3, <2>1, <2>2 DEF PollInv
<1>5. CASE Unchanged
  <2>1. schedule(soa.refresh, soa.retry, FALSE) /\ outcome' = "unchanged" /\ held' = held
    BY <1>5 DEF Unchanged
  <2>2. WaitInRange'
    BY <1>1, <2>1, ScheduleRange DEF WaitInRange
  <2> QED BY <1>1, <1>3, <2>1, <2>2 DEF PollInv
<1>6. CASE TransferFails
  <2>1. schedule(soa.refresh, soa.retry, TRUE) /\ outcome' = "failed" /\ held' = held
    BY <1>6 DEF TransferFails
  <2>2. WaitInRange'
    BY <1>1, <2>1, ScheduleRange DEF WaitInRange
  <2> QED BY <1>1, <1>3, <2>1, <2>2 DEF PollInv
<1>7. CASE Transfer
  <2>1. /\ schedule(soa.refresh, soa.retry, FALSE) /\ outcome' \in {"ixfr", "axfr"}
        /\ held' = version[best]
    BY <1>7 DEF Transfer
  <2>2. WaitInRange'
    BY <1>1, <2>1, ScheduleRange DEF WaitInRange
  <2>3. best \in Servers
    BY <1>7, BestNewest DEF Transfer, NeedsTransfer, PollInv
  <2> QED BY <1>1, <1>3, <2>1, <2>2, <2>3 DEF PollInv
<1> QED BY <1>4, <1>5, <1>6, <1>7
\* No two servers fall half the serial space apart, and every wait is within
\* its limits.
THEOREM PollInvariance == Spec => []PollInv
<1>1. Init => PollInv
  <2> SUFFICES ASSUME Init PROVE PollInv
    OBVIOUS
  <2>1. Together
    BY PollAssumption DEF Init, Together
  <2>2. WaitInRange
    BY DEF Init, WaitInRange
  <2> QED BY <2>1, <2>2 DEF Init, PollInv
<1>2. PollInv /\ [Next]_vars => PollInv'
  <2> SUFFICES ASSUME PollInv, [Next]_vars PROVE PollInv'
    OBVIOUS
  <2>1. CASE \E s \in Servers : Publish(s)
    <3>1. Together'
      BY <2>1, PublishStep
    <3>2. UNCHANGED <<reach, held, soa, wait, outcome>>
      BY <2>1 DEF Publish
    <3> QED BY <3>1, <3>2 DEF PollInv, WaitInRange, Servers
  <2>2. CASE Reachability
    <3>1. Together'
      BY <2>2 DEF Reachability, PollInv, Together, Servers
    <3> QED BY <2>2, <3>1 DEF Reachability, PollInv, WaitInRange, Servers
  <2>3. CASE Unreachable \/ Unchanged \/ TransferFails \/ Transfer
    BY <2>3, PollStep
  <2>4. CASE UNCHANGED vars
    <3>1. Together'
      BY <2>4 DEF vars, PollInv, Together, Servers
    <3> QED BY <2>4, <3>1 DEF vars, PollInv, WaitInRange, Servers
  <2> QED BY <2>1, <2>2, <2>3, <2>4 DEF Next
<1> QED BY <1>1, <1>2, PTL DEF Spec

\* The server the probe loop settles on holds the newest version, across any
\* number of wraps of the serial.
THEOREM NewestWins == Spec => []BestIsNewest
<1>1. PollInv => BestIsNewest
  BY BestNewest DEF PollInv, BestIsNewest
<1> QED BY <1>1, PollInvariance, PTL

\* Every wait is within the limits configured for it.
THEOREM WaitsBounded == Spec => []WaitInRange
<1>1. PollInv => WaitInRange
  BY DEF PollInv
<1> QED BY <1>1, PollInvariance, PTL
-----------------------------------------------------------------------------
(* The skew *)

Earlier(i) == {j \in reach : j < i}

\* One round of detectSkew: server i after the extreme serial m so far.
Further(up, m, i) ==
  IF up THEN serialGreater(serial(version[i]), m)
        ELSE serialGreater(m, serial(version[i]))

Round(up, f, i) ==
  IF Earlier(i) = {} \/ Further(up, f[Max(Earlier(i))], i)
    THEN serial(version[i]) ELSE f[Max(Earlier(i))]

IsExtreme(up, f, n) == f = [i \in 1..n |-> Round(up, f, i)]

LEMMA LastEarlier ==
  ASSUME reach \subseteq Servers, NEW i \in Nat, Earlier(i) # {}
  PROVE  /\ Max(Earlier(i)) \in reach /\ Max(Earlier(i)) \in 1..(i - 1)
         /\ \A j \in reach : j < i => j <= Max(Earlier(i))
<1>1. NumServers \in Nat
  BY PollAssumption
<1>2. \A j \in reach : j \in 1..NumServers
  BY DEF Servers
<1>3. Earlier(i) \in SUBSET 0..i
  BY <1>1, <1>2 DEF Earlier
<1>4. Max(Earlier(i)) \in Earlier(i) /\ \A j \in Earlier(i) : Max(Earlier(i)) >= j
  BY <1>3, MaxOfNats
<1>5. \A j \in Earlier(i) : j \in reach /\ j \in 1..(i - 1)
  BY <1>1, <1>2 DEF Earlier
<1>6. \A j \in reach : j < i => j \in Earlier(i)
  BY DEF Earlier
<1> HIDE DEF Earlier
<1> QED BY <1>4, <1>5, <1>6

LEMMA ExtremeExists ==
  ASSUME reach \subseteq Servers, NEW up \in BOOLEAN
  PROVE  \A n \in Nat : \E f : IsExtreme(up, f, n)
<1> DEFINE T == {n \in Nat : ~\E f : IsExtreme(up, f, n)}
<1> SUFFICES ASSUME T # {} PROVE FALSE
  OBVIOUS
<1>1. PICK n \in T : \A m \in T : n <= m
  BY LeastNat
<1>2. n # 0
  <2>1. 1..0 = {}
    OBVIOUS
  <2>2. IsExtreme(up, [i \in {} |-> 0], 0)
    BY <2>1 DEF IsExtreme
  <2> QED BY <1>1, <2>2
<1>3. n - 1 \in Nat /\ n \in Nat /\ n - 1 \notin T
  BY <1>1, <1>2
<1>4. PICK f : IsExtreme(up, f, n - 1)
  BY <1>3
<1> DEFINE g == [i \in 1..n |-> IF i = n THEN Round(up, f, n) ELSE f[i]]
<1>5. ASSUME NEW i \in 1..n PROVE g[i] = Round(up, g, i)
  <2>1. Round(up, g, i) = Round(up, f, i)
    <3>1. CASE Earlier(i) = {}
      BY <3>1 DEF Round
    <3>2. CASE Earlier(i) # {}
      <4> DEFINE j == Max(Earlier(i))
      <4>1. j \in 1..(i - 1)
        BY <1>3, <3>2, LastEarlier
      <4> HIDE DEF j
      <4>2. g[j] = f[j]
        BY <1>3, <4>1
      <4> HIDE DEF g
      <4> QED BY <4>2 DEF Round, j
    <3> QED BY <3>1, <3>2
  <2>2. CASE i = n
    BY <2>1, <2>2
  <2>3. CASE i # n
    <3>1. i \in 1..(n - 1) /\ g[i] = f[i]
      BY <1>3, <2>3
    <3>2. f[i] = Round(up, f, i)
      BY <1>4, <3>1 DEF IsExtreme
    <3> QED BY <2>1, <3>1, <3>2
  <2> QED BY <2>2, <2>3
<1>6. IsExtreme(up, g, n)
  <2>1. g = [i \in 1..n |-> g[i]]
    OBVIOUS
  <2> HIDE DEF g
  <2> QED BY <1>5, <2>1 DEF IsExtreme
<1> QED BY <1>1, <1>6

LEMMA MinMaxDef ==
  ASSUME reach \subseteq Servers
  PROVE  IsExtreme(FALSE, SerialMin, NumServers) /\ IsExtreme(TRUE, SerialMax, NumServers)
<1> DEFINE Low(f) == f = [i \in Servers |->
             LET earlier == {j \in reach : j < i}
                 m == f[Max(earlier)]
             IN  IF earlier = {} \/ serialGreater(m, serial(version[i]))
                   THEN serial(version[i]) ELSE m]
           High(f) == f = [i \in Servers |->
             LET earlier == {j \in reach : j < i}
                 m == f[Max(earlier)]
             IN  IF earlier = {} \/ serialGreater(serial(version[i]), m)
                   THEN serial(version[i]) ELSE m]
<1>1. NumServers \in Nat
  BY PollAssumption
<1>2. \A f : Low(f) <=> IsExtreme(FALSE, f, NumServers)
  BY DEF IsExtreme, Round, Further, Earlier, Servers
<1>3. \A f : High(f) <=> IsExtreme(TRUE, f, NumServers)
  BY DEF IsExtreme, Round, Further, Earlier, Servers
<1>4. (\E f : IsExtreme(FALSE, f, NumServers)) /\ \E f : IsExtreme(TRUE, f, NumServers)
  BY <1>1, ExtremeExists
<1>5. SerialMin = CHOOSE f : Low(f)
  BY Zenon DEF SerialMin
<1>6. SerialMax = CHOOSE f : High(f)
  BY Zenon DEF SerialMax
<1> HIDE DEF Low, High
<1>7. Low(SerialMin)
  BY <1>2, <1>4, <1>5, Zenon
<1>8. High(SerialMax)
  BY <1>3, <1>4, <1>6, Zenon
<1> QED BY <1>2, <1>3, <1>7, <1>8
\* Version x is at least as far on as y, up or down.
Beyond(up, x, y) == IF up THEN y <= x ELSE x <= y

\* After server i the serial is that of the furthest version so far.
Furthest(up, f, i) ==
  \E j \in reach : /\ f[i] = serial(version[j])
                   /\ \A k \in reach : k <= i => Beyond(up, version[j], version[k])

LEMMA ExtremeFurthest ==
  ASSUME Together, reach \subseteq Servers, NEW up \in BOOLEAN, NEW f,
         IsExtreme(up, f, NumServers)
  PROVE  \A i \in reach : Furthest(up, f, i)
<1> DEFINE T == {i \in reach : ~Furthest(up, f, i)}
<1> SUFFICES ASSUME T # {} PROVE FALSE
  OBVIOUS
<1>1. NumServers \in Nat /\ \A i \in reach : i \in 1..NumServers /\ i \in Nat
  BY PollAssumption DEF Servers
<1>2. PICK n \in T : \A m \in T : n <= m
  <2>1. T \in SUBSET Nat
    BY <1>1
  <2> QED BY <2>1, LeastNat
<1>3. n \in reach /\ n \in Servers /\ n \in Nat
  BY <1>1, <1>2
<1>4. f[n] = Round(up, f, n)
  BY <1>1, <1>3 DEF IsExtreme
<1>5. \A k \in reach : k \in Servers /\ version[k] \in Nat
  BY DEF Together
<1>6. CASE Earlier(n) = {}
  <2>1. f[n] = serial(version[n])
    BY <1>4, <1>6 DEF Round
  <2>2. \A k \in reach : k <= n => k = n
    BY <1>1, <1>3, <1>6 DEF Earlier
  <2>3. Furthest(up, f, n)
    BY <1>3, <1>5, <2>1, <2>2 DEF Furthest, Beyond
  <2> QED BY <1>2, <2>3
<1>7. CASE Earlier(n) # {}
  <2> DEFINE l == Max(Earlier(n))
  <2>1. l \in reach /\ l \in 1..(n - 1) /\ \A k \in reach : k < n => k <= l
    BY <1>3, <1>7, LastEarlier
  <2>2. f[n] = IF Further(up, f[l], n) THEN serial(version[n]) ELSE f[l]
    BY <1>4, <1>7 DEF Round
  <2> HIDE DEF l
  <2>3. l \notin T
    BY <1>2, <1>3, <2>1
  <2>4. PICK j \in reach : /\ f[l] = serial(version[j])
                           /\ \A k \in reach : k <= l => Beyond(up, version[j], version[k])
    BY <2>1, <2>3 DEF Furthest
  <2>5. /\ serialGreater(serial(version[n]), serial(version[j])) <=> version[n] > version[j]
        /\ serialGreater(serial(version[j]), serial(version[n])) <=> version[j] > version[n]
    BY <1>3, <1>5, RoundOrdered
  <2>6. \A k \in reach : k <= n => k = n \/ k <= l
    BY <1>1, <1>3, <2>1
  <2>7. CASE Further(up, f[l], n)
    <3>1. f[n] = serial(version[n])
      BY <2>2, <2>7
    <3>2. \A k \in reach : k <= n => Beyond(up, version[n], version[k])
      BY <1>3, <1>5, <2>4, <2>5, <2>6, <2>7 DEF Further, Beyond
    <3>3. Furthest(up, f, n)
      BY <1>3, <3>1, <3>2 DEF Furthest
    <3> QED BY <1>2, <3>3
  <2>8. CASE ~Further(up, f[l], n)
    <3>1. f[n] = serial(version[j])
      BY <2>2, <2>4, <2>8
    <3>2. \A k \in reach : k <= n => Beyond(up, version[j], version[k])
      BY <1>3, <1>5, <2>4, <2>5, <2>6, <2>8 DEF Further, Beyond
    <3>3. Furthest(up, f, n)
      BY <3>1, <3>2 DEF Furthest
    <3> QED BY <1>2, <3>3
  <2> QED BY <2>7, <2>8
<1> QED BY <1>6, <1>7

\* The skew compared with the warning limit is the number of versions between
\* the newest and the oldest server that answered, across any wrap.
THEOREM SkewCounted == Spec => []SkewExact
<1>1. PollInv => SkewExact
  <2> SUFFICES ASSUME PollInv, reach # {}
               PROVE  Skew = Max({version[s] : s \in reach}) - Min({version[s] : s \in reach})
    BY DEF SkewExact
  <2>1. Together /\ reach \subseteq Servers
    BY DEF PollInv
  <2>2. /\ NumServers \in Nat /\ Half \in Nat \ {0} /\ Modulus = 2 * Half
        /\ \A s \in reach : s \in 1..NumServers /\ s \in Servers /\ version[s] \in Nat
    BY <2>1, PollAssumption DEF Together, Servers, Modulus
  <2> DEFINE l == Max(reach)
             V == {version[s] : s \in reach}
  <2>3. l \in reach /\ \A s \in reach : s <= l
    <3>1. reach \in SUBSET 0..NumServers
      BY <2>2
    <3> QED BY <2>2, <3>1, MaxOfNats
  <2>4. Skew = (SerialMax[l] - SerialMin[l]) % Modulus
    BY DEF Skew
  <2> HIDE DEF l
  <2>5. Furthest(TRUE, SerialMax, l) /\ Furthest(FALSE, SerialMin, l)
    BY <2>1, <2>3, MinMaxDef, ExtremeFurthest
  <2>6. PICK j \in reach : /\ SerialMax[l] = serial(version[j])
                           /\ \A k \in reach : version[k] <= version[j]
    BY <2>3, <2>5 DEF Furthest, Beyond
  <2>7. PICK i \in reach : /\ SerialMin[l] = serial(version[i])
                           /\ \A k \in reach : version[i] <= version[k]
    BY <2>3, <2>5 DEF Furthest, Beyond
  <2>8. version[j] \in V /\ version[i] \in V /\ V # {}
        /\ \A x \in V : x \in Nat /\ x <= version[j] /\ version[i] <= x
    BY <2>2, <2>6, <2>7
  <2>9. V \in SUBSET 0..version[j] /\ V \in SUBSET Nat
    BY <2>8
  <2> HIDE DEF V
  <2>10. Max(V) \in V /\ \A x \in V : Max(V) >= x
    BY <2>2, <2>8, <2>9, MaxOfNats
  <2>11. Min(V) \in V /\ \A x \in V : Min(V) <= x
    BY <2>8, <2>9, MinOfNats
  <2>12. Max(V) = version[j] /\ Min(V) = version[i]
    BY <2>8, <2>10, <2>11
  <2>13. version[j] - version[i] \in 0..(Modulus - 1)
    <3>1. version[j] - version[i] < Half
      BY <2>1, <2>2 DEF Together
    <3> QED BY <2>2, <2>6, <3>1
  <2>14. Skew = version[j] - version[i]
    BY <2>2, <2>4, <2>6, <2>7, <2>13, SerialDifference
  <2> QED BY <2>12, <2>14 DEF V
<1> QED BY <1>1, PollInvariance, PTL
=============================================================================
