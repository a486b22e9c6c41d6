------------------------------- MODULE SoaPoll -------------------------------
(***************************************************************************)
(* The arithmetic of polling (internal/monitor): which server's serial is   *)
(* the newest when serials wrap around (serialGreater and the probe loop),  *)
(* how far the servers are apart (detectSkew), and when the next poll is    *)
(* due (ZoneRuntime.schedule).                                              *)
(*                                                                          *)
(* Versions are counted without bound and their serials are the counts      *)
(* modulo Modulus (2^32 in the code), so that what the code concludes from  *)
(* serials can be compared with the versions behind them.                   *)
(***************************************************************************)
EXTENDS Integers, FiniteSets, FiniteSetsExt

CONSTANTS
  Half,             \* half the number of serials, 2^31 in the code
  NumServers,       \* servers in configuration order
  ProbeAllServers,  \* refresh.probe_all_servers
  PreferIXFR,       \* refresh.prefer_ixfr
  MaxVersion,       \* bound: versions published
  Intervals,        \* values of SOA REFRESH and SOA RETRY
  MinInterval, MaxInterval, RetryMin, RetryMax, \* refresh.*, in seconds
  Jitter            \* refresh.jitter, in percent

Servers == 1..NumServers
Modulus == 2 * Half

ASSUME PollAssumption ==
  /\ {Half, NumServers} \subseteq Nat \ {0}
  /\ {ProbeAllServers, PreferIXFR} \subseteq BOOLEAN
  /\ MaxVersion \in Nat
  /\ Intervals \subseteq Nat
  /\ {MinInterval, MaxInterval, RetryMin, RetryMax} \subseteq Nat
  /\ Jitter \in 0..100

VARIABLES
  version,   \* version each server holds
  reach,     \* the servers that answer
  held,      \* version in the store, 0 if there is none
  soa,       \* REFRESH and RETRY of the SOA the servers publish
  wait,      \* time until the next poll
  outcome    \* how the last poll ended

vars == <<version, reach, held, soa, wait, outcome>>

serial(n) == n % Modulus

\* Mutant: serials are compared as plain numbers.
serialGreater_Plain(a, b) == a > b

\* int32(a-b) > 0
serialGreater(a, b) == (a - b) % Modulus \in 1..(Half - 1)

\* The probe loop: the best answer among the first i servers.
BestOf[i \in 0..NumServers] ==
  IF i = 0 THEN 0
  ELSE LET b == BestOf[i - 1] IN
       IF i \notin reach \/ (b # 0 /\ ~ProbeAllServers) THEN b
       ELSE IF b = 0 \/ serialGreater(serial(version[i]), serial(version[b])) THEN i
       ELSE b

best == BestOf[NumServers]

\* detectSkew: the first serial, then the least and the greatest of the others.
SerialMin[i \in Servers] ==
  LET earlier == {j \in reach : j < i}
      m == SerialMin[Max(earlier)]
  IN  IF earlier = {} \/ serialGreater(m, serial(version[i]))
        THEN serial(version[i]) ELSE m

SerialMax[i \in Servers] ==
  LET earlier == {j \in reach : j < i}
      m == SerialMax[Max(earlier)]
  IN  IF earlier = {} \/ serialGreater(serial(version[i]), m)
        THEN serial(version[i]) ELSE m

\* Mutant: the subtraction does not wrap.
Skew_Signed == SerialMax[Max(reach)] - SerialMin[Max(reach)]

\* int(max - min), the subtraction in uint32.
Skew == (SerialMax[Max(reach)] - SerialMin[Max(reach)]) % Modulus

\* Mutant: the ceiling is applied before the floor.
clamp_FloorLast(x, lo, hi) == LET y == IF x > hi THEN hi ELSE x
                              IN  IF y < lo THEN lo ELSE y

\* Raise to the floor, then cut to the ceiling.
clamp(x, lo, hi) == LET y == IF x < lo THEN lo ELSE x
                    IN  IF y > hi THEN hi ELSE y

\* The waits a base interval may be given: base times a factor in [1-jitter, 1].
Jittered(base) == {w \in 0..base : 100 * w >= base * (100 - Jitter)}

schedule(refresh, retry, failed) ==
  wait' \in Jittered(
    IF failed THEN clamp(retry, RetryMin, RetryMax)
    ELSE clamp(IF refresh = 0 THEN MaxInterval ELSE refresh, MinInterval, MaxInterval))

Init ==
  /\ version = [s \in Servers |-> 1]
  /\ reach = Servers
  /\ held = 0
  /\ soa \in [refresh : Intervals, retry : Intervals]
  /\ wait = 0
  /\ outcome = "none"

\* The serial rules only order versions less than half the serial space apart:
\* nobody falls further behind than that.
Oldest == Min({version[s] : s \in Servers} \cup IF held = 0 THEN {} ELSE {held})

Publish(s) ==
  /\ version[s] < MaxVersion
  /\ version[s] + 1 - Oldest < Half
  /\ version' = [version EXCEPT ![s] = @ + 1]
  /\ UNCHANGED <<reach, held, soa, wait, outcome>>

Reachability ==
  /\ reach' \in SUBSET Servers
  /\ UNCHANGED <<version, held, soa, wait, outcome>>

Unreachable ==
  /\ reach = {}
  /\ outcome' = "unreachable"
  /\ schedule(0, 60, TRUE)
  /\ UNCHANGED <<version, reach, held, soa>>

\* oldSerial, which is also 0 for a zone whose serial is 0.
oldSerial == IF held = 0 THEN 0 ELSE serial(held)

Unchanged ==
  /\ reach # {}
  /\ oldSerial # 0 /\ serial(version[best]) = oldSerial
  /\ outcome' = "unchanged"
  /\ schedule(soa.refresh, soa.retry, FALSE)
  /\ UNCHANGED <<version, reach, held, soa>>

NeedsTransfer ==
  /\ reach # {}
  /\ ~(oldSerial # 0 /\ serial(version[best]) = oldSerial)

TransferFails ==
  /\ NeedsTransfer
  /\ outcome' = "failed"
  /\ schedule(soa.refresh, soa.retry, TRUE)
  /\ UNCHANGED <<version, reach, held, soa>>

Transfer ==
  /\ NeedsTransfer
  /\ held' = version[best]
  /\ outcome' = IF oldSerial # 0 /\ PreferIXFR THEN "ixfr" ELSE "axfr"
  /\ schedule(soa.refresh, soa.retry, FALSE)
  /\ UNCHANGED <<version, reach, soa>>

Next ==
  \/ \E s \in Servers : Publish(s)
  \/ Reachability \/ Unreachable \/ Unchanged \/ TransferFails \/ Transfer

Spec == Init /\ [][Next]_vars
-----------------------------------------------------------------------------
(* Properties *)

\* Across a wrap of the serial, the server the probe loop settles on holds the
\* newest version of all that answered.
BestIsNewest ==
  ProbeAllServers /\ reach # {} =>
    best \in reach /\ \A s \in reach : version[s] <= version[best]

\* The skew detectSkew compares with serial_skew_warning is the number of
\* versions the servers that answered are apart.
SkewExact ==
  reach # {} =>
    Skew = Max({version[s] : s \in reach}) - Min({version[s] : s \in reach})

\* A wait never exceeds the ceiling that applies to it, nor, jitter aside, goes
\* below the floor, whatever the SOA says and even if the floor is above the
\* ceiling.
WaitInRange ==
  LET Within(lo, hi) == /\ wait <= hi
                        /\ lo <= hi => 100 * wait >= lo * (100 - Jitter)
  IN  CASE outcome \in {"unreachable", "failed"} -> Within(RetryMin, RetryMax)
        [] outcome \in {"unchanged", "ixfr", "axfr"} -> Within(MinInterval, MaxInterval)
        [] OTHER -> TRUE

\* "Failed transfers use clamp(SOA RETRY, retry_min, retry_max)": once an SOA is
\* known, also when no server answers.
RetryFollowsSOA ==
  held # 0 /\ outcome \in {"unreachable", "failed"} =>
    wait \in Jittered(clamp(soa.retry, RetryMin, RetryMax))
=============================================================================
