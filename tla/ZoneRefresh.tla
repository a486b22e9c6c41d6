----------------------------- MODULE ZoneRefresh -----------------------------
(***************************************************************************)
(* The refresh life cycle of monitored zones (internal/monitor): the        *)
(* Refresh goroutines that probe, transfer, verify and commit, racing with  *)
(* the manager's one-second tick, the expiry sweep, the chain-of-trust      *)
(* checker and refresh requests, against name servers that publish new      *)
(* versions, fall behind and go away.                                       *)
(*                                                                          *)
(* A critical section of ZoneRuntime.mu is one step, and so is a network    *)
(* exchange.  What a goroutine reads in one section and uses in a later one *)
(* is kept in its job record.  Time is abstract: a deadline is unset, ahead *)
(* or passed, and separate actions let it pass; only signature lifetimes    *)
(* use a clock, because verification compares them with it.                 *)
(***************************************************************************)
EXTENDS Integers, Verifier

CONSTANTS
  Zones,                \* monitored zones
  Procs,                \* goroutines that run Refresh; bounds how many at once
  ConcurrentTransfers,  \* capacity of the manager's semaphore
  NumServers,           \* servers of a zone, in configuration order
  MaxSerial,            \* bound: versions of a zone the servers publish
  Content,              \* the content of each version
  MaxNow,               \* bound: last clock value
  MaxRequests,          \* bound: refresh requests from the API and NOTIFY
  PreferIXFR,           \* refresh.prefer_ixfr
  ProbeAllServers,      \* refresh.probe_all_servers
  SerialSkewWarning,    \* refresh.serial_skew_warning
  ZONEMDMaxAge,         \* verification.zonemd_max_age is set
  ChainEnabled,         \* chain_of_trust.enabled
  SnapshotResume,       \* zones may start from a snapshot on disk
  ApplyMayFail,         \* applying an incremental transfer may fail
  ServersMayFail        \* a server may become unreachable

Serials == 1..MaxSerial
Servers == 1..NumServers

ASSUME RefreshAssumption ==
  /\ "none" \notin Zones
  /\ IsFiniteSet(Procs)
  /\ ConcurrentTransfers \in Nat \ {0}
  /\ NumServers \in Nat \ {0}
  /\ MaxSerial \in Nat \ {0}
  /\ Content \in [Serials -> ContentType]
  /\ MaxNow \in Nat
  /\ MaxRequests \in Nat
  /\ SerialSkewWarning \in Nat
  /\ {PreferIXFR, ProbeAllServers, ZONEMDMaxAge, ChainEnabled,
      SnapshotResume, ApplyMayFail, ServersMayFail} \subseteq BOOLEAN

VARIABLES
  \* ZoneRuntime, one value per zone
  State, History, Store, Findings, Refreshing, RefreshFull, NextRefresh,
  ExpireAt, ChainOK, ZONEMDCheckedAt, ZONEMDOK, ZONEMDStale, SkewSince,
  \* Manager and goroutines
  sem,          \* slots taken in the semaphore
  pc, job,      \* where each goroutine is, and what it carries
  boot,         \* zones whose initial refresh Run has not started yet
  lookups,      \* zones the chain checker is looking up DS records for
  \* what the outside sees
  announced,    \* last zone_valid / zone_invalid event of each zone
  gauge,        \* the dnssec_zone_valid gauge of each zone
  \* environment
  serial, up,   \* version each server holds, and whether it answers
  now,          \* clock for signature lifetimes
  requests      \* refresh requests made so far

verdictVars == <<State, History>>
timerVars   == <<NextRefresh, ExpireAt>>
gateVars    == <<Refreshing, RefreshFull>>
zonemdVars  == <<ZONEMDCheckedAt, ZONEMDOK, ZONEMDStale>>
chainVars   == <<ChainOK, lookups>>
outVars     == <<announced, gauge>>
envVars     == <<serial, up, now, requests>>
vars == <<verdictVars, Store, Findings, gateVars, timerVars, chainVars,
          zonemdVars, SkewSince, sem, pc, job, boot, outVars, envVars>>

TerminalStates == {"valid", "invalid", "unsigned", "transfer_failed", "stale"}
BusyStates     == {"transferring", "verifying"}
States         == TerminalStates \cup BusyStates \cup {"unknown"}

\* A store is its serial (0: none yet); it is torn when an incremental
\* transfer was applied in part before a record could not be packed.
NoStore == [serial |-> 0, torn |-> FALSE]

\* The newest History entry.  setState, the only writer, is only ever called
\* with terminal states, so the older entries are never looked at.
NoEntry == [state |-> "unknown", serial |-> 0]

Idle ==
  [zone |-> "none", full |-> FALSE, old |-> 0, server |-> 0, best |-> 0,
   method |-> "none", got |-> 0, touched |-> {}, dnskey |-> FALSE,
   res |-> NoResult]

\* The goroutine has won TryLockRefresh; it has a slot of the semaphore.
SlotSteps == {"probe", "decide", "transfer", "install", "verify", "merge",
              "commit", "publish", "release"}
LockSteps == SlotSteps \cup {"slot", "unlock"}
Steps     == LockSteps \cup {"idle", "start"}

\* Stores read from snapshots, which AttachStore gives to zones before Run.
Attached ==
  IF SnapshotResume THEN {[serial |-> s, torn |-> FALSE] : s \in Serials} ELSE {}

\* The version published when the process starts: with a snapshot, the one it holds.
FirstSerial(z) == IF Store[z].serial = 0 THEN 1 ELSE Store[z].serial

\* Findings that Restore reads back from the state file, with or without a
\* snapshot: at best those of a full pass over that version.
Restored(z) == Full(Content[FirstSerial(z)], 0).found

Init ==
  /\ Store \in [Zones -> {NoStore} \cup Attached]
  /\ \E R \in SUBSET Zones :
       Findings = [z \in Zones |-> IF z \in R THEN Restored(z) ELSE {}]
  /\ State = [z \in Zones |-> "unknown"]
  /\ History = [z \in Zones |-> NoEntry]
  /\ Refreshing = [z \in Zones |-> FALSE]
  /\ RefreshFull = [z \in Zones |-> FALSE]
  /\ NextRefresh = [z \in Zones |-> "zero"]
  /\ ExpireAt = [z \in Zones |-> "zero"]
  /\ ChainOK = [z \in Zones |-> "nil"]
  /\ ZONEMDCheckedAt = [z \in Zones |-> "zero"]
  /\ ZONEMDOK = [z \in Zones |-> "nil"]
  /\ ZONEMDStale = [z \in Zones |-> FALSE]
  /\ SkewSince = [z \in Zones |-> "zero"]
  /\ sem = 0
  /\ pc = [p \in Procs |-> "idle"]
  /\ job = [p \in Procs |-> Idle]
  /\ boot = Zones
  /\ lookups = {}
  /\ announced = [z \in Zones |-> "none"]
  /\ gauge = [z \in Zones |-> "unset"]
  /\ serial = [z \in Zones |-> [s \in Servers |-> FirstSerial(z)]]
  /\ up = [z \in Zones |-> [s \in Servers |-> TRUE]]
  /\ now = 0
  /\ requests = 0
-----------------------------------------------------------------------------
(* ZoneRuntime methods *)

\* Mutant: no new entry when the newest one already has this state.
setState_SkipsRepeats(z, s, ser) ==
  /\ State' = [State EXCEPT ![z] = s]
  /\ History' = [History EXCEPT ![z] =
       IF @.state = s THEN @ ELSE [state |-> s, serial |-> ser]]

setState(z, s, ser) ==
  /\ State' = [State EXCEPT ![z] = s]
  /\ History' = [History EXCEPT ![z] = [state |-> s, serial |-> ser]]

schedule(z) == NextRefresh' = [NextRefresh EXCEPT ![z] = "future"]

lastTerminalState(z) ==
  IF State[z] \in TerminalStates THEN State[z] ELSE History[z].state

\* zonemdMaxAgeDue, for a store with this serial.
zonemdMaxAgeDue(z, ser) ==
  /\ ZONEMDMaxAge
  /\ ZONEMD # "off"
  /\ Content[ser].zonemd # "none" \/ ZONEMD = "on"
  /\ ZONEMDCheckedAt[z] \in {"zero", "aged"}

applyZONEMDResult(z, ser, res) ==
  IF res.zonemd # "unchecked"
    THEN /\ ZONEMDOK' = [ZONEMDOK EXCEPT ![z] = res.zonemd]
         /\ ZONEMDCheckedAt' = [ZONEMDCheckedAt EXCEPT ![z] = "recent"]
         /\ ZONEMDStale' = [ZONEMDStale EXCEPT ![z] = FALSE]
    ELSE /\ ZONEMDStale' =
              [ZONEMDStale EXCEPT ![z] =
                 @ \/ /\ res.mode = "incremental"
                      /\ \/ ZONEMDCheckedAt[z] # "zero"
                         \/ Content[ser].zonemd # "none"]
         /\ UNCHANGED <<ZONEMDOK, ZONEMDCheckedAt>>

\* The contents a verification of store st may read.
Contents(st) ==
  IF st.torn
    THEN {[Content[st.serial] EXCEPT !.bad = b] : b \in SUBSET Owners}
    ELSE {Content[st.serial]}
-----------------------------------------------------------------------------
(* Starting goroutines *)

GoTo(p, step) == pc' = [pc EXCEPT ![p] = step]

\* go m.Refresh(ctx, z, full)
Spawn(z, full) ==
  \E p \in Procs :
    /\ pc[p] = "idle"
    /\ GoTo(p, "start")
    /\ job' = [job EXCEPT ![p] = [Idle EXCEPT !.zone = z, !.full = full]]

\* Run starts by refreshing every zone, then enters its loop.
Boot(z) ==
  /\ z \in boot
  /\ boot' = boot \ {z}
  /\ Spawn(z, FALSE)
  /\ UNCHANGED <<verdictVars, Store, Findings, gateVars, timerVars, chainVars,
                 zonemdVars, SkewSince, sem, outVars, envVars>>

\* Manager.RequestRefresh, from the API or from a NOTIFY (never full).
RequestRefresh(z, full) ==
  /\ requests < MaxRequests
  /\ requests' = requests + 1
  /\ RefreshFull' = IF full THEN [RefreshFull EXCEPT ![z] = TRUE] ELSE RefreshFull
  /\ Spawn(z, full)
  /\ UNCHANGED <<verdictVars, Store, Findings, Refreshing, timerVars, chainVars,
                 zonemdVars, SkewSince, sem, boot, outVars, serial, up, now>>

\* What the tick does to a zone's state: repair a busy state nobody is working
\* on, then mark the zone stale when SOA EXPIRE has elapsed.
TickState(z) ==
  LET repaired == IF ~Refreshing[z] /\ State[z] \in BusyStates
                    THEN lastTerminalState(z) ELSE State[z]
  IN  IF ExpireAt[z] = "past" /\ repaired # "stale"
        THEN setState(z, "stale", 0)
        ELSE /\ State' = [State EXCEPT ![z] = repaired]
             /\ UNCHANGED History

\* The tick.C case of Run, for one zone.  A goroutine started while the zone is
\* being refreshed may find the lock taken and be gone at once.
Tick(z) ==
  /\ boot = {}
  /\ TickState(z)
  /\ \/ /\ NextRefresh[z] = "due"
        /\ Spawn(z, FALSE)
     \/ /\ NextRefresh[z] # "due" \/ Refreshing[z]
        /\ State' # State
        /\ UNCHANGED <<pc, job>>
  /\ UNCHANGED <<Store, Findings, gateVars, timerVars, chainVars, zonemdVars,
                 SkewSince, sem, boot, outVars, envVars>>
-----------------------------------------------------------------------------
(* Manager.Refresh *)

\* Mutant: the flag is not tested.
CanLock_Always(z) == TRUE

CanLock(z) == ~Refreshing[z]

TryLockRefresh(p) ==
  LET z == job[p].zone IN
  /\ pc[p] = "start"
  /\ IF ~CanLock(z)
       THEN /\ GoTo(p, "idle")
            /\ job' = [job EXCEPT ![p] = Idle]
            /\ UNCHANGED gateVars
       ELSE /\ Refreshing' = [Refreshing EXCEPT ![z] = TRUE]
            /\ RefreshFull' = [RefreshFull EXCEPT ![z] = job[p].full]
            /\ GoTo(p, "slot")
            /\ UNCHANGED job
  /\ UNCHANGED <<verdictVars, Store, Findings, timerVars, chainVars, zonemdVars,
                 SkewSince, sem, boot, outVars, envVars>>

\* Mutant: one slot too many.
SlotFree_OffByOne == sem <= ConcurrentTransfers

SlotFree == sem < ConcurrentTransfers

\* m.sem <- struct{}{}, and the serial the zone had before.
AcquireSlot(p) ==
  /\ pc[p] = "slot"
  /\ SlotFree
  /\ sem' = sem + 1
  /\ job' = [job EXCEPT ![p].old = Store[job[p].zone].serial]
  /\ GoTo(p, "probe")
  /\ UNCHANGED <<verdictVars, Store, Findings, gateVars, timerVars, chainVars,
                 zonemdVars, SkewSince, boot, outVars, envVars>>

\* The servers ProbeSOA gets an answer from: all of them, or only the first.
Answering(z) ==
  LET U == {s \in Servers : up[z][s]} IN
  IF ProbeAllServers THEN U ELSE {s \in U : \A t \in U : s <= t}

\* Mutant: whichever server's answer comes in first.
IsBest_Fastest(z, s) == s \in Answering(z)

\* The first server with the greatest serial among those that answered.
IsBest(z, s) ==
  /\ s \in Answering(z)
  /\ \A t \in Answering(z) :
       \/ serial[z][s] > serial[z][t]
       \/ serial[z][s] = serial[z][t] /\ s <= t

Skewed(z) ==
  \E s, t \in Answering(z) : serial[z][s] - serial[z][t] > SerialSkewWarning

\* Mutant: the grace period starts again at every probe.
skewSince_Restarts(z) == IF ~Skewed(z) THEN "zero" ELSE "recent"

skewSince(z) ==
  IF ~Skewed(z) THEN "zero"
  ELSE IF SkewSince[z] = "zero" THEN "recent" ELSE SkewSince[z]

\* With fewer than two answers there is nothing to compare: SkewSince stays.
detectSkew(z) ==
  IF Cardinality(Answering(z)) < 2
    THEN UNCHANGED <<SkewSince, Findings>>
    ELSE /\ SkewSince' = [SkewSince EXCEPT ![z] = skewSince(z)]
         /\ Findings' = [Findings EXCEPT ![z] =
              IF Skewed(z) /\ skewSince(z) = "aged"
                THEN @ \cup {NewFinding("SERIAL_SKEW", Apex)} ELSE @]

Probe(p) ==
  LET z == job[p].zone IN
  /\ pc[p] = "probe"
  /\ \/ /\ Answering(z) = {}
        /\ UNCHANGED job
     \/ \E s \in Servers :
          /\ IsBest(z, s)
          /\ job' = [job EXCEPT ![p].server = s, ![p].best = serial[z][s]]
  /\ detectSkew(z)
  /\ GoTo(p, "decide")
  /\ UNCHANGED <<verdictVars, Store, gateVars, timerVars, chainVars, zonemdVars,
                 sem, boot, outVars, envVars>>

\* Mutant: the failure is recorded and the retry is not scheduled.
NoServer_NoRetry(p) ==
  LET z == job[p].zone IN
  /\ pc[p] = "decide"
  /\ job[p].server = 0
  /\ setState(z, "transfer_failed", job[p].old)
  /\ GoTo(p, "release")
  /\ UNCHANGED <<Store, Findings, gateVars, timerVars, chainVars, zonemdVars,
                 SkewSince, sem, job, boot, outVars, envVars>>

NoServer(p) ==
  LET z == job[p].zone IN
  /\ pc[p] = "decide"
  /\ job[p].server = 0
  /\ setState(z, "transfer_failed", job[p].old)
  /\ schedule(z)
  /\ GoTo(p, "release")
  /\ UNCHANGED <<Store, Findings, gateVars, ExpireAt, chainVars, zonemdVars,
                 SkewSince, sem, job, boot, outVars, envVars>>

IsUnchanged(p) ==
  /\ job[p].server # 0
  /\ job[p].old # 0
  /\ job[p].best = job[p].old
  /\ ~job[p].full

Unchanged(p) ==
  LET z == job[p].zone IN
  /\ pc[p] = "decide"
  /\ IsUnchanged(p)
  /\ ~zonemdMaxAgeDue(z, job[p].old)
  /\ State' = [State EXCEPT ![z] = lastTerminalState(z)]
  /\ schedule(z)
  /\ GoTo(p, "release")
  /\ UNCHANGED <<History, Store, Findings, gateVars, ExpireAt, chainVars,
                 zonemdVars, SkewSince, sem, job, boot, outVars, envVars>>

\* Serial unchanged but zonemd_max_age exceeded: a full pass over the store.
ReverifyZONEMD(p) ==
  LET z == job[p].zone IN
  /\ pc[p] = "decide"
  /\ IsUnchanged(p)
  /\ zonemdMaxAgeDue(z, job[p].old)
  /\ \E c \in Contents(Store[z]) :
       job' = [job EXCEPT ![p].method = "soa", ![p].res = Full(c, now)]
  /\ GoTo(p, "commit")
  /\ UNCHANGED <<verdictVars, Store, Findings, gateVars, timerVars, chainVars,
                 zonemdVars, SkewSince, sem, boot, outVars, envVars>>

BeginTransfer(p) ==
  LET z == job[p].zone IN
  /\ pc[p] = "decide"
  /\ job[p].server # 0
  /\ ~IsUnchanged(p)
  /\ State' = [State EXCEPT ![z] = "transferring"]
  /\ GoTo(p, "transfer")
  /\ UNCHANGED <<History, Store, Findings, gateVars, timerVars, chainVars,
                 zonemdVars, SkewSince, sem, job, boot, outVars, envVars>>

\* Mutant: the retry is scheduled and the failure is not recorded.
TransferFails_NoState(p) ==
  LET z == job[p].zone IN
  /\ pc[p] = "transfer"
  /\ ~up[z][job[p].server]
  /\ schedule(z)
  /\ GoTo(p, "release")
  /\ UNCHANGED <<verdictVars, Store, Findings, gateVars, ExpireAt, chainVars,
                 zonemdVars, SkewSince, sem, job, boot, outVars, envVars>>

\* A server that answered the probe need not answer the transfer: it may go away
\* between any two steps, and a refusal or a timeout is a moment it is not up.
TransferFails(p) ==
  LET z == job[p].zone IN
  /\ pc[p] = "transfer"
  /\ ~up[z][job[p].server]
  /\ setState(z, "transfer_failed", job[p].old)
  /\ schedule(z)
  /\ GoTo(p, "release")
  /\ UNCHANGED <<Store, Findings, gateVars, ExpireAt, chainVars, zonemdVars,
                 SkewSince, sem, job, boot, outVars, envVars>>

\* A whole zone: AXFR, an IXFR request answered with a whole zone, or an AXFR
\* after the IXFR request failed.
TransferWhole(p) ==
  LET z == job[p].zone IN
  /\ pc[p] = "transfer"
  /\ up[z][job[p].server]
  /\ job' = [job EXCEPT ![p].method = "axfr",
                        ![p].got = serial[z][job[p].server]]
  /\ GoTo(p, "install")
  /\ UNCHANGED <<verdictVars, Store, Findings, gateVars, timerVars, chainVars,
                 zonemdVars, SkewSince, sem, boot, outVars, envVars>>

\* Owners whose records differ between two versions, as far as modelled.
Differing(a, b) ==
  {o \in Owners : \/ (o \in Content[a].bad) # (o \in Content[b].bad)
                  \/ Content[a].exp[o] # Content[b].exp[o]}

\* What an incremental transfer from version a to version b may touch: at
\* least the SOA and every owner that differs.
TouchedSets(a, b) ==
  {T \in SUBSET Owners : Apex \in T /\ Differing(a, b) \subseteq T}

\* An incremental answer.  A server that is not ahead of the serial asked for
\* answers with its SOA alone, which parseIXFR reads as no changes.
TransferIncremental(p) ==
  LET z == job[p].zone
      s == serial[z][job[p].server]
      a == job[p].old
  IN
  /\ pc[p] = "transfer"
  /\ up[z][job[p].server]
  /\ PreferIXFR /\ ~job[p].full /\ a # 0
  /\ \/ /\ s <= a
        /\ job' = [job EXCEPT ![p].method = "ixfr", ![p].got = a]
     \/ /\ s > a
        /\ \E T \in TouchedSets(a, s), k \in BOOLEAN :
             /\ Content[a].signed # Content[s].signed => k
             /\ job' = [job EXCEPT ![p].method = "ixfr", ![p].got = s,
                                   ![p].touched = T, ![p].dnskey = k]
  /\ GoTo(p, "install")
  /\ UNCHANGED <<verdictVars, Store, Findings, gateVars, timerVars, chainVars,
                 zonemdVars, SkewSince, sem, boot, outVars, envVars>>

\* Mutant: the state is left as the transfer, or a tick during it, set it.
Install_KeepsState(p) ==
  LET z == job[p].zone IN
  /\ pc[p] = "install"
  /\ Store' = [Store EXCEPT ![z] =
                 [serial |-> job[p].got, torn |-> @.torn /\ job[p].method = "ixfr"]]
  /\ ExpireAt' = [ExpireAt EXCEPT ![z] = "future"]
  /\ GoTo(p, "verify")
  /\ UNCHANGED <<verdictVars, Findings, gateVars, NextRefresh, chainVars,
                 zonemdVars, SkewSince, sem, job, boot, outVars, envVars>>

\* The store is replaced, or the changes are applied to it in place.
Install(p) ==
  LET z == job[p].zone IN
  /\ pc[p] = "install"
  /\ State' = [State EXCEPT ![z] = "verifying"]
  /\ Store' = [Store EXCEPT ![z] =
                 [serial |-> job[p].got, torn |-> @.torn /\ job[p].method = "ixfr"]]
  /\ ExpireAt' = [ExpireAt EXCEPT ![z] = "future"]
  /\ GoTo(p, "verify")
  /\ UNCHANGED <<History, Findings, gateVars, NextRefresh, chainVars, zonemdVars,
                 SkewSince, sem, job, boot, outVars, envVars>>

\* ApplyChanges returns an error part way: what was applied stays, the new SOA
\* included if it came first.  NextRefresh and ExpireAt are left alone.
ApplyFails(p) ==
  LET z == job[p].zone IN
  /\ pc[p] = "install"
  /\ ApplyMayFail /\ job[p].method = "ixfr" /\ job[p].got # job[p].old
  /\ \E s \in {job[p].old, job[p].got} :
       Store' = [Store EXCEPT ![z] = [serial |-> s, torn |-> TRUE]]
  /\ setState(z, "invalid", job[p].old)
  /\ Findings' = [Findings EXCEPT ![z] =
                    @ \cup {NewFinding("IXFR_APPLY_FAILED", Apex)}]
  /\ GoTo(p, "release")
  /\ UNCHANGED <<gateVars, timerVars, chainVars, zonemdVars, SkewSince, sem, job,
                 boot, outVars, envVars>>

NeedsFull(p) ==
  \/ job[p].full
  \/ job[p].method = "axfr"
  \/ zonemdMaxAgeDue(job[p].zone, job[p].got)
  \/ job[p].dnskey

\* The pass runs without z.mu; a full one works on a findings set of its own.
VerifyFull(p) ==
  /\ pc[p] = "verify"
  /\ NeedsFull(p)
  /\ \E c \in Contents(Store[job[p].zone]) :
       job' = [job EXCEPT ![p].res = Full(c, now)]
  /\ GoTo(p, "commit")
  /\ UNCHANGED <<verdictVars, Store, Findings, gateVars, timerVars, chainVars,
                 zonemdVars, SkewSince, sem, boot, outVars, envVars>>

\* An incremental pass reads the zone's live findings set ...
VerifyIncremental(p) ==
  LET z == job[p].zone IN
  /\ pc[p] = "verify"
  /\ ~NeedsFull(p)
  /\ \E c \in Contents(Store[z]) :
       job' = [job EXCEPT ![p].res =
                 Incremental(c, now, Findings[z], job[p].touched)]
  /\ GoTo(p, "merge")
  /\ UNCHANGED <<verdictVars, Store, Findings, gateVars, timerVars, chainVars,
                 zonemdVars, SkewSince, sem, boot, outVars, envVars>>

\* ... and overwrites it in place (*prev = *next), still without z.mu.
Merge(p) ==
  /\ pc[p] = "merge"
  /\ Findings' = [Findings EXCEPT ![job[p].zone] = job[p].res.found]
  /\ GoTo(p, "commit")
  /\ UNCHANGED <<verdictVars, Store, gateVars, timerVars, chainVars, zonemdVars,
                 SkewSince, sem, job, boot, outVars, envVars>>

Verdict(res) ==
  IF res.unsigned THEN "unsigned" ELSE IF res.valid THEN "valid" ELSE "invalid"

\* z.Findings = vres.Findings: after an incremental pass that is the set the
\* zone already holds, with whatever was added to it meanwhile.
Commit(p) ==
  LET z == job[p].zone
      res == job[p].res
  IN
  /\ pc[p] = "commit"
  /\ Findings' = [Findings EXCEPT ![z] =
                    IF res.mode = "full" THEN res.found ELSE @]
  /\ applyZONEMDResult(z, Store[z].serial, res)
  /\ setState(z, Verdict(res), Store[z].serial)
  /\ schedule(z)
  /\ GoTo(p, "publish")
  /\ UNCHANGED <<Store, gateVars, ExpireAt, chainVars, SkewSince, sem, job, boot,
                 outVars, envVars>>

IsValidState(s) == s \in {"valid", "unsigned"}

\* The state is read anew, after z.mu was given up and taken again.
updateZoneMetrics(z) ==
  gauge' = [gauge EXCEPT ![z] = IF IsValidState(State[z]) THEN "1" ELSE "0"]

\* The events carry the verdict of this pass, whatever the state is by now.  The
\* zonemd_max_age path publishes no zone_valid / zone_invalid.
Publish(p) ==
  LET z == job[p].zone IN
  /\ pc[p] = "publish"
  /\ updateZoneMetrics(z)
  /\ announced' = [announced EXCEPT ![z] =
       IF job[p].method = "soa" THEN @
       ELSE IF IsValidState(Verdict(job[p].res)) THEN "valid" ELSE "invalid"]
  /\ GoTo(p, "release")
  /\ UNCHANGED <<verdictVars, Store, Findings, gateVars, timerVars, chainVars,
                 zonemdVars, SkewSince, sem, job, boot, envVars>>

\* Mutants: the slot leaks, and the slot is given back twice.
giveSlot_Leaks == sem' = sem
giveSlot_Twice == sem' = sem - 2

\* <-m.sem
giveSlot == sem' = sem - 1

\* The deferred calls, last registered first: <-m.sem, then UnlockRefresh.
ReleaseSlot(p) ==
  /\ pc[p] = "release"
  /\ giveSlot
  /\ GoTo(p, "unlock")
  /\ UNCHANGED <<verdictVars, Store, Findings, gateVars, timerVars, chainVars,
                 zonemdVars, SkewSince, job, boot, outVars, envVars>>

\* Mutants: the zone stays locked, and the flag of a full pass stays up.
unlock_KeepsLocked(z) ==
  /\ RefreshFull' = [RefreshFull EXCEPT ![z] = FALSE]
  /\ UNCHANGED Refreshing

unlock_KeepsFull(z) ==
  /\ Refreshing' = [Refreshing EXCEPT ![z] = FALSE]
  /\ UNCHANGED RefreshFull

unlock(z) ==
  /\ Refreshing' = [Refreshing EXCEPT ![z] = FALSE]
  /\ RefreshFull' = [RefreshFull EXCEPT ![z] = FALSE]

UnlockRefresh(p) ==
  LET z == job[p].zone IN
  /\ pc[p] = "unlock"
  /\ unlock(z)
  /\ GoTo(p, "idle")
  /\ job' = [job EXCEPT ![p] = Idle]
  /\ UNCHANGED <<verdictVars, Store, Findings, timerVars, chainVars, zonemdVars,
                 SkewSince, sem, boot, outVars, envVars>>

Refresh(p) ==
  \/ TryLockRefresh(p) \/ Probe(p)
  \/ NoServer(p) \/ Unchanged(p) \/ ReverifyZONEMD(p) \/ BeginTransfer(p)
  \/ TransferFails(p) \/ TransferWhole(p) \/ TransferIncremental(p)
  \/ Install(p) \/ ApplyFails(p)
  \/ VerifyFull(p) \/ VerifyIncremental(p) \/ Merge(p)
  \/ Commit(p) \/ Publish(p) \/ ReleaseSlot(p) \/ UnlockRefresh(p)
-----------------------------------------------------------------------------
(* The other writers of a zone's state *)

\* Manager.sweep; a sweep that opens no finding changes nothing.
Sweep(z) ==
  LET F == Findings[z] \cup SweepExpiry(Content[Store[z].serial], now) IN
  /\ boot = {}
  /\ Store[z].serial # 0
  /\ F # Findings[z]
  /\ Findings' = [Findings EXCEPT ![z] = F]
  /\ IF HasErrors(F) /\ State[z] = "valid"
       THEN /\ setState(z, "invalid", Store[z].serial)
            /\ announced' = [announced EXCEPT ![z] = "invalid"]
       ELSE UNCHANGED <<verdictVars, announced>>
  /\ UNCHANGED <<Store, gateVars, timerVars, chainVars, zonemdVars, SkewSince,
                 sem, pc, job, boot, gauge, envVars>>

\* chain.Checker.Check up to the DS query: a zone with a store and DNSKEYs.
ChainLookup(z) ==
  /\ ChainEnabled
  /\ z \notin lookups
  /\ Store[z].serial # 0 /\ Content[Store[z].serial].signed
  /\ lookups' = lookups \cup {z}
  /\ UNCHANGED <<verdictVars, Store, Findings, gateVars, timerVars, ChainOK,
                 zonemdVars, SkewSince, sem, pc, job, boot, outVars, envVars>>

\* Mutant: the zone keeps its state whatever the chain check found.
ApplyFindings_KeepsState(z, F, ok, invalidate) ==
  /\ Findings' = [Findings EXCEPT ![z] = @ \cup F]
  /\ ChainOK' = [ChainOK EXCEPT ![z] = ok]
  /\ UNCHANGED verdictVars

\* ZoneRuntime.ApplyFindings
ApplyFindings(z, F, ok, invalidate) ==
  /\ Findings' = [Findings EXCEPT ![z] = @ \cup F]
  /\ ChainOK' = [ChainOK EXCEPT ![z] = ok]
  /\ IF invalidate /\ State[z] = "valid"
       THEN setState(z, "invalid", Store[z].serial)
       ELSE UNCHANGED verdictVars

\* The answer to the DS query.  Nothing is published when the zone turns
\* invalid here, apart from chain_of_trust_failed.
ChainAnswer(z) ==
  /\ z \in lookups
  /\ lookups' = lookups \ {z}
  /\ \/ UNCHANGED <<verdictVars, Findings, ChainOK>>            \* lookup failed
     \/ ApplyFindings(z, {NewFinding("INSECURE_DELEGATION", Apex)}, "ok", FALSE)
     \/ ApplyFindings(z, {}, "ok", FALSE)
     \/ ApplyFindings(z, {NewFinding("DS_MISMATCH", Apex)}, "bad", RequireMatch)
  /\ UNCHANGED <<Store, gateVars, timerVars, zonemdVars, SkewSince, sem, pc, job,
                 boot, outVars, envVars>>
-----------------------------------------------------------------------------
(* Environment: servers and the passing of time *)

systemVars == <<verdictVars, Store, Findings, gateVars, chainVars, sem, pc, job,
                boot, outVars>>

NewVersion(z, s) ==
  /\ serial[z][s] < MaxSerial
  /\ serial' = [serial EXCEPT ![z][s] = @ + 1]
  /\ UNCHANGED <<systemVars, timerVars, zonemdVars, SkewSince, up, now, requests>>

ServerUpDown(z, s) ==
  /\ ServersMayFail
  /\ up' = [up EXCEPT ![z][s] = ~@]
  /\ UNCHANGED <<systemVars, timerVars, zonemdVars, SkewSince, serial, now, requests>>

RefreshComesDue(z) ==
  /\ NextRefresh[z] = "future"
  /\ NextRefresh' = [NextRefresh EXCEPT ![z] = "due"]
  /\ UNCHANGED <<systemVars, ExpireAt, zonemdVars, SkewSince, envVars>>

ExpirePasses(z) ==
  /\ ExpireAt[z] = "future"
  /\ ExpireAt' = [ExpireAt EXCEPT ![z] = "past"]
  /\ UNCHANGED <<systemVars, NextRefresh, zonemdVars, SkewSince, envVars>>

ZONEMDAges(z) ==
  /\ ZONEMDMaxAge
  /\ ZONEMDCheckedAt[z] = "recent"
  /\ ZONEMDCheckedAt' = [ZONEMDCheckedAt EXCEPT ![z] = "aged"]
  /\ UNCHANGED <<systemVars, timerVars, ZONEMDOK, ZONEMDStale, SkewSince, envVars>>

SkewAges(z) ==
  /\ SkewSince[z] = "recent"
  /\ SkewSince' = [SkewSince EXCEPT ![z] = "aged"]
  /\ UNCHANGED <<systemVars, timerVars, zonemdVars, envVars>>

ClockTicks ==
  /\ now < MaxNow
  /\ now' = now + 1
  /\ UNCHANGED <<systemVars, timerVars, zonemdVars, SkewSince, serial, up, requests>>

Environment ==
  \/ ClockTicks
  \/ \E z \in Zones :
       \/ RefreshComesDue(z) \/ ExpirePasses(z) \/ ZONEMDAges(z) \/ SkewAges(z)
       \/ \E s \in Servers : NewVersion(z, s) \/ ServerUpDown(z, s)

Next ==
  \/ \E p \in Procs : Refresh(p) \/ AcquireSlot(p)
  \/ \E z \in Zones :
       \/ Boot(z) \/ Tick(z) \/ Sweep(z) \/ ChainLookup(z) \/ ChainAnswer(z)
       \/ \E full \in BOOLEAN : RequestRefresh(z, full)
  \/ Environment

Spec == Init /\ [][Next]_vars

\* Goroutines keep running; a channel serves its blocked senders in order, so a
\* goroutine waiting for a slot that keeps becoming free gets one; the ticker,
\* the sweep ticker and the clock never stop.  Tick needs an idle goroutine of
\* the model's pool where the code starts a new one: hence strong fairness.
Fairness ==
  /\ \A p \in Procs : WF_vars(Refresh(p)) /\ SF_vars(AcquireSlot(p))
  /\ \A z \in Zones : /\ SF_vars(Boot(z)) /\ SF_vars(Tick(z))
                      /\ WF_vars(Sweep(z)) /\ WF_vars(RefreshComesDue(z))
                      /\ WF_vars(SkewAges(z))

FairSpec == Spec /\ Fairness
-----------------------------------------------------------------------------
(* Properties *)

Job ==
  [zone : Zones \cup {"none"}, full : BOOLEAN, old : 0..MaxSerial,
   server : 0..NumServers, best : 0..MaxSerial,
   method : {"none", "axfr", "ixfr", "soa"}, got : 0..MaxSerial,
   touched : SUBSET Owners, dnskey : BOOLEAN, res : Result]

\* The values every variable of the zone runtimes, the goroutines and the
\* environment ranges over.
TypeOK ==
  /\ State \in [Zones -> States]
  /\ History \in [Zones -> [state : TerminalStates \cup {"unknown"},
                            serial : 0..MaxSerial]]
  /\ Store \in [Zones -> [serial : 0..MaxSerial, torn : BOOLEAN]]
  /\ Findings \in [Zones -> SUBSET Finding]
  /\ Refreshing \in [Zones -> BOOLEAN]
  /\ RefreshFull \in [Zones -> BOOLEAN]
  /\ NextRefresh \in [Zones -> {"zero", "future", "due"}]
  /\ ExpireAt \in [Zones -> {"zero", "future", "past"}]
  /\ ChainOK \in [Zones -> {"nil", "ok", "bad"}]
  /\ ZONEMDCheckedAt \in [Zones -> {"zero", "recent", "aged"}]
  /\ ZONEMDOK \in [Zones -> {"nil", "ok", "bad"}]
  /\ ZONEMDStale \in [Zones -> BOOLEAN]
  /\ SkewSince \in [Zones -> {"zero", "recent", "aged"}]
  /\ sem \in Nat
  /\ pc \in [Procs -> Steps]
  /\ job \in [Procs -> Job]
  /\ boot \in SUBSET Zones
  /\ lookups \in SUBSET Zones
  /\ announced \in [Zones -> {"none", "valid", "invalid"}]
  /\ gauge \in [Zones -> {"unset", "1", "0"}]
  /\ serial \in [Zones -> [Servers -> Serials]]
  /\ up \in [Zones -> [Servers -> BOOLEAN]]
  /\ now \in 0..MaxNow
  /\ requests \in 0..MaxRequests

Holds(p, z) == job[p].zone = z /\ pc[p] \in LockSteps

\* TryLockRefresh and UnlockRefresh: Refreshing is set exactly while one
\* goroutine is between winning the lock and its deferred unlock, and never do
\* two goroutines refresh the same zone.
GateHeldByOne ==
  \A z \in Zones :
    /\ Refreshing[z] <=> \E p \in Procs : Holds(p, z)
    /\ \A p, q \in Procs : Holds(p, z) /\ Holds(q, z) => p = q

SlotHolders == {p \in Procs : pc[p] \in SlotSteps}

\* m.sem: the slots taken are those of the goroutines between the send and the
\* deferred receive, whichever way Refresh returned; none leaks.
SlotsCounted == sem = Cardinality(SlotHolders)

\* A zone is shown transferring or verifying only while it is being refreshed:
\* no return path of Refresh leaves a busy state behind, and the repair at the
\* head of the tick never has anything to do.
BusyIsRefreshing ==
  \A z \in Zones : State[z] \in BusyStates => Refreshing[z]

\* The flag RequestRefresh sets for the API is always owned by a goroutine that
\* will clear it: one that holds the zone, or one still to try, for a full pass.
FullFlagOwned ==
  \A z \in Zones : RefreshFull[z] =>
    \E p \in Procs : /\ job[p].zone = z
                     /\ \/ pc[p] \in LockSteps
                        \/ pc[p] = "start" /\ job[p].full

\* What a goroutine reads of the store under z.mu and uses after the exchanges
\* it makes without it is still so: the serial it probes and asks changes for is
\* the one the store has until it installs what it got, and from then on there
\* is a store to verify and to report on.
StoreStable ==
  \A p \in Procs :
    /\ pc[p] \in {"probe", "decide", "transfer", "install"} =>
         job[p].old = Store[job[p].zone].serial
    /\ pc[p] \in {"verify", "merge", "commit", "publish"} =>
         Store[job[p].zone].serial # 0

\* Polling never dies: a zone that no goroutine is about to refresh has a
\* NextRefresh, the only thing that makes the tick start one.
AlwaysScheduled ==
  \A z \in Zones \ boot :
    (\A p \in Procs : job[p].zone # z) => NextRefresh[z] # "zero"

\* The tick marks a zone stale only for an elapsed SOA EXPIRE, and a zone shown
\* stale never has its EXPIRE ahead: the transfer that moves ExpireAt also
\* moves the state away from stale.
StaleMeansExpired ==
  \A z \in Zones : State[z] = "stale" => ExpireAt[z] = "past"

\* "Findings: severity error flips validity": a zone shown valid has no open
\* error finding, whoever added it and whenever.
ValidHasNoErrors ==
  \A z \in Zones : State[z] = "valid" => ~HasErrors(Findings[z])

\* A verdict shown is the verdict on the records held: the newest history
\* entry is that verdict, for the serial of the store.
ValidIsCurrent ==
  \A z \in Zones : State[z] \in {"valid", "unsigned"} =>
    /\ Store[z].serial # 0
    /\ History[z] = [state |-> State[z], serial |-> Store[z].serial]

\* A zone shown valid has no RRset whose signature fails, even when the verdict
\* came from incremental passes that looked at the touched names only.
NoFalseValid ==
  \A z \in Zones : State[z] = "valid" /\ ~Store[z].torn =>
    /\ Content[Store[z].serial].signed
    /\ Content[Store[z].serial].bad = {}

\* Unless verification.zonemd is off, a zone shown valid does not hold a version
\* whose ZONEMD digest is wrong, whichever passes led to the verdict.
ZONEMDMismatchNotValid ==
  ZONEMD # "off" =>
    \A z \in Zones : State[z] = "valid" /\ ~Store[z].torn =>
      Content[Store[z].serial].zonemd # "bad"

AllUp(z) == \A s \in Servers : up[z][s]

\* While every server answers, a refresh never replaces a zone by an older
\* version: the server transferred from is the one with the greatest serial.
NoRegression ==
  [][\A z \in Zones : AllUp(z) => Store'[z].serial >= Store[z].serial]_vars

\* Servers that stay further apart than serial_skew_warning are reported, and
\* reported again after every verification that replaced the findings.
SkewReported ==
  \A z \in Zones : <>[](AllUp(z) /\ Skewed(z)) =>
    []<>(NewFinding("SERIAL_SKEW", Apex) \in Findings[z])

Newest(z) == CHOOSE n \in Serials :
               /\ \E s \in Servers : serial[z][s] = n
               /\ \A s \in Servers : serial[z][s] <= n

\* Every refresh ends: no goroutine waits forever for a slot while it keeps the
\* zone locked.
RefreshEnds == \A z \in Zones : Refreshing[z] ~> ~Refreshing[z]

\* Once the servers stay reachable, the store ends up holding, for good, the
\* newest version they publish, after any outages and failed transfers.
Converges ==
  \A z \in Zones : <>[]AllUp(z) => <>[](Store[z].serial = Newest(z))

\* A valid zone whose signatures have run out does not stay valid, even if its
\* serial never changes and its servers are gone: the sweep finds it.
ExpiryNoticed ==
  \A z \in Zones :
    (/\ State[z] = "valid"
     /\ \E o \in Owners : Expired(Content[Store[z].serial], o, now))
       ~> (State[z] # "valid")
-----------------------------------------------------------------------------
(* The gate and the semaphore implement the abstract admission *)

In(z, steps) == \E p \in Procs : job[p].zone = z /\ pc[p] \in steps

gatePhase ==
  [z \in Zones |-> IF In(z, SlotSteps)  THEN "running"
                   ELSE IF In(z, {"slot"}) THEN "waiting"
                   ELSE IF In(z, {"unlock"}) THEN "leaving" ELSE "idle"]

Gate == INSTANCE RefreshGate WITH phase <- gatePhase

\* Refresh's lock and semaphore, with their deferred releases, admit zones the
\* way RefreshGate does, waiting and ending included.
ImplementsGate == Gate!FairSpec
-----------------------------------------------------------------------------
(* What the documentation says and the code does not do *)

\* "When true, a DS mismatch is an error and flips the zone invalid"
\* (require_match): a zone whose last chain check failed is not shown valid.
DSMismatchNotValid ==
  RequireMatch =>
    \A z \in Zones : ChainOK[z] = "bad" => State[z] # "valid"

\* "True while the backend is running a full re-verify for this zone": when the
\* flag is set and the zone is being refreshed, that refresh is a full one.
FullFlagMeansFull ==
  \A z \in Zones : RefreshFull[z] =>
    \A p \in Procs : Holds(p, z) => job[p].full

\* "keep prior result, mark stale when the zone changed": while the recorded
\* ZONEMD result is a mismatch, the zone is not shown valid.
RecordedMismatchNotValid ==
  \A z \in Zones : ZONEMDOK[z] = "bad" => State[z] # "valid"

\* "1 if the zone has no error findings": the gauge of a zone that is not being
\* refreshed agrees with its findings.
GaugeCurrent ==
  \A z \in Zones : ~Refreshing[z] /\ gauge[z] = "1" => ~HasErrors(Findings[z])

\* "the next start can verify before the first AXFR": a zone resumed from a
\* snapshot gets a verdict if its servers stay reachable.
ResumedGetsVerdict ==
  \A z \in Zones : <>[]AllUp(z) =>
    <>(State[z] \in {"valid", "invalid", "unsigned"})

\* "a refresh a few seconds later should settle": a transfer failure is not
\* shown forever when the servers are reachable again for good.
OutageHeals ==
  \A z \in Zones : <>[]AllUp(z) => []<>(State[z] # "transfer_failed")

\* "exceeded SOA EXPIRE without a refresh": a zone whose servers always answer
\* is not stale forever.
ReachableNotStale ==
  \A z \in Zones : []AllUp(z) => []<>(State[z] # "stale")

\* "an invalid zone is re-verified with a full pass on the next cycle".
InvalidReverified ==
  \A z \in Zones : []AllUp(z) =>
    (State[z] = "invalid" ~>
       \/ State[z] # "invalid"
       \/ \E p \in Procs : /\ job[p].zone = z /\ pc[p] = "commit"
                           /\ job[p].res.mode = "full")
=============================================================================
