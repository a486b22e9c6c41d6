# TLA+ specifications of dnssec-auditor

dnssec-auditor transfers DNS zones (AXFR, IXFR), keeps them in memory, verifies
their DNSSEC data whenever they change, and tells the world what it found: a
state per zone, findings, Prometheus gauges, webhooks and an event stream. The
modules here specify the parts of it that keep state and run concurrently. TLC
checks them on small instances, and TLAPS proves a part of the results for every
value of the constants.

Contents

1. [The system](#1-the-system)
2. [The modules, and how they correspond to the code](#2-the-modules-and-how-they-correspond-to-the-code)
3. [What the runs check](#3-what-the-runs-check)
4. [Bounds](#4-bounds)
5. [Fairness](#5-fairness)
6. [What is proved](#6-what-is-proved)
7. [Where the code and its documentation differ](#7-where-the-code-and-its-documentation-differ)
8. [What is not modelled](#8-what-is-not-modelled)
9. [Plan](#9-plan)
10. [Running it](#10-running-it)

`PROJECT.json` lists the components, the runs, the line ranges every definition
stands for, the hazards and the theorems in machine-readable form.

## 1. The system

### Components

| Component | Source (`src/internal/`) | State it keeps | Operations that change it |
|---|---|---|---|
| Zone runtime | `monitor/runtime.go` | per zone, under `ZoneRuntime.mu`: state, history, store pointer, findings, `Refreshing`, `RefreshFull`, `NextRefresh`, `ExpireAt`, chain and ZONEMD results, `SkewSince` | `TryLockRefresh`, `UnlockRefresh`, `setState`, `schedule`, `ApplyFindings` |
| Refresh manager | `monitor/manager.go` | the zones, the transfer semaphore | `Run` (1 s tick, sweep ticker), `RequestRefresh`, `Refresh`, `sweep`, `AddZone`, `RemoveZone` |
| Verifier | `dnssec/verify.go`, `incremental.go`, `zonemd.go` | none | `Full`, `Incremental`, `SweepExpiry` |
| Findings | `dnssec/findings.go` | a set keyed by code, owner, type | `Add`, `MergeReplace` |
| Denial of existence | `dnssec/nsec.go`, `incremental.go` | none (reads the store's NSEC3 index) | chain and presence checks |
| Zone store | `zone/store.go` | records, SOA serial, NSEC3 index, expiry index | `addRR`, `removeRR`, `ApplyChanges`, snapshots |
| Transfer client | `xfr/client.go` | none | `AXFR`, `IXFR`, `parseIXFR` |
| Chain of trust | `chain/chain.go` | none of its own | DS lookup, `ApplyFindings` |
| Catalogs | `catalog/catalog.go`, `app/app.go` | members seen last, per catalog | `watchCatalogs` |
| NOTIFY listener | `notify/listener.go` | time of the last NOTIFY per zone | `handle`, `debounce` |
| Event bus | `event/bus.go` | handlers | `Publish` |
| Webhooks | `webhooks/webhooks.go` | a bounded queue | enqueue, worker, `deliver` with retries |
| Event stream | `api/api.go`, `api/stream.go` | clients with bounded buffers | connect, fan-out, read |
| Persistence | `state/state.go`, `app/app.go` | the state file, its temporary file, snapshots | `Save` (by `persistLoop` and at shutdown), `Load`, `Restore` |
| Process | `app/app.go` | which goroutines run | `Run`, shutdown |
| Test primary | `testprimary/server.go` | zones, journals | `Apply`, `PurgeJournal`, `handleUpdate`, `handleXFR` |
| Zone generator | `zonegen/` | none | `Generate`, the defects of `mutate.go`, the example pack |
| One-shot check | `check/check.go` | none | `Run`: a full pass and an exit code |
| API, metrics, configuration, names, logging | `api/`, `metrics/`, `config/`, ... | none or read-only | |

### How they interact

Three kinds of goroutine write a zone's runtime. The **tick** starts a `Refresh`
when `NextRefresh` has passed and marks zones stale when SOA EXPIRE has; NOTIFY,
the API and the catalog watcher start `Refresh` too. **Refresh** takes the zone's
lock flag, then a slot of the semaphore, probes the servers' SOAs, transfers,
installs, verifies, commits a verdict and publishes events, with network
exchanges and verification between critical sections of `z.mu`. The **sweep** and
the **chain checker** add findings and turn valid zones invalid whenever they
like. Events go to handlers in subscription order, on the goroutine that
publishes: webhooks (a channel and one worker), then the event stream.

`persistLoop` saves the state file every minute and `Run` saves it once more when
it is told to stop; the next start loads it and starts a refresh of every zone.
The generator and the test primary are the other end of the system's own tests:
the primary serves generated zones, damages them on request, and the auditor must
find what was damaged.

### What is hard here

* what `Refresh` reads under the mutex it uses seconds later, after exchanges
  made without it; there are six return paths, each with its own duties (give the
  slot back, unlock, schedule, leave a terminal state);
* four writers of the zone's state and findings, in any order;
* incremental verification: findings of records not looked at are carried over
  through arbitrarily many passes, over a store changed in place;
* servers that disagree, go back and forth and answer with several forms;
  serials that wrap;
* restarts that bring back records without a verdict; crashes in the middle of a
  save, and two saves at once;
* 32-bit signature times, and records whose meaning depends on other names (glue
  under a delegation, NSEC3 records of hashed names);
* catalogs that list the same zones, configured zones among them;
* NOTIFYs that are lost, duplicated or meet a running refresh;
* a dead webhook target or a client that does not read.

### What makes each part correct

| Part | Correct when |
|---|---|
| Admission | one refresh per zone, at most `concurrent_transfers` at work, slots and locks always returned |
| Verdict | a zone shown valid has no error finding, no failing RRset, no wrong digest, a closed chain, and the verdict is about the records held |
| Polling | every zone has a next poll, the newest server wins, the store converges, waits are within their limits |
| Store | records, indexes and snapshot are those of one published version |
| Expiry | signatures that run out are noticed although nothing changes |
| Audit | the findings are those of a full pass over the records held, however they came about; every example zone is judged as announced |
| Persistence | the state file is what the last successful save collected |
| Catalogs | configured zones stay, members come and go with their catalog |
| NOTIFY | one refresh per burst, and the announced version is fetched |
| Delivery | accepted events reach every target that asks, counters tell the truth, nobody is held up |

## 2. The modules, and how they correspond to the code

```
Findings <-- Verifier <-- ZoneRefresh --- refines ---> RefreshGate
    ^                        ^    ^
    |                        |    +-- MCZoneRefresh (instances)
    +---- Denial             +------- ZoneRefreshProofs
            ^--- DenialProofs

ZoneTransfer <-- MCZoneTransfer     Catalogs <-- CatalogsProofs
    ^--- ZoneTransferProofs         Notify   <-- Lifecycle <-- LifecycleProofs
Delivery     <-- MCDelivery         SoaPoll  <-- SoaPollProofs
    ^--- DeliveryProofs

ZoneGen <-- Defects <-- ZoneAudit <-- TestPrimary <-- MCTestPrimary
              INSTANCE Findings ---+      ^--- TestPrimaryProofs
```

Definitions keep the name of the Go function they stand for where there is one.
A definition named `X_Something`, above `X`, is a variant of `X` with a plausible
bug; it is used by no specification, only to see that a property notices it.

**Findings, Verifier.** A finding is a code at an owner; a set of findings is the
Go map without messages and times. `MergeReplace` keeps the Go function's odd
case: an empty owner set drops every earlier finding. A zone content is what the
passes tell apart (signed or not, owners that fail, expiration per owner, state
of the digest), and `Full`, `Incremental` and `SweepExpiry` are functions of it.

**ZoneRefresh** is the core. Its variables up to `SkewSince` are the fields of
`ZoneRuntime`. `pc` and `job` are a goroutine's position in `Refresh` and its
local variables. Each critical section and each exchange is one action:

| Action | Code in `monitor/manager.go` unless said otherwise |
|---|---|
| `Boot`, `Tick` | start of `Run`; its `tick.C` case (`TickState`: repair, then stale) |
| `RequestRefresh` | the same, with the flag it sets before the goroutine runs |
| `TryLockRefresh`, `AcquireSlot` | head of `Refresh`; the send on `m.sem` |
| `Probe` | the probe loop and `detectSkew` |
| `NoServer`, `Unchanged`, `ReverifyZONEMD`, `BeginTransfer` | the four ways on from the probe |
| `TransferFails`, `TransferWhole`, `TransferIncremental` | outcomes of the exchange |
| `Install`, `ApplyFails` | the new store, or changes applied in place |
| `VerifyFull`, `VerifyIncremental`, `Merge` | the pass; `Merge` is `*prev = *next` without the mutex |
| `Commit`, `Publish` | verdict under the mutex; events and gauge after it |
| `ReleaseSlot`, `UnlockRefresh` | the deferred calls, in their order |
| `Sweep`, `ChainLookup`, `ChainAnswer` | `sweep`; `chain.Checker.Check` before and after its query |

Deadlines are `"zero"`, `"future"` or `"due"`/`"past"` and environment actions
let them pass, so that every relative order of timers is covered. The clock `now`
is only there for signature lifetimes. A store is the serial it reports and a
flag for a change applied in part; verifying a torn store may find anything.

**RefreshGate** is the abstract specification of admission: zones move through
idle, waiting, running, leaving; at most `ConcurrentTransfers` run; what waits is
admitted and what runs ends. `ZoneRefresh` maps `phase` to the positions of its
goroutines (`gatePhase`).

**Denial** numbers names in chain order. A version is its names, the next field
of every chain record, and the records whose signature fails. `Full` reports
missing records and open links; `Incremental` looks at touched records and their
predecessor and merges. A transfer and its pass are one step because refreshes
of one zone exclude each other, which `ZoneRefresh` shows.

**ZoneTransfer** has real records: answers are sequences, `parseIXFR` is the
walk of the code with its three modes, `ApplyChanges` removes then adds, the
NSEC3 index is keyed by hash and the expiry index by expiration and owner.
Snapshots read records and serial in two steps.

**SoaPoll** is the arithmetic: `serialGreater` on serials modulo `Modulus`, twice
`Half` (2^31 in the code), beside the unbounded version count behind them, the probe loop, `detectSkew`, and
`schedule` with its clamps and jitter.

**Catalogs** is `watchCatalogs` with `AddZone`, `RemoveZone`, the goroutine it
starts for a new member, which runs later (`RefreshMember`), and restarts.
**Notify** is the listener, the goroutine it starts, and the refresh it races
with: the probe that no server may answer (`NoServer`), the serial that is
unchanged, the transfer that fails, the changes that cannot be applied, and the
fetched version, each with the `NextRefresh` it leaves; the tick starts what is due. **Delivery** is publication, the webhook queue and worker, and stream
clients.

**ZoneGen** has zones as sets of records and builds them the way `Generate` does:
content, empty non-terminals, NSEC or NSEC3 records (with opt-out), signatures
for everything but cuts and glue, then the ZONEMD digest. A signature carries the
RRset it was made over and verifies over no other; a digest is the set of records
digested. **Defects** has the defects of `mutate.go` as changes (records removed
and added) and the example zones with what they announce. "The first" record in a
Go map is any record, and half of the delegations secure is any subset of them.

**ZoneAudit** is the verifier on those records, function by function:
`verifyRRSet` with its order of tests and its `continue`s, `verifyNode`, presence
and bitmaps, both chains, ZONEMD, hygiene, `Full`, `Incremental` on what
`ApplyChanges` touched, `SweepExpiry` over the index, and the exit code of the
one-shot check. Times are taken modulo `Width`. `Verifier` is the coarser view of
the same code that the concurrent specifications can afford.

**TestPrimary** composes them around one zone: the server takes updates and
answers a transfer from three reads (journal, SOA, records), the auditor applies
the answer and verifies, the sweep and the clock go their own way.

**Lifecycle** extends `Notify` with the process: `Save` as collect, open, write,
rename by two callers that share a temporary file, `Shutdown`, `Exit`, `Crash` at
any point, and `Start` with `Load` and the first refreshes. A file holds the
version saved or something `json.Unmarshal` refuses; a file renamed while another
save has it open goes on being written under its new name.

### Abstractions common to all

Names, addresses, keys and signatures are model values or small sets;
cryptography is an outcome (an RRset verifies or not). Time stamps, messages,
log lines, JSON and zone file formatting are left out. TSIG and wire parsing
appear as accepted or refused messages.

## 3. What the runs check

Passing runs:

| Run | Instance | Properties | What it shows |
|---|---|---|---|
| `RefreshLock` | 2 zones, 2 goroutines, 1 slot | `GateHeldByOne`, `SlotsCounted`, `RefreshEnds`, `ImplementsGate` | Lock and semaphore exclude, are returned on every path, starve nobody, and implement `RefreshGate`, its liveness included. |
| `RefreshAXFR` | AXFR only, ageing signatures, a wrong digest, outages, sweep, chain check, EXPIRE | `TypeOK`, `AlwaysScheduled`, `BusyIsRefreshing`, `ValidHasNoErrors`, `ZONEMDMismatchNotValid`, `StaleMeansExpired`, `ExpiryNoticed` | The state shown agrees with findings, timers and digest whichever of the four writers came last; no return path leaves a busy state or no next poll; expired signatures are noticed with an unchanged serial and dead servers. |
| `RefreshIXFR` | IXFR, a zone that breaks, outages, one request at any moment, 2 goroutines | `NoFalseValid`, `StoreStable`, `FullFlagOwned`, `Converges` | Partial passes never turn a broken zone valid; values read before an exchange still hold after it; the store ends at the newest version. |
| `RefreshServers` | 2 servers at their own pace, unsigned for a while, failing applications, `zonemd_max_age` | `ValidIsCurrent`, `NoRegression`, `SkewReported` | A verdict belongs to the records held even after a half-applied change; no version goes back; skew that lasts is reported again after each verification. |
| `DenialIncremental` | NSEC3, 3 names, any break, no deletions | `ValidMeansDenial`, `BreaksReported` | Every open link is known although a pass compares neighbours of touched records only. |
| `TransferOneChangeset` | 3 versions, AXFR, IXFR with one changeset, snapshots, restarts | `StoreExact`, `IndexExact`, `SnapshotExact` | Store, indexes and snapshot are those of one version. |
| `SoaPolling` | 3 servers, 3-bit serials over a wrap, odd limits | `BestIsNewest`, `SkewExact`, `WaitInRange` | The newest server wins across a wrap, skew is exact, waits stay in range even if a floor is above its ceiling. |
| `CatalogSources` | 2 catalogs, 2 zones, 1 configured, a restart | `ConfigKept`, `SourceKnown`, `KeptWhileListed`, `UnlistedLeave`, `SoleMemberMonitored` | Configured zones survive, nothing is orphaned, what one catalog stops listing never costs another its member, members of one catalog arrive and their first refresh runs, unlisted zones leave. |
| `ProcessLifecycle` | lost, duplicated and foreign NOTIFYs, a primary that comes and goes, changes that cannot be applied, two savers, failing writes, a shutdown or crash at any point, the next start | `SavedStateKept`, `NotifiedUnlessStopped` | The state file is what the last successful save collected unless two saves overlap. A NOTIFY that finds the zone idle and a refresh bound to come, or a refresh about to probe, leads to the version it announced, through failed probes, failed transfers and retries, in this process or, through the first refreshes, in the next, if the primary stays up in the end. The one other way out is named: changes that cannot be applied, after which the code schedules no retry. |
| `AuditExamples` | the 27 zones of the pack, 4 more, 3 live zones with two updates or repairs each, a clock | `PackAudited`, `SameSerialSameZone`, `FindingsExact`, `DefectNoticed` | Verdict, finding and exit code of every example are those it announces, whichever delegations are secure and whichever record comes first. Updates between the server's reads do no harm. Any mix of full passes, incremental passes and sweeps leaves at each node the errors a full pass would report there, and no defect gets in without an error being open for a time. |
| `EventDelivery` | 2 publishers, 2 targets, queue and buffer of 1 | `Accounted`, `ResultsTrue`, `NobodyBlocks` | Accepted events are accounted for at every target, counters are true, nobody is held up. Deadlock is not checked: the system may come to rest once everything is delivered. |

`ValidHasNoErrors` and `ZONEMDMismatchNotValid` are checked for whole transfers
and `ValidMeansDenial` without deletions because they do not hold otherwise; see
section 7.

`FindingsExact` compares RRsets with an error of their own, and `DefectNoticed`
leaves out NSEC chains and the ZONEMD digest, which an incremental pass does not
look at by design. `DefectNoticed` is about the past on purpose: that the error is
*still* open while the zone is broken (`VerdictAgrees`) is false. The finding of a
missing NSEC3 record is kept at the apex (`incremental.go:56`), every changeset
with a serial bump touches the apex, and the merge drops what was known about
touched names, so that one more serial makes the auditor forget the defect
(section 7). The run has seven defects of the catalogue and a plain serial bump;
each of the others, signed and unsigned, was run once beside the serial bump with
the same result.

The run that finds a violation:

| Run | Property | What it shows |
|---|---|---|
| `TransferJournal` | `StoreExact` | An IXFR answer with one changeset per version is misread: `parseIXFR` leaves the deleting mode only at the newest SOA (`xfr/client.go:259`), so what an earlier changeset adds is removed. Its comment (`client.go:227`) describes several changesets. |

## 4. Bounds

Every bound is a constant: `MaxSerial` and `MaxVersion` (versions), `MaxNow`
(clock), `MaxRequests`, `Procs` (refresh goroutines at once), `MaxRestarts`,
`MaxMail`, `MaxPending`, `MaxCommits`, `MaxSweeps`, `MaxStops`, `MaxUpdates`,
`Times`, `Width`, `Half`, and the sizes of the sets.

* Two goroutines and two zones are enough to contend for one lock and one slot;
  the proofs of section 6 remove this bound for the invariants. Runs about one
  zone's data use one goroutine where the lock makes a second one invisible, and
  two where a request may come during a refresh.
* Two owners tell an untouched from a touched name. Two or three versions give a
  broken zone after a good one and a change on top of it.
* Clock 0..2 with signatures that expire at 1 and a warning window of 1 gives
  fresh, about to expire and expired.
* Three hashes are the least ring in which a record has two distinct neighbours
  and a link not next to a touched record exists; the proof removes the bound.
* Three versions are the least journal with two changesets.
* Three-bit serials (`Half` = 4) over nine versions wrap once; servers stay less
  than half the serial space apart, beyond which RFC 1982 defines no order. The
  proof is for every `Half`, any number of wraps and any number of servers.
* Two delegations give a secure and an insecure one; with the apex, two name
  servers, glue, a wildcard and an empty non-terminal the chains have every kind of
  neighbour. Two updates break a zone and repair it, or break it twice. Two times
  before and after the live signatures run out; expirations of the generator's
  default are out of the clock's reach, as in the code.
* One stop and one start after it, with both savers at any of their steps.
* A queue, a client buffer and a retry of one each make full, dropped and
  retried happen; the proofs are for any of them, and so are those about saves.

No symmetry is used: the liveness properties and quantified constants are in the
same runs and the state spaces are small enough.

## 5. Fairness

| Assumption | Why the code justifies it |
|---|---|
| `WF(Refresh(p))` | a goroutine runs; every exchange has a timeout, so an outcome comes |
| `SF(AcquireSlot(p))` | a Go channel serves blocked senders in order |
| `SF(Tick(z))`, `SF(Boot(z))` | the ticker never stops and the code starts a goroutine at once; the model may have to wait for one of its `Procs` to be idle, hence strong |
| `WF(Sweep)`, `WF(RefreshComesDue)`, `WF(SkewAges)` | the sweep ticker and time do not stop |
| `SF(TransferCatalog)`, `SF(Sync)` | the watcher's ticker, and `Converges` of `RefreshIXFR`; a catalog may change in between, hence strong |
| `WF(RunHandler)`, `WF(Tick)`, and `WF` of the probe and of the end of a refresh, whatever their outcome, in `Notify` | goroutines run, every exchange ends or times out, and the one-second tick finds a retry, which is `retry_max` away at most; SOA REFRESH (`RefreshDue`) may be a day away and is not assumed to elapse |
| `WF(RefreshMember(z))` in `Catalogs` | a goroutine that was started runs |
| `WF(StartRefresh)`, `WF(ProbeServer)`, `WF(EndRefresh)`, `WF(Listen /\ Tick)` in `Lifecycle` | the same while the process runs, the tick until it is told to stop; nothing is assumed of saves, nor that anybody starts the process again |
| `WF(Work)`, `WF(Call(p))` in `Delivery` | goroutines run and a POST has a timeout; nothing is assumed of targets or clients |

Servers, operators, catalog editors and the chain resolver are never assumed to
do anything. Properties about servers that stay reachable say so themselves
(`<>[]AllUp(z)`, `<>[]answers`): with a primary that never answers again a NOTIFY
leads nowhere.

## 6. What is proved

TLAPS checks eight modules of proofs. They need the named assumptions on the
constants of the modules they are about (`RefreshAssumption`,
`VerifierAssumption`, `FindingsAssumption`, `CatalogsAssumption`,
`DenialAssumption`, `NotifyAssumption`, `LifecycleAssumption`,
`DeliveryAssumption`, `PollAssumption`, `TransferAssumption`, `ZoneGenAssumption`,
`TestPrimaryAssumption`) and, where a theorem says so, a hypothesis
on the configuration:

| Theorem | Property | Hypothesis | Without it |
|---|---|---|---|
| `PollingNeverDies` | `AlwaysScheduled` | not both snapshots resumed and applications that may fail | `ResumePromises` |
| `NoErrorWhenValid` | `ValidHasNoErrors` | `prefer_ixfr` off | `SweepDuringIncremental` |
| `NoMismatchWhenValid` | `ZONEMDMismatchNotValid` | `prefer_ixfr` off | `ZONEMDForgotten` |
| `VerdictSound` | `NoFalseValid` | `prefer_ixfr` off; or `SameServers` and no snapshot resumed | `LaggingServer`, `ResumePromises` |
| `NeverBackwards` | `NoRegression` | `SameServers` | see below |
| `StoreExactHolds`, `IndexExactHolds`, `SnapshotExactHolds` | `StoreExact`, `IndexExact`, `SnapshotExact` | an answer has one changeset at most (`~ManyChangesets`) | `TransferJournal` |

`SameServers` says that a zone has one server or that its servers stay reachable,
so that a probe has the same servers to choose from every time. `NoRegression`
itself is only about steps at which all servers are up; that alone does not
exclude that the newest one was away when the refresh probed.

**Refresh machinery**, `ZoneRefreshProofs` (any zones, goroutines, capacity,
servers, contents): `TypeCorrect`, `MutualExclusion`, `SlotAccounting`,
`StableStore`, `GateRefinement`. `GateHeldByOne` is not inductive by itself: a
goroutine about to unlock must be the one that locked, and its zone must exist.
`IndInv` adds that a goroutine is idle exactly when it has no zone (`IdleIffNone`)
and what each position of `Refresh` may rely on (`ReadyAt`: a server chosen before
a transfer, a serial before an installation, an unchanged `old`, a store from
verification on). The proof first shows (`StepKind`) that every action is, for
lock and semaphore, one of eight kinds of step, then proves each part of `IndInv`
by kind. `StableStore` rests on `MutualExclusion`: only the holder of a zone
installs a store, so what a goroutine read remains true while the mutex is free.
`GateRefinement`, `Spec => Gate!Spec`, goes by the same kinds: a phase is that of
the one goroutine holding the zone, so locking, entering, leaving and unlocking
move one zone's phase as the gate's four actions do and every other step is a
stutter; the gate's capacity is `SlotAccounting`.

**What a zone shows**, the second part of `ZoneRefreshProofs`, on top of `IndInv`. Every step is
first classed by what it does to a zone's state, history and deadlines: one of
`Refresh`'s own (`OwnStep`) or one of the tick, the sweep, the chain checker and
time (`OtherStep`). Then:

* `ShownInv`: a busy state is shown only while the holder is at the steps it
  stands for, any other state is that of the newest history entry, a verdict is
  for the serial held, and stale means expired. Hence `BusyOnlyInRefresh`,
  `StaleOnlyExpired`, `VerdictOnCurrentStore`. `ValidIsCurrent` needs the busy
  states in the invariant because the unchanged path restores the last terminal
  state from the history.
* `PollInv`: a zone without a next refresh is still to be booted or has a goroutine
  that has yet to decide or commit, none that is past it (`Polled`), and changes
  are only asked for by a zone that has a store (`Asked`). Hence
  `PollingNeverDies`. `FullFlagCleared` says that a raised full flag has an owner
  who will take it down.
* `WholeInv`, for whole transfers: what is committed is a full pass over the store
  held, and a valid zone has no error finding and clean content, the sweep and the
  chain checker included. Hence `NoErrorWhenValid` and `NoMismatchWhenValid`.

**Incremental transfers**, the third part of `ZoneRefreshProofs`. `OrderInv` says that the
server a refresh uses is never behind the store, and that some server the probe may
choose holds the store's version or a later one; it gives `NeverBackwards`.
`CoverInv` says that the findings report every owner that fails whenever no pass
is at work, that what an incremental pass will not look at is reported already,
and that a pass's own result reports the rest; it gives `VerdictSound`. The point
is the merge: findings of touched owners are replaced and those of others kept, and
`OrderInv` keeps the touched set from being empty, the case in which
`MergeReplace` drops everything.

**Catalogs**, `CatalogsProofs` (any catalogs, names, configuration):
`ConfigWins`, `NoOrphans`, whose conjunction with the types, `WatchInv`, is
inductive, and `MembersKept`, the action property `KeptWhileListed`: a zone leaves
a catalog's hands only through that catalog, whose store must have stopped listing
it.

**Denial**, `DenialProofs` (NSEC3 chains of any length): `IncrementalSound` and
`ValidSound`, for `Preserving` transfers, in which no chain record is deleted and
none has its RRSIG alone replaced. Both conditions are necessary (section 7). The
invariant is `ChainInv`: every open link and missing record is among the findings,
and the verdict is that of the findings. An open link of the new version starts at
a touched record, which is looked at itself; or it was open before, and its finding
survives the merge because its owner is not among the touched names; or it was
closed before. In the last case the ring only grew, so the record that follows
its start now (`SuccessorExists`) is not the one that followed before
(`SameSuccessor`) and is new, hence touched, and the look at its predecessor
reports the link (`NewlyOpen`).

**The state file**, `LifecycleProofs` (any number of versions, crashes, failed
writes and restarts): `StateFileKept`, and `StateFileReadable`: unless two saves
overlapped (`mixed`) the file is absent or can be read. `SaveInv` adds, per caller,
that one who was alone has the temporary file to itself, empty before the write
and holding what was collected before the rename, and that only an overlap leaves
an open file under the state file's name. `SaveOverlap` shows the overlap.

**Delivery**, `DeliveryProofs` (any targets, retries, queue sizes, publications):
`EventsAccounted` and `CounterHonest`. `DeliveryInv` says where an accepted event
can be, in the queue or with the worker, once (`OnePlace`), that what a
publisher has not handed on yet is not accepted yet (`Unsent`), and what every
target has of it by that place (`Standing`): nothing while it is queued, at most
one copy per attempt at the target the worker is at, exactly one result where it
has passed.

**Polling arithmetic**, `SoaPollProofs` (any serial width, servers, limits):
`NewestWins`, `SkewCounted`, `WaitsBounded`. `PollInv` says that no two servers are
half the serial space apart, under which serials are ordered as the versions behind
them (`SerialOrder`, from a lemma on remainders). What the two loops over the
servers compute is induction over data. It is done by least counterexample: a
nonempty set of numbers has a least element (`LeastNat`, from the library's
theorem on well-founded relations), so a least prefix for which the claim fails
would exist, and its predecessor refutes it. That the recursive functions exist at
all (`BestExists`, `ExtremeExists`) is proved in the same way.

**Transfers, store and snapshots**, `ZoneTransferProofs` (any bodies, any number of
versions): `StoreExactHolds`, `IndexExactHolds`, `SnapshotExactHolds`, for servers
that answer with one changeset at most. The invariant, `TransferInv`, says that the
store is some published version, SOA, serial, records and both indexes included
(`StoreVersion`), and that the records a snapshot has read (`ReadingVersion`)
and the file on disk (`FileVersion`) list one version. A version once published
does not change, so what was read stays true while others are published and
transferred; the serial in the header of a snapshot may be a later one, which does
no harm because reading it back takes the serial from the SOA. What remains is what
the loops compute, and they are folds: the one over an answer in `parseIXFR`, the
two of `ApplyChanges` and the one of `FromAXFR`. A fold is shown to be a recursive
function over prefixes (`FoldExists`), and what holds of all prefixes is again
proved by least counterexample. For an answer of one changeset the walk collects
what the changeset removes and adds, with an SOA each, in order; for the store,
the records after a prefix are those before it without, or with, the records of
the prefix, and an index lists what it should because no two NSEC3 records of a
version share a hash. The order of the records of a version is arbitrary
throughout.

**The test primary**, `TestPrimaryProofs` (any options of the generator, any
defects of the catalogue, the edits of section 7, any number of updates):
`SameSerialHolds`. That a serial stands for one set of records is not inductive:
an update can come between the reads of a transfer, after which the auditor has
new records under the old serial. `PrimaryInv` adds that there is one SOA in the
zone as generated (`GeneratedZone`), that no defect touches it (`MutatePlain`,
`EditPlain`), so that every update, a repair included, leads exactly one serial
on (`BumpedIsBump`); that this is so for every changeset of the journal and of the
copy a transfer under way has read; and that the changeset from the auditor's
serial to the server's takes the auditor's records to the server's
(`ChangesLead`). For the mixed copy of `StepAnswerAXFR` the last holds because the
changeset that came between has been applied already, all but the SOA, and
applying it a second time changes nothing else.

**Only model-checked.** Everything temporal beyond `[]`: `RefreshEnds`,
`Converges`, `ExpiryNoticed`, `SkewReported`, `UnlistedLeave`,
`SoleMemberMonitored`, `NotifiedUnlessStopped`, `NobodyBlocks`, and the fair part
of `ImplementsGate` (liveness and ENABLED are beyond TLAPS 1.4.5). Of the invariants, three of
`TestPrimary`: `PackAudited`, `FindingsExact` and `DefectNoticed`. What they say is
about the example pack and the defects of the catalogue. `FindingsExact` and
`DefectNoticed` are false for other updates (`AuditEdits`, section 7), so that there
is no general statement to prove; for the given zones they are a computation, which
TLC does.

## 7. Where the code and its documentation differ

Besides the violation run, the following configurations state what a comment
or a document promises and TLC finds a behaviour of the code that breaks it. They
are kept as the record of each disagreement and are run by hand. Where a row says
"with", it is the configuration of a passing run with the property added to its
invariants.

| Configuration (specification) | Property | The promise | What happens |
|---|---|---|---|
| `ResumePromises` (ZoneRefresh) | `NoFalseValid` | `ARCHITECTURE.md:38`, resuming from a snapshot | an incremental pass on records nobody verified in this process yields valid |
| `ResumeNoVerdict` | `ResumedGetsVerdict` | `examples/config.example.yaml:230` "the next start can verify before the first AXFR" | with an unchanged serial the state stays unknown |
| `LaggingServer` | `NoFalseValid` | `dnssec/findings.go:230`, `incremental.go:10` | an IXFR answered by an older server is an empty change; `MergeReplace` with no owners drops every finding |
| `SweepDuringIncremental` | `ValidHasNoErrors` | `config.example.yaml:137` "severity error flips validity" | `*prev = *next` races with the sweep; a finding and a valid verdict coexist |
| `RefreshAXFR` with | `DSMismatchNotValid` | `config.example.yaml:188` (`require_match`) | a full pass drops the DS finding while `ChainOK` is false |
| `ZONEMDForgotten` | `RecordedMismatchNotValid` | `monitor/manager.go:592` "keep prior result" | an incremental pass turns the zone valid beside a recorded mismatch |
| `RefreshIXFR` with | `FullFlagMeansFull` | `frontend/modules/zones.ts:29` | the flag is up over a pass that is not full |
| `RefreshAXFR` with | `GaugeCurrent` | `metrics/metrics.go:57` | the sweep does not update the gauge |
| `OutageSticks` | `OutageHeals` | `examples/README.md:72` | transfer_failed stays until the serial changes |
| `StaleSticks` | `ReachableNotStale` | `examples/alerts.yaml:26` | an unchanged probe does not renew EXPIRE nor end stale |
| `InvalidNotReverified` | `InvalidReverified` | `config.example.yaml:151` | an invalid zone with an unchanged serial is not verified again |
| `ResumePromises` | `AlwaysScheduled` | `ARCHITECTURE.md:34` | after a resume, a failed application leaves no next poll |
| `DenialDeletion` (Denial) | `NoFalseAlarm` | `incremental.go:46` "name deleted: NSEC/NSEC3 neighbours are in touched.NSEC3 / nearby names" | a deleted NSEC3 record is in `touched.NSEC3` (`zone/store.go:507`) and is reported as a broken chain (`incremental.go:54-57`) although the chain is closed |
| `DenialDeletionForgotten` | `ValidMeansDenial` | `incremental.go:46` | a deletion drops the finding of the link that opened |
| `DenialResigned` | `ValidMeansDenial` | the same | a new RRSIG alone drops the record's findings |
| `DenialNSECChain` | `ValidMeansDenial` | the same, for NSEC | the incremental pass does not look at NSEC chains |
| `DenialSignatures` | `SignaturesChecked` | `ARCHITECTURE.md:25` | a full pass verifies no NSEC3 signatures (`verify.go:154`) |
| `AuditEdits` (TestPrimary), defect `DropNSEC3`, then a signed serial bump | `VerdictAgrees` | `incremental.go:10` | the finding of the missing NSEC3 record is at the apex (`incremental.go:56`); the next bump touches the apex and the merge drops it, while a full pass would still report the broken chain |
| the same, edit `SignedBitmap` | `VerdictAgrees` | `incremental.go:10` | the bitmap of a touched NSEC3 record is compared at the name it hashes, which is not touched: a signed record without its DS bit goes unnoticed |
| the same, `Undelegate` | `FindingsExact` | the same | glue whose delegation is taken away becomes authoritative and unsigned, and is not looked at |
| the same, `KeysByZSK` | `VerdictAgrees` | `incremental.go:11` "DNSKEY or NSEC3PARAM changes escalate to Full" | a new signature of the DNSKEY set is no DNSKEY change; the KSK check is skipped |
| the same, `NSEC3Sig` | `NoBadSignatureValid` | `ARCHITECTURE.md:25` | a bad NSEC3 signature on an untouched record leaves the zone valid |
| `AuditWrap` | `PackAudited` | RFC 4034 3.1.5, serial arithmetic of signature times | a signature that ends within `clock_skew` of 2^32 counts as expired (`verify.go:226`) |
| `PollRetry` (SoaPoll) | `RetryFollowsSOA` | `config.example.yaml:76` | with no server reachable the retry is 60 s whatever the SOA says (`manager.go:244`) |
| `CatalogShared` (Catalogs) | `MembersMonitored` | `config.example.yaml:59` | a zone of two catalogs is lost when the first drops it (`app.go:167`) |
| `NotifyDropped` (Notify) | `NotifyRefreshes` | `config.example.yaml:77` "Incoming NOTIFY triggers an immediate refresh" | a NOTIFY within the window or during a refresh starts nothing (`listener.go:225`) |
| `SaveOverlap` (Lifecycle) | `StateReadable` | `examples/config.yaml:143` "file persists last-known state/findings across restarts" | `persistLoop` renames the temporary file the final save has just truncated; killed there, the process leaves a state file that cannot be read |
| `EventDelivery` (Delivery) with | `LastEventCurrent` | events follow the state | zone_valid may be published after a newer zone_invalid (`manager.go:438-444`) |

## 8. What is not modelled

* Cryptography, canonical ordering, hashing and key tags: signatures, digests and
  orders are ideal or given by constants. Colliding key tags and records that do
  not unpack do not occur.
* Wire packing, TSIG, zone file writing, JSON handlers, the web interface,
  metrics registration, logging, the command lines: formatting and I/O without
  state of their own. The one API handler that changes state is `RequestRefresh`,
  an action of `ZoneRefresh`.
* Configuration: parsing and defaults are over before anything runs and its values
  are the constants of the modules. It does not reject a `save_interval` or an
  `expiry_check_interval` of zero, for which `time.NewTicker` panics
  (`app.go:125` creates the ticker before it looks at the interval).
* Saved findings of catalog members are not restored: `state.Apply` runs before the
  watcher has added any (`app.go:51`), so that they are dropped silently. No
  document promises otherwise, and `Catalogs` has no findings to show it with.
* Serial 0, which is legal, means no zone to the code (`manager.go:331`): it is
  transferred whole every time. The instances of `SoaPoll` reach it through the wrap.
* Several NSEC records at one owner: `nsec.go` looks at the first, `ZoneAudit` at
  all of them. They differ only where a second one was added, whose RRset then
  fails to verify in both.
* A zone without an SOA and DNSKEY records that do not parse (`verify.go:63-80`).
* A refused or timed out exchange is not told apart from a server that is not
  there at that moment; servers come and go between any two steps.
* Expiry index entries shared by two signatures that differ in other fields only
  (`store.go:242`).
* Data races proper are modelled as their outcomes where a later step depends on
  them (`Merge`, torn stores, torn files), not as torn machine words.

## 9. Plan

The order was and is: the refresh life cycle first, because every verdict
depends on it; then what it calls (findings, verifier, denial, transfer, polling
arithmetic); then what calls it and what it calls back (catalogs, NOTIFY,
delivery); then persistence and the process; then the verifier on real records,
with the generator and the test primary as its environment.

Done: all modules of section 2, the runs of section 3, the proofs of section 6.

Next, on the proofs:

1. Weaker hypotheses for `VerdictSound`: which snapshots may be resumed.
2. Which changesets keep `FindingsExact` on arbitrary zones, and the proof for them.

Open on the model: `RemoveZone` during a refresh in flight, and the snapshot
handler that runs inside `Refresh` while the zone is locked.

## 10. Running it

```
tlc -config RefreshLock.cfg MCZoneRefresh      # likewise for the other runs
tlapm ZoneRefreshProofs.tla                    # likewise for the other *Proofs
```

A configuration is run with the MC module of its specification where there is one
(`MCZoneRefresh`, `MCZoneTransfer`, `MCDelivery`, `MCTestPrimary`), and with the
specification itself otherwise; `AuditEdits` and `ResumePromises` need `-continue`
to show all of their violations. Each passing run finishes in under five minutes
with two workers.
