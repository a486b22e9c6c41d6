-------------------------- MODULE ZoneRefreshProofs --------------------------
(***************************************************************************)
(* Machine-checked proofs about ZoneRefresh, for every set of zones,        *)
(* goroutines, servers, versions and every configuration.                   *)
(***************************************************************************)
EXTENDS ZoneRefresh, FiniteSetTheorems, TLAPS

-----------------------------------------------------------------------------
(* What the verifier returns *)

\* A full pass returns a well-formed result.
LEMMA FullType ==
  ASSUME NEW c \in ContentType, NEW t \in Nat
  PROVE  Full(c, t) \in Result
<1>1. \A o \in Owners : verifyNode(c, o, t) \in SUBSET Finding
  BY DEF verifyNode, NewFinding, Finding, Codes, ErrorCodes
<1>2. verifyNodes(c, Owners, t) \in SUBSET Finding
  BY <1>1 DEF verifyNodes
<1>3. verifyZONEMD(c) \in SUBSET Finding
  BY FindingsAssumption
  DEF verifyZONEMD, NewFinding, Finding, Codes, ErrorCodes
<1>4. ZONEMDOutcome(c) \in {"unchecked", "ok", "bad"}
  BY DEF ZONEMDOutcome, ContentType
<1>5. HasErrors(verifyNodes(c, Owners, t) \cup verifyZONEMD(c)) \in BOOLEAN
  BY DEF HasErrors
<1> QED BY <1>2, <1>3, <1>4, <1>5 DEF Full, Result, NoResult

\* An incremental pass over well-formed findings returns a well-formed result.
LEMMA IncrementalType ==
  ASSUME NEW c \in ContentType, NEW t \in Nat, NEW prev \in SUBSET Finding,
         NEW T \in SUBSET Owners
  PROVE  Incremental(c, t, prev, T) \in Result
<1>1. \A o \in Owners : verifyNode(c, o, t) \in SUBSET Finding
  BY DEF verifyNode, NewFinding, Finding, Codes, ErrorCodes
<1>2. verifyNodes(c, T, t) \in SUBSET Finding
  BY <1>1 DEF verifyNodes
<1>3. \A N \in SUBSET Finding, W \in SUBSET Owners : MergeReplace(prev, N, W) \in SUBSET Finding
  BY DEF MergeReplace
<1> DEFINE F == IF c.signed THEN MergeReplace(prev, verifyNodes(c, T, t), T)
                ELSE MergeReplace(prev, {}, {})
<1>4. F \in SUBSET Finding
  BY <1>2, <1>3
<1>5. Incremental(c, t, prev, T) =
        [mode |-> "incremental", found |-> F,
         valid |-> ~c.signed \/ ~HasErrors(F), unsigned |-> ~c.signed,
         zonemd |-> "unchecked"]
  BY DEF Incremental
<1> HIDE DEF F
<1> QED BY <1>4, <1>5 DEF Result

\* What a verification reads of a store that exists is a zone content.
LEMMA ContentsType ==
  ASSUME NEW st \in [serial : Serials, torn : BOOLEAN], NEW c \in Contents(st)
  PROVE  c \in ContentType
BY RefreshAssumption DEF Contents, ContentType
-----------------------------------------------------------------------------
(* The inductive invariant: a goroutine that is not idle works for a zone,  *)
(* and the values it carries are those its next step needs.                   *)

IdleIffNone == \A p \in Procs : pc[p] = "idle" <=> job[p].zone = "none"

ReadyAt(p) ==
  /\ pc[p] = "transfer" => job[p].server \in Servers
  /\ pc[p] = "install" => job[p].got \in Serials
  /\ pc[p] \in {"probe", "decide", "transfer", "install"} =>
       job[p].old = Store[job[p].zone].serial
  /\ pc[p] \in {"verify", "merge", "commit", "publish"} =>
       Store[job[p].zone].serial # 0

IndInv ==
  /\ TypeOK
  /\ IdleIffNone
  /\ \A p \in Procs : ReadyAt(p)
  /\ GateHeldByOne
  /\ SlotsCounted

USE DEF vars, verdictVars, timerVars, gateVars, zonemdVars, chainVars, outVars,
        envVars, systemVars

\* The fields of a goroutine's job have the types Job gives them.
LEMMA JobFields ==
  ASSUME NEW j \in Job
  PROVE  /\ \A x \in Zones : [j EXCEPT !.zone = x] \in Job
         /\ \A x \in BOOLEAN : [j EXCEPT !.full = x] \in Job
         /\ \A x \in 0..MaxSerial : [j EXCEPT !.old = x] \in Job
         /\ \A x \in 0..NumServers : [j EXCEPT !.server = x] \in Job
         /\ \A x \in 0..MaxSerial : [j EXCEPT !.best = x] \in Job
         /\ \A x \in 0..MaxSerial : [j EXCEPT !.got = x] \in Job
         /\ \A x \in {"axfr", "ixfr", "soa"} : [j EXCEPT !.method = x] \in Job
         /\ \A x \in SUBSET Owners : [j EXCEPT !.touched = x] \in Job
         /\ \A x \in BOOLEAN : [j EXCEPT !.dnskey = x] \in Job
         /\ \A x \in Result : [j EXCEPT !.res = x] \in Job
BY DEF Job

\* A goroutine that runs has a well-formed job, for one of the zones.
LEMMA JobWorks ==
  ASSUME TypeOK, IdleIffNone, NEW p \in Procs, pc[p] # "idle"
  PROVE  job[p] \in Job /\ job[p].zone \in Zones
BY DEF TypeOK, IdleIffNone, Job

-----------------------------------------------------------------------------
(* Every step, as far as the gate and the semaphore are concerned, is one of *)
(* eight kinds.                                                               *)

Others(p) ==
  \A q \in Procs \ {p} : pc'[q] = pc[q] /\ job'[q] = job[q]

Starting(p) ==
  /\ pc[p] = "idle" /\ pc'[p] = "start" /\ job'[p].zone \in Zones
  /\ Others(p) /\ UNCHANGED <<Refreshing, sem>>

GivingUp(p) ==
  /\ pc[p] = "start" /\ pc'[p] = "idle" /\ job'[p].zone = "none"
  /\ Refreshing[job[p].zone]
  /\ Others(p) /\ UNCHANGED <<Refreshing, sem>>

Locking(p) ==
  /\ pc[p] = "start" /\ pc'[p] = "slot" /\ job'[p] = job[p]
  /\ ~Refreshing[job[p].zone]
  /\ Refreshing' = [Refreshing EXCEPT ![job[p].zone] = TRUE]
  /\ Others(p) /\ UNCHANGED sem

Entering(p) ==
  /\ pc[p] = "slot" /\ pc'[p] = "probe" /\ job'[p].zone = job[p].zone
  /\ sem < ConcurrentTransfers /\ sem' = sem + 1
  /\ Others(p) /\ UNCHANGED Refreshing

Working(p) ==
  /\ pc[p] \in SlotSteps /\ pc'[p] \in SlotSteps
  /\ job'[p].zone = job[p].zone
  /\ Others(p) /\ UNCHANGED <<Refreshing, sem>>

Leaving(p) ==
  /\ pc[p] = "release" /\ pc'[p] = "unlock" /\ job'[p].zone = job[p].zone
  /\ sem' = sem - 1
  /\ Others(p) /\ UNCHANGED Refreshing

Unlocking(p) ==
  /\ pc[p] = "unlock" /\ pc'[p] = "idle" /\ job'[p].zone = "none"
  /\ Refreshing' = [Refreshing EXCEPT ![job[p].zone] = FALSE]
  /\ Others(p) /\ UNCHANGED sem

Outside == UNCHANGED <<Refreshing, sem, pc, job>>

Kind ==
  \/ Outside
  \/ \E p \in Procs : \/ Starting(p) \/ GivingUp(p) \/ Locking(p)
                      \/ Entering(p) \/ Working(p) \/ Leaving(p)
                      \/ Unlocking(p)

\* The steps of Refresh that keep the zone and the slot.
Works(p) ==
  \/ Probe(p)
  \/ NoServer(p) \/ Unchanged(p) \/ ReverifyZONEMD(p) \/ BeginTransfer(p)
  \/ TransferFails(p) \/ TransferWhole(p) \/ TransferIncremental(p)
  \/ Install(p) \/ ApplyFails(p)
  \/ VerifyFull(p) \/ VerifyIncremental(p) \/ Merge(p)
  \/ Commit(p) \/ Publish(p)

\* Starting a goroutine is a Starting step of that goroutine.
LEMMA SpawnKind ==
  ASSUME TypeOK, NEW z \in Zones, NEW full, Spawn(z, full),
         UNCHANGED <<Refreshing, sem>>
  PROVE  \E p \in Procs : Starting(p)
<1> PICK p \in Procs : /\ pc[p] = "idle" /\ GoTo(p, "start")
                       /\ job' = [job EXCEPT ![p] =
                                   [Idle EXCEPT !.zone = z, !.full = full]]
  BY DEF Spawn
<1>1. [Idle EXCEPT !.zone = z, !.full = full].zone = z
  BY DEF Idle
<1>2. Starting(p)
  BY <1>1 DEF Starting, Others, TypeOK, GoTo
<1> QED BY <1>2

\* An incremental transfer changes nothing but the goroutine's job and place.
LEMMA TransferIncrementalFrame ==
  ASSUME NEW p \in Procs, TransferIncremental(p)
  PROVE  /\ pc[p] = "transfer" /\ pc' = [pc EXCEPT ![p] = "install"]
         /\ PreferIXFR
         /\ job[p].old # 0
         /\ UNCHANGED <<verdictVars, Store, Findings, gateVars, timerVars,
                        chainVars, zonemdVars, SkewSince, sem, boot, outVars,
                        envVars>>
BY DEF TransferIncremental, GoTo

\* The steps between taking a slot and giving it back keep lock and slot.
LEMMA WorksKind ==
  ASSUME TypeOK, NEW p \in Procs, Works(p)
  PROVE  Working(p)
<1> USE DEF TypeOK, Working, Others, GoTo, SlotSteps, Job
<1>1. CASE Probe(p)
  <2>1. job'[p].zone = job[p].zone /\ \A q \in Procs \ {p} : job'[q] = job[q]
    <3>1. CASE UNCHANGED job
      BY <3>1
    <3>2. CASE \E s \in Servers : job' = [job EXCEPT ![p].server = s,
                                   ![p].best = serial[job[p].zone][s]]
      BY <3>2
    <3> QED BY <1>1, <3>1, <3>2 DEF Probe
  <2> QED BY <1>1, <2>1 DEF Probe
<1>2. CASE NoServer(p)             BY <1>2 DEF NoServer
<1>3. CASE Unchanged(p)            BY <1>3 DEF Unchanged
<1>4. CASE ReverifyZONEMD(p)       BY <1>4 DEF ReverifyZONEMD
<1>5. CASE BeginTransfer(p)        BY <1>5 DEF BeginTransfer
<1>6. CASE TransferFails(p)        BY <1>6 DEF TransferFails
<1>7. CASE TransferWhole(p)        BY <1>7 DEF TransferWhole
<1>8. CASE TransferIncremental(p)
  <2> DEFINE a == job[p].old
             s == serial[job[p].zone][job[p].server]
  <2>1. job'[p].zone = job[p].zone /\ \A q \in Procs \ {p} : job'[q] = job[q]
    <3>1. CASE job' = [job EXCEPT ![p].method = "ixfr", ![p].got = a]
      BY <3>1
    <3>2. CASE \E T \in TouchedSets(a, s), k \in BOOLEAN :
                 job' = [job EXCEPT ![p].method = "ixfr", ![p].got = s,
                                    ![p].touched = T, ![p].dnskey = k]
      BY <3>2
    <3> QED BY <1>8, <3>1, <3>2 DEF TransferIncremental
  <2> QED BY <1>8, <2>1, TransferIncrementalFrame
<1>9. CASE Install(p)              BY <1>9 DEF Install
<1>10. CASE ApplyFails(p)          BY <1>10 DEF ApplyFails
<1>11. CASE VerifyFull(p)          BY <1>11 DEF VerifyFull
<1>12. CASE VerifyIncremental(p)   BY <1>12 DEF VerifyIncremental
<1>13. CASE Merge(p)               BY <1>13 DEF Merge
<1>14. CASE Commit(p)              BY <1>14 DEF Commit
<1>15. CASE Publish(p)             BY <1>15 DEF Publish
<1> QED BY <1>1, <1>2, <1>3, <1>4, <1>5, <1>6, <1>7, <1>8, <1>9, <1>10, <1>11,
           <1>12, <1>13, <1>14, <1>15 DEF Works

\* Every step does one of the kinds of things Kind lists to lock and semaphore.
LEMMA StepKind ==
  ASSUME TypeOK, [Next]_vars
  PROVE  Kind
<1>1. CASE UNCHANGED vars
  BY <1>1 DEF Kind, Outside
<1>2. ASSUME NEW p \in Procs, TryLockRefresh(p)
      PROVE  GivingUp(p) \/ Locking(p)
  BY <1>2 DEF TryLockRefresh, CanLock, GivingUp, Locking, Others, TypeOK, GoTo, Idle
<1>3. ASSUME NEW p \in Procs, AcquireSlot(p)
      PROVE  Entering(p)
  BY <1>3 DEF AcquireSlot, SlotFree, Entering, Others, TypeOK, GoTo, Job
<1>4. ASSUME NEW p \in Procs, ReleaseSlot(p)
      PROVE  Leaving(p)
  BY <1>4 DEF ReleaseSlot, giveSlot, Leaving, Others, TypeOK, GoTo
<1>5. ASSUME NEW p \in Procs, UnlockRefresh(p)
      PROVE  Unlocking(p)
  BY <1>5 DEF UnlockRefresh, unlock, Unlocking, Others, TypeOK, GoTo, Idle
<1>6. ASSUME NEW p \in Procs, Refresh(p) \/ AcquireSlot(p)
      PROVE  Kind
  BY <1>2, <1>3, <1>4, <1>5, <1>6, WorksKind DEF Refresh, Works, Kind
<1>7. ASSUME NEW z \in Zones, Boot(z)
      PROVE  Kind
  BY <1>7, SpawnKind DEF Boot, Kind
<1>8. ASSUME NEW z \in Zones, NEW full \in BOOLEAN, RequestRefresh(z, full)
      PROVE  Kind
  BY <1>8, SpawnKind DEF RequestRefresh, Kind
<1>9. ASSUME NEW z \in Zones, Tick(z)
      PROVE  Kind
  BY <1>9, SpawnKind DEF Tick, Kind, Outside
<1>10. ASSUME NEW z \in Zones, Sweep(z) \/ ChainLookup(z) \/ ChainAnswer(z)
       PROVE  Outside
  BY <1>10 DEF Sweep, ChainLookup, ChainAnswer, Outside
<1>11. CASE Environment
  BY <1>11 DEF Environment, NewVersion, ServerUpDown, RefreshComesDue,
               ExpirePasses, ZONEMDAges, SkewAges, ClockTicks, Kind, Outside
<1> QED BY <1>1, <1>6, <1>7, <1>8, <1>9, <1>10, <1>11 DEF Next, Kind
-----------------------------------------------------------------------------
(* Each conjunct of the invariant is preserved *)

\* A goroutine has a zone exactly while it runs, after every step.
LEMMA IdleStep ==
  ASSUME TypeOK, IdleIffNone, Kind
  PROVE  IdleIffNone'
<1> USE RefreshAssumption
<1>1. CASE Outside
  BY <1>1 DEF Outside, IdleIffNone
<1>2. ASSUME NEW p \in Procs, \/ Starting(p) \/ GivingUp(p) \/ Locking(p)
                              \/ Entering(p) \/ Working(p) \/ Leaving(p)
                              \/ Unlocking(p)
      PROVE  IdleIffNone'
  BY <1>2 DEF IdleIffNone, Starting, GivingUp, Locking, Entering, Working,
              Leaving, Unlocking, Others, SlotSteps
<1> QED BY <1>1, <1>2 DEF Kind

\* Every step keeps the lock of a zone with one goroutine at most.
LEMMA GateStep ==
  ASSUME TypeOK, IdleIffNone, GateHeldByOne, Kind
  PROVE  GateHeldByOne'
<1> USE DEF TypeOK, GateHeldByOne, Holds, LockSteps, SlotSteps
<1>1. CASE Outside
  BY <1>1 DEF Outside
<1>2. ASSUME NEW p \in Procs, Starting(p) \/ GivingUp(p)
      PROVE  GateHeldByOne'
  <2>1. \A q \in Procs, z \in Zones : Holds(q, z)' <=> Holds(q, z)
    BY <1>2 DEF Starting, GivingUp, Others
  <2>2. Refreshing' = Refreshing
    BY <1>2 DEF Starting, GivingUp
  <2> QED BY <2>1, <2>2
<1>3. ASSUME NEW p \in Procs, Locking(p)
      PROVE  GateHeldByOne'
  <2>1. job[p].zone \in Zones
    BY <1>3 DEF Locking, IdleIffNone, Job
  <2>2. \A q \in Procs, z \in Zones :
          Holds(q, z)' <=> Holds(q, z) \/ (q = p /\ z = job[p].zone)
    BY <1>3 DEF Locking, Others
  <2> QED BY <1>3, <2>1, <2>2 DEF Locking
<1>4. ASSUME NEW p \in Procs, Entering(p) \/ Working(p) \/ Leaving(p)
      PROVE  GateHeldByOne'
  <2>1. \A q \in Procs, z \in Zones : Holds(q, z)' <=> Holds(q, z)
    BY <1>4 DEF Entering, Working, Leaving, Others
  <2>2. Refreshing' = Refreshing
    BY <1>4 DEF Entering, Working, Leaving
  <2> QED BY <2>1, <2>2
<1>5. ASSUME NEW p \in Procs, Unlocking(p)
      PROVE  GateHeldByOne'
  <2>1. job[p].zone \in Zones
    BY <1>5 DEF Unlocking, IdleIffNone, Job
  <2>2. \A q \in Procs, z \in Zones :
          Holds(q, z)' <=> Holds(q, z) /\ z # job[p].zone
    <3>1. \A z \in Zones : ~Holds(p, z)'
      BY <1>5, RefreshAssumption DEF Unlocking
    <3>2. \A q \in Procs \ {p}, z \in Zones : Holds(q, z)' <=> Holds(q, z)
      BY <1>5 DEF Unlocking, Others
    <3>3. Holds(p, job[p].zone)
      BY <1>5 DEF Unlocking
    <3>4. \A q \in Procs \ {p} : ~Holds(q, job[p].zone)
      BY <2>1, <3>3
    <3>5. \A z \in Zones : Holds(p, z) => z = job[p].zone
      OBVIOUS
    <3> HIDE DEF Holds, TypeOK, GateHeldByOne
    <3>6. ASSUME NEW q \in Procs, NEW z \in Zones, q # p
          PROVE  Holds(q, z)' <=> Holds(q, z) /\ z # job[p].zone
      BY <3>2, <3>4, <3>6
    <3>7. ASSUME NEW z \in Zones
          PROVE  Holds(p, z)' <=> Holds(p, z) /\ z # job[p].zone
      BY <3>1, <3>5
    <3> QED BY <3>6, <3>7
  <2> QED BY <1>5, <2>1, <2>2 DEF Unlocking
<1> QED BY <1>1, <1>2, <1>3, <1>4, <1>5 DEF Kind

\* The goroutines that hold a slot can be counted.
LEMMA SlotHoldersFinite ==
  /\ IsFiniteSet(SlotHolders)
  /\ Cardinality(SlotHolders) \in Nat
  /\ Cardinality(SlotHolders) = 0 <=> SlotHolders = {}
BY RefreshAssumption, FS_Subset, FS_CardinalityType, FS_EmptySet DEF SlotHolders

\* Every step keeps the semaphore's count that of the goroutines with a slot.
LEMMA SlotsStep ==
  ASSUME TypeOK, SlotsCounted, Kind
  PROVE  SlotsCounted'
<1> USE DEF TypeOK, SlotsCounted, SlotSteps
<1>1. CASE Outside
  BY <1>1 DEF Outside, SlotHolders
<1>2. ASSUME NEW p \in Procs, Starting(p) \/ GivingUp(p) \/ Locking(p)
                              \/ Working(p) \/ Unlocking(p)
      PROVE  SlotsCounted'
  <2>1. SlotHolders' = SlotHolders
    BY <1>2 DEF Starting, GivingUp, Locking, Working, Unlocking, Others, SlotHolders
  <2>2. sem' = sem
    BY <1>2 DEF Starting, GivingUp, Locking, Working, Unlocking
  <2> QED BY <2>1, <2>2
<1>3. ASSUME NEW p \in Procs, Entering(p)
      PROVE  SlotsCounted'
  <2>1. SlotHolders' = SlotHolders \cup {p} /\ p \notin SlotHolders
    BY <1>3 DEF Entering, Others, SlotHolders
  <2>2. Cardinality(SlotHolders') = Cardinality(SlotHolders) + 1
    BY <2>1, SlotHoldersFinite, FS_AddElement
  <2> QED BY <1>3, <2>2 DEF Entering
<1>4. ASSUME NEW p \in Procs, Leaving(p)
      PROVE  SlotsCounted'
  <2>1. SlotHolders' = SlotHolders \ {p} /\ p \in SlotHolders
    BY <1>4 DEF Leaving, Others, SlotHolders
  <2>2. Cardinality(SlotHolders') = Cardinality(SlotHolders) - 1
    BY <2>1, SlotHoldersFinite, FS_RemoveElement
  <2> QED BY <1>4, <2>2 DEF Leaving
<1> QED BY <1>1, <1>2, <1>3, <1>4 DEF Kind

\* A step of Refresh leaves its own goroutine with what its next step relies
\* on.
LEMMA ReadyWorks ==
  ASSUME IndInv, NEW p \in Procs, Works(p)
  PROVE  ReadyAt(p)'
<1>1. job[p] \in Job /\ job[p].zone \in Zones /\ pc[p] \in SlotSteps
  BY WorksKind, JobWorks DEF IndInv, Working, SlotSteps
<1>2. ReadyAt(p)
  BY DEF IndInv
<1> USE DEF TypeOK, GoTo, ReadyAt
<1>3. CASE Probe(p)
  <2>1. UNCHANGED Store /\ pc[p] = "probe" /\ pc'[p] = "decide"
    BY <1>3 DEF Probe, IndInv
  <2>2. job'[p].zone = job[p].zone /\ job'[p].old = job[p].old
    <3>1. CASE UNCHANGED job
      BY <3>1
    <3>2. CASE \E s \in Servers : job' = [job EXCEPT ![p].server = s,
                                   ![p].best = serial[job[p].zone][s]]
      BY <3>2, <1>1 DEF Job, IndInv
    <3> QED BY <1>3, <3>1, <3>2 DEF Probe
  <2> QED BY <2>1, <2>2, <1>2
<1>4. CASE ReverifyZONEMD(p)
  <2>1. /\ UNCHANGED Store /\ pc[p] = "decide" /\ pc'[p] = "commit"
        /\ job[p].old # 0
    BY <1>4 DEF ReverifyZONEMD, IsUnchanged, IndInv
  <2>2. job'[p].zone = job[p].zone
    BY <1>4, <1>1 DEF ReverifyZONEMD, Job, IndInv
  <2> QED BY <2>1, <2>2, <1>2
<1>5. CASE BeginTransfer(p)
  <2>1. job[p].server \in Servers
    BY <1>5, <1>1, RefreshAssumption DEF BeginTransfer, Job, Servers
  <2> QED BY <1>5, <1>2, <2>1 DEF BeginTransfer, IndInv
<1>6. CASE TransferWhole(p)
  <2>1. serial[job[p].zone][job[p].server] \in Serials
    BY <1>6, <1>1, <1>2 DEF TransferWhole, IndInv
  <2> QED BY <1>6, <1>1, <1>2, <2>1 DEF TransferWhole, Job, IndInv
<1>7. CASE TransferIncremental(p)
  <2> DEFINE a == job[p].old
             s == serial[job[p].zone][job[p].server]
  <2>1. s \in Serials /\ a \in 0..MaxSerial
    BY <1>7, <1>1, <1>2, TransferIncrementalFrame DEF Job, IndInv
  <2>2. a \in Serials
    BY <1>7, <2>1, RefreshAssumption, TransferIncrementalFrame DEF Serials
  <2>3. /\ job'[p].zone = job[p].zone /\ job'[p].old = job[p].old
        /\ job'[p].got \in Serials
    <3>1. CASE job' = [job EXCEPT ![p].method = "ixfr", ![p].got = a]
      BY <3>1, <1>1, <2>2 DEF Job, IndInv
    <3>2. CASE \E T \in TouchedSets(a, s), k \in BOOLEAN :
                 job' = [job EXCEPT ![p].method = "ixfr", ![p].got = s,
                                    ![p].touched = T, ![p].dnskey = k]
      BY <3>2, <1>1, <2>1 DEF Job, IndInv
    <3> QED BY <1>7, <3>1, <3>2 DEF TransferIncremental
  <2>4. UNCHANGED Store /\ pc[p] = "transfer" /\ pc'[p] = "install"
    BY <1>7, TransferIncrementalFrame DEF IndInv
  <2> QED BY <1>2, <2>3, <2>4
<1>8. CASE Install(p)
  BY <1>8, <1>1, <1>2 DEF Install, Serials, IndInv
<1>9. CASE VerifyFull(p)
  BY <1>9, <1>1, <1>2 DEF VerifyFull, Job, IndInv
<1>10. CASE VerifyIncremental(p)
  BY <1>10, <1>1, <1>2 DEF VerifyIncremental, Job, IndInv
<1>11. CASE Merge(p) \/ Commit(p)
  BY <1>11, <1>2 DEF Merge, Commit, IndInv
<1>12. CASE \/ NoServer(p) \/ Unchanged(p) \/ TransferFails(p) \/ ApplyFails(p)
            \/ Publish(p)
  <2>1. pc'[p] = "release"
    BY <1>12 DEF NoServer, Unchanged, TransferFails, ApplyFails, Publish, IndInv
  <2> QED BY <2>1
<1> QED BY <1>3, <1>4, <1>5, <1>6, <1>7, <1>8, <1>9, <1>10, <1>11, <1>12 DEF Works

\* Only the goroutine that holds a zone changes its store.
LEMMA StoreFrame ==
  ASSUME IndInv, NEW p \in Procs, Works(p), NEW z \in Zones, z # job[p].zone
  PROVE  Store'[z] = Store[z]
<1>1. CASE Install(p) \/ ApplyFails(p)
  BY <1>1 DEF Install, ApplyFails, IndInv, TypeOK
<1>2. CASE TransferIncremental(p)
  BY <1>2, TransferIncrementalFrame
<1>3. CASE ~(Install(p) \/ ApplyFails(p) \/ TransferIncremental(p))
  <2>1. UNCHANGED Store
    BY <1>3 DEF Works, Probe, NoServer, Unchanged, ReverifyZONEMD, BeginTransfer,
                TransferFails, TransferWhole, VerifyFull, VerifyIncremental,
                Merge, Commit, Publish
  <2> QED BY <2>1
<1> QED BY <1>1, <1>2, <1>3

\* A goroutine that does not move keeps what its next step relies on, because
\* nobody else changes the store of its zone.
LEMMA OthersReady ==
  ASSUME IndInv, NEW p \in Procs, Others(p), pc[p] \in LockSteps,
         \A z \in Zones : z # job[p].zone => Store'[z] = Store[z],
         NEW q \in Procs, q # p
  PROVE  ReadyAt(q)'
<1>1. pc'[q] = pc[q] /\ job'[q] = job[q]
  BY DEF Others
<1>2. CASE pc[q] \in SlotSteps
  <2>1. job[q].zone \in Zones /\ job[p].zone \in Zones
    BY <1>2, JobWorks DEF IndInv, SlotSteps, LockSteps
  <2>2. job[q].zone # job[p].zone
    BY <1>2, <2>1 DEF IndInv, GateHeldByOne, Holds, LockSteps
  <2> QED BY <1>1, <2>1, <2>2 DEF ReadyAt, IndInv
<1>3. CASE pc[q] \notin SlotSteps
  BY <1>1, <1>3 DEF ReadyAt, SlotSteps
<1> QED BY <1>2, <1>3

\* Every step leaves every goroutine with what its next step relies on.
LEMMA ReadyStep ==
  ASSUME IndInv, [Next]_vars
  PROVE  (\A q \in Procs : ReadyAt(q))'
<1>1. ASSUME NEW p \in Procs, Works(p), NEW q \in Procs
      PROVE  ReadyAt(q)'
  <2>1. Others(p) /\ pc[p] \in LockSteps
    BY <1>1, WorksKind DEF IndInv, Working, LockSteps
  <2>2. CASE q = p
    BY <1>1, <2>2, ReadyWorks
  <2>3. CASE q # p
    BY <1>1, <2>1, <2>3, StoreFrame, OthersReady
  <2> QED BY <2>2, <2>3
<1>2. ASSUME UNCHANGED Store, Outside
      PROVE  \A q \in Procs : ReadyAt(q)'
  BY <1>2 DEF Outside, ReadyAt, IndInv
<1>3. ASSUME UNCHANGED Store, NEW p \in Procs, Others(p),
             \/ pc'[p] \in {"idle", "start", "slot", "unlock"}
             \/ pc'[p] = "probe" /\ job'[p].old = Store[job'[p].zone].serial
      PROVE  \A q \in Procs : ReadyAt(q)'
  BY <1>3 DEF Others, ReadyAt, IndInv
<1>4. ASSUME NEW p \in Procs, TryLockRefresh(p) \/ ReleaseSlot(p) \/ UnlockRefresh(p)
      PROVE  \A q \in Procs : ReadyAt(q)'
  <2>1. /\ UNCHANGED Store /\ Others(p)
        /\ pc'[p] \in {"idle", "start", "slot", "unlock"}
    BY <1>4 DEF TryLockRefresh, ReleaseSlot, UnlockRefresh, GoTo, Others, IndInv,
                TypeOK
  <2> QED BY <2>1, <1>3
<1>5. ASSUME NEW p \in Procs, AcquireSlot(p)
      PROVE  \A q \in Procs : ReadyAt(q)'
  <2>1. UNCHANGED Store /\ Others(p) /\ pc'[p] = "probe"
    BY <1>5 DEF AcquireSlot, GoTo, Others, IndInv, TypeOK
  <2>2. job'[p].old = Store[job[p].zone].serial /\ job'[p].zone = job[p].zone
    BY <1>5 DEF AcquireSlot, IndInv, TypeOK, Job
  <2> QED BY <2>1, <2>2, <1>3
<1>6. ASSUME NEW z \in Zones, NEW full, Spawn(z, full),
             UNCHANGED <<Store, Refreshing, sem>>
      PROVE  \A q \in Procs : ReadyAt(q)'
  <2>1. PICK p \in Procs : Starting(p)
    BY <1>6, SpawnKind DEF IndInv
  <2> QED BY <1>3, <1>6, <2>1 DEF Starting
<1>7. ASSUME NEW z \in Zones,
             Boot(z) \/ Tick(z) \/ \E full \in BOOLEAN : RequestRefresh(z, full)
      PROVE  \A q \in Procs : ReadyAt(q)'
  <2>1. UNCHANGED <<Store, Refreshing, sem>>
    BY <1>7 DEF Boot, Tick, RequestRefresh
  <2>2. (\E full \in BOOLEAN : Spawn(z, full)) \/ UNCHANGED <<pc, job>>
    BY <1>7 DEF Boot, Tick, RequestRefresh
  <2> QED BY <1>2, <1>6, <2>1, <2>2 DEF Outside
<1>8. ASSUME \/ UNCHANGED vars \/ Environment
             \/ \E z \in Zones : Sweep(z) \/ ChainLookup(z) \/ ChainAnswer(z)
      PROVE  \A q \in Procs : ReadyAt(q)'
  <2>1. UNCHANGED Store /\ Outside
    BY <1>8 DEF Sweep, ChainLookup, ChainAnswer, Environment, NewVersion,
                ServerUpDown, RefreshComesDue, ExpirePasses, ZONEMDAges,
                SkewAges, ClockTicks, Outside
  <2> QED BY <1>2, <2>1
<1> QED BY <1>1, <1>4, <1>5, <1>7, <1>8 DEF Next, Refresh, Works

\* The steps of Refresh keep every variable's type.
LEMMA TypeWorks ==
  ASSUME IndInv, NEW p \in Procs, Works(p)
  PROVE  TypeOK'
<1>1. /\ job[p] \in Job /\ job[p].zone \in Zones
      /\ Store[job[p].zone] \in [serial : 0..MaxSerial, torn : BOOLEAN]
  <2>1. pc[p] \in SlotSteps
    BY WorksKind DEF IndInv, Working
  <2>2. job[p] \in Job /\ job[p].zone \in Zones
    BY <2>1, JobWorks DEF IndInv, SlotSteps
  <2> QED BY <2>2 DEF IndInv, TypeOK
<1>2. ReadyAt(p) /\ TypeOK
  BY DEF IndInv
<1>3. job[p].old \in 0..MaxSerial /\ job[p].got \in 0..MaxSerial
  BY <1>1 DEF Job
<1>4. \A c \in Contents(Store[job[p].zone]) :
        Store[job[p].zone].serial # 0 => c \in ContentType
  BY <1>1, ContentsType, RefreshAssumption DEF Serials
<1>5. now \in Nat /\ Findings[job[p].zone] \in SUBSET Finding
  BY <1>1, <1>2, RefreshAssumption DEF TypeOK
<1> USE DEF TypeOK, GoTo, Steps, LockSteps, SlotSteps
<1>6. CASE Probe(p)
  <2>1. job' \in [Procs -> Job]
    <3>1. CASE UNCHANGED job
      BY <1>2, <3>1
    <3>2. ASSUME NEW s \in Servers,
                 job' = [job EXCEPT ![p].server = s,
                                    ![p].best = serial[job[p].zone][s]]
          PROVE  job' \in [Procs -> Job]
      <4>1. s \in 0..NumServers /\ serial[job[p].zone][s] \in 0..MaxSerial
        BY <1>1, <1>2, RefreshAssumption DEF Servers, Serials
      <4>2. [job[p] EXCEPT !.server = s, !.best = serial[job[p].zone][s]] \in Job
        BY <1>1, <4>1, JobFields
      <4> QED BY <1>2, <3>2, <4>2
    <3> QED BY <1>6, <3>1, <3>2 DEF Probe
  <2>2. NewFinding("SERIAL_SKEW", Apex) \in Finding
    BY FindingsAssumption DEF NewFinding, Finding, Codes
  <2>3. /\ Findings' \in [Zones -> SUBSET Finding]
        /\ SkewSince' \in [Zones -> {"zero", "recent", "aged"}]
    <3>1. detectSkew(job[p].zone)
      BY <1>6 DEF Probe
    <3>2. skewSince(job[p].zone) \in {"zero", "recent", "aged"}
      BY <1>1, <1>2 DEF skewSince
    <3>3. CASE Cardinality(Answering(job[p].zone)) < 2
      BY <1>2, <3>1, <3>3 DEF detectSkew
    <3>4. CASE ~(Cardinality(Answering(job[p].zone)) < 2)
      <4> DEFINE F == IF Skewed(job[p].zone) /\ skewSince(job[p].zone) = "aged"
                        THEN Findings[job[p].zone]
                               \cup {NewFinding("SERIAL_SKEW", Apex)}
                        ELSE Findings[job[p].zone]
      <4>1. /\ SkewSince' = [SkewSince EXCEPT ![job[p].zone] =
                                                skewSince(job[p].zone)]
            /\ Findings' = [Findings EXCEPT ![job[p].zone] = F]
        BY <3>1, <3>4 DEF detectSkew
      <4>2. F \in SUBSET Finding
        BY <1>5, <2>2
      <4> HIDE DEF F
      <4> QED BY <1>2, <3>2, <4>1, <4>2
    <3> QED BY <3>3, <3>4
  <2> QED BY <1>2, <1>6, <2>1, <2>3 DEF Probe
<1>7. CASE NoServer(p)
  BY <1>2, <1>3, <1>7 DEF NoServer, setState, schedule, States, TerminalStates
<1>8. CASE Unchanged(p)
  <2>1. lastTerminalState(job[p].zone) \in States
    BY <1>1, <1>2 DEF lastTerminalState, States
  <2> QED BY <1>2, <1>8, <2>1 DEF Unchanged, schedule
<1>9. CASE ReverifyZONEMD(p)
  <2>1. Store[job[p].zone].serial # 0
    BY <1>2, <1>9 DEF ReverifyZONEMD, IsUnchanged, ReadyAt
  <2>2. PICK c \in Contents(Store[job[p].zone]) :
          job' = [job EXCEPT ![p].method = "soa", ![p].res = Full(c, now)]
    BY <1>9 DEF ReverifyZONEMD
  <2>3. Full(c, now) \in Result
    BY <1>4, <1>5, <2>1, FullType
  <2>4. [job[p] EXCEPT !.method = "soa", !.res = Full(c, now)] \in Job
    BY <1>1, <2>3, JobFields
  <2>5. job' \in [Procs -> Job]
    BY <1>2, <2>2, <2>4
  <2> QED BY <1>2, <1>9, <2>5 DEF ReverifyZONEMD
<1>10. CASE BeginTransfer(p)
  BY <1>2, <1>10 DEF BeginTransfer, States, BusyStates
<1>11. CASE TransferFails(p)
  BY <1>2, <1>3, <1>11 DEF TransferFails, setState, schedule, States, TerminalStates
<1>12. CASE TransferWhole(p)
  <2>1. serial[job[p].zone][job[p].server] \in 0..MaxSerial
    BY <1>1, <1>2, <1>12 DEF TransferWhole, ReadyAt, Serials
  <2>2. [job[p] EXCEPT !.method = "axfr",
                       !.got = serial[job[p].zone][job[p].server]] \in Job
    BY <1>1, <2>1, JobFields
  <2> QED BY <1>2, <1>12, <2>2 DEF TransferWhole
<1>13. CASE TransferIncremental(p)
  <2> DEFINE a == job[p].old
             s == serial[job[p].zone][job[p].server]
  <2>1. s \in 0..MaxSerial /\ a \in 0..MaxSerial
    BY <1>1, <1>2, <1>3, <1>13, TransferIncrementalFrame DEF ReadyAt, Serials
  <2>2. job' \in [Procs -> Job]
    <3>1. CASE job' = [job EXCEPT ![p].method = "ixfr", ![p].got = a]
      <4>1. [job[p] EXCEPT !.method = "ixfr", !.got = a] \in Job
        BY <1>1, <2>1, JobFields
      <4> QED BY <1>2, <3>1, <4>1
    <3>2. ASSUME NEW T \in TouchedSets(a, s), NEW k \in BOOLEAN,
                 job' = [job EXCEPT ![p].method = "ixfr", ![p].got = s,
                                    ![p].touched = T, ![p].dnskey = k]
          PROVE  job' \in [Procs -> Job]
      <4>1. T \in SUBSET Owners
        BY DEF TouchedSets
      <4>2. [job[p] EXCEPT !.method = "ixfr", !.got = s, !.touched = T,
                           !.dnskey = k] \in Job
        BY <1>1, <2>1, <4>1, JobFields
      <4> QED BY <1>2, <3>2, <4>2
    <3> QED BY <1>13, <3>1, <3>2 DEF TransferIncremental
  <2>3. /\ pc' = [pc EXCEPT ![p] = "install"]
        /\ UNCHANGED <<verdictVars, Store, Findings, gateVars, timerVars,
                       chainVars, zonemdVars, SkewSince, sem, boot, outVars,
                       envVars>>
    BY <1>13, TransferIncrementalFrame
  <2> QED BY <1>2, <2>2, <2>3
<1>14. CASE Install(p)
  BY <1>1, <1>2, <1>3, <1>14 DEF Install, States, BusyStates
<1>15. CASE ApplyFails(p)
  <2>1. NewFinding("IXFR_APPLY_FAILED", Apex) \in Finding
    BY FindingsAssumption DEF NewFinding, Finding, Codes, ErrorCodes
  <2>2. Findings' \in [Zones -> SUBSET Finding]
    BY <1>1, <1>2, <1>5, <1>15, <2>1 DEF ApplyFails
  <2>3. Store' \in [Zones -> [serial : 0..MaxSerial, torn : BOOLEAN]]
    BY <1>1, <1>2, <1>3, <1>15 DEF ApplyFails
  <2> QED BY <1>2, <1>3, <1>15, <2>2, <2>3
          DEF ApplyFails, setState, States, TerminalStates
<1>16. CASE VerifyFull(p)
  <2>1. PICK c \in Contents(Store[job[p].zone]) :
          job' = [job EXCEPT ![p].res = Full(c, now)]
    BY <1>16 DEF VerifyFull
  <2>2. Full(c, now) \in Result
    BY <1>2, <1>4, <1>5, <1>16, FullType DEF VerifyFull, ReadyAt
  <2>3. [job[p] EXCEPT !.res = Full(c, now)] \in Job
    BY <1>1, <2>2, JobFields
  <2>4. job' \in [Procs -> Job]
    BY <1>2, <2>1, <2>3
  <2> QED BY <1>2, <1>16, <2>4 DEF VerifyFull
<1>17. CASE VerifyIncremental(p)
  <2> DEFINE R(c) == Incremental(c, now, Findings[job[p].zone], job[p].touched)
  <2>1. PICK c \in Contents(Store[job[p].zone]) :
          job' = [job EXCEPT ![p].res = R(c)]
    BY <1>17 DEF VerifyIncremental
  <2>2. job[p].touched \in SUBSET Owners
    BY <1>1 DEF Job
  <2>3. R(c) \in Result
    BY <1>2, <1>4, <1>5, <1>17, <2>2, IncrementalType DEF VerifyIncremental, ReadyAt
  <2>4. [job[p] EXCEPT !.res = R(c)] \in Job
    BY <1>1, <2>3, JobFields
  <2>5. job' \in [Procs -> Job]
    BY <1>2, <2>1, <2>4
  <2> QED BY <1>2, <1>17, <2>5 DEF VerifyIncremental
<1>18. CASE Merge(p)
  <2>1. job[p].res.found \in SUBSET Finding
    BY <1>1 DEF Job, Result
  <2> QED BY <1>2, <1>18, <2>1 DEF Merge
<1>19. CASE Commit(p)
  <2> DEFINE z == job[p].zone
             r == job[p].res
  <2>1. /\ r.found \in SUBSET Finding /\ r.zonemd \in {"unchecked", "ok", "bad"}
        /\ Verdict(r) \in TerminalStates
    BY <1>1 DEF Job, Result, Verdict, TerminalStates
  <2>2. Findings' \in [Zones -> SUBSET Finding]
    BY <1>1, <1>2, <1>5, <1>19, <2>1 DEF Commit
  <2>3. /\ ZONEMDCheckedAt' \in [Zones -> {"zero", "recent", "aged"}]
        /\ ZONEMDOK' \in [Zones -> {"nil", "ok", "bad"}]
        /\ ZONEMDStale' \in [Zones -> BOOLEAN]
    <3>1. applyZONEMDResult(z, Store[z].serial, r)
      BY <1>19 DEF Commit
    <3>0. /\ ZONEMDCheckedAt \in [Zones -> {"zero", "recent", "aged"}]
          /\ ZONEMDOK \in [Zones -> {"nil", "ok", "bad"}]
          /\ ZONEMDStale \in [Zones -> BOOLEAN]
      BY <1>2
    <3> HIDE DEF TypeOK
    <3>2. CASE r.zonemd # "unchecked"
      <4>1. /\ ZONEMDOK' = [ZONEMDOK EXCEPT ![z] = r.zonemd]
            /\ ZONEMDCheckedAt' = [ZONEMDCheckedAt EXCEPT ![z] = "recent"]
            /\ ZONEMDStale' = [ZONEMDStale EXCEPT ![z] = FALSE]
        BY <3>1, <3>2 DEF applyZONEMDResult
      <4> QED BY <2>1, <3>0, <3>2, <4>1
    <3>3. CASE r.zonemd = "unchecked"
      <4>1. PICK b \in BOOLEAN : ZONEMDStale' = [ZONEMDStale EXCEPT ![z] = b]
        BY <3>1, <3>3, Zenon DEF applyZONEMDResult
      <4>2. UNCHANGED <<ZONEMDOK, ZONEMDCheckedAt>>
        BY <3>1, <3>3 DEF applyZONEMDResult
      <4> QED BY <3>0, <4>1, <4>2
    <3> QED BY <3>2, <3>3
  <2>4. /\ State' \in [Zones -> States]
        /\ History' \in [Zones -> [state : TerminalStates \cup {"unknown"},
                                   serial : 0..MaxSerial]]
    BY <1>1, <1>2, <1>19, <2>1 DEF Commit, setState, States
  <2> QED BY <1>2, <1>19, <2>2, <2>3, <2>4 DEF Commit, schedule
<1>20. CASE Publish(p)
  BY <1>2, <1>1, <1>20 DEF Publish, updateZoneMetrics
<1> QED BY <1>6, <1>7, <1>8, <1>9, <1>10, <1>11, <1>12, <1>13, <1>14, <1>15,
           <1>16, <1>17, <1>18, <1>19, <1>20 DEF Works

\* A goroutine that is not running has a well-formed job.
LEMMA IdleType == Idle \in Job
BY RefreshAssumption DEF Idle, Job, NoResult, Result

\* Starting a goroutine keeps the types of pc and job.
LEMMA SpawnType ==
  ASSUME TypeOK, NEW z \in Zones, NEW full \in BOOLEAN, Spawn(z, full)
  PROVE  pc' \in [Procs -> Steps] /\ job' \in [Procs -> Job]
<1>1. PICK p \in Procs : /\ GoTo(p, "start")
                         /\ job' = [job EXCEPT ![p] =
                                     [Idle EXCEPT !.zone = z, !.full = full]]
  BY DEF Spawn
<1>2. [Idle EXCEPT !.zone = z, !.full = full] \in Job
  BY IdleType, JobFields
<1> QED BY <1>1, <1>2 DEF TypeOK, GoTo, Steps

\* Every step keeps every variable's type.
LEMMA TypeStep ==
  ASSUME IndInv, [Next]_vars
  PROVE  TypeOK'
<1> TypeOK
  BY DEF IndInv
<1>1. ASSUME NEW p \in Procs, TryLockRefresh(p)
      PROVE  TypeOK'
  <2>1. job[p].full \in BOOLEAN
    BY DEF TypeOK, Job
  <2>0. UNCHANGED <<verdictVars, Store, Findings, timerVars, chainVars,
                    zonemdVars, SkewSince, sem, boot, outVars, envVars>>
    BY <1>1 DEF TryLockRefresh
  <2>2. CASE CanLock(job[p].zone)
    <3>1. /\ Refreshing' = [Refreshing EXCEPT ![job[p].zone] = TRUE]
          /\ RefreshFull' = [RefreshFull EXCEPT ![job[p].zone] = job[p].full]
          /\ pc' = [pc EXCEPT ![p] = "slot"] /\ UNCHANGED job
      BY <1>1, <2>2 DEF TryLockRefresh, GoTo
    <3> QED BY <2>0, <2>1, <3>1 DEF TypeOK, Steps, LockSteps
  <2>3. CASE ~CanLock(job[p].zone)
    <3>1. /\ UNCHANGED gateVars
          /\ pc' = [pc EXCEPT ![p] = "idle"] /\ job' = [job EXCEPT ![p] = Idle]
      BY <1>1, <2>3 DEF TryLockRefresh, GoTo
    <3> QED BY <2>0, <3>1, IdleType DEF TypeOK, Steps
  <2> QED BY <2>2, <2>3
<1>2. ASSUME NEW p \in Procs, AcquireSlot(p)
      PROVE  TypeOK'
  <2>1. job[p] \in Job /\ job[p].zone \in Zones
    BY <1>2, JobWorks DEF AcquireSlot, IndInv
  <2>2. Store[job[p].zone].serial \in 0..MaxSerial
    BY <2>1 DEF TypeOK
  <2>3. [job[p] EXCEPT !.old = Store[job[p].zone].serial] \in Job
    BY <2>1, <2>2, JobFields
  <2> QED BY <1>2, <2>3
          DEF AcquireSlot, TypeOK, GoTo, Steps, LockSteps, SlotSteps
<1>3. ASSUME NEW p \in Procs, ReleaseSlot(p)
      PROVE  TypeOK'
  <2>1. SlotHolders # {}
    BY <1>3 DEF ReleaseSlot, SlotHolders, SlotSteps
  <2>2. sem - 1 \in Nat
    BY <2>1, SlotHoldersFinite DEF IndInv, SlotsCounted
  <2> QED BY <1>3, <2>2 DEF ReleaseSlot, giveSlot, TypeOK, GoTo, Steps, LockSteps
<1>4. ASSUME NEW p \in Procs, UnlockRefresh(p)
      PROVE  TypeOK'
  BY <1>4, IdleType DEF UnlockRefresh, unlock, TypeOK, GoTo, Steps
<1>5. ASSUME NEW z \in Zones, Boot(z)
      PROVE  TypeOK'
  BY <1>5, SpawnType DEF Boot, TypeOK
<1>6. ASSUME NEW z \in Zones, NEW full \in BOOLEAN, RequestRefresh(z, full)
      PROVE  TypeOK'
  BY <1>6, SpawnType, RefreshAssumption DEF RequestRefresh, TypeOK
<1>7. ASSUME NEW z \in Zones, Tick(z)
      PROVE  TypeOK'
  <2>1. pc' \in [Procs -> Steps] /\ job' \in [Procs -> Job]
    <3>1. CASE Spawn(z, FALSE)
      BY <3>1, SpawnType
    <3>2. CASE UNCHANGED <<pc, job>>
      BY <3>2 DEF TypeOK
    <3> QED BY <1>7, <3>1, <3>2 DEF Tick
  <2>2. lastTerminalState(z) \in States
    BY DEF lastTerminalState, States, TypeOK
  <2>3. /\ State' \in [Zones -> States]
        /\ History' \in [Zones -> [state : TerminalStates \cup {"unknown"},
                                   serial : 0..MaxSerial]]
    <3>1. TickState(z)
      BY <1>7 DEF Tick
    <3>2. CASE State' = [State EXCEPT ![z] = "stale"]
               /\ History' = [History EXCEPT ![z] = [state |-> "stale", serial |-> 0]]
      BY <3>2, RefreshAssumption DEF TypeOK, States, TerminalStates
    <3>3. ASSUME NEW s \in States,
                 State' = [State EXCEPT ![z] = s] /\ UNCHANGED History
          PROVE  /\ State' \in [Zones -> States]
                 /\ History' \in [Zones -> [state : TerminalStates \cup {"unknown"},
                                            serial : 0..MaxSerial]]
      BY <3>3 DEF TypeOK
    <3> QED BY <3>1, <3>2, <3>3, <2>2 DEF TickState, setState, TypeOK
  <2> QED BY <1>7, <2>1, <2>3 DEF Tick, TypeOK
<1>8. ASSUME NEW z \in Zones, Sweep(z)
      PROVE  TypeOK'
  <2>1. SweepExpiry(Content[Store[z].serial], now) \in SUBSET Finding
    BY DEF SweepExpiry, ExpiringBefore, NewFinding, Finding, Codes, ErrorCodes
  <2>2. Findings' \in [Zones -> SUBSET Finding]
    BY <1>8, <2>1 DEF Sweep, TypeOK
  <2>3. CASE /\ setState(z, "invalid", Store[z].serial)
             /\ announced' = [announced EXCEPT ![z] = "invalid"]
    BY <1>8, <2>2, <2>3 DEF Sweep, setState, TypeOK, States, TerminalStates
  <2>4. CASE UNCHANGED <<verdictVars, announced>>
    BY <1>8, <2>2, <2>4 DEF Sweep, TypeOK
  <2> QED BY <1>8, <2>3, <2>4 DEF Sweep
<1>9. ASSUME NEW z \in Zones, ChainLookup(z)
      PROVE  TypeOK'
  BY <1>9 DEF ChainLookup, TypeOK
<1>10. ASSUME NEW z \in Zones, ChainAnswer(z)
       PROVE  TypeOK'
  <2>1. /\ NewFinding("INSECURE_DELEGATION", Apex) \in Finding
        /\ NewFinding("DS_MISMATCH", Apex) \in Finding
    BY FindingsAssumption DEF NewFinding, Finding, Codes
  <2>2. ASSUME NEW F \in SUBSET Finding, NEW ok \in {"ok", "bad"},
               NEW inv \in BOOLEAN, ApplyFindings(z, F, ok, inv)
        PROVE  /\ State' \in [Zones -> States]
               /\ History' \in [Zones -> [state : TerminalStates \cup {"unknown"},
                                          serial : 0..MaxSerial]]
               /\ Findings' \in [Zones -> SUBSET Finding]
               /\ ChainOK' \in [Zones -> {"nil", "ok", "bad"}]
    <3>1. /\ Findings' \in [Zones -> SUBSET Finding]
          /\ ChainOK' \in [Zones -> {"nil", "ok", "bad"}]
      BY <2>2 DEF ApplyFindings, TypeOK
    <3>2. CASE setState(z, "invalid", Store[z].serial)
      BY <3>1, <3>2 DEF setState, TypeOK, States, TerminalStates
    <3>3. CASE UNCHANGED verdictVars
      BY <3>1, <3>3 DEF TypeOK
    <3> QED BY <2>2, <3>2, <3>3 DEF ApplyFindings
  <2>3. /\ State' \in [Zones -> States]
        /\ History' \in [Zones -> [state : TerminalStates \cup {"unknown"},
                                   serial : 0..MaxSerial]]
        /\ Findings' \in [Zones -> SUBSET Finding]
        /\ ChainOK' \in [Zones -> {"nil", "ok", "bad"}]
    <3>1. CASE UNCHANGED <<verdictVars, Findings, ChainOK>>
      BY <3>1 DEF TypeOK
    <3>2. CASE \/ ApplyFindings(z, {NewFinding("INSECURE_DELEGATION", Apex)},
                                "ok", FALSE)
               \/ ApplyFindings(z, {}, "ok", FALSE)
               \/ ApplyFindings(z, {NewFinding("DS_MISMATCH", Apex)}, "bad",
                                RequireMatch)
      BY <2>1, <2>2, <3>2, FindingsAssumption
    <3> QED BY <1>10, <3>1, <3>2 DEF ChainAnswer
  <2> QED BY <1>10, <2>3 DEF ChainAnswer, TypeOK
<1>11. ASSUME NEW z \in Zones, NEW s \in Servers, NewVersion(z, s) \/ ServerUpDown(z, s)
       PROVE  TypeOK'
  <2>1. serial[z][s] \in Serials /\ up[z][s] \in BOOLEAN
    BY DEF TypeOK
  <2>2. CASE NewVersion(z, s)
    <3>1. serial' \in [Zones -> [Servers -> Serials]]
      BY <2>1, <2>2, RefreshAssumption DEF NewVersion, TypeOK, Serials
    <3> QED BY <2>2, <3>1 DEF NewVersion, TypeOK
  <2>3. CASE ServerUpDown(z, s)
    <3>1. up' \in [Zones -> [Servers -> BOOLEAN]]
      BY <2>1, <2>3 DEF ServerUpDown, TypeOK
    <3> QED BY <2>3, <3>1 DEF ServerUpDown, TypeOK
  <2> QED BY <1>11, <2>2, <2>3
<1>12. ASSUME NEW z \in Zones,
              \/ RefreshComesDue(z) \/ ExpirePasses(z) \/ ZONEMDAges(z)
              \/ SkewAges(z)
       PROVE  TypeOK'
  <2>1. CASE RefreshComesDue(z)  BY <2>1 DEF RefreshComesDue, TypeOK
  <2>2. CASE ExpirePasses(z)     BY <2>2 DEF ExpirePasses, TypeOK
  <2>3. CASE ZONEMDAges(z)       BY <2>3 DEF ZONEMDAges, TypeOK
  <2>4. CASE SkewAges(z)         BY <2>4 DEF SkewAges, TypeOK
  <2> QED BY <1>12, <2>1, <2>2, <2>3, <2>4
<1>13. CASE ClockTicks
  BY <1>13, RefreshAssumption DEF ClockTicks, TypeOK
<1>14. CASE UNCHANGED vars
  BY <1>14 DEF TypeOK
<1> QED BY <1>1, <1>2, <1>3, <1>4, <1>5, <1>6, <1>7, <1>8, <1>9, <1>10, <1>11,
           <1>12, <1>13, <1>14, TypeWorks
        DEF Next, Refresh, Works, Environment
-----------------------------------------------------------------------------
(* The invariant holds, and with it the parts the code's correctness rests on *)

\* The invariant holds when the process starts.
LEMMA IndInvInit ==
  ASSUME Init
  PROVE  IndInv
<1>1. /\ IsFiniteSet({}) /\ Cardinality({}) = 0
  BY FS_EmptySet
<1>2. SlotHolders = {}
  BY DEF Init, SlotHolders, SlotSteps
<1>3. \A z \in Zones : Restored(z) \in SUBSET Finding
  <2>1. ASSUME NEW z \in Zones PROVE Restored(z) \in SUBSET Finding
    <3>1. FirstSerial(z) \in Serials
      BY RefreshAssumption DEF Init, Attached, NoStore, FirstSerial, Serials
    <3>2. Full(Content[FirstSerial(z)], 0) \in Result
      BY <3>1, FullType, RefreshAssumption
    <3> QED BY <3>2 DEF Restored, Result
  <2> QED BY <2>1
<1>4. Store \in [Zones -> [serial : 0..MaxSerial, torn : BOOLEAN]]
  <2> DEFINE S == {[serial |-> s, torn |-> FALSE] : s \in Serials}
  <2>1. \A s \in 0..MaxSerial :
          [serial |-> s, torn |-> FALSE] \in [serial : 0..MaxSerial, torn : BOOLEAN]
    OBVIOUS
  <2>3. 0 \in 0..MaxSerial /\ Serials \subseteq 0..MaxSerial
    BY RefreshAssumption DEF Serials
  <2>2. Store \in [Zones -> {NoStore} \cup S]
    BY DEF Init, Attached
  <2>4. {NoStore} \cup S \subseteq [serial : 0..MaxSerial, torn : BOOLEAN]
    BY <2>1, <2>3, Zenon DEF NoStore
  <2> HIDE DEF S
  <2> QED BY <2>2, <2>4
<1>5. Findings \in [Zones -> SUBSET Finding]
  BY <1>3 DEF Init, Attached
<1>6. serial \in [Zones -> [Servers -> Serials]]
  BY RefreshAssumption DEF Init, Attached, NoStore, FirstSerial, Serials
<1>7. TypeOK
  BY <1>4, <1>5, <1>6, IdleType, RefreshAssumption
  DEF Init, TypeOK, NoEntry, States, Steps
<1>8. IdleIffNone /\ GateHeldByOne /\ \A p \in Procs : ReadyAt(p)
  BY DEF Init, IdleIffNone, GateHeldByOne, Holds, LockSteps, SlotSteps, ReadyAt, Idle
<1> QED BY <1>1, <1>2, <1>7, <1>8 DEF IndInv, SlotsCounted, Init

\* Every step keeps the invariant.
LEMMA IndInvStep ==
  ASSUME IndInv, [Next]_vars
  PROVE  IndInv'
<1>1. Kind
  BY StepKind DEF IndInv
<1> QED BY <1>1, TypeStep, IdleStep, ReadyStep, GateStep, SlotsStep DEF IndInv

\* IndInv is an invariant of the refresh life cycle.
THEOREM Invariance == Spec => []IndInv
BY IndInvInit, IndInvStep, PTL DEF Spec

\* Every variable keeps its type, whatever the configuration; in particular the
\* semaphore is never received from when it is empty.
THEOREM TypeCorrect == Spec => []TypeOK
BY Invariance, PTL DEF IndInv

\* TryLockRefresh and UnlockRefresh: a zone is never refreshed by two
\* goroutines, and Refreshing is set exactly while one is.
THEOREM MutualExclusion == Spec => []GateHeldByOne
BY Invariance, PTL DEF IndInv

\* No return path of Refresh leaks a slot of the semaphore.
THEOREM SlotAccounting == Spec => []SlotsCounted
BY Invariance, PTL DEF IndInv

\* What Refresh read of the store before its network exchanges still holds when
\* it uses it.
THEOREM StableStore == Spec => []StoreStable
<1>1. IndInv => StoreStable
  BY DEF IndInv, ReadyAt, StoreStable
<1> QED BY <1>1, Invariance, PTL
-----------------------------------------------------------------------------
(* Lock and semaphore implement RefreshGate, step by step *)

\* The phase a goroutine at this step gives its zone.
PhaseAt(step) ==
  IF step \in SlotSteps THEN "running"
  ELSE IF step = "slot" THEN "waiting"
  ELSE IF step = "unlock" THEN "leaving" ELSE "idle"

\* A zone's phase is given by the goroutine that holds it.
LEMMA PhaseHeld ==
  ASSUME NEW z \in Zones, NEW p \in Procs, Holds(p, z),
         \A q \in Procs : Holds(q, z) => q = p
  PROVE  gatePhase[z] = PhaseAt(pc[p])
<1>1. \A S \in SUBSET LockSteps : In(z, S) <=> pc[p] \in S
  BY DEF In, Holds
<1>2. /\ In(z, SlotSteps) <=> pc[p] \in SlotSteps
      /\ In(z, {"slot"}) <=> pc[p] = "slot"
      /\ In(z, {"unlock"}) <=> pc[p] = "unlock"
  BY <1>1 DEF LockSteps
<1> QED BY <1>2 DEF gatePhase, PhaseAt

\* A zone nobody holds is idle.
LEMMA PhaseFree ==
  ASSUME NEW z \in Zones, \A q \in Procs : ~Holds(q, z)
  PROVE  gatePhase[z] = "idle"
<1>1. /\ ~In(z, SlotSteps) /\ ~In(z, {"slot"}) /\ ~In(z, {"unlock"})
  BY DEF In, Holds, LockSteps
<1> QED BY <1>1 DEF gatePhase

\* A goroutine that does not hold a zone, before or after its step, leaves the
\* zone's phase alone.
LEMMA PhaseFrame ==
  ASSUME NEW p \in Procs, Others(p), NEW z \in Zones, ~Holds(p, z), ~Holds(p, z)'
  PROVE  gatePhase'[z] = gatePhase[z]
<1>1. /\ In(z, SlotSteps)' <=> In(z, SlotSteps)
      /\ In(z, {"slot"})' <=> In(z, {"slot"})
      /\ In(z, {"unlock"})' <=> In(z, {"unlock"})
  BY DEF In, Others, Holds, LockSteps
<1> HIDE DEF In
<1> QED BY <1>1 DEF gatePhase

\* Zones that are running have goroutines with a slot, each its own.
LEMMA RunningCounted ==
  ASSUME TypeOK, SlotsCounted
  PROVE  Cardinality(Gate!Running) \in Nat /\ Cardinality(Gate!Running) <= sem
<1> DEFINE Ran == {p \in SlotHolders : job[p].zone \in Zones}
           f == [p \in Ran |-> job[p].zone]
<1>1. Gate!Running = {z \in Zones : In(z, SlotSteps)}
  BY DEF Gate!Running, gatePhase
<1>2. f \in Surjection(Ran, Gate!Running)
  BY <1>1 DEF Surjection, SlotHolders, In
<1>3. IsFiniteSet(Ran) /\ Cardinality(Ran) <= Cardinality(SlotHolders)
  <2>1. Ran \in SUBSET SlotHolders
    OBVIOUS
  <2> QED BY <2>1, SlotHoldersFinite, FS_Subset
<1>4. Cardinality(Gate!Running) <= Cardinality(Ran) /\ IsFiniteSet(Gate!Running)
  <2> HIDE DEF f, Ran
  <2> QED BY <1>2, <1>3, FS_Surjection
<1>5. /\ Cardinality(Gate!Running) \in Nat /\ Cardinality(Ran) \in Nat
      /\ Cardinality(SlotHolders) \in Nat
  BY <1>3, <1>4, SlotHoldersFinite, FS_CardinalityType
<1> HIDE DEF Ran
<1> QED BY <1>3, <1>4, <1>5 DEF SlotsCounted

\* A step that moves one zone from the phase of its goroutine to the next.
LEMMA PhaseMoves ==
  ASSUME IndInv, IndInv', NEW p \in Procs, Others(p), NEW z \in Zones,
         job[p].zone = z, job'[p].zone \in {z, "none"},
         pc[p] \in LockSteps \/ \A q \in Procs : ~Holds(q, z),
         pc'[p] \in LockSteps \/ pc'[p] = "idle",
         pc'[p] \in LockSteps => job'[p].zone = z
  PROVE  /\ gatePhase[z] = PhaseAt(pc[p])
         /\ gatePhase' = [gatePhase EXCEPT ![z] = PhaseAt(pc'[p])]
<1>0. "none" \notin Zones
  BY RefreshAssumption
<1>1. gatePhase[z] = PhaseAt(pc[p])
  <2>1. CASE pc[p] \in LockSteps
    <3>1. Holds(p, z) /\ \A q \in Procs : Holds(q, z) => q = p
      BY <2>1 DEF IndInv, GateHeldByOne, Holds
    <3> QED BY <3>1, PhaseHeld
  <2>2. CASE pc[p] \notin LockSteps
    BY <2>2, PhaseFree DEF PhaseAt, LockSteps
  <2> QED BY <2>1, <2>2
<1>2. gatePhase'[z] = PhaseAt(pc'[p])
  <2>1. \A q \in Procs : Holds(q, z)' => q = p
    <3>1. ASSUME NEW q \in Procs, q # p PROVE ~Holds(q, z)'
      <4>1. ~Holds(q, z)
        BY <3>1 DEF IndInv, GateHeldByOne, Holds
      <4> QED BY <3>1, <4>1 DEF Holds, Others
    <3> QED BY <3>1
  <2>2. CASE pc'[p] \in LockSteps
    <3>1. /\ In(z, SlotSteps)' <=> pc'[p] \in SlotSteps
          /\ In(z, {"slot"})' <=> pc'[p] = "slot"
          /\ In(z, {"unlock"})' <=> pc'[p] = "unlock"
      BY <2>1, <2>2 DEF In, Holds, LockSteps
    <3> HIDE DEF In
    <3> QED BY <3>1 DEF gatePhase, PhaseAt
  <2>3. CASE pc'[p] = "idle"
    <3>1. \A q \in Procs : ~Holds(q, z)'
      BY <2>1, <2>3 DEF Holds, LockSteps, SlotSteps
    <3>2. /\ ~In(z, SlotSteps)' /\ ~In(z, {"slot"})' /\ ~In(z, {"unlock"})'
      BY <3>1 DEF In, Holds, LockSteps
    <3>3. gatePhase'[z] = "idle"
      BY <3>2 DEF gatePhase
    <3> QED BY <2>3, <3>3 DEF PhaseAt, SlotSteps
  <2> QED BY <2>2, <2>3
<1>3. ASSUME NEW y \in Zones, y # z
      PROVE  gatePhase'[y] = gatePhase[y]
  <2>1. ~Holds(p, y) /\ ~Holds(p, y)'
    BY <1>0, <1>3 DEF Holds
  <2> QED BY <2>1, PhaseFrame
<1>4. /\ gatePhase = [y \in Zones |-> gatePhase[y]]
      /\ gatePhase' = [y \in Zones |-> gatePhase'[y]]
  BY DEF gatePhase
<1> HIDE DEF gatePhase
<1> QED BY <1>1, <1>2, <1>3, <1>4

\* Every step is a step of RefreshGate on some zone, or leaves the phases alone.
LEMMA GateSimulates ==
  ASSUME IndInv, IndInv', [Next]_vars
  PROVE  [Gate!Next]_gatePhase
<1>1. Kind
  BY StepKind DEF IndInv
<1>2. CASE Outside
  <2>1. \A z \in Zones : \A S : In(z, S)' <=> In(z, S)
    BY <1>2 DEF Outside, In
  <2> HIDE DEF In
  <2> QED BY <2>1 DEF gatePhase
<1>3. ASSUME NEW p \in Procs, Starting(p) \/ GivingUp(p)
      PROVE  UNCHANGED gatePhase
  <2>1. Others(p) /\ \A z \in Zones : ~Holds(p, z) /\ ~Holds(p, z)'
    BY <1>3 DEF Starting, GivingUp, Holds, LockSteps, SlotSteps
  <2>2. \A z \in Zones : gatePhase'[z] = gatePhase[z]
    BY <2>1, PhaseFrame
  <2>3. /\ gatePhase = [z \in Zones |-> gatePhase[z]]
        /\ gatePhase' = [z \in Zones |-> gatePhase'[z]]
    BY DEF gatePhase
  <2> HIDE DEF gatePhase
  <2> QED BY <2>2, <2>3
<1>4. ASSUME NEW p \in Procs,
             Locking(p) \/ Entering(p) \/ Working(p) \/ Leaving(p) \/ Unlocking(p)
      PROVE  [Gate!Next]_gatePhase
  <2> DEFINE z == job[p].zone
  <2>1. z \in Zones
    BY <1>4, JobWorks
    DEF IndInv, Locking, Entering, Working, Leaving, Unlocking, SlotSteps
  <2>2. /\ Others(p) /\ job'[p].zone \in {z, "none"}
        /\ pc[p] \in LockSteps \/ \A q \in Procs : ~Holds(q, z)
        /\ pc'[p] \in LockSteps \/ pc'[p] = "idle"
        /\ pc'[p] \in LockSteps => job'[p].zone = z
    BY <1>4, <2>1 DEF Locking, Entering, Working, Leaving, Unlocking, LockSteps,
                      SlotSteps, IndInv, GateHeldByOne
  <2>3. /\ gatePhase[z] = PhaseAt(pc[p])
        /\ gatePhase' = [gatePhase EXCEPT ![z] = PhaseAt(pc'[p])]
    BY <2>1, <2>2, PhaseMoves
  <2> HIDE DEF gatePhase
  <2>4. CASE Locking(p)
    <3>1. Gate!Begin(z)
      BY <2>3, <2>4 DEF Locking, PhaseAt, SlotSteps, Gate!Begin, Gate!Move
    <3> QED BY <2>1, <3>1 DEF Gate!Next
  <2>5. CASE Entering(p)
    <3>1. Cardinality(Gate!Running) < ConcurrentTransfers
      <4>1. /\ Cardinality(Gate!Running) <= sem /\ sem < ConcurrentTransfers
            /\ sem \in Nat /\ ConcurrentTransfers \in Nat
            /\ Cardinality(Gate!Running) \in Nat
        BY <2>5, RunningCounted, RefreshAssumption DEF IndInv, Entering, TypeOK
      <4> QED BY <4>1
    <3>2. Gate!Cardinality(Gate!Running) = Cardinality(Gate!Running)
      BY Zenon DEF Gate!Cardinality, Cardinality
    <3>3. Gate!Admit(z)
      BY <2>3, <2>5, <3>1, <3>2
      DEF Entering, PhaseAt, SlotSteps, Gate!Admit, Gate!Move
    <3> QED BY <2>1, <3>3 DEF Gate!Next
  <2>6. CASE Working(p)
    <3>1. gatePhase' = gatePhase
      <4>1. gatePhase = [y \in Zones |-> gatePhase[y]]
        BY DEF gatePhase
      <4> QED BY <2>3, <2>6, <4>1 DEF Working, PhaseAt
    <3> QED BY <3>1
  <2>7. CASE Leaving(p)
    <3>1. Gate!Finish(z)
      BY <2>3, <2>7 DEF Leaving, PhaseAt, SlotSteps, Gate!Finish, Gate!Move
    <3> QED BY <2>1, <3>1 DEF Gate!Next
  <2>8. CASE Unlocking(p)
    <3>1. Gate!Leave(z)
      BY <2>3, <2>8 DEF Unlocking, PhaseAt, SlotSteps, Gate!Leave, Gate!Move
    <3> QED BY <2>1, <3>1 DEF Gate!Next
  <2> QED BY <1>4, <2>4, <2>5, <2>6, <2>7, <2>8
<1> QED BY <1>1, <1>2, <1>3, <1>4 DEF Kind

\* The lock and the semaphore of Refresh, with their deferred releases, admit
\* zones only the way RefreshGate does: one activity per zone, and never more
\* than ConcurrentTransfers of them running.
THEOREM GateRefinement == Spec => Gate!Spec
<1>1. Init => Gate!Init
  <2> SUFFICES ASSUME Init
               PROVE  \A z \in Zones : gatePhase[z] = "idle"
    BY DEF Gate!Init, gatePhase
  <2>1. \A q \in Procs, z \in Zones : ~Holds(q, z)
    BY DEF Init, Holds, LockSteps, SlotSteps
  <2> QED BY <2>1, PhaseFree
<1>2. IndInv /\ IndInv' /\ [Next]_vars => [Gate!Next]_gatePhase
  BY GateSimulates
<1> QED BY <1>1, <1>2, Invariance, PTL DEF Spec, Gate!Spec

-----------------------------------------------------------------------------
(***************************************************************************)
(* What a zone shows is true: the state, the history, the deadlines and the *)
(* findings, on top of IndInv.                                              *)
(***************************************************************************)

(* Who is where *)

\* A goroutine that stays out of the steps S does not change whether one of a
\* zone's goroutines is at them.
LEMMA InFrame ==
  ASSUME NEW p \in Procs, Others(p), NEW S, pc[p] \notin S, pc'[p] \notin S,
         NEW z
  PROVE  In(z, S)' <=> In(z, S)
BY DEF Others, In

\* The goroutine at work on a zone is the only one that holds it.
LEMMA InHolder ==
  ASSUME IndInv, IndInv', NEW p \in Procs, Works(p), NEW z \in Zones,
         z = job[p].zone, NEW S \in SUBSET LockSteps
  PROVE  (In(z, S) <=> pc[p] \in S) /\ (In(z, S)' <=> pc'[p] \in S)
<1>1. /\ pc[p] \in LockSteps /\ pc'[p] \in LockSteps /\ job'[p].zone = z
      /\ Others(p)
  BY WorksKind DEF IndInv, Working, LockSteps
<1>2. \A q \in Procs : job[q].zone = z /\ pc[q] \in LockSteps => q = p
  BY <1>1 DEF IndInv, GateHeldByOne, Holds
<1>3. \A q \in Procs : job'[q].zone = z /\ pc'[q] \in LockSteps => q = p
  BY <1>1, <1>2 DEF Others
<1> QED BY <1>1, <1>2, <1>3 DEF In

\* The goroutines of other zones stay where they are.
LEMMA InOther ==
  ASSUME IndInv, NEW p \in Procs, Works(p), NEW z \in Zones,
         z # job[p].zone, NEW S
  PROVE  In(z, S)' <=> In(z, S)
<1>1. job'[p].zone = job[p].zone /\ Others(p)
  BY WorksKind DEF IndInv, Working
<1> QED BY <1>1 DEF In, Others
-----------------------------------------------------------------------------
(* What a step does to the verdict and the deadlines of a zone *)

Kept(z) == State'[z] = State[z] /\ History'[z] = History[z]

Rests(z) == Store'[z] = Store[z] /\ ExpireAt'[z] = ExpireAt[z]

Unscheduled(z) == NextRefresh'[z] = NextRefresh[z]
Scheduled(z)   == NextRefresh'[z] = "future"

From(p, from, to) == pc[p] = from /\ pc'[p] = to

\* A step of Refresh, on the zone it works on.
OwnStep(p, z) ==
  \/ /\ \/ From(p, "probe", "decide") \/ From(p, "decide", "commit")
        \/ From(p, "transfer", "install") \/ From(p, "verify", "commit")
        \/ From(p, "verify", "merge") \/ From(p, "merge", "commit")
        \/ From(p, "publish", "release")
     /\ Kept(z) /\ Rests(z) /\ Unscheduled(z)
  \/ /\ From(p, "decide", "release") \/ From(p, "transfer", "release")
     /\ State'[z] = "transfer_failed" /\ History'[z].state = "transfer_failed"
     /\ Rests(z) /\ Scheduled(z)
  \/ /\ From(p, "decide", "release")
     /\ State'[z] = lastTerminalState(z) /\ History'[z] = History[z]
     /\ Rests(z) /\ Scheduled(z)
  \/ /\ From(p, "decide", "transfer")
     /\ State'[z] = "transferring" /\ History'[z] = History[z]
     /\ Rests(z) /\ Unscheduled(z)
  \/ /\ From(p, "install", "verify")
     /\ State'[z] = "verifying" /\ History'[z] = History[z]
     /\ ExpireAt'[z] = "future" /\ Unscheduled(z)
  \/ /\ From(p, "install", "release")
     /\ ApplyMayFail /\ job[p].method = "ixfr"
     /\ State'[z] = "invalid" /\ History'[z].state = "invalid"
     /\ ExpireAt'[z] = ExpireAt[z] /\ Unscheduled(z)
  \/ /\ From(p, "commit", "publish")
     /\ State'[z] = Verdict(job[p].res)
     /\ History'[z] = [state |-> State'[z], serial |-> Store[z].serial]
     /\ Rests(z) /\ Scheduled(z)

\* Any other step, on any zone: the tick, the sweep, the chain checker, time.
OtherStep(z) ==
  /\ Store'[z] = Store[z]
  /\ \/ Kept(z)
     \/ /\ ExpireAt[z] = "past"
        /\ State'[z] = "stale" /\ History'[z].state = "stale"
     \/ /\ ~Refreshing[z] /\ State[z] \in BusyStates
        /\ History'[z] = History[z]
     \/ /\ State[z] = "valid"
        /\ State'[z] = "invalid" /\ History'[z].state = "invalid"
  /\ ExpireAt'[z] = ExpireAt[z] \/ ExpireAt'[z] = "past"
  /\ NextRefresh'[z] = "zero" <=> NextRefresh[z] = "zero"

\* Every step of Refresh is one of those OwnStep lists.
LEMMA WorksOwn ==
  ASSUME IndInv, NEW p \in Procs, Works(p), NEW z \in Zones, z = job[p].zone
  PROVE  OwnStep(p, z)
<1>1. TypeOK
  BY DEF IndInv
<1> USE <1>1 DEF TypeOK, OwnStep, From, Kept, Rests, Scheduled, Unscheduled, GoTo
<1>2. CASE Probe(p)                BY <1>2 DEF Probe
<1>3. CASE NoServer(p)             BY <1>3 DEF NoServer, setState, schedule
<1>4. CASE Unchanged(p)            BY <1>4 DEF Unchanged, schedule
<1>5. CASE ReverifyZONEMD(p)       BY <1>5 DEF ReverifyZONEMD
<1>6. CASE BeginTransfer(p)        BY <1>6 DEF BeginTransfer
<1>7. CASE TransferFails(p)        BY <1>7 DEF TransferFails, setState, schedule
<1>8. CASE TransferWhole(p)        BY <1>8 DEF TransferWhole
<1>9. CASE TransferIncremental(p)  BY <1>9, TransferIncrementalFrame
<1>10. CASE Install(p)             BY <1>10 DEF Install
<1>11. CASE ApplyFails(p)          BY <1>11 DEF ApplyFails, setState
<1>12. CASE VerifyFull(p)          BY <1>12 DEF VerifyFull
<1>13. CASE VerifyIncremental(p)   BY <1>13 DEF VerifyIncremental
<1>14. CASE Merge(p)               BY <1>14 DEF Merge
<1>15. CASE Commit(p)              BY <1>15 DEF Commit, setState, schedule
<1>16. CASE Publish(p)             BY <1>16 DEF Publish
<1> QED BY <1>2, <1>3, <1>4, <1>5, <1>6, <1>7, <1>8, <1>9, <1>10, <1>11, <1>12,
           <1>13, <1>14, <1>15, <1>16 DEF Works

\* A step of Refresh leaves the other zones alone.
LEMMA WorksOther ==
  ASSUME IndInv, NEW p \in Procs, Works(p), NEW z \in Zones, z # job[p].zone
  PROVE  /\ Kept(z) /\ Rests(z) /\ Unscheduled(z)
         /\ Findings'[z] = Findings[z]
<1>1. TypeOK
  BY DEF IndInv
<1> USE <1>1 DEF TypeOK, Kept, Rests, Unscheduled
<1>2. CASE Probe(p)                BY <1>2 DEF Probe, detectSkew
<1>3. CASE NoServer(p)             BY <1>3 DEF NoServer, setState, schedule
<1>4. CASE Unchanged(p)            BY <1>4 DEF Unchanged, schedule
<1>5. CASE ReverifyZONEMD(p)       BY <1>5 DEF ReverifyZONEMD
<1>6. CASE BeginTransfer(p)        BY <1>6 DEF BeginTransfer
<1>7. CASE TransferFails(p)        BY <1>7 DEF TransferFails, setState, schedule
<1>8. CASE TransferWhole(p)        BY <1>8 DEF TransferWhole
<1>9. CASE TransferIncremental(p)  BY <1>9, TransferIncrementalFrame
<1>10. CASE Install(p)             BY <1>10 DEF Install
<1>11. CASE ApplyFails(p)          BY <1>11 DEF ApplyFails, setState
<1>12. CASE VerifyFull(p)          BY <1>12 DEF VerifyFull
<1>13. CASE VerifyIncremental(p)   BY <1>13 DEF VerifyIncremental
<1>14. CASE Merge(p)               BY <1>14 DEF Merge
<1>15. CASE Commit(p)              BY <1>15 DEF Commit, setState, schedule
<1>16. CASE Publish(p)             BY <1>16 DEF Publish
<1> QED BY <1>2, <1>3, <1>4, <1>5, <1>6, <1>7, <1>8, <1>9, <1>10, <1>11, <1>12,
           <1>13, <1>14, <1>15, <1>16 DEF Works

\* The steps of a goroutine before it has a slot and after it gave it back.
Edges(p) ==
  TryLockRefresh(p) \/ AcquireSlot(p) \/ ReleaseSlot(p) \/ UnlockRefresh(p)

\* The tick on a zone, as OtherStep sees it.
LEMMA TickOther ==
  ASSUME TypeOK, NEW y \in Zones, Tick(y), NEW z \in Zones
  PROVE  OtherStep(z)
<1> USE DEF TypeOK, OtherStep, Kept
<1>1. UNCHANGED <<Store, timerVars>> /\ TickState(y)
  BY DEF Tick
<1>2. CASE z # y
  BY <1>1, <1>2 DEF TickState, setState
<1>3. CASE z = y
  BY <1>1, <1>3 DEF TickState, setState
<1> QED BY <1>2, <1>3

\* A step that is none of Refresh's own is one of those OtherStep lists.
LEMMA ElseOther ==
  ASSUME TypeOK, [Next]_vars, ~(\E p \in Procs : Works(p)), NEW z \in Zones
  PROVE  OtherStep(z)
<1> USE DEF TypeOK, OtherStep, Kept
<1>1. ASSUME NEW p \in Procs, Edges(p)
      PROVE  OtherStep(z)
  BY <1>1 DEF Edges, TryLockRefresh, AcquireSlot, ReleaseSlot, UnlockRefresh
<1>2. ASSUME NEW y \in Zones,
             \/ Boot(y) \/ ChainLookup(y)
             \/ \E full \in BOOLEAN : RequestRefresh(y, full)
      PROVE  OtherStep(z)
  BY <1>2 DEF Boot, ChainLookup, RequestRefresh
<1>3. ASSUME NEW y \in Zones, Sweep(y)
      PROVE  OtherStep(z)
  BY <1>3 DEF Sweep, setState
<1>4. ASSUME NEW y \in Zones, ChainAnswer(y)
      PROVE  OtherStep(z)
  BY <1>4 DEF ChainAnswer, ApplyFindings, setState
<1>5. CASE Environment
  BY <1>5 DEF Environment, NewVersion, ServerUpDown, RefreshComesDue,
              ExpirePasses, ZONEMDAges, SkewAges, ClockTicks
<1>6. CASE UNCHANGED vars
  BY <1>6
<1> QED BY <1>1, <1>2, <1>3, <1>4, <1>5, <1>6, TickOther
        DEF Next, Refresh, Works, Edges
\* From the probe's answer to the commit: the goroutine is inside Refresh, with
\* the zone locked and a slot taken.
Inside == {"decide", "transfer", "install", "verify", "merge", "commit"}

\* Only the steps of Refresh move a goroutine into these steps, out of them, or
\* change what it carries there.
LEMMA ElseKeeps ==
  ASSUME TypeOK, [Next]_vars, ~(\E p \in Procs : Works(p)), NEW q \in Procs,
         pc[q] \in Inside \/ pc'[q] \in Inside
  PROVE  pc'[q] = pc[q] /\ job'[q] = job[q]
<1> DEFINE Same == pc'[q] = pc[q] /\ job'[q] = job[q]
<1>1. ASSUME NEW p \in Procs, Edges(p)
      PROVE  Same
  <2>1. /\ Others(p)
        /\ pc[p] \notin Inside /\ pc'[p] \notin Inside
    BY <1>1 DEF Edges, TryLockRefresh, AcquireSlot, ReleaseSlot, UnlockRefresh,
                GoTo, Others, TypeOK, Inside
  <2> QED BY <2>1 DEF Others
<1>2. ASSUME NEW y \in Zones, NEW full, Spawn(y, full)
      PROVE  Same
  <2>1. PICK p \in Procs : /\ pc[p] = "idle" /\ GoTo(p, "start")
                           /\ job' = [job EXCEPT ![p] =
                                       [Idle EXCEPT !.zone = y, !.full = full]]
    BY <1>2 DEF Spawn
  <2>2. Others(p) /\ pc[p] \notin Inside /\ pc'[p] \notin Inside
    BY <2>1 DEF GoTo, Others, TypeOK, Inside
  <2> QED BY <2>2 DEF Others
<1>3. ASSUME NEW y \in Zones,
             Boot(y) \/ Tick(y) \/ \E full \in BOOLEAN : RequestRefresh(y, full)
      PROVE  Same
  BY <1>2, <1>3 DEF Boot, Tick, RequestRefresh
<1>4. ASSUME \/ UNCHANGED vars \/ Environment
             \/ \E y \in Zones : Sweep(y) \/ ChainLookup(y) \/ ChainAnswer(y)
      PROVE  Same
  BY <1>4 DEF Sweep, ChainLookup, ChainAnswer, Environment, NewVersion,
              ServerUpDown, RefreshComesDue, ExpirePasses, ZONEMDAges,
              SkewAges, ClockTicks
<1> QED BY <1>1, <1>3, <1>4 DEF Next, Refresh, Works, Edges

\* Any other step leaves a zone's goroutine at these steps where it is.
LEMMA ElseIn ==
  ASSUME TypeOK, [Next]_vars, ~(\E p \in Procs : Works(p)), NEW z \in Zones,
         NEW S \in SUBSET Inside
  PROVE  In(z, S)' <=> In(z, S)
BY ElseKeeps DEF In
-----------------------------------------------------------------------------
(* The state a zone shows *)

Transferring == {"transfer", "install"}
Verifying    == {"verify", "merge", "commit"}

\* A busy state is shown while the zone's goroutine is at the steps it stands
\* for.
BusyHeld(z) ==
  /\ State[z] = "transferring" => In(z, Transferring)
  /\ State[z] = "verifying" => In(z, Verifying)

\* Any other state is that of the newest history entry, and a verdict is for
\* the serial of the store.
EntryAgrees(z) ==
  /\ State[z] \notin BusyStates => History[z].state = State[z]
  /\ State[z] \in {"valid", "unsigned"} =>
       /\ Store[z].serial # 0
       /\ History[z].serial = Store[z].serial

ExpiredIfStale(z) == State[z] = "stale" => ExpireAt[z] = "past"

ShownInv ==
  \A z \in Zones : BusyHeld(z) /\ EntryAgrees(z) /\ ExpiredIfStale(z)

\* Between the probe and the decision the zone shows no busy state, so that the
\* last terminal state is the one it shows.
LEMMA DecideKeeps ==
  ASSUME IndInv, ShownInv, NEW p \in Procs, pc[p] = "decide", NEW z \in Zones,
         z = job[p].zone
  PROVE  lastTerminalState(z) = State[z]
<1>1. BusyHeld(z) /\ EntryAgrees(z) /\ State[z] \in States
  BY DEF ShownInv, IndInv, TypeOK
<1>2. \A q \in Procs : job[q].zone = z /\ pc[q] \in LockSteps => q = p
  BY DEF IndInv, GateHeldByOne, Holds, LockSteps, SlotSteps
<1>3. State[z] \notin BusyStates
  BY <1>1, <1>2 DEF BusyHeld, BusyStates, In, Transferring, Verifying, LockSteps,
                    SlotSteps
<1> QED BY <1>1, <1>3 DEF EntryAgrees, lastTerminalState

\* The zone's own goroutine shows what is so.
LEMMA ShownOwn ==
  ASSUME IndInv, IndInv', ShownInv, NEW p \in Procs, Works(p), NEW z \in Zones,
         z = job[p].zone
  PROVE  (BusyHeld(z) /\ EntryAgrees(z) /\ ExpiredIfStale(z))'
<1>1. OwnStep(p, z)
  BY WorksOwn
<1>2. /\ In(z, Transferring) <=> pc[p] \in Transferring
      /\ In(z, Transferring)' <=> pc'[p] \in Transferring
      /\ In(z, Verifying) <=> pc[p] \in Verifying
      /\ In(z, Verifying)' <=> pc'[p] \in Verifying
  <2>1. Transferring \in SUBSET LockSteps /\ Verifying \in SUBSET LockSteps
    BY DEF Transferring, Verifying, LockSteps, SlotSteps
  <2> QED BY <2>1, InHolder
<1>3. /\ BusyHeld(z) /\ EntryAgrees(z) /\ ExpiredIfStale(z)
      /\ pc[p] = "commit" => Store[z].serial # 0
      /\ State[z] \in States
  BY DEF ShownInv, IndInv, ReadyAt, TypeOK
<1>4. pc[p] = "decide" => lastTerminalState(z) = State[z]
  BY DecideKeeps
<1>5. Verdict(job[p].res) \in {"valid", "invalid", "unsigned"}
  BY DEF Verdict
<1> HIDE DEF In
<1> QED
  BY <1>1, <1>2, <1>3, <1>4, <1>5
  DEF OwnStep, From, Kept, Rests, BusyHeld, EntryAgrees, ExpiredIfStale,
      BusyStates, Transferring, Verifying

\* Every step leaves the zones showing what is so.
LEMMA ShownStep ==
  ASSUME IndInv, IndInv', ShownInv, [Next]_vars
  PROVE  ShownInv'
<1> SUFFICES ASSUME NEW z \in Zones
             PROVE  (BusyHeld(z) /\ EntryAgrees(z) /\ ExpiredIfStale(z))'
  BY DEF ShownInv
<1>1. BusyHeld(z) /\ EntryAgrees(z) /\ ExpiredIfStale(z)
  BY DEF ShownInv
<1>2. ASSUME NEW p \in Procs, Works(p)
      PROVE  (BusyHeld(z) /\ EntryAgrees(z) /\ ExpiredIfStale(z))'
  <2>1. CASE z = job[p].zone
    BY <1>2, <2>1, ShownOwn
  <2>2. CASE z # job[p].zone
    <3>1. /\ In(z, Transferring)' <=> In(z, Transferring)
          /\ In(z, Verifying)' <=> In(z, Verifying)
      BY <1>2, <2>2, InOther
    <3>2. Kept(z) /\ Rests(z)
      BY <1>2, <2>2, WorksOther
    <3> QED BY <1>1, <3>1, <3>2
            DEF Kept, Rests, BusyHeld, EntryAgrees, ExpiredIfStale
  <2> QED BY <2>1, <2>2
<1>3. CASE ~(\E p \in Procs : Works(p))
  <2>1. /\ In(z, Transferring)' <=> In(z, Transferring)
        /\ In(z, Verifying)' <=> In(z, Verifying)
    <3>1. /\ Transferring \in SUBSET Inside
          /\ Verifying \in SUBSET Inside
      BY DEF Transferring, Verifying, Inside
    <3> QED BY <1>3, <3>1, ElseIn DEF IndInv
  <2>2. OtherStep(z)
    BY <1>3, ElseOther DEF IndInv
  <2>3. State[z] \in BusyStates => Refreshing[z]
    <3>1. State[z] \in BusyStates => \E p \in Procs : Holds(p, z)
      BY <1>1 DEF BusyHeld, BusyStates, In, Transferring, Verifying, Holds,
                  LockSteps, SlotSteps
    <3> QED BY <3>1 DEF IndInv, GateHeldByOne
  <2> QED BY <1>1, <2>1, <2>2, <2>3
          DEF OtherStep, Kept, BusyHeld, EntryAgrees, ExpiredIfStale, BusyStates
<1> QED BY <1>2, <1>3

\* The zones show what is so, when the process starts and ever after.
THEOREM ShownInvariance == Spec => []ShownInv
<1>1. Init => ShownInv
  BY DEF Init, ShownInv, BusyHeld, EntryAgrees, ExpiredIfStale, BusyStates, NoEntry
<1>2. ShownInv /\ IndInv /\ IndInv' /\ [Next]_vars => ShownInv'
  BY ShownStep
<1> QED BY <1>1, <1>2, Invariance, PTL DEF Spec

\* No return path of Refresh leaves a zone transferring or verifying when its
\* lock is given up: the tick never has a busy state to repair.
THEOREM BusyOnlyInRefresh == Spec => []BusyIsRefreshing
<1>1. IndInv /\ ShownInv => BusyIsRefreshing
  BY DEF IndInv, GateHeldByOne, Holds, LockSteps, SlotSteps, ShownInv, BusyHeld,
         BusyStates, BusyIsRefreshing, In, Transferring, Verifying
<1> QED BY <1>1, Invariance, ShownInvariance, PTL

\* A zone is shown stale only while its SOA EXPIRE has elapsed.
THEOREM StaleOnlyExpired == Spec => []StaleMeansExpired
<1>1. ShownInv => StaleMeansExpired
  BY DEF ShownInv, ExpiredIfStale, StaleMeansExpired
<1> QED BY <1>1, ShownInvariance, PTL

\* A verdict shown is the newest history entry, for the records held: no
\* installation leaves the verdict of the version before it on display.
THEOREM VerdictOnCurrentStore == Spec => []ValidIsCurrent
<1>1. ASSUME TypeOK, ShownInv, NEW z \in Zones,
             State[z] \in {"valid", "unsigned"}
      PROVE  /\ Store[z].serial # 0
             /\ History[z] = [state |-> State[z], serial |-> Store[z].serial]
  <2>1. /\ Store[z].serial # 0
        /\ History[z].state = State[z] /\ History[z].serial = Store[z].serial
    BY <1>1 DEF ShownInv, EntryAgrees, BusyStates
  <2>2. History[z] = [state |-> History[z].state, serial |-> History[z].serial]
    BY <1>1 DEF TypeOK
  <2> QED BY <2>1, <2>2
<1>2. TypeOK /\ ShownInv => ValidIsCurrent
  BY <1>1 DEF ValidIsCurrent
<1> QED BY <1>2, TypeCorrect, ShownInvariance, PTL
-----------------------------------------------------------------------------
(* Polling and the flag of a full pass: a zone's next refresh is owned *)

\* The steps of a goroutine around its work are steps for lock and semaphore.
LEMMA EdgeKind ==
  ASSUME TypeOK, NEW p \in Procs, Edges(p)
  PROVE  GivingUp(p) \/ Locking(p) \/ Entering(p) \/ Leaving(p) \/ Unlocking(p)
<1> USE DEF TypeOK, Others, GoTo
<1>1. CASE TryLockRefresh(p)
  BY <1>1 DEF TryLockRefresh, CanLock, GivingUp, Locking, Idle
<1>2. CASE AcquireSlot(p)
  BY <1>2 DEF AcquireSlot, SlotFree, Entering, Job
<1>3. CASE ReleaseSlot(p)
  BY <1>3 DEF ReleaseSlot, giveSlot, Leaving
<1>4. CASE UnlockRefresh(p)
  BY <1>4 DEF UnlockRefresh, unlock, Unlocking, Idle
<1> QED BY <1>1, <1>2, <1>3, <1>4 DEF Edges

\* The goroutine of a zone has yet to schedule the next refresh; it has done so.
Pending == {"slot", "probe", "decide", "transfer", "install"} \cup Verifying
Done    == {"publish", "release", "unlock"}

\* A zone never scheduled has a goroutine that will schedule it, and none that
\* is past the point where it does.  A store came from a transfer of this
\* process whose commit scheduled the zone or is still to come.
Polled(z) ==
  NextRefresh[z] = "zero" =>
    /\ z \in boot \/ In(z, {"start"}) \/ In(z, Pending)
    /\ ~In(z, Done)
    /\ ~SnapshotResume /\ Store[z].serial # 0 => In(z, Verifying)

\* Changes are only asked for by a zone that has a store.
Asked(p) == pc[p] = "install" /\ job[p].method = "ixfr" => job[p].old # 0

PollInv == (\A z \in Zones : Polled(z)) /\ \A p \in Procs : Asked(p)

\* Every step keeps it that changes are asked for by zones with a store.
LEMMA AskedStep ==
  ASSUME IndInv, PollInv, [Next]_vars, NEW q \in Procs
  PROVE  Asked(q)'
<1>1. TypeOK /\ Asked(q)
  BY DEF IndInv, PollInv
<1>2. CASE ~(\E p \in Procs : Works(p))
  BY <1>1, <1>2, ElseKeeps DEF Asked, Inside
<1>3. ASSUME NEW p \in Procs, Works(p), q # p
      PROVE  Asked(q)'
  BY <1>1, <1>3, WorksKind DEF Working, Others, Asked
<1>4. ASSUME Works(q)
      PROVE  Asked(q)'
  <2>1. job[q] \in Job /\ job[q].zone \in Zones
    BY <1>1, <1>4, WorksKind, JobWorks DEF IndInv, Working, SlotSteps
  <2>2. CASE TransferWhole(q)
    BY <1>1, <2>1, <2>2 DEF TransferWhole, Asked, TypeOK, Job
  <2>3. CASE TransferIncremental(q)
    <3> DEFINE a == job[q].old
               s == serial[job[q].zone][job[q].server]
    <3>1. job'[q].old = job[q].old
      <4>1. CASE job' = [job EXCEPT ![q].method = "ixfr", ![q].got = a]
        BY <1>1, <2>1, <4>1 DEF TypeOK, Job
      <4>2. CASE \E T \in TouchedSets(a, s), k \in BOOLEAN :
                   job' = [job EXCEPT ![q].method = "ixfr", ![q].got = s,
                                      ![q].touched = T, ![q].dnskey = k]
        BY <1>1, <2>1, <4>2 DEF TypeOK, Job
      <4> QED BY <2>3, <4>1, <4>2 DEF TransferIncremental
    <3> QED BY <2>3, <3>1, TransferIncrementalFrame DEF Asked
  <2>4. CASE ~TransferWhole(q) /\ ~TransferIncremental(q)
    <3>1. pc'[q] # "install"
      BY <1>1, <1>4, <2>4
      DEF Works, Probe, NoServer, Unchanged, ReverifyZONEMD, BeginTransfer,
          TransferFails, Install, ApplyFails, VerifyFull, VerifyIncremental,
          Merge, Commit, Publish, GoTo, TypeOK
    <3> QED BY <3>1 DEF Asked
  <2> QED BY <2>2, <2>3, <2>4
<1> QED BY <1>2, <1>3, <1>4

\* A zone's goroutine schedules it before it is done.  Only a failed application
\* does not, and the zone it fails on has a store: it has been scheduled before.
LEMMA PolledOwn ==
  ASSUME ~(SnapshotResume /\ ApplyMayFail), IndInv, IndInv', PollInv,
         NEW p \in Procs, Works(p), NEW z \in Zones, z = job[p].zone
  PROVE  Polled(z)'
<1>1. OwnStep(p, z)
  BY WorksOwn
<1>2. /\ In(z, Verifying) <=> pc[p] \in Verifying
      /\ In(z, Verifying)' <=> pc'[p] \in Verifying
      /\ In(z, Pending)' <=> pc'[p] \in Pending
      /\ In(z, Done) <=> pc[p] \in Done
      /\ In(z, Done)' <=> pc'[p] \in Done
  <2>1. /\ Verifying \in SUBSET LockSteps /\ Pending \in SUBSET LockSteps
        /\ Done \in SUBSET LockSteps
    BY DEF Verifying, Pending, Done, LockSteps, SlotSteps
  <2> QED BY <2>1, InHolder
<1>3. /\ Polled(z) /\ Asked(p)
      /\ pc[p] = "install" => job[p].old = Store[z].serial
  BY DEF PollInv, IndInv, ReadyAt
<1> HIDE DEF In
<1> QED
  BY <1>1, <1>2, <1>3
  DEF OwnStep, From, Rests, Scheduled, Unscheduled, Polled, Asked, Verifying,
      Pending, Done

\* A step of Refresh starts no goroutine, stops none and raises no flag.
LEMMA WorksQuiet ==
  ASSUME NEW p \in Procs, Works(p)
  PROVE  UNCHANGED <<boot, RefreshFull>>
<1>1. CASE TransferIncremental(p)
  BY <1>1, TransferIncrementalFrame
<1>2. CASE ~TransferIncremental(p)
  BY <1>2
  DEF Works, Probe, NoServer, Unchanged, ReverifyZONEMD, BeginTransfer,
      TransferFails, TransferWhole, Install, ApplyFails, VerifyFull,
      VerifyIncremental, Merge, Commit, Publish
<1> QED BY <1>1, <1>2
\* A new goroutine is at its start, for the zone it was started for.
LEMMA SpawnIn ==
  ASSUME TypeOK, NEW y \in Zones, NEW full, Spawn(y, full)
  PROVE  \E p \in Procs : /\ pc[p] = "idle" /\ pc'[p] = "start"
                          /\ job'[p].zone = y /\ job'[p].full = full
                          /\ Others(p)
<1>1. PICK p \in Procs : /\ pc[p] = "idle" /\ GoTo(p, "start")
                         /\ job' = [job EXCEPT ![p] =
                                     [Idle EXCEPT !.zone = y, !.full = full]]
  BY DEF Spawn
<1>2. /\ [Idle EXCEPT !.zone = y, !.full = full].zone = y
      /\ [Idle EXCEPT !.zone = y, !.full = full].full = full
  BY DEF Idle
<1> QED BY <1>1, <1>2 DEF GoTo, Others, TypeOK

\* Whoever else moves, a zone that was never scheduled keeps a goroutine that
\* will schedule it: one that gives up leaves the holder of the lock behind.
LEMMA PolledElse ==
  ASSUME IndInv, PollInv, [Next]_vars, ~(\E p \in Procs : Works(p)),
         NEW z \in Zones
  PROVE  Polled(z)'
<1>1. /\ TypeOK /\ Polled(z) /\ OtherStep(z)
      /\ In(z, Verifying)' <=> In(z, Verifying)
  <2>1. Verifying \in SUBSET Inside
    BY DEF Verifying, Inside
  <2> QED BY <2>1, ElseOther, ElseIn DEF IndInv, PollInv
<1> SUFFICES ASSUME NextRefresh[z] = "zero"
             PROVE  /\ (z \in boot \/ In(z, {"start"}) \/ In(z, Pending))'
                    /\ ~In(z, Done)'
  BY <1>1 DEF Polled, OtherStep
<1>2. /\ z \in boot \/ In(z, {"start"}) \/ In(z, Pending)
      /\ ~In(z, Done)
  BY <1>1 DEF Polled
<1>3. ASSUME UNCHANGED <<pc, job, boot>>
      PROVE  /\ (z \in boot \/ In(z, {"start"}) \/ In(z, Pending))'
             /\ ~In(z, Done)'
  BY <1>2, <1>3 DEF In
<1>4. ASSUME NEW p \in Procs, Edges(p)
      PROVE  /\ (z \in boot \/ In(z, {"start"}) \/ In(z, Pending))'
             /\ ~In(z, Done)'
  <2>1. UNCHANGED boot
    BY <1>4 DEF Edges, TryLockRefresh, AcquireSlot, ReleaseSlot, UnlockRefresh
  <2>2. GivingUp(p) \/ Locking(p) \/ Entering(p) \/ Leaving(p) \/ Unlocking(p)
    BY <1>1, <1>4, EdgeKind
  <2>3. CASE job[p].zone # z
    <3>1. job'[p].zone # z /\ Others(p)
      BY <2>2, <2>3, RefreshAssumption
      DEF GivingUp, Locking, Entering, Leaving, Unlocking
    <3>2. \A S : In(z, S)' <=> In(z, S)
      BY <2>3, <3>1 DEF In, Others
    <3> QED BY <1>2, <2>1, <3>2
  <2>4. CASE job[p].zone = z /\ GivingUp(p)
    <3>1. PICK q \in Procs : Holds(q, z)
      BY <2>4 DEF GivingUp, IndInv, GateHeldByOne
    <3>2. q # p /\ pc[q] \in Pending /\ pc'[q] = pc[q] /\ job'[q].zone = z
      BY <1>2, <2>4, <3>1
      DEF GivingUp, Others, Holds, In, Done, Pending, Verifying, LockSteps,
          SlotSteps
    <3> QED BY <1>2, <2>4, <3>2 DEF GivingUp, Others, In, Done
  <2>5. CASE job[p].zone = z /\ (Locking(p) \/ Entering(p))
    <3>1. /\ pc'[p] \in Pending /\ pc'[p] \notin Done /\ job'[p].zone = z
          /\ Others(p)
      BY <2>5 DEF Locking, Entering, Pending, Done, Verifying
    <3> QED BY <1>2, <3>1 DEF In, Others
  <2>6. CASE job[p].zone = z /\ (Leaving(p) \/ Unlocking(p))
    BY <1>2, <2>6 DEF Leaving, Unlocking, In, Done
  <2> QED BY <2>2, <2>3, <2>4, <2>5, <2>6
<1>5. ASSUME NEW y \in Zones, NEW full, Spawn(y, full),
             boot' = boot \/ boot' = boot \ {y}
      PROVE  /\ (z \in boot \/ In(z, {"start"}) \/ In(z, Pending))'
             /\ ~In(z, Done)'
  <2>1. PICK p \in Procs : /\ pc[p] = "idle" /\ pc'[p] = "start"
                           /\ job'[p].zone = y /\ Others(p)
    BY <1>1, <1>5, SpawnIn
  <2>2. /\ In(z, Pending)' <=> In(z, Pending)
        /\ In(z, Done)' <=> In(z, Done)
    BY <2>1, InFrame DEF Pending, Done, Verifying
  <2>3. In(z, {"start"}) \/ z = y => In(z, {"start"})'
    BY <2>1 DEF In, Others
  <2> QED BY <1>2, <1>5, <2>2, <2>3
<1>6. ASSUME NEW y \in Zones,
             Boot(y) \/ Tick(y) \/ \E full \in BOOLEAN : RequestRefresh(y, full)
      PROVE  /\ (z \in boot \/ In(z, {"start"}) \/ In(z, Pending))'
             /\ ~In(z, Done)'
  BY <1>3, <1>5, <1>6 DEF Boot, Tick, RequestRefresh
<1>7. ASSUME \/ UNCHANGED vars \/ Environment
             \/ \E y \in Zones : Sweep(y) \/ ChainLookup(y) \/ ChainAnswer(y)
      PROVE  UNCHANGED <<pc, job, boot>>
  BY <1>7 DEF Sweep, ChainLookup, ChainAnswer, Environment, NewVersion,
              ServerUpDown, RefreshComesDue, ExpirePasses, ZONEMDAges,
              SkewAges, ClockTicks
<1> QED BY <1>3, <1>4, <1>6, <1>7 DEF Next, Refresh, Works, Edges

\* Polling never dies: a zone without a goroutine has a next refresh, unless it
\* was resumed from a snapshot and its first incremental transfer cannot be
\* applied, which is the one return of Refresh that schedules nothing.
THEOREM PollingNeverDies ==
  ASSUME ~(SnapshotResume /\ ApplyMayFail)
  PROVE  Spec => []AlwaysScheduled
<1>1. Init => PollInv
  <2>1. ASSUME Init, NEW z \in Zones
        PROVE  Polled(z)
    <3>1. ~In(z, Done)
      BY <2>1 DEF Init, In, Done
    <3>2. ~SnapshotResume => Store[z].serial = 0
      BY <2>1 DEF Init, Attached, NoStore
    <3> QED BY <2>1, <3>1, <3>2 DEF Init, Polled
  <2>2. ASSUME Init, NEW p \in Procs
        PROVE  Asked(p)
    BY <2>2 DEF Init, Asked
  <2> QED BY <2>1, <2>2 DEF PollInv
<1>2. PollInv /\ IndInv /\ IndInv' /\ [Next]_vars => PollInv'
  <2> SUFFICES ASSUME PollInv, IndInv, IndInv', [Next]_vars
               PROVE  PollInv'
    OBVIOUS
  <2>1. ASSUME NEW z \in Zones, NEW p \in Procs, Works(p)
        PROVE  Polled(z)'
    <3>1. CASE z = job[p].zone
      BY <2>1, <3>1, PolledOwn
    <3>2. CASE z # job[p].zone
      <4>1. \A S : In(z, S)' <=> In(z, S)
        BY <2>1, <3>2, InOther
      <4>2. UNCHANGED boot /\ Rests(z) /\ Unscheduled(z)
        BY <2>1, <3>2, WorksOther, WorksQuiet
      <4> QED BY <4>1, <4>2 DEF PollInv, Polled, Rests, Unscheduled
    <3> QED BY <3>1, <3>2
  <2>2. ASSUME NEW z \in Zones
        PROVE  Polled(z)'
    BY <2>1, PolledElse
  <2> QED BY <2>2, AskedStep DEF PollInv
<1>3. PollInv => AlwaysScheduled
  BY DEF PollInv, Polled, AlwaysScheduled, In
<1> QED BY <1>1, <1>2, <1>3, Invariance, PTL DEF Spec

\* The flag RequestRefresh raises for the API is owned: whoever finds the zone
\* locked leaves it to the holder, and the unlock that takes the flag down is
\* that holder's.
THEOREM FullFlagCleared == Spec => []FullFlagOwned
<1> DEFINE Owned(z) ==
             \/ In(z, LockSteps)
             \/ \E p \in Procs : /\ job[p].zone = z
                                 /\ pc[p] = "start" /\ job[p].full
<1>1. FullFlagOwned <=> \A z \in Zones : RefreshFull[z] => Owned(z)
  BY DEF FullFlagOwned, In
<1>2. Init => FullFlagOwned
  BY DEF Init, FullFlagOwned
<1>3. IndInv /\ FullFlagOwned /\ [Next]_vars => FullFlagOwned'
  <2> SUFFICES ASSUME IndInv, FullFlagOwned, [Next]_vars, NEW z \in Zones,
                      RefreshFull'[z]
               PROVE  Owned(z)'
    BY DEF FullFlagOwned, In
  <2>0. TypeOK
    BY DEF IndInv
  <2>1. ASSUME NEW p \in Procs, Works(p)
        PROVE  Owned(z)'
    <3>1. RefreshFull[z] /\ Working(p)
      BY <2>0, <2>1, WorksQuiet, WorksKind
    <3>2. Owned(z)
      BY <1>1, <3>1
    <3>3. CASE In(z, LockSteps)
      BY <3>1, <3>3 DEF In, Working, Others, LockSteps
    <3>4. CASE \E p_1 \in Procs : /\ job[p_1].zone = z
                                  /\ pc[p_1] = "start" /\ job[p_1].full
      BY <3>1, <3>4 DEF Working, Others, SlotSteps
    <3> QED BY <3>2, <3>3, <3>4
  <2>2. ASSUME NEW p \in Procs, Edges(p)
        PROVE  Owned(z)'
    <3>1. CASE z # job[p].zone
      <4>1. RefreshFull[z] /\ Owned(z)
        BY <1>1, <2>0, <2>2, <3>1
        DEF Edges, TryLockRefresh, AcquireSlot, ReleaseSlot, UnlockRefresh,
            unlock, TypeOK
      <4>2. Others(p)
        BY <2>0, <2>2, EdgeKind
        DEF GivingUp, Locking, Entering, Leaving, Unlocking
      <4> QED BY <3>1, <4>1, <4>2 DEF In, Others
    <3>2. CASE z = job[p].zone /\ GivingUp(p)
      BY <3>2 DEF GivingUp, Others, IndInv, GateHeldByOne, Holds, In, LockSteps,
                  SlotSteps
    <3>3. CASE z = job[p].zone /\ (Locking(p) \/ Entering(p) \/ Leaving(p))
      BY <3>3 DEF Locking, Entering, Leaving, In, LockSteps, SlotSteps
    <3>4. CASE z = job[p].zone /\ Unlocking(p)
      <4>1. UnlockRefresh(p)
        BY <2>2, <3>4 DEF Edges, TryLockRefresh, AcquireSlot, ReleaseSlot,
                          Unlocking
      <4> QED BY <2>0, <3>4, <4>1 DEF UnlockRefresh, unlock, TypeOK
    <3> QED BY <2>0, <2>2, <3>1, <3>2, <3>3, <3>4, EdgeKind
  <2>3. ASSUME NEW y \in Zones, NEW full, Spawn(y, full),
               RefreshFull[z] \/ (full /\ z = y)
        PROVE  Owned(z)'
    <3>1. PICK p \in Procs : /\ pc[p] = "idle" /\ pc'[p] = "start"
                             /\ job'[p].zone = y /\ job'[p].full = full
                             /\ Others(p)
      BY <2>0, <2>3, SpawnIn
    <3>2. CASE full /\ z = y
      BY <3>1, <3>2
    <3>3. CASE RefreshFull[z]
      <4>1. Owned(z)
        BY <1>1, <3>3
      <4> QED BY <3>1, <4>1 DEF In, Others, LockSteps, SlotSteps
    <3> QED BY <2>3, <3>2, <3>3
  <2>4. ASSUME RefreshFull[z], UNCHANGED <<pc, job>>
        PROVE  Owned(z)'
    BY <1>1, <2>4 DEF In
  <2>5. ASSUME NEW y \in Zones, Boot(y) \/ Tick(y)
        PROVE  Owned(z)'
    BY <2>3, <2>4, <2>5 DEF Boot, Tick
  <2>6. ASSUME NEW y \in Zones, NEW full \in BOOLEAN, RequestRefresh(y, full)
        PROVE  Owned(z)'
    BY <2>0, <2>3, <2>6 DEF RequestRefresh, TypeOK
  <2>7. ASSUME \/ UNCHANGED vars \/ Environment
               \/ \E y \in Zones : Sweep(y) \/ ChainLookup(y) \/ ChainAnswer(y)
        PROVE  RefreshFull[z] /\ UNCHANGED <<pc, job>>
    BY <2>7 DEF Sweep, ChainLookup, ChainAnswer, Environment, NewVersion,
                ServerUpDown, RefreshComesDue, ExpirePasses, ZONEMDAges,
                SkewAges, ClockTicks
  <2> QED BY <2>1, <2>2, <2>4, <2>5, <2>6, <2>7 DEF Next, Refresh, Works, Edges
<1> QED BY <1>2, <1>3, Invariance, PTL DEF Spec
-----------------------------------------------------------------------------
(* Verdicts from whole transfers: with prefer_ixfr off every pass is full *)

\* What a zone shown valid has been found to be.
Clean(c) == c.signed /\ c.bad = {} /\ (ZONEMD # "off" => c.zonemd # "bad")

\* A full pass that says valid has found no error, and nothing bad is there.
LEMMA FullSound ==
  ASSUME NEW c \in ContentType, NEW t \in Nat, Verdict(Full(c, t)) = "valid"
  PROVE  /\ Full(c, t).mode = "full" /\ ~HasErrors(Full(c, t).found)
         /\ Clean(c)
<1> DEFINE F == verifyNodes(c, Owners, t) \cup verifyZONEMD(c)
<1>1. c.signed
  <2>1. ~c.signed => Full(c, t).unsigned
    BY DEF Full, NoResult
  <2> QED BY <2>1 DEF Verdict, ContentType
<1>2. Full(c, t) = [mode |-> "full", found |-> F, valid |-> ~HasErrors(F),
                    unsigned |-> FALSE, zonemd |-> ZONEMDOutcome(c)]
  BY <1>1 DEF Full
<1>3. ~HasErrors(F)
  <2>1. Full(c, t).valid
    BY <1>2 DEF Verdict
  <2>2. Full(c, t).valid = ~HasErrors(F)
    BY <1>2
  <2> QED BY <2>1, <2>2, Zenon
<1>4. c.bad = {}
  <2>1. ASSUME NEW o \in c.bad PROVE FALSE
    <3>1. o \in Owners
      BY DEF ContentType
    <3>2. NewFinding("RRSIG_INVALID", o) \in verifyNode(c, o, t)
      BY DEF verifyNode
    <3>3. NewFinding("RRSIG_INVALID", o) \in F
      BY <3>1, <3>2 DEF verifyNodes
    <3>4. NewFinding("RRSIG_INVALID", o).code \in ErrorCodes
      BY DEF NewFinding, ErrorCodes
    <3> QED BY <1>3, <3>3, <3>4 DEF HasErrors
  <2> QED BY <2>1
<1>5. ZONEMD # "off" => c.zonemd # "bad"
  <2>1. ASSUME ZONEMD # "off", c.zonemd = "bad" PROVE FALSE
    <3>1. NewFinding("ZONEMD_MISMATCH", Apex) \in F
      BY <2>1 DEF verifyZONEMD
    <3>2. NewFinding("ZONEMD_MISMATCH", Apex).code \in ErrorCodes
      BY DEF NewFinding, ErrorCodes
    <3> QED BY <1>3, <3>1, <3>2 DEF HasErrors
  <2> QED BY <2>1
<1> HIDE DEF F
<1> QED BY <1>1, <1>2, <1>3, <1>4, <1>5 DEF Clean

\* Outside Refresh findings are only added, and an error that is added to a
\* valid zone invalidates it.
LEMMA ElseFindings ==
  ASSUME TypeOK, [Next]_vars, ~(\E p \in Procs : Works(p)), NEW z \in Zones
  PROVE  /\ Findings[z] \subseteq Findings'[z]
         /\ State'[z] = "valid" /\ ~HasErrors(Findings[z]) =>
              ~HasErrors(Findings'[z])
<1> USE DEF TypeOK
<1>1. ASSUME Findings'[z] = Findings[z]
      PROVE  /\ Findings[z] \subseteq Findings'[z]
             /\ State'[z] = "valid" /\ ~HasErrors(Findings[z]) =>
                  ~HasErrors(Findings'[z])
  BY <1>1
<1>2. ASSUME NEW p \in Procs, Edges(p)
      PROVE  UNCHANGED Findings
  BY <1>2 DEF Edges, TryLockRefresh, AcquireSlot, ReleaseSlot, UnlockRefresh
<1>3. ASSUME NEW y \in Zones,
             \/ Boot(y) \/ Tick(y) \/ ChainLookup(y)
             \/ \E full \in BOOLEAN : RequestRefresh(y, full)
      PROVE  UNCHANGED Findings
  BY <1>3 DEF Boot, Tick, ChainLookup, RequestRefresh
<1>4. ASSUME NEW y \in Zones, Sweep(y)
      PROVE  /\ Findings[z] \subseteq Findings'[z]
             /\ State'[z] = "valid" /\ ~HasErrors(Findings[z]) =>
                  ~HasErrors(Findings'[z])
  <2>1. CASE z # y
    BY <1>1, <1>4, <2>1 DEF Sweep
  <2>2. CASE z = y
    <3> DEFINE F == Findings[z] \cup SweepExpiry(Content[Store[z].serial], now)
    <3>1. /\ Findings'[z] = F
          /\ HasErrors(F) /\ State[z] = "valid" => State'[z] = "invalid"
          /\ ~(HasErrors(F) /\ State[z] = "valid") => State'[z] = State[z]
      BY <1>4, <2>2 DEF Sweep, setState
    <3> HIDE DEF HasErrors
    <3> QED BY <3>1
  <2> QED BY <2>1, <2>2
<1>5. ASSUME NEW y \in Zones, ChainAnswer(y)
      PROVE  /\ Findings[z] \subseteq Findings'[z]
             /\ State'[z] = "valid" /\ ~HasErrors(Findings[z]) =>
                  ~HasErrors(Findings'[z])
  <2>1. /\ NewFinding("INSECURE_DELEGATION", Apex).code \notin ErrorCodes
        /\ NewFinding("DS_MISMATCH", Apex).code \in ErrorCodes => RequireMatch
    BY DEF NewFinding, ErrorCodes
  <2>2. CASE UNCHANGED Findings
    BY <1>1, <2>2
  <2>3. CASE ApplyFindings(y, {NewFinding("INSECURE_DELEGATION", Apex)}, "ok", FALSE)
    <3>1. /\ State' = State
          /\ Findings' = [Findings EXCEPT ![y] =
                            @ \cup {NewFinding("INSECURE_DELEGATION", Apex)}]
      BY <2>3 DEF ApplyFindings
    <3> QED BY <1>1, <2>1, <3>1 DEF HasErrors
  <2>4. CASE ApplyFindings(y, {}, "ok", FALSE)
    <3>1. Findings' = [Findings EXCEPT ![y] = @ \cup {}]
      BY <2>4 DEF ApplyFindings
    <3>2. Findings'[z] = Findings[z]
      BY <3>1
    <3> QED BY <1>1, <3>2
  <2>5. CASE ApplyFindings(y, {NewFinding("DS_MISMATCH", Apex)}, "bad", RequireMatch)
    <3>1. CASE z # y
      BY <1>1, <2>5, <3>1 DEF ApplyFindings
    <3>2. CASE z = y
      <4>1. /\ Findings'[z] = Findings[z] \cup {NewFinding("DS_MISMATCH", Apex)}
            /\ RequireMatch /\ State[z] = "valid" => State'[z] = "invalid"
        BY <2>5, <3>2 DEF ApplyFindings, setState
      <4>2. ~RequireMatch => State'[z] = State[z]
        BY <2>5 DEF ApplyFindings
      <4>3. RequireMatch /\ State[z] # "valid" => State'[z] = State[z]
        BY <2>5, <3>2 DEF ApplyFindings
      <4> QED BY <2>1, <4>1, <4>2, <4>3, FindingsAssumption DEF HasErrors
    <3> QED BY <3>1, <3>2
  <2> QED BY <1>5, <2>2, <2>3, <2>4, <2>5 DEF ChainAnswer
<1>6. CASE Environment \/ UNCHANGED vars
  BY <1>1, <1>6 DEF Environment, NewVersion, ServerUpDown, RefreshComesDue,
                    ExpirePasses, ZONEMDAges, SkewAges, ClockTicks
<1> QED BY <1>1, <1>2, <1>3, <1>4, <1>5, <1>6 DEF Next, Refresh, Works, Edges
\* Without incremental transfers what is installed is a whole zone, and what is
\* committed is the result of a full pass over the store.
FullResult(st, res) == \E c \in Contents(st), t \in Nat : res = Full(c, t)

Whole(p) ==
  /\ pc[p] \in {"install", "verify"} => job[p].method = "axfr"
  /\ pc[p] # "merge"
  /\ pc[p] = "commit" => FullResult(Store[job[p].zone], job[p].res)

SoundZone(z) ==
  State[z] = "valid" =>
    /\ ~HasErrors(Findings[z])
    /\ ~Store[z].torn => Clean(Content[Store[z].serial])

WholeInv == (\A p \in Procs : Whole(p)) /\ \A z \in Zones : SoundZone(z)

\* A goroutine that works for whole zones keeps doing so.
LEMMA WholeWorks ==
  ASSUME ~PreferIXFR, IndInv, NEW p \in Procs, Whole(p), Works(p)
  PROVE  Whole(p)'
<1>1. /\ TypeOK /\ job[p] \in Job /\ job[p].zone \in Zones
      /\ now \in Nat
  <2>1. pc[p] \in SlotSteps
    BY WorksKind DEF IndInv, Working
  <2>2. job[p] \in Job /\ job[p].zone \in Zones
    BY <2>1, JobWorks DEF IndInv, SlotSteps
  <2> QED BY <2>2, RefreshAssumption DEF IndInv, TypeOK
<1> USE <1>1 DEF TypeOK, GoTo, Job
<1>2. CASE ReverifyZONEMD(p)
  <2>1. PICK c \in Contents(Store[job[p].zone]) :
          job' = [job EXCEPT ![p].method = "soa", ![p].res = Full(c, now)]
    BY <1>2 DEF ReverifyZONEMD
  <2>2. /\ UNCHANGED Store /\ pc'[p] = "commit"
        /\ job'[p].zone = job[p].zone /\ job'[p].res = Full(c, now)
    BY <1>2, <2>1 DEF ReverifyZONEMD
  <2>3. FullResult(Store'[job'[p].zone], job'[p].res)
    BY <2>2 DEF FullResult
  <2> HIDE DEF TypeOK
  <2> QED BY <2>2, <2>3 DEF Whole
<1>3. CASE VerifyFull(p)
  <2>1. PICK c \in Contents(Store[job[p].zone]) :
          job' = [job EXCEPT ![p].res = Full(c, now)]
    BY <1>3 DEF VerifyFull
  <2>2. /\ UNCHANGED Store /\ pc'[p] = "commit"
        /\ job'[p].zone = job[p].zone /\ job'[p].res = Full(c, now)
    BY <1>3, <2>1 DEF VerifyFull
  <2>3. FullResult(Store'[job'[p].zone], job'[p].res)
    BY <2>2 DEF FullResult
  <2> HIDE DEF TypeOK
  <2> QED BY <2>2, <2>3 DEF Whole
<1>4. CASE TransferWhole(p)
  BY <1>4 DEF TransferWhole, Whole
<1>5. CASE Install(p)
  BY <1>5 DEF Install, Whole
<1>6. CASE TransferIncremental(p)
  BY <1>6, TransferIncrementalFrame
<1>7. CASE VerifyIncremental(p)
  BY <1>7 DEF VerifyIncremental, NeedsFull, Whole
<1>8. CASE Merge(p)
  BY <1>8 DEF Merge, Whole
<1>9. CASE \/ Probe(p) \/ NoServer(p) \/ Unchanged(p) \/ BeginTransfer(p)
           \/ TransferFails(p) \/ ApplyFails(p) \/ Commit(p) \/ Publish(p)
  <2>1. pc'[p] \in {"decide", "release", "transfer", "publish"}
    BY <1>9 DEF Probe, NoServer, Unchanged, BeginTransfer, TransferFails,
                ApplyFails, Commit, Publish
  <2> QED BY <2>1 DEF Whole
<1> QED BY <1>2, <1>3, <1>4, <1>5, <1>6, <1>7, <1>8, <1>9 DEF Works

\* The store of a zone changes under its own goroutine only.
LEMMA OthersStore ==
  ASSUME IndInv, NEW p \in Procs, Works(p), NEW q \in Procs, q # p,
         pc[q] \in Inside
  PROVE  /\ pc'[q] = pc[q] /\ job'[q] = job[q] /\ job[q].zone \in Zones
         /\ job[q].zone # job[p].zone
         /\ Store'[job[q].zone] = Store[job[q].zone]
<1>1. Others(p) /\ pc[p] \in LockSteps
  BY WorksKind DEF IndInv, Working, LockSteps
<1>2. job[q].zone \in Zones /\ pc[q] \in LockSteps
  BY JobWorks DEF IndInv, Inside, LockSteps, SlotSteps
<1>3. job[q].zone # job[p].zone
  BY <1>1, <1>2 DEF IndInv, GateHeldByOne, Holds
<1> QED BY <1>1, <1>2, <1>3, StoreFrame DEF Others

\* Every step keeps every goroutine to whole zones.
LEMMA WholeStep ==
  ASSUME ~PreferIXFR, IndInv, WholeInv, [Next]_vars, NEW q \in Procs
  PROVE  Whole(q)'
<1>1. TypeOK /\ Whole(q)
  BY DEF IndInv, WholeInv
<1>2. ASSUME pc'[q] = pc[q], job'[q] = job[q],
             Store'[job[q].zone] = Store[job[q].zone]
      PROVE  Whole(q)'
  BY <1>1, <1>2 DEF Whole
<1>3. ASSUME pc'[q] \notin Inside
      PROVE  Whole(q)'
  BY <1>3 DEF Whole, Inside
<1>4. CASE ~(\E p \in Procs : Works(p))
  <2>1. CASE pc'[q] \in Inside
    <3>1. pc'[q] = pc[q] /\ job'[q] = job[q]
      BY <1>1, <1>4, <2>1, ElseKeeps
    <3>2. job[q].zone \in Zones
      BY <2>1, <3>1, JobWorks DEF IndInv, Inside
    <3> QED BY <1>1, <1>2, <1>4, <3>1, <3>2, ElseOther DEF OtherStep
  <2> QED BY <1>3, <2>1
<1>5. ASSUME NEW p \in Procs, Works(p), q # p
      PROVE  Whole(q)'
  <2>1. CASE pc[q] \in Inside
    BY <1>2, <1>5, <2>1, OthersStore
  <2>2. CASE pc[q] \notin Inside
    BY <1>1, <1>3, <1>5, <2>2, WorksKind DEF Working, Others
  <2> QED BY <2>1, <2>2
<1> QED BY <1>1, <1>4, <1>5, WholeWorks
\* The goroutine of a zone leaves it sound.
LEMMA SoundOwn ==
  ASSUME ~PreferIXFR, IndInv, ShownInv, WholeInv, NEW p \in Procs, Works(p),
         NEW z \in Zones, z = job[p].zone
  PROVE  SoundZone(z)'
<1>1. TypeOK /\ SoundZone(z) /\ Whole(p) /\ ReadyAt(p)
  BY DEF IndInv, WholeInv
<1>2. ASSUME State'[z] # "valid"
      PROVE  SoundZone(z)'
  BY <1>2 DEF SoundZone
<1>3. ASSUME State'[z] = State[z], Store'[z] = Store[z],
             HasErrors(Findings'[z]) => HasErrors(Findings[z])
      PROVE  SoundZone(z)'
  BY <1>1, <1>3 DEF SoundZone
<1>4. CASE Probe(p)
  <2>1. UNCHANGED <<State, Store>> /\ detectSkew(z)
    BY <1>4 DEF Probe
  <2>2. NewFinding("SERIAL_SKEW", Apex).code \notin ErrorCodes
    BY DEF NewFinding, ErrorCodes
  <2>3. HasErrors(Findings'[z]) => HasErrors(Findings[z])
    BY <1>1, <2>1, <2>2 DEF detectSkew, HasErrors, TypeOK
  <2> QED BY <1>3, <2>1, <2>3
<1>5. CASE Commit(p)
  <2> SUFFICES ASSUME State'[z] = "valid"
               PROVE  SoundZone(z)'
    BY <1>2
  <2>1. PICK c \in Contents(Store[z]), t \in Nat : job[p].res = Full(c, t)
    BY <1>1, <1>5 DEF Commit, Whole, FullResult
  <2>2. c \in ContentType
    <3>1. Store[z] \in [serial : Serials, torn : BOOLEAN]
      BY <1>1, <1>5, RefreshAssumption DEF Commit, ReadyAt, TypeOK, Serials
    <3> QED BY <3>1, ContentsType
  <2>3. /\ Verdict(job[p].res) = "valid" /\ UNCHANGED Store
        /\ job[p].res.mode = "full" => Findings'[z] = job[p].res.found
    BY <1>1, <1>5 DEF Commit, setState, TypeOK
  <2>4. /\ job[p].res.mode = "full" /\ ~HasErrors(job[p].res.found)
        /\ Clean(c)
    BY <2>1, <2>2, <2>3, FullSound
  <2>5. ~Store[z].torn => c = Content[Store[z].serial]
    BY <2>1 DEF Contents
  <2> QED BY <2>3, <2>4, <2>5 DEF SoundZone
<1>6. CASE Unchanged(p)
  <2>1. State'[z] = State[z] /\ UNCHANGED <<Store, Findings>>
    BY <1>1, <1>6, DecideKeeps DEF Unchanged, TypeOK
  <2> QED BY <1>3, <2>1
<1>7. CASE \/ NoServer(p) \/ BeginTransfer(p) \/ TransferFails(p) \/ Install(p)
           \/ ApplyFails(p)
  <2>1. State'[z] # "valid"
    BY <1>1, <1>7 DEF NoServer, BeginTransfer, TransferFails, Install, ApplyFails,
                      setState, TypeOK
  <2> QED BY <1>2, <2>1
<1>8. CASE Merge(p)
  BY <1>1, <1>8 DEF Merge, Whole
<1>9. CASE \/ ReverifyZONEMD(p) \/ TransferWhole(p) \/ TransferIncremental(p)
           \/ VerifyFull(p) \/ VerifyIncremental(p) \/ Publish(p)
  <2>1. UNCHANGED <<State, Store, Findings>>
    BY <1>9, TransferIncrementalFrame
    DEF ReverifyZONEMD, TransferWhole, VerifyFull, VerifyIncremental, Publish
  <2> QED BY <1>3, <2>1
<1> QED BY <1>4, <1>5, <1>6, <1>7, <1>8, <1>9 DEF Works

\* Every step leaves every zone sound.
LEMMA SoundStep ==
  ASSUME ~PreferIXFR, IndInv, ShownInv, WholeInv, [Next]_vars, NEW z \in Zones
  PROVE  SoundZone(z)'
<1>1. TypeOK /\ SoundZone(z)
  BY DEF IndInv, WholeInv
<1>2. ASSUME NEW p \in Procs, Works(p), z # job[p].zone
      PROVE  SoundZone(z)'
  <2>1. Kept(z) /\ Rests(z) /\ Findings'[z] = Findings[z]
    BY <1>2, WorksOther
  <2> QED BY <1>1, <2>1 DEF Kept, Rests, SoundZone
<1>3. CASE ~(\E p \in Procs : Works(p))
  <2>1. OtherStep(z)
    BY <1>1, <1>3, ElseOther
  <2>2. State[z] \in BusyStates => Refreshing[z]
    BY DEF IndInv, GateHeldByOne, Holds, LockSteps, SlotSteps, ShownInv,
           BusyHeld, BusyStates, In, Transferring, Verifying
  <2>3. State'[z] = "valid" => State[z] = "valid"
    BY <2>1, <2>2 DEF OtherStep, Kept
  <2>4. State'[z] = "valid" /\ ~HasErrors(Findings[z]) => ~HasErrors(Findings'[z])
    BY <1>1, <1>3, ElseFindings
  <2> QED BY <1>1, <2>1, <2>3, <2>4 DEF OtherStep, SoundZone
<1> QED BY <1>2, <1>3, SoundOwn

\* Without incremental transfers the goroutines work on whole zones and the
\* zones are sound.
THEOREM WholeInvariance ==
  ASSUME ~PreferIXFR
  PROVE  Spec => []WholeInv
<1>1. Init => WholeInv
  BY DEF Init, WholeInv, Whole, SoundZone
<1>2. IndInv /\ ShownInv /\ WholeInv /\ [Next]_vars => WholeInv'
  BY WholeStep, SoundStep DEF WholeInv
<1> QED BY <1>1, <1>2, Invariance, ShownInvariance, PTL DEF Spec

\* With prefer_ixfr off, a zone shown valid has no open error finding, whichever
\* of the refresh, the sweep and the chain checker reported last.
THEOREM NoErrorWhenValid ==
  ASSUME ~PreferIXFR
  PROVE  Spec => []ValidHasNoErrors
<1>1. WholeInv => ValidHasNoErrors
  BY DEF WholeInv, SoundZone, ValidHasNoErrors
<1> QED BY <1>1, WholeInvariance, PTL

\* With prefer_ixfr off, a zone shown valid does not hold a version whose ZONEMD
\* digest is wrong, unless verification.zonemd is off.
THEOREM NoMismatchWhenValid ==
  ASSUME ~PreferIXFR
  PROVE  Spec => []ZONEMDMismatchNotValid
<1>1. WholeInv => ZONEMDMismatchNotValid
  BY DEF WholeInv, SoundZone, Clean, ZONEMDMismatchNotValid
<1> QED BY <1>1, WholeInvariance, PTL

-----------------------------------------------------------------------------
(***************************************************************************)
(* Incremental transfers and passes, for zones whose refreshes never go to  *)
(* a server that is behind the store, either because a zone has one server  *)
(* or because its servers stay reachable.                                   *)
(***************************************************************************)

(* The server transferred from is not behind the store *)

\* The probe has the same servers to choose from every time.
SameServers == NumServers = 1 \/ ~ServersMayFail

\* Server s, which the probe may choose, holds version n or a later one.
Ahead(z, s, n) ==
  /\ s \in Servers
  /\ n <= serial[z][s]
  /\ ProbeAllServers \/ s = 1

\* Nothing was probed yet.
Fresh(p) == pc[p] \in {"start", "slot", "probe"} => job[p].server = 0

Ordered(p) ==
  LET z == job[p].zone
      s == job[p].server
  IN
  /\ pc[p] \in {"decide", "transfer", "install"} /\ s # 0 =>
       Ahead(z, s, job[p].best) /\ job[p].old <= job[p].best
  /\ pc[p] = "transfer" =>
       s # 0 /\ (job[p].old = 0 \/ job[p].old < job[p].best \/ job[p].full)
  /\ pc[p] = "install" =>
       s # 0 /\ job[p].old <= job[p].got /\ Ahead(z, s, job[p].got)

Sourced(z) == \E s \in Servers : Ahead(z, s, Store[z].serial)

OrderInv ==
  /\ ~ServersMayFail => \A z \in Zones : AllUp(z)
  /\ \A z \in Zones : Sourced(z)
  /\ \A p \in Procs : Fresh(p) /\ Ordered(p)

\* Servers only move forward, and do not go away where they may not.
LEMMA ServersStep ==
  ASSUME TypeOK, [Next]_vars
  PROVE  /\ \A z \in Zones, s \in Servers :
              /\ serial'[z][s] \in Nat /\ serial[z][s] \in Nat
              /\ serial[z][s] <= serial'[z][s]
         /\ ~ServersMayFail => UNCHANGED up
<1>0. \A z \in Zones, s \in Servers : serial[z][s] \in Nat
  BY RefreshAssumption DEF TypeOK, Serials
<1>1. ASSUME NEW p \in Procs, Refresh(p) \/ AcquireSlot(p)
      PROVE  UNCHANGED <<serial, up>>
  <2>1. CASE TransferIncremental(p)
    BY <2>1, TransferIncrementalFrame
  <2>2. CASE ~TransferIncremental(p)
    BY <1>1, <2>2
    DEF Refresh, TryLockRefresh, AcquireSlot, ReleaseSlot, UnlockRefresh, Probe,
        NoServer, Unchanged, ReverifyZONEMD, BeginTransfer, TransferFails,
        TransferWhole, Install, ApplyFails, VerifyFull, VerifyIncremental,
        Merge, Commit, Publish
  <2> QED BY <2>1, <2>2
<1>2. ASSUME NEW z \in Zones,
             \/ Boot(z) \/ Tick(z) \/ Sweep(z) \/ ChainLookup(z) \/ ChainAnswer(z)
             \/ \E full \in BOOLEAN : RequestRefresh(z, full)
      PROVE  UNCHANGED <<serial, up>>
  BY <1>2 DEF Boot, Tick, Sweep, ChainLookup, ChainAnswer, RequestRefresh
<1>3. ASSUME NEW y \in Zones, NEW t \in Servers, NewVersion(y, t)
      PROVE  /\ UNCHANGED up
             /\ \A z \in Zones, s \in Servers :
                  serial'[z][s] = serial[z][s] \/ serial'[z][s] = serial[z][s] + 1
  <2>1. serial' = [serial EXCEPT ![y][t] = serial[y][t] + 1]
    BY <1>3 DEF NewVersion
  <2> QED BY <1>3, <2>1 DEF NewVersion, TypeOK
<1>4. ASSUME NEW y \in Zones, NEW t \in Servers, ServerUpDown(y, t)
      PROVE  ServersMayFail /\ UNCHANGED serial
  BY <1>4 DEF ServerUpDown
<1>5. ASSUME \/ UNCHANGED vars \/ ClockTicks
             \/ \E z \in Zones : \/ RefreshComesDue(z) \/ ExpirePasses(z)
                                 \/ ZONEMDAges(z) \/ SkewAges(z)
      PROVE  UNCHANGED <<serial, up>>
  BY <1>5 DEF ClockTicks, RefreshComesDue, ExpirePasses, ZONEMDAges, SkewAges
<1>6. CASE UNCHANGED <<serial, up>>
  BY <1>0, <1>6
<1>7. CASE \E y \in Zones, t \in Servers : NewVersion(y, t)
  BY <1>0, <1>3, <1>7
<1>8. CASE \E y \in Zones, t \in Servers : ServerUpDown(y, t)
  BY <1>0, <1>4, <1>8
<1> QED BY <1>1, <1>2, <1>5, <1>6, <1>7, <1>8 DEF Next, Environment

\* The server the probe settles on is not behind one it could have chosen.
LEMMA BestAhead ==
  ASSUME SameServers, TypeOK, NEW z \in Zones, ~ServersMayFail => AllUp(z),
         NEW t \in Servers, NEW n \in Nat, Ahead(z, t, n),
         NEW s \in Servers, IsBest(z, s)
  PROVE  Ahead(z, s, n)
<1>1. \A r \in Servers : serial[z][r] \in Nat /\ r \in 1..NumServers
  BY RefreshAssumption DEF TypeOK, Serials, Servers
<1>2. CASE NumServers = 1
  BY <1>1, <1>2 DEF Ahead
<1>3. CASE AllUp(z) /\ ProbeAllServers
  <2>1. t \in Answering(z)
    BY <1>3 DEF AllUp, Answering
  <2> QED BY <1>1, <1>3, <2>1 DEF IsBest, Ahead
<1>4. CASE AllUp(z) /\ ~ProbeAllServers
  <2>1. 1 \in Servers
    BY RefreshAssumption DEF Servers
  <2>2. s <= 1
    BY <1>4, <2>1 DEF IsBest, Answering, AllUp
  <2>3. s = 1 /\ t = 1
    BY <1>1, <1>4, <2>2 DEF Ahead
  <2> QED BY <2>3 DEF Ahead
<1> QED BY <1>2, <1>3, <1>4 DEF SameServers

\* A server that is ahead stays ahead.
LEMMA AheadStays ==
  ASSUME TypeOK, [Next]_vars, NEW z \in Zones, NEW s, NEW n \in Nat,
         Ahead(z, s, n)
  PROVE  Ahead(z, s, n)'
<1>1. s \in Servers /\ n <= serial[z][s]
  BY DEF Ahead
<1>2. n <= serial'[z][s]
  BY <1>1, ServersStep
<1> QED BY <1>1, <1>2 DEF Ahead

\* A goroutine's job is new until it has probed.
LEMMA FreshStep ==
  ASSUME IndInv, [Next]_vars, NEW q \in Procs, Fresh(q)
  PROVE  Fresh(q)'
<1>1. TypeOK
  BY DEF IndInv
<1>2. ASSUME pc'[q] = pc[q], job'[q] = job[q]
      PROVE  Fresh(q)'
  BY <1>2 DEF Fresh
<1>3. ASSUME NEW p \in Procs, Works(p)
      PROVE  Fresh(q)'
  <2>1. CASE q = p
    <3>1. job[p].zone \in Zones
      BY <1>1, <1>3, WorksKind, JobWorks DEF IndInv, Working, SlotSteps
    <3>2. OwnStep(p, job[p].zone)
      BY <1>3, <3>1, WorksOwn
    <3> QED BY <2>1, <3>2 DEF OwnStep, From, Fresh
  <2>2. CASE q # p
    BY <1>1, <1>2, <1>3, <2>2, WorksKind DEF Working, Others
  <2> QED BY <2>1, <2>2
<1>4. ASSUME NEW p \in Procs, Edges(p)
      PROVE  Fresh(q)'
  <2>1. CASE q # p
    BY <1>1, <1>2, <1>4, <2>1, EdgeKind
    DEF GivingUp, Locking, Entering, Leaving, Unlocking, Others
  <2>2. CASE q = p /\ AcquireSlot(p)
    <3>1. job'[p].server = job[p].server /\ pc[p] = "slot"
      BY <1>1, <2>2 DEF AcquireSlot, TypeOK, Job
    <3> QED BY <2>2, <3>1 DEF Fresh
  <2>3. CASE q = p /\ ~AcquireSlot(p)
    BY <1>1, <1>4, <2>3 DEF Edges, TryLockRefresh, ReleaseSlot, UnlockRefresh, GoTo,
                      TypeOK, Fresh, Idle
  <2> QED BY <2>1, <2>2, <2>3
<1>5. ASSUME NEW y \in Zones, NEW full, Spawn(y, full)
      PROVE  Fresh(q)'
  <2>1. PICK p \in Procs : /\ GoTo(p, "start")
                           /\ job' = [job EXCEPT ![p] =
                                       [Idle EXCEPT !.zone = y, !.full = full]]
    BY <1>5 DEF Spawn
  <2>2. [Idle EXCEPT !.zone = y, !.full = full].server = 0
    BY DEF Idle
  <2>3. CASE q = p
    BY <1>1, <2>1, <2>2, <2>3 DEF TypeOK, Fresh
  <2>4. CASE q # p
    BY <1>1, <1>2, <2>1, <2>4 DEF TypeOK, GoTo
  <2> QED BY <2>3, <2>4
<1>6. ASSUME NEW y \in Zones,
             Boot(y) \/ Tick(y) \/ \E full \in BOOLEAN : RequestRefresh(y, full)
      PROVE  Fresh(q)'
  BY <1>2, <1>5, <1>6 DEF Boot, Tick, RequestRefresh
<1>7. ASSUME \/ UNCHANGED vars \/ Environment
             \/ \E y \in Zones : Sweep(y) \/ ChainLookup(y) \/ ChainAnswer(y)
      PROVE  UNCHANGED <<pc, job>>
  BY <1>7 DEF Sweep, ChainLookup, ChainAnswer, Environment, NewVersion,
              ServerUpDown, RefreshComesDue, ExpirePasses, ZONEMDAges,
              SkewAges, ClockTicks
<1> QED BY <1>2, <1>3, <1>4, <1>6, <1>7 DEF Next, Refresh, Works, Edges

\* The job of a goroutine at work has numbers where numbers are compared.
LEMMA JobNumbers ==
  ASSUME NEW j \in Job
  PROVE  j.old \in Nat /\ j.best \in Nat /\ j.got \in Nat /\ j.full \in BOOLEAN
BY RefreshAssumption DEF Job

\* The changes of an incremental answer that is ahead of the serial asked for.
Changes(p, a, s, T, k) ==
  /\ Content[a].signed # Content[s].signed => k
  /\ job' = [job EXCEPT ![p].method = "ixfr", ![p].got = s,
                        ![p].touched = T, ![p].dnskey = k]

\* What an incremental answer is, by how the server compares with the store.
LEMMA IncrementalAnswer ==
  ASSUME NEW p \in Procs, TransferIncremental(p),
         job[p].old \in Nat, serial[job[p].zone][job[p].server] \in Nat,
         job[p].old < serial[job[p].zone][job[p].server]
  PROVE  /\ ~job[p].full
         /\ \E T \in TouchedSets(job[p].old, serial[job[p].zone][job[p].server]),
               k \in BOOLEAN :
              Changes(p, job[p].old, serial[job[p].zone][job[p].server], T, k)
<1> DEFINE a == job[p].old
           s == serial[job[p].zone][job[p].server]
<1>1. ~(s <= a)
  OBVIOUS
<1>2. /\ ~job[p].full
      /\ \/ s <= a
         \/ \E T \in TouchedSets(a, s), k \in BOOLEAN : Changes(p, a, s, T, k)
  BY Zenon DEF TransferIncremental, Changes
<1> QED BY <1>1, <1>2, Zenon

\* A refresh asks a server that is not behind the store, for a version that is
\* not behind it either.
LEMMA OrderedWorks ==
  ASSUME SameServers, IndInv, OrderInv, NEW p \in Procs, Works(p)
  PROVE  Ordered(p)'
<1> DEFINE z == job[p].zone
<1>1. pc[p] \in SlotSteps
  BY WorksKind DEF IndInv, Working
<1>2. job[p] \in Job /\ z \in Zones
  BY <1>1, JobWorks DEF IndInv, SlotSteps
<1>3. /\ TypeOK /\ ReadyAt(p) /\ Fresh(p) /\ Ordered(p) /\ Sourced(z)
      /\ ~ServersMayFail => AllUp(z)
      /\ Store[z].serial \in Nat
  BY <1>2, RefreshAssumption DEF IndInv, OrderInv, TypeOK
<1>4. job[p].old \in Nat /\ job[p].best \in Nat /\ job[p].got \in Nat
  BY <1>2, JobNumbers
<1>5. \A s \in Servers : serial[z][s] \in Nat
  BY <1>2, <1>3, RefreshAssumption DEF TypeOK, Serials
<1>6. CASE Probe(p)
  <2>1. pc[p] = "probe" /\ pc'[p] = "decide" /\ UNCHANGED serial
    BY <1>3, <1>6 DEF Probe, GoTo, TypeOK
  <2>2. CASE UNCHANGED job
    BY <1>3, <2>1, <2>2 DEF Fresh, Ordered
  <2>3. ASSUME NEW s \in Servers, IsBest(z, s),
               job' = [job EXCEPT ![p].server = s, ![p].best = serial[z][s]]
        PROVE  Ordered(p)'
    <3>1. PICK t \in Servers : Ahead(z, t, Store[z].serial)
      BY <1>3 DEF Sourced
    <3>2. Ahead(z, s, Store[z].serial)
      BY <1>2, <1>3, <2>3, <3>1, BestAhead
    <3>3. /\ job'[p].zone = z /\ job'[p].server = s
          /\ job'[p].best = serial[z][s] /\ job'[p].old = Store[z].serial
      BY <1>2, <1>3, <2>1, <2>3 DEF TypeOK, Job, ReadyAt
    <3>4. serial'[z][s] = serial[z][s] /\ serial[z][s] \in Nat
      BY <1>5, <2>1
    <3> HIDE DEF z
    <3> QED BY <2>1, <3>2, <3>3, <3>4 DEF Ordered, Ahead
  <2> QED BY <1>6, <2>2, <2>3 DEF Probe
<1>7. CASE BeginTransfer(p)
  <2>1. /\ pc[p] = "decide" /\ pc'[p] = "transfer" /\ UNCHANGED <<serial, job>>
        /\ job[p].server # 0 /\ ~IsUnchanged(p)
    BY <1>3, <1>7 DEF BeginTransfer, GoTo, TypeOK
  <2>2. /\ Ahead(z, job[p].server, job[p].best) /\ job[p].old <= job[p].best
        /\ job[p].old = 0 \/ job[p].old # job[p].best \/ job[p].full
    BY <1>3, <2>1 DEF Ordered, IsUnchanged
  <2> QED BY <1>4, <2>1, <2>2 DEF Ordered, Ahead
<1>8. CASE TransferWhole(p)
  <2>1. /\ pc[p] = "transfer" /\ pc'[p] = "install" /\ UNCHANGED serial
        /\ job' = [job EXCEPT ![p].method = "axfr",
                              ![p].got = serial[z][job[p].server]]
    BY <1>3, <1>8 DEF TransferWhole, GoTo, TypeOK
  <2>2. /\ job'[p].zone = z /\ job'[p].server = job[p].server
        /\ job'[p].best = job[p].best /\ job'[p].old = job[p].old
        /\ job'[p].got = serial[z][job[p].server]
    BY <1>2, <1>3, <2>1 DEF TypeOK, Job
  <2>3. /\ job[p].server # 0 /\ job[p].old <= job[p].best
        /\ Ahead(z, job[p].server, job[p].best)
    BY <1>3, <2>1 DEF Ordered
  <2> HIDE DEF z
  <2> QED BY <1>4, <1>5, <2>1, <2>2, <2>3 DEF Ordered, Ahead
<1>9. CASE TransferIncremental(p)
  <2> DEFINE a == job[p].old
             s == serial[z][job[p].server]
  <2>0. ~job[p].full
    BY <1>9, Zenon DEF TransferIncremental
  <2>1. /\ pc[p] = "transfer" /\ pc'[p] = "install" /\ UNCHANGED serial
        /\ a # 0
    BY <1>3, <1>9, TransferIncrementalFrame DEF TypeOK
  <2>2. /\ job[p].server # 0 /\ a < job[p].best
        /\ Ahead(z, job[p].server, job[p].best)
    BY <1>3, <1>4, <2>0, <2>1 DEF Ordered
  <2>3. job[p].server \in Servers /\ a < s
    BY <1>4, <1>5, <2>2 DEF Ahead
  <2>4. PICK T \in TouchedSets(a, s), k \in BOOLEAN : Changes(p, a, s, T, k)
    BY <1>4, <1>5, <1>9, <2>3, IncrementalAnswer
  <2>5. /\ job'[p].zone = z /\ job'[p].server = job[p].server
        /\ job'[p].best = job[p].best /\ job'[p].old = a
        /\ job'[p].got = s
    BY <1>2, <1>3, <2>4 DEF Changes, TypeOK, Job
  <2> HIDE DEF z
  <2> QED BY <1>4, <1>5, <2>1, <2>2, <2>3, <2>5 DEF Ordered, Ahead
<1>10. CASE \/ NoServer(p) \/ Unchanged(p) \/ ReverifyZONEMD(p)
            \/ TransferFails(p) \/ Install(p) \/ ApplyFails(p) \/ VerifyFull(p)
            \/ VerifyIncremental(p) \/ Merge(p) \/ Commit(p) \/ Publish(p)
  <2>1. pc'[p] \notin {"decide", "transfer", "install"}
    BY <1>3, <1>10
    DEF NoServer, Unchanged, ReverifyZONEMD, TransferFails, Install, ApplyFails,
        VerifyFull, VerifyIncremental, Merge, Commit, Publish, GoTo, TypeOK
  <2> QED BY <2>1 DEF Ordered
<1> QED BY <1>6, <1>7, <1>8, <1>9, <1>10 DEF Works

\* What a refresh does to the store of its zone: nothing, or it moves it to a
\* version its server holds, no earlier than the one it had.
LEMMA StoreMoves ==
  ASSUME IndInv, OrderInv, NEW p \in Procs, Works(p), NEW z \in Zones,
         z = job[p].zone
  PROVE  \/ Store'[z] = Store[z]
         \/ Store'[z].serial = Store[z].serial
         \/ /\ Store'[z].serial = job[p].got
            /\ Store[z].serial <= job[p].got
            /\ Ahead(z, job[p].server, job[p].got)
<1>1. TypeOK /\ ReadyAt(p) /\ Ordered(p)
  BY DEF IndInv, OrderInv
<1>2. CASE Install(p) \/ ApplyFails(p)
  <2>1. /\ pc[p] = "install"
        /\ Store'[z].serial \in {job[p].old, job[p].got}
    BY <1>1, <1>2 DEF Install, ApplyFails, TypeOK
  <2>2. /\ job[p].old = Store[z].serial /\ job[p].old <= job[p].got
        /\ Ahead(z, job[p].server, job[p].got)
    BY <1>1, <2>1 DEF ReadyAt, Ordered
  <2> QED BY <2>1, <2>2
<1>3. CASE TransferIncremental(p)
  BY <1>3, TransferIncrementalFrame
<1>4. CASE ~(Install(p) \/ ApplyFails(p) \/ TransferIncremental(p))
  <2>1. UNCHANGED Store
    BY <1>4 DEF Works, Probe, NoServer, Unchanged, ReverifyZONEMD, BeginTransfer,
                TransferFails, TransferWhole, VerifyFull, VerifyIncremental,
                Merge, Commit, Publish
  <2> QED BY <2>1
<1> QED BY <1>2, <1>3, <1>4

\* Every step leaves some server that may be chosen at the store's version or
\* past it.
LEMMA SourcedStep ==
  ASSUME IndInv, OrderInv, [Next]_vars, NEW z \in Zones
  PROVE  Sourced(z)'
<1>1. /\ TypeOK /\ Sourced(z) /\ Store[z].serial \in Nat
  BY RefreshAssumption DEF IndInv, OrderInv, TypeOK
<1>2. ASSUME NEW n \in Nat, NEW s, Ahead(z, s, n), Store'[z].serial = n
      PROVE  Sourced(z)'
  <2>1. Ahead(z, s, n)' /\ s \in Servers
    BY <1>1, <1>2, AheadStays DEF Ahead
  <2> QED BY <1>2, <2>1 DEF Sourced, Ahead
<1>3. CASE Store'[z].serial = Store[z].serial
  BY <1>1, <1>2, <1>3 DEF Sourced
<1>4. ASSUME NEW p \in Procs, Works(p), z = job[p].zone
      PROVE  Sourced(z)'
  <2>1. job[p] \in Job
    BY <1>1, <1>4, WorksKind, JobWorks DEF IndInv, Working, SlotSteps
  <2> QED BY <1>2, <1>3, <1>4, <2>1, StoreMoves, JobNumbers
<1>5. ASSUME NEW p \in Procs, Works(p), z # job[p].zone
      PROVE  Sourced(z)'
  BY <1>3, <1>5, StoreFrame
<1>6. CASE ~(\E p \in Procs : Works(p))
  BY <1>1, <1>3, <1>6, ElseOther DEF OtherStep
<1> QED BY <1>4, <1>5, <1>6

\* Every step keeps the goroutines' servers ahead.
LEMMA OrderedStep ==
  ASSUME SameServers, IndInv, OrderInv, [Next]_vars, NEW q \in Procs
  PROVE  Ordered(q)'
<1>1. TypeOK /\ Ordered(q)
  BY DEF IndInv, OrderInv
<1>2. ASSUME pc[q] \in Inside, pc'[q] = pc[q], job'[q] = job[q]
      PROVE  Ordered(q)'
  <2>1. job[q] \in Job /\ job[q].zone \in Zones
    BY <1>1, <1>2, JobWorks DEF IndInv, Inside
  <2>2. \A n \in Nat : Ahead(job[q].zone, job[q].server, n) =>
                         job[q].server \in Servers
                           /\ n <= serial'[job[q].zone][job[q].server]
    <3> SUFFICES ASSUME NEW n \in Nat, Ahead(job[q].zone, job[q].server, n)
                 PROVE  job[q].server \in Servers
                          /\ n <= serial'[job[q].zone][job[q].server]
      OBVIOUS
    <3>1. /\ job[q].server \in Servers
          /\ n <= serial[job[q].zone][job[q].server]
      BY DEF Ahead
    <3> QED BY <1>1, <2>1, <3>1, ServersStep
  <2> QED BY <1>1, <1>2, <2>1, <2>2, JobNumbers DEF Ordered, Ahead
<1>3. ASSUME pc'[q] \notin Inside
      PROVE  Ordered(q)'
  BY <1>3 DEF Ordered, Inside
<1>4. CASE ~(\E p \in Procs : Works(p))
  BY <1>1, <1>2, <1>3, <1>4, ElseKeeps
<1>5. ASSUME NEW p \in Procs, Works(p), q # p
      PROVE  Ordered(q)'
  <2>1. pc'[q] = pc[q] /\ job'[q] = job[q]
    BY <1>1, <1>5, WorksKind DEF Working, Others
  <2> QED BY <1>2, <1>3, <2>1
<1> QED BY <1>4, <1>5, OrderedWorks

\* The server a refresh uses is never behind what the zone holds, when the probe
\* has the same servers to choose from every time.
THEOREM OrderInvariance ==
  ASSUME SameServers
  PROVE  Spec => []OrderInv
<1>1. Init => OrderInv
  <2> SUFFICES ASSUME Init
               PROVE  OrderInv
    OBVIOUS
  <2>1. \A z \in Zones : AllUp(z)
    BY DEF Init, AllUp
  <2>2. ASSUME NEW z \in Zones
        PROVE  Sourced(z)
    <3>1. TypeOK
      BY IndInvInit DEF IndInv
    <3>2. 1 \in Servers /\ Store[z].serial \in Nat
      BY <3>1, RefreshAssumption DEF TypeOK, Servers
    <3>3. serial[z][1] = IF Store[z].serial = 0 THEN 1 ELSE Store[z].serial
      BY <3>2 DEF Init, FirstSerial
    <3> QED BY <3>2, <3>3 DEF Sourced, Ahead
  <2>3. ASSUME NEW p \in Procs
        PROVE  Fresh(p) /\ Ordered(p)
    BY DEF Init, Fresh, Ordered
  <2> QED BY <2>1, <2>2, <2>3 DEF OrderInv
<1>2. IndInv /\ OrderInv /\ [Next]_vars => OrderInv'
  <2> SUFFICES ASSUME IndInv, OrderInv, [Next]_vars
               PROVE  OrderInv'
    OBVIOUS
  <2>1. (~ServersMayFail => \A z \in Zones : AllUp(z))'
    BY ServersStep DEF IndInv, OrderInv, AllUp
  <2> QED BY <2>1, SourcedStep, OrderedStep, FreshStep DEF OrderInv
<1> QED BY <1>1, <1>2, Invariance, PTL DEF Spec

\* A refresh never replaces a zone by an older version: by the time the transfer
\* answers, its server holds what it was probed at or later.  A zone of several
\* servers needs them to stay reachable, which is what AllUp says of the present
\* and the hypothesis of the time since the probe.
THEOREM NeverBackwards ==
  ASSUME SameServers
  PROVE  Spec => NoRegression
<1>1. IndInv /\ OrderInv /\ [Next]_vars =>
        [\A z \in Zones : AllUp(z) => Store'[z].serial >= Store[z].serial]_vars
  <2> SUFFICES ASSUME IndInv, OrderInv, [Next]_vars, NEW z \in Zones
               PROVE  Store'[z].serial >= Store[z].serial
    OBVIOUS
  <2>1. TypeOK /\ Store[z].serial \in Nat
    BY RefreshAssumption DEF IndInv, TypeOK
  <2>2. ASSUME NEW p \in Procs, Works(p), z = job[p].zone
        PROVE  Store'[z].serial >= Store[z].serial
    <3>1. job[p] \in Job
      BY <2>1, <2>2, WorksKind, JobWorks DEF IndInv, Working, SlotSteps
    <3> QED BY <2>1, <2>2, <3>1, StoreMoves, JobNumbers
  <2>3. ASSUME NEW p \in Procs, Works(p), z # job[p].zone
        PROVE  Store'[z].serial >= Store[z].serial
    BY <2>1, <2>3, StoreFrame
  <2>4. CASE ~(\E p \in Procs : Works(p))
    BY <2>1, <2>4, ElseOther DEF OtherStep
  <2> QED BY <2>2, <2>3, <2>4
<1> QED BY <1>1, Invariance, OrderInvariance, PTL DEF Spec, NoRegression
-----------------------------------------------------------------------------
(* Incremental passes look at the touched names only, and miss nothing *)

\* Owners of store st with an RRset that fails.
Broken(st) == {o \in Content[st.serial].bad : ~st.torn /\ Content[st.serial].signed}

\* The findings F report every owner of O.
Covers(F, O) == \A o \in O : NewFinding("RRSIG_INVALID", o) \in F

\* An incremental answer names what differs from the version asked for.
Carried(j) ==
  j.method = "ixfr" =>
    /\ j.old # 0
    /\ j.touched \in TouchedSets(j.old, j.got)
    /\ ~j.dnskey => Content[j.old].signed = Content[j.got].signed

\* What an incremental pass will not look at is reported already.
Left(j, st, F) ==
  j.method = "ixfr" /\ ~j.dnskey =>
    j.touched # {} /\ Covers(F, Broken(st) \ j.touched)

\* The result of a pass over store st.
Judged(st, res) ==
  /\ Covers(res.found, Broken(st))
  /\ Verdict(res) = "valid" =>
       /\ ~HasErrors(res.found)
       /\ ~st.torn => Content[st.serial].signed

Cover(p) ==
  LET z == job[p].zone IN
  /\ pc[p] \in {"install", "verify"} => job[p].method \in {"axfr", "ixfr"}
  /\ pc[p] = "install" => Carried(job[p])
  /\ pc[p] = "verify" => Left(job[p], Store[z], Findings[z])
  /\ pc[p] \in {"merge", "commit"} => Judged(Store[z], job[p].res)
  /\ pc[p] = "commit" /\ job[p].res.mode # "full" =>
       Covers(Findings[z], Broken(Store[z]))

\* Between two passes the findings report every owner that fails.
CoveredZone(z) ==
  Store[z].serial # 0 /\ ~In(z, Verifying) =>
    Covers(Findings[z], Broken(Store[z]))

TrueZone(z) ==
  State[z] = "valid" /\ ~Store[z].torn =>
    /\ Content[Store[z].serial].signed
    /\ Content[Store[z].serial].bad = {}

CoverInv ==
  /\ \A p \in Procs : Cover(p)
  /\ \A z \in Zones : CoveredZone(z) /\ TrueZone(z)

\* A full pass reports every owner that fails.
LEMMA FullJudges ==
  ASSUME NEW st \in [serial : Serials, torn : BOOLEAN], NEW c \in Contents(st),
         NEW t \in Nat
  PROVE  Judged(st, Full(c, t)) /\ Full(c, t).mode = "full"
<1>1. c \in ContentType
  BY ContentsType
<1>2. ~st.torn => c = Content[st.serial]
  BY DEF Contents
<1>3. c.signed = Content[st.serial].signed
  BY RefreshAssumption DEF Contents, ContentType
<1>4. Full(c, t).mode = "full"
  BY DEF Full, NoResult
<1>5. ASSUME NEW o \in Broken(st)
      PROVE  NewFinding("RRSIG_INVALID", o) \in Full(c, t).found
  <2>1. c.signed /\ o \in c.bad /\ o \in Owners
    BY <1>1, <1>2 DEF Broken, ContentType
  <2>2. NewFinding("RRSIG_INVALID", o) \in verifyNode(c, o, t)
    BY <2>1 DEF verifyNode
  <2>3. NewFinding("RRSIG_INVALID", o) \in verifyNodes(c, Owners, t)
    BY <2>1, <2>2 DEF verifyNodes
  <2>4. Full(c, t).found = verifyNodes(c, Owners, t) \cup verifyZONEMD(c)
    BY <2>1 DEF Full
  <2> QED BY <2>3, <2>4
<1>6. Verdict(Full(c, t)) = "valid" =>
        ~HasErrors(Full(c, t).found) /\ c.signed
  BY <1>1, FullSound DEF Clean
<1> QED BY <1>2, <1>4, <1>5, <1>6 DEF Judged, Covers

\* So does an incremental pass, when what it does not look at is reported.
LEMMA IncrementalJudges ==
  ASSUME NEW st \in [serial : Serials, torn : BOOLEAN], NEW c \in Contents(st),
         NEW t \in Nat, NEW F, NEW T \in SUBSET Owners, T # {},
         Covers(F, Broken(st) \ T)
  PROVE  /\ Judged(st, Incremental(c, t, F, T))
         /\ Incremental(c, t, F, T).mode = "incremental"
<1> DEFINE res == Incremental(c, t, F, T)
<1>1. c \in ContentType
  BY ContentsType
<1>2. ~st.torn => c = Content[st.serial]
  BY DEF Contents
<1>3. res.mode = "incremental" /\ res.unsigned = ~c.signed
  BY DEF Incremental
<1>4. c.signed => res.found = MergeReplace(F, verifyNodes(c, T, t), T)
  BY DEF Incremental
<1>5. c.signed => res.valid = ~HasErrors(res.found)
  BY <1>4, Zenon DEF Incremental
<1>6. ASSUME NEW o \in Broken(st)
      PROVE  NewFinding("RRSIG_INVALID", o) \in res.found
  <2>1. c.signed /\ o \in c.bad /\ o \in Owners
    BY <1>1, <1>2 DEF Broken, ContentType
  <2>2. CASE o \in T
    <3>1. NewFinding("RRSIG_INVALID", o) \in verifyNode(c, o, t)
      BY <2>1 DEF verifyNode
    <3>2. NewFinding("RRSIG_INVALID", o) \in verifyNodes(c, T, t)
      BY <2>2, <3>1 DEF verifyNodes
    <3> QED BY <1>4, <2>1, <3>2 DEF MergeReplace
  <2>3. CASE o \notin T
    <3>1. NewFinding("RRSIG_INVALID", o) \in F
      BY <2>3 DEF Covers
    <3>2. NewFinding("RRSIG_INVALID", o).owner = o
      BY DEF NewFinding
    <3> QED BY <1>4, <2>1, <2>3, <3>1, <3>2 DEF MergeReplace
  <2> QED BY <2>2, <2>3
<1>7. Verdict(res) = "valid" => c.signed /\ res.valid
  <2>1. c.signed \in BOOLEAN
    BY <1>1 DEF ContentType
  <2> HIDE DEF res
  <2> QED BY <1>3, <2>1 DEF Verdict
<1> HIDE DEF res
<1>8. Verdict(res) = "valid" => ~HasErrors(res.found)
  BY <1>5, <1>7, Zenon
<1>9. Judged(st, res)
  BY <1>2, <1>6, <1>7, <1>8 DEF Judged, Covers
<1> QED BY <1>3, <1>9 DEF res
\* What is installed on top of a covered version leaves uncovered only names the
\* pass will look at.
LEMMA CarriedLeft ==
  ASSUME NEW j \in Job, j.old \in Serials, j.got \in Serials, Carried(j),
         NEW st \in [serial : 0..MaxSerial, torn : BOOLEAN], st.serial = j.old,
         NEW F, Covers(F, Broken(st)),
         NEW new, new = [serial |-> j.got, torn |-> st.torn]
  PROVE  Left(j, new, F)
<1> SUFFICES ASSUME j.method = "ixfr", ~j.dnskey
             PROVE  j.touched # {} /\ Covers(F, Broken(new) \ j.touched)
  BY DEF Left
<1>1. /\ Apex \in j.touched /\ Differing(j.old, j.got) \subseteq j.touched
      /\ Content[j.old].signed = Content[j.got].signed
  BY DEF Carried, TouchedSets
<1>2. ASSUME NEW o \in Broken(new), o \notin j.touched
      PROVE  o \in Broken(st)
  <2>1. o \in Content[j.got].bad /\ ~st.torn /\ Content[j.got].signed
    BY <1>2 DEF Broken
  <2>2. o \in Owners
    BY <2>1, RefreshAssumption DEF ContentType
  <2>3. o \in Content[j.old].bad
    BY <1>1, <1>2, <2>1, <2>2 DEF Differing
  <2> QED BY <1>1, <2>1, <2>3 DEF Broken
<1> QED BY <1>1, <1>2 DEF Covers

\* The steps of Refresh keep what a goroutine carries covered.
LEMMA CoverWorks ==
  ASSUME SameServers, IndInv, IndInv', OrderInv, CoverInv, NEW p \in Procs,
         Works(p)
  PROVE  Cover(p)'
<1> DEFINE z == job[p].zone
<1>1. pc[p] \in SlotSteps
  BY WorksKind DEF IndInv, Working
<1>2. job[p] \in Job /\ z \in Zones
  BY <1>1, JobWorks DEF IndInv, SlotSteps
<1>3. /\ TypeOK /\ ReadyAt(p) /\ Ordered(p) /\ Cover(p) /\ CoveredZone(z)
      /\ now \in Nat
      /\ Store[z] \in [serial : 0..MaxSerial, torn : BOOLEAN]
      /\ Store[z].serial # 0 => Store[z] \in [serial : Serials, torn : BOOLEAN]
  BY <1>2, RefreshAssumption DEF IndInv, OrderInv, CoverInv, TypeOK, Serials
<1>4. ASSUME NEW c \in Contents(Store[z]), Store[z].serial # 0,
             UNCHANGED Store, job'[p].zone = z, pc'[p] = "commit",
             job'[p].res = Full(c, now)
      PROVE  Cover(p)'
  <2>1. Judged(Store[z], Full(c, now)) /\ Full(c, now).mode = "full"
    BY <1>3, <1>4, FullJudges
  <2> QED BY <1>4, <2>1 DEF Cover
<1>5. CASE ReverifyZONEMD(p)
  <2>1. PICK c \in Contents(Store[z]) :
          job' = [job EXCEPT ![p].method = "soa", ![p].res = Full(c, now)]
    BY <1>5 DEF ReverifyZONEMD
  <2>2. /\ UNCHANGED Store /\ pc'[p] = "commit"
        /\ job'[p].zone = z /\ job'[p].res = Full(c, now)
    BY <1>2, <1>3, <1>5, <2>1 DEF ReverifyZONEMD, TypeOK, GoTo, Job
  <2>3. Store[z].serial # 0
    BY <1>3, <1>5 DEF ReverifyZONEMD, IsUnchanged, ReadyAt
  <2> QED BY <1>4, <2>2, <2>3
<1>6. CASE VerifyFull(p)
  <2>1. PICK c \in Contents(Store[z]) :
          job' = [job EXCEPT ![p].res = Full(c, now)]
    BY <1>6 DEF VerifyFull
  <2>2. /\ UNCHANGED Store /\ pc'[p] = "commit"
        /\ job'[p].zone = z /\ job'[p].res = Full(c, now)
    BY <1>2, <1>3, <1>6, <2>1 DEF VerifyFull, TypeOK, GoTo, Job
  <2>3. Store[z].serial # 0
    BY <1>3, <1>6 DEF VerifyFull, ReadyAt
  <2> QED BY <1>4, <2>2, <2>3
<1>7. CASE VerifyIncremental(p)
  <2>1. PICK c \in Contents(Store[z]) :
          job' = [job EXCEPT ![p].res =
                    Incremental(c, now, Findings[z], job[p].touched)]
    BY <1>7 DEF VerifyIncremental
  <2>2. /\ UNCHANGED Store /\ pc[p] = "verify" /\ pc'[p] = "merge"
        /\ job'[p].zone = z
        /\ job'[p].res = Incremental(c, now, Findings[z], job[p].touched)
    BY <1>2, <1>3, <1>7, <2>1 DEF VerifyIncremental, TypeOK, GoTo, Job
  <2>3. job[p].method = "ixfr" /\ ~job[p].dnskey
    BY <1>3, <1>7, <2>2 DEF VerifyIncremental, NeedsFull, Cover
  <2>4. /\ job[p].touched # {} /\ job[p].touched \in SUBSET Owners
        /\ Covers(Findings[z], Broken(Store[z]) \ job[p].touched)
        /\ Store[z].serial # 0
    BY <1>2, <1>3, <2>2, <2>3 DEF Cover, Left, ReadyAt, Job
  <2>5. Judged(Store[z], Incremental(c, now, Findings[z], job[p].touched))
    BY <1>3, <2>4, IncrementalJudges
  <2> QED BY <2>2, <2>5 DEF Cover
<1>8. CASE Merge(p)
  <2>1. /\ pc[p] = "merge" /\ pc'[p] = "commit" /\ UNCHANGED <<Store, job>>
        /\ Findings'[z] = job[p].res.found
    BY <1>2, <1>3, <1>8 DEF Merge, GoTo, TypeOK
  <2>2. Judged(Store[z], job[p].res)
    BY <1>3, <2>1 DEF Cover
  <2> QED BY <2>1, <2>2 DEF Cover, Judged
<1>9. CASE TransferWhole(p)
  <2>1. pc'[p] = "install" /\ job'[p].method = "axfr"
    BY <1>2, <1>3, <1>9 DEF TransferWhole, GoTo, TypeOK, Job
  <2> QED BY <2>1 DEF Cover, Carried
<1>10. CASE TransferIncremental(p)
  <2> DEFINE a == job[p].old
             s == serial[z][job[p].server]
  <2>0. ~job[p].full
    BY <1>10, Zenon DEF TransferIncremental
  <2>1. pc[p] = "transfer" /\ pc'[p] = "install" /\ a # 0
    BY <1>3, <1>10, TransferIncrementalFrame DEF TypeOK
  <2>2. a < job[p].best /\ Ahead(z, job[p].server, job[p].best)
    BY <1>2, <1>3, <2>0, <2>1 DEF Ordered
  <2>3. s \in Nat /\ a \in Nat /\ job[p].best \in Nat
    BY <1>2, <1>3, <2>2, JobNumbers, RefreshAssumption DEF Ahead, TypeOK, Serials
  <2>4. a < s
    BY <2>2, <2>3 DEF Ahead
  <2>5. PICK T \in TouchedSets(a, s), k \in BOOLEAN : Changes(p, a, s, T, k)
    BY <1>10, <2>3, <2>4, IncrementalAnswer
  <2>6. /\ job'[p].method = "ixfr" /\ job'[p].old = a /\ job'[p].got = s
        /\ job'[p].touched = T /\ job'[p].dnskey = k
        /\ ~k => Content[a].signed = Content[s].signed
    BY <1>2, <1>3, <2>5 DEF Changes, TypeOK, Job
  <2>7. Carried(job'[p])
    BY <2>1, <2>6 DEF Carried
  <2> QED BY <2>1, <2>6, <2>7 DEF Cover
<1>11. CASE Install(p)
  <2>1. /\ pc[p] = "install" /\ pc'[p] = "verify" /\ UNCHANGED <<job, Findings>>
        /\ Store'[z] = [serial |-> job[p].got,
                        torn |-> Store[z].torn /\ job[p].method = "ixfr"]
    BY <1>2, <1>3, <1>11 DEF Install, GoTo, TypeOK
  <2>2. /\ job[p].method \in {"axfr", "ixfr"} /\ Carried(job[p])
        /\ job[p].old = Store[z].serial
    BY <1>3, <2>1 DEF Cover, ReadyAt
  <2>3. Left(job[p], Store'[z], Findings[z])
    <3>1. CASE job[p].method # "ixfr"
      BY <3>1 DEF Left
    <3>2. CASE job[p].method = "ixfr"
      <4>1. ~In(z, Verifying)
        <5>1. Verifying \in SUBSET LockSteps
          BY DEF Verifying, LockSteps, SlotSteps
        <5>2. In(z, Verifying) <=> pc[p] \in Verifying
          BY <1>2, <5>1, InHolder
        <5> QED BY <2>1, <5>2 DEF Verifying
      <4>2. Covers(Findings[z], Broken(Store[z]))
        BY <1>3, <2>2, <3>2, <4>1 DEF CoveredZone, Carried
      <4>3. job[p].old \in Serials /\ job[p].got \in Serials
        BY <1>2, <1>3, <2>1, <2>2, <3>2, RefreshAssumption
        DEF Carried, Job, Serials, ReadyAt
      <4>4. Store'[z] = [serial |-> job[p].got, torn |-> Store[z].torn]
        BY <1>3, <2>1, <3>2
      <4> QED BY <1>2, <1>3, <2>2, <4>2, <4>3, <4>4, CarriedLeft
    <3> QED BY <3>1, <3>2
  <2> QED BY <2>1, <2>2, <2>3 DEF Cover
<1>12. CASE \/ Probe(p) \/ NoServer(p) \/ Unchanged(p) \/ BeginTransfer(p)
            \/ TransferFails(p) \/ ApplyFails(p) \/ Commit(p) \/ Publish(p)
  <2>1. pc'[p] \in {"decide", "release", "transfer", "publish"}
    BY <1>3, <1>12 DEF Probe, NoServer, Unchanged, BeginTransfer, TransferFails,
                       ApplyFails, Commit, Publish, GoTo, TypeOK
  <2> QED BY <2>1 DEF Cover
<1> QED BY <1>5, <1>6, <1>7, <1>8, <1>9, <1>10, <1>11, <1>12 DEF Works
\* More findings report more.
LEMMA CoversMore ==
  ASSUME NEW F, NEW G, F \subseteq G, NEW O, Covers(F, O)
  PROVE  Covers(G, O)
BY DEF Covers

\* Every step keeps what every goroutine carries covered.
LEMMA CoverStep ==
  ASSUME SameServers, IndInv, IndInv', OrderInv, CoverInv, [Next]_vars,
         NEW q \in Procs
  PROVE  Cover(q)'
<1>1. TypeOK /\ Cover(q)
  BY DEF IndInv, CoverInv
<1>2. ASSUME pc'[q] = pc[q], job'[q] = job[q],
             Store'[job[q].zone] = Store[job[q].zone],
             Findings[job[q].zone] \subseteq Findings'[job[q].zone]
      PROVE  Cover(q)'
  <2> DEFINE z == job[q].zone
  <2>1. pc[q] = "verify" => Left(job[q], Store[z], Findings'[z])
    BY <1>1, <1>2, CoversMore DEF Cover, Left
  <2>2. pc[q] = "commit" /\ job[q].res.mode # "full" =>
          Covers(Findings'[z], Broken(Store[z]))
    BY <1>1, <1>2, CoversMore DEF Cover
  <2> QED BY <1>1, <1>2, <2>1, <2>2 DEF Cover
<1>3. ASSUME pc'[q] \notin Inside
      PROVE  Cover(q)'
  BY <1>3 DEF Cover, Inside
<1>4. CASE ~(\E p \in Procs : Works(p))
  <2>1. CASE pc'[q] \in Inside
    <3>1. pc'[q] = pc[q] /\ job'[q] = job[q]
      BY <1>1, <1>4, <2>1, ElseKeeps
    <3>2. job[q].zone \in Zones
      BY <2>1, <3>1, JobWorks DEF IndInv, Inside
    <3>3. Store'[job[q].zone] = Store[job[q].zone]
      BY <1>1, <1>4, <3>2, ElseOther DEF OtherStep
    <3>4. Findings[job[q].zone] \subseteq Findings'[job[q].zone]
      BY <1>1, <1>4, <3>2, ElseFindings
    <3> QED BY <1>2, <3>1, <3>3, <3>4
  <2> QED BY <1>3, <2>1
<1>5. ASSUME NEW p \in Procs, Works(p), q # p
      PROVE  Cover(q)'
  <2>1. CASE pc[q] \in Inside
    <3>1. /\ pc'[q] = pc[q] /\ job'[q] = job[q] /\ job[q].zone \in Zones
          /\ job[q].zone # job[p].zone
          /\ Store'[job[q].zone] = Store[job[q].zone]
      BY <1>5, <2>1, OthersStore
    <3>2. Findings'[job[q].zone] = Findings[job[q].zone]
      BY <1>5, <3>1, WorksOther
    <3> QED BY <1>2, <3>1, <3>2
  <2>2. CASE pc[q] \notin Inside
    BY <1>1, <1>3, <1>5, <2>2, WorksKind DEF Working, Others
  <2> QED BY <2>1, <2>2
<1> QED BY <1>1, <1>4, <1>5, CoverWorks

\* A zone's own goroutine leaves its findings covering what fails, and its state
\* true, once it has committed.
LEMMA ZoneWorks ==
  ASSUME IndInv, IndInv', ShownInv, CoverInv, NEW p \in Procs, Works(p),
         NEW z \in Zones, z = job[p].zone
  PROVE  (CoveredZone(z) /\ TrueZone(z))'
<1>1. TypeOK /\ CoveredZone(z) /\ TrueZone(z) /\ Cover(p)
  BY DEF IndInv, CoverInv
<1>2. /\ In(z, Verifying) <=> pc[p] \in Verifying
      /\ In(z, Verifying)' <=> pc'[p] \in Verifying
  <2>1. Verifying \in SUBSET LockSteps
    BY DEF Verifying, LockSteps, SlotSteps
  <2> QED BY <2>1, InHolder
<1> HIDE DEF In
<1>3. ASSUME pc'[p] \in Verifying
      PROVE  CoveredZone(z)'
  BY <1>2, <1>3 DEF CoveredZone
<1>4. ASSUME State'[z] # "valid"
      PROVE  TrueZone(z)'
  BY <1>4 DEF TrueZone
<1>5. ASSUME State'[z] = State[z], Store'[z] = Store[z]
      PROVE  TrueZone(z)'
  BY <1>1, <1>5 DEF TrueZone
<1>6. ASSUME pc[p] \notin Verifying, Store'[z] = Store[z],
             Findings[z] \subseteq Findings'[z]
      PROVE  CoveredZone(z)'
  BY <1>1, <1>2, <1>6, CoversMore DEF CoveredZone
<1>7. CASE Commit(p)
  <2>1. /\ pc[p] = "commit" /\ UNCHANGED Store
        /\ State'[z] = Verdict(job[p].res)
        /\ Findings'[z] = IF job[p].res.mode = "full" THEN job[p].res.found
                          ELSE Findings[z]
    BY <1>1, <1>7 DEF Commit, setState, TypeOK
  <2>2. /\ Judged(Store[z], job[p].res)
        /\ job[p].res.mode # "full" => Covers(Findings[z], Broken(Store[z]))
    BY <1>1, <2>1 DEF Cover
  <2>3. Covers(Findings'[z], Broken(Store[z]))
    BY <2>1, <2>2 DEF Judged
  <2>4. ASSUME Verdict(job[p].res) = "valid"
        PROVE  Broken(Store[z]) = {}
    <3>1. \A o : NewFinding("RRSIG_INVALID", o).code \in ErrorCodes
      BY DEF NewFinding, ErrorCodes
    <3> QED BY <2>2, <2>4, <3>1 DEF Judged, Covers, HasErrors
  <2>5. TrueZone(z)'
    <3> SUFFICES ASSUME State'[z] = "valid", ~Store[z].torn
                 PROVE  /\ Content[Store[z].serial].signed
                        /\ Content[Store[z].serial].bad = {}
      BY <2>1 DEF TrueZone
    <3>1. Content[Store[z].serial].signed /\ Broken(Store[z]) = {}
      BY <2>1, <2>2, <2>4 DEF Judged
    <3> QED BY <3>1 DEF Broken
  <2> QED BY <2>1, <2>3, <2>5 DEF CoveredZone
<1>8. CASE ApplyFails(p)
  <2>1. State'[z] # "valid" /\ Store'[z].torn
    BY <1>1, <1>8 DEF ApplyFails, setState, TypeOK
  <2> QED BY <1>4, <2>1 DEF CoveredZone, Covers, Broken
<1>9. CASE Install(p)
  <2>1. State'[z] # "valid" /\ pc'[p] \in Verifying
    BY <1>1, <1>9 DEF Install, GoTo, TypeOK, Verifying
  <2> QED BY <1>3, <1>4, <2>1
<1>10. CASE ReverifyZONEMD(p) \/ VerifyFull(p) \/ VerifyIncremental(p) \/ Merge(p)
  <2>1. UNCHANGED <<State, Store>> /\ pc'[p] \in Verifying
    BY <1>1, <1>10 DEF ReverifyZONEMD, VerifyFull, VerifyIncremental, Merge, GoTo,
                       TypeOK, Verifying
  <2> QED BY <1>3, <1>5, <2>1
<1>11. CASE Probe(p)
  <2>1. UNCHANGED <<State, Store>> /\ pc[p] \notin Verifying /\ detectSkew(z)
    BY <1>1, <1>11 DEF Probe, Verifying
  <2>2. Findings[z] \subseteq Findings'[z]
    BY <1>1, <2>1 DEF detectSkew, TypeOK
  <2> QED BY <1>5, <1>6, <2>1, <2>2
<1>12. CASE Unchanged(p)
  <2>1. /\ UNCHANGED <<Store, Findings>> /\ pc[p] \notin Verifying
        /\ State'[z] = State[z]
    BY <1>1, <1>12, DecideKeeps DEF Unchanged, TypeOK, Verifying
  <2> QED BY <1>5, <1>6, <2>1
<1>13. CASE NoServer(p) \/ BeginTransfer(p) \/ TransferFails(p)
  <2>1. /\ UNCHANGED <<Store, Findings>> /\ pc[p] \notin Verifying
        /\ State'[z] # "valid"
    BY <1>1, <1>13 DEF NoServer, BeginTransfer, TransferFails, setState, TypeOK,
                       Verifying
  <2> QED BY <1>4, <1>6, <2>1
<1>14. CASE TransferWhole(p) \/ TransferIncremental(p) \/ Publish(p)
  <2>1. UNCHANGED <<State, Store, Findings>> /\ pc[p] \notin Verifying
    BY <1>14, TransferIncrementalFrame DEF TransferWhole, Publish, Verifying
  <2> QED BY <1>5, <1>6, <2>1
<1> QED BY <1>7, <1>8, <1>9, <1>10, <1>11, <1>12, <1>13, <1>14 DEF Works

\* Every step leaves every zone covered and its state true.
LEMMA ZoneStep ==
  ASSUME IndInv, IndInv', ShownInv, CoverInv, [Next]_vars, NEW z \in Zones
  PROVE  (CoveredZone(z) /\ TrueZone(z))'
<1>1. TypeOK /\ CoveredZone(z) /\ TrueZone(z)
  BY DEF IndInv, CoverInv
<1>2. ASSUME In(z, Verifying)' <=> In(z, Verifying), Store'[z] = Store[z],
             Findings[z] \subseteq Findings'[z],
             State'[z] = "valid" => State[z] = "valid"
      PROVE  (CoveredZone(z) /\ TrueZone(z))'
  <2> HIDE DEF In
  <2> QED BY <1>1, <1>2, CoversMore DEF CoveredZone, TrueZone
<1>3. ASSUME NEW p \in Procs, Works(p), z # job[p].zone
      PROVE  (CoveredZone(z) /\ TrueZone(z))'
  <2>1. Kept(z) /\ Rests(z) /\ Findings'[z] = Findings[z]
    BY <1>3, WorksOther
  <2>2. In(z, Verifying)' <=> In(z, Verifying)
    BY <1>3, InOther
  <2> QED BY <1>2, <2>1, <2>2 DEF Kept, Rests
<1>4. CASE ~(\E p \in Procs : Works(p))
  <2>1. OtherStep(z) /\ Findings[z] \subseteq Findings'[z]
    BY <1>1, <1>4, ElseOther, ElseFindings
  <2>2. State[z] \in BusyStates => Refreshing[z]
    BY DEF IndInv, GateHeldByOne, Holds, LockSteps, SlotSteps, ShownInv,
           BusyHeld, BusyStates, In, Transferring, Verifying
  <2>3. State'[z] = "valid" => State[z] = "valid"
    BY <2>1, <2>2 DEF OtherStep, Kept
  <2>4. In(z, Verifying)' <=> In(z, Verifying)
    <3>1. Verifying \in SUBSET Inside
      BY DEF Verifying, Inside
    <3> QED BY <1>1, <1>4, <3>1, ElseIn
  <2> QED BY <1>2, <2>1, <2>3, <2>4 DEF OtherStep
<1> QED BY <1>3, <1>4, ZoneWorks

\* Between two passes a zone's findings report every owner that fails, when the
\* findings are those of a run of the program and its servers are never behind.
THEOREM CoverInvariance ==
  ASSUME SameServers, ~SnapshotResume
  PROVE  Spec => []CoverInv
<1>1. Init => CoverInv
  <2> SUFFICES ASSUME Init
               PROVE  CoverInv
    OBVIOUS
  <2>1. \A z \in Zones : Store[z].serial = 0
    BY DEF Init, Attached, NoStore
  <2>2. \A z \in Zones : CoveredZone(z) /\ TrueZone(z)
    BY <2>1 DEF Init, CoveredZone, TrueZone
  <2>3. \A p \in Procs : Cover(p)
    BY DEF Init, Cover
  <2> QED BY <2>2, <2>3 DEF CoverInv
<1>2. IndInv /\ IndInv' /\ ShownInv /\ OrderInv /\ CoverInv /\ [Next]_vars =>
        CoverInv'
  BY CoverStep, ZoneStep DEF CoverInv
<1> QED BY <1>1, <1>2, Invariance, ShownInvariance, OrderInvariance, PTL DEF Spec

\* A zone shown valid has no RRset that fails, although an incremental pass looks
\* at the touched names only and keeps the findings of all others.  Either every
\* pass is full (prefer_ixfr off), or the findings start empty and no server
\* answers an incremental request from behind the store.
THEOREM VerdictSound ==
  ASSUME ~PreferIXFR \/ (SameServers /\ ~SnapshotResume)
  PROVE  Spec => []NoFalseValid
<1>1. CASE ~PreferIXFR
  <2>1. WholeInv => NoFalseValid
    BY DEF WholeInv, SoundZone, Clean, NoFalseValid
  <2> QED BY <1>1, <2>1, WholeInvariance, PTL
<1>2. CASE SameServers /\ ~SnapshotResume
  <2>1. CoverInv => NoFalseValid
    BY DEF CoverInv, TrueZone, NoFalseValid
  <2> QED BY <1>2, <2>1, CoverInvariance, PTL
<1> QED BY <1>1, <1>2
=============================================================================
