------------------------------- MODULE Denial -------------------------------
(***************************************************************************)
(* Denial of existence over a life of transfers (internal/dnssec/nsec.go,   *)
(* incremental.go and the NSEC3 index of internal/zone/store.go): what a    *)
(* full pass reports about the NSEC or NSEC3 chain, and what is left of it  *)
(* when incremental passes look at the touched records only.                *)
(*                                                                          *)
(* Names are numbered in the order the chain runs in: canonical order for   *)
(* NSEC, the order of their hashes for NSEC3, so that name h has hash h.    *)
(* Refreshes of a zone exclude each other (ZoneRefresh), so a transfer with *)
(* the pass that follows it is one step.  Bitmaps, salts, opt-out and       *)
(* delegations are left out: every name is authoritative.                   *)
(***************************************************************************)
EXTENDS Integers

CONSTANTS
  MaxHash,      \* number of names the zone may have
  ApexHash,     \* the name that is the apex
  Style,        \* "nsec3" (the zone has an NSEC3PARAM) or "nsec"
  MayDelete,    \* incremental transfers may delete chain records
  MayResign,    \* and replace the RRSIG of a chain record alone
  Faults        \* what the servers may get wrong: "chain", "signatures"

Hash == 1..MaxHash

ASSUME DenialAssumption ==
  /\ MaxHash \in Nat
  /\ ApexHash \in Hash
  /\ Style \in {"nsec", "nsec3"}
  /\ {MayDelete, MayResign} \subseteq BOOLEAN
  /\ Faults \subseteq {"chain", "signatures"}

\* Owner names: of the names themselves, and of their NSEC3 records.
ChainOwner(h) == IF Style = "nsec3" THEN MaxHash + h ELSE h

INSTANCE Findings WITH Owners <- 1..(2 * MaxHash), Apex <- ApexHash,
                       RequireMatch <- FALSE

\* A version of the zone: its names; the next field of each name's chain
\* record, 0 if it has none; the chain records no signature verifies.
Versions ==
  {v \in [names : SUBSET Hash, next : [Hash -> 0..MaxHash],
          badsig : SUBSET Hash] :
     /\ ApexHash \in v.names
     /\ \A h \in v.badsig : v.next[h] # 0
     /\ Style = "nsec" => \A h \in Hash : v.next[h] # 0 => h \in v.names}

VARIABLES
  Store,      \* the version the zone's store holds
  Findings,   \* its findings
  State       \* "unknown" before the first transfer, "valid" or "invalid"

vars == <<Store, Findings, State>>

\* The hashes in the store's index.
Ring(v) == {h \in Hash : v.next[h] # 0}

\* In ring R, which holds h: the record after h, or the first one after the last.
Follows(R, h, k) ==
  /\ k \in R
  /\ IF k > h THEN \A x \in R : ~(h < x /\ x < k)
              ELSE \A x \in R : k <= x /\ x <= h

Closed(v, h) == Follows(Ring(v), h, v.next[h])

ChainBroken(owner) ==
  NewFinding(IF Style = "nsec3" THEN "NSEC3_CHAIN_BROKEN" ELSE "NSEC_CHAIN_BROKEN",
             owner)

\* checkNSECPresence and checkNSEC3Presence, for the nodes of these names.
Missing(v, names) ==
  {NewFinding(IF Style = "nsec3" THEN "NSEC3_MISSING" ELSE "NSEC_MISSING", n) :
     n \in {n \in names \cap v.names : v.next[n] = 0}}

\* verifyNSECChain and verifyNSEC3Chain.
Broken(v) == {ChainBroken(ChainOwner(h)) : h \in {h \in Ring(v) : ~Closed(v, h)}}

\* RRSIGs of the chain records that do not verify.  verifyNode leaves NSEC3
\* RRsets out, and nothing else in a full pass looks at them.
BadSignatures(v, hashes) ==
  {NewFinding("RRSIG_INVALID", ChainOwner(h)) : h \in hashes \cap Ring(v) \cap v.badsig}

Full(v) ==
  Missing(v, Hash) \cup Broken(v)
    \cup (IF Style = "nsec" THEN BadSignatures(v, Hash) ELSE {})

\* Mutant: only the next field of a touched record is compared.
PredBroken_Unchecked(v, h) == {}

\* The predecessor of a touched record must point at it.
PredBroken(v, h) ==
  {ChainBroken(ChainOwner(p)) :
     p \in {p \in Ring(v) : Follows(Ring(v), p, h) /\ v.next[p] # h}}

\* The pass over touched.NSEC3: nothing is done for a zone with NSEC.
TouchedChain(v, hashes) ==
  IF Style = "nsec" THEN {}
  ELSE UNION {IF h \notin Ring(v) THEN {ChainBroken(ApexHash)}
              ELSE PredBroken(v, h) \cup BadSignatures(v, {h})
                     \cup (IF Closed(v, h) THEN {} ELSE {ChainBroken(ChainOwner(h))})
                : h \in hashes}

\* The pass over touched.Names; an NSEC RRset is verified with its node.
TouchedNames(v, names) ==
  Missing(v, names)
    \cup (IF Style = "nsec" THEN BadSignatures(v, names) ELSE {})

\* Owners whose findings are replaced: the touched names.  The owner of every
\* touched chain record is among them, whether or not the record still exists.
Incremental(v, names, hashes, prev) ==
  MergeReplace(prev, TouchedNames(v, names \cap Hash) \cup TouchedChain(v, hashes), names)

Verdict(F) == IF HasErrors(F) THEN "invalid" ELSE "valid"

Init ==
  /\ Store = [names |-> {ApexHash}, next |-> [h \in Hash |-> 0], badsig |-> {}]
  /\ Findings = {}
  /\ State = "unknown"

Publishable ==
  {v \in Versions : /\ "chain" \in Faults \/ Missing(v, Hash) \cup Broken(v) = {}
                    /\ "signatures" \in Faults \/ v.badsig = {}}

\* AXFR, or a pass forced to be full: the findings are made anew.
FullPass ==
  \E v \in Publishable :
    /\ Store' = v
    /\ Findings' = Full(v)
    /\ State' = Verdict(Full(v))

\* Chain records removed or added between two versions (ApplyChanges notes
\* both), those of which only the RRSIG differs, and names come and gone.
ChangedHashes(a, b) == {h \in Hash : a.next[h] # b.next[h]}

Resigned(a, b) ==
  {h \in Ring(a) \cap Ring(b) : (h \in a.badsig) # (h \in b.badsig)}

ChangedNames(a, b) == (a.names \ b.names) \cup (b.names \ a.names) \cup {ApexHash}

\* IXFR.  touch: names with other changes; resign: chain records whose RRSIG is
\* replaced while the record stays, which puts their owner in touched.Names
\* and leaves their hash out of touched.NSEC3.
IncrementalPass ==
  \E v \in Publishable, touch \in SUBSET Hash, resign \in SUBSET Hash :
    LET H == ChangedHashes(Store, v)
        N == ChangedNames(Store, v) \cup touch
               \cup {ChainOwner(h) : h \in H \cup resign}
        F == Incremental(v, N, H, Findings)
    IN
    /\ State # "unknown"
    /\ touch \subseteq Store.names \cap v.names
    /\ Resigned(Store, v) \subseteq resign
    /\ resign \subseteq Ring(Store) \cap Ring(v)
    /\ MayResign \/ resign = {}
    /\ MayDelete \/ Ring(Store) \subseteq Ring(v)
    /\ Store' = v
    /\ Findings' = F
    /\ State' = Verdict(F)

Next == FullPass \/ IncrementalPass

Spec == Init /\ [][Next]_vars
-----------------------------------------------------------------------------
(* Properties *)

\* A zone shown valid has a closed chain and a chain record for every name,
\* although incremental passes compare a touched record with its two neighbours
\* only and a break between untouched records is known from older findings.
ValidMeansDenial == State = "valid" => Missing(Store, Hash) \cup Broken(Store) = {}

\* The reason: a link that does not close is always reported at the record the
\* link starts from, and a name without a record at the name, whichever passes
\* led here.  (Before the first transfer there is nothing to report on.)
BreaksReported ==
  State # "unknown" => Missing(Store, Hash) \cup Broken(Store) \subseteq Findings

\* "name deleted: NSEC/NSEC3 neighbours are in touched.NSEC3 / nearby names": a
\* zone whose servers only publish closed chains is not reported invalid.
NoFalseAlarm == Faults = {} => State # "invalid"

\* "Every authoritative RRset has a verifying RRSIG": after a full pass a zone
\* with a chain record no signature verifies is not shown valid.
SignaturesChecked == State = "valid" => Store.badsig \cap Ring(Store) = {}
=============================================================================
