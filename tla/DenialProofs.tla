---------------------------- MODULE DenialProofs ----------------------------
(***************************************************************************)
(* Why incremental passes may compare a touched NSEC3 record with its two   *)
(* neighbours only, for zones of any size: as long as chain records are     *)
(* neither deleted nor signed anew on their own, every open link of the     *)
(* chain stays reported.                                                    *)
(***************************************************************************)
EXTENDS Denial, WellFoundedInduction, TLAPS

\* A non-empty set of naturals has a least element.
LEMMA LeastElement ==
  ASSUME NEW S \in SUBSET Nat, S # {}
  PROVE  \E m \in S : \A x \in S : m <= x
<1>1. PICK m \in S : \A x \in S : ~(<<x, m>> \in OpToRel(<, Nat))
  BY NatLessThanWellFounded, WFMin
<1>2. \A x \in S : x \in Nat /\ m \in Nat
  OBVIOUS
<1>3. ASSUME NEW x \in S, x < m PROVE <<x, m>> \in OpToRel(<, Nat)
  <2>1. <<x, m>> \in Nat \X Nat /\ <<x, m>>[1] < <<x, m>>[2]
    BY <1>2, <1>3
  <2> QED BY <2>1, Zenon DEF OpToRel
<1>4. \A x \in S : ~(x < m)
  BY <1>1, <1>3, Zenon
<1> QED BY <1>2, <1>4

\* NextNSEC3: in a ring every record has one that follows it.
LEMMA SuccessorExists ==
  ASSUME NEW R \in SUBSET Hash, NEW h \in R
  PROVE  \E y \in R : Follows(R, h, y)
<1> DEFINE Above == {x \in R : x > h}
<1>0. R \subseteq Nat
  BY DenialAssumption DEF Hash
<1>1. CASE Above # {}
  <2>1. PICK m \in Above : \A x \in Above : m <= x
    BY <1>0, <1>1, LeastElement
  <2>2. \A x \in R : ~(h < x /\ x < m)
    BY <1>0, <2>1
  <2> QED BY <2>1, <2>2, <1>0 DEF Follows
<1>2. CASE Above = {}
  <2>1. PICK m \in R : \A x \in R : m <= x
    BY <1>0, LeastElement
  <2>2. \A x \in R : x <= h
    BY <1>0, <1>2
  <2> QED BY <2>1, <2>2, <1>0 DEF Follows
<1> QED BY <1>1, <1>2

\* A record that follows in a ring follows in every part that still holds it.
LEMMA SameSuccessor ==
  ASSUME NEW R \in SUBSET Nat, NEW Q \in SUBSET R, NEW h \in Nat,
         NEW y \in Q, NEW k \in Q, Follows(Q, h, k), Follows(R, h, y)
  PROVE  y = k
<1>1. y \in Nat /\ k \in Nat /\ y \in R /\ k \in R
  OBVIOUS
<1>2. CASE k > h
  <2>1. ~(h < y /\ y < k)
    BY <1>2 DEF Follows
  <2>2. CASE y > h
    BY <1>1, <1>2, <2>1, <2>2 DEF Follows
  <2>3. CASE ~(y > h)
    BY <1>1, <1>2, <2>3 DEF Follows
  <2> QED BY <2>2, <2>3
<1>3. CASE ~(k > h)
  <2>1. k <= y /\ y <= h
    BY <1>3 DEF Follows
  <2>2. y <= k
    BY <1>1, <2>1 DEF Follows
  <2> QED BY <1>1, <2>1, <2>2
<1> QED BY <1>2, <1>3

\* The configurations in which the argument holds.
Preserving == Style = "nsec3" /\ ~MayDelete /\ ~MayResign

ChainInv ==
  /\ Store \in Versions
  /\ BreaksReported
  /\ State \in {"unknown", Verdict(Findings)}

\* A link that two versions share and that was closed is open in the new one
\* only because a record came between: the record that now follows is touched,
\* and the look at its predecessor finds the link.
LEMMA NewlyOpen ==
  ASSUME NEW a \in Versions, NEW v \in Versions, Ring(a) \subseteq Ring(v),
         NEW h \in Ring(v), h \notin ChangedHashes(a, v),
         Closed(a, h), ~Closed(v, h)
  PROVE  \E y \in Ring(v) \cap ChangedHashes(a, v) :
           Follows(Ring(v), h, y) /\ v.next[h] # y
<1> DEFINE k == v.next[h]
<1>1. /\ Ring(v) \in SUBSET Hash /\ Ring(a) \in SUBSET Hash
      /\ Hash \subseteq Nat
  BY DenialAssumption DEF Ring, Hash
<1>2. /\ h \in Ring(a) /\ a.next[h] = k
      /\ Follows(Ring(a), h, k) /\ ~Follows(Ring(v), h, k)
  BY <1>1 DEF ChangedHashes, Ring, Closed
<1>3. PICK y \in Ring(v) : Follows(Ring(v), h, y)
  BY <1>1, SuccessorExists
<1>4. y # k
  BY <1>2, <1>3
<1> HIDE DEF k
<1>5. k \in Ring(a) /\ k \in Ring(v)
  BY <1>2 DEF Follows
<1>6. y \notin Ring(a)
  <2> SUFFICES ASSUME y \in Ring(a) PROVE FALSE
    OBVIOUS
  <2>1. Ring(v) \in SUBSET Nat /\ Ring(a) \in SUBSET Ring(v) /\ h \in Nat
    BY <1>1
  <2>2. y = k
    BY <2>1, <1>2, <1>3, <1>5, SameSuccessor
  <2> QED BY <2>2, <1>4
<1>7. y \in ChangedHashes(a, v)
  BY <1>1, <1>6 DEF ChangedHashes, Ring
<1> QED BY <1>3, <1>4, <1>7 DEF k

\* An incremental pass keeps every open link and every missing record reported.
LEMMA IncrementalReports ==
  ASSUME Preserving, ChainInv, IncrementalPass
  PROVE  ChainInv'
<1> PICK v \in Publishable, touch \in SUBSET Hash, resign \in SUBSET Hash :
      LET H == ChangedHashes(Store, v)
          N == ChangedNames(Store, v) \cup touch
                 \cup {ChainOwner(h) : h \in H \cup resign}
      IN  /\ State # "unknown"
          /\ resign = {}
          /\ Ring(Store) \subseteq Ring(v)
          /\ Store' = v
          /\ Findings' = Incremental(v, N, H, Findings)
          /\ State' = Verdict(Incremental(v, N, H, Findings))
  BY Zenon DEF IncrementalPass, Preserving
<1> DEFINE H == ChangedHashes(Store, v)
           N == ChangedNames(Store, v) \cup touch \cup {ChainOwner(h) : h \in H}
           new == TouchedNames(v, N \cap Hash) \cup TouchedChain(v, H)
<1>1. /\ v \in Versions /\ Store \in Versions
      /\ v.names \in SUBSET Hash /\ Store.names \in SUBSET Hash
  BY DEF Publishable, Versions, ChainInv
<1>2. Missing(Store, Hash) \cup Broken(Store) \subseteq Findings
  BY DEF ChainInv, BreaksReported
<1>3. Findings' = new \cup {f \in Findings : f.owner \notin N}
  <2>1. ApexHash \in N
    BY DEF ChangedNames
  <2> QED BY <2>1 DEF Incremental, MergeReplace
<1>4. /\ H \subseteq Hash /\ MaxHash \in Nat /\ Hash \subseteq 1..MaxHash
      /\ ChangedNames(Store, v) \cup touch \subseteq Hash
      /\ \A h \in Hash : ChainOwner(h) = MaxHash + h
  BY <1>1, DenialAssumption
  DEF ChangedHashes, ChangedNames, Hash, ChainOwner, Preserving
<1>5. ASSUME NEW n \in v.names, v.next[n] = 0
      PROVE  NewFinding("NSEC3_MISSING", n) \in Findings'
  <2>1. CASE n \in N
    BY <1>1, <1>3, <1>5, <2>1 DEF TouchedNames, Missing, Preserving
  <2>2. CASE n \notin N
    <3>1. n \in Hash /\ n \in Store.names
      BY <1>1, <2>2 DEF ChangedNames
    <3>2. Store.next[n] = 0
      BY <3>1, <1>5 DEF Ring
    <3>3. NewFinding("NSEC3_MISSING", n) \in Findings
      BY <1>2, <3>1, <3>2 DEF Missing, Preserving
    <3> QED BY <1>3, <2>2, <3>3 DEF NewFinding
  <2> QED BY <2>1, <2>2
<1>6. ASSUME NEW h \in Ring(v), ~Closed(v, h)
      PROVE  ChainBroken(ChainOwner(h)) \in Findings'
  <2>0. h \in Hash
    BY DEF Ring
  <2>1. CASE h \in H
    <3>1. ChainBroken(ChainOwner(h)) \in TouchedChain(v, H)
      BY <1>6, <2>1 DEF TouchedChain, Preserving
    <3> QED BY <1>3, <3>1
  <2>2. CASE h \notin H /\ ~Closed(Store, h)
    <3>1. h \in Ring(Store)
      BY <2>0, <2>2 DEF ChangedHashes, Ring
    <3>2. ChainBroken(ChainOwner(h)) \in Findings
      BY <1>2, <2>2, <3>1 DEF Broken
    <3>3. ChainOwner(h) \notin N
      <4>1. ChainOwner(h) \notin ChangedNames(Store, v) \cup touch
        BY <1>4, <2>0
      <4>2. ASSUME NEW g \in H PROVE ChainOwner(g) # ChainOwner(h)
        <5>1. g \in Hash /\ g # h /\ g \in Nat /\ h \in Nat
          BY <1>4, <2>0, <2>2, DenialAssumption DEF Hash
        <5>2. ChainOwner(g) = MaxHash + g /\ ChainOwner(h) = MaxHash + h
          BY <1>4, <2>0, <5>1
        <5> QED BY <1>4, <5>1, <5>2
      <4> QED BY <4>1, <4>2
    <3> QED BY <1>3, <3>2, <3>3 DEF ChainBroken, NewFinding
  <2>3. CASE h \notin H /\ Closed(Store, h)
    <3>1. PICK y \in Ring(v) \cap H : Follows(Ring(v), h, y) /\ v.next[h] # y
      BY <1>1, <1>6, <2>3, NewlyOpen
    <3>2. ChainBroken(ChainOwner(h)) \in PredBroken(v, y)
      BY <3>1 DEF PredBroken
    <3>3. ChainBroken(ChainOwner(h)) \in TouchedChain(v, H)
      BY <3>1, <3>2 DEF TouchedChain, Preserving
    <3> QED BY <1>3, <3>3
  <2> QED BY <2>1, <2>2, <2>3
<1>7. Missing(v, Hash) \cup Broken(v) \subseteq Findings'
  BY <1>5, <1>6 DEF Missing, Broken, Preserving
<1>8. State' = Verdict(Findings')
  OBVIOUS
<1> QED BY <1>1, <1>7, <1>8 DEF ChainInv, BreaksReported, Verdict

\* Every step keeps the chain's findings complete.
LEMMA ChainStep ==
  ASSUME Preserving, ChainInv, [Next]_vars
  PROVE  ChainInv'
<1>1. CASE FullPass
  BY <1>1 DEF FullPass, Full, ChainInv, BreaksReported, Publishable, Verdict
<1>2. CASE IncrementalPass
  BY <1>2, IncrementalReports
<1>3. CASE UNCHANGED vars
  BY <1>3 DEF vars, ChainInv, BreaksReported, Verdict
<1> QED BY <1>1, <1>2, <1>3 DEF Next

\* Before the first transfer there is nothing to report.
LEMMA ChainInit ==
  ASSUME Init
  PROVE  ChainInv
BY DenialAssumption DEF Init, ChainInv, BreaksReported, Versions, Hash

\* The findings stay complete along every behaviour.
LEMMA ChainInvariance == ASSUME Preserving PROVE Spec => []ChainInv
<1>1. Init => ChainInv
  BY ChainInit
<1>2. ChainInv /\ [Next]_vars => ChainInv'
  BY ChainStep
<1> QED BY <1>1, <1>2, PTL DEF Spec

\* Incremental verification is sound for growing NSEC3 chains of any size: each
\* open link and each missing record of the zone held is among its findings,
\* after any sequence of full and incremental passes.
THEOREM IncrementalSound == Preserving => (Spec => []BreaksReported)
<1> SUFFICES ASSUME Preserving PROVE Spec => []BreaksReported
  OBVIOUS
<1>1. Spec => []ChainInv
  BY ChainInvariance
<1>2. ChainInv => BreaksReported
  BY DEF ChainInv
<1> QED BY <1>1, <1>2, PTL

\* So a zone shown valid has a closed chain that covers all its names.
THEOREM ValidSound == Preserving => (Spec => []ValidMeansDenial)
<1> SUFFICES ASSUME Preserving PROVE Spec => []ValidMeansDenial
  OBVIOUS
<1>1. Spec => []ChainInv
  BY ChainInvariance
<1>2. ChainInv => ValidMeansDenial
  <2> SUFFICES ASSUME ChainInv, State = "valid"
               PROVE  Missing(Store, Hash) \cup Broken(Store) = {}
    BY DEF ValidMeansDenial
  <2>1. ~HasErrors(Findings)
    BY DEF ChainInv, Verdict
  <2>2. Missing(Store, Hash) \cup Broken(Store) \subseteq Findings
    BY DEF ChainInv, BreaksReported
  <2>3. \A f \in Missing(Store, Hash) \cup Broken(Store) : f.code \in ErrorCodes
    BY DEF Missing, Broken, ChainBroken, NewFinding, ErrorCodes, Preserving
  <2> QED BY <2>1, <2>2, <2>3 DEF HasErrors
<1> QED BY <1>1, <1>2, PTL
=============================================================================
