------------------------------ MODULE Verifier ------------------------------
(***************************************************************************)
(* What a verification pass reports (internal/dnssec: verify.go,            *)
(* incremental.go, zonemd.go), as a function of the zone content, of the    *)
(* clock and, for an incremental pass, of the findings already open.        *)
(*                                                                          *)
(* A zone content is abstracted to what the passes tell apart: whether the  *)
(* zone has DNSKEYs, the owner names with an RRset no signature verifies,   *)
(* the expiration time of the signatures of each owner, and the state of    *)
(* the ZONEMD digest.  Cryptography, the NSEC/NSEC3 chains and the hygiene  *)
(* warnings are abstracted away; ClockSkew is folded into the expirations.  *)
(***************************************************************************)
EXTENDS Naturals, Findings

CONSTANTS
  ZONEMD,          \* verification.zonemd: "off", "auto" or "on"
  ExpiryWarning    \* verification.expiry_warning, in clock units

ASSUME VerifierAssumption ==
  /\ ZONEMD \in {"off", "auto", "on"}
  /\ ExpiryWarning \in Nat

ContentType ==
  [signed : BOOLEAN,                  \* the zone has DNSKEYs
   bad    : SUBSET Owners,            \* owners with an RRset that fails
   exp    : [Owners -> Nat],          \* expiration of the owner's RRSIGs
   zonemd : {"none", "ok", "bad"}]    \* no ZONEMD, digest matches, or not

\* A Result of the verifier; zonemd is ZONEMDChecked together with ZONEMDOK.
Result ==
  [mode     : {"none", "full", "incremental"},
   found    : SUBSET Finding,
   valid    : BOOLEAN,
   unsigned : BOOLEAN,
   zonemd   : {"unchecked", "ok", "bad"}]

NoResult ==
  [mode |-> "none", found |-> {}, valid |-> FALSE, unsigned |-> FALSE,
   zonemd |-> "unchecked"]

Expired(c, o, t) == c.signed /\ t > c.exp[o]

ExpiringSoon(c, o, t) ==
  c.signed /\ c.exp[o] > t /\ c.exp[o] - t <= ExpiryWarning

\* verifyRRSet over the RRsets of one owner.  An expired signature is skipped,
\* so that no signature verifies: both findings are reported.
verifyNode(c, o, t) ==
  (IF Expired(c, o, t) THEN {NewFinding("RRSIG_EXPIRED", o)} ELSE {})
    \cup (IF Expired(c, o, t) \/ o \in c.bad
            THEN {NewFinding("RRSIG_INVALID", o)} ELSE {})
    \cup (IF ExpiringSoon(c, o, t)
            THEN {NewFinding("RRSIG_EXPIRING_SOON", o)} ELSE {})

verifyNodes(c, names, t) == UNION {verifyNode(c, o, t) : o \in names}

\* Mutant: the digest is looked for but never compared.
verifyZONEMD_NoDigest(c) ==
  IF c.zonemd = "none" /\ ZONEMD = "on"
    THEN {NewFinding("ZONEMD_MISSING", Apex)} ELSE {}

verifyZONEMD(c) ==
  IF c.zonemd = "none"
    THEN IF ZONEMD = "on" THEN {NewFinding("ZONEMD_MISSING", Apex)} ELSE {}
    ELSE IF c.zonemd = "bad" /\ ZONEMD # "off"
           THEN {NewFinding("ZONEMD_MISMATCH", Apex)} ELSE {}

ZONEMDOutcome(c) ==
  IF c.zonemd = "none" \/ ZONEMD = "off" THEN "unchecked" ELSE c.zonemd

\* Full: a zone without DNSKEYs is unsigned and counts as valid.
Full(c, t) ==
  IF ~c.signed
    THEN [NoResult EXCEPT !.mode = "full", !.valid = TRUE, !.unsigned = TRUE]
    ELSE LET F == verifyNodes(c, Owners, t) \cup verifyZONEMD(c)
         IN  [mode |-> "full", found |-> F, valid |-> ~HasErrors(F),
              unsigned |-> FALSE, zonemd |-> ZONEMDOutcome(c)]

\* Incremental, when no DNSKEY changed: only the touched names are verified,
\* the ZONEMD digest is not, and the findings are merged into prev.
Incremental(c, t, prev, touched) ==
  LET F == IF c.signed
             THEN MergeReplace(prev, verifyNodes(c, touched, t), touched)
             ELSE MergeReplace(prev, {}, {})
  IN  [mode |-> "incremental", found |-> F,
       valid |-> ~c.signed \/ ~HasErrors(F), unsigned |-> ~c.signed,
       zonemd |-> "unchecked"]

\* Mutant: only the warning window is reported.
SweepExpiry_WarnsOnly(c, t) ==
  {NewFinding("RRSIG_EXPIRING_SOON", o) :
     o \in {o \in Owners : ExpiringSoon(c, o, t)}}

\* The owners in the expiry index whose signatures end by the cutoff.
ExpiringBefore(c, cutoff) == {o \in Owners : c.signed /\ c.exp[o] <= cutoff}

\* SweepExpiry: the findings the expiry index yields at time t.
SweepExpiry(c, t) ==
  LET recs == ExpiringBefore(c, t + ExpiryWarning) IN
  {NewFinding("RRSIG_EXPIRED", o) : o \in {o \in recs : Expired(c, o, t)}}
    \cup {NewFinding("RRSIG_EXPIRING_SOON", o) :
            o \in {o \in recs : ExpiringSoon(c, o, t)}}
=============================================================================
