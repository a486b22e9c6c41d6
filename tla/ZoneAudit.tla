----------------------------- MODULE ZoneAudit -----------------------------
(***************************************************************************)
(* The verifier of internal/dnssec record by record: the full pass, the     *)
(* incremental pass over what a transfer touched, the expiry sweep, and the *)
(* one-shot check of internal/check.  Times are unsigned integers of a      *)
(* fixed width, and their sums wrap.                                        *)
(*                                                                          *)
(* Key-tag collisions and unparsable records do not occur.                  *)
(***************************************************************************)
EXTENDS Defects

CONSTANTS
  Width,         \* times are numbers below Width (2^32 in the code)
  ClockSkew,     \* verification.clock_skew
  ExpiryWarning, \* verification.expiry_warning
  ZONEMDMode     \* verification.zonemd: "off", "auto" or "on"

ASSUME ZoneAuditAssumption ==
  /\ {Width, ClockSkew, ExpiryWarning} \subseteq Nat
  /\ Far < Width
  /\ ZONEMDMode \in {"off", "auto", "on"}

Add(a, b) == (a + b) % Width

Deprecated ==
  {"RSAMD5", "DSA", "RSASHA1", "DSA-NSEC3-SHA1", "RSASHA1-NSEC3-SHA1", "ECC-GOST"}

Warnings ==
  {"RRSIG_TTL_MISMATCH", "RRSIG_EXPIRING_SOON", "NSEC3_ITERATIONS_NONZERO",
   "NSEC3_SALT_PRESENT", "NSEC3_OPTOUT_ZERO_DELEG", "DEPRECATED_ALGORITHM",
   "DNSKEY_UNUSED"}

NewFinding(code, o, t) == [code |-> code, owner |-> o, type |-> t]
Report(b, code, o, t) == If(b, {NewFinding(code, o, t)})
HasErrors(F) == \E f \in F : f.code \notin Warnings

Keys(z)     == RRset(z, origin, "DNSKEY")
hasDS(z, n) == "DS" \in TypesAt(z, n)
params(z)   == {r.param : r \in RRset(z, origin, "NSEC3PARAM")}
isAuthoritative(z, n) == ~underDelegation(z, n)
-----------------------------------------------------------------------------
(* Signatures *)

NotYetValid(sig, now) == Add(now, ClockSkew) < sig.inc
Expired(sig, now)     == now > Add(sig.exp, ClockSkew)
Timely(sig, now)      == ~NotYetValid(sig, now) /\ ~Expired(sig, now)
ExpiringSoon(sig, now) ==
  ExpiryWarning > 0 /\ sig.exp > now /\ sig.exp - now <= ExpiryWarning

Signer(z, sig) == {k \in Keys(z) : k.key = sig.key}

\* RRSIG.Verify (external) over the RRset held.
Verify(z, sig) ==
  /\ sig.damage = "none"
  /\ sig.over = RRset(z, sig.owner, sig.covers)

\* The keys that verify a signature over the RRset; verifyRRSet marks them used.
usedBy(z, n, t, now) ==
  UNION {Signer(z, sig) : sig \in {sig \in sigsCovering(z, n, t) :
                                     Timely(sig, now) /\ Verify(z, sig)}}

sigFindings(z, sig, now) ==
  LET o == sig.owner
      t == sig.covers
  IN  Report(sig.damage = "labels", "RRSIG_LABELS_MISMATCH", o, t)
        \cup Report(NotYetValid(sig, now), "RRSIG_NOT_YET_VALID", o, t)
        \cup Report(~NotYetValid(sig, now) /\ Expired(sig, now), "RRSIG_EXPIRED", o, t)
        \cup Report(Timely(sig, now) /\ sig.damage = "ttl", "RRSIG_TTL_MISMATCH", o, t)
        \cup Report(Timely(sig, now) /\ ExpiringSoon(sig, now),
                    "RRSIG_EXPIRING_SOON", o, t)

\* A signature out of its validity is not unknown: the set is then invalid.
verifyRRSet(z, n, t, now) ==
  LET sigs    == sigsCovering(z, n, t)
      unknown == \A sig \in sigs : Timely(sig, now) /\ Signer(z, sig) = {}
  IN  IF sigs = {}
        THEN Report(~isDelegation(z, n) \/ t \in {"DS", "NSEC", "NSEC3"},
                    "RRSIG_MISSING", n, t)
        ELSE UNION {sigFindings(z, sig, now) : sig \in sigs}
               \cup Report(usedBy(z, n, t, now) = {},
                           IF unknown THEN "RRSIG_UNKNOWN_KEY" ELSE "RRSIG_INVALID",
                           n, t)

\* The RRsets of a name whose signatures verifyNode looks at.
signedTypes(z, n) ==
  IF isAuthoritative(z, n) THEN TypesAt(z, n) \ {"RRSIG", "NSEC3"} ELSE {}

checkDNSKEYSignedByKSK(z) ==
  Report(\A sig \in sigsCovering(z, origin, "DNSKEY") :
           ~(Verify(z, sig) /\ \E k \in Signer(z, sig) : k.sep),
         "DNSKEY_NOT_SIGNED_BY_KSK", origin, "DNSKEY")
-----------------------------------------------------------------------------
(* Denial of existence *)

\* Every NSEC record of an owner is looked at; the code takes the first.  With a
\* second one the RRset no longer verifies, so that the zone is invalid anyway.
checkNSECPresence(z, n) ==
  LET nsecs == RRset(z, n, "NSEC")
  IN  IF ~isAuthoritative(z, n) \/ "NSEC3" \in TypesAt(z, n) THEN {}
      ELSE Report(nsecs = {}, "NSEC_MISSING", n, "NSEC")
             \cup Report(\E r \in nsecs : r.types # TypesAt(z, n),
                         "NSEC_BITMAP_MISMATCH", n, "NSEC")

needsNSEC3(z, n) ==
  isAuthoritative(z, n) /\ ~(isDelegation(z, n) /\ ~hasDS(z, n))

checkNSEC3Presence(z, n, p) ==
  LET recs == RRset(z, HashName(n.label, p), "NSEC3")
  IN  IF isHash(n) \/ ~needsNSEC3(z, n) THEN {}
      ELSE Report(recs = {},
                  IF isDelegation(z, n) THEN "NSEC3_OPTOUT_VIOLATION" ELSE "NSEC3_MISSING",
                  n, "NSEC3")
             \cup Report(\E r \in recs : r.types # TypesAt(z, n) \ {"NSEC3"},
                         "NSEC3_BITMAP_MISMATCH", n, "NSEC3")

verifyNode(z, n, now) ==
  UNION {verifyRRSet(z, n, t, now) : t \in signedTypes(z, n)}
    \cup (IF params(z) # {} THEN UNION {checkNSEC3Presence(z, n, p) : p \in params(z)}
          ELSE IF isHash(n) THEN {} ELSE checkNSECPresence(z, n))

verifyNSECChain(z) ==
  LET names == {r.owner.label : r \in OfType(z, "NSEC")}
  IN  {NewFinding("NSEC_CHAIN_BROKEN", r.owner, "NSEC") :
         r \in {r \in OfType(z, "NSEC") :
                  r.next # Name(After(Canonical, names, r.owner.label))}}

\* The hash that follows in the NSEC3 index, cyclically.
NextNSEC3(z, h) ==
  HashName(After(Hashed, {r.owner.label : r \in OfType(z, "NSEC3")}, h.label), h.hash)

brokenNSEC3(z) == {r \in OfType(z, "NSEC3") : r.next # NextNSEC3(z, r.owner)}

verifyNSEC3Chain(z) ==
  Report(\E r \in OfType(z, "NSEC3"), p \in params(z) : r.owner.hash.iter # p.iter,
         "NSEC3PARAM_MISMATCH", origin, "NSEC3PARAM")
    \cup {NewFinding("NSEC3_CHAIN_BROKEN", r.owner, "NSEC3") : r \in brokenNSEC3(z)}
-----------------------------------------------------------------------------
(* ZONEMD and hygiene *)

verifyZONEMD(z) ==
  LET zmd == RRset(z, origin, "ZONEMD")
  IN  Report(zmd = {} /\ ZONEMDMode = "on", "ZONEMD_MISSING", origin, "ZONEMD")
        \cup Report(/\ zmd # {} /\ ZONEMDMode # "off"
                    /\ \A r \in zmd : r.digest # ComputeZONEMD(z),
                    "ZONEMD_MISMATCH", origin, "ZONEMD")

\* used: the keys that verified something in this pass.
hygiene(z, used) ==
  Report(\E p \in params(z) : p.iter > 0, "NSEC3_ITERATIONS_NONZERO", origin, "NSEC3PARAM")
    \cup Report(\E p \in params(z) : p.salt # "-", "NSEC3_SALT_PRESENT", origin, "NSEC3PARAM")
    \cup Report(/\ params(z) # {}
                /\ \E r \in OfType(z, "NSEC3") : r.optout
                /\ \A n \in nodes(z) : ~isDelegation(z, n),
                "NSEC3_OPTOUT_ZERO_DELEG", origin, "NSEC3PARAM")
    \cup Report(\E k \in Keys(z) : k.alg \in Deprecated,
                "DEPRECATED_ALGORITHM", origin, "DNSKEY")
    \cup Report(\E k \in Keys(z) : ~k.sep /\ k \notin used,
                "DNSKEY_UNUSED", origin, "DNSKEY")

\* The keys that verifyNode marks used at the given names.
usedIn(z, names, now) ==
  UNION {UNION {usedBy(z, n, t, now) : t \in signedTypes(z, n)} : n \in names}
-----------------------------------------------------------------------------
(* The passes *)

Result(mode, F, unsigned) ==
  [mode |-> mode, found |-> F, unsigned |-> unsigned,
   valid |-> unsigned \/ ~HasErrors(F)]

Full(z, now) ==
  IF Keys(z) = {} THEN Result("full", {}, TRUE)
  ELSE Result("full",
         checkDNSKEYSignedByKSK(z)
           \cup UNION {verifyNode(z, n, now) : n \in nodes(z)}
           \cup (IF params(z) # {} THEN verifyNSEC3Chain(z) ELSE verifyNSECChain(z))
           \cup verifyZONEMD(z)
           \cup hygiene(z, usedIn(z, nodes(z), now)),
         FALSE)

\* What ApplyChanges notes: the names, and the NSEC3 records, of a change.
touchedNames(c) == nodes(c.removes \cup c.adds)
touchedNSEC3(c) == nodes(OfType(c.removes \cup c.adds, "NSEC3"))

\* Mutant: a touched NSEC3 that is gone is passed over.
touchedChain_SkipsMissing(z, h, now) ==
  IF RRset(z, h, "NSEC3") = {} THEN {}
    ELSE {NewFinding("NSEC3_CHAIN_BROKEN", r.owner, "NSEC3") :
            r \in {r \in brokenNSEC3(z) : r.owner = h \/ NextNSEC3(z, r.owner) = h}}
           \cup verifyRRSet(z, h, "NSEC3", now)

\* A touched NSEC3: its next, its predecessor's next, and its signature.
touchedChain(z, h, now) ==
  IF RRset(z, h, "NSEC3") = {}
    THEN {NewFinding("NSEC3_CHAIN_BROKEN", origin, "NSEC3")}
    ELSE {NewFinding("NSEC3_CHAIN_BROKEN", r.owner, "NSEC3") :
            r \in {r \in brokenNSEC3(z) : r.owner = h \/ NextNSEC3(z, r.owner) = h}}
           \cup verifyRRSet(z, h, "NSEC3", now)

Set == INSTANCE Findings WITH Owners <- {origin}, Apex <- origin, RequireMatch <- FALSE

\* Incremental, after the change c led to z.
Incremental(z, prev, c, now) ==
  LET names  == touchedNames(c) \cap nodes(z)
      hashes == If(params(z) # {}, touchedNSEC3(c))
      used   == usedIn(z, names, now) \cup UNION {usedBy(z, h, "NSEC3", now) : h \in hashes}
      next   == UNION {verifyNode(z, n, now) : n \in names}
                  \cup UNION {touchedChain(z, h, now) : h \in hashes}
                  \cup hygiene(z, used)
  IN  IF OfType(c.removes \cup c.adds, "DNSKEY") \cup
         OfType(c.removes \cup c.adds, "NSEC3PARAM") # {}
        THEN Full(z, now)
      ELSE IF Keys(z) = {}
        THEN Result("incremental", Set!MergeReplace(prev, {}, {}), TRUE)
      ELSE Result("incremental", Set!MergeReplace(prev, next, touchedNames(c)), FALSE)

\* Mutant: the index is read to warn only.
SweepExpiry_WarnsOnly(z, now) ==
  {NewFinding("RRSIG_EXPIRING_SOON", s.owner, s.covers) :
     s \in {s \in OfType(z, "RRSIG") : ~Expired(s, now) /\ ExpiringSoon(s, now)}}

\* SweepExpiry over the index of all signatures, whatever they cover.
SweepExpiry(z, now) ==
  LET recs == {s \in OfType(z, "RRSIG") :
                 s.exp <= Add(Add(now, ClockSkew), ExpiryWarning)}
  IN  UNION {Report(Expired(s, now), "RRSIG_EXPIRED", s.owner, s.covers)
               \cup Report(~Expired(s, now) /\ ExpiringSoon(s, now),
                           "RRSIG_EXPIRING_SOON", s.owner, s.covers) : s \in recs}

\* The exit code of the one-shot check.
Run(z, now) ==
  LET found == Full(z, now).found
  IN  IF HasErrors(found) THEN 1 ELSE IF found # {} THEN 2 ELSE 0
=============================================================================
