------------------------------ MODULE Defects ------------------------------
(***************************************************************************)
(* The defects of internal/zonegen/mutate.go and the example zones of       *)
(* examples.go.  A defect is the set of changes it may make to a zone, one  *)
(* for every record that may come first; the set is empty where the code    *)
(* reports an error.  A change is the records it removes and adds.          *)
(***************************************************************************)
EXTENDS ZoneGen

Change(removes, adds) == [removes |-> removes, adds |-> adds]
Replace(old, new) == Change({old}, {new})
NoChange == Change({}, {})

\* replaceRRs, and the store's ApplyChanges: removals come first.
Apply(z, c) == (z \ c.removes) \cup c.adds

\* The signatures of some DS RRset or, in a zone without DS, of an apex RRset.
firstDSorApex(z, t) ==
  LET ds == {r.owner : r \in OfType(z, "DS")}
  IN  IF ds = {} THEN sigsCovering(z, origin, t)
      ELSE UNION {sigsCovering(z, o, "DS") : o \in ds}

FlipRRSIG(z) ==
  {Replace(sig, [sig EXCEPT !.damage = "bits"]) : sig \in firstDSorApex(z, "SOA")}

DropRRSIG(z) == {Change({sig}, {}) : sig \in firstDSorApex(z, "NS")}

\* The defects of the SOA signature: signed again, or edited in place.
SOASigs(z) == sigsCovering(z, origin, "SOA")

resignSOA(z, key, inc, exp) ==
  {Replace(sig, ResignRRSet(RRset(z, origin, "SOA"), key, inc, exp)) :
     sig \in SOASigs(z)}

ExpireRRSIG(z)      == resignSOA(z, "zsk", 1, 2)
FutureRRSIG(z)      == resignSOA(z, "zsk", Far - 1, Far)
UnknownKeyRRSIG(z)  == resignSOA(z, "foreign", 1, Far)
ExpiringSoonLive(z, now) == resignSOA(z, "zsk", now - 1, now + Soon)
LabelsMismatch(z) ==
  {Replace(sig, [sig EXCEPT !.damage = "labels"]) : sig \in SOASigs(z)}
TTLMismatch(z) ==
  {Replace(sig, [sig EXCEPT !.damage = "ttl"]) : sig \in SOASigs(z)}

FakeZONEMD(z) == {Change({}, {ZONEMD({})})}

\* Without the signatures of the KSK: signZone made no other.
DNSKEYSignedByZSKOnly(z) ==
  {Change({s \in sigsCovering(z, origin, "DNSKEY") : s.key = "ksk"}, {})}

DropNSEC3(z) ==
  {Change(RRset(z, r.owner, "NSEC3"), {}) : r \in OfType(z, "NSEC3")}

BreakNSEC3Chain(z) ==
  {Replace(r, [r EXCEPT !.next = HashName("none", r.owner.hash)]) :
     r \in OfType(z, "NSEC3")}

NSEC3BitmapDropDS(z) ==
  {Replace(r, [r EXCEPT !.types = @ \ {"DS"}]) :
     r \in {r \in OfType(z, "NSEC3") : "DS" \in r.types}}

BreakNSECChain(z) ==
  {Replace(r, [r EXCEPT !.next = Name("none")]) : r \in OfType(z, "NSEC")}

\* A delegation's NSEC, or in a zone without delegations any but the apex's.
DropNSEC(z) ==
  LET cuts == {r \in OfType(z, "NSEC") : isDelegation(z, r.owner)}
      rest == {r \in OfType(z, "NSEC") : r.owner # origin}
  IN  {Change(RRset(z, r.owner, "NSEC"), {}) : r \in IF cuts = {} THEN rest ELSE cuts}

NSEC3PARAMMismatch(z) ==
  {Replace(r, NSEC3PARAM([r.param EXCEPT !.iter = 10])) : r \in OfType(z, "NSEC3PARAM")}

MixDenial(z) == {Change({}, {NSEC3PARAM([iter |-> 0, salt |-> "-"])})}

MixNSEC(z) ==
  {Change({}, {NSEC(origin, Name("none"),
                    {"NS", "SOA", "RRSIG", "NSEC", "DNSKEY", "NSEC3PARAM"})})}

Catalogue ==
  {"none", "FlipRRSIG", "DropRRSIG", "ExpireRRSIG", "FutureRRSIG", "UnknownKeyRRSIG",
   "LabelsMismatch", "TTLMismatch", "ExpiringSoonLive", "FakeZONEMD",
   "DNSKEYSignedByZSKOnly", "DropNSEC3", "BreakNSEC3Chain", "NSEC3BitmapDropDS",
   "BreakNSECChain", "DropNSEC", "NSEC3PARAMMismatch", "MixDenial", "MixNSEC"}

\* The mutators by name.  ExpiringSoon differs from ExpiringSoonLive in its clock only.
Mutate(m, z, now) ==
  CASE m = "none"                  -> {NoChange}
    [] m = "FlipRRSIG"             -> FlipRRSIG(z)
    [] m = "DropRRSIG"             -> DropRRSIG(z)
    [] m = "ExpireRRSIG"           -> ExpireRRSIG(z)
    [] m = "FutureRRSIG"           -> FutureRRSIG(z)
    [] m = "UnknownKeyRRSIG"       -> UnknownKeyRRSIG(z)
    [] m = "LabelsMismatch"        -> LabelsMismatch(z)
    [] m = "TTLMismatch"           -> TTLMismatch(z)
    [] m = "ExpiringSoonLive"      -> ExpiringSoonLive(z, now)
    [] m = "FakeZONEMD"            -> FakeZONEMD(z)
    [] m = "DNSKEYSignedByZSKOnly" -> DNSKEYSignedByZSKOnly(z)
    [] m = "DropNSEC3"             -> DropNSEC3(z)
    [] m = "BreakNSEC3Chain"       -> BreakNSEC3Chain(z)
    [] m = "NSEC3BitmapDropDS"     -> NSEC3BitmapDropDS(z)
    [] m = "BreakNSECChain"        -> BreakNSECChain(z)
    [] m = "DropNSEC"              -> DropNSEC(z)
    [] m = "NSEC3PARAMMismatch"    -> NSEC3PARAMMismatch(z)
    [] m = "MixDenial"             -> MixDenial(z)
    [] m = "MixNSEC"               -> MixNSEC(z)

\* SignedSerialBump: the next SOA and its signature, with the old validity.
SignedSerialBump(z) ==
  LET soa == RRset(z, origin, "SOA")
      neu == {SOA(Serial(z) + 1)}
  IN  {Change(soa \cup {sig}, neu \cup {ResignRRSet(neu, "zsk", sig.inc, sig.exp)}) :
         sig \in SOASigs(z)}
-----------------------------------------------------------------------------
(* The example pack *)

baseOpts(kind) ==
  [denial |-> kind, delegations |-> Delegations, secure |-> {},
   alg |-> "ECDSAP256SHA256", param |-> [iter |-> 0, salt |-> "-"],
   exp |-> Far, wildcard |-> FALSE, dname |-> FALSE, zonemd |-> FALSE,
   unused |-> FALSE]

\* pct: the share of the delegations that are secure, 50 (any of them) or 100.
Example(expect, want, mutate, pct, opt) ==
  [expect |-> expect, want |-> want, mutate |-> mutate, pct |-> pct, opt |-> opt]

Broken(kind, pct, want, mutate) ==
  Example("invalid", want, mutate, pct, baseOpts(kind))

\* ExamplePack, its first part: signatures, keys and algorithms ...
SignatureExamples ==
  {Broken("nsec3-optout", 50, "RRSIG_MISSING", "DropRRSIG"),
   Broken("nsec3-optout", 50, "RRSIG_EXPIRED", "ExpireRRSIG"),
   Broken("nsec3-optout", 50, "RRSIG_NOT_YET_VALID", "FutureRRSIG"),
   Broken("nsec3-optout", 50, "RRSIG_UNKNOWN_KEY", "UnknownKeyRRSIG"),
   Broken("nsec3-optout", 50, "RRSIG_LABELS_MISMATCH", "LabelsMismatch"),
   Broken("nsec3-optout", 50, "RRSIG_INVALID", "TTLMismatch"),
   Example("warning", "RRSIG_EXPIRING_SOON", "ExpiringSoonLive", 50,
           baseOpts("nsec3-optout")),
   Broken("nsec3-optout", 50, "DNSKEY_NOT_SIGNED_BY_KSK", "DNSKEYSignedByZSKOnly"),
   Example("warning", "DNSKEY_UNUSED", "none", 50,
           [baseOpts("nsec3-optout") EXCEPT !.unused = TRUE]),
   Example("warning", "DEPRECATED_ALGORITHM", "none", 50,
           [baseOpts("nsec") EXCEPT !.alg = "RSASHA1"]),
   Example("warning", "DEPRECATED_ALGORITHM", "none", 100,
           [baseOpts("nsec3") EXCEPT !.alg = "RSASHA1-NSEC3-SHA1"]),
   Example("valid", "", "none", 50, [baseOpts("nsec") EXCEPT !.alg = "RSASHA256"]),
   Example("valid", "", "none", 50, [baseOpts("nsec") EXCEPT !.alg = "ED25519"])}

\* ... and its second: denial of existence and digests.
DenialExamples ==
  {Broken("nsec3-optout", 100, "NSEC3_CHAIN_BROKEN", "DropNSEC3"),
   Broken("nsec3-optout", 50, "NSEC3_CHAIN_BROKEN", "BreakNSEC3Chain"),
   Broken("nsec3-optout", 100, "NSEC3_BITMAP_MISMATCH", "NSEC3BitmapDropDS"),
   Broken("nsec3-optout", 50, "NSEC3PARAM_MISMATCH", "NSEC3PARAMMismatch"),
   Example("warning", "NSEC3_ITERATIONS_NONZERO", "none", 100,
           [baseOpts("nsec3") EXCEPT !.param.iter = 5]),
   Example("warning", "NSEC3_SALT_PRESENT", "none", 100,
           [baseOpts("nsec3") EXCEPT !.param.salt = "aabb"]),
   Example("valid", "", "none", 100, baseOpts("nsec3")),
   Broken("nsec", 50, "NSEC_MISSING", "DropNSEC"),
   Broken("nsec", 50, "NSEC_CHAIN_BROKEN", "BreakNSECChain"),
   Broken("nsec", 50, "NSEC3_MISSING", "MixDenial"),
   Broken("nsec3-optout", 50, "RRSIG_MISSING", "MixNSEC"),
   Broken("nsec3-optout", 50, "ZONEMD_MISMATCH", "FakeZONEMD"),
   Example("valid", "", "none", 50,
           [baseOpts("nsec") EXCEPT !.delegations = {}, !.zonemd = TRUE]),
   Example("valid", "", "none", 50,
           [baseOpts("nsec") EXCEPT !.wildcard = TRUE, !.dname = TRUE])}

\* loadExamplePack: what the test primary serves besides the pack.
extras ==
  {Example("valid", "", "none", 50, baseOpts("nsec3-optout")),
   Example("valid", "", "none", 50, baseOpts("nsec")),
   Example("unsigned", "", "none", 50, [baseOpts("none") EXCEPT !.delegations = {}]),
   Broken("nsec3-optout", 50, "RRSIG_INVALID", "FlipRRSIG")}

\* The options GenerateExample may draw: which delegations are secure.
Drawn(spec) ==
  {[spec.opt EXCEPT !.secure = S] :
     S \in IF spec.pct = 100 THEN {spec.opt.delegations}
           ELSE SUBSET spec.opt.delegations}
=============================================================================
