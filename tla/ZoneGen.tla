------------------------------ MODULE ZoneGen ------------------------------
(***************************************************************************)
(* The zone generator (internal/zonegen): what records it makes from its    *)
(* options and how it signs them.                                           *)
(*                                                                          *)
(* A zone is a set of records, a record an owner, a type and the fields of  *)
(* its type.  A signature carries the RRset it was made over; it verifies   *)
(* over that RRset and no other.  A digest is the set of records digested.  *)
(* "First" in a Go map means any.  Key tags of different keys differ.       *)
(***************************************************************************)
EXTENDS Naturals, Sequences, FiniteSets

CONSTANTS
  Delegations,  \* labels of the delegations a zone may have
  GlueOf,       \* the name server below each delegation
  ParentOf,     \* the parent of every label below the apex
  Canonical,    \* all labels in canonical order
  Hashed,       \* all labels in the order of their hashes
  Far,          \* the default expiration, 0x7fffffff
  Soon          \* how far ahead ExpiringSoonLive expires, within the warning

Labels == {Canonical[i] : i \in DOMAIN Canonical}

ASSUME ZoneGenAssumption ==
  /\ {"@", "ns1", "ns2", "*", "alias", "child", "ent.child"} \subseteq Labels
  /\ Delegations \subseteq Labels \ {"@"}
  /\ Labels = {Hashed[i] : i \in DOMAIN Hashed}
  /\ GlueOf \in [Delegations -> Labels]
  /\ ParentOf \in [Labels \ {"@"} -> Labels]
  /\ \A d \in Delegations : ParentOf[d] = "@" /\ ParentOf[GlueOf[d]] = d
  /\ Far \in Nat /\ Soon \in Nat

\* A name is a label, or the hash of one under the given NSEC3 parameters.
Plain          == [iter |-> 0, salt |-> "plain"]
Name(l)        == [label |-> l, hash |-> Plain]
HashName(l, p) == [label |-> l, hash |-> p]
origin         == Name("@")
isHash(n)      == n.hash # Plain

\* The names strictly between a label and the apex.
Between[l \in Labels] ==
  IF l = "@" \/ ParentOf[l] = "@" THEN {}
  ELSE {Name(ParentOf[l])} \cup Between[ParentOf[l]]

Above(n) == IF isHash(n) THEN {} ELSE Between[n.label]

\* The label of S after l in a cyclic order.
After(order, S, l) ==
  LET pos(x) == CHOOSE i \in DOMAIN order : order[i] = x
      later  == {x \in S : pos(x) > pos(l)}
      pool   == IF later = {} THEN S ELSE later
  IN  CHOOSE x \in pool : \A y \in pool : pos(x) <= pos(y)

(* Records *)

SOA(n)           == [owner |-> origin, type |-> "SOA", serial |-> n]
Data(o, t, v)    == [owner |-> o, type |-> t, rdata |-> v]
DNSKEY(k, sep, alg) ==
  [owner |-> origin, type |-> "DNSKEY", key |-> k, sep |-> sep, alg |-> alg]
NSEC(o, next, types) ==
  [owner |-> o, type |-> "NSEC", next |-> next, types |-> types]
NSEC3(o, next, types, optout) ==
  [owner |-> o, type |-> "NSEC3", next |-> next, types |-> types,
   optout |-> optout]
NSEC3PARAM(p)    == [owner |-> origin, type |-> "NSEC3PARAM", param |-> p]
ZONEMD(digest)   == [owner |-> origin, type |-> "ZONEMD", digest |-> digest]

At(z, o)         == {r \in z : r.owner = o}
TypesAt(z, o)    == {r.type : r \in At(z, o)}
RRset(z, o, t)   == {r \in z : r.owner = o /\ r.type = t}
OfType(z, t)     == {r \in z : r.type = t}
nodes(z)        == {r.owner : r \in z}
sigsCovering(z, o, t) == {r \in RRset(z, o, "RRSIG") : r.covers = t}
Serial(z)        == (CHOOSE r \in OfType(z, "SOA") : TRUE).serial
isDelegation(z, n) == n # origin /\ "NS" \in TypesAt(z, n)

\* ResignRRSet.  "damage" is what a defect did to the signature afterwards.
ResignRRSet(set, key, inc, exp) ==
  LET r == CHOOSE r \in set : TRUE
  IN  [owner |-> r.owner, type |-> "RRSIG", covers |-> r.type, key |-> key,
       inc |-> inc, exp |-> exp, damage |-> "none", over |-> set]
-----------------------------------------------------------------------------
(* Generate *)

\* delegations and secure stand for the numbers of them.
Options ==
  [denial : {"nsec", "nsec3", "nsec3-optout", "none"}, delegations : SUBSET Delegations,
   secure : SUBSET Delegations, alg : STRING, param : [iter : Nat, salt : STRING],
   exp : Nat, wildcard : BOOLEAN, dname : BOOLEAN, zonemd : BOOLEAN, unused : BOOLEAN]

addENTs(names) == names \cup UNION {Above(n) : n \in names}

buildNSEC(rrs) ==
  LET names == addENTs(nodes(rrs))
      next(n) == Name(After(Canonical, {m.label : m \in names}, n.label))
  IN  {NSEC(n, next(n), TypesAt(rrs, n) \cup {"NSEC", "RRSIG"}) : n \in names}

underDelegation(rrs, n) == \E a \in Above(n) : isDelegation(rrs, a)

\* Mutant: opt-out leaves out the secure delegations as well.
NSEC3Names_OptsOutAll(rrs, optout) ==
  {n \in addENTs(nodes(rrs)) :
     ~underDelegation(rrs, n) /\ ~(optout /\ isDelegation(rrs, n))}

\* The names buildNSEC3 makes a record for: no glue and, with opt-out, no
\* insecure delegation.
NSEC3Names(rrs, optout) ==
  {n \in addENTs(nodes(rrs)) :
     /\ ~underDelegation(rrs, n)
     /\ ~(optout /\ isDelegation(rrs, n) /\ "DS" \notin TypesAt(rrs, n))}

buildNSEC3(rrs, p, optout) ==
  LET names == NSEC3Names(rrs, optout)
      next(n) == HashName(After(Hashed, {m.label : m \in names}, n.label), p)
  IN  {NSEC3(HashName(n.label, p), next(n), TypesAt(rrs, n) \cup {"RRSIG"}, optout) :
         n \in names}

isGlue(rrs, n, t) == t = "A" /\ underDelegation(rrs, n)

\* signZone: the NS at a cut and the glue below it stay unsigned.
signZone(rrs, exp) ==
  LET signed == {g \in {<<r.owner, r.type>> : r \in rrs} :
                   ~(g[1] # origin /\ g[2] = "NS") /\ ~isGlue(rrs, g[1], g[2])}
      signer(t) == IF t = "DNSKEY" THEN "ksk" ELSE "zsk"
  IN  rrs \cup {ResignRRSet(RRset(rrs, g[1], g[2]), signer(g[2]), 1, exp) :
                  g \in signed}

\* ComputeZONEMD: everything but the digest and its signature.
ComputeZONEMD(z) ==
  {IF r.type = "ZONEMD" THEN ZONEMD({}) ELSE r :
     r \in z \ sigsCovering(z, origin, "ZONEMD")}

finalizeZONEMD(z, exp) ==
  LET neu == ZONEMD(ComputeZONEMD(z))
  IN  (z \ (RRset(z, origin, "ZONEMD") \cup sigsCovering(z, origin, "ZONEMD")))
        \cup {neu, ResignRRSet({neu}, "zsk", 1, exp)}

delegation(d, secure) ==
  {Data(Name(d), "NS", GlueOf[d]), Data(Name(GlueOf[d]), "A", "addr")}
    \cup (IF d \in secure THEN {Data(Name(d), "DS", "child key")} ELSE {})

If(b, S) == IF b THEN S ELSE {}

\* The records of Generate before the denial records and the signatures.
content(opt) ==
  {SOA(1), Data(origin, "NS", "ns1"), Data(origin, "NS", "ns2"),
   Data(Name("ns1"), "A", "addr"), Data(Name("ns2"), "A", "addr")}
  \cup If(opt.denial # "none",
          {DNSKEY("ksk", TRUE, opt.alg), DNSKEY("zsk", FALSE, opt.alg)})
  \cup If(opt.unused, {DNSKEY("extra", FALSE, opt.alg)})
  \cup (UNION {delegation(d, opt.secure) : d \in opt.delegations})
  \cup If(opt.wildcard, {Data(Name("*"), "A", "addr")})
  \cup If(opt.dname, {Data(Name("alias"), "DNAME", "target"),
                      Data(Name("ent.child"), "TXT", "text")})
  \cup If(opt.zonemd /\ opt.denial # "none", {ZONEMD({})})

denial(opt, rrs) ==
  CASE opt.denial \in {"nsec3", "nsec3-optout"} ->
         LET all == rrs \cup {NSEC3PARAM(opt.param)}
         IN  all \cup buildNSEC3(all, opt.param, opt.denial = "nsec3-optout")
    [] opt.denial = "nsec" -> rrs \cup buildNSEC(rrs)
    [] opt.denial = "none" -> rrs

Generate(opt) ==
  LET rrs == denial(opt, content(opt))
      z   == IF opt.denial = "none" THEN rrs ELSE signZone(rrs, opt.exp)
  IN  IF opt.zonemd /\ opt.denial # "none" THEN finalizeZONEMD(z, opt.exp) ELSE z
=============================================================================
