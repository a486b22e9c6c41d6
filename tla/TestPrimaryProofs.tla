------------------------- MODULE TestPrimaryProofs -------------------------
(***************************************************************************)
(* An auditor that has the test primary's serial has its records: proofs    *)
(* about TestPrimary, for any zones and any updates of the catalogue.       *)
(***************************************************************************)
EXTENDS TestPrimary, TLAPS

-----------------------------------------------------------------------------
(* Zones and changes *)

\* A record whose type can be read.
IsRecord(r) == "type" \in DOMAIN r

\* A zone with one SOA, of serial n.
IsZone(z, n) ==
  /\ n \in Nat
  /\ \A r \in z : IsRecord(r)
  /\ \A r \in z : r.type = "SOA" => r = SOA(n)
  /\ SOA(n) \in z

\* A change that leaves the SOA alone.
IsPlain(c) ==
  /\ \A r \in c.removes : r.type # "SOA"
  /\ \A r \in c.adds : IsRecord(r) /\ r.type # "SOA"

\* A change that replaces the SOA of serial n by the next one.
IsBump(c, n) ==
  /\ SOA(n) \in c.removes /\ \A r \in c.removes : r.type = "SOA" => r = SOA(n)
  /\ SOA(n + 1) \in c.adds
  /\ \A r \in c.adds : IsRecord(r) /\ (r.type = "SOA" => r = SOA(n + 1))

LEMMA SerialOf ==
  ASSUME NEW z, NEW n, IsZone(z, n)
  PROVE  Serial(z) = n
<1>1. SOA(n).type = "SOA" /\ SOA(n).serial = n
  BY DEF SOA
<1>2. OfType(z, "SOA") = {SOA(n)}
  BY <1>1 DEF IsZone, OfType
<1>3. (CHOOSE r \in {SOA(n)} : TRUE) = SOA(n)
  OBVIOUS
<1> QED BY <1>1, <1>2, <1>3 DEF Serial

LEMMA PlainApplied ==
  ASSUME NEW z, NEW n, IsZone(z, n), NEW c, IsPlain(c)
  PROVE  IsZone(Apply(z, c), n)
<1>1. SOA(n).type = "SOA"
  BY DEF SOA
<1> QED BY <1>1 DEF IsZone, IsPlain, Apply

LEMMA BumpApplied ==
  ASSUME NEW z, NEW n, IsZone(z, n), NEW c, IsBump(c, n)
  PROVE  IsZone(Apply(z, c), n + 1)
  BY DEF IsZone, IsBump, Apply

\* Records that are no SOA.
NoSOA(S) == \A r \in S : IsRecord(r) /\ r.type # "SOA"

LEMMA ZoneWith ==
  ASSUME NEW z, NEW n, IsZone(z, n), NEW S, NoSOA(S)
  PROVE  IsZone(z \cup S, n)
  BY DEF IsZone, NoSOA

LEMMA RecordKinds ==
  /\ \A o, t, v : t # "SOA" => NoSOA({Data(o, t, v)})
  /\ \A k, sep, alg : NoSOA({DNSKEY(k, sep, alg)})
  /\ \A o, next, types : NoSOA({NSEC(o, next, types)})
  /\ \A o, next, types, optout : NoSOA({NSEC3(o, next, types, optout)})
  /\ \A p : NoSOA({NSEC3PARAM(p)})
  /\ \A d : NoSOA({ZONEMD(d)})
<1>1. \A o, t, v : t # "SOA" => NoSOA({Data(o, t, v)})
  BY DEF NoSOA, IsRecord, Data
<1>2. \A k, sep, alg : NoSOA({DNSKEY(k, sep, alg)})
  BY DEF NoSOA, IsRecord, DNSKEY
<1>3. \A o, next, types : NoSOA({NSEC(o, next, types)})
  BY DEF NoSOA, IsRecord, NSEC
<1>4. \A o, next, types, optout : NoSOA({NSEC3(o, next, types, optout)})
  BY DEF NoSOA, IsRecord, NSEC3
<1>5. \A p : NoSOA({NSEC3PARAM(p)})
  BY DEF NoSOA, IsRecord, NSEC3PARAM
<1>6. \A d : NoSOA({ZONEMD(d)})
  BY DEF NoSOA, IsRecord, ZONEMD
<1> QED BY <1>1, <1>2, <1>3, <1>4, <1>5, <1>6

LEMMA Resigns ==
  ASSUME NEW set, NEW key, NEW inc, NEW exp
  PROVE  NoSOA({ResignRRSet(set, key, inc, exp)})
  BY DEF NoSOA, IsRecord, ResignRRSet

LEMMA ContentZone ==
  ASSUME NEW opt
  PROVE  IsZone(content(opt), 1)
<1> DEFINE base == {SOA(1), Data(origin, "NS", "ns1"), Data(origin, "NS", "ns2"),
                    Data(Name("ns1"), "A", "addr"), Data(Name("ns2"), "A", "addr")}
           keys == If(opt.denial # "none",
                      {DNSKEY("ksk", TRUE, opt.alg), DNSKEY("zsk", FALSE, opt.alg)})
           extra == If(opt.unused, {DNSKEY("extra", FALSE, opt.alg)})
           cuts == UNION {delegation(d, opt.secure) : d \in opt.delegations}
           wild == If(opt.wildcard, {Data(Name("*"), "A", "addr")})
           alias == If(opt.dname, {Data(Name("alias"), "DNAME", "target"),
                                   Data(Name("ent.child"), "TXT", "text")})
           digest == If(opt.zonemd /\ opt.denial # "none", {ZONEMD({})})
<1>1. NoSOA(keys) /\ NoSOA(extra) /\ NoSOA(wild) /\ NoSOA(alias) /\ NoSOA(digest)
  BY RecordKinds DEF NoSOA, If
<1>2. NoSOA(cuts)
  <2>1. \A d : NoSOA(delegation(d, opt.secure))
    BY RecordKinds DEF NoSOA, delegation
  <2> QED BY <2>1 DEF NoSOA
<1>3. IsZone(base, 1)
  <2>1. IsRecord(SOA(1)) /\ SOA(1).type = "SOA"
    BY DEF SOA, IsRecord
  <2>2. NoSOA({Data(origin, "NS", "ns1"), Data(origin, "NS", "ns2"),
               Data(Name("ns1"), "A", "addr"), Data(Name("ns2"), "A", "addr")})
    BY RecordKinds DEF NoSOA
  <2> QED BY <2>1, <2>2 DEF IsZone, NoSOA
<1>4. content(opt) = base \cup keys \cup extra \cup cuts \cup wild \cup alias \cup digest
  BY DEF content
<1> HIDE DEF base, keys, extra, cuts, wild, alias, digest
<1>5. NoSOA(keys \cup extra \cup cuts \cup wild \cup alias \cup digest)
  BY <1>1, <1>2 DEF NoSOA
<1>6. content(opt) = base \cup (keys \cup extra \cup cuts \cup wild \cup alias \cup digest)
  BY <1>4
<1> QED BY <1>3, <1>5, <1>6, ZoneWith

LEMMA DenialZone ==
  ASSUME NEW opt \in Options, NEW z, IsZone(z, 1)
  PROVE  IsZone(denial(opt, z), 1)
<1>1. \A rrs, p, optout : NoSOA(buildNSEC3(rrs, p, optout))
  BY RecordKinds DEF NoSOA, buildNSEC3
<1>2. \A rrs : NoSOA(buildNSEC(rrs))
  BY RecordKinds DEF NoSOA, buildNSEC
<1>3. CASE opt.denial \in {"nsec3", "nsec3-optout"}
  <2> DEFINE all == z \cup {NSEC3PARAM(opt.param)}
  <2>1. IsZone(all, 1)
    BY RecordKinds, ZoneWith
  <2>2. IsZone(all \cup buildNSEC3(all, opt.param, opt.denial = "nsec3-optout"), 1)
    <3> HIDE DEF all
    <3> QED BY <1>1, <2>1, ZoneWith
  <2> QED BY <1>3, <2>2 DEF denial
<1>4. CASE opt.denial = "nsec"
  BY <1>2, <1>4, ZoneWith DEF denial
<1>5. CASE opt.denial = "none"
  BY <1>5 DEF denial
<1> QED BY <1>3, <1>4, <1>5 DEF Options

\* What the generator makes is a zone with one SOA, of serial 1.
LEMMA GeneratedZone ==
  ASSUME NEW opt \in Options
  PROVE  IsZone(Generate(opt), 1)
<1> DEFINE rrs == denial(opt, content(opt))
           z   == IF opt.denial = "none" THEN rrs ELSE signZone(rrs, opt.exp)
<1>1. IsZone(rrs, 1)
  BY ContentZone, DenialZone
<1>2. IsZone(signZone(rrs, opt.exp), 1)
  <2> HIDE DEF rrs
  <2> DEFINE signed == {g \in {<<r.owner, r.type>> : r \in rrs} :
                          ~(g[1] # origin /\ g[2] = "NS") /\ ~isGlue(rrs, g[1], g[2])}
             signer(t) == IF t = "DNSKEY" THEN "ksk" ELSE "zsk"
             sigs == {ResignRRSet(RRset(rrs, g[1], g[2]), signer(g[2]), 1, opt.exp) :
                        g \in signed}
  <2>1. signZone(rrs, opt.exp) = rrs \cup sigs
    BY Zenon DEF signZone
  <2> HIDE DEF signed, signer
  <2>2. NoSOA(sigs)
    BY Resigns DEF NoSOA
  <2> HIDE DEF sigs
  <2> QED BY <1>1, <2>1, <2>2, ZoneWith
<1>3. IsZone(z, 1)
  BY <1>1, <1>2
<1> HIDE DEF z
<1>4. IsZone(finalizeZONEMD(z, opt.exp), 1)
  <2> DEFINE neu  == ZONEMD(ComputeZONEMD(z))
             sig  == ResignRRSet({neu}, "zsk", 1, opt.exp)
             gone == RRset(z, origin, "ZONEMD") \cup sigsCovering(z, origin, "ZONEMD")
  <2>1. finalizeZONEMD(z, opt.exp) = (z \ gone) \cup {neu, sig}
    BY Zenon DEF finalizeZONEMD
  <2>2. NoSOA({neu, sig})
    BY RecordKinds, Resigns DEF NoSOA
  <2>3. IsZone(z \ gone, 1)
    <3>1. \A r \in gone : r.type # "SOA"
      BY DEF RRset, sigsCovering
    <3>2. SOA(1).type = "SOA"
      BY DEF SOA
    <3> QED BY <1>3, <3>1, <3>2 DEF IsZone
  <2> HIDE DEF neu, sig, gone
  <2> QED BY <2>1, <2>2, <2>3, ZoneWith
<1> QED BY <1>3, <1>4 DEF Generate, z

\* The defects that edit a record in place keep its type.
LEMMA Edited ==
  ASSUME NEW r, IsRecord(r), r.type # "SOA", NEW v
  PROVE  /\ NoSOA({[r EXCEPT !.damage = v]}) /\ NoSOA({[r EXCEPT !.next = v]})
         /\ NoSOA({[r EXCEPT !.types = v]}) /\ NoSOA({[r EXCEPT !.over = v]})
  BY DEF NoSOA, IsRecord

LEMMA PlainReplace ==
  ASSUME NEW old, old.type # "SOA", NEW new, NoSOA({new})
  PROVE  IsPlain(Replace(old, new))
  BY DEF IsPlain, Replace, Change, NoSOA

LEMMA PlainRemoval ==
  ASSUME NEW R, \A r \in R : r.type # "SOA"
  PROVE  IsPlain(Change(R, {}))
  BY DEF IsPlain, Change

\* The records the defects look up.
LEMMA LookedUp ==
  ASSUME NEW z, NEW n, IsZone(z, n)
  PROVE  /\ \A o, t : \A r \in sigsCovering(z, o, t) : IsRecord(r) /\ r.type = "RRSIG"
         /\ \A t : \A r \in OfType(z, t) : IsRecord(r) /\ r.type = t
         /\ \A o, t : \A r \in RRset(z, o, t) : IsRecord(r) /\ r.type = t
         /\ \A t : \A r \in firstDSorApex(z, t) : IsRecord(r) /\ r.type = "RRSIG"
<1>1. \A o, t : \A r \in sigsCovering(z, o, t) : IsRecord(r) /\ r.type = "RRSIG"
  BY DEF IsZone, sigsCovering, RRset
<1>2. \A t : \A r \in OfType(z, t) : IsRecord(r) /\ r.type = t
  BY DEF IsZone, OfType
<1>3. \A o, t : \A r \in RRset(z, o, t) : IsRecord(r) /\ r.type = t
  BY DEF IsZone, RRset
<1>4. ASSUME NEW t, NEW r \in firstDSorApex(z, t)
      PROVE  \E o, u : r \in sigsCovering(z, o, u)
  BY <1>4 DEF firstDSorApex
<1> QED BY <1>1, <1>2, <1>3, <1>4

\* No defect of the catalogue touches the SOA.
LEMMA MutatePlain ==
  ASSUME NEW z, NEW n, IsZone(z, n), NEW t, NEW m \in Catalogue, NEW c \in Mutate(m, z, t)
  PROVE  IsPlain(c)
<1> USE LookedUp
<1>1. CASE m = "none"
  BY <1>1 DEF Mutate, NoChange, Change, IsPlain
<1>2. CASE m = "FlipRRSIG"
  <2>1. PICK r \in firstDSorApex(z, "SOA") : c = Replace(r, [r EXCEPT !.damage = "bits"])
    BY <1>2 DEF Mutate, FlipRRSIG
  <2>2. IsRecord(r) /\ r.type # "SOA"
    BY <2>1, LookedUp
  <2>3. NoSOA({[r EXCEPT !.damage = "bits"]})
    BY <2>2, Edited
  <2> QED BY ONLY <2>1, <2>2, <2>3, PlainReplace
<1>3. CASE m = "DropRRSIG"
  <2>1. PICK sig \in firstDSorApex(z, "NS") : c = Change({sig}, {})
    BY <1>3 DEF Mutate, DropRRSIG
  <2> QED BY <2>1, PlainRemoval
<1>4. \A key, inc, exp : \A d \in resignSOA(z, key, inc, exp) : IsPlain(d)
  BY Resigns, PlainReplace DEF resignSOA, SOASigs
<1>5. CASE m \in {"ExpireRRSIG", "FutureRRSIG", "UnknownKeyRRSIG", "ExpiringSoonLive"}
  BY <1>4, <1>5 DEF Mutate, ExpireRRSIG, FutureRRSIG, UnknownKeyRRSIG, ExpiringSoonLive
<1>6. CASE m = "LabelsMismatch"
  <2>1. PICK r \in SOASigs(z) : c = Replace(r, [r EXCEPT !.damage = "labels"])
    BY <1>6 DEF Mutate, LabelsMismatch
  <2>2. IsRecord(r) /\ r.type # "SOA"
    BY <2>1, LookedUp DEF SOASigs
  <2>3. NoSOA({[r EXCEPT !.damage = "labels"]})
    BY <2>2, Edited
  <2> QED BY ONLY <2>1, <2>2, <2>3, PlainReplace
<1>7. CASE m = "TTLMismatch"
  <2>1. PICK r \in SOASigs(z) : c = Replace(r, [r EXCEPT !.damage = "ttl"])
    BY <1>7 DEF Mutate, TTLMismatch
  <2>2. IsRecord(r) /\ r.type # "SOA"
    BY <2>1, LookedUp DEF SOASigs
  <2>3. NoSOA({[r EXCEPT !.damage = "ttl"]})
    BY <2>2, Edited
  <2> QED BY ONLY <2>1, <2>2, <2>3, PlainReplace
<1>8. CASE m = "FakeZONEMD"
  BY <1>8, RecordKinds DEF Mutate, FakeZONEMD, Change, IsPlain, NoSOA
<1>9. CASE m = "DNSKEYSignedByZSKOnly"
  BY <1>9, PlainRemoval DEF Mutate, DNSKEYSignedByZSKOnly
<1>10. CASE m = "DropNSEC3"
  <2>1. PICK r : c = Change(RRset(z, r.owner, "NSEC3"), {})
    BY <1>10 DEF Mutate, DropNSEC3
  <2> QED BY <2>1, PlainRemoval
<1>11. CASE m = "BreakNSEC3Chain"
  <2>1. PICK r \in OfType(z, "NSEC3") : c = Replace(r, [r EXCEPT !.next = HashName("none", r.owner.hash)])
    BY <1>11 DEF Mutate, BreakNSEC3Chain
  <2>2. IsRecord(r) /\ r.type # "SOA"
    BY <2>1, LookedUp
  <2>3. NoSOA({[r EXCEPT !.next = HashName("none", r.owner.hash)]})
    BY <2>2, Edited
  <2> QED BY ONLY <2>1, <2>2, <2>3, PlainReplace
<1>12. CASE m = "NSEC3BitmapDropDS"
  <2>1. PICK r \in OfType(z, "NSEC3") : c = Replace(r, [r EXCEPT !.types = r.types \ {"DS"}])
    BY <1>12 DEF Mutate, NSEC3BitmapDropDS
  <2>2. IsRecord(r) /\ r.type # "SOA"
    BY <2>1, LookedUp
  <2>3. NoSOA({[r EXCEPT !.types = r.types \ {"DS"}]})
    BY <2>2, Edited
  <2> QED BY ONLY <2>1, <2>2, <2>3, PlainReplace
<1>13. CASE m = "BreakNSECChain"
  <2>1. PICK r \in OfType(z, "NSEC") : c = Replace(r, [r EXCEPT !.next = Name("none")])
    BY <1>13 DEF Mutate, BreakNSECChain
  <2>2. IsRecord(r) /\ r.type # "SOA"
    BY <2>1, LookedUp
  <2>3. NoSOA({[r EXCEPT !.next = Name("none")]})
    BY <2>2, Edited
  <2> QED BY ONLY <2>1, <2>2, <2>3, PlainReplace
<1>14. CASE m = "DropNSEC"
  <2>1. PICK r : c = Change(RRset(z, r.owner, "NSEC"), {})
    BY <1>14 DEF Mutate, DropNSEC
  <2> QED BY <2>1, PlainRemoval
<1>15. CASE m = "NSEC3PARAMMismatch"
  <2>1. PICK r \in OfType(z, "NSEC3PARAM") :
          c = Replace(r, NSEC3PARAM([r.param EXCEPT !.iter = 10]))
    BY <1>15 DEF Mutate, NSEC3PARAMMismatch
  <2>2. r.type # "SOA" /\ NoSOA({NSEC3PARAM([r.param EXCEPT !.iter = 10])})
    BY <2>1, LookedUp, RecordKinds
  <2> QED BY ONLY <2>1, <2>2, PlainReplace
<1>16. CASE m = "MixDenial"
  BY <1>16, RecordKinds DEF Mutate, MixDenial, Change, IsPlain, NoSOA
<1>17. CASE m = "MixNSEC"
  BY <1>17, RecordKinds DEF Mutate, MixNSEC, Change, IsPlain, NoSOA
<1> QED BY <1>1, <1>2, <1>3, <1>5, <1>6, <1>7, <1>8, <1>9, <1>10, <1>11, <1>12, <1>13,
           <1>14, <1>15, <1>16, <1>17 DEF Catalogue

\* Neither does any of the other edits.
LEMMA EditPlain ==
  ASSUME NEW z, NEW n, IsZone(z, n), NEW m \in Edits, NEW c \in Edit(m, z)
  PROVE  IsPlain(c)
<1> USE LookedUp
<1>1. CASE m = "KeysByZSK"
  BY <1>1, Resigns DEF Edit, IsPlain, Change, NoSOA
<1>2. CASE m = "SignedBitmap"
  <2>1. PICK d \in NSEC3BitmapDropDS(z) :
          LET r == CHOOSE r \in d.adds : TRUE
          IN  c = Change(d.removes \cup sigsCovering(z, r.owner, "NSEC3"), {r, Resigned(r)})
    BY <1>2 DEF Edit
  <2> DEFINE r == CHOOSE r \in d.adds : TRUE
  <2>2. PICK q \in OfType(z, "NSEC3") : d = Replace(q, [q EXCEPT !.types = q.types \ {"DS"}])
    BY DEF NSEC3BitmapDropDS
  <2>3. d.removes = {q} /\ d.adds = {[q EXCEPT !.types = q.types \ {"DS"}]}
    BY <2>2 DEF Replace, Change
  <2>4. NoSOA(d.adds) /\ r \in d.adds
    <3>1. IsRecord(q) /\ q.type # "SOA"
      BY <2>2, LookedUp
    <3>2. NoSOA({[q EXCEPT !.types = q.types \ {"DS"}]})
      BY ONLY <3>1, Edited
    <3> QED BY <2>3, <3>2
  <2>5. c = Change(d.removes \cup sigsCovering(z, r.owner, "NSEC3"), {r, Resigned(r)})
    BY <2>1
  <2> HIDE DEF r
  <2>6. NoSOA({r, Resigned(r)})
    BY <2>4, Resigns DEF NoSOA, Resigned
  <2> QED BY <2>3, <2>5, <2>6 DEF IsPlain, Change, NoSOA
<1>3. CASE m = "Undelegate"
  <2>1. PICK d \in Delegations : c = Change(At(z, Name(d)), {})
    BY <1>3 DEF Edit
  <2>2. Name(d) # origin
    BY ZoneGenAssumption DEF origin, Name
  <2>3. \A r \in At(z, Name(d)) : r.type # "SOA"
    BY <2>2 DEF At, IsZone, SOA
  <2> QED BY <2>1, <2>3, PlainRemoval
<1>4. CASE m = "NSEC3Sig"
  <2>1. PICK r \in OfType(z, "RRSIG") : c = Replace(r, [r EXCEPT !.damage = "bits"])
    BY <1>4 DEF Edit
  <2>2. IsRecord(r) /\ r.type # "SOA"
    BY <2>1, LookedUp
  <2>3. NoSOA({[r EXCEPT !.damage = "bits"]})
    BY <2>2, Edited
  <2> QED BY ONLY <2>1, <2>2, <2>3, PlainReplace
<1> QED BY <1>1, <1>2, <1>3, <1>4 DEF Edits

\* Whatever is sent, the server's own bump included, replaces the SOA by the next.
LEMMA BumpedIsBump ==
  ASSUME NEW z, NEW n, IsZone(z, n), NEW c, IsPlain(c) \/ IsBump(c, n)
  PROVE  IsBump(bumped(z, c), n)
<1>1. Serial(z) = n /\ n \in Nat
  BY SerialOf DEF IsZone
<1>2. CASE IsPlain(c)
  <2>1. Serial(Apply(z, c)) = n
    BY <1>2, PlainApplied, SerialOf
  <2>2. IsRecord(SOA(n + 1))
    BY DEF IsRecord, SOA
  <2> QED BY <1>1, <1>2, <2>1, <2>2 DEF bumped, IsPlain, IsBump, Change
<1>3. CASE IsBump(c, n)
  <2>1. Serial(Apply(z, c)) = n + 1
    BY <1>3, BumpApplied, SerialOf
  <2> QED BY <1>1, <1>3, <2>1 DEF bumped
<1> QED BY <1>2, <1>3

LEMMA SignedBump ==
  ASSUME NEW z, NEW n, IsZone(z, n), NEW b \in SignedSerialBump(z), NEW c, IsPlain(c)
  PROVE  IsBump(Change(c.removes \cup b.removes, c.adds \cup b.adds), n)
<1>1. Serial(z) = n
  BY SerialOf
<1>2. RRset(z, origin, "SOA") = {SOA(n)}
  BY DEF IsZone, RRset, SOA
<1>3. PICK sig \in SOASigs(z) :
        b = Change({SOA(n), sig},
                   {SOA(n + 1), ResignRRSet({SOA(n + 1)}, "zsk", sig.inc, sig.exp)})
  BY <1>1, <1>2 DEF SignedSerialBump
<1>4. sig.type # "SOA" /\ IsRecord(SOA(n + 1))
  BY DEF SOASigs, sigsCovering, RRset, IsRecord, SOA
<1> QED BY <1>3, <1>4, Resigns DEF IsPlain, IsBump, Change, NoSOA

\* So does a repair.
LEMMA RepairBump ==
  ASSUME NEW z, NEW n, IsZone(z, n), NEW g, IsZone(g, n + 1)
  PROVE  IsBump(Change(z \ g, g \ z), n) /\ Apply(z, Change(z \ g, g \ z)) = g
<1>1. SOA(n) # SOA(n + 1) /\ SOA(n).type = "SOA"
  BY DEF SOA, IsZone
<1>2. IsBump(Change(z \ g, g \ z), n)
  BY <1>1 DEF IsBump, IsZone, Change, SOA
<1>3. Apply(z, Change(z \ g, g \ z)) = g
  BY DEF Apply, Change
<1> QED BY <1>2, <1>3

-----------------------------------------------------------------------------
(* The invariant *)

ZonesOK ==
  /\ spec \in Specs
  /\ IsZone(clean, 1)
  /\ IsZone(zone, Serial(zone))
  /\ store # {} => IsZone(store, Serial(store)) /\ Serial(store) <= Serial(zone)

\* A changeset leads from one serial to the next, and the last one is all there
\* in the zone, whatever it was applied to.
JournalOK(js) ==
  \A j \in js :
    /\ j.from \in Nat /\ j.to = j.from + 1 /\ j.to <= Serial(zone)
    /\ j.to = Serial(zone) =>
         /\ IsBump(j.change, j.from)
         /\ j.change.adds \subseteq zone
         /\ zone \cap j.change.removes \subseteq j.change.adds

\* The changeset that a transfer would be answered with takes the auditor's
\* records to the server's.
ChangesLead(js) ==
  \A j \in js :
    store # {} /\ j.from = Serial(store) /\ j.to = Serial(zone) =>
      Apply(store, j.change) = zone

PrimaryInv ==
  /\ ZonesOK
  /\ JournalOK(journal) /\ JournalOK(req.journal)
  /\ ChangesLead(journal) /\ ChangesLead(req.journal)
  /\ req.serial \in Nat /\ req.serial <= Serial(zone)
  /\ SameSerialSameZone
-----------------------------------------------------------------------------
(* It holds at first *)

LEMMA DrawnOptions ==
  ASSUME NEW s \in Specs, NEW opt \in Drawn(s)
  PROVE  opt \in Options
<1>1. s.opt \in Options
  BY TestPrimaryAssumption
<1>2. PICK S \in SUBSET s.opt.delegations : opt = [s.opt EXCEPT !.secure = S]
  <2>1. PICK S \in (IF s.pct = 100 THEN {s.opt.delegations} ELSE SUBSET s.opt.delegations) :
          opt = [s.opt EXCEPT !.secure = S]
    BY DEF Drawn
  <2>2. S \in SUBSET s.opt.delegations
    BY <2>1
  <2> QED BY <2>1, <2>2
<1>3. s.opt.delegations \subseteq Delegations
  BY <1>1 DEF Options
<1>4. S \in SUBSET Delegations
  BY <1>2, <1>3
<1> QED BY <1>1, <1>2, <1>4 DEF Options

LEMMA PrimaryInit ==
  ASSUME Init
  PROVE  PrimaryInv
<1>1. spec \in Specs /\ IsZone(clean, 1)
  BY DrawnOptions, GeneratedZone DEF Init
<1>2. PICK c \in Mutate(spec.mutate, clean, Start) : zone = Apply(clean, c)
  BY DEF Init
<1>3. spec.mutate \in Catalogue
  BY <1>1, TestPrimaryAssumption
<1>4. IsPlain(c)
  BY <1>1, <1>2, <1>3, MutatePlain
<1>5. IsZone(zone, 1) /\ Serial(zone) = 1
  BY <1>1, <1>2, <1>4, PlainApplied, SerialOf
<1>6. journal = {} /\ store = {} /\ req.journal = {} /\ req.serial = 0
  BY DEF Init, NoReq
<1> QED BY <1>1, <1>5, <1>6
        DEF PrimaryInv, ZonesOK, JournalOK, ChangesLead, SameSerialSameZone

-----------------------------------------------------------------------------
(* Every step keeps it *)

\* An update leads the zone to the next serial, which no auditor has yet and no
\* earlier changeset leads to.
LEMMA UpdateKeeps ==
  ASSUME PrimaryInv, NEW c, IsPlain(c) \/ IsBump(c, Serial(zone)), ApplyUpdate(c)
  PROVE  PrimaryInv'
<1> DEFINE s == Serial(zone)
           b == bumped(zone, c)
           j == [from |-> s, to |-> s + 1, change |-> b]
<1>1. IsZone(zone, s) /\ s \in Nat
  BY DEF PrimaryInv, ZonesOK, IsZone
<1>2. IsBump(b, s)
  BY <1>1, BumpedIsBump
<1>3. zone' = Apply(zone, b)
  BY DEF ApplyUpdate
<1>4. IsZone(zone', s + 1) /\ Serial(zone') = s + 1
  BY <1>1, <1>2, <1>3, BumpApplied, SerialOf
<1>5. journal' = journal \cup {j}
  BY <1>3, <1>4 DEF ApplyUpdate
<1>6. spec' = spec /\ clean' = clean /\ req' = req /\ store' = store
  BY DEF ApplyUpdate, auditor
<1>7. j.from = s /\ j.to = s + 1 /\ j.change = b
  OBVIOUS
<1>8. b.adds \subseteq zone' /\ zone' \cap b.removes \subseteq b.adds
  BY <1>3 DEF Apply
<1> HIDE DEF s, b, j
<1>9. \A k \in journal \cup req.journal : k.from \in Nat /\ k.to = k.from + 1 /\ k.to <= s
  BY DEF PrimaryInv, JournalOK, s
<1>10. JournalOK(journal)' /\ JournalOK(req.journal)'
  <2>1. \A k \in journal \cup req.journal : k.to <= s + 1 /\ k.to # s + 1
    BY <1>1, <1>9
  <2> QED BY <1>1, <1>2, <1>4, <1>5, <1>6, <1>7, <1>8, <1>9, <2>1 DEF JournalOK
<1>11. store # {} => Serial(store) \in Nat /\ Serial(store) <= s
  BY DEF PrimaryInv, ZonesOK, IsZone, s
<1>12. ChangesLead(journal)' /\ ChangesLead(req.journal)'
  <2>1. \A k \in journal \cup req.journal : k.to # s + 1
    BY <1>1, <1>9
  <2>2. store # {} /\ Serial(store) = s => Apply(store, b) = zone'
    BY <1>3 DEF PrimaryInv, SameSerialSameZone, s
  <2> QED BY <1>4, <1>5, <1>6, <1>7, <2>1, <2>2 DEF ChangesLead
<1>13. ZonesOK'
  BY <1>1, <1>4, <1>6, <1>11 DEF PrimaryInv, ZonesOK, s
<1>14. SameSerialSameZone'
  BY <1>1, <1>4, <1>6, <1>11 DEF SameSerialSameZone
<1>15. (req.serial \in Nat /\ req.serial <= Serial(zone))'
  BY <1>1, <1>4, <1>6 DEF PrimaryInv, s
<1> QED BY <1>10, <1>12, <1>13, <1>14, <1>15 DEF PrimaryInv

LEMMA StepUpdate ==
  ASSUME PrimaryInv, Update
  PROVE  PrimaryInv'
<1>1. PICK u \in Updates :
        \E c \in IF u[1] \in Edits THEN Edit(u[1], zone) ELSE Mutate(u[1], zone, now) :
          \E b \in IF u[2] THEN SignedSerialBump(zone) ELSE {NoChange} :
            ApplyUpdate(Change(c.removes \cup b.removes, c.adds \cup b.adds))
  BY DEF Update
<1>2. PICK c \in IF u[1] \in Edits THEN Edit(u[1], zone) ELSE Mutate(u[1], zone, now) :
        \E b \in IF u[2] THEN SignedSerialBump(zone) ELSE {NoChange} :
          ApplyUpdate(Change(c.removes \cup b.removes, c.adds \cup b.adds))
  BY <1>1
<1>3. PICK b \in IF u[2] THEN SignedSerialBump(zone) ELSE {NoChange} :
        ApplyUpdate(Change(c.removes \cup b.removes, c.adds \cup b.adds))
  BY <1>2
<1> DEFINE d == Change(c.removes \cup b.removes, c.adds \cup b.adds)
<1>4. IsZone(zone, Serial(zone))
  BY DEF PrimaryInv, ZonesOK
<1>5. IsPlain(c)
  <2>1. u[1] \in Catalogue \cup Edits
    BY TestPrimaryAssumption
  <2>2. CASE u[1] \in Edits
    BY <1>2, <1>4, <2>2, EditPlain
  <2>3. CASE u[1] \notin Edits
    BY <1>2, <1>4, <2>1, <2>3, MutatePlain
  <2> QED BY <2>2, <2>3
<1>6. IsPlain(d) \/ IsBump(d, Serial(zone))
  <2>1. CASE u[2]
    BY <1>3, <1>4, <1>5, <2>1, SignedBump
  <2>2. CASE ~u[2]
    BY <1>3, <1>5, <2>2 DEF NoChange, Change, IsPlain
  <2> QED BY <2>1, <2>2
<1>7. ApplyUpdate(d)
  BY <1>3
<1> HIDE DEF d
<1> QED BY <1>6, <1>7, UpdateKeeps

LEMMA StepRepair ==
  ASSUME PrimaryInv, Repair
  PROVE  PrimaryInv'
<1> DEFINE n    == Serial(zone)
           neu  == SOA(n + 1)
           sigs == {[s EXCEPT !.over = {neu}] : s \in SOASigs(clean)}
           rest == clean \ (SOASigs(clean) \cup RRset(clean, origin, "SOA"))
           good == rest \cup {neu} \cup sigs
<1>1. ApplyUpdate(Change(zone \ good, good \ zone))
  BY DEF Repair
<1>2. IsZone(zone, n) /\ IsZone(clean, 1) /\ n \in Nat
  BY DEF PrimaryInv, ZonesOK, IsZone
<1>3. NoSOA(sigs)
  <2>1. ASSUME NEW s \in SOASigs(clean)
        PROVE  NoSOA({[s EXCEPT !.over = {neu}]})
    <3>1. IsRecord(s) /\ s.type # "SOA"
      BY <1>2, LookedUp DEF SOASigs
    <3> HIDE DEF neu
    <3> QED BY ONLY <3>1, Edited
  <2> HIDE DEF neu
  <2> QED BY <2>1 DEF NoSOA
<1>4. NoSOA(rest)
  BY <1>2 DEF NoSOA, IsZone, RRset, SOA
<1>5. IsZone(rest \cup {neu}, n + 1)
  BY <1>2, <1>4 DEF NoSOA, IsZone, IsRecord, SOA
<1> HIDE DEF rest, neu, sigs
<1>6. IsZone(good, n + 1)
  BY <1>3, <1>5, ZoneWith
<1> HIDE DEF good
<1>7. IsBump(Change(zone \ good, good \ zone), n)
  BY <1>2, <1>6, RepairBump
<1> QED BY <1>1, <1>7, UpdateKeeps

LEMMA StepAnswerIXFR ==
  ASSUME PrimaryInv, AnswerIXFR
  PROVE  PrimaryInv'
<1>1. PICK j \in Answers : store' = Apply(store, j.change)
  BY DEF AnswerIXFR
<1>2. store # {} /\ j \in req.journal /\ j.from = Serial(store) /\ j.to = Serial(zone)
  BY <1>1 DEF Answers, findJournal
<1>3. store' = zone
  BY <1>1, <1>2 DEF PrimaryInv, ChangesLead
<1>4. spec' = spec /\ clean' = clean /\ zone' = zone /\ journal' = journal
  BY DEF AnswerIXFR, server
<1>5. req'.journal = {} /\ req'.serial = 0
  BY DEF AnswerIXFR, NoReq
<1>6. Serial(zone) \in Nat
  BY DEF PrimaryInv, ZonesOK, IsZone
<1>7. ZonesOK' /\ SameSerialSameZone'
  BY <1>3, <1>4, <1>6 DEF PrimaryInv, ZonesOK, SameSerialSameZone
<1>8. JournalOK(journal)' /\ JournalOK(req.journal)'
  BY <1>4, <1>5 DEF PrimaryInv, JournalOK
<1>9. ChangesLead(journal)' /\ ChangesLead(req.journal)'
  <2>1. \A k \in journal : k.from \in Nat /\ k.to = k.from + 1
    BY DEF PrimaryInv, JournalOK
  <2>2. \A k \in journal : ~(k.from = Serial(zone) /\ k.to = Serial(zone))
    BY <1>6, <2>1
  <2> QED BY <1>3, <1>4, <1>5, <2>2 DEF ChangesLead
<1>10. (req.serial \in Nat /\ req.serial <= Serial(zone))'
  BY <1>4, <1>5, <1>6
<1> QED BY <1>7, <1>8, <1>9, <1>10 DEF PrimaryInv

\* The third read is around the SOA of the second.  When an update came between
\* them, the changeset of that update still leads on to the server's zone.
LEMMA StepAnswerAXFR ==
  ASSUME PrimaryInv, AnswerAXFR
  PROVE  PrimaryInv'
<1> DEFINE n == Serial(zone)
           m == req.serial
<1>1. store' = (zone \ OfType(zone, "SOA")) \cup {SOA(m)}
  BY DEF AnswerAXFR
<1>2. IsZone(zone, n) /\ n \in Nat /\ m \in Nat /\ m <= n
  BY DEF PrimaryInv, ZonesOK, IsZone
<1>3. spec' = spec /\ clean' = clean /\ zone' = zone /\ journal' = journal
  BY DEF AnswerAXFR, server
<1>4. req'.journal = {} /\ req'.serial = 0
  BY DEF AnswerAXFR, NoReq
<1>5. OfType(zone, "SOA") = {SOA(n)}
  BY <1>2 DEF IsZone, OfType, SOA
<1>6. store' = (zone \ {SOA(n)}) \cup {SOA(m)}
  BY <1>1, <1>5
<1> HIDE DEF n, m
<1>7. IsZone(store', m) /\ Serial(store') = m
  <2>1. IsRecord(SOA(m)) /\ SOA(m).type = "SOA"
    BY DEF IsRecord, SOA
  <2>2. IsZone(store', m)
    BY <1>2, <1>6, <2>1 DEF IsZone
  <2> QED BY <2>2, SerialOf
<1>8. m = n => store' = zone
  BY <1>2, <1>6 DEF IsZone
<1>9. ZonesOK' /\ SameSerialSameZone'
  BY <1>2, <1>3, <1>7, <1>8 DEF PrimaryInv, ZonesOK, SameSerialSameZone, n
<1>10. JournalOK(journal)' /\ JournalOK(req.journal)'
  BY <1>3, <1>4 DEF PrimaryInv, JournalOK
<1>11. ASSUME NEW k \in journal, k.from = m, k.to = n
       PROVE  Apply(store', k.change) = zone
  <2>1. /\ k.from \in Nat /\ k.to = k.from + 1
        /\ IsBump(k.change, k.from)
        /\ k.change.adds \subseteq zone /\ zone \cap k.change.removes \subseteq k.change.adds
    BY <1>11 DEF PrimaryInv, JournalOK, n
  <2>2. n = m + 1
    BY <1>11, <2>1
  <2>3. SOA(m) \in k.change.removes /\ SOA(n) \in k.change.adds
    BY <1>11, <2>1, <2>2 DEF IsBump
  <2> QED BY <1>6, <2>1, <2>3 DEF Apply
<1>12. ChangesLead(journal)' /\ ChangesLead(req.journal)'
  BY <1>3, <1>4, <1>7, <1>11 DEF ChangesLead, n
<1>13. (req.serial \in Nat /\ req.serial <= Serial(zone))'
  BY <1>2, <1>3, <1>4 DEF n
<1> QED BY <1>9, <1>10, <1>12, <1>13 DEF PrimaryInv

LEMMA StepOther ==
  ASSUME PrimaryInv,
         PurgeJournal \/ HandleXFR \/ ReadSOA \/ Sweep \/ Tick \/ UNCHANGED vars
  PROVE  PrimaryInv'
<1>1. spec' = spec /\ clean' = clean /\ zone' = zone /\ store' = store
  BY DEF PurgeJournal, HandleXFR, ReadSOA, Sweep, Tick, vars, server, auditor
<1>2. journal' \in {journal, {}} /\ req'.journal \in {req.journal, journal, {}}
  BY DEF PurgeJournal, HandleXFR, ReadSOA, Sweep, Tick, vars, server, NoReq
<1>3. req'.serial \in {req.serial, 0, Serial(zone)}
  BY DEF PurgeJournal, HandleXFR, ReadSOA, Sweep, Tick, vars, server, NoReq
<1>4. ZonesOK' /\ SameSerialSameZone'
  BY <1>1 DEF PrimaryInv, ZonesOK, SameSerialSameZone
<1>5. (JournalOK(journal) /\ JournalOK(req.journal))'
  BY <1>1, <1>2 DEF PrimaryInv, JournalOK
<1>6. (ChangesLead(journal) /\ ChangesLead(req.journal))'
  BY <1>1, <1>2 DEF PrimaryInv, ChangesLead
<1>7. (req.serial \in Nat /\ req.serial <= Serial(zone))'
  <2>1. Serial(zone) \in Nat
    BY DEF PrimaryInv, ZonesOK, IsZone
  <2> QED BY <1>1, <1>3, <2>1 DEF PrimaryInv
<1> QED BY <1>4, <1>5, <1>6, <1>7 DEF PrimaryInv

-----------------------------------------------------------------------------
(* The theorems *)

\* The zone has one SOA; a changeset of the journal, or of the copy a transfer
\* under way has read, leads one serial on; and the changeset between the
\* auditor's serial and the server's, where there is one, takes the auditor's
\* records to the server's (Server.Apply, handleXFR).
THEOREM PrimaryInvariant == Spec => []PrimaryInv
<1>1. Init => PrimaryInv
  BY PrimaryInit
<1>2. PrimaryInv /\ [Next]_vars => PrimaryInv'
  BY StepUpdate, StepRepair, StepAnswerIXFR, StepAnswerAXFR, StepOther DEF Next
<1> QED BY <1>1, <1>2, PTL DEF Spec

\* Whatever zones are generated and whatever updates are sent, however many, and
\* wherever they fall between the three reads of a transfer: an auditor that has
\* the server's serial has the server's records (handleXFR, Server.Apply).
THEOREM SameSerialHolds == Spec => []SameSerialSameZone
<1>1. PrimaryInv => SameSerialSameZone
  BY DEF PrimaryInv
<1> QED BY <1>1, PrimaryInvariant, PTL
=============================================================================
