--------------------------- MODULE MCTestPrimary ---------------------------
(* Instances of TestPrimary. *)
EXTENDS TestPrimary

MCDelegations == {"d0", "d1"}
MCGlueOf == [d \in MCDelegations |-> IF d = "d0" THEN "ns.d0" ELSE "ns.d1"]
MCCanonical ==
  <<"@", "*", "alias", "child", "ent.child", "d0", "ns.d0", "d1", "ns.d1", "ns1", "ns2">>
MCHashed ==
  <<"d1", "ns1", "ns.d0", "@", "child", "alias", "d0", "ns2", "ent.child", "*", "ns.d1">>
MCParentOf ==
  [l \in {MCCanonical[i] : i \in 2..Len(MCCanonical)} |->
     CASE l = "ent.child" -> "child" [] l = "ns.d0" -> "d0" [] l = "ns.d1" -> "d1"
       [] OTHER -> "@"]

MCSpecs == SignatureExamples \cup DenialExamples \cup extras

\* Zones that live on: with a secure delegation, with signatures that soon run
\* out, and with a ZONEMD digest.
MCLiveSpecs ==
  {Example("valid", "", "none", 100,
           [baseOpts("nsec3-optout") EXCEPT !.delegations = {"d0"}]),
   Example("warning", "RRSIG_EXPIRING_SOON", "none", 100,
           [baseOpts("nsec") EXCEPT !.delegations = {"d0"}, !.exp = 6]),
   Example("valid", "", "none", 100,
           [baseOpts("nsec") EXCEPT !.delegations = {}, !.zonemd = TRUE])}
MCAllSpecs == MCSpecs \cup MCLiveSpecs

MCUpdates ==
  {<<"FlipRRSIG", TRUE>>, <<"FlipRRSIG", FALSE>>, <<"ExpireRRSIG", TRUE>>,
   <<"DropNSEC3", TRUE>>, <<"DropNSEC", TRUE>>, <<"MixNSEC", FALSE>>,
   <<"DNSKEYSignedByZSKOnly", TRUE>>, <<"NSEC3BitmapDropDS", TRUE>>, <<"none", TRUE>>}

\* Edits that an incremental pass misses, one at a time, and a defect that the
\* serial bump after it makes the auditor forget.
MCEdits == {<<m, TRUE>> : m \in Edits \cup {"DropNSEC3", "none"}}

\* A zone signed until the last second a 32-bit time can name.
MCWrap == {Example("valid", "", "none", 100,
                   [baseOpts("nsec") EXCEPT !.exp = Width - 1])}
=============================================================================
