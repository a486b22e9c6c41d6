--------------------------- MODULE MCZoneRefresh ---------------------------
(* Instances of ZoneRefresh for TLC. *)
EXTENDS ZoneRefresh

Version(signed, bad, exps, zonemd) ==
  [signed |-> signed, bad |-> bad, exp |-> [o \in Owners |-> exps],
   zonemd |-> zonemd]

\* A clean version, two with a broken RRset at every owner but the apex (the
\* second without ZONEMD), and an unsigned one.
MixedContent == [s \in Serials |->
  <<Version(TRUE, {}, 9, "ok"),
    Version(TRUE, Owners \ {Apex}, 9, "ok"),
    Version(TRUE, Owners \ {Apex}, 9, "none"),
    Version(FALSE, {}, 9, "none")>>[s]]

CleanContent == [s \in Serials |-> Version(TRUE, {}, MaxNow, "none")]

\* A version whose signatures expire at time 1, then a re-signed version whose
\* ZONEMD digest does not match.
AgingContent ==
  <<Version(TRUE, {}, 1, "ok"), Version(TRUE, {}, MaxNow, "bad")>>

\* Two versions whose signatures expire at time 1, except those of the apex.
ExpiringContent ==
  [s \in Serials |->
     [signed |-> TRUE, bad |-> {}, zonemd |-> "none",
      exp |-> [o \in Owners |-> IF o = Apex THEN MaxNow ELSE 1]]]

\* A zone with ZONEMD that is unsigned for a while.
UnsignedBetween ==
  <<Version(TRUE, {}, 9, "ok"), Version(FALSE, {}, 9, "none"),
    Version(TRUE, {}, 9, "ok")>>

\* Versions whose ZONEMD digest never matches.
BadDigestContent == [s \in Serials |-> Version(TRUE, {}, MaxNow, "bad")]
=============================================================================
