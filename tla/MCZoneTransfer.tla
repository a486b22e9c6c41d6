--------------------------- MODULE MCZoneTransfer ---------------------------
(* Instances of ZoneTransfer for TLC. *)
EXTENDS ZoneTransfer

\* An address, replaced or absent, signed anew each time it changes, and an
\* NSEC3 record, replaced or absent.
Address(n) == {RR("www", "A", n), RR("www", "RRSIG", n)}
Chain(n)   == {RR("hash", "NSEC3", n)}

SmallBodies == {A \cup C : A \in {{}, Address(1), Address(2)},
                           C \in {{}, Chain(1), Chain(2)}}
=============================================================================
