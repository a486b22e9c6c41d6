----------------------------- MODULE MCDelivery -----------------------------
(* Instances of Delivery for TLC. *)
EXTENDS Delivery

\* Two targets that ask for overlapping sets of events.
TwoTargets == <<{"zone_invalid"}, {"zone_valid", "zone_invalid"}>>
=============================================================================
