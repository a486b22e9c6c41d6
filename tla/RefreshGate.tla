---------------------------- MODULE RefreshGate ----------------------------
(***************************************************************************)
(* What the refresh machinery promises about admission, with goroutines,    *)
(* locks and network exchanges left out: a zone is refreshed by one         *)
(* activity at a time, at most ConcurrentTransfers activities run, and an   *)
(* activity that has begun is admitted and ends.                            *)
(***************************************************************************)
EXTENDS Naturals, FiniteSets

CONSTANTS Zones, ConcurrentTransfers

VARIABLE phase   \* of each zone

Phases == {"idle", "waiting", "running", "leaving"}

Running == {z \in Zones : phase[z] = "running"}

Move(z, from, to) ==
  /\ phase[z] = from
  /\ phase' = [phase EXCEPT ![z] = to]

Init == phase = [z \in Zones |-> "idle"]

Begin(z) == Move(z, "idle", "waiting")

Admit(z) ==
  /\ Cardinality(Running) < ConcurrentTransfers
  /\ Move(z, "waiting", "running")

\* The slot is given back before the zone is unlocked.
Finish(z) == Move(z, "running", "leaving")
Leave(z)  == Move(z, "leaving", "idle")

Next == \E z \in Zones : Begin(z) \/ Admit(z) \/ Finish(z) \/ Leave(z)

Spec == Init /\ [][Next]_phase

FairSpec ==
  /\ Spec
  /\ \A z \in Zones : /\ SF_phase(Admit(z))
                      /\ WF_phase(Finish(z))
                      /\ WF_phase(Leave(z))
=============================================================================
