------------------------------ MODULE Findings ------------------------------
(***************************************************************************)
(* The findings a zone carries (internal/dnssec/findings.go): what the      *)
(* verifier, the expiry sweep, the chain-of-trust checker and the refresh   *)
(* path report, and how an incremental pass merges its own findings into    *)
(* the ones already open.                                                   *)
(*                                                                          *)
(* A finding is a code at an owner name.  The record type of the key        *)
(* (Code|Owner|RRType), the message and the time stamps are left out, so a  *)
(* Set, which maps keys to findings, is a set of findings here: adding the  *)
(* same finding twice leaves one.                                           *)
(***************************************************************************)
EXTENDS FiniteSets

CONSTANTS
  Owners,        \* owner names of a zone
  Apex,          \* the zone's own name
  RequireMatch   \* chain_of_trust.require_match: a DS mismatch is an error

ASSUME FindingsAssumption ==
  /\ Apex \in Owners
  /\ RequireMatch \in BOOLEAN

ErrorCodes ==
  {"RRSIG_INVALID", "RRSIG_EXPIRED", "ZONEMD_MISMATCH", "ZONEMD_MISSING",
   "IXFR_APPLY_FAILED", "NSEC_MISSING", "NSEC3_MISSING", "NSEC_CHAIN_BROKEN",
   "NSEC3_CHAIN_BROKEN"}
    \cup (IF RequireMatch THEN {"DS_MISMATCH"} ELSE {})

Codes ==
  ErrorCodes \cup
  {"RRSIG_EXPIRING_SOON", "INSECURE_DELEGATION", "SERIAL_SKEW", "DS_MISMATCH"}

Finding == [code : Codes, owner : Owners]

NewFinding(code, owner) == [code |-> code, owner |-> owner]

HasErrors(F) == \E f \in F : f.code \in ErrorCodes

\* Mutant: the findings of untouched owners are dropped too.
MergeReplace_DropsAll(prev, next, owners) == next

\* MergeReplace(prev, next, owners): the findings of next, and those of prev
\* whose owner was not looked at.  An empty owner set restricts nothing, so
\* that every finding of prev is dropped.
MergeReplace(prev, next, owners) ==
  next \cup (IF owners = {} THEN {} ELSE {f \in prev : f.owner \notin owners})
=============================================================================
