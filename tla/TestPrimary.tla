---------------------------- MODULE TestPrimary ----------------------------
(***************************************************************************)
(* The test primary (internal/testprimary) and the auditor it is tested     *)
(* with, around one generated zone: the server takes updates, keeps a       *)
(* journal and answers transfers; the auditor transfers the zone, verifies  *)
(* it fully or incrementally, and sweeps for expired signatures.            *)
(*                                                                          *)
(* The server answers from three reads that an update may come between: the *)
(* journal, the SOA, and all records.                                       *)
(***************************************************************************)
EXTENDS ZoneAudit

CONSTANTS
  Specs,       \* the example zones a behaviour may start with
  LiveSpecs,   \* the ones that updates change afterwards
  Updates,     \* the updates sent: a defect, and whether the serial is signed
  MaxUpdates,  \* bound: number of updates
  Times        \* bound: the times the clock shows

\* What updates may do besides the defects of the catalogue: see Edit.
Edits == {"KeysByZSK", "SignedBitmap", "Undelegate", "NSEC3Sig"}

ASSUME TestPrimaryAssumption ==
  /\ LiveSpecs \subseteq Specs
  /\ \A s \in Specs : s.opt \in Options /\ s.mutate \in Catalogue
  /\ \A u \in Updates : u[1] \in Catalogue \cup Edits
  /\ MaxUpdates \in Nat
  /\ Times \subseteq Nat /\ Times # {}

VARIABLES
  spec,     \* the example the zone was generated from
  clean,    \* the zone as generated, before its defect
  zone,     \* the zone the server holds
  journal,  \* its changesets
  req,      \* the transfer under way: what the server has read for it
  updates,  \* number of updates so far
  now,      \* the clock
  store,    \* the auditor's copy
  result,   \* the auditor's findings and the verdict of its last pass
  swept,    \* when all signatures were last looked at
  noticed   \* history: an error was open at some time since the copy was last sound

server  == <<spec, clean, zone, journal, updates>>
auditor == <<store, result, swept, noticed>>
vars    == <<spec, clean, zone, journal, req, updates, now, store, result, swept, noticed>>

Start    == CHOOSE t \in Times : \A u \in Times : t <= u
NoResult == [mode |-> "none", found |-> {}, unsigned |-> FALSE, valid |-> FALSE]
NoReq    == [step |-> "idle", journal |-> {}, serial |-> 0]

Init ==
  /\ spec \in Specs
  /\ \E opt \in Drawn(spec) : clean = Generate(opt)
  /\ \E c \in Mutate(spec.mutate, clean, Start) : zone = Apply(clean, c)
  /\ journal = {}
  /\ req = NoReq
  /\ updates = 0
  /\ now = Start
  /\ store = {}
  /\ result = NoResult
  /\ swept = 0
  /\ noticed = FALSE
-----------------------------------------------------------------------------
(* Server *)

\* Mutant: the serial is left to the client.
bumped_Never(z, c) == c

\* Apply adds a serial bump of its own, unsigned, to a change without one.
bumped(z, c) ==
  IF Serial(Apply(z, c)) # Serial(z) THEN c
  ELSE Change(c.removes \cup {SOA(Serial(z))}, c.adds \cup {SOA(Serial(z) + 1)})

\* Server.Apply, by a test or through handleUpdate.  A transfer that reads in the
\* middle of it sees the new records under the old serial, as one that read the
\* SOA before it does.
ApplyUpdate(c) ==
  LET to == Apply(zone, bumped(zone, c))
  IN  /\ spec \in LiveSpecs
      /\ updates < MaxUpdates
      /\ updates' = updates + 1
      /\ zone' = to
      /\ journal' = journal \cup {[from |-> Serial(zone), to |-> Serial(to),
                                   change |-> bumped(zone, c)]}
      /\ UNCHANGED <<spec, clean, req, now, auditor>>

\* Other edits a DNS UPDATE may make, all of them signed: the DNSKEY RRset by the
\* zone-signing key only; a DS missing from an NSEC3 bitmap; a delegation taken
\* out and its glue left in; and one that is not, a bad signature of an NSEC3.
Resigned(r) == ResignRRSet({r}, "zsk", 1, Far)
Edit(m, z) ==
  CASE m = "KeysByZSK" ->
         {Change(sigsCovering(z, origin, "DNSKEY"), {ResignRRSet(Keys(z), "zsk", 1, Far)})}
    [] m = "SignedBitmap" ->
         {LET r == CHOOSE r \in c.adds : TRUE
          IN  Change(c.removes \cup sigsCovering(z, r.owner, "NSEC3"), {r, Resigned(r)}) :
            c \in NSEC3BitmapDropDS(z)}
    [] m = "Undelegate" -> {Change(At(z, Name(d)), {}) : d \in Delegations}
    [] m = "NSEC3Sig" ->
         {Replace(s, [s EXCEPT !.damage = "bits"]) :
            s \in {s \in OfType(z, "RRSIG") : s.covers = "NSEC3"}}

\* A defect or an edit arrives, with or without a signed serial bump.
Update ==
  \E u \in Updates :
    \E c \in IF u[1] \in Edits THEN Edit(u[1], zone) ELSE Mutate(u[1], zone, now) :
      \E b \in IF u[2] THEN SignedSerialBump(zone) ELSE {NoChange} :
        ApplyUpdate(Change(c.removes \cup b.removes, c.adds \cup b.adds))

\* The zone is put right again, whatever was wrong, under the next serial.
Repair ==
  LET old  == SOA(Serial(zone))
      neu  == SOA(Serial(zone) + 1)
      sigs == {[s EXCEPT !.over = {neu}] : s \in SOASigs(clean)}
      good == (clean \ (SOASigs(clean) \cup RRset(clean, origin, "SOA")))
                \cup {neu} \cup sigs
  IN  ApplyUpdate(Change(zone \ good, good \ zone))

PurgeJournal ==
  /\ journal # {}
  /\ journal' = {}
  /\ UNCHANGED <<spec, clean, zone, req, updates, now, auditor>>

findJournal(js, from, to) == {j \in js : j.from = from /\ j.to = to}

\* The auditor has the findings of r on the copy st.  An error once open is only
\* past when a full pass would find none.
Note(st, r) == HasErrors(r.found) \/ (noticed /\ HasErrors(Full(st, now).found))

\* handleXFR, first read: the journal, under the lock.
HandleXFR ==
  /\ req = NoReq
  /\ store # {} => Serial(store) # Serial(zone)
  /\ req' = [NoReq EXCEPT !.step = "soa", !.journal = journal]
  /\ UNCHANGED <<server, now, auditor>>

\* The changesets that answer an IXFR request at this moment.
Answers ==
  IF store = {} THEN {} ELSE findJournal(req.journal, Serial(store), Serial(zone))

\* Second read: the SOA.  With a changeset the answer is incremental, and the
\* auditor applies it and verifies what it touched.
AnswerIXFR ==
  /\ req.step = "soa"
  /\ \E j \in Answers :
       LET st == Apply(store, j.change)
           r  == Incremental(st, result.found, j.change, now)
       IN  /\ store' = st
           /\ result' = r
           /\ swept' = IF r.mode = "full" THEN now ELSE swept
           /\ noticed' = Note(st, r)
  /\ req' = NoReq
  /\ UNCHANGED <<server, now>>

ReadSOA ==
  /\ req.step = "soa"
  /\ Answers = {}
  /\ req' = [NoReq EXCEPT !.step = "records", !.serial = Serial(zone)]
  /\ UNCHANGED <<server, now, auditor>>

\* Third read: all records, around the SOA read before.  The auditor verifies
\* the whole zone.
AnswerAXFR ==
  /\ req.step = "records"
  /\ store' = (zone \ OfType(zone, "SOA")) \cup {SOA(req.serial)}
  /\ result' = Full(store', now)
  /\ swept' = now
  /\ noticed' = HasErrors(result'.found)
  /\ req' = NoReq
  /\ UNCHANGED <<server, now>>
-----------------------------------------------------------------------------
(* Auditor *)

Sweep ==
  /\ store # {}
  /\ result' = [result EXCEPT !.found = @ \cup SweepExpiry(store, now)]
  /\ swept' = now
  /\ noticed' = Note(store, result')
  /\ UNCHANGED <<server, req, now, store>>

Tick ==
  /\ \E t \in Times : t > now /\ now' = t
  /\ UNCHANGED <<server, req, auditor>>

Next ==
  \/ Update \/ Repair \/ PurgeJournal
  \/ HandleXFR \/ AnswerIXFR \/ ReadSOA \/ AnswerAXFR
  \/ Sweep \/ Tick

Spec == Init /\ [][Next]_vars
-----------------------------------------------------------------------------
(* Properties *)

\* The example zones are audited as the pack says: the verdict of a full pass,
\* the finding it must report, and the exit code of the one-shot check.
PackAudited ==
  updates = 0 /\ now = Start /\ store # {} =>
    LET codes == {f.code : f \in result.found}
    IN  /\ result.unsigned <=> spec.expect = "unsigned"
        /\ result.valid <=> spec.expect # "invalid"
        /\ spec.want # "" => spec.want \in codes
        /\ Run(zone, now) = CASE spec.expect = "invalid" -> 1
                              [] spec.expect = "warning" -> 2
                              [] OTHER -> 0

\* However updates fall between the server's reads, an auditor that has the
\* server's serial has the server's records.
SameSerialSameZone ==
  store # {} /\ Serial(store) = Serial(zone) => store = zone

\* The RRsets with an error that shows at their own node; the NSEC3 record of a
\* name is at another node, and the last five need all of the zone.
Elsewhere ==
  {"NSEC3_MISSING", "NSEC3_OPTOUT_VIOLATION", "NSEC3_BITMAP_MISMATCH",
   "DNSKEY_NOT_SIGNED_BY_KSK", "NSEC3PARAM_MISMATCH", "ZONEMD_MISMATCH",
   "NSEC_CHAIN_BROKEN", "NSEC3_CHAIN_BROKEN"}
Bad(found) ==
  {<<f.owner, f.type>> :
     f \in {f \in found : f.code \notin Warnings \cup Elsewhere /\ ~isHash(f.owner)}}

\* Signatures that have run out are reported too over records that no full pass
\* verifies.
RunOut ==
  {<<s.owner, s.covers>> : s \in {s \in OfType(store, "RRSIG") : Expired(s, now)}}

\* Whatever mix of full and incremental passes and sweeps led to the findings,
\* the RRsets with an open error are those a full pass would now report: nothing
\* is missed and, signatures that have run out aside, nothing invented.
FindingsExact ==
  swept = now =>
    LET full == Bad(Full(store, now).found)
        open == Bad(result.found)
    IN  full \subseteq open /\ open \subseteq full \cup RunOut

\* What a full pass would report as an error, but for what an incremental pass
\* does not look at by design: the chain of NSEC records and the ZONEMD digest.
FullErrors ==
  {f \in Full(store, now).found :
     f.code \notin Warnings \cup {"NSEC_CHAIN_BROKEN", "ZONEMD_MISMATCH"}}

\* No defect goes by unseen: while a full pass would find the copy invalid, an
\* error has been open at some time since it last was not, however the defect
\* came in and whichever passes followed.  It need not be open still: the finding
\* of a missing NSEC3 record is kept at the apex, where the next serial bump
\* drops it (VerdictAgrees).
DefectNoticed == swept = now /\ store # {} /\ ~noticed => FullErrors = {}

\* A zone that a full pass would now find invalid has an open error.  This does
\* not hold of the code: see AuditEdits.
VerdictAgrees ==
  swept = now /\ store # {} /\ ~HasErrors(result.found) => FullErrors = {}

\* A zone with a signature that verifies over nothing it holds is not valid.
\* No pass looks at the signatures of NSEC3 records unless the record itself was
\* touched, and this does not hold of them.
NoBadSignatureValid ==
  result.mode # "none" /\ ~HasErrors(result.found) =>
    \A s \in OfType(store, "RRSIG") :
      RRset(store, s.owner, s.covers) # {} /\ isAuthoritative(store, s.owner) => Verify(store, s)
=============================================================================
