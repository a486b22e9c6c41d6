---------------------------- MODULE ZoneTransfer ----------------------------
(***************************************************************************)
(* How a zone gets into the store and onto disk: the AXFR and IXFR answers  *)
(* of a server (external), their reading by internal/xfr/client.go, the     *)
(* records and indexes of internal/zone/store.go, and its snapshots.        *)
(*                                                                          *)
(* A record is an owner, a type and data; the data of an SOA is its serial, *)
(* of an RRSIG its expiration, of an NSEC3 its next field.  Record order    *)
(* matters where the code depends on it: in the answers, and among the SOA  *)
(* records of a store.                                                      *)
(***************************************************************************)
EXTENDS Integers, SequencesExt

CONSTANTS
  Apex,          \* owner of the SOA
  Bodies,        \* what a version may hold besides its SOA: sets of records
  MaxSerial,     \* bound: number of versions published
  ManyChangesets \* the server may answer with one changeset per version

RR(owner, type, data) == [owner |-> owner, type |-> type, data |-> data]
SOA(n) == RR(Apex, "SOA", n)

ASSUME TransferAssumption ==
  /\ MaxSerial \in Nat \ {0}
  /\ ManyChangesets \in BOOLEAN
  /\ \A B \in Bodies : IsFiniteSet(B)
  /\ \A B \in Bodies : \A r, q \in B :
       /\ r = RR(r.owner, r.type, r.data) /\ r.type # "SOA"
       /\ r.type = "NSEC3" /\ q.type = "NSEC3" /\ r.owner = q.owner => r = q

VARIABLES
  published,  \* the body of every version, serials 1, 2, ...
  store,      \* the zone's store
  reading,    \* a snapshot being written: the records read so far
  snapshot    \* the snapshot on disk

vars == <<published, store, reading, snapshot>>

None == [soas |-> <<>>, serial |-> 0, rrs |-> {}, nsec3 |-> {}, expiry |-> {}]
NoSnapshot == [rrs |-> <<>>, serial |-> 0]
-----------------------------------------------------------------------------
(* Store *)

\* The keys of the two indexes.
nsec3Key(rr)  == rr.owner
expiryKey(rr) == <<rr.data, rr.owner>>

indexRR(st, rr) ==
  CASE rr.type = "NSEC3" ->
         [st EXCEPT !.nsec3 = {e \in @ : e.key # nsec3Key(rr)}
                                \cup {[key |-> nsec3Key(rr), next |-> rr.data]}]
    [] rr.type = "RRSIG" -> [st EXCEPT !.expiry = @ \cup {expiryKey(rr)}]
    [] OTHER -> st

\* Any NSEC3 at the hash goes, whether or not it is the record removed.
deindexRR(st, rr) ==
  CASE rr.type = "NSEC3" ->
         [st EXCEPT !.nsec3 = {e \in @ : e.key # nsec3Key(rr)}]
    [] rr.type = "RRSIG" -> [st EXCEPT !.expiry = @ \ {expiryKey(rr)}]
    [] OTHER -> st

\* An RRset keeps its records in the order they came, each of them once.
addPacked(rdata, r) == IF Contains(rdata, r) THEN rdata ELSE Append(rdata, r)
removePacked(rdata, r) == RemoveFirst(rdata, r)

\* soaLocked: the serial of the first SOA; without one the serial stays.
soaSerial(soas, serial) == IF soas = <<>> THEN serial ELSE Head(soas)

\* addRRLocked
addRR(st, rr) ==
  IF rr.type = "SOA"
    THEN [st EXCEPT !.soas = addPacked(@, rr.data), !.serial = rr.data]
    ELSE indexRR([st EXCEPT !.rrs = @ \cup {rr}], rr)

\* removeRRLocked: nothing is done at an owner without records.
removeRR(st, rr) ==
  IF rr.type = "SOA"
    THEN LET left == removePacked(st.soas, rr.data)
         IN  [st EXCEPT !.soas = left, !.serial = soaSerial(left, @)]
    ELSE IF \A q \in st.rrs : q.owner # rr.owner THEN st
    ELSE deindexRR([st EXCEPT !.rrs = @ \ {rr}], rr)

\* Mutant: the records are added before the others are removed.
ApplyChanges_AddsFirst(st, adds, removes) ==
  FoldLeft(removeRR, FoldLeft(addRR, st, adds), removes)

ApplyChanges(st, adds, removes) ==
  FoldLeft(addRR, FoldLeft(removeRR, st, removes), adds)

\* FromAXFR, and the loop of Client.AXFR over the records received.
FromAXFR(rrs) == FoldLeft(addRR, None, rrs)

\* AllRRs, in some order.
AllRRs(st) == [i \in DOMAIN st.soas |-> SOA(st.soas[i])] \o SetToSeq(st.rrs)
-----------------------------------------------------------------------------
(* Server answers (external: RFC 5936 and RFC 1995) *)

Current == Len(published)
Body(n) == published[n]

WholeZone == <<SOA(Current)>> \o SetToSeq(Body(Current)) \o <<SOA(Current)>>

Changeset(a, b) ==
  <<SOA(a)>> \o SetToSeq(Body(a) \ Body(b)) \o <<SOA(b)>> \o SetToSeq(Body(b) \ Body(a))

Answer(changesets) ==
  <<SOA(Current)>> \o FlattenSeq(changesets) \o <<SOA(Current)>>

\* The answers to an IXFR request: the zone; nothing new; one changeset; or the
\* journal, one changeset per version.
Answers(from) ==
  {WholeZone}
    \cup (IF from >= Current THEN {<<SOA(Current)>>}
          ELSE {Answer(<<Changeset(from, Current)>>)}
                 \cup IF ManyChangesets
                        THEN {Answer([i \in 1..(Current - from) |->
                                        Changeset(from + i - 1, from + i)])}
                        ELSE {})
-----------------------------------------------------------------------------
(* Client *)

appendSOA(soas, rr) == IF rr.type = "SOA" THEN Append(soas, rr) ELSE soas
Serials(rrs) == FoldLeft(appendSOA, <<>>, rrs)

\* One record of the walk over an incremental answer.  mode: 0 before the first
\* SOA, 1 deleting, 2 adding.
Walk(serial, w, rr) ==
  CASE w.mode = 0 -> [w EXCEPT !.mode = IF rr.type = "SOA" THEN 1 ELSE 0]
    [] w.mode = 1 /\ rr = SOA(serial) ->
         [w EXCEPT !.mode = 2, !.adds = Append(@, rr)]
    [] w.mode = 1 /\ rr # SOA(serial) -> [w EXCEPT !.removes = Append(@, rr)]
    [] w.mode = 2 /\ rr = SOA(serial) -> w
    [] w.mode = 2 /\ rr.type = "SOA" /\ rr # SOA(serial) ->
         [w EXCEPT !.mode = 1, !.removes = Append(@, rr)]
    [] w.mode = 2 /\ rr.type # "SOA" -> [w EXCEPT !.adds = Append(@, rr)]

\* Mutant: a whole zone is not told from an incremental answer.
IsFallback_Never(soas) == Len(soas) = 0

\* A single pair of identical SOAs wraps a whole zone.
IsFallback(soas) ==
  \/ Len(soas) = 0
  \/ Len(soas) = 2 /\ soas[1] = soas[2]

parseIXFR(rrs, from) ==
  LET soas   == Serials(rrs)
      serial == Head(soas).data
      start  == [mode |-> 0, adds |-> <<>>, removes |-> <<>>]
  IN  IF Len(soas) <= 2 /\ serial = from
        THEN start
        ELSE FoldLeft(LAMBDA w, rr : Walk(serial, w, rr), start, rrs)

\* Drop the SOA that closes a whole zone, and keep the first.
stripSOAEnvelope(rrs) ==
  LET closing(i) == i = Len(rrs) /\ i > 1 /\ rrs[i].type = "SOA"
  IN  [i \in {i \in DOMAIN rrs : ~closing(i)} |-> rrs[i]]

\* Client.IXFR and the use Refresh makes of its result.
ApplyAnswer(st, rrs) ==
  IF IsFallback(Serials(rrs))
    THEN FromAXFR(stripSOAEnvelope(rrs))
    ELSE LET w == parseIXFR(rrs, st.serial)
         IN  ApplyChanges(st, w.adds, w.removes)
-----------------------------------------------------------------------------
Init ==
  /\ published \in {<<B>> : B \in Bodies}
  /\ store = None
  /\ reading = <<>>
  /\ snapshot = NoSnapshot

Publish ==
  /\ Current < MaxSerial
  /\ \E B \in Bodies : published' = Append(published, B)
  /\ UNCHANGED <<store, reading, snapshot>>

\* Refresh transfers when the store's serial is not the server's.
AXFR ==
  /\ store.serial # Current
  /\ store' = FromAXFR(WholeZone)
  /\ UNCHANGED <<published, reading, snapshot>>

IXFR ==
  /\ store.serial \notin {0, Current}
  /\ \E rrs \in Answers(store.serial) : store' = ApplyAnswer(store, rrs)
  /\ UNCHANGED <<published, reading, snapshot>>

\* WriteSnapshot reads the records, gives up the lock, then reads the serial.  It
\* runs in the goroutine that verified a zone of this name; a transfer comes
\* between when the zone was removed and added again meanwhile.  The file
\* replaces the old one when complete.
SnapshotRecords ==
  /\ store # None
  /\ reading = <<>>
  /\ reading' = AllRRs(store)
  /\ UNCHANGED <<published, store, snapshot>>

SnapshotSerial ==
  /\ reading # <<>>
  /\ snapshot' = [rrs |-> reading, serial |-> store.serial]
  /\ reading' = <<>>
  /\ UNCHANGED <<published, store>>

\* Mutant: the serial of the header is kept.
ReadSnapshot_Header(f) == [FromAXFR(f.rrs) EXCEPT !.serial = f.serial]

\* ReadSnapshot: the header's serial is set first, then every record is added.
ReadSnapshot(f) == FoldLeft(addRR, [None EXCEPT !.serial = f.serial], f.rrs)

\* The process stops, with or without a snapshot half written, and starts again.
Restart ==
  /\ store' = ReadSnapshot(snapshot)
  /\ reading' = <<>>
  /\ UNCHANGED <<published, snapshot>>

Next ==
  Publish \/ AXFR \/ IXFR \/ SnapshotRecords \/ SnapshotSerial \/ Restart

Spec == Init /\ [][Next]_vars
-----------------------------------------------------------------------------
(* Properties *)

\* However the zone was transferred, and after any restart from a snapshot, the
\* store holds exactly the records of the version whose serial it reports.
StoreExact ==
  store # None =>
    /\ store.soas = <<store.serial>>
    /\ store.serial \in DOMAIN published
    /\ store.rrs = published[store.serial]

\* The NSEC3 and expiry indexes, which the chain checks and the expiry sweep
\* read, list exactly the NSEC3 and RRSIG records held.
IndexExact ==
  /\ store.nsec3 = {[key |-> nsec3Key(r), next |-> r.data] :
                      r \in {r \in store.rrs : r.type = "NSEC3"}}
  /\ store.expiry = {expiryKey(r) : r \in {r \in store.rrs : r.type = "RRSIG"}}

\* A snapshot taken while a transfer replaces records is restored to one
\* version of the zone, with that version's serial.
SnapshotExact ==
  snapshot # NoSnapshot =>
    LET st == ReadSnapshot(snapshot)
    IN  st.serial \in DOMAIN published /\ st.rrs = published[st.serial]
=============================================================================
