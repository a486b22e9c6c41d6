----------------------------- MODULE Lifecycle -----------------------------
(***************************************************************************)
(* The life of the process (internal/app/app.go): it starts, takes NOTIFYs  *)
(* and refreshes the zone (module Notify), saves its state every so often   *)
(* (persistLoop) and once more on an orderly shutdown, and may be killed at *)
(* any point.  Saving is state.Save: a temporary file is written and        *)
(* renamed.  persistLoop and the shutdown use the same temporary file.      *)
(*                                                                          *)
(* What is saved of the zone, its findings, is the version they belong to.  *)
(* Zone snapshots, which ZoneTransfer has, are off: a process starts        *)
(* without a store.                                                         *)
(***************************************************************************)
EXTENDS Notify

CONSTANT MaxStops   \* bound: number of crashes and shutdowns

ASSUME LifecycleAssumption == MaxStops \in Nat

VARIABLES
  run,    \* "up", told to stop ("stopping"), in its last Save ("saving"), "down"
  stops,  \* number of times it stopped
  known,  \* version the findings in memory belong to, 0 for none
  path,   \* the state file
  tmp,    \* the temporary file
  saver,  \* the two calls of Save that may be under way
  \* history
  mixed,  \* the state file may come from two saves at once
  saved   \* what the last Save that succeeded had collected

process == <<run, stops>>
files   == <<path, tmp, mixed, saved>>
lvars   == <<vars, process, known, files, saver>>

Savers == {"loop", "final"}

\* A file holds the version saved, or something json.Unmarshal refuses.
Torn   == MaxVersion + 1
NoFile == MaxVersion + 2

\* data: what was collected; fd: the name under which the file being written is
\* to be found; alone: no other Save ran meanwhile.
NoSave == [step |-> "idle", data |-> 0, fd |-> "none", alone |-> TRUE]

LInit ==
  /\ Init
  /\ run = "up"
  /\ stops = 0
  /\ known = store
  /\ path = NoFile
  /\ tmp = NoFile
  /\ saver = [s \in Savers |-> NoSave]
  /\ mixed = FALSE
  /\ saved = NoFile
-----------------------------------------------------------------------------
(* Listener and refreshes *)

Outside == (Publish \/ ChangePrimary \/ \E k \in Kinds : Send(k) \/ Lose(k))
           /\ UNCHANGED <<process, known, files, saver>>

Listen == /\ run = "up"
          /\ WindowEnds \/ RefreshDue \/ Tick \/ \E k \in Kinds : Handle(k)
          /\ UNCHANGED <<process, known, files, saver>>

\* A refresh under way when the process is told to stop may still end.
StartRefresh == run # "down" /\ RunHandler /\ UNCHANGED <<process, known, files, saver>>
ProbeServer  == run # "down" /\ (Probe \/ NoServer) /\ UNCHANGED <<process, known, files, saver>>

\* Only what was transferred whole or applied to the end is verified.
EndRefresh ==
  /\ run # "down"
  /\ \/ (Unchanged \/ TransferFails \/ ApplyFails) /\ UNCHANGED known
     \/ Fetch /\ known' = store'
  /\ UNCHANGED <<process, files, saver>>
-----------------------------------------------------------------------------
(* Save *)

Busy(s) == saver[s].step # "idle"

MaySave(s) ==
  CASE s = "loop"  -> run # "down"
    [] s = "final" -> run = "stopping"

\* The views of the zones are collected.
Collect(s) ==
  /\ MaySave(s)
  /\ ~Busy(s)
  /\ LET alone == \A t \in Savers \ {s} : ~Busy(t)
     IN  saver' = [t \in Savers |->
                     IF t = s THEN [NoSave EXCEPT !.step = "open", !.data = known, !.alone = alone]
                     ELSE [saver[t] EXCEPT !.alone = @ /\ ~Busy(t)]]
  /\ run' = IF s = "final" THEN "saving" ELSE run
  /\ UNCHANGED <<vars, stops, known, files>>

At(s, step) == run # "down" /\ saver[s].step = step

\* os.WriteFile, opening: the file is empty now, whoever else has it open.
Open(s) ==
  /\ At(s, "open")
  /\ saver' = [saver EXCEPT ![s].step = "write", ![s].fd = "tmp"]
  /\ tmp' = Torn
  /\ UNCHANGED <<vars, process, known, path, mixed, saved>>

\* What a file holds after d is written over what another Save wrote since it
\* was opened: the tail of a longer text stays.
Over(old, d) == IF old = Torn THEN {d} ELSE {d, Torn}

Put(s, d) ==
  /\ tmp' \in IF saver[s].fd = "tmp" THEN Over(tmp, d) ELSE {tmp}
  /\ path' \in IF saver[s].fd = "path" THEN Over(path, d) ELSE {path}

Write(s) ==
  /\ At(s, "write")
  /\ Put(s, saver[s].data)
  /\ saver' = [saver EXCEPT ![s].step = "rename"]
  /\ UNCHANGED <<vars, process, known, mixed, saved>>

\* Mutant: an error of the write is overlooked.
AfterError_Rename(s) == [saver EXCEPT ![s].step = "rename"]

AfterError(s) == [saver EXCEPT ![s] = NoSave]

\* The disk is full after some of it: Save returns the error.
WriteFails(s) ==
  /\ At(s, "write")
  /\ Put(s, Torn)
  /\ saver' = AfterError(s)
  /\ UNCHANGED <<vars, process, known, mixed, saved>>

\* Whatever has the temporary name becomes the state file; a Save that has it
\* open goes on writing to the state file.
Rename(s) ==
  /\ At(s, "rename")
  /\ IF tmp = NoFile
       THEN UNCHANGED files /\ saver' = [saver EXCEPT ![s] = NoSave]
       ELSE /\ path' = tmp
            /\ tmp' = NoFile
            /\ mixed' = ~saver[s].alone
            /\ saved' = saver[s].data
            /\ saver' = [t \in Savers |->
                 IF t = s THEN NoSave
                 ELSE [saver[t] EXCEPT !.fd = CASE @ = "tmp" -> "path"
                                                [] @ = "path" -> "none"
                                                [] OTHER -> @]]
  /\ UNCHANGED <<vars, process, known>>

Save == \E s \in Savers :
          Collect(s) \/ Open(s) \/ Write(s) \/ WriteFails(s) \/ Rename(s)
-----------------------------------------------------------------------------
(* Process *)

\* SIGTERM: the context is cancelled, the listener and the ticker stop.
Shutdown ==
  /\ run = "up"
  /\ stops < MaxStops
  /\ stops' = stops + 1
  /\ run' = "stopping"
  /\ UNCHANGED <<vars, known, files, saver>>

\* Everything in memory is gone; the files stay as they are.
Gone ==
  /\ run' = "down"
  /\ known' = 0
  /\ saver' = [s \in Savers |-> NoSave]
  /\ last' = "old" /\ pending' = 0 /\ phase' = "idle" /\ seen' = 0 /\ store' = 0
  /\ next' = "none" /\ broken' = FALSE
  /\ UNCHANGED <<published, mail, answers, promised, files>>

\* Run returns once its own Save has; the other one may be anywhere.
Exit == run = "saving" /\ ~Busy("final") /\ Gone /\ UNCHANGED stops

Crash ==
  /\ \/ run = "up" /\ stops < MaxStops /\ stops' = stops + 1
     \/ run \in {"stopping", "saving"} /\ UNCHANGED stops
  /\ Gone

\* Load: a file that is missing or refused counts as no state.
Load == IF path \in {Torn, NoFile} THEN 0 ELSE path

\* Manager.Run: go m.Refresh for every zone.
firstRefreshes == 1

\* Run: load and apply the state, start the listener and the manager.
Start ==
  /\ run = "down"
  /\ run' = "up"
  /\ known' = Load
  /\ pending' = firstRefreshes
  /\ UNCHANGED <<published, mail, last, refresh, answers, promised,
                 stops, files, saver>>

LNext ==
  \/ Outside \/ Listen \/ StartRefresh \/ ProbeServer \/ EndRefresh
  \/ Save \/ Shutdown \/ Exit \/ Crash \/ Start

LSpec == LInit /\ [][LNext]_lvars

\* Goroutines run while the process does, exchanges end or time out, and the
\* tick goes on until the process is told to stop; nobody promises to start it
\* again, that SOA REFRESH elapses, or that the primary answers.
LFairSpec ==
  /\ LSpec
  /\ WF_lvars(StartRefresh) /\ WF_lvars(ProbeServer) /\ WF_lvars(EndRefresh)
  /\ WF_lvars(Listen /\ Tick)
-----------------------------------------------------------------------------
(* Properties *)

\* Wherever the process is killed and whichever write fails, the state file is
\* what the last successful Save collected, unless persistLoop was saving while
\* the shutdown was.
SavedStateKept == ~mixed => path = saved

\* "file persists last-known state/findings across restarts": the state file can
\* always be read.  The two calls of Save together break this.
StateReadable == path # Torn

\* A NOTIFY that finds the zone idle, or a refresh about to probe, leads to the
\* version it announced, debounced or not, over any outages, refused transfers
\* and retries that come before the primary stays up.  The exceptions are named:
\* the process stops, and then the next one gets there too; or changes could not
\* be applied, after which no retry is scheduled.
NotifiedUnlessStopped ==
  <>[]answers =>
    \A v \in 1..MaxVersion :
      (promised >= v /\ run = "up") ~> (store >= v \/ run # "up" \/ broken)
=============================================================================
