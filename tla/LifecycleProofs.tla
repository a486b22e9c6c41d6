--------------------------- MODULE LifecycleProofs ---------------------------
(***************************************************************************)
(* The state file survives: proofs about Lifecycle, for any number of       *)
(* versions, messages, crashes and shutdowns.                               *)
(***************************************************************************)
EXTENDS Lifecycle, TLAPS

USE DEF vars, refresh, process, files, lvars

SaveSteps == {"idle", "open", "write", "rename"}

SaveType ==
  [step : SaveSteps, data : 0..MaxVersion, fd : {"none", "tmp", "path"},
   alone : BOOLEAN]

LTypeOK ==
  /\ published \in 1..MaxVersion
  /\ store \in 0..MaxVersion
  /\ known \in 0..MaxVersion
  /\ path \in 0..NoFile
  /\ tmp \in 0..NoFile
  /\ saver \in [Savers -> SaveType]
  /\ mixed \in BOOLEAN
  /\ saved \in 0..MaxVersion \cup {NoFile}

\* A call of Save whose file got the state file's name ahead of it writes to the
\* state file; one that was alone all the time has the temporary file to itself.
SaverOK(s) ==
  /\ ~Busy(s) => saver[s].fd = "none"
  /\ saver[s].fd = "path" => mixed
  /\ Busy(s) /\ saver[s].alone =>
       /\ \A t \in Savers \ {s} : ~Busy(t)
       /\ saver[s].fd # "path"
       /\ saver[s].step = "write" => saver[s].fd = "tmp" /\ tmp = Torn
       /\ saver[s].step = "rename" => saver[s].fd = "tmp" /\ tmp = saver[s].data

SaveInv == LTypeOK /\ (\A s \in Savers : SaverOK(s)) /\ SavedStateKept

\* What the other parts of the process do does not touch the files.
Elsewhere ==
  \/ Outside \/ Listen \/ StartRefresh \/ ProbeServer \/ EndRefresh \/ Shutdown

LEMMA ElsewhereFrame ==
  ASSUME LTypeOK, Elsewhere
  PROVE  /\ UNCHANGED <<files, saver>>
         /\ published' \in 1..MaxVersion
         /\ store' \in 0..MaxVersion
         /\ known' \in 0..MaxVersion
<1>0. MaxVersion \in Nat
  BY NotifyAssumption
<1>1. CASE Outside
  BY <1>0, <1>1 DEF Outside, Publish, ChangePrimary, Send, Lose, LTypeOK
<1>2. CASE Listen
  BY <1>2 DEF Listen, WindowEnds, RefreshDue, Tick, Handle, LTypeOK
<1>3. CASE StartRefresh
  BY <1>3 DEF StartRefresh, RunHandler, LTypeOK
<1>4. CASE ProbeServer
  BY <1>4 DEF ProbeServer, Probe, NoServer, Return, LTypeOK
<1>5. CASE EndRefresh
  <2>1. UNCHANGED <<files, saver, published>>
    BY <1>5 DEF EndRefresh, Unchanged, TransferFails, Fetch, ApplyFails, Return
  <2>2. store' \in {store, published} /\ known' \in {known, published}
    BY <1>5 DEF EndRefresh, Unchanged, TransferFails, Fetch, ApplyFails
  <2> QED BY <1>0, <2>1, <2>2 DEF LTypeOK
<1>6. CASE Shutdown
  BY <1>6 DEF Shutdown, LTypeOK
<1> QED BY <1>1, <1>2, <1>3, <1>4, <1>5, <1>6 DEF Elsewhere

\* The values of the calls of Save are told apart.
LEMMA FileNames ==
  /\ MaxVersion \in Nat
  /\ Torn \in 0..NoFile /\ NoFile \in 0..NoFile
  /\ 0..MaxVersion \subseteq 0..NoFile
  /\ Torn \notin 0..MaxVersion /\ Torn # NoFile /\ NoFile \notin 0..MaxVersion
BY NotifyAssumption DEF Torn, NoFile

\* What a change of its fields leaves of a call of Save.
LEMMA SaveFields ==
  ASSUME NEW r \in SaveType
  PROVE  /\ \A x \in BOOLEAN : [r EXCEPT !.alone = x] \in SaveType
         /\ \A x \in {"none", "tmp", "path"} : [r EXCEPT !.fd = x] \in SaveType
         /\ \A x \in SaveSteps : [r EXCEPT !.step = x] \in SaveType
BY DEF SaveType

\* Collecting the views.
LEMMA CollectSafe ==
  ASSUME SaveInv, NEW s \in Savers, Collect(s)
  PROVE  SaveInv'
<1>1. LTypeOK /\ \A t \in Savers : SaverOK(t)
  BY DEF SaveInv
<1>2. ~Busy(s) /\ UNCHANGED <<vars, known, files>>
  BY DEF Collect
<1>3. /\ saver'[s] = [step |-> "open", data |-> known, fd |-> "none",
                      alone |-> \A t \in Savers \ {s} : ~Busy(t)]
      /\ \A t \in Savers \ {s} :
           saver'[t] = [saver[t] EXCEPT !.alone = saver[t].alone /\ ~Busy(t)]
      /\ DOMAIN saver' = Savers
  BY DEF Collect, NoSave
<1>4. \A t \in Savers \ {s} :
        /\ saver'[t].step = saver[t].step /\ saver'[t].data = saver[t].data
        /\ saver'[t].fd = saver[t].fd
        /\ saver'[t].alone = (saver[t].alone /\ ~Busy(t))
  BY <1>1, <1>3 DEF LTypeOK, SaveType
<1>5. saver' \in [Savers -> SaveType]
  <2>1. saver'[s] \in SaveType
    BY <1>1, <1>3 DEF LTypeOK, SaveType, SaveSteps
  <2>2. ASSUME NEW t \in Savers \ {s}
        PROVE  saver'[t] \in SaveType
    <3>1. (saver[t].alone /\ ~Busy(t)) \in BOOLEAN
      BY Zenon
    <3>2. saver[t] \in SaveType
      BY <1>1 DEF LTypeOK
    <3> QED BY <1>3, <3>1, <3>2, SaveFields
  <2>3. saver' = [t \in Savers |-> saver'[t]]
    BY DEF Collect
  <2> QED BY <2>1, <2>2, <2>3
<1>6. LTypeOK'
  BY <1>1, <1>2, <1>5 DEF LTypeOK
<1>7. SaverOK(s)'
  BY <1>2, <1>3, <1>4 DEF SaverOK, Busy
<1>8. ASSUME NEW t \in Savers \ {s}
      PROVE  SaverOK(t)'
  <2>1. SaverOK(t)
    BY <1>1
  <2> QED BY <1>2, <1>4, <2>1 DEF SaverOK, Busy
<1> QED BY <1>2, <1>6, <1>7, <1>8 DEF SaveInv, SavedStateKept
\* Opening the temporary file.
LEMMA OpenSafe ==
  ASSUME SaveInv, NEW s \in Savers, Open(s)
  PROVE  SaveInv'
<1>1. LTypeOK /\ \A t \in Savers : SaverOK(t)
  BY DEF SaveInv
<1>2. /\ saver[s].step = "open" /\ tmp' = Torn
      /\ UNCHANGED <<vars, known, path, mixed, saved>>
      /\ saver' = [saver EXCEPT ![s].step = "write", ![s].fd = "tmp"]
  BY DEF Open, At
<1>3. /\ saver'[s].step = "write" /\ saver'[s].fd = "tmp"
      /\ saver'[s].alone = saver[s].alone
      /\ \A t \in Savers \ {s} : saver'[t] = saver[t]
  BY <1>1, <1>2 DEF LTypeOK, SaveType
<1>4. LTypeOK'
  BY <1>1, <1>2, FileNames DEF LTypeOK, SaveType, SaveSteps
<1>5. SaverOK(s)'
  BY <1>1, <1>2, <1>3 DEF SaverOK, Busy
<1>6. ASSUME NEW t \in Savers \ {s}
      PROVE  SaverOK(t)'
  BY <1>1, <1>2, <1>3 DEF SaverOK, Busy
<1> QED BY <1>2, <1>4, <1>5, <1>6 DEF SaveInv, SavedStateKept

\* What a write leaves in the files: a call that was alone has written its own
\* data to the temporary file, and only a mixed state file is written to.
LEMMA PutSafe ==
  ASSUME SaveInv, NEW s \in Savers, At(s, "write"),
         NEW d \in 0..MaxVersion \cup {Torn}, Put(s, d)
  PROVE  /\ path' \in 0..NoFile /\ tmp' \in 0..NoFile
         /\ ~mixed => path' = path
         /\ saver[s].alone => saver[s].fd = "tmp" /\ tmp' = d
         /\ \A t \in Savers \ {s} : ~(Busy(t) /\ saver[t].alone)
<1>1. LTypeOK /\ (\A t \in Savers : SaverOK(t)) /\ Busy(s)
  BY DEF SaveInv, At, Busy
<1>2. \A old \in 0..NoFile : Over(old, d) \subseteq 0..NoFile
  BY FileNames DEF Over
<1>3. path' \in 0..NoFile /\ tmp' \in 0..NoFile
  BY <1>1, <1>2 DEF Put, LTypeOK
<1>4. saver[s].fd # "path" => path' = path
  BY DEF Put
<1>5. saver[s].alone => saver[s].fd = "tmp" /\ tmp = Torn
  BY <1>1 DEF SaverOK, At
<1>6. saver[s].alone => tmp' = d
  BY <1>5 DEF Put, Over
<1> QED BY <1>1, <1>3, <1>4, <1>5, <1>6 DEF SaverOK

\* Writing, to the end or up to an error.
LEMMA WriteSafe ==
  ASSUME SaveInv, NEW s \in Savers, Write(s) \/ WriteFails(s)
  PROVE  SaveInv'
<1>1. LTypeOK /\ (\A t \in Savers : SaverOK(t)) /\ SavedStateKept
  BY DEF SaveInv
<1>2. At(s, "write") /\ UNCHANGED <<vars, known, mixed, saved>>
  BY DEF Write, WriteFails
<1>3. CASE Write(s)
  <2>1. saver[s].data \in 0..MaxVersion
    BY <1>1 DEF LTypeOK, SaveType
  <2>2. /\ path' \in 0..NoFile /\ tmp' \in 0..NoFile
        /\ ~mixed => path' = path
        /\ saver[s].alone => saver[s].fd = "tmp" /\ tmp' = saver[s].data
        /\ \A t \in Savers \ {s} : ~(Busy(t) /\ saver[t].alone)
    BY <1>2, <1>3, <2>1, PutSafe DEF Write
  <2>3. saver' = [saver EXCEPT ![s].step = "rename"]
    BY <1>3 DEF Write
  <2>4. /\ saver'[s].step = "rename" /\ saver'[s].fd = saver[s].fd
        /\ saver'[s].alone = saver[s].alone /\ saver'[s].data = saver[s].data
        /\ \A t \in Savers \ {s} : saver'[t] = saver[t]
    BY <1>1, <2>3 DEF LTypeOK, SaveType
  <2>5. LTypeOK'
    BY <1>1, <1>2, <2>2, <2>3 DEF LTypeOK, SaveType, SaveSteps
  <2>6. SaverOK(s)'
    BY <1>1, <1>2, <2>2, <2>4 DEF SaverOK, Busy, At
  <2>7. ASSUME NEW t \in Savers \ {s}
        PROVE  SaverOK(t)'
    BY <1>1, <1>2, <2>2, <2>4 DEF SaverOK, Busy
  <2> QED BY <1>1, <1>2, <2>2, <2>5, <2>6, <2>7 DEF SaveInv, SavedStateKept
<1>4. CASE WriteFails(s)
  <2>1. /\ path' \in 0..NoFile /\ tmp' \in 0..NoFile
        /\ ~mixed => path' = path
        /\ \A t \in Savers \ {s} : ~(Busy(t) /\ saver[t].alone)
    BY <1>2, <1>4, PutSafe DEF WriteFails
  <2>2. saver' = [saver EXCEPT ![s] = NoSave]
    BY <1>4 DEF WriteFails, AfterError
  <2>3. /\ saver'[s].step = "idle" /\ saver'[s].fd = "none"
        /\ \A t \in Savers \ {s} : saver'[t] = saver[t]
    BY <1>1, <2>2 DEF LTypeOK, NoSave
  <2>4. LTypeOK'
    BY <1>1, <1>2, <2>1, <2>2, FileNames DEF LTypeOK, SaveType, SaveSteps, NoSave
  <2>5. SaverOK(s)'
    BY <2>3 DEF SaverOK, Busy
  <2>6. ASSUME NEW t \in Savers \ {s}
        PROVE  SaverOK(t)'
    BY <1>1, <1>2, <2>1, <2>3 DEF SaverOK, Busy
  <2> QED BY <1>1, <1>2, <2>1, <2>4, <2>5, <2>6 DEF SaveInv, SavedStateKept
<1> QED BY <1>3, <1>4

\* Renaming: a call that was alone publishes what it collected; one that was not
\* leaves a mark.
LEMMA RenameSafe ==
  ASSUME SaveInv, NEW s \in Savers, Rename(s)
  PROVE  SaveInv'
<1>1. LTypeOK /\ (\A t \in Savers : SaverOK(t)) /\ SavedStateKept
  BY DEF SaveInv
<1>2. At(s, "rename") /\ UNCHANGED <<vars, known>>
  BY DEF Rename
<1>3. CASE tmp = NoFile
  <2>1. UNCHANGED files /\ saver' = [saver EXCEPT ![s] = NoSave]
    BY <1>3 DEF Rename
  <2>2. /\ saver'[s].step = "idle" /\ saver'[s].fd = "none"
        /\ \A t \in Savers \ {s} : saver'[t] = saver[t]
    BY <1>1, <2>1 DEF LTypeOK, NoSave
  <2>3. LTypeOK'
    BY <1>1, <1>2, <2>1, FileNames DEF LTypeOK, SaveType, SaveSteps, NoSave
  <2>4. \A t \in Savers : SaverOK(t)'
    BY <1>1, <2>1, <2>2 DEF SaverOK, Busy
  <2> QED BY <1>1, <2>1, <2>3, <2>4 DEF SaveInv, SavedStateKept
<1>4. CASE tmp # NoFile
  <2> DEFINE Moved(fd) == CASE fd = "tmp" -> "path" [] fd = "path" -> "none"
                            [] OTHER -> fd
  <2>1. /\ path' = tmp /\ tmp' = NoFile /\ mixed' = ~saver[s].alone
        /\ saved' = saver[s].data
        /\ saver' = [t \in Savers |-> IF t = s THEN NoSave
                       ELSE [saver[t] EXCEPT !.fd = Moved(saver[t].fd)]]
    BY <1>4 DEF Rename
  <2>2. /\ saver'[s] = NoSave
        /\ \A t \in Savers \ {s} :
             saver'[t] = [saver[t] EXCEPT !.fd = Moved(saver[t].fd)]
    BY <2>1
  <2>3. \A t \in Savers \ {s} :
          /\ saver[t] \in SaveType
          /\ Moved(saver[t].fd) \in {"none", "tmp", "path"}
          /\ saver[t].fd = "none" => Moved(saver[t].fd) = "none"
    BY <1>1 DEF LTypeOK, SaveType
  <2>4. \A t \in Savers \ {s} :
          /\ saver'[t] \in SaveType /\ saver'[t].step = saver[t].step
          /\ saver'[t].fd = Moved(saver[t].fd)
          /\ saver'[t].alone = saver[t].alone
    <3> SUFFICES ASSUME NEW t \in Savers \ {s}
                 PROVE  /\ saver'[t] \in SaveType /\ saver'[t].step = saver[t].step
                        /\ saver'[t].fd = Moved(saver[t].fd)
                        /\ saver'[t].alone = saver[t].alone
      OBVIOUS
    <3> DEFINE x == Moved(saver[t].fd)
    <3>1. /\ saver[t] \in SaveType /\ x \in {"none", "tmp", "path"}
          /\ saver'[t] = [saver[t] EXCEPT !.fd = x]
      BY <2>2, <2>3
    <3> HIDE DEF x
    <3>2. /\ saver'[t] \in SaveType /\ saver'[t].step = saver[t].step
          /\ saver'[t].fd = x /\ saver'[t].alone = saver[t].alone
      BY <3>1 DEF SaveType
    <3> QED BY <3>2 DEF x
  <2> HIDE DEF Moved
  <2>5. saver' \in [Savers -> SaveType]
    <3>1. NoSave \in SaveType
      BY FileNames DEF NoSave, SaveType, SaveSteps
    <3>2. \A t \in Savers : saver'[t] \in SaveType
      BY <2>2, <2>4, <3>1
    <3>3. saver' = [t \in Savers |-> saver'[t]]
      BY <2>1
    <3> QED BY <3>2, <3>3
  <2>6. saver[s].alone \in BOOLEAN /\ saver[s].data \in 0..MaxVersion
    BY <1>1 DEF LTypeOK, SaveType
  <2>7. mixed' \in BOOLEAN
    BY <2>1, Zenon
  <2>8. LTypeOK'
    BY <1>1, <1>2, <2>1, <2>5, <2>6, <2>7, FileNames DEF LTypeOK
  <2>9. saver[s].alone =>
          tmp = saver[s].data /\ \A t \in Savers \ {s} : ~Busy(t)
    BY <1>1, <1>2 DEF SaverOK, Busy, At
  <2>10. ~mixed' => saver[s].alone
    BY <2>1, Zenon
  <2>11. SaverOK(s)'
    BY <2>2 DEF SaverOK, Busy, NoSave
  <2>12. ASSUME NEW t \in Savers \ {s}
         PROVE  SaverOK(t)'
    <3>1. CASE Busy(t)
      <4>1. mixed' /\ ~saver[t].alone
        BY <1>1, <1>2, <2>9, <2>10, <3>1 DEF SaverOK, Busy, At
      <4> QED BY <2>4, <3>1, <4>1 DEF SaverOK, Busy
    <3>2. CASE ~Busy(t)
      BY <1>1, <2>3, <2>4, <3>2 DEF SaverOK, Busy
    <3> QED BY <3>1, <3>2
  <2>13. SavedStateKept'
    BY <2>1, <2>9, <2>10 DEF SavedStateKept
  <2> QED BY <2>8, <2>11, <2>12, <2>13 DEF SaveInv
<1> QED BY <1>3, <1>4

\* Dying, at any point, and starting again.
LEMMA RestartSafe ==
  ASSUME SaveInv, Exit \/ Crash \/ Start
  PROVE  SaveInv'
<1>1. LTypeOK /\ (\A t \in Savers : SaverOK(t)) /\ SavedStateKept
  BY DEF SaveInv
<1>2. CASE Exit \/ Crash
  <2>1. /\ UNCHANGED <<published, files>> /\ known' = 0 /\ store' = 0
        /\ saver' = [s \in Savers |-> NoSave]
    BY <1>2 DEF Exit, Crash, Gone
  <2>2. NoSave \in SaveType
    BY FileNames DEF NoSave, SaveType, SaveSteps
  <2>3. LTypeOK'
    BY <1>1, <2>1, <2>2, FileNames DEF LTypeOK
  <2>4. \A s \in Savers : SaverOK(s)'
    BY <2>1 DEF SaverOK, Busy, NoSave
  <2> QED BY <1>1, <2>1, <2>3, <2>4 DEF SaveInv, SavedStateKept
<1>3. CASE Start
  <2>1. UNCHANGED <<published, store, files, saver>> /\ known' = Load
    BY <1>3 DEF Start
  <2>2. Load \in 0..MaxVersion
    BY <1>1, FileNames DEF Load, LTypeOK, Torn, NoFile
  <2> QED BY <1>1, <2>1, <2>2 DEF SaveInv, LTypeOK, SaverOK, Busy, SavedStateKept
<1> QED BY <1>2, <1>3

\* The inductive invariant of the state file.
THEOREM SaveInvariance == LSpec => []SaveInv
<1>1. LInit => SaveInv
  <2> SUFFICES ASSUME LInit
               PROVE  SaveInv
    OBVIOUS
  <2>1. NoSave \in SaveType
    BY FileNames DEF NoSave, SaveType, SaveSteps
  <2>2. LTypeOK
    <3>1. published \in 1..MaxVersion /\ store \in 0..MaxVersion
      BY NotifyAssumption DEF LInit, Init
    <3> QED BY <2>1, <3>1, FileNames DEF LInit, LTypeOK
  <2>3. \A s \in Savers : SaverOK(s)
    BY DEF LInit, SaverOK, Busy, NoSave
  <2> QED BY <2>2, <2>3 DEF LInit, SaveInv, SavedStateKept
<1>2. SaveInv /\ [LNext]_lvars => SaveInv'
  <2> SUFFICES ASSUME SaveInv, [LNext]_lvars
               PROVE  SaveInv'
    OBVIOUS
  <2>1. CASE Elsewhere
    <3>1. LTypeOK
      BY DEF SaveInv
    <3>2. /\ UNCHANGED <<files, saver>> /\ published' \in 1..MaxVersion
          /\ store' \in 0..MaxVersion /\ known' \in 0..MaxVersion
      BY <2>1, <3>1, ElsewhereFrame
    <3> QED BY <3>2 DEF SaveInv, LTypeOK, SaverOK, Busy, SavedStateKept
  <2>2. CASE UNCHANGED lvars
    BY <2>2 DEF SaveInv, LTypeOK, SaverOK, Busy, SavedStateKept
  <2>3. CASE Save
    BY <2>3, CollectSafe, OpenSafe, WriteSafe, RenameSafe DEF Save
  <2>4. CASE Exit \/ Crash \/ Start
    BY <2>4, RestartSafe
  <2> QED BY <2>1, <2>2, <2>3, <2>4 DEF LNext, Elsewhere
<1> QED BY <1>1, <1>2, PTL DEF LSpec

\* Wherever the process is killed and whichever write fails, the state file is
\* what the last successful Save had collected, unless persistLoop and the
\* shutdown were saving at once.
THEOREM StateFileKept == LSpec => []SavedStateKept
BY SaveInvariance, PTL DEF SaveInv

\* The state file can always be read, with the same exception: it is absent, or
\* holds findings that were collected.
THEOREM StateFileReadable == LSpec => [](~mixed => StateReadable)
<1>1. SaveInv => (~mixed => StateReadable)
  BY FileNames DEF SaveInv, LTypeOK, SavedStateKept, StateReadable
<1> QED BY <1>1, SaveInvariance, PTL
=============================================================================
