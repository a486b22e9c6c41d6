------------------------------- MODULE Notify -------------------------------
(***************************************************************************)
(* From a NOTIFY to a refreshed zone: the listener with its checks and its  *)
(* debouncing (internal/notify/listener.go), the goroutine it starts, and   *)
(* the refresh that goroutine may or may not get, over a network that loses *)
(* and duplicates messages.  The refresh itself is ZoneRefresh's, cut down  *)
(* to what a NOTIFY races with: the lock, the probe, every way it can end,  *)
(* and when the next one is due.                                            *)
(***************************************************************************)
EXTENDS Naturals

CONSTANTS
  MaxVersion,   \* bound: versions published
  MaxMail,      \* bound: messages under way
  MaxPending,   \* bound: goroutines started and not run yet
  Kinds,        \* what a message is; "notify" is a well-formed, allowed NOTIFY
  Timer,        \* the zone is also refreshed when its SOA REFRESH elapses
  CountAll      \* every accepted NOTIFY is held to promise its version

ASSUME NotifyAssumption ==
  /\ MaxVersion \in Nat \ {0}
  /\ {MaxMail, MaxPending} \subseteq Nat
  /\ "notify" \in Kinds
  /\ {Timer, CountAll} \subseteq BOOLEAN

VARIABLES
  published,  \* version the primary publishes
  mail,       \* messages under way to the listener, by kind
  last,       \* when the last NOTIFY passed: "recent", or "old" if ever
  pending,    \* goroutines started and not run yet, whoever started them
  phase,      \* of the zone's refresh: "idle", "locked" or "probed"
  seen,       \* version its probe saw, 0 before and after
  store,      \* version held
  next,       \* NextRefresh: "none", "far" (SOA REFRESH away) or "soon", a retry
              \* or past already
  answers,    \* the primary answers what it is asked now; a query or a transfer
              \* that is refused or times out falls into a moment it does not
  \* history, for the properties
  promised,   \* newest version announced by a NOTIFY that a refresh is to follow
  broken      \* the last refresh ended because changes could not be applied

refresh == <<phase, seen, store, next, broken>>
vars    == <<published, mail, last, pending, refresh, answers, promised>>

Init ==
  /\ published = 1
  /\ mail = [k \in Kinds |-> 0]
  /\ last = "old"
  /\ pending = 0
  /\ phase = "idle"
  /\ seen = 0
  /\ store = 1
  /\ next = "far"
  /\ answers = TRUE
  /\ promised = 1
  /\ broken = FALSE

\* The primary publishes a version and sends a NOTIFY.
Publish ==
  /\ published < MaxVersion
  /\ published' = published + 1
  /\ mail["notify"] < MaxMail
  /\ mail' = [mail EXCEPT !["notify"] = @ + 1]
  /\ UNCHANGED <<last, pending, refresh, answers, promised>>

\* It comes and goes, between the probe and the transfer too.
ChangePrimary ==
  /\ answers' = ~answers
  /\ UNCHANGED <<published, mail, last, pending, refresh, promised>>

\* The network, and senders other than the primary.
Send(k) ==
  /\ mail[k] < MaxMail
  /\ mail' = [mail EXCEPT ![k] = @ + 1]
  /\ UNCHANGED <<published, last, pending, refresh, answers, promised>>

Lose(k) ==
  /\ mail[k] > 0
  /\ mail' = [mail EXCEPT ![k] = @ - 1]
  /\ UNCHANGED <<published, last, pending, refresh, answers, promised>>
-----------------------------------------------------------------------------
(* The listener *)

\* The early returns of handle: source, parse, opcode, TSIG, question.
Accepted(k) == k = "notify"

\* debounce: another NOTIFY passed less than half a second ago.
TooSoon == last = "recent"

NoteTime == last' = "recent"

\* A refresh that has not asked the primary yet is under way or bound to start.
Served ==
  \/ phase = "locked"
  \/ phase = "idle" /\ (~TooSoon \/ pending > 0 \/ next = "soon")

\* handle.  A NOTIFY that comes too soon is answered like the others and
\* starts nothing.
Handle(k) ==
  /\ mail[k] > 0
  /\ mail' = [mail EXCEPT ![k] = @ - 1]
  /\ promised' = IF Accepted(k) /\ (Served \/ CountAll) THEN published ELSE promised
  /\ IF Accepted(k) /\ ~TooSoon
       THEN /\ pending < MaxPending
            /\ NoteTime /\ pending' = pending + 1
       ELSE UNCHANGED <<last, pending>>
  /\ UNCHANGED <<published, refresh, answers>>

WindowEnds ==
  /\ last = "recent"
  /\ last' = "old"
  /\ UNCHANGED <<published, mail, pending, refresh, answers, promised>>
-----------------------------------------------------------------------------
(* The manager: when a refresh starts *)

\* RequestRefresh, then Refresh up to TryLockRefresh: a goroutine that finds
\* the zone being refreshed goes away.
RunHandler ==
  /\ pending > 0
  /\ pending' = pending - 1
  /\ phase' = IF phase = "idle" THEN "locked" ELSE phase
  /\ UNCHANGED <<published, mail, last, seen, store, next, answers, broken, promised>>

\* SOA REFRESH has elapsed.
RefreshDue ==
  /\ Timer
  /\ next = "far"
  /\ next' = "soon"
  /\ UNCHANGED <<published, mail, last, pending, phase, seen, store, answers, broken,
                 promised>>

\* The tick of Run finds the zone due, be it under refresh or not.  NextRefresh
\* stays until the end of a refresh moves it.
Tick ==
  /\ next = "soon"
  /\ pending < MaxPending
  /\ pending' = pending + 1
  /\ UNCHANGED <<published, mail, last, refresh, answers, promised>>
-----------------------------------------------------------------------------
(* Refresh: the probe and the ways it ends *)

\* Mutant: the wait after a failure is the one after a success.
schedule_Always(failed) == next' = "far"

\* SOA RETRY within retry_min and retry_max, or SOA REFRESH.
schedule(failed) == next' = IF failed THEN "soon" ELSE "far"

\* The refresh returns and unlocks the zone.
Return ==
  /\ phase' = "idle" /\ seen' = 0
  /\ UNCHANGED <<published, mail, last, pending, answers, promised>>

Probe ==
  /\ phase = "locked" /\ answers
  /\ phase' = "probed"
  /\ seen' = published
  /\ UNCHANGED <<published, mail, last, pending, store, next, answers, broken, promised>>

\* No server answers the probe.
NoServer ==
  /\ phase = "locked" /\ ~answers
  /\ Return /\ schedule(TRUE)
  /\ broken' = FALSE
  /\ UNCHANGED store

\* The probe saw the version held: nothing is transferred.
Unchanged ==
  /\ phase = "probed" /\ seen = store
  /\ Return /\ schedule(FALSE)
  /\ broken' = FALSE
  /\ UNCHANGED store

\* Neither IXFR nor AXFR succeeds: refused, cut off or timed out.
TransferFails ==
  /\ phase = "probed" /\ seen # store /\ ~answers
  /\ Return /\ schedule(TRUE)
  /\ broken' = FALSE
  /\ UNCHANGED store

\* What the primary publishes now, which may be newer than what the probe saw.
Fetch ==
  /\ phase = "probed" /\ seen # store /\ answers
  /\ Return /\ schedule(FALSE)
  /\ broken' = FALSE
  /\ store' = published

\* A change of an incremental answer cannot be applied: the serial may have been
\* replaced by then.  Nothing is scheduled; NextRefresh is what it was.
ApplyFails ==
  /\ phase = "probed" /\ seen # store /\ answers /\ store # 0
  /\ Return /\ UNCHANGED next
  /\ broken' = TRUE
  /\ store' \in {store, published}

Next ==
  \/ Publish \/ ChangePrimary \/ WindowEnds \/ RunHandler \/ RefreshDue \/ Tick
  \/ Probe \/ NoServer \/ Unchanged \/ TransferFails \/ Fetch \/ ApplyFails
  \/ \E k \in Kinds : Send(k) \/ Lose(k) \/ Handle(k)

Spec == Init /\ [][Next]_vars

\* Goroutines run, exchanges end or time out, and the tick comes every second,
\* a retry being retry_max away at most.  The network owes nobody anything, the
\* primary need not be there, and SOA REFRESH may be a day away.
FairSpec ==
  /\ Spec
  /\ WF_vars(RunHandler) /\ WF_vars(Tick)
  /\ WF_vars(Probe \/ NoServer)
  /\ WF_vars(Unchanged \/ TransferFails \/ Fetch \/ ApplyFails)
-----------------------------------------------------------------------------
(* Properties *)

\* "Incoming NOTIFY triggers an immediate refresh": with a primary that stays up,
\* every accepted NOTIFY (CountAll) leads to the version it announced, unless
\* changes could not be applied.
NotifyRefreshes ==
  <>[]answers =>
    \A v \in 1..MaxVersion : promised >= v ~> (store >= v \/ broken)
=============================================================================
