------------------------------ MODULE Delivery ------------------------------
(***************************************************************************)
(* How a change of a zone's state becomes known outside: the goroutines    *)
(* that publish (a refresh after its verdict, the expiry sweep), the bus    *)
(* (internal/event/bus.go), the webhook sender with its queue, its single   *)
(* worker and its retries (internal/webhooks/webhooks.go), and the clients  *)
(* of the event stream (internal/api/api.go, stream.go).                    *)
(***************************************************************************)
EXTENDS Naturals, SequencesExt, FiniteSets, Bags

CONSTANTS
  NumTargets,   \* webhook targets, in the order of the configuration
  Wants,        \* event types each target asks for
  QueueSize,
  MaxRetries,
  Clients,      \* clients of the event stream
  ClientBuffer,
  MaxCommits,   \* bound: verdicts
  MaxSweeps     \* bound: sweeps with something to say

ASSUME DeliveryAssumption ==
  /\ {NumTargets, MaxRetries, MaxCommits, MaxSweeps} \subseteq Nat
  /\ {QueueSize, ClientBuffer} \subseteq Nat \ {0}
  /\ DOMAIN Wants = 1..NumTargets

Targets == 1..NumTargets

VARIABLES
  state,      \* of the zone: its last verdict
  runs,       \* runs[p]: how often publisher p has published
  todo,       \* todo[p]: handler calls p still has to make, in order
  queue,      \* the webhook sender's channel
  current,    \* events the worker is delivering: none or one
  target,     \* target it has come to
  attempt,    \* attempt at that target, from 0
  online,     \* clients connected
  buffered,   \* number of events in each client's buffer
  \* history, for the properties
  accepted,   \* events that entered the queue
  received,   \* received[t]: events target t got, with the number of copies
  results,    \* results[t]: events with their counted result
  told        \* state named by the last event handed to the webhook sender

zoneVars == <<state, runs, todo>>
workVars == <<current, target, attempt, received, results>>
sseVars == <<online, buffered>>
vars == <<zoneVars, queue, workVars, sseVars, accepted, told>>

Publishers == {"refresh", "sweep"}

Init ==
  /\ state = "unknown"
  /\ runs = [p \in Publishers |-> 0]
  /\ todo = [p \in Publishers |-> <<>>]
  /\ queue = <<>>
  /\ current = {}
  /\ target = 1
  /\ attempt = 0
  /\ online = {}
  /\ buffered = [c \in Clients |-> 0]
  /\ accepted = {}
  /\ received = [t \in Targets |-> EmptyBag]
  /\ results = [t \in Targets |-> {}]
  /\ told = "unknown"
-----------------------------------------------------------------------------
(* Publishing *)

\* Publish calls the handlers one after the other: the webhook sender
\* subscribed first, the event stream last.
Calls(p, types, s) ==
  LET event(i) == [by |-> p, run |-> runs[p], type |-> types[i], state |-> s]
  IN  [j \in 1..2 * Len(types) |->
         [event |-> event((j + 1) \div 2),
          to |-> IF j % 2 = 1 THEN "webhooks" ELSE "stream"]]

\* The end of Refresh: the verdict is stored under the zone's mutex, the
\* events are published after it is released.
Commit(verdict) ==
  /\ runs["refresh"] < MaxCommits
  /\ todo = [p \in Publishers |-> <<>>]
  /\ state' = verdict
  /\ runs' = [runs EXCEPT !["refresh"] = @ + 1]
  /\ todo' = [todo EXCEPT !["refresh"] =
       Calls("refresh", <<"verification_completed", "zone_state_changed",
                          IF verdict = "invalid" THEN "zone_invalid" ELSE "zone_valid">>,
             verdict)]
  /\ UNCHANGED <<queue, workVars, sseVars, accepted, told>>

\* sweep publishes with the mutex held, so that no verdict is stored meanwhile.
\* It warns of signatures about to expire whether or not one has expired.
Sweep(expired, warns) ==
  /\ expired => state = "valid"
  /\ expired \/ warns
  /\ runs["sweep"] < MaxSweeps
  /\ todo["sweep"] = <<>>
  /\ state' = IF expired THEN "invalid" ELSE state
  /\ runs' = [runs EXCEPT !["sweep"] = @ + 1]
  /\ todo' = [todo EXCEPT !["sweep"] =
       Calls("sweep",
             (IF expired THEN <<"zone_invalid", "zone_state_changed">> ELSE <<>>)
               \o (IF warns THEN <<"zone_expiring_soon">> ELSE <<>>), state')]
  /\ UNCHANGED <<queue, workVars, sseVars, accepted, told>>

\* The handler the webhook sender subscribed: an event that finds the queue
\* full is dropped.
Enqueue(e) ==
  /\ told' = IF e.type = "zone_expiring_soon" THEN told ELSE e.state
  /\ IF Len(queue) < QueueSize
       THEN queue' = Append(queue, e) /\ accepted' = accepted \cup {e}
       ELSE UNCHANGED <<queue, accepted>>
  /\ UNCHANGED buffered

\* Mutant: the handler waits for room in every client's buffer.
Fanout_Waits(e) ==
  /\ \A c \in online : buffered[c] < ClientBuffer
  /\ buffered' = [c \in Clients |-> buffered[c] + IF c \in online THEN 1 ELSE 0]
  /\ UNCHANGED <<queue, accepted, told>>

\* The handler the API subscribed: a client whose buffer is full misses it.
Fanout(e) ==
  /\ buffered' = [c \in Clients |-> buffered[c] +
       IF c \in online /\ buffered[c] < ClientBuffer THEN 1 ELSE 0]
  /\ UNCHANGED <<queue, accepted, told>>

\* Publisher p calls its next handler.
Call(p) ==
  /\ todo[p] # <<>>
  /\ LET call == Head(todo[p])
     IN  IF call.to = "webhooks" THEN Enqueue(call.event) ELSE Fanout(call.event)
  /\ todo' = [todo EXCEPT ![p] = Tail(@)]
  /\ UNCHANGED <<state, runs, workVars, online>>
-----------------------------------------------------------------------------
(* The webhook worker *)

\* Without targets deliver returns at once.
Take ==
  /\ current = {}
  /\ queue # <<>>
  /\ current' = IF Targets = {} THEN {} ELSE {Head(queue)}
  /\ queue' = Tail(queue)
  /\ target' = 1
  /\ attempt' = 0
  /\ UNCHANGED <<zoneVars, received, results, sseVars, accepted, told>>

\* Mutant: a target that cannot be reached ends the delivery of the event.
NextTarget_Returns(e) ==
  IF [event |-> e, ok |-> FALSE] \in results'[target] \/ target = NumTargets
    THEN current' = {} /\ UNCHANGED <<target, attempt>>
    ELSE target' = target + 1 /\ attempt' = 0 /\ UNCHANGED current

\* On to the next target, or out of deliver after the last.
NextTarget(e) ==
  IF target = NumTargets
    THEN current' = {} /\ UNCHANGED <<target, attempt>>
    ELSE target' = target + 1 /\ attempt' = 0 /\ UNCHANGED current

\* matchEvent is false.
Skip ==
  \E e \in current :
    /\ e.type \notin Wants[target]
    /\ UNCHANGED results
    /\ NextTarget(e)
    /\ UNCHANGED <<zoneVars, queue, received, sseVars, accepted, told>>

Count(e, ok) ==
  results' = [results EXCEPT ![target] = @ \cup {[event |-> e, ok |-> ok]}]

\* Mutant: one attempt too many.
LastAttempt_OffByOne == attempt > MaxRetries

LastAttempt == attempt >= MaxRetries

\* The POST is answered, with a status below 300, before the timeout.
Answered(arrives, answers) == arrives /\ answers

\* One POST.  The target may get it, and its answer may still be an error or
\* come too late; then the worker sleeps and tries again, or gives up.
Post(arrives, answers) ==
  \E e \in current :
    /\ e.type \in Wants[target]
    /\ received' = IF arrives
                     THEN [received EXCEPT ![target] = @ (+) SetToBag({e})]
                     ELSE received
    /\ IF Answered(arrives, answers)
         THEN Count(e, TRUE) /\ NextTarget(e)
         ELSE IF LastAttempt
           THEN Count(e, FALSE) /\ NextTarget(e)
           ELSE attempt' = attempt + 1 /\ UNCHANGED <<current, target, results>>
    /\ UNCHANGED <<zoneVars, queue, sseVars, accepted, told>>

Work == Take \/ Skip \/ \E arrives, answers \in BOOLEAN : Post(arrives, answers)
-----------------------------------------------------------------------------
(* Clients of the event stream *)

Connect(c) ==
  /\ c \notin online
  /\ online' = online \cup {c}
  /\ UNCHANGED <<zoneVars, queue, workVars, buffered, accepted, told>>

Disconnect(c) ==
  /\ c \in online
  /\ online' = online \ {c}
  /\ buffered' = [buffered EXCEPT ![c] = 0]
  /\ UNCHANGED <<zoneVars, queue, workVars, accepted, told>>

Read(c) ==
  /\ buffered[c] > 0
  /\ buffered' = [buffered EXCEPT ![c] = @ - 1]
  /\ UNCHANGED <<zoneVars, queue, workVars, online, accepted, told>>
-----------------------------------------------------------------------------
Next ==
  \/ \E v \in {"valid", "invalid", "unsigned"} : Commit(v)
  \/ \E expired, warns \in BOOLEAN : Sweep(expired, warns)
  \/ \E p \in Publishers : Call(p)
  \/ Work
  \/ \E c \in Clients : Connect(c) \/ Disconnect(c) \/ Read(c)

Spec == Init /\ [][Next]_vars

\* Goroutines run.  Targets and clients owe nothing: a POST ends by its
\* timeout whatever the target does, and a client need not read.
FairSpec ==
  Spec /\ WF_vars(Work) /\ \A p \in Publishers : WF_vars(Call(p))
-----------------------------------------------------------------------------
(* Properties *)

\* No event is forgotten: one that entered the queue is still in it, is being
\* delivered, or has one counted result (webhook_deliveries_total) at every
\* target that asks for it, even when another target is dead.
Accounted ==
  \A e \in accepted :
    \/ e \in ToSet(queue) \cup current
    \/ \A t \in Targets : e.type \in Wants[t] =>
         Cardinality({r \in results[t] : r.event = e}) = 1

\* What the counter says is true: an event counted "ok" reached the target.
\* Counted "error", it may have too, but never more often than the first
\* attempt and "Extra attempts after the first failure" allow.
ResultsTrue ==
  \A t \in Targets :
    /\ \A r \in results[t] : r.ok => BagIn(r.event, received[t])
    /\ \A e \in BagToSet(received[t]) : received[t][e] <= MaxRetries + 1

\* A target that never answers and a client that never reads hold up neither
\* the goroutines that publish nor, for ever, the queue.
NobodyBlocks ==
  /\ \A p \in Publishers : []<>(todo[p] = <<>>)
  /\ []<>(queue = <<>> /\ current = {})

\* Once everything is published, the last event handed on names the zone's
\* state, so whoever follows the events knows it.
LastEventCurrent ==
  (\A p \in Publishers : todo[p] = <<>>) => told = state
=============================================================================
