--------------------------- MODULE DeliveryProofs ---------------------------
(***************************************************************************)
(* Every event accepted for delivery is accounted for, once: proofs about   *)
(* Delivery, for any number of targets, retries, clients and publications.  *)
(***************************************************************************)
EXTENDS Delivery, FiniteSetTheorems, TLAPS

USE DEF vars, zoneVars, workVars, sseVars

Types == {"verification_completed", "zone_state_changed", "zone_valid",
          "zone_invalid", "zone_expiring_soon"}

States == {"unknown", "valid", "invalid", "unsigned"}

Event == [by : Publishers, run : Nat, type : Types, state : States]

HandlerCall == [event : Event, to : {"webhooks", "stream"}]

DTypeOK ==
  /\ state \in States
  /\ runs \in [Publishers -> Nat]
  /\ todo \in [Publishers -> Seq(HandlerCall)]
  /\ queue \in Seq(Event)
  /\ current \in SUBSET Event
  /\ target \in Nat
  /\ attempt \in Nat
  /\ accepted \in SUBSET Event
  /\ results \in [Targets -> SUBSET [event : Event, ok : BOOLEAN]]
  /\ received = [t \in Targets |-> received[t]]
  /\ \A t \in Targets : IsABag(received[t])

\* The calls publisher p still has to make hand on events of its last run, each
\* to the webhook sender once, and not before.
Unsent(p) ==
  \A i \in DOMAIN todo[p] :
    /\ todo[p][i].event.by = p
    /\ todo[p][i].event.run < runs[p]
    /\ todo[p][i].to = "webhooks" =>
         /\ todo[p][i].event \notin accepted
         /\ \A j \in DOMAIN todo[p] :
              todo[p][j] = todo[p][i] => j = i

\* An accepted event was published, and is in one place at most.
OnePlace ==
  /\ \A e \in accepted : e.run < runs[e.by]
  /\ ToSet(queue) \cup current \subseteq accepted
  /\ \A i, j \in DOMAIN queue : queue[i] = queue[j] => i = j
  /\ ToSet(queue) \cap current = {}
  /\ \A e, f \in current : e = f
  /\ current # {} => target \in Targets
  /\ attempt <= MaxRetries

\* The results counted for event e among R.
Of(R, e) == {r \in R : r.event = e}

\* The copies of event e in bag B.
Copies(e, B) == IF BagIn(e, B) THEN B[e] ELSE 0

Untouched(e, t) == Of(results[t], e) = {} /\ Copies(e, received[t]) = 0

Underway(e, t) == Of(results[t], e) = {} /\ Copies(e, received[t]) <= attempt

Settled(e, t) ==
  /\ e.type \in Wants[t] => \E r : Of(results[t], e) = {r}
  /\ Copies(e, received[t]) <= MaxRetries + 1

\* What target t has of an accepted event, by where the event is.
Standing(e, t) ==
  /\ e \in ToSet(queue) => Untouched(e, t)
  /\ e \in current => /\ t < target => Settled(e, t)
                      /\ t = target => Underway(e, t)
                      /\ t > target => Untouched(e, t)
  /\ e \notin ToSet(queue) \cup current => Settled(e, t)

\* Nothing is counted or received that was not accepted, and "ok" is true.
Honest(t) ==
  /\ BagToSet(received[t]) \subseteq accepted
  /\ \A r \in results[t] : /\ r.event \in accepted
                           /\ r.ok => BagIn(r.event, received[t])

DeliveryInv ==
  /\ DTypeOK
  /\ \A p \in Publishers : Unsent(p)
  /\ OnePlace
  /\ \A t \in Targets : Honest(t) /\ \A e \in accepted : Standing(e, t)
-----------------------------------------------------------------------------
(* Bags and queues *)

\* A copy more of one event, and no other event.
LEMMA BagAdd ==
  ASSUME NEW B, IsABag(B), NEW e
  PROVE  LET C == B (+) SetToBag({e}) IN
         /\ IsABag(C)
         /\ BagToSet(C) = BagToSet(B) \cup {e}
         /\ BagIn(e, C)
         /\ \A f : BagIn(f, B) => BagIn(f, C)
         /\ Copies(e, C) = Copies(e, B) + 1
         /\ \A f : f # e => Copies(f, C) = Copies(f, B)
<1> DEFINE S == SetToBag({e})
           C == B (+) S
<1>1. DOMAIN S = {e} /\ S[e] = 1
  BY DEF SetToBag
<1>2. \A f \in DOMAIN B : B[f] \in Nat \ {0}
  BY DEF IsABag
<1>3. C = [f \in DOMAIN B \cup DOMAIN S |->
             (IF f \in DOMAIN B THEN B[f] ELSE 0)
               + (IF f \in DOMAIN S THEN S[f] ELSE 0)]
  BY DEF (+)
<1> HIDE DEF S, C
<1>4. /\ DOMAIN C = DOMAIN B \cup {e}
      /\ C[e] = (IF e \in DOMAIN B THEN B[e] ELSE 0) + 1
      /\ \A f \in DOMAIN B : f # e => C[f] = B[f]
  BY <1>1, <1>2, <1>3
<1>5. \A f \in DOMAIN C : C[f] \in Nat \ {0}
  BY <1>2, <1>4
<1>6. IsABag(C)
  <2>1. C = [f \in DOMAIN C |-> C[f]]
    BY <1>3
  <2> QED BY <1>5, <2>1 DEF IsABag
<1>7. /\ BagToSet(C) = BagToSet(B) \cup {e}
      /\ BagIn(e, C)
      /\ \A f : BagIn(f, B) => BagIn(f, C)
  BY <1>4 DEF BagToSet, BagIn
<1>8. Copies(e, C) = Copies(e, B) + 1
  BY <1>2, <1>4 DEF Copies, BagIn, BagToSet
<1>9. \A f : f # e => Copies(f, C) = Copies(f, B)
  BY <1>4 DEF Copies, BagIn, BagToSet
<1> QED BY <1>6, <1>7, <1>8, <1>9 DEF C, S

\* Copies are counted, and there is one only of what is in the bag.
LEMMA CopiesType ==
  ASSUME NEW B, IsABag(B), NEW e
  PROVE  /\ Copies(e, B) \in Nat
         /\ e \notin BagToSet(B) => Copies(e, B) = 0
BY DEF IsABag, Copies, BagIn, BagToSet

\* An event that is not in the queue yet, put at its end.
LEMMA QueueAppend ==
  ASSUME NEW q \in Seq(Event), NEW e \in Event,
         \A i, j \in DOMAIN q : q[i] = q[j] => i = j, e \notin ToSet(q)
  PROVE  /\ Append(q, e) \in Seq(Event)
         /\ ToSet(Append(q, e)) = ToSet(q) \cup {e}
         /\ \A i, j \in DOMAIN Append(q, e) :
              Append(q, e)[i] = Append(q, e)[j] => i = j
BY DEF ToSet

\* The event at the head of the queue, taken out of it.
LEMMA QueueTake ==
  ASSUME NEW q \in Seq(Event), q # <<>>,
         \A i, j \in DOMAIN q : q[i] = q[j] => i = j
  PROVE  /\ Head(q) \in Event /\ Tail(q) \in Seq(Event)
         /\ ToSet(q) = ToSet(Tail(q)) \cup {Head(q)}
         /\ Head(q) \notin ToSet(Tail(q))
         /\ \A i, j \in DOMAIN Tail(q) : Tail(q)[i] = Tail(q)[j] => i = j
<1>1. /\ Len(q) \in Nat \ {0} /\ DOMAIN q = 1..Len(q)
      /\ Head(q) = q[1] /\ Tail(q) \in Seq(Event)
      /\ DOMAIN Tail(q) = 1..(Len(q) - 1)
      /\ \A i \in 1..(Len(q) - 1) : Tail(q)[i] = q[i + 1]
  OBVIOUS
<1>2. \A i \in DOMAIN q : i = 1 \/ (i - 1 \in DOMAIN Tail(q) /\ Tail(q)[i - 1] = q[i])
  BY <1>1
<1>3. ToSet(q) \subseteq ToSet(Tail(q)) \cup {Head(q)}
  <2> SUFFICES ASSUME NEW i \in DOMAIN q
               PROVE  q[i] \in ToSet(Tail(q)) \cup {Head(q)}
    BY DEF ToSet
  <2> QED BY <1>1, <1>2 DEF ToSet
<1>4. ToSet(Tail(q)) \cup {Head(q)} \subseteq ToSet(q)
  BY <1>1 DEF ToSet
<1>5. Head(q) \notin ToSet(Tail(q))
  <2> SUFFICES ASSUME NEW i \in DOMAIN Tail(q), Tail(q)[i] = Head(q) PROVE FALSE
    BY DEF ToSet
  <2> QED BY <1>1
<1> QED BY <1>1, <1>3, <1>4, <1>5
-----------------------------------------------------------------------------
(* Publishing *)

\* Publish hands on, in this run, each event to each handler once.
LEMMA CallsMade ==
  ASSUME NEW p \in Publishers, runs[p] \in Nat, NEW s \in States,
         NEW types \in Seq(Types),
         \A i, j \in DOMAIN types : types[i] = types[j] => i = j
  PROVE  LET c == Calls(p, types, s) IN
         /\ c \in Seq(HandlerCall)
         /\ \A i \in DOMAIN c : c[i].event.by = p /\ c[i].event.run = runs[p]
         /\ \A i, j \in DOMAIN c : c[i].to = "webhooks" /\ c[j] = c[i] => j = i
<1> DEFINE c == Calls(p, types, s)
           n == Len(types)
           event(i) == [by |-> p, run |-> runs[p], type |-> types[i], state |-> s]
<1>1. n \in Nat /\ DOMAIN types = 1..n /\ \A i \in 1..n : types[i] \in Types
  OBVIOUS
<1>2. \A j \in 1..2 * n : (j + 1) \div 2 \in 1..n /\ j % 2 \in {0, 1}
  BY <1>1
<1>3. \A i, j \in 1..2 * n :
        i % 2 = 1 /\ j % 2 = 1 /\ (i + 1) \div 2 = (j + 1) \div 2 => i = j
  BY <1>1
<1>4. /\ DOMAIN c = 1..2 * n
      /\ \A j \in 1..2 * n :
           c[j] = [event |-> event((j + 1) \div 2),
                   to |-> IF j % 2 = 1 THEN "webhooks" ELSE "stream"]
  BY DEF Calls
<1>5. c = [j \in 1..2 * n |-> c[j]]
  BY DEF Calls
<1>6. \A i \in 1..n : event(i) \in Event
  BY <1>1 DEF Event
<1>7. \A i, j \in 1..n : event(i) = event(j) => i = j
  BY <1>1
<1> HIDE DEF c, n
<1>8. \A j \in 1..2 * n : c[j] \in HandlerCall
  <2> TAKE j \in 1..2 * n
  <2>1. event((j + 1) \div 2) \in Event
    BY <1>2, <1>6
  <2> HIDE DEF event
  <2> QED BY <2>1, <1>4 DEF HandlerCall
<1>9. c \in Seq(HandlerCall)
  BY <1>1, <1>5, <1>8
<1>10. \A i \in DOMAIN c : c[i].event.by = p /\ c[i].event.run = runs[p]
  BY <1>4
<1>11. ASSUME NEW i \in DOMAIN c, NEW j \in DOMAIN c, c[i].to = "webhooks", c[j] = c[i]
       PROVE  j = i
  <2>1. i % 2 = 1 /\ j % 2 = 1
    BY <1>4, <1>11
  <2>2. event((i + 1) \div 2) = event((j + 1) \div 2)
    <3> HIDE DEF event
    <3> QED BY <1>4, <1>11
  <2>3. (i + 1) \div 2 = (j + 1) \div 2
    BY <2>2, <1>2, <1>4, <1>7
  <2> QED BY <2>1, <2>3, <1>3, <1>4
<1> QED BY <1>9, <1>10, <1>11 DEF c
\* What the invariant says of the worker and the targets is about the queue
\* and the worker only.
LEMMA Frame ==
  ASSUME DeliveryInv, UNCHANGED <<queue, workVars, accepted>>
  PROVE  \A t \in Targets : Honest(t)' /\ \A e \in accepted' : Standing(e, t)'
<1>1. \A t \in Targets : Honest(t) /\ \A e \in accepted : Standing(e, t)
  BY DEF DeliveryInv
<1> QED BY <1>1 DEF Honest, Standing, Untouched, Underway, Settled, Targets

\* A publisher with nothing left to hand on publishes: no event of an earlier
\* run is like those of this one.
LEMMA PublishStep ==
  ASSUME DeliveryInv, NEW p \in Publishers, NEW s \in States,
         NEW types \in Seq(Types),
         \A i, j \in DOMAIN types : types[i] = types[j] => i = j,
         state' = s, runs' = [runs EXCEPT ![p] = @ + 1],
         todo' = [todo EXCEPT ![p] = Calls(p, types, s)],
         UNCHANGED <<queue, workVars, accepted>>
  PROVE  DeliveryInv'
<1> DEFINE c == Calls(p, types, s)
<1>1. DTypeOK /\ OnePlace /\ \A q \in Publishers : Unsent(q)
  BY DEF DeliveryInv
<1>2. runs \in [Publishers -> Nat]
  BY <1>1 DEF DTypeOK
<1>3. /\ c \in Seq(HandlerCall)
      /\ \A i \in DOMAIN c : c[i].event.by = p /\ c[i].event.run = runs[p]
      /\ \A i, j \in DOMAIN c : c[i].to = "webhooks" /\ c[j] = c[i] => j = i
  BY <1>2, CallsMade
<1> HIDE DEF c
<1>4. /\ runs' \in [Publishers -> Nat]
      /\ runs'[p] = runs[p] + 1
      /\ \A q \in Publishers : q # p => runs'[q] = runs[q]
  BY <1>2
<1>5. /\ todo' \in [Publishers -> Seq(HandlerCall)]
      /\ todo'[p] = c
      /\ \A q \in Publishers : q # p => todo'[q] = todo[q]
  BY <1>1, <1>3 DEF DTypeOK, c
<1>6. DTypeOK'
  BY <1>1, <1>4, <1>5 DEF DTypeOK, Targets
<1>7. Unsent(p)'
  <2> SUFFICES ASSUME NEW i \in DOMAIN c
               PROVE  /\ c[i].event.by = p
                      /\ c[i].event.run < runs'[p]
                      /\ c[i].to = "webhooks" =>
                           /\ c[i].event \notin accepted
                           /\ \A j \in DOMAIN c : c[j] = c[i] => j = i
    BY <1>5 DEF Unsent
  <2>1. \A e \in accepted : e.run < runs[e.by]
    BY <1>1 DEF OnePlace
  <2> QED BY <1>2, <1>3, <1>4, <2>1
<1>8. \A q \in Publishers : q # p => Unsent(q)'
  BY <1>1, <1>4, <1>5 DEF Unsent
<1>9. OnePlace'
  <2>1. \A e \in accepted : e.by \in Publishers /\ e.run \in Nat
    BY <1>1 DEF DTypeOK, Event
  <2> QED BY <1>1, <1>2, <1>4, <2>1 DEF OnePlace, Targets
<1> QED BY <1>6, <1>7, <1>8, <1>9, Frame DEF DeliveryInv

\* Up to three types, all different.
LEMMA DistinctTypes ==
  ASSUME NEW types \in Seq(Types), Len(types) <= 3,
         Len(types) >= 2 => types[1] # types[2],
         Len(types) = 3 => types[1] # types[3] /\ types[2] # types[3]
  PROVE  \A i, j \in DOMAIN types : types[i] = types[j] => i = j
<1>1. Len(types) \in Nat /\ DOMAIN types = 1..Len(types)
  OBVIOUS
<1>2. \A i \in DOMAIN types : i \in {1, 2, 3} /\ i <= Len(types)
  BY <1>1
<1> QED BY <1>1, <1>2

LEMMA CommitStep ==
  ASSUME DeliveryInv, NEW v \in {"valid", "invalid", "unsigned"}, Commit(v)
  PROVE  DeliveryInv'
<1> DEFINE last == IF v = "invalid" THEN "zone_invalid" ELSE "zone_valid"
           types == <<"verification_completed", "zone_state_changed", last>>
<1>1. types \in Seq(Types) /\ \A i, j \in DOMAIN types : types[i] = types[j] => i = j
  <2>1. last \in {"zone_invalid", "zone_valid"}
    OBVIOUS
  <2> HIDE DEF last
  <2>2. types \in Seq(Types)
    BY <2>1 DEF Types
  <2>3. /\ Len(types) = 3 /\ types[1] = "verification_completed"
        /\ types[2] = "zone_state_changed" /\ types[3] = last
    OBVIOUS
  <2> HIDE DEF types
  <2> QED BY <2>1, <2>2, <2>3, DistinctTypes
<1>2. /\ state' = v /\ runs' = [runs EXCEPT !["refresh"] = @ + 1]
      /\ todo' = [todo EXCEPT !["refresh"] = Calls("refresh", types, v)]
      /\ UNCHANGED <<queue, workVars, accepted>>
  BY DEF Commit
<1>3. v \in States /\ "refresh" \in Publishers
  BY DEF States, Publishers
<1> HIDE DEF types
<1> QED BY <1>1, <1>2, <1>3, PublishStep

LEMMA SweepStep ==
  ASSUME DeliveryInv, NEW expired \in BOOLEAN, NEW warns \in BOOLEAN,
         Sweep(expired, warns)
  PROVE  DeliveryInv'
<1> DEFINE s == IF expired THEN "invalid" ELSE state
           invalid == IF expired THEN <<"zone_invalid", "zone_state_changed">> ELSE <<>>
           soon == IF warns THEN <<"zone_expiring_soon">> ELSE <<>>
           types == invalid \o soon
<1>1. /\ invalid \in Seq(Types) /\ Len(invalid) \in {0, 2}
      /\ Len(invalid) = 2 =>
           invalid[1] = "zone_invalid" /\ invalid[2] = "zone_state_changed"
  <2>1. CASE expired
    <3>1. invalid = <<"zone_invalid", "zone_state_changed">>
      BY <2>1
    <3> HIDE DEF invalid
    <3> QED BY <3>1 DEF Types
  <2>2. CASE ~expired
    <3>1. invalid = <<>>
      BY <2>2
    <3> HIDE DEF invalid
    <3> QED BY <3>1
  <2> QED BY <2>1, <2>2
<1>2. /\ soon \in Seq(Types) /\ Len(soon) \in {0, 1}
      /\ Len(soon) = 1 => soon[1] = "zone_expiring_soon"
  <2>1. CASE warns
    <3>1. soon = <<"zone_expiring_soon">>
      BY <2>1
    <3> HIDE DEF soon
    <3> QED BY <3>1 DEF Types
  <2>2. CASE ~warns
    <3>1. soon = <<>>
      BY <2>2
    <3> HIDE DEF soon
    <3> QED BY <3>1
  <2> QED BY <2>1, <2>2
<1>3. types \in Seq(Types) /\ \A i, j \in DOMAIN types : types[i] = types[j] => i = j
  <2> HIDE DEF invalid, soon
  <2>1. types \in Seq(Types) /\ Len(types) = Len(invalid) + Len(soon)
    BY <1>1, <1>2
  <2>2. /\ Len(types) <= 3
        /\ Len(types) >= 2 => types[1] = "zone_invalid" /\ types[2] = "zone_state_changed"
        /\ Len(types) = 3 => types[3] = "zone_expiring_soon"
    <3>1. \A i \in 1..Len(types) : types[i] = IF i <= Len(invalid) THEN invalid[i]
                                             ELSE soon[i - Len(invalid)]
      BY <1>1, <1>2
    <3> HIDE DEF types
    <3> QED BY <1>1, <1>2, <2>1, <3>1
  <2> HIDE DEF types
  <2> QED BY <2>1, <2>2, DistinctTypes
<1>4. s \in States /\ "sweep" \in Publishers
  <2>1. state \in States
    BY DEF DeliveryInv, DTypeOK
  <2> QED BY <2>1 DEF States, Publishers
<1>5. /\ state' = s /\ runs' = [runs EXCEPT !["sweep"] = @ + 1]
      /\ todo' = [todo EXCEPT !["sweep"] = Calls("sweep", types, s)]
      /\ UNCHANGED <<queue, workVars, accepted>>
  BY DEF Sweep
<1> HIDE DEF types, s
<1> QED BY <1>3, <1>4, <1>5, PublishStep

\* Publisher p has called its next handler.
LEMMA CallMade ==
  ASSUME DeliveryInv, NEW p \in Publishers, todo[p] # <<>>,
         todo' = [todo EXCEPT ![p] = Tail(@)]
  PROVE  /\ todo' \in [Publishers -> Seq(HandlerCall)]
         /\ todo[p][1] = Head(todo[p]) /\ 1 \in DOMAIN todo[p]
         /\ Head(todo[p]) \in HandlerCall
         /\ \A i \in DOMAIN todo'[p] :
              /\ i \in Nat /\ i + 1 \in DOMAIN todo[p] /\ i + 1 # 1
              /\ todo'[p][i] = todo[p][i + 1]
         /\ \A q \in Publishers : q # p => todo'[q] = todo[q]
<1>1. todo \in [Publishers -> Seq(HandlerCall)]
  BY DEF DeliveryInv, DTypeOK
<1> DEFINE s == todo[p]
<1>2. s \in Seq(HandlerCall) /\ s # <<>>
  BY <1>1
<1>3. todo'[p] = Tail(s) /\ \A q \in Publishers : q # p => todo'[q] = todo[q]
  BY <1>1
<1> HIDE DEF s
<1>4. /\ Tail(s) \in Seq(HandlerCall) /\ Head(s) \in HandlerCall
      /\ s[1] = Head(s) /\ 1 \in DOMAIN s
      /\ \A i \in DOMAIN Tail(s) : i \in Nat \ {0} /\ i + 1 \in DOMAIN s /\ Tail(s)[i] = s[i + 1]
  BY <1>2
<1>5. todo' \in [Publishers -> Seq(HandlerCall)]
  BY <1>1, <1>3, <1>4
<1>6. \A i \in DOMAIN todo'[p] :
        /\ i \in Nat /\ i + 1 \in DOMAIN s /\ i + 1 # 1
        /\ todo'[p][i] = s[i + 1]
  BY <1>3, <1>4
<1> QED BY <1>3, <1>4, <1>5, <1>6 DEF s

\* What the publisher still has to hand on was there before the call.
LEMMA CallLeaves ==
  ASSUME DeliveryInv, NEW p \in Publishers, todo[p] # <<>>,
         todo' = [todo EXCEPT ![p] = Tail(@)],
         NEW i \in DOMAIN todo'[p]
  PROVE  /\ todo'[p][i].event.by = p
         /\ todo'[p][i].event.run < runs[p]
         /\ todo'[p][i].to = "webhooks" =>
              /\ todo'[p][i].event \notin accepted
              /\ \A j \in DOMAIN todo'[p] : todo'[p][j] = todo'[p][i] => j = i
<1> DEFINE s == todo[p]
           r == todo'[p]
<1>1. \A j \in DOMAIN r : j \in Nat /\ j + 1 \in DOMAIN s /\ r[j] = s[j + 1]
  BY CallMade
<1>2. Unsent(p)
  BY DEF DeliveryInv
<1>3. \A k \in DOMAIN s :
        /\ s[k].event.by = p
        /\ s[k].event.run < runs[p]
        /\ s[k].to = "webhooks" =>
             /\ s[k].event \notin accepted
             /\ \A j \in DOMAIN s : s[j] = s[k] => j = k
  BY <1>2 DEF Unsent
<1>4. i \in DOMAIN r
  OBVIOUS
<1> HIDE DEF s, r
<1>5. /\ r[i].event.by = p
      /\ r[i].event.run < runs[p]
      /\ r[i].to = "webhooks" => r[i].event \notin accepted
  BY <1>1, <1>3, <1>4
<1>6. ASSUME r[i].to = "webhooks", NEW j \in DOMAIN r, r[j] = r[i]
      PROVE  j = i
  <2>1. /\ i \in Nat /\ j \in Nat
        /\ i + 1 \in DOMAIN s /\ j + 1 \in DOMAIN s
        /\ s[i + 1].to = "webhooks" /\ s[j + 1] = s[i + 1]
    BY <1>1, <1>4, <1>6
  <2>2. j + 1 = i + 1
    BY <1>3, <2>1
  <2> QED BY <2>1, <2>2
<1> QED BY <1>5, <1>6 DEF r

\* A call that leaves the queue as it is: the event was dropped, or went to
\* the stream.
LEMMA CallPasses ==
  ASSUME DeliveryInv, NEW p \in Publishers, todo[p] # <<>>,
         todo' = [todo EXCEPT ![p] = Tail(@)],
         UNCHANGED <<state, runs, queue, workVars, accepted>>
  PROVE  DeliveryInv'
<1>1. DTypeOK /\ OnePlace /\ \A q \in Publishers : Unsent(q)
  BY DEF DeliveryInv
<1>2. DTypeOK'
  BY <1>1, CallMade DEF DTypeOK, Targets
<1>3. OnePlace'
  BY <1>1 DEF OnePlace, Targets
<1>4. Unsent(p)'
  <2> SUFFICES ASSUME NEW i \in DOMAIN todo'[p]
               PROVE  /\ todo'[p][i].event.by = p
                      /\ todo'[p][i].event.run < runs[p]
                      /\ todo'[p][i].to = "webhooks" =>
                           /\ todo'[p][i].event \notin accepted
                           /\ \A j \in DOMAIN todo'[p] : todo'[p][j] = todo'[p][i] => j = i
    BY DEF Unsent
  <2> QED BY CallLeaves
<1>5. \A q \in Publishers : q # p => Unsent(q)'
  BY <1>1, CallMade DEF Unsent
<1> QED BY <1>2, <1>3, <1>4, <1>5, Frame DEF DeliveryInv

\* A call that puts a new event at the end of the queue.
LEMMA CallEnqueues ==
  ASSUME DeliveryInv, NEW p \in Publishers, todo[p] # <<>>,
         todo' = [todo EXCEPT ![p] = Tail(@)],
         Head(todo[p]).to = "webhooks",
         queue' = Append(queue, Head(todo[p]).event),
         accepted' = accepted \cup {Head(todo[p]).event},
         UNCHANGED <<state, runs, workVars>>
  PROVE  DeliveryInv'
<1>1. DTypeOK /\ OnePlace /\ \A q \in Publishers : Unsent(q)
  BY DEF DeliveryInv
<1> PICK e \in Event : e = Head(todo[p]).event
  BY CallMade DEF HandlerCall
<1>2. e \in Event /\ e \notin accepted /\ e.by = p /\ e.run < runs[p]
  <2>1. 1 \in DOMAIN todo[p] /\ todo[p][1].event = e /\ todo[p][1].to = "webhooks"
    BY CallMade
  <2> QED BY <1>1, <2>1 DEF Unsent
<1>3. e \notin ToSet(queue) \cup current
  BY <1>1, <1>2 DEF OnePlace
<1>4. /\ queue' \in Seq(Event)
      /\ ToSet(queue') = ToSet(queue) \cup {e}
      /\ \A i, j \in DOMAIN queue' : queue'[i] = queue'[j] => i = j
  BY <1>1, <1>2, <1>3, QueueAppend DEF DTypeOK, OnePlace
<1>5. accepted' = accepted \cup {e}
  OBVIOUS
<1>6. \A i \in DOMAIN todo'[p] :
        todo'[p][i].to = "webhooks" => todo'[p][i].event # e
  <2> SUFFICES ASSUME NEW i \in DOMAIN todo'[p],
                      todo'[p][i].to = "webhooks", todo'[p][i].event = e
               PROVE  FALSE
    OBVIOUS
  <2>1. /\ i + 1 \in DOMAIN todo[p] /\ i + 1 # 1
        /\ todo'[p][i] = todo[p][i + 1]
        /\ todo[p][1] = Head(todo[p]) /\ 1 \in DOMAIN todo[p]
    BY CallMade
  <2>2. todo[p][i + 1] \in HandlerCall /\ Head(todo[p]) \in HandlerCall
    BY <1>1, <2>1, CallMade DEF DTypeOK
  <2>3. todo[p][i + 1] = Head(todo[p])
    BY <2>1, <2>2 DEF HandlerCall
  <2>4. \A j \in DOMAIN todo[p] : todo[p][j] = todo[p][1] => j = 1
    BY <1>1, <2>1 DEF Unsent
  <2> QED BY <2>1, <2>3, <2>4
<1>7. DTypeOK'
  BY <1>1, <1>2, <1>4, <1>5, CallMade DEF DTypeOK, Targets
<1>8. OnePlace'
  <2>1. \A f \in accepted' : f.run < runs'[f.by]
    BY <1>1, <1>2, <1>5 DEF OnePlace
  <2> QED BY <1>1, <1>3, <1>4, <1>5, <2>1 DEF OnePlace, Targets
<1>9. Unsent(p)'
  <2> SUFFICES ASSUME NEW i \in DOMAIN todo'[p]
               PROVE  /\ todo'[p][i].event.by = p
                      /\ todo'[p][i].event.run < runs[p]
                      /\ todo'[p][i].to = "webhooks" =>
                           /\ todo'[p][i].event \notin accepted'
                           /\ \A j \in DOMAIN todo'[p] : todo'[p][j] = todo'[p][i] => j = i
    BY DEF Unsent
  <2>1. /\ todo'[p][i].event.by = p
        /\ todo'[p][i].event.run < runs[p]
        /\ todo'[p][i].to = "webhooks" =>
             /\ todo'[p][i].event \notin accepted
             /\ \A j \in DOMAIN todo'[p] : todo'[p][j] = todo'[p][i] => j = i
    BY CallLeaves
  <2> QED BY <1>5, <1>6, <2>1
<1>10. ASSUME NEW q \in Publishers, q # p PROVE Unsent(q)'
  <2>1. Unsent(q) /\ todo'[q] = todo[q]
    BY <1>1, <1>10, CallMade
  <2> QED BY <1>2, <1>5, <1>10, <2>1 DEF Unsent
<1>11. ASSUME NEW t \in Targets
       PROVE  Honest(t)' /\ \A f \in accepted' : Standing(f, t)'
  <2>1. Honest(t) /\ \A f \in accepted : Standing(f, t)
    BY DEF DeliveryInv
  <2>2. Honest(t)'
    BY <1>5, <2>1 DEF Honest
  <2>3. Untouched(e, t)
    <3>1. IsABag(received[t])
      BY <1>1 DEF DTypeOK
    <3> QED BY <1>2, <2>1, <3>1, CopiesType DEF Honest, Untouched, Of
  <2>4. Standing(e, t)'
    BY <1>3, <1>4, <2>3 DEF Standing, Untouched
  <2>5. ASSUME NEW f \in accepted PROVE Standing(f, t)'
    <3>1. f # e /\ Standing(f, t)
      BY <1>2, <2>1
    <3> QED BY <1>4, <3>1 DEF Standing, Untouched, Underway, Settled
  <2> QED BY <1>5, <2>2, <2>4, <2>5
<1> QED BY <1>7, <1>8, <1>9, <1>10, <1>11 DEF DeliveryInv, Targets

LEMMA CallStep ==
  ASSUME DeliveryInv, NEW p \in Publishers, Call(p)
  PROVE  DeliveryInv'
<1> DEFINE call == Head(todo[p])
<1>1. /\ todo[p] # <<>> /\ todo' = [todo EXCEPT ![p] = Tail(@)]
      /\ UNCHANGED <<state, runs, workVars>>
  BY DEF Call
<1>2. \/ UNCHANGED <<queue, accepted>>
      \/ /\ call.to = "webhooks" /\ queue' = Append(queue, call.event)
         /\ accepted' = accepted \cup {call.event}
  BY DEF Call, Enqueue, Fanout
<1> HIDE DEF call
<1>3. CASE UNCHANGED <<queue, accepted>>
  BY <1>1, <1>3, CallPasses
<1>4. CASE /\ call.to = "webhooks" /\ queue' = Append(queue, call.event)
           /\ accepted' = accepted \cup {call.event}
  BY <1>1, <1>4, CallEnqueues DEF call
<1> QED BY <1>2, <1>3, <1>4
-----------------------------------------------------------------------------
(* The webhook worker *)

LEMMA TakeStep ==
  ASSUME DeliveryInv, Take
  PROVE  DeliveryInv'
<1>1. DTypeOK /\ OnePlace /\ \A q \in Publishers : Unsent(q)
  BY DEF DeliveryInv
<1>2. /\ current = {} /\ queue # <<>>
      /\ queue' = Tail(queue) /\ target' = 1 /\ attempt' = 0
      /\ UNCHANGED <<state, runs, todo, received, results, accepted>>
  BY DEF Take
<1> PICK e \in Event : e = Head(queue)
  BY <1>1, <1>2 DEF DTypeOK
<1>3. /\ queue' \in Seq(Event)
      /\ ToSet(queue) = ToSet(queue') \cup {e} /\ e \notin ToSet(queue')
      /\ \A i, j \in DOMAIN queue' : queue'[i] = queue'[j] => i = j
  BY <1>1, <1>2, QueueTake DEF DTypeOK, OnePlace
<1>4. current' = IF Targets = {} THEN {} ELSE {e}
  BY DEF Take
<1>5. NumTargets \in Nat /\ MaxRetries \in Nat
  BY DeliveryAssumption
<1>6. e \in accepted
  BY <1>1, <1>3 DEF OnePlace
<1>7. DTypeOK'
  BY <1>1, <1>2, <1>3, <1>4 DEF DTypeOK, Targets
<1>8. OnePlace'
  <2>1. current' # {} => target' \in Targets
    BY <1>2, <1>4, <1>5 DEF Targets
  <2>2. attempt' <= MaxRetries
    BY <1>2, <1>5
  <2> QED BY <1>1, <1>2, <1>3, <1>4, <1>6, <2>1, <2>2 DEF OnePlace, Targets
<1>9. \A q \in Publishers : Unsent(q)'
  BY <1>1, <1>2 DEF Unsent
<1>10. ASSUME NEW t \in Targets
       PROVE  Honest(t)' /\ \A f \in accepted' : Standing(f, t)'
  <2>1. Honest(t) /\ \A f \in accepted : Standing(f, t)
    BY DEF DeliveryInv
  <2>2. Honest(t)'
    BY <1>2, <2>1 DEF Honest
  <2>3. current' = {e} /\ t \in Nat /\ ~(t < 1)
    BY <1>4, <1>5 DEF Targets
  <2>4. Standing(e, t)'
    <3>1. Untouched(e, t)
      BY <1>3, <1>6, <2>1 DEF Standing
    <3>2. Untouched(e, t)' /\ Underway(e, t)'
      BY <1>2, <3>1 DEF Untouched, Underway
    <3> QED BY <1>2, <1>3, <2>3, <3>2 DEF Standing
  <2>5. ASSUME NEW f \in accepted, f # e PROVE Standing(f, t)'
    <3>1. Standing(f, t)
      BY <2>1
    <3>2. (f \in ToSet(queue') <=> f \in ToSet(queue)) /\ f \notin current /\ f \notin current'
      BY <1>2, <1>3, <2>3, <2>5
    <3>3. /\ Untouched(f, t) => Untouched(f, t)'
          /\ Settled(f, t) => Settled(f, t)'
      BY <1>2 DEF Untouched, Settled
    <3> QED BY <3>1, <3>2, <3>3 DEF Standing
  <2> QED BY <1>2, <2>2, <2>4, <2>5
<1> QED BY <1>7, <1>8, <1>9, <1>10 DEF DeliveryInv, Targets

\* One attempt at one target changes what that target has of that event, and
\* nothing else.
Attempted(e) ==
  /\ \A t \in Targets : t # target =>
       results'[t] = results[t] /\ received'[t] = received[t]
  /\ \A f : f # e => /\ Of(results'[target], f) = Of(results[target], f)
                     /\ Copies(f, received'[target]) = Copies(f, received[target])

\* It leaves the standing of every other event.
LEMMA OthersStand ==
  ASSUME DeliveryInv, NEW e \in current, Attempted(e), target \in Targets,
         UNCHANGED <<queue, accepted>>, current' \subseteq current,
         NEW t \in Targets, NEW f \in accepted, f # e
  PROVE  Standing(f, t)'
<1>1. OnePlace /\ Standing(f, t)
  BY DEF DeliveryInv
<1>2. f \notin current /\ f \notin current'
  BY <1>1 DEF OnePlace
<1>3. /\ Of(results'[t], f) = Of(results[t], f)
      /\ Copies(f, received'[t]) = Copies(f, received[t])
  <2>1. CASE t = target
    BY <2>1 DEF Attempted
  <2>2. CASE t # target
    BY <2>2 DEF Attempted
  <2> QED BY <2>1, <2>2
<1>4. /\ Untouched(f, t) => Untouched(f, t)'
      /\ Settled(f, t) => Settled(f, t)'
  BY <1>3 DEF Untouched, Settled
<1> QED BY <1>1, <1>2, <1>4 DEF Standing

\* The worker is done with an event at one target and goes on.
LEMMA MoveOn ==
  ASSUME DeliveryInv, NEW e \in current, Attempted(e), NextTarget(e),
         UNCHANGED <<zoneVars, queue, accepted>>,
         results' \in [Targets -> SUBSET [event : Event, ok : BOOLEAN]],
         received' = [t \in Targets |-> received'[t]],
         \A t \in Targets : IsABag(received'[t]) /\ Honest(t)',
         e.type \in Wants[target] => \E r : Of(results'[target], e) = {r},
         Copies(e, received'[target]) <= MaxRetries + 1
  PROVE  DeliveryInv'
<1>1. DTypeOK /\ OnePlace /\ \A q \in Publishers : Unsent(q)
  BY DEF DeliveryInv
<1>2. /\ NumTargets \in Nat /\ MaxRetries \in Nat
      /\ target \in Targets /\ target \in Nat /\ attempt \in Nat
  BY <1>1, DeliveryAssumption DEF OnePlace, Targets, DTypeOK
<1>3. \/ target = NumTargets /\ current' = {} /\ target' = target /\ attempt' = attempt
      \/ target # NumTargets /\ current' = current /\ target' = target + 1 /\ attempt' = 0
  BY DEF NextTarget
<1>4. current' \subseteq current /\ target' \in Nat /\ attempt' \in Nat
  BY <1>2, <1>3
<1>5. DTypeOK'
  BY <1>1, <1>4 DEF DTypeOK, Targets
<1>6. OnePlace'
  <2>1. current' # {} => target' \in Targets
    BY <1>2, <1>3 DEF Targets
  <2>2. attempt' <= MaxRetries
    BY <1>1, <1>2, <1>3 DEF OnePlace
  <2>3. \A f, g \in current' : f = g
    BY <1>1, <1>4 DEF OnePlace
  <2>4. ToSet(queue') \cup current' \subseteq accepted' /\ ToSet(queue') \cap current' = {}
    BY <1>1, <1>4 DEF OnePlace
  <2> QED BY <1>1, <2>1, <2>2, <2>3, <2>4 DEF OnePlace, Targets
<1>7. \A q \in Publishers : Unsent(q)'
  BY <1>1 DEF Unsent
<1>8. ASSUME NEW t \in Targets PROVE Standing(e, t)'
  <2>1. e \in accepted /\ e \notin ToSet(queue) /\ Standing(e, t)
    BY <1>1 DEF OnePlace, DeliveryInv
  <2>2. t \in Nat /\ t <= NumTargets
    BY <1>2 DEF Targets
  <2>3. t = target => Settled(e, t)'
    BY DEF Settled
  <2>4. t # target => results'[t] = results[t] /\ received'[t] = received[t]
    BY DEF Attempted
  <2>5. t < target => Settled(e, t)'
    BY <1>2, <2>1, <2>2, <2>4 DEF Standing, Settled
  <2>6. t > target => Untouched(e, t)'
    BY <1>2, <2>1, <2>2, <2>4 DEF Standing, Untouched
  <2>7. CASE target = NumTargets
    BY <1>2, <1>3, <2>1, <2>2, <2>3, <2>5, <2>7 DEF Standing
  <2>8. CASE target # NumTargets
    <3>1. current' = current /\ target' = target + 1 /\ attempt' = 0
      BY <1>3, <2>8
    <3>2. t = target + 1 => Underway(e, t)'
      BY <1>2, <2>6, <3>1 DEF Untouched, Underway
    <3>3. t < target + 1 => Settled(e, t)'
      BY <1>2, <2>2, <2>3, <2>5
    <3>4. t > target + 1 => Untouched(e, t)'
      BY <1>2, <2>2, <2>6
    <3> QED BY <2>1, <3>1, <3>2, <3>3, <3>4 DEF Standing
  <2> QED BY <2>7, <2>8
<1>9. ASSUME NEW t \in Targets, NEW f \in accepted PROVE Standing(f, t)'
  <2>1. CASE f = e
    BY <1>8, <2>1
  <2>2. CASE f # e
    BY <1>2, <1>4, <2>2, OthersStand
  <2> QED BY <2>1, <2>2
<1> QED BY <1>5, <1>6, <1>7, <1>9 DEF DeliveryInv, Targets
LEMMA SkipStep ==
  ASSUME DeliveryInv, Skip
  PROVE  DeliveryInv'
<1> PICK e \in current : /\ e.type \notin Wants[target] /\ NextTarget(e)
                         /\ UNCHANGED <<zoneVars, queue, accepted, results, received>>
  BY DEF Skip
<1>1. DTypeOK /\ OnePlace /\ \A t \in Targets : Honest(t)
  BY DEF DeliveryInv
<1>2. target \in Targets /\ attempt \in Nat /\ attempt <= MaxRetries /\ MaxRetries \in Nat
  BY <1>1, DeliveryAssumption DEF OnePlace, DTypeOK
<1>3. e \in accepted /\ Standing(e, target)
  BY <1>1, <1>2 DEF OnePlace, DeliveryInv
<1>4. Copies(e, received'[target]) <= MaxRetries + 1
  <2>1. target \in Nat /\ Copies(e, received[target]) \in Nat
    BY <1>1, <1>2, CopiesType DEF DTypeOK
  <2> QED BY <1>2, <1>3, <2>1 DEF Standing, Underway
<1>5. Attempted(e)
  BY DEF Attempted
<1>6. \A t \in Targets : IsABag(received'[t]) /\ Honest(t)'
  BY <1>1 DEF DTypeOK, Honest
<1>7. /\ results' \in [Targets -> SUBSET [event : Event, ok : BOOLEAN]]
      /\ received' = [t \in Targets |-> received'[t]]
  BY <1>1 DEF DTypeOK
<1> QED BY <1>4, <1>5, <1>6, <1>7, MoveOn

\* What one POST adds to what the targets received.
LEMMA Arrival ==
  ASSUME DeliveryInv, NEW e \in current, NEW arrives \in BOOLEAN,
         received' = IF arrives
                       THEN [received EXCEPT ![target] = @ (+) SetToBag({e})]
                       ELSE received
  PROVE  /\ received' = [t \in Targets |-> received'[t]]
         /\ \A t \in Targets : /\ IsABag(received'[t])
                               /\ t # target => received'[t] = received[t]
                               /\ BagToSet(received'[t]) \subseteq accepted
                               /\ \A f : BagIn(f, received[t]) => BagIn(f, received'[t])
         /\ \A f : f # e => Copies(f, received'[target]) = Copies(f, received[target])
         /\ Copies(e, received'[target]) <= attempt + 1
         /\ arrives => BagIn(e, received'[target])
<1>1. DTypeOK /\ OnePlace /\ \A t \in Targets : Honest(t)
  BY DEF DeliveryInv
<1>2. target \in Targets /\ target \in Nat /\ attempt \in Nat /\ e \in accepted
  BY <1>1 DEF OnePlace, DTypeOK
<1>3. /\ received = [t \in Targets |-> received[t]]
      /\ \A t \in Targets : IsABag(received[t]) /\ BagToSet(received[t]) \subseteq accepted
  BY <1>1 DEF DTypeOK, Honest
<1>4. Copies(e, received[target]) \in Nat /\ Copies(e, received[target]) <= attempt
  <2>1. Standing(e, target)
    BY <1>2 DEF DeliveryInv
  <2> QED BY <1>2, <1>3, <2>1, CopiesType DEF Standing, Underway
<1>5. CASE arrives
  <2> DEFINE B == received[target]
             C == B (+) SetToBag({e})
  <2>1. /\ IsABag(C) /\ BagToSet(C) = BagToSet(B) \cup {e} /\ BagIn(e, C)
        /\ \A f : BagIn(f, B) => BagIn(f, C)
        /\ Copies(e, C) = Copies(e, B) + 1
        /\ \A f : f # e => Copies(f, C) = Copies(f, B)
    BY <1>2, <1>3, BagAdd
  <2>2. received' = [received EXCEPT ![target] = C]
    BY <1>5
  <2> HIDE DEF C
  <2>3. /\ received' = [t \in Targets |-> received'[t]] /\ received'[target] = C
        /\ \A t \in Targets : t # target => received'[t] = received[t]
    BY <1>2, <1>3, <2>2
  <2>4. ASSUME NEW t \in Targets
        PROVE  /\ IsABag(received'[t])
               /\ BagToSet(received'[t]) \subseteq accepted
               /\ \A f : BagIn(f, received[t]) => BagIn(f, received'[t])
    <3>1. CASE t = target
      BY <1>2, <1>3, <2>1, <2>3, <3>1
    <3>2. CASE t # target
      BY <1>3, <2>3, <3>2
    <3> QED BY <3>1, <3>2
  <2>5. Copies(e, received'[target]) <= attempt + 1
    BY <1>2, <1>4, <2>1, <2>3
  <2> QED BY <2>1, <2>3, <2>4, <2>5
<1>6. CASE ~arrives
  BY <1>2, <1>3, <1>4, <1>6
<1> QED BY <1>5, <1>6

\* A result counted for the event at the target the worker has come to.
LEMMA Counting ==
  ASSUME DeliveryInv, NEW e \in current, NEW ok \in BOOLEAN, Count(e, ok)
  PROVE  /\ results' \in [Targets -> SUBSET [event : Event, ok : BOOLEAN]]
         /\ results'[target] = results[target] \cup {[event |-> e, ok |-> ok]}
         /\ \A t \in Targets : t # target => results'[t] = results[t]
         /\ \A f : f # e => Of(results'[target], f) = Of(results[target], f)
         /\ Of(results'[target], e) = {[event |-> e, ok |-> ok]}
<1> DEFINE r == [event |-> e, ok |-> ok]
<1>1. DTypeOK /\ OnePlace
  BY DEF DeliveryInv
<1>2. target \in Targets /\ target \in Nat /\ e \in accepted /\ e \in Event
  BY <1>1 DEF OnePlace, DTypeOK
<1>3. results \in [Targets -> SUBSET [event : Event, ok : BOOLEAN]]
  BY <1>1 DEF DTypeOK
<1>4. r \in [event : Event, ok : BOOLEAN]
  BY <1>2, Zenon
<1>5. r.event = e
  OBVIOUS
<1>6. results' = [results EXCEPT ![target] = @ \cup {r}]
  BY DEF Count
<1> HIDE DEF r
<1>7. /\ results' \in [Targets -> SUBSET [event : Event, ok : BOOLEAN]]
      /\ results'[target] = results[target] \cup {r}
      /\ \A t \in Targets : t # target => results'[t] = results[t]
  BY <1>2, <1>3, <1>4, <1>6
<1>8. Of(results[target], e) = {}
  <2>1. Standing(e, target)
    BY <1>2 DEF DeliveryInv
  <2> QED BY <1>2, <2>1 DEF Standing, Underway
<1>9. \A f : f # e => Of(results'[target], f) = Of(results[target], f)
  BY <1>5, <1>7 DEF Of
<1>10. Of(results'[target], e) = {r}
  BY <1>5, <1>7, <1>8 DEF Of
<1> QED BY <1>7, <1>9, <1>10 DEF r

\* A POST after which the worker goes on to the next target.
LEMMA PostCounted ==
  ASSUME DeliveryInv, NEW e \in current, NEW arrives \in BOOLEAN,
         received' = IF arrives
                       THEN [received EXCEPT ![target] = @ (+) SetToBag({e})]
                       ELSE received,
         NEW ok \in BOOLEAN, ok => arrives, Count(e, ok), NextTarget(e),
         UNCHANGED <<zoneVars, queue, accepted>>
  PROVE  DeliveryInv'
<1>1. DTypeOK /\ OnePlace /\ \A t \in Targets : Honest(t)
  BY DEF DeliveryInv
<1>2. /\ target \in Targets /\ attempt \in Nat /\ attempt <= MaxRetries
      /\ MaxRetries \in Nat /\ e \in accepted
  BY <1>1, DeliveryAssumption DEF OnePlace, DTypeOK
<1>3. Attempted(e)
  BY Arrival, Counting DEF Attempted
<1>4. Copies(e, received'[target]) <= MaxRetries + 1
  <2>1. IsABag(received'[target])
    BY <1>2, Arrival
  <2>2. Copies(e, received'[target]) \in Nat
    BY <2>1, CopiesType
  <2>3. Copies(e, received'[target]) <= attempt + 1
    BY Arrival
  <2> QED BY <1>2, <2>2, <2>3
<1>5. \E r : Of(results'[target], e) = {r}
  BY Counting
<1>6. ASSUME NEW t \in Targets PROVE Honest(t)'
  <2>1. BagToSet(received'[t]) \subseteq accepted'
    BY Arrival
  <2>2. ASSUME NEW r \in results'[t]
        PROVE  r.event \in accepted' /\ (r.ok => BagIn(r.event, received'[t]))
    <3>1. CASE r \in results[t]
      BY <1>1, <3>1, Arrival DEF Honest
    <3>2. CASE r \notin results[t]
      <4>1. t = target /\ r = [event |-> e, ok |-> ok]
        BY <3>2, Counting
      <4>2. r.event = e /\ r.ok = ok
        BY <4>1, Zenon
      <4>3. ok => BagIn(e, received'[target])
        BY Arrival
      <4> QED BY <1>2, <4>1, <4>2, <4>3
    <3> QED BY <3>1, <3>2
  <2> QED BY <2>1, <2>2 DEF Honest
<1> QED BY <1>3, <1>4, <1>5, <1>6, Arrival, Counting, MoveOn

\* A POST the worker will repeat.
LEMMA PostRepeated ==
  ASSUME DeliveryInv, NEW e \in current, NEW arrives \in BOOLEAN,
         received' = IF arrives
                       THEN [received EXCEPT ![target] = @ (+) SetToBag({e})]
                       ELSE received,
         ~LastAttempt, attempt' = attempt + 1,
         UNCHANGED <<zoneVars, queue, accepted, current, target, results>>
  PROVE  DeliveryInv'
<1>1. DTypeOK /\ OnePlace /\ (\A t \in Targets : Honest(t)) /\ \A q \in Publishers : Unsent(q)
  BY DEF DeliveryInv
<1>2. /\ target \in Targets /\ target \in Nat /\ attempt \in Nat
      /\ attempt' \in Nat /\ attempt' <= MaxRetries /\ e \in accepted
  BY <1>1, DeliveryAssumption DEF OnePlace, DTypeOK, LastAttempt
<1>3. Attempted(e)
  BY Arrival DEF Attempted
<1>4. DTypeOK'
  BY <1>1, <1>2, Arrival DEF DTypeOK, Targets
<1>5. OnePlace'
  BY <1>1, <1>2 DEF OnePlace, Targets
<1>6. \A q \in Publishers : Unsent(q)'
  BY <1>1 DEF Unsent
<1>7. ASSUME NEW t \in Targets PROVE Honest(t)'
  BY <1>1, Arrival DEF Honest
<1>8. ASSUME NEW t \in Targets PROVE Standing(e, t)'
  <2>1. e \notin ToSet(queue) /\ Standing(e, t) /\ t \in Nat
    BY <1>1, <1>2 DEF OnePlace, DeliveryInv, Targets
  <2>2. CASE t = target
    <3>1. Underway(e, t)'
      BY <1>2, <2>1, <2>2, Arrival DEF Standing, Underway
    <3> QED BY <1>2, <2>1, <2>2, <3>1 DEF Standing
  <2>3. CASE t # target
    <3>1. received'[t] = received[t]
      BY <2>3, Arrival
    <3>2. /\ Untouched(e, t) => Untouched(e, t)'
          /\ Settled(e, t) => Settled(e, t)'
      BY <3>1 DEF Untouched, Settled
    <3> QED BY <2>1, <2>3, <3>2 DEF Standing
  <2> QED BY <2>2, <2>3
<1>9. ASSUME NEW t \in Targets, NEW f \in accepted PROVE Standing(f, t)'
  <2>1. CASE f = e
    BY <1>8, <2>1
  <2>2. CASE f # e
    BY <1>2, <1>3, <2>2, OthersStand
  <2> QED BY <2>1, <2>2
<1> QED BY <1>4, <1>5, <1>6, <1>7, <1>9 DEF DeliveryInv, Targets

LEMMA PostStep ==
  ASSUME DeliveryInv, NEW arrives \in BOOLEAN, NEW answers \in BOOLEAN,
         Post(arrives, answers)
  PROVE  DeliveryInv'
<1> PICK e \in current :
      /\ received' = IF arrives
                       THEN [received EXCEPT ![target] = @ (+) SetToBag({e})]
                       ELSE received
      /\ IF Answered(arrives, answers)
           THEN Count(e, TRUE) /\ NextTarget(e)
           ELSE IF LastAttempt
             THEN Count(e, FALSE) /\ NextTarget(e)
             ELSE attempt' = attempt + 1 /\ UNCHANGED <<current, target, results>>
      /\ UNCHANGED <<zoneVars, queue, accepted>>
  BY DEF Post
<1>1. CASE Answered(arrives, answers)
  <2>1. arrives /\ Count(e, TRUE) /\ NextTarget(e)
    BY <1>1 DEF Answered
  <2> QED BY <2>1, PostCounted
<1>2. CASE ~Answered(arrives, answers) /\ LastAttempt
  <2>1. Count(e, FALSE) /\ NextTarget(e)
    BY <1>2
  <2> QED BY <2>1, PostCounted
<1>3. CASE ~Answered(arrives, answers) /\ ~LastAttempt
  BY <1>3, PostRepeated
<1> QED BY <1>1, <1>2, <1>3
-----------------------------------------------------------------------------
LEMMA InitHolds == Init => DeliveryInv
<1> SUFFICES ASSUME Init PROVE DeliveryInv
  OBVIOUS
<1>1. /\ state = "unknown" /\ runs = [p \in Publishers |-> 0]
      /\ todo = [p \in Publishers |-> <<>>] /\ queue = <<>> /\ current = {}
      /\ target = 1 /\ attempt = 0 /\ accepted = {}
      /\ received = [t \in Targets |-> EmptyBag] /\ results = [t \in Targets |-> {}]
  BY DEF Init
<1>2. IsABag(EmptyBag) /\ BagToSet(EmptyBag) = {}
  BY DEF EmptyBag, SetToBag, IsABag, BagToSet
<1>3. DTypeOK
  BY <1>1, <1>2 DEF DTypeOK, States
<1>4. \A p \in Publishers : Unsent(p)
  BY <1>1 DEF Unsent
<1>5. OnePlace
  <2>1. ToSet(queue) = {}
    BY <1>1 DEF ToSet
  <2> QED BY <1>1, <2>1, DeliveryAssumption DEF OnePlace
<1>6. \A t \in Targets : Honest(t)
  BY <1>1, <1>2 DEF Honest
<1> QED BY <1>1, <1>3, <1>4, <1>5, <1>6 DEF DeliveryInv

\* The invariant holds however publishers, worker, targets and clients
\* interleave, with any number of targets, retries and clients and any size of
\* the queue.
THEOREM DeliveryInvariance == Spec => []DeliveryInv
<1>1. DeliveryInv /\ [Next]_vars => DeliveryInv'
  <2> SUFFICES ASSUME DeliveryInv, [Next]_vars PROVE DeliveryInv'
    OBVIOUS
  <2>1. CASE \E v \in {"valid", "invalid", "unsigned"} : Commit(v)
    BY <2>1, CommitStep
  <2>2. CASE \E expired, warns \in BOOLEAN : Sweep(expired, warns)
    BY <2>2, SweepStep
  <2>3. CASE \E p \in Publishers : Call(p)
    BY <2>3, CallStep
  <2>4. CASE Work
    BY <2>4, TakeStep, SkipStep, PostStep DEF Work
  <2>5. CASE UNCHANGED <<zoneVars, queue, workVars, accepted>>
    <3>1. DTypeOK /\ OnePlace /\ \A p \in Publishers : Unsent(p)
      BY DEF DeliveryInv
    <3>2. DTypeOK'
      BY <2>5, <3>1 DEF DTypeOK, Targets
    <3>3. OnePlace' /\ \A p \in Publishers : Unsent(p)'
      BY <2>5, <3>1 DEF OnePlace, Unsent, Targets
    <3> QED BY <2>5, <3>2, <3>3, Frame DEF DeliveryInv
  <2>6. CASE \E c \in Clients : Connect(c) \/ Disconnect(c) \/ Read(c)
    BY <2>5, <2>6 DEF Connect, Disconnect, Read
  <2>7. CASE UNCHANGED vars
    BY <2>5, <2>7
  <2> QED BY <2>1, <2>2, <2>3, <2>4, <2>6, <2>7 DEF Next
<1> QED BY <1>1, InitHolds, PTL DEF Spec

\* No event that entered the webhook sender's queue is forgotten, nor counted
\* twice at a target.
THEOREM EventsAccounted == Spec => []Accounted
<1>1. DeliveryInv => Accounted
  <2> SUFFICES ASSUME DeliveryInv, NEW e \in accepted,
                      e \notin ToSet(queue) \cup current,
                      NEW t \in Targets, e.type \in Wants[t]
               PROVE  Cardinality({r \in results[t] : r.event = e}) = 1
    BY DEF Accounted
  <2>1. Settled(e, t)
    BY DEF DeliveryInv, Standing
  <2>2. PICK r : Of(results[t], e) = {r}
    BY <2>1 DEF Settled
  <2>3. {q \in results[t] : q.event = e} = {r}
    BY <2>2 DEF Of
  <2> QED BY <2>3, FS_Singleton
<1> QED BY <1>1, DeliveryInvariance, PTL

\* An event counted "ok" reached its target, and no target gets an event more
\* often than the attempts configured.
THEOREM CounterHonest == Spec => []ResultsTrue
<1>1. DeliveryInv => ResultsTrue
  <2> SUFFICES ASSUME DeliveryInv, NEW t \in Targets
               PROVE  /\ \A r \in results[t] : r.ok => BagIn(r.event, received[t])
                      /\ \A e \in BagToSet(received[t]) : received[t][e] <= MaxRetries + 1
    BY DEF ResultsTrue
  <2>1. DTypeOK /\ OnePlace /\ Honest(t) /\ \A e \in accepted : Standing(e, t)
    BY DEF DeliveryInv
  <2>2. ASSUME NEW e \in BagToSet(received[t])
        PROVE  received[t][e] <= MaxRetries + 1
    <3>1. e \in accepted /\ Copies(e, received[t]) = received[t][e]
      BY <2>1, <2>2 DEF Honest, Copies, BagIn
    <3>2. /\ Copies(e, received[t]) \in Nat /\ MaxRetries \in Nat
          /\ attempt \in Nat /\ attempt <= MaxRetries
      BY <2>1, CopiesType, DeliveryAssumption DEF DTypeOK, OnePlace
    <3>3. t \in Nat /\ target \in Nat
      BY <2>1, DeliveryAssumption DEF DTypeOK, Targets
    <3>4. Untouched(e, t) \/ Underway(e, t) \/ Settled(e, t)
      BY <2>1, <3>1, <3>3 DEF Standing
    <3> QED BY <3>1, <3>2, <3>4 DEF Untouched, Underway, Settled
  <2> QED BY <2>1, <2>2 DEF Honest
<1> QED BY <1>1, DeliveryInvariance, PTL
=============================================================================
