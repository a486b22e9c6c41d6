------------------------- MODULE ZoneTransferProofs -------------------------
(***************************************************************************)
(* The store, its indexes and its snapshots are those of one published      *)
(* version: proofs about ZoneTransfer, for zones of any size.               *)
(*                                                                          *)
(* What a fold over the records of an answer computes is proved by least    *)
(* counterexample: the least prefix for which it fails does not exist.      *)
(***************************************************************************)
EXTENDS ZoneTransfer, FiniteSetTheorems, TLAPS

-----------------------------------------------------------------------------
(* Numbers *)

LEMMA LeastNat ==
  ASSUME NEW T \in SUBSET Nat, T # {}
  PROVE  \E n \in T : \A m \in T : n <= m
<1> DEFINE R == OpToRel(<, Nat)
<1>1. IsWellFoundedOn(R, Nat)
  BY NatLessThanWellFounded
<1>2. \A m, n \in Nat : m < n => <<m, n>> \in R
  BY Zenon DEF OpToRel
<1> HIDE DEF R
<1>3. PICK n \in T : \A m \in T : ~(<<m, n>> \in R)
  BY <1>1, WFMin
<1>4. \A m \in T : ~(m < n)
  BY <1>2, <1>3, Zenon
<1>5. \A m \in T : n <= m
  BY <1>4
<1> QED BY <1>5

LEMMA MaxOfNats ==
  ASSUME NEW b \in Nat, NEW T \in SUBSET 1..b, T # {}
  PROVE  Max(T) \in T /\ \A m \in T : Max(T) >= m
<1> DEFINE U == {b - m : m \in T}
<1>1. U \in SUBSET Nat /\ U # {}
  <2>1. \A m \in T : b - m \in Nat
    OBVIOUS
  <2>2. PICK m : m \in T
    OBVIOUS
  <2> QED BY <2>1, <2>2
<1>2. PICK u \in U : \A v \in U : u <= v
  BY <1>1, LeastNat
<1>3. PICK n \in T : u = b - n
  BY <1>2
<1>4. \A m \in T : b - m \in U
  OBVIOUS
<1> HIDE DEF U
<1>5. \A m \in T : n >= m
  BY <1>2, <1>3, <1>4
<1>6. \E k \in T : \A m \in T : k >= m
  BY <1>5
<1> QED BY <1>6, Zenon DEF Max
-----------------------------------------------------------------------------
(* Folds *)

\* g is what FoldLeft computes with the function F, for the positions of s in
\* every subset of 1..n.
IsFold(g, F, b, s, n) ==
  g = [t \in SUBSET (1..n) |->
         IF t = {} THEN b ELSE F[<<g[t \ {Max(t)}], s[Max(t)]>>]]

LEMMA FoldExists ==
  ASSUME NEW S, NEW E, NEW F \in [S \X E -> S], NEW b \in S, NEW s \in Seq(E)
  PROVE  \A n \in 0..Len(s) : \E g \in [SUBSET (1..n) -> S] : IsFold(g, F, b, s, n)
<1> DEFINE T == {n \in 0..Len(s) : ~\E g \in [SUBSET (1..n) -> S] : IsFold(g, F, b, s, n)}
<1> SUFFICES ASSUME T # {} PROVE FALSE
  OBVIOUS
<1>0. Len(s) \in Nat /\ T \in SUBSET (0..Len(s))
  OBVIOUS
<1>1. PICK n \in T : \A m \in T : n <= m
  <2>1. T \in SUBSET Nat
    BY <1>0
  <2> HIDE DEF T
  <2> QED BY <2>1, LeastNat
<1>2. n # 0
  <2> DEFINE g == [t \in SUBSET (1..0) |-> b]
  <2>1. \A t \in SUBSET (1..0) : t = {}
    OBVIOUS
  <2>2. g \in [SUBSET (1..0) -> S] /\ IsFold(g, F, b, s, 0)
    BY <2>1 DEF IsFold
  <2> QED BY <1>1, <2>2
<1>3. n \in Nat /\ n - 1 \in 0..Len(s) /\ n - 1 \notin T /\ n \in DOMAIN s
  <2>1. n \in 1..Len(s) /\ n - 1 \in 0..Len(s) /\ ~(n <= n - 1)
    BY <1>0, <1>2
  <2> HIDE DEF T
  <2> QED BY <1>0, <1>1, <2>1
<1> DEFINE m == n - 1
<1>4. PICK f \in [SUBSET (1..m) -> S] : IsFold(f, F, b, s, m)
  BY <1>3
<1> DEFINE g == [t \in SUBSET (1..n) |->
                   IF n \in t THEN F[<<f[t \ {n}], s[n]>>] ELSE f[t]]
<1>5. \A t \in SUBSET (1..n) : /\ t \ {n} \in SUBSET (1..m)
                               /\ n \notin t => t \in SUBSET (1..m)
  BY <1>3
<1>6. s[n] \in E
  BY <1>3
<1>7. g \in [SUBSET (1..n) -> S]
  BY <1>5, <1>6
<1>8. ASSUME NEW t \in SUBSET (1..n)
      PROVE  g[t] = IF t = {} THEN b ELSE F[<<g[t \ {Max(t)}], s[Max(t)]>>]
  <2>1. CASE n \in t
    <3>1. Max(t) = n
      <4>1. Max(t) \in 1..n /\ Max(t) >= n
        BY <1>3, <2>1, MaxOfNats
      <4> HIDE DEF T
      <4> QED BY <1>3, <4>1
    <3>2. n \notin t \ {n} /\ t \ {n} \in SUBSET (1..n)
      OBVIOUS
    <3>3. g[t \ {n}] = f[t \ {n}]
      BY <3>2
    <3> QED BY <2>1, <3>1, <3>3
  <2>2. CASE n \notin t
    <3>1. t \in SUBSET (1..m) /\ g[t] = f[t]
      BY <1>5, <2>2
    <3>2. CASE t = {}
      BY <1>4, <3>1, <3>2 DEF IsFold
    <3>3. CASE t # {}
      <4>1. t \ {Max(t)} \in SUBSET (1..n) /\ n \notin t \ {Max(t)}
        BY <2>2
      <4>2. g[t \ {Max(t)}] = f[t \ {Max(t)}]
        BY <4>1
      <4>3. f[t] = F[<<f[t \ {Max(t)}], s[Max(t)]>>]
        BY <1>4, <3>1, <3>3 DEF IsFold
      <4> QED BY <3>1, <3>3, <4>2, <4>3
    <3> QED BY <3>2, <3>3
  <2> QED BY <2>1, <2>2
<1>9. IsFold(g, F, b, s, n)
  <2>1. g = [t \in SUBSET (1..n) |-> g[t]]
    OBVIOUS
  <2> HIDE DEF g
  <2> QED BY <1>8, <2>1 DEF IsFold
<1> QED BY <1>1, <1>7, <1>9

\* The last position of a prefix, and the prefix without it.
LEMMA PrefixLast ==
  ASSUME NEW i \in Nat, i # 0
  PROVE  Max(1..i) = i /\ (1..i) \ {i} = 1..(i - 1) /\ 1..i # {}
<1>1. i \in 1..i
  OBVIOUS
<1>2. Max(1..i) \in 1..i /\ Max(1..i) >= i
  BY <1>1, MaxOfNats
<1>3. Max(1..i) = i
  BY <1>2
<1>4. (1..i) \ {i} = 1..(i - 1)
  OBVIOUS
<1> QED BY <1>1, <1>3, <1>4
-----------------------------------------------------------------------------
(* Adding and removing records *)

Recs == (UNION Bodies) \cup {SOA(n) : n \in Nat}

Links == {[key |-> nsec3Key(r), next |-> r.data] : r \in Recs}
Times == {expiryKey(r) : r \in Recs}

Stores ==
  [soas : Seq(Nat), serial : Nat, rrs : SUBSET Recs, nsec3 : SUBSET Links,
   expiry : SUBSET Times]

\* Records have their three fields, and the data of an SOA is a serial.
LEMMA RecFields ==
  ASSUME NEW r \in Recs
  PROVE  /\ r = RR(r.owner, r.type, r.data)
         /\ r.type = "SOA" => r.data \in Nat /\ r = SOA(r.data)
         /\ r.type # "SOA" => \E B \in Bodies : r \in B
  BY TransferAssumption DEF Recs, SOA, RR

LEMMA AddType ==
  ASSUME NEW st \in Stores, NEW rr \in Recs
  PROVE  addRR(st, rr) \in Stores
<1>1. CASE rr.type = "SOA"
  <2>1. rr.data \in Nat
    BY <1>1, RecFields
  <2>2. addPacked(st.soas, rr.data) \in Seq(Nat)
    BY <2>1 DEF Stores, addPacked
  <2> QED BY <1>1, <2>1, <2>2 DEF Stores, addRR
<1>2. CASE rr.type # "SOA"
  BY <1>2 DEF Stores, addRR, indexRR, Links, Times
<1> QED BY <1>1, <1>2

\* FoldLeft adds one record after the other.
LEMMA AddPrefix ==
  ASSUME NEW st \in Stores, NEW rrs \in Seq(Recs)
  PROVE  \E f : /\ f[0] = st
                /\ \A i \in 1..Len(rrs) : f[i] = addRR(f[i - 1], rrs[i])
                /\ FoldLeft(addRR, st, rrs) = f[Len(rrs)]
<1> DEFINE F == [p \in Stores \X Recs |-> addRR(p[1], p[2])]
           n == Len(rrs)
<1>1. F \in [Stores \X Recs -> Stores]
  BY AddType
<1>2. \A x \in Stores, y \in Recs : F[<<x, y>>] = addRR(x, y)
  OBVIOUS
<1>3. n \in Nat /\ n \in 0..Len(rrs) /\ DOMAIN rrs = 1..n
  OBVIOUS
<1> HIDE DEF F
<1>4. PICK g \in [SUBSET (1..n) -> Stores] : IsFold(g, F, st, rrs, n)
  BY <1>1, <1>3, FoldExists
<1> DEFINE after(h, t) == addRR(h[t \ {Max(t)}], rrs[Max(t)])
           Eq(h) == h = [t \in SUBSET DOMAIN rrs |-> IF t = {} THEN st ELSE after(h, t)]
           it == CHOOSE h : Eq(h)
<1> HIDE DEF n
<1>5. Eq(it)
  <2>1. ASSUME NEW t \in SUBSET (1..n), t # {}
        PROVE  F[<<g[t \ {Max(t)}], rrs[Max(t)]>>] = after(g, t)
    <3>1. Max(t) \in DOMAIN rrs /\ t \ {Max(t)} \in SUBSET (1..n)
      BY <1>3, <2>1, MaxOfNats
    <3>2. g[t \ {Max(t)}] \in Stores /\ rrs[Max(t)] \in Recs
      BY <3>1
    <3> QED BY <1>2, <3>2
  <2>2. Eq(g)
    <3> HIDE DEF after
    <3> QED BY <1>3, <1>4, <2>1 DEF IsFold
  <2> HIDE DEF Eq
  <2> QED BY <2>2
<1>6. FoldLeft(addRR, st, rrs) = it[DOMAIN rrs]
  BY Zenon DEF FoldLeft, MapThenFoldSet
<1> HIDE DEF it
<1>7. \A t \in SUBSET (1..n) : it[t] = IF t = {} THEN st ELSE after(it, t)
  <2> HIDE DEF after
  <2> QED BY <1>3, <1>5
<1> DEFINE f == [i \in 0..n |-> it[1..i]]
<1>8. ASSUME NEW i \in 1..n
      PROVE  f[i] = addRR(f[i - 1], rrs[i])
  <2>1. /\ i \in Nat /\ i # 0 /\ i \in 0..n /\ i - 1 \in 0..n
        /\ 1..i \in SUBSET (1..n)
    BY <1>3
  <2>2. Max(1..i) = i /\ (1..i) \ {i} = 1..(i - 1) /\ 1..i # {}
    BY <2>1, PrefixLast
  <2> QED BY <1>7, <2>1, <2>2
<1>9. f[0] = st /\ f[n] = it[DOMAIN rrs]
  <2>1. 0 \in 0..n /\ n \in 0..n /\ 1..0 = {}
    BY <1>3
  <2>2. it[{}] = st
    BY <1>7
  <2> HIDE DEF after
  <2> QED BY <1>3, <2>1, <2>2
<1> QED BY <1>6, <1>8, <1>9 DEF n

\* A store whose apex has at most one SOA.
Short == {st \in Stores : st.soas = <<>> \/ \E a \in Nat : st.soas = <<a>>}

LEMMA RemovePacked ==
  ASSUME NEW b \in Nat
  PROVE  /\ removePacked(<<>>, b) = <<>>
         /\ \A a \in Nat : removePacked(<<a>>, b) = IF a = b THEN <<>> ELSE <<a>>
<1>1. removePacked(<<>>, b) = <<>>
  <2>1. ~\E i \in 1..Len(<<>>) : <<>>[i] = b
    OBVIOUS
  <2> QED BY <2>1, Zenon DEF removePacked, RemoveFirst
<1>2. ASSUME NEW a \in Nat
      PROVE  removePacked(<<a>>, b) = IF a = b THEN <<>> ELSE <<a>>
  <2>1. CASE a # b
    <3>1. ~\E i \in 1..Len(<<a>>) : <<a>>[i] = b
      BY <2>1
    <3> QED BY <2>1, <3>1, Zenon DEF removePacked, RemoveFirst
  <2>2. CASE a = b
    <3> DEFINE I == {i \in 1..Len(<<a>>) : <<a>>[i] = b}
    <3>1. I = {1} /\ \E i \in 1..Len(<<a>>) : <<a>>[i] = b
      BY <2>2
    <3>2. Min(I) = 1
      BY <3>1 DEF Min
    <3>3. SelectInSeq(<<a>>, LAMBDA v : v = b) = 1
      <4>1. SelectInSeq(<<a>>, LAMBDA v : v = b) = IF I # {} THEN Min(I) ELSE 0
        BY Zenon DEF SelectInSeq
      <4> HIDE DEF I
      <4> QED BY <3>1, <3>2, <4>1
    <3>4. removePacked(<<a>>, b) = RemoveAt(<<a>>, 1)
      BY <3>1, <3>3, Zenon DEF removePacked, RemoveFirst
    <3>5. RemoveAt(<<a>>, 1) = <<>>
      BY DEF RemoveAt
    <3> QED BY <2>2, <3>4, <3>5
  <2> QED BY <2>1, <2>2
<1> QED BY <1>1, <1>2

LEMMA RemoveType ==
  ASSUME NEW st \in Short, NEW rr \in Recs
  PROVE  removeRR(st, rr) \in Short
<1>1. CASE rr.type = "SOA"
  <2> DEFINE left == removePacked(st.soas, rr.data)
  <2>1. rr.data \in Nat
    BY <1>1, RecFields
  <2>2. left = <<>> \/ \E a \in Nat : left = <<a>>
    <3>1. CASE st.soas = <<>>
      BY <2>1, <3>1, RemovePacked
    <3>2. CASE \E a \in Nat : st.soas = <<a>>
      BY <2>1, <3>2, RemovePacked
    <3> QED BY <3>1, <3>2 DEF Short
  <2>3. removeRR(st, rr) = [st EXCEPT !.soas = left, !.serial = soaSerial(left, @)]
    BY <1>1 DEF removeRR
  <2> HIDE DEF left
  <2>4. left \in Seq(Nat) /\ soaSerial(left, st.serial) \in Nat
    <3>1. CASE left = <<>>
      BY <3>1 DEF soaSerial, Short, Stores
    <3>2. CASE left # <<>>
      <4>1. PICK a \in Nat : left = <<a>>
        BY <2>2, <3>2
      <4>2. Head(left) = a
        BY <4>1
      <4> QED BY <3>2, <4>1, <4>2 DEF soaSerial
    <3> QED BY <3>1, <3>2
  <2> QED BY <2>2, <2>3, <2>4 DEF Short, Stores
<1>2. CASE rr.type # "SOA"
  BY <1>2 DEF Stores, Short, removeRR, deindexRR
<1> QED BY <1>1, <1>2

\* FoldLeft removes one record after the other.
LEMMA RemovePrefix ==
  ASSUME NEW st \in Short, NEW rrs \in Seq(Recs)
  PROVE  \E f : /\ f[0] = st
                /\ \A i \in 1..Len(rrs) : f[i] = removeRR(f[i - 1], rrs[i])
                /\ FoldLeft(removeRR, st, rrs) = f[Len(rrs)]
<1> DEFINE F == [p \in Short \X Recs |-> removeRR(p[1], p[2])]
           n == Len(rrs)
<1>1. F \in [Short \X Recs -> Short]
  BY RemoveType
<1>2. \A x \in Short, y \in Recs : F[<<x, y>>] = removeRR(x, y)
  OBVIOUS
<1>3. n \in Nat /\ n \in 0..Len(rrs) /\ DOMAIN rrs = 1..n
  OBVIOUS
<1> HIDE DEF F
<1>4. PICK g \in [SUBSET (1..n) -> Short] : IsFold(g, F, st, rrs, n)
  BY <1>1, <1>3, FoldExists
<1> DEFINE after(h, t) == removeRR(h[t \ {Max(t)}], rrs[Max(t)])
           Eq(h) == h = [t \in SUBSET DOMAIN rrs |-> IF t = {} THEN st ELSE after(h, t)]
           it == CHOOSE h : Eq(h)
<1> HIDE DEF n
<1>5. Eq(it)
  <2>1. ASSUME NEW t \in SUBSET (1..n), t # {}
        PROVE  F[<<g[t \ {Max(t)}], rrs[Max(t)]>>] = after(g, t)
    <3>1. Max(t) \in DOMAIN rrs /\ t \ {Max(t)} \in SUBSET (1..n)
      BY <1>3, <2>1, MaxOfNats
    <3>2. g[t \ {Max(t)}] \in Short /\ rrs[Max(t)] \in Recs
      BY <3>1
    <3> QED BY <1>2, <3>2
  <2>2. Eq(g)
    <3> HIDE DEF after
    <3> QED BY <1>3, <1>4, <2>1 DEF IsFold
  <2> HIDE DEF Eq
  <2> QED BY <2>2
<1>6. FoldLeft(removeRR, st, rrs) = it[DOMAIN rrs]
  BY Zenon DEF FoldLeft, MapThenFoldSet
<1> HIDE DEF it
<1>7. \A t \in SUBSET (1..n) : it[t] = IF t = {} THEN st ELSE after(it, t)
  <2> HIDE DEF after
  <2> QED BY <1>3, <1>5
<1> DEFINE f == [i \in 0..n |-> it[1..i]]
<1>8. ASSUME NEW i \in 1..n
      PROVE  f[i] = removeRR(f[i - 1], rrs[i])
  <2>1. /\ i \in Nat /\ i # 0 /\ i \in 0..n /\ i - 1 \in 0..n
        /\ 1..i \in SUBSET (1..n)
    BY <1>3
  <2>2. Max(1..i) = i /\ (1..i) \ {i} = 1..(i - 1) /\ 1..i # {}
    BY <2>1, PrefixLast
  <2> QED BY <1>7, <2>1, <2>2
<1>9. f[0] = st /\ f[n] = it[DOMAIN rrs]
  <2>1. 0 \in 0..n /\ n \in 0..n /\ 1..0 = {}
    BY <1>3
  <2>2. it[{}] = st
    BY <1>7
  <2> HIDE DEF after
  <2> QED BY <1>3, <2>1, <2>2
<1> QED BY <1>6, <1>8, <1>9 DEF n

-----------------------------------------------------------------------------
(* Reading an incremental answer *)

\* Serials collects one SOA after the other.
LEMMA SerialsPrefix ==
  ASSUME NEW st \in Seq(Recs), NEW rrs \in Seq(Recs)
  PROVE  \E f : /\ f[0] = st
                /\ \A i \in 1..Len(rrs) : f[i] = appendSOA(f[i - 1], rrs[i])
                /\ FoldLeft(appendSOA, st, rrs) = f[Len(rrs)]
<1> DEFINE F == [p \in Seq(Recs) \X Recs |-> appendSOA(p[1], p[2])]
           n == Len(rrs)
<1>1. F \in [Seq(Recs) \X Recs -> Seq(Recs)]
  BY DEF appendSOA
<1>2. \A x \in Seq(Recs), y \in Recs : F[<<x, y>>] = appendSOA(x, y)
  OBVIOUS
<1>3. n \in Nat /\ n \in 0..Len(rrs) /\ DOMAIN rrs = 1..n
  OBVIOUS
<1> HIDE DEF F
<1>4. PICK g \in [SUBSET (1..n) -> Seq(Recs)] : IsFold(g, F, st, rrs, n)
  BY <1>1, <1>3, FoldExists
<1> DEFINE after(h, t) == appendSOA(h[t \ {Max(t)}], rrs[Max(t)])
           Eq(h) == h = [t \in SUBSET DOMAIN rrs |-> IF t = {} THEN st ELSE after(h, t)]
           it == CHOOSE h : Eq(h)
<1> HIDE DEF n
<1>5. Eq(it)
  <2>1. ASSUME NEW t \in SUBSET (1..n), t # {}
        PROVE  F[<<g[t \ {Max(t)}], rrs[Max(t)]>>] = after(g, t)
    <3>1. Max(t) \in DOMAIN rrs /\ t \ {Max(t)} \in SUBSET (1..n)
      BY <1>3, <2>1, MaxOfNats
    <3>2. g[t \ {Max(t)}] \in Seq(Recs) /\ rrs[Max(t)] \in Recs
      BY <3>1
    <3> QED BY <1>2, <3>2
  <2>2. Eq(g)
    <3> HIDE DEF after
    <3> QED BY <1>3, <1>4, <2>1 DEF IsFold
  <2> HIDE DEF Eq
  <2> QED BY <2>2
<1>6. FoldLeft(appendSOA, st, rrs) = it[DOMAIN rrs]
  BY Zenon DEF FoldLeft, MapThenFoldSet
<1> HIDE DEF it
<1>7. \A t \in SUBSET (1..n) : it[t] = IF t = {} THEN st ELSE after(it, t)
  <2> HIDE DEF after
  <2> QED BY <1>3, <1>5
<1> DEFINE f == [i \in 0..n |-> it[1..i]]
<1>8. ASSUME NEW i \in 1..n
      PROVE  f[i] = appendSOA(f[i - 1], rrs[i])
  <2>1. /\ i \in Nat /\ i # 0 /\ i \in 0..n /\ i - 1 \in 0..n
        /\ 1..i \in SUBSET (1..n)
    BY <1>3
  <2>2. Max(1..i) = i /\ (1..i) \ {i} = 1..(i - 1) /\ 1..i # {}
    BY <2>1, PrefixLast
  <2> QED BY <1>7, <2>1, <2>2
<1>9. f[0] = st /\ f[n] = it[DOMAIN rrs]
  <2>1. 0 \in 0..n /\ n \in 0..n /\ 1..0 = {}
    BY <1>3
  <2>2. it[{}] = st
    BY <1>7
  <2> HIDE DEF after
  <2> QED BY <1>3, <2>1, <2>2
<1> QED BY <1>6, <1>8, <1>9 DEF n

Walks == [mode : {0, 1, 2}, adds : Seq(Recs), removes : Seq(Recs)]

LEMMA WalkType ==
  ASSUME NEW n \in Nat, NEW w \in Walks, NEW rr \in Recs
  PROVE  Walk(n, w, rr) \in Walks
<1>1. w.mode = 0 \/ w.mode = 1 \/ w.mode = 2
  BY DEF Walks
<1>2. Append(w.adds, rr) \in Seq(Recs) /\ Append(w.removes, rr) \in Seq(Recs)
  BY DEF Walks
<1>3. rr = SOA(n) => rr.type = "SOA"
  BY DEF SOA, RR
<1>4. CASE w.mode = 0
  BY <1>2, <1>4 DEF Walks, Walk
<1>5. CASE w.mode = 1
  BY <1>2, <1>5 DEF Walks, Walk
<1>6. CASE w.mode = 2
  BY <1>2, <1>3, <1>6 DEF Walks, Walk
<1> QED BY <1>1, <1>4, <1>5, <1>6

Walked(serial, st, rrs) == FoldLeft(LAMBDA w, rr : Walk(serial, w, rr), st, rrs)

\* The walk takes one record after the other.
LEMMA WalkPrefix ==
  ASSUME NEW st \in Walks, NEW rrs \in Seq(Recs), NEW serial \in Nat
  PROVE  \E f : /\ f[0] = st
                /\ \A i \in 1..Len(rrs) : f[i] = Walk(serial, f[i - 1], rrs[i])
                /\ Walked(serial, st, rrs) = f[Len(rrs)]
<1> DEFINE F == [p \in Walks \X Recs |-> Walk(serial, p[1], p[2])]
           n == Len(rrs)
<1>1. F \in [Walks \X Recs -> Walks]
  BY WalkType
<1>2. \A x \in Walks, y \in Recs : F[<<x, y>>] = Walk(serial, x, y)
  OBVIOUS
<1>3. n \in Nat /\ n \in 0..Len(rrs) /\ DOMAIN rrs = 1..n
  OBVIOUS
<1> HIDE DEF F
<1>4. PICK g \in [SUBSET (1..n) -> Walks] : IsFold(g, F, st, rrs, n)
  BY <1>1, <1>3, FoldExists
<1> DEFINE after(h, t) == Walk(serial, h[t \ {Max(t)}], rrs[Max(t)])
           Eq(h) == h = [t \in SUBSET DOMAIN rrs |-> IF t = {} THEN st ELSE after(h, t)]
           it == CHOOSE h : Eq(h)
<1> HIDE DEF n
<1>5. Eq(it)
  <2>1. ASSUME NEW t \in SUBSET (1..n), t # {}
        PROVE  F[<<g[t \ {Max(t)}], rrs[Max(t)]>>] = after(g, t)
    <3>1. Max(t) \in DOMAIN rrs /\ t \ {Max(t)} \in SUBSET (1..n)
      BY <1>3, <2>1, MaxOfNats
    <3>2. g[t \ {Max(t)}] \in Walks /\ rrs[Max(t)] \in Recs
      BY <3>1
    <3> QED BY <1>2, <3>2
  <2>2. Eq(g)
    <3> HIDE DEF after
    <3> QED BY <1>3, <1>4, <2>1 DEF IsFold
  <2> HIDE DEF Eq
  <2> QED BY <2>2
<1>6. Walked(serial, st, rrs) = it[DOMAIN rrs]
  BY Zenon DEF FoldLeft, MapThenFoldSet, Walked
<1> HIDE DEF it
<1>7. \A t \in SUBSET (1..n) : it[t] = IF t = {} THEN st ELSE after(it, t)
  <2> HIDE DEF after
  <2> QED BY <1>3, <1>5
<1> DEFINE f == [i \in 0..n |-> it[1..i]]
<1>8. ASSUME NEW i \in 1..n
      PROVE  f[i] = Walk(serial, f[i - 1], rrs[i])
  <2>1. /\ i \in Nat /\ i # 0 /\ i \in 0..n /\ i - 1 \in 0..n
        /\ 1..i \in SUBSET (1..n)
    BY <1>3
  <2>2. Max(1..i) = i /\ (1..i) \ {i} = 1..(i - 1) /\ 1..i # {}
    BY <2>1, PrefixLast
  <2> QED BY <1>7, <2>1, <2>2
<1>9. f[0] = st /\ f[n] = it[DOMAIN rrs]
  <2>1. 0 \in 0..n /\ n \in 0..n /\ 1..0 = {}
    BY <1>3
  <2>2. it[{}] = st
    BY <1>7
  <2> HIDE DEF after
  <2> QED BY <1>3, <2>1, <2>2
<1> QED BY <1>6, <1>8, <1>9 DEF n

-----------------------------------------------------------------------------
(* What a store holds after records were added or removed *)

NSEC3s(B) == {[key |-> nsec3Key(r), next |-> r.data] :
                r \in {r \in B : r.type = "NSEC3"}}
Sigs(B)   == {expiryKey(r) : r \in {r \in B : r.type = "RRSIG"}}

\* The records B, both indexes exact, and the SOA records soas.
Holding(soas, n, B) ==
  [soas |-> soas, serial |-> n, rrs |-> B, nsec3 |-> NSEC3s(B), expiry |-> Sigs(B)]

\* Version n of the zone, B being its body.
Exact(n, B) == Holding(<<n>>, n, B)

LEMMA BodyFacts ==
  ASSUME NEW C \in Bodies, NEW r \in C, NEW q \in C
  PROVE  /\ r \in Recs /\ r.type # "SOA"
         /\ r.type = "NSEC3" /\ q.type = "NSEC3" /\ nsec3Key(r) = nsec3Key(q) => r = q
         /\ r.type = "RRSIG" /\ q.type = "RRSIG" /\ expiryKey(r) = expiryKey(q) => r = q
<1>1. r = RR(r.owner, r.type, r.data) /\ q = RR(q.owner, q.type, q.data)
  BY TransferAssumption
<1>2. r.type = "RRSIG" /\ q.type = "RRSIG" /\ expiryKey(r) = expiryKey(q) => r = q
  BY <1>1 DEF expiryKey
<1> QED BY <1>2, TransferAssumption DEF Recs, nsec3Key

LEMMA HoldingShort ==
  ASSUME NEW C \in Bodies, NEW B \in SUBSET C, NEW n \in Nat, NEW a \in Nat, NEW soas,
         soas = <<>> \/ soas = <<a>>
  PROVE  Holding(soas, n, B) \in Short
<1>1. B \subseteq Recs
  BY DEF Recs
<1>2. soas \in Seq(Nat)
  <2>1. CASE soas = <<>>
    BY <2>1
  <2>2. CASE soas = <<a>>
    BY <2>2
  <2> QED BY <2>1, <2>2
<1> QED BY <1>1, <1>2 DEF Holding, Short, Stores, NSEC3s, Sigs, Links, Times

LEMMA AddSOA ==
  ASSUME NEW B, NEW s, NEW n \in Nat, NEW soas, soas = <<>> \/ soas = <<n>>
  PROVE  addRR(Holding(soas, s, B), SOA(n)) = Holding(<<n>>, n, B)
<1>1. addPacked(soas, n) = <<n>>
  <2>1. CASE soas = <<>>
    <3>1. ~Contains(<<>>, n) /\ Append(<<>>, n) = <<n>>
      BY DEF Contains
    <3> QED BY <2>1, <3>1 DEF addPacked
  <2>2. CASE soas = <<n>>
    <3>1. Contains(<<n>>, n)
      BY DEF Contains
    <3> QED BY <2>2, <3>1 DEF addPacked
  <2> QED BY <2>1, <2>2
<1> QED BY <1>1 DEF addRR, Holding, SOA, RR

LEMMA AddRecord ==
  ASSUME NEW C \in Bodies, NEW B \in SUBSET C, NEW s, NEW soas, NEW rr \in C
  PROVE  addRR(Holding(soas, s, B), rr) = Holding(soas, s, B \cup {rr})
<1> DEFINE D == B \cup {rr}
           st == [soas |-> soas, serial |-> s, rrs |-> D,
                  nsec3 |-> NSEC3s(B), expiry |-> Sigs(B)]
<1>1. rr.type # "SOA"
  BY BodyFacts
<1>2. addRR(Holding(soas, s, B), rr) = indexRR(st, rr)
  <2>1. [Holding(soas, s, B) EXCEPT !.rrs = Holding(soas, s, B).rrs \cup {rr}] = st
    <3>1. Holding(soas, s, B).rrs \cup {rr} = D
      BY DEF Holding
    <3> HIDE DEF D
    <3>2. [Holding(soas, s, B) EXCEPT !.rrs = D] = st
      BY DEF Holding
    <3> HIDE DEF st
    <3> QED BY <3>1, <3>2, Zenon
  <2> HIDE DEF st
  <2> QED BY <1>1, <2>1 DEF addRR
<1>3. CASE rr.type = "NSEC3"
  <2>1. NSEC3s(D) = {e \in NSEC3s(B) : e.key # nsec3Key(rr)}
                      \cup {[key |-> nsec3Key(rr), next |-> rr.data]}
    <3>1. \A q \in B : q.type = "NSEC3" /\ nsec3Key(q) = nsec3Key(rr) => q = rr
      BY <1>3, BodyFacts
    <3> QED BY <1>3, <3>1 DEF NSEC3s
  <2>2. Sigs(D) = Sigs(B)
    BY <1>3 DEF Sigs
  <2> QED BY <1>2, <1>3, <2>1, <2>2 DEF indexRR, Holding
<1>4. CASE rr.type = "RRSIG"
  <2>1. NSEC3s(D) = NSEC3s(B) /\ Sigs(D) = Sigs(B) \cup {expiryKey(rr)}
    BY <1>4 DEF NSEC3s, Sigs
  <2> QED BY <1>2, <1>4, <2>1 DEF indexRR, Holding
<1>5. CASE rr.type # "NSEC3" /\ rr.type # "RRSIG"
  <2>1. NSEC3s(D) = NSEC3s(B) /\ Sigs(D) = Sigs(B)
    BY <1>5 DEF NSEC3s, Sigs
  <2> QED BY <1>2, <1>5, <2>1 DEF indexRR, Holding
<1> QED BY <1>3, <1>4, <1>5

LEMMA RemoveStep ==
  ASSUME NEW C \in Bodies, NEW B \in SUBSET C, NEW a \in Nat, NEW soas,
         soas = <<>> \/ soas = <<a>>
  PROVE  /\ removeRR(Holding(soas, a, B), SOA(a)) = Holding(<<>>, a, B)
         /\ \A rr \in C : removeRR(Holding(soas, a, B), rr) = Holding(soas, a, B \ {rr})
<1>1. removeRR(Holding(soas, a, B), SOA(a)) = Holding(<<>>, a, B)
  <2>1. removePacked(soas, a) = <<>>
    BY RemovePacked
  <2> QED BY <2>1 DEF removeRR, Holding, SOA, RR, soaSerial
<1>2. ASSUME NEW rr \in C
      PROVE  removeRR(Holding(soas, a, B), rr) = Holding(soas, a, B \ {rr})
  <2> DEFINE D == B \ {rr}
             st == [soas |-> soas, serial |-> a, rrs |-> D,
                    nsec3 |-> NSEC3s(B), expiry |-> Sigs(B)]
  <2>1. rr.type # "SOA"
    BY BodyFacts
  <2>2. CASE \A q \in B : q.owner # rr.owner
    <3>1. D = B
      BY <2>2
    <3>2. removeRR(Holding(soas, a, B), rr) = Holding(soas, a, B)
      BY <2>1, <2>2 DEF removeRR, Holding
    <3> QED BY <3>1, <3>2
  <2>3. CASE ~\A q \in B : q.owner # rr.owner
    <3>1. removeRR(Holding(soas, a, B), rr) = deindexRR(st, rr)
      <4>1. Holding(soas, a, B).rrs = B
        BY DEF Holding
      <4>2. [Holding(soas, a, B) EXCEPT !.rrs = Holding(soas, a, B).rrs \ {rr}] = st
        BY DEF Holding
      <4> HIDE DEF st
      <4> QED BY <2>1, <2>3, <4>1, <4>2 DEF removeRR
    <3>2. CASE rr.type = "NSEC3"
      <4>1. NSEC3s(D) = {e \in NSEC3s(B) : e.key # nsec3Key(rr)}
        <5>1. \A q \in B : q.type = "NSEC3" /\ nsec3Key(q) = nsec3Key(rr) => q = rr
          BY <3>2, BodyFacts
        <5> QED BY <3>2, <5>1 DEF NSEC3s
      <4>2. Sigs(D) = Sigs(B)
        BY <3>2 DEF Sigs
      <4> QED BY <3>1, <3>2, <4>1, <4>2 DEF deindexRR, Holding
    <3>3. CASE rr.type = "RRSIG"
      <4>1. NSEC3s(D) = NSEC3s(B)
        BY <3>3 DEF NSEC3s
      <4>2. Sigs(D) = Sigs(B) \ {expiryKey(rr)}
        <5>1. \A q \in B : q.type = "RRSIG" /\ expiryKey(q) = expiryKey(rr) => q = rr
          BY <3>3, BodyFacts
        <5> QED BY <3>3, <5>1 DEF Sigs
      <4> QED BY <3>1, <3>3, <4>1, <4>2 DEF deindexRR, Holding
    <3>4. CASE rr.type # "NSEC3" /\ rr.type # "RRSIG"
      <4>1. NSEC3s(D) = NSEC3s(B) /\ Sigs(D) = Sigs(B)
        BY <3>4 DEF NSEC3s, Sigs
      <4> QED BY <3>1, <3>4, <4>1 DEF deindexRR, Holding
    <3> QED BY <3>2, <3>3, <3>4
  <2> QED BY <2>2, <2>3
<1> QED BY <1>1, <1>2

\* The records among the first k of an answer that are no SOA.
Plain(rrs, k) == {rrs[i] : i \in {i \in 1..k : rrs[i].type # "SOA"}}
HasSOA(rrs, k) == \E i \in 1..k : rrs[i].type = "SOA"

LEMMA PlainNone ==
  ASSUME NEW rrs
  PROVE  Plain(rrs, 0) = {} /\ ~HasSOA(rrs, 0)
<1>1. \A i : i \notin 1..0
  OBVIOUS
<1> QED BY <1>1, Zenon DEF Plain, HasSOA

LEMMA PlainStep ==
  ASSUME NEW rrs, NEW k \in Nat, k # 0
  PROVE  /\ rrs[k].type = "SOA" => Plain(rrs, k) = Plain(rrs, k - 1) /\ HasSOA(rrs, k)
         /\ rrs[k].type # "SOA" => /\ Plain(rrs, k) = Plain(rrs, k - 1) \cup {rrs[k]}
                                   /\ HasSOA(rrs, k) = HasSOA(rrs, k - 1)
<1>1. \A i : i \in 1..k <=> i \in 1..(k - 1) \/ i = k
  OBVIOUS
<1>2. ASSUME rrs[k].type = "SOA"
      PROVE  Plain(rrs, k) = Plain(rrs, k - 1) /\ HasSOA(rrs, k)
  BY <1>1, <1>2 DEF Plain, HasSOA
<1>3. ASSUME rrs[k].type # "SOA"
      PROVE  /\ Plain(rrs, k) = Plain(rrs, k - 1) \cup {rrs[k]}
             /\ HasSOA(rrs, k) = HasSOA(rrs, k - 1)
  BY <1>1, <1>3 DEF Plain, HasSOA
<1> QED BY <1>2, <1>3

Added(st, rrs)   == FoldLeft(addRR, st, rrs)
Removed(st, rrs) == FoldLeft(removeRR, st, rrs)

\* The records are those of version n, C its body.
OfVersion(rrs, n, C) ==
  \A i \in 1..Len(rrs) : IF rrs[i].type = "SOA" THEN rrs[i] = SOA(n) ELSE rrs[i] \in C

\* The records A under the serial s, after k more of version n.
HoldingAfter(rrs, k, n, s, A) ==
  Holding(IF HasSOA(rrs, k) THEN <<n>> ELSE <<>>, IF HasSOA(rrs, k) THEN n ELSE s,
          A \cup Plain(rrs, k))

\* Adding the records of a version, in any order, to a store that holds some
\* of them leaves exactly these, under the version's serial once its SOA came.
LEMMA AddAll ==
  ASSUME NEW C \in Bodies, NEW A \in SUBSET C, NEW s \in Nat, NEW n \in Nat,
         NEW rrs \in Seq(Recs),
         OfVersion(rrs, n, C)
  PROVE  Added(Holding(<<>>, s, A), rrs) =
           HoldingAfter(rrs, Len(rrs), n, s, A)
<1> USE DEF OfVersion, HoldingAfter
<1> DEFINE N == Len(rrs)
           After(k) == HoldingAfter(rrs, k, n, s, A)
<1>0. N \in Nat
  OBVIOUS
<1>1. Holding(<<>>, s, A) \in Stores
  BY HoldingShort DEF Short
<1>2. PICK f : /\ f[0] = Holding(<<>>, s, A)
               /\ \A i \in 1..N : f[i] = addRR(f[i - 1], rrs[i])
               /\ Added(Holding(<<>>, s, A), rrs) = f[N]
  BY <1>1, AddPrefix DEF Added
<1>3. After(0) = f[0]
  <2>1. Plain(rrs, 0) = {} /\ ~HasSOA(rrs, 0)
    BY PlainNone
  <2> QED BY <1>2, <2>1
<1>4. ASSUME NEW k \in 1..N, f[k - 1] = After(k - 1)
      PROVE  f[k] = After(k)
  <2> DEFINE soas1 == IF HasSOA(rrs, k - 1) THEN <<n>> ELSE <<>>
             s1    == IF HasSOA(rrs, k - 1) THEN n ELSE s
             A1    == A \cup Plain(rrs, k - 1)
  <2>1. soas1 = <<>> \/ soas1 = <<n>>
    OBVIOUS
  <2>2. s1 \in Nat /\ A1 \in SUBSET C
    BY <1>0 DEF Plain
  <2>3. f[k] = addRR(Holding(soas1, s1, A1), rrs[k])
    BY <1>2, <1>4
  <2>4. k \in Nat /\ k # 0
    BY <1>0
  <2>5. CASE rrs[k].type = "SOA"
    <3>1. Plain(rrs, k) = Plain(rrs, k - 1) /\ HasSOA(rrs, k)
      BY <2>4, <2>5, PlainStep
    <3>2. After(k) = Holding(<<n>>, n, A1)
      BY <3>1
    <3>3. rrs[k] = SOA(n)
      BY <2>5
    <3> HIDE DEF soas1, s1, A1, After
    <3>4. addRR(Holding(soas1, s1, A1), SOA(n)) = Holding(<<n>>, n, A1)
      BY <2>1, AddSOA
    <3> QED BY <2>3, <3>2, <3>3, <3>4
  <2>6. CASE rrs[k].type # "SOA"
    <3>1. /\ Plain(rrs, k) = Plain(rrs, k - 1) \cup {rrs[k]}
          /\ HasSOA(rrs, k) = HasSOA(rrs, k - 1)
      BY <2>4, <2>6, PlainStep
    <3>2. A \cup Plain(rrs, k) = A1 \cup {rrs[k]}
      BY <3>1
    <3>3. After(k) = Holding(soas1, s1, A1 \cup {rrs[k]})
      BY <3>1, <3>2
    <3>4. rrs[k] \in C
      BY <2>6
    <3> HIDE DEF soas1, s1, A1, After
    <3>5. addRR(Holding(soas1, s1, A1), rrs[k]) = Holding(soas1, s1, A1 \cup {rrs[k]})
      BY <2>2, <3>4, AddRecord
    <3> QED BY <2>3, <3>3, <3>5
  <2> QED BY <2>5, <2>6
<1> HIDE DEF N, After
<1>5. f[N] = After(N)
  <2> DEFINE T == {k \in 0..N : f[k] # After(k)}
  <2> SUFFICES ASSUME T # {} PROVE FALSE
    BY <1>0
  <2>1. T \in SUBSET Nat
    BY <1>0
  <2>2. PICK k \in T : \A m \in T : k <= m
    <3> HIDE DEF T
    <3> QED BY <2>1, LeastNat
  <2>3. k \in 1..N /\ k - 1 \in 0..N /\ ~(k <= k - 1)
    BY <1>0, <1>3
  <2>4. f[k - 1] = After(k - 1)
    BY <2>2, <2>3
  <2> QED BY <1>4, <2>2, <2>3, <2>4
<1> QED BY <1>2, <1>5 DEF N, After

\* Removing records of the version held, in any order.
LEMMA RemoveAll ==
  ASSUME NEW C \in Bodies, NEW n \in Nat, NEW rrs \in Seq(Recs),
         OfVersion(rrs, n, C)
  PROVE  Removed(Exact(n, C), rrs) =
           Holding(IF HasSOA(rrs, Len(rrs)) THEN <<>> ELSE <<n>>, n,
                   C \ Plain(rrs, Len(rrs)))
<1> USE DEF OfVersion
<1> DEFINE N == Len(rrs)
           After(k) == Holding(IF HasSOA(rrs, k) THEN <<>> ELSE <<n>>, n,
                               C \ Plain(rrs, k))
<1>0. N \in Nat
  OBVIOUS
<1>1. Exact(n, C) \in Short
  BY HoldingShort DEF Exact
<1>2. PICK f : /\ f[0] = Exact(n, C)
               /\ \A i \in 1..N : f[i] = removeRR(f[i - 1], rrs[i])
               /\ Removed(Exact(n, C), rrs) = f[N]
  BY <1>1, RemovePrefix DEF Removed
<1>3. After(0) = f[0]
  <2>1. Plain(rrs, 0) = {} /\ ~HasSOA(rrs, 0)
    BY PlainNone
  <2>2. C \ Plain(rrs, 0) = C
    BY <2>1
  <2> QED BY <1>2, <2>1, <2>2 DEF Exact
<1>4. ASSUME NEW k \in 1..N, f[k - 1] = After(k - 1)
      PROVE  f[k] = After(k)
  <2> DEFINE soas1 == IF HasSOA(rrs, k - 1) THEN <<>> ELSE <<n>>
             A1    == C \ Plain(rrs, k - 1)
  <2>1. (soas1 = <<>> \/ soas1 = <<n>>) /\ A1 \in SUBSET C
    OBVIOUS
  <2>3. f[k] = removeRR(Holding(soas1, n, A1), rrs[k])
    BY <1>2, <1>4
  <2>4. k \in Nat /\ k # 0
    BY <1>0
  <2>5. CASE rrs[k].type = "SOA"
    <3>1. Plain(rrs, k) = Plain(rrs, k - 1) /\ HasSOA(rrs, k)
      BY <2>4, <2>5, PlainStep
    <3>2. After(k) = Holding(<<>>, n, A1)
      BY <3>1
    <3>3. rrs[k] = SOA(n)
      BY <2>5
    <3> HIDE DEF soas1, A1, After
    <3>4. removeRR(Holding(soas1, n, A1), SOA(n)) = Holding(<<>>, n, A1)
      BY <2>1, RemoveStep
    <3> QED BY <2>3, <3>2, <3>3, <3>4
  <2>6. CASE rrs[k].type # "SOA"
    <3>1. /\ Plain(rrs, k) = Plain(rrs, k - 1) \cup {rrs[k]}
          /\ HasSOA(rrs, k) = HasSOA(rrs, k - 1)
      BY <2>4, <2>6, PlainStep
    <3>2. C \ Plain(rrs, k) = A1 \ {rrs[k]}
      BY <3>1
    <3>3. After(k) = Holding(soas1, n, A1 \ {rrs[k]})
      BY <3>1, <3>2
    <3>4. rrs[k] \in C
      BY <2>6
    <3> HIDE DEF soas1, A1, After
    <3>5. removeRR(Holding(soas1, n, A1), rrs[k]) = Holding(soas1, n, A1 \ {rrs[k]})
      BY <2>1, <3>4, RemoveStep
    <3> QED BY <2>3, <3>3, <3>5
  <2> QED BY <2>5, <2>6
<1> HIDE DEF N, After
<1>5. f[N] = After(N)
  <2> DEFINE T == {k \in 0..N : f[k] # After(k)}
  <2> SUFFICES ASSUME T # {} PROVE FALSE
    BY <1>0
  <2>1. T \in SUBSET Nat
    BY <1>0
  <2>2. PICK k \in T : \A m \in T : k <= m
    <3> HIDE DEF T
    <3> QED BY <2>1, LeastNat
  <2>3. k \in 1..N /\ k - 1 \in 0..N /\ ~(k <= k - 1)
    BY <1>0, <1>3
  <2>4. f[k - 1] = After(k - 1)
    BY <2>2, <2>3
  <2> QED BY <1>4, <2>2, <2>3, <2>4
<1> QED BY <1>2, <1>5 DEF N, After

LEMMA SetToSeqFacts ==
  ASSUME NEW S, IsFiniteSet(S)
  PROVE  /\ SetToSeq(S) \in Seq(S)
         /\ \A x \in S : \E i \in 1..Len(SetToSeq(S)) : SetToSeq(S)[i] = x
         /\ \A i \in 1..Len(SetToSeq(S)) : SetToSeq(S)[i] \in S
<1> DEFINE k == Cardinality(S)
           f == SetToSeq(S)
<1>1. k \in Nat /\ ExistsBijection(1..k, S)
  BY FS_CardinalityType
<1> HIDE DEF k
<1>2. f \in [1..k -> S] /\ IsInjective(f)
  <2>1. \E g \in [1..k -> S] : IsInjective(g)
    BY <1>1, Zenon DEF ExistsBijection, Bijection, Injection
  <2>2. f = CHOOSE g \in [1..k -> S] : IsInjective(g)
    BY Zenon DEF SetToSeq, k
  <2> QED BY <2>1, <2>2, Zenon
<1> HIDE DEF f
<1>3. f \in Injection(1..k, S)
  BY <1>2, Zenon DEF Injection
<1>4. IsFiniteSet(1..k) /\ Cardinality(1..k) = k
  BY <1>1, FS_Interval
<1>5. f \in Surjection(1..k, S)
  <2>1. Cardinality(1..k) = Cardinality(S) <=> f \in Surjection(1..k, S)
    BY <1>3, FS_Injection
  <2> QED BY <1>4, <2>1 DEF k
<1>6. f \in Seq(S) /\ Len(f) = k
  BY <1>1, <1>2
<1>7. \A x \in S : \E i \in 1..k : f[i] = x
  BY <1>5, Zenon DEF Surjection
<1> QED BY <1>2, <1>6, <1>7 DEF f

-----------------------------------------------------------------------------
(* Sequences of records as sets *)

\* A set that holds lo, and with a number the next one up to n, holds lo..n.
LEMMA UpTo ==
  ASSUME NEW lo \in Nat, NEW n \in Nat, NEW P, lo \in P,
         \A k \in (lo + 1)..n : k - 1 \in P => k \in P
  PROVE  \A k \in lo..n : k \in P
<1> DEFINE T == {k \in lo..n : k \notin P}
<1> SUFFICES ASSUME T # {} PROVE FALSE
  OBVIOUS
<1>1. T \in SUBSET Nat
  OBVIOUS
<1>2. PICK k \in T : \A m \in T : k <= m
  <2> HIDE DEF T
  <2> QED BY <1>1, LeastNat
<1>3. k \in (lo + 1)..n /\ k - 1 \in lo..n /\ ~(k <= k - 1)
  OBVIOUS
<1> QED BY <1>2, <1>3

LEMMA ConcatRange ==
  ASSUME NEW S, NEW s \in Seq(S), NEW t \in Seq(S)
  PROVE  s \o t \in Seq(S) /\ Range(s \o t) = Range(s) \cup Range(t)
<1>1. /\ s \o t \in Seq(S) /\ DOMAIN (s \o t) = 1..(Len(s) + Len(t))
      /\ \A i \in 1..(Len(s) + Len(t)) :
           (s \o t)[i] = IF i <= Len(s) THEN s[i] ELSE t[i - Len(s)]
  OBVIOUS
<1>2. Len(s) \in Nat /\ Len(t) \in Nat /\ DOMAIN s = 1..Len(s) /\ DOMAIN t = 1..Len(t)
  OBVIOUS
<1>3. ASSUME NEW x \in Range(s \o t) PROVE x \in Range(s) \cup Range(t)
  <2>1. PICK i \in 1..(Len(s) + Len(t)) : (s \o t)[i] = x
    BY <1>1 DEF Range
  <2>2. CASE i <= Len(s)
    BY <1>1, <1>2, <2>1, <2>2 DEF Range
  <2>3. CASE ~(i <= Len(s))
    <3>1. i - Len(s) \in DOMAIN t /\ x = t[i - Len(s)]
      BY <1>1, <1>2, <2>1, <2>3
    <3> QED BY <3>1, Zenon DEF Range
  <2> QED BY <2>2, <2>3
<1>4. ASSUME NEW x \in Range(s) PROVE x \in Range(s \o t)
  <2>1. PICK i \in DOMAIN s : s[i] = x
    BY DEF Range
  <2>2. i \in DOMAIN (s \o t) /\ (s \o t)[i] = x
    BY <1>1, <1>2, <2>1
  <2> QED BY <2>2, Zenon DEF Range
<1>5. ASSUME NEW x \in Range(t) PROVE x \in Range(s \o t)
  <2>1. PICK i \in DOMAIN t : t[i] = x
    BY DEF Range
  <2>2. Len(s) + i \in DOMAIN (s \o t) /\ (s \o t)[Len(s) + i] = x
    BY <1>1, <1>2, <2>1
  <2> QED BY <2>2, Zenon DEF Range
<1> QED BY <1>1, <1>3, <1>4, <1>5

LEMMA AppendRange ==
  ASSUME NEW s \in Seq(Recs), NEW x \in Recs
  PROVE  Append(s, x) \in Seq(Recs) /\ Range(Append(s, x)) = Range(s) \cup {x}
<1>1. <<x>> \in Seq(Recs) /\ Range(<<x>>) = {x} /\ Append(s, x) = s \o <<x>>
  BY DEF Range
<1>2. s \o <<x>> \in Seq(Recs) /\ Range(s \o <<x>>) = Range(s) \cup Range(<<x>>)
  BY <1>1, ConcatRange, Zenon
<1> QED BY <1>1, <1>2, Zenon

LEMMA SetToSeqRange ==
  ASSUME NEW S, NEW B \in SUBSET S, IsFiniteSet(B)
  PROVE  SetToSeq(B) \in Seq(S) /\ Range(SetToSeq(B)) = B
<1> DEFINE s == SetToSeq(B)
<1>1. /\ s \in Seq(B) /\ \A x \in B : \E i \in 1..Len(s) : s[i] = x
      /\ \A i \in 1..Len(s) : s[i] \in B
  BY SetToSeqFacts
<1> HIDE DEF s
<1>2. s \in Seq(S) /\ DOMAIN s = 1..Len(s)
  BY <1>1
<1>3. Range(s) = B
  BY <1>1, <1>2 DEF Range
<1> QED BY <1>2, <1>3 DEF s

\* The records are the SOA of version n and the records D.
Lists(rrs, n, D) == rrs \in Seq(Recs) /\ Range(rrs) = {SOA(n)} \cup D

\* In terms of the set of records alone: a version's SOA and D are added ...
LEMMA Load ==
  ASSUME NEW C \in Bodies, NEW A \in SUBSET C, NEW D \in SUBSET C, NEW s \in Nat,
         NEW n \in Nat, NEW rrs, Lists(rrs, n, D)
  PROVE  Added(Holding(<<>>, s, A), rrs) = Exact(n, A \cup D)
<1>1. SOA(n).type = "SOA" /\ \A r \in C : r.type # "SOA"
  BY BodyFacts DEF SOA, RR
<1>2. rrs \in Seq(Recs) /\ DOMAIN rrs = 1..Len(rrs) /\ Range(rrs) = {SOA(n)} \cup D
  BY DEF Lists
<1>3. OfVersion(rrs, n, C)
  BY <1>1, <1>2 DEF Range, OfVersion
<1>4. HasSOA(rrs, Len(rrs))
  BY <1>1, <1>2 DEF Range, HasSOA
<1>5. Plain(rrs, Len(rrs)) = D
  BY <1>1, <1>2 DEF Range, Plain
<1>6. Added(Holding(<<>>, s, A), rrs) = HoldingAfter(rrs, Len(rrs), n, s, A)
  BY <1>2, <1>3, AddAll
<1> QED BY <1>4, <1>5, <1>6 DEF Exact, HoldingAfter

\* ... or removed.
LEMMA Unload ==
  ASSUME NEW C \in Bodies, NEW D \in SUBSET C,
         NEW n \in Nat, NEW rrs, Lists(rrs, n, D)
  PROVE  Removed(Exact(n, C), rrs) = Holding(<<>>, n, C \ D)
<1>1. SOA(n).type = "SOA" /\ \A r \in C : r.type # "SOA"
  BY BodyFacts DEF SOA, RR
<1>2. rrs \in Seq(Recs) /\ DOMAIN rrs = 1..Len(rrs) /\ Range(rrs) = {SOA(n)} \cup D
  BY DEF Lists
<1>3. OfVersion(rrs, n, C)
  BY <1>1, <1>2 DEF Range, OfVersion
<1>4. HasSOA(rrs, Len(rrs))
  BY <1>1, <1>2 DEF Range, HasSOA
<1>5. Plain(rrs, Len(rrs)) = D
  BY <1>1, <1>2 DEF Range, Plain
<1> QED BY <1>2, <1>3, <1>4, <1>5, RemoveAll

LEMMA NoneHolds ==
  ASSUME NEW s
  PROVE  None = Holding(<<>>, 0, {}) /\ [None EXCEPT !.serial = s] = Holding(<<>>, s, {})
<1>1. NSEC3s({}) = {} /\ Sigs({}) = {}
  BY DEF NSEC3s, Sigs
<1>2. None = Holding(<<>>, 0, {})
  BY <1>1, Zenon DEF None, Holding
<1>3. ASSUME NEW soas, NEW B
      PROVE  [Holding(soas, 0, B) EXCEPT !.serial = s] = Holding(soas, s, B)
  BY DEF Holding
<1>4. [Holding(<<>>, 0, {}) EXCEPT !.serial = s] = Holding(<<>>, s, {})
  BY <1>3, Zenon
<1> QED BY <1>2, <1>4, Zenon

LEMMA LoadWhole ==
  ASSUME NEW B \in Bodies, NEW n \in Nat, NEW s \in Nat, NEW rrs,
         Lists(rrs, n, B)
  PROVE  /\ FromAXFR(rrs) = Exact(n, B)
         /\ ReadSnapshot([rrs |-> rrs, serial |-> s]) = Exact(n, B)
<1>1. {} \cup B = B /\ {} \in SUBSET B /\ B \in SUBSET B /\ 0 \in Nat
  OBVIOUS
<1>2. Added(Holding(<<>>, 0, {}), rrs) = Exact(n, {} \cup B)
  BY <1>1, Load
<1>3. Added(Holding(<<>>, s, {}), rrs) = Exact(n, {} \cup B)
  BY <1>1, Load
<1>4. FromAXFR(rrs) = Exact(n, B)
  BY <1>1, <1>2, NoneHolds DEF FromAXFR, Added
<1>5. ReadSnapshot([rrs |-> rrs, serial |-> s])
        = Added([None EXCEPT !.serial = s], rrs)
  BY DEF ReadSnapshot, Added
<1> QED BY <1>1, <1>3, <1>4, <1>5, NoneHolds

-----------------------------------------------------------------------------
(* A whole zone *)

LEMMA SOAFacts ==
  ASSUME NEW n \in Nat
  PROVE  /\ SOA(n) \in Recs /\ SOA(n).type = "SOA" /\ SOA(n).data = n
         /\ <<SOA(n)>> \in Seq(Recs) /\ Range(<<SOA(n)>>) = {SOA(n)}
         /\ Len(<<SOA(n)>>) = 1 /\ <<SOA(n)>>[1] = SOA(n)
<1>1. SOA(n) \in Recs /\ SOA(n).type = "SOA" /\ SOA(n).data = n
  BY DEF Recs, SOA, RR
<1> QED BY <1>1 DEF Range

\* The records of a version without, and with, the SOA that closes an answer.
Version(n, B) == <<SOA(n)>> \o SetToSeq(B)
Closed(n, B)  == Version(n, B) \o <<SOA(n)>>

LEMMA VersionLists ==
  ASSUME NEW B \in Bodies, NEW n \in Nat
  PROVE  Lists(Version(n, B), n, B) /\ Lists(Closed(n, B), n, B)
<1> DEFINE v == Version(n, B)
           b == SetToSeq(B)
           o == <<SOA(n)>>
<1>1. b \in Seq(Recs) /\ Range(b) = B
  BY SetToSeqRange, TransferAssumption DEF Recs
<1>2. o \in Seq(Recs) /\ Range(o) = {SOA(n)}
  BY SOAFacts
<1> HIDE DEF b, o
<1>3. v \in Seq(Recs) /\ Range(v) = {SOA(n)} \cup B
  <2>1. o \o b \in Seq(Recs) /\ Range(o \o b) = Range(o) \cup Range(b)
    BY <1>1, <1>2, ConcatRange
  <2> QED BY <1>1, <1>2, <2>1 DEF Version, b, o
<1> HIDE DEF v
<1>4. v \o o \in Seq(Recs) /\ Range(v \o o) = Range(v) \cup Range(o)
  BY <1>2, <1>3, ConcatRange
<1>5. Range(v \o o) = {SOA(n)} \cup B
  BY <1>2, <1>3, <1>4
<1> QED BY <1>3, <1>4, <1>5 DEF Lists, Closed, v, o

\* Where the records are: one SOA at each end, none between.
LEMMA ClosedShape ==
  ASSUME NEW B \in Bodies, NEW n \in Nat
  PROVE  \E k \in Nat :
           /\ Len(Version(n, B)) = k + 1 /\ Len(Closed(n, B)) = k + 2
           /\ Closed(n, B)[1] = SOA(n) /\ Closed(n, B)[k + 2] = SOA(n)
           /\ \A i \in 2..(k + 1) : Closed(n, B)[i].type # "SOA"
           /\ \A i \in 1..(k + 1) : Closed(n, B)[i] = Version(n, B)[i]
<1> DEFINE b == SetToSeq(B)
           k == Len(b)
           o == SOA(n)
<1>1. b \in Seq(Recs) /\ \A i \in 1..k : b[i] \in B
  BY SetToSeqRange, SetToSeqFacts, TransferAssumption DEF Recs
<1>2. o \in Recs
  BY SOAFacts
<1>3. \A r \in B : r.type # "SOA"
  BY BodyFacts
<1> HIDE DEF b, o
<1>4. k \in Nat
  BY <1>1
<1> DEFINE v == <<o>> \o b
           c == v \o <<o>>
<1>5. /\ v \in Seq(Recs) /\ Len(v) = k + 1 /\ v[1] = o
      /\ \A i \in 2..(k + 1) : v[i] = b[i - 1]
  BY <1>1, <1>2
<1> HIDE DEF v, k
<1>6. /\ Len(c) = k + 2 /\ c[k + 2] = o
      /\ \A i \in 1..(k + 1) : c[i] = v[i]
  BY <1>2, <1>4, <1>5
<1> HIDE DEF c
<1>7. c[1] = o /\ \A i \in 2..(k + 1) : c[i].type # "SOA"
  BY <1>1, <1>3, <1>4, <1>5, <1>6
<1>8. v = Version(n, B) /\ c = Closed(n, B)
  BY Zenon DEF Version, Closed, v, c, b, o
<1> QED BY <1>4, <1>5, <1>6, <1>7, <1>8 DEF o

\* A whole zone is known by its two equal SOA records.
LEMMA ClosedFallback ==
  ASSUME NEW B \in Bodies, NEW n \in Nat
  PROVE  IsFallback(Serials(Closed(n, B)))
<1> DEFINE rrs == Closed(n, B)
           o   == SOA(n)
<1>1. rrs \in Seq(Recs)
  BY VersionLists DEF Lists
<1>2. PICK k \in Nat :
        /\ Len(rrs) = k + 2 /\ rrs[1] = o /\ rrs[k + 2] = o
        /\ \A i \in 2..(k + 1) : rrs[i].type # "SOA"
  BY ClosedShape
<1>3. o.type = "SOA" /\ o \in Recs
  BY SOAFacts
<1> HIDE DEF rrs, o
<1>4. <<>> \in Seq(Recs)
  OBVIOUS
<1>5. PICK f : /\ f[0] = <<>>
               /\ \A i \in 1..Len(rrs) : f[i] = appendSOA(f[i - 1], rrs[i])
               /\ FoldLeft(appendSOA, <<>>, rrs) = f[Len(rrs)]
  BY <1>1, <1>4, SerialsPrefix
<1> DEFINE P == {i \in Nat : f[i] = <<o>>}
<1>6. 1 \in P
  <2>1. 1 \in 1..Len(rrs) /\ 1 - 1 = 0
    BY <1>2
  <2>2. f[1] = Append(<<>>, o)
    BY <1>2, <1>3, <1>5, <2>1 DEF appendSOA
  <2> QED BY <2>2
<1>7. ASSUME NEW i \in (1 + 1)..(k + 1), i - 1 \in P
      PROVE  i \in P
  <2>1. i \in 1..Len(rrs) /\ i \in Nat /\ i \in 2..(k + 1)
    BY <1>2
  <2>2. f[i] = f[i - 1]
    BY <1>2, <1>5, <2>1 DEF appendSOA
  <2> QED BY <1>7, <2>1, <2>2
<1>8. f[k + 1] = <<o>>
  <2>1. \A i \in 1..(k + 1) : i \in P
    <3> HIDE DEF P
    <3>1. 1 \in Nat /\ k + 1 \in Nat
      OBVIOUS
    <3> QED BY <1>6, <1>7, <3>1, UpTo
  <2>2. k + 1 \in 1..(k + 1)
    OBVIOUS
  <2> QED BY <2>1, <2>2
<1>9. f[k + 2] = Append(<<o>>, o)
  <2>1. k + 2 \in 1..Len(rrs) /\ (k + 2) - 1 = k + 1
    BY <1>2
  <2> QED BY <1>2, <1>3, <1>5, <1>8, <2>1 DEF appendSOA
<1>10. Serials(rrs) = Append(<<o>>, o)
  BY <1>2, <1>5, <1>9 DEF Serials
<1>11. Len(Append(<<o>>, o)) = 2 /\ Append(<<o>>, o)[1] = o /\ Append(<<o>>, o)[2] = o
  OBVIOUS
<1>12. IsFallback(Serials(rrs))
  BY <1>10, <1>11 DEF IsFallback
<1> QED BY <1>12 DEF rrs

LEMMA StripClosed ==
  ASSUME NEW B \in Bodies, NEW n \in Nat
  PROVE  stripSOAEnvelope(Closed(n, B)) = Version(n, B)
<1> DEFINE rrs == Closed(n, B)
           v   == Version(n, B)
           closing(i) == i = Len(rrs) /\ i > 1 /\ rrs[i].type = "SOA"
<1>1. rrs \in Seq(Recs) /\ v \in Seq(Recs)
  BY VersionLists DEF Lists
<1>2. PICK k \in Nat :
        /\ Len(v) = k + 1 /\ Len(rrs) = k + 2 /\ rrs[k + 2].type = "SOA"
        /\ \A i \in 1..(k + 1) : rrs[i] = v[i]
  <2>1. SOA(n).type = "SOA"
    BY SOAFacts
  <2>2. PICK k \in Nat :
          /\ Len(v) = k + 1 /\ Len(rrs) = k + 2 /\ rrs[k + 2] = SOA(n)
          /\ \A i \in 1..(k + 1) : rrs[i] = v[i]
    BY ClosedShape
  <2> HIDE DEF rrs, v
  <2> QED BY <2>1, <2>2
<1>3. stripSOAEnvelope(rrs) = [i \in {i \in DOMAIN rrs : ~closing(i)} |-> rrs[i]]
  BY Zenon DEF stripSOAEnvelope
<1> HIDE DEF rrs, v
<1>4. {i \in DOMAIN rrs : ~closing(i)} = 1..(k + 1)
  <2>1. DOMAIN rrs = 1..(k + 2)
    BY <1>1, <1>2
  <2>2. \A i \in 1..(k + 2) : closing(i) <=> i = k + 2
    BY <1>2
  <2> QED BY <2>1, <2>2
<1>5. v = [i \in 1..(k + 1) |-> v[i]]
  BY <1>1, <1>2
<1>6. [i \in 1..(k + 1) |-> rrs[i]] = [i \in 1..(k + 1) |-> v[i]]
  BY <1>2
<1>7. stripSOAEnvelope(rrs) = v
  BY <1>3, <1>4, <1>5, <1>6
<1> QED BY <1>7 DEF rrs, v

LEMMA AllRRsVersion ==
  ASSUME NEW B \in Bodies, NEW n \in Nat
  PROVE  AllRRs(Exact(n, B)) = Version(n, B)
<1>1. Exact(n, B).soas = <<n>> /\ Exact(n, B).rrs = B
  BY DEF Exact, Holding
<1>2. [i \in DOMAIN <<n>> |-> SOA(<<n>>[i])] = <<SOA(n)>>
  OBVIOUS
<1> QED BY <1>1, <1>2, Zenon DEF AllRRs, Version

-----------------------------------------------------------------------------
(* An incremental answer of one changeset *)

\* From version a with body A to version c with body C.
Increment(a, A, c, C) ==
  <<SOA(c)>> \o (<<SOA(a)>> \o SetToSeq(A \ C) \o <<SOA(c)>> \o SetToSeq(C \ A))
    \o <<SOA(c)>>

\* Where its records are: d records to remove after the old SOA, e to add after
\* the second copy of the new one.
IsIncrement(rrs, a, A, c, C, d, e) ==
  /\ rrs \in Seq(Recs) /\ Len(rrs) = d + e + 4
  /\ rrs[1] = SOA(c) /\ rrs[2] = SOA(a) /\ rrs[d + 3] = SOA(c) /\ rrs[d + e + 4] = SOA(c)
  /\ \A i \in 3..(d + 2) : rrs[i] \in A \ C
  /\ \A r \in A \ C : \E i \in 3..(d + 2) : rrs[i] = r
  /\ \A i \in (d + 4)..(d + e + 3) : rrs[i] \in C \ A
  /\ \A r \in C \ A : \E i \in (d + 4)..(d + e + 3) : rrs[i] = r

LEMMA IncrementShape ==
  ASSUME NEW A \in Bodies, NEW C \in Bodies, NEW a \in Nat, NEW c \in Nat
  PROVE  \E d, e \in Nat : IsIncrement(Increment(a, A, c, C), a, A, c, C, d, e)
<1> DEFINE o == SOA(c)
           p == SOA(a)
           R == A \ C
           N == C \ A
           D == SetToSeq(R)
           E == SetToSeq(N)
           d == Len(D)
           e == Len(E)
<1>0. IsFiniteSet(R) /\ IsFiniteSet(N) /\ R \in SUBSET Recs /\ N \in SUBSET Recs
  BY FS_Subset, TransferAssumption DEF Recs
<1>1. o \in Recs /\ p \in Recs
  BY SOAFacts
<1> HIDE DEF o, p, R, N
<1>2. /\ D \in Seq(Recs) /\ \A i \in 1..d : D[i] \in R
      /\ \A r \in R : \E i \in 1..d : D[i] = r
  BY <1>0, SetToSeqRange, SetToSeqFacts
<1>3. /\ E \in Seq(Recs) /\ \A i \in 1..e : E[i] \in N
      /\ \A r \in N : \E i \in 1..e : E[i] = r
  BY <1>0, SetToSeqRange, SetToSeqFacts
<1> HIDE DEF D, E
<1>4. d \in Nat /\ e \in Nat
  BY <1>2, <1>3
<1> DEFINE s1 == <<p>> \o D
           s2 == s1 \o <<o>>
           s3 == s2 \o E
           s4 == <<o>> \o s3
           s5 == s4 \o <<o>>
<1>5. s1 \in Seq(Recs) /\ Len(s1) = d + 1 /\ s1[1] = p /\ \A i \in 1..d : s1[i + 1] = D[i]
  BY <1>1, <1>2
<1> HIDE DEF s1, d, e
<1>6. /\ s2 \in Seq(Recs) /\ Len(s2) = d + 2 /\ s2[d + 2] = o
      /\ \A i \in 1..(d + 1) : s2[i] = s1[i]
  BY <1>1, <1>4, <1>5
<1> HIDE DEF s2
<1>7. /\ s3 \in Seq(Recs) /\ Len(s3) = d + e + 2
      /\ \A i \in 1..(d + 2) : s3[i] = s2[i]
      /\ \A i \in 1..e : s3[d + 2 + i] = E[i]
  <2>1. /\ s3 \in Seq(Recs) /\ Len(s3) = Len(s2) + Len(E)
        /\ \A i \in 1..(Len(s2) + Len(E)) :
             s3[i] = IF i <= Len(s2) THEN s2[i] ELSE E[i - Len(s2)]
    BY <1>3, <1>6
  <2> HIDE DEF s3
  <2>2. \A i \in 1..(d + e + 2) : s3[i] = IF i <= d + 2 THEN s2[i] ELSE E[i - (d + 2)]
    BY <1>4, <1>6, <2>1 DEF e
  <2>3. ASSUME NEW i \in 1..e PROVE s3[d + 2 + i] = E[i]
    <3>1. d + 2 + i \in 1..(d + e + 2) /\ ~(d + 2 + i <= d + 2) /\ (d + 2 + i) - (d + 2) = i
      BY <1>4
    <3> QED BY <2>2, <3>1
  <2> QED BY <1>4, <1>6, <2>1, <2>2, <2>3 DEF e
<1> HIDE DEF s3
<1>8. /\ s4 \in Seq(Recs) /\ Len(s4) = d + e + 3 /\ s4[1] = o
      /\ \A i \in 1..(d + e + 2) : s4[i + 1] = s3[i]
  BY <1>1, <1>4, <1>7
<1> HIDE DEF s4
<1>9. /\ s5 \in Seq(Recs) /\ Len(s5) = d + e + 4 /\ s5[d + e + 4] = o
      /\ \A i \in 1..(d + e + 3) : s5[i] = s4[i]
  BY <1>1, <1>4, <1>8
<1> HIDE DEF s5
<1>10. s5[1] = o /\ s5[2] = p /\ s5[d + 3] = o
  <2>1. s5[1] = o
    BY <1>4, <1>8, <1>9
  <2>2. s5[2] = s4[1 + 1] /\ s4[1 + 1] = s3[1] /\ s3[1] = s2[1] /\ s2[1] = s1[1]
    BY <1>4, <1>6, <1>7, <1>8, <1>9
  <2>3. s5[d + 3] = s4[d + 2 + 1] /\ s4[d + 2 + 1] = s3[d + 2] /\ s3[d + 2] = s2[d + 2]
    BY <1>4, <1>6, <1>7, <1>8, <1>9
  <2> QED BY <1>5, <1>6, <2>1, <2>2, <2>3
<1>11. \A i \in 1..d : s5[i + 2] = D[i]
  <2> TAKE i \in 1..d
  <2>1. /\ i + 2 \in 1..(d + e + 3) /\ i + 1 \in 1..(d + e + 2) /\ i + 1 \in 1..(d + 2)
        /\ i + 1 \in 1..(d + 1) /\ (i + 1) + 1 = i + 2
    BY <1>4
  <2>2. s5[i + 2] = s4[i + 2] /\ s4[(i + 1) + 1] = s3[i + 1] /\ s3[i + 1] = s2[i + 1]
    BY <1>7, <1>8, <1>9, <2>1
  <2> QED BY <1>5, <1>6, <2>1, <2>2
<1>12. \A i \in 1..e : s5[d + 3 + i] = E[i]
  <2> TAKE i \in 1..e
  <2>1. /\ d + 3 + i \in 1..(d + e + 3) /\ d + 2 + i \in 1..(d + e + 2)
        /\ (d + 2 + i) + 1 = d + 3 + i
    BY <1>4
  <2>2. s5[d + 3 + i] = s4[d + 3 + i] /\ s4[(d + 2 + i) + 1] = s3[d + 2 + i]
    BY <1>8, <1>9, <2>1
  <2> QED BY <1>7, <2>1, <2>2
<1>13. /\ \A i \in 3..(d + 2) : s5[i] \in R
       /\ \A r \in R : \E i \in 3..(d + 2) : s5[i] = r
  <2>1. ASSUME NEW i \in 3..(d + 2) PROVE s5[i] \in R
    <3>1. i - 2 \in 1..d /\ (i - 2) + 2 = i
      BY <1>4
    <3> QED BY <1>2, <1>11, <3>1 DEF d
  <2>2. ASSUME NEW r \in R PROVE \E i \in 3..(d + 2) : s5[i] = r
    <3>1. PICK i \in 1..d : D[i] = r
      BY <1>2 DEF d
    <3>2. i + 2 \in 3..(d + 2) /\ s5[i + 2] = r
      BY <1>4, <1>11, <3>1
    <3> QED BY <3>2
  <2> QED BY <2>1, <2>2
<1>14. /\ \A i \in (d + 4)..(d + e + 3) : s5[i] \in N
       /\ \A r \in N : \E i \in (d + 4)..(d + e + 3) : s5[i] = r
  <2>1. ASSUME NEW i \in (d + 4)..(d + e + 3) PROVE s5[i] \in N
    <3>1. i - d - 3 \in 1..e /\ d + 3 + (i - d - 3) = i
      BY <1>4
    <3>2. s5[i] = E[i - d - 3]
      BY <1>12, <3>1
    <3> QED BY <1>3, <3>1, <3>2 DEF e
  <2>2. ASSUME NEW r \in N PROVE \E i \in (d + 4)..(d + e + 3) : s5[i] = r
    <3>1. PICK i \in 1..e : E[i] = r
      BY <1>3 DEF e
    <3>2. d + 3 + i \in (d + 4)..(d + e + 3) /\ s5[d + 3 + i] = r
      BY <1>4, <1>12, <3>1
    <3> QED BY <3>2
  <2> QED BY <2>1, <2>2
<1>15. s5 = Increment(a, A, c, C)
  BY Zenon DEF Increment, s1, s2, s3, s4, s5, D, E, R, N, o, p
<1>16. IsIncrement(s5, a, A, c, C, d, e)
  BY <1>9, <1>10, <1>13, <1>14 DEF IsIncrement, R, N, o, p
<1> QED BY <1>4, <1>15, <1>16

\* The first two SOA records of an increment are those of two versions: it is
\* no whole zone, and not empty.
LEMMA IncrementSerials ==
  ASSUME NEW A, NEW C, NEW a \in Nat, NEW c \in Nat, a # c, NEW d \in Nat, NEW e \in Nat,
         NEW rrs, IsIncrement(rrs, a, A, c, C, d, e)
  PROVE  /\ ~IsFallback(Serials(rrs))
         /\ Head(Serials(rrs)).data = c
<1> DEFINE o == SOA(c)
           p == SOA(a)
<1>1. /\ rrs \in Seq(Recs) /\ Len(rrs) = d + e + 4 /\ rrs[1] = o /\ rrs[2] = p
      /\ \A i \in 1..Len(rrs) : rrs[i] \in Recs
  BY DEF IsIncrement
<1>2. /\ o \in Recs /\ p \in Recs /\ o.type = "SOA" /\ p.type = "SOA"
      /\ o.data = c /\ o # p
  BY SOAFacts
<1> HIDE DEF o, p
<1>3. <<>> \in Seq(Recs)
  OBVIOUS
<1>4. PICK f : /\ f[0] = <<>>
               /\ \A i \in 1..Len(rrs) : f[i] = appendSOA(f[i - 1], rrs[i])
               /\ FoldLeft(appendSOA, <<>>, rrs) = f[Len(rrs)]
  BY <1>1, <1>3, SerialsPrefix
<1> DEFINE Good(s) == s \in Seq(Recs) /\ Len(s) >= 2 /\ s[1] = o /\ s[2] = p
           P == {i \in Nat : Good(f[i])}
<1>5. 2 \in P
  <2>1. 1 \in 1..Len(rrs) /\ 2 \in 1..Len(rrs) /\ 1 - 1 = 0 /\ 2 - 1 = 1
    BY <1>1
  <2>2. f[1] = Append(<<>>, o)
    BY <1>1, <1>2, <1>4, <2>1 DEF appendSOA
  <2>3. f[2] = Append(f[1], p)
    BY <1>1, <1>2, <1>4, <2>1 DEF appendSOA
  <2>4. f[1] = <<o>>
    BY <2>2
  <2>5. Good(Append(<<o>>, p))
    BY <1>2
  <2> QED BY <2>3, <2>4, <2>5
<1>6. ASSUME NEW i \in (2 + 1)..Len(rrs), i - 1 \in P
      PROVE  i \in P
  <2>1. i \in 1..Len(rrs) /\ i \in Nat
    BY <1>1
  <2>2. Good(f[i - 1])
    BY <1>6
  <2>3. CASE rrs[i].type = "SOA"
    <3>1. f[i] = Append(f[i - 1], rrs[i]) /\ rrs[i] \in Recs
      BY <1>1, <1>4, <2>1, <2>3 DEF appendSOA
    <3>2. Good(f[i])
      BY <2>2, <3>1
    <3> QED BY <2>1, <3>2
  <2>4. CASE rrs[i].type # "SOA"
    <3>1. f[i] = f[i - 1]
      BY <1>4, <2>1, <2>4 DEF appendSOA
    <3> QED BY <2>1, <2>2, <3>1
  <2> QED BY <2>3, <2>4
<1>7. Len(rrs) \in P
  <2>1. Len(rrs) \in Nat /\ 2 \in Nat /\ Len(rrs) \in 2..Len(rrs)
    BY <1>1
  <2> HIDE DEF P
  <2>2. \A i \in 2..Len(rrs) : i \in P
    BY <1>5, <1>6, <2>1, UpTo
  <2> QED BY <2>1, <2>2
<1>8. Good(Serials(rrs))
  BY <1>4, <1>7 DEF Serials
<1> QED BY <1>2, <1>8 DEF IsFallback

\* The walk removes the old SOA and the records that left, and adds the new SOA
\* and the records that came.
LEMMA IncrementWalk ==
  ASSUME NEW A \in Bodies, NEW C \in Bodies, NEW a \in Nat, NEW c \in Nat, a # c,
         NEW d \in Nat, NEW e \in Nat, NEW rrs, IsIncrement(rrs, a, A, c, C, d, e)
  PROVE  /\ Lists(parseIXFR(rrs, a).removes, a, A \ C)
         /\ Lists(parseIXFR(rrs, a).adds, c, C \ A)
<1> DEFINE o == SOA(c)
           p == SOA(a)
           start == [mode |-> 0, adds |-> <<>>, removes |-> <<>>]
<1>1. /\ rrs \in Seq(Recs) /\ Len(rrs) = d + e + 4
      /\ rrs[1] = o /\ rrs[2] = p /\ rrs[d + 3] = o /\ rrs[d + e + 4] = o
      /\ \A i \in 3..(d + 2) : rrs[i] \in A \ C
      /\ \A r \in A \ C : \E i \in 3..(d + 2) : rrs[i] = r
      /\ \A i \in (d + 4)..(d + e + 3) : rrs[i] \in C \ A
      /\ \A r \in C \ A : \E i \in (d + 4)..(d + e + 3) : rrs[i] = r
  BY DEF IsIncrement
<1>2. /\ o \in Recs /\ o.type = "SOA" /\ p \in Recs /\ p.type = "SOA" /\ o # p
      /\ \A r \in A \cup C : r.type # "SOA"
      /\ \A i \in 1..Len(rrs) : rrs[i] \in Recs
  <2>1. o \in Recs /\ o.type = "SOA" /\ p \in Recs /\ p.type = "SOA" /\ o # p
    BY SOAFacts
  <2>2. \A r \in A \cup C : r.type # "SOA"
    BY BodyFacts
  <2>3. \A i \in 1..Len(rrs) : rrs[i] \in Recs
    BY <1>1
  <2> QED BY <2>1, <2>2, <2>3
<1> HIDE DEF o, p
<1>3. parseIXFR(rrs, a) = Walked(c, start, rrs)
  <2> DEFINE n == Head(Serials(rrs)).data
  <2>1. n = c
    BY IncrementSerials
  <2>2. n # a => parseIXFR(rrs, a) = Walked(n, start, rrs)
    BY Zenon DEF parseIXFR, Walked
  <2> HIDE DEF n
  <2> QED BY <2>1, <2>2
<1>4. start \in Walks /\ Range(<<>>) = {} /\ <<>> \in Seq(Recs)
  BY DEF Walks, Range
<1>5. PICK f : /\ f[0] = start
               /\ \A i \in 1..Len(rrs) : f[i] = Walk(c, f[i - 1], rrs[i])
               /\ Walked(c, start, rrs) = f[Len(rrs)]
  <2> HIDE DEF start
  <2>1. start \in Walks /\ rrs \in Seq(Recs) /\ c \in Nat
    BY <1>1, <1>4
  <2> QED BY ONLY <2>1, WalkPrefix
<1>6. f[1] \in Walks /\ f[1].mode = 1 /\ f[1].adds = <<>> /\ f[1].removes = <<>>
  <2>1. 1 \in 1..Len(rrs) /\ 1 - 1 = 0
    BY <1>1
  <2>2. f[1] = Walk(c, start, o)
    <3> HIDE DEF start
    <3> QED BY <1>1, <1>5, <2>1
  <2>3. Walk(c, start, o) = [start EXCEPT !.mode = 1]
    BY <1>2 DEF Walk
  <2> QED BY <1>4, <2>2, <2>3 DEF Walks
<1> HIDE DEF start
<1> DEFINE Part(lo, hi) == {rrs[i] : i \in lo..hi}
           Deleting == {i \in Nat : /\ f[i] \in Walks /\ f[i].mode = 1 /\ f[i].adds = <<>>
                                    /\ Range(f[i].removes) = Part(2, i)}
           R == Part(2, d + 2)
           Adding == {i \in Nat : /\ f[i] \in Walks /\ f[i].mode = 2
                                  /\ Range(f[i].removes) = R
                                  /\ Range(f[i].adds) = Part(d + 3, i)}
<1>7. ASSUME NEW lo \in Nat, NEW i \in Nat, lo <= i
      PROVE  Part(lo, i) = Part(lo, i - 1) \cup {rrs[i]}
  <2>1. \A j : j \in lo..i <=> j \in lo..(i - 1) \/ j = i
    BY <1>7
  <2> QED BY <2>1
<1>8. 1 \in Deleting
  <2>1. \A i : i \notin 2..1
    OBVIOUS
  <2>2. Part(2, 1) = {}
    BY <2>1
  <2> HIDE DEF Part
  <2> QED BY <1>4, <1>6, <2>2
<1>9. ASSUME NEW i \in (1 + 1)..(d + 2), i - 1 \in Deleting
      PROVE  i \in Deleting
  <2> DEFINE w == f[i - 1]
             r == rrs[i]
  <2>1. i \in 1..Len(rrs) /\ i \in Nat /\ 2 <= i /\ 2 \in Nat /\ (i = 2 \/ i \in 3..(d + 2))
    BY <1>1
  <2>2. r \in Recs /\ r # SOA(c)
    BY <1>1, <1>2, <2>1 DEF o
  <2>3. f[i] = Walk(c, w, r)
    BY <1>5, <2>1
  <2>4. Part(2, i) = Part(2, i - 1) \cup {r}
    BY <1>7, <2>1
  <2> HIDE DEF r, Part
  <2>5. /\ w \in Walks /\ w.mode = 1 /\ w.adds = <<>> /\ Range(w.removes) = Part(2, i - 1)
        /\ w.removes \in Seq(Recs)
    BY <1>9 DEF Walks
  <2> HIDE DEF w
  <2>6. Walk(c, w, r) = [w EXCEPT !.removes = Append(@, r)]
    BY <2>2, <2>5 DEF Walk
  <2>7. /\ Append(w.removes, r) \in Seq(Recs)
        /\ Range(Append(w.removes, r)) = Part(2, i)
    BY <2>2, <2>4, <2>5, AppendRange
  <2>8. /\ f[i] \in Walks /\ f[i].mode = 1 /\ f[i].adds = <<>>
        /\ f[i].removes = Append(w.removes, r)
    BY <2>3, <2>5, <2>6, <2>7 DEF Walks
  <2> QED BY <2>1, <2>7, <2>8
<1>10. d + 2 \in Deleting
  <2>1. d + 2 \in Nat /\ 1 \in Nat /\ d + 2 \in 1..(d + 2)
    OBVIOUS
  <2> HIDE DEF Deleting
  <2>2. \A i \in 1..(d + 2) : i \in Deleting
    BY <1>8, <1>9, <2>1, UpTo
  <2> QED BY <2>1, <2>2
<1>11. d + 3 \in Adding
  <2> DEFINE w == f[d + 2]
  <2>1. d + 3 \in 1..Len(rrs) /\ (d + 3) - 1 = d + 2 /\ d + 3 \in Nat
    BY <1>1
  <2>2. f[d + 3] = Walk(c, w, SOA(c))
    BY <1>1, <1>5, <2>1 DEF o
  <2>3. Part(d + 3, d + 3) = {SOA(c)}
    <3>1. \A j : j \in (d + 3)..(d + 3) <=> j = d + 3
      OBVIOUS
    <3> QED BY <1>1, <3>1 DEF o
  <2> HIDE DEF Part
  <2>4. w \in Walks /\ w.mode = 1 /\ w.adds = <<>> /\ Range(w.removes) = R
    BY <1>10
  <2> HIDE DEF w, R
  <2>5. Walk(c, w, SOA(c)) = [w EXCEPT !.mode = 2, !.adds = Append(@, SOA(c))]
    BY <2>4 DEF Walk
  <2>6. /\ Append(<<>>, SOA(c)) \in Seq(Recs)
        /\ Range(Append(<<>>, SOA(c))) = {} \cup {SOA(c)}
    BY <1>2, <1>4, AppendRange DEF o
  <2>7. /\ f[d + 3] \in Walks /\ f[d + 3].mode = 2
        /\ f[d + 3].adds = Append(<<>>, SOA(c)) /\ f[d + 3].removes = w.removes
    BY <2>2, <2>4, <2>5, <2>6 DEF Walks
  <2> QED BY <2>1, <2>3, <2>4, <2>6, <2>7
<1>12. ASSUME NEW i \in ((d + 3) + 1)..(d + e + 3), i - 1 \in Adding
       PROVE  i \in Adding
  <2> DEFINE w == f[i - 1]
             r == rrs[i]
  <2>1. /\ i \in 1..Len(rrs) /\ i \in Nat /\ d + 3 <= i /\ d + 3 \in Nat
        /\ i \in (d + 4)..(d + e + 3)
    BY <1>1
  <2>2. r \in Recs /\ r.type # "SOA" /\ r # SOA(c)
    BY <1>1, <1>2, <2>1 DEF o
  <2>3. f[i] = Walk(c, w, r)
    BY <1>5, <2>1
  <2>4. Part(d + 3, i) = Part(d + 3, i - 1) \cup {r}
    BY <1>7, <2>1
  <2> HIDE DEF r, Part, R
  <2>5. /\ w \in Walks /\ w.mode = 2 /\ Range(w.removes) = R
        /\ Range(w.adds) = Part(d + 3, i - 1) /\ w.adds \in Seq(Recs)
    BY <1>12 DEF Walks
  <2> HIDE DEF w
  <2>6. Walk(c, w, r) = [w EXCEPT !.adds = Append(@, r)]
    BY <2>2, <2>5 DEF Walk
  <2>7. /\ Append(w.adds, r) \in Seq(Recs)
        /\ Range(Append(w.adds, r)) = Part(d + 3, i)
    BY <2>2, <2>4, <2>5, AppendRange
  <2>8. /\ f[i] \in Walks /\ f[i].mode = 2 /\ f[i].removes = w.removes
        /\ f[i].adds = Append(w.adds, r)
    BY <2>3, <2>5, <2>6, <2>7 DEF Walks
  <2> QED BY <2>1, <2>5, <2>7, <2>8
<1>13. d + e + 3 \in Adding
  <2>1. d + 3 \in Nat /\ d + e + 3 \in Nat /\ d + e + 3 \in (d + 3)..(d + e + 3)
    OBVIOUS
  <2> HIDE DEF Adding
  <2>2. \A i \in (d + 3)..(d + e + 3) : i \in Adding
    BY <1>11, <1>12, <2>1, UpTo
  <2> QED BY <2>1, <2>2
<1>14. f[Len(rrs)] = f[d + e + 3]
  <2>1. d + e + 4 \in 1..Len(rrs) /\ (d + e + 4) - 1 = d + e + 3
    BY <1>1
  <2>2. f[d + e + 4] = Walk(c, f[d + e + 3], SOA(c))
    BY <1>1, <1>5, <2>1 DEF o
  <2> HIDE DEF Part, R
  <2>3. f[d + e + 3].mode = 2
    BY <1>13
  <2>4. Walk(c, f[d + e + 3], SOA(c)) = f[d + e + 3]
    BY <1>2, <2>3 DEF Walk, o
  <2> QED BY <1>1, <2>2, <2>4
<1>15. R = {p} \cup (A \ C)
  <2>1. \A i : i \in 2..(d + 2) <=> i = 2 \/ i \in 3..(d + 2)
    OBVIOUS
  <2> QED BY <1>1, <2>1
<1>16. Part(d + 3, d + e + 3) = {o} \cup (C \ A)
  <2>1. \A i : i \in (d + 3)..(d + e + 3) <=> i = d + 3 \/ i \in (d + 4)..(d + e + 3)
    OBVIOUS
  <2> QED BY <1>1, <2>1
<1> DEFINE w == f[d + e + 3]
<1>17. /\ w.removes \in Seq(Recs) /\ Range(w.removes) = {p} \cup (A \ C)
       /\ w.adds \in Seq(Recs) /\ Range(w.adds) = {o} \cup (C \ A)
  <2> HIDE DEF Part, R
  <2> QED BY <1>13, <1>15, <1>16 DEF Walks
<1>18. parseIXFR(rrs, a) = w
  BY <1>3, <1>5, <1>14
<1> QED BY <1>17, <1>18 DEF Lists, o, p

\* Applied to the version it starts from, an increment gives the one it leads to.
LEMMA IncrementApplied ==
  ASSUME NEW A \in Bodies, NEW C \in Bodies, NEW a \in Nat, NEW c \in Nat, a # c
  PROVE  ApplyAnswer(Exact(a, A), Increment(a, A, c, C)) = Exact(c, C)
<1> DEFINE rrs == Increment(a, A, c, C)
           w   == parseIXFR(rrs, a)
<1>1. PICK d, e \in Nat : IsIncrement(rrs, a, A, c, C, d, e)
  BY IncrementShape
<1> HIDE DEF rrs
<1>2. ~IsFallback(Serials(rrs))
  BY <1>1, IncrementSerials
<1>3. Lists(w.removes, a, A \ C) /\ Lists(w.adds, c, C \ A)
  BY <1>1, IncrementWalk
<1>4. Exact(a, A).serial = a
  BY DEF Exact, Holding
<1>5. ApplyAnswer(Exact(a, A), rrs) = Added(Removed(Exact(a, A), w.removes), w.adds)
  BY <1>2, <1>4, Zenon DEF ApplyAnswer, ApplyChanges, Added, Removed
<1> HIDE DEF w
<1> DEFINE K == A \ (A \ C)
<1>6. Removed(Exact(a, A), w.removes) = Holding(<<>>, a, K)
  <2>1. A \ C \in SUBSET A
    OBVIOUS
  <2> QED BY <1>3, <2>1, Unload
<1>7. K \in SUBSET C /\ C \ A \in SUBSET C /\ K \cup (C \ A) = C
  OBVIOUS
<1> HIDE DEF K
<1>8. Added(Holding(<<>>, a, K), w.adds) = Exact(c, K \cup (C \ A))
  BY <1>3, <1>7, Load
<1> QED BY <1>5, <1>6, <1>7, <1>8 DEF rrs

LEMMA FlattenOne ==
  ASSUME NEW s
  PROVE  FlattenSeq(<<s>>) = s
<1> DEFINE Eq(f) == f = [i \in 1..Len(<<s>>) |->
                           IF i = 1 THEN <<s>>[i] ELSE f[i - 1] \o <<s>>[i]]
           flatten == CHOOSE f : Eq(f)
<1>1. Len(<<s>>) = 1 /\ <<s>>[1] = s
  OBVIOUS
<1>2. FlattenSeq(<<s>>) = IF Len(<<s>>) = 0 THEN <<s>> ELSE flatten[Len(<<s>>)]
  BY Zenon DEF FlattenSeq
<1>3. Eq([i \in 1..1 |-> s])
  OBVIOUS
<1>4. Eq(flatten)
  <2> HIDE DEF Eq
  <2> QED BY <1>3
<1> HIDE DEF flatten
<1>5. flatten[1] = s
  BY <1>1, <1>4
<1> QED BY <1>1, <1>2, <1>5
-----------------------------------------------------------------------------
(* The invariant *)

\* The store is a published version, or none; so are the records of a snapshot
\* being written and of the one on disk, whatever serial its header has.
PublishedSeq   == published \in Seq(Bodies) /\ published # <<>>
StoreVersion   == \/ store = None
                  \/ \E n \in DOMAIN published : store = Exact(n, published[n])
ReadingVersion == \/ reading = <<>>
                  \/ \E n \in DOMAIN published : reading = Version(n, published[n])
FileVersion    == \/ snapshot = NoSnapshot
                  \/ \E n \in DOMAIN published : \E s \in Nat :
                       snapshot = [rrs |-> Version(n, published[n]), serial |-> s]

TransferInv == PublishedSeq /\ StoreVersion /\ ReadingVersion /\ FileVersion

LEMMA InitTransferInv ==
  Init => TransferInv
<1> SUFFICES ASSUME Init PROVE TransferInv
  OBVIOUS
<1>1. PICK B \in Bodies : published = <<B>>
  BY DEF Init
<1>2. PublishedSeq
  BY <1>1 DEF PublishedSeq
<1> QED BY <1>2 DEF Init, TransferInv, StoreVersion, ReadingVersion, FileVersion

\* Every version published so far has a body and a positive serial.
LEMMA VersionFacts ==
  ASSUME PublishedSeq, NEW n \in DOMAIN published
  PROVE  n \in Nat /\ n # 0 /\ n <= Current /\ published[n] \in Bodies
  BY DEF PublishedSeq, Current

LEMMA CurrentFacts ==
  ASSUME PublishedSeq
  PROVE  Current \in DOMAIN published /\ WholeZone = Closed(Current, published[Current])
<1>1. Current \in DOMAIN published
  BY DEF PublishedSeq, Current
<1>2. WholeZone = Closed(Current, published[Current])
  BY Zenon DEF WholeZone, Closed, Version, Body
<1> QED BY <1>1, <1>2

LEMMA NoneRead ==
  ASSUME PublishedSeq
  PROVE  ReadSnapshot(NoSnapshot) = None
<1>1. PICK C : C \in Bodies
  BY CurrentFacts, VersionFacts
<1> DEFINE h == Holding(<<>>, 0, {})
<1>2. h \in Stores
  <2>1. {} \in SUBSET C /\ 0 \in Nat
    OBVIOUS
  <2>2. h \in Short
    BY <1>1, <2>1, HoldingShort
  <2> HIDE DEF h
  <2> QED BY <2>2 DEF Short
<1>3. ReadSnapshot(NoSnapshot) = Added([None EXCEPT !.serial = 0], <<>>)
  <2>1. NoSnapshot.rrs = <<>> /\ NoSnapshot.serial = 0
    BY DEF NoSnapshot
  <2> QED BY <2>1, Zenon DEF ReadSnapshot, Added
<1>4. [None EXCEPT !.serial = 0] = h /\ None = h
  BY NoneHolds, Zenon
<1> HIDE DEF h
<1> DEFINE none == <<>>
<1>5. none \in Seq(Recs) /\ Len(none) = 0
  OBVIOUS
<1> HIDE DEF none
<1>6. Added(h, none) = h
  <2>1. PICK f : /\ f[0] = h
                 /\ \A i \in 1..Len(none) : f[i] = addRR(f[i - 1], none[i])
                 /\ FoldLeft(addRR, h, none) = f[Len(none)]
    BY ONLY <1>2, <1>5, AddPrefix
  <2> QED BY <1>5, <2>1 DEF Added
<1> QED BY <1>3, <1>4, <1>6 DEF none

\* A server that answers with one changeset at most brings the store from a
\* version to the current one.
LEMMA AnswerApplied ==
  ASSUME ~ManyChangesets, PublishedSeq,
         NEW n \in DOMAIN published, n # Current,
         NEW rrs \in Answers(n)
  PROVE  ApplyAnswer(Exact(n, published[n]), rrs) = Exact(Current, published[Current])
<1> DEFINE c == Current
           A == published[n]
           C == published[c]
<1>1. n \in Nat /\ c \in Nat /\ n < c /\ A \in Bodies /\ C \in Bodies
  BY CurrentFacts, VersionFacts
<1>2. rrs = WholeZone \/ rrs = Answer(<<Changeset(n, c)>>)
  <2>1. ~(n >= Current)
    BY <1>1
  <2> QED BY <2>1 DEF Answers
<1>3. CASE rrs = WholeZone
  <2>1. rrs = Closed(c, C)
    BY <1>3, CurrentFacts
  <2> HIDE DEF c, A, C
  <2>2. ApplyAnswer(Exact(n, A), rrs) = FromAXFR(Version(c, C))
    BY <1>1, <2>1, ClosedFallback, StripClosed DEF ApplyAnswer
  <2>3. Lists(Version(c, C), c, C)
    BY <1>1, VersionLists
  <2>4. FromAXFR(Version(c, C)) = Exact(c, C)
    BY <1>1, <2>3, LoadWhole
  <2> QED BY <2>2, <2>4 DEF c, A, C
<1>4. CASE rrs = Answer(<<Changeset(n, c)>>)
  <2>1. rrs = Increment(n, A, c, C)
    <3>1. FlattenSeq(<<Changeset(n, c)>>) = Changeset(n, c)
      BY FlattenOne, Zenon
    <3>2. Answer(<<Changeset(n, c)>>) = <<SOA(c)>> \o Changeset(n, c) \o <<SOA(c)>>
      BY <3>1, Zenon DEF Answer
    <3> QED BY <1>4, <3>2, Zenon DEF Changeset, Increment, Body
  <2> HIDE DEF c, A, C
  <2>2. n # c
    BY <1>1
  <2>3. ApplyAnswer(Exact(n, A), Increment(n, A, c, C)) = Exact(c, C)
    BY <1>1, <2>2, IncrementApplied
  <2> QED BY <2>1, <2>3 DEF c, A, C
<1> QED BY <1>2, <1>3, <1>4

\* Versions stay when another one is published.
LEMMA PublishStep ==
  ASSUME TransferInv, Publish
  PROVE  TransferInv'
<1>1. PICK B \in Bodies : published' = Append(published, B)
  BY DEF Publish
<1>2. PublishedSeq'
  BY <1>1 DEF TransferInv, PublishedSeq
<1>3. \A n \in DOMAIN published : n \in DOMAIN published' /\ published'[n] = published[n]
  BY <1>1 DEF TransferInv, PublishedSeq
<1>4. store' = store /\ reading' = reading /\ snapshot' = snapshot
  BY DEF Publish
<1>5. StoreVersion'
  BY <1>3, <1>4 DEF TransferInv, StoreVersion
<1>6. ReadingVersion'
  BY <1>3, <1>4 DEF TransferInv, ReadingVersion
<1>7. FileVersion'
  BY <1>3, <1>4 DEF TransferInv, FileVersion
<1> QED BY <1>2, <1>5, <1>6, <1>7 DEF TransferInv

\* A step that leaves the versions alone and takes the store to a version.
LEMMA StoreStep ==
  ASSUME TransferInv, UNCHANGED <<published, reading, snapshot>>,
         NEW n \in DOMAIN published, store' = Exact(n, published[n])
  PROVE  TransferInv'
  BY DEF TransferInv, PublishedSeq, StoreVersion, ReadingVersion, FileVersion

LEMMA AXFRStep ==
  ASSUME TransferInv, AXFR
  PROVE  TransferInv'
<1> DEFINE c == Current
<1>1. PublishedSeq
  BY DEF TransferInv
<1>2. c \in DOMAIN published /\ c \in Nat /\ published[c] \in Bodies
  BY <1>1, CurrentFacts, VersionFacts
<1>3. store' = FromAXFR(Closed(c, published[c]))
  BY <1>1, CurrentFacts DEF AXFR
<1> HIDE DEF c
<1>4. Lists(Closed(c, published[c]), c, published[c])
  BY <1>2, VersionLists
<1>5. store' = Exact(c, published[c])
  BY <1>2, <1>3, <1>4, LoadWhole
<1>6. UNCHANGED <<published, reading, snapshot>>
  BY DEF AXFR
<1> QED BY <1>2, <1>5, <1>6, StoreStep

LEMMA IXFRStep ==
  ASSUME ~ManyChangesets, TransferInv, IXFR
  PROVE  TransferInv'
<1>1. PublishedSeq
  BY DEF TransferInv
<1>2. PICK rrs \in Answers(store.serial) : store' = ApplyAnswer(store, rrs)
  BY DEF IXFR
<1>3. store # None
  BY DEF IXFR, None
<1>4. PICK n \in DOMAIN published : store = Exact(n, published[n])
  BY <1>3 DEF TransferInv, StoreVersion
<1>5. store.serial = n /\ n # Current
  BY <1>4 DEF IXFR, Exact, Holding
<1>6. store' = Exact(Current, published[Current])
  BY <1>1, <1>2, <1>4, <1>5, AnswerApplied
<1>7. UNCHANGED <<published, reading, snapshot>> /\ Current \in DOMAIN published
  BY <1>1, CurrentFacts DEF IXFR
<1> QED BY <1>6, <1>7, StoreStep

LEMMA SnapshotRecordsStep ==
  ASSUME TransferInv, SnapshotRecords
  PROVE  TransferInv'
<1>1. PublishedSeq
  BY DEF TransferInv
<1>2. PICK n \in DOMAIN published : store = Exact(n, published[n])
  BY DEF TransferInv, StoreVersion, SnapshotRecords
<1>3. reading' = Version(n, published[n])
  BY <1>1, <1>2, VersionFacts, AllRRsVersion DEF SnapshotRecords
<1> QED BY <1>3 DEF SnapshotRecords, TransferInv, PublishedSeq, StoreVersion,
                    ReadingVersion, FileVersion

\* The serial of the header may be that of a later version than the records.
LEMMA SnapshotSerialStep ==
  ASSUME TransferInv, SnapshotSerial
  PROVE  TransferInv'
<1>1. PublishedSeq
  BY DEF TransferInv
<1>2. PICK n \in DOMAIN published : reading = Version(n, published[n])
  BY DEF TransferInv, ReadingVersion, SnapshotSerial
<1>3. store.serial \in Nat
  <2>1. CASE store = None
    BY <2>1 DEF None
  <2>2. CASE store # None
    <3>1. PICK m \in DOMAIN published : store = Exact(m, published[m])
      BY <2>2 DEF TransferInv, StoreVersion
    <3>2. store.serial = m
      BY <3>1 DEF Exact, Holding
    <3> QED BY <1>1, <3>2, VersionFacts
  <2> QED BY <2>1, <2>2
<1>4. snapshot' = [rrs |-> Version(n, published[n]), serial |-> store.serial]
  BY <1>2 DEF SnapshotSerial
<1>5. FileVersion'
  BY <1>3, <1>4 DEF SnapshotSerial, FileVersion
<1> QED BY <1>5 DEF SnapshotSerial, TransferInv, PublishedSeq, StoreVersion,
                    ReadingVersion

\* What a snapshot is read back as.
LEMMA SnapshotRead ==
  ASSUME TransferInv, snapshot # NoSnapshot
  PROVE  \E n \in DOMAIN published : ReadSnapshot(snapshot) = Exact(n, published[n])
<1>1. PublishedSeq
  BY DEF TransferInv
<1>2. PICK n \in DOMAIN published : \E s \in Nat :
        snapshot = [rrs |-> Version(n, published[n]), serial |-> s]
  BY DEF TransferInv, FileVersion
<1>3. n \in Nat /\ published[n] \in Bodies
  BY <1>1, VersionFacts
<1>4. Lists(Version(n, published[n]), n, published[n])
  BY <1>3, VersionLists
<1>5. ReadSnapshot(snapshot) = Exact(n, published[n])
  BY <1>2, <1>3, <1>4, LoadWhole
<1> QED BY <1>5

LEMMA RestartStep ==
  ASSUME TransferInv, Restart
  PROVE  TransferInv'
<1>1. PublishedSeq
  BY DEF TransferInv
<1>2. CASE snapshot = NoSnapshot
  <2>1. store' = None
    BY <1>1, <1>2, NoneRead DEF Restart
  <2> QED BY <2>1 DEF Restart, TransferInv, PublishedSeq, StoreVersion,
                      ReadingVersion, FileVersion
<1>3. CASE snapshot # NoSnapshot
  <2>1. PICK n \in DOMAIN published : store' = Exact(n, published[n])
    BY <1>3, SnapshotRead DEF Restart
  <2> QED BY <2>1 DEF Restart, TransferInv, PublishedSeq, StoreVersion,
                      ReadingVersion, FileVersion
<1> QED BY <1>2, <1>3

\* Through any sequence of versions published, transfers, snapshots and restarts,
\* store, snapshot being written and snapshot on disk are each one version.
THEOREM TransferInvariant ==
  ASSUME ~ManyChangesets
  PROVE  Spec => []TransferInv
<1>1. TransferInv /\ [Next]_vars => TransferInv'
  <2> SUFFICES ASSUME TransferInv, [Next]_vars PROVE TransferInv'
    OBVIOUS
  <2>1. CASE Publish
    BY <2>1, PublishStep
  <2>2. CASE AXFR
    BY <2>2, AXFRStep
  <2>3. CASE IXFR
    BY <2>3, IXFRStep
  <2>4. CASE SnapshotRecords
    BY <2>4, SnapshotRecordsStep
  <2>5. CASE SnapshotSerial
    BY <2>5, SnapshotSerialStep
  <2>6. CASE Restart
    BY <2>6, RestartStep
  <2>7. CASE UNCHANGED vars
    BY <2>7 DEF vars, TransferInv, PublishedSeq, StoreVersion, ReadingVersion, FileVersion
  <2> QED BY <2>1, <2>2, <2>3, <2>4, <2>5, <2>6, <2>7 DEF Next
<1> QED BY <1>1, InitTransferInv, PTL DEF Spec

\* The store holds exactly the records of the version whose serial it reports,
\* after transfers of either kind and restarts (Client.IXFR, ApplyChanges,
\* ReadSnapshot), if no answer has more than one changeset.
THEOREM StoreExactHolds ==
  ASSUME ~ManyChangesets
  PROVE  Spec => []StoreExact
<1>1. TransferInv => StoreExact
  <2> SUFFICES ASSUME TransferInv, store # None PROVE StoreExact
    BY DEF StoreExact
  <2>1. PICK n \in DOMAIN published : store = Exact(n, published[n])
    BY DEF TransferInv, StoreVersion
  <2> QED BY <2>1 DEF StoreExact, Exact, Holding
<1> QED BY <1>1, TransferInvariant, PTL

\* The NSEC3 and expiry indexes list exactly the NSEC3 and RRSIG records held
\* (indexRR, deindexRR), under the same restriction.
THEOREM IndexExactHolds ==
  ASSUME ~ManyChangesets
  PROVE  Spec => []IndexExact
<1>1. TransferInv => IndexExact
  <2> SUFFICES ASSUME TransferInv PROVE IndexExact
    OBVIOUS
  <2>1. CASE store = None
    BY <2>1 DEF IndexExact, None
  <2>2. CASE store # None
    <3>1. PICK n \in DOMAIN published : store = Exact(n, published[n])
      BY <2>2 DEF TransferInv, StoreVersion
    <3> QED BY <3>1 DEF IndexExact, Exact, Holding, NSEC3s, Sigs
  <2> QED BY <2>1, <2>2
<1> QED BY <1>1, TransferInvariant, PTL

\* A snapshot whose records and serial were read at two moments is restored to
\* one version, with that version's serial (WriteSnapshot, ReadSnapshot).
THEOREM SnapshotExactHolds ==
  ASSUME ~ManyChangesets
  PROVE  Spec => []SnapshotExact
<1>1. TransferInv => SnapshotExact
  <2> SUFFICES ASSUME TransferInv, snapshot # NoSnapshot PROVE SnapshotExact
    BY DEF SnapshotExact
  <2>1. PICK n \in DOMAIN published : ReadSnapshot(snapshot) = Exact(n, published[n])
    BY SnapshotRead
  <2> QED BY <2>1 DEF SnapshotExact, Exact, Holding
<1> QED BY <1>1, TransferInvariant, PTL
=============================================================================
