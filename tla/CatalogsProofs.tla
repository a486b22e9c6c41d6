--------------------------- MODULE CatalogsProofs ---------------------------
(***************************************************************************)
(* Machine-checked proofs about Catalogs, for any catalogs, names and       *)
(* configured zones, and any number of restarts.                            *)
(***************************************************************************)
EXTENDS Catalogs, TLAPS

Sources == Catalogs \cup {"none", "config"}

TypeInv ==
  /\ prev \in [Catalogs -> SUBSET (Names \cup NoStore)]
  /\ store \in [Catalogs -> SUBSET (Names \cup NoStore)]
  /\ published \in [Catalogs -> SUBSET Names]
  /\ source \in [Names -> Sources]
  /\ restarts \in Nat

\* What the watcher relies on when it compares a catalog with what it saw last.
WatchInv == TypeInv /\ ConfigKept /\ SourceKnown

\* The process starts, and restarts, with the invariant.
LEMMA WatchInit ==
  ASSUME Init
  PROVE  WatchInv
<1>1. TypeInv
  BY DEF Init, TypeInv, Configured, Sources, NoStore
<1>2. ConfigKept /\ SourceKnown
  BY CatalogsAssumption
  DEF Init, ConfigKept, SourceKnown, Configured
<1> QED BY <1>1, <1>2 DEF WatchInv

\* A round of watchCatalogs over one catalog keeps the invariant.
LEMMA WatchSync ==
  ASSUME WatchInv, NEW c \in Catalogs, Sync(c)
  PROVE  WatchInv'
<1> USE DEF WatchInv, Sync, AddZone, RemoveZone, Remember
<1>1. TypeInv'
  BY DEF TypeInv, Sources
<1>2. ConfigKept'
  BY CatalogsAssumption
  DEF TypeInv, ConfigKept, NewMembers, Dropped, Sources
<1>3. SourceKnown'
  <2> SUFFICES ASSUME NEW z \in Names, NEW d \in Catalogs, source'[z] = d
               PROVE  z \in prev'[d]
    BY DEF SourceKnown
  <2>1. d # "none"
    BY CatalogsAssumption
  <2>2. prev'[c] = store[c] /\ (d # c => prev'[d] = prev[d])
    BY DEF TypeInv
  <2>3. CASE z \in NewMembers(c)
    BY <2>2, <2>3 DEF NewMembers, Added
  <2>4. CASE z \notin NewMembers(c)
    <3>1. source[z] = d /\ z \notin Dropped(c)
      BY <2>1, <2>4
    <3>2. z \in prev[d]
      BY <3>1 DEF SourceKnown
    <3> QED BY <2>2, <3>1, <3>2 DEF Dropped, Removed
  <2> QED BY <2>3, <2>4
<1> QED BY <1>1, <1>2, <1>3

\* Every step keeps the invariant.
LEMMA WatchStep ==
  ASSUME WatchInv, [Next]_vars
  PROVE  WatchInv'
<1>1. ASSUME NEW c \in Catalogs, Edit(c) PROVE WatchInv'
  BY <1>1 DEF WatchInv, TypeInv, Edit, ConfigKept, SourceKnown
<1>2. ASSUME NEW c \in Catalogs, TransferCatalog(c) PROVE WatchInv'
  BY <1>2 DEF WatchInv, TypeInv, TransferCatalog, ConfigKept, SourceKnown
<1>3. ASSUME NEW c \in Catalogs, Sync(c) PROVE WatchInv'
  BY <1>3, WatchSync
<1>4. ASSUME NEW z \in Names, RefreshMember(z) PROVE WatchInv'
  BY <1>4 DEF WatchInv, TypeInv, RefreshMember, ConfigKept, SourceKnown
<1>5. CASE Restart
  <2>1. TypeInv'
    BY <1>5 DEF WatchInv, TypeInv, Restart, Configured, Sources, NoStore
  <2>2. (ConfigKept /\ SourceKnown)'
    BY <1>5, CatalogsAssumption
    DEF Restart, ConfigKept, SourceKnown, Configured
  <2> QED BY <2>1, <2>2 DEF WatchInv
<1>6. CASE UNCHANGED vars
  BY <1>6 DEF vars, WatchInv, TypeInv, ConfigKept, SourceKnown
<1> QED BY <1>1, <1>2, <1>3, <1>4, <1>5, <1>6 DEF Next

\* The watcher's invariant holds in every reachable state.
THEOREM WatchInvariance == Spec => []WatchInv
BY WatchInit, WatchStep, PTL DEF Spec

\* watchCatalogs never drops or takes over a zone of the configuration, however
\* many catalogs list it and stop listing it.
THEOREM ConfigWins == Spec => []ConfigKept
BY WatchInvariance, PTL DEF WatchInv

\* A member is only monitored for a catalog that watchCatalogs remembers it
\* from, so that its leaving will be noticed: no zone is orphaned.
THEOREM NoOrphans == Spec => []SourceKnown
BY WatchInvariance, PTL DEF WatchInv

\* One step never takes a member from a catalog that goes on listing it.
LEMMA KeepStep ==
  ASSUME WatchInv, [Next]_vars, NEW z \in Names, NEW d \in Catalogs,
         source[z] = d, z \in store[d], z \in store'[d], restarts' = restarts
  PROVE  source'[z] = d
<1>0. d # "none"
  BY CatalogsAssumption
<1>1. ASSUME NEW c \in Catalogs, Sync(c) PROVE source'[z] = d
  <2>1. z \notin NewMembers(c)
    BY <1>0 DEF NewMembers
  <2>2. z \notin Dropped(c)
    BY DEF Dropped, Removed
  <2> QED BY <1>1, <2>1, <2>2 DEF Sync
<1>2. CASE Restart
  BY <1>2, CatalogsAssumption DEF Restart, WatchInv
<1>3. CASE /\ ~Restart
           /\ ~ \E c \in Catalogs : Sync(c)
  BY <1>3 DEF Next, vars, Edit, TransferCatalog, RefreshMember
<1> QED BY <1>1, <1>2, <1>3

\* However many catalogs list a zone, the edits of the others never stop it from
\* being monitored for the one it came from.
THEOREM MembersKept == Spec => KeptWhileListed
<1>1. WatchInv /\ [Next]_vars
      => [\A z \in Names, c \in Catalogs :
            /\ source[z] = c
            /\ z \in store[c] /\ z \in store'[c]
            /\ restarts' = restarts
            => source'[z] = c]_vars
  BY KeepStep
<1> QED BY <1>1, WatchInvariance, PTL DEF Spec, KeptWhileListed
=============================================================================
