------------------------------ MODULE Catalogs ------------------------------
(***************************************************************************)
(* The set of monitored zones: those of the configuration and the members   *)
(* of catalog zones, kept up to date by App.watchCatalogs                   *)
(* (internal/app/app.go, internal/catalog/catalog.go, and AddZone and       *)
(* RemoveZone of internal/monitor/manager.go), over catalog edits, catalog  *)
(* transfers and restarts.                                                  *)
(***************************************************************************)
EXTENDS Naturals

CONSTANTS
  Catalogs,     \* configured catalogs
  Names,        \* zone names
  ConfigZones,  \* zones declared in the configuration
  MaxRestarts   \* bound: restarts of the process

ASSUME CatalogsAssumption ==
  /\ ConfigZones \subseteq Names
  /\ Catalogs \cap {"none", "config"} = {}
  /\ MaxRestarts \in Nat

VARIABLES
  published,  \* members each catalog's servers publish
  store,      \* members in each catalog's store; no store: {"nil"}
  prev,       \* members watchCatalogs saw last
  source,     \* where each monitored zone came from; "none" if not monitored
  starting,   \* monitored zones whose first refresh is a goroutine yet to run
  refreshed,  \* monitored zones whose first refresh ran: they have a next one
  restarts

vars == <<published, store, prev, source, starting, refreshed, restarts>>

NoStore == {"nil"}

\* The configured zones, as New adds them; Run refreshes them all.
Configured == [z \in Names |-> IF z \in ConfigZones THEN "config" ELSE "none"]

Init ==
  /\ published \in [Catalogs -> SUBSET Names]
  /\ store = [c \in Catalogs |-> NoStore]
  /\ prev = [c \in Catalogs |-> {}]
  /\ source = Configured
  /\ starting = ConfigZones
  /\ refreshed = {}
  /\ restarts = 0

Edit(c) ==
  /\ \E M \in SUBSET Names : published' = [published EXCEPT ![c] = M]
  /\ UNCHANGED <<store, prev, source, starting, refreshed, restarts>>

\* A refresh of the catalog zone itself.
TransferCatalog(c) ==
  /\ store[c] # published[c]
  /\ store' = [store EXCEPT ![c] = published[c]]
  /\ UNCHANGED <<published, prev, source, starting, refreshed, restarts>>

\* Diff(prev, members)
Added(c) == store[c] \ prev[c]
Removed(c) == prev[c] \ store[c]

\* Members not monitored yet, whoever listed them.
NewMembers(c) == {z \in Added(c) : source[z] = "none"}

\* Mutant: a member that left the catalog is removed wherever it came from.
Dropped_AnySource(c) == {z \in Removed(c) : source[z] # "none"}

\* Members that left, unless they are monitored for another reason.
Dropped(c) == {z \in Removed(c) : source[z] = c}

\* Mutant: what was seen is not remembered.
Remember_Nothing(c) == UNCHANGED prev

Remember(c) == prev' = [prev EXCEPT ![c] = store[c]]

\* Mutant: the first refresh of a new member is not started.
FirstRefresh_Forgotten(c) == {}

\* go a.Mgr.Refresh(ctx, a.Mgr.Get(m.Zone), false): the zone is looked up now,
\* the goroutine runs later.
FirstRefresh(c) == NewMembers(c)

\* What AddZone and RemoveZone make of a zone's source.
AddZone(z, src) == IF source[z] = "config" THEN "config" ELSE src
RemoveZone(z) == "none"

\* One catalog of one round of watchCatalogs. A goroutine that has not run when
\* its member is dropped refreshes a zone nobody looks up any more. A catalog
\* zone is itself a configured zone, which nothing removes: the round never
\* finds it missing and never adds it again.
Sync(c) ==
  /\ store[c] # NoStore
  /\ store[c] # prev[c]
  /\ Remember(c)
  /\ source' = [z \in Names |-> IF z \in NewMembers(c) THEN AddZone(z, c)
                                ELSE IF z \in Dropped(c) THEN RemoveZone(z)
                                ELSE source[z]]
  /\ starting' = (starting \cup FirstRefresh(c)) \ Dropped(c)
  /\ refreshed' = refreshed \ Dropped(c)
  /\ UNCHANGED <<published, store, restarts>>

\* A first refresh runs; every way out of it leaves the zone a next one, as
\* AlwaysScheduled of ZoneRefresh shows.
RefreshMember(z) ==
  /\ z \in starting
  /\ starting' = starting \ {z}
  /\ refreshed' = refreshed \cup {z}
  /\ UNCHANGED <<published, store, prev, source, restarts>>

\* Members are not persisted: the process starts from the configuration.
Restart ==
  /\ restarts < MaxRestarts
  /\ restarts' = restarts + 1
  /\ store' = [c \in Catalogs |-> NoStore]
  /\ prev' = [c \in Catalogs |-> {}]
  /\ source' = Configured
  /\ starting' = ConfigZones
  /\ refreshed' = {}
  /\ UNCHANGED published

Next ==
  \/ Restart
  \/ \E z \in Names : RefreshMember(z)
  \/ \E c \in Catalogs : Edit(c) \/ TransferCatalog(c) \/ Sync(c)

Spec == Init /\ [][Next]_vars

\* The watcher's ticker never stops and, as ZoneRefresh shows, a reachable zone
\* is eventually transferred; a catalog may change between the two. A goroutine
\* that was started runs.
FairSpec ==
  /\ Spec
  /\ \A c \in Catalogs : SF_vars(TransferCatalog(c)) /\ SF_vars(Sync(c))
  /\ \A z \in Names : WF_vars(RefreshMember(z))
-----------------------------------------------------------------------------
(* Properties *)

Monitored == {z \in Names : source[z] # "none"}

\* "Config-declared zones win over catalog members of the same name": whatever
\* the catalogs list and stop listing, they stay, as configured.
ConfigKept == \A z \in ConfigZones : source[z] = "config"

\* A zone monitored on behalf of a catalog is one the watcher will notice
\* leaving: it is among the members seen last.
SourceKnown == \A z \in Names, c \in Catalogs : source[z] = c => z \in prev[c]

\* What one catalog stops listing never costs another its member: a zone
\* monitored for a catalog whose store lists it, and goes on listing it, stays
\* that catalog's whatever watchCatalogs does for the others, until the process
\* is restarted. Both may list it; the watcher drops by source, not by name.
KeptWhileListed ==
  [][\A z \in Names, c \in Catalogs :
       /\ source[z] = c
       /\ z \in store[c] /\ z \in store'[c]
       /\ restarts' = restarts
       => source'[z] = c]_vars

\* A zone that no catalog lists any more is not monitored forever.
UnlistedLeave ==
  \A z \in Names \ ConfigZones :
    <>[](\A c \in Catalogs : z \notin published[c]) => <>[](z \notin Monitored)

\* A zone that one catalog alone ever lists, and lists for good, ends up
\* monitored for good, after any edits, lost stores and restarts, and its first
\* refresh runs: without that it would be listed and never polled, since a new
\* member has no NextRefresh for the manager's tick to find.
SoleMemberMonitored ==
  \A z \in Names, c \in Catalogs :
    /\ [](\A d \in Catalogs \ {c} : z \notin published[d])
    /\ <>[](z \in published[c])
    => <>[](z \in Monitored \cap refreshed)

\* "Member PTR names are then added as monitored zones": a zone a catalog lists
\* for good ends up monitored for good.
MembersMonitored ==
  \A z \in Names, c \in Catalogs :
    <>[](z \in published[c]) => <>[](z \in Monitored)
=============================================================================
