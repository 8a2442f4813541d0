----------------------------- MODULE RouteStore -----------------------------
(***************************************************************************)
(* The routing store of the gateway (internal/routes): listeners, backend  *)
(* pools and routing rules with their cross references, the compiled       *)
(* routes, the desired and the applied revision, staged imports, and the   *)
(* route file with its v2 -> v3 migration.                                 *)
(*                                                                         *)
(* Every exported method of Store that changes state is one action; each   *)
(* method runs under Store.mu, so one method is one step.  A request that  *)
(* the code rejects changes nothing and is the absence of a step.  A write *)
(* of the route file either replaces the whole file or leaves it alone     *)
(* (persistence.WriteJSON: temporary file, sync, rename).                  *)
(*                                                                         *)
(* Data is reduced to what the rules of the store tell apart.  A listener  *)
(* has a host and a bind (its port and protocol), a pool has a name and    *)
(* targets, a rule has a path prefix; every value stands for one that      *)
(* passed its validator in the form its normaliser gives it.  Resources    *)
(* are kept in sets: the code never depends on the order of its slices.    *)
(* Source "explicit" stands for every source other than "compatibility".   *)
(***************************************************************************)
EXTENDS Naturals

CONSTANTS
  ListenerIDs, PoolIDs, RuleIDs,
  Hosts,        \* normalised host names
  Binds,        \* port and protocol of a listener
  Paths,        \* normalised path prefixes
  PoolNames,    \* names given to pools by clients, case folded
  Targets,      \* target lists of a pool
  Bundles,      \* resource sets offered to StageResources / ReplaceResources
  LegacyFiles,  \* resource sets that a v2 route file may hold at start
  Callers,      \* goroutines that take a snapshot and confirm it later
  MaxRevision   \* bound on Store.revision

(* A compatibility pool is named after its route (route.ID + " backends"); *)
(* the identifier itself stands for that name.                             *)
Names == PoolNames \cup RuleIDs

Sources == {"explicit", "compatibility"}

Listener == [id : ListenerIDs, host : Hosts, bind : Binds, source : Sources]
Pool == [id : PoolIDs, name : Names, source : Sources, targets : Targets]
Rule == [id : RuleIDs, listener : ListenerIDs, pool : PoolIDs, path : Paths,
         err : BOOLEAN]

ResourceSet == [listeners : SUBSET Listener, pools : SUBSET Pool,
                rules : SUBSET Rule]

EmptySet == [listeners |-> {}, pools |-> {}, rules |-> {}]

CleanRule(r) == [r EXCEPT !.err = FALSE]

(* RoutingRule.LastError is never marshalled and is cleared in every set   *)
(* that enters or leaves the store as a whole.                             *)
Strip(res) == [res EXCEPT !.rules = {CleanRule(r) : r \in @}]

Clean(res) == \A r \in res.rules : ~r.err

Route == [id : RuleIDs, host : Hosts, bind : Binds, path : Paths,
          targets : Targets, err : BOOLEAN]

ASSUME BundleAssumption ==
  /\ Bundles \subseteq ResourceSet /\ LegacyFiles \subseteq ResourceSet
  /\ \A res \in Bundles \cup LegacyFiles : Clean(res)

ASSUME RevisionAssumption == MaxRevision \in Nat \ {0}

----------------------------------------------------------------------------
(* Validation and compilation of a resource set.                           *)

SameEndpoint(a, b) == a.host = b.host /\ a.bind = b.bind

UniqueListeners(ls) ==
  \A a, b \in ls : a # b => a.id # b.id /\ ~SameEndpoint(a, b)

\* Names that differ in case only are one name.  (add and replace compare
\* with EqualFold, loading with ToLower, which differ for a few letters.)
UniquePools(ps) ==
  \A a, b \in ps : a # b => a.id # b.id /\ a.name # b.name

HasListener(res, id) == \E l \in res.listeners : l.id = id
HasPool(res, id) == \E p \in res.pools : p.id = id
HasRule(res, id) == \E r \in res.rules : r.id = id

(* validateRoutingRuleLocked: the rule's references exist and no rule      *)
(* other than the one replaced has its listener and path.                  *)
ValidRule(res, rule, others) ==
  /\ HasListener(res, rule.listener)
  /\ HasPool(res, rule.pool)
  /\ \A r \in others : ~(r.listener = rule.listener /\ r.path = rule.path)

Normalized(res) ==
  /\ UniqueListeners(res.listeners)
  /\ UniquePools(res.pools)
  /\ \A r \in res.rules :
       ValidRule(res, r, {q \in res.rules : q.id # r.id})
  /\ \A a, b \in res.rules : a # b => a.id # b.id

Compilable(res) ==
  \A r \in res.rules : HasListener(res, r.listener) /\ HasPool(res, r.pool)

ListenerOf(res, id) == CHOOSE l \in res.listeners : l.id = id
PoolOf(res, id) == CHOOSE p \in res.pools : p.id = id

CompiledRoute(r, l, p) ==
  [id |-> r.id, host |-> l.host, bind |-> l.bind, path |-> r.path,
   targets |-> p.targets, err |-> r.err]

(* rebuildRoutesLocked: one route per rule.                                *)
Compile(res) ==
  {CompiledRoute(r, ListenerOf(res, r.listener), PoolOf(res, r.pool)) :
     r \in res.rules}

----------------------------------------------------------------------------

VARIABLES
  up,        \* Load has returned; the store is in use
  staged,    \* Store.staged
  revision,  \* Store.revision
  desired,   \* Store.listeners, backendPools, routingRules
  routes,    \* Store.routes, the compiled form of desired
  applied,   \* Store.applied
  held,      \* per caller: a snapshot taken with DesiredSnapshot
  file       \* the route file; version 0 is a file that does not exist

vars == <<up, staged, revision, desired, routes, applied, held, file>>

Snapshot == [res : ResourceSet, routes : SUBSET Route, rev : Nat]

NoSnapshot == [res |-> EmptySet, routes |-> {}, rev |-> MaxRevision + 1]

File == [version : {0, 2, 3}, rev : Nat, res : ResourceSet,
         arev : Nat, ares : ResourceSet]

\* Bug: the two revisions are swapped.
FileSwapped(rev, res, snap) ==
  [version |-> 3, rev |-> snap.rev, res |-> Strip(res),
   arev |-> rev, ares |-> Strip(snap.res)]

(* saveLocked: a v3 file with both snapshots.                              *)
FileOf(rev, res, snap) ==
  [version |-> 3, rev |-> rev, res |-> Strip(res),
   arev |-> snap.rev, ares |-> Strip(snap.res)]

NoFile == [version |-> 0, rev |-> 0, res |-> EmptySet,
           arev |-> 0, ares |-> EmptySet]

LegacyFile(res) == [NoFile EXCEPT !.version = 2, !.res = res]

(* NewStore *)
NewStore ==
  /\ staged' = FALSE /\ revision' = 0 /\ desired' = EmptySet /\ routes' = {}
  /\ applied' = [res |-> EmptySet, routes |-> {}, rev |-> 0]

Init ==
  /\ up = FALSE
  /\ staged = FALSE /\ revision = 0 /\ desired = EmptySet /\ routes = {}
  /\ applied = [res |-> EmptySet, routes |-> {}, rev |-> 0]
  /\ held = [c \in Callers |-> NoSnapshot]
  /\ file \in {NoFile} \cup {LegacyFile(res) : res \in LegacyFiles}

----------------------------------------------------------------------------
(* Committing a changed resource set.                                      *)

\* Bug: the revision is not restored.
RestoredButRevision ==
  /\ revision' = revision + 1
  /\ UNCHANGED <<staged, desired, routes, applied>>

(* restoreLocked *)
Restored == UNCHANGED <<staged, revision, desired, routes, applied>>

(* commitLocked.  saved is the outcome of writing the file; it is not      *)
(* written while an import is staged.                                      *)
Commit(res, saved) ==
  /\ up
  /\ Compilable(res)
  /\ revision < MaxRevision
  /\ IF staged \/ saved
     THEN /\ desired' = res
          /\ routes' = Compile(res)
          /\ revision' = revision + 1
          /\ file' = IF staged THEN file
                     ELSE FileOf(revision + 1, res, applied)
          /\ UNCHANGED <<staged, applied>>
     ELSE Restored /\ UNCHANGED file
  /\ UNCHANGED <<up, held>>

(* ReplaceResources leaves the staged mode; a failed write restores it.    *)
ReplaceResources(bundle, saved) ==
  /\ up
  /\ Normalized(bundle)
  /\ revision < MaxRevision
  /\ IF saved
     THEN /\ staged' = FALSE
          /\ desired' = Strip(bundle)
          /\ routes' = Compile(Strip(bundle))
          /\ revision' = revision + 1
          /\ file' = FileOf(revision + 1, bundle, applied)
          /\ UNCHANGED applied
     ELSE Restored /\ UNCHANGED file
  /\ UNCHANGED <<up, held>>

(* StageResources: nothing is written.                                     *)
StageResources(bundle) ==
  /\ up
  /\ Normalized(bundle)
  /\ revision < MaxRevision
  /\ staged' = TRUE
  /\ desired' = Strip(bundle)
  /\ routes' = Compile(Strip(bundle))
  /\ revision' = revision + 1
  /\ UNCHANGED <<up, applied, held, file>>

----------------------------------------------------------------------------
(* Listeners and backend pools.                                            *)

ListenerAddable(res, l) ==
  \A e \in res.listeners : e.id # l.id /\ ~SameEndpoint(e, l)

WithListener(res, l) == [res EXCEPT !.listeners = @ \cup {l}]

WithoutListener(res, id) == [res EXCEPT !.listeners = {l \in @ : l.id # id}]

AddListener(l, saved) ==
  /\ ListenerAddable(desired, l)
  /\ Commit(WithListener(desired, l), saved)

(* No other listener has the endpoint.                                     *)
EndpointFree(res, l) ==
  \A e \in res.listeners : e.id # l.id => ~SameEndpoint(e, l)

ReplaceListener(l, saved) ==
  /\ HasListener(desired, l.id)
  /\ EndpointFree(desired, l)
  /\ Commit(WithListener(WithoutListener(desired, l.id), l), saved)

DeleteListener(id, saved) ==
  /\ \A r \in desired.rules : r.listener # id
  /\ HasListener(desired, id)
  /\ Commit(WithoutListener(desired, id), saved)

PoolAddable(res, p) == \A e \in res.pools : e.id # p.id /\ e.name # p.name

WithPool(res, p) == [res EXCEPT !.pools = @ \cup {p}]

WithoutPool(res, id) == [res EXCEPT !.pools = {p \in @ : p.id # id}]

NameFree(res, p) == \A e \in res.pools : e.id # p.id => e.name # p.name

AddBackendPool(p, saved) ==
  /\ PoolAddable(desired, p)
  /\ Commit(WithPool(desired, p), saved)

ReplaceBackendPool(p, saved) ==
  /\ HasPool(desired, p.id)
  /\ NameFree(desired, p)
  /\ Commit(WithPool(WithoutPool(desired, p.id), p), saved)

DeleteBackendPool(id, saved) ==
  /\ \A r \in desired.rules : r.pool # id
  /\ HasPool(desired, id)
  /\ Commit(WithoutPool(desired, id), saved)

----------------------------------------------------------------------------
(* Routing rules.                                                          *)

\* Bug: a new rule is not compared with the rules of its listener.
RuleUncompared(res, r) ==
  HasListener(res, r.listener) /\ HasPool(res, r.pool) /\ ~HasRule(res, r.id)

RuleAddable(res, r) == ValidRule(res, r, res.rules) /\ ~HasRule(res, r.id)

WithRule(res, r) == [res EXCEPT !.rules = @ \cup {r}]

WithoutRule(res, id) == [res EXCEPT !.rules = {r \in @ : r.id # id}]

NewRule(id, lid, pid, path, err) ==
  [id |-> id, listener |-> lid, pool |-> pid, path |-> path, err |-> err]

AddRoutingRule(id, lid, pid, path, saved) ==
  LET r == NewRule(id, lid, pid, path, FALSE) IN
  /\ RuleAddable(desired, r)
  /\ Commit(WithRule(desired, r), saved)

(* A replaced rule keeps its LastError.                                    *)
ReplaceRoutingRule(id, lid, pid, path, saved) ==
  \E old \in desired.rules :
    LET r == NewRule(id, lid, pid, path, old.err) IN
    /\ old.id = id
    /\ ValidRule(desired, r, {q \in desired.rules : q.id # id})
    /\ Commit(WithRule(WithoutRule(desired, id), r), saved)

DeleteRoutingRule(id, saved) ==
  /\ HasRule(desired, id)
  /\ Commit(WithoutRule(desired, id), saved)

----------------------------------------------------------------------------
(* The compatibility API: one route stands for a rule together with the    *)
(* listener and the pool that were created for it.                         *)

(* The listener of the same endpoint if there is one, else the new one.    *)
MatchingListener(res, l) ==
  IF \E e \in res.listeners : SameEndpoint(e, l)
  THEN CHOOSE e \in res.listeners : SameEndpoint(e, l)
  ELSE l

(* migrateRouteLocked.  l and p are the listener and the pool it would     *)
(* create, with the identifiers that nextID and uniqueID hand out; err is  *)
(* the route's lastError, which this API takes from the client.            *)
Migrated(res, id, l, p, path, err) ==
  LET m == MatchingListener(res, l) IN
  WithRule(WithPool(WithListener(res, m), p),
           NewRule(id, m.id, p.id, path, err))

Migratable(res, id, l, p, path) ==
  LET m == MatchingListener(res, l) IN
  /\ m \in res.listeners \/ ListenerAddable(res, l)
  /\ PoolAddable(res, p)
  /\ RuleAddable(WithPool(WithListener(res, m), p),
                 NewRule(id, m.id, p.id, path, FALSE))

CompatListener(lid, host, bind) ==
  [id |-> lid, host |-> host, bind |-> bind, source |-> "compatibility"]

CompatPool(pid, id, targets) ==
  [id |-> pid, name |-> id, source |-> "compatibility", targets |-> targets]

(* pruneCompatibilityResourcesLocked: the pool and the listener of a       *)
(* removed rule go with it when they were created for it and no other rule *)
(* uses them.                                                              *)
Prune(res, rule) ==
  [res EXCEPT
     !.pools = {p \in @ : ~(/\ p.id = rule.pool
                            /\ p.source = "compatibility"
                            /\ \A r \in res.rules : r.pool # rule.pool)},
     !.listeners = {l \in @ :
                      ~(/\ l.id = rule.listener
                        /\ l.source = "compatibility"
                        /\ \A r \in res.rules : r.listener # rule.listener)}]

(* addCompatibilityRoute: the identifier is new and no compiled route has  *)
(* the same host and path, on whatever port.                               *)
AddRoute(id, l, p, path, err, saved) ==
  /\ \A e \in routes : e.id # id /\ ~(e.host = l.host /\ e.path = path)
  /\ Migratable(desired, id, l, p, path)
  /\ Commit(Migrated(desired, id, l, p, path, err), saved)

(* replaceCompatibilityRoute: delete, prune, migrate; a failure on the way *)
(* restores everything.                                                    *)
ReplaceRoute(id, l, p, path, err, saved) ==
  \E rule \in desired.rules :
    LET rest == Prune(WithoutRule(desired, id), rule) IN
    /\ rule.id = id
    /\ \A e \in routes :
         e.id # id => ~(e.host = l.host /\ e.path = path)
    /\ Migratable(rest, id, l, p, path)
    /\ Commit(Migrated(rest, id, l, p, path, err), saved)

(* deleteCompatibilityRoute *)
DeleteRoute(id, saved) ==
  \E rule \in desired.rules :
    /\ rule.id = id
    /\ Commit(Prune(WithoutRule(desired, id), rule), saved)

----------------------------------------------------------------------------
(* Snapshots, confirmation, runtime status.                                *)

DesiredSnapshot == [res |-> desired, routes |-> routes, rev |-> revision]

TakeDesired(k) ==
  /\ up
  /\ held' = [held EXCEPT ![k] = DesiredSnapshot]
  /\ UNCHANGED <<up, staged, revision, desired, routes, applied, file>>

(* MarkApplied refuses a snapshot that is newer than the store or older    *)
(* than what is confirmed.                                                 *)
Confirmable(snap) == snap.rev <= revision /\ snap.rev >= applied.rev

(* A failed write puts the old snapshot back.                              *)
MarkApplied(k, saved) ==
  /\ up
  /\ held[k] # NoSnapshot
  /\ Confirmable(held[k])
  /\ IF saved
     THEN /\ applied' = held[k]
          /\ file' = FileOf(revision, desired, held[k])
          /\ staged' = FALSE
     ELSE UNCHANGED <<applied, file, staged>>
  /\ UNCHANGED <<up, revision, desired, routes, held>>

(* PersistStaged *)
PersistStaged ==
  /\ up /\ staged
  /\ file' = FileOf(revision, desired, applied)
  /\ staged' = FALSE
  /\ UNCHANGED <<up, revision, desired, routes, applied, held>>

(* The rule or route with the identifier gets the status.                  *)
WithStatus(e, id, bad) == IF e.id = id THEN [e EXCEPT !.err = bad] ELSE e

\* Bug: the status reaches the compiled routes only.
StatusOfRoutesOnly(id, bad) ==
  /\ up
  /\ routes' = {WithStatus(e, id, bad) : e \in routes}
  /\ UNCHANGED <<up, staged, revision, desired, applied, held, file>>

(* SetRuntimeStatus: one status, for the rule and its compiled route; the  *)
(* revision and the file do not change.                                    *)
SetRuntimeStatus(id, bad) ==
  /\ up
  /\ routes' = {WithStatus(e, id, bad) : e \in routes}
  /\ desired' = [desired EXCEPT !.rules = {WithStatus(r, id, bad) : r \in @}]
  /\ UNCHANGED <<up, staged, revision, applied, held, file>>

----------------------------------------------------------------------------
(* Start and crash.                                                        *)

LoadMissing ==
  /\ ~up /\ file.version = 0
  /\ up' = TRUE
  /\ UNCHANGED <<staged, revision, desired, routes, applied, held, file>>

(* A v2 file becomes the applied baseline and is rewritten at once; when   *)
(* that write fails the process exits with the file untouched.             *)
LoadLegacy ==
  /\ ~up /\ file.version = 2
  /\ Normalized(file.res)
  /\ up' = TRUE
  /\ staged' = FALSE /\ revision' = 1
  /\ desired' = file.res
  /\ routes' = Compile(file.res)
  /\ applied' = [res |-> file.res, routes |-> Compile(file.res), rev |-> 1]
  /\ file' = FileOf(1, file.res, applied')
  /\ UNCHANGED held

Loadable(f) == Normalized(f.res) /\ Normalized(f.ares) /\ f.arev <= f.rev

LoadCurrent ==
  /\ ~up /\ file.version = 3
  /\ Loadable(file)
  /\ up' = TRUE
  /\ staged' = FALSE /\ revision' = file.rev
  /\ desired' = file.res
  /\ routes' = Compile(file.res)
  /\ applied' = [res |-> file.ares, routes |-> Compile(file.ares),
                 rev |-> file.arev]
  /\ UNCHANGED <<held, file>>

(* Load returns an error: the process exits and is started again.          *)
LoadRejected ==
  /\ ~up
  /\ \/ file.version = 2
     \/ file.version = 3 /\ ~Loadable(file)
  /\ UNCHANGED vars

Crash ==
  /\ up
  /\ up' = FALSE
  /\ NewStore
  /\ held' = [c \in Callers |-> NoSnapshot]
  /\ UNCHANGED file

EditResource(saved) ==
  \/ \E l \in Listener : AddListener(l, saved) \/ ReplaceListener(l, saved)
  \/ \E id \in ListenerIDs : DeleteListener(id, saved)
  \/ \E p \in Pool : AddBackendPool(p, saved) \/ ReplaceBackendPool(p, saved)
  \/ \E id \in PoolIDs : DeleteBackendPool(id, saved)

EditRule(saved) ==
  \/ \E id \in RuleIDs, lid \in ListenerIDs, pid \in PoolIDs, path \in Paths :
       \/ AddRoutingRule(id, lid, pid, path, saved)
       \/ ReplaceRoutingRule(id, lid, pid, path, saved)
  \/ \E id \in RuleIDs : DeleteRoutingRule(id, saved)

EditRoute(saved) ==
  \/ \E id \in RuleIDs, lid \in ListenerIDs, host \in Hosts, bind \in Binds,
        pid \in PoolIDs, targets \in Targets, path \in Paths, err \in BOOLEAN :
       LET l == CompatListener(lid, host, bind)
           p == CompatPool(pid, id, targets)
       IN \/ AddRoute(id, l, p, path, err, saved)
          \/ ReplaceRoute(id, l, p, path, err, saved)
  \/ \E id \in RuleIDs : DeleteRoute(id, saved)

Next ==
  \/ \E saved \in BOOLEAN :
       \/ EditResource(saved) \/ EditRule(saved) \/ EditRoute(saved)
       \/ \E bundle \in Bundles : ReplaceResources(bundle, saved)
       \/ \E k \in Callers : MarkApplied(k, saved)
  \/ \E bundle \in Bundles : StageResources(bundle)
  \/ \E k \in Callers : TakeDesired(k)
  \/ PersistStaged
  \/ \E id \in RuleIDs, bad \in BOOLEAN : SetRuntimeStatus(id, bad)
  \/ LoadMissing \/ LoadLegacy \/ LoadCurrent \/ LoadRejected
  \/ Crash

Spec == Init /\ [][Next]_vars

----------------------------------------------------------------------------
(* Properties.                                                             *)

(* Every operation of Store, the migration and the load of the file        *)
(* included, keeps its fields within their types: in particular what       *)
(* migrateRouteLocked makes is a proper listener, pool and rule.           *)
TypeOK ==
  /\ up \in BOOLEAN /\ staged \in BOOLEAN
  /\ revision \in Nat
  /\ desired \in ResourceSet
  /\ routes \subseteq Route
  /\ applied \in Snapshot
  /\ held \in [Callers -> Snapshot]
  /\ file \in File

(* Whatever sequence of edits, replacements, compatibility calls, imports, *)
(* failures and restarts led here, every rule has its listener and its     *)
(* pool, and no two resources clash: the store's own delete and prune      *)
(* rules never leave a dangling reference, in the desired, the confirmed   *)
(* or a caller's snapshot.                                                 *)
Integrity ==
  /\ Normalized(desired)
  /\ Normalized(applied.res)
  /\ \A k \in Callers : Normalized(held[k].res)

(* Store.routes is a cache of the resources; no operation leaves it stale, *)
(* the runtime status written by SetRuntimeStatus included.                *)
RoutesCoherent ==
  /\ routes = Compile(desired)
  /\ applied.routes = Compile(applied.res)

(* Every v3 file the store ever writes passes the checks of its own Load,  *)
(* so a restart after any history finds a usable file.                     *)
FileLoadable == file.version = 3 => Loadable(file)

----------------------------------------------------------------------------
(* The store implements StagedStore.  Runtime errors are not part of the   *)
(* abstract content; a store that is down maps to the store that Load will *)
(* produce, and a legacy file to the file it will be migrated to.          *)

AbstractFile ==
  IF file.version = 2
  THEN [res |-> file.res, rev |-> 1, ares |-> file.res, arev |-> 1]
  ELSE [res |-> file.res, rev |-> file.rev, ares |-> file.ares,
        arev |-> file.arev]

AbstractSnapshot(snap) == [res |-> Strip(snap.res), rev |-> snap.rev]

AbstractStaged == up /\ staged
AbstractRevision == IF up THEN revision ELSE AbstractFile.rev
AbstractDesired == IF up THEN Strip(desired) ELSE AbstractFile.res
AbstractApplied ==
  IF up THEN AbstractSnapshot(applied)
  ELSE [res |-> AbstractFile.ares, rev |-> AbstractFile.arev]
AbstractHeld == [k \in Callers |-> AbstractSnapshot(held[k])]

Abs == INSTANCE StagedStore WITH
         Content <- ResourceSet,
         Empty <- EmptySet,
         staged <- AbstractStaged,
         revision <- AbstractRevision,
         desired <- AbstractDesired,
         applied <- AbstractApplied,
         held <- AbstractHeld,
         file <- AbstractFile

(* The detailed store never does what the abstract one may not do.         *)
ImplementsStagedStore == Abs!StoreSpec

=============================================================================
