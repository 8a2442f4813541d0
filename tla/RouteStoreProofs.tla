------------------------- MODULE RouteStoreProofs -------------------------
(***************************************************************************)
(* Theorems about RouteStore for every set of identifiers, hosts, paths,   *)
(* names, bundles, legacy files and callers.                               *)
(***************************************************************************)
EXTENDS RouteStore, TLAPS

----------------------------------------------------------------------------
(* What the operations on resource sets preserve.                          *)

LEMMA AddListenerNormalized ==
  ASSUME NEW res \in ResourceSet, NEW l \in Listener,
         Normalized(res), ListenerAddable(res, l)
  PROVE  /\ WithListener(res, l) \in ResourceSet
         /\ Normalized(WithListener(res, l))
<1> DEFINE new == WithListener(res, l)
<1>1. /\ new \in ResourceSet
      /\ new.listeners = res.listeners \cup {l}
      /\ new.pools = res.pools /\ new.rules = res.rules
  BY DEF WithListener, ResourceSet
<1> HIDE DEF new
<1>2. UniqueListeners(new.listeners)
  BY <1>1 DEF Normalized, UniqueListeners, ListenerAddable, SameEndpoint
<1>3. Normalized(new)
  BY <1>1, <1>2
  DEF Normalized, UniquePools, ValidRule, HasListener, HasPool
<1> QED BY <1>1, <1>3 DEF new

LEMMA ReplaceListenerNormalized ==
  ASSUME NEW res \in ResourceSet, NEW l \in Listener,
         Normalized(res), EndpointFree(res, l)
  PROVE  LET new == WithListener(WithoutListener(res, l.id), l)
         IN new \in ResourceSet /\ Normalized(new)
<1> DEFINE new == WithListener(WithoutListener(res, l.id), l)
<1>1. /\ new \in ResourceSet
      /\ new.listeners = {e \in res.listeners : e.id # l.id} \cup {l}
      /\ new.pools = res.pools /\ new.rules = res.rules
  BY DEF WithListener, WithoutListener, ResourceSet
<1> HIDE DEF new
<1>2. UniqueListeners(new.listeners)
  BY <1>1 DEF Normalized, UniqueListeners, EndpointFree, SameEndpoint
<1>3. \A id : HasListener(res, id) => HasListener(new, id)
  BY <1>1 DEF HasListener
<1>4. Normalized(new)
  BY <1>1, <1>2, <1>3 DEF Normalized, UniquePools, ValidRule, HasPool
<1> QED BY <1>1, <1>4 DEF new

LEMMA DeleteListenerNormalized ==
  ASSUME NEW res \in ResourceSet, NEW id, Normalized(res),
         \A r \in res.rules : r.listener # id
  PROVE  /\ WithoutListener(res, id) \in ResourceSet
         /\ Normalized(WithoutListener(res, id))
<1> DEFINE new == WithoutListener(res, id)
<1>1. /\ new \in ResourceSet
      /\ new.listeners = {e \in res.listeners : e.id # id}
      /\ new.pools = res.pools /\ new.rules = res.rules
  BY DEF WithoutListener, ResourceSet
<1> HIDE DEF new
<1>2. UniqueListeners(new.listeners)
  BY <1>1 DEF Normalized, UniqueListeners
<1>3. Normalized(new)
  BY <1>1, <1>2
  DEF Normalized, UniquePools, ValidRule, HasListener, HasPool
<1> QED BY <1>1, <1>3 DEF new

LEMMA AddPoolNormalized ==
  ASSUME NEW res \in ResourceSet, NEW p \in Pool,
         Normalized(res), PoolAddable(res, p)
  PROVE  /\ WithPool(res, p) \in ResourceSet
         /\ Normalized(WithPool(res, p))
<1> DEFINE new == WithPool(res, p)
<1>1. /\ new \in ResourceSet
      /\ new.pools = res.pools \cup {p}
      /\ new.listeners = res.listeners /\ new.rules = res.rules
  BY DEF WithPool, ResourceSet
<1> HIDE DEF new
<1>2. UniquePools(new.pools)
  BY <1>1 DEF Normalized, UniquePools, PoolAddable
<1>3. Normalized(new)
  BY <1>1, <1>2
  DEF Normalized, UniqueListeners, ValidRule, HasListener, HasPool
<1> QED BY <1>1, <1>3 DEF new

LEMMA ReplacePoolNormalized ==
  ASSUME NEW res \in ResourceSet, NEW p \in Pool,
         Normalized(res), NameFree(res, p)
  PROVE  LET new == WithPool(WithoutPool(res, p.id), p)
         IN new \in ResourceSet /\ Normalized(new)
<1> DEFINE new == WithPool(WithoutPool(res, p.id), p)
<1>1. /\ new \in ResourceSet
      /\ new.pools = {e \in res.pools : e.id # p.id} \cup {p}
      /\ new.listeners = res.listeners /\ new.rules = res.rules
  BY DEF WithPool, WithoutPool, ResourceSet
<1> HIDE DEF new
<1>2. UniquePools(new.pools)
  BY <1>1 DEF Normalized, UniquePools, NameFree
<1>3. \A id : HasPool(res, id) => HasPool(new, id)
  BY <1>1 DEF HasPool
<1>4. Normalized(new)
  BY <1>1, <1>2, <1>3 DEF Normalized, UniqueListeners, ValidRule, HasListener
<1> QED BY <1>1, <1>4 DEF new

LEMMA DeletePoolNormalized ==
  ASSUME NEW res \in ResourceSet, NEW id, Normalized(res),
         \A r \in res.rules : r.pool # id
  PROVE  /\ WithoutPool(res, id) \in ResourceSet
         /\ Normalized(WithoutPool(res, id))
<1> DEFINE new == WithoutPool(res, id)
<1>1. /\ new \in ResourceSet
      /\ new.pools = {e \in res.pools : e.id # id}
      /\ new.listeners = res.listeners /\ new.rules = res.rules
  BY DEF WithoutPool, ResourceSet
<1> HIDE DEF new
<1>2. UniquePools(new.pools)
  BY <1>1 DEF Normalized, UniquePools
<1>3. Normalized(new)
  BY <1>1, <1>2
  DEF Normalized, UniqueListeners, ValidRule, HasListener, HasPool
<1> QED BY <1>1, <1>3 DEF new

LEMMA AddRuleNormalized ==
  ASSUME NEW res \in ResourceSet, NEW r \in Rule,
         Normalized(res), RuleAddable(res, r)
  PROVE  /\ WithRule(res, r) \in ResourceSet
         /\ Normalized(WithRule(res, r))
<1> DEFINE new == WithRule(res, r)
<1>1. /\ new \in ResourceSet
      /\ new.rules = res.rules \cup {r}
      /\ new.listeners = res.listeners /\ new.pools = res.pools
  BY DEF WithRule, ResourceSet
<1> HIDE DEF new
<1>2. \A a, b \in new.rules : a # b => a.id # b.id
  BY <1>1 DEF Normalized, RuleAddable, HasRule
<1>3. \A a \in new.rules :
        ValidRule(new, a, {q \in new.rules : q.id # a.id})
  BY <1>1 DEF Normalized, RuleAddable, ValidRule, HasListener, HasPool
<1>4. Normalized(new)
  BY <1>1, <1>2, <1>3 DEF Normalized
<1> QED BY <1>1, <1>4 DEF new

LEMMA WithoutRuleNormalized ==
  ASSUME NEW res \in ResourceSet, NEW id, Normalized(res)
  PROVE  /\ WithoutRule(res, id) \in ResourceSet
         /\ Normalized(WithoutRule(res, id))
<1> DEFINE new == WithoutRule(res, id)
<1>1. /\ new \in ResourceSet
      /\ new.rules = {r \in res.rules : r.id # id}
      /\ new.listeners = res.listeners /\ new.pools = res.pools
  BY DEF WithoutRule, ResourceSet
<1> HIDE DEF new
<1>2. Normalized(new)
  BY <1>1 DEF Normalized, ValidRule, HasListener, HasPool
<1> QED BY <1>1, <1>2 DEF new

LEMMA ReplaceRuleNormalized ==
  ASSUME NEW res \in ResourceSet, NEW r \in Rule, Normalized(res),
         ValidRule(res, r, {q \in res.rules : q.id # r.id})
  PROVE  LET new == WithRule(WithoutRule(res, r.id), r)
         IN new \in ResourceSet /\ Normalized(new)
<1>1. /\ WithoutRule(res, r.id) \in ResourceSet
      /\ Normalized(WithoutRule(res, r.id))
  BY WithoutRuleNormalized
<1>2. RuleAddable(WithoutRule(res, r.id), r)
  BY DEF RuleAddable, WithoutRule, ValidRule, HasListener, HasPool, HasRule,
         ResourceSet
<1> QED BY <1>1, <1>2, AddRuleNormalized

(* Pruning removes no resource that a remaining rule refers to.            *)
LEMMA PruneNormalized ==
  ASSUME NEW res \in ResourceSet, NEW rule \in Rule, Normalized(res)
  PROVE  /\ Prune(res, rule) \in ResourceSet
         /\ Normalized(Prune(res, rule))
<1> DEFINE new == Prune(res, rule)
           keptP(p) == ~(/\ p.id = rule.pool
                         /\ p.source = "compatibility"
                         /\ \A r \in res.rules : r.pool # rule.pool)
           keptL(l) == ~(/\ l.id = rule.listener
                         /\ l.source = "compatibility"
                         /\ \A r \in res.rules : r.listener # rule.listener)
<1>1. /\ new \in ResourceSet
      /\ new.rules = res.rules
      /\ new.listeners = {l \in res.listeners : keptL(l)}
      /\ new.pools = {p \in res.pools : keptP(p)}
  BY DEF Prune, ResourceSet
<1> HIDE DEF new
<1>2. UniqueListeners(new.listeners) /\ UniquePools(new.pools)
  BY <1>1 DEF Normalized, UniqueListeners, UniquePools
<1>3. \A r \in res.rules :
        HasListener(new, r.listener) /\ HasPool(new, r.pool)
  BY <1>1 DEF Normalized, ValidRule, HasListener, HasPool
<1>4. Normalized(new)
  BY <1>1, <1>2, <1>3 DEF Normalized, ValidRule
<1> QED BY <1>1, <1>4 DEF new

LEMMA MigratedNormalized ==
  ASSUME NEW res \in ResourceSet, NEW id \in RuleIDs, NEW l \in Listener,
         NEW p \in Pool, NEW path \in Paths, NEW err \in BOOLEAN,
         Normalized(res), Migratable(res, id, l, p, path)
  PROVE  /\ Migrated(res, id, l, p, path, err) \in ResourceSet
         /\ Normalized(Migrated(res, id, l, p, path, err))
<1> DEFINE m == MatchingListener(res, l)
           r == NewRule(id, m.id, p.id, path, err)
           r0 == NewRule(id, m.id, p.id, path, FALSE)
           one == WithListener(res, m)
           two == WithPool(one, p)
<1>1. m \in Listener /\ (m \in res.listeners \/ m = l)
  BY DEF MatchingListener, ResourceSet
<1>2. one \in ResourceSet /\ Normalized(one) /\ one.pools = res.pools
  <2>1. CASE m \in res.listeners
    <3>1. one = res
      BY <2>1 DEF WithListener, ResourceSet
    <3> QED BY <3>1
  <2>2. CASE m \notin res.listeners
    <3>1. ListenerAddable(res, m)
      BY <1>1, <2>2 DEF Migratable
    <3> QED BY <1>1, <3>1, AddListenerNormalized DEF WithListener, ResourceSet
  <2> QED BY <2>1, <2>2
<1>3. PoolAddable(one, p)
  BY <1>2 DEF Migratable, PoolAddable
<1>4. two \in ResourceSet /\ Normalized(two)
  BY <1>2, <1>3, AddPoolNormalized
<1>5. r \in Rule
  BY <1>1 DEF NewRule, Rule, Listener, Pool
<1>6. RuleAddable(two, r0)
  BY DEF Migratable
<1>7. RuleAddable(two, r)
  BY <1>6 DEF RuleAddable, ValidRule, NewRule
<1> QED BY <1>4, <1>5, <1>7, AddRuleNormalized DEF Migrated

(* LastError takes no part in the rules of a resource set.                 *)
LEMMA StripNormalized ==
  ASSUME NEW res \in ResourceSet
  PROVE  /\ Strip(res) \in ResourceSet
         /\ Normalized(res) => Normalized(Strip(res))
<1> DEFINE new == Strip(res)
<1>1. /\ new.rules = {CleanRule(r) : r \in res.rules}
      /\ new.listeners = res.listeners /\ new.pools = res.pools
      /\ new = [listeners |-> new.listeners, pools |-> new.pools,
                rules |-> new.rules]
  BY DEF Strip, ResourceSet
<1>2. \A r \in res.rules :
        /\ CleanRule(r) \in Rule
        /\ CleanRule(r).id = r.id /\ CleanRule(r).listener = r.listener
        /\ CleanRule(r).pool = r.pool /\ CleanRule(r).path = r.path
  BY DEF CleanRule, Rule, ResourceSet
<1>3. \A q \in new.rules : \E r \in res.rules :
        /\ q = CleanRule(r)
        /\ q.id = r.id /\ q.listener = r.listener
        /\ q.pool = r.pool /\ q.path = r.path
  BY <1>1, <1>2
<1>4. new \in ResourceSet
  BY <1>1, <1>2 DEF ResourceSet
<1> HIDE DEF new
<1>5. ASSUME Normalized(res) PROVE Normalized(new)
  <2>1. \A a, b \in new.rules : a # b => a.id # b.id
    BY <1>3, <1>5 DEF Normalized
  <2>2. \A a \in new.rules :
          ValidRule(new, a, {q \in new.rules : q.id # a.id})
    BY <1>1, <1>3, <1>5 DEF Normalized, ValidRule, HasListener, HasPool
  <2> QED BY <1>1, <1>5, <2>1, <2>2 DEF Normalized
<1> QED BY <1>4, <1>5 DEF new

StatusSet(res, id, bad) ==
  [res EXCEPT !.rules = {WithStatus(r, id, bad) : r \in @}]

LEMMA StatusNormalized ==
  ASSUME NEW res \in ResourceSet, NEW id, NEW bad \in BOOLEAN,
         Normalized(res)
  PROVE  /\ StatusSet(res, id, bad) \in ResourceSet
         /\ Normalized(StatusSet(res, id, bad))
<1> DEFINE new == StatusSet(res, id, bad)
<1>1. /\ new.rules = {WithStatus(r, id, bad) : r \in res.rules}
      /\ new.listeners = res.listeners /\ new.pools = res.pools
      /\ new = [listeners |-> new.listeners, pools |-> new.pools,
                rules |-> new.rules]
  BY DEF StatusSet, ResourceSet
<1>2. \A r \in res.rules :
        LET q == WithStatus(r, id, bad) IN
        /\ q \in Rule
        /\ q.id = r.id /\ q.listener = r.listener
        /\ q.pool = r.pool /\ q.path = r.path
  BY DEF WithStatus, Rule, ResourceSet
<1>3. \A q \in new.rules : \E r \in res.rules :
        /\ q = WithStatus(r, id, bad)
        /\ q.id = r.id /\ q.listener = r.listener
        /\ q.pool = r.pool /\ q.path = r.path
  BY <1>1, <1>2
<1>4. new \in ResourceSet
  BY <1>1, <1>2 DEF ResourceSet
<1> HIDE DEF new
<1>5. Normalized(new)
  <2>1. \A a, b \in new.rules : a # b => a.id # b.id
    BY <1>3 DEF Normalized
  <2>2. \A a \in new.rules :
          ValidRule(new, a, {q \in new.rules : q.id # a.id})
    BY <1>1, <1>3 DEF Normalized, ValidRule, HasListener, HasPool
  <2> QED BY <1>1, <2>1, <2>2 DEF Normalized
<1> QED BY <1>4, <1>5 DEF new

----------------------------------------------------------------------------
(* Compilation.                                                            *)

LEMMA CompileType ==
  ASSUME NEW res \in ResourceSet, Compilable(res)
  PROVE  Compile(res) \subseteq Route
<1> SUFFICES ASSUME NEW r \in res.rules
             PROVE  CompiledRoute(r, ListenerOf(res, r.listener),
                                  PoolOf(res, r.pool)) \in Route
  BY DEF Compile
<1>1. ListenerOf(res, r.listener) \in res.listeners
  BY DEF Compilable, HasListener, ListenerOf
<1>2. PoolOf(res, r.pool) \in res.pools
  BY DEF Compilable, HasPool, PoolOf
<1>3. /\ r \in Rule
      /\ ListenerOf(res, r.listener) \in Listener
      /\ PoolOf(res, r.pool) \in Pool
  BY <1>1, <1>2 DEF ResourceSet
<1> HIDE DEF ListenerOf, PoolOf
<1> QED BY <1>3 DEF CompiledRoute, Route, Rule, Listener, Pool

LEMMA NormalizedCompilable ==
  ASSUME NEW res, Normalized(res) PROVE Compilable(res)
  BY DEF Normalized, Compilable, ValidRule

(* Writing a status into the compiled routes is compiling the rules with   *)
(* the status written into them.                                           *)
LEMMA CompileStatus ==
  ASSUME NEW res \in ResourceSet, NEW id, NEW bad \in BOOLEAN
  PROVE  Compile(StatusSet(res, id, bad))
           = {WithStatus(e, id, bad) : e \in Compile(res)}
<1> DEFINE new == StatusSet(res, id, bad)
           C(r) == CompiledRoute(r, ListenerOf(res, r.listener),
                                 PoolOf(res, r.pool))
<1>1. /\ new.rules = {WithStatus(r, id, bad) : r \in res.rules}
      /\ new.listeners = res.listeners /\ new.pools = res.pools
  BY DEF StatusSet, ResourceSet
<1>2. \A i : ListenerOf(new, i) = ListenerOf(res, i)
             /\ PoolOf(new, i) = PoolOf(res, i)
  BY <1>1 DEF ListenerOf, PoolOf
<1> HIDE DEF new
<1>3. Compile(new) = {C(r) : r \in new.rules}
  BY <1>2 DEF Compile
<1>4. \A r \in res.rules :
        C(WithStatus(r, id, bad)) = WithStatus(C(r), id, bad)
  <2> SUFFICES ASSUME NEW r \in res.rules
               PROVE C(WithStatus(r, id, bad)) = WithStatus(C(r), id, bad)
    OBVIOUS
  <2>1. r \in Rule
    BY DEF ResourceSet
  <2>2. CASE r.id = id
    BY <2>1, <2>2 DEF WithStatus, CompiledRoute, Rule
  <2>3. CASE r.id # id
    BY <2>1, <2>3 DEF WithStatus, CompiledRoute, Rule
  <2> QED BY <2>2, <2>3
<1> HIDE DEF C
<1>5. Compile(res) = {C(r) : r \in res.rules}
  BY DEF Compile, C
<1> QED BY <1>1, <1>3, <1>4, <1>5 DEF new

----------------------------------------------------------------------------
(* The inductive invariant.  FileLoadable needs the order of the two       *)
(* revisions, RoutesCoherent the routes of the snapshots that may still be *)
(* confirmed.                                                              *)

SnapshotsCoherent ==
  /\ applied.rev <= revision
  /\ \A k \in Callers : held[k].routes = Compile(held[k].res)

IInv ==
  TypeOK /\ Integrity /\ RoutesCoherent /\ FileLoadable /\ SnapshotsCoherent

LEMMA EmptySetSound ==
  /\ EmptySet \in ResourceSet /\ Normalized(EmptySet)
  /\ Compile(EmptySet) = {}
<1>1. EmptySet \in ResourceSet
  BY DEF EmptySet, ResourceSet
<1>2. Normalized(EmptySet)
  BY DEF EmptySet, Normalized, UniqueListeners, UniquePools
<1>3. Compile(EmptySet) = {}
  BY DEF EmptySet, Compile
<1> QED BY <1>1, <1>2, <1>3

LEMMA NoSnapshotSound ==
  /\ NoSnapshot \in Snapshot
  /\ Normalized(NoSnapshot.res)
  /\ NoSnapshot.routes = Compile(NoSnapshot.res)
  BY EmptySetSound, RevisionAssumption DEF NoSnapshot, Snapshot

LEMMA FileOfSound ==
  ASSUME NEW res \in ResourceSet, NEW rev \in Nat, NEW snap \in Snapshot,
         Normalized(res), Normalized(snap.res), snap.rev <= rev
  PROVE  /\ FileOf(rev, res, snap) \in File
         /\ Loadable(FileOf(rev, res, snap))
<1>1. /\ Strip(res) \in ResourceSet /\ Normalized(Strip(res))
      /\ Strip(snap.res) \in ResourceSet /\ Normalized(Strip(snap.res))
  BY StripNormalized DEF Snapshot
<1>2. FileOf(rev, res, snap) \in File
  BY <1>1 DEF FileOf, File, Snapshot
<1>3. Loadable(FileOf(rev, res, snap))
  BY <1>1 DEF FileOf, Loadable
<1> QED BY <1>2, <1>3

(* Taking over a resource set in memory, with or without writing it.       *)
LEMMA TakeOver ==
  ASSUME IInv, NEW res \in ResourceSet, Normalized(res),
         desired' = res, routes' = Compile(res), revision' = revision + 1,
         staged' \in BOOLEAN,
         file' \in {file, FileOf(revision + 1, res, applied)},
         UNCHANGED <<up, applied, held>>
  PROVE  IInv'
<1>1. /\ TypeOK /\ Integrity /\ RoutesCoherent /\ FileLoadable
      /\ SnapshotsCoherent
  BY DEF IInv
<1>2. /\ applied \in Snapshot /\ revision \in Nat /\ applied.rev \in Nat
      /\ applied.rev <= revision + 1
  BY <1>1 DEF TypeOK, SnapshotsCoherent, Snapshot
<1>3. /\ FileOf(revision + 1, res, applied) \in File
      /\ Loadable(FileOf(revision + 1, res, applied))
  BY <1>1, <1>2, FileOfSound DEF Integrity
<1>4. TypeOK'
  BY <1>1, <1>2, <1>3, CompileType, NormalizedCompilable DEF TypeOK
<1>5. Integrity'
  BY <1>1 DEF Integrity
<1>6. RoutesCoherent'
  BY <1>1 DEF RoutesCoherent
<1>7. FileLoadable'
  <2>1. CASE file' = file
    BY <1>1, <2>1 DEF FileLoadable
  <2>2. CASE file' = FileOf(revision + 1, res, applied)
    BY <1>3, <2>2 DEF FileLoadable
  <2> QED BY <2>1, <2>2
<1>8. SnapshotsCoherent'
  BY <1>1, <1>2 DEF SnapshotsCoherent
<1> QED BY <1>4, <1>5, <1>6, <1>7, <1>8 DEF IInv

LEMMA Unchanged == ASSUME IInv, UNCHANGED vars PROVE IInv'
  BY DEF IInv, vars, TypeOK, Integrity, RoutesCoherent, FileLoadable,
         SnapshotsCoherent

LEMMA CommitSound ==
  ASSUME IInv, NEW res \in ResourceSet, Normalized(res),
         NEW saved \in BOOLEAN, Commit(res, saved)
  PROVE  IInv'
<1>1. staged \in BOOLEAN
  BY DEF IInv, TypeOK
<1>2. CASE staged \/ saved
  BY <1>1, <1>2, TakeOver DEF Commit
<1>3. CASE ~(staged \/ saved)
  BY <1>3, Unchanged DEF Commit, Restored, vars
<1> QED BY <1>2, <1>3

LEMMA InitIInv == Init => IInv
<1> SUFFICES ASSUME Init PROVE IInv
  OBVIOUS
<1> USE RevisionAssumption
<1>1. /\ applied \in Snapshot /\ Normalized(applied.res)
      /\ applied.routes = Compile(applied.res) /\ applied.rev = 0
  BY EmptySetSound DEF Init, Snapshot
<1>2. NoFile \in File /\ NoFile.version = 0
  BY EmptySetSound DEF NoFile, File
<1>3. ASSUME NEW res \in LegacyFiles
      PROVE  LegacyFile(res) \in File /\ LegacyFile(res).version = 2
  BY BundleAssumption, EmptySetSound DEF LegacyFile, NoFile, File
<1>4. file \in File /\ file.version # 3
  BY <1>2, <1>3 DEF Init
<1>5. \A k \in Callers : held[k] = NoSnapshot
  BY DEF Init
<1>6. TypeOK
  BY <1>1, <1>4, NoSnapshotSound, EmptySetSound DEF Init, TypeOK
<1>7. Integrity /\ RoutesCoherent
  BY <1>1, <1>5, NoSnapshotSound, EmptySetSound
  DEF Init, Integrity, RoutesCoherent
<1>8. FileLoadable
  BY <1>4 DEF FileLoadable
<1>9. SnapshotsCoherent
  BY <1>1, <1>5, NoSnapshotSound DEF Init, SnapshotsCoherent
<1> QED BY <1>6, <1>7, <1>8, <1>9 DEF IInv

(* Every edit goes through commitLocked with a sound resource set.         *)
Commits(saved) == \E res \in ResourceSet : Normalized(res) /\ Commit(res, saved)

LEMMA CommitStep ==
  ASSUME NEW res \in ResourceSet, NEW saved, Normalized(res),
         Commit(res, saved)
  PROVE  Commits(saved)
  BY DEF Commits

LEMMA ResourceStep ==
  ASSUME IInv, NEW saved \in BOOLEAN, EditResource(saved)
  PROVE  Commits(saved)
<1>0. desired \in ResourceSet /\ Normalized(desired)
  BY DEF IInv, TypeOK, Integrity
<1>1. ASSUME NEW l \in Listener, AddListener(l, saved) PROVE Commits(saved)
  BY <1>0, <1>1, AddListenerNormalized, CommitStep DEF AddListener
<1>2. ASSUME NEW l \in Listener, ReplaceListener(l, saved) PROVE Commits(saved)
  BY <1>0, <1>2, ReplaceListenerNormalized, CommitStep DEF ReplaceListener
<1>3. ASSUME NEW id \in ListenerIDs, DeleteListener(id, saved) PROVE Commits(saved)
  BY <1>0, <1>3, DeleteListenerNormalized, CommitStep DEF DeleteListener
<1>4. ASSUME NEW p \in Pool, AddBackendPool(p, saved) PROVE Commits(saved)
  BY <1>0, <1>4, AddPoolNormalized, CommitStep DEF AddBackendPool
<1>5. ASSUME NEW p \in Pool, ReplaceBackendPool(p, saved) PROVE Commits(saved)
  BY <1>0, <1>5, ReplacePoolNormalized, CommitStep DEF ReplaceBackendPool
<1>6. ASSUME NEW id \in PoolIDs, DeleteBackendPool(id, saved) PROVE Commits(saved)
  BY <1>0, <1>6, DeletePoolNormalized, CommitStep DEF DeleteBackendPool
<1> QED BY <1>1, <1>2, <1>3, <1>4, <1>5, <1>6 DEF EditResource

LEMMA RuleStep ==
  ASSUME IInv, NEW saved \in BOOLEAN, EditRule(saved)
  PROVE  Commits(saved)
<1>0. /\ desired \in ResourceSet /\ Normalized(desired)
      /\ desired.rules \subseteq Rule
  BY DEF IInv, TypeOK, Integrity, ResourceSet
<1>1. ASSUME NEW id \in RuleIDs, NEW lid \in ListenerIDs,
             NEW pid \in PoolIDs, NEW path \in Paths,
             AddRoutingRule(id, lid, pid, path, saved)
      PROVE  Commits(saved)
  <2>1. NewRule(id, lid, pid, path, FALSE) \in Rule
    BY DEF NewRule, Rule
  <2> QED
    BY <1>0, <1>1, <2>1, AddRuleNormalized, CommitStep DEF AddRoutingRule
<1>2. ASSUME NEW id \in RuleIDs, NEW lid \in ListenerIDs,
             NEW pid \in PoolIDs, NEW path \in Paths,
             ReplaceRoutingRule(id, lid, pid, path, saved)
      PROVE  Commits(saved)
  <2>1. PICK old \in desired.rules :
          LET r == NewRule(id, lid, pid, path, old.err) IN
          /\ ValidRule(desired, r, {q \in desired.rules : q.id # id})
          /\ Commit(WithRule(WithoutRule(desired, id), r), saved)
    BY <1>2 DEF ReplaceRoutingRule
  <2> DEFINE r == NewRule(id, lid, pid, path, old.err)
  <2>2. r \in Rule /\ r.id = id
    BY <1>0 DEF NewRule, Rule
  <2> HIDE DEF r
  <2>3. /\ WithRule(WithoutRule(desired, id), r) \in ResourceSet
        /\ Normalized(WithRule(WithoutRule(desired, id), r))
    BY <1>0, <2>1, <2>2, ReplaceRuleNormalized DEF r
  <2> QED BY <2>1, <2>3, CommitStep DEF r
<1>3. ASSUME NEW id \in RuleIDs, DeleteRoutingRule(id, saved) PROVE Commits(saved)
  BY <1>0, <1>3, WithoutRuleNormalized, CommitStep DEF DeleteRoutingRule
<1> QED BY <1>1, <1>2, <1>3 DEF EditRule

LEMMA CompatType ==
  ASSUME NEW id \in RuleIDs, NEW lid \in ListenerIDs, NEW host \in Hosts,
         NEW bind \in Binds, NEW pid \in PoolIDs, NEW targets \in Targets
  PROVE  /\ CompatListener(lid, host, bind) \in Listener
         /\ CompatPool(pid, id, targets) \in Pool
  BY DEF CompatListener, CompatPool, Listener, Pool, Sources, Names

(* The compatibility API.                                                  *)
LEMMA RouteStep ==
  ASSUME IInv, NEW saved \in BOOLEAN, EditRoute(saved)
  PROVE  Commits(saved)
<1>0. /\ desired \in ResourceSet /\ Normalized(desired)
      /\ desired.rules \subseteq Rule
  BY DEF IInv, TypeOK, Integrity, ResourceSet
<1>1. ASSUME NEW id \in RuleIDs, NEW l \in Listener, NEW p \in Pool,
             NEW path \in Paths, NEW err \in BOOLEAN,
             AddRoute(id, l, p, path, err, saved)
      PROVE  Commits(saved)
  BY <1>0, <1>1, MigratedNormalized, CommitStep DEF AddRoute
<1>2. ASSUME NEW id \in RuleIDs
      PROVE  /\ WithoutRule(desired, id) \in ResourceSet
             /\ Normalized(WithoutRule(desired, id))
  BY <1>0, WithoutRuleNormalized
<1>3. ASSUME NEW id \in RuleIDs, NEW l \in Listener, NEW p \in Pool,
             NEW path \in Paths, NEW err \in BOOLEAN,
             ReplaceRoute(id, l, p, path, err, saved)
      PROVE  Commits(saved)
  <2>1. PICK rule \in desired.rules :
          LET rest == Prune(WithoutRule(desired, id), rule) IN
          /\ Migratable(rest, id, l, p, path)
          /\ Commit(Migrated(rest, id, l, p, path, err), saved)
    BY <1>3 DEF ReplaceRoute
  <2> DEFINE rest == Prune(WithoutRule(desired, id), rule)
  <2>2. rest \in ResourceSet /\ Normalized(rest)
    BY <1>0, <1>2, PruneNormalized
  <2> QED BY <2>1, <2>2, MigratedNormalized, CommitStep
<1>4. ASSUME NEW id \in RuleIDs, DeleteRoute(id, saved) PROVE Commits(saved)
  <2>1. PICK rule \in desired.rules :
          Commit(Prune(WithoutRule(desired, id), rule), saved)
    BY <1>4 DEF DeleteRoute
  <2> QED BY <1>0, <1>2, <2>1, PruneNormalized, CommitStep
<1> QED BY <1>1, <1>3, <1>4, CompatType DEF EditRoute

(* Imports and whole-set replacement.                                      *)
LEMMA BundleStep ==
  ASSUME IInv, NEW saved \in BOOLEAN, NEW bundle \in Bundles,
         ReplaceResources(bundle, saved) \/ StageResources(bundle)
  PROVE  IInv'
<1>0. bundle \in ResourceSet /\ Normalized(bundle)
  BY BundleAssumption DEF ReplaceResources, StageResources
<1>1. Strip(bundle) \in ResourceSet /\ Normalized(Strip(bundle))
  BY <1>0, StripNormalized
<1>2. Strip(Strip(bundle)) = Strip(bundle)
  <2>1. \A r \in bundle.rules : CleanRule(CleanRule(r)) = CleanRule(r)
    BY <1>0 DEF CleanRule, Rule, ResourceSet
  <2>2. {CleanRule(r) : r \in {CleanRule(q) : q \in bundle.rules}}
          = {CleanRule(r) : r \in bundle.rules}
    BY <2>1
  <2> QED BY <1>0, <2>2 DEF Strip, ResourceSet
<1>3. FileOf(revision + 1, bundle, applied)
        = FileOf(revision + 1, Strip(bundle), applied)
  BY <1>2 DEF FileOf
<1>4. staged \in BOOLEAN
  BY DEF IInv, TypeOK
<1>5. CASE ReplaceResources(bundle, saved) /\ saved
  BY <1>1, <1>3, <1>5, TakeOver DEF ReplaceResources
<1>6. CASE ReplaceResources(bundle, saved) /\ ~saved
  BY <1>6, Unchanged DEF ReplaceResources, Restored, vars
<1>7. CASE StageResources(bundle)
  BY <1>1, <1>7, TakeOver DEF StageResources
<1> QED BY <1>5, <1>6, <1>7

LEMMA SnapshotStep ==
  ASSUME IInv, NEW k \in Callers, NEW saved \in BOOLEAN,
         TakeDesired(k) \/ MarkApplied(k, saved)
  PROVE  IInv'
<1>0. /\ TypeOK /\ Integrity /\ RoutesCoherent /\ FileLoadable
      /\ SnapshotsCoherent
  BY DEF IInv
<1>1. CASE TakeDesired(k)
  <2>1. DesiredSnapshot \in Snapshot
    BY <1>0 DEF DesiredSnapshot, Snapshot, TypeOK
  <2>2. \A j \in Callers : held'[j] = held[j] \/ held'[j] = DesiredSnapshot
    BY <1>0, <1>1 DEF TakeDesired, TypeOK
  <2>3. TypeOK'
    BY <1>0, <1>1, <2>1 DEF TakeDesired, TypeOK
  <2>4. Normalized(DesiredSnapshot.res)
        /\ DesiredSnapshot.routes = Compile(DesiredSnapshot.res)
    BY <1>0 DEF DesiredSnapshot, Integrity, RoutesCoherent
  <2> HIDE DEF DesiredSnapshot
  <2>5. Integrity' /\ RoutesCoherent' /\ FileLoadable' /\ SnapshotsCoherent'
    BY <1>0, <1>1, <2>2, <2>4
    DEF TakeDesired, Integrity, RoutesCoherent, FileLoadable,
        SnapshotsCoherent
  <2> QED BY <2>3, <2>5 DEF IInv
<1>2. CASE MarkApplied(k, saved) /\ saved
  <2>1. /\ held[k] \in Snapshot /\ Normalized(held[k].res)
        /\ held[k].routes = Compile(held[k].res)
        /\ held[k].rev <= revision
    BY <1>0, <1>2
    DEF MarkApplied, Confirmable, TypeOK, Integrity, SnapshotsCoherent
  <2>2. /\ FileOf(revision, desired, held[k]) \in File
        /\ Loadable(FileOf(revision, desired, held[k]))
    BY <1>0, <2>1, FileOfSound DEF TypeOK, Integrity
  <2>3. TypeOK'
    BY <1>0, <1>2, <2>1, <2>2 DEF MarkApplied, TypeOK
  <2>4. Integrity' /\ RoutesCoherent' /\ FileLoadable' /\ SnapshotsCoherent'
    BY <1>0, <1>2, <2>1, <2>2
    DEF MarkApplied, Integrity, RoutesCoherent, FileLoadable,
        SnapshotsCoherent
  <2> QED BY <2>3, <2>4 DEF IInv
<1>3. CASE MarkApplied(k, saved) /\ ~saved
  BY <1>3, Unchanged DEF MarkApplied, vars
<1> QED BY <1>1, <1>2, <1>3

LEMMA PersistStep == ASSUME IInv, PersistStaged PROVE IInv'
<1>0. /\ TypeOK /\ Integrity /\ RoutesCoherent /\ FileLoadable
      /\ SnapshotsCoherent
  BY DEF IInv
<1>1. /\ FileOf(revision, desired, applied) \in File
      /\ Loadable(FileOf(revision, desired, applied))
  BY <1>0, FileOfSound DEF TypeOK, Integrity, SnapshotsCoherent
<1>2. TypeOK'
  BY <1>0, <1>1 DEF PersistStaged, TypeOK
<1>3. Integrity' /\ RoutesCoherent' /\ FileLoadable' /\ SnapshotsCoherent'
  BY <1>0, <1>1
  DEF PersistStaged, Integrity, RoutesCoherent, FileLoadable,
      SnapshotsCoherent
<1> QED BY <1>2, <1>3 DEF IInv

LEMMA StatusStep ==
  ASSUME IInv, NEW id \in RuleIDs, NEW bad \in BOOLEAN,
         SetRuntimeStatus(id, bad)
  PROVE  IInv'
<1>0. /\ TypeOK /\ Integrity /\ RoutesCoherent /\ FileLoadable
      /\ SnapshotsCoherent
  BY DEF IInv
<1>1. desired' = StatusSet(desired, id, bad)
  BY DEF SetRuntimeStatus, StatusSet
<1>2. desired' \in ResourceSet /\ Normalized(desired')
  BY <1>0, <1>1, StatusNormalized DEF TypeOK, Integrity
<1>3. routes' = Compile(desired')
  BY <1>0, <1>1, CompileStatus DEF TypeOK, RoutesCoherent, SetRuntimeStatus
<1>4. routes' \subseteq Route
  BY <1>2, <1>3, CompileType, NormalizedCompilable
<1>5. TypeOK'
  BY <1>0, <1>2, <1>4 DEF SetRuntimeStatus, TypeOK
<1>6. Integrity' /\ RoutesCoherent' /\ FileLoadable' /\ SnapshotsCoherent'
  BY <1>0, <1>2, <1>3
  DEF SetRuntimeStatus, Integrity, RoutesCoherent, FileLoadable,
      SnapshotsCoherent
<1> QED BY <1>5, <1>6 DEF IInv

(* Start and crash.                                                        *)
LEMMA ProcessStep ==
  ASSUME IInv,
         LoadMissing \/ LoadLegacy \/ LoadCurrent \/ LoadRejected \/ Crash
  PROVE  IInv'
<1>0. /\ TypeOK /\ Integrity /\ RoutesCoherent /\ FileLoadable
      /\ SnapshotsCoherent
  BY DEF IInv
<1>1. CASE LoadMissing
  BY <1>0, <1>1
  DEF LoadMissing, IInv, TypeOK, Integrity, RoutesCoherent, FileLoadable,
      SnapshotsCoherent
<1>2. CASE LoadLegacy
  <2>1. /\ file.res \in ResourceSet /\ Normalized(file.res)
        /\ Compile(file.res) \subseteq Route
    BY <1>0, <1>2, CompileType, NormalizedCompilable
    DEF LoadLegacy, TypeOK, File
  <2>2. /\ applied' \in Snapshot /\ applied'.rev = 1 /\ revision' = 1
        /\ applied'.res = file.res /\ applied'.routes = Compile(file.res)
    BY <1>2, <2>1 DEF LoadLegacy, Snapshot
  <2>3. file' \in File /\ Loadable(file')
    BY <1>2, <2>1, <2>2, FileOfSound DEF LoadLegacy
  <2>4. TypeOK'
    <3>1. /\ up' = TRUE /\ staged' = FALSE /\ held' = held
          /\ desired' = file.res /\ routes' = Compile(file.res)
      BY <1>2 DEF LoadLegacy
    <3> QED
      BY <1>0, <2>1, <2>2, <2>3, <3>1 DEF TypeOK
  <2>5. Integrity' /\ RoutesCoherent' /\ FileLoadable' /\ SnapshotsCoherent'
    BY <1>0, <1>2, <2>1, <2>2, <2>3
    DEF LoadLegacy, Integrity, RoutesCoherent, FileLoadable,
        SnapshotsCoherent
  <2> QED BY <2>4, <2>5 DEF IInv
<1>3. CASE LoadCurrent
  <2>1. /\ file.res \in ResourceSet /\ Normalized(file.res)
        /\ file.ares \in ResourceSet /\ Normalized(file.ares)
        /\ file.rev \in Nat /\ file.arev \in Nat /\ file.arev <= file.rev
    BY <1>0, <1>3 DEF LoadCurrent, Loadable, TypeOK, File
  <2>2. Compile(file.res) \subseteq Route /\ Compile(file.ares) \subseteq Route
    BY <2>1, CompileType, NormalizedCompilable
  <2>3. /\ applied' \in Snapshot /\ applied'.rev = file.arev
        /\ applied'.res = file.ares
        /\ applied'.routes = Compile(file.ares)
    BY <1>3, <2>1, <2>2 DEF LoadCurrent, Snapshot
  <2>4. TypeOK'
    BY <1>0, <1>3, <2>1, <2>2, <2>3 DEF LoadCurrent, TypeOK
  <2>5. Integrity' /\ RoutesCoherent' /\ FileLoadable' /\ SnapshotsCoherent'
    BY <1>0, <1>3, <2>1, <2>3
    DEF LoadCurrent, Integrity, RoutesCoherent, FileLoadable,
        SnapshotsCoherent
  <2> QED BY <2>4, <2>5 DEF IInv
<1>4. CASE LoadRejected
  BY <1>4, Unchanged DEF LoadRejected
<1>5. CASE Crash
  <2>1. /\ applied' \in Snapshot /\ Normalized(applied'.res)
        /\ applied'.routes = Compile(applied'.res) /\ applied'.rev = 0
    BY <1>5, EmptySetSound DEF Crash, NewStore, Snapshot
  <2>2. \A k \in Callers : held'[k] = NoSnapshot
    BY <1>5 DEF Crash
  <2>3. TypeOK'
    <3>1. held' \in [Callers -> Snapshot]
      BY <1>5, NoSnapshotSound DEF Crash
    <3>2. file' = file /\ up' = FALSE /\ staged' = FALSE
      BY <1>5 DEF Crash, NewStore
    <3>3. revision' \in Nat /\ desired' \in ResourceSet /\ routes' = {}
      BY <1>5, EmptySetSound DEF Crash, NewStore
    <3> QED
      BY <1>0, <2>1, <3>1, <3>2, <3>3 DEF TypeOK
  <2>4. Integrity' /\ RoutesCoherent' /\ FileLoadable' /\ SnapshotsCoherent'
    BY <1>0, <1>5, <2>1, <2>2, NoSnapshotSound, EmptySetSound
    DEF Crash, NewStore, Integrity, RoutesCoherent, FileLoadable,
        SnapshotsCoherent
  <2> QED BY <2>3, <2>4 DEF IInv
<1> QED BY <1>1, <1>2, <1>3, <1>4, <1>5

LEMMA NextIInv == IInv /\ [Next]_vars => IInv'
<1> SUFFICES ASSUME IInv, [Next]_vars PROVE IInv'
  OBVIOUS
<1>1. ASSUME NEW saved \in BOOLEAN,
             EditResource(saved) \/ EditRule(saved) \/ EditRoute(saved)
      PROVE  IInv'
  BY <1>1, ResourceStep, RuleStep, RouteStep, CommitSound DEF Commits
<1>2. ASSUME NEW bundle \in Bundles, StageResources(bundle) PROVE IInv'
  BY <1>2, BundleStep
<1>3. ASSUME NEW saved \in BOOLEAN, NEW bundle \in Bundles,
             ReplaceResources(bundle, saved)
      PROVE  IInv'
  BY <1>3, BundleStep
<1>4. ASSUME NEW k \in Callers, TakeDesired(k) PROVE IInv'
  BY <1>4, SnapshotStep
<1>5. ASSUME NEW saved \in BOOLEAN, NEW k \in Callers, MarkApplied(k, saved)
      PROVE  IInv'
  BY <1>5, SnapshotStep
<1>6. ASSUME NEW id \in RuleIDs, NEW bad \in BOOLEAN,
             SetRuntimeStatus(id, bad)
      PROVE  IInv'
  BY <1>6, StatusStep
<1>7. CASE UNCHANGED vars
  BY <1>7, Unchanged
<1> QED
  BY <1>1, <1>2, <1>3, <1>4, <1>5, <1>6, <1>7, PersistStep, ProcessStep
  DEF Next

LEMMA Inductive == Spec => []IInv
<1> QED BY InitIInv, NextIInv, PTL DEF Spec

----------------------------------------------------------------------------

(* The state of the store always has its type.                             *)
THEOREM TypeCorrect == Spec => []TypeOK
<1>1. IInv => TypeOK
  BY DEF IInv
<1> QED BY <1>1, Inductive, PTL

(* No history of edits, compatibility calls, imports, failed writes and    *)
(* restarts leaves a dangling reference or a clash of resources.           *)
THEOREM ReferencesIntact == Spec => []Integrity
<1>1. IInv => Integrity
  BY DEF IInv
<1> QED BY <1>1, Inductive, PTL

(* The compiled routes are never stale.                                    *)
THEOREM RoutesNeverStale == Spec => []RoutesCoherent
<1>1. IInv => RoutesCoherent
  BY DEF IInv
<1> QED BY <1>1, Inductive, PTL

(* Every file that the store writes passes the checks of its own Load.     *)
THEOREM FilesLoadable == Spec => []FileLoadable
<1>1. IInv => FileLoadable
  BY DEF IInv
<1> QED BY <1>1, Inductive, PTL

----------------------------------------------------------------------------
(* RouteStore implements StagedStore.                                      *)

(* What the mapping relies on beyond IInv: revisions within their bound, a *)
(* file without runtime errors, and the fresh store of a process that has  *)
(* not loaded its file.                                                    *)
RevisionsBounded == revision <= MaxRevision /\ file.rev <= MaxRevision

FileClean == Strip(file.res) = file.res /\ Strip(file.ares) = file.ares

FreshWhenDown ==
  /\ ~up => /\ staged = FALSE /\ revision = 0 /\ desired = EmptySet
            /\ applied = [res |-> EmptySet, routes |-> {}, rev |-> 0]
  /\ file.version = 0 => file = NoFile

RInv == IInv /\ RevisionsBounded /\ FileClean /\ FreshWhenDown

LEMMA StripStrip ==
  ASSUME NEW res \in ResourceSet PROVE Strip(Strip(res)) = Strip(res)
<1>1. \A r \in res.rules : CleanRule(CleanRule(r)) = CleanRule(r)
  BY DEF CleanRule, Rule, ResourceSet
<1>2. {CleanRule(r) : r \in {CleanRule(q) : q \in res.rules}}
        = {CleanRule(r) : r \in res.rules}
  BY <1>1
<1> QED BY <1>2 DEF Strip, ResourceSet

LEMMA StripClean ==
  ASSUME NEW res \in ResourceSet, Clean(res) PROVE Strip(res) = res
<1>1. \A r \in res.rules : CleanRule(r) = r
  BY DEF Clean, CleanRule, Rule, ResourceSet
<1>2. {CleanRule(r) : r \in res.rules} = res.rules
  BY <1>1
<1> QED BY <1>2 DEF Strip, ResourceSet

LEMMA StripEmpty == Strip(EmptySet) = EmptySet
  BY DEF Strip, EmptySet

LEMMA StripStatus ==
  ASSUME NEW res \in ResourceSet, NEW id, NEW bad \in BOOLEAN
  PROVE  Strip(StatusSet(res, id, bad)) = Strip(res)
<1>1. \A r \in res.rules : CleanRule(WithStatus(r, id, bad)) = CleanRule(r)
  BY DEF CleanRule, WithStatus, Rule, ResourceSet
<1>2. {CleanRule(r) : r \in {WithStatus(q, id, bad) : q \in res.rules}}
        = {CleanRule(r) : r \in res.rules}
  BY <1>1
<1> QED BY <1>2 DEF Strip, StatusSet, ResourceSet

(* A file that the store writes.                                           *)
LEMMA FileOfClean ==
  ASSUME NEW res \in ResourceSet, NEW rev, NEW snap \in Snapshot
  PROVE  LET f == FileOf(rev, res, snap) IN
         /\ Strip(f.res) = f.res /\ Strip(f.ares) = f.ares
         /\ f.version = 3 /\ f.rev = rev
  BY StripStrip DEF FileOf, Snapshot

----------------------------------------------------------------------------

LEMMA InitRInv == Init => RInv
<1> SUFFICES ASSUME Init PROVE RInv
  OBVIOUS
<1>1. CASE file = NoFile
  BY <1>1, InitIInv, StripEmpty, RevisionAssumption
  DEF Init, NoFile, RInv, RevisionsBounded, FileClean, FreshWhenDown
<1>2. ASSUME NEW res \in LegacyFiles, file = LegacyFile(res) PROVE RInv
  <2>1. Strip(res) = res
    BY BundleAssumption, StripClean
  <2>2. /\ file.res = res /\ file.ares = EmptySet /\ file.rev = 0
        /\ file.version = 2
    BY <1>2 DEF LegacyFile, NoFile
  <2> QED
    BY <2>1, <2>2, InitIInv, StripEmpty, RevisionAssumption
    DEF Init, RInv, RevisionsBounded, FileClean, FreshWhenDown
<1> QED BY <1>1, <1>2 DEF Init

(* Every step either leaves the file alone or writes one with FileOf.      *)
LEMMA NextRInv == RInv /\ [Next]_vars => RInv'
<1> SUFFICES ASSUME RInv, [Next]_vars PROVE RInv'
  OBVIOUS
<1>0. /\ IInv /\ RevisionsBounded /\ FileClean /\ FreshWhenDown
      /\ TypeOK /\ IInv'
  BY NextIInv DEF RInv, IInv
<1>1. ASSUME up', revision' \in Nat, revision' <= MaxRevision, file' = file
      PROVE  RInv'
  BY <1>0, <1>1 DEF RInv, RevisionsBounded, FileClean, FreshWhenDown
<1>2. ASSUME up', revision' \in Nat, revision' <= MaxRevision,
             NEW res \in ResourceSet, NEW snap \in Snapshot,
             file' = FileOf(revision', res, snap)
      PROVE  RInv'
  <2>1. /\ Strip(file'.res) = file'.res /\ Strip(file'.ares) = file'.ares
        /\ file'.version = 3 /\ file'.rev = revision'
    BY <1>2, FileOfClean
  <2> QED
    BY <1>0, <1>2, <2>1
    DEF RInv, RevisionsBounded, FileClean, FreshWhenDown
<1>3. ASSUME UNCHANGED vars PROVE RInv'
  BY <1>0, <1>3
  DEF vars, RInv, RevisionsBounded, FileClean, FreshWhenDown
<1>4. /\ revision \in Nat /\ revision <= MaxRevision /\ MaxRevision \in Nat
      /\ desired \in ResourceSet /\ applied \in Snapshot
      /\ file.res \in ResourceSet /\ file.rev \in Nat
  BY <1>0, RevisionAssumption DEF TypeOK, RevisionsBounded, File
<1>5. ASSUME NEW res \in ResourceSet, NEW saved \in BOOLEAN,
             Commit(res, saved)
      PROVE  RInv'
  <2>1. CASE staged
    BY <1>1, <1>4, <1>5, <2>1 DEF Commit
  <2>2. CASE ~staged /\ saved
    BY <1>2, <1>4, <1>5, <2>2 DEF Commit
  <2>3. CASE ~staged /\ ~saved
    BY <1>3, <1>5, <2>3 DEF Commit, Restored, vars
  <2> QED BY <2>1, <2>2, <2>3
<1>6. ASSUME NEW saved \in BOOLEAN,
             EditResource(saved) \/ EditRule(saved) \/ EditRoute(saved)
      PROVE  RInv'
  BY <1>0, <1>5, <1>6, ResourceStep, RuleStep, RouteStep DEF Commits
<1>7. ASSUME NEW bundle \in Bundles, StageResources(bundle) PROVE RInv'
  BY <1>1, <1>4, <1>7 DEF StageResources
<1>8. ASSUME NEW saved \in BOOLEAN, NEW bundle \in Bundles,
             ReplaceResources(bundle, saved)
      PROVE  RInv'
  <2>1. CASE saved
    BY <1>2, <1>4, <1>8, <2>1, BundleAssumption DEF ReplaceResources
  <2>2. CASE ~saved
    BY <1>3, <1>8, <2>2 DEF ReplaceResources, Restored, vars
  <2> QED BY <2>1, <2>2
<1>9. ASSUME NEW k \in Callers, TakeDesired(k) PROVE RInv'
  BY <1>1, <1>4, <1>9 DEF TakeDesired
<1>10. ASSUME NEW saved \in BOOLEAN, NEW k \in Callers,
              MarkApplied(k, saved)
       PROVE  RInv'
  <2>1. held[k] \in Snapshot
    BY <1>0 DEF TypeOK
  <2>2. CASE saved
    BY <1>2, <1>4, <1>10, <2>1, <2>2 DEF MarkApplied
  <2>3. CASE ~saved
    BY <1>3, <1>10, <2>3 DEF MarkApplied, vars
  <2> QED BY <2>2, <2>3
<1>11. ASSUME PersistStaged PROVE RInv'
  BY <1>2, <1>4, <1>11 DEF PersistStaged
<1>12. ASSUME NEW id \in RuleIDs, NEW bad \in BOOLEAN,
              SetRuntimeStatus(id, bad)
       PROVE  RInv'
  BY <1>1, <1>4, <1>12 DEF SetRuntimeStatus
<1>13. CASE LoadMissing \/ LoadCurrent
  BY <1>0, <1>1, <1>4, <1>13 DEF LoadMissing, LoadCurrent, RevisionsBounded
<1>14. CASE LoadLegacy
  <2>1. applied' \in Snapshot
    BY <1>0 DEF IInv, TypeOK
  <2>2. 1 \in Nat /\ 1 <= MaxRevision
    BY RevisionAssumption
  <2> QED BY <1>2, <1>4, <1>14, <2>1, <2>2 DEF LoadLegacy
<1>15. CASE LoadRejected
  BY <1>3, <1>15 DEF LoadRejected
<1>16. CASE Crash
  BY <1>0, <1>4, <1>16
  DEF Crash, NewStore, RInv, RevisionsBounded, FileClean, FreshWhenDown
<1> QED
  BY <1>3, <1>6, <1>7, <1>8, <1>9, <1>10, <1>11, <1>12, <1>13, <1>14, <1>15,
     <1>16
  DEF Next

----------------------------------------------------------------------------
(* Steps of the store as steps of the abstract store.                      *)

LEMMA InitAbs == Init => Abs!StoreInit
<1> SUFFICES ASSUME Init PROVE Abs!StoreInit
  OBVIOUS
<1>1. AbstractHeld = [c \in Callers |-> Abs!NoSnapshot]
  BY StripEmpty
  DEF Init, AbstractHeld, AbstractSnapshot, NoSnapshot, Abs!NoSnapshot
<1>2. CASE file = NoFile
  BY <1>1, <1>2
  DEF Init, Abs!StoreInit, Abs!FileOf, NoFile, AbstractFile, AbstractStaged,
      AbstractRevision, AbstractDesired, AbstractApplied
<1>3. ASSUME NEW res \in LegacyFiles, file = LegacyFile(res) PROVE Abs!StoreInit
  <2>1. res \in ResourceSet
    BY BundleAssumption
  <2>2. /\ AbstractFile = [res |-> res, rev |-> 1, ares |-> res, arev |-> 1]
        /\ ~AbstractStaged /\ AbstractRevision = 1 /\ AbstractDesired = res
        /\ AbstractApplied = [res |-> res, rev |-> 1]
    BY <1>3
    DEF Init, LegacyFile, NoFile, AbstractFile, AbstractStaged,
        AbstractRevision, AbstractDesired, AbstractApplied
  <2> QED
    BY <1>1, <2>1, <2>2, RevisionAssumption DEF Abs!StoreInit, Abs!FileOf
<1> QED BY <1>2, <1>3 DEF Init

(* The abstract variables of a store that is up, after a step that wrote   *)
(* the file, and after one that did not.                                   *)
LEMMA AbstractUp ==
  ASSUME up, up', TypeOK, TypeOK'
  PROVE  /\ AbstractStaged = staged /\ AbstractStaged' = staged'
         /\ AbstractRevision = revision /\ AbstractRevision' = revision'
         /\ AbstractDesired = Strip(desired)
         /\ AbstractDesired' = Strip(desired')
         /\ AbstractApplied = AbstractSnapshot(applied)
         /\ AbstractApplied' = AbstractSnapshot(applied')
  BY DEF AbstractStaged, AbstractRevision, AbstractDesired, AbstractApplied,
         AbstractSnapshot, TypeOK

LEMMA AbstractWritten ==
  ASSUME NEW res, NEW rev, NEW snap, file' = FileOf(rev, res, snap)
  PROVE  AbstractFile' = Abs!FileOf(Strip(res), rev, AbstractSnapshot(snap))
  BY DEF FileOf, Abs!FileOf, AbstractFile, AbstractSnapshot

LEMMA AbstractKept ==
  /\ file' = file => AbstractFile' = AbstractFile
  /\ held' = held => AbstractHeld' = AbstractHeld
  BY DEF AbstractFile, AbstractHeld, AbstractSnapshot

LEMMA StutterAbs ==
  ASSUME UNCHANGED vars PROVE UNCHANGED Abs!storeVars
  BY DEF vars, Abs!storeVars, AbstractFile, AbstractHeld, AbstractSnapshot,
         AbstractStaged, AbstractRevision, AbstractDesired, AbstractApplied

LEMMA CommitAbs ==
  ASSUME RInv, RInv', NEW res \in ResourceSet, NEW saved \in BOOLEAN,
         Commit(res, saved)
  PROVE  Abs!Edit \/ UNCHANGED Abs!storeVars
<1>0. TypeOK /\ TypeOK'
  BY DEF RInv, IInv
<1>1. CASE staged \/ saved
  <2>1. up /\ up' /\ revision < MaxRevision /\ desired' = res
        /\ revision' = revision + 1 /\ staged' = staged
        /\ applied' = applied /\ held' = held
    BY <1>1 DEF Commit
  <2>2. Strip(res) \in ResourceSet
    BY StripNormalized
  <2>3. AbstractFile' = IF staged THEN AbstractFile
          ELSE Abs!FileOf(Strip(res), revision + 1, AbstractSnapshot(applied))
    <3>1. CASE staged
      BY <1>1, <3>1, AbstractKept DEF Commit
    <3>2. CASE ~staged
      BY <1>1, <3>2, AbstractWritten DEF Commit
    <3> QED BY <3>1, <3>2
  <2>4. Abs!Edit
    BY <1>0, <2>1, <2>2, <2>3, AbstractUp, AbstractKept DEF Abs!Edit
  <2> QED BY <2>4
<1>2. CASE ~(staged \/ saved)
  BY <1>2, StutterAbs DEF Commit, Restored, vars
<1> QED BY <1>1, <1>2

LEMMA BundleAbs ==
  ASSUME RInv, RInv', NEW saved \in BOOLEAN, NEW bundle \in Bundles,
         StageResources(bundle) \/ ReplaceResources(bundle, saved)
  PROVE  Abs!Stage \/ Abs!Replace \/ UNCHANGED Abs!storeVars
<1>0. TypeOK /\ TypeOK'
  BY DEF RInv, IInv
<1>1. /\ bundle \in ResourceSet /\ Strip(bundle) \in ResourceSet
      /\ Strip(Strip(bundle)) = Strip(bundle)
  BY BundleAssumption, StripNormalized, StripStrip
<1>2. CASE StageResources(bundle)
  <2>1. up /\ up' /\ revision < MaxRevision /\ desired' = Strip(bundle)
        /\ revision' = revision + 1 /\ staged' = TRUE
        /\ applied' = applied /\ held' = held /\ file' = file
    BY <1>2 DEF StageResources
  <2>2. Abs!Stage
    BY <1>0, <1>1, <2>1, AbstractUp, AbstractKept DEF Abs!Stage
  <2> QED BY <2>2
<1>3. CASE ReplaceResources(bundle, saved) /\ saved
  <2>1. up /\ up' /\ revision < MaxRevision /\ desired' = Strip(bundle)
        /\ revision' = revision + 1 /\ staged' = FALSE
        /\ applied' = applied /\ held' = held
        /\ file' = FileOf(revision + 1, bundle, applied)
    BY <1>3 DEF ReplaceResources
  <2>2. AbstractFile'
          = Abs!FileOf(Strip(bundle), revision + 1, AbstractSnapshot(applied))
    BY <2>1, AbstractWritten
  <2>3. Abs!Replace
    BY <1>0, <1>1, <2>1, <2>2, AbstractUp, AbstractKept DEF Abs!Replace
  <2> QED BY <2>3
<1>4. CASE ReplaceResources(bundle, saved) /\ ~saved
  BY <1>4, StutterAbs DEF ReplaceResources, Restored, vars
<1> QED BY <1>2, <1>3, <1>4

LEMMA SnapshotAbs ==
  ASSUME RInv, RInv', NEW saved \in BOOLEAN, NEW k \in Callers,
         TakeDesired(k) \/ MarkApplied(k, saved)
  PROVE  \/ Abs!TakeDesired(k) \/ Abs!MarkApplied(k)
         \/ UNCHANGED Abs!storeVars
<1>0. TypeOK /\ TypeOK'
  BY DEF RInv, IInv
<1>1. CASE TakeDesired(k)
  <2>1. up /\ up' /\ revision' = revision /\ desired' = desired
        /\ staged' = staged /\ applied' = applied /\ file' = file
        /\ held' = [held EXCEPT ![k] = DesiredSnapshot]
    BY <1>1 DEF TakeDesired
  <2>2. AbstractHeld' = [AbstractHeld EXCEPT
                           ![k] = [res |-> Strip(desired), rev |-> revision]]
    BY <1>0, <2>1
    DEF AbstractHeld, AbstractSnapshot, DesiredSnapshot, TypeOK
  <2>3. Abs!TakeDesired(k)
    BY <1>0, <2>1, <2>2, AbstractUp, AbstractKept DEF Abs!TakeDesired
  <2> QED BY <2>3
<1>2. CASE MarkApplied(k, saved) /\ saved
  <2>1. up /\ up' /\ revision' = revision /\ desired' = desired
        /\ staged' = FALSE /\ held' = held /\ applied' = held[k]
        /\ file' = FileOf(revision, desired, held[k])
        /\ held[k].rev <= revision /\ held[k].rev >= applied.rev
    BY <1>2 DEF MarkApplied, Confirmable
  <2>2. AbstractHeld[k] = AbstractSnapshot(held[k])
    BY DEF AbstractHeld
  <2>3. AbstractHeld[k].rev = held[k].rev
    BY <2>2 DEF AbstractSnapshot
  <2>4. AbstractHeld[k] # Abs!NoSnapshot
    <3>1. revision \in Nat /\ revision <= MaxRevision /\ MaxRevision \in Nat
          /\ held[k].rev \in Nat
      BY <1>0, RevisionAssumption DEF RInv, RevisionsBounded, TypeOK, Snapshot
    <3>2. AbstractHeld[k].rev # MaxRevision + 1
      BY <2>1, <2>3, <3>1
    <3> QED BY <3>2 DEF Abs!NoSnapshot
  <2>5. AbstractFile'
          = Abs!FileOf(Strip(desired), revision, AbstractSnapshot(held[k]))
    BY <2>1, AbstractWritten
  <2>6. AbstractApplied.rev = applied.rev
    BY <1>0, <2>1, AbstractUp DEF AbstractSnapshot
  <2>7. Abs!MarkApplied(k)
    BY <1>0, <2>1, <2>2, <2>3, <2>4, <2>5, <2>6, AbstractUp, AbstractKept
    DEF Abs!MarkApplied, Abs!Confirmable
  <2> QED BY <2>7
<1>3. CASE MarkApplied(k, saved) /\ ~saved
  BY <1>3, StutterAbs DEF MarkApplied, vars
<1> QED BY <1>1, <1>2, <1>3

LEMMA PersistAbs ==
  ASSUME RInv, RInv', PersistStaged PROVE Abs!PersistStaged
<1>0. TypeOK /\ TypeOK'
  BY DEF RInv, IInv
<1>1. up /\ up' /\ staged /\ staged' = FALSE /\ revision' = revision
      /\ desired' = desired /\ applied' = applied /\ held' = held
      /\ file' = FileOf(revision, desired, applied)
  BY DEF PersistStaged
<1>2. AbstractFile'
        = Abs!FileOf(Strip(desired), revision, AbstractSnapshot(applied))
  BY <1>1, AbstractWritten
<1> QED
  BY <1>0, <1>1, <1>2, AbstractUp, AbstractKept DEF Abs!PersistStaged

(* The runtime status is not part of the abstract store.                   *)
LEMMA StatusAbs ==
  ASSUME RInv, RInv', NEW id \in RuleIDs, NEW bad \in BOOLEAN,
         SetRuntimeStatus(id, bad)
  PROVE  UNCHANGED Abs!storeVars
<1>0. TypeOK /\ TypeOK' /\ desired \in ResourceSet
  BY DEF RInv, IInv, TypeOK
<1>1. desired' = StatusSet(desired, id, bad)
  BY DEF SetRuntimeStatus, StatusSet
<1>2. Strip(desired') = Strip(desired)
  BY <1>0, <1>1, StripStatus
<1>3. up /\ up' /\ staged' = staged /\ revision' = revision
      /\ applied' = applied /\ held' = held /\ file' = file
  BY DEF SetRuntimeStatus
<1> QED
  BY <1>0, <1>2, <1>3, AbstractUp, AbstractKept DEF Abs!storeVars

(* Loading is invisible: a store that is down already maps to what Load    *)
(* will produce.                                                           *)
LEMMA LoadAbs ==
  ASSUME RInv, RInv', LoadMissing \/ LoadLegacy \/ LoadCurrent
  PROVE  UNCHANGED Abs!storeVars
<1>0. /\ FileClean /\ FreshWhenDown /\ file.res \in ResourceSet
  BY DEF RInv, IInv, TypeOK, File
<1>1. held' = held
  BY DEF LoadMissing, LoadLegacy, LoadCurrent
<1>2. AbstractHeld' = AbstractHeld
  BY <1>1, AbstractKept
<1>3. CASE LoadMissing
  <2>1. /\ ~up /\ up' /\ file' = file /\ file = NoFile
        /\ staged' = FALSE /\ revision' = 0 /\ desired' = EmptySet
        /\ applied' = [res |-> EmptySet, routes |-> {}, rev |-> 0]
    BY <1>0, <1>3 DEF LoadMissing, FreshWhenDown
  <2>2. AbstractFile' = AbstractFile /\ AbstractFile.rev = 0
        /\ AbstractFile.res = EmptySet /\ AbstractFile.ares = EmptySet
        /\ AbstractFile.arev = 0
    BY <2>1 DEF AbstractFile, NoFile
  <2> QED
    BY <1>2, <2>1, <2>2, StripEmpty
    DEF Abs!storeVars, AbstractStaged, AbstractRevision, AbstractDesired,
        AbstractApplied, AbstractSnapshot
<1>4. CASE LoadLegacy
  <2>1. /\ ~up /\ up' /\ file.version = 2 /\ staged' = FALSE
        /\ revision' = 1 /\ desired' = file.res
        /\ applied' = [res |-> file.res, routes |-> Compile(file.res),
                       rev |-> 1]
        /\ file' = FileOf(1, file.res, applied')
    BY <1>4 DEF LoadLegacy
  <2>2. Strip(file.res) = file.res
    BY <1>0 DEF FileClean
  <2>3. AbstractFile = [res |-> file.res, rev |-> 1, ares |-> file.res,
                        arev |-> 1]
    BY <2>1 DEF AbstractFile
  <2>4. AbstractFile' = AbstractFile
    BY <2>1, <2>2, <2>3 DEF AbstractFile, FileOf
  <2> QED
    BY <1>2, <2>1, <2>2, <2>3, <2>4
    DEF Abs!storeVars, AbstractStaged, AbstractRevision, AbstractDesired,
        AbstractApplied, AbstractSnapshot
<1>5. CASE LoadCurrent
  <2>1. /\ ~up /\ up' /\ file.version = 3 /\ file' = file
        /\ staged' = FALSE /\ revision' = file.rev /\ desired' = file.res
        /\ applied' = [res |-> file.ares, routes |-> Compile(file.ares),
                       rev |-> file.arev]
    BY <1>5 DEF LoadCurrent
  <2>2. Strip(file.res) = file.res /\ Strip(file.ares) = file.ares
    BY <1>0 DEF FileClean
  <2>3. AbstractFile' = AbstractFile
        /\ AbstractFile.rev = file.rev /\ AbstractFile.res = file.res
        /\ AbstractFile.ares = file.ares /\ AbstractFile.arev = file.arev
    BY <2>1 DEF AbstractFile
  <2> QED
    BY <1>2, <2>1, <2>2, <2>3
    DEF Abs!storeVars, AbstractStaged, AbstractRevision, AbstractDesired,
        AbstractApplied, AbstractSnapshot
<1> QED BY <1>3, <1>4, <1>5

LEMMA CrashAbs == ASSUME Crash PROVE Abs!Restart
<1>1. ~up' /\ file' = file
  BY DEF Crash
<1>2. AbstractHeld' = [c \in Callers |-> Abs!NoSnapshot]
  BY StripEmpty
  DEF Crash, AbstractHeld, AbstractSnapshot, NoSnapshot, Abs!NoSnapshot
<1>3. AbstractFile' = AbstractFile
  BY <1>1, AbstractKept
<1> QED
  BY <1>1, <1>2, <1>3
  DEF Abs!Restart, AbstractStaged, AbstractRevision, AbstractDesired,
      AbstractApplied

LEMMA NextAbs ==
  ASSUME RInv, RInv', [Next]_vars PROVE [Abs!StoreNext]_Abs!storeVars
<1>0. IInv
  BY DEF RInv
<1>1. ASSUME NEW saved \in BOOLEAN,
             EditResource(saved) \/ EditRule(saved) \/ EditRoute(saved)
      PROVE  Abs!Edit \/ UNCHANGED Abs!storeVars
  BY <1>0, <1>1, ResourceStep, RuleStep, RouteStep, CommitAbs DEF Commits
<1>2. ASSUME NEW bundle \in Bundles, StageResources(bundle)
      PROVE  Abs!Stage \/ Abs!Replace \/ UNCHANGED Abs!storeVars
  BY <1>2, BundleAbs
<1>3. ASSUME NEW saved \in BOOLEAN, NEW bundle \in Bundles,
             ReplaceResources(bundle, saved)
      PROVE  Abs!Stage \/ Abs!Replace \/ UNCHANGED Abs!storeVars
  BY <1>3, BundleAbs
<1>4. ASSUME NEW k \in Callers, TakeDesired(k)
      PROVE  \/ Abs!TakeDesired(k) \/ Abs!MarkApplied(k)
             \/ UNCHANGED Abs!storeVars
  BY <1>4, SnapshotAbs
<1>5. ASSUME NEW saved \in BOOLEAN, NEW k \in Callers, MarkApplied(k, saved)
      PROVE  \/ Abs!TakeDesired(k) \/ Abs!MarkApplied(k)
             \/ UNCHANGED Abs!storeVars
  BY <1>5, SnapshotAbs
<1>6. ASSUME NEW id \in RuleIDs, NEW bad \in BOOLEAN,
             SetRuntimeStatus(id, bad)
      PROVE  UNCHANGED Abs!storeVars
  BY <1>6, StatusAbs
<1>7. CASE PersistStaged
  BY <1>7, PersistAbs DEF Abs!StoreNext
<1>8. CASE LoadMissing \/ LoadLegacy \/ LoadCurrent
  BY <1>8, LoadAbs
<1>9. CASE LoadRejected \/ UNCHANGED vars
  BY <1>9, StutterAbs DEF LoadRejected
<1>10. CASE Crash
  BY <1>10, CrashAbs DEF Abs!StoreNext
<1> QED
  BY <1>1, <1>2, <1>3, <1>4, <1>5, <1>6, <1>7, <1>8, <1>9, <1>10
  DEF Next, Abs!StoreNext

(* The detailed store implements the abstract one: what StagedStore        *)
(* promises of durability, pending changes and confirmed revisions holds   *)
(* of the code's resources, files and migrations.                          *)
THEOREM Refinement == Spec => ImplementsStagedStore
<1>1. RInv /\ RInv' /\ [Next]_vars => [Abs!StoreNext]_Abs!storeVars
  BY NextAbs
<1>2. Spec => []RInv
  BY InitRInv, NextRInv, PTL DEF Spec
<1> QED
  BY <1>1, <1>2, InitAbs, PTL DEF Spec, ImplementsStagedStore, Abs!StoreSpec

=============================================================================
