------------------------- MODULE ControlPlaneProofs -------------------------
(***************************************************************************)
(* Theorems about ControlPlane for every set of clients, configurations,   *)
(* resource sets and discovered routes, and any number of failures and     *)
(* crashes.                                                                *)
(***************************************************************************)
EXTENDS ControlPlane, TLAPS

----------------------------------------------------------------------------
(* The routing store, as StagedStore specifies it: whatever the goroutines *)
(* do with it, and not only what the control plane makes them do.          *)

(* The file by itself is consistent: what PendingExact says of the memory. *)
StoreFileExact ==
  /\ file.arev <= file.rev
  /\ file.arev = file.rev => file.ares = file.res

(* PendingExact is not inductive: a confirmation relies on the snapshot of *)
(* the caller, a restart on the file.                                      *)
StoreInv ==
  /\ StoreTypeOK /\ Durable /\ PendingExact
  /\ StoreFileExact /\ SnapshotsSound

LEMMA StoreFileType ==
  ASSUME NEW res \in Content, NEW rev \in 0..MaxRevision,
         NEW snap \in Snapshot
  PROVE  FileOf(res, rev, snap) \in File
  BY DEF FileOf, File, Snapshot

LEMMA StoreInvInit == StoreInit => StoreInv
<1> SUFFICES ASSUME StoreInit PROVE StoreInv
  OBVIOUS
<1>1. StoreTypeOK
  <2>1. revision \in 0..MaxRevision /\ desired \in Content
    BY ContentAssumption, RevisionAssumption DEF StoreInit
  <2>2. applied \in Snapshot
    BY <2>1 DEF StoreInit, Snapshot
  <2>3. file \in File
    BY <2>1, <2>2, StoreFileType DEF StoreInit
  <2> QED
    BY <2>1, <2>2, <2>3 DEF StoreInit, StoreTypeOK
<1>2. Durable /\ PendingExact /\ StoreFileExact
  BY ContentAssumption, RevisionAssumption
  DEF StoreInit, Durable, PendingExact, StoreFileExact,
      FileOf
<1>3. SnapshotsSound
  BY DEF StoreInit, SnapshotsSound
<1> QED
  BY <1>1, <1>2, <1>3 DEF StoreInv

(* No snapshot is not a snapshot: its revision lies beyond the bound.      *)
LEMMA StoreSnapshot ==
  ASSUME StoreTypeOK, NEW k \in Callers, held[k] # NoSnapshot
  PROVE  held[k] \in Snapshot
  BY DEF StoreTypeOK

LEMMA StoreInvNext == StoreInv /\ [StoreNext]_storeVars => StoreInv'
<1> SUFFICES ASSUME StoreInv, [StoreNext]_storeVars PROVE StoreInv'
  OBVIOUS
<1> USE ContentAssumption, RevisionAssumption
<1>0. /\ StoreTypeOK /\ Durable /\ PendingExact
      /\ StoreFileExact /\ SnapshotsSound
  BY DEF StoreInv
<1>1. CASE Edit
  <2>1. StoreTypeOK'
    <3>1. revision' \in 0..MaxRevision /\ desired' \in Content
      BY <1>0, <1>1 DEF Edit, StoreTypeOK
    <3>2. file' \in File
      BY <1>0, <1>1, <3>1, StoreFileType DEF Edit, StoreTypeOK
    <3> QED
      BY <1>0, <1>1, <3>1, <3>2 DEF Edit, StoreTypeOK
  <2>2. Durable' /\ PendingExact' /\ StoreFileExact'
    BY <1>0, <1>1
    DEF Edit, Durable, PendingExact, StoreFileExact,
        FileOf, StoreTypeOK, Snapshot, File
  <2>3. SnapshotsSound'
    BY <1>0, <1>1, StoreSnapshot
    DEF Edit, SnapshotsSound, StoreTypeOK, Snapshot
  <2> QED BY <2>1, <2>2, <2>3 DEF StoreInv
<1>2. CASE Replace
  <2>1. StoreTypeOK'
    <3>1. revision' \in 0..MaxRevision /\ desired' \in Content
      BY <1>0, <1>2 DEF Replace, StoreTypeOK
    <3>2. file' \in File
      BY <1>0, <1>2, <3>1, StoreFileType DEF Replace, StoreTypeOK
    <3> QED
      BY <1>0, <1>2, <3>1, <3>2 DEF Replace, StoreTypeOK
  <2>2. Durable' /\ PendingExact' /\ StoreFileExact'
    BY <1>0, <1>2
    DEF Replace, Durable, PendingExact, StoreFileExact,
        FileOf, StoreTypeOK, Snapshot, File
  <2>3. SnapshotsSound'
    BY <1>0, <1>2, StoreSnapshot
    DEF Replace, SnapshotsSound, StoreTypeOK, Snapshot
  <2> QED BY <2>1, <2>2, <2>3 DEF StoreInv
<1>3. CASE Stage
  <2>1. StoreTypeOK'
    BY <1>0, <1>3 DEF Stage, StoreTypeOK, Snapshot, File
  <2>2. Durable' /\ PendingExact' /\ StoreFileExact'
    BY <1>0, <1>3
    DEF Stage, Durable, PendingExact, StoreFileExact,
        StoreTypeOK, Snapshot
  <2>3. SnapshotsSound'
    BY <1>0, <1>3, StoreSnapshot
    DEF Stage, SnapshotsSound, StoreTypeOK, Snapshot
  <2> QED BY <2>1, <2>2, <2>3 DEF StoreInv
<1>4. CASE PersistStaged
  <2>1. StoreTypeOK'
    BY <1>0, <1>4, StoreFileType DEF PersistStaged, StoreTypeOK
  <2>2. Durable' /\ PendingExact' /\ StoreFileExact'
    BY <1>0, <1>4
    DEF PersistStaged, Durable, PendingExact,
        StoreFileExact, FileOf, StoreTypeOK, Snapshot
  <2>3. SnapshotsSound'
    BY <1>0, <1>4 DEF PersistStaged, SnapshotsSound
  <2> QED BY <2>1, <2>2, <2>3 DEF StoreInv
<1>5. ASSUME NEW k \in Callers, TakeDesired(k) PROVE StoreInv'
  <2>1. StoreTypeOK'
    BY <1>0, <1>5 DEF TakeDesired, StoreTypeOK, Snapshot
  <2>2. Durable' /\ PendingExact' /\ StoreFileExact'
    BY <1>0, <1>5
    DEF TakeDesired, Durable, PendingExact, StoreFileExact
  <2>3. SnapshotsSound'
    <3> SUFFICES ASSUME NEW i \in Callers, held'[i] # NoSnapshot
                 PROVE  /\ held'[i].rev <= revision
                        /\ held'[i].rev = revision => held'[i].res = desired
                        /\ held'[i].rev = applied.rev =>
                             held'[i].res = applied.res
                        /\ \A j \in Callers : held'[j].rev = held'[i].rev =>
                             held'[j] = held'[i]
      BY <1>5 DEF TakeDesired, SnapshotsSound, NoSnapshot
    <3>1. /\ held'[k] = [res |-> desired, rev |-> revision]
          /\ \A j \in Callers \ {k} : held'[j] = held[j]
      BY <1>0, <1>5 DEF TakeDesired, StoreTypeOK
    <3>2. \A j \in Callers : held[j].rev = revision =>
            held[j] = [res |-> desired, rev |-> revision]
      BY <1>0
      DEF SnapshotsSound, StoreTypeOK, Snapshot,
          NoSnapshot
    <3>3. CASE i = k
      BY <1>0, <3>1, <3>2, <3>3 DEF PendingExact, StoreTypeOK
    <3>4. CASE i # k
      BY <1>0, <3>1, <3>2, <3>4 DEF SnapshotsSound
    <3> QED BY <3>3, <3>4
  <2> QED BY <2>1, <2>2, <2>3 DEF StoreInv
<1>6. ASSUME NEW k \in Callers, MarkApplied(k) PROVE StoreInv'
  <2>0. held[k] \in Snapshot
    BY <1>0, <1>6, StoreSnapshot DEF MarkApplied
  <2>1. StoreTypeOK'
    BY <1>0, <1>6, <2>0, StoreFileType DEF MarkApplied, StoreTypeOK
  <2>2. Durable' /\ PendingExact' /\ StoreFileExact'
    BY <1>0, <1>6, <2>0
    DEF MarkApplied, Durable, PendingExact, StoreFileExact,
        SnapshotsSound, FileOf, StoreTypeOK, Snapshot
  <2>3. SnapshotsSound'
    BY <1>0, <1>6 DEF MarkApplied, SnapshotsSound
  <2> QED BY <2>1, <2>2, <2>3 DEF StoreInv
<1>7. ASSUME NEW k \in Callers, Forget(k) PROVE StoreInv'
  <2>1. StoreTypeOK'
    BY <1>0, <1>7 DEF Forget, StoreTypeOK
  <2>2. Durable' /\ PendingExact' /\ StoreFileExact'
    BY <1>0, <1>7
    DEF Forget, Durable, PendingExact, StoreFileExact
  <2>3. SnapshotsSound'
    BY <1>0, <1>7, StoreSnapshot
    DEF Forget, SnapshotsSound, StoreTypeOK, Snapshot,
        NoSnapshot
  <2> QED BY <2>1, <2>2, <2>3 DEF StoreInv
<1>8. CASE Restart
  <2>1. StoreTypeOK'
    BY <1>0, <1>8 DEF Restart, StoreTypeOK, Snapshot, File
  <2>2. Durable' /\ PendingExact' /\ StoreFileExact'
    BY <1>0, <1>8
    DEF Restart, Durable, PendingExact, StoreFileExact
  <2>3. SnapshotsSound'
    BY <1>8 DEF Restart, SnapshotsSound, NoSnapshot
  <2> QED BY <2>1, <2>2, <2>3 DEF StoreInv
<1>9. CASE UNCHANGED storeVars
  BY <1>0, <1>9
  DEF storeVars, StoreInv, StoreTypeOK, Durable,
      PendingExact, StoreFileExact, SnapshotsSound
<1> QED
  BY <1>1, <1>2, <1>3, <1>4, <1>5, <1>6, <1>7, <1>8, <1>9 DEF StoreNext

LEMMA StoreInductive == StoreSpec => []StoreInv
<1> QED BY StoreInvInit, StoreInvNext, PTL DEF StoreSpec

(* The state of the routing store always has its type.                     *)
THEOREM StoreTyped == StoreSpec => []StoreTypeOK
<1>1. StoreInv => StoreTypeOK
  BY DEF StoreInv
<1> QED BY <1>1, StoreInductive, PTL

(* The file always holds what is confirmed and, unless an import is        *)
(* staged, what is desired: saveLocked before every success.               *)
THEOREM StoreDurable == StoreSpec => []Durable
<1>1. StoreInv => Durable
  BY DEF StoreInv
<1> QED BY <1>1, StoreInductive, PTL

(* The Pending flag of the store is exact although it compares revision    *)
(* numbers only.                                                           *)
THEOREM PendingIsExact == StoreSpec => []PendingExact
<1>1. StoreInv => PendingExact
  BY DEF StoreInv
<1> QED BY <1>1, StoreInductive, PTL

(* Snapshots that callers work on stay what their revision names.          *)
THEOREM HeldSnapshotsSound == StoreSpec => []SnapshotsSound
<1>1. StoreInv => SnapshotsSound
  BY DEF StoreInv
<1> QED BY <1>1, StoreInductive, PTL

(* The confirmed revision never goes back and never changes its meaning,   *)
(* restarts included.                                                      *)
THEOREM ConfirmedForGood == StoreSpec => AppliedMonotone
<1> DEFINE Forward ==
      /\ applied'.rev >= applied.rev
      /\ applied'.rev = applied.rev => applied'.res = applied.res
<1>1. ASSUME StoreInv, [StoreNext]_storeVars PROVE [Forward]_storeVars
  <2>0. StoreTypeOK /\ Durable /\ SnapshotsSound
    BY <1>1 DEF StoreInv
  <2>1. ASSUME NEW k \in Callers, MarkApplied(k) PROVE Forward
    BY <2>0, <2>1, StoreSnapshot
    DEF MarkApplied, Confirmable, SnapshotsSound,
        StoreTypeOK, Snapshot
  <2>2. CASE Restart
    BY <2>0, <2>2
    DEF Restart, Durable, StoreTypeOK, Snapshot
  <2>3. ASSUME applied' = applied PROVE Forward
    BY <2>0, <2>3, RevisionAssumption DEF StoreTypeOK, Snapshot
  <2>4. CASE UNCHANGED storeVars
    BY <2>4
  <2> QED
    BY <1>1, <2>1, <2>2, <2>3, <2>4
    DEF StoreNext, Edit, Replace, Stage,
        PersistStaged, TakeDesired, Forget
<1> QED BY <1>1, StoreInductive, PTL DEF StoreSpec, AppliedMonotone

----------------------------------------------------------------------------
(* The inductive invariant: who holds which lock in which phase, and what  *)
(* the local variables of a sync and the shared state have to do with each *)
(* other there.                                                            *)

(* A sync up to its commit or roll back, and its part after the load.      *)
Loaded == {"commit", "importCert", "importRoutes", "undoSettings",
           "undoBoth", "undoCert"}
Late == Loaded \cup {"rollback"}
Syncing == {"read", "build", "load"} \cup Late

(* The files of an import are being written or restored.                   *)
Importing == {"importCert", "importRoutes", "undoSettings", "undoBoth",
              "undoCert"}

(* A sync after its commit, when it does not hold syncMu any more.         *)
Checking == {"health", "azure", "azuring", "finish"}

Kinds == {"apply", "settings", "cert", "refresh", "tick"}
Passes == {"skipped", "done", "failed"}

(* What sync keeps in its local variables, for itself and for the checks,  *)
(* and what it reports.                                                    *)
Tx == [prevCfg : Config \cup {None}, prev : Snapshot \cup {None},
       prevDisc : Discs \cup {None}, prevRt : Runtime \cup {None},
       rt : Runtime \cup {None}, loaded : BOOLEAN]
Post == [rt : Runtime \cup {None}, azure : Passes \cup {None}]
Result == [loaded : BOOLEAN, error : BOOLEAN, rt : Runtime \cup {None},
           azure : Passes \cup {None}]

(* TypeOK, with the variables it leaves open.                              *)
Types ==
  /\ TypeOK
  /\ DOMAIN job = Callers
  /\ tx \in Tx
  /\ post \in [Callers -> Post]
  /\ last \in Result
  /\ selected \subseteq Content
  /\ diverged \in BOOLEAN /\ undoFailed \in BOOLEAN

(* The phase of a goroutine says which locks it holds.                     *)
Locks ==
  /\ \A p \in Callers : pc[p] \in Syncing \cup {"inspecting"} <=> syncMu = p
  /\ \A p \in Clients : pc[p] # "idle" <=> mutationMu = p
  /\ \A p \in Callers : pc[p] = "azuring" <=> azureMu = p
  /\ \A p \in Callers : pc[p] \in Syncing => newest = p

(* The candidates of a settings and of a certificate request.              *)
WithLive(cfg, v) == [cfg EXCEPT !.live = v]
WithCert(cfg, v) == [cfg EXCEPT !.cert = v]

(* What the request of p carries fits the state it will be committed to.   *)
Carries(p) ==
  /\ job[p].kind \in {"tick", "refresh"} => job[p].cand = None
  /\ job[p].kind = "apply" =>
       job[p].cand = IF draft = None THEN None ELSE draft.cfg
  /\ job[p].kind \in {"settings", "cert", "refresh"} => draft = None
  /\ job[p].kind = "settings" =>
       /\ job[p].save \in Settings
       /\ job[p].cand = WithLive(scfg, job[p].save.live)
  /\ job[p].kind = "cert" =>
       /\ job[p].save \in Certs
       /\ job[p].cand = WithCert(scfg, job[p].save)

(* What a request is for, up to its commit.                                *)
Jobs ==
  /\ \A p \in Clients : pc[p] # "idle" => job[p].kind \in Kinds \ {"tick"}
  /\ pc[Background] # "idle" => job[Background].kind = "tick"
  /\ pc[Background] \notin {"inspect", "inspecting"}
  /\ \A p \in Callers : pc[p] \in {"want"} \cup Syncing => Carries(p)
  /\ \A p \in Callers : pc[p] \in Late =>
       job[p].kind \in {"apply", "settings", "cert"}
  /\ \A p \in Callers : pc[p] \in Importing =>
       job[p].kind = "apply" /\ draft # None

(* What the sync of p remembers.                                           *)
Remembers(p) ==
  /\ tx.prev = applied /\ tx.prevCfg = scfg /\ tx.prevDisc \in Discs
  /\ pc[p] = "read" => job[p].cand # None
  /\ IF pc[p] = "read" \/ job[p].cand = None
     THEN rcfg = scfg /\ tx.prevRt = None
     ELSE rcfg = job[p].cand /\ tx.prevRt # None

(* What it has rendered: the desired routes for Apply, else the applied    *)
(* ones, under the candidate configuration if there is one.                *)
Rendered(p) ==
  /\ tx.rt \in Runtime
  /\ tx.rt.live = rcfg.live /\ tx.rt.cert = rcfg.cert
  /\ Renderable(tx.rt.res, tx.rt.disc)
  /\ IF job[p].kind = "apply"
     THEN held[p] # NoSnapshot /\ tx.rt.res = held[p].res
     ELSE tx.rt.res = applied.res

Locals ==
  /\ (\A p \in Callers : pc[p] \notin Syncing) => rcfg = scfg
  /\ \A p \in Callers : pc[p] \in Syncing => Remembers(p)
  /\ \A p \in Callers : pc[p] \in Syncing \ {"read", "build"} => Rendered(p)

(* What Caddy runs in each phase of a sync.                                *)
Running ==
  /\ (\A p \in Callers : pc[p] \notin Late) /\ ~diverged =>
       inflight = None /\ Serves(caddy, applied.res, scfg)
  /\ \A p \in Callers : pc[p] \in Syncing /\ tx.prevRt # None /\ ~diverged =>
       Serves(tx.prevRt, applied.res, scfg)
  /\ \A p \in Callers : pc[p] \in Loaded => caddy = tx.rt /\ inflight = None

(* What is in the files in each phase of an import.                        *)
Files ==
  /\ staged = (draft # None)
  /\ draft # None =>
       draft.cfg = [live |-> draft.settings.live, boot |-> scfg.boot,
                    cert |-> draft.cert]
  /\ \A p \in Callers :
       /\ pc[p] \in {"importCert", "importRoutes"} =>
            settingsFile = draft.settings
       /\ pc[p] = "importRoutes" => certFile = draft.cert
  /\ ~undoFailed =>
       /\ draft # None => /\ draft.prevSettings.live = scfg.live
                          /\ draft.prevCert = scfg.cert
       /\ (\A p \in Callers : pc[p] \notin Importing) =>
            /\ settingsFile.live = scfg.live /\ certFile = scfg.cert
            /\ draft # None => draft.prevSettings = settingsFile
       /\ \A p \in Callers :
            /\ pc[p] \in {"importCert", "undoSettings"} =>
                 certFile = scfg.cert
            /\ pc[p] = "undoCert" => settingsFile = draft.prevSettings

(* Everything Caddy runs, may run or can be sent back to was selected, and *)
(* what is confirmed renders by itself.                                    *)
Chosens ==
  /\ file.ares = applied.res
  /\ Renderable(applied.res, NoDisc)
  /\ applied.res \in selected /\ caddy.res \in selected
  /\ inflight # None => inflight.res \in selected
  /\ \A p \in Callers :
       /\ pc[p] \in {"want", "read", "build"} /\ job[p].kind = "apply" =>
            desired \in selected
       /\ pc[p] \in Syncing /\ tx.prevRt # None => tx.prevRt.res \in selected
       /\ pc[p] \in Syncing \ {"read", "build"} => tx.rt.res \in selected

(* The newest sync, while it checks and after it has reported.             *)
Results ==
  /\ \A p \in Callers :
       pc[p] \in Syncing \cup Checking /\ newest = p => last = NoResult
  /\ last.loaded /\ ~last.error =>
       caddy = last.rt /\ Serves(caddy, applied.res, scfg) /\ inflight = None
  /\ last.azure = "done" =>
       /\ last.loaded /\ ~last.error /\ cloud = caddy
       /\ \A p \in Callers : pc[p] # "azuring"
  /\ \A p \in Callers : pc[p] \in Checking /\ newest = p =>
       post[p].rt = caddy /\ Serves(caddy, applied.res, scfg) /\ inflight = None
  /\ \A p \in Callers : pc[p] \in Checking \ {"finish"} =>
       post[p].azure = "skipped"
  /\ \A p \in Callers :
       pc[p] = "finish" /\ newest = p /\ post[p].azure = "done" =>
         cloud = post[p].rt /\ \A q \in Callers : pc[q] # "azuring"

IInv == /\ Types /\ Locks /\ Jobs /\ Locals /\ Running /\ Files /\ Chosens
        /\ Results

----------------------------------------------------------------------------
(* The control plane uses the store through its operations only.           *)

LEMMA StoreStep == [Next]_vars => [StoreNext]_storeVars
<1> SUFFICES ASSUME [Next]_vars PROVE [StoreNext]_storeVars
  OBVIOUS
<1>1. CASE EditRoutes
  BY <1>1 DEF EditRoutes, StoreNext
<1>2. ASSUME NEW s \in Settings, NEW c \in Certs, ImportBundle(s, c)
      PROVE  StoreNext
  BY <1>2 DEF ImportBundle, StoreNext
<1>3. ASSUME NEW p \in Callers, NEW kind, NEW cand, NEW save,
             CallSync(p, kind, cand, save)
      PROVE  UNCHANGED storeVars
  BY <1>3 DEF CallSync, storeVars, storeVars
<1>4. ASSUME NEW p \in Callers, Build(p)
      PROVE  [StoreNext]_storeVars
  BY <1>4 DEF Build, storeVars, StoreNext, storeVars
<1>5. ASSUME NEW p \in Callers, CommitRoutes(p) \/ ImportRoutes(p)
      PROVE  [StoreNext]_storeVars
  BY <1>5
  DEF CommitRoutes, ImportRoutes, storeVars, StoreNext, storeVars
<1>6. ASSUME NEW p \in Callers, LoadFails(p) \/ Rollback(p) \/ Health(p)
      PROVE  [StoreNext]_storeVars
  <2>1. Forget(p) \/ UNCHANGED storeVars
    BY <1>6
    DEF LoadFails, Rollback, Health, Forget, storeVars
  <2> QED
    BY <2>1 DEF StoreNext
<1>7. CASE Crash
  BY <1>7 DEF Crash, StoreNext
<1>8. CASE UNCHANGED storeVars
  BY <1>8 DEF storeVars, storeVars
<1>9. ASSUME NEW p \in Callers, Step(p)
      PROVE  [StoreNext]_storeVars
  <2>1. CASE StartSync(p) \/ ReadRuntime(p) \/ LoadOK(p) \/ CommitConfig(p)
             \/ ImportSettings(p) \/ ImportCert(p) \/ UndoSettings(p)
             \/ UndoCert(p) \/ AzureStart(p) \/ AzureEnd(p) \/ Finish(p)
             \/ Inspect(p) \/ InspectEnd(p)
    BY <2>1, <1>8
    DEF StartSync, ReadRuntime, LoadOK, CommitConfig, ImportSettings,
        ImportCert, UndoSettings, UndoCert, AzureStart, AzureEnd, Finish,
        Inspect, InspectEnd
  <2> QED
    BY <1>9, <1>4, <1>5, <1>6, <2>1 DEF Step
<1>10. CASE LateLoad \/ UNCHANGED vars
  BY <1>10, <1>8 DEF LateLoad, vars
<1>11. ASSUME NEW b \in Boots, SaveSystemSettings(b)
       PROVE  [StoreNext]_storeVars
  BY <1>11, <1>8 DEF SaveSystemSettings
<1>12. Background \in Callers /\ Clients \subseteq Callers
  BY ProcAssumption DEF Clients
<1> QED
  BY <1>1, <1>2, <1>3, <1>7, <1>9, <1>10, <1>11, <1>12
  DEF Next, Tick, Apply, RefreshCertificate, ChangeSecurity, RotateToken,
      ChangeCertificate

(* The control plane drives the routing store only through the interface   *)
(* that StagedStore specifies, so that everything proved of StagedStore    *)
(* (durability, exact Pending flag, sound snapshots, confirmed revisions   *)
(* that never go back) holds in the running gateway.                       *)
THEOREM UsesStore == Spec => StoreSpec
<1>1. Init => StoreInit
  BY DEF Init
<1> QED
  BY <1>1, StoreStep, PTL DEF Spec, StoreSpec

(* So the running gateway has a store whose file holds what is confirmed,  *)
(* whose Pending flag is exact, whose snapshots stay what they are while a *)
(* sync works on them, and whose confirmed revision never goes back, with  *)
(* requests, background syncs, failures and crashes in any order.          *)
THEOREM StoreKept ==
  Spec => /\ []Durable /\ []PendingExact /\ []SnapshotsSound
          /\ AppliedMonotone
BY UsesStore, StoreDurable, PendingIsExact, HeldSnapshotsSound,
   ConfirmedForGood, PTL

----------------------------------------------------------------------------
(* The inductive invariant holds initially.                                *)

LEMMA StoreType ==
  ASSUME StoreTypeOK, [StoreNext]_storeVars
  PROVE  StoreTypeOK'
<1>1. \A res \in Content, rev \in 0..MaxRevision, snap \in Snapshot :
        FileOf(res, rev, snap) \in File
  BY DEF FileOf, File, Snapshot
<1>2. CASE Edit \/ Replace \/ Stage
  <2>1. revision' \in 0..MaxRevision
    BY <1>2, RevisionAssumption
    DEF StoreTypeOK, Edit, Replace, Stage
  <2> QED
    BY <1>1, <1>2, <2>1
    DEF StoreTypeOK, Edit, Replace, Stage
<1>3. CASE PersistStaged
  BY <1>1, <1>3 DEF StoreTypeOK, PersistStaged
<1>4. ASSUME NEW k \in Callers,
             TakeDesired(k) \/ MarkApplied(k) \/ Forget(k)
      PROVE  StoreTypeOK'
  <2>1. CASE TakeDesired(k)
    <3>1. [res |-> desired, rev |-> revision] \in Snapshot
      BY DEF StoreTypeOK, Snapshot
    <3> QED
      BY <2>1, <3>1 DEF StoreTypeOK, TakeDesired
  <2>2. CASE MarkApplied(k)
    BY <1>1, <2>2 DEF StoreTypeOK, MarkApplied
  <2>3. CASE Forget(k)
    BY <2>3 DEF StoreTypeOK, Forget
  <2> QED
    BY <1>4, <2>1, <2>2, <2>3
<1>5. CASE Restart
  BY <1>5 DEF StoreTypeOK, Restart, File, Snapshot
<1>6. CASE UNCHANGED storeVars
  BY <1>6 DEF StoreTypeOK, storeVars
<1> QED
  BY <1>2, <1>3, <1>4, <1>5, <1>6 DEF StoreNext

LEMMA InitIInv == Init => IInv
<1> SUFFICES ASSUME Init PROVE IInv
  OBVIOUS
<1> USE ContentAssumption, RevisionAssumption, ValueAssumption, AbsentAssumption
<1>1. applied = [res |-> Empty, rev |-> revision]
      /\ file = FileOf(Empty, revision, applied)
      /\ revision \in 0..MaxRevision
  BY DEF Init, StoreInit
<1>2. /\ settingsFile \in Settings /\ scfg \in Config
      /\ scfg.live = settingsFile.live /\ scfg.cert = certFile
  BY DEF Init, Settings, Config, ConfigFromFiles
<1>3. /\ caddy \in Runtime /\ caddy.res = Empty
      /\ caddy.live = scfg.live /\ caddy.cert = scfg.cert
  BY <1>1, <1>2 DEF Init, Render, Runtime, Config
<1>4. Types
  <2>1. StoreTypeOK
    <3>1. applied \in Snapshot /\ file \in File
      BY <1>1 DEF FileOf, File, Snapshot
    <3> QED
      BY <1>1, <3>1 DEF Init, StoreInit, StoreTypeOK
  <2>2. TypeOK
    BY <1>2, <1>3, <2>1 DEF Init, TypeOK, Phases, NoJob
  <2> QED
    BY <1>1, <2>2 DEF Init, Types, Tx, Post, Result, NoTx, NoPost, NoResult
<1>5. Locks /\ Jobs /\ Locals
  BY ProcAssumption, <1>2
  DEF Init, Locks, Jobs, Locals, Syncing, Late, Loaded, Clients, Importing
<1>6. Running /\ Files
  <2>1. Running
    BY <1>1, <1>3 DEF Init, Running, Serves, Syncing, Late, Loaded
  <2>2. Files
    BY <1>2 DEF Init, StoreInit, Files
  <2> QED
    BY <2>1, <2>2
<1>7. Chosens
  BY <1>1, <1>3, RenderAssumption
  DEF Init, Chosens, FileOf, Renderable, Syncing, Late, Loaded
<1>8. Results
  BY DEF Init, Results, NoResult, Syncing, Late, Loaded, Checking
<1> QED
  BY <1>4, <1>5, <1>6, <1>7, <1>8 DEF IInv

----------------------------------------------------------------------------
(* Consequences of the invariant that most actions need.                   *)

(* One sync at a time: when p holds syncMu nobody else does.               *)
LEMMA OneSync ==
  ASSUME Locks, NEW p \in Callers, pc[p] \in Syncing \cup {"inspecting"}
  PROVE  /\ syncMu = p
         /\ \A q \in Callers \ {p} : pc[q] \notin Syncing \cup {"inspecting"}
  BY DEF Locks

(* One request at a time: while a client is served the others are idle.    *)
LEMMA OneRequest ==
  ASSUME Types, Locks, NEW p \in Clients, pc[p] # "idle"
  PROVE  mutationMu = p /\ \A q \in Clients \ {p} : pc[q] = "idle"
  BY DEF Locks

LEMMA RuntimeFields ==
  ASSUME NEW rt \in Runtime
  PROVE  /\ rt.res \in Content /\ rt.disc \in Discs
         /\ rt.live \in Lives /\ rt.cert \in Certs
  BY DEF Runtime

LEMMA NoTxType == NoTx \in Tx /\ NoTx.prevRt = None
  BY DEF NoTx, Tx

LEMMA NoResultFields ==
  /\ NoResult \in Result /\ NoPost \in Post
  /\ ~NoResult.loaded /\ NoResult.azure = None
  BY DEF NoResult, NoPost, Result, Post

----------------------------------------------------------------------------
(* Every action preserves the invariant.                                   *)

(* A sync that stays before its commit or roll back keeps the locks; what  *)
(* it does to Caddy contradicts no result, because it is the newest one.   *)
LEMMA MoveInd ==
  ASSUME IInv, NEW p \in Callers, pc[p] \in Syncing,
         NEW x \in Syncing, pc' = [pc EXCEPT ![p] = x],
         x \in Late => job[p].kind \in {"apply", "settings", "cert"},
         x \in Importing => job[p].kind = "apply" /\ draft # None,
         UNCHANGED <<job, last, newest, mutationMu, syncMu, azureMu, post,
                     draft, scfg, applied, cloud>>
  PROVE  /\ Locks' /\ Jobs' /\ Results'
         /\ pc' \in [Callers -> Phases]
         /\ pc'[p] = x
         /\ \A q \in Callers \ {p} :
              pc'[q] = pc[q] /\ pc[q] \notin Syncing \cup Late \cup Importing
<1> USE ProcAssumption
<1>0. Types /\ Locks /\ Jobs /\ Results
  BY DEF IInv
<1>1. /\ pc'[p] = x /\ pc \in [Callers -> Phases]
      /\ \A q \in Callers \ {p} : pc'[q] = pc[q]
  BY <1>0 DEF Types, TypeOK
<1>2. \A q \in Callers \ {p} : pc[q] \notin Syncing \cup Late \cup Importing
  BY <1>0, OneSync DEF Syncing, Late, Loaded, Importing
<1>3. x \in Phases
  BY DEF Phases, Syncing, Late, Loaded
<1>4. Locks'
  BY ProcAssumption, <1>0, <1>1, <1>2 DEF Locks, Clients, Syncing, Late, Loaded
<1>5. Jobs'
  BY ProcAssumption, <1>0, <1>1, <1>2
  DEF Jobs, Carries, Clients, Syncing, Late, Loaded
<1>6. newest = p /\ last = NoResult
  BY <1>0 DEF Locks, Results
<1>7. Results'
  BY <1>0, <1>1, <1>2, <1>6, NoResultFields
  DEF Results, Serves, Syncing, Late, Loaded, Checking
<1> QED
  BY <1>1, <1>2, <1>3, <1>4, <1>5, <1>7

(* A sync that fails leaves everything but Caddy as it found it.           *)
LEMMA FailInd ==
  ASSUME IInv, StoreTypeOK', NEW p \in Callers, NEW l \in BOOLEAN,
         pc[p] \in Syncing \ Importing, Fail(p, l),
         rcfg' = scfg, lastDisc' \in Discs,
         UNCHANGED <<staged, desired, applied, file, fileVars, scfg, draft,
                     newest, azureMu, post, cloud, selected, undoFailed>>,
         caddy' \in Runtime, inflight' \in Runtime \cup {None},
         diverged' \in BOOLEAN,
         caddy'.res \in selected,
         inflight' # None => inflight'.res \in selected,
         ~diverged' => inflight' = None /\ Serves(caddy', applied.res, scfg)
  PROVE  IInv'
<1> USE AbsentAssumption, ProcAssumption
<1>0. /\ Types /\ Locks /\ Jobs /\ Locals /\ Running /\ Files /\ Chosens
      /\ Results
  BY DEF IInv
<1>1. /\ syncMu = p /\ newest = p
      /\ \A q \in Callers \ {p} :
           pc[q] \notin Syncing \cup Late \cup Importing \cup {"inspecting"}
  BY <1>0, OneSync DEF Locks, Syncing, Late, Loaded, Importing
<1>2. /\ last' = [loaded |-> l, error |-> TRUE, rt |-> None, azure |-> None]
      /\ syncMu' = None /\ tx' = NoTx /\ Return(p, FALSE)
  BY DEF Fail
<1>3. /\ pc' \in [Callers -> Phases] /\ pc'[p] \in {"idle", "inspect"}
      /\ \A q \in Callers \ {p} : pc'[q] = pc[q]
      /\ DOMAIN job' = Callers
      /\ \A q \in Callers \ {p} : job'[q] = job[q]
      /\ pc'[p] = "idle" => job'[p] = NoJob
      /\ pc'[p] # "idle" => job'[p] = job[p] /\ job[p].kind = "refresh"
      /\ mutationMu' = IF mutationMu = p /\ pc'[p] = "idle" THEN None
                       ELSE mutationMu
  BY <1>0, <1>2 DEF Return, Types, TypeOK, Phases
<1>4. pc[p] # "idle"
  BY DEF Syncing, Late, Loaded
<1>5. Types'
  <2>1. last' \in Result
    BY <1>2 DEF Result
  <2>2. \A q \in Callers : job'[q].cand \in Config \cup {None}
    BY <1>0, <1>3 DEF Types, TypeOK, NoJob
  <2>3. TypeOK'
    BY <1>0, <1>2, <1>3, <2>2 DEF Types, TypeOK, fileVars
  <2> QED
    BY <1>0, <1>2, <1>3, <2>1, <2>3, NoTxType DEF Types
<1>6. Locks'
  BY ProcAssumption, <1>0, <1>1, <1>2, <1>3, <1>4
  DEF Locks, Types, TypeOK, Clients, Syncing, Late, Loaded
<1>7. Jobs'
  BY ProcAssumption, <1>0, <1>1, <1>3, <1>4
  DEF Jobs, Carries, Clients, Syncing, Late, Loaded, Importing
<1>8. Locals'
  BY <1>0, <1>1, <1>3 DEF Locals, Syncing, Late, Loaded
<1>9. Running'
  BY <1>0, <1>1, <1>3 DEF Running, Serves, Syncing, Late, Loaded
<1>10. Files'
  BY <1>0, <1>1, <1>3 DEF Files, Importing, fileVars
<1>11. Chosens'
  BY <1>0, <1>1, <1>3 DEF Chosens, Syncing, Late, Loaded
<1>12. Results'
  BY <1>0, <1>1, <1>2, <1>3
  DEF Results, Syncing, Late, Loaded, Checking
<1> QED
  BY <1>5, <1>6, <1>7, <1>8, <1>9, <1>10, <1>11, <1>12 DEF IInv

(* A sync that commits leaves Caddy, the store, both copies of the         *)
(* configuration and the files in agreement.                               *)
LEMMA ReleaseInd ==
  ASSUME IInv, StoreTypeOK', NEW p \in Callers,
         pc[p] \in Syncing \ {"read", "build"}, Release(p),
         UNCHANGED <<job, newest, last, mutationMu, azureMu, cloud, selected,
                     desired, lastDisc>>,
         caddy' = tx.rt, inflight' = None,
         settingsFile' \in Settings, certFile' \in Certs,
         scfg' \in Config, rcfg' = scfg', draft' \in Draft \cup {None},
         undoFailed' \in BOOLEAN,
         p \in Clients \/ UNCHANGED <<scfg, draft>>,
         Serves(tx.rt, applied'.res, scfg'),
         file'.ares = applied'.res,
         Files'
  PROVE  IInv'
<1> USE AbsentAssumption, ProcAssumption
<1>0. /\ Types /\ Locks /\ Jobs /\ Locals /\ Running /\ Chosens /\ Results
  BY DEF IInv
<1>1. /\ syncMu = p /\ newest = p /\ last = NoResult
      /\ \A q \in Callers \ {p} :
           pc[q] \notin Syncing \cup Late \cup Importing \cup {"inspecting"}
  BY <1>0, OneSync DEF Locks, Results, Syncing, Late, Loaded, Importing
<1>2. Rendered(p)
  BY <1>0 DEF Locals
<1>3. /\ pc' \in [Callers -> Phases] /\ pc'[p] = "health"
      /\ \A q \in Callers \ {p} : pc'[q] = pc[q]
      /\ syncMu' = None /\ tx' = NoTx /\ diverged' = FALSE
  BY <1>0 DEF Release, Types, TypeOK, Phases
<1>4. /\ post' \in [Callers -> Post]
      /\ post'[p].rt = tx.rt /\ post'[p].azure = "skipped"
      /\ \A q \in Callers \ {p} : post'[q] = post[q]
  <2>1. [rt |-> tx.rt, azure |-> "skipped"] \in Post
    BY <1>2 DEF Rendered, Post, Passes
  <2> QED
    BY <1>0, <2>1 DEF Release, Types
<1>5. Types'
  <2>1. tx.rt \in Runtime
    BY <1>2 DEF Rendered
  <2>2. TypeOK'
    BY <1>0, <1>3, <2>1 DEF Types, TypeOK
  <2> QED
    BY <1>0, <1>3, <1>4, <2>2, NoTxType DEF Types
<1>6. Locks'
  BY ProcAssumption, <1>0, <1>1, <1>3 DEF Locks, Clients, Syncing, Late, Loaded
<1>7. Jobs'
  <2>1. pc[p] # "idle"
    BY DEF Syncing, Late, Loaded
  <2>2. CASE p \in Clients
    <3>1. \A q \in Clients \ {p} : pc[q] = "idle"
      BY <1>0, <2>1, <2>2, OneRequest
    <3> QED
      BY ProcAssumption, <1>0, <1>1, <1>3, <2>1, <2>2, <3>1
      DEF Jobs, Carries, Clients, Syncing, Late, Loaded, Importing
  <2>3. CASE UNCHANGED <<scfg, draft>>
    BY ProcAssumption, <1>0, <1>1, <1>3, <2>1, <2>3
    DEF Jobs, Carries, Clients, Syncing, Late, Loaded, Importing
  <2> QED
    BY <2>2, <2>3
<1>8. Locals'
  BY <1>1, <1>3 DEF Locals, Syncing, Late, Loaded
<1>9. Running'
  BY <1>1, <1>3 DEF Running, Serves, Syncing, Late, Loaded
<1>10. Chosens'
  <2>1. Renderable(tx.rt.res, NoDisc)
    BY <1>2, RuntimeFields, RenderAssumption DEF Rendered, Renderable
  <2>2. tx.rt.res = applied'.res /\ tx.rt.res \in selected
    BY <1>0 DEF Chosens, Serves
  <2> QED
    BY <1>0, <1>1, <1>3, <2>1, <2>2 DEF Chosens, Syncing, Late, Loaded
<1>11. Results'
  <2>1. Serves(caddy', applied'.res, scfg')
    OBVIOUS
  <2> QED
    BY <1>0, <1>1, <1>3, <1>4, <2>1, NoResultFields
    DEF Results, Serves, Syncing, Late, Loaded, Checking
<1> QED
  BY <1>5, <1>6, <1>7, <1>8, <1>9, <1>10, <1>11 DEF IInv

(* A goroutine that calls the reconciler, and what its request carries.    *)
LEMMA CallInd ==
  ASSUME IInv, StoreTypeOK', NEW p \in Callers, NEW kind \in Kinds,
         NEW cand \in Config \cup {None}, NEW save,
         CallSync(p, kind, cand, save),
         \/ /\ p \in Clients /\ kind # "tick"
            /\ mutationMu = None /\ mutationMu' = p
         \/ p = Background /\ kind = "tick" /\ UNCHANGED mutationMu,
         selected' \subseteq Content, selected \subseteq selected',
         kind = "apply" => desired \in selected',
         Carries(p)'
  PROVE  IInv'
<1> USE AbsentAssumption, ProcAssumption
<1>0. /\ Types /\ Locks /\ Jobs /\ Locals /\ Running /\ Files /\ Chosens
      /\ Results
  BY DEF IInv
<1>1. /\ pc[p] = "idle" /\ pc'[p] = "want" /\ pc' \in [Callers -> Phases]
      /\ \A q \in Callers \ {p} : pc'[q] = pc[q]
      /\ DOMAIN job' = Callers
      /\ job'[p] = [kind |-> kind, cand |-> cand, save |-> save]
      /\ \A q \in Callers \ {p} : job'[q] = job[q]
  BY <1>0 DEF CallSync, Types, TypeOK, Phases
<1>2. /\ UNCHANGED <<storeVars, settingsFile, certFile, scfg, draft, rcfg,
                     lastDisc, newest, last, syncMu, azureMu, tx, post,
                     caddy, inflight, cloud, diverged, undoFailed>>
      /\ UNCHANGED <<staged, revision, desired, applied, held, file>>
  BY DEF CallSync, storeVars, fileVars, cfgVars, worldVars
<1>3. Types'
  <2>1. \A q \in Callers : job'[q].cand \in Config \cup {None}
    BY <1>0, <1>1 DEF Types, TypeOK
  <2>2. TypeOK'
    BY <1>0, <1>1, <1>2, <2>1 DEF Types, TypeOK
  <2> QED
    BY <1>0, <1>1, <1>2, <2>2 DEF Types
<1>4. Locks'
  BY ProcAssumption, <1>0, <1>1, <1>2
  DEF Locks, Types, TypeOK, Clients, Syncing, Late, Loaded
<1>5. Jobs'
  BY ProcAssumption, <1>0, <1>1, <1>2
  DEF Jobs, Carries, Clients, Syncing, Late, Loaded, Importing, Kinds
<1>6. Locals'
  BY <1>0, <1>1, <1>2
  DEF Locals, Remembers, Rendered, Syncing, Late, Loaded
<1>7. Running'
  BY <1>0, <1>1, <1>2 DEF Running, Serves, Syncing, Late, Loaded
<1>8. Files'
  BY <1>0, <1>1, <1>2 DEF Files, Importing
<1>9. Chosens'
  BY <1>0, <1>1, <1>2 DEF Chosens, Syncing, Late, Loaded
<1>10. Results'
  BY <1>0, <1>1, <1>2 DEF Results, Serves, Syncing, Late, Loaded, Checking
<1> QED
  BY <1>3, <1>4, <1>5, <1>6, <1>7, <1>8, <1>9, <1>10 DEF IInv

LEMMA RequestsInd ==
  ASSUME IInv, StoreTypeOK', NEW p \in Clients,
         \/ Apply(p) \/ RefreshCertificate(p)
         \/ \E v \in Lives : ChangeSecurity(p, v)
         \/ \E v \in Lives, b \in Boots : RotateToken(p, v, b)
         \/ \E v \in Certs : ChangeCertificate(p, v)
  PROVE  IInv'
<1>0. /\ Types /\ selected \subseteq Content /\ desired \in Content
      /\ settingsFile \in Settings /\ scfg \in Config
      /\ draft \in Draft \cup {None}
      /\ p \in Callers /\ DOMAIN job = Callers
  BY ProcAssumption DEF IInv, Types, TypeOK, StoreTypeOK, Clients
<1>1. ASSUME NEW kind, NEW cand, NEW save, CallSync(p, kind, cand, save)
      PROVE  /\ UNCHANGED <<draft, scfg, desired>>
             /\ job'[p].kind = kind /\ job'[p].cand = cand
             /\ job'[p].save = save
  BY <1>0, <1>1 DEF CallSync, storeVars, cfgVars
<1>2. ASSUME NEW cand, NEW save, Request(p), UNCHANGED selected, draft = None,
             \/ cand = None /\ CallSync(p, "refresh", cand, save)
             \/ /\ save \in Settings /\ cand = WithLive(scfg, save.live)
                /\ CallSync(p, "settings", cand, save)
             \/ /\ save \in Certs /\ cand = WithCert(scfg, save)
                /\ CallSync(p, "cert", cand, save)
      PROVE  IInv'
  <2>1. cand \in Config \cup {None}
    BY <1>0, <1>2 DEF WithLive, WithCert, Config, Settings
  <2>2. Carries(p)'
    BY <1>0, <1>1, <1>2 DEF Carries
  <2> QED
    BY <1>0, <1>2, <2>1, <2>2, CallInd DEF Request, Kinds
<1>3. CASE Apply(p)
  <2> DEFINE cand == IF draft = None THEN None ELSE draft.cfg
  <2>1. CallSync(p, "apply", cand, None) /\ Request(p)
        /\ selected' = selected \cup {desired}
    BY <1>3 DEF Apply
  <2>2. cand \in Config \cup {None}
    BY <1>0 DEF Draft
  <2>3. Carries(p)'
    BY <1>1, <2>1 DEF Carries
  <2> HIDE DEF cand
  <2> QED
    BY <1>0, <2>1, <2>2, <2>3, CallInd DEF Request, Kinds
<1>4. CASE RefreshCertificate(p)
  BY <1>2, <1>4 DEF RefreshCertificate
<1>5. ASSUME NEW v \in Lives, ChangeSecurity(p, v) PROVE IInv'
  <2> DEFINE save == [settingsFile EXCEPT !.live = v]
  <2>1. save \in Settings /\ save.live = v
    BY <1>0 DEF Settings
  <2>2. WithLive(scfg, save.live) = [scfg EXCEPT !.live = v]
    BY <2>1 DEF WithLive
  <2> QED
    BY <1>2, <1>5, <2>1, <2>2 DEF ChangeSecurity
<1>6. ASSUME NEW v \in Lives, NEW b \in Boots, RotateToken(p, v, b)
      PROVE  IInv'
  <2> DEFINE save == [live |-> v, boot |-> b]
  <2>1. save \in Settings /\ save.live = v
    BY DEF Settings
  <2>2. WithLive(scfg, save.live) = [scfg EXCEPT !.live = v]
    BY <2>1 DEF WithLive
  <2> QED
    BY <1>2, <1>6, <2>1, <2>2 DEF RotateToken
<1>7. ASSUME NEW v \in Certs, ChangeCertificate(p, v) PROVE IInv'
  BY <1>2, <1>7 DEF ChangeCertificate, WithCert
<1> QED
  BY <1>3, <1>4, <1>5, <1>6, <1>7

LEMMA TickInd == ASSUME IInv, StoreTypeOK', Tick PROVE IInv'
<1>0. /\ selected \subseteq Content /\ DOMAIN job = Callers
      /\ Background \in Callers
  BY ProcAssumption DEF IInv, Types, Clients
<1>1. Carries(Background)'
  BY <1>0 DEF Tick, CallSync, Carries
<1> QED
  BY <1>0, <1>1, CallInd DEF Tick, Kinds

----------------------------------------------------------------------------
(* The sync up to its commit.                                              *)

LEMMA StartSyncInd ==
  ASSUME IInv, StoreTypeOK', NEW p \in Callers, StartSync(p) PROVE IInv'
<1> USE AbsentAssumption, ProcAssumption
<1>0. /\ Types /\ Locks /\ Jobs /\ Locals /\ Running /\ Files /\ Chosens
      /\ Results
  BY DEF IInv
<1>1. /\ pc[p] = "want" /\ syncMu = None /\ syncMu' = p /\ newest' = p
      /\ last' = NoResult
      /\ \A q \in Callers : pc[q] \notin Syncing \cup Late \cup Importing
      /\ rcfg = scfg
      /\ UNCHANGED <<storeVars, fileVars, cfgVars, lastDisc, mutationMu,
                     azureMu, job, post, worldVars, obsVars>>
  BY <1>0 DEF StartSync, Locks, Locals, Syncing, Late, Loaded, Importing
<1>2. /\ UNCHANGED <<settingsFile, certFile, scfg, draft, rcfg, caddy,
                     inflight, cloud, selected, diverged, undoFailed>>
      /\ UNCHANGED <<staged, revision, desired, applied, held, file>>
  BY <1>1 DEF storeVars, fileVars, cfgVars, worldVars, obsVars
<1>3. /\ pc' \in [Callers -> Phases]
      /\ pc'[p] = IF job[p].cand = None THEN "build" ELSE "read"
      /\ \A q \in Callers \ {p} : pc'[q] = pc[q]
  BY <1>0 DEF StartSync, HasCandidate, Types, TypeOK, Phases
<1>4. /\ tx' \in Tx
      /\ tx'.prevCfg = rcfg /\ tx'.prev = applied /\ tx'.prevDisc = lastDisc
      /\ tx'.prevRt = None
  BY <1>0 DEF StartSync, NoTx, Tx, Types, TypeOK, StoreTypeOK
<1>5. Types'
  <2>1. TypeOK'
    BY <1>0, <1>1, <1>2, <1>3 DEF Types, TypeOK
  <2> QED
    BY <1>0, <1>1, <1>2, <1>4, <2>1, NoResultFields DEF Types
<1>6. Locks'
  BY ProcAssumption, <1>0, <1>1, <1>3 DEF Locks, Clients, Syncing, Late, Loaded
<1>7. Jobs'
  BY ProcAssumption, <1>0, <1>1, <1>2, <1>3
  DEF Jobs, Carries, Clients, Syncing, Late, Loaded, Importing
<1>8. Locals'
  <2>1. lastDisc \in Discs
    BY <1>0 DEF Types, TypeOK
  <2> QED
    BY <1>0, <1>1, <1>2, <1>3, <1>4, <2>1
    DEF Locals, Remembers, Syncing, Late, Loaded
<1>9. Running'
  BY <1>0, <1>1, <1>2, <1>3, <1>4
  DEF Running, Serves, Syncing, Late, Loaded
<1>10. Files'
  BY <1>0, <1>1, <1>2, <1>3 DEF Files, Importing
<1>11. Chosens'
  BY <1>0, <1>1, <1>2, <1>3, <1>4 DEF Chosens, Syncing, Late, Loaded
<1>12. Results'
  BY <1>0, <1>1, <1>2, <1>3, NoResultFields
  DEF Results, Syncing, Late, Loaded, Checking
<1> QED
  BY <1>5, <1>6, <1>7, <1>8, <1>9, <1>10, <1>11, <1>12 DEF IInv

LEMMA ReadRuntimeInd ==
  ASSUME IInv, StoreTypeOK', NEW p \in Callers, ReadRuntime(p) PROVE IInv'
<1> USE AbsentAssumption, ProcAssumption
<1>0. /\ Types /\ Locks /\ Jobs /\ Locals /\ Running /\ Files /\ Chosens
      /\ Results
  BY DEF IInv
<1>1. /\ pc[p] = "read" /\ pc[p] \in Syncing \ (Importing \cup Late)
      /\ Remembers(p)
      /\ UNCHANGED <<storeVars, fileVars, scfg, draft, lastDisc, newest,
                     azureMu, post, worldVars, obsVars>>
  BY <1>0 DEF ReadRuntime, Locals, Syncing, Late, Loaded, Importing
<1>2. /\ UNCHANGED <<settingsFile, certFile, caddy, inflight, cloud,
                     selected, diverged, undoFailed>>
      /\ UNCHANGED <<staged, revision, desired, applied, held, file>>
  BY <1>1 DEF storeVars, fileVars, worldVars, obsVars
<1>3. /\ caddy \in Runtime /\ inflight \in Runtime \cup {None}
      /\ diverged \in BOOLEAN /\ lastDisc \in Discs
      /\ caddy.res \in selected
      /\ inflight # None => inflight.res \in selected
  BY <1>0 DEF Types, TypeOK, Chosens
<1>4. \A q \in Callers : pc[q] \notin Late
  BY <1>0, <1>1, OneSync DEF Syncing, Late
<1>5. ~diverged => inflight = None /\ Serves(caddy, applied.res, scfg)
  BY <1>0, <1>4 DEF Running
<1>6. CASE Fail(p, FALSE) /\ UNCHANGED rcfg
  <2>1. rcfg' = scfg
    BY <1>1, <1>6 DEF Remembers
  <2> QED
    BY <1>1, <1>2, <1>3, <1>5, <1>6, <2>1, FailInd
<1>7. CASE /\ tx' = [tx EXCEPT !.prevRt = caddy]
           /\ rcfg' = job[p].cand
           /\ pc' = [pc EXCEPT ![p] = "build"]
           /\ UNCHANGED <<last, mutationMu, syncMu, job, faults>>
  <2>1. "build" \in Syncing \ (Late \cup Importing)
    BY DEF Syncing, Late, Loaded, Importing
  <2>2. /\ Locks' /\ Jobs' /\ Results' /\ pc' \in [Callers -> Phases]
        /\ pc'[p] = "build"
        /\ \A q \in Callers \ {p} :
             pc'[q] = pc[q] /\ pc[q] \notin Syncing \cup Late \cup Importing
    BY <1>1, <1>2, <1>7, <2>1, MoveInd
  <2>3. /\ tx' \in Tx /\ tx'.prevRt = caddy /\ tx'.prev = tx.prev
        /\ tx'.prevCfg = tx.prevCfg /\ tx'.prevDisc = tx.prevDisc
    BY <1>0, <1>3, <1>7 DEF Types, Tx
  <2>4. job[p].cand \in Config
    BY <1>0, <1>1 DEF Types, TypeOK, Remembers
  <2>5. Types'
    <3>1. TypeOK'
      BY <1>0, <1>1, <1>2, <1>7, <2>2, <2>4 DEF Types, TypeOK
    <3> QED
      BY <1>0, <1>1, <1>2, <1>7, <2>3, <3>1 DEF Types
  <2>6. Locals'
    BY <1>1, <1>2, <1>3, <1>7, <2>1, <2>2, <2>3, <2>4 DEF Locals, Remembers
  <2>7. Running'
    BY <1>1, <1>2, <1>5, <2>1, <2>2, <2>3
    DEF Running, Serves, Loaded, Late, Syncing
  <2>8. Files'
    BY <1>0, <1>1, <1>2, <2>1, <2>2 DEF Files, Importing
  <2>9. Chosens'
    BY <1>0, <1>1, <1>2, <1>7, <2>1, <2>2, <2>3 DEF Chosens
  <2> QED
    BY <2>2, <2>5, <2>6, <2>7, <2>8, <2>9 DEF IInv
<1> QED
  BY <1>6, <1>7 DEF ReadRuntime

LEMMA BuildInd ==
  ASSUME IInv, StoreTypeOK', NEW p \in Callers, Build(p) PROVE IInv'
<1> USE AbsentAssumption, ProcAssumption
<1>0. /\ Types /\ Locks /\ Jobs /\ Locals /\ Running /\ Files /\ Chosens
      /\ Results
  BY DEF IInv
<1>1. /\ pc[p] = "build" /\ pc[p] \in Syncing \ (Importing \cup Late)
      /\ Remembers(p) /\ Carries(p)
      /\ UNCHANGED <<fileVars, scfg, draft, newest, azureMu, post, worldVars,
                     obsVars>>
  BY <1>0 DEF Build, Locals, Jobs, Syncing, Late, Loaded, Importing
<1>2. UNCHANGED <<settingsFile, certFile, caddy, inflight, cloud, selected,
                  diverged, undoFailed>>
  BY <1>1 DEF fileVars, worldVars, obsVars
<1>3. /\ caddy \in Runtime /\ inflight \in Runtime \cup {None}
      /\ diverged \in BOOLEAN
      /\ caddy.res \in selected
      /\ inflight # None => inflight.res \in selected
  BY <1>0 DEF Types, TypeOK, Chosens
<1>4. \A q \in Callers : pc[q] \notin Late
  BY <1>0, <1>1, OneSync DEF Syncing, Late
<1>5. ~diverged => inflight = None /\ Serves(caddy, applied.res, scfg)
  BY <1>0, <1>4 DEF Running
<1>6. PICK d \in Discs :
        /\ lastDisc' = d
        /\ IF Renderable(Chosen(p).res, d)
           THEN /\ tx' = [tx EXCEPT !.rt = Render(Chosen(p).res, d, rcfg)]
                /\ pc' = [pc EXCEPT ![p] = "load"]
                /\ IF job[p].kind = "apply" THEN TakeDesired(p)
                   ELSE UNCHANGED storeVars
                /\ UNCHANGED <<rcfg, last, mutationMu, syncMu, job>>
           ELSE /\ RestoreConfig(p)
                /\ Fail(p, FALSE)
                /\ UNCHANGED storeVars
  BY DEF Build
<1>7. CASE ~Renderable(Chosen(p).res, d)
  <2>1. rcfg' = scfg
    BY <1>1, <1>6, <1>7 DEF RestoreConfig, HasCandidate, Remembers
  <2>2. Fail(p, FALSE) /\ UNCHANGED <<staged, desired, applied, file>>
    BY <1>6, <1>7 DEF storeVars
  <2> QED
    BY <1>1, <1>2, <1>3, <1>5, <1>6, <2>1, <2>2, FailInd
<1>8. CASE Renderable(Chosen(p).res, d)
  <2>1. "load" \in Syncing \ (Late \cup Importing)
    BY DEF Syncing, Late, Loaded, Importing
  <2>2. UNCHANGED <<staged, desired, applied, file, rcfg, last, mutationMu,
                    syncMu, job>>
    BY <1>6, <1>8 DEF TakeDesired, storeVars
  <2>3. /\ Locks' /\ Jobs' /\ Results' /\ pc' \in [Callers -> Phases]
        /\ pc'[p] = "load"
        /\ \A q \in Callers \ {p} :
             pc'[q] = pc[q] /\ pc[q] \notin Syncing \cup Late \cup Importing
    BY <1>1, <1>2, <1>6, <1>8, <2>1, <2>2, MoveInd
  <2>4. /\ applied \in Snapshot /\ desired \in Content
        /\ revision \in 0..MaxRevision /\ rcfg \in Config
        /\ held \in [Callers -> Snapshot \cup {NoSnapshot}]
    BY <1>0 DEF Types, TypeOK, StoreTypeOK
  <2>5. /\ Chosen(p).res \in Content /\ Chosen(p).res \in selected
        /\ job[p].kind # "apply" => Chosen(p).res = applied.res
        /\ job[p].kind = "apply" => Chosen(p).res = desired
    BY <1>0, <1>1, <2>4 DEF Chosen, Remembers, Chosens, Snapshot
  <2> DEFINE rt == Render(Chosen(p).res, d, rcfg)
  <2>6. /\ rt \in Runtime /\ rt.res = Chosen(p).res /\ rt.disc = d
        /\ rt.live = rcfg.live /\ rt.cert = rcfg.cert
    BY <2>4, <2>5 DEF Render, Runtime, Config
  <2> HIDE DEF rt
  <2>7. /\ tx' \in Tx /\ tx'.rt = rt /\ tx'.prev = tx.prev
        /\ tx'.prevCfg = tx.prevCfg /\ tx'.prevDisc = tx.prevDisc
        /\ tx'.prevRt = tx.prevRt
    BY <1>0, <1>6, <1>8, <2>6 DEF Types, Tx, rt
  <2>8. job[p].kind = "apply" =>
          held'[p] # NoSnapshot /\ held'[p].res = desired
    BY <1>6, <1>8, <2>4, RevisionAssumption
    DEF TakeDesired, NoSnapshot
  <2>9. Types'
    <3>1. TypeOK'
      BY <1>0, <1>1, <1>2, <1>6, <2>2, <2>3 DEF Types, TypeOK
    <3> QED
      BY <1>0, <1>1, <1>2, <2>2, <2>7, <3>1 DEF Types
  <2>10. Locals'
    <3>1. Remembers(p)'
      BY <1>1, <2>2, <2>3, <2>7 DEF Remembers
    <3>2. Rendered(p)'
      BY <1>8, <2>2, <2>5, <2>6, <2>7, <2>8 DEF Rendered
    <3> QED
      BY <2>1, <2>3, <3>1, <3>2 DEF Locals
  <2>11. Running'
    BY <1>0, <1>1, <1>2, <1>5, <2>1, <2>2, <2>3, <2>7
    DEF Running, Serves, Loaded, Late, Syncing
  <2>12. Files'
    BY <1>0, <1>1, <1>2, <2>1, <2>2, <2>3 DEF Files, Importing
  <2>13. Chosens'
    BY <1>0, <1>1, <1>2, <2>1, <2>2, <2>3, <2>5, <2>6, <2>7 DEF Chosens
  <2> QED
    BY <2>3, <2>9, <2>10, <2>11, <2>12, <2>13 DEF IInv
<1> QED
  BY <1>7, <1>8

LEMMA LoadOKInd ==
  ASSUME IInv, StoreTypeOK', NEW p \in Callers, LoadOK(p) PROVE IInv'
<1> USE AbsentAssumption, ProcAssumption
<1>0. /\ Types /\ Locks /\ Jobs /\ Locals /\ Running /\ Files /\ Chosens
      /\ Results
  BY DEF IInv
<1>1. /\ pc[p] = "load" /\ pc[p] \in Syncing \ (Importing \cup Late)
      /\ Carries(p) /\ Remembers(p) /\ Rendered(p)
      /\ caddy' = tx.rt /\ inflight' = None
      /\ UNCHANGED <<storeVars, fileVars, cfgVars, lastDisc, newest, last,
                     mutationMu, azureMu, job, cloud, selected, undoFailed>>
  BY <1>0
  DEF LoadOK, Jobs, Locals, Syncing, Late, Loaded, Importing
<1>2. /\ UNCHANGED <<settingsFile, certFile, scfg, draft, rcfg>>
      /\ UNCHANGED <<staged, revision, desired, applied, held, file>>
  BY <1>1 DEF storeVars, fileVars, cfgVars
<1>3. tx.rt \in Runtime
  BY <1>1 DEF Rendered
<1>4. CASE Commits(p)
  <2>1. /\ job[p].kind \in {"apply", "settings", "cert"}
        /\ UNCHANGED <<syncMu, post, diverged>>
        /\ pc' = [pc EXCEPT ![p] = "commit"]
    BY ProcAssumption, <1>0, <1>1, <1>4
    DEF LoadOK, Commits, Jobs, Kinds, Clients
  <2>2. "commit" \in Syncing \ Importing /\ "commit" \in Loaded
    BY DEF Syncing, Late, Loaded, Importing
  <2>3. /\ Locks' /\ Jobs' /\ Results' /\ pc' \in [Callers -> Phases]
        /\ pc'[p] = "commit"
        /\ \A q \in Callers \ {p} :
             pc'[q] = pc[q] /\ pc[q] \notin Syncing \cup Late \cup Importing
    BY <1>1, <1>2, <2>1, <2>2, MoveInd
  <2>4. /\ tx' \in Tx /\ tx'.rt = tx.rt /\ tx'.prev = tx.prev
        /\ tx'.prevCfg = tx.prevCfg /\ tx'.prevDisc = tx.prevDisc
        /\ tx'.prevRt = tx.prevRt
    BY <1>0, <1>4 DEF LoadOK, Types, Tx
  <2>5. Types'
    <3>1. TypeOK'
      BY <1>0, <1>1, <1>2, <1>3, <2>1, <2>3 DEF Types, TypeOK
    <3> QED
      BY <1>0, <1>1, <2>1, <2>4, <3>1 DEF Types
  <2>6. Locals'
    <3>1. Remembers(p)' /\ Rendered(p)'
      BY <1>1, <1>2, <2>3, <2>4 DEF Remembers, Rendered
    <3> QED
      BY <2>2, <2>3, <3>1 DEF Locals
  <2>7. Running'
    BY <1>0, <1>1, <1>2, <2>1, <2>2, <2>3, <2>4
    DEF Running, Serves, Loaded, Late, Syncing
  <2>8. Files'
    BY <1>0, <1>1, <1>2, <2>2, <2>3 DEF Files, Importing
  <2>9. Chosens'
    BY <1>0, <1>1, <1>2, <2>2, <2>3, <2>4 DEF Chosens
  <2> QED
    BY <2>3, <2>5, <2>6, <2>7, <2>8, <2>9 DEF IInv
<1>5. CASE ~Commits(p)
  <2>1. Release(p) /\ job[p].kind \in {"tick", "refresh"}
    BY <1>5 DEF LoadOK, Commits
  <2>2. rcfg = scfg /\ Serves(tx.rt, applied.res, scfg)
    BY <1>1, <2>1 DEF Carries, Remembers, Rendered, Serves
  <2>3. /\ settingsFile \in Settings /\ certFile \in Certs
        /\ scfg \in Config /\ draft \in Draft \cup {None}
        /\ undoFailed \in BOOLEAN /\ file.ares = applied.res
    BY <1>0 DEF Types, TypeOK, Chosens
  <2>4. Files'
    <3>1. pc'[p] = "health" /\ \A q \in Callers \ {p} : pc'[q] = pc[q]
      BY <1>0, <2>1 DEF Release, Types, TypeOK
    <3> QED
      BY <1>0, <1>1, <1>2, <3>1 DEF Files, Importing
  <2> QED
    BY <1>1, <1>2, <2>1, <2>2, <2>3, <2>4, ReleaseInd
<1> QED
  BY <1>4, <1>5

LEMMA LoadFailsInd ==
  ASSUME IInv, StoreTypeOK', NEW p \in Callers, LoadFails(p) PROVE IInv'
<1> USE AbsentAssumption, ProcAssumption
<1>0. /\ Types /\ Locks /\ Jobs /\ Locals /\ Running /\ Files /\ Chosens
      /\ Results
  BY DEF IInv
<1>1. /\ pc[p] = "load" /\ pc[p] \in Syncing \ (Importing \cup Late)
      /\ Carries(p) /\ Remembers(p) /\ Rendered(p)
      /\ inflight' \in {None, tx.rt}
      /\ UNCHANGED <<staged, revision, desired, applied, file, fileVars,
                     cfgVars, lastDisc, newest, azureMu, post, caddy, cloud,
                     selected, undoFailed>>
  BY <1>0
  DEF LoadFails, Jobs, Locals, Syncing, Late, Loaded, Importing
<1>2. UNCHANGED <<settingsFile, certFile, scfg, draft, rcfg>>
  BY <1>1 DEF fileVars, cfgVars
<1>3. /\ tx.rt \in Runtime /\ tx.rt.res \in selected
      /\ caddy \in Runtime /\ caddy.res \in selected
      /\ lastDisc \in Discs /\ diverged \in BOOLEAN
  BY <1>0, <1>1 DEF Rendered, Chosens, Types, TypeOK
<1>4. \A q \in Callers : pc[q] \notin Late
  BY <1>0, <1>1, OneSync DEF Syncing, Late
<1>5. ~diverged => inflight = None /\ Serves(caddy, applied.res, scfg)
  BY <1>0, <1>4 DEF Running
<1>6. CASE HasCandidate(p)
  <2>1. /\ job[p].kind \in {"apply", "settings", "cert"}
        /\ UNCHANGED <<last, mutationMu, syncMu, job, tx, held, diverged>>
        /\ pc' = [pc EXCEPT ![p] = "rollback"]
    BY ProcAssumption, <1>0, <1>1, <1>6
    DEF LoadFails, HasCandidate, Carries, Jobs, Kinds, Clients
  <2>2. "rollback" \in Syncing \ (Importing \cup Loaded) /\ "rollback" \in Late
    BY DEF Syncing, Late, Loaded, Importing
  <2>3. /\ Locks' /\ Jobs' /\ Results' /\ pc' \in [Callers -> Phases]
        /\ pc'[p] = "rollback"
        /\ \A q \in Callers \ {p} :
             pc'[q] = pc[q] /\ pc[q] \notin Syncing \cup Late \cup Importing
    BY <1>1, <1>2, <2>1, <2>2, MoveInd
  <2>4. Types'
    <3>1. TypeOK'
      BY <1>0, <1>1, <1>2, <1>3, <2>1, <2>3 DEF Types, TypeOK
    <3> QED
      BY <1>0, <1>1, <2>1, <3>1 DEF Types
  <2>5. Locals'
    <3>1. Remembers(p)' /\ Rendered(p)'
      BY <1>1, <1>2, <2>1, <2>3 DEF Remembers, Rendered
    <3> QED
      BY <2>2, <2>3, <3>1 DEF Locals
  <2>6. Running'
    BY <1>0, <1>1, <1>2, <2>1, <2>2, <2>3
    DEF Running, Serves, Loaded, Late, Syncing
  <2>7. Files'
    BY <1>0, <1>1, <1>2, <2>2, <2>3 DEF Files, Importing
  <2>8. Chosens'
    BY <1>0, <1>1, <1>2, <1>3, <2>1, <2>2, <2>3 DEF Chosens
  <2> QED
    BY <2>3, <2>4, <2>5, <2>6, <2>7, <2>8 DEF IInv
<1>7. CASE ~HasCandidate(p)
  <2>1. Fail(p, FALSE) /\ diverged' = (diverged \/ inflight' # None)
    BY <1>7 DEF LoadFails
  <2>2. rcfg' = scfg
    BY <1>1, <1>2, <1>7 DEF HasCandidate, Remembers
  <2>3. diverged' \in BOOLEAN
    BY <1>3, <2>1
  <2>4. ~diverged' => inflight' = None /\ Serves(caddy', applied.res, scfg)
    BY <1>1, <1>5, <2>1
  <2>5. /\ inflight' \in Runtime \cup {None}
        /\ inflight' # None => inflight'.res \in selected
    BY <1>1, <1>3
  <2> QED
    BY <1>1, <1>2, <1>3, <2>1, <2>2, <2>3, <2>4, <2>5, FailInd
<1> QED
  BY <1>6, <1>7

----------------------------------------------------------------------------
(* The commit, the import and the roll back.                               *)

(* Between the load and the end of the sync only the files change.         *)
LEMMA LateMoveInd ==
  ASSUME IInv, StoreTypeOK', NEW p \in Callers, pc[p] \in Loaded,
         NEW x \in Late, pc' = [pc EXCEPT ![p] = x],
         x \in Importing => job[p].kind = "apply" /\ draft # None,
         UNCHANGED <<storeVars, cfgVars, lastDisc, newest, last, mutationMu,
                     syncMu, azureMu, job, tx, post, worldVars, selected,
                     diverged>>,
         settingsFile' \in Settings, certFile' \in Certs,
         undoFailed' \in BOOLEAN,
         /\ pc'[p] = x
         /\ \A q \in Callers \ {p} : pc'[q] = pc[q] /\ pc[q] \notin Importing
         => Files'
  PROVE  IInv'
<1> USE AbsentAssumption, ProcAssumption
<1>0. /\ Types /\ Locks /\ Jobs /\ Locals /\ Running /\ Chosens /\ Results
  BY DEF IInv
<1>1. /\ pc[p] \in Syncing /\ pc[p] \in Late /\ x \in Syncing
      /\ x # "read" /\ x # "build" /\ x # "want"
      /\ pc[p] # "read" /\ pc[p] # "build"
      /\ Remembers(p) /\ Rendered(p)
      /\ job[p].kind \in {"apply", "settings", "cert"}
  BY <1>0 DEF Jobs, Locals, Syncing, Late, Loaded
<1>2. /\ UNCHANGED <<scfg, draft, rcfg, caddy, inflight, cloud>>
      /\ UNCHANGED <<staged, revision, desired, applied, held, file>>
  BY DEF storeVars, cfgVars, worldVars
<1>3. /\ Locks' /\ Jobs' /\ Results' /\ pc' \in [Callers -> Phases]
      /\ pc'[p] = x
      /\ \A q \in Callers \ {p} :
           pc'[q] = pc[q] /\ pc[q] \notin Syncing \cup Late \cup Importing
  BY <1>1, <1>2, MoveInd
<1>4. Types'
  <2>1. TypeOK'
    BY <1>0, <1>2, <1>3 DEF Types, TypeOK
  <2> QED
    BY <1>0, <2>1 DEF Types
<1>5. Locals'
  <2>1. Remembers(p)' /\ Rendered(p)'
    BY <1>1, <1>2, <1>3 DEF Remembers, Rendered
  <2> QED
    BY <1>1, <1>3, <2>1 DEF Locals
<1>6. Running'
  BY <1>0, <1>1, <1>2, <1>3 DEF Running, Serves, Loaded, Late, Syncing
<1>7. Files'
  BY <1>3
<1>8. Chosens'
  BY <1>0, <1>1, <1>2, <1>3 DEF Chosens
<1> QED
  BY <1>3, <1>4, <1>5, <1>6, <1>7, <1>8 DEF IInv

LEMMA CommitConfigInd ==
  ASSUME IInv, StoreTypeOK', NEW p \in Callers, CommitConfig(p) PROVE IInv'
<1> USE AbsentAssumption, ProcAssumption
<1>0. /\ Types /\ Locks /\ Jobs /\ Locals /\ Running /\ Files /\ Chosens
      /\ Results
  BY DEF IInv
<1>1. /\ pc[p] = "commit" /\ job[p].kind \in {"settings", "cert"}
      /\ pc[p] \in Loaded /\ pc[p] \in Syncing \ {"read", "build"}
      /\ pc[p] \notin Importing
      /\ Carries(p) /\ Remembers(p) /\ Rendered(p)
      /\ draft = None /\ job[p].cand # None
      /\ UNCHANGED <<storeVars, draft, lastDisc, newest, last, mutationMu,
                     azureMu, job, worldVars, selected, undoFailed>>
  <2>1. scfg \in Config
    BY <1>0 DEF Types, TypeOK
  <2>2. /\ \A v \in Lives : WithLive(scfg, v) \in Config
        /\ \A v \in Certs : WithCert(scfg, v) \in Config
    BY <2>1 DEF WithLive, WithCert, Config
  <2>3. pc[p] = "commit" /\ job[p].kind \in {"settings", "cert"}
    BY DEF CommitConfig
  <2>4. /\ pc[p] \in Loaded /\ pc[p] \in Syncing \ {"read", "build"}
        /\ pc[p] \notin Importing
    BY <2>3 DEF Syncing, Late, Loaded, Importing
  <2>5. Carries(p) /\ Remembers(p) /\ Rendered(p)
    BY <1>0, <2>4 DEF Jobs, Locals
  <2>6. draft = None /\ job[p].cand # None
    BY <2>2, <2>3, <2>5 DEF Carries, Settings
  <2> QED
    BY <2>3, <2>4, <2>5, <2>6 DEF CommitConfig
<1>2. /\ p \in Clients
      /\ UNCHANGED <<caddy, inflight, cloud>>
      /\ UNCHANGED <<staged, revision, desired, applied, held, file>>
  BY ProcAssumption, <1>0, <1>1 DEF Jobs, Clients, storeVars, worldVars
<1>3. /\ settingsFile \in Settings /\ certFile \in Certs /\ scfg \in Config
      /\ job[p].cand \in Config \cup {None} /\ undoFailed \in BOOLEAN
      /\ caddy = tx.rt /\ inflight = None
  BY <1>0, <1>1 DEF Types, TypeOK, Running
<1>4. CASE /\ CommitFails(p)
           /\ UNCHANGED <<fileVars, scfg, rcfg, syncMu, tx, post, diverged>>
  <2>1. UNCHANGED <<settingsFile, certFile, cfgVars>>
    BY <1>1, <1>4 DEF fileVars, cfgVars
  <2>2. "rollback" \in Late \ Importing
    BY DEF Late, Importing, Loaded
  <2>3. ASSUME pc'[p] = "rollback", \A q \in Callers \ {p} : pc'[q] = pc[q]
        PROVE  Files'
    BY <1>0, <1>1, <1>2, <2>1, <2>2, <2>3 DEF Files, cfgVars, Importing
  <2> QED
    BY <1>1, <1>3, <1>4, <2>1, <2>2, <2>3, LateMoveInd DEF CommitFails
<1>5. CASE /\ IF job[p].kind = "settings"
              THEN settingsFile' = job[p].save /\ UNCHANGED certFile
              ELSE certFile' = job[p].save /\ UNCHANGED settingsFile
           /\ ApplyLiveConfig(job[p].cand)
           /\ Release(p)
  <2>1. scfg' = job[p].cand /\ rcfg' = scfg' /\ scfg' \in Config
    BY <1>1, <1>3, <1>5 DEF ApplyLiveConfig
  <2>2. Serves(tx.rt, applied'.res, scfg')
    BY <1>1, <1>2, <2>1 DEF Remembers, Rendered, Serves
  <2>3. /\ job[p].kind = "settings" =>
             /\ scfg'.live = settingsFile'.live /\ scfg'.cert = scfg.cert
             /\ scfg'.boot = scfg.boot
        /\ job[p].kind = "cert" =>
             /\ scfg'.cert = certFile' /\ scfg'.live = scfg.live
             /\ scfg'.boot = scfg.boot
        /\ settingsFile' \in Settings /\ certFile' \in Certs
    BY <1>1, <1>3, <1>5, <2>1 DEF Carries, WithLive, WithCert, Config
  <2>4. \A q \in Callers : pc[q] \notin Importing /\ pc'[q] \notin Importing
    <3>1. pc'[p] = "health" /\ \A q \in Callers \ {p} : pc'[q] = pc[q]
      BY <1>0, <1>5 DEF Release, Types, TypeOK
    <3>2. \A q \in Callers : pc[q] \notin Importing
      BY <1>0, <1>1 DEF Jobs
    <3> QED
      BY <3>1, <3>2 DEF Importing
  <2>5. Files'
    <3>1. ~undoFailed =>
            settingsFile.live = scfg.live /\ certFile = scfg.cert
      BY <1>0, <2>4 DEF Files
    <3>2. ~undoFailed' =>
            settingsFile'.live = scfg'.live /\ certFile' = scfg'.cert
      BY <1>1, <1>5, <2>3, <3>1
    <3> QED
      BY <1>0, <1>1, <1>2, <2>4, <3>2 DEF Files, Importing
  <2>6. file.ares = applied.res
    BY <1>0 DEF Chosens
  <2> QED
    BY <1>1, <1>2, <1>3, <1>5, <2>1, <2>2, <2>3, <2>5, <2>6, ReleaseInd
<1> QED
  BY <1>4, <1>5 DEF CommitConfig

(* Confirming the snapshot that Apply has rendered and loaded.             *)
LEMMA MarkAppliedFacts ==
  ASSUME IInv, NEW p \in Callers, pc[p] \in Loaded, job[p].kind = "apply",
         MarkApplied(p)
  PROVE  /\ p \in Clients
         /\ pc[p] \in Syncing \ {"read", "build"}
         /\ Carries(p) /\ Remembers(p) /\ Rendered(p)
         /\ caddy = tx.rt /\ inflight = None
         /\ applied'.res = tx.rt.res /\ file'.ares = applied'.res
         /\ staged' = FALSE /\ desired' = desired
<1>1. pc[p] \in Syncing \ {"read", "build"} /\ pc[p] # "idle"
  BY DEF Syncing, Late, Loaded
<1>2. Carries(p) /\ Remembers(p) /\ Rendered(p)
  BY <1>1 DEF IInv, Jobs, Locals
<1>3. p \in Clients
  BY ProcAssumption, <1>1 DEF IInv, Jobs, Clients
<1>4. caddy = tx.rt /\ inflight = None
  BY DEF IInv, Running
<1> QED
  BY <1>1, <1>2, <1>3, <1>4
  DEF MarkApplied, FileOf, Rendered

LEMMA CommitRoutesInd ==
  ASSUME IInv, StoreTypeOK', NEW p \in Callers, CommitRoutes(p) PROVE IInv'
<1>0. Types /\ Jobs /\ Files
  BY DEF IInv
<1>1. /\ pc[p] = "commit" /\ pc[p] \in Loaded /\ pc[p] \notin Importing
      /\ job[p].kind = "apply" /\ draft = None
      /\ UNCHANGED <<fileVars, cfgVars, lastDisc, newest, last, mutationMu,
                     azureMu, job, worldVars, selected, undoFailed>>
  BY DEF CommitRoutes, Loaded, Importing
<1>2. UNCHANGED <<settingsFile, certFile, scfg, draft, rcfg, caddy, inflight,
                  cloud>>
  BY <1>1 DEF fileVars, cfgVars, worldVars
<1>3. /\ settingsFile \in Settings /\ certFile \in Certs /\ scfg \in Config
      /\ undoFailed \in BOOLEAN
      /\ pc \in [Callers -> Phases]
  BY <1>0 DEF Types, TypeOK
<1>4. CASE MarkApplied(p) /\ Release(p)
  <2>1. /\ p \in Clients /\ pc[p] \in Syncing \ {"read", "build"}
        /\ Carries(p) /\ Remembers(p) /\ Rendered(p)
        /\ caddy = tx.rt /\ inflight = None
        /\ applied'.res = tx.rt.res /\ file'.ares = applied'.res
        /\ staged' = FALSE /\ desired' = desired
    BY <1>1, <1>4, MarkAppliedFacts
  <2>2. rcfg = scfg
    BY <1>1, <2>1 DEF Carries, Remembers
  <2>3. Serves(tx.rt, applied'.res, scfg')
    BY <1>2, <2>1, <2>2 DEF Rendered, Serves
  <2>4. Files'
    <3>1. pc'[p] = "health" /\ \A q \in Callers \ {p} : pc'[q] = pc[q]
      BY <1>3, <1>4 DEF Release
    <3> QED
      BY <1>0, <1>1, <1>2, <2>1, <3>1 DEF Files, Importing
  <2> QED
    BY <1>1, <1>2, <1>3, <1>4, <2>1, <2>2, <2>3, <2>4, ReleaseInd
<1>5. CASE /\ CommitFails(p)
           /\ UNCHANGED <<storeVars, syncMu, tx, post, diverged>>
  <2>1. "rollback" \in Late \ Importing
    BY DEF Late, Importing, Loaded
  <2>2. ASSUME pc'[p] = "rollback", \A q \in Callers \ {p} : pc'[q] = pc[q]
        PROVE  Files'
    BY <1>0, <1>1, <1>2, <1>5, <2>1, <2>2 DEF Files, storeVars
  <2> QED
    BY <1>1, <1>2, <1>3, <1>5, <2>1, <2>2, LateMoveInd DEF CommitFails
<1> QED
  BY <1>4, <1>5 DEF CommitRoutes

LEMMA ImportSettingsInd ==
  ASSUME IInv, StoreTypeOK', NEW p \in Callers, ImportSettings(p) PROVE IInv'
<1>0. Types /\ Jobs /\ Files
  BY DEF IInv
<1>1. /\ pc[p] = "commit" /\ pc[p] \in Loaded /\ pc[p] \notin Importing
      /\ job[p].kind = "apply" /\ draft # None
      /\ UNCHANGED <<storeVars, certFile, cfgVars, lastDisc, newest, last,
                     mutationMu, syncMu, azureMu, job, tx, post, worldVars,
                     obsVars>>
  BY DEF ImportSettings, Loaded, Importing
<1>2. /\ UNCHANGED <<scfg, draft, staged>>
      /\ UNCHANGED <<selected, diverged, undoFailed>>
  BY <1>1 DEF cfgVars, obsVars, storeVars
<1>3. /\ settingsFile \in Settings /\ certFile \in Certs
      /\ draft.settings \in Settings /\ undoFailed \in BOOLEAN
  BY <1>0, <1>1 DEF Types, TypeOK, Draft
<1>4. CASE /\ settingsFile' = draft.settings
           /\ pc' = [pc EXCEPT ![p] = "importCert"]
  <2>1. "importCert" \in Late /\ "importCert" \in Importing
    BY DEF Late, Loaded, Importing
  <2>2. ASSUME pc'[p] = "importCert",
               \A q \in Callers \ {p} : pc'[q] = pc[q] /\ pc[q] \notin Importing
        PROVE  Files'
    BY <1>0, <1>1, <1>2, <1>4, <2>1, <2>2 DEF Files, Importing
  <2> QED
    BY <1>1, <1>2, <1>3, <1>4, <2>1, <2>2, LateMoveInd
<1>5. CASE CommitFails(p) /\ UNCHANGED settingsFile
  <2>1. "rollback" \in Late \ Importing
    BY DEF Late, Importing, Loaded
  <2>2. ASSUME pc'[p] = "rollback", \A q \in Callers \ {p} : pc'[q] = pc[q]
        PROVE  Files'
    BY <1>0, <1>1, <1>2, <1>5, <2>1, <2>2 DEF Files
  <2> QED
    BY <1>1, <1>2, <1>3, <1>5, <2>1, <2>2, LateMoveInd DEF CommitFails
<1> QED
  BY <1>4, <1>5 DEF ImportSettings

LEMMA ImportCertInd ==
  ASSUME IInv, StoreTypeOK', NEW p \in Callers, ImportCert(p) PROVE IInv'
<1>0. Types /\ Jobs /\ Files
  BY DEF IInv
<1>1. /\ pc[p] = "importCert" /\ pc[p] \in Loaded /\ pc[p] \in Importing
      /\ UNCHANGED <<storeVars, settingsFile, cfgVars, lastDisc, newest,
                     last, mutationMu, syncMu, azureMu, job, tx, post,
                     worldVars, obsVars>>
  BY DEF ImportCert, Loaded, Importing
<1>2. /\ UNCHANGED <<scfg, draft, staged>>
      /\ UNCHANGED <<selected, diverged, undoFailed>>
      /\ job[p].kind = "apply" /\ draft # None
  BY <1>0, <1>1 DEF cfgVars, obsVars, storeVars, Jobs
<1>3. /\ settingsFile \in Settings /\ certFile \in Certs
      /\ draft.cert \in Certs /\ undoFailed \in BOOLEAN
  BY <1>0, <1>2 DEF Types, TypeOK, Draft
<1>4. CASE /\ certFile' = draft.cert
           /\ pc' = [pc EXCEPT ![p] = "importRoutes"]
  <2>1. "importRoutes" \in Late /\ "importRoutes" \in Importing
    BY DEF Late, Loaded, Importing
  <2>2. ASSUME pc'[p] = "importRoutes",
               \A q \in Callers \ {p} : pc'[q] = pc[q] /\ pc[q] \notin Importing
        PROVE  Files'
    BY <1>0, <1>1, <1>2, <1>4, <2>1, <2>2 DEF Files, Importing
  <2> QED
    BY <1>1, <1>2, <1>3, <1>4, <2>1, <2>2, LateMoveInd
<1>5. CASE /\ pc' = [pc EXCEPT ![p] = "undoSettings"]
           /\ UNCHANGED certFile
  <2>1. "undoSettings" \in Late /\ "undoSettings" \in Importing
    BY DEF Late, Importing, Loaded
  <2>2. ASSUME pc'[p] = "undoSettings",
               \A q \in Callers \ {p} : pc'[q] = pc[q] /\ pc[q] \notin Importing
        PROVE  Files'
    BY <1>0, <1>1, <1>2, <1>5, <2>1, <2>2 DEF Files, Importing
  <2> QED
    BY <1>1, <1>2, <1>3, <1>5, <2>1, <2>2, LateMoveInd
<1> QED
  BY <1>4, <1>5 DEF ImportCert

LEMMA ImportRoutesInd ==
  ASSUME IInv, StoreTypeOK', NEW p \in Callers, ImportRoutes(p) PROVE IInv'
<1>0. Types /\ Jobs /\ Files /\ draft \in Draft \cup {None}
  BY DEF IInv, Types, TypeOK
<1>1. /\ pc[p] = "importRoutes" /\ pc[p] \in Loaded /\ pc[p] \in Importing
      /\ UNCHANGED <<fileVars, lastDisc, newest, last, mutationMu, azureMu,
                     job, worldVars, selected>>
  BY DEF ImportRoutes, Loaded, Importing
<1>2. /\ UNCHANGED <<settingsFile, certFile, caddy, inflight, cloud>>
      /\ job[p].kind = "apply" /\ draft # None
      /\ settingsFile = draft.settings /\ certFile = draft.cert
  BY <1>0, <1>1 DEF fileVars, worldVars, Jobs, Files
<1>3. /\ settingsFile \in Settings /\ certFile \in Certs
      /\ draft \in Draft /\ draft.cfg \in Config
      /\ undoFailed \in BOOLEAN /\ pc \in [Callers -> Phases]
  BY <1>0, <1>2 DEF Types, TypeOK, Draft
<1>4. CASE /\ MarkApplied(p) /\ draft' = None
           /\ ApplyLiveConfig(draft.cfg) /\ Release(p)
           /\ undoFailed' = FALSE
  <2>1. /\ p \in Clients /\ pc[p] \in Syncing \ {"read", "build"}
        /\ Carries(p) /\ Remembers(p) /\ Rendered(p)
        /\ caddy = tx.rt /\ inflight = None
        /\ applied'.res = tx.rt.res /\ file'.ares = applied'.res
        /\ staged' = FALSE /\ desired' = desired
    BY <1>1, <1>2, <1>4, MarkAppliedFacts
  <2>2. /\ scfg' = draft.cfg /\ rcfg' = scfg' /\ scfg' \in Config
        /\ draft.cfg = job[p].cand /\ job[p].cand # None
    BY <1>2, <1>3, <1>4, <2>1, AbsentAssumption DEF ApplyLiveConfig, Carries
  <2>3. Serves(tx.rt, applied'.res, scfg')
    BY <1>1, <2>1, <2>2 DEF Remembers, Rendered, Serves
  <2>4. Files'
    <3>1. pc'[p] = "health" /\ \A q \in Callers \ {p} : pc'[q] = pc[q]
      BY <1>3, <1>4 DEF Release
    <3>2. \A q \in Callers \ {p} : pc[q] \notin Importing
      BY <2>1, OneSync DEF IInv, Importing, Syncing, Late, Loaded
    <3>3. settingsFile'.live = scfg'.live /\ certFile' = scfg'.cert
      BY <1>0, <1>2, <2>2 DEF Files
    <3> QED
      BY <1>4, <2>1, <3>1, <3>2, <3>3 DEF Files, Importing
  <2> QED
    BY <1>1, <1>2, <1>3, <1>4, <2>1, <2>2, <2>3, <2>4, ReleaseInd
<1>5. CASE /\ pc' = [pc EXCEPT ![p] = "undoBoth"]
           /\ UNCHANGED <<storeVars, cfgVars, syncMu, tx, post, diverged,
                          undoFailed>>
  <2>1. "undoBoth" \in Late /\ "undoBoth" \in Importing
    BY DEF Late, Importing, Loaded
  <2>2. UNCHANGED <<scfg, draft, staged>>
    BY <1>5 DEF cfgVars, storeVars
  <2>3. ASSUME pc'[p] = "undoBoth",
               \A q \in Callers \ {p} : pc'[q] = pc[q] /\ pc[q] \notin Importing
        PROVE  Files'
    BY <1>0, <1>1, <1>2, <1>5, <2>1, <2>2, <2>3 DEF Files, Importing
  <2> QED
    BY <1>1, <1>2, <1>3, <1>5, <2>1, <2>3, LateMoveInd
<1> QED
  BY <1>4, <1>5 DEF ImportRoutes

LEMMA UndoSettingsInd ==
  ASSUME IInv, StoreTypeOK', NEW p \in Callers, UndoSettings(p) PROVE IInv'
<1>0. Types /\ Jobs /\ Files
  BY DEF IInv
<1>1. /\ pc[p] \in {"undoSettings", "undoBoth"}
      /\ pc[p] \in Loaded /\ pc[p] \in Importing
      /\ UNCHANGED <<storeVars, certFile, cfgVars, lastDisc, newest, last,
                     mutationMu, syncMu, azureMu, job, tx, post, worldVars,
                     selected, diverged>>
  BY DEF UndoSettings, Loaded, Importing
<1>2. /\ UNCHANGED <<scfg, draft, staged>>
      /\ job[p].kind = "apply" /\ draft # None
  BY <1>0, <1>1 DEF cfgVars, storeVars, Jobs
<1>3. /\ settingsFile \in Settings /\ certFile \in Certs
      /\ draft.prevSettings \in Settings /\ undoFailed \in BOOLEAN
      /\ pc \in [Callers -> Phases]
  BY <1>0, <1>2 DEF Types, TypeOK, Draft
<1>4. /\ settingsFile' \in Settings /\ undoFailed' \in BOOLEAN
      /\ ~undoFailed' => settingsFile' = draft.prevSettings /\ ~undoFailed
  BY <1>3 DEF UndoSettings
<1> DEFINE x == IF pc[p] = "undoBoth" THEN "undoCert" ELSE "rollback"
<1>5. /\ pc' = [pc EXCEPT ![p] = x] /\ x \in Late
      /\ x \in Importing => x = "undoCert"
  BY <1>3 DEF UndoSettings, Late, Loaded, Importing
<1>6. ASSUME pc'[p] = x,
             \A q \in Callers \ {p} : pc'[q] = pc[q] /\ pc[q] \notin Importing
      PROVE  Files'
  <2>1. CASE pc[p] = "undoBoth"
    BY <1>0, <1>1, <1>2, <1>4, <1>6, <2>1 DEF Files, Importing
  <2>2. CASE pc[p] = "undoSettings"
    BY <1>0, <1>1, <1>2, <1>4, <1>6, <2>2 DEF Files, Importing
  <2> QED
    BY <1>1, <2>1, <2>2
<1> HIDE DEF x
<1> QED
  BY <1>1, <1>2, <1>3, <1>4, <1>5, <1>6, LateMoveInd

LEMMA UndoCertInd ==
  ASSUME IInv, StoreTypeOK', NEW p \in Callers, UndoCert(p) PROVE IInv'
<1>0. Types /\ Jobs /\ Files
  BY DEF IInv
<1>1. /\ pc[p] = "undoCert" /\ pc[p] \in Loaded /\ pc[p] \in Importing
      /\ pc' = [pc EXCEPT ![p] = "rollback"]
      /\ UNCHANGED <<storeVars, settingsFile, cfgVars, lastDisc, newest,
                     last, mutationMu, syncMu, azureMu, job, tx, post,
                     worldVars, selected, diverged>>
  BY DEF UndoCert, Loaded, Importing
<1>2. /\ UNCHANGED <<scfg, draft, staged>>
      /\ job[p].kind = "apply" /\ draft # None
  BY <1>0, <1>1 DEF cfgVars, storeVars, Jobs
<1>3. /\ settingsFile \in Settings /\ certFile \in Certs
      /\ draft.prevCert \in Certs /\ undoFailed \in BOOLEAN
  BY <1>0, <1>2 DEF Types, TypeOK, Draft
<1>4. /\ certFile' \in Certs /\ undoFailed' \in BOOLEAN
      /\ ~undoFailed' => certFile' = draft.prevCert /\ ~undoFailed
  BY <1>3 DEF UndoCert
<1>5. "rollback" \in Late \ Importing
  BY DEF Late, Importing, Loaded
<1>6. ASSUME pc'[p] = "rollback",
             \A q \in Callers \ {p} : pc'[q] = pc[q] /\ pc[q] \notin Importing
      PROVE  Files'
  BY <1>0, <1>1, <1>2, <1>4, <1>6 DEF Files, Importing
<1> QED
  BY <1>1, <1>2, <1>3, <1>4, <1>5, <1>6, LateMoveInd

LEMMA RollbackInd ==
  ASSUME IInv, StoreTypeOK', NEW p \in Callers, Rollback(p) PROVE IInv'
<1> USE AbsentAssumption
<1>0. /\ Types /\ Jobs /\ Locals /\ Running /\ Chosens
  BY DEF IInv
<1>1. /\ pc[p] = "rollback" /\ pc[p] \in Syncing \ Importing
      /\ Remembers(p)
      /\ UNCHANGED <<staged, desired, applied, file, fileVars, scfg, draft,
                     lastDisc, newest, azureMu, post, cloud, selected,
                     undoFailed>>
  BY <1>0 DEF Rollback, Locals, Syncing, Late, Loaded, Importing
<1>2. /\ tx.prevRt \in Runtime \cup {None} /\ tx.loaded \in BOOLEAN
      /\ caddy \in Runtime /\ inflight \in Runtime \cup {None}
      /\ lastDisc \in Discs /\ diverged \in BOOLEAN
      /\ scfg \in Config /\ applied.res \in Content
  BY <1>0 DEF Types, Tx, TypeOK, StoreTypeOK, Snapshot
<1>3. rcfg' = scfg
  BY <1>1 DEF Rollback, RestoreConfig, HasCandidate, Remembers
<1> DEFINE fresh == tx.prevRt = None
           target == RollbackTarget(p)
<1>4. /\ target \in Runtime /\ target.res \in selected
      /\ fresh \/ ~diverged => Serves(target, applied.res, scfg)
  <2>1. CASE fresh
    <3>1. rcfg = scfg /\ tx.prev = applied /\ tx.prevDisc \in Discs
      BY <1>1, <2>1 DEF Remembers
    <3> QED
      BY <1>0, <1>2, <2>1, <3>1
      DEF RollbackTarget, Render, Runtime, Config, Chosens, Serves
  <2>2. CASE ~fresh
    <3>1. /\ target = tx.prevRt /\ tx.prevRt.res \in selected
          /\ ~diverged => Serves(tx.prevRt, applied.res, scfg)
      BY <1>0, <1>1, <2>2 DEF RollbackTarget, Chosens, Running
    <3> QED
      BY <1>2, <2>2, <3>1
  <2> QED
    BY <2>1, <2>2
<1>5. /\ caddy.res \in selected
      /\ inflight # None => inflight.res \in selected
  BY <1>0 DEF Chosens
<1>6. CASE /\ caddy' = target /\ inflight' = None
           /\ diverged' = (diverged /\ ~fresh) /\ Fail(p, FALSE)
  <2>1. /\ diverged' \in BOOLEAN
        /\ ~diverged' => Serves(caddy', applied.res, scfg)
    BY <1>2, <1>4, <1>6
  <2> QED
    BY <1>1, <1>2, <1>3, <1>4, <1>6, <2>1, FailInd
<1>7. CASE /\ inflight' \in {inflight, target} /\ diverged' = TRUE
           /\ Fail(p, tx.loaded) /\ UNCHANGED caddy
  <2>1. /\ inflight' \in Runtime \cup {None}
        /\ inflight' # None => inflight'.res \in selected
    BY <1>2, <1>4, <1>5, <1>7
  <2> QED
    BY <1>1, <1>2, <1>3, <1>5, <1>7, <2>1, FailInd
<1> QED
  BY <1>6, <1>7 DEF Rollback

----------------------------------------------------------------------------
(* The checks and the inspection.                                          *)

(* A step of a goroutine that is not in a sync concerns the locks, the     *)
(* requests and the results only.                                          *)
LEMMA OutsideInd ==
  ASSUME IInv, NEW p \in Callers,
         pc[p] \notin Syncing, pc'[p] \notin Syncing \cup {"want"},
         \A q \in Callers \ {p} :
           pc'[q] = pc[q] /\ job'[q] = job[q] /\ held'[q] = held[q],
         UNCHANGED <<staged, desired, applied, file, settingsFile, certFile,
                     scfg, draft, rcfg, tx, caddy, inflight, selected,
                     diverged, undoFailed>>
  PROVE  Locals' /\ Running' /\ Files' /\ Chosens'
<1>0. Locals /\ Running /\ Files /\ Chosens
  BY DEF IInv
<1>1. /\ pc[p] \notin Late \cup Importing /\ pc'[p] \notin Late \cup Importing
      /\ pc[p] \notin Loaded /\ pc'[p] \notin Loaded
      /\ pc'[p] \notin {"want", "read", "build"}
      /\ "importCert" \in Importing /\ "importRoutes" \in Importing
      /\ "undoSettings" \in Importing /\ "undoCert" \in Importing
  BY DEF Syncing, Late, Loaded, Importing
<1>2. Locals'
  BY <1>0, <1>1 DEF Locals, Remembers, Rendered
<1>3. Running'
  BY <1>0, <1>1 DEF Running, Serves
<1>4. Files'
  BY <1>0, <1>1 DEF Files
<1>5. Chosens'
  BY <1>0, <1>1 DEF Chosens
<1> QED
  BY <1>2, <1>3, <1>4, <1>5

LEMMA HealthInd ==
  ASSUME IInv, StoreTypeOK', NEW p \in Callers, Health(p) PROVE IInv'
<1>0. Types /\ Locks /\ Jobs /\ Results
  BY DEF IInv
<1>1. /\ pc[p] = "health" /\ pc'[p] \in {"azure", "finish"}
      /\ pc' \in [Callers -> Phases]
      /\ \A q \in Callers \ {p} : pc'[q] = pc[q] /\ held'[q] = held[q]
      /\ UNCHANGED <<staged, revision, desired, applied, file, fileVars,
                     cfgVars, lastDisc, newest, last, mutationMu, syncMu,
                     azureMu, job, tx, post, worldVars, obsVars>>
  BY <1>0 DEF Health, Types, TypeOK, StoreTypeOK, Phases
<1>2. /\ UNCHANGED <<settingsFile, certFile, scfg, draft, rcfg>>
      /\ UNCHANGED <<caddy, inflight, cloud, selected, diverged, undoFailed>>
  BY <1>1 DEF fileVars, cfgVars, worldVars, obsVars
<1>3. Types'
  BY <1>0, <1>1, <1>2 DEF Types, TypeOK
<1>4. Locks'
  BY ProcAssumption, <1>0, <1>1 DEF Locks, Clients, Syncing, Late, Loaded
<1>5. Jobs'
  BY ProcAssumption, <1>0, <1>1, <1>2
  DEF Jobs, Carries, Clients, Syncing, Late, Loaded, Importing
<1>6. Results'
  BY <1>0, <1>1, <1>2
  DEF Results, Serves, Syncing, Late, Loaded, Checking
<1>7. Locals' /\ Running' /\ Files' /\ Chosens'
  BY <1>1, <1>2, OutsideInd DEF Syncing, Late, Loaded
<1> QED
  BY <1>3, <1>4, <1>5, <1>6, <1>7 DEF IInv

LEMMA AzureStartInd ==
  ASSUME IInv, StoreTypeOK', NEW p \in Callers, AzureStart(p) PROVE IInv'
<1>0. Types /\ Locks /\ Jobs /\ Results
  BY DEF IInv
<1>1. /\ pc[p] = "azure" /\ azureMu = None
      /\ \/ pc'[p] = "azuring" /\ azureMu' = p /\ newest = p
         \/ pc'[p] = "finish" /\ azureMu' = None
      /\ pc' \in [Callers -> Phases]
      /\ \A q \in Callers \ {p} : pc'[q] = pc[q]
      /\ UNCHANGED <<storeVars, fileVars, cfgVars, lastDisc, newest, last,
                     mutationMu, syncMu, job, tx, post, worldVars, obsVars>>
  BY <1>0 DEF AzureStart, AzureFree, Superseded, Types, TypeOK, Phases
<1>2. /\ UNCHANGED <<settingsFile, certFile, scfg, draft, rcfg>>
      /\ UNCHANGED <<caddy, inflight, cloud, selected, diverged, undoFailed>>
      /\ UNCHANGED <<staged, revision, desired, applied, held, file>>
  BY <1>1 DEF fileVars, cfgVars, worldVars, obsVars, storeVars
<1>3. Types'
  BY <1>0, <1>1, <1>2 DEF Types, TypeOK
<1>4. Locks'
  BY ProcAssumption, <1>0, <1>1, AbsentAssumption
  DEF Locks, Clients, Syncing, Late, Loaded
<1>5. Jobs'
  BY ProcAssumption, <1>0, <1>1, <1>2
  DEF Jobs, Carries, Clients, Syncing, Late, Loaded, Importing
<1>6. Results'
  <2>1. post[p].azure = "skipped" /\ (newest = p => last = NoResult)
    BY <1>0, <1>1 DEF Results, Checking
  <2> QED
    BY <1>0, <1>1, <1>2, <2>1, NoResultFields, AbsentAssumption
    DEF Results, Serves, Syncing, Late, Loaded, Checking
<1>7. Locals' /\ Running' /\ Files' /\ Chosens'
  BY <1>1, <1>2, OutsideInd DEF Syncing, Late, Loaded
<1> QED
  BY <1>3, <1>4, <1>5, <1>6, <1>7 DEF IInv

(* One Azure pass at a time: when the newest sync ends its pass nobody     *)
(* else can change the cloud any more.                                     *)
LEMMA AzureEndInd ==
  ASSUME IInv, StoreTypeOK', NEW p \in Callers, AzureEnd(p) PROVE IInv'
<1>0. Types /\ Locks /\ Jobs /\ Results
  BY DEF IInv
<1>1. /\ pc[p] = "azuring" /\ pc'[p] = "finish" /\ azureMu' = None
      /\ pc' \in [Callers -> Phases]
      /\ \A q \in Callers \ {p} : pc'[q] = pc[q] /\ pc[q] # "azuring"
      /\ UNCHANGED <<storeVars, fileVars, cfgVars, lastDisc, newest, last,
                     mutationMu, syncMu, job, tx, caddy, inflight, obsVars>>
  BY <1>0 DEF AzureEnd, Types, TypeOK, Phases, Locks
<1>2. /\ UNCHANGED <<settingsFile, certFile, scfg, draft, rcfg>>
      /\ UNCHANGED <<selected, diverged, undoFailed>>
      /\ UNCHANGED <<staged, revision, desired, applied, held, file>>
  BY <1>1 DEF fileVars, cfgVars, obsVars, storeVars
<1>3. post[p] \in Post
  BY <1>0 DEF Types
<1>4. /\ post' \in [Callers -> Post]
      /\ post'[p].rt = post[p].rt
      /\ \A q \in Callers \ {p} : post'[q] = post[q]
      /\ \/ cloud' = post[p].rt /\ post'[p].azure = "done"
         \/ cloud' = Mixed /\ post'[p].azure = "failed"
  <2>1. CASE cloud' = post[p].rt /\ post' = [post EXCEPT ![p].azure = "done"]
    BY <1>0, <1>3, <2>1 DEF Types, Post, Passes
  <2>2. CASE cloud' = Mixed /\ post' = [post EXCEPT ![p].azure = "failed"]
    BY <1>0, <1>3, <2>2 DEF Types, Post, Passes
  <2> QED
    BY <2>1, <2>2 DEF AzureEnd
<1>5. Types'
  <2>1. cloud' \in Runtime \cup {None, Mixed}
    BY <1>3, <1>4 DEF Post
  <2>2. TypeOK'
    BY <1>0, <1>1, <1>2, <2>1 DEF Types, TypeOK
  <2> QED
    BY <1>0, <1>1, <1>2, <1>4, <2>2 DEF Types
<1>6. Locks'
  BY ProcAssumption, <1>0, <1>1, AbsentAssumption
  DEF Locks, Clients, Syncing, Late, Loaded
<1>7. Jobs'
  BY ProcAssumption, <1>0, <1>1, <1>2
  DEF Jobs, Carries, Clients, Syncing, Late, Loaded, Importing
<1>8. Results'
  <2>1. last.azure # "done"
    BY <1>0, <1>1 DEF Results
  <2> QED
    BY <1>0, <1>1, <1>2, <1>4, <2>1
    DEF Results, Serves, Syncing, Late, Loaded, Checking
<1>9. Locals' /\ Running' /\ Files' /\ Chosens'
  BY <1>1, <1>2, OutsideInd DEF Syncing, Late, Loaded
<1> QED
  BY <1>5, <1>6, <1>7, <1>8, <1>9 DEF IInv

LEMMA FinishInd ==
  ASSUME IInv, StoreTypeOK', NEW p \in Callers, Finish(p) PROVE IInv'
<1> USE AbsentAssumption, ProcAssumption
<1>0. Types /\ Locks /\ Jobs /\ Results
  BY DEF IInv
<1>1. /\ pc[p] = "finish" /\ Return(p, TRUE)
      /\ post' = [post EXCEPT ![p] = NoPost]
      /\ IF newest = p THEN last' = Published(p) ELSE UNCHANGED last
      /\ UNCHANGED <<storeVars, fileVars, cfgVars, lastDisc, newest, syncMu,
                     azureMu, tx, worldVars, obsVars>>
  BY DEF Finish, Superseded
<1>2. /\ UNCHANGED <<settingsFile, certFile, scfg, draft, rcfg>>
      /\ UNCHANGED <<caddy, inflight, cloud, selected, diverged, undoFailed>>
      /\ UNCHANGED <<staged, revision, desired, applied, held, file>>
  BY <1>1 DEF fileVars, cfgVars, worldVars, obsVars, storeVars
<1>3. /\ pc' \in [Callers -> Phases] /\ pc'[p] \in {"idle", "inspect"}
      /\ \A q \in Callers \ {p} : pc'[q] = pc[q]
      /\ DOMAIN job' = Callers
      /\ \A q \in Callers \ {p} : job'[q] = job[q]
      /\ pc'[p] = "idle" => job'[p] = NoJob
      /\ pc'[p] # "idle" =>
           job'[p] = job[p] /\ job[p].kind \in {"refresh", "cert"}
      /\ mutationMu' = IF mutationMu = p /\ pc'[p] = "idle" THEN None
                       ELSE mutationMu
  BY <1>0, <1>1 DEF Return, Types, TypeOK, Phases
<1>4. /\ post' \in [Callers -> Post]
      /\ \A q \in Callers \ {p} : post'[q] = post[q]
  BY <1>0, <1>1, NoResultFields DEF Types
<1>5. /\ Published(p) \in Result /\ Published(p).rt = post[p].rt
      /\ Published(p).azure = post[p].azure /\ Published(p).loaded
      /\ Published(p).error <=> post[p].azure = "failed"
  <2>1. post[p] \in Post
    BY <1>0 DEF Types
  <2> QED
    BY <2>1 DEF Published, Post, Result
<1>6. Types'
  <2>1. \A q \in Callers : job'[q].cand \in Config \cup {None}
    BY <1>0, <1>3 DEF Types, TypeOK, NoJob
  <2>2. mutationMu' \in Clients \cup {None}
    BY <1>0, <1>3 DEF Types, TypeOK
  <2>3. last' \in Result
    BY <1>0, <1>1, <1>5 DEF Types
  <2>4. TypeOK'
    BY <1>0, <1>1, <1>2, <1>3, <2>1, <2>2 DEF Types, TypeOK
  <2> QED
    BY <1>0, <1>1, <1>2, <1>3, <1>4, <2>3, <2>4 DEF Types
<1>7. Locks'
  BY ProcAssumption, <1>0, <1>1, <1>3
  DEF Locks, Types, TypeOK, Clients, Syncing, Late, Loaded
<1>8. Jobs'
  BY ProcAssumption, <1>0, <1>1, <1>2, <1>3
  DEF Jobs, Carries, Clients, Syncing, Late, Loaded, Importing
<1>9. Results'
  <2>1. CASE newest = p
    <3>1. /\ post[p].rt = caddy /\ Serves(caddy, applied.res, scfg)
          /\ inflight = None
          /\ post[p].azure = "done" =>
               cloud = post[p].rt /\ \A q \in Callers : pc[q] # "azuring"
      BY <1>0, <1>1, <2>1 DEF Results, Checking
    <3>2. /\ last'.rt = post[p].rt /\ last'.azure = post[p].azure
          /\ last'.loaded /\ (last'.error <=> post[p].azure = "failed")
      BY <1>1, <1>5, <2>1
    <3>3. \A q \in Callers : pc'[q] \in Checking \cup Syncing => newest # q
      BY <1>0, <1>1, <1>3, <2>1
      DEF Locks, Syncing, Late, Loaded, Checking
    <3>4. \A q \in Callers :
            /\ pc'[q] \in Checking \ {"finish"} => post'[q].azure = "skipped"
            /\ pc'[q] = "azuring" => pc[q] = "azuring"
      BY <1>0, <1>3, <1>4 DEF Results, Checking
    <3> QED
      BY <1>1, <1>2, <3>1, <3>2, <3>3, <3>4 DEF Results, Serves, Checking
  <2>2. CASE newest # p
    BY <1>0, <1>1, <1>2, <1>3, <1>4, <2>2
    DEF Results, Serves, Syncing, Late, Loaded, Checking
  <2> QED
    BY <2>1, <2>2
<1>10. Locals' /\ Running' /\ Files' /\ Chosens'
  BY <1>1, <1>2, <1>3, OutsideInd DEF Syncing, Late, Loaded
<1> QED
  BY <1>6, <1>7, <1>8, <1>9, <1>10 DEF IInv

LEMMA InspectInd ==
  ASSUME IInv, StoreTypeOK', NEW p \in Callers, Inspect(p) PROVE IInv'
<1> USE AbsentAssumption, ProcAssumption
<1>0. Types /\ Locks /\ Jobs /\ Results
  BY DEF IInv
<1>1. /\ pc[p] = "inspect" /\ pc'[p] = "inspecting"
      /\ syncMu = None /\ syncMu' = p
      /\ pc' \in [Callers -> Phases]
      /\ \A q \in Callers \ {p} : pc'[q] = pc[q]
      /\ UNCHANGED <<storeVars, fileVars, cfgVars, lastDisc, newest, last,
                     mutationMu, azureMu, job, tx, post, worldVars, obsVars>>
  BY <1>0 DEF Inspect, Types, TypeOK, Phases
<1>2. /\ UNCHANGED <<settingsFile, certFile, scfg, draft, rcfg>>
      /\ UNCHANGED <<caddy, inflight, cloud, selected, diverged, undoFailed>>
      /\ UNCHANGED <<staged, revision, desired, applied, held, file>>
  BY <1>1 DEF fileVars, cfgVars, worldVars, obsVars, storeVars
<1>3. Types'
  BY <1>0, <1>1, <1>2 DEF Types, TypeOK
<1>4. Locks'
  BY ProcAssumption, <1>0, <1>1 DEF Locks, Clients, Syncing, Late, Loaded
<1>5. Jobs'
  BY ProcAssumption, <1>0, <1>1, <1>2
  DEF Jobs, Carries, Clients, Syncing, Late, Loaded, Importing
<1>6. Results'
  BY <1>0, <1>1, <1>2
  DEF Results, Serves, Syncing, Late, Loaded, Checking
<1>7. Locals' /\ Running' /\ Files' /\ Chosens'
  BY <1>1, <1>2, OutsideInd DEF Syncing, Late, Loaded
<1> QED
  BY <1>3, <1>4, <1>5, <1>6, <1>7 DEF IInv

LEMMA InspectEndInd ==
  ASSUME IInv, StoreTypeOK', NEW p \in Callers, InspectEnd(p) PROVE IInv'
<1> USE AbsentAssumption, ProcAssumption
<1>0. Types /\ Locks /\ Jobs /\ Results
  BY DEF IInv
<1>1. /\ pc[p] = "inspecting" /\ pc'[p] = "idle"
      /\ syncMu' = None /\ mutationMu' = None
      /\ pc' \in [Callers -> Phases]
      /\ \A q \in Callers \ {p} : pc'[q] = pc[q] /\ job'[q] = job[q]
      /\ DOMAIN job' = Callers /\ job'[p] = NoJob
      /\ UNCHANGED <<storeVars, fileVars, cfgVars, lastDisc, newest, last,
                     azureMu, tx, post, worldVars, obsVars>>
  BY <1>0 DEF InspectEnd, Types, TypeOK, Phases
<1>2. /\ UNCHANGED <<settingsFile, certFile, scfg, draft, rcfg>>
      /\ UNCHANGED <<caddy, inflight, cloud, selected, diverged, undoFailed>>
      /\ UNCHANGED <<staged, revision, desired, applied, held, file>>
  BY <1>1 DEF fileVars, cfgVars, worldVars, obsVars, storeVars
<1>3. p \in Clients /\ mutationMu = p /\ syncMu = p
  BY ProcAssumption, <1>0, <1>1 DEF Jobs, Locks, Clients
<1>4. Types'
  <2>1. \A q \in Callers : job'[q].cand \in Config \cup {None}
    BY <1>0, <1>1 DEF Types, TypeOK, NoJob
  <2>2. TypeOK'
    BY <1>0, <1>1, <1>2, <2>1 DEF Types, TypeOK
  <2> QED
    BY <1>0, <1>1, <1>2, <2>2 DEF Types
<1>5. Locks'
  BY ProcAssumption, <1>0, <1>1, <1>3 DEF Locks, Clients, Syncing, Late, Loaded
<1>6. Jobs'
  BY ProcAssumption, <1>0, <1>1, <1>2, <1>3
  DEF Jobs, Carries, Clients, Syncing, Late, Loaded, Importing
<1>7. Results'
  BY <1>0, <1>1, <1>2
  DEF Results, Serves, Syncing, Late, Loaded, Checking
<1>8. Locals' /\ Running' /\ Files' /\ Chosens'
  BY <1>1, <1>2, OutsideInd DEF Syncing, Late, Loaded
<1> QED
  BY <1>4, <1>5, <1>6, <1>7, <1>8 DEF IInv

----------------------------------------------------------------------------
(* Requests that do not reach the reconciler, late loads, crashes.         *)

(* A request that holds mutationMu from start to end meets no other one.   *)
LEMMA NoRequest ==
  ASSUME IInv, mutationMu = None
  PROVE  /\ \A p \in Clients : pc[p] = "idle"
         /\ \A p \in Callers : pc[p] # "idle" => job[p].kind = "tick"
         /\ \A p \in Callers : pc[p] \notin Late \cup Importing
<1>1. \A p \in Clients : pc[p] = "idle"
  BY ProcAssumption, AbsentAssumption DEF IInv, Locks, Clients
<1>2. \A p \in Callers : pc[p] # "idle" => job[p].kind = "tick"
  BY ProcAssumption, <1>1 DEF IInv, Jobs, Clients
<1> QED
  BY <1>1, <1>2 DEF IInv, Jobs, Late, Loaded, Importing

LEMMA EditRoutesInd == ASSUME IInv, StoreTypeOK', EditRoutes PROVE IInv'
<1>0. /\ Types /\ Locks /\ Jobs /\ Locals /\ Running /\ Files /\ Chosens
      /\ Results
  BY DEF IInv
<1>1. /\ mutationMu = None
      /\ UNCHANGED <<fileVars, cfgVars, lastDisc, newest, last, mutationMu,
                     syncMu, azureMu, goVars, worldVars, obsVars>>
      /\ UNCHANGED <<staged, applied, held>>
  BY DEF EditRoutes, Edit
<1>2. /\ UNCHANGED <<settingsFile, certFile, scfg, draft, rcfg>>
      /\ UNCHANGED <<caddy, inflight, cloud, selected, diverged, undoFailed>>
      /\ UNCHANGED <<pc, job, tx, post>>
  BY <1>1 DEF fileVars, cfgVars, goVars, worldVars, obsVars
<1>3. file'.ares = applied.res
  BY <1>0 DEF EditRoutes, Edit, FileOf, Chosens
<1>4. Types'
  BY <1>0, <1>1, <1>2 DEF Types, TypeOK
<1>5. Locks' /\ Jobs'
  BY <1>0, <1>1, <1>2 DEF Locks, Jobs, Carries
<1>6. Locals' /\ Running' /\ Files'
  BY <1>0, <1>1, <1>2 DEF Locals, Remembers, Rendered, Running, Serves, Files
<1>7. Chosens'
  <2>1. \A p \in Callers :
          ~(pc[p] \in {"want", "read", "build"} /\ job[p].kind = "apply")
    BY <1>1, NoRequest
  <2> QED
    BY <1>0, <1>1, <1>2, <1>3, <2>1 DEF Chosens
<1>8. Results'
  BY <1>0, <1>1, <1>2 DEF Results, Serves
<1> QED
  BY <1>4, <1>5, <1>6, <1>7, <1>8 DEF IInv

LEMMA ImportBundleInd ==
  ASSUME IInv, StoreTypeOK', NEW s \in Settings, NEW c \in Certs,
         ImportBundle(s, c)
  PROVE  IInv'
<1> USE AbsentAssumption
<1>0. /\ Types /\ Locks /\ Jobs /\ Locals /\ Running /\ Files /\ Chosens
      /\ Results
  BY DEF IInv
<1>1. /\ mutationMu = None
      /\ UNCHANGED <<fileVars, scfg, rcfg, lastDisc, newest, last,
                     mutationMu, syncMu, azureMu, goVars, worldVars, obsVars>>
      /\ UNCHANGED <<applied, held, file>>
      /\ staged' = TRUE
  BY DEF ImportBundle, Stage
<1>2. /\ UNCHANGED <<settingsFile, certFile>>
      /\ UNCHANGED <<caddy, inflight, cloud, selected, diverged, undoFailed>>
      /\ UNCHANGED <<pc, job, tx, post>>
  BY <1>1 DEF fileVars, goVars, worldVars, obsVars
<1>3. /\ scfg \in Config /\ settingsFile \in Settings
      /\ draft \in Draft \cup {None}
  BY <1>0 DEF Types, TypeOK
<1>4. /\ ImportedLiveConfig(scfg, s, c) =
           [live |-> s.live, boot |-> scfg.boot, cert |-> c]
      /\ ImportedLiveConfig(scfg, s, c) \in Config
  <2> DEFINE new == ImportedLiveConfig(scfg, s, c)
  <2>1. /\ new \in Config
        /\ new.live = s.live /\ new.boot = scfg.boot /\ new.cert = c
    BY <1>3 DEF ImportedLiveConfig, Config, Settings
  <2> HIDE DEF new
  <2>2. new = [live |-> new.live, boot |-> new.boot, cert |-> new.cert]
    BY <2>1 DEF Config
  <2> QED
    BY <2>1, <2>2 DEF new
<1>5. PreviousSettings \in Settings /\ PreviousCert \in Certs
  BY <1>3 DEF PreviousSettings, PreviousCert, Draft, Config
<1>6. /\ draft' \in Draft /\ draft' # None
      /\ draft'.settings = s /\ draft'.cert = c
      /\ draft'.cfg = ImportedLiveConfig(scfg, s, c)
      /\ draft'.prevSettings = PreviousSettings
      /\ draft'.prevCert = PreviousCert
  BY <1>4, <1>5 DEF ImportBundle, Draft
<1>7. Types'
  <2>1. TypeOK'
    BY <1>0, <1>1, <1>2, <1>6 DEF Types, TypeOK
  <2> QED
    BY <1>0, <1>1, <1>2, <2>1 DEF Types
<1>8. \A p \in Callers : pc[p] \in {"want"} \cup Syncing => job[p].kind = "tick"
  BY <1>1, NoRequest DEF Syncing, Late, Loaded
<1>9. Locks' /\ Jobs'
  BY <1>0, <1>1, <1>2, <1>8, NoRequest DEF Locks, Jobs, Carries
<1>10. Locals' /\ Running'
  BY <1>0, <1>1, <1>2 DEF Locals, Remembers, Rendered, Running, Serves
<1>11. Files'
  <2>1. \A p \in Callers : pc[p] \notin Importing
    BY <1>1, NoRequest
  <2>2. ~undoFailed =>
          /\ settingsFile.live = scfg.live /\ certFile = scfg.cert
          /\ PreviousSettings = settingsFile
          /\ PreviousCert = scfg.cert
    BY <1>0, <2>1 DEF Files, PreviousSettings, PreviousCert
  <2> QED
    BY <1>1, <1>2, <1>4, <1>6, <2>1, <2>2 DEF Files, Importing
<1>12. Chosens'
  <2>1. \A p \in Callers :
          ~(pc[p] \in {"want", "read", "build"} /\ job[p].kind = "apply")
    BY <1>1, NoRequest
  <2> QED
    BY <1>0, <1>1, <1>2, <2>1 DEF Chosens
<1>13. Results'
  BY <1>0, <1>1, <1>2 DEF Results, Serves
<1> QED
  BY <1>7, <1>9, <1>10, <1>11, <1>12, <1>13 DEF IInv

LEMMA SaveSystemSettingsInd ==
  ASSUME IInv, StoreTypeOK', NEW b \in Boots, SaveSystemSettings(b)
  PROVE  IInv'
<1>0. /\ Types /\ Locks /\ Jobs /\ Locals /\ Running /\ Files /\ Chosens
      /\ Results
  BY DEF IInv
<1>1. /\ mutationMu = None /\ draft = None
      /\ UNCHANGED <<storeVars, certFile, cfgVars, lastDisc, newest, last,
                     mutationMu, syncMu, azureMu, goVars, worldVars, obsVars>>
  BY DEF SaveSystemSettings
<1>2. /\ UNCHANGED <<scfg, draft, rcfg, pc, job, tx, post>>
      /\ UNCHANGED <<caddy, inflight, cloud, selected, diverged, undoFailed>>
      /\ UNCHANGED <<staged, revision, desired, applied, held, file>>
  BY <1>1 DEF cfgVars, goVars, worldVars, obsVars, storeVars
<1>3. settingsFile' \in Settings /\ settingsFile'.live = settingsFile.live
  BY <1>0 DEF SaveSystemSettings, Types, TypeOK, Settings
<1>4. Types'
  BY <1>0, <1>1, <1>2, <1>3 DEF Types, TypeOK
<1>5. Locks' /\ Jobs'
  BY <1>0, <1>1, <1>2 DEF Locks, Jobs, Carries
<1>6. Locals' /\ Running'
  BY <1>0, <1>2 DEF Locals, Remembers, Rendered, Running, Serves
<1>7. Files'
  BY <1>0, <1>1, <1>2, <1>3, NoRequest DEF Files, Importing
<1>8. Chosens' /\ Results'
  BY <1>0, <1>1, <1>2 DEF Chosens, Results, Serves
<1> QED
  BY <1>4, <1>5, <1>6, <1>7, <1>8 DEF IInv

(* A load that timed out happens only while no load has succeeded since.   *)
LEMMA LateLoadInd == ASSUME IInv, StoreTypeOK', LateLoad PROVE IInv'
<1>0. /\ Types /\ Locks /\ Jobs /\ Locals /\ Running /\ Files /\ Chosens
      /\ Results
  BY DEF IInv
<1>1. /\ inflight # None /\ caddy' = inflight /\ inflight' = None
      /\ UNCHANGED <<storeVars, fileVars, cfgVars, lastDisc, newest, last,
                     mutationMu, syncMu, azureMu, goVars, cloud, obsVars>>
  BY DEF LateLoad
<1>2. /\ UNCHANGED <<settingsFile, certFile, scfg, draft, rcfg>>
      /\ UNCHANGED <<pc, job, tx, post, selected, diverged, undoFailed>>
      /\ UNCHANGED <<staged, revision, desired, applied, held, file>>
  BY <1>1 DEF fileVars, cfgVars, goVars, obsVars, storeVars
<1>3. Types'
  BY <1>0, <1>1, <1>2 DEF Types, TypeOK
<1>4. Locks' /\ Jobs' /\ Locals' /\ Files'
  BY <1>0, <1>1, <1>2
  DEF Locks, Jobs, Carries, Locals, Remembers, Rendered, Files
<1>5. Running' /\ Chosens'
  BY <1>0, <1>1, <1>2 DEF Running, Serves, Chosens
<1>6. Results'
  BY <1>0, <1>1, <1>2 DEF Results
<1> QED
  BY <1>3, <1>4, <1>5, <1>6 DEF IInv

LEMMA CrashInd == ASSUME IInv, StoreTypeOK', Crash PROVE IInv'
<1> USE AbsentAssumption, ValueAssumption
<1>0. Types /\ Chosens
  BY DEF IInv
<1>1. /\ \A p \in Callers : pc'[p] = "idle" /\ job'[p] = NoJob
      /\ pc' \in [Callers -> Phases] /\ DOMAIN job' = Callers
      /\ post' = [p \in Callers |-> NoPost] /\ tx' = NoTx
      /\ newest' = None /\ last' = NoResult
      /\ mutationMu' = None /\ syncMu' = None /\ azureMu' = None
      /\ draft' = None /\ lastDisc' = NoDisc /\ inflight' = None
      /\ diverged' = FALSE /\ undoFailed' = FALSE
      /\ UNCHANGED <<settingsFile, certFile, selected>>
  BY DEF Crash, Phases, fileVars
<1>2. /\ settingsFile \in Settings /\ certFile \in Certs
      /\ cloud \in Runtime \cup {None, Mixed}
      /\ applied'.res \in Content
  BY <1>0 DEF Types, TypeOK, StoreTypeOK, Snapshot
<1>3. /\ scfg' \in Config /\ rcfg' = scfg'
      /\ scfg'.live = settingsFile.live /\ scfg'.cert = certFile
  BY <1>2 DEF Crash, ConfigFromFiles, Settings, Config
<1>4. /\ staged' = FALSE /\ UNCHANGED file /\ applied'.res = file.ares
      /\ applied'.res = applied.res
  BY <1>0 DEF Crash, Restart, Chosens
<1>5. /\ caddy' = Render(applied'.res, NoDisc, scfg')
      /\ caddy' \in Runtime /\ caddy'.res = applied'.res
      /\ Serves(caddy', applied'.res, scfg')
  BY <1>2, <1>3, <1>4 DEF Crash, Render, Runtime, Config, Serves
<1>6. Types'
  <2>1. cloud' \in Runtime \cup {None, Mixed}
    BY <1>2 DEF Crash
  <2>2. TypeOK'
    BY <1>1, <1>2, <1>3, <1>5, <2>1 DEF TypeOK, NoJob
  <2> QED
    BY <1>0, <1>1, <2>2, NoTxType, NoResultFields DEF Types
<1>7. Locks' /\ Jobs' /\ Locals'
  BY ProcAssumption, <1>1, <1>3
  DEF Locks, Jobs, Locals, Clients, Syncing, Late, Loaded, Importing
<1>8. Running' /\ Files'
  BY <1>1, <1>3, <1>4, <1>5
  DEF Running, Files, Serves, Syncing, Late, Loaded, Importing
<1>9. Chosens'
  BY <1>0, <1>1, <1>4, <1>5 DEF Chosens, Syncing, Late, Loaded
<1>10. Results'
  BY <1>1, NoResultFields DEF Results, Syncing, Late, Loaded, Checking
<1> QED
  BY <1>6, <1>7, <1>8, <1>9, <1>10 DEF IInv

LEMMA StutterInd == ASSUME IInv, UNCHANGED vars PROVE IInv'
<1>1. /\ UNCHANGED <<settingsFile, certFile, scfg, draft, rcfg, lastDisc,
                     newest, last, mutationMu, syncMu, azureMu, pc, job, tx,
                     post, caddy, inflight, cloud, selected, diverged,
                     undoFailed>>
      /\ UNCHANGED <<staged, revision, desired, applied, held, file>>
  BY DEF vars, storeVars, fileVars, cfgVars, goVars, worldVars, obsVars
<1>2. Types' /\ Locks' /\ Jobs'
  BY <1>1 DEF IInv, Types, TypeOK, StoreTypeOK, Locks, Jobs, Carries
<1>3. Locals' /\ Running' /\ Files'
  BY <1>1
  DEF IInv, Locals, Remembers, Rendered, Running, Serves, Files
<1>4. Chosens' /\ Results'
  BY <1>1 DEF IInv, Chosens, Results, Serves
<1> QED
  BY <1>2, <1>3, <1>4 DEF IInv

LEMMA NextIInv == IInv /\ [Next]_vars => IInv'
<1> SUFFICES ASSUME IInv, [Next]_vars PROVE IInv'
  OBVIOUS
<1>0. StoreTypeOK'
  <2>1. StoreTypeOK
    BY DEF IInv, Types, TypeOK
  <2> QED
    BY <2>1, StoreStep, StoreType
<1>1. CASE EditRoutes
  BY <1>0, <1>1, EditRoutesInd
<1>2. ASSUME NEW s \in Settings, NEW c \in Certs, ImportBundle(s, c)
      PROVE  IInv'
  BY <1>0, <1>2, ImportBundleInd
<1>3. ASSUME NEW b \in Boots, SaveSystemSettings(b) PROVE IInv'
  BY <1>0, <1>3, SaveSystemSettingsInd
<1>4. ASSUME NEW p \in Clients,
             \/ Apply(p) \/ RefreshCertificate(p)
             \/ \E v \in Lives : ChangeSecurity(p, v)
             \/ \E v \in Lives, b \in Boots : RotateToken(p, v, b)
             \/ \E v \in Certs : ChangeCertificate(p, v)
      PROVE  IInv'
  BY <1>0, <1>4, RequestsInd
<1>5. CASE Tick
  BY <1>0, <1>5, TickInd
<1>6. ASSUME NEW p \in Callers, Step(p) PROVE IInv'
  BY <1>0, <1>6, StartSyncInd, ReadRuntimeInd, BuildInd, LoadOKInd,
     LoadFailsInd, CommitConfigInd, CommitRoutesInd, ImportSettingsInd,
     ImportCertInd, ImportRoutesInd, UndoSettingsInd, UndoCertInd,
     RollbackInd, HealthInd, AzureStartInd, AzureEndInd, FinishInd,
     InspectInd, InspectEndInd
  DEF Step
<1>7. CASE LateLoad
  BY <1>0, <1>7, LateLoadInd
<1>8. CASE Crash
  BY <1>0, <1>8, CrashInd
<1>9. CASE UNCHANGED vars
  BY <1>9, StutterInd
<1> QED
  BY <1>1, <1>2, <1>3, <1>4, <1>5, <1>6, <1>7, <1>8, <1>9 DEF Next

LEMMA Inductive == Spec => []IInv
  BY InitIInv, NextIInv, PTL DEF Spec

----------------------------------------------------------------------------
(* The theorems.                                                           *)

(* Whatever calls of SyncConfigWithCommit, of its roll back and of         *)
(* persistConfigurationImport fail, and whenever the process dies: between *)
(* syncs Caddy runs the applied routes under the configuration that the    *)
(* API publishes and the reconciler renders with, the files hold it, and a *)
(* draft fits the files it was made for.                                   *)
THEOREM InAgreement == Spec => []Agreement
<1>1. ASSUME IInv PROVE Agreement
  <2> USE AbsentAssumption
  <2>0. /\ Types /\ Locks /\ Jobs /\ Locals /\ Running /\ Files
    BY <1>1 DEF IInv
  <2>1. TypeOK
    BY <2>0 DEF Types
  <2>2. ASSUME syncMu = None
        PROVE  \A p \in Callers : pc[p] \notin Syncing \cup Late
    BY <2>0, <2>2 DEF Locks, Syncing
  <2>3. ASSUME mutationMu = None
        PROVE  \A p \in Callers : pc[p] \notin Importing
    BY <1>1, <2>3, NoRequest
  <2>4. RuntimeAgreement
    BY <2>0, <2>2 DEF RuntimeAgreement, Running
  <2>5. ConfigAgreement
    BY <2>0, <2>2 DEF ConfigAgreement, Locals
  <2>6. FilesAgreement
    BY <2>0, <2>3 DEF FilesAgreement, Files
  <2>7. DraftSound
    BY <2>0, <2>3 DEF DraftSound, Files
  <2> QED
    BY <2>1, <2>4, <2>5, <2>6, <2>7 DEF Agreement
<1> QED
  BY <1>1, Inductive, PTL

(* Caddy never runs routes for which Apply was not selected: no background *)
(* loop, no security, token or certificate change, no roll back, no late   *)
(* load and no restart makes a draft live.                                 *)
THEOREM NoDraftGoesLive == Spec => []DraftNeverLive
<1>1. IInv => DraftNeverLive
  BY DEF IInv, Chosens, DraftNeverLive
<1> QED
  BY <1>1, Inductive, PTL

(* What the status API reports of the newest sync is true of Caddy and of  *)
(* the cloud, however syncs and Azure passes overlap.                      *)
THEOREM HonestResults == Spec => []ResultsHonest
<1>1. IInv => ResultsHonest
  BY DEF IInv, Results, ResultsHonest, ReportHonest, CloudHonest
<1> QED
  BY <1>1, Inductive, PTL

(* The routes the next start will load render.                             *)
THEOREM StartsRender == Spec => []StartupRenders
<1>1. IInv => StartupRenders
  BY DEF IInv, Chosens, StartupRenders, Renderable
<1> QED
  BY <1>1, Inductive, PTL

(* An import writes its routes last: a crash between the three writes of   *)
(* persistConfigurationImport leaves the old routes.                       *)
THEOREM RoutesWrittenLast == Spec => ImportedRoutesLast
<1> DEFINE Last == draft # None /\ file'.ares # file.ares =>
                     settingsFile' = draft.settings /\ certFile' = draft.cert
<1>1. ASSUME IInv, [Next]_vars PROVE [Last]_vars
  <2>1. ASSUME NEW p \in Callers, ImportRoutes(p) PROVE Last
    BY <1>1, <2>1 DEF ImportRoutes, IInv, Files, fileVars
  <2>2. ASSUME NEW p \in Callers, CommitRoutes(p) PROVE Last
    BY <2>2 DEF CommitRoutes
  <2>3. CASE EditRoutes
    BY <1>1, <2>3 DEF EditRoutes, Edit, FileOf, IInv, Chosens
  <2>4. CASE file' = file
    BY <2>4
  <2>5. ASSUME NEW p \in Callers, Step(p) PROVE Last
    <3>1. CASE Build(p)
      BY <2>4, <3>1 DEF Build, TakeDesired, storeVars
    <3>2. CASE StartSync(p) \/ ReadRuntime(p) \/ LoadOK(p) \/ LoadFails(p)
               \/ CommitConfig(p) \/ ImportSettings(p) \/ ImportCert(p)
               \/ UndoSettings(p) \/ UndoCert(p) \/ Rollback(p)
      BY <2>4, <3>2
      DEF StartSync, ReadRuntime, LoadOK, LoadFails, CommitConfig,
          ImportSettings, ImportCert, UndoSettings, UndoCert, Rollback,
          storeVars
    <3>3. CASE Health(p) \/ AzureStart(p) \/ AzureEnd(p) \/ Finish(p)
               \/ Inspect(p) \/ InspectEnd(p)
      BY <2>4, <3>3
      DEF Health, AzureStart, AzureEnd, Finish, Inspect, InspectEnd,
          storeVars
    <3> QED
      BY <2>1, <2>2, <2>5, <3>1, <3>2, <3>3 DEF Step
  <2>6. ASSUME NEW p \in Callers, NEW kind, NEW cand, NEW save,
               CallSync(p, kind, cand, save)
        PROVE  Last
    BY <2>4, <2>6 DEF CallSync, storeVars
  <2>7. CASE \/ \E s \in Settings, c \in Certs : ImportBundle(s, c)
             \/ \E b \in Boots : SaveSystemSettings(b)
             \/ LateLoad \/ Crash \/ UNCHANGED vars
    BY <2>4, <2>7
    DEF ImportBundle, Stage, SaveSystemSettings, LateLoad, Crash,
        Restart, vars, storeVars
  <2>8. Background \in Callers /\ Clients \subseteq Callers
    BY ProcAssumption DEF Clients
  <2> QED
    BY <1>1, <2>3, <2>5, <2>6, <2>7, <2>8
    DEF Next, Tick, Apply, RefreshCertificate, ChangeSecurity, RotateToken,
        ChangeCertificate
<1> QED
  BY <1>1, Inductive, PTL DEF Spec, ImportedRoutesLast

=============================================================================
