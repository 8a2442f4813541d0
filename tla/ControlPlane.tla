---------------------------- MODULE ControlPlane ----------------------------
(***************************************************************************)
(* The gateway's control plane: the API requests that change something,    *)
(* the background reconcile loop, the running Caddy configuration, the     *)
(* cloud resources, and the three state files (routes, settings,           *)
(* certificate policy).                                                    *)
(*                                                                         *)
(* Every sync of the reconciler (Reconciler.sync) is a sequence of steps   *)
(* of the goroutine that runs it, with the calls that can fail or hang in  *)
(* steps of their own: reading the running configuration, discovery,       *)
(* loading Caddy, each file write, the health checks and the Azure pass.   *)
(* Mutating API requests hold mutationMu from start to end; a sync holds   *)
(* syncMu up to its commit or its roll back, and azureMu for its Azure     *)
(* pass.                                                                   *)
(*                                                                         *)
(* A configuration has three parts: live (security policy and              *)
(* authentication), boot (deployment mode and Azure settings, read once at *)
(* start) and cert (the certificate policy).  What Caddy runs is the       *)
(* rendering of routes, discovered routes, live and cert.                  *)
(*                                                                         *)
(* The generation counter of the reconciler is only ever compared for      *)
(* equality with the current value; newest, the goroutine of the latest    *)
(* sync, stands for it.  The checks of a sync are cancelled as soon as it  *)
(* is no longer the newest one.                                            *)
(***************************************************************************)
EXTENDS StagedStore

CONSTANTS
  Background,   \* the goroutine of Reconciler.Run
  Lives, Boots, Certs,
  FirstLive, FirstBoot, FirstCert,
  Discs,        \* route sets that Docker discovery may return
  NoDisc,       \* no discovered routes
  Unrenderable, \* pairs of resources and discovered routes Render rejects
  None,         \* an absent configuration, runtime, draft or process
  AzureEnabled, \* Azure resources are managed (fixed when the process starts)
  Mixed,        \* cloud resources after an Azure pass that did not finish
  MaxFaults,    \* bound on failing calls and disconnects
  MaxCrashes    \* bound on crashes of the process

\* The goroutines that work with the routing store: those of API clients, and
\* Background.
ASSUME ProcAssumption == Background \in Callers

Clients == Callers \ {Background}

ASSUME ValueAssumption ==
  /\ NoDisc \in Discs
  /\ FirstLive \in Lives /\ FirstBoot \in Boots /\ FirstCert \in Certs
  /\ AzureEnabled \in BOOLEAN
  /\ MaxFaults \in Nat /\ MaxCrashes \in Nat

(* Render rejects single routes and conflicts between routes: adding       *)
(* discovered routes to a rejected set does not repair it, and no routes   *)
(* at all render (a default listener is configured).  The one thing Render *)
(* rejects in a configuration, a management host without authentication,   *)
(* is decided when a value enters the system, at start or at import: Lives *)
(* are the values that pass.                                               *)
ASSUME RenderAssumption ==
  /\ Unrenderable \subseteq Content \X Discs
  /\ <<Empty, NoDisc>> \notin Unrenderable
  /\ \A c \in Content : <<c, NoDisc>> \in Unrenderable =>
       \A d \in Discs : <<c, d>> \in Unrenderable

Config == [live : Lives, boot : Boots, cert : Certs]
Settings == [live : Lives, boot : Boots]
Runtime == [res : Content, disc : Discs, live : Lives, cert : Certs]
Draft == [settings : Settings, cert : Certs, cfg : Config,
          prevSettings : Settings, prevCert : Certs]

\* A nil pointer differs from whatever it stands in for.
ASSUME AbsentAssumption ==
  /\ None \notin Callers /\ None \notin Config /\ None \notin Runtime
  /\ None \notin Draft /\ None # "done"

Render(res, disc, cfg) ==
  [res |-> res, disc |-> disc, live |-> cfg.live, cert |-> cfg.cert]

\* Bug: errors of Render are ignored.
RenderableAlways(res, disc) == TRUE

Renderable(res, disc) == <<res, disc>> \notin Unrenderable

VARIABLES
  \* the other state files
  settingsFile, certFile,
  \* Server and Reconciler
  scfg,        \* Server.cfg
  draft,       \* Server.configurationDraft
  rcfg,        \* Reconciler.cfg and the renderer's copy of it
  lastDisc,    \* Reconciler.lastDiscovered
  newest,      \* Reconciler.generation, see above
  last,        \* Reconciler.last, once the newest generation has written it
  mutationMu, syncMu, azureMu,
  \* goroutines
  pc,          \* where each goroutine is
  job,         \* the request it serves: kind, candidate, value to save
  tx,          \* local variables of the sync that holds syncMu
  post,        \* per goroutine: what its sync loaded, and the Azure result
  \* the world
  caddy,       \* the configuration that Caddy runs
  inflight,    \* a load that timed out and that Caddy may still perform
  cloud,       \* what the cloud resources were last reconciled to
  \* observations and bounds
  selected,    \* resource sets for which Apply was ever selected
  diverged,    \* a failed load or roll back may have left Caddy elsewhere
  undoFailed,  \* a failed import could not restore the previous files
  faults, crashes

fileVars == <<settingsFile, certFile>>
cfgVars == <<scfg, draft, rcfg>>
goVars == <<pc, job, tx, post>>
worldVars == <<caddy, inflight, cloud>>
obsVars == <<selected, diverged, undoFailed>>

vars == <<storeVars, fileVars, cfgVars, lastDisc, newest, last,
          mutationMu, syncMu, azureMu, goVars, worldVars, obsVars, faults,
          crashes>>

NoTx == [prevCfg |-> None, prev |-> None, prevDisc |-> None,
         prevRt |-> None, rt |-> None, loaded |-> FALSE]
NoJob == [kind |-> None, cand |-> None, save |-> None]
NoPost == [rt |-> None, azure |-> None]
NoResult == [loaded |-> FALSE, error |-> FALSE, rt |-> None, azure |-> None]

ConfigFromFiles(s, c) == [live |-> s.live, boot |-> s.boot, cert |-> c]

(* main: load the files, start Caddy with the applied routes, then start   *)
(* the reconcile loop and the API.                                         *)
Init ==
  /\ StoreInit
  /\ desired = Empty
  /\ settingsFile = [live |-> FirstLive, boot |-> FirstBoot]
  /\ certFile = FirstCert
  /\ scfg = ConfigFromFiles(settingsFile, certFile)
  /\ draft = None
  /\ rcfg = scfg
  /\ lastDisc = NoDisc
  /\ newest = None /\ last = NoResult
  /\ mutationMu = None /\ syncMu = None /\ azureMu = None
  /\ pc = [p \in Callers |-> "idle"]
  /\ job = [p \in Callers |-> NoJob]
  /\ tx = NoTx
  /\ post = [p \in Callers |-> NoPost]
  /\ caddy = Render(applied.res, NoDisc, scfg)
  /\ inflight = None /\ cloud = None
  /\ selected = {applied.res} /\ diverged = FALSE /\ undoFailed = FALSE
  /\ faults = 0 /\ crashes = 0

----------------------------------------------------------------------------
(* API requests that do not reach the reconciler.  They hold mutationMu    *)
(* for their whole duration; nothing they read is written by a sync.       *)

(* Any edit of listeners, pools, rules or compatibility routes.            *)
EditRoutes ==
  /\ mutationMu = None
  /\ Edit
  /\ UNCHANGED <<fileVars, cfgVars, lastDisc, newest, last, mutationMu,
                 syncMu, azureMu, goVars, worldVars, obsVars, faults, crashes>>

\* Bug: the certificate policy is not taken over.
ImportedWithoutCert(active, s, c) == [active EXCEPT !.live = s.live]

(* importedLiveConfig: the parts of the import that can change while the   *)
(* process runs.                                                           *)
ImportedLiveConfig(active, s, c) == [active EXCEPT !.live = s.live, !.cert = c]

\* Bug: a second import would restore the settings of the first draft.
PreviousOfDraft == IF draft = None THEN settingsFile ELSE draft.settings

(* A second import keeps what the first one recorded about the files.      *)
PreviousSettings ==
  IF draft = None THEN settingsFile ELSE draft.prevSettings

PreviousCert == IF draft = None THEN scfg.cert ELSE draft.prevCert

(* importConfigurationBundle: the candidate must render; routes are staged *)
(* and the rest is kept in a draft.                                        *)
ImportBundle(s, c) ==
  /\ mutationMu = None
  /\ Stage
  /\ Renderable(desired', NoDisc)
  /\ draft' = [settings |-> s, cert |-> c,
               cfg |-> ImportedLiveConfig(scfg, s, c),
               prevSettings |-> PreviousSettings,
               prevCert |-> PreviousCert]
  /\ UNCHANGED <<fileVars, scfg, rcfg, lastDisc, newest, last,
                 mutationMu, syncMu, azureMu, goVars, worldVars, obsVars,
                 faults, crashes>>

(* handleSystemSettings without a new token: saved for the next start.     *)
SaveSystemSettings(b) ==
  /\ mutationMu = None
  /\ draft = None
  /\ settingsFile' = [settingsFile EXCEPT !.boot = b]
  /\ UNCHANGED <<storeVars, certFile, cfgVars, lastDisc, newest, last,
                 mutationMu, syncMu, azureMu, goVars, worldVars, obsVars,
                 faults, crashes>>

----------------------------------------------------------------------------
(* Calls of the reconciler.                                                *)

CallSync(p, kind, cand, save) ==
  /\ pc[p] = "idle"
  /\ pc' = [pc EXCEPT ![p] = "want"]
  /\ job' = [job EXCEPT ![p] = [kind |-> kind, cand |-> cand, save |-> save]]
  /\ UNCHANGED <<storeVars, fileVars, cfgVars, lastDisc, newest, last,
                 syncMu, azureMu, tx, post, worldVars, diverged, undoFailed,
                 faults, crashes>>

Request(p) == p \in Clients /\ mutationMu = None /\ mutationMu' = p

(* handleReconcile, "Apply pending changes".                               *)
Apply(p) ==
  /\ Request(p)
  /\ CallSync(p, "apply", IF draft = None THEN None ELSE draft.cfg, None)
  /\ selected' = selected \cup {desired}

(* handleSecuritySettings *)
ChangeSecurity(p, v) ==
  /\ Request(p)
  /\ draft = None
  /\ CallSync(p, "settings", [scfg EXCEPT !.live = v],
              [settingsFile EXCEPT !.live = v])
  /\ UNCHANGED selected

(* handleSystemSettings with a new token.                                  *)
RotateToken(p, v, b) ==
  /\ Request(p)
  /\ draft = None
  /\ CallSync(p, "settings", [scfg EXCEPT !.live = v],
              [live |-> v, boot |-> b])
  /\ UNCHANGED selected

(* handleCertificate, PUT *)
ChangeCertificate(p, v) ==
  /\ Request(p)
  /\ draft = None
  /\ CallSync(p, "cert", [scfg EXCEPT !.cert = v], v)
  /\ UNCHANGED selected

(* handleCertificateRefresh *)
RefreshCertificate(p) ==
  /\ Request(p)
  /\ draft = None
  /\ CallSync(p, "refresh", None, None)
  /\ UNCHANGED selected

\* Bug: the loop waits until pending changes are applied.
TickUnlessPending ==
  /\ ~Pending
  /\ CallSync(Background, "tick", None, None)
  /\ UNCHANGED <<mutationMu, selected>>

(* Reconciler.Run: at start and on every tick.                             *)
Tick ==
  /\ CallSync(Background, "tick", None, None)
  /\ UNCHANGED <<mutationMu, selected>>

----------------------------------------------------------------------------
(* Reconciler.sync.                                                        *)

HasCandidate(p) == job[p].cand # None

(* The request is over, or goes on to inspect the running configuration    *)
(* (certificateResponse).                                                  *)
Return(p, committed) ==
  LET inspects == \/ job[p].kind = "refresh"
                  \/ job[p].kind = "cert" /\ committed
  IN /\ pc' = [pc EXCEPT ![p] = IF inspects THEN "inspect" ELSE "idle"]
     /\ job' = [job EXCEPT ![p] = IF inspects THEN @ ELSE NoJob]
     /\ mutationMu' = IF mutationMu = p /\ ~inspects THEN None ELSE mutationMu

(* finish on an error path, still under syncMu: the generation is current. *)
Fail(p, loaded) ==
  /\ last' = [loaded |-> loaded, error |-> TRUE, rt |-> None, azure |-> None]
  /\ syncMu' = None
  /\ tx' = NoTx
  /\ Return(p, FALSE)

Fault == faults < MaxFaults /\ faults' = faults + 1

(* Lock syncMu, take a new generation (which cancels the checks of the     *)
(* previous one) and remember what may have to be restored.                *)
StartSync(p) ==
  /\ pc[p] = "want"
  /\ syncMu = None
  /\ syncMu' = p
  /\ newest' = p /\ last' = NoResult
  /\ tx' = [NoTx EXCEPT !.prevCfg = rcfg, !.prev = applied,
                        !.prevDisc = lastDisc]
  /\ pc' = [pc EXCEPT ![p] = IF HasCandidate(p) THEN "read" ELSE "build"]
  /\ UNCHANGED <<storeVars, fileVars, cfgVars, lastDisc, mutationMu,
                 azureMu, job, post, worldVars, obsVars, faults, crashes>>

(* With a candidate configuration: read what Caddy runs, then switch the   *)
(* reconciler and its renderer over.                                       *)
ReadRuntime(p) ==
  /\ pc[p] = "read"
  /\ \/ /\ tx' = [tx EXCEPT !.prevRt = caddy]
        /\ rcfg' = job[p].cand
        /\ pc' = [pc EXCEPT ![p] = "build"]
        /\ UNCHANGED <<last, mutationMu, syncMu, job, faults>>
     \/ Fault /\ Fail(p, FALSE) /\ UNCHANGED rcfg
  /\ UNCHANGED <<storeVars, fileVars, scfg, draft, lastDisc, newest, azureMu,
                 post, worldVars, obsVars, crashes>>

\* Bug: the configuration is not restored.
RestoreNothing(p) == UNCHANGED rcfg

(* UpdateConfig(previousConfig) on the error paths.                        *)
RestoreConfig(p) == rcfg' = IF HasCandidate(p) THEN tx.prevCfg ELSE rcfg

\* Bug: preservePendingRoutes is ignored.
ChosenDesired(p) == [res |-> desired, rev |-> revision]

(* Only Apply looks at the desired routes; every other sync uses the       *)
(* applied ones.                                                           *)
Chosen(p) == IF job[p].kind = "apply"
             THEN [res |-> desired, rev |-> revision] ELSE tx.prev

(* Discover (on failure: what was discovered last) and render.             *)
Build(p) ==
  /\ pc[p] = "build"
  /\ \E d \in Discs :
       /\ \/ UNCHANGED faults
          \/ Fault /\ d = lastDisc
       /\ lastDisc' = d
       /\ IF Renderable(Chosen(p).res, d)
          THEN /\ tx' = [tx EXCEPT !.rt = Render(Chosen(p).res, d, rcfg)]
               /\ pc' = [pc EXCEPT ![p] = "load"]
               /\ IF job[p].kind = "apply" THEN TakeDesired(p)
                  ELSE UNCHANGED storeVars
               /\ UNCHANGED <<rcfg, last, mutationMu, syncMu, job>>
          ELSE /\ RestoreConfig(p)
               /\ Fail(p, FALSE)
               /\ UNCHANGED storeVars
  /\ UNCHANGED <<fileVars, scfg, draft, newest, azureMu, post, worldVars,
                 obsVars, crashes>>

(* Unlock syncMu and go on to the checks.                                  *)
Release(p) ==
  /\ syncMu' = None
  /\ tx' = NoTx
  /\ post' = [post EXCEPT ![p] = [rt |-> tx.rt, azure |-> "skipped"]]
  /\ pc' = [pc EXCEPT ![p] = "health"]
  /\ diverged' = FALSE

Commits(p) == job[p].kind \notin {"tick", "refresh"}

LoadOK(p) ==
  /\ pc[p] = "load"
  /\ caddy' = tx.rt
  /\ inflight' = None
  /\ IF Commits(p)
     THEN /\ tx' = [tx EXCEPT !.loaded = TRUE]
          /\ pc' = [pc EXCEPT ![p] = "commit"]
          /\ UNCHANGED <<syncMu, post, diverged>>
     ELSE Release(p)
  /\ UNCHANGED <<storeVars, fileVars, cfgVars, lastDisc, newest, last,
                 mutationMu, azureMu, job, cloud, selected, undoFailed,
                 faults, crashes>>

(* Load returns an error.  Either Caddy refused the configuration, or the  *)
(* answer was lost and the load may still happen.  Only a sync with a      *)
(* candidate configuration restores the runtime; any other one leaves it   *)
(* to the next sync.                                                       *)
LoadFails(p) ==
  /\ pc[p] = "load"
  /\ Fault
  /\ inflight' \in {None, tx.rt}
  /\ IF HasCandidate(p)
     THEN /\ pc' = [pc EXCEPT ![p] = "rollback"]
          /\ UNCHANGED <<last, mutationMu, syncMu, job, tx, held,
                         diverged>>
     ELSE /\ Fail(p, FALSE)
          /\ held' = [held EXCEPT ![p] = NoSnapshot]
          /\ diverged' = (diverged \/ inflight' # None)
  /\ UNCHANGED <<staged, revision, desired, applied, file, fileVars, cfgVars,
                 lastDisc, newest, azureMu, post, caddy, cloud, selected,
                 undoFailed, crashes>>

(* Caddy performs a load whose client has given up.                        *)
LateLoad ==
  /\ inflight # None
  /\ caddy' = inflight
  /\ inflight' = None
  /\ UNCHANGED <<storeVars, fileVars, cfgVars, lastDisc, newest, last,
                 mutationMu, syncMu, azureMu, goVars, cloud, obsVars, faults,
                 crashes>>

----------------------------------------------------------------------------
(* The commit functions.                                                   *)

CommitFails(p) == pc' = [pc EXCEPT ![p] = "rollback"]

(* applyLiveConfig *)
ApplyLiveConfig(cfg) == scfg' = cfg /\ rcfg' = cfg

(* commitLiveConfig with the settings or the certificate file.             *)
CommitConfig(p) ==
  /\ pc[p] = "commit"
  /\ job[p].kind \in {"settings", "cert"}
  /\ \/ /\ IF job[p].kind = "settings"
           THEN settingsFile' = job[p].save /\ UNCHANGED certFile
           ELSE certFile' = job[p].save /\ UNCHANGED settingsFile
        /\ ApplyLiveConfig(job[p].cand)
        /\ Release(p)
        /\ UNCHANGED faults
     \/ /\ Fault
        /\ CommitFails(p)
        /\ UNCHANGED <<fileVars, scfg, rcfg, syncMu, tx, post, diverged>>
  /\ UNCHANGED <<storeVars, draft, lastDisc, newest, last, mutationMu,
                 azureMu, job, worldVars, selected, undoFailed, crashes>>

(* persistConfigurationImport without a draft.                             *)
CommitRoutes(p) ==
  /\ pc[p] = "commit"
  /\ job[p].kind = "apply" /\ draft = None
  /\ \/ /\ MarkApplied(p)
        /\ Release(p)
        /\ UNCHANGED faults
     \/ /\ Fault \/ (~Confirmable(held[p]) /\ UNCHANGED faults)
        /\ CommitFails(p)
        /\ UNCHANGED <<storeVars, syncMu, tx, post, diverged>>
  /\ UNCHANGED <<fileVars, cfgVars, lastDisc, newest, last, mutationMu,
                 azureMu, job, worldVars, selected, undoFailed, crashes>>

(* persistConfigurationImport with a draft: settings, certificate policy,  *)
(* routes, in this order.                                                  *)
ImportSettings(p) ==
  /\ pc[p] = "commit"
  /\ job[p].kind = "apply" /\ draft # None
  /\ \/ /\ settingsFile' = draft.settings
        /\ pc' = [pc EXCEPT ![p] = "importCert"]
        /\ UNCHANGED faults
     \/ Fault /\ CommitFails(p) /\ UNCHANGED settingsFile
  /\ UNCHANGED <<storeVars, certFile, cfgVars, lastDisc, newest, last,
                 mutationMu, syncMu, azureMu, job, tx, post, worldVars,
                 obsVars, crashes>>

\* Bug: an error of saving the certificate policy is only logged.
ImportCertLogged(p) ==
  /\ pc[p] = "importCert"
  /\ pc' = [pc EXCEPT ![p] = "importRoutes"]
  /\ \/ certFile' = draft.cert /\ UNCHANGED faults
     \/ Fault /\ UNCHANGED certFile
  /\ UNCHANGED <<storeVars, settingsFile, cfgVars, lastDisc, newest,
                 last, mutationMu, syncMu, azureMu, job, tx, post,
                 worldVars, obsVars, crashes>>

ImportCert(p) ==
  /\ pc[p] = "importCert"
  /\ \/ /\ certFile' = draft.cert
        /\ pc' = [pc EXCEPT ![p] = "importRoutes"]
        /\ UNCHANGED faults
     \/ /\ Fault
        /\ pc' = [pc EXCEPT ![p] = "undoSettings"]
        /\ UNCHANGED certFile
  /\ UNCHANGED <<storeVars, settingsFile, cfgVars, lastDisc, newest,
                 last, mutationMu, syncMu, azureMu, job, tx, post,
                 worldVars, obsVars, crashes>>

ImportRoutes(p) ==
  /\ pc[p] = "importRoutes"
  /\ \/ /\ MarkApplied(p)
        /\ draft' = None
        /\ ApplyLiveConfig(draft.cfg)
        /\ Release(p)
        /\ undoFailed' = FALSE
        /\ UNCHANGED faults
     \/ /\ Fault \/ (~Confirmable(held[p]) /\ UNCHANGED faults)
        /\ pc' = [pc EXCEPT ![p] = "undoBoth"]
        /\ UNCHANGED <<storeVars, cfgVars, syncMu, tx, post, diverged,
                       undoFailed>>
  /\ UNCHANGED <<fileVars, lastDisc, newest, last, mutationMu, azureMu,
                 job, worldVars, selected, crashes>>

(* The files written so far are restored, each restoration may fail.       *)
UndoSettings(p) ==
  /\ pc[p] \in {"undoSettings", "undoBoth"}
  /\ \/ settingsFile' = draft.prevSettings /\ UNCHANGED <<undoFailed, faults>>
     \/ Fault /\ undoFailed' = TRUE /\ UNCHANGED settingsFile
  /\ pc' = [pc EXCEPT ![p] = IF @ = "undoBoth" THEN "undoCert"
                             ELSE "rollback"]
  /\ UNCHANGED <<storeVars, certFile, cfgVars, lastDisc, newest, last,
                 mutationMu, syncMu, azureMu, job, tx, post, worldVars,
                 selected, diverged, crashes>>

UndoCert(p) ==
  /\ pc[p] = "undoCert"
  /\ \/ certFile' = draft.prevCert /\ UNCHANGED <<undoFailed, faults>>
     \/ Fault /\ undoFailed' = TRUE /\ UNCHANGED certFile
  /\ pc' = [pc EXCEPT ![p] = "rollback"]
  /\ UNCHANGED <<storeVars, settingsFile, cfgVars, lastDisc, newest,
                 last, mutationMu, syncMu, azureMu, job, tx, post,
                 worldVars, selected, diverged, crashes>>

\* Bug: the configuration that could not be committed is loaded again.
RollbackToNew(p) == tx.rt

(* What Caddy ran before, when that was read (with a candidate only), else *)
(* the previous applied routes.                                            *)
RollbackTarget(p) ==
  IF tx.prevRt = None THEN Render(tx.prev.res, tx.prevDisc, rcfg)
  ELSE tx.prevRt

(* restoreRuntime: the configuration of the reconciler, then Caddy.        *)
Rollback(p) ==
  LET fresh == tx.prevRt = None
      target == RollbackTarget(p)
      possible == ~fresh \/ Renderable(tx.prev.res, tx.prevDisc)
  IN /\ pc[p] = "rollback"
     /\ RestoreConfig(p)
     /\ \/ /\ possible
           /\ caddy' = target
           /\ inflight' = None
           /\ diverged' = (diverged /\ ~fresh)
           /\ Fail(p, FALSE)
           /\ UNCHANGED faults
        \/ /\ Fault \/ (~possible /\ UNCHANGED faults)
           /\ inflight' \in (IF possible THEN {inflight, target}
                             ELSE {inflight})
           /\ diverged' = TRUE
           /\ Fail(p, tx.loaded)
           /\ UNCHANGED caddy
     /\ held' = [held EXCEPT ![p] = NoSnapshot]
     /\ UNCHANGED <<staged, revision, desired, applied, file, fileVars, scfg,
                    draft, lastDisc, newest, azureMu, post, cloud, selected,
                    undoFailed, crashes>>

----------------------------------------------------------------------------
(* After the commit: health checks, Azure, result.                         *)

(* Superseded syncs are cancelled; so is the request of a client that has  *)
(* gone away.                                                              *)
Health(p) ==
  /\ pc[p] = "health"
  /\ pc' = [pc EXCEPT ![p] = IF AzureEnabled THEN "azure" ELSE "finish"]
  /\ held' = [held EXCEPT ![p] = NoSnapshot]
  /\ UNCHANGED <<staged, revision, desired, applied, file, fileVars, cfgVars,
                 lastDisc, newest, last, mutationMu, syncMu, azureMu,
                 job, tx, post, worldVars, obsVars, faults, crashes>>

\* Bugs: the checks are always cancelled; every generation takes itself for
\* the newest.
AlwaysSuperseded(p) == p \in Callers
NeverSuperseded(p) == FALSE

(* A later sync has taken a generation and cancelled the checks of p's.    *)
Superseded(p) == newest # p

\* Bug: Azure passes run side by side.
AzureAlwaysFree == TRUE

AzureFree == azureMu = None

(* With azureMu held, skip the pass when the sync has been cancelled.      *)
AzureStart(p) ==
  /\ pc[p] = "azure"
  /\ AzureFree
  /\ \/ /\ ~Superseded(p)
        /\ azureMu' = p
        /\ pc' = [pc EXCEPT ![p] = "azuring"]
        /\ UNCHANGED faults
     \/ /\ (Superseded(p) /\ UNCHANGED faults) \/ (p \in Clients /\ Fault)
        /\ pc' = [pc EXCEPT ![p] = "finish"]
        /\ UNCHANGED azureMu
  /\ UNCHANGED <<storeVars, fileVars, cfgVars, lastDisc, newest, last,
                 mutationMu, syncMu, job, tx, post, worldVars, obsVars,
                 crashes>>

(* The pass ends, complete or, after an error or a cancellation, not.      *)
AzureEnd(p) ==
  /\ pc[p] = "azuring"
  /\ \/ /\ cloud' = post[p].rt
        /\ post' = [post EXCEPT ![p].azure = "done"]
        /\ UNCHANGED faults
     \/ /\ (Superseded(p) /\ UNCHANGED faults) \/ Fault
        /\ cloud' = Mixed
        /\ post' = [post EXCEPT ![p].azure = "failed"]
  /\ azureMu' = None
  /\ pc' = [pc EXCEPT ![p] = "finish"]
  /\ UNCHANGED <<storeVars, fileVars, cfgVars, lastDisc, newest, last,
                 mutationMu, syncMu, job, tx, caddy, inflight, obsVars,
                 crashes>>

Published(p) ==
  [loaded |-> TRUE, error |-> post[p].azure = "failed",
   rt |-> post[p].rt, azure |-> post[p].azure]

\* Bug: a superseded sync starts over, and supersedes the other one.
FinishOrRetry(p) ==
  /\ pc[p] = "finish"
  /\ IF Superseded(p)
     THEN /\ pc' = [pc EXCEPT ![p] = "want"]
          /\ UNCHANGED <<last, job, mutationMu>>
     ELSE last' = Published(p) /\ Return(p, TRUE)
  /\ post' = [post EXCEPT ![p] = NoPost]
  /\ UNCHANGED <<storeVars, fileVars, cfgVars, lastDisc, newest, syncMu,
                 azureMu, tx, worldVars, obsVars, faults, crashes>>

(* finish: only the newest generation publishes its result.                *)
Finish(p) ==
  /\ pc[p] = "finish"
  /\ IF ~Superseded(p)
     THEN last' = Published(p)
     ELSE UNCHANGED last
  /\ post' = [post EXCEPT ![p] = NoPost]
  /\ Return(p, TRUE)
  /\ UNCHANGED <<storeVars, fileVars, cfgVars, lastDisc, newest, syncMu,
                 azureMu, tx, worldVars, obsVars, faults, crashes>>

(* WithRuntimeConfig: the running configuration is read and inspected      *)
(* under syncMu.                                                           *)
Inspect(p) ==
  /\ pc[p] = "inspect"
  /\ syncMu = None
  /\ syncMu' = p
  /\ pc' = [pc EXCEPT ![p] = "inspecting"]
  /\ UNCHANGED <<storeVars, fileVars, cfgVars, lastDisc, newest, last,
                 mutationMu, azureMu, job, tx, post, worldVars, obsVars,
                 faults, crashes>>

InspectEnd(p) ==
  /\ pc[p] = "inspecting"
  /\ syncMu' = None
  /\ mutationMu' = None
  /\ pc' = [pc EXCEPT ![p] = "idle"]
  /\ job' = [job EXCEPT ![p] = NoJob]
  /\ UNCHANGED <<storeVars, fileVars, cfgVars, lastDisc, newest, last,
                 azureMu, tx, post, worldVars, obsVars, faults, crashes>>

----------------------------------------------------------------------------

(* The container dies, Caddy with it, and starts again from the files.     *)
Crash ==
  /\ crashes < MaxCrashes
  /\ crashes' = crashes + 1
  /\ Restart
  /\ Renderable(file.ares, NoDisc)
  /\ scfg' = ConfigFromFiles(settingsFile, certFile)
  /\ rcfg' = scfg'
  /\ draft' = None
  /\ lastDisc' = NoDisc
  /\ newest' = None /\ last' = NoResult
  /\ mutationMu' = None /\ syncMu' = None /\ azureMu' = None
  /\ pc' = [p \in Callers |-> "idle"]
  /\ job' = [p \in Callers |-> NoJob]
  /\ tx' = NoTx
  /\ post' = [p \in Callers |-> NoPost]
  /\ caddy' = Render(file.ares, NoDisc, scfg')
  /\ inflight' = None
  /\ cloud' = IF azureMu = None THEN cloud ELSE Mixed
  /\ diverged' = FALSE /\ undoFailed' = FALSE
  /\ UNCHANGED <<fileVars, selected, faults>>

Step(p) ==
  \/ StartSync(p) \/ ReadRuntime(p) \/ Build(p) \/ LoadOK(p) \/ LoadFails(p)
  \/ CommitConfig(p) \/ CommitRoutes(p)
  \/ ImportSettings(p) \/ ImportCert(p) \/ ImportRoutes(p)
  \/ UndoSettings(p) \/ UndoCert(p) \/ Rollback(p)
  \/ Health(p) \/ AzureStart(p) \/ AzureEnd(p) \/ Finish(p)
  \/ Inspect(p) \/ InspectEnd(p)

Next ==
  \/ EditRoutes
  \/ \E s \in Settings, c \in Certs : ImportBundle(s, c)
  \/ \E b \in Boots : SaveSystemSettings(b)
  \/ \E p \in Clients :
       \/ Apply(p) \/ RefreshCertificate(p)
       \/ \E v \in Lives : ChangeSecurity(p, v)
       \/ \E v \in Lives, b \in Boots : RotateToken(p, v, b)
       \/ \E v \in Certs : ChangeCertificate(p, v)
  \/ Tick
  \/ \E p \in Callers : Step(p)
  \/ LateLoad
  \/ Crash

Spec == Init /\ [][Next]_vars

(* Goroutines are scheduled, calls return (with or without an error: every *)
(* call of the reconciler has a timeout), the ticker fires, and a waiting  *)
(* goroutine gets its mutex (sync.Mutex hands over in arrival order once a *)
(* waiter starves).  Strong fairness is about the three steps that wait    *)
(* for a mutex; all others stay possible until they are taken.             *)
Fairness == WF_vars(Tick) /\ \A p \in Callers : SF_vars(Step(p))

FairSpec == Spec /\ Fairness

----------------------------------------------------------------------------
(* Properties.                                                             *)

Phases == {"idle", "want", "read", "build", "load", "commit", "importCert",
           "importRoutes", "undoSettings", "undoBoth", "undoCert",
           "rollback", "health", "azure", "azuring", "finish", "inspect",
           "inspecting"}

(* Every step of a request or a sync keeps the state within its types: in  *)
(* particular the reconciler always has a complete configuration, also     *)
(* after an error path of sync has restored it.                            *)
TypeOK ==
  /\ StoreTypeOK
  /\ settingsFile \in Settings /\ certFile \in Certs
  /\ scfg \in Config /\ rcfg \in Config
  /\ draft \in Draft \cup {None}
  /\ lastDisc \in Discs
  /\ newest \in Callers \cup {None}
  /\ mutationMu \in Clients \cup {None}
  /\ syncMu \in Callers \cup {None} /\ azureMu \in Callers \cup {None}
  /\ pc \in [Callers -> Phases]
  /\ \A p \in Callers : job[p].cand \in Config \cup {None}
  /\ caddy \in Runtime
  /\ inflight \in Runtime \cup {None}
  /\ cloud \in Runtime \cup {None, Mixed}

(* Routes, configuration and certificate policy that Caddy serves.         *)
Serves(rt, res, cfg) ==
  rt.res = res /\ rt.live = cfg.live /\ rt.cert = cfg.cert

(* Between syncs Caddy runs the applied routes under the configuration     *)
(* that the API publishes, whatever requests failed or were rolled back,   *)
(* unless a load or a roll back itself failed and was reported.  With it   *)
(* Apply confirms only what Caddy has accepted and still runs.             *)
RuntimeAgreement ==
  syncMu = None /\ ~diverged =>
    inflight = None /\ Serves(caddy, applied.res, scfg)

(* Between syncs the reconciler renders with the configuration that the    *)
(* API publishes: every error path that follows UpdateConfig(candidate)    *)
(* puts the previous configuration back.                                   *)
ConfigAgreement == syncMu = None => rcfg = scfg

(* Between requests the files hold the configuration in force, so that a   *)
(* restart changes nothing but the boot part; only a failed restoration    *)
(* after a failed import may leave them apart.                             *)
FilesAgreement ==
  mutationMu = None /\ ~undoFailed =>
    settingsFile.live = scfg.live /\ certFile = scfg.cert

(* The import draft and the staged routes come and go together, and what   *)
(* the draft recorded at import time still holds when it is applied: the   *)
(* previous files for the restoration, the boot part for LiveConfig.       *)
DraftSound ==
  mutationMu = None =>
    /\ staged = (draft # None)
    /\ draft # None =>
         /\ draft.cfg.boot = scfg.boot
         /\ ~undoFailed => /\ draft.prevSettings = settingsFile
                           /\ draft.prevCert = certFile

(* Caddy, the two copies of the configuration, the files and the draft are *)
(* in agreement, whatever calls of SyncConfigWithCommit, of its roll back  *)
(* and of persistConfigurationImport failed: the four parts above.         *)
Agreement ==
  TypeOK /\ RuntimeAgreement /\ ConfigAgreement /\ FilesAgreement /\ DraftSound

(* A draft does not go live until Apply is selected for it: no background, *)
(* security, token or certificate reload and no restart activates it.      *)
DraftNeverLive == caddy.res \in selected

(* What the status API reports as loaded without error by the newest sync  *)
(* is what Caddy runs, and it is the confirmed configuration.              *)
ReportHonest ==
  last.loaded /\ ~last.error =>
    caddy = last.rt /\ Serves(caddy, applied.res, scfg)

(* When the newest sync reports a complete Azure pass, the cloud resources *)
(* are those of the routes Caddy runs: a superseded pass never has the     *)
(* last word.                                                              *)
CloudHonest == last.azure = "done" => cloud = caddy

(* What the newest sync reports is true of Caddy and of the cloud.         *)
ResultsHonest == ReportHonest /\ CloudHonest

(* The persisted applied routes always render, so that the next start does *)
(* not fail on them.                                                       *)
StartupRenders == <<file.ares, NoDisc>> \notin Unrenderable

(* Every request returns: no order of mutationMu, syncMu and azureMu makes *)
(* the loop and the API wait for each other.                               *)
RequestsReturn == \A p \in Clients : pc[p] # "idle" ~> pc[p] = "idle"

(* Imported routes are persisted, and so start with the next process, only *)
(* when the settings and the certificate policy of the same import are in  *)
(* their files: a crash between the three writes leaves the old routes.    *)
ImportedRoutesLast ==
  [][draft # None /\ file'.ares # file.ares =>
       settingsFile' = draft.settings /\ certFile' = draft.cert]_vars

(* Whatever a failed load, a late one or a failed roll back left in Caddy, *)
(* the syncs bring Caddy back to the applied routes under the published    *)
(* configuration, and no abandoned load remains.  Render has to accept the *)
(* applied routes with what discovery returns: while a discovered route    *)
(* conflicts with them every sync ends at Render, and nothing is loaded.   *)
RuntimeRepaired ==
  <>[]Renderable(applied.res, lastDisc) =>
    <>[](syncMu = None => inflight = None /\ Serves(caddy, applied.res, scfg))

(* An Azure pass that was cancelled, failed or skipped, or that was made   *)
(* for older routes, is made up for: if the requests that supersede passes *)
(* stop and the discovered routes settle on some that render, the cloud    *)
(* resources come to be those of the routes Caddy runs, and stay so.       *)
CloudConverges ==
  /\ <>[](/\ \A p \in Clients : pc[p] = "idle"
          /\ Renderable(applied.res, lastDisc))
  /\ <>[][lastDisc' = lastDisc]_vars
  => <>[](cloud = caddy)

(* What failures leave behind, in Caddy or in the cloud, is repaired by    *)
(* the background syncs, as soon as they can render what is applied.       *)
StateRepaired == RuntimeRepaired /\ CloudConverges

=============================================================================
