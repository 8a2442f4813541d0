# A TLA+ model of the Caddy reverse proxy gateway

The gateway is one Go process (`src/backend`) that supervises a Caddy child
process, keeps routing resources and settings in JSON files, renders them to a
Caddy configuration and loads it through Caddy's admin API. Around that core it
discovers containers, writes DNS records and a firewall rule in Azure, checks
upstreams, archives certificates, and keeps a runtime log and an audit log.
This directory holds TLA+ modules of all of these, TLC runs that check them on
small instances, and TLAPS proofs of most of their safety properties.

- [Inventory](#inventory)
- [Modules](#modules)
- [Runs](#runs)
- [Proofs](#proofs)
- [Disagreements with the documentation](#disagreements-with-the-documentation)
- [What is not modelled](#what-is-not-modelled)
- [Plan](#plan)

To check a run: `tlc -workers 2 -config MCRouteStore.cfg MCRouteStore`. To check
the proofs of a module: `tlapm RouteStoreProofs.tla`.

## Inventory

| component | state | operations | correct when |
|---|---|---|---|
| **Routing store** `internal/routes` | listeners, pools and rules (desired) with a revision; the compiled routes; the applied snapshot; the `staged` flag; the route file | add, replace, delete of each kind; the compatibility route API; `ReplaceResources`, `StageResources`, `PersistStaged`; `DesiredSnapshot`, `MarkApplied`; `SetRuntimeStatus`; `Load` with migration | no dangling reference, cache and file never stale, failed writes leave no trace, a confirmation never goes back |
| **Reconciler** `internal/reconcile` | configuration, last discovered routes, generation, last result, `syncMu`, `azureMu` | `Run`, the four `Sync…` entry points, `WithRuntimeConfig` | Caddy runs the confirmed routes under the published configuration; every failure is rolled back or repaired later; only the newest sync reports |
| **Management API** `internal/api` | published configuration, import draft, `mutationMu` | routing edits, container binding, apply, settings, token, certificate policy and refresh, import, export, status | drafts stay drafts until applied; files, memory and runtime agree between requests |
| **Caddy client, renderer** `internal/caddy` | the renderer's configuration; the running configuration (in Caddy) | `Render`, `Load`, `Config` | a request reaches the most specific route and only past its policy; a load whose answer is lost does not have the last word |
| **Caddy manager, main** `internal/caddy/manager.go`, `cmd/server` | child process, ready, stopping, last error | `Start`, `wait`, `Stop` | an exit of Caddy always ends the gateway; a start failure is reported |
| **Settings and certificate stores** `internal/config` | `settings.json`, the certificate policy file, environment | `Load`, normalisation, validation, `Save` | every sequence of accepted changes adds up to a start that succeeds and restores them |
| **Azure manager** `internal/azure` | DNS records and an NSG rule in the cloud, the instance identity file | `loadInstanceID`, `Reconcile` | touches only what this instance owns at that moment; success means done |
| **Docker discovery** `internal/docker` | the last listing (in the reconciler) | `Discover`, `SharedNetworkAddress`; `handleBindContainer` | an address in a route means its container inside the gateway |
| **Health checker** `internal/health` | channel, workers and statuses of one call | `Check` | one true status per route, and it returns |
| **Log store** `internal/logs` | ring buffer, byte counter, partial lines | `Add`, `ReadLast`, `Write` | bounds hold, newest entries survive, lines stay apart |
| **Audit log** `internal/audit` | append-only file, a mutex | `Record`, `ReadLast` | a torn write costs little; reading backwards is exact |
| **Certificate inspector and archive** `internal/certificate` | files below Caddy's data directory, Caddy's lock files | `Inspect`, `ParsePolicy`, `Archive` | archived only if unused; nothing lost; no lock held for ever |
| **Configuration bundle** `internal/config/bundle.go` | none | export, import | no secret leaves or changes places |
| **Web interface, scripts, evidence tool** | | | |

How they interact. A mutating API request holds `mutationMu` from start to end,
so requests are serial; reads do not take it. Some requests call the
reconciler, which the background loop calls as well, on its own. A sync holds
`syncMu` while it reads, discovers, renders, loads and commits; then it unlocks
and, without the lock, checks health, takes `azureMu` for its Azure pass, and
publishes its result if no later sync has started. The commit is a callback
into the API layer, which writes files and confirms the snapshot in the store.
Store methods are atomic under `Store.mu`.

What is hard: two syncs interleave at every unlock; an error after Caddy has
switched must be undone in Caddy, in two copies of the configuration and in up
to two files; a load can fail and still happen; edits and imports live under
one revision counter with confirmations that arrive late; compatibility routes
share listeners and pools with explicit ones; every file that is ever written
must be loadable at the next start; the cloud, Docker and Caddy's storage are
shared with writers that take no lock of the gateway's. `PROJECT.json` lists these as hazards, at
the line where each one bites, with the properties that cover it.

## Modules

```
StagedStore            what the routing store promises (abstract)
  RouteStore           the routing store, implements StagedStore
  ControlPlane         API, reconciler, Caddy, cloud and files, on top of StagedStore
CertificatePolicy      from certificate settings to managed names (operators)
  CertificateArchive   the archive request against Caddy and an operator
  GatewayConfig        settings, files, environment, requests, archives
RouteRender            Render, and Caddy's first-match dispatch
AzureOwnership         gateways, operator and faults around one set of zones
DockerDiscovery        containers, networks, listings and bind requests
Totals                 the sum of a sequence (operator)
BoundedLog             what the runtime log promises (abstract)
  LogStore             the ring and its line writers, implements BoundedLog
AuditLog, HealthChecker, CaddyManager              the other services
MCStagedStore, MCRouteStore, MCControlPlane, MCServices, MCAzureOwnership,
MCCertificateArchive, MCRouteRender, MCGatewayConfig, MCDockerDiscovery
                                                   instances for TLC
RouteStoreProofs, ControlPlaneProofs, AzureOwnershipProofs,
CertificateArchiveProofs, RouteRenderProofs, GatewayConfigProofs,
DockerDiscoveryProofs, ServicesProofs              theorems
```

The detail left out of one module is the subject of another: `ControlPlane` has
every phase and failure of a request and reduces contents to versions;
`GatewayConfig` has what the requests make of the contents and takes each as
one step; `RouteRender` has the rendering that `ControlPlane` takes as a
function; `AzureOwnership` the pass that is one step there; `DockerDiscovery`
the listing that is an input there; `HealthChecker` and `RouteStore` the two
ends of the runtime status.

### StagedStore

The store with a resource set reduced to one opaque value. `staged`,
`revision`, `desired`, `applied` are the fields of `Store`; `file` is the route
file; `held` are the snapshots that goroutines carry between `DesiredSnapshot`
and `MarkApplied`. It is the contract between the other two modules:
`RouteStore` is shown to implement it, and `ControlPlane` extends it and uses
its actions (`Callers` are the goroutines). Its own specification is
`StoreSpec`.

### RouteStore

One action per exported method of `Store` that changes state; a method runs
under `Store.mu` and is one step. `saved` is the outcome of writing the file.

| code | model |
|---|---|
| `listeners`, `backendPools`, `routingRules` | `desired`, three sets of records |
| `routes` | `routes`, kept next to `desired` and written by the same actions as in the code, so that it can become stale |
| `normalizeResourcesLocked`, `validateRoutingRuleLocked` | `Normalized`, `ValidRule` |
| `rebuildRoutesLocked` | `Compilable`, `Compile` |
| `commitLocked`, `restoreLocked` | `Commit`, `Restored` |
| `migrateRouteLocked`, `pruneCompatibilityResourcesLocked` | `Migratable`, `Migrated`, `Prune` |
| `Load` | `LoadMissing`, `LoadLegacy`, `LoadCurrent`, `LoadRejected` |
| `saveLocked`, `WriteJSON` | `FileOf`; a write replaces the whole file or leaves it alone (temporary file, sync, rename) |

Abstractions. Text is reduced to values that passed their validators, in the
form their normalisers give them; a bind is a port with a protocol. Sources are
"compatibility", the only one the store tests for, and "explicit" for all
others. Slices are sets: no rule of the store depends on their order.
`LastError` is a Boolean: it is never written to the file, it is cleared in
every set that enters or leaves the store as a whole, and a replaced rule keeps
it. A rejected request changes nothing and is the absence of a step. Generated
identifiers are any free ones. `ReplaceResources` on the main store and
`PersistStaged` have no caller in the program today; they are exported and
modelled all the same.

### ControlPlane

Goroutines are the API `Clients` and the `Background` loop. `pc` says where
each one is; a sync is the sequence

```
want -> [read] -> build -> load -> [commit | importCert importRoutes] -> health -> azure -> azuring -> finish
                                      \-> [undoSettings | undoBoth undoCert] -> rollback
```

with every call that can fail or take time in a step of its own. `tx` holds the
local variables of the sync that owns `syncMu` (what may have to be restored),
`job` the request being served.

| code | model |
|---|---|
| `Server.cfg`, `Reconciler.cfg` with the renderer's copy | `scfg`, `rcfg` |
| `Server.configurationDraft` | `draft` |
| `Reconciler.generation`, `cancelChecks` | `newest`: the number is only compared with the current one, so the goroutine of the latest sync stands for it |
| `Reconciler.last` | `last`, `NoResult` until the newest generation has written it |
| the running Caddy | `caddy`, and `inflight`, a load that timed out and may still be performed |
| DNS and NSG | `cloud`: the routes of the last complete pass, or `Mixed` |

A configuration has the parts `live` (security policy, authentication), `boot`
(deployment mode, Azure, read at start only) and `cert`. `selected`,
`diverged` and `undoFailed` are observations: for which resource sets Apply was
ever selected, whether a failed load or roll back may have left Caddy
elsewhere, and whether a failed import could not restore the files. Both of the
latter correspond to an error that the API returned.

Assumptions about Caddy: it performs loads in the order it receives them, so a
later successful load means that an earlier lost one will not happen any more;
it keeps running a configuration until a load replaces it.

Assumptions about rendering (`RenderAssumption`): adding discovered routes
cannot repair a set of routes that is rejected, and no routes at all do render.
The second needs a default listener, which the built-in configuration has.

Health results are not part of this module: they change nothing but the
runtime status, which is `SetRuntimeStatus` in `RouteStore`.

### CaddyManager

The goroutine of `main` (`Spawn`, `AdminAnswers` or `AdminFails`, `Settle`, then
`SelectContext` or `SelectDone`, `Shutdown`), the goroutine of `Manager.wait`
(`WaitReturns` under the lock, `Report` to the channel after it), probes of
`/readyz`, which call `Ready` and `LastError` one after the other, and the
world: the child exits, the context is cancelled. Every section under
`Manager.mu` is one step. Errors are Booleans. Whoever listens at the admin
endpoint may answer, so `AdminAnswers` does not depend on the child. The
signals of `stopCommand` are `signalled`; that the process then ends is
fairness, not a step of the manager.

### BoundedLog and LogStore

`BoundedLog` is the sentence of `docs/operations.md`: the newest entries within
two limits. `LogStore` has the fields of `Store` and `lineWriter`: the arrays
with `start` and `count`, the byte counter, and per writer the length of
`pending` and `dropping`. The loop of `Add` that removes entries runs under the
lock and is part of the action, as the least number of removals that makes
room. One turn of the loop in `Write` is a step. Of a line its length matters,
of an entry its encoded size, any size for any line; whether a line is white
space is a choice. `received` observes how long the line was before it was cut.

### AzureOwnership

A record is an owner and an address; an owner is the identity in the record's
metadata, `Other` if it has none of the gateways'. Azure changes the ETag with
every write, so `etag[g]` only needs to say for which names the ETag that `g`
has read is still current. A pass is `Reconcile` (which fails at once if public
routes have no address), `GetRecord` and `PutRecord` for each desired name,
`ListPage` and `DeleteRecord` for each page of each zone, then `GetRule` and
`PutRule` or `DeleteRule`; anyone may act between two of them. `CallFails` is a
call that fails without effect (also a cancelled context), `AnswerLost` one that
was performed. `loadInstanceID` is `Start`, `DrawIdentity`, `LinkIdentity` and
`RereadIdentity`: the identity is linked, not renamed, into place. `touched`
observes what others changed during a pass. Zones are in one subscription;
permission and status checks only read. `proc[g].free` is what `GetRecord`
found for the name: no record, so that the write is conditional on there being
none (`If-None-Match`), or one of its own, so that it is conditional on its ETag.

`MCAzureOwnership` chooses one of four small instances at the start (variable
`inst`): a restart with a second zone, two gateways and an operator that want
one record, three processes of which two share a directory, and disturbances
that come to rest. `Within'` is a conjunct of every step, so each instance is
explored completely.

### CertificatePolicy and CertificateArchive

`CertificatePolicy` are the operators between the settings and the certificates
that Caddy manages: normalisation with the Azure defaults, validation, the TLS
part of `Render`, and the policy that the inspector reads back.
`CertificateArchive` is the request: check, take CertMagic's locks one by one in
the order of their names (`storage_clean` last), read, handshake, write the
manifest, read again, rename, verify, and, if something changed, restore.
Caddy renews under its locks, serves what it has loaded and cleans its storage;
an operator writes without any lock; a crash leaves lock files. Caddy and
CertMagic are external and modelled as the code uses them. Of a file its
version is kept. While the request holds `syncMu` nothing is sent to Caddy, but
a load whose client gave up before (`LoadTimesOut`, after the ten seconds of
`client.go:19`) may still be performed (`inflight`, `LateLoad`), as in
`ControlPlane`; `overtaken` observes that this happened during the request.

### RouteRender

`Render` as operators: the stable sort, listeners, security entries,
authentication, redirections, errors; `Respond` is Caddy, which takes the first
entry that matches. The state machine adds, removes and disables routes and
changes settings, and refuses what does not render. The properties quantify
over every request to every listener and are stated over the routes, so they
are a reference definition for the list of entries. The sort gives every route
its place, the number of routes that come before it, and an entry keeps the
route it was made from. Strings are represented by what the sort compares: a
host by its rank, a path by its length (`OrderAssumption`: ranks differ, and a
proper prefix is shorter).

### GatewayConfig

`Load` is defaults, environment, settings file, certificate file and
normalisation, in this order. Each request merges with the live configuration,
the file or the draft, as its handler does, validates, saves and publishes.
Two gateways exchange archives. `chosen` observes what the operator set last.
The configuration file of the environment (`GATEWAY_CONFIG_FILE`) and settings
that no request changes are left out. `SecretsOf` are the tokens and client
secrets that a gateway and its operator have; `Secrets` are those in a
configuration, `""` being none. `SelfContained` is an environment with which the
gateway starts and whose certificate policy takes nothing from the Azure
settings; `PolicyAssumption` of `MCGatewayConfig` says of which of its
environments this is true.

### DockerDiscovery

Docker moves containers between networks and hands addresses that became free
to others. `Reached` says which containers an upstream means inside the gateway
(external); `SharedNetworkAddress`, `routeFromLabels`, `Discover` and
`handleBindContainer` are the code. `identified` is whether the gateway finds
its own container in the list. `NetworkOrder` has the networks in the order of
their names, which is how the code sorts them; `First` is the first of some.
`ContainerAssumption` says what Docker and Compose guarantee: a name belongs to
one container, no other container is of the gateway's service, and published
ports are port numbers.

### AuditLog, HealthChecker, MCServices

In `AuditLog` the file is a sequence of cells; a write arrives in pieces and may
stop (full disk, crash). `ReadLast` reads from the end of the file as it was
opened: `ReadBlock` puts one block in front of what was left over, `ScanLine`
takes the last line of it, and `EndBlock` ends a block, so that `Record` may
append between any two of them. In `HealthChecker` the send on the unbuffered channel is one step of
caller and worker; a worker may be anywhere when the context ends, and an
upstream may never answer.

`MCServices` checks the four services that share no state in one run: a
behaviour exercises one of them, chosen at the start, while the variables of the
others rest in their initial state. Each of the four is explored completely and
their properties hold in the others trivially; no interleaving is lost, because
there is none to lose.

## Runs

| run | instance | states | checks |
|---|---|---|---|
| `staged_store` | 3 resource sets, 2 callers (symmetric), revisions up to 4 | 9 thousand | the abstract promises |
| `route_store` | 2 listener, pool and rule identifiers, 2 hosts, 1 bind, 2 paths, one good and one dangling bundle, one good and one ambiguous v2 file; 1 caller, revisions up to 2 | 60 thousand | integrity, cache, file, refinement |
| `control_apply` | 1 client and the loop, 3 resource sets of which one conflicts with a discovered set and one never renders, Azure, 1 failure, 1 crash | 2.9 million | drafts, reports, cloud, restart |
| `control_import` | 1 client and the loop, 2 values of each part of the configuration, 2 failures | 3.2 million | imports, settings and certificate changes, roll backs |
| `control_progress` | 1 client and the loop, 2 resource sets, 2 discovered sets, one of which conflicts with one of them, Azure, 2 failures | 436 thousand | liveness |
| `services` | log: 2 writers, 3 slots, 5 bytes, lines cut at 2, entries of 1, 3 and 6 bytes; audit: 2 writers, 3 events, blocks of 2 cells, lines up to 4, 2 torn writes; health: 0 to 5 routes, 2 workers; Caddy: 2 probes | 324 thousand | the four services |
| `azure_ownership` | four instances of up to 3 gateways, 2 hosts, 2 zones; 1 fault, 1 edit or 1 change of routes each | 323 thousand | ownership, identity, completeness, convergence |
| `certificate_archive` | a host and the wildcard over it, 5 policies, 2 versions, 2 requests, 1 intrusion | 133 thousand | the archive request |
| `route_render` | up to 3 of 8 overlapping routes, 4 settings, 72 requests per listener | 7 thousand | dispatch and policy |
| `gateway_config` | 2 gateways, 3 changes, 2 imports | 368 thousand | settings over restarts and archives |
| `docker_discovery` | gateway and 2 containers; default bridge, host network, one user network; 3 moves, 1 failure | 930 thousand | routes to containers |
| `derived_policy` | 1 gateway, 1 change | | a start that fails, violated |

What they show:

- `Durable`, `PendingExact`, `SnapshotsSound`, `AppliedMonotone`: the file is
  never behind the confirmed state, "nothing pending" is exact although it is
  decided by comparing numbers, a snapshot that is confirmed late is still what
  its number names, and the confirmed revision survives crashes.
- `Integrity`, `RoutesCoherent`, `FileLoadable`: whatever sequence of calls,
  failures and restarts. `ImplementsStagedStore`: the detailed store does
  nothing that the abstract one does not allow; a failed write is a stuttering
  step, so nothing of it remains.
- `Agreement` (`RuntimeAgreement`, `ConfigAgreement`, `FilesAgreement`,
  `DraftSound`): between syncs, or between requests, Caddy, both copies of the
  configuration and the files agree, except after a reported failure of a load,
  a roll back or a restoration. `ImportedRoutesLast`: of the three files of an
  import the routes are written last, so a crash in between restarts with the
  old routes, never with new routes under old settings.
- `DraftNeverLive`: no reload other than Apply, and no restart, activates a
  draft (`docs/operations.md:308`).
- `ResultsHonest` (`ReportHonest`, `CloudHonest`): a result that the newest sync
  reports is true of Caddy and of the cloud (`docs/roadmap.md:32`). They hold
  because a sync that is no longer the newest neither publishes nor starts an
  Azure pass.
- `StartupRenders`: a restart never fails on the routes that were confirmed.
- `RequestsReturn`: no lock order deadlocks, and every request is answered.
- `StateRepaired` (`RuntimeRepaired`, `CloudConverges`). `RuntimeRepaired`: what
  a failed or late load, or a roll back that failed,
  left in Caddy is repaired by a later sync, so that Caddy finally runs the
  applied routes with the configuration that the reconciler holds, and nothing
  is in flight. `CloudConverges`: when requests and containers have come to
  rest, DNS and NSG come to be at what Caddy runs, whatever passes failed, were
  cancelled or superseded. Both have a premise: the applied routes finally
  render together with the discovered ones. The code needs it. A container whose
  labels conflict with an applied route makes every sync end at `Render`
  (`reconciler.go:224`), before anything is loaded, and then nothing is
  repaired until the container is gone. The run has such a discovered set, which
  comes, goes and stays; without the premise TLC finds a behaviour in which it
  stays and `RuntimeRepaired` is false.
- `ExitsHonest`, `ReadyzHonest`, `ExitNoticed`: whenever Caddy exits, also
  between the answer of its admin endpoint and the end of `Start` or while a
  shutdown is under way, the gateway exits as well, `/readyz` never says "ready"
  after it, status 0 is left to cancelled contexts, and no child is abandoned
  without a signal.
- `LogExact` (`BytesExact`, `LinesWhole`, `ReadsNewest`),
  `ImplementsBoundedLog`: the ring keeps exactly the newest entries that fit,
  and what is left of a line that was too long neither leaks into the next line
  nor swallows it.
- `ReadExact`, `DamageContained`: reading backwards in blocks returns exactly
  the newest valid events of the file as it was opened; a torn write costs at
  most one recorded event.
- `StatusHonest`, `CheckReturns`: a health check reports every route at its own
  place and what its upstreams did, and it returns although no upstream answers.
- `IdentityExact`, `RecordsSafe` (`ForeignUntouched`, `NoGap`), `PassesSound`
  (`PassComplete`), `PassesConverge`: a state directory has one identity,
  whatever races or dies while it is drawn; no gateway changes a record that is
  not its own at that moment; a host that moves to another zone resolves
  throughout; success means that everything was done; repeated passes succeed,
  or report an obstacle for as long as it is there. Security rules have no
  conditional write in Azure's interface: what protects them is that each is
  named after an identity.
- `PolicySound` (`HostsManaged`): accepted settings leave no TLS host without a
  managed certificate that can be obtained, its own or that of a wildcard, which
  needs the DNS challenge. Excepted are hosts under a wildcard that is the host
  of a route and not a listed subject, which nothing checks (see the
  disagreements below).
- `ArchiveSafe` (`NothingLost`, `OutcomeHonest`): nothing is lost, also when
  someone recreates the directory before the restoration, and every answer is
  true. `NobodyStuck`: renewals and requests do not wait for ever, also after a
  crash.
- `MovedUnused`: at the moment of the move Caddy is not renewing the
  certificate, and neither manages nor serves it, unless a load that had timed
  out was performed during the request (`overtaken`). The exception is needed:
  `syncMu` keeps other syncs away and not a load that Caddy already has, and
  nothing is compared with `/config/` again before the rename. Without it TLC
  finds a late load between the handshakes and the rename, after which the
  certificate that is moved is one that Caddy manages.
- `MostSpecificRoute`, `PolicyEnforced` (`SecurityEnforced`,
  `CredentialsStayHere`), `RedirectsLand` (`RedirectsServed`,
  `ListenersCompatible`): for every request.
- `StartAccepts`, `ChoicesSurvive`, `SecretsStayHome`: accepted changes add up
  to a start that succeeds and brings back what was chosen last; no secret is in
  an archive or in another gateway. `StartAccepts` holds in `gateway_config`,
  where a certificate policy from the environment is complete, and is violated
  in `derived_policy`, where it is not (see below).
- `RoutesExact` (`DiscoveryExact`, `BindExact`), `RoutesSettle`: an address that
  goes into a route means the container it is for; stale routes, which a failed
  listing keeps, become right once containers stay as they are.

Bounds. Two identifiers of each kind are what the uniqueness and sharing rules
of the store relate to each other; three resource sets distinguish the
confirmed, the desired and a snapshot in between. Two revisions suffice for
`route_store`, as its invariants and its refinement are proved without a bound;
`staged_store` has four. Requests are serialised by `mutationMu`, so one client
and the loop show every overlap of two syncs. One failure reaches every error
path, a second one the failure of its roll back. One crash reaches every point
of every request; `control_import` has none, to stay short, but with
`MaxCrashes = 1` it passes as well (11.5 million states). `MaxRevision` only bounds a counter, `MaxFaults` and
`MaxCrashes` the failures; for liveness, the bound on failures says that they
stop eventually. In the log, sizes of 1 and 3 in 5 bytes reach the byte limit
before and after the 3 slots are used, with one or two removals, and an entry of
6 is refused. Audit events of 1 and 3 cells in blocks of 2 end before, at and
behind every block boundary, and two torn writes make a line longer than a read
accepts. Five routes for two workers make the caller wait; an empty list starts
no worker. In Azure, one edit or fault at any call is what a pass has to
survive; two versions of a certificate are the confirmed one and one that is
written during the request or is there when the move is undone. With three
versions and two intrusions the safety properties of `certificate_archive` pass
as well (2.4 million states), and they are proved without a bound.
Three overlapping routes are the two that compete and one that redirects. Three
moves let a container take over the address of one that left. Two resource
sets, two discovered sets and one pair that does not render are what it takes
for Caddy and the cloud to be at something older, and for a sync to be unable to
repair it. `control_progress` leaves out crashes, as a restart loads the applied
routes afresh, and changes of settings and certificate policy; with one resource
set and two values of each of these it passes as well (347 thousand states).
Deadlock checking is on except in `services`, where a
check has returned or the gateway has exited.

Fairness (`FairSpec`). Weak fairness of the ticker and of each step of a
goroutine: goroutines are scheduled, and every call of a sync returns, because
the HTTP clients, the roll back and the health checks have timeouts and the
Azure pass ends with its context. Strong fairness of taking `syncMu` and
`azureMu`: `sync.Mutex` hands the lock to a waiter that starves. (`Fairness`
says it of all steps of a goroutine at once, since the others stay enabled.)
Nothing is assumed of clients. In `CaddyManager` the goroutines of `main` and `wait` are
weakly fair (`waitForAdmin` gives up after five seconds, the shutdown of the
server after ten), and a child that was signalled, or whose context is done,
ends; a child that was not may run for ever. In `HealthChecker` goroutines go on
and a request ends by the timeout of the client; nobody has to answer. In
`AzureOwnership` every gateway goes on with its pass and starts the next one, as
the background loop does. In `CertificateArchive` the request goes on (a lock is
given up after three seconds), Caddy polls for its lock and removes lock files
that are not refreshed. In `DockerDiscovery` the loop lists the containers again
and again.

Each property has mutants in `PROJECT.json`, one for each part of a conjunction:
an operator marked "Bug" next to the definition it replaces, with which the
property fails.

## Proofs

All theorems hold for every value of the constants that satisfies the named
assumptions: any number of goroutines, gateways, hosts, resource sets,
requests, failures and crashes, and rings, lines and entries of any size. TLC
evaluates the assumptions on every run. Each of the eight modules has an
inductive invariant, a conjunction of named parts, with a lemma for the initial
states, a lemma per action, and the theorems at the end. `PROJECT.json` lists
the theorems with the property of a run that each one states.

**RouteStoreProofs.** Assumed: bundles and old files are resource sets without
runtime errors (`BundleAssumption`). First lemmas about resource sets: each of
the operations
`WithListener`, `WithoutListener`, … `Prune`, `Migrated` keeps a set
normalised under the guard the code gives it. `Prune` is the interesting one:
it removes a pool or a listener only when no remaining rule refers to it. Then
every edit is a `Commit` of a normalised set, so one lemma about `Commit`
serves all twelve edits. `SetRuntimeStatus` needs that compiling commutes with
setting the status. The invariant adds `SnapshotsCoherent` (held snapshots are
normalised and compiled), which `MarkApplied` needs. Theorems: `TypeCorrect`,
`ReferencesIntact`, `RoutesNeverStale`, `FilesLoadable`.

The refinement comes last: `Refinement == Spec => ImplementsStagedStore`. The
mapping strips runtime errors, and shows a store that is down as the store that
`Load` will produce, so `Load` is a stutter and `Crash` is the abstract
`Restart`; a legacy file maps to the file it will be migrated to. The invariant
adds that revisions stay within the bound, that files hold no runtime errors,
and that a store that is down is a new one. Every action is then shown to be an
abstract action or a stutter.

**ControlPlaneProofs.** Assumed: the empty resource set is one and the bound a
number (`ContentAssumption`, `RevisionAssumption`); the loop is one of the
goroutines and the first values are values (`ProcAssumption`,
`ValueAssumption`); `RenderAssumption` (above); and `AbsentAssumption`: `None`, which stands for
Go's nil, is none of the values it is the absence of.

First the abstract store by itself, `StoreSpec`, for any goroutines and resource
sets. Its inductive invariant is the conjunction of `StoreTypeOK`, `Durable`,
`PendingExact`, `StoreFileExact` and `SnapshotsSound`. `PendingExact` alone is
not inductive: a restart takes its numbers from the file, hence `StoreFileExact`
(the same statement about the file), and `MarkApplied` takes them from a held
snapshot, hence `SnapshotsSound`, which in turn needs two held snapshots of one
number to be equal. Theorems: `StoreTyped`, `StoreDurable`, `PendingIsExact`,
`HeldSnapshotsSound`, and the action property `ConfirmedForGood`, for which a
restart is a stutter of `applied` by `Durable`. Then `UsesStore == Spec =>
StoreSpec`: the control plane moves the store by the actions of `StagedStore`
only, so all of this holds in the running gateway (`StoreKept`).

The invariant of the control plane says, phase by phase, what a sync relies on:

| part | says | needed because |
|---|---|---|
| `Locks` | the phase of a goroutine says which of the three mutexes it holds, and the sync that holds `syncMu` is the newest | everything below is said of the one goroutine that syncs |
| `Jobs` | what a request carries still fits the state it will be committed to | `scfg` and `draft` are read long before the commit and must not have moved |
| `Locals` (`Remembers`, `Rendered`) | what `tx` remembers for the roll back is what is confirmed now; what it has rendered is the desired set for Apply and the confirmed one otherwise | the roll back restores from local variables |
| `Running` | what Caddy runs in each phase, unless a failure was reported | `RuntimeAgreement` holds only between syncs |
| `Files` | which of the files of an import are new in each phase of writing and undoing them | `FilesAgreement` and the action property hold only between requests |
| `Chosens` | whatever Caddy runs, may run or can be sent back to was selected by Apply, and the confirmed set renders | `DraftNeverLive`, `StartupRenders` |
| `Results` | what the newest sync has found so far, and what it reported, is still so | `ResultsHonest`: other goroutines act between the load and the report |

Theorems: `InAgreement`, `NoDraftGoesLive`, `HonestResults`, `StartsRender`, and
the action property `RoutesWrittenLast`.

**AzureOwnershipProofs.** Assumed: gateways are finitely many, hosts and zones
are names, configurations have their types and there is one, bounds are numbers.
The invariant has `Draws` (a
process draws at most one identity between two faults, so identities do not run
out), `Identities` (an identity is in one file, or with the one process that is
about to link it, never in both), `Tags` (an ETag that is still current is that
of a record the gateway owns; this is why a conditional write can be trusted
although ownership was checked a call earlier) and `Passes` (how far each pass
has come: the names that are not in `todo` any more are up to date, or somebody
else has touched them). For a name without a record it needs `free`: the
write then succeeds only if there still is none. Theorems: `OneIdentityPerDirectory`,
`HonestPasses`, and `SafeRecords`, for which each step is classified by the one
write it may make.

**CertificateArchiveProofs.** Assumed: a certificate is for its own name and for
finitely many, settings have their types, bounds are numbers. First, about the
policy: normalisation leaves a known issuer, so every host of an accepted
configuration has a managed name that covers it, and validation leaves a listed
wildcard only with a challenge, whose policy is the first that has its name
(`HostsHaveCertificates`). The invariant of a request: until a late load
overtakes it, the configuration it has checked is the running one (`Frozen`,
because it holds `syncMu`) and nobody is served with the certificate after the
handshakes (`NotServing`, from `ServedCovers`); it has or is still to take every
lock (`Locked`), Caddy writes under its lock (`Renewing`), and what was read and
moved is what was confirmed (`ContentsRead`, `Moved`). Then `MovesOnlyUnused` and `ArchivesSafely`; the latter has one lemma for the files,
which no step loses, and one for the answers.

**RouteRenderProofs.** Assumed: routes, settings and requests have their types
(`TypeAssumption`), and `OrderAssumption` (above). The invariant is short: the
routes are a list of definable ones, the settings are among the given, and
together they render, because what does not is refused. What there is to prove
is about `Render`, and the lemmas go along its parts: the sort is a permutation
in which the more specific of two routes for a request comes first; in a list
made of parts the first match is in the first part that has one; each listener
has the entries of its own routes. From them: the first entry that matches a
request belongs to the most specific route that serves it
(`RouteMostSpecific`); the rejections of a route come before its proxy, which
for a protected route asks for a credential and strips it
(`RoutePolicyEnforced`); redirections come behind the routes of the HTTP
listener and lead to the listener of the route they were made for, and no two
listeners conflict (`RouteRedirectsLand`).

**GatewayConfigProofs.** Assumed: a gateway and its operator only have secrets
of their own (`SecretsApart`, with `EnvAssumption` and `RequestAssumption`,
which also give the environment and the requests their types). These are about
the operator: one who types the token of one gateway into the other has put it
there. The
invariant is one predicate of a gateway (`GatewayInv`): the shapes of its
configuration, files and draft, its secrets (`Own`), that a policy on file is
complete, so that a start adds nothing to it (`Whole`), what a draft shares with
its archive and with its gateway (`Drafted`), and how what was chosen last shows
in what is live and in the file (`Chosen`). The lemmas say that normalisation is
idempotent and that saving, loading and applying settings undo each other.
Theorems: `KeepsChoices`, `KeepsSecrets`, and `AlwaysStarts`, which states
`StartAccepts` for environments that are `SelfContained`. Its invariant
(`Ready`) is that the gateway starts with what was chosen last, with the
certificate file, and with the draft. It speaks of the choices rather than of
the files, because handlers validate against live settings of which some wait
for the next start; `ChoicesKept` turns it into a statement about the files. The
hypothesis is needed where a policy of the environment meets other Azure
settings (`derived_policy`), and it is one that TLC finds true of the
environments of `gateway_config`.

**DockerDiscoveryProofs.** Assumed: `ContainerAssumption` (above). The invariant
`DockerInv` has `Apart` (no two containers have one address on a network, though
addresses change hands), `Addressed` (a container has an address on each of its
networks or, while it is restarted, on none) and that what a fresh listing found
is what a listing would find now. An address on a network that the gateway
shares then means its container (`AddressMeans`), and so does a name that a
user network resolves. `ExactRoutes` has the listing, for exactly the
containers that can be reached, and the bind request. The first of a sorted set
of networks needs only that it is one of them (`FirstIn`).

**ServicesProofs**, over the specification of `MCServices`.

- Caddy's supervision: `HasChild`, `ReadyChild` and `ErrorKept` say how `cmd`,
  the waiter and the channel go together, whichever of exit, signal and shutdown
  comes first. `TrueExits`, and the action property `TrueReadiness`.
- Health: every job belongs to one worker (`Assigned`), one that was handed out
  is done or being done (`NoneForgotten`), a worker has come as far as the
  answers have been good (`Asked`). `TrueStatuses`, for any list of routes and
  any number of workers (`HealthAssumption`: they have their types).
- Runtime log (`LimitAssumption`: the ring has a slot, limits and sizes are
  numbers): the slots in use hold entries with their sizes beside them
  (`Ringed`), and what is dropped is the rest of a line that is too long
  (`Dropped`). From them `ExactLog` and `RingRefines == ServicesSpec =>
  ImplementsBoundedLog`. `Add` moves `start` by the least number of removals
  that makes room; the abstract store keeps the longest end that fits. That the
  two are the same number needs that the sum of the entries splits at any place,
  and that slots that are apart stay apart modulo the size of the ring.
- Audit log (`AuditAssumption`: sizes of events and blocks and the limits are
  numbers, "nobody" is no request). Writing: what the holder of the lock has
  written of its line is the end of the file (`AuditTail`), and `AuditDamage`
  counts: the recorded events without an intact line, plus one if the write
  under way follows a torn line, are at most the torn writes. The extra one is
  what makes it inductive, as a torn write damages the next event, not itself.
  `DamageLimited`. Reading (`ReaderInv`): what is read and not yet taken apart is
  the file between the left end and a place behind which a line begins, and the
  events are those of the valid lines behind that place (`Seen`), none of them
  too long. Appends do not disturb it, because they leave the lines of the file
  as it was opened alone (`Grown`). `ExactReads`.

Induction is written with sets here: the library's induction schemes take a
predicate as a parameter, which the installed provers cannot instantiate, but
well-foundedness of the numbers can be stated of the set of counterexamples
(`SetInduction`). From it follow recursive functions (`RecursionUpTo`), the sum
of a sequence (`TotalUnfolds`, `TotalParts`), the routes that `Check` collects
(`ActiveRoutes`), and the least and greatest elements (`LeastExists`,
`GreatestExists`, `GreatestIs`). The remainder is nonlinear arithmetic, so `ModUnique`, `ModShift`,
`ModApart` and `ModTurn` reduce it to linear facts.

Every safety property of the passing runs is stated by a theorem. Not proved:

- The liveness properties `RequestsReturn`, `StateRepaired`, `ExitNoticed`,
  `CheckReturns`, `PassesConverge`, `NobodyStuck` and `RoutesSettle`: fairness
  and `ENABLED` are beyond this prover.
- `StartAccepts` without the hypothesis of `AlwaysStarts` is false:
  `derived_policy` is a counterexample. `HostsManaged` without its
  exception is false as well: any state with a wildcard route host that is not listed.

## Disagreements with the documentation

`derived_policy` shows one of them. A certificate policy from the environment
takes its missing subscription and resource group from the Azure settings
(`config.go:206`). `handleSystemSettings` validates new Azure settings against
the live policy, in which they are filled in already (`settings.go:131`). The
next start derives them again, from the new settings, finds nothing, and exits,
although `docs/operations.md:396` says "Saved settings are restored after
restart."

Others were met while modelling. The models follow the code and no run is
devoted to them:

- `docs/operations.md:396` says that certificate changes are saved and then
  reconciled. The code loads Caddy first and saves in the commit callback
  (`server.go:720`, `settings.go:219`), so that a policy that Caddy rejects is
  never saved; after a crash in between the old policy is back.
- `docs/operations.md:316` says that audit reads preserve chronological order. An
  event takes its time before the lock (`audit.go:42`), so two events may be in
  the file in the other order.
- Saving system settings derives `Docker.Enabled` from the deployment mode
  (`settings.go:124`), but `restartRequired` does not compare it
  (`settings.go:255`). Where `GATEWAY_DOCKER_ENABLED` is false
  (`docs/operations.md:435`), saving an unchanged container mode turns discovery
  on at the next start, while the answer says that no restart is pending
  (`docs/operations.md:326` counts discovery among what waits for one).
- An import of a policy with managed identity drops the client secret of the
  target (`configuration_bundle.go:105`), which `docs/operations.md:339` says is
  kept.

- `docs/operations.md:412` says "Wildcard names require DNS-01.", and
  `docs/dockerhub.md:88` says so of wildcard certificates. Validation demands the
  challenge of listed subjects only (`config.go:266`). A route may have a wildcard
  host (`routes/store.go:363`) that is not listed: it is accepted, falls under
  the policy without the challenge (`caddy/config.go:561`), and the inventory
  counts concrete hosts under it as covered by it (`policy.go:141`), so neither
  has a certificate that can be obtained. The same paragraph calls wildcard
  subjects and wildcard route hosts independent, and nothing tells the operator
  that the second needs the first. `HostsManaged` names the exception
  (`UnderUnlisted`).
- `docs/operations.md:427` says that manual bindings require an explicit
  container port. Without one `handleBindContainer` takes the first TCP port of
  the container (`server.go:478`), as the model does.
- Not a matter of documentation: pool names are compared with `EqualFold` when
  one is added or replaced (`resources.go:202`, `:527`) and by `ToLower` when a
  file is loaded (`:592`). The two differ for a few letters outside ASCII (`s`
  and its long form); the model has one equality of names.

## What is not modelled

- That an import is crash atomic: `docs/operations.md:231` and `:341` say it is
  not; `ImportedRoutesLast` is what remains true.
- The v1 route file (routes without resources) and its migration.
- The zip and JSON encoding of bundles, limits of request bodies, text formats
  of hosts, paths, addresses and CIDRs: values that passed their validators.
- The permission check and the status report of Azure, certificate inventory and
  events, and the read-only handlers: they change nothing.
- `SetRuntimeStatus` composed with the sync that calls it.
- That another container is taken for the gateway because its identifier begins
  with the gateway's host name (`network.go:17`), and equal service names of
  different Compose projects in one network: `identified` is exact, and
  containers with one service name are replicas of one service.
- Listen addresses that are malformed and header names without a value: `Render`
  refuses the first, validation of the settings the second.
- Web interface, deployment scripts and the evidence tool: other programs.

## Plan

Done: the modules and runs above, and the proofs of all their safety properties:
the two stores and the refinement between them, the control plane, Azure, the
certificate archive, rendering, the settings, Docker discovery, supervision,
health checks, the runtime log and the audit log. Left:

1. The v1 migration in `RouteStore`.
2. `SetRuntimeStatus` composed with the sync that calls it, so that health
   results that arrive after a change of routes are part of `ControlPlane`.
