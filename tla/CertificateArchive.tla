------------------------- MODULE CertificateArchive -------------------------
(***************************************************************************)
(* Archiving a certificate that is no longer in use (internal/certificate, *)
(* internal/api/certificates.go): a request checks that nobody uses the    *)
(* certificate, takes Caddy's own storage locks and moves the directory.   *)
(*                                                                         *)
(* Around the request Caddy renews certificates under its locks, serves    *)
(* what it has loaded and cleans its storage; an operator may write files  *)
(* without any lock; the gateway may die.  The request holds syncMu, so    *)
(* that nothing is loaded under it; only a load whose client gave up       *)
(* before may still be performed at any time.                              *)
(*                                                                         *)
(* A name is a sequence of labels.  Of a file its version is kept: a new   *)
(* content, identity or modification time is a new version, and the        *)
(* version of a certificate file is the certificate's fingerprint.         *)
(***************************************************************************)
EXTENDS CertificatePolicy

CONSTANTS
  Dirs,          \* certificate directories, named after a subject
  SubjectsOf,    \* the subjects of the certificate in a directory
  Certificates,  \* certificate settings that may be asked for
  HostSets,      \* sets of hosts that may have HTTPS routes
  Azure,         \* the Azure settings: subscription, zones, group
  MaxWrites,     \* bound: file versions written by Caddy and the operator
  MaxRequests,   \* bound: archive requests
  MaxIntrusions  \* bound: writes of the operator

ASSUME DirAssumption ==
  /\ <<>> \notin Dirs
  /\ \A d \in Dirs : IsFiniteSet(SubjectsOf[d]) /\ d \in SubjectsOf[d]
ASSUME SettingsAssumption == Certificates \subseteq CertificateConfig
ASSUME BoundAssumption ==
  MaxWrites \in Nat \ {0} /\ MaxRequests \in Nat /\ MaxIntrusions \in Nat

storage_clean == <<"storage_clean">>
Subjects == UNION {SubjectsOf[d] : d \in Dirs}
Locks == Subjects \cup {storage_clean}
Hosts == UNION HostSets

Files == [crt : 0..MaxWrites, key : 0..MaxWrites, json : 0..MaxWrites]
NoFiles == [crt |-> 0, key |-> 0, json |-> 0]
Complete(f) == f.crt > 0 /\ f.key > 0 /\ f.json > 0

\* The configurations Caddy may be given: of settings that were accepted.
Configs ==
  LET effective == {ApplyAzureCertificateDefaults(c, Azure) : c \in Certificates}
      accepted == {c \in effective : ValidateCertificateConfig(c)}
  IN  UNION {{Rendered(c, hosts) : hosts \in HostSets} : c \in accepted}

----------------------------------------------------------------------------
VARIABLES
  dirs,        \* certificates/<issuer>/<name>: the files in it
  archives,    \* certificate-archive/<random>: [dir, files]
  locks,       \* CertMagic's lock files: holder, "free" or "stale"
  config,      \* what Caddy runs
  inflight,    \* a load that timed out and that Caddy may still perform
  served,      \* the certificate Caddy presents for a host
  renewal,     \* the renewal Caddy is working on
  req,         \* the archive request
  clock, requests, intrusions

storage == <<dirs, archives>>
caddy == <<config, inflight, served, renewal>>
bounds == <<clock, requests, intrusions>>
vars == <<storage, locks, caddy, req, bounds>>

NotServed == [dir |-> <<>>, crt |-> 0]
NoRenewal == [pc |-> "idle", dir |-> <<>>, version |-> 0]
NoLoad == <<>>

\* overtaken: a late load has changed what Caddy runs since the checks.
NoRequest == [pc |-> "idle", dir |-> <<>>, fp |-> 0, config |-> <<>>,
              overtaken |-> FALSE, todo |-> <<>>, contents |-> NoFiles,
              moved |-> NoFiles, result |-> "none"]

Served == [dir : Dirs, crt : 1..MaxWrites] \cup {NotServed}
Renewals == [pc : {"wait", "key", "crt", "json"}, dir : Dirs,
             version : 1..MaxWrites] \cup {NoRenewal}
Requests ==
  [pc : {"idle", "lock", "read", "handshake", "manifest", "reread", "rename",
         "verify", "check", "restore"},
   dir : Dirs \cup {<<>>}, fp : 0..MaxWrites, config : Configs \cup {<<>>},
   overtaken : BOOLEAN, todo : Seq(Locks), contents : Files, moved : Files,
   result : {"none", "archived", "rejected", "restored", "manual"}]

TypeOK ==
  /\ dirs \in [Dirs -> Files]
  /\ archives \subseteq [dir : Dirs, files : Files]
  /\ locks \in [Locks -> {"free", "archive", "caddy", "stale"}]
  /\ config \in Configs /\ inflight \in Configs \cup {NoLoad}
  /\ served \in [Hosts -> Served]
  /\ renewal \in Renewals
  /\ req \in Requests
  /\ clock \in 0..MaxWrites /\ requests \in 0..MaxRequests
  /\ intrusions \in 0..MaxIntrusions

Init ==
  /\ dirs = [d \in Dirs |-> [crt |-> 1, key |-> 1, json |-> 1]]
  /\ archives = {}
  /\ locks = [l \in Locks |-> "free"]
  /\ config \in Configs /\ inflight = NoLoad
  /\ served = [h \in Hosts |-> NotServed]
  /\ renewal = NoRenewal
  /\ req = NoRequest
  /\ clock = 1 /\ requests = 0 /\ intrusions = 0

Busy == req.pc # "idle"

----------------------------------------------------------------------------
(* Inspector.Archive.  Locks are released whenever it returns.             *)

\* Bug: an early return leaves the locks.
StillLocked == [l \in Locks |-> locks[l]]

Unlocked == [l \in Locks |-> IF locks[l] = "archive" THEN "free" ELSE locks[l]]

Return(result) ==
  /\ req' = [NoRequest EXCEPT !.result = result]
  /\ locks' = Unlocked

Reject == Return("rejected") /\ UNCHANGED storage

Go(pc) == req' = [req EXCEPT !.pc = pc]

\* Bug: the lock of the domain above is taken.
ParentLock(d) == <<Tail(d), storage_clean>>

\* The sorted names: those of the subjects, then storage_clean.
lockNames(d) == Append(SetToSeq(SubjectsOf[d]), storage_clean)

\* ParsePolicy, Inspect, Classify and the checks that follow from them.  It
\* may reject any request: for a configuration with parts this gateway does
\* not write, an inventory with unreadable files or a directory that is not
\* a standard one.
Archive(d, fp) ==
  /\ ~Busy /\ requests < MaxRequests /\ requests' = requests + 1
  /\ UNCHANGED <<caddy, clock, intrusions, storage>>
  /\ \/ Return("rejected")
     \/ /\ dirs[d].crt = fp /\ CanArchive(SubjectsOf[d], config)
        /\ req' = [NoRequest EXCEPT !.pc = "lock", !.dir = d, !.fp = fp,
                                    !.config = config, !.todo = lockNames(d)]
        /\ UNCHANGED locks

\* storage.Lock waits for the lock; it gives up after 3 seconds.
TakeLock ==
  /\ req.pc = "lock" /\ req.todo # <<>>
  /\ UNCHANGED <<storage, caddy, bounds>>
  /\ \/ /\ locks[Head(req.todo)] = "free"
        /\ locks' = [locks EXCEPT ![Head(req.todo)] = "archive"]
        /\ req' = [req EXCEPT !.todo = Tail(@)]
     \/ /\ locks[Head(req.todo)] # "free"
        /\ Reject

LocksTaken ==
  /\ req.pc = "lock" /\ req.todo = <<>>
  /\ Go("read")
  /\ UNCHANGED <<storage, locks, caddy, bounds>>

\* archiveContents, and the fingerprint once more, now under the locks.
ReadContents ==
  /\ req.pc = "read"
  /\ UNCHANGED <<storage, caddy, bounds>>
  /\ LET files == dirs[req.dir]
     IN  \/ /\ ~Complete(files) \/ files.crt # req.fp
            /\ Reject
         \/ /\ Complete(files) /\ files.crt = req.fp
            /\ req' = [req EXCEPT !.pc = "handshake", !.contents = files]
            /\ UNCHANGED locks

\* A handshake for the host returns another, valid certificate for it.
Replaced(h) ==
  /\ ~Wildcard(h)
  /\ served[h] # NotServed
  /\ served[h] # [dir |-> req.dir, crt |-> req.fp]
  /\ \E s \in SubjectsOf[served[h].dir] : Covers(s, h)

verifyNotServing ==
  /\ req.pc = "handshake"
  /\ UNCHANGED <<storage, caddy, bounds>>
  /\ \/ /\ \E h \in Affected(SubjectsOf[req.dir], req.config) : ~Replaced(h)
        /\ Reject
     \/ /\ \A h \in Affected(SubjectsOf[req.dir], req.config) : Replaced(h)
        /\ Go("manifest")
        /\ UNCHANGED locks

\* The directory of the archive and its manifest; a failure leaves them.
WriteManifest ==
  /\ req.pc = "manifest"
  /\ Go("reread")
  /\ UNCHANGED <<storage, locks, caddy, bounds>>

Reread ==
  /\ req.pc = "reread"
  /\ UNCHANGED <<storage, caddy, bounds>>
  /\ \/ /\ dirs[req.dir] # req.contents
        /\ Reject
     \/ /\ dirs[req.dir] = req.contents
        /\ Go("rename")
        /\ UNCHANGED locks

Rename ==
  /\ req.pc = "rename"
  /\ UNCHANGED <<caddy, bounds>>
  /\ \/ /\ dirs[req.dir] = NoFiles
        /\ Reject
     \/ /\ dirs[req.dir] # NoFiles
        /\ archives' = archives \cup {[dir |-> req.dir, files |-> dirs[req.dir]]}
        /\ dirs' = [dirs EXCEPT ![req.dir] = NoFiles]
        /\ req' = [req EXCEPT !.pc = "verify", !.moved = dirs[req.dir]]
        /\ UNCHANGED locks

\* Bug: the files are taken to be those that were read before.
TrustMove == req.moved # NoFiles

\* sameContents of what was read under the locks and what was moved.
MovedAsRead == req.moved = req.contents

\* What was moved is read again, which may fail as well.
VerifyMove ==
  /\ req.pc = "verify"
  /\ UNCHANGED <<storage, caddy, bounds>>
  /\ \/ MovedAsRead /\ Return("archived")
     \/ Go("check") /\ UNCHANGED locks

\* Lstat of the original path.
CheckOriginal ==
  /\ req.pc = "check"
  /\ UNCHANGED <<storage, caddy, bounds>>
  /\ \/ dirs[req.dir] # NoFiles /\ Return("manual")
     \/ dirs[req.dir] = NoFiles /\ Go("restore") /\ UNCHANGED locks

\* Bug: whatever is at the original path is replaced.
CanRestore == req.pc = "restore"

\* A directory cannot be renamed to one that has files.
RestoreFree == dirs[req.dir] = NoFiles

Restore ==
  /\ req.pc = "restore"
  /\ UNCHANGED <<caddy, bounds>>
  /\ \/ /\ RestoreFree
        /\ archives' = archives \ {[dir |-> req.dir, files |-> req.moved]}
        /\ dirs' = [dirs EXCEPT ![req.dir] = req.moved]
        /\ Return("restored")
     \/ /\ Return("manual")
        /\ UNCHANGED storage

\* Before the move, a file cannot be read or written, a handshake fails or
\* the client is gone.
StepFails ==
  /\ req.pc \in {"read", "handshake", "manifest", "reread", "rename"}
  /\ Reject
  /\ UNCHANGED <<caddy, bounds>>

\* The gateway dies; its lock files are no longer refreshed.
Crash ==
  /\ Busy
  /\ req' = NoRequest
  /\ locks' = [l \in Locks |-> IF locks[l] = "archive" THEN "stale" ELSE locks[l]]
  /\ UNCHANGED <<storage, caddy, bounds>>

----------------------------------------------------------------------------
(* Caddy, seen through its storage and its listeners.                      *)

\* Bug: the configuration may be replaced while a request is at work.
AlwaysFree == req.pc \in STRING

\* WithRuntimeConfig holds syncMu, without which no load is sent.
syncMuFree == ~Busy

\* A load, or the load of a roll back, succeeds; it is the last one.
LoadConfig(c) ==
  /\ syncMuFree
  /\ <<config, inflight>> # <<c, NoLoad>>
  /\ config' = c /\ inflight' = NoLoad
  /\ UNCHANGED <<storage, locks, served, renewal, req, bounds>>

\* The client gives up after its timeout, and syncMu is released.
LoadTimesOut(c) ==
  /\ syncMuFree
  /\ inflight # c
  /\ inflight' = c
  /\ UNCHANGED <<storage, locks, config, served, renewal, req, bounds>>

\* Caddy performs the load all the same, whoever holds syncMu by then.
LateLoad ==
  /\ inflight # NoLoad
  /\ config' = inflight /\ inflight' = NoLoad
  /\ req' = [req EXCEPT !.overtaken = Busy]
  /\ UNCHANGED <<storage, locks, served, renewal, bounds>>

\* For a host Caddy presents a certificate it manages, once it has loaded
\* it from its storage; until then it presents the one it had.
Serve(h, d) ==
  /\ d \in ManagedSubjects(config) /\ h \in config.hosts /\ Covers(d, h)
  /\ Complete(dirs[d])
  /\ served[h] # [dir |-> d, crt |-> dirs[d].crt]
  /\ served' = [served EXCEPT ![h] = [dir |-> d, crt |-> dirs[d].crt]]
  /\ UNCHANGED <<storage, locks, config, inflight, renewal, req, bounds>>

\* A renewal may wait for its lock, or be at work, when a configuration that
\* no longer has its subject is loaded.
StartRenewal(d) ==
  /\ renewal = NoRenewal
  /\ clock < MaxWrites /\ clock' = clock + 1
  /\ d \in ManagedSubjects(config)
  /\ renewal' = [pc |-> "wait", dir |-> d, version |-> clock + 1]
  /\ UNCHANGED <<storage, locks, config, inflight, served, req, requests, intrusions>>

LockRenewal ==
  /\ renewal.pc = "wait" /\ locks[renewal.dir] = "free"
  /\ locks' = [locks EXCEPT ![renewal.dir] = "caddy"]
  /\ renewal' = [renewal EXCEPT !.pc = "key"]
  /\ UNCHANGED <<storage, config, inflight, served, req, bounds>>

After(file) == [key |-> "crt", crt |-> "json", json |-> "idle"][file]

WriteRenewed(file) ==
  /\ renewal.pc = file
  /\ dirs' = [dirs EXCEPT ![renewal.dir][file] = renewal.version]
  /\ IF file = "json"
     THEN /\ renewal' = NoRenewal
          /\ locks' = [locks EXCEPT ![renewal.dir] = "free"]
     ELSE /\ renewal' = [renewal EXCEPT !.pc = After(file)]
          /\ UNCHANGED locks
  /\ UNCHANGED <<archives, config, inflight, served, req, bounds>>

\* A lock file that nobody refreshes is removed by whoever waits for it.
RemoveStaleLock(l) ==
  /\ locks[l] = "stale"
  /\ locks' = [locks EXCEPT ![l] = "free"]
  /\ UNCHANGED <<storage, caddy, req, bounds>>

\* Storage cleaning removes the directory of an expired certificate.
CleanStorage(d) ==
  /\ locks[storage_clean] = "free"
  /\ dirs[d] # NoFiles /\ d \notin ManagedSubjects(config)
  /\ clock < MaxWrites /\ clock' = clock + 1
  /\ dirs' = [dirs EXCEPT ![d] = NoFiles]
  /\ UNCHANGED <<archives, locks, caddy, req, requests, intrusions>>

\* The operator writes a file by hand, without a lock.
Intrude(d, file) ==
  /\ intrusions < MaxIntrusions /\ intrusions' = intrusions + 1
  /\ clock < MaxWrites /\ clock' = clock + 1
  /\ dirs' = [dirs EXCEPT ![d][file] = clock + 1]
  /\ UNCHANGED <<archives, locks, caddy, req, requests>>

----------------------------------------------------------------------------
Request == \E d \in Dirs, fp \in 1..MaxWrites : Archive(d, fp)

Continue ==
  \/ TakeLock \/ LocksTaken \/ ReadContents \/ verifyNotServing
  \/ WriteManifest \/ Reread \/ Rename \/ VerifyMove \/ CheckOriginal
  \/ Restore \/ StepFails

Renewal == LockRenewal \/ \E file \in {"key", "crt", "json"} : WriteRenewed(file)

Caddy ==
  \/ \E c \in Configs : LoadConfig(c) \/ LoadTimesOut(c)
  \/ LateLoad
  \/ \E h \in Hosts, d \in Dirs : Serve(h, d)
  \/ \E d \in Dirs : StartRenewal(d) \/ CleanStorage(d)
  \/ \E l \in Locks : RemoveStaleLock(l)

Next ==
  \/ Request \/ Continue \/ Crash \/ Caddy \/ Renewal
  \/ \E d \in Dirs, file \in {"key", "crt", "json"} : Intrude(d, file)

Spec == Init /\ [][Next]_vars

\* A request goes on until it returns, Caddy polls for its locks and removes
\* stale ones.
FairSpec ==
  /\ Spec
  /\ WF_vars(Continue) /\ WF_vars(Renewal)
  /\ \A l \in Locks : WF_vars(RemoveStaleLock(l))

----------------------------------------------------------------------------
(* Properties.                                                             *)

Materials == {[dir |-> d, files |-> dirs[d]] : d \in {x \in Dirs : dirs[x] # NoFiles}}
             \cup archives

\* The host has a certificate that is managed and can be obtained: Caddy
\* gets a wildcard only by a DNS challenge.
Obtainable(h) ==
  \E m \in ManagedSubjects(config) :
    Covers(m, h) /\ (Wildcard(m) => PolicyFor(m, config).dns)

\* A wildcard host of a route, which nobody listed as a subject, covers the
\* host: Render and validation take it as it is.
UnderUnlisted(h) ==
  h \notin config.listed /\ \E w \in config.hosts \ config.listed :
                              Wildcard(w) /\ Covers(w, h)

\* Settings that were accepted leave no host of a TLS route without a
\* certificate that can be obtained, its own or a listed wildcard's with the
\* DNS challenge, other than the hosts under a wildcard route host that is
\* not listed as a subject.
HostsManaged == \A h \in config.hosts : Obtainable(h) \/ UnderUnlisted(h)

\* The hosts have certificates, but for those of HostsManaged that nothing in
\* the code checks, and the locks and directories are those of the
\* certificates (lockNames).
PolicySound == TypeOK /\ HostsManaged

\* No step of Archive loses certificate files, however it ends and whatever
\* others write meanwhile: they stay in the directory or in the archive, and
\* what was recreated at the original path is not replaced by a restoration.
NothingLost ==
  [][<<clock, renewal>>' = <<clock, renewal>> => Materials \subseteq Materials']_vars

\* At the moment of the move Caddy is not in the middle of writing these
\* files, and, unless a load that had timed out before was performed under
\* the request, it does not manage the certificate in the configuration it
\* runs then and serves no host of it with these files, although all this
\* was checked before.
MovedUnused ==
  [][archives' # archives /\ req.pc = "rename" =>
       /\ renewal.dir = req.dir => renewal.pc = "wait"
       /\ ~req.overtaken =>
            /\ req.dir \notin ManagedSubjects(config)
            /\ \A h \in config.hosts :
                 served[h] # [dir |-> req.dir, crt |-> req.fp]]_vars

\* Archive tells what happened: if it reports a directory as archived, the
\* archive has the confirmed certificate with a key and metadata, and if it
\* reports a rejection or a restoration, the archive has nothing of this
\* request's.
OutcomeHonest ==
  [][Busy /\ req'.pc = "idle" =>
       LET new == [dir |-> req.dir, files |-> req.moved]
       IN  CASE req'.result = "archived" ->
                  new \in archives' /\ Complete(req.moved) /\ req.moved.crt = req.fp
             [] req'.result \in {"rejected", "restored"} -> new \notin archives'
             [] req'.result = "manual" -> new \in archives'
             [] OTHER -> req'.result = "none"]_vars

\* However Archive ends, nothing is lost and its answer is true.
ArchiveSafe == NothingLost /\ OutcomeHonest

\* The locks of CertMagic are taken in an order in which nobody waits for
\* ever: a request returns, and a renewal that waits for its lock completes,
\* also after a crash of the gateway.
NobodyStuck == (Busy ~> ~Busy) /\ (renewal.pc = "wait" ~> renewal.pc = "idle")
=============================================================================
