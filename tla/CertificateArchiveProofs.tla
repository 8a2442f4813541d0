---------------------- MODULE CertificateArchiveProofs ----------------------
(***************************************************************************)
(* Theorems about CertificateArchive for all certificate directories,      *)
(* subjects, settings and hosts, and any number of requests, renewals and  *)
(* writes of the operator.                                                 *)
(***************************************************************************)
EXTENDS CertificateArchive, FiniteSetTheorems, SequenceTheorems, TLAPS

(* The locks a request is to have.                                         *)
LocksOf(d) == SubjectsOf[d] \cup {storage_clean}

(* Caddy writes the files of a certificate under the lock of its subject.  *)
Renewing ==
  renewal.pc \in {"key", "crt", "json"} => locks[renewal.dir] = "caddy"

(* The configuration that a request has checked is the one Caddy runs,     *)
(* until a late load is performed.                                         *)
Frozen ==
  Busy => /\ req.dir \in Dirs
          /\ ~req.overtaken => /\ req.config = config
                               /\ CanArchive(SubjectsOf[req.dir], config)

(* The locks a request has, or is still to take.                           *)
Locked ==
  Busy => \A l \in LocksOf(req.dir) :
            \/ locks[l] = "archive"
            \/ req.pc = "lock" /\ \E i \in DOMAIN req.todo : req.todo[i] = l

(* What Caddy presents for a host is for the host.                         *)
ServedCovers ==
  \A h \in Hosts : served[h] # NotServed => Covers(served[h].dir, h)

(* No host is served with the certificate once the handshakes are made.    *)
NotServing ==
  req.pc \in {"manifest", "reread", "rename"} /\ ~req.overtaken =>
    \A h \in Affected(SubjectsOf[req.dir], config) :
      served[h] # [dir |-> req.dir, crt |-> req.fp]

(* What was read under the locks is the certificate that was confirmed.    *)
ContentsRead ==
  req.pc \in {"handshake", "manifest", "reread", "rename", "verify", "check",
              "restore"} =>
    Complete(req.contents) /\ req.contents.crt = req.fp

(* What was moved is in the archive until it is moved back.                *)
Moved ==
  IF req.pc \in {"verify", "check", "restore"}
  THEN req.moved # NoFiles /\ [dir |-> req.dir, files |-> req.moved] \in archives
  ELSE req.moved = NoFiles

Archived == \A a \in archives : a.files # NoFiles

IInv ==
  /\ TypeOK /\ Renewing /\ Frozen /\ Locked /\ ServedCovers /\ NotServing
  /\ ContentsRead /\ Moved /\ Archived

----------------------------------------------------------------------------
(* The policy.                                                             *)

(* Normalisation and the defaults of Azure leave a known issuer, and the   *)
(* subjects and the provider alone.                                        *)
SettingNames == {"issuer", "ca", "subjects", "provider", "subscription", "group",
                 "auth", "ids", "secret"}

LEMMA NormalizedFields ==
  ASSUME NEW c, DOMAIN c = SettingNames
  PROVE  /\ NormalizeCertificateConfig(c).issuer \notin {"", "default"}
         /\ NormalizeCertificateConfig(c).subjects = c.subjects
         /\ NormalizeCertificateConfig(c).provider = c.provider
         /\ DOMAIN NormalizeCertificateConfig(c) = SettingNames
BY DEF NormalizeCertificateConfig, SettingNames

LEMMA EffectiveFields ==
  ASSUME NEW c \in CertificateConfig, NEW azure, NEW e,
         e = ApplyAzureCertificateDefaults(c, azure)
  PROVE  /\ e.issuer \notin {"", "default"}
         /\ NormalizeCertificateConfig(e).subjects = e.subjects
         /\ NormalizeCertificateConfig(e).provider = e.provider
<1> DEFINE n == NormalizeCertificateConfig(c)
<1>1. DOMAIN c = SettingNames
  BY DEF CertificateConfig, SettingNames
<1>2. n.issuer \notin {"", "default"} /\ DOMAIN n = SettingNames
  BY <1>1, NormalizedFields
<1>3. e.issuer = n.issuer /\ DOMAIN e = SettingNames
  <2>1. e = IF n.provider # "azure" THEN n
            ELSE [n EXCEPT !.subscription = @ \/ azure.subscription,
                           !.group = IF @ # "" THEN @
                             ELSE certificateAzureDNSResourceGroup(n.subjects, azure)]
    BY DEF ApplyAzureCertificateDefaults
  <2> HIDE DEF n
  <2> QED BY <1>2, <2>1 DEF SettingNames
<1> QED BY <1>2, <1>3, NormalizedFields

(* The configurations that Caddy may be given.                             *)
LEMMA AcceptedConfig ==
  ASSUME NEW k \in Configs
  PROVE  \E e, hosts : /\ k = Rendered(e, hosts) /\ hosts \in HostSets
                       /\ e.issuer \notin {"", "default"}
                       /\ \A s \in e.subjects : Wildcard(s) => e.provider # ""
<1> DEFINE effective == {ApplyAzureCertificateDefaults(c, Azure) : c \in Certificates}
           accepted == {c \in effective : ValidateCertificateConfig(c)}
<1>1. PICK e \in accepted : \E hosts \in HostSets : k = Rendered(e, hosts)
  <2>1. k \in UNION {{Rendered(c, hosts) : hosts \in HostSets} : c \in accepted}
    BY DEF Configs
  <2> HIDE DEF accepted
  <2> QED BY <2>1
<1>2. PICK hosts \in HostSets : k = Rendered(e, hosts)
  BY <1>1
<1>3. PICK c \in Certificates : e = ApplyAzureCertificateDefaults(c, Azure)
  BY <1>1
<1>4. /\ e.issuer \notin {"", "default"}
      /\ NormalizeCertificateConfig(e).subjects = e.subjects
      /\ NormalizeCertificateConfig(e).provider = e.provider
  BY <1>3, SettingsAssumption, EffectiveFields
<1>5. \A s \in e.subjects : Wildcard(s) => e.provider # ""
  BY <1>1, <1>4 DEF ValidateCertificateConfig
<1> QED BY <1>2, <1>4, <1>5

(* What a rendered configuration of accepted settings lists.               *)
LEMMA RenderedParts ==
  ASSUME NEW e, NEW hosts, e.issuer \notin {"", "default"}
  PROVE  /\ Rendered(e, hosts).listed = e.subjects
         /\ Rendered(e, hosts).hosts = hosts
         /\ \A h : h \in Rendered(e, hosts).skip <=>
                   h \in hosts /\ wildcardCertificateCoversHost(e.subjects, h)
         /\ e.provider # "" /\ e.subjects # {} =>
              Rendered(e, hosts).policies =
                <<[subjects |-> e.subjects, dns |-> TRUE],
                  [subjects |-> {}, dns |-> FALSE]>>
<1>1. tlsAutomation(e).automate = e.subjects
  BY DEF tlsAutomation
<1>2. e.provider # "" /\ e.subjects # {} =>
        tlsAutomation(e).policies = <<[subjects |-> e.subjects, dns |-> TRUE],
                                      [subjects |-> {}, dns |-> FALSE]>>
  BY DEF tlsAutomation
<1> QED BY <1>1, <1>2 DEF Rendered

(* A subject that is covered by another is not a wildcard, so that who     *)
(* covers it is covered by nobody.                                         *)
LEMMA AllManaged ==
  ASSUME NEW k \in Configs, NEW h \in k.hosts
  PROVE  \E m \in ManagedSubjects(k) : Covers(m, h)
<1>1. PICK e, hosts : /\ k = Rendered(e, hosts)
                      /\ e.issuer \notin {"", "default"}
  BY AcceptedConfig
<1>2. /\ k.listed = e.subjects /\ k.hosts = hosts
      /\ \A x : x \in k.skip <=>
               x \in hosts /\ wildcardCertificateCoversHost(e.subjects, x)
  BY <1>1, RenderedParts
<1> DEFINE all == k.listed \cup (k.hosts \ k.skip)
<1>3. \A s : s \in ManagedSubjects(k) <=>
        s \in all /\ (s \in k.listed \/ ~\E w \in all \ {s} : Covers(w, s))
  BY DEF ManagedSubjects
<1>4. \A x, y : Covers(x, y) => x = y \/ (Wildcard(x) /\ ~Wildcard(y))
  BY DEF Covers
<1>5. CASE h \in k.skip
  <2>1. PICK s \in k.listed : Wildcard(s) /\ Covers(s, h)
    BY <1>2, <1>5 DEF wildcardCertificateCoversHost
  <2> QED BY <1>3, <2>1
<1>6. CASE h \notin k.skip
  <2>1. h \in all
    BY <1>6
  <2>2. CASE h \in ManagedSubjects(k)
    BY <2>2 DEF Covers
  <2>3. CASE h \notin ManagedSubjects(k)
    <3>1. PICK w \in all \ {h} : Covers(w, h)
      BY <1>3, <2>1, <2>3
    <3>2. Wildcard(w)
      BY <1>4, <3>1
    <3>3. w \in ManagedSubjects(k)
      BY <1>3, <1>4, <3>1, <3>2
    <3> QED BY <3>1, <3>3
  <2> QED BY <2>2, <2>3
<1> QED BY <1>5, <1>6

LEMMA WildcardsHaveDNS ==
  ASSUME NEW k \in Configs, NEW s \in k.listed, Wildcard(s)
  PROVE  PolicyFor(s, k).dns
<1>1. PICK e, hosts : /\ k = Rendered(e, hosts)
                      /\ e.issuer \notin {"", "default"}
                      /\ \A x \in e.subjects : Wildcard(x) => e.provider # ""
  BY AcceptedConfig
<1>2. k.listed = e.subjects
  BY <1>1, RenderedParts
<1>3. k.policies = <<[subjects |-> e.subjects, dns |-> TRUE],
                     [subjects |-> {}, dns |-> FALSE]>>
  BY <1>1, <1>2, RenderedParts
<1> DEFINE fitting == {i \in DOMAIN k.policies :
              k.policies[i].subjects = {} \/ s \in k.policies[i].subjects}
<1>4. fitting = {1, 2}
  BY <1>2, <1>3
<1>5. (CHOOSE i \in fitting : \A j \in fitting : i <= j) = 1
  <2>1. \A i \in {1, 2} : (\A j \in {1, 2} : i <= j) <=> i = 1
    OBVIOUS
  <2> QED BY <1>4, <2>1
<1>6. PolicyFor(s, k) = k.policies[1]
  BY <1>5 DEF PolicyFor
<1> QED BY <1>3, <1>6

(* A host that is managed itself or under a listed wildcard is obtained;   *)
(* the one that is left is under a wildcard that is not listed.            *)
LEMMA ConfigsManaged == config \in Configs => HostsManaged
<1> SUFFICES ASSUME config \in Configs, NEW h \in config.hosts
             PROVE  Obtainable(h) \/ UnderUnlisted(h)
  BY DEF HostsManaged
<1>1. \A m \in config.listed : Wildcard(m) => PolicyFor(m, config).dns
  BY WildcardsHaveDNS
<1>2. CASE h \in config.listed
  <2>1. h \in ManagedSubjects(config) /\ Covers(h, h)
    BY <1>2 DEF ManagedSubjects, Covers
  <2> QED BY <1>1, <1>2, <2>1 DEF Obtainable
<1>3. CASE h \notin config.listed
  <2>1. PICK m \in ManagedSubjects(config) : Covers(m, h)
    BY AllManaged
  <2>2. m \in config.listed \/ m \in config.hosts
    BY DEF ManagedSubjects
  <2>3. CASE m \in config.listed \/ ~Wildcard(m)
    BY <1>1, <2>1, <2>3 DEF Obtainable
  <2>4. CASE m \notin config.listed /\ Wildcard(m)
    BY <1>3, <2>1, <2>2, <2>4 DEF UnderUnlisted
  <2> QED BY <2>3, <2>4
<1> QED BY <1>2, <1>3

----------------------------------------------------------------------------
(* Types and locks.                                                        *)

(* Each subject is in the sequence of lock names.                          *)
LEMMA Listed ==
  ASSUME NEW S, IsFiniteSet(S)
  PROVE  /\ SetToSeq(S) \in [1..Cardinality(S) -> S]
         /\ \A s \in S : \E i \in 1..Cardinality(S) : SetToSeq(S)[i] = s
         /\ Cardinality(S) \in Nat
<1> DEFINE D == 1..Cardinality(S)
<1>1. Cardinality(S) \in Nat /\ ExistsBijection(D, S)
  BY FS_CardinalityType
<1>2. PICK b \in [D -> S] : IsInjective(b)
  BY <1>1 DEF ExistsBijection, Bijection, Injection
<1>3. SetToSeq(S) \in [D -> S] /\ IsInjective(SetToSeq(S))
  BY <1>2 DEF SetToSeq
<1>4. SetToSeq(S) \in Injection(D, S)
  BY <1>3 DEF Injection
<1>5. IsFiniteSet(D) /\ Cardinality(D) = Cardinality(S)
  BY <1>1, FS_Interval
<1>6. SetToSeq(S) \in Surjection(D, S)
  BY <1>4, <1>5, FS_Injection
<1> QED BY <1>1, <1>3, <1>6 DEF Surjection

LEMMA LockNames ==
  ASSUME NEW d \in Dirs
  PROVE  /\ lockNames(d) \in Seq(Locks) /\ LocksOf(d) \subseteq Locks
         /\ d \in LocksOf(d)
         /\ \A l \in LocksOf(d) : \E i \in DOMAIN lockNames(d) : lockNames(d)[i] = l
<1> DEFINE S == SubjectsOf[d]
           s == SetToSeq(S)
           n == Cardinality(S)
<1>1. IsFiniteSet(S) /\ d \in S
  BY DirAssumption
<1>2. S \subseteq Locks /\ storage_clean \in Locks
  BY DEF Locks, Subjects
<1>3. /\ s \in [1..n -> S] /\ n \in Nat
      /\ \A x \in S : \E i \in 1..n : s[i] = x
  BY <1>1, Listed
<1> HIDE DEF S, s, n
<1>4. s \in Seq(Locks) /\ Len(s) = n
  BY <1>2, <1>3
<1>5. /\ Append(s, storage_clean) \in Seq(Locks)
      /\ DOMAIN Append(s, storage_clean) = 1..(n + 1)
      /\ \A i \in 1..n : Append(s, storage_clean)[i] = s[i]
      /\ Append(s, storage_clean)[n + 1] = storage_clean
  BY <1>2, <1>3, <1>4
<1>6. \A i \in 1..n : i \in 1..(n + 1)
  BY <1>3
<1>7. n + 1 \in 1..(n + 1)
  BY <1>3
<1>8. lockNames(d) = Append(s, storage_clean) /\ LocksOf(d) = S \cup {storage_clean}
  BY DEF lockNames, LocksOf, S, s
<1> QED BY <1>1, <1>2, <1>3, <1>5, <1>6, <1>7, <1>8

LEMMA FilesTypes ==
  /\ NoFiles \in Files
  /\ \A f \in Files : /\ f.crt \in 0..MaxWrites /\ f.key \in 0..MaxWrites
                      /\ f.json \in 0..MaxWrites
  /\ NoRequest \in Requests /\ NoRequest.pc = "idle" /\ NoRequest.moved = NoFiles
BY BoundAssumption, EmptySeq DEF NoFiles, Files, NoRequest, Requests

(* A request in its types.                                                 *)
LEMMA ReqFields ==
  ASSUME TypeOK
  PROVE  /\ req \in Requests
         /\ req.pc \in {"idle", "lock", "read", "handshake", "manifest", "reread",
                        "rename", "verify", "check", "restore"}
         /\ req.todo \in Seq(Locks) /\ req.contents \in Files /\ req.moved \in Files
         /\ req.fp \in 0..MaxWrites
BY DEF TypeOK, Requests

----------------------------------------------------------------------------
(* What the steps have in common.                                          *)

(* A request returns, or dies: Caddy's locks are left alone.               *)
LEMMA Ends ==
  ASSUME IInv, req' \in Requests, req'.pc = "idle", req'.moved = NoFiles,
         locks' \in [Locks -> {"free", "archive", "caddy", "stale"}],
         \A l \in Locks : locks[l] = "caddy" => locks'[l] = "caddy",
         UNCHANGED caddy, UNCHANGED <<clock, intrusions>>,
         requests' \in 0..MaxRequests,
         dirs' \in [Dirs -> Files], archives' \subseteq [dir : Dirs, files : Files],
         Archived'
  PROVE  IInv'
<1>0. TypeOK /\ Renewing /\ ServedCovers
  BY DEF IInv
<1>1. UNCHANGED <<config, inflight, served, renewal>>
  BY DEF caddy
<1>2. TypeOK'
  BY <1>0, <1>1 DEF TypeOK
<1>3. Renewing'
  <2>1. renewal.pc \in {"key", "crt", "json"} => renewal.dir \in Locks
    <3>1. renewal.pc \in {"key", "crt", "json"} => renewal.dir \in Dirs
      BY <1>0 DEF TypeOK, Renewals, NoRenewal
    <3> QED BY <3>1, LockNames
  <2> QED BY <1>0, <1>1, <2>1 DEF Renewing
<1>4. ServedCovers'
  BY <1>0, <1>1 DEF ServedCovers
<1>5. Frozen' /\ Locked' /\ NotServing' /\ ContentsRead' /\ Moved'
  BY DEF Frozen, Locked, NotServing, ContentsRead, Moved, Busy
<1> QED BY <1>2, <1>3, <1>4, <1>5 DEF IInv

LEMMA Returned ==
  ASSUME TypeOK, NEW r \in {"none", "archived", "rejected", "restored", "manual"},
         Return(r)
  PROVE  /\ req' \in Requests /\ req'.pc = "idle" /\ req'.moved = NoFiles
         /\ req'.result = r
         /\ locks' \in [Locks -> {"free", "archive", "caddy", "stale"}]
         /\ \A l \in Locks : locks[l] = "caddy" => locks'[l] = "caddy"
<1>1. /\ req' \in Requests /\ req'.pc = "idle" /\ req'.moved = NoFiles
      /\ req'.result = r
  <2>1. req' = [NoRequest EXCEPT !.result = r]
    BY DEF Return
  <2>2. NoRequest \in Requests /\ NoRequest.pc = "idle" /\ NoRequest.moved = NoFiles
    BY FilesTypes
  <2> QED BY <2>1, <2>2 DEF Requests
<1>2. locks' = [l \in Locks |-> IF locks[l] = "archive" THEN "free" ELSE locks[l]]
  BY DEF Return, Unlocked
<1>3. locks \in [Locks -> {"free", "archive", "caddy", "stale"}]
  BY DEF TypeOK
<1> QED BY <1>1, <1>2, <1>3

LEMMA RejectKeeps ==
  ASSUME IInv, Reject, UNCHANGED caddy, UNCHANGED bounds
  PROVE  IInv'
<1>0. TypeOK /\ Archived
  BY DEF IInv
<1>1. UNCHANGED <<dirs, archives>>
  BY DEF Reject, storage
<1>2. dirs' \in [Dirs -> Files] /\ archives' \subseteq [dir : Dirs, files : Files]
      /\ requests' \in 0..MaxRequests /\ UNCHANGED <<clock, intrusions>>
  BY <1>0, <1>1 DEF TypeOK, bounds
<1>3. Archived'
  BY <1>0, <1>1 DEF Archived
<1> QED BY <1>0, <1>2, <1>3, Returned, Ends DEF Reject

(* The request goes on and keeps what it is about.                         *)
LEMMA GoesOn ==
  ASSUME IInv, Busy, req' \in Requests, req'.pc \notin {"idle", "lock"},
         req'.dir = req.dir, req'.fp = req.fp, req'.config = req.config,
         req'.overtaken = req.overtaken,
         req.pc = "lock" => req.todo = <<>>,
         UNCHANGED <<locks, caddy, bounds>>,
         dirs' \in [Dirs -> Files], archives' \subseteq [dir : Dirs, files : Files],
         Archived', NotServing', ContentsRead', Moved'
  PROVE  IInv'
<1>0. TypeOK /\ Renewing /\ ServedCovers /\ Frozen /\ Locked
  BY DEF IInv
<1>1. UNCHANGED <<config, inflight, served, renewal, clock, requests, intrusions>>
  BY DEF caddy, bounds
<1>2. TypeOK'
  BY <1>0, <1>1 DEF TypeOK
<1>3. Renewing' /\ ServedCovers'
  BY <1>0, <1>1 DEF Renewing, ServedCovers
<1>4. Frozen'
  BY <1>0, <1>1 DEF Frozen, Busy
<1>5. Locked'
  BY <1>0 DEF Locked, Busy
<1> QED BY <1>2, <1>3, <1>4, <1>5 DEF IInv

(* Others act while the request, if there is one, stands still.            *)
LEMMA StandsStill ==
  ASSUME IInv, TypeOK', req' = req, archives' = archives,
         Renewing', ServedCovers', NotServing',
         config' = config \/ ~Busy,
         \A l \in Locks : locks[l] = "archive" => locks'[l] = "archive"
  PROVE  IInv'
<1>0. TypeOK /\ Frozen /\ Locked /\ ContentsRead /\ Moved /\ Archived
  BY DEF IInv
<1>1. Frozen'
  BY <1>0 DEF Frozen, Busy
<1>2. Locked'
  <2>1. Busy => LocksOf(req.dir) \subseteq Locks
    BY <1>0, LockNames DEF Frozen
  <2> QED BY <1>0, <2>1 DEF Locked, Busy
<1>3. ContentsRead' /\ Moved' /\ Archived'
  BY <1>0 DEF ContentsRead, Moved, Archived
<1> QED BY <1>1, <1>2, <1>3 DEF IInv

----------------------------------------------------------------------------
(* The steps of a request.                                                 *)

LEMMA ArchiveKeeps ==
  ASSUME IInv, NEW d \in Dirs, NEW fp \in 1..MaxWrites, Archive(d, fp)
  PROVE  IInv'
<1>0. TypeOK /\ Renewing /\ ServedCovers /\ Archived
  BY DEF IInv
<1>1. /\ ~Busy /\ requests < MaxRequests /\ requests' = requests + 1
      /\ UNCHANGED caddy /\ UNCHANGED <<clock, intrusions>>
      /\ UNCHANGED <<dirs, archives>>
  BY DEF Archive, storage
<1>2. /\ requests' \in 0..MaxRequests /\ dirs' \in [Dirs -> Files]
      /\ archives' \subseteq [dir : Dirs, files : Files]
  BY <1>0, <1>1, BoundAssumption DEF TypeOK
<1>3. Archived'
  BY <1>0, <1>1 DEF Archived
<1>4. CASE Return("rejected")
  BY <1>0, <1>1, <1>2, <1>3, <1>4, Returned, Ends
<1>5. CASE /\ dirs[d].crt = fp /\ CanArchive(SubjectsOf[d], config)
           /\ req' = [NoRequest EXCEPT !.pc = "lock", !.dir = d, !.fp = fp,
                                       !.config = config, !.todo = lockNames(d)]
           /\ UNCHANGED locks
  <2>1. /\ req' \in Requests /\ req'.pc = "lock" /\ req'.dir = d
        /\ req'.config = config /\ req'.todo = lockNames(d)
        /\ req'.moved = NoFiles
    <3>1. fp \in 0..MaxWrites /\ config \in Configs /\ lockNames(d) \in Seq(Locks)
      BY <1>0, BoundAssumption, LockNames DEF TypeOK
    <3>2. NoRequest \in Requests /\ NoRequest.moved = NoFiles
      BY FilesTypes
    <3> QED BY <1>5, <3>1, <3>2 DEF Requests
  <2>2. UNCHANGED <<config, inflight, served, renewal>>
    BY <1>1 DEF caddy
  <2>3. TypeOK'
    BY <1>0, <1>1, <1>2, <1>5, <2>1, <2>2 DEF TypeOK
  <2>4. Renewing' /\ ServedCovers'
    BY <1>0, <1>5, <2>2 DEF Renewing, ServedCovers
  <2>5. Frozen' /\ NotServing' /\ ContentsRead' /\ Moved'
    BY <1>5, <2>1, <2>2 DEF Frozen, NotServing, ContentsRead, Moved, Busy
  <2>6. Locked'
    BY <2>1, LockNames DEF Locked
  <2> QED BY <1>3, <2>3, <2>4, <2>5, <2>6 DEF IInv
<1> QED BY <1>4, <1>5 DEF Archive

LEMMA TakeLockKeeps ==
  ASSUME IInv, TakeLock
  PROVE  IInv'
<1>0. /\ TypeOK /\ Renewing /\ ServedCovers /\ Archived /\ Frozen /\ Locked
      /\ NotServing /\ ContentsRead /\ Moved
  BY DEF IInv
<1>1. req.pc = "lock" /\ req.todo # <<>> /\ UNCHANGED <<storage, caddy, bounds>>
  BY DEF TakeLock
<1>2. CASE Reject
  BY <1>1, <1>2, RejectKeeps
<1>3. CASE /\ locks[Head(req.todo)] = "free"
           /\ locks' = [locks EXCEPT ![Head(req.todo)] = "archive"]
           /\ req' = [req EXCEPT !.todo = Tail(@)]
  <2>1. /\ req.todo \in Seq(Locks) /\ Head(req.todo) \in Locks
        /\ Tail(req.todo) \in Seq(Locks)
        /\ \A i \in DOMAIN req.todo : req.todo[i] = Head(req.todo)
             \/ \E j \in DOMAIN Tail(req.todo) : Tail(req.todo)[j] = req.todo[i]
    <3>1. req.todo \in Seq(Locks) /\ req.todo # <<>>
      BY <1>0, <1>1, ReqFields
    <3>2. /\ Head(req.todo) = req.todo[1] /\ Tail(req.todo) \in Seq(Locks)
          /\ Head(req.todo) \in Locks
          /\ Len(Tail(req.todo)) = Len(req.todo) - 1 /\ Len(req.todo) \in Nat
          /\ \A j \in 1..(Len(req.todo) - 1) : Tail(req.todo)[j] = req.todo[j + 1]
      BY <3>1, HeadTailProperties
    <3>3. ASSUME NEW i \in DOMAIN req.todo, i # 1
          PROVE  \E j \in DOMAIN Tail(req.todo) : Tail(req.todo)[j] = req.todo[i]
      <4>1. i \in 1..Len(req.todo) /\ DOMAIN Tail(req.todo) = 1..(Len(req.todo) - 1)
        BY <3>1, <3>2
      <4>2. i - 1 \in 1..(Len(req.todo) - 1) /\ (i - 1) + 1 = i
        BY <3>2, <3>3, <4>1
      <4>3. Tail(req.todo)[i - 1] = req.todo[i]
        BY <3>2, <4>2
      <4> QED BY <4>1, <4>2, <4>3
    <3> QED BY <3>1, <3>2, <3>3
  <2>2. /\ req' \in Requests /\ req'.pc = "lock" /\ req'.dir = req.dir
        /\ req'.config = req.config /\ req'.overtaken = req.overtaken
        /\ req'.todo = Tail(req.todo)
        /\ req'.moved = req.moved
    BY <1>0, <1>1, <1>3, <2>1, ReqFields DEF Requests
  <2>3. UNCHANGED <<dirs, archives, config, inflight, served, renewal, clock, requests, intrusions>>
    BY <1>1 DEF storage, caddy, bounds
  <2>4. /\ locks' \in [Locks -> {"free", "archive", "caddy", "stale"}]
        /\ locks'[Head(req.todo)] = "archive"
        /\ \A l \in Locks : l # Head(req.todo) => locks'[l] = locks[l]
    BY <1>0, <1>3, <2>1 DEF TypeOK
  <2>5. TypeOK'
    BY <1>0, <2>2, <2>3, <2>4 DEF TypeOK
  <2>6. Renewing'
    <3>1. renewal.pc \in {"key", "crt", "json"} => renewal.dir \in Locks
      <4>1. renewal.pc \in {"key", "crt", "json"} => renewal.dir \in Dirs
        BY <1>0 DEF TypeOK, Renewals, NoRenewal
      <4> QED BY <4>1, LockNames
    <3> QED BY <1>0, <1>3, <2>3, <2>4, <3>1 DEF Renewing
  <2>7. ServedCovers' /\ Archived'
    BY <1>0, <2>3 DEF ServedCovers, Archived
  <2>8. Frozen' /\ NotServing' /\ ContentsRead' /\ Moved'
    BY <1>0, <1>1, <2>2, <2>3 DEF Frozen, NotServing, ContentsRead, Moved, Busy
  <2>9. Locked'
    <3>1. Busy
      BY <1>1 DEF Busy
    <3>2. LocksOf(req.dir) \subseteq Locks
      BY <1>0, <3>1, LockNames DEF Frozen
    <3>3. ASSUME NEW l \in LocksOf(req.dir)
          PROVE  \/ locks'[l] = "archive"
                 \/ \E i \in DOMAIN req'.todo : req'.todo[i] = l
      <4>1. CASE locks[l] = "archive"
        BY <2>4, <3>2, <4>1
      <4>2. CASE \E i \in DOMAIN req.todo : req.todo[i] = l
        BY <2>1, <2>2, <2>4, <4>2
      <4> QED BY <1>0, <3>1, <4>1, <4>2 DEF Locked
    <3> QED BY <2>2, <3>3 DEF Locked
  <2> QED BY <2>5, <2>6, <2>7, <2>8, <2>9 DEF IInv
<1> QED BY <1>2, <1>3 DEF TakeLock

(* A step to another stage of the request.                                 *)
LEMMA GoFields ==
  ASSUME TypeOK, NEW pc \in {"read", "handshake", "manifest", "reread", "rename",
                             "verify", "check", "restore"},
         Go(pc)
  PROVE  /\ req' \in Requests /\ req'.pc = pc /\ req'.dir = req.dir
         /\ req'.fp = req.fp /\ req'.config = req.config
         /\ req'.overtaken = req.overtaken
         /\ req'.contents = req.contents /\ req'.moved = req.moved
BY ReqFields DEF Go, Requests

LEMMA StorageKept ==
  ASSUME IInv, UNCHANGED storage
  PROVE  /\ dirs' \in [Dirs -> Files] /\ archives' \subseteq [dir : Dirs, files : Files]
         /\ dirs' = dirs /\ archives' = archives /\ Archived'
BY DEF IInv, TypeOK, storage, Archived

LEMMA LocksTakenKeeps ==
  ASSUME IInv, LocksTaken
  PROVE  IInv'
<1>0. TypeOK /\ Moved
  BY DEF IInv
<1>1. /\ req.pc = "lock" /\ req.todo = <<>> /\ Go("read")
      /\ UNCHANGED <<storage, locks, caddy, bounds>>
  BY DEF LocksTaken
<1>2. NotServing' /\ ContentsRead' /\ Moved'
  BY <1>0, <1>1, GoFields DEF NotServing, ContentsRead, Moved
<1> QED BY <1>0, <1>1, <1>2, GoFields, StorageKept, GoesOn DEF Busy

LEMMA ReadContentsKeeps ==
  ASSUME IInv, ReadContents
  PROVE  IInv'
<1> DEFINE files == dirs[req.dir]
<1>0. TypeOK /\ Moved /\ Frozen
  BY DEF IInv
<1>1. req.pc = "read" /\ UNCHANGED <<storage, caddy, bounds>>
  BY DEF ReadContents
<1>2. CASE Reject
  BY <1>1, <1>2, RejectKeeps
<1>3. CASE /\ Complete(files) /\ files.crt = req.fp
           /\ req' = [req EXCEPT !.pc = "handshake", !.contents = files]
           /\ UNCHANGED locks
  <2>1. files \in Files
    BY <1>0, <1>1 DEF TypeOK, Frozen, Busy
  <2>2. /\ req' \in Requests /\ req'.pc = "handshake" /\ req'.dir = req.dir
        /\ req'.fp = req.fp /\ req'.config = req.config
        /\ req'.overtaken = req.overtaken
        /\ req'.contents = files /\ req'.moved = req.moved
    <3> HIDE DEF files
    <3> QED BY <1>0, <1>3, <2>1, ReqFields DEF Requests
  <2>3. NotServing' /\ ContentsRead' /\ Moved'
    BY <1>0, <1>1, <1>3, <2>2 DEF NotServing, ContentsRead, Moved
  <2> QED BY <1>1, <1>3, <2>2, <2>3, StorageKept, GoesOn DEF Busy
<1> QED BY <1>2, <1>3 DEF ReadContents

LEMMA HandshakeKeeps ==
  ASSUME IInv, verifyNotServing
  PROVE  IInv'
<1>0. TypeOK /\ Moved /\ Frozen /\ ContentsRead
  BY DEF IInv
<1>1. req.pc = "handshake" /\ UNCHANGED <<storage, caddy, bounds>>
  BY DEF verifyNotServing
<1>2. CASE Reject
  BY <1>1, <1>2, RejectKeeps
<1>3. CASE /\ \A h \in Affected(SubjectsOf[req.dir], req.config) : Replaced(h)
           /\ Go("manifest")
           /\ UNCHANGED locks
  <2>1. /\ ~req.overtaken => req.config = config
        /\ UNCHANGED <<config, inflight, served, renewal>>
    BY <1>0, <1>1 DEF Frozen, Busy, caddy
  <2>2. NotServing'
    BY <1>0, <1>3, <2>1, GoFields DEF NotServing, Replaced
  <2>3. ContentsRead' /\ Moved'
    BY <1>0, <1>1, <1>3, GoFields, StorageKept DEF ContentsRead, Moved
  <2> QED BY <1>0, <1>1, <1>3, <2>2, <2>3, GoFields, StorageKept, GoesOn DEF Busy
<1> QED BY <1>2, <1>3 DEF verifyNotServing

(* Steps towards the move.                                                 *)
LEMMA TowardsMove ==
  ASSUME IInv, req.pc \in {"manifest", "reread"}, NEW pc \in {"reread", "rename"},
         Go(pc), UNCHANGED <<storage, locks, caddy, bounds>>
  PROVE  IInv'
<1>0. TypeOK /\ Moved /\ NotServing /\ ContentsRead
  BY DEF IInv
<1>1. UNCHANGED <<config, inflight, served>>
  BY DEF caddy
<1>2. NotServing' /\ ContentsRead' /\ Moved'
  BY <1>0, <1>1, GoFields DEF NotServing, ContentsRead, Moved
<1> QED BY <1>0, <1>2, GoFields, StorageKept, GoesOn DEF Busy

LEMMA RenameKeeps ==
  ASSUME IInv, Rename
  PROVE  IInv'
<1> DEFINE files == dirs[req.dir]
<1>0. TypeOK /\ Moved /\ Frozen /\ ContentsRead /\ Archived
  BY DEF IInv
<1>1. req.pc = "rename" /\ UNCHANGED <<caddy, bounds>>
  BY DEF Rename
<1>2. CASE Reject
  BY <1>1, <1>2, RejectKeeps
<1>3. CASE /\ files # NoFiles
           /\ archives' = archives \cup {[dir |-> req.dir, files |-> files]}
           /\ dirs' = [dirs EXCEPT ![req.dir] = NoFiles]
           /\ req' = [req EXCEPT !.pc = "verify", !.moved = files]
           /\ UNCHANGED locks
  <2>1. files \in Files /\ req.dir \in Dirs
    BY <1>0, <1>1 DEF TypeOK, Frozen, Busy
  <2>2. /\ req' \in Requests /\ req'.pc = "verify" /\ req'.dir = req.dir
        /\ req'.fp = req.fp /\ req'.config = req.config
        /\ req'.overtaken = req.overtaken
        /\ req'.contents = req.contents /\ req'.moved = files
    <3> HIDE DEF files
    <3> QED BY <1>0, <1>3, <2>1, ReqFields DEF Requests
  <2>3. /\ dirs' \in [Dirs -> Files]
        /\ archives' \subseteq [dir : Dirs, files : Files]
    BY <1>0, <1>3, <2>1, FilesTypes DEF TypeOK
  <2>4. NotServing' /\ ContentsRead' /\ Moved'
    BY <1>0, <1>1, <1>3, <2>2 DEF NotServing, ContentsRead, Moved
  <2>5. Archived'
    BY <1>0, <1>3 DEF Archived
  <2> QED BY <1>1, <1>3, <2>2, <2>3, <2>4, <2>5, GoesOn DEF Busy
<1> QED BY <1>2, <1>3 DEF Rename

(* After the move: the request ends and the storage is as it is.           *)
LEMMA EndsAfterMove ==
  ASSUME IInv, NEW r \in {"archived", "manual", "restored"}, Return(r),
         UNCHANGED <<storage, caddy, bounds>>
  PROVE  IInv'
<1>0. TypeOK
  BY DEF IInv
<1>1. requests' \in 0..MaxRequests /\ UNCHANGED <<clock, intrusions>>
  BY <1>0 DEF TypeOK, bounds
<1> QED BY <1>0, <1>1, StorageKept, Returned, Ends

LEMMA VerifyMoveKeeps ==
  ASSUME IInv, VerifyMove \/ CheckOriginal
  PROVE  IInv'
<1>0. TypeOK /\ Moved /\ ContentsRead
  BY DEF IInv
<1>1. req.pc \in {"verify", "check"} /\ UNCHANGED <<storage, caddy, bounds>>
  BY DEF VerifyMove, CheckOriginal
<1>2. CASE Return("archived") \/ Return("manual")
  BY <1>1, <1>2, EndsAfterMove
<1>3. ASSUME NEW pc \in {"check", "restore"}, Go(pc), UNCHANGED locks
      PROVE  IInv'
  <2>1. NotServing' /\ ContentsRead' /\ Moved'
    BY <1>0, <1>1, <1>3, GoFields, StorageKept DEF NotServing, ContentsRead, Moved
  <2> QED BY <1>0, <1>1, <1>3, <2>1, GoFields, StorageKept, GoesOn DEF Busy
<1> QED BY <1>2, <1>3 DEF VerifyMove, CheckOriginal

LEMMA RestoreKeeps ==
  ASSUME IInv, Restore
  PROVE  IInv'
<1>0. TypeOK /\ Moved /\ Frozen /\ Archived
  BY DEF IInv
<1>1. req.pc = "restore" /\ UNCHANGED <<caddy, bounds>>
  BY DEF Restore
<1>2. CASE Return("manual") /\ UNCHANGED storage
  BY <1>1, <1>2, EndsAfterMove
<1>3. CASE /\ archives' = archives \ {[dir |-> req.dir, files |-> req.moved]}
           /\ dirs' = [dirs EXCEPT ![req.dir] = req.moved]
           /\ Return("restored")
  <2>1. /\ dirs' \in [Dirs -> Files]
        /\ archives' \subseteq [dir : Dirs, files : Files]
    BY <1>0, <1>1, <1>3, ReqFields DEF TypeOK, Frozen, Busy
  <2>2. Archived'
    BY <1>0, <1>3 DEF Archived
  <2>3. requests' \in 0..MaxRequests /\ UNCHANGED <<clock, intrusions>>
    BY <1>0, <1>1 DEF TypeOK, bounds
  <2> QED BY <1>0, <1>1, <1>3, <2>1, <2>2, <2>3, Returned, Ends
<1> QED BY <1>2, <1>3 DEF Restore

LEMMA CrashKeeps ==
  ASSUME IInv, Crash
  PROVE  IInv'
<1>0. TypeOK
  BY DEF IInv
<1>1. /\ req' = NoRequest /\ UNCHANGED <<storage, caddy, bounds>>
      /\ locks' = [l \in Locks |-> IF locks[l] = "archive" THEN "stale" ELSE locks[l]]
  BY DEF Crash
<1>2. /\ locks' \in [Locks -> {"free", "archive", "caddy", "stale"}]
      /\ \A l \in Locks : locks[l] = "caddy" => locks'[l] = "caddy"
  BY <1>0, <1>1 DEF TypeOK
<1>3. requests' \in 0..MaxRequests /\ UNCHANGED <<clock, intrusions>>
  BY <1>0, <1>1 DEF TypeOK, bounds
<1> QED BY <1>1, <1>2, <1>3, FilesTypes, StorageKept, Ends

LEMMA ContinueKeeps ==
  ASSUME IInv, Continue
  PROVE  IInv'
<1>1. CASE WriteManifest
  BY <1>1, TowardsMove DEF WriteManifest
<1>2. CASE Reread
  BY <1>2, TowardsMove, RejectKeeps DEF Reread
<1>3. CASE StepFails
  BY <1>3, RejectKeeps DEF StepFails
<1> QED BY <1>1, <1>2, <1>3, TakeLockKeeps, LocksTakenKeeps, ReadContentsKeeps,
           HandshakeKeeps, RenameKeeps, VerifyMoveKeeps, RestoreKeeps DEF Continue
----------------------------------------------------------------------------
(* The steps of Caddy and of the operator.                                 *)

(* A renewal that is at work has a directory and a version.                *)
LEMMA RenewalFields ==
  ASSUME TypeOK, renewal.pc # "idle"
  PROVE  /\ renewal \in [pc : {"wait", "key", "crt", "json"}, dir : Dirs,
                         version : 1..MaxWrites]
         /\ renewal.dir \in Dirs /\ renewal.dir \in Locks
         /\ renewal.version \in 1..MaxWrites
<1>1. renewal \in [pc : {"wait", "key", "crt", "json"}, dir : Dirs,
                   version : 1..MaxWrites]
  BY DEF TypeOK, Renewals, NoRenewal
<1> QED BY <1>1, LockNames

(* Nobody but the request changes its locks or what Caddy serves.          *)
LEMMA OnlyFiles ==
  ASSUME IInv, dirs' \in [Dirs -> Files], clock' \in 0..MaxWrites,
         intrusions' \in 0..MaxIntrusions,
         UNCHANGED <<archives, locks, config, inflight, served, renewal, req, requests>>
  PROVE  IInv'
<1>0. TypeOK /\ Renewing /\ ServedCovers /\ NotServing
  BY DEF IInv
<1>1. TypeOK'
  BY <1>0 DEF TypeOK
<1>2. Renewing' /\ ServedCovers' /\ NotServing'
  BY <1>0 DEF Renewing, ServedCovers, NotServing
<1> QED BY <1>1, <1>2, StandsStill

LEMMA CleanStorageKeeps ==
  ASSUME IInv, NEW d \in Dirs, CleanStorage(d)
  PROVE  IInv'
<1>0. TypeOK
  BY DEF IInv
<1>1. dirs' \in [Dirs -> Files]
  BY <1>0, FilesTypes DEF CleanStorage, TypeOK
<1>2. clock' \in 0..MaxWrites
  BY <1>0, BoundAssumption DEF CleanStorage, TypeOK
<1> QED BY <1>0, <1>1, <1>2, OnlyFiles DEF CleanStorage, caddy, TypeOK

LEMMA FileWritten ==
  ASSUME TypeOK, NEW d \in Dirs, NEW file \in {"key", "crt", "json"},
         NEW v \in 0..MaxWrites, dirs' = [dirs EXCEPT ![d][file] = v]
  PROVE  dirs' \in [Dirs -> Files]
<1>1. dirs \in [Dirs -> Files]
  BY DEF TypeOK
<1>2. [dirs[d] EXCEPT ![file] = v] \in Files
  BY <1>1 DEF Files
<1> QED BY <1>1, <1>2

LEMMA IntrudeKeeps ==
  ASSUME IInv, NEW d \in Dirs, NEW file \in {"key", "crt", "json"}, Intrude(d, file)
  PROVE  IInv'
<1>0. TypeOK
  BY DEF IInv
<1>1. clock' \in 0..MaxWrites /\ clock' = clock + 1
  BY <1>0, BoundAssumption DEF Intrude, TypeOK
<1>2. dirs' \in [Dirs -> Files]
  BY <1>0, <1>1, FileWritten DEF Intrude
<1>3. intrusions' \in 0..MaxIntrusions
  BY <1>0, BoundAssumption DEF Intrude, TypeOK
<1> QED BY <1>1, <1>2, <1>3, OnlyFiles DEF Intrude, caddy

LEMMA LoadConfigKeeps ==
  ASSUME IInv, NEW c \in Configs, LoadConfig(c) \/ LoadTimesOut(c)
  PROVE  IInv'
<1>0. TypeOK /\ Renewing /\ ServedCovers
  BY DEF IInv
<1>1. /\ ~Busy /\ config' \in Configs /\ inflight' \in Configs \cup {NoLoad}
      /\ UNCHANGED <<dirs, archives, locks, served, renewal, req>>
      /\ UNCHANGED <<clock, requests, intrusions>>
  BY <1>0 DEF LoadConfig, LoadTimesOut, syncMuFree, storage, bounds, TypeOK
<1>2. TypeOK'
  BY <1>0, <1>1 DEF TypeOK
<1>3. Renewing' /\ ServedCovers' /\ NotServing'
  BY <1>0, <1>1 DEF Renewing, ServedCovers, NotServing, Busy
<1> QED BY <1>1, <1>2, <1>3, StandsStill

(* A late load says nothing about a request but that it is overtaken.      *)
LEMMA LateLoadKeeps ==
  ASSUME IInv, LateLoad
  PROVE  IInv'
<1>0. /\ TypeOK /\ Renewing /\ Frozen /\ Locked /\ ServedCovers
      /\ ContentsRead /\ Moved /\ Archived
  BY DEF IInv
<1>1. /\ inflight # NoLoad /\ config' = inflight /\ inflight' = NoLoad
      /\ req' = [req EXCEPT !.overtaken = Busy]
      /\ UNCHANGED <<dirs, archives, locks, served, renewal>>
      /\ UNCHANGED <<clock, requests, intrusions>>
  BY DEF LateLoad, storage, bounds
<1>2. /\ req' \in Requests /\ req'.overtaken = Busy
      /\ req'.pc = req.pc /\ req'.dir = req.dir /\ req'.fp = req.fp
      /\ req'.todo = req.todo /\ req'.contents = req.contents
      /\ req'.moved = req.moved
  <2>1. Busy \in BOOLEAN
    BY DEF Busy
  <2> HIDE DEF Busy
  <2> QED BY <1>0, <1>1, <2>1, ReqFields DEF Requests
<1>3. TypeOK'
  BY <1>0, <1>1, <1>2 DEF TypeOK
<1>4. Renewing' /\ ServedCovers' /\ Archived'
  BY <1>0, <1>1 DEF Renewing, ServedCovers, Archived
<1>5. Frozen' /\ NotServing'
  BY <1>0, <1>2 DEF Frozen, NotServing, Busy
<1>6. Locked' /\ ContentsRead' /\ Moved'
  BY <1>0, <1>1, <1>2 DEF Locked, ContentsRead, Moved, Busy
<1> QED BY <1>3, <1>4, <1>5, <1>6 DEF IInv

(* The hosts of a configuration are among those that may have a route.     *)
LEMMA ConfigHosts ==
  ASSUME NEW k \in Configs
  PROVE  k.hosts \subseteq Hosts
<1>1. PICK e, hosts : /\ k = Rendered(e, hosts) /\ hosts \in HostSets
                      /\ e.issuer \notin {"", "default"}
  BY AcceptedConfig
<1>2. k.hosts = hosts
  BY <1>1, RenderedParts
<1> QED BY <1>1, <1>2 DEF Hosts

(* A certificate whose directory may be archived is not managed.           *)
LEMMA NotManaged ==
  ASSUME Frozen, Busy, ~req.overtaken
  PROVE  req.dir \notin ManagedSubjects(config)
<1>1. req.dir \in SubjectsOf[req.dir] /\ CanArchive(SubjectsOf[req.dir], config)
  BY DirAssumption DEF Frozen
<1>2. Covers(req.dir, req.dir)
  BY DEF Covers
<1> QED BY <1>1, <1>2 DEF CanArchive

LEMMA ServeKeeps ==
  ASSUME IInv, NEW h \in Hosts, NEW d \in Dirs, Serve(h, d)
  PROVE  IInv'
<1> DEFINE new == [dir |-> d, crt |-> dirs[d].crt]
<1>0. TypeOK /\ Renewing /\ ServedCovers /\ NotServing /\ Frozen
  BY DEF IInv
<1>1. /\ d \in ManagedSubjects(config) /\ Covers(d, h) /\ Complete(dirs[d])
      /\ served' = [served EXCEPT ![h] = new]
      /\ UNCHANGED <<dirs, archives, locks, config, inflight, renewal, req>>
      /\ UNCHANGED <<clock, requests, intrusions>>
  BY DEF Serve, storage, bounds
<1>2. dirs[d].crt \in 1..MaxWrites
  BY <1>0, <1>1, FilesTypes, BoundAssumption DEF TypeOK, Complete
<1>3. new \in Served /\ new.dir = d
  BY <1>2 DEF Served
<1>4. served \in [Hosts -> Served]
  BY <1>0 DEF TypeOK
<1> HIDE DEF new
<1>5. /\ served' \in [Hosts -> Served] /\ served'[h] = new
      /\ \A g \in Hosts \ {h} : served'[g] = served[g]
  BY <1>1, <1>3, <1>4
<1>6. TypeOK'
  BY <1>0, <1>1, <1>5 DEF TypeOK
<1>7. Renewing'
  BY <1>0, <1>1 DEF Renewing
<1>8. ServedCovers'
  BY <1>0, <1>1, <1>3, <1>5 DEF ServedCovers
<1>9. NotServing'
  <2> SUFFICES ASSUME req.pc \in {"manifest", "reread", "rename"}, ~req.overtaken,
                      NEW g \in Affected(SubjectsOf[req.dir], config)
               PROVE  served'[g] # [dir |-> req.dir, crt |-> req.fp]
    BY <1>1 DEF NotServing
  <2>1. d # req.dir
    BY <1>0, <1>1, NotManaged DEF Busy
  <2>2. new # [dir |-> req.dir, crt |-> req.fp]
    BY <1>3, <2>1
  <2>3. served[g] # [dir |-> req.dir, crt |-> req.fp]
    BY <1>0 DEF NotServing
  <2>4. g \in Hosts
    BY <1>0, ConfigHosts DEF TypeOK, Affected
  <2>5. served'[g] = new \/ served'[g] = served[g]
    BY <1>5, <2>4
  <2> QED BY <2>2, <2>3, <2>5
<1> QED BY <1>1, <1>6, <1>7, <1>8, <1>9, StandsStill

LEMMA StartRenewalKeeps ==
  ASSUME IInv, NEW d \in Dirs, StartRenewal(d)
  PROVE  IInv'
<1>0. TypeOK /\ ServedCovers /\ NotServing
  BY DEF IInv
<1>1. /\ clock < MaxWrites /\ clock' = clock + 1
      /\ renewal' = [pc |-> "wait", dir |-> d, version |-> clock + 1]
      /\ UNCHANGED <<dirs, archives, locks, config, inflight, served, req, requests, intrusions>>
  BY DEF StartRenewal, storage
<1>2. clock' \in 1..MaxWrites /\ clock' \in 0..MaxWrites
  BY <1>0, <1>1, BoundAssumption DEF TypeOK
<1>3. renewal' \in Renewals /\ renewal'.pc = "wait"
  BY <1>1, <1>2 DEF Renewals
<1>4. TypeOK'
  BY <1>0, <1>1, <1>2, <1>3 DEF TypeOK
<1>5. Renewing' /\ ServedCovers' /\ NotServing'
  BY <1>0, <1>1, <1>3 DEF Renewing, ServedCovers, NotServing
<1> QED BY <1>1, <1>4, <1>5, StandsStill

LEMMA LockRenewalKeeps ==
  ASSUME IInv, LockRenewal
  PROVE  IInv'
<1>0. TypeOK /\ ServedCovers /\ NotServing
  BY DEF IInv
<1>1. /\ renewal.pc = "wait" /\ locks[renewal.dir] = "free"
      /\ locks' = [locks EXCEPT ![renewal.dir] = "caddy"]
      /\ renewal' = [renewal EXCEPT !.pc = "key"]
      /\ UNCHANGED <<dirs, archives, config, inflight, served, req>>
      /\ UNCHANGED <<clock, requests, intrusions>>
  BY DEF LockRenewal, storage, bounds
<1>2. /\ renewal \in [pc : {"wait", "key", "crt", "json"}, dir : Dirs,
                      version : 1..MaxWrites]
      /\ renewal.dir \in Locks
  BY <1>0, <1>1, RenewalFields
<1>3. renewal' \in Renewals /\ renewal'.dir = renewal.dir
  BY <1>1, <1>2 DEF Renewals
<1>4. /\ locks' \in [Locks -> {"free", "archive", "caddy", "stale"}]
      /\ locks'[renewal.dir] = "caddy"
      /\ \A l \in Locks : locks[l] = "archive" => locks'[l] = "archive"
  BY <1>0, <1>1, <1>2 DEF TypeOK
<1>5. TypeOK'
  BY <1>0, <1>1, <1>3, <1>4 DEF TypeOK
<1>6. Renewing' /\ ServedCovers' /\ NotServing'
  BY <1>0, <1>1, <1>3, <1>4 DEF Renewing, ServedCovers, NotServing
<1> QED BY <1>1, <1>4, <1>5, <1>6, StandsStill

(* The lock that a renewal releases is its own.                            *)
LEMMA WriteRenewedKeeps ==
  ASSUME IInv, NEW file \in {"key", "crt", "json"}, WriteRenewed(file)
  PROVE  IInv'
<1>0. TypeOK /\ ServedCovers /\ NotServing /\ Renewing
  BY DEF IInv
<1>1. /\ renewal.pc = file
      /\ dirs' = [dirs EXCEPT ![renewal.dir][file] = renewal.version]
      /\ UNCHANGED <<archives, config, inflight, served, req>>
      /\ UNCHANGED <<clock, requests, intrusions>>
  BY DEF WriteRenewed, bounds
<1>2. /\ renewal \in [pc : {"wait", "key", "crt", "json"}, dir : Dirs,
                      version : 1..MaxWrites]
      /\ renewal.dir \in Dirs /\ renewal.dir \in Locks
      /\ renewal.version \in 0..MaxWrites
  BY <1>0, <1>1, BoundAssumption, RenewalFields
<1>3. dirs' \in [Dirs -> Files]
  BY <1>0, <1>1, <1>2, FileWritten
<1>4. locks[renewal.dir] = "caddy"
  BY <1>0, <1>1 DEF Renewing
<1>5. /\ locks' \in [Locks -> {"free", "archive", "caddy", "stale"}]
      /\ \A l \in Locks : locks[l] = "archive" => locks'[l] = "archive"
      /\ renewal' \in Renewals /\ Renewing'
  <2>1. CASE file = "json"
    <3>1. renewal' = NoRenewal /\ locks' = [locks EXCEPT ![renewal.dir] = "free"]
      BY <2>1 DEF WriteRenewed
    <3>2. /\ locks' \in [Locks -> {"free", "archive", "caddy", "stale"}]
          /\ \A l \in Locks : locks[l] = "archive" => locks'[l] = "archive"
      BY <1>0, <1>2, <1>4, <3>1 DEF TypeOK
    <3> QED BY <3>1, <3>2 DEF Renewing, Renewals, NoRenewal
  <2>2. CASE file # "json"
    <3>1. renewal' = [renewal EXCEPT !.pc = After(file)] /\ locks' = locks
      BY <2>2 DEF WriteRenewed
    <3>2. After(file) \in {"crt", "json"}
      BY <2>2 DEF After
    <3>3. renewal' \in Renewals /\ renewal'.dir = renewal.dir
      BY <1>2, <3>1, <3>2 DEF Renewals
    <3> QED BY <1>0, <1>4, <3>1, <3>3 DEF Renewing, TypeOK
  <2> QED BY <2>1, <2>2
<1>6. TypeOK'
  BY <1>0, <1>1, <1>3, <1>5 DEF TypeOK
<1>7. ServedCovers' /\ NotServing'
  BY <1>0, <1>1 DEF ServedCovers, NotServing
<1> QED BY <1>1, <1>5, <1>6, <1>7, StandsStill

LEMMA RemoveStaleLockKeeps ==
  ASSUME IInv, NEW l \in Locks, RemoveStaleLock(l)
  PROVE  IInv'
<1>0. TypeOK /\ ServedCovers /\ NotServing /\ Renewing
  BY DEF IInv
<1>1. /\ locks[l] = "stale" /\ locks' = [locks EXCEPT ![l] = "free"]
      /\ UNCHANGED <<dirs, archives, config, inflight, served, renewal, req>>
      /\ UNCHANGED <<clock, requests, intrusions>>
  BY DEF RemoveStaleLock, storage, caddy, bounds
<1>2. /\ locks' \in [Locks -> {"free", "archive", "caddy", "stale"}]
      /\ \A k \in Locks : locks[k] # "stale" => locks'[k] = locks[k]
  BY <1>0, <1>1 DEF TypeOK
<1>3. TypeOK'
  BY <1>0, <1>1, <1>2 DEF TypeOK
<1>4. Renewing'
  BY <1>0, <1>1, <1>2, RenewalFields DEF Renewing
<1>5. ServedCovers' /\ NotServing'
  BY <1>0, <1>1 DEF ServedCovers, NotServing
<1> QED BY <1>1, <1>2, <1>3, <1>4, <1>5, StandsStill

----------------------------------------------------------------------------
(* The invariant.                                                          *)

LEMMA InitHolds == Init => IInv
<1> SUFFICES ASSUME Init PROVE IInv
  OBVIOUS
<1>1. TypeOK
  <2>1. [crt |-> 1, key |-> 1, json |-> 1] \in Files
    BY BoundAssumption DEF Files
  <2>2. NotServed \in Served /\ NoRenewal \in Renewals
    BY DEF Served, Renewals
  <2> QED BY <2>1, <2>2, BoundAssumption, FilesTypes DEF Init, TypeOK
<1>2. Renewing /\ ServedCovers
  BY DEF Init, Renewing, ServedCovers, NoRenewal
<1>3. Frozen /\ Locked /\ NotServing /\ ContentsRead /\ Moved /\ Archived
  BY DEF Init, Frozen, Locked, NotServing, ContentsRead, Moved, Archived, Busy,
         NoRequest
<1> QED BY <1>1, <1>2, <1>3 DEF IInv

LEMMA Stutters ==
  ASSUME IInv, UNCHANGED vars
  PROVE  IInv'
<1>1. UNCHANGED <<dirs, archives, locks, config, inflight, served, renewal, req, clock,
                  requests, intrusions>>
  BY DEF vars, storage, caddy, bounds
<1> QED BY <1>1, OnlyFiles DEF IInv, TypeOK

LEMMA NextKeeps ==
  ASSUME IInv, [Next]_vars
  PROVE  IInv'
<1>1. CASE Request
  BY <1>1, ArchiveKeeps DEF Request
<1>2. CASE Caddy
  BY <1>2, LoadConfigKeeps, LateLoadKeeps, ServeKeeps, StartRenewalKeeps, CleanStorageKeeps,
     RemoveStaleLockKeeps DEF Caddy
<1>3. CASE Renewal
  BY <1>3, LockRenewalKeeps, WriteRenewedKeeps DEF Renewal
<1>4. CASE \E d \in Dirs, file \in {"key", "crt", "json"} : Intrude(d, file)
  BY <1>4, IntrudeKeeps
<1> QED BY <1>1, <1>2, <1>3, <1>4, ContinueKeeps, CrashKeeps, Stutters DEF Next

LEMMA Invariant == Spec => []IInv
BY InitHolds, NextKeeps, PTL DEF Spec

----------------------------------------------------------------------------
(* The theorems.                                                           *)

(* Whatever settings ValidateCertificateConfig accepts and whatever hosts  *)
(* have routes, Render leaves every host of a TLS route a managed          *)
(* certificate that can be obtained, a wildcard with the DNS challenge,    *)
(* but for the hosts under a wildcard route host that is not a subject;    *)
(* state and locks keep their types.                                       *)
THEOREM HostsHaveCertificates == Spec => []PolicySound
<1>1. IInv => PolicySound
  BY ConfigsManaged DEF IInv, TypeOK, PolicySound
<1> QED BY <1>1, Invariant, PTL

(* A request that is about to move a directory is the only one to use it.  *)
LEMMA MoveUnused ==
  ASSUME IInv, req.pc = "rename"
  PROVE  /\ renewal.dir = req.dir => renewal.pc = "wait"
         /\ ~req.overtaken =>
              /\ req.dir \notin ManagedSubjects(config)
              /\ \A h \in config.hosts :
                   served[h] # [dir |-> req.dir, crt |-> req.fp]
<1>0. /\ TypeOK /\ Frozen /\ Locked /\ NotServing /\ ServedCovers /\ Renewing
      /\ Busy /\ req.dir \in Dirs
  BY DEF IInv, Frozen, Busy
<1>1. ~req.overtaken => req.dir \notin ManagedSubjects(config)
  BY <1>0, NotManaged
<1>2. ASSUME ~req.overtaken, NEW h \in config.hosts,
             served[h] = [dir |-> req.dir, crt |-> req.fp]
      PROVE  FALSE
  <2>1. h \in Hosts
    BY <1>0, ConfigHosts DEF TypeOK
  <2>2. served[h] # NotServed /\ served[h].dir = req.dir
    BY <1>0, <1>2, DirAssumption DEF NotServed
  <2>3. Covers(req.dir, h)
    BY <1>0, <2>1, <2>2 DEF ServedCovers
  <2>4. h \in Affected(SubjectsOf[req.dir], config)
    BY <1>0, <2>3, DirAssumption DEF Affected
  <2> QED BY <1>0, <1>2, <2>4 DEF NotServing
<1>3. ASSUME renewal.dir = req.dir
      PROVE  renewal.pc = "wait"
  <2>1. locks[req.dir] = "archive"
    BY <1>0, LockNames DEF Locked
  <2>2. renewal.pc \notin {"key", "crt", "json"}
    BY <1>0, <1>3, <2>1 DEF Renewing
  <2>3. renewal # NoRenewal
    BY <1>0, <1>3, DirAssumption DEF NoRenewal
  <2> QED BY <1>0, <2>2, <2>3 DEF TypeOK, Renewals
<1> QED BY <1>1, <1>2, <1>3

(* At the rename of Inspector.Archive nobody uses what is moved: what was  *)
(* checked before the locks were taken (Classify), and at the handshakes,  *)
(* still holds, whatever Caddy, the operator and crashes did in between.   *)
(* A load that had timed out before, and that Caddy performs while the     *)
(* request holds syncMu, is the one thing that can put the certificate to  *)
(* use again; even then Caddy is not writing its files.                    *)
THEOREM MovesOnlyUnused == Spec => MovedUnused
<1>1. IInv /\ [Next]_vars =>
        [archives' # archives /\ req.pc = "rename" =>
           /\ renewal.dir = req.dir => renewal.pc = "wait"
           /\ ~req.overtaken =>
                /\ req.dir \notin ManagedSubjects(config)
                /\ \A h \in config.hosts :
                     served[h] # [dir |-> req.dir, crt |-> req.fp]]_vars
  BY MoveUnused
<1> QED BY <1>1, Invariant, PTL DEF Spec, MovedUnused

(* A directory with files is kept, there or in the archive.                *)
LEMMA KeptWhere ==
  ASSUME \A d \in Dirs : dirs[d] # NoFiles =>
           \/ dirs'[d] = dirs[d]
           \/ [dir |-> d, files |-> dirs[d]] \in archives',
         \A a \in archives :
           \/ a \in archives'
           \/ a.dir \in Dirs /\ dirs'[a.dir] = a.files /\ a.files # NoFiles
              /\ a = [dir |-> a.dir, files |-> a.files]
  PROVE  Materials \subseteq Materials'
<1> SUFFICES ASSUME NEW m \in Materials
             PROVE  m \in Materials'
  OBVIOUS
<1>1. CASE m \in archives
  BY <1>1 DEF Materials
<1>2. CASE m \notin archives
  <2>1. PICK d \in Dirs : dirs[d] # NoFiles /\ m = [dir |-> d, files |-> dirs[d]]
    BY <1>2 DEF Materials
  <2> QED BY <2>1 DEF Materials
<1> QED BY <1>1, <1>2

LEMMA StepLosesNothing ==
  ASSUME IInv, Next, clock' = clock, renewal' = renewal
  PROVE  Materials \subseteq Materials'
<1>0. TypeOK /\ Moved /\ Frozen /\ Archived
  BY DEF IInv
<1>1. CASE UNCHANGED <<dirs, archives>>
  BY <1>1, KeptWhere
<1>2. CASE Rename
  <2> DEFINE files == dirs[req.dir]
  <2>1. CASE Reject
    BY <1>1, <2>1 DEF Reject, storage
  <2>2. CASE /\ files # NoFiles
             /\ archives' = archives \cup {[dir |-> req.dir, files |-> files]}
             /\ dirs' = [dirs EXCEPT ![req.dir] = NoFiles]
    <3>1. \A d \in Dirs : \/ dirs'[d] = dirs[d]
                          \/ [dir |-> d, files |-> dirs[d]] \in archives'
      BY <1>0, <2>2 DEF TypeOK
    <3> QED BY <2>2, <3>1, KeptWhere
  <2> QED BY <1>2, <2>1, <2>2 DEF Rename
<1>3. CASE Restore
  <2>1. CASE UNCHANGED storage
    BY <1>1, <2>1 DEF storage
  <2>2. CASE /\ dirs[req.dir] = NoFiles
             /\ archives' = archives \ {[dir |-> req.dir, files |-> req.moved]}
             /\ dirs' = [dirs EXCEPT ![req.dir] = req.moved]
    <3>1. req.dir \in Dirs /\ req.moved # NoFiles
      BY <1>0, <1>3 DEF Restore, Frozen, Busy, Moved
    <3>2. \A d \in Dirs : dirs[d] # NoFiles => dirs'[d] = dirs[d]
      BY <1>0, <2>2 DEF TypeOK
    <3>3. dirs'[req.dir] = req.moved
      BY <1>0, <2>2, <3>1 DEF TypeOK
    <3>4. \A a \in archives :
            \/ a \in archives'
            \/ a = [dir |-> req.dir, files |-> req.moved]
      BY <2>2
    <3> QED BY <3>1, <3>2, <3>3, <3>4, KeptWhere
  <2> QED BY <1>3, <2>1, <2>2 DEF Restore, RestoreFree
<1>4. CASE Continue
  BY <1>1, <1>2, <1>3, <1>4
     DEF Continue, TakeLock, LocksTaken, ReadContents, verifyNotServing,
         WriteManifest, Reread, VerifyMove, CheckOriginal, StepFails, Reject, storage
<1>5. CASE Request \/ Crash
  BY <1>1, <1>5 DEF Request, Archive, Crash, storage
<1>6. CASE Caddy
  <2>1. ASSUME NEW d \in Dirs, StartRenewal(d) \/ CleanStorage(d)
        PROVE  clock' # clock
    BY <1>0, <2>1 DEF StartRenewal, CleanStorage, TypeOK
  <2>2. \/ \E c \in Configs : LoadConfig(c) \/ LoadTimesOut(c)
        \/ LateLoad
        \/ \E h \in Hosts, d \in Dirs : Serve(h, d)
        \/ \E l \in Locks : RemoveStaleLock(l)
    BY <1>6, <2>1 DEF Caddy
  <2> QED BY <1>1, <2>2 DEF LoadConfig, LoadTimesOut, LateLoad, Serve, RemoveStaleLock, storage
<1>7. CASE Renewal
  <2>1. CASE LockRenewal
    BY <1>1, <2>1 DEF LockRenewal, storage
  <2>2. ASSUME NEW file \in {"key", "crt", "json"}, WriteRenewed(file)
        PROVE  renewal' # renewal
    <3>1. renewal.pc = file /\ renewal \in [pc : {"wait", "key", "crt", "json"},
                                          dir : Dirs, version : 1..MaxWrites]
      BY <1>0, <2>2, RenewalFields DEF WriteRenewed
    <3>2. CASE file = "json"
      BY <2>2, <3>1, <3>2 DEF WriteRenewed, NoRenewal
    <3>3. CASE file # "json"
      <4>1. renewal'.pc = After(file)
        BY <2>2, <3>1, <3>3 DEF WriteRenewed
      <4> QED BY <3>1, <3>3, <4>1 DEF After
    <3> QED BY <3>2, <3>3
  <2> QED BY <1>7, <2>1, <2>2 DEF Renewal
<1>8. CASE \E d \in Dirs, file \in {"key", "crt", "json"} : Intrude(d, file)
  BY <1>0, <1>8 DEF Intrude, TypeOK
<1> QED BY <1>4, <1>5, <1>6, <1>7, <1>8 DEF Next

(* What the answer of a request is to tell.                                *)
Told ==
  LET new == [dir |-> req.dir, files |-> req.moved]
  IN  CASE req'.result = "archived" ->
             new \in archives' /\ Complete(req.moved) /\ req.moved.crt = req.fp
        [] req'.result \in {"rejected", "restored"} -> new \notin archives'
        [] req'.result = "manual" -> new \in archives'
        [] OTHER -> req'.result = "none"

(* Before the move nothing of the request is in the archive.               *)
LEMMA RejectTold ==
  ASSUME IInv, Busy, Return("rejected"), archives' = archives,
         req.pc \notin {"verify", "check", "restore"}
  PROVE  Told
<1>1. [dir |-> req.dir, files |-> req.moved] \notin archives
  BY DEF IInv, Moved, Archived
<1>2. req'.result = "rejected"
  BY Returned DEF IInv
<1> QED BY <1>1, <1>2 DEF Told

LEMMA EndTold ==
  ASSUME IInv, Next, Busy, req'.pc = "idle"
  PROVE  Told
<1>0. TypeOK /\ Moved /\ ContentsRead /\ Archived
  BY DEF IInv
<1>1. CASE req' = req
  BY <1>1 DEF Busy
<1>2. ASSUME Reject, req.pc \notin {"verify", "check", "restore"}
      PROVE  Told
  BY <1>2, RejectTold DEF Reject, storage
<1>3. ASSUME NEW pc \in {"read", "handshake", "manifest", "reread", "rename",
                         "verify", "check", "restore"}, Go(pc)
      PROVE  FALSE
  BY <1>0, <1>3, GoFields
<1>4. CASE TakeLock
  <2>1. CASE req' = [req EXCEPT !.todo = Tail(@)]
    BY <1>0, <1>4, <2>1, ReqFields DEF TakeLock, Requests
  <2> QED BY <1>2, <1>4, <2>1 DEF TakeLock
<1>5. CASE ReadContents
  <2>1. CASE req' = [req EXCEPT !.pc = "handshake", !.contents = dirs[req.dir]]
    BY <1>0, <2>1, ReqFields DEF Requests
  <2> QED BY <1>2, <1>5, <2>1 DEF ReadContents
<1>6. CASE Rename
  <2>1. CASE req' = [req EXCEPT !.pc = "verify", !.moved = dirs[req.dir]]
    BY <1>0, <2>1, ReqFields DEF Requests
  <2> QED BY <1>2, <1>6, <2>1 DEF Rename
<1>7. CASE LocksTaken \/ verifyNotServing \/ WriteManifest \/ Reread \/ StepFails
  BY <1>2, <1>3, <1>7 DEF LocksTaken, verifyNotServing, WriteManifest, Reread, StepFails
<1>8. CASE VerifyMove \/ CheckOriginal
  <2>1. archives' = archives /\ [dir |-> req.dir, files |-> req.moved] \in archives
    BY <1>0, <1>8 DEF VerifyMove, CheckOriginal, storage, Moved
  <2>2. CASE Return("archived") /\ req.pc = "verify" /\ MovedAsRead
    BY <1>0, <2>1, <2>2, Returned DEF Told, ContentsRead, MovedAsRead
  <2>3. CASE Return("manual")
    BY <1>0, <2>1, <2>3, Returned DEF Told
  <2> QED BY <1>3, <1>8, <2>2, <2>3 DEF VerifyMove, CheckOriginal
<1>9. CASE Restore
  <2>1. [dir |-> req.dir, files |-> req.moved] \in archives
    BY <1>0, <1>9 DEF Restore, Moved
  <2>2. CASE Return("manual") /\ UNCHANGED storage
    BY <1>0, <2>1, <2>2, Returned DEF Told, storage
  <2>3. CASE /\ Return("restored")
             /\ archives' = archives \ {[dir |-> req.dir, files |-> req.moved]}
    BY <1>0, <2>3, Returned DEF Told
  <2> QED BY <1>9, <2>2, <2>3 DEF Restore
<1>10. CASE Crash
  BY <1>10 DEF Crash, NoRequest, Told
<1>11. CASE Request
  BY <1>11 DEF Request, Archive
<1>12. CASE Caddy
  <2>1. CASE LateLoad
    <3>1. req'.pc = req.pc
      BY <1>0, <2>1, ReqFields DEF LateLoad, Requests
    <3> QED BY <3>1 DEF Busy
  <2> QED BY <1>1, <1>12, <2>1 DEF Caddy, LoadConfig, LoadTimesOut, Serve,
             StartRenewal, CleanStorage, RemoveStaleLock
<1>13. CASE Renewal
  BY <1>1, <1>13 DEF Renewal, LockRenewal, WriteRenewed
<1>14. CASE \E d \in Dirs, file \in {"key", "crt", "json"} : Intrude(d, file)
  BY <1>1, <1>14 DEF Intrude
<1>15. CASE Continue
  BY <1>4, <1>5, <1>6, <1>7, <1>8, <1>9, <1>15 DEF Continue
<1> QED BY <1>10, <1>11, <1>12, <1>13, <1>14, <1>15 DEF Next

(* However Inspector.Archive ends, its files are in their directory or in  *)
(* the archive, and its answer tells where: whatever was written by hand   *)
(* between its steps, and although a restoration may find the path taken.  *)
THEOREM ArchivesSafely == Spec => ArchiveSafe
<1>1. IInv /\ [Next]_vars =>
        [<<clock, renewal>>' = <<clock, renewal>> => Materials \subseteq Materials']_vars
  BY StepLosesNothing
<1>2. Spec => NothingLost
  BY <1>1, Invariant, PTL DEF Spec, NothingLost
<1>3. IInv /\ [Next]_vars => [Busy /\ req'.pc = "idle" => Told]_vars
  BY EndTold
<1>4. Spec => OutcomeHonest
  <2>1. Spec => [][Busy /\ req'.pc = "idle" => Told]_vars
    BY <1>3, Invariant, PTL DEF Spec
  <2> QED BY <2>1 DEF OutcomeHonest, Told
<1> QED BY <1>2, <1>4 DEF ArchiveSafe

=============================================================================
