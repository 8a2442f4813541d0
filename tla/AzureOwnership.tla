--------------------------- MODULE AzureOwnership ---------------------------
(***************************************************************************)
(* Several gateways and an operator share DNS zones and a network security *)
(* group (internal/azure).  A gateway draws an identity once, keeps it in  *)
(* its state directory and marks with it what it creates.  One pass of     *)
(* Reconcile is a sequence of calls to Azure, each a step of its own:      *)
(* others write between the Get and the CreateOrUpdate, and between the    *)
(* list and the Delete, of a record.                                       *)
(*                                                                         *)
(* Azure gives a record a new ETag with every change.  An ETag that was    *)
(* read therefore matches as long as nobody has written the record: etag   *)
(* holds, for each gateway, the names whose ETag it has read and that were *)
(* not written since.                                                      *)
(***************************************************************************)
EXTENDS Integers, FiniteSets, SequencesExt

CONSTANTS
  Gateways,          \* processes
  DirOf,             \* the state directory of a process
  Hosts,             \* names are sequences of labels
  Configs,           \* [zones, ip ("" for none), manageDNS, manageNSG]
  PortOf,            \* the listener port of the route of a host
  MaxEdits,          \* bound: changes made by the operator
  MaxApplies,        \* bound: changes of the routes
  MaxFaults          \* bound: failing calls, lost answers and crashes

ASSUME GatewayAssumption == IsFiniteSet(Gateways)
ASSUME NameAssumption == \A h \in Hosts : h \in Seq(STRING)
ASSUME ConfigAssumption ==
  /\ Configs # {}
  /\ \A c \in Configs :
       /\ \A z \in c.zones : z \in Seq(STRING)
       /\ c.ip \in STRING
       /\ c.manageDNS \in BOOLEAN /\ c.manageNSG \in BOOLEAN
ASSUME BoundAssumption ==
  MaxEdits \in Nat /\ MaxApplies \in Nat /\ MaxFaults \in Nat

None == [owner |-> 0, ip |-> "none"]
Other == -1          \* the owner of a record without an identity of ours
Zones == UNION {c.zones : c \in Configs}
IPs == {c.ip : c \in Configs} \ {""}
Dirs == {DirOf[g] : g \in Gateways}
MaxIds == Cardinality(Gateways) + MaxFaults
Ids == 1..MaxIds

----------------------------------------------------------------------------
(* Names of records.                                                       *)

\* relativeRecordName is defined for a host that is the zone or below it.
InZone(host, zone) == IsSuffix(zone, host)

relativeRecordName(host, zone) == SubSeq(host, 1, Len(host) - Len(zone))

\* The longest configured zone the host is in, if there is one.
selectDNSZone(host, zones) ==
  LET matching == {z \in zones : InZone(host, z)}
  IN  {z \in matching : \A y \in matching : Len(y) <= Len(z)}

Desired(hosts, zones) ==
  UNION {{<<z, relativeRecordName(h, z)>> : z \in selectDNSZone(h, zones)} :
           h \in hosts}

Names ==
  UNION {{<<z, relativeRecordName(h, z)>> : z \in {y \in Zones : InZone(h, y)}} :
           h \in Hosts}

HostOf(name) == name[2] \o name[1]

\* No public route, no port; otherwise 80, 443 and the ports of listeners.
publicNSGPorts(hosts) ==
  IF hosts = {} THEN {} ELSE {80, 443} \cup {PortOf[h] : h \in hosts}

----------------------------------------------------------------------------
VARIABLES
  idFile,       \* the identity in a state directory, 0 for none
  drawn,        \* identities drawn so far
  records,      \* the A records of all zones
  rules,        \* for each identity, the security rule of that name
  routes,       \* the public hosts of a gateway's applied routes
  proc,         \* the processes
  etag,         \* names whose ETag a process has read and nobody changed
  touched,      \* what others changed since a process began its pass
  edits, applies, faults

azure == <<records, rules, etag, touched>>
bounds == <<edits, applies, faults>>
vars == <<idFile, drawn, azure, routes, proc, bounds>>

NoRule == [owner |-> 0, ports |-> {}]
Ports == {{}} \cup {publicNSGPorts(hs) : hs \in SUBSET Hosts}

\* id: a temporary identity until it is confirmed, the identity afterwards;
\* todo: names still to be written, then names still to be listed;
\* page: names to delete; name: the record between Get and write;
\* free: the Get found no such record.
Down == [pc |-> "down", id |-> 0, cfg |-> CHOOSE c \in Configs : TRUE,
         hosts |-> {}, todo |-> {}, page |-> {}, name |-> <<>>,
         free |-> FALSE, result |-> "none"]

Record == [owner : Ids \cup {Other}, ip : IPs] \cup {None}
Rule == [owner : Ids \cup {Other}, ports : Ports \ {{}}] \cup {NoRule}
Process ==
  [pc : {"down", "identity", "link", "reread", "idle", "write", "put",
         "cleanup", "rule"},
   id : 0..MaxIds, cfg : Configs, hosts : SUBSET Hosts,
   todo : SUBSET Names, page : SUBSET Names, name : Names \cup {<<>>},
   free : BOOLEAN, result : {"none", "ok", "error"}]

TypeOK ==
  /\ idFile \in [Dirs -> 0..MaxIds] /\ drawn \in 0..MaxIds
  /\ records \in [Names -> Record]
  /\ rules \in [Ids -> Rule]
  /\ routes \in [Gateways -> SUBSET Hosts]
  /\ proc \in [Gateways -> Process]
  /\ etag \in [Gateways -> SUBSET Names]
  /\ touched \in [Gateways -> SUBSET (Names \cup {<<i>> : i \in Ids})]
  /\ edits \in 0..MaxEdits /\ applies \in 0..MaxApplies
  /\ faults \in 0..MaxFaults

Init ==
  /\ idFile = [d \in Dirs |-> 0] /\ drawn = 0
  /\ records = [n \in Names |-> None]
  /\ rules = [i \in Ids |-> NoRule]
  /\ routes \in [Gateways -> SUBSET Hosts]
  /\ proc = [g \in Gateways |-> Down]
  /\ etag = [g \in Gateways |-> {}]
  /\ touched = [g \in Gateways |-> {}]
  /\ edits = 0 /\ applies = 0 /\ faults = 0

At(g, pc) == proc[g].pc = pc
ownsDNSRecord(g, n) == records[n].owner = proc[g].id
ownsNSGRule(g) == rules[proc[g].id].owner = proc[g].id

\* A write of x, a record's name or the identity in a rule's name, by the
\* gateways w makes the ETags of x out of date; passes of others see it.
Written(w, x) ==
  /\ etag' = [g \in Gateways |-> etag[g] \ {x}]
  /\ touched' = [g \in Gateways |->
                   IF w = {g} THEN touched[g] ELSE touched[g] \cup {x}]

----------------------------------------------------------------------------
(* NewManager and loadInstanceID.                                          *)

Start(g, c) ==
  /\ At(g, "down")
  /\ LET stored == idFile[DirOf[g]]
     IN  proc' = [proc EXCEPT ![g] =
                    [Down EXCEPT !.pc = IF stored = 0 THEN "identity" ELSE "idle",
                                 !.cfg = c, !.id = stored]]
  /\ UNCHANGED <<idFile, drawn, azure, routes, bounds>>

\* A random identity goes to a temporary file, which is synced and closed.
DrawIdentity(g) ==
  /\ At(g, "identity")
  /\ drawn' = drawn + 1
  /\ proc' = [proc EXCEPT ![g].pc = "link", ![g].id = drawn + 1]
  /\ UNCHANGED <<idFile, azure, routes, bounds>>

\* Bug: the temporary file is renamed, over the file of another process.
RenameIdentity(g) ==
  /\ At(g, "link")
  /\ idFile' = [idFile EXCEPT ![DirOf[g]] = proc[g].id]
  /\ proc' = [proc EXCEPT ![g].pc = "reread"]
  /\ UNCHANGED <<drawn, azure, routes, bounds>>

\* os.Link creates the file exclusively; ErrExist is not an error.
LinkIdentity(g) ==
  /\ At(g, "link")
  /\ idFile' = [idFile EXCEPT ![DirOf[g]] = IF @ = 0 THEN proc[g].id ELSE @]
  /\ proc' = [proc EXCEPT ![g].pc = "reread"]
  /\ UNCHANGED <<drawn, azure, routes, bounds>>

RereadIdentity(g) ==
  /\ At(g, "reread")
  /\ proc' = [proc EXCEPT ![g].pc = "idle", ![g].id = idFile[DirOf[g]]]
  /\ UNCHANGED <<idFile, drawn, azure, routes, bounds>>

----------------------------------------------------------------------------
(* Reconcile: passes of one process follow each other (azureMu).           *)

Apply(g, hosts) ==
  /\ applies < MaxApplies
  /\ routes[g] # hosts
  /\ routes' = [routes EXCEPT ![g] = hosts]
  /\ applies' = applies + 1
  /\ UNCHANGED <<idFile, drawn, azure, proc, edits, faults>>

\* Public routes need an address for their records.
NoAddress(g, hosts) ==
  proc[g].cfg.manageDNS /\ hosts # {} /\ proc[g].cfg.ip = ""

\* publicAzureRoutes; hosts outside all zones only cause a warning.
Reconcile(g) ==
  /\ At(g, "idle")
  /\ LET dns == proc[g].cfg.manageDNS
         begun == [proc[g] EXCEPT
           !.pc = IF dns THEN "write" ELSE "cleanup",
           !.hosts = routes[g],
           !.todo = IF dns THEN Desired(routes[g], proc[g].cfg.zones) ELSE {},
           !.result = "none"]
     IN  proc' = [proc EXCEPT ![g] =
           IF NoAddress(g, routes[g])
           THEN [@ EXCEPT !.hosts = routes[g], !.result = "error"] ELSE begun]
  /\ touched' = [touched EXCEPT ![g] = {}]
  /\ UNCHANGED <<idFile, drawn, records, rules, etag, routes, bounds>>

DesiredBy(g) == Desired(proc[g].hosts, proc[g].cfg.zones)
InScope(g) == {n \in Names : n[1] \in proc[g].cfg.zones}
Wanted(g) == [owner |-> proc[g].id, ip |-> proc[g].cfg.ip]

Ended(g, r) ==
  proc' = [proc EXCEPT ![g].pc = "idle", ![g].todo = {}, ![g].page = {},
                       ![g].name = <<>>, ![g].free = FALSE, ![g].result = r]

\* The pass returns at the first error.
Fail(g) ==
  /\ Ended(g, "error")
  /\ etag' = [etag EXCEPT ![g] = {}]
  /\ UNCHANGED <<idFile, drawn, records, rules, touched, routes>>

\* Bug: what a host has in another zone is deleted before its new record is
\* written.
GetAfterDelete(g, n) ==
  LET others == {m \in Names : /\ HostOf(m) = HostOf(n) /\ m # n
                               /\ ownsDNSRecord(g, m)}
  IN  /\ At(g, "write") /\ n \in proc[g].todo
      /\ records[n] = None
      /\ proc' = [proc EXCEPT ![g].pc = "put", ![g].name = n, ![g].free = TRUE]
      /\ records' = [m \in Names |-> IF m \in others THEN None ELSE records[m]]
      /\ etag' = [etag EXCEPT ![g] = {}]
      /\ UNCHANGED <<idFile, drawn, rules, touched, routes, bounds>>

\* Get of the record of one desired name, and what follows from it.
GetRecord(g, n) ==
  /\ At(g, "write") /\ n \in proc[g].todo
  /\ UNCHANGED bounds
  /\ \/ /\ records[n] # None /\ ~ownsDNSRecord(g, n)
        /\ Fail(g)
     \/ /\ records[n] = Wanted(g)
        /\ proc' = [proc EXCEPT ![g].todo = @ \ {n}]
        /\ UNCHANGED <<idFile, drawn, azure, routes>>
     \/ /\ records[n] # Wanted(g)
        /\ records[n] = None \/ ownsDNSRecord(g, n)
        /\ proc' = [proc EXCEPT ![g].pc = "put", ![g].name = n,
                                ![g].free = (records[n] = None)]
        /\ etag' = [etag EXCEPT ![g] = IF records[n] = None THEN {} ELSE {n}]
        /\ UNCHANGED <<idFile, drawn, records, rules, touched, routes>>

\* Bug: the write is unconditional.
AlwaysAccepted(g, n) == g \in Gateways /\ n \in Names

\* Bug: every write is sent with If-None-Match: *.
OnlyCreates(g, n) == g \in Gateways /\ records[n] = None

\* If-None-Match: * for a name that was free, If-Match with the ETag read.
PreconditionHolds(g, n) ==
  IF proc[g].free THEN records[n] = None ELSE n \in etag[g]

PutRecord(g) ==
  /\ At(g, "put")
  /\ UNCHANGED bounds
  /\ LET n == proc[g].name
     IN  \/ /\ ~PreconditionHolds(g, n)
            /\ Fail(g)
         \/ /\ PreconditionHolds(g, n)
            /\ records' = [records EXCEPT ![n] = Wanted(g)]
            /\ Written({g}, n)
            /\ proc' = [proc EXCEPT ![g].pc = "write", ![g].name = <<>>,
                                    ![g].free = FALSE, ![g].todo = @ \ {n}]
            /\ UNCHANGED <<idFile, drawn, rules, routes>>

----------------------------------------------------------------------------
(* cleanupDNS: the names of a zone come in pages of any size.  What is on a *)
(* page is deleted before the next page is asked for.                      *)

StartCleanup(g) ==
  /\ At(g, "write") /\ proc[g].todo = {}
  /\ proc' = [proc EXCEPT ![g].pc = "cleanup", ![g].todo = InScope(g)]
  /\ UNCHANGED <<idFile, drawn, azure, routes, bounds>>

\* Bug: a record is kept if its host is still served, in whatever zone.
StaleByHost(g) ==
  {n \in Names : ownsDNSRecord(g, n) /\ HostOf(n) \notin proc[g].hosts}

\* The records clean-up deletes.
Stale(g) == {n \in Names : ownsDNSRecord(g, n) /\ n \notin DesiredBy(g)}

ListPage(g, listed) ==
  /\ At(g, "cleanup") /\ proc[g].page = {}
  /\ listed # {}
  /\ proc' = [proc EXCEPT ![g].todo = @ \ listed,
                          ![g].page = listed \cap Stale(g)]
  /\ etag' = [etag EXCEPT ![g] = listed \cap Stale(g)]
  /\ UNCHANGED <<idFile, drawn, records, rules, touched, routes, bounds>>

\* A record that is already gone counts as deleted.
DeleteRecord(g, n) ==
  /\ At(g, "cleanup") /\ n \in proc[g].page
  /\ UNCHANGED bounds
  /\ \/ /\ records[n] # None /\ n \notin etag[g]
        /\ Fail(g)
     \/ /\ records[n] = None
        /\ proc' = [proc EXCEPT ![g].page = @ \ {n}]
        /\ UNCHANGED <<idFile, drawn, azure, routes>>
     \/ /\ n \in etag[g]
        /\ records' = [records EXCEPT ![n] = None]
        /\ Written({g}, n)
        /\ proc' = [proc EXCEPT ![g].page = @ \ {n}]
        /\ UNCHANGED <<idFile, drawn, rules, routes>>

----------------------------------------------------------------------------
(* reconcileNSG: one rule, named after the identity.  The interface has no *)
(* conditional write here.                                                 *)

\* Bug: without public routes the rule stays, with no ports.
RuleWithoutPorts(g) ==
  [owner |-> proc[g].id, ports |-> publicNSGPorts(proc[g].hosts)]

WantedRule(g) ==
  LET ports == publicNSGPorts(proc[g].hosts)
  IN  IF ports = {} THEN NoRule ELSE [owner |-> proc[g].id, ports |-> ports]

GetRule(g) ==
  /\ At(g, "cleanup") /\ proc[g].page = {} /\ proc[g].todo = {}
  /\ UNCHANGED bounds
  /\ LET rule == rules[proc[g].id]
         managed == proc[g].cfg.manageNSG
     IN  \/ /\ managed /\ rule # NoRule /\ ~ownsNSGRule(g)
            /\ Fail(g)
         \/ /\ managed => rule = WantedRule(g)
            /\ Ended(g, "ok")
            /\ UNCHANGED <<idFile, drawn, azure, routes>>
         \/ /\ managed /\ rule # WantedRule(g)
            /\ rule = NoRule \/ ownsNSGRule(g)
            /\ proc' = [proc EXCEPT ![g].pc = "rule"]
            /\ UNCHANGED <<idFile, drawn, azure, routes>>

nsgRuleName(g) == proc[g].id

RuleWritten(g) ==
  /\ rules' = [rules EXCEPT ![nsgRuleName(g)] = WantedRule(g)]
  /\ Written({g}, <<nsgRuleName(g)>>)

\* BeginCreateOrUpdate and the wait for its end.
PutRule(g) ==
  /\ At(g, "rule") /\ WantedRule(g) # NoRule
  /\ RuleWritten(g)
  /\ Ended(g, "ok")
  /\ UNCHANGED <<idFile, drawn, records, routes, bounds>>

\* BeginDelete; a rule that is already gone is not an error.
DeleteRule(g) ==
  /\ At(g, "rule") /\ WantedRule(g) = NoRule
  /\ RuleWritten(g)
  /\ Ended(g, "ok")
  /\ UNCHANGED <<idFile, drawn, records, routes, bounds>>

----------------------------------------------------------------------------
(* Faults and the operator.                                                *)

Calling(g) == ~At(g, "down") /\ ~At(g, "idle")

\* A call fails without effect, the pass is cancelled, an answer carries no
\* ETag, or, while the identity is loaded, the process gives up.
CallFails(g) ==
  /\ Calling(g)
  /\ faults < MaxFaults /\ faults' = faults + 1
  /\ UNCHANGED <<edits, applies>>
  /\ IF proc[g].pc \in {"identity", "link", "reread"}
     THEN /\ proc' = [proc EXCEPT ![g] = Down]
          /\ UNCHANGED <<idFile, drawn, azure, routes>>
     ELSE Fail(g)

\* A write is performed and its answer is lost.
AnswerLost(g) ==
  /\ faults < MaxFaults /\ faults' = faults + 1
  /\ Ended(g, "error")
  /\ UNCHANGED <<idFile, drawn, routes, edits, applies>>
  /\ \/ /\ At(g, "put") /\ PreconditionHolds(g, proc[g].name)
        /\ records' = [records EXCEPT ![proc[g].name] = Wanted(g)]
        /\ Written({g}, proc[g].name)
        /\ UNCHANGED rules
     \/ /\ At(g, "cleanup")
        /\ \E n \in proc[g].page \cap etag[g] :
             /\ records' = [records EXCEPT ![n] = None]
             /\ Written({g}, n)
        /\ UNCHANGED rules
     \/ /\ At(g, "rule")
        /\ RuleWritten(g)
        /\ UNCHANGED records

Crash(g) ==
  /\ ~At(g, "down")
  /\ faults < MaxFaults /\ faults' = faults + 1
  /\ proc' = [proc EXCEPT ![g] = Down]
  /\ etag' = [etag EXCEPT ![g] = {}]
  /\ UNCHANGED <<idFile, drawn, records, rules, touched, routes,
                 edits, applies>>

\* The operator creates, changes, hands over or removes a record.
EditRecord(n, r) ==
  /\ edits < MaxEdits /\ edits' = edits + 1
  /\ records[n] # r
  /\ records' = [records EXCEPT ![n] = r]
  /\ Written({}, n)
  /\ UNCHANGED <<idFile, drawn, rules, routes, proc, applies, faults>>

\* The operator removes a rule, or makes it another's.
EditRule(i) ==
  /\ edits < MaxEdits /\ edits' = edits + 1
  /\ rules[i] # NoRule
  /\ \E r \in {NoRule, [rules[i] EXCEPT !.owner = Other]} :
       rules' = [rules EXCEPT ![i] = r]
  /\ Written({}, <<i>>)
  /\ UNCHANGED <<idFile, drawn, records, routes, proc, applies, faults>>

Step(g) ==
  \/ \E c \in Configs : Start(g, c)
  \/ DrawIdentity(g) \/ LinkIdentity(g) \/ RereadIdentity(g)
  \/ Reconcile(g)
  \/ \E n \in Names : GetRecord(g, n) \/ DeleteRecord(g, n)
  \/ PutRecord(g)
  \/ StartCleanup(g)
  \/ \E listed \in SUBSET proc[g].todo : ListPage(g, listed)
  \/ GetRule(g) \/ PutRule(g) \/ DeleteRule(g)

Disturbance ==
  \/ \E g \in Gateways : CallFails(g) \/ AnswerLost(g) \/ Crash(g)
  \/ \E g \in Gateways, hosts \in SUBSET Hosts : Apply(g, hosts)
  \/ \E n \in Names, o \in 1..drawn \cup {Other}, ip \in IPs :
       EditRecord(n, [owner |-> o, ip |-> ip])
  \/ \E n \in Names : EditRecord(n, None)
  \/ \E i \in Ids : EditRule(i)

Next == Disturbance \/ \E g \in Gateways : Step(g)

Spec == Init /\ [][Next]_vars

\* The loop of the reconciler starts passes for ever and a pass goes on
\* unless a call of it fails.
FairSpec == Spec /\ \A g \in Gateways : WF_vars(Step(g))

----------------------------------------------------------------------------
(* Properties.                                                             *)

Loaded(g) == proc[g].pc \notin {"down", "identity", "link", "reread"}

\* loadInstanceID: processes that race for the identity file of a state
\* directory, fail or die half way end up with one identity, and gateways
\* with directories of their own never with the same.
IdentityExact ==
  \A g, h \in {x \in Gateways : Loaded(x)} :
    proc[g].id = proc[h].id <=> DirOf[g] = DirOf[h]

\* Reconcile changes or deletes a DNS record only if the record carries the
\* gateway's identity at that very moment, however long ago it was read, and
\* writes no security rule but the one named after its identity.
ForeignUntouched ==
  [][edits' = edits =>
       /\ \A n \in Names : records'[n] # records[n] =>
            \E g \in Gateways :
              proc'[g] # proc[g] /\ (records[n] = None \/ ownsDNSRecord(g, n))
       /\ \A i \in Ids : rules'[i] # rules[i] =>
            \E g \in Gateways : proc'[g] # proc[g] /\ proc[g].id = i]_vars

\* A pass that reports no error has done its work: apart from what others
\* changed since it began, the records with the gateway's identity in its
\* zones are those of its routes, with its address, and its security rule
\* opens exactly the ports of its routes.
PassComplete ==
  \A g \in {x \in Gateways : At(x, "idle") /\ proc[x].result = "ok"} :
    /\ proc[g].cfg.manageDNS =>
         \A n \in InScope(g) \ touched[g] :
           IF n \in DesiredBy(g) THEN records[n] = Wanted(g)
                                ELSE ~ownsDNSRecord(g, n)
    /\ proc[g].cfg.manageNSG /\ <<proc[g].id>> \notin touched[g] =>
         rules[proc[g].id] = WantedRule(g)

\* The state of a pass is within its types and its result is true.
PassesSound == TypeOK /\ PassComplete

\* When a host moves to a more specific zone, clean-up removes its old
\* record only after the new one has been there: the name keeps resolving.
NoGap ==
  [][\A g \in Gateways, n \in Names :
       /\ edits' = edits /\ proc'[g] # proc[g] /\ HostOf(n) \in proc[g].hosts
       /\ records[n] # None /\ records'[n] = None
       => \E m \in DesiredBy(g) :
            HostOf(m) = HostOf(n) /\ (records[m] # None \/ m \in touched[g])]_vars

\* The two promises about records at every single call of a pass: those of
\* others are left alone and those of served hosts are never missing.
RecordsSafe == ForeignUntouched /\ NoGap

\* A name of the gateway's belongs to another, or there is no address.
Blocked(g) ==
  \/ NoAddress(g, proc[g].hosts)
  \/ /\ proc[g].cfg.manageDNS
     /\ \E n \in DesiredBy(g) : records[n] # None /\ ~ownsDNSRecord(g, n)
  \/ /\ proc[g].cfg.manageNSG
     /\ rules[proc[g].id] # NoRule /\ ~ownsNSGRule(g)

\* Passes are repeated by the background loop.  Once operator, routes and
\* Azure are quiet, the passes of every gateway that runs succeed from some
\* moment on, or it is held up by a record or rule of another or by a missing
\* address, which the result reports.
PassesConverge ==
  \A g \in Gateways : <>[]~At(g, "down") =>
    /\ []<>(At(g, "idle") /\ proc[g].hosts = routes[g])
    /\ <>[](At(g, "idle") => proc[g].result = IF Blocked(g) THEN "error" ELSE "ok")
=============================================================================
