------------------------ MODULE AzureOwnershipProofs ------------------------
(***************************************************************************)
(* Theorems about AzureOwnership for any number of gateways, state         *)
(* directories, zones, hosts and configurations, and any number of edits   *)
(* of the operator, failing calls and crashes.                             *)
(***************************************************************************)
EXTENDS AzureOwnership, FiniteSetTheorems, SequenceTheorems,
        WellFoundedInduction, TLAPS

(* A process draws at most one identity between two faults.                *)
Undrawn == {g \in Gateways : proc[g].pc \in {"down", "identity"}}
Draws == drawn + Cardinality(Undrawn) <= Cardinality(Gateways) + faults

(* An identity is in one file or with the one process that is about to     *)
(* link it.                                                                *)
Identities ==
  /\ \A d \in Dirs : idFile[d] <= drawn
  /\ \A d, e \in Dirs : idFile[d] = idFile[e] /\ idFile[d] # 0 => d = e
  /\ \A g \in Gateways : At(g, "link") =>
       /\ proc[g].id # 0 /\ proc[g].id <= drawn
       /\ \A d \in Dirs : idFile[d] # proc[g].id
       /\ \A h \in Gateways \ {g} :
            At(h, "link") => proc[h].id # proc[g].id
  /\ \A g \in Gateways : At(g, "reread") => idFile[DirOf[g]] # 0
  /\ \A g \in Gateways : Loaded(g) =>
       proc[g].id = idFile[DirOf[g]] /\ proc[g].id # 0

(* An ETag that still matches is that of a record of the gateway.          *)
Tags ==
  \A g \in Gateways : etag[g] # {} =>
    Loaded(g) /\ \A n \in etag[g] : ownsDNSRecord(g, n)

(* Up to where a pass has come.                                            *)
UpToDate(g, n) == records[n] = Wanted(g) \/ n \in touched[g]

Cleaned(g, n) ==
  \/ n \in proc[g].todo \/ n \in proc[g].page \/ n \in touched[g]
  \/ ~ownsDNSRecord(g, n)

Writing(g) == At(g, "write") \/ At(g, "put")
Succeeded(g) == At(g, "idle") /\ proc[g].result = "ok"
Cleaning(g) == At(g, "cleanup") \/ At(g, "rule") \/ Succeeded(g)

WritesDone(g) ==
  Writing(g) =>
    /\ proc[g].cfg.manageDNS
    /\ proc[g].hosts # {} => proc[g].cfg.ip # ""
    /\ proc[g].todo \subseteq DesiredBy(g) /\ proc[g].page = {}
    /\ \A n \in DesiredBy(g) \ proc[g].todo : UpToDate(g, n)
    /\ At(g, "put") => proc[g].name \in proc[g].todo

CleaningDone(g) ==
  Cleaning(g) =>
    /\ proc[g].todo \subseteq InScope(g)
    /\ proc[g].page \subseteq InScope(g) \ DesiredBy(g)
    /\ proc[g].cfg.manageDNS =>
         /\ \A n \in DesiredBy(g) : UpToDate(g, n)
         /\ \A n \in InScope(g) \ DesiredBy(g) : Cleaned(g, n)
    /\ ~proc[g].cfg.manageDNS => proc[g].todo = {} /\ proc[g].page = {}

RuleDone(g) ==
  Succeeded(g) /\ proc[g].cfg.manageNSG /\ <<proc[g].id>> \notin touched[g] =>
    rules[proc[g].id] = WantedRule(g)

Resting(g) ==
  /\ proc[g].pc \notin {"write", "put", "cleanup"} =>
       proc[g].todo = {} /\ proc[g].page = {}
  /\ ~Loaded(g) => proc[g].result = "none"

PassOf(g) == WritesDone(g) /\ CleaningDone(g) /\ RuleDone(g) /\ Resting(g)

Passes == \A g \in Gateways : PassOf(g)

IInv == TypeOK /\ Draws /\ Identities /\ Tags /\ Passes
----------------------------------------------------------------------------
(* Types.                                                                  *)

(* The desired records of a process are records of its zones.              *)
LEMMA DesiredNames ==
  ASSUME NEW hosts \in SUBSET Hosts, NEW c \in Configs
  PROVE  /\ Desired(hosts, c.zones) \subseteq Names
         /\ \A n \in Desired(hosts, c.zones) : n[1] \in c.zones
<1>1. c.zones \subseteq Zones
  BY DEF Zones
<1>2. ASSUME NEW n \in Desired(hosts, c.zones)
      PROVE  n \in Names /\ n[1] \in c.zones
  <2>1. PICK h \in hosts : \E z \in selectDNSZone(h, c.zones) :
                             n = <<z, relativeRecordName(h, z)>>
    BY <1>2 DEF Desired
  <2>2. PICK z \in selectDNSZone(h, c.zones) : n = <<z, relativeRecordName(h, z)>>
    BY <2>1
  <2>3. z \in c.zones /\ InZone(h, z)
    BY <2>2 DEF selectDNSZone
  <2>4. h \in Hosts /\ z \in Zones
    BY <1>1, <2>3
  <2>5. n \in Names
    BY <2>2, <2>3, <2>4 DEF Names
  <2> QED BY <2>2, <2>3, <2>5
<1> QED BY <1>2

(* Numbers of identities.                                                  *)
LEMMA IdBounds == /\ Cardinality(Gateways) \in Nat /\ MaxIds \in Nat
                  /\ MaxFaults \in Nat
                  /\ MaxIds = Cardinality(Gateways) + MaxFaults
BY GatewayAssumption, FS_CardinalityType, BoundAssumption DEF MaxIds

LEMMA DownProcess == /\ Down \in Process /\ Down.pc = "down" /\ Down.id = 0
                     /\ Down.todo = {} /\ Down.page = {} /\ Down.name = <<>>
                     /\ Down.result = "none" /\ Down.free = FALSE
<1>1. (CHOOSE c \in Configs : TRUE) \in Configs
  BY ConfigAssumption
<1> QED BY <1>1, IdBounds DEF Down, Process

(* What a process in its types is.                                         *)
LEMMA Fields ==
  ASSUME TypeOK, NEW g \in Gateways
  PROVE  /\ proc[g] \in Process /\ proc[g].cfg \in Configs
         /\ proc[g].id \in 0..MaxIds /\ proc[g].id \in Int
         /\ proc[g].hosts \in SUBSET Hosts /\ proc[g].todo \in SUBSET Names
         /\ proc[g].page \in SUBSET Names
         /\ proc[g].free \in BOOLEAN
         /\ proc[g].cfg.manageDNS \in BOOLEAN /\ proc[g].cfg.manageNSG \in BOOLEAN
         /\ DirOf[g] \in Dirs
         /\ DesiredBy(g) \subseteq InScope(g) /\ InScope(g) \subseteq Names
<1>1. proc[g] \in Process
  BY DEF TypeOK
<1>2. /\ proc[g].cfg \in Configs /\ proc[g].id \in 0..MaxIds
      /\ proc[g].hosts \in SUBSET Hosts /\ proc[g].todo \in SUBSET Names
      /\ proc[g].page \in SUBSET Names /\ proc[g].free \in BOOLEAN
  BY <1>1 DEF Process
<1>3. DirOf[g] \in Dirs
  BY DEF Dirs
<1>4. DesiredBy(g) \subseteq InScope(g) /\ InScope(g) \subseteq Names
  BY <1>2, DesiredNames DEF DesiredBy, InScope
<1>5. proc[g].cfg.manageDNS \in BOOLEAN /\ proc[g].cfg.manageNSG \in BOOLEAN
  BY <1>2, ConfigAssumption
<1>6. proc[g].id \in Int
  BY <1>2, IdBounds
<1> QED BY <1>1, <1>2, <1>3, <1>4, <1>5, <1>6

----------------------------------------------------------------------------
(* What an action of one process leaves alone.                             *)

(* A step within a pass: the process has its identity and keeps it.        *)
PassStep(g) ==
  /\ Loaded(g) /\ Loaded(g)'
  /\ proc'[g].id = proc[g].id
  /\ \A h \in Gateways \ {g} : proc'[h] = proc[h]
  /\ idFile' = idFile /\ drawn' = drawn
  /\ faults' \in Nat /\ faults <= faults'

LEMMA UndrawnFinite ==
  IsFiniteSet(Undrawn) /\ Cardinality(Undrawn) \in Nat
<1>1. Undrawn \subseteq Gateways
  BY DEF Undrawn
<1> QED BY <1>1, GatewayAssumption, FS_Subset, FS_CardinalityType

LEMMA PassKeepsDraws ==
  ASSUME TypeOK, Draws, NEW g \in Gateways, PassStep(g)
  PROVE  Draws'
<1>1. Undrawn' = Undrawn
  BY DEF Undrawn, PassStep, Loaded
<1>2. faults \in Int /\ drawn \in Int
  BY IdBounds DEF TypeOK
<1>3. drawn' = drawn /\ faults' \in Nat /\ faults <= faults'
  BY DEF PassStep
<1> QED BY <1>1, <1>2, <1>3, UndrawnFinite, IdBounds DEF Draws

LEMMA PassKeepsIdentities ==
  ASSUME TypeOK, Identities, NEW g \in Gateways, PassStep(g)
  PROVE  Identities'
<1>1. idFile' = idFile /\ drawn' = drawn
  BY DEF PassStep
<1>2. \A h \in Gateways : (At(h, "link"))' => At(h, "link") /\ proc'[h] = proc[h]
  BY DEF PassStep, Loaded, At
<1>3. \A h \in Gateways : (At(h, "reread"))' => At(h, "reread")
  BY DEF PassStep, Loaded, At
<1>4. \A h \in Gateways : Loaded(h)' => Loaded(h) /\ proc'[h].id = proc[h].id
  BY DEF PassStep, Loaded
<1> QED BY <1>1, <1>2, <1>3, <1>4 DEF Identities

(* ETags are forgotten, or still those of the same records.                *)
LEMMA TagsKept ==
  ASSUME Tags,
         \A h \in Gateways :
           \/ etag'[h] = {}
           \/ /\ etag'[h] \subseteq etag[h] /\ Loaded(h)'
              /\ proc'[h].id = proc[h].id
              /\ \A n \in etag'[h] : records'[n] = records[n]
  PROVE  Tags'
BY DEF Tags, ownsDNSRecord

(* A pass stands where it stood if others changed only what it has in      *)
(* touched.                                                                *)
LEMMA OthersPass ==
  ASSUME TypeOK, NEW h \in Gateways, PassOf(h), proc'[h] = proc[h],
         touched[h] \subseteq touched'[h],
         \A n \in Names : records'[n] # records[n] => n \in touched'[h],
         \A i \in Ids : rules'[i] # rules[i] => <<i>> \in touched'[h],
         Loaded(h) => proc[h].id \in Ids
  PROVE  PassOf(h)'
<1>1. DesiredBy(h)' = DesiredBy(h) /\ InScope(h)' = InScope(h)
  BY DEF DesiredBy, InScope
<1>2. DesiredBy(h) \subseteq Names /\ InScope(h) \subseteq Names
  BY Fields
<1>3. Wanted(h)' = Wanted(h) /\ WantedRule(h)' = WantedRule(h)
  BY DEF Wanted, WantedRule
<1>4. \A n \in Names : UpToDate(h, n) => UpToDate(h, n)'
  BY <1>3 DEF UpToDate
<1>5. \A n \in Names : Cleaned(h, n) => Cleaned(h, n)'
  BY DEF Cleaned, ownsDNSRecord
<1>6. WritesDone(h)'
  BY <1>1, <1>2, <1>4 DEF WritesDone, PassOf, Writing, At
<1>7. CleaningDone(h)'
  <2>1. CleaningDone(h) BY DEF PassOf
  <2>2. Cleaning(h)' = Cleaning(h) BY DEF Cleaning, Succeeded, At
  <2>3. At(h, "cleanup")' = At(h, "cleanup") BY DEF At
  <2> QED BY <1>1, <1>2, <1>4, <1>5, <2>1, <2>2, <2>3 DEF CleaningDone
<1>8. RuleDone(h)'
  <2>1. RuleDone(h) BY DEF PassOf
  <2>2. Succeeded(h)' = Succeeded(h) BY DEF Succeeded, At
  <2>3. Succeeded(h) => proc[h].id \in Ids
    BY DEF Succeeded, At, Loaded
  <2> QED BY <1>3, <2>1, <2>2, <2>3 DEF RuleDone
<1>9. Resting(h)'
  BY DEF PassOf, Resting, Loaded
<1> QED BY <1>6, <1>7, <1>8, <1>9 DEF PassOf

(* A process that has its identity has one.                                *)
LEMMA LoadedId ==
  ASSUME TypeOK, Identities, NEW g \in Gateways, Loaded(g)
  PROVE  proc[g].id \in Ids /\ proc[g].id # 0
<1>1. proc[g].id # 0
  BY DEF Identities
<1> QED BY <1>1, Fields, IdBounds DEF Ids

(* What changed in Azure is known to the passes of all but g.              *)
SeenByOthers(g) ==
  \A h \in Gateways \ {g} :
    /\ touched[h] \subseteq touched'[h]
    /\ \A n \in Names : records'[n] # records[n] => n \in touched'[h]
    /\ \A i \in Ids : rules'[i] # rules[i] => <<i>> \in touched'[h]

(* The parts of the invariant that a step of a pass of g has to show.      *)
LEMMA PassFrame ==
  ASSUME IInv, NEW g \in Gateways, PassStep(g), SeenByOthers(g),
         TypeOK', Tags', PassOf(g)'
  PROVE  IInv'
<1>1. TypeOK /\ Draws /\ Identities /\ Passes
  BY DEF IInv
<1>2. Draws' /\ Identities'
  BY <1>1, PassKeepsDraws, PassKeepsIdentities
<1>3. ASSUME NEW h \in Gateways, h # g
      PROVE  PassOf(h)'
  <2>1. PassOf(h) /\ proc'[h] = proc[h]
    BY <1>1, <1>3 DEF Passes, PassStep
  <2>2. Loaded(h) => proc[h].id \in Ids
    BY <1>1, LoadedId
  <2> QED BY <1>1, <1>3, <2>1, <2>2, OthersPass DEF SeenByOthers
<1>4. Passes'
  BY <1>3 DEF Passes
<1> QED BY <1>2, <1>4 DEF IInv

(* Nothing changed in Azure.                                               *)
LEMMA NothingSeen ==
  ASSUME NEW g \in Gateways, records' = records, rules' = rules,
         \A h \in Gateways \ {g} : touched'[h] = touched[h]
  PROVE  SeenByOthers(g)
BY DEF SeenByOthers

LEMMA WrittenTypes ==
  ASSUME TypeOK, NEW w, NEW x \in Names \cup {<<i>> : i \in Ids}, Written(w, x)
  PROVE  /\ etag' \in [Gateways -> SUBSET Names]
         /\ touched' \in [Gateways -> SUBSET (Names \cup {<<i>> : i \in Ids})]
         /\ \A h \in Gateways : etag'[h] = etag[h] \ {x}
         /\ \A h \in Gateways : touched'[h] =
              IF w = {h} THEN touched[h] ELSE touched[h] \cup {x}
BY DEF TypeOK, Written

(* A record's name is written by g.                                        *)
LEMMA RecordWrittenFrame ==
  ASSUME TypeOK, Tags, NEW g \in Gateways, PassStep(g), NEW n \in Names,
         NEW r \in Record, Written({g}, n),
         records' = [records EXCEPT ![n] = r], rules' = rules
  PROVE  /\ SeenByOthers(g) /\ Tags'
         /\ records' \in [Names -> Record] /\ records'[n] = r
         /\ \A m \in Names : m # n => records'[m] = records[m]
         /\ touched'[g] = touched[g]
         /\ etag' \in [Gateways -> SUBSET Names]
         /\ touched' \in [Gateways -> SUBSET (Names \cup {<<i>> : i \in Ids})]
<1>1. /\ \A h \in Gateways : etag'[h] = etag[h] \ {n}
      /\ \A h \in Gateways : touched'[h] =
           IF {g} = {h} THEN touched[h] ELSE touched[h] \cup {n}
      /\ etag' \in [Gateways -> SUBSET Names]
      /\ touched' \in [Gateways -> SUBSET (Names \cup {<<i>> : i \in Ids})]
  BY WrittenTypes
<1>2. /\ records' \in [Names -> Record] /\ records'[n] = r
      /\ \A m \in Names : m # n => records'[m] = records[m]
  BY DEF TypeOK
<1>3. SeenByOthers(g)
  BY <1>1, <1>2 DEF SeenByOthers
<1>4. ASSUME NEW h \in Gateways, etag'[h] # {}
      PROVE  /\ etag'[h] \subseteq etag[h] /\ Loaded(h)'
             /\ proc'[h].id = proc[h].id
             /\ \A m \in etag'[h] : records'[m] = records[m]
  <2>1. etag[h] \subseteq Names
    BY DEF TypeOK
  <2>2. Loaded(h)
    BY <1>1, <1>4 DEF Tags
  <2>3. Loaded(h)' /\ proc'[h].id = proc[h].id
    BY <2>2 DEF PassStep, Loaded
  <2> QED BY <1>1, <1>2, <2>1, <2>3
<1>5. Tags'
  BY <1>4, TagsKept
<1> QED BY <1>1, <1>2, <1>3, <1>5

(* The security rule named after the identity of g is written.             *)
LEMMA WantedRuleType ==
  ASSUME TypeOK, Identities, NEW g \in Gateways, Loaded(g)
  PROVE  WantedRule(g) \in Rule
<1>1. proc[g].id \in Ids /\ proc[g].hosts \in SUBSET Hosts
  BY Fields, LoadedId
<1>2. publicNSGPorts(proc[g].hosts) \in Ports
  BY <1>1 DEF Ports
<1> QED BY <1>1, <1>2 DEF WantedRule, Rule

LEMMA RuleWrittenFrame ==
  ASSUME TypeOK, Tags, Identities, NEW g \in Gateways, PassStep(g),
         RuleWritten(g), records' = records
  PROVE  /\ SeenByOthers(g) /\ Tags'
         /\ rules' \in [Ids -> Rule] /\ rules'[proc[g].id] = WantedRule(g)
         /\ touched'[g] = touched[g]
         /\ etag' \in [Gateways -> SUBSET Names]
         /\ touched' \in [Gateways -> SUBSET (Names \cup {<<i>> : i \in Ids})]
<1> DEFINE x == <<proc[g].id>>
<1>0. Loaded(g)
  BY DEF PassStep
<1>1. proc[g].id \in Ids /\ WantedRule(g) \in Rule
  BY <1>0, LoadedId, WantedRuleType
<1>2. /\ \A h \in Gateways : etag'[h] = etag[h] \ {x}
      /\ \A h \in Gateways : touched'[h] =
           IF {g} = {h} THEN touched[h] ELSE touched[h] \cup {x}
      /\ etag' \in [Gateways -> SUBSET Names]
      /\ touched' \in [Gateways -> SUBSET (Names \cup {<<i>> : i \in Ids})]
  BY <1>1, WrittenTypes DEF RuleWritten, nsgRuleName
<1>3. /\ rules' \in [Ids -> Rule] /\ rules'[proc[g].id] = WantedRule(g)
      /\ \A i \in Ids : i # proc[g].id => rules'[i] = rules[i]
  BY <1>1 DEF TypeOK, RuleWritten, nsgRuleName
<1>4. SeenByOthers(g)
  BY <1>2, <1>3 DEF SeenByOthers
<1>5. ASSUME NEW h \in Gateways, etag'[h] # {}
      PROVE  /\ etag'[h] \subseteq etag[h] /\ Loaded(h)'
             /\ proc'[h].id = proc[h].id
             /\ \A m \in etag'[h] : records'[m] = records[m]
  <2>2. Loaded(h)
    BY <1>2, <1>5 DEF Tags
  <2>3. Loaded(h)' /\ proc'[h].id = proc[h].id
    BY <2>2 DEF PassStep, Loaded
  <2> QED BY <1>2, <2>3
<1>6. Tags'
  BY <1>5, TagsKept
<1> QED BY <1>2, <1>3, <1>4, <1>6

(* ETags while nothing is written in Azure.                                *)
LEMMA TagsUnwritten ==
  ASSUME TypeOK, Tags, NEW g \in Gateways, PassStep(g), records' = records,
         \A h \in Gateways \ {g} : etag'[h] = etag[h],
         \A n \in etag'[g] : ownsDNSRecord(g, n)
  PROVE  Tags'
<1>1. ASSUME NEW h \in Gateways, etag'[h] # {}
      PROVE  Loaded(h)' /\ \A n \in etag'[h] : ownsDNSRecord(h, n)'
  <2>1. CASE h = g
    BY <2>1 DEF PassStep, ownsDNSRecord
  <2>2. CASE h # g
    BY <1>1, <2>2 DEF PassStep, ownsDNSRecord, Tags, Loaded
  <2> QED BY <2>1, <2>2
<1> QED BY <1>1 DEF Tags

(* A pass ends.                                                            *)
LEMMA EndedFields ==
  ASSUME TypeOK, NEW g \in Gateways, NEW r \in {"ok", "error"}, Ended(g, r)
  PROVE  /\ proc' \in [Gateways -> Process]
         /\ proc'[g].pc = "idle" /\ proc'[g].result = r
         /\ proc'[g].todo = {} /\ proc'[g].page = {}
         /\ proc'[g].id = proc[g].id /\ proc'[g].cfg = proc[g].cfg
         /\ proc'[g].hosts = proc[g].hosts
         /\ \A h \in Gateways \ {g} : proc'[h] = proc[h]
<1>1. proc \in [Gateways -> Process]
  BY DEF TypeOK
<1>2. proc' = [proc EXCEPT ![g] =
        [proc[g] EXCEPT !.pc = "idle", !.todo = {}, !.page = {},
                        !.name = <<>>, !.free = FALSE, !.result = r]]
  BY DEF Ended
<1>3. [proc[g] EXCEPT !.pc = "idle", !.todo = {}, !.page = {},
                      !.name = <<>>, !.free = FALSE, !.result = r] \in Process
  BY <1>1 DEF Process
<1> QED BY <1>1, <1>2, <1>3 DEF Process

(* A pass that ended with an error has nothing to show.                    *)
LEMMA FailedPass ==
  ASSUME NEW g \in Gateways, proc'[g].pc = "idle", proc'[g].result # "ok",
         proc'[g].todo = {}, proc'[g].page = {}
  PROVE  PassOf(g)'
BY DEF PassOf, WritesDone, CleaningDone, RuleDone, Resting, Loaded, Writing, Cleaning,
       Succeeded, At

LEMMA FailKeeps ==
  ASSUME IInv, NEW g \in Gateways, Loaded(g), Fail(g),
         edits' \in 0..MaxEdits, applies' \in 0..MaxApplies,
         faults' \in 0..MaxFaults, faults <= faults'
  PROVE  IInv'
<1>1. TypeOK /\ Tags
  BY DEF IInv
<1>2. Ended(g, "error") /\ etag' = [etag EXCEPT ![g] = {}]
      /\ UNCHANGED <<idFile, drawn, records, rules, touched, routes>>
  BY DEF Fail
<1>3. /\ proc' \in [Gateways -> Process]
      /\ proc'[g].pc = "idle" /\ proc'[g].result = "error"
      /\ proc'[g].id = proc[g].id /\ proc'[g].todo = {} /\ proc'[g].page = {}
      /\ \A h \in Gateways \ {g} : proc'[h] = proc[h]
  BY <1>1, <1>2, EndedFields
<1>4. faults' \in Nat
  BY BoundAssumption
<1>5. PassStep(g)
  BY <1>2, <1>3, <1>4 DEF PassStep, Loaded
<1>6. TypeOK'
  BY <1>1, <1>2, <1>3 DEF TypeOK
<1>7. Tags'
  <2>1. etag'[g] = {} /\ \A h \in Gateways \ {g} : etag'[h] = etag[h]
    BY <1>1, <1>2 DEF TypeOK
  <2> QED BY <1>1, <1>2, <1>5, <2>1, TagsUnwritten
<1>8. PassOf(g)'
  BY <1>3, FailedPass
<1> QED BY <1>2, <1>5, <1>6, <1>7, <1>8, NothingSeen, PassFrame

LEMMA Update ==
  ASSUME TypeOK, NEW g \in Gateways, NEW p \in Process,
         proc' = [proc EXCEPT ![g] = p]
  PROVE  /\ proc' \in [Gateways -> Process] /\ proc'[g] = p
         /\ \A h \in Gateways \ {g} : proc'[h] = proc[h]
BY DEF TypeOK

(* A pass keeps its routes, its settings and its identity.                 *)
LEMMA SamePass ==
  ASSUME NEW g \in Gateways, proc'[g].id = proc[g].id,
         proc'[g].cfg = proc[g].cfg, proc'[g].hosts = proc[g].hosts
  PROVE  /\ DesiredBy(g)' = DesiredBy(g) /\ InScope(g)' = InScope(g)
         /\ Wanted(g)' = Wanted(g) /\ WantedRule(g)' = WantedRule(g)
BY DEF DesiredBy, InScope, Wanted, WantedRule

LEMMA BoundsKept ==
  ASSUME TypeOK, UNCHANGED bounds
  PROVE  /\ edits' \in 0..MaxEdits /\ applies' \in 0..MaxApplies
         /\ faults' \in 0..MaxFaults /\ faults <= faults' /\ faults' \in Nat
BY BoundAssumption DEF TypeOK, bounds

----------------------------------------------------------------------------
(* The steps of a pass.                                                    *)

LEMMA ReconcileKeeps ==
  ASSUME IInv, NEW g \in Gateways, Reconcile(g)
  PROVE  IInv'
<1> DEFINE dns == proc[g].cfg.manageDNS
           begun == [proc[g] EXCEPT
             !.pc = IF dns THEN "write" ELSE "cleanup",
             !.hosts = routes[g],
             !.todo = IF dns THEN Desired(routes[g], proc[g].cfg.zones) ELSE {},
             !.result = "none"]
           refused == [proc[g] EXCEPT !.hosts = routes[g], !.result = "error"]
           p == IF NoAddress(g, routes[g]) THEN refused ELSE begun
<1>0. TypeOK /\ Tags /\ Identities /\ PassOf(g)
  BY DEF IInv, Passes
<1>1. /\ At(g, "idle") /\ proc' = [proc EXCEPT ![g] = p]
      /\ touched' = [touched EXCEPT ![g] = {}]
      /\ UNCHANGED <<idFile, drawn, records, rules, etag, routes, bounds>>
  BY DEF Reconcile
<1>2. routes[g] \in SUBSET Hosts /\ proc[g].cfg \in Configs /\ proc[g] \in Process
  BY <1>0, Fields DEF TypeOK
<1>3. Desired(routes[g], proc[g].cfg.zones) \subseteq Names
  BY <1>2, DesiredNames
<1>4. begun \in Process /\ refused \in Process
  BY <1>2, <1>3 DEF Process
<1>5. /\ proc' \in [Gateways -> Process] /\ proc'[g] = p
      /\ \A h \in Gateways \ {g} : proc'[h] = proc[h]
  <2>1. p \in Process BY <1>4
  <2> HIDE DEF p
  <2> QED BY <1>0, <1>1, <2>1, Update
<1>6. /\ proc'[g].id = proc[g].id /\ proc'[g].cfg = proc[g].cfg
      /\ proc'[g].hosts = routes[g] /\ proc'[g].page = proc[g].page
      /\ proc'[g].pc \in {"idle", "write", "cleanup"}
  BY <1>1, <1>2, <1>5 DEF Process, At
<1>7. PassStep(g)
  BY <1>0, <1>1, <1>5, <1>6, BoundsKept DEF PassStep, Loaded, At
<1>8. touched' \in [Gateways -> SUBSET (Names \cup {<<i>> : i \in Ids})]
      /\ \A h \in Gateways \ {g} : touched'[h] = touched[h]
  BY <1>0, <1>1 DEF TypeOK
<1>9. TypeOK'
  BY <1>0, <1>1, <1>5, <1>8, BoundsKept DEF TypeOK
<1>10. Tags'
  <2>1. \A n \in etag'[g] : ownsDNSRecord(g, n)
    BY <1>0, <1>1 DEF Tags
  <2> QED BY <1>0, <1>1, <1>7, <2>1, TagsUnwritten
<1>11. proc[g].todo = {} /\ proc[g].page = {}
  BY <1>0, <1>1 DEF PassOf, Resting, At
<1>12. PassOf(g)'
  <2>1. CASE NoAddress(g, routes[g])
    <3>1. /\ proc'[g].pc = "idle" /\ proc'[g].result = "error"
          /\ proc'[g].todo = {}
      BY <1>1, <1>2, <1>5, <1>11, <2>1 DEF Process, At
    <3> QED BY <1>6, <1>11, <3>1, FailedPass
  <2>2. CASE ~NoAddress(g, routes[g]) /\ dns
    <3>1. /\ proc'[g].pc = "write"
          /\ proc'[g].todo = Desired(routes[g], proc[g].cfg.zones)
      BY <1>1, <1>2, <1>5, <2>2 DEF Process, At
    <3>2. DesiredBy(g)' = proc'[g].todo
      BY <1>6, <3>1 DEF DesiredBy
    <3>3. proc'[g].hosts # {} => proc'[g].cfg.ip # ""
      BY <1>6, <2>2 DEF NoAddress
    <3>4. proc'[g].page = {} /\ proc'[g].cfg.manageDNS
      BY <1>6, <1>11, <2>2
    <3> QED BY <3>1, <3>2, <3>3, <3>4
        DEF PassOf, WritesDone, CleaningDone, RuleDone, Resting, Loaded, Writing,
            Cleaning, Succeeded, At
  <2>3. CASE ~NoAddress(g, routes[g]) /\ ~dns
    <3>1. proc'[g].pc = "cleanup" /\ proc'[g].todo = {}
      BY <1>1, <1>2, <1>5, <2>3 DEF Process, At
    <3>2. proc'[g].page = {} /\ ~proc'[g].cfg.manageDNS
      BY <1>6, <1>11, <2>3
    <3> QED BY <3>1, <3>2
        DEF PassOf, WritesDone, CleaningDone, RuleDone, Resting, Loaded, Writing,
            Cleaning, Succeeded, At
  <2> QED BY <2>1, <2>2, <2>3
<1> QED BY <1>1, <1>7, <1>8, <1>9, <1>10, <1>12, NothingSeen, PassFrame

(* A step that only reads from Azure.                                      *)
LEMMA QuietStep ==
  ASSUME IInv, NEW g \in Gateways, Loaded(g), NEW p \in Process,
         proc' = [proc EXCEPT ![g] = p], p.id = proc[g].id,
         p.pc \in {"idle", "write", "put", "cleanup", "rule"},
         UNCHANGED <<idFile, drawn, records, rules, touched, routes, bounds>>,
         NEW E \in SUBSET Names, etag' = [etag EXCEPT ![g] = E],
         \A n \in E : ownsDNSRecord(g, n),
         PassOf(g)'
  PROVE  IInv'
<1>0. TypeOK /\ Tags
  BY DEF IInv
<1>1. /\ proc' \in [Gateways -> Process] /\ proc'[g] = p
      /\ \A h \in Gateways \ {g} : proc'[h] = proc[h]
  BY <1>0, Update
<1>2. PassStep(g)
  BY <1>0, <1>1, BoundsKept DEF PassStep, Loaded
<1>3. /\ etag' \in [Gateways -> SUBSET Names] /\ etag'[g] = E
      /\ \A h \in Gateways \ {g} : etag'[h] = etag[h]
  BY <1>0 DEF TypeOK
<1>4. TypeOK'
  BY <1>0, <1>1, <1>3, BoundsKept DEF TypeOK
<1>5. Tags'
  BY <1>0, <1>2, <1>3, TagsUnwritten
<1> QED BY <1>2, <1>4, <1>5, NothingSeen, PassFrame

(* The ETags of g while it goes on without reading any.                    *)
LEMMA SameTags ==
  ASSUME TypeOK, Tags, NEW g \in Gateways, etag' = etag
  PROVE  /\ etag[g] \in SUBSET Names /\ etag' = [etag EXCEPT ![g] = etag[g]]
         /\ \A n \in etag[g] : ownsDNSRecord(g, n)
BY DEF TypeOK, Tags

LEMMA GetRecordKeeps ==
  ASSUME IInv, NEW g \in Gateways, NEW n \in Names, GetRecord(g, n)
  PROVE  IInv'
<1>0. TypeOK /\ Tags /\ Identities /\ PassOf(g)
  BY DEF IInv, Passes
<1>1. At(g, "write") /\ n \in proc[g].todo /\ UNCHANGED bounds
  BY DEF GetRecord
<1>2. Loaded(g) /\ proc[g] \in Process
  BY <1>0, <1>1, Fields DEF Loaded, At
<1>3. WritesDone(g) /\ Writing(g)
  BY <1>0, <1>1 DEF PassOf, Writing
<1>4. CASE records[n] # None /\ ~ownsDNSRecord(g, n) /\ Fail(g)
  BY <1>0, <1>1, <1>2, <1>4, BoundsKept, FailKeeps
<1>5. CASE /\ records[n] = Wanted(g)
           /\ proc' = [proc EXCEPT ![g].todo = @ \ {n}]
           /\ UNCHANGED <<idFile, drawn, azure, routes>>
  <2> DEFINE p == [proc[g] EXCEPT !.todo = proc[g].todo \ {n}]
  <2>1. p \in Process
    BY <1>2 DEF Process
  <2>2. proc' = [proc EXCEPT ![g] = p]
    BY <1>5
  <2>3. /\ p.id = proc[g].id /\ p.cfg = proc[g].cfg /\ p.hosts = proc[g].hosts
        /\ p.pc = "write" /\ p.todo = proc[g].todo \ {n} /\ p.page = proc[g].page
    BY <1>1, <1>2 DEF Process, At
  <2> HIDE DEF p
  <2>4. proc'[g] = p
    BY <1>0, <2>1, <2>2, Update
  <2>5. UNCHANGED <<records, rules, touched>> /\ etag' = etag
    BY <1>5 DEF azure
  <2>6. PassOf(g)'
    <3>1. DesiredBy(g)' = DesiredBy(g) /\ Wanted(g)' = Wanted(g)
      BY <2>3, <2>4, SamePass
    <3>2. \A m \in DesiredBy(g) \ (proc[g].todo \ {n}) : UpToDate(g, m)'
      BY <1>3, <1>5, <2>5, <3>1 DEF WritesDone, UpToDate
    <3>3. WritesDone(g)'
      BY <1>3, <2>3, <2>4, <3>1, <3>2 DEF WritesDone, At
    <3> QED BY <2>3, <2>4, <3>3
        DEF PassOf, CleaningDone, RuleDone, Resting, Loaded, Cleaning, Succeeded, At
  <2> QED BY <1>0, <1>1, <1>2, <1>5, <2>1, <2>2, <2>3, <2>5, <2>6, SameTags, QuietStep
<1>6. CASE /\ records[n] # Wanted(g)
           /\ records[n] = None \/ ownsDNSRecord(g, n)
           /\ proc' = [proc EXCEPT ![g].pc = "put", ![g].name = n,
                                   ![g].free = (records[n] = None)]
           /\ etag' = [etag EXCEPT ![g] = IF records[n] = None THEN {} ELSE {n}]
           /\ UNCHANGED <<idFile, drawn, records, rules, touched, routes>>
  <2> DEFINE p == [proc[g] EXCEPT !.pc = "put", !.name = n,
                                  !.free = (records[n] = None)]
             E == IF records[n] = None THEN {} ELSE {n}
  <2>1. p \in Process
    BY <1>2 DEF Process
  <2>2. proc' = [proc EXCEPT ![g] = p]
    BY <1>6
  <2>3. /\ p.id = proc[g].id /\ p.cfg = proc[g].cfg /\ p.hosts = proc[g].hosts
        /\ p.pc = "put" /\ p.todo = proc[g].todo /\ p.page = proc[g].page
        /\ p.name = n
    BY <1>1, <1>2 DEF Process, At
  <2> HIDE DEF p
  <2>4. proc'[g] = p
    BY <1>0, <2>1, <2>2, Update
  <2>5. PassOf(g)'
    <3>1. DesiredBy(g)' = DesiredBy(g) /\ Wanted(g)' = Wanted(g)
      BY <2>3, <2>4, SamePass
    <3>2. \A m \in DesiredBy(g) \ proc[g].todo : UpToDate(g, m)'
      BY <1>3, <1>6, <3>1 DEF WritesDone, UpToDate
    <3>3. WritesDone(g)'
      BY <1>1, <1>3, <2>3, <2>4, <3>1, <3>2 DEF WritesDone, At
    <3> QED BY <2>3, <2>4, <3>3
        DEF PassOf, CleaningDone, RuleDone, Resting, Loaded, Cleaning, Succeeded, At
  <2>6. E \in SUBSET Names /\ \A m \in E : ownsDNSRecord(g, m)
    BY <1>6
  <2>7. etag' = [etag EXCEPT ![g] = E]
    BY <1>6
  <2> HIDE DEF E
  <2> QED BY <1>1, <1>2, <1>6, <2>1, <2>2, <2>3, <2>5, <2>6, <2>7, QuietStep
<1> QED BY <1>4, <1>5, <1>6 DEF GetRecord

(* The address of a record that is written is set.                         *)
LEMMA WantedType ==
  ASSUME TypeOK, Identities, NEW g \in Gateways, At(g, "put"), PassOf(g)
  PROVE  /\ Wanted(g) \in Record /\ proc[g].name \in Names
         /\ proc[g].name \in DesiredBy(g) /\ proc[g].name \in proc[g].todo
<1>1. WritesDone(g) /\ Writing(g)
  BY DEF PassOf, Writing
<1>2. proc[g].name \in proc[g].todo /\ proc[g].name \in DesiredBy(g)
  BY <1>1 DEF WritesDone
<1>3. proc[g].hosts # {}
  BY <1>2 DEF DesiredBy, Desired
<1>4. proc[g].cfg \in Configs /\ proc[g].cfg.ip # ""
  BY <1>1, <1>3, Fields DEF WritesDone
<1>5. proc[g].cfg.ip \in IPs
  BY <1>4 DEF IPs
<1>6. proc[g].id \in Ids
  BY LoadedId DEF Loaded, At
<1>7. Wanted(g) \in Record
  BY <1>5, <1>6 DEF Wanted, Record
<1> QED BY <1>2, <1>7, Fields

LEMMA PutRecordKeeps ==
  ASSUME IInv, NEW g \in Gateways, PutRecord(g)
  PROVE  IInv'
<1> DEFINE n == proc[g].name
<1>0. TypeOK /\ Tags /\ Identities /\ PassOf(g)
  BY DEF IInv, Passes
<1>1. At(g, "put") /\ UNCHANGED bounds
  BY DEF PutRecord
<1>2. Loaded(g) /\ proc[g] \in Process
  BY <1>0, <1>1, Fields DEF Loaded, At
<1>3. WritesDone(g) /\ Writing(g)
  BY <1>0, <1>1 DEF PassOf, Writing
<1>4. CASE ~PreconditionHolds(g, n) /\ Fail(g)
  BY <1>0, <1>1, <1>2, <1>4, BoundsKept, FailKeeps
<1>5. CASE /\ records' = [records EXCEPT ![n] = Wanted(g)]
           /\ Written({g}, n)
           /\ proc' = [proc EXCEPT ![g].pc = "write", ![g].name = <<>>,
                                   ![g].free = FALSE, ![g].todo = @ \ {n}]
           /\ UNCHANGED <<idFile, drawn, rules, routes>>
  <2> DEFINE p == [proc[g] EXCEPT !.pc = "write", !.name = <<>>,
                                  !.free = FALSE, !.todo = proc[g].todo \ {n}]
  <2>1. p \in Process
    BY <1>2 DEF Process
  <2>2. proc' = [proc EXCEPT ![g] = p]
    BY <1>5
  <2>3. /\ p.id = proc[g].id /\ p.cfg = proc[g].cfg /\ p.hosts = proc[g].hosts
        /\ p.pc = "write" /\ p.todo = proc[g].todo \ {n} /\ p.page = proc[g].page
    BY <1>1, <1>2 DEF Process, At
  <2> HIDE DEF p
  <2>4. /\ proc' \in [Gateways -> Process] /\ proc'[g] = p
        /\ \A h \in Gateways \ {g} : proc'[h] = proc[h]
    BY <1>0, <2>1, <2>2, Update
  <2>5. PassStep(g)
    BY <1>0, <1>1, <1>2, <1>5, <2>3, <2>4, BoundsKept DEF PassStep, Loaded
  <2>6. n \in Names /\ Wanted(g) \in Record /\ n \in DesiredBy(g)
    BY <1>0, <1>1, WantedType
  <2> HIDE DEF n
  <2>7. /\ SeenByOthers(g) /\ Tags'
        /\ records' \in [Names -> Record] /\ records'[n] = Wanted(g)
        /\ \A m \in Names : m # n => records'[m] = records[m]
        /\ touched'[g] = touched[g]
        /\ etag' \in [Gateways -> SUBSET Names]
        /\ touched' \in [Gateways -> SUBSET (Names \cup {<<i>> : i \in Ids})]
    BY <1>0, <1>5, <2>5, <2>6, RecordWrittenFrame
  <2>8. TypeOK'
    BY <1>0, <1>1, <1>5, <2>4, <2>7, BoundsKept DEF TypeOK
  <2>9. PassOf(g)'
    <3>1. DesiredBy(g)' = DesiredBy(g) /\ Wanted(g)' = Wanted(g)
      BY <2>3, <2>4, SamePass
    <3>2. ASSUME NEW m \in DesiredBy(g) \ (proc[g].todo \ {n})
          PROVE  UpToDate(g, m)'
      <4>1. m \in Names
        BY <1>0, Fields
      <4>2. CASE m = n
        BY <2>7, <3>1, <4>2 DEF UpToDate
      <4>3. CASE m # n
        BY <1>3, <2>7, <3>1, <4>1, <4>3 DEF UpToDate, WritesDone
      <4> QED BY <4>2, <4>3
    <3>3. WritesDone(g)'
      BY <1>3, <2>3, <2>4, <3>1, <3>2 DEF WritesDone, At
    <3> QED BY <2>3, <2>4, <3>3
        DEF PassOf, CleaningDone, RuleDone, Resting, Loaded, Cleaning, Succeeded, At
  <2> QED BY <2>5, <2>7, <2>8, <2>9, PassFrame
<1> QED BY <1>4, <1>5 DEF PutRecord

LEMMA StartCleanupKeeps ==
  ASSUME IInv, NEW g \in Gateways, StartCleanup(g)
  PROVE  IInv'
<1>0. TypeOK /\ Tags /\ Identities /\ PassOf(g)
  BY DEF IInv, Passes
<1>1. /\ At(g, "write") /\ proc[g].todo = {}
      /\ UNCHANGED <<idFile, drawn, azure, routes, bounds>>
  BY DEF StartCleanup
<1>2. Loaded(g) /\ proc[g] \in Process /\ InScope(g) \subseteq Names
  BY <1>0, <1>1, Fields DEF Loaded, At
<1>3. WritesDone(g) /\ Writing(g)
  BY <1>0, <1>1 DEF PassOf, Writing
<1> DEFINE p == [proc[g] EXCEPT !.pc = "cleanup", !.todo = InScope(g)]
<1>4. p \in Process
  BY <1>2 DEF Process
<1>5. proc' = [proc EXCEPT ![g] = p]
  BY DEF StartCleanup
<1>6. /\ p.id = proc[g].id /\ p.cfg = proc[g].cfg /\ p.hosts = proc[g].hosts
      /\ p.pc = "cleanup" /\ p.todo = InScope(g) /\ p.page = {}
  BY <1>2, <1>3 DEF Process, WritesDone
<1> HIDE DEF p
<1>7. proc'[g] = p
  BY <1>0, <1>4, <1>5, Update
<1>8. UNCHANGED <<records, rules, touched>> /\ etag' = etag
  BY <1>1 DEF azure
<1>9. PassOf(g)'
  <2>1. DesiredBy(g)' = DesiredBy(g) /\ InScope(g)' = InScope(g) /\ Wanted(g)' = Wanted(g)
    BY <1>6, <1>7, SamePass
  <2>2. \A n \in DesiredBy(g) : UpToDate(g, n)'
    BY <1>1, <1>3, <1>8, <2>1 DEF WritesDone, UpToDate
  <2>3. \A n \in InScope(g) : Cleaned(g, n)'
    BY <1>6, <1>7 DEF Cleaned
  <2>4. proc'[g].cfg.manageDNS
    BY <1>3, <1>6, <1>7 DEF WritesDone
  <2>5. CleaningDone(g)'
    BY <1>6, <1>7, <2>1, <2>2, <2>3, <2>4 DEF CleaningDone
  <2> QED BY <1>6, <1>7, <2>5 DEF PassOf, WritesDone, RuleDone, Resting, Loaded, Writing,
                                   Succeeded, At
<1> QED BY <1>0, <1>1, <1>2, <1>4, <1>5, <1>6, <1>8, <1>9, SameTags, QuietStep

LEMMA ListPageKeeps ==
  ASSUME IInv, NEW g \in Gateways, NEW listed \in SUBSET proc[g].todo,
         ListPage(g, listed)
  PROVE  IInv'
<1>0. TypeOK /\ Tags /\ Identities /\ PassOf(g)
  BY DEF IInv, Passes
<1>1. /\ At(g, "cleanup") /\ proc[g].page = {} /\ listed # {}
      /\ UNCHANGED <<idFile, drawn, records, rules, touched, routes, bounds>>
  BY DEF ListPage
<1>2. /\ Loaded(g) /\ proc[g] \in Process /\ proc[g].todo \in SUBSET Names
      /\ proc[g].cfg.manageDNS \in BOOLEAN
  BY <1>0, <1>1, Fields DEF Loaded, At
<1>3. CleaningDone(g) /\ Cleaning(g)
  BY <1>0, <1>1 DEF PassOf, Cleaning
<1> DEFINE stale == listed \cap Stale(g)
           p == [proc[g] EXCEPT !.todo = proc[g].todo \ listed, !.page = stale]
<1>4. stale \in SUBSET Names /\ \A n \in stale : ownsDNSRecord(g, n)
  BY DEF Stale
<1>5. p \in Process
  BY <1>2, <1>4 DEF Process
<1>6. proc' = [proc EXCEPT ![g] = p] /\ etag' = [etag EXCEPT ![g] = stale]
  BY DEF ListPage
<1>7. /\ p.id = proc[g].id /\ p.cfg = proc[g].cfg /\ p.hosts = proc[g].hosts
      /\ p.pc = "cleanup" /\ p.todo = proc[g].todo \ listed /\ p.page = stale
  BY <1>1, <1>2 DEF Process, At
<1>8. \A n \in listed : n \in stale <=> ownsDNSRecord(g, n) /\ n \notin DesiredBy(g)
  BY <1>2 DEF Stale
<1> HIDE DEF p, stale
<1>9. proc'[g] = p
  BY <1>0, <1>5, <1>6, Update
<1>10. PassOf(g)'
  <2>1. DesiredBy(g)' = DesiredBy(g) /\ InScope(g)' = InScope(g) /\ Wanted(g)' = Wanted(g)
    BY <1>7, <1>9, SamePass
  <2>2. proc[g].cfg.manageDNS
    BY <1>1, <1>2, <1>3 DEF CleaningDone
  <2>3. \A n \in DesiredBy(g) : UpToDate(g, n)'
    BY <1>1, <1>3, <2>1, <2>2 DEF CleaningDone, UpToDate
  <2>4. ASSUME NEW n \in InScope(g) \ DesiredBy(g)
        PROVE  Cleaned(g, n)'
    <3>1. Cleaned(g, n)
      BY <1>3, <2>2 DEF CleaningDone
    <3> QED BY <1>1, <1>7, <1>8, <1>9, <3>1 DEF Cleaned, ownsDNSRecord
  <2>5. stale \subseteq InScope(g) \ DesiredBy(g)
    BY <1>3, <1>8 DEF CleaningDone, stale
  <2>6. CleaningDone(g)'
    BY <1>3, <1>7, <1>9, <2>1, <2>2, <2>3, <2>4, <2>5 DEF CleaningDone
  <2> QED BY <1>7, <1>9, <2>6 DEF PassOf, WritesDone, RuleDone, Resting, Loaded, Writing,
                                   Succeeded, At
<1> QED BY <1>1, <1>2, <1>4, <1>5, <1>6, <1>7, <1>10, QuietStep

(* A page from which a name is struck off whose record is gone.            *)
LEMMA StruckOff ==
  ASSUME TypeOK, Identities, NEW g \in Gateways, At(g, "cleanup"), PassOf(g),
         NEW n \in proc[g].page, NEW p \in Process,
         p = [proc[g] EXCEPT !.page = proc[g].page \ {n}], proc'[g] = p,
         touched'[g] = touched[g], records'[n] = None,
         \A m \in Names : m # n => records'[m] = records[m]
  PROVE  PassOf(g)'
<1>1. proc[g] \in Process /\ InScope(g) \subseteq Names /\ Loaded(g)
      /\ DesiredBy(g) \subseteq Names
  BY Fields DEF Loaded, At
<1>2. /\ p.id = proc[g].id /\ p.cfg = proc[g].cfg /\ p.hosts = proc[g].hosts
      /\ p.pc = "cleanup" /\ p.todo = proc[g].todo
      /\ p.page = proc[g].page \ {n}
  BY <1>1 DEF Process, At
<1>3. CleaningDone(g) /\ Cleaning(g)
  BY DEF PassOf, Cleaning
<1>4. DesiredBy(g)' = DesiredBy(g) /\ InScope(g)' = InScope(g) /\ Wanted(g)' = Wanted(g)
  BY <1>2, SamePass
<1>5. n \in InScope(g) \ DesiredBy(g) /\ proc[g].cfg.manageDNS
  BY <1>3, Fields DEF CleaningDone
<1>6. \A m \in DesiredBy(g) : UpToDate(g, m)'
  BY <1>1, <1>3, <1>4, <1>5 DEF CleaningDone, UpToDate
<1>7. ~ownsDNSRecord(g, n)'
  BY <1>1, <1>2, LoadedId DEF ownsDNSRecord, None
<1>8. ASSUME NEW m \in InScope(g) \ DesiredBy(g)
      PROVE  Cleaned(g, m)'
  <2>1. Cleaned(g, m) /\ m \in Names
    BY <1>1, <1>3, <1>5 DEF CleaningDone
  <2>2. CASE m = n
    BY <1>7, <2>2 DEF Cleaned
  <2>3. CASE m # n
    BY <1>2, <2>1, <2>3 DEF Cleaned, ownsDNSRecord
  <2> QED BY <2>2, <2>3
<1>9. CleaningDone(g)'
  BY <1>2, <1>3, <1>4, <1>5, <1>6, <1>8 DEF CleaningDone
<1> QED BY <1>2, <1>9 DEF PassOf, WritesDone, RuleDone, Resting, Loaded, Writing, Succeeded, At

LEMMA DeleteRecordKeeps ==
  ASSUME IInv, NEW g \in Gateways, NEW n \in Names, DeleteRecord(g, n)
  PROVE  IInv'
<1>0. TypeOK /\ Tags /\ Identities /\ PassOf(g)
  BY DEF IInv, Passes
<1>1. At(g, "cleanup") /\ n \in proc[g].page /\ UNCHANGED bounds
  BY DEF DeleteRecord
<1>2. Loaded(g) /\ proc[g] \in Process
  BY <1>0, <1>1, Fields DEF Loaded, At
<1> DEFINE p == [proc[g] EXCEPT !.page = proc[g].page \ {n}]
<1>3. /\ p \in Process /\ p.id = proc[g].id /\ p.pc = "cleanup"
  BY <1>1, <1>2 DEF Process, At
<1>4. CASE records[n] # None /\ n \notin etag[g] /\ Fail(g)
  BY <1>0, <1>1, <1>2, <1>4, BoundsKept, FailKeeps
<1>5. CASE /\ records[n] = None
           /\ proc' = [proc EXCEPT ![g].page = @ \ {n}]
           /\ UNCHANGED <<idFile, drawn, azure, routes>>
  <2>1. proc' = [proc EXCEPT ![g] = p]
    BY <1>5
  <2>2. UNCHANGED <<records, rules, touched>> /\ etag' = etag
    BY <1>5 DEF azure
  <2>3. proc'[g] = p
    BY <1>0, <1>3, <2>1, Update
  <2>4. PassOf(g)'
    BY <1>0, <1>1, <1>3, <1>5, <2>2, <2>3, StruckOff
  <2> HIDE DEF p
  <2> QED BY <1>0, <1>1, <1>2, <1>3, <1>5, <2>1, <2>2, <2>4, SameTags, QuietStep
<1>6. CASE /\ n \in etag[g]
           /\ records' = [records EXCEPT ![n] = None]
           /\ Written({g}, n)
           /\ proc' = [proc EXCEPT ![g].page = @ \ {n}]
           /\ UNCHANGED <<idFile, drawn, rules, routes>>
  <2>1. proc' = [proc EXCEPT ![g] = p]
    BY <1>6
  <2>2. /\ proc' \in [Gateways -> Process] /\ proc'[g] = p
        /\ \A h \in Gateways \ {g} : proc'[h] = proc[h]
    BY <1>0, <1>3, <2>1, Update
  <2>3. PassStep(g)
    <3> HIDE DEF p
    <3> QED BY <1>0, <1>1, <1>2, <1>3, <1>6, <2>2, BoundsKept DEF PassStep, Loaded
  <2>4. None \in Record
    BY DEF Record
  <2>5. /\ SeenByOthers(g) /\ Tags'
        /\ records' \in [Names -> Record] /\ records'[n] = None
        /\ \A m \in Names : m # n => records'[m] = records[m]
        /\ touched'[g] = touched[g]
        /\ etag' \in [Gateways -> SUBSET Names]
        /\ touched' \in [Gateways -> SUBSET (Names \cup {<<i>> : i \in Ids})]
    BY <1>0, <1>6, <2>3, <2>4, RecordWrittenFrame
  <2>6. TypeOK'
    BY <1>0, <1>1, <1>6, <2>2, <2>5, BoundsKept DEF TypeOK
  <2>7. PassOf(g)'
    BY <1>0, <1>1, <1>3, <2>2, <2>5, StruckOff
  <2> QED BY <2>3, <2>5, <2>6, <2>7, PassFrame
<1> QED BY <1>4, <1>5, <1>6 DEF DeleteRecord

(* A pass whose clean-up is over.                                          *)
LEMMA CleanedUp ==
  ASSUME TypeOK, NEW g \in Gateways, PassOf(g),
         At(g, "cleanup") \/ At(g, "rule"),
         proc[g].todo = {}, proc[g].page = {},
         proc'[g].pc \in {"rule", "idle"},
         proc'[g].todo = {}, proc'[g].page = {},
         proc'[g].id = proc[g].id, proc'[g].cfg = proc[g].cfg,
         proc'[g].hosts = proc[g].hosts,
         records' = records, touched'[g] = touched[g],
         proc'[g].pc = "idle" /\ proc[g].cfg.manageNSG =>
           rules'[proc[g].id] = WantedRule(g)
  PROVE  PassOf(g)'
<1>1. /\ DesiredBy(g)' = DesiredBy(g) /\ InScope(g)' = InScope(g)
      /\ Wanted(g)' = Wanted(g) /\ WantedRule(g)' = WantedRule(g)
  BY SamePass
<1>2. CleaningDone(g) /\ Cleaning(g)
  BY DEF PassOf, Cleaning
<1>3. \A n : UpToDate(g, n) => UpToDate(g, n)'
  BY <1>1 DEF UpToDate
<1>4. \A n : Cleaned(g, n) => Cleaned(g, n)'
  BY DEF Cleaned, ownsDNSRecord
<1>5. CleaningDone(g)'
  BY <1>1, <1>2, <1>3, <1>4 DEF CleaningDone
<1>6. RuleDone(g)'
  BY <1>1 DEF RuleDone, Succeeded, At
<1> QED BY <1>5, <1>6 DEF PassOf, WritesDone, Resting, Loaded, Writing, At

LEMMA GetRuleKeeps ==
  ASSUME IInv, NEW g \in Gateways, GetRule(g)
  PROVE  IInv'
<1> DEFINE rule == rules[proc[g].id]
           managed == proc[g].cfg.manageNSG
<1>0. TypeOK /\ Tags /\ Identities /\ PassOf(g)
  BY DEF IInv, Passes
<1>1. /\ At(g, "cleanup") /\ proc[g].page = {} /\ proc[g].todo = {}
      /\ UNCHANGED bounds
  BY DEF GetRule
<1>2. Loaded(g) /\ proc[g] \in Process
  BY <1>0, <1>1, Fields DEF Loaded, At
<1>3. CASE managed /\ rule # NoRule /\ ~ownsNSGRule(g) /\ Fail(g)
  BY <1>0, <1>1, <1>2, <1>3, BoundsKept, FailKeeps
<1>4. CASE /\ managed => rule = WantedRule(g)
           /\ Ended(g, "ok")
           /\ UNCHANGED <<idFile, drawn, azure, routes>>
  <2> DEFINE p == [proc[g] EXCEPT !.pc = "idle", !.todo = {}, !.page = {},
                     !.name = <<>>, !.free = FALSE, !.result = "ok"]
  <2>1. proc' = [proc EXCEPT ![g] = p]
    BY <1>4 DEF Ended
  <2>2. p \in Process /\ p.id = proc[g].id /\ p.pc = "idle"
    BY <1>2 DEF Process
  <2>3. /\ proc'[g].pc = "idle" /\ proc'[g].todo = {} /\ proc'[g].page = {}
        /\ proc'[g].id = proc[g].id /\ proc'[g].cfg = proc[g].cfg
        /\ proc'[g].hosts = proc[g].hosts
    BY <1>0, <1>4, EndedFields
  <2>4. UNCHANGED <<records, rules, touched>> /\ etag' = etag
    BY <1>4 DEF azure
  <2>5. PassOf(g)'
    BY <1>0, <1>1, <1>4, <2>3, <2>4, CleanedUp
  <2> HIDE DEF p
  <2> QED BY <1>0, <1>1, <1>2, <1>4, <2>1, <2>2, <2>4, <2>5, SameTags, QuietStep
<1>5. CASE /\ managed /\ rule # WantedRule(g)
           /\ rule = NoRule \/ ownsNSGRule(g)
           /\ proc' = [proc EXCEPT ![g].pc = "rule"]
           /\ UNCHANGED <<idFile, drawn, azure, routes>>
  <2> DEFINE p == [proc[g] EXCEPT !.pc = "rule"]
  <2>1. proc' = [proc EXCEPT ![g] = p]
    BY <1>5
  <2>2. /\ p \in Process /\ p.id = proc[g].id /\ p.pc = "rule"
        /\ p.todo = {} /\ p.page = {} /\ p.cfg = proc[g].cfg
        /\ p.hosts = proc[g].hosts
    BY <1>1, <1>2 DEF Process
  <2> HIDE DEF p
  <2>3. proc'[g] = p
    BY <1>0, <2>1, <2>2, Update
  <2>4. UNCHANGED <<records, rules, touched>> /\ etag' = etag
    BY <1>5 DEF azure
  <2>5. PassOf(g)'
    BY <1>0, <1>1, <2>2, <2>3, <2>4, CleanedUp
  <2> QED BY <1>0, <1>1, <1>2, <1>5, <2>1, <2>2, <2>4, <2>5, SameTags, QuietStep
<1> QED BY <1>3, <1>4, <1>5 DEF GetRule

(* The rule is written and the pass ends with result r.                    *)
LEMMA RuleWrittenKeeps ==
  ASSUME IInv, NEW g \in Gateways, At(g, "rule"), RuleWritten(g),
         NEW r \in {"ok", "error"}, Ended(g, r),
         UNCHANGED <<idFile, drawn, records, routes>>,
         edits' \in 0..MaxEdits, applies' \in 0..MaxApplies,
         faults' \in 0..MaxFaults, faults <= faults'
  PROVE  IInv'
<1>0. TypeOK /\ Tags /\ Identities /\ PassOf(g)
  BY DEF IInv, Passes
<1>1. Loaded(g)
  BY DEF Loaded, At
<1>2. /\ proc' \in [Gateways -> Process]
      /\ proc'[g].pc = "idle" /\ proc'[g].result = r
      /\ proc'[g].todo = {} /\ proc'[g].page = {}
      /\ proc'[g].id = proc[g].id /\ proc'[g].cfg = proc[g].cfg
      /\ proc'[g].hosts = proc[g].hosts
      /\ \A h \in Gateways \ {g} : proc'[h] = proc[h]
  BY <1>0, EndedFields
<1>3. faults' \in Nat
  BY BoundAssumption
<1>4. PassStep(g)
  BY <1>1, <1>2, <1>3 DEF PassStep, Loaded
<1>5. /\ SeenByOthers(g) /\ Tags'
      /\ rules' \in [Ids -> Rule] /\ rules'[proc[g].id] = WantedRule(g)
      /\ touched'[g] = touched[g]
      /\ etag' \in [Gateways -> SUBSET Names]
      /\ touched' \in [Gateways -> SUBSET (Names \cup {<<i>> : i \in Ids})]
  BY <1>0, <1>4, RuleWrittenFrame
<1>6. TypeOK'
  BY <1>0, <1>2, <1>5 DEF TypeOK
<1>7. proc[g].todo = {} /\ proc[g].page = {}
  BY <1>0 DEF PassOf, Resting, At
<1>8. PassOf(g)'
  BY <1>0, <1>2, <1>5, <1>7, CleanedUp
<1> QED BY <1>4, <1>5, <1>6, <1>8, PassFrame

LEMMA PutRuleKeeps ==
  ASSUME IInv, NEW g \in Gateways, PutRule(g) \/ DeleteRule(g)
  PROVE  IInv'
<1>1. TypeOK
  BY DEF IInv
<1>2. /\ At(g, "rule") /\ RuleWritten(g) /\ Ended(g, "ok")
      /\ UNCHANGED <<idFile, drawn, records, routes, bounds>>
  BY DEF PutRule, DeleteRule
<1> QED BY <1>1, <1>2, BoundsKept, RuleWrittenKeeps

----------------------------------------------------------------------------
(* Starting, stopping and the identity.                                    *)

(* A process between passes and outside them; its own part of the          *)
(* invariant about identities remains to be shown.                         *)
LEMMA OutsidePass ==
  ASSUME IInv, NEW g \in Gateways, NEW p \in Process,
         proc' = [proc EXCEPT ![g] = p],
         p.pc \in {"down", "identity", "link", "reread", "idle"},
         p.result = "none", p.todo = {}, p.page = {},
         UNCHANGED <<records, rules, touched, routes>>,
         \/ etag' = etag /\ ~Loaded(g)
         \/ etag' = [etag EXCEPT ![g] = {}],
         idFile' \in [Dirs -> 0..MaxIds], drawn' \in 0..MaxIds,
         edits' \in 0..MaxEdits, applies' \in 0..MaxApplies,
         faults' \in 0..MaxFaults,
         Draws', Identities'
  PROVE  IInv'
<1>0. TypeOK /\ Tags /\ Identities /\ Passes
  BY DEF IInv
<1>1. /\ proc' \in [Gateways -> Process] /\ proc'[g] = p
      /\ \A h \in Gateways \ {g} : proc'[h] = proc[h]
  BY <1>0, Update
<1>2. /\ etag' \in [Gateways -> SUBSET Names] /\ etag'[g] = {}
      /\ \A h \in Gateways \ {g} : etag'[h] = etag[h]
  BY <1>0 DEF TypeOK, Tags
<1>3. TypeOK'
  BY <1>0, <1>1, <1>2 DEF TypeOK
<1>4. ASSUME NEW h \in Gateways, etag'[h] # {}
      PROVE  /\ etag'[h] \subseteq etag[h] /\ Loaded(h)'
             /\ proc'[h].id = proc[h].id
             /\ \A n \in etag'[h] : records'[n] = records[n]
  BY <1>0, <1>1, <1>2, <1>4 DEF Tags, Loaded
<1>5. Tags'
  BY <1>0, <1>4, TagsKept
<1>6. PassOf(g)'
  BY <1>1 DEF PassOf, WritesDone, CleaningDone, RuleDone, Resting, Loaded,
              Writing, Cleaning, Succeeded, At
<1>7. ASSUME NEW h \in Gateways, h # g
      PROVE  PassOf(h)'
  <2>1. PassOf(h) /\ proc'[h] = proc[h]
    BY <1>0, <1>1, <1>7 DEF Passes
  <2>2. Loaded(h) => proc[h].id \in Ids
    BY <1>0, LoadedId
  <2> QED BY <1>0, <2>1, <2>2, OthersPass
<1>8. Passes'
  BY <1>6, <1>7 DEF Passes
<1> QED BY <1>3, <1>5, <1>8 DEF IInv

(* No process is more likely to draw an identity than before.              *)
LEMMA DrawsKept ==
  ASSUME TypeOK, Draws, drawn' = drawn, faults' = faults,
         Undrawn' \subseteq Undrawn
  PROVE  Draws'
<1>1. Cardinality(Undrawn') <= Cardinality(Undrawn)
  BY UndrawnFinite, FS_Subset
<1>2. Cardinality(Undrawn') \in Nat
  <2>1. IsFiniteSet(Undrawn')
    BY UndrawnFinite, FS_Subset
  <2> QED BY <2>1, FS_CardinalityType
<1>3. faults \in Int /\ drawn \in Int
  BY IdBounds DEF TypeOK
<1> QED BY <1>1, <1>2, <1>3, UndrawnFinite, IdBounds DEF Draws

LEMMA StartKeeps ==
  ASSUME IInv, NEW g \in Gateways, NEW c \in Configs, Start(g, c)
  PROVE  IInv'
<1> DEFINE stored == idFile[DirOf[g]]
           p == [Down EXCEPT !.pc = IF stored = 0 THEN "identity" ELSE "idle",
                             !.cfg = c, !.id = stored]
<1>0. TypeOK /\ Tags /\ Identities /\ Draws
  BY DEF IInv
<1>1. /\ At(g, "down") /\ proc' = [proc EXCEPT ![g] = p]
      /\ UNCHANGED <<idFile, drawn, azure, routes, bounds>>
  BY DEF Start
<1>2. stored \in 0..MaxIds /\ DirOf[g] \in Dirs
  BY <1>0, Fields DEF TypeOK
<1>3. /\ p \in Process /\ p.pc = (IF stored = 0 THEN "identity" ELSE "idle")
      /\ p.id = stored /\ p.result = "none" /\ p.todo = {} /\ p.page = {}
  BY <1>2, DownProcess DEF Process
<1> HIDE DEF p
<1>4. /\ proc'[g] = p
      /\ \A h \in Gateways \ {g} : proc'[h] = proc[h]
  BY <1>0, <1>1, <1>3, Update
<1>5. Draws'
  <2>1. Undrawn' \subseteq Undrawn
    BY <1>1, <1>4 DEF Undrawn, At
  <2> QED BY <1>0, <1>1, <2>1, DrawsKept DEF bounds
<1>6. Identities'
  <2>1. idFile' = idFile /\ drawn' = drawn
    BY <1>1
  <2>2. \A h \in Gateways : (At(h, "link"))' => At(h, "link") /\ proc'[h] = proc[h]
    BY <1>3, <1>4 DEF At
  <2>3. \A h \in Gateways : (At(h, "reread"))' => At(h, "reread")
    BY <1>3, <1>4 DEF At
  <2>4. \A h \in Gateways : Loaded(h)' =>
          proc'[h].id = idFile[DirOf[h]] /\ proc'[h].id # 0
    BY <1>0, <1>3, <1>4 DEF Loaded, Identities
  <2> QED BY <1>0, <2>1, <2>2, <2>3, <2>4 DEF Identities
<1>7. UNCHANGED <<records, rules, touched>> /\ etag' = etag /\ ~Loaded(g)
  BY <1>1 DEF azure, Loaded, At
<1>8. idFile' \in [Dirs -> 0..MaxIds] /\ drawn' \in 0..MaxIds
  BY <1>0, <1>1 DEF TypeOK
<1> QED BY <1>0, <1>1, <1>3, <1>5, <1>6, <1>7, <1>8, BoundsKept, OutsidePass

(* Before it has its identity a process has nothing to do for a pass.      *)
LEMMA BeforePass ==
  ASSUME IInv, NEW g \in Gateways, ~Loaded(g)
  PROVE  proc[g].result = "none" /\ proc[g].todo = {} /\ proc[g].page = {}
BY DEF IInv, Passes, PassOf, Resting, Loaded

LEMMA DrawIdentityKeeps ==
  ASSUME IInv, NEW g \in Gateways, DrawIdentity(g)
  PROVE  IInv'
<1> DEFINE p == [proc[g] EXCEPT !.pc = "link", !.id = drawn + 1]
<1>0. TypeOK /\ Tags /\ Identities /\ Draws
  BY DEF IInv
<1>1. /\ At(g, "identity") /\ drawn' = drawn + 1
      /\ proc' = [proc EXCEPT ![g] = p]
      /\ UNCHANGED <<idFile, azure, routes, bounds>>
  BY DEF DrawIdentity
<1>2. ~Loaded(g) /\ proc[g] \in Process
  BY <1>0, <1>1, Fields DEF Loaded, At
<1>3. drawn \in Nat /\ faults \in Nat /\ faults <= MaxFaults
      /\ drawn \in Int /\ idFile \in [Dirs -> 0..MaxIds]
  BY <1>0, IdBounds DEF TypeOK
<1>4. Cardinality(Undrawn) >= 1 /\ Cardinality(Undrawn) \in Nat
      /\ Cardinality(Undrawn \ {g}) = Cardinality(Undrawn) - 1
  <2>1. g \in Undrawn
    BY <1>1 DEF Undrawn, At
  <2>2. Cardinality(Undrawn \ {g}) = Cardinality(Undrawn) - 1
    BY <2>1, UndrawnFinite, FS_RemoveElement
  <2>3. Cardinality(Undrawn \ {g}) \in Nat
    BY UndrawnFinite, FS_RemoveElement, FS_CardinalityType
  <2> QED BY <2>2, <2>3, UndrawnFinite
<1>5. drawn + 1 \in 0..MaxIds
  BY <1>0, <1>3, <1>4, IdBounds DEF Draws
<1>6. /\ p \in Process /\ p.pc = "link" /\ p.id = drawn + 1
      /\ p.result = proc[g].result /\ p.todo = proc[g].todo /\ p.page = proc[g].page
  BY <1>2, <1>5 DEF Process
<1> HIDE DEF p
<1>7. /\ proc'[g] = p
      /\ \A h \in Gateways \ {g} : proc'[h] = proc[h]
  BY <1>0, <1>1, <1>6, Update
<1>8. Draws'
  <2>1. Undrawn' = Undrawn \ {g}
    BY <1>6, <1>7 DEF Undrawn
  <2>2. faults' = faults
    BY <1>1 DEF bounds
  <2> QED BY <1>0, <1>1, <1>3, <1>4, <2>1, <2>2, IdBounds DEF Draws
<1>9. Identities'
  <2>1. \A d \in Dirs : idFile[d] <= drawn /\ idFile[d] \in Int
    BY <1>0, <1>3, IdBounds DEF Identities
  <2>2. \A d \in Dirs : idFile[d] <= drawn + 1 /\ idFile[d] # drawn + 1
    BY <1>3, <2>1
  <2>3. \A h \in Gateways \ {g} : At(h, "link") =>
          proc[h].id <= drawn + 1 /\ proc[h].id # drawn + 1
    BY <1>0, <1>3, Fields DEF Identities
  <2>4. \A h \in Gateways : (At(h, "reread"))' => At(h, "reread")
    BY <1>6, <1>7 DEF At
  <2>5. \A h \in Gateways : Loaded(h)' => Loaded(h) /\ proc'[h].id = proc[h].id
    BY <1>6, <1>7 DEF Loaded
  <2>6. ASSUME NEW h \in Gateways, (At(h, "link"))'
        PROVE  /\ proc'[h].id # 0 /\ proc'[h].id <= drawn + 1
               /\ \A d \in Dirs : idFile[d] # proc'[h].id
               /\ \A k \in Gateways \ {h} :
                    (At(k, "link"))' => proc'[k].id # proc'[h].id
    <3>1. CASE h = g
      BY <1>3, <1>6, <1>7, <2>2, <2>3, <3>1 DEF At
    <3>2. CASE h # g
      <4>1. At(h, "link") /\ proc'[h] = proc[h]
        BY <1>7, <2>6, <3>2 DEF At
      <4>2. /\ proc[h].id # 0 /\ \A d \in Dirs : idFile[d] # proc[h].id
            /\ \A k \in Gateways \ {h} : At(k, "link") => proc[k].id # proc[h].id
        BY <1>0, <4>1 DEF Identities
      <4>3. \A k \in Gateways \ {h} :
              (At(k, "link"))' => proc'[k].id # proc[h].id
        BY <1>6, <1>7, <2>3, <3>2, <4>1, <4>2 DEF At
      <4> QED BY <2>3, <3>2, <4>1, <4>2, <4>3
    <3> QED BY <3>1, <3>2
  <2> QED BY <1>0, <1>1, <2>2, <2>4, <2>5, <2>6 DEF Identities
<1>10. UNCHANGED <<records, rules, touched>> /\ etag' = etag
  BY <1>1 DEF azure
<1> QED BY <1>0, <1>1, <1>2, <1>3, <1>5, <1>6, <1>8, <1>9, <1>10, BeforePass,
           BoundsKept, OutsidePass

LEMMA LinkIdentityKeeps ==
  ASSUME IInv, NEW g \in Gateways, LinkIdentity(g)
  PROVE  IInv'
<1> DEFINE p == [proc[g] EXCEPT !.pc = "reread"]
           mine == DirOf[g]
<1>0. TypeOK /\ Tags /\ Identities /\ Draws
  BY DEF IInv
<1>1. /\ At(g, "link") /\ proc' = [proc EXCEPT ![g] = p]
      /\ UNCHANGED <<drawn, azure, routes, bounds>>
  BY DEF LinkIdentity
<1>2. /\ ~Loaded(g) /\ proc[g] \in Process /\ mine \in Dirs
      /\ proc[g].id \in 0..MaxIds
  BY <1>0, <1>1, Fields DEF Loaded, At
<1>3. /\ p \in Process /\ p.pc = "reread" /\ p.id = proc[g].id
      /\ p.result = proc[g].result /\ p.todo = proc[g].todo /\ p.page = proc[g].page
  BY <1>2 DEF Process
<1> HIDE DEF p
<1>4. /\ proc'[g] = p
      /\ \A h \in Gateways \ {g} : proc'[h] = proc[h]
  BY <1>0, <1>1, <1>3, Update
<1>5. /\ idFile \in [Dirs -> 0..MaxIds] /\ idFile' \in [Dirs -> 0..MaxIds]
      /\ idFile'[mine] = (IF idFile[mine] = 0 THEN proc[g].id ELSE idFile[mine])
      /\ \A d \in Dirs \ {mine} : idFile'[d] = idFile[d]
  BY <1>0, <1>2 DEF TypeOK, LinkIdentity
<1>6. Draws'
  <2>1. Undrawn' \subseteq Undrawn
    BY <1>3, <1>4 DEF Undrawn
  <2> QED BY <1>0, <1>1, <2>1, DrawsKept DEF bounds
<1>7. Identities'
  <2>1. /\ proc[g].id # 0 /\ proc[g].id <= drawn
        /\ \A d \in Dirs : idFile[d] # proc[g].id
        /\ \A h \in Gateways \ {g} : At(h, "link") => proc[h].id # proc[g].id
    BY <1>0, <1>1 DEF Identities
  <2>2. \A d \in Dirs : idFile'[d] = idFile[d] \/ (idFile[d] = 0 /\ d = mine /\ idFile'[d] = proc[g].id)
    BY <1>5
  <2>3. \A d \in Dirs : idFile'[d] <= drawn
    BY <1>0, <2>1, <2>2 DEF Identities
  <2>4. \A d, e \in Dirs : idFile'[d] = idFile'[e] /\ idFile'[d] # 0 => d = e
    BY <1>0, <2>1, <2>2 DEF Identities
  <2>5. ASSUME NEW h \in Gateways, (At(h, "link"))'
        PROVE  /\ proc'[h].id # 0 /\ proc'[h].id <= drawn
               /\ \A d \in Dirs : idFile'[d] # proc'[h].id
               /\ \A k \in Gateways \ {h} :
                    (At(k, "link"))' => proc'[k].id # proc'[h].id
    <3>1. h # g /\ At(h, "link") /\ proc'[h] = proc[h]
      BY <1>3, <1>4, <2>5 DEF At
    <3>2. /\ proc[h].id # 0 /\ proc[h].id <= drawn
          /\ \A d \in Dirs : idFile[d] # proc[h].id
          /\ \A k \in Gateways \ {h} : At(k, "link") => proc[k].id # proc[h].id
      BY <1>0, <3>1 DEF Identities
    <3>3. proc[h].id # proc[g].id
      BY <2>1, <3>1
    <3>4. \A k \in Gateways : (At(k, "link"))' => At(k, "link") /\ proc'[k] = proc[k]
      BY <1>3, <1>4 DEF At
    <3> QED BY <2>2, <3>1, <3>2, <3>3, <3>4
  <2>6. \A h \in Gateways : DirOf[h] \in Dirs
    BY DEF Dirs
  <2>7. \A h \in Gateways : (At(h, "reread"))' => idFile'[DirOf[h]] # 0
    BY <1>0, <1>3, <1>4, <1>5, <2>1, <2>2, <2>6 DEF Identities, At
  <2>8. \A h \in Gateways : Loaded(h)' =>
          proc'[h].id = idFile'[DirOf[h]] /\ proc'[h].id # 0
    BY <1>0, <1>3, <1>4, <2>2, <2>6 DEF Identities, Loaded
  <2> QED BY <1>1, <2>3, <2>4, <2>5, <2>7, <2>8 DEF Identities
<1>8. UNCHANGED <<records, rules, touched>> /\ etag' = etag
  BY <1>1 DEF azure
<1>9. drawn' \in 0..MaxIds
  BY <1>0, <1>1 DEF TypeOK
<1> QED BY <1>0, <1>1, <1>2, <1>3, <1>5, <1>6, <1>7, <1>8, <1>9, BeforePass,
           BoundsKept, OutsidePass

LEMMA RereadIdentityKeeps ==
  ASSUME IInv, NEW g \in Gateways, RereadIdentity(g)
  PROVE  IInv'
<1> DEFINE p == [proc[g] EXCEPT !.pc = "idle", !.id = idFile[DirOf[g]]]
<1>0. TypeOK /\ Tags /\ Identities /\ Draws
  BY DEF IInv
<1>1. /\ At(g, "reread") /\ proc' = [proc EXCEPT ![g] = p]
      /\ UNCHANGED <<idFile, drawn, azure, routes, bounds>>
  BY DEF RereadIdentity
<1>2. /\ ~Loaded(g) /\ proc[g] \in Process
      /\ idFile[DirOf[g]] \in 0..MaxIds /\ idFile[DirOf[g]] # 0
  BY <1>0, <1>1, Fields DEF Loaded, At, TypeOK, Identities
<1>3. /\ p \in Process /\ p.pc = "idle" /\ p.id = idFile[DirOf[g]]
      /\ p.result = proc[g].result /\ p.todo = proc[g].todo /\ p.page = proc[g].page
  BY <1>2 DEF Process
<1> HIDE DEF p
<1>4. /\ proc'[g] = p
      /\ \A h \in Gateways \ {g} : proc'[h] = proc[h]
  BY <1>0, <1>1, <1>3, Update
<1>5. Draws'
  <2>1. Undrawn' \subseteq Undrawn
    BY <1>3, <1>4 DEF Undrawn
  <2> QED BY <1>0, <1>1, <2>1, DrawsKept DEF bounds
<1>6. Identities'
  <2>1. \A h \in Gateways : (At(h, "link"))' => At(h, "link") /\ proc'[h] = proc[h]
    BY <1>3, <1>4 DEF At
  <2>2. \A h \in Gateways : (At(h, "reread"))' => At(h, "reread")
    BY <1>3, <1>4 DEF At
  <2>3. \A h \in Gateways : Loaded(h)' =>
          proc'[h].id = idFile[DirOf[h]] /\ proc'[h].id # 0
    BY <1>0, <1>2, <1>3, <1>4 DEF Loaded, Identities
  <2> QED BY <1>0, <1>1, <2>1, <2>2, <2>3 DEF Identities
<1>7. UNCHANGED <<records, rules, touched>> /\ etag' = etag
  BY <1>1 DEF azure
<1>8. idFile' \in [Dirs -> 0..MaxIds] /\ drawn' \in 0..MaxIds
  BY <1>0, <1>1 DEF TypeOK
<1> QED BY <1>0, <1>1, <1>2, <1>3, <1>5, <1>6, <1>7, <1>8, BeforePass,
           BoundsKept, OutsidePass

----------------------------------------------------------------------------
(* Faults and the operator.                                                *)

LEMMA OneFault ==
  ASSUME TypeOK, faults < MaxFaults, faults' = faults + 1,
         UNCHANGED <<edits, applies>>
  PROVE  /\ edits' \in 0..MaxEdits /\ applies' \in 0..MaxApplies
         /\ faults' \in 0..MaxFaults /\ faults <= faults' /\ faults' \in Nat
         /\ faults \in Nat
BY BoundAssumption DEF TypeOK

(* A process dies: it may draw another identity.                           *)
LEMMA Dies ==
  ASSUME IInv, NEW g \in Gateways, proc' = [proc EXCEPT ![g] = Down],
         UNCHANGED <<idFile, drawn, records, rules, touched, routes>>,
         UNCHANGED <<edits, applies>>,
         faults < MaxFaults, faults' = faults + 1,
         \/ etag' = etag /\ ~Loaded(g)
         \/ etag' = [etag EXCEPT ![g] = {}]
  PROVE  IInv'
<1>0. TypeOK /\ Tags /\ Identities /\ Draws
  BY DEF IInv
<1>1. /\ proc'[g] = Down
      /\ \A h \in Gateways \ {g} : proc'[h] = proc[h]
  BY <1>0, DownProcess, Update
<1>2. Draws'
  <2>1. Undrawn' = Undrawn \cup {g}
    BY <1>1, DownProcess DEF Undrawn
  <2>2. /\ Cardinality(Undrawn') <= Cardinality(Undrawn) + 1
        /\ Cardinality(Undrawn') \in Nat /\ Cardinality(Undrawn) \in Nat
    BY <2>1, UndrawnFinite, FS_AddElement
  <2>3. drawn \in Int /\ drawn' = drawn
    BY <1>0, IdBounds DEF TypeOK
  <2> QED BY <1>0, <2>2, <2>3, OneFault, IdBounds DEF Draws
<1>3. Identities'
  <2>1. \A h \in Gateways : (At(h, "link"))' => At(h, "link") /\ proc'[h] = proc[h]
    BY <1>1, DownProcess DEF At
  <2>2. \A h \in Gateways : (At(h, "reread"))' => At(h, "reread")
    BY <1>1, DownProcess DEF At
  <2>3. \A h \in Gateways : Loaded(h)' => Loaded(h) /\ proc'[h].id = proc[h].id
    BY <1>1, DownProcess DEF Loaded
  <2> QED BY <1>0, <2>1, <2>2, <2>3 DEF Identities
<1>4. idFile' \in [Dirs -> 0..MaxIds] /\ drawn' \in 0..MaxIds
  BY <1>0 DEF TypeOK
<1> QED BY <1>0, <1>2, <1>3, <1>4, DownProcess, OneFault, OutsidePass

LEMMA CallFailsKeeps ==
  ASSUME IInv, NEW g \in Gateways, CallFails(g)
  PROVE  IInv'
<1>0. TypeOK
  BY DEF IInv
<1>1. /\ Calling(g) /\ faults < MaxFaults /\ faults' = faults + 1
      /\ UNCHANGED <<edits, applies>>
  BY DEF CallFails
<1>2. CASE proc[g].pc \in {"identity", "link", "reread"}
  BY <1>1, <1>2, Dies DEF CallFails, azure, Loaded
<1>3. CASE proc[g].pc \notin {"identity", "link", "reread"}
  <2>1. Loaded(g) /\ Fail(g)
    BY <1>1, <1>3 DEF CallFails, Calling, Loaded, At
  <2> QED BY <1>0, <1>1, <2>1, OneFault, FailKeeps
<1> QED BY <1>2, <1>3

LEMMA CrashKeeps ==
  ASSUME IInv, NEW g \in Gateways, Crash(g)
  PROVE  IInv'
BY Dies DEF Crash

LEMMA RecordAnswerLost ==
  ASSUME IInv, NEW g \in Gateways, Loaded(g), Ended(g, "error"),
         NEW n \in Names, NEW r \in Record,
         records' = [records EXCEPT ![n] = r], Written({g}, n),
         UNCHANGED <<idFile, drawn, rules, routes>>,
         UNCHANGED <<edits, applies>>,
         faults < MaxFaults, faults' = faults + 1
  PROVE  IInv'
<1>0. TypeOK /\ Tags
  BY DEF IInv
<1>1. /\ proc' \in [Gateways -> Process]
      /\ proc'[g].pc = "idle" /\ proc'[g].result = "error"
      /\ proc'[g].id = proc[g].id /\ proc'[g].todo = {} /\ proc'[g].page = {}
      /\ \A h \in Gateways \ {g} : proc'[h] = proc[h]
  BY <1>0, EndedFields
<1>2. PassStep(g)
  BY <1>0, <1>1, OneFault DEF PassStep, Loaded
<1>3. /\ SeenByOthers(g) /\ Tags'
      /\ records' \in [Names -> Record]
      /\ etag' \in [Gateways -> SUBSET Names]
      /\ touched' \in [Gateways -> SUBSET (Names \cup {<<i>> : i \in Ids})]
  BY <1>0, <1>2, RecordWrittenFrame
<1>4. TypeOK'
  BY <1>0, <1>1, <1>3, OneFault DEF TypeOK
<1>5. PassOf(g)'
  BY <1>1, FailedPass
<1> QED BY <1>2, <1>3, <1>4, <1>5, PassFrame

LEMMA AnswerLostKeeps ==
  ASSUME IInv, NEW g \in Gateways, AnswerLost(g)
  PROVE  IInv'
<1>0. TypeOK /\ Identities /\ PassOf(g)
  BY DEF IInv, Passes
<1>1. /\ faults < MaxFaults /\ faults' = faults + 1 /\ Ended(g, "error")
      /\ UNCHANGED <<idFile, drawn, routes>> /\ UNCHANGED <<edits, applies>>
  BY DEF AnswerLost
<1>2. CASE /\ At(g, "put")
           /\ records' = [records EXCEPT ![proc[g].name] = Wanted(g)]
           /\ Written({g}, proc[g].name)
           /\ UNCHANGED rules
  <2>1. proc[g].name \in Names /\ Wanted(g) \in Record /\ Loaded(g)
    BY <1>0, <1>2, WantedType DEF Loaded, At
  <2> QED BY <1>1, <1>2, <2>1, RecordAnswerLost
<1>3. CASE /\ At(g, "cleanup")
           /\ \E n \in proc[g].page \cap etag[g] :
                records' = [records EXCEPT ![n] = None] /\ Written({g}, n)
           /\ UNCHANGED rules
  <2>1. PICK n \in proc[g].page \cap etag[g] :
          records' = [records EXCEPT ![n] = None] /\ Written({g}, n)
    BY <1>3
  <2>2. n \in Names /\ None \in Record /\ Loaded(g)
    BY <1>0, <1>3, Fields DEF Record, Loaded, At
  <2> QED BY <1>1, <1>3, <2>1, <2>2, RecordAnswerLost
<1>4. CASE At(g, "rule") /\ RuleWritten(g) /\ UNCHANGED records
  BY <1>0, <1>1, <1>4, OneFault, RuleWrittenKeeps
<1> QED BY <1>2, <1>3, <1>4 DEF AnswerLost

LEMMA ApplyKeeps ==
  ASSUME IInv, NEW g \in Gateways, NEW hosts \in SUBSET Hosts, Apply(g, hosts)
  PROVE  IInv'
<1>0. TypeOK /\ Tags /\ Identities /\ Draws /\ Passes
  BY DEF IInv
<1>1. /\ applies < MaxApplies /\ applies' = applies + 1
      /\ routes' = [routes EXCEPT ![g] = hosts]
      /\ UNCHANGED <<idFile, drawn, azure, proc, edits, faults>>
  BY DEF Apply
<1>2. UNCHANGED <<records, rules, etag, touched>>
  BY <1>1 DEF azure
<1>3. TypeOK'
  BY <1>0, <1>1, <1>2, BoundAssumption DEF TypeOK
<1>4. Draws'
  BY <1>0, <1>1 DEF Draws, Undrawn
<1>5. Identities'
  BY <1>0, <1>1 DEF Identities, At, Loaded
<1>6. Tags'
  BY <1>0, <1>1, <1>2 DEF Tags, Loaded, ownsDNSRecord
<1>7. ASSUME NEW h \in Gateways
      PROVE  PassOf(h)'
  <2>1. PassOf(h) /\ proc'[h] = proc[h] /\ (Loaded(h) => proc[h].id \in Ids)
    BY <1>0, <1>1, LoadedId DEF Passes
  <2> QED BY <1>0, <1>2, <2>1, OthersPass
<1>8. Passes'
  BY <1>7 DEF Passes
<1> QED BY <1>3, <1>4, <1>5, <1>6, <1>8 DEF IInv

(* The operator writes x: processes go on, their passes know of it.        *)
LEMMA OperatorWrites ==
  ASSUME IInv, NEW x \in Names \cup {<<i>> : i \in Ids}, Written({}, x),
         edits < MaxEdits, edits' = edits + 1,
         records' \in [Names -> Record], rules' \in [Ids -> Rule],
         \A n \in Names : records'[n] # records[n] => n = x,
         \A i \in Ids : rules'[i] # rules[i] => <<i>> = x,
         UNCHANGED <<idFile, drawn, routes, proc, applies, faults>>
  PROVE  IInv'
<1>0. TypeOK /\ Tags /\ Identities /\ Draws /\ Passes
  BY DEF IInv
<1>1. /\ etag' \in [Gateways -> SUBSET Names]
      /\ touched' \in [Gateways -> SUBSET (Names \cup {<<i>> : i \in Ids})]
      /\ \A h \in Gateways : etag'[h] = etag[h] \ {x}
      /\ \A h \in Gateways : touched'[h] =
           IF {} = {h} THEN touched[h] ELSE touched[h] \cup {x}
  BY <1>0, WrittenTypes
<1>2. \A h \in Gateways : touched'[h] = touched[h] \cup {x}
  BY <1>1
<1>3. TypeOK'
  BY <1>0, <1>1, BoundAssumption DEF TypeOK
<1>4. Draws'
  BY <1>0 DEF Draws, Undrawn
<1>5. Identities'
  BY <1>0 DEF Identities, At, Loaded
<1>6. Tags'
  <2>1. ASSUME NEW h \in Gateways, etag'[h] # {}
        PROVE  /\ etag'[h] \subseteq etag[h] /\ Loaded(h)'
               /\ proc'[h].id = proc[h].id
               /\ \A n \in etag'[h] : records'[n] = records[n]
    BY <1>0, <1>1, <2>1 DEF Tags, Loaded
  <2> QED BY <1>0, <2>1, TagsKept
<1>7. ASSUME NEW h \in Gateways
      PROVE  PassOf(h)'
  <2>1. PassOf(h) /\ proc'[h] = proc[h] /\ (Loaded(h) => proc[h].id \in Ids)
    BY <1>0, LoadedId DEF Passes
  <2> QED BY <1>0, <1>2, <2>1, OthersPass
<1>8. Passes'
  BY <1>7 DEF Passes
<1> QED BY <1>3, <1>4, <1>5, <1>6, <1>8 DEF IInv

LEMMA EditRecordKeeps ==
  ASSUME IInv, NEW n \in Names, NEW r \in Record, EditRecord(n, r)
  PROVE  IInv'
<1>1. TypeOK
  BY DEF IInv
<1>2. records' \in [Names -> Record] /\ rules' \in [Ids -> Rule]
      /\ \A m \in Names : records'[m] # records[m] => m = n
  BY <1>1 DEF TypeOK, EditRecord
<1> QED BY <1>2, OperatorWrites DEF EditRecord

LEMMA EditRuleKeeps ==
  ASSUME IInv, NEW i \in Ids, EditRule(i)
  PROVE  IInv'
<1>1. TypeOK
  BY DEF IInv
<1>2. PICK r \in {NoRule, [rules[i] EXCEPT !.owner = Other]} :
        rules' = [rules EXCEPT ![i] = r]
  BY DEF EditRule
<1>3. rules[i] \in Rule /\ rules[i] # NoRule
  BY <1>1 DEF TypeOK, EditRule
<1>4. r \in Rule
  BY <1>3 DEF Rule
<1>5. /\ rules' \in [Ids -> Rule] /\ records' \in [Names -> Record]
      /\ \A j \in Ids : rules'[j] # rules[j] => j = i
  BY <1>1, <1>2, <1>4 DEF TypeOK, EditRule
<1> QED BY <1>5, OperatorWrites DEF EditRule

----------------------------------------------------------------------------
(* The invariant.                                                          *)

LEMMA InitHolds == Init => IInv
<1> SUFFICES ASSUME Init PROVE IInv
  OBVIOUS
<1>1. \A g \in Gateways : proc[g] = Down
  BY DEF Init
<1>2. TypeOK
  <2>1. None \in Record /\ NoRule \in Rule
    BY DEF Record, Rule
  <2> QED BY <2>1, DownProcess, IdBounds, BoundAssumption DEF Init, TypeOK
<1>3. Draws
  <2>1. Undrawn = Gateways
    BY <1>1, DownProcess DEF Undrawn
  <2> QED BY <2>1, IdBounds DEF Draws, Init
<1>4. Identities
  <2>1. \A d \in Dirs : idFile[d] = 0
    BY DEF Init
  <2>2. drawn = 0
    BY DEF Init
  <2> QED BY <1>1, <2>1, <2>2, DownProcess DEF Identities, At, Loaded
<1>5. Tags
  BY DEF Init, Tags
<1>6. Passes
  BY <1>1, DownProcess DEF Passes, PassOf, WritesDone, CleaningDone, RuleDone,
     Resting, Loaded, Writing, Cleaning, Succeeded, At
<1> QED BY <1>2, <1>3, <1>4, <1>5, <1>6 DEF IInv

LEMMA Stutters ==
  ASSUME IInv, UNCHANGED vars
  PROVE  IInv'
<1>1. UNCHANGED <<idFile, drawn, records, rules, etag, touched, routes, proc,
                  edits, applies, faults>>
  BY DEF vars, azure, bounds
<1>2. TypeOK /\ Tags /\ Identities /\ Draws /\ Passes
  BY DEF IInv
<1>3. TypeOK'
  BY <1>1, <1>2 DEF TypeOK
<1>4. Draws' /\ Identities' /\ Tags'
  BY <1>1, <1>2 DEF Draws, Undrawn, Identities, Tags, At, Loaded, ownsDNSRecord
<1>5. ASSUME NEW h \in Gateways
      PROVE  PassOf(h)'
  <2>1. PassOf(h) /\ (Loaded(h) => proc[h].id \in Ids)
    BY <1>2, LoadedId DEF Passes
  <2> QED BY <1>1, <1>2, <2>1, OthersPass
<1>6. Passes'
  BY <1>5 DEF Passes
<1> QED BY <1>3, <1>4, <1>6 DEF IInv

LEMMA StepHolds ==
  ASSUME IInv, NEW g \in Gateways, Step(g)
  PROVE  IInv'
BY StartKeeps, DrawIdentityKeeps, LinkIdentityKeeps, RereadIdentityKeeps,
   ReconcileKeeps, GetRecordKeeps, DeleteRecordKeeps, PutRecordKeeps,
   StartCleanupKeeps, ListPageKeeps, GetRuleKeeps, PutRuleKeeps DEF Step

LEMMA DisturbanceHolds ==
  ASSUME IInv, Disturbance
  PROVE  IInv'
<1>1. ASSUME NEW n \in Names, NEW o \in 1..drawn \cup {Other}, NEW ip \in IPs
      PROVE  [owner |-> o, ip |-> ip] \in Record
  <2>1. drawn \in 0..MaxIds
    BY DEF IInv, TypeOK
  <2>2. o \in Ids \cup {Other}
    BY <2>1, IdBounds DEF Ids
  <2> QED BY <2>2 DEF Record
<1>2. None \in Record
  BY DEF Record
<1> QED BY <1>1, <1>2, CallFailsKeeps, AnswerLostKeeps, CrashKeeps, ApplyKeeps,
           EditRecordKeeps, EditRuleKeeps DEF Disturbance

LEMMA Invariant == Spec => []IInv
<1>1. IInv /\ [Next]_vars => IInv'
  BY StepHolds, DisturbanceHolds, Stutters DEF Next
<1> QED BY <1>1, InitHolds, PTL DEF Spec

(* loadInstanceID: however processes race for the identity file, fail or   *)
(* die, those that share a state directory have one identity and those     *)
(* that do not have different ones.                                        *)
THEOREM OneIdentityPerDirectory == Spec => []IdentityExact
<1>1. IInv => IdentityExact
  <2> SUFFICES ASSUME IInv, NEW g \in Gateways, NEW h \in Gateways,
                      Loaded(g), Loaded(h)
               PROVE  proc[g].id = proc[h].id <=> DirOf[g] = DirOf[h]
    BY DEF IdentityExact
  <2>1. TypeOK /\ Identities
    BY DEF IInv
  <2>2. /\ proc[g].id = idFile[DirOf[g]] /\ proc[g].id # 0
        /\ proc[h].id = idFile[DirOf[h]]
    BY <2>1 DEF Identities
  <2>3. DirOf[g] \in Dirs /\ DirOf[h] \in Dirs
    BY <2>1, Fields
  <2>4. idFile[DirOf[g]] = idFile[DirOf[h]] /\ idFile[DirOf[g]] # 0
          => DirOf[g] = DirOf[h]
    BY <2>1, <2>3 DEF Identities
  <2> QED BY <2>2, <2>4
<1> QED BY <1>1, Invariant, PTL

(* Reconcile: a pass without an error has done all of its work, whatever   *)
(* failed, crashed or was edited before, except for what others have       *)
(* changed since it began.                                                 *)
THEOREM HonestPasses == Spec => []PassesSound
<1>1. IInv => PassesSound
  <2> SUFFICES ASSUME IInv PROVE PassComplete
    BY DEF IInv, PassesSound
  <2>1. TypeOK /\ Passes
    BY DEF IInv
  <2> SUFFICES ASSUME NEW g \in Gateways, At(g, "idle"), proc[g].result = "ok"
               PROVE  /\ proc[g].cfg.manageDNS =>
                           \A n \in InScope(g) \ touched[g] :
                             IF n \in DesiredBy(g) THEN records[n] = Wanted(g)
                                                  ELSE ~ownsDNSRecord(g, n)
                      /\ proc[g].cfg.manageNSG /\ <<proc[g].id>> \notin touched[g] =>
                           rules[proc[g].id] = WantedRule(g)
    BY DEF PassComplete
  <2>2. PassOf(g) /\ Succeeded(g) /\ Cleaning(g)
    BY <2>1 DEF Passes, Succeeded, Cleaning
  <2>3. proc[g].todo = {} /\ proc[g].page = {}
    BY <2>2 DEF PassOf, Resting, At
  <2>4. CleaningDone(g) /\ RuleDone(g)
    BY <2>2 DEF PassOf
  <2> QED BY <2>2, <2>3, <2>4 DEF CleaningDone, RuleDone, UpToDate, Cleaned
<1> QED BY <1>1, Invariant, PTL

----------------------------------------------------------------------------
(* Who writes what.                                                        *)

(* The three writes of a pass.                                             *)
PutBy(g) ==
  /\ At(g, "put") /\ PreconditionHolds(g, proc[g].name)
  /\ records' = [records EXCEPT ![proc[g].name] = Wanted(g)] /\ rules' = rules

DeletedBy(g) ==
  /\ At(g, "cleanup") /\ rules' = rules
  /\ \E n \in proc[g].page \cap etag[g] : records' = [records EXCEPT ![n] = None]

RuleBy(g) ==
  /\ rules' = [rules EXCEPT ![proc[g].id] = WantedRule(g)] /\ records' = records

Acts(g) == proc'[g] # proc[g] /\ \A h \in Gateways \ {g} : proc'[h] = proc[h]

Quiet == records' = records /\ rules' = rules

WriteOf(g) == Acts(g) /\ (PutBy(g) \/ DeletedBy(g) \/ RuleBy(g))

LEMMA EndedActs ==
  ASSUME TypeOK, NEW g \in Gateways, NEW r \in {"ok", "error"}, Ended(g, r),
         ~At(g, "idle")
  PROVE  Acts(g)
BY EndedFields DEF Acts, At

LEMMA StepWrites ==
  ASSUME IInv, NEW g \in Gateways, Step(g)
  PROVE  Quiet \/ WriteOf(g)
<1>0. TypeOK
  BY DEF IInv
<1>1. CASE \/ \E c \in Configs : Start(g, c)
           \/ DrawIdentity(g) \/ LinkIdentity(g) \/ RereadIdentity(g)
           \/ Reconcile(g) \/ StartCleanup(g)
           \/ \E listed \in SUBSET proc[g].todo : ListPage(g, listed)
           \/ GetRule(g)
           \/ \E n \in Names : GetRecord(g, n)
  BY <1>1 DEF Start, DrawIdentity, LinkIdentity, RereadIdentity, Reconcile,
       StartCleanup, ListPage, GetRule, GetRecord, Fail, azure, Quiet
<1>2. ASSUME NEW n \in Names, DeleteRecord(g, n)
      PROVE  Quiet \/ WriteOf(g)
  <2>1. CASE n \in etag[g] /\ records' = [records EXCEPT ![n] = None]
             /\ proc' = [proc EXCEPT ![g].page = @ \ {n}] /\ rules' = rules
    <3>1. proc[g] \in Process /\ n \in proc[g].page
      BY <1>0, <1>2, Fields DEF DeleteRecord
    <3>2. [proc[g] EXCEPT !.page = @ \ {n}] \in Process
      BY <3>1 DEF Process
    <3>3. [proc[g] EXCEPT !.page = @ \ {n}].page # proc[g].page
      BY <3>1 DEF Process
    <3>4. /\ proc'[g] = [proc[g] EXCEPT !.page = @ \ {n}]
          /\ \A h \in Gateways \ {g} : proc'[h] = proc[h]
      BY <1>0, <2>1, <3>2, Update
    <3>5. Acts(g)
      BY <3>3, <3>4 DEF Acts
    <3> QED BY <1>2, <2>1, <3>1, <3>5 DEF WriteOf, DeletedBy, DeleteRecord
  <2> QED BY <1>2, <2>1 DEF DeleteRecord, Fail, azure, Quiet
<1>3. CASE PutRecord(g)
  <2>1. CASE ~PreconditionHolds(g, proc[g].name)
    BY <1>3, <2>1 DEF PutRecord, Fail, Quiet
  <2>2. CASE PreconditionHolds(g, proc[g].name)
    <3> DEFINE n == proc[g].name
               p == [proc[g] EXCEPT !.pc = "write", !.name = <<>>,
                                    !.free = FALSE, !.todo = @ \ {n}]
    <3>1. proc[g] \in Process /\ proc' = [proc EXCEPT ![g] = p]
          /\ At(g, "put") /\ rules' = rules
          /\ records' = [records EXCEPT ![n] = Wanted(g)]
      BY <1>0, <1>3, <2>2, Fields DEF PutRecord
    <3>2. p \in Process /\ p.pc = "write"
      BY <3>1 DEF Process
    <3> HIDE DEF p
    <3>3. proc'[g] = p /\ \A h \in Gateways \ {g} : proc'[h] = proc[h]
      BY <1>0, <3>1, <3>2, Update
    <3>4. Acts(g)
      BY <3>1, <3>2, <3>3 DEF Acts, At
    <3> QED BY <2>2, <3>1, <3>4 DEF WriteOf, PutBy
  <2> QED BY <2>1, <2>2
<1>4. CASE PutRule(g) \/ DeleteRule(g)
  <2>1. Acts(g)
    BY <1>0, <1>4, EndedActs DEF PutRule, DeleteRule, At
  <2> QED BY <1>4, <2>1 DEF WriteOf, RuleBy, PutRule, DeleteRule, RuleWritten, nsgRuleName
<1> QED BY <1>1, <1>2, <1>3, <1>4 DEF Step

LEMMA DisturbanceWrites ==
  ASSUME IInv, Disturbance, edits' = edits
  PROVE  Quiet \/ \E g \in Gateways : WriteOf(g)
<1>0. TypeOK
  BY DEF IInv
<1>1. edits \in Int
  BY <1>0, BoundAssumption DEF TypeOK
<1>2. ASSUME NEW g \in Gateways, AnswerLost(g)
      PROVE  WriteOf(g)
  <2>1. Acts(g)
    BY <1>0, <1>2, EndedActs DEF AnswerLost, At
  <2> QED BY <1>2, <2>1 DEF WriteOf, AnswerLost, PutBy, DeletedBy, RuleBy,
                            RuleWritten, nsgRuleName
<1>3. ASSUME NEW g \in Gateways, CallFails(g) \/ Crash(g)
      PROVE  Quiet
  BY <1>3 DEF CallFails, Crash, Fail, azure, Quiet
<1>4. ASSUME NEW g \in Gateways, NEW hosts \in SUBSET Hosts, Apply(g, hosts)
      PROVE  Quiet
  BY <1>4 DEF Apply, azure, Quiet
<1>5. ASSUME NEW n, NEW r, EditRecord(n, r)
      PROVE  FALSE
  BY <1>1, <1>5 DEF EditRecord
<1>6. ASSUME NEW i, EditRule(i)
      PROVE  FALSE
  BY <1>1, <1>6 DEF EditRule
<1> QED BY <1>2, <1>3, <1>4, <1>5, <1>6 DEF Disturbance

LEMMA NextWrites ==
  ASSUME IInv, [Next]_vars, edits' = edits
  PROVE  Quiet \/ \E g \in Gateways : WriteOf(g)
<1>1. CASE UNCHANGED vars
  BY <1>1 DEF vars, azure, Quiet
<1> QED BY <1>1, StepWrites, DisturbanceWrites DEF Next

(* A record is free or carries the gateway's identity when it is written.  *)
LEMMA OwnWrites ==
  ASSUME IInv, [Next]_vars, edits' = edits
  PROVE  /\ \A n \in Names : records'[n] # records[n] =>
              \E g \in Gateways :
                proc'[g] # proc[g] /\ (records[n] = None \/ ownsDNSRecord(g, n))
         /\ \A i \in Ids : rules'[i] # rules[i] =>
              \E g \in Gateways : proc'[g] # proc[g] /\ proc[g].id = i
<1>0. TypeOK /\ Tags /\ Identities /\ Passes
  BY DEF IInv
<1>1. CASE Quiet
  BY <1>1 DEF Quiet
<1>2. ASSUME NEW g \in Gateways, WriteOf(g)
      PROVE  /\ \A n \in Names : records'[n] # records[n] =>
                  proc'[g] # proc[g] /\ (records[n] = None \/ ownsDNSRecord(g, n))
             /\ \A i \in Ids : rules'[i] # rules[i] =>
                  proc'[g] # proc[g] /\ proc[g].id = i
  <2>0. proc'[g] # proc[g] /\ \A n \in etag[g] : ownsDNSRecord(g, n)
    BY <1>0, <1>2 DEF WriteOf, Acts, Tags
  <2>1. CASE PutBy(g)
    <3>1. \A n \in Names : records'[n] # records[n] => n = proc[g].name
      BY <1>0, <2>1 DEF PutBy, TypeOK
    <3>2. records[proc[g].name] = None \/ proc[g].name \in etag[g]
      BY <2>1 DEF PutBy, PreconditionHolds
    <3> QED BY <2>0, <2>1, <3>1, <3>2 DEF PutBy
  <2>2. CASE DeletedBy(g)
    <3>1. \A n \in Names : records'[n] # records[n] => n \in etag[g]
      BY <1>0, <2>2 DEF DeletedBy, TypeOK
    <3> QED BY <2>0, <2>2, <3>1 DEF DeletedBy
  <2>3. CASE RuleBy(g)
    <3>1. \A i \in Ids : rules'[i] # rules[i] => i = proc[g].id
      BY <1>0, <2>3 DEF RuleBy, TypeOK
    <3> QED BY <2>0, <2>3, <3>1 DEF RuleBy
  <2> QED BY <1>2, <2>1, <2>2, <2>3 DEF WriteOf
<1> QED BY <1>1, <1>2, NextWrites

(* A host in a zone is the name of its record there followed by the zone.  *)
LEMMA HostFromName ==
  ASSUME NEW h \in Seq(STRING), NEW z \in Seq(STRING), InZone(h, z)
  PROVE  relativeRecordName(h, z) \o z = h /\ Len(z) <= Len(h)
<1> DEFINE k == Len(h) - Len(z)
           r == SubSeq(h, 1, k)
<1>1. /\ Len(h) \in Nat /\ Len(z) \in Nat
  BY LenProperties
<1>2. /\ Reverse(h) = [i \in 1..Len(h) |-> h[(Len(h) - i) + 1]]
      /\ Reverse(z) = [i \in 1..Len(z) |-> z[(Len(z) - i) + 1]]
  BY DEF Reverse
<1>3. Reverse(h) \in Seq(STRING) /\ Reverse(z) \in Seq(STRING)
  BY <1>1, <1>2, IsASeq
<1>4. Len(Reverse(h)) = Len(h) /\ Len(Reverse(z)) = Len(z)
  BY <1>1, <1>2, <1>3
<1>5. Len(z) <= Len(h)
      /\ SubSeq(Reverse(z), 1, Len(z)) = SubSeq(Reverse(h), 1, Len(z))
  BY <1>4 DEF InZone, IsSuffix, IsPrefix
<1>6. \A i \in 1..Len(z) : Reverse(z)[i] = Reverse(h)[i]
  BY <1>1, <1>3, <1>4, <1>5
<1>7. \A i \in 1..Len(z) : z[i] = h[k + i]
  <2> SUFFICES ASSUME NEW i \in 1..Len(z) PROVE z[i] = h[k + i]
    OBVIOUS
  <2> DEFINE j == Len(z) - i + 1
  <2>1. j \in 1..Len(z) /\ j \in 1..Len(h) /\ (Len(z) - j) + 1 = i
        /\ (Len(h) - j) + 1 = k + i
    BY <1>1, <1>5
  <2>2. Reverse(z)[j] = z[(Len(z) - j) + 1] /\ Reverse(h)[j] = h[(Len(h) - j) + 1]
    <3> HIDE DEF j
    <3> QED BY <1>2, <2>1
  <2>3. Reverse(z)[j] = Reverse(h)[j]
    BY <1>6, <2>1
  <2> QED BY <2>1, <2>2, <2>3
<1>8. k \in Nat
  BY <1>1, <1>5
<1>9. r \in Seq(STRING) /\ Len(r) = k /\ \A i \in 1..k : r[i] = h[i]
  BY <1>1, <1>5, <1>8
<1>10. /\ r \o z \in Seq(STRING) /\ Len(r \o z) = k + Len(z)
       /\ \A i \in 1..(k + Len(z)) :
            (r \o z)[i] = IF i <= k THEN r[i] ELSE z[i - k]
  BY <1>9, ConcatProperties
<1>11. k + Len(z) = Len(h)
  BY <1>1
<1>12. \A i \in 1..Len(h) : (r \o z)[i] = h[i]
  <2> SUFFICES ASSUME NEW i \in 1..Len(h) PROVE (r \o z)[i] = h[i]
    OBVIOUS
  <2>1. CASE i <= k
    BY <1>1, <1>8, <1>9, <1>10, <1>11, <2>1
  <2>2. CASE ~(i <= k)
    <3>1. i - k \in 1..Len(z) /\ k + (i - k) = i
      BY <1>1, <1>8, <1>11, <2>2
    <3> QED BY <1>7, <1>10, <1>11, <2>2, <3>1
  <2> QED BY <2>1, <2>2
<1>13. r \o z = h
  BY <1>10, <1>11, <1>12, SeqEqual
<1> QED BY <1>5, <1>13 DEF relativeRecordName

(* selectDNSZone finds a zone for a host that is in one.                   *)
LEMMA LongestZone ==
  ASSUME NEW h \in Seq(STRING), NEW zones, \A z \in zones : z \in Seq(STRING),
         NEW y \in zones, InZone(h, y)
  PROVE  \E z \in selectDNSZone(h, zones) : z \in zones /\ InZone(h, z)
<1> DEFINE matching == {z \in zones : InZone(h, z)}
           T == {Len(h) - Len(z) : z \in matching}
           R == {ss \in Nat \X Nat : ss[1] < ss[2]}
<1>1. \A z \in matching : Len(z) \in Nat /\ Len(h) \in Nat /\ Len(z) <= Len(h)
  BY HostFromName, LenProperties
<1>2. T \subseteq Nat /\ T # {}
  BY <1>1
<1>3. IsWellFoundedOn(R, Nat)
  BY NatLessThanWellFounded DEF OpToRel
<1>4. \E x \in T : \A t \in T : ~(<<t, x>> \in R)
  <2> HIDE DEF R, T
  <2> QED BY <1>2, <1>3, WFMin
<1>5. PICK z \in matching : \A t \in T : ~(<<t, Len(h) - Len(z)>> \in R)
  BY <1>4
<1>6. \A x \in matching : Len(x) <= Len(z)
  <2> SUFFICES ASSUME NEW x \in matching PROVE Len(x) <= Len(z)
    OBVIOUS
  <2>1. /\ Len(h) - Len(x) \in Nat /\ Len(h) - Len(z) \in Nat
        /\ Len(x) \in Nat /\ Len(z) \in Nat /\ Len(h) \in Nat
    BY <1>1
  <2>2. ~(Len(h) - Len(x) < Len(h) - Len(z))
    BY <1>5, <2>1
  <2> QED BY <2>1, <2>2
<1>7. z \in selectDNSZone(h, zones)
  BY <1>6 DEF selectDNSZone
<1> QED BY <1>7

(* A served host with a record in a configured zone has a desired record.  *)
LEMMA ServedDesired ==
  ASSUME TypeOK, NEW g \in Gateways, NEW n \in InScope(g),
         HostOf(n) \in proc[g].hosts
  PROVE  \E m \in DesiredBy(g) : HostOf(m) = HostOf(n)
<1>1. /\ n \in Names /\ n[1] \in proc[g].cfg.zones
      /\ proc[g].cfg \in Configs /\ proc[g].hosts \in SUBSET Hosts
  BY Fields DEF InScope
<1>2. PICK h \in Hosts : \E z \in {y \in Zones : InZone(h, y)} :
                           n = <<z, relativeRecordName(h, z)>>
  BY <1>1 DEF Names
<1>3. PICK z \in {y \in Zones : InZone(h, y)} : n = <<z, relativeRecordName(h, z)>>
  BY <1>2
<1>4. h \in Seq(STRING) /\ \A x \in proc[g].cfg.zones : x \in Seq(STRING)
  BY <1>1, NameAssumption, ConfigAssumption
<1>5. z \in proc[g].cfg.zones /\ InZone(h, z)
  BY <1>1, <1>3
<1>6. HostOf(n) = h
  BY <1>3, <1>4, <1>5, HostFromName DEF HostOf
<1>7. PICK y \in selectDNSZone(h, proc[g].cfg.zones) :
        y \in proc[g].cfg.zones /\ InZone(h, y)
  BY <1>4, <1>5, LongestZone
<1> DEFINE m == <<y, relativeRecordName(h, y)>>
<1>8. m \in DesiredBy(g)
  BY <1>6, <1>7 DEF DesiredBy, Desired
<1>9. HostOf(m) = h
  BY <1>4, <1>7, HostFromName DEF HostOf
<1> QED BY <1>6, <1>8, <1>9

(* A record of a served host is deleted once the desired one is there.     *)
LEMMA NoGapStep ==
  ASSUME IInv, [Next]_vars, NEW g \in Gateways, NEW n \in Names,
         edits' = edits, proc'[g] # proc[g], HostOf(n) \in proc[g].hosts,
         records[n] # None, records'[n] = None
  PROVE  \E m \in DesiredBy(g) :
           HostOf(m) = HostOf(n) /\ (records[m] # None \/ m \in touched[g])
<1>0. TypeOK /\ Tags /\ Identities /\ PassOf(g)
  BY DEF IInv, Passes
<1>1. PICK h \in Gateways : WriteOf(h)
  BY NextWrites DEF Quiet
<1>2. h = g
  BY <1>1 DEF WriteOf, Acts
<1>3. ASSUME Loaded(g)
      PROVE  Wanted(g) # None
  BY <1>0, <1>3, LoadedId DEF Wanted, None
<1>4. ~PutBy(g)
  <2> SUFFICES ASSUME PutBy(g) PROVE FALSE
    OBVIOUS
  <2>1. records'[n] = records[n] \/ records'[n] = Wanted(g)
    BY <1>0 DEF PutBy, TypeOK
  <2>2. Loaded(g)
    BY DEF PutBy, At, Loaded
  <2> QED BY <1>3, <2>1, <2>2
<1>5. DeletedBy(g)
  BY <1>1, <1>2, <1>4 DEF WriteOf, RuleBy
<1>6. n \in proc[g].page /\ At(g, "cleanup")
  BY <1>0, <1>5 DEF DeletedBy, TypeOK
<1>7. CleaningDone(g) /\ Cleaning(g) /\ Loaded(g)
  BY <1>0, <1>6 DEF PassOf, Cleaning, Loaded, At
<1>8. n \in InScope(g) /\ proc[g].cfg.manageDNS
  BY <1>0, <1>6, <1>7, Fields DEF CleaningDone
<1>9. PICK m \in DesiredBy(g) : HostOf(m) = HostOf(n)
  BY <1>0, <1>8, ServedDesired
<1>10. UpToDate(g, m)
  BY <1>7, <1>8 DEF CleaningDone
<1> QED BY <1>3, <1>7, <1>9, <1>10 DEF UpToDate

(* Reconcile leaves alone the records and rules of others, as they are at  *)
(* the moment of each write, and a host that moves to a more specific zone *)
(* keeps resolving while it does.                                          *)
THEOREM SafeRecords == Spec => RecordsSafe
<1>1. IInv /\ [Next]_vars =>
        [edits' = edits =>
           /\ \A n \in Names : records'[n] # records[n] =>
                \E g \in Gateways :
                  proc'[g] # proc[g] /\ (records[n] = None \/ ownsDNSRecord(g, n))
           /\ \A i \in Ids : rules'[i] # rules[i] =>
                \E g \in Gateways : proc'[g] # proc[g] /\ proc[g].id = i]_vars
  BY OwnWrites
<1>2. IInv /\ [Next]_vars =>
        [\A g \in Gateways, n \in Names :
           /\ edits' = edits /\ proc'[g] # proc[g] /\ HostOf(n) \in proc[g].hosts
           /\ records[n] # None /\ records'[n] = None
           => \E m \in DesiredBy(g) :
                HostOf(m) = HostOf(n) /\ (records[m] # None \/ m \in touched[g])]_vars
  BY NoGapStep
<1> QED BY <1>1, <1>2, Invariant, PTL DEF Spec, RecordsSafe, ForeignUntouched, NoGap

=============================================================================
