-------------------------- MODULE MCAzureOwnership --------------------------
(***************************************************************************)
(* Three gateways, two of which share a state directory.  The zone s.z is  *)
(* a part of the zone z, and one of the hosts is the apex of s.z.  A       *)
(* behaviour is of one of several small instances, each with the gateways, *)
(* hosts, configurations and disturbances that its question needs.         *)
(***************************************************************************)
EXTENDS AzureOwnership

CONSTANTS g1, g2, g3
VARIABLE inst

z == <<"z">>
sz == <<"s", "z">>
MCHosts == {sz, <<"b", "z">>}
MCPortOf == [h \in MCHosts |-> IF h = sz THEN 443 ELSE 8443]
MCDirOf == [g \in Gateways |-> IF g = g2 THEN g1 ELSE g]

MCConfig(zones, ip) == [zones |-> zones, ip |-> ip,
                        manageDNS |-> TRUE, manageNSG |-> TRUE]
OneZone == MCConfig({z}, "ip1")
TwoZones == MCConfig({z, sz}, "ip2")
RuleOnly == [MCConfig({z}, "") EXCEPT !.manageDNS = FALSE]
Apex(ip) == MCConfig({sz}, ip)
MCConfigs ==
  {OneZone, TwoZones, RuleOnly} \cup {Apex(ip) : ip \in {"ip1", "ip2", ""}}

Instance(gateways, hosts, configs, maxEdits, maxApplies, maxFaults) ==
  [gateways |-> gateways, hosts |-> hosts, configs |-> configs,
   edits |-> maxEdits, applies |-> maxApplies, faults |-> maxFaults]

Instances ==
  { \* A gateway is given a second zone and a new address at a restart, or
    \* manages the security rule only.
    Instance({g1}, MCHosts, {OneZone, TwoZones, RuleOnly}, 1, 0, 1),
    \* Two gateways and the operator want the same record.
    Instance({g1, g3}, {sz}, {Apex("ip1")}, 1, 1, 0),
    \* Processes that share a directory, and one that does not, start at once.
    Instance(Gateways, {}, {RuleOnly}, 0, 0, 1),
    \* Routes, addresses and failing calls come to rest.
    Instance({g1, g3}, {sz}, {Apex(ip) : ip \in {"ip1", "ip2", ""}}, 0, 1, 1)
  }

Within ==
  /\ \A g \in Gateways :
       /\ ~At(g, "down") => g \in inst.gateways /\ proc[g].cfg \in inst.configs
       /\ routes[g] \subseteq inst.hosts
  /\ edits <= inst.edits /\ applies <= inst.applies /\ faults <= inst.faults

MCvars == <<vars, inst>>
MCInit == Init /\ inst \in Instances /\ routes = [g \in Gateways |-> inst.hosts]
MCNext == Next /\ UNCHANGED inst /\ Within'
MCSpec ==
  /\ MCInit /\ [][MCNext]_MCvars
  /\ \A g \in Gateways : WF_MCvars(Step(g) /\ UNCHANGED inst /\ Within')
=============================================================================
