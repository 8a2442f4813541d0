--------------------------- MODULE MCGatewayConfig ---------------------------
(* Two gateways; the second has a management host name.                    *)
EXTENDS GatewayConfig

zone == [name |-> <<"x", "y">>, group |-> "dns"]
wild == {<<"*", "x", "y">>}
NoAzure == Defaults.azure
InAzure == [NoAzure EXCEPT !.enabled = TRUE, !.subscription = TRUE, !.zones = {zone}]

\* The older zone setting, without a group of its own.
LegacyAzure == [NoAzure EXCEPT !.enabled = TRUE, !.subscription = TRUE,
                               !.legacy = <<"x", "y">>, !.group = "all"]
NoGroup == [LegacyAzure EXCEPT !.group = ""]

MCSecrets == [g \in {1, 2} |-> IF g = 1 THEN {"t1", "u1", "h1", "s1"}
                                        ELSE {"t2", "u2", "s2"}]
MCManagement == {2}

MCSecurity ==
  {[security |-> "strict", allow |-> {"bearer"}], [security |-> "baseline", allow |-> {}],
   [security |-> "invalid", allow |-> {"bearer"}]}

MCSystem ==
  [g \in {1, 2} |->
     {[mode |-> m, azure |-> a, token |-> t] :
        m \in {"azure-vm"}, a \in {InAzure, NoGroup},
        t \in {"", IF g = 1 THEN "u1" ELSE "u2"}}
     \cup {[mode |-> "container-socket", azure |-> LegacyAzure, token |-> ""],
           [mode |-> "aci", azure |-> NoAzure, token |-> ""]}]

\* Managed identity with values of its own or derived ones, and an
\* application with its secret or without.
ByIdentity == [Defaults.cert EXCEPT !.provider = "azure", !.subjects = wild,
                                    !.issuer = "default"]
Complete == [ByIdentity EXCEPT !.subscription = TRUE, !.group = "own"]
ByApplication(secret) == [Complete EXCEPT !.auth = "appregistration", !.ids = TRUE,
                                          !.secret = secret]
MCCertificates ==
  [g \in {1, 2} |-> {ByIdentity, Complete, ByApplication(""),
                     ByApplication(IF g = 1 THEN "s1" ELSE "s2")}]

\* Settings of a gateway that are left to the defaults, and settings made in
\* the environment.
MCEnv ==
  [g \in {1, 2} |->
     IF g = 1
     THEN [other |-> [tokens |-> {"t1"}, extra |-> "h1", required |-> FALSE],
           azure |-> <<>>, cert |-> <<>>]
     ELSE [other |-> [tokens |-> {"t2"}],
           azure |-> [enabled |-> TRUE, subscription |-> TRUE, zones |-> {zone}],
           cert |-> [provider |-> "azure", subjects |-> wild, subscription |-> TRUE,
                     group |-> "own"]]]

\* One gateway whose certificate policy, from the environment, leaves the
\* subscription and the group to the Azure settings.
DerivedPolicy ==
  [g \in {1} |->
     [other |-> [tokens |-> {"t1"}],
      azure |-> [enabled |-> TRUE, subscription |-> TRUE, zones |-> {zone}],
      cert |-> [provider |-> "azure", subjects |-> wild]]]

\* The environments of the first instance are self-contained, this one is not.
ASSUME PolicyAssumption ==
  /\ \A g \in {1, 2} : SelfContained(g, MCEnv[g])
  /\ ~SelfContained(1, DerivedPolicy[1])

AzureOff == [g \in {1} |-> {[mode |-> "azure-vm", azure |-> NoAzure, token |-> ""]}]
OneNothing == [g \in {1} |-> {}]
=============================================================================
