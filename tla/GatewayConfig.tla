---------------------------- MODULE GatewayConfig ----------------------------
(***************************************************************************)
(* What becomes of the settings of a gateway: the environment, the two     *)
(* files of the state directory, the live configuration, the requests that *)
(* change them, and the configuration archive that carries them from one   *)
(* gateway to another (internal/config, internal/api).                     *)
(*                                                                         *)
(* A request is one step here; its failures and interleavings with the     *)
(* reconciler are the subject of ControlPlane, the routes in the archive   *)
(* that of RouteStore.  A file, a draft or an archive that does not exist  *)
(* is <<>>, one that does is <<contents>>.                                 *)
(***************************************************************************)
EXTENDS CertificatePolicy

CONSTANTS
  Gateways,
  Env,                  \* what the environment of a gateway sets:
                        \*   [other, azure, cert], each a part of a record
  Management,           \* the gateways with a management host name
  SecurityRequests,     \* [security, allow]
  SystemRequests,       \* for a gateway, [mode, azure, token]
  CertificateRequests,  \* for a gateway, certificate settings
  SecretsOf,            \* the tokens, header values and client secrets of one
  MaxChanges,           \* bound: accepted changes of settings
  MaxImports            \* bound: archives imported

----------------------------------------------------------------------------
(* Loading: defaults, environment, files.                                  *)

\* security stands for the request limits and source ranges; allow for the
\* headers in which protected routes accept a token; extra for the value of
\* the additional header, whose name comes and goes with it.
Defaults ==
  [mode |-> "container-socket", docker |-> TRUE, security |-> "baseline",
   allow |-> {"bearer", "header"}, required |-> TRUE, tokens |-> {}, extra |-> "",
   azure |-> [enabled |-> FALSE, manageDNS |-> TRUE, subscription |-> FALSE,
              group |-> "", zones |-> {}, legacy |-> <<>>],
   cert |-> [issuer |-> "letsencrypt", ca |-> FALSE, subjects |-> {},
             provider |-> "", subscription |-> FALSE, group |-> "", auth |-> "",
             ids |-> FALSE, secret |-> ""]]

applyEnv(env) ==
  [(env.other @@ Defaults) EXCEPT !.azure = env.azure @@ @, !.cert = env.cert @@ @]

\* A zone without a group is in that of the other resources; the one zone of
\* the older setting counts unless it is listed.
normalizeDNSZones(azure) ==
  LET inGroup(z) == [z EXCEPT !.group = IF @ = "" THEN azure.group ELSE @]
      listed == {z.name : z \in azure.zones}
      older == IF azure.legacy \in listed \cup {<<>>} THEN {}
               ELSE {[name |-> azure.legacy, group |-> azure.group]}
  IN  {inGroup(z) : z \in azure.zones} \cup older

normalizeAzure(azure) == [azure EXCEPT !.zones = normalizeDNSZones(azure)]

normalizeConfig(c) ==
  LET azure == normalizeAzure(c.azure)
  IN  [c EXCEPT !.azure = azure, !.cert = ApplyAzureCertificateDefaults(@, azure)]

validateConfig(c) ==
  /\ c.mode \in {"container-socket", "azure-vm"}
  /\ c.security # "invalid"
  /\ ValidateCertificateConfig(c.cert)
  /\ c.azure.enabled /\ c.azure.manageDNS =>
       c.azure.zones # {} /\ \A z \in c.azure.zones : z.group # ""

Live == {"security", "allow", "required", "tokens", "extra"}
Saved == Live \cup {"mode", "docker", "azure"}

SettingsFromConfig(c) == [f \in Saved |-> c[f]]

ApplySettings(c, settings) ==
  [f \in DOMAIN c |-> IF f \in Saved THEN settings[f] ELSE c[f]]

LoadFiles(env, settings, cert) ==
  LET base == applyEnv(env)
      set == IF settings = <<>> THEN base ELSE ApplySettings(base, settings[1])
  IN  normalizeConfig(IF cert = <<>> THEN set ELSE [set EXCEPT !.cert = cert[1]])

\* A management host needs tokens (caddy.Render).
Renders(g, c) == g \in Management => c.required /\ c.tokens # {}

Acceptable(g, c) == validateConfig(c) /\ Renders(g, c)

AzureConfig ==
  [enabled : BOOLEAN, manageDNS : BOOLEAN, subscription : BOOLEAN, group : STRING,
   zones : SUBSET [name : Seq(STRING), group : STRING], legacy : Seq(STRING)]

Config ==
  [mode : STRING, docker : BOOLEAN, security : STRING, allow : SUBSET STRING,
   required : BOOLEAN, tokens : SUBSET STRING, extra : STRING,
   azure : AzureConfig, cert : CertificateConfig]

Secrets(settings, cert) ==
  (settings.tokens \cup {settings.extra, cert.secret}) \ {""}

\* A gateway and its operator have the secrets of this gateway only.
ASSUME SecretsApart ==
  \A g, h \in Gateways : g # h => SecretsOf[g] \cap SecretsOf[h] = {}
ASSUME EnvAssumption ==
  \A g \in Gateways :
    LET c == applyEnv(Env[g])
    IN  c \in Config /\ Secrets(c, c.cert) \subseteq SecretsOf[g]
ASSUME RequestAssumption ==
  \A g \in Gateways :
    /\ \A r \in SystemRequests[g] :
         r.azure \in AzureConfig /\ r.token \in SecretsOf[g] \cup {""}
    /\ \A r \in CertificateRequests[g] :
         r \in CertificateConfig /\ r.secret \in SecretsOf[g] \cup {""}

----------------------------------------------------------------------------
VARIABLES
  active,         \* the live configuration of a gateway
  settingsFile, certFile,
  draft,          \* an import that is not applied
  archive,        \* the archive exported last
  chosen,         \* history: what the operator of a gateway set last
  changes, imports

vars == <<active, settingsFile, certFile, draft, archive, chosen, changes, imports>>

Load(g) == LoadFiles(Env[g], settingsFile[g], certFile[g])

Init ==
  /\ active = [g \in Gateways |-> LoadFiles(Env[g], <<>>, <<>>)]
  /\ settingsFile = [g \in Gateways |-> <<>>]
  /\ certFile = [g \in Gateways |-> <<>>]
  /\ draft = [g \in Gateways |-> <<>>]
  /\ archive = <<>>
  /\ chosen = [g \in Gateways |-> [f \in Saved |-> applyEnv(Env[g])[f]]]
  /\ changes = 0 /\ imports = 0

\* auth.Middleware: without a token nobody is let in; whoever changes
\* settings has one of the valid ones.
Authorized(g) == active[g].required => active[g].tokens # {}

persistedSettings(g) ==
  IF settingsFile[g] = <<>> THEN SettingsFromConfig(active[g]) ELSE settingsFile[g][1]

\* Bug: what was saved for the next start is not considered.
LiveSettings(g) ==
  IF draft[g] # <<>> THEN draft[g][1].settings ELSE SettingsFromConfig(active[g])

desiredSettings(g) ==
  IF draft[g] # <<>> THEN draft[g][1].settings ELSE persistedSettings(g)

desiredCertificatePolicy(g) ==
  IF draft[g] # <<>> THEN draft[g][1].cert ELSE active[g].cert

\* A change of settings is accepted: not while an import is pending.
Change(g) ==
  /\ Authorized(g) /\ draft[g] = <<>>
  /\ changes < MaxChanges /\ changes' = changes + 1
  /\ UNCHANGED <<draft, archive, imports>>

handleSecuritySettings(g, r) ==
  LET candidate == normalizeConfig([active[g] EXCEPT !.security = r.security,
                                                     !.allow = r.allow])
      desired == [desiredSettings(g) EXCEPT !.security = r.security, !.allow = r.allow]
  IN  /\ Change(g)
      /\ r.allow = {} => active[g].extra # ""
      /\ Acceptable(g, candidate)
      /\ settingsFile' = [settingsFile EXCEPT ![g] = <<desired>>]
      /\ active' = [active EXCEPT ![g] = candidate]
      /\ chosen' = [chosen EXCEPT ![g].security = r.security, ![g].allow = r.allow]
      /\ UNCHANGED certFile

\* Bug: only the part that takes effect at once is validated.
LiveOnly(candidate) == candidate.security # "invalid"

\* What is saved for the next start is validated as the start will do.
NextStartValid(candidate) == validateConfig(candidate)

\* Mode and Azure wait for the next start, a token does not.
handleSystemSettings(g, r) ==
  LET tokens(old) == IF r.token = "" THEN old ELSE {r.token}
      merged == ApplySettings(active[g], desiredSettings(g))
      candidate == normalizeConfig(
        [merged EXCEPT !.mode = r.mode, !.docker = r.mode = "container-socket",
                       !.azure = r.azure, !.tokens = tokens(@)])
      live == [active[g] EXCEPT !.tokens = tokens(@)]
  IN  /\ Change(g)
      /\ NextStartValid(candidate)
      /\ r.token # "" => Renders(g, live)
      /\ settingsFile' = [settingsFile EXCEPT ![g] = <<SettingsFromConfig(candidate)>>]
      /\ active' = [active EXCEPT ![g] = live]
      /\ chosen' = [chosen EXCEPT ![g].mode = r.mode, ![g].azure = r.azure,
                                  ![g].tokens = tokens(@)]
      /\ UNCHANGED certFile

certificateWithAzureDefaults(cert, azure) ==
  IF azure.enabled /\ azure.manageDNS THEN ApplyAzureCertificateDefaults(cert, azure)
                                      ELSE cert

\* A blank client secret means the one there is.
handleCertificate(g, r) ==
  LET keeps == r.provider = "azure" /\ r.auth = "appregistration" /\ r.secret = ""
      filled == IF keeps THEN [r EXCEPT !.secret = active[g].cert.secret] ELSE r
      cert == NormalizeCertificateConfig(
                certificateWithAzureDefaults(filled, active[g].azure))
  IN  /\ Change(g)
      /\ ValidateCertificateConfig(cert)
      /\ Renders(g, active[g])
      /\ certFile' = [certFile EXCEPT ![g] = <<cert>>]
      /\ active' = [active EXCEPT ![g].cert = cert]
      /\ UNCHANGED <<settingsFile, chosen>>

----------------------------------------------------------------------------
(* The configuration archive.                                              *)

\* Bug: the additional header is not taken for a secret.
WithoutTokens(settings) == [settings EXCEPT !.tokens = {}]

WithoutSecrets(settings) == [settings EXCEPT !.tokens = {}, !.extra = ""]

ExportConfigurationBundle(g) ==
  /\ Authorized(g)
  /\ archive' = <<[settings |-> WithoutSecrets(desiredSettings(g)),
                   cert |-> [desiredCertificatePolicy(g) EXCEPT !.secret = ""]]>>
  /\ UNCHANGED <<active, settingsFile, certFile, draft, chosen, changes, imports>>

preserveConfigurationSecrets(imported, current) ==
  [imported EXCEPT !.tokens = current.tokens, !.extra = current.extra]

importedLiveConfig(live, imported) ==
  [f \in DOMAIN live |-> IF f \in Live \cup {"cert"} THEN imported[f] ELSE live[f]]

importConfigurationBundle(g) ==
  /\ Authorized(g) /\ archive # <<>>
  /\ imports < MaxImports /\ imports' = imports + 1
  /\ LET settings == preserveConfigurationSecrets(archive[1].settings, desiredSettings(g))
         secret == desiredCertificatePolicy(g).secret
         cert == NormalizeCertificateConfig(certificateWithAzureDefaults(
                   [archive[1].cert EXCEPT !.secret = secret], settings.azure))
         candidate == normalizeConfig(
                   [ApplySettings(active[g], settings) EXCEPT !.cert = cert])
         live == importedLiveConfig(active[g], candidate)
     IN  /\ ValidateCertificateConfig(cert)
         /\ validateConfig(candidate)
         /\ Renders(g, live)
         /\ draft' = [draft EXCEPT ![g] =
              <<[settings |-> SettingsFromConfig(candidate), cert |-> cert,
                 live |-> live, from |-> archive[1].settings]>>]
  /\ UNCHANGED <<active, settingsFile, certFile, archive, chosen, changes>>

\* Apply: persistConfigurationImport, once Caddy has loaded the configuration.
persistConfigurationImport(g) ==
  /\ Authorized(g) /\ draft[g] # <<>>
  /\ LET d == draft[g][1]
     IN  /\ settingsFile' = [settingsFile EXCEPT ![g] = <<d.settings>>]
         /\ certFile' = [certFile EXCEPT ![g] = <<d.cert>>]
         /\ active' = [active EXCEPT ![g] = d.live]
         /\ chosen' = [chosen EXCEPT ![g] =
              [f \in Saved |-> IF f \in {"tokens", "extra"} THEN @[f] ELSE d.from[f]]]
  /\ draft' = [draft EXCEPT ![g] = <<>>]
  /\ UNCHANGED <<archive, changes, imports>>

\* The process ends, by will or by a crash, and starts again.
Restart(g) ==
  /\ Acceptable(g, Load(g))
  /\ active' = [active EXCEPT ![g] = Load(g)]
  /\ draft' = [draft EXCEPT ![g] = <<>>]
  /\ UNCHANGED <<settingsFile, certFile, archive, chosen, changes, imports>>

Next ==
  \E g \in Gateways :
    \/ \E r \in SecurityRequests : handleSecuritySettings(g, r)
    \/ \E r \in SystemRequests[g] : handleSystemSettings(g, r)
    \/ \E r \in CertificateRequests[g] : handleCertificate(g, r)
    \/ ExportConfigurationBundle(g)
    \/ importConfigurationBundle(g)
    \/ persistConfigurationImport(g)
    \/ Restart(g)

Spec == Init /\ [][Next]_vars

----------------------------------------------------------------------------
(* Properties.                                                             *)

\* An environment with which the gateway starts, and whose certificate policy
\* takes nothing from the Azure settings.
SelfContained(g, env) ==
  /\ Acceptable(g, LoadFiles(env, <<>>, <<>>))
  /\ ValidateCertificateConfig(applyEnv(env).cert)

\* Load and Render: whatever was saved, and in whatever order, the gateway
\* starts with it.
StartAccepts == \A g \in Gateways : Acceptable(g, Load(g))

\* Requests are validated, merged with the live configuration, with the files
\* or with a draft, and saved in two files by different handlers; still a
\* start brings back exactly what the operator set last of everything, the
\* live configuration has it already unless it is for the next start, and a
\* pending import changes nothing of it.
ChoicesSurvive ==
  \A g \in Gateways :
    LET next == Load(g)
    IN  /\ next.mode = chosen[g].mode
        /\ next.azure = normalizeAzure(chosen[g].azure)
        /\ \A f \in Live : next[f] = chosen[g][f] /\ active[g][f] = chosen[g][f]
        /\ certFile[g] # <<>> => next.cert = active[g].cert

\* The archive carries no secret, and no gateway ever holds one of another's,
\* however often archives with drafts of imports are passed on.
SecretsStayHome ==
  /\ archive # <<>> => Secrets(archive[1].settings, archive[1].cert) = {}
  /\ \A g \in Gateways :
       /\ \A c \in {active[g], Load(g)} : Secrets(c, c.cert) \subseteq SecretsOf[g]
       /\ draft[g] # <<>> =>
            LET d == draft[g][1]
            IN  Secrets(d.settings, d.cert) \cup Secrets(d.live, d.live.cert)
                  \subseteq SecretsOf[g]
=============================================================================
