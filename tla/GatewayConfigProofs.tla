------------------------ MODULE GatewayConfigProofs -------------------------
(***************************************************************************)
(* Theorems about GatewayConfig for any number of gateways, environments,  *)
(* requests, changes and archives passed between gateways.                 *)
(***************************************************************************)
EXTENDS GatewayConfig, TLAPS

(* The shapes of settings; what is in them matters only where it is named. *)
CertFields == {"issuer", "ca", "subjects", "provider", "subscription", "group",
               "auth", "ids", "secret"}
AzureFields == {"enabled", "manageDNS", "subscription", "group", "zones", "legacy"}

IsCert(c) == DOMAIN c = CertFields
IsAzure(a) ==
  DOMAIN a = AzureFields /\ \A z \in a.zones : DOMAIN z = {"name", "group"}
IsSettings(s) == DOMAIN s = Saved /\ IsAzure(s.azure)
IsConfig(c) == DOMAIN c = Saved \cup {"cert"} /\ IsAzure(c.azure) /\ IsCert(c.cert)

(* The secrets in settings and in a certificate policy are the gateway's.  *)
Own(g, settings) == settings.tokens \cup {settings.extra} \subseteq SecretsOf[g] \cup {""}
OwnToken(g, token) == token \in SecretsOf[g] \cup {""}
OwnCert(g, cert) == cert.secret \in SecretsOf[g] \cup {""}

(* A certificate policy to which a start adds nothing.                     *)
Whole(c) ==
  /\ IsCert(c) /\ NormalizeCertificateConfig(c) = c
  /\ c.provider = "azure" => c.subscription = TRUE /\ c.group # ""

----------------------------------------------------------------------------
(* Normalisation.                                                          *)

LEMMA CertNormalized ==
  ASSUME NEW c, IsCert(c)
  PROVE  /\ IsCert(NormalizeCertificateConfig(c))
         /\ NormalizeCertificateConfig(NormalizeCertificateConfig(c))
              = NormalizeCertificateConfig(c)
         /\ NormalizeCertificateConfig(c).secret \in {c.secret, ""}
<1> DEFINE n == NormalizeCertificateConfig(c)
           auth == IF c.provider = "azure" /\ c.auth = "" THEN "managedidentity"
                                                          ELSE c.auth
<1>1. /\ n = [c EXCEPT !.issuer = IF c.issuer \in {"", "default"} THEN "letsencrypt"
                                  ELSE c.issuer,
                       !.auth = auth,
                       !.ids = c.ids /\ auth # "managedidentity",
                       !.secret = IF auth = "managedidentity" THEN "" ELSE c.secret]
  BY DEF NormalizeCertificateConfig
<1>2. /\ DOMAIN n = CertFields
      /\ n.issuer = IF c.issuer \in {"", "default"} THEN "letsencrypt" ELSE c.issuer
      /\ n.auth = auth /\ n.provider = c.provider
      /\ n.ids = (c.ids /\ auth # "managedidentity")
      /\ n.secret = IF auth = "managedidentity" THEN "" ELSE c.secret
  <2> HIDE DEF n, auth
  <2> QED BY <1>1 DEF IsCert, CertFields
<1>3. NormalizeCertificateConfig(n) = n
  <2> DEFINE auth2 == IF n.provider = "azure" /\ n.auth = "" THEN "managedidentity"
                                                             ELSE n.auth
  <2>1. auth2 = n.auth
    BY <1>2
  <2>2. /\ (IF n.issuer \in {"", "default"} THEN "letsencrypt" ELSE n.issuer) = n.issuer
        /\ (n.ids /\ n.auth # "managedidentity") = n.ids
        /\ (IF n.auth = "managedidentity" THEN "" ELSE n.secret) = n.secret
    <3> HIDE DEF n, auth
    <3> QED BY <1>2
  <2>3. NormalizeCertificateConfig(n) =
          [n EXCEPT !.issuer = IF n.issuer \in {"", "default"} THEN "letsencrypt"
                               ELSE n.issuer,
                    !.auth = auth2, !.ids = n.ids /\ auth2 # "managedidentity",
                    !.secret = IF auth2 = "managedidentity" THEN "" ELSE n.secret]
    <3> HIDE DEF n
    <3> QED BY DEF NormalizeCertificateConfig
  <2>4. NormalizeCertificateConfig(n) =
          [n EXCEPT !.issuer = n.issuer, !.auth = n.auth, !.ids = n.ids,
                    !.secret = n.secret]
    <3> HIDE DEF n, auth2
    <3> QED BY <2>1, <2>2, <2>3
  <2>5. n = [f \in CertFields |-> n[f]]
    <3> HIDE DEF auth
    <3> QED BY <1>1 DEF IsCert
  <2> HIDE DEF n, auth
  <2> QED BY <1>2, <2>4, <2>5 DEF CertFields
<1> QED BY <1>2, <1>3 DEF IsCert
LEMMA CertDefaults ==
  ASSUME NEW c, IsCert(c), NEW azure
  PROVE  /\ IsCert(ApplyAzureCertificateDefaults(c, azure))
         /\ ApplyAzureCertificateDefaults(c, azure).secret \in {c.secret, ""}
         /\ Whole(c) => ApplyAzureCertificateDefaults(c, azure) = c
<1> DEFINE n == NormalizeCertificateConfig(c)
           e == ApplyAzureCertificateDefaults(c, azure)
           group == IF n.group # "" THEN n.group
                    ELSE certificateAzureDNSResourceGroup(n.subjects, azure)
<1>1. e = IF n.provider # "azure" THEN n
          ELSE [n EXCEPT !.subscription = n.subscription \/ azure.subscription,
                         !.group = group]
  BY DEF ApplyAzureCertificateDefaults
<1>2. DOMAIN n = CertFields /\ n.secret \in {c.secret, ""}
  BY CertNormalized DEF IsCert
<1>3. n = [f \in CertFields |-> n[f]]
  <2>1. n = [[[[c EXCEPT !.issuer = n.issuer] EXCEPT !.auth = n.auth]
              EXCEPT !.ids = n.ids] EXCEPT !.secret = n.secret]
    BY DEF NormalizeCertificateConfig, IsCert, CertFields
  <2> HIDE DEF n
  <2> QED BY <2>1 DEF IsCert
<1>4. DOMAIN e = CertFields /\ e.secret = n.secret
  <2> HIDE DEF n, e, group
  <2> QED BY <1>1, <1>2 DEF CertFields
<1>5. ASSUME Whole(c)
      PROVE  e = c
  <2>1. n = c
    BY <1>5 DEF Whole
  <2>2. CASE n.provider # "azure"
    BY <1>1, <2>1, <2>2
  <2>3. CASE n.provider = "azure"
    <3>1. n.subscription = TRUE /\ n.group # ""
      BY <1>5, <2>1, <2>3 DEF Whole
    <3>2. (n.subscription \/ azure.subscription) = n.subscription /\ group = n.group
      BY <3>1
    <3>3. e = [n EXCEPT !.subscription = n.subscription, !.group = n.group]
      <4> HIDE DEF n, e, group
      <4> QED BY <1>1, <2>3, <3>2
    <3> HIDE DEF n, e, group
    <3>4. e = n
      BY <1>3, <3>3 DEF CertFields
    <3> QED BY <2>1, <3>4
  <2> QED BY <2>2, <2>3
<1> QED BY <1>2, <1>4, <1>5 DEF IsCert

(* A policy that was validated is whole.                                   *)
LEMMA ValidatedWhole ==
  ASSUME NEW c, IsCert(c), ValidateCertificateConfig(NormalizeCertificateConfig(c))
  PROVE  Whole(NormalizeCertificateConfig(c))
<1> DEFINE n == NormalizeCertificateConfig(c)
<1>1. IsCert(n) /\ NormalizeCertificateConfig(n) = n
  BY CertNormalized
<1>2. n.provider = "azure" => n.subscription /\ n.group # ""
  <2> HIDE DEF n
  <2>1. ValidateCertificateConfig(n)
    BY DEF n
  <2> QED BY <1>1, <2>1 DEF ValidateCertificateConfig
<1> QED BY <1>1, <1>2 DEF Whole

(* Azure settings.                                                         *)
LEMMA AzureNormalized ==
  ASSUME NEW a, IsAzure(a)
  PROVE  /\ IsAzure(normalizeAzure(a))
         /\ normalizeAzure(normalizeAzure(a)) = normalizeAzure(a)
<1> DEFINE inGroup(z) == [z EXCEPT !.group = IF z.group = "" THEN a.group ELSE z.group]
           listed == {z.name : z \in a.zones}
           older == IF a.legacy \in listed \cup {<<>>} THEN {}
                    ELSE {[name |-> a.legacy, group |-> a.group]}
           zones == {inGroup(z) : z \in a.zones} \cup older
           n == normalizeAzure(a)
<1>1. n = [a EXCEPT !.zones = zones]
  BY DEF normalizeAzure, normalizeDNSZones
<1>2. /\ DOMAIN n = AzureFields /\ n.zones = zones /\ n.group = a.group
      /\ n.legacy = a.legacy
  <2> HIDE DEF n, zones
  <2> QED BY <1>1 DEF IsAzure, AzureFields
<1>3. \A z \in zones : DOMAIN z = {"name", "group"}
  BY DEF IsAzure
<1>4. \A z \in zones : [z EXCEPT !.group = IF z.group = "" THEN a.group ELSE z.group] = z
  <2>1. ASSUME NEW z \in a.zones, NEW y, y = inGroup(z)
        PROVE  [y EXCEPT !.group = IF y.group = "" THEN a.group ELSE y.group] = y
    <3>1. DOMAIN z = {"name", "group"}
      BY DEF IsAzure
    <3>2. DOMAIN y = {"name", "group"}
          /\ y.group = IF z.group = "" THEN a.group ELSE z.group
      BY <2>1, <3>1
    <3>3. (IF y.group = "" THEN a.group ELSE y.group) = y.group
      BY <3>2
    <3>4. y = [f \in {"name", "group"} |-> y[f]]
      BY <2>1, <3>1
    <3> QED BY <3>2, <3>3, <3>4
  <2>2. ASSUME NEW y, y = [name |-> a.legacy, group |-> a.group]
        PROVE  [y EXCEPT !.group = IF y.group = "" THEN a.group ELSE y.group] = y
    BY <2>2
  <2> QED BY <2>1, <2>2
<1>5. a.legacy \in {z.name : z \in zones} \cup {<<>>}
  <2>1. ASSUME a.legacy \in listed
        PROVE  \E z \in zones : z.name = a.legacy
    <3>1. PICK z \in a.zones : z.name = a.legacy
      BY <2>1
    <3>2. inGroup(z).name = z.name /\ inGroup(z) \in zones
      BY DEF IsAzure
    <3> QED BY <3>1, <3>2
  <2>2. ASSUME a.legacy \notin listed \cup {<<>>}
        PROVE  \E z \in zones : z.name = a.legacy
    <3>1. [name |-> a.legacy, group |-> a.group] \in zones
      BY <2>2
    <3> QED BY <3>1
  <2> QED BY <2>1, <2>2
<1>6. normalizeDNSZones(n) = zones
  <2>1. normalizeDNSZones(n) =
          {[z EXCEPT !.group = IF z.group = "" THEN n.group ELSE z.group] : z \in n.zones}
          \cup (IF n.legacy \in {z.name : z \in n.zones} \cup {<<>>} THEN {}
                ELSE {[name |-> n.legacy, group |-> n.group]})
    <3> HIDE DEF n
    <3> QED BY DEF normalizeDNSZones
  <2> HIDE DEF n, zones
  <2>2. normalizeDNSZones(n) =
          {[z EXCEPT !.group = IF z.group = "" THEN a.group ELSE z.group] : z \in zones}
    BY <1>2, <1>5, <2>1
  <2> QED BY <1>4, <2>2
<1>7. normalizeAzure(n) = [n EXCEPT !.zones = zones]
  <2> HIDE DEF n, zones
  <2> QED BY <1>6 DEF normalizeAzure
<1>8. [n EXCEPT !.zones = zones] = n
  <2> HIDE DEF n, zones
  <2> QED BY <1>1, <1>2 DEF IsAzure, AzureFields
<1>9. IsAzure(n)
  <2> HIDE DEF n, zones
  <2> QED BY <1>2, <1>3 DEF IsAzure
<1> QED BY <1>7, <1>8, <1>9

(* A configuration.                                                        *)
LEMMA ConfigNormalized ==
  ASSUME NEW c, IsConfig(c)
  PROVE  /\ IsConfig(normalizeConfig(c))
         /\ \A f \in Saved \ {"azure"} : normalizeConfig(c)[f] = c[f]
         /\ normalizeConfig(c).azure = normalizeAzure(c.azure)
         /\ normalizeConfig(c).cert.secret \in {c.cert.secret, ""}
         /\ Whole(c.cert) => normalizeConfig(c).cert = c.cert
<1> DEFINE azure == normalizeAzure(c.azure)
           cert == ApplyAzureCertificateDefaults(c.cert, azure)
           n == normalizeConfig(c)
<1>1. n = [c EXCEPT !.azure = azure, !.cert = cert]
  BY DEF normalizeConfig
<1>2. /\ IsCert(cert) /\ cert.secret \in {c.cert.secret, ""}
      /\ Whole(c.cert) => cert = c.cert
  <2>1. IsCert(c.cert)
    BY DEF IsConfig
  <2> QED BY <2>1, CertDefaults
<1>3. IsAzure(azure)
  BY AzureNormalized DEF IsConfig
<1> HIDE DEF azure, cert, n
<1>4. /\ DOMAIN n = Saved \cup {"cert"} /\ n.azure = azure /\ n.cert = cert
      /\ \A f \in Saved \ {"azure"} : n[f] = c[f]
  BY <1>1 DEF IsConfig, Saved, Live
<1> QED BY <1>2, <1>3, <1>4 DEF IsConfig, azure, cert, n

LEMMA Merged ==
  ASSUME NEW c, IsConfig(c), NEW s, IsSettings(s)
  PROVE  /\ IsConfig(ApplySettings(c, s))
         /\ \A f \in Saved : ApplySettings(c, s)[f] = s[f]
         /\ ApplySettings(c, s).cert = c.cert
BY DEF ApplySettings, IsConfig, IsSettings, Saved, Live

LEMMA Extracted ==
  ASSUME NEW c, IsConfig(c)
  PROVE  /\ IsSettings(SettingsFromConfig(c))
         /\ \A f \in Saved : SettingsFromConfig(c)[f] = c[f]
BY DEF SettingsFromConfig, IsConfig, IsSettings, Saved, Live

(* What the environment sets.                                              *)
LEMMA EnvConfig ==
  ASSUME NEW g \in Gateways
  PROVE  /\ IsConfig(applyEnv(Env[g]))
         /\ Own(g, applyEnv(Env[g])) /\ OwnCert(g, applyEnv(Env[g]).cert)
<1> DEFINE c == applyEnv(Env[g])
<1>1. c \in Config /\ Secrets(c, c.cert) \subseteq SecretsOf[g]
  BY EnvAssumption
<1> HIDE DEF c
<1>2. c.azure \in AzureConfig /\ c.cert \in CertificateConfig
      /\ DOMAIN c = Saved \cup {"cert"}
  BY <1>1 DEF Config, Saved, Live
<1>3. IsAzure(c.azure)
  BY <1>2 DEF AzureConfig, IsAzure, AzureFields
<1>4. IsCert(c.cert)
  BY <1>2 DEF CertificateConfig, IsCert, CertFields
<1>5. Own(g, c) /\ OwnCert(g, c.cert)
  BY <1>1 DEF Secrets, Own, OwnCert
<1>6. IsConfig(c)
  BY <1>2, <1>3, <1>4 DEF IsConfig
<1> QED BY <1>5, <1>6 DEF c

(* What a start makes of the files.                                        *)
LEMMA Loaded ==
  ASSUME NEW g \in Gateways, NEW sf, NEW cf,
         sf # <<>> => IsSettings(sf[1]) /\ Own(g, sf[1]),
         cf # <<>> => Whole(cf[1]) /\ OwnCert(g, cf[1])
  PROVE  LET l == LoadFiles(Env[g], sf, cf)
             saved == IF sf = <<>> THEN applyEnv(Env[g]) ELSE sf[1]
         IN  /\ IsConfig(l) /\ Own(g, l) /\ OwnCert(g, l.cert)
             /\ \A f \in Saved \ {"azure"} : l[f] = saved[f]
             /\ l.azure = normalizeAzure(saved.azure)
             /\ cf # <<>> => l.cert = cf[1]
<1> DEFINE base == applyEnv(Env[g])
           saved == IF sf = <<>> THEN base ELSE sf[1]
           set == IF sf = <<>> THEN base ELSE ApplySettings(base, sf[1])
           full == IF cf = <<>> THEN set ELSE [set EXCEPT !.cert = cf[1]]
           l == LoadFiles(Env[g], sf, cf)
<1>1. IsConfig(base) /\ Own(g, base) /\ OwnCert(g, base.cert)
  BY EnvConfig
<1>2. l = normalizeConfig(full)
  BY DEF LoadFiles
<1> HIDE DEF base, l
<1>3. IsConfig(set) /\ set.cert = base.cert /\ \A f \in Saved : set[f] = saved[f]
  BY <1>1, Merged DEF IsConfig
<1>4. /\ IsConfig(full) /\ \A f \in Saved : full[f] = saved[f]
      /\ cf # <<>> => full.cert = cf[1]
      /\ cf = <<>> => full.cert = base.cert
  <2>1. CASE cf = <<>>
    BY <1>3, <2>1
  <2>2. CASE cf # <<>>
    <3> HIDE DEF set, saved
    <3>1. full = [set EXCEPT !.cert = cf[1]]
      BY <2>2
    <3>2. DOMAIN full = Saved \cup {"cert"} /\ full.cert = cf[1]
          /\ \A f \in Saved : full[f] = set[f]
      BY <1>3, <3>1 DEF IsConfig, Saved, Live
    <3>3. full.azure = set.azure
      BY <3>2 DEF Saved
    <3> HIDE DEF full
    <3> QED BY <1>3, <2>2, <3>2, <3>3 DEF IsConfig, Whole
  <2> QED BY <2>1, <2>2
<1> HIDE DEF full, set
<1>5. Own(g, saved)
  BY <1>1
<1> HIDE DEF saved
<1>6. /\ IsConfig(l) /\ \A f \in Saved \ {"azure"} : l[f] = saved[f]
      /\ l.azure = normalizeAzure(saved.azure)
      /\ l.cert.secret \in {full.cert.secret, ""}
      /\ Whole(full.cert) => l.cert = full.cert
  <2>1. full.azure = saved.azure
    BY <1>4 DEF Saved
  <2> QED BY <1>2, <1>4, <2>1, ConfigNormalized
<1>7. Own(g, l)
  <2>1. l.tokens = saved.tokens /\ l.extra = saved.extra
    BY <1>6 DEF Saved, Live
  <2> QED BY <1>5, <2>1 DEF Own
<1>8. OwnCert(g, full.cert)
  BY <1>1, <1>4
<1>9. OwnCert(g, l.cert)
  BY <1>6, <1>8 DEF OwnCert
<1> QED BY <1>4, <1>6, <1>7, <1>9 DEF base, saved, l

----------------------------------------------------------------------------
(* The invariant.                                                          *)

(* What the operator of a gateway chose, and what is live or saved of it.  *)
Chosen(a, sf, ch, env) ==
  /\ \A f \in Live : a[f] = ch[f]
  /\ sf = <<>> => /\ a.mode = ch.mode /\ a.azure = normalizeAzure(ch.azure)
                  /\ \A f \in Saved : ch[f] = env[f]
  /\ sf # <<>> => /\ \A f \in Live \cup {"mode"} : sf[1][f] = ch[f]
                  /\ normalizeAzure(sf[1].azure) = normalizeAzure(ch.azure)

(* A draft: of the archive it was made from, but with its own secrets.     *)
Drafted(d, ch) ==
  /\ \A f \in Live : d.live[f] = d.settings[f]
  /\ \A f \in (Live \cup {"mode"}) \ {"tokens", "extra"} : d.settings[f] = d.from[f]
  /\ normalizeAzure(d.settings.azure) = normalizeAzure(d.from.azure)
  /\ d.settings.tokens = ch.tokens /\ d.settings.extra = ch.extra
  /\ d.live.cert = d.cert

GatewayInv(g, a, sf, cf, d, ch) ==
  /\ IsConfig(a) /\ Own(g, a) /\ OwnCert(g, a.cert)
  /\ sf # <<>> => IsSettings(sf[1]) /\ Own(g, sf[1])
  /\ cf # <<>> => cf[1] = a.cert /\ Whole(a.cert)
  /\ d # <<>> => /\ IsSettings(d[1].settings) /\ Own(g, d[1].settings)
                 /\ Whole(d[1].cert) /\ OwnCert(g, d[1].cert)
                 /\ IsConfig(d[1].live) /\ IsSettings(d[1].from)
                 /\ Drafted(d[1], ch)
  /\ IsSettings(ch)
  /\ Chosen(a, sf, ch, applyEnv(Env[g]))

ArchiveInv ==
  archive # <<>> =>
    /\ IsSettings(archive[1].settings) /\ IsCert(archive[1].cert)
    /\ archive[1].settings.tokens = {} /\ archive[1].settings.extra = ""
    /\ archive[1].cert.secret = ""

Domains ==
  /\ DOMAIN active = Gateways /\ DOMAIN settingsFile = Gateways
  /\ DOMAIN certFile = Gateways /\ DOMAIN draft = Gateways
  /\ DOMAIN chosen = Gateways

IInv ==
  /\ Domains /\ ArchiveInv
  /\ \A g \in Gateways :
       GatewayInv(g, active[g], settingsFile[g], certFile[g], draft[g], chosen[g])

LEMMA InitHolds == Init => IInv
<1> SUFFICES ASSUME Init PROVE IInv
  OBVIOUS
<1>1. Domains /\ ArchiveInv
  BY DEF Init, Domains, ArchiveInv
<1>2. ASSUME NEW g \in Gateways
      PROVE  GatewayInv(g, active[g], settingsFile[g], certFile[g], draft[g], chosen[g])
  <2> DEFINE base == applyEnv(Env[g])
             l == LoadFiles(Env[g], <<>>, <<>>)
             ch == [f \in Saved |-> base[f]]
  <2>1. /\ active[g] = l /\ settingsFile[g] = <<>> /\ certFile[g] = <<>>
        /\ draft[g] = <<>> /\ chosen[g] = ch
    BY DEF Init
  <2>2. /\ IsConfig(l) /\ Own(g, l) /\ OwnCert(g, l.cert)
        /\ \A f \in Saved \ {"azure"} : l[f] = base[f]
        /\ l.azure = normalizeAzure(base.azure)
    BY Loaded
  <2>3. IsConfig(base)
    BY EnvConfig
  <2> HIDE DEF base, l
  <2>4. IsSettings(ch) /\ \A f \in Saved : ch[f] = base[f]
    BY <2>3 DEF IsConfig, IsSettings, Saved
  <2> HIDE DEF ch
  <2>5. Chosen(l, <<>>, ch, base)
    BY <2>2, <2>4 DEF Chosen, Saved, Live
  <2> QED BY <2>1, <2>2, <2>4, <2>5 DEF GatewayInv, base
<1> QED BY <1>1, <1>2 DEF IInv

(* A step of one gateway.                                                  *)
LEMMA OneGateway ==
  ASSUME IInv, NEW g \in Gateways, Domains', ArchiveInv',
         \A h \in Gateways : h # g =>
           /\ active'[h] = active[h] /\ settingsFile'[h] = settingsFile[h]
           /\ certFile'[h] = certFile[h] /\ draft'[h] = draft[h]
           /\ chosen'[h] = chosen[h],
         GatewayInv(g, active'[g], settingsFile'[g], certFile'[g], draft'[g], chosen'[g])
  PROVE  IInv'
<1>1. ASSUME NEW h \in Gateways
      PROVE  GatewayInv(h, active'[h], settingsFile'[h], certFile'[h], draft'[h], chosen'[h])
  BY <1>1 DEF IInv
<1> QED BY <1>1 DEF IInv

----------------------------------------------------------------------------
(* The settings a request starts from.                                     *)
LEMMA Desired ==
  ASSUME NEW g \in Gateways, NEW a, NEW sf, NEW cf, NEW d, NEW ch,
         GatewayInv(g, a, sf, cf, d, ch), NEW s,
         s = IF d # <<>> THEN d[1].settings
             ELSE IF sf = <<>> THEN SettingsFromConfig(a) ELSE sf[1]
  PROVE  /\ IsSettings(s) /\ Own(g, s)
         /\ s.tokens = ch.tokens /\ s.extra = ch.extra
         /\ d = <<>> => /\ \A f \in Live \cup {"mode"} : s[f] = ch[f]
                        /\ normalizeAzure(s.azure) = normalizeAzure(ch.azure)
<1>1. CASE d # <<>>
  BY <1>1 DEF GatewayInv, Drafted
<1>2. CASE d = <<>> /\ sf = <<>>
  <2>1. IsConfig(a) /\ Own(g, a) /\ IsSettings(ch) /\ Chosen(a, sf, ch, applyEnv(Env[g]))
    BY DEF GatewayInv
  <2>2. IsSettings(s) /\ \A f \in Saved : s[f] = a[f]
    BY <1>2, <2>1, Extracted
  <2>3. /\ \A f \in Live \cup {"mode"} : s[f] = ch[f]
        /\ s.azure = normalizeAzure(ch.azure)
        /\ s.tokens = a.tokens /\ s.extra = a.extra
    BY <1>2, <2>1, <2>2 DEF Chosen, Saved, Live
  <2>4. normalizeAzure(s.azure) = normalizeAzure(ch.azure)
    BY <2>1, <2>3, AzureNormalized DEF IsSettings
  <2>5. Own(g, s)
    BY <2>1, <2>3 DEF Own
  <2>6. s.tokens = ch.tokens /\ s.extra = ch.extra
    BY <2>3 DEF Live
  <2> QED BY <2>2, <2>3, <2>4, <2>5, <2>6
<1>3. CASE d = <<>> /\ sf # <<>>
  <2>1. /\ IsSettings(s) /\ Own(g, s)
        /\ \A f \in Live \cup {"mode"} : s[f] = ch[f]
        /\ normalizeAzure(s.azure) = normalizeAzure(ch.azure)
    BY <1>3 DEF GatewayInv, Chosen
  <2>2. s.tokens = ch.tokens /\ s.extra = ch.extra
    BY <2>1 DEF Live
  <2> QED BY <2>1, <2>2
<1> QED BY <1>1, <1>2, <1>3

SavedSettings(a, sf) == IF sf = <<>> THEN SettingsFromConfig(a) ELSE sf[1]

LEMMA DesiredSaved ==
  ASSUME NEW g \in Gateways, NEW a, NEW sf, NEW cf, NEW ch,
         GatewayInv(g, a, sf, cf, <<>>, ch), NEW s, s = SavedSettings(a, sf)
  PROVE  /\ IsSettings(s) /\ Own(g, s)
         /\ \A f \in Live \cup {"mode"} : s[f] = ch[f]
         /\ normalizeAzure(s.azure) = normalizeAzure(ch.azure)
<1>1. s = IF <<>> # <<>> THEN <<>>[1].settings
          ELSE IF sf = <<>> THEN SettingsFromConfig(a) ELSE sf[1]
  BY DEF SavedSettings
<1> QED BY <1>1, Desired

(* Requests: the gateway before and after, without an import pending.      *)
LEMMA SecurityStep ==
  ASSUME NEW g \in Gateways, NEW a, NEW sf, NEW cf, NEW ch,
         GatewayInv(g, a, sf, cf, <<>>, ch), NEW r, NEW s, s = SavedSettings(a, sf)
  PROVE  GatewayInv(g, normalizeConfig([a EXCEPT !.security = r.security,
                                                 !.allow = r.allow]),
                    <<[s EXCEPT !.security = r.security, !.allow = r.allow]>>,
                    cf, <<>>,
                    [ch EXCEPT !.security = r.security, !.allow = r.allow])
<1> DEFINE b == [a EXCEPT !.security = r.security, !.allow = r.allow]
           t == [s EXCEPT !.security = r.security, !.allow = r.allow]
           e == [ch EXCEPT !.security = r.security, !.allow = r.allow]
           n == normalizeConfig(b)
<1>1. /\ IsConfig(a) /\ Own(g, a) /\ OwnCert(g, a.cert)
      /\ cf # <<>> => cf[1] = a.cert /\ Whole(a.cert)
      /\ IsSettings(ch) /\ \A f \in Live : a[f] = ch[f]
  BY DEF GatewayInv, Chosen
<1>2. /\ IsSettings(s) /\ Own(g, s)
      /\ \A f \in Live \cup {"mode"} : s[f] = ch[f]
      /\ normalizeAzure(s.azure) = normalizeAzure(ch.azure)
  BY DesiredSaved
<1>3. /\ DOMAIN b = Saved \cup {"cert"} /\ b.azure = a.azure /\ b.cert = a.cert
      /\ b.tokens = a.tokens /\ b.extra = a.extra
      /\ b.security = r.security /\ b.allow = r.allow /\ b.required = a.required
  BY <1>1 DEF IsConfig, Saved, Live
<1>4. /\ DOMAIN t = Saved /\ t.azure = s.azure /\ t.mode = s.mode
      /\ t.tokens = s.tokens /\ t.extra = s.extra
      /\ t.security = r.security /\ t.allow = r.allow /\ t.required = s.required
  BY <1>2 DEF IsSettings, Saved, Live
<1>5. /\ DOMAIN e = Saved /\ e.azure = ch.azure /\ e.mode = ch.mode
      /\ e.tokens = ch.tokens /\ e.extra = ch.extra
      /\ e.security = r.security /\ e.allow = r.allow /\ e.required = ch.required
  BY <1>1 DEF IsSettings, Saved, Live
<1> HIDE DEF b, t, e
<1>6. IsConfig(b) /\ IsSettings(t) /\ IsSettings(e)
  BY <1>1, <1>2, <1>3, <1>4, <1>5 DEF IsConfig, IsSettings
<1>7. /\ IsConfig(n) /\ \A f \in Saved \ {"azure"} : n[f] = b[f]
      /\ n.cert.secret \in {a.cert.secret, ""}
      /\ Whole(a.cert) => n.cert = a.cert
  BY <1>3, <1>6, ConfigNormalized
<1> HIDE DEF n
<1>8. /\ n.tokens = a.tokens /\ n.extra = a.extra /\ n.required = a.required
      /\ n.security = r.security /\ n.allow = r.allow
  BY <1>3, <1>7 DEF Saved, Live
<1>9. Own(g, n) /\ OwnCert(g, n.cert) /\ Own(g, t)
  BY <1>1, <1>2, <1>4, <1>7, <1>8 DEF Own, OwnCert
<1>10. Chosen(n, <<t>>, e, applyEnv(Env[g]))
  <2>1. \A f \in Live : n[f] = e[f]
    BY <1>1, <1>5, <1>8 DEF Live
  <2>2. \A f \in Live \cup {"mode"} : t[f] = e[f]
    BY <1>2, <1>4, <1>5 DEF Live
  <2>3. normalizeAzure(t.azure) = normalizeAzure(e.azure)
    BY <1>2, <1>4, <1>5
  <2> QED BY <2>1, <2>2, <2>3 DEF Chosen
<1>11. cf # <<>> => cf[1] = n.cert /\ Whole(n.cert)
  BY <1>1, <1>7
<1>12. GatewayInv(g, n, <<t>>, cf, <<>>, e)
  BY <1>6, <1>7, <1>9, <1>10, <1>11 DEF GatewayInv
<1> QED BY <1>12 DEF n, b, t, e

LEMMA SystemStep ==
  ASSUME NEW g \in Gateways, NEW a, NEW sf, NEW cf, NEW ch,
         GatewayInv(g, a, sf, cf, <<>>, ch), NEW mode, NEW s,
         s = SavedSettings(a, sf),
         NEW azure, IsAzure(azure), NEW token, OwnToken(g, token)
  PROVE  LET new(old) == IF token = "" THEN old ELSE {token}
             m == ApplySettings(a, s)
             b == [m EXCEPT !.mode = mode, !.docker = mode = "container-socket",
                            !.azure = azure, !.tokens = new(m.tokens)]
         IN  GatewayInv(g, [a EXCEPT !.tokens = new(a.tokens)],
                        <<SettingsFromConfig(normalizeConfig(b))>>, cf, <<>>,
                        [ch EXCEPT !.mode = mode, !.azure = azure,
                                   !.tokens = new(ch.tokens)])
<1>1. /\ IsConfig(a) /\ Own(g, a) /\ OwnCert(g, a.cert)
      /\ cf # <<>> => cf[1] = a.cert /\ Whole(a.cert)
      /\ IsSettings(ch) /\ \A f \in Live : a[f] = ch[f]
  BY DEF GatewayInv, Chosen
<1>2. /\ IsSettings(s) /\ Own(g, s)
      /\ \A f \in Live \cup {"mode"} : s[f] = ch[f]
      /\ normalizeAzure(s.azure) = normalizeAzure(ch.azure)
  BY DesiredSaved
<1> DEFINE new(old) == IF token = "" THEN old ELSE {token}
           m == ApplySettings(a, s)
           b == [m EXCEPT !.mode = mode, !.docker = mode = "container-socket",
                          !.azure = azure, !.tokens = new(m.tokens)]
           live == [a EXCEPT !.tokens = new(a.tokens)]
           e == [ch EXCEPT !.mode = mode, !.azure = azure,
                           !.tokens = new(ch.tokens)]
           n == normalizeConfig(b)
           t == SettingsFromConfig(n)
<1>3. IsAzure(azure)
  OBVIOUS
<1>4. IsConfig(m) /\ \A f \in Saved : m[f] = s[f]
  BY <1>1, <1>2, Merged
<1> HIDE DEF m
<1>5. /\ DOMAIN b = Saved \cup {"cert"} /\ b.azure = azure /\ b.mode = mode
      /\ b.cert = m.cert /\ b.tokens = new(m.tokens)
      /\ \A f \in Live \ {"tokens"} : b[f] = m[f]
  BY <1>4 DEF IsConfig, Saved, Live
<1>6. /\ DOMAIN live = Saved \cup {"cert"} /\ live.azure = a.azure
      /\ live.cert = a.cert /\ live.tokens = new(a.tokens)
      /\ \A f \in Live \ {"tokens"} : live[f] = a[f]
  BY <1>1 DEF IsConfig, Saved, Live
<1>7. /\ DOMAIN e = Saved /\ e.azure = azure /\ e.mode = mode
      /\ e.tokens = new(ch.tokens)
      /\ \A f \in Live \ {"tokens"} : e[f] = ch[f]
  BY <1>1 DEF IsSettings, Saved, Live
<1> HIDE DEF b, live, e
<1>8. IsConfig(b) /\ IsConfig(live) /\ IsSettings(e)
  BY <1>1, <1>3, <1>4, <1>5, <1>6, <1>7 DEF IsConfig, IsSettings
<1>9. /\ IsConfig(n) /\ \A f \in Saved \ {"azure"} : n[f] = b[f]
      /\ n.azure = normalizeAzure(azure)
  BY <1>5, <1>8, ConfigNormalized
<1>10. IsSettings(t) /\ \A f \in Saved : t[f] = n[f]
  BY <1>9, Extracted
<1> HIDE DEF n, t
<1>11. /\ \A f \in (Live \cup {"mode"}) \ {"tokens"} : t[f] = e[f]
       /\ t.tokens = new(ch.tokens) /\ t.extra = ch.extra
  <2>1. \A f \in Live \cup {"mode"} : t[f] = b[f]
    BY <1>9, <1>10 DEF Saved, Live
  <2>2. \A f \in Live : m[f] = ch[f]
    BY <1>2, <1>4 DEF Saved
  <2>3. t.mode = e.mode
    BY <2>1, <1>5, <1>7
  <2>4. \A f \in Live \ {"tokens"} : t[f] = ch[f]
    BY <2>1, <2>2, <1>5
  <2>5. t.tokens = new(ch.tokens)
    BY <2>1, <2>2, <1>5 DEF Live
  <2>6. t.extra = ch.extra
    BY <2>4 DEF Live
  <2> QED BY <1>7, <2>3, <2>4, <2>5, <2>6
<1>12. ch.tokens = a.tokens /\ ch.extra = a.extra /\ live.extra = a.extra
  BY <1>1, <1>6 DEF Live
<1>13. Own(g, live) /\ OwnCert(g, live.cert) /\ Own(g, t)
  <2>1. OwnCert(g, live.cert)
    BY <1>1, <1>6
  <2>2. new(a.tokens) \cup {a.extra} \subseteq SecretsOf[g] \cup {""}
    BY <1>1 DEF Own, OwnToken
  <2> HIDE DEF new
  <2> QED BY <1>6, <1>11, <1>12, <2>1, <2>2 DEF Own
<1>14. normalizeAzure(t.azure) = normalizeAzure(e.azure)
  <2>1. t.azure = normalizeAzure(azure)
    BY <1>9, <1>10 DEF Saved
  <2> QED BY <1>3, <1>7, <2>1, AzureNormalized
<1>15. Chosen(live, <<t>>, e, applyEnv(Env[g]))
  <2>1. \A f \in Live : live[f] = e[f]
    BY <1>1, <1>6, <1>7, <1>12
  <2>2. \A f \in Live \cup {"mode"} : t[f] = e[f]
    BY <1>7, <1>11
  <2> QED BY <2>1, <2>2, <1>14 DEF Chosen
<1>16. GatewayInv(g, live, <<t>>, cf, <<>>, e)
  BY <1>1, <1>6, <1>8, <1>10, <1>13, <1>15 DEF GatewayInv
<1> QED BY <1>16 DEF n, t, b, m, live, e

(* A policy with the defaults of Azure filled in, and normalised.          *)
LEMMA CertPrepared ==
  ASSUME NEW g \in Gateways, NEW c, IsCert(c), OwnCert(g, c), NEW azure, NEW n,
         n = NormalizeCertificateConfig(certificateWithAzureDefaults(c, azure)),
         ValidateCertificateConfig(n)
  PROVE  Whole(n) /\ OwnCert(g, n)
<1> DEFINE filled == certificateWithAzureDefaults(c, azure)
<1>1. IsCert(filled) /\ filled.secret \in {c.secret, ""}
  BY CertDefaults DEF certificateWithAzureDefaults
<1> HIDE DEF filled
<1>2. n = NormalizeCertificateConfig(filled)
  BY DEF filled
<1>3. Whole(n)
  BY <1>1, <1>2, ValidatedWhole
<1>4. n.secret \in {filled.secret, ""}
  BY <1>1, <1>2, CertNormalized
<1> QED BY <1>1, <1>3, <1>4 DEF OwnCert

LEMMA CertificateStep ==
  ASSUME NEW g \in Gateways, NEW a, NEW sf, NEW cf, NEW ch,
         GatewayInv(g, a, sf, cf, <<>>, ch), NEW r,
         r \in CertificateConfig, r.secret \in SecretsOf[g] \cup {""},
         NEW c, c \in {[r EXCEPT !.secret = a.cert.secret], r}, NEW n,
         n = NormalizeCertificateConfig(certificateWithAzureDefaults(c, a.azure)),
         ValidateCertificateConfig(n), NEW b, b = [a EXCEPT !.cert = n]
  PROVE  GatewayInv(g, b, sf, <<n>>, <<>>, ch)
<1>1. /\ IsConfig(a) /\ Own(g, a) /\ OwnCert(g, a.cert)
      /\ sf # <<>> => IsSettings(sf[1]) /\ Own(g, sf[1])
      /\ IsSettings(ch) /\ Chosen(a, sf, ch, applyEnv(Env[g]))
  BY DEF GatewayInv
<1>2. IsCert(r)
  BY DEF CertificateConfig, IsCert, CertFields
<1>3. IsCert(c) /\ c.secret \in {r.secret, a.cert.secret}
  BY <1>2 DEF IsCert, CertFields
<1>4. OwnCert(g, c)
  BY <1>1, <1>3 DEF OwnCert
<1>5. Whole(n) /\ OwnCert(g, n)
  BY <1>3, <1>4, CertPrepared
<1>6. DOMAIN b = Saved \cup {"cert"} /\ b.cert = n /\ \A f \in Saved : b[f] = a[f]
  BY <1>1 DEF IsConfig, Saved, Live
<1>7. /\ b.azure = a.azure /\ b.tokens = a.tokens /\ b.extra = a.extra /\ b.mode = a.mode
      /\ \A f \in Live : b[f] = a[f]
  BY <1>6 DEF Saved, Live
<1>8. IsConfig(b) /\ Own(g, b) /\ Chosen(b, sf, ch, applyEnv(Env[g]))
  BY <1>1, <1>5, <1>6, <1>7 DEF IsConfig, Own, Chosen, Whole
<1> QED BY <1>1, <1>5, <1>6, <1>8 DEF GatewayInv

(* An import: settings and certificate of an archive, with the secrets of  *)
(* the gateway that imports it.                                            *)
LEMMA ImportStep ==
  ASSUME NEW g \in Gateways, NEW a, NEW sf, NEW cf, NEW d, NEW ch,
         GatewayInv(g, a, sf, cf, d, ch), NEW s, NEW p,
         s = IF d # <<>> THEN d[1].settings
             ELSE IF sf = <<>> THEN SettingsFromConfig(a) ELSE sf[1],
         p = IF d # <<>> THEN d[1].cert ELSE a.cert,
         NEW from, IsSettings(from), NEW fcert, IsCert(fcert), NEW cert,
         cert = NormalizeCertificateConfig(certificateWithAzureDefaults(
                  [fcert EXCEPT !.secret = p.secret],
                  preserveConfigurationSecrets(from, s).azure)),
         ValidateCertificateConfig(cert)
  PROVE  LET settings == preserveConfigurationSecrets(from, s)
             candidate == normalizeConfig(
                            [ApplySettings(a, settings) EXCEPT !.cert = cert])
             live == importedLiveConfig(a, candidate)
         IN  /\ GatewayInv(g, a, sf, cf,
                  <<[settings |-> SettingsFromConfig(candidate), cert |-> cert,
                     live |-> live, from |-> from]>>, ch)
             /\ candidate.azure = normalizeAzure(from.azure)
<1> DEFINE settings == preserveConfigurationSecrets(from, s)
           m == ApplySettings(a, settings)
           b == [m EXCEPT !.cert = cert]
           n == normalizeConfig(b)
           t == SettingsFromConfig(n)
           live == importedLiveConfig(a, n)
           new == [settings |-> t, cert |-> cert, live |-> live, from |-> from]
<1>1. /\ IsConfig(a) /\ OwnCert(g, a.cert)
      /\ d # <<>> => OwnCert(g, d[1].cert)
  BY DEF GatewayInv
<1>2. Own(g, s) /\ s.tokens = ch.tokens /\ s.extra = ch.extra
  BY Desired
<1>3. Whole(cert) /\ OwnCert(g, cert)
  <2> DEFINE c == [fcert EXCEPT !.secret = p.secret]
  <2>1. OwnCert(g, p)
    BY <1>1
  <2>2. IsCert(c) /\ c.secret = p.secret
    BY DEF IsCert, CertFields
  <2>3. OwnCert(g, c)
    BY <2>1, <2>2 DEF OwnCert
  <2> HIDE DEF c
  <2>4. cert = NormalizeCertificateConfig(certificateWithAzureDefaults(c, settings.azure))
    BY DEF c
  <2> HIDE DEF settings
  <2> QED BY <2>2, <2>3, <2>4, CertPrepared
<1>4. /\ IsSettings(settings)
      /\ \A f \in Saved \ {"tokens", "extra"} : settings[f] = from[f]
      /\ settings.tokens = ch.tokens /\ settings.extra = ch.extra
  <2>1. settings = [from EXCEPT !.tokens = s.tokens, !.extra = s.extra]
    BY DEF preserveConfigurationSecrets
  <2> HIDE DEF settings
  <2>2. /\ DOMAIN settings = Saved
        /\ \A f \in Saved \ {"tokens", "extra"} : settings[f] = from[f]
        /\ settings.tokens = s.tokens /\ settings.extra = s.extra
        /\ settings.azure = from.azure
    BY <2>1 DEF IsSettings, Saved, Live
  <2> QED BY <1>2, <2>2 DEF IsSettings
<1> HIDE DEF settings
<1>5. IsConfig(m) /\ \A f \in Saved : m[f] = settings[f]
  BY <1>1, <1>4, Merged
<1> HIDE DEF m
<1>6. /\ IsConfig(b) /\ b.cert = cert /\ \A f \in Saved : b[f] = settings[f]
      /\ b.azure = from.azure
  <2>1. DOMAIN b = Saved \cup {"cert"} /\ b.cert = cert /\ \A f \in Saved : b[f] = m[f]
    BY <1>5 DEF IsConfig, Saved, Live
  <2>2. b.azure = m.azure /\ m.azure = settings.azure /\ settings.azure = from.azure
    BY <1>4, <1>5, <2>1 DEF Saved
  <2> HIDE DEF b
  <2> QED BY <1>3, <1>5, <2>1, <2>2 DEF IsConfig, Whole
<1> HIDE DEF b
<1>7. /\ IsConfig(n) /\ \A f \in Saved \ {"azure"} : n[f] = b[f]
      /\ n.azure = normalizeAzure(from.azure) /\ n.cert = cert
  BY <1>3, <1>6, ConfigNormalized
<1> HIDE DEF n
<1>8. IsSettings(t) /\ \A f \in Saved : t[f] = n[f]
  BY <1>7, Extracted
<1> HIDE DEF t
<1>9. /\ DOMAIN live = Saved \cup {"cert"} /\ live.azure = a.azure
      /\ live.cert = cert /\ \A f \in Live : live[f] = n[f]
  BY <1>1, <1>7 DEF importedLiveConfig, IsConfig, Saved, Live
<1> HIDE DEF live
<1>10. IsConfig(live)
  BY <1>1, <1>3, <1>9 DEF IsConfig, Whole
<1>11. Drafted(new, ch)
  <2>1. \A f \in Live : live[f] = t[f]
    BY <1>8, <1>9 DEF Saved
  <2>2. \A f \in (Live \cup {"mode"}) \ {"tokens", "extra"} : t[f] = from[f]
    BY <1>4, <1>6, <1>7, <1>8 DEF Saved, Live
  <2>3. normalizeAzure(t.azure) = normalizeAzure(from.azure)
    <3>1. t.azure = normalizeAzure(from.azure)
      BY <1>7, <1>8 DEF Saved
    <3> QED BY <3>1, AzureNormalized DEF IsSettings
  <2>4. t.tokens = ch.tokens /\ t.extra = ch.extra
    BY <1>4, <1>6, <1>7, <1>8 DEF Saved, Live
  <2> QED BY <1>9, <2>1, <2>2, <2>3, <2>4 DEF Drafted
<1>12. Own(g, t)
  BY <1>2, <1>11 DEF Own, Drafted
<1>13. /\ new.settings = t /\ new.cert = cert /\ new.live = live /\ new.from = from
       /\ <<new>> # <<>> /\ <<new>>[1] = new
  OBVIOUS
<1> HIDE DEF new
<1>14. GatewayInv(g, a, sf, cf, <<new>>, ch)
  BY <1>3, <1>8, <1>10, <1>11, <1>12, <1>13 DEF GatewayInv
<1> QED BY <1>7, <1>14 DEF new, live, t, n, b, m, settings

(* An import is applied.                                                   *)
LEMMA PersistStep ==
  ASSUME NEW g \in Gateways, NEW a, NEW sf, NEW cf, NEW dd, NEW ch,
         GatewayInv(g, a, sf, cf, dd, ch), dd # <<>>, NEW d, d = dd[1]
  PROVE  GatewayInv(g, d.live, <<d.settings>>, <<d.cert>>, <<>>,
           [f \in Saved |-> IF f \in {"tokens", "extra"} THEN ch[f] ELSE d.from[f]])
<1> DEFINE e == [f \in Saved |-> IF f \in {"tokens", "extra"} THEN ch[f] ELSE d.from[f]]
<1>1. /\ IsSettings(d.settings) /\ Own(g, d.settings)
      /\ Whole(d.cert) /\ OwnCert(g, d.cert)
      /\ IsConfig(d.live) /\ IsSettings(d.from) /\ Drafted(d, ch)
  BY DEF GatewayInv
<1>2. /\ DOMAIN e = Saved /\ e.azure = d.from.azure /\ e.mode = d.from.mode
      /\ e.tokens = ch.tokens /\ e.extra = ch.extra
      /\ \A f \in Live \ {"tokens", "extra"} : e[f] = d.from[f]
  BY DEF Saved, Live
<1> HIDE DEF e
<1>3. IsSettings(e)
  BY <1>1, <1>2 DEF IsSettings
<1>4. d.live.tokens = d.settings.tokens /\ d.live.extra = d.settings.extra
  BY <1>1 DEF Drafted, Live
<1>5. Own(g, d.live) /\ OwnCert(g, d.live.cert) /\ d.live.cert = d.cert
  BY <1>1, <1>4 DEF Own, OwnCert, Drafted
<1>6. Chosen(d.live, <<d.settings>>, e, applyEnv(Env[g]))
  <2>1. \A f \in Live \cup {"mode"} : d.settings[f] = e[f]
    BY <1>1, <1>2 DEF Drafted
  <2>2. \A f \in Live : d.live[f] = e[f]
    BY <1>1, <2>1 DEF Drafted
  <2>3. normalizeAzure(d.settings.azure) = normalizeAzure(e.azure)
    BY <1>1, <1>2 DEF Drafted
  <2> QED BY <2>1, <2>2, <2>3 DEF Chosen
<1>7. GatewayInv(g, d.live, <<d.settings>>, <<d.cert>>, <<>>, e)
  BY <1>1, <1>3, <1>5, <1>6 DEF GatewayInv
<1> QED BY <1>7 DEF e

LEMMA RestartStep ==
  ASSUME NEW g \in Gateways, NEW a, NEW sf, NEW cf, NEW d, NEW ch,
         GatewayInv(g, a, sf, cf, d, ch)
  PROVE  GatewayInv(g, LoadFiles(Env[g], sf, cf), sf, cf, <<>>, ch)
<1> DEFINE l == LoadFiles(Env[g], sf, cf)
           env == applyEnv(Env[g])
           saved == IF sf = <<>> THEN env ELSE sf[1]
<1>1. /\ sf # <<>> => IsSettings(sf[1]) /\ Own(g, sf[1])
      /\ cf # <<>> => cf[1] = a.cert /\ Whole(a.cert)
      /\ OwnCert(g, a.cert)
      /\ IsSettings(ch) /\ Chosen(a, sf, ch, env)
  BY DEF GatewayInv
<1>2. /\ IsConfig(l) /\ Own(g, l) /\ OwnCert(g, l.cert)
      /\ \A f \in Saved \ {"azure"} : l[f] = saved[f]
      /\ l.azure = normalizeAzure(saved.azure)
      /\ cf # <<>> => l.cert = cf[1]
  <2>1. /\ sf # <<>> => IsSettings(sf[1]) /\ Own(g, sf[1])
        /\ cf # <<>> => Whole(cf[1]) /\ OwnCert(g, cf[1])
    BY <1>1
  <2> QED BY <2>1, Loaded
<1> HIDE DEF l, env
<1>3. Chosen(l, sf, ch, env)
  <2>1. CASE sf = <<>>
    <3>1. \A f \in Saved : ch[f] = env[f]
      BY <1>1, <2>1 DEF Chosen
    <3>2. saved = env
      BY <2>1
    <3>3. l.mode = ch.mode /\ l.azure = normalizeAzure(ch.azure)
      BY <1>2, <3>1, <3>2 DEF Saved
    <3>4. \A f \in Live : l[f] = ch[f]
      BY <1>2, <3>1, <3>2 DEF Saved, Live
    <3> QED BY <2>1, <3>1, <3>3, <3>4 DEF Chosen
  <2>2. CASE sf # <<>>
    <3>1. \A f \in Live : l[f] = sf[1][f]
      BY <1>2, <2>2 DEF Saved, Live
    <3> QED BY <1>1, <2>2, <3>1 DEF Chosen
  <2> QED BY <2>1, <2>2
<1>4. cf # <<>> => cf[1] = l.cert /\ Whole(l.cert)
  BY <1>1, <1>2
<1>5. GatewayInv(g, l, sf, cf, <<>>, ch)
  BY <1>1, <1>2, <1>3, <1>4 DEF GatewayInv, env
<1> QED BY <1>5 DEF l

----------------------------------------------------------------------------
(* The actions.                                                            *)

(* Nothing changes but what is at one gateway, and the archive stays.      *)
LEMMA SameArchive ==
  ASSUME ArchiveInv, archive' = archive
  PROVE  ArchiveInv'
BY DEF ArchiveInv

LEMMA SecuritySettings ==
  ASSUME IInv, NEW g \in Gateways, NEW r, handleSecuritySettings(g, r)
  PROVE  IInv'
<1> DEFINE a == active[g]
           s == SavedSettings(a, settingsFile[g])
           b == normalizeConfig([a EXCEPT !.security = r.security, !.allow = r.allow])
           t == [s EXCEPT !.security = r.security, !.allow = r.allow]
           e == [chosen[g] EXCEPT !.security = r.security, !.allow = r.allow]
<1>1. /\ draft[g] = <<>> /\ draft' = draft /\ archive' = archive /\ certFile' = certFile
      /\ active' = [active EXCEPT ![g] = b]
  BY DEF handleSecuritySettings, Change
<1>2. settingsFile' = [settingsFile EXCEPT ![g] = <<t>>]
  BY <1>1 DEF handleSecuritySettings, desiredSettings, persistedSettings, SavedSettings
<1>3. chosen' = [chosen EXCEPT ![g] = e]
  BY DEF handleSecuritySettings
<1>4. Domains /\ ArchiveInv /\ GatewayInv(g, a, settingsFile[g], certFile[g], <<>>, chosen[g])
  BY <1>1 DEF IInv
<1>5. GatewayInv(g, b, <<t>>, certFile[g], <<>>, e)
  BY <1>4, SecurityStep
<1> HIDE DEF a, s, b, t, e
<1>6. /\ Domains' /\ active'[g] = b /\ settingsFile'[g] = <<t>> /\ chosen'[g] = e
      /\ \A h \in Gateways : h # g =>
           /\ active'[h] = active[h] /\ settingsFile'[h] = settingsFile[h]
           /\ certFile'[h] = certFile[h] /\ draft'[h] = draft[h]
           /\ chosen'[h] = chosen[h]
  BY <1>1, <1>2, <1>3, <1>4 DEF Domains
<1>7. ArchiveInv'
  BY <1>1, <1>4, SameArchive
<1>8. GatewayInv(g, active'[g], settingsFile'[g], certFile'[g], draft'[g], chosen'[g])
  BY <1>1, <1>5, <1>6
<1> QED BY <1>6, <1>7, <1>8, OneGateway

LEMMA SystemSettings ==
  ASSUME IInv, NEW g \in Gateways, NEW r \in SystemRequests[g],
         handleSystemSettings(g, r)
  PROVE  IInv'
<1> DEFINE a == active[g]
           s == SavedSettings(a, settingsFile[g])
           new(old) == IF r.token = "" THEN old ELSE {r.token}
           m == ApplySettings(a, s)
           b == [m EXCEPT !.mode = r.mode, !.docker = r.mode = "container-socket",
                          !.azure = r.azure, !.tokens = new(m.tokens)]
           live == [a EXCEPT !.tokens = new(a.tokens)]
           t == SettingsFromConfig(normalizeConfig(b))
           e == [chosen[g] EXCEPT !.mode = r.mode, !.azure = r.azure,
                                  !.tokens = new(chosen[g].tokens)]
<1>1. /\ draft[g] = <<>> /\ draft' = draft /\ archive' = archive /\ certFile' = certFile
      /\ active' = [active EXCEPT ![g] = live]
  BY DEF handleSystemSettings, Change
<1>2. settingsFile' = [settingsFile EXCEPT ![g] = <<t>>]
  <2>1. desiredSettings(g) = s
    BY <1>1 DEF desiredSettings, persistedSettings, SavedSettings
  <2> QED BY <2>1 DEF handleSystemSettings
<1>3. chosen' = [chosen EXCEPT ![g] = e]
  BY DEF handleSystemSettings
<1>4. Domains /\ ArchiveInv /\ GatewayInv(g, a, settingsFile[g], certFile[g], <<>>, chosen[g])
  BY <1>1 DEF IInv
<1>5. GatewayInv(g, live, <<t>>, certFile[g], <<>>, e)
  <2>1. r.azure \in AzureConfig /\ r.token \in SecretsOf[g] \cup {""}
    BY RequestAssumption
  <2>2. IsAzure(r.azure)
    BY <2>1 DEF AzureConfig, IsAzure, AzureFields
  <2>3. OwnToken(g, r.token)
    BY <2>1 DEF OwnToken
  <2> QED BY <1>4, <2>2, <2>3, SystemStep
<1> HIDE DEF a, s, m, b, live, t, e
<1>6. /\ Domains' /\ active'[g] = live /\ settingsFile'[g] = <<t>> /\ chosen'[g] = e
      /\ \A h \in Gateways : h # g =>
           /\ active'[h] = active[h] /\ settingsFile'[h] = settingsFile[h]
           /\ certFile'[h] = certFile[h] /\ draft'[h] = draft[h]
           /\ chosen'[h] = chosen[h]
  BY <1>1, <1>2, <1>3, <1>4 DEF Domains
<1>7. ArchiveInv'
  BY <1>1, <1>4, SameArchive
<1>8. GatewayInv(g, active'[g], settingsFile'[g], certFile'[g], draft'[g], chosen'[g])
  BY <1>1, <1>5, <1>6
<1> QED BY <1>6, <1>7, <1>8, OneGateway

LEMMA Certificate ==
  ASSUME IInv, NEW g \in Gateways, NEW r \in CertificateRequests[g],
         handleCertificate(g, r)
  PROVE  IInv'
<1> DEFINE a == active[g]
           keeps == r.provider = "azure" /\ r.auth = "appregistration" /\ r.secret = ""
           c == IF keeps THEN [r EXCEPT !.secret = a.cert.secret] ELSE r
           n == NormalizeCertificateConfig(certificateWithAzureDefaults(c, a.azure))
           b == [a EXCEPT !.cert = n]
<1>1. /\ draft[g] = <<>> /\ draft' = draft /\ archive' = archive
      /\ settingsFile' = settingsFile /\ chosen' = chosen
      /\ ValidateCertificateConfig(n)
      /\ certFile' = [certFile EXCEPT ![g] = <<n>>]
      /\ active' = [active EXCEPT ![g] = b]
  BY DEF handleCertificate, Change
<1>2. Domains /\ ArchiveInv /\ GatewayInv(g, a, settingsFile[g], certFile[g], <<>>, chosen[g])
  BY <1>1 DEF IInv
<1>3. GatewayInv(g, b, settingsFile[g], <<n>>, <<>>, chosen[g])
  <2>1. r \in CertificateConfig /\ r.secret \in SecretsOf[g] \cup {""}
    BY RequestAssumption
  <2>2. c \in {[r EXCEPT !.secret = a.cert.secret], r}
    OBVIOUS
  <2> QED BY <1>1, <1>2, <2>1, <2>2, CertificateStep
<1> HIDE DEF a, c, n, b
<1>4. /\ Domains' /\ active'[g] = b /\ certFile'[g] = <<n>>
      /\ \A h \in Gateways : h # g =>
           /\ active'[h] = active[h] /\ settingsFile'[h] = settingsFile[h]
           /\ certFile'[h] = certFile[h] /\ draft'[h] = draft[h]
           /\ chosen'[h] = chosen[h]
  BY <1>1, <1>2 DEF Domains
<1>5. ArchiveInv'
  BY <1>1, <1>2, SameArchive
<1>6. GatewayInv(g, active'[g], settingsFile'[g], certFile'[g], draft'[g], chosen'[g])
  BY <1>1, <1>3, <1>4
<1> QED BY <1>4, <1>5, <1>6, OneGateway

LEMMA Export ==
  ASSUME IInv, NEW g \in Gateways, ExportConfigurationBundle(g)
  PROVE  IInv'
<1> DEFINE s == desiredSettings(g)
           p == desiredCertificatePolicy(g)
           t == [s EXCEPT !.tokens = {}, !.extra = ""]
           c == [p EXCEPT !.secret = ""]
<1>1. /\ archive' = <<[settings |-> t, cert |-> c]>>
      /\ UNCHANGED <<active, settingsFile, certFile, draft, chosen>>
  BY DEF ExportConfigurationBundle, WithoutSecrets
<1>2. GatewayInv(g, active[g], settingsFile[g], certFile[g], draft[g], chosen[g])
  BY DEF IInv
<1>3. IsSettings(s)
  <2>1. s = IF draft[g] # <<>> THEN draft[g][1].settings
            ELSE IF settingsFile[g] = <<>> THEN SettingsFromConfig(active[g])
                 ELSE settingsFile[g][1]
    BY DEF desiredSettings, persistedSettings
  <2> HIDE DEF s
  <2> QED BY <1>2, <2>1, Desired
<1>4. IsCert(p)
  BY <1>2 DEF desiredCertificatePolicy, GatewayInv, IsConfig, Whole
<1> HIDE DEF s, p
<1>5. /\ DOMAIN t = Saved /\ t.azure = s.azure /\ t.tokens = {} /\ t.extra = ""
      /\ DOMAIN c = CertFields /\ c.secret = ""
  BY <1>3, <1>4 DEF IsSettings, IsCert, Saved, Live, CertFields
<1> HIDE DEF t, c
<1>6. IsSettings(t) /\ IsCert(c)
  BY <1>3, <1>5 DEF IsSettings, IsCert
<1>7. ArchiveInv'
  BY <1>1, <1>5, <1>6 DEF ArchiveInv
<1> QED BY <1>1, <1>7 DEF IInv, Domains

LEMMA Import ==
  ASSUME IInv, NEW g \in Gateways, importConfigurationBundle(g)
  PROVE  IInv'
<1> DEFINE s == desiredSettings(g)
           p == desiredCertificatePolicy(g)
           from == archive[1].settings
           settings == preserveConfigurationSecrets(from, s)
           cert == NormalizeCertificateConfig(certificateWithAzureDefaults(
                     [archive[1].cert EXCEPT !.secret = p.secret], settings.azure))
           candidate == normalizeConfig(
                          [ApplySettings(active[g], settings) EXCEPT !.cert = cert])
           new == [settings |-> SettingsFromConfig(candidate), cert |-> cert,
                   live |-> importedLiveConfig(active[g], candidate), from |-> from]
<1>1. /\ archive # <<>> /\ ValidateCertificateConfig(cert)
      /\ draft' = [draft EXCEPT ![g] = <<new>>]
      /\ UNCHANGED <<active, settingsFile, certFile, archive, chosen>>
  BY DEF importConfigurationBundle
<1>2. /\ Domains /\ ArchiveInv
      /\ GatewayInv(g, active[g], settingsFile[g], certFile[g], draft[g], chosen[g])
  BY DEF IInv
<1>3. IsSettings(from) /\ IsCert(archive[1].cert)
  BY <1>1, <1>2 DEF ArchiveInv
<1>4. /\ s = IF draft[g] # <<>> THEN draft[g][1].settings
             ELSE IF settingsFile[g] = <<>> THEN SettingsFromConfig(active[g])
                  ELSE settingsFile[g][1]
      /\ p = IF draft[g] # <<>> THEN draft[g][1].cert ELSE active[g].cert
  BY DEF desiredSettings, persistedSettings, desiredCertificatePolicy
<1>5. GatewayInv(g, active[g], settingsFile[g], certFile[g], <<new>>, chosen[g])
  <2> HIDE DEF s, p, from
  <2> QED BY <1>1, <1>2, <1>3, <1>4, ImportStep
<1> HIDE DEF new
<1>6. /\ Domains' /\ draft'[g] = <<new>>
      /\ \A h \in Gateways : h # g =>
           /\ active'[h] = active[h] /\ settingsFile'[h] = settingsFile[h]
           /\ certFile'[h] = certFile[h] /\ draft'[h] = draft[h]
           /\ chosen'[h] = chosen[h]
  BY <1>1, <1>2 DEF Domains
<1>7. ArchiveInv'
  BY <1>1, <1>2, SameArchive
<1>8. GatewayInv(g, active'[g], settingsFile'[g], certFile'[g], draft'[g], chosen'[g])
  BY <1>1, <1>5, <1>6
<1> QED BY <1>6, <1>7, <1>8, OneGateway

LEMMA Persist ==
  ASSUME IInv, NEW g \in Gateways, persistConfigurationImport(g)
  PROVE  IInv'
<1> DEFINE d == draft[g][1]
           e == [f \in Saved |-> IF f \in {"tokens", "extra"} THEN chosen[g][f]
                                                              ELSE d.from[f]]
<1>1. /\ draft[g] # <<>> /\ archive' = archive
      /\ settingsFile' = [settingsFile EXCEPT ![g] = <<d.settings>>]
      /\ certFile' = [certFile EXCEPT ![g] = <<d.cert>>]
      /\ active' = [active EXCEPT ![g] = d.live]
      /\ draft' = [draft EXCEPT ![g] = <<>>]
  BY DEF persistConfigurationImport
<1>2. chosen' = [chosen EXCEPT ![g] = e]
  BY DEF persistConfigurationImport
<1>3. /\ Domains /\ ArchiveInv
      /\ GatewayInv(g, active[g], settingsFile[g], certFile[g], draft[g], chosen[g])
  BY DEF IInv
<1>4. GatewayInv(g, d.live, <<d.settings>>, <<d.cert>>, <<>>, e)
  BY <1>1, <1>3, PersistStep
<1> HIDE DEF d, e
<1>5. /\ Domains' /\ active'[g] = d.live /\ settingsFile'[g] = <<d.settings>>
      /\ certFile'[g] = <<d.cert>> /\ draft'[g] = <<>> /\ chosen'[g] = e
      /\ \A h \in Gateways : h # g =>
           /\ active'[h] = active[h] /\ settingsFile'[h] = settingsFile[h]
           /\ certFile'[h] = certFile[h] /\ draft'[h] = draft[h]
           /\ chosen'[h] = chosen[h]
  BY <1>1, <1>2, <1>3 DEF Domains
<1>6. ArchiveInv'
  BY <1>1, <1>3, SameArchive
<1>7. GatewayInv(g, active'[g], settingsFile'[g], certFile'[g], draft'[g], chosen'[g])
  BY <1>4, <1>5
<1> QED BY <1>5, <1>6, <1>7, OneGateway

LEMMA Restarts ==
  ASSUME IInv, NEW g \in Gateways, Restart(g)
  PROVE  IInv'
<1> DEFINE l == LoadFiles(Env[g], settingsFile[g], certFile[g])
<1>1. /\ active' = [active EXCEPT ![g] = l] /\ draft' = [draft EXCEPT ![g] = <<>>]
      /\ UNCHANGED <<settingsFile, certFile, archive, chosen>>
  BY DEF Restart, Load
<1>2. /\ Domains /\ ArchiveInv
      /\ GatewayInv(g, active[g], settingsFile[g], certFile[g], draft[g], chosen[g])
  BY DEF IInv
<1>3. GatewayInv(g, l, settingsFile[g], certFile[g], <<>>, chosen[g])
  BY <1>2, RestartStep
<1> HIDE DEF l
<1>4. /\ Domains' /\ active'[g] = l /\ draft'[g] = <<>>
      /\ \A h \in Gateways : h # g =>
           /\ active'[h] = active[h] /\ settingsFile'[h] = settingsFile[h]
           /\ certFile'[h] = certFile[h] /\ draft'[h] = draft[h]
           /\ chosen'[h] = chosen[h]
  BY <1>1, <1>2 DEF Domains
<1>5. ArchiveInv'
  BY <1>1, <1>2, SameArchive
<1>6. GatewayInv(g, active'[g], settingsFile'[g], certFile'[g], draft'[g], chosen'[g])
  BY <1>1, <1>3, <1>4
<1> QED BY <1>4, <1>5, <1>6, OneGateway

LEMMA Unchanged ==
  ASSUME IInv, UNCHANGED vars
  PROVE  IInv'
BY DEF IInv, Domains, ArchiveInv, vars

LEMMA Invariant == Spec => []IInv
<1>1. Init => IInv
  BY InitHolds
<1>2. IInv /\ [Next]_vars => IInv'
  <2> SUFFICES ASSUME IInv, [Next]_vars PROVE IInv'
    OBVIOUS
  <2>1. ASSUME NEW g \in Gateways, NEW r \in SecurityRequests, handleSecuritySettings(g, r)
        PROVE  IInv'
    BY <2>1, SecuritySettings
  <2>2. ASSUME NEW g \in Gateways, NEW r \in SystemRequests[g], handleSystemSettings(g, r)
        PROVE  IInv'
    BY <2>2, SystemSettings
  <2>3. ASSUME NEW g \in Gateways, NEW r \in CertificateRequests[g], handleCertificate(g, r)
        PROVE  IInv'
    BY <2>3, Certificate
  <2>4. ASSUME NEW g \in Gateways, ExportConfigurationBundle(g)
        PROVE  IInv'
    BY <2>4, Export
  <2>5. ASSUME NEW g \in Gateways, importConfigurationBundle(g)
        PROVE  IInv'
    BY <2>5, Import
  <2>6. ASSUME NEW g \in Gateways, persistConfigurationImport(g)
        PROVE  IInv'
    BY <2>6, Persist
  <2>7. ASSUME NEW g \in Gateways, Restart(g)
        PROVE  IInv'
    BY <2>7, Restarts
  <2>8. CASE UNCHANGED vars
    BY <2>8, Unchanged
  <2> QED BY <2>1, <2>2, <2>3, <2>4, <2>5, <2>6, <2>7, <2>8 DEF Next
<1> QED BY <1>1, <1>2, PTL DEF Spec

----------------------------------------------------------------------------
(* A start brings back what was chosen.                                    *)
LEMMA ChoicesKept == IInv => ChoicesSurvive
<1> SUFFICES ASSUME IInv, NEW g \in Gateways
             PROVE  LET next == Load(g)
                    IN  /\ next.mode = chosen[g].mode
                        /\ next.azure = normalizeAzure(chosen[g].azure)
                        /\ \A f \in Live : /\ next[f] = chosen[g][f]
                                           /\ active[g][f] = chosen[g][f]
                        /\ certFile[g] # <<>> => next.cert = active[g].cert
  BY DEF ChoicesSurvive
<1> DEFINE l == LoadFiles(Env[g], settingsFile[g], certFile[g])
<1>1. GatewayInv(g, active[g], settingsFile[g], certFile[g], draft[g], chosen[g])
  BY DEF IInv
<1>2. GatewayInv(g, l, settingsFile[g], certFile[g], <<>>, chosen[g])
  BY <1>1, RestartStep
<1>3. Load(g) = l
  BY DEF Load
<1> HIDE DEF l
<1>4. /\ \A f \in Live : l[f] = chosen[g][f] /\ active[g][f] = chosen[g][f]
      /\ certFile[g] # <<>> => l.cert = active[g].cert
  BY <1>1, <1>2 DEF GatewayInv, Chosen
<1>5. l.mode = chosen[g].mode /\ l.azure = normalizeAzure(chosen[g].azure)
  <2>1. CASE settingsFile[g] = <<>>
    BY <1>2, <2>1 DEF GatewayInv, Chosen
  <2>2. CASE settingsFile[g] # <<>>
    <3> DEFINE sf == settingsFile[g]
               cf == certFile[g]
    <3>1. /\ sf # <<>> => IsSettings(sf[1]) /\ Own(g, sf[1])
          /\ cf # <<>> => Whole(cf[1]) /\ OwnCert(g, cf[1])
      BY <1>1 DEF GatewayInv
    <3>2. sf[1].mode = chosen[g].mode
          /\ normalizeAzure(sf[1].azure) = normalizeAzure(chosen[g].azure)
      BY <1>1, <2>2 DEF GatewayInv, Chosen
    <3>3. l.azure = normalizeAzure(sf[1].azure) /\ l.mode = sf[1].mode
      <4> HIDE DEF sf, cf
      <4>1. /\ \A f \in Saved \ {"azure"} :
                 LoadFiles(Env[g], sf, cf)[f] = sf[1][f]
            /\ LoadFiles(Env[g], sf, cf).azure = normalizeAzure(sf[1].azure)
        BY <2>2, <3>1, Loaded DEF sf
      <4>2. l = LoadFiles(Env[g], sf, cf)
        BY DEF l, sf, cf
      <4> QED BY <4>1, <4>2 DEF Saved
    <3> QED BY <3>2, <3>3
  <2> QED BY <2>1, <2>2
<1> QED BY <1>3, <1>4, <1>5

\* Requests are validated, merged with the live configuration, with the files
\* or with a draft, and saved in two files by different handlers, for any
\* gateways, requests and archives passed between them; still a start brings
\* back exactly what the operator set last of everything.
THEOREM KeepsChoices == Spec => []ChoicesSurvive
BY ChoicesKept, Invariant, PTL

\* No archive carries a token, a header value or a client secret, and no
\* gateway ever holds a secret of another's, live, saved or in a draft, however
\* many archives are exported, imported and passed on between them.
THEOREM KeepsSecrets == Spec => []SecretsStayHome
<1>1. IInv => SecretsStayHome
  <2> SUFFICES ASSUME IInv PROVE SecretsStayHome
    OBVIOUS
  <2>1. archive # <<>> => Secrets(archive[1].settings, archive[1].cert) = {}
    BY DEF IInv, ArchiveInv, Secrets
  <2>2. ASSUME NEW g \in Gateways, NEW c, Own(g, c), NEW cert, OwnCert(g, cert)
        PROVE  Secrets(c, cert) \subseteq SecretsOf[g]
    BY <2>2 DEF Secrets, Own, OwnCert
  <2>3. ASSUME NEW g \in Gateways
        PROVE  /\ \A c \in {active[g], Load(g)} : Secrets(c, c.cert) \subseteq SecretsOf[g]
               /\ draft[g] # <<>> =>
                    LET d == draft[g][1]
                    IN  Secrets(d.settings, d.cert) \cup Secrets(d.live, d.live.cert)
                          \subseteq SecretsOf[g]
    <3> DEFINE l == LoadFiles(Env[g], settingsFile[g], certFile[g])
               d == draft[g][1]
    <3>1. GatewayInv(g, active[g], settingsFile[g], certFile[g], draft[g], chosen[g])
      BY DEF IInv
    <3>2. GatewayInv(g, l, settingsFile[g], certFile[g], <<>>, chosen[g])
      BY <3>1, RestartStep
    <3>3. Load(g) = l
      BY DEF Load
    <3> HIDE DEF l
    <3>4. /\ Own(g, active[g]) /\ OwnCert(g, active[g].cert)
          /\ Own(g, l) /\ OwnCert(g, l.cert)
      BY <3>1, <3>2 DEF GatewayInv
    <3>5. ASSUME draft[g] # <<>>
          PROVE  /\ Own(g, d.settings) /\ OwnCert(g, d.cert)
                 /\ Own(g, d.live) /\ OwnCert(g, d.live.cert)
      <4>1. Own(g, d.settings) /\ OwnCert(g, d.cert) /\ Drafted(d, chosen[g])
        BY <3>1, <3>5 DEF GatewayInv
      <4>2. /\ d.live.tokens = d.settings.tokens /\ d.live.extra = d.settings.extra
            /\ d.live.cert = d.cert
        BY <4>1 DEF Drafted, Live
      <4> QED BY <4>1, <4>2 DEF Own
    <3> QED BY <2>2, <3>3, <3>4, <3>5
  <2> QED BY <2>1, <2>3 DEF SecretsStayHome
<1> QED BY <1>1, Invariant, PTL

----------------------------------------------------------------------------
(* Starting with what was saved.                                           *)

ValidAzure(a) ==
  a.enabled /\ a.manageDNS => a.zones # {} /\ \A z \in a.zones : z.group # ""

(* Choices with which the gateway starts.                                  *)
Startable(g, ch) ==
  /\ ch.mode \in {"container-socket", "azure-vm"} /\ ch.security # "invalid"
  /\ ValidAzure(normalizeAzure(ch.azure))
  /\ Renders(g, ch)

(* What will be chosen once a draft is applied.                            *)
Applied(d, ch) ==
  [f \in Saved |-> IF f \in {"tokens", "extra"} THEN ch[f] ELSE d.from[f]]

ReadyAt(g, cf, d, ch) ==
  /\ Startable(g, ch)
  /\ cf # <<>> => ValidateCertificateConfig(cf[1])
  /\ d # <<>> => /\ Startable(g, Applied(d[1], ch))
                 /\ ValidateCertificateConfig(d[1].cert)

Ready == \A g \in Gateways : ReadyAt(g, certFile[g], draft[g], chosen[g])

SelfContainedEnv == \A g \in Gateways : SelfContained(g, Env[g])

LEMMA InitReady ==
  ASSUME SelfContainedEnv, Init
  PROVE  Ready
<1> SUFFICES ASSUME NEW g \in Gateways
             PROVE  ReadyAt(g, certFile[g], draft[g], chosen[g])
  BY DEF Ready
<1> DEFINE base == applyEnv(Env[g])
           l == LoadFiles(Env[g], <<>>, <<>>)
           ch == [f \in Saved |-> base[f]]
<1>1. certFile[g] = <<>> /\ draft[g] = <<>> /\ chosen[g] = ch
  BY DEF Init
<1>2. Acceptable(g, l)
  BY DEF SelfContainedEnv, SelfContained
<1>3. /\ \A f \in Saved \ {"azure"} : l[f] = base[f]
      /\ l.azure = normalizeAzure(base.azure)
  BY Loaded
<1>4. /\ ch.mode = base.mode /\ ch.security = base.security /\ ch.azure = base.azure
      /\ ch.required = base.required /\ ch.tokens = base.tokens
  BY DEF Saved, Live
<1> HIDE DEF base, l, ch
<1>5. /\ l.mode = ch.mode /\ l.security = ch.security /\ l.required = ch.required
      /\ l.tokens = ch.tokens /\ l.azure = normalizeAzure(ch.azure)
  BY <1>3, <1>4 DEF Saved, Live
<1>6. Startable(g, ch)
  BY <1>2, <1>5 DEF Startable, Acceptable, validateConfig, Renders, ValidAzure
<1> QED BY <1>1, <1>6 DEF ReadyAt

(* A step of one gateway.                                                  *)
LEMMA OneReady ==
  ASSUME Ready, NEW g \in Gateways,
         \A h \in Gateways : h # g =>
           certFile'[h] = certFile[h] /\ draft'[h] = draft[h] /\ chosen'[h] = chosen[h],
         ReadyAt(g, certFile'[g], draft'[g], chosen'[g])
  PROVE  Ready'
<1>1. ASSUME NEW h \in Gateways
      PROVE  ReadyAt(h, certFile'[h], draft'[h], chosen'[h])
  BY <1>1 DEF Ready
<1> QED BY <1>1 DEF Ready

LEMMA SecurityReady ==
  ASSUME IInv, Ready, NEW g \in Gateways, NEW r, handleSecuritySettings(g, r)
  PROVE  Ready'
<1> DEFINE a == active[g]
           b == [a EXCEPT !.security = r.security, !.allow = r.allow]
           ch == chosen[g]
           e == [ch EXCEPT !.security = r.security, !.allow = r.allow]
<1>1. /\ draft[g] = <<>> /\ draft' = draft /\ certFile' = certFile
      /\ chosen' = [chosen EXCEPT ![g] = e] /\ Acceptable(g, normalizeConfig(b))
  BY DEF handleSecuritySettings, Change
<1>2. Domains /\ IsConfig(a) /\ IsSettings(ch) /\ ReadyAt(g, certFile[g], <<>>, ch)
  BY <1>1 DEF IInv, GatewayInv, Ready
<1> HIDE DEF a, ch
<1>3. /\ DOMAIN b = Saved \cup {"cert"} /\ b.azure = a.azure /\ b.cert = a.cert
      /\ b.security = r.security
  BY <1>2 DEF IsConfig, Saved, Live
<1>4. /\ e.mode = ch.mode /\ e.security = r.security /\ e.azure = ch.azure
      /\ e.required = ch.required /\ e.tokens = ch.tokens
  BY <1>2 DEF IsSettings, Saved, Live
<1> HIDE DEF b, e
<1>5. normalizeConfig(b).security = r.security
  <2>1. IsConfig(b)
    BY <1>2, <1>3 DEF IsConfig
  <2>2. \A f \in Saved \ {"azure"} : normalizeConfig(b)[f] = b[f]
    BY <2>1, ConfigNormalized
  <2> QED BY <1>3, <2>2 DEF Saved, Live
<1>6. r.security # "invalid"
  BY <1>1, <1>5 DEF Acceptable, validateConfig
<1>7. Startable(g, e)
  BY <1>2, <1>4, <1>6 DEF Startable, ReadyAt, Renders
<1>8. ReadyAt(g, certFile[g], <<>>, e)
  BY <1>2, <1>7 DEF ReadyAt
<1>9. /\ certFile'[g] = certFile[g] /\ draft'[g] = <<>> /\ chosen'[g] = e
      /\ \A h \in Gateways : h # g =>
           certFile'[h] = certFile[h] /\ draft'[h] = draft[h] /\ chosen'[h] = chosen[h]
  BY <1>1, <1>2 DEF Domains
<1> QED BY <1>8, <1>9, OneReady

LEMMA SystemReady ==
  ASSUME IInv, Ready, NEW g \in Gateways, NEW r \in SystemRequests[g],
         handleSystemSettings(g, r)
  PROVE  Ready'
<1> DEFINE a == active[g]
           ch == chosen[g]
           s == SavedSettings(a, settingsFile[g])
           new(old) == IF r.token = "" THEN old ELSE {r.token}
           m == ApplySettings(a, s)
           b == [m EXCEPT !.mode = r.mode, !.docker = r.mode = "container-socket",
                          !.azure = r.azure, !.tokens = new(m.tokens)]
           e == [ch EXCEPT !.mode = r.mode, !.azure = r.azure,
                           !.tokens = new(ch.tokens)]
<1>1. /\ draft[g] = <<>> /\ draft' = draft /\ certFile' = certFile
      /\ chosen' = [chosen EXCEPT ![g] = e]
  BY DEF handleSystemSettings, Change
<1>2. validateConfig(normalizeConfig(b))
  <2>1. desiredSettings(g) = s
    BY <1>1 DEF desiredSettings, persistedSettings, SavedSettings
  <2> QED BY <2>1 DEF handleSystemSettings, NextStartValid
<1>3. Domains /\ GatewayInv(g, a, settingsFile[g], certFile[g], <<>>, ch)
  BY <1>1 DEF IInv
<1>4. IsConfig(a) /\ IsSettings(ch) /\ ReadyAt(g, certFile[g], <<>>, ch)
  BY <1>1, <1>3 DEF GatewayInv, Ready
<1>5. IsConfig(m)
  <2>1. IsSettings(s)
    BY <1>3, DesiredSaved
  <2> QED BY <1>4, <2>1, Merged
<1>6. IsAzure(r.azure)
  <2>1. r.azure \in AzureConfig
    BY RequestAssumption
  <2> QED BY <2>1 DEF AzureConfig, IsAzure, AzureFields
<1> HIDE DEF a, ch, s, m
<1>7. /\ DOMAIN b = Saved \cup {"cert"} /\ b.azure = r.azure /\ b.cert = m.cert
      /\ b.mode = r.mode
  BY <1>5 DEF IsConfig, Saved, Live
<1>8. /\ e.mode = r.mode /\ e.security = ch.security /\ e.azure = r.azure
      /\ e.required = ch.required /\ e.tokens = new(ch.tokens)
  BY <1>4 DEF IsSettings, Saved, Live
<1> HIDE DEF b, e
<1>9. /\ normalizeConfig(b).mode = r.mode
      /\ normalizeConfig(b).azure = normalizeAzure(r.azure)
  <2>1. IsConfig(b)
    BY <1>5, <1>6, <1>7 DEF IsConfig
  <2>2. /\ \A f \in Saved \ {"azure"} : normalizeConfig(b)[f] = b[f]
        /\ normalizeConfig(b).azure = normalizeAzure(b.azure)
    BY <2>1, ConfigNormalized
  <2>3. normalizeConfig(b).mode = b.mode
    BY <2>2 DEF Saved
  <2> QED BY <1>7, <2>2, <2>3
<1>10. /\ r.mode \in {"container-socket", "azure-vm"}
       /\ ValidAzure(normalizeAzure(r.azure))
  BY <1>2, <1>9 DEF validateConfig, ValidAzure
<1>11. Renders(g, e)
  <2>1. Renders(g, ch)
    BY <1>4 DEF ReadyAt, Startable
  <2>2. ch.tokens # {} => new(ch.tokens) # {}
    OBVIOUS
  <2> HIDE DEF new
  <2> QED BY <1>8, <2>1, <2>2 DEF Renders
<1> HIDE DEF new
<1>12. Startable(g, e)
  BY <1>4, <1>8, <1>10, <1>11 DEF Startable, ReadyAt
<1>13. ReadyAt(g, certFile[g], <<>>, e)
  BY <1>4, <1>12 DEF ReadyAt
<1>14. /\ certFile'[g] = certFile[g] /\ draft'[g] = <<>> /\ chosen'[g] = e
       /\ \A h \in Gateways : h # g =>
            certFile'[h] = certFile[h] /\ draft'[h] = draft[h] /\ chosen'[h] = chosen[h]
  BY <1>1, <1>3 DEF Domains
<1> QED BY <1>13, <1>14, OneReady

LEMMA CertificateReady ==
  ASSUME IInv, Ready, NEW g \in Gateways, NEW r, handleCertificate(g, r)
  PROVE  Ready'
<1>1. PICK n : /\ ValidateCertificateConfig(n)
               /\ certFile' = [certFile EXCEPT ![g] = <<n>>]
  BY DEF handleCertificate
<1>2. draft[g] = <<>> /\ draft' = draft /\ chosen' = chosen
  BY DEF handleCertificate, Change
<1>3. Domains /\ ReadyAt(g, certFile[g], <<>>, chosen[g])
  BY <1>2 DEF IInv, Ready
<1>4. ReadyAt(g, <<n>>, <<>>, chosen[g])
  BY <1>1, <1>3 DEF ReadyAt
<1>5. /\ certFile'[g] = <<n>>
      /\ \A h \in Gateways : h # g => certFile'[h] = certFile[h]
  BY <1>1, <1>3 DEF Domains
<1> QED BY <1>2, <1>4, <1>5, OneReady

LEMMA ImportReady ==
  ASSUME IInv, Ready, NEW g \in Gateways, importConfigurationBundle(g)
  PROVE  Ready'
<1> DEFINE s == desiredSettings(g)
           p == desiredCertificatePolicy(g)
           from == archive[1].settings
           settings == preserveConfigurationSecrets(from, s)
           cert == NormalizeCertificateConfig(certificateWithAzureDefaults(
                     [archive[1].cert EXCEPT !.secret = p.secret], settings.azure))
           candidate == normalizeConfig(
                          [ApplySettings(active[g], settings) EXCEPT !.cert = cert])
           live == importedLiveConfig(active[g], candidate)
           new == [settings |-> SettingsFromConfig(candidate), cert |-> cert,
                   live |-> live, from |-> from]
           ch == chosen[g]
           e == Applied(new, ch)
<1>1. /\ archive # <<>> /\ ValidateCertificateConfig(cert)
      /\ validateConfig(candidate) /\ Renders(g, live)
      /\ draft' = [draft EXCEPT ![g] = <<new>>]
      /\ UNCHANGED <<certFile, chosen>>
  BY DEF importConfigurationBundle
<1>2. /\ Domains /\ ArchiveInv
      /\ GatewayInv(g, active[g], settingsFile[g], certFile[g], draft[g], ch)
  BY DEF IInv
<1>3. IsSettings(from) /\ IsCert(archive[1].cert)
  BY <1>1, <1>2 DEF ArchiveInv
<1>4. /\ s = IF draft[g] # <<>> THEN draft[g][1].settings
             ELSE IF settingsFile[g] = <<>> THEN SettingsFromConfig(active[g])
                  ELSE settingsFile[g][1]
      /\ p = IF draft[g] # <<>> THEN draft[g][1].cert ELSE active[g].cert
  BY DEF desiredSettings, persistedSettings, desiredCertificatePolicy
<1>5. /\ GatewayInv(g, active[g], settingsFile[g], certFile[g], <<new>>, ch)
      /\ candidate.azure = normalizeAzure(from.azure)
  <2> HIDE DEF s, p, from, ch
  <2> QED BY <1>1, <1>2, <1>3, <1>4, ImportStep
<1>6. /\ new.settings = SettingsFromConfig(candidate) /\ new.cert = cert
      /\ new.live = live /\ new.from = from
  OBVIOUS
<1> HIDE DEF new, ch, from, cert, candidate, live
<1>7. Drafted(new, ch)
  BY <1>5 DEF GatewayInv
<1>8. /\ new.settings.mode = candidate.mode
      /\ new.settings.security = candidate.security
  BY <1>6 DEF SettingsFromConfig, Saved, Live
<1>9. /\ from.mode = candidate.mode /\ from.security = candidate.security
      /\ live.required = from.required /\ live.tokens = ch.tokens
  BY <1>6, <1>7, <1>8 DEF Drafted, Live
<1>10. /\ e.mode = from.mode /\ e.security = from.security /\ e.azure = from.azure
       /\ e.required = from.required /\ e.tokens = ch.tokens
  BY <1>6 DEF Applied, Saved, Live
<1> HIDE DEF e
<1>11. Startable(g, e)
  BY <1>1, <1>5, <1>9, <1>10 DEF Startable, validateConfig, Renders, ValidAzure
<1>12. ReadyAt(g, certFile[g], <<new>>, ch)
  <2>1. Startable(g, ch) /\ (certFile[g] # <<>> => ValidateCertificateConfig(certFile[g][1]))
    BY DEF Ready, ReadyAt, ch
  <2> QED BY <1>1, <1>6, <1>11, <2>1 DEF ReadyAt, e
<1>13. /\ draft'[g] = <<new>>
       /\ \A h \in Gateways : h # g => draft'[h] = draft[h]
  BY <1>1, <1>2 DEF Domains
<1> QED BY <1>1, <1>12, <1>13, OneReady DEF ch

LEMMA PersistReady ==
  ASSUME IInv, Ready, NEW g \in Gateways, persistConfigurationImport(g)
  PROVE  Ready'
<1> DEFINE d == draft[g][1]
           e == Applied(d, chosen[g])
<1>1. /\ draft[g] # <<>> /\ certFile' = [certFile EXCEPT ![g] = <<d.cert>>]
      /\ draft' = [draft EXCEPT ![g] = <<>>]
  BY DEF persistConfigurationImport
<1>2. chosen' = [chosen EXCEPT ![g] = e]
  BY DEF persistConfigurationImport, Applied
<1>3. Domains /\ Startable(g, e) /\ ValidateCertificateConfig(d.cert)
  BY <1>1 DEF IInv, Ready, ReadyAt
<1> HIDE DEF d, e
<1>4. ReadyAt(g, <<d.cert>>, <<>>, e)
  BY <1>3 DEF ReadyAt
<1>5. /\ certFile'[g] = <<d.cert>> /\ draft'[g] = <<>> /\ chosen'[g] = e
      /\ \A h \in Gateways : h # g =>
           certFile'[h] = certFile[h] /\ draft'[h] = draft[h] /\ chosen'[h] = chosen[h]
  BY <1>1, <1>2, <1>3 DEF Domains
<1> QED BY <1>4, <1>5, OneReady

LEMMA RestartReady ==
  ASSUME IInv, Ready, NEW g \in Gateways, Restart(g)
  PROVE  Ready'
<1>1. draft' = [draft EXCEPT ![g] = <<>>] /\ certFile' = certFile /\ chosen' = chosen
  BY DEF Restart
<1>2. Domains /\ ReadyAt(g, certFile[g], <<>>, chosen[g])
  BY DEF IInv, Ready, ReadyAt
<1>3. draft'[g] = <<>> /\ \A h \in Gateways : h # g => draft'[h] = draft[h]
  BY <1>1, <1>2 DEF Domains
<1> QED BY <1>1, <1>2, <1>3, OneReady

LEMMA StaysReady ==
  ASSUME IInv, Ready, [Next]_vars
  PROVE  Ready'
<1>1. ASSUME NEW g \in Gateways, NEW r \in SecurityRequests, handleSecuritySettings(g, r)
      PROVE  Ready'
  BY <1>1, SecurityReady
<1>2. ASSUME NEW g \in Gateways, NEW r \in SystemRequests[g], handleSystemSettings(g, r)
      PROVE  Ready'
  BY <1>2, SystemReady
<1>3. ASSUME NEW g \in Gateways, NEW r \in CertificateRequests[g], handleCertificate(g, r)
      PROVE  Ready'
  BY <1>3, CertificateReady
<1>4. ASSUME NEW g \in Gateways, ExportConfigurationBundle(g)
      PROVE  Ready'
  BY <1>4 DEF ExportConfigurationBundle, Ready
<1>5. ASSUME NEW g \in Gateways, importConfigurationBundle(g)
      PROVE  Ready'
  BY <1>5, ImportReady
<1>6. ASSUME NEW g \in Gateways, persistConfigurationImport(g)
      PROVE  Ready'
  BY <1>6, PersistReady
<1>7. ASSUME NEW g \in Gateways, Restart(g)
      PROVE  Ready'
  BY <1>7, RestartReady
<1>8. CASE UNCHANGED vars
  BY <1>8 DEF vars, Ready
<1> QED BY <1>1, <1>2, <1>3, <1>4, <1>5, <1>6, <1>7, <1>8 DEF Next

(* The policy of a self-contained environment stays what it is, whatever   *)
(* the Azure settings have become.                                         *)
LEMMA EnvPolicyStays ==
  ASSUME NEW g \in Gateways, SelfContained(g, Env[g]), NEW sf,
         sf # <<>> => IsSettings(sf[1])
  PROVE  ValidateCertificateConfig(LoadFiles(Env[g], sf, <<>>).cert)
<1> DEFINE base == applyEnv(Env[g])
           set == IF sf = <<>> THEN base ELSE ApplySettings(base, sf[1])
           azure == normalizeAzure(set.azure)
           n == NormalizeCertificateConfig(base.cert)
           cert == ApplyAzureCertificateDefaults(base.cert, azure)
<1>1. IsConfig(base) /\ ValidateCertificateConfig(base.cert)
  BY EnvConfig DEF SelfContained
<1>2. LoadFiles(Env[g], sf, <<>>) = normalizeConfig(set)
  BY DEF LoadFiles
<1> HIDE DEF base
<1>3. IsConfig(set) /\ set.cert = base.cert
  BY <1>1, Merged
<1> HIDE DEF set
<1>4. normalizeConfig(set).cert = cert
  BY <1>3 DEF normalizeConfig, IsConfig, Saved
<1>5. IsCert(n) /\ NormalizeCertificateConfig(n) = n
  BY <1>1, CertNormalized DEF IsConfig
<1>6. ValidateCertificateConfig(n)
  <2> HIDE DEF n
  <2>1. NormalizeCertificateConfig(base.cert) = n
    BY DEF n
  <2> QED BY <1>1, <1>5, <2>1 DEF ValidateCertificateConfig
<1>7. Whole(n)
  BY <1>1, <1>6, ValidatedWhole DEF IsConfig
<1>8. cert = ApplyAzureCertificateDefaults(n, azure)
  <2> HIDE DEF n, azure
  <2>1. NormalizeCertificateConfig(base.cert) = n
    BY DEF n
  <2> QED BY <1>5, <2>1 DEF ApplyAzureCertificateDefaults
<1>9. cert = n
  <2> HIDE DEF n, azure, cert
  <2> QED BY <1>5, <1>7, <1>8, CertDefaults
<1> HIDE DEF n, cert
<1> QED BY <1>2, <1>4, <1>6, <1>9

LEMMA ReadyStarts ==
  ASSUME SelfContainedEnv, IInv, Ready
  PROVE  StartAccepts
<1> SUFFICES ASSUME NEW g \in Gateways
             PROVE  Acceptable(g, Load(g))
  BY DEF StartAccepts
<1> DEFINE l == Load(g)
           ch == chosen[g]
<1>1. /\ l.mode = ch.mode /\ l.azure = normalizeAzure(ch.azure)
      /\ \A f \in Live : l[f] = ch[f]
      /\ certFile[g] # <<>> => l.cert = active[g].cert
  BY ChoicesKept DEF ChoicesSurvive
<1>2. /\ certFile[g] # <<>> => certFile[g][1] = active[g].cert
      /\ settingsFile[g] # <<>> => IsSettings(settingsFile[g][1])
  BY DEF IInv, GatewayInv
<1>3. Startable(g, ch)
      /\ (certFile[g] # <<>> => ValidateCertificateConfig(certFile[g][1]))
  BY DEF Ready, ReadyAt
<1>4. ValidateCertificateConfig(l.cert)
  <2>1. CASE certFile[g] = <<>>
    <3>1. l = LoadFiles(Env[g], settingsFile[g], <<>>)
      BY <2>1 DEF Load
    <3> HIDE DEF l
    <3>2. SelfContained(g, Env[g])
      BY DEF SelfContainedEnv
    <3> QED BY <1>2, <3>1, <3>2, EnvPolicyStays
  <2>2. CASE certFile[g] # <<>>
    <3> HIDE DEF l
    <3> QED BY <1>1, <1>2, <1>3, <2>2
  <2> QED BY <2>1, <2>2
<1> HIDE DEF l, ch
<1>5. /\ l.security = ch.security /\ l.required = ch.required /\ l.tokens = ch.tokens
  BY <1>1 DEF Live
<1>6. Acceptable(g, l)
  BY <1>1, <1>3, <1>4, <1>5
  DEF Acceptable, validateConfig, Renders, Startable, ValidAzure
<1> QED BY <1>6 DEF l

\* Where the certificate policy of the environment takes nothing from the Azure
\* settings, a gateway starts with whatever was saved: settings, policies and
\* imports, each validated against the state of its time and saved in two files,
\* in any order and between any restarts.
THEOREM AlwaysStarts ==
  ASSUME SelfContainedEnv
  PROVE  Spec => []StartAccepts
<1>1. Init => Ready
  BY InitReady
<1>2. IInv /\ Ready /\ [Next]_vars => Ready'
  BY StaysReady
<1>3. IInv /\ Ready => StartAccepts
  BY ReadyStarts
<1> QED BY <1>1, <1>2, <1>3, Invariant, PTL DEF Spec

=============================================================================
