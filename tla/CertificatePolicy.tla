------------------------- MODULE CertificatePolicy --------------------------
(***************************************************************************)
(* From the certificate settings to the names Caddy manages: normalisation *)
(* and validation (internal/config), what Render makes of them (internal/  *)
(* caddy), and what the inventory reads back from the running              *)
(* configuration (internal/certificate).  Operators only; the state        *)
(* machine that uses them is CertificateArchive.                           *)
(*                                                                         *)
(* A name is a sequence of labels, "*" for the wildcard.  Certificate      *)
(* settings have an issuer ("" for none), whether a CA directory is given, *)
(* a set of subjects and the DNS challenge: its provider, the subscription *)
(* and resource group, the authentication ("" for none), whether tenant    *)
(* and client are named, and the client secret ("" for none).              *)
(***************************************************************************)
EXTENDS Integers, FiniteSets, SequencesExt

CertificateConfig ==
  [issuer : STRING, ca : BOOLEAN, subjects : SUBSET Seq(STRING),
   provider : STRING, subscription : BOOLEAN, group : STRING, auth : STRING,
   ids : BOOLEAN, secret : STRING]

Wildcard(name) == Head(name) = "*"

\* normalizeName has been applied; a wildcard covers exactly one label.
Covers(subject, host) ==
  \/ subject = host
  \/ /\ Wildcard(subject) /\ ~Wildcard(host)
     /\ Len(subject) = Len(host) /\ Tail(subject) = Tail(host)

----------------------------------------------------------------------------
(* config.go *)

\* Bug: the default issuer is left to Caddy.
NormalizeDNSOnly(c) ==
  [c EXCEPT !.auth = IF c.provider = "azure" /\ @ = "" THEN "managedidentity" ELSE @]

NormalizeCertificateConfig(c) ==
  LET auth == IF c.provider = "azure" /\ c.auth = "" THEN "managedidentity"
                                                     ELSE c.auth
  IN  [c EXCEPT !.issuer = IF @ \in {"", "default"} THEN "letsencrypt" ELSE @,
                !.auth = auth,
                !.ids = @ /\ auth # "managedidentity",
                !.secret = IF auth = "managedidentity" THEN "" ELSE @]

\* The name of a subject without its wildcard.
Domain(subject) == IF Wildcard(subject) THEN Tail(subject) ELSE subject

\* The group of the longest zone with one of the subjects, or of the only
\* zone, or that of the other resources.
certificateAzureDNSResourceGroup(subjects, azure) ==
  LET holding == {z \in azure.zones : \E s \in subjects : IsSuffix(z.name, Domain(s))}
      longest == {z \in holding : \A y \in holding : Len(y.name) <= Len(z.name)}
  IN  IF longest # {} THEN (CHOOSE z \in longest : TRUE).group
      ELSE CASE Cardinality(azure.zones) = 1 -> (CHOOSE z \in azure.zones : TRUE).group
             [] azure.zones = {} -> azure.group
             [] OTHER -> ""

ApplyAzureCertificateDefaults(c, azure) ==
  LET n == NormalizeCertificateConfig(c)
  IN  IF n.provider # "azure" THEN n
      ELSE [n EXCEPT !.subscription = @ \/ azure.subscription,
                     !.group = IF @ # "" THEN @
                       ELSE certificateAzureDNSResourceGroup(n.subjects, azure)]

\* Bug: a wildcard is accepted without a DNS challenge.
ValidWithoutChallenge(c) ==
  LET n == NormalizeCertificateConfig(c)
  IN  /\ n.issuer \in {"default", "letsencrypt", "zerossl", "custom"}
      /\ n.issuer = "custom" => n.ca
      /\ \A s \in n.subjects : Len(Domain(s)) >= 2
      /\ n.provider = "azure" => n.issuer # "zerossl" /\ n.subscription

ValidateCertificateConfig(c) ==
  LET n == NormalizeCertificateConfig(c)
  IN  /\ n.issuer \in {"default", "letsencrypt", "zerossl", "custom"}
      /\ n.issuer = "custom" => n.ca
      /\ \A s \in n.subjects : /\ Len(Domain(s)) >= 2
                               /\ Wildcard(s) => n.provider # ""
      /\ n.provider \in {"", "azure"}
      /\ n.provider = "azure" =>
           /\ n.issuer # "zerossl"
           /\ n.subjects # {}
           /\ n.subscription /\ n.group # ""
           /\ n.auth \in {"managedidentity", "appregistration"}
           /\ n.auth = "appregistration" => n.ids /\ n.secret # ""

----------------------------------------------------------------------------
(* caddy/config.go *)

wildcardCertificateCoversHost(subjects, host) ==
  ~Wildcard(host) /\ \E s \in subjects : Wildcard(s) /\ Covers(s, host)

\* The policies in their order; one without subjects is for all names.
tlsAutomation(c) ==
  LET policy(subjects, dns) == [subjects |-> subjects, dns |-> dns]
  IN  IF c.issuer \in {"", "default"} THEN [policies |-> <<>>, automate |-> {}]
      ELSE [automate |-> c.subjects,
            policies |-> IF c.provider # "" /\ c.subjects # {}
                         THEN <<policy(c.subjects, TRUE), policy({}, FALSE)>>
                         ELSE <<policy({}, FALSE)>>]

\* The part of a rendered configuration that is about certificates, for the
\* hosts of the enabled HTTPS routes.
Rendered(c, hosts) ==
  LET tls == tlsAutomation(c)
  IN  [listed |-> tls.automate, policies |-> tls.policies, hosts |-> hosts,
       skip |-> {h \in hosts : wildcardCertificateCoversHost(c.subjects, h)}]

----------------------------------------------------------------------------
(* certificate/policy.go: ParsePolicy of a configuration that Caddy runs.  *)

\* Names that a wildcard covers are not managed, unless they are listed.
ManagedSubjects(c) ==
  LET all == c.listed \cup (c.hosts \ c.skip)
  IN  {s \in all : s \in c.listed \/ ~\E w \in all \ {s} : Covers(w, s)}

\* Classify: the certificate with these subjects may be archived.
CanArchive(subjects, c) ==
  /\ subjects # {}
  /\ ~\E s \in subjects, m \in ManagedSubjects(c) : Covers(s, m)

\* verifyNotServing: the hosts a handshake is made for.
Affected(subjects, c) ==
  {h \in c.hosts : \E s \in subjects : Covers(s, h) \/ Covers(h, s)}

\* The first policy that has the name, or is for all names (external: Caddy).
PolicyFor(name, c) ==
  LET fitting == {i \in DOMAIN c.policies :
                    c.policies[i].subjects = {} \/ name \in c.policies[i].subjects}
  IN  c.policies[CHOOSE i \in fitting : \A j \in fitting : i <= j]
=============================================================================
