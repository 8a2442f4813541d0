------------------------ MODULE MCCertificateArchive ------------------------
(* The certificates of a host and of the wildcard over it.                 *)
EXTENDS CertificateArchive

host == <<"a", "x", "y">>
wild == <<"*", "x", "y">>
MCDirs == {host, wild}
MCSubjectsOf == [d \in MCDirs |-> {d}]
MCHostSets == {{host}, {host, wild}}
MCAzure == [subscription |-> TRUE, group |-> "",
            zones |-> {[name |-> <<"y">>, group |-> ""],
                       [name |-> <<"x", "y">>, group |-> "dns"]}]

MCCertificate(issuer, subjects, provider) ==
  [issuer |-> issuer, ca |-> FALSE, subjects |-> subjects, provider |-> provider,
   subscription |-> FALSE, group |-> "", auth |-> "", ids |-> FALSE,
   secret |-> ""]

\* Settings that are accepted, and settings that are not.
MCCertificates ==
  {MCCertificate("default", {wild}, "azure"), MCCertificate("", {}, ""),
   MCCertificate("letsencrypt", {wild}, ""), MCCertificate("zerossl", {wild}, "azure"),
   MCCertificate("custom", {}, "")}
=============================================================================
