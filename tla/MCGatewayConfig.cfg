SPECIFICATION Spec
CONSTANTS
  Gateways = {1, 2}
  Env <- MCEnv
  Management <- MCManagement
  SecurityRequests <- MCSecurity
  SystemRequests <- MCSystem
  CertificateRequests <- MCCertificates
  SecretsOf <- MCSecrets
  MaxChanges = 3
  MaxImports = 2
INVARIANTS
  StartAccepts
  ChoicesSurvive
  SecretsStayHome
