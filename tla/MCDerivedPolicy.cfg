SPECIFICATION Spec
CONSTANTS
  Gateways = {1}
  Env <- DerivedPolicy
  Management = {}
  SecurityRequests = {}
  SystemRequests <- AzureOff
  CertificateRequests <- OneNothing
  SecretsOf <- MCSecrets
  MaxChanges = 1
  MaxImports = 0
INVARIANT StartAccepts
