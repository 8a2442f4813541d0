SPECIFICATION FairSpec
CONSTANTS
  Containers <- MCContainers
  Gateway = "gw"
  NameOf <- MCNameOf
  ServiceOf <- MCServiceOf
  Labels <- MCLabels
  Ports <- MCPorts
  NetworkOrder <- MCNetworkOrder
  Addresses = {1, 2, 3}
  MaxMoves = 3
  MaxBound = 1
  MaxFailures = 1
PROPERTIES
  RoutesExact
  RoutesSettle
