SPECIFICATION Spec
CONSTANTS
  RouteSet <- MCRoutes
  Settings <- MCSettings
  HostRank <- MCHostRank
  PathLength <- MCPathLength
  Sources = {"in", "out"}
  Methods = {"get", "delete"}
  RequestHosts <- MCRequestHosts
  RequestPaths <- MCRequestPaths
  HeaderSets <- MCHeaderSets
  MaxRoutes = 3
INVARIANTS
  MostSpecificRoute
  PolicyEnforced
  RedirectsLand
