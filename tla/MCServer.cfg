CONSTANTS
  Token = {"user", "manager"}
  ApiKey = {"key"}
  Content = {"x", "y"}
  MaxArriving = 1
  MaxId = 2
  RoleOf <- MCRoleOf
  ScopesOf <- MCScopesOf
  SeedRows <- MCSeedRows
  Configs <- MCConfigs
  Requests <- MCRequests
SPECIFICATION Spec
CHECK_DEADLOCK FALSE
INVARIANTS AnswersFitRegistry EveryRouteReached RedirectsResolve
PROPERTIES KeepsGate
