CONSTANTS
  p1 = p1
  p2 = p2
  Proc = {p1, p2}
  Servers = {p2}
  NoProc = nobody
  SchemaVersion <- Versions
  ReadsFirst = {1}
  Request = {r1}
  Chains <- AllChains
  MaxStarts = 3
  MaxKills = 1
SPECIFICATION FairSpec
INVARIANT TypeOK
INVARIANT OpenHasSchema
INVARIANT RaceEndsComplete
INVARIANT LoneStart
INVARIANT RefusalReachesClient
INVARIANT OneAnswer
INVARIANT LogMatchesClient
INVARIANT RepositoryOutlivesRequests
PROPERTY SignalEnds
CHECK_DEADLOCK FALSE
