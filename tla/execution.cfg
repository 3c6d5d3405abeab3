\* Three credentials of two providers and priorities, one request in full and
\* other requests between its steps.
SPECIFICATION Spec
CONSTANTS
  a1 = a1
  a2 = a2
  a3 = a3
  pa = pa
  pb = pb
  m1 = m1
  m2 = m2
  Order <- MCOrder
  NoAuth = NoAuth
  Models = {m1, m2}
  Route = m1
  ProviderOf <- MCProviderOf
  PriorityOf <- MCPriorityOf
  Websockets = {a2}
  WsProviders = {pa}
  Lists <- MCLists
  Requests = {r1}
  Calls <- MCCalls
  Pool <- MCPool
  Refreshable = {a1}
  RetryOf <- MCRetryOf
  MaxCredentials = 2
  MaxWait = 1
  QuotaPause = 1
  AuthPause = 1
  TransientPause = 0
  Hints = {0}
  Classes = {"quota", "unauthorized", "invalid", "neutral"}
  Strategies = {"round-robin", "fill-first"}
  MaxOthers = 2
CHECK_DEADLOCK FALSE
INVARIANTS
  AnswersRecorded
  UpstreamErrorTold
  FairTurns
PROPERTIES
  BestFirst
  RequestsEnd
