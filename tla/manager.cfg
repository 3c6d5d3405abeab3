\* Overlapping operations of two callers and the service, and operations one
\* after the other with the operator's among them.
SPECIFICATION Spec
CONSTANTS
  Models = {m1}
  NoModel = NoModel
  QuotaBase = 1
  QuotaMax = 2
  CloudflareMin = 1
  TransientPause = 1
  AuthPause = 2
  LongPause = 3
  Callers = {c1, c2}
  Service = Service
  Live = Live
  NoAuth = NoAuth
  Environments <- MCEnvironments
  MaxToken = 2
SYMMETRY Symmetry
INVARIANTS
  RemovedNotOffered
  VisibleWhenSettled
  GoodTokenKept
  SchedulerInSync
