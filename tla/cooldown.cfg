\* Results, resets, config updates and watcher events; with a store persists
\* race with them, with restores and with crashes.
SPECIFICATION Spec
CONSTANTS
  m1 = m1
  m2 = m2
  Models = {m1, m2}
  NoModel = NoModel
  QuotaBase = 1
  QuotaMax = 4
  CloudflareMin = 2
  TransientPause = 1
  AuthPause = 2
  LongPause = 3
  Environments <- MCEnvironments
  MaxNow = 3
INVARIANTS
  TypeOK
  AggregateAgrees
  LadderPaced
PROPERTY
  CooldownsDurable
