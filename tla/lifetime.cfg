\* Two lifetimes, a configuration update, two dispatches, and a shutdown.
SPECIFICATION FairSpec
CONSTANTS
  r1 = r1
  r2 = r2
  Requests <- TwoRequests
  MaxLifetimes = 2
  MaxConfigs = 2
CHECK_DEADLOCK FALSE
INVARIANTS
  SlotsAccounted
  DetachedFromUse
PROPERTIES
  CommitsInOrder
  LifetimesEnd
