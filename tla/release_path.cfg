\* A whole subscriber lifetime: dispatches, drain, flush, and a shutdown.
SPECIFICATION PathSpec
CONSTANTS
  Groups = {g1}
  Unaccounted = Unaccounted
  Sinks = {Flusher}
  NoSink = NoSink
  Drainers = {Subscriber}
  Closers = {Shutdown}
  Subscriber = Subscriber
  Flusher = Flusher
  MaxDispatch = 2
  MaxBarrier = 0
  MaxRevision = 0
  FlushInterval = 1
  MaxBackoff = 1
CHECK_DEADLOCK FALSE
INVARIANTS
  SettledMeansReported
PROPERTIES
  LedgerSpec
