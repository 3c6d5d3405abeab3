\* Owners race a Drain call and two Close calls; everybody gets on.
SPECIFICATION FairSpec
CONSTANTS
  Groups = {}
  Unaccounted = Unaccounted
  Sinks = {}
  NoSink = NoSink
  Drainers = {d1}
  Closers = {c1, c2}
  MaxDispatch = 2
  MaxBarrier = 0
  MaxRevision = 0
INVARIANTS
  DrainedIsEmpty
  CloseClosesResources
PROPERTIES
  DrainTerminates
  CloseTerminates
