\* Scopes of one group and unaccounted ones end while sinks are replaced,
\* barriers are observed and snapshots frozen.
SPECIFICATION Spec
CONSTANTS
  Groups = {g1}
  Unaccounted = Unaccounted
  Sinks = {s1, s2}
  NoSink = NoSink
  Drainers = {}
  Closers = {}
  MaxDispatch = 2
  MaxBarrier = 1
  MaxRevision = 1
SYMMETRY Symmetry
INVARIANTS
  TypeOK
  SequenceIsCount
  SinkLearnsLatest
  CountedResourcesClosed
  BarrierCoversDispatches
