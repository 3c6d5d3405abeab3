\* Out-of-order marks, lost frames and lost acknowledgements, and one Flush;
\* Home keeps answering now and then.
SPECIFICATION FairSpec
CONSTANTS
  Groups = {g1, g2}
  NoGroup = NoGroup
  FlushInterval = 1
  MaxBackoff = 3
  MaxSeq = 2
INVARIANTS
  CompletedTicketsReceived
PROPERTIES
  FlushReportsAll
  TicketsComplete
