\* One session and one request, either kind, against every end of the session.
SPECIFICATION FairSpec
CONSTANTS
  Requests = {r1}
  NoRequest = NoRequest
  Kinds = {"nonstream", "stream"}
  Cap = 2
  MaxChunks = 2
CHECK_DEADLOCK FALSE
INVARIANT NoOrphan
PROPERTY CallersReturn
