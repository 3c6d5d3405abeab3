\* Two clients with up to two copies of one model, two providers, one list.
SPECIFICATION RegistrySpec
CONSTANTS
  Clients = {c1, c2}
  Models = {m1}
  Providers = {p1, p2}
  NoProvider = NoProvider
  Infos = {i1, i2}
  NoInfo = NoInfo
  Handlers = {h1}
  Callers = {g1}
  Readers = {r1}
  Window = 2
  MaxCopies = 2
  MaxClock = 3
SYMMETRY Symmetry
CHECK_DEADLOCK FALSE
INVARIANTS
  CountsAgree
  CacheFresh
