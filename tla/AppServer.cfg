\* Two requests at a time of one client over two windows, three router hooks.
SPECIFICATION ServerSpec
CONSTANTS
  Clients = {alice}
  Limit = 2
  Window = 1
  MaxTime = 2
  Requests = {r1, r2}
  Removed = {powered}
  Overridden = {server}
  Added = {frame}
  p1 = p1
  p2 = p2
  p3 = p3
  Hooks = {p1, p2, p3}
  NoHook = nohook
  Priority <- MCPriority
SYMMETRY ServerSymmetry
CHECK_DEADLOCK FALSE
INVARIANTS
  ServerTypeOK
  BurstBound
  SetupDecided
  ChecksAreCounted
  HeadersReach
PROPERTIES
  ImplementsFixedWindow
