\* Two handlers of Go, .templ and ignored files saved once each, every failure.
SPECIFICATION Spec
CONSTANTS
  Handlers = {h1, h2}
  Main = main
  Free = free
  GoFiles = {go}
  TemplFiles = {templ}
  InertFiles = {yaml}
  NoFile = nofile
  Requests = {}
  Pids = {p1, p2}
  NoProcess = nopid
  Failures = {"templ", "build", "start", "crash"}
  MaxVersion = 1
  h1 = h1
  h2 = h2
  p1 = p1
  p2 = p2
SYMMETRY ChildSymmetry
CHECK_DEADLOCK FALSE
INVARIANTS
  TypeOK
  LockInv
  FlagHeld
  SingleChild
  ChildRunsBinary
  NoOrphanUnlessLate
  GoReloadFresh
PROPERTIES
  ImplementsPreview
