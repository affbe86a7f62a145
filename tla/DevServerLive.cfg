\* Two handlers and a request under fairness; contents do not matter.
SPECIFICATION FairSpec
CONSTANTS
  Handlers = {h1, h2}
  Main = main
  Free = free
  GoFiles = {go}
  TemplFiles = {templ}
  InertFiles = {}
  NoFile = nofile
  Requests = {r1}
  Pids = {p1}
  NoProcess = nopid
  Failures = {"templ", "build", "start", "crash"}
  MaxVersion = 0
  h1 = h1
  h2 = h2
  p1 = p1
  p2 = p2
CHECK_DEADLOCK FALSE
PROPERTIES
  HandlerReturns
  RequestReturns
  ShutdownEnds
