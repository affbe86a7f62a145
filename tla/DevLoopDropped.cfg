\* Two Go files saved once each, while the watcher runs.
SPECIFICATION LoopSpec
CONSTANTS
  Handlers = {h1, h2}
  Main = main
  Free = free
  GoFiles = {go1, go2}
  TemplFiles = {}
  InertFiles = {}
  NoFile = nofile
  Requests = {}
  Pids = {p1}
  NoProcess = nopid
  Failures = {}
  MaxVersion = 1
  EarlySaves = FALSE
CHECK_DEADLOCK FALSE
PROPERTIES
  AutoReload
