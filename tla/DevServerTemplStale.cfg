\* Two handlers and two edits of one .templ file, no failure.
SPECIFICATION Spec
CONSTANTS
  Handlers = {h1, h2}
  Main = main
  Free = free
  GoFiles = {}
  TemplFiles = {templ}
  InertFiles = {}
  NoFile = nofile
  Requests = {}
  Pids = {p1}
  NoProcess = nopid
  Failures = {}
  MaxVersion = 2
  h1 = h1
  h2 = h2
  p1 = p1
  p2 = p2
CHECK_DEADLOCK FALSE
INVARIANTS
  TemplReloadFresh
