\* A Go and a .templ file saved once each, at any time; a handler per save.
SPECIFICATION LoopSpec
CONSTANTS
  Handlers = {h1, h2}
  Main = main
  Free = free
  GoFiles = {go1}
  TemplFiles = {templ}
  InertFiles = {}
  NoFile = nofile
  Requests = {}
  Pids = {p1}
  NoProcess = nopid
  Failures = {}
  MaxVersion = 1
  EarlySaves = TRUE
CHECK_DEADLOCK FALSE
PROPERTIES
  AcceptedIsServed
