\* Three plugin files, two further names (shared, and the empty one), one goroutine that runs hooks.
SPECIFICATION Spec
CONSTANTS
  Files = {f1, f2, f3}
  Names = {f1, f2, f3, shared}
  NoName = noname
  NoFile = nofile
  Users = {u1}
  Priority <- MCPriority
  Configs <- MCConfigs
  f1 = f1
  f2 = f2
  f3 = f3
SYMMETRY PluginSymmetry
CHECK_DEADLOCK FALSE
INVARIANTS
  TypeOK
  NothingLeaks
  HooksReachOpen
  LoadedIsRegistered
  ClosedOnce
  ServesEnabled
  LeftOpen
