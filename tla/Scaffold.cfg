\* Two processes create the same project, one without `templ generate'.
SPECIFICATION Spec
CONSTANTS
  c1 = c1
  c2 = c2
  Creators = {c1, c2}
  page = page
  config = config
  Template <- MCTemplate
  Skips <- MCSkips
  GoMod = gomod
  Generated = generated
  Git = git
  Notes = notes
  User = user
  Nobody = nobody
CHECK_DEADLOCK FALSE
INVARIANTS
  TypeOK
  SuccessComplete
  AloneIsExact
  GuestsOnlyLose
  FailureCanRetry
