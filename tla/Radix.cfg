SPECIFICATION Spec
CONSTANTS
  Files <- MCFiles
  Characters <- MCCharacters
  Braced <- MCBraced
  Param <- MCParam
  CatchAlls = {"{...r}"}
  Words <- MCWords
  MaxDepth = 3
  MaxFiles = 5
INVARIANTS
  LookupSound
  LookupComplete
  StaticFirst
  LastFileAnswers
  TreeSound
CHECK_DEADLOCK FALSE
