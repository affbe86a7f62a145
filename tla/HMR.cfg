\* A page that connects twice, two broadcasts at once, under fairness.
SPECIFICATION FairSpec
CONSTANTS
  Pages = {page1}
  Broadcasters = {b1, b2}
  MaxConnects = 2
  MaxVersion = 3
CHECK_DEADLOCK FALSE
INVARIANTS
  ClientsMatch
PROPERTIES
  RegisteredIsReloaded
