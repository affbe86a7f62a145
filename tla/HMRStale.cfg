\* One page, one rebuild.
SPECIFICATION FairSpec
CONSTANTS
  Pages = {page1}
  Broadcasters = {b1}
  MaxConnects = 2
  MaxVersion = 2
CHECK_DEADLOCK FALSE
PROPERTIES
  PagesFresh
