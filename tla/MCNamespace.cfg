SPECIFICATION FairSpec
CONSTANTS
  Inodes = {1, 2, 3, 4}
  Root = 2
  Names = {"a", "b"}
  Paths <- MCDeepPaths
  Devices = {"device"}
  LinkMax = 4
INVARIANTS LinksMatch NamedOnce
PROPERTIES RemovalEnds
CHECK_DEADLOCK FALSE
