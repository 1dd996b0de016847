CONSTANTS
  Self = Self
  Other = Other
  InfoNS = InfoNS
  RootsNS = RootsNS
  ForeignNS = ForeignNS
  TreeKey = TreeKey
  RootKey = RootKey
  Coins = {c1, c2}
  MaxLeaves = 3
  MaxCoins = 2
  GasLimit = 14
  InsertMayFail = FALSE
SPECIFICATION Spec
INVARIANT TypeOK
INVARIANT RootsComplete
INVARIANT LatestRootIsTip
PROPERTY WritesAuthorized
CHECK_DEADLOCK FALSE
