SPECIFICATION SessionSpec
CONSTANTS
  Clients = {c1, c2}
  MAX = 3
  Depth = 3
  Pace = 2
INVARIANT SessionTypeOK PackageContiguous SecondPackageIsFresh
PROPERTY EveryoneGetsAnAnswer
