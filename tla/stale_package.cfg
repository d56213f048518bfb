SPECIFICATION SessionSpec
CONSTANTS
  Clients = {c1}
  MAX = 4
  Depth = 4
  Pace = 2
INVARIANT PackageHasMySettings
