SPECIFICATION SettingSpec
CONSTANTS
  Clients = {c1, c2}
  FieldBytes = 2
  ByteMod = 2
  Intgs = {0, 2, 3}
  Tris = {1}
  Sims = {2}
  DefaultIntg = 1
  DefaultTri = 3
  DefaultSim = 3
  Backlog = 1
INVARIANT SettingTypeOK NeverZero
PROPERTY DoneMeansApplied EveryoneIsServed
