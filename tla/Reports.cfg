SPECIFICATION MCSpec
CONSTANTS
  Devices = {d1, d2}
  Talking = {d1}
  NoDevice = NoDevice
  Reports = {r1, r2}
  Groups = {g1, g2}
  Fields = {f1, f2}
  Default = Default
  NoRow = NoRow
  Removals = {a1}
INVARIANTS Inv PatchIsKept RemovalIsComplete
PROPERTY OnlyRacesOutdate
SYMMETRY Interchangeable
