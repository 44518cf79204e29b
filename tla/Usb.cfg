SPECIFICATION FairSpec
CONSTANTS
  Devices = {d1, d2}
  NoDevice = NoDevice
  Sessions = {s1, s2}
  NoSession = NoSession
  Closes = {c1, c2}
  NoClose = NoClose
  Runs = {r1, r2}
  NoRun = NoRun
INVARIANTS Inv
PROPERTIES LiveSessionIsKept DeadSessionsGo StepsResume
