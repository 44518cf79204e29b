SPECIFICATION FairSpec
CONSTANTS
  Reports = {r1, r2}
  Unknown = Unknown
  MaxChanges = 2
  MaxUpdates = 1
  MaxFaults = 0
PROPERTIES ScreenIsRetained
