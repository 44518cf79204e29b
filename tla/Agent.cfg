SPECIFICATION FairSpec
CONSTANTS
  Workers = {w1, w2}
  Screens = {s1}
  NoWorker = NoWorker
  MaxKeys = 3
  MaxIntents = 1
  MaxFaults = 1
INVARIANTS Inv
PROPERTIES RetriesKeepKey QrEnrolls WorkEndsArmed
\* An enrolled device, or one nobody enrolls, has nothing left to do.
CHECK_DEADLOCK FALSE
