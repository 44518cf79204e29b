SPECIFICATION Spec
CONSTANTS
  Issues = {i1, i2, i3}
  Verifiers = {v1, v2, v3}
  Codes = {c1, c2}
  NoCode = NoCode
  NoIssue = NoIssue
  MaxDraws = 2
INVARIANTS Inv CodeWorksOnce CodeStaysGood
PROPERTIES ImplementsOneTimeCodes
SYMMETRY Interchangeable
\* A finite number of calls is made: once they are answered the system stops.
CHECK_DEADLOCK FALSE
