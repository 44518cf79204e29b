SPECIFICATION FairSpec
CONSTANTS
  Attempts = {a1, a2}
  Challenges = {n1, n2}
  Androids = {x1}
  NoAndroid = NoAndroid
  Keys = {k1, k2}
  NoDevice = NoDevice
INVARIANTS Inv RefusedKeepsChallenge
PROPERTIES ImplementsRegistry EnrollmentsAreAnswered OnlyRacesReuse
\* A finite number of calls is made: once they are answered the system stops.
CHECK_DEADLOCK FALSE
