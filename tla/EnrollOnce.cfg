SPECIFICATION Spec
CONSTANTS
  Attempts = {a1, a2}
  Challenges = {n1}
  Androids = {x1}
  NoAndroid = NoAndroid
  Keys = {k1}
  NoDevice = NoDevice
INVARIANTS ChallengeIsSingleUse
\* A finite number of calls is made: once they are answered the system stops.
CHECK_DEADLOCK FALSE
