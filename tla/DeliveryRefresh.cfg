SPECIFICATION Spec
CONSTANTS
  Commands = {r1}
  Refreshes = {r1}
  NoCommand = NoCommand
  Handlers = {h1}
  Flush = Flush
  MaxCopies = 1
  MaxFaults = 2
  BufferCap = 2
  FaultKinds <- EveryFault
INVARIANTS Inv RefreshAnswerIsFresh AnsweredRefreshIsClosed
PROPERTIES ImplementsLifecycle OnlyErrorsForget
\* A finite number of commands is created: once they are final the system stops.
CHECK_DEADLOCK FALSE
