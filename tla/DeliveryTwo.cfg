SPECIFICATION Spec
CONSTANTS
  Commands = {c1, c2}
  Refreshes = {}
  NoCommand = NoCommand
  Handlers = {h1}
  Flush = Flush
  MaxCopies = 1
  MaxFaults = 1
  BufferCap = 1
  FaultKinds <- DeviceDrop
INVARIANTS TypeOK Inv
PROPERTIES ImplementsLifecycle OnlyErrorsForget
SYMMETRY Interchangeable
\* A finite number of commands is created: once they are final the system stops.
CHECK_DEADLOCK FALSE
