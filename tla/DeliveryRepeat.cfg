SPECIFICATION Spec
CONSTANTS
  Commands = {c1}
  Refreshes = {}
  NoCommand = NoCommand
  Handlers = {h1}
  Flush = Flush
  MaxCopies = 1
  MaxFaults = 1
  BufferCap = 2
  FaultKinds <- DeviceDrop
PROPERTIES DoneIsNotRunAgain
\* A finite number of commands is created: once they are final the system stops.
CHECK_DEADLOCK FALSE
