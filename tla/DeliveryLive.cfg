SPECIFICATION FairSpec
CONSTANTS
  Commands = {c1}
  Refreshes = {}
  NoCommand = NoCommand
  Handlers = {h1}
  Flush = Flush
  MaxCopies = 1
  MaxFaults = 2
  BufferCap = 1
  FaultKinds <- MendedFaults
PROPERTIES CommandsAreTaken
\* A finite number of commands is created: once they are final the system stops.
CHECK_DEADLOCK FALSE
