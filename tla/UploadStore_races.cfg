SPECIFICATION Spec
CONSTANTS
  Sizes = {0, 2, 3}
  MaxUpload = 3
  MaxChunk = 2
  Handlers = {h1, h2, h3}
  NoHandler = NoHandler
  MaxCrashes = 2
  MaxFaults = 2
SYMMETRY Symmetry
CHECK_DEADLOCK FALSE
INVARIANTS PayloadIsPrefix AckedBytesKept CompletedIsWhole StartupNeverRefused
