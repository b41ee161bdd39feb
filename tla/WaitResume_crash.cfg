SPECIFICATION Spec
CONSTANTS
  free = free
  onX = onX
  approveX = approveX
  approveY = approveY
  x = x
  y = y
  Messages = {}
  Decisions = {approveX}
  Target <- Targets
  Ids = {x}
  RefusedIds = {}
  NoId = NoId
  NoKey = NoKey
  Handlers = {h1}
  Executor = Executor
  NoDoc = NoDoc
  MaxCalls = 2
  CallBound = 2
  MaxCrashes = 1
  MaxFaults = 0
SYMMETRY Symmetry
CHECK_DEADLOCK FALSE
INVARIANTS WaitingIsAnswerable
