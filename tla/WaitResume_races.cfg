SPECIFICATION Spec
CONSTANTS
  free = free
  onX = onX
  approveX = approveX
  approveY = approveY
  x = x
  y = y
  Messages = {free, onX}
  Decisions = {approveX, approveY}
  Target <- Targets
  Ids = {x, y}
  RefusedIds = {y}
  NoId = NoId
  NoKey = NoKey
  Handlers = {h1, h2}
  Executor = Executor
  NoDoc = NoDoc
  MaxCalls = 2
  CallBound = 3
  MaxCrashes = 1
  MaxFaults = 1
SYMMETRY Symmetry
CHECK_DEADLOCK FALSE
INVARIANTS OneResumePerWait ResumesAreLogged AnswersReachTheAgent DuplicatesAreHarmless AnswerableUnlessDisturbed
