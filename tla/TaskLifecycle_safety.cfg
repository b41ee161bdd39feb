SPECIFICATION Spec
CONSTANTS
  LogTasks = {l1}
  ToolTasks = {u1}
  RemoteTasks = {r1}
  Slots = {s1, s2}
  Handlers = {h1, h2}
  NoTask = NoTask
  MaxRounds = 2
  MaxLlmCalls = 2
  MaxCrashes = 1
  MaxFaults = 1
SYMMETRY Symmetry
CHECK_DEADLOCK FALSE
INVARIANTS SingleDispatcher NoLostTask DurableBoundary
PROPERTY ImplementsClaims
