SPECIFICATION FairSpec
CONSTANTS
  LogTasks = {l1, l2}
  ToolTasks = {}
  RemoteTasks = {}
  Slots = {s1}
  Handlers = {h1}
  NoTask = NoTask
  MaxRounds = 2
  MaxLlmCalls = 2
  MaxCrashes = 1
  MaxFaults = 1
CHECK_DEADLOCK FALSE
PROPERTY EveryTaskSettles
