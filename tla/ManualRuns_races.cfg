SPECIFICATION Spec
CONSTANTS
  EnabledTools = {"pprof", "configured", "fetch", "huawei"}
  MaxInputFiles = 2
  Runs = {r1, r2}
  Requests = {q1, q2}
  e1 = e1
  none = none
  Endpoints = {e1}
  Executors = {x1}
  Keys = {k1}
  NoKey = NoKey
  Nothing = none
  ToolRequests <- SomeToolRequests
  Workspaces <- SomeWorkspaces
  MaxRedirects = 1
  Permits = 2
  Alone = {"pprof", "configured", "huawei", "fetch", "tag_fields"}
  MaxEdits = 1
  MaxCrashes = 1
  MaxFaults = 1
SYMMETRY Symmetry
CHECK_DEADLOCK FALSE
INVARIANTS ResultTellsTheTruth RepeatsNeedARestart KeysHonouredUnlessRaced
PROPERTY PackageBeforeUpdate
