SPECIFICATION Spec
CONSTANTS
  Tasks = {t1, t2}
  Uploads = {u1}
  Slots = {s1, s2}
  Handlers = {h1, h2}
  NoTask = NoTask
  MaxCrashes = 1
  MaxFaults = 1
SYMMETRY Symmetry
CHECK_DEADLOCK FALSE
INVARIANTS SessionFollowsTask RestartShowsProgress RunsKeepTheirUploads
PROPERTY DeletionIsSafeUnlessRaced
