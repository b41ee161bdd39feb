SPECIFICATION MetaSpec
CONSTANTS
  Instances = {1, 2}
  Clusters = {1, 2}
  Nodes = {11, 12, 21}
  Raws = {1, 2}
  RawNodes <- SomeRawNodes
  Topology <- SomeTopology
  Templates <- SomeTemplates
  Queries <- SomeQueries
  FieldRequests <- SomeFieldRequests
  MaxImports = 2
  MaxSaveFaults = 1
CHECK_DEADLOCK FALSE
INVARIANTS LastAnswerStands PagesCoverSection
PROPERTY ReimportReplaces
