SPECIFICATION PartsSpec
CONSTANTS
  MaxInputChars = 1024
  Providers = {"stub", "openai_compatible", "binary"}
  Tasks <- SomeTasks
  Sources = {40, 1024}
  MessageLengths = {1, 700}
  Replies <- SomeReplies
  MaxMessages = 2
  Dirs = {"sd1", "sd2", "sd3"}
  SkillTasks = {t1}
  Manifests <- SomeManifests
  StartDisk <- SomeDisk
  MaxEdits = 2
  MaxFaults = 2
  Contexts = {c1}
  Scopes = {"global", "case_import"}
  AutoKinds <- SomeKinds
  MaxVersions = 3
  MaxChanges = 5
  MaxCtxFaults = 2
  InputSets <- SomeInputs
  MaxMatches = 3
  MaxCrashes = 2
INVARIANTS
  RetriesCorrect
  ReplyIsTheOneObject
  EvidenceAccountedUnlessFull
  StartupUnlessKilled
  RefusedOnlyAfterEdits
  ActiveVersionIsNamed
  ManifestIsTrue
  SearchReadsBack
CHECK_DEADLOCK FALSE
