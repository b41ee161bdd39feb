SPECIFICATION LogSpec
CONSTANTS
  InputSets <- SomeInputs
  MaxMatches = 3
  MaxCrashes = 2
INVARIANT BrokenLogIsSkipped
CHECK_DEADLOCK FALSE
