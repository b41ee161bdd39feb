SPECIFICATION Spec
CONSTANTS
  Attempts = {1, 2, 3}
  MaxCalls = 1
  MaxCrashes = 1
  MaxRounds = 2
  MaxLlmCalls = 2
  Matches <- OneMatch
  CaseIds <- OneCase
  SearchIds <- TwoSearches
  Refs <- SomeRefs
CHECK_DEADLOCK FALSE
INVARIANTS CitedEvidenceExists CallsLeaveEvidence WaitIsAsked AgentSeesAnswers
