SPECIFICATION RecordsSpec
CONSTANTS
  MaxAttributes = 8
  MaxDepth = 3
  MaxEntries = 2
  MaxTotal = 5
  MaxItems = 2
  MaxBytes = 10
  BadKeys = {"token"}
  MaxAllowed = 2
  MaxSystem = 3
  MaxSpan = 14
  Policies <- MCPolicies
  Contexts <- MCContexts
  Calls <- MCCalls
  Refused <- MCRefused
  None = None
INVARIANT BodyPassesIffFits WorkIsBounded CorrelationWins NothingElseLeaves SilencedByContext
CHECK_DEADLOCK TRUE
