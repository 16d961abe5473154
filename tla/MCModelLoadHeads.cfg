SPECIFICATION Spec
CONSTANTS
  Folders <- MCFolders
  Rests <- MCRests
  MaxAttempts = 1
  MaxCalls = 1
  Experts = 1
  MaxModels = 1
INVARIANT SplitHeadIsLoaded
CHECK_DEADLOCK FALSE
