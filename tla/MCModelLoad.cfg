SPECIFICATION Spec
CONSTANTS
  Folders <- MCFolders
  Rests <- MCRests
  MaxAttempts = 2
  MaxCalls = 2
  Experts = 2
  MaxModels = 2
INVARIANTS TypeOK ReferenceKept RefusedOnlyWhenStale FirstOfItsSplit HeadIsItsOwn Whole Restored NoNeedlessRefusal
PROPERTY EventuallyServed
CHECK_DEADLOCK FALSE
