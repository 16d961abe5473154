SPECIFICATION Spec
CONSTANTS
  Launches <- MCNativeLaunches
  MaxRows = 2
  MaxBlocks = 2
INVARIANT SameWeights
