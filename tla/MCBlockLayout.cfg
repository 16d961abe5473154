SPECIFICATION Spec
CONSTANTS
  Launches <- MCLaunches
  MaxRows = 2
  MaxBlocks = 2
INVARIANT SameWeights
INVARIANT WholeBlock
INVARIANT OwnCode
INVARIANT DecodesWellFormed
PROPERTY EachOnce
