SPECIFICATION Spec
CONSTANTS
  Launches <- MCLlamaLaunches
  MaxRows = 2
  MaxBlocks = 2
INVARIANT DecodesWellFormed
