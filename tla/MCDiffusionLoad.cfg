SPECIFICATION Spec
CONSTANTS
  Plains <- MCPlains
  Ranks = {2, 3, 4}
INVARIANTS TypeOK AsTrained OwnSource FeaturesLast
PROPERTY Served
CHECK_DEADLOCK FALSE
