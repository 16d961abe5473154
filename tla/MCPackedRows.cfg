SPECIFICATION Spec
CONSTANTS
  Heads <- MCHeads
  Formats <- MCFormats
  Sizes = {1, 2, 3, 4}
  VocabSizes = {5, 8, 9}
  PadTo = 4
INVARIANTS TypeOK RanksJoinToHF QueryMeetsItsKey OwnColumns TokenAtItsRow
CHECK_DEADLOCK FALSE
