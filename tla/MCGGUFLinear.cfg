SPECIFICATION Spec
CONSTANTS
  N = 3
  F32 = "F32"
  NoType = NoType
  Types <- MCTypes
  Loadable <- MCLoadable
  Servable <- MCServable
  Width <- MCWidth
  Rows <- MCRows
  MaxReloads = 1
INVARIANTS
  TypeOK
  OwnPlace
  OwnType
  CanonicalLayout
  NeverWrong
PROPERTY Implements
CHECK_DEADLOCK FALSE
