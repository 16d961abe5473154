SPECIFICATION Spec
CONSTANTS
  E = 3
  K = 2
  Batches <- MCBatches
  LongBatch = 1
  Types <- MCTypes
  F32 = "F32"
  NoType = "none"
  Width <- MCWidth
  MMQ <- MCMMQ
  MMVQ <- MCMMVQ
  ROCmFPX <- MCROCmFPX
  TritonMoE <- MCTritonMoE
  TritonBlockM <- MCTritonBlockM
  NativeGEMM <- MCGEMM
  NativeGEMV <- MCGEMV
  NativeBlockM = 8
  Gfx115x = TRUE
  Servable <- MCServable
  MaxReloads = 1
INVARIANTS
  TypeOK
  WidthOfType
  RoutedInStep
  GuardedLane
  OneTypeDecodes
CHECK_DEADLOCK FALSE
