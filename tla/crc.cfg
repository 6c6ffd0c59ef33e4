CONSTANTS
  Bytes <- BytesForTLC
  Damage <- DamageForTLC
SPECIFICATION Spec
INVARIANTS ComputesCrc32 OnlyIntactAccepted
CHECK_DEADLOCK FALSE
