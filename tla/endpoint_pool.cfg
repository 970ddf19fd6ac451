SPECIFICATION LiveSpec
CONSTANTS
  Weightings <- MCWeightings
  Rotations <- MCRotations
  Thread = {1, 2}
  Base = 1
  MaxShift = 1
  Cap = 2
  MaxAge = 2
  MaxOutages = 2
INVARIANTS NoNeedlessFailure OrderBalanced
PROPERTY RecoveredIsUsed
