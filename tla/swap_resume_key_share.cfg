SPECIFICATION Spec
CONSTANTS
  Attempts = {a1, a2}
  NoKey = NoKey
  MaxSwaps = 1
  MaxReps = 1
  RegLimit = 0
  MaxRestarts = 1
  Hasty = FALSE
  SaveFails <- NoSaveFails
SYMMETRY AttemptSymmetry
INVARIANT ReceivedCoinUsable
CHECK_DEADLOCK FALSE
