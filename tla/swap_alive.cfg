SPECIFICATION FairSpec
CONSTANTS
  Attempts = {a1, a2}
  NoKey = NoKey
  MaxSwaps = 2
  MaxReps = 2
  RegLimit = 1
  MaxRestarts = 0
  Hasty = FALSE
  SaveFails <- AllButCommitSaves
INVARIANT ReceivedCoinUsable
PROPERTY SwapSettles
CHECK_DEADLOCK FALSE
