SPECIFICATION Spec
CONSTANTS
  Attempts = {a1, a2, a3}
  NoKey = NoKey
  MaxSwaps = 2
  MaxReps = 2
  RegLimit = 0
  MaxRestarts = 1
  Hasty = FALSE
  SaveFails <- AllButCommitSaves
SYMMETRY AttemptSymmetry
INVARIANT TypeOK TransferredNotOffered CommittedKeepsData
PROPERTY KeepsPromise
CHECK_DEADLOCK FALSE
