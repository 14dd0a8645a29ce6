CONSTANTS
  Rounds = 3
  Keys = {k1, k2}
  NoKey = NoKey
  Overlap = TRUE
  WriteWhileBusy = TRUE
  MaxBlocks = 3
SPECIFICATION Spec
INVARIANT ExactlyOnce
