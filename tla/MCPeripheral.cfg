CONSTANTS
  Registers = {12, 13}
  Lanes = {1}
  Bytes = {0, 1}
  Outstanding = FALSE
  None = None
  Rounds = 1
  Overlap = FALSE
  MaxBlocks = 2
  Writes <- NewWords
  SoftwareReads = FALSE
SPECIFICATION PeripheralSpec
INVARIANT AcceptedWordsUsed
PROPERTY ImplementsCore
