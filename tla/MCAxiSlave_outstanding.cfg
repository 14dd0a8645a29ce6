CONSTANTS
  Registers = {0, 12}
  Lanes = {1}
  Bytes = {0, 1}
  Outstanding = TRUE
  None = None
SPECIFICATION Spec
INVARIANT ReadsOwed
