CONSTANTS
  Registers = {0, 12, 15}
  Lanes = {1}
  Bytes = {0, 1}
  Outstanding = FALSE
  None = None
SPECIFICATION FairSpec
INVARIANTS
  AxiTypeOK
  HandshakesTogether
  ResponsesOwed
  ReadsOwed
  ReadsTheRegister
  WriteInv
PROPERTIES
  ImplementsKeyPort
  WritesAnswered
  ReadsAnswered
