CONSTANTS
  Rounds = 2
  Keys = {k1, k2}
  NoKey = NoKey
  Overlap = FALSE
  WriteWhileBusy = TRUE
  MaxBlocks = 4
SYMMETRY KeySymmetry
SPECIFICATION Spec
INVARIANTS
  TypeOK
  ReadyInTime
  KeyExpansionAhead
  LocalKeysCurrent
  KeyCommitted
  TransactionCovers
  ExactlyOnce
  KeyInv
  PacketInv
PROPERTY EncryptsTheStream
