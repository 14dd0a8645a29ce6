CONSTANTS
  Rounds = 2
  Keys <- TwoKeys
  NoKey = NoKey
  Overlap = TRUE
  WriteWhileBusy = FALSE
  MaxBlocks = 3
  Texts <- TwoTexts
  PowerUp <- Blank
  BehindTable = 0
SPECIFICATION BytesSpec
INVARIANTS
  ExactlyOnce
  DeliversCiphertexts
PROPERTY EncryptsTheStream
