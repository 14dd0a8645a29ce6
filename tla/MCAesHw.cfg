CONSTANTS
  Rounds = 1
  NoKey <- ResetKey
  Keys <- RegisterKeys
  Overlap = TRUE
  WriteWhileBusy = TRUE
  MaxBlocks = 17
  Words <- TwoWords
  ZeroKey <- Zeros
  CipherKeys <- SoftwareKeys
  Functions = {"aes_hw_encrypt_flushing", "aes_hw_encrypt_large"}
  Sizes = {0, 5, 8}
  LengthWidth = 7
  BufferDepth = 1
  MaxCalls = 3
SPECIFICATION HwFairSpec
INVARIANTS
  HwTypeOK
  EncryptedInPlace
PROPERTIES
  UsesTheCoreSafely
  CallsReturn
