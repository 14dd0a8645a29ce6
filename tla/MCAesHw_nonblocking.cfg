CONSTANTS
  Rounds = 1
  NoKey <- ResetKey
  Keys <- RegisterKeys
  Overlap = TRUE
  WriteWhileBusy = TRUE
  MaxBlocks = 4
  Words <- TwoWords
  ZeroKey <- Zeros
  CipherKeys <- SoftwareKeys
  Functions = {"aes_hw_encrypt", "aes_hw_encrypt_nonblocking"}
  Sizes = {1}
  LengthWidth = 6
  BufferDepth = 1
  MaxCalls = 3
SPECIFICATION HwSpec
INVARIANT EncryptedInPlace
