CONSTANTS
  Rounds = 2
  NoKey <- ResetKey
  Keys <- RegisterKeys
  Overlap = TRUE
  WriteWhileBusy = TRUE
  MaxBlocks = 10
  Words <- TwoWords
  ZeroKey <- Zeros
  CipherKeys <- TestKeys
  Functions = {"aes_hw_encrypt", "aes_hw_encrypt_flushing_large"}
  Sizes = {0, 2, 7}
  LengthWidth = 6
  BufferDepth = 2
  MaxCalls = 3
  Test1Key <- KeyA
  FileTestKey <- KeyB
  FileSizes = {0, 17, 112}
SPECIFICATION DemonstrationSpec
INVARIANTS
  PrintsCiphertext
  SoftwareAndHardwareMatch
PROPERTY UsesTheDriverAsAsked
