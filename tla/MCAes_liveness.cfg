CONSTANTS
  Rounds = 1
  Keys = {k1, k2}
  NoKey = NoKey
  Overlap = FALSE
  WriteWhileBusy = TRUE
  MaxBlocks = 3
SPECIFICATION FairSpec
PROPERTIES
  OfferTaken
  BlocksDelivered
  KeyTakesHold
