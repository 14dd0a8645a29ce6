CONSTANTS
  CipherKeys <- TestKeys
  Texts <- TestTexts
  Blocks = 2
SPECIFICATION CiphersSpec
INVARIANTS
  SubstitutionsStandard
  ScalingsAreProducts
  KnownAnswers
PROPERTIES
  SoftwareIsStandard
  EcbIsStandard
  DatapathIsStandard
CHECK_DEADLOCK FALSE
