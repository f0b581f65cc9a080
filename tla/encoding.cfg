SPECIFICATION BundleSpec
CONSTANTS
  Keys <- SmallKeys
  Numbers = {0, 5}
  Byte = 4
  MaxWord = 9
  Vaults = {1, 2}
  MaxEdits = 1
  Owner = "owner"
  Stranger = "stranger"
  WireLen = 2
  LongestLen = 3
  MaxAttempts = 2
INVARIANTS
  ExecutedIsSigned
  HonestIntentIsAccepted
  ValidMeansBothSigned
  HonestBundleIsValid
CHECK_DEADLOCK FALSE
