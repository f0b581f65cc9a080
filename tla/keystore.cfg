SPECIFICATION Spec
CONSTANTS
  MaxRuns = 2
  OldModes = {"0600", "0644"}
INVARIANTS
  SecretsAreShielded
  PublicKeyHasItsSecret
  CompletedRunIsWhole
CHECK_DEADLOCK FALSE
