SPECIFICATION Spec
CONSTANTS
  Commands = {c1, c2}
  NoNonce = NoNonce
  Somebody = Somebody
  GivenNonces = {0}
  MaxPolls = 1
  MaxNonce = 2
  MaxTip = 2
SYMMETRY CommandSymmetry
INVARIANTS
  SuccessIsFinal
  OneSuccessPerNonce
  PinnedRetriesPayOnce
PROPERTY DeadOncePassed
CHECK_DEADLOCK FALSE
