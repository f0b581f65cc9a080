SPECIFICATION ListSpec
CONSTANTS
  Ed25519Keys = {e1, e2}
  owner = e1
  Digests = {d1, d2}
  digest = d1
  MaxMade = 2
  MaxListEdits = 2
INVARIANTS
  AcceptedMeansOwnerSigned
  ClientIsAccepted
  OnlyTheNamedVault
  ClientListIsAccepted
CHECK_DEADLOCK FALSE
