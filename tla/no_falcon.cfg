SPECIFICATION Spec
CONSTANTS
  NoSig = NoSig
  ZeroKey = ZeroKey
  Ed25519Keys = {ZeroKey, e1, e2}
  FalconKeys = {f1, f2}
  Ed25519Signers = {e1, e2}
  FalconSigners = {}
  SignedKinds = {"TransferSol", "TransferSpl", "RotateEd25519Key", "RotateFalconKey", "ChangePolicy", "RecoverAccount", "SetRecoveryConfig", "CancelSocialRecovery"}
  Amounts = {1, 2}
  Delays = {1}
  Expiries = {1}
  MaxU64 = 4
  MaxSlot = 2
  RentMin = 1
  ConfigRent = 1
  Supply = 3
  InitialTokens = 2
SYMMETRY SignerSymmetry
INVARIANTS
  LamportsConserved
  RentFloor
PROPERTIES
  SingleSchemeFreezesHybridAnd
  NoFalconNoAdministration
  NoFalconSpendingBounded
CHECK_DEADLOCK FALSE
