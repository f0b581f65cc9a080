SPECIFICATION Spec
CONSTANTS
  NoSig = NoSig
  ZeroKey = ZeroKey
  Ed25519Keys = {ZeroKey, e1, e2}
  FalconKeys = {f1, f2, unsignable}
  Ed25519Signers = {e1}
  FalconSigners = {f1, f2}
  SignedKinds = {"TransferSol", "TransferSpl", "RotateEd25519Key", "RotateFalconKey", "ChangePolicy", "RecoverAccount", "SetRecoveryConfig", "CancelSocialRecovery"}
  Amounts = {1, 2}
  Delays = {1}
  Expiries = {1}
  MaxU64 = 3
  MaxSlot = 2
  RentMin = 0
  ConfigRent = 0
  Supply = 2
  InitialTokens = 2
INVARIANTS
  ThresholdMatchesPolicy
  FalconKeyMatchesHash
PROPERTIES
  FalconKeyStaysUsable
  OneKeyIsNotEnough
CHECK_DEADLOCK FALSE
