SPECIFICATION Spec
CONSTANTS
  NoSig = NoSig
  ZeroKey = ZeroKey
  Ed25519Keys = {ZeroKey, e1, e2}
  FalconKeys = {f1}
  Ed25519Signers = {e1, e2}
  FalconSigners = {f1}
  SignedKinds = {"RotateEd25519Key", "RecoverAccount", "SetRecoveryConfig", "CancelSocialRecovery"}
  Amounts = {}
  Delays = {1}
  Expiries = {3}
  MaxU64 = 4
  MaxSlot = 3
  RentMin = 0
  ConfigRent = 0
  Supply = 0
  InitialTokens = 0
INVARIANT PendingIsCancellable
CHECK_DEADLOCK FALSE
