SPECIFICATION Spec
CONSTANTS
  NoSig = NoSig
  ZeroKey <- NoKey
  Ed25519Keys <- SmallKeys
  FalconKeys <- SmallFalconKeys
  Ed25519Signers <- SomeSigners
  FalconSigners <- SomeFalconSigners
  SignedKinds = {"TransferSol", "TransferSpl", "RotateEd25519Key", "RotateFalconKey", "ChangePolicy", "RecoverAccount", "SetRecoveryConfig", "CancelSocialRecovery"}
  Amounts = {0, 1}
  Delays = {1}
  Expiries = {1}
  MaxU64 = 3
  MaxSlot = 1
  RentMin = 1
  ConfigRent = 1
  Supply = 2
  InitialTokens = 1
  KeyLen = 2
  WordLen = 2
  PreparedLen = 3
  ConfigReservedLen = 2
  ToLE <- SmallToLE
  Prepared <- SmallPrepared
  Bump = 7
  ConfigBump = 6
  AccountIndex <- SmallIndex
INVARIANT HeadersAreKept
PROPERTY ImplementsVault
CHECK_DEADLOCK FALSE
