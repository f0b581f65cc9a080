---------------------------- MODULE StoredVault ----------------------------
(***************************************************************************)
(* The vault as it is stored: the two accounts are byte strings without a  *)
(* schema, read and written at hand-kept offsets (core/src/state.rs,       *)
(* core/src/recovery.rs), and two settings share the bits of one byte.     *)
(*                                                                         *)
(* Each instruction is here the setters its handler calls, in the order in *)
(* which it calls them.  What the handler decides it decides by reading    *)
(* these bytes: its conditions are HybridVault's, on the fields that the   *)
(* accessors return.  The bytes are shown to implement HybridVault.        *)
(*                                                                         *)
(* The code has KeyLen = 32, WordLen = 8, PreparedLen = 1024 and           *)
(* ConfigReservedLen = 44.                                                 *)
(***************************************************************************)
EXTENDS DualKeyPolicy, Sequences

CONSTANTS
  \* those of HybridVault; a key is here the KeyLen bytes that it consists of
  Ed25519Keys, ZeroKey, FalconKeys, Ed25519Signers, FalconSigners, NoSig,
  SignedKinds, Amounts, Delays, Expiries, MaxU64, MaxSlot, RentMin, ConfigRent,
  Supply, InitialTokens,
  KeyLen,             \* bytes of a key or hash
  WordLen,            \* bytes of a u64
  PreparedLen,        \* bytes of a prepared Falcon key
  ConfigReservedLen,  \* reserved bytes at the end of the config
  ToLE(_),            \* u64::to_le_bytes
  Prepared(_),        \* the prepared form of the Falcon key with this hash
  Bump,               \* the canonical bumps and the index of this vault: its
  ConfigBump,         \* addresses depend on nothing else, so one choice will do
  AccountIndex

Bytes == 0..255
Array(n) == [1..n -> Bytes]
Zeros(n) == [i \in 1..n |-> 0]
U64 == 0..MaxU64

ASSUME SizesAssumption ==
  /\ KeyLen \in Nat /\ WordLen \in Nat /\ PreparedLen \in Nat
  /\ ConfigReservedLen \in Nat
  /\ MaxU64 \in Nat /\ Amounts \subseteq U64 /\ Delays \subseteq U64

ASSUME KeyBytesAssumption ==
  /\ Ed25519Keys \cup FalconKeys \subseteq Array(KeyLen)
  /\ ZeroKey = Zeros(KeyLen) /\ ZeroKey \in Ed25519Keys
  /\ FalconKeys # {}
  /\ \A f \in FalconKeys : Prepared(f) \in Array(PreparedLen)
  /\ \A f, g \in FalconKeys : Prepared(f) = Prepared(g) => f = g

\* Little-endian bytes name their number, and zero is all zeros.
ASSUME WordAssumption ==
  /\ \A n \in U64 : ToLE(n) \in Array(WordLen)
  /\ \A m, n \in U64 : ToLE(m) = ToLE(n) => m = n
  /\ ToLE(0) = Zeros(WordLen)

ASSUME HeaderAssumption ==
  Bump \in Bytes /\ ConfigBump \in Bytes /\ AccountIndex \in Array(4)

VARIABLES
  account,   \* data of the HybridAccount, empty before it is allocated
  config,    \* data of the RecoveryConfig
  balance,   \* the next three as in HybridVault
  tokens,
  slot

svars == <<account, config, balance, tokens, slot>>
-----------------------------------------------------------------------------
(* Bytes.                                                                  *)

Get(data, at, len) == [i \in 1..len |-> data[at + i]]
Put(data, at, bytes) ==
  [i \in DOMAIN data |-> IF i - at \in DOMAIN bytes THEN bytes[i - at] ELSE data[i]]

\* u64::from_le_bytes.
FromLE(bytes) == CHOOSE n \in U64 : ToLE(n) = bytes

offsets ==
  [VERSION |-> 0, BUMP |-> 1, POLICY |-> 2, FLAGS |-> 3, ACCOUNT_INDEX |-> 4,
   OWNER_ED25519 |-> 8,
   FALCON_PUBLIC_KEY_HASH |-> 8 + KeyLen,
   NONCE |-> 8 + 2 * KeyLen,
   FALCON_REQUIRED_ABOVE |-> 8 + 2 * KeyLen + WordLen,
   RESERVED1 |-> 8 + 2 * KeyLen + 2 * WordLen,
   PREPARED_FALCON_PUBLIC_KEY |-> 8 + 2 * KeyLen + 3 * WordLen]

sizes ==
  [VERSION |-> 1, BUMP |-> 1, POLICY |-> 1, FLAGS |-> 1, ACCOUNT_INDEX |-> 4,
   OWNER_ED25519 |-> KeyLen, FALCON_PUBLIC_KEY_HASH |-> KeyLen,
   NONCE |-> WordLen, FALCON_REQUIRED_ABOVE |-> WordLen, RESERVED1 |-> WordLen,
   PREPARED_FALCON_PUBLIC_KEY |-> PreparedLen]

ACCOUNT_DATA_LEN == offsets.PREPARED_FALCON_PUBLIC_KEY + PreparedLen

recovery_offsets ==
  [VERSION |-> 0, BUMP |-> 1, FLAGS |-> 2, RESERVED0 |-> 3,
   GUARDIAN_ED25519 |-> 4,
   DELAY_SLOTS |-> 4 + KeyLen,
   PENDING_NEW_ED25519 |-> 4 + KeyLen + WordLen,
   PENDING_READY_SLOT |-> 4 + 2 * KeyLen + WordLen,
   RESERVED1 |-> 4 + 2 * KeyLen + 2 * WordLen]

recovery_sizes ==
  [VERSION |-> 1, BUMP |-> 1, FLAGS |-> 1, RESERVED0 |-> 1,
   GUARDIAN_ED25519 |-> KeyLen, DELAY_SLOTS |-> WordLen,
   PENDING_NEW_ED25519 |-> KeyLen, PENDING_READY_SLOT |-> WordLen,
   RESERVED1 |-> ConfigReservedLen]

RECOVERY_CONFIG_LEN == recovery_offsets.RESERVED1 + ConfigReservedLen

Version == 1
FLAG_RECOVERY_ENABLED == 1
FLAG_FALCON_THRESHOLD_SET == 2

HasFlag(flags, bit) == (flags \div bit) % 2 = 1
BugWithFlag(flags, bit, on) == IF on THEN bit ELSE 0
WithFlag(flags, bit, on) ==
  IF HasFlag(flags, bit) = on THEN flags ELSE IF on THEN flags + bit ELSE flags - bit

as_u8 == [p \in Policies |->
  CASE p = "Ed25519Only" -> 0 [] p = "FalconOnly" -> 1
    [] p = "HybridAnd" -> 2 [] p = "HybridOr" -> 3
    [] p = "FalconForPrivileged" -> 4 [] p = "FalconAboveThreshold" -> 5]
-----------------------------------------------------------------------------
(* HybridAccount and RecoveryConfig: accessors on the account data.        *)

field(data, f) == Get(data, offsets[f], sizes[f])
set_field(data, f, bytes) == Put(data, offsets[f], bytes)

flags(data) == field(data, "FLAGS")[1]
recovery_enabled(data) == HasFlag(flags(data), FLAG_RECOVERY_ENABLED)
falcon_required_above(data) ==
  IF HasFlag(flags(data), FLAG_FALCON_THRESHOLD_SET)
  THEN SomeThreshold(FromLE(field(data, "FALCON_REQUIRED_ABOVE")))
  ELSE NoThreshold
policy_of(data) == CHOOSE p \in Policies : as_u8[p] = field(data, "POLICY")[1]
nonce_of(data) == FromLE(field(data, "NONCE"))
owner_ed25519(data) == field(data, "OWNER_ED25519")
falcon_public_key_hash(data) == field(data, "FALCON_PUBLIC_KEY_HASH")
\* The Falcon key of which the account holds the prepared form.
prepared_key(data) ==
  CHOOSE f \in FalconKeys : Prepared(f) = field(data, "PREPARED_FALCON_PUBLIC_KEY")

set_policy(data, p) == set_field(data, "POLICY", <<as_u8[p]>>)
set_owner_ed25519(data, k) == set_field(data, "OWNER_ED25519", k)
set_falcon_public_key_hash(data, f) == set_field(data, "FALCON_PUBLIC_KEY_HASH", f)
set_prepared(data, f) == set_field(data, "PREPARED_FALCON_PUBLIC_KEY", Prepared(f))
set_nonce(data, n) == set_field(data, "NONCE", ToLE(n))

set_flag(data, bit, on) == set_field(data, "FLAGS", <<WithFlag(flags(data), bit, on)>>)
set_recovery_enabled(data, on) == set_flag(data, FLAG_RECOVERY_ENABLED, on)

BugSetFalconRequiredAbove(data, t) ==
  set_flag(set_field(data, "RESERVED1", ToLE(t.value)),
           FLAG_FALCON_THRESHOLD_SET, t.set)
\* Clearing the threshold also fills its field with zeros.
set_falcon_required_above(data, t) ==
  set_flag(set_field(data, "FALCON_REQUIRED_ABOVE", ToLE(t.value)),
           FLAG_FALCON_THRESHOLD_SET, t.set)

config_field(data, f) == Get(data, recovery_offsets[f], recovery_sizes[f])
set_config_field(data, f, bytes) == Put(data, recovery_offsets[f], bytes)

guardian_ed25519(data) == config_field(data, "GUARDIAN_ED25519")
delay_slots(data) == FromLE(config_field(data, "DELAY_SLOTS"))
pending_new_ed25519(data) == config_field(data, "PENDING_NEW_ED25519")
pending_ready_slot(data) == FromLE(config_field(data, "PENDING_READY_SLOT"))

set_guardian_ed25519(data, k) == set_config_field(data, "GUARDIAN_ED25519", k)
set_delay_slots(data, n) == set_config_field(data, "DELAY_SLOTS", ToLE(n))
set_pending(data, k, ready) ==
  set_config_field(set_config_field(data, "PENDING_NEW_ED25519", k),
                   "PENDING_READY_SLOT", ToLE(ready))
clear_pending(data) == set_pending(data, ZeroKey, 0)

account_header ==
  set_field(set_field(set_field(Zeros(ACCOUNT_DATA_LEN), "VERSION", <<Version>>),
                      "BUMP", <<Bump>>),
            "ACCOUNT_INDEX", AccountIndex)
initialize_without_falcon_key(k, f, p) ==
  set_nonce(set_falcon_public_key_hash(
    set_owner_ed25519(set_policy(account_header, p), k), f), 0)

config_header ==
  set_config_field(set_config_field(Zeros(RECOVERY_CONFIG_LEN), "VERSION", <<Version>>),
                   "BUMP", <<ConfigBump>>)
initialize_config(k, delay) ==
  set_delay_slots(set_guardian_ed25519(config_header, k), delay)
-----------------------------------------------------------------------------
(* HybridVault's variables, read from the data.  What an account holds     *)
(* that does not exist is never read, so any value will do.                *)

Created(data) == data # <<>>
Policy(data) == IF data = <<>> THEN "Ed25519Only" ELSE policy_of(data)
Threshold(data) == IF data = <<>> THEN NoThreshold ELSE falcon_required_above(data)
RecoveryEnabled(data) == data # <<>> /\ recovery_enabled(data)
Owner(data) == IF data = <<>> THEN ZeroKey ELSE owner_ed25519(data)
FalconKeyHash(data) ==
  IF data = <<>> THEN CHOOSE f \in FalconKeys : TRUE ELSE falcon_public_key_hash(data)
PreparedKey(data) ==
  IF data = <<>> THEN CHOOSE f \in FalconKeys : TRUE ELSE prepared_key(data)
Nonce(data) == IF data = <<>> THEN 0 ELSE nonce_of(data)

Guardian(data) == IF data = <<>> THEN ZeroKey ELSE guardian_ed25519(data)
DelaySlots(data) == IF data = <<>> THEN 0 ELSE delay_slots(data)
PendingNew(data) == IF data = <<>> THEN ZeroKey ELSE pending_new_ed25519(data)
PendingReadySlot(data) == IF data = <<>> THEN 0 ELSE pending_ready_slot(data)

HV == INSTANCE HybridVault WITH
  created <- Created(account), policy <- Policy(account),
  threshold <- Threshold(account), recoveryEnabled <- RecoveryEnabled(account),
  owner <- Owner(account), falconKeyHash <- FalconKeyHash(account),
  preparedKey <- PreparedKey(account), nonce <- Nonce(account),
  configCreated <- Created(config), guardian <- Guardian(config),
  delaySlots <- DelaySlots(config), pendingNew <- PendingNew(config),
  pendingReadySlot <- PendingReadySlot(config)
-----------------------------------------------------------------------------
(* Instructions.                                                           *)

Init ==
  /\ account = <<>> /\ config = <<>>
  /\ balance = [a \in HV!Accounts |-> IF a = "Wallet" THEN Supply ELSE 0]
  /\ tokens = InitialTokens /\ slot = 0

Initialize(newOwner, newFalcon, newPolicy) ==
  LET shortfall == IF balance["Vault"] < RentMin THEN RentMin - balance["Vault"] ELSE 0
  IN  /\ account = <<>>
      /\ shortfall <= balance["Wallet"]
      /\ balance' = [balance EXCEPT !["Vault"] = @ + shortfall,
                                    !["Wallet"] = @ - shortfall]
      /\ account' = set_prepared(
                      initialize_without_falcon_key(newOwner, newFalcon, newPolicy),
                      newFalcon)
      /\ UNCHANGED <<config, tokens, slot>>

\* No digest is rebuilt for an account that says another version than 1.
Authorized(intent, sigs, kind) ==
  /\ intent.action.kind = kind
  /\ HV!Authorize(intent, sigs)
  /\ field(account, "VERSION") = <<Version>>

WithNextNonce == set_nonce(account, nonce_of(account) + 1)

TransferSol(intent, sigs, recipient) ==
  /\ Authorized(intent, sigs, "TransferSol")
  /\ recipient = intent.action.to /\ recipient # "Vault"
  /\ account' = WithNextNonce
  /\ HV!MoveLamports(intent.action.amount, recipient)
  /\ UNCHANGED <<config, tokens, slot>>

TransferSpl(intent, sigs) ==
  /\ Authorized(intent, sigs, "TransferSpl")
  /\ account' = WithNextNonce
  /\ intent.action.amount <= tokens
  /\ tokens' = tokens - intent.action.amount
  /\ UNCHANGED <<config, balance, slot>>

ClearPendingAfterOwnerChange ==
  config' = IF config = <<>> THEN config ELSE clear_pending(config)

RotateEd25519(intent, sigs) ==
  /\ Authorized(intent, sigs, "RotateEd25519Key")
  /\ intent.action.new # owner_ed25519(account)
  /\ account' = set_owner_ed25519(WithNextNonce, intent.action.new)
  /\ ClearPendingAfterOwnerChange
  /\ UNCHANGED <<balance, tokens, slot>>

RotateFalcon(intent, sigs, newWireKey, pop) ==
  /\ Authorized(intent, sigs, "RotateFalconKey")
  /\ HV!HashesTo(newWireKey, intent.action.new)
  /\ intent.action.new # falcon_public_key_hash(account)
  /\ HV!ReconstructIntent(intent) = intent
  /\ HV!ProofOfPossession(newWireKey, pop)
  /\ account' = set_prepared(
                  set_falcon_public_key_hash(WithNextNonce, intent.action.new),
                  newWireKey)
  /\ UNCHANGED <<config, balance, tokens, slot>>

ChangePolicy(intent, sigs) ==
  /\ Authorized(intent, sigs, "ChangePolicy")
  /\ LET target == intent.action.policy
         resulting == TargetThreshold(target, intent.action.threshold)
     IN  /\ ~(policy_of(account) = target /\ falcon_required_above(account) = resulting)
         /\ account' = set_falcon_required_above(
                         set_policy(WithNextNonce, target), resulting)
  /\ UNCHANGED <<config, balance, tokens, slot>>

SwitchRecovery(intent, sigs, on) ==
  /\ Authorized(intent, sigs, "RecoverAccount")
  /\ intent.action.op = IF on THEN "Enable" ELSE "Disable"
  /\ intent.action.new = ZeroKey
  /\ recovery_enabled(account) # on
  /\ account' = set_recovery_enabled(WithNextNonce, on)
  /\ UNCHANGED <<config, balance, tokens, slot>>

RecoverEd25519(intent, sigs) ==
  /\ Authorized(intent, sigs, "RecoverAccount")
  /\ intent.action.op = "RotateEd25519"
  /\ intent.action.new \notin {ZeroKey, owner_ed25519(account)}
  /\ account' = set_owner_ed25519(WithNextNonce, intent.action.new)
  /\ ClearPendingAfterOwnerChange
  /\ UNCHANGED <<balance, tokens, slot>>

SetRecoveryConfig(intent, sigs) ==
  /\ Authorized(intent, sigs, "SetRecoveryConfig")
  /\ intent.action.guardian # ZeroKey /\ intent.action.delay >= 1
  /\ \/ /\ config = <<>>
        /\ balance["Wallet"] >= ConfigRent
        /\ balance' = [balance EXCEPT !["Wallet"] = @ - ConfigRent,
                                      !["Config"] = @ + ConfigRent]
        /\ config' = initialize_config(intent.action.guardian, intent.action.delay)
     \/ /\ config # <<>> /\ HV!MayReplaceConfig
        /\ config' = set_delay_slots(
                       set_guardian_ed25519(config, intent.action.guardian),
                       intent.action.delay)
        /\ UNCHANGED balance
  /\ account' = WithNextNonce
  /\ UNCHANGED <<tokens, slot>>

InitiateSocialRecovery(new, signer, signedNonce) ==
  /\ account # <<>> /\ config # <<>>
  /\ HV!SocialRecoveryOpen
  /\ new \notin {ZeroKey, owner_ed25519(account)}
  /\ signer = guardian_ed25519(config)
  /\ signedNonce = nonce_of(account)
  /\ HV!MayInitiate
  /\ HV!ReadySlot <= MaxU64
  /\ config' = set_pending(config, new, HV!ReadySlot)
  /\ UNCHANGED <<account, balance, tokens, slot>>

FinalizeSocialRecovery ==
  /\ account # <<>> /\ config # <<>>
  /\ HV!SocialRecoveryOpen
  /\ HV!HasPending /\ HV!TimelockElapsed
  /\ HV!NonceHasSuccessor
  /\ config' = clear_pending(config)
  /\ account' = set_nonce(
       set_owner_ed25519(account, pending_new_ed25519(config)),
       nonce_of(account) + 1)
  /\ UNCHANGED <<balance, tokens, slot>>

CancelSocialRecovery(intent, sigs) ==
  /\ Authorized(intent, sigs, "CancelSocialRecovery")
  /\ config # <<>>
  /\ HV!SocialRecoveryOpen
  /\ HV!HasPending
  /\ config' = clear_pending(config)
  /\ account' = WithNextNonce
  /\ UNCHANGED <<balance, tokens, slot>>

Deposit(to, amount) ==
  /\ amount \in 1..balance["Wallet"]
  /\ balance[to] + amount \in U64
  /\ balance' = [balance EXCEPT !["Wallet"] = @ - amount, ![to] = @ + amount]
  /\ UNCHANGED <<account, config, tokens, slot>>

Tick ==
  /\ slot < MaxSlot /\ slot' = slot + 1
  /\ UNCHANGED <<account, config, balance, tokens>>

Submit(intent, sigs) ==
  \/ \E recipient \in HV!Accounts : TransferSol(intent, sigs, recipient)
  \/ TransferSpl(intent, sigs)
  \/ RotateEd25519(intent, sigs)
  \/ \E newWireKey \in FalconKeys, pop \in FalconSigners :
       RotateFalcon(intent, sigs, newWireKey, pop)
  \/ ChangePolicy(intent, sigs)
  \/ \E on \in BOOLEAN : SwitchRecovery(intent, sigs, on)
  \/ RecoverEd25519(intent, sigs)
  \/ SetRecoveryConfig(intent, sigs)
  \/ CancelSocialRecovery(intent, sigs)

Next ==
  \/ Tick
  \/ \E to \in {"Vault", "Config"}, amount \in HV!U64 : Deposit(to, amount)
  \/ \E newOwner \in Ed25519Keys, newFalcon \in FalconKeys, newPolicy \in Policies :
       Initialize(newOwner, newFalcon, newPolicy)
  \/ \E intent \in HV!Intents, sigs \in HV!Signatures : Submit(intent, sigs)
  \/ \E new \in Ed25519Keys, signer \in Ed25519Signers, signedNonce \in HV!U64 :
       InitiateSocialRecovery(new, signer, signedNonce)
  \/ FinalizeSocialRecovery

Spec == Init /\ [][Next]_svars
-----------------------------------------------------------------------------
\* Whatever sequence of instructions ran over the same bytes, version, bump,
\* index and the reserved bytes are as initialization left them: no setter
\* writes beside its field.  The version is part of every digest, and the vault
\* signs its token transfers with the index (spl_token.rs), so that a vault
\* with another byte there could never use its funds again.
HeadersAreKept ==
  /\ account # <<>> =>
       /\ Len(account) = ACCOUNT_DATA_LEN
       /\ field(account, "VERSION") = <<Version>> /\ field(account, "BUMP") = <<Bump>>
       /\ field(account, "ACCOUNT_INDEX") = AccountIndex
       /\ field(account, "RESERVED1") = Zeros(WordLen)
       /\ flags(account) <= FLAG_RECOVERY_ENABLED + FLAG_FALCON_THRESHOLD_SET
  /\ config # <<>> =>
       /\ Len(config) = RECOVERY_CONFIG_LEN
       /\ config_field(config, "VERSION") = <<Version>>
       /\ config_field(config, "BUMP") = <<ConfigBump>>
       /\ config_field(config, "FLAGS") = <<0>> /\ config_field(config, "RESERVED0") = <<0>>
       /\ config_field(config, "RESERVED1") = Zeros(ConfigReservedLen)

\* Reading the bytes back gives a behaviour of HybridVault: no field that an
\* instruction leaves alone changes with one that it writes (the recovery flag
\* with the threshold's), and what one handler writes another reads as such.
ImplementsVault == HV!Spec
============================================================================
