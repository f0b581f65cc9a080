---------------------------- MODULE HybridVault ----------------------------
(***************************************************************************)
(* One DualKey vault on chain: the HybridAccount PDA, its RecoveryConfig   *)
(* PDA, the lamports and tokens they hold, and the cluster clock.          *)
(*                                                                         *)
(* An action of this module is one instruction of the program, from        *)
(* dispatch to return.  The runtime commits an instruction whole or not at *)
(* all, so an instruction that fails changes nothing and is no step.       *)
(*                                                                         *)
(* Relayers may submit anything, at any time, in any order, any number of  *)
(* times.  So a signature is not a message that is sent once: every        *)
(* signature a key of Ed25519Signers or FalconSigners can make is taken to *)
(* exist from the start, and an instruction carries the one the relayer    *)
(* picked together with the intent it was made over.                       *)
(***************************************************************************)
EXTENDS Naturals, DualKeyPolicy

CONSTANTS
  Ed25519Keys,     \* 32-byte Ed25519 public keys, the all-zero one included
  ZeroKey,         \* the all-zero key, which also stands for "no pending owner"
  FalconKeys,      \* 897-byte Falcon keys that parse, named by their SHA-256
  Ed25519Signers,  \* the Ed25519 keys under which signatures are ever made
  FalconSigners,   \* the Falcon keys under which signatures are ever made
  NoSig,           \* stands for a missing or unverifiable signature
  SignedKinds,     \* the kinds of action that are ever signed
  Amounts,         \* lamport, token and threshold amounts that are signed
  Delays,          \* recovery delays that are signed
  Expiries,        \* expiry slots that are signed
  MaxU64,          \* u64::MAX: the limit of nonces, slots and balances
  MaxSlot,         \* bound on the clock
  RentMin,         \* rent-exempt minimum of the HybridAccount
  ConfigRent,      \* rent-exempt minimum of the RecoveryConfig
  Supply,          \* lamports of the vault, its config and everybody else
  InitialTokens    \* tokens in the vault's token account

U64 == 0..MaxU64

ASSUME KeysAssumption ==
  /\ Ed25519Signers \subseteq Ed25519Keys
  /\ FalconSigners \subseteq FalconKeys
  /\ ZeroKey \in Ed25519Keys
  /\ NoSig \notin Ed25519Keys \cup FalconKeys

ASSUME NumbersAssumption ==
  /\ MaxU64 \in Nat /\ MaxSlot \in U64 /\ RentMin \in U64 /\ ConfigRent \in U64
  /\ Supply \in U64 /\ InitialTokens \in U64
  /\ Amounts \subseteq U64 /\ Delays \subseteq U64 /\ Expiries \subseteq U64

VARIABLES
  created,           \* the HybridAccount PDA exists and is initialized
  policy,
  threshold,         \* falcon_required_above and its flag
  recoveryEnabled,   \* FLAG_RECOVERY_ENABLED
  owner,             \* owner_ed25519
  falconKeyHash,     \* falcon_public_key_hash
  preparedKey,       \* prepared_falcon_public_key
  nonce,
  configCreated,     \* the RecoveryConfig PDA exists and is initialized
  guardian,          \* guardian_ed25519
  delaySlots,
  pendingNew,        \* pending_new_ed25519, ZeroKey when there is none
  pendingReadySlot,
  balance,           \* lamports of "Vault", "Config" and everybody's "Wallet"
  tokens,            \* tokens in the vault's token account
  slot               \* Clock::slot

policyVars == <<policy, threshold>>
falconVars == <<falconKeyHash, preparedKey>>
accountVars == <<created, policy, threshold, recoveryEnabled, owner,
                 falconKeyHash, preparedKey, nonce>>
guardianVars == <<configCreated, guardian, delaySlots>>
pendingVars == <<pendingNew, pendingReadySlot>>
configVars == <<configCreated, guardian, delaySlots, pendingNew, pendingReadySlot>>
fundVars == <<balance, tokens>>
vars == <<accountVars, configVars, fundVars, slot>>

Accounts == {"Vault", "Config", "Wallet"}
Thresholds == [set: BOOLEAN, value: U64]

AccountTypeOK ==
  /\ created \in BOOLEAN /\ policy \in Policies /\ threshold \in Thresholds
  /\ recoveryEnabled \in BOOLEAN /\ owner \in Ed25519Keys
  /\ falconKeyHash \in FalconKeys /\ preparedKey \in FalconKeys /\ nonce \in U64

ConfigTypeOK ==
  /\ configCreated \in BOOLEAN /\ guardian \in Ed25519Keys /\ delaySlots \in U64
  /\ pendingNew \in Ed25519Keys /\ pendingReadySlot \in U64

FundsTypeOK == balance \in [Accounts -> U64] /\ tokens \in U64

TypeOK == AccountTypeOK /\ ConfigTypeOK /\ FundsTypeOK /\ slot \in U64

\* Nothing exists yet; what the fields of an account that does not exist hold
\* is never read.
Init ==
  /\ created = FALSE /\ policy = "Ed25519Only" /\ threshold = NoThreshold
  /\ recoveryEnabled = FALSE /\ owner = ZeroKey
  /\ falconKeyHash \in FalconKeys /\ preparedKey = falconKeyHash /\ nonce = 0
  /\ configCreated = FALSE /\ guardian = ZeroKey /\ delaySlots = 0
  /\ pendingNew = ZeroKey /\ pendingReadySlot = 0
  /\ balance = [a \in Accounts |-> IF a = "Wallet" THEN Supply ELSE 0]
  /\ tokens = InitialTokens /\ slot = 0
-----------------------------------------------------------------------------
(* Signed messages.                                                        *)

SolTransfers == [kind: {"TransferSol"} \cap SignedKinds, amount: Amounts, to: Accounts]
SplTransfers == [kind: {"TransferSpl"} \cap SignedKinds, amount: Amounts]
Ed25519Rotations == [kind: {"RotateEd25519Key"} \cap SignedKinds, new: Ed25519Keys]
FalconRotations == [kind: {"RotateFalconKey"} \cap SignedKinds, new: FalconKeys]
PolicyChanges == [kind: {"ChangePolicy"} \cap SignedKinds,
                  policy: Policies, threshold: Amounts]
Recoveries == [kind: {"RecoverAccount"} \cap SignedKinds,
               op: RecoveryOps, new: Ed25519Keys]
ConfigSettings == [kind: {"SetRecoveryConfig"} \cap SignedKinds,
                   guardian: Ed25519Keys, delay: Delays]
Cancellations == [kind: {"CancelSocialRecovery"} \cap SignedKinds]

Actions == SolTransfers \cup SplTransfers \cup Ed25519Rotations
             \cup FalconRotations \cup PolicyChanges \cup Recoveries
             \cup ConfigSettings \cup Cancellations

\* What a key holder signs: version, chain, program and account are the same
\* for every intent of one vault and are left out.
Intents == [nonce: U64, expiry: Expiries, action: Actions]

\* What an instruction carries besides the intent.
Signatures == [ed25519: Ed25519Signers \cup {NoSig}, falcon: FalconSigners \cup {NoSig}]

\* The program takes expiry and action from the wire and the nonce from the
\* account, so a signature verifies only if it was made at the stored nonce.
BugReconstructIntent(intent) == intent
ReconstructIntent(intent) == [intent EXCEPT !.nonce = nonce]

BugNotExpired(intent) == slot <= intent.expiry + 1
NotExpired(intent) == slot <= intent.expiry

BugRecoveryOptedIn(action) == TRUE
RecoveryOptedIn(action) == IsFalconRecovery(action) => recoveryEnabled

BugNonceHasSuccessor == TRUE
NonceHasSuccessor == nonce < MaxU64

\* authorize(): every early return, then the requirement.
Authorize(intent, sigs) ==
  LET sameDigest == ReconstructIntent(intent) = intent
  IN  /\ created
      /\ NotExpired(intent)
      /\ NonceHasSuccessor
      /\ RecoveryOptedIn(intent.action)
      /\ Satisfied(EffectiveRequirement(policy, threshold, intent.action),
                   sameDigest /\ sigs.ed25519 = owner,
                   sameDigest /\ sigs.falcon = preparedKey)

BugConsumeNonce == UNCHANGED nonce
ConsumeNonce == nonce' = nonce + 1
-----------------------------------------------------------------------------
(* Initialize.                                                             *)

\* Anyone may create the PDA; the creator tops it up to the rent minimum.
Initialize(newOwner, newFalcon, newPolicy) ==
  LET shortfall == IF balance["Vault"] < RentMin THEN RentMin - balance["Vault"] ELSE 0
  IN  /\ ~created
      /\ shortfall <= balance["Wallet"]
      /\ balance' = [balance EXCEPT !["Vault"] = @ + shortfall,
                                    !["Wallet"] = @ - shortfall]
      /\ created' = TRUE /\ policy' = newPolicy /\ threshold' = NoThreshold
      /\ recoveryEnabled' = FALSE /\ owner' = newOwner
      /\ falconKeyHash' = newFalcon /\ preparedKey' = newFalcon /\ nonce' = 0
      /\ UNCHANGED <<configVars, tokens, slot>>
-----------------------------------------------------------------------------
(* Execute.                                                                *)

BugRentFloorKept(amount) == balance["Vault"] >= amount
RentFloorKept(amount) == balance["Vault"] >= amount + RentMin

BugTransferred(amount, recipient) == [balance EXCEPT !["Vault"] = @ - amount]
Transferred(amount, recipient) ==
  [balance EXCEPT !["Vault"] = @ - amount, ![recipient] = @ + amount]

\* transfer_sol(): a zero amount succeeds whatever the balances.
MoveLamports(amount, recipient) ==
  \/ amount = 0 /\ UNCHANGED balance
  \/ /\ amount > 0
     /\ RentFloorKept(amount)
     /\ balance[recipient] + amount \in U64
     /\ balance' = Transferred(amount, recipient)

\* The relayer picks the recipient account; it must be the signed one.
TransferSol(intent, sigs, recipient) ==
  /\ intent.action.kind = "TransferSol"
  /\ recipient = intent.action.to
  /\ recipient # "Vault"
  /\ Authorize(intent, sigs)
  /\ ConsumeNonce
  /\ MoveLamports(intent.action.amount, recipient)
  /\ UNCHANGED <<created, policyVars, recoveryEnabled, owner, falconVars,
                 configVars, tokens, slot>>

\* The account checks and the token program's CPI are those of the source
\* balance here: a transfer_checked that fails fails the instruction.
TransferSpl(intent, sigs) ==
  /\ intent.action.kind = "TransferSpl"
  /\ Authorize(intent, sigs)
  /\ ConsumeNonce
  /\ intent.action.amount <= tokens
  /\ tokens' = tokens - intent.action.amount
  /\ UNCHANGED <<created, policyVars, recoveryEnabled, owner, falconVars,
                 configVars, balance, slot>>
-----------------------------------------------------------------------------
(* Key rotation.                                                           *)

HasPending == pendingNew # ZeroKey
ClearPending == pendingNew' = ZeroKey /\ pendingReadySlot' = 0

\* A config account that does not exist yet is a no-op in the code; its
\* pending field is ZeroKey already.
BugClearPendingAfterOwnerChange == UNCHANGED pendingVars
ClearPendingAfterOwnerChange == IF configCreated THEN ClearPending ELSE UNCHANGED pendingVars

\* The new key may be any key but the current one: there is no proof of
\* possession, and the all-zero key is accepted.
RotateEd25519(intent, sigs) ==
  /\ intent.action.kind = "RotateEd25519Key"
  /\ intent.action.new # owner
  /\ Authorize(intent, sigs)
  /\ ConsumeNonce
  /\ owner' = intent.action.new
  /\ ClearPendingAfterOwnerChange
  /\ UNCHANGED <<created, policyVars, recoveryEnabled, falconVars,
                 guardianVars, fundVars, slot>>

\* The new key must itself sign the digest of this intent.
BugProofOfPossession(new, pop) == TRUE
ProofOfPossession(new, pop) == pop = new

\* The hash of a key stands for that key here: the relayer sends the new key
\* beside the intent, which signs only the key's hash.
BugHashesTo(wireKey, hash) == TRUE
HashesTo(wireKey, hash) == wireKey = hash

\* The hash comes from the intent and the prepared key from the wire: two
\* values, stored one after the other.
StoreFalconKey(hash, wireKey) == falconKeyHash' = hash /\ preparedKey' = wireKey

RotateFalcon(intent, sigs, newWireKey, pop) ==
  /\ intent.action.kind = "RotateFalconKey"
  /\ HashesTo(newWireKey, intent.action.new)
  /\ intent.action.new # falconKeyHash
  /\ Authorize(intent, sigs)
  /\ ReconstructIntent(intent) = intent /\ ProofOfPossession(newWireKey, pop)
  /\ ConsumeNonce
  /\ StoreFalconKey(intent.action.new, newWireKey)
  /\ UNCHANGED <<created, policyVars, recoveryEnabled, owner, configVars,
                 fundVars, slot>>
-----------------------------------------------------------------------------
(* ChangePolicy.                                                           *)

BugStorePolicy(p, t) == policy' = p /\ threshold' = IF t.set THEN t ELSE threshold
StorePolicy(p, t) == policy' = p /\ threshold' = t

ChangePolicy(intent, sigs) ==
  /\ intent.action.kind = "ChangePolicy"
  /\ LET target == intent.action.policy
         resulting == TargetThreshold(target, intent.action.threshold)
     IN  /\ ~(policy = target /\ threshold = resulting)
         /\ StorePolicy(target, resulting)
  /\ Authorize(intent, sigs)
  /\ ConsumeNonce
  /\ UNCHANGED <<created, recoveryEnabled, owner, falconVars, configVars,
                 fundVars, slot>>
-----------------------------------------------------------------------------
(* RecoverAccount.                                                         *)

\* A pending social recovery is left as it is by both.
EnableRecovery(intent, sigs) ==
  /\ intent.action.kind = "RecoverAccount"
  /\ intent.action.op = "Enable" /\ intent.action.new = ZeroKey
  /\ Authorize(intent, sigs)
  /\ ConsumeNonce
  /\ ~recoveryEnabled /\ recoveryEnabled' = TRUE
  /\ UNCHANGED <<created, policyVars, owner, falconVars, configVars, fundVars, slot>>

DisableRecovery(intent, sigs) ==
  /\ intent.action.kind = "RecoverAccount"
  /\ intent.action.op = "Disable" /\ intent.action.new = ZeroKey
  /\ Authorize(intent, sigs)
  /\ ConsumeNonce
  /\ recoveryEnabled /\ recoveryEnabled' = FALSE
  /\ UNCHANGED <<created, policyVars, owner, falconVars, configVars, fundVars, slot>>

RecoverEd25519(intent, sigs) ==
  /\ intent.action.kind = "RecoverAccount"
  /\ intent.action.op = "RotateEd25519"
  /\ intent.action.new \notin {owner, ZeroKey}
  /\ Authorize(intent, sigs)
  /\ ConsumeNonce
  /\ owner' = intent.action.new
  /\ ClearPendingAfterOwnerChange
  /\ UNCHANGED <<created, policyVars, recoveryEnabled, falconVars,
                 guardianVars, fundVars, slot>>
-----------------------------------------------------------------------------
(* Social recovery.                                                        *)

BugMayReplaceConfig == TRUE
MayReplaceConfig == ~HasPending

\* Creating the config charges the payer its whole rent, prefunded or not.
SetRecoveryConfig(intent, sigs) ==
  /\ intent.action.kind = "SetRecoveryConfig"
  /\ intent.action.guardian # ZeroKey
  /\ intent.action.delay >= 1
  /\ Authorize(intent, sigs)
  /\ \/ /\ ~configCreated
        /\ balance["Wallet"] >= ConfigRent
        /\ balance' = [balance EXCEPT !["Wallet"] = @ - ConfigRent,
                                      !["Config"] = @ + ConfigRent]
        /\ pendingNew' = ZeroKey /\ pendingReadySlot' = 0
     \/ /\ configCreated /\ MayReplaceConfig
        /\ UNCHANGED <<balance, pendingVars>>
  /\ configCreated' = TRUE
  /\ guardian' = intent.action.guardian
  /\ delaySlots' = intent.action.delay
  /\ ConsumeNonce
  /\ UNCHANGED <<created, policyVars, recoveryEnabled, owner, falconVars, tokens, slot>>

\* All three social paths ask for the recovery flag first.
BugSocialRecoveryOpen == TRUE
SocialRecoveryOpen == recoveryEnabled

BugMayInitiate == TRUE
MayInitiate == ~HasPending

BugReadySlot == slot
ReadySlot == slot + delaySlots

\* The guardian signs the new key and a nonce; there is no expiry, and the
\* nonce is compared but not consumed.
InitiateSocialRecovery(new, signer, signedNonce) ==
  /\ created /\ configCreated
  /\ SocialRecoveryOpen
  /\ new \notin {ZeroKey, owner}
  /\ signer = guardian /\ signedNonce = nonce
  /\ MayInitiate
  /\ ReadySlot <= MaxU64
  /\ pendingNew' = new /\ pendingReadySlot' = ReadySlot
  /\ UNCHANGED <<accountVars, guardianVars, fundVars, slot>>

BugTimelockOffByOne == slot > pendingReadySlot
TimelockElapsed == slot >= pendingReadySlot

\* Permissionless: whoever submits it, no signature is asked for.
FinalizeSocialRecovery ==
  /\ created /\ configCreated
  /\ SocialRecoveryOpen
  /\ HasPending /\ TimelockElapsed
  /\ NonceHasSuccessor
  /\ owner' = pendingNew
  /\ ConsumeNonce
  /\ ClearPending
  /\ UNCHANGED <<created, policyVars, recoveryEnabled, falconVars,
                 guardianVars, fundVars, slot>>

CancelSocialRecovery(intent, sigs) ==
  /\ intent.action.kind = "CancelSocialRecovery"
  /\ configCreated
  /\ SocialRecoveryOpen
  /\ Authorize(intent, sigs)
  /\ HasPending
  /\ ClearPending
  /\ ConsumeNonce
  /\ UNCHANGED <<created, policyVars, recoveryEnabled, owner, falconVars,
                 guardianVars, fundVars, slot>>
-----------------------------------------------------------------------------
(* The environment, and the whole system.                                  *)

\* Anybody may send lamports to either PDA, before or after it exists.
Deposit(to, amount) ==
  /\ amount \in 1..balance["Wallet"]
  /\ balance[to] + amount \in U64
  /\ balance' = [balance EXCEPT !["Wallet"] = @ - amount, ![to] = @ + amount]
  /\ UNCHANGED <<accountVars, configVars, tokens, slot>>

\* Bound: the clock stops at MaxSlot.
Tick ==
  /\ slot < MaxSlot
  /\ slot' = slot + 1
  /\ UNCHANGED <<accountVars, configVars, fundVars>>

\* The instructions that carry a signed intent.  The relayer picks the
\* recipient account, the new Falcon key and its proof of possession.
Submit(intent, sigs) ==
  \/ \E recipient \in Accounts : TransferSol(intent, sigs, recipient)
  \/ TransferSpl(intent, sigs)
  \/ RotateEd25519(intent, sigs)
  \/ \E newWireKey \in FalconKeys, pop \in FalconSigners :
       RotateFalcon(intent, sigs, newWireKey, pop)
  \/ ChangePolicy(intent, sigs)
  \/ EnableRecovery(intent, sigs)
  \/ DisableRecovery(intent, sigs)
  \/ RecoverEd25519(intent, sigs)
  \/ SetRecoveryConfig(intent, sigs)
  \/ CancelSocialRecovery(intent, sigs)

Environment ==
  \/ Tick
  \/ \E to \in {"Vault", "Config"}, amount \in U64 : Deposit(to, amount)

Create ==
  \E newOwner \in Ed25519Keys, newFalcon \in FalconKeys, newPolicy \in Policies :
    Initialize(newOwner, newFalcon, newPolicy)

Propose ==
  \E new \in Ed25519Keys, signer \in Ed25519Signers, signedNonce \in U64 :
    InitiateSocialRecovery(new, signer, signedNonce)

Next ==
  \/ Environment
  \/ Create
  \/ \E intent \in Intents, sigs \in Signatures : Submit(intent, sigs)
  \/ Propose
  \/ FinalizeSocialRecovery

Spec == Init /\ [][Next]_vars
-----------------------------------------------------------------------------
(* What must hold in every state.                                          *)

\* Lamports are never created or lost, whatever sequence of transfers,
\* top-ups, deposits and PDA creations is run (execute.rs transfer_sol,
\* initialize.rs and social_recovery.rs create_*).
LamportsConserved ==
  balance["Vault"] + balance["Config"] + balance["Wallet"] = Supply

\* No sequence of transfers takes the vault below the rent minimum, so the
\* account that holds the keys and the nonce is never reclaimed.
RentFloor == created => balance["Vault"] >= RentMin

\* A pending owner always comes with a config that proposed it under its
\* present delay, and it is never the owner the vault already has: no owner
\* change, by any of the three paths, leaves a stale pending behind, and the
\* config is never replaced under a pending.
PendingWellFormed ==
  HasPending => /\ created /\ configCreated
                /\ pendingNew # owner
                /\ guardian # ZeroKey /\ delaySlots >= 1
                /\ delaySlots <= pendingReadySlot
                /\ pendingReadySlot <= slot + delaySlots

\* A threshold is stored only while the policy that reads it is in force, so
\* that a later return to FalconAboveThreshold never finds an old one.
ThresholdMatchesPolicy ==
  policy # "FalconAboveThreshold" => threshold = NoThreshold

\* The hash the clients compare with and the prepared key the program verifies
\* against are always those of one Falcon key, though a rotation takes the one
\* from the signed intent and the other from whoever relays it.
FalconKeyMatchesHash == falconKeyHash = preparedKey

\* threat-model.md: "DualKey owner can CancelSocialRecovery under current
\* policy before the timelock elapses".  Cancel is refused unless recovery
\* is enabled and the nonce has a successor.
PendingIsCancellable ==
  HasPending /\ slot < pendingReadySlot => recoveryEnabled /\ nonce < MaxU64
-----------------------------------------------------------------------------
(* What a step may never do.                                               *)

\* Whatever changes the owner also drops the pending proposal, so that a
\* proposal made against one owner is never finalized against another.
OwnerChangeDropsPending ==
  [][created /\ owner' # owner => pendingNew' = ZeroKey]_vars

\* Once the account's Falcon key is one that somebody can sign with, it stays
\* one: rotation cannot install a key without a signature made by that key.
FalconKeyStaysUsable ==
  [][created /\ preparedKey \in FalconSigners => preparedKey' \in FalconSigners]_vars

\* At u64::MAX no instruction is accepted that would need another nonce: the
\* account is frozen, and nothing leaves it, instead of the nonce wrapping.
FrozenAtMaxNonce ==
  [][created /\ nonce = MaxU64 =>
       /\ UNCHANGED accountVars
       /\ balance'["Vault"] >= balance["Vault"] /\ tokens' = tokens]_vars

\* What the owner signed dies with its expiry: once the clock has passed the
\* last expiry anybody signed, the only instructions that still change the
\* account are the guardian's, whose signature has no expiry.
OnlyGuardianOutlivesExpiry ==
  [][created /\ (\A e \in Expiries : slot > e) =>
       /\ UNCHANGED <<policyVars, recoveryEnabled, falconVars, guardianVars, tokens>>
       /\ balance'["Vault"] >= balance["Vault"]
       /\ owner' \in {owner, pendingNew}]_vars

\* The nonce moves only by one at a time, and a step that leaves it where it is
\* changes neither the account, nor who guards it, nor a pending, and takes
\* nothing out: no such change leaves the signatures that made it reusable.
NonceGuardsEveryChange ==
  [][created =>
       /\ nonce' \in {nonce, nonce + 1}
       /\ nonce' = nonce =>
            /\ UNCHANGED <<accountVars, guardianVars, tokens>>
            /\ balance'["Vault"] >= balance["Vault"]
            /\ HasPending => UNCHANGED pendingVars]_vars
-----------------------------------------------------------------------------
(* What one scheme alone can do.  These hold in instances where the other  *)
(* scheme never signs (Ed25519Signers or FalconSigners is empty).          *)

\* The policies under which every administrative action needs Falcon.
FalconAdminPolicies ==
  {"FalconOnly", "HybridAnd", "FalconForPrivileged", "FalconAboveThreshold"}

NothingSpent == balance'["Vault"] >= balance["Vault"] /\ tokens' = tokens

\* "Under HybridAnd, theft or break of a single scheme must not authorize
\* spends", nor anything else, through any sequence of instructions: policy
\* changes, rotations, recovery and the guardian included.
SingleSchemeFreezesHybridAnd ==
  [][created /\ policy = "HybridAnd" =>
       UNCHANGED <<accountVars, configVars>> /\ NothingSpent]_vars

\* Without a Falcon signature an account whose administration is Falcon's
\* keeps its policy, keys, recovery flag and guardian for ever.
NoFalconNoAdministration ==
  [][created /\ policy \in FalconAdminPolicies =>
       UNCHANGED <<policyVars, recoveryEnabled, owner, falconVars, configVars>>]_vars

\* Without a Falcon signature FalconOnly spends nothing, and each instruction
\* under FalconAboveThreshold moves at most the threshold.
NoFalconSpendingBounded ==
  [][created =>
       /\ policy = "FalconOnly" => NothingSpent
       /\ policy = "FalconAboveThreshold" =>
            /\ balance["Vault"] <= balance'["Vault"] + threshold.value
            /\ tokens <= tokens' + threshold.value]_vars
-----------------------------------------------------------------------------
(* What one key of the vault alone can do, in the hands of somebody who has *)
(* any other keys besides: own ones, and the guardian's.                    *)

WithoutFalconKey ==
  preparedKey \notin FalconSigners =>
    /\ {policy, policy'} \cap FalconAdminPolicies # {} => UNCHANGED policyVars
    /\ policy \in FalconAdminPolicies =>
         /\ UNCHANGED <<recoveryEnabled, falconVars, guardianVars>>
         /\ owner' \in {owner, pendingNew}
         /\ ~recoveryEnabled => UNCHANGED <<owner, pendingVars>>
    /\ policy \in {"FalconOnly", "HybridAnd"} => NothingSpent
    /\ policy = "FalconAboveThreshold" =>
         /\ balance["Vault"] <= balance'["Vault"] + threshold.value
         /\ tokens <= tokens' + threshold.value

\* The policies under which every action but Falcon's recovery needs Ed25519.
Ed25519Policies == {"Ed25519Only", "HybridAnd"}

WithoutEd25519Key ==
  owner \notin Ed25519Signers =>
    /\ {policy, policy'} \cap Ed25519Policies # {} => UNCHANGED policyVars
    /\ policy \in Ed25519Policies =>
         /\ UNCHANGED <<recoveryEnabled, falconVars, guardianVars>> /\ NothingSpent
         /\ ~recoveryEnabled => UNCHANGED <<owner, pendingVars>>

\* threat-model.md: a stolen Ed25519 or Falcon key "cannot alone authorize
\* spend", a policy change needs the stricter of two policies, and recovery is
\* opt-in.  Whoever lacks one of the vault's keys, though others may sign with
\* any key and the thief installs own ones where that is possible, neither
\* spends beyond what the policy leaves to the other key, nor changes policy,
\* Falcon key, recovery flag or guardian, nor enters a policy that asks for the
\* missing key; nor, while the recovery flag is off, touches owner or pending.
OneKeyIsNotEnough == [][created => WithoutFalconKey /\ WithoutEd25519Key]_vars
-----------------------------------------------------------------------------
(* What must eventually happen.                                            *)

\* A proposal does not hang: it is finalized, cancelled or superseded, unless
\* recovery is disabled or the nonce is exhausted while it is pending, or its
\* ready slot lies beyond the clock's bound.
PendingResolves ==
  HasPending ~> (~HasPending \/ ~recoveryEnabled \/ nonce = MaxU64
                   \/ pendingReadySlot > MaxSlot)
============================================================================
