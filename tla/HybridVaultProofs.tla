------------------------- MODULE HybridVaultProofs -------------------------
(***************************************************************************)
(* Theorems about the types, the funds, the owner, the nonce, the pending  *)
(* social recovery and the policy of HybridVault, about what a holder of   *)
(* the keys of one scheme, or whoever lacks one of the vault's two keys,   *)
(* can make it do, about what relates an instruction to earlier ones, and  *)
(* that the whole program implements TimelockedOwner, for every value of   *)
(* the constants.                                                          *)
(***************************************************************************)
EXTENDS VaultHistory, TLAPS

\* The fields of a signed intent, by the kind of its action.
LEMMA IntentFields ==
  ASSUME NEW intent \in Intents
  PROVE  /\ intent.nonce \in U64 /\ intent.expiry \in Expiries
         /\ intent.action.kind \in TransferKinds =>
              intent.action.amount \in Amounts
         /\ intent.action.kind = "TransferSol" => intent.action.to \in Accounts
         /\ intent.action.kind = "RotateEd25519Key" =>
              intent.action.new \in Ed25519Keys
         /\ intent.action.kind = "RotateFalconKey" =>
              intent.action.new \in FalconKeys
         /\ intent.action.kind = "ChangePolicy" =>
              intent.action.policy \in Policies /\ intent.action.threshold \in Amounts
         /\ intent.action.kind = "RecoverAccount" =>
              intent.action.new \in Ed25519Keys
         /\ intent.action.kind = "SetRecoveryConfig" =>
              intent.action.guardian \in Ed25519Keys /\ intent.action.delay \in Delays
BY DEF Intents, Actions, SolTransfers, SplTransfers, Ed25519Rotations,
       FalconRotations, PolicyChanges, Recoveries, ConfigSettings,
       Cancellations, TransferKinds
\* What every accepted intent has in common.
LEMMA SubmitFacts ==
  ASSUME NEW intent, NEW sigs, Submit(intent, sigs)
  PROVE  /\ created /\ nonce < MaxU64 /\ slot <= intent.expiry
         /\ created' = created /\ nonce' = nonce + 1 /\ slot' = slot
         /\ Authorize(intent, sigs)
<1>1. Authorize(intent, sigs) /\ ConsumeNonce /\ created' = created /\ slot' = slot
  BY DEF Submit, TransferSol, TransferSpl, RotateEd25519, RotateFalcon, ChangePolicy,
         EnableRecovery, DisableRecovery, RecoverEd25519, SetRecoveryConfig,
         CancelSocialRecovery
<1> QED
  BY <1>1 DEF Authorize, NonceHasSuccessor, NotExpired, ConsumeNonce
LEMMA NoThresholdType == NoThreshold \in Thresholds
BY NumbersAssumption DEF NoThreshold, Thresholds, U64
-----------------------------------------------------------------------------
(* Types and lamports, one group of variables at a time.                   *)

LEMMA AccountTypes == TypeOK /\ [Next]_vars => AccountTypeOK'
<1> SUFFICES ASSUME TypeOK, [Next]_vars PROVE AccountTypeOK'
  OBVIOUS
<1> USE KeysAssumption, NumbersAssumption DEF TypeOK, AccountTypeOK
<1>1. CASE UNCHANGED accountVars
  BY <1>1 DEF accountVars
<1>2. ASSUME NEW newOwner \in Ed25519Keys, NEW newFalcon \in FalconKeys,
             NEW newPolicy \in Policies, Initialize(newOwner, newFalcon, newPolicy)
      PROVE AccountTypeOK'
  <2>1. threshold' \in Thresholds
    BY <1>2, NoThresholdType DEF Initialize
  <2>2. nonce' \in U64
    BY <1>2 DEF Initialize, U64
  <2> QED
    BY <1>2, <2>1, <2>2 DEF Initialize
<1>3. ASSUME NEW intent \in Intents, NEW sigs \in Signatures, Submit(intent, sigs)
      PROVE AccountTypeOK'
  <2>1. created' \in BOOLEAN /\ nonce' \in U64
    BY <1>3, SubmitFacts DEF U64
  <2>2. ASSUME NEW recipient \in Accounts, TransferSol(intent, sigs, recipient)
        PROVE AccountTypeOK'
    BY <2>1, <2>2 DEF TransferSol, policyVars, falconVars
  <2>3. CASE TransferSpl(intent, sigs)
    BY <2>1, <2>3 DEF TransferSpl, policyVars, falconVars
  <2>4. CASE RotateEd25519(intent, sigs)
    BY <2>1, <2>4, IntentFields DEF RotateEd25519, policyVars, falconVars
  <2>5. ASSUME NEW newWireKey \in FalconKeys, NEW pop \in FalconSigners,
               RotateFalcon(intent, sigs, newWireKey, pop)
        PROVE AccountTypeOK'
    BY <2>1, <2>5 DEF RotateFalcon, HashesTo, StoreFalconKey, policyVars
  <2>6. CASE ChangePolicy(intent, sigs)
    <3>1. intent.action.policy \in Policies /\ intent.action.threshold \in U64
      BY <2>6, IntentFields DEF ChangePolicy
    <3>2. TargetThreshold(intent.action.policy, intent.action.threshold) \in Thresholds
      BY <3>1 DEF TargetThreshold, NoThreshold, SomeThreshold, Thresholds, U64
    <3> QED
      BY <2>1, <2>6, <3>1, <3>2 DEF ChangePolicy, StorePolicy, falconVars
  <2>7. CASE EnableRecovery(intent, sigs)
    BY <2>1, <2>7 DEF EnableRecovery, policyVars, falconVars
  <2>8. CASE DisableRecovery(intent, sigs)
    BY <2>1, <2>8 DEF DisableRecovery, policyVars, falconVars
  <2>9. CASE RecoverEd25519(intent, sigs)
    BY <2>1, <2>9, IntentFields DEF RecoverEd25519, policyVars, falconVars
  <2>10. CASE SetRecoveryConfig(intent, sigs)
    BY <2>1, <2>10 DEF SetRecoveryConfig, policyVars, falconVars
  <2>11. CASE CancelSocialRecovery(intent, sigs)
    BY <2>1, <2>11 DEF CancelSocialRecovery, policyVars, falconVars
  <2> QED
    BY <1>3, <2>2, <2>3, <2>4, <2>5, <2>6, <2>7, <2>8, <2>9, <2>10, <2>11 DEF Submit
<1>4. CASE FinalizeSocialRecovery
  BY <1>4 DEF FinalizeSocialRecovery, NonceHasSuccessor, ConsumeNonce, ConfigTypeOK,
              policyVars, falconVars, U64
<1>5. Environment \/ Propose \/ UNCHANGED vars => UNCHANGED accountVars
  BY DEF Environment, Tick, Deposit, Propose, InitiateSocialRecovery, vars
<1> QED
  BY <1>1, <1>2, <1>3, <1>4, <1>5 DEF Next, Create

LEMMA ConfigTypes == TypeOK /\ [Next]_vars => ConfigTypeOK'
<1> SUFFICES ASSUME TypeOK, [Next]_vars PROVE ConfigTypeOK'
  OBVIOUS
<1> USE KeysAssumption, NumbersAssumption DEF TypeOK, ConfigTypeOK
<1>1. CASE UNCHANGED configVars
  BY <1>1 DEF configVars
<1>2. ASSUME UNCHANGED guardianVars, ClearPending \/ UNCHANGED pendingVars
      PROVE ConfigTypeOK'
  BY <1>2 DEF guardianVars, pendingVars, ClearPending, U64
<1>3. ASSUME NEW intent \in Intents, NEW sigs \in Signatures, Submit(intent, sigs)
      PROVE ConfigTypeOK'
  <2>1. CASE SetRecoveryConfig(intent, sigs)
    <3>0. intent.action.kind = "SetRecoveryConfig"
      BY <2>1 DEF SetRecoveryConfig
    <3>1. intent.action.guardian \in Ed25519Keys /\ intent.action.delay \in U64
      BY <3>0, IntentFields
    <3>2. ClearPending \/ UNCHANGED pendingVars
      BY <2>1 DEF SetRecoveryConfig, ClearPending
    <3>3. pendingNew' \in Ed25519Keys /\ pendingReadySlot' \in U64
      BY <3>2 DEF pendingVars, ClearPending, U64
    <3>4. configCreated' = TRUE /\ guardian' = intent.action.guardian
          /\ delaySlots' = intent.action.delay
      BY <2>1 DEF SetRecoveryConfig
    <3> QED
      BY <3>1, <3>3, <3>4
  <2>2. CASE ~SetRecoveryConfig(intent, sigs)
    <3>1. \/ UNCHANGED configVars
          \/ UNCHANGED guardianVars /\ (ClearPending \/ UNCHANGED pendingVars)
      BY <1>3, <2>2
      DEF Submit, TransferSol, TransferSpl, RotateEd25519, RotateFalcon, ChangePolicy,
          EnableRecovery, DisableRecovery, RecoverEd25519, CancelSocialRecovery,
          ClearPendingAfterOwnerChange
    <3> QED
      BY <1>1, <1>2, <3>1
  <2> QED
    BY <2>1, <2>2
<1>4. CASE Propose
  BY <1>4 DEF Propose, InitiateSocialRecovery, ReadySlot, guardianVars, U64
<1>5. CASE FinalizeSocialRecovery
  BY <1>2, <1>5 DEF FinalizeSocialRecovery
<1>6. Environment \/ Create \/ UNCHANGED vars => UNCHANGED configVars
  BY DEF Environment, Tick, Deposit, Create, Initialize, vars
<1> QED
  BY <1>1, <1>3, <1>4, <1>5, <1>6 DEF Next

\* A config PDA is created with no check that its balance stays in range; that
\* it does follows from conservation, so the two are proved together.
LEMMA FundsStep ==
  TypeOK /\ LamportsConserved /\ [Next]_vars => FundsTypeOK' /\ LamportsConserved'
<1> SUFFICES ASSUME TypeOK, LamportsConserved, [Next]_vars
             PROVE FundsTypeOK' /\ LamportsConserved'
  OBVIOUS
<1> USE NumbersAssumption DEF FundsTypeOK, LamportsConserved, Accounts, U64
<1>0. FundsTypeOK /\ RentMin \in U64
  BY DEF TypeOK
<1>1. CASE UNCHANGED fundVars
  BY <1>0, <1>1 DEF fundVars
<1>2. ASSUME NEW to \in {"Vault", "Config"}, NEW amount \in U64, Deposit(to, amount)
      PROVE FundsTypeOK' /\ LamportsConserved'
  BY <1>0, <1>2 DEF Deposit
<1>3. ASSUME NEW newOwner, NEW newFalcon, NEW newPolicy,
             Initialize(newOwner, newFalcon, newPolicy)
      PROVE FundsTypeOK' /\ LamportsConserved'
  BY <1>0, <1>3 DEF Initialize
<1>4. ASSUME NEW intent \in Intents, NEW sigs \in Signatures, Submit(intent, sigs)
      PROVE FundsTypeOK' /\ LamportsConserved'
  <2>1. ASSUME NEW recipient \in Accounts, TransferSol(intent, sigs, recipient)
        PROVE FundsTypeOK' /\ LamportsConserved'
    <3>1. intent.action.amount \in U64
      BY <2>1, IntentFields DEF TransferSol, TransferKinds
    <3> QED
      BY <1>0, <2>1, <3>1 DEF TransferSol, MoveLamports, RentFloorKept, Transferred
  <2>2. CASE TransferSpl(intent, sigs)
    <3>1. intent.action.amount \in U64
      BY <2>2, IntentFields DEF TransferSpl, TransferKinds
    <3> QED
      BY <1>0, <2>2, <3>1 DEF TransferSpl
  <2>3. CASE SetRecoveryConfig(intent, sigs)
    <3>1. tokens' = tokens
          /\ (balance' = balance
              \/ /\ balance["Wallet"] >= ConfigRent
                 /\ balance' = [balance EXCEPT !["Wallet"] = @ - ConfigRent,
                                               !["Config"] = @ + ConfigRent])
      BY <2>3 DEF SetRecoveryConfig
    <3> QED
      BY <1>0, <3>1
  <2>4. UNCHANGED fundVars \/ SetRecoveryConfig(intent, sigs) \/ TransferSpl(intent, sigs)
        \/ \E recipient \in Accounts : TransferSol(intent, sigs, recipient)
    BY <1>4
    DEF Submit, RotateEd25519, RotateFalcon, ChangePolicy, EnableRecovery,
        DisableRecovery, RecoverEd25519, CancelSocialRecovery
  <2> QED
    BY <1>1, <2>1, <2>2, <2>3, <2>4
<1>5. Tick \/ Propose \/ FinalizeSocialRecovery \/ UNCHANGED vars => UNCHANGED fundVars
  BY DEF Tick, Propose, InitiateSocialRecovery, FinalizeSocialRecovery, vars
<1> QED
  BY <1>1, <1>2, <1>3, <1>4, <1>5 DEF Next, Environment, Create

FundsInv == TypeOK /\ LamportsConserved

LEMMA FundsInit == Init => FundsInv
<1> SUFFICES ASSUME Init PROVE FundsInv
  OBVIOUS
<1> USE KeysAssumption, NumbersAssumption DEF Init
<1>1. 0 \in U64
  BY DEF U64
<1>2. AccountTypeOK
  BY <1>1, NoThresholdType DEF AccountTypeOK, Policies
<1>3. ConfigTypeOK
  BY <1>1 DEF ConfigTypeOK
<1>4. FundsTypeOK /\ LamportsConserved
  BY <1>1 DEF FundsTypeOK, LamportsConserved, Accounts, U64
<1> QED
  BY <1>1, <1>2, <1>3, <1>4 DEF FundsInv, TypeOK

LEMMA SlotType == TypeOK /\ [Next]_vars => slot' \in U64
<1>1. Tick \/ slot' = slot \/ ~[Next]_vars
  BY SubmitFacts
  DEF Next, Environment, Deposit, Create, Initialize, Propose, InitiateSocialRecovery,
      FinalizeSocialRecovery, vars
<1> QED
  BY <1>1, NumbersAssumption DEF TypeOK, Tick, U64

LEMMA FundsInvStep == FundsInv /\ [Next]_vars => FundsInv'
BY AccountTypes, ConfigTypes, FundsStep, SlotType DEF FundsInv, TypeOK

\* The model's variables keep their types, for every instance: in particular
\* the nonce, the ready slot and every balance stay within u64.
THEOREM TypeCorrect == Spec => []TypeOK
<1>1. FundsInv => TypeOK
  BY DEF FundsInv
<1> QED
  BY <1>1, FundsInit, FundsInvStep, PTL DEF Spec

\* Lamports are conserved by every sequence of instructions and deposits.
THEOREM LamportsAreConserved == Spec => []LamportsConserved
<1>1. FundsInv => LamportsConserved
  BY DEF FundsInv
<1> QED
  BY <1>1, FundsInit, FundsInvStep, PTL DEF Spec

\* No sequence of transfers takes the vault below its rent minimum.
THEOREM RentFloorHolds == Spec => []RentFloor
<1>1. FundsInv /\ RentFloor /\ [Next]_vars => RentFloor'
  <2> SUFFICES ASSUME FundsInv, RentFloor, [Next]_vars, created' PROVE balance'["Vault"] >= RentMin
    BY DEF RentFloor
  <2> USE NumbersAssumption DEF U64
  <2>0. balance \in [Accounts -> U64] /\ RentMin \in Nat
    BY DEF FundsInv, TypeOK, FundsTypeOK
  <2>1. CASE created /\ UNCHANGED balance
    BY <2>1 DEF RentFloor
  <2>2. ASSUME NEW to \in {"Vault", "Config"}, NEW amount \in U64, Deposit(to, amount)
        PROVE balance'["Vault"] >= RentMin
    BY <2>0, <2>2 DEF Deposit, RentFloor, accountVars, Accounts
  <2>3. ASSUME NEW newOwner, NEW newFalcon, NEW newPolicy,
               Initialize(newOwner, newFalcon, newPolicy)
        PROVE balance'["Vault"] >= RentMin
    BY <2>0, <2>3 DEF Initialize, Accounts
  <2>4. ASSUME NEW intent \in Intents, NEW sigs \in Signatures, Submit(intent, sigs)
        PROVE balance'["Vault"] >= RentMin
    <3>0. created
      BY <2>4, SubmitFacts
    <3>1. ASSUME NEW recipient \in Accounts, TransferSol(intent, sigs, recipient)
          PROVE balance'["Vault"] >= RentMin
      <4>0. intent.action.kind \in TransferKinds
        BY <3>1 DEF TransferSol, TransferKinds
      <4>1. intent.action.amount \in U64
        BY <2>4, <4>0, IntentFields
      <4> QED
        BY <2>0, <2>1, <3>0, <3>1, <4>1
        DEF TransferSol, MoveLamports, RentFloorKept, Transferred, Accounts
    <3>2. CASE SetRecoveryConfig(intent, sigs)
      <4>1. balance' = balance
            \/ balance' = [balance EXCEPT !["Wallet"] = @ - ConfigRent,
                                          !["Config"] = @ + ConfigRent]
        BY <3>2 DEF SetRecoveryConfig
      <4> QED
        BY <2>0, <3>0, <4>1 DEF RentFloor, Accounts
    <3>3. UNCHANGED balance \/ SetRecoveryConfig(intent, sigs)
          \/ \E recipient \in Accounts : TransferSol(intent, sigs, recipient)
      BY <2>4
      DEF Submit, TransferSpl, RotateEd25519, RotateFalcon, ChangePolicy, EnableRecovery,
          DisableRecovery, RecoverEd25519, CancelSocialRecovery, fundVars
    <3> QED
      BY <2>1, <3>0, <3>1, <3>2, <3>3
  <2>5. Tick \/ Propose \/ FinalizeSocialRecovery \/ UNCHANGED vars
        => created' = created /\ UNCHANGED balance
    BY DEF Tick, Propose, InitiateSocialRecovery, FinalizeSocialRecovery, vars,
           accountVars, fundVars
  <2> QED
    BY <2>1, <2>2, <2>3, <2>4, <2>5 DEF Next, Environment, Create
<1>2. Init => RentFloor
  BY DEF Init, RentFloor
<1> QED
  BY <1>1, <1>2, FundsInit, FundsInvStep, PTL DEF Spec
-----------------------------------------------------------------------------
(* The owner, the nonce and the pending social recovery.                   *)

\* What each instruction but SetRecoveryConfig does to the config: the three
\* ways to touch a pending are to leave it, to drop it, and to drop it with the
\* owner it was made against.
LEMMA SubmitOnConfig ==
  ASSUME NEW intent \in Intents, NEW sigs \in Signatures, Submit(intent, sigs),
         ~SetRecoveryConfig(intent, sigs)
  PROVE  /\ UNCHANGED guardianVars
         /\ \/ UNCHANGED <<owner, pendingVars>>
            \/ owner' = owner /\ ClearPending /\ HasPending /\ SocialRecoveryOpen
            \/ owner' # owner /\ ClearPendingAfterOwnerChange
<1>1. CASE \E recipient \in Accounts : TransferSol(intent, sigs, recipient)
  BY <1>1 DEF TransferSol, configVars, guardianVars, pendingVars
<1>2. CASE TransferSpl(intent, sigs)
  BY <1>2 DEF TransferSpl, configVars, guardianVars, pendingVars
<1>3. CASE RotateEd25519(intent, sigs)
  BY <1>3 DEF RotateEd25519
<1>4. CASE \E newWireKey \in FalconKeys, pop \in FalconSigners :
             RotateFalcon(intent, sigs, newWireKey, pop)
  BY <1>4 DEF RotateFalcon, configVars, guardianVars, pendingVars
<1>5. CASE ChangePolicy(intent, sigs) \/ EnableRecovery(intent, sigs)
             \/ DisableRecovery(intent, sigs)
  BY <1>5 DEF ChangePolicy, EnableRecovery, DisableRecovery,
              configVars, guardianVars, pendingVars
<1>6. CASE RecoverEd25519(intent, sigs)
  BY <1>6 DEF RecoverEd25519
<1>7. CASE CancelSocialRecovery(intent, sigs)
  BY <1>7 DEF CancelSocialRecovery
<1> QED
  BY <1>1, <1>2, <1>3, <1>4, <1>5, <1>6, <1>7 DEF Submit

\* SetRecoveryConfig never leaves a pending where there was none, and leaves no
\* unusable guardian or delay behind.
LEMMA SetRecoveryConfigFacts ==
  ASSUME NEW intent \in Intents, NEW sigs \in Signatures,
         SetRecoveryConfig(intent, sigs)
  PROVE  /\ pendingNew' = ZeroKey /\ owner' = owner
         /\ configCreated => ~HasPending /\ UNCHANGED pendingVars
         /\ guardian' # ZeroKey /\ delaySlots' >= 1
<1>1. owner' = owner /\ guardian' # ZeroKey /\ delaySlots' >= 1
  BY DEF SetRecoveryConfig
<1>2. CASE configCreated
  BY <1>1, <1>2 DEF SetRecoveryConfig, MayReplaceConfig, HasPending, pendingVars
<1>3. CASE ~configCreated
  BY <1>1, <1>3 DEF SetRecoveryConfig
<1> QED
  BY <1>2, <1>3
-----------------------------------------------------------------------------
(* The pending is well formed.                                             *)

\* A proposal copies the config's guardian and delay into the argument for
\* PendingWellFormed, so those must be usable before there is a pending: this
\* is what PendingWellFormed lacks to be inductive.
ConfigWellFormed == configCreated => guardian # ZeroKey /\ delaySlots >= 1

PendingInv == ConfigWellFormed /\ PendingWellFormed

LEMMA PendingInvInit == Init => PendingInv
BY DEF Init, PendingInv, ConfigWellFormed, PendingWellFormed, HasPending

LEMMA PendingInvStep == TypeOK /\ PendingInv /\ [Next]_vars => PendingInv'
<1> SUFFICES ASSUME TypeOK, PendingInv, [Next]_vars PROVE PendingInv'
  OBVIOUS
<1> USE DEF PendingInv, ConfigWellFormed, PendingWellFormed, HasPending
<1>0. /\ slot \in Nat /\ delaySlots \in Nat /\ pendingReadySlot \in Nat
  BY NumbersAssumption DEF TypeOK, ConfigTypeOK, U64
<1>1. ASSUME NEW intent \in Intents, NEW sigs \in Signatures, Submit(intent, sigs)
      PROVE PendingInv'
  <2>0. created' = created /\ slot' = slot /\ created
    BY <1>1, SubmitFacts
  <2>1. CASE SetRecoveryConfig(intent, sigs)
    BY <2>1, SetRecoveryConfigFacts
  <2>2. CASE ~SetRecoveryConfig(intent, sigs)
    <3>1. CASE UNCHANGED <<guardianVars, owner, pendingVars>>
      BY <2>0, <3>1 DEF guardianVars, pendingVars
    <3>2. CASE UNCHANGED guardianVars /\ ClearPending
      BY <3>2 DEF guardianVars, ClearPending
    <3>3. CASE UNCHANGED guardianVars /\ ClearPendingAfterOwnerChange
      BY <3>3 DEF guardianVars, pendingVars, ClearPending, ClearPendingAfterOwnerChange
    <3> QED
      BY <1>1, <2>2, <3>1, <3>2, <3>3, SubmitOnConfig
  <2> QED
    BY <2>1, <2>2
<1>2. CASE Propose
  BY <1>0, <1>2
  DEF Propose, InitiateSocialRecovery, ReadySlot, accountVars, guardianVars
<1>3. CASE FinalizeSocialRecovery
  BY <1>3 DEF FinalizeSocialRecovery, ClearPending, guardianVars
<1>4. CASE Create
  BY <1>4 DEF Create, Initialize, configVars
<1>5. CASE Environment
  BY <1>0, <1>5 DEF Environment, Tick, Deposit, accountVars, configVars
<1>6. CASE UNCHANGED vars
  BY <1>6 DEF vars, accountVars, configVars
<1> QED
  BY <1>1, <1>2, <1>3, <1>4, <1>5, <1>6 DEF Next

\* A pending owner always comes with a config that proposed it and is never
\* the owner the vault already has.
THEOREM PendingIsWellFormed == Spec => []PendingWellFormed
<1>1. PendingInv => PendingWellFormed
  BY DEF PendingInv
<1> QED
  BY <1>1, PendingInvInit, PendingInvStep, TypeCorrect, PTL DEF Spec
-----------------------------------------------------------------------------
(* What a step may never do.                                               *)

\* Whatever changes the owner drops the pending: by any of the three paths, and
\* whether or not the config exists.
THEOREM OwnerChangesDropPending == Spec => OwnerChangeDropsPending
<1>1. PendingInv /\ [Next]_vars => [created /\ owner' # owner => pendingNew' = ZeroKey]_vars
  <2> SUFFICES ASSUME PendingInv, Next, created, owner' # owner
               PROVE pendingNew' = ZeroKey
    OBVIOUS
  <2>1. ASSUME NEW intent \in Intents, NEW sigs \in Signatures, Submit(intent, sigs)
        PROVE pendingNew' = ZeroKey
    <3>1. ClearPendingAfterOwnerChange \/ pendingNew' = ZeroKey
      BY <2>1, SubmitOnConfig, SetRecoveryConfigFacts
    <3>2. ~configCreated => pendingNew = ZeroKey
      BY DEF PendingInv, PendingWellFormed, HasPending
    <3> QED
      BY <3>1, <3>2 DEF ClearPendingAfterOwnerChange, ClearPending, pendingVars
  <2>2. CASE FinalizeSocialRecovery
    BY <2>2 DEF FinalizeSocialRecovery, ClearPending
  <2>3. ~Create
    BY DEF Create, Initialize
  <2>4. Environment \/ Propose => owner' = owner
    BY DEF Environment, Tick, Deposit, Propose, InitiateSocialRecovery, accountVars
  <2> QED
    BY <2>1, <2>2, <2>3, <2>4 DEF Next
<1> QED
  BY <1>1, PendingInvInit, PendingInvStep, TypeCorrect, PTL
  DEF Spec, OwnerChangeDropsPending

\* The nonce never goes back and never skips, and everything it guards is
\* unchanged by a step that leaves it alone.
THEOREM NonceGuards == Spec => NonceGuardsEveryChange
<1> DEFINE Guarded == created =>
             /\ nonce' \in {nonce, nonce + 1}
             /\ nonce' = nonce =>
                  /\ UNCHANGED <<accountVars, guardianVars, tokens>>
                  /\ balance'["Vault"] >= balance["Vault"]
                  /\ HasPending => UNCHANGED pendingVars
<1>1. TypeOK /\ [Next]_vars => [Guarded]_vars
  <2> SUFFICES ASSUME TypeOK, Next, created PROVE Guarded
    OBVIOUS
  <2>0. nonce \in Nat /\ balance \in [Accounts -> Nat] /\ balance["Vault"] \in Nat
    BY NumbersAssumption DEF TypeOK, AccountTypeOK, FundsTypeOK, U64, Accounts
  <2>1. ASSUME NEW intent \in Intents, NEW sigs \in Signatures, Submit(intent, sigs)
        PROVE Guarded
    <3>1. nonce' = nonce + 1
      BY <2>1, SubmitFacts
    <3>2. nonce' # nonce
      BY <2>0, <3>1
    <3> QED
      BY <3>1, <3>2
  <2>2. CASE FinalizeSocialRecovery
    BY <2>0, <2>2 DEF FinalizeSocialRecovery, ConsumeNonce
  <2>3. CASE Propose
    BY <2>0, <2>3 DEF Propose, InitiateSocialRecovery, MayInitiate, fundVars, accountVars
  <2>4. CASE Tick
    BY <2>0, <2>4 DEF Tick, fundVars, accountVars, configVars, guardianVars, pendingVars
  <2>5. ASSUME NEW to \in {"Vault", "Config"}, NEW amount \in U64, Deposit(to, amount)
        PROVE Guarded
    <3>1. balance'["Vault"] >= balance["Vault"]
      BY <2>0, <2>5, NumbersAssumption DEF Deposit, Accounts, U64
    <3> QED
      BY <3>1, <2>5 DEF Deposit, accountVars, configVars, guardianVars, pendingVars
  <2>6. ~Create
    BY DEF Create, Initialize
  <2> QED
    BY <2>1, <2>2, <2>3, <2>4, <2>5, <2>6 DEF Next, Environment
<1> QED
  BY <1>1, TypeCorrect, PTL DEF Spec, NonceGuardsEveryChange

\* At the last nonce the account is frozen instead of the nonce wrapping.
THEOREM FrozenAtTheEnd == Spec => FrozenAtMaxNonce
<1> DEFINE Frozen == created /\ nonce = MaxU64 =>
             /\ UNCHANGED accountVars
             /\ balance'["Vault"] >= balance["Vault"] /\ tokens' = tokens
<1>1. TypeOK /\ [Next]_vars => [Frozen]_vars
  <2> SUFFICES ASSUME TypeOK, Next, created, nonce = MaxU64 PROVE Frozen
    OBVIOUS
  <2>0. balance \in [Accounts -> Nat] /\ balance["Vault"] \in Nat
    BY NumbersAssumption DEF TypeOK, FundsTypeOK, U64, Accounts
  <2>1. ~FinalizeSocialRecovery /\ ~Create
        /\ ~(\E intent \in Intents, sigs \in Signatures : Submit(intent, sigs))
    <3>1. ~(nonce < MaxU64)
      BY NumbersAssumption
    <3> QED
      BY <3>1, SubmitFacts DEF Create, Initialize, FinalizeSocialRecovery, NonceHasSuccessor
  <2>2. CASE Propose \/ Tick
    BY <2>0, <2>2 DEF Propose, InitiateSocialRecovery, Tick, fundVars
  <2>3. ASSUME NEW to \in {"Vault", "Config"}, NEW amount \in U64, Deposit(to, amount)
        PROVE Frozen
    BY <2>0, <2>3, NumbersAssumption DEF Deposit, Accounts, U64
  <2> QED
    BY <2>1, <2>2, <2>3 DEF Next, Environment
<1> QED
  BY <1>1, TypeCorrect, PTL DEF Spec, FrozenAtMaxNonce

\* Once every signed expiry has passed only the guardian's proposal, which has
\* none, can still change the account.
THEOREM ExpiryBindsTheOwner == Spec => OnlyGuardianOutlivesExpiry
<1> DEFINE Outlived == created /\ (\A e \in Expiries : slot > e) =>
       /\ UNCHANGED <<policyVars, recoveryEnabled, falconVars, guardianVars, tokens>>
       /\ balance'["Vault"] >= balance["Vault"]
       /\ owner' \in {owner, pendingNew}
<1>1. TypeOK /\ [Next]_vars => [Outlived]_vars
  <2> SUFFICES ASSUME TypeOK, Next, created, \A e \in Expiries : slot > e PROVE Outlived
    OBVIOUS
  <2>0. balance \in [Accounts -> Nat] /\ balance["Vault"] \in Nat /\ slot \in Nat
    BY NumbersAssumption DEF TypeOK, FundsTypeOK, U64, Accounts
  <2>1. ASSUME NEW intent \in Intents, NEW sigs \in Signatures, Submit(intent, sigs)
        PROVE FALSE
    <3>0. slot <= intent.expiry
      BY <2>1, SubmitFacts
    <3>1. intent.expiry \in Expiries
      BY <2>1, IntentFields
    <3>3. intent.expiry \in U64
      BY <3>1, NumbersAssumption
    <3>2. slot > intent.expiry
      BY <3>1
    <3> QED
      BY <2>0, <3>0, <3>2, <3>3, NumbersAssumption DEF U64
  <2>2. CASE FinalizeSocialRecovery
    BY <2>0, <2>2 DEF FinalizeSocialRecovery, fundVars
  <2>3. CASE Propose \/ Tick
    <3>1. UNCHANGED <<accountVars, guardianVars, fundVars>>
      BY <2>3 DEF Propose, InitiateSocialRecovery, Tick, configVars, guardianVars
    <3> QED
      BY <2>0, <3>1 DEF fundVars, accountVars, policyVars, falconVars
  <2>4. ASSUME NEW to \in {"Vault", "Config"}, NEW amount \in U64, Deposit(to, amount)
        PROVE Outlived
    <3>1. balance'["Vault"] >= balance["Vault"]
      BY <2>0, <2>4, NumbersAssumption DEF Deposit, Accounts, U64
    <3> QED
      BY <3>1, <2>4 DEF Deposit, accountVars, configVars, guardianVars, policyVars, falconVars
  <2>5. ~Create
    BY DEF Create, Initialize
  <2> QED
    BY <2>1, <2>2, <2>3, <2>4, <2>5 DEF Next, Environment
<1> QED
  BY <1>1, TypeCorrect, PTL DEF Spec, OnlyGuardianOutlivesExpiry
-----------------------------------------------------------------------------
(* The policy engine, the stored keys, and what a holder of the keys of    *)
(* one scheme alone can do.                                                *)


LEMMA RequirementType ==
  ASSUME NEW p \in Policies, NEW action, NEW t
  PROVE  SignatureRequirement(p, action, t) \in Requirements
BY DEF SignatureRequirement, Policies, Requirements

\* The stricter of two requirements is satisfied by exactly the signatures that
\* satisfy both: ChangePolicy's use of meet() demands the current and the
\* target policy's consent, and no more (core/src/policy.rs meet).
THEOREM MeetIsConjunction ==
  ASSUME NEW r \in Requirements, NEW s \in Requirements,
         NEW e \in BOOLEAN, NEW f \in BOOLEAN
  PROVE  Satisfied(Meet(r, s), e, f) <=> Satisfied(r, e, f) /\ Satisfied(s, e, f)
<1>1. CASE r = "Either"
  BY <1>1 DEF Satisfied, Meet, Requirements
<1>2. CASE r = "Ed25519"
  BY <1>2 DEF Satisfied, Meet, Requirements
<1>3. CASE r = "Falcon"
  BY <1>3 DEF Satisfied, Meet, Requirements
<1>4. CASE r = "Both"
  BY <1>4 DEF Satisfied, Meet, Requirements
<1> QED
  BY <1>1, <1>2, <1>3, <1>4 DEF Requirements
-----------------------------------------------------------------------------
(* The stored threshold and Falcon key.                                    *)

StoredInv == ThresholdMatchesPolicy /\ FalconKeyMatchesHash

\* What each instruction does to the stored policy and Falcon key.
LEMMA SubmitOnStored ==
  ASSUME NEW intent \in Intents, NEW sigs \in Signatures, Submit(intent, sigs)
  PROVE  /\ \/ UNCHANGED policyVars
            \/ /\ ChangePolicy(intent, sigs)
               /\ policy' = intent.action.policy
               /\ threshold' = TargetThreshold(policy', intent.action.threshold)
         /\ \/ UNCHANGED falconVars
            \/ preparedKey' \in FalconSigners /\ falconKeyHash' = preparedKey'
<1>1. CASE \E newWireKey \in FalconKeys, pop \in FalconSigners :
             RotateFalcon(intent, sigs, newWireKey, pop)
  BY <1>1 DEF RotateFalcon, HashesTo, ProofOfPossession, StoreFalconKey
<1>2. CASE ChangePolicy(intent, sigs)
  BY <1>2 DEF ChangePolicy, StorePolicy
<1>3. CASE UNCHANGED <<policyVars, falconVars>>
  BY <1>3
<1> QED
  BY <1>1, <1>2, <1>3
  DEF Submit, TransferSol, TransferSpl, RotateEd25519, EnableRecovery, DisableRecovery,
      RecoverEd25519, SetRecoveryConfig, CancelSocialRecovery

LEMMA OthersOnStored ==
  ASSUME Environment \/ Propose \/ FinalizeSocialRecovery \/ UNCHANGED vars
  PROVE  UNCHANGED <<created, policyVars, falconVars>>
BY DEF Environment, Tick, Deposit, Propose, InitiateSocialRecovery,
       FinalizeSocialRecovery, vars, accountVars, policyVars, falconVars

LEMMA StoredInvStep == StoredInv /\ [Next]_vars => StoredInv'
<1> SUFFICES ASSUME StoredInv, [Next]_vars PROVE StoredInv'
  OBVIOUS
<1> USE DEF StoredInv, ThresholdMatchesPolicy, FalconKeyMatchesHash
<1>1. CASE UNCHANGED <<policyVars, falconVars>>
  BY <1>1 DEF policyVars, falconVars
<1>2. CASE Create
  BY <1>2 DEF Create, Initialize
<1>3. ASSUME NEW intent \in Intents, NEW sigs \in Signatures, Submit(intent, sigs)
      PROVE StoredInv'
  <2>1. ThresholdMatchesPolicy'
    BY <1>3, SubmitOnStored DEF TargetThreshold, policyVars
  <2>2. FalconKeyMatchesHash'
    BY <1>3, SubmitOnStored DEF falconVars
  <2> QED
    BY <2>1, <2>2
<1> QED
  BY <1>1, <1>2, <1>3, OthersOnStored DEF Next

\* A threshold is stored only under the policy that reads it.
THEOREM ThresholdIsNeverStale == Spec => []ThresholdMatchesPolicy
<1>1. Init => StoredInv
  BY DEF Init, StoredInv, ThresholdMatchesPolicy, FalconKeyMatchesHash
<1>2. StoredInv => ThresholdMatchesPolicy
  BY DEF StoredInv
<1> QED
  BY <1>1, <1>2, StoredInvStep, PTL DEF Spec

\* The published hash and the key the program verifies against are one key's,
\* whichever key the relayer sends beside the signed hash.
THEOREM FalconKeyIsHashed == Spec => []FalconKeyMatchesHash
<1>1. Init => StoredInv
  BY DEF Init, StoredInv, ThresholdMatchesPolicy, FalconKeyMatchesHash
<1>2. StoredInv => FalconKeyMatchesHash
  BY DEF StoredInv
<1> QED
  BY <1>1, <1>2, StoredInvStep, PTL DEF Spec

\* A Falcon key that somebody can sign with is replaced only by another such.
THEOREM FalconKeyRemainsUsable == Spec => FalconKeyStaysUsable
<1>1. [Next]_vars =>
        [created /\ preparedKey \in FalconSigners => preparedKey' \in FalconSigners]_vars
  <2> SUFFICES ASSUME Next, created, preparedKey \in FalconSigners
               PROVE preparedKey' \in FalconSigners
    OBVIOUS
  <2>1. ~Create
    BY DEF Create, Initialize
  <2> QED
    BY <2>1, SubmitOnStored, OthersOnStored DEF Next, falconVars
<1> QED
  BY <1>1, PTL DEF Spec, FalconKeyStaysUsable
-----------------------------------------------------------------------------
(* Instructions that carry no signature but change the account need the    *)
(* recovery flag, and those that carry one need a requirement to be met.   *)

LEMMA MissingSignature ==
  ASSUME TypeOK, NEW intent \in Intents, NEW sigs \in Signatures,
         Submit(intent, sigs)
  PROVE  LET req == EffectiveRequirement(policy, threshold, intent.action)
         IN  /\ preparedKey \notin FalconSigners => req \in {"Ed25519", "Either"}
             /\ owner \notin Ed25519Signers => req \in {"Falcon", "Either"}
             /\ IsFalconRecovery(intent.action) => recoveryEnabled
<1> DEFINE req == EffectiveRequirement(policy, threshold, intent.action)
           same == ReconstructIntent(intent) = intent
<1>1. Satisfied(req, same /\ sigs.ed25519 = owner, same /\ sigs.falcon = preparedKey)
      /\ RecoveryOptedIn(intent.action)
  BY SubmitFacts DEF Authorize
<1>2. owner \in Ed25519Keys /\ preparedKey \in FalconKeys /\ policy \in Policies
  BY DEF TypeOK, AccountTypeOK
<1>3. preparedKey \notin FalconSigners => sigs.falcon # preparedKey
  BY <1>2, KeysAssumption DEF Signatures
<1>4. owner \notin Ed25519Signers => sigs.ed25519 # owner
  BY <1>2, KeysAssumption DEF Signatures
<1>5. req \in Requirements
  <2>1. SignatureRequirement(policy, intent.action, threshold) \in Requirements
    BY <1>2, RequirementType
  <2>2. intent.action.kind = "ChangePolicy" =>
          SignatureRequirement(intent.action.policy, intent.action,
            TargetThreshold(intent.action.policy, intent.action.threshold)) \in Requirements
    BY RequirementType, IntentFields
  <2> QED
    BY <2>1, <2>2 DEF EffectiveRequirement, Meet, Requirements
<1> QED
  BY <1>1, <1>3, <1>4, <1>5 DEF Satisfied, Requirements, RecoveryOptedIn

\* Besides signed intents only these change the vault, and both ask for the flag.
LEMMA UnsignedSteps ==
  ASSUME TypeOK, created, Next
  PROVE  \/ \E intent \in Intents, sigs \in Signatures : Submit(intent, sigs)
         \/ recoveryEnabled /\ (Propose \/ FinalizeSocialRecovery)
         \/ UNCHANGED <<accountVars, configVars>> /\ NothingSpent
<1>1. ~Create
  BY DEF Create, Initialize
<1>2. Propose \/ FinalizeSocialRecovery => recoveryEnabled
  BY DEF Propose, InitiateSocialRecovery, FinalizeSocialRecovery, SocialRecoveryOpen
<1>3. balance \in [Accounts -> Nat] /\ balance["Vault"] \in Nat
  BY NumbersAssumption DEF TypeOK, FundsTypeOK, U64, Accounts
<1>4. CASE Tick
  BY <1>3, <1>4 DEF Tick, NothingSpent, fundVars
<1>5. ASSUME NEW to \in {"Vault", "Config"}, NEW amount \in U64, Deposit(to, amount)
      PROVE UNCHANGED <<accountVars, configVars>> /\ NothingSpent
  BY <1>3, <1>5, NumbersAssumption DEF Deposit, NothingSpent, Accounts, U64
<1> QED
  BY <1>1, <1>2, <1>4, <1>5 DEF Next, Environment
-----------------------------------------------------------------------------
(* HybridAnd against the theft or break of one scheme.                     *)

\* What the property lacks to be inductive: the flag that opens the guardian's
\* path is off.  Nobody turns it on under HybridAnd with one scheme, nor enters
\* HybridAnd from another policy, where it might be on.
HybridAndClosed == created /\ policy = "HybridAnd" => ~recoveryEnabled

LEMMA OneSchemeIsRefused ==
  ASSUME TypeOK, FalconSigners = {} \/ Ed25519Signers = {}, HybridAndClosed,
         NEW intent \in Intents, NEW sigs \in Signatures, Submit(intent, sigs)
  PROVE  /\ policy # "HybridAnd"
         /\ intent.action.kind = "ChangePolicy" => intent.action.policy # "HybridAnd"
<1>1. EffectiveRequirement(policy, threshold, intent.action) # "Both"
      /\ (IsFalconRecovery(intent.action) => recoveryEnabled) /\ created
  BY MissingSignature, SubmitFacts
<1>2. ASSUME policy = "HybridAnd" PROVE FALSE
  <2>1. SignatureRequirement(policy, intent.action, threshold) = "Both"
    BY <1>2 DEF SignatureRequirement
  <2> QED
    BY <1>1, <1>2, <2>1 DEF EffectiveRequirement, Meet, HybridAndClosed
<1>3. ASSUME intent.action.kind = "ChangePolicy", intent.action.policy = "HybridAnd"
      PROVE FALSE
  <2>1. \A t : SignatureRequirement(intent.action.policy, intent.action, t) = "Both"
    BY <1>3 DEF SignatureRequirement
  <2> QED
    BY <1>1, <1>3, <2>1 DEF EffectiveRequirement, Meet, IsFalconRecovery
<1> QED
  BY <1>2, <1>3

LEMMA HybridAndClosedStep ==
  ASSUME FalconSigners = {} \/ Ed25519Signers = {}
  PROVE  TypeOK /\ HybridAndClosed /\ [Next]_vars => HybridAndClosed'
<1> SUFFICES ASSUME TypeOK, HybridAndClosed, [Next]_vars PROVE HybridAndClosed'
  OBVIOUS
<1>1. ASSUME NEW intent \in Intents, NEW sigs \in Signatures, Submit(intent, sigs)
      PROVE HybridAndClosed'
  <2>1. policy # "HybridAnd" /\ (policy' = policy \/ policy' # "HybridAnd")
    <3>1. \/ UNCHANGED policyVars
          \/ intent.action.kind = "ChangePolicy" /\ policy' = intent.action.policy
      BY <1>1, SubmitOnStored DEF ChangePolicy
    <3> QED
      BY <1>1, <3>1, OneSchemeIsRefused DEF policyVars
  <2> QED
    BY <2>1 DEF HybridAndClosed
<1>2. CASE Create
  BY <1>2 DEF Create, Initialize, HybridAndClosed
<1>3. Environment \/ Propose \/ FinalizeSocialRecovery \/ UNCHANGED vars
      => UNCHANGED <<created, policy, recoveryEnabled>>
  BY DEF Environment, Tick, Deposit, Propose, InitiateSocialRecovery,
         FinalizeSocialRecovery, vars, accountVars, policyVars
<1> QED
  BY <1>1, <1>2, <1>3 DEF Next, HybridAndClosed

\* README.md: "Under HybridAnd, theft or break of a single scheme must not
\* authorize spends": with signatures of one scheme only, no sequence of
\* instructions changes anything of a HybridAnd vault or spends from it.
THEOREM HybridAndWithstandsOneScheme ==
  ASSUME FalconSigners = {} \/ Ed25519Signers = {}
  PROVE  Spec => SingleSchemeFreezesHybridAnd
<1>1. TypeOK /\ HybridAndClosed /\ [Next]_vars =>
        [created /\ policy = "HybridAnd" =>
           UNCHANGED <<accountVars, configVars>> /\ NothingSpent]_vars
  <2> SUFFICES ASSUME TypeOK, HybridAndClosed, Next, created, policy = "HybridAnd"
               PROVE UNCHANGED <<accountVars, configVars>> /\ NothingSpent
    OBVIOUS
  <2>1. ~(\E intent \in Intents, sigs \in Signatures : Submit(intent, sigs))
    BY OneSchemeIsRefused
  <2> QED
    BY <2>1, UnsignedSteps DEF HybridAndClosed
<1>2. Init => HybridAndClosed
  BY DEF Init, HybridAndClosed
<1>3. TypeOK /\ HybridAndClosed /\ [Next]_vars => HybridAndClosed'
  BY HybridAndClosedStep
<1> QED
  BY <1>1, <1>2, <1>3, TypeCorrect, PTL DEF Spec, SingleSchemeFreezesHybridAnd
-----------------------------------------------------------------------------
(* Policies whose administration is Falcon's, without a Falcon signature.  *)

\* As HybridAndClosed, for every policy that keeps administration to Falcon.
NoFalconClosed == created /\ policy \in FalconAdminPolicies => ~recoveryEnabled

LEMMA AdminNeedsFalcon ==
  ASSUME NEW p \in FalconAdminPolicies, NEW action, NEW t, action.kind \in AdminKinds
  PROVE  SignatureRequirement(p, action, t) \in {"Falcon", "Both"}
BY DEF SignatureRequirement, FalconAdminPolicies, IsPrivileged, AdminKinds, TransferKinds

LEMMA NoFalconRefused ==
  ASSUME TypeOK, preparedKey \notin FalconSigners,
         NEW intent \in Intents, NEW sigs \in Signatures, Submit(intent, sigs)
  PROVE  /\ policy \in FalconAdminPolicies => intent.action.kind \notin AdminKinds
         /\ intent.action.kind = "ChangePolicy" =>
              intent.action.policy \notin FalconAdminPolicies
<1>1. /\ EffectiveRequirement(policy, threshold, intent.action) \notin {"Falcon", "Both"}
      /\ ~IsFalconRecovery(intent.action)
  BY MissingSignature DEF EffectiveRequirement
<1>2. ASSUME policy \in FalconAdminPolicies, intent.action.kind \in AdminKinds
      PROVE FALSE
  <2>1. SignatureRequirement(policy, intent.action, threshold) \in {"Falcon", "Both"}
    BY <1>2, AdminNeedsFalcon
  <2>2. \A r : Meet(SignatureRequirement(policy, intent.action, threshold), r)
                \in {"Falcon", "Both"}
    BY <2>1 DEF Meet
  <2> QED
    BY <1>1, <2>1, <2>2 DEF EffectiveRequirement
<1>3. ASSUME intent.action.kind = "ChangePolicy",
             intent.action.policy \in FalconAdminPolicies
      PROVE FALSE
  <2> DEFINE t == TargetThreshold(intent.action.policy, intent.action.threshold)
  <2>1. SignatureRequirement(intent.action.policy, intent.action, t) \in {"Falcon", "Both"}
    BY <1>3, AdminNeedsFalcon DEF AdminKinds
  <2>2. \A r : Meet(r, SignatureRequirement(intent.action.policy, intent.action, t))
                \in {"Falcon", "Both"}
    BY <2>1 DEF Meet
  <2> QED
    BY <1>1, <1>3, <2>2 DEF EffectiveRequirement
<1> QED
  BY <1>2, <1>3

\* What an accepted instruction of a kind that is not administrative does.
LEMMA OnlyTransfers ==
  ASSUME NEW intent \in Intents, NEW sigs \in Signatures, Submit(intent, sigs),
         intent.action.kind \notin AdminKinds
  PROVE  /\ UNCHANGED <<policyVars, recoveryEnabled, owner, falconVars, configVars>>
         /\ \/ \E recipient \in Accounts : TransferSol(intent, sigs, recipient)
            \/ TransferSpl(intent, sigs)
BY DEF Submit, TransferSol, TransferSpl, RotateEd25519, RotateFalcon, ChangePolicy,
       EnableRecovery, DisableRecovery, RecoverEd25519, SetRecoveryConfig,
       CancelSocialRecovery, AdminKinds

LEMMA NoFalconClosedStep ==
  ASSUME FalconSigners = {}
  PROVE  TypeOK /\ NoFalconClosed /\ [Next]_vars => NoFalconClosed'
<1> SUFFICES ASSUME TypeOK, NoFalconClosed, [Next]_vars PROVE NoFalconClosed'
  OBVIOUS
<1>1. ASSUME NEW intent \in Intents, NEW sigs \in Signatures, Submit(intent, sigs)
      PROVE NoFalconClosed'
  <2>1. created' = created
    BY <1>1, SubmitFacts
  <2>2. CASE intent.action.kind \notin AdminKinds
    BY <1>1, <2>1, <2>2, OnlyTransfers DEF NoFalconClosed, policyVars
  <2>3. CASE intent.action.kind \in AdminKinds
    <3>1. policy \notin FalconAdminPolicies
      BY <1>1, <2>3, NoFalconRefused
    <3>2. \/ UNCHANGED policyVars
          \/ intent.action.kind = "ChangePolicy" /\ policy' = intent.action.policy
      BY <1>1, SubmitOnStored DEF ChangePolicy
    <3> QED
      BY <1>1, <3>1, <3>2, NoFalconRefused DEF NoFalconClosed, policyVars
  <2> QED
    BY <2>2, <2>3
<1>2. CASE Create
  BY <1>2 DEF Create, Initialize, NoFalconClosed
<1>3. Environment \/ Propose \/ FinalizeSocialRecovery \/ UNCHANGED vars
      => UNCHANGED <<created, policy, recoveryEnabled>>
  BY DEF Environment, Tick, Deposit, Propose, InitiateSocialRecovery,
         FinalizeSocialRecovery, vars, accountVars, policyVars
<1> QED
  BY <1>1, <1>2, <1>3 DEF Next, NoFalconClosed

\* Without a Falcon signature, policy, keys, recovery flag and guardian of such
\* a vault are what they are for ever.
THEOREM FalconKeepsAdministration ==
  ASSUME FalconSigners = {}
  PROVE  Spec => NoFalconNoAdministration
<1>1. TypeOK /\ NoFalconClosed /\ [Next]_vars =>
        [created /\ policy \in FalconAdminPolicies =>
           UNCHANGED <<policyVars, recoveryEnabled, owner, falconVars, configVars>>]_vars
  <2> SUFFICES ASSUME TypeOK, NoFalconClosed, Next, created, policy \in FalconAdminPolicies
               PROVE UNCHANGED <<policyVars, recoveryEnabled, owner, falconVars, configVars>>
    OBVIOUS
  <2>1. ASSUME NEW intent \in Intents, NEW sigs \in Signatures, Submit(intent, sigs)
        PROVE UNCHANGED <<policyVars, recoveryEnabled, owner, falconVars, configVars>>
    BY <2>1, NoFalconRefused, OnlyTransfers
  <2>2. UNCHANGED <<accountVars, configVars>> =>
          UNCHANGED <<policyVars, recoveryEnabled, owner, falconVars, configVars>>
    BY DEF accountVars, policyVars, falconVars
  <2> QED
    BY <2>1, <2>2, UnsignedSteps DEF NoFalconClosed
<1>2. Init => NoFalconClosed
  BY DEF Init, NoFalconClosed
<1>3. TypeOK /\ NoFalconClosed /\ [Next]_vars => NoFalconClosed'
  BY NoFalconClosedStep
<1> QED
  BY <1>1, <1>2, <1>3, TypeCorrect, PTL DEF Spec, NoFalconNoAdministration

\* What a step under a policy that leaves administration to Falcon may spend.
SpendingBound ==
  /\ policy \in {"FalconOnly", "HybridAnd"} => NothingSpent
  /\ policy = "FalconAboveThreshold" =>
       /\ balance["Vault"] <= balance'["Vault"] + threshold.value
       /\ tokens <= tokens' + threshold.value

LEMMA FundsAreNumbers ==
  ASSUME TypeOK
  PROVE  /\ balance \in [Accounts -> Nat] /\ balance["Vault"] \in Nat /\ tokens \in Nat
         /\ threshold.value \in Nat
BY NumbersAssumption DEF TypeOK, FundsTypeOK, AccountTypeOK, Thresholds, U64, Accounts

LEMMA NothingSpentIsBounded ==
  ASSUME TypeOK, TypeOK', NothingSpent
  PROVE  SpendingBound
<1>1. balance'["Vault"] \in Nat /\ tokens' \in Nat
  BY NumbersAssumption DEF TypeOK, FundsTypeOK, U64, Accounts
<1> QED
  BY <1>1, FundsAreNumbers DEF NothingSpent, SpendingBound

LEMMA SubmitSpendsWithinBound ==
  ASSUME TypeOK, TypeOK', preparedKey \notin FalconSigners,
         NEW intent \in Intents, NEW sigs \in Signatures, Submit(intent, sigs)
  PROVE  SpendingBound
<1>1. CASE policy \in {"FalconOnly", "HybridAnd", "FalconAboveThreshold"}
  <2>1. /\ intent.action.kind \in TransferKinds
        /\ \/ \E recipient \in Accounts : TransferSol(intent, sigs, recipient)
           \/ TransferSpl(intent, sigs)
    BY <1>1, NoFalconRefused, OnlyTransfers
    DEF TransferSol, TransferSpl, TransferKinds, FalconAdminPolicies
  <2>2. intent.action.amount \in U64
    BY <2>1, IntentFields, NumbersAssumption
  <2>3. EffectiveRequirement(policy, threshold, intent.action) \in {"Ed25519", "Either"}
    BY MissingSignature
  <2>4. EffectiveRequirement(policy, threshold, intent.action)
          = SignatureRequirement(policy, intent.action, threshold)
    BY <2>1 DEF EffectiveRequirement, IsFalconRecovery, TransferKinds
  <2>5. policy = "FalconAboveThreshold"
    BY <1>1, <2>3, <2>4 DEF SignatureRequirement
  <2>6. ~OverThreshold(intent.action.amount, threshold)
    BY <2>1, <2>3, <2>4, <2>5 DEF SignatureRequirement
  <2>7. intent.action.amount <= threshold.value
    BY FundsAreNumbers, <2>2, <2>6, NumbersAssumption DEF OverThreshold, U64
  <2>8. CASE TransferSpl(intent, sigs)
    BY FundsAreNumbers, <2>2, <2>5, <2>7, <2>8, NumbersAssumption
    DEF TransferSpl, SpendingBound, U64
  <2>9. ASSUME NEW recipient \in Accounts, TransferSol(intent, sigs, recipient)
        PROVE SpendingBound
    BY FundsAreNumbers, <2>2, <2>5, <2>7, <2>9, NumbersAssumption
    DEF TransferSol, MoveLamports, Transferred, Accounts, SpendingBound, U64
  <2> QED
    BY <2>1, <2>8, <2>9
<1> QED
  BY <1>1 DEF SpendingBound

\* Without a Falcon signature a FalconOnly vault spends nothing, and one under
\* FalconAboveThreshold at most the threshold in each instruction.
THEOREM FalconBoundsSpending ==
  ASSUME FalconSigners = {}
  PROVE  Spec => NoFalconSpendingBounded
<1> DEFINE Bounded ==
      created =>
       /\ policy = "FalconOnly" => NothingSpent
       /\ policy = "FalconAboveThreshold" =>
            /\ balance["Vault"] <= balance'["Vault"] + threshold.value
            /\ tokens <= tokens' + threshold.value
<1>1. FundsInv /\ FundsInv' /\ NoFalconClosed /\ [Next]_vars => [Bounded]_vars
  <2> SUFFICES ASSUME TypeOK, TypeOK', NoFalconClosed, Next, created PROVE Bounded
    BY DEF FundsInv
  <2>1. ASSUME NEW intent \in Intents, NEW sigs \in Signatures, Submit(intent, sigs)
        PROVE SpendingBound
    BY <2>1, SubmitSpendsWithinBound
  <2>2. policy \notin FalconAdminPolicies => Bounded
    BY DEF FalconAdminPolicies
  <2>3. policy \in FalconAdminPolicies => SpendingBound
    BY <2>1, UnsignedSteps, NothingSpentIsBounded DEF NoFalconClosed
  <2> QED
    BY <2>2, <2>3 DEF SpendingBound
<1>2. Init => NoFalconClosed
  BY DEF Init, NoFalconClosed
<1>3. TypeOK /\ NoFalconClosed /\ [Next]_vars => NoFalconClosed'
  BY NoFalconClosedStep
<1> QED
  BY <1>1, <1>2, <1>3, FundsInit, FundsInvStep, TypeCorrect, PTL
  DEF Spec, NoFalconSpendingBounded
-----------------------------------------------------------------------------
(* Whoever lacks one of the two keys of the vault, whatever else they hold. *)

\* The only instruction under which the owner's signature is not needed.
LEMMA NoEd25519Refused ==
  ASSUME TypeOK, owner \notin Ed25519Signers,
         NEW intent \in Intents, NEW sigs \in Signatures, Submit(intent, sigs)
  PROVE  /\ policy \in Ed25519Policies => IsFalconRecovery(intent.action)
         /\ intent.action.kind = "ChangePolicy" =>
              intent.action.policy \notin Ed25519Policies
<1> DEFINE target == intent.action.policy
           t == TargetThreshold(target, intent.action.threshold)
<1>1. EffectiveRequirement(policy, threshold, intent.action) \notin {"Ed25519", "Both"}
  BY MissingSignature
<1>2. \A p \in Ed25519Policies : \A th :
        SignatureRequirement(p, intent.action, th) \in {"Ed25519", "Both"}
  BY DEF SignatureRequirement, Ed25519Policies
<1>3. \A r, q : r \in {"Ed25519", "Both"} =>
        Meet(r, q) \in {"Ed25519", "Both"} /\ Meet(q, r) \in {"Ed25519", "Both"}
  BY DEF Meet
<1>4. ASSUME policy \in Ed25519Policies, ~IsFalconRecovery(intent.action) PROVE FALSE
  BY <1>1, <1>2, <1>3, <1>4 DEF EffectiveRequirement
<1>5. ASSUME intent.action.kind = "ChangePolicy", target \in Ed25519Policies PROVE FALSE
  BY <1>1, <1>2, <1>3, <1>5 DEF EffectiveRequirement, IsFalconRecovery
<1> QED
  BY <1>4, <1>5

\* What recovery, by Falcon or by the guardian, changes: at most the owner, the
\* pending proposal and the nonce.
OwnerOnly == UNCHANGED <<policyVars, recoveryEnabled, falconVars, guardianVars, fundVars>>

LEMMA RecoverySteps ==
  /\ Propose \/ FinalizeSocialRecovery =>
       recoveryEnabled /\ OwnerOnly /\ owner' \in {owner, pendingNew}
  /\ \A intent \in Intents, sigs \in Signatures :
       Submit(intent, sigs) /\ IsFalconRecovery(intent.action) => OwnerOnly
<1>1. Propose => recoveryEnabled /\ OwnerOnly /\ owner' = owner
  BY DEF Propose, InitiateSocialRecovery, SocialRecoveryOpen, OwnerOnly, accountVars,
         policyVars, falconVars
<1>2. FinalizeSocialRecovery => recoveryEnabled /\ OwnerOnly /\ owner' = pendingNew
  BY DEF FinalizeSocialRecovery, SocialRecoveryOpen, OwnerOnly
<1>3. ASSUME NEW intent \in Intents, NEW sigs \in Signatures, Submit(intent, sigs),
             IsFalconRecovery(intent.action)
      PROVE OwnerOnly
  <2>1. RecoverEd25519(intent, sigs)
    BY <1>3 DEF IsFalconRecovery, Submit, TransferSol, TransferSpl, RotateEd25519,
                RotateFalcon, ChangePolicy, EnableRecovery, DisableRecovery,
                SetRecoveryConfig, CancelSocialRecovery
  <2> QED
    BY <2>1 DEF RecoverEd25519, OwnerOnly
<1> QED
  BY <1>1, <1>2, <1>3

LEMMA FundsKept ==
  ASSUME TypeOK, UNCHANGED fundVars
  PROVE  NothingSpent
BY FundsAreNumbers DEF fundVars, NothingSpent

LEMMA SubmitWithoutFalconKey ==
  ASSUME TypeOK, TypeOK',
         NEW intent \in Intents, NEW sigs \in Signatures, Submit(intent, sigs)
  PROVE  WithoutFalconKey
<1> SUFFICES ASSUME preparedKey \notin FalconSigners PROVE WithoutFalconKey
  BY DEF WithoutFalconKey
<1>1. {policy, policy'} \cap FalconAdminPolicies # {} => UNCHANGED policyVars
  <2>1. CASE UNCHANGED policyVars
    BY <2>1
  <2>2. CASE intent.action.kind = "ChangePolicy" /\ policy' = intent.action.policy
    BY <2>2, NoFalconRefused DEF AdminKinds
  <2> QED
    BY <2>1, <2>2, SubmitOnStored DEF ChangePolicy
<1>2. policy \in FalconAdminPolicies =>
        UNCHANGED <<policyVars, recoveryEnabled, owner, falconVars, configVars>>
  BY NoFalconRefused, OnlyTransfers
<1>3. SpendingBound
  BY SubmitSpendsWithinBound
<1> QED
  BY <1>1, <1>2, <1>3
  DEF WithoutFalconKey, SpendingBound, configVars, guardianVars, pendingVars

LEMMA SubmitWithoutEd25519Key ==
  ASSUME TypeOK,
         NEW intent \in Intents, NEW sigs \in Signatures, Submit(intent, sigs)
  PROVE  WithoutEd25519Key
<1> SUFFICES ASSUME owner \notin Ed25519Signers PROVE WithoutEd25519Key
  BY DEF WithoutEd25519Key
<1>1. {policy, policy'} \cap Ed25519Policies # {} => UNCHANGED policyVars
  <2>1. CASE UNCHANGED policyVars
    BY <2>1
  <2>2. CASE intent.action.kind = "ChangePolicy" /\ policy' = intent.action.policy
    BY <2>2, NoEd25519Refused DEF IsFalconRecovery
  <2> QED
    BY <2>1, <2>2, SubmitOnStored DEF ChangePolicy
<1>2. policy \in Ed25519Policies => OwnerOnly /\ recoveryEnabled
  BY NoEd25519Refused, RecoverySteps, MissingSignature
<1> QED
  BY <1>1, <1>2, FundsKept DEF WithoutEd25519Key, OwnerOnly

LEMMA OtherStepsWithoutKey ==
  ASSUME TypeOK, TypeOK', \/ (Propose \/ FinalizeSocialRecovery)
                          \/ UNCHANGED <<accountVars, configVars>> /\ NothingSpent
  PROVE  WithoutFalconKey /\ WithoutEd25519Key
<1>1. CASE Propose \/ FinalizeSocialRecovery
  <2>1. recoveryEnabled /\ OwnerOnly /\ owner' \in {owner, pendingNew} /\ NothingSpent
    BY <1>1, RecoverySteps, FundsKept DEF OwnerOnly
  <2> QED
    BY <2>1, NothingSpentIsBounded
    DEF WithoutFalconKey, WithoutEd25519Key, SpendingBound, OwnerOnly
<1>2. CASE UNCHANGED <<accountVars, configVars>> /\ NothingSpent
  <2>1. SpendingBound
    BY <1>2, NothingSpentIsBounded
  <2> QED
    BY <1>2, <2>1
    DEF WithoutFalconKey, WithoutEd25519Key, SpendingBound, accountVars, configVars,
        policyVars, falconVars, guardianVars, pendingVars
<1> QED
  BY <1>1, <1>2

\* Whoever lacks one key of the vault, whichever other keys sign, keeps to what
\* the policy leaves to the other key, and cannot talk the vault into a policy
\* that asks for the missing one.  Nothing is assumed of who holds what.
THEOREM OneKeyDoesNotSuffice == Spec => OneKeyIsNotEnough
<1>1. FundsInv /\ FundsInv' /\ [Next]_vars =>
        [created => WithoutFalconKey /\ WithoutEd25519Key]_vars
  <2> SUFFICES ASSUME TypeOK, TypeOK', Next, created
               PROVE WithoutFalconKey /\ WithoutEd25519Key
    BY DEF FundsInv
  <2>1. ASSUME NEW intent \in Intents, NEW sigs \in Signatures, Submit(intent, sigs)
        PROVE WithoutFalconKey /\ WithoutEd25519Key
    BY <2>1, SubmitWithoutFalconKey, SubmitWithoutEd25519Key
  <2> QED
    BY <2>1, UnsignedSteps, OtherStepsWithoutKey
<1> QED
  BY <1>1, FundsInit, FundsInvStep, PTL DEF Spec, OneKeyIsNotEnough
-----------------------------------------------------------------------------
(* What relates an instruction to earlier ones, seen in VaultHistory.      *)

\* History never constrains a step, so what is known of the program's steps
\* holds of these.
LEMMA HNextIsNext == [HNext]_hvars => [Next]_vars
BY DEF HNext, Next, Create, Propose, hvars

\* The digest is taken over the stored nonce, and every requirement asks for at
\* least one signature over it: whatever was accepted was signed for this nonce.
LEMMA SignedForThisNonce ==
  ASSUME TypeOK, NEW intent \in Intents, NEW sigs \in Signatures, Submit(intent, sigs)
  PROVE  intent.nonce = nonce
<1> DEFINE same == ReconstructIntent(intent) = intent
           req == EffectiveRequirement(policy, threshold, intent.action)
<1>1. Satisfied(req, same /\ sigs.ed25519 = owner, same /\ sigs.falcon = preparedKey)
  BY SubmitFacts DEF Authorize
<1>2. req \in Requirements
  <2>1. SignatureRequirement(policy, intent.action, threshold) \in Requirements
    BY RequirementType DEF TypeOK, AccountTypeOK
  <2>2. intent.action.kind = "ChangePolicy" =>
          SignatureRequirement(intent.action.policy, intent.action,
            TargetThreshold(intent.action.policy, intent.action.threshold)) \in Requirements
    BY RequirementType, IntentFields
  <2> QED
    BY <2>1, <2>2 DEF EffectiveRequirement, Meet, Requirements
<1>3. same
  BY <1>1, <1>2 DEF Satisfied, Requirements
<1> QED
  BY <1>3 DEF ReconstructIntent, Intents
-----------------------------------------------------------------------------
(* The numbers.                                                            *)

SkippedPast == \A n \in skipped : created /\ n < nonce

\* Why no guardian signature starts a second proposal: a nonce that started one
\* is the present one only while that proposal is pending.
StartedOnce ==
  \A n \in U64 :
    /\ started[n] <= 1
    /\ started[n] > 0 => created /\ n <= nonce /\ (n = nonce => HasPending)

NumbersInv ==
  /\ FundsInv /\ PendingInv /\ HistoryTypeOK
  /\ SkippedPast /\ EachNonceConsumedOnce /\ StartedOnce

LEMMA NumbersInit == HInit => NumbersInv
<1> SUFFICES ASSUME HInit PROVE NumbersInv
  OBVIOUS
<1> USE DEF HInit
<1>1. FundsInv /\ PendingInv
  BY FundsInit, PendingInvInit
<1>2. HistoryTypeOK
  BY KeysAssumption, NumbersAssumption DEF HistoryTypeOK, Proposals, U64
<1>3. SkippedPast /\ EachNonceConsumedOnce /\ StartedOnce
  BY DEF Init, SkippedPast, EachNonceConsumedOnce, StartedOnce
<1> QED
  BY <1>1, <1>2, <1>3 DEF NumbersInv

LEMMA NumbersStep == NumbersInv /\ [HNext]_hvars => NumbersInv'
<1> SUFFICES ASSUME NumbersInv, [HNext]_hvars PROVE NumbersInv'
  OBVIOUS
<1>0. FundsInv' /\ PendingInv' /\ TypeOK
  BY HNextIsNext, FundsInvStep, PendingInvStep DEF NumbersInv, FundsInv
<1>1. nonce \in U64 /\ slot \in U64 /\ U64 \subseteq Nat
  BY <1>0, NumbersAssumption DEF TypeOK, AccountTypeOK, U64
<1> USE DEF NumbersInv, HistoryTypeOK, SkippedPast, EachNonceConsumedOnce, StartedOnce
<1>2. ASSUME NEW intent \in Intents, NEW sigs \in Signatures,
             Submit(intent, sigs), Consume(intent.nonce)
      PROVE NumbersInv'
  <2>1. intent.nonce = nonce
    BY <1>0, <1>2, SignedForThisNonce
  <2>2. created /\ created' /\ nonce' = nonce + 1
    BY <1>2, SubmitFacts
  <2>3. consumed' = [consumed EXCEPT ![nonce] = @ + 1]
        /\ UNCHANGED <<skipped, started, proposal>>
    BY <1>2, <2>1 DEF Consume
  <2> QED
    BY <1>0, <1>1, <2>2, <2>3
<1>3. ASSUME NEW new \in Ed25519Keys, NEW signer \in Ed25519Signers, NEW signedNonce \in U64,
             InitiateSocialRecovery(new, signer, signedNonce),
             started' = [started EXCEPT ![signedNonce] = @ + 1],
             proposal' = [new |-> new, owner |-> owner, guardian |-> signer,
                          delay |-> delaySlots, slot |-> slot],
             UNCHANGED <<consumed, skipped>>
      PROVE NumbersInv'
  <2>1. created /\ created' /\ nonce' = nonce /\ signedNonce = nonce
        /\ ~HasPending /\ HasPending'
    BY <1>3 DEF InitiateSocialRecovery, MayInitiate, HasPending, accountVars
  <2>2. proposal' \in Proposals
    BY <1>0, <1>1, <1>3, KeysAssumption DEF Proposals, TypeOK, AccountTypeOK, ConfigTypeOK
  <2> QED
    BY <1>0, <1>1, <1>3, <2>1, <2>2
<1>4. CASE FinalizeSocialRecovery /\ Skip(nonce)
  <2>1. created /\ created' /\ nonce' = nonce + 1
    BY <1>4 DEF FinalizeSocialRecovery, ConsumeNonce
  <2> QED
    BY <1>0, <1>1, <1>4, <2>1 DEF Skip
<1>5. CASE Create /\ UNCHANGED history
  <2>1. ~created /\ created' /\ nonce' = 0
    BY <1>5 DEF Create, Initialize
  <2> QED
    BY <1>0, <1>1, <1>5, <2>1 DEF history
<1>6. CASE (Environment /\ UNCHANGED history) \/ UNCHANGED hvars
  <2>1. UNCHANGED <<accountVars, configVars, history>>
    BY <1>6 DEF Environment, Tick, Deposit, hvars, vars
  <2> QED
    BY <1>0, <2>1 DEF history, accountVars, configVars, HasPending
<1> QED
  BY <1>2, <1>3, <1>4, <1>5, <1>6 DEF HNext

\* Every nonce below the stored one was used up by exactly one signed intent or
\* skipped by one Finalize, and no other was used: an intent executes at most
\* once.
THEOREM NoncesAreConsumedOnce == HSpec => []EachNonceConsumedOnce
<1>1. NumbersInv => EachNonceConsumedOnce
  BY DEF NumbersInv
<1> QED
  BY <1>1, NumbersInit, NumbersStep, PTL DEF HSpec

\* No guardian signature starts a second proposal, though it has no expiry and
\* Initiate leaves the nonce alone.
THEOREM GuardianSignaturesStartOne == HSpec => []GuardianSignatureStartsOne
<1>1. NumbersInv => GuardianSignatureStartsOne
  BY DEF NumbersInv, StartedOnce, GuardianSignatureStartsOne
<1> QED
  BY <1>1, NumbersInit, NumbersStep, PTL DEF HSpec
-----------------------------------------------------------------------------
(* The proposal behind a pending.                                          *)

\* Until the account exists its nonce is the one it starts with.
HistoryInv == NumbersInv /\ PendingIsLastProposal /\ (~created => nonce = 0)

LEMMA HistoryInit == HInit => HistoryInv
BY NumbersInit
DEF HInit, Init, HistoryInv, PendingIsLastProposal, HasPending

LEMMA HistoryStep == HistoryInv /\ [HNext]_hvars => HistoryInv'
<1> SUFFICES ASSUME HistoryInv, [HNext]_hvars
             PROVE PendingIsLastProposal' /\ (~created' => nonce' = 0)
  BY NumbersStep DEF HistoryInv
<1> USE DEF PendingIsLastProposal
<1>0. PendingIsLastProposal /\ PendingWellFormed /\ (~created => nonce = 0)
  BY DEF HistoryInv, NumbersInv, PendingInv
<1>1. ASSUME NEW intent \in Intents, NEW sigs \in Signatures,
             Submit(intent, sigs), Consume(intent.nonce)
      PROVE PendingIsLastProposal' /\ created'
  <2>0. created' /\ proposal' = proposal
    BY <1>1, SubmitFacts DEF Consume
  <2>1. CASE SetRecoveryConfig(intent, sigs)
    BY <2>0, <2>1, SetRecoveryConfigFacts DEF HasPending
  <2>2. CASE ~SetRecoveryConfig(intent, sigs)
    <3>1. UNCHANGED <<guardianVars, owner, pendingVars>> \/ ~HasPending'
      BY <1>0, <1>1, <2>2, SubmitOnConfig
      DEF PendingWellFormed, HasPending, ClearPending, ClearPendingAfterOwnerChange,
          pendingVars
    <3> QED
      BY <1>0, <2>0, <3>1 DEF guardianVars, pendingVars, HasPending
  <2> QED
    BY <2>1, <2>2
<1>2. ASSUME NEW new \in Ed25519Keys, NEW signer \in Ed25519Signers, NEW signedNonce \in U64,
             InitiateSocialRecovery(new, signer, signedNonce),
             proposal' = [new |-> new, owner |-> owner, guardian |-> signer,
                          delay |-> delaySlots, slot |-> slot]
      PROVE PendingIsLastProposal' /\ created'
  BY <1>2 DEF InitiateSocialRecovery, ReadySlot, accountVars, guardianVars
<1>3. CASE FinalizeSocialRecovery
  BY <1>3 DEF FinalizeSocialRecovery, ClearPending, HasPending
<1>4. CASE Create
  <2>1. ~HasPending' /\ created'
    BY <1>0, <1>4 DEF Create, Initialize, configVars, PendingWellFormed, HasPending
  <2> QED
    BY <2>1
<1>5. CASE (Environment /\ UNCHANGED history) \/ UNCHANGED hvars
  <2>1. UNCHANGED <<accountVars, configVars, history>>
    BY <1>5 DEF Environment, Tick, Deposit, hvars, vars
  <2> QED
    BY <1>0, <2>1 DEF history, accountVars, configVars, HasPending
<1> QED
  BY <1>1, <1>2, <1>3, <1>4, <1>5 DEF HNext

\* A pending is exactly the last accepted proposal, made by the guardian still
\* in force, under the delay still in force, against the present owner.
THEOREM PendingIsTheLastProposal == HSpec => []PendingIsLastProposal
<1>1. HistoryInv => PendingIsLastProposal
  BY DEF HistoryInv
<1> QED
  BY <1>1, HistoryInit, HistoryStep, PTL DEF HSpec

\* No key is installed by finalize before the whole delay has passed since the
\* guardian in force proposed it against the owner in force.
THEOREM TimelockIsHonoured == HSpec => TimelockHonoured
<1> DEFINE Honoured == FinalizeSocialRecovery =>
             /\ owner' = proposal.new
             /\ slot >= proposal.slot + delaySlots
             /\ proposal.guardian = guardian
             /\ proposal.owner = owner
<1>1. HistoryInv => Honoured
  BY DEF HistoryInv, PendingIsLastProposal, FinalizeSocialRecovery, TimelockElapsed
<1> QED
  BY <1>1, HistoryInit, HistoryStep, PTL DEF HSpec, TimelockHonoured

\* While recovery is disabled nothing is proposed or finalized: only a signed
\* intent, which uses up the nonce, replaces the owner or drops the pending, and
\* then does both.
THEOREM DisabledMeansInert == HSpec => DisabledRecoveryIsInert
<1> DEFINE SignedChange == /\ owner' # owner /\ pendingNew' = ZeroKey
                           /\ consumed' = [consumed EXCEPT ![nonce] = @ + 1]
           Inert == /\ started' = started
                    /\ pendingNew' \in {pendingNew, ZeroKey}
                    /\ <<owner, pendingNew>>' # <<owner, pendingNew>> => SignedChange
<1>1. HistoryInv /\ [HNext]_hvars => [created /\ ~recoveryEnabled => Inert]_hvars
  <2> SUFFICES ASSUME HistoryInv, HNext, created, ~recoveryEnabled PROVE Inert
    OBVIOUS
  <2>1. TypeOK /\ PendingInv
    BY DEF HistoryInv, NumbersInv, FundsInv
  <2>2. ~(Create \/ Propose \/ FinalizeSocialRecovery)
    BY DEF Create, Initialize, Propose, InitiateSocialRecovery, FinalizeSocialRecovery,
           SocialRecoveryOpen
  <2>3. ASSUME NEW intent \in Intents, NEW sigs \in Signatures,
               Submit(intent, sigs), Consume(intent.nonce)
        PROVE Inert
    <3>1. started' = started /\ consumed' = [consumed EXCEPT ![nonce] = @ + 1]
      BY <2>1, <2>3, SignedForThisNonce DEF Consume
    <3>2. \/ UNCHANGED <<owner, pendingNew>>
          \/ owner' # owner /\ pendingNew' = ZeroKey
      <4>1. CASE SetRecoveryConfig(intent, sigs)
        <5>1. owner' = owner
          BY <4>1 DEF SetRecoveryConfig
        <5> QED
          BY <2>1, <4>1, <5>1 DEF SetRecoveryConfig, PendingInv, PendingWellFormed, HasPending,
             pendingVars
      <4>2. CASE ~SetRecoveryConfig(intent, sigs)
        BY <2>1, <2>3, <4>2, SubmitOnConfig
        DEF SocialRecoveryOpen, ClearPendingAfterOwnerChange, ClearPending, pendingVars,
            PendingInv, PendingWellFormed, HasPending
      <4> QED
        BY <4>1, <4>2
    <3> QED
      BY <3>1, <3>2
  <2>4. CASE Environment /\ UNCHANGED history
    BY <2>4 DEF Environment, Tick, Deposit, accountVars, configVars, history
  <2> QED
    BY <2>2, <2>3, <2>4 DEF HNext, Propose
<1> QED
  BY <1>1, HistoryInit, HistoryStep, PTL DEF HSpec, DisabledRecoveryIsInert
-----------------------------------------------------------------------------
(* The program implements TimelockedOwner.                                 *)

\* A signed intent uses up the next number and, whatever it does, is one of the
\* four things that the account's signatures may do.
LEMMA SubmitImplements ==
  ASSUME HistoryInv, NEW intent \in Intents, NEW sigs \in Signatures,
         Submit(intent, sigs), Consume(intent.nonce)
  PROVE  Promised!Next
<1> DEFINE used == {n \in U64 : consumed[n] > 0}
<1>0. TypeOK /\ TypeOK' /\ HistoryTypeOK /\ PendingWellFormed /\ U64 \subseteq Nat
  <2>1. [Next]_vars
    BY DEF Next
  <2> QED
    BY <2>1, FundsInvStep, NumbersAssumption
    DEF HistoryInv, NumbersInv, FundsInv, PendingInv, U64
<1>1. created /\ created' /\ nonce' = nonce + 1 /\ slot' = slot /\ intent.nonce = nonce
  BY <1>0, SubmitFacts, SignedForThisNonce
<1>2. UNCHANGED <<skipped, started, proposal>>
      /\ consumed' = [consumed EXCEPT ![nonce] = @ + 1]
  BY <1>1 DEF Consume
<1>3. used' = used \cup {nonce}
  BY <1>0, <1>2 DEF HistoryTypeOK, TypeOK, AccountTypeOK
<1>4. Promised!Sign
  BY <1>1, <1>2, <1>3 DEF Promised!Sign
<1>5. CASE SetRecoveryConfig(intent, sigs)
  <2>1. ~HasPending /\ ~HasPending' /\ owner' = owner
        /\ guardian' # ZeroKey /\ delaySlots' >= 1
    BY <1>0, <1>5, SetRecoveryConfigFacts DEF PendingWellFormed, HasPending
  <2>2. guardian' \in Ed25519Keys \ {ZeroKey} /\ delaySlots' \in Nat \ {0}
    BY <1>0, <2>1 DEF TypeOK, ConfigTypeOK
  <2>3. Promised!SetTerms
    BY <1>4, <2>1, <2>2 DEF Promised!SetTerms, Promised!NoRequest
  <2> QED
    BY <2>3 DEF Promised!Next
<1>6. CASE ~SetRecoveryConfig(intent, sigs)
  <2>1. UNCHANGED <<guardian, delaySlots>>
    BY <1>6, SubmitOnConfig DEF guardianVars
  <2>2. CASE UNCHANGED <<owner, pendingVars>>
    <3>1. Promised!Use
      BY <1>2, <1>4, <2>1, <2>2 DEF Promised!Use, Promised!termsVars, HasPending, pendingVars
    <3> QED
      BY <3>1 DEF Promised!Next
  <2>3. CASE owner' = owner /\ ClearPending /\ HasPending
    <3>1. ~HasPending' /\ pendingNew # ZeroKey
      BY <2>3 DEF ClearPending, HasPending
    <3>2. Promised!Withdraw
      BY <1>4, <2>1, <2>3, <3>1
      DEF Promised!Withdraw, Promised!NoRequest, Promised!termsVars
    <3> QED
      BY <3>2 DEF Promised!Next
  <2>4. CASE owner' # owner /\ ClearPendingAfterOwnerChange
    <3>1. ~HasPending'
      BY <1>0, <2>4
      DEF PendingWellFormed, HasPending, ClearPending, ClearPendingAfterOwnerChange,
          pendingVars
    <3>2. owner' \in Ed25519Keys \ {owner}
      BY <1>0, <2>4 DEF TypeOK, AccountTypeOK
    <3>3. Promised!Replace
      BY <1>4, <2>1, <3>1, <3>2
      DEF Promised!Replace, Promised!NoRequest, Promised!termsVars
    <3> QED
      BY <3>3 DEF Promised!Next
  <2> QED
    BY <1>6, <2>2, <2>3, <2>4, SubmitOnConfig
<1> QED
  BY <1>5, <1>6

LEMMA ProposeImplements ==
  ASSUME HistoryInv, NEW new \in Ed25519Keys, NEW signer \in Ed25519Signers,
         NEW signedNonce \in U64, InitiateSocialRecovery(new, signer, signedNonce),
         started' = [started EXCEPT ![signedNonce] = @ + 1],
         proposal' = [new |-> new, owner |-> owner, guardian |-> signer,
                      delay |-> delaySlots, slot |-> slot],
         UNCHANGED <<consumed, skipped>>
  PROVE  Promised!Ask
<1> DEFINE asked == {n \in U64 : started[n] > 0}
<1>0. HistoryTypeOK /\ ConfigWellFormed /\ StartedOnce /\ nonce \in U64
  BY DEF HistoryInv, NumbersInv, PendingInv, FundsInv, TypeOK, AccountTypeOK
<1>1. /\ created /\ configCreated /\ signedNonce = nonce /\ ~HasPending
      /\ new \notin {ZeroKey, owner} /\ pendingNew' = new
      /\ UNCHANGED <<created, owner, nonce, guardian, delaySlots, slot>>
  BY DEF InitiateSocialRecovery, MayInitiate, accountVars, guardianVars
<1>2. nonce \notin asked
  BY <1>0, <1>1 DEF StartedOnce
<1>3. asked' = asked \cup {nonce}
  BY <1>0, <1>1 DEF HistoryTypeOK
<1>4. HasPending' /\ guardian # ZeroKey
  BY <1>0, <1>1 DEF HasPending, ConfigWellFormed
<1> QED
  BY <1>1, <1>2, <1>3, <1>4
  DEF Promised!Ask, Promised!NoRequest, Promised!termsVars, Promised!numberVars

LEMMA FinalizeImplements ==
  ASSUME HistoryInv, FinalizeSocialRecovery, Skip(nonce)
  PROVE  Promised!Take
<1>1. HasPending /\ ~HasPending' /\ pendingNew # ZeroKey
      /\ owner' = pendingNew /\ nonce' = nonce + 1
      /\ UNCHANGED <<created, guardian, delaySlots, slot>>
  BY DEF FinalizeSocialRecovery, ClearPending, ConsumeNonce, HasPending, guardianVars
<1>2. slot >= proposal.slot + delaySlots
  BY <1>1 DEF HistoryInv, PendingIsLastProposal, FinalizeSocialRecovery, TimelockElapsed
<1> QED
  BY <1>1, <1>2 DEF Promised!Take, Promised!NoRequest, Promised!termsVars, Skip

\* Every step of the program, with its history, is a step of TimelockedOwner or
\* leaves what that speaks of alone.
LEMMA StepImplements == HistoryInv /\ [HNext]_hvars => [Promised!Next]_Promised!vars
<1> SUFFICES ASSUME HistoryInv, [HNext]_hvars PROVE Promised!Next \/ UNCHANGED Promised!vars
  OBVIOUS
<1>1. CASE UNCHANGED <<created, owner, guardian, delaySlots, pendingNew, nonce, slot, history>>
  BY <1>1
  DEF Promised!vars, Promised!termsVars, Promised!numberVars, HasPending, history
<1>2. CASE UNCHANGED hvars
  BY <1>1, <1>2 DEF hvars, vars, accountVars, configVars
<1>3. CASE Environment /\ UNCHANGED history
  <2>1. CASE Tick
    <3>1. Promised!Wait
      BY <1>3, <2>1
      DEF Tick, accountVars, configVars, history, HasPending,
          Promised!Wait, Promised!termsVars, Promised!numberVars
    <3> QED
      BY <3>1 DEF Promised!Next
  <2>2. CASE \E to \in {"Vault", "Config"}, amount \in U64 : Deposit(to, amount)
    BY <1>1, <1>3, <2>2 DEF Deposit, accountVars, configVars
  <2> QED
    BY <1>3, <2>1, <2>2 DEF Environment
<1>4. CASE Create /\ UNCHANGED history
  <2>1. ~created /\ created' /\ nonce' = nonce /\ owner' \in Ed25519Keys
        /\ UNCHANGED <<guardian, delaySlots, pendingNew, slot>>
    BY <1>4 DEF HistoryInv, Create, Initialize, configVars
  <2>2. Promised!Open
    BY <1>4, <2>1
    DEF Promised!Open, Promised!termsVars, Promised!numberVars, history, HasPending
  <2> QED
    BY <2>2 DEF Promised!Next
<1> QED
  BY <1>2, <1>3, <1>4, SubmitImplements, ProposeImplements, FinalizeImplements
  DEF HNext, Promised!Next

\* The whole program changes the owner in no other way than TimelockedOwner
\* does: by signatures whose nonce is then used up for ever, or by the
\* guardian's request after the whole delay that it was made under.
THEOREM ImplementsTimelockedOwner == HSpec => OwnerIsTimelocked
<1>1. HInit => Promised!Init
  BY KeysAssumption DEF HInit, Init, Promised!Init, Promised!NoRequest, HasPending
<1> QED
  BY <1>1, HistoryInit, HistoryStep, StepImplements, PTL
  DEF HSpec, OwnerIsTimelocked, Promised!Spec
=============================================================================
