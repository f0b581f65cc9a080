---------------------------- MODULE AccountLists ----------------------------
(***************************************************************************)
(* The accounts an instruction names.  The client lists them in the order  *)
(* the program expects (client/src/onchain.rs); a relayer may submit the   *)
(* signed intent with any other list; each handler matches the length,     *)
(* takes the accounts by position and checks what they are.  Whether the   *)
(* signature that it needs is there, it asks Introspection's way.          *)
(*                                                                         *)
(* Vault A is the one that the signature names.  Everything on vault B     *)
(* invites a mix-up: it has a config with a pending proposal.  The vaults' *)
(* stored values let every instruction through, but for what has to do     *)
(* with accounts; their effect is HybridVault's matter.  The token         *)
(* accounts of TransferSpl are SplTransfer's.                              *)
(*                                                                         *)
(* A transaction says once for each key whether it signs and whether it    *)
(* may be written.  Only the payer signs: the relayer, or the client.      *)
(***************************************************************************)
EXTENDS Introspection, Sequences

CONSTANT MaxListEdits   \* bound on the relayer's edits of one list

ASSUME ListAssumption == MaxListEdits \in Nat

VARIABLES
  kind,       \* the instruction, or "none": only the precompile is looked at
  keys,       \* the accounts that it names
  writable,   \* the keys the transaction may write
  scheme,     \* of the one signature that the policy of the vaults asks for
  signed,     \* whether that signature, over the intent, is carried
  configA,    \* "absent", "idle" or "pending"
  foreign,    \* what the data of a foreign program's account looks like
  listEdits,
  outcome,    \* "none" before processing, "refused" or "done"
  effects     \* what was changed

listVars == <<kind, keys, writable, scheme, signed, configA, foreign, listEdits>>
avars == <<vars, listVars, outcome, effects>>

Addresses == {"VaultA", "VaultB", "ConfigA", "ConfigB", "PayerVault", "WalletVault",
              "Payer", "Wallet", "Foreign", "System", "Sysvar"}
Existing == {"VaultA", "VaultB", "ConfigB"} \cup (IF configA = "absent" THEN {} ELSE {"ConfigA"})

\* The runtime's view of an account.
OwnedByProgram(key) == key \in Existing
Data(key) ==
  CASE key \in {"VaultA", "VaultB"} -> "vault"
    [] key \in {"ConfigA", "ConfigB"} /\ key \in Existing -> "config"
    [] key = "Foreign" -> foreign
    [] OTHER -> "empty"
HasPendingAt(key) == key = "ConfigB" \/ (key = "ConfigA" /\ configA = "pending")

\* Addresses derived from seeds (core/src/state.rs and recovery.rs).
RecoveryConfigOf(key) ==
  CASE key = "VaultA" -> "ConfigA" [] key = "VaultB" -> "ConfigB" [] OTHER -> "elsewhere"
VaultOf(creator) ==
  CASE creator = "Payer" -> "PayerVault" [] creator = "Wallet" -> "WalletVault"
    [] OTHER -> "elsewhere"
-----------------------------------------------------------------------------
(* What the client builds.                                                 *)

ClientList ==
  [Initialize |-> <<"Payer", "PayerVault", "System">>,
   TransferSol |-> <<"VaultA", "Wallet", "Sysvar">>,
   RotateEd25519Key |-> <<"VaultA", "ConfigA", "Sysvar">>,
   RotateFalconKey |-> <<"VaultA", "Sysvar">>,
   ChangePolicy |-> <<"VaultA", "Sysvar">>,
   SwitchRecovery |-> <<"VaultA", "Sysvar">>,
   RecoverEd25519 |-> <<"VaultA", "ConfigA", "Sysvar">>,
   SetRecoveryConfig |-> <<"VaultA", "ConfigA", "Payer", "System", "Sysvar">>,
   InitiateSocialRecovery |-> <<"VaultA", "ConfigA", "Sysvar">>,
   FinalizeSocialRecovery |-> <<"VaultA", "ConfigA">>,
   CancelSocialRecovery |-> <<"VaultA", "ConfigA", "Sysvar">>]

Kinds == DOMAIN ClientList

ClientWritable(k) ==
  {ClientList[k][i] : i \in DOMAIN ClientList[k]} \cap
    IF k = "InitiateSocialRecovery" THEN {"ConfigA", "Payer"}
    ELSE {"VaultA", "ConfigA", "PayerVault", "Payer", "Wallet"}
-----------------------------------------------------------------------------
(* The handlers.                                                           *)

\* The slice pattern each handler matches its accounts with.
Pattern ==
  [Initialize |-> <<"creator", "hybrid", "system">>,
   TransferSol |-> <<"hybrid", "recipient", "sysvar">>,
   RotateEd25519Key |-> <<"hybrid", "config", "sysvar">>,
   RotateFalconKey |-> <<"hybrid", "sysvar">>,
   ChangePolicy |-> <<"hybrid", "sysvar">>,
   SwitchRecovery |-> <<"hybrid", "sysvar">>,
   RecoverEd25519 |-> <<"hybrid", "config", "sysvar">>,
   SetRecoveryConfig |-> <<"hybrid", "config", "payer", "system", "sysvar">>,
   InitiateSocialRecovery |-> <<"hybrid", "config", "sysvar">>,
   FinalizeSocialRecovery |-> <<"hybrid", "config">>,
   CancelSocialRecovery |-> <<"hybrid", "config", "sysvar">>]

Matched == Len(keys) = Len(Pattern[kind])
The(role) == keys[CHOOSE i \in DOMAIN keys : Pattern[kind][i] = role]

BugNeedsWritable(role) == The(role) \in writable /\ The("hybrid") \in writable
NeedsWritable(role) == The(role) \in writable

BugIsItsConfig == TRUE
\* verify_recovery_config_pda().
IsItsConfig == The("config") = RecoveryConfigOf(The("hybrid"))

\* verify_ed25519_precompile(): the id of the sysvar is checked first; another
\* account could hold whatever a precompile's data would.
Ed25519Verified == The("sysvar") = "Sysvar" /\ VerifyEd25519Precompile

\* The digest is rebuilt over the address of the account that was named.  What
\* replaces a lost Ed25519 key is Falcon's alone, whatever the policy.
Authorized ==
  /\ OwnedByProgram(The("hybrid"))
  /\ Data(The("hybrid")) = "vault"
  /\ The("hybrid") = "VaultA"
  /\ IF scheme = "Falcon" THEN signed ELSE kind # "RecoverEd25519" /\ Ed25519Verified

\* clear_pending_after_ed25519_owner_change().
MayClearPending ==
  /\ IsItsConfig
  /\ Data(The("config")) # "empty" =>
       OwnedByProgram(The("config")) /\ NeedsWritable("config")

PendingCleared ==
  IF Data(The("config")) = "empty" THEN {} ELSE {<<"pending", The("config")>>}

BothOwned == OwnedByProgram(The("hybrid")) /\ OwnedByProgram(The("config"))

Checked ==
  CASE kind = "Initialize" ->
         /\ The("creator") = "Payer" /\ The("system") = "System"
         /\ The("hybrid") = VaultOf(The("creator")) /\ Data(The("hybrid")) = "empty"
    [] kind = "TransferSol" ->
         /\ NeedsWritable("hybrid") /\ NeedsWritable("recipient")
         /\ The("recipient") = "Wallet" /\ The("recipient") # The("hybrid")
         /\ Authorized
    [] kind \in {"RotateEd25519Key", "RecoverEd25519"} ->
         NeedsWritable("hybrid") /\ Authorized /\ MayClearPending
    [] kind \in {"RotateFalconKey", "ChangePolicy", "SwitchRecovery"} ->
         NeedsWritable("hybrid") /\ Authorized
    [] kind = "SetRecoveryConfig" ->
         /\ NeedsWritable("hybrid") /\ NeedsWritable("config")
         /\ The("payer") = "Payer" /\ The("system") = "System"
         /\ OwnedByProgram(The("hybrid")) /\ Data(The("hybrid")) = "vault"
         /\ IsItsConfig
         /\ Authorized
         /\ Data(The("config")) # "empty" =>
              OwnedByProgram(The("config")) /\ ~HasPendingAt(The("config"))
    [] kind = "InitiateSocialRecovery" ->
         /\ NeedsWritable("config")
         /\ BothOwned /\ IsItsConfig
         /\ Data(The("hybrid")) = "vault"
         /\ The("hybrid") = "VaultA" /\ Ed25519Verified
         /\ ~HasPendingAt(The("config"))
    [] kind = "FinalizeSocialRecovery" ->
         /\ NeedsWritable("hybrid") /\ NeedsWritable("config")
         /\ BothOwned /\ IsItsConfig
         /\ Data(The("hybrid")) = "vault"
         /\ HasPendingAt(The("config"))
    [] kind = "CancelSocialRecovery" ->
         /\ NeedsWritable("hybrid") /\ NeedsWritable("config")
         /\ BothOwned /\ IsItsConfig
         /\ Authorized
         /\ HasPendingAt(The("config"))

\* What it then changes, and where.
Changes ==
  CASE kind = "Initialize" ->
         {<<"created", The("hybrid")>>, <<"debited", The("creator")>>}
    [] kind = "TransferSol" ->
         {<<"nonce", The("hybrid")>>, <<"debited", The("hybrid")>>,
          <<"credited", The("recipient")>>}
    [] kind \in {"RotateEd25519Key", "RecoverEd25519"} ->
         {<<"nonce", The("hybrid")>>, <<"owner", The("hybrid")>>} \cup PendingCleared
    [] kind \in {"RotateFalconKey", "ChangePolicy", "SwitchRecovery"} ->
         {<<"nonce", The("hybrid")>>, <<"settings", The("hybrid")>>}
    [] kind = "SetRecoveryConfig" ->
         {<<"nonce", The("hybrid")>>, <<"guardian", The("config")>>}
           \cup IF Data(The("config")) = "empty" THEN {<<"debited", The("payer")>>} ELSE {}
    [] kind = "InitiateSocialRecovery" -> {<<"pending", The("config")>>}
    [] kind = "FinalizeSocialRecovery" ->
         {<<"nonce", The("hybrid")>>, <<"owner", The("hybrid")>>, <<"pending", The("config")>>}
    [] kind = "CancelSocialRecovery" ->
         {<<"nonce", The("hybrid")>>, <<"pending", The("config")>>}
-----------------------------------------------------------------------------
ClientHeader == [program |-> "Ed25519", signatures |-> 1, size |-> "digest",
                 signatureIn |-> "self", keyIn |-> "self", messageIn |-> "self"]

\* Either the transaction is anything but names no instruction of the vault,
\* or it carries the client's precompile, or none, and any list.
ListInit ==
  /\ listEdits = 0 /\ outcome = "none" /\ effects = {}
  /\ \/ /\ Init
        /\ kind = "none" /\ keys = <<>> /\ writable = {} /\ scheme = "Ed25519"
        /\ signed = FALSE /\ configA = "absent" /\ foreign = "vault"
     \/ /\ kind \in Kinds
        /\ keys = ClientList[kind] /\ writable = ClientWritable(kind) \cup {"Payer"}
        /\ scheme \in {"Ed25519", "Falcon"} /\ signed \in BOOLEAN
        /\ configA \in {"absent", "idle", "pending"} /\ foreign \in {"vault", "config"}
        /\ accepted = "pending"
        /\ made = {OwnerSignature}
        /\ previous = [ClientHeader EXCEPT !.program = IF signed THEN "Ed25519" ELSE "Unrelated"]
        /\ data = [p \in Places |-> [key |-> owner, signature |-> OwnerSignature,
                                     message |-> OwnerSignature.over]]

EditList ==
  /\ kind # "none" /\ outcome = "none" /\ listEdits < MaxListEdits
  /\ listEdits' = listEdits + 1
  /\ \/ \E i \in DOMAIN keys, k \in Addresses :
          /\ keys' = [keys EXCEPT ![i] = k]
          /\ writable' \in {writable, writable \cup ({k} \ {"System", "Sysvar"})}
     \/ keys # <<>> /\ keys' = SubSeq(keys, 1, Len(keys) - 1) /\ UNCHANGED writable
     \/ \E k \in Addresses : keys' = Append(keys, k) /\ UNCHANGED writable
     \/ \E k \in Addresses \ {"Payer", "System", "Sysvar"} :
          /\ writable' = IF k \in writable THEN writable \ {k} ELSE writable \cup {k}
          /\ UNCHANGED keys
  /\ UNCHANGED <<vars, kind, scheme, signed, configA, foreign, outcome, effects>>

\* The runtime refuses to change what may not be written.
Process ==
  /\ kind # "none" /\ outcome = "none"
  /\ outcome' = IF /\ Matched /\ Checked
                   /\ \A change \in Changes : change[2] \in writable
                THEN "done" ELSE "refused"
  /\ effects' = IF outcome' = "done" THEN Changes ELSE {}
  /\ UNCHANGED <<vars, listVars>>

ListNext ==
  \/ kind = "none" /\ Next /\ UNCHANGED <<listVars, outcome, effects>>
  \/ EditList
  \/ Process

ListSpec == ListInit /\ [][ListNext]_avars
-----------------------------------------------------------------------------
ChangedAt(field) == {change[2] : change \in {c \in effects : c[1] = field}}

\* Whatever list the relayer makes up, an instruction changes one vault and
\* that vault's own config.  If a signature is needed, it is the vault that the
\* signature names, and the signature is there.  A new owner of a vault that
\* has a config always leaves that config without a pending, so that naming
\* another one does not keep a proposal alive.
OnlyTheNamedVault ==
  outcome = "done" =>
    \E vault \in {"VaultA", "VaultB", "PayerVault"} :
      /\ \A field \in {"nonce", "owner", "settings", "created"} :
           ChangedAt(field) \subseteq {vault}
      /\ ChangedAt("pending") \cup ChangedAt("guardian") \subseteq {RecoveryConfigOf(vault)}
      /\ kind \notin {"Initialize", "FinalizeSocialRecovery"} => vault = "VaultA" /\ signed
      /\ ChangedAt("owner") # {} /\ RecoveryConfigOf(vault) \in Existing =>
           RecoveryConfigOf(vault) \in ChangedAt("pending")
      /\ ChangedAt("debited") \subseteq {vault, "Payer"}
      /\ ChangedAt("credited") \subseteq {"Wallet"}

\* The list the client builds is the one that the handler expects: position,
\* length and what may be written agree for every instruction.  It is refused
\* only for a signature that is missing, or not Falcon's where that is asked
\* for, and for what the vaults hold.
ClientListIsAccepted ==
  listEdits = 0 /\ outcome = "refused" =>
    \/ ~signed
    \/ kind = "RecoverEd25519" /\ scheme = "Ed25519"
    \/ kind = "InitiateSocialRecovery" /\ (configA # "idle")
    \/ kind = "SetRecoveryConfig" /\ configA = "pending"
    \/ kind \in {"FinalizeSocialRecovery", "CancelSocialRecovery"} /\ configA # "pending"
============================================================================
