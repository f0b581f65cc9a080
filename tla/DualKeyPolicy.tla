--------------------------- MODULE DualKeyPolicy ---------------------------
(***************************************************************************)
(* The policy engine: which signature schemes an action needs.             *)
(*                                                                         *)
(* Pure operators translated from core/src/policy.rs, core/src/intent.rs,  *)
(* program/src/auth/policy.rs and program/src/authorize.rs.  An action is  *)
(* a record whose field "kind" names the Rust variant; its other fields    *)
(* are that variant's own.  Operators whose name starts with "Bug" are     *)
(* deliberate faults: the project replaces the definition that follows one *)
(* by it, to see that the checked properties notice.                       *)
(***************************************************************************)
EXTENDS Naturals

Policies == {"Ed25519Only", "FalconOnly", "HybridAnd", "HybridOr",
             "FalconForPrivileged", "FalconAboveThreshold"}

Requirements == {"Either", "Ed25519", "Falcon", "Both"}

RecoveryOps == {"Enable", "Disable", "RotateEd25519"}

TransferKinds == {"TransferSol", "TransferSpl"}

AdminKinds == {"RotateEd25519Key", "RotateFalconKey", "ChangePolicy",
               "RecoverAccount", "SetRecoveryConfig", "CancelSocialRecovery"}

\* The account's optional threshold: a flag bit, and a field that is zeroed
\* whenever the flag is cleared.
NoThreshold == [set |-> FALSE, value |-> 0]
SomeThreshold(v) == [set |-> TRUE, value |-> v]
TargetThreshold(policy, v) ==
  IF policy = "FalconAboveThreshold" THEN SomeThreshold(v) ELSE NoThreshold

\* The stricter of two requirements (a join by strictness; the code says meet).
BugMeetKeepsFirst(r, s) == IF r = "Either" THEN s ELSE r
Meet(r, s) == IF r = s \/ s = "Either" THEN r
              ELSE IF r = "Either" THEN s
              ELSE "Both"

IsPrivileged(action) == action.kind \in AdminKinds

BugOverThreshold(amount, threshold) ==
  amount < IF threshold.set THEN threshold.value ELSE 0
OverThreshold(amount, threshold) ==
  amount > IF threshold.set THEN threshold.value ELSE 0

SignatureRequirement(policy, action, threshold) ==
  CASE policy = "Ed25519Only" -> "Ed25519"
    [] policy = "FalconOnly" -> "Falcon"
    [] policy = "HybridAnd" -> "Both"
    [] policy = "HybridOr" -> "Either"
    [] policy = "FalconForPrivileged" ->
         IF IsPrivileged(action) THEN "Falcon" ELSE "Ed25519"
    [] policy = "FalconAboveThreshold" ->
         IF action.kind \in TransferKinds
         THEN IF OverThreshold(action.amount, threshold) THEN "Falcon" ELSE "Ed25519"
         ELSE "Falcon"

IsFalconRecovery(action) ==
  action.kind = "RecoverAccount" /\ action.op = "RotateEd25519"

\* Falcon-alone recovery stands apart from the policy; ChangePolicy must
\* satisfy the current and the target policy; every other action the current.
EffectiveRequirement(policy, threshold, action) ==
  LET current == SignatureRequirement(policy, action, threshold)
  IN  IF IsFalconRecovery(action) THEN "Falcon"
      ELSE IF action.kind = "ChangePolicy"
           THEN Meet(current,
                     SignatureRequirement(action.policy, action,
                       TargetThreshold(action.policy, action.threshold)))
           ELSE current

BugSatisfied(req, ed25519Valid, falconValid) ==
  IF req = "Falcon" THEN falconValid ELSE ed25519Valid \/ falconValid
\* evaluate_requirement on the validity bits that collect_signatures returns.
Satisfied(req, ed25519Valid, falconValid) ==
  CASE req = "Ed25519" -> ed25519Valid
    [] req = "Falcon" -> falconValid
    [] req = "Both" -> ed25519Valid /\ falconValid
    [] req = "Either" -> ed25519Valid \/ falconValid
============================================================================
