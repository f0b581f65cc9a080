---------------------------- MODULE VaultHistory ----------------------------
(***************************************************************************)
(* HybridVault with history variables, for what relates an instruction to  *)
(* earlier ones: each signature's use, and the proposal behind a pending.  *)
(* The history never constrains a step.                                    *)
(***************************************************************************)
EXTENDS HybridVault

VARIABLES
  consumed,   \* consumed[n]: signed intents accepted that used up nonce n
  skipped,    \* the nonces that Finalize used up, with no signature
  started,    \* started[n]: proposals accepted on a guardian signature for n
  proposal    \* the last proposal accepted, with what was in force then

history == <<consumed, skipped, started, proposal>>
hvars == <<vars, history>>

Proposals == [new: Ed25519Keys, owner: Ed25519Keys, guardian: Ed25519Keys,
              delay: U64, slot: U64]
HistoryTypeOK ==
  /\ consumed \in [U64 -> Nat] /\ skipped \subseteq U64
  /\ started \in [U64 -> Nat] /\ proposal \in Proposals

HInit ==
  /\ Init
  /\ consumed = [n \in U64 |-> 0] /\ skipped = {}
  /\ started = [n \in U64 |-> 0]
  /\ proposal = [new |-> ZeroKey, owner |-> ZeroKey, guardian |-> ZeroKey,
                 delay |-> 0, slot |-> 0]

Consume(n) ==
  /\ consumed' = [consumed EXCEPT ![n] = @ + 1]
  /\ UNCHANGED <<skipped, started, proposal>>

Skip(n) ==
  /\ skipped' = skipped \cup {n}
  /\ UNCHANGED <<consumed, started, proposal>>

HNext ==
  \/ (Environment \/ Create) /\ UNCHANGED history
  \/ \E intent \in Intents, sigs \in Signatures :
       Submit(intent, sigs) /\ Consume(intent.nonce)
  \/ \E new \in Ed25519Keys, signer \in Ed25519Signers, signedNonce \in U64 :
       /\ InitiateSocialRecovery(new, signer, signedNonce)
       /\ started' = [started EXCEPT ![signedNonce] = @ + 1]
       /\ proposal' = [new |-> new, owner |-> owner, guardian |-> signer,
                       delay |-> delaySlots, slot |-> slot]
       /\ UNCHANGED <<consumed, skipped>>
  \/ FinalizeSocialRecovery /\ Skip(nonce)

HSpec == HInit /\ [][HNext]_hvars

\* The clock keeps advancing, and since FinalizeSocialRecovery needs no
\* signature, anyone who wants it to happen can submit it for as long as it
\* is accepted.  Nobody is obliged to do anything else.
HFairSpec ==
  /\ HSpec
  /\ WF_hvars(Tick /\ UNCHANGED history)
  /\ WF_hvars(FinalizeSocialRecovery /\ Skip(nonce))
-----------------------------------------------------------------------------
\* threat-model.md row 5, "Intent executes at most once", in the stronger form
\* the nonce counter gives: each nonce below the stored one was used up by
\* exactly one signed intent or skipped by one Finalize, and no other was used
\* at all, so no signed intent is executed twice, nor two intents signed for
\* the same nonce, nor one whose nonce a Finalize took away.
EachNonceConsumedOnce ==
  \A n \in U64 :
    consumed[n] = IF created /\ n < nonce /\ n \notin skipped THEN 1 ELSE 0

\* Initiate does not consume the nonce its signature names, and that signature
\* has no expiry.  Still no guardian signature starts a second proposal: while
\* the first is pending it is refused, and every way to end a pending moves
\* the nonce on.
GuardianSignatureStartsOne ==
  \A n \in U64 : started[n] <= 1

\* A pending is exactly the last accepted proposal: its guardian, its delay
\* and the owner it was made against are those still in force.
PendingIsLastProposal ==
  HasPending =>
    /\ pendingNew = proposal.new
    /\ pendingReadySlot = proposal.slot + proposal.delay
    /\ proposal.guardian = guardian /\ proposal.delay = delaySlots
    /\ proposal.owner = owner

\* threat-model.md row 17, "Social recover waits timelock": a key is installed
\* by finalize only if the guardian in force proposed it, against the owner in
\* force, and the whole configured delay has passed since.
TimelockHonoured ==
  [][FinalizeSocialRecovery =>
       /\ owner' = proposal.new
       /\ slot >= proposal.slot + delaySlots
       /\ proposal.guardian = guardian
       /\ proposal.owner = owner]_hvars

\* While recovery is disabled no proposal is made and none is finalized, also
\* not one left pending by Disable: the pending is dropped, and the owner
\* replaced, only by a signed intent, which used up the nonce, and both in one.
DisabledRecoveryIsInert ==
  [][created /\ ~recoveryEnabled =>
       /\ started' = started
       /\ pendingNew' \in {pendingNew, ZeroKey}
       /\ <<owner, pendingNew>>' # <<owner, pendingNew>> =>
            /\ owner' # owner /\ pendingNew' = ZeroKey
            /\ consumed' = [consumed EXCEPT ![nonce] = @ + 1]]_hvars
-----------------------------------------------------------------------------
\* The vault as its owner sees it: the request is the last proposal for as long
\* as it is pending, and a number is used by a signature or skipped.
Promised == INSTANCE TimelockedOwner WITH
  Keys <- Ed25519Keys, NoKey <- ZeroKey,
  open <- created, holder <- owner, delay <- delaySlots,
  request <- IF HasPending THEN [new |-> pendingNew, at |-> proposal.slot]
             ELSE [new |-> ZeroKey, at |-> 0],
  next <- nonce,
  used <- {n \in U64 : consumed[n] > 0}, asked <- {n \in U64 : started[n] > 0},
  clock <- slot

\* The whole program, every instruction in any order, changes the owner in no
\* other way than TimelockedOwner does: by signatures whose nonce is used up for
\* ever, or by the guardian's request after the delay that it was made under.
OwnerIsTimelocked == Promised!Spec
============================================================================
