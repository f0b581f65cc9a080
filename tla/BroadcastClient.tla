-------------------------- MODULE BroadcastClient --------------------------
(***************************************************************************)
(* The command-line client's path from a command to a confirmed            *)
(* transaction (client/src/submit.rs, client/src/rpc.rs), run by several   *)
(* operators against one vault through an RPC node of a cluster that may   *)
(* lose, delay, fork away or fail what it was sent.                        *)
(*                                                                         *)
(* Of the vault only its nonce and whether a recovery is pending matter    *)
(* here (HybridVault has the rest): what is signed executes only at the    *)
(* nonce it was signed for, and may be refused for any other reason.  An   *)
(* intent moves the nonce on when it executes, and so does finalizing; a   *)
(* guardian's proposal does not, but is refused while one is pending.      *)
(* Anything signed that left the client can be wrapped into a transaction  *)
(* by anybody, so it may also execute without the client's transaction.    *)
(***************************************************************************)
EXTENDS Naturals, Sequences

CONSTANTS
  Commands,    \* runs of the client
  NoNonce,     \* no nonce: not given with --nonce, or not signed
  Somebody,    \* whoever else changes the vault
  GivenNonces, \* the values of --nonce
  MaxPolls,    \* 60 in the code
  MaxNonce,    \* bound on the vault's nonce
  MaxTip       \* bound on the transactions processed and not yet confirmed

Nonces == 0..MaxNonce
Keys == {"ed25519.sk", "falcon512.sk"}

ASSUME ClientAssumption ==
  /\ Commands # {} /\ Somebody \notin Commands /\ NoNonce \notin Nonces
  /\ GivenNonces \subseteq Nonces
  /\ MaxPolls \in Nat \ {0} /\ MaxNonce \in Nat /\ MaxTip \in Nat

VARIABLES
  pc,             \* where each command is, or how it ended
  options,        \* its instruction, --nonce and --broadcast
  signed,         \* the nonce it was signed for
  pollsLeft,
  exposed,        \* commands whose instruction is known outside the client
  inFlight,       \* commands whose transaction may still be processed
  tip,            \* transactions processed on the present fork, unconfirmed
  confirmed,      \* confirmed[c]: the result of c's own transaction
  executed,       \* executed[c]: how often c's instruction executed, confirmed
  vault           \* its confirmed nonce, and whether a recovery is pending

clientVars == <<pc, options, signed, pollsLeft>>
clusterVars == <<inFlight, tip, confirmed, executed, vault>>
vars == <<clientVars, exposed, clusterVars>>

Ended == {"ok", "failed", "timeout", "error", "offline"}
\* Where --rpc-url or --payer is needed and missing the command ends with an
\* error, as it also may when they are given.
\* An intent of the owner's, a guardian's proposal, or its finalization.
Instructions == {"intent", "initiate", "finalize"}
Options == [instruction: Instructions, nonce: GivenNonces \cup {NoNonce}, broadcast: BOOLEAN]
NoOptions == [instruction |-> "intent", nonce |-> NoNonce, broadcast |-> FALSE]

Vaults == [nonce: Nonces, pending: BOOLEAN]
\* What was processed: whose instruction, in whose transaction, with which
\* result, and the vault after it.
Entries == [by: Commands \cup {Somebody}, own: BOOLEAN, ok: BOOLEAN, vault: Vaults]

TypeOK ==
  /\ pc \in [Commands -> {"idle", "resolve", "unsigned", "send", "submit", "poll"} \cup Ended]
  /\ options \in [Commands -> Options]
  /\ signed \in [Commands -> Nonces \cup {NoNonce}]
  /\ pollsLeft \in [Commands -> 0..MaxPolls]
  /\ exposed \subseteq Commands /\ inFlight \subseteq Commands
  /\ tip \in Seq(Entries) /\ Len(tip) <= MaxTip
  /\ confirmed \in [Commands -> {"none", "ok", "err"}]
  /\ executed \in [Commands -> Nat]
  /\ vault \in Vaults

Init ==
  /\ pc = [c \in Commands |-> "idle"]
  /\ options = [c \in Commands |-> NoOptions]
  /\ signed = [c \in Commands |-> NoNonce]
  /\ pollsLeft = [c \in Commands |-> MaxPolls]
  /\ exposed = {} /\ inFlight = {} /\ tip = <<>>
  /\ confirmed = [c \in Commands |-> "none"]
  /\ executed = [c \in Commands |-> 0]
  /\ vault = [nonce |-> 0, pending |-> FALSE]

Goto(c, l) == pc' = [pc EXCEPT ![c] = l]
-----------------------------------------------------------------------------
(* Signing.                                                                *)

\* Every command first parses its arguments and loads the keys it signs with;
\* whatever fails there ends it.
Begin(c, opts, next) ==
  /\ pc[c] = "idle"
  /\ options' = [options EXCEPT ![c] = opts]
  /\ Goto(c, next) \/ Goto(c, "error")
  /\ UNCHANGED <<signed, pollsLeft, exposed, clusterVars>>

\* transfer, transfer_spl, the lifecycle commands, the rotations and recoveries
\* of Ed25519 keys, social_set_config and social_cancel: they sign an intent,
\* and differ in the keys they load.
SignedCommand(c, opts) == opts.instruction = "intent" /\ Begin(c, opts, "resolve")

\* rotate_falcon refuses to broadcast before it does anything else.
RotateFalcon(c, opts) ==
  opts.instruction = "intent" /\ ~opts.broadcast /\ Begin(c, opts, "resolve")
RotateFalconRefused(c, opts) ==
  opts.instruction = "intent" /\ opts.broadcast /\ Begin(c, opts, "error")

\* social_initiate signs a proposal with the guardian's key, over a nonce that
\* it resolves as the others do.
SocialInitiate(c, opts) == opts.instruction = "initiate" /\ Begin(c, opts, "resolve")

\* social_finalize signs nothing and takes no --nonce.
SocialFinalize(c, opts) ==
  opts.instruction = "finalize" /\ opts.nonce = NoNonce /\ Begin(c, opts, "unsigned")

\* What an RPC node answers to a "confirmed" read: it may lag behind.
Readable == 0..vault.nonce

BugResolveNonce(c, n) == n \in Readable
\* resolve_nonce(): the given nonce wins, else the chain's is read.
ResolveNonce(c, n) ==
  IF options[c].nonce # NoNonce THEN n = options[c].nonce
  ELSE n \in Readable

\* After the last local check a command that does not broadcast leaves its
\* signed artifact to whoever submits it.
Sign(c) ==
  /\ pc[c] = "resolve"
  /\ \E n \in Nonces :
       /\ ResolveNonce(c, n)
       /\ signed' = [signed EXCEPT ![c] = n]
  /\ IF options[c].broadcast
     THEN Goto(c, "send") /\ UNCHANGED exposed
     ELSE Goto(c, "offline") /\ exposed' = exposed \cup {c}
  /\ UNCHANGED <<options, pollsLeft, clusterVars>>

\* No --rpc-url, or the read failed.
NonceUnknown(c) ==
  /\ pc[c] = "resolve" /\ options[c].nonce = NoNonce
  /\ Goto(c, "error")
  /\ UNCHANGED <<options, signed, pollsLeft, exposed, clusterVars>>

BuildUnsigned(c) ==
  /\ pc[c] = "unsigned"
  /\ Goto(c, IF options[c].broadcast THEN "send" ELSE "offline")
  /\ exposed' = exposed \cup {c}
  /\ UNCHANGED <<options, signed, pollsLeft, clusterVars>>
-----------------------------------------------------------------------------
(* Broadcasting.                                                           *)

\* require_for_broadcast(), load_payer() and getLatestBlockhash.
Prepare(c) ==
  /\ pc[c] = "send"
  /\ Goto(c, "submit") \/ Goto(c, "error")
  /\ UNCHANGED <<options, signed, pollsLeft, exposed, clusterVars>>

\* Preflight runs the transaction on the node's confirmed bank.
PassesPreflight(c) == signed[c] # NoNonce => signed[c] \in Readable

\* sendTransaction: the node took it, or refused it, or took it and its
\* answer was lost, which the command reports as an error.
SubmitTransaction(c) ==
  /\ pc[c] = "submit"
  /\ \/ /\ PassesPreflight(c)
        /\ exposed' = exposed \cup {c} /\ inFlight' = inFlight \cup {c}
        /\ Goto(c, "poll") \/ Goto(c, "error")
     \/ Goto(c, "error") /\ UNCHANGED <<exposed, inFlight>>
  /\ UNCHANGED <<options, signed, pollsLeft, tip, confirmed, executed, vault>>

OwnEntries(c) == {i \in DOMAIN tip : tip[i].by = c /\ tip[i].own}

\* What getSignatureStatuses may answer: the node may not have seen it yet.
Statuses(c) ==
  {[level |-> "none", ok |-> TRUE]}
    \cup {[level |-> "processed", ok |-> tip[i].ok] : i \in OwnEntries(c)}
    \cup IF confirmed[c] = "none" THEN {}
         ELSE {[level |-> "confirmed", ok |-> confirmed[c] = "ok"]}

BugReportedFailed(status) == FALSE
ReportedFailed(status) == status.level # "none" /\ ~status.ok

BugReportedConfirmed(status) == status.level # "none"
ReportedConfirmed(status) == status.level = "confirmed"

PollsRemain(c) == pollsLeft[c] > 0

CountPoll(c) == pollsLeft' = [pollsLeft EXCEPT ![c] = @ - 1]

\* One turn of the polling loop; an RPC error ends the command at once.  The
\* artifact is written after the confirmation, and may fail to be.
Poll(c) ==
  /\ pc[c] = "poll"
  /\ PollsRemain(c)
  /\ CountPoll(c)
  /\ \/ \E status \in Statuses(c) :
          \/ ReportedFailed(status) /\ Goto(c, "failed")
          \/ /\ ~ReportedFailed(status) /\ ReportedConfirmed(status)
             /\ Goto(c, "ok") \/ Goto(c, "error")
          \/ ~ReportedFailed(status) /\ ~ReportedConfirmed(status) /\ UNCHANGED pc
     \/ Goto(c, "error")
  /\ UNCHANGED <<options, signed, exposed, clusterVars>>

NotConfirmedInTime(c) ==
  /\ pc[c] = "poll" /\ pollsLeft[c] = 0
  /\ Goto(c, "timeout")
  /\ UNCHANGED <<options, signed, pollsLeft, exposed, clusterVars>>
-----------------------------------------------------------------------------
(* The cluster.                                                            *)

TipVault == IF tip = <<>> THEN vault ELSE tip[Len(tip)].vault

BugAcceptsNonce(c) == signed[c] # NoNonce => signed[c] <= TipVault.nonce
\* What the vault accepts; anything may be refused for other reasons.
AcceptsNonce(c) == signed[c] # NoNonce => signed[c] = TipVault.nonce

\* A rotation, a recovery and a cancellation also drop what is pending.
IntentMoves(before, after) ==
  after.nonce = before.nonce + 1 /\ (after.pending => before.pending)

\* Initiate compares the nonce and leaves it as it is.
InitiateMoves(before, after) ==
  ~before.pending /\ after = [before EXCEPT !.pending = TRUE]

FinalizeMoves(before, after) ==
  before.pending /\ after = [nonce |-> before.nonce + 1, pending |-> FALSE]

Moves(instruction, before, after) ==
  \/ instruction = "intent" /\ IntentMoves(before, after)
  \/ instruction = "initiate" /\ InitiateMoves(before, after)
  \/ instruction = "finalize" /\ FinalizeMoves(before, after)

\* Bounds: MaxTip, and MaxNonce in Vaults.
Process(who, isOwn, succeeds, after) ==
  /\ Len(tip) < MaxTip
  /\ tip' = Append(tip, [by |-> who, own |-> isOwn, ok |-> succeeds, vault |-> after])
  /\ UNCHANGED <<clientVars, exposed, inFlight, confirmed, executed, vault>>

Execute(c, isOwn) ==
  /\ AcceptsNonce(c)
  /\ \E after \in Vaults :
       Moves(options[c].instruction, TipVault, after) /\ Process(c, isOwn, TRUE, after)

\* The client's own transaction, at most once on a fork.
ProcessOwn(c) ==
  /\ c \in inFlight /\ OwnEntries(c) = {}
  /\ Execute(c, TRUE) \/ Process(c, TRUE, FALSE, TipVault)

\* The same instruction in somebody else's transaction.
ProcessRelayed(c) == c \in exposed /\ Execute(c, FALSE)

ProcessOther ==
  \E instruction \in Instructions, after \in Vaults :
    Moves(instruction, TipVault, after) /\ Process(Somebody, FALSE, TRUE, after)

Confirm ==
  /\ tip # <<>>
  /\ LET entry == Head(tip) IN
       /\ tip' = Tail(tip)
       /\ vault' = entry.vault
       /\ executed' = [c \in Commands |->
                         executed[c] + IF entry.ok /\ entry.by = c THEN 1 ELSE 0]
       /\ confirmed' = [c \in Commands |->
                          IF entry.own /\ entry.by = c
                          THEN IF entry.ok THEN "ok" ELSE "err"
                          ELSE confirmed[c]]
       /\ inFlight' = IF entry.own THEN inFlight \ {entry.by} ELSE inFlight
  /\ UNCHANGED <<clientVars, exposed>>

\* The fork is abandoned: what it processed may be processed again.
Rollback ==
  /\ tip # <<>> /\ tip' = <<>>
  /\ UNCHANGED <<clientVars, exposed, inFlight, confirmed, executed, vault>>

\* Lost, or its blockhash expired.
Lose(c) ==
  /\ c \in inFlight /\ inFlight' = inFlight \ {c}
  /\ UNCHANGED <<clientVars, exposed, tip, confirmed, executed, vault>>
-----------------------------------------------------------------------------
Start(c) ==
  \E opts \in Options :
    \/ SignedCommand(c, opts) \/ SocialInitiate(c, opts) \/ SocialFinalize(c, opts)
    \/ RotateFalcon(c, opts) \/ RotateFalconRefused(c, opts)

Continue(c) ==
  \/ Sign(c) \/ NonceUnknown(c) \/ BuildUnsigned(c)
  \/ Prepare(c) \/ SubmitTransaction(c) \/ Poll(c) \/ NotConfirmedInTime(c)

Cluster ==
  \/ \E c \in Commands : ProcessOwn(c) \/ ProcessRelayed(c) \/ Lose(c)
  \/ ProcessOther \/ Confirm \/ Rollback

Next == Cluster \/ \E c \in Commands : Start(c) \/ Continue(c)

Spec == Init /\ [][Next]_vars
-----------------------------------------------------------------------------
\* A command reports success only for a transaction of its own that executed
\* on the confirmed chain, whatever was rolled back before and after
\* (rpc.rs send_and_confirm).
SuccessIsFinal == \A c \in Commands : pc[c] = "ok" => executed[c] >= 1

SameInstruction(c, d) == options[c].instruction = options[d].instruction

\* Of the commands that signed an intent for the same nonce, because they read
\* it before any landed or because it was given twice, at most one reports
\* success; and so of the proposals for one nonce, as the first stays pending
\* until the nonce moves.  An intent and a proposal may both succeed.
OneSuccessPerNonce ==
  \A c, d \in Commands :
    /\ c # d /\ SameInstruction(c, d) /\ signed[c] # NoNonce
    /\ pc[c] = "ok" /\ pc[d] = "ok"
    => signed[c] # signed[d]

\* However often a payment is run again with the same --nonce after errors,
\* timeouts and lost answers, and whoever relays what leaked out, it is made
\* at most once, and no other intent in its place besides; likewise a proposal.
PinnedRetriesPayOnce ==
  \A c, d \in Commands :
    /\ signed[c] # NoNonce => executed[c] <= 1
    /\ /\ c # d /\ SameInstruction(c, d) /\ executed[c] > 0 /\ executed[d] > 0
       /\ signed[c] # NoNonce /\ signed[d] # NoNonce /\ options[c].nonce # NoNonce
       => options[c].nonce # options[d].nonce

\* Once the confirmed nonce is past the one that a command signed for, what it
\* signed is not executed any more: neither by its own transaction, though that
\* was reported failed at the processed level and rolled back later, nor by a
\* relayed copy of what an error left outside.  An operator who does not know
\* what became of an attempt has to wait for that before signing afresh.  (An
\* attempt that was given no nonce and whose nonce was never printed signed for
\* no later one than the chain has when it ends, so it dies by the next.)
DeadOncePassed ==
  [][\A c \in Commands :
       signed[c] # NoNonce =>
         /\ signed[c] < vault.nonce => executed'[c] = executed[c]
         /\ pc[c] \in Ended /\ options[c].nonce = NoNonce => signed[c] <= vault.nonce]_vars
============================================================================
