--------------------------- MODULE Introspection ----------------------------
(***************************************************************************)
(* verify_ed25519_precompile() of program/src/auth/ed25519.rs: the program *)
(* trusts the runtime's Ed25519 precompile to have checked a signature and *)
(* only looks at the precompile instruction before its own.                *)
(*                                                                         *)
(* The data of an instruction holds a key, a signature and a message.  A   *)
(* precompile instruction says for each of the three whether it is taken   *)
(* from its own data or from another instruction's.  A transaction is      *)
(* anything that can be put together from keys, messages and the           *)
(* signatures that were made.                                              *)
(***************************************************************************)
EXTENDS Naturals, FiniteSets

CONSTANTS
  Ed25519Keys,
  owner,         \* the key the vault asks for
  Digests,
  digest,        \* the digest the vault asks for
  MaxMade        \* bound on the signatures that were made

ASSUME IntrospectionAssumption ==
  owner \in Ed25519Keys /\ digest \in Digests /\ MaxMade \in Nat

\* A message is a digest, or a longer one that starts with its bytes.
Messages == [head: Digests, size: {"digest", "longer"}]
AllSignatures == [by: Ed25519Keys, over: Messages]
OwnerSignature == [by |-> owner, over |-> [head |-> digest, size |-> "digest"]]

\* u16::MAX stands for the instruction itself.
Places == {"self", "other"}
Headers == [program: {"Ed25519", "Unrelated"}, signatures: {1, 2}, size: {"digest", "longer"},
            signatureIn: Places, keyIn: Places, messageIn: Places]

VARIABLES
  made,       \* the signatures that exist
  previous,   \* the header of the instruction before the vault's
  data,       \* the data of that instruction and of another one
  accepted    \* "pending", or what the vault's program found

vars == <<made, previous, data, accepted>>

\* The runtime refuses the whole transaction unless the record verifies; what
\* it makes of further records does not matter here.
RuntimeAccepts ==
  previous.program = "Ed25519" =>
    LET signature == data[previous.signatureIn].signature
        message == data[previous.messageIn].message
    IN  /\ signature.by = data[previous.keyIn].key
        /\ signature.over.head = message.head
        /\ signature.over.size = previous.size
        /\ previous.size = "longer" => message.size = "longer"

Init ==
  /\ made \in SUBSET AllSignatures /\ Cardinality(made) \in 1..MaxMade
  /\ previous \in Headers
  /\ data \in [Places -> [key: Ed25519Keys, signature: made, message: Messages]]
  /\ RuntimeAccepts
  /\ accepted = "pending"
-----------------------------------------------------------------------------
BugSelfContained == previous.signatureIn = "self"
SelfContained ==
  previous.signatureIn = "self" /\ previous.keyIn = "self" /\ previous.messageIn = "self"

BugIsDigestSized == previous.size = "longer"
IsDigestSized == previous.size = "digest"

VerifyEd25519Precompile ==
  /\ previous.program = "Ed25519"
  /\ previous.signatures = 1
  /\ SelfContained
  /\ IsDigestSized
  /\ data["self"].key = owner
  /\ data["self"].message.head = digest

Verify ==
  /\ accepted = "pending"
  /\ accepted' = IF VerifyEd25519Precompile THEN "yes" ELSE "no"
  /\ UNCHANGED <<made, previous, data>>

Next == Verify
Spec == Init /\ [][Next]_vars
-----------------------------------------------------------------------------
\* However a relayer arranges the transaction, the program is convinced only
\* if the owner's key signed exactly this digest.
AcceptedMeansOwnerSigned == accepted = "yes" => OwnerSignature \in made

\* What the client puts before the vault's instruction (onchain.rs:564) is
\* accepted.
ClientIsAccepted ==
  /\ accepted # "pending"
  /\ previous = [program |-> "Ed25519", signatures |-> 1, size |-> "digest",
                 signatureIn |-> "self", keyIn |-> "self", messageIn |-> "self"]
  /\ data["self"] = [key |-> owner, signature |-> OwnerSignature,
                     message |-> OwnerSignature.over]
  => accepted = "yes"
============================================================================
