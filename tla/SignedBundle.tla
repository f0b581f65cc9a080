---------------------------- MODULE SignedBundle ----------------------------
(***************************************************************************)
(* "dualkey sign" and "dualkey verify": the client signs an intent with    *)
(* both keys into a JSON file, the bundle, which travels by whatever means *)
(* and is checked where it arrives (client/src/sign.rs, intent.rs and      *)
(* falcon_interop.rs).  Any of its fields may have been edited on the way. *)
(*                                                                         *)
(* An intent that is signed into a bundle is one that IntentEncoding could *)
(* send to a vault as well; each behaviour takes one of the two ways.      *)
(***************************************************************************)
EXTENDS IntentEncoding, SequencesExt

CONSTANTS
  Owner, Stranger,   \* two holders of an Ed25519 and a Falcon key each
  WireLen,           \* bytes of a Falcon signature on the wire: 666
  LongestLen,        \* the longest signature that signing may produce
  MaxAttempts        \* MAX_FALCON_SIGN_ATTEMPTS

ASSUME BundleAssumption ==
  /\ Owner # Stranger
  /\ WireLen \in Nat \ {0} /\ LongestLen \in Nat /\ MaxAttempts \in Nat \ {0}

VARIABLES
  bundle,     \* the file, or NoBundle
  made,       \* the signatures that were made, by anybody
  attempts,   \* Falcon signatures tried so far for this bundle
  report      \* what verify printed, or "none"

bvars == <<vars, bundle, made, attempts, report>>
NoBundle == [digest |-> <<>>]
-----------------------------------------------------------------------------
(* IntentSpec: the JSON form of an intent.                                 *)

TypeNames == <<"transfer_sol", "transfer_spl", "rotate_ed25519_key", "rotate_falcon_key",
               "change_policy", "recover_account", "set_recovery_config",
               "cancel_social_recovery">>

\* A key is hex text; other text than 64 digits has no key.
Hex(key) == [digits |-> 64, key |-> key]

\* The action's type name for its tag, hex for its key, the rest unchanged.
FromIntent(intent) ==
  [intent EXCEPT !.action =
     [f \in DOMAIN intent.action |->
        CASE f = "tag" -> TypeNames[intent.action.tag]
          [] f = "key" -> Hex(intent.action.key)
          [] OTHER -> intent.action[f]]]

\* to_intent() fails on text of another length and on an unknown recovery op.
Readable(spec) ==
  /\ "key" \in DOMAIN spec.action => spec.action.key.digits = 64
  /\ spec.action.tag = "recover_account" => spec.action.byte \in RecoveryOps

ToIntent(spec) ==
  [spec EXCEPT !.action =
     [f \in DOMAIN spec.action |->
        CASE f = "tag" -> CHOOSE t \in DOMAIN TypeNames : TypeNames[t] = spec.action.tag
          [] f = "key" -> spec.action.key.key
          [] OTHER -> spec.action[f]]]
-----------------------------------------------------------------------------
(* Signatures.  A signature is [by, over, bytes]: which key made it over    *)
(* which digest is what verification finds out from its bytes.             *)

\* A compressed Falcon signature: its length varies, its last byte is not 0.
Encodings == {e \in BoundedSeq({0, 1}, LongestLen) : Len(e) > 0 /\ e[Len(e)] # 0}

BugFits(encoded) == TRUE
Fits(encoded) == Len(encoded) <= WireLen

\* from_encoded_bytes(): zeros up to the length of the wire.
Padded(encoded) ==
  [i \in 1..WireLen |-> IF i <= Len(encoded) THEN encoded[i] ELSE 0]

\* from_wire_bytes(): the last byte that is not zero ends the signature.
EncodedLen(wire) ==
  IF \A i \in 1..WireLen : wire[i] = 0 THEN 0
  ELSE CHOOSE i \in 1..WireLen : wire[i] # 0 /\ \A j \in (i + 1)..WireLen : wire[j] = 0

Ed25519Signature(by, over) == [by |-> by, over |-> over, bytes |-> <<>>]

\* All three Falcon verifiers read the whole wire, zeros included: it is valid
\* if a signature was made that is padded to it.
ValidFalcon(key, over, signature) ==
  \E m \in made : /\ m.by = key /\ m.over = over /\ Len(m.bytes) \in 1..WireLen
                  /\ signature = [m EXCEPT !.bytes = Padded(m.bytes)]

ValidEd25519(key, over, signature) ==
  signature \in made /\ signature = Ed25519Signature(key, over)
-----------------------------------------------------------------------------
\* Intents that differ from the signed one in one field.
OtherIntents == {[signed EXCEPT !.expiry = e] : e \in Numbers \ {signed.expiry}}
                  \cup {[signed EXCEPT !.nonce = 1 - @]}

\* The owner has signed another intent before, the stranger what it likes.
BundleInit ==
  /\ Init
  /\ bundle = NoBundle /\ attempts = 0 /\ report = "none"
  /\ made = {[by |-> Owner, over |-> Preimage([signed EXCEPT !.nonce = 1 - @]), bytes |-> b] :
               b \in {<<>>, <<1>>}}
        \cup {[by |-> Stranger, over |-> Preimage(i), bytes |-> b] :
               i \in OtherIntents \cup {signed}, b \in {<<>>, <<1>>}}

\* sign_intent(): Ed25519 first, then Falcon until a signature fits.
SignFalcon(encoded) ==
  /\ executed = Nothing /\ edits = 0
  /\ bundle = NoBundle /\ attempts < MaxAttempts
  /\ attempts' = attempts + 1
  /\ LET digest == Preimage(signed)
         falcon == [by |-> Owner, over |-> digest, bytes |-> encoded]
     IN  /\ made' = made \cup {Ed25519Signature(Owner, digest), falcon}
         /\ bundle' = IF ~Fits(encoded) THEN NoBundle
                      ELSE [intent |-> FromIntent(signed), digest |-> digest,
                            ed25519Key |-> Owner,
                            ed25519Signature |-> Ed25519Signature(Owner, digest),
                            falconKey |-> Owner,
                            wire |-> [falcon EXCEPT !.bytes = Padded(encoded)],
                            encodedLen |-> Len(encoded)]
  /\ UNCHANGED <<vars, report>>

OtherSpecs ==
  {FromIntent(i) : i \in OtherIntents}
    \cup {[bundle.intent EXCEPT !.action =
             [f \in DOMAIN bundle.intent.action |->
                CASE f = "key" -> [bundle.intent.action.key EXCEPT !.digits = 63]
                  [] f = "byte" -> Byte - 1
                  [] OTHER -> bundle.intent.action[f]]]}

\* One field of the file is replaced, by anything that is at hand.
EditBundle ==
  /\ bundle # NoBundle /\ report = "none" /\ edits < MaxEdits + 1
  /\ edits' = edits + 1
  /\ \/ \E spec \in OtherSpecs : bundle' = [bundle EXCEPT !.intent = spec]
     \/ \E i \in OtherIntents : bundle' = [bundle EXCEPT !.digest = Preimage(i)]
     \/ bundle' = [bundle EXCEPT !.ed25519Key = Stranger]
     \/ bundle' = [bundle EXCEPT !.falconKey = Stranger]
     \/ \E m \in made :
          \/ m.bytes = <<>> /\ bundle' = [bundle EXCEPT !.ed25519Signature = m]
          \/ /\ Len(m.bytes) \in 1..WireLen
             /\ bundle' = [bundle EXCEPT !.wire = [m EXCEPT !.bytes = Padded(@)]]
     \/ \E i \in 1..WireLen :
          bundle' = [bundle EXCEPT !.wire.bytes[i] = 1 - @]
  /\ UNCHANGED <<signed, here, fragment, executed, made, attempts, report>>

\* VerificationReport::all_valid(), on the digest that is computed afresh.
BugAllValid(digest) ==
  /\ ValidEd25519(bundle.ed25519Key, bundle.digest, bundle.ed25519Signature)
  /\ ValidFalcon(bundle.falconKey, bundle.digest, bundle.wire)
AllValid(digest) ==
  /\ ValidEd25519(bundle.ed25519Key, digest, bundle.ed25519Signature)
  /\ ValidFalcon(bundle.falconKey, digest, bundle.wire)
  /\ bundle.digest = digest

VerifyBundle ==
  /\ bundle # NoBundle /\ report = "none"
  /\ report' = IF ~Readable(bundle.intent) THEN "error"
               ELSE IF AllValid(Preimage(ToIntent(bundle.intent))) THEN "valid" ELSE "invalid"
  /\ UNCHANGED <<vars, bundle, made, attempts>>

BundleNext ==
  \/ \E encoded \in Encodings : SignFalcon(encoded)
  \/ EditBundle
  \/ VerifyBundle
  \/ \* The other way: the intent is sent to a vault.
     Next /\ attempts = 0 /\ UNCHANGED <<bundle, made, attempts, report>>

BundleSpec == BundleInit /\ [][BundleNext]_bvars
-----------------------------------------------------------------------------
\* Whatever was edited, a bundle is reported as valid only if the two keys it
\* names both signed the intent that it shows, and it states that digest.
ValidMeansBothSigned ==
  report = "valid" =>
    LET digest == Preimage(ToIntent(bundle.intent))
    IN  /\ Ed25519Signature(bundle.ed25519Key, digest) \in made
        /\ \E m \in made : m.by = bundle.falconKey /\ m.over = digest /\ m.bytes # <<>>
        /\ bundle.digest = digest

\* A bundle that nobody edited is reported as valid, however long its Falcon
\* signature came out and however often signing was retried: no signature is
\* cut, the length is recovered from the padding, and the JSON form gives back
\* the intent that was signed.
HonestBundleIsValid ==
  bundle # NoBundle /\ edits = 0 =>
    /\ report \in {"none", "valid"}
    /\ EncodedLen(bundle.wire.bytes) = bundle.encodedLen
    /\ ToIntent(bundle.intent) = signed
============================================================================
