--------------------------- MODULE IntentEncoding ---------------------------
(***************************************************************************)
(* How an intent becomes the bytes that are signed (core/src/canonical.rs),*)
(* how part of it travels (core/src/wire.rs), and how the program rebuilds *)
(* the rest (program/src/reconstruct.rs).                                  *)
(*                                                                         *)
(* The 40 bytes of an action body are five words of eight.  A key is four  *)
(* words, a u64 one; a byte with its padding is a word whose lowest digit, *)
(* in base Byte, is read and whose other digits are written as zero.       *)
(* SHA-256 is taken as collision free: the digest is the preimage.  A      *)
(* relayer may rewrite words of the fragment on its way to the vault.      *)
(***************************************************************************)
EXTENDS Naturals, Sequences

CONSTANTS
  Keys,       \* 32-byte values, as four words
  Numbers,    \* the u64 values that are signed
  Byte,       \* 256 in the code
  MaxWord,    \* u64::MAX
  Vaults,     \* accounts of the program
  MaxEdits    \* bound on the words that the relayer rewrites

Words == 0..MaxWord

ASSUME EncodingAssumption ==
  /\ MaxWord \in Nat /\ Byte \in 4..(MaxWord + 1) /\ Numbers \subseteq Words
  /\ Keys \subseteq Seq(Words) /\ (\A k \in Keys : Len(k) = 4) /\ MaxEdits \in Nat

ZeroKey == <<0, 0, 0, 0>>

\* Two-field layouts: key and number, or key and eight reserved bytes.
KeyNumberTags == {1, 2, 7}   \* TransferSol, TransferSpl, SetRecoveryConfig
KeyTags == {3, 4}            \* RotateEd25519Key, RotateFalconKey
ChangePolicyTag == 5
RecoverAccountTag == 6
CancelTag == 8

RecoveryOps == 0..2
Actions ==
  [tag: KeyNumberTags, key: Keys, number: Numbers]
    \cup [tag: KeyTags, key: Keys]
    \cup [tag: {ChangePolicyTag}, byte: 0..(Byte - 1), number: Numbers]
    \cup [tag: {RecoverAccountTag}, byte: RecoveryOps, key: Keys]
    \cup [tag: {CancelTag}]

Intents == [vault: Vaults, nonce: {0, 1}, expiry: Numbers, action: Actions]

ActionBody(action) ==
  IF action.tag \in KeyNumberTags THEN action.key \o <<action.number>>
  ELSE IF action.tag \in KeyTags THEN action.key \o <<0>>
  ELSE IF action.tag = ChangePolicyTag THEN <<action.byte, action.number, 0, 0, 0>>
  ELSE IF action.tag = RecoverAccountTag THEN <<action.byte>> \o action.key
  ELSE ZeroKey \o <<0>>   \* CancelTag

BugPreimage(intent) ==
  <<intent.vault, intent.nonce, intent.expiry>> \o ActionBody(intent.action)
\* Domain tag, version, chain domain and program are the same for all.
Preimage(intent) ==
  <<intent.vault, intent.nonce, intent.expiry, intent.action.tag>>
    \o ActionBody(intent.action)

\* The fragment that travels: expiry, tag and body.
Encode(intent) == <<intent.expiry, intent.action.tag>> \o ActionBody(intent.action)

\* Any DualKeyError of the decoder.
Malformed == [tag |-> 0]

BugNumberAt(tag) == 5
\* Where the u64 of a body stands.
NumberAt(tag) == IF tag = ChangePolicyTag THEN 2 ELSE 5

\* Action::from_wire(): reserved bytes are not looked at, but for a cancel.
FromWire(tag, body) ==
  LET byte == body[1] % Byte
      number == body[NumberAt(tag)]
  IN  CASE tag \in KeyNumberTags ->
             [tag |-> tag, key |-> SubSeq(body, 1, 4), number |-> number]
        [] tag \in KeyTags -> [tag |-> tag, key |-> SubSeq(body, 1, 4)]
        [] tag = ChangePolicyTag -> [tag |-> tag, byte |-> byte, number |-> number]
        [] tag = RecoverAccountTag /\ byte \in RecoveryOps ->
             [tag |-> tag, byte |-> byte, key |-> SubSeq(body, 2, 5)]
        [] tag = CancelTag /\ (\A i \in 1..5 : body[i] = 0) -> [tag |-> tag]
        [] OTHER -> Malformed
-----------------------------------------------------------------------------
VARIABLES signed, here, fragment, edits, executed

vars == <<signed, here, fragment, edits, executed>>

Nothing == [tag |-> 0]

\* The vault's address and nonce may not be those that were signed.
Init ==
  /\ signed \in Intents
  /\ here \in [vault: Vaults, nonce: {0}]
  /\ fragment = Encode(signed) /\ edits = 0
  /\ executed = Nothing

Rewrite ==
  /\ executed = Nothing /\ edits < MaxEdits
  /\ \E i \in DOMAIN fragment, w \in Words : fragment' = [fragment EXCEPT ![i] = w]
  /\ edits' = edits + 1
  /\ UNCHANGED <<signed, here, executed>>

Decoded == FromWire(fragment[2], SubSeq(fragment, 3, 7))

\* reconstruct_intent(): vault and nonce come from the account alone.
Reconstructed(action) ==
  [vault |-> here.vault, nonce |-> here.nonce, expiry |-> fragment[1], action |-> action]

\* reconstruct_and_digest(), and the comparison the signature check makes.
Execute ==
  /\ executed = Nothing
  /\ Decoded # Malformed
  /\ Preimage(Reconstructed(Decoded)) = Preimage(signed)
  /\ executed' = Decoded
  /\ UNCHANGED <<signed, here, fragment, edits>>

Next == Rewrite \/ Execute
Spec == Init /\ [][Next]_vars
-----------------------------------------------------------------------------
\* "no two distinct intents can produce the same preimage" (canonical.rs:61),
\* and what follows from it for the whole path: what is executed, under which
\* vault, nonce and expiry, is what was signed, however the fragment was
\* rewritten and wherever it was sent.
ExecutedIsSigned ==
  executed # Nothing =>
    /\ executed = signed.action
    /\ fragment[1] = signed.expiry
    /\ here = [vault |-> signed.vault, nonce |-> signed.nonce]

\* A fragment that arrives as the client encoded it, at the vault and nonce it
\* was made for, always decodes to the signed action and matches its digest:
\* encoder, decoder and preimage agree on every layout.
HonestIntentIsAccepted ==
  edits = 0 /\ here = [vault |-> signed.vault, nonce |-> signed.nonce] =>
    /\ Decoded = signed.action
    /\ Preimage(Reconstructed(Decoded)) = Preimage(signed)
============================================================================
