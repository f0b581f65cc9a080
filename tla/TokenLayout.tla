---------------------------- MODULE TokenLayout ----------------------------
(***************************************************************************)
(* reject_if_transfer_hook() of program/src/spl_token.rs: the walk over    *)
(* the extensions that follow a mint or token account, byte by byte, and   *)
(* the accounts it is walked over.                                         *)
(*                                                                         *)
(* An account is built from a list of extensions in the layout that the    *)
(* function's comment gives, or in the one Token-2022 uses, where a mint   *)
(* is padded to the length of a token account.  One behaviour is one call. *)
(***************************************************************************)
EXTENDS Naturals, Sequences, SequencesExt

CONSTANTS
  ExtensionTypes,    \* types that occur
  ExtensionLengths,  \* lengths of their values
  MaxExtensions      \* bound on the extensions of one account

TokenAccountLen == 165
MintLen == 82
MultisigLen == 355

TransferHook == 14
TransferHookAccount == 15
HookTypes == {TransferHook, TransferHookAccount}

MaxU16 == 65535

ASSUME LayoutAssumption ==
  /\ ExtensionTypes \subseteq 1..MaxU16 /\ ExtensionLengths \subseteq 0..MaxU16
  /\ MaxExtensions \in Nat

Bytes(n, b) == [i \in 1..n |-> b]
-----------------------------------------------------------------------------
(* The walk.  Offsets are those of the code; data[i + 1] is its data[i].   *)

\* A u16 in little endian.
U16At(data, i) == data[i + 1] + 256 * data[i + 2]

\* Zeroes up to the length of a multisig account are padding.
Padded(data, baseLen) ==
  /\ Len(data) > MultisigLen /\ baseLen < MultisigLen
  /\ \A i \in baseLen..(MultisigLen - 1) : data[i + 1] = 0

\* Past the padding and the account type byte.
TlvStart(data, baseLen) == (IF Padded(data, baseLen) THEN MultisigLen ELSE baseLen) + 1

BugNextEntry(i, length) == i + 2 + length
\* The entry after the one at i, whose value has the given length.
NextEntry(i, length) == i + 4 + length

\* TRUE for Ok, FALSE for InvalidAccountData.
AcceptsEntries(data, start) ==
  LET accepts[i \in 0..Len(data)] ==
        IF i + 4 > Len(data) THEN TRUE
        ELSE LET type == U16At(data, i)
                 length == U16At(data, i + 2)
             IN  IF i + 4 + length > Len(data) \/ type \in HookTypes THEN FALSE
                 ELSE IF type = 0 /\ length = 0 THEN TRUE
                 ELSE accepts[NextEntry(i, length)]
  IN  accepts[start]

RejectIfTransferHook(data, baseLen) ==
  IF Len(data) <= baseLen THEN TRUE ELSE AcceptsEntries(data, TlvStart(data, baseLen))
-----------------------------------------------------------------------------
(* The accounts.                                                           *)

Kinds == {"mint", "account"}
BaseLen(kind) == IF kind = "mint" THEN MintLen ELSE TokenAccountLen
AccountType(kind) == IF kind = "mint" THEN 1 ELSE 2

Extensions == [type: ExtensionTypes, length: ExtensionLengths]
ExtensionLists == UNION {[1..n -> Extensions] : n \in 0..MaxExtensions}

Entry(ext) ==
  <<ext.type % 256, ext.type \div 256, ext.length % 256, ext.length \div 256>>
    \o Bytes(ext.length, 170)
Tlv(exts) == FlattenSeq([i \in 1..Len(exts) |-> Entry(exts[i])])

\* How far an account's base is padded in each layout, before the type byte.
PaddedTo(layout, kind) ==
  CASE layout = "comment" -> BaseLen(kind)
    [] layout = "comment, padded" -> MultisigLen
    [] layout = "token-2022" -> TokenAccountLen

\* An account without extensions is its base alone.  The bytes of the base
\* never matter.
Account(layout, kind, exts) ==
  IF exts = <<>> THEN Bytes(BaseLen(kind), 0)
  ELSE Bytes(PaddedTo(layout, kind), 0) \o <<AccountType(kind)>> \o Tlv(exts)

Layouts == {"comment", "comment, padded", "token-2022"}
-----------------------------------------------------------------------------
VARIABLES layout, kind, exts, verdict

vars == <<layout, kind, exts, verdict>>

Init ==
  /\ layout \in Layouts /\ kind \in Kinds /\ exts \in ExtensionLists
  /\ verdict = "pending"

Inspect ==
  /\ verdict = "pending"
  /\ verdict' = IF RejectIfTransferHook(Account(layout, kind, exts), BaseLen(kind))
                THEN "accepted" ELSE "refused"
  /\ UNCHANGED <<layout, kind, exts>>

Next == Inspect
Spec == Init /\ [][Next]_vars

HasHook == \E i \in DOMAIN exts : exts[i].type \in HookTypes

\* In the layouts the comment describes, a transfer hook is refused wherever
\* it stands among the extensions, and only a transfer hook is: the walk keeps
\* in step with every length and skips the padding exactly when there is one.
\* The account side of Token-2022's own layout is the comment's.
HooksAreRefused ==
  layout # "token-2022" \/ kind = "account" =>
    /\ verdict = "refused" => HasHook
    /\ verdict = "accepted" => ~HasHook

\* spl_token.rs:4: "Transfer-hook extensions are refused", of the mints that
\* Token-2022 makes.
Token2022HooksAreRefused == layout = "token-2022" /\ HasHook => verdict # "accepted"
============================================================================
