# Verification of the DualKey hybrid vault

TLA+ modules, TLC configurations and TLAPS proofs for the DualKey program (`src/program`, `src/core`)
and its command-line client (`src/client`). A *vault* is a program-derived account on Solana that
holds lamports and tokens. It is controlled by an Ed25519 key and a Falcon-512 key under one of six
policies, with an optional guardian who may propose a new Ed25519 key behind a timelock.

Contents: [inventory](#the-system), [modules](#modules), [runs](#runs-and-what-they-show),
[fairness](#fairness), [proofs](#proofs), [assumptions](#assumptions),
[not modelled](#not-modelled), [plan](#plan).

To check a run: `tlc -config funds.cfg MCStoredVault` (the module of each run is in `PROJECT.json`).
To check the proofs: `tlapm HybridVaultProofs.tla`, and so on for the other `*Proofs` modules.

## The system

| Component | Source | State | Operations |
|---|---|---|---|
| Policy engine | `core/src/policy.rs`, `program/src/auth/policy.rs` | none | signature requirement of a policy and an action, stricter of two requirements, evaluation of validity bits |
| Authorization | `program/src/authorize.rs`, `reconstruct.rs` | none; reads the vault | `authorize`: expiry, nonce, digest, both signatures, policy |
| Vault account | `core/src/state.rs` | 1120 bytes: policy, threshold, recovery flag, owner key, Falcon key and its hash, nonce | accessors and setters at fixed offsets |
| Recovery config | `core/src/recovery.rs` | 128 bytes: guardian, delay, pending owner, ready slot | accessors and setters at fixed offsets |
| Creation | `program/src/initialize.rs`, `pda.rs` | creates the vault | `Initialize` |
| Execution | `program/src/execute.rs`, `spl_token.rs` | lamports, token balances, nonce | `TransferSol`, `TransferSpl` |
| Rotation | `program/src/rotate.rs` | keys, pending, nonce | `RotateEd25519Key`, `RotateFalconKey` |
| Policy change | `program/src/change_policy.rs` | policy, threshold, nonce | `ChangePolicy` |
| Recovery | `program/src/recover.rs` | flag, owner, pending, nonce | `Enable`, `Disable`, `RotateEd25519` |
| Social recovery | `program/src/social_recovery.rs` | config, pending, owner, nonce | `SetRecoveryConfig`, `Initiate`, `Finalize`, `Cancel` |
| Introspection | `program/src/auth/ed25519.rs` | none | looks at the precompile instruction before the vault's |
| Encoding | `core/src/canonical.rs`, `wire.rs` | none | preimage, wire fragment, decoding, reconstruction |
| Dispatch and accounts | `program/src/processor.rs`, every handler's first lines; `client/src/onchain.rs` | none | the list of accounts an instruction names, matched by position |
| Client signing | `client/src/sign.rs`, `intent.rs`, `falcon_interop.rs` | a JSON bundle | `sign`, `verify` |
| Client submission | `client/src/submit.rs`, `rpc.rs`, `onchain.rs` | one command's progress | read nonce, sign, send, poll |
| Client keys | `client/src/keys.rs`, `keygen.rs` | seven files in a directory | `keygen`, loading |

**How they interact.** The client (or several clients) reads the nonce from an RPC node, signs the
digest of a canonical preimage with both keys, and sends a transaction of two instructions: the Ed25519
precompile and one of the program's. What leaves a client is public: anybody can hold it back, wrap it
into another transaction, or submit it twice. The program takes expiry and action from the instruction
and vault, program and nonce from the account, rebuilds the digest, and accepts if the policy's
signatures match. Every instruction that changes vault or config moves the nonce on, except the vault's creation and the
guardian's `Initiate`, which compares the nonce and leaves it. Vault and config are two accounts that
handlers of four files change together; the runtime commits an instruction whole or not at all.

**What is hard.** Nothing on chain runs concurrently inside an instruction, so the difficulty is in
*sequences*: any number of parties, each with some of the keys, submit any instructions they have
signatures for in any order, and the clock advances in between. In the client it is *distribution*:
forks, lost answers, lagging nodes, timeouts and retries. In the key directory it is *interruption*.
`PROJECT.json` lists each hazard at its line.

**What makes each part correct.**

- Vault: no signature works twice; what one scheme or one of the two keys signs never reaches what needs the other; lamports
  are conserved and the rent minimum kept; the nonce cannot wrap; the two forms of the Falcon key agree.
- Social recovery: a pending owner was proposed by the guardian in force against the owner in force and
  waited the delay in force; it never survives another change of owner, and it never hangs.
- Encoding and introspection: what executes is what was signed, whatever a relayer rewrites.
- Accounts: an instruction changes one vault and that vault's own config, whatever list of accounts it names.
- Stored bytes: no setter touches a neighbour's field, and every accessor reads what a setter wrote.
- Bundles: reported as valid only if both keys signed the intent shown; an unedited one always is.
- Token transfers: the signed amount goes to the signed destination, whatever accounts are named.
- Client: a reported success is final, retries with one pinned nonce pay once (an intent and a guardian's proposal may
  share a nonce), and an attempt whose nonce has passed is dead.
- Key directory: no public key of the latest run without its secret on disk; no new secret in a file that others can
  open, though a descriptor they got earlier on a loosely kept file still reads it.

## Modules

| Module | Models | State and actions in the code's terms |
|---|---|---|
| `DualKeyPolicy` | `policy.rs` | `SignatureRequirement`, `Meet`, `Satisfied`, as operators of the same names |
| `HybridVault` | the program | one variable per field of the two accounts; one action per instruction, from dispatch to return; `Tick` for the clock, `Deposit` for plain transfers |
| `VaultHistory` | the same with history | which nonces were consumed, which guardian signatures used, what the last proposal was made of |
| `TimelockedOwner` | what the vault promises about its owner | abstract: a holder, a request, the numbers used up; no policy, key scheme or instruction |
| `StoredVault` | `state.rs`, `recovery.rs`, the writes of every handler | the two accounts as byte strings; an action is the setters its handler calls, in their order |
| `AccountLists` | the account checks of every handler, `onchain.rs` | a list of accounts and what may be written; a relayer edits it; `Process` is the handler's pattern, checks and targets |
| `SplTransfer` | `spl_token.rs`, `execute.rs` | token accounts, mints, their programs; one action, all accounts chosen by the relayer |
| `TokenLayout` | `reject_if_transfer_hook` | the bytes of an account and the walk over its extensions |
| `IntentEncoding` | `canonical.rs`, `wire.rs`, `reconstruct.rs` | preimage, fragment, `FromWire`; a relayer rewrites words of the fragment |
| `SignedBundle` | `sign.rs`, `intent.rs`, `falcon_interop.rs` | the fields of the JSON file that `verify` reads; signatures of varying length, retried and padded |
| `Introspection` | `auth/ed25519.rs` | the precompile instruction, what the runtime verified, what the program compares |
| `BroadcastClient` | `submit.rs`, `rpc.rs` | program counter of each command; the cluster with a fork that can be abandoned |
| `KeyStore` | `keys.rs`, `keygen.rs` | mode and content of each file, what is synced; every system call is a step |

`MCHybridVault`, `MCStoredVault`, `MCBroadcastClient` and `MCIntentEncoding` add symmetry sets and
small values. The `*Proofs` modules hold the theorems. `VaultHistory` extends `HybridVault`, which
extends `DualKeyPolicy`; `AccountLists` extends `Introspection`, because a handler reads the owner's signature
from the instruction before its own; `SignedBundle` extends `IntentEncoding`, because what is signed into a
bundle is what is sent.

Two refinements tie the vault's levels together:

- `StoredVault` implements `HybridVault` (`ImplementsVault`): the fields are what the accessors read from the
  bytes. A setter that wrote beside its field, two flags that overwrote each other in their common byte, or a
  handler that used the wrong setter would be a step that `HybridVault` does not have.
- `VaultHistory` implements `TimelockedOwner` (`OwnerIsTimelocked`): the request is the last proposal for as
  long as it is pending, and a number is used by a signature or skipped by a `Finalize`. All instructions under
  all policies change the owner in only two ways, by signatures whose number is used up for ever, or by the
  guardian's request against this owner, under these terms, after the whole delay.

The other modules are about one layer each and meet at what the neighbour takes for granted:

- `HybridVault` takes a signature as a match of key and intent. `IntentEncoding` shows that the digest
  stands for the intent, `Introspection` that an accepted Ed25519 precompile is the owner's signature over
  the digest, `AccountLists` that the vault it is checked for is the vault that changes.
- `HybridVault` moves tokens out of one balance. `SplTransfer` has the accounts, and takes from `TokenLayout`
  that the walk finds the hook extension of a token account.
- `BroadcastClient` knows of the vault its nonce and whether a recovery is pending. An intent executes at the nonce it
  was signed for and moves it on, and so does `Finalize` (`NonceGuardsEveryChange` of `HybridVault` is that fact); a
  proposal executes at its nonce and leaves it, but is refused while one is pending. So an intent and a proposal signed
  for one nonce can both succeed, while two intents, or two proposals, cannot
  (`EachNonceConsumedOnce`, `GuardianSignatureStartsOne`).

Two things that `HybridVault` keeps apart because the code does. A Falcon rotation takes the new hash from the signed
intent and the new key from whoever relays it; `HashesTo` is the comparison that ties the two (`rotate.rs:153`), and
`FalconKeyMatchesHash` what comes of it. And while recovery is disabled an owner may still be replaced by a signed intent:
`DisabledRecoveryIsInert` therefore asks of each change of owner for the nonce that was used up (the record of
`VaultHistory`), which a `Finalize` would not show.

Conventions. A failed instruction changes nothing and is no step, so a handler's early returns are the
guards of its action. Signatures are not messages: every signature of a key in `Ed25519Signers` or
`FalconSigners` is taken to exist from the start, and an instruction picks one. That covers every order,
delay and repetition. Operators named `Bug...` stand before the definition they vary and are what a plausible bug
there would look like; no specification uses them, and each property is known to be violated when one
of them takes its definition's place.

## Runs and what they show

Bounds are the constants of each configuration. All runs are exhaustive within them.

**The vault** (`MCHybridVault`, `VaultHistory`)

| Run | Checks | Instance and why it is enough |
|---|---|---|
| `recovery` | `TypeOK`, `PendingWellFormed`, `EachNonceConsumedOnce`, `GuardianSignatureStartsOne`; `OwnerIsTimelocked`, `OwnerChangeDropsPending`, `DisabledRecoveryIsInert`, `OnlyGuardianOutlivesExpiry`, `NonceGuardsEveryChange`, `FrozenAtMaxNonce`; `PendingResolves` | `VaultHistory`. Two signing keys and the zero key, so that guardian, owner and proposed key can differ and coincide; nonces 0 to 4 with 4 as u64::MAX, so the limit is reached after every kind of instruction; delays 0 to 2 and slots to 3, so a ready slot can be past, present and future; expiry 0 and 2, so intents die while others live. No symmetry, because of the liveness property. 34,548 states, under a minute |
| `funds` | `HeadersAreKept`; `ImplementsVault` | `MCStoredVault`. Keys of two bytes of which the values overlap, words of two bytes of two values, so that every u64 of the instance crosses a byte; the two flags; two Falcon keys, one of which signs, so that a rotation leads from the other to it; every kind of action, an expiry, a delay, lamports and tokens to move; both accounts created, with prefunded PDAs. Every field is written next to fields that hold something else. 2,997 states, under a minute |
| `no_falcon` | `LamportsConserved`, `RentFloor`; `SingleSchemeFreezesHybridAnd`, `NoFalconNoAdministration`, `NoFalconSpendingBounded` | No Falcon signature exists; every kind of action is signed with Ed25519, by two keys, guardian included; all six policies to start from. Three lamports over a rent of one for each account, amounts 1 and 2: transfers to the vault itself, to its config, over the balance and into the rent, with prefunded PDAs |
| `falcon_alone` | `OneKeyIsNotEnough`, `ThresholdMatchesPolicy`, `FalconKeyMatchesHash`, `FalconKeyStaysUsable` | Two Falcon keys that sign and one that nobody holds; one Ed25519 key that signs, one that does not, and the zero key. A vault may start with any of them, and the Ed25519 key that signs may be the owner, the guardian, a thief's or a key installed later, so each of the vault's keys is missing in some states and there in others. All actions, all six policies to start from. Falcon can rotate and change policies wherever it administers, which is where thresholds and keys could go wrong. 37,320 states, under a minute |
| `cancel_window` | `PendingIsCancellable`, violated | see below |

**Token transfers, encoding, introspection**

| Run | Checks | Instance and why it is enough |
|---|---|---|
| `spl` | `OnlyTheSignedTransfer`, `HooksStayOut` | Three token accounts and two mints, one with a hook; every combination of owner, mint, program and claim; two transfers one after the other. An instruction names three accounts, so a substitution shows among three |
| `layout` | `HooksAreRefused` | Up to two extensions, of an ordinary and the two hook types and of four lengths, one of them beyond a byte, so that a hook stands first, last or after an entry of any length, with and without the padding to 355 |
| `hook_mint` | `Token2022HooksAreRefused`, violated | see below |
| `encoding` | `ExecutedIsSigned`, `HonestIntentIsAccepted`, `ValidMeansBothSigned`, `HonestBundleIsValid` | `MCIntentEncoding`. A byte has 4 values, a word more than one byte, so that reserved bytes exist and can be set; keys that differ in the first and in the last word; one word of the fragment rewritten to any value, tag, expiry and body included; another vault, another nonce. In the bundle, Falcon signatures one byte over, at and under the wire's length of two, two tries, and two fields edited, to what the owner signed before or a stranger signed. 3.2 million states, most of them the initial layouts times their edits |
| `introspection` | `AcceptedMeansOwnerSigned`, `ClientIsAccepted`, `OnlyTheNamedVault`, `ClientListIsAccepted` | `AccountLists`. Two keys, two digests, up to two signatures; every combination of offsets, sizes and data of the two instructions involved. For each of the eleven instructions, the client's list with two edits: an account replaced (marked writable or not), added or dropped, a writable mark turned; two are what it takes to name another vault together with its config. The other vault has a pending proposal, so that there is something to mix up. 1.6 million states |

**The client**

| Run | Checks | Instance and why it is enough |
|---|---|---|
| `broadcast` | `SuccessIsFinal`, `OneSuccessPerNonce`, `PinnedRetriesPayOnce`; `DeadOncePassed` | Two commands (a payment and its retry, or two operators), each an intent, a proposal or a finalization; one poll, which may come at any moment, so that every status a longer loop could end on is seen, and the loop can run out; three nonces, forks of up to two transactions: enough for a transaction to be processed, rolled back, overtaken and relayed, and for an intent and a proposal to execute at one nonce. 2.5 million states, about a minute |
| `keystore` | `SecretsAreShielded`, `PublicKeyHasItsSecret`, `CompletedRunIsWhole` | All seven files under their real names and order; two runs, so that a run meets what an interrupted one left; any subset of files found at the start, under either mode; another user who opens, at any moment, whatever the modes allow |

`CHECK_DEADLOCK FALSE` is given throughout: at the bounds, and when every command has ended or the one
call is over, these systems stop. What must not hang is stated as `PendingResolves`.

### Where code and words part

- `cancel_window`. `docs/threat-model.md` says the owner can cancel a pending proposal before the timelock
  elapses. `Cancel` is refused while the recovery flag is off, and `Disable` turns it off without touching
  the pending. The proposal cannot be finalized in that state either (`DisabledRecoveryIsInert`), but when
  recovery is enabled again it may be ripe, and anybody's `Finalize` races the owner's `Cancel`. The nonce at
  u64::MAX is the other way to reach such a state.
- `hook_mint`. Token-2022 pads a mint's 82 bytes to 165 before the type byte. The walk starts at byte 83,
  takes the padding for the end of the list and accepts. Token accounts of such a mint carry a hook
  extension of their own where the walk does find it, so the transfer is still refused (`HooksStayOut`). That no
  such mint is ever refused, whatever its extensions, is proved (`Token2022MintsAreNeverRefused`).

What an operator may conclude. A retry without `--nonce` may pay twice, and a failure is reported before it is
final; the code and its documents promise nothing else, and the model has both. What can be relied on is
`PinnedRetriesPayOnce`, for retries of the same instruction, and `DeadOncePassed`: when the confirmed nonce is past the one an attempt signed for, that
attempt never pays any more, whatever was reported of it, and an attempt that has ended without showing its nonce
did not sign for a later one than the chain has.

Beside these, the comment of `write_with_mode` (`keys.rs:84`) says that secrets are never briefly world-readable.
In the model, as in the code, that is so of files that `keygen` creates, but not of one that exists: its bytes are
written under the old mode, which is set last. What holds is `SecretsAreShielded`. Nobody else can open such a file,
because the directory's mode is set before; but the file is emptied and rewritten in place, so whoever opened it earlier,
under its old mode, reads the new secret.

## Fairness

`HFairSpec` of `VaultHistory` assumes weak fairness of `Tick` (slots pass) and of `FinalizeSocialRecovery`, which
needs no signature: anybody who cares can submit it and pay for it. No fairness is assumed of any
key holder. `PendingResolves` allows for recovery being disabled and for the nonce's end, where the code
refuses to finalize, and for a ready slot beyond the bound on the clock. All other specifications assume no
fairness and state safety only; that a client command returns is plain from its bounded loop and the HTTP
client's timeout.

## Proofs

Proved by TLAPS for every value of the constants under the assumptions the modules name (`KeysAssumption` and
`NumbersAssumption` for the vault): any sets of keys, amounts, digests and commands, any limit for u64, words
fragments and signatures of any values, fields and extensions of any lengths, any number of edits, retries, runs
and losses.

| Module | Theorems | Inductive invariant |
|---|---|---|
| `HybridVaultProofs`, the vault | `TypeCorrect`, `LamportsAreConserved`, `RentFloorHolds`; `PendingIsWellFormed`, `OwnerChangesDropPending`, `DisabledMeansInert`, `NonceGuards`, `FrozenAtTheEnd`, `ExpiryBindsTheOwner` | `FundsInv`: type and conservation together. Neither is inductive alone: that a recipient's balance stays within u64 follows from the supply, and conservation needs balances to be numbers. `PendingInv`: besides `PendingWellFormed`, that a config which exists has a guardian, a delay and a vault |
| the same, one scheme or one key alone | `MeetIsConjunction`, `ThresholdIsNeverStale`, `FalconKeyIsHashed`, `FalconKeyRemainsUsable`, `HybridAndWithstandsOneScheme`, `FalconKeepsAdministration`, `FalconBoundsSpending`, `OneKeyDoesNotSuffice` | `StoredInv` for threshold and key; `HybridAndClosed` and `NoFalconClosed`: under the policies concerned the recovery flag is off. This is what closes the Falcon-only and the guardian's path, and it holds because without the missing scheme nobody can enter such a policy with the flag on, or turn it on there. `OneKeyDoesNotSuffice` is about a key and not a scheme, so the guardian may have a say where the flag is on; it needs `FundsInv` only, for the thresholds' bounds |
| the same, its history | `NoncesAreConsumedOnce`, `GuardianSignaturesStartOne`, `PendingIsTheLastProposal`, `TimelockIsHonoured`, `ImplementsTimelockedOwner` | `NumbersInv`, whose part `StartedOnce` says why a guardian signature that is not consumed works once: a nonce that started a proposal is the present one only while that proposal is pending. `HistoryInv` adds that the pending is the last proposal, under terms still in force, which is what the mapping of every step to `TimelockedOwner` needs |
| `StoredVaultProofs` | `NoSetterWritesBeside`, `BytesImplementVault` | `StoredInv`: each account that exists has its length, its header and values in every field that an accessor can read. `FieldsAreDisjoint` and `FieldOfSet` say that a setter changes its own field and no other; from them, one lemma for each setter (`SetPolicy` to `SetPending`) says what the accessors read after it, and one for each instruction that its setters together are HybridVault's action. The key lengths, the encoding of numbers and the value of u64::MAX are parameters |
| `BroadcastProofs` | `SuccessStaysFinal`, `NonceSucceedsOnce`, `PinnedPaysOnce`, `DeadStaysDead` | `Inv`: what nobody has signed yet is nowhere outside; each success on the fork moves the vault on as its instruction does, at the nonce it was signed for (`ForkCounts`); what was executed has its nonce behind it, or is the proposal still pending (`Spent`), and no two of one instruction share a nonce (`ExecutedBehind`) |
| `KeyStoreProofs` | `SecretsStayShielded`, `PublicKeysHaveSecrets`, `CompletedRunsAreWhole` | `Inv`: the directory is closed before the first file is opened (`DirectoryClosedFirst`), what others hold open they found loose (`OnlyLooseFilesHeld`), and all files before the present one are whole and synced (`WrittenInOrder`), which is where the order of the seven writes enters |
| `IntrospectionProofs` | `OwnerSigned`, `ClientConvinces`, `ListsCannotRedirect`, `ClientListFits` | `AcceptedInv`: the transaction stays what the runtime verified, and a positive verdict came from its header. `ListInv`: whatever was edited, what is processed carries the client's precompile or none. Then each handler's checks fix the vault its changes fall on. `ClientInv`: an unedited list is the one that was built, and a refusal is the handler's; then, instruction by instruction, only a missing signature or the config's state is left as a reason |
| `EncodingProofs` | `ExecutesWhatIsSigned`, `HonestIsAccepted`, `ValidReportsAreTrue`, `HonestBundlesPass` | `PreimageInjective` (the preimage has a fixed layout for each tag, so equal preimages are equal intents) and `DecoderInvertsEncoder`, then `FragmentInv`: what was executed had the digest of what was signed, and an unedited fragment is the encoder's. `ReportInv`: there is a report only of a bundle. `HonestInv`: an unedited bundle is one that signing wrote, with both signatures made; `PaddingTellsLength` finds the signature's length again in its padded form |
| `SplTransferProofs` | `TransfersAreTheSigned`, `NoHookRuns` | `Inv`: types, and that the accounts of the two token programs stay as those keep them (`AsTheProgramsKeepThem`), which is how a hooked mint is kept out by its accounts |
| `TokenLayoutProofs` | `HooksAreFound`, `Token2022MintsAreNeverRefused` | `VerdictInv`: the verdict is the function's answer. The rest is about data: `WalkExists` and `FlatExists` show that the recursive functions of the walk and of the concatenation satisfy their equations, by an induction stated of a set of numbers (`Induction`, from the least number of a set); `LaidOut` places every entry's bytes, and `WalkOverEntries` follows the walk from entry to entry |

Each proof takes the next-state relation apart by instruction or handler. Facts about all owner-signed
instructions (`SubmitFacts`: authorized, at the stored nonce, unexpired, nonce moved on) are lemmas that the modules share. The
theorems on one scheme alone have the absence of the other's signatures
(`FalconSigners = {}`, `Ed25519Signers = {}`) as a hypothesis; `OneKeyDoesNotSuffice` has none, and says in each step what follows
from the vault's present owner or Falcon key being one that does not sign. That Falcon keys alone leave a `HybridAnd` vault as it is
is proved (`HybridAndWithstandsOneScheme`) and was not given a run of its own. The policy table's join is proved to be the
conjunction of the two requirements for every choice of signatures (`MeetIsConjunction`).

What the proofs take of the constants is in the modules' assumptions, each of which the code's values satisfy. Of
`ToLE` (`u64::to_le_bytes`) it is that different numbers have different bytes, `WordLen` of them, and that zero is
all zeros; of `Prepared`, that different Falcon keys have different prepared forms. Keys and words are
arrays of bytes of any length.

Every safety property of a passing run is proved. Checked by TLC only is liveness (`PendingResolves`), which
fairness puts out of the prover's reach. A recursive definition can be reasoned about as far as it
is a function of numbers whose values are bounded by the data, as in `TokenLayout`; what the provers lack is induction
over an operator, so these proofs go by sets.

## Assumptions

- Signatures cannot be forged; SHA-256 has no collisions; the Ed25519 precompile and the Falcon library
  verify what they are given.
- The runtime executes an instruction whole or not at all, and locks the accounts of a transaction, so
  that instructions on a vault are serial.
- The cluster of `BroadcastClient`: one fork at a time over a confirmed chain; confirmed transactions stay; a
  transaction is processed at most once on a fork; a node may lag behind any read, forget nothing it
  confirmed, and lose answers.
- The token programs of `SplTransfer` keep their accounts well formed, and give the accounts of a mint with
  a transfer hook the corresponding account extension, as Token-2022 does.
- The file system of `KeyStore`: `fsync` makes a file's content durable; names and modes reach the disk in order
  (the code syncs no directory); the process's umask leaves the requested bits.

## Not modelled

- Falcon signatures as mathematics, and the program's wrapper (`auth/falcon.rs`): a length check and a call of
  the library, whose verdict is a match of signature, key and digest. Their encoding, padding and retries are in
  `SignedBundle`.
- The four verification instructions (240 to 243): they change no state, and what they call is modelled where
  the other instructions call it.
- The hash and the chain domain: constants and SHA-256. Domain tag, version, chain and program stand as one value
  at the head of every preimage, the same for signer and vault.
- In bundles, the fields that `verify` never reads (preimage, hash of the Falcon key, printed lengths).
- Derivation of addresses is a table in `AccountLists` and one vault elsewhere; bumps are constants.
- `init` in the client: it has no nonce and is repeated safely because the program refuses a second creation.
- Argument parsing, rendering, artifacts, scripts: no state of their own.

Three hazards have no property. A retry without `--nonce` reads the nonce afresh and may pay a second time
(`submit.rs:313`), as said above. An owner who keeps the nonce moving can keep a guardian's signature from ever
being current (`social_recovery.rs:297`): the owner outranks the guardian by design, and nothing is promised to the
guardian that could be checked. `keygen` over a directory in use empties the old secret before the new one is written
(`keygen.rs:81`): the model has the behaviour, and the code says nothing about existing files.

## Plan

Done: the vault, its history, its bytes and its abstract promise; the layers around it (accounts,
introspection, encoding, bundles, token transfers); the client's submission and its key files; proofs of the
safety properties, the refinements among them.

Left: the client's `init`, and the effect of the printed nonce on what an operator retries.
