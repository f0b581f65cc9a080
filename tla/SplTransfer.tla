---------------------------- MODULE SplTransfer ----------------------------
(***************************************************************************)
(* Execute of TransferSpl with every account it is given: transfer_spl()   *)
(* of program/src/spl_token.rs under process_transfer_spl() of             *)
(* program/src/execute.rs, and the token program it calls.                 *)
(*                                                                         *)
(* The key holders sign a destination and an amount for a nonce; source,   *)
(* mint and token program are the relayer's choice.  HybridVault has the   *)
(* authorization; here each nonce has one intent, signed as the policy     *)
(* asks.  TokenLayout has the walk for transfer hooks; here an account     *)
(* carries one or not.  Token accounts are as the token programs keep      *)
(* them, except those of a program that is neither: they may claim         *)
(* anything.                                                               *)
(***************************************************************************)
EXTENDS Naturals, FiniteSets

CONSTANTS
  TokenAccounts,   \* accounts an instruction may name as source or destination
  Mints,
  HookedMints,     \* the mints with a transfer hook
  MaxAmount,       \* bound on balances and amounts
  MaxNonce         \* bound on the nonce

Amounts == 0..MaxAmount
Nonces == 0..(MaxNonce - 1)

TokenPrograms == {"Token", "Token-2022"}
Programs == TokenPrograms \cup {"Other"}

ASSUME SplAssumption ==
  /\ IsFiniteSet(TokenAccounts) /\ HookedMints \subseteq Mints
  /\ MaxAmount \in Nat /\ MaxNonce \in Nat

VARIABLES
  account,   \* the token accounts: program that owns them, mint, owner, hook
  amount,    \* what they hold
  mintOf,    \* the program that owns each mint
  intent,    \* the intent signed for each nonce
  nonce

vars == <<account, amount, mintOf, intent, nonce>>

Holders == {"Vault", "Somebody"}
AccountData == [program: Programs, mint: Mints, owner: Holders, hook: BOOLEAN]
Intents == [destination: TokenAccounts, amount: Amounts]

\* A token program makes accounts of its own mints, hooks only for Token-2022
\* mints that have one.
WellFormed(a) ==
  a.program \in TokenPrograms =>
    /\ a.program = mintOf[a.mint]
    /\ a.hook = (a.mint \in HookedMints)

Init ==
  /\ mintOf \in [Mints -> Programs]
  /\ \A m \in HookedMints : mintOf[m] = "Token-2022"
  /\ account \in [TokenAccounts -> AccountData]
  /\ \A t \in TokenAccounts : WellFormed(account[t])
  /\ amount = [t \in TokenAccounts |-> MaxAmount \div Cardinality(TokenAccounts)]
  /\ intent \in [Nonces -> Intents]
  /\ nonce = 0
-----------------------------------------------------------------------------
BugIsSupportedTokenProgram(program) == TRUE
IsSupportedTokenProgram(program) == program \in TokenPrograms

OwnedBy(program, source, destination, mint) ==
  account[source].program = program /\ account[destination].program = program
    /\ mintOf[mint] = program

BugFreeOfHooks(source, destination) == TRUE
\* reject_if_transfer_hook() on the mint and on both accounts.  In a mint as
\* Token-2022 lays it out the walk finds nothing (TokenLayout), so that the
\* accounts' own hook extensions are what counts.
FreeOfHooks(source, destination) == ~account[source].hook /\ ~account[destination].hook

\* The checks of transfer_spl() up to the call.
Checked(source, destination, mint, program) ==
  /\ source # destination
  /\ IsSupportedTokenProgram(program)
  /\ OwnedBy(program, source, destination, mint)
  /\ FreeOfHooks(source, destination)
  /\ account[source].mint = mint /\ account[destination].mint = mint
  /\ account[source].owner = "Vault"
  /\ amount[source] >= intent[nonce].amount

\* transfer_checked of the token programs, on the vault's authority.
TransferChecked(source, destination, mint, n) ==
  /\ account[source].owner = "Vault" /\ account[source].mint = mint
  /\ account[destination].mint = mint
  /\ n <= amount[source] /\ amount[destination] + n \in Amounts
  /\ amount' = [amount EXCEPT ![source] = @ - n, ![destination] = @ + n]

\* Any other program could do whatever the vault's authority allows: move what
\* the vault owns in the accounts it was given.
OtherProgram(source, destination) ==
  \E n \in 1..amount[source] :
    /\ account[source].owner = "Vault" /\ account[source].mint = account[destination].mint
    /\ amount[destination] + n \in Amounts
    /\ amount' = [amount EXCEPT ![source] = @ - n, ![destination] = @ + n]

Invoke(program, source, destination, mint, n) ==
  IF program \in TokenPrograms THEN TransferChecked(source, destination, mint, n)
  ELSE OtherProgram(source, destination)

\* The destination must be the signed one.
ExpectedDestination == {intent[nonce].destination}

\* Bound: MaxNonce.
TransferSpl(source, destination, mint, program) ==
  /\ nonce < MaxNonce
  /\ destination \in ExpectedDestination
  /\ Checked(source, destination, mint, program)
  /\ \/ intent[nonce].amount = 0 /\ UNCHANGED amount
     \/ intent[nonce].amount > 0 /\ Invoke(program, source, destination, mint, intent[nonce].amount)
  /\ nonce' = nonce + 1
  /\ UNCHANGED <<account, mintOf, intent>>

Next ==
  \E source, destination \in TokenAccounts, mint \in Mints, program \in Programs :
    TransferSpl(source, destination, mint, program)

Spec == Init /\ [][Next]_vars
-----------------------------------------------------------------------------
Changed == {t \in TokenAccounts : amount'[t] # amount[t]}

\* Whatever accounts the relayer names, an instruction moves the signed amount
\* from one account of the vault to the signed destination, of the same mint
\* and token program, and touches nothing else.
OnlyTheSignedTransfer ==
  [][\A t \in Changed :
       /\ account[t].program \in TokenPrograms
       /\ \/ t = intent[nonce].destination /\ amount'[t] = amount[t] + intent[nonce].amount
          \/ account[t].owner = "Vault" /\ amount'[t] = amount[t] - intent[nonce].amount
       /\ \A u \in Changed : account[u].mint = account[t].mint
       /\ Cardinality(Changed) = 2]_vars

\* No account with a transfer hook, nor of a mint with one, takes part.
HooksStayOut ==
  [][\A t \in Changed : ~account[t].hook /\ account[t].mint \notin HookedMints]_vars
============================================================================
