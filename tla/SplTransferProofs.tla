------------------------- MODULE SplTransferProofs -------------------------
(***************************************************************************)
(* Theorems about SplTransfer: which accounts a token transfer can reach,  *)
(* for any accounts, mints and signed intents.                             *)
(***************************************************************************)
EXTENDS SplTransfer, FiniteSetTheorems, TLAPS

Types ==
  /\ account \in [TokenAccounts -> AccountData]
  /\ amount \in [TokenAccounts -> Nat]
  /\ mintOf \in [Mints -> Programs]
  /\ intent \in [Nonces -> Intents]
  /\ nonce \in Nat

\* The relayer chooses among accounts that the token programs keep well formed.
AsTheProgramsKeepThem ==
  /\ \A m \in HookedMints : mintOf[m] = "Token-2022"
  /\ \A t \in TokenAccounts : WellFormed(account[t])

Inv == Types /\ AsTheProgramsKeepThem

LEMMA InvInit == Init => Inv
<1> SUFFICES ASSUME Init PROVE Inv
  OBVIOUS
<1>1. ASSUME NEW t \in TokenAccounts
      PROVE  MaxAmount \div Cardinality(TokenAccounts) \in Nat
  <2>1. Cardinality(TokenAccounts) \in Nat /\ Cardinality(TokenAccounts) # 0
    BY FS_CardinalityType, FS_EmptySet, SplAssumption
  <2>2. ASSUME NEW m \in Nat, NEW c \in Nat, c > 0 PROVE m \div c \in Nat
    BY <2>2
  <2> QED
    BY <2>1, <2>2, SplAssumption
<1>2. amount \in [TokenAccounts -> Nat]
  BY <1>1 DEF Init
<1> QED
  BY <1>2 DEF Init, Inv, Types, AsTheProgramsKeepThem

\* What an accepted transfer does: two accounts change, by the signed amount.
Moved(source, destination) ==
  LET n == intent[nonce].amount
  IN  amount' = [amount EXCEPT ![source] = @ - n, ![destination] = @ + n]

LEMMA TransferFacts ==
  ASSUME Inv,
         NEW source \in TokenAccounts, NEW destination \in TokenAccounts,
         NEW mint \in Mints, NEW program \in Programs,
         TransferSpl(source, destination, mint, program)
  PROVE  /\ intent[nonce].amount \in Nat
         /\ source # destination /\ destination = intent[nonce].destination
         /\ program \in TokenPrograms /\ account[source].owner = "Vault"
         /\ \A t \in {source, destination} :
              /\ account[t].program = program /\ account[t].mint = mint
              /\ ~account[t].hook /\ mint \notin HookedMints
         /\ \/ amount' = amount
            \/ /\ intent[nonce].amount > 0
               /\ intent[nonce].amount <= amount[source]
               /\ Moved(source, destination)
<1>1. intent[nonce] \in Intents
  BY SplAssumption DEF TransferSpl, Inv, Types, Nonces
<1>2. intent[nonce].amount \in Nat
  BY <1>1, SplAssumption DEF Intents, Amounts
<1>3. Checked(source, destination, mint, program) /\ destination = intent[nonce].destination
  BY DEF TransferSpl, ExpectedDestination
<1>4. program \in TokenPrograms
  BY <1>3 DEF Checked, IsSupportedTokenProgram
<1>5. WellFormed(account[source]) /\ account[source] \in AccountData
  BY DEF Inv, Types, AsTheProgramsKeepThem
<1>6. mint \notin HookedMints
  BY <1>3, <1>4, <1>5
  DEF Checked, OwnedBy, FreeOfHooks, WellFormed, AccountData
<1>7. \/ amount' = amount
      \/ intent[nonce].amount > 0
           /\ TransferChecked(source, destination, mint, intent[nonce].amount)
  BY <1>4 DEF TransferSpl, Invoke
<1> QED
  BY <1>2, <1>3, <1>4, <1>6, <1>7
  DEF Checked, OwnedBy, FreeOfHooks, TransferChecked, Moved

LEMMA InvStep == Inv /\ [Next]_vars => Inv'
<1> SUFFICES ASSUME Inv, [Next]_vars PROVE Inv'
  OBVIOUS
<1>1. CASE UNCHANGED vars
  BY <1>1 DEF vars, Inv, Types, AsTheProgramsKeepThem, WellFormed
<1>2. ASSUME NEW source \in TokenAccounts, NEW destination \in TokenAccounts,
             NEW mint \in Mints, NEW program \in Programs,
             TransferSpl(source, destination, mint, program)
      PROVE  Inv'
  <2>1. nonce' \in Nat /\ UNCHANGED <<account, mintOf, intent>>
    BY <1>2 DEF TransferSpl, Inv, Types
  <2>2. amount' \in [TokenAccounts -> Nat]
    <3>1. CASE amount' = amount
      BY <3>1 DEF Inv, Types
    <3>2. CASE Moved(source, destination) /\ amount' # amount
      <4>1. amount[source] - intent[nonce].amount \in Nat
        BY <1>2, <3>2, TransferFacts DEF Inv, Types
      <4>2. amount[destination] + intent[nonce].amount \in Nat
        BY <1>2, <3>2, TransferFacts DEF Inv, Types
      <4>3. source # destination
        BY <1>2, TransferFacts
      <4> QED
        BY <3>2, <4>1, <4>2, <4>3 DEF Moved, Inv, Types
    <3> QED
      BY <1>2, <3>1, <3>2, TransferFacts
  <2> QED
    BY <2>1, <2>2 DEF Inv, Types, AsTheProgramsKeepThem, WellFormed
<1> QED
  BY <1>1, <1>2 DEF Next

\* The two accounts that an accepted transfer changes, if it changes any.
LEMMA ChangedFacts ==
  ASSUME Inv,
         NEW source \in TokenAccounts, NEW destination \in TokenAccounts,
         NEW mint \in Mints, NEW program \in Programs,
         TransferSpl(source, destination, mint, program), Changed # {}
  PROVE  /\ Changed = {source, destination}
         /\ amount'[source] = amount[source] - intent[nonce].amount
         /\ amount'[destination] = amount[destination] + intent[nonce].amount
<1> DEFINE n == intent[nonce].amount
<1>1. amount' # amount
  BY DEF Changed
<1>2. n \in Nat /\ n > 0 /\ source # destination /\ Moved(source, destination)
  BY <1>1, TransferFacts
<1>3. amount[source] \in Nat /\ amount[destination] \in Nat
  BY DEF Inv, Types
<1>4. amount'[source] = amount[source] - n /\ amount'[destination] = amount[destination] + n
  BY <1>2 DEF Moved, Inv, Types
<1>5. \A t \in TokenAccounts \ {source, destination} : amount'[t] = amount[t]
  BY <1>2 DEF Moved, Inv, Types
<1>6. amount'[source] # amount[source] /\ amount'[destination] # amount[destination]
  BY <1>2, <1>3, <1>4
<1> QED
  BY <1>4, <1>5, <1>6 DEF Changed
-----------------------------------------------------------------------------
\* Whatever accounts, mint and program the relayer names, the signed amount and
\* no other goes from one account of the vault to the signed destination.
THEOREM TransfersAreTheSigned == Spec => OnlyTheSignedTransfer
<1> DEFINE AsSigned(t) ==
             /\ account[t].program \in TokenPrograms
             /\ \/ t = intent[nonce].destination /\ amount'[t] = amount[t] + intent[nonce].amount
                \/ account[t].owner = "Vault" /\ amount'[t] = amount[t] - intent[nonce].amount
             /\ \A u \in Changed : account[u].mint = account[t].mint
             /\ Cardinality(Changed) = 2
<1>1. Inv /\ [Next]_vars => [\A t \in Changed : AsSigned(t)]_vars
  <2> SUFFICES ASSUME Inv, Next, NEW t \in Changed PROVE AsSigned(t)
    OBVIOUS
  <2>1. PICK source \in TokenAccounts, destination \in TokenAccounts,
             mint \in Mints, program \in Programs :
               TransferSpl(source, destination, mint, program)
    BY DEF Next
  <2>2. /\ Changed = {source, destination}
        /\ amount'[source] = amount[source] - intent[nonce].amount
        /\ amount'[destination] = amount[destination] + intent[nonce].amount
    BY <2>1, ChangedFacts
  <2>3. /\ source # destination /\ destination = intent[nonce].destination
        /\ program \in TokenPrograms /\ account[source].owner = "Vault"
        /\ \A u \in {source, destination} :
             account[u].program = program /\ account[u].mint = mint
    BY <2>1, TransferFacts
  <2>4. Cardinality({source, destination}) = 2
    <3>1. IsFiniteSet({source}) /\ Cardinality({source}) = 1
      BY FS_Singleton
    <3>2. Cardinality({source} \cup {destination}) = Cardinality({source}) + 1
      <4>1. destination \notin {source}
        BY <2>3
      <4> QED
        BY <3>1, <4>1, FS_AddElement, Zenon
    <3>3. {source, destination} = {source} \cup {destination}
      OBVIOUS
    <3> QED
      BY <3>1, <3>2, <3>3
  <2> QED
    BY <2>2, <2>3, <2>4
<1> QED
  BY <1>1, InvInit, InvStep, PTL DEF Spec, OnlyTheSignedTransfer

\* No hooked account takes part, nor one of a hooked mint, although the walk
\* over a mint as Token-2022 lays it out does not find the hook.
THEOREM NoHookRuns == Spec => HooksStayOut
<1>1. Inv /\ [Next]_vars =>
        [\A t \in Changed : ~account[t].hook /\ account[t].mint \notin HookedMints]_vars
  <2> SUFFICES ASSUME Inv, Next, NEW t \in Changed
               PROVE  ~account[t].hook /\ account[t].mint \notin HookedMints
    OBVIOUS
  <2>1. PICK source \in TokenAccounts, destination \in TokenAccounts,
             mint \in Mints, program \in Programs :
               TransferSpl(source, destination, mint, program)
    BY DEF Next
  <2>2. t \in {source, destination}
    BY <2>1, ChangedFacts
  <2> QED
    BY <2>1, <2>2, TransferFacts
<1> QED
  BY <1>1, InvInit, InvStep, PTL DEF Spec, HooksStayOut
=============================================================================
