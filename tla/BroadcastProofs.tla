--------------------------- MODULE BroadcastProofs ---------------------------
(***************************************************************************)
(* Theorems about BroadcastClient, for any number of operators, any length *)
(* of a fork and any number of polls.                                      *)
(***************************************************************************)
EXTENDS BroadcastClient, SequenceTheorems, TLAPS

NotYetSigned == {"idle", "resolve", "unsigned"}
Locations == NotYetSigned \cup {"send", "submit", "poll"} \cup Ended

\* Everything but the chain.
ClientTypeOK ==
  /\ pc \in [Commands -> Locations]
  /\ options \in [Commands -> Options]
  /\ signed \in [Commands -> Nonces \cup {NoNonce}]
  /\ pollsLeft \in [Commands -> 0..MaxPolls]
  /\ exposed \subseteq Commands /\ inFlight \subseteq Commands

ChainTypeOK ==
  /\ tip \in Seq(Entries) /\ Len(tip) <= MaxTip
  /\ confirmed \in [Commands -> {"none", "ok", "err"}]
  /\ executed \in [Commands -> Nat]
  /\ vault \in Vaults

LEMMA ClusterLeavesClient ==
  ASSUME Cluster
  PROVE  UNCHANGED <<pc, options, signed, pollsLeft, exposed>> /\ inFlight' \subseteq inFlight
BY DEF Cluster, ProcessOwn, ProcessRelayed, ProcessOther, Execute, Process, Lose, Confirm,
       Rollback, clientVars

LEMMA ClientLeavesChain ==
  ASSUME NEW c \in Commands, Start(c) \/ Continue(c)
  PROVE  UNCHANGED <<tip, confirmed, executed, vault>>
BY DEF Start, SignedCommand, SocialInitiate, SocialFinalize, RotateFalcon, RotateFalconRefused, Begin,
       Continue, Sign, NonceUnknown, BuildUnsigned, Prepare, SubmitTransaction, Poll,
       NotConfirmedInTime, clusterVars
-----------------------------------------------------------------------------
(* Types.                                                                  *)

LEMMA ClientTypes ==
  ASSUME ClientTypeOK, NEW c \in Commands, Start(c) \/ Continue(c)
  PROVE  ClientTypeOK'
<1> USE ClientAssumption DEF ClientTypeOK, Locations, NotYetSigned, Ended
<1>1. ASSUME NEW opts \in Options, NEW next \in Locations, Begin(c, opts, next)
      PROVE ClientTypeOK'
  BY <1>1 DEF Begin, Goto, clusterVars
<1>2. CASE Start(c)
  BY <1>1, <1>2
  DEF Start, SignedCommand, SocialInitiate, SocialFinalize, RotateFalcon, RotateFalconRefused
<1>3. CASE Sign(c)
  BY <1>3 DEF Sign, Goto, clusterVars
<1>4. CASE NonceUnknown(c) \/ BuildUnsigned(c) \/ Prepare(c) \/ NotConfirmedInTime(c)
  BY <1>4 DEF NonceUnknown, BuildUnsigned, Prepare, NotConfirmedInTime, Goto, clusterVars
<1>5. CASE SubmitTransaction(c)
  BY <1>5 DEF SubmitTransaction, Goto
<1>6. CASE Poll(c)
  <2>1. pollsLeft' \in [Commands -> 0..MaxPolls]
    BY <1>6 DEF Poll, PollsRemain, CountPoll
  <2>2. pc' \in [Commands -> Locations]
    BY <1>6 DEF Poll, Goto
  <2> QED
    BY <1>6, <2>1, <2>2 DEF Poll, clusterVars
<1> QED
  BY <1>2, <1>3, <1>4, <1>5, <1>6 DEF Continue

LEMMA TipVaultType == ASSUME ChainTypeOK PROVE TipVault \in Vaults
<1>1. tip # <<>> => tip[Len(tip)] \in Entries
  BY DEF ChainTypeOK
<1> QED
  BY <1>1 DEF TipVault, ChainTypeOK, Entries

LEMMA ProcessTypes ==
  ASSUME ChainTypeOK, NEW who \in Commands \cup {Somebody}, NEW isOwn \in BOOLEAN,
         NEW succeeds \in BOOLEAN, NEW after \in Vaults,
         Process(who, isOwn, succeeds, after)
  PROVE  ChainTypeOK'
<1> DEFINE entry == [by |-> who, own |-> isOwn, ok |-> succeeds, vault |-> after]
<1>1. entry \in Entries
  BY DEF Entries
<1>2. tip' = Append(tip, entry) /\ Len(tip) < MaxTip
      /\ UNCHANGED <<confirmed, executed, vault>>
  BY DEF Process
<1> QED
  BY <1>1, <1>2, ClientAssumption DEF ChainTypeOK

LEMMA ChainTypes == ASSUME ClientTypeOK, ChainTypeOK, Cluster PROVE ChainTypeOK'
<1>1. CASE (\E c \in Commands : ProcessOwn(c) \/ ProcessRelayed(c)) \/ ProcessOther
  BY <1>1, ProcessTypes, TipVaultType DEF ProcessOwn, ProcessRelayed, ProcessOther, Execute
<1>2. CASE Confirm
  <2>1. Head(tip) \in Entries /\ Tail(tip) \in Seq(Entries) /\ Len(Tail(tip)) <= MaxTip
    BY <1>2, ClientAssumption DEF Confirm, ChainTypeOK
  <2> QED
    BY <1>2, <2>1 DEF Confirm, ChainTypeOK, Entries
<1>3. CASE Rollback
  BY <1>3, ClientAssumption DEF Rollback, ChainTypeOK
<1>4. CASE \E c \in Commands : Lose(c)
  BY <1>4 DEF Lose, ChainTypeOK
<1> QED
  BY <1>1, <1>2, <1>3, <1>4 DEF Cluster

LEMMA TypeStep == TypeOK /\ [Next]_vars => TypeOK'
<1> SUFFICES ASSUME ClientTypeOK, ChainTypeOK, [Next]_vars
             PROVE ClientTypeOK' /\ ChainTypeOK'
  BY DEF TypeOK, ClientTypeOK, ChainTypeOK, Locations, NotYetSigned
<1>1. CASE Cluster
  <2>1. ClientTypeOK'
    BY <1>1, ClusterLeavesClient DEF ClientTypeOK
  <2> QED
    BY <1>1, <2>1, ChainTypes
<1>2. ASSUME NEW c \in Commands, Start(c) \/ Continue(c)
      PROVE ClientTypeOK' /\ ChainTypeOK'
  BY <1>2, ClientTypes, ClientLeavesChain DEF ChainTypeOK
<1>3. CASE UNCHANGED vars
  BY <1>3 DEF vars, clientVars, clusterVars, ClientTypeOK, ChainTypeOK
<1> QED
  BY <1>1, <1>2, <1>3 DEF Next

LEMMA TypeInit == Init => TypeOK
<1> SUFFICES ASSUME Init PROVE ClientTypeOK /\ ChainTypeOK
  BY DEF TypeOK, ClientTypeOK, ChainTypeOK, Locations, NotYetSigned
<1>1. NoOptions \in Options
  BY DEF NoOptions, Options, Instructions
<1>2. ClientTypeOK
  BY <1>1, ClientAssumption DEF Init, ClientTypeOK, Locations, NotYetSigned
<1>3. ChainTypeOK
  BY ClientAssumption DEF Init, ChainTypeOK, Vaults, Nonces
<1> QED
  BY <1>2, <1>3

\* The model's variables keep their types; in particular polling stops at zero.
THEOREM TypeCorrect == Spec => []TypeOK
BY TypeInit, TypeStep, PTL DEF Spec
-----------------------------------------------------------------------------
(* The invariant.                                                          *)

\* What nobody has signed yet is nowhere outside.
NothingOutBeforeSigning ==
  \A c \in Commands : pc[c] \in NotYetSigned =>
    /\ signed[c] = NoNonce /\ executed[c] = 0 /\ c \notin exposed \cup inFlight
    /\ \A i \in 1..Len(tip) : tip[i].by # c

\* Which nonce a command signs for.
SignedAsAsked ==
  \A c \in Commands : signed[c] # NoNonce =>
    IF options[c].nonce = NoNonce THEN signed[c] <= vault.nonce
    ELSE signed[c] = options[c].nonce

\* What succeeds on the fork moves the vault on as its instruction does, and at
\* the nonce that it was signed for; what fails leaves it.
Follows(before, entry) ==
  IF entry.ok
  THEN \E instruction \in Instructions :
         /\ Moves(instruction, before, entry.vault)
         /\ \A c \in Commands : entry.by = c =>
              /\ options[c].instruction = instruction
              /\ signed[c] # NoNonce => signed[c] = before.nonce
  ELSE entry.vault = before

Before(i) == IF i = 1 THEN vault ELSE tip[i - 1].vault
ForkCounts == \A i \in 1..Len(tip) : Follows(Before(i), tip[i])

\* What was executed lies behind: its nonce is past, or it is the proposal that
\* is pending.
Spent(c) ==
  \/ signed[c] < vault.nonce
  \/ signed[c] = vault.nonce /\ vault.pending /\ options[c].instruction = "initiate"

\* Two of the same instruction do so at two nonces.
ExecutedBehind ==
  \A c \in Commands : signed[c] # NoNonce =>
    /\ executed[c] <= 1
    /\ executed[c] > 0 =>
         /\ Spent(c)
         /\ \A d \in Commands \ {c} :
              executed[d] > 0 /\ SameInstruction(c, d) => signed[d] # signed[c]

SuccessExecuted == \A c \in Commands : confirmed[c] = "ok" => executed[c] >= 1

Inv ==
  /\ TypeOK
  /\ NothingOutBeforeSigning /\ SignedAsAsked
  /\ ForkCounts /\ ExecutedBehind /\ SuccessExecuted /\ SuccessIsFinal

LEMMA InvInit == Init => Inv
BY TypeInit
DEF Init, Inv, NotYetSigned, NothingOutBeforeSigning, SignedAsAsked, ForkCounts,
    ExecutedBehind, SuccessExecuted, SuccessIsFinal

LEMMA StartStep ==
  ASSUME Inv, NEW c \in Commands, Start(c)
  PROVE  Inv'
<1>1. TypeOK /\ TypeOK'
  BY TypeStep DEF Inv, Next
<1>2. /\ pc[c] = "idle" /\ pc'[c] \in {"resolve", "unsigned", "error"}
      /\ \A d \in Commands \ {c} : pc'[d] = pc[d] /\ options'[d] = options[d]
      /\ UNCHANGED <<signed, exposed, inFlight, tip, confirmed, executed, vault>>
  BY <1>1
  DEF Start, SignedCommand, SocialInitiate, SocialFinalize, RotateFalcon, RotateFalconRefused,
      Begin, Goto, clusterVars, TypeOK
<1>3. signed[c] = NoNonce
  BY <1>2 DEF Inv, NothingOutBeforeSigning, NotYetSigned
<1> QED
  BY <1>1, <1>2, <1>3
  DEF Inv, NotYetSigned, NothingOutBeforeSigning, SignedAsAsked, ForkCounts, Before, Follows,
      ExecutedBehind, Spent, SameInstruction, SuccessExecuted, SuccessIsFinal

LEMMA SignStep ==
  ASSUME Inv, NEW c \in Commands, Sign(c)
  PROVE  Inv'
<1>1. TypeOK /\ TypeOK'
  BY TypeStep DEF Inv, Next, Continue
<1>2. PICK n \in Nonces : ResolveNonce(c, n) /\ signed' = [signed EXCEPT ![c] = n]
  BY DEF Sign
<1>3. /\ pc[c] = "resolve" /\ pc'[c] \in {"send", "offline"}
      /\ \A d \in Commands \ {c} :
           pc'[d] = pc[d] /\ signed'[d] = signed[d] /\ (d \in exposed' <=> d \in exposed)
      /\ signed'[c] = n
      /\ UNCHANGED <<options, inFlight, tip, confirmed, executed, vault>>
  BY <1>1, <1>2 DEF Sign, Goto, clusterVars, TypeOK
<1>4. executed[c] = 0 /\ \A i \in 1..Len(tip) : tip[i].by # c
  BY <1>3 DEF Inv, NothingOutBeforeSigning, NotYetSigned
<1>5. NothingOutBeforeSigning'
  BY <1>3 DEF Inv, NotYetSigned, NothingOutBeforeSigning
<1>6. SignedAsAsked'
  BY <1>2, <1>3 DEF Inv, SignedAsAsked, ResolveNonce, Readable
<1>7. ForkCounts'
  BY <1>3, <1>4 DEF Inv, ForkCounts, Before, Follows
<1>8. ExecutedBehind'
  BY <1>3, <1>4 DEF Inv, ExecutedBehind, Spent, SameInstruction
<1>9. SuccessExecuted' /\ SuccessIsFinal'
  BY <1>3 DEF Inv, SuccessExecuted, SuccessIsFinal
<1> QED
  BY <1>1, <1>5, <1>6, <1>7, <1>8, <1>9 DEF Inv

\* From the signature on a command only waits and reports.
LEMMA SignedStep ==
  ASSUME Inv, NEW c \in Commands, Continue(c), ~Sign(c)
  PROVE  Inv'
<1>1. TypeOK /\ TypeOK'
  BY TypeStep DEF Inv, Next
<1>2. /\ \A d \in Commands \ {c} :
           /\ pc'[d] = pc[d]
           /\ d \in exposed' \cup inFlight' <=> d \in exposed \cup inFlight
      /\ UNCHANGED <<options, signed, tip, confirmed, executed, vault>>
  BY <1>1
  DEF Continue, NonceUnknown, BuildUnsigned, Prepare, SubmitTransaction, Poll,
      NotConfirmedInTime, Goto, clusterVars, TypeOK
<1>3. pc'[c] \notin NotYetSigned
  BY <1>1
  DEF Continue, NonceUnknown, BuildUnsigned, Prepare, SubmitTransaction, Poll,
      NotConfirmedInTime, Goto, NotYetSigned, TypeOK
<1>4. pc'[c] = "ok" => confirmed[c] = "ok"
  <2>1. ASSUME Poll(c), pc'[c] = "ok" PROVE confirmed[c] = "ok"
    <3>1. PICK status \in Statuses(c) : ~ReportedFailed(status) /\ ReportedConfirmed(status)
      BY <1>1, <2>1 DEF Poll, Goto, TypeOK
    <3>2. status.level = "confirmed" /\ status.ok
      BY <3>1 DEF ReportedFailed, ReportedConfirmed
    <3>3. confirmed[c] # "none" /\ status = [level |-> "confirmed", ok |-> confirmed[c] = "ok"]
      BY <3>2 DEF Statuses
    <3> QED
      BY <3>2, <3>3
  <2>2. CASE ~Poll(c)
    BY <1>1, <2>2
    DEF Continue, NonceUnknown, BuildUnsigned, Prepare, SubmitTransaction,
        NotConfirmedInTime, Goto, TypeOK
  <2> QED
    BY <2>1, <2>2
<1>5. NothingOutBeforeSigning' /\ SignedAsAsked' /\ ForkCounts'
  BY <1>2, <1>3 DEF Inv, NothingOutBeforeSigning, SignedAsAsked, ForkCounts, Before, Follows
<1>6. ExecutedBehind' /\ SuccessExecuted' /\ SuccessIsFinal'
  BY <1>2, <1>4
  DEF Inv, ExecutedBehind, Spent, SameInstruction, SuccessExecuted, SuccessIsFinal
<1> QED
  BY <1>1, <1>5, <1>6 DEF Inv

\* Whatever is processed goes to the end of the fork, after what is there.
LEMMA ProcessStep ==
  ASSUME Inv, TypeOK', NEW who \in Commands \cup {Somebody}, NEW isOwn \in BOOLEAN,
         NEW succeeds \in BOOLEAN, NEW after \in Vaults,
         Process(who, isOwn, succeeds, after),
         who \in Commands => who \in exposed \cup inFlight,
         Follows(TipVault, [by |-> who, own |-> isOwn, ok |-> succeeds, vault |-> after])
  PROVE  Inv'
<1> DEFINE entry == [by |-> who, own |-> isOwn, ok |-> succeeds, vault |-> after]
<1>1. /\ tip' = Append(tip, entry)
      /\ UNCHANGED <<pc, options, signed, exposed, inFlight, confirmed, executed, vault>>
  BY DEF Process, clientVars
<1>2. tip \in Seq(Entries)
  BY DEF Inv, TypeOK
<1>3. /\ Len(tip) \in Nat /\ Len(tip') = Len(tip) + 1 /\ tip'[Len(tip')] = entry
      /\ \A i \in 1..Len(tip) : tip'[i] = tip[i]
  BY <1>1, <1>2
<1>4. TipVault = IF Len(tip') = 1 THEN vault ELSE tip[Len(tip') - 1].vault
  BY <1>2, <1>3 DEF TipVault
<1>5. NothingOutBeforeSigning'
  BY <1>1, <1>3 DEF Inv, NothingOutBeforeSigning
<1>6. ASSUME NEW i \in 1..Len(tip')
      PROVE  Follows(Before(i), tip[i])'
  <2>1. CASE i = Len(tip')
    <3>1. Before(i)' = TipVault
      BY <1>1, <1>3, <1>4, <2>1 DEF Before
    <3>2. tip'[i] = entry
      BY <1>3, <2>1
    <3> QED
      BY <1>1, <3>1, <3>2 DEF Follows
  <2>2. CASE i \in 1..Len(tip)
    <3>1. Before(i)' = Before(i)
      BY <1>1, <1>3, <2>2 DEF Before
    <3>2. Follows(Before(i), tip[i]) /\ tip'[i] = tip[i]
      BY <1>3, <2>2 DEF Inv, ForkCounts
    <3> QED
      BY <1>1, <3>1, <3>2 DEF Follows
  <2> QED
    BY <1>3, <2>1, <2>2
<1>7. ForkCounts'
  BY <1>1, <1>6 DEF ForkCounts
<1> QED
  BY <1>1, <1>5, <1>7
  DEF Inv, SignedAsAsked, ExecutedBehind, Spent, SameInstruction, SuccessExecuted, SuccessIsFinal

\* What executes keeps its place on the fork.
LEMMA ExecuteStep ==
  ASSUME Inv, TypeOK', NEW c \in exposed \cup inFlight, NEW isOwn \in BOOLEAN, Execute(c, isOwn)
  PROVE  Inv'
<1>1. c \in Commands /\ options[c].instruction \in Instructions
  BY DEF Inv, TypeOK, Options
<1>2. PICK after \in Vaults :
        Moves(options[c].instruction, TipVault, after) /\ Process(c, isOwn, TRUE, after)
  BY DEF Execute
<1>3. Follows(TipVault, [by |-> c, own |-> isOwn, ok |-> TRUE, vault |-> after])
  BY <1>1, <1>2 DEF Follows, Execute, AcceptsNonce
<1> QED
  BY <1>1, <1>2, <1>3, ProcessStep

LEMMA ProcessedStep ==
  ASSUME Inv, TypeOK', NEW c \in Commands, ProcessOwn(c) \/ ProcessRelayed(c)
  PROVE  Inv'
<1>1. CASE Execute(c, TRUE) /\ c \in inFlight
  BY <1>1, ExecuteStep
<1>2. CASE Execute(c, FALSE) /\ c \in exposed
  BY <1>2, ExecuteStep
<1>3. CASE Process(c, TRUE, FALSE, TipVault) /\ c \in inFlight
  <2>1. Follows(TipVault, [by |-> c, own |-> TRUE, ok |-> FALSE, vault |-> TipVault])
    BY DEF Follows
  <2>2. TipVault \in Vaults
    BY TipVaultType DEF Inv, TypeOK, ChainTypeOK
  <2> QED
    BY <1>3, <2>1, <2>2, ProcessStep
<1> QED
  BY <1>1, <1>2, <1>3 DEF ProcessOwn, ProcessRelayed

LEMMA OthersStep == ASSUME Inv, TypeOK', ProcessOther PROVE Inv'
<1>1. PICK instruction \in Instructions, after \in Vaults :
        Moves(instruction, TipVault, after) /\ Process(Somebody, FALSE, TRUE, after)
  BY DEF ProcessOther
<1>2. Follows(TipVault, [by |-> Somebody, own |-> FALSE, ok |-> TRUE, vault |-> after])
  BY <1>1, ClientAssumption DEF Follows
<1> QED
  BY <1>1, <1>2, ProcessStep, ClientAssumption

\* What is confirmed is the first of the fork: the vault becomes what follows.
Confirmed(c) == tip[1].ok /\ tip[1].by = c

LEMMA ConfirmFacts ==
  ASSUME Inv, Confirm
  PROVE  /\ Len(tip) \in Nat \ {0} /\ tip[1] \in Entries
         /\ Len(tip') = Len(tip) - 1 /\ \A i \in 1..Len(tip') : tip'[i] = tip[i + 1]
         /\ vault' = tip[1].vault
         /\ UNCHANGED <<pc, options, signed, exposed>> /\ inFlight' \subseteq inFlight
         /\ \A c \in Commands :
              /\ executed'[c] = executed[c] + IF Confirmed(c) THEN 1 ELSE 0
              /\ confirmed'[c] = "ok" => confirmed[c] = "ok" \/ Confirmed(c)
<1>1. tip \in Seq(Entries) /\ tip # <<>>
  BY DEF Inv, TypeOK, Confirm
<1>2. Len(tip) \in Nat \ {0} /\ tip[1] \in Entries /\ Head(tip) = tip[1]
  BY <1>1
<1>3. /\ tip' = Tail(tip) /\ vault' = tip[1].vault
      /\ UNCHANGED <<pc, options, signed, exposed>> /\ inFlight' \subseteq inFlight
  BY <1>2 DEF Confirm, clientVars
<1>4. Len(tip') = Len(tip) - 1 /\ \A i \in 1..Len(tip') : tip'[i] = tip[i + 1]
  BY <1>1, <1>3
<1>5. ASSUME NEW c \in Commands
      PROVE  /\ executed'[c] = executed[c] + IF Confirmed(c) THEN 1 ELSE 0
             /\ confirmed'[c] = "ok" => confirmed[c] = "ok" \/ Confirmed(c)
  BY <1>2 DEF Confirm, Confirmed
<1> QED
  BY <1>2, <1>3, <1>4, <1>5

\* The nonce moves on by one, or a proposal becomes pending; a command whose
\* instruction it was had signed for the nonce that there was.
LEMMA ConfirmMoves ==
  ASSUME Inv, Confirm
  PROVE  /\ vault.nonce \in Nat /\ vault'.nonce \in {vault.nonce, vault.nonce + 1}
         /\ vault'.nonce = vault.nonce => (vault.pending => vault' = vault)
         /\ \A c \in Commands : Confirmed(c) =>
              /\ pc[c] \notin NotYetSigned
              /\ signed[c] # NoNonce => signed[c] = vault.nonce
              /\ \/ vault'.nonce = vault.nonce + 1 /\ options[c].instruction # "initiate"
                 \/ /\ vault'.nonce = vault.nonce /\ ~vault.pending /\ vault'.pending
                    /\ options[c].instruction = "initiate"
<1>1. 1 \in 1..Len(tip) /\ Follows(vault, tip[1]) /\ vault' = tip[1].vault
  <2>1. 1 \in 1..Len(tip) /\ vault' = tip[1].vault
    BY ConfirmFacts
  <2> QED
    BY <2>1 DEF Inv, ForkCounts, Before
<1>2. vault \in Vaults /\ vault.nonce \in Nat
  BY ClientAssumption DEF Inv, TypeOK, Vaults, Nonces
<1>3. CASE ~tip[1].ok
  <2>1. vault' = vault
    BY <1>1, <1>3 DEF Follows
  <2> QED
    BY <1>2, <1>3, <2>1 DEF Confirmed
<1>4. CASE tip[1].ok
  <2>1. PICK instruction \in Instructions :
          /\ Moves(instruction, vault, vault')
          /\ \A c \in Commands : tip[1].by = c =>
               /\ options[c].instruction = instruction
               /\ signed[c] # NoNonce => signed[c] = vault.nonce
    BY <1>1, <1>4 DEF Follows
  <2>2. \/ vault'.nonce = vault.nonce + 1 /\ instruction # "initiate"
        \/ /\ vault'.nonce = vault.nonce /\ ~vault.pending /\ vault'.pending
           /\ instruction = "initiate"
    BY <1>2, <2>1 DEF Moves, IntentMoves, InitiateMoves, FinalizeMoves, Vaults
  <2>3. ASSUME NEW c \in Commands, Confirmed(c) PROVE pc[c] \notin NotYetSigned
    BY <1>1, <2>3 DEF Confirmed, Inv, NothingOutBeforeSigning
  <2> QED
    BY <1>2, <2>1, <2>2, <2>3 DEF Confirmed
<1> QED
  BY <1>3, <1>4

LEMMA ConfirmStep ==
  ASSUME Inv, TypeOK', Confirm
  PROVE  Inv'
<1>1. /\ vault.nonce \in Nat /\ executed \in [Commands -> Nat]
      /\ \A c \in Commands : signed[c] # NoNonce => signed[c] \in Nat
  BY ClientAssumption, ConfirmMoves DEF Inv, TypeOK, Nonces
<1>2. NothingOutBeforeSigning'
  <2> SUFFICES ASSUME NEW c \in Commands, pc[c] \in NotYetSigned
               PROVE  /\ signed[c] = NoNonce /\ executed'[c] = 0
                      /\ c \notin exposed \cup inFlight'
                      /\ \A i \in 1..Len(tip') : tip'[i].by # c
    BY ConfirmFacts DEF NothingOutBeforeSigning
  <2>1. /\ signed[c] = NoNonce /\ executed[c] = 0 /\ c \notin exposed \cup inFlight
        /\ \A i \in 1..Len(tip) : tip[i].by # c
    BY DEF Inv, NothingOutBeforeSigning
  <2>2. executed'[c] = 0 /\ c \notin exposed \cup inFlight'
    BY <2>1, ConfirmFacts, ConfirmMoves
  <2>3. ASSUME NEW i \in 1..Len(tip') PROVE tip'[i].by # c
    <3>1. i + 1 \in 1..Len(tip) /\ tip'[i] = tip[i + 1]
      BY ConfirmFacts
    <3> QED
      BY <2>1, <3>1
  <2> QED
    BY <2>1, <2>2, <2>3
<1>3. SignedAsAsked'
  BY <1>1, ConfirmFacts, ConfirmMoves DEF Inv, SignedAsAsked
<1>4. ASSUME NEW i \in 1..Len(tip')
      PROVE  Follows(Before(i), tip[i])'
  <2>1. i + 1 \in 1..Len(tip) /\ i + 1 # 1 /\ (i + 1) - 1 = i
    BY ConfirmFacts
  <2>2. tip'[i] = tip[i + 1] /\ signed' = signed /\ options' = options
    BY ConfirmFacts
  <2>3. Before(i)' = Before(i + 1)
    <3>1. CASE i = 1
      BY <2>1, <3>1, ConfirmFacts DEF Before
    <3>2. CASE i # 1
      <4>1. i - 1 \in 1..Len(tip') /\ (i - 1) + 1 = i
        BY <3>2, ConfirmFacts
      <4>2. tip'[i - 1] = tip[i]
        BY <4>1, ConfirmFacts
      <4> QED
        BY <2>1, <3>2, <4>2 DEF Before
    <3> QED
      BY <3>1, <3>2
  <2>4. Follows(Before(i + 1), tip[i + 1])
    BY <2>1 DEF Inv, ForkCounts
  <2> QED
    BY <2>2, <2>3, <2>4 DEF Follows
<1>5. ForkCounts'
  BY <1>4 DEF ForkCounts
<1>6. ExecutedBehind'
  <2> SUFFICES ASSUME NEW c \in Commands, signed[c] # NoNonce
               PROVE  /\ executed'[c] <= 1
                      /\ executed'[c] > 0 =>
                           /\ Spent(c)'
                           /\ \A d \in Commands \ {c} :
                                executed'[d] > 0 /\ SameInstruction(c, d) => signed[d] # signed[c]
    BY ConfirmFacts DEF ExecutedBehind, SameInstruction
  <2>1. ASSUME NEW d \in Commands, signed[d] # NoNonce, Spent(d)
        PROVE  Spent(d)' /\ ~Confirmed(d)
    BY <1>1, <2>1, ConfirmFacts, ConfirmMoves DEF Spent
  <2>2. ASSUME NEW d \in Commands, signed[d] # NoNonce, Confirmed(d)
        PROVE  /\ Spent(d)' /\ executed'[d] = 1
               /\ \A e \in Commands \ {d} :
                    /\ executed'[e] > 0 /\ signed[e] # NoNonce /\ SameInstruction(d, e)
                    => signed[e] # signed[d]
    <3>1. Spent(d)' /\ signed[d] = vault.nonce
      BY <1>1, <2>2, ConfirmFacts, ConfirmMoves DEF Spent
    <3>2. executed[d] = 0
      BY <1>1, <2>1, <2>2 DEF Inv, ExecutedBehind
    <3>3. ASSUME NEW e \in Commands \ {d}, executed'[e] > 0, signed[e] # NoNonce,
                 SameInstruction(d, e)
          PROVE  signed[e] # signed[d]
      <4>1. ~Confirmed(e)
        BY <2>2 DEF Confirmed
      <4>2. executed[e] > 0
        BY <1>1, <3>3, <4>1, ConfirmFacts
      <4>3. Spent(e)
        BY <3>3, <4>2 DEF Inv, ExecutedBehind
      <4> QED
        BY <1>1, <2>2, <3>1, <3>3, <4>3, ConfirmMoves DEF Spent, SameInstruction
    <3> QED
      BY <1>1, <2>2, <3>1, <3>2, <3>3, ConfirmFacts
  <2>3. CASE Confirmed(c)
    BY <1>1, <2>2, <2>3
  <2>4. CASE ~Confirmed(c)
    <3>1. executed'[c] = executed[c]
      BY <1>1, <2>4, ConfirmFacts
    <3>2. executed[c] <= 1 /\ (executed[c] > 0 => Spent(c)')
      BY <2>1 DEF Inv, ExecutedBehind
    <3>3. ASSUME NEW d \in Commands \ {c}, executed[c] > 0, executed'[d] > 0,
                 SameInstruction(c, d)
          PROVE  signed[d] # signed[c]
      <4>1. CASE Confirmed(d)
        BY <1>1, <2>2, <3>1, <3>3, <4>1 DEF SameInstruction
      <4>2. CASE ~Confirmed(d)
        <5>1. executed[d] > 0
          BY <1>1, <3>3, <4>2, ConfirmFacts
        <5> QED
          BY <3>3, <5>1 DEF Inv, ExecutedBehind
      <4> QED
        BY <4>1, <4>2
    <3> QED
      BY <3>1, <3>2, <3>3
  <2> QED
    BY <2>3, <2>4
<1>7. SuccessExecuted' /\ SuccessIsFinal'
  BY <1>1, ConfirmFacts, ConfirmMoves DEF Inv, SuccessExecuted, SuccessIsFinal
<1> QED
  BY <1>2, <1>3, <1>5, <1>6, <1>7 DEF Inv

LEMMA InvStep == Inv /\ [Next]_vars => Inv'
<1> SUFFICES ASSUME Inv, [Next]_vars PROVE Inv'
  OBVIOUS
<1>0. TypeOK'
  BY TypeStep DEF Inv
<1>1. ASSUME NEW c \in Commands, Start(c) \/ Continue(c) PROVE Inv'
  BY <1>1, StartStep, SignStep, SignedStep
<1>2. CASE (\E c \in Commands : ProcessOwn(c) \/ ProcessRelayed(c)) \/ ProcessOther
  BY <1>0, <1>2, ProcessedStep, OthersStep
<1>3. CASE Confirm
  BY <1>0, <1>3, ConfirmStep
<1>4. CASE Rollback
  BY <1>0, <1>4
  DEF Rollback, clientVars, Inv, NothingOutBeforeSigning, SignedAsAsked, ForkCounts,
      ExecutedBehind, Spent, SameInstruction, SuccessExecuted, SuccessIsFinal
<1>5. CASE \E c \in Commands : Lose(c)
  BY <1>0, <1>5
  DEF Lose, clientVars, Inv, NothingOutBeforeSigning, SignedAsAsked, ForkCounts, Before,
      Follows, ExecutedBehind, Spent, SameInstruction, SuccessExecuted, SuccessIsFinal
<1>6. CASE UNCHANGED vars
  BY <1>0, <1>6
  DEF vars, clientVars, clusterVars, Inv, NothingOutBeforeSigning, SignedAsAsked, ForkCounts,
      Before, Follows, ExecutedBehind, Spent, SameInstruction, SuccessExecuted, SuccessIsFinal
<1> QED
  BY <1>1, <1>2, <1>3, <1>4, <1>5, <1>6 DEF Next, Cluster
-----------------------------------------------------------------------------
\* A command reports success only for a transaction of its own that executed on
\* the confirmed chain.
THEOREM SuccessStaysFinal == Spec => []SuccessIsFinal
<1>1. Inv => SuccessIsFinal
  BY DEF Inv
<1> QED
  BY <1>1, InvInit, InvStep, PTL DEF Spec

\* Two commands that signed the same kind of instruction, intents or proposals,
\* for the same nonce never both report success.
THEOREM NonceSucceedsOnce == Spec => []OneSuccessPerNonce
<1>1. Inv => OneSuccessPerNonce
  <2> SUFFICES ASSUME Inv, NEW c \in Commands, NEW d \in Commands, c # d,
                      SameInstruction(c, d), pc[c] = "ok", pc[d] = "ok", signed[c] # NoNonce
               PROVE signed[c] # signed[d]
    BY DEF OneSuccessPerNonce
  <2>1. executed[c] > 0 /\ executed[d] > 0
    BY DEF Inv, TypeOK, SuccessIsFinal
  <2> QED
    BY <2>1 DEF Inv, ExecutedBehind
<1> QED
  BY <1>1, InvInit, InvStep, PTL DEF Spec

\* However often a payment is run again with the same --nonce, it is made at
\* most once, and no other intent for that nonce besides.
THEOREM PinnedPaysOnce == Spec => []PinnedRetriesPayOnce
<1>1. Inv => PinnedRetriesPayOnce
  BY ClientAssumption
  DEF Inv, ExecutedBehind, SignedAsAsked, SameInstruction, PinnedRetriesPayOnce
<1> QED
  BY <1>1, InvInit, InvStep, PTL DEF Spec

\* Once the confirmed nonce is past the one a command signed for, its payment
\* is not made any more, whatever was reported and whoever relays it.
THEOREM DeadStaysDead == Spec => DeadOncePassed
<1> DEFINE Dead == \A c \in Commands :
             signed[c] # NoNonce =>
               /\ signed[c] < vault.nonce => executed'[c] = executed[c]
               /\ pc[c] \in Ended /\ options[c].nonce = NoNonce => signed[c] <= vault.nonce
<1>1. Inv /\ [Next]_vars => [Dead]_vars
  <2> SUFFICES ASSUME Inv, Next, NEW c \in Commands, signed[c] # NoNonce
               PROVE /\ signed[c] < vault.nonce => executed'[c] = executed[c]
                     /\ options[c].nonce = NoNonce => signed[c] <= vault.nonce
    OBVIOUS
  <2>1. vault.nonce \in Nat /\ signed[c] \in Nat /\ executed[c] \in Nat
    BY ClientAssumption DEF Inv, TypeOK, Vaults, Nonces
  <2>2. options[c].nonce = NoNonce => signed[c] <= vault.nonce
    BY DEF Inv, SignedAsAsked
  <2>3. CASE Confirm
    BY <2>1, <2>2, <2>3, ConfirmFacts, ConfirmMoves
  <2>4. ~Confirm => executed' = executed
    BY ClientLeavesChain
    DEF Next, Cluster, ProcessOwn, ProcessRelayed, ProcessOther, Execute, Process, Lose, Rollback
  <2> QED
    BY <2>2, <2>3, <2>4
<1> QED
  BY <1>1, InvInit, InvStep, PTL DEF Spec, DeadOncePassed
===============================================================================
