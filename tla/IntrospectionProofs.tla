------------------------ MODULE IntrospectionProofs ------------------------
(***************************************************************************)
(* Proofs that the program is convinced only by the owner's signature over *)
(* the digest, for any sets of keys and digests and any number of          *)
(* signatures made; and that no list of accounts, however often edited,    *)
(* makes an instruction change another vault than the one it was signed    *)
(* for.                                                                    *)
(***************************************************************************)
EXTENDS AccountLists, TLAPS

\* What the transaction is made of, which no step changes.
Transaction ==
  /\ data \in [Places -> [key: Ed25519Keys, signature: made, message: Messages]]
  /\ made \subseteq AllSignatures
  /\ previous \in Headers
  /\ RuntimeAccepts

AcceptedInv ==
  /\ Transaction
  /\ accepted # "pending" => (accepted = "yes" <=> VerifyEd25519Precompile)

\* The precompile verified the very bytes that the program compares: with all
\* three offsets inside the instruction, key and message are the ones it reads.
LEMMA VerifiedMeansOwnerSigned ==
  Transaction /\ VerifyEd25519Precompile => OwnerSignature \in made
<1> SUFFICES ASSUME Transaction, VerifyEd25519Precompile
             PROVE  OwnerSignature \in made
  OBVIOUS
<1> DEFINE signature == data["self"].signature
<1>1. signature \in made /\ signature \in AllSignatures
  BY DEF Transaction, Places
<1>2. signature.by = owner
  BY DEF Transaction, RuntimeAccepts, VerifyEd25519Precompile, SelfContained
<1>3. signature.over.head = digest /\ signature.over.size = "digest"
  BY DEF Transaction, RuntimeAccepts, VerifyEd25519Precompile, SelfContained, IsDigestSized
<1>4. signature = OwnerSignature
  BY <1>1, <1>2, <1>3 DEF AllSignatures, Messages, OwnerSignature
<1> QED BY <1>1, <1>4

LEMMA AcceptedInit == Init \/ ListInit => AcceptedInv
<1>1. Init => AcceptedInv
  BY DEF Init, AcceptedInv, Transaction
<1>2. ASSUME ListInit, ~Init PROVE AcceptedInv
  <2>1. /\ made = {OwnerSignature} /\ accepted = "pending"
        /\ previous = [ClientHeader EXCEPT !.program = IF signed THEN "Ed25519" ELSE "Unrelated"]
        /\ data = [p \in Places |-> [key |-> owner, signature |-> OwnerSignature,
                                     message |-> OwnerSignature.over]]
    BY <1>2 DEF ListInit
  <2>2. OwnerSignature \in AllSignatures /\ OwnerSignature.over \in Messages
    BY IntrospectionAssumption DEF OwnerSignature, AllSignatures, Messages
  <2>3. previous \in Headers
    BY <2>1 DEF ClientHeader, Headers, Places
  <2>4. RuntimeAccepts
    BY <2>1, <2>2 DEF RuntimeAccepts, OwnerSignature, ClientHeader, Places
  <2> QED
    BY <2>1, <2>2, <2>3, <2>4, IntrospectionAssumption DEF AcceptedInv, Transaction
<1> QED
  BY <1>1, <1>2

\* The transaction is fixed, and the verdict follows from it (ed25519.rs
\* verify_ed25519_precompile).
LEMMA AcceptedStep == AcceptedInv /\ ([Next]_vars \/ [ListNext]_avars) => AcceptedInv'
<1> SUFFICES ASSUME AcceptedInv, [Next]_vars \/ [ListNext]_avars
             PROVE  AcceptedInv'
  OBVIOUS
<1>0. Verify \/ UNCHANGED vars
  BY DEF Next, ListNext, EditList, Process, avars
<1>1. UNCHANGED <<made, previous, data>>
  BY <1>0 DEF Verify, vars
<1>2. Transaction'
  BY <1>1 DEF AcceptedInv, Transaction, RuntimeAccepts
<1>3. VerifyEd25519Precompile' = VerifyEd25519Precompile
  BY <1>1 DEF VerifyEd25519Precompile, SelfContained, IsDigestSized
<1>4. accepted' # "pending" => (accepted' = "yes" <=> VerifyEd25519Precompile)
  BY <1>0 DEF Verify, vars, AcceptedInv
<1> QED
  BY <1>2, <1>3, <1>4 DEF AcceptedInv

\* However a relayer arranges the transaction, the program is convinced only
\* if the owner's key signed exactly the digest (ed25519.rs:119).
THEOREM OwnerSigned == ListSpec => []AcceptedMeansOwnerSigned
<1>1. AcceptedInv => AcceptedMeansOwnerSigned
  BY VerifiedMeansOwnerSigned DEF AcceptedInv, AcceptedMeansOwnerSigned
<1> QED
  BY <1>1, AcceptedInit, AcceptedStep, PTL DEF ListSpec

\* What the client puts before the vault's instruction convinces it.
THEOREM ClientConvinces == ListSpec => []ClientIsAccepted
<1>1. AcceptedInv => ClientIsAccepted
  BY DEF AcceptedInv, ClientIsAccepted, VerifyEd25519Precompile, SelfContained, IsDigestSized,
         OwnerSignature
<1> QED
  BY <1>1, AcceptedInit, AcceptedStep, PTL DEF ListSpec
-----------------------------------------------------------------------------
(* Lists of accounts.                                                      *)

\* What was changed is what the checks passed for, on the list as it stands.
ListInv ==
  /\ kind \in Kinds \cup {"none"}
  /\ kind = "none" => outcome = "none"
  /\ kind \in Kinds =>
       previous = [ClientHeader EXCEPT !.program = IF signed THEN "Ed25519" ELSE "Unrelated"]
  /\ outcome = "done" => Checked /\ effects = Changes

LEMMA ListInvInit == ListInit => ListInv
<1>1. "none" \notin Kinds
  BY DEF Kinds, ClientList
<1> QED
  BY <1>1 DEF ListInit, ListInv

LEMMA ListInvStep == ListInv /\ [ListNext]_avars => ListInv'
<1> SUFFICES ASSUME ListInv, [ListNext]_avars PROVE ListInv'
  OBVIOUS
<1> USE DEF ListInv
<1>1. CASE kind = "none" /\ Next /\ UNCHANGED <<listVars, outcome, effects>>
  <2>1. outcome' = "none" /\ kind' = "none"
    BY <1>1 DEF listVars
  <2>2. "none" \notin Kinds
    BY DEF Kinds, ClientList
  <2> QED
    BY <2>1, <2>2
<1>2. CASE EditList
  BY <1>2 DEF EditList, vars
<1>3. ASSUME UNCHANGED <<vars, listVars>> PROVE Checked' = Checked /\ Changes' = Changes
  <2>1. UNCHANGED <<made, previous, data, accepted, kind, keys, writable, scheme, signed,
                    configA, foreign>>
    BY <1>3 DEF vars, listVars
  <2>2. /\ The("hybrid")' = The("hybrid") /\ The("config")' = The("config")
        /\ The("sysvar")' = The("sysvar") /\ The("creator")' = The("creator")
        /\ The("system")' = The("system") /\ The("payer")' = The("payer")
        /\ The("recipient")' = The("recipient")
    BY <2>1, Zenon DEF The
  <2>3. (Data(The("config")) = "empty")' = (Data(The("config")) = "empty")
    <3>1. PICK a : a = The("config") /\ a = The("config")'
      BY <2>2, Zenon
    <3>2. Data(a)' = Data(a)
      BY <2>1 DEF Data
    <3> QED
      BY <3>1, <3>2
  <2>4. Authorized' = Authorized /\ Ed25519Verified' = Ed25519Verified
    BY <2>1, <2>2
    DEF Authorized, Ed25519Verified, VerifyEd25519Precompile, SelfContained, IsDigestSized,
        Data, OwnedByProgram, Existing
  <2>5. /\ MayClearPending' = MayClearPending /\ PendingCleared' = PendingCleared
        /\ BothOwned' = BothOwned /\ IsItsConfig' = IsItsConfig
    BY <2>1, <2>2
    DEF MayClearPending, PendingCleared, BothOwned, IsItsConfig, NeedsWritable, HasPendingAt,
        Data, OwnedByProgram, Existing
  <2>6. Checked' = Checked
    BY <2>1, <2>2, <2>4, <2>5
    DEF Checked, NeedsWritable, HasPendingAt, Data, OwnedByProgram, Existing
  <2>7. Changes' = Changes
    BY <2>1, <2>2, <2>3, <2>5 DEF Changes
  <2> QED
    BY <2>6, <2>7
<1>4. CASE Process
  <2>1. UNCHANGED <<kind, previous, signed>> /\ kind # "none"
    BY <1>4 DEF Process, vars, listVars
  <2>2. outcome' = "done" => Checked /\ effects' = Changes
    BY <1>4 DEF Process
  <2>3. UNCHANGED <<vars, listVars>>
    BY <1>4 DEF Process
  <2> QED
    BY <1>3, <2>1, <2>2, <2>3
<1>5. CASE UNCHANGED avars
  <2>1. UNCHANGED <<vars, listVars, outcome, effects>> /\ UNCHANGED <<kind, previous, signed>>
    BY <1>5 DEF avars, vars, listVars
  <2> QED
    BY <1>3, <2>1
<1> QED
  BY <1>1, <1>2, <1>4, <1>5 DEF ListNext

\* A signature that is asked for is there, and it names vault A.
LEMMA AuthorizedFacts ==
  ASSUME ListInv, kind \in Kinds
  PROVE  /\ Ed25519Verified => signed
         /\ Authorized => The("hybrid") = "VaultA" /\ signed
<1>1. Ed25519Verified => signed
  BY DEF ListInv, Ed25519Verified, VerifyEd25519Precompile, ClientHeader
<1> QED
  BY <1>1 DEF Authorized

OneVault(vault) ==
  /\ vault \in {"VaultA", "VaultB", "PayerVault"}
  /\ \A field \in {"nonce", "owner", "settings", "created"} : \A x :
       <<field, x>> \in effects => x = vault
  /\ \A field \in {"pending", "guardian"} : \A x :
       <<field, x>> \in effects => x = RecoveryConfigOf(vault)
  /\ kind \notin {"Initialize", "FinalizeSocialRecovery"} => vault = "VaultA" /\ signed
  /\ \A x : <<"owner", x>> \in effects /\ RecoveryConfigOf(vault) \in Existing =>
       <<"pending", RecoveryConfigOf(vault)>> \in effects
  /\ \A x : <<"debited", x>> \in effects => x \in {vault, "Payer"}
  /\ \A x : <<"credited", x>> \in effects => x = "Wallet"

LEMMA DoneOnOneVault ==
  ASSUME ListInv, outcome = "done"
  PROVE  OneVault(The("hybrid"))
<1>0. kind \in Kinds /\ Checked /\ effects = Changes
  BY DEF ListInv
<1> USE DEF OneVault
<1>1. CASE kind = "Initialize"
  BY <1>0, <1>1 DEF Checked, Changes, VaultOf
<1>2. CASE kind = "TransferSol"
  BY <1>0, <1>2, AuthorizedFacts DEF Checked, Changes
<1>3. CASE kind \in {"RotateEd25519Key", "RecoverEd25519"}
  <2>1. The("hybrid") = "VaultA" /\ signed /\ The("config") = RecoveryConfigOf("VaultA")
    BY <1>0, <1>3, AuthorizedFacts DEF Checked, MayClearPending, IsItsConfig
  <2>2. effects = {<<"nonce", "VaultA">>, <<"owner", "VaultA">>} \cup PendingCleared
    BY <1>0, <1>3, <2>1 DEF Changes
  <2>3. "ConfigA" \in Existing => PendingCleared = {<<"pending", "ConfigA">>}
    BY <2>1 DEF PendingCleared, Data, RecoveryConfigOf
  <2>4. PendingCleared \in {{}, {<<"pending", "ConfigA">>}}
    BY <2>1 DEF PendingCleared, RecoveryConfigOf
  <2>5. RecoveryConfigOf("VaultA") = "ConfigA"
    BY DEF RecoveryConfigOf
  <2> QED
    BY <1>3, <2>1, <2>2, <2>3, <2>4, <2>5
<1>4. CASE kind \in {"RotateFalconKey", "ChangePolicy", "SwitchRecovery"}
  BY <1>0, <1>4, AuthorizedFacts DEF Checked, Changes
<1>5. CASE kind = "SetRecoveryConfig"
  BY <1>0, <1>5, AuthorizedFacts DEF Checked, Changes, IsItsConfig
<1>6. CASE kind = "InitiateSocialRecovery"
  BY <1>0, <1>6, AuthorizedFacts DEF Checked, Changes, IsItsConfig
<1>7. CASE kind = "FinalizeSocialRecovery"
  <2>0. /\ The("hybrid") \in Existing /\ Data(The("hybrid")) = "vault"
        /\ The("config") = RecoveryConfigOf(The("hybrid"))
    BY <1>0, <1>7 DEF Checked, BothOwned, OwnedByProgram, IsItsConfig
  <2>1. The("hybrid") \in {"VaultA", "VaultB"} /\ The("config") = RecoveryConfigOf(The("hybrid"))
    BY <2>0 DEF Data, Existing
  <2> QED
    BY <1>0, <1>7, <2>1 DEF Changes
<1>8. CASE kind = "CancelSocialRecovery"
  BY <1>0, <1>8, AuthorizedFacts DEF Checked, Changes, IsItsConfig
<1> QED
  BY <1>0, <1>1, <1>2, <1>3, <1>4, <1>5, <1>6, <1>7, <1>8 DEF Kinds, ClientList

\* A change is a pair of what and where.
LEMMA ChangesArePairs ==
  ASSUME ListInv, outcome = "done", NEW field, NEW x
  PROVE  x \in ChangedAt(field) <=> <<field, x>> \in effects
<1>1. \A change \in effects : change = <<change[1], change[2]>>
  <2>1. effects = Changes /\ kind \in Kinds
    BY DEF ListInv
  <2> QED
    BY <2>1 DEF Changes, PendingCleared, Kinds, ClientList
<1> QED
  BY <1>1 DEF ChangedAt

\* Whatever list a relayer makes up, an instruction changes one vault and that
\* vault's own config, the one that its signature names if it needs one.
THEOREM ListsCannotRedirect == ListSpec => []OnlyTheNamedVault
<1>1. ListInv => OnlyTheNamedVault
  <2> SUFFICES ASSUME ListInv, outcome = "done" PROVE OnlyTheNamedVault
    BY DEF OnlyTheNamedVault
  <2> DEFINE vault == The("hybrid")
  <2>1. OneVault(vault)
    BY DoneOnOneVault
  <2> HIDE DEF vault
  <2>2. \A field, x : x \in ChangedAt(field) <=> <<field, x>> \in effects
    BY ChangesArePairs
  <2>3. /\ vault \in {"VaultA", "VaultB", "PayerVault"}
        /\ \A field \in {"nonce", "owner", "settings", "created"} :
             ChangedAt(field) \subseteq {vault}
        /\ ChangedAt("pending") \cup ChangedAt("guardian") \subseteq {RecoveryConfigOf(vault)}
        /\ kind \notin {"Initialize", "FinalizeSocialRecovery"} => vault = "VaultA" /\ signed
    BY <2>1, <2>2 DEF OneVault
  <2>4. /\ ChangedAt("owner") # {} /\ RecoveryConfigOf(vault) \in Existing =>
             RecoveryConfigOf(vault) \in ChangedAt("pending")
        /\ ChangedAt("debited") \subseteq {vault, "Payer"}
        /\ ChangedAt("credited") \subseteq {"Wallet"}
    BY <2>1, <2>2 DEF OneVault
  <2> QED
    BY <2>3, <2>4 DEF OnlyTheNamedVault
<1> QED
  BY <1>1, ListInvInit, ListInvStep, PTL DEF ListSpec
-----------------------------------------------------------------------------
(* The client's own list.                                                  *)

Accepts == Matched /\ Checked /\ \A change \in Changes : change[2] \in writable

\* The list, and what precedes the instruction, as the client builds them.
AsBuilt ==
  /\ keys = ClientList[kind] /\ writable = ClientWritable(kind) \cup {"Payer"}
  /\ data = [p \in Places |-> [key |-> owner, signature |-> OwnerSignature,
                               message |-> OwnerSignature.over]]
  /\ scheme \in {"Ed25519", "Falcon"}
  /\ configA \in {"absent", "idle", "pending"}

ClientInv ==
  /\ listEdits \in Nat
  /\ kind \in Kinds /\ listEdits = 0 => AsBuilt
  /\ outcome = "refused" => kind \in Kinds /\ ~Accepts

\* The account that a handler takes by its place is the client's for that role.
LEMMA RoleIsAtItsPlace ==
  ASSUME NEW i \in DOMAIN keys,
         \A j \in DOMAIN keys : Pattern[kind][j] = Pattern[kind][i] => j = i
  PROVE  The(Pattern[kind][i]) = keys[i]
BY DEF The

LEMMA RolesOfThree ==
  ASSUME NEW a, NEW b, NEW c, NEW r, NEW s, NEW t,
         keys = <<a, b, c>>, Pattern[kind] = <<r, s, t>>, r # s, r # t, s # t
  PROVE  The(r) = a /\ The(s) = b /\ The(t) = c
<1>1. DOMAIN keys = 1..3
  OBVIOUS
<1>2. /\ Pattern[kind][1] = r /\ Pattern[kind][2] = s /\ Pattern[kind][3] = t
      /\ keys[1] = a /\ keys[2] = b /\ keys[3] = c
  OBVIOUS
<1> QED
  BY <1>1, <1>2, RoleIsAtItsPlace

LEMMA RolesOfTwo ==
  ASSUME NEW a, NEW b, NEW r, NEW s,
         keys = <<a, b>>, Pattern[kind] = <<r, s>>, r # s
  PROVE  The(r) = a /\ The(s) = b
<1>1. DOMAIN keys = 1..2
  OBVIOUS
<1>2. /\ Pattern[kind][1] = r /\ Pattern[kind][2] = s
      /\ keys[1] = a /\ keys[2] = b
  OBVIOUS
<1> QED
  BY <1>1, <1>2, RoleIsAtItsPlace

LEMMA RolesOfFive ==
  ASSUME NEW a, NEW b, NEW c, NEW d, NEW e, NEW r, NEW s, NEW t, NEW u, NEW v,
         keys = <<a, b, c, d, e>>, Pattern[kind] = <<r, s, t, u, v>>,
         r \notin {s, t, u, v}, s \notin {t, u, v}, t \notin {u, v}, u # v
  PROVE  The(r) = a /\ The(s) = b /\ The(t) = c /\ The(u) = d /\ The(v) = e
<1>1. DOMAIN keys = 1..5
  OBVIOUS
<1>2. /\ Pattern[kind][1] = r /\ Pattern[kind][2] = s /\ Pattern[kind][3] = t
      /\ Pattern[kind][4] = u /\ Pattern[kind][5] = v
      /\ keys[1] = a /\ keys[2] = b /\ keys[3] = c /\ keys[4] = d /\ keys[5] = e
  OBVIOUS
<1> QED
  BY <1>1, <1>2, RoleIsAtItsPlace

\* What the client lists may be written where the handler writes.
LEMMA ClientMayWrite ==
  ASSUME kind \in Kinds, AsBuilt, NEW i \in DOMAIN keys,
         \/ /\ kind # "InitiateSocialRecovery"
            /\ keys[i] \in {"VaultA", "ConfigA", "PayerVault", "Payer", "Wallet"}
         \/ keys[i] = "ConfigA"
  PROVE  keys[i] \in writable
<1>1. i \in DOMAIN ClientList[kind] /\ keys[i] = ClientList[kind][i]
  BY DEF AsBuilt
<1>2. keys[i] \in ClientWritable(kind)
  BY <1>1 DEF ClientWritable
<1> QED
  BY <1>2 DEF AsBuilt

\* What each handler finds in the client's list.
LEMMA ClientRoles ==
  ASSUME kind \in Kinds, AsBuilt
  PROVE  /\ Matched
         /\ kind = "Initialize" =>
              /\ The("creator") = "Payer" /\ The("hybrid") = "PayerVault"
              /\ The("system") = "System" /\ "PayerVault" \in writable
         /\ kind # "Initialize" => The("hybrid") = "VaultA"
         /\ kind \notin {"Initialize", "InitiateSocialRecovery"} => "VaultA" \in writable
         /\ kind \notin {"Initialize", "FinalizeSocialRecovery"} => The("sysvar") = "Sysvar"
         /\ kind = "TransferSol" => The("recipient") = "Wallet" /\ "Wallet" \in writable
         /\ kind = "SetRecoveryConfig" => The("payer") = "Payer" /\ The("system") = "System"
         /\ kind \in {"RotateEd25519Key", "RecoverEd25519", "SetRecoveryConfig",
                      "InitiateSocialRecovery", "FinalizeSocialRecovery",
                      "CancelSocialRecovery"} =>
              The("config") = "ConfigA" /\ "ConfigA" \in writable
<1>1. CASE kind = "Initialize"
  <2>1. keys = <<"Payer", "PayerVault", "System">>
    BY <1>1 DEF AsBuilt, ClientList
  <2>2. Pattern[kind] = <<"creator", "hybrid", "system">>
    BY <1>1 DEF Pattern
  <2>3. /\ The("creator") = "Payer" /\ The("hybrid") = "PayerVault" /\ The("system") = "System"
    BY <2>1, <2>2, RolesOfThree
  <2>4. /\ keys[2] = "PayerVault" /\ 2 \in DOMAIN keys
    BY <2>1
  <2>5. "PayerVault" \in writable
    BY <1>1, <2>4, ClientMayWrite
  <2>6. Matched
    BY <2>1, <2>2 DEF Matched
  <2> QED
    BY <1>1, <2>3, <2>5, <2>6
<1>2. CASE kind = "TransferSol"
  <2>1. keys = <<"VaultA", "Wallet", "Sysvar">>
    BY <1>2 DEF AsBuilt, ClientList
  <2>2. Pattern[kind] = <<"hybrid", "recipient", "sysvar">>
    BY <1>2 DEF Pattern
  <2>3. /\ The("hybrid") = "VaultA" /\ The("recipient") = "Wallet" /\ The("sysvar") = "Sysvar"
    BY <2>1, <2>2, RolesOfThree
  <2>4. /\ keys[1] = "VaultA" /\ 1 \in DOMAIN keys
        /\ keys[2] = "Wallet" /\ 2 \in DOMAIN keys
    BY <2>1
  <2>5. "VaultA" \in writable /\ "Wallet" \in writable
    BY <1>2, <2>4, ClientMayWrite
  <2>6. Matched
    BY <2>1, <2>2 DEF Matched
  <2> QED
    BY <1>2, <2>3, <2>5, <2>6
<1>3. CASE kind = "RotateEd25519Key"
  <2>1. keys = <<"VaultA", "ConfigA", "Sysvar">>
    BY <1>3 DEF AsBuilt, ClientList
  <2>2. Pattern[kind] = <<"hybrid", "config", "sysvar">>
    BY <1>3 DEF Pattern
  <2>3. /\ The("hybrid") = "VaultA" /\ The("config") = "ConfigA" /\ The("sysvar") = "Sysvar"
    BY <2>1, <2>2, RolesOfThree
  <2>4. /\ keys[1] = "VaultA" /\ 1 \in DOMAIN keys
        /\ keys[2] = "ConfigA" /\ 2 \in DOMAIN keys
    BY <2>1
  <2>5. "VaultA" \in writable /\ "ConfigA" \in writable
    BY <1>3, <2>4, ClientMayWrite
  <2>6. Matched
    BY <2>1, <2>2 DEF Matched
  <2> QED
    BY <1>3, <2>3, <2>5, <2>6
<1>4. CASE kind = "RecoverEd25519"
  <2>1. keys = <<"VaultA", "ConfigA", "Sysvar">>
    BY <1>4 DEF AsBuilt, ClientList
  <2>2. Pattern[kind] = <<"hybrid", "config", "sysvar">>
    BY <1>4 DEF Pattern
  <2>3. /\ The("hybrid") = "VaultA" /\ The("config") = "ConfigA" /\ The("sysvar") = "Sysvar"
    BY <2>1, <2>2, RolesOfThree
  <2>4. /\ keys[1] = "VaultA" /\ 1 \in DOMAIN keys
        /\ keys[2] = "ConfigA" /\ 2 \in DOMAIN keys
    BY <2>1
  <2>5. "VaultA" \in writable /\ "ConfigA" \in writable
    BY <1>4, <2>4, ClientMayWrite
  <2>6. Matched
    BY <2>1, <2>2 DEF Matched
  <2> QED
    BY <1>4, <2>3, <2>5, <2>6
<1>5. CASE kind = "RotateFalconKey"
  <2>1. keys = <<"VaultA", "Sysvar">>
    BY <1>5 DEF AsBuilt, ClientList
  <2>2. Pattern[kind] = <<"hybrid", "sysvar">>
    BY <1>5 DEF Pattern
  <2>3. /\ The("hybrid") = "VaultA" /\ The("sysvar") = "Sysvar"
    BY <2>1, <2>2, RolesOfTwo
  <2>4. /\ keys[1] = "VaultA" /\ 1 \in DOMAIN keys
    BY <2>1
  <2>5. "VaultA" \in writable
    BY <1>5, <2>4, ClientMayWrite
  <2>6. Matched
    BY <2>1, <2>2 DEF Matched
  <2> QED
    BY <1>5, <2>3, <2>5, <2>6
<1>6. CASE kind = "ChangePolicy"
  <2>1. keys = <<"VaultA", "Sysvar">>
    BY <1>6 DEF AsBuilt, ClientList
  <2>2. Pattern[kind] = <<"hybrid", "sysvar">>
    BY <1>6 DEF Pattern
  <2>3. /\ The("hybrid") = "VaultA" /\ The("sysvar") = "Sysvar"
    BY <2>1, <2>2, RolesOfTwo
  <2>4. /\ keys[1] = "VaultA" /\ 1 \in DOMAIN keys
    BY <2>1
  <2>5. "VaultA" \in writable
    BY <1>6, <2>4, ClientMayWrite
  <2>6. Matched
    BY <2>1, <2>2 DEF Matched
  <2> QED
    BY <1>6, <2>3, <2>5, <2>6
<1>7. CASE kind = "SwitchRecovery"
  <2>1. keys = <<"VaultA", "Sysvar">>
    BY <1>7 DEF AsBuilt, ClientList
  <2>2. Pattern[kind] = <<"hybrid", "sysvar">>
    BY <1>7 DEF Pattern
  <2>3. /\ The("hybrid") = "VaultA" /\ The("sysvar") = "Sysvar"
    BY <2>1, <2>2, RolesOfTwo
  <2>4. /\ keys[1] = "VaultA" /\ 1 \in DOMAIN keys
    BY <2>1
  <2>5. "VaultA" \in writable
    BY <1>7, <2>4, ClientMayWrite
  <2>6. Matched
    BY <2>1, <2>2 DEF Matched
  <2> QED
    BY <1>7, <2>3, <2>5, <2>6
<1>8. CASE kind = "SetRecoveryConfig"
  <2>1. keys = <<"VaultA", "ConfigA", "Payer", "System", "Sysvar">>
    BY <1>8 DEF AsBuilt, ClientList
  <2>2. Pattern[kind] = <<"hybrid", "config", "payer", "system", "sysvar">>
    BY <1>8 DEF Pattern
  <2>3. /\ The("hybrid") = "VaultA" /\ The("config") = "ConfigA" /\ The("payer") = "Payer"
        /\ The("system") = "System" /\ The("sysvar") = "Sysvar"
    BY <2>1, <2>2, RolesOfFive
  <2>4. /\ keys[1] = "VaultA" /\ 1 \in DOMAIN keys
        /\ keys[2] = "ConfigA" /\ 2 \in DOMAIN keys
    BY <2>1
  <2>5. "VaultA" \in writable /\ "ConfigA" \in writable
    BY <1>8, <2>4, ClientMayWrite
  <2>6. Matched
    BY <2>1, <2>2 DEF Matched
  <2> QED
    BY <1>8, <2>3, <2>5, <2>6
<1>9. CASE kind = "InitiateSocialRecovery"
  <2>1. keys = <<"VaultA", "ConfigA", "Sysvar">>
    BY <1>9 DEF AsBuilt, ClientList
  <2>2. Pattern[kind] = <<"hybrid", "config", "sysvar">>
    BY <1>9 DEF Pattern
  <2>3. /\ The("hybrid") = "VaultA" /\ The("config") = "ConfigA" /\ The("sysvar") = "Sysvar"
    BY <2>1, <2>2, RolesOfThree
  <2>4. /\ keys[2] = "ConfigA" /\ 2 \in DOMAIN keys
    BY <2>1
  <2>5. "ConfigA" \in writable
    BY <1>9, <2>4, ClientMayWrite
  <2>6. Matched
    BY <2>1, <2>2 DEF Matched
  <2> QED
    BY <1>9, <2>3, <2>5, <2>6
<1>10. CASE kind = "FinalizeSocialRecovery"
  <2>1. keys = <<"VaultA", "ConfigA">>
    BY <1>10 DEF AsBuilt, ClientList
  <2>2. Pattern[kind] = <<"hybrid", "config">>
    BY <1>10 DEF Pattern
  <2>3. /\ The("hybrid") = "VaultA" /\ The("config") = "ConfigA"
    BY <2>1, <2>2, RolesOfTwo
  <2>4. /\ keys[1] = "VaultA" /\ 1 \in DOMAIN keys
        /\ keys[2] = "ConfigA" /\ 2 \in DOMAIN keys
    BY <2>1
  <2>5. "VaultA" \in writable /\ "ConfigA" \in writable
    BY <1>10, <2>4, ClientMayWrite
  <2>6. Matched
    BY <2>1, <2>2 DEF Matched
  <2> QED
    BY <1>10, <2>3, <2>5, <2>6
<1>11. CASE kind = "CancelSocialRecovery"
  <2>1. keys = <<"VaultA", "ConfigA", "Sysvar">>
    BY <1>11 DEF AsBuilt, ClientList
  <2>2. Pattern[kind] = <<"hybrid", "config", "sysvar">>
    BY <1>11 DEF Pattern
  <2>3. /\ The("hybrid") = "VaultA" /\ The("config") = "ConfigA" /\ The("sysvar") = "Sysvar"
    BY <2>1, <2>2, RolesOfThree
  <2>4. /\ keys[1] = "VaultA" /\ 1 \in DOMAIN keys
        /\ keys[2] = "ConfigA" /\ 2 \in DOMAIN keys
    BY <2>1
  <2>5. "VaultA" \in writable /\ "ConfigA" \in writable
    BY <1>11, <2>4, ClientMayWrite
  <2>6. Matched
    BY <2>1, <2>2 DEF Matched
  <2> QED
    BY <1>11, <2>3, <2>5, <2>6
<1> QED
  BY <1>1, <1>2, <1>3, <1>4, <1>5, <1>6, <1>7, <1>8, <1>9, <1>10, <1>11
  DEF Kinds, ClientList

\* With the owner's signature the precompile's check and authorize() pass.
LEMMA SignedIsAuthorized ==
  ASSUME ListInv, kind \in Kinds, AsBuilt, signed, The("hybrid") = "VaultA"
  PROVE  The("sysvar") = "Sysvar" =>
           /\ Ed25519Verified
           /\ (kind = "RecoverEd25519" => scheme = "Falcon") => Authorized
<1>1. VerifyEd25519Precompile
  BY DEF ListInv, AsBuilt, VerifyEd25519Precompile, ClientHeader, Places, SelfContained,
         IsDigestSized, OwnerSignature
<1> QED
  BY <1>1 DEF Ed25519Verified, Authorized, OwnedByProgram, Existing, Data

\* The states in which the vaults themselves refuse the instruction.
MayRefuse ==
  \/ ~signed
  \/ kind = "RecoverEd25519" /\ scheme = "Ed25519"
  \/ kind = "InitiateSocialRecovery" /\ configA # "idle"
  \/ kind = "SetRecoveryConfig" /\ configA = "pending"
  \/ kind \in {"FinalizeSocialRecovery", "CancelSocialRecovery"} /\ configA # "pending"

LEMMA ClientListPasses ==
  ASSUME ListInv, kind \in Kinds, AsBuilt, ~MayRefuse
  PROVE  Accepts
<1>1. signed /\ (kind # "Initialize" => OwnedByProgram("VaultA") /\ Data("VaultA") = "vault")
  BY DEF MayRefuse, OwnedByProgram, Existing, Data
<1>2. kind \notin {"Initialize", "FinalizeSocialRecovery"} => Ed25519Verified /\ Authorized
  BY <1>1, ClientRoles, SignedIsAuthorized DEF MayRefuse, AsBuilt
<1>3. RecoveryConfigOf("VaultA") = "ConfigA" /\ VaultOf("Payer") = "PayerVault"
  BY DEF RecoveryConfigOf, VaultOf
<1>4. /\ HasPendingAt("ConfigA") <=> configA = "pending"
      /\ OwnedByProgram("ConfigA") <=> configA # "absent"
      /\ Data("ConfigA") = "empty" <=> configA = "absent"
  BY DEF HasPendingAt, OwnedByProgram, Existing, Data
<1>5. Data("PayerVault") = "empty"
  BY DEF Data
<1>6. Checked
  BY <1>1, <1>2, <1>3, <1>4, <1>5, ClientRoles
  DEF Checked, NeedsWritable, IsItsConfig, MayClearPending, BothOwned, MayRefuse, Kinds,
      ClientList, AsBuilt
<1>7. \A change \in Changes : change[2] \in writable
  <2>0. "Payer" \in writable
    BY DEF AsBuilt
  <2>1. CASE kind = "Initialize"
    BY <2>0, <2>1, ClientRoles DEF Changes
  <2>2. CASE kind = "TransferSol"
    BY <2>2, ClientRoles DEF Changes
  <2>3. CASE kind \in {"RotateEd25519Key", "RecoverEd25519"}
    <3>1. PendingCleared \subseteq {<<"pending", "ConfigA">>}
      BY <2>3, ClientRoles DEF PendingCleared
    <3>2. Changes = {<<"nonce", "VaultA">>, <<"owner", "VaultA">>} \cup PendingCleared
      BY <2>3, ClientRoles DEF Changes
    <3>3. "VaultA" \in writable /\ "ConfigA" \in writable
      BY <2>3, ClientRoles
    <3> QED
      BY <3>1, <3>2, <3>3
  <2>4. CASE kind \in {"RotateFalconKey", "ChangePolicy", "SwitchRecovery"}
    BY <2>4, ClientRoles DEF Changes
  <2>5. CASE kind = "SetRecoveryConfig"
    BY <2>0, <2>5, ClientRoles DEF Changes
  <2>6. CASE kind = "InitiateSocialRecovery"
    BY <2>6, ClientRoles DEF Changes
  <2>7. CASE kind = "FinalizeSocialRecovery"
    BY <2>7, ClientRoles DEF Changes
  <2>8. CASE kind = "CancelSocialRecovery"
    BY <2>8, ClientRoles DEF Changes
  <2> QED
    BY <2>1, <2>2, <2>3, <2>4, <2>5, <2>6, <2>7, <2>8 DEF Kinds, ClientList
<1> QED
  BY <1>6, <1>7, ClientRoles DEF Accepts

LEMMA ClientInvInit == ListInit => ClientInv
<1> SUFFICES ASSUME ListInit PROVE ClientInv
  OBVIOUS
<1>1. listEdits = 0 /\ outcome = "none"
  BY DEF ListInit
<1>2. "none" \notin Kinds
  BY DEF Kinds, ClientList
<1>3. kind \in Kinds => AsBuilt
  BY <1>2 DEF ListInit, AsBuilt
<1> QED
  BY <1>1, <1>3 DEF ClientInv

\* Only an edit changes the list, and processing refuses what it does not accept.
LEMMA ClientInvStep == ListInv /\ ClientInv /\ [ListNext]_avars => ClientInv'
<1> SUFFICES ASSUME ListInv, ClientInv, [ListNext]_avars PROVE ClientInv'
  OBVIOUS
<1>1. CASE kind = "none" /\ Next /\ UNCHANGED <<listVars, outcome, effects>>
  <2>1. /\ listEdits' = listEdits /\ kind' = "none"
        /\ outcome' = outcome /\ outcome = "none"
    BY <1>1 DEF listVars, ListInv
  <2>2. "none" \notin Kinds
    BY DEF Kinds, ClientList
  <2> QED
    BY <2>1, <2>2 DEF ClientInv
<1>2. CASE EditList
  <2>1. listEdits' = listEdits + 1 /\ outcome' = "none"
    BY <1>2 DEF EditList
  <2>2. listEdits' \in Nat /\ listEdits' # 0
    BY <2>1 DEF ClientInv
  <2> QED
    BY <2>1, <2>2 DEF ClientInv
<1>3. ASSUME UNCHANGED <<vars, listVars>>
      PROVE  /\ AsBuilt' = AsBuilt /\ Accepts' = Accepts
             /\ kind' = kind /\ listEdits' = listEdits
  <2>1. UNCHANGED <<made, previous, data, accepted, kind, keys, writable, scheme, signed,
                    configA, foreign, listEdits>>
    BY <1>3 DEF vars, listVars
  <2>2. AsBuilt' = AsBuilt
    BY <2>1 DEF AsBuilt, ClientWritable
  <2>3. Matched' = Matched /\ Changes' = Changes
    BY <2>1
    DEF Matched, Changes, PendingCleared, The, Data, Existing
  <2>4. Checked' = Checked
    BY <2>1
    DEF Checked, MayClearPending, BothOwned, Authorized, Ed25519Verified,
        VerifyEd25519Precompile, SelfContained, IsDigestSized, IsItsConfig,
        NeedsWritable, The, HasPendingAt, Data, OwnedByProgram, Existing
  <2> QED
    BY <2>1, <2>2, <2>3, <2>4 DEF Accepts
<1>4. CASE Process
  <2>1. UNCHANGED <<vars, listVars>> /\ kind \in Kinds
    BY <1>4 DEF Process, ListInv
  <2>2. outcome' = "refused" => ~Accepts
    BY <1>4 DEF Process, Accepts
  <2> QED
    BY <1>3, <2>1, <2>2 DEF ClientInv
<1>5. CASE UNCHANGED avars
  <2>1. UNCHANGED <<vars, listVars>> /\ outcome' = outcome
    BY <1>5 DEF avars
  <2> QED
    BY <1>3, <2>1 DEF ClientInv
<1> QED
  BY <1>1, <1>2, <1>4, <1>5 DEF ListNext

\* A list that nobody edited is refused only for what the vaults hold or for a
\* missing signature: the list that the client builds (client/src/onchain.rs)
\* is the one that the handler's pattern expects.
THEOREM ClientListFits == ListSpec => []ClientListIsAccepted
<1>1. ListInv /\ ClientInv => ClientListIsAccepted
  BY ClientListPasses DEF ClientInv, ClientListIsAccepted, MayRefuse
<1> QED
  BY <1>1, ListInvInit, ListInvStep, ClientInvInit, ClientInvStep, PTL DEF ListSpec
============================================================================
