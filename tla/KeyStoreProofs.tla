---------------------------- MODULE KeyStoreProofs ----------------------------
(***************************************************************************)
(* Theorems about KeyStore, for any number of runs of keygen over any      *)
(* directory, cut short anywhere.                                          *)
(***************************************************************************)
EXTENDS KeyStore, TLAPS

Positions == 1..7

LEMMA Order ==
  /\ Len(WriteOrder) = 7
  /\ \A i \in Positions : WriteOrder[i] \in Files
  /\ \A i, j \in Positions : WriteOrder[i] = WriteOrder[j] => i = j
  /\ \A f \in Files : \E i \in Positions : f = WriteOrder[i]
<1>1. Len(WriteOrder) = 7
  BY DEF WriteOrder
<1>2. /\ WriteOrder[1] = "ed25519.sk" /\ WriteOrder[2] = "ed25519.pk"
      /\ WriteOrder[3] = "ed25519-id.json" /\ WriteOrder[4] = "falcon512.sk"
      /\ WriteOrder[5] = "falcon512.pk" /\ WriteOrder[6] = "falcon512.prepared"
      /\ WriteOrder[7] = "keyset.json"
  BY DEF WriteOrder
<1>3. \A i \in Positions : i = 1 \/ i = 2 \/ i = 3 \/ i = 4 \/ i = 5 \/ i = 6 \/ i = 7
  BY DEF Positions
<1>4. 1 \in Positions /\ 2 \in Positions /\ 3 \in Positions /\ 4 \in Positions
      /\ 5 \in Positions /\ 6 \in Positions /\ 7 \in Positions
  BY DEF Positions
<1>5. \A i \in Positions : WriteOrder[i] \in Files
  BY <1>2, <1>3 DEF Files
<1>6. \A i, j \in Positions : WriteOrder[i] = WriteOrder[j] => i = j
  BY <1>2, <1>3
<1>7. \A f \in Files : \E i \in Positions : f = WriteOrder[i]
  BY <1>2, <1>4 DEF Files
<1> QED
  BY <1>1, <1>5, <1>6, <1>7

LEMMA FileType == position \in Positions => File \in Files
BY Order DEF File
-----------------------------------------------------------------------------
(* The invariant.                                                          *)

Types == TypeOK /\ position \in Positions

\* keygen enters the directory only after it closed it to everybody else, and
\* nothing opens it again.
DirectoryClosedFirst ==
  /\ pc \in {"open", "write", "sync", "chmod", "done"} => dirMode = "0700"
  /\ \A f \in Files : content[f].by > 0 => dirMode = "0700"

Finished(f) == content[f] = [part |-> "whole", by |-> run] /\ f \in synced /\ mode[f] = ModeOf(f)

\* Wherever a run is, or was cut short: what comes before is finished, what
\* comes after it did not touch.  A power loss takes neither.
WrittenInOrder ==
  /\ \A f \in Files : content[f].by <= run
  /\ pc = "done" => \A i \in Positions : Finished(WriteOrder[i])
  /\ run > 0 /\ pc # "done" =>
       /\ \A i \in Positions : i < position => Finished(WriteOrder[i])
       /\ \A i \in Positions : i > position => content[WriteOrder[i]].by < run
       /\ pc \in {"sync", "chmod"} => content[File] = [part |-> "whole", by |-> run]
       /\ pc = "chmod" => File \in synced
  /\ pc # "stopped" => run > 0
  /\ pc \in {"mkdir", "chmodDir"} =>
       position = 1 /\ content[WriteOrder[1]].by < run

\* keygen gives no secret a mode that others may open it under, so what they
\* hold was open to them before.
OnlyLooseFilesHeld ==
  /\ \A f \in SecretFiles : mode[f] = "0644" => f \in loose
  /\ held \subseteq loose

Inv == Types /\ DirectoryClosedFirst /\ WrittenInOrder /\ OnlyLooseFilesHeld

LEMMA InvInit == Init => Inv
<1> SUFFICES ASSUME Init PROVE Inv
  OBVIOUS
<1> USE KeyStoreAssumption
<1>0. 1 \in Positions
  BY DEF Positions
<1>1. /\ mode \in [Files -> {"absent"} \cup Modes] /\ content \in [Files -> Contents]
      /\ dirMode \in {"absent", "0755", "0700"}
      /\ \A f \in Files : content[f].by = 0
  BY DEF Init, Contents
<1>2. pc = "stopped" /\ position = 1 /\ run = 0 /\ synced = Files
  BY DEF Init
<1>3. held \subseteq SecretFiles /\ loose \subseteq SecretFiles /\ OnlyLooseFilesHeld
  BY DEF Init, OnlyLooseFilesHeld
<1> QED
  BY <1>0, <1>1, <1>2, <1>3, Order
  DEF Inv, Types, TypeOK, Running, DirectoryClosedFirst, WrittenInOrder, Positions

LEMMA TypesStep == Types /\ [Next]_vars => Types'
<1> SUFFICES ASSUME Types, [Next]_vars PROVE Types'
  OBVIOUS
<1>10. held' \subseteq SecretFiles /\ loose' \subseteq SecretFiles
  BY DEF Types, TypeOK, Next, PowerLoss, StrangerOpens, vars, strangerVars
<1> USE <1>10, KeyStoreAssumption, Order DEF Types, TypeOK, Running
<1>0. File \in Files /\ ModeOf(File) \in Modes
      /\ \A p \in {"empty", "partial", "whole"} : [part |-> p, by |-> run] \in Contents
  BY FileType DEF ModeOf, Modes, Contents
<1>1. CASE StartKeygen
  BY <1>1 DEF StartKeygen, Positions
<1>2. CASE CreateDirectory \/ SetDirectoryMode
  BY <1>2 DEF CreateDirectory, SetDirectoryMode, SecuredMode
<1>3. CASE OpenFile
  BY <1>0, <1>3 DEF OpenFile, Truncated
<1>4. CASE WriteFile
  BY <1>0, <1>4 DEF WriteFile
<1>5. CASE SyncFile
  BY <1>0, <1>5 DEF SyncFile, OnDisk
<1>6. CASE SetFileMode
  BY <1>0, <1>6 DEF SetFileMode, AssertedMode, NextPosition, Positions
<1>7. CASE Stop
  BY <1>7 DEF Stop
<1>8. CASE PowerLoss
  <2>1. content' \in [Files -> Contents]
    BY <1>8 DEF PowerLoss, Contents
  <2> QED
    BY <1>8, <2>1 DEF PowerLoss
<1>9. CASE UNCHANGED keygenVars
  BY <1>9 DEF keygenVars
<1> QED
  BY <1>1, <1>2, <1>3, <1>4, <1>5, <1>6, <1>7, <1>8, <1>9
  DEF Next, Keygen, StrangerOpens, vars

LEMMA OnlyLooseFilesHeldStep ==
  Types /\ OnlyLooseFilesHeld /\ [Next]_vars => OnlyLooseFilesHeld'
<1> SUFFICES ASSUME Types, OnlyLooseFilesHeld, [Next]_vars PROVE OnlyLooseFilesHeld'
  OBVIOUS
<1>1. loose' = loose
  BY DEF Next, PowerLoss, StrangerOpens, vars, strangerVars
<1>2. held' \subseteq loose
  BY DEF OnlyLooseFilesHeld, Next, PowerLoss, StrangerOpens, OthersMayOpen, vars, strangerVars
<1>3. ASSUME NEW f \in SecretFiles, mode'[f] = "0644" PROVE mode[f] = "0644"
  <2>1. f \in Files /\ ModeOf(f) = "0600" /\ mode \in [Files -> {"absent"} \cup Modes]
    BY DEF SecretFiles, Files, ModeOf, Types, TypeOK
  <2>2. \/ UNCHANGED mode
        \/ mode' = [mode EXCEPT ![File] = IF @ = "absent" THEN ModeOf(File) ELSE @]
        \/ mode' = [mode EXCEPT ![File] = ModeOf(File)]
    BY DEF Next, Keygen, StartKeygen, CreateDirectory, SetDirectoryMode, OpenFile, WriteFile,
           SyncFile, SetFileMode, AssertedMode, Stop, PowerLoss, StrangerOpens, keygenVars, vars
  <2> QED
    BY <1>3, <2>1, <2>2
<1> QED
  BY <1>1, <1>2, <1>3 DEF OnlyLooseFilesHeld

LEMMA InvStep == Inv /\ [Next]_vars => Inv'
<1> SUFFICES ASSUME Inv, [Next]_vars PROVE DirectoryClosedFirst' /\ WrittenInOrder'
  BY TypesStep, OnlyLooseFilesHeldStep DEF Inv
<1> USE KeyStoreAssumption, Order
<1>0. /\ Types /\ Types' /\ DirectoryClosedFirst /\ WrittenInOrder
      /\ run \in Nat /\ position \in Positions /\ File \in Files
      /\ content \in [Files -> Contents] /\ mode \in [Files -> {"absent"} \cup Modes]
      /\ \A f \in Files : content[f].by \in Nat
  BY TypesStep, FileType DEF Inv, Types, TypeOK, Contents
<1> USE DEF DirectoryClosedFirst, WrittenInOrder, Finished, Running
<1>1. CASE StartKeygen
  BY <1>0, <1>1 DEF StartKeygen, Positions
<1>2. CASE CreateDirectory \/ SetDirectoryMode
  <2>1. DirectoryClosedFirst'
    BY <1>0, <1>2 DEF CreateDirectory, SetDirectoryMode, SecuredMode
  <2>2. WrittenInOrder'
    BY <1>0, <1>2 DEF CreateDirectory, SetDirectoryMode, File
  <2> QED
    BY <2>1, <2>2
<1>3. CASE OpenFile
  <2>1. /\ content' = [content EXCEPT ![File] = [part |-> "empty", by |-> run]]
        /\ \A f \in Files \ {File} : mode'[f] = mode[f] /\ (f \in synced' <=> f \in synced)
        /\ pc = "open" /\ pc' = "write" /\ UNCHANGED <<dirMode, position, run>>
    BY <1>0, <1>3 DEF OpenFile, Truncated
  <2>2. \A i \in Positions : i # position => WriteOrder[i] # File
    BY <1>0 DEF File
  <2> QED
    BY <1>0, <2>1, <2>2
<1>4. CASE WriteFile
  <2>1. PICK p \in {"partial", "whole"} :
           /\ content' = [content EXCEPT ![File] = [part |-> p, by |-> run]]
           /\ pc' = IF p = "whole" THEN "sync" ELSE "write"
    BY <1>4 DEF WriteFile
  <2>2. pc = "write" /\ UNCHANGED <<dirMode, mode, synced, position, run>> /\ File' = File
    BY <1>4 DEF WriteFile, File
  <2>3. \A i \in Positions : i # position => WriteOrder[i] # File
    BY <1>0 DEF File
  <2> QED
    BY <1>0, <2>1, <2>2, <2>3
<1>5. CASE SyncFile
  BY <1>0, <1>5 DEF SyncFile, OnDisk, File
<1>6. CASE SetFileMode
  <2>1. /\ mode' = [mode EXCEPT ![File] = ModeOf(File)]
        /\ pc = "chmod" /\ UNCHANGED <<dirMode, content, synced, run>>
    BY <1>6 DEF SetFileMode, AssertedMode
  <2>2. PICK p \in Positions : p = position
    BY <1>0
  <2>3. Finished(WriteOrder[p])'
    BY <1>0, <2>1, <2>2 DEF File
  <2>4. \A i \in Positions : i < p => Finished(WriteOrder[i])'
    BY <1>0, <2>1, <2>2
  <2>5. CASE p = 7
    BY <1>0, <1>6, <2>1, <2>2, <2>3, <2>4, <2>5 DEF SetFileMode, NextPosition, File, Positions
  <2>6. CASE p # 7
    <3>1. position' = p + 1 /\ pc' = "open"
      BY <1>6, <2>2, <2>6 DEF SetFileMode, NextPosition
    <3>2. \A i \in Positions : i < p + 1 => Finished(WriteOrder[i])'
      BY <2>3, <2>4 DEF Positions
    <3> QED
      BY <1>0, <2>1, <2>2, <3>1, <3>2 DEF Positions
  <2> QED
    BY <2>5, <2>6
<1>7. CASE Stop
  BY <1>0, <1>7 DEF Stop
<1>8. CASE PowerLoss
  <2>1. /\ pc' = IF pc \in Running THEN "stopped" ELSE pc
        /\ synced' = Files /\ UNCHANGED <<dirMode, mode, position, run>>
    BY <1>8 DEF PowerLoss
  <2>2. \A f \in Files :
          /\ content'[f].by = content[f].by
          /\ f \in synced => content'[f] = content[f]
    BY <1>0, <1>8 DEF PowerLoss, Contents
  <2> QED
    BY <1>0, <2>1, <2>2
<1>9. CASE UNCHANGED keygenVars
  BY <1>0, <1>9 DEF keygenVars, File
<1> QED
  BY <1>1, <1>2, <1>3, <1>4, <1>5, <1>6, <1>7, <1>8, <1>9
  DEF Next, Keygen, StrangerOpens, vars
-----------------------------------------------------------------------------
\* Every variable keeps its type through every step, stop and power loss.
THEOREM FilesKeepTheirTypes == Spec => []TypeOK
<1>1. Inv => TypeOK
  BY DEF Inv, Types
<1> QED
  BY <1>1, InvInit, InvStep, PTL DEF Spec

\* Once a byte of a new secret is in a file others cannot open it, and those who
\* hold it open could open what was there before keygen ran.
THEOREM SecretsStayShielded == Spec => []SecretsAreShielded
<1>1. Inv => SecretsAreShielded
  BY DEF Inv, DirectoryClosedFirst, OnlyLooseFilesHeld, SecretsAreShielded, HasKeyBytes,
         OthersMayOpen, SecretFiles, Files
<1> QED
  BY <1>1, InvInit, InvStep, PTL DEF Spec

\* A public key of the latest run always has its secret key on disk, and a
\* manifest all its files, wherever the run is cut short.
THEOREM PublicKeysHaveSecrets == Spec => []PublicKeyHasItsSecret
<1>1. Inv => PublicKeyHasItsSecret
  <2> SUFFICES ASSUME Inv, run > 0 PROVE PublicKeyHasItsSecret
    BY DEF PublicKeyHasItsSecret
  <2>0. run \in Nat /\ position \in Positions
        /\ \A f \in Files : ModeOf(f) # "absent"
    BY KeyStoreAssumption DEF Inv, Types, TypeOK, ModeOf
  <2>1. \A i \in Positions : Finished(WriteOrder[i]) => Current(WriteOrder[i])
    BY <2>0, Order DEF Finished, Current
  <2>2. ASSUME NEW i \in Positions, NEW j \in Positions, j < i, Current(WriteOrder[i])
        PROVE Current(WriteOrder[j])
    <3>1. pc # "done" => ~(i > position)
      BY <2>0, <2>2 DEF Inv, WrittenInOrder, Current
    <3>2. Finished(WriteOrder[j])
      BY <2>0, <2>2, <3>1 DEF Inv, WrittenInOrder, Positions
    <3> QED
      BY <2>1, <3>2
  <2>3. Current("ed25519.pk") => Current("ed25519.sk")
    <3>1. WriteOrder[1] = "ed25519.sk" /\ WriteOrder[2] = "ed25519.pk"
      BY DEF WriteOrder
    <3> QED
      BY <2>2, <3>1 DEF Positions
  <2>4. Current("falcon512.pk") => Current("falcon512.sk")
    <3>1. WriteOrder[4] = "falcon512.sk" /\ WriteOrder[5] = "falcon512.pk"
      BY DEF WriteOrder
    <3> QED
      BY <2>2, <3>1 DEF Positions
  <2>5. ASSUME Current("keyset.json"), NEW f \in Files PROVE Current(f)
    <3>1. WriteOrder[7] = "keyset.json"
      BY DEF WriteOrder
    <3>2. PICK i \in Positions : f = WriteOrder[i]
      BY Order
    <3>3. i = 7 \/ (i < 7 /\ 7 \in Positions)
      BY DEF Positions
    <3> QED
      BY <2>2, <2>5, <3>1, <3>2, <3>3
  <2> QED
    BY <2>3, <2>4, <2>5 DEF PublicKeyHasItsSecret
<1> QED
  BY <1>1, InvInit, InvStep, PTL DEF Spec

\* A run that returns has made all seven files its own, synced and under their
\* modes.
THEOREM CompletedRunsAreWhole == Spec => []CompletedRunIsWhole
<1>1. Inv => CompletedRunIsWhole
  <2> SUFFICES ASSUME Inv, pc = "done", NEW f \in Files
               PROVE Current(f) /\ f \in synced /\ mode[f] = ModeOf(f)
    BY DEF CompletedRunIsWhole
  <2>1. Finished(f)
    BY Order DEF Inv, WrittenInOrder
  <2> QED
    BY <2>1 DEF Finished, Current, ModeOf
<1> QED
  BY <1>1, InvInit, InvStep, PTL DEF Spec
===============================================================================
