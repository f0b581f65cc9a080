------------------------------ MODULE KeyStore ------------------------------
(***************************************************************************)
(* The key directory (client/src/keys.rs) and keygen, which fills it       *)
(* (client/src/keygen.rs), on a Unix file system.                          *)
(*                                                                         *)
(* A run of keygen writes seven files one after the other, each by opening *)
(* (and so emptying) it, writing, syncing and setting its mode.  Any step  *)
(* may fail, the process may be killed between any two, and the power may  *)
(* go, which takes back whatever of a file was not synced.  keygen may be  *)
(* run again over whatever an earlier run left.  Another user of the       *)
(* machine opens whatever the modes let them, and keeps it open: a file is *)
(* emptied and rewritten in place, never replaced.                         *)
(***************************************************************************)
EXTENDS Naturals, Sequences

CONSTANTS
  MaxRuns,      \* bound on the runs of keygen
  OldModes      \* modes that files found in the directory may have

Files == {"ed25519.sk", "ed25519.pk", "ed25519-id.json", "falcon512.sk",
          "falcon512.pk", "falcon512.prepared", "keyset.json"}

SecretFiles == {"ed25519.sk", "ed25519-id.json", "falcon512.sk"}

Modes == {"0600", "0644"}
ModeOf(f) == IF f \in SecretFiles THEN "0600" ELSE "0644"

ASSUME KeyStoreAssumption == MaxRuns \in Nat /\ OldModes \subseteq Modes

\* generate(): Ed25519Keypair::write, FalconKeypair::write, KeySet::write.
WriteOrder == <<"ed25519.sk", "ed25519.pk", "ed25519-id.json", "falcon512.sk",
                "falcon512.pk", "falcon512.prepared", "keyset.json">>

VARIABLES
  dirMode,    \* "absent", "0755" or "0700"
  mode,       \* mode[f]: "absent" or the mode of file f
  content,    \* content[f]: how much of it was written, and by which run
  synced,     \* files whose content is on disk
  pc,         \* where keygen is
  position,   \* the file it writes, as a position of WriteOrder
  run,        \* how often keygen was started; the keys of a run are its own
  held,       \* secret files another user holds an open descriptor of
  loose       \* those found with a mode that let others open them

keygenVars == <<dirMode, mode, content, synced, pc, position, run>>
strangerVars == <<held, loose>>
vars == <<keygenVars, strangerVars>>

Contents == [part: {"empty", "partial", "whole"}, by: 0..MaxRuns]
Running == {"mkdir", "chmodDir", "open", "write", "sync", "chmod"}

TypeOK ==
  /\ dirMode \in {"absent", "0755", "0700"}
  /\ mode \in [Files -> {"absent"} \cup Modes] /\ content \in [Files -> Contents]
  /\ synced \subseteq Files /\ pc \in Running \cup {"stopped", "done"}
  /\ position \in 1..Len(WriteOrder) /\ run \in 0..MaxRuns
  /\ held \subseteq SecretFiles /\ loose \subseteq SecretFiles

\* Either nothing is there, or a directory with somebody's key files in it.
Init ==
  /\ \E found \in SUBSET Files, m \in OldModes :
       /\ dirMode \in IF found = {} THEN {"absent", "0755"} ELSE {"0755"}
       /\ mode = [f \in Files |-> IF f \in found THEN m ELSE "absent"]
       /\ content = [f \in Files |->
                       [part |-> IF f \in found THEN "whole" ELSE "empty", by |-> 0]]
  /\ synced = Files /\ pc = "stopped" /\ position = 1 /\ run = 0
  /\ held = {} /\ loose = {f \in SecretFiles : mode[f] = "0644"}
-----------------------------------------------------------------------------
File == WriteOrder[position]

\* Bound: MaxRuns.
StartKeygen ==
  /\ pc \in {"stopped", "done"} /\ run < MaxRuns
  /\ run' = run + 1 /\ pc' = "mkdir" /\ position' = 1
  /\ UNCHANGED <<dirMode, mode, content, synced>>

\* create_dir_all.
CreateDirectory ==
  /\ pc = "mkdir" /\ pc' = "chmodDir"
  /\ dirMode' = IF dirMode = "absent" THEN "0755" ELSE dirMode
  /\ UNCHANGED <<mode, content, synced, position, run>>

BugSecuredMode == dirMode
SecuredMode == "0700"
SetDirectoryMode ==
  /\ pc = "chmodDir" /\ pc' = "open"
  /\ dirMode' = SecuredMode
  /\ UNCHANGED <<mode, content, synced, position, run>>

\* The mode of open() counts only for a file that it creates.
Truncated == [part |-> "empty", by |-> run]
OpenFile ==
  /\ pc = "open" /\ pc' = "write"
  /\ mode' = [mode EXCEPT ![File] = IF @ = "absent" THEN ModeOf(File) ELSE @]
  /\ content' = [content EXCEPT ![File] = Truncated]
  /\ synced' = synced \ {File}
  /\ UNCHANGED <<dirMode, position, run>>

\* write_all: in one piece, or in pieces.
WriteFile ==
  /\ pc = "write"
  /\ \/ content' = [content EXCEPT ![File] = [part |-> "partial", by |-> run]] /\ UNCHANGED pc
     \/ content' = [content EXCEPT ![File] = [part |-> "whole", by |-> run]] /\ pc' = "sync"
  /\ UNCHANGED <<dirMode, mode, synced, position, run>>

BugOnDisk == synced
OnDisk == synced \cup {File}
SyncFile ==
  /\ pc = "sync" /\ pc' = "chmod"
  /\ synced' = OnDisk
  /\ UNCHANGED <<dirMode, mode, content, position, run>>

BugAssertedMode(f) == mode[f]
AssertedMode(f) == ModeOf(f)

NextPosition == IF position = Len(WriteOrder) THEN 1 ELSE position + 1

\* set_permissions, and on to the next file.
SetFileMode ==
  /\ pc = "chmod"
  /\ mode' = [mode EXCEPT ![File] = AssertedMode(File)]
  /\ pc' = IF position = Len(WriteOrder) THEN "done" ELSE "open"
  /\ position' = NextPosition
  /\ UNCHANGED <<dirMode, content, synced, run>>

\* An error return, or the process is killed.
Stop ==
  /\ pc \in Running /\ pc' = "stopped"
  /\ UNCHANGED <<dirMode, mode, content, synced, position, run>>

\* The content that was not synced may be lost, each file for itself.  Names
\* and modes are taken to reach the disk in the order they are given, as a
\* journaling file system does; the code syncs no directory.
PowerLoss ==
  /\ held' = {} /\ UNCHANGED loose
  /\ pc' = IF pc \in Running THEN "stopped" ELSE pc
  /\ \E lost \in SUBSET (Files \ synced) :
       content' = [f \in Files |-> IF f \in lost THEN [content[f] EXCEPT !.part = "empty"]
                                   ELSE content[f]]
  /\ synced' = Files
  /\ UNCHANGED <<dirMode, mode, position, run>>

OthersMayOpen(f) == mode[f] = "0644" /\ dirMode = "0755"

\* A descriptor outlives every later change of modes, and reads what is written
\* to the file after it was opened.
StrangerOpens(f) ==
  /\ OthersMayOpen(f)
  /\ held' = held \cup {f}
  /\ UNCHANGED <<keygenVars, loose>>

Keygen ==
  \/ StartKeygen \/ CreateDirectory \/ SetDirectoryMode
  \/ OpenFile \/ WriteFile \/ SyncFile \/ SetFileMode
  \/ Stop

Next ==
  \/ Keygen /\ UNCHANGED strangerVars
  \/ PowerLoss
  \/ \E f \in SecretFiles : StrangerOpens(f)

Spec == Init /\ [][Next]_vars
-----------------------------------------------------------------------------
\* A file that loads, read_exact_len asking for its length alone, with the keys
\* of the latest run.
Current(f) == mode[f] # "absent" /\ content[f] = [part |-> "whole", by |-> run]

\* Some bytes of a key that keygen made.
HasKeyBytes(f) == content[f].part # "empty" /\ content[f].by > 0

\* Once a byte of a new secret is in a file nobody else can open it, at no point
\* of any run, also where keygen writes over a file that others could open; and
\* others read the secret through a descriptor they had already only in such a
\* file.  There they do: write_with_mode (keys.rs) truncates the old file and
\* keygen.rs generate closes the directory, but neither takes an open file away.
SecretsAreShielded ==
  \A f \in SecretFiles :
    HasKeyBytes(f) => ~OthersMayOpen(f) /\ (f \in held => f \in loose)

\* A public key of the latest run that a command can load, and so put on chain,
\* always has its secret key on disk, and a manifest all the files it speaks
\* of, wherever the run is cut short and whatever the power loss takes.
PublicKeyHasItsSecret ==
  run > 0 =>
    /\ Current("ed25519.pk") => Current("ed25519.sk")
    /\ Current("falcon512.pk") => Current("falcon512.sk")
    /\ Current("keyset.json") => \A f \in Files : Current(f)

\* A run that returns has made all seven files its own, synced and under
\* their modes, whatever earlier runs or strangers left in the directory.
CompletedRunIsWhole ==
  pc = "done" =>
    \A f \in Files : Current(f) /\ f \in synced /\ mode[f] = ModeOf(f)
============================================================================
