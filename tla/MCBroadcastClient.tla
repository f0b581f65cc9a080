-------------------------- MODULE MCBroadcastClient -------------------------
(***************************************************************************)
(* Small instances of BroadcastClient for TLC.  Commands are model values; *)
(* safety runs may identify them.                                          *)
(***************************************************************************)
EXTENDS BroadcastClient, TLC

CommandSymmetry == Permutations(Commands)
============================================================================
