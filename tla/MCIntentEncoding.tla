-------------------------- MODULE MCIntentEncoding --------------------------
(***************************************************************************)
(* A small instance of IntentEncoding and SignedBundle for TLC: the zero   *)
(* key, and two keys that differ in one word.                              *)
(***************************************************************************)
EXTENDS SignedBundle

SmallKeys == {<<0, 0, 0, 0>>, <<1, 0, 0, 0>>, <<0, 0, 0, 1>>}
============================================================================
