--------------------------- MODULE MCHybridVault ---------------------------
(***************************************************************************)
(* Small instances of HybridVault for TLC.  Keys are model values; those   *)
(* that sign are interchangeable, so safety runs may identify them.        *)
(***************************************************************************)
EXTENDS HybridVault, TLC

SignerSymmetry == Permutations(Ed25519Signers)
============================================================================
