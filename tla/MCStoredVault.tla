--------------------------- MODULE MCStoredVault ---------------------------
(***************************************************************************)
(* A small instance of StoredVault for TLC: keys of two bytes.             *)
(***************************************************************************)
EXTENDS StoredVault

NoKey == <<0, 0>>
FirstOwner == <<1, 2>>
SecondOwner == <<2, 1>>
SmallKeys == {NoKey, FirstOwner, SecondOwner}
SomeSigners == {FirstOwner}
SmallFalconKeys == {<<1, 1>>, <<2, 2>>}
SomeFalconSigners == {<<2, 2>>}
\* Two bytes of two values each.
SmallToLE(n) == <<n % 2, n \div 2>>
SmallPrepared(f) == f \o <<3>>
SmallIndex == <<5, 0, 0, 0>>
============================================================================
