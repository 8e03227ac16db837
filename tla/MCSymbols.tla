----------------------------- MODULE MCSymbols -----------------------------
(* Instances of Symbols for TLC.                                           *)
EXTENDS Symbols

TwoTypes   == {"int", "double"}
NoPitfall  == {}
HideEnum   == {"hidden enumerator"}

=============================================================================
