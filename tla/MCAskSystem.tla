---------------------------- MODULE MCAskSystem ----------------------------
(* One analyst, two questions that may be swapped, one browser.            *)
EXTENDS AskSystem, TLC

Symmetry == Permutations(Refs)
=============================================================================
