----------------------------- MODULE MCAskDesk -----------------------------
(* The ask desk on a small instance: analysts, requests and browsers are    *)
(* interchangeable, which the safety run makes use of.                      *)
EXTENDS AskDesk, TLC

Symmetry == Permutations(Agents) \union Permutations(Refs) \union Permutations(Readers)
=============================================================================
