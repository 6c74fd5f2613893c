---------------------------- MODULE MCLoopGuard ----------------------------
(* Instances of LoopGuard for TLC.                                           *)
EXTENDS LoopGuard

Symmetry == Permutations(Calls) \cup Permutations(LoopTexts)
=============================================================================
