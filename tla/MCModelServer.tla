--------------------------- MODULE MCModelServer ---------------------------
(* Instances of ModelServer for TLC.                                         *)
EXTENDS ModelServer, TLC

Symmetry == Permutations(Clients) \cup Permutations(Models)
=============================================================================
