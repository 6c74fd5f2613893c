--------------------------- MODULE MCModelUpdates ---------------------------
(* Instances of ModelUpdates for TLC: the weights change with every revision, *)
(* the tower is the same in the first two.                                    *)
EXTENDS ModelUpdates, TLC

MCSha == [f \in Files |->
            IF f = "model" THEN [r \in Revs |-> 10 + r]
            ELSE [r \in Revs |-> IF r < 3 THEN 20 ELSE 23]]
MCDigests == {11, 12, 13, 20, 23}

Symmetry == Permutations(Procs)
=============================================================================
