----------------------------- MODULE MCAgentSlots -----------------------------
(* AgentSlots for TLC.                                                         *)
EXTENDS AgentSlots, TLC

CONSTANTS r, a, b, o1, o2

\* The texts of the nicknames made from one candidate.
MCFormat == [n \in Nicknames |-> IF n[2] = 0 THEN "Atlas" ELSE "Atlas the 2nd"]

\* The operations are alike, and so are the agents when none is stored.
Symmetric == Permutations(Ops) \cup Permutations(Threads \ {Root})

=============================================================================
