---------------------------- MODULE MCMemoryJobs ----------------------------
(* MemoryJobs for TLC: the threads are interchangeable.                        *)
EXTENDS MemoryJobs, TLC

Symmetry == Permutations(Threads)
=============================================================================
