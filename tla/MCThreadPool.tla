----------------------------- MODULE MCThreadPool -----------------------------
(* Instances of ThreadPool for TLC.  Tasks and callers are interchangeable, *)
(* workers are not: they are numbered, and a thief starts at its neighbour. *)
EXTENDS ThreadPool, TLC

Symmetry == Permutations(Tasks) \cup Permutations(Callers)
================================================================================
