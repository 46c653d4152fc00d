-------------------------- MODULE MCMediaProfileCache --------------------------
(* Model checking of MediaProfileCache; threads are interchangeable. *)
EXTENDS MediaProfileCache, TLC

Symmetry == Permutations(Threads)
================================================================================
