------------------------------ MODULE MCDiscoverer ------------------------------
(* Model checking of Discoverer; starters are interchangeable. *)
EXTENDS Discoverer, TLC

Symmetry == Permutations(Starters)
================================================================================
