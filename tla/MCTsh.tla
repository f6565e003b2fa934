------------------------------- MODULE MCTsh -------------------------------
(* Model checking of the shell: process ids are interchangeable.            *)
EXTENDS Tsh, TLC

Symmetry == Permutations(Pids)
=============================================================================
