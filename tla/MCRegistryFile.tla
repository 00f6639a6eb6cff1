--------------------------- MODULE MCRegistryFile ---------------------------
EXTENDS RegistryFile, TLC

(* Runners and processes are interchangeable.                              *)
Symmetry == Permutations(Runners) \cup Permutations(Procs)
=============================================================================
