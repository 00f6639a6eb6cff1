--------------------------- MODULE MCTemplateHost ---------------------------
EXTENDS TemplateHost, TLC

(* Processes, images and runners are interchangeable.                      *)
Symmetry == Permutations(Procs) \cup Permutations(Images)
               \cup Permutations(Runners)
=============================================================================
