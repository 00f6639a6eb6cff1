---------------------------- MODULE MCCloneSetup ----------------------------
EXTENDS CloneSetup, TLC

(* IDs, names and settings other than Disk are interchangeable.            *)
Symmetry == Permutations(Ids) \cup Permutations(Known)
            \cup Permutations(Drawn) \cup Permutations(Settings \ {Disk})
=============================================================================
