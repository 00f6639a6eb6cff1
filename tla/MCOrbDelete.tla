----------------------------- MODULE MCOrbDelete -----------------------------
EXTENDS OrbDelete, TLC

(* IDs, names and deletions are interchangeable.                           *)
Symmetry == Permutations(Ids) \cup Permutations(Known)
               \cup Permutations(Drawn) \cup Permutations(Deleters)
=============================================================================
