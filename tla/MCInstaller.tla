----------------------------- MODULE MCInstaller ----------------------------
EXTENDS Installer, TLC

(* Command processes are interchangeable, and so are releases.             *)
Symmetry == Permutations(Cmds) \cup Permutations(Versions)
=============================================================================
