------------------------- MODULE MCRunnerLifecycle -------------------------
EXTENDS RunnerLifecycle, TLC

(* Runners, helpers and generated names are interchangeable.               *)
Symmetry == Permutations(Runners) \cup Permutations(Helpers)
            \cup Permutations(Names)
=============================================================================
