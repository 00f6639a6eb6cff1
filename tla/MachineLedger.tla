--------------------------- MODULE MachineLedger ---------------------------
(***************************************************************************)
(* What the provider promises about the machines it makes, said without    *)
(* processes, locks, files or failures.  A machine name is claimed while   *)
(* there is capacity, may be cloned to once, and is released only when it  *)
(* certainly has no machine and never will have one.                       *)
(***************************************************************************)
EXTENDS Naturals, FiniteSets

CONSTANTS Names, MaxInstances

VARIABLE status   \* what became of each generated machine name

Statuses == {"free", "claimed", "live", "gone", "released"}

Held == {n \in Names : status[n] \in {"claimed", "live", "gone"}}

Init == status = [n \in Names |-> "free"]

Claim(n) ==
    /\ status[n] = "free"
    /\ Cardinality(Held) < MaxInstances
    /\ status' = [status EXCEPT ![n] = "claimed"]

Clone(n) ==
    /\ status[n] = "claimed"
    /\ status' = [status EXCEPT ![n] = "live"]

Vanish(n) ==
    /\ status[n] = "live"
    /\ status' = [status EXCEPT ![n] = "gone"]

Release(n) ==
    /\ status[n] \in {"claimed", "gone"}
    /\ status' = [status EXCEPT ![n] = "released"]

Next == \E n \in Names : Claim(n) \/ Clone(n) \/ Vanish(n) \/ Release(n)

Spec == Init /\ [][Next]_status
=============================================================================
