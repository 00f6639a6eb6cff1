--------------------------- MODULE RunnerRegistry ---------------------------
(***************************************************************************)
(* What the registry promises about runners and their machines, said       *)
(* without processes, files, locks or failed writes: the contract that     *)
(* RunnerLifecycle keeps while it takes registry operations for single     *)
(* steps, and that RegistryFile keeps although they are not.               *)
(*                                                                         *)
(* There is what processes read, and what is kept when the power fails;    *)
(* what is kept follows what is read sooner or later, for each runner, for *)
(* its phase and for its intent on its own.                                *)
(***************************************************************************)
CONSTANT Runners

VARIABLES
    phase,      \* the phase of each runner's record
    marked,     \* runners with an intent
    keptPhase,  \* both as a power failure leaves them
    keptMarked,
    made        \* runners whose machine exists, or may still appear

vars == <<phase, marked, keptPhase, keptMarked, made>>

Phases == {"none", "reserved", "created", "deleting"}

Init ==
    /\ phase = [r \in Runners |-> "none"]
    /\ marked = {}
    /\ keptPhase = phase
    /\ keptMarked = {}
    /\ made = {}

(* Any part of what is read becomes what is kept.                          *)
Settles ==
    /\ keptPhase' \in [Runners -> Phases]
    /\ \A r \in Runners : keptPhase'[r] \in {keptPhase[r], phase'[r]}
    /\ keptMarked \cap marked' \subseteq keptMarked'
    /\ keptMarked' \subseteq keptMarked \cup marked'

(* Read and kept, a runner's phase is one of these.                        *)
Surely(r, ps) == {phase[r], keptPhase[r]} \subseteq ps

Moves(r, from, to) ==
    /\ phase[r] \in from
    /\ phase' = [phase EXCEPT ![r] = to]
    /\ Settles
    /\ UNCHANGED <<marked, made>>

Reserve(r) == Moves(r, {"none"}, "reserved")

Create(r) == Moves(r, {"reserved"}, "created")

Delete(r) == Moves(r, {"created"}, "deleting")

(* A record goes when its machine and its intent are gone for good.        *)
Forget(r) ==
    /\ r \notin made \cup marked \cup keptMarked
    /\ Moves(r, {"reserved", "deleting"}, "none")

Mark(r) ==
    /\ r \notin made
    /\ Surely(r, {"reserved"})
    /\ marked' = marked \cup {r}
    /\ Settles
    /\ UNCHANGED <<phase, made>>

Unmark(r) ==
    /\ r \in made => Surely(r, {"created", "deleting"})
    /\ marked' = marked \ {r}
    /\ Settles
    /\ UNCHANGED <<phase, made>>

(* A machine is only made when no power failure can hide it.               *)
Make(r) ==
    /\ r \in (marked \cap keptMarked) \ made
    /\ Surely(r, {"reserved"})
    /\ made' = made \cup {r}
    /\ UNCHANGED <<phase, marked, keptPhase, keptMarked>>

Vanish(r) ==
    /\ r \in made
    /\ made' = made \ {r}
    /\ UNCHANGED <<phase, marked, keptPhase, keptMarked>>

Settle == Settles /\ UNCHANGED <<phase, marked, made>>

PowerFails ==
    /\ phase' = keptPhase
    /\ marked' = keptMarked
    /\ UNCHANGED <<keptPhase, keptMarked, made>>

Next ==
    \/ \E r \in Runners :
          \/ Reserve(r) \/ Create(r) \/ Delete(r) \/ Forget(r)
          \/ Mark(r) \/ Unmark(r) \/ Make(r) \/ Vanish(r)
    \/ Settle
    \/ PowerFails

Spec == Init /\ [][Next]_vars

-----------------------------------------------------------------------------
(* What follows from the contract.  A machine that exists or may appear is *)
(* known, read or kept, by its ID or by a reservation with an intent.      *)
MachinesKnown ==
    \A r \in made :
        /\ Surely(r, Phases \ {"none"})
        /\ "reserved" \in {phase[r], keptPhase[r]} =>
              r \in marked \cap keptMarked

(* No runner name inherits an intent, not even from before a power         *)
(* failure.                                                                *)
NoStaleIntent ==
    \A r \in marked \cup keptMarked : Surely(r, Phases \ {"none"})
=============================================================================
