---------------------------- MODULE CloneWindow ----------------------------
(***************************************************************************)
(* What the calls of GARM and of the operator do to a template they clone  *)
(* from, said without processes, phases or failures: the contract between  *)
(* the lifecycle of runners and whoever removes the template.  A copy      *)
(* begins under the template's lock, with its runner on record and its     *)
(* intent marked; both stay while the copy is under way, also after the    *)
(* lock is gone.                                                           *)
(***************************************************************************)
CONSTANT Runners

VARIABLES
    named,      \* runners whose record names the template
    marked,     \* those with an intent
    copying,    \* those whose copy is under way
    held        \* is the template's lock held by a CREATE?

vars == <<named, marked, copying, held>>

Init == named = {} /\ marked = {} /\ copying = {} /\ held = FALSE

Reserve(r) ==
    /\ r \notin named
    /\ named' = named \cup {r}
    /\ UNCHANGED <<marked, copying, held>>

Take == ~held /\ held' = TRUE /\ UNCHANGED <<named, marked, copying>>

Give == held /\ held' = FALSE /\ UNCHANGED <<named, marked, copying>>

(* The lock may go with the last thing its holder does.                    *)
Last == held' => held

Mark(r) ==
    /\ held /\ r \in named \ copying
    /\ marked' = marked \cup {r}
    /\ Last /\ UNCHANGED <<named, copying>>

Copy(r) ==
    /\ held /\ r \in (named \cap marked) \ copying
    /\ copying' = copying \cup {r}
    /\ UNCHANGED <<named, marked, held>>

CopyEnds(r) ==
    /\ r \in copying
    /\ copying' = copying \ {r}
    /\ UNCHANGED <<named, marked, held>>

Unmark(r) ==
    /\ r \in marked \ copying
    /\ marked' = marked \ {r}
    /\ Last /\ UNCHANGED <<named, copying>>

Forget(r) ==
    /\ r \in named \ copying
    /\ named' = named \ {r}
    /\ marked' = marked \ {r}
    /\ Last /\ UNCHANGED copying

Next ==
    \/ Take \/ Give
    \/ \E r \in Runners :
          \/ Reserve(r) \/ Mark(r) \/ Copy(r) \/ CopyEnds(r)
          \/ Unmark(r) \/ Forget(r)

Spec == Init /\ [][Next]_vars
=============================================================================
