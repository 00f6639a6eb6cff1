------------------------------ MODULE OrbDelete ------------------------------
(***************************************************************************)
(* Client.Delete (internal/orbstack/cli.go) as the orbctl commands it is   *)
(* made of, next to other deletions and to local actors who create, rename *)
(* and delete machines of their own accord.                                *)
(*                                                                         *)
(* OrbStack keeps IDs for ever and names unique.  Actors use the names     *)
(* they know; nobody but the deletion that drew it uses a random name.     *)
(***************************************************************************)
EXTENDS Naturals, FiniteSets

CONSTANTS
    Ids,        \* machine IDs, each given to at most one machine
    Known,      \* names people give to machines
    Drawn,      \* random names for deletions, drawn again when unused
    Deleters,   \* processes that may delete at the same time
    MaxFaults,  \* bound on the failures of commands and processes
    MaxMoves,   \* bound on what actors do
    NoId,
    NoName

ASSUME DeleteAssumption ==
    /\ NoId \notin Ids
    /\ Known \cap Drawn = {}
    /\ NoName \notin Known \cup Drawn
    /\ MaxFaults \in Nat
    /\ MaxMoves \in Nat

VARIABLES
    name,       \* the name of each machine, NoName if there is none
    created,    \* IDs given out so far
    quota,      \* machines with a disk limit, and those that reached it
    pc,         \* where each deletion is
    target,     \* the ID each deletion was called with
    fresh,      \* the name each running deletion drew
    answer,     \* what each process's last deletion returned
    faults,
    moves

machineVars == <<name, created, quota>>
boundVars   == <<faults, moves>>
vars == <<machineVars, pc, target, fresh, answer, boundVars>>

Present(i) == name[i] # NoName

Named(n) == {i \in Ids : name[i] = n}

Goto(d, step) == /\ pc' = [pc EXCEPT ![d] = step]
                 /\ UNCHANGED <<target, answer, fresh>>

Return(d, a) == /\ pc' = [pc EXCEPT ![d] = "idle"]
                /\ answer' = [answer EXCEPT ![d] = a]
                /\ fresh' = [fresh EXCEPT ![d] = NoName]
                /\ UNCHANGED target

Fault == faults < MaxFaults /\ faults' = faults + 1

Init ==
    /\ name = [i \in Ids |-> NoName]
    /\ created = {}
    /\ quota = [i \in Ids |-> "limited"]
    /\ pc = [d \in Deleters |-> "idle"]
    /\ target = [d \in Deleters |-> NoId]
    /\ fresh = [d \in Deleters |-> NoName]
    /\ answer = [d \in Deleters |-> "none"]
    /\ faults = 0
    /\ moves = 0

-----------------------------------------------------------------------------
(* Delete                                                                  *)

(* The ID is one the caller has recorded, so it was given out.             *)
Call(d, i) ==
    /\ pc[d] = "idle"
    /\ i \in created
    /\ target' = [target EXCEPT ![d] = i]
    /\ answer' = [answer EXCEPT ![d] = "none"]
    /\ pc' = [pc EXCEPT ![d] = "resolve"]
    /\ UNCHANGED <<machineVars, fresh, boundVars>>

(* Bug: the disk quota is not lifted.                                      *)
ResolveAndRename(d) ==
    /\ pc[d] = "resolve"
    /\ IF Present(target[d]) THEN Goto(d, "rename") ELSE Return(d, "ok")
    /\ UNCHANGED <<machineVars, boundVars>>

(* findByID: a machine that is gone is deleted already.                    *)
Resolve(d) ==
    /\ pc[d] = "resolve"
    /\ \/ /\ IF Present(target[d]) THEN Goto(d, "lift") ELSE Return(d, "ok")
          /\ UNCHANGED faults
       \/ Return(d, "error") /\ Fault
    /\ UNCHANGED <<machineVars, moves>>

(* The quota is lifted by ID; whether it was is not looked at.             *)
Lift(d) ==
    /\ pc[d] = "lift"
    /\ \/ quota' = [quota EXCEPT ![target[d]] = "lifted"] /\ UNCHANGED faults
       \/ UNCHANGED quota /\ Fault
    /\ Goto(d, "rename")
    /\ UNCHANGED <<name, created, moves>>

(* A machine at its quota has no room to be renamed in.                    *)
CanRename(i) == Present(i) /\ quota[i] # "full"

(* Bug: the name for the deletion is one that can be known.                *)
RenameToKnown(d) ==
    /\ pc[d] = "rename"
    /\ IF CanRename(target[d])
       THEN \E n \in {k \in Known : Named(k) = {}} :
               /\ name' = [name EXCEPT ![target[d]] = n]
               /\ pc' = [pc EXCEPT ![d] = "verify"]
               /\ fresh' = [fresh EXCEPT ![d] = n]
               /\ UNCHANGED <<target, answer>>
       ELSE UNCHANGED name /\ Return(d, "error")
    /\ UNCHANGED <<created, quota, boundVars>>

Unused == {n \in Drawn : Named(n) = {} /\ \A d \in Deleters : fresh[d] # n}

Rename(d) ==
    /\ pc[d] = "rename"
    /\ IF CanRename(target[d])
       THEN \E n \in Unused :
              LET renamed == [name EXCEPT ![target[d]] = n] IN
              \/ /\ name' = renamed
                 /\ pc' = [pc EXCEPT ![d] = "verify"]
                 /\ fresh' = [fresh EXCEPT ![d] = n]
                 /\ UNCHANGED <<target, answer, faults>>
              \/ name' \in {name, renamed} /\ Return(d, "error") /\ Fault
       ELSE UNCHANGED <<name, faults>> /\ Return(d, "error")
    /\ UNCHANGED <<created, quota, moves>>

(* Bug: a machine that has another name by now is taken for deleted.       *)
VerifyByName(d) ==
    /\ pc[d] = "verify"
    /\ IF name[target[d]] = fresh[d] THEN Goto(d, "delete")
                                     ELSE Return(d, "ok")
    /\ UNCHANGED <<machineVars, boundVars>>

(* Resolved by ID again, the machine must still have the new name.         *)
Verify(d) ==
    /\ pc[d] = "verify"
    /\ \/ /\ ~Present(target[d])
          /\ Return(d, "ok")
          /\ UNCHANGED faults
       \/ /\ Present(target[d])
          /\ IF name[target[d]] = fresh[d] THEN Goto(d, "delete")
                                           ELSE Return(d, "error")
          /\ UNCHANGED faults
       \/ Return(d, "error") /\ Fault
    /\ UNCHANGED <<machineVars, moves>>

(* orbctl delete takes whatever machine has the name.                      *)
DeleteNamed(d) ==
    /\ pc[d] = "delete"
    /\ LET deleted == [i \in Ids |-> IF i \in Named(fresh[d]) THEN NoName
                                                             ELSE name[i]]
       IN
       \/ /\ name' = deleted
          /\ Return(d, IF Named(fresh[d]) = {} THEN "error" ELSE "ok")
          /\ UNCHANGED faults
       \/ name' \in {name, deleted} /\ Return(d, "error") /\ Fault
    /\ UNCHANGED <<created, quota, moves>>

Kill(d) ==
    /\ pc[d] # "idle"
    /\ Return(d, "error")
    /\ Fault
    /\ UNCHANGED <<machineVars, moves>>

-----------------------------------------------------------------------------
(* Everyone else on this Mac.                                              *)

Free(n) == Named(n) = {}

Move == /\ moves < MaxMoves
        /\ moves' = moves + 1
        /\ UNCHANGED <<pc, target, fresh, answer, faults>>

ActorCreates(i, n) ==
    /\ i \notin created
    /\ Free(n)
    /\ created' = created \cup {i}
    /\ name' = [name EXCEPT ![i] = n]
    /\ UNCHANGED quota
    /\ Move

ActorRenames(i, n) ==
    /\ CanRename(i)
    /\ Free(n)
    /\ name' = [name EXCEPT ![i] = n]
    /\ UNCHANGED <<created, quota>>
    /\ Move

ActorDeletes(i) ==
    /\ Present(i)
    /\ name' = [name EXCEPT ![i] = NoName]
    /\ UNCHANGED <<created, quota>>
    /\ Move

(* A job fills its machine's disk.                                         *)
JobFills(i) ==
    /\ Present(i)
    /\ quota[i] = "limited"
    /\ quota' = [quota EXCEPT ![i] = "full"]
    /\ UNCHANGED <<name, created>>
    /\ Move

DeleteStep(d) ==
    Resolve(d) \/ Lift(d) \/ Rename(d) \/ Verify(d) \/ DeleteNamed(d)

Next ==
    \/ \E d \in Deleters :
          DeleteStep(d) \/ Kill(d) \/ \E i \in Ids : Call(d, i)
    \/ \E i \in Ids :
          \/ ActorDeletes(i)
          \/ JobFills(i)
          \/ \E n \in Known : ActorCreates(i, n) \/ ActorRenames(i, n)

Spec == Init /\ [][Next]_vars

(* Started deletions end, and a deletion is called for again and again.    *)
FairSpec ==
    /\ Spec
    /\ \A d \in Deleters : WF_vars(DeleteStep(d))
    /\ \A i \in Ids : SF_vars(\E d \in Deleters : Call(d, i))

-----------------------------------------------------------------------------
(* Every variable keeps its type.                                          *)
TypeOK ==
    /\ name \in [Ids -> Known \cup Drawn \cup {NoName}]
    /\ created \subseteq Ids
    /\ quota \in [Ids -> {"limited", "full", "lifted"}]
    /\ pc \in [Deleters ->
                  {"idle", "resolve", "lift", "rename", "verify", "delete"}]
    /\ target \in [Deleters -> Ids \cup {NoId}]
    /\ fresh \in [Deleters -> Drawn \cup {NoName}]
    /\ answer \in [Deleters -> {"none", "ok", "error"}]
    /\ faults \in 0 .. MaxFaults
    /\ moves \in 0 .. MaxMoves

(* Names are unique, and a deletion's name is its target's or nobody's.    *)
NameInv ==
    /\ \A i, j \in Ids : Present(i) /\ name[i] = name[j] => i = j
    /\ \A i \in Ids : Present(i) => i \in created
    /\ \A d \in Deleters :
          /\ pc[d] = "idle" \/ target[d] \in created
          /\ pc[d] \in {"verify", "delete"} <=> fresh[d] # NoName
          /\ \A i \in Ids : Present(i) /\ name[i] = fresh[d] => i = target[d]
          /\ answer[d] = "ok" => target[d] \in created

(* A deletion never takes another machine than the one with the ID it was  *)
(* called with, although orbctl deletes by name and anyone may rename      *)
(* machines in between (cli.go, Delete).                                   *)
OnlyTheTarget ==
    [][\A d \in Deleters, i \in Ids :
          pc[d] = "delete" /\ pc'[d] # "delete" /\ Present(i)
              /\ name'[i] = NoName
          => i = target[d]]_vars

(* Delete only answers success when its machine is gone, for ever: the     *)
(* record of a runner may be removed on that answer.                       *)
SuccessMeansGone ==
    \A d \in Deleters : answer[d] = "ok" => ~Present(target[d])

(* From some moment on only one process deletes: two that take turns could *)
(* rename the machine under each other for ever.                           *)
LeftAlone ==
    \E d \in Deleters : <>[](\A e \in Deleters \ {d} : pc[e] = "idle")

(* Deleting a machine again and again deletes it, also one whose disk is   *)
(* full and that cannot be renamed as it is (cli.go, Delete).              *)
DeletionConverges ==
    LeftAlone =>
    \A i \in Ids : [](i \in created => <>~Present(i))
=============================================================================
