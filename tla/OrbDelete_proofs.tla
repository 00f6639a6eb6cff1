-------------------------- MODULE OrbDelete_proofs --------------------------
(***************************************************************************)
(* Theorems about OrbDelete: however many deletions and actors there are,  *)
(* a deletion by name only ever takes the machine with its ID.  A drawn    *)
(* name is on no machine when it is drawn, actors do not use drawn names,  *)
(* and OrbStack gives no name twice: so whatever has the name is the       *)
(* target (NameInv).                                                       *)
(***************************************************************************)
EXTENDS OrbDelete, TLAPS

USE DeleteAssumption
USE DEF Present, Named, Fault, Move, Goto, Return, CanRename, Free,
        machineVars, boundVars

DInv == TypeOK /\ NameInv /\ SuccessMeansGone

(* The initial states satisfy the invariant. *)
LEMMA Initial == Init => DInv
BY DEF Init, DInv, TypeOK, NameInv, SuccessMeansGone

(* No step, and no stuttering step, leaves the invariant. *)
LEMMA Inductive == DInv /\ [Next]_vars => DInv'
<1>1. SUFFICES ASSUME TypeOK, NameInv, SuccessMeansGone, [Next]_vars
               PROVE  DInv'
  BY DEF DInv
<1>2. ASSUME NEW d \in Deleters, Resolve(d)
      PROVE  DInv'
  <2>1. TypeOK'
    BY <1>1, <1>2 DEF TypeOK, Resolve
  <2>2. NameInv'
    BY <1>1, <1>2 DEF TypeOK, NameInv, SuccessMeansGone, Resolve
  <2>3. SuccessMeansGone'
    BY <1>1, <1>2 DEF TypeOK, NameInv, SuccessMeansGone, Resolve
  <2>4. QED
    BY <2>1, <2>2, <2>3 DEF DInv
<1>3. ASSUME NEW d \in Deleters, Lift(d)
      PROVE  DInv'
  <2>1. TypeOK'
    BY <1>1, <1>3 DEF TypeOK, Lift
  <2>2. NameInv'
    BY <1>1, <1>3 DEF TypeOK, NameInv, SuccessMeansGone, Lift
  <2>3. SuccessMeansGone'
    BY <1>1, <1>3 DEF TypeOK, NameInv, SuccessMeansGone, Lift
  <2>4. QED
    BY <2>1, <2>2, <2>3 DEF DInv
<1>4. ASSUME NEW d \in Deleters, Rename(d)
      PROVE  DInv'
  <2>1. TypeOK'
    BY <1>1, <1>4 DEF TypeOK, Rename, Unused
  <2>2. NameInv'
    BY <1>1, <1>4 DEF TypeOK, NameInv, SuccessMeansGone, Rename, Unused
  <2>3. SuccessMeansGone'
    BY <1>1, <1>4 DEF TypeOK, NameInv, SuccessMeansGone, Rename, Unused
  <2>4. QED
    BY <2>1, <2>2, <2>3 DEF DInv
<1>5. ASSUME NEW d \in Deleters, Verify(d)
      PROVE  DInv'
  <2>1. TypeOK'
    BY <1>1, <1>5 DEF TypeOK, Verify
  <2>2. NameInv'
    BY <1>1, <1>5 DEF TypeOK, NameInv, SuccessMeansGone, Verify
  <2>3. SuccessMeansGone'
    BY <1>1, <1>5 DEF TypeOK, NameInv, SuccessMeansGone, Verify
  <2>4. QED
    BY <2>1, <2>2, <2>3 DEF DInv
<1>6. ASSUME NEW d \in Deleters, DeleteNamed(d)
      PROVE  DInv'
  <2>1. TypeOK'
    BY <1>1, <1>6 DEF TypeOK, DeleteNamed
  <2>2. NameInv'
    BY <1>1, <1>6 DEF TypeOK, NameInv, SuccessMeansGone, DeleteNamed
  <2>3. SuccessMeansGone'
    BY <1>1, <1>6 DEF TypeOK, NameInv, SuccessMeansGone, DeleteNamed
  <2>4. QED
    BY <2>1, <2>2, <2>3 DEF DInv
<1>7. ASSUME NEW d \in Deleters, Kill(d)
      PROVE  DInv'
  <2>1. TypeOK'
    BY <1>1, <1>7 DEF TypeOK, Kill
  <2>2. NameInv'
    BY <1>1, <1>7 DEF TypeOK, NameInv, SuccessMeansGone, Kill
  <2>3. SuccessMeansGone'
    BY <1>1, <1>7 DEF TypeOK, NameInv, SuccessMeansGone, Kill
  <2>4. QED
    BY <2>1, <2>2, <2>3 DEF DInv
<1>8. ASSUME NEW d \in Deleters, NEW i \in Ids, Call(d, i)
      PROVE  DInv'
  <2>1. TypeOK'
    BY <1>1, <1>8 DEF TypeOK, Call
  <2>2. NameInv'
    BY <1>1, <1>8 DEF TypeOK, NameInv, SuccessMeansGone, Call
  <2>3. SuccessMeansGone'
    BY <1>1, <1>8 DEF TypeOK, NameInv, SuccessMeansGone, Call
  <2>4. QED
    BY <2>1, <2>2, <2>3 DEF DInv
<1>9. ASSUME NEW i \in Ids, ActorDeletes(i)
      PROVE  DInv'
  <2>1. TypeOK'
    BY <1>1, <1>9 DEF TypeOK, ActorDeletes
  <2>2. NameInv'
    BY <1>1, <1>9 DEF TypeOK, NameInv, SuccessMeansGone, ActorDeletes
  <2>3. SuccessMeansGone'
    BY <1>1, <1>9 DEF TypeOK, NameInv, SuccessMeansGone, ActorDeletes
  <2>4. QED
    BY <2>1, <2>2, <2>3 DEF DInv
<1>10. ASSUME NEW i \in Ids, JobFills(i)
      PROVE  DInv'
  <2>1. TypeOK'
    BY <1>1, <1>10 DEF TypeOK, JobFills
  <2>2. NameInv'
    BY <1>1, <1>10 DEF TypeOK, NameInv, SuccessMeansGone, JobFills
  <2>3. SuccessMeansGone'
    BY <1>1, <1>10 DEF TypeOK, NameInv, SuccessMeansGone, JobFills
  <2>4. QED
    BY <2>1, <2>2, <2>3 DEF DInv
<1>11. ASSUME NEW i \in Ids, NEW n \in Known, ActorCreates(i, n)
      PROVE  DInv'
  <2>1. TypeOK'
    BY <1>1, <1>11 DEF TypeOK, ActorCreates
  <2>2. NameInv'
    BY <1>1, <1>11 DEF TypeOK, NameInv, SuccessMeansGone, ActorCreates
  <2>3. SuccessMeansGone'
    BY <1>1, <1>11 DEF TypeOK, NameInv, SuccessMeansGone, ActorCreates
  <2>4. QED
    BY <2>1, <2>2, <2>3 DEF DInv
<1>12. ASSUME NEW i \in Ids, NEW n \in Known, ActorRenames(i, n)
      PROVE  DInv'
  <2>1. TypeOK'
    BY <1>1, <1>12 DEF TypeOK, ActorRenames
  <2>2. NameInv'
    BY <1>1, <1>12 DEF TypeOK, NameInv, SuccessMeansGone, ActorRenames
  <2>3. SuccessMeansGone'
    BY <1>1, <1>12 DEF TypeOK, NameInv, SuccessMeansGone, ActorRenames
  <2>4. QED
    BY <2>1, <2>2, <2>3 DEF DInv
<1>13. CASE UNCHANGED vars
  BY <1>1, <1>13 DEF vars, DInv, TypeOK, NameInv, SuccessMeansGone
<1>14. QED
  BY <1>1, <1>2, <1>3, <1>4, <1>5, <1>6, <1>7, <1>8, <1>9, <1>10,
     <1>11, <1>12, <1>13 DEF Next, DeleteStep

(* TypeOK and NameInv hold in every reachable state. *)
THEOREM DeleteInvariance == Spec => []DInv
BY Initial, Inductive, PTL DEF Spec

(* Every variable keeps its type. *)
THEOREM DeleteTyping == Spec => []TypeOK
<1>1. DInv => TypeOK
  BY DEF DInv
<1>2. QED
  BY <1>1, DeleteInvariance, PTL

(* Names stay unique, and the name a deletion drew is only ever its        *)
(* target's: what makes `orbctl delete <name>` a deletion by ID (Delete).  *)
THEOREM NamesBelong == Spec => []NameInv
<1>1. DInv => NameInv
  BY DEF DInv
<1>2. QED
  BY <1>1, DeleteInvariance, PTL

(* A success means that the machine is gone for ever (cli.go, Delete). *)
THEOREM SuccessIsFinal == Spec => []SuccessMeansGone
<1>1. DInv => SuccessMeansGone
  BY DEF DInv
<1>2. QED
  BY <1>1, DeleteInvariance, PTL

(* Delete only takes the machine with the ID it was called with (cli.go,   *)
(* Delete), whatever is created, renamed and deleted next to it.           *)
THEOREM DeletesItsTarget == Spec => OnlyTheTarget
<1>1. DInv /\ [Next]_vars =>
        [\A d \in Deleters, i \in Ids :
            pc[d] = "delete" /\ pc'[d] # "delete" /\ Present(i)
                /\ name'[i] = NoName
               => i = target[d]]_vars
  <2>1. SUFFICES ASSUME DInv, [Next]_vars, NEW d \in Deleters, NEW i \in Ids,
                        pc[d] = "delete", pc'[d] # "delete", Present(i),
                        name'[i] = NoName
                 PROVE  i = target[d]
    OBVIOUS
  <2>2. DeleteNamed(d) \/ Kill(d)
    BY <2>1 DEF DInv, TypeOK, Next, vars, DeleteStep, Resolve, Lift, Rename,
       Verify, DeleteNamed, Call, Kill, ActorDeletes, JobFills, ActorCreates,
       ActorRenames
  <2>3. name[i] = fresh[d]
    BY <2>1, <2>2 DEF DInv, TypeOK, DeleteNamed, Kill
  <2>4. QED
    BY <2>1, <2>3 DEF DInv, NameInv
<1>2. QED
  BY <1>1, DeleteInvariance, PTL DEF Spec, OnlyTheTarget

=============================================================================
