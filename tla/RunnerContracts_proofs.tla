---------------------- MODULE RunnerContracts_proofs ----------------------
(***************************************************************************)
(* RunnerLifecycle implements MachineLedger: whatever calls, failures and  *)
(* deaths do to a machine name is a step of the ledger or none at all.     *)
(* It implements CloneWindow, on which the removal of templates relies,    *)
(* and RunnerRegistry, as RegistryFile does when it writes the registry    *)
(* file by file.                                                           *)
(* And a list that reads records and inventory one after the other, while  *)
(* all this goes on, gives an answer that is true of one moment.           *)
(***************************************************************************)
EXTENDS RunnerListing, RunnerLifecycle_proofs

USE LifecycleAssumption

-----------------------------------------------------------------------------
(* The ledger's view of the names, and its steps, read off the view.       *)
View == [n \in Names |-> LedgerStatus(n)]

(* A step of the lifecycle that is none in the ledger.                     *)
LEMMA Stutter ==
    ASSUME \A n \in Names : LedgerStatus(n)' = LedgerStatus(n)
    PROVE  View' = View
BY DEF View

(* A step that moves one name as the ledger may.                           *)
LEMMA Moved ==
    ASSUME NEW n \in Names,
           \A m \in Names \ {n} : LedgerStatus(m)' = LedgerStatus(m),
           \/ /\ LedgerStatus(n) = "claimed" /\ LedgerStatus(n)' = "live"
           \/ /\ LedgerStatus(n) = "live" /\ LedgerStatus(n)' = "gone"
           \/ /\ LedgerStatus(n) \in {"claimed", "gone"}
              /\ LedgerStatus(n)' = "released"
           \/ LedgerStatus(n)' = LedgerStatus(n)
    PROVE  [Ledger!Next]_View
<1> DEFINE s == LedgerStatus(n)'
<1>1. View' = [View EXCEPT ![n] = s]
  BY DEF View
<1>2. View[n] = LedgerStatus(n)
  BY DEF View
<1>3. CASE LedgerStatus(n) = "claimed" /\ s = "live"
  <2>1. Ledger!Clone(n)
    BY <1>1, <1>2, <1>3 DEF Ledger!Clone, View
  <2> QED BY <2>1 DEF Ledger!Next
<1>4. CASE LedgerStatus(n) = "live" /\ s = "gone"
  <2>1. Ledger!Vanish(n)
    BY <1>1, <1>2, <1>4 DEF Ledger!Vanish, View
  <2> QED BY <2>1 DEF Ledger!Next
<1>5. CASE LedgerStatus(n) \in {"claimed", "gone"} /\ s = "released"
  <2>1. Ledger!Release(n)
    BY <1>1, <1>2, <1>5 DEF Ledger!Release, View
  <2> QED BY <2>1 DEF Ledger!Next
<1>6. CASE s = LedgerStatus(n)
  BY <1>6, Stutter
<1> QED BY <1>3, <1>4, <1>5, <1>6

(* What a name's status depends on.                                        *)
LEMMA SameStatus ==
    ASSUME NEW m \in Names, owner'[m] = owner[m],
           owner[m] # NoRunner
              => records'[owner[m]].name = records[owner[m]].name,
           child'[m] = child[m], m \in backend' <=> m \in backend,
           m \in Inventory' <=> m \in Inventory
    PROVE  LedgerStatus(m)' = LedgerStatus(m)
BY DEF LedgerStatus, Live

-----------------------------------------------------------------------------
(* Steps that leave owners, names in records, clones and machines alone.   *)
LEMMA LedgerSleeps ==
    ASSUME TypeOK, UNCHANGED <<owner, child, backend>>,
           \A r \in Runners : records'[r].name = records[r].name,
           \A m \in Names : m \in Inventory' <=> m \in Inventory
    PROVE  View' = View
<1>1. ASSUME NEW m \in Names PROVE LedgerStatus(m)' = LedgerStatus(m)
  <2>1. owner[m] # NoRunner => owner[m] \in Runners
    BY DEF TypeOK, RegistryTypes
  <2> QED BY <2>1, SameStatus
<1> QED BY <1>1, Stutter

LEMMA LedgerLooks ==
    ASSUME TypeOK, NEW h \in Helpers,
           \/ Call(h) \/ LockInstance(h) \/ LockRefused(h) \/ Recheck(h)
           \/ LockTemplate(h) \/ TemplateTimeout(h) \/ Validate(h)
           \/ MarkIntent(h) \/ Unmark(h) \/ Wait(h) \/ Identify(h)
           \/ ClearAfterClone(h) \/ CheckStopped(h) \/ ApplySettings(h)
           \/ InjectBootstrap(h) \/ Observe(h) \/ Owned(h) \/ Lift(h)
           \/ Confirm(h)
           \/ Uncertain(h) \/ ConfirmName(h) \/ Clear(h) \/ Adopt(h)
           \/ ClearAdopted(h) \/ ReadFails(h) \/ KillHelper(h)
    PROVE  View' = View
<1>1. UNCHANGED <<records, owner, child, backend, machine>>
  BY DEF Call, CallCreate, CallOn, LockInstance, LockRefused, Recheck,
     LockTemplate, TemplateTimeout, Validate, MarkIntent, Unmark, Wait,
     Identify, ClearAfterClone, CheckStopped, ApplySettings, InjectBootstrap,
     Observe, Owned, Lift, Confirm, Uncertain, ConfirmName, Clear, Adopt,
     ClearAdopted, ReadFails, KillHelper, MachineGone, registryVars, orbVars,
     machineVars
<1> QED BY <1>1, LedgerSleeps DEF Inventory

(* A saved record keeps its machine name.                                  *)
LEMMA LedgerSaves ==
    ASSUME TypeOK, IInv, NEW h \in Helpers,
           \/ SaveCreated(h) \/ SaveBootstrapping(h) \/ SaveActive(h)
           \/ SaveDeleting(h) \/ SaveAdopted(h)
    PROVE  View' = View
<1> USE DEF SaveCreated, SaveBootstrapping, SaveActive, SaveDeleting,
            SaveAdopted
<1>1. PICK r : r = call[h].runner
  OBVIOUS
<1>2. UNCHANGED <<owner, child, backend, machine>>
  BY DEF orbVars, machineVars
<1>3. PICK p \in Phases :
        records' \in {records, [records EXCEPT ![r] = Local(h, p)]}
  BY <1>1 DEF Saved, SaveFailed, Phases
<1>4. records[r].name = call[h].name
  <2>1. pc[h] \in LockedSteps /\ pc[h] \in BoundSteps
    BY DEF BoundSteps, LockedSteps, CleanupSteps, CreateSteps, CloneSteps,
       TargetSteps
  <2> QED BY <1>1, <2>1, Own
<1>5. ASSUME NEW q \in Runners PROVE records'[q].name = records[q].name
  BY <1>3, <1>4 DEF Local, Record, TypeOK, RegistryTypes
<1> QED BY <1>2, <1>5, LedgerSleeps DEF Inventory

(* Starting and stopping leaves a machine what it is.                      *)
LEMMA LedgerPowers ==
    ASSUME TypeOK, NEW h \in Helpers, Boot(h) \/ Power(h)
    PROVE  View' = View
<1>1. UNCHANGED <<records, owner, child, backend>>
  BY DEF Boot, Power, registryVars
<1>2. ASSUME NEW m \in Names PROVE m \in Inventory' <=> m \in Inventory
  BY DEF Boot, Power, MachineGone, machineVars, Inventory, TypeOK, OrbTypes
<1> QED BY <1>1, <1>2, LedgerSleeps

-----------------------------------------------------------------------------
(* Names are claimed while there is capacity: each name held has a record  *)
(* of its own.                                                             *)
LEMMA HeldBelow ==
    ASSUME TypeOK, RecordsWithinCapacity,
           Cardinality(Registered) < MaxInstances
    PROVE  Cardinality(Ledger!Held) < MaxInstances
<1> DEFINE L == Ledger!Held
           f == [n \in L |-> owner[n]]
<1>1. ASSUME NEW n \in L
      PROVE  owner[n] \in Registered /\ records[owner[n]].name = n
  <2>1. n \in Names /\ LedgerStatus(n) \in {"claimed", "live", "gone"}
    BY DEF Ledger!Held
  <2>2. owner[n] # NoRunner /\ records[owner[n]].name = n
    BY <2>1 DEF LedgerStatus
  <2>3. owner[n] \in Runners
    BY <2>1, <2>2 DEF TypeOK, RegistryTypes
  <2> QED BY <2>1, <2>2, <2>3 DEF Registered, NoRecord, Record
<1>2. f \in Injection(L, Registered)
  BY <1>1 DEF Injection, IsInjective
<1>3. IsFiniteSet(L) /\ Cardinality(L) <= Cardinality(Registered)
  BY <1>2, FS_Injection DEF RecordsWithinCapacity
<1>4. Cardinality(L) \in Nat /\ Cardinality(Registered) \in Nat
  BY <1>3, FS_CardinalityType DEF RecordsWithinCapacity
<1> QED BY <1>3, <1>4

(* A reservation claims its name.                                          *)
LEMMA LedgerClaims ==
    ASSUME TypeOK, IInv, RecordsWithinCapacity, NEW h \in Helpers, Reserve(h)
    PROVE  [Ledger!Next]_View
<1>1. PICK r : r = call[h].runner
  OBVIOUS
<1>2. UNCHANGED <<child, backend, machine>>
  BY DEF Reserve, orbVars, machineVars
<1>3. r \in Runners
  <2>1. pc[h] \in LockedSteps
    BY DEF Reserve, LockedSteps, CreateSteps
  <2> QED BY <1>1, <2>1, Own
<1>4. CASE UNCHANGED <<records, owner>>
  BY <1>2, <1>4, LedgerSleeps DEF Inventory
<1>5. CASE ~UNCHANGED <<records, owner>>
  <2>1. PICK n \in Unused :
          /\ records' = [records EXCEPT ![r] = Record(n, NoName, "reserved")]
          /\ owner' = [owner EXCEPT ![n] = r]
          /\ records[r] = NoRecord
          /\ ~(Cardinality(Registered) >= MaxInstances)
    BY <1>1, <1>5 DEF Reserve
  <2>2. n \in Names /\ owner[n] = NoRunner /\ child[n] = "none"
    BY <2>1 DEF Unused, IInv, MachineInv, TypeOK, OrbTypes
  <2>3. /\ owner'[n] = r /\ records'[r].name = n
        /\ \A m \in Names \ {n} : owner'[m] = owner[m]
        /\ \A q \in Runners \ {r} : records'[q] = records[q]
    BY <1>3, <2>1, <2>2 DEF Record, TypeOK, RegistryTypes
  <2>4. LedgerStatus(n) = "free" /\ LedgerStatus(n)' = "claimed"
    BY <1>2, <1>3, <2>2, <2>3 DEF LedgerStatus
  <2>5. ASSUME NEW m \in Names \ {n} PROVE LedgerStatus(m)' = LedgerStatus(m)
    <3>1. CASE owner[m] = r
      BY <1>3, <2>1, <2>2, <2>3, <2>5, <3>1 DEF LedgerStatus, NoRecord,
         Record
    <3>2. CASE owner[m] # r
      <4>1. owner[m] # NoRunner => owner[m] \in Runners \ {r}
        BY <3>2 DEF TypeOK, RegistryTypes
      <4> QED BY <1>2, <2>3, <4>1, SameStatus DEF Inventory
    <3> QED BY <3>1, <3>2
  <2>6. View' = [View EXCEPT ![n] = "claimed"] /\ View[n] = "free"
    BY <2>2, <2>4, <2>5 DEF View
  <2>7. Cardinality(Registered) < MaxInstances
    BY <2>1, FS_CardinalityType DEF RecordsWithinCapacity
  <2>8. Cardinality(Ledger!Held) < MaxInstances
    BY <2>7, HeldBelow
  <2>9. Ledger!Cardinality(Ledger!Held) = Cardinality(Ledger!Held)
    BY DEF Cardinality, Ledger!Cardinality
  <2>10. Ledger!Claim(n)
    BY <2>6, <2>8, <2>9 DEF Ledger!Claim, View
  <2> QED BY <2>2, <2>10 DEF Ledger!Next
<1> QED BY <1>4, <1>5

(* A record is removed when its name has no machine and will have none.    *)
LEMMA LedgerReleases ==
    ASSUME TypeOK, IInv, NEW h \in Helpers, Undo(h) \/ Remove(h)
    PROVE  [Ledger!Next]_View
<1>1. PICK r, n : r = call[h].runner /\ n = call[h].name
  OBVIOUS
<1>2. pc[h] \in LockedSteps /\ pc[h] \in BoundSteps
  BY DEF Undo, Remove, BoundSteps, LockedSteps, CleanupSteps, CreateSteps,
     CloneSteps, TargetSteps
<1>3. /\ r \in Runners /\ n \in Names /\ records[r].name = n
      /\ owner[n] = r /\ MachineInv(n) /\ HelperInv(h)
  BY <1>1, <1>2, Own
<1>4. /\ UNCHANGED <<owner, child, backend, machine>>
      /\ records' \in {records, [records EXCEPT ![r] = NoRecord]}
  BY <1>1 DEF Undo, Remove, Removed, RemoveFailed, orbVars, machineVars
<1>5. ~Live(n)
  BY <1>1, <1>3 DEF Undo, Remove, HelperInv, PreCloneSteps, MachineInv, Live,
     Inventory
<1>6. LedgerStatus(n) \in {"claimed", "gone"}
  BY <1>3, <1>5 DEF LedgerStatus
<1>7. LedgerStatus(n)' \in {"released", LedgerStatus(n)}
  <2>1. CASE UNCHANGED records
    BY <1>4, <2>1 DEF LedgerStatus, Live, Inventory
  <2>2. CASE records' = [records EXCEPT ![r] = NoRecord]
    <3>1. records'[r].name = NoName
      BY <1>3, <2>2 DEF NoRecord, Record, TypeOK, RegistryTypes
    <3> QED BY <1>3, <1>4, <3>1 DEF LedgerStatus
  <2> QED BY <1>4, <2>1, <2>2
<1>8. ASSUME NEW m \in Names \ {n} PROVE LedgerStatus(m)' = LedgerStatus(m)
  <2>1. CASE owner[m] = r
    <3>1. records[r].name # m /\ records'[r].name # m
      BY <1>3, <1>4, <1>8 DEF NoRecord, Record, TypeOK, RegistryTypes
    <3> QED BY <1>3, <1>4, <2>1, <3>1 DEF LedgerStatus
  <2>2. CASE owner[m] # r
    <3>1. owner[m] # NoRunner => records'[owner[m]] = records[owner[m]]
      BY <1>4, <2>2 DEF TypeOK, RegistryTypes
    <3> QED BY <1>4, <3>1, SameStatus DEF Inventory
  <2> QED BY <2>1, <2>2
<1> QED BY <1>3, <1>6, <1>7, <1>8, Moved

-----------------------------------------------------------------------------
(* The clones: one for a claimed name, until its machine is gone.          *)
LEMMA LedgerClones ==
    ASSUME TypeOK, IInv, NEW h \in Helpers, Spawn(h)
    PROVE  [Ledger!Next]_View
<1>1. PICK n : n = call[h].name
  OBVIOUS
<1>2. pc[h] \in LockedSteps /\ pc[h] \in BoundSteps /\ pc[h] \in PreCloneSteps
  BY DEF Spawn, BoundSteps, LockedSteps, CreateSteps, CloneSteps,
     PreCloneSteps
<1>3. /\ n \in Names /\ owner[n] # NoRunner /\ records[owner[n]].name = n
      /\ child[n] = "none"
  BY <1>1, <1>2, Own DEF HelperInv
<1>4. UNCHANGED <<records, owner, machine>>
  BY DEF Spawn, registryVars, machineVars
<1>5. CASE UNCHANGED <<child, backend>>
  BY <1>4, <1>5, LedgerSleeps DEF Inventory
<1>6. CASE ~UNCHANGED <<child, backend>>
  <2>1. /\ child' = [child EXCEPT ![n] = "alive"]
        /\ backend' = backend \cup {n}
    BY <1>1, <1>6 DEF Spawn
  <2>2. LedgerStatus(n) = "claimed" /\ LedgerStatus(n)' = "live"
    BY <1>3, <1>4, <2>1 DEF LedgerStatus, Live, TypeOK, OrbTypes
  <2>3. ASSUME NEW m \in Names \ {n} PROVE LedgerStatus(m)' = LedgerStatus(m)
    BY <1>4, <2>1, SameStatus DEF TypeOK, OrbTypes, Inventory
  <2> QED BY <1>3, <2>2, <2>3, Moved
<1> QED BY <1>5, <1>6

(* One name's clone child, copy or machine changes, of a name cloned to.   *)
LEMMA LedgerVanishes ==
    ASSUME TypeOK, TypeOK', IInv, NEW n \in Names, Live(n),
           child[n] # "none", child'[n] # "none", UNCHANGED <<records, owner>>,
           \A m \in Names \ {n} : /\ child'[m] = child[m]
                                  /\ m \in backend' <=> m \in backend
                                  /\ machine'[m] = machine[m]
    PROVE  [Ledger!Next]_View
<1>1. owner[n] # NoRunner /\ records[owner[n]].name = n
  BY DEF IInv, MachineInv
<1>2. LedgerStatus(n) = "live" /\ LedgerStatus(n)' \in {"live", "gone"}
  BY <1>1 DEF LedgerStatus
<1>3. ASSUME NEW m \in Names \ {n} PROVE LedgerStatus(m)' = LedgerStatus(m)
  BY SameStatus DEF Inventory
<1> QED BY <1>2, <1>3, Moved

LEMMA LedgerDestroys ==
    ASSUME TypeOK, TypeOK', IInv, NEW h \in Helpers, Destroy(h)
    PROVE  [Ledger!Next]_View
<1>1. PICK n : n = call[h].name
  OBVIOUS
<1>2. pc[h] \in LockedSteps /\ pc[h] \in BoundSteps /\ pc[h] \in MachineSteps
  BY DEF Destroy, BoundSteps, LockedSteps, CleanupSteps, MachineSteps
<1>3. /\ n \in Names /\ owner[n] # NoRunner /\ records[owner[n]].name = n
      /\ call[h].id = n /\ MachineInv(n)
  BY <1>1, <1>2, Own DEF HelperInv
<1>4. UNCHANGED <<records, owner, child, backend>>
  BY DEF Destroy, registryVars
<1>5. \A m \in Names \ {n} : machine'[m] = machine[m]
  BY <1>3 DEF Destroy, TypeOK, OrbTypes
<1>6. CASE Live(n)
  <2>1. child[n] # "none"
    BY <1>3, <1>6 DEF MachineInv, Live, Inventory
  <2> QED BY <1>3, <1>4, <1>5, <1>6, <2>1, LedgerVanishes
<1>7. CASE ~Live(n)
  <2>1. machine'[n] \in {machine[n], "deleted"}
    BY <1>3 DEF Destroy, TypeOK, OrbTypes
  <2>2. \A m \in Names : m \in Inventory' <=> m \in Inventory
    BY <1>5, <1>7, <2>1 DEF Inventory, Live
  <2> QED BY <1>4, <2>2, LedgerSleeps
<1> QED BY <1>6, <1>7

LEMMA LedgerOrb ==
    ASSUME TypeOK, TypeOK', IInv, NEW n \in Names,
           \/ ChildSucceeds(n) \/ ChildFails(n) \/ BackendCopies(n)
           \/ BackendDrops(n) \/ GuestStops(n) \/ UserDeletes(n)
    PROVE  [Ledger!Next]_View
<1> USE DEF ChildSucceeds, ChildFails, BackendCopies, BackendDrops,
            GuestStops, UserDeletes
<1>1. Live(n)
  BY DEF Live, Inventory
<1>2. child[n] # "none"
  <2>1. MachineInv(n)
    BY DEF IInv
  <2> QED BY <1>1, <2>1 DEF MachineInv, Live, Inventory
<1>3. UNCHANGED <<records, owner>>
  BY DEF registryVars
<1>4. child'[n] # "none"
  BY <1>2 DEF TypeOK, OrbTypes, machineVars
<1>5. ASSUME NEW m \in Names \ {n}
      PROVE  /\ child'[m] = child[m] /\ machine'[m] = machine[m]
             /\ m \in backend' <=> m \in backend
  BY DEF TypeOK, OrbTypes, machineVars
<1> QED BY <1>1, <1>2, <1>3, <1>4, <1>5, LedgerVanishes

-----------------------------------------------------------------------------
LEMMA LedgerStep ==
    ASSUME TypeOK, TypeOK', IInv, RecordsWithinCapacity, [Next]_vars
    PROVE  [Ledger!Next]_View
<1>1. ASSUME NEW h \in Helpers, Call(h) \/ HelperStep(h)
      PROVE  [Ledger!Next]_View
  BY <1>1, LedgerLooks, LedgerSaves, LedgerPowers, LedgerClaims,
     LedgerReleases, LedgerClones, LedgerDestroys
     DEF HelperStep, CreateStep, DeleteStep, OtherStep
<1>2. ASSUME NEW h \in Helpers, ReadFails(h) \/ KillHelper(h)
      PROVE  [Ledger!Next]_View
  BY <1>2, LedgerLooks
<1>3. ASSUME NEW n \in Names,
             \/ ChildSucceeds(n) \/ ChildFails(n) \/ BackendCopies(n)
             \/ BackendDrops(n) \/ GuestStops(n) \/ UserDeletes(n)
      PROVE  [Ledger!Next]_View
  BY <1>3, LedgerOrb
<1>4. CASE UNCHANGED vars
  BY <1>4, LedgerSleeps DEF vars, Inventory
<1> QED BY <1>1, <1>2, <1>3, <1>4 DEF Next, OrbStep, Environment

LEMMA LedgerInit == Init => View = [n \in Names |-> "free"]
BY DEF Init, View, LedgerStatus

(* The provider keeps the promises of MachineLedger through every failure: *)
(* a name is claimed below max_instances, cloned to once, and given up     *)
(* only when it has no machine and will have none.                         *)
THEOREM Refinement == Spec => LedgerSpec
<1>1. Init => Ledger!Init
  BY LedgerInit DEF Ledger!Init, View
<1>2. TypeOK /\ IInv /\ RecordsWithinCapacity /\ [Next]_vars
        /\ (TypeOK /\ IInv)'
        => [Ledger!Next]_View
  BY LedgerStep
<1>3. View = [n \in Names |-> LedgerStatus(n)]
  BY DEF View
<1> QED
  BY <1>1, <1>2, Invariance, RecordsBounded, PTL
     DEF Spec, LedgerSpec, Ledger!Spec, View

-----------------------------------------------------------------------------
(* The contract with the template store.                                   *)
Copies(n) == child[n] = "alive" \/ n \in backend

(* A runner's copies are all of the name on its record.                    *)
LEMMA CopyingByName ==
    ASSUME TypeOK, IInv, NEW r \in Runners
    PROVE  r \in Copying <=> /\ records[r].name \in Names
                             /\ owner[records[r].name] = r
                             /\ Copies(records[r].name)
<1>1. ASSUME NEW n \in Names, owner[n] = r, Copies(n)
      PROVE  records[r].name = n
  BY <1>1 DEF IInv, MachineInv, Live, Copies
<1> QED BY <1>1 DEF Copying, Copies

LEMMA NotCopying ==
    ASSUME TypeOK, IInv, NEW h \in Helpers, pc[h] \in BoundSteps,
           pc[h] \in LockedSteps, ~Copies(call[h].name)
    PROVE  call[h].runner \in Registered \ Copying
<1>1. /\ call[h].runner \in Runners
      /\ records[call[h].runner].name = call[h].name
      /\ call[h].name \in Names
  BY Own
<1>2. records[call[h].runner] # NoRecord
  BY <1>1 DEF NoRecord, Record
<1> QED BY <1>1, <1>2, CopyingByName DEF Registered

(* The template lock is only ever taken by LockTemplate.                   *)
LEMMA LockEnds ==
    ASSUME TypeOK, NEW h \in Helpers, NEW s, pc' = [pc EXCEPT ![h] = s],
           s \in CloneSteps => pc[h] \in CloneSteps
    PROVE  /\ TemplateLockFree => TemplateLockFree'
           /\ pc[h] \notin CloneSteps => (TemplateLockFree' <=> TemplateLockFree)
<1>1. \A g \in Helpers \ {h} : pc'[g] = pc[g]
  BY DEF TypeOK, HelperTypes
<1>2. pc'[h] = s
  BY DEF TypeOK, HelperTypes
<1> QED BY <1>1, <1>2 DEF TemplateLockFree

(* A step that leaves runners and copies alone can only give up the lock.  *)
LEMMA WindowGives ==
    ASSUME UNCHANGED <<Registered, intents, Copying>>,
           TemplateLockFree => TemplateLockFree'
    PROVE  [Window!Next]_(Window!vars)
<1>1. CASE TemplateLockFree' <=> TemplateLockFree
  BY <1>1 DEF Window!vars
<1>2. CASE ~TemplateLockFree /\ TemplateLockFree'
  BY <1>2 DEF Window!Next, Window!Give
<1> QED BY <1>1, <1>2

LEMMA WindowMoves ==
    ASSUME TypeOK, NEW h \in Helpers, NEW s, pc' = [pc EXCEPT ![h] = s],
           s \in CloneSteps => pc[h] \in CloneSteps,
           UNCHANGED <<records, intents, owner, child, backend>>
    PROVE  [Window!Next]_(Window!vars)
<1>1. UNCHANGED <<Registered, intents, Copying>>
  BY DEF Registered, Copying
<1> QED BY <1>1, LockEnds, WindowGives

LEMMA WindowLooks ==
    ASSUME TypeOK, NEW h \in Helpers,
           \/ Call(h) \/ LockInstance(h) \/ LockRefused(h) \/ Recheck(h)
           \/ TemplateTimeout(h) \/ Validate(h) \/ Wait(h) \/ Identify(h)
           \/ CheckStopped(h) \/ ApplySettings(h) \/ Boot(h)
           \/ InjectBootstrap(h) \/ Observe(h) \/ Owned(h) \/ Lift(h)
           \/ Destroy(h)
           \/ Confirm(h) \/ Uncertain(h) \/ ConfirmName(h) \/ Adopt(h)
           \/ Power(h) \/ ReadFails(h) \/ KillHelper(h)
    PROVE  [Window!Next]_(Window!vars)
<1>1. UNCHANGED <<records, intents, owner, child, backend>>
  BY DEF Call, CallCreate, CallOn, LockInstance, LockRefused, Recheck,
     TemplateTimeout, Validate, Wait, Identify, CheckStopped, ApplySettings,
     Boot, InjectBootstrap, Observe, Owned, Lift, Destroy, Confirm, Uncertain,
     ConfirmName, Adopt, Power, ReadFails, KillHelper, MachineGone,
     registryVars, orbVars, machineVars
<1>2. \E s : /\ pc' = [pc EXCEPT ![h] = s]
             /\ s \in CloneSteps => pc[h] \in CloneSteps
  BY DEF Call, CallCreate, CallOn, LockInstance, LockRefused, Recheck,
     TemplateTimeout, Validate, Wait, Identify, CheckStopped, ApplySettings,
     Boot, InjectBootstrap, Observe, Owned, Lift, Destroy, Confirm, Uncertain,
     ConfirmName, Adopt, Power, ReadFails, KillHelper, MachineGone, Goto,
     Return, AfterRecheck, CloneSteps
<1> QED BY <1>1, <1>2, WindowMoves

LEMMA WindowTakes ==
    ASSUME TypeOK, NEW h \in Helpers, LockTemplate(h)
    PROVE  [Window!Next]_(Window!vars)
<1>1. UNCHANGED <<Registered, intents, Copying>>
  BY DEF LockTemplate, registryVars, orbVars, Registered, Copying
<1>2. TemplateLockFree /\ ~TemplateLockFree'
  BY DEF LockTemplate, TemplateLockFree, Goto, CloneSteps, TypeOK, HelperTypes
<1> QED BY <1>1, <1>2 DEF Window!Next, Window!Take

(* A saved record stays a record.                                          *)
LEMMA WindowSaves ==
    ASSUME TypeOK, NEW h \in Helpers,
           \/ SaveCreated(h) \/ SaveBootstrapping(h) \/ SaveActive(h)
           \/ SaveDeleting(h) \/ SaveAdopted(h)
    PROVE  [Window!Next]_(Window!vars)
<1> USE DEF SaveCreated, SaveBootstrapping, SaveActive, SaveDeleting,
            SaveAdopted
<1>1. PICK p \in Phases :
        \/ UNCHANGED records
        \/ /\ records[call[h].runner] # NoRecord
           /\ records' = [records EXCEPT ![call[h].runner] = Local(h, p)]
  BY DEF Saved, SaveFailed, CanSave, Phases
<1>2. Local(h, p) # NoRecord
  BY DEF Local, Record, NoRecord, Phases
<1>3. UNCHANGED <<Registered, intents, Copying>>
  BY <1>1, <1>2 DEF Registered, Copying, orbVars, TypeOK, RegistryTypes
<1>4. \E s : /\ pc' = [pc EXCEPT ![h] = s]
             /\ s \in CloneSteps => pc[h] \in CloneSteps
  BY DEF Goto, Return, CloneSteps
<1> QED BY <1>3, <1>4, LockEnds, WindowGives

LEMMA WindowReserves ==
    ASSUME TypeOK, IInv, NEW h \in Helpers, Reserve(h)
    PROVE  [Window!Next]_(Window!vars)
<1>1. PICK r : r = call[h].runner
  OBVIOUS
<1>2. r \in Runners
  <2>1. pc[h] \in LockedSteps
    BY DEF Reserve, LockedSteps, CreateSteps
  <2> QED BY <1>1, <2>1, Own
<1>3. UNCHANGED <<intents, child, backend>>
  BY DEF Reserve, orbVars
<1>4. TemplateLockFree' <=> TemplateLockFree
  <2>1. \E s : pc' = [pc EXCEPT ![h] = s] /\ s \notin CloneSteps
    BY DEF Reserve, Return, CloneSteps
  <2>2. pc[h] \notin CloneSteps
    BY DEF Reserve, CloneSteps
  <2> QED BY <2>1, <2>2, LockEnds
<1>5. CASE UNCHANGED <<records, owner>>
  BY <1>3, <1>4, <1>5, WindowGives DEF Registered, Copying
<1>6. CASE ~UNCHANGED <<records, owner>>
  <2>1. PICK n \in Unused :
          /\ records' = [records EXCEPT ![r] = Record(n, NoName, "reserved")]
          /\ owner' = [owner EXCEPT ![n] = r]
          /\ records[r] = NoRecord
    BY <1>1, <1>6 DEF Reserve
  <2>2. ~Copies(n) /\ n \in Names /\ owner[n] = NoRunner
    BY <2>1 DEF Unused, IInv, MachineInv, Copies, TypeOK, OrbTypes
  <2>3. Copying' = Copying
    BY <1>3, <2>1, <2>2 DEF Copying, Copies, TypeOK, RegistryTypes
  <2>4. Registered' = Registered \cup {r} /\ r \notin Registered
    BY <1>2, <2>1 DEF Registered, Record, NoRecord, TypeOK, RegistryTypes
  <2>5. Window!Reserve(r)
    BY <1>3, <1>4, <2>3, <2>4 DEF Window!Reserve
  <2> QED BY <1>2, <2>5 DEF Window!Next
<1> QED BY <1>5, <1>6

(* A record goes when nothing is copied for it, and its intent is gone.    *)
LEMMA WindowForgets ==
    ASSUME TypeOK, IInv, NEW h \in Helpers, Undo(h) \/ Remove(h)
    PROVE  [Window!Next]_(Window!vars)
<1>1. PICK r : r = call[h].runner
  OBVIOUS
<1>2. pc[h] \in LockedSteps /\ pc[h] \in BoundSteps
  BY DEF Undo, Remove, BoundSteps, LockedSteps, CleanupSteps, CreateSteps,
     CloneSteps, TargetSteps
<1>3. HelperInv(h) /\ MachineInv(call[h].name) /\ r \in Runners
  BY <1>1, <1>2, Own
<1>4. ~Copies(call[h].name) /\ r \notin intents
  BY <1>1, <1>3 DEF Undo, Remove, HelperInv, PreCloneSteps, MachineInv, Live,
     Copies
<1>5. r \in Registered \ Copying
  BY <1>1, <1>2, <1>4, NotCopying
<1>6. UNCHANGED <<intents, Copying>>
  BY DEF Undo, Remove, orbVars, Copying
<1>7. TemplateLockFree => TemplateLockFree'
  <2>1. pc' = [pc EXCEPT ![h] = "idle"] /\ "idle" \notin CloneSteps
    BY DEF Undo, Remove, Return, CloneSteps
  <2> QED BY <2>1, LockEnds
<1>8. CASE UNCHANGED records
  BY <1>6, <1>7, <1>8, WindowGives DEF Registered
<1>9. CASE records' = [records EXCEPT ![r] = NoRecord]
  <2>1. Registered' = Registered \ {r} /\ intents' = intents \ {r}
    BY <1>3, <1>4, <1>6, <1>9 DEF Registered, TypeOK, RegistryTypes
  <2>2. Window!Forget(r)
    BY <1>5, <1>6, <1>7, <2>1 DEF Window!Forget, Window!Last
  <2> QED BY <1>3, <2>2 DEF Window!Next
<1> QED BY <1>1, <1>8, <1>9 DEF Undo, Remove, Removed, RemoveFailed

LEMMA WindowMarks ==
    ASSUME TypeOK, IInv, NEW h \in Helpers, MarkIntent(h)
    PROVE  [Window!Next]_(Window!vars)
<1>1. PICK r : r = call[h].runner
  OBVIOUS
<1>2. pc[h] \in LockedSteps /\ pc[h] \in BoundSteps /\ pc[h] \in PreCloneSteps
  BY DEF MarkIntent, BoundSteps, LockedSteps, CreateSteps, CloneSteps,
     PreCloneSteps
<1>3. HelperInv(h) /\ MachineInv(call[h].name) /\ r \in Runners
  BY <1>1, <1>2, Own
<1>4. ~Copies(call[h].name)
  BY <1>2, <1>3 DEF HelperInv, MachineInv, Copies
<1>5. r \in Registered \ Copying
  BY <1>1, <1>2, <1>4, NotCopying
<1>6. UNCHANGED <<Registered, Copying>>
  BY DEF MarkIntent, orbVars, Copying, Registered
<1>7. ~TemplateLockFree /\ (TemplateLockFree => TemplateLockFree')
  BY DEF MarkIntent, TemplateLockFree, CloneSteps
<1>8. CASE intents' = intents \cup {r}
  <2>1. Window!Mark(r)
    BY <1>5, <1>6, <1>7, <1>8 DEF Window!Mark, Window!Last
  <2> QED BY <1>3, <2>1 DEF Window!Next
<1>9. CASE UNCHANGED intents
  BY <1>6, <1>7, <1>9, WindowGives
<1> QED BY <1>1, <1>8, <1>9 DEF MarkIntent

(* An intent goes when nothing is copied for it.                           *)
LEMMA WindowUnmarks ==
    ASSUME TypeOK, IInv, NEW h \in Helpers,
           Unmark(h) \/ ClearAfterClone(h) \/ Clear(h) \/ ClearAdopted(h)
    PROVE  [Window!Next]_(Window!vars)
<1> USE DEF Unmark, ClearAfterClone, Clear, ClearAdopted
<1>1. PICK r : r = call[h].runner
  OBVIOUS
<1>2. /\ pc[h] \in LockedSteps /\ pc[h] \in BoundSteps /\ pc[h] # "wait"
      /\ pc[h] \in PreCloneSteps \cup MachineSteps \cup {"clear"}
  BY DEF BoundSteps, LockedSteps, CleanupSteps, CreateSteps, CloneSteps,
     TargetSteps, PreCloneSteps, MachineSteps
<1>3. /\ HelperInv(h) /\ MachineInv(call[h].name) /\ r \in Runners
      /\ RecordInv(r) /\ records[r] # NoRecord
      /\ records[r].name = call[h].name /\ child[call[h].name] # "alive"
  BY <1>1, <1>2, Own
<1>4. ~Copies(call[h].name)
  <2>1. CASE pc[h] \in PreCloneSteps
    BY <1>3, <2>1 DEF HelperInv, MachineInv, Copies
  <2>2. CASE pc[h] \in MachineSteps
    <3>1. records[r].phase # "reserved"
      BY <1>1, <1>3, <2>2 DEF HelperInv, RecordInv, MachineInv,
         LifecycleAssumption
    <3> QED BY <1>3, <3>1 DEF RecordInv, MachineInv, Copies
  <2>3. CASE pc[h] = "clear"
    BY <1>3, <2>3 DEF HelperInv, Live, Copies
  <2> QED BY <1>2, <2>1, <2>2, <2>3
<1>5. r \notin Copying
  BY <1>1, <1>2, <1>4, NotCopying
<1>6. UNCHANGED <<Registered, Copying>>
  BY DEF orbVars, Copying, Registered
<1>7. TemplateLockFree => TemplateLockFree'
  <2>1. \E s : /\ pc' = [pc EXCEPT ![h] = s]
               /\ s \in CloneSteps => pc[h] \in CloneSteps
    BY DEF Goto, Return, CloneSteps
  <2> QED BY <2>1, LockEnds
<1>8. CASE r \in intents /\ intents' = intents \ {r}
  <2>1. Window!Unmark(r)
    BY <1>5, <1>6, <1>7, <1>8 DEF Window!Unmark, Window!Last
  <2> QED BY <1>3, <2>1 DEF Window!Next
<1>9. CASE UNCHANGED intents
  BY <1>6, <1>7, <1>9, WindowGives
<1> QED BY <1>1, <1>8, <1>9 DEF IntentCleared, IntentClearFailed

LEMMA WindowSpawns ==
    ASSUME TypeOK, IInv, NEW h \in Helpers, Spawn(h)
    PROVE  [Window!Next]_(Window!vars)
<1>1. PICK r, n : r = call[h].runner /\ n = call[h].name
  OBVIOUS
<1>2. pc[h] \in LockedSteps /\ pc[h] \in BoundSteps /\ pc[h] \in PreCloneSteps
  BY DEF Spawn, BoundSteps, LockedSteps, CreateSteps, CloneSteps,
     PreCloneSteps
<1>3. /\ HelperInv(h) /\ MachineInv(n) /\ r \in Runners /\ n \in Names
      /\ owner[n] = r
  BY <1>1, <1>2, Own
<1>4. ~Copies(n) /\ r \in intents
  BY <1>1, <1>2, <1>3 DEF Spawn, HelperInv, MachineInv, Copies
<1>5. r \in Registered \ Copying
  BY <1>1, <1>2, <1>4, NotCopying
<1>6. UNCHANGED <<records, intents, owner, Registered>>
  BY DEF Spawn, registryVars, Registered
<1>7. ~TemplateLockFree /\ ~TemplateLockFree'
  BY DEF Spawn, TemplateLockFree, Goto, CloneSteps, TypeOK, HelperTypes
<1>8. CASE UNCHANGED <<child, backend>>
  BY <1>6, <1>7, <1>8, WindowGives DEF Copying
<1>9. CASE ~UNCHANGED <<child, backend>>
  <2>1. child' = [child EXCEPT ![n] = "alive"] /\ backend' = backend \cup {n}
    BY <1>1, <1>9 DEF Spawn
  <2>2. Copying' = Copying \cup {r}
    BY <1>3, <1>6, <2>1 DEF Copying, TypeOK, OrbTypes
  <2>3. Window!Copy(r)
    BY <1>4, <1>5, <1>6, <1>7, <2>2 DEF Window!Copy
  <2> QED BY <1>3, <2>3 DEF Window!Next
<1> QED BY <1>8, <1>9

(* The end of one name's copy, seen by orbctl or not.                      *)
LEMMA WindowOrb ==
    ASSUME TypeOK, TypeOK', IInv, NEW n \in Names,
           \/ ChildSucceeds(n) \/ ChildFails(n) \/ BackendCopies(n)
           \/ BackendDrops(n) \/ GuestStops(n) \/ UserDeletes(n)
    PROVE  [Window!Next]_(Window!vars)
<1> USE DEF ChildSucceeds, ChildFails, BackendCopies, BackendDrops,
            GuestStops, UserDeletes
<1>1. /\ UNCHANGED <<records, intents, owner, pc, Registered>>
      /\ TemplateLockFree' <=> TemplateLockFree
  BY DEF registryVars, Registered, TemplateLockFree
<1>2. CASE UNCHANGED <<child, backend>>
  BY <1>1, <1>2, WindowGives DEF Copying
<1>3. CASE ~UNCHANGED <<child, backend>>
  <2>1. PICK r : r = owner[n]
    OBVIOUS
  <2>2. /\ Copies(n)
        /\ \A m \in Names \ {n} : Copies(m)' <=> Copies(m)
    BY <1>3 DEF Copies, TypeOK, OrbTypes, machineVars
  <2>3. r \in Runners /\ records[r].name = n
    <3>1. MachineInv(n) /\ Copies(n)
      BY <2>2 DEF IInv
    <3>2. child[n] # "none" /\ owner[n] # NoRunner /\ records[owner[n]].name = n
      BY <3>1 DEF MachineInv, Live, Copies
    <3> QED BY <2>1, <3>2 DEF TypeOK, RegistryTypes
  <2>4. r \in Copying
    BY <2>1, <2>2, <2>3 DEF Copying, Copies
  <2>5. \A m \in Names \ {n} : owner[m] = r => ~Copies(m)
    BY <2>1, <2>3 DEF IInv, MachineInv, Live, Copies
  <2>6. CASE Copies(n)'
    <3>1. Copying' = Copying
      BY <1>1, <2>2, <2>6 DEF Copying, Copies
    <3> QED BY <1>1, <3>1, WindowGives
  <2>7. CASE ~Copies(n)'
    <3>1. Copying' = Copying \ {r}
      BY <1>1, <2>1, <2>2, <2>5, <2>7 DEF Copying, Copies
    <3>2. Window!CopyEnds(r)
      BY <1>1, <2>4, <3>1 DEF Window!CopyEnds
    <3> QED BY <2>3, <3>2 DEF Window!Next
  <2> QED BY <2>6, <2>7
<1> QED BY <1>2, <1>3

LEMMA WindowStep ==
    ASSUME TypeOK, TypeOK', IInv, [Next]_vars
    PROVE  [Window!Next]_(Window!vars)
<1>1. ASSUME NEW h \in Helpers, Call(h) \/ HelperStep(h)
      PROVE  [Window!Next]_(Window!vars)
  BY <1>1, WindowLooks, WindowTakes, WindowSaves, WindowReserves,
     WindowForgets, WindowMarks, WindowUnmarks, WindowSpawns
     DEF HelperStep, CreateStep, DeleteStep, OtherStep
<1>2. ASSUME NEW h \in Helpers, ReadFails(h) \/ KillHelper(h)
      PROVE  [Window!Next]_(Window!vars)
  BY <1>2, WindowLooks
<1>3. ASSUME NEW n \in Names,
             \/ ChildSucceeds(n) \/ ChildFails(n) \/ BackendCopies(n)
             \/ BackendDrops(n) \/ GuestStops(n) \/ UserDeletes(n)
      PROVE  [Window!Next]_(Window!vars)
  BY <1>3, WindowOrb
<1>4. CASE UNCHANGED vars
  BY <1>4 DEF vars, Window!vars, Registered, Copying, TemplateLockFree
<1> QED BY <1>1, <1>2, <1>3, <1>4 DEF Next, OrbStep, Environment

(* What the removal of a template relies on is what the lifecycle does: a  *)
(* copy begins under the template lock with its runner on record and its   *)
(* intent marked, and both outlast it (provider.go, clone).                *)
THEOREM WindowKept == Spec => WindowSpec
<1>1. Init => Window!Init
  <2> SUFFICES ASSUME Init PROVE Window!Init
    OBVIOUS
  <2>1. Registered = {} /\ Copying = {} /\ TemplateLockFree
    BY DEF Init, Registered, Copying, TemplateLockFree, CloneSteps
  <2> QED BY <2>1 DEF Init, Window!Init
<1>2. TypeOK /\ IInv /\ [Next]_vars /\ (TypeOK /\ IInv)'
        => [Window!Next]_(Window!vars)
  BY WindowStep
<1> QED BY <1>1, <1>2, Invariance, PTL DEF Spec, WindowSpec, Window!Spec

-----------------------------------------------------------------------------
(* The contract of the registry.                                           *)
PhaseView == [r \in Runners |-> Phase(r)]

(* A runner's machines are all of the name on its record.                  *)
LEMMA MadeByName ==
    ASSUME TypeOK, IInv, NEW r \in Runners
    PROVE  r \in Made <=> /\ records[r].name \in Names
                          /\ owner[records[r].name] = r
                          /\ Live(records[r].name)
<1>1. ASSUME NEW n \in Names, owner[n] = r, Live(n)
      PROVE  records[r].name = n
  BY <1>1 DEF IInv, MachineInv
<1> QED BY <1>1 DEF Made

(* What is read is kept at once.                                           *)
LEMMA SettlesAtOnce ==
    ASSUME TypeOK'
    PROVE  Registry!Settles
<1>1. ASSUME NEW r \in Runners PROVE Phase(r)' \in Registry!Phases
  <2>1. records'[r].phase \in Phases \cup {"none"}
    BY DEF TypeOK, RegistryTypes, Records
  <2> QED BY <2>1 DEF Phase, Phases, Registry!Phases
<1> QED BY <1>1 DEF Registry!Settles

(* A step that leaves phases, intents and machines alone.                  *)
LEMMA RegistryRests ==
    ASSUME \A r \in Runners : Phase(r)' = Phase(r), UNCHANGED <<intents, Made>>
    PROVE  [Registry!Next]_(Registry!vars)
BY DEF Registry!vars

(* A step that moves one record.                                           *)
LEMMA RegistryMoved ==
    ASSUME TypeOK', NEW r \in Runners, NEW from, Phase(r) \in from,
           \A q \in Runners \ {r} : Phase(q)' = Phase(q),
           UNCHANGED <<intents, Made>>
    PROVE  Registry!Moves(r, from, Phase(r)')
<1>1. PhaseView' = [PhaseView EXCEPT ![r] = Phase(r)']
  BY DEF PhaseView
<1>2. PhaseView[r] \in from
  BY DEF PhaseView
<1> QED BY <1>1, <1>2, SettlesAtOnce DEF Registry!Moves, PhaseView

LEMMA SamePhase ==
    ASSUME NEW r, records'[r] = records[r]
    PROVE  Phase(r)' = Phase(r)
BY DEF Phase

LEMMA RegistryLooks ==
    ASSUME NEW h \in Helpers,
           \/ Call(h) \/ LockInstance(h) \/ LockRefused(h) \/ Recheck(h)
           \/ LockTemplate(h) \/ TemplateTimeout(h) \/ Validate(h) \/ Wait(h)
           \/ Identify(h) \/ CheckStopped(h) \/ ApplySettings(h)
           \/ InjectBootstrap(h) \/ Observe(h) \/ Owned(h) \/ Lift(h)
           \/ Confirm(h)
           \/ Uncertain(h) \/ ConfirmName(h) \/ Adopt(h) \/ ReadFails(h)
           \/ KillHelper(h)
    PROVE  [Registry!Next]_(Registry!vars)
<1>1. UNCHANGED <<records, intents, owner, child, backend, machine>>
  BY DEF Call, CallCreate, CallOn, LockInstance, LockRefused, Recheck,
     LockTemplate, TemplateTimeout, Validate, Wait, Identify, CheckStopped,
     ApplySettings, InjectBootstrap, Observe, Owned, Lift, Confirm, Uncertain,
     ConfirmName, Adopt, ReadFails, KillHelper, MachineGone, registryVars,
     orbVars, machineVars
<1>2. UNCHANGED Made /\ \A r \in Runners : Phase(r)' = Phase(r)
  BY <1>1, SamePhase DEF Made, Live, Inventory
<1> QED BY <1>1, <1>2, RegistryRests

(* Starting and stopping makes no machine and unmakes none.                *)
LEMMA RegistryPowers ==
    ASSUME TypeOK, IInv, NEW h \in Helpers, Boot(h) \/ Power(h)
    PROVE  [Registry!Next]_(Registry!vars)
<1>1. UNCHANGED <<records, intents, owner, child, backend>>
  BY DEF Boot, Power, MachineGone, registryVars, machineVars
<1>2. UNCHANGED Inventory
  <2>1. \/ UNCHANGED machine
        \/ /\ call[h].id \in Inventory
           /\ \E s \in {"stopped", "running"} :
                 machine' = [machine EXCEPT ![call[h].id] = s]
    BY DEF Boot, Power, MachineGone, machineVars
  <2> QED BY <2>1 DEF Inventory, TypeOK, OrbTypes
<1>3. UNCHANGED Made /\ \A r \in Runners : Phase(r)' = Phase(r)
  BY <1>1, <1>2, SamePhase DEF Made, Live
<1> QED BY <1>1, <1>3, RegistryRests

LEMMA RegistryReserves ==
    ASSUME TypeOK, TypeOK', IInv, NEW h \in Helpers, Reserve(h)
    PROVE  [Registry!Next]_(Registry!vars)
<1>1. PICK r : r = call[h].runner
  OBVIOUS
<1>2. r \in Runners
  <2>1. pc[h] \in LockedSteps
    BY DEF Reserve, LockedSteps, CreateSteps
  <2> QED BY <1>1, <2>1, Own
<1>3. UNCHANGED <<intents, child, backend, machine>>
  BY DEF Reserve, orbVars, machineVars
<1>4. CASE UNCHANGED <<records, owner>>
  <2>1. UNCHANGED Made /\ \A q \in Runners : Phase(q)' = Phase(q)
    BY <1>3, <1>4, SamePhase DEF Made, Live, Inventory
  <2> QED BY <1>3, <2>1, RegistryRests
<1>5. CASE ~UNCHANGED <<records, owner>>
  <2>1. PICK n \in Unused :
          /\ records' = [records EXCEPT ![r] = Record(n, NoName, "reserved")]
          /\ owner' = [owner EXCEPT ![n] = r]
          /\ records[r] = NoRecord
    BY <1>1, <1>5 DEF Reserve
  <2>2. ~Live(n) /\ n \in Names /\ owner[n] = NoRunner
    BY <2>1 DEF Unused, IInv, MachineInv, Live, Inventory, TypeOK, OrbTypes
  <2>3. Made' = Made
    BY <1>3, <2>1, <2>2 DEF Made, Live, Inventory, TypeOK, RegistryTypes
  <2>4. Phase(r) = "none" /\ Phase(r)' = "reserved"
    BY <1>2, <2>1 DEF Phase, Record, NoRecord, TypeOK, RegistryTypes
  <2>5. \A q \in Runners \ {r} : Phase(q)' = Phase(q)
    BY <2>1, SamePhase DEF TypeOK, RegistryTypes
  <2>6. Registry!Moves(r, {"none"}, Phase(r)')
    BY <1>2, <1>3, <2>3, <2>4, <2>5, RegistryMoved
  <2>7. Registry!Reserve(r)
    BY <2>4, <2>6 DEF Registry!Reserve
  <2> QED BY <1>2, <2>7 DEF Registry!Next
<1> QED BY <1>4, <1>5

(* A record goes in a phase it may go from, without machine or intent.     *)
LEMMA RegistryForgets ==
    ASSUME TypeOK, TypeOK', IInv, NEW h \in Helpers, Undo(h) \/ Remove(h)
    PROVE  [Registry!Next]_(Registry!vars)
<1>1. PICK r : r = call[h].runner
  OBVIOUS
<1>2. pc[h] \in LockedSteps /\ pc[h] \in BoundSteps
  BY DEF Undo, Remove, BoundSteps, LockedSteps, CleanupSteps, CreateSteps,
     CloneSteps, TargetSteps
<1>3. /\ HelperInv(h) /\ MachineInv(call[h].name) /\ r \in Runners
      /\ records[r].name = call[h].name
  BY <1>1, <1>2, Own
<1>4. /\ ~Live(call[h].name) /\ r \notin intents
      /\ records[r].phase \in {"reserved", "deleting"}
  <2>1. CASE Undo(h)
    BY <1>1, <1>3, <2>1 DEF Undo, HelperInv, PreCloneSteps, ReservedSteps,
       MachineInv, Live, Inventory
  <2>2. CASE Remove(h)
    BY <1>1, <1>3, <2>2 DEF Remove, HelperInv
  <2> QED BY <2>1, <2>2
<1>5. r \notin Made
  BY <1>3, <1>4, MadeByName
<1>6. UNCHANGED <<intents, owner, child, backend, machine, Made>>
  BY DEF Undo, Remove, orbVars, machineVars, Made, Live, Inventory
<1>7. CASE UNCHANGED records
  BY <1>6, <1>7, SamePhase, RegistryRests
<1>8. CASE records' = [records EXCEPT ![r] = NoRecord]
  <2>1. Phase(r) \in {"reserved", "deleting"} /\ Phase(r)' = "none"
    BY <1>3, <1>4, <1>8 DEF Phase, Record, NoRecord, TypeOK, RegistryTypes
  <2>2. \A q \in Runners \ {r} : Phase(q)' = Phase(q)
    BY <1>8, SamePhase DEF TypeOK, RegistryTypes
  <2>3. Registry!Moves(r, {"reserved", "deleting"}, Phase(r)')
    BY <1>3, <1>6, <2>1, <2>2, RegistryMoved
  <2>4. Registry!Forget(r)
    BY <1>4, <1>5, <2>1, <2>3 DEF Registry!Forget
  <2> QED BY <1>3, <2>4 DEF Registry!Next
<1> QED BY <1>1, <1>7, <1>8 DEF Undo, Remove, Removed, RemoveFailed

(* A saved phase is the next one, or to the contract no other.             *)
LEMMA RegistrySaves ==
    ASSUME TypeOK, TypeOK', IInv, NEW h \in Helpers,
           \/ SaveCreated(h) \/ SaveBootstrapping(h) \/ SaveActive(h)
           \/ SaveDeleting(h) \/ SaveAdopted(h)
    PROVE  [Registry!Next]_(Registry!vars)
<1> USE DEF SaveCreated, SaveBootstrapping, SaveActive, SaveDeleting,
            SaveAdopted
<1>1. PICK r : r = call[h].runner
  OBVIOUS
<1>2. r \in Runners
  <2>1. pc[h] \in LockedSteps
    BY DEF LockedSteps, CleanupSteps, CreateSteps, CloneSteps, TargetSteps
  <2> QED BY <1>1, <2>1, Own
<1>3. UNCHANGED <<intents, Made>>
  BY DEF orbVars, machineVars, Made, Live, Inventory
<1>4. PICK p \in Phases :
        \/ UNCHANGED records
        \/ /\ \/ records[r] = Local(h, p)
              \/ <<records[r].phase, p>> \in PhaseOrder
           /\ records' = [records EXCEPT ![r] = Local(h, p)]
  BY <1>1 DEF Saved, SaveFailed, CanSave, Phases, Local, Record
<1>5. CASE UNCHANGED records
  BY <1>3, <1>5, SamePhase, RegistryRests
<1>6. CASE ~UNCHANGED records
  <2>1. /\ <<records[r].phase, p>> \in PhaseOrder
        /\ records'[r].phase = p
        /\ \A q \in Runners \ {r} : records'[q] = records[q]
    BY <1>2, <1>4, <1>6 DEF Local, Record, TypeOK, RegistryTypes
  <2>2. \A q \in Runners \ {r} : Phase(q)' = Phase(q)
    BY <2>1, SamePhase
  <2>3. \/ Phase(r) = "reserved" /\ Phase(r)' = "created"
        \/ Phase(r) = "created" /\ Phase(r)' = "deleting"
        \/ Phase(r)' = Phase(r)
    BY <2>1 DEF PhaseOrder, Phase
  <2>4. CASE Phase(r) = "reserved" /\ Phase(r)' = "created"
    <3>1. Registry!Create(r)
      BY <1>2, <1>3, <2>2, <2>4, RegistryMoved DEF Registry!Create
    <3> QED BY <1>2, <3>1 DEF Registry!Next
  <2>5. CASE Phase(r) = "created" /\ Phase(r)' = "deleting"
    <3>1. Registry!Delete(r)
      BY <1>2, <1>3, <2>2, <2>5, RegistryMoved DEF Registry!Delete
    <3> QED BY <1>2, <3>1 DEF Registry!Next
  <2>6. CASE Phase(r)' = Phase(r)
    BY <1>3, <2>2, <2>6, RegistryRests
  <2> QED BY <2>3, <2>4, <2>5, <2>6
<1> QED BY <1>5, <1>6

(* An intent is marked while there is no machine, ...                      *)
LEMMA RegistryMarks ==
    ASSUME TypeOK, TypeOK', IInv, NEW h \in Helpers, MarkIntent(h)
    PROVE  [Registry!Next]_(Registry!vars)
<1>1. PICK r : r = call[h].runner
  OBVIOUS
<1>2. /\ pc[h] \in LockedSteps /\ pc[h] \in BoundSteps
      /\ pc[h] \in PreCloneSteps /\ pc[h] \in ReservedSteps
  BY DEF MarkIntent, BoundSteps, LockedSteps, CreateSteps, CloneSteps,
     PreCloneSteps, ReservedSteps
<1>3. /\ HelperInv(h) /\ MachineInv(call[h].name) /\ r \in Runners
      /\ records[r].name = call[h].name
  BY <1>1, <1>2, Own
<1>4. ~Live(call[h].name) /\ Phase(r) = "reserved"
  BY <1>1, <1>2, <1>3 DEF HelperInv, MachineInv, Live, Inventory, Phase
<1>5. r \notin Made
  BY <1>3, <1>4, MadeByName
<1>6. UNCHANGED Made /\ \A q \in Runners : Phase(q)' = Phase(q)
  BY SamePhase DEF MarkIntent, orbVars, machineVars, Made, Live, Inventory
<1>7. CASE intents' = intents \cup {r}
  <2>1. Registry!Mark(r)
    BY <1>3, <1>4, <1>5, <1>6, <1>7, SettlesAtOnce
       DEF Registry!Mark, Registry!Surely
  <2> QED BY <1>3, <2>1 DEF Registry!Next
<1>8. CASE UNCHANGED intents
  BY <1>6, <1>8, RegistryRests
<1> QED BY <1>1, <1>7, <1>8 DEF MarkIntent

(* ... and taken back while there is none, or when its ID is recorded.     *)
LEMMA RegistryUnmarks ==
    ASSUME TypeOK, TypeOK', IInv, NEW h \in Helpers,
           Unmark(h) \/ ClearAfterClone(h) \/ Clear(h) \/ ClearAdopted(h)
    PROVE  [Registry!Next]_(Registry!vars)
<1> USE DEF Unmark, ClearAfterClone, Clear, ClearAdopted
<1>1. PICK r : r = call[h].runner
  OBVIOUS
<1>2. /\ pc[h] \in LockedSteps /\ pc[h] \in BoundSteps
      /\ pc[h] \in PreCloneSteps \cup MachineSteps \cup {"clear"}
  BY DEF BoundSteps, LockedSteps, CleanupSteps, CreateSteps, CloneSteps,
     TargetSteps, PreCloneSteps, MachineSteps
<1>3. /\ HelperInv(h) /\ MachineInv(call[h].name) /\ r \in Runners
      /\ RecordInv(r) /\ records[r] # NoRecord
      /\ records[r].name = call[h].name /\ call[h].name \in Names
  BY <1>1, <1>2, Own
<1>4. r \in Made => Phase(r) \in {"created", "deleting"}
  <2>1. CASE pc[h] \in PreCloneSteps \cup {"clear"}
    <3>1. ~Live(call[h].name)
      BY <1>3, <2>1 DEF HelperInv, MachineInv, Live, Inventory
    <3> QED BY <1>3, <3>1, MadeByName
  <2>2. CASE pc[h] \in MachineSteps
    <3>1. records[r].phase \in Phases \ {"reserved"}
      BY <1>1, <1>3, <2>2 DEF HelperInv, RecordInv
    <3> QED BY <3>1 DEF Phase, Phases
  <2> QED BY <1>2, <2>1, <2>2
<1>5. UNCHANGED Made /\ \A q \in Runners : Phase(q)' = Phase(q)
  BY SamePhase DEF orbVars, machineVars, Made, Live, Inventory
<1>6. CASE intents' = intents \ {r}
  <2>1. Registry!Unmark(r)
    BY <1>3, <1>4, <1>5, <1>6, SettlesAtOnce
       DEF Registry!Unmark, Registry!Surely
  <2> QED BY <1>3, <2>1 DEF Registry!Next
<1>7. CASE UNCHANGED intents
  BY <1>5, <1>7, RegistryRests
<1> QED BY <1>1, <1>6, <1>7 DEF IntentCleared, IntentClearFailed

(* A machine is made once, under a reservation with an intent.             *)
LEMMA RegistryMakes ==
    ASSUME TypeOK, TypeOK', IInv, NEW h \in Helpers, Spawn(h)
    PROVE  [Registry!Next]_(Registry!vars)
<1>1. PICK r, n : r = call[h].runner /\ n = call[h].name
  OBVIOUS
<1>2. /\ pc[h] \in LockedSteps /\ pc[h] \in BoundSteps
      /\ pc[h] \in PreCloneSteps /\ pc[h] \in ReservedSteps
  BY DEF Spawn, BoundSteps, LockedSteps, CreateSteps, CloneSteps,
     PreCloneSteps, ReservedSteps
<1>3. /\ HelperInv(h) /\ MachineInv(n) /\ r \in Runners /\ n \in Names
      /\ owner[n] = r /\ records[r].name = n
  BY <1>1, <1>2, Own
<1>4. /\ ~Live(n) /\ r \in intents /\ Phase(r) = "reserved"
  BY <1>1, <1>2, <1>3
     DEF Spawn, HelperInv, MachineInv, Live, Inventory, Phase
<1>5. r \notin Made
  BY <1>3, <1>4, MadeByName
<1>6. /\ UNCHANGED <<records, intents, owner, machine>>
      /\ \A q \in Runners : Phase(q)' = Phase(q)
  BY SamePhase DEF Spawn, registryVars, machineVars
<1>7. CASE UNCHANGED <<child, backend>>
  BY <1>6, <1>7, RegistryRests DEF Made, Live, Inventory
<1>8. CASE ~UNCHANGED <<child, backend>>
  <2>1. child' = [child EXCEPT ![n] = "alive"] /\ backend' = backend \cup {n}
    BY <1>1, <1>8 DEF Spawn
  <2>2. /\ Live(n)'
        /\ \A m \in Names \ {n} : Live(m)' <=> Live(m)
    BY <1>3, <1>6, <2>1 DEF Live, Inventory, TypeOK, OrbTypes
  <2>3. Made' = Made \cup {r}
    BY <1>3, <1>6, <2>2 DEF Made
  <2>4. Registry!Make(r)
    BY <1>3, <1>4, <1>5, <1>6, <2>3 DEF Registry!Make, Registry!Surely
  <2> QED BY <1>3, <2>4 DEF Registry!Next
<1> QED BY <1>7, <1>8

(* One name's machine, copy or clone child changes.                        *)
LEMMA RegistryVanishes ==
    ASSUME TypeOK, TypeOK', IInv, NEW n \in Names,
           UNCHANGED <<records, intents, owner>>,
           \A m \in Names \ {n} : Live(m)' <=> Live(m),
           Live(n)' => Live(n)
    PROVE  [Registry!Next]_(Registry!vars)
<1>1. \A q \in Runners : Phase(q)' = Phase(q)
  BY SamePhase
<1>2. CASE Live(n)' <=> Live(n)
  <2>1. UNCHANGED Made
    BY <1>2 DEF Made
  <2> QED BY <1>1, <2>1, RegistryRests
<1>3. CASE Live(n) /\ ~Live(n)'
  <2>1. PICK r : r = owner[n]
    OBVIOUS
  <2>2. r \in Runners /\ records[r].name = n
    <3>1. MachineInv(n)
      BY DEF IInv
    <3> QED BY <1>3, <2>1, <3>1
            DEF MachineInv, Live, Inventory, TypeOK, RegistryTypes, OrbTypes
  <2>3. \A m \in Names \ {n} : owner[m] = r => ~Live(m)
    BY <2>2 DEF IInv, MachineInv
  <2>4. r \in Made /\ Made' = Made \ {r}
    BY <1>3, <2>1, <2>2, <2>3 DEF Made
  <2>5. Registry!Vanish(r)
    BY <1>1, <2>4 DEF Registry!Vanish
  <2> QED BY <2>2, <2>5 DEF Registry!Next
<1> QED BY <1>2, <1>3

LEMMA RegistryDestroys ==
    ASSUME TypeOK, TypeOK', IInv, NEW h \in Helpers, Destroy(h)
    PROVE  [Registry!Next]_(Registry!vars)
<1>1. PICK n : n = call[h].id
  OBVIOUS
<1>2. n \in Names
  <2>1. pc[h] \in LockedSteps /\ pc[h] \in BoundSteps /\ pc[h] \in MachineSteps
    BY DEF Destroy, BoundSteps, LockedSteps, CleanupSteps, MachineSteps
  <2> QED BY <1>1, <2>1, Own DEF HelperInv
<1>3. /\ UNCHANGED <<records, intents, owner, child, backend>>
      /\ machine' \in {machine, [machine EXCEPT ![n] = "deleted"]}
  BY <1>1 DEF Destroy, registryVars
<1>4. /\ \A m \in Names \ {n} : Live(m)' <=> Live(m)
      /\ Live(n)' => Live(n)
  BY <1>2, <1>3 DEF Live, Inventory, TypeOK, OrbTypes
<1> QED BY <1>2, <1>3, <1>4, RegistryVanishes

LEMMA RegistryOrb ==
    ASSUME TypeOK, TypeOK', IInv, NEW n \in Names,
           \/ ChildSucceeds(n) \/ ChildFails(n) \/ BackendCopies(n)
           \/ BackendDrops(n) \/ GuestStops(n) \/ UserDeletes(n)
    PROVE  [Registry!Next]_(Registry!vars)
<1> USE DEF ChildSucceeds, ChildFails, BackendCopies, BackendDrops,
            GuestStops, UserDeletes
<1>1. UNCHANGED <<records, intents, owner>> /\ Live(n)
  BY DEF registryVars, Live, Inventory
<1>2. \A m \in Names \ {n} : /\ child'[m] = child[m]
                             /\ machine'[m] = machine[m]
                             /\ m \in backend' <=> m \in backend
  BY DEF TypeOK, OrbTypes, machineVars
<1>3. \A m \in Names \ {n} : Live(m)' <=> Live(m)
  BY <1>2 DEF Live, Inventory
<1> QED BY <1>1, <1>3, RegistryVanishes

LEMMA RegistryStep ==
    ASSUME TypeOK, TypeOK', IInv, [Next]_vars
    PROVE  [Registry!Next]_(Registry!vars)
<1>1. ASSUME NEW h \in Helpers, Call(h) \/ HelperStep(h)
      PROVE  [Registry!Next]_(Registry!vars)
  BY <1>1, RegistryLooks, RegistryPowers, RegistryReserves, RegistryForgets,
     RegistrySaves, RegistryMarks, RegistryUnmarks, RegistryMakes,
     RegistryDestroys
     DEF HelperStep, CreateStep, DeleteStep, OtherStep
<1>2. ASSUME NEW h \in Helpers, ReadFails(h) \/ KillHelper(h)
      PROVE  [Registry!Next]_(Registry!vars)
  BY <1>2, RegistryLooks
<1>3. ASSUME NEW n \in Names,
             \/ ChildSucceeds(n) \/ ChildFails(n) \/ BackendCopies(n)
             \/ BackendDrops(n) \/ GuestStops(n) \/ UserDeletes(n)
      PROVE  [Registry!Next]_(Registry!vars)
  BY <1>3, RegistryOrb
<1>4. CASE UNCHANGED vars
  <2>1. UNCHANGED <<intents, Made>> /\ \A r \in Runners : Phase(r)' = Phase(r)
    BY <1>4, SamePhase DEF vars, Made, Live, Inventory
  <2> QED BY <2>1, RegistryRests
<1> QED BY <1>1, <1>2, <1>3, <1>4 DEF Next, OrbStep, Environment

(* The calls keep the registry's contract, whatever fails, dies or is      *)
(* retried between them: a machine is made once under a reservation with   *)
(* an intent, both outlast it or give way to its ID, and no record leaves  *)
(* an intent behind (provider.go, clone, deleteRecord,                     *)
(* releaseReservation).                                                    *)
THEOREM RegistryKept == Spec => RegistrySpec
<1>1. Init => Registry!Init
  <2> SUFFICES ASSUME Init PROVE Registry!Init
    OBVIOUS
  <2>1. Made = {} /\ \A r \in Runners : Phase(r) = "none"
    BY DEF Init, Made, Live, Inventory, Phase, NoRecord, Record
  <2> QED BY <2>1 DEF Init, Registry!Init
<1>2. TypeOK /\ IInv /\ [Next]_vars /\ (TypeOK /\ IInv)'
        => [Registry!Next]_(Registry!vars)
  BY RegistryStep
<1> QED BY <1>1, <1>2, Invariance, PTL DEF Spec, RegistrySpec, Registry!Spec

-----------------------------------------------------------------------------
(* ListInstances.                                                          *)

(* What a step may make of a record: nothing, none, the same machine's in  *)
(* a later phase, or one of a machine that is yet to come.                 *)
RecordMoves(r) ==
    \/ records'[r] = records[r]
    \/ records'[r].name = NoName /\ records'[r].id = NoName
    \/ /\ records'[r].name = records[r].name
       /\ records'[r].phase # "reserved"
    \/ /\ owner[records'[r].name] = NoRunner
       /\ records'[r].id = NoName

OwnersStay == \A n \in Names : owner[n] # NoRunner => owner'[n] = owner[n]

LEMMA ListLooks ==
    ASSUME NEW h \in Helpers, NEW r \in Runners,
           \/ Call(h) \/ LockInstance(h) \/ LockRefused(h) \/ Recheck(h)
           \/ LockTemplate(h) \/ TemplateTimeout(h) \/ Validate(h)
           \/ MarkIntent(h) \/ Unmark(h) \/ Wait(h) \/ Identify(h)
           \/ ClearAfterClone(h) \/ CheckStopped(h) \/ ApplySettings(h)
           \/ InjectBootstrap(h) \/ Observe(h) \/ Owned(h) \/ Lift(h)
           \/ Confirm(h)
           \/ Uncertain(h) \/ ConfirmName(h) \/ Clear(h) \/ Adopt(h)
           \/ ClearAdopted(h) \/ ReadFails(h) \/ KillHelper(h)
           \/ Boot(h) \/ Power(h) \/ Spawn(h) \/ Destroy(h)
    PROVE  RecordMoves(r) /\ OwnersStay
<1>1. UNCHANGED <<records, owner>>
  BY DEF Call, CallCreate, CallOn, LockInstance, LockRefused, Recheck,
     LockTemplate, TemplateTimeout, Validate, MarkIntent, Unmark, Wait,
     Identify, ClearAfterClone, CheckStopped, ApplySettings, InjectBootstrap,
     Observe, Owned, Lift, Confirm, Uncertain, ConfirmName, Clear, Adopt,
     ClearAdopted, ReadFails, KillHelper, MachineGone, registryVars, Boot,
     Power, Spawn, Destroy
<1> QED BY <1>1 DEF RecordMoves, OwnersStay

LEMMA ListSaves ==
    ASSUME TypeOK, IInv, NEW h \in Helpers, NEW r \in Runners,
           \/ SaveCreated(h) \/ SaveBootstrapping(h) \/ SaveActive(h)
           \/ SaveDeleting(h) \/ SaveAdopted(h)
    PROVE  RecordMoves(r) /\ OwnersStay
<1> USE DEF SaveCreated, SaveBootstrapping, SaveActive, SaveDeleting,
            SaveAdopted
<1>1. PICK q : q = call[h].runner
  OBVIOUS
<1>2. UNCHANGED owner
  OBVIOUS
<1>3. PICK p \in Phases \ {"reserved"} :
        records' \in {records, [records EXCEPT ![q] = Local(h, p)]}
  BY <1>1 DEF Saved, SaveFailed, Phases
<1>4. records[q].name = call[h].name
  <2>1. pc[h] \in LockedSteps /\ pc[h] \in BoundSteps
    BY DEF BoundSteps, LockedSteps, CleanupSteps, CreateSteps, CloneSteps,
       TargetSteps
  <2> QED BY <1>1, <2>1, Own
<1>5. \/ records'[r] = records[r]
      \/ /\ records'[r].name = records[r].name
         /\ records'[r].phase # "reserved"
  BY <1>3, <1>4 DEF Local, Record, TypeOK, RegistryTypes
<1> QED BY <1>2, <1>5 DEF RecordMoves, OwnersStay

LEMMA ListReserves ==
    ASSUME TypeOK, IInv, NEW h \in Helpers, NEW r \in Runners, Reserve(h)
    PROVE  RecordMoves(r) /\ OwnersStay
<1>1. PICK q : q = call[h].runner
  OBVIOUS
<1>2. CASE UNCHANGED <<records, owner>>
  BY <1>2 DEF RecordMoves, OwnersStay
<1>3. CASE ~UNCHANGED <<records, owner>>
  <2>1. PICK n \in Unused :
          /\ records' = [records EXCEPT ![q] = Record(n, NoName, "reserved")]
          /\ owner' = [owner EXCEPT ![n] = q]
    BY <1>1, <1>3 DEF Reserve
  <2>2. OwnersStay
    BY <2>1 DEF Unused, OwnersStay, TypeOK, RegistryTypes
  <2>3. RecordMoves(r)
    BY <2>1 DEF RecordMoves, Unused, Record, TypeOK, RegistryTypes
  <2> QED BY <2>2, <2>3
<1> QED BY <1>2, <1>3

LEMMA ListRemoves ==
    ASSUME TypeOK, NEW h \in Helpers, NEW r \in Runners, Undo(h) \/ Remove(h)
    PROVE  RecordMoves(r) /\ OwnersStay
<1>1. PICK q : q = call[h].runner
  OBVIOUS
<1>2. /\ UNCHANGED owner
      /\ records' \in {records, [records EXCEPT ![q] = NoRecord]}
  BY <1>1 DEF Undo, Remove, Removed, RemoveFailed
<1> QED BY <1>2 DEF RecordMoves, OwnersStay, NoRecord, Record, TypeOK,
           RegistryTypes

LEMMA ListStep ==
    ASSUME TypeOK, IInv, NEW r \in Runners, [Next]_vars
    PROVE  RecordMoves(r) /\ OwnersStay
<1>1. ASSUME NEW h \in Helpers, Call(h) \/ HelperStep(h)
      PROVE  RecordMoves(r) /\ OwnersStay
  BY <1>1, ListLooks, ListSaves, ListReserves, ListRemoves
     DEF HelperStep, CreateStep, DeleteStep, OtherStep
<1>2. ASSUME NEW h \in Helpers, ReadFails(h) \/ KillHelper(h)
      PROVE  RecordMoves(r) /\ OwnersStay
  BY <1>2, ListLooks
<1>3. ASSUME NEW n \in Names,
             \/ ChildSucceeds(n) \/ ChildFails(n) \/ BackendCopies(n)
             \/ BackendDrops(n) \/ GuestStops(n) \/ UserDeletes(n)
      PROVE  RecordMoves(r) /\ OwnersStay
  BY <1>3 DEF ChildSucceeds, ChildFails, BackendCopies, BackendDrops,
     GuestStops, UserDeletes, registryVars, RecordMoves, OwnersStay
<1>4. CASE UNCHANGED vars
  BY <1>4 DEF vars, RecordMoves, OwnersStay
<1> QED BY <1>1, <1>2, <1>3, <1>4 DEF Next, OrbStep, Environment

(* A record with an ID is of the machine it was reserved for.              *)
LEMMA OnRecord ==
    ASSUME TypeOK, IInv, NEW r \in Runners
    PROVE  /\ records[r].id # NoName =>
                 /\ records[r].id = records[r].name
                 /\ records[r].id \in Names
                 /\ owner[records[r].id] = r
           /\ /\ records[r].name \in Names
              /\ records[r].phase # "reserved"
              => records[r].id = records[r].name
BY DEF IInv, RecordInv, NoRecord, Record, TypeOK, RegistryTypes

LEMMA ListOthers ==
    ASSUME TypeOK, TypeOK', IInv, IInv', ListInv, OtherCalls
    PROVE  ListInv'
<1>1. /\ seen' = seen /\ listing' = listing
      /\ steady' = {r \in steady : records'[r].id \in Inventory'}
      /\ \A r \in Runners : RecordMoves(r) /\ OwnersStay
  BY ListStep DEF OtherCalls, Whole, ListInv
<1>2. ASSUME NEW r \in Runners, seen[r] # NoName
      PROVE  /\ owner'[seen[r]] = r
             /\ records'[r].name = seen[r] => records'[r].id = seen[r]
  <2>1. seen[r] \in Names /\ owner[seen[r]] = r /\ owner'[seen[r]] = r
    BY <1>1, <1>2 DEF ListInv, OwnersStay, LifecycleAssumption
  <2>2. SUFFICES ASSUME records'[r].name = seen[r]
                 PROVE  records'[r].id = seen[r]
    BY <2>1
  <2>3. owner[records'[r].name] # NoRunner /\ records'[r].name # NoName
    BY <1>2, <2>1, <2>2
  <2>4. CASE records'[r] = records[r]
    BY <1>2, <2>2, <2>4 DEF ListInv
  <2>5. CASE records'[r].phase # "reserved"
    <3>1. records'[r].name \in Names
      BY <2>1, <2>2
    <3>2. records'[r].id = records'[r].name
      BY <2>5, <3>1 DEF IInv, RecordInv, NoRecord, Record
    <3> QED BY <2>2, <3>2
  <2> QED BY <1>1, <2>3, <2>4, <2>5 DEF RecordMoves
<1>3. ASSUME NEW r \in steady, records'[r].id \in Inventory'
      PROVE  records'[r].id = seen[r]
  <2>1. /\ r \in Runners /\ records[r].id = seen[r] /\ seen[r] \in Inventory
        /\ records'[r].id \in Names /\ records'[r].id # NoName
    BY <1>3 DEF ListInv, Inventory, LifecycleAssumption
  <2>2. records[r].name = seen[r] /\ seen[r] \in Names
    BY <2>1, OnRecord DEF Inventory, LifecycleAssumption
  <2>3. records'[r].id = records'[r].name
    BY <2>1 DEF IInv, RecordInv, NoRecord, Record, TypeOK, RegistryTypes
  <2> QED BY <1>1, <2>1, <2>2, <2>3 DEF RecordMoves
<1> QED BY <1>1, <1>2, <1>3 DEF ListInv

LEMMA ListReads ==
    ASSUME TypeOK, IInv, ListInv, ReadRecords \/ ReadInventory
    PROVE  ListInv'
<1>1. UNCHANGED <<records, owner, machine>>
  BY DEF ReadRecords, ReadInventory, vars
<1>2. CASE ReadRecords
  <2>1. \A r \in Runners : records[r].id \in Names \cup {NoName}
    BY DEF TypeOK, RegistryTypes, Records
  <2> QED BY <1>1, <1>2, <2>1, OnRecord
     DEF ReadRecords, ListInv, Whole, Inventory
<1>3. CASE ReadInventory
  BY <1>1, <1>3 DEF ReadInventory, ListInv, NothingSeen
<1> QED BY <1>2, <1>3

(* The lifecycle goes on as ever beside a list.                            *)
LEMMA ListingIsBeside == ListSpec => Spec
<1>1. ListInit => Init
  BY DEF ListInit
<1>2. [ListNext]_allVars => [Next]_vars
  BY DEF ListNext, ReadRecords, ReadInventory, OtherCalls, allVars, vars
<1> QED BY <1>1, <1>2, PTL DEF ListSpec, Spec

(* What ListInstances shows is true of the moment of its second read,      *)
(* whatever was created and deleted since its first (provider.go,          *)
(* ListInstances).                                                         *)
THEOREM ListedAtOnce == ListSpec => []ListIsOfOneMoment
<1>1. ListInit => ListInv
  BY DEF ListInit, ListInv, NothingSeen
<1>2. /\ TypeOK /\ IInv /\ ListInv /\ [ListNext]_allVars
      /\ (TypeOK /\ IInv)'
      => ListInv'
  <2> SUFFICES ASSUME TypeOK, TypeOK', IInv, IInv', ListInv,
                      [ListNext]_allVars
               PROVE  ListInv'
    OBVIOUS
  <2>1. CASE UNCHANGED allVars
    BY <2>1 DEF ListInv, allVars, listVars, vars, Inventory
  <2> QED BY <2>1, ListOthers, ListReads DEF ListNext
<1>3. TypeOK /\ IInv /\ ListInv => ListIsOfOneMoment
  <2> SUFFICES ASSUME TypeOK, IInv, ListInv
               PROVE  ListIsOfOneMoment
    OBVIOUS
  <2>1. ASSUME NEW r \in Shown PROVE records[r].id = seen[r]
    <3>1. /\ r \in Runners /\ seen[r] \in Names /\ seen[r] # NoName
          /\ seen[r] \in Inventory
      BY <2>1 DEF Shown, Inventory, LifecycleAssumption
    <3>2. MachineInv(seen[r]) /\ Live(seen[r])
      BY <3>1 DEF IInv, Live
    <3> QED BY <3>1, <3>2 DEF ListInv, MachineInv
  <2>2. steady \subseteq Shown
    BY DEF ListInv, Shown
  <2> QED BY <2>1, <2>2 DEF ListIsOfOneMoment
<1> QED BY <1>1, <1>2, <1>3, ListingIsBeside, Invariance, PTL DEF ListSpec
=============================================================================
