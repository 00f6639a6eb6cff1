----------------------- MODULE RunnerLifecycle_proofs -----------------------
(***************************************************************************)
(* Proofs about RunnerLifecycle, for any sets of runners, helpers and      *)
(* names, any capacity and any number of failures.                         *)
(***************************************************************************)
EXTENDS RunnerLifecycle, FiniteSetTheorems, TLAPS

USE LifecycleAssumption

-----------------------------------------------------------------------------
(* Type correctness.                                                       *)

LEMMA RecordType ==
    ASSUME NEW n \in Names \cup {NoName}, NEW i \in Names \cup {NoName},
           NEW p \in Phases \cup {"none"}
    PROVE  Record(n, i, p) \in Records
BY DEF Record, Records

LEMMA NoRecordType == NoRecord \in Records
BY RecordType DEF NoRecord

LEMMA CallType ==
    ASSUME NEW o \in Ops \cup {"none"},
           NEW t \in Runners \cup Names \cup {NoRunner},
           NEW r \in Runners \cup {NoRunner}, NEW n \in Names \cup {NoName}
    PROVE  NewCall(o, t, r, n) \in Calls
BY DEF NewCall, Calls

LEMMA NoCallType == NoCall \in Calls
BY CallType DEF NoCall

(* Moving to a step, returning and learning keep the helpers well typed.   *)
LEMMA GotoType ==
    ASSUME HelperTypes, NEW h \in Helpers,
           NEW step \in LockedSteps \cup {"idle", "lock"}, Goto(h, step)
    PROVE  HelperTypes'
BY DEF HelperTypes, Goto

LEMMA ReturnType ==
    ASSUME HelperTypes, NEW h \in Helpers, Return(h)
    PROVE  HelperTypes'
BY NoCallType DEF HelperTypes, Return

LEMMA LearnType ==
    ASSUME HelperTypes, NEW h \in Helpers,
           NEW n \in Names \cup {NoName}, NEW i \in Names \cup {NoName},
           NEW step \in LockedSteps \cup {"idle", "lock"},
           pc' = [pc EXCEPT ![h] = step], Learn(h, n, i)
    PROVE  HelperTypes'
<1>1. [op |-> call[h].op, target |-> call[h].target,
       runner |-> call[h].runner, name |-> n, id |-> i] \in Calls
  BY DEF HelperTypes, Calls
<1> QED BY <1>1 DEF HelperTypes, Learn

(* Registry writes keep the registry well typed.                           *)
LEMMA SaveType ==
    ASSUME RegistryTypes, faults \in Nat, NEW r \in Runners \cup {NoRunner},
           NEW new \in Records, Saved(r, new) \/ SaveFailed(r, new),
           UNCHANGED <<intents, owner>>
    PROVE  RegistryTypes' /\ faults' \in Nat
<1>1. /\ records' = records \/ records' = [records EXCEPT ![r] = new]
      /\ faults' \in Nat
  BY DEF Saved, SaveFailed, Fault
<1> QED BY <1>1 DEF RegistryTypes

LEMMA RemoveType ==
    ASSUME RegistryTypes, faults \in Nat, NEW r \in Runners \cup {NoRunner},
           Removed(r) \/ RemoveFailed(r), UNCHANGED <<intents, owner>>
    PROVE  RegistryTypes' /\ faults' \in Nat
<1>1. /\ records' = records \/ records' = [records EXCEPT ![r] = NoRecord]
      /\ faults' \in Nat
  BY DEF Removed, RemoveFailed, Fault
<1> QED BY <1>1, NoRecordType DEF RegistryTypes

LEMMA ClearType ==
    ASSUME RegistryTypes, faults \in Nat, NEW r,
           IntentCleared(r) \/ IntentClearFailed(r),
           UNCHANGED <<records, owner>>
    PROVE  RegistryTypes' /\ faults' \in Nat
BY DEF IntentCleared, IntentClearFailed, Fault, RegistryTypes

LEMMA LocalType ==
    ASSUME HelperTypes, NEW h \in Helpers, NEW p \in Phases
    PROVE  Local(h, p) \in Records /\ call[h].runner \in Runners \cup {NoRunner}
<1>1. call[h] \in Calls
  BY DEF HelperTypes
<1> QED BY <1>1, RecordType DEF Local, Calls

LEMMA TypeStep == TypeOK /\ IInv /\ [Next]_vars => TypeOK'
<1> SUFFICES ASSUME TypeOK, IInv, [Next]_vars PROVE TypeOK'
  OBVIOUS
<1> USE DEF TypeOK, registryVars, orbVars, machineVars, Phases,
        LockedSteps, CleanupSteps, CreateSteps, CloneSteps, TargetSteps
<1>1. ASSUME NEW h \in Helpers, NEW r \in Runners, CallCreate(h, r)
      PROVE  TypeOK'
  BY <1>1, CallType DEF CallCreate, Ops, HelperTypes, RegistryTypes, OrbTypes
<1>2. ASSUME NEW h \in Helpers, NEW o \in Ops, NEW t \in Runners \cup Names,
             CallOn(h, o, t)
      PROVE  TypeOK'
  <2>1. PICK r \in Runners :
          call' = [call EXCEPT ![h] = NewCall(o, t, r, records[r].name)]
    BY <1>2 DEF CallOn, Find, Registered
  <2>2. NewCall(o, t, r, records[r].name) \in Calls
    BY CallType DEF RegistryTypes, Records
  <2> QED BY <1>2, <2>1, <2>2 DEF CallOn, HelperTypes, RegistryTypes, OrbTypes
<1>3. ASSUME NEW h \in Helpers, Reserve(h) PROVE TypeOK'
  <2>1. HelperTypes'
    <3>1. CASE Return(h)
      BY <3>1, ReturnType
    <3>2. CASE \E n \in Unused : pc' = [pc EXCEPT ![h] = "lockTemplate"]
                                 /\ Learn(h, n, NoName)
      BY <1>3, <3>2, LearnType DEF Unused, Reserve
    <3> QED BY <1>3, <3>1, <3>2 DEF Reserve
  <2>2. RegistryTypes' /\ faults' \in Nat
    <3>1. call[h].runner \in Runners \cup {NoRunner}
      BY LocalType
    <3>2. \A n \in Names : Record(n, NoName, "reserved") \in Records
      BY RecordType
    <3> QED BY <1>3, <3>1, <3>2 DEF Reserve, RegistryTypes, Fault, Unused
  <2> QED BY <1>3, <2>1, <2>2 DEF Reserve, OrbTypes
(* Steps that only move the helper.                                        *)
<1>4. ASSUME NEW h \in Helpers,
             \/ Return(h)
             \/ \E step \in LockedSteps : Goto(h, step)
      PROVE  HelperTypes'
  BY <1>4, GotoType, ReturnType
<1>5. ASSUME NEW h \in Helpers,
             \/ LockInstance(h) \/ LockRefused(h) \/ LockTemplate(h)
             \/ TemplateTimeout(h) \/ Validate(h) \/ Wait(h)
             \/ CheckStopped(h) \/ Observe(h) \/ Owned(h) \/ Confirm(h)
             \/ Uncertain(h) \/ ConfirmName(h) \/ ReadFails(h)
             \/ KillHelper(h)
      PROVE  TypeOK'
  <2>1. Return(h) \/ \E step \in LockedSteps : Goto(h, step)
    BY <1>5 DEF LockInstance, LockRefused, LockTemplate, TemplateTimeout,
       Validate, Wait, CheckStopped, Observe, Owned, Confirm, Uncertain,
       ConfirmName, ReadFails, KillHelper
  <2>2. /\ UNCHANGED <<registryVars, orbVars>>
        /\ Fault \/ UNCHANGED faults
    BY <1>5 DEF LockInstance, LockRefused, LockTemplate, TemplateTimeout,
       Validate, Wait, CheckStopped, Observe, Owned, Confirm, Uncertain,
       ConfirmName, ReadFails, KillHelper
  <2> QED BY <2>1, <1>4, <2>2 DEF RegistryTypes, OrbTypes, Fault
<1>6. ASSUME NEW h \in Helpers, Recheck(h) \/ Identify(h) \/ Adopt(h)
      PROVE  TypeOK'
  <2>1. \/ Return(h)
        \/ \E step \in LockedSteps, n, i \in Names \cup {NoName} :
              pc' = [pc EXCEPT ![h] = step] /\ Learn(h, n, i)
    <3>1. CASE Recheck(h)
      <4>1. CASE SameTarget(h) /\ Admissible(h)
        <5>1. records[call[h].runner] \in Records
          BY <4>1 DEF SameTarget, Find, Registered, RegistryTypes
        <5>2. records[call[h].runner].id \in Names \cup {NoName}
          BY <5>1 DEF Records
        <5>3. call[h].name \in Names \cup {NoName}
          BY DEF HelperTypes, Calls
        <5>4. AfterRecheck(h) \in LockedSteps
          BY DEF AfterRecheck
        <5> QED BY <3>1, <4>1, <5>2, <5>3, <5>4 DEF Recheck
      <4>2. CASE ~(SameTarget(h) /\ Admissible(h))
        BY <3>1, <4>2 DEF Recheck
      <4> QED BY <4>1, <4>2
    <3>2. CASE Identify(h)
      BY <3>2 DEF Identify, Inventory
    <3>3. CASE Adopt(h)
      BY <3>3 DEF Adopt, Inventory
    <3> QED BY <1>6, <3>1, <3>2, <3>3
  <2>2. HelperTypes'
    BY <1>6, <2>1, ReturnType, LearnType DEF Recheck, Identify, Adopt
  <2>3. UNCHANGED <<registryVars, orbVars, faults>>
    BY <1>6 DEF Recheck, Identify, Adopt
  <2> QED BY <2>2, <2>3 DEF RegistryTypes, OrbTypes
<1>7. ASSUME NEW h \in Helpers,
             \/ SaveCreated(h) \/ SaveBootstrapping(h) \/ SaveActive(h)
             \/ SaveDeleting(h) \/ SaveAdopted(h)
      PROVE  TypeOK'
  <2> USE DEF SaveCreated, SaveBootstrapping, SaveActive, SaveDeleting,
              SaveAdopted
  <2>1. \E p \in Phases : \/ Saved(call[h].runner, Local(h, p))
                          \/ SaveFailed(call[h].runner, Local(h, p))
    BY <1>7
  <2>2. RegistryTypes' /\ faults' \in Nat
    BY <1>7, <2>1, LocalType, SaveType
  <2>3. HelperTypes'
    BY <1>7, <1>4
  <2> QED BY <1>7, <2>2, <2>3 DEF OrbTypes
<1>8. ASSUME NEW h \in Helpers, Undo(h) \/ Remove(h) PROVE TypeOK'
  <2>1. RegistryTypes' /\ faults' \in Nat
    BY <1>8, LocalType, RemoveType DEF Undo, Remove
  <2> QED BY <1>8, <2>1, ReturnType DEF Undo, Remove, OrbTypes
<1>9. ASSUME NEW h \in Helpers,
             \/ Unmark(h) \/ ClearAfterClone(h) \/ Clear(h) \/ ClearAdopted(h)
      PROVE  TypeOK'
  <2> USE DEF Unmark, ClearAfterClone, Clear, ClearAdopted
  <2>1. RegistryTypes' /\ faults' \in Nat
    BY <1>9, ClearType
  <2>2. HelperTypes'
    BY <1>9, <1>4
  <2> QED BY <1>9, <2>1, <2>2 DEF OrbTypes
<1>10. ASSUME NEW h \in Helpers, MarkIntent(h) PROVE TypeOK'
  <2>1. HelperTypes'
    BY <1>10, <1>4 DEF MarkIntent
  <2>2. call[h].runner \in Runners
    BY <1>10 DEF MarkIntent, IInv, HelperInv
  <2> QED BY <1>10, <2>1, <2>2 DEF MarkIntent, RegistryTypes, OrbTypes, Fault
<1>11. ASSUME NEW h \in Helpers,
              \/ Spawn(h) \/ ApplySettings(h) \/ Boot(h)
              \/ InjectBootstrap(h) \/ Lift(h) \/ Destroy(h) \/ Power(h)
       PROVE  TypeOK'
  <2> USE DEF Spawn, ApplySettings, Boot, InjectBootstrap, Lift, Destroy,
              Power, MachineGone
  <2>1. HelperTypes'
    BY <1>11, <1>4
  <2>2. OrbTypes' /\ faults' \in Nat
    <3>1. CASE Spawn(h)
      BY <3>1 DEF OrbTypes, Fault, IInv, HelperInv, BoundSteps
    <3>2. CASE ApplySettings(h)
      BY <3>2 DEF OrbTypes, Fault, Inventory
    <3>3. CASE Boot(h)
      BY <3>3 DEF OrbTypes, Fault, Inventory
    <3>4. CASE InjectBootstrap(h)
      BY <3>4 DEF OrbTypes, Fault, Inventory
    <3>5. CASE Destroy(h)
      BY <3>5 DEF OrbTypes, Fault
    <3>6. CASE Power(h)
      BY <3>6 DEF OrbTypes, Fault, Inventory
    <3>7. CASE Lift(h)
      BY <3>7 DEF OrbTypes, Fault, Inventory
    <3> QED BY <1>11, <3>1, <3>2, <3>3, <3>4, <3>5, <3>6, <3>7
  <2> QED BY <1>11, <2>1, <2>2 DEF RegistryTypes
<1>12. ASSUME NEW n \in Names,
              \/ ChildSucceeds(n) \/ ChildFails(n) \/ BackendCopies(n)
              \/ BackendDrops(n) \/ GuestStops(n) \/ UserDeletes(n)
       PROVE  TypeOK'
  BY <1>12 DEF ChildSucceeds, ChildFails, BackendCopies, BackendDrops,
     GuestStops, UserDeletes, Fault, RegistryTypes, HelperTypes, OrbTypes
<1>13. CASE UNCHANGED vars
  BY <1>13 DEF vars, RegistryTypes, HelperTypes, OrbTypes
<1>14. CASE \E h \in Helpers : Call(h)
  BY <1>14, <1>1, <1>2 DEF Call, Ops
<1> QED
  BY <1>3, <1>5, <1>6, <1>7, <1>8, <1>9, <1>10, <1>11, <1>12, <1>13, <1>14
     DEF Next, HelperStep, CreateStep, DeleteStep, OtherStep, OrbStep,
         Environment

-----------------------------------------------------------------------------
(* The inductive invariant.  A helper that holds its instance lock changes *)
(* only what belongs to its runner: its Footprint.  So it is enough to see *)
(* that its step re-establishes what concerns its own record, its own      *)
(* machine name and itself (Settled): the rest of IInv is out of reach.    *)

Footprint(h) ==
    LET r == call[h].runner
        n == call[h].name IN
    /\ \A q \in Runners : q # r =>
          records'[q] = records[q] /\ (q \in intents' <=> q \in intents)
    /\ \A g \in Helpers : g # h => pc'[g] = pc[g] /\ call'[g] = call[g]
    /\ \A m \in Names : m # n =>
          /\ child'[m] = child[m]
          /\ m \in backend' <=> m \in backend
          /\ machine'[m] = machine[m]
    /\ \A m \in Names :
          \/ owner'[m] = owner[m]
          \/ owner[m] = NoRunner /\ owner'[m] = r
    /\ pc'[h] \in LockedSteps => call'[h].runner = r
    /\ n \in Names => /\ child'[n] = "alive" => child[n] = "alive" \/ pc[h] = "spawn"
                      /\ n \in backend' => n \in backend \/ pc[h] = "spawn"
    /\ pc'[h] \in PreCloneSteps =>
          \/ pc[h] \in PreCloneSteps /\ call'[h].name = n
          \/ call'[h].name \in Names /\ owner[call'[h].name] = NoRunner
    /\ pc[h] \notin BoundSteps =>
          /\ UNCHANGED <<child, backend, machine>>
          /\ records'[r] = records[r] \/ records[r] = NoRecord

Settled(h) ==
    /\ \A q \in Runners : q = call[h].runner => RecordInv(q)'
    /\ HelperInv(h)'
    /\ \A m \in Names : m = call[h].name =>
          /\ MachineInv(m)'
          /\ child'[m] = "alive" /\ pc'[h] \in LockedSteps
             /\ owner'[m] = call[h].runner
             => pc'[h] = "wait" /\ call'[h].name = m

LEMMA Locality ==
    ASSUME TypeOK, TypeOK', IInv, NEW h \in Helpers, pc[h] \in LockedSteps,
           Footprint(h), Settled(h)
    PROVE  IInv'
<1> DEFINE r == call[h].runner
           n == call[h].name
<1> USE DEF TypeOK, RegistryTypes, OrbTypes
<1>0. /\ r \in Runners
      /\ pc[h] \in BoundSteps => n \in Names /\ records[r].name = n /\ owner[n] = r
  BY DEF IInv, HelperInv, RecordInv, NoRecord, Record, LockedSteps, CleanupSteps,
     CreateSteps, CloneSteps, TargetSteps
<1>1. \A g \in Helpers : g # h /\ pc[g] \in LockedSteps => call[g].runner # r
  BY DEF IInv, OneWriterPerRunner, InstanceLockedBy
<1>2. OneWriterPerRunner'
  <2>1. ASSUME NEW f \in Helpers, NEW g \in Helpers,
               pc'[f] \in LockedSteps, pc'[g] \in LockedSteps,
               call'[f].runner = call'[g].runner
        PROVE  f = g
    BY <1>1, <2>1 DEF IInv, OneWriterPerRunner, InstanceLockedBy, Footprint
  <2>2. ASSUME NEW m \in Names, NEW g \in Helpers, child'[m] = "alive",
               pc'[g] \in LockedSteps, call'[g].runner = owner'[m]
        PROVE  pc'[g] = "wait" /\ call'[g].name = m
    <3>1. CASE g = h
      BY <1>0, <2>2, <3>1 DEF IInv, OneWriterPerRunner, InstanceLockedBy, Footprint, Settled, MachineInv
    <3>2. CASE g # h
      BY <1>0, <1>1, <2>2, <3>2 DEF IInv, OneWriterPerRunner, InstanceLockedBy, Footprint, MachineInv
    <3> QED BY <3>1, <3>2
  <2> QED BY <2>1, <2>2 DEF OneWriterPerRunner, InstanceLockedBy
<1>3. ASSUME NEW q \in Runners PROVE RecordInv(q)'
  <2>1. CASE q = r
    BY <2>1 DEF Settled
  <2>2. CASE q # r
    <3>1. RecordInv(q) /\ records'[q] = records[q] /\ (q \in intents' <=> q \in intents)
      BY <2>2 DEF IInv, Footprint
    <3>2. ASSUME records[q] # NoRecord
          PROVE  LET m == records[q].name IN
                 /\ owner'[m] = owner[m] /\ child'[m] = child[m]
                 /\ m \in backend' <=> m \in backend
                 /\ machine'[m] = machine[m]
      BY <1>0, <2>2, <3>1, <3>2 DEF RecordInv, Footprint
    <3> QED BY <3>1, <3>2 DEF RecordInv, Live, Inventory
  <2> QED BY <2>1, <2>2
<1>4. ASSUME NEW m \in Names PROVE MachineInv(m)'
  <2>1. CASE m = n
    BY <2>1 DEF Settled
  <2>2. CASE m # n
    <3>1. MachineInv(m)
      BY DEF IInv
    <3>2. Live(m)' => Live(m) /\ owner'[m] = owner[m] /\ records'[owner[m]] = records[owner[m]]
      BY <1>0, <2>2, <3>1 DEF Footprint, MachineInv, Live, Inventory, NoRecord, Record
    <3> QED BY <2>2, <3>1, <3>2 DEF MachineInv, Footprint
  <2> QED BY <2>1, <2>2
<1>5. ASSUME NEW g \in Helpers, g # h PROVE HelperInv(g)'
  <2>1. HelperInv(g) /\ pc'[g] = pc[g] /\ call'[g] = call[g]
    BY <1>5 DEF IInv, Footprint
  <2>2. call[g].op = "release" => call[g].name \in Names /\ owner'[call[g].name] # NoRunner /\ NeverCloned(g)'
    BY <1>5, <2>1 DEF HelperInv, NeverCloned, Footprint, PreCloneSteps
  <2>3. CASE pc[g] \in BoundSteps
    <3>1. call[g].runner \in Runners \ {r}
      BY <1>1, <1>5, <2>1, <2>3 DEF HelperInv, BoundSteps, LockedSteps, CleanupSteps, CreateSteps, CloneSteps, TargetSteps
    <3>2. records'[call[g].runner] = records[call[g].runner] /\ (call[g].runner \in intents' <=> call[g].runner \in intents)
      BY <3>1 DEF Footprint
    <3>3. call[g].name \in Names /\ owner[call[g].name] = call[g].runner
      BY <2>1, <2>3, <3>1 DEF IInv, HelperInv, RecordInv, NoRecord, Record
    <3>4. LET m == call[g].name IN
          /\ child'[m] = child[m] /\ machine'[m] = machine[m]
          /\ m \in backend' <=> m \in backend
      BY <1>0, <3>1, <3>3 DEF Footprint
    <3> QED BY <2>1, <2>2, <3>2, <3>3, <3>4 DEF HelperInv, Live, Inventory
  <2>4. CASE pc[g] \notin BoundSteps
    BY <2>1, <2>2, <2>4 DEF HelperInv, BoundSteps, LockedSteps, CleanupSteps, CreateSteps, CloneSteps, TargetSteps, ReservedSteps, PreCloneSteps, MachineSteps
  <2> QED BY <2>3, <2>4
<1> QED BY <1>2, <1>3, <1>4, <1>5 DEF IInv, Settled

(* What a helper at a step may assume of its own record and machine.       *)
LEMMA Own ==
    ASSUME TypeOK, IInv, NEW h \in Helpers, pc[h] \in LockedSteps
    PROVE  /\ call[h].runner \in Runners
           /\ HelperInv(h)
           /\ RecordInv(call[h].runner)
           /\ pc[h] \in BoundSteps =>
                 /\ call[h].name \in Names
                 /\ records[call[h].runner].name = call[h].name
                 /\ records[call[h].runner] # NoRecord
                 /\ owner[call[h].name] = call[h].runner
                 /\ MachineInv(call[h].name)
                 /\ child[call[h].name] = "alive" => pc[h] = "wait"
BY DEF IInv, HelperInv, RecordInv, NoRecord, Record, OneWriterPerRunner,
   InstanceLockedBy, LockedSteps, CleanupSteps, CreateSteps, CloneSteps, TargetSteps

(* Returning, or dying, without touching the registry or a machine.        *)
LEMMA QuietReturn ==
    ASSUME TypeOK, IInv, NEW h \in Helpers, pc[h] # "idle", Return(h),
           UNCHANGED <<registryVars, child, backend, machine>>
    PROVE  IInv'
<1> USE DEF TypeOK, HelperTypes, registryVars, orbVars, machineVars, Return, NoCall, NewCall
<1>1. OneWriterPerRunner'
  BY DEF IInv, OneWriterPerRunner, InstanceLockedBy, LockedSteps, CleanupSteps,
     CreateSteps, CloneSteps, TargetSteps
<1>2. /\ (\A r \in Runners : RecordInv(r))'
      /\ (\A n \in Names : MachineInv(n))'
  BY DEF IInv, RecordInv, MachineInv, Live, Inventory
<1>3. ASSUME NEW g \in Helpers PROVE HelperInv(g)'
  <2>1. CASE g = h
    BY <2>1 DEF HelperInv, LockedSteps, CleanupSteps, CreateSteps, CloneSteps,
       TargetSteps, BoundSteps, ReservedSteps, PreCloneSteps, MachineSteps
  <2>2. CASE g # h
    <3>1. HelperInv(g) /\ pc'[g] = pc[g] /\ call'[g] = call[g]
      BY <2>2 DEF IInv
    <3>2. NeverCloned(g) => NeverCloned(g)'
      BY <3>1 DEF NeverCloned, PreCloneSteps
    <3> QED BY <3>1, <3>2 DEF HelperInv, Live, Inventory
  <2> QED BY <2>1, <2>2
<1> QED BY <1>1, <1>2, <1>3 DEF IInv

(* Going on without touching the registry or a machine.                    *)
LEMMA QuietGoto ==
    ASSUME TypeOK, TypeOK', IInv, NEW h \in Helpers, pc[h] \in LockedSteps,
           NEW step \in LockedSteps, pc' = [pc EXCEPT ![h] = step],
           call' = [call EXCEPT ![h] = call'[h]],
           call'[h].runner = call[h].runner,
           step \in PreCloneSteps => pc[h] \in PreCloneSteps /\ call'[h].name = call[h].name,
           pc[h] \in BoundSteps => child[call[h].name] # "alive",
           UNCHANGED <<registryVars, child, backend, machine>>, HelperInv(h)'
    PROVE  IInv'
<1> USE DEF TypeOK, HelperTypes, registryVars, orbVars, machineVars
<1>1. Footprint(h)
  <2>1. /\ pc'[h] = step
        /\ \A g \in Helpers : g # h => pc'[g] = pc[g] /\ call'[g] = call[g]
    OBVIOUS
  <2> QED BY <2>1 DEF Footprint
<1>2. Settled(h)
  <2>1. (\A q \in Runners : RecordInv(q)') /\ (\A m \in Names : MachineInv(m)')
    BY DEF IInv, RecordInv, MachineInv, Live, Inventory
  <2>2. ASSUME NEW m \in Names, m = call[h].name, child[m] = "alive", owner[m] = call[h].runner
        PROVE  FALSE
    BY <2>2 DEF IInv, OneWriterPerRunner, InstanceLockedBy, BoundSteps
  <2> QED BY <2>1, <2>2 DEF Settled
<1> QED BY <1>1, <1>2, Locality

(* The steps that only look and move on.                                   *)
LEMMA LookingSteps ==
    ASSUME TypeOK, TypeOK', IInv, NEW h \in Helpers,
           \/ LockTemplate(h) \/ TemplateTimeout(h) \/ Validate(h) \/ Wait(h)
           \/ CheckStopped(h) \/ Observe(h) \/ Owned(h) \/ Confirm(h)
           \/ Uncertain(h) \/ ConfirmName(h)
    PROVE  IInv'
<1> USE DEF LockTemplate, TemplateTimeout, Validate, Wait, CheckStopped, Observe,
            Owned, Confirm, Uncertain, ConfirmName
<1>1. CASE Return(h)
  <2>1. pc[h] # "idle" /\ UNCHANGED <<registryVars, orbVars>>
    OBVIOUS
  <2> QED BY <1>1, <2>1, QuietReturn DEF orbVars, machineVars
<1>2. CASE ~Return(h)
  <2>1. /\ pc[h] \in LockedSteps
        /\ UNCHANGED <<registryVars, orbVars, call>>
        /\ pc[h] \in BoundSteps /\ child[call[h].name] # "alive"
    BY <1>2, Own DEF LockedSteps, CleanupSteps, CreateSteps, CloneSteps, TargetSteps, BoundSteps, Goto
  <2>2. PICK step \in LockedSteps : pc' = [pc EXCEPT ![h] = step]
                                   /\ (step \in PreCloneSteps => pc[h] \in PreCloneSteps)
    BY <1>2 DEF LockedSteps, CleanupSteps, CreateSteps, CloneSteps, TargetSteps, PreCloneSteps, Goto
  <2>3. HelperInv(h)'
    <3>1. HelperInv(h) /\ RecordInv(call[h].runner) /\ MachineInv(call[h].name)
      BY <2>1, Own
    <3>2. NeverCloned(h) => NeverCloned(h)'
      BY <2>1, <2>2 DEF NeverCloned, TypeOK, HelperTypes, registryVars, orbVars, PreCloneSteps
    <3> USE <1>2, <2>1, <3>1, <3>2 DEF HelperInv, TypeOK, HelperTypes, Goto,
          registryVars, orbVars, machineVars, LockedSteps, CleanupSteps,
          CreateSteps, CloneSteps, TargetSteps, BoundSteps, ReservedSteps,
          PreCloneSteps, MachineSteps
    <3>3. CASE LockTemplate(h)
      BY <3>3
    <3>4. CASE Validate(h)
      BY <3>4
    <3>5. CASE Wait(h)
      BY <3>5
    <3>6. CASE CheckStopped(h)
      <4>1. pc[h] = "checkStopped" /\ pc'[h] \in {"settings", "saveDeleting"} /\ call' = call
        BY <1>2, <3>6 DEF Goto
      <4> QED BY <3>6, <4>1
    <3>7. CASE Observe(h)
      <4>1. pc[h] = "observe" /\ pc'[h] \in {"saveActive", "saveDeleting"} /\ call' = call
        BY <1>2, <3>7 DEF Goto
      <4> QED BY <3>7, <4>1
    <3>8. CASE Owned(h)
      BY <3>8
    <3>9. CASE Confirm(h)
      <4>1. pc[h] = "confirm" /\ pc'[h] \in {"clear"} /\ call' = call
        BY <1>2, <3>9 DEF Goto
      <4>2. pc'[h] = "clear" => call[h].name \notin Inventory
        BY <1>2, <2>1, <3>1, <3>9, <4>1
      <4>3. call[h].name \notin backend
        <5> DEFINE rec == records[call[h].runner]
        <5>1. /\ rec.id = call[h].name /\ rec.name = call[h].name
              /\ rec # NoRecord /\ call[h].name \in Names
          BY <2>1, <4>1, Own
        <5>2. rec.phase # "reserved"
          BY ONLY <3>1, <5>1, LifecycleAssumption
             DEF RecordInv, LifecycleAssumption
        <5>3. machine[call[h].name] # "absent"
          BY ONLY <3>1, <5>1, <5>2 DEF RecordInv
        <5> QED BY ONLY <3>1, <5>3 DEF MachineInv
      <4>4. ~Live(call[h].name)
        BY <2>1, <4>1, <4>2, <4>3 DEF Live
      <4> QED BY <4>1, <4>4 DEF Live, Inventory
    <3>10. CASE Uncertain(h)
      <4>1. call[h].name \notin backend /\ child[call[h].name] # "alive"
        <5>1. CASE call[h].op = "release"
          BY <5>1 DEF NeverCloned
        <5>2. CASE call[h].runner \notin intents
          BY <3>10, <5>2, Own DEF RecordInv, Live
        <5> QED BY <3>10, <5>1, <5>2 DEF Return
      <4> QED BY <3>10, <4>1
    <3>11. CASE ConfirmName(h)
      <4>1. pc[h] = "confirmName" /\ pc'[h] \in {"clear"} /\ call' = call
        BY <1>2, <3>11 DEF Goto
      <4>2. pc'[h] = "clear" => call[h].name \notin Inventory
        BY <1>2, <2>1, <3>1, <3>11, <4>1
      <4>3. call[h].name \notin backend
        BY <3>1, <4>1
      <4>4. ~Live(call[h].name)
        BY <2>1, <4>1, <4>2, <4>3 DEF Live
      <4> QED BY <4>1, <4>4 DEF Live, Inventory
    <3> QED BY <3>3, <3>4, <3>5, <3>6, <3>7, <3>8, <3>9, <3>10, <3>11
  <2> QED BY <2>1, <2>2, <2>3, QuietGoto DEF TypeOK, HelperTypes, orbVars, machineVars
<1> QED BY <1>1, <1>2

(* The steps that learn the record or the machine and move on.             *)
LEMMA LearningSteps ==
    ASSUME TypeOK, TypeOK', IInv, NEW h \in Helpers,
           Recheck(h) \/ Identify(h) \/ Adopt(h)
    PROVE  IInv'
<1> USE DEF Recheck, Identify, Adopt
<1>1. CASE Return(h)
  <2>1. pc[h] # "idle" /\ UNCHANGED <<registryVars, orbVars>>
    OBVIOUS
  <2> QED BY <1>1, <2>1, QuietReturn DEF orbVars, machineVars
<1>2. CASE ~Return(h)
  <2> USE DEF LockedSteps, CleanupSteps, CreateSteps, CloneSteps, TargetSteps,
              BoundSteps, ReservedSteps, PreCloneSteps, MachineSteps
  <2>1. /\ pc[h] \in LockedSteps \ PreCloneSteps
        /\ UNCHANGED <<registryVars, orbVars>>
        /\ pc[h] \in BoundSteps => child[call[h].name] # "alive"
    BY <1>2, Own
  <2>2. PICK n, i \in Names \cup {NoName} :
          /\ n = call[h].name
          /\ Learn(h, n, i)
          /\ i \in {call[h].name, records[call[h].runner].id}
    <3>1. records[call[h].runner].id \in Names \cup {NoName} /\ call[h].name \in Names \cup {NoName}
      BY <2>1, Own DEF TypeOK, RegistryTypes, HelperTypes, Records, Calls
    <3> QED BY <1>2, <3>1
  <2>3. /\ call'[h].op = call[h].op /\ call'[h].runner = call[h].runner
        /\ call'[h].name = call[h].name /\ call'[h].id = i
        /\ \A g \in Helpers : g # h => call'[g] = call[g]
    BY <2>2 DEF Learn, TypeOK, HelperTypes
  <2>4. NeverCloned(h) => NeverCloned(h)'
    BY <1>2, <2>1, <2>3 DEF NeverCloned, registryVars, orbVars, machineVars, TypeOK, HelperTypes, AfterRecheck
  <2>5. HelperInv(h) /\ RecordInv(call[h].runner)
    BY <2>1, Own
  <2> USE <2>3, <2>4, <2>5 DEF HelperInv, registryVars, orbVars, machineVars, TypeOK, HelperTypes
  <2>6. ASSUME Recheck(h)
        PROVE  /\ HelperInv(h)'
               /\ \E step \in LockedSteps \ PreCloneSteps : pc' = [pc EXCEPT ![h] = step]
    <3> DEFINE rec == records[call[h].runner]
    <3>1. SameTarget(h) /\ Admissible(h) /\ pc' = [pc EXCEPT ![h] = AfterRecheck(h)]
      BY <1>2, <2>6
    <3>2. rec.name = call[h].name /\ rec # NoRecord
      BY <3>1 DEF SameTarget, Find, Registered
    <3>3. rec.name \in Names /\ rec.phase \in Phases
          /\ (rec.phase = "reserved" => rec.id = NoName)
          /\ (rec.phase # "reserved" => rec.id = rec.name)
      BY <3>2 DEF RecordInv
    <3>4. call'[h].id = rec.id
      BY <1>2, <2>6 DEF Learn
    <3>5. call[h].op \in Ops \ {"create"}
      BY <2>6 DEF Calls
    <3>6. CASE AfterRecheck(h) = "uncertain" /\ call[h].op \in {"delete", "release"} /\ rec.id = NoName
      BY <2>1, <3>1, <3>2, <3>3, <3>4, <3>6, ZenonT(30)
    <3>7. CASE AfterRecheck(h) = "adopt" /\ rec.phase = "reserved"
      BY <2>1, <3>1, <3>2, <3>3, <3>4, <3>7, ZenonT(30)
    <3>8. CASE AfterRecheck(h) \in {"saveDeleting", "power"} /\ rec.id # NoName
      <4>1. rec.id = call[h].name /\ call'[h].id = call[h].name
        BY <3>2, <3>3, <3>4, <3>8
      <4>2. pc'[h] \in {"saveDeleting", "power"}
        BY <3>1, <3>8
      <4>3. HelperInv(h)'
        BY <2>1, <3>2, <3>3, <4>1, <4>2
      <4> QED BY ONLY <3>1, <3>8, <4>3 DEF LockedSteps, CleanupSteps,
              CreateSteps, CloneSteps, TargetSteps, PreCloneSteps
    <3>9. \/ /\ AfterRecheck(h) = "uncertain" /\ rec.id = NoName
             /\ call[h].op \in {"delete", "release"}
          \/ AfterRecheck(h) = "adopt" /\ rec.phase = "reserved"
          \/ AfterRecheck(h) \in {"saveDeleting", "power"} /\ rec.id # NoName
      BY ONLY <3>1, <3>5 DEF Ops, AfterRecheck, Admissible
    <3> QED BY ONLY <3>6, <3>7, <3>8, <3>9
  <2>7. ASSUME Identify(h)
        PROVE  /\ HelperInv(h)'
               /\ \E step \in LockedSteps \ PreCloneSteps : pc' = [pc EXCEPT ![h] = step]
    <3>1. /\ pc[h] = "identify" /\ pc' = [pc EXCEPT ![h] = "saveCreated"]
          /\ call[h].name \in Inventory /\ Learn(h, call[h].name, call[h].name)
      BY ONLY <1>2, <2>7 DEF Identify
    <3>2. machine[call[h].name] # "absent"
      BY ONLY <3>1 DEF Inventory
    <3>3. call'[h].id = call[h].name
      BY ONLY TypeOK, h \in Helpers, <3>1 DEF TypeOK, HelperTypes, Learn
    <3>4. pc'[h] = "saveCreated" /\ call[h].name \in Names
          /\ records[call[h].runner].name = call[h].name
      <4>1. pc'[h] = "saveCreated"
        BY ONLY TypeOK, h \in Helpers, <3>1 DEF TypeOK, HelperTypes
      <4>2. pc[h] \in LockedSteps /\ pc[h] \in BoundSteps
        BY ONLY <3>1 DEF LockedSteps, CleanupSteps, CreateSteps, CloneSteps,
           TargetSteps, BoundSteps
      <4>3. /\ call[h].name \in Names
            /\ records[call[h].runner].name = call[h].name
        BY ONLY TypeOK, IInv, h \in Helpers, <4>2, Own
      <4> QED BY ONLY <4>1, <4>3
    <3>5. HelperInv(h)'
      BY <2>1, <3>1, <3>2, <3>3, <3>4
    <3> QED BY <3>1, <3>5
  <2>8. ASSUME Adopt(h)
        PROVE  /\ HelperInv(h)'
               /\ \E step \in LockedSteps \ PreCloneSteps : pc' = [pc EXCEPT ![h] = step]
    <3>1. /\ pc[h] = "adopt" /\ pc' = [pc EXCEPT ![h] = "saveAdopted"]
          /\ call[h].name \in Inventory /\ Learn(h, call[h].name, call[h].name)
      BY ONLY <1>2, <2>8 DEF Adopt
    <3>2. machine[call[h].name] # "absent"
      BY ONLY <3>1 DEF Inventory
    <3>3. call'[h].id = call[h].name
      BY ONLY TypeOK, h \in Helpers, <3>1 DEF TypeOK, HelperTypes, Learn
    <3>4. pc'[h] = "saveAdopted" /\ call[h].name \in Names
          /\ records[call[h].runner].name = call[h].name
      <4>1. pc'[h] = "saveAdopted"
        BY ONLY TypeOK, h \in Helpers, <3>1 DEF TypeOK, HelperTypes
      <4>2. pc[h] \in LockedSteps /\ pc[h] \in BoundSteps
        BY ONLY <3>1 DEF LockedSteps, CleanupSteps, CreateSteps, CloneSteps,
           TargetSteps, BoundSteps
      <4>3. /\ call[h].name \in Names
            /\ records[call[h].runner].name = call[h].name
        BY ONLY TypeOK, IInv, h \in Helpers, <4>2, Own
      <4> QED BY ONLY <4>1, <4>3
    <3>5. HelperInv(h)'
      BY <2>1, <3>1, <3>2, <3>3, <3>4
    <3> QED BY <3>1, <3>5
  <2>9. PICK step \in LockedSteps \ PreCloneSteps : pc' = [pc EXCEPT ![h] = step]
    BY <2>6, <2>7, <2>8
  <2>10. HelperInv(h)'
    BY <2>6, <2>7, <2>8
  <2>11. call' = [call EXCEPT ![h] = call'[h]]
    BY <2>2 DEF Learn
  <2> QED BY <2>1, <2>3, <2>9, <2>10, <2>11, QuietGoto
<1> QED BY <1>1, <1>2

(* Registry transactions.                                                  *)
LEMMA SaveSteps ==
    ASSUME TypeOK, TypeOK', IInv, NEW h \in Helpers,
           \/ SaveCreated(h) \/ SaveBootstrapping(h) \/ SaveActive(h)
           \/ SaveDeleting(h) \/ SaveAdopted(h)
    PROVE  IInv'
<1> DEFINE r == call[h].runner
           n == call[h].name
<1> USE DEF LockedSteps, CleanupSteps, CreateSteps, CloneSteps, TargetSteps,
            BoundSteps, ReservedSteps, PreCloneSteps, MachineSteps
<1>1. /\ pc[h] \in {"saveCreated", "saveBootstrapping", "saveActive",
                    "saveDeleting", "saveAdopted"}
      /\ UNCHANGED <<intents, owner, orbVars>>
  BY DEF SaveCreated, SaveBootstrapping, SaveActive, SaveDeleting, SaveAdopted
<1>2. /\ r \in Runners /\ HelperInv(h) /\ RecordInv(r) /\ n \in Names
      /\ records[r].name = n /\ records[r] # NoRecord /\ owner[n] = r
      /\ MachineInv(n) /\ child[n] # "alive"
  BY <1>1, Own
<1>3. call[h].id = n /\ machine[n] # "absent" /\ n \notin backend
  BY <1>1, <1>2 DEF HelperInv, RecordInv, MachineInv, Phases
<1>4. PICK p \in Phases \ {"reserved"} :
        records' \in {records, [records EXCEPT ![r] = Record(n, n, p)]}
  BY <1>1, <1>3 DEF SaveCreated, SaveBootstrapping, SaveActive, SaveDeleting,
     SaveAdopted, Saved, SaveFailed, Local, Phases
<1>5. /\ records'[r].name = n /\ records'[r] # NoRecord
      /\ \A q \in Runners \ {r} : records'[q] = records[q]
      /\ records'[r] = records[r] \/ records'[r] = Record(n, n, p)
  BY <1>2, <1>4 DEF Record, NoRecord, TypeOK, RegistryTypes
<1>6. /\ \A g \in Helpers : g # h => pc'[g] = pc[g] /\ call'[g] = call[g]
      /\ \/ pc'[h] = "idle" /\ call'[h] = NoCall
         \/ /\ call'[h] = call[h]
            /\ pc'[h] \in {"clearAfterClone", "inject", "saveDeleting", "owned",
                          "clearAdopted"}
            /\ pc'[h] \in {"clearAfterClone", "inject"} => pc[h] \in CreateSteps
            /\ \/ records'[r].id = n
               \/ pc[h] = "saveBootstrapping" /\ pc'[h] = "saveDeleting"
            /\ pc'[h] = "owned" => records'[r].phase = "deleting"
  <2> USE <1>1, <1>2, <1>3, <1>5 DEF Goto, Return, TypeOK, HelperTypes, Saved, Local, Record, RegistryTypes
  <2>1. CASE SaveCreated(h)
    BY <2>1 DEF SaveCreated
  <2>2. CASE SaveBootstrapping(h)
    BY <2>2 DEF SaveBootstrapping
  <2>3. CASE SaveActive(h)
    BY <2>3 DEF SaveActive
  <2>4. CASE SaveDeleting(h)
    BY <2>4 DEF SaveDeleting
  <2>5. CASE SaveAdopted(h)
    BY <2>5 DEF SaveAdopted
  <2> QED BY <2>1, <2>2, <2>3, <2>4, <2>5
<1>7. Footprint(h)
  BY <1>1, <1>2, <1>5, <1>6 DEF Footprint, orbVars, machineVars
<1>8. Settled(h)
  <2>1. ASSUME NEW q \in Runners, q = r PROVE RecordInv(q)'
    <3>1. /\ records'[r].name = n /\ records'[r].phase \in Phases
          /\ records'[r].phase # "reserved" /\ records'[r].id = n
          \/ records'[r] = records[r]
      BY ONLY <1>5, p \in Phases \ {"reserved"} DEF Record
    <3>2. /\ owner' = owner /\ machine' = machine /\ child' = child
          /\ backend' = backend /\ intents' = intents
      BY <1>1 DEF orbVars, machineVars
    <3>3. CASE records'[r] = records[r]
      BY ONLY <1>2, <2>1, <3>2, <3>3 DEF RecordInv, Live, Inventory
    <3>4. CASE records'[r].name = n /\ records'[r].phase \in Phases
               /\ records'[r].phase # "reserved" /\ records'[r].id = n
      BY ONLY <1>2, <1>3, <1>5, <2>1, <3>2, <3>4 DEF RecordInv
    <3> QED BY <3>1, <3>3, <3>4
  <2>2. ASSUME NEW m \in Names, m = n PROVE MachineInv(m)' /\ child'[m] # "alive"
    BY <1>1, <1>2, <1>3, <1>5, <2>2 DEF MachineInv, Live, Inventory, orbVars, machineVars
  <2>3. HelperInv(h)'
    <3>1. NeverCloned(h) => NeverCloned(h)' \/ pc'[h] = "idle"
      BY <1>1, <1>6 DEF NeverCloned, orbVars
    <3>2. pc[h] = "saveBootstrapping" => records'[r].id = n
      BY <1>2, <1>3, <1>5 DEF HelperInv, Record
    <3>3. CASE pc'[h] = "idle" /\ call'[h] = NoCall
      BY <3>3 DEF HelperInv, NoCall, NewCall
    <3>4. CASE /\ call'[h] = call[h]
               /\ pc'[h] \in {"clearAfterClone", "inject", "saveDeleting", "owned",
                             "clearAdopted"}
               /\ pc'[h] \in {"clearAfterClone", "inject"} => pc[h] \in CreateSteps
               /\ records'[r].id = n
               /\ pc'[h] = "owned" => records'[r].phase = "deleting"
      BY <1>1, <1>2, <1>3, <1>5, <3>1, <3>4 DEF HelperInv
    <3> QED BY <1>6, <3>2, <3>3, <3>4
  <2> QED BY <2>1, <2>2, <2>3 DEF Settled
<1> QED BY <1>1, <1>7, <1>8, Locality

LEMMA RemoveSteps ==
    ASSUME TypeOK, TypeOK', IInv, NEW h \in Helpers, Undo(h) \/ Remove(h)
    PROVE  IInv'
<1> DEFINE r == call[h].runner
           n == call[h].name
<1> USE DEF LockedSteps, CleanupSteps, CreateSteps, CloneSteps, TargetSteps,
            BoundSteps, ReservedSteps, PreCloneSteps, MachineSteps
<1>1. /\ pc[h] \in {"undo", "remove"}
      /\ UNCHANGED <<intents, owner, orbVars>>
      /\ records' \in {records, [records EXCEPT ![r] = NoRecord]}
      /\ Return(h)
  BY DEF Undo, Remove, Removed, RemoveFailed
<1>2. /\ r \in Runners /\ HelperInv(h) /\ RecordInv(r) /\ n \in Names
      /\ records[r].name = n /\ records[r] # NoRecord /\ owner[n] = r
      /\ MachineInv(n)
  BY <1>1, Own
<1>3. r \notin intents /\ ~Live(n)
  BY <1>1, <1>2 DEF HelperInv, MachineInv, Live, Inventory
<1>4. /\ \A g \in Helpers : g # h => pc'[g] = pc[g] /\ call'[g] = call[g]
      /\ pc'[h] = "idle" /\ call'[h] = NoCall
      /\ \A q \in Runners \ {r} : records'[q] = records[q]
      /\ records'[r] \in {records[r], NoRecord}
  BY <1>1, <1>2 DEF Return, TypeOK, HelperTypes, RegistryTypes
<1>5. Footprint(h)
  BY <1>1, <1>2, <1>4 DEF Footprint, orbVars, machineVars
<1>6. Settled(h)
  <2>1. ASSUME NEW q \in Runners, q = r PROVE RecordInv(q)'
    BY <1>1, <1>2, <1>3, <1>4, <2>1 DEF RecordInv, Live, Inventory, orbVars, machineVars
  <2>2. ASSUME NEW m \in Names, m = n PROVE MachineInv(m)' /\ child'[m] # "alive"
    BY <1>1, <1>2, <1>3, <2>2 DEF MachineInv, Live, Inventory, orbVars, machineVars
  <2>3. HelperInv(h)'
    BY <1>4 DEF HelperInv, NoCall, NewCall
  <2> QED BY <2>1, <2>2, <2>3 DEF Settled
<1> QED BY <1>1, <1>5, <1>6, Locality

(* Writes to the intent file.                                              *)
LEMMA IntentSteps ==
    ASSUME TypeOK, TypeOK', IInv, NEW h \in Helpers,
           \/ MarkIntent(h) \/ Unmark(h) \/ ClearAfterClone(h)
           \/ Clear(h) \/ ClearAdopted(h)
    PROVE  IInv'
<1> DEFINE r == call[h].runner
           n == call[h].name
<1> USE DEF LockedSteps, CleanupSteps, CreateSteps, CloneSteps, TargetSteps,
            BoundSteps, ReservedSteps, PreCloneSteps, MachineSteps
<1>1. /\ pc[h] \in {"markIntent", "unmark", "clearAfterClone", "clear",
                    "clearAdopted"}
      /\ UNCHANGED <<records, owner, orbVars>>
      /\ intents' \in {intents, intents \cup {r}, intents \ {r}}
      /\ pc[h] # "markIntent" => intents' \in {intents, intents \ {r}}
      /\ pc[h] = "markIntent" => intents' \in {intents, intents \cup {r}}
  BY DEF MarkIntent, Unmark, ClearAfterClone, Clear, ClearAdopted,
     IntentCleared, IntentClearFailed
<1>2. /\ r \in Runners /\ HelperInv(h) /\ RecordInv(r) /\ n \in Names
      /\ records[r].name = n /\ records[r] # NoRecord /\ owner[n] = r
      /\ MachineInv(n) /\ child[n] # "alive"
  BY <1>1, Own
<1>3. records[r].phase = "reserved" /\ intents' # intents \cup {r} => ~Live(n)
  BY <1>1, <1>2 DEF HelperInv, MachineInv, Live, Inventory, RecordInv
<1>4. /\ \A g \in Helpers : g # h => pc'[g] = pc[g] /\ call'[g] = call[g]
      /\ \/ pc'[h] = "idle" /\ call'[h] = NoCall
         \/ /\ call'[h] = call[h]
            /\ \/ pc[h] = "markIntent" /\ pc'[h] = "spawn" /\ r \in intents'
               \/ pc[h] = "unmark" /\ pc'[h] = "undo" /\ r \notin intents'
               \/ pc[h] = "clearAfterClone" /\ pc'[h] \in {"checkStopped", "saveDeleting"}
               \/ pc[h] = "clear" /\ pc'[h] = "remove" /\ r \notin intents'
  <2> USE <1>2 DEF IntentCleared, IntentClearFailed, Goto, Return, TypeOK,
        HelperTypes
  <2>1. CASE MarkIntent(h)
    BY <2>1 DEF MarkIntent
  <2>2. CASE Unmark(h)
    BY <2>2 DEF Unmark
  <2>3. CASE ClearAfterClone(h)
    BY <2>3 DEF ClearAfterClone
  <2>4. CASE Clear(h)
    BY <2>4 DEF Clear
  <2>5. CASE ClearAdopted(h)
    BY <2>5 DEF ClearAdopted
  <2> QED BY <2>1, <2>2, <2>3, <2>4, <2>5
<1>5. \A q \in Runners \ {r} : q \in intents' <=> q \in intents
  BY <1>1
<1>6. Footprint(h)
  BY <1>1, <1>2, <1>4, <1>5 DEF Footprint, orbVars, machineVars
<1>7. Settled(h)
  <2>1. ASSUME NEW q \in Runners, q = r PROVE RecordInv(q)'
    BY <1>1, <1>2, <1>3, <2>1 DEF RecordInv, Live, Inventory, orbVars, machineVars
  <2>2. ASSUME NEW m \in Names, m = n PROVE MachineInv(m)' /\ child'[m] # "alive"
    BY <1>1, <1>2, <2>2 DEF MachineInv, Live, Inventory, orbVars, machineVars
  <2>3. HelperInv(h)'
    <3>1. CASE pc'[h] = "idle" /\ call'[h] = NoCall
      BY <3>1 DEF HelperInv, NoCall, NewCall
    <3>2. CASE /\ call'[h] = call[h]
               /\ \/ pc[h] = "markIntent" /\ pc'[h] = "spawn" /\ r \in intents'
                  \/ pc[h] = "unmark" /\ pc'[h] = "undo" /\ r \notin intents'
                  \/ pc[h] = "clearAfterClone" /\ pc'[h] \in {"checkStopped", "saveDeleting"}
                  \/ pc[h] = "clear" /\ pc'[h] = "remove" /\ r \notin intents'
      <4>1. NeverCloned(h) => NeverCloned(h)'
        BY <1>1, <1>4, <3>2 DEF NeverCloned, orbVars
      <4> QED BY <1>1, <1>2, <3>2, <4>1 DEF HelperInv, Live, Inventory, orbVars, machineVars
    <3> QED BY <1>4, <3>1, <3>2
  <2> QED BY <2>1, <2>2, <2>3 DEF Settled
<1> QED BY <1>1, <1>6, <1>7, Locality

(* Configuring and bootstrapping a machine, which IInv does not look at.   *)
LEMMA SettingSteps ==
    ASSUME TypeOK, TypeOK', IInv, NEW h \in Helpers,
           ApplySettings(h) \/ InjectBootstrap(h)
    PROVE  IInv'
<1> USE DEF LockedSteps, CleanupSteps, CreateSteps, CloneSteps, TargetSteps,
            BoundSteps, ReservedSteps, PreCloneSteps, MachineSteps
<1>1. /\ pc[h] \in {"settings", "inject"}
      /\ UNCHANGED <<registryVars, child, backend, machine, call>>
  BY DEF ApplySettings, InjectBootstrap, MachineGone, machineVars, Goto
<1>2. PICK step \in {"boot", "observe", "saveDeleting"} :
        pc' = [pc EXCEPT ![h] = step]
  BY DEF ApplySettings, InjectBootstrap, MachineGone, Goto
<1>3. HelperInv(h)'
  <2>1. NeverCloned(h) => NeverCloned(h)'
    BY <1>1, <1>2 DEF NeverCloned, TypeOK, HelperTypes
  <2> QED BY <1>1, <1>2, <2>1, Own, SMTT(30)
          DEF HelperInv, TypeOK, HelperTypes, registryVars
<1> QED BY <1>1, <1>2, <1>3, Own, QuietGoto, ZenonT(30) DEF TypeOK, HelperTypes

(* Starting, stopping and deleting a machine.                              *)
LEMMA PowerSteps ==
    ASSUME TypeOK, TypeOK', IInv, NEW h \in Helpers,
           Boot(h) \/ Lift(h) \/ Destroy(h) \/ Power(h)
    PROVE  IInv'
<1> DEFINE r == call[h].runner
           n == call[h].name
<1> USE DEF LockedSteps, CleanupSteps, CreateSteps, CloneSteps, TargetSteps,
            BoundSteps, ReservedSteps, PreCloneSteps, MachineSteps
<1>1. /\ pc[h] \in {"boot", "lift", "destroy", "power"}
      /\ UNCHANGED <<registryVars, child, backend>>
  BY DEF Boot, Lift, Destroy, Power
<1>2. /\ r \in Runners /\ HelperInv(h) /\ RecordInv(r) /\ n \in Names
      /\ records[r].name = n /\ records[r].id = n /\ records[r] # NoRecord
      /\ owner[n] = r /\ MachineInv(n) /\ child[n] # "alive" /\ call[h].id = n
      /\ machine[n] # "absent" /\ n \notin backend
  <2>1. /\ r \in Runners /\ HelperInv(h) /\ RecordInv(r) /\ n \in Names
        /\ records[r].name = n /\ records[r] # NoRecord
        /\ owner[n] = r /\ MachineInv(n) /\ child[n] # "alive"
    BY <1>1, Own
  <2> QED BY <1>1, <2>1 DEF HelperInv, RecordInv, MachineInv
<1>3. /\ \A m \in Names \ {n} : machine'[m] = machine[m]
      /\ machine'[n] # "absent"
      /\ machine'[n] \in {"stopped", "running"} =>
            machine[n] \in {"stopped", "running"}
  <2> USE <1>2 DEF Inventory, TypeOK, OrbTypes
  <2>1. CASE Boot(h)
    BY <2>1 DEF Boot, MachineGone, machineVars
  <2>2. CASE Destroy(h)
    BY <2>2 DEF Destroy
  <2>3. CASE Power(h)
    BY <2>3 DEF Power
  <2>4. CASE Lift(h)
    BY <2>4 DEF Lift
  <2> QED BY <2>1, <2>2, <2>3, <2>4
<1>4. /\ \A g \in Helpers : g # h => pc'[g] = pc[g] /\ call'[g] = call[g]
      /\ \/ pc'[h] = "idle" /\ call'[h] = NoCall
         \/ /\ call'[h] = call[h]
            /\ \/ pc[h] = "boot" /\ pc'[h] \in {"saveBootstrapping", "saveDeleting"}
               \/ pc[h] = "lift" /\ pc'[h] \in {"confirm", "destroy"}
               \/ pc[h] = "destroy" /\ pc'[h] = "confirm"
  BY DEF Boot, Lift, Destroy, Power, MachineGone, Goto, Return, TypeOK,
     HelperTypes
<1>5. Footprint(h)
  BY <1>1, <1>2, <1>3, <1>4 DEF Footprint, registryVars
<1>6. Settled(h)
  <2>1. ASSUME NEW q \in Runners, q = r PROVE RecordInv(q)'
    BY <1>1, <1>2, <1>3, <2>1 DEF RecordInv, Live, Inventory, registryVars
  <2>2. ASSUME NEW m \in Names, m = n PROVE MachineInv(m)' /\ child'[m] # "alive"
    BY <1>1, <1>2, <1>3, <2>2 DEF MachineInv, Live, Inventory, registryVars
  <2>3. HelperInv(h)'
    <3>1. CASE pc'[h] = "idle" /\ call'[h] = NoCall
      BY <3>1 DEF HelperInv, NoCall, NewCall
    <3>2. CASE call'[h] = call[h] /\ pc'[h] # "idle"
      <4>1. NeverCloned(h) => NeverCloned(h)'
        BY <1>1, <1>4, <3>2 DEF NeverCloned
      <4> QED BY <1>1, <1>2, <1>4, <3>2, <4>1 DEF HelperInv, registryVars
    <3> QED BY <1>4, <3>1, <3>2
  <2> QED BY <2>1, <2>2, <2>3 DEF Settled
<1> QED BY <1>1, <1>5, <1>6, Locality

(* Starting the clone.                                                     *)
LEMMA SpawnStep ==
    ASSUME TypeOK, TypeOK', IInv, NEW h \in Helpers, Spawn(h)
    PROVE  IInv'
<1> DEFINE r == call[h].runner
           n == call[h].name
<1> USE DEF LockedSteps, CleanupSteps, CreateSteps, CloneSteps, TargetSteps,
            BoundSteps, ReservedSteps, PreCloneSteps, MachineSteps
<1>1. pc[h] = "spawn" /\ UNCHANGED <<registryVars, machineVars, call>>
  BY DEF Spawn, Goto
<1>2. /\ r \in Runners /\ HelperInv(h) /\ RecordInv(r) /\ n \in Names
      /\ records[r].name = n /\ records[r] # NoRecord /\ owner[n] = r
      /\ MachineInv(n) /\ child[n] = "none" /\ r \in intents
      /\ records[r].phase = "reserved" /\ call[h].op = "create"
  <2>1. /\ r \in Runners /\ HelperInv(h) /\ RecordInv(r) /\ n \in Names
        /\ records[r].name = n /\ records[r] # NoRecord
        /\ owner[n] = r /\ MachineInv(n)
    BY <1>1, Own
  <2> QED BY <1>1, <2>1 DEF HelperInv
<1>3. /\ \A m \in Names \ {n} : /\ child'[m] = child[m]
                                /\ m \in backend' <=> m \in backend
      /\ \A g \in Helpers : g # h => pc'[g] = pc[g]
      /\ \/ /\ pc'[h] = "wait" /\ child'[n] = "alive" /\ n \in backend'
         \/ /\ pc'[h] = "unmark" /\ child'[n] = "none"
            /\ n \in backend' <=> n \in backend
  BY <1>2 DEF Spawn, Goto, TypeOK, OrbTypes, HelperTypes
<1>4. Footprint(h)
  BY <1>1, <1>2, <1>3 DEF Footprint, registryVars, machineVars
<1>5. Settled(h)
  <2>1. ASSUME NEW q \in Runners, q = r PROVE RecordInv(q)'
    BY <1>1, <1>2, <2>1 DEF RecordInv, registryVars, machineVars
  <2>2. ASSUME NEW m \in Names, m = n
        PROVE  MachineInv(m)' /\ (child'[m] = "alive" => pc'[h] = "wait")
    BY <1>1, <1>2, <1>3, <2>2 DEF MachineInv, Live, Inventory, registryVars,
       machineVars
  <2>3. HelperInv(h)'
    BY <1>1, <1>2, <1>3 DEF HelperInv, registryVars, machineVars
  <2> QED BY <1>1, <2>1, <2>2, <2>3 DEF Settled
<1> QED BY <1>1, <1>4, <1>5, Locality

(* Reserving a name and capacity.                                          *)
LEMMA ReserveStep ==
    ASSUME TypeOK, TypeOK', IInv, NEW h \in Helpers, Reserve(h)
    PROVE  IInv'
<1> DEFINE r == call[h].runner
<1> USE DEF LockedSteps, CleanupSteps, CreateSteps, CloneSteps, TargetSteps,
            BoundSteps, ReservedSteps, PreCloneSteps, MachineSteps
<1>1. pc[h] = "reserve" /\ UNCHANGED <<intents, orbVars>>
  BY DEF Reserve
<1>2. r \in Runners /\ HelperInv(h) /\ RecordInv(r) /\ call[h].op = "create"
  <2>1. r \in Runners /\ HelperInv(h) /\ RecordInv(r)
    BY <1>1, Own
  <2> QED BY <1>1, <2>1 DEF HelperInv
<1>3. CASE Return(h) /\ UNCHANGED <<records, owner>>
  BY <1>1, <1>3, QuietReturn DEF registryVars, orbVars, machineVars
<1>4. CASE ~(Return(h) /\ UNCHANGED <<records, owner>>)
  <2>1. PICK n \in Unused :
          /\ records[r] = NoRecord
          /\ records' = [records EXCEPT ![r] = Record(n, NoName, "reserved")]
          /\ owner' = [owner EXCEPT ![n] = r]
          /\ \/ pc' = [pc EXCEPT ![h] = "lockTemplate"] /\ Learn(h, n, NoName)
             \/ Return(h)
    BY <1>4 DEF Reserve
  <2>2. /\ n \in Names /\ owner[n] = NoRunner /\ owner'[n] = r
        /\ \A m \in Names \ {n} : owner'[m] = owner[m]
        /\ records'[r] = Record(n, NoName, "reserved")
        /\ \A q \in Runners \ {r} : records'[q] = records[q]
    BY <1>2, <2>1 DEF Unused, TypeOK, RegistryTypes
  <2>3. MachineInv(n) /\ child[n] = "none" /\ ~Live(n) /\ r \notin intents
    BY <1>2, <2>1, <2>2 DEF IInv, RecordInv, MachineInv, Live, Inventory, TypeOK,
       OrbTypes
  <2>4. /\ \A g \in Helpers : g # h => pc'[g] = pc[g] /\ call'[g] = call[g]
        /\ \/ pc'[h] = "idle" /\ call'[h] = NoCall
           \/ /\ pc'[h] = "lockTemplate"
              /\ call'[h].op = "create" /\ call'[h].runner = r
              /\ call'[h].name = n /\ call'[h].id = NoName
    BY <1>2, <2>1 DEF Learn, Return, TypeOK, HelperTypes
  <2>5. Footprint(h)
    BY <1>1, <1>2, <2>1, <2>2, <2>4 DEF Footprint, orbVars, machineVars
  <2>6. Settled(h)
    <3>1. ASSUME NEW q \in Runners, q = r PROVE RecordInv(q)'
      BY <1>1, <2>2, <2>3, <3>1 DEF RecordInv, Live, Inventory, Record,
         NoRecord, Phases, orbVars, machineVars
    <3>2. ASSUME NEW m \in Names, m = call[h].name
          PROVE  /\ MachineInv(m)'
                 /\ child'[m] = "alive" => owner'[m] # r
      <4>1. MachineInv(m) /\ (child[m] = "alive" => owner[m] # r)
        BY <1>1, <1>2 DEF IInv, OneWriterPerRunner, InstanceLockedBy
      <4>2. CASE m = n
        BY <1>1, <2>3, <4>2 DEF MachineInv, Live, Inventory, orbVars, machineVars
      <4>3. CASE m # n
        <5>1. Live(m) => owner[m] # r
          BY <2>1, <4>1 DEF MachineInv, NoRecord, Record
        <5>2. Live(m) => owner[m] \in Runners
          BY <4>1 DEF MachineInv, Live, Inventory, TypeOK, RegistryTypes
        <5> QED BY <1>1, <2>2, <4>1, <4>3, <5>1, <5>2 DEF MachineInv, Live,
                   Inventory, orbVars, machineVars
      <4> QED BY <4>2, <4>3
    <3>3. HelperInv(h)'
      BY <1>1, <1>2, <2>2, <2>3, <2>4 DEF HelperInv, Record, NoCall, NewCall,
         orbVars
    <3> QED BY <3>1, <3>2, <3>3 DEF Settled
  <2> QED BY <1>1, <2>5, <2>6, Locality
<1> QED BY <1>3, <1>4

(* Failed reads, and deaths.                                               *)
LEMMA FailureSteps ==
    ASSUME TypeOK, TypeOK', IInv, NEW h \in Helpers,
           ReadFails(h) \/ KillHelper(h) \/ LockRefused(h)
    PROVE  IInv'
<1>1. UNCHANGED <<registryVars, orbVars>>
  BY DEF ReadFails, KillHelper, LockRefused
<1>2. CASE Return(h)
  <2>1. pc[h] # "idle"
    BY DEF ReadFails, KillHelper, LockRefused
  <2> QED BY <1>1, <1>2, <2>1, QuietReturn DEF orbVars, machineVars
<1>3. CASE pc[h] \in {"checkStopped", "observe"} /\ Goto(h, "saveDeleting")
  <2> USE DEF LockedSteps, CleanupSteps, CreateSteps, CloneSteps, TargetSteps,
              BoundSteps, ReservedSteps, PreCloneSteps, MachineSteps
  <2>1. HelperInv(h)'
    <3>1. NeverCloned(h) => NeverCloned(h)'
      BY <1>1, <1>3 DEF NeverCloned, Goto, TypeOK, HelperTypes, orbVars
    <3> QED BY <1>1, <1>3, <3>1, Own DEF HelperInv, Goto, TypeOK, HelperTypes,
               registryVars, orbVars, machineVars
  <2> QED BY <1>1, <1>3, <2>1, Own, QuietGoto, ZenonT(30)
          DEF Goto, TypeOK, HelperTypes, orbVars, machineVars
<1> QED BY <1>2, <1>3 DEF ReadFails, KillHelper, LockRefused

(* Steps that begin a call and take its lock, before the call owns         *)
(* anything.                                                               *)
LEMMA CallSteps ==
    ASSUME TypeOK, TypeOK', IInv, NEW h \in Helpers, Call(h)
    PROVE  IInv'
<1> USE DEF LockedSteps, CleanupSteps, CreateSteps, CloneSteps, TargetSteps,
            BoundSteps, ReservedSteps, PreCloneSteps, MachineSteps
<1>1. PICK o \in Ops, t \in Runners \cup Names, r \in Runners,
           n \in Names \cup {NoName} :
        /\ pc[h] = "idle" /\ pc' = [pc EXCEPT ![h] = "lock"]
        /\ call' = [call EXCEPT ![h] = NewCall(o, t, r, n)]
        /\ UNCHANGED <<registryVars, orbVars>>
        /\ o = "release" => /\ r \in Registered /\ n = records[r].name
                            /\ Inspected(r)
  <2>1. CASE \E r \in Runners : CallCreate(h, r)
    BY <2>1 DEF CallCreate, Ops
  <2>2. ASSUME NEW o \in Ops, NEW t \in Runners \cup Names, CallOn(h, o, t)
        PROVE  \E r \in Runners, n \in Names \cup {NoName} :
                 /\ pc[h] = "idle" /\ pc' = [pc EXCEPT ![h] = "lock"]
                 /\ call' = [call EXCEPT ![h] = NewCall(o, t, r, n)]
                 /\ UNCHANGED <<registryVars, orbVars>>
                 /\ o = "release" => /\ r \in Registered
                                     /\ n = records[r].name /\ Inspected(r)
    <3>1. PICK r \in Registered :
            /\ o = "release" => Inspected(r)
            /\ call' = [call EXCEPT ![h] = NewCall(o, t, r, records[r].name)]
      BY <2>2 DEF CallOn, Find
    <3>2. r \in Runners /\ records[r].name \in Names \cup {NoName}
      BY DEF Registered, TypeOK, RegistryTypes, Records
    <3> QED BY <2>2, <3>1, <3>2 DEF CallOn
  <2> QED BY <2>1, <2>2 DEF Call, Ops
<1>2. /\ \A g \in Helpers : g # h => pc'[g] = pc[g] /\ call'[g] = call[g]
      /\ pc'[h] = "lock" /\ call'[h].op = o /\ call'[h].runner = r
      /\ call'[h].name = n
  BY <1>1 DEF TypeOK, HelperTypes, NewCall
<1> USE DEF registryVars, orbVars, machineVars
<1>3. OneWriterPerRunner'
  BY <1>1, <1>2 DEF IInv, OneWriterPerRunner, InstanceLockedBy
<1>4. /\ (\A q \in Runners : RecordInv(q))'
      /\ (\A m \in Names : MachineInv(m))'
  BY <1>1 DEF IInv, RecordInv, MachineInv, Live, Inventory
<1>5. ASSUME NEW g \in Helpers, g # h PROVE HelperInv(g)'
  <2>1. HelperInv(g)
    BY DEF IInv
  <2>2. NeverCloned(g) => NeverCloned(g)'
    BY <1>1, <1>2, <1>5 DEF NeverCloned
  <2> QED BY <1>1, <1>2, <1>5, <2>1, <2>2 DEF HelperInv, Live, Inventory
<1>6. HelperInv(h)'
  <2>1. o = "release" => n \in Names /\ owner[n] = r /\ NeverCloned(h)'
    <3> SUFFICES ASSUME o = "release"
                 PROVE  n \in Names /\ owner[n] = r /\ NeverCloned(h)'
      OBVIOUS
    <3>1. n = records[r].name /\ Inspected(r) /\ n \in Names /\ owner[n] = r
      BY <1>1 DEF IInv, RecordInv, Registered
    <3>2. child[n] # "alive" /\ n \notin backend
      BY <3>1 DEF Inspected, InstanceLockFree, ChildOf, TypeOK, OrbTypes
    <3>3. ASSUME NEW g \in Helpers, pc[g] \in PreCloneSteps, call[g].name = n
          PROVE  FALSE
      <4>1. owner[n] = call[g].runner
        BY <3>3, Own
      <4> QED BY <3>1, <3>3, <4>1 DEF Inspected, InstanceLockFree,
                 InstanceLockedBy
    <3> QED BY <1>1, <1>2, <3>1, <3>2, <3>3 DEF NeverCloned
  <2> QED BY <1>1, <1>2, <2>1 DEF HelperInv, Ops
<1> QED BY <1>3, <1>4, <1>5, <1>6 DEF IInv

LEMMA LockStep ==
    ASSUME TypeOK, TypeOK', IInv, NEW h \in Helpers, LockInstance(h)
    PROVE  IInv'
<1> DEFINE r == call[h].runner
<1> USE DEF LockedSteps, CleanupSteps, CreateSteps, CloneSteps, TargetSteps,
            BoundSteps, ReservedSteps, PreCloneSteps, MachineSteps,
            registryVars, orbVars, machineVars
<1>1. /\ pc[h] = "lock" /\ InstanceLockFree(r)
      /\ UNCHANGED <<registryVars, orbVars, call>>
      /\ \A g \in Helpers : g # h => pc'[g] = pc[g]
      /\ pc'[h] = IF call[h].op = "create" THEN "reserve" ELSE "recheck"
  BY DEF LockInstance, Goto, TypeOK, HelperTypes
<1>2. OneWriterPerRunner'
  <2>1. ASSUME NEW f \in Helpers, NEW g \in Helpers,
               pc'[f] \in LockedSteps, pc'[g] \in LockedSteps,
               call[f].runner = call[g].runner
        PROVE  f = g
    BY <1>1, <2>1 DEF IInv, OneWriterPerRunner, InstanceLockedBy,
       InstanceLockFree
  <2>2. ASSUME NEW m \in Names, NEW g \in Helpers, child[m] = "alive",
               pc'[g] \in LockedSteps, call[g].runner = owner[m]
        PROVE  pc'[g] = "wait" /\ call[g].name = m
    <3>1. g # h
      BY <1>1, <2>2 DEF InstanceLockFree, ChildOf
    <3> QED BY <1>1, <2>2, <3>1 DEF IInv, OneWriterPerRunner, InstanceLockedBy
  <2> QED BY <1>1, <2>1, <2>2 DEF OneWriterPerRunner, InstanceLockedBy
<1>3. /\ (\A q \in Runners : RecordInv(q))'
      /\ (\A m \in Names : MachineInv(m))'
  BY <1>1 DEF IInv, RecordInv, MachineInv, Live, Inventory
<1>4. ASSUME NEW g \in Helpers PROVE HelperInv(g)'
  <2>1. HelperInv(g)
    BY DEF IInv
  <2>2. NeverCloned(g) => NeverCloned(g)'
    BY <1>1 DEF NeverCloned
  <2>3. CASE g = h
    BY <1>1, <2>1, <2>2, <2>3 DEF HelperInv
  <2>4. CASE g # h
    BY <1>1, <2>1, <2>2, <2>4 DEF HelperInv, Live, Inventory
  <2> QED BY <2>3, <2>4
<1> QED BY <1>2, <1>3, <1>4 DEF IInv

(* The steps of orbctl, its backend, the guests and the user.              *)
LEMMA OrbSteps ==
    ASSUME TypeOK, TypeOK', IInv, NEW n \in Names,
           \/ ChildSucceeds(n) \/ ChildFails(n) \/ BackendCopies(n)
           \/ BackendDrops(n) \/ GuestStops(n) \/ UserDeletes(n)
    PROVE  IInv'
<1> USE DEF registryVars, orbVars, machineVars
<1>0. /\ UNCHANGED <<registryVars, pc, call>>
      /\ \/ child' = child
         \/ /\ child[n] # "none"
            /\ \E c \in {"ok", "failed"} : child' = [child EXCEPT ![n] = c]
      /\ backend' \in {backend, backend \ {n}}
      /\ \/ machine' = machine
         \/ /\ n \in backend /\ n \notin backend'
            /\ machine' = [machine EXCEPT ![n] = "stopped"]
         \/ /\ machine[n] \in {"stopped", "running"}
            /\ \E x \in {"stopped", "deleted"} :
                  machine' = [machine EXCEPT ![n] = x]
  <2>1. CASE ChildSucceeds(n) \/ ChildFails(n)
    BY <2>1 DEF ChildSucceeds, ChildFails
  <2>2. CASE BackendCopies(n) \/ BackendDrops(n)
    BY <2>2 DEF BackendCopies, BackendDrops, IInv, MachineInv
  <2>3. CASE GuestStops(n) \/ UserDeletes(n)
    BY <2>3 DEF GuestStops, UserDeletes, Inventory
  <2> QED BY <2>1, <2>2, <2>3
<1>1. /\ UNCHANGED <<registryVars, pc, call>>
      /\ \A m \in Names \ {n} : /\ child'[m] = child[m]
                                /\ m \in backend' <=> m \in backend
                                /\ machine'[m] = machine[m]
      /\ child'[n] \in {child[n], "ok", "failed"}
      /\ child'[n] = "none" <=> child[n] = "none"
      /\ n \in backend' => n \in backend
      /\ machine[n] # "absent" => machine'[n] # "absent"
      /\ machine'[n] # "absent" =>
            machine[n] # "absent" \/ (n \in backend /\ n \notin backend')
      /\ machine'[n] \in {"stopped", "running"} =>
            machine[n] \in {"stopped", "running"} \/ n \in backend
      /\ machine'[n] = "running" => machine[n] = "running"
  <2>1. /\ UNCHANGED <<registryVars, pc, call>>
        /\ \A m \in Names \ {n} : m \in backend' <=> m \in backend
        /\ n \in backend' => n \in backend
    BY <1>0
  <2>2. /\ \A m \in Names \ {n} : child'[m] = child[m]
        /\ child'[n] \in {child[n], "ok", "failed"}
        /\ child'[n] = "none" <=> child[n] = "none"
    BY <1>0 DEF TypeOK, OrbTypes
  <2>3. /\ \A m \in Names \ {n} : machine'[m] = machine[m]
        /\ machine[n] # "absent" => machine'[n] # "absent"
        /\ machine'[n] # "absent" =>
              machine[n] # "absent" \/ (n \in backend /\ n \notin backend')
        /\ machine'[n] \in {"stopped", "running"} =>
              machine[n] \in {"stopped", "running"} \/ n \in backend
        /\ machine'[n] = "running" => machine[n] = "running"
    <3>1. machine \in [Names -> {"absent", "stopped", "running", "deleted"}]
      BY DEF TypeOK, OrbTypes
    <3>2. CASE machine' = machine
      BY ONLY <3>2
    <3>3. CASE /\ n \in backend /\ n \notin backend'
               /\ machine' = [machine EXCEPT ![n] = "stopped"]
      BY ONLY <3>1, <3>3
    <3>4. ASSUME NEW x \in {"stopped", "deleted"},
                 machine' = [machine EXCEPT ![n] = x],
                 machine[n] \in {"stopped", "running"}
          PROVE  /\ \A m \in Names \ {n} : machine'[m] = machine[m]
                 /\ machine'[n] \in {"stopped", "deleted"}
      BY ONLY <3>1, <3>4
    <3> QED BY <1>0, <3>2, <3>3, <3>4
  <2> QED BY <2>1, <2>2, <2>3
<1>2. MachineInv(n)
  BY DEF IInv
<1>3. OneWriterPerRunner'
  <2>1. \A m \in Names : child'[m] = "alive" => child[m] = "alive"
    BY <1>1
  <2> QED BY <1>1, <2>1 DEF IInv, OneWriterPerRunner, InstanceLockedBy
<1>4. ASSUME NEW m \in Names PROVE Live(m)' => Live(m)
  BY <1>1 DEF Live, Inventory
<1>5. ASSUME NEW m \in Names PROVE MachineInv(m)'
  <2>1. CASE m = n
    <3>1. n \in backend => machine[n] = "absent"
      BY <1>2 DEF MachineInv
    <3> QED BY <1>1, <1>2, <1>4, <2>1, <3>1 DEF MachineInv
  <2>2. CASE m # n
    BY <1>1, <1>4, <2>2 DEF IInv, MachineInv
  <2> QED BY <2>1, <2>2
<1>6. ASSUME NEW r \in Runners PROVE RecordInv(r)'
  <2>1. RecordInv(r)
    BY DEF IInv
  <2>2. CASE records[r] = NoRecord
    BY <1>1, <2>1, <2>2 DEF RecordInv
  <2>3. CASE records[r] # NoRecord
    <3>1. records[r].name \in Names
      BY <2>1, <2>3 DEF RecordInv
    <3> QED BY <1>1, <1>4, <2>1, <2>3, <3>1 DEF RecordInv
  <2> QED BY <2>2, <2>3
<1>7. ASSUME NEW g \in Helpers PROVE HelperInv(g)'
  <2>1. HelperInv(g)
    BY DEF IInv
  <2>2. call[g].op = "release" => call[g].name \in Names /\ NeverCloned(g)'
    BY <1>1, <2>1 DEF HelperInv, NeverCloned
  <2>3. pc[g] \in BoundSteps => call[g].name \in Names
    BY <2>1 DEF HelperInv
  <2>4. ASSUME NEW m \in Names, m = call[g].name
        PROVE  /\ child[m] = "none" => child'[m] = "none"
               /\ child[m] # "alive" => child'[m] # "alive"
               /\ machine[m] # "absent" => machine'[m] # "absent"
               /\ m \notin backend => m \notin backend'
               /\ ~Live(m) => ~Live(m)'
               /\ machine'[m] = "running" => machine[m] = "running"
    BY <1>1, <1>4
  <2>5. CASE pc[g] \in BoundSteps
    BY <1>1, <2>1, <2>2, <2>3, <2>4, <2>5 DEF HelperInv
  <2>6. CASE pc[g] \notin BoundSteps
    BY <1>1, <2>1, <2>2, <2>6 DEF HelperInv, LockedSteps, CleanupSteps,
       CreateSteps, CloneSteps, TargetSteps, BoundSteps, ReservedSteps,
       PreCloneSteps, MachineSteps
  <2> QED BY <2>5, <2>6
<1> QED BY <1>3, <1>5, <1>6, <1>7 DEF IInv

LEMMA InvariantStep == TypeOK /\ TypeOK' /\ IInv /\ [Next]_vars => IInv'
<1> SUFFICES ASSUME TypeOK, TypeOK', IInv, [Next]_vars PROVE IInv'
  OBVIOUS
<1>1. ASSUME NEW h \in Helpers, Call(h) PROVE IInv'
  BY <1>1, CallSteps
<1>2. ASSUME NEW h \in Helpers, CreateStep(h) PROVE IInv'
  BY <1>2, ReserveStep, LookingSteps, RemoveSteps, IntentSteps, SpawnStep,
     LearningSteps, SaveSteps, SettingSteps, PowerSteps DEF CreateStep
<1>3. ASSUME NEW h \in Helpers, DeleteStep(h) PROVE IInv'
  BY <1>3, LookingSteps, RemoveSteps, IntentSteps, SaveSteps, PowerSteps
     DEF DeleteStep
<1>4. ASSUME NEW h \in Helpers, OtherStep(h) PROVE IInv'
  BY <1>4, LockStep, FailureSteps, LearningSteps, SaveSteps, IntentSteps,
     PowerSteps DEF OtherStep
<1>5. ASSUME NEW n \in Names, OrbStep(n) PROVE IInv'
  BY <1>5, OrbSteps DEF OrbStep
<1>6. CASE Environment
  BY <1>6, FailureSteps, OrbSteps DEF Environment
<1>7. CASE UNCHANGED vars
  BY <1>7 DEF vars, IInv, OneWriterPerRunner, InstanceLockedBy, RecordInv,
     MachineInv, HelperInv, NeverCloned, Live, Inventory
<1> QED BY <1>1, <1>2, <1>3, <1>4, <1>5, <1>6, <1>7 DEF Next, HelperStep

LEMMA InvariantInit == Init => TypeOK /\ IInv
<1> SUFFICES ASSUME Init PROVE TypeOK /\ IInv
  OBVIOUS
<1>1. TypeOK
  BY NoRecordType, NoCallType DEF Init, TypeOK, RegistryTypes, HelperTypes,
     OrbTypes
<1>2. \A h \in Helpers : HelperInv(h)
  BY DEF Init, HelperInv, NoCall, NewCall, LockedSteps, CleanupSteps,
     CreateSteps, CloneSteps, TargetSteps, BoundSteps, ReservedSteps,
     PreCloneSteps, MachineSteps
<1>3. OneWriterPerRunner
  BY DEF Init, OneWriterPerRunner, InstanceLockedBy, LockedSteps,
     CleanupSteps, CreateSteps, CloneSteps, TargetSteps
<1>4. /\ \A r \in Runners : RecordInv(r)
      /\ \A n \in Names : MachineInv(n)
  BY DEF Init, RecordInv, MachineInv, Live, Inventory
<1> QED BY <1>1, <1>2, <1>3, <1>4 DEF IInv

(* The variables always have their types, and the inductive invariant      *)
(* always holds: whatever calls, failures, deaths and retries interleave.  *)
THEOREM Invariance == Spec => [](TypeOK /\ IInv)
<1>1. TypeOK /\ IInv /\ [Next]_vars => (TypeOK /\ IInv)'
  BY TypeStep, InvariantStep
<1> QED BY InvariantInit, <1>1, PTL DEF Spec

(* Type correctness of the lifecycle model.                                *)
THEOREM Typing == Spec => []TypeOK
BY Invariance, PTL

(* The instance flock, with its inheritance by the clone child, admits one *)
(* writer per runner.                                                      *)
THEOREM Exclusion == Spec => []OneWriterPerRunner
<1>1. IInv => OneWriterPerRunner
  BY DEF IInv
<1> QED BY <1>1, Invariance, PTL

(* What a call under its lock believes of its record is what the registry  *)
(* holds.                                                                  *)
THEOREM Currency == Spec => []TargetIsCurrent
<1>1. TypeOK /\ IInv => TargetIsCurrent
  <2> SUFFICES ASSUME TypeOK, IInv, NEW h \in Helpers, InstanceLockedBy(h),
                      pc[h] \notin {"recheck", "reserve"}
               PROVE  /\ call[h].name # NoName
                      /\ records[call[h].runner].name = call[h].name
                      /\ pc[h] \notin {"saveCreated", "saveAdopted"} =>
                            records[call[h].runner].id = call[h].id
    BY DEF TargetIsCurrent
  <2>1. HelperInv(h) /\ pc[h] \in BoundSteps
    BY DEF IInv, InstanceLockedBy, BoundSteps
  <2>2. call[h].name # NoName /\ records[call[h].runner].name = call[h].name
    BY <2>1 DEF HelperInv
  <2> QED BY <2>1, <2>2 DEF HelperInv
<1> QED BY <1>1, Invariance, PTL

(* No machine of the controller is ever forgotten by the registry.         *)
THEOREM NoOrphans == Spec => []NoOrphanMachine
<1>1. TypeOK /\ IInv => NoOrphanMachine
  BY DEF IInv, MachineInv, NoOrphanMachine, Live, Inventory, TypeOK, OrbTypes
<1> QED BY <1>1, Invariance, PTL

(* The clone intent covers every reservation whose clone may have run, and *)
(* never outlives its record.                                              *)
THEOREM Intents == Spec => [](IntentCoversClone /\ IntentHasRecord)
<1>1. TypeOK /\ IInv => IntentCoversClone /\ IntentHasRecord
  <2>1. ASSUME IInv, NEW r \in Runners, records[r].phase = "reserved",
               Live(records[r].name)
        PROVE  r \in intents
    <3>1. records[r] # NoRecord
      BY <2>1 DEF NoRecord, Record
    <3> QED BY <2>1, <3>1 DEF IInv, RecordInv
  <2>2. ASSUME TypeOK, IInv, NEW r \in intents PROVE records[r] # NoRecord
    BY <2>2 DEF IInv, RecordInv, TypeOK, RegistryTypes
  <2> QED BY <2>1, <2>2 DEF IntentCoversClone, IntentHasRecord
<1> QED BY <1>1, Invariance, PTL

(* ... so that a runner name used again starts without uncertainty.        *)
THEOREM IntentsHaveRecords == Spec => []IntentHasRecord
BY Intents, PTL

(* No name is cloned to twice: only Spawn starts a clone child, for a name *)
(* whose reservation has had none.                                         *)
THEOREM CloningOnce == Spec => CloneOnce
<1>1. ASSUME TypeOK, IInv, [Next]_vars, NEW n \in Names, child'[n] = "alive"
      PROVE  child[n] \in {"none", "alive"}
  <2> USE DEF TypeOK, OrbTypes
  <2>1. ASSUME NEW h \in Helpers, Spawn(h)
        PROVE  child[n] \in {"none", "alive"}
    <3>1. HelperInv(h) /\ pc[h] = "spawn"
      BY <1>1, <2>1 DEF IInv, Spawn
    <3>2. child[call[h].name] = "none"
      BY <3>1 DEF HelperInv, PreCloneSteps
    <3>3. \/ child' = child
          \/ child' = [child EXCEPT ![call[h].name] = "alive"]
      BY <2>1 DEF Spawn
    <3> QED BY <1>1, <3>2, <3>3
  <2>2. CASE \E h \in Helpers : HelperStep(h) /\ ~Spawn(h)
    <3>1. UNCHANGED child
      BY <2>2 DEF HelperStep, CreateStep, DeleteStep, OtherStep, orbVars,
         LockInstance, LockRefused, Recheck, Reserve, LockTemplate,
         TemplateTimeout, Validate, Undo, MarkIntent, Unmark, Wait, Identify,
         SaveCreated, ClearAfterClone, CheckStopped, ApplySettings, Boot,
         SaveBootstrapping, InjectBootstrap, Observe, SaveActive,
         SaveDeleting, Owned, Lift, Destroy, Confirm, Uncertain, ConfirmName,
         Clear, Remove, Adopt, SaveAdopted, ClearAdopted, Power
    <3> QED BY <1>1, <3>1
  <2>3. CASE \E h \in Helpers : Call(h) \/ ReadFails(h) \/ KillHelper(h)
    <3>1. UNCHANGED child
      BY <2>3 DEF Call, CallCreate, CallOn, ReadFails, KillHelper, orbVars
    <3> QED BY <1>1, <3>1
  <2>4. ASSUME NEW m \in Names,
               \/ ChildSucceeds(m) \/ ChildFails(m) \/ BackendCopies(m)
               \/ BackendDrops(m) \/ GuestStops(m) \/ UserDeletes(m)
        PROVE  child[n] \in {"none", "alive"}
    <3>1. \/ child' = child
          \/ \E c \in {"ok", "failed"} : child' = [child EXCEPT ![m] = c]
      BY <2>4 DEF ChildSucceeds, ChildFails, BackendCopies, BackendDrops,
         GuestStops, UserDeletes
    <3> QED BY <1>1, <3>1
  <2>5. CASE UNCHANGED vars
    BY <1>1, <2>5 DEF vars
  <2> QED BY <1>1, <2>1, <2>2, <2>3, <2>4, <2>5 DEF Next, OrbStep, Environment
<1>2. TypeOK /\ IInv /\ [Next]_vars =>
        [\A n \in Names : child'[n] = "alive" => child[n] \in {"none", "alive"}]_vars
  BY <1>1
<1> QED BY <1>2, Invariance, PTL DEF Spec, CloneOnce

-----------------------------------------------------------------------------
(* Capacity.                                                               *)

(* Only Reserve registers a runner, and only below max_instances.          *)
LEMMA RegisteredGrowth ==
    ASSUME TypeOK, IInv, RecordsWithinCapacity, [Next]_vars
    PROVE  \/ Registered' \subseteq Registered
           \/ /\ Cardinality(Registered) < MaxInstances
              /\ \E r \in Runners : Registered' \subseteq Registered \cup {r}
<1> USE DEF TypeOK, RegistryTypes, registryVars
<1>1. ASSUME NEW h \in Helpers, Reserve(h)
      PROVE  \/ Registered' \subseteq Registered
             \/ /\ Cardinality(Registered) < MaxInstances
                /\ \E r \in Runners : Registered' \subseteq Registered \cup {r}
  <2>1. call[h].runner \in Runners
    <3>1. pc[h] \in LockedSteps
      BY <1>1 DEF Reserve, LockedSteps, CreateSteps
    <3> QED BY <3>1, Own
  <2>2. Cardinality(Registered) \in Nat
    BY FS_CardinalityType DEF RecordsWithinCapacity
  <2>3. CASE UNCHANGED records
    BY <2>3 DEF Registered
  <2>4. CASE ~UNCHANGED records
    <3>1. Cardinality(Registered) < MaxInstances
      BY <1>1, <2>2, <2>4 DEF Reserve
    <3>2. PICK new : records' = [records EXCEPT ![call[h].runner] = new]
      BY <1>1, <2>4 DEF Reserve
    <3>3. Registered' \subseteq Registered \cup {call[h].runner}
      BY <3>2 DEF Registered
    <3> QED BY <2>1, <3>1, <3>3
  <2> QED BY <2>3, <2>4
<1>2. ASSUME NEW r, NEW new, records[r] # NoRecord \/ new = NoRecord,
             records' = [records EXCEPT ![r] = new]
      PROVE  Registered' \subseteq Registered
  BY <1>2 DEF Registered
<1>3. CASE UNCHANGED records
  BY <1>3 DEF Registered
<1>4. ASSUME NEW h \in Helpers,
             \/ SaveCreated(h) \/ SaveBootstrapping(h) \/ SaveActive(h)
             \/ SaveDeleting(h) \/ SaveAdopted(h)
      PROVE  Registered' \subseteq Registered
  <2>1. \/ UNCHANGED records
        \/ \E p \in Phases :
             /\ records[call[h].runner] # NoRecord
             /\ records' = [records EXCEPT ![call[h].runner] = Local(h, p)]
    BY <1>4 DEF SaveCreated, SaveBootstrapping, SaveActive, SaveDeleting,
       SaveAdopted, Saved, SaveFailed, CanSave, Phases
  <2> QED BY <1>2, <1>3, <2>1
<1>5. ASSUME NEW h \in Helpers, Undo(h) \/ Remove(h)
      PROVE  Registered' \subseteq Registered
  <2>1. records' \in {records, [records EXCEPT ![call[h].runner] = NoRecord]}
    BY <1>5 DEF Undo, Remove, Removed, RemoveFailed
  <2> QED BY <1>2, <1>3, <2>1
<1>6. ASSUME NEW h \in Helpers,
             HelperStep(h) \/ Call(h) \/ ReadFails(h) \/ KillHelper(h)
      PROVE  \/ Reserve(h) \/ Undo(h) \/ Remove(h)
             \/ SaveCreated(h) \/ SaveBootstrapping(h) \/ SaveActive(h)
             \/ SaveDeleting(h) \/ SaveAdopted(h)
             \/ UNCHANGED records
  BY <1>6 DEF HelperStep, CreateStep, DeleteStep, OtherStep, Call, CallCreate,
     CallOn, ReadFails, KillHelper, LockInstance, LockRefused, Recheck,
     LockTemplate, TemplateTimeout, Validate, MarkIntent, Spawn, Unmark, Wait,
     Identify, ClearAfterClone, CheckStopped, ApplySettings, Boot,
     InjectBootstrap, Observe, Owned, Lift, Destroy, Confirm, Uncertain,
     ConfirmName, Clear, Adopt, ClearAdopted, Power
<1>7. ASSUME NEW n \in Names,
             \/ ChildSucceeds(n) \/ ChildFails(n) \/ BackendCopies(n)
             \/ BackendDrops(n) \/ GuestStops(n) \/ UserDeletes(n)
      PROVE  UNCHANGED records
  BY <1>7 DEF ChildSucceeds, ChildFails, BackendCopies, BackendDrops,
     GuestStops, UserDeletes
<1>8. UNCHANGED vars => UNCHANGED records
  BY DEF vars
<1> QED BY <1>1, <1>3, <1>4, <1>5, <1>6, <1>7, <1>8 DEF Next, OrbStep,
           Environment

(* The controller never has more records than max_instances.               *)
THEOREM RecordsBounded == Spec => []RecordsWithinCapacity
<1>1. Init => RecordsWithinCapacity
  <2> SUFFICES ASSUME Init PROVE RecordsWithinCapacity
    OBVIOUS
  <2>1. Registered = {}
    BY DEF Init, Registered
  <2> QED BY <2>1, FS_EmptySet DEF RecordsWithinCapacity
<1>2. ASSUME TypeOK, IInv, RecordsWithinCapacity, [Next]_vars
      PROVE  RecordsWithinCapacity'
  <2> USE DEF RecordsWithinCapacity
  <2>0. Cardinality(Registered) \in Nat
    BY <1>2, FS_CardinalityType
  <2>1. CASE Registered' \subseteq Registered
    BY <1>2, <2>0, <2>1, FS_Subset, FS_CardinalityType
  <2>2. ASSUME NEW r \in Runners, Cardinality(Registered) < MaxInstances,
               Registered' \subseteq Registered \cup {r}
        PROVE  RecordsWithinCapacity'
    <3> DEFINE S == Registered \cup {r}
    <3>1. IsFiniteSet(S) /\ Cardinality(S) <= MaxInstances
          /\ Cardinality(S) \in Nat
      <4>1. /\ IsFiniteSet(S)
            /\ Cardinality(S) \in {Cardinality(Registered),
                                  Cardinality(Registered) + 1}
        BY ONLY <1>2, FS_AddElement DEF RecordsWithinCapacity
      <4> QED BY ONLY <2>0, <2>2, <4>1, LifecycleAssumption
              DEF LifecycleAssumption
    <3> HIDE DEF S
    <3>2. Registered' \subseteq S
      BY <2>2 DEF S
    <3>3. /\ IsFiniteSet(Registered')
          /\ Cardinality(Registered') <= Cardinality(S)
          /\ Cardinality(Registered') \in Nat
      BY <3>1, <3>2, FS_Subset, FS_CardinalityType
    <3> QED BY <3>1, <3>3
  <2> QED BY <1>2, <2>1, <2>2, RegisteredGrowth
<1>3. TypeOK /\ IInv /\ RecordsWithinCapacity /\ [Next]_vars
        => RecordsWithinCapacity'
  BY <1>2
<1> QED BY <1>1, <1>3, Invariance, PTL DEF Spec

(* The machines that exist or may still appear never exceed max_instances: *)
(* each belongs to a record of its own.                                    *)
THEOREM Capacity == Spec => []CapacityBound
<1>1. ASSUME TypeOK, IInv, RecordsWithinCapacity
      PROVE  CapacityBound
  <2> DEFINE L == {n \in Names : Live(n)}
             f == [n \in L |-> owner[n]]
  <2>1. \A n \in L : owner[n] \in Registered /\ records[owner[n]].name = n
    <3> SUFFICES ASSUME NEW n \in Names, Live(n)
                 PROVE  owner[n] \in Registered /\ records[owner[n]].name = n
      OBVIOUS
    <3>1. MachineInv(n)
      BY <1>1 DEF IInv
    <3>2. owner[n] \in Runners /\ records[owner[n]].name = n
      BY <1>1, <3>1 DEF MachineInv, Live, Inventory, TypeOK, RegistryTypes, OrbTypes
    <3> QED BY <3>2 DEF Registered, NoRecord, Record
  <2>2. f \in Injection(L, Registered)
    BY <2>1 DEF Injection, IsInjective
  <2>3. IsFiniteSet(L) /\ Cardinality(L) <= Cardinality(Registered)
    BY <1>1, <2>2, FS_Injection DEF RecordsWithinCapacity
  <2>4. Cardinality(L) \in Nat /\ Cardinality(Registered) \in Nat
    BY <1>1, <2>3, FS_CardinalityType DEF RecordsWithinCapacity
  <2> QED BY <1>1, <2>3, <2>4 DEF RecordsWithinCapacity, CapacityBound
<1> QED BY <1>1, Invariance, RecordsBounded, PTL

-----------------------------------------------------------------------------
(* The bootstrap is enqueued once, in a machine that has all of its        *)
(* limits, and before its record says that the runner is active; and only  *)
(* a deletion that is on record lifts a limit.  IInv does not look at      *)
(* limits and bootstraps; SetupInv, on top of it, does.                    *)

(* What the phase of a record says of its machine, ...                     *)
PhaseTells(r) ==
    LET rec == records[r] IN
    /\ rec.phase \in {"reserved", "created"} =>
          queued[rec.name] = 0 /\ caps[rec.name] # "lifted"
    /\ rec.phase \in {"bootstrapping", "active"} => caps[rec.name] = "full"
    /\ rec.phase = "active" => queued[rec.name] = 1

(* ... what the machine itself shows, ...                                  *)
QueuedOnce(n) ==
    /\ queued[n] > 0 => queued[n] = 1 /\ caps[n] \in {"full", "lifted"}
    /\ child[n] = "none" => queued[n] = 0 /\ caps[n] = "none"

CreatedSteps  == {"clearAfterClone", "checkStopped", "settings", "boot",
                  "saveBootstrapping"}
LimitedSteps  == {"boot", "saveBootstrapping", "inject", "observe",
                  "saveActive"}
EnqueuedSteps == {"observe", "saveActive"}

(* ... and what a CREATE has done by the step it is at.                    *)
CreateTells(h) ==
    LET n   == call[h].name
        now == records[call[h].runner].phase IN
    /\ pc[h] \in CreatedSteps => now = "created"
    /\ pc[h] \in LimitedSteps => caps[n] = "full"
    /\ pc[h] = "inject" => now = "bootstrapping" /\ queued[n] = 0
    /\ pc[h] \in EnqueuedSteps => now = "bootstrapping" /\ queued[n] = 1

SetupInv ==
    /\ \A r \in Runners : PhaseTells(r)
    /\ \A n \in Names : QueuedOnce(n)
    /\ \A h \in Helpers : CreateTells(h)

SetupSteps == CreatedSteps \cup LimitedSteps \cup {"inject"}

-----------------------------------------------------------------------------
(* A helper at a step of the setup has its own record and machine.         *)
LEMMA SetupOwns ==
    ASSUME TypeOK, IInv, NEW g \in Helpers, pc[g] \in BoundSteps
    PROVE  /\ pc[g] \in LockedSteps
           /\ call[g].runner \in Runners /\ call[g].name \in Names
           /\ records[call[g].runner].name = call[g].name
           /\ owner[call[g].name] = call[g].runner
BY Own DEF BoundSteps

LEMMA SetupIsBound == SetupSteps \subseteq BoundSteps
BY DEF SetupSteps, CreatedSteps, LimitedSteps, BoundSteps, LockedSteps,
   CleanupSteps, CreateSteps, CloneSteps, TargetSteps

(* No two helpers past their locks share a runner or a machine name.       *)
LEMMA Apart ==
    ASSUME TypeOK, IInv, NEW g \in Helpers, NEW h \in Helpers, g # h,
           pc[g] \in BoundSteps, pc[h] \in LockedSteps
    PROVE  /\ call[g].runner # call[h].runner
           /\ pc[h] \in BoundSteps => call[g].name # call[h].name
<1>1. call[g].runner # call[h].runner
  BY SetupOwns DEF IInv, OneWriterPerRunner, InstanceLockedBy
<1>2. pc[h] \in BoundSteps => owner[call[h].name] = call[h].runner
  BY SetupOwns
<1> QED BY <1>1, <1>2, SetupOwns

(* What a helper elsewhere knows does not concern SetupInv.                *)
LEMMA Elsewhere ==
    ASSUME NEW g \in Helpers, pc'[g] \notin SetupSteps
    PROVE  CreateTells(g)'
BY DEF CreateTells, SetupSteps, CreatedSteps, LimitedSteps, EnqueuedSteps

(* Steps that write neither records nor machines' settings.                *)
LEMMA Unwritten ==
    ASSUME SetupInv, UNCHANGED <<records, caps, queued>>,
           \A m \in Names : child'[m] = "none" => child[m] = "none",
           \A g \in Helpers :
              \/ pc'[g] = pc[g] /\ call'[g] = call[g]
              \/ CreateTells(g)'
    PROVE  SetupInv'
<1>1. ASSUME NEW r \in Runners PROVE PhaseTells(r)'
  BY DEF SetupInv, PhaseTells
<1>2. ASSUME NEW n \in Names PROVE QueuedOnce(n)'
  BY DEF SetupInv, QueuedOnce
<1>3. ASSUME NEW g \in Helpers PROVE CreateTells(g)'
  BY DEF SetupInv, CreateTells
<1> QED BY <1>1, <1>2, <1>3 DEF SetupInv

(* Steps that write the acting helper's own record or machine.             *)
LEMMA WrittenInside ==
    ASSUME TypeOK, TypeOK', IInv, SetupInv,
           NEW h \in Helpers, pc[h] \in BoundSteps,
           NEW r, r = call[h].runner, NEW n, n = call[h].name,
           \A g \in Helpers \ {h} : pc'[g] = pc[g] /\ call'[g] = call[g],
           \A q \in Runners \ {r} : records'[q] = records[q],
           \A m \in Names \ {n} : caps'[m] = caps[m] /\ queued'[m] = queued[m],
           UNCHANGED child,
           PhaseTells(r)', QueuedOnce(n)', CreateTells(h)'
    PROVE  SetupInv'
<1>1. r \in Runners /\ n \in Names /\ owner[n] = r
  BY SetupOwns
<1>2. ASSUME NEW q \in Runners, q # r PROVE PhaseTells(q)'
  <2>1. records'[q] = records[q] /\ PhaseTells(q)
    BY <1>2 DEF SetupInv
  <2>2. CASE records[q] = NoRecord
    BY <2>1, <2>2 DEF PhaseTells, NoRecord, Record
  <2>3. CASE records[q] # NoRecord
    <3>1. records[q].name \in Names \ {n}
      BY <1>1, <1>2, <2>3 DEF IInv, RecordInv
    <3> QED BY <2>1, <3>1 DEF PhaseTells
  <2> QED BY <2>2, <2>3
<1>3. ASSUME NEW m \in Names, m # n PROVE QueuedOnce(m)'
  BY <1>3 DEF SetupInv, QueuedOnce
<1>4. ASSUME NEW g \in Helpers, g # h PROVE CreateTells(g)'
  <2>1. pc'[g] = pc[g] /\ call'[g] = call[g] /\ CreateTells(g)
    BY <1>4 DEF SetupInv
  <2>2. CASE pc[g] \in SetupSteps
    <3>1. pc[g] \in BoundSteps /\ pc[h] \in LockedSteps
      BY <2>2, SetupIsBound, SetupOwns
    <3>2. call[g].runner \in Runners \ {r} /\ call[g].name \in Names \ {n}
      BY <1>4, <3>1, Apart, SetupOwns
    <3>3. /\ records'[call[g].runner] = records[call[g].runner]
          /\ caps'[call[g].name] = caps[call[g].name]
          /\ queued'[call[g].name] = queued[call[g].name]
      BY <3>2
    <3> QED BY <2>1, <3>3 DEF CreateTells
  <2>3. CASE pc[g] \notin SetupSteps
    BY <2>1, <2>3, Elsewhere
  <2> QED BY <2>2, <2>3
<1> QED BY <1>2, <1>3, <1>4 DEF SetupInv

(* A machine that is set up was cloned.                                    *)
LEMMA SetupHasMachine ==
    ASSUME TypeOK, IInv, NEW h \in Helpers, pc[h] \in BoundSteps,
           NEW r, r = call[h].runner, NEW n, n = call[h].name,
           records[r].phase # "reserved"
    PROVE  child[n] # "none"
<1>1. pc[h] \in LockedSteps
  BY SetupOwns
<1>2. /\ RecordInv(r) /\ MachineInv(n) /\ records[r] # NoRecord
      /\ records[r].name = n
  BY <1>1, Own
<1>3. machine[n] # "absent"
  BY <1>2 DEF RecordInv
<1> QED BY <1>2, <1>3 DEF MachineInv

-----------------------------------------------------------------------------
(* Steps that lead to no step of the setup and write nothing SetupInv      *)
(* looks at.                                                               *)
LEMMA StepsElsewhere ==
    ASSUME TypeOK, TypeOK', SetupInv, NEW h \in Helpers,
           UNCHANGED <<records, caps, queued>>,
           \A m \in Names : child'[m] = "none" => child[m] = "none",
           \/ Return(h)
           \/ \E step \in LockedSteps \cup {"lock"} :
                 /\ step \notin SetupSteps
                 /\ pc' = [pc EXCEPT ![h] = step]
                 /\ \E c \in Calls : call' = [call EXCEPT ![h] = c]
    PROVE  SetupInv'
<1>1. pc'[h] \notin SetupSteps
  BY DEF Return, TypeOK, HelperTypes, SetupSteps, CreatedSteps, LimitedSteps
<1>2. \A g \in Helpers \ {h} : pc'[g] = pc[g] /\ call'[g] = call[g]
  BY DEF Return, TypeOK, HelperTypes
<1> QED BY <1>1, <1>2, Elsewhere, Unwritten

LEMMA CallsElsewhere ==
    ASSUME TypeOK, TypeOK', SetupInv, NEW h \in Helpers,
           Call(h) \/ LockInstance(h) \/ LockRefused(h) \/ Recheck(h)
    PROVE  SetupInv'
<1>1. UNCHANGED <<records, caps, queued, child>>
  BY DEF Call, CallCreate, CallOn, LockInstance, LockRefused, Recheck,
     registryVars, orbVars, machineVars
<1>2. pc'[h] \notin SetupSteps
  BY DEF Call, CallCreate, CallOn, LockInstance, LockRefused, Recheck, Goto,
     Return, AfterRecheck, TypeOK, HelperTypes, SetupSteps, CreatedSteps,
     LimitedSteps
<1>3. \A g \in Helpers \ {h} : pc'[g] = pc[g] /\ call'[g] = call[g]
  BY DEF Call, CallCreate, CallOn, LockInstance, LockRefused, Recheck, Goto,
     Return, Learn, TypeOK, HelperTypes
<1> QED BY <1>1, <1>2, <1>3, Elsewhere, Unwritten

LEMMA MovesElsewhere ==
    ASSUME TypeOK, TypeOK', SetupInv, NEW h \in Helpers,
           \/ LockTemplate(h) \/ TemplateTimeout(h) \/ Validate(h)
           \/ MarkIntent(h) \/ Spawn(h) \/ Unmark(h) \/ Wait(h) \/ Identify(h)
           \/ Owned(h) \/ Destroy(h) \/ Confirm(h) \/ Uncertain(h)
           \/ ConfirmName(h) \/ Clear(h) \/ Adopt(h) \/ ClearAdopted(h)
           \/ Power(h) \/ ReadFails(h) \/ KillHelper(h)
    PROVE  SetupInv'
<1>1. /\ UNCHANGED <<records, caps, queued>>
      /\ \A m \in Names : child'[m] = "none" => child[m] = "none"
  BY DEF LockTemplate, TemplateTimeout, Validate, MarkIntent, Spawn, Unmark,
     Wait, Identify, Owned, Destroy, Confirm, Uncertain, ConfirmName, Clear,
     Adopt, ClearAdopted, Power, ReadFails, KillHelper, registryVars, orbVars,
     machineVars, TypeOK, OrbTypes
<1>2. pc'[h] \notin SetupSteps
  BY DEF LockTemplate, TemplateTimeout, Validate, MarkIntent, Spawn, Unmark,
     Wait, Identify, Owned, Destroy, Confirm, Uncertain, ConfirmName, Clear,
     Adopt, ClearAdopted, Power, ReadFails, KillHelper, Goto, Return,
     TypeOK, HelperTypes, SetupSteps, CreatedSteps, LimitedSteps
<1>3. \A g \in Helpers \ {h} : pc'[g] = pc[g] /\ call'[g] = call[g]
  BY DEF LockTemplate, TemplateTimeout, Validate, MarkIntent, Spawn, Unmark,
     Wait, Identify, Owned, Destroy, Confirm, Uncertain, ConfirmName, Clear,
     Adopt, ClearAdopted, Power, ReadFails, KillHelper, Goto, Return, Learn,
     TypeOK, HelperTypes
<1> QED BY <1>1, <1>2, <1>3, Elsewhere, Unwritten

(* The machines' own life.                                                 *)
LEMMA OrbElsewhere ==
    ASSUME TypeOK, TypeOK', SetupInv, NEW n \in Names,
           \/ ChildSucceeds(n) \/ ChildFails(n) \/ BackendCopies(n)
           \/ BackendDrops(n) \/ GuestStops(n) \/ UserDeletes(n)
    PROVE  SetupInv'
<1>1. /\ UNCHANGED <<records, caps, queued, pc, call>>
      /\ \A m \in Names : child'[m] = "none" => child[m] = "none"
  BY DEF ChildSucceeds, ChildFails, BackendCopies, BackendDrops, GuestStops,
     UserDeletes, registryVars, machineVars, TypeOK, OrbTypes
<1> QED BY <1>1, Unwritten

-----------------------------------------------------------------------------
(* The steps of the setup that only look, or start the machine.            *)
LEMMA SetupMoves ==
    ASSUME TypeOK, TypeOK', SetupInv, NEW h \in Helpers,
           ClearAfterClone(h) \/ CheckStopped(h) \/ Boot(h) \/ Observe(h)
    PROVE  SetupInv'
<1>1. UNCHANGED <<records, caps, queued, child, call>>
  BY DEF ClearAfterClone, CheckStopped, Boot, Observe, MachineGone, Goto,
     registryVars, orbVars, machineVars
<1>2. \A g \in Helpers \ {h} : pc'[g] = pc[g]
  BY DEF ClearAfterClone, CheckStopped, Boot, Observe, MachineGone, Goto,
     TypeOK, HelperTypes
<1>3. \/ pc'[h] = "saveDeleting"
      \/ pc[h] = "clearAfterClone" /\ pc'[h] = "checkStopped"
      \/ pc[h] = "checkStopped" /\ pc'[h] = "settings"
      \/ pc[h] = "boot" /\ pc'[h] = "saveBootstrapping"
      \/ pc[h] = "observe" /\ pc'[h] = "saveActive"
  BY DEF ClearAfterClone, CheckStopped, Boot, Observe, MachineGone, Goto,
     TypeOK, HelperTypes
<1>4. CreateTells(h)'
  BY <1>1, <1>3 DEF SetupInv, CreateTells, CreatedSteps, LimitedSteps,
     EnqueuedSteps
<1> QED BY <1>1, <1>2, <1>4, Unwritten

(* Limits are only written while nothing is enqueued.                      *)
LEMMA SetupSettings ==
    ASSUME TypeOK, TypeOK', IInv, SetupInv, NEW h \in Helpers,
           ApplySettings(h)
    PROVE  SetupInv'
<1>1. PICK r, n : r = call[h].runner /\ n = call[h].name
  OBVIOUS
<1>2. pc[h] = "settings" /\ pc[h] \in BoundSteps
  BY SetupIsBound DEF ApplySettings, SetupSteps, CreatedSteps
<1>3. /\ r \in Runners /\ n \in Names /\ records[r].name = n
      /\ call[h].id = n
  BY <1>1, <1>2, SetupOwns, Own DEF HelperInv, MachineSteps
<1>4. records[r].phase = "created" /\ queued[n] = 0 /\ caps[n] # "lifted"
  BY <1>1, <1>2, <1>3 DEF SetupInv, CreateTells, CreatedSteps, PhaseTells
<1>5. UNCHANGED <<records, queued, child, call>>
  BY DEF ApplySettings, MachineGone, Goto, registryVars, machineVars
<1>6. /\ \A m \in Names \ {n} : caps'[m] = caps[m]
      /\ caps'[n] \in {caps[n], "none", "partial", "full"}
  BY <1>3 DEF ApplySettings, MachineGone, machineVars, TypeOK, OrbTypes
<1>7. /\ \A g \in Helpers \ {h} : pc'[g] = pc[g]
      /\ \/ pc'[h] = "saveDeleting"
         \/ pc'[h] = "boot" /\ caps'[n] = "full"
  BY <1>3 DEF ApplySettings, MachineGone, Goto, TypeOK, HelperTypes, OrbTypes
<1>8. PhaseTells(r)' /\ QueuedOnce(n)'
  <2>1. child[n] # "none"
    BY <1>1, <1>2, <1>3, <1>4, SetupHasMachine
  <2> QED BY <1>3, <1>4, <1>5, <1>6, <2>1 DEF PhaseTells, QueuedOnce
<1>9. CreateTells(h)'
  BY <1>1, <1>4, <1>5, <1>7 DEF CreateTells, CreatedSteps, LimitedSteps,
     EnqueuedSteps
<1> QED BY <1>1, <1>2, <1>5, <1>6, <1>7, <1>8, <1>9, WrittenInside

(* The bootstrap is enqueued where none was, with all limits on.           *)
LEMMA SetupInjects ==
    ASSUME TypeOK, TypeOK', IInv, SetupInv, NEW h \in Helpers,
           InjectBootstrap(h)
    PROVE  SetupInv'
<1>1. PICK r, n : r = call[h].runner /\ n = call[h].name
  OBVIOUS
<1>2. pc[h] = "inject" /\ pc[h] \in BoundSteps
  BY SetupIsBound DEF InjectBootstrap, SetupSteps
<1>3. /\ r \in Runners /\ n \in Names /\ records[r].name = n
      /\ call[h].id = n
  BY <1>1, <1>2, SetupOwns, Own DEF HelperInv, MachineSteps
<1>4. records[r].phase = "bootstrapping" /\ queued[n] = 0 /\ caps[n] = "full"
  BY <1>1, <1>2 DEF SetupInv, CreateTells, LimitedSteps
<1>5. UNCHANGED <<records, caps, child, call>>
  BY DEF InjectBootstrap, MachineGone, Goto, registryVars, machineVars
<1>6. /\ \A m \in Names \ {n} : queued'[m] = queued[m]
      /\ queued'[n] \in {0, 1}
  BY <1>3, <1>4 DEF InjectBootstrap, MachineGone, machineVars, TypeOK,
     OrbTypes
<1>7. /\ \A g \in Helpers \ {h} : pc'[g] = pc[g]
      /\ \/ pc'[h] = "saveDeleting"
         \/ pc'[h] = "observe" /\ queued'[n] = 1
  BY <1>3, <1>4 DEF InjectBootstrap, MachineGone, Goto, TypeOK, HelperTypes,
     OrbTypes
<1>8. PhaseTells(r)'
  BY <1>3, <1>4, <1>5 DEF PhaseTells
<1>9. QueuedOnce(n)'
  <2>1. child[n] # "none"
    BY <1>1, <1>2, <1>3, <1>4, SetupHasMachine
  <2> QED BY <1>4, <1>5, <1>6, <2>1 DEF QueuedOnce
<1>10. CreateTells(h)'
  BY <1>1, <1>4, <1>5, <1>7 DEF CreateTells, CreatedSteps, LimitedSteps,
     EnqueuedSteps
<1> QED BY <1>1, <1>2, <1>5, <1>6, <1>7, <1>8, <1>9, <1>10, WrittenInside

(* A deletion lifts the limit of its own machine, whose record says so.    *)
LEMMA SetupLifts ==
    ASSUME TypeOK, TypeOK', IInv, SetupInv, NEW h \in Helpers, Lift(h)
    PROVE  SetupInv'
<1>1. PICK r, n : r = call[h].runner /\ n = call[h].name
  OBVIOUS
<1>2. pc[h] = "lift" /\ pc[h] \in BoundSteps
  BY DEF Lift, BoundSteps, LockedSteps, CleanupSteps
<1>3. /\ r \in Runners /\ n \in Names /\ records[r].name = n
      /\ call[h].id = n /\ records[r].phase = "deleting"
  BY <1>1, <1>2, SetupOwns, Own DEF HelperInv, MachineSteps
<1>4. UNCHANGED <<records, queued, child, call>>
  BY DEF Lift, Goto, registryVars
<1>5. /\ \A m \in Names \ {n} : caps'[m] = caps[m]
      /\ \/ caps'[n] = caps[n]
         \/ caps[n] = "full" /\ caps'[n] = "lifted"
  BY <1>3 DEF Lift, TypeOK, OrbTypes
<1>6. /\ \A g \in Helpers \ {h} : pc'[g] = pc[g]
      /\ pc'[h] \in {"confirm", "destroy"}
  BY DEF Lift, Goto, TypeOK, HelperTypes
<1>7. PhaseTells(r)'
  BY <1>3, <1>4 DEF PhaseTells
<1>8. QueuedOnce(n)'
  <2>1. QueuedOnce(n) /\ child[n] # "none"
    BY <1>1, <1>2, <1>3, SetupHasMachine DEF SetupInv
  <2> QED BY <1>4, <1>5, <2>1 DEF QueuedOnce
<1>9. CreateTells(h)'
  BY <1>6, Elsewhere DEF SetupSteps, CreatedSteps, LimitedSteps
<1> QED BY <1>1, <1>2, <1>4, <1>5, <1>6, <1>7, <1>8, <1>9, WrittenInside

-----------------------------------------------------------------------------
(* Transactions on the registry.                                           *)
LEMMA SetupReserves ==
    ASSUME TypeOK, TypeOK', IInv, SetupInv, NEW h \in Helpers, Reserve(h)
    PROVE  SetupInv'
<1>1. PICK r : r = call[h].runner
  OBVIOUS
<1>2. /\ pc[h] \in LockedSteps /\ r \in Runners
      /\ UNCHANGED <<caps, queued, child>>
      /\ pc'[h] \notin SetupSteps
      /\ \A g \in Helpers \ {h} : pc'[g] = pc[g] /\ call'[g] = call[g]
  <2>1. pc[h] \in LockedSteps
    BY DEF Reserve, LockedSteps, CreateSteps
  <2>2. UNCHANGED <<caps, queued, child>>
    BY DEF Reserve, orbVars
  <2>3. /\ pc'[h] \notin SetupSteps
        /\ \A g \in Helpers \ {h} : pc'[g] = pc[g] /\ call'[g] = call[g]
    BY DEF Reserve, Goto, Return, Learn, TypeOK, HelperTypes, SetupSteps,
       CreatedSteps, LimitedSteps
  <2> QED BY <1>1, <2>1, <2>2, <2>3, Own
<1>3. CASE UNCHANGED records
  BY <1>2, <1>3, Elsewhere, Unwritten
<1>4. CASE ~UNCHANGED records
  <2>1. PICK n \in Unused :
          records' = [records EXCEPT ![r] = Record(n, NoName, "reserved")]
    BY <1>1, <1>4 DEF Reserve
  <2>2. child[n] = "none" /\ queued[n] = 0 /\ caps[n] = "none"
    <3>1. MachineInv(n) /\ owner[n] = NoRunner /\ QueuedOnce(n)
      BY <2>1 DEF Unused, IInv, SetupInv
    <3> QED BY <3>1 DEF MachineInv, QueuedOnce
  <2>3. /\ records'[r] = Record(n, NoName, "reserved")
        /\ \A q \in Runners \ {r} : records'[q] = records[q]
    BY <1>2, <2>1 DEF TypeOK, RegistryTypes
  <2>4. ASSUME NEW q \in Runners PROVE PhaseTells(q)'
    <3>1. CASE q = r
      BY <1>2, <2>2, <2>3, <3>1 DEF PhaseTells, Record
    <3>2. CASE q # r
      BY <1>2, <2>3, <3>2 DEF SetupInv, PhaseTells
    <3> QED BY <3>1, <3>2
  <2>5. ASSUME NEW m \in Names PROVE QueuedOnce(m)'
    BY <1>2 DEF SetupInv, QueuedOnce
  <2>6. ASSUME NEW g \in Helpers PROVE CreateTells(g)'
    <3>1. CASE pc'[g] \notin SetupSteps
      BY <3>1, Elsewhere
    <3>2. CASE pc'[g] \in SetupSteps
      <4>1. g # h /\ pc'[g] = pc[g] /\ call'[g] = call[g] /\ CreateTells(g)
        BY <1>2, <3>2 DEF SetupInv
      <4>2. call[g].runner \in Runners \ {r}
        BY <1>1, <1>2, <3>2, <4>1, SetupIsBound, SetupOwns, Apart
      <4> QED BY <1>2, <2>3, <4>1, <4>2 DEF CreateTells
    <3> QED BY <3>1, <3>2
  <2> QED BY <2>4, <2>5, <2>6 DEF SetupInv
<1> QED BY <1>3, <1>4

LEMMA SetupRemoves ==
    ASSUME TypeOK, TypeOK', IInv, SetupInv, NEW h \in Helpers,
           Undo(h) \/ Remove(h)
    PROVE  SetupInv'
<1>1. PICK r, n : r = call[h].runner /\ n = call[h].name
  OBVIOUS
<1>2. pc[h] \in BoundSteps
  BY DEF Undo, Remove, BoundSteps, LockedSteps, CleanupSteps, CreateSteps,
     CloneSteps
<1>3. /\ UNCHANGED <<caps, queued, child>>
      /\ records' \in {records, [records EXCEPT ![r] = NoRecord]}
  BY <1>1 DEF Undo, Remove, Removed, RemoveFailed, orbVars
<1>4. r \in Runners /\ n \in Names
  BY <1>1, <1>2, SetupOwns
<1>5. /\ \A q \in Runners \ {r} : records'[q] = records[q]
      /\ records'[r] \in {records[r], NoRecord}
  BY <1>3, <1>4 DEF TypeOK, RegistryTypes
<1>6. /\ \A g \in Helpers \ {h} : pc'[g] = pc[g] /\ call'[g] = call[g]
      /\ CreateTells(h)'
  <2>1. /\ \A g \in Helpers \ {h} : pc'[g] = pc[g] /\ call'[g] = call[g]
        /\ pc'[h] \notin SetupSteps
    BY DEF Undo, Remove, Return, TypeOK, HelperTypes, SetupSteps,
       CreatedSteps, LimitedSteps
  <2> QED BY <2>1, Elsewhere
<1>7. PhaseTells(r)' /\ QueuedOnce(n)'
  BY <1>3, <1>4, <1>5 DEF SetupInv, PhaseTells, QueuedOnce, NoRecord, Record
<1> QED BY <1>1, <1>2, <1>3, <1>5, <1>6, <1>7, WrittenInside

(* Each phase is saved when what it tells is already so.                   *)
LEMMA SetupSaves ==
    ASSUME TypeOK, TypeOK', IInv, SetupInv, NEW h \in Helpers,
           \/ SaveCreated(h) \/ SaveBootstrapping(h) \/ SaveActive(h)
           \/ SaveDeleting(h) \/ SaveAdopted(h)
    PROVE  SetupInv'
<1> USE DEF SaveCreated, SaveBootstrapping, SaveActive, SaveDeleting,
            SaveAdopted
<1>1. PICK r, n : r = call[h].runner /\ n = call[h].name
  OBVIOUS
<1>2. pc[h] \in BoundSteps
  BY DEF BoundSteps, LockedSteps, CleanupSteps, CreateSteps, CloneSteps,
     TargetSteps
<1>3. /\ r \in Runners /\ n \in Names /\ records[r].name = n
      /\ PhaseTells(r) /\ QueuedOnce(n) /\ CreateTells(h)
  BY <1>1, <1>2, SetupOwns DEF SetupInv
<1>4. UNCHANGED <<caps, queued, child>>
  BY DEF orbVars
<1>5. /\ \A g \in Helpers \ {h} : pc'[g] = pc[g] /\ call'[g] = call[g]
      /\ pc'[h] \in {"idle", "clearAfterClone", "inject", "saveDeleting",
                      "owned", "clearAdopted"}
  BY DEF Goto, Return, TypeOK, HelperTypes
<1>6. ASSUME NEW p \in Phases,
             \/ Saved(r, Local(h, p)) \/ SaveFailed(r, Local(h, p))
      PROVE  /\ \A q \in Runners \ {r} : records'[q] = records[q]
             /\ \/ records'[r] = records[r]
                \/ records'[r].phase = p /\ records'[r].name = n
  BY <1>1, <1>3, <1>6 DEF Saved, SaveFailed, Local, Record, TypeOK,
     RegistryTypes
<1>7. ASSUME NEW p \in Phases, Saved(r, Local(h, p))
      PROVE  records'[r].phase = p /\ records'[r].name = n
  BY <1>1, <1>3, <1>7 DEF Saved, Local, Record, TypeOK, RegistryTypes
<1>8. ASSUME \A q \in Runners \ {r} : records'[q] = records[q],
             PhaseTells(r)', CreateTells(h)'
      PROVE  SetupInv'
  <2>1. QueuedOnce(n)'
    BY <1>3, <1>4 DEF QueuedOnce
  <2> QED BY <1>1, <1>2, <1>4, <1>5, <1>8, <2>1, WrittenInside
<1>9. CASE SaveCreated(h) \/ SaveAdopted(h)
  <2>1. /\ records[r].phase = "reserved" /\ queued[n] = 0
        /\ caps[n] # "lifted"
    <3>1. pc[h] \in ReservedSteps /\ pc[h] \in LockedSteps
      BY <1>2, <1>9, SetupOwns DEF ReservedSteps
    <3> QED BY <1>1, <1>3, <3>1, Own DEF HelperInv, PhaseTells
  <2>2. /\ \A q \in Runners \ {r} : records'[q] = records[q]
        /\ \/ records'[r] = records[r]
           \/ records'[r].phase = "created" /\ records'[r].name = n
    BY <1>1, <1>6, <1>9 DEF Phases
  <2>3. PhaseTells(r)'
    BY <1>3, <1>4, <2>1, <2>2 DEF PhaseTells
  <2>4. CreateTells(h)'
    <3>1. CASE pc'[h] \in {"idle", "clearAdopted"}
      BY <3>1, Elsewhere DEF SetupSteps, CreatedSteps, LimitedSteps
    <3>2. CASE pc'[h] \notin {"idle", "clearAdopted"}
      <4>1. /\ pc'[h] = "clearAfterClone" /\ call'[h] = call[h]
            /\ Saved(r, Local(h, "created"))
        BY <1>1, <1>9, <3>2 DEF Goto, Return, TypeOK, HelperTypes
      <4>2. records'[r].phase = "created"
        BY <1>7, <4>1 DEF Phases
      <4> QED BY <1>1, <4>1, <4>2 DEF CreateTells, LimitedSteps,
                 EnqueuedSteps
    <3> QED BY <3>1, <3>2
  <2> QED BY <1>8, <2>2, <2>3, <2>4
<1>10. CASE SaveBootstrapping(h)
  <2>1. records[r].phase = "created" /\ queued[n] = 0 /\ caps[n] = "full"
    BY <1>1, <1>3, <1>10 DEF CreateTells, CreatedSteps, LimitedSteps,
       PhaseTells
  <2>2. /\ \A q \in Runners \ {r} : records'[q] = records[q]
        /\ \/ records'[r] = records[r]
           \/ records'[r].phase = "bootstrapping" /\ records'[r].name = n
    BY <1>1, <1>6, <1>10 DEF Phases
  <2>3. PhaseTells(r)'
    BY <1>3, <1>4, <2>1, <2>2 DEF PhaseTells
  <2>4. CreateTells(h)'
    <3>1. CASE pc'[h] = "saveDeleting"
      BY <3>1, Elsewhere DEF SetupSteps, CreatedSteps, LimitedSteps
    <3>2. CASE pc'[h] # "saveDeleting"
      <4>1. /\ pc'[h] = "inject" /\ call'[h] = call[h]
            /\ Saved(r, Local(h, "bootstrapping"))
        BY <1>1, <1>10, <3>2 DEF Goto, TypeOK, HelperTypes
      <4>2. records'[r].phase = "bootstrapping"
        BY <1>7, <4>1 DEF Phases
      <4> QED BY <1>1, <1>4, <2>1, <4>1, <4>2 DEF CreateTells, CreatedSteps,
                 EnqueuedSteps
    <3> QED BY <3>1, <3>2
  <2> QED BY <1>8, <2>2, <2>3, <2>4
<1>11. CASE SaveActive(h)
  <2>1. queued[n] = 1 /\ caps[n] = "full"
    BY <1>1, <1>3, <1>11 DEF CreateTells, EnqueuedSteps, LimitedSteps
  <2>2. /\ \A q \in Runners \ {r} : records'[q] = records[q]
        /\ \/ records'[r] = records[r]
           \/ records'[r].phase = "active" /\ records'[r].name = n
    BY <1>1, <1>6, <1>11 DEF Phases
  <2>3. PhaseTells(r)'
    BY <1>3, <1>4, <2>1, <2>2 DEF PhaseTells
  <2>4. pc'[h] = "idle"
    BY <1>11 DEF Return, TypeOK, HelperTypes
  <2>5. CreateTells(h)'
    BY <2>4, Elsewhere DEF SetupSteps, CreatedSteps, LimitedSteps
  <2> QED BY <1>8, <2>2, <2>3, <2>5
<1>12. CASE SaveDeleting(h)
  <2>1. /\ \A q \in Runners \ {r} : records'[q] = records[q]
        /\ \/ records'[r] = records[r]
           \/ records'[r].phase = "deleting" /\ records'[r].name = n
    BY <1>1, <1>6, <1>12 DEF Phases
  <2>2. PhaseTells(r)'
    BY <1>3, <1>4, <2>1 DEF PhaseTells
  <2>3. pc'[h] \in {"idle", "owned"}
    BY <1>12 DEF Goto, Return, TypeOK, HelperTypes
  <2>4. CreateTells(h)'
    BY <2>3, Elsewhere DEF SetupSteps, CreatedSteps, LimitedSteps
  <2> QED BY <1>8, <2>1, <2>2, <2>4
<1> QED BY <1>9, <1>10, <1>11, <1>12

-----------------------------------------------------------------------------
LEMMA SetupStep ==
    ASSUME TypeOK, TypeOK', IInv, SetupInv, [Next]_vars
    PROVE  SetupInv'
<1>1. ASSUME NEW h \in Helpers, Call(h) \/ HelperStep(h) PROVE SetupInv'
  BY <1>1, CallsElsewhere, MovesElsewhere, SetupMoves, SetupSettings,
     SetupInjects, SetupLifts, SetupReserves, SetupRemoves, SetupSaves
     DEF HelperStep, CreateStep, DeleteStep, OtherStep
<1>2. ASSUME NEW h \in Helpers, ReadFails(h) \/ KillHelper(h)
      PROVE  SetupInv'
  BY <1>2, MovesElsewhere
<1>3. ASSUME NEW n \in Names,
             \/ ChildSucceeds(n) \/ ChildFails(n) \/ BackendCopies(n)
             \/ BackendDrops(n) \/ GuestStops(n) \/ UserDeletes(n)
      PROVE  SetupInv'
  BY <1>3, OrbElsewhere
<1>4. CASE UNCHANGED vars
  BY <1>4, Unwritten DEF vars
<1> QED BY <1>1, <1>2, <1>3, <1>4 DEF Next, OrbStep, Environment

LEMMA SetupInit == Init => SetupInv
BY DEF Init, SetupInv, PhaseTells, QueuedOnce, CreateTells, CreatedSteps,
   LimitedSteps, EnqueuedSteps, NoRecord, Record

(* What limits and bootstraps stand at each step and in each phase.        *)
THEOREM SetupInvariance == Spec => []SetupInv
<1>1. TypeOK /\ IInv /\ SetupInv /\ [Next]_vars /\ (TypeOK /\ IInv)'
        => SetupInv'
  BY SetupStep
<1> QED BY <1>1, SetupInit, Invariance, PTL DEF Spec

(* The bootstrap, with its registration secret, reaches a machine once, in *)
(* its limits, and never before the record says so (CreateInstance); and   *)
(* the machine loses a limit only to a deletion on record (deleteRecord).  *)
THEOREM EnqueuedOnce == Spec => []BootstrapOnce
<1>1. TypeOK /\ IInv /\ SetupInv => BootstrapOnce
  <2> SUFFICES ASSUME TypeOK, IInv, SetupInv, NEW n \in Names, queued[n] > 0
               PROVE  /\ queued[n] = 1 /\ caps[n] \in {"full", "lifted"}
                      /\ \A r \in Runners : records[r].id = n =>
                            /\ records[r].phase \in
                                  {"bootstrapping", "active", "deleting"}
                            /\ caps[n] = "lifted" =>
                                  records[r].phase = "deleting"
    BY DEF BootstrapOnce
  <2>1. queued[n] = 1 /\ caps[n] \in {"full", "lifted"}
    BY DEF SetupInv, QueuedOnce
  <2>2. ASSUME NEW r \in Runners, records[r].id = n
        PROVE  /\ records[r].phase \in {"bootstrapping", "active", "deleting"}
               /\ caps[n] = "lifted" => records[r].phase = "deleting"
    <3>1. records[r] # NoRecord /\ RecordInv(r)
      BY <2>2 DEF IInv, NoRecord, Record
    <3>2. records[r].name = n /\ records[r].phase \in Phases \ {"reserved"}
      BY <2>2, <3>1 DEF RecordInv
    <3>3. records[r].phase # "created"
      BY <3>2, <2>1 DEF SetupInv, PhaseTells
    <3>4. caps[n] = "lifted" =>
             records[r].phase \notin {"bootstrapping", "active"}
      BY <3>2 DEF SetupInv, PhaseTells
    <3> QED BY <3>2, <3>3, <3>4 DEF Phases
  <2> QED BY <2>1, <2>2
<1> QED BY <1>1, Invariance, SetupInvariance, PTL

(* An active runner has its limits and its one bootstrap (SaveActive comes *)
(* after both).                                                            *)
THEOREM ActiveMeansComplete == Spec => []ActiveIsComplete
<1>1. IInv /\ SetupInv => ActiveIsComplete
  <2> SUFFICES ASSUME IInv, SetupInv, NEW r \in Runners,
                      records[r].phase = "active"
               PROVE  queued[records[r].id] = 1 /\ caps[records[r].id] = "full"
    BY DEF ActiveIsComplete
  <2>1. records[r].id = records[r].name
    BY DEF IInv, RecordInv, NoRecord, Record
  <2> QED BY <2>1 DEF SetupInv, PhaseTells
<1> QED BY <1>1, Invariance, SetupInvariance, PTL

(* The two ways to a machine that runs without all of its limits: a Start  *)
(* call boots one whose CREATE never reached or failed ApplySettings or    *)
(* whose deletion failed, or a deletion lifts the limit of one that runs   *)
(* (provider.go:539, cli.go:280).                                          *)
THEOREM TwoWaysEvadeLimits == Spec => LimitsEvaded
<1> USE DEF TypeOK, OrbTypes, HelperTypes
<1>1. ASSUME TypeOK, IInv, SetupInv, [Next]_vars, NEW n \in Names,
             Unlimited(n)', ~Unlimited(n)
      PROVE  \E h \in Helpers :
                LET phase == records[call[h].runner].phase IN
                /\ call[h].id = n
                /\ \/ /\ Power(h) /\ call[h].op = "start"
                      /\ phase \in {"created", "deleting"}
                   \/ Lift(h) /\ phase = "deleting"
  <2>1. ASSUME NEW h \in Helpers, Power(h)
        PROVE  /\ call[h].op = "start" /\ call[h].id = n
               /\ records[call[h].runner].phase \in {"created", "deleting"}
    <3>1. caps' = caps /\ caps[n] # "full"
      BY <1>1, <2>1 DEF Power, Unlimited
    <3>2. call[h].op = "start" /\ call[h].id = n
      BY <1>1, <2>1, <3>1 DEF Power, Unlimited
    <3>3. HelperInv(h) /\ pc[h] \in MachineSteps /\ pc[h] # "idle"
      BY <1>1, <2>1 DEF IInv, Power, MachineSteps
    <3>4. /\ call[h].runner \in Runners
          /\ records[call[h].runner].id = n
      BY <3>2, <3>3 DEF HelperInv
    <3>5. RecordInv(call[h].runner) /\ PhaseTells(call[h].runner)
      BY <1>1, <3>4 DEF IInv, SetupInv
    <3>6. records[call[h].runner].phase \in Phases \ {"reserved"}
      BY <3>4, <3>5, LifecycleAssumption DEF RecordInv, NoRecord, Record
    <3>7. records[call[h].runner].name = n
      BY <3>4, <3>5, <3>6, LifecycleAssumption DEF RecordInv, NoRecord, Record
    <3> QED BY <3>1, <3>2, <3>5, <3>6, <3>7 DEF PhaseTells, Phases
  <2>2. ASSUME NEW h \in Helpers, Boot(h) PROVE FALSE
    <3>1. caps' = caps /\ machine'[n] # machine[n]
      BY <1>1, <2>2 DEF Boot, MachineGone, machineVars, Unlimited
    <3>2. call[h].id = n
      BY <1>1, <2>2, <3>1 DEF Boot, MachineGone, machineVars
    <3>3. HelperInv(h) /\ CreateTells(h) /\ pc[h] = "boot"
      BY <1>1, <2>2 DEF IInv, SetupInv, Boot
    <3>4. caps[n] = "full"
      BY <3>2, <3>3 DEF HelperInv, MachineSteps, CreateTells, LimitedSteps
    <3> QED BY <1>1, <3>1, <3>4 DEF Unlimited
  <2>3. ASSUME NEW h \in Helpers, ApplySettings(h) PROVE FALSE
    <3>1. machine' = machine /\ caps'[n] # caps[n]
      BY <1>1, <2>3 DEF ApplySettings, MachineGone, machineVars, Unlimited
    <3>2. call[h].id = n
      BY <1>1, <2>3, <3>1 DEF ApplySettings, MachineGone, machineVars
    <3>3. HelperInv(h) /\ pc[h] = "settings"
      BY <1>1, <2>3 DEF IInv, ApplySettings
    <3>4. machine[n] # "running"
      BY <3>2, <3>3 DEF HelperInv, MachineSteps
    <3> QED BY <1>1, <3>1, <3>4 DEF Unlimited
  <2>4. ASSUME NEW h \in Helpers,
               \/ Call(h) \/ ReadFails(h) \/ KillHelper(h)
               \/ HelperStep(h) /\ ~Power(h) /\ ~Boot(h) /\ ~ApplySettings(h)
                                /\ ~Lift(h)
        PROVE  caps' = caps /\ machine'[n] \in {machine[n], "deleted"}
    <3>1. CASE Destroy(h)
      BY <1>1, <3>1 DEF Destroy
    <3>2. CASE \/ Call(h) \/ ReadFails(h) \/ KillHelper(h)
               \/ HelperStep(h) /\ ~Power(h) /\ ~Boot(h) /\ ~ApplySettings(h)
                                /\ ~Lift(h) /\ ~Destroy(h)
      <4>1. UNCHANGED <<caps, machine>>
        BY <3>2 DEF Call, HelperStep, CreateStep, DeleteStep, OtherStep,
           orbVars, machineVars, CallCreate, CallOn, ReadFails, KillHelper,
           LockInstance, LockRefused, Recheck, Reserve, LockTemplate,
           TemplateTimeout, Validate, Undo, MarkIntent, Spawn, Unmark, Wait,
           Identify, SaveCreated, ClearAfterClone, CheckStopped,
           SaveBootstrapping, InjectBootstrap, MachineGone, Observe,
           SaveActive, SaveDeleting, Owned, Confirm, Uncertain, ConfirmName,
           Clear, Remove, Adopt, SaveAdopted, ClearAdopted
      <4> QED BY <4>1
    <3> QED BY <2>4, <3>1, <3>2
  <2>5. ASSUME NEW m \in Names,
               \/ ChildSucceeds(m) \/ ChildFails(m) \/ BackendCopies(m)
               \/ BackendDrops(m) \/ GuestStops(m) \/ UserDeletes(m)
        PROVE  caps' = caps /\ machine'[n] \in {machine[n], "stopped", "deleted"}
    <3>1. CASE ChildSucceeds(m) \/ ChildFails(m) \/ BackendDrops(m)
      BY <3>1 DEF ChildSucceeds, ChildFails, BackendDrops, machineVars
    <3>2. CASE BackendCopies(m) \/ GuestStops(m) \/ UserDeletes(m)
      <4>1. /\ caps' = caps
            /\ \E s \in {"stopped", "deleted"} :
                  machine' = [machine EXCEPT ![m] = s]
        BY <3>2 DEF BackendCopies, GuestStops, UserDeletes
      <4> QED BY <1>1, <4>1
    <3> QED BY <2>5, <3>1, <3>2
  <2>6. CASE UNCHANGED vars
    BY <1>1, <2>6 DEF vars, Unlimited
  <2>7. ASSUME NEW h \in Helpers,
               Call(h) \/ HelperStep(h) \/ ReadFails(h) \/ KillHelper(h)
        PROVE  Power(h) \/ Lift(h)
    BY <1>1, <2>2, <2>3, <2>4, <2>7 DEF Unlimited
  <2>8. ASSUME NEW m \in Names,
               \/ OrbStep(m) \/ ChildFails(m) \/ BackendDrops(m)
               \/ GuestStops(m) \/ UserDeletes(m)
        PROVE  FALSE
    BY <1>1, <2>5, <2>8 DEF OrbStep, Unlimited
  <2>9. ASSUME NEW h \in Helpers, Lift(h)
        PROVE  /\ call[h].id = n
               /\ records[call[h].runner].phase = "deleting"
    <3>1. machine' = machine /\ caps'[n] # caps[n]
      BY <1>1, <2>9 DEF Lift, Unlimited
    <3>2. call[h].id = n
      BY <1>1, <2>9, <3>1 DEF Lift
    <3>3. HelperInv(h) /\ pc[h] = "lift"
      BY <1>1, <2>9 DEF IInv, Lift
    <3> QED BY <3>2, <3>3 DEF HelperInv
  <2> QED BY <1>1, <2>1, <2>6, <2>7, <2>8, <2>9 DEF Next, Environment
<1>2. TypeOK /\ IInv /\ SetupInv /\ [Next]_vars =>
        [\A n \in Names : Unlimited(n)' /\ ~Unlimited(n) =>
          \E h \in Helpers :
             LET phase == records[call[h].runner].phase IN
             /\ call[h].id = n
             /\ \/ /\ Power(h) /\ call[h].op = "start"
                   /\ phase \in {"created", "deleting"}
                \/ Lift(h) /\ phase = "deleting"]_vars
  BY <1>1
<1> QED BY <1>2, Invariance, SetupInvariance, PTL DEF Spec, LimitsEvaded

-----------------------------------------------------------------------------
(* What the liveness properties rest on: a call only moves forward, and it *)
(* gives up its work only for a failure that happened during it.           *)

(* The most steps a call can still take, counted from each step.           *)
StepsLeft(s) ==
    CASE s = "idle" -> 0
      [] s \in {"remove", "undo", "power", "clearAdopted", "saveActive"} -> 1
      [] s \in {"clear", "unmark", "saveAdopted"} -> 2
      [] s \in {"confirm", "confirmName", "adopt"} -> 3
      [] s \in {"destroy", "uncertain"} -> 4
      [] s = "lift" -> 5
      [] s = "owned" -> 6
      [] s = "saveDeleting" -> 7
      [] s = "observe" -> 8
      [] s = "inject" -> 9
      [] s = "saveBootstrapping" -> 10
      [] s = "boot" -> 11
      [] s = "settings" -> 12
      [] s = "checkStopped" -> 13
      [] s = "clearAfterClone" -> 14
      [] s = "saveCreated" -> 15
      [] s = "identify" -> 16
      [] s = "wait" -> 17
      [] s = "spawn" -> 18
      [] s = "markIntent" -> 19
      [] s = "validate" -> 20
      [] s = "lockTemplate" -> 21
      [] s \in {"reserve", "recheck"} -> 22
      [] s = "lock" -> 23

(* Every step of a call's own brings it nearer to its end, nothing moves   *)
(* it back, and no call takes the place of another before that has ended:  *)
(* no operation of the provider retries inside one call.                   *)
CallsAdvance ==
    [][\A h \in Helpers :
          /\ HelperStep(h) => StepsLeft(pc'[h]) < StepsLeft(pc[h])
          /\ pc[h] # "idle" =>
                \/ pc'[h] = pc[h] /\ call'[h] = call[h]
                \/ StepsLeft(pc'[h]) < StepsLeft(pc[h])]_vars

UnfaultedReturn(h) == pc[h] # "idle" /\ pc'[h] = "idle" /\ faults' = faults

(* A call that returns without a failure at that step has done its work: a *)
(* deletion, GARM's or that of a failed CREATE, removed the record, unless *)
(* another actor deletes its machine right before the rename; an           *)
(* adoption gave the reservation its machine, unless there is none; and a  *)
(* release the operator asked for stops only before a machine that exists. *)
(* A retry can so be stopped only by a new failure (provider.go:437-508).  *)
CallsAccomplish ==
    [][\A h \in Helpers : UnfaultedReturn(h) =>
          /\ pc[h] \in CleanupSteps =>
                \/ records'[call[h].runner] = NoRecord
                \/ pc[h] = "destroy" /\ call[h].id \notin Inventory
          /\ pc[h] \in {"adopt", "saveAdopted", "clearAdopted"} =>
                \/ records'[call[h].runner].phase \in Phases \ {"reserved"}
                \/ call[h].name \notin Inventory
          /\ pc[h] \in {"uncertain", "confirmName"} /\ call[h].op = "release"
                => call[h].name \in Inventory]_vars

(* A machine that was deleted is not there when its deletion is confirmed. *)
ConfirmsDeleted ==
    \A h \in Helpers :
        pc[h] = "confirm" => machine[call[h].name] = "deleted"

LEMMA StepsLeftType ==
    ASSUME NEW s \in LockedSteps \cup {"lock"}
    PROVE  StepsLeft(s) > 0
<1>1. \A t \in {"lock", "reserve", "recheck", "lockTemplate"} :
          StepsLeft(t) > 0
  BY DEF StepsLeft
<1>2. \A t \in CloneSteps : StepsLeft(t) > 0
  BY DEF StepsLeft, CloneSteps
<1>3. \A t \in {"checkStopped", "settings", "boot", "saveBootstrapping",
                "inject", "observe", "saveActive"} : StepsLeft(t) > 0
  BY DEF StepsLeft
<1>4. \A t \in CleanupSteps : StepsLeft(t) > 0
  BY DEF StepsLeft, CleanupSteps
<1>5. \A t \in TargetSteps : StepsLeft(t) > 0
  BY DEF StepsLeft, TargetSteps
<1> QED BY <1>1, <1>2, <1>3, <1>4, <1>5 DEF LockedSteps, CreateSteps

(* A helper is moved by its own steps and failures only.                   *)
LEMMA OthersStand ==
    ASSUME TypeOK, NEW g \in Helpers, NEW h \in Helpers, g # h,
           Call(g) \/ HelperStep(g) \/ ReadFails(g) \/ KillHelper(g)
    PROVE  pc'[h] = pc[h] /\ call'[h] = call[h]
<1> USE DEF TypeOK, HelperTypes, Goto, Return, Learn
<1>1. CASE Call(g) \/ ReadFails(g) \/ KillHelper(g)
  BY <1>1 DEF Call, CallCreate, CallOn, ReadFails, KillHelper
<1>2. CASE CreateStep(g)
  <2>1. CASE \/ Reserve(g) \/ LockTemplate(g) \/ TemplateTimeout(g)
             \/ Validate(g) \/ Undo(g) \/ MarkIntent(g) \/ Spawn(g)
             \/ Unmark(g) \/ Wait(g) \/ Identify(g)
    BY <2>1 DEF Reserve, LockTemplate, TemplateTimeout, Validate, Undo,
       MarkIntent, Spawn, Unmark, Wait, Identify
  <2>2. CASE \/ SaveCreated(g) \/ ClearAfterClone(g) \/ CheckStopped(g)
             \/ ApplySettings(g) \/ Boot(g) \/ SaveBootstrapping(g)
             \/ InjectBootstrap(g) \/ Observe(g) \/ SaveActive(g)
    BY <2>2 DEF SaveCreated, ClearAfterClone, CheckStopped, ApplySettings,
       Boot, SaveBootstrapping, InjectBootstrap, MachineGone, Observe,
       SaveActive
  <2> QED BY <1>2, <2>1, <2>2 DEF CreateStep
<1>3. CASE DeleteStep(g)
  BY <1>3 DEF DeleteStep, SaveDeleting, Owned, Lift, Destroy, Confirm,
     Uncertain, ConfirmName, Clear, Remove
<1>4. CASE OtherStep(g)
  BY <1>4 DEF OtherStep, LockInstance, LockRefused, Recheck, Adopt,
     SaveAdopted, ClearAdopted, Power
<1> QED BY <1>1, <1>2, <1>3, <1>4 DEF HelperStep

(* The moves of a call, step by step.                                      *)
LEMMA Moves ==
    ASSUME TypeOK, NEW h \in Helpers, HelperStep(h)
    PROVE  StepsLeft(pc'[h]) < StepsLeft(pc[h])
<1> DEFINE From(s, T) == pc[h] = s /\ pc'[h] \in T
<1>0. ASSUME NEW s, NEW T, From(s, T), \A t \in T : StepsLeft(t) < StepsLeft(s)
      PROVE  StepsLeft(pc'[h]) < StepsLeft(pc[h])
  BY <1>0
<1>1. CASE CreateStep(h)
  <2>1. \/ From("reserve", {"idle", "lockTemplate"})
        \/ From("lockTemplate", {"idle", "validate"})
        \/ From("validate", {"markIntent", "undo"})
        \/ From("undo", {"idle"})
        \/ From("markIntent", {"spawn", "idle"})
        \/ From("spawn", {"wait", "unmark"})
        \/ From("unmark", {"undo", "idle"})
        \/ From("wait", {"identify", "idle"})
        \/ From("identify", {"saveCreated", "idle"})
        \/ From("saveCreated", {"clearAfterClone", "idle"})
        \/ From("clearAfterClone", {"checkStopped", "saveDeleting"})
        \/ From("checkStopped", {"settings", "saveDeleting"})
        \/ From("settings", {"boot", "saveDeleting"})
        \/ From("boot", {"saveBootstrapping", "saveDeleting"})
        \/ From("saveBootstrapping", {"inject", "saveDeleting"})
        \/ From("inject", {"observe", "saveDeleting"})
        \/ From("observe", {"saveActive", "saveDeleting"})
        \/ From("saveActive", {"idle"})
    <3> USE DEF TypeOK, HelperTypes, Goto, Return
    <3>1. CASE \/ Reserve(h) \/ LockTemplate(h) \/ TemplateTimeout(h)
               \/ Validate(h) \/ Undo(h) \/ MarkIntent(h) \/ Spawn(h)
               \/ Unmark(h) \/ Wait(h) \/ Identify(h)
      BY <3>1 DEF Reserve, LockTemplate, TemplateTimeout, Validate, Undo,
         MarkIntent, Spawn, Unmark, Wait, Identify
    <3>2. CASE \/ SaveCreated(h) \/ ClearAfterClone(h) \/ CheckStopped(h)
               \/ ApplySettings(h) \/ Boot(h)
      BY <3>2 DEF SaveCreated, ClearAfterClone, CheckStopped, ApplySettings,
         Boot, MachineGone
    <3>3. CASE \/ SaveBootstrapping(h) \/ InjectBootstrap(h) \/ Observe(h)
               \/ SaveActive(h)
      BY <3>3 DEF SaveBootstrapping, InjectBootstrap, MachineGone, Observe,
         SaveActive
    <3> QED BY <1>1, <3>1, <3>2, <3>3 DEF CreateStep
  <2> QED BY <2>1 DEF StepsLeft
<1>2. CASE DeleteStep(h)
  <2>1. \/ From("saveDeleting", {"owned", "idle"})
        \/ From("owned", {"lift", "confirm"})
        \/ From("lift", {"destroy", "confirm"})
        \/ From("destroy", {"confirm", "idle"})
        \/ From("confirm", {"clear", "idle"})
        \/ From("uncertain", {"confirmName", "idle"})
        \/ From("confirmName", {"clear", "idle"})
        \/ From("clear", {"remove", "idle"})
        \/ From("remove", {"idle"})
    BY <1>2 DEF DeleteStep, SaveDeleting, Owned, Lift, Destroy, Confirm,
       Uncertain, ConfirmName, Clear, Remove, TypeOK, HelperTypes, Goto, Return
  <2> QED BY <2>1 DEF StepsLeft
<1>3. CASE OtherStep(h)
  <2>1. \/ From("lock", {"reserve", "recheck", "idle"})
        \/ From("recheck", {"power", "adopt", "uncertain", "saveDeleting",
                            "idle"})
        \/ From("adopt", {"saveAdopted", "idle"})
        \/ From("saveAdopted", {"clearAdopted", "idle"})
        \/ From("clearAdopted", {"idle"})
        \/ From("power", {"idle"})
    BY <1>3 DEF OtherStep, LockInstance, LockRefused, Recheck, AfterRecheck,
       Adopt, SaveAdopted, ClearAdopted, Power, TypeOK, HelperTypes, Goto,
       Return
  <2> QED BY <2>1 DEF StepsLeft
<1> QED BY <1>1, <1>2, <1>3 DEF HelperStep

(* No call loops or is pushed back: it ends after at most 23 steps of its  *)
(* own, so that its deadline and its locks are the only waits it has.      *)
THEOREM CallsMoveForward == Spec => CallsAdvance
<1>1. ASSUME TypeOK, [Next]_vars, NEW h \in Helpers, pc[h] # "idle"
      PROVE  \/ pc'[h] = pc[h] /\ call'[h] = call[h]
             \/ StepsLeft(pc'[h]) < StepsLeft(pc[h])
  <2> USE DEF TypeOK, HelperTypes
  <2>1. CASE Call(h)
    BY <1>1, <2>1 DEF Call, CallCreate, CallOn
  <2>2. CASE HelperStep(h)
    BY <1>1, <2>2, Moves
  <2>3. CASE ReadFails(h) \/ KillHelper(h)
    <3>1. \/ pc'[h] = "idle"
          \/ pc[h] \in {"checkStopped", "observe"} /\ pc'[h] = "saveDeleting"
      BY <1>1, <2>3 DEF ReadFails, KillHelper, Goto, Return
    <3>2. StepsLeft(pc[h]) > 0
      BY <1>1, StepsLeftType
    <3>3. StepsLeft("idle") = 0
      BY DEF StepsLeft
    <3>4. ASSUME pc[h] \in {"checkStopped", "observe"}
          PROVE  StepsLeft("saveDeleting") < StepsLeft(pc[h])
      BY <3>4 DEF StepsLeft
    <3> QED BY <3>1, <3>2, <3>3, <3>4
  <2>4. ASSUME NEW g \in Helpers, g # h,
               Call(g) \/ HelperStep(g) \/ ReadFails(g) \/ KillHelper(g)
        PROVE  pc'[h] = pc[h] /\ call'[h] = call[h]
    BY <1>1, <2>4, OthersStand
  <2>5. ASSUME NEW n \in Names,
               \/ OrbStep(n) \/ ChildFails(n) \/ BackendDrops(n)
               \/ GuestStops(n) \/ UserDeletes(n)
        PROVE  pc' = pc /\ call' = call
    BY <2>5 DEF OrbStep, ChildSucceeds, ChildFails, BackendCopies,
       BackendDrops, GuestStops, UserDeletes
  <2>6. CASE UNCHANGED vars
    BY <2>6 DEF vars
  <2> QED BY <1>1, <2>1, <2>2, <2>3, <2>4, <2>5, <2>6 DEF Next, Environment
<1>2. TypeOK /\ [Next]_vars =>
        [\A h \in Helpers :
          /\ HelperStep(h) => StepsLeft(pc'[h]) < StepsLeft(pc[h])
          /\ pc[h] # "idle" =>
                \/ pc'[h] = pc[h] /\ call'[h] = call[h]
                \/ StepsLeft(pc'[h]) < StepsLeft(pc[h])]_vars
  BY <1>1, Moves
<1> QED BY <1>2, Typing, PTL DEF Spec, CallsAdvance

(* A machine once deleted stays so: its name is not cloned to again.       *)
LEMMA DeletedStays ==
    ASSUME TypeOK, IInv, [Next]_vars, NEW n \in Names, machine[n] = "deleted"
    PROVE  machine'[n] = "deleted"
<1> USE DEF TypeOK, OrbTypes
<1>1. ASSUME NEW h \in Helpers, Call(h) \/ ReadFails(h) \/ KillHelper(h)
      PROVE  machine' = machine
  BY <1>1 DEF Call, CallCreate, CallOn, ReadFails, KillHelper, orbVars
<1>2. ASSUME NEW h \in Helpers, HelperStep(h)
      PROVE  machine'[n] = "deleted"
  <2>1. CASE Boot(h) \/ Power(h)
    BY <2>1 DEF Boot, Power, MachineGone, machineVars, Inventory
  <2>2. CASE Destroy(h)
    BY <2>2 DEF Destroy
  <2>3. CASE CreateStep(h) /\ ~Boot(h)
    BY <2>3 DEF CreateStep, orbVars, machineVars, Reserve, LockTemplate,
       TemplateTimeout, Validate, Undo, MarkIntent, Spawn, Unmark, Wait,
       Identify, SaveCreated, ClearAfterClone, CheckStopped, ApplySettings,
       SaveBootstrapping, InjectBootstrap, MachineGone, Observe, SaveActive
  <2>4. CASE DeleteStep(h) /\ ~Destroy(h)
    BY <2>4 DEF DeleteStep, orbVars, SaveDeleting, Owned, Lift, Confirm,
       Uncertain, ConfirmName, Clear, Remove
  <2>5. CASE OtherStep(h) /\ ~Power(h)
    BY <2>5 DEF OtherStep, orbVars, LockInstance, LockRefused, Recheck, Adopt,
       SaveAdopted, ClearAdopted
  <2> QED BY <1>2, <2>1, <2>2, <2>3, <2>4, <2>5 DEF HelperStep
<1>3. ASSUME NEW m \in Names,
             \/ OrbStep(m) \/ ChildFails(m) \/ BackendDrops(m)
             \/ GuestStops(m) \/ UserDeletes(m)
      PROVE  machine'[n] = "deleted"
  <2>1. CASE BackendCopies(m)
    <3>1. m # n
      BY <2>1 DEF BackendCopies, IInv, MachineInv
    <3> QED BY <2>1, <3>1 DEF BackendCopies
  <2>2. CASE ~BackendCopies(m)
    BY <1>3, <2>2 DEF OrbStep, ChildSucceeds, ChildFails, BackendDrops,
       GuestStops, UserDeletes, machineVars
  <2> QED BY <2>1, <2>2
<1>4. CASE UNCHANGED vars
  BY <1>4 DEF vars
<1> QED BY <1>1, <1>2, <1>3, <1>4 DEF Next, Environment

(* The confirmation is reached from a machine that is absent, or deleted.  *)
LEMMA ConfirmsStep ==
    ASSUME TypeOK, IInv, ConfirmsDeleted, [Next]_vars
    PROVE  ConfirmsDeleted'
<1> SUFFICES ASSUME NEW h \in Helpers, pc'[h] = "confirm"
             PROVE  machine'[call'[h].name] = "deleted"
  BY DEF ConfirmsDeleted
<1> USE DEF TypeOK, HelperTypes, OrbTypes
<1>1. CASE pc[h] = "confirm" /\ call'[h] = call[h]
  <2>1. call[h].name \in Names /\ machine[call[h].name] = "deleted"
    BY <1>1, Own DEF ConfirmsDeleted, BoundSteps, LockedSteps, CleanupSteps
  <2> QED BY <1>1, <2>1, DeletedStays
<1>2. CASE Owned(h) \/ Lift(h)
  <2>1. /\ pc[h] \in {"owned", "lift"} /\ call[h].id \notin Inventory
        /\ UNCHANGED <<machine, call>>
    BY <1>2 DEF Owned, Lift, Goto, orbVars
  <2>2. /\ call[h].name \in Names /\ call[h].id = call[h].name
        /\ RecordInv(call[h].runner) /\ records[call[h].runner] # NoRecord
        /\ records[call[h].runner].name = call[h].name
        /\ records[call[h].runner].phase = "deleting"
    BY <2>1, Own DEF HelperInv, MachineSteps, BoundSteps, LockedSteps,
       CleanupSteps
  <2>3. machine[call[h].name] # "absent"
    BY <2>2 DEF RecordInv
  <2> QED BY <2>1, <2>2, <2>3 DEF Inventory
<1>3. CASE Destroy(h)
  <2>1. /\ pc[h] = "destroy" /\ call' = call
        /\ machine' = [machine EXCEPT ![call[h].id] = "deleted"]
    BY <1>3 DEF Destroy, Goto, Return
  <2>2. call[h].name \in Names /\ call[h].id = call[h].name
    BY <2>1, Own DEF HelperInv, MachineSteps, BoundSteps, LockedSteps,
       CleanupSteps
  <2> QED BY <2>1, <2>2
<1>4. CASE HelperStep(h) /\ ~Owned(h) /\ ~Lift(h) /\ ~Destroy(h)
  <2>1. ASSUME CreateStep(h) PROVE FALSE
    BY <2>1 DEF CreateStep, Goto, Return, Reserve, LockTemplate,
       TemplateTimeout, Validate, Undo, MarkIntent, Spawn, Unmark, Wait,
       Identify, SaveCreated, ClearAfterClone, CheckStopped, ApplySettings,
       Boot, SaveBootstrapping, InjectBootstrap, MachineGone, Observe,
       SaveActive
  <2>2. ASSUME DeleteStep(h) PROVE FALSE
    BY <1>4, <2>2 DEF DeleteStep, Goto, Return, SaveDeleting, Confirm,
       Uncertain, ConfirmName, Clear, Remove
  <2>3. ASSUME OtherStep(h) PROVE FALSE
    BY <2>3 DEF OtherStep, Goto, Return, LockInstance, LockRefused, Recheck,
       AfterRecheck, Adopt, SaveAdopted, ClearAdopted, Power
  <2> QED BY <1>4, <2>1, <2>2, <2>3 DEF HelperStep
<1>5. ASSUME Call(h) \/ ReadFails(h) \/ KillHelper(h) PROVE FALSE
  BY <1>5 DEF Call, CallCreate, CallOn, ReadFails, KillHelper, Goto, Return
<1>6. ASSUME NEW g \in Helpers, g # h,
             Call(g) \/ HelperStep(g) \/ ReadFails(g) \/ KillHelper(g)
      PROVE  pc[h] = "confirm" /\ call'[h] = call[h]
  BY <1>6, OthersStand
<1>7. ASSUME NEW m \in Names,
             \/ OrbStep(m) \/ ChildFails(m) \/ BackendDrops(m)
             \/ GuestStops(m) \/ UserDeletes(m)
      PROVE  pc[h] = "confirm" /\ call'[h] = call[h]
  BY <1>7 DEF OrbStep, ChildSucceeds, ChildFails, BackendCopies,
     BackendDrops, GuestStops, UserDeletes
<1>8. CASE UNCHANGED vars
  BY <1>1, <1>8 DEF vars
<1> QED BY <1>1, <1>2, <1>3, <1>4, <1>5, <1>6, <1>7, <1>8
        DEF Next, Environment

THEOREM ConfirmsInvariance == Spec => []ConfirmsDeleted
<1>1. Init => ConfirmsDeleted
  BY DEF Init, ConfirmsDeleted
<1>2. TypeOK /\ IInv /\ ConfirmsDeleted /\ [Next]_vars => ConfirmsDeleted'
  BY ConfirmsStep
<1>3. ConfirmsDeleted /\ UNCHANGED vars => ConfirmsDeleted'
  BY DEF ConfirmsDeleted, vars
<1> QED BY <1>1, <1>2, <1>3, Invariance, PTL DEF Spec

(* The saves of a deletion and of an adoption are always legal changes.    *)
LEMMA SavesAreLegal ==
    ASSUME TypeOK, IInv, NEW h \in Helpers
    PROVE  /\ pc[h] = "saveDeleting" =>
                 CanSave(call[h].runner, Local(h, "deleting"))
           /\ pc[h] = "saveAdopted" =>
                 CanSave(call[h].runner, Local(h, "created"))
<1> DEFINE r == call[h].runner
           n == call[h].name
<1> SUFFICES ASSUME pc[h] \in {"saveDeleting", "saveAdopted"}
             PROVE  /\ pc[h] = "saveDeleting" =>
                          CanSave(r, Local(h, "deleting"))
                    /\ pc[h] = "saveAdopted" => CanSave(r, Local(h, "created"))
  OBVIOUS
<1>1. pc[h] \in BoundSteps
  BY DEF BoundSteps, LockedSteps, CleanupSteps, TargetSteps
<1>2. /\ r \in Runners /\ n \in Names
      /\ HelperInv(h) /\ RecordInv(r) /\ records[r] # NoRecord
      /\ records[r].name = n
  BY <1>1, Own DEF BoundSteps
<1>3. call[h].id = n
  BY <1>2 DEF HelperInv, MachineSteps
<1>4. ASSUME NEW q \in Runners \ {r} PROVE records[q].id # n
  <2>1. CASE records[q] = NoRecord
    BY <1>2, <2>1 DEF NoRecord, Record
  <2>2. CASE records[q] # NoRecord
    <3>1. RecordInv(q) /\ owner[n] = r
      BY <1>2 DEF IInv, RecordInv
    <3>2. records[q].name # n
      BY <2>2, <3>1 DEF RecordInv
    <3>3. records[q].id = NoName \/ records[q].id = records[q].name
      BY <2>2, <3>1 DEF RecordInv
    <3> QED BY <1>2, <3>2, <3>3
  <2> QED BY <2>1, <2>2
<1>5. ASSUME pc[h] = "saveDeleting"
      PROVE  CanSave(r, Local(h, "deleting"))
  <2>1. records[r].id = n
    BY <1>2, <1>5 DEF HelperInv, MachineSteps
  <2>2. records[r].phase \in Phases \ {"reserved"}
    BY <1>2, <2>1 DEF RecordInv
  <2>3. records[r] = Record(n, n, records[r].phase)
    BY <1>2, <2>1 DEF TypeOK, RegistryTypes, Records, Record
  <2>4. Local(h, "deleting") = Record(n, n, "deleting")
    BY <1>3 DEF Local
  <2> QED BY <1>2, <1>4, <2>1, <2>2, <2>3, <2>4
          DEF CanSave, Record, Phases, PhaseOrder
<1>6. ASSUME pc[h] = "saveAdopted" PROVE CanSave(r, Local(h, "created"))
  <2>1. records[r].phase = "reserved" /\ records[r].id = NoName
    BY <1>2, <1>6 DEF HelperInv, ReservedSteps, RecordInv
  <2>2. Local(h, "created") = Record(n, n, "created")
    BY <1>3 DEF Local
  <2> QED BY <1>2, <1>4, <2>1, <2>2 DEF CanSave, Record, PhaseOrder
<1> QED BY <1>5, <1>6

(* What a call that is deleting, adopting or releasing leaves undone, it   *)
(* leaves for a failure, so that a retry without one completes it          *)
(* (deleteRecord, releaseReservation, Recover).                            *)
THEOREM CallsDoTheirWork == Spec => CallsAccomplish
<1>1. ASSUME TypeOK, IInv, ConfirmsDeleted, [Next]_vars,
             NEW h \in Helpers, UnfaultedReturn(h)
      PROVE  /\ pc[h] \in CleanupSteps =>
                   \/ records'[call[h].runner] = NoRecord
                   \/ pc[h] = "destroy" /\ call[h].id \notin Inventory
             /\ pc[h] \in {"adopt", "saveAdopted", "clearAdopted"} =>
                   \/ records'[call[h].runner].phase \in Phases \ {"reserved"}
                   \/ call[h].name \notin Inventory
             /\ pc[h] \in {"uncertain", "confirmName"}
                /\ call[h].op = "release" => call[h].name \in Inventory
  <2> USE DEF UnfaultedReturn
  <2>0. ~Fault
    BY <1>1 DEF Fault, TypeOK
  <2>1. HelperStep(h) /\ pc[h] # "idle"
    <3>1. ASSUME Call(h) \/ ReadFails(h) \/ KillHelper(h) PROVE FALSE
      BY <1>1, <2>0, <3>1 DEF Call, CallCreate, CallOn, ReadFails, KillHelper
    <3>2. ASSUME NEW g \in Helpers, g # h,
                 Call(g) \/ HelperStep(g) \/ ReadFails(g) \/ KillHelper(g)
          PROVE  FALSE
      BY <1>1, <3>2, OthersStand
    <3>3. ASSUME NEW m \in Names,
                 \/ OrbStep(m) \/ ChildFails(m) \/ BackendDrops(m)
                 \/ GuestStops(m) \/ UserDeletes(m)
          PROVE  FALSE
      BY <1>1, <3>3 DEF OrbStep, ChildSucceeds, ChildFails, BackendCopies,
         BackendDrops, GuestStops, UserDeletes
    <3>4. ASSUME UNCHANGED vars PROVE FALSE
      BY <1>1, <3>4 DEF vars
    <3> QED BY <1>1, <3>1, <3>2, <3>3, <3>4 DEF Next, Environment
  <2>2. ASSUME pc[h] \in CleanupSteps
        PROVE  \/ records'[call[h].runner] = NoRecord
               \/ pc[h] = "destroy" /\ call[h].id \notin Inventory
    <3>1. pc[h] \in BoundSteps
      BY <2>2 DEF BoundSteps, LockedSteps, CleanupSteps
    <3>2. call[h].runner \in Runners
      BY <1>1, <3>1, Own DEF BoundSteps
    <3>3. DeleteStep(h)
      BY <2>1, <2>2 DEF HelperStep, CreateStep, OtherStep, CleanupSteps,
         Reserve, LockTemplate, TemplateTimeout, Validate, Undo, MarkIntent,
         Spawn, Unmark, Wait, Identify, SaveCreated, ClearAfterClone,
         CheckStopped, ApplySettings, Boot, SaveBootstrapping,
         InjectBootstrap, Observe, SaveActive, LockInstance, LockRefused,
         Recheck, Adopt, SaveAdopted, ClearAdopted, Power
    <3>4. ASSUME SaveDeleting(h) PROVE FALSE
      BY <1>1, <2>0, <3>4, SavesAreLegal
         DEF SaveDeleting, SaveFailed, Goto, TypeOK, HelperTypes
    <3>5. ASSUME Owned(h) \/ Lift(h) \/ Clear(h) PROVE FALSE
      BY <1>1, <2>0, <3>5
         DEF Owned, Lift, Clear, IntentClearFailed, Goto, TypeOK, HelperTypes
    <3>6. ASSUME Confirm(h) PROVE FALSE
      <4>1. pc[h] = "confirm" /\ call[h].id \in Inventory
        BY <1>1, <3>6 DEF Confirm, Goto, TypeOK, HelperTypes
      <4>2. call[h].id = call[h].name
        BY <1>1, <3>1, <4>1, Own DEF HelperInv, MachineSteps, BoundSteps
      <4> QED BY <1>1, <4>1, <4>2 DEF ConfirmsDeleted, Inventory
    <3>7. CASE Remove(h)
      BY <1>1, <2>0, <3>2, <3>7
         DEF Remove, Removed, RemoveFailed, TypeOK, RegistryTypes
    <3>8. ~Uncertain(h) /\ ~ConfirmName(h)
      BY <2>2 DEF Uncertain, ConfirmName, CleanupSteps
    <3>9. CASE Destroy(h)
      BY <1>1, <2>0, <3>9 DEF Destroy, Goto, TypeOK, HelperTypes
    <3> QED BY <3>3, <3>4, <3>5, <3>6, <3>7, <3>8, <3>9 DEF DeleteStep
  <2>3. ASSUME pc[h] \in {"adopt", "saveAdopted", "clearAdopted"}
        PROVE  \/ records'[call[h].runner].phase \in Phases \ {"reserved"}
               \/ call[h].name \notin Inventory
    <3>1. Adopt(h) \/ SaveAdopted(h) \/ ClearAdopted(h)
      BY <2>1, <2>3 DEF HelperStep, CreateStep, DeleteStep, OtherStep,
         Reserve, LockTemplate, TemplateTimeout, Validate, Undo, MarkIntent,
         Spawn, Unmark, Wait, Identify, SaveCreated, ClearAfterClone,
         CheckStopped, ApplySettings, Boot, SaveBootstrapping,
         InjectBootstrap, Observe, SaveActive, LockInstance, LockRefused,
         Recheck, Power, SaveDeleting, Owned, Lift, Destroy, Confirm,
         Uncertain, ConfirmName, Clear, Remove
    <3>2. CASE Adopt(h)
      BY <1>1, <3>2 DEF Adopt, TypeOK, HelperTypes
    <3>3. ASSUME SaveAdopted(h) PROVE FALSE
      BY <1>1, <2>0, <3>3, SavesAreLegal
         DEF SaveAdopted, SaveFailed, Goto, TypeOK, HelperTypes
    <3>4. CASE ClearAdopted(h)
      <4>1. pc[h] = "clearAdopted" /\ records' = records
        BY <3>4 DEF ClearAdopted
      <4>2. /\ HelperInv(h) /\ RecordInv(call[h].runner)
            /\ records[call[h].runner] # NoRecord
            /\ call[h].name \in Names
        BY <1>1, <4>1, Own DEF BoundSteps, LockedSteps, TargetSteps
      <4>3. records[call[h].runner].id = call[h].name
        BY <4>1, <4>2 DEF HelperInv, MachineSteps
      <4> QED BY <4>1, <4>2, <4>3 DEF RecordInv
    <3> QED BY <3>1, <3>2, <3>3, <3>4
  <2>4. ASSUME pc[h] \in {"uncertain", "confirmName"},
               call[h].op = "release"
        PROVE  call[h].name \in Inventory
    <3>1. Uncertain(h) \/ ConfirmName(h)
      BY <2>1, <2>4 DEF HelperStep, CreateStep, DeleteStep, OtherStep,
         Reserve, LockTemplate, TemplateTimeout, Validate, Undo, MarkIntent,
         Spawn, Unmark, Wait, Identify, SaveCreated, ClearAfterClone,
         CheckStopped, ApplySettings, Boot, SaveBootstrapping,
         InjectBootstrap, Observe, SaveActive, LockInstance, LockRefused,
         Recheck, Power, SaveDeleting, Owned, Lift, Destroy, Confirm, Clear,
         Remove, Adopt, SaveAdopted, ClearAdopted
    <3>2. ~Uncertain(h)
      BY <1>1, <2>4 DEF Uncertain, Goto, TypeOK, HelperTypes
    <3> QED BY <1>1, <3>1, <3>2 DEF ConfirmName, Goto, TypeOK, HelperTypes
  <2> QED BY <2>2, <2>3, <2>4
<1>2. TypeOK /\ IInv /\ ConfirmsDeleted /\ [Next]_vars =>
        [\A h \in Helpers : UnfaultedReturn(h) =>
          /\ pc[h] \in CleanupSteps =>
                \/ records'[call[h].runner] = NoRecord
                \/ pc[h] = "destroy" /\ call[h].id \notin Inventory
          /\ pc[h] \in {"adopt", "saveAdopted", "clearAdopted"} =>
                \/ records'[call[h].runner].phase \in Phases \ {"reserved"}
                \/ call[h].name \notin Inventory
          /\ pc[h] \in {"uncertain", "confirmName"} /\ call[h].op = "release"
                => call[h].name \in Inventory]_vars
  BY <1>1
<1> QED BY <1>2, Invariance, ConfirmsInvariance, PTL DEF Spec, CallsAccomplish
=============================================================================
