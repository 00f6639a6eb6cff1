-------------------------- MODULE RunnerLifecycle --------------------------
(***************************************************************************)
(* The provider's runner lifecycle (internal/provider/provider.go) over    *)
(* the registry (internal/state/registry.go) and OrbStack                  *)
(* (internal/orbstack/cli.go).                                             *)
(*                                                                         *)
(* GARM and the operator run short-lived helper processes, one call each.  *)
(* A helper is a program counter and the few locals its call keeps; every  *)
(* lock, registry transaction, orbctl invocation and intent-file operation *)
(* is a step of its own, so that calls interleave, fail and die between    *)
(* any two of them.  A registry transaction is one step because it runs    *)
(* under global.lock and publishes with one rename.                        *)
(*                                                                         *)
(* OrbStack gives every machine a fresh ID.  A reservation clones at most  *)
(* one machine, under the random name generated for it, so the machine     *)
(* cloned as n is written n for its ID too.                                *)
(***************************************************************************)
EXTENDS Naturals, FiniteSets

CONSTANTS
    Runners,        \* runner names GARM uses
    Helpers,        \* helper processes that may run at the same time
    Names,          \* generated machine names (a bound: 96 random bits)
    MaxInstances,   \* host.toml max_instances
    MaxFaults,      \* bound on the failures injected in one behaviour
    NoName,
    NoRunner

ASSUME LifecycleAssumption ==
    /\ NoName \notin Names
    /\ NoRunner \notin Runners
    /\ Runners \cap Names = {}
    /\ MaxInstances \in Nat \ {0}
    /\ MaxFaults \in Nat

VARIABLES
    records,    \* records.json: the record of each runner of this controller
    intents,    \* clone-intents/: runners whose clone may have been started
    owner,      \* the runner a generated name was reserved for (history)
    pc,         \* where each helper is
    call,       \* the locals of each helper's call
    child,      \* the orbctl clone process of each name
    backend,    \* names whose copy the OrbStack backend has not finished
    machine,    \* OrbStack's machines
    caps,       \* how much of the flavor is applied to each machine;
                \* "lifted": all of it was, and the disk limit is gone again
    queued,     \* bootstrap units enqueued in each machine's guest
    faults      \* failures injected so far

vars == <<records, intents, owner, pc, call, child, backend, machine, caps,
          queued, faults>>

registryVars == <<records, intents, owner>>
orbVars      == <<child, backend, machine, caps, queued>>
machineVars  == <<machine, caps, queued>>

Phases == {"reserved", "created", "bootstrapping", "active", "deleting"}

(* The changes of phase Save accepts between different records.            *)
PhaseOrder ==
    {<<"reserved", "created">>,
     <<"created", "bootstrapping">>, <<"created", "deleting">>,
     <<"bootstrapping", "active">>, <<"bootstrapping", "deleting">>,
     <<"active", "deleting">>}

Record(n, i, p) == [name |-> n, id |-> i, phase |-> p]
NoRecord == Record(NoName, NoName, "none")

Registered == {r \in Runners : records[r] # NoRecord}

Ops == {"create", "delete", "start", "stop", "get", "adopt", "release"}

NewCall(o, t, r, n) ==
    [op |-> o, target |-> t, runner |-> r, name |-> n, id |-> NoName]
NoCall == NewCall("none", NoRunner, NoRunner, NoName)

CleanupSteps == {"saveDeleting", "owned", "lift", "destroy", "confirm",
                 "clear", "remove"}
CloneSteps   == {"validate", "undo", "markIntent", "spawn", "unmark", "wait",
                 "identify", "saveCreated", "clearAfterClone"}
CreateSteps  == CloneSteps \cup
                {"reserve", "lockTemplate", "checkStopped", "settings", "boot",
                 "saveBootstrapping", "inject", "observe", "saveActive"}
TargetSteps  == {"recheck", "uncertain", "confirmName", "adopt",
                 "saveAdopted", "clearAdopted", "power"}

(* The steps of a call between taking its instance lock and returning: the *)
(* deferred Close releases the flock on every way out.                     *)
LockedSteps == CleanupSteps \cup CreateSteps \cup TargetSteps

(***************************************************************************)
(* Locks.  The clone child inherits the instance lock's open file, so the  *)
(* flock stays held while the child lives, whatever becomes of its helper. *)
(***************************************************************************)
InstanceLockedBy(h) == pc[h] \in LockedSteps

ChildOf(r) == {n \in Names : owner[n] = r /\ child[n] = "alive"}

(* Bug: the clone child does not inherit the instance lock.                *)
LockDiesWithHelper(r) ==
    \A h \in Helpers : InstanceLockedBy(h) => call[h].runner # r

InstanceLockFree(r) ==
    /\ \A h \in Helpers : InstanceLockedBy(h) => call[h].runner # r
    /\ ChildOf(r) = {}

TemplateLockFree == \A h \in Helpers : pc[h] \notin CloneSteps

(* Registry.Find: an ID, or else a runner name, never a machine name.      *)
Find(t) == IF t \in Names THEN {r \in Registered : records[r].id = t}
                          ELSE {r \in Registered : r = t}

Inventory == {n \in Names : machine[n] \in {"stopped", "running"}}

-----------------------------------------------------------------------------
(* Moving a helper through its call.                                       *)

Goto(h, step) == /\ pc' = [pc EXCEPT ![h] = step]
                 /\ UNCHANGED call

(* The call's copy of its record now has machine name n and ID i.          *)
Learn(h, n, i) ==
    call' = [call EXCEPT ![h] = [op |-> call[h].op, target |-> call[h].target,
                                 runner |-> call[h].runner,
                                 name |-> n, id |-> i]]

Return(h) == /\ pc' = [pc EXCEPT ![h] = "idle"]
             /\ call' = [call EXCEPT ![h] = NoCall]

Fault == faults < MaxFaults /\ faults' = faults + 1

(* Bug: saving the record that is there already is an illegal change.      *)
CanSaveOnce(r, new) ==
    LET old == records[r] IN
    /\ old # NoRecord
    /\ old.name = new.name
    /\ old.id \in {NoName, new.id}
    /\ <<old.phase, new.phase>> \in PhaseOrder
    /\ \A q \in Runners \ {r} : records[q].id # new.id

(***************************************************************************)
(* Registry writes.  writeAtomic reports an error also after its rename,   *)
(* when the directory cannot be synced: a failed write may be in effect.   *)
(***************************************************************************)
CanSave(r, new) ==
    LET old == records[r] IN
    /\ old # NoRecord
    /\ old.name = new.name
    /\ old.id \in {NoName, new.id}
    /\ old = new \/ <<old.phase, new.phase>> \in PhaseOrder
    /\ \A q \in Runners \ {r} : records[q].id # new.id

Saved(r, new) ==
    /\ CanSave(r, new)
    /\ records' = [records EXCEPT ![r] = new]
    /\ UNCHANGED faults

SaveFailed(r, new) ==
    IF CanSave(r, new)
    THEN Fault /\ records' \in {records, [records EXCEPT ![r] = new]}
    ELSE UNCHANGED <<records, faults>>

(* Bug: a removed record leaves a tombstone.                               *)
RemovedToTombstone(r) ==
    /\ records' = [records EXCEPT ![r] = Record(NoName, NoName, "removed")]
    /\ UNCHANGED faults

Removed(r) ==
    /\ records' = [records EXCEPT ![r] = NoRecord]
    /\ UNCHANGED faults

RemoveFailed(r) ==
    /\ records' \in {records, [records EXCEPT ![r] = NoRecord]}
    /\ Fault

IntentCleared(r) ==
    /\ intents' = intents \ {r}
    /\ UNCHANGED faults

IntentClearFailed(r) ==
    /\ intents' \in {intents, intents \ {r}}
    /\ Fault

-----------------------------------------------------------------------------
Init ==
    /\ records = [r \in Runners |-> NoRecord]
    /\ intents = {}
    /\ owner = [n \in Names |-> NoRunner]
    /\ pc = [h \in Helpers |-> "idle"]
    /\ call = [h \in Helpers |-> NoCall]
    /\ child = [n \in Names |-> "none"]
    /\ backend = {}
    /\ machine = [n \in Names |-> "absent"]
    /\ caps = [n \in Names |-> "none"]
    /\ queued = [n \in Names |-> 0]
    /\ faults = 0

(***************************************************************************)
(* Calls.  A target that resolves to no record returns at once: DELETE     *)
(* then only reads the inventory to choose its answer.  The pool, image    *)
(* and flavor checks only decide whether a call goes on.                   *)
(***************************************************************************)
CallCreate(h, r) ==
    /\ pc[h] = "idle"
    /\ pc' = [pc EXCEPT ![h] = "lock"]
    /\ call' = [call EXCEPT ![h] = NewCall("create", r, r, NoName)]
    /\ UNCHANGED <<registryVars, orbVars, faults>>

(* What the operator must see before asking for --release: no process of   *)
(* this runner at work and no copy of its machine still under way.         *)
Inspected(r) == InstanceLockFree(r) /\ records[r].name \notin backend

CallOn(h, o, t) ==
    /\ pc[h] = "idle"
    /\ \E r \in Find(t) :
        /\ o = "release" => Inspected(r)
        /\ call' = [call EXCEPT ![h] = NewCall(o, t, r, records[r].name)]
    /\ pc' = [pc EXCEPT ![h] = "lock"]
    /\ UNCHANGED <<registryVars, orbVars, faults>>

LockInstance(h) ==
    /\ pc[h] = "lock"
    /\ InstanceLockFree(call[h].runner)
    /\ Goto(h, IF call[h].op = "create" THEN "reserve" ELSE "recheck")
    /\ UNCHANGED <<registryVars, orbVars, faults>>

(* DELETE and recover refuse at once with ErrBusy; the others wait until   *)
(* their deadline.                                                         *)
LockRefused(h) ==
    /\ pc[h] = "lock"
    /\ ~InstanceLockFree(call[h].runner)
    /\ Return(h)
    /\ UNCHANGED <<registryVars, orbVars, faults>>

(* Bug: a runner of the same name passes for the same record.              *)
SameRunner(h) == call[h].runner \in Find(call[h].target)

(* locked: the target is resolved again under the lock and must still be   *)
(* the record the lock was chosen for.                                     *)
SameTarget(h) ==
    /\ call[h].runner \in Find(call[h].target)
    /\ records[call[h].runner].name = call[h].name

(* Only a machine-less reservation can be recovered; only a machine can be *)
(* observed, started or stopped.                                           *)
Admissible(h) ==
    LET rec == records[call[h].runner] IN
    /\ call[h].op \in {"adopt", "release"} =>
          rec.phase = "reserved" /\ rec.id = NoName
    /\ call[h].op \in {"start", "stop", "get"} => rec.id # NoName

AfterRecheck(h) ==
    IF call[h].op \in {"start", "stop", "get"} THEN "power"
    ELSE IF call[h].op = "adopt" THEN "adopt"
    ELSE IF records[call[h].runner].id = NoName THEN "uncertain"
    ELSE "saveDeleting"

Recheck(h) ==
    /\ pc[h] = "recheck"
    /\ IF SameTarget(h) /\ Admissible(h)
       THEN /\ pc' = [pc EXCEPT ![h] = AfterRecheck(h)]
            /\ Learn(h, call[h].name, records[call[h].runner].id)
       ELSE Return(h)
    /\ UNCHANGED <<registryVars, orbVars, faults>>

-----------------------------------------------------------------------------
(* CreateInstance and clone.                                               *)

Unused == {n \in Names : owner[n] = NoRunner}

(* Bug: capacity is compared off by one.                                   *)
ReserveOneMore(h) ==
    /\ pc[h] = "reserve"
    /\ LET r == call[h].runner IN
       IF \/ records[r] # NoRecord
          \/ Cardinality(Registered) > MaxInstances
          \/ Unused = {}
       THEN Return(h) /\ UNCHANGED <<records, owner, faults>>
       ELSE \E n \in Unused :
              /\ records' = [records EXCEPT ![r] =
                                Record(n, NoName, "reserved")]
              /\ owner' = [owner EXCEPT ![n] = r]
              /\ pc' = [pc EXCEPT ![h] = "lockTemplate"]
              /\ Learn(h, n, NoName)
              /\ UNCHANGED faults
    /\ UNCHANGED <<intents, orbVars>>

(* Bug: a CREATE that finds a reservation clones for it once more.         *)
ReserveAgain(h) ==
    /\ pc[h] = "reserve"
    /\ LET r == call[h].runner IN
       \/ /\ records[r].phase = "reserved"
          /\ pc' = [pc EXCEPT ![h] = "lockTemplate"]
          /\ Learn(h, records[r].name, NoName)
          /\ UNCHANGED <<records, owner, faults>>
       \/ /\ records[r] = NoRecord
          /\ \E n \in Unused :
                /\ records' = [records EXCEPT ![r] =
                                  Record(n, NoName, "reserved")]
                /\ owner' = [owner EXCEPT ![n] = r]
                /\ pc' = [pc EXCEPT ![h] = "lockTemplate"]
                /\ Learn(h, n, NoName)
                /\ UNCHANGED faults
       \/ /\ Return(h)
          /\ UNCHANGED <<records, owner, faults>>
    /\ UNCHANGED <<intents, orbVars>>

(* A runner that has a record already is answered without any effect.  No  *)
(* unused name is left only by the bound on Names.                         *)
Reserve(h) ==
    /\ pc[h] = "reserve"
    /\ LET r == call[h].runner IN
       IF \/ records[r] # NoRecord
          \/ Cardinality(Registered) >= MaxInstances
          \/ Unused = {}
       THEN Return(h) /\ UNCHANGED <<records, owner, faults>>
       ELSE \E n \in Unused :
              LET new == [records EXCEPT ![r] = Record(n, NoName, "reserved")]
              IN
              \/ /\ records' = new
                 /\ owner' = [owner EXCEPT ![n] = r]
                 /\ pc' = [pc EXCEPT ![h] = "lockTemplate"]
                 /\ Learn(h, n, NoName)
                 /\ UNCHANGED faults
              \/ /\ \/ UNCHANGED <<records, owner>>
                    \/ records' = new /\ owner' = [owner EXCEPT ![n] = r]
                 /\ Return(h)
                 /\ Fault
    /\ UNCHANGED <<intents, orbVars>>

LockTemplate(h) ==
    /\ pc[h] = "lockTemplate"
    /\ TemplateLockFree
    /\ Goto(h, "validate")
    /\ UNCHANGED <<registryVars, orbVars, faults>>

(* The lock is held past the deadline, by another clone or by a removal of *)
(* the template, which has no place in this module, or its file cannot be  *)
(* opened: the reservation stays.                                          *)
TemplateTimeout(h) ==
    /\ pc[h] = "lockTemplate"
    /\ Return(h)
    /\ UNCHANGED <<registryVars, orbVars, faults>>

(* Inspecting the sealed template and the inventory; a failure before the  *)
(* intent is marked takes the reservation back.                            *)
Validate(h) ==
    /\ pc[h] = "validate"
    /\ \/ Goto(h, "markIntent") /\ UNCHANGED faults
       \/ Goto(h, "undo") /\ Fault
    /\ UNCHANGED <<registryVars, orbVars>>

Undo(h) ==
    /\ pc[h] = "undo"
    /\ Removed(call[h].runner) \/ RemoveFailed(call[h].runner)
    /\ Return(h)
    /\ UNCHANGED <<intents, owner, orbVars>>

MarkIntent(h) ==
    /\ pc[h] = "markIntent"
    /\ \/ /\ intents' = intents \cup {call[h].runner}
          /\ Goto(h, "spawn")
          /\ UNCHANGED faults
       \/ /\ intents' \in {intents, intents \cup {call[h].runner}}
          /\ Return(h)
          /\ Fault
    /\ UNCHANGED <<records, owner, orbVars>>

Spawn(h) ==
    /\ pc[h] = "spawn"
    /\ \/ /\ child' = [child EXCEPT ![call[h].name] = "alive"]
          /\ backend' = backend \cup {call[h].name}
          /\ Goto(h, "wait")
          /\ UNCHANGED faults
       \/ /\ Goto(h, "unmark")
          /\ UNCHANGED <<child, backend>>
          /\ Fault
    /\ UNCHANGED <<registryVars, machineVars>>

Unmark(h) ==
    /\ pc[h] = "unmark"
    /\ \/ IntentCleared(call[h].runner) /\ Goto(h, "undo")
       \/ IntentClearFailed(call[h].runner) /\ Return(h)
    /\ UNCHANGED <<records, owner, orbVars>>

(* Bug: when orbctl fails the clone is taken not to have happened.         *)
WaitAndUnmark(h) ==
    /\ pc[h] = "wait"
    /\ child[call[h].name] # "alive"
    /\ Goto(h, IF child[call[h].name] = "ok" THEN "identify" ELSE "unmark")
    /\ UNCHANGED <<registryVars, orbVars, faults>>

(* Bug: only the success of orbctl is waited for.                          *)
WaitForSuccess(h) ==
    /\ pc[h] = "wait"
    /\ child[call[h].name] = "ok"
    /\ Goto(h, "identify")
    /\ UNCHANGED <<registryVars, orbVars, faults>>

(* Any bad end of orbctl leaves the outcome open: reservation and intent   *)
(* stay.                                                                   *)
Wait(h) ==
    /\ pc[h] = "wait"
    /\ child[call[h].name] # "alive"
    /\ IF child[call[h].name] = "ok" THEN Goto(h, "identify") ELSE Return(h)
    /\ UNCHANGED <<registryVars, orbVars, faults>>

Identify(h) ==
    /\ pc[h] = "identify"
    /\ IF call[h].name \in Inventory
       THEN /\ pc' = [pc EXCEPT ![h] = "saveCreated"]
            /\ Learn(h, call[h].name, call[h].name)
       ELSE Return(h)
    /\ UNCHANGED <<registryVars, orbVars, faults>>

(* The record a Save of phase p by helper h writes.                        *)
Local(h, p) == Record(call[h].name, call[h].id, p)

SaveCreated(h) ==
    /\ pc[h] = "saveCreated"
    /\ \/ Saved(call[h].runner, Local(h, "created"))
          /\ Goto(h, "clearAfterClone")
       \/ SaveFailed(call[h].runner, Local(h, "created")) /\ Return(h)
    /\ UNCHANGED <<intents, owner, orbVars>>

ClearAfterClone(h) ==
    /\ pc[h] = "clearAfterClone"
    /\ \/ IntentCleared(call[h].runner) /\ Goto(h, "checkStopped")
       \/ IntentClearFailed(call[h].runner) /\ Goto(h, "saveDeleting")
    /\ UNCHANGED <<records, owner, orbVars>>

CheckStopped(h) ==
    /\ pc[h] = "checkStopped"
    /\ Goto(h, IF machine[call[h].id] = "stopped" THEN "settings"
                                                   ELSE "saveDeleting")
    /\ UNCHANGED <<registryVars, orbVars, faults>>

(* A command that addresses the machine fails when the machine is gone.    *)
MachineGone(h) ==
    /\ call[h].id \notin Inventory
    /\ Goto(h, "saveDeleting")
    /\ UNCHANGED <<machineVars, faults>>

(* Bug: the failure of a later setting is not reported.                    *)
ApplySomeSettings(h) ==
    /\ pc[h] = "settings"
    /\ \/ /\ call[h].id \in Inventory
          /\ \E c \in {"partial", "full"} :
                caps' = [caps EXCEPT ![call[h].id] = c]
          /\ Goto(h, "boot")
          /\ UNCHANGED <<machine, queued, faults>>
       \/ MachineGone(h)
    /\ UNCHANGED <<registryVars, child, backend>>

(* Seven config writes in a row: a failure leaves any part of them done.   *)
ApplySettings(h) ==
    /\ pc[h] = "settings"
    /\ \/ /\ call[h].id \in Inventory
          /\ \/ /\ caps' = [caps EXCEPT ![call[h].id] = "full"]
                /\ Goto(h, "boot")
                /\ UNCHANGED faults
             \/ /\ \E c \in {"none", "partial", "full"} :
                      caps' = [caps EXCEPT ![call[h].id] = c]
                /\ Goto(h, "saveDeleting")
                /\ Fault
          /\ UNCHANGED <<machine, queued>>
       \/ MachineGone(h)
    /\ UNCHANGED <<registryVars, child, backend>>

Boot(h) ==
    /\ pc[h] = "boot"
    /\ \/ /\ call[h].id \in Inventory
          /\ LET booted == [machine EXCEPT ![call[h].id] = "running"] IN
             \/ /\ machine' = booted
                /\ Goto(h, "saveBootstrapping")
                /\ UNCHANGED faults
             \/ /\ machine' \in {machine, booted}
                /\ Goto(h, "saveDeleting")
                /\ Fault
          /\ UNCHANGED <<caps, queued>>
       \/ MachineGone(h)
    /\ UNCHANGED <<registryVars, child, backend>>

(* Bug: the bootstrap goes ahead although its phase was not saved.         *)
BootstrapUnsaved(h) ==
    /\ pc[h] = "saveBootstrapping"
    /\ \/ Saved(call[h].runner, Local(h, "bootstrapping"))
       \/ SaveFailed(call[h].runner, Local(h, "bootstrapping"))
    /\ Goto(h, "inject")
    /\ UNCHANGED <<intents, owner, orbVars>>

SaveBootstrapping(h) ==
    /\ pc[h] = "saveBootstrapping"
    /\ \/ Saved(call[h].runner, Local(h, "bootstrapping")) /\ Goto(h, "inject")
       \/ SaveFailed(call[h].runner, Local(h, "bootstrapping"))
          /\ Goto(h, "saveDeleting")
    /\ UNCHANGED <<intents, owner, orbVars>>

(* The guest commands end with systemctl start --no-block; a failure is    *)
(* reported before or after the unit was enqueued.                         *)
InjectBootstrap(h) ==
    /\ pc[h] = "inject"
    /\ \/ /\ call[h].id \in Inventory
          /\ LET more == [queued EXCEPT ![call[h].id] = @ + 1] IN
             \/ /\ queued' = more
                /\ Goto(h, "observe")
                /\ UNCHANGED faults
             \/ /\ queued' \in {queued, more}
                /\ Goto(h, "saveDeleting")
                /\ Fault
          /\ UNCHANGED <<machine, caps>>
       \/ MachineGone(h)
    /\ UNCHANGED <<registryVars, child, backend>>

Observe(h) ==
    /\ pc[h] = "observe"
    /\ Goto(h, IF call[h].id \in Inventory THEN "saveActive"
                                           ELSE "saveDeleting")
    /\ UNCHANGED <<registryVars, orbVars, faults>>

SaveActive(h) ==
    /\ pc[h] = "saveActive"
    /\ \/ Saved(call[h].runner, Local(h, "active"))
       \/ SaveFailed(call[h].runner, Local(h, "active"))
    /\ Return(h)
    /\ UNCHANGED <<intents, owner, orbVars>>

-----------------------------------------------------------------------------
(* deleteRecord and releaseReservation.                                    *)

SaveDeleting(h) ==
    /\ pc[h] = "saveDeleting"
    /\ \/ Saved(call[h].runner, Local(h, "deleting")) /\ Goto(h, "owned")
       \/ SaveFailed(call[h].runner, Local(h, "deleting")) /\ Return(h)
    /\ UNCHANGED <<intents, owner, orbVars>>

Owned(h) ==
    /\ pc[h] = "owned"
    /\ Goto(h, IF call[h].id \in Inventory THEN "lift" ELSE "confirm")
    /\ UNCHANGED <<registryVars, orbVars, faults>>

(* Client.Delete: a machine that is gone already is deleted.  Of one that  *)
(* is not, running or stopped, the disk limit is lifted first; whether     *)
(* that worked is not looked at.                                           *)
Lift(h) ==
    /\ pc[h] = "lift"
    /\ \/ /\ call[h].id \notin Inventory
          /\ Goto(h, "confirm")
          /\ UNCHANGED <<caps, faults>>
       \/ /\ call[h].id \in Inventory
          /\ Goto(h, "destroy")
          /\ \/ /\ caps' = [caps EXCEPT ![call[h].id] =
                                IF @ = "full" THEN "lifted" ELSE @]
                /\ UNCHANGED faults
             \/ UNCHANGED caps /\ Fault
    /\ UNCHANGED <<registryVars, child, backend, machine, queued>>

(* Bug: a failed delete is taken for a machine that is gone.               *)
DestroyUnconfirmed(h) ==
    /\ pc[h] = "destroy"
    /\ machine' \in {machine, [machine EXCEPT ![call[h].id] = "deleted"]}
    /\ Goto(h, "clear")
    /\ UNCHANGED <<registryVars, child, backend, caps, queued, faults>>

(* Renaming by ID, the check, and the delete.  A failure may come before   *)
(* or after the machine is gone, and does not give it its limit back; one  *)
(* that is gone before the rename is an error, too.                        *)
Destroy(h) ==
    /\ pc[h] = "destroy"
    /\ LET gone == [machine EXCEPT ![call[h].id] = "deleted"] IN
       \/ machine' = gone /\ Goto(h, "confirm") /\ UNCHANGED faults
       \/ machine' \in {machine, gone} /\ Return(h) /\ Fault
       \/ /\ call[h].id \notin Inventory
          /\ Return(h)
          /\ UNCHANGED <<machine, faults>>
    /\ UNCHANGED <<registryVars, child, backend, caps, queued>>

Confirm(h) ==
    /\ pc[h] = "confirm"
    /\ IF call[h].id \in Inventory THEN Return(h) ELSE Goto(h, "clear")
    /\ UNCHANGED <<registryVars, orbVars, faults>>

(* Bug: a machine that is absent now is taken never to appear.             *)
UncertainIgnored(h) ==
    /\ pc[h] = "uncertain"
    /\ Goto(h, "confirmName")
    /\ UNCHANGED <<registryVars, orbVars, faults>>

(* Bug: the operator may not release an uncertain clone either.            *)
UncertainForever(h) ==
    /\ pc[h] = "uncertain"
    /\ IF call[h].runner \in intents THEN Return(h) ELSE Goto(h, "confirmName")
    /\ UNCHANGED <<registryVars, orbVars, faults>>

(* An uncertain clone is released only for the operator.                   *)
Uncertain(h) ==
    /\ pc[h] = "uncertain"
    /\ IF call[h].runner \in intents /\ call[h].op # "release"
       THEN Return(h)
       ELSE Goto(h, "confirmName")
    /\ UNCHANGED <<registryVars, orbVars, faults>>

ConfirmName(h) ==
    /\ pc[h] = "confirmName"
    /\ IF call[h].name \in Inventory THEN Return(h) ELSE Goto(h, "clear")
    /\ UNCHANGED <<registryVars, orbVars, faults>>

(* Bug: the record is removed although its intent was not.                 *)
ClearUnchecked(h) ==
    /\ pc[h] = "clear"
    /\ IntentCleared(call[h].runner) \/ IntentClearFailed(call[h].runner)
    /\ Goto(h, "remove")
    /\ UNCHANGED <<records, owner, orbVars>>

Clear(h) ==
    /\ pc[h] = "clear"
    /\ \/ IntentCleared(call[h].runner) /\ Goto(h, "remove")
       \/ IntentClearFailed(call[h].runner) /\ Return(h)
    /\ UNCHANGED <<records, owner, orbVars>>

Remove(h) ==
    /\ pc[h] = "remove"
    /\ Removed(call[h].runner) \/ RemoveFailed(call[h].runner)
    /\ Return(h)
    /\ UNCHANGED <<intents, owner, orbVars>>

-----------------------------------------------------------------------------
(* Recover with a machine ID: the ID must be present under the reserved    *)
(* name, so that the only ID it accepts is the reservation's clone.        *)
Adopt(h) ==
    /\ pc[h] = "adopt"
    /\ IF call[h].name \in Inventory
       THEN /\ pc' = [pc EXCEPT ![h] = "saveAdopted"]
            /\ Learn(h, call[h].name, call[h].name)
       ELSE Return(h)
    /\ UNCHANGED <<registryVars, orbVars, faults>>

SaveAdopted(h) ==
    /\ pc[h] = "saveAdopted"
    /\ \/ Saved(call[h].runner, Local(h, "created")) /\ Goto(h, "clearAdopted")
       \/ SaveFailed(call[h].runner, Local(h, "created")) /\ Return(h)
    /\ UNCHANGED <<intents, owner, orbVars>>

ClearAdopted(h) ==
    /\ pc[h] = "clearAdopted"
    /\ IntentCleared(call[h].runner) \/ IntentClearFailed(call[h].runner)
    /\ Return(h)
    /\ UNCHANGED <<records, owner, orbVars>>

(* Start, Stop and GetInstance after their target is locked: the machine   *)
(* is looked up by ID; Start and Stop then act on it, whatever its phase.  *)
Power(h) ==
    /\ pc[h] = "power"
    /\ LET target == IF call[h].op = "start" THEN "running" ELSE "stopped" IN
       IF call[h].id \in Inventory /\ call[h].op # "get"
       THEN machine' = [machine EXCEPT ![call[h].id] = target]
       ELSE UNCHANGED machine
    /\ Return(h)
    /\ UNCHANGED <<registryVars, child, backend, caps, queued, faults>>

-----------------------------------------------------------------------------
(* Failures of reads, and the death of processes.                          *)

(* A read of the registry, of an intent or of OrbStack fails.  Before the  *)
(* clone is recorded and in the other calls the error is returned; later   *)
(* in CreateInstance it leads to the cleanup.                              *)
ReadFails(h) ==
    /\ \/ /\ pc[h] \in {"lock", "recheck", "lockTemplate", "identify",
                        "owned", "lift", "confirm", "uncertain",
                        "confirmName", "adopt", "power"}
          /\ Return(h)
       \/ /\ pc[h] \in {"checkStopped", "observe"}
          /\ Goto(h, "saveDeleting")
    /\ Fault
    /\ UNCHANGED <<registryVars, orbVars>>

(* The helper is killed: its files are closed; a clone child lives on.     *)
KillHelper(h) ==
    /\ pc[h] # "idle"
    /\ Return(h)
    /\ Fault
    /\ UNCHANGED <<registryVars, orbVars>>

(* orbctl ends well only after the backend made the machine ...            *)
ChildSucceeds(n) ==
    /\ child[n] = "alive"
    /\ n \notin backend
    /\ machine[n] # "absent"
    /\ child' = [child EXCEPT ![n] = "ok"]
    /\ UNCHANGED <<registryVars, pc, call, backend, machineVars, faults>>

(* ... and badly at any time: its context expired, it was killed, or it    *)
(* lost the backend, which may go on copying.                              *)
ChildFails(n) ==
    /\ child[n] = "alive"
    /\ child' = [child EXCEPT ![n] = "failed"]
    /\ Fault
    /\ UNCHANGED <<registryVars, pc, call, backend, machineVars>>

BackendCopies(n) ==
    /\ n \in backend
    /\ backend' = backend \ {n}
    /\ machine' = [machine EXCEPT ![n] = "stopped"]
    /\ UNCHANGED <<registryVars, pc, call, child, caps, queued, faults>>

(* The backend gives up; orbctl, if it still waits, reports the failure.   *)
BackendDrops(n) ==
    /\ n \in backend
    /\ backend' = backend \ {n}
    /\ child' = [child EXCEPT ![n] = "failed"]
    /\ Fault
    /\ UNCHANGED <<registryVars, pc, call, machineVars>>

GuestStops(n) ==
    /\ machine[n] = "running"
    /\ machine' = [machine EXCEPT ![n] = "stopped"]
    /\ UNCHANGED <<registryVars, pc, call, child, backend, caps, queued, faults>>

(* The machine's user deletes it in OrbStack.                              *)
UserDeletes(n) ==
    /\ n \in Inventory
    /\ machine' = [machine EXCEPT ![n] = "deleted"]
    /\ Fault
    /\ UNCHANGED <<registryVars, pc, call, child, backend, caps, queued>>

-----------------------------------------------------------------------------
CreateStep(h) ==
    \/ Reserve(h) \/ LockTemplate(h) \/ TemplateTimeout(h) \/ Validate(h)
    \/ Undo(h) \/ MarkIntent(h) \/ Spawn(h) \/ Unmark(h) \/ Wait(h)
    \/ Identify(h) \/ SaveCreated(h) \/ ClearAfterClone(h) \/ CheckStopped(h)
    \/ ApplySettings(h) \/ Boot(h) \/ SaveBootstrapping(h)
    \/ InjectBootstrap(h) \/ Observe(h) \/ SaveActive(h)

DeleteStep(h) ==
    \/ SaveDeleting(h) \/ Owned(h) \/ Lift(h) \/ Destroy(h) \/ Confirm(h)
    \/ Uncertain(h) \/ ConfirmName(h) \/ Clear(h) \/ Remove(h)

OtherStep(h) ==
    \/ LockInstance(h) \/ LockRefused(h) \/ Recheck(h)
    \/ Adopt(h) \/ SaveAdopted(h) \/ ClearAdopted(h) \/ Power(h)

HelperStep(h) == CreateStep(h) \/ DeleteStep(h) \/ OtherStep(h)

Call(h) ==
    \/ \E r \in Runners : CallCreate(h, r)
    \/ \E o \in Ops \ {"create", "adopt", "release"}, t \in Runners \cup Names :
            CallOn(h, o, t)
    \/ \E o \in {"adopt", "release"}, r \in Runners : CallOn(h, o, r)

OrbStep(n) == ChildSucceeds(n) \/ BackendCopies(n)

Environment ==
    \/ \E h \in Helpers : ReadFails(h) \/ KillHelper(h)
    \/ \E n \in Names : \/ ChildFails(n) \/ BackendDrops(n)
                        \/ GuestStops(n) \/ UserDeletes(n)

Next == \/ \E h \in Helpers : Call(h) \/ HelperStep(h)
        \/ \E n \in Names : OrbStep(n)
        \/ Environment

Spec == Init /\ [][Next]_vars

(* Calls are bounded by deadlines, orbctl and the backend end what they    *)
(* began, and GARM and the operator try again: DELETE is retried until it  *)
(* succeeds, a reservation left behind is adopted or released.             *)
Fairness ==
    /\ \A h \in Helpers : WF_vars(HelperStep(h))
    /\ \A n \in Names : WF_vars(OrbStep(n))
    /\ \A r \in Runners, o \in {"delete", "adopt", "release"} :
          SF_vars(\E h \in Helpers : CallOn(h, o, r))

FairSpec == Spec /\ Fairness

-----------------------------------------------------------------------------
(* Properties.                                                             *)

Records == [name: Names \cup {NoName}, id: Names \cup {NoName},
            phase: Phases \cup {"none"}]
Calls == [op: Ops \cup {"none"}, target: Runners \cup Names \cup {NoRunner},
          runner: Runners \cup {NoRunner}, name: Names \cup {NoName},
          id: Names \cup {NoName}]

RegistryTypes ==
    /\ records \in [Runners -> Records]
    /\ intents \subseteq Runners
    /\ owner \in [Names -> Runners \cup {NoRunner}]

HelperTypes ==
    /\ pc \in [Helpers -> LockedSteps \cup {"idle", "lock"}]
    /\ call \in [Helpers -> Calls]

OrbTypes ==
    /\ child \in [Names -> {"none", "alive", "ok", "failed"}]
    /\ backend \subseteq Names
    /\ machine \in [Names -> {"absent", "stopped", "running", "deleted"}]
    /\ caps \in [Names -> {"none", "partial", "full", "lifted"}]
    /\ queued \in [Names -> Nat]

TypeOK == RegistryTypes /\ HelperTypes /\ OrbTypes /\ faults \in Nat

(* A machine that exists, or that may still come into existence.           *)
Live(n) == child[n] = "alive" \/ n \in backend \/ n \in Inventory

(* One lifecycle call at a time works on a runner, and while its clone     *)
(* child lives none does but the one waiting for that child: the instance  *)
(* flock and its inheritance (registry.go:37-41, provider.go:224).         *)
OneWriterPerRunner ==
    /\ \A g, h \in Helpers :
          InstanceLockedBy(g) /\ InstanceLockedBy(h)
          /\ call[g].runner = call[h].runner => g = h
    /\ \A n \in Names, h \in Helpers :
          child[n] = "alive" /\ InstanceLockedBy(h) /\ call[h].runner = owner[n]
          => pc[h] = "wait" /\ call[h].name = n

(* A call that holds its lock works on the record now in the registry,     *)
(* never on one that was removed or replaced since it was resolved         *)
(* (provider.go:354-379): what it removes by runner name is what it read.  *)
TargetIsCurrent ==
    \A h \in Helpers :
        InstanceLockedBy(h) /\ pc[h] \notin {"recheck", "reserve"} =>
            /\ call[h].name # NoName
            /\ records[call[h].runner].name = call[h].name
            /\ pc[h] \notin {"saveCreated", "saveAdopted"} =>
                    records[call[h].runner].id = call[h].id

(* Every machine that exists or may still appear is accounted for by the   *)
(* record of the runner it was cloned for, through errors, deaths and      *)
(* retries: a runner is never forgotten while its machine may exist.       *)
NoOrphanMachine ==
    \A n \in Names : Live(n) => owner[n] # NoRunner
                              /\ records[owner[n]].name = n

(* While a reservation's clone may have run and its ID is not recorded,    *)
(* the intent is there to stop an automatic release                        *)
(* (registry.go:452-454).                                                  *)
IntentCoversClone ==
    \A r \in Runners :
        records[r].phase = "reserved" /\ Live(records[r].name) => r \in intents

(* No intent outlives its record: a runner name used again starts without  *)
(* the uncertainty of its predecessor (provider.go:479-482, 505-508).      *)
IntentHasRecord == \A r \in intents : records[r] # NoRecord

(* The machines of this controller never exceed max_instances, counting    *)
(* the copies still under way and those of helpers that died.              *)
CapacityBound == Cardinality({n \in Names : Live(n)}) <= MaxInstances

(* The bootstrap, which carries a registration secret, is enqueued at most *)
(* once per machine, only after every flavor setting was applied, and the  *)
(* record says so first (provider.go:161-186).  The machine keeps these    *)
(* settings until its record says that it is being deleted; from then on   *)
(* its disk limit may be off for good (provider.go:457, cli.go:280).       *)
BootstrapOnce ==
    \A n \in Names : queued[n] > 0 =>
        /\ queued[n] = 1
        /\ caps[n] \in {"full", "lifted"}
        /\ \A r \in Runners : records[r].id = n =>
              /\ records[r].phase \in {"bootstrapping", "active", "deleting"}
              /\ caps[n] = "lifted" => records[r].phase = "deleting"

(* A runner GARM was told is active has its configured, bootstrapped       *)
(* machine or had it deleted under it.                                     *)
ActiveIsComplete ==
    \A r \in Runners : records[r].phase = "active" =>
        queued[records[r].id] = 1 /\ caps[records[r].id] = "full"

(* A machine name is cloned to at most once: a retried CREATE never starts *)
(* a second clone for a reservation (provider.go:129-134).                 *)
CloneOnce ==
    [][\A n \in Names : child'[n] = "alive" => child[n] \in {"none", "alive"}]_vars

(* The machines, seen as the abstract ledger of MachineLedger.             *)
LedgerStatus(n) ==
    IF owner[n] = NoRunner THEN "free"
    ELSE IF records[owner[n]].name # n THEN "released"
    ELSE IF child[n] = "none" THEN "claimed"
    ELSE IF Live(n) THEN "live" ELSE "gone"

Ledger == INSTANCE MachineLedger WITH status <- [n \in Names |-> LedgerStatus(n)]

(* The provider implements the ledger: capacity is claimed before a clone, *)
(* each name is cloned once, and a name is released only when its machine  *)
(* is gone for good.                                                       *)
LedgerSpec == Ledger!Spec

(* Runners with a copy of the template under way, as orbctl or the backend *)
(* makes it.                                                               *)
Copying == {r \in Runners : \E n \in Names :
               owner[n] = r /\ (child[n] = "alive" \/ n \in backend)}

Window == INSTANCE CloneWindow
              WITH named <- Registered, marked <- intents,
                   copying <- Copying, held <- ~TemplateLockFree

(* What the removal of a template relies on (builder.go, Remove): a copy   *)
(* begins under the template lock and with its intent marked, and record   *)
(* and intent outlast it, whoever fails, dies, deletes or adopts.          *)
WindowSpec == Window!Spec

(* The records, seen as the contract of RunnerRegistry, ...                *)
Phase(r) == CASE records[r].phase \in {"bootstrapping", "active"} -> "created"
              [] OTHER -> records[r].phase

Made == {r \in Runners : \E n \in Names : owner[n] = r /\ Live(n)}

Registry == INSTANCE RunnerRegistry
                WITH phase <- [r \in Runners |-> Phase(r)],
                     keptPhase <- [r \in Runners |-> Phase(r)],
                     marked <- intents, keptMarked <- intents, made <- Made

(* ... which the calls keep: a machine is made once under a reservation    *)
(* with an intent, both are given up only when its ID is recorded or it    *)
(* certainly is not there, and no intent outlives its record, so that a    *)
(* runner name used again starts without its predecessor's uncertainty     *)
(* (provider.go:479-482, 505-508).                                         *)
RegistrySpec == Registry!Spec

(* Every call returns, whatever failed under it.                           *)
CallsReturn == \A h \in Helpers : pc[h] # "idle" ~> pc[h] = "idle"

(* From some moment on only one helper is called: GARM does not call two   *)
(* helpers for one runner for ever, which would keep its lock taken.       *)
LeftAlone ==
    \E h \in Helpers : <>[](\A g \in Helpers \ {h} : pc[g] = "idle")

(* A deletion that failed or died part way is completed by a later DELETE. *)
DeletionConverges ==
    LeftAlone =>
    \A r \in Runners : records[r].phase = "deleting" ~> records[r] = NoRecord

(* No reservation is stuck: some call always resolves it, even when the    *)
(* outcome of its clone is uncertain, and so its capacity is returned.     *)
ReservationResolves ==
    LeftAlone =>
    \A r \in Runners : records[r].phase = "reserved"
                         ~> records[r].phase # "reserved"

-----------------------------------------------------------------------------
(* The inductive invariant behind these properties, in three parts: what   *)
(* holds of each record, of each machine name, and of each helper at its   *)
(* step.                                                                   *)

(* The steps at which a call has its own, current record.                  *)
BoundSteps == LockedSteps \ {"reserve", "recheck"}

(* ... and that record has no machine yet, ...                             *)
PreCloneSteps  == {"lockTemplate", "validate", "undo", "markIntent", "spawn",
                   "unmark"}
ReservedSteps  == PreCloneSteps \cup {"wait", "identify", "saveCreated",
                   "adopt", "saveAdopted", "uncertain", "confirmName"}
(* ... or has the machine the call acts on.                                *)
MachineSteps   == {"clearAfterClone", "checkStopped", "settings", "boot",
                   "saveBootstrapping", "inject", "observe", "saveActive",
                   "saveDeleting", "owned", "lift", "destroy", "confirm",
                   "clearAdopted", "power"}

RecordInv(r) ==
    LET rec == records[r] IN
    /\ rec # NoRecord =>
          /\ rec.name \in Names
          /\ owner[rec.name] = r
          /\ rec.phase \in Phases
          /\ rec.phase = "reserved" => rec.id = NoName
          /\ rec.phase # "reserved" =>
                /\ rec.id = rec.name
                /\ machine[rec.name] # "absent"
                /\ child[rec.name] # "alive"
          /\ rec.phase = "reserved" /\ Live(rec.name) => r \in intents
    /\ r \in intents => rec # NoRecord

MachineInv(n) ==
    /\ child[n] = "none" => n \notin backend /\ machine[n] = "absent"
    /\ n \in backend => machine[n] = "absent"
    /\ machine[n] # "absent" => n \notin backend
    /\ child[n] # "none" => owner[n] # NoRunner
    /\ Live(n) => records[owner[n]].name = n

(* A release asked for by the operator finds no clone of its name.         *)
NeverCloned(h) ==
    /\ child[call[h].name] # "alive"
    /\ call[h].name \notin backend
    /\ \A g \in Helpers :
          pc[g] \in PreCloneSteps => call[g].name # call[h].name

HelperInv(h) ==
    LET c == call[h]
        rec == records[c.runner] IN
    /\ pc[h] = "idle" => c.op = "none"
    /\ pc[h] # "idle" => c.runner \in Runners /\ c.op # "none"
    /\ pc[h] \in CreateSteps => c.op = "create"
    /\ pc[h] = "recheck" => c.op # "create"
    /\ pc[h] \in {"uncertain", "confirmName"} => c.op \in {"delete", "release"}
    /\ c.op = "release" => c.name \in Names /\ owner[c.name] # NoRunner
                           /\ NeverCloned(h)
    /\ pc[h] \in BoundSteps => c.name \in Names /\ rec.name = c.name
    /\ pc[h] \in BoundSteps \ {"saveCreated", "saveAdopted"} => c.id = rec.id
    /\ pc[h] \in ReservedSteps => rec.phase = "reserved"
    /\ pc[h] \in MachineSteps => c.id = c.name /\ rec.id = c.name
    /\ pc[h] \in PreCloneSteps => child[c.name] = "none"
    /\ pc[h] \in {"lockTemplate", "validate", "undo", "remove"} =>
          c.runner \notin intents
    /\ pc[h] = "spawn" => c.runner \in intents
    /\ pc[h] \in {"identify", "saveCreated"} => child[c.name] # "alive"
    /\ pc[h] \in {"saveCreated", "saveAdopted"} =>
          c.id = c.name /\ machine[c.name] # "absent"
    /\ pc[h] = "confirmName" => child[c.name] # "alive" /\ c.name \notin backend
    /\ pc[h] \in {"clear", "remove"} => ~Live(c.name)
    /\ pc[h] \in {"owned", "lift", "destroy", "confirm"} =>
          rec.phase = "deleting"
    /\ pc[h] \in {"clear", "remove"} => rec.phase \in {"reserved", "deleting"}
    /\ pc[h] = "settings" => machine[c.name] # "running"

IInv ==
    /\ OneWriterPerRunner
    /\ \A r \in Runners : RecordInv(r)
    /\ \A n \in Names : MachineInv(n)
    /\ \A h \in Helpers : HelperInv(h)

(* Capacity is counted in records: every machine has one of its own.       *)
RecordsWithinCapacity ==
    IsFiniteSet(Registered) /\ Cardinality(Registered) <= MaxInstances

(* README.md:10: limits and isolation "are applied while the clone is      *)
(* still stopped, before first boot".  A limit that a deletion lifted had  *)
(* been applied.                                                           *)
CapsBeforeFirstBoot ==
    \A n \in Names : machine[n] = "running" => caps[n] \in {"full", "lifted"}

(* cli.go:276-277: "The machine is about to be deleted, so the lifted cap  *)
(* has no lasting effect": a machine runs without its disk limit only as   *)
(* long as a call is at work on deleting it.                               *)
LiftHasNoLastingEffect ==
    \A n \in Names : machine[n] = "running" /\ caps[n] = "lifted" =>
        \E h \in Helpers : pc[h] = "destroy" /\ call[h].id = n

Unlimited(n) == machine[n] = "running" /\ caps[n] # "full"

(* A machine comes to run without all of its limits in two ways only.      *)
(* Either a Start call boots it: its CREATE died before it applied the     *)
(* limits or failed to apply them, or a deletion of it failed; or it runs  *)
(* and a deletion lifts its disk limit, which is on record by then.  No    *)
(* CREATE boots an unlimited machine (provider.go:161-169, 457, 539;       *)
(* cli.go:280).                                                            *)
LimitsEvaded ==
    [][\A n \in Names : Unlimited(n)' /\ ~Unlimited(n) =>
          \E h \in Helpers :
             LET phase == records[call[h].runner].phase IN
             /\ call[h].id = n
             /\ \/ /\ Power(h) /\ call[h].op = "start"
                   /\ phase \in {"created", "deleting"}
                \/ Lift(h) /\ phase = "deleting"]_vars
=============================================================================
