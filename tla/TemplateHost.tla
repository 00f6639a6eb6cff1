---------------------------- MODULE TemplateHost ----------------------------
(***************************************************************************)
(* Templates and the host configuration: template build and template       *)
(* remove (internal/templates/builder.go, manifest.go) over host.toml      *)
(* (internal/config/config.go), next to the part of CREATE that reads a    *)
(* template (provider.go, clone).                                          *)
(*                                                                         *)
(* An image is its ID, its machine and its manifest file at once: all      *)
(* three are named by the nonce its Build draws.  The registry is only     *)
(* what Remove sees of it: which image each runner's record names.         *)
(***************************************************************************)
EXTENDS Naturals

CONSTANTS
    Procs,      \* processes that may run at the same time
    Images,     \* nonces of image builds (a bound: 64 random bits)
    Runners,    \* runner names with a record or without
    MaxFaults,  \* bound on the failures injected in one behaviour
    NoImage,
    NoRunner

ASSUME TemplateAssumption ==
    /\ NoImage \notin Images
    /\ NoRunner \notin Runners
    /\ MaxFaults \in Nat

VARIABLES
    host,       \* host.toml: the registered images
    manifests,  \* images whose manifest file exists
    template,   \* the template machine of each image
    ready,      \* images whose provisioning ran to its end
    records,    \* records.json: the image each runner's record names
    intents,    \* clone-intents/: runners whose clone may have been started
    copying,    \* runners whose machine is being copied, by orbctl or backend
    pc,         \* where each process is
    call,       \* the locals of each process's call
    faults      \* failures injected so far

imageVars    == <<host, manifests, template, ready>>
registryVars == <<records, intents, copying>>
vars == <<imageVars, registryVars, pc, call, faults>>

(* host is the process's copy of the configuration, read by LoadHost and   *)
(* read again, under the lock, by UpdateHost.                              *)
Call(o, i, r, h) == [op |-> o, image |-> i, runner |-> r, host |-> h]
NoCall == Call("none", NoImage, NoRunner, {})

Active(p) == pc[p] # "idle"

UpdateSteps  == {"hostRead", "hostWrite"}
CloneSteps   == {"validate", "undo", "mark", "spawn", "wait"}
RemoveSteps  == {"drain", "destroy", "hostLock", "hostRead", "hostWrite",
                 "unlink"}
BuildSteps   == {"create", "identify", "provision", "fail", "stop", "verify",
                 "writeManifest", "hostLock", "hostRead", "hostWrite"}
CreateSteps  == {"reserve", "lockTemplate"} \cup CloneSteps

(* The flock on host.toml.lock.                                            *)
HoldsHost(p) == pc[p] \in UpdateSteps

(* Bug: only the write of host.toml is locked.                             *)
WriteIsLocked == \A p \in Procs : pc[p] # "hostWrite"

HostLockFree == \A p \in Procs : ~HoldsHost(p)

(* Bug: Remove gives the lock back after its drain check.                  *)
HoldsUntilDrained(p, i) ==
    /\ call[p].image = i
    /\ pc[p] \in (IF call[p].op = "remove" THEN {"drain"} ELSE CloneSteps)

(* The template lock: clone holds it to its return, Remove to its end.     *)
HoldsTemplate(p, i) ==
    /\ call[p].image = i
    /\ \/ call[p].op = "create" /\ pc[p] \in CloneSteps
       \/ call[p].op = "remove" /\ pc[p] \in RemoveSteps

Goto(p, step) == /\ pc' = [pc EXCEPT ![p] = step]
                 /\ UNCHANGED call

Return(p) == /\ pc' = [pc EXCEPT ![p] = "idle"]
             /\ call' = [call EXCEPT ![p] = NoCall]

Fault == faults < MaxFaults /\ faults' = faults + 1

(* p is at a step of a call that only an operation o makes.                *)
At(p, o, step) == pc[p] = step /\ call[p].op = o

-----------------------------------------------------------------------------
Init ==
    /\ host = {}
    /\ manifests = {}
    /\ template = [i \in Images |-> "none"]
    /\ ready = {}
    /\ records = [r \in Runners |-> NoImage]
    /\ intents = {}
    /\ copying = {}
    /\ pc = [p \in Procs |-> "idle"]
    /\ call = [p \in Procs |-> NoCall]
    /\ faults = 0

(***************************************************************************)
(* Every command starts with LoadHost, without a lock: it reads host.toml, *)
(* then looks for the manifest of each image it read.                      *)
(***************************************************************************)
LoadHost(p, o, i, r) ==
    /\ ~Active(p)
    /\ pc' = [pc EXCEPT ![p] = "checkHost"]
    /\ call' = [call EXCEPT ![p] = Call(o, i, r, host)]
    /\ UNCHANGED <<imageVars, registryVars, faults>>

(* A Build draws an image nobody has used.                                 *)
CallBuild(p, i) ==
    /\ template[i] = "none"
    /\ \A q \in Procs : call[q].image # i
    /\ LoadHost(p, "build", i, NoRunner)

CallRemove(p, i) == LoadHost(p, "remove", i, NoRunner)

CallCreate(p, i, r) == LoadHost(p, "create", i, r)

FirstStep == [build |-> "create", remove |-> "lockTemplate",
              create |-> "reserve"]

(* validateHost on the copy; Remove and CREATE also want their image in it *)
(* and agreeing with its manifest.                                         *)
CheckHost(p) ==
    /\ pc[p] = "checkHost"
    /\ IF /\ call[p].host \subseteq manifests
          /\ call[p].op # "build" => call[p].image \in call[p].host
       THEN Goto(p, FirstStep[call[p].op])
       ELSE Return(p)
    /\ UNCHANGED <<imageVars, registryVars, faults>>

-----------------------------------------------------------------------------
(* template build                                                          *)

(* A creation that reports a failure may have made the machine.            *)
CreateMachine(p) ==
    /\ At(p, "build", "create")
    /\ LET made == [template EXCEPT ![call[p].image] = "running"] IN
       \/ template' = made /\ Goto(p, "identify") /\ UNCHANGED faults
       \/ template' \in {template, made} /\ Return(p) /\ Fault
    /\ UNCHANGED <<host, manifests, ready, registryVars>>

(* The machine's ID is only known from here on: without it the machine is  *)
(* left as it is.                                                          *)
Identify(p) ==
    /\ At(p, "build", "identify")
    /\ \/ Goto(p, "provision") /\ UNCHANGED faults
       \/ Return(p) /\ Fault
    /\ UNCHANGED <<imageVars, registryVars>>

(* Bug: a command that fails does not end the build.                       *)
ProvisionAnyway(p) ==
    /\ At(p, "build", "provision")
    /\ Goto(p, "stop")
    /\ \/ ready' = ready \cup {call[p].image} /\ UNCHANGED faults
       \/ UNCHANGED ready /\ Fault
    /\ UNCHANGED <<host, manifests, template, registryVars>>

(* Settings, the recipe, its seal, the package list and the embedded       *)
(* manifest: a chain of commands in the guest, each of which may fail.     *)
Provision(p) ==
    /\ At(p, "build", "provision")
    /\ \/ /\ ready' = ready \cup {call[p].image}
          /\ Goto(p, "stop")
          /\ UNCHANGED faults
       \/ UNCHANGED ready /\ Goto(p, "fail") /\ Fault
    /\ UNCHANGED <<host, manifests, template, registryVars>>

Stopped(p) == [template EXCEPT ![call[p].image] = "stopped"]

(* fail: stop the machine if that is still possible, and keep it.          *)
FailBuild(p) ==
    /\ At(p, "build", "fail")
    /\ \/ template' = Stopped(p) /\ UNCHANGED faults
       \/ template' \in {template, Stopped(p)} /\ Fault
    /\ Return(p)
    /\ UNCHANGED <<host, manifests, ready, registryVars>>

StopMachine(p) ==
    /\ At(p, "build", "stop")
    /\ \/ template' = Stopped(p) /\ Goto(p, "verify") /\ UNCHANGED faults
       \/ template' \in {template, Stopped(p)} /\ Goto(p, "fail") /\ Fault
    /\ UNCHANGED <<host, manifests, ready, registryVars>>

(* Info and ValidateMachine.                                               *)
Verify(p) ==
    /\ At(p, "build", "verify")
    /\ \/ /\ Goto(p, IF template[call[p].image] = "stopped"
                     THEN "writeManifest" ELSE "fail")
          /\ UNCHANGED faults
       \/ Goto(p, "fail") /\ Fault
    /\ UNCHANGED <<imageVars, registryVars>>

(* The link fails if the file exists; the directory is synced after it, so *)
(* a failure may leave the manifest.  From here a failure keeps everything.*)
WriteManifest(p) ==
    /\ At(p, "build", "writeManifest")
    /\ LET written == manifests \cup {call[p].image} IN
       \/ /\ manifests' = written
          /\ IF call[p].image \in manifests THEN Return(p)
                                           ELSE Goto(p, "hostLock")
          /\ UNCHANGED faults
       \/ manifests' \in {manifests, written} /\ Return(p) /\ Fault
    /\ UNCHANGED <<host, template, ready, registryVars>>

-----------------------------------------------------------------------------
(* UpdateHost, for RegisterImage and for Remove.                           *)

LockHost(p) ==
    /\ pc[p] = "hostLock"
    /\ HostLockFree
    /\ Goto(p, "hostRead")
    /\ UNCHANGED <<imageVars, registryVars, faults>>

(* The configuration is read and validated again under the lock.  Remove's *)
(* callback fails when the image has gone meanwhile.                       *)
ReadHost(p) ==
    /\ pc[p] = "hostRead"
    /\ IF /\ host \subseteq manifests
          /\ call[p].op = "remove" => call[p].image \in host
       THEN /\ pc' = [pc EXCEPT ![p] = "hostWrite"]
            /\ call' = [call EXCEPT ![p] =
                 Call(call[p].op, call[p].image, call[p].runner, host)]
       ELSE Return(p)
    /\ UNCHANGED <<imageVars, registryVars, faults>>

Updated(p) == IF call[p].op = "build" THEN call[p].host \cup {call[p].image}
                                      ELSE call[p].host \ {call[p].image}

(* What the callback made is validated before it is published.  The rename *)
(* may be in effect although the call reports a failure.                   *)
WriteHost(p) ==
    /\ pc[p] = "hostWrite"
    /\ IF Updated(p) \subseteq manifests
       THEN \/ /\ host' = Updated(p)
               /\ IF call[p].op = "remove" THEN Goto(p, "unlink")
                                            ELSE Return(p)
               /\ UNCHANGED faults
            \/ host' \in {host, Updated(p)} /\ Return(p) /\ Fault
       ELSE Return(p) /\ UNCHANGED <<host, faults>>
    /\ UNCHANGED <<manifests, template, ready, registryVars>>

-----------------------------------------------------------------------------
(* LockTemplate, for clone and for Remove.                                 *)

TemplateLockFree(i) == \A q \in Procs : ~HoldsTemplate(q, i)

(* A CREATE whose deadline passes while it waits leaves its reservation.   *)
LockTemplate(p) ==
    /\ pc[p] = "lockTemplate"
    /\ \/ /\ TemplateLockFree(call[p].image)
          /\ Goto(p, IF call[p].op = "remove" THEN "drain" ELSE "validate")
          /\ UNCHANGED faults
       \/ Return(p) /\ Fault
    /\ UNCHANGED <<imageVars, registryVars>>

-----------------------------------------------------------------------------
(* template remove                                                         *)

(* Bug: only a template that is there and stopped can be removed.          *)
DrainAndValidate(p) ==
    /\ At(p, "remove", "drain")
    /\ IF \/ \E r \in Runners : records[r] = call[p].image
          \/ template[call[p].image] # "stopped"
       THEN Return(p)
       ELSE Goto(p, "destroy")
    /\ UNCHANGED <<imageVars, registryVars, faults>>

Drain(p) ==
    /\ At(p, "remove", "drain")
    /\ IF \E r \in Runners : records[r] = call[p].image
       THEN Return(p)
       ELSE Goto(p, "destroy")
    /\ UNCHANGED <<imageVars, registryVars, faults>>

Destroyed(p) == [template EXCEPT ![call[p].image] = "deleted"]

(* Bug: an error of the deletion is not looked at.                         *)
DestroyUnchecked(p) ==
    /\ At(p, "remove", "destroy")
    /\ \/ template' = Destroyed(p) /\ UNCHANGED faults
       \/ UNCHANGED template /\ Fault
    /\ Goto(p, "hostLock")
    /\ UNCHANGED <<host, manifests, ready, registryVars>>

(* Bug: the manifest is removed together with the machine.                 *)
DestroyManifestToo(p) ==
    /\ At(p, "remove", "destroy")
    /\ template' = Destroyed(p)
    /\ manifests' = manifests \ {call[p].image}
    /\ Goto(p, "hostLock")
    /\ UNCHANGED <<host, ready, registryVars, faults>>

(* Deleting a machine that is gone already succeeds.                       *)
Destroy(p) ==
    /\ At(p, "remove", "destroy")
    /\ \/ template' = Destroyed(p) /\ Goto(p, "hostLock") /\ UNCHANGED faults
       \/ template' \in {template, Destroyed(p)} /\ Return(p) /\ Fault
    /\ UNCHANGED <<host, manifests, ready, registryVars>>

Unlink(p) ==
    /\ At(p, "remove", "unlink")
    /\ \/ manifests' = manifests \ {call[p].image} /\ UNCHANGED faults
       \/ UNCHANGED manifests /\ Fault
    /\ Return(p)
    /\ UNCHANGED <<host, template, ready, registryVars>>

-----------------------------------------------------------------------------
(* CREATE as far as a template is concerned.  RunnerLifecycle has the rest.*)

Reserve(p) ==
    /\ At(p, "create", "reserve")
    /\ LET r == call[p].runner
           new == [records EXCEPT ![r] = call[p].image] IN
       \/ /\ records[r] # NoImage
          /\ Return(p)
          /\ UNCHANGED <<records, faults>>
       \/ /\ records[r] = NoImage
          /\ records' = new
          /\ Goto(p, "lockTemplate")
          /\ UNCHANGED faults
       \/ /\ records[r] = NoImage
          /\ records' \in {records, new}
          /\ Return(p)
          /\ Fault
    /\ UNCHANGED <<imageVars, intents, copying>>

Validate(p) ==
    /\ At(p, "create", "validate")
    /\ \/ /\ Goto(p, IF template[call[p].image] = "stopped"
                     THEN "mark" ELSE "undo")
          /\ UNCHANGED faults
       \/ Goto(p, "undo") /\ Fault
    /\ UNCHANGED <<imageVars, registryVars>>

(* beforeCloneFailure: nothing was started, the reservation goes.          *)
Undo(p) ==
    /\ At(p, "create", "undo")
    /\ LET undone == [records EXCEPT ![call[p].runner] = NoImage] IN
       \/ records' = undone /\ UNCHANGED faults
       \/ records' \in {records, undone} /\ Fault
    /\ Return(p)
    /\ UNCHANGED <<imageVars, intents, copying>>

Mark(p) ==
    /\ At(p, "create", "mark")
    /\ LET marked == intents \cup {call[p].runner} IN
       \/ intents' = marked /\ Goto(p, "spawn") /\ UNCHANGED faults
       \/ intents' \in {intents, marked} /\ Return(p) /\ Fault
    /\ UNCHANGED <<imageVars, records, copying>>

(* A child that does not start has its intent cleared again; if that fails *)
(* the reservation stays.                                                  *)
Spawn(p) ==
    /\ At(p, "create", "spawn")
    /\ LET r == call[p].runner IN
       \/ /\ copying' = copying \cup {r}
          /\ Goto(p, "wait")
          /\ UNCHANGED <<intents, faults>>
       \/ /\ intents' = intents \ {r}
          /\ Goto(p, "undo")
          /\ Fault
          /\ UNCHANGED copying
       \/ /\ intents' \in {intents, intents \ {r}}
          /\ Return(p)
          /\ Fault
          /\ UNCHANGED copying
    /\ UNCHANGED <<imageVars, records>>

(* The clone ends and is recorded, or the call gives up without an answer. *)
Wait(p) ==
    /\ At(p, "create", "wait")
    /\ LET r == call[p].runner IN
       \/ r \notin copying /\ intents' = intents \ {r} /\ UNCHANGED faults
       \/ UNCHANGED intents /\ Fault
    /\ Return(p)
    /\ UNCHANGED <<imageVars, records, copying>>

CopyEnds(r) ==
    /\ r \in copying
    /\ copying' = copying \ {r}
    /\ UNCHANGED <<imageVars, records, intents, pc, call, faults>>

(* Calls that are not modelled here have the runner's instance lock.       *)
InstanceLockFree(r) ==
    \A p \in Procs : call[p].runner = r => pc[p] \in {"checkHost", "reserve"}

(* A clone is adopted, or its deletion comes no further than its intent.   *)
ClearIntent(r) ==
    /\ r \in intents \ copying
    /\ InstanceLockFree(r)
    /\ intents' = intents \ {r}
    /\ UNCHANGED <<imageVars, records, copying, pc, call, faults>>

(* Bug: a record is removed while its clone may still be under way.        *)
RemoveUncertain(r) ==
    /\ records[r] # NoImage
    /\ InstanceLockFree(r)
    /\ records' = [records EXCEPT ![r] = NoImage]
    /\ intents' = intents \ {r}
    /\ UNCHANGED <<imageVars, copying, pc, call, faults>>

(* The runner's machine is deleted or its reservation released: under the  *)
(* instance lock, with no copy of its machine under way.                   *)
RemoveRecord(r) ==
    /\ records[r] # NoImage
    /\ r \notin copying
    /\ InstanceLockFree(r)
    /\ records' = [records EXCEPT ![r] = NoImage]
    /\ intents' = intents \ {r}
    /\ UNCHANGED <<imageVars, copying, pc, call, faults>>

-----------------------------------------------------------------------------
KillProc(p) ==
    /\ Active(p)
    /\ Return(p)
    /\ Fault
    /\ UNCHANGED <<imageVars, registryVars>>

BuildStep(p) ==
    \/ CreateMachine(p) \/ Identify(p) \/ Provision(p) \/ FailBuild(p)
    \/ StopMachine(p) \/ Verify(p) \/ WriteManifest(p)

HostStep(p) == CheckHost(p) \/ LockHost(p) \/ ReadHost(p) \/ WriteHost(p)

RemoveStep(p) == Drain(p) \/ Destroy(p) \/ Unlink(p)

CreateStep(p) ==
    Reserve(p) \/ Validate(p) \/ Undo(p) \/ Mark(p) \/ Spawn(p) \/ Wait(p)

ProcStep(p) ==
    \/ HostStep(p) \/ LockTemplate(p)
    \/ BuildStep(p) \/ RemoveStep(p) \/ CreateStep(p)

Next ==
    \/ \E p \in Procs :
          \/ ProcStep(p)
          \/ KillProc(p)
          \/ \E i \in Images :
                \/ CallBuild(p, i)
                \/ CallRemove(p, i)
                \/ \E r \in Runners : CallCreate(p, i, r)
    \/ \E r \in Runners : CopyEnds(r) \/ ClearIntent(r) \/ RemoveRecord(r)

Spec == Init /\ [][Next]_vars

(* Processes go on, copies end, and the operator calls Remove again.       *)
FairSpec ==
    /\ Spec
    /\ \A p \in Procs : WF_vars(ProcStep(p))
    /\ \A r \in Runners : WF_vars(CopyEnds(r))
    /\ \A i \in Images : SF_vars(\E p \in Procs : CallRemove(p, i))

-----------------------------------------------------------------------------
(* Every variable keeps its type.                                          *)
TypeOK ==
    /\ host \subseteq Images
    /\ manifests \subseteq Images
    /\ template \in [Images -> {"none", "running", "stopped", "deleted"}]
    /\ ready \subseteq Images
    /\ records \in [Runners -> Images \cup {NoImage}]
    /\ intents \subseteq Runners
    /\ copying \subseteq Runners
    /\ pc \in [Procs -> {"idle", "checkHost"} \cup BuildSteps \cup RemoveSteps
                           \cup CreateSteps]
    /\ call \in [Procs ->
          [op : {"none", "build", "remove", "create"},
           image : Images \cup {NoImage},
           runner : Runners \cup {NoRunner},
           host : SUBSET Images]]
    /\ faults \in 0 .. MaxFaults

(* Every registered image has its manifest file.  LoadHost refuses a       *)
(* configuration without (config.go, validateHost), so one missing         *)
(* manifest would stop every command of every image, Remove included.      *)
RegisteredHasManifest == host \subseteq manifests

(* A manifest, and so a registration, only ever describes a machine whose  *)
(* provisioning and seal were complete and that was not started since,     *)
(* whatever failed in the build.                                           *)
RegisteredIsSealed ==
    \A i \in manifests :
        i \in ready /\ template[i] \in {"stopped", "deleted"}

(* While a clone may have been started its template is there, stopped:     *)
(* Remove either sees the runner's record, or the clone waits for the      *)
(* template lock and fails before it marks its intent (builder.go, Remove).*)
(* Clones outlive the process that held the lock.                          *)
IntentHasTemplate ==
    /\ copying \subseteq intents
    /\ \A r \in intents :
          records[r] \in Images /\ template[records[r]] = "stopped"

(* What the other side does to image i, as the contract both sides keep.   *)
Of(i, runners) == {r \in runners : records[r] = i}

Window(i) ==
    INSTANCE CloneWindow
        WITH named <- Of(i, Runners), marked <- Of(i, intents),
             copying <- Of(i, copying),
             held <- \E p \in Procs : /\ call[p].op = "create"
                                     /\ call[p].image = i
                                     /\ pc[p] \in CloneSteps

(* CREATE and the removal of runners are here what the lifecycle makes of  *)
(* them (RunnerLifecycle, WindowSpec), for every image.                    *)
WindowSpec ==
    /\ \A i \in Images : Window(i)!Init
    /\ [][\A i \in Images : [Window(i)!Next]_(Window(i)!vars)]_vars

-----------------------------------------------------------------------------
(* The inductive invariant.                                                *)

(* Both locks exclude.                                                     *)
LockInv ==
    \A p, q \in Procs :
        /\ HoldsHost(p) /\ HoldsHost(q) => p = q
        /\ \A i \in Images : HoldsTemplate(p, i) /\ HoldsTemplate(q, i) => p = q

(* Steps belong to their operation; what was read stays true as far as it  *)
(* must.                                                                   *)
CallInv(p) ==
    LET c == call[p] IN
    /\ pc[p] = "idle" <=> c.op = "none"
    /\ c.op = "none" => c = NoCall
    /\ c.op = "build" => pc[p] \in {"checkHost"} \cup BuildSteps
    /\ c.op = "remove" =>
          pc[p] \in {"checkHost", "lockTemplate"} \cup RemoveSteps
    /\ c.op = "create" => pc[p] \in {"checkHost"} \cup CreateSteps
    /\ c.op # "none" => c.image \in Images
    /\ c.op = "create" <=> c.runner \in Runners
    /\ pc[p] = "hostWrite" => c.host = host
    /\ \A i \in c.host : template[i] # "none"
    /\ c.op \in {"remove", "create"} /\ pc[p] # "checkHost" => c.image \in c.host

(* Nobody else knows an image that is being built.                         *)
BuilderInv(p) ==
    LET i == call[p].image IN
    call[p].op = "build" =>
        /\ i \notin host
        /\ \A q \in Procs : i \notin call[q].host
        /\ \A q \in Procs \ {p} : call[q].op = "build" => call[q].image # i
        /\ pc[p] \in {"checkHost", "create"} => template[i] = "none"
        /\ pc[p] \in {"stop", "verify", "writeManifest"} => i \in ready
        /\ pc[p] = "writeManifest" => template[i] = "stopped"
        /\ pc[p] \in {"hostLock", "hostRead", "hostWrite"} => i \in manifests

(* The drain check stays good under the template lock, and the machine is  *)
(* gone before the registration.                                           *)
RemoverInv(p) ==
    LET i == call[p].image IN
    call[p].op = "remove" =>
        /\ pc[p] = "destroy" => \A r \in intents : records[r] # i
        /\ pc[p] \in {"hostLock", "hostRead", "hostWrite", "unlink"} =>
              template[i] = "deleted"
        /\ pc[p] = "unlink" => i \notin host

(* A reservation is its call's own until the call ends.                    *)
CreatorInv(p) ==
    LET r == call[p].runner IN
    call[p].op = "create" /\ pc[p] \in CreateSteps \ {"reserve"} =>
        /\ records[r] = call[p].image
        /\ \A q \in Procs \ {p} : call[q].runner = r =>
              pc[q] \in {"checkHost", "reserve"}
        /\ pc[p] \in {"lockTemplate", "validate", "undo", "mark"} => r \notin intents
        /\ pc[p] \in {"spawn", "wait"} => r \in intents
        /\ pc[p] = "spawn" => r \notin copying
        /\ pc[p] = "mark" => template[records[r]] = "stopped"

ProcInv == \A p \in Procs :
    CallInv(p) /\ BuilderInv(p) /\ RemoverInv(p) /\ CreatorInv(p)

IInv ==
    /\ RegisteredHasManifest
    /\ RegisteredIsSealed
    /\ IntentHasTemplate
    /\ LockInv
    /\ ProcInv

-----------------------------------------------------------------------------
(* The configuration changes by the image of the call that writes it and   *)
(* by no other: no update of UpdateHost's is lost.                         *)
OneImageAtATime ==
    [][\A i \in Images : (i \in host) # (i \in host') =>
          \E p \in Procs : HoldsHost(p) /\ call[p].image = i]_vars

(* A registration is only given up once its machine is gone, so that a     *)
(* removal that fails before that can be repeated.                         *)
DeregisteredLast ==
    [][\A i \in host \ host' : template[i] = "deleted"]_vars

(* A removal that deleted the machine and was then interrupted is          *)
(* completed by calling it again, once no record names the image.          *)
RemovalConverges ==
    \A i \in Images :
        (<>[](\A r \in Runners : records[r] # i))
            => [](template[i] = "deleted" => <>(i \notin host))
=============================================================================
