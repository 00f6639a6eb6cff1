# A verification of garm-provider-orbstack

TLA+ models of the provider that turns GARM's requests into OrbStack machines,
model-checked with TLC and, for the properties that matter most, proved with
TLAPS. Paths are relative to the repository.

## The system

| part | state it keeps | operations | hard about it |
|---|---|---|---|
| provider lifecycle, `internal/provider` | none between calls | CreateInstance, DeleteInstance, GetInstance, ListInstances, RemoveAllInstances, Start, Stop, Recover | one process per call; processes overlap, time out and are killed between any two steps |
| runner registry, `internal/state` | `records.json`, clone-intent files, flock files | Initialize, Reserve, Save, Remove, Find, Snapshot, instance and template locks, intents | a write may report an error after it took effect; locks are inherited by children |
| OrbStack client, `internal/orbstack` | none (OrbStack owns the machines) | clone, list, info, start, stop, settings, run, delete by rename | the backend goes on after `orbctl` is killed; delete is composed of three commands |
| template store, `internal/templates` | template machines, manifests | Build, RegisterImage, List, Remove | several stores updated one after another, next to running clones |
| host configuration, `internal/config` | `host.toml` | LoadHost, UpdateHost | read-modify-write under a lock |
| installer, `internal/install` | install record, release directories, link, secrets, controller configuration, LaunchAgent, CLI profile | Install (upgrade, resume), Uninstall, the garm-cli profile commands | an interrupted command must be resumable from its files; launchd restarts the controller on its own, and a restart kills providers |
| doctor, `internal/install/doctor.go` | none | checks, and a probe clone | the clone has no record: it must be cleaned up or reported |
| commands, `cmd/*` | none | flag parsing, one call per process | - |
| image scripts, `install.sh` | - | straight-line shell | - |

How they interact: GARM starts `garm-provider-orbstack` once per request. The
process takes the runner's instance lock (an flock), runs short transactions on
`records.json` under `global.lock`, and calls `orbctl`. The clone child inherits
the open file of the instance lock, so the lock outlives a killed provider. The
operator runs `garm-orbstack recover`, `template ...` and `install` against the
same directories. Nothing but the files and OrbStack's machines is shared.

What makes each part correct:

* lifecycle: a machine is never forgotten, never made twice for a request,
  never bootstrapped twice; capacity counts what may still appear; an
  interrupted deletion or clone can always be finished;
* registry: a transaction is all or nothing; ownership never changes in place;
* OrbStack client: Delete hits only the machine with the recorded ID;
* template store and configuration: every registered image has its manifest,
  and a sealed machine until a removal has deleted it; no clone loses its
  template; concurrent updates are not lost;
* installer: from every interruption some later command reaches a working
  installation; the controller an installation is bound to never changes; the
  version changes only while no runner exists;
* doctor: a probe is cleaned up or reported, and is never another machine.

## Modules

| module | models |
|---|---|
| `RunnerLifecycle` | `provider.go` over `registry.go` and `cli.go`: helpers, registry, clone children, the backend, machines |
| `RunnerListing` | ListInstances, as two reads next to the calls of `RunnerLifecycle` (which it extends) |
| `MachineLedger` | what the lifecycle promises of its machines: an abstract specification that `RunnerLifecycle` implements (`LedgerSpec`) |
| `CloneWindow` | the contract between the lifecycle and the template store: an abstract specification that both implement (`WindowSpec` of `RunnerLifecycle` and of `TemplateHost`) |
| `RunnerRegistry` | the contract between the lifecycle and the registry's files: an abstract specification that both implement (`RegistrySpec` of `RunnerLifecycle` and of `RegistryFile`) |
| `TemplateHost` | `template build` and `template remove` over `host.toml`, manifests and template machines, next to the part of CREATE that reads a template |
| `OrbDelete` | `Client.Delete` as its orbctl commands, next to local actors who rename, create and delete machines |
| `CloneSetup` | doctor's probe and the setup of a CREATE's clone, as their orbctl commands, next to the same actors |
| `RegistryFile` | registry writes as the steps of `writeAtomic`, and what a power failure leaves of them |
| `Installer` | install, upgrade, resume, uninstall and the profile commands over the files of an installation, launchd and the controller |
| `MC...` | the symmetry sets of the TLC runs |
| `RunnerLifecycle_proofs`, `RunnerContracts_proofs`, `TemplateHost_proofs`, `OrbDelete_proofs`, `CloneSetup_proofs`, `RegistryFile_proofs`, `Installer_proofs` | theorems about the module they are named after; `RunnerContracts_proofs` has the refinements of `RunnerLifecycle`, and `RunnerListing` |
| `Contracts_proofs` | what follows from the three abstract specifications alone |

Every module looks at one layer and takes the others as it finds them:
`RunnerLifecycle` takes a registry operation and the settings of a machine for
one step each and a deletion for two (`Lift`, `Destroy`), which `RegistryFile`,
`CloneSetup` and `OrbDelete` open up; `Installer` sees of the lifecycle the number of its records and
whether a provider is at work.

Lifecycle and template store are too large to be checked as one specification.
They meet at the templates, and `CloneWindow` says how, with four sets and no
processes: which runners name the template, which of them have an intent, which
are being copied, and whether a CREATE holds the template's lock. A copy begins
under the lock, with record and intent; record and intent stay until it is
over, although the lock may go earlier. `RunnerLifecycle` implements this with
all its failures, deaths, deletions and recoveries; the CREATE and the removals
of `TemplateHost` implement it for every image. So what `template remove` is
checked against there is what the lifecycle really does.

`RunnerRegistry` does the same downwards. `RunnerLifecycle` takes every
registry write for one step; `RegistryFile` shows that it is four, and that the
power may fail between them. What the two have in common is the contract: for
each runner a phase, an intent and whether a machine may exist, each phase and
intent as it is read and as it is kept on the disk, where what is kept follows
what is read in any order. A machine is made under a reservation and an intent
that are both kept; an intent goes when the ID is kept or there is no machine;
a record goes when machine and intent are certainly gone. `RegistryFile`
implements this with torn writes, deaths and power failures, `RunnerLifecycle`
with all its calls, for which what is kept is what is read. The contract in turn
implies that no machine is lost and no intent inherited (`Contracts_proofs`).

### RunnerLifecycle

A *helper* is one process serving one call. `pc` is where it is, `call` the
locals it needs: the operation, the target as given, the runner it resolved,
the machine name and the ID in its copy of the record. `records` and `intents`
are the registry's files; `owner` is a history variable, the runner each random
machine name was generated for. `child`, `backend` and `machine` are orbctl's
clone process, the copy in OrbStack's backend, and the machine; `caps` and
`queued` say how much of the flavor is applied (`lifted`: all of it was, and a
deletion has taken the disk limit off again) and how often the bootstrap unit
was enqueued.

One action is one step whose effects others can see: taking a lock, a registry
transaction, an intent file operation, an orbctl command. Each carries its
failures: a write that fails may have taken effect (`writeAtomic` syncs the
directory after its rename), `ApplySettings` stops after any of its seven
commands, a boot or an injection may fail after it worked. `Client.Delete`
looks for the machine and lifts its disk limit, running or not (`Lift`), before
it renames, checks and deletes it (`Destroy`); nothing gives the limit back when
the second step fails or is never reached. `KillHelper` ends a process anywhere and leaves its clone child and the backend running;
`ChildFails` covers the deadline that kills orbctl while the backend copies on.

The instance lock is not a variable: a helper between `lock` and its return
holds it, and so does a living clone child (`InstanceLockFree`). The template
lock is held by a helper inside `clone`. All images share one template here.

`RunnerListing` adds a list between its two reads: `seen` is the snapshot of
the records, `Shown` what the answer would be if the inventory were read now,
and the history variable `steady` the runners that had their machine ever since.

What is abstracted: request validation that only refuses (pool, image, flavor,
architecture), the bootstrap payload, the inventory's format checks, the
contents of answers. A machine's ID is the name it
was cloned under, since names are fresh random strings and IDs are never
reused; renames, which only `Client.Delete` performs, are inside `Destroy`.
When the template cannot be used, CREATE removes its record before it has marked
the intent; `RunnerLifecycle` has this (`Undo`), `RegistryFile` leaves it out
(provider.go:196-201): with no intent and no machine it is a removal like that
of a released reservation.
Operations on another pool's or controller's records are refused by the code
and left out. A template is never a clone, so `isTemplate` is always false.

The operator who asks for `--release` is assumed to have looked first
(`Inspected`): no process of this runner at work and no copy of it under way.
Without this, a release would forget a machine still being made; the code
cannot check it, which is why the intent exists.

### TemplateHost

`host` is `host.toml`, `manifests` the manifest files, `template` the template
machine of each image; `ready` is a history variable, the images whose recipe,
seal and package inventory ran to their end. `records`, `intents` and `copying`
are what this layer sees of the lifecycle. Images are the nonces that `Build`
draws: the image ID, the machine name and the manifest's file name are all made
of it, so one value stands for all three.

A process is at a step `pc` of its call; `call.host` is its copy of the
configuration, which `LoadHost` reads without the lock (`CheckHost` looks for
the manifests later) and which `ReadHost` reads again under the lock.
`UpdateHost` is `LockHost`, `ReadHost`, `WriteHost`; `Build` and `Remove` are
their commands in order. Each may fail, with or without effect; a build that
fails stops its machine if it can and leaves it.

CREATE is there from its `Reserve` to the end of its clone. The calls that
release a runner or clear its intent without looking at a template (DELETE,
recover) are two steps that take its instance lock and wait for the copy to end
(`RemoveRecord`, `ClearIntent`); that they do nothing else to a template is the
contract above.

Left out: `List` and `LoadManifest`, which only read; the comparison of
manifest, registration and machine data, which agree unless somebody edits the
files by hand; `RegisterImage`'s check that identity and paths have not
changed, since nothing in the repository changes them after installation. No
one else starts or deletes a template machine.

### OrbDelete

`name` maps OrbStack's machines, by ID, to their names; IDs are never given
twice. `DeleteStep` is `Client.Delete`: resolve by ID, lift the quota (its
failure is ignored), rename by ID to a fresh name, resolve again and compare,
delete by name. Actors create, rename and delete machines at any time, under
the names in `Known`; a job may fill its disk, after which its machine cannot be
renamed. The names a deletion draws are not known to anyone else, which is what
`Client.Delete`'s comment assumes as well; a drawn name is only drawn again
when no machine and no running deletion has it. A full machine that nobody
lifts stays full.

### RegistryFile

`records`, `intents` and `data` are what processes see: the phase of each
runner's record, the intent files, and whether the contents of `records.json`
have been synced. `kept` is what a power failure would leave. A transaction
takes `global.lock`, reads, syncs its temporary file, renames it and syncs the
directory, and only the last step moves `records` to `kept`; the system may
write a directory back at any time (`WriteBack`). A step may fail, a process may
die and the power may fail between any two steps. The operations follow each
other as in `provider.go`, one call per runner at a time. After a power failure
OrbStack still has its machines: `machine` is kept.

### CloneSetup

`name` and `origin` are OrbStack's machines by ID: the name each has, and the
one it was created with (IDs are never given twice). A process of `Doctors` or
`Creates` draws a name (`own`), asks for a clone under it, looks up its `id`,
writes the settings one by one to the name in `addr`, starts, tests and, for
doctor, deletes and confirms. `Disk` is the setting that the deletion lifts
before it deletes. doctor writes to the name it drew; a CREATE looks
at its machine by ID once more (`Observe`, `ownedInfo`) and writes to the name
the machine has then. Everything but the settings goes by ID. `copying` holds
the copies OrbStack is making, which may end after orbctl is gone. `answer` is
what the call returned: `ok` or `failed` when the probe's clone was cleaned up,
`inspect` when the error asks for an inspection, `killed` without an answer.

Actors create, rename, start and delete machines at any time. They know the
names in `Known`, and no drawn name: it has 64 random bits or more. The records
and locks around a CREATE are left to `RunnerLifecycle`; a failed CREATE leaves
its clone, which its record still names, so its `delete` steps stand for the
later DELETE.

### Installer

A command process `c` of release `mine[c]` is at a step `pc[c]` of Install or
Uninstall and knows `rec[c]`, its copy of the installation record, and
`loc[c]`: what it read of `host.toml`, which files it changed and whether it
loaded the service. Each file is a variable: `record` (installation.json),
`releases` and `partial` (release directories, whole and half removed), `link`,
`config` and `plist`, `secrets`, `profile`, `host` (host.toml, as the
controller it names), `registry`. `loaded` is the release whose LaunchAgent
launchd has loaded, `served` the configuration the running controller read when
it started, `db` its database: the secrets it was made with, its controller ID,
whether it has the installation's CA.

A step is one file operation or one command to launchd or to the controller.
What the code checks before a step is `Allowed`, and `Refuse` ends the command
when the check fails. The contents of `config` and `plist` are the release that
rendered them and the release whose programs they name; with `Drifts` releases
render differently, without it they render alike and differ in the programs.
A recorded digest is the contents it is of.

Between any two steps a command may die (`Die`), another may run up to
`installation.lock`, launchd may start the controller again (`Respawn`), the
machine may restart and load the LaunchAgent it finds (`RestartMachine`), files
may be lost while neither a command nor the controller uses them (`Lose`), and
providers called by the controller make and delete records.

`Respawn` covers KeepAlive: it starts the job as it was loaded, with the
configuration that is there. External too are `Starts` (a controller reads its
configuration and makes a database when there is none) and the meaning of
bootstrap and kickstart. A rename or a link is one step; that a power failure
could undo or tear one is the subject of `RegistryFile` and not repeated here.
Left out is what only refuses a command before its first step (release
checksums and provenance, prerequisites, paths, directories' modes) and the
contents of certificates, backups and passwords.

## Runs

Bounds: `Names` bounds how many machines one behaviour can reserve,
`MaxFaults` how many failures, deaths and interventions it contains. Helpers,
runners and names are interchangeable (symmetry) except in the liveness runs.

| run | instance | checks |
|---|---|---|
| `lifecycle_safe` | 2 runners, 2 helpers, 2 names, capacity 1, 2 faults | `TypeOK`, `OneWriterPerRunner`, `TargetIsCurrent`, `NoOrphanMachine`, `IntentCoversClone`, `CapacityBound`, `BootstrapOnce`, `ActiveIsComplete`; `LedgerSpec` and `RegistrySpec`, the refinements of `MachineLedger` and `RunnerRegistry`. Two names let a runner name be used again, one slot makes two runners compete, two faults let a clone fail and its cleanup fail or the helper die |
| `lifecycle_two` | 2 runners, 1 helper, 3 names, capacity 2, 1 fault, a list | `ListIsOfOneMoment`, and `WindowSpec`, the contract with the template store. Three names let a runner be deleted and made again between the two reads of a list, next to one that stays; a clone that outlives its killed helper contends with the next one for the template lock. With two helpers and two names (1.2 million states, two minutes) both hold too |
| `lifecycle_live` | 1 runner, 2 helpers, 1 name, 2 faults | `CallsReturn`, `DeletionConverges`, `ReservationResolves`, under fairness. Two faults: a death, and a failure in the call that repairs |
| `caps_before_boot` | 1 runner, 1 helper, 1 name, 1 fault | finds `CapsBeforeFirstBoot` violated, see Findings |
| `templates` | 2 processes, 2 images, 1 runner, 2 faults | `RegisteredHasManifest`, `RegisteredIsSealed`, `IntentHasTemplate`, `OneImageAtATime`, `DeregisteredLast`, `WindowSpec`; `RemovalConverges`, under fairness. Two processes: two updates of `host.toml`, or a removal next to a CREATE |
| `orb_delete` | 2 machines, 2 known and 3 drawn names, 2 deletions, 2 faults, 3 moves of actors | `OnlyTheTarget`, `SuccessMeansGone`; `DeletionConverges`, under fairness. Two machines: the target, and one that takes its old name or is under the other deletion |
| `power_failure` | 2 runners, 2 processes, 4 faults | `NeverTorn`, `MachinesSurvivePowerFailure`; `RegistrySpec`, the refinement of `RunnerRegistry`. Four faults: a failed sync, another one in the retry, a death and the power failure |
| `install_safe` | 2 commands, 2 releases that render differently, 1 runner record, 1 failure or death, 1 restart, 1 loss, 2 requests | `IdentityKept`, `NothingDangles`, `VersionChangeQuiet`, `KillsOnlyForChange`, `FinishedMeansServing`, `FinishedIsUpgradable`, `OnlyLoginLoadsOldRelease`. Two requests: an upgrade, and its way back or an uninstall; two commands race for the lock with what they read before it |
| `install_converges` | 1 command, 2 releases, 2 deaths, 1 restart, 2 requests | `InstallConverges`, under fairness |
| `install_third_release` | 1 command, 3 releases, 1 death, 2 requests | finds `ResumeAccepted` violated |
| `install_refusal` | 1 command, 3 releases, 2 deaths, 2 requests | finds `ManagedWritesAccepted` violated |
| `setup_safe` | 1 doctor, 1 CREATE, 3 machines, 2 known and 2 drawn names, 2 settings (one is the disk limit), 2 faults, 2 moves of actors | `ProbeLeavesNothing`, `OnlyItsClone`, `ProbeIsLimited`, `SettingsStayInside`. Two settings: one goes right and the next goes elsewhere or fails |

`CloneOnce` and `IntentHasRecord` of `RunnerLifecycle` and `OneRecordAtATime` of
`RegistryFile` are in no run either: `LedgerSpec` and `RegistrySpec` say as much
and more. They are proved all the same. So is `LimitsEvaded`.

The type invariants (`TypeOK`) of the other modules and the inductive
invariants (`IInv`, `NameInv`) are not in this list: they are proved for every
instance, after TLC had found them to hold of small ones.

Fairness. `WF(HelperStep)`: a process that can go on does; every orbctl command
and lock wait has the call's deadline. `WF(OrbStep)`: orbctl and the backend
end a copy they can end. `SF(CallOn)` for delete, adopt and release of each
runner: GARM retries a deletion until it succeeds and the operator resolves a
reported reservation. Failures are never fair. The two convergence properties
ask for `LeftAlone`, that from some moment on one helper is the only one that is
called, because GARM serialises its calls for one instance: with two for ever,
an adversary may let every DELETE arrive while a GET holds the lock, and DELETE,
which does not wait, returns busy each time. `CallsReturn` asks for nothing.

In `TemplateHost`, `WF(ProcStep)` and `WF(CopyEnds)` say that processes and
copies go on, and `SF` of `CallRemove` that the operator follows the code's own
advice to run `template remove` again; `RemovalConverges` only promises an end
once no runner uses the image. In `OrbDelete`, `WF(DeleteStep)` and `SF(Call)`:
a deletion that has begun ends, and GARM calls it again until it is done;
`LeftAlone` again keeps two deletions of one machine from renaming it under each
other for ever, which the instance lock prevents. A
deletion that is never called again, or one that an actor disturbs for ever
(`MaxMoves` bounds the actors), promises nothing.

In `Installer`, `WF(Step)` says that a command goes on, and `WF(Resume)` that
somebody runs the installer of the recorded release again whenever none is
running: the code's errors ask for exactly this. Deaths, restarts and requests
are never fair and bounded. `InstallConverges` exempts an installation that was
never recorded and a release directory half removed by an interrupted
uninstall, which every later command refuses until somebody removes the rest.

Deadlock is checked everywhere but in the runs of `CloneSetup`, where the
drawn names and the machines run out and everything may have been done.

Each operator commented `Bug:` is a mistake that could be made at the
definition after it; substituting it must violate the property the project
lists it for. They are not part of the specification.

## Findings

* `caps_before_boot`: README.md:10 says limits and isolation are applied "while
  the clone is still stopped, before first boot". `Provider.Start`
  (provider.go:527) boots any owned machine of a record with an ID, whatever its
  phase. When a CREATE dies between recording the clone (`created`) and
  `ApplySettings`, a Start for that runner boots the clone without its limits.
  `BootstrapOnce` shows that a bootstrap is only enqueued after all settings.
* `install_third_release`: an upgrade from 1 to 2 dies after the record of 2
  and before the link is switched. An upgrade to 3 is then accepted, because
  the link is that of the previous version on record; the record becomes 3
  after 2, and from then on the link to 1 is refused as another
  installation's, by every install and uninstall. It is proved that this, a
  third release before the second has reached the link, is the only way to get
  there (`OnlyThirdReleaseStrandsLink`).
* `install_refusal`: `checkManagedFiles` runs before the controller is stopped
  "so a refusal never leaves it stopped" (install.go:237-239), and accepts what
  the version before the previous one rendered. The writes after the stop do
  not: a LaunchAgent of release 1 whose digest was never saved passes the check
  of an upgrade from 2 to 3 and then ends it, with the controller stopped.

Three more disagreements, each with a configuration of its own that is not among
the runs above:

* `MCRunnerLifecycle_lift.cfg` finds `LiftHasNoLastingEffect` violated:
  `Client.Delete` takes the disk limit off first, so that a full machine can be
  renamed, and says that this "has no lasting effect" (cli.go:276-277). When the
  rename, the check or the delete fails, or the helper dies, a machine that was
  running goes on without the limit, with its job if it has one, until a DELETE
  is repeated and succeeds. Its record says `deleting` by then
  (`BootstrapOnce`), so an active runner is never in this state
  (`ActiveIsComplete`); a Start still boots it. It is proved that this and a
  Start of a record in phase `created` or `deleting` are the only ways to a
  machine that runs without all of its limits (`LimitsEvaded`).
* `MCCloneSetup_runner.cfg` finds `RunnerIsLimited` violated: README.md:10
  again, and README.md:37 speaks of an "ID-addressed lifecycle".
  `Client.Delete` writes its setting by ID because "a concurrent rename
  reassigning names cannot redirect it" (cli.go:271-275); `ApplySettings`
  writes by the name the machine had when it was observed. If somebody renames
  it meanwhile and gives the name to another machine, the remaining settings go
  there, no command fails, and the runner boots without them. doctor's probe is
  not concerned (`ProbeIsLimited`): it writes to its random name.
* `MCInstaller_login.cfg` finds `ServesItsRelease` violated: the machine
  restarts in the middle of an upgrade, after the new version is on record. At
  login launchd loads the old LaunchAgent. The resumed installation writes the
  new one, which does not count as a change that asks for a restart
  (install.go:530), and kickstart does not read it: the installation ends well
  with the old release's controller. `OnlyLoginLoadsOldRelease` and the theorem
  `FinishServesItself` show that without such a login it cannot.

## Proofs

`RunnerLifecycle_proofs` holds for every set of runners, helpers and names, any
`MaxInstances` and any number of faults; the only assumptions are
`LifecycleAssumption` (the sets are disjoint from the null values and from each
other, the bounds are numbers).

The properties are not inductive: `NoOrphanMachine`, for one, needs to know
that a helper about to remove a record has really confirmed absence. `IInv`
adds it, in three families: `RecordInv` (a record, its name's owner, its
machine and its intent), `MachineInv` (a name, its child, its copy and its
record), `HelperInv` (what a helper knows at its step), together with
`OneWriterPerRunner`.

`Locality` carries the proof. A helper inside its lock changes only its own
record, its own machine name and itself (`Footprint`); with
`OneWriterPerRunner`, everything `IInv` says of other runners, names and
helpers is untouched. So for each action it is enough to show that the step
re-establishes what concerns its own runner (`Settled`). `QuietGoto` and
`QuietReturn` are the two common cases that write nothing. The remaining
actions (calls, taking the lock, the environment) are done directly.

| theorem | states |
|---|---|
| `Invariance` | `[](TypeOK /\ IInv)` |
| `Typing`, `Exclusion`, `Currency`, `NoOrphans`, `Intents` | the safety properties of `lifecycle_safe` but the two about the bootstrap and those of the next rows |
| `IntentsHaveRecords`, `CloningOnce` | `IntentHasRecord`, `CloneOnce` |
| `SetupInvariance`, `EnqueuedOnce`, `ActiveMeansComplete` | the two about the bootstrap |
| `TwoWaysEvadeLimits` | `LimitsEvaded`: without all of its limits a machine comes to run by a Start of a record in `created` or `deleting`, or by the lift of a deletion on record |
| `CallsMoveForward` | `CallsAdvance`: each step of a call brings it nearer to its end, nothing moves it back |
| `CallsDoTheirWork` | `CallsAccomplish`: without a failure at that step, a deletion never gives up unless somebody else deletes the machine right before its rename, an adoption gives up only for want of a machine, and an operator's release only before one |
| `Refinement`, `WindowKept`, `RegistryKept` | `LedgerSpec`, `WindowSpec` and `RegistrySpec`, in `RunnerContracts_proofs` |
| `ListedAtOnce` | `ListIsOfOneMoment` for every list next to the lifecycle, in `RunnerContracts_proofs` |
| `LedgerBoundsMachines`, `WindowShowsCopies`, `RegistryKnowsMachines` | what each contract implies on its own, in `Contracts_proofs` |
| `RecordsBounded`, `Capacity` | records, and machines and copies under way, never exceed `MaxInstances`; the latter by an injection of live names into records |

`SetupInv` comes on top of `IInv`: what settings and
bootstrap units a machine has in each phase of its record, and what the call at
work knows of it. `BootstrapOnce` needs it because the unit is enqueued before
its commit, which may fail, and because a deletion saves its record before it
lifts a limit: in every other phase `lifted` is excluded.

The refinements are proved step by step. For the ledger, `LedgerStatus` is read
off each name, and every action is shown to move at most one name, and only as
the ledger moves it; the claim below `MaxInstances` uses the injection of names
into records again. For the window, `IInv` tells which calls can find a copy
under way (`NotCopying`). For the registry, every action is shown to make one
step of `RunnerRegistry` or none; `HelperInv` has for it what phase a record has
when its machine is destroyed and when it is removed.

The answer of a list is of one moment because a machine goes before its record,
and a record keeps its machine's ID to its end: `ListInv` remembers this for
the records that were read, and `NoOrphanMachine` (as `MachineInv`) does the
rest.

`TemplateHost_proofs` has the same form: `IInv` of `TemplateHost` joins the
three safety properties with `LockInv` (both locks exclude) and `ProcInv` (what
a process knows at its step). There is one lemma per action (`Keeps...`), which
shows `IInv'` for the acting process; `Others` shows, once for all actions, that
a step which writes only what its locks allow leaves what the other processes
know in place, and `Assembled` puts the parts together. The drain check of
`Remove` is a good example of why the strengthening is needed: it is made once,
and stays true because a CREATE that comes later either waits for the template
lock or has not marked its intent.

`OrbDelete_proofs` rests on `NameInv`: names are unique, and the name a deletion
drew is its target's or nobody's. The first half is OrbStack's, the second the
code's (rename by ID, fresh name); together they make the deletion by name a
deletion by ID.

| theorem | states |
|---|---|
| `TemplateInvariance`, `TemplateTyping`, `ManifestsPresent`, `OnlySealed`, `ClonesKeepTheirTemplate` | the invariants of `templates` and those beneath them |
| `NoLostUpdate`, `MachineGoesFirst` | its action properties |
| `ContractKept` | its `WindowSpec` |
| `DeleteInvariance`, `DeleteTyping`, `NamesBelong`, `SuccessIsFinal`, `DeletesItsTarget` | the safety properties of `orb_delete` |
| `RegistryTyping`, `RegistryInvariance`, `RecordsReadable`, `MachinesKept`, `FilesImplementRegistry` | the properties of `power_failure` |
| `NoLostUpdate` (of `RegistryFile_proofs`) | `OneRecordAtATime` |
| `SetupTyping`, `SetupInvariance`, `ClonesIdentified`, `NothingLeft`, `ProbesLimited`, `NoStraySettings` | the properties of `setup_safe` |
| `InstallTyping`, `InstallInvariance`, `OneIdentity`, `ReleasesInPlace` | the types, what holds between the steps, and the two invariants of `install_safe` |
| `QuietVersionChange`, `FinishServes`, `FinishUpgradable`, `KillsForChange`, `LoginLoads` | the action properties of `install_safe` |
| `FinishServesItself` | a finished installation runs its own release's controller, unless another one than the recorded release was loaded |
| `LinkStranding` | `OnlyThirdReleaseStrandsLink` |

`RegistryFile_proofs`: a power failure leaves any mixture of what was seen and
what was kept, file by file. Its `IInv` therefore says what a process may rely
on of every mixture (`KnownAnyway`), not of the state it sees, and each step
has to keep it for all of them. That is why the intent has to be synced before
the clone and the record before the intent goes.

`FilesImplementRegistry` maps what is read to the contract's `phase` and
`marked` and what is kept to `keptPhase` and `keptMarked`. Only the renames, the
removal of an intent file and the power failure change what is read; every other
step is a `Settle` or nothing. What makes the renames steps of the contract is
that a call relies on what is kept as well (`Relies`), in particular that a
record is removed only after the intent's removal has reached the disk.

`CloneSetup_proofs` rests on the drawn names: a name is drawn once, so the
machine that has it is its drawer's clone until somebody renames it, and a
machine that has another name was never taken for the clone (`Owned`,
`MadeOnce`, `Identified`).

`Installer_proofs` is about the holder of `installation.lock`. Losses happen
without a holder and only launchd and providers act beside it, so what it has
checked stays true to its end (`HolderInv`); a command without the lock has only
what `Lock` compares with the file again. On top of this, `Progress` says what
the holder has done and written down at each step (`WorkInv`), and
`RecordInv` what ties the record to the files and the controller. The restarts
need the last of these: a controller that has read the recorded release's
configuration has read the file as it is. A command that finds another content
therefore knows that the controller has not read what it is about to write. The
one way around it, a command that finds no `host.toml` and writes the
configuration without the provider over one with it, is refused by
`acceptableManaged`: a digest of a configuration with the provider is recorded
only together with a controller, and then `host.toml` is required.

The assumptions are the named `ASSUME` of each module: null values are none of
the others, actors' names and drawn names differ, bounds are numbers.

Only model-checked: the liveness properties, which are out of the prover's
reach. What `CallsReturn`, `DeletionConverges` and `ReservationResolves` rest on
besides fairness is proved: `StepsLeft` bounds a call to 23 steps of its own
(`CallsMoveForward`), and once it has its lock only a failure defeats a retry,
or somebody who deletes the machine right before its rename
(`CallsDoTheirWork`). This needs that a save of a deletion or an adoption is
always a legal change and that a machine once deleted stays so while its
deletion is confirmed (`ConfirmsDeleted`). That the steps are enabled, a wait for
a clone child or a lock ends, and retries come, is left to TLC.

## Not modelled, and the plan

Left to do: the safety core of liveness for the installer and the template
builds, as `CallsMoveForward` and `CallsDoTheirWork` give it for the lifecycle,
and the condition under which `ManagedWritesAccepted` fails, as
`OnlyThirdReleaseStrandsLink` gives it for `ResumeAccepted`.

Left out for good: the guest image scripts, `install.sh` and the bootstrap
download (straight-line shell whose only outcomes are success and failure,
which the builds and the bootstrap have); verification of releases, certificate
generation, parsing of orbctl's output, of flags and of garm-cli's arguments
(functions of their input without state); version constants.
