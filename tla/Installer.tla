------------------------------ MODULE Installer -----------------------------
(***************************************************************************)
(* Installing, upgrading, resuming and uninstalling (internal/install).    *)
(*                                                                         *)
(* A command of the release `mine' reads and writes the files of one home  *)
(* directory, one file per step, and drives launchd and the controller.    *)
(* Between any two steps it may fail or die, the machine may restart, and  *)
(* while the controller runs it calls providers, which create and delete   *)
(* runner records.  What is left of an interrupted command is the files,   *)
(* from which a later command goes on.                                     *)
(*                                                                         *)
(* Staging verification and the prerequisites (verifyRelease, preflight)   *)
(* only refuse a command before its first step and are left out, as are    *)
(* the contents of certificates and the operator's passwords.  External:   *)
(* launchd, which runs the job as it was when it was loaded, and the       *)
(* controller, which reads its configuration when it starts.               *)
(***************************************************************************)
EXTENDS Naturals, FiniteSets

CONSTANTS
    Cmds,         \* command processes that may run at the same time
    Versions,     \* releases
    None,
    Drifts,       \* do releases render the same file differently?
    MaxRunners,   \* bound on runner records
    MaxFaults,    \* bound on commands that fail or die
    MaxRestarts,  \* bound on restarts of the machine
    MaxLosses,    \* bound on lost files
    MaxRequests   \* bound on uninstalls, version changes, profile deletions

ASSUME InstallerAssumption ==
    /\ None \notin Cmds \cup Versions
    /\ Drifts \in BOOLEAN
    /\ {MaxRunners, MaxFaults, MaxRestarts, MaxLosses, MaxRequests}
           \subseteq Nat

VARIABLES
    record,     \* installation.json
    releases,   \* complete release directories
    partial,    \* release directories of which something was removed
    link,       \* the release ~/.local/bin/garm-orbstack points to
    config,     \* the controller's configuration file
    plist,      \* the LaunchAgent file
    secrets,    \* generation of the encryption secrets, 0 without any
    profile,    \* is there an authenticated CLI profile?
    db,         \* the controller's database
    host,       \* the controller host.toml is bound to, 0 without the file
    registry,   \* is there a runner registry?
    loaded,     \* the release whose LaunchAgent launchd has loaded
    served,     \* the configuration the running controller has read
    respawned,  \* was the controller last started under a job loaded before?
    runners,    \* number of runner records
    inFlight,   \* is a provider process at work?
    holder,     \* the holder of installation.lock
    pc, mine,   \* each command's next step and its release
    rec,        \* the record as the command knows it
    loc,        \* what else it remembers
    inits,      \* number of controllers ever initialised
    count       \* faults, restarts, losses and requests so far

dirs == <<releases, partial, link>>
managed == <<config, plist>>
identity == <<secrets, profile, host, registry>>
files == <<record, dirs, managed, identity>>
service == <<loaded, served, respawned, inFlight, db>>
cmdVars == <<holder, pc, mine, rec, loc>>
world == <<runners, inits, count>>
vars == <<files, service, cmdVars, world>>

-----------------------------------------------------------------------------
(* A file's contents: the release that rendered it, as far as that makes a *)
(* difference, and the release whose programs it names.                    *)
NoFile == <<>>
Author(v) == IF Drifts THEN v ELSE None
Render(v, of) == <<Author(v), of>>
Bare(v) == <<Author(v), None>>          \* without the provider
Contents == {NoFile} \cup
    ((Versions \cup {None}) \X (Versions \cup {None}))

HasProvider(file) == file # NoFile /\ file[2] # None

NoRecord == [version |-> None, prev |-> None, controller |-> 0,
             config |-> NoFile, plist |-> NoFile]
NewRecord(v) == [NoRecord EXCEPT !.version = v]
NoDb == [key |-> 0, id |-> 0, ca |-> FALSE]
NoLoc == [host |-> 0, early |-> FALSE, boot |-> FALSE, late |-> FALSE]

InstallSteps == {"lock", "check", "stop", "backup", "place", "secrets",
    "prepare", "config", "plist", "start", "wait", "login", "read", "host",
    "registry", "bind", "enable", "save", "restart", "provider", "recheck",
    "link", "finish"}
UninstallSteps == {"inspect", "halt", "unplist", "unlink", "remove",
    "removing", "logout"}

Running(c) == pc[c] # "idle"

Init ==
    /\ record = NoRecord /\ releases = {} /\ partial = {} /\ link = None
    /\ config = NoFile /\ plist = NoFile /\ secrets = 0 /\ profile = FALSE
    /\ db = NoDb /\ host = 0 /\ registry = FALSE
    /\ loaded = None /\ served = NoFile /\ respawned = FALSE
    /\ runners = 0 /\ inFlight = FALSE
    /\ holder = None
    /\ pc = [c \in Cmds |-> "idle"]
    /\ mine = [c \in Cmds |-> None]
    /\ rec = [c \in Cmds |-> NoRecord]
    /\ loc = [c \in Cmds |-> NoLoc]
    /\ inits = 0
    /\ count = [faults |-> 0, restarts |-> 0, losses |-> 0, requests |-> 0]

-----------------------------------------------------------------------------
Go(c, step) == pc' = [pc EXCEPT ![c] = step] /\ UNCHANGED <<holder, mine>>
Keep == UNCHANGED <<rec, loc>>
Learn(c, r) == rec' = [rec EXCEPT ![c] = r]
Note(c, l) == loc' = [loc EXCEPT ![c] = l]

End(c) ==
    /\ holder' = IF holder = c THEN None ELSE holder
    /\ pc' = [pc EXCEPT ![c] = "idle"]
    /\ mine' = [mine EXCEPT ![c] = None]
    /\ rec' = [rec EXCEPT ![c] = NoRecord]
    /\ loc' = [loc EXCEPT ![c] = NoLoc]

Counted(what, max) ==
    count[what] < max /\ count' = [count EXCEPT ![what] = @ + 1]

(* A controller process starts: it reads its configuration, and creates    *)
(* the database if there is none.                                          *)
CanRun(v) == /\ v \in releases /\ config # NoFile /\ secrets # 0
             /\ db.key \in {0, secrets}

Starts(v) ==
    IF CanRun(v)
    THEN /\ served' = config
         /\ db' = IF db.key = 0 THEN [NoDb EXCEPT !.key = secrets] ELSE db
    ELSE served' = NoFile /\ UNCHANGED db

(* launchctl bootstrap reads the LaunchAgent file, kickstart does not.     *)
Bootstrap == /\ loaded' = plist[2] /\ Starts(plist[2])
             /\ respawned' = FALSE /\ UNCHANGED inFlight

(* kickstart -k kills the controller's process group, providers included.  *)
Kickstart == /\ Starts(loaded) /\ respawned' = FALSE /\ inFlight' = FALSE
             /\ UNCHANGED loaded

(* kickstart starts a controller that is not running.                      *)
EnsureRunning ==
    IF loaded = None THEN Bootstrap
    ELSE IF served = NoFile
    THEN Starts(loaded) /\ respawned' = TRUE /\ UNCHANGED <<loaded, inFlight>>
    ELSE UNCHANGED service

(* bootout, and the wait until the job is unloaded and the process gone.   *)
StopService == /\ loaded' = None /\ served' = NoFile /\ respawned' = FALSE
               /\ inFlight' = FALSE /\ UNCHANGED db

Answers == served # NoFile
Registered == HasProvider(served)

-----------------------------------------------------------------------------
(* What a command requires at its next step; otherwise it refuses.         *)

(* A first installation finds nothing of another one.                      *)
NothingThere(v) ==
    /\ loaded = None /\ host = 0 /\ config = NoFile /\ secrets = 0
    /\ db = NoDb /\ ~registry /\ plist = NoFile /\ link = None
    /\ v \notin releases \cup partial

(* validateManagedLink                                                     *)
LinkIsOurs(r) == link \in {None, r.version, r.prev}

(* acceptableManaged                                                       *)
Acceptable(file, renders, digest) == file \in renders \cup {NoFile, digest}

Others(v, releasesOf) == {Render(v, of) : of \in releasesOf \ {None}}

(* checkManagedFiles                                                       *)
FilesAreOurs(v, r) ==
    LET renders == Others(v, {v, r.version, r.prev}) IN
    /\ Acceptable(config, {Bare(v)} \cup renders, r.config)
    /\ Acceptable(plist, renders, r.plist)

(* Bug: the records are not read again.                                    *)
NotReadAgain == TRUE

(* What came while the controller was being stopped.                       *)
StillDrained == runners = 0

MayChangeVersion(v, r) ==
    /\ host # 0 /\ registry /\ runners = 0 /\ secrets # 0
    /\ FilesAreOurs(v, r)

(* Bug: secrets are made whenever there are none.                          *)
SecretsRotated(r) == r.controller # 0 => db.key # 0

(* A preserved controller is never initialised again, nor are its secrets. *)
Preserved(r) ==
    /\ r.controller # 0 => db.key # 0
    /\ db.key # 0 => secrets # 0

(* Bug: host.toml without a controller on record is another one's.         *)
BindingOnRecord(r) == host = r.controller

BindingAgrees(r) ==
    /\ host # 0 /\ r.controller # 0 => host = r.controller
    /\ r.controller # 0 => host # 0

Wanted(c) == IF loc[c].host # 0 THEN Render(mine[c], mine[c])
                                ELSE Bare(mine[c])

MayWriteConfig(c) ==
    Acceptable(config, {Wanted(c), Bare(mine[c])}
                       \cup Others(mine[c], {rec[c].prev}), rec[c].config)

MayWritePlist(c) ==
    Acceptable(plist, Others(mine[c], {mine[c], rec[c].prev}), rec[c].plist)

MayEnable(c) ==
    Acceptable(config, {Render(mine[c], mine[c]), Bare(mine[c])},
               rec[c].config)

Unbound(c) == rec[c].controller = 0 /\ loc[c].host = 0

IsTheController(c) ==
    /\ rec[c].controller \in {0, db.id}
    /\ loc[c].host \in {0, db.id}

MayUninstall(v, r) ==
    /\ r.version = v /\ r.prev = None
    /\ host # 0 /\ r.controller = host
    /\ registry /\ runners = 0
    /\ link \in {None, v}
    /\ plist \in {NoFile, Render(v, v)}
    /\ v \notin partial

Unchanged(c) == rec[c] = record \/ (record = NoRecord /\ pc[c] = "lock"
                                    /\ rec[c] = NewRecord(mine[c]))

Allowed(c) ==
    /\ pc[c] = "lock" => holder = None /\ Unchanged(c)
    /\ pc[c] = "check" => MayChangeVersion(mine[c], rec[c])
    /\ pc[c] \in {"backup", "unplist"} => StillDrained
    /\ pc[c] = "place" => mine[c] \notin partial
    /\ pc[c] = "secrets" => Preserved(rec[c])
    /\ pc[c] = "prepare" => BindingAgrees(rec[c])
    /\ pc[c] = "config" => MayWriteConfig(c)
    /\ pc[c] = "plist" => MayWritePlist(c)
    /\ pc[c] = "wait" => Answers /\ (db.id # 0 \/ Unbound(c))
    /\ pc[c] \in {"read", "provider", "recheck", "link"} => profile
    /\ pc[c] = "read" => /\ Answers /\ IsTheController(c)
                         /\ db.ca \/ Unbound(c)
    /\ pc[c] = "host" => host = 0
    /\ pc[c] = "enable" => MayEnable(c)
    /\ pc[c] = "provider" => Answers
    /\ pc[c] = "recheck" => Registered
    /\ pc[c] = "link" => db.id = rec[c].controller /\ LinkIsOurs(rec[c])
    /\ pc[c] = "inspect" => MayUninstall(mine[c], rec[c])

At(c, step) == pc[c] = step /\ Allowed(c)

Refuse(c) == /\ Running(c) /\ ~Allowed(c) /\ End(c)
             /\ UNCHANGED <<files, service, world>>

-----------------------------------------------------------------------------
(* Install.  What it finds before it has the lock.                         *)
Install(c, v) ==
    /\ ~Running(c)
    /\ IF record = NoRecord THEN NothingThere(v) ELSE LinkIsOurs(record)
    /\ pc' = [pc EXCEPT ![c] = "lock"]
    /\ mine' = [mine EXCEPT ![c] = v]
    /\ Learn(c, IF record = NoRecord THEN NewRecord(v) ELSE record)
    /\ IF record.version \in {None, v}
       THEN UNCHANGED count
       ELSE Counted("requests", MaxRequests)
    /\ UNCHANGED <<files, service, holder, loc, runners, inits>>

(* installation.lock, and the record read again; the first installation    *)
(* saves it.                                                               *)
Lock(c) ==
    /\ At(c, "lock")
    /\ holder' = c
    /\ record' = rec[c]
    /\ pc' = [pc EXCEPT ![c] = IF rec[c].version = mine[c]
                               THEN "place" ELSE "check"]
    /\ UNCHANGED <<dirs, managed, identity, service, mine, rec, loc, world>>

(* A version change: no runner records and only files of ours, or it is    *)
(* refused while the controller still runs.                                *)
CheckVersionChange(c) ==
    /\ At(c, "check")
    /\ Go(c, "stop") /\ Keep
    /\ UNCHANGED <<files, service, world>>

(* Bug: a version change leaves the controller running.                    *)
StopOnlyToUninstall(c) ==
    /\ \/ At(c, "stop") /\ Go(c, "backup") /\ UNCHANGED service
       \/ At(c, "halt") /\ Go(c, "unplist") /\ StopService
    /\ Keep
    /\ UNCHANGED <<files, world>>

Stop(c) ==
    /\ \/ At(c, "stop") /\ Go(c, "backup")
       \/ At(c, "halt") /\ Go(c, "unplist")
    /\ StopService /\ Keep
    /\ UNCHANGED <<files, world>>

(* The records once more, the backup, and the record of the new version.   *)
ChangeVersion(c) ==
    /\ At(c, "backup")
    /\ LET r == [rec[c] EXCEPT !.version = mine[c],
                            !.prev = rec[c].version] IN
       record' = r /\ Learn(c, r)
    /\ Go(c, "place")
    /\ UNCHANGED <<dirs, managed, identity, service, loc, world>>

(* placeRelease: the directory is complete before it has its name.         *)
PlaceRelease(c) ==
    /\ At(c, "place")
    /\ releases' = releases \cup {mine[c]}
    /\ Go(c, "secrets") /\ Keep
    /\ UNCHANGED <<record, partial, link, managed, identity, service, world>>

(* ensureSecrets: all of them in one rename, and never a second time.      *)
EnsureSecrets(c) ==
    /\ At(c, "secrets")
    /\ secrets' = IF secrets = 0 THEN count.losses + 1 ELSE secrets
    /\ Go(c, "prepare") /\ Keep
    /\ UNCHANGED <<record, dirs, managed, profile, host, registry, service,
                   world>>

(* host.toml is read, and the registry of a bound installation is there.   *)
Prepare(c) ==
    /\ At(c, "prepare")
    /\ Note(c, [loc[c] EXCEPT !.host = host])
    /\ registry' = (registry \/ host # 0)
    /\ Go(c, "config") /\ UNCHANGED rec
    /\ UNCHANGED <<record, dirs, managed, secrets, profile, host, service,
                   world>>

(* managedWrite: the digest goes into the command's copy of the record.    *)
WriteConfig(c) ==
    /\ At(c, "config")
    /\ config' = Wanted(c)
    /\ Learn(c, [rec[c] EXCEPT !.config = Wanted(c)])
    /\ Note(c, [loc[c] EXCEPT !.early = (config # Wanted(c))])
    /\ Go(c, "plist")
    /\ UNCHANGED <<record, dirs, plist, identity, service, world>>

(* Bug: only what was written gets a digest.                               *)
WritePlistUnadopted(c) ==
    /\ At(c, "plist")
    /\ plist' = Render(mine[c], mine[c])
    /\ IF plist = plist'
       THEN UNCHANGED rec
       ELSE Learn(c, [rec[c] EXCEPT !.plist = plist'])
    /\ Go(c, "start") /\ UNCHANGED loc
    /\ UNCHANGED <<record, dirs, config, identity, service, world>>

(* The LaunchAgent; a file found as wanted gets its digest all the same.   *)
WritePlist(c) ==
    /\ At(c, "plist")
    /\ plist' = Render(mine[c], mine[c])
    /\ Learn(c, [rec[c] EXCEPT !.plist = plist'])
    /\ Go(c, "start") /\ UNCHANGED loc
    /\ UNCHANGED <<record, dirs, config, identity, service, world>>

StartService(c) ==
    /\ At(c, "start")
    /\ EnsureRunning
    /\ Note(c, [loc[c] EXCEPT !.boot = (loaded = None)])
    /\ Go(c, "wait") /\ UNCHANGED rec
    /\ UNCHANGED <<files, world>>

(* waitController.  Only an unbound installation initialises a controller  *)
(* (garm-cli init), and otherwise it logs in if it has no profile.         *)
WaitController(c) ==
    /\ At(c, "wait")
    /\ IF db.id = 0
       THEN db' = [db EXCEPT !.id = inits + 1] /\ inits' = inits + 1
       ELSE UNCHANGED <<db, inits>>
    /\ Go(c, IF profile THEN "read" ELSE "login") /\ Keep
    /\ UNCHANGED <<files, loaded, served, respawned, inFlight, runners, count>>

Login(c) ==
    /\ At(c, "login")
    /\ profile' = TRUE
    /\ Go(c, "read") /\ Keep
    /\ UNCHANGED <<record, dirs, managed, secrets, host, registry, service,
                   world>>

(* readController and validateControllerCA.  The database of a running     *)
(* controller is not lost, so db.id stays what was read here.              *)
ReadController(c) ==
    /\ At(c, "read")
    /\ IF db.ca
       THEN Go(c, IF loc[c].host = 0 THEN "host" ELSE "registry")
            /\ UNCHANGED db
       ELSE Go(c, "read") /\ db' = [db EXCEPT !.ca = TRUE]
    /\ Keep
    /\ UNCHANGED <<files, loaded, served, respawned, inFlight, world>>

(* UpdateHost: host.toml is created.                                       *)
CreateHost(c) ==
    /\ At(c, "host")
    /\ host' = db.id
    /\ Go(c, "registry") /\ Keep
    /\ UNCHANGED <<record, dirs, managed, secrets, profile, registry, service,
                   world>>

(* state.Initialize: the complete layout appears with one rename.          *)
InitializeRegistry(c) ==
    /\ At(c, "registry")
    /\ registry' = TRUE
    /\ Go(c, "bind") /\ Keep
    /\ UNCHANGED <<record, dirs, managed, secrets, profile, host, service,
                   world>>

Save(c, r) == record' = r /\ Learn(c, r)

SaveBinding(c) ==
    /\ At(c, "bind")
    /\ Save(c, [rec[c] EXCEPT !.controller = db.id])
    /\ Go(c, "enable") /\ UNCHANGED loc
    /\ UNCHANGED <<dirs, managed, identity, service, world>>

(* The configuration with the provider.                                    *)
EnableProvider(c) ==
    /\ At(c, "enable")
    /\ config' = Render(mine[c], mine[c])
    /\ Learn(c, [rec[c] EXCEPT !.config = config'])
    /\ Note(c, [loc[c] EXCEPT !.late = (config # config')])
    /\ Go(c, "save")
    /\ UNCHANGED <<record, dirs, plist, identity, service, world>>

SaveFiles(c) ==
    /\ At(c, "save")
    /\ Save(c, rec[c])
    /\ Go(c, "restart") /\ UNCHANGED loc
    /\ UNCHANGED <<dirs, managed, identity, service, world>>

(* Bug: any change of the configuration asks for a restart.                *)
RestartForAnyChange(c) == loc[c].late \/ loc[c].early

(* A controller that was only just loaded has read the early change.       *)
NeedsRestart(c) == loc[c].late \/ (loc[c].early /\ ~loc[c].boot)

RestartService(c) ==
    /\ At(c, "restart")
    /\ IF loaded # None /\ NeedsRestart(c) THEN Kickstart ELSE EnsureRunning
    /\ Go(c, "provider") /\ Keep
    /\ UNCHANGED <<files, world>>

(* Bug: an answer is enough.                                               *)
EnsureAnswer(c) ==
    /\ At(c, "provider")
    /\ Go(c, "link") /\ Keep
    /\ UNCHANGED <<files, service, world>>

(* ensureProvider: only a controller that answers and does not name the    *)
(* provider is restarted, once.                                            *)
EnsureProvider(c) ==
    /\ At(c, "provider")
    /\ IF Registered
       THEN Go(c, "link") /\ UNCHANGED service
       ELSE Go(c, "recheck") /\ Kickstart
    /\ Keep
    /\ UNCHANGED <<files, world>>

CheckProvider(c) ==
    /\ At(c, "recheck")
    /\ Go(c, "link") /\ Keep
    /\ UNCHANGED <<files, service, world>>

EnsureLink(c) ==
    /\ At(c, "link")
    /\ link' = mine[c]
    /\ Go(c, "finish") /\ Keep
    /\ UNCHANGED <<record, releases, partial, managed, identity, service,
                   world>>

Finish(c) ==
    /\ At(c, "finish")
    /\ record' = [rec[c] EXCEPT !.prev = None]
    /\ End(c)
    /\ UNCHANGED <<dirs, managed, identity, service, world>>

-----------------------------------------------------------------------------
(* Uninstall.                                                              *)
Uninstall(c, v) ==
    /\ ~Running(c)
    /\ holder = None
    /\ record # NoRecord
    /\ holder' = c
    /\ pc' = [pc EXCEPT ![c] = "inspect"]
    /\ mine' = [mine EXCEPT ![c] = v]
    /\ Learn(c, record)
    /\ Counted("requests", MaxRequests)
    /\ UNCHANGED <<files, service, loc, runners, inits>>

Inspect(c) ==
    /\ At(c, "inspect")
    /\ Go(c, "halt") /\ Keep
    /\ UNCHANGED <<files, service, world>>

(* Bug: the LaunchAgent's file is left.                                    *)
LeavePlist(c) ==
    /\ At(c, "unplist")
    /\ Go(c, "unlink") /\ Keep
    /\ UNCHANGED <<files, service, world>>

RemovePlist(c) ==
    /\ At(c, "unplist")
    /\ plist' = NoFile
    /\ Go(c, "unlink") /\ Keep
    /\ UNCHANGED <<record, dirs, config, identity, service, world>>

RemoveLink(c) ==
    /\ At(c, "unlink")
    /\ link' = None
    /\ Go(c, IF mine[c] \in releases THEN "remove" ELSE "logout") /\ Keep
    /\ UNCHANGED <<record, releases, partial, managed, identity, service,
                   world>>

(* os.RemoveAll goes file by file.                                         *)
RemoveRelease(c) ==
    /\ \/ /\ At(c, "remove") /\ Go(c, "removing")
          /\ releases' = releases \ {mine[c]}
          /\ partial' = partial \cup {mine[c]}
       \/ /\ At(c, "removing") /\ Go(c, "logout")
          /\ partial' = partial \ {mine[c]}
          /\ UNCHANGED releases
    /\ Keep
    /\ UNCHANGED <<record, link, managed, identity, service, world>>

RemoveProfile(c) ==
    /\ At(c, "logout")
    /\ profile' = FALSE
    /\ End(c)
    /\ UNCHANGED <<record, dirs, managed, secrets, host, registry, service,
                   world>>

-----------------------------------------------------------------------------
(* A command fails or dies between two steps; the lock goes with it.       *)
Die(c) ==
    /\ Running(c)
    /\ End(c)
    /\ Counted("faults", MaxFaults)
    /\ UNCHANGED <<files, service, runners, inits>>

(* garm-cli profile login or delete, which takes no lock and never         *)
(* initialises.                                                            *)
GarmCLI(v) ==
    /\ host # 0 /\ record.version = v /\ record.controller = host
    /\ v \in releases
    /\ \/ Answers /\ db.id = host /\ profile' = TRUE /\ UNCHANGED count
       \/ profile' = FALSE /\ Counted("requests", MaxRequests)
    /\ UNCHANGED <<record, dirs, managed, secrets, host, registry, service,
                   cmdVars, runners, inits>>

(* launchd keeps the controller alive (KeepAlive).                         *)
Respawn ==
    /\ loaded # None
    /\ Starts(loaded)
    /\ respawned' = TRUE
    /\ inFlight' = FALSE
    /\ UNCHANGED <<files, loaded, cmdVars, world>>

(* The machine restarts; at login launchd loads the LaunchAgents it finds. *)
RestartMachine ==
    /\ holder' = None
    /\ pc' = [c \in Cmds |-> "idle"]
    /\ mine' = [c \in Cmds |-> None]
    /\ rec' = [c \in Cmds |-> NoRecord]
    /\ loc' = [c \in Cmds |-> NoLoc]
    /\ inFlight' = FALSE
    /\ respawned' = FALSE
    /\ IF plist = NoFile
       THEN loaded' = None /\ served' = NoFile /\ UNCHANGED db
       ELSE loaded' = plist[2] /\ Starts(plist[2])
    /\ Counted("restarts", MaxRestarts)
    /\ UNCHANGED <<files, runners, inits>>

(* Files disappear while neither a command nor the controller uses them.   *)
Lose ==
    /\ loaded = None /\ holder = None
    /\ \/ db' = NoDb /\ UNCHANGED <<secrets, profile, config, host>>
       \/ /\ secrets' = 0 /\ profile' = FALSE /\ config' = NoFile
          /\ UNCHANGED <<db, host>>
       \/ host' = 0 /\ UNCHANGED <<db, secrets, profile, config>>
    /\ Counted("losses", MaxLosses)
    /\ UNCHANGED <<record, dirs, plist, registry, loaded, served, respawned,
                   inFlight, cmdVars, runners, inits>>

(* The controller calls its provider, and what the provider does.          *)
CallProvider ==
    /\ Registered /\ served[2] \in releases /\ host # 0 /\ registry
    /\ inFlight' = TRUE
    /\ UNCHANGED <<files, loaded, served, respawned, db, cmdVars, world>>

Provider ==
    /\ inFlight
    /\ \/ runners < MaxRunners /\ runners' = runners + 1 /\ UNCHANGED inFlight
       \/ runners > 0 /\ runners' = runners - 1 /\ UNCHANGED inFlight
       \/ inFlight' = FALSE /\ UNCHANGED runners
    /\ UNCHANGED <<files, loaded, served, respawned, db, cmdVars, inits,
                   count>>

InstallStep(c) ==
    \/ Lock(c) \/ CheckVersionChange(c) \/ Stop(c) \/ ChangeVersion(c)
    \/ PlaceRelease(c) \/ EnsureSecrets(c) \/ Prepare(c) \/ WriteConfig(c)
    \/ WritePlist(c) \/ StartService(c) \/ WaitController(c) \/ Login(c)
    \/ ReadController(c) \/ CreateHost(c) \/ InitializeRegistry(c)
    \/ SaveBinding(c) \/ EnableProvider(c) \/ SaveFiles(c)
    \/ RestartService(c) \/ EnsureProvider(c) \/ CheckProvider(c)
    \/ EnsureLink(c) \/ Finish(c)

UninstallStep(c) ==
    \/ Inspect(c) \/ RemovePlist(c) \/ RemoveLink(c) \/ RemoveRelease(c)
    \/ RemoveProfile(c)

Step(c) == InstallStep(c) \/ UninstallStep(c) \/ Refuse(c)

Next ==
    \/ \E c \in Cmds :
          \/ Step(c) \/ Die(c)
          \/ \E v \in Versions : Install(c, v) \/ Uninstall(c, v)
    \/ \E v \in Versions : GarmCLI(v)
    \/ Respawn \/ RestartMachine \/ Lose \/ CallProvider \/ Provider

Spec == Init /\ [][Next]_vars

-----------------------------------------------------------------------------
Records == [version : Versions \cup {None}, prev : Versions \cup {None},
            controller : Nat, config : Contents, plist : Contents]

(* Every variable keeps its type.                                          *)
TypeOK ==
    /\ record \in Records
    /\ releases \subseteq Versions /\ partial \subseteq Versions
    /\ {link, loaded} \subseteq Versions \cup {None}
    /\ {config, plist, served} \subseteq Contents
    /\ {secrets, host, inits} \subseteq Nat
    /\ {profile, registry, respawned, inFlight} \subseteq BOOLEAN
    /\ db \in [key : Nat, id : Nat, ca : BOOLEAN]
    /\ runners \in 0 .. MaxRunners
    /\ holder \in Cmds \cup {None}
    /\ pc \in [Cmds -> InstallSteps \cup UninstallSteps \cup {"idle"}]
    /\ mine \in [Cmds -> Versions \cup {None}]
    /\ rec \in [Cmds -> Records]
    /\ loc \in [Cmds -> [host : Nat, early : BOOLEAN, boot : BOOLEAN,
                         late : BOOLEAN]]
    /\ count \in [{"faults", "restarts", "losses", "requests"} -> Nat]

(* An installation keeps its controller: host.toml, the record and the     *)
(* database name the same one, which has the installation's CA, and the    *)
(* secrets are those of the database, whatever files were lost (Install).  *)
IdentityKept ==
    /\ host # 0 /\ record.controller # 0 => host = record.controller
    /\ db.id # 0 => /\ host \in {0, db.id}
                    /\ record.controller \in {0, db.id}
                    /\ host # 0 \/ record.controller # 0 => db.ca
    /\ db.key # 0 => secrets \in {0, db.key}

(* Whatever can be started is a complete release: by the link, by launchd  *)
(* now or at the next login, or by the controller as its provider.         *)
(* Uninstall removes them in that order, and may die in between.           *)
NothingDangles ==
    /\ {link, loaded} \subseteq releases \cup {None}
    /\ plist # NoFile => plist[2] \in releases
    /\ Registered => served[2] \in releases

(* The version changes, and the backup is made, only while the controller  *)
(* is stopped and there is no runner record and no provider at work, also  *)
(* if records came after the first look or two commands run (Install).     *)
VersionChangeQuiet ==
    [][record'.version # record.version /\ record # NoRecord =>
          loaded = None /\ runners = 0 /\ ~inFlight]_vars

(* Installing again kills no provider at work, with its clone in flight,   *)
(* but one whose controller has not read the configuration, or was started *)
(* again under a job loaded before (startService, ensureProvider).         *)
KillsOnlyForChange ==
    [][inFlight /\ ~inFlight' /\ served = config =>
          \A c \in Cmds : RestartService(c) \/ EnsureProvider(c) => respawned]_vars

(* What the proofs add to these: whoever is past the lock holds it, and    *)
(* what the holder of the lock knows at its step.                          *)
OneHolder ==
    \A c \in Cmds : /\ holder = c <=> pc[c] \notin {"idle", "lock"}
                    /\ Running(c) => mine[c] \in Versions

ServiceInv ==
    /\ loaded = None => served = NoFile /\ ~inFlight
    /\ Answers => db.key # 0
    /\ plist # NoFile \/ loaded # None =>
           (HasProvider(config) => config[2] \in releases)
    /\ db.key = 0 => db.id = 0 /\ ~db.ca

Placed == InstallSteps \ {"lock", "check", "stop", "backup", "place"}
Listed == Placed \ {"secrets", "prepare", "config", "plist"}
Bound == Listed \ {"start", "wait", "login", "read"}
Told == {"config", "plist", "start", "wait", "login", "read", "host"}
Emptied == UninstallSteps \ {"inspect", "halt", "unplist"}

HolderInv(c) ==
    /\ rec[c].version = record.version
    /\ rec[c].controller = record.controller
    /\ pc[c] \in Placed => mine[c] \in releases
    /\ pc[c] \in Told => loc[c].host = host
    /\ pc[c] = "plist" /\ HasProvider(config) => config[2] = mine[c]
    /\ pc[c] \in Listed => plist = Render(mine[c], mine[c])
    /\ pc[c] \in Bound \cup {"login", "read"} => db.id # 0
    /\ pc[c] \in Bound =>
           db.ca /\ host \in {0, db.id} /\ record.controller \in {0, db.id}
    /\ pc[c] \in Emptied \cup {"backup", "unplist"} => loaded = None
    /\ pc[c] \in Emptied => plist = NoFile
    /\ pc[c] \in Emptied \ {"unlink"} => link = None

IInv ==
    /\ OneHolder /\ ServiceInv
    /\ holder # None => HolderInv(holder)
    /\ IdentityKept /\ NothingDangles

(* A finished installation: what a job needs to reach a runner.            *)
Complete(v) ==
    /\ link = v /\ v \in releases
    /\ record.controller # 0 /\ host = record.controller
    /\ db.id = host /\ db.ca /\ registry
    /\ Registered /\ config = Render(v, v) /\ plist = Render(v, v)

(* An install that ends well, fresh, resumed or after an upgrade, leaves a *)
(* controller that serves the provider and everything in place, whatever   *)
(* interrupted the commands before it (Install).                           *)
FinishedMeansServing ==
    [][\A c \in Cmds : Finish(c) => Complete(mine[c])]_vars

(* ... and files that every other release will take for ours, though it    *)
(* renders them differently: each has its digest on record (managedWrite). *)
FinishedIsUpgradable ==
    [][\A c \in Cmds, v \in Versions :
          Finish(c) => FilesAreOurs(v, record')]_vars

(* ... and the controller launchd runs is the installed release's: only a  *)
(* real content change, or a stopped service, restarts it (Install).       *)
ServesItsRelease == \A c \in Cmds : pc[c] = "finish" => loaded = mine[c]

LoadedIsRecorded == loaded \in {None, record.version}

(* That fails only for a login amid a version change: nothing else loads   *)
(* another release than the recorded one, and no version is recorded while *)
(* one is loaded (Install, startService).                                  *)
OnlyLoginLoadsOldRelease ==
    [][LoadedIsRecorded /\ ~LoadedIsRecorded' => RestartMachine]_vars

(* What a version change found acceptable before it stopped the controller *)
(* it may write afterwards, also when a later command goes on: a refusal   *)
(* does not leave the controller stopped (checkManagedFiles).              *)
ManagedWritesAccepted ==
    \A c \in Cmds :
        /\ pc[c] = "config" => MayWriteConfig(c)
        /\ pc[c] = "plist" => MayWritePlist(c)
        /\ pc[c] = "enable" => MayEnable(c)

(* The installer of the recorded release does not refuse its own link.     *)
ResumeAccepted == record # NoRecord => LinkIsOurs(record)

(* It only comes to refuse it when a change to a third release begins      *)
(* while the change before it has not reached the link.                    *)
OnlyThirdReleaseStrandsLink ==
    [][ResumeAccepted /\ ~ResumeAccepted' =>
          \E c \in Cmds : /\ ChangeVersion(c) /\ link = record.prev
                          /\ record.prev \notin {None, mine[c]}]_vars

(* Whoever is asked for finishes what was begun: commands run on, and the  *)
(* operator runs the installer of the recorded release again.              *)
Resume == \E c \in Cmds : record # NoRecord /\ Install(c, record.version)

FairSpec == Spec /\ WF_vars(Resume) /\ \A c \in Cmds : WF_vars(Step(c))

(* Every interruption is recovered from: once nobody asks for another      *)
(* release or an uninstall, the recorded release ends up installed and     *)
(* stays so, however often it is installed again (Install).  Only half a   *)
(* release directory, left by an uninstall, is refused for ever.           *)
InstallConverges ==
    <>[](\/ record = NoRecord
         \/ record.version \in partial
         \/ Complete(record.version) /\ record.prev = None)
=============================================================================
