----------------------------- MODULE CloneSetup -----------------------------
(***************************************************************************)
(* A clone from its name to its first boot, as doctor's probe              *)
(* (internal/install/doctor.go) and a CREATE (internal/provider) make it,  *)
(* next to local actors who rename, start and delete machines.             *)
(*                                                                         *)
(* A clone is asked for by name and has to be identified afterwards; its   *)
(* settings are written by name too, everything else goes by ID.  Doctor   *)
(* keeps no record of its clone.  The records, intents and locks of a      *)
(* CREATE are in RunnerLifecycle, the commands a deletion is made of in    *)
(* OrbDelete.                                                              *)
(***************************************************************************)
EXTENDS Naturals, FiniteSets

CONSTANTS
    Doctors,    \* processes that run doctor
    Creates,    \* processes that run a CREATE
    Ids,        \* machine IDs, each given to at most one machine
    Known,      \* names people give to machines
    Drawn,      \* random names for clones
    Settings,   \* the settings of a machine, written one by one
    Disk,       \* the one that limits its disk
    MaxFaults,  \* bound on the failures of commands and processes
    MaxMoves,   \* bound on what actors do
    NoId,
    NoName

ASSUME SetupAssumption ==
    /\ Doctors \cap Creates = {}
    /\ NoId \notin Ids
    /\ Known \cap Drawn = {}
    /\ NoName \notin Known \cup Drawn
    /\ Disk \in Settings
    /\ {MaxFaults, MaxMoves} \subseteq Nat

Procs == Doctors \cup Creates

VARIABLES
    name,       \* the name of each machine, NoName if there is none
    origin,     \* the name each machine was created with
    running,    \* machines that have been started
    set,        \* the settings each machine has
    copying,    \* names of the clones that OrbStack is making
    pc,         \* where each process is
    own,        \* the name of its clone
    id,         \* the ID it found for it
    addr,       \* the name it writes settings to
    todo,       \* the settings it has still to write
    passed,     \* did the probe pass its test?
    answer,     \* what its last call returned
    faults,
    moves

machineVars == <<name, origin, running, set>>
procVars == <<pc, own, id, addr, todo, passed, answer>>
vars == <<machineVars, copying, procVars, faults, moves>>

Init ==
    /\ name = [i \in Ids |-> NoName]
    /\ origin = [i \in Ids |-> NoName]
    /\ running = {}
    /\ set = [i \in Ids |-> {}]
    /\ copying = {}
    /\ pc = [p \in Procs |-> "idle"]
    /\ own = [p \in Procs |-> NoName]
    /\ id = [p \in Procs |-> NoId]
    /\ addr = [p \in Procs |-> NoName]
    /\ todo = [p \in Procs |-> {}]
    /\ passed = [p \in Procs |-> FALSE]
    /\ answer = [p \in Procs |-> "none"]
    /\ faults = 0
    /\ moves = 0

Present(i) == i \in Ids /\ name[i] # NoName
Named(n) == {i \in Ids : name[i] = n}
Free(n) == Named(n) = {} /\ n \notin copying

Goto(p, step) == pc' = [pc EXCEPT ![p] = step] /\ UNCHANGED answer
Return(p, a) == /\ pc' = [pc EXCEPT ![p] = "idle"]
                /\ answer' = [answer EXCEPT ![p] = a]
Keep == UNCHANGED <<own, id, addr, todo, passed>>
Fault == faults < MaxFaults /\ faults' = faults + 1

-----------------------------------------------------------------------------
(* Bug: the name of the clone is one that others may use.                  *)
BeginKnown(p) ==
    /\ pc[p] = "idle"
    /\ \E n \in {k \in Known : Free(k)} :
          /\ own' = [own EXCEPT ![p] = n]
          /\ copying' = copying \cup {n}
    /\ id' = [id EXCEPT ![p] = NoId]
    /\ addr' = [addr EXCEPT ![p] = NoName]
    /\ todo' = [todo EXCEPT ![p] = Settings]
    /\ passed' = [passed EXCEPT ![p] = FALSE]
    /\ pc' = [pc EXCEPT ![p] = "cloning"]
    /\ answer' = [answer EXCEPT ![p] = "none"]
    /\ UNCHANGED <<machineVars, faults, moves>>

(* A random name, and orbctl clone.                                        *)
Begin(p) ==
    /\ pc[p] = "idle"
    /\ \E n \in {d \in Drawn : \A i \in Ids : origin[i] # d} :
          /\ Free(n) /\ \A q \in Procs : own[q] # n
          /\ own' = [own EXCEPT ![p] = n]
          /\ copying' = copying \cup {n}
    /\ id' = [id EXCEPT ![p] = NoId]
    /\ addr' = [addr EXCEPT ![p] = NoName]
    /\ todo' = [todo EXCEPT ![p] = Settings]
    /\ passed' = [passed EXCEPT ![p] = FALSE]
    /\ pc' = [pc EXCEPT ![p] = "cloning"]
    /\ answer' = [answer EXCEPT ![p] = "none"]
    /\ UNCHANGED <<machineVars, faults, moves>>

(* OrbStack ends a copy, also after orbctl is gone, or gives it up.        *)
CopyEnds(n) ==
    /\ n \in copying
    /\ copying' = copying \ {n}
    /\ \/ \E i \in {j \in Ids : origin[j] = NoName} :
             /\ name' = [name EXCEPT ![i] = n]
             /\ origin' = [origin EXCEPT ![i] = n]
       \/ UNCHANGED <<name, origin>>
    /\ UNCHANGED <<running, set, procVars, faults, moves>>

(* orbctl returns when the copy is done, or dies of the deadline before.   *)
CloneReturns(p) ==
    /\ pc[p] = "cloning"
    /\ \/ own[p] \notin copying /\ Goto(p, "info") /\ UNCHANGED faults
       \/ Return(p, "inspect") /\ Fault
    /\ Keep /\ UNCHANGED <<machineVars, copying, moves>>

Stopped(i) == i \notin running

(* Bug: the clean-up is deferred only after the checks.                    *)
InfoBeforeDefer(p) ==
    /\ pc[p] = "info"
    /\ \E i \in Named(own[p]) :
          /\ id' = [id EXCEPT ![p] = i]
          /\ addr' = [addr EXCEPT ![p] = own[p]]
          /\ IF p \in Creates THEN Goto(p, "observe")
             ELSE IF Stopped(i) THEN Goto(p, "settings")
             ELSE Return(p, "failed")
    /\ UNCHANGED <<own, todo, passed, machineVars, copying, faults, moves>>

(* The ID of the clone is the one its name has now.                        *)
Info(p) ==
    /\ pc[p] = "info"
    /\ \/ \E i \in Named(own[p]) :
             /\ id' = [id EXCEPT ![p] = i]
             /\ addr' = [addr EXCEPT ![p] = own[p]]
             /\ Goto(p, IF p \in Creates THEN "observe"
                        ELSE IF Stopped(i) THEN "settings" ELSE "delete")
             /\ UNCHANGED faults
       \/ /\ \/ Named(own[p]) = {} /\ UNCHANGED faults
             \/ Fault
          /\ Return(p, "inspect") /\ UNCHANGED <<id, addr>>
    /\ UNCHANGED <<own, todo, passed, machineVars, copying, moves>>

(* CREATE looks at the machine by its ID, and takes the name it has then.  *)
Observe(p) ==
    /\ pc[p] = "observe"
    /\ \/ /\ Present(id[p]) /\ Stopped(id[p])
          /\ addr' = [addr EXCEPT ![p] = name[id[p]]]
          /\ Goto(p, "settings") /\ UNCHANGED faults
       \/ /\ \/ ~(Present(id[p]) /\ Stopped(id[p])) /\ UNCHANGED faults
             \/ Fault
          /\ Goto(p, "delete") /\ UNCHANGED addr
    /\ UNCHANGED <<own, id, todo, passed, machineVars, copying, moves>>

(* Bug: a setting that cannot be written is passed over.                   *)
WriteSettingIfPossible(p) ==
    /\ pc[p] = "settings"
    /\ \E s \in todo[p] :
          /\ set' = [i \in Ids |-> IF name[i] = addr[p] THEN set[i] \cup {s}
                                                       ELSE set[i]]
          /\ todo' = [todo EXCEPT ![p] = @ \ {s}]
          /\ IF todo[p] = {s} THEN Goto(p, "start")
                              ELSE UNCHANGED <<pc, answer>>
    /\ UNCHANGED <<name, origin, running, copying, own, id, addr, passed,
                   faults, moves>>

(* orbctl config set machine.NAME...: whatever machine has the name.       *)
WriteSetting(p) ==
    /\ pc[p] = "settings"
    /\ \E s \in todo[p] :
       LET written == [i \in Ids |-> IF name[i] = addr[p] THEN set[i] \cup {s}
                                                         ELSE set[i]] IN
       \/ /\ Named(addr[p]) # {}
          /\ set' = written
          /\ todo' = [todo EXCEPT ![p] = @ \ {s}]
          /\ IF todo[p] = {s} THEN Goto(p, "start")
                              ELSE UNCHANGED <<pc, answer>>
          /\ UNCHANGED faults
       \/ /\ Named(addr[p]) = {}
          /\ Goto(p, "delete") /\ UNCHANGED <<set, todo, faults>>
       \/ set' \in {set, written} /\ Fault
          /\ Goto(p, "delete") /\ UNCHANGED todo
    /\ UNCHANGED <<name, origin, running, copying, own, id, addr, passed,
                   moves>>

Start(p) ==
    /\ pc[p] = "start"
    /\ \/ /\ Present(id[p])
          /\ running' = running \cup {id[p]}
          /\ Goto(p, "test") /\ UNCHANGED faults
       \/ /\ ~Present(id[p])
          /\ Goto(p, "delete") /\ UNCHANGED <<running, faults>>
       \/ /\ Fault
          /\ running' \in {running, running \cup ({id[p]} \cap Ids)}
          /\ Goto(p, "delete")
    /\ Keep /\ UNCHANGED <<name, origin, set, copying, moves>>

(* Doctor fetches the metadata URL from inside; CREATE injects its         *)
(* bootstrap and is done.                                                  *)
Test(p) ==
    /\ pc[p] = "test"
    /\ \/ /\ Present(id[p])
          /\ passed' = [passed EXCEPT ![p] = TRUE]
          /\ IF p \in Creates THEN Return(p, "ok") ELSE Goto(p, "delete")
          /\ UNCHANGED faults
       \/ /\ \/ ~Present(id[p]) /\ UNCHANGED faults
             \/ Fault
          /\ Goto(p, "delete") /\ UNCHANGED passed
    /\ UNCHANGED <<own, id, addr, todo, machineVars, copying, moves>>

(* The clean-up has a deadline of its own, and deletes by ID: the disk     *)
(* limit goes first, and stays away when the deletion fails.               *)
Delete(p) ==
    /\ pc[p] = "delete"
    /\ LET deleted == [name EXCEPT ![id[p]] = NoName]
           lifted  == [set EXCEPT ![id[p]] = @ \ {Disk}] IN
       \/ /\ ~Present(id[p])
          /\ Goto(p, "confirm") /\ UNCHANGED <<name, set, faults>>
       \/ /\ Present(id[p])
          /\ name' = deleted /\ set' = lifted
          /\ Goto(p, "confirm") /\ UNCHANGED faults
       \/ /\ name' \in {name, deleted} /\ set' \in {set, lifted}
          /\ Return(p, "inspect") /\ Fault
    /\ Keep /\ UNCHANGED <<origin, running, copying, moves>>

(* The inventory must not have the ID any more.                            *)
Confirm(p) ==
    /\ pc[p] = "confirm"
    /\ \/ /\ ~Present(id[p])
          /\ Return(p, IF passed[p] THEN "ok" ELSE "failed")
          /\ UNCHANGED faults
       \/ /\ \/ Present(id[p]) /\ UNCHANGED faults
             \/ Fault
          /\ Return(p, "inspect")
    /\ Keep /\ UNCHANGED <<machineVars, copying, moves>>

Kill(p) ==
    /\ pc[p] # "idle"
    /\ Return(p, "killed") /\ Fault
    /\ Keep /\ UNCHANGED <<machineVars, copying, moves>>

-----------------------------------------------------------------------------
(* Everyone else on this Mac.                                              *)
Move == /\ moves < MaxMoves /\ moves' = moves + 1
        /\ UNCHANGED <<copying, procVars, faults>>

ActorCreates(i, n) ==
    /\ origin[i] = NoName /\ Free(n)
    /\ name' = [name EXCEPT ![i] = n]
    /\ origin' = [origin EXCEPT ![i] = n]
    /\ Move /\ UNCHANGED <<running, set>>

ActorRenames(i, n) ==
    /\ Present(i) /\ Free(n)
    /\ name' = [name EXCEPT ![i] = n]
    /\ Move /\ UNCHANGED <<origin, running, set>>

ActorStarts(i) ==
    /\ Present(i) /\ Stopped(i)
    /\ running' = running \cup {i}
    /\ Move /\ UNCHANGED <<name, origin, set>>

ActorDeletes(i) ==
    /\ Present(i)
    /\ name' = [name EXCEPT ![i] = NoName]
    /\ Move /\ UNCHANGED <<origin, running, set>>

SetupStep(p) ==
    \/ CloneReturns(p) \/ Info(p) \/ Observe(p) \/ WriteSetting(p)
    \/ Start(p) \/ Test(p) \/ Delete(p) \/ Confirm(p)

Next ==
    \/ \E p \in Procs : Begin(p) \/ SetupStep(p) \/ Kill(p)
    \/ \E n \in copying : CopyEnds(n)
    \/ \E i \in Ids :
          \/ ActorStarts(i) \/ ActorDeletes(i)
          \/ \E n \in Known : ActorCreates(i, n) \/ ActorRenames(i, n)

Spec == Init /\ [][Next]_vars

-----------------------------------------------------------------------------
(* Every variable keeps its type.                                          *)
TypeOK ==
    /\ {name, origin} \subseteq [Ids -> Known \cup Drawn \cup {NoName}]
    /\ running \subseteq Ids
    /\ set \in [Ids -> SUBSET Settings]
    /\ copying \subseteq Drawn
    /\ pc \in [Procs -> {"idle", "cloning", "info", "observe", "settings",
                         "start", "test", "delete", "confirm"}]
    /\ {own, addr} \subseteq [Procs -> Known \cup Drawn \cup {NoName}]
    /\ id \in [Procs -> Ids \cup {NoId}]
    /\ todo \in [Procs -> SUBSET Settings]
    /\ passed \in [Procs -> BOOLEAN]
    /\ answer \in [Procs ->
                      {"none", "ok", "failed", "inspect", "killed"}]
    /\ faults \in 0 .. MaxFaults
    /\ moves \in 0 .. MaxMoves

(* Doctor leaves nothing behind that it does not say: when it reports the  *)
(* result of its test, passed or failed, its clone is gone and none is     *)
(* still to come; otherwise it asks for an inspection (probeClone).        *)
ProbeLeavesNothing ==
    \A d \in Doctors : answer[d] \in {"ok", "failed"} =>
        /\ own[d] \notin copying
        /\ \A i \in Ids : origin[i] = own[d] => ~Present(i)

(* Who identified its clone by name has its clone: it never starts or      *)
(* deletes another machine, whatever actors rename (probeClone, clone).    *)
OnlyItsClone ==
    \A p \in Procs : id[p] # NoId => origin[id[p]] = own[p]

HasItsLimits(p) == pc[p] = "test" => set[id[p]] = Settings

(* A probe is only booted with all of its limits (probeClone).             *)
ProbeIsLimited == \A d \in Doctors : HasItsLimits(d)

(* Doctor only changes the settings of its own clone, also with a write    *)
(* that it takes for failed (probeClone, ApplySettings).                   *)
SettingsStayInside ==
    [][\A d \in Doctors, i \in Ids :
          pc[d] = "settings" /\ (todo'[d] # todo[d] \/ pc'[d] = "delete")
              /\ set'[i] # set[i]
          => i = id[d]]_vars

(* A runner is only booted with all of its limits (CreateInstance).        *)
RunnerIsLimited == \A c \in Creates : HasItsLimits(c)

-----------------------------------------------------------------------------
(* The inductive invariant.  A drawn name belongs to one process, to at    *)
(* most one machine ever, and never to a machine that was not made for it. *)
Owned ==
    \A p \in Procs :
        /\ own[p] \in Drawn \cup {NoName}
        /\ pc[p] # "idle" => own[p] # NoName
        /\ \A q \in Procs : own[p] # NoName /\ own[p] = own[q] => p = q

MadeOnce ==
    /\ \A i \in Ids : name[i] \in Drawn => origin[i] = name[i]
    /\ \A i, j \in Ids :
           origin[i] \in Drawn /\ origin[i] = origin[j] => i = j
    /\ \A i \in Ids : origin[i] \notin copying

Identified ==
    \A p \in Procs :
        /\ pc[p] \in {"observe", "settings", "start", "test", "delete",
                       "confirm"} => id[p] # NoId
        /\ id[p] # NoId => own[p] # NoName
        /\ pc[p] \in {"cloning", "info"} => todo[p] = Settings

(* A doctor writes to its clone's own name all the time, and what is not   *)
(* left to write is set.                                                   *)
DoctorWrites ==
    \A d \in Doctors :
        /\ pc[d] # "observe"
        /\ pc[d] = "settings" => /\ addr[d] = own[d]
                                 /\ Settings \ todo[d] \subseteq set[id[d]]
        /\ pc[d] \in {"start", "test"} => set[id[d]] = Settings

IInv ==
    /\ Owned /\ MadeOnce /\ Identified /\ DoctorWrites
    /\ OnlyItsClone /\ ProbeLeavesNothing
=============================================================================
