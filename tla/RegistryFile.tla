---------------------------- MODULE RegistryFile ----------------------------
(***************************************************************************)
(* The runner registry as files (internal/state/registry.go): what         *)
(* processes see, and what is left of it when the power fails.             *)
(*                                                                         *)
(* RunnerLifecycle takes a registry operation for one step.  Here it is    *)
(* the steps of writeAtomic: a temporary file is written and synced, it is *)
(* renamed over the old file, and the directory is synced.  A rename is    *)
(* seen by everyone at once and survives a power failure only from the     *)
(* directory's sync on, or if the system happened to write it back before. *)
(* The calls are those of provider.go, each under its instance lock.       *)
(***************************************************************************)
EXTENDS Naturals

CONSTANTS
    Runners,    \* runner names
    Procs,      \* processes that may run at the same time
    MaxFaults,  \* bound on failed writes, dead processes and power failures
    NoRunner

ASSUME FileAssumption == NoRunner \notin Runners /\ MaxFaults \in Nat

VARIABLES
    records,    \* records.json as processes read it: the phase of each runner
    intents,    \* clone-intents/ as processes see it
    data,       \* are the contents of records.json on the disk?
    kept,       \* what a power failure leaves: records, intents, data
    machine,    \* runners whose clone exists, or may still appear
    pc,         \* the operation each process is at
    at,         \* and how far it is in it
    runner,     \* the runner it works for
    copy,       \* the records it is about to publish
    faults

fileVars == <<records, intents, data>>
procVars == <<pc, at, runner, copy>>
vars == <<fileVars, kept, machine, procVars, faults>>

Phases == {"none", "reserved", "created", "deleting"}

Kept(r, i, d) == [records |-> r, intents |-> i, data |-> d]

Empty == [r \in Runners |-> "none"]

(* The phase an operation gives the runner's record.                       *)
NewPhase == [reserve |-> "reserved", saveCreated |-> "created",
             adopt |-> "created", saveDeleting |-> "deleting",
             remove |-> "none"]

Transactions == DOMAIN NewPhase
Ops == Transactions \cup {"mark", "spawn", "clear", "destroy", "clearLast"}

(* What a call does next when an operation succeeded.                      *)
NextOp == [reserve |-> "mark", mark |-> "spawn", spawn |-> "saveCreated",
           saveCreated |-> "clear", adopt |-> "clear", clear |-> "return",
           saveDeleting |-> "destroy", destroy |-> "clearLast",
           clearLast |-> "remove", remove |-> "return"]

Running(p) == pc[p] # "idle"

Init ==
    /\ records = Empty
    /\ intents = {}
    /\ data = "synced"
    /\ kept = Kept(Empty, {}, "synced")
    /\ machine = {}
    /\ pc = [p \in Procs |-> "idle"]
    /\ at = [p \in Procs |-> "begin"]
    /\ runner = [p \in Procs |-> NoRunner]
    /\ copy = [p \in Procs |-> Empty]
    /\ faults = 0

-----------------------------------------------------------------------------
Stage(p, s) == /\ at' = [at EXCEPT ![p] = s]
               /\ UNCHANGED <<pc, runner, copy>>

Enter(p, op, r) == /\ pc' = [pc EXCEPT ![p] = op]
                   /\ at' = [at EXCEPT ![p] = "begin"]
                   /\ runner' = [runner EXCEPT ![p] = r]
                   /\ copy' = [copy EXCEPT ![p] = Empty]

Return(p) == Enter(p, "idle", NoRunner)

Succeed(p) == IF NextOp[pc[p]] = "return"
              THEN Return(p) ELSE Enter(p, NextOp[pc[p]], runner[p])

Fault == faults < MaxFaults /\ faults' = faults + 1

(* A call takes its runner's instance lock, finds the record and starts    *)
(* with what its phase calls for: CREATE, DELETE, and the operator's adopt *)
(* and release.                                                            *)
FirstOps(r) ==
    {op \in Ops :
        \/ op = "reserve" /\ records[r] = "none"
        \/ op = "adopt" /\ records[r] = "reserved" /\ r \in machine
        \/ op = "clearLast" /\ records[r] = "reserved" /\ r \notin machine
        \/ op = "saveDeleting" /\ records[r] \in {"created", "deleting"}}

Call(p, r, op) ==
    /\ ~Running(p)
    /\ \A q \in Procs : runner[q] # r
    /\ op \in FirstOps(r)
    /\ Enter(p, op, r)
    /\ UNCHANGED <<fileVars, kept, machine, faults>>

-----------------------------------------------------------------------------
(* transaction                                                             *)

Writing(p) == at[p] # "begin"

(* Bug: a transaction only holds global.lock while it writes its file.     *)
RenameIsLocked(p) ==
    \A q \in Procs : ~(pc[q] \in Transactions /\ at[q] = "rename")

(* global.lock, held until the directory is synced.                        *)
GlobalLockFree(p) == \A q \in Procs : ~(pc[q] \in Transactions /\ Writing(q))

(* The records are read, and a change that changes nothing is answered     *)
(* without a write.                                                        *)
Begin(p) ==
    /\ pc[p] \in Transactions
    /\ at[p] = "begin"
    /\ GlobalLockFree(p)
    /\ LET new == [records EXCEPT ![runner[p]] = NewPhase[pc[p]]] IN
       IF new = records
       THEN Succeed(p)
       ELSE /\ copy' = [copy EXCEPT ![p] = new]
            /\ at' = [at EXCEPT ![p] = "sync"]
            /\ UNCHANGED <<pc, runner>>
    /\ UNCHANGED <<fileVars, kept, machine, faults>>

BeginMark(p) ==
    /\ pc[p] = "mark"
    /\ at[p] = "begin"
    /\ Stage(p, "sync")
    /\ UNCHANGED <<fileVars, kept, machine, faults>>

(* The temporary file's contents reach the disk.                           *)
SyncFile(p) ==
    /\ at[p] = "sync"
    /\ Stage(p, "rename")
    /\ UNCHANGED <<fileVars, kept, machine, faults>>

(* Bug: the temporary file is renamed without having been synced.          *)
RenameUnsynced(p) ==
    /\ at[p] = "rename"
    /\ IF pc[p] = "mark"
       THEN intents' = intents \cup {runner[p]} /\ UNCHANGED <<records, data>>
       ELSE records' = copy[p] /\ data' = "lost" /\ UNCHANGED intents
    /\ Stage(p, "syncDir")
    /\ UNCHANGED <<kept, machine, faults>>

(* The intent is a file of its own, an empty fact.                         *)
Rename(p) ==
    /\ at[p] = "rename"
    /\ IF pc[p] = "mark"
       THEN intents' = intents \cup {runner[p]} /\ UNCHANGED <<records, data>>
       ELSE records' = copy[p] /\ data' = "synced" /\ UNCHANGED intents
    /\ Stage(p, "syncDir")
    /\ UNCHANGED <<kept, machine, faults>>

(* ClearCloneIntent: no file is no error, and the directory is synced also *)
(* then.                                                                   *)
Unlink(p) ==
    /\ pc[p] \in {"clear", "clearLast"}
    /\ at[p] = "begin"
    /\ intents' = intents \ {runner[p]}
    /\ Stage(p, "syncDir")
    /\ UNCHANGED <<records, data, kept, machine, faults>>

KeepIntents == kept' = Kept(kept.records, intents, kept.data)
KeepRecords == kept' = Kept(records, kept.intents, data)

(* Bug: the directory is not synced.                                       *)
SkipSyncDir(p) ==
    /\ at[p] = "syncDir"
    /\ Succeed(p)
    /\ UNCHANGED <<fileVars, kept, machine, faults>>

(* Only now the change is there to stay and the operation a success.       *)
SyncDir(p) ==
    /\ at[p] = "syncDir"
    /\ IF pc[p] \in Transactions THEN KeepRecords ELSE KeepIntents
    /\ Succeed(p)
    /\ UNCHANGED <<fileVars, machine, faults>>

(* Any step of a write may fail; the call ends with what is done.          *)
WriteFails(p) ==
    /\ Writing(p)
    /\ Return(p)
    /\ Fault
    /\ UNCHANGED <<fileVars, kept, machine>>

-----------------------------------------------------------------------------
(* The clone, which may have been made although orbctl reported a failure. *)
Spawn(p) ==
    /\ pc[p] = "spawn"
    /\ \/ machine' = machine \cup {runner[p]} /\ Succeed(p) /\ UNCHANGED faults
       \/ /\ machine' \in {machine, machine \cup {runner[p]}}
          /\ Return(p)
          /\ Fault
    /\ UNCHANGED <<fileVars, kept>>

(* The machine is deleted and its absence confirmed.                       *)
Destroy(p) ==
    /\ pc[p] = "destroy"
    /\ \/ machine' = machine \ {runner[p]} /\ Succeed(p) /\ UNCHANGED faults
       \/ machine' \in {machine, machine \ {runner[p]}} /\ Return(p) /\ Fault
    /\ UNCHANGED <<fileVars, kept>>

-----------------------------------------------------------------------------
Kill(p) ==
    /\ Running(p)
    /\ Return(p)
    /\ Fault
    /\ UNCHANGED <<fileVars, kept, machine>>

(* The system writes a directory back when it likes.                       *)
WriteBack ==
    /\ KeepIntents \/ KeepRecords
    /\ UNCHANGED <<fileVars, machine, procVars, faults>>

PowerFails ==
    /\ records' = kept.records
    /\ intents' = kept.intents
    /\ data' = kept.data
    /\ pc' = [p \in Procs |-> "idle"]
    /\ at' = [p \in Procs |-> "begin"]
    /\ runner' = [p \in Procs |-> NoRunner]
    /\ copy' = [p \in Procs |-> Empty]
    /\ Fault
    /\ UNCHANGED <<kept, machine>>

FileStep(p) ==
    \/ Begin(p) \/ BeginMark(p) \/ SyncFile(p) \/ Rename(p) \/ Unlink(p)
    \/ SyncDir(p) \/ WriteFails(p)

Next ==
    \/ \E p \in Procs :
          \/ FileStep(p) \/ Spawn(p) \/ Destroy(p) \/ Kill(p)
          \/ \E r \in Runners, op \in Ops : Call(p, r, op)
    \/ WriteBack
    \/ PowerFails

Spec == Init /\ [][Next]_vars

-----------------------------------------------------------------------------
(* Every variable keeps its type.                                          *)
TypeOK ==
    /\ records \in [Runners -> Phases]
    /\ intents \subseteq Runners
    /\ data \in {"synced", "lost"}
    /\ kept \in [records : [Runners -> Phases], intents : SUBSET Runners,
                 data : {"synced", "lost"}]
    /\ machine \subseteq Runners
    /\ pc \in [Procs -> Ops \cup {"idle"}]
    /\ at \in [Procs -> {"begin", "sync", "rename", "syncDir"}]
    /\ runner \in [Procs -> Runners \cup {NoRunner}]
    /\ copy \in [Procs -> [Runners -> Phases]]
    /\ faults \in 0 .. MaxFaults

(* A power failure never leaves a records.json with contents that were not *)
(* written: the next process could not read it, and every command of every *)
(* runner would fail (registry.go, writeAtomic).                           *)
NeverTorn == kept.data = "synced"

(* Whenever the power fails, a machine that was or may be made is known:   *)
(* by its ID, or by a reservation with an intent.  So the intent is        *)
(* durable before orbctl starts and until the ID is (registry.go,          *)
(* MarkCloneIntent), also after writes that failed half-way and calls that *)
(* found nothing to change.                                                *)
MachinesSurvivePowerFailure ==
    \A r \in machine :
        \/ kept.records[r] \in {"created", "deleting"}
        \/ kept.records[r] = "reserved" /\ r \in kept.intents

(* A runner's record changes by the transaction of a call for that runner, *)
(* or back to what was kept: concurrent transactions lose no update.       *)
OneRecordAtATime ==
    [][\A r \in Runners : records'[r] # records[r] =>
          \/ \E p \in Procs : runner[p] = r /\ at[p] = "rename"
          \/ records' = kept.records]_vars

Registry == INSTANCE RunnerRegistry
                WITH phase <- records, marked <- intents,
                     keptPhase <- kept.records, keptMarked <- kept.intents,
                     made <- machine

(* The files implement the registry that RunnerLifecycle takes for a       *)
(* variable: through interleaved and half-done writes and power failures   *)
(* one runner's record moves at a time, in the order of its phases, a      *)
(* machine is made only under a durable reservation and intent, and a      *)
(* record goes only with both of its intents gone (registry.go,            *)
(* transaction, MarkCloneIntent, ClearCloneIntent, Remove).                *)
RegistrySpec == Registry!Spec

-----------------------------------------------------------------------------
(* The inductive invariant.  A runner has one call at a time, a writing    *)
(* transaction is alone, and what it will publish is the records as they   *)
(* are with its own change.                                                *)
OneCall ==
    \A p \in Procs :
        /\ Running(p) <=> runner[p] # NoRunner
        /\ \A q \in Procs : Running(p) /\ runner[p] = runner[q] => p = q

OneTransaction ==
    \A p, q \in Procs :
        /\ pc[p] \in Transactions /\ Writing(p)
        /\ pc[q] \in Transactions /\ Writing(q)
        => p = q

Stages ==
    \A p \in Procs :
        /\ Writing(p) => pc[p] \in Transactions \cup {"mark", "clear",
                                                    "clearLast"}
        /\ pc[p] \in {"clear", "clearLast"} => at[p] \in {"begin", "syncDir"}

Copied ==
    \A p \in Procs : pc[p] \in Transactions /\ at[p] \in {"sync", "rename"} =>
        copy[p] = [records EXCEPT ![runner[p]] = NewPhase[pc[p]]]

(* What a call relies on at its operation, for its runner.                 *)
Relies(p, r) ==
    /\ pc[p] \in {"reserve", "mark", "spawn"} => r \notin machine
    /\ pc[p] = "reserve" =>
           records[r] = IF at[p] = "syncDir" THEN "reserved" ELSE "none"
    /\ pc[p] \in {"mark", "spawn"} =>
           records[r] = "reserved" /\ kept.records[r] = "reserved"
    /\ pc[p] = "mark" /\ at[p] = "syncDir" => r \in intents
    /\ pc[p] = "spawn" => r \in intents /\ r \in kept.intents
    /\ pc[p] \in {"saveCreated", "adopt"} =>
           /\ r \in machine
           /\ records[r] = IF at[p] = "syncDir" THEN "created" ELSE "reserved"
    /\ pc[p] = "clear" =>
           records[r] = "created" /\ kept.records[r] = "created"
    /\ pc[p] = "saveDeleting" =>
           records[r] \in IF at[p] = "syncDir" THEN {"deleting"}
                          ELSE {"created", "deleting"}
    /\ pc[p] = "destroy" => records[r] = "deleting"
    /\ pc[p] \in {"clearLast", "remove"} =>
           /\ r \notin machine
           /\ records[r] \in IF pc[p] = "remove" /\ at[p] = "syncDir"
                             THEN {"none"} ELSE {"reserved", "deleting"}
    /\ pc[p] = "clearLast" /\ at[p] = "syncDir" => r \notin intents
    /\ pc[p] = "remove" => r \notin intents /\ r \notin kept.intents

(* A machine is known from what is seen and from what is kept, and from    *)
(* whatever part of what is seen is written back first.                    *)
KnownAnyway(r) ==
    /\ {records[r], kept.records[r]} \subseteq Phases \ {"none"}
    /\ "reserved" \in {records[r], kept.records[r]} =>
           r \in intents /\ r \in kept.intents

IInv ==
    /\ data = "synced" /\ NeverTorn
    /\ OneCall /\ OneTransaction /\ Stages /\ Copied
    /\ \A p \in Procs : Running(p) => Relies(p, runner[p])
    /\ \A r \in machine : KnownAnyway(r)
=============================================================================
