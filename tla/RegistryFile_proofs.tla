------------------------- MODULE RegistryFile_proofs ------------------------
(***************************************************************************)
(* Theorems about RegistryFile.                                            *)
(***************************************************************************)
EXTENDS RegistryFile, TLAPS

Inv == TypeOK /\ IInv

-----------------------------------------------------------------------------
(* The operations, and what follows each.                                  *)
LEMMA TransactionsAre ==
    Transactions =
        {"reserve", "saveCreated", "adopt", "saveDeleting", "remove"}
BY DEF Transactions, NewPhase

LEMMA OpsAre ==
    Ops = {"reserve", "saveCreated", "adopt", "saveDeleting", "remove",
           "mark", "spawn", "clear", "destroy", "clearLast"}
BY TransactionsAre DEF Ops

LEMMA PhaseAfter ==
    /\ NewPhase["reserve"] = "reserved" /\ NewPhase["saveCreated"] = "created"
    /\ NewPhase["adopt"] = "created" /\ NewPhase["saveDeleting"] = "deleting"
    /\ NewPhase["remove"] = "none"
    /\ \A op \in Transactions : NewPhase[op] \in Phases
<1>1. /\ NewPhase["reserve"] = "reserved"
      /\ NewPhase["saveCreated"] = "created"
      /\ NewPhase["adopt"] = "created" /\ NewPhase["saveDeleting"] = "deleting"
      /\ NewPhase["remove"] = "none"
  BY DEF NewPhase
<1> QED BY <1>1, TransactionsAre DEF Phases

LEMMA OpAfter ==
    /\ NextOp["reserve"] = "mark" /\ NextOp["mark"] = "spawn"
    /\ NextOp["spawn"] = "saveCreated" /\ NextOp["saveCreated"] = "clear"
    /\ NextOp["adopt"] = "clear" /\ NextOp["clear"] = "return"
    /\ NextOp["saveDeleting"] = "destroy" /\ NextOp["destroy"] = "clearLast"
    /\ NextOp["clearLast"] = "remove" /\ NextOp["remove"] = "return"
BY DEF NextOp

LEMMA EmptyTyped == Empty \in [Runners -> Phases]
BY DEF Empty, Phases

-----------------------------------------------------------------------------
(* Which process is where: a call that goes on, and one that ends.         *)
Procedure == OneCall /\ OneTransaction /\ Stages

ProcTypes ==
    /\ pc \in [Procs -> Ops \cup {"idle"}]
    /\ at \in [Procs -> {"begin", "sync", "rename", "syncDir"}]
    /\ runner \in [Procs -> Runners \cup {NoRunner}]
    /\ copy \in [Procs -> [Runners -> Phases]]

LEMMA Entering ==
    ASSUME ProcTypes, Procedure, NEW p \in Procs, NEW op, NEW r,
           \/ op = "idle" /\ r = NoRunner
           \/ /\ op \in Ops /\ r \in Runners
              /\ \A q \in Procs \ {p} : runner[q] # r,
           Enter(p, op, r)
    PROVE  /\ ProcTypes' /\ Procedure'
           /\ pc'[p] = op /\ at'[p] = "begin" /\ runner'[p] = r
           /\ \A q \in Procs \ {p} :
                  /\ pc'[q] = pc[q] /\ at'[q] = at[q]
                  /\ runner'[q] = runner[q] /\ copy'[q] = copy[q]
<1>1. op \in Ops \cup {"idle"} /\ r \in Runners \cup {NoRunner}
      /\ (op = "idle" <=> r = NoRunner)
  BY OpsAre, FileAssumption
<1>2. ProcTypes'
  BY <1>1, EmptyTyped DEF ProcTypes, Enter
<1>3. /\ pc'[p] = op /\ at'[p] = "begin" /\ runner'[p] = r
      /\ \A q \in Procs \ {p} :
             /\ pc'[q] = pc[q] /\ at'[q] = at[q]
             /\ runner'[q] = runner[q] /\ copy'[q] = copy[q]
  BY DEF ProcTypes, Enter
<1>4. OneCall'
  BY <1>1, <1>3 DEF Procedure, OneCall, Running
<1>5. OneTransaction' /\ Stages'
  BY <1>3 DEF Procedure, OneTransaction, Stages, Writing
<1> QED BY <1>2, <1>3, <1>4, <1>5 DEF Procedure

LEMMA Returning ==
    ASSUME ProcTypes, Procedure, NEW p \in Procs, Return(p)
    PROVE  /\ ProcTypes' /\ Procedure' /\ pc'[p] = "idle"
           /\ \A q \in Procs \ {p} :
                  /\ pc'[q] = pc[q] /\ at'[q] = at[q]
                  /\ runner'[q] = runner[q] /\ copy'[q] = copy[q]
BY Entering DEF Return

LEMMA Succeeding ==
    ASSUME ProcTypes, Procedure, NEW p \in Procs, Running(p), Succeed(p)
    PROVE  /\ ProcTypes' /\ Procedure'
           /\ \/ pc'[p] = "idle"
              \/ /\ runner'[p] = runner[p] /\ at'[p] = "begin"
                 /\ <<pc[p], pc'[p]>> \in
                       {<<"reserve", "mark">>, <<"mark", "spawn">>,
                        <<"spawn", "saveCreated">>, <<"saveCreated", "clear">>,
                        <<"adopt", "clear">>, <<"saveDeleting", "destroy">>,
                        <<"destroy", "clearLast">>, <<"clearLast", "remove">>}
           /\ \A q \in Procs \ {p} :
                  /\ pc'[q] = pc[q] /\ at'[q] = at[q]
                  /\ runner'[q] = runner[q] /\ copy'[q] = copy[q]
<1>1. CASE Return(p)
  BY <1>1, Returning
<1>2. CASE ~Return(p)
  <2> DEFINE op == NextOp[pc[p]]
  <2>1. Enter(p, op, runner[p]) /\ op # "return"
    BY <1>2 DEF Succeed
  <2>2. <<pc[p], op>> \in
            {<<"reserve", "mark">>, <<"mark", "spawn">>,
             <<"spawn", "saveCreated">>, <<"saveCreated", "clear">>,
             <<"adopt", "clear">>, <<"saveDeleting", "destroy">>,
             <<"destroy", "clearLast">>, <<"clearLast", "remove">>}
    <3>1. pc[p] \in Ops
      BY DEF ProcTypes, Running
    <3> QED BY <2>1, <3>1, OpsAre, OpAfter
  <2>3. op \in Ops
    BY <2>2, OpsAre
  <2>4. runner[p] \in Runners /\ \A q \in Procs \ {p} : runner[q] # runner[p]
    BY DEF ProcTypes, Procedure, OneCall, Running
  <2> HIDE DEF op
  <2>5. /\ ProcTypes' /\ Procedure'
        /\ pc'[p] = op /\ at'[p] = "begin" /\ runner'[p] = runner[p]
        /\ \A q \in Procs \ {p} :
               /\ pc'[q] = pc[q] /\ at'[q] = at[q]
               /\ runner'[q] = runner[q] /\ copy'[q] = copy[q]
    BY <2>1, <2>3, <2>4, Entering
  <2> QED BY <2>2, <2>5
<1> QED BY <1>1, <1>2

(* A stage of the operation a process is at.                               *)
LEMMA Staging ==
    ASSUME ProcTypes, Procedure, NEW p \in Procs, Running(p),
           NEW s \in {"sync", "rename", "syncDir"},
           pc[p] \in Transactions => Writing(p) \/ GlobalLockFree(p),
           pc[p] \in Transactions \cup {"mark", "clear", "clearLast"},
           pc[p] \in {"clear", "clearLast"} => s = "syncDir",
           at' = [at EXCEPT ![p] = s], pc' = pc, runner' = runner,
           copy' \in [Procs -> [Runners -> Phases]]
    PROVE  ProcTypes' /\ Procedure' /\ at'[p] = s
           /\ \A q \in Procs \ {p} : at'[q] = at[q]
<1>1. at'[p] = s /\ \A q \in Procs \ {p} : at'[q] = at[q]
  BY DEF ProcTypes
<1>2. ProcTypes' /\ OneCall'
  BY <1>1 DEF ProcTypes, Procedure, OneCall, Running
<1>3. Stages'
  <2>1. \A q \in Procs : pc'[q] = pc[q]
    OBVIOUS
  <2> QED BY <1>1, <2>1 DEF Procedure, Stages, Writing
<1>4. OneTransaction'
  BY <1>1 DEF Procedure, OneTransaction, Writing, GlobalLockFree
<1> QED BY <1>1, <1>2, <1>3, <1>4 DEF Procedure

-----------------------------------------------------------------------------
(* Whoever does not take part in a step.                                   *)
Untouched(s) ==
    /\ records'[s] = records[s]
    /\ s \in intents' <=> s \in intents
    /\ s \in machine' <=> s \in machine
    /\ kept'.records[s] \in {kept.records[s], records[s]}
    /\ s \in kept.intents /\ s \in intents => s \in kept'.intents
    /\ s \in kept'.intents => s \in kept.intents \/ s \in intents

LEMMA Others ==
    ASSUME Inv, NEW p \in Procs,
           \A q \in Procs \ {p} : /\ pc'[q] = pc[q] /\ at'[q] = at[q]
                                  /\ runner'[q] = runner[q],
           \A s \in Runners : s # runner[p] => Untouched(s)
    PROVE  /\ \A q \in Procs \ {p} :
                  Running(q)' => Relies(q, runner[q])'
           /\ \A s \in Runners :
                  s # runner[p] /\ s \in machine' => KnownAnyway(s)'
<1>1. ASSUME NEW q \in Procs \ {p}, Running(q)'
      PROVE  Relies(q, runner[q])'
  <2> DEFINE s == runner[q]
  <2>1. Running(q)
    BY <1>1 DEF Running
  <2>2. s \in Runners /\ s # runner[p]
    BY <2>1 DEF Inv, IInv, OneCall, TypeOK
  <2>3. Relies(q, s) /\ Untouched(s)
    BY <2>1, <2>2 DEF Inv, IInv
  <2> QED BY <2>3 DEF Relies, Untouched
<1>2. ASSUME NEW s \in Runners, s # runner[p], s \in machine'
      PROVE  KnownAnyway(s)'
  <2>1. s \in machine /\ Untouched(s)
    BY <1>2 DEF Untouched
  <2> QED BY <2>1 DEF Inv, IInv, KnownAnyway, Untouched
<1> QED BY <1>1, <1>2

LEMMA Together ==
    ASSUME TypeOK', data' = "synced", NeverTorn', Procedure', Copied',
           NEW p \in Procs,
           \A q \in Procs \ {p} : Running(q)' => Relies(q, runner[q])',
           Running(p)' => Relies(p, runner[p])',
           \A s \in Runners : s \in machine' => KnownAnyway(s)'
    PROVE  Inv'
BY DEF Inv, IInv, Procedure, TypeOK

LEMMA InvParts ==
    ASSUME Inv
    PROVE  /\ ProcTypes /\ Procedure /\ data = "synced" /\ NeverTorn /\ Copied
           /\ \A p \in Procs : Running(p) <=> runner[p] # NoRunner
           /\ \A p \in Procs : Running(p) =>
                  /\ runner[p] \in Runners /\ Relies(p, runner[p])
           /\ \A r \in machine : r \in Runners /\ KnownAnyway(r)
BY DEF Inv, IInv, TypeOK, ProcTypes, Procedure, OneCall, Running

(* A process that ends its call changes nothing for the others.            *)
LEMMA Ends ==
    ASSUME Inv, NEW p \in Procs, Running(p), Return(p),
           UNCHANGED <<fileVars, kept>>,
           machine' \in {machine, machine \ {runner[p]}}
              \/ (machine' = machine \cup {runner[p]}
                  /\ KnownAnyway(runner[p])),
           faults' \in 0 .. MaxFaults
    PROVE  Inv'
<1> USE DEF fileVars
<1>1. /\ ProcTypes' /\ Procedure' /\ pc'[p] = "idle"
      /\ \A q \in Procs \ {p} :
             /\ pc'[q] = pc[q] /\ at'[q] = at[q]
             /\ runner'[q] = runner[q] /\ copy'[q] = copy[q]
  BY Returning, InvParts
<1>2. runner[p] \in Runners
  BY InvParts
<1>3. \A s \in Runners : s # runner[p] => Untouched(s)
  BY DEF Untouched
<1>4. /\ \A q \in Procs \ {p} : Running(q)' => Relies(q, runner[q])'
      /\ \A s \in Runners :
             s # runner[p] /\ s \in machine' => KnownAnyway(s)'
  BY <1>1, <1>3, Others
<1>5. runner[p] \in machine' => KnownAnyway(runner[p])
  BY InvParts
<1>6. \A s \in Runners : KnownAnyway(s) => KnownAnyway(s)'
  BY DEF KnownAnyway
<1>7. TypeOK'
  BY <1>1, <1>2 DEF Inv, TypeOK, ProcTypes
<1>8. Copied'
  BY <1>1, OpsAre, TransactionsAre DEF Inv, IInv, Copied
<1>9. ~Running(p)'
  BY <1>1 DEF Running
<1>10. \A s \in Runners : s \in machine' => KnownAnyway(s)'
  BY <1>2, <1>4, <1>5, <1>6
<1>11. data' = "synced" /\ NeverTorn'
  BY InvParts DEF NeverTorn
<1> QED BY <1>1, <1>4, <1>7, <1>8, <1>9, <1>10, <1>11, Together

(* A process that goes on with its call's next operation.                  *)
KeptTyped == [records : [Runners -> Phases], intents : SUBSET Runners,
              data : {"synced", "lost"}]

LEMMA GoesOn ==
    ASSUME Inv, NEW p \in Procs, Running(p), Succeed(p),
           NEW r \in Runners, r = runner[p],
           UNCHANGED fileVars, kept' \in KeptTyped, kept'.data = "synced",
           machine' \subseteq Runners, faults' = faults,
           \A s \in Runners : s # r => Untouched(s),
           r \in machine' => KnownAnyway(r)',
           \* what the next operation relies on:
           pc[p] = "reserve" => kept'.records[r] = "reserved"
                                /\ records[r] = "reserved",
           pc[p] = "mark" =>
               /\ r \in intents /\ r \in kept'.intents
               /\ kept'.records[r] = "reserved",
           pc[p] \in {"reserve", "mark"} => r \notin machine',
           pc[p] = "spawn" => r \in machine',
           pc[p] \in {"saveCreated", "adopt"} =>
               kept'.records[r] = "created"
               /\ records[r] = "created",
           pc[p] = "saveDeleting" => records[r] = "deleting",
           pc[p] \in {"destroy", "clearLast"} => r \notin machine',
           pc[p] = "clearLast" => r \notin intents /\ r \notin kept'.intents
    PROVE  Inv'
<1> USE DEF fileVars
<1>1. /\ ProcTypes' /\ Procedure'
      /\ \A q \in Procs \ {p} :
             /\ pc'[q] = pc[q] /\ at'[q] = at[q]
             /\ runner'[q] = runner[q] /\ copy'[q] = copy[q]
  BY Succeeding, InvParts
<1>2. \/ pc'[p] = "idle"
      \/ /\ runner'[p] = r /\ at'[p] = "begin"
         /\ <<pc[p], pc'[p]>> \in
               {<<"reserve", "mark">>, <<"mark", "spawn">>,
                <<"spawn", "saveCreated">>, <<"saveCreated", "clear">>,
                <<"adopt", "clear">>, <<"saveDeleting", "destroy">>,
                <<"destroy", "clearLast">>, <<"clearLast", "remove">>}
  BY Succeeding, InvParts
<1>3. Relies(p, r)
  BY InvParts
<1>4. /\ \A q \in Procs \ {p} : Running(q)' => Relies(q, runner[q])'
      /\ \A s \in Runners : s # r /\ s \in machine' => KnownAnyway(s)'
  BY <1>1, Others
<1>5. Running(p)' => Relies(p, runner[p])'
  BY <1>2, <1>3 DEF Relies, Running
<1>6. \A s \in Runners : s \in machine' => KnownAnyway(s)'
  <2> SUFFICES ASSUME NEW s \in Runners, s \in machine'
               PROVE  KnownAnyway(s)'
    OBVIOUS
  <2>1. CASE s = r
    BY <2>1
  <2> QED BY <1>4, <2>1
<1>7. Copied'
  <2>1. at'[p] = "begin" \/ pc'[p] = "idle"
    BY <1>2
  <2> QED BY <1>1, <2>1, TransactionsAre DEF Inv, IInv, Copied
<1>8. TypeOK'
  BY <1>1 DEF Inv, TypeOK, ProcTypes, KeptTyped
<1>9. data' = "synced" /\ NeverTorn'
  BY InvParts DEF NeverTorn
<1> QED BY <1>1, <1>4, <1>5, <1>6, <1>7, <1>8, <1>9, Together

(* A step within an operation.                                             *)
LEMMA Stays ==
    ASSUME Inv, NEW p \in Procs, Running(p),
           NEW st \in {"sync", "rename", "syncDir"},
           pc[p] \in Transactions => Writing(p) \/ GlobalLockFree(p),
           pc[p] \in Transactions \cup {"mark", "clear", "clearLast"},
           pc[p] \in {"clear", "clearLast"} => st = "syncDir",
           at' = [at EXCEPT ![p] = st], pc' = pc, runner' = runner,
           copy' \in [Procs -> [Runners -> Phases]],
           records' \in [Runners -> Phases], intents' \subseteq Runners,
           data' = "synced", UNCHANGED <<kept, machine, faults>>, Copied',
           \A s \in Runners : s # runner[p] => Untouched(s),
           runner[p] \in machine => KnownAnyway(runner[p])',
           Relies(p, runner[p])'
    PROVE  Inv'
<1>1. ProcTypes' /\ Procedure' /\ \A q \in Procs \ {p} : at'[q] = at[q]
  BY Staging, InvParts
<1>2. /\ \A q \in Procs \ {p} : Running(q)' => Relies(q, runner[q])'
      /\ \A s \in Runners :
             s # runner[p] /\ s \in machine' => KnownAnyway(s)'
  BY <1>1, Others
<1>3. \A s \in Runners : s \in machine' => KnownAnyway(s)'
  <2> SUFFICES ASSUME NEW s \in Runners, s \in machine'
               PROVE  KnownAnyway(s)'
    OBVIOUS
  <2>1. CASE s = runner[p]
    BY <2>1 DEF KnownAnyway
  <2> QED BY <1>2, <2>1
<1>4. TypeOK'
  BY <1>1 DEF Inv, TypeOK, ProcTypes
<1>5. NeverTorn'
  BY InvParts DEF NeverTorn
<1> QED BY <1>1, <1>2, <1>3, <1>4, <1>5, Together

-----------------------------------------------------------------------------
LEMMA Calls ==
    ASSUME Inv, NEW p \in Procs, NEW r \in Runners, NEW op \in Ops,
           Call(p, r, op)
    PROVE  Inv'
<1> USE DEF fileVars
<1>1. /\ ~Running(p) /\ \A q \in Procs : runner[q] # r
      /\ op \in FirstOps(r) /\ Enter(p, op, r)
      /\ UNCHANGED <<fileVars, kept, machine, faults>>
  BY DEF Call
<1>2. /\ ProcTypes' /\ Procedure'
      /\ pc'[p] = op /\ at'[p] = "begin" /\ runner'[p] = r
      /\ \A q \in Procs \ {p} :
             /\ pc'[q] = pc[q] /\ at'[q] = at[q]
             /\ runner'[q] = runner[q] /\ copy'[q] = copy[q]
  BY <1>1, Entering, InvParts
<1>3. \A s \in Runners : Untouched(s)
  BY <1>1 DEF Untouched
<1>4. /\ \A q \in Procs \ {p} : Running(q)' => Relies(q, runner[q])'
      /\ \A s \in Runners :
             s # runner[p] /\ s \in machine' => KnownAnyway(s)'
  BY <1>2, <1>3, Others
<1>5. \A s \in Runners : s \in machine' => KnownAnyway(s)'
  <2>1. runner[p] = NoRunner
    BY <1>1, InvParts
  <2> QED BY <1>4, <2>1, FileAssumption
<1>6. Relies(p, runner[p])'
  <2>1. records[r] = "none" => r \notin machine
    BY InvParts DEF KnownAnyway
  <2> QED BY <1>1, <1>2, <2>1 DEF Relies, FirstOps
<1>7. Copied'
  BY <1>1, <1>2 DEF Inv, IInv, Copied
<1>8. TypeOK'
  BY <1>1, <1>2 DEF Inv, TypeOK, ProcTypes
<1>9. data' = "synced" /\ NeverTorn'
  BY <1>1, InvParts DEF NeverTorn
<1> QED BY <1>2, <1>4, <1>5, <1>6, <1>7, <1>8, <1>9, Together

LEMMA Begins ==
    ASSUME Inv, NEW p \in Procs, Begin(p)
    PROVE  Inv'
<1> USE DEF fileVars
<1> DEFINE r == runner[p]
<1> DEFINE new == [records EXCEPT ![r] = NewPhase[pc[p]]]
<1>1. pc[p] \in Transactions /\ at[p] = "begin" /\ GlobalLockFree(p)
      /\ UNCHANGED <<fileVars, kept, machine, faults>>
  BY DEF Begin
<1>2. Running(p) /\ r \in Runners /\ Relies(p, r)
  BY <1>1, InvParts, TransactionsAre DEF Running
<1>3. records \in [Runners -> Phases] /\ NewPhase[pc[p]] \in Phases
  BY <1>1, PhaseAfter DEF Inv, TypeOK
<1>4. new \in [Runners -> Phases] /\ new[r] = NewPhase[pc[p]]
  BY <1>2, <1>3
<1>5. \A s \in Runners : Untouched(s)
  BY <1>1 DEF Untouched
<1>6. \A s \in Runners : s \in machine => KnownAnyway(s)'
  BY <1>1 DEF Inv, IInv, KnownAnyway
<1>7. CASE new = records
  <2>1. Succeed(p)
    BY <1>7 DEF Begin
  <2>2. pc[p] \notin {"reserve", "saveCreated", "adopt"}
    BY <1>1, <1>2, <1>4, <1>7, PhaseAfter DEF Relies
  <2>3. /\ pc[p] \notin {"mark", "spawn", "destroy", "clearLast"}
        /\ pc[p] = "saveDeleting" => records[r] = "deleting"
    BY <1>1, <1>4, <1>7, TransactionsAre, PhaseAfter
  <2>4. /\ kept' \in KeptTyped /\ kept'.data = "synced"
        /\ machine' \subseteq Runners
    BY <1>1, InvParts DEF Inv, TypeOK, KeptTyped, NeverTorn
  <2> QED BY <1>1, <1>2, <1>5, <1>6, <2>1, <2>2, <2>3, <2>4, GoesOn
<1>8. CASE new # records
  <2>1. /\ copy' = [copy EXCEPT ![p] = new]
        /\ at' = [at EXCEPT ![p] = "sync"] /\ pc' = pc /\ runner' = runner
    BY <1>8 DEF Begin
  <2>2. copy' \in [Procs -> [Runners -> Phases]] /\ copy'[p] = new
        /\ \A q \in Procs \ {p} : copy'[q] = copy[q] /\ at'[q] = at[q]
    BY <1>4, <2>1 DEF Inv, TypeOK
  <2>3. Copied'
    BY <1>1, <2>1, <2>2 DEF Inv, IInv, Copied
  <2>4. Relies(p, runner[p])'
    <3>1. at'[p] = "sync"
      BY <2>1 DEF Inv, TypeOK
    <3> QED BY <1>1, <1>2, <2>1, <3>1, TransactionsAre DEF Relies
  <2>5. KnownAnyway(runner[p])' <=> KnownAnyway(r)
    BY <1>1, <2>1 DEF KnownAnyway
  <2>6. runner[p] \in machine => KnownAnyway(runner[p])'
    BY <2>5, InvParts
  <2>7. pc[p] \notin {"clear", "clearLast"}
    BY <1>1, TransactionsAre
  <2>8. records' \in [Runners -> Phases] /\ intents' \subseteq Runners
        /\ data' = "synced"
    BY <1>1, InvParts DEF Inv, TypeOK
  <2> QED BY <1>1, <1>2, <1>5, <2>1, <2>2, <2>3, <2>4, <2>6, <2>7, <2>8,
             Stays
<1> QED BY <1>7, <1>8

LEMMA Syncs ==
    ASSUME Inv, NEW p \in Procs, BeginMark(p) \/ SyncFile(p)
    PROVE  Inv'
<1> USE DEF fileVars
<1>1. PICK st \in {"sync", "rename"} : Stage(p, st)
  BY DEF BeginMark, SyncFile
<1>2. /\ at[p] # "syncDir" /\ pc[p] \in Transactions \cup {"mark"}
      /\ pc[p] \in Transactions => Writing(p)
      /\ UNCHANGED <<fileVars, kept, machine, faults>>
  <2>1. CASE BeginMark(p)
    BY <2>1, TransactionsAre DEF BeginMark
  <2>2. CASE SyncFile(p)
    BY <2>2 DEF SyncFile, Writing, Inv, IInv, Stages
  <2> QED BY <2>1, <2>2
<1>3. Running(p) /\ runner[p] \in Runners /\ Relies(p, runner[p])
  BY <1>2, InvParts, TransactionsAre DEF Running
<1>4. /\ at' = [at EXCEPT ![p] = st] /\ pc' = pc /\ runner' = runner
      /\ copy' = copy
  BY <1>1 DEF Stage
<1>5. at'[p] = st /\ \A q \in Procs \ {p} : at'[q] = at[q]
  BY <1>4 DEF Inv, TypeOK
<1>6. Copied'
  <2>1. pc[p] \in Transactions => at[p] = "sync"
    BY <1>2, TransactionsAre DEF Inv, TypeOK, BeginMark, SyncFile
  <2> QED BY <1>2, <1>4, <1>5, <2>1 DEF Inv, IInv, Copied
<1>7. Relies(p, runner[p])'
  BY <1>2, <1>3, <1>4, <1>5 DEF Relies
<1>8. \A s \in Runners : Untouched(s)
  BY <1>2 DEF Untouched
<1>9. runner[p] \in machine => KnownAnyway(runner[p])'
  BY <1>2, <1>4, InvParts DEF KnownAnyway
<1>10. /\ copy' \in [Procs -> [Runners -> Phases]]
       /\ records' \in [Runners -> Phases] /\ intents' \subseteq Runners
       /\ data' = "synced"
  BY <1>2, <1>4, InvParts DEF Inv, TypeOK
<1>11. pc[p] \notin {"clear", "clearLast"}
  BY <1>2, TransactionsAre
<1> QED BY <1>2, <1>3, <1>4, <1>6, <1>7, <1>8, <1>9, <1>10, <1>11, Stays

(* What a transaction publishes is the records with its own change.        *)
LEMMA Published ==
    ASSUME Inv, NEW p \in Procs, pc[p] \in Transactions, at[p] = "rename",
           records' = copy[p]
    PROVE  /\ records' \in [Runners -> Phases] /\ runner[p] \in Runners
           /\ records'[runner[p]] = NewPhase[pc[p]]
           /\ \A s \in Runners : s # runner[p] => records'[s] = records[s]
<1>1. runner[p] \in Runners
  BY InvParts, TransactionsAre DEF Running
<1> QED BY <1>1 DEF Inv, IInv, Copied, TypeOK

LEMMA Renames ==
    ASSUME Inv, NEW p \in Procs, Rename(p)
    PROVE  Inv'
<1> USE DEF fileVars
<1> DEFINE r == runner[p]
<1>1. /\ at[p] = "rename" /\ Stage(p, "syncDir")
      /\ UNCHANGED <<kept, machine, faults>>
  BY DEF Rename
<1>2. pc[p] \in Transactions \cup {"mark"} /\ Writing(p)
  BY <1>1 DEF Writing, Inv, IInv, Stages
<1>3. Running(p) /\ r \in Runners /\ Relies(p, r)
  BY <1>2, InvParts, TransactionsAre DEF Running
<1>4. /\ at' = [at EXCEPT ![p] = "syncDir"] /\ pc' = pc /\ runner' = runner
      /\ copy' = copy
  BY <1>1 DEF Stage
<1>5. at'[p] = "syncDir" /\ \A q \in Procs \ {p} : at'[q] = at[q]
  BY <1>4 DEF Inv, TypeOK
<1>6. CASE pc[p] = "mark"
  <2>1. intents' = intents \cup {r} /\ UNCHANGED <<records, data>>
    BY <1>6 DEF Rename
  <2>2. Copied'
    BY <1>4, <1>5, <2>1 DEF Inv, IInv, Copied
  <2>3. Relies(p, runner[p])'
    BY <1>1, <1>3, <1>4, <1>5, <1>6, <2>1 DEF Relies
  <2>4. \A s \in Runners : s # r => Untouched(s)
    BY <1>1, <2>1 DEF Untouched
  <2>5. r \in machine => KnownAnyway(runner[p])'
    BY <1>1, <1>4, <2>1, InvParts DEF KnownAnyway
  <2>6. /\ copy' \in [Procs -> [Runners -> Phases]]
        /\ records' \in [Runners -> Phases] /\ intents' \subseteq Runners
        /\ data' = "synced"
    BY <1>3, <1>4, <2>1, InvParts DEF Inv, TypeOK
  <2> QED BY <1>1, <1>2, <1>3, <1>4, <1>6, <2>2, <2>3, <2>4, <2>5, <2>6, Stays
<1>7. CASE pc[p] \in Transactions
  <2>1. /\ records' = copy[p] /\ data' = "synced" /\ UNCHANGED intents
        /\ pc[p] \notin {"mark", "clear", "clearLast"}
    BY <1>7, TransactionsAre DEF Rename
  <2>2. /\ records' \in [Runners -> Phases]
        /\ records'[r] = NewPhase[pc[p]]
        /\ \A s \in Runners : s # r => records'[s] = records[s]
    BY <1>1, <1>7, <2>1, Published
  <2>3. Copied'
    <3>1. \A q \in Procs \ {p} : pc[q] \in Transactions => ~Writing(q)
      BY <1>2, <1>7 DEF Inv, IInv, OneTransaction
    <3> QED BY <1>4, <1>5, <3>1 DEF Copied, Writing
  <2>4. Relies(p, runner[p])'
    BY <1>1, <1>3, <1>4, <1>5, <1>7, <2>1, <2>2, TransactionsAre, PhaseAfter
       DEF Relies
  <2>5. \A s \in Runners : s # r => Untouched(s)
    BY <1>1, <2>1, <2>2 DEF Untouched
  <2>6. r \in machine => KnownAnyway(runner[p])'
    <3> SUFFICES ASSUME r \in machine  PROVE KnownAnyway(runner[p])'
      OBVIOUS
    <3>1. KnownAnyway(r)
      BY InvParts
    <3>2. pc[p] \notin {"reserve", "remove"}
      BY <1>1, <1>3, <3>1 DEF Relies, KnownAnyway
    <3>3. records'[r] \in {"created", "deleting"}
      BY <1>7, <2>2, <3>2, TransactionsAre, PhaseAfter
    <3> QED BY <1>1, <1>4, <2>1, <3>1, <3>3 DEF KnownAnyway, Phases
  <2>7. copy' \in [Procs -> [Runners -> Phases]] /\ intents' \subseteq Runners
    BY <1>4, <2>1 DEF Inv, TypeOK
  <2> QED BY <1>1, <1>2, <1>3, <1>4, <1>7, <2>1, <2>2, <2>3, <2>4, <2>5,
             <2>6, <2>7, Stays
<1> QED BY <1>2, <1>6, <1>7

LEMMA Unlinks ==
    ASSUME Inv, NEW p \in Procs, Unlink(p)
    PROVE  Inv'
<1> USE DEF fileVars
<1> DEFINE r == runner[p]
<1>1. /\ pc[p] \in {"clear", "clearLast"} /\ at[p] = "begin"
      /\ intents' = intents \ {r} /\ Stage(p, "syncDir")
      /\ UNCHANGED <<records, data, kept, machine, faults>>
  BY DEF Unlink
<1>2. pc[p] \notin Transactions /\ Running(p)
  BY <1>1, TransactionsAre DEF Running
<1>3. r \in Runners /\ Relies(p, r)
  BY <1>2, InvParts
<1>4. /\ at' = [at EXCEPT ![p] = "syncDir"] /\ pc' = pc /\ runner' = runner
      /\ copy' = copy
  BY <1>1 DEF Stage
<1>5. at'[p] = "syncDir" /\ \A q \in Procs \ {p} : at'[q] = at[q]
  BY <1>4 DEF Inv, TypeOK
<1>6. Copied'
  BY <1>1, <1>2, <1>4, <1>5 DEF Inv, IInv, Copied
<1>7. Relies(p, runner[p])'
  BY <1>1, <1>3, <1>4, <1>5 DEF Relies
<1>8. \A s \in Runners : s # r => Untouched(s)
  BY <1>1 DEF Untouched
<1>9. r \in machine => KnownAnyway(runner[p])'
  BY <1>1, <1>3, <1>4 DEF Relies, KnownAnyway, Phases
<1>10. /\ copy' \in [Procs -> [Runners -> Phases]]
       /\ records' \in [Runners -> Phases] /\ intents' \subseteq Runners
       /\ data' = "synced"
  BY <1>1, <1>4, InvParts DEF Inv, TypeOK
<1> QED BY <1>1, <1>2, <1>4, <1>6, <1>7, <1>8, <1>9, <1>10, Stays

(* What a process or the system makes durable.                             *)
LEMMA Keeping ==
    ASSUME Inv, UNCHANGED fileVars, KeepIntents \/ KeepRecords
    PROVE  /\ kept' \in KeptTyped /\ kept'.data = "synced"
           /\ \A s \in Runners :
                  /\ kept'.records[s] \in {kept.records[s], records[s]}
                  /\ s \in kept.intents /\ s \in intents
                         => s \in kept'.intents
                  /\ s \in kept'.intents
                         => s \in kept.intents \/ s \in intents
           /\ KeepIntents => kept'.records = kept.records
                             /\ kept'.intents = intents
           /\ KeepRecords => kept'.records = records
                             /\ kept'.intents = kept.intents
<1>1. /\ kept \in KeptTyped /\ records \in [Runners -> Phases]
      /\ intents \subseteq Runners /\ data = "synced"
      /\ kept.data = "synced"
  BY DEF Inv, IInv, TypeOK, KeptTyped, NeverTorn
<1> QED BY <1>1 DEF KeepIntents, KeepRecords, Kept, KeptTyped

LEMMA KeptKnown ==
    ASSUME Inv, UNCHANGED fileVars, KeepIntents \/ KeepRecords,
           NEW s \in machine
    PROVE  KnownAnyway(s)'
<1>1. KnownAnyway(s) /\ s \in Runners
  BY InvParts
<1> QED BY <1>1, Keeping DEF KnownAnyway, fileVars

LEMMA SyncsDir ==
    ASSUME Inv, NEW p \in Procs, SyncDir(p)
    PROVE  Inv'
<1>1. /\ at[p] = "syncDir" /\ Succeed(p)
      /\ UNCHANGED <<fileVars, machine, faults>>
      /\ (KeepIntents \/ KeepRecords)
      /\ pc[p] \in Transactions => KeepRecords
      /\ pc[p] \notin Transactions => KeepIntents
  BY DEF SyncDir
<1>2. pc[p] \in Transactions \cup {"mark", "clear", "clearLast"}
  BY <1>1 DEF Writing, Inv, IInv, Stages
<1>3. PICK r \in Runners : r = runner[p] /\ Running(p) /\ Relies(p, r)
  BY <1>2, InvParts, TransactionsAre DEF Running
<1>4. \A s \in Runners : Untouched(s)
  BY <1>1, Keeping DEF Untouched, fileVars
<1>5. r \in machine' => KnownAnyway(r)'
  BY <1>1, KeptKnown
<1>6. pc[p] = "reserve" => kept'.records[r] = "reserved"
                           /\ records[r] = "reserved"
  BY <1>1, <1>3, Keeping, TransactionsAre DEF Relies
<1>7. pc[p] = "mark" => /\ r \in intents /\ r \in kept'.intents
                        /\ kept'.records[r] = "reserved"
  BY <1>1, <1>3, Keeping, TransactionsAre DEF Relies
<1>8. pc[p] \in {"saveCreated", "adopt"} => kept'.records[r] = "created"
                                            /\ records[r] = "created"
  BY <1>1, <1>3, Keeping, TransactionsAre DEF Relies
<1>9. pc[p] \in {"destroy", "clearLast"} => r \notin machine'
  BY <1>1, <1>2, <1>3, TransactionsAre DEF Relies
<1>10. /\ pc[p] # "spawn"
       /\ pc[p] \in {"reserve", "mark"} => r \notin machine'
       /\ pc[p] = "saveDeleting" => records[r] = "deleting"
  BY <1>1, <1>2, <1>3, TransactionsAre DEF Relies
<1>12. pc[p] = "clearLast" => r \notin intents /\ r \notin kept'.intents
  BY <1>1, <1>3, Keeping, TransactionsAre DEF Relies
<1>11. /\ kept' \in KeptTyped /\ kept'.data = "synced"
       /\ machine' \subseteq Runners
  BY <1>1, Keeping DEF Inv, TypeOK
<1> QED BY <1>1, <1>3, <1>4, <1>5, <1>6, <1>7, <1>8, <1>9, <1>10, <1>11,
           <1>12, GoesOn

LEMMA FaultTyped ==
    ASSUME Inv, Fault
    PROVE  faults' \in 0 .. MaxFaults
<1>1. MaxFaults \in Nat /\ faults \in 0 .. MaxFaults
  BY FileAssumption DEF Inv, TypeOK
<1> QED BY <1>1 DEF Fault

LEMMA Dies ==
    ASSUME Inv, NEW p \in Procs, WriteFails(p) \/ Kill(p)
    PROVE  Inv'
<1>1. /\ Running(p) /\ Return(p) /\ Fault
      /\ UNCHANGED <<fileVars, kept, machine>>
  <2>1. CASE WriteFails(p)
    <3>1. pc[p] # "idle"
      BY <2>1, TransactionsAre DEF WriteFails, Inv, IInv, Stages
    <3> QED BY <2>1, <3>1 DEF WriteFails, Running
  <2>2. CASE Kill(p)
    BY <2>2 DEF Kill
  <2> QED BY <2>1, <2>2
<1> QED BY <1>1, FaultTyped, Ends

LEMMA Spawns ==
    ASSUME Inv, NEW p \in Procs, Spawn(p)
    PROVE  Inv'
<1> USE DEF fileVars
<1>1. pc[p] = "spawn" /\ UNCHANGED <<fileVars, kept>>
  BY DEF Spawn
<1>2. PICK r \in Runners : r = runner[p] /\ Running(p) /\ Relies(p, r)
  BY <1>1, InvParts DEF Running
<1>3. KnownAnyway(r)
  BY <1>1, <1>2 DEF Relies, KnownAnyway, Phases
<1>4. CASE /\ machine' = machine \cup {r} /\ Succeed(p)
           /\ UNCHANGED faults
  <2>1. \A s \in Runners : s # r => Untouched(s)
    BY <1>1, <1>4 DEF Untouched
  <2>2. KnownAnyway(r)'
    BY <1>1, <1>3 DEF KnownAnyway
  <2>3. /\ kept' \in KeptTyped /\ kept'.data = "synced"
        /\ machine' \subseteq Runners
    BY <1>1, <1>4, InvParts DEF Inv, TypeOK, KeptTyped, NeverTorn
  <2> QED BY <1>1, <1>2, <1>4, <2>1, <2>2, <2>3, GoesOn
<1>5. CASE /\ machine' \in {machine, machine \cup {r}}
           /\ Return(p) /\ Fault
  BY <1>1, <1>2, <1>3, <1>5, FaultTyped, Ends
<1> QED BY <1>2, <1>4, <1>5 DEF Spawn

LEMMA Destroys ==
    ASSUME Inv, NEW p \in Procs, Destroy(p)
    PROVE  Inv'
<1> USE DEF fileVars
<1>1. pc[p] = "destroy" /\ UNCHANGED <<fileVars, kept>>
  BY DEF Destroy
<1>2. PICK r \in Runners : r = runner[p] /\ Running(p) /\ Relies(p, r)
  BY <1>1, InvParts DEF Running
<1>3. CASE /\ machine' = machine \ {r} /\ Succeed(p)
           /\ UNCHANGED faults
  <2>1. \A s \in Runners : s # r => Untouched(s)
    BY <1>1, <1>3 DEF Untouched
  <2>2. /\ kept' \in KeptTyped /\ kept'.data = "synced"
        /\ machine' \subseteq Runners /\ r \notin machine'
    BY <1>1, <1>3, InvParts DEF Inv, TypeOK, KeptTyped, NeverTorn
  <2> QED BY <1>1, <1>2, <1>3, <2>1, <2>2, GoesOn
<1>4. CASE /\ machine' \in {machine, machine \ {r}}
           /\ Return(p) /\ Fault
  BY <1>1, <1>2, <1>4, FaultTyped, Ends
<1> QED BY <1>2, <1>3, <1>4 DEF Destroy

LEMMA WritesBack ==
    ASSUME Inv, WriteBack
    PROVE  Inv'
<1> USE DEF fileVars, procVars
<1>1. /\ KeepIntents \/ KeepRecords
      /\ UNCHANGED <<fileVars, machine, procVars, faults>>
  BY DEF WriteBack
<1>2. \A s \in machine' : KnownAnyway(s)'
  BY <1>1, KeptKnown
<1>3. \A q \in Procs : Running(q)' => Relies(q, runner[q])'
  <2> SUFFICES ASSUME NEW q \in Procs, Running(q)
               PROVE  Relies(q, runner[q])'
    BY <1>1 DEF Running
  <2>1. Relies(q, runner[q]) /\ runner[q] \in Runners
    BY InvParts
  <2> QED BY <1>1, <2>1, Keeping DEF Relies
<1>4. TypeOK' /\ data' = "synced" /\ NeverTorn'
  BY <1>1, Keeping, InvParts DEF Inv, TypeOK, KeptTyped, NeverTorn
<1>5. OneCall' /\ OneTransaction' /\ Stages' /\ Copied'
  BY <1>1 DEF Inv, IInv, OneCall, OneTransaction, Stages, Copied, Running,
     Writing
<1> QED BY <1>2, <1>3, <1>4, <1>5 DEF Inv, IInv

LEMMA PowerIsCut ==
    ASSUME Inv, PowerFails
    PROVE  Inv'
<1>1. \A p \in Procs : /\ pc'[p] = "idle" /\ at'[p] = "begin"
                       /\ runner'[p] = NoRunner
  BY DEF PowerFails
<1>2. TypeOK'
  <2>1. kept \in KeptTyped
    BY DEF Inv, TypeOK, KeptTyped
  <2> QED BY <2>1, FaultTyped, EmptyTyped
          DEF PowerFails, Inv, TypeOK, KeptTyped
<1>3. data' = "synced" /\ NeverTorn'
  BY InvParts DEF PowerFails, NeverTorn
<1>4. OneCall' /\ OneTransaction' /\ Stages' /\ Copied'
  BY <1>1, TransactionsAre
     DEF OneCall, OneTransaction, Stages, Copied, Running, Writing
<1>5. \A r \in machine' : KnownAnyway(r)'
  <2> SUFFICES ASSUME NEW r \in machine  PROVE KnownAnyway(r)'
    BY DEF PowerFails
  <2>1. KnownAnyway(r)
    BY InvParts
  <2> QED BY <2>1 DEF PowerFails, KnownAnyway
<1> QED BY <1>1, <1>2, <1>3, <1>4, <1>5 DEF Inv, IInv, Running

-----------------------------------------------------------------------------
LEMMA Initially == Init => Inv
<1> SUFFICES ASSUME Init  PROVE Inv
  OBVIOUS
<1> USE DEF Init
<1>1. TypeOK
  <2>1. 0 \in 0 .. MaxFaults
    BY FileAssumption
  <2>2. kept \in KeptTyped
    BY EmptyTyped DEF Kept, KeptTyped
  <2> QED BY <2>1, <2>2, EmptyTyped DEF TypeOK, KeptTyped
<1>2. data = "synced" /\ NeverTorn
  BY DEF NeverTorn, Kept
<1>3. \A p \in Procs : pc[p] = "idle" /\ at[p] = "begin"
                       /\ runner[p] = NoRunner
  OBVIOUS
<1> QED BY <1>1, <1>2, <1>3, TransactionsAre
        DEF Inv, IInv, OneCall, OneTransaction, Stages, Copied, Running,
            Writing

LEMMA NextKeeps ==
    ASSUME Inv, [Next]_vars
    PROVE  Inv'
<1>1. ASSUME NEW p \in Procs, FileStep(p)  PROVE Inv'
  BY <1>1, Begins, Syncs, Renames, Unlinks, SyncsDir, Dies DEF FileStep
<1>2. ASSUME NEW p \in Procs, Spawn(p) \/ Destroy(p) \/ Kill(p)  PROVE Inv'
  BY <1>2, Spawns, Destroys, Dies
<1>3. ASSUME NEW p \in Procs, NEW r \in Runners, NEW op \in Ops,
             Call(p, r, op)
      PROVE  Inv'
  BY <1>3, Calls
<1>4. WriteBack \/ PowerFails => Inv'
  BY WritesBack, PowerIsCut
<1>5. CASE UNCHANGED vars
  <2> USE <1>5 DEF vars, fileVars, procVars
  <2>1. TypeOK' /\ data' = "synced" /\ NeverTorn'
    BY DEF Inv, IInv, TypeOK, NeverTorn
  <2>2. OneCall' /\ OneTransaction' /\ Stages' /\ Copied'
    BY DEF Inv, IInv, OneCall, OneTransaction, Stages, Copied, Running,
           Writing
  <2>3. \A p \in Procs : Running(p)' => Relies(p, runner[p])'
    BY DEF Inv, IInv, Running, Relies
  <2>4. \A r \in machine' : KnownAnyway(r)'
    BY DEF Inv, IInv, KnownAnyway
  <2> QED BY <2>1, <2>2, <2>3, <2>4 DEF Inv, IInv
<1> QED BY <1>1, <1>2, <1>3, <1>4, <1>5 DEF Next

LEMMA Always == Spec => []Inv
BY Initially, NextKeeps, PTL DEF Spec

(* Every variable keeps its type.                                          *)
THEOREM RegistryTyping == Spec => []TypeOK
<1>1. Inv => TypeOK
  BY DEF Inv
<1> QED BY Always, <1>1, PTL

(* The inductive invariant: a runner has one call at a time and the        *)
(* records one writer, and a machine is known from what is seen, from what *)
(* is kept and from every mixture of the two.                              *)
THEOREM RegistryInvariance == Spec => []IInv
<1>1. Inv => IInv
  BY DEF Inv
<1> QED BY Always, <1>1, PTL

(* records.json is never renamed into place before its contents are on the *)
(* disk, so no power failure tears it (writeAtomic).                       *)
THEOREM RecordsReadable == Spec => []NeverTorn
<1>1. Inv => NeverTorn
  BY DEF Inv, IInv
<1> QED BY Always, <1>1, PTL

(* A machine that was or may be made is known after any power failure, by  *)
(* its ID or by a reservation with its intent (MarkCloneIntent,            *)
(* ClearCloneIntent).                                                      *)
THEOREM MachinesKept == Spec => []MachinesSurvivePowerFailure
<1>1. Inv => MachinesSurvivePowerFailure
  BY DEF Inv, IInv, KnownAnyway, MachinesSurvivePowerFailure, Phases
<1> QED BY Always, <1>1, PTL

(* No transaction undoes another one: what it publishes is the records as  *)
(* they are, with its own runner's changed (transaction, global.lock).     *)
THEOREM NoLostUpdate == Spec => OneRecordAtATime
<1>1. Inv /\ [Next]_vars =>
        (\A r \in Runners : records'[r] # records[r] =>
            \/ \E p \in Procs : runner[p] = r /\ at[p] = "rename"
            \/ records' = kept.records)
  <2> SUFFICES ASSUME Inv, [Next]_vars, NEW r \in Runners,
                      records'[r] # records[r],
                      records' # kept.records
               PROVE  \E p \in Procs : runner[p] = r /\ at[p] = "rename"
    OBVIOUS
  <2>1. records' # records
    OBVIOUS
  <2>2. ~PowerFails /\ ~WriteBack /\ ~UNCHANGED vars
    BY <2>1 DEF PowerFails, WriteBack, vars, fileVars
  <2>3. ASSUME NEW p \in Procs,
               \/ Begin(p) \/ BeginMark(p) \/ SyncFile(p) \/ Unlink(p)
               \/ SyncDir(p) \/ WriteFails(p) \/ Spawn(p) \/ Destroy(p)
               \/ Kill(p) \/ \E s \in Runners, op \in Ops : Call(p, s, op)
        PROVE  FALSE
    BY <2>1, <2>3
       DEF Begin, BeginMark, SyncFile, Unlink, SyncDir, WriteFails, Spawn,
           Destroy, Kill, Call, fileVars
  <2>4. PICK p \in Procs : Rename(p)
    BY <2>2, <2>3 DEF Next, FileStep
  <2>5. at[p] = "rename" /\ pc[p] # "mark" /\ records' = copy[p]
    BY <2>1, <2>4 DEF Rename
  <2>6. pc[p] \in Transactions
    BY <2>5 DEF Inv, IInv, Stages, Writing
  <2>7. r = runner[p]
    BY <2>5, <2>6, Published
  <2> QED BY <2>5, <2>7
<1> QED BY Always, <1>1, PTL DEF Spec, OneRecordAtATime
-----------------------------------------------------------------------------
(* The contract of RunnerRegistry.                                         *)
LEMMA SamePhases == Registry!Phases = Phases
BY DEF Registry!Phases, Phases

LEMMA RegistrySleeps ==
    ASSUME UNCHANGED <<records, intents, kept, machine>>
    PROVE  [Registry!Next]_(Registry!vars)
BY DEF Registry!vars

(* Nothing settles while a write is under way ...                          *)
LEMMA NothingSettles ==
    ASSUME Inv, UNCHANGED kept
    PROVE  Registry!Settles
<1>1. kept.records \in [Runners -> Phases]
  BY DEF Inv, TypeOK
<1> QED BY <1>1, SamePhases DEF Registry!Settles

(* ... and all of one file when its directory is written back.             *)
LEMMA FileSettles ==
    ASSUME Inv, KeepIntents \/ KeepRecords,
           UNCHANGED <<fileVars, machine>>
    PROVE  [Registry!Next]_(Registry!vars)
<1>1. kept'.records \in [Runners -> Phases]
  BY Keeping DEF KeptTyped, fileVars
<1>2. Registry!Settles
  BY <1>1, SamePhases, Keeping, InvParts
     DEF Registry!Settles, fileVars
<1>3. Registry!Settle
  BY <1>2 DEF Registry!Settle, fileVars
<1> QED BY <1>3 DEF Registry!Next

LEMMA RegistryRenames ==
    ASSUME Inv, NEW p \in Procs, Rename(p)
    PROVE  [Registry!Next]_(Registry!vars)
<1>1. PICK r : r = runner[p]
  OBVIOUS
<1>2. at[p] = "rename" /\ UNCHANGED <<kept, machine>>
  BY DEF Rename
<1>3. pc[p] \in Transactions \cup {"mark"}
  BY <1>2 DEF Writing, Inv, IInv, Stages
<1>4. Relies(p, r) /\ r \in Runners
  BY <1>1, <1>3, InvParts, TransactionsAre DEF Running
<1>5. Registry!Settles
  BY <1>2, NothingSettles
<1>6. CASE pc[p] = "mark"
  <2>1. intents' = intents \cup {r} /\ UNCHANGED records
    BY <1>1, <1>6 DEF Rename
  <2>2. Registry!Mark(r)
    BY <1>2, <1>4, <1>5, <1>6, <2>1
       DEF Relies, Registry!Mark, Registry!Surely
  <2> QED BY <1>4, <2>2 DEF Registry!Next
<1>7. CASE pc[p] \in Transactions
  <2>1. records' = copy[p] /\ UNCHANGED intents
    BY <1>7, TransactionsAre DEF Rename
  <2>2. records' = [records EXCEPT ![r] = NewPhase[pc[p]]]
    BY <1>1, <1>2, <1>7, <2>1 DEF Inv, IInv, Copied
  <2>3. ASSUME NEW from, records[r] \in from
        PROVE  Registry!Moves(r, from, NewPhase[pc[p]])
    BY <1>2, <1>5, <2>1, <2>2, <2>3 DEF Registry!Moves
  <2>4. CASE pc[p] = "reserve"
    <3>1. Registry!Reserve(r)
      BY <1>2, <1>4, <2>3, <2>4, PhaseAfter DEF Relies, Registry!Reserve
    <3> QED BY <1>4, <3>1 DEF Registry!Next
  <2>5. CASE pc[p] \in {"saveCreated", "adopt"}
    <3>1. Registry!Create(r)
      BY <1>2, <1>4, <2>3, <2>5, PhaseAfter DEF Relies, Registry!Create
    <3> QED BY <1>4, <3>1 DEF Registry!Next
  <2>6. CASE pc[p] = "saveDeleting"
    <3>1. CASE records[r] = "created"
      <4>1. Registry!Delete(r)
        BY <2>3, <2>6, <3>1, PhaseAfter DEF Registry!Delete
      <4> QED BY <1>4, <4>1 DEF Registry!Next
    <3>2. CASE records[r] = "deleting"
      <4>1. records' = records
        BY <1>4, <2>2, <2>6, <3>2, PhaseAfter DEF Inv, TypeOK
      <4> QED BY <1>2, <2>1, <4>1, RegistrySleeps
    <3> QED BY <1>2, <1>4, <2>6, <3>1, <3>2 DEF Relies
  <2>7. CASE pc[p] = "remove"
    <3>1. /\ records[r] \in {"reserved", "deleting"}
          /\ r \notin machine \cup intents \cup kept.intents
      BY <1>2, <1>4, <2>7 DEF Relies
    <3>2. Registry!Forget(r)
      BY <2>3, <2>7, <3>1, PhaseAfter DEF Registry!Forget
    <3> QED BY <1>4, <3>2 DEF Registry!Next
  <2> QED BY <1>7, <2>4, <2>5, <2>6, <2>7, TransactionsAre
<1> QED BY <1>3, <1>6, <1>7

LEMMA RegistryUnlinks ==
    ASSUME Inv, NEW p \in Procs, Unlink(p)
    PROVE  [Registry!Next]_(Registry!vars)
<1>1. PICK r : r = runner[p]
  OBVIOUS
<1>2. /\ pc[p] \in {"clear", "clearLast"} /\ intents' = intents \ {r}
      /\ UNCHANGED <<records, kept, machine>>
  BY <1>1 DEF Unlink
<1>3. Relies(p, r) /\ r \in Runners
  BY <1>1, <1>2, InvParts DEF Running
<1>4. Registry!Settles
  BY <1>2, NothingSettles
<1>5. Registry!Unmark(r)
  BY <1>2, <1>3, <1>4 DEF Relies, Registry!Unmark, Registry!Surely
<1> QED BY <1>3, <1>5 DEF Registry!Next

LEMMA RegistryMachines ==
    ASSUME Inv, NEW p \in Procs, Spawn(p) \/ Destroy(p)
    PROVE  [Registry!Next]_(Registry!vars)
<1>1. PICK r : r = runner[p]
  OBVIOUS
<1>2. UNCHANGED <<records, intents, kept>> /\ pc[p] \in {"spawn", "destroy"}
  BY DEF Spawn, Destroy, fileVars
<1>3. Relies(p, r) /\ r \in Runners
  BY <1>1, <1>2, InvParts DEF Running
<1>4. CASE machine' = machine
  BY <1>2, <1>4, RegistrySleeps
<1>5. CASE pc[p] = "spawn" /\ machine' = machine \cup {r}
  <2>1. Registry!Make(r)
    BY <1>2, <1>3, <1>5 DEF Relies, Registry!Make, Registry!Surely
  <2> QED BY <1>3, <2>1 DEF Registry!Next
<1>6. CASE machine' = machine \ {r} /\ machine' # machine
  <2>1. Registry!Vanish(r)
    BY <1>2, <1>6 DEF Registry!Vanish
  <2> QED BY <1>3, <2>1 DEF Registry!Next
<1> QED BY <1>1, <1>4, <1>5, <1>6 DEF Spawn, Destroy

LEMMA RegistryPower ==
    ASSUME PowerFails
    PROVE  [Registry!Next]_(Registry!vars)
BY DEF PowerFails, Registry!Next, Registry!PowerFails

LEMMA RegistryStep ==
    ASSUME Inv, [Next]_vars
    PROVE  [Registry!Next]_(Registry!vars)
<1>1. ASSUME NEW p \in Procs,
             \/ Begin(p) \/ BeginMark(p) \/ SyncFile(p) \/ WriteFails(p)
             \/ Kill(p) \/ \E r \in Runners, op \in Ops : Call(p, r, op)
      PROVE  [Registry!Next]_(Registry!vars)
  <2>1. UNCHANGED <<records, intents, kept, machine>>
    BY <1>1 DEF Begin, BeginMark, SyncFile, WriteFails, Kill, Call, fileVars
  <2> QED BY <2>1, RegistrySleeps
<1>2. ASSUME NEW p \in Procs, SyncDir(p)
      PROVE  [Registry!Next]_(Registry!vars)
  BY <1>2, FileSettles DEF SyncDir
<1>3. ASSUME WriteBack
      PROVE  [Registry!Next]_(Registry!vars)
  BY <1>3, FileSettles DEF WriteBack
<1>4. CASE UNCHANGED vars
  BY <1>4, RegistrySleeps DEF vars, fileVars
<1> QED BY <1>1, <1>2, <1>3, <1>4, RegistryRenames, RegistryUnlinks,
           RegistryMachines, RegistryPower DEF Next, FileStep

(* The files keep the registry's contract through half-done writes, dead   *)
(* processes and power failures: nothing another runner's call wrote is    *)
(* undone, a machine is made only under a durable reservation and intent,  *)
(* and a record goes only when its machine and both its intents are gone   *)
(* (registry.go, transaction, writeAtomic, MarkCloneIntent,                *)
(* ClearCloneIntent, Remove).                                              *)
THEOREM FilesImplementRegistry == Spec => RegistrySpec
<1>1. Init => Registry!Init
  BY DEF Init, Registry!Init, Kept, Empty
<1>2. Inv /\ [Next]_vars => [Registry!Next]_(Registry!vars)
  BY RegistryStep
<1> QED BY <1>1, <1>2, Always, PTL DEF Spec, RegistrySpec, Registry!Spec
=============================================================================
