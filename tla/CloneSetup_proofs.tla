-------------------------- MODULE CloneSetup_proofs -------------------------
(***************************************************************************)
(* Theorems about CloneSetup.                                              *)
(***************************************************************************)
EXTENDS CloneSetup, TLAPS

Inv == TypeOK /\ IInv

-----------------------------------------------------------------------------
(* The invariant, process by process.                                      *)
Fit(p) ==
    /\ pc[p] \in {"observe", "settings", "start", "test", "delete",
                  "confirm"} => id[p] # NoId
    /\ pc[p] \in {"cloning", "info"} => todo[p] = Settings
    /\ id[p] # NoId => own[p] # NoName /\ origin[id[p]] = own[p]
    /\ p \in Doctors =>
          /\ pc[p] # "observe"
          /\ pc[p] = "settings" => /\ addr[p] = own[p]
                                   /\ Settings \ todo[p] \subseteq set[id[p]]
          /\ pc[p] \in {"start", "test"} => set[id[p]] = Settings
          /\ answer[p] \in {"ok", "failed"} =>
                /\ own[p] \notin copying
                /\ \A i \in Ids : origin[i] = own[p] => name[i] = NoName

LEMMA Parts == Inv <=> /\ TypeOK /\ Owned /\ MadeOnce
                       /\ \A p \in Procs : Fit(p)
<1>1. (\A p \in Procs : Fit(p)) <=>
      Identified /\ DoctorWrites /\ OnlyItsClone /\ ProbeLeavesNothing
  BY DEF Fit, Identified, DoctorWrites, OnlyItsClone, ProbeLeavesNothing,
         Present, Procs
<1> QED BY <1>1 DEF Inv, IInv

LEMMA PartsAfter ==
    ASSUME TypeOK', Owned', MadeOnce', \A p \in Procs : Fit(p)'
    PROVE  Inv'
<1>1. Identified' /\ DoctorWrites' /\ OnlyItsClone' /\ ProbeLeavesNothing'
  BY DEF Fit, Identified, DoctorWrites, OnlyItsClone, ProbeLeavesNothing,
         Present, Procs
<1> QED BY <1>1 DEF Inv, IInv

LEMMA Names ==
    /\ NoName \notin Drawn /\ NoName \notin Known /\ NoId \notin Ids
    /\ Known \cap Drawn = {} /\ Doctors \cap Creates = {}
    /\ MaxFaults \in Nat /\ MaxMoves \in Nat
BY SetupAssumption

(* What a step may do without a process taking notice.                     *)
Unnoticed(q) ==
    /\ pc'[q] = pc[q] /\ id'[q] = id[q] /\ own'[q] = own[q]
    /\ addr'[q] = addr[q] /\ todo'[q] = todo[q] /\ answer'[q] = answer[q]

Mild(q) ==
    /\ own[q] \in copying' => own[q] \in copying
    /\ \A i \in Ids :
          /\ origin[i] # NoName => origin'[i] = origin[i]
          /\ i = id[q] => set[i] \subseteq set'[i]
          /\ name[i] = NoName /\ name'[i] # NoName =>
                 origin'[i] # own[q] \/ own[q] \in copying
          /\ origin'[i] = origin[i] \/ origin'[i] # own[q]
                 \/ own[q] \in copying

LEMMA StaysFit ==
    ASSUME Inv, TypeOK', NEW q \in Procs, Unnoticed(q), Mild(q)
    PROVE  Fit(q)'
<1>1. Fit(q) /\ TypeOK
  BY Parts
<1>2. id[q] # NoId => /\ id[q] \in Ids /\ own[q] # NoName
                      /\ origin'[id[q]] = own[q]
                      /\ set[id[q]] \subseteq set'[id[q]]
                      /\ set'[id[q]] \subseteq Settings
  BY <1>1 DEF Fit, TypeOK, Mild
<1>3. q \in Doctors /\ answer[q] \in {"ok", "failed"} =>
          /\ own[q] \notin copying'
          /\ \A i \in Ids : origin'[i] = own[q] => name'[i] = NoName
  BY <1>1 DEF Fit, Mild
<1>4. q \in Doctors =>
          /\ pc[q] = "settings" => Settings \ todo[q] \subseteq set'[id[q]]
          /\ pc[q] \in {"start", "test"} => set'[id[q]] = Settings
  BY <1>1, <1>2 DEF Fit
<1> QED BY <1>1, <1>2, <1>3, <1>4 DEF Fit, Unnoticed

-----------------------------------------------------------------------------
(* The steps of a process: no machine is made or renamed, no copy begun,   *)
(* and only its own clone loses a setting.                                 *)
Within(p) ==
    /\ UNCHANGED <<origin, copying, own>>
    /\ \A i \in Ids : /\ name'[i] \in {name[i], NoName}
                      /\ set[i] \subseteq set'[i] \/ i = id[p]
    /\ \A q \in Procs \ {p} : Unnoticed(q)
    /\ pc[p] # "idle"

LEMMA WithinKeeps ==
    ASSUME Inv, TypeOK', NEW p \in Procs, Within(p), Fit(p)'
    PROVE  Inv'
<1>1. ASSUME NEW q \in Procs \ {p} PROVE Mild(q)
  <2>1. id[q] # NoId => id[q] # id[p]
    BY Parts DEF Fit, Owned
  <2> QED BY <2>1, Names DEF Within, Mild
<1>2. \A q \in Procs \ {p} : Fit(q)'
  BY <1>1, StaysFit DEF Within
<1>3. Owned'
  BY DEF Inv, IInv, Owned, Within, Unnoticed
<1>4. MadeOnce'
  BY Names DEF Inv, IInv, MadeOnce, Within
<1>5. \A q \in Procs : Fit(q)'
  BY <1>2
<1> QED BY <1>3, <1>4, <1>5, PartsAfter

PcSet == {"idle", "cloning", "info", "observe", "settings", "start", "test",
          "delete", "confirm"}
Answers == {"none", "ok", "failed", "inspect", "killed"}

LEMMA Going ==
    ASSUME TypeOK, NEW p \in Procs, NEW st \in PcSet, Goto(p, st)
    PROVE  /\ pc' \in [Procs -> PcSet] /\ pc'[p] = st /\ answer' = answer
           /\ answer' \in [Procs -> Answers]
           /\ \A q \in Procs \ {p} : pc'[q] = pc[q]
BY DEF TypeOK, Goto, PcSet, Answers

LEMMA Returning ==
    ASSUME TypeOK, NEW p \in Procs, NEW a \in Answers, Return(p, a)
    PROVE  /\ pc' \in [Procs -> PcSet] /\ pc'[p] = "idle"
           /\ answer' \in [Procs -> Answers] /\ answer'[p] = a
           /\ \A q \in Procs \ {p} : pc'[q] = pc[q] /\ answer'[q] = answer[q]
BY DEF TypeOK, Return, PcSet, Answers

LEMMA FaultTyped ==
    ASSUME TypeOK, Fault \/ UNCHANGED faults
    PROVE  faults' \in 0 .. MaxFaults
<1>1. MaxFaults \in Nat /\ faults \in 0 .. MaxFaults
  BY Names DEF TypeOK
<1> QED BY <1>1 DEF Fault

LEMMA Typed ==
    ASSUME TypeOK
    PROVE  /\ name \in [Ids -> Known \cup Drawn \cup {NoName}]
           /\ origin \in [Ids -> Known \cup Drawn \cup {NoName}]
           /\ running \subseteq Ids /\ set \in [Ids -> SUBSET Settings]
           /\ copying \subseteq Drawn
           /\ pc \in [Procs -> PcSet] /\ answer \in [Procs -> Answers]
           /\ own \in [Procs -> Known \cup Drawn \cup {NoName}]
           /\ addr \in [Procs -> Known \cup Drawn \cup {NoName}]
           /\ id \in [Procs -> Ids \cup {NoId}]
           /\ todo \in [Procs -> SUBSET Settings]
           /\ passed \in [Procs -> BOOLEAN]
           /\ moves \in 0 .. MaxMoves
BY DEF TypeOK, PcSet, Answers

LEMMA TypedAfter ==
    ASSUME name' \in [Ids -> Known \cup Drawn \cup {NoName}],
           origin' \in [Ids -> Known \cup Drawn \cup {NoName}],
           running' \subseteq Ids, set' \in [Ids -> SUBSET Settings],
           copying' \subseteq Drawn,
           pc' \in [Procs -> PcSet], answer' \in [Procs -> Answers],
           own' \in [Procs -> Known \cup Drawn \cup {NoName}],
           addr' \in [Procs -> Known \cup Drawn \cup {NoName}],
           id' \in [Procs -> Ids \cup {NoId}],
           todo' \in [Procs -> SUBSET Settings],
           passed' \in [Procs -> BOOLEAN],
           faults' \in 0 .. MaxFaults, moves' \in 0 .. MaxMoves
    PROVE  TypeOK'
BY DEF TypeOK, PcSet, Answers

(* The steps which leave the machines and what the process knows alone.    *)
LEMMA Quietly ==
    ASSUME Inv, NEW p \in Procs, pc[p] # "idle",
           UNCHANGED <<own, id, addr, todo, origin, copying, moves>>,
           \/ UNCHANGED set
           \/ /\ pc[p] = "delete" /\ set' \in [Ids -> SUBSET Settings]
              /\ \A i \in Ids \ {id[p]} : set'[i] = set[i],
           passed' \in [Procs -> BOOLEAN],
           name' \in [Ids -> Known \cup Drawn \cup {NoName}],
           \A i \in Ids : name'[i] \in {name[i], NoName},
           running' \subseteq Ids, Fault \/ UNCHANGED faults,
           \/ \E st \in PcSet :
                 /\ Goto(p, st)
                 /\ \/ <<pc[p], st>> \in {<<"cloning", "info">>,
                                          <<"start", "test">>}
                    \/ st \in {"delete", "confirm"} /\ id[p] # NoId
           \/ \E a \in Answers :
                 /\ Return(p, a)
                 /\ a \in {"ok", "failed"} /\ p \in Doctors =>
                       id[p] # NoId /\ name'[id[p]] = NoName
    PROVE  Inv'
<1>1. TypeOK /\ Fit(p) /\ Owned /\ MadeOnce
  BY Parts
<1>2. /\ pc' \in [Procs -> PcSet] /\ answer' \in [Procs -> Answers]
      /\ \A q \in Procs \ {p} : pc'[q] = pc[q] /\ answer'[q] = answer[q]
  BY <1>1, Going, Returning DEF Answers
<1>3. TypeOK'
  BY <1>1, <1>2, Typed, TypedAfter, FaultTyped
<1>4. Within(p)
  BY <1>2 DEF Within, Unnoticed
<1>5. Fit(p)'
  <2>1. ASSUME NEW st \in PcSet, Goto(p, st),
               \/ <<pc[p], st>> \in {<<"cloning", "info">>,
                                     <<"start", "test">>}
               \/ st \in {"delete", "confirm"} /\ id[p] # NoId
        PROVE  Fit(p)'
    <3>1. pc'[p] = st /\ answer' = answer
      BY <1>1, <2>1, Going
    <3>2. \A i \in Ids : name[i] = NoName => name'[i] = NoName
      OBVIOUS
    <3> QED BY <1>1, <2>1, <3>1, <3>2 DEF Fit
  <2>2. ASSUME NEW a \in Answers, Return(p, a),
               a \in {"ok", "failed"} /\ p \in Doctors =>
                   id[p] # NoId /\ name'[id[p]] = NoName
        PROVE  Fit(p)'
    <3>1. pc'[p] = "idle" /\ answer'[p] = a
      BY <1>1, <2>2, Returning
    <3>2. ASSUME p \in Doctors, a \in {"ok", "failed"}
          PROVE  /\ own[p] \notin copying
                 /\ \A i \in Ids : origin[i] = own[p] => name'[i] = NoName
      <4>1. /\ id[p] \in Ids /\ origin[id[p]] = own[p]
            /\ name'[id[p]] = NoName /\ own[p] \in Drawn
        BY <1>1, <2>2, <3>2, Typed DEF Fit, Owned
      <4> QED BY <1>1, <4>1 DEF MadeOnce
    <3> QED BY <1>1, <3>1, <3>2 DEF Fit
  <2> QED BY <2>1, <2>2
<1> QED BY <1>3, <1>4, <1>5, WithinKeeps

LEMMA QuietSteps ==
    ASSUME Inv, NEW p \in Procs,
           \/ CloneReturns(p) \/ Start(p) \/ Test(p) \/ Delete(p)
           \/ Confirm(p) \/ Kill(p)
    PROVE  Inv'
<1> USE DEF Keep, machineVars
<1>1. TypeOK /\ Fit(p) /\ passed \in [Procs -> BOOLEAN]
      /\ running \subseteq Ids
      /\ name \in [Ids -> Known \cup Drawn \cup {NoName}]
  BY Parts, Typed
<1>2. {"inspect", "failed", "ok", "killed"} \subseteq Answers
  BY DEF Answers
<1>3. {"info", "test", "delete", "confirm"} \subseteq PcSet
  BY DEF PcSet
<1>4. CASE CloneReturns(p)
  BY <1>1, <1>2, <1>3, <1>4, Quietly DEF CloneReturns
<1>5. CASE Start(p)
  <2>1. id[p] # NoId
    BY <1>1, <1>5 DEF Start, Fit
  <2>2. running' \subseteq Ids
    BY <1>1, <1>5 DEF Start, Present
  <2>3. pc[p] = "start" /\ UNCHANGED <<name, origin, set, copying, moves>>
        /\ UNCHANGED <<own, id, addr, todo, passed>>
    BY <1>5 DEF Start
  <2>4. CASE Goto(p, "test") /\ UNCHANGED faults
    BY <1>1, <1>3, <2>2, <2>3, <2>4, Quietly
  <2>5. CASE Goto(p, "delete") /\ (Fault \/ UNCHANGED faults)
    BY <1>1, <1>3, <2>1, <2>2, <2>3, <2>5, Quietly
  <2> QED BY <1>5, <2>4, <2>5 DEF Start
<1>6. CASE Test(p)
  <2>1. id[p] # NoId
    BY <1>1, <1>6 DEF Test, Fit
  <2>2. pc[p] = "test" /\ passed' \in [Procs -> BOOLEAN]
        /\ UNCHANGED <<own, id, addr, todo, machineVars, copying, moves>>
    BY <1>1, <1>6 DEF Test
  <2>3. CASE p \in Creates /\ Return(p, "ok") /\ UNCHANGED faults
    BY <1>1, <1>2, <2>2, <2>3, Quietly, Names
  <2>4. CASE Goto(p, "delete") /\ (Fault \/ UNCHANGED faults)
    BY <1>1, <1>3, <2>1, <2>2, <2>4, Quietly
  <2> QED BY <1>6, <2>3, <2>4 DEF Test
<1>7. CASE Delete(p)
  <2>1. id[p] # NoId
    BY <1>1, <1>7 DEF Delete, Fit
  <2>2. pc[p] = "delete" /\ UNCHANGED <<origin, running, copying, moves>>
        /\ UNCHANGED <<own, id, addr, todo, passed>>
    BY <1>7 DEF Delete
  <2>3. /\ name' \in [Ids -> Known \cup Drawn \cup {NoName}]
        /\ \A i \in Ids : name'[i] \in {name[i], NoName}
        /\ set' \in [Ids -> SUBSET Settings]
        /\ \A i \in Ids \ {id[p]} : set'[i] = set[i]
    <3>1. name' = name \/ name' = [name EXCEPT ![id[p]] = NoName]
      BY <1>7 DEF Delete
    <3>2. set' = set \/ set' = [set EXCEPT ![id[p]] = @ \ {Disk}]
      BY <1>7 DEF Delete
    <3> QED BY <1>1, <3>1, <3>2, Typed
  <2>4. CASE Goto(p, "confirm") /\ UNCHANGED faults
    BY <1>1, <1>3, <2>1, <2>2, <2>3, <2>4, Quietly
  <2>5. CASE Return(p, "inspect") /\ Fault
    BY <1>1, <1>2, <2>2, <2>3, <2>5, Quietly
  <2> QED BY <1>7, <2>4, <2>5 DEF Delete
<1>8. CASE Confirm(p)
  <2>1. pc[p] = "confirm" /\ id[p] # NoId /\ id[p] \in Ids
    BY <1>1, <1>8 DEF Confirm, Fit, TypeOK
  <2>2. UNCHANGED <<own, id, addr, todo, passed, machineVars, copying, moves>>
    BY <1>8 DEF Confirm
  <2>3. CASE /\ ~Present(id[p]) /\ UNCHANGED faults
             /\ Return(p, IF passed[p] THEN "ok" ELSE "failed")
    <3>1. name[id[p]] = NoName
      BY <2>1, <2>3 DEF Present
    <3> QED BY <1>1, <1>2, <2>1, <2>2, <2>3, <3>1, Quietly
  <2>4. CASE Return(p, "inspect") /\ (Fault \/ UNCHANGED faults)
    BY <1>1, <1>2, <2>1, <2>2, <2>4, Quietly
  <2> QED BY <1>8, <2>3, <2>4 DEF Confirm
<1>9. CASE Kill(p)
  BY <1>1, <1>2, <1>9, Quietly DEF Kill
<1> QED BY <1>4, <1>5, <1>6, <1>7, <1>8, <1>9

(* A clone is identified by a name that only it has had.                   *)
LEMMA Identifies ==
    ASSUME Inv, NEW p \in Procs, Info(p)
    PROVE  Inv'
<1> USE DEF machineVars
<1>1. TypeOK /\ Fit(p) /\ Owned /\ MadeOnce
  BY Parts
<1>2. pc[p] = "info" /\ own[p] \in Drawn /\ todo[p] = Settings
      /\ UNCHANGED <<own, todo, passed, machineVars, copying, moves>>
  BY <1>1 DEF Info, Owned, Fit
<1>3. CASE Return(p, "inspect") /\ UNCHANGED <<id, addr>>
           /\ (Fault \/ UNCHANGED faults)
  <2>1. "inspect" \in Answers
    BY DEF Answers
  <2> QED BY <1>1, <1>2, <1>3, <2>1, Typed, Quietly
<1>4. ASSUME NEW i \in Named(own[p]),
             id' = [id EXCEPT ![p] = i],
             addr' = [addr EXCEPT ![p] = own[p]],
             Goto(p, IF p \in Creates THEN "observe"
                     ELSE IF Stopped(i) THEN "settings" ELSE "delete"),
             UNCHANGED faults
      PROVE  Inv'
  <2>1. i \in Ids /\ origin[i] = own[p]
    BY <1>1, <1>2 DEF Named, MadeOnce
  <2>2. PICK st \in {"observe", "settings", "delete"} :
            Goto(p, st) /\ (st = "observe" => p \in Creates)
    BY <1>4
  <2>3. /\ pc' \in [Procs -> PcSet] /\ pc'[p] = st /\ answer' = answer
        /\ \A q \in Procs \ {p} : pc'[q] = pc[q]
    BY <1>1, <2>2, Going DEF PcSet
  <2>4. /\ id' \in [Procs -> Ids \cup {NoId}] /\ id'[p] = i
        /\ addr' \in [Procs -> Known \cup Drawn \cup {NoName}]
        /\ addr'[p] = own[p]
        /\ \A q \in Procs \ {p} : id'[q] = id[q] /\ addr'[q] = addr[q]
    BY <1>1, <1>2, <1>4, <2>1, Typed
  <2>5. TypeOK'
    BY <1>1, <1>2, <1>4, <2>3, <2>4, Typed, TypedAfter, FaultTyped
  <2>6. Within(p)
    BY <1>2, <2>3, <2>4 DEF Within, Unnoticed
  <2>7. Fit(p)'
    BY <1>1, <1>2, <2>1, <2>2, <2>3, <2>4, Names DEF Fit
  <2> QED BY <2>5, <2>6, <2>7, WithinKeeps
<1> QED BY <1>3, <1>4 DEF Info

LEMMA Observes ==
    ASSUME Inv, NEW p \in Procs, Observe(p)
    PROVE  Inv'
<1> USE DEF machineVars
<1>1. TypeOK /\ Fit(p)
  BY Parts
<1>2. /\ pc[p] = "observe" /\ p \notin Doctors /\ id[p] # NoId
      /\ UNCHANGED <<own, id, todo, passed, machineVars, copying, moves>>
  BY <1>1 DEF Observe, Fit
<1>3. CASE /\ Present(id[p]) /\ addr' = [addr EXCEPT ![p] = name[id[p]]]
           /\ Goto(p, "settings") /\ UNCHANGED faults
  <2>1. /\ pc' \in [Procs -> PcSet] /\ pc'[p] = "settings"
        /\ answer' = answer
        /\ \A q \in Procs \ {p} : pc'[q] = pc[q]
    BY <1>1, <1>3, Going DEF PcSet
  <2>2. /\ addr' \in [Procs -> Known \cup Drawn \cup {NoName}]
        /\ \A q \in Procs \ {p} : addr'[q] = addr[q]
    BY <1>1, <1>3, Typed DEF Present
  <2>3. TypeOK'
    BY <1>1, <1>2, <1>3, <2>1, <2>2, Typed, TypedAfter, FaultTyped
  <2>4. Within(p)
    BY <1>2, <2>1, <2>2 DEF Within, Unnoticed
  <2>5. Fit(p)'
    BY <1>1, <1>2, <2>1 DEF Fit
  <2> QED BY <2>3, <2>4, <2>5, WithinKeeps
<1>4. CASE Goto(p, "delete") /\ UNCHANGED addr /\ (Fault \/ UNCHANGED faults)
  <2>1. "delete" \in PcSet
    BY DEF PcSet
  <2> QED BY <1>1, <1>2, <1>4, <2>1, Typed, Quietly
<1> QED BY <1>3, <1>4 DEF Observe

(* Who has a doctor's drawn name is its clone, so no other machine gets    *)
(* the setting, and the clone does.                                        *)
LEMMA DoctorsName ==
    ASSUME Inv, NEW d \in Doctors, pc[d] = "settings",
           NEW i \in Ids, name[i] = addr[d]
    PROVE  i = id[d]
<1>1. TypeOK /\ Fit(d) /\ Owned /\ MadeOnce /\ d \in Procs
  BY Parts DEF Procs
<1>2. own[d] \in Drawn /\ name[i] = own[d] /\ id[d] \in Ids
      /\ origin[id[d]] = own[d]
  BY <1>1, Typed DEF Fit, Owned
<1> QED BY <1>1, <1>2 DEF MadeOnce

LEMMA WritesSetting ==
    ASSUME Inv, NEW p \in Procs, WriteSetting(p)
    PROVE  Inv'
<1>1. TypeOK /\ Fit(p) /\ Owned /\ MadeOnce
  BY Parts
<1>2. PICK s \in todo[p] :
       LET written == [i \in Ids |-> IF name[i] = addr[p] THEN set[i] \cup {s}
                                                         ELSE set[i]] IN
       \/ /\ Named(addr[p]) # {}
          /\ set' = written
          /\ todo' = [todo EXCEPT ![p] = @ \ {s}]
          /\ IF todo[p] = {s} THEN Goto(p, "start")
                              ELSE UNCHANGED <<pc, answer>>
          /\ UNCHANGED faults
       \/ /\ Named(addr[p]) = {}
          /\ Goto(p, "delete") /\ UNCHANGED <<set, todo, faults>>
       \/ set' \in {set, written} /\ Fault
          /\ Goto(p, "delete") /\ UNCHANGED todo
  BY DEF WriteSetting
<1> DEFINE written == [i \in Ids |-> IF name[i] = addr[p] THEN set[i] \cup {s}
                                                         ELSE set[i]]
<1>3. /\ pc[p] = "settings" /\ id[p] \in Ids /\ s \in Settings
      /\ UNCHANGED <<name, origin, running, copying, own, id, addr, passed,
                     moves>>
  BY <1>1, Typed DEF WriteSetting, Fit
<1>4. /\ written \in [Ids -> SUBSET Settings]
      /\ \A i \in Ids : set[i] \subseteq written[i]
      /\ \A i \in Ids : name[i] = addr[p] => s \in written[i]
  BY <1>1, <1>3, Typed
<1>5. CASE /\ Named(addr[p]) # {} /\ set' = written
           /\ todo' = [todo EXCEPT ![p] = @ \ {s}]
           /\ IF todo[p] = {s} THEN Goto(p, "start")
                               ELSE UNCHANGED <<pc, answer>>
           /\ UNCHANGED faults
  <2> HIDE DEF written
  <2>1. /\ todo' \in [Procs -> SUBSET Settings]
        /\ todo'[p] = todo[p] \ {s}
        /\ \A q \in Procs \ {p} : todo'[q] = todo[q]
    BY <1>1, <1>5, Typed
  <2>2. /\ pc' \in [Procs -> PcSet] /\ answer' = answer
        /\ \A q \in Procs \ {p} : pc'[q] = pc[q]
        /\ \/ pc'[p] = "start" /\ todo'[p] = {}
           \/ pc'[p] = "settings"
    <3>1. CASE todo[p] = {s}
      BY <1>1, <1>5, <2>1, <3>1, Going DEF PcSet
    <3>2. CASE todo[p] # {s}
      BY <1>1, <1>3, <1>5, <3>2, Typed
    <3> QED BY <3>1, <3>2
  <2>3. TypeOK'
    BY <1>1, <1>3, <1>4, <1>5, <2>1, <2>2, Typed, TypedAfter, FaultTyped
  <2>4. Within(p)
    BY <1>3, <1>4, <1>5, <2>1, <2>2 DEF Within, Unnoticed
  <2>5. p \in Doctors => Settings \ todo'[p] \subseteq set'[id[p]]
    <3> SUFFICES ASSUME p \in Doctors
                 PROVE  Settings \ todo'[p] \subseteq set'[id[p]]
      OBVIOUS
    <3>1. PICK i \in Ids : name[i] = addr[p]
      BY <1>5 DEF Named
    <3>2. i = id[p]
      BY <1>3, <3>1, DoctorsName
    <3>3. s \in set'[id[p]] /\ set[id[p]] \subseteq set'[id[p]]
      BY <1>3, <1>4, <1>5, <3>1, <3>2
    <3>4. Settings \ todo[p] \subseteq set[id[p]]
      BY <1>1, <1>3 DEF Fit
    <3> QED BY <2>1, <3>3, <3>4
  <2>6. set'[id[p]] \subseteq Settings
    BY <1>3, <1>4, <1>5
  <2>7. Fit(p)'
    BY <1>1, <1>3, <2>2, <2>5, <2>6 DEF Fit
  <2> QED BY <2>3, <2>4, <2>7, WithinKeeps
<1>6. CASE /\ set' \in {set, written} /\ Goto(p, "delete")
           /\ UNCHANGED todo /\ (Fault \/ UNCHANGED faults)
  <2> HIDE DEF written
  <2>1. /\ pc' \in [Procs -> PcSet] /\ answer' = answer
        /\ pc'[p] = "delete"
        /\ \A q \in Procs \ {p} : pc'[q] = pc[q]
    BY <1>1, <1>6, Going DEF PcSet
  <2>2. set' \in [Ids -> SUBSET Settings]
        /\ \A i \in Ids : set[i] \subseteq set'[i]
    BY <1>1, <1>4, <1>6, Typed
  <2>3. TypeOK'
    BY <1>1, <1>3, <1>6, <2>1, <2>2, Typed, TypedAfter, FaultTyped
  <2>4. Within(p)
    BY <1>3, <1>6, <2>1, <2>2 DEF Within, Unnoticed
  <2>5. Fit(p)'
    BY <1>1, <1>3, <1>6, <2>1 DEF Fit
  <2> QED BY <2>3, <2>4, <2>5, WithinKeeps
<1> QED BY <1>2, <1>5, <1>6

-----------------------------------------------------------------------------
(* New machines, and what actors do.                                       *)
LEMMA Begins ==
    ASSUME Inv, NEW p \in Procs, Begin(p)
    PROVE  Inv'
<1> USE DEF machineVars
<1>1. TypeOK /\ Fit(p) /\ Owned /\ MadeOnce
  BY Parts
<1>2. PICK n \in Drawn :
          /\ \A i \in Ids : origin[i] # n
          /\ Free(n) /\ \A q \in Procs : own[q] # n
          /\ own' = [own EXCEPT ![p] = n]
          /\ copying' = copying \cup {n}
  BY DEF Begin
<1>3. /\ own' \in [Procs -> Known \cup Drawn \cup {NoName}] /\ own'[p] = n
      /\ id' \in [Procs -> Ids \cup {NoId}] /\ id'[p] = NoId
      /\ addr' \in [Procs -> Known \cup Drawn \cup {NoName}]
      /\ todo' \in [Procs -> SUBSET Settings] /\ todo'[p] = Settings
      /\ passed' \in [Procs -> BOOLEAN]
      /\ pc' \in [Procs -> PcSet] /\ pc'[p] = "cloning"
      /\ answer' \in [Procs -> Answers] /\ answer'[p] = "none"
  BY <1>1, <1>2, Typed DEF Begin, PcSet, Answers
<1>4. \A q \in Procs \ {p} : Unnoticed(q)
  BY <1>1, <1>2, Typed DEF Begin, Unnoticed
<1>5. UNCHANGED <<name, origin, running, set, faults, moves>>
  BY DEF Begin
<1>6. TypeOK'
  BY <1>1, <1>2, <1>3, <1>5, Typed, TypedAfter, FaultTyped
<1>7. \A q \in Procs : Mild(q)
  BY <1>2, <1>5 DEF Mild
<1>8. \A q \in Procs \ {p} : Fit(q)'
  BY <1>4, <1>6, <1>7, StaysFit
<1>9. Fit(p)'
  BY <1>3 DEF Fit
<1>10. Owned'
  <2>1. n # NoName /\ pc'[p] # "idle"
    BY <1>3, Names
  <2>2. \A q \in Procs \ {p} : own'[q] = own[q] /\ pc'[q] = pc[q]
    BY <1>4 DEF Unnoticed
  <2> QED BY <1>1, <1>2, <1>3, <2>1, <2>2 DEF Owned
<1>11. MadeOnce'
  BY <1>1, <1>2, <1>5 DEF MadeOnce
<1> QED BY <1>6, <1>8, <1>9, <1>10, <1>11, PartsAfter

LEMMA Outside ==
    ASSUME Inv, UNCHANGED procVars, TypeOK', MadeOnce',
           \A q \in Procs : Mild(q)
    PROVE  Inv'
<1> USE DEF procVars
<1>1. \A q \in Procs : Fit(q)'
  BY StaysFit DEF Unnoticed
<1>2. Owned'
  BY DEF Inv, IInv, Owned
<1> QED BY <1>1, <1>2, PartsAfter

LEMMA CopyMade ==
    ASSUME Inv, NEW n \in copying, CopyEnds(n)
    PROVE  Inv'
<1> USE DEF procVars
<1>1. TypeOK /\ MadeOnce /\ n \in Drawn /\ n # NoName
      /\ copying' = copying \ {n}
      /\ UNCHANGED <<running, set, procVars, faults, moves>>
  BY Parts, Typed, Names DEF CopyEnds
<1>2. CASE UNCHANGED <<name, origin>>
  <2>1. TypeOK'
    BY <1>1, <1>2, Typed, TypedAfter, FaultTyped
  <2>2. MadeOnce'
    BY <1>1, <1>2 DEF MadeOnce
  <2>3. \A q \in Procs : Mild(q)
    BY <1>1, <1>2 DEF Mild
  <2> QED BY <1>1, <2>1, <2>2, <2>3, Outside
<1>3. ASSUME NEW i \in {j \in Ids : origin[j] = NoName},
             name' = [name EXCEPT ![i] = n],
             origin' = [origin EXCEPT ![i] = n]
      PROVE  Inv'
  <2>1. /\ name' \in [Ids -> Known \cup Drawn \cup {NoName}]
        /\ origin' \in [Ids -> Known \cup Drawn \cup {NoName}]
        /\ name'[i] = n /\ origin'[i] = n
        /\ \A j \in Ids \ {i} : name'[j] = name[j] /\ origin'[j] = origin[j]
    BY <1>1, <1>3, Typed
  <2>2. TypeOK'
    BY <1>1, <2>1, Typed, TypedAfter, FaultTyped
  <2>3. MadeOnce'
    BY <1>1, <2>1 DEF MadeOnce
  <2>4. \A q \in Procs : Mild(q)
    BY <1>1, <1>3, <2>1 DEF Mild
  <2> QED BY <1>1, <2>2, <2>3, <2>4, Outside
<1> QED BY <1>2, <1>3 DEF CopyEnds

LEMMA Moved ==
    ASSUME Inv, Move
    PROVE  /\ moves' \in 0 .. MaxMoves /\ UNCHANGED <<copying, procVars>>
           /\ faults' \in 0 .. MaxFaults
<1>1. MaxMoves \in Nat /\ moves \in 0 .. MaxMoves
      /\ MaxFaults \in Nat /\ faults \in 0 .. MaxFaults
  BY Names DEF Inv, TypeOK
<1> QED BY <1>1 DEF Move

LEMMA ActorsMove ==
    ASSUME Inv, NEW i \in Ids,
           \/ ActorStarts(i) \/ ActorDeletes(i)
           \/ \E n \in Known : ActorCreates(i, n) \/ ActorRenames(i, n)
    PROVE  Inv'
<1> USE DEF procVars
<1>1. TypeOK /\ MadeOnce /\ Owned
  BY Parts
<1>2. /\ moves' \in 0 .. MaxMoves /\ UNCHANGED <<copying, procVars, set>>
      /\ faults' \in 0 .. MaxFaults /\ running' \subseteq Ids
  BY <1>1, Moved, Typed
     DEF ActorStarts, ActorDeletes, ActorCreates, ActorRenames
<1>3. CASE ActorStarts(i)
  <2>1. UNCHANGED <<name, origin>>
    BY <1>3 DEF ActorStarts
  <2>2. TypeOK' /\ MadeOnce' /\ \A q \in Procs : Mild(q)
    BY <1>1, <1>2, <2>1, Typed, TypedAfter DEF MadeOnce, Mild
  <2> QED BY <1>2, <2>2, Outside
<1>4. CASE ActorDeletes(i)
  <2>1. /\ name' \in [Ids -> Known \cup Drawn \cup {NoName}]
        /\ name'[i] = NoName /\ origin' = origin
        /\ \A j \in Ids \ {i} : name'[j] = name[j]
    BY <1>1, <1>4, Typed DEF ActorDeletes
  <2>2. TypeOK'
    BY <1>1, <1>2, <2>1, Typed, TypedAfter
  <2>3. MadeOnce' /\ \A q \in Procs : Mild(q)
    BY <1>1, <1>2, <2>1, Names DEF MadeOnce, Mild
  <2> QED BY <1>2, <2>2, <2>3, Outside
<1>5. ASSUME NEW n \in Known, ActorRenames(i, n)
      PROVE  Inv'
  <2>1. /\ name' \in [Ids -> Known \cup Drawn \cup {NoName}]
        /\ name'[i] = n /\ name[i] # NoName /\ origin' = origin
        /\ \A j \in Ids \ {i} : name'[j] = name[j]
    BY <1>1, <1>5, Typed DEF ActorRenames, Present
  <2>2. TypeOK'
    BY <1>1, <1>2, <2>1, Typed, TypedAfter
  <2>3. MadeOnce' /\ \A q \in Procs : Mild(q)
    BY <1>1, <1>2, <2>1, Names DEF MadeOnce, Mild
  <2> QED BY <1>2, <2>2, <2>3, Outside
<1>6. ASSUME NEW n \in Known, ActorCreates(i, n)
      PROVE  Inv'
  <2>1. /\ name' \in [Ids -> Known \cup Drawn \cup {NoName}]
        /\ origin' \in [Ids -> Known \cup Drawn \cup {NoName}]
        /\ name'[i] = n /\ origin'[i] = n /\ origin[i] = NoName
        /\ \A j \in Ids \ {i} :
               name'[j] = name[j] /\ origin'[j] = origin[j]
    BY <1>1, <1>6, Typed DEF ActorCreates
  <2>2. n \notin Drawn /\ n # NoName /\ n \notin copying
    BY <1>1, Names, Typed
  <2>3. TypeOK'
    BY <1>1, <1>2, <2>1, Typed, TypedAfter
  <2>4. MadeOnce'
    BY <1>1, <1>2, <2>1, <2>2 DEF MadeOnce
  <2>5. \A q \in Procs : own[q] # n
    BY <1>1, <2>2 DEF Owned
  <2>6. \A q \in Procs : Mild(q)
    BY <1>2, <2>1, <2>5 DEF Mild
  <2> QED BY <1>2, <2>3, <2>4, <2>6, Outside
<1> QED BY <1>3, <1>4, <1>5, <1>6

-----------------------------------------------------------------------------
LEMMA Initially == Init => Inv
<1> SUFFICES ASSUME Init  PROVE Inv
  OBVIOUS
<1> USE DEF Init
<1>1. 0 \in 0 .. MaxFaults /\ 0 \in 0 .. MaxMoves
  BY Names
<1>2. TypeOK
  BY <1>1 DEF TypeOK
<1>3. Owned /\ MadeOnce /\ \A p \in Procs : Fit(p)
  BY Names DEF Owned, MadeOnce, Fit
<1> QED BY <1>2, <1>3, Parts

LEMMA NextKeeps ==
    ASSUME Inv, [Next]_vars
    PROVE  Inv'
<1>1. ASSUME NEW p \in Procs, Begin(p) \/ SetupStep(p) \/ Kill(p)
      PROVE  Inv'
  BY <1>1, Begins, QuietSteps, Identifies, Observes, WritesSetting
     DEF SetupStep
<1>2. (\E n \in copying : CopyEnds(n)) => Inv'
  BY CopyMade
<1>3. ASSUME NEW i \in Ids,
             \/ ActorStarts(i) \/ ActorDeletes(i)
             \/ \E n \in Known : ActorCreates(i, n) \/ ActorRenames(i, n)
      PROVE  Inv'
  BY <1>3, ActorsMove
<1>4. CASE UNCHANGED vars
  <2> USE <1>4 DEF vars, machineVars, procVars
  <2>1. TypeOK' /\ MadeOnce' /\ \A q \in Procs : Mild(q)
    BY DEF Inv, IInv, TypeOK, MadeOnce, Mild
  <2> QED BY <2>1, Outside
<1> QED BY <1>1, <1>2, <1>3, <1>4 DEF Next

LEMMA Always == Spec => []Inv
BY Initially, NextKeeps, PTL DEF Spec

(* Every variable keeps its type.                                          *)
THEOREM SetupTyping == Spec => []TypeOK
<1>1. Inv => TypeOK
  BY DEF Inv
<1> QED BY Always, <1>1, PTL

(* The inductive invariant: a drawn name belongs to one process and to the *)
(* machine made for it, and a doctor has written what is not left to write.*)
THEOREM SetupInvariance == Spec => []IInv
<1>1. Inv => IInv
  BY DEF Inv
<1> QED BY Always, <1>1, PTL

(* No process ever acts on a machine that is not its clone, whatever the   *)
(* actors rename (probeClone, clone).                                      *)
THEOREM ClonesIdentified == Spec => []OnlyItsClone
<1>1. Inv => OnlyItsClone
  BY DEF Inv, IInv
<1> QED BY Always, <1>1, PTL

(* A doctor that reports a result has left no machine (probeClone).        *)
THEOREM NothingLeft == Spec => []ProbeLeavesNothing
<1>1. Inv => ProbeLeavesNothing
  BY DEF Inv, IInv
<1> QED BY Always, <1>1, PTL

(* A probe is only booted with all of its limits: nobody can take its      *)
(* drawn name but by renaming the probe, and then its setting fails.       *)
THEOREM ProbesLimited == Spec => []ProbeIsLimited
<1>1. Inv => ProbeIsLimited
  BY DEF Inv, IInv, DoctorWrites, ProbeIsLimited, HasItsLimits
<1> QED BY Always, <1>1, PTL

(* Doctor changes the settings of no other machine (probeClone).           *)
THEOREM NoStraySettings == Spec => SettingsStayInside
<1>1. Inv /\ [Next]_vars =>
        \A d \in Doctors, i \in Ids :
            pc[d] = "settings" /\ (todo'[d] # todo[d] \/ pc'[d] = "delete")
                /\ set'[i] # set[i]
            => i = id[d]
  <2> SUFFICES ASSUME Inv, [Next]_vars, NEW d \in Doctors, NEW i \in Ids,
                      pc[d] = "settings",
                      todo'[d] # todo[d] \/ pc'[d] = "delete",
                      set'[i] # set[i]
               PROVE  i = id[d]
    OBVIOUS
  <2> USE DEF machineVars, procVars, vars, Keep, Move
  <2>1. \A q \in Procs : ~WriteSetting(q) /\ ~Delete(q) =>
            ~SetupStep(q) /\ ~Begin(q) /\ ~Kill(q)
    BY DEF SetupStep, CloneReturns, Info, Observe, Start, Test, Confirm,
           Begin, Kill
  <2>2. PICK p \in Procs : WriteSetting(p)
    <3>1. ASSUME NEW q \in Procs, Delete(q) PROVE FALSE
      <4>1. d \in Procs /\ DOMAIN pc = Procs
        BY Parts, Typed DEF Procs
      <4>2. pc[q] = "delete" /\ todo' = todo
            /\ \E step : pc' = [pc EXCEPT ![q] = step]
        BY <3>1 DEF Delete, Goto, Return
      <4> QED BY <4>1, <4>2
    <3>2. PICK q \in Procs : WriteSetting(q) \/ Delete(q)
      BY <2>1 DEF Next, CopyEnds, ActorStarts, ActorDeletes, ActorCreates,
         ActorRenames
    <3> QED BY <3>1, <3>2
  <2>3. TypeOK
    BY Parts
  <2>4. p = d
    <3>1. d \in Procs /\ DOMAIN todo = Procs /\ DOMAIN pc = Procs
      BY <2>3, Typed DEF Procs
    <3>2. \/ todo' = todo
          \/ \E s \in todo[p] : todo' = [todo EXCEPT ![p] = @ \ {s}]
      BY <2>2 DEF WriteSetting
    <3>3. pc' = pc \/ \E step \in {"start", "delete"} :
                         pc' = [pc EXCEPT ![p] = step]
      BY <2>2 DEF WriteSetting, Goto
    <3> QED BY <3>1, <3>2, <3>3
  <2>5. name[i] = addr[d]
    BY <2>2, <2>3, <2>4, Typed DEF WriteSetting
  <2> QED BY <2>5, DoctorsName
<1> QED BY Always, <1>1, PTL DEF Spec, SettingsStayInside
=============================================================================
