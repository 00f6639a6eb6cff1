------------------------ MODULE TemplateHost_proofs ------------------------
(***************************************************************************)
(* Theorems about TemplateHost.                                            *)
(*                                                                         *)
(* A process changes its own image, its own runner and itself (Footprint), *)
(* and no two processes are in each other's way: the image of a Build is   *)
(* unknown to all others, Remove and clone exclude each other by the       *)
(* template lock, and a reservation belongs to one call.  So a step keeps  *)
(* what the invariant says of the other processes (Others), and for each   *)
(* action it remains to show what it says of the process itself.           *)
(***************************************************************************)
EXTENDS TemplateHost, TLAPS

USE TemplateAssumption
USE DEF At, Goto, Return, Fault, imageVars, registryVars, NoCall, Call,
        HoldsHost, HoldsTemplate, UpdateSteps, CloneSteps, RemoveSteps,
        BuildSteps, CreateSteps

(* What a build may change. *)
BuildFootprint(p) ==
    LET i == call[p].image IN
    /\ host' = host \/ (pc[p] = "hostWrite" /\ host' = host \cup {i})
    /\ \A j \in Images \ {i} : template'[j] = template[j]
    /\ template'[i] = template[i] \/ template'[i] # "none"
    /\ manifests \subseteq manifests'
    /\ ready \subseteq ready'
    /\ UNCHANGED registryVars

(* What a removal may change. *)
RemoveFootprint(p) ==
    LET i == call[p].image IN
    /\ host' = host \/ (pc[p] = "hostWrite" /\ host' = host \ {i})
    /\ \/ template' = template
       \/ pc[p] = "destroy" /\ template' = [template EXCEPT ![i] = "deleted"]
    /\ \/ manifests' = manifests
       \/ pc[p] = "unlink" /\ manifests' = manifests \ {i}
    /\ UNCHANGED <<ready, registryVars>>

(* What a CREATE may change. *)
CreateFootprint(p) ==
    LET r == call[p].runner IN
    /\ UNCHANGED imageVars
    /\ \A s \in Runners \ {r} :
          /\ records'[s] = records[s]
          /\ s \in intents' <=> s \in intents
          /\ s \in copying' <=> s \in copying
    /\ intents' \subseteq intents \/ pc[p] = "mark"
    /\ records'[r] # records[r] => r \notin intents'
    /\ pc[p] \in {"checkHost", "reserve"} =>
          /\ UNCHANGED <<intents, copying>>
          /\ \/ records' = records /\ pc'[p] \in {"idle", "reserve"}
             \/ pc[p] = "reserve" /\ records[r] = NoImage

Footprint(p) ==
    /\ \A q \in Procs \ {p} : pc'[q] = pc[q] /\ call'[q] = call[q]
    /\ call'[p] \in {call[p], NoCall,
                     Call(call[p].op, call[p].image, call[p].runner, host)}
    /\ pc'[p] = "idle" => call'[p] = NoCall
    /\ \/ call[p].op = "build" /\ BuildFootprint(p)
       \/ call[p].op = "remove" /\ RemoveFootprint(p)
       \/ call[p].op = "create" /\ CreateFootprint(p)

(* The initial states satisfy the invariant. *)
LEMMA Initial == Init => TypeOK /\ IInv
BY DEF Init, TypeOK, IInv, RegisteredHasManifest, RegisteredIsSealed,
    IntentHasTemplate, LockInv, ProcInv, CallInv, BuilderInv, RemoverInv,
    CreatorInv

(* A step within its footprint keeps what is said of another process. *)
LEMMA Others ==
  ASSUME TypeOK, TypeOK', IInv, NEW p \in Procs, Footprint(p),
         NEW q \in Procs \ {p}
  PROVE  CallInv(q)' /\ BuilderInv(q)' /\ RemoverInv(q)' /\ CreatorInv(q)'
<1>1. /\ pc'[q] = pc[q] /\ call'[q] = call[q] /\ pc'[q] = pc[q]
      /\ CallInv(p) /\ BuilderInv(p) /\ RemoverInv(p) /\ CreatorInv(p)
      /\ CallInv(q) /\ BuilderInv(q) /\ RemoverInv(q) /\ CreatorInv(q)
  BY DEF Footprint, IInv, ProcInv
<1>2. /\ HoldsHost(p) => ~HoldsHost(q)
      /\ \A i \in Images : HoldsTemplate(p, i) => ~HoldsTemplate(q, i)
  BY DEF IInv, LockInv
<1>3. \A i \in host : template[i] # "none"
  BY DEF IInv, RegisteredIsSealed, RegisteredHasManifest
<1>4. CASE call[p].op = "build"
  <2>1. BuildFootprint(p) /\ call[p].image \in Images
    BY <1>1, <1>4 DEF Footprint, CallInv
  <2>2. \A i \in call[q].host : i \in Images \ {call[p].image}
    BY <1>1, <1>4 DEF BuilderInv, TypeOK
  <2>3. CallInv(q)'
    BY <1>1, <1>2, <2>1, <2>2 DEF CallInv, BuildFootprint, TypeOK
  <2>4. call[q].op = "build" => call[q].image # call[p].image
    BY <1>1, <1>4 DEF BuilderInv
  <2>5. BuilderInv(q)'
    <3>1. SUFFICES ASSUME call[q].op = "build"
                   PROVE  BuilderInv(q)'
      BY <1>1 DEF BuilderInv
    <3>2. call[q].image \in Images \ {call[p].image}
      BY <2>4, <3>1, <1>1 DEF CallInv
    <3>3. template'[call[q].image] = template[call[q].image]
      BY <3>2, <2>1 DEF BuildFootprint
    <3>4. \A s \in Procs : call[q].image \notin call'[s].host
      BY <1>1, <3>1 DEF Footprint, BuilderInv
    <3>5. \A s \in Procs \ {q} :
             call'[s].op = "build" => call'[s].image # call[q].image
      BY <1>1, <3>1, <2>4 DEF Footprint, BuilderInv
    <3>6. QED
      BY <1>1, <2>1, <3>1, <3>2, <3>3, <3>4, <3>5 DEF BuilderInv,
           BuildFootprint
  <2>6. call[q].op \in {"remove", "create"} /\ pc[q] # "checkHost" =>
           call[q].image \in Images \ {call[p].image}
    BY <1>1, <2>2 DEF CallInv
  <2>7. RemoverInv(q)'
    BY <1>1, <2>1, <2>6 DEF RemoverInv, BuildFootprint
  <2>8. CreatorInv(q)'
    <3>1. SUFFICES ASSUME call[q].op = "create", pc[q] \in CreateSteps \ {"reserve"}
                   PROVE  CreatorInv(q)'
      BY <1>1 DEF CreatorInv
    <3>2. call[q].image \in Images \ {call[p].image}
      BY <2>6, <3>1
    <3>3. \A s \in Procs \ {q} : call'[s].runner = call[q].runner =>
             pc'[s] \in {"checkHost", "reserve"}
      <4>1. call[q].runner \in Runners /\ call'[p].runner \notin Runners
        BY <1>1, <1>4, <3>1 DEF CallInv, Footprint
      <4>2. QED
        BY <4>1, <1>1, <3>1 DEF CreatorInv, Footprint
    <3>4. QED
      BY <1>1, <2>1, <3>1, <3>2, <3>3 DEF CreatorInv, BuildFootprint
  <2>9. QED
    BY <2>3, <2>5, <2>7, <2>8
<1>5. CASE call[p].op = "remove"
  <2>1. RemoveFootprint(p) /\ call[p].image \in Images
    BY <1>1, <1>5 DEF Footprint, CallInv
  <2>2. \A i \in Images : template[i] # "none" => template'[i] # "none"
    BY <2>1 DEF RemoveFootprint, TypeOK
  <2>3. CallInv(q)'
    BY <1>1, <1>2, <2>1, <2>2 DEF CallInv, RemoveFootprint, TypeOK
  <2>4. BuilderInv(q)'
    <3>1. SUFFICES ASSUME call[q].op = "build"
                   PROVE  BuilderInv(q)'
      BY <1>1 DEF BuilderInv
    <3>2. call[q].image \in Images /\ (pc[p] # "checkHost" => call[q].image # call[p].image)
      BY <1>1, <1>5, <3>1 DEF CallInv, BuilderInv
    <3>3. template'[call[q].image] = template[call[q].image]
      BY <3>2, <2>1 DEF RemoveFootprint, TypeOK
    <3>4. \A s \in Procs : call[q].image \notin call'[s].host
      BY <1>1, <3>1 DEF Footprint, BuilderInv
    <3>5. \A s \in Procs \ {q} :
             call'[s].op = "build" => call'[s].image # call[q].image
      BY <1>1, <1>5, <3>1 DEF Footprint, BuilderInv
    <3>6. call[q].image \in manifests => call[q].image \in manifests'
      BY <3>2, <2>1 DEF RemoveFootprint
    <3>7. QED
      BY <1>1, <2>1, <3>1, <3>3, <3>4, <3>5, <3>6 DEF BuilderInv,
           RemoveFootprint
  <2>5. RemoverInv(q)'
    BY <1>1, <2>1 DEF RemoverInv, RemoveFootprint, CallInv, TypeOK
  <2>6. CreatorInv(q)'
    <3>1. SUFFICES ASSUME call[q].op = "create", pc[q] \in CreateSteps \ {"reserve"}
                   PROVE  CreatorInv(q)'
      BY <1>1 DEF CreatorInv
    <3>2. \A s \in Procs \ {q} : call'[s].runner = call[q].runner =>
             pc'[s] \in {"checkHost", "reserve"}
      <4>1. call[q].runner \in Runners /\ call'[p].runner \notin Runners
        BY <1>1, <1>5, <3>1 DEF CallInv, Footprint
      <4>2. QED
        BY <4>1, <1>1, <3>1 DEF CreatorInv, Footprint
    <3>3. pc[q] = "mark" => template'[call[q].image] = template[call[q].image]
      <4>1. pc[q] = "mark" /\ pc[p] = "destroy" => call[q].image # call[p].image
        BY <1>2, <1>5, <2>1, <3>1
      <4>2. QED
        BY <4>1, <2>1, <1>1, <3>1 DEF RemoveFootprint, CallInv, TypeOK
    <3>4. QED
      BY <1>1, <2>1, <3>1, <3>2, <3>3 DEF CreatorInv, RemoveFootprint
  <2>7. QED
    BY <2>3, <2>4, <2>5, <2>6
<1>6. CASE call[p].op = "create"
  <2>1. CreateFootprint(p) /\ call[p].image \in Images /\ call[p].runner \in Runners
    BY <1>1, <1>6 DEF Footprint, CallInv
  <2>2. CallInv(q)'
    BY <1>1, <2>1 DEF CallInv, CreateFootprint
  <2>3. BuilderInv(q)'
    BY <1>1, <2>1, <1>6 DEF BuilderInv, CreateFootprint, Footprint
  <2>4. RemoverInv(q)'
    <3>1. SUFFICES ASSUME call[q].op = "remove", pc[q] = "destroy",
                          NEW r \in intents', records'[r] = call[q].image
                   PROVE  FALSE
      BY <1>1, <2>1 DEF RemoverInv, CreateFootprint
    <3>2. r \in Runners
      BY DEF TypeOK
    <3>3. records'[r] = records[r]
      BY <2>1, <3>1, <3>2 DEF CreateFootprint
    <3>4. r \notin intents
      BY <1>1, <3>1, <3>3 DEF RemoverInv
    <3>5. pc[p] = "mark" /\ r = call[p].runner
      BY <2>1, <3>1, <3>2, <3>4 DEF CreateFootprint
    <3>6. records[r] = call[p].image
      BY <1>1, <1>6, <3>5 DEF CreatorInv
    <3>7. QED
      BY <1>2, <1>6, <2>1, <3>1, <3>3, <3>5, <3>6
  <2>5. CreatorInv(q)'
    <3>1. SUFFICES ASSUME call[q].op = "create", pc[q] \in CreateSteps \ {"reserve"}
                   PROVE  CreatorInv(q)'
      BY <1>1 DEF CreatorInv
    <3>2. call[q].runner \in Runners
      BY <1>1, <3>1 DEF CallInv
    <3>3. call[p].runner = call[q].runner => pc[p] \in {"checkHost", "reserve"}
      BY <1>1, <3>1 DEF CreatorInv
    <3>4. records[call[q].runner] # NoImage
      BY <1>1, <3>1 DEF CreatorInv, CallInv
    <3>5. LET r == call[q].runner IN
             /\ records'[r] = records[r]
             /\ r \in intents' <=> r \in intents
             /\ r \in copying' <=> r \in copying
      BY <2>1, <3>2, <3>3, <3>4 DEF CreateFootprint
    <3>6. \A s \in Procs \ {q} : call'[s].runner = call[q].runner =>
             pc'[s] \in {"checkHost", "reserve"}
      <4>1. call[p].runner = call[q].runner =>
               call'[p] = NoCall \/ pc'[p] = "reserve" \/ pc'[p] = "checkHost"
        BY <2>1, <3>3, <3>4, <1>1 DEF CreateFootprint, Footprint
      <4>2. QED
        BY <4>1, <1>1, <3>1, <3>2 DEF CreatorInv, Footprint
    <3>7. QED
      BY <1>1, <2>1, <3>1, <3>5, <3>6 DEF CreatorInv, CreateFootprint
  <2>6. QED
    BY <2>2, <2>3, <2>4, <2>5
<1>7. QED
  BY <1>4, <1>5, <1>6 DEF Footprint

(* A step that keeps the stores, both locks and what is said of its own    *)
(* process keeps the invariant.                                            *)
LEMMA Assembled ==
  ASSUME TypeOK, TypeOK', IInv, NEW p \in Procs, Footprint(p),
         RegisteredHasManifest', RegisteredIsSealed', IntentHasTemplate',
         HoldsHost(p)' => HoldsHost(p) \/ HostLockFree,
         \A i \in Images :
            HoldsTemplate(p, i)' => HoldsTemplate(p, i) \/ TemplateLockFree(i),
         pc'[p] # "idle" =>
            CallInv(p)' /\ BuilderInv(p)' /\ RemoverInv(p)' /\ CreatorInv(p)'
  PROVE  IInv'
<1>1. ASSUME NEW q \in Procs \ {p} PROVE pc'[q] = pc[q] /\ call'[q] = call[q]
  BY DEF Footprint
<1>2. LockInv'
  BY <1>1 DEF IInv, LockInv, HostLockFree, TemplateLockFree
<1>3. CallInv(p)' /\ BuilderInv(p)' /\ RemoverInv(p)' /\ CreatorInv(p)'
  <2>1. CASE pc'[p] = "idle"
    <3>1. call'[p] = NoCall
      BY <2>1 DEF Footprint
    <3>2. QED
      BY <2>1, <3>1 DEF CallInv, BuilderInv, RemoverInv, CreatorInv
  <2>2. QED
    BY <2>1
<1>4. ProcInv'
  BY <1>3, Others DEF ProcInv
<1>5. QED
  BY <1>2, <1>4 DEF IInv

(* LoadHost's second half writes nothing. *)
LEMMA KeepsCheckHost ==
  ASSUME TypeOK, IInv, NEW p \in Procs, CheckHost(p)
  PROVE  TypeOK' /\ IInv'
<1>1. CallInv(p) /\ BuilderInv(p) /\ RemoverInv(p) /\ CreatorInv(p)
  BY DEF IInv, ProcInv
<1>2. TypeOK'
  BY <1>1 DEF TypeOK, CallInv, CheckHost, FirstStep
<1>3. Footprint(p)
  <2>1. call[p].op \in {"build", "remove", "create"}
    BY <1>1 DEF CallInv, TypeOK, CheckHost
  <2>2. \/ pc' = [pc EXCEPT ![p] = FirstStep[call[p].op]] /\ call' = call
        \/ pc' = [pc EXCEPT ![p] = "idle"] /\ call' = [call EXCEPT ![p] = NoCall]
    BY DEF CheckHost
  <2>3. pc'[p] = "idle" \/ (call[p].op = "create" => pc'[p] = "reserve")
    BY <2>2 DEF FirstStep, TypeOK
  <2>4. pc'[p] = "idle" => call'[p] = NoCall
    <3>1. FirstStep[call[p].op] # "idle"
      BY <2>1 DEF FirstStep
    <3>2. QED
      BY <2>2, <3>1 DEF TypeOK
  <2>5. call'[p] \in {call[p], NoCall}
    BY <2>2 DEF TypeOK
  <2>6. \A q \in Procs \ {p} : pc'[q] = pc[q] /\ call'[q] = call[q]
    BY <2>2 DEF TypeOK
  <2>7. QED
    BY <2>1, <2>3, <2>4, <2>5, <2>6
    DEF CheckHost, Footprint, BuildFootprint, RemoveFootprint, CreateFootprint
<1>4. RegisteredHasManifest' /\ RegisteredIsSealed'
  BY <1>1 DEF IInv, RegisteredHasManifest, RegisteredIsSealed, CheckHost
<1>5. IntentHasTemplate'
  BY <1>1 DEF IInv, IntentHasTemplate, CheckHost
<1>6. ASSUME pc'[p] # "idle" PROVE CallInv(p)'
  BY <1>1, <1>6 DEF CallInv, TypeOK, CheckHost, FirstStep
<1>7. ASSUME pc'[p] # "idle" PROVE BuilderInv(p)'
  BY <1>1, <1>7 DEF BuilderInv, TypeOK, CheckHost, FirstStep
<1>8. ASSUME pc'[p] # "idle" PROVE RemoverInv(p)'
  BY <1>1, <1>8 DEF RemoverInv, TypeOK, CheckHost, FirstStep
<1>9. ASSUME pc'[p] # "idle" PROVE CreatorInv(p)'
  BY <1>1, <1>9 DEF CreatorInv, TypeOK, CheckHost, FirstStep
<1>10. HoldsHost(p)' => HoldsHost(p) \/ HostLockFree
  BY <1>1 DEF CallInv, TypeOK, CheckHost, FirstStep
<1>11. \A i \in Images : HoldsTemplate(p, i)' => HoldsTemplate(p, i) \/ TemplateLockFree(i)
  BY <1>1 DEF CallInv, TypeOK, CheckHost, FirstStep
<1>12. QED
  BY <1>2, <1>3, <1>4, <1>5, <1>6, <1>7, <1>8, <1>9, <1>10, <1>11, Assembled

(* A new machine is no other image's. *)
LEMMA KeepsCreateMachine ==
  ASSUME TypeOK, IInv, NEW p \in Procs, CreateMachine(p)
  PROVE  TypeOK' /\ IInv'
<1>1. CallInv(p) /\ BuilderInv(p) /\ RemoverInv(p) /\ CreatorInv(p)
  BY DEF IInv, ProcInv
<1>2. TypeOK'
  BY <1>1, SMTT(30) DEF TypeOK, CallInv, CreateMachine
<1>3. Footprint(p)
  <2>1. /\ call[p].op = "build" /\ call[p].image \in Images
        /\ UNCHANGED <<host, manifests, ready, registryVars>>
    BY <1>1 DEF CallInv, CreateMachine
  <2>2. template' \in
            {template, [template EXCEPT ![call[p].image] = "running"]}
    BY DEF CreateMachine
  <2>3. BuildFootprint(p)
    BY <2>1, <2>2 DEF BuildFootprint, TypeOK
  <2>4. \/ pc' = [pc EXCEPT ![p] = "identify"] /\ call' = call
        \/ /\ pc' = [pc EXCEPT ![p] = "idle"]
           /\ call' = [call EXCEPT ![p] = NoCall]
    BY DEF CreateMachine
  <2>5. QED
    BY <2>1, <2>3, <2>4 DEF Footprint, TypeOK
<1>4. RegisteredHasManifest' /\ RegisteredIsSealed'
  BY <1>1 DEF IInv, RegisteredHasManifest, RegisteredIsSealed, BuilderInv,
       TypeOK, CreateMachine
<1>5. IntentHasTemplate'
  BY <1>1 DEF IInv, IntentHasTemplate, BuilderInv, TypeOK, CreateMachine
<1>6. ASSUME pc'[p] # "idle" PROVE CallInv(p)'
  BY <1>1, <1>6 DEF CallInv, TypeOK, CreateMachine
<1>7. ASSUME pc'[p] # "idle" PROVE BuilderInv(p)'
  BY <1>1, <1>7 DEF BuilderInv, TypeOK, CreateMachine
<1>8. ASSUME pc'[p] # "idle" PROVE RemoverInv(p)'
  BY <1>1, <1>8 DEF RemoverInv, TypeOK, CreateMachine
<1>9. ASSUME pc'[p] # "idle" PROVE CreatorInv(p)'
  BY <1>1, <1>9 DEF CreatorInv, TypeOK, CreateMachine
<1>10. HoldsHost(p)' => HoldsHost(p) \/ HostLockFree
  BY <1>1 DEF CallInv, TypeOK, CreateMachine
<1>11. \A i \in Images : HoldsTemplate(p, i)' => HoldsTemplate(p, i) \/ TemplateLockFree(i)
  BY <1>1 DEF CallInv, TypeOK, CreateMachine
<1>12. QED
  BY <1>2, <1>3, <1>4, <1>5, <1>6, <1>7, <1>8, <1>9, <1>10, <1>11, Assembled

(* Identify writes nothing. *)
LEMMA KeepsIdentify ==
  ASSUME TypeOK, IInv, NEW p \in Procs, Identify(p)
  PROVE  TypeOK' /\ IInv'
<1>1. CallInv(p) /\ BuilderInv(p) /\ RemoverInv(p) /\ CreatorInv(p)
  BY DEF IInv, ProcInv
<1>2. TypeOK'
  BY <1>1 DEF TypeOK, CallInv, Identify
<1>3. Footprint(p)
  BY <1>1 DEF Footprint, BuildFootprint, TypeOK, Identify
<1>4. RegisteredHasManifest' /\ RegisteredIsSealed'
  BY <1>1 DEF IInv, RegisteredHasManifest, RegisteredIsSealed, Identify
<1>5. IntentHasTemplate'
  BY <1>1 DEF IInv, IntentHasTemplate, Identify
<1>6. ASSUME pc'[p] # "idle" PROVE CallInv(p)'
  BY <1>1, <1>6 DEF CallInv, IInv, LockInv, TypeOK, Identify
<1>7. ASSUME pc'[p] # "idle" PROVE BuilderInv(p)'
  BY <1>1, <1>7 DEF BuilderInv, TypeOK, Identify
<1>8. ASSUME pc'[p] # "idle" PROVE RemoverInv(p)'
  BY <1>1, <1>8 DEF RemoverInv, TypeOK, Identify
<1>9. ASSUME pc'[p] # "idle" PROVE CreatorInv(p)'
  BY <1>1, <1>9 DEF CreatorInv, TypeOK, Identify
<1>10. HoldsHost(p)' => HoldsHost(p) \/ HostLockFree
  BY <1>1 DEF CallInv, TypeOK, Identify
<1>11. \A i \in Images : HoldsTemplate(p, i)' => HoldsTemplate(p, i) \/ TemplateLockFree(i)
  BY <1>1 DEF CallInv, TypeOK, Identify
<1>12. QED
  BY <1>2, <1>3, <1>4, <1>5, <1>6, <1>7, <1>8, <1>9, <1>10, <1>11, Assembled

(* Provisioning ends before anything is published. *)
LEMMA KeepsProvision ==
  ASSUME TypeOK, IInv, NEW p \in Procs, Provision(p)
  PROVE  TypeOK' /\ IInv'
<1>1. CallInv(p) /\ BuilderInv(p) /\ RemoverInv(p) /\ CreatorInv(p)
  BY DEF IInv, ProcInv
<1>2. TypeOK'
  BY <1>1 DEF TypeOK, CallInv, Provision
<1>3. Footprint(p)
  BY <1>1 DEF Footprint, BuildFootprint, TypeOK, Provision
<1>4. RegisteredHasManifest' /\ RegisteredIsSealed'
  BY <1>1 DEF IInv, RegisteredHasManifest, RegisteredIsSealed, Provision
<1>5. IntentHasTemplate'
  BY <1>1 DEF IInv, IntentHasTemplate, Provision
<1>6. ASSUME pc'[p] # "idle" PROVE CallInv(p)'
  BY <1>1, <1>6 DEF CallInv, TypeOK, Provision
<1>7. ASSUME pc'[p] # "idle" PROVE BuilderInv(p)'
  BY <1>1, <1>7 DEF BuilderInv, TypeOK, Provision
<1>8. ASSUME pc'[p] # "idle" PROVE RemoverInv(p)'
  BY <1>1, <1>8 DEF RemoverInv, Provision
<1>9. ASSUME pc'[p] # "idle" PROVE CreatorInv(p)'
  BY <1>1, <1>9 DEF CreatorInv, Provision
<1>10. HoldsHost(p)' => HoldsHost(p) \/ HostLockFree
  BY <1>1 DEF CallInv, TypeOK, Provision
<1>11. \A i \in Images : HoldsTemplate(p, i)' => HoldsTemplate(p, i) \/ TemplateLockFree(i)
  BY <1>1 DEF CallInv, TypeOK, Provision
<1>12. QED
  BY <1>2, <1>3, <1>4, <1>5, <1>6, <1>7, <1>8, <1>9, <1>10, <1>11, Assembled

(* A failed build publishes nothing. *)
LEMMA KeepsFailBuild ==
  ASSUME TypeOK, IInv, NEW p \in Procs, FailBuild(p)
  PROVE  TypeOK' /\ IInv'
<1>1. CallInv(p) /\ BuilderInv(p) /\ RemoverInv(p) /\ CreatorInv(p)
  BY DEF IInv, ProcInv
<1>2. TypeOK'
  BY <1>1 DEF TypeOK, CallInv, FailBuild, Stopped
<1>3. Footprint(p)
  BY <1>1 DEF Footprint, BuildFootprint, TypeOK, FailBuild, Stopped
<1>4. RegisteredHasManifest' /\ RegisteredIsSealed'
  BY <1>1 DEF IInv, RegisteredHasManifest, RegisteredIsSealed, TypeOK,
       FailBuild, Stopped
<1>5. IntentHasTemplate'
  BY <1>1 DEF IInv, IntentHasTemplate, TypeOK, FailBuild, Stopped
<1>6. ASSUME pc'[p] # "idle" PROVE CallInv(p)'
  BY <1>1, <1>6 DEF TypeOK, FailBuild
<1>7. ASSUME pc'[p] # "idle" PROVE BuilderInv(p)'
  BY <1>1, <1>7 DEF BuilderInv, FailBuild
<1>8. ASSUME pc'[p] # "idle" PROVE RemoverInv(p)'
  BY <1>1, <1>8 DEF RemoverInv, FailBuild
<1>9. ASSUME pc'[p] # "idle" PROVE CreatorInv(p)'
  BY <1>1, <1>9 DEF CreatorInv, FailBuild
<1>10. HoldsHost(p)' => HoldsHost(p) \/ HostLockFree
  BY <1>1 DEF CallInv, TypeOK, FailBuild, Stopped
<1>11. \A i \in Images : HoldsTemplate(p, i)' => HoldsTemplate(p, i) \/ TemplateLockFree(i)
  BY <1>1 DEF CallInv, TypeOK, FailBuild, Stopped
<1>12. QED
  BY <1>2, <1>3, <1>4, <1>5, <1>6, <1>7, <1>8, <1>9, <1>10, <1>11, Assembled

(* The build's machine is stopped before it is described. *)
LEMMA KeepsStopMachine ==
  ASSUME TypeOK, IInv, NEW p \in Procs, StopMachine(p)
  PROVE  TypeOK' /\ IInv'
<1>1. CallInv(p) /\ BuilderInv(p) /\ RemoverInv(p) /\ CreatorInv(p)
  BY DEF IInv, ProcInv
<1>2. TypeOK'
  BY <1>1 DEF TypeOK, CallInv, StopMachine, Stopped
<1>3. Footprint(p)
  BY <1>1 DEF Footprint, BuildFootprint, TypeOK, StopMachine, Stopped
<1>4. RegisteredHasManifest' /\ RegisteredIsSealed'
  BY <1>1 DEF IInv, RegisteredHasManifest, RegisteredIsSealed, TypeOK,
       StopMachine, Stopped
<1>5. IntentHasTemplate'
  BY <1>1 DEF IInv, IntentHasTemplate, TypeOK, StopMachine, Stopped
<1>6. ASSUME pc'[p] # "idle" PROVE CallInv(p)'
  BY <1>1, <1>6 DEF CallInv, TypeOK, StopMachine, Stopped
<1>7. ASSUME pc'[p] # "idle" PROVE BuilderInv(p)'
  BY <1>1, <1>7 DEF BuilderInv, TypeOK, StopMachine
<1>8. ASSUME pc'[p] # "idle" PROVE RemoverInv(p)'
  BY <1>1, <1>8 DEF RemoverInv, StopMachine
<1>9. ASSUME pc'[p] # "idle" PROVE CreatorInv(p)'
  BY <1>1, <1>9 DEF CreatorInv, StopMachine
<1>10. HoldsHost(p)' => HoldsHost(p) \/ HostLockFree
  BY <1>1 DEF CallInv, TypeOK, StopMachine, Stopped
<1>11. \A i \in Images : HoldsTemplate(p, i)' => HoldsTemplate(p, i) \/ TemplateLockFree(i)
  BY <1>1 DEF CallInv, TypeOK, StopMachine, Stopped
<1>12. QED
  BY <1>2, <1>3, <1>4, <1>5, <1>6, <1>7, <1>8, <1>9, <1>10, <1>11, Assembled

(* Verify writes nothing; it lets only a stopped machine pass. *)
LEMMA KeepsVerify ==
  ASSUME TypeOK, IInv, NEW p \in Procs, Verify(p)
  PROVE  TypeOK' /\ IInv'
<1>1. CallInv(p) /\ BuilderInv(p) /\ RemoverInv(p) /\ CreatorInv(p)
  BY DEF IInv, ProcInv
<1>2. TypeOK'
  BY <1>1 DEF TypeOK, CallInv, Verify
<1>3. Footprint(p)
  BY <1>1 DEF Footprint, BuildFootprint, TypeOK, Verify
<1>4. RegisteredHasManifest' /\ RegisteredIsSealed'
  BY <1>1 DEF IInv, RegisteredHasManifest, RegisteredIsSealed, Verify
<1>5. IntentHasTemplate'
  BY <1>1 DEF IInv, IntentHasTemplate, Verify
<1>6. ASSUME pc'[p] # "idle" PROVE CallInv(p)'
  BY <1>1, <1>6 DEF CallInv, IInv, LockInv, TypeOK, Verify
<1>7. ASSUME pc'[p] # "idle" PROVE BuilderInv(p)'
  BY <1>1, <1>7 DEF BuilderInv, TypeOK, Verify
<1>8. ASSUME pc'[p] # "idle" PROVE RemoverInv(p)'
  BY <1>1, <1>8 DEF RemoverInv, Verify
<1>9. ASSUME pc'[p] # "idle" PROVE CreatorInv(p)'
  BY <1>1, <1>9 DEF CreatorInv, Verify
<1>10. HoldsHost(p)' => HoldsHost(p) \/ HostLockFree
  BY <1>1 DEF CallInv, TypeOK, Verify
<1>11. \A i \in Images : HoldsTemplate(p, i)' => HoldsTemplate(p, i) \/ TemplateLockFree(i)
  BY <1>1 DEF CallInv, TypeOK, Verify
<1>12. QED
  BY <1>2, <1>3, <1>4, <1>5, <1>6, <1>7, <1>8, <1>9, <1>10, <1>11, Assembled

(* A manifest is written for a sealed, stopped machine. *)
LEMMA KeepsWriteManifest ==
  ASSUME TypeOK, IInv, NEW p \in Procs, WriteManifest(p)
  PROVE  TypeOK' /\ IInv'
<1>1. CallInv(p) /\ BuilderInv(p) /\ RemoverInv(p) /\ CreatorInv(p)
  BY DEF IInv, ProcInv
<1>2. TypeOK'
  BY <1>1 DEF TypeOK, CallInv, WriteManifest
<1>3. Footprint(p)
  BY <1>1 DEF Footprint, BuildFootprint, TypeOK, WriteManifest
<1>4. RegisteredHasManifest' /\ RegisteredIsSealed'
  BY <1>1 DEF IInv, RegisteredHasManifest, RegisteredIsSealed, BuilderInv,
       WriteManifest
<1>5. IntentHasTemplate'
  BY <1>1 DEF IInv, IntentHasTemplate, WriteManifest
<1>6. ASSUME pc'[p] # "idle" PROVE CallInv(p)'
  BY <1>1, <1>6 DEF CallInv, TypeOK, WriteManifest
<1>7. ASSUME pc'[p] # "idle" PROVE BuilderInv(p)'
  BY <1>1, <1>7 DEF BuilderInv, TypeOK, WriteManifest
<1>8. ASSUME pc'[p] # "idle" PROVE RemoverInv(p)'
  BY <1>1, <1>8 DEF RemoverInv, TypeOK, WriteManifest
<1>9. ASSUME pc'[p] # "idle" PROVE CreatorInv(p)'
  BY <1>1, <1>9 DEF CreatorInv, TypeOK, WriteManifest
<1>10. HoldsHost(p)' => HoldsHost(p) \/ HostLockFree
  BY <1>1 DEF CallInv, TypeOK, WriteManifest
<1>11. \A i \in Images : HoldsTemplate(p, i)' => HoldsTemplate(p, i) \/ TemplateLockFree(i)
  BY <1>1 DEF CallInv, TypeOK, WriteManifest
<1>12. QED
  BY <1>2, <1>3, <1>4, <1>5, <1>6, <1>7, <1>8, <1>9, <1>10, <1>11, Assembled

(* The configuration lock excludes. *)
LEMMA KeepsLockHost ==
  ASSUME TypeOK, IInv, NEW p \in Procs, LockHost(p)
  PROVE  TypeOK' /\ IInv'
<1>1. CallInv(p) /\ BuilderInv(p) /\ RemoverInv(p) /\ CreatorInv(p)
  BY DEF IInv, ProcInv
<1>2. TypeOK'
  BY <1>1 DEF TypeOK, CallInv, LockHost, HostLockFree
<1>3. Footprint(p)
  BY <1>1 DEF Footprint, BuildFootprint, RemoveFootprint, CallInv, TypeOK,
       LockHost
<1>4. RegisteredHasManifest' /\ RegisteredIsSealed'
  BY <1>1 DEF IInv, RegisteredHasManifest, RegisteredIsSealed, LockHost
<1>5. IntentHasTemplate'
  BY <1>1 DEF IInv, IntentHasTemplate, LockHost
<1>6. ASSUME pc'[p] # "idle" PROVE CallInv(p)'
  BY <1>1, <1>6 DEF CallInv, LockHost
<1>7. ASSUME pc'[p] # "idle" PROVE BuilderInv(p)'
  BY <1>1, <1>7 DEF BuilderInv, LockHost
<1>8. ASSUME pc'[p] # "idle" PROVE RemoverInv(p)'
  BY <1>1, <1>8 DEF RemoverInv, LockHost
<1>9. ASSUME pc'[p] # "idle" PROVE CreatorInv(p)'
  BY <1>1, <1>9 DEF CreatorInv, LockHost
<1>10. HoldsHost(p)' => HoldsHost(p) \/ HostLockFree
  BY <1>1 DEF CallInv, TypeOK, LockHost, HostLockFree
<1>11. \A i \in Images : HoldsTemplate(p, i)' => HoldsTemplate(p, i) \/ TemplateLockFree(i)
  BY <1>1 DEF CallInv, TypeOK, LockHost, HostLockFree
<1>12. QED
  BY <1>2, <1>3, <1>4, <1>5, <1>6, <1>7, <1>8, <1>9, <1>10, <1>11, Assembled

(* Under the lock the copy is the file. *)
LEMMA KeepsReadHost ==
  ASSUME TypeOK, IInv, NEW p \in Procs, ReadHost(p)
  PROVE  TypeOK' /\ IInv'
<1>1. CallInv(p) /\ BuilderInv(p) /\ RemoverInv(p) /\ CreatorInv(p)
  BY DEF IInv, ProcInv
<1>2. TypeOK'
  BY <1>1 DEF TypeOK, CallInv, ReadHost
<1>3. Footprint(p)
  BY <1>1 DEF Footprint, BuildFootprint, RemoveFootprint, CallInv, TypeOK,
       ReadHost
<1>4. RegisteredHasManifest' /\ RegisteredIsSealed'
  BY <1>1 DEF IInv, RegisteredHasManifest, RegisteredIsSealed, ReadHost
<1>5. IntentHasTemplate'
  BY <1>1 DEF IInv, IntentHasTemplate, ReadHost
<1>6. ASSUME pc'[p] # "idle" PROVE CallInv(p)'
  <2>1. /\ call' = [call EXCEPT ![p] = Call(call[p].op, call[p].image, call[p].runner, host)]
        /\ pc' = [pc EXCEPT ![p] = "hostWrite"]
        /\ call[p].op = "remove" => call[p].image \in host
        /\ pc[p] = "hostRead"
        /\ UNCHANGED imageVars
    BY <1>6 DEF ReadHost, TypeOK
  <2>2. /\ call'[p].op = call[p].op /\ call'[p].image = call[p].image
        /\ call'[p].runner = call[p].runner /\ call'[p].host = host
        /\ pc'[p] = "hostWrite"
    BY <2>1 DEF TypeOK
  <2>3. \A i \in host : template[i] # "none"
    BY DEF IInv, RegisteredHasManifest, RegisteredIsSealed
  <2>4. QED
    BY <1>1, <2>1, <2>2, <2>3 DEF CallInv, TypeOK
<1>7. ASSUME pc'[p] # "idle" PROVE BuilderInv(p)'
  BY <1>1, <1>7 DEF BuilderInv, TypeOK, ReadHost
<1>8. ASSUME pc'[p] # "idle" PROVE RemoverInv(p)'
  BY <1>1, <1>8 DEF RemoverInv, TypeOK, ReadHost
<1>9. ASSUME pc'[p] # "idle" PROVE CreatorInv(p)'
  BY <1>1, <1>9 DEF CreatorInv, TypeOK, ReadHost
<1>10. HoldsHost(p)' => HoldsHost(p) \/ HostLockFree
  BY <1>1 DEF CallInv, TypeOK, ReadHost
<1>11. \A i \in Images : HoldsTemplate(p, i)' => HoldsTemplate(p, i) \/ TemplateLockFree(i)
  BY <1>1 DEF CallInv, TypeOK, ReadHost
<1>12. QED
  BY <1>2, <1>3, <1>4, <1>5, <1>6, <1>7, <1>8, <1>9, <1>10, <1>11, Assembled

(* What is published has its manifest; a removed image is gone. *)
LEMMA KeepsWriteHost ==
  ASSUME TypeOK, IInv, NEW p \in Procs, WriteHost(p)
  PROVE  TypeOK' /\ IInv'
<1>1. CallInv(p) /\ BuilderInv(p) /\ RemoverInv(p) /\ CreatorInv(p)
  BY DEF IInv, ProcInv
<1>2. TypeOK'
  BY <1>1 DEF TypeOK, CallInv, WriteHost, Updated
<1>3. Footprint(p)
  BY <1>1 DEF Footprint, BuildFootprint, RemoveFootprint, CallInv, TypeOK,
       WriteHost, Updated
<1>4. RegisteredHasManifest' /\ RegisteredIsSealed'
  BY <1>1 DEF IInv, RegisteredHasManifest, RegisteredIsSealed, WriteHost
<1>5. IntentHasTemplate'
  BY <1>1 DEF IInv, IntentHasTemplate, WriteHost
<1>6. ASSUME pc'[p] # "idle" PROVE CallInv(p)'
  BY <1>1, <1>6 DEF CallInv, TypeOK, WriteHost
<1>7. ASSUME pc'[p] # "idle" PROVE BuilderInv(p)'
  BY <1>1, <1>7 DEF BuilderInv, TypeOK, WriteHost
<1>8. ASSUME pc'[p] # "idle" PROVE RemoverInv(p)'
  BY <1>1, <1>8 DEF RemoverInv, TypeOK, WriteHost, Updated
<1>9. ASSUME pc'[p] # "idle" PROVE CreatorInv(p)'
  BY <1>1, <1>9 DEF CreatorInv, TypeOK, WriteHost
<1>10. HoldsHost(p)' => HoldsHost(p) \/ HostLockFree
  BY <1>1 DEF CallInv, TypeOK, WriteHost, Updated
<1>11. \A i \in Images : HoldsTemplate(p, i)' => HoldsTemplate(p, i) \/ TemplateLockFree(i)
  BY <1>1 DEF CallInv, TypeOK, WriteHost, Updated
<1>12. QED
  BY <1>2, <1>3, <1>4, <1>5, <1>6, <1>7, <1>8, <1>9, <1>10, <1>11, Assembled

(* The template lock excludes. *)
LEMMA KeepsLockTemplate ==
  ASSUME TypeOK, IInv, NEW p \in Procs, LockTemplate(p)
  PROVE  TypeOK' /\ IInv'
<1>1. CallInv(p) /\ BuilderInv(p) /\ RemoverInv(p) /\ CreatorInv(p)
  BY DEF IInv, ProcInv
<1>2. TypeOK'
  BY <1>1 DEF TypeOK, LockTemplate
<1>3. Footprint(p)
  BY <1>1 DEF Footprint, RemoveFootprint, CreateFootprint, CallInv, TypeOK,
       LockTemplate
<1>4. RegisteredHasManifest' /\ RegisteredIsSealed'
  BY <1>1 DEF IInv, RegisteredHasManifest, RegisteredIsSealed, LockTemplate
<1>5. IntentHasTemplate'
  BY <1>1 DEF IInv, IntentHasTemplate, LockTemplate
<1>6. ASSUME pc'[p] # "idle" PROVE CallInv(p)'
  BY <1>1, <1>6 DEF CallInv, TypeOK, LockTemplate
<1>7. ASSUME pc'[p] # "idle" PROVE BuilderInv(p)'
  BY <1>1, <1>7 DEF BuilderInv, TypeOK, LockTemplate
<1>8. ASSUME pc'[p] # "idle" PROVE RemoverInv(p)'
  BY <1>1, <1>8 DEF RemoverInv, TypeOK, LockTemplate
<1>9. ASSUME pc'[p] # "idle" PROVE CreatorInv(p)'
  BY <1>1, <1>9 DEF CreatorInv, TypeOK, LockTemplate
<1>10. HoldsHost(p)' => HoldsHost(p) \/ HostLockFree
  BY <1>1 DEF TypeOK, LockTemplate
<1>11. \A i \in Images : HoldsTemplate(p, i)' => HoldsTemplate(p, i) \/ TemplateLockFree(i)
  BY <1>1 DEF TypeOK, LockTemplate
<1>12. QED
  BY <1>2, <1>3, <1>4, <1>5, <1>6, <1>7, <1>8, <1>9, <1>10, <1>11, Assembled

(* After the drain check no intent names the image. *)
LEMMA KeepsDrain ==
  ASSUME TypeOK, IInv, NEW p \in Procs, Drain(p)
  PROVE  TypeOK' /\ IInv'
<1>1. CallInv(p) /\ BuilderInv(p) /\ RemoverInv(p) /\ CreatorInv(p)
  BY DEF IInv, ProcInv
<1>2. TypeOK'
  BY <1>1 DEF TypeOK, CallInv, Drain
<1>3. Footprint(p)
  BY <1>1 DEF Footprint, RemoveFootprint, TypeOK, Drain
<1>4. RegisteredHasManifest' /\ RegisteredIsSealed'
  BY <1>1 DEF IInv, RegisteredHasManifest, RegisteredIsSealed, Drain
<1>5. IntentHasTemplate'
  BY <1>1 DEF IInv, IntentHasTemplate, Drain
<1>6. ASSUME pc'[p] # "idle" PROVE CallInv(p)'
  BY <1>1, <1>6 DEF CallInv, IInv, LockInv, TypeOK, Drain
<1>7. ASSUME pc'[p] # "idle" PROVE BuilderInv(p)'
  BY <1>1, <1>7 DEF BuilderInv, TypeOK, Drain
<1>8. ASSUME pc'[p] # "idle" PROVE RemoverInv(p)'
  BY <1>1, <1>8 DEF RemoverInv, TypeOK, Drain
<1>9. ASSUME pc'[p] # "idle" PROVE CreatorInv(p)'
  BY <1>1, <1>9 DEF CreatorInv, TypeOK, Drain
<1>10. HoldsHost(p)' => HoldsHost(p) \/ HostLockFree
  BY <1>1 DEF CallInv, TypeOK, Drain
<1>11. \A i \in Images : HoldsTemplate(p, i)' => HoldsTemplate(p, i) \/ TemplateLockFree(i)
  BY <1>1 DEF CallInv, TypeOK, Drain
<1>12. QED
  BY <1>2, <1>3, <1>4, <1>5, <1>6, <1>7, <1>8, <1>9, <1>10, <1>11, Assembled

(* A drained template may go. *)
LEMMA KeepsDestroy ==
  ASSUME TypeOK, IInv, NEW p \in Procs, Destroy(p)
  PROVE  TypeOK' /\ IInv'
<1>1. CallInv(p) /\ BuilderInv(p) /\ RemoverInv(p) /\ CreatorInv(p)
  BY DEF IInv, ProcInv
<1>2. TypeOK'
  <2>1. template' \in {template, Destroyed(p)}
    BY DEF Destroy
  <2>2. template' \in [Images -> {"none", "running", "stopped", "deleted"}]
    BY <2>1 DEF Destroyed, TypeOK
  <2>3. \/ pc' = [pc EXCEPT ![p] = "hostLock"] /\ call' = call
        \/ /\ pc' = [pc EXCEPT ![p] = "idle"]
           /\ call' = [call EXCEPT ![p] = NoCall]
    BY DEF Destroy
  <2>4. /\ UNCHANGED <<host, manifests, ready, registryVars>>
        /\ faults' \in {faults, faults + 1} /\ faults' \in 0 .. MaxFaults
    BY DEF Destroy, TypeOK
  <2>5. pc' \in [Procs -> {"idle", "checkHost"} \cup BuildSteps
                             \cup RemoveSteps \cup CreateSteps]
    BY <2>3 DEF TypeOK
  <2>6. call' \in [Procs -> [op : {"none", "build", "remove", "create"},
                             image : Images \cup {NoImage},
                             runner : Runners \cup {NoRunner},
                             host : SUBSET Images]]
    BY <2>3 DEF TypeOK
  <2>7. QED
    BY <2>2, <2>4, <2>5, <2>6 DEF TypeOK
<1>3. Footprint(p)
  BY <1>1 DEF Footprint, RemoveFootprint, TypeOK, Destroy, Destroyed
<1>4. RegisteredHasManifest' /\ RegisteredIsSealed'
  BY <1>1 DEF IInv, RegisteredHasManifest, RegisteredIsSealed, TypeOK,
       Destroy, Destroyed
<1>5. IntentHasTemplate'
  BY <1>1 DEF IInv, IntentHasTemplate, RemoverInv, TypeOK, Destroy, Destroyed
<1>6. ASSUME pc'[p] # "idle" PROVE CallInv(p)'
  BY <1>1, <1>6 DEF CallInv, TypeOK, Destroy, Destroyed
<1>7. ASSUME pc'[p] # "idle" PROVE BuilderInv(p)'
  BY <1>1, <1>7 DEF BuilderInv, TypeOK, Destroy
<1>8. ASSUME pc'[p] # "idle" PROVE RemoverInv(p)'
  BY <1>1, <1>8 DEF CallInv, RemoverInv, TypeOK, Destroy, Destroyed
<1>9. ASSUME pc'[p] # "idle" PROVE CreatorInv(p)'
  BY <1>1, <1>9 DEF CreatorInv, TypeOK, Destroy
<1>10. HoldsHost(p)' => HoldsHost(p) \/ HostLockFree
  BY <1>1 DEF CallInv, TypeOK, Destroy, Destroyed
<1>11. \A i \in Images : HoldsTemplate(p, i)' => HoldsTemplate(p, i) \/ TemplateLockFree(i)
  BY <1>1 DEF CallInv, TypeOK, Destroy, Destroyed
<1>12. QED
  BY <1>2, <1>3, <1>4, <1>5, <1>6, <1>7, <1>8, <1>9, <1>10, <1>11, Assembled

(* Only the manifest of a deregistered image is removed. *)
LEMMA KeepsUnlink ==
  ASSUME TypeOK, IInv, NEW p \in Procs, Unlink(p)
  PROVE  TypeOK' /\ IInv'
<1>1. CallInv(p) /\ BuilderInv(p) /\ RemoverInv(p) /\ CreatorInv(p)
  BY DEF IInv, ProcInv
<1>2. TypeOK'
  BY <1>1 DEF TypeOK, CallInv, Unlink
<1>3. Footprint(p)
  BY <1>1 DEF Footprint, RemoveFootprint, TypeOK, Unlink
<1>4. RegisteredHasManifest' /\ RegisteredIsSealed'
  BY <1>1 DEF IInv, RegisteredHasManifest, RegisteredIsSealed, RemoverInv,
       Unlink
<1>5. IntentHasTemplate'
  BY <1>1 DEF IInv, IntentHasTemplate, Unlink
<1>6. ASSUME pc'[p] # "idle" PROVE CallInv(p)'
  BY <1>1, <1>6 DEF CallInv, IInv, LockInv, TypeOK, Unlink
<1>7. ASSUME pc'[p] # "idle" PROVE BuilderInv(p)'
  BY <1>1, <1>7 DEF BuilderInv, Unlink
<1>8. ASSUME pc'[p] # "idle" PROVE RemoverInv(p)'
  BY <1>1, <1>8 DEF RemoverInv, Unlink
<1>9. ASSUME pc'[p] # "idle" PROVE CreatorInv(p)'
  BY <1>1, <1>9 DEF CreatorInv, Unlink
<1>10. HoldsHost(p)' => HoldsHost(p) \/ HostLockFree
  BY <1>1 DEF CallInv, TypeOK, Unlink
<1>11. \A i \in Images : HoldsTemplate(p, i)' => HoldsTemplate(p, i) \/ TemplateLockFree(i)
  BY <1>1 DEF CallInv, TypeOK, Unlink
<1>12. QED
  BY <1>2, <1>3, <1>4, <1>5, <1>6, <1>7, <1>8, <1>9, <1>10, <1>11, Assembled

(* A reservation becomes its call's own. *)
LEMMA KeepsReserve ==
  ASSUME TypeOK, IInv, NEW p \in Procs, Reserve(p)
  PROVE  TypeOK' /\ IInv'
<1>1. CallInv(p) /\ BuilderInv(p) /\ RemoverInv(p) /\ CreatorInv(p)
  BY DEF IInv, ProcInv
<1>2. TypeOK'
  BY <1>1, SMTT(30) DEF TypeOK, CallInv, Reserve
<1>3. Footprint(p)
  <2>1. \A s \in Runners \ {call[p].runner} : records'[s] = records[s]
    BY DEF Reserve, TypeOK
  <2>2. records' = records \/ records[call[p].runner] = NoImage
    BY DEF Reserve
  <2>3. records[call[p].runner] = NoImage => call[p].runner \notin intents
    BY DEF IInv, IntentHasTemplate
  <2>4. call'[p] \in {call[p], NoCall} /\ (pc'[p] = "idle" => call'[p] = NoCall)
    BY DEF Reserve, TypeOK
  <2>5. \A q \in Procs \ {p} : pc'[q] = pc[q] /\ call'[q] = call[q]
    BY DEF Reserve, TypeOK
  <2>6. records' = records => pc'[p] = "idle"
    BY <1>1 DEF Reserve, TypeOK, CallInv
  <2>7. QED
    BY <2>1, <2>2, <2>3, <2>4, <2>5, <2>6 DEF Reserve, Footprint,
         CreateFootprint
<1>4. RegisteredHasManifest' /\ RegisteredIsSealed'
  BY <1>1 DEF IInv, RegisteredHasManifest, RegisteredIsSealed, Reserve
<1>5. IntentHasTemplate'
  BY <1>1 DEF IInv, IntentHasTemplate, TypeOK, Reserve
<1>6. ASSUME pc'[p] # "idle" PROVE CallInv(p)'
  BY <1>1, <1>6 DEF CallInv, IInv, LockInv, TypeOK, Reserve
<1>7. ASSUME pc'[p] # "idle" PROVE BuilderInv(p)'
  BY <1>1, <1>7 DEF BuilderInv, TypeOK, Reserve
<1>8. ASSUME pc'[p] # "idle" PROVE RemoverInv(p)'
  BY <1>1, <1>8 DEF RemoverInv, TypeOK, Reserve
<1>9. ASSUME pc'[p] # "idle" PROVE CreatorInv(p)'
  <2>1. /\ call' = call /\ pc' = [pc EXCEPT ![p] = "lockTemplate"]
        /\ records[call[p].runner] = NoImage
        /\ records' = [records EXCEPT ![call[p].runner] = call[p].image]
        /\ UNCHANGED <<imageVars, intents, copying>>
    BY <1>9 DEF Reserve, TypeOK
  <2>2. call[p].runner \in Runners /\ call[p].runner \notin intents
    BY <1>1, <2>1 DEF CallInv, IInv, IntentHasTemplate, Reserve
  <2>3. ASSUME NEW q \in Procs \ {p}, call[q].runner = call[p].runner
        PROVE  pc[q] \in {"checkHost", "reserve"}
    <3>1. CallInv(q) /\ CreatorInv(q)
      BY DEF IInv, ProcInv
    <3>2. QED
      BY <2>1, <2>2, <2>3, <3>1 DEF CallInv, CreatorInv
  <2>4. QED
    BY <2>1, <2>2, <2>3 DEF CreatorInv, TypeOK
<1>10. HoldsHost(p)' => HoldsHost(p) \/ HostLockFree
  BY <1>1 DEF CallInv, TypeOK, Reserve
<1>11. \A i \in Images : HoldsTemplate(p, i)' => HoldsTemplate(p, i) \/ TemplateLockFree(i)
  BY <1>1 DEF CallInv, TypeOK, Reserve
<1>12. QED
  BY <1>2, <1>3, <1>4, <1>5, <1>6, <1>7, <1>8, <1>9, <1>10, <1>11, Assembled

(* Only a stopped template passes. *)
LEMMA KeepsValidate ==
  ASSUME TypeOK, IInv, NEW p \in Procs, Validate(p)
  PROVE  TypeOK' /\ IInv'
<1>1. CallInv(p) /\ BuilderInv(p) /\ RemoverInv(p) /\ CreatorInv(p)
  BY DEF IInv, ProcInv
<1>2. TypeOK'
  BY <1>1 DEF TypeOK, CallInv, Validate
<1>3. Footprint(p)
  BY <1>1 DEF Footprint, CreateFootprint, TypeOK, Validate
<1>4. RegisteredHasManifest' /\ RegisteredIsSealed'
  BY <1>1 DEF IInv, RegisteredHasManifest, RegisteredIsSealed, Validate
<1>5. IntentHasTemplate'
  BY <1>1 DEF IInv, IntentHasTemplate, Validate
<1>6. ASSUME pc'[p] # "idle" PROVE CallInv(p)'
  BY <1>1, <1>6 DEF CallInv, IInv, LockInv, TypeOK, Validate
<1>7. ASSUME pc'[p] # "idle" PROVE BuilderInv(p)'
  BY <1>1, <1>7 DEF BuilderInv, Validate
<1>8. ASSUME pc'[p] # "idle" PROVE RemoverInv(p)'
  BY <1>1, <1>8 DEF RemoverInv, Validate
<1>9. ASSUME pc'[p] # "idle" PROVE CreatorInv(p)'
  BY <1>1, <1>9 DEF CreatorInv, TypeOK, Validate
<1>10. HoldsHost(p)' => HoldsHost(p) \/ HostLockFree
  BY <1>1 DEF CallInv, TypeOK, Validate
<1>11. \A i \in Images : HoldsTemplate(p, i)' => HoldsTemplate(p, i) \/ TemplateLockFree(i)
  BY <1>1 DEF CallInv, TypeOK, Validate
<1>12. QED
  BY <1>2, <1>3, <1>4, <1>5, <1>6, <1>7, <1>8, <1>9, <1>10, <1>11, Assembled

(* An undone reservation has no intent. *)
LEMMA KeepsUndo ==
  ASSUME TypeOK, IInv, NEW p \in Procs, Undo(p)
  PROVE  TypeOK' /\ IInv'
<1>1. CallInv(p) /\ BuilderInv(p) /\ RemoverInv(p) /\ CreatorInv(p)
  BY DEF IInv, ProcInv
<1>2. TypeOK'
  BY <1>1 DEF TypeOK, CallInv, Undo
<1>3. Footprint(p)
  BY <1>1 DEF Footprint, CreateFootprint, CreatorInv, TypeOK, Undo
<1>4. RegisteredHasManifest' /\ RegisteredIsSealed'
  BY <1>1 DEF IInv, RegisteredHasManifest, RegisteredIsSealed, Undo
<1>5. IntentHasTemplate'
  BY <1>1 DEF IInv, IntentHasTemplate, CreatorInv, TypeOK, Undo
<1>6. ASSUME pc'[p] # "idle" PROVE CallInv(p)'
  BY <1>1, <1>6 DEF CallInv, IInv, LockInv, TypeOK, Undo
<1>7. ASSUME pc'[p] # "idle" PROVE BuilderInv(p)'
  BY <1>1, <1>7 DEF BuilderInv, Undo
<1>8. ASSUME pc'[p] # "idle" PROVE RemoverInv(p)'
  BY <1>1, <1>8 DEF RemoverInv, Undo
<1>9. ASSUME pc'[p] # "idle" PROVE CreatorInv(p)'
  BY <1>1, <1>9 DEF TypeOK, Undo
<1>10. HoldsHost(p)' => HoldsHost(p) \/ HostLockFree
  BY <1>1 DEF CallInv, TypeOK, Undo
<1>11. \A i \in Images : HoldsTemplate(p, i)' => HoldsTemplate(p, i) \/ TemplateLockFree(i)
  BY <1>1 DEF CallInv, TypeOK, Undo
<1>12. QED
  BY <1>2, <1>3, <1>4, <1>5, <1>6, <1>7, <1>8, <1>9, <1>10, <1>11, Assembled

(* An intent is marked while the template is locked and stopped. *)
LEMMA KeepsMark ==
  ASSUME TypeOK, IInv, NEW p \in Procs, Mark(p)
  PROVE  TypeOK' /\ IInv'
<1>1. CallInv(p) /\ BuilderInv(p) /\ RemoverInv(p) /\ CreatorInv(p)
  BY DEF IInv, ProcInv
<1>2. TypeOK'
  BY <1>1 DEF TypeOK, CallInv, Mark
<1>3. Footprint(p)
  BY <1>1 DEF Footprint, CreateFootprint, TypeOK, Mark
<1>4. RegisteredHasManifest' /\ RegisteredIsSealed'
  BY <1>1 DEF IInv, RegisteredHasManifest, RegisteredIsSealed, Mark
<1>5. IntentHasTemplate'
  BY <1>1 DEF IInv, IntentHasTemplate, CallInv, CreatorInv, Mark
<1>6. ASSUME pc'[p] # "idle" PROVE CallInv(p)'
  BY <1>1, <1>6 DEF CallInv, IInv, LockInv, TypeOK, Mark
<1>7. ASSUME pc'[p] # "idle" PROVE BuilderInv(p)'
  BY <1>1, <1>7 DEF BuilderInv, TypeOK, Mark
<1>8. ASSUME pc'[p] # "idle" PROVE RemoverInv(p)'
  BY <1>1, <1>8 DEF RemoverInv, TypeOK, Mark
<1>9. ASSUME pc'[p] # "idle" PROVE CreatorInv(p)'
  BY <1>1, <1>9 DEF CreatorInv, IInv, IntentHasTemplate, TypeOK, Mark
<1>10. HoldsHost(p)' => HoldsHost(p) \/ HostLockFree
  BY <1>1 DEF CallInv, TypeOK, Mark
<1>11. \A i \in Images : HoldsTemplate(p, i)' => HoldsTemplate(p, i) \/ TemplateLockFree(i)
  BY <1>1 DEF CallInv, TypeOK, Mark
<1>12. QED
  BY <1>2, <1>3, <1>4, <1>5, <1>6, <1>7, <1>8, <1>9, <1>10, <1>11, Assembled

(* A copy starts under its intent. *)
LEMMA KeepsSpawn ==
  ASSUME TypeOK, IInv, NEW p \in Procs, Spawn(p)
  PROVE  TypeOK' /\ IInv'
<1>1. CallInv(p) /\ BuilderInv(p) /\ RemoverInv(p) /\ CreatorInv(p)
  BY DEF IInv, ProcInv
<1>2. TypeOK'
  BY <1>1 DEF TypeOK, CallInv, Spawn
<1>3. Footprint(p)
  BY <1>1 DEF Footprint, CreateFootprint, TypeOK, Spawn
<1>4. RegisteredHasManifest' /\ RegisteredIsSealed'
  BY <1>1 DEF IInv, RegisteredHasManifest, RegisteredIsSealed, Spawn
<1>5. IntentHasTemplate'
  BY <1>1 DEF IInv, IntentHasTemplate, CreatorInv, Spawn
<1>6. ASSUME pc'[p] # "idle" PROVE CallInv(p)'
  BY <1>1, <1>6 DEF CallInv, IInv, LockInv, TypeOK, Spawn
<1>7. ASSUME pc'[p] # "idle" PROVE BuilderInv(p)'
  BY <1>1, <1>7 DEF BuilderInv, TypeOK, Spawn
<1>8. ASSUME pc'[p] # "idle" PROVE RemoverInv(p)'
  BY <1>1, <1>8 DEF RemoverInv, TypeOK, Spawn
<1>9. ASSUME pc'[p] # "idle" PROVE CreatorInv(p)'
  BY <1>1, <1>9 DEF CreatorInv, TypeOK, Spawn
<1>10. HoldsHost(p)' => HoldsHost(p) \/ HostLockFree
  BY <1>1 DEF CallInv, TypeOK, Spawn
<1>11. \A i \in Images : HoldsTemplate(p, i)' => HoldsTemplate(p, i) \/ TemplateLockFree(i)
  BY <1>1 DEF CallInv, TypeOK, Spawn
<1>12. QED
  BY <1>2, <1>3, <1>4, <1>5, <1>6, <1>7, <1>8, <1>9, <1>10, <1>11, Assembled

(* An intent is cleared when its copy has ended. *)
LEMMA KeepsWait ==
  ASSUME TypeOK, IInv, NEW p \in Procs, Wait(p)
  PROVE  TypeOK' /\ IInv'
<1>1. CallInv(p) /\ BuilderInv(p) /\ RemoverInv(p) /\ CreatorInv(p)
  BY DEF IInv, ProcInv
<1>2. TypeOK'
  BY <1>1 DEF TypeOK, CallInv, Wait
<1>3. Footprint(p)
  BY <1>1 DEF Footprint, CreateFootprint, TypeOK, Wait
<1>4. RegisteredHasManifest' /\ RegisteredIsSealed'
  BY <1>1 DEF IInv, RegisteredHasManifest, RegisteredIsSealed, Wait
<1>5. IntentHasTemplate'
  BY <1>1 DEF IInv, IntentHasTemplate, Wait
<1>6. ASSUME pc'[p] # "idle" PROVE CallInv(p)'
  BY <1>1, <1>6 DEF CallInv, IInv, LockInv, TypeOK, Wait
<1>7. ASSUME pc'[p] # "idle" PROVE BuilderInv(p)'
  BY <1>1, <1>7 DEF BuilderInv, Wait
<1>8. ASSUME pc'[p] # "idle" PROVE RemoverInv(p)'
  BY <1>1, <1>8 DEF RemoverInv, Wait
<1>9. ASSUME pc'[p] # "idle" PROVE CreatorInv(p)'
  BY <1>1, <1>9 DEF TypeOK, Wait
<1>10. HoldsHost(p)' => HoldsHost(p) \/ HostLockFree
  BY <1>1 DEF CallInv, TypeOK, Wait
<1>11. \A i \in Images : HoldsTemplate(p, i)' => HoldsTemplate(p, i) \/ TemplateLockFree(i)
  BY <1>1 DEF CallInv, TypeOK, Wait
<1>12. QED
  BY <1>2, <1>3, <1>4, <1>5, <1>6, <1>7, <1>8, <1>9, <1>10, <1>11, Assembled

(* A process that dies keeps nothing. *)
LEMMA KeepsKillProc ==
  ASSUME TypeOK, IInv, NEW p \in Procs, KillProc(p)
  PROVE  TypeOK' /\ IInv'
<1>1. CallInv(p) /\ BuilderInv(p) /\ RemoverInv(p) /\ CreatorInv(p)
  BY DEF IInv, ProcInv
<1>2. TypeOK'
  BY <1>1 DEF TypeOK, CallInv, KillProc, Active
<1>3. Footprint(p)
  BY <1>1 DEF Footprint, BuildFootprint, RemoveFootprint, CreateFootprint,
       CallInv, TypeOK, KillProc, Active
<1>4. RegisteredHasManifest' /\ RegisteredIsSealed'
  BY <1>1 DEF IInv, RegisteredHasManifest, RegisteredIsSealed, KillProc
<1>5. IntentHasTemplate'
  BY <1>1 DEF IInv, IntentHasTemplate, KillProc
<1>6. ASSUME pc'[p] # "idle" PROVE CallInv(p)'
  BY <1>1, <1>6 DEF TypeOK, KillProc
<1>7. ASSUME pc'[p] # "idle" PROVE BuilderInv(p)'
  BY <1>1, <1>7 DEF BuilderInv, KillProc
<1>8. ASSUME pc'[p] # "idle" PROVE RemoverInv(p)'
  BY <1>1, <1>8 DEF RemoverInv, KillProc
<1>9. ASSUME pc'[p] # "idle" PROVE CreatorInv(p)'
  BY <1>1, <1>9 DEF CreatorInv, KillProc
<1>10. HoldsHost(p)' => HoldsHost(p) \/ HostLockFree
  BY <1>1 DEF CallInv, TypeOK, KillProc, Active
<1>11. \A i \in Images : HoldsTemplate(p, i)' => HoldsTemplate(p, i) \/ TemplateLockFree(i)
  BY <1>1 DEF CallInv, TypeOK, KillProc, Active
<1>12. QED
  BY <1>2, <1>3, <1>4, <1>5, <1>6, <1>7, <1>8, <1>9, <1>10, <1>11, Assembled

(* A new call knows the registered images and nothing else; a Build's image *)
(* is unknown to all others.                                                *)
LEMMA KeepsCall ==
  ASSUME TypeOK, IInv, NEW p \in Procs, NEW o \in {"build", "remove", "create"},
         NEW i \in Images, NEW r \in Runners \cup {NoRunner},
         LoadHost(p, o, i, r),
         o = "create" <=> r \in Runners,
         o = "build" => template[i] = "none" /\ \A q \in Procs : call[q].image # i
  PROVE  TypeOK' /\ IInv'
<1>1. \A q \in Procs : CallInv(q) /\ BuilderInv(q) /\ RemoverInv(q) /\ CreatorInv(q)
  BY DEF IInv, ProcInv
<1>2. /\ pc' = [pc EXCEPT ![p] = "checkHost"]
      /\ call' = [call EXCEPT ![p] = Call(o, i, r, host)]
      /\ UNCHANGED <<imageVars, registryVars, faults>>
  BY DEF LoadHost
<1>3. TypeOK'
  BY <1>2 DEF TypeOK
<1>4. RegisteredHasManifest' /\ RegisteredIsSealed' /\ IntentHasTemplate'
  BY <1>2 DEF IInv, RegisteredHasManifest, RegisteredIsSealed,
       IntentHasTemplate
<1>5. /\ pc'[p] = "checkHost" /\ call'[p] = Call(o, i, r, host)
      /\ \A q \in Procs \ {p} : pc'[q] = pc[q] /\ call'[q] = call[q]
  BY <1>2 DEF TypeOK
<1>6. LockInv'
  BY <1>5 DEF IInv, LockInv
<1>7. \A j \in host : template[j] # "none"
  BY DEF IInv, RegisteredHasManifest, RegisteredIsSealed
<1>8. ASSUME NEW q \in Procs \ {p}
      PROVE  CallInv(q)' /\ RemoverInv(q)' /\ CreatorInv(q)'
  <2>1. CallInv(q)'
    BY <1>1, <1>2, <1>5, SMTT(30) DEF CallInv
  <2>2. RemoverInv(q)'
    BY <1>1, <1>2, <1>5 DEF RemoverInv
  <2>3. CreatorInv(q)'
    BY <1>1, <1>2, <1>5 DEF CreatorInv
  <2>4. QED
    BY <2>1, <2>2, <2>3
<1>9. ASSUME NEW q \in Procs \ {p}
      PROVE  BuilderInv(q)'
  <2>1. SUFFICES ASSUME call[q].op = "build"
                 PROVE  BuilderInv(q)'
    BY <1>5 DEF BuilderInv
  <2>2. BuilderInv(q)
    BY <1>1
  <2>3. \A s \in Procs : call[q].image \notin call'[s].host
    BY <1>5, <2>1, <2>2 DEF BuilderInv
  <2>4. \A s \in Procs \ {q} : call'[s].op = "build" => call'[s].image # call[q].image
    BY <1>5, <2>1, <2>2 DEF BuilderInv
  <2>5. QED
    BY <1>2, <1>5, <2>1, <2>2, <2>3, <2>4 DEF BuilderInv
<1>10. CallInv(p)' /\ RemoverInv(p)' /\ CreatorInv(p)'
  BY <1>2, <1>5, <1>7 DEF CallInv, RemoverInv, CreatorInv
<1>11. BuilderInv(p)'
  <2>1. SUFFICES ASSUME o = "build"
                 PROVE  BuilderInv(p)'
    BY <1>5 DEF BuilderInv
  <2>2. i \notin host
    BY <1>7, <2>1
  <2>3. \A s \in Procs : i \notin call'[s].host
    BY <1>1, <1>5, <2>1, <2>2 DEF CallInv
  <2>4. \A s \in Procs \ {p} : call'[s].image # i
    BY <1>5, <2>1
  <2>5. QED
    BY <1>2, <1>5, <2>1, <2>2, <2>3, <2>4 DEF BuilderInv
<1>12. QED
  BY <1>3, <1>4, <1>6, <1>8, <1>9, <1>10, <1>11 DEF IInv, ProcInv

(* The end of a copy only takes its runner out of copying. *)
LEMMA KeepsCopyEnds ==
  ASSUME TypeOK, IInv, NEW r \in Runners, CopyEnds(r)
  PROVE  TypeOK' /\ IInv'
<1>1. TypeOK'
  BY DEF TypeOK, CopyEnds
<1>2. RegisteredHasManifest' /\ RegisteredIsSealed' /\ IntentHasTemplate' /\ LockInv'
  BY DEF IInv, CopyEnds, RegisteredHasManifest, RegisteredIsSealed,
         IntentHasTemplate, LockInv
<1>3. ASSUME NEW q \in Procs
      PROVE  CallInv(q)' /\ BuilderInv(q)' /\ RemoverInv(q)' /\ CreatorInv(q)'
  <2>1. CallInv(q) /\ BuilderInv(q) /\ RemoverInv(q) /\ CreatorInv(q)
    BY DEF IInv, ProcInv
  <2>2. CallInv(q)' /\ BuilderInv(q)'
    BY <2>1 DEF CallInv, BuilderInv, CopyEnds
  <2>3. RemoverInv(q)' /\ CreatorInv(q)'
    BY <2>1 DEF RemoverInv, CreatorInv, CopyEnds
  <2>4. QED
    BY <2>2, <2>3
<1>4. QED
  BY <1>1, <1>2, <1>3 DEF IInv, ProcInv

(* The intents become fewer, of runners no call is working on. *)
LEMMA KeepsClearIntent ==
  ASSUME TypeOK, IInv, NEW r \in Runners, ClearIntent(r)
  PROVE  TypeOK' /\ IInv'
<1>1. TypeOK'
  BY DEF TypeOK, ClearIntent
<1>2. /\ intents' = intents \ {r}
      /\ r \notin copying
      /\ UNCHANGED <<imageVars, records, copying, pc, call>>
  BY DEF ClearIntent
<1>3. RegisteredHasManifest' /\ RegisteredIsSealed' /\ LockInv'
  BY <1>2 DEF IInv, RegisteredHasManifest, RegisteredIsSealed, LockInv
<1>4. IntentHasTemplate'
  BY <1>2 DEF IInv, IntentHasTemplate
<1>5. ASSUME NEW q \in Procs
      PROVE  CallInv(q)' /\ BuilderInv(q)' /\ RemoverInv(q)' /\ CreatorInv(q)'
  <2>1. CallInv(q) /\ BuilderInv(q) /\ RemoverInv(q) /\ CreatorInv(q)
    BY DEF IInv, ProcInv
  <2>2. CallInv(q)' /\ BuilderInv(q)'
    BY <1>2, <2>1 DEF CallInv, BuilderInv
  <2>3. RemoverInv(q)'
    BY <1>2, <2>1 DEF RemoverInv
  <2>4. CreatorInv(q)'
    <3>1. call[q].op = "create" /\ pc[q] \in CreateSteps \ {"reserve"}
            => call[q].runner # r
      BY DEF ClearIntent, InstanceLockFree, CreateSteps, CloneSteps
    <3>2. QED
      BY <1>2, <2>1, <3>1 DEF CreatorInv
  <2>5. QED
    BY <2>2, <2>3, <2>4
<1>6. QED
  BY <1>1, <1>3, <1>4, <1>5 DEF IInv, ProcInv

(* A record goes with its intent, and no call is using it. *)
LEMMA KeepsRemoveRecord ==
  ASSUME TypeOK, IInv, NEW r \in Runners, RemoveRecord(r)
  PROVE  TypeOK' /\ IInv'
<1>1. TypeOK'
  BY DEF TypeOK, RemoveRecord
<1>2. /\ \A s \in Runners \ {r} : records'[s] = records[s]
      /\ intents' = intents \ {r}
      /\ r \notin copying
      /\ UNCHANGED <<imageVars, copying, pc, call>>
  BY DEF RemoveRecord, TypeOK
<1>3. RegisteredHasManifest' /\ RegisteredIsSealed' /\ LockInv'
  BY <1>2 DEF IInv, RegisteredHasManifest, RegisteredIsSealed, LockInv
<1>4. IntentHasTemplate'
  BY <1>2 DEF IInv, IntentHasTemplate, TypeOK
<1>5. ASSUME NEW q \in Procs
      PROVE  CallInv(q)' /\ BuilderInv(q)' /\ RemoverInv(q)' /\ CreatorInv(q)'
  <2>1. CallInv(q) /\ BuilderInv(q) /\ RemoverInv(q) /\ CreatorInv(q)
    BY DEF IInv, ProcInv
  <2>2. CallInv(q)' /\ BuilderInv(q)'
    BY <1>2, <2>1 DEF CallInv, BuilderInv
  <2>3. RemoverInv(q)'
    BY <1>2, <2>1 DEF RemoverInv, TypeOK
  <2>4. CreatorInv(q)'
    <3>1. SUFFICES ASSUME call[q].op = "create", pc[q] \in CreateSteps \ {"reserve"}
                   PROVE  CreatorInv(q)'
      BY <1>2 DEF CreatorInv
    <3>2. call[q].runner \in Runners \ {r}
      BY <2>1, <3>1 DEF CallInv, RemoveRecord, InstanceLockFree
    <3>3. QED
      BY <1>2, <2>1, <3>1, <3>2 DEF CreatorInv
  <2>5. QED
    BY <2>2, <2>3, <2>4
<1>6. QED
  BY <1>1, <1>3, <1>4, <1>5 DEF IInv, ProcInv

(* No step, and no stuttering step, leaves the invariant. *)
LEMMA Inductive == TypeOK /\ IInv /\ [Next]_vars => TypeOK' /\ IInv'
<1>1. SUFFICES ASSUME TypeOK, IInv, [Next]_vars
               PROVE  TypeOK' /\ IInv'
  OBVIOUS
<1>2. CASE UNCHANGED vars
  BY <1>1, <1>2 DEF vars, TypeOK, IInv, RegisteredHasManifest,
       RegisteredIsSealed,
     IntentHasTemplate, LockInv, ProcInv, CallInv, BuilderInv, RemoverInv,
     CreatorInv
<1>3. ASSUME NEW p \in Procs, ProcStep(p)
      PROVE  TypeOK' /\ IInv'
  <2>1. CASE HostStep(p) \/ LockTemplate(p)
    BY <1>1, <2>1, KeepsCheckHost, KeepsLockHost, KeepsReadHost,
         KeepsWriteHost,
       KeepsLockTemplate DEF HostStep
  <2>2. CASE BuildStep(p)
    BY <1>1, <2>2, KeepsCreateMachine, KeepsIdentify, KeepsProvision,
       KeepsFailBuild, KeepsStopMachine, KeepsVerify, KeepsWriteManifest
    DEF BuildStep
  <2>3. CASE RemoveStep(p)
    BY <1>1, <2>3, KeepsDrain, KeepsDestroy, KeepsUnlink DEF RemoveStep
  <2>4. CASE CreateStep(p)
    BY <1>1, <2>4, KeepsReserve, KeepsValidate, KeepsUndo, KeepsMark,
         KeepsSpawn,
       KeepsWait DEF CreateStep
  <2>5. QED
    BY <1>3, <2>1, <2>2, <2>3, <2>4 DEF ProcStep
<1>4. ASSUME NEW p \in Procs, NEW i \in Images,
             \/ CallBuild(p, i) \/ CallRemove(p, i)
             \/ \E r \in Runners : CallCreate(p, i, r)
      PROVE  TypeOK' /\ IInv'
  BY <1>1, <1>4, KeepsCall DEF CallBuild, CallRemove, CallCreate
<1>5. ASSUME NEW r \in Runners,
             CopyEnds(r) \/ ClearIntent(r) \/ RemoveRecord(r)
      PROVE  TypeOK' /\ IInv'
  BY <1>1, <1>5, KeepsCopyEnds, KeepsClearIntent, KeepsRemoveRecord
<1>6. QED
  BY <1>1, <1>2, <1>3, <1>4, <1>5, KeepsKillProc DEF Next

(* TypeOK and IInv hold in every reachable state, for every number of       *)
(* processes, images, runners and failures.                                 *)
THEOREM TemplateInvariance == Spec => [](TypeOK /\ IInv)
BY Initial, Inductive, PTL DEF Spec

(* Every variable of the template model keeps its type. *)
THEOREM TemplateTyping == Spec => []TypeOK
BY TemplateInvariance, PTL

(* host.toml never names an image without a manifest: LoadHost never stops  *)
(* every command because of one image (config.go, validateHost).            *)
THEOREM ManifestsPresent == Spec => []RegisteredHasManifest
<1>1. IInv => RegisteredHasManifest
  BY DEF IInv
<1>2. QED
  BY <1>1, TemplateInvariance, PTL

(* Only machines that were provisioned and sealed completely are described  *)
(* by a manifest or registered (builder.go, Build).                         *)
THEOREM OnlySealed == Spec => []RegisteredIsSealed
<1>1. IInv => RegisteredIsSealed
  BY DEF IInv
<1>2. QED
  BY <1>1, TemplateInvariance, PTL

(* Remove never deletes a template that a clone may be reading (builder.go, *)
(* Remove; provider.go, clone).                                             *)
THEOREM ClonesKeepTheirTemplate == Spec => []IntentHasTemplate
<1>1. IInv => IntentHasTemplate
  BY DEF IInv
<1>2. QED
  BY <1>1, TemplateInvariance, PTL

(* host.toml only changes in WriteHost. *)
LEMMA HostWriters ==
  ASSUME TypeOK, IInv, [Next]_vars, host' # host
  PROVE  \E p \in Procs : WriteHost(p)
<1>1. ASSUME NEW p \in Procs, HostStep(p) PROVE WriteHost(p)
  BY <1>1 DEF HostStep, CheckHost, LockHost, ReadHost
<1>2. ASSUME NEW p \in Procs, BuildStep(p) PROVE FALSE
  BY <1>2 DEF BuildStep, CreateMachine, Identify, Provision, FailBuild,
       StopMachine, Verify, WriteManifest
<1>3. ASSUME NEW p \in Procs, RemoveStep(p) PROVE FALSE
  BY <1>3 DEF RemoveStep, Drain, Destroy, Unlink
<1>4. ASSUME NEW p \in Procs, CreateStep(p) PROVE FALSE
  BY <1>4 DEF CreateStep, Reserve, Validate, Undo, Mark, Spawn, Wait
<1>5. ASSUME NEW p \in Procs, LockTemplate(p) \/ KillProc(p) PROVE FALSE
  BY <1>5 DEF LockTemplate, KillProc
<1>6. ASSUME NEW p \in Procs, NEW i \in Images,
             \/ CallBuild(p, i) \/ CallRemove(p, i)
             \/ \E r \in Runners : CallCreate(p, i, r)
      PROVE  FALSE
  BY <1>6 DEF CallBuild, CallRemove, CallCreate, LoadHost
<1>7. ASSUME NEW r \in Runners,
             CopyEnds(r) \/ ClearIntent(r) \/ RemoveRecord(r)
      PROVE  FALSE
  BY <1>7 DEF CopyEnds, ClearIntent, RemoveRecord
<1>8. QED
  BY <1>1, <1>2, <1>3, <1>4, <1>5, <1>6, <1>7 DEF Next, vars, ProcStep

(* What WriteHost publishes differs from the file in its own image alone. *)
LEMMA WritesItsImage ==
  ASSUME TypeOK, IInv, NEW p \in Procs, WriteHost(p)
  PROVE  /\ host' \subseteq host \cup {call[p].image}
         /\ host \ host' \subseteq {call[p].image}
         /\ host \ host' # {} => template[call[p].image] = "deleted"
<1>1. CallInv(p) /\ RemoverInv(p)
  BY DEF IInv, ProcInv
<1>2. call[p].host = host /\ call[p].op \in {"build", "remove"}
  BY <1>1 DEF WriteHost, CallInv, TypeOK
<1>3. host' \in {host, Updated(p)}
  BY DEF WriteHost
<1>4. QED
  BY <1>1, <1>2, <1>3 DEF WriteHost, Updated, RemoverInv

(* Concurrent builds and removals lose no update of host.toml (config.go,   *)
(* UpdateHost).                                                             *)
THEOREM NoLostUpdate == Spec => OneImageAtATime
<1>1. TypeOK /\ IInv /\ [Next]_vars =>
        [\A i \in Images : (i \in host) # (i \in host') =>
            \E p \in Procs : HoldsHost(p) /\ call[p].image = i]_vars
  <2>1. SUFFICES ASSUME TypeOK, IInv, [Next]_vars, NEW i \in Images,
                        (i \in host) # (i \in host')
                 PROVE  \E p \in Procs : HoldsHost(p) /\ call[p].image = i
    OBVIOUS
  <2>2. PICK p \in Procs : WriteHost(p)
    BY <2>1, HostWriters
  <2>3. call[p].image = i
    BY <2>1, <2>2, WritesItsImage
  <2>4. HoldsHost(p)
    BY <2>2 DEF WriteHost
  <2>5. QED
    BY <2>3, <2>4
<1>2. QED
  BY <1>1, TemplateInvariance, PTL DEF Spec, OneImageAtATime

(* A registration is only given up when its machine is gone (builder.go,    *)
(* Remove).                                                                 *)
THEOREM MachineGoesFirst == Spec => DeregisteredLast
<1>1. TypeOK /\ IInv /\ [Next]_vars =>
        [\A i \in host \ host' : template[i] = "deleted"]_vars
  <2>1. SUFFICES ASSUME TypeOK, IInv, [Next]_vars, NEW i \in host \ host'
                 PROVE  template[i] = "deleted"
    OBVIOUS
  <2>2. PICK p \in Procs : WriteHost(p)
    BY <2>1, HostWriters
  <2>3. QED
    BY <2>1, <2>2, WritesItsImage
<1>2. QED
  BY <1>1, TemplateInvariance, PTL DEF Spec, DeregisteredLast

-----------------------------------------------------------------------------
(* The contract with the lifecycle, image by image.                         *)

Held(i) == \E p \in Procs : /\ call[p].op = "create"
                            /\ call[p].image = i
                            /\ pc[p] \in CloneSteps

(* A step that does nothing to the runners of an image is allowed.          *)
LEMMA ContractQuiet ==
  ASSUME NEW i \in Images,
         UNCHANGED <<Of(i, Runners), Of(i, intents), Of(i, copying)>>
  PROVE  [Window(i)!Next]_(Window(i)!vars)
<1>1. CASE Held(i)' = Held(i)
  BY <1>1 DEF Held, Window!vars
<1>2. CASE Held(i) /\ ~Held(i)'
  BY <1>2 DEF Held, Window!Next, Window!Give
<1>3. CASE ~Held(i) /\ Held(i)'
  BY <1>3 DEF Held, Window!Next, Window!Take
<1>4. QED
  BY <1>1, <1>2, <1>3 DEF Held

(* A step on one runner is nobody's business but that of its image.         *)
LEMMA ContractElsewhere ==
  ASSUME TypeOK, NEW i \in Images, NEW r \in Runners,
         records[r] # i, records'[r] # i,
         \A s \in Runners \ {r} :
            /\ records'[s] = records[s]
            /\ s \in intents' <=> s \in intents
            /\ s \in copying' <=> s \in copying,
         TypeOK'
  PROVE  [Window(i)!Next]_(Window(i)!vars)
<1>1. UNCHANGED <<Of(i, Runners), Of(i, intents), Of(i, copying)>>
  BY DEF Of, TypeOK
<1>2. QED
  BY <1>1, ContractQuiet

LEMMA ContractReserve ==
  ASSUME TypeOK, TypeOK', IInv, NEW p \in Procs, Reserve(p), NEW i \in Images
  PROVE  [Window(i)!Next]_(Window(i)!vars)
<1>1. PICK r : r = call[p].runner
  OBVIOUS
<1>2. r \in Runners /\ call[p].image \in Images
  BY <1>1 DEF Reserve, IInv, ProcInv, CallInv
<1>3. UNCHANGED <<intents, copying>>
  BY DEF Reserve
<1>4. CASE UNCHANGED records
  BY <1>3, <1>4, ContractQuiet DEF Of
<1>5. CASE /\ records[r] = NoImage
           /\ records' = [records EXCEPT ![r] = call[p].image]
  <2>1. CASE call[p].image # i
    BY <1>2, <1>3, <1>5, <2>1, ContractElsewhere, TemplateAssumption DEF TypeOK
  <2>2. CASE call[p].image = i
    <3>1. /\ r \notin Of(i, Runners)
          /\ Of(i, Runners)' = Of(i, Runners) \cup {r}
      BY <1>2, <1>5, <2>2 DEF Of, TypeOK
    <3>2. r \notin intents /\ r \notin copying
      BY <1>5 DEF IInv, IntentHasTemplate
    <3>3. UNCHANGED <<Of(i, intents), Of(i, copying)>>
      BY <1>2, <1>3, <1>5, <3>2 DEF Of, TypeOK
    <3>4. Held(i)' = Held(i)
      BY DEF Held, Reserve, TypeOK
    <3>5. Window(i)!Reserve(r)
      BY <3>1, <3>3, <3>4 DEF Window!Reserve, Held
    <3>6. QED
      BY <1>2, <3>5 DEF Window!Next
  <2>3. QED
    BY <2>1, <2>2
<1>6. QED
  BY <1>1, <1>4, <1>5 DEF Reserve

(* A reservation under the template lock, as every step of clone has it.    *)
LEMMA ContractClone ==
  ASSUME TypeOK, IInv, NEW p \in Procs, call[p].op = "create",
         pc[p] \in CloneSteps
  PROVE  /\ call[p].runner \in Runners
         /\ call[p].image \in Images
         /\ records[call[p].runner] = call[p].image
         /\ call[p].runner \in Of(call[p].image, Runners)
         /\ Held(call[p].image)
         /\ CreatorInv(p)
         /\ copying \subseteq intents
<1>1. CallInv(p) /\ CreatorInv(p)
  BY DEF IInv, ProcInv
<1>2. QED
  BY <1>1 DEF CallInv, CreatorInv, Of, Held, IInv, IntentHasTemplate

LEMMA ContractUndo ==
  ASSUME TypeOK, TypeOK', IInv, NEW p \in Procs, Undo(p), NEW i \in Images
  PROVE  [Window(i)!Next]_(Window(i)!vars)
<1>1. PICK r : r = call[p].runner
  OBVIOUS
<1>2. /\ r \in Runners /\ records[r] = call[p].image
      /\ r \notin intents /\ r \notin copying
      /\ call[p].image = i => Held(i) /\ r \in Of(i, Runners)
  BY <1>1, ContractClone DEF Undo, CreatorInv
<1>3. UNCHANGED <<intents, copying>>
  BY DEF Undo
<1>4. CASE UNCHANGED records
  BY <1>3, <1>4, ContractQuiet DEF Of
<1>5. CASE records' = [records EXCEPT ![r] = NoImage]
  <2>1. CASE call[p].image # i
    BY <1>2, <1>3, <1>5, <2>1, ContractElsewhere, TemplateAssumption DEF TypeOK
  <2>2. CASE call[p].image = i
    <3>1. /\ Of(i, Runners)' = Of(i, Runners) \ {r}
          /\ Of(i, intents)' = Of(i, intents) \ {r}
          /\ Of(i, copying)' = Of(i, copying)
          /\ r \notin Of(i, copying)
      BY <1>2, <1>3, <1>5, <2>2, TemplateAssumption DEF Of, TypeOK
    <3>2. Window(i)!Forget(r)
      BY <1>2, <2>2, <3>1 DEF Window!Forget, Window!Last, Held
    <3>3. QED
      BY <1>2, <3>2 DEF Window!Next
  <2>3. QED
    BY <2>1, <2>2
<1>6. QED
  BY <1>1, <1>4, <1>5 DEF Undo

(* The intent comes under the lock, before anything is copied.              *)
LEMMA ContractMark ==
  ASSUME TypeOK, TypeOK', IInv, NEW p \in Procs, Mark(p), NEW i \in Images
  PROVE  [Window(i)!Next]_(Window(i)!vars)
<1>1. PICK r : r = call[p].runner
  OBVIOUS
<1>2. /\ r \in Runners /\ records[r] = call[p].image
      /\ r \notin intents /\ r \notin copying
      /\ call[p].image = i => Held(i) /\ r \in Of(i, Runners)
  BY <1>1, ContractClone DEF Mark, CreatorInv
<1>3. UNCHANGED <<records, copying>>
  BY DEF Mark
<1>4. CASE UNCHANGED intents
  BY <1>3, <1>4, ContractQuiet DEF Of
<1>5. CASE intents' = intents \cup {r}
  <2>1. CASE call[p].image # i
    BY <1>2, <1>3, <1>5, <2>1, ContractElsewhere
  <2>2. CASE call[p].image = i
    <3>1. /\ Of(i, Runners)' = Of(i, Runners)
          /\ Of(i, intents)' = Of(i, intents) \cup {r}
          /\ Of(i, copying)' = Of(i, copying)
          /\ r \notin Of(i, copying)
      BY <1>2, <1>3, <1>5, <2>2 DEF Of, TypeOK
    <3>2. Window(i)!Mark(r)
      BY <1>2, <2>2, <3>1 DEF Window!Mark, Window!Last, Held
    <3>3. QED
      BY <1>2, <3>2 DEF Window!Next
  <2>3. QED
    BY <2>1, <2>2
<1>6. QED
  BY <1>1, <1>4, <1>5 DEF Mark

(* An intent that goes while nothing is copied.                             *)
LEMMA ContractUnmark ==
  ASSUME TypeOK, TypeOK', NEW i \in Images, NEW r \in intents \ copying,
         records[r] = i, UNCHANGED <<records, copying>>,
         intents' = intents \ {r}, Held(i)' => Held(i)
  PROVE  [Window(i)!Next]_(Window(i)!vars)
<1>1. /\ Of(i, Runners)' = Of(i, Runners)
      /\ Of(i, intents)' = Of(i, intents) \ {r}
      /\ Of(i, copying)' = Of(i, copying)
      /\ r \in Of(i, intents) \ Of(i, copying)
      /\ r \in Runners
  BY DEF Of, TypeOK
<1>2. Window(i)!Unmark(r)
  BY <1>1 DEF Window!Unmark, Window!Last, Held
<1>3. QED
  BY <1>1, <1>2 DEF Window!Next

(* The copy begins with record, intent and lock.                            *)
LEMMA ContractSpawn ==
  ASSUME TypeOK, TypeOK', IInv, NEW p \in Procs, Spawn(p), NEW i \in Images
  PROVE  [Window(i)!Next]_(Window(i)!vars)
<1>1. PICK r : r = call[p].runner
  OBVIOUS
<1>2. /\ r \in Runners /\ records[r] = call[p].image
      /\ r \in intents /\ r \notin copying
      /\ call[p].image = i => Held(i) /\ r \in Of(i, Runners)
  BY <1>1, ContractClone DEF Spawn, CreatorInv
<1>3. UNCHANGED records
  BY DEF Spawn
<1>4. CASE UNCHANGED <<intents, copying>>
  BY <1>3, <1>4, ContractQuiet DEF Of
<1>5. CASE intents' = intents \ {r} /\ UNCHANGED copying
  <2>1. CASE call[p].image # i
    BY <1>2, <1>3, <1>5, <2>1, ContractElsewhere
  <2>2. CASE call[p].image = i
    BY <1>2, <1>3, <1>5, <2>2, ContractUnmark
  <2>3. QED
    BY <2>1, <2>2
<1>6. CASE copying' = copying \cup {r} /\ UNCHANGED intents /\ Goto(p, "wait")
  <2>1. CASE call[p].image # i
    BY <1>2, <1>3, <1>6, <2>1, ContractElsewhere
  <2>2. CASE call[p].image = i
    <3>1. /\ Of(i, Runners)' = Of(i, Runners)
          /\ Of(i, intents)' = Of(i, intents)
          /\ Of(i, copying)' = Of(i, copying) \cup {r}
          /\ r \notin Of(i, copying) /\ r \in Of(i, intents)
      BY <1>2, <1>3, <1>6, <2>2 DEF Of, TypeOK
    <3>2. Held(i)'
      BY <1>1, <1>2, <1>6, <2>2 DEF Spawn, Held, TypeOK
    <3>3. Window(i)!Copy(r)
      BY <1>2, <2>2, <3>1, <3>2 DEF Window!Copy, Held
    <3>4. QED
      BY <1>2, <3>3 DEF Window!Next
  <2>3. QED
    BY <2>1, <2>2
<1>7. QED
  BY <1>1, <1>4, <1>5, <1>6 DEF Spawn

LEMMA ContractWait ==
  ASSUME TypeOK, TypeOK', IInv, NEW p \in Procs, Wait(p), NEW i \in Images
  PROVE  [Window(i)!Next]_(Window(i)!vars)
<1>1. PICK r : r = call[p].runner
  OBVIOUS
<1>2. /\ r \in Runners /\ records[r] = call[p].image /\ r \in intents
      /\ call[p].image = i => Held(i)
  BY <1>1, ContractClone DEF Wait, CreatorInv
<1>3. UNCHANGED <<records, copying>>
  BY DEF Wait
<1>4. CASE UNCHANGED intents
  BY <1>3, <1>4, ContractQuiet DEF Of
<1>5. CASE r \notin copying /\ intents' = intents \ {r}
  <2>1. CASE call[p].image # i
    BY <1>2, <1>3, <1>5, <2>1, ContractElsewhere
  <2>2. CASE call[p].image = i
    BY <1>2, <1>3, <1>5, <2>2, ContractUnmark
  <2>3. QED
    BY <2>1, <2>2
<1>6. QED
  BY <1>1, <1>4, <1>5 DEF Wait

(* A copy ends, an intent is cleared or a record goes, without a process.   *)
LEMMA ContractRunner ==
  ASSUME TypeOK, TypeOK', IInv, NEW r \in Runners, NEW i \in Images,
         CopyEnds(r) \/ ClearIntent(r) \/ RemoveRecord(r)
  PROVE  [Window(i)!Next]_(Window(i)!vars)
<1>1. Held(i)' = Held(i)
  BY DEF CopyEnds, ClearIntent, RemoveRecord, Held
<1>2. CASE records[r] # i
  <2>1. /\ records'[r] # i
        /\ \A s \in Runners \ {r} :
              /\ records'[s] = records[s]
              /\ s \in intents' <=> s \in intents
              /\ s \in copying' <=> s \in copying
    BY <1>2, TemplateAssumption DEF CopyEnds, ClearIntent, RemoveRecord, TypeOK
  <2>2. QED
    BY <1>2, <2>1, ContractElsewhere
<1>3. CASE records[r] = i /\ CopyEnds(r)
  <2>1. /\ Of(i, Runners)' = Of(i, Runners)
        /\ Of(i, intents)' = Of(i, intents)
        /\ Of(i, copying)' = Of(i, copying) \ {r}
        /\ r \in Of(i, copying)
    BY <1>3 DEF CopyEnds, Of, TypeOK
  <2>2. Window(i)!CopyEnds(r)
    BY <1>1, <2>1 DEF Window!CopyEnds, Held
  <2>3. QED
    BY <2>2 DEF Window!Next
<1>4. CASE records[r] = i /\ ClearIntent(r)
  BY <1>1, <1>4, ContractUnmark DEF ClearIntent
<1>5. CASE records[r] = i /\ RemoveRecord(r)
  <2>1. /\ Of(i, Runners)' = Of(i, Runners) \ {r}
        /\ Of(i, intents)' = Of(i, intents) \ {r}
        /\ Of(i, copying)' = Of(i, copying)
        /\ r \in Of(i, Runners) \ Of(i, copying)
    BY <1>5, TemplateAssumption DEF RemoveRecord, Of, TypeOK
  <2>2. Window(i)!Forget(r)
    BY <1>1, <2>1 DEF Window!Forget, Window!Last, Held
  <2>3. QED
    BY <2>2 DEF Window!Next
<1>6. QED
  BY <1>2, <1>3, <1>4, <1>5

(* All others leave the registry alone.                                     *)
LEMMA RegistryWriters ==
  ASSUME [Next]_vars,
         \A p \in Procs : ~(\/ Reserve(p) \/ Undo(p) \/ Mark(p)
                            \/ Spawn(p) \/ Wait(p)),
         \A r \in Runners :
            ~(CopyEnds(r) \/ ClearIntent(r) \/ RemoveRecord(r))
  PROVE  UNCHANGED registryVars
<1>1. ASSUME NEW p \in Procs, HostStep(p) \/ LockTemplate(p) \/ KillProc(p)
      PROVE  UNCHANGED registryVars
  BY <1>1 DEF HostStep, CheckHost, LockHost, ReadHost, WriteHost,
     LockTemplate, KillProc
<1>2. ASSUME NEW p \in Procs, BuildStep(p) PROVE UNCHANGED registryVars
  BY <1>2 DEF BuildStep, CreateMachine, Identify, Provision, FailBuild,
     StopMachine, Verify, WriteManifest
<1>3. ASSUME NEW p \in Procs, RemoveStep(p) PROVE UNCHANGED registryVars
  BY <1>3 DEF RemoveStep, Drain, Destroy, Unlink
<1>4. ASSUME NEW p \in Procs, CreateStep(p) PROVE UNCHANGED registryVars
  BY <1>4 DEF CreateStep, Validate
<1>5. ASSUME NEW p \in Procs, NEW i \in Images,
             \/ CallBuild(p, i) \/ CallRemove(p, i)
             \/ \E r \in Runners : CallCreate(p, i, r)
      PROVE  UNCHANGED registryVars
  BY <1>5 DEF CallBuild, CallRemove, CallCreate, LoadHost
<1>6. QED
  BY <1>1, <1>2, <1>3, <1>4, <1>5 DEF Next, vars, ProcStep

(* CREATE and the removal of runners, as this model has them, do to every   *)
(* image what RunnerLifecycle shows its calls to do: no more, so nothing    *)
(* the removal of a template relies on is assumed here only (builder.go,    *)
(* Remove; provider.go, clone).                                             *)
THEOREM ContractKept == Spec => WindowSpec
<1>1. Init => \A i \in Images : Window(i)!Init
  <2>1. ASSUME Init, NEW i \in Images
        PROVE  /\ Of(i, Runners) = {} /\ Of(i, intents) = {}
               /\ Of(i, copying) = {} /\ ~Held(i)
    BY <2>1, TemplateAssumption DEF Init, Of, Held
  <2>2. QED
    BY <2>1 DEF Window!Init, Held
<1>2. TypeOK /\ IInv /\ [Next]_vars /\ (TypeOK /\ IInv)' =>
        [\A i \in Images : [Window(i)!Next]_(Window(i)!vars)]_vars
  <2>1. SUFFICES ASSUME TypeOK, TypeOK', IInv, [Next]_vars, NEW i \in Images
                 PROVE  [Window(i)!Next]_(Window(i)!vars)
    OBVIOUS
  <2>2. CASE UNCHANGED registryVars
    BY <2>2, ContractQuiet DEF Of
  <2>3. CASE \E p \in Procs : \/ Reserve(p) \/ Undo(p) \/ Mark(p)
                              \/ Spawn(p) \/ Wait(p)
    BY <2>1, <2>3, ContractReserve, ContractUndo, ContractMark,
       ContractSpawn, ContractWait
  <2>4. CASE \E r \in Runners :
                CopyEnds(r) \/ ClearIntent(r) \/ RemoveRecord(r)
    BY <2>1, <2>4, ContractRunner
  <2>5. QED
    BY <2>1, <2>2, <2>3, <2>4, RegistryWriters
<1>3. QED
  BY <1>1, <1>2, TemplateInvariance, PTL DEF Spec, WindowSpec

=============================================================================
