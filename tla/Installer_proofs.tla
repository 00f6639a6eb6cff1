-------------------------- MODULE Installer_proofs --------------------------
(***************************************************************************)
(* Theorems about Installer.                                               *)
(***************************************************************************)
EXTENDS Installer, TLAPS

Inv == TypeOK /\ IInv

-----------------------------------------------------------------------------
(* The contents of files.                                                  *)
LEMMA NoFileIsContents == NoFile \in Contents
BY DEF Contents

LEMMA Rendered ==
    ASSUME NEW v \in Versions, NEW of \in Versions \cup {None}
    PROVE  /\ Render(v, of) \in Contents
           /\ Render(v, of) # NoFile
           /\ Render(v, of)[2] = of
BY DEF Render, Contents, Author, NoFile

LEMMA BareIsRendered == \A v : Bare(v) = Render(v, None)
BY DEF Bare, Render

LEMMA SecondInVersions ==
    ASSUME NEW f \in Contents, f # NoFile
    PROVE  f[2] \in Versions \cup {None}
BY DEF Contents, NoFile

LEMMA NoneIsNoVersion == None \notin Versions /\ None \notin Cmds
BY InstallerAssumption

(* Sequences of program text stand for nothing else below.                 *)
LEMMA NoRecordTyped ==
    /\ NoRecord \in Records
    /\ \A v \in Versions : NewRecord(v) \in Records
    /\ NoRecord.version = None /\ NoRecord.controller = 0
    /\ \A v : NewRecord(v).version = v /\ NewRecord(v).controller = 0
BY NoFileIsContents DEF NoRecord, NewRecord, Records

-----------------------------------------------------------------------------
LEMMA GoingOn ==
    ASSUME TypeOK, OneHolder, NEW c \in Cmds, NEW step,
           pc[c] \notin {"idle", "lock"},
           step \in (InstallSteps \cup UninstallSteps) \ {"lock"}, Go(c, step)
    PROVE  /\ OneHolder'
           /\ holder = c /\ holder' = c /\ pc'[c] = step
           /\ pc' \in [Cmds -> InstallSteps \cup UninstallSteps \cup {"idle"}]
           /\ mine' = mine /\ mine[c] \in Versions
<1> USE DEF TypeOK, Go
<1>1. pc'[c] = step /\ \A d \in Cmds : d # c => pc'[d] = pc[d]
  OBVIOUS
<1>2. step \notin {"idle", "lock"}
  BY DEF InstallSteps, UninstallSteps
<1> QED BY <1>1, <1>2 DEF OneHolder, Running

LEMMA Ending ==
    ASSUME TypeOK, OneHolder, NEW c \in Cmds, End(c)
    PROVE  /\ OneHolder'
           /\ holder' = IF holder = c THEN None ELSE holder
           /\ \A d \in Cmds : d # c => /\ pc'[d] = pc[d] /\ mine'[d] = mine[d]
                                       /\ rec'[d] = rec[d] /\ loc'[d] = loc[d]
<1> USE DEF TypeOK, End
<1>1. pc'[c] = "idle" /\ \A d \in Cmds : d # c => pc'[d] = pc[d]
  OBVIOUS
<1> QED BY <1>1, NoneIsNoVersion DEF OneHolder, Running

-----------------------------------------------------------------------------
(* What any step does to the service while it writes no file.              *)
Served ==
    /\ loaded' \in {loaded, None} \/ (plist # NoFile /\ loaded' = plist[2])
    /\ served' \in {served, NoFile, config}
    /\ loaded' = None => served' = NoFile /\ ~inFlight'
    /\ served' # NoFile => db'.key # 0
    /\ db' \in [key : Nat, id : Nat, ca : BOOLEAN]
    /\ db'.id = db.id /\ db'.ca = db.ca
    /\ db'.key = db.key \/ (db.key = 0 /\ db'.key = secrets)
    /\ respawned' \in BOOLEAN /\ inFlight' \in BOOLEAN

kept == <<record, releases, link, config, plist, secrets, host>>

LEMMA Starting ==
    ASSUME TypeOK, NEW v \in Versions \cup {None}, Starts(v)
    PROVE  /\ served' \in {NoFile, config}
           /\ v = None => served' = NoFile
           /\ served' # NoFile => db'.key # 0
           /\ db' \in [key : Nat, id : Nat, ca : BOOLEAN]
           /\ (db.key = 0 => db.id = 0 /\ ~db.ca) =>
                  db'.id = db.id /\ db'.ca = db.ca
           /\ db.key # 0 => db' = db
           /\ db'.key = db.key \/ (db.key = 0 /\ db'.key = secrets)
<1> USE DEF TypeOK
<1>1. CASE CanRun(v)
  <2>1. v # None
    BY <1>1, NoneIsNoVersion DEF CanRun
  <2>2. CASE db.key = 0
    <3>1. db' = [key |-> secrets, id |-> 0, ca |-> FALSE]
      BY <1>1, <2>2 DEF Starts, NoDb
    <3> QED BY <1>1, <2>1, <2>2, <3>1 DEF Starts, CanRun
  <2>3. CASE db.key # 0
    BY <1>1, <2>1, <2>3 DEF Starts
  <2> QED BY <2>2, <2>3
<1>2. CASE ~CanRun(v)
  BY <1>2 DEF Starts
<1> QED BY <1>1, <1>2

LEMMA PlistRelease ==
    ASSUME Inv, plist # NoFile
    PROVE  plist[2] \in releases /\ plist[2] \in Versions /\ plist[2] # None
BY NoneIsNoVersion DEF Inv, IInv, NothingDangles, TypeOK

LEMMA ServiceKept ==
    ASSUME Inv, UNCHANGED service
    PROVE  Served
BY DEF Inv, IInv, TypeOK, ServiceInv, Served, service, Answers

LEMMA Bootstrapping ==
    ASSUME Inv, plist # NoFile, loaded = None, Bootstrap
    PROVE  Served
<1>1. plist[2] \in Versions /\ plist[2] # None
  BY PlistRelease
<1> QED BY <1>1, Starting DEF Inv, IInv, TypeOK, ServiceInv, Served, Bootstrap

LEMMA Kicking ==
    ASSUME Inv, loaded # None, Kickstart
    PROVE  Served
<1>1. loaded \in Versions
  BY DEF Inv, TypeOK
<1> QED BY <1>1, Starting
        DEF Inv, IInv, TypeOK, ServiceInv, Served, Kickstart, Answers

LEMMA Ensuring ==
    ASSUME Inv, plist # NoFile \/ loaded # None, EnsureRunning
    PROVE  Served
<1>1. CASE loaded = None
  BY <1>1, Bootstrapping DEF EnsureRunning
<1>2. CASE loaded # None /\ served = NoFile
  <2>1. loaded \in Versions
    BY <1>2 DEF Inv, TypeOK
  <2>2. Starts(loaded) /\ respawned' = TRUE /\ UNCHANGED <<loaded, inFlight>>
    BY <1>2 DEF EnsureRunning
  <2> QED BY <1>2, <2>1, <2>2, Starting
          DEF Inv, IInv, TypeOK, ServiceInv, Served
<1>3. CASE loaded # None /\ served # NoFile
  BY <1>3, ServiceKept DEF EnsureRunning
<1> QED BY <1>1, <1>2, <1>3

(* A step that writes none of the kept files keeps what they promise.      *)
LEMMA Serving ==
    ASSUME Inv, Served, UNCHANGED kept
    PROVE  ServiceInv' /\ IdentityKept' /\ NothingDangles'
<1> USE DEF Inv, IInv, kept
<1>1. plist # NoFile => plist[2] \in releases /\ plist[2] # None
  BY PlistRelease
<1>2. loaded' # None => plist # NoFile \/ loaded # None
  BY <1>1 DEF Served
<1>3. ServiceInv'
  BY <1>2 DEF ServiceInv, Served, HasProvider, TypeOK, Answers
<1>4. IdentityKept'
  BY DEF IdentityKept, ServiceInv, Served, TypeOK
<1>5. NothingDangles'
  <2>1. {link, loaded'} \subseteq releases \cup {None}
    BY <1>1 DEF NothingDangles, Served
  <2>2. HasProvider(served') => served'[2] \in releases
    <3>1. CASE served' = served
      BY <3>1 DEF NothingDangles, Registered
    <3>2. CASE served' = NoFile
      BY <3>2 DEF HasProvider
    <3>3. CASE served' = config /\ served' # NoFile
      <4>1. loaded' # None
        BY <3>3 DEF Served
      <4> QED BY <1>2, <3>3, <4>1 DEF ServiceInv
    <3> QED BY <3>1, <3>2, <3>3 DEF Served
  <2> QED BY <2>1, <2>2, <1>1 DEF NothingDangles, Registered, HasProvider
<1> QED BY <1>3, <1>4, <1>5

-----------------------------------------------------------------------------
(* Types.                                                                  *)
LEMMA CommandTyped ==
    ASSUME Inv, NEW c \in Cmds, Running(c)
    PROVE  mine[c] \in Versions
BY DEF Inv, IInv, OneHolder

LEMMA GoTyped ==
    ASSUME TypeOK, NEW c \in Cmds, NEW step,
           step \in InstallSteps \cup UninstallSteps, Go(c, step)
    PROVE  /\ pc' \in [Cmds -> InstallSteps \cup UninstallSteps \cup {"idle"}]
           /\ holder' \in Cmds \cup {None}
           /\ mine' \in [Cmds -> Versions \cup {None}]
BY DEF TypeOK, Go

LEMMA EndTyped ==
    ASSUME TypeOK, NEW c \in Cmds, End(c)
    PROVE  /\ pc' \in [Cmds -> InstallSteps \cup UninstallSteps \cup {"idle"}]
           /\ holder' \in Cmds \cup {None}
           /\ mine' \in [Cmds -> Versions \cup {None}]
           /\ rec' \in [Cmds -> Records]
           /\ loc' \in [Cmds -> [host : Nat, early : BOOLEAN,
                                 boot : BOOLEAN, late : BOOLEAN]]
<1>1. NoLoc \in [host : Nat, early : BOOLEAN, boot : BOOLEAN, late : BOOLEAN]
  BY DEF NoLoc
<1> QED BY <1>1, NoRecordTyped DEF TypeOK, End

LEMMA Learned ==
    ASSUME TypeOK, NEW c \in Cmds, NEW r \in Records, Learn(c, r)
    PROVE  rec' \in [Cmds -> Records] /\ rec'[c] = r
BY DEF TypeOK, Learn

LEMMA RecordOf ==
    ASSUME TypeOK, NEW c \in Cmds, NEW f \in Contents, NEW n \in Nat,
           NEW v \in Versions \cup {None}, NEW w \in Versions \cup {None}
    PROVE  /\ [rec[c] EXCEPT !.config = f] \in Records
           /\ [rec[c] EXCEPT !.plist = f] \in Records
           /\ [rec[c] EXCEPT !.controller = n] \in Records
           /\ [rec[c] EXCEPT !.prev = v] \in Records
           /\ [rec[c] EXCEPT !.version = w, !.prev = v] \in Records
<1>1. rec[c] \in Records
  BY DEF TypeOK
<1> QED BY <1>1 DEF Records

Remembered == [host : Nat, early : BOOLEAN, boot : BOOLEAN, late : BOOLEAN]

LEMMA Noted ==
    ASSUME TypeOK, NEW c \in Cmds, NEW l \in Remembered, Note(c, l)
    PROVE  loc' \in [Cmds -> Remembered] /\ loc'[c] = l
BY DEF TypeOK, Note, Remembered

LEMMA NoteOf ==
    ASSUME TypeOK, NEW c \in Cmds, NEW n \in Nat, NEW b \in BOOLEAN
    PROVE  /\ loc[c] \in Remembered
           /\ [loc[c] EXCEPT !.host = n] \in Remembered
           /\ [loc[c] EXCEPT !.early = b] \in Remembered
           /\ [loc[c] EXCEPT !.boot = b] \in Remembered
           /\ [loc[c] EXCEPT !.late = b] \in Remembered
           /\ [loc[c] EXCEPT !.host = n].host = n
           /\ [loc[c] EXCEPT !.early = b].host = loc[c].host
           /\ [loc[c] EXCEPT !.boot = b].host = loc[c].host
           /\ [loc[c] EXCEPT !.late = b].host = loc[c].host
<1>1. loc[c] \in Remembered
  BY DEF TypeOK, Remembered
<1> QED BY <1>1 DEF Remembered

LEMMA CountTyped ==
    ASSUME TypeOK, NEW what \in {"faults", "restarts", "losses", "requests"},
           NEW max, Counted(what, max)
    PROVE  count' \in [{"faults", "restarts", "losses", "requests"} -> Nat]
BY DEF TypeOK, Counted

LEMMA ServedTyped ==
    ASSUME Inv, Served
    PROVE  /\ loaded' \in Versions \cup {None} /\ served' \in Contents
           /\ db' \in [key : Nat, id : Nat, ca : BOOLEAN]
           /\ respawned' \in BOOLEAN /\ inFlight' \in BOOLEAN
BY NoFileIsContents, PlistRelease DEF Inv, TypeOK, Served

(* What a command past the lock knows.                                     *)
LEMMA Knows ==
    ASSUME Inv, NEW c \in Cmds, pc[c] \notin {"idle", "lock"}
    PROVE  /\ holder = c /\ HolderInv(c) /\ mine[c] \in Versions
           /\ pc[c] \in Listed => plist # NoFile
<1>1. holder = c /\ mine[c] \in Versions
  BY DEF Inv, IInv, OneHolder, Running
<1>2. HolderInv(c)
  BY <1>1, NoneIsNoVersion DEF Inv, IInv
<1>3. pc[c] \in Listed => plist # NoFile
  <2>1. Render(mine[c], mine[c]) # NoFile
    BY <1>1, Rendered
  <2> QED BY <1>2, <2>1 DEF HolderInv
<1> QED BY <1>1, <1>2, <1>3

(* The steps which only drive the service, or the command itself.          *)
LEMMA TypedByServing ==
    ASSUME Inv, Served, UNCHANGED kept, UNCHANGED <<partial, inits>>,
           profile' \in BOOLEAN, registry' \in BOOLEAN,
           runners' \in 0 .. MaxRunners,
           holder' \in Cmds \cup {None},
           pc' \in [Cmds -> InstallSteps \cup UninstallSteps \cup {"idle"}],
           mine' \in [Cmds -> Versions \cup {None}],
           rec' \in [Cmds -> Records], loc' \in [Cmds -> Remembered],
           count' \in [{"faults", "restarts", "losses", "requests"} -> Nat]
    PROVE  TypeOK'
BY ServedTyped DEF Inv, TypeOK, kept, Remembered

(* The steps of a command which write no file that is kept: what they do   *)
(* to the service, and to what the command knows.                          *)
QuietStep(c) ==
    \/ CheckVersionChange(c) \/ Stop(c) \/ Inspect(c) \/ StartService(c)
    \/ Login(c) \/ Prepare(c) \/ InitializeRegistry(c) \/ RestartService(c)
    \/ EnsureProvider(c) \/ CheckProvider(c)

LEMMA QuietSteps ==
    ASSUME Inv, NEW c \in Cmds, QuietStep(c)
    PROVE  /\ Served /\ UNCHANGED kept /\ UNCHANGED <<partial, world, rec>>
           /\ profile' \in BOOLEAN /\ registry' \in BOOLEAN
           /\ loc' \in [Cmds -> Remembered]
           /\ \E step \in (InstallSteps \cup UninstallSteps) \ {"lock"} :
                  Go(c, step)
<1> USE DEF kept, files, dirs, managed, identity, Keep, At
<1>0. TypeOK /\ loc \in [Cmds -> Remembered]
  BY DEF Inv, TypeOK, Remembered
<1>1. CASE CheckVersionChange(c) \/ Inspect(c) \/ CheckProvider(c)
  BY <1>0, <1>1, ServiceKept
     DEF CheckVersionChange, Inspect, CheckProvider, InstallSteps,
         UninstallSteps, TypeOK
<1>2. CASE Stop(c)
  <2>1. Served
    BY <1>0, <1>2 DEF Stop, StopService, Served, TypeOK
  <2> QED BY <1>0, <1>2, <2>1 DEF Stop, InstallSteps, UninstallSteps, TypeOK
<1>3. CASE StartService(c)
  <2>1. pc[c] = "start" /\ EnsureRunning /\ Go(c, "wait")
        /\ Note(c, [loc[c] EXCEPT !.boot = (loaded = None)])
    BY <1>3 DEF StartService
  <2>2. plist # NoFile
    BY <2>1, Knows DEF Listed, Placed, InstallSteps
  <2>3. Served
    BY <2>1, <2>2, Ensuring
  <2>4. loc' \in [Cmds -> Remembered]
    <3>1. (loaded = None) \in BOOLEAN
      OBVIOUS
    <3> QED BY <1>0, <2>1, <3>1, NoteOf, Noted
  <2> QED BY <1>0, <1>3, <2>1, <2>3, <2>4
          DEF StartService, InstallSteps, TypeOK
<1>4. CASE Login(c) \/ InitializeRegistry(c)
  BY <1>0, <1>4, ServiceKept DEF Login, InitializeRegistry, InstallSteps,
     TypeOK
<1>5. CASE Prepare(c)
  <2>1. host \in Nat /\ Note(c, [loc[c] EXCEPT !.host = host])
    BY <1>0, <1>5 DEF Prepare, TypeOK
  <2>2. loc' \in [Cmds -> Remembered]
    BY <1>0, <2>1, NoteOf, Noted
  <2> QED BY <1>0, <1>5, <2>2, ServiceKept DEF Prepare, InstallSteps, TypeOK
<1>6. CASE RestartService(c)
  <2>1. plist # NoFile
    BY <1>6, Knows DEF Listed, Placed, InstallSteps, RestartService
  <2>2. Served
    BY <1>6, <2>1, Ensuring, Kicking DEF RestartService
  <2> QED BY <1>0, <1>6, <2>2 DEF RestartService, InstallSteps, TypeOK
<1>7. CASE EnsureProvider(c)
  <2>1. loaded # None
    BY <1>7 DEF EnsureProvider, Allowed, Answers, Inv, IInv, ServiceInv
  <2>2. Served
    BY <1>7, <2>1, ServiceKept, Kicking DEF EnsureProvider
  <2> QED BY <1>0, <1>7, <2>2 DEF EnsureProvider, InstallSteps, TypeOK
<1> QED BY <1>1, <1>2, <1>3, <1>4, <1>5, <1>6, <1>7 DEF QuietStep

(* From which step to which a quiet step goes, and what it learns.         *)
LEMMA QuietMoves ==
    ASSUME Inv, NEW c \in Cmds, QuietStep(c)
    PROVE  /\ pc[c] \notin {"idle", "lock"}
           /\ \/ /\ <<pc[c], pc'[c]>> \in
                        {<<"check", "stop">>, <<"inspect", "halt">>,
                         <<"start", "wait">>, <<"login", "read">>,
                         <<"registry", "bind">>, <<"restart", "provider">>,
                         <<"provider", "link">>, <<"provider", "recheck">>,
                         <<"recheck", "link">>}
                 /\ loc'[c].host = loc[c].host
              \/ /\ <<pc[c], pc'[c]>> \in {<<"stop", "backup">>,
                                           <<"halt", "unplist">>}
                 /\ loaded' = None
              \/ /\ pc[c] = "prepare" /\ pc'[c] = "config"
                 /\ loc'[c].host = host
<1>0. TypeOK
  BY DEF Inv
<1>1. \A step : Go(c, step) => pc'[c] = step
  BY <1>0 DEF Go, TypeOK
<1> USE DEF At, Keep
<1>2. CASE CheckVersionChange(c) \/ Inspect(c) \/ CheckProvider(c)
           \/ Login(c) \/ InitializeRegistry(c) \/ RestartService(c)
           \/ EnsureProvider(c)
  BY <1>1, <1>2 DEF CheckVersionChange, Inspect, CheckProvider, Login,
     InitializeRegistry, RestartService, EnsureProvider
<1>3. CASE Stop(c)
  BY <1>1, <1>3 DEF Stop, StopService
<1>4. CASE StartService(c)
  <2>1. loc'[c].host = loc[c].host
    <3>1. (loaded = None) \in BOOLEAN
      OBVIOUS
    <3> QED BY <1>0, <1>4, <3>1, NoteOf, Noted DEF StartService
  <2> QED BY <1>1, <1>4, <2>1 DEF StartService
<1>5. CASE Prepare(c)
  <2>1. host \in Nat
    BY <1>0 DEF TypeOK
  <2>2. loc'[c].host = host
    <3>1. /\ [loc[c] EXCEPT !.host = host] \in Remembered
          /\ [loc[c] EXCEPT !.host = host].host = host
      BY <1>0, <2>1, NoteOf
    <3> QED BY <1>0, <1>5, <3>1, Noted DEF Prepare
  <2> QED BY <1>1, <1>5, <2>2 DEF Prepare
<1> QED BY <1>2, <1>3, <1>4, <1>5 DEF QuietStep

LEMMA Quietly ==
    ASSUME Inv, NEW c \in Cmds, QuietStep(c)
    PROVE  Inv'
<1>1. /\ Served /\ UNCHANGED kept /\ UNCHANGED <<partial, world, rec>>
      /\ profile' \in BOOLEAN /\ registry' \in BOOLEAN
      /\ loc' \in [Cmds -> Remembered]
  BY QuietSteps
<1>2. PICK step \in (InstallSteps \cup UninstallSteps) \ {"lock"} :
          Go(c, step)
  BY QuietSteps
<1>3. /\ pc[c] \notin {"idle", "lock"} /\ holder = c
      /\ HolderInv(c) /\ mine[c] \in Versions
  BY QuietMoves, Knows
<1>4. /\ OneHolder' /\ holder' = c /\ mine' = mine
      /\ pc' \in [Cmds -> InstallSteps \cup UninstallSteps \cup {"idle"}]
  BY <1>2, <1>3, GoingOn DEF Inv, IInv
<1>5. TypeOK'
  <2>1. UNCHANGED <<partial, inits, runners, count, rec, mine>>
    BY <1>1, <1>4 DEF world
  <2> QED BY <1>1, <1>4, <2>1, TypedByServing DEF Inv, TypeOK
<1>6. HolderInv(c)'
  <2>1. UNCHANGED <<record, releases, link, config, plist, host, rec, mine>>
        /\ db'.id = db.id /\ db'.ca = db.ca
    BY <1>1, <1>4 DEF kept, Served
  <2>2. (loaded' = None \/ pc'[c] \notin Emptied \cup {"backup", "unplist"})
        /\ (loc'[c].host = host \/ pc'[c] \notin Told)
    BY <1>3, QuietMoves
       DEF HolderInv, Emptied, UninstallSteps, Told
  <2>3. /\ pc'[c] \in Placed => pc[c] \in Placed
        /\ pc'[c] \in Listed => pc[c] \in Listed
        /\ pc'[c] \in Bound => pc[c] \in Bound
        /\ pc'[c] \in {"login", "read"} => pc[c] \in {"login", "read"}
        /\ pc'[c] \notin Emptied \cup {"plist"}
    BY QuietMoves
       DEF Placed, Listed, Bound, Emptied, InstallSteps, UninstallSteps
  <2> QED BY <1>3, <2>1, <2>2, <2>3 DEF HolderInv
<1>7. ServiceInv' /\ IdentityKept' /\ NothingDangles'
  BY <1>1, Serving
<1> QED BY <1>4, <1>5, <1>6, <1>7 DEF Inv, IInv

-----------------------------------------------------------------------------
(* Commands that start and end.                                            *)

(* Whoever goes on unnoticed keeps what the holder of the lock knows.      *)
LEMMA OthersKnow ==
    ASSUME Inv, NEW h \in Cmds, holder = h, UNCHANGED kept,
           pc'[h] = pc[h], mine'[h] = mine[h], rec'[h] = rec[h],
           loc'[h] = loc[h], loaded' = loaded, Served
    PROVE  HolderInv(h)'
<1>1. HolderInv(h)
  BY NoneIsNoVersion DEF Inv, IInv
<1> QED BY <1>1 DEF HolderInv, kept, Served

LEMMA Ends ==
    ASSUME Inv, NEW c \in Cmds, End(c), UNCHANGED <<kept, service>>,
           UNCHANGED <<partial, inits, runners>>,
           profile' \in BOOLEAN, registry' \in BOOLEAN,
           count' \in [{"faults", "restarts", "losses", "requests"} -> Nat]
    PROVE  Inv'
<1>1. Served
  BY ServiceKept
<1>2. ServiceInv' /\ IdentityKept' /\ NothingDangles'
  BY <1>1, Serving
<1>3. OneHolder' /\ holder' = (IF holder = c THEN None ELSE holder)
      /\ \A d \in Cmds : d # c => /\ pc'[d] = pc[d] /\ mine'[d] = mine[d]
                                  /\ rec'[d] = rec[d] /\ loc'[d] = loc[d]
  BY Ending DEF Inv, IInv
<1>4. holder' # None => HolderInv(holder)'
  <2> SUFFICES ASSUME holder' # None  PROVE HolderInv(holder)'
    OBVIOUS
  <2>1. PICK h \in Cmds : h = holder /\ h = holder' /\ h # c
    BY <1>3 DEF Inv, TypeOK
  <2>2. HolderInv(h)'
    BY <1>1, <1>3, <2>1, OthersKnow DEF service
  <2> QED BY <2>1, <2>2
<1>5. TypeOK'
  BY <1>1, EndTyped, TypedByServing DEF Inv, TypeOK, Remembered
<1> QED BY <1>2, <1>3, <1>4, <1>5 DEF Inv, IInv

LEMMA Ended ==
    ASSUME Inv, NEW c \in Cmds, Refuse(c) \/ Die(c) \/ RemoveProfile(c)
    PROVE  Inv'
<1> USE DEF files, dirs, managed, identity, world, kept
<1>1. CASE Refuse(c)
  BY <1>1, Ends DEF Refuse, Inv, TypeOK
<1>2. CASE Die(c)
  BY <1>2, Ends, CountTyped DEF Die, Inv, TypeOK
<1>3. CASE RemoveProfile(c)
  BY <1>3, Ends DEF RemoveProfile, Inv, TypeOK
<1> QED BY <1>1, <1>2, <1>3

LEMMA Installs ==
    ASSUME Inv, NEW c \in Cmds, NEW v \in Versions, Install(c, v)
    PROVE  Inv'
<1> USE DEF files, dirs, managed, identity, kept
<1>1. ~Running(c) /\ holder' = holder /\ UNCHANGED <<kept, service>>
      /\ UNCHANGED <<partial, profile, registry, inits, runners, loc>>
  BY DEF Install
<1>2. pc' = [pc EXCEPT ![c] = "lock"] /\ mine' = [mine EXCEPT ![c] = v]
  BY DEF Install
<1>3. rec' \in [Cmds -> Records] /\ \A d \in Cmds : d # c => rec'[d] = rec[d]
  <2>1. PICK r \in Records : Learn(c, r)
    BY NoRecordTyped DEF Install, Inv, TypeOK
  <2> QED BY <2>1, Learned DEF Inv, TypeOK, Learn
<1>4. count' \in [{"faults", "restarts", "losses", "requests"} -> Nat]
  BY CountTyped DEF Install, Inv, TypeOK
<1>5. pc'[c] = "lock" /\ mine'[c] = v /\ holder # c
      /\ \A d \in Cmds : d # c => pc'[d] = pc[d] /\ mine'[d] = mine[d]
  BY <1>1, <1>2 DEF Inv, TypeOK, IInv, OneHolder, Running
<1>6. OneHolder'
  BY <1>1, <1>5 DEF Inv, IInv, OneHolder, Running
<1>7. Served
  BY <1>1, ServiceKept
<1>8. ServiceInv' /\ IdentityKept' /\ NothingDangles'
  BY <1>1, <1>7, Serving
<1>9. holder' # None => HolderInv(holder)'
  <2> SUFFICES ASSUME holder' # None  PROVE HolderInv(holder)'
    OBVIOUS
  <2>1. PICK h \in Cmds : h = holder /\ h = holder' /\ h # c
    BY <1>1, <1>5 DEF Inv, TypeOK
  <2>2. HolderInv(h)'
    BY <1>1, <1>3, <1>5, <1>7, <2>1, OthersKnow DEF service
  <2> QED BY <2>1, <2>2
<1>10. TypeOK'
  <2>1. pc' \in [Cmds -> InstallSteps \cup UninstallSteps \cup {"idle"}]
        /\ mine' \in [Cmds -> Versions \cup {None}]
    BY <1>2 DEF Inv, TypeOK, InstallSteps
  <2> QED BY <1>1, <1>3, <1>4, <1>7, <2>1, TypedByServing
          DEF Inv, TypeOK, Remembered
<1> QED BY <1>6, <1>8, <1>9, <1>10 DEF Inv, IInv

LEMMA Uninstalls ==
    ASSUME Inv, NEW c \in Cmds, NEW v \in Versions, Uninstall(c, v)
    PROVE  Inv'
<1> USE DEF files, dirs, managed, identity, kept
<1>1. ~Running(c) /\ holder = None /\ holder' = c
      /\ UNCHANGED <<kept, service>>
      /\ UNCHANGED <<partial, profile, registry, inits, runners, loc>>
  BY DEF Uninstall
<1>2. pc' = [pc EXCEPT ![c] = "inspect"] /\ mine' = [mine EXCEPT ![c] = v]
  BY DEF Uninstall
<1>3. rec' \in [Cmds -> Records] /\ rec'[c] = record
  BY Learned DEF Uninstall, Inv, TypeOK
<1>4. count' \in [{"faults", "restarts", "losses", "requests"} -> Nat]
  BY CountTyped DEF Uninstall, Inv, TypeOK
<1>5. pc'[c] = "inspect" /\ mine'[c] = v
      /\ \A d \in Cmds : d # c => pc'[d] = pc[d] /\ mine'[d] = mine[d]
  BY <1>2 DEF Inv, TypeOK
<1>6. OneHolder'
  BY <1>1, <1>5, NoneIsNoVersion DEF Inv, IInv, OneHolder, Running
<1>7. Served
  BY <1>1, ServiceKept
<1>8. ServiceInv' /\ IdentityKept' /\ NothingDangles'
  BY <1>1, <1>7, Serving
<1>9. HolderInv(c)'
  <2>1. pc'[c] \notin Placed \cup Told \cup Listed \cup Bound \cup Emptied
                      \cup {"plist", "login", "read", "backup", "unplist"}
    BY <1>5 DEF Placed, Told, Listed, Bound, Emptied, InstallSteps,
                UninstallSteps
  <2> QED BY <1>1, <1>3, <2>1 DEF HolderInv
<1>10. TypeOK'
  <2>1. pc' \in [Cmds -> InstallSteps \cup UninstallSteps \cup {"idle"}]
        /\ mine' \in [Cmds -> Versions \cup {None}]
    BY <1>2 DEF Inv, TypeOK, UninstallSteps
  <2> QED BY <1>1, <1>3, <1>4, <1>7, <2>1, TypedByServing
          DEF Inv, TypeOK, Remembered
<1> QED BY <1>1, <1>6, <1>8, <1>9, <1>10 DEF Inv, IInv

-----------------------------------------------------------------------------
(* What happens outside the commands.                                      *)
LEMMA Outside ==
    ASSUME Inv, Served, UNCHANGED <<kept, cmdVars, partial, inits>>,
           loaded' = loaded,
           profile' \in BOOLEAN, registry' \in BOOLEAN,
           runners' \in 0 .. MaxRunners,
           count' \in [{"faults", "restarts", "losses", "requests"} -> Nat]
    PROVE  Inv'
<1> USE DEF cmdVars
<1>1. OneHolder'
  BY DEF Inv, IInv, OneHolder, Running
<1>2. ServiceInv' /\ IdentityKept' /\ NothingDangles'
  BY Serving
<1>3. holder' # None => HolderInv(holder)'
  <2> SUFFICES ASSUME holder' # None  PROVE HolderInv(holder)'
    OBVIOUS
  <2>1. PICK h \in Cmds : h = holder /\ h = holder'
    BY DEF Inv, TypeOK
  <2>2. HolderInv(h)'
    BY <2>1, OthersKnow
  <2> QED BY <2>1, <2>2
<1>4. TypeOK'
  BY TypedByServing DEF Inv, TypeOK, Remembered
<1> QED BY <1>1, <1>2, <1>3, <1>4 DEF Inv, IInv

LEMMA Respawned ==
    ASSUME Inv, Respawn
    PROVE  Served
<1>1. loaded \in Versions
  BY DEF Respawn, Inv, TypeOK
<1>2. Starts(loaded)
  BY DEF Respawn
<1> QED BY <1>1, <1>2, Starting
        DEF Respawn, Served, Inv, IInv, ServiceInv, TypeOK

LEMMA Elsewhere ==
    ASSUME Inv, \/ \E v \in Versions : GarmCLI(v)
                \/ Respawn \/ CallProvider \/ Provider
    PROVE  Inv'
<1> USE DEF files, dirs, managed, identity, world, kept
<1>1. CASE \E v \in Versions : GarmCLI(v)
  <2>1. PICK v \in Versions : GarmCLI(v)
    BY <1>1
  <2>2. count' \in [{"faults", "restarts", "losses", "requests"} -> Nat]
    BY <2>1, CountTyped DEF GarmCLI, Inv, TypeOK
  <2>3. Served
    BY <2>1, ServiceKept DEF GarmCLI
  <2> QED BY <2>1, <2>2, <2>3, Outside DEF GarmCLI, Inv, TypeOK, service
<1>2. CASE Respawn
  BY <1>2, Respawned, Outside DEF Respawn, Inv, TypeOK
<1>3. CASE CallProvider
  <2>1. loaded # None
    BY <1>3 DEF CallProvider, Registered, HasProvider, Inv, IInv, ServiceInv
  <2>2. Served
    BY <1>3, <2>1
       DEF CallProvider, Served, Inv, IInv, ServiceInv, TypeOK, Answers
  <2> QED BY <1>3, <2>2, Outside DEF CallProvider, Inv, TypeOK
<1>4. CASE Provider
  <2>1. loaded # None
    BY <1>4 DEF Provider, Inv, IInv, ServiceInv
  <2>2. Served
    BY <1>4, <2>1
       DEF Provider, Served, Inv, IInv, ServiceInv, TypeOK, Answers
  <2>3. runners' \in 0 .. MaxRunners
    <3>1. MaxRunners \in Nat /\ runners \in 0 .. MaxRunners
      BY InstallerAssumption DEF Inv, TypeOK
    <3>2. \/ runners < MaxRunners /\ runners' = runners + 1
          \/ runners > 0 /\ runners' = runners - 1
          \/ runners' = runners
      BY <1>4 DEF Provider
    <3> QED BY <3>1, <3>2
  <2> QED BY <1>4, <2>2, <2>3, Outside DEF Provider, Inv, TypeOK
<1> QED BY <1>1, <1>2, <1>3, <1>4

LEMMA Restarts ==
    ASSUME Inv, RestartMachine
    PROVE  Inv'
<1> USE DEF files, dirs, managed, identity, kept, RestartMachine
<1>1. Served
  <2>1. CASE plist = NoFile
    BY <2>1 DEF Served, Inv, TypeOK
  <2>2. CASE plist # NoFile
    <3>1. plist[2] \in Versions /\ plist[2] # None
      BY <2>2, PlistRelease
    <3>2. Starts(plist[2])
      BY <2>2
    <3> QED BY <2>2, <3>1, <3>2, Starting
            DEF Served, Inv, IInv, TypeOK, ServiceInv
  <2> QED BY <2>1, <2>2
<1>2. OneHolder'
  BY NoneIsNoVersion DEF OneHolder, Running
<1>3. ServiceInv' /\ IdentityKept' /\ NothingDangles'
  BY <1>1, Serving
<1>4. TypeOK'
  <2>1. NoLoc \in Remembered
    BY DEF NoLoc, Remembered
  <2>2. count' \in [{"faults", "restarts", "losses", "requests"} -> Nat]
    BY CountTyped DEF Inv
  <2> QED BY <1>1, <2>1, <2>2, NoRecordTyped, TypedByServing
          DEF Inv, TypeOK
<1> QED BY <1>2, <1>3, <1>4 DEF Inv, IInv

LEMMA Loses ==
    ASSUME Inv, Lose
    PROVE  Inv'
<1> USE DEF dirs, cmdVars, Lose
<1>1. /\ db' \in {db, NoDb} /\ secrets' \in {secrets, 0}
      /\ host' \in {host, 0} /\ config' \in {config, NoFile}
      /\ profile' \in BOOLEAN
  BY DEF Inv, TypeOK
<1>2. TypeOK'
  <2>1. count' \in [{"faults", "restarts", "losses", "requests"} -> Nat]
    BY CountTyped DEF Inv
  <2>2. NoDb \in [key : Nat, id : Nat, ca : BOOLEAN]
    BY DEF NoDb
  <2> QED BY <1>1, <2>1, <2>2, NoFileIsContents DEF Inv, TypeOK
<1>3. OneHolder'
  BY DEF Inv, IInv, OneHolder, Running
<1>4. ServiceInv'
  BY <1>1 DEF Inv, IInv, ServiceInv, NoDb, HasProvider, Answers
<1>5. IdentityKept'
  BY <1>1 DEF Inv, IInv, IdentityKept, NoDb
<1>6. NothingDangles'
  BY DEF Inv, IInv, NothingDangles, Registered
<1> QED BY <1>2, <1>3, <1>4, <1>5, <1>6 DEF Inv, IInv

-----------------------------------------------------------------------------
(* The steps of a command that write a kept file.                          *)

(* The types of what the steps below leave or copy.                        *)
LEMMA Typed ==
    ASSUME TypeOK
    PROVE  /\ record \in Records
           /\ releases \subseteq Versions /\ partial \subseteq Versions
           /\ link \in Versions \cup {None}
           /\ config \in Contents /\ plist \in Contents
           /\ secrets \in Nat /\ host \in Nat /\ inits \in Nat
           /\ profile \in BOOLEAN /\ registry \in BOOLEAN
           /\ db \in [key : Nat, id : Nat, ca : BOOLEAN]
           /\ db.id \in Nat
           /\ rec \in [Cmds -> Records] /\ loc \in [Cmds -> Remembered]
BY DEF TypeOK, Remembered

(* What they have in common: they start and stop nothing.                  *)
LEMMA WriterTyped ==
    ASSUME Inv, NEW c \in Cmds, pc[c] \notin {"idle", "lock"},
           NEW step \in (InstallSteps \cup UninstallSteps) \ {"lock"},
           Go(c, step),
           UNCHANGED <<loaded, served, respawned, inFlight, runners, count>>,
           db' \in [key : Nat, id : Nat, ca : BOOLEAN],
           record' \in Records,
           releases' \subseteq Versions, partial' \subseteq Versions,
           link' \in Versions \cup {None},
           config' \in Contents, plist' \in Contents,
           secrets' \in Nat, host' \in Nat, inits' \in Nat,
           profile' \in BOOLEAN, registry' \in BOOLEAN,
           rec' \in [Cmds -> Records], loc' \in [Cmds -> Remembered]
    PROVE  /\ TypeOK' /\ OneHolder' /\ holder = c /\ holder' = c
           /\ pc'[c] = step /\ mine' = mine /\ mine[c] \in Versions
           /\ HolderInv(c)
<1>1. HolderInv(c)
  BY Knows
<1> QED BY <1>1, GoingOn DEF Inv, IInv, TypeOK, service, Remembered

LEMMA Writers ==
    ASSUME Inv, TypeOK', OneHolder', NEW c \in Cmds, holder' = c,
           HolderInv(c)', ServiceInv', IdentityKept', NothingDangles'
    PROVE  Inv'
BY DEF Inv, IInv

LEMMA Locks ==
    ASSUME Inv, NEW c \in Cmds, Lock(c)
    PROVE  Inv'
<1> USE DEF dirs, managed, identity, service, world
<1>1. pc[c] = "lock" /\ holder = None /\ holder' = c /\ record' = rec[c]
      /\ mine' = mine /\ rec' = rec /\ loc' = loc
  BY DEF Lock, At, Allowed
<1>2. pc'[c] \in {"place", "check"}
      /\ \A d \in Cmds : d # c => pc'[d] = pc[d]
  BY DEF Lock, Inv, TypeOK
<1>3. mine[c] \in Versions
  BY <1>1, CommandTyped DEF Running
<1>4. OneHolder'
  BY <1>1, <1>2, <1>3, NoneIsNoVersion DEF Inv, IInv, OneHolder, Running
<1>5. record'.controller = record.controller
  <2>1. Unchanged(c)
    BY <1>1 DEF Lock, At, Allowed
  <2> QED BY <1>1, <1>3, <2>1, NoRecordTyped DEF Unchanged
<1>6. ServiceInv' /\ NothingDangles'
  BY DEF Lock, Inv, IInv, ServiceInv, NothingDangles, Registered, Answers
<1>7. IdentityKept'
  BY <1>5 DEF Lock, Inv, IInv, IdentityKept
<1>8. HolderInv(c)'
  <2>1. pc'[c] \notin Placed \cup Told \cup Listed \cup Bound \cup Emptied
                      \cup {"plist", "login", "read", "backup", "unplist"}
    BY <1>2 DEF Placed, Told, Listed, Bound, Emptied, InstallSteps,
                UninstallSteps
  <2> QED BY <1>1, <2>1 DEF HolderInv
<1>9. TypeOK'
  <2>1. pc' \in [Cmds -> InstallSteps \cup UninstallSteps \cup {"idle"}]
    <3>1. {"place", "check"} \subseteq InstallSteps
      BY DEF InstallSteps
    <3> QED BY <3>1 DEF Lock, Inv, TypeOK
  <2> QED BY <1>1, <2>1 DEF Lock, Inv, TypeOK
<1> QED BY <1>1, <1>4, <1>6, <1>7, <1>8, <1>9, Writers

LEMMA ChangesVersion ==
    ASSUME Inv, NEW c \in Cmds, ChangeVersion(c)
    PROVE  Inv'
<1> USE DEF dirs, managed, identity, service, world
<1>1. pc[c] = "backup" /\ Go(c, "place")
  BY DEF ChangeVersion, At
<1>2. holder = c /\ HolderInv(c) /\ mine[c] \in Versions
  BY <1>1, Knows
<1>3. PICK r \in Records : /\ record' = r /\ Learn(c, r)
                           /\ r.controller = rec[c].controller
  <2>1. rec[c] \in Records
    BY DEF Inv, TypeOK
  <2> DEFINE r == [rec[c] EXCEPT !.version = mine[c],
                                 !.prev = rec[c].version]
  <2>2. r \in Records /\ r.controller = rec[c].controller
    BY <1>2, <2>1 DEF Records
  <2>3. record' = r /\ Learn(c, r)
    BY DEF ChangeVersion
  <2> QED BY <2>2, <2>3
<1>4. rec' \in [Cmds -> Records] /\ rec'[c] = record'
  BY <1>3, Learned DEF Inv
<1>5. /\ TypeOK' /\ OneHolder' /\ holder' = c /\ pc'[c] = "place"
      /\ mine' = mine
  <2>1. "place" \in (InstallSteps \cup UninstallSteps) \ {"lock"}
    BY DEF InstallSteps
  <2> QED BY <1>1, <1>3, <1>4, <2>1, WriterTyped, Typed
          DEF ChangeVersion, Inv
<1>6. record'.controller = record.controller
  BY <1>2, <1>3 DEF HolderInv
<1>7. ServiceInv' /\ NothingDangles'
  BY DEF ChangeVersion, Inv, IInv, ServiceInv, NothingDangles, Registered,
         Answers
<1>8. IdentityKept'
  BY <1>6 DEF ChangeVersion, Inv, IInv, IdentityKept
<1>9. HolderInv(c)'
  <2>1. pc'[c] \notin Placed \cup Told \cup Listed \cup Bound \cup Emptied
                      \cup {"plist", "login", "read", "backup", "unplist"}
    BY <1>5 DEF Placed, Told, Listed, Bound, Emptied, InstallSteps,
                UninstallSteps
  <2> QED BY <1>4, <2>1 DEF HolderInv
<1> QED BY <1>5, <1>7, <1>8, <1>9, Writers

LEMMA PlacesRelease ==
    ASSUME Inv, NEW c \in Cmds, PlaceRelease(c)
    PROVE  Inv'
<1> USE DEF dirs, managed, identity, service, world, Keep
<1>1. pc[c] = "place" /\ Go(c, "secrets")
  BY DEF PlaceRelease, At
<1>2. HolderInv(c) /\ mine[c] \in Versions
  BY <1>1, Knows
<1>3. /\ TypeOK' /\ OneHolder' /\ holder' = c /\ pc'[c] = "secrets"
      /\ mine' = mine
  <2>1. "secrets" \in (InstallSteps \cup UninstallSteps) \ {"lock"}
    BY DEF InstallSteps
  <2> QED BY <1>1, <1>2, <2>1, WriterTyped, Typed
          DEF PlaceRelease, Inv
<1>4. ServiceInv' /\ IdentityKept'
  BY DEF PlaceRelease, Inv, IInv, ServiceInv, IdentityKept, Answers
<1>5. NothingDangles'
  BY DEF PlaceRelease, Inv, IInv, NothingDangles, Registered
<1>6. HolderInv(c)'
  <2>1. pc'[c] \notin Told \cup Listed \cup Bound \cup Emptied
                      \cup {"plist", "login", "read", "backup", "unplist"}
    BY <1>3 DEF Placed, Told, Listed, Bound, Emptied, InstallSteps,
                UninstallSteps
  <2> QED BY <1>2, <1>3, <2>1 DEF PlaceRelease, HolderInv
<1> QED BY <1>3, <1>4, <1>5, <1>6, Writers

LEMMA MakesSecrets ==
    ASSUME Inv, NEW c \in Cmds, EnsureSecrets(c)
    PROVE  Inv'
<1> USE DEF dirs, managed, identity, service, world, Keep
<1>1. pc[c] = "secrets" /\ Go(c, "prepare") /\ Preserved(rec[c])
  BY DEF EnsureSecrets, At, Allowed
<1>2. HolderInv(c) /\ mine[c] \in Versions
  BY <1>1, Knows
<1>3. secrets' \in Nat
  BY DEF EnsureSecrets, Inv, TypeOK
<1>4. /\ TypeOK' /\ OneHolder' /\ holder' = c /\ pc'[c] = "prepare"
      /\ mine' = mine
  <2>1. "prepare" \in (InstallSteps \cup UninstallSteps) \ {"lock"}
    BY DEF InstallSteps
  <2> QED BY <1>1, <1>3, <2>1, WriterTyped, Typed
          DEF EnsureSecrets, Inv
<1>5. ServiceInv' /\ NothingDangles'
  BY DEF EnsureSecrets, Inv, IInv, ServiceInv, NothingDangles, Registered,
         Answers
<1>6. IdentityKept'
  BY <1>1 DEF EnsureSecrets, Inv, IInv, IdentityKept, Preserved
<1>7. HolderInv(c)'
  <2>1. pc'[c] \notin Told \cup Listed \cup Bound \cup Emptied
                      \cup {"plist", "login", "read", "backup", "unplist"}
        /\ pc[c] \in Placed
    BY <1>1, <1>4 DEF Placed, Told, Listed, Bound, Emptied, InstallSteps,
                UninstallSteps
  <2> QED BY <1>2, <1>4, <2>1 DEF EnsureSecrets, HolderInv
<1> QED BY <1>4, <1>5, <1>6, <1>7, Writers

LEMMA WritesConfig ==
    ASSUME Inv, NEW c \in Cmds, WriteConfig(c)
    PROVE  Inv'
<1> USE DEF dirs, managed, identity, service, world
<1>1. pc[c] = "config" /\ Go(c, "plist") /\ config' = Wanted(c)
      /\ Learn(c, [rec[c] EXCEPT !.config = Wanted(c)])
      /\ Note(c, [loc[c] EXCEPT !.early = (config # Wanted(c))])
  BY DEF WriteConfig, At
<1>2. HolderInv(c) /\ mine[c] \in Versions
  BY <1>1, Knows
<1>3. Wanted(c) \in Contents
      /\ (HasProvider(Wanted(c)) => Wanted(c)[2] = mine[c])
  BY <1>2, Rendered, BareIsRendered DEF Wanted, HasProvider
<1>4. /\ rec' \in [Cmds -> Records]
      /\ rec'[c].version = rec[c].version
      /\ rec'[c].controller = rec[c].controller
  <2>1. rec[c] \in Records
    BY DEF Inv, TypeOK
  <2>2. /\ [rec[c] EXCEPT !.config = Wanted(c)] \in Records
        /\ [rec[c] EXCEPT !.config = Wanted(c)].version = rec[c].version
        /\ [rec[c] EXCEPT !.config = Wanted(c)].controller
               = rec[c].controller
    BY <1>3, <2>1 DEF Records
  <2> QED BY <1>1, <2>2, Learned DEF Inv
<1>5. loc' \in [Cmds -> Remembered] /\ loc'[c].host = loc[c].host
  <2>1. (config # Wanted(c)) \in BOOLEAN
    OBVIOUS
  <2>2. [loc[c] EXCEPT !.early = (config # Wanted(c))] \in Remembered
        /\ [loc[c] EXCEPT !.early = (config # Wanted(c))].host = loc[c].host
    BY <2>1, NoteOf DEF Inv
  <2> QED BY <1>1, <2>2, Noted DEF Inv
<1>6. /\ TypeOK' /\ OneHolder' /\ holder' = c /\ pc'[c] = "plist"
      /\ mine' = mine
  <2>1. "plist" \in (InstallSteps \cup UninstallSteps) \ {"lock"}
    BY DEF InstallSteps
  <2> QED BY <1>1, <1>3, <1>4, <1>5, <2>1, WriterTyped, Typed
          DEF WriteConfig, Inv
<1>7. mine[c] \in releases /\ pc[c] \in Told /\ pc[c] \in Placed
  BY <1>1, <1>2 DEF HolderInv, Placed, Told, InstallSteps
<1>8. ServiceInv'
  BY <1>1, <1>3, <1>7 DEF WriteConfig, Inv, IInv, ServiceInv, Answers
<1>9. NothingDangles' /\ IdentityKept'
  BY DEF WriteConfig, Inv, IInv, NothingDangles, Registered, IdentityKept
<1>10. HolderInv(c)'
  <2>1. pc'[c] \notin Listed \cup Bound \cup Emptied
                      \cup {"login", "read", "backup", "unplist"}
    BY <1>6 DEF Placed, Listed, Bound, Emptied, InstallSteps,
                UninstallSteps
  <2>2. HasProvider(config') => config'[2] = mine[c]
    BY <1>1, <1>3
  <2> QED BY <1>2, <1>4, <1>5, <1>6, <1>7, <2>1, <2>2
          DEF WriteConfig, HolderInv
<1> QED BY <1>6, <1>8, <1>9, <1>10, Writers

LEMMA WritesPlist ==
    ASSUME Inv, NEW c \in Cmds, WritePlist(c)
    PROVE  Inv'
<1> USE DEF dirs, managed, identity, service, world
<1> DEFINE file == Render(mine[c], mine[c])
<1>1. pc[c] = "plist" /\ Go(c, "start") /\ plist' = file
      /\ Learn(c, [rec[c] EXCEPT !.plist = file])
  BY DEF WritePlist, At
<1>2. HolderInv(c) /\ mine[c] \in Versions
  BY <1>1, Knows
<1>3. file \in Contents /\ file # NoFile /\ file[2] = mine[c]
  BY <1>2, Rendered
<1> HIDE DEF file
<1>4. /\ rec' \in [Cmds -> Records]
      /\ rec'[c].version = rec[c].version
      /\ rec'[c].controller = rec[c].controller
  <2>1. rec[c] \in Records
    BY DEF Inv, TypeOK
  <2>2. /\ [rec[c] EXCEPT !.plist = file] \in Records
        /\ [rec[c] EXCEPT !.plist = file].version = rec[c].version
        /\ [rec[c] EXCEPT !.plist = file].controller = rec[c].controller
    BY <1>3, <2>1 DEF Records
  <2> QED BY <1>1, <2>2, Learned DEF Inv
<1>5. /\ TypeOK' /\ OneHolder' /\ holder' = c /\ pc'[c] = "start"
      /\ mine' = mine
  <2>1. "start" \in (InstallSteps \cup UninstallSteps) \ {"lock"}
    BY DEF InstallSteps
  <2> QED BY <1>1, <1>3, <1>4, <2>1, WriterTyped, Typed
          DEF WritePlist, Inv
<1>6. mine[c] \in releases /\ pc[c] \in Told /\ pc[c] \in Placed
      /\ (HasProvider(config) => config[2] = mine[c])
  BY <1>1, <1>2 DEF HolderInv, Placed, Told, InstallSteps
<1>7. ServiceInv' /\ NothingDangles'
  BY <1>1, <1>3, <1>6 DEF WritePlist, Inv, IInv, ServiceInv, Answers,
     NothingDangles, Registered, HasProvider
<1>8. IdentityKept'
  BY DEF WritePlist, Inv, IInv, IdentityKept
<1>9. HolderInv(c)'
  <2>1. pc'[c] \notin Bound \cup Emptied
                      \cup {"plist", "login", "read", "backup", "unplist"}
    BY <1>5 DEF Placed, Listed, Bound, Emptied, InstallSteps,
                UninstallSteps
  <2> QED BY <1>1, <1>2, <1>4, <1>5, <1>6, <2>1
          DEF WritePlist, HolderInv, file
<1> QED BY <1>5, <1>7, <1>8, <1>9, Writers

LEMMA WaitsForController ==
    ASSUME Inv, NEW c \in Cmds, WaitController(c)
    PROVE  Inv'
<1> USE DEF files, dirs, managed, identity, Keep
<1>1. pc[c] = "wait" /\ Answers /\ (db.id # 0 \/ Unbound(c))
      /\ Go(c, IF profile THEN "read" ELSE "login")
  BY DEF WaitController, At, Allowed
<1>2. HolderInv(c) /\ mine[c] \in Versions
  BY <1>1, Knows
<1>3. /\ db' \in [key : Nat, id : Nat, ca : BOOLEAN]
      /\ db'.key = db.key /\ db'.ca = db.ca /\ db'.id # 0
      /\ db.id # 0 => db' = db
      /\ inits' \in Nat
  <2>1. inits \in Nat /\ db \in [key : Nat, id : Nat, ca : BOOLEAN]
    BY DEF Inv, TypeOK
  <2>2. CASE db.id = 0
    BY <2>1, <2>2 DEF WaitController
  <2>3. CASE db.id # 0
    BY <2>1, <2>3 DEF WaitController
  <2> QED BY <2>2, <2>3
<1>4. /\ TypeOK' /\ OneHolder' /\ holder' = c /\ pc'[c] \in {"read", "login"}
      /\ mine' = mine
  <2>1. {"read", "login"} \subseteq
            (InstallSteps \cup UninstallSteps) \ {"lock"}
    BY DEF InstallSteps
  <2> QED BY <1>1, <1>3, <2>1, WriterTyped, Typed
          DEF WaitController, Inv
<1>5. pc[c] \in Told /\ pc[c] \in Placed /\ pc[c] \in Listed
  BY <1>1 DEF Told, Listed, Placed, InstallSteps
<1>6. db.id # 0 \/ (host = 0 /\ record.controller = 0)
  BY <1>1, <1>2, <1>5 DEF HolderInv, Unbound
<1>7. ServiceInv' /\ NothingDangles'
  BY <1>1, <1>3 DEF WaitController, Inv, IInv, ServiceInv, NothingDangles,
     Registered, Answers
<1>8. IdentityKept'
  BY <1>3, <1>6 DEF WaitController, Inv, IInv, IdentityKept
<1>9. HolderInv(c)'
  <2>1. pc'[c] \notin Bound \cup Emptied \cup {"plist", "backup", "unplist"}
    BY <1>4 DEF Placed, Listed, Bound, Emptied, InstallSteps,
                UninstallSteps
  <2> QED BY <1>2, <1>3, <1>4, <1>5, <2>1 DEF WaitController, HolderInv
<1> QED BY <1>4, <1>7, <1>8, <1>9, Writers

LEMMA ReadsController ==
    ASSUME Inv, NEW c \in Cmds, ReadController(c)
    PROVE  Inv'
<1> USE DEF files, dirs, managed, identity, Keep, world
<1>1. pc[c] = "read" /\ Answers /\ IsTheController(c) /\ (db.ca \/ Unbound(c))
  BY DEF ReadController, At, Allowed
<1>2. HolderInv(c) /\ mine[c] \in Versions
  BY <1>1, Knows
<1>3. pc[c] \in Told /\ pc[c] \in Placed /\ pc[c] \in Listed /\ db.id # 0
  BY <1>1, <1>2 DEF Told, Listed, Placed, InstallSteps, HolderInv
<1>4. loc[c].host = host /\ rec[c].controller = record.controller
  BY <1>2, <1>3 DEF HolderInv
<1>5. host \in {0, db.id} /\ record.controller \in {0, db.id}
  BY <1>1, <1>4 DEF IsTheController
<1>6. /\ db' \in [key : Nat, id : Nat, ca : BOOLEAN]
      /\ db'.key = db.key /\ db'.id = db.id /\ db'.ca
      /\ \E step \in {"read", "host", "registry"} :
            /\ Go(c, step)
            /\ step = "host" => loc[c].host = 0
  <2>1. db \in [key : Nat, id : Nat, ca : BOOLEAN]
    BY DEF Inv, TypeOK
  <2>2. CASE db.ca
    BY <2>1, <2>2 DEF ReadController
  <2>3. CASE ~db.ca
    BY <2>1, <2>3 DEF ReadController
  <2> QED BY <2>2, <2>3
<1>7. /\ TypeOK' /\ OneHolder' /\ holder' = c
      /\ pc'[c] \in {"read", "host", "registry"} /\ mine' = mine
  <2>1. PICK step \in {"read", "host", "registry"} : Go(c, step)
    BY <1>6
  <2>2. step \in (InstallSteps \cup UninstallSteps) \ {"lock"}
    BY DEF InstallSteps
  <2> QED BY <1>1, <1>6, <2>1, <2>2, WriterTyped, Typed
          DEF ReadController, Inv
<1>8. ServiceInv' /\ NothingDangles'
  BY <1>1, <1>6 DEF ReadController, Inv, IInv, ServiceInv, NothingDangles,
     Registered, Answers
<1>9. IdentityKept'
  BY <1>5, <1>6 DEF ReadController, Inv, IInv, IdentityKept
<1>10. HolderInv(c)'
  <2>1. pc'[c] \notin Emptied \cup {"plist", "backup", "unplist", "login"}
    BY <1>7 DEF Emptied, UninstallSteps
  <2> QED BY <1>2, <1>3, <1>4, <1>5, <1>6, <1>7, <2>1
          DEF ReadController, HolderInv
<1> QED BY <1>7, <1>8, <1>9, <1>10, Writers

LEMMA CreatesHost ==
    ASSUME Inv, NEW c \in Cmds, CreateHost(c)
    PROVE  Inv'
<1> USE DEF dirs, managed, identity, Keep, world, service
<1>1. pc[c] = "host" /\ host = 0 /\ Go(c, "registry") /\ host' = db.id
  BY DEF CreateHost, At, Allowed
<1>2. HolderInv(c) /\ mine[c] \in Versions
  BY <1>1, Knows
<1>3. /\ pc[c] \in Told /\ pc[c] \in Placed /\ pc[c] \in Listed
      /\ pc[c] \in Bound
  BY <1>1 DEF Told, Listed, Placed, Bound, InstallSteps
<1>4. db.id # 0 /\ db.ca /\ record.controller \in {0, db.id}
  BY <1>2, <1>3 DEF HolderInv
<1>5. /\ TypeOK' /\ OneHolder' /\ holder' = c /\ pc'[c] = "registry"
      /\ mine' = mine
  <2>1. "registry" \in (InstallSteps \cup UninstallSteps) \ {"lock"}
    BY DEF InstallSteps
  <2> QED BY <1>1, <2>1, WriterTyped, Typed
          DEF CreateHost, Inv
<1>6. ServiceInv' /\ NothingDangles'
  BY DEF CreateHost, Inv, IInv, ServiceInv, NothingDangles, Registered,
     Answers
<1>7. IdentityKept'
  BY <1>1, <1>4 DEF CreateHost, Inv, IInv, IdentityKept
<1>8. HolderInv(c)'
  <2>1. pc'[c] \notin Told \cup Emptied
                      \cup {"plist", "backup", "unplist", "login", "read"}
    BY <1>5 DEF Told, Emptied, UninstallSteps
  <2> QED BY <1>1, <1>2, <1>3, <1>4, <1>5, <2>1 DEF CreateHost, HolderInv
<1> QED BY <1>5, <1>6, <1>7, <1>8, Writers

(* Two steps save the record, one of them with the controller it found.    *)
LEMMA Saves ==
    ASSUME Inv, NEW c \in Cmds, SaveBinding(c) \/ SaveFiles(c)
    PROVE  Inv'
<1> USE DEF dirs, managed, identity, world, service
<1>1. PICK step \in {"enable", "restart"} : Go(c, step)
  BY DEF SaveBinding, SaveFiles
<1>2. pc[c] \in {"bind", "save"}
  BY DEF SaveBinding, SaveFiles, At
<1>3. HolderInv(c) /\ mine[c] \in Versions
  BY <1>2, Knows
<1>4. pc[c] \in Placed /\ pc[c] \in Listed /\ pc[c] \in Bound
  BY <1>2 DEF Listed, Placed, Bound, InstallSteps
<1>5. db.id # 0 /\ db.ca /\ record.controller \in {0, db.id}
      /\ host \in {0, db.id}
  BY <1>3, <1>4 DEF HolderInv
<1>6. /\ record' \in Records /\ record'.version = record.version
      /\ record'.controller \in {0, db.id}
      /\ rec' \in [Cmds -> Records] /\ rec'[c] = record'
  <2>1. rec[c] \in Records /\ db.id \in Nat
    BY DEF Inv, TypeOK
  <2>2. PICK r \in Records : /\ Save(c, r) /\ r.version = rec[c].version
                             /\ r.controller \in {rec[c].controller, db.id}
    <3>1. CASE SaveBinding(c)
      BY <2>1, <3>1 DEF SaveBinding, Records
    <3>2. CASE SaveFiles(c)
      BY <2>1, <3>2 DEF SaveFiles
    <3> QED BY <3>1, <3>2
  <2>3. rec' \in [Cmds -> Records] /\ rec'[c] = r /\ record' = r
    BY <2>2, Learned DEF Inv, Save
  <2> QED BY <1>3, <1>5, <2>2, <2>3 DEF HolderInv
<1>7. /\ TypeOK' /\ OneHolder' /\ holder' = c
      /\ pc'[c] \in {"enable", "restart"} /\ mine' = mine
  <2>1. step \in (InstallSteps \cup UninstallSteps) \ {"lock"}
    BY DEF InstallSteps
  <2> QED BY <1>1, <1>2, <1>6, <2>1, WriterTyped, Typed
          DEF SaveBinding, SaveFiles, Inv
<1>8. ServiceInv' /\ NothingDangles'
  BY DEF SaveBinding, SaveFiles, Inv, IInv, ServiceInv, NothingDangles,
     Registered, Answers
<1>9. IdentityKept'
  BY <1>5, <1>6 DEF SaveBinding, SaveFiles, Inv, IInv, IdentityKept
<1>10. HolderInv(c)'
  <2>1. pc'[c] \notin Told \cup Emptied
                      \cup {"plist", "backup", "unplist", "login", "read"}
    BY <1>7 DEF Told, Emptied, UninstallSteps
  <2> QED BY <1>3, <1>4, <1>5, <1>6, <1>7, <2>1
          DEF SaveBinding, SaveFiles, HolderInv
<1> QED BY <1>7, <1>8, <1>9, <1>10, Writers

LEMMA EnablesProvider ==
    ASSUME Inv, NEW c \in Cmds, EnableProvider(c)
    PROVE  Inv'
<1> USE DEF dirs, managed, identity, service, world
<1> DEFINE file == Render(mine[c], mine[c])
<1>1. pc[c] = "enable" /\ Go(c, "save") /\ config' = file
      /\ Learn(c, [rec[c] EXCEPT !.config = file])
      /\ Note(c, [loc[c] EXCEPT !.late = (config # file)])
  BY DEF EnableProvider, At
<1>2. HolderInv(c) /\ mine[c] \in Versions
  BY <1>1, Knows
<1>3. file \in Contents /\ file[2] = mine[c]
  BY <1>2, Rendered
<1> HIDE DEF file
<1>4. /\ rec' \in [Cmds -> Records]
      /\ rec'[c].version = rec[c].version
      /\ rec'[c].controller = rec[c].controller
  <2>1. rec[c] \in Records
    BY DEF Inv, TypeOK
  <2>2. /\ [rec[c] EXCEPT !.config = file] \in Records
        /\ [rec[c] EXCEPT !.config = file].version = rec[c].version
        /\ [rec[c] EXCEPT !.config = file].controller = rec[c].controller
    BY <1>3, <2>1 DEF Records
  <2> QED BY <1>1, <2>2, Learned DEF Inv
<1>5. loc' \in [Cmds -> Remembered]
  <2>1. (config # file) \in BOOLEAN
    OBVIOUS
  <2> QED BY <1>1, <2>1, NoteOf, Noted DEF Inv
<1>6. /\ TypeOK' /\ OneHolder' /\ holder' = c /\ pc'[c] = "save"
      /\ mine' = mine
  <2>1. "save" \in (InstallSteps \cup UninstallSteps) \ {"lock"}
    BY DEF InstallSteps
  <2> QED BY <1>1, <1>3, <1>4, <1>5, <2>1, WriterTyped, Typed
          DEF EnableProvider, Inv
<1>7. /\ pc[c] \in Placed /\ pc[c] \in Listed /\ pc[c] \in Bound
      /\ mine[c] \in releases
  BY <1>1, <1>2 DEF HolderInv, Placed, Listed, Bound, InstallSteps
<1>8. ServiceInv'
  BY <1>1, <1>3, <1>7 DEF EnableProvider, Inv, IInv, ServiceInv, Answers
<1>9. NothingDangles' /\ IdentityKept'
  BY DEF EnableProvider, Inv, IInv, NothingDangles, Registered, IdentityKept
<1>10. HolderInv(c)'
  <2>1. pc'[c] \notin Told \cup Emptied
                      \cup {"plist", "login", "read", "backup", "unplist"}
    BY <1>6 DEF Told, Emptied, UninstallSteps
  <2> QED BY <1>2, <1>4, <1>6, <1>7, <2>1 DEF EnableProvider, HolderInv
<1> QED BY <1>6, <1>8, <1>9, <1>10, Writers

LEMMA Links ==
    ASSUME Inv, NEW c \in Cmds, EnsureLink(c)
    PROVE  Inv'
<1> USE DEF dirs, managed, identity, service, world, Keep
<1>1. pc[c] = "link" /\ Go(c, "finish") /\ link' = mine[c]
  BY DEF EnsureLink, At
<1>2. HolderInv(c) /\ mine[c] \in Versions
  BY <1>1, Knows
<1>3. /\ pc[c] \in Placed /\ pc[c] \in Listed /\ pc[c] \in Bound
      /\ mine[c] \in releases
  BY <1>1, <1>2 DEF HolderInv, Placed, Listed, Bound, InstallSteps
<1>4. /\ TypeOK' /\ OneHolder' /\ holder' = c /\ pc'[c] = "finish"
      /\ mine' = mine
  <2>1. "finish" \in (InstallSteps \cup UninstallSteps) \ {"lock"}
    BY DEF InstallSteps
  <2> QED BY <1>1, <1>2, <2>1, WriterTyped, Typed
          DEF EnsureLink, Inv
<1>5. ServiceInv' /\ IdentityKept'
  BY DEF EnsureLink, Inv, IInv, ServiceInv, Answers, IdentityKept
<1>6. NothingDangles'
  BY <1>1, <1>3 DEF EnsureLink, Inv, IInv, NothingDangles, Registered
<1>7. HolderInv(c)'
  <2>1. pc'[c] \notin Told \cup Emptied
                      \cup {"plist", "login", "read", "backup", "unplist"}
    BY <1>4 DEF Told, Emptied, UninstallSteps
  <2> QED BY <1>2, <1>3, <1>4, <2>1 DEF EnsureLink, HolderInv
<1> QED BY <1>4, <1>5, <1>6, <1>7, Writers

LEMMA Finishes ==
    ASSUME Inv, NEW c \in Cmds, Finish(c)
    PROVE  Inv'
<1> USE DEF dirs, managed, identity, service, world
<1>1. pc[c] = "finish" /\ End(c) /\ record' = [rec[c] EXCEPT !.prev = None]
  BY DEF Finish, At
<1>2. holder = c /\ HolderInv(c)
  BY <1>1, Knows
<1>3. record' \in Records /\ record'.controller = record.controller
  <2>1. rec[c] \in Records
    BY DEF Inv, TypeOK
  <2> QED BY <1>1, <1>2, <2>1 DEF Records, HolderInv
<1>4. OneHolder' /\ holder' = None
  BY <1>1, <1>2, Ending DEF Inv, IInv
<1>5. ServiceInv' /\ NothingDangles'
  BY DEF Finish, Inv, IInv, ServiceInv, Answers, NothingDangles, Registered
<1>6. IdentityKept'
  BY <1>3 DEF Finish, Inv, IInv, IdentityKept
<1>7. TypeOK'
  BY <1>1, <1>3, EndTyped DEF Finish, Inv, TypeOK
<1> QED BY <1>4, <1>5, <1>6, <1>7 DEF Inv, IInv

(* Uninstall removes what names the release before the release.            *)
LEMMA Removes ==
    ASSUME Inv, NEW c \in Cmds,
           RemovePlist(c) \/ RemoveLink(c) \/ RemoveRelease(c)
    PROVE  Inv'
<1> USE DEF dirs, managed, identity, service, world, Keep
<1>1. pc[c] \in {"unplist", "unlink", "remove", "removing"}
  BY DEF RemovePlist, RemoveLink, RemoveRelease, At
<1>2. HolderInv(c) /\ mine[c] \in Versions
  BY <1>1, Knows
<1>3. PICK step \in Emptied : Go(c, step)
  <2>1. {"unlink", "remove", "removing", "logout"} \subseteq Emptied
    BY DEF Emptied, UninstallSteps
  <2> QED BY <2>1 DEF RemovePlist, RemoveLink, RemoveRelease
<1>4. /\ loaded = None /\ loaded' = None /\ served = NoFile
      /\ served' = NoFile /\ plist' = NoFile
      /\ UNCHANGED <<record, config, secrets, host, db, inFlight, rec, loc>>
  <2>1. loaded = None /\ (plist = NoFile \/ pc[c] = "unplist")
    BY <1>1, <1>2 DEF HolderInv, Emptied, UninstallSteps
  <2>2. served = NoFile
    BY <2>1 DEF Inv, IInv, ServiceInv
  <2> QED BY <2>1, <2>2 DEF RemovePlist, RemoveLink, RemoveRelease, At
<1>5. link' \in {link, None} /\ (pc'[c] = "unlink" \/ link' = None)
  <2>1. pc[c] \in {"remove", "removing"} => link = None
    BY <1>2 DEF HolderInv, Emptied, UninstallSteps
  <2> QED BY <2>1 DEF RemovePlist, RemoveLink, RemoveRelease, At, Go, Inv,
                      TypeOK
<1>6. /\ releases' \subseteq releases
      /\ link' = None \/ releases' = releases
  <2>1. pc[c] \in {"remove", "removing"} => link = None
    BY <1>2 DEF HolderInv, Emptied, UninstallSteps
  <2> QED BY <2>1 DEF RemovePlist, RemoveLink, RemoveRelease, At
<1>7. /\ TypeOK' /\ OneHolder' /\ holder' = c /\ pc'[c] = step
      /\ mine' = mine
  <2>1. step \in (InstallSteps \cup UninstallSteps) \ {"lock"}
    BY DEF Emptied, UninstallSteps
  <2>2. /\ releases' \subseteq Versions /\ partial' \subseteq Versions
        /\ link' \in Versions \cup {None}
    BY <1>2, <1>5, <1>6
       DEF RemovePlist, RemoveLink, RemoveRelease, Inv, TypeOK
  <2>3. UNCHANGED <<loaded, served, respawned, inFlight, runners, count, db,
                    inits>>
        /\ profile' = profile /\ registry' = registry
    BY DEF RemovePlist, RemoveLink, RemoveRelease
  <2> QED BY <1>1, <1>3, <1>4, <2>1, <2>2, <2>3, WriterTyped, Typed,
             NoFileIsContents
          DEF Inv
<1>8. ServiceInv' /\ IdentityKept'
  BY <1>4 DEF Inv, IInv, ServiceInv, IdentityKept, Answers
<1>9. NothingDangles'
  BY <1>4, <1>5, <1>6
     DEF Inv, IInv, NothingDangles, Registered, HasProvider
<1>10. HolderInv(c)'
  <2>1. step \notin Placed \cup Told \cup Listed \cup Bound
                    \cup {"plist", "login", "read", "backup", "unplist"}
    BY DEF Placed, Told, Listed, Bound, Emptied, InstallSteps,
           UninstallSteps
  <2> QED BY <1>2, <1>4, <1>5, <1>7, <2>1 DEF HolderInv
<1> QED BY <1>7, <1>8, <1>9, <1>10, Writers

-----------------------------------------------------------------------------
LEMMA Initially == Init => Inv
<1> SUFFICES ASSUME Init  PROVE Inv
  OBVIOUS
<1>1. TypeOK
  <2>1. NoLoc \in Remembered
    BY DEF NoLoc, Remembered
  <2>2. NoDb \in [key : Nat, id : Nat, ca : BOOLEAN]
    BY DEF NoDb
  <2>3. 0 \in 0 .. MaxRunners
    BY InstallerAssumption
  <2>4. /\ record \in Records /\ {config, plist, served} \subseteq Contents
        /\ db \in [key : Nat, id : Nat, ca : BOOLEAN]
    BY <2>2, NoRecordTyped, NoFileIsContents DEF Init
  <2>5. /\ pc \in [Cmds -> InstallSteps \cup UninstallSteps \cup {"idle"}]
        /\ mine \in [Cmds -> Versions \cup {None}]
        /\ rec \in [Cmds -> Records] /\ loc \in [Cmds -> Remembered]
    BY <2>1, NoRecordTyped DEF Init
  <2>6. count \in [{"faults", "restarts", "losses", "requests"} -> Nat]
    BY DEF Init
  <2>7. /\ releases \subseteq Versions /\ partial \subseteq Versions
        /\ {link, loaded} \subseteq Versions \cup {None}
        /\ {secrets, host, inits} \subseteq Nat
        /\ runners \in 0 .. MaxRunners /\ holder \in Cmds \cup {None}
    BY <2>3 DEF Init
  <2>8. {profile, registry, respawned, inFlight} \subseteq BOOLEAN
    BY Zenon DEF Init
  <2> QED BY <2>4, <2>5, <2>6, <2>7, <2>8 DEF TypeOK, Remembered
<1>2. OneHolder
  BY NoneIsNoVersion DEF Init, OneHolder, Running
<1> QED BY <1>1, <1>2
        DEF Init, Inv, IInv, ServiceInv, IdentityKept, NothingDangles,
            NoDb, Answers, Registered, HasProvider

LEMMA InstallStepKeeps ==
    ASSUME Inv, NEW c \in Cmds, Step(c)
    PROVE  Inv'
<1>1. CASE QuietStep(c)
  BY <1>1, Quietly
<1>2. CASE Lock(c)
  BY <1>2, Locks
<1>3. CASE ChangeVersion(c)
  BY <1>3, ChangesVersion
<1>4. CASE PlaceRelease(c)
  BY <1>4, PlacesRelease
<1>5. CASE EnsureSecrets(c)
  BY <1>5, MakesSecrets
<1>6. CASE WriteConfig(c)
  BY <1>6, WritesConfig
<1>7. CASE WritePlist(c)
  BY <1>7, WritesPlist
<1>8. CASE WaitController(c)
  BY <1>8, WaitsForController
<1>9. CASE ReadController(c)
  BY <1>9, ReadsController
<1>10. CASE CreateHost(c)
  BY <1>10, CreatesHost
<1>11. CASE SaveBinding(c) \/ SaveFiles(c)
  BY <1>11, Saves
<1>12. CASE EnableProvider(c)
  BY <1>12, EnablesProvider
<1>13. CASE EnsureLink(c)
  BY <1>13, Links
<1>14. CASE Finish(c)
  BY <1>14, Finishes
<1>15. CASE RemovePlist(c) \/ RemoveLink(c) \/ RemoveRelease(c)
  BY <1>15, Removes
<1>16. CASE RemoveProfile(c) \/ Refuse(c)
  BY <1>16, Ended
<1> QED
  BY <1>1, <1>2, <1>3, <1>4, <1>5, <1>6, <1>7, <1>8, <1>9, <1>10, <1>11,
     <1>12, <1>13, <1>14, <1>15, <1>16
  DEF Step, InstallStep, UninstallStep, QuietStep

LEMMA NextKeeps ==
    ASSUME Inv, [Next]_vars
    PROVE  Inv'
<1>1. CASE \E c \in Cmds : Step(c)
  BY <1>1, InstallStepKeeps
<1>2. CASE \E c \in Cmds : Die(c)
  BY <1>2, Ended
<1>3. CASE \E c \in Cmds, v \in Versions : Install(c, v)
  BY <1>3, Installs
<1>4. CASE \E c \in Cmds, v \in Versions : Uninstall(c, v)
  BY <1>4, Uninstalls
<1>5. CASE \/ \E v \in Versions : GarmCLI(v)
           \/ Respawn \/ CallProvider \/ Provider
  BY <1>5, Elsewhere
<1>6. CASE RestartMachine
  BY <1>6, Restarts
<1>7. CASE Lose
  BY <1>7, Loses
<1>8. CASE UNCHANGED vars
  <2> USE <1>8 DEF vars, files, dirs, managed, identity, service, cmdVars,
                   world
  <2>1. /\ TypeOK' /\ OneHolder' /\ ServiceInv' /\ IdentityKept'
        /\ NothingDangles'
    BY DEF Inv, IInv, TypeOK, OneHolder, Running, ServiceInv, IdentityKept,
           NothingDangles, Answers, Registered
  <2>2. holder' # None => HolderInv(holder)'
    BY DEF Inv, IInv, HolderInv
  <2> QED BY <2>1, <2>2 DEF Inv, IInv
<1> QED BY <1>1, <1>2, <1>3, <1>4, <1>5, <1>6, <1>7, <1>8 DEF Next

LEMMA Always == Spec => []Inv
BY Initially, NextKeeps, PTL DEF Spec

(* Every variable keeps its type, and a running command has a release.     *)
THEOREM InstallTyping == Spec => []TypeOK
<1>1. Inv => TypeOK
  BY DEF Inv
<1> QED BY Always, <1>1, PTL

(* The inductive invariant: one command at a time is past the lock, and    *)
(* what it knows of the installation stays true until it writes it down.   *)
THEOREM InstallInvariance == Spec => []IInv
<1>1. Inv => IInv
  BY DEF Inv
<1> QED BY Always, <1>1, PTL

(* host.toml, the record and the database never name two controllers, and  *)
(* the secrets are those of the database, whichever commands run, die or   *)
(* are resumed, and whatever files were lost (Install).                    *)
THEOREM OneIdentity == Spec => []IdentityKept
<1>1. Inv => IdentityKept
  BY DEF Inv, IInv
<1> QED BY Always, <1>1, PTL

(* Link, LaunchAgent, launchd's job and the running controller's provider  *)
(* all name a complete release, at every point at which an install or an   *)
(* uninstall may die.                                                      *)
THEOREM ReleasesInPlace == Spec => []NothingDangles
<1>1. Inv => NothingDangles
  BY DEF Inv, IInv
<1> QED BY Always, <1>1, PTL

-----------------------------------------------------------------------------
(* Who writes the record, and which version.                               *)
LEMMA VersionsKept ==
    ASSUME Inv, [Next]_vars, record'.version # record.version,
           record # NoRecord
    PROVE  \E c \in Cmds : ChangeVersion(c)
<1> SUFFICES ASSUME ~ \E c \in Cmds : ChangeVersion(c)  PROVE FALSE
  OBVIOUS
<1>1. record' # record
  OBVIOUS
<1>2. ASSUME NEW c \in Cmds, pc[c] \notin {"idle", "lock"}
      PROVE  rec[c].version = record.version /\ rec[c] \in Records
  BY <1>2, Knows DEF HolderInv, Inv, TypeOK
<1>3. PICK c \in Cmds :
          Lock(c) \/ SaveBinding(c) \/ SaveFiles(c) \/ Finish(c)
  <2> USE DEF files, dirs, managed, identity
  <2>1. ASSUME NEW c \in Cmds, Step(c)
        PROVE  \/ Lock(c) \/ SaveBinding(c) \/ SaveFiles(c) \/ Finish(c)
               \/ record' = record
    <3>1. CASE QuietStep(c)
      BY <3>1, QuietSteps DEF kept
    <3>2. CASE \/ PlaceRelease(c) \/ EnsureSecrets(c) \/ WriteConfig(c)
               \/ WritePlist(c) \/ WaitController(c) \/ ReadController(c)
               \/ CreateHost(c) \/ EnableProvider(c) \/ EnsureLink(c)
      BY <3>2 DEF PlaceRelease, EnsureSecrets, WriteConfig, WritePlist,
         WaitController, ReadController, CreateHost, EnableProvider,
         EnsureLink
    <3>3. CASE RemovePlist(c) \/ RemoveLink(c) \/ RemoveRelease(c)
               \/ RemoveProfile(c) \/ Refuse(c)
      BY <3>3 DEF RemovePlist, RemoveLink, RemoveRelease, RemoveProfile,
         Refuse
    <3> QED BY <2>1, <3>1, <3>2, <3>3
            DEF Step, InstallStep, UninstallStep, QuietStep
  <2>2. ASSUME NEW c \in Cmds, NEW v \in Versions,
               Die(c) \/ Install(c, v) \/ Uninstall(c, v) \/ GarmCLI(v)
        PROVE  record' = record
    BY <2>2 DEF Die, Install, Uninstall, GarmCLI
  <2>3. ASSUME NEW c \in Cmds, Die(c)  PROVE record' = record
    BY <2>3 DEF Die
  <2>4. ASSUME NEW v \in Versions, GarmCLI(v)  PROVE record' = record
    BY <2>4 DEF GarmCLI
  <2>5. Respawn \/ RestartMachine \/ Lose \/ CallProvider \/ Provider
            => record' = record
    BY DEF Respawn, RestartMachine, Lose, CallProvider, Provider
  <2>6. UNCHANGED vars => record' = record
    BY DEF vars
  <2> QED BY <1>1, <2>1, <2>2, <2>3, <2>4, <2>5, <2>6 DEF Next
<1>4. CASE Lock(c)
  <2>1. record' = rec[c] /\ Unchanged(c)
    BY <1>4 DEF Lock, At, Allowed
  <2> QED BY <2>1 DEF Unchanged
<1>5. CASE SaveBinding(c)
  <2>1. rec[c].version = record.version /\ rec[c] \in Records
    BY <1>2, <1>5 DEF SaveBinding, At
  <2> QED BY <1>5, <2>1 DEF SaveBinding, Save, Records
<1>6. CASE SaveFiles(c)
  <2>1. rec[c].version = record.version
    BY <1>2, <1>6 DEF SaveFiles, At
  <2> QED BY <1>6, <2>1 DEF SaveFiles, Save
<1>7. CASE Finish(c)
  <2>1. rec[c].version = record.version /\ rec[c] \in Records
    BY <1>2, <1>7 DEF Finish, At
  <2> QED BY <1>7, <2>1 DEF Finish, Records
<1> QED BY <1>3, <1>4, <1>5, <1>6, <1>7

(* The version changes only while the controller is stopped, no provider   *)
(* is at work and there is no runner record: the records are read again    *)
(* after the controller was stopped, and nobody starts it meanwhile.       *)
THEOREM QuietVersionChange == Spec => VersionChangeQuiet
<1>1. Inv /\ [Next]_vars =>
        (record'.version # record.version /\ record # NoRecord =>
            loaded = None /\ runners = 0 /\ ~inFlight)
  <2> SUFFICES ASSUME Inv, [Next]_vars, record'.version # record.version,
                      record # NoRecord
               PROVE  loaded = None /\ runners = 0 /\ ~inFlight
    OBVIOUS
  <2>1. PICK c \in Cmds : ChangeVersion(c)
    BY VersionsKept
  <2>2. pc[c] = "backup" /\ runners = 0
    BY <2>1 DEF ChangeVersion, At, Allowed, StillDrained
  <2>3. loaded = None
    BY <2>2, Knows DEF HolderInv
  <2> QED BY <2>2, <2>3 DEF Inv, IInv, ServiceInv
<1> QED BY Always, <1>1, PTL DEF Spec, VersionChangeQuiet

-----------------------------------------------------------------------------
(* How far an install has come.  The properties of a finished install and  *)
(* of restarts need more than IInv, and Progress is IInv with that.        *)

(* Nothing is there before the first record; a digest of a configuration   *)
(* with the provider comes with a controller; what the controller has read *)
(* of the recorded release's configuration is the file.                    *)
RecordInv ==
    /\ record.version = None =>
           /\ record = NoRecord /\ holder = None
           /\ loaded = None /\ plist = NoFile
    /\ record.version # None => record.prev # record.version
    /\ HasProvider(record.config) => record.controller # 0
    /\ \A c \in Cmds : pc[c] = "lock" => rec[c].version # None
    /\ inFlight => Registered
    /\ served = Render(record.version, record.version) => config = served

(* The steps of a version change, those before the first file is written,  *)
(* those before the configuration is certainly read, and the rest; and     *)
(* those after the configuration with the provider was written.            *)
Changing == {"check", "stop", "backup"}
Unwritten == {"place", "secrets", "prepare", "config"}
Unread == {"plist", "start", "wait", "login", "read", "host", "registry",
           "bind", "enable", "save", "restart"}
Ready == {"provider", "recheck", "link", "finish"}
Enabled == {"save", "restart"} \cup Ready

(* What a command past the lock has already done, and what it has already  *)
(* written down; and that the controller has not read what it wrote.       *)
WorkInv(c) ==
    /\ rec[c].prev = record.prev
    /\ pc[c] \in Changing => rec[c].version # mine[c]
    /\ pc[c] \in Unwritten \cup Unread \cup Ready => rec[c].version = mine[c]
    /\ pc[c] \in Changing \cup Unwritten => rec[c] = record
    /\ pc[c] = "config" /\ record.controller # 0 => host # 0
    /\ pc[c] \in Placed \ {"secrets"} => secrets # 0
    /\ pc[c] \in Listed => rec[c].plist = plist
    /\ pc[c] \in {"registry", "bind", "enable"} \cup Enabled => host = db.id
    /\ pc[c] \in {"bind", "enable"} \cup Enabled => registry
    /\ pc[c] \in {"enable"} \cup Enabled => rec[c].controller = db.id
    /\ pc[c] \in Enabled => /\ config = Render(mine[c], mine[c])
                            /\ rec[c].config = config
    /\ pc[c] \in {"link", "finish"} => Registered
    /\ pc[c] = "finish" => link = mine[c]
    /\ /\ pc[c] \in Unread /\ ~respawned /\ loc[c].early
       /\ ~loc[c].boot \/ pc[c] \in {"plist", "start"}
       => served # Render(mine[c], mine[c])
    /\ pc[c] \in {"save", "restart"} /\ ~respawned /\ loc[c].late =>
           served # Render(mine[c], mine[c])

Progress == Inv /\ RecordInv /\ (holder # None => WorkInv(holder))

-----------------------------------------------------------------------------
(* What leaves the record and the managed files alone.                     *)
LEMMA RecordKept ==
    ASSUME Inv, RecordInv, UNCHANGED <<record, config, plist>>,
           holder' \in {holder, None} \/ record.version # None,
           served' \in {served, NoFile, config},
           inFlight' => Registered',
           record.version = None => loaded' = None,
           \A c \in Cmds : pc'[c] = "lock" => rec'[c].version # None
    PROVE  RecordInv'
<1>1. CASE record.version = None
  <2>1. served = NoFile /\ served' \in {NoFile, config}
    BY <1>1 DEF RecordInv, Inv, IInv, ServiceInv
  <2>2. Render(record.version, record.version) # NoFile
    BY DEF Render, NoFile
  <2> QED BY <1>1, <2>1, <2>2 DEF RecordInv
<1>2. CASE record.version # None
  <2>1. Render(record.version, record.version) # NoFile
    BY DEF Render, NoFile
  <2> QED BY <1>2, <2>1 DEF RecordInv
<1> QED BY <1>1, <1>2

(* The holder's knowledge survives what it does not notice.                *)
LEMMA Undisturbed ==
    ASSUME NEW h \in Cmds, WorkInv(h), UNCHANGED kept,
           pc'[h] = pc[h], mine'[h] = mine[h], rec'[h] = rec[h],
           loc'[h] = loc[h], registry' = registry, db'.id = db.id,
           \/ served' = served /\ respawned' = respawned
           \/ respawned' /\ (pc[h] \in {"link", "finish"} => Registered')
    PROVE  WorkInv(h)'
<1>1. pc[h] \in {"link", "finish"} => Registered'
  BY DEF WorkInv, Registered, HasProvider
<1>2. ~respawned' => served' = served /\ ~respawned
  OBVIOUS
<1> QED BY <1>1, <1>2 DEF WorkInv, kept

LEMMA Going ==
    ASSUME Progress, NEW c \in Cmds, pc[c] \notin {"idle", "lock"}
    PROVE  /\ Inv /\ RecordInv /\ HolderInv(c) /\ WorkInv(c)
           /\ holder = c /\ mine[c] \in Versions
           /\ rec[c] \in Records /\ rec[c].version = record.version
           /\ record.version # None
           /\ mine \in [Cmds -> Versions \cup {None}]
<1>1. holder = c /\ HolderInv(c) /\ mine[c] \in Versions
  BY Knows DEF Progress
<1> QED BY <1>1, NoneIsNoVersion
        DEF Progress, HolderInv, RecordInv, Inv, TypeOK

(* Nobody else is at "lock" with another record because of a step of c.    *)
LEMMA OthersWait ==
    ASSUME Progress, NEW c \in Cmds, NEW step, step # "lock", Go(c, step),
           \A d \in Cmds : d # c => rec'[d] = rec[d]
    PROVE  /\ \A d \in Cmds : pc'[d] = "lock" => rec'[d].version # None
           /\ pc'[c] = step /\ holder' = holder /\ mine' = mine
BY DEF Progress, RecordInv, Inv, TypeOK, Go

LEMMA Renders ==
    ASSUME NEW v \in Versions
    PROVE  /\ HasProvider(Render(v, v)) /\ ~HasProvider(Bare(v))
           /\ Render(v, v) # NoFile /\ Bare(v) # NoFile
           /\ Render(v, v) # Bare(v)
           /\ \A w \in Versions : Render(v, w) = Render(v, v) => w = v
BY NoneIsNoVersion DEF HasProvider, Render, Bare, NoFile

-----------------------------------------------------------------------------
(* Commands that start and end, and what happens outside them.             *)
LEMMA ProgressEnded ==
    ASSUME Progress, NEW c \in Cmds, Refuse(c) \/ Die(c) \/ RemoveProfile(c)
    PROVE  RecordInv' /\ (holder' # None => WorkInv(holder)')
<1> USE DEF files, dirs, managed, identity, service, kept
<1>1. End(c) /\ UNCHANGED <<kept, service, registry>>
  BY DEF Refuse, Die, RemoveProfile
<1>2. Inv /\ RecordInv /\ TypeOK /\ OneHolder
  BY DEF Progress, Inv, IInv
<1>3. /\ holder' = (IF holder = c THEN None ELSE holder)
      /\ \A d \in Cmds : d # c => /\ pc'[d] = pc[d] /\ mine'[d] = mine[d]
                                  /\ rec'[d] = rec[d] /\ loc'[d] = loc[d]
  BY <1>1, <1>2, Ending
<1>4. \A d \in Cmds : pc'[d] = "lock" => rec'[d].version # None
  <2>1. pc'[c] = "idle"
    BY <1>1, <1>2 DEF End, TypeOK
  <2> QED BY <1>2, <1>3, <2>1 DEF RecordInv
<1>5. RecordInv'
  <2>1. inFlight' => Registered'
    BY <1>1, <1>2 DEF RecordInv, Registered
  <2>2. record.version = None => loaded' = None
    BY <1>1, <1>2 DEF RecordInv
  <2> QED BY <1>1, <1>2, <1>3, <1>4, <2>1, <2>2, RecordKept
<1>6. holder' # None => WorkInv(holder)'
  <2> SUFFICES ASSUME holder' # None  PROVE WorkInv(holder)'
    OBVIOUS
  <2>1. PICK h \in Cmds : h = holder /\ h = holder' /\ h # c
    BY <1>2, <1>3 DEF TypeOK
  <2>2. WorkInv(h)
    BY <2>1 DEF Progress
  <2>3. WorkInv(h)'
    BY <1>1, <1>3, <2>1, <2>2, Undisturbed
  <2> QED BY <2>1, <2>3
<1> QED BY <1>5, <1>6

LEMMA ProgressInstalls ==
    ASSUME Progress, NEW c \in Cmds, NEW v \in Versions, Install(c, v)
    PROVE  RecordInv' /\ (holder' # None => WorkInv(holder)')
<1> USE DEF files, dirs, managed, identity, service, kept
<1>1. /\ ~Running(c) /\ holder' = holder
      /\ UNCHANGED <<kept, service, registry, loc>>
      /\ pc' = [pc EXCEPT ![c] = "lock"] /\ mine' = [mine EXCEPT ![c] = v]
      /\ Learn(c, IF record = NoRecord THEN NewRecord(v) ELSE record)
  BY DEF Install
<1>2. Inv /\ RecordInv /\ TypeOK /\ OneHolder
  BY DEF Progress, Inv, IInv
<1>3. /\ pc'[c] = "lock" /\ holder # c
      /\ \A d \in Cmds : d # c => /\ pc'[d] = pc[d] /\ mine'[d] = mine[d]
                                  /\ rec'[d] = rec[d] /\ loc'[d] = loc[d]
  BY <1>1, <1>2 DEF TypeOK, OneHolder, Running, Learn
<1>4. rec'[c].version # None
  <2>1. rec'[c] = IF record = NoRecord THEN NewRecord(v) ELSE record
    BY <1>1, <1>2 DEF Learn, TypeOK
  <2> QED BY <1>2, <2>1, NoRecordTyped, NoneIsNoVersion DEF RecordInv
<1>5. \A d \in Cmds : pc'[d] = "lock" => rec'[d].version # None
  BY <1>2, <1>3, <1>4 DEF RecordInv
<1>6. RecordInv'
  <2>1. inFlight' => Registered'
    BY <1>1, <1>2 DEF RecordInv, Registered
  <2>2. record.version = None => loaded' = None
    BY <1>1, <1>2 DEF RecordInv
  <2> QED BY <1>1, <1>2, <1>5, <2>1, <2>2, RecordKept
<1>7. holder' # None => WorkInv(holder)'
  <2> SUFFICES ASSUME holder' # None  PROVE WorkInv(holder)'
    OBVIOUS
  <2>1. PICK h \in Cmds : h = holder /\ h = holder' /\ h # c
    BY <1>1, <1>2, <1>3 DEF TypeOK
  <2>2. WorkInv(h)
    BY <2>1 DEF Progress
  <2>3. WorkInv(h)'
    BY <1>1, <1>3, <2>1, <2>2, Undisturbed
  <2> QED BY <2>1, <2>3
<1> QED BY <1>6, <1>7

LEMMA ProgressUninstalls ==
    ASSUME Progress, NEW c \in Cmds, NEW v \in Versions, Uninstall(c, v)
    PROVE  RecordInv' /\ (holder' # None => WorkInv(holder)')
<1> USE DEF files, dirs, managed, identity, service, kept
<1>1. /\ record # NoRecord /\ holder' = c
      /\ UNCHANGED <<kept, service, registry, loc>>
      /\ pc' = [pc EXCEPT ![c] = "inspect"] /\ mine' = [mine EXCEPT ![c] = v]
      /\ Learn(c, record)
  BY DEF Uninstall
<1>2. Inv /\ RecordInv /\ TypeOK
  BY DEF Progress, Inv
<1>3. /\ pc'[c] = "inspect" /\ rec'[c] = record
      /\ \A d \in Cmds : d # c => pc'[d] = pc[d] /\ rec'[d] = rec[d]
  BY <1>1, <1>2 DEF TypeOK, Learn
<1>4. record.version # None
  BY <1>1, <1>2 DEF RecordInv
<1>5. RecordInv'
  <2>1. inFlight' => Registered'
    BY <1>1, <1>2 DEF RecordInv, Registered
  <2>2. \A d \in Cmds : pc'[d] = "lock" => rec'[d].version # None
    BY <1>2, <1>3 DEF RecordInv
  <2> QED BY <1>1, <1>2, <1>4, <2>1, <2>2, RecordKept
<1>6. WorkInv(c)'
  <2>1. pc'[c] \notin Changing \cup Unwritten \cup Unread \cup Ready
                      \cup Placed \cup Listed \cup Enabled
    BY <1>3 DEF Changing, Unwritten, Unread, Ready, Placed, Listed, Enabled,
                InstallSteps
  <2> QED BY <1>1, <1>3, <2>1 DEF WorkInv, Unread, Enabled, Ready
<1> QED BY <1>1, <1>5, <1>6

LEMMA ProgressOutside ==
    ASSUME Progress, \/ \E v \in Versions : GarmCLI(v)
                     \/ Respawn \/ CallProvider \/ Provider
    PROVE  RecordInv' /\ (holder' # None => WorkInv(holder)')
<1> USE DEF files, dirs, managed, identity, service, cmdVars, kept
<1>1. UNCHANGED <<kept, registry, loaded, cmdVars>> /\ db'.id = db.id
  <2>1. CASE Respawn
    BY <2>1, Respawned DEF Respawn, Served, Progress
  <2>2. CASE (\E v \in Versions : GarmCLI(v)) \/ CallProvider \/ Provider
    BY <2>2 DEF GarmCLI, CallProvider, Provider
  <2> QED BY <2>1, <2>2
<1>2. Inv /\ RecordInv /\ TypeOK
  BY DEF Progress, Inv
<1>3. /\ served' \in {served, NoFile, config}
      /\ inFlight' => Registered'
      /\ \/ served' = served /\ respawned' = respawned
         \/ /\ respawned'
            /\ holder # None /\ pc[holder] \in {"link", "finish"}
                   => Registered'
  <2>1. CASE Respawn
    <3>1. served' \in {served, NoFile, config} /\ ~inFlight' /\ respawned'
      BY <1>2, <2>1, Respawned DEF Respawn, Served
    <3>2. ASSUME holder # None, pc[holder] \in {"link", "finish"}
          PROVE  Registered'
      <4>1. PICK h \in Cmds : h = holder
        BY <1>2, <3>2 DEF TypeOK
      <4>2. /\ secrets # 0 /\ config = Render(mine[h], mine[h])
            /\ mine[h] \in Versions
        BY <3>2, <4>1, Going
           DEF WorkInv, Placed, Enabled, Ready, InstallSteps
      <4>3. HasProvider(config) /\ config # NoFile
        BY <4>2, Renders
      <4>4. CanRun(loaded)
        BY <1>2, <2>1, <4>2, <4>3
           DEF Respawn, CanRun, Inv, IInv, NothingDangles, IdentityKept,
               TypeOK
      <4>5. served' = config
        BY <2>1, <4>4 DEF Respawn, Starts
      <4> QED BY <4>3, <4>5 DEF Registered, HasProvider
    <3> QED BY <3>1, <3>2
  <2>2. CASE \E v \in Versions : GarmCLI(v)
    BY <1>2, <2>2 DEF GarmCLI, RecordInv, Registered
  <2>3. CASE CallProvider \/ Provider
    BY <1>2, <2>3 DEF CallProvider, Provider, RecordInv, Registered
  <2> QED BY <2>1, <2>2, <2>3
<1>4. RecordInv'
  <2>1. record.version = None => loaded' = None
    BY <1>1, <1>2 DEF RecordInv
  <2>2. \A d \in Cmds : pc'[d] = "lock" => rec'[d].version # None
    BY <1>1, <1>2 DEF RecordInv
  <2> QED BY <1>1, <1>2, <1>3, <2>1, <2>2, RecordKept
<1>5. holder' # None => WorkInv(holder)'
  <2> SUFFICES ASSUME holder' # None  PROVE WorkInv(holder)'
    OBVIOUS
  <2>1. PICK h \in Cmds : h = holder /\ h = holder'
    BY <1>1, <1>2 DEF TypeOK
  <2>2. WorkInv(h) /\ h # None
    BY <2>1, NoneIsNoVersion DEF Progress
  <2>3. WorkInv(h)'
    BY <1>1, <1>3, <2>1, <2>2, Undisturbed
  <2> QED BY <2>1, <2>3
<1> QED BY <1>4, <1>5

LEMMA ProgressRestarts ==
    ASSUME Progress, RestartMachine
    PROVE  RecordInv' /\ holder' = None
<1> USE DEF files, dirs, managed, identity
<1>1. Inv /\ RecordInv /\ TypeOK
  BY DEF Progress, Inv
<1>2. /\ served' \in {served, NoFile, config} /\ ~inFlight'
      /\ plist = NoFile => loaded' = None
  <2>1. CASE plist = NoFile
    BY <2>1 DEF RestartMachine
  <2>2. CASE plist # NoFile
    <3>1. plist[2] \in Versions
      BY <1>1, <2>2, PlistRelease
    <3> QED BY <1>1, <2>2, <3>1, Starting DEF RestartMachine
  <2> QED BY <2>1, <2>2
<1>3. UNCHANGED <<record, config, plist>> /\ holder' = None
      /\ \A c \in Cmds : pc'[c] = "idle"
  BY DEF RestartMachine
<1>4. record.version = None => loaded' = None
  BY <1>1, <1>2 DEF RecordInv
<1> QED BY <1>1, <1>2, <1>3, <1>4, RecordKept

LEMMA ProgressLoses ==
    ASSUME Progress, Lose
    PROVE  RecordInv' /\ holder' = None
<1>1. Inv /\ RecordInv /\ served = NoFile /\ ~inFlight
  BY DEF Progress, Inv, IInv, ServiceInv, Lose
<1>2. Render(record.version, record.version) # NoFile
  BY DEF Render, NoFile
<1> QED BY <1>1, <1>2 DEF Lose, RecordInv, cmdVars, dirs

-----------------------------------------------------------------------------
(* The steps of the holder that write no kept file.                        *)
LEMMA Flying ==
    ASSUME Inv, RecordInv,
           \/ UNCHANGED service
           \/ Kickstart \/ EnsureRunning \/ StopService
    PROVE  inFlight' => Registered'
<1>1. CASE UNCHANGED service
  BY <1>1 DEF RecordInv, Registered, service
<1>2. CASE Kickstart \/ StopService
  BY <1>2 DEF Kickstart, StopService
<1>3. CASE EnsureRunning
  <2>1. CASE loaded = None
    BY <1>3, <2>1 DEF EnsureRunning, Bootstrap, Inv, IInv, ServiceInv
  <2>2. CASE loaded # None /\ served = NoFile
    BY <1>3, <2>2 DEF EnsureRunning, RecordInv, Registered, HasProvider
  <2>3. CASE loaded # None /\ served # NoFile
    BY <1>1, <1>3, <2>3 DEF EnsureRunning
  <2> QED BY <2>1, <2>2, <2>3
<1> QED BY <1>1, <1>2, <1>3

LEMMA QuietService ==
    ASSUME NEW c \in Cmds, QuietStep(c)
    PROVE  UNCHANGED service \/ Kickstart \/ EnsureRunning \/ StopService
BY DEF QuietStep, CheckVersionChange, Stop, Inspect, StartService, Login,
       Prepare, InitializeRegistry, RestartService, EnsureProvider,
       CheckProvider

LEMMA QuietRecord ==
    ASSUME Progress, NEW c \in Cmds, QuietStep(c)
    PROVE  RecordInv'
<1>1. Inv /\ RecordInv /\ record.version # None
  BY QuietMoves, Going DEF Progress
<1>2. Served /\ UNCHANGED kept /\ rec' = rec
  BY <1>1, QuietSteps
<1>3. PICK step \in (InstallSteps \cup UninstallSteps) \ {"lock"} :
          Go(c, step)
  BY <1>1, QuietSteps
<1>4. \A d \in Cmds : pc'[d] = "lock" => rec'[d].version # None
  BY <1>2, <1>3, OthersWait
<1>5. inFlight' => Registered'
  BY <1>1, QuietService, Flying
<1> QED BY <1>1, <1>2, <1>4, <1>5, RecordKept DEF Served, kept

LEMMA QuietWork ==
    ASSUME Progress, NEW c \in Cmds, QuietStep(c)
    PROVE  WorkInv(c)'
<1>1. /\ pc[c] \notin {"idle", "lock"} /\ Inv /\ TypeOK
      /\ WorkInv(c) /\ HolderInv(c)
  BY QuietMoves, Going DEF Progress, Inv
<1>2. UNCHANGED kept /\ rec' = rec /\ db'.id = db.id
  BY <1>1, QuietSteps DEF Served
<1>3. mine' = mine
  BY <1>1, QuietSteps DEF Go
<1>4. \A step : Go(c, step) => pc'[c] = step
  BY <1>1 DEF Go, TypeOK
<1> USE DEF At, Keep, files, identity
<1>5. CASE CheckVersionChange(c) \/ Inspect(c) \/ Stop(c) \/ Prepare(c)
  <2>1. /\ pc'[c] \notin Unread \cup Ready \cup Listed \cup Enabled
        /\ pc'[c] \notin {"registry", "bind", "enable"}
        /\ pc'[c] \in Placed \ {"secrets"} => pc[c] \in Placed \ {"secrets"}
        /\ pc'[c] \in Changing => pc[c] \in Changing
        /\ pc'[c] \in Unwritten => pc[c] \in Unwritten
        /\ pc'[c] = "config" => Prepare(c)
    BY <1>4, <1>5
       DEF CheckVersionChange, Inspect, Stop, Prepare, Changing, Unwritten,
           Unread, Ready, Enabled, Placed, Listed, InstallSteps
  <2>2. Prepare(c) /\ record.controller # 0 => host # 0
    BY <1>1 DEF Prepare, Allowed, BindingAgrees, HolderInv
  <2> QED BY <1>1, <1>2, <1>3, <2>1, <2>2
          DEF WorkInv, kept, Unread, Enabled, Ready
<1>6. CASE StartService(c)
  <2>1. /\ pc[c] = "start" /\ pc'[c] = "wait" /\ EnsureRunning
        /\ Note(c, [loc[c] EXCEPT !.boot = (loaded = None)])
    BY <1>4, <1>6 DEF StartService
  <2>2. loc'[c].early = loc[c].early /\ loc'[c].boot = (loaded = None)
    BY <1>1, <2>1 DEF Note, TypeOK
  <2>3. ~respawned' /\ ~loc'[c].boot =>
            served' = served /\ respawned' = respawned
    BY <2>1, <2>2 DEF EnsureRunning, service
  <2>4. ~respawned' /\ loc'[c].early /\ ~loc'[c].boot =>
            served' # Render(mine[c], mine[c])
    BY <1>1, <2>1, <2>2, <2>3 DEF WorkInv, Unread
  <2>5. secrets # 0 /\ rec[c].plist = plist /\ rec[c].version = mine[c]
        /\ rec[c].prev = record.prev
    BY <1>1, <2>1 DEF WorkInv, Unread, Placed, Listed, InstallSteps
  <2> QED BY <1>2, <1>3, <2>1, <2>4, <2>5
          DEF WorkInv, kept, Changing, Unwritten, Enabled, Ready
<1>7. CASE Login(c) \/ InitializeRegistry(c)
  <2>1. \/ pc[c] = "login" /\ pc'[c] = "read" /\ registry' = registry
        \/ pc[c] = "registry" /\ pc'[c] = "bind" /\ registry'
    BY <1>4, <1>7 DEF Login, InitializeRegistry
  <2>2. loc' = loc /\ served' = served /\ respawned' = respawned
    BY <1>7 DEF Login, InitializeRegistry, service
  <2> QED BY <1>1, <1>2, <1>3, <2>1, <2>2
          DEF WorkInv, kept, Changing, Unwritten, Unread, Enabled, Ready,
              Placed, Listed, InstallSteps
<1>8. CASE RestartService(c) \/ EnsureProvider(c) \/ CheckProvider(c)
  <2>1. /\ pc[c] \in {"restart", "provider", "recheck"}
        /\ pc'[c] \in {"provider", "recheck", "link"}
        /\ registry' = registry
        /\ pc'[c] = "link" => Registered'
    <3>1. CASE RestartService(c)
      BY <1>4, <3>1 DEF RestartService
    <3>2. CASE EnsureProvider(c)
      BY <1>4, <3>2 DEF EnsureProvider, service, Registered
    <3>3. CASE CheckProvider(c)
      BY <1>4, <3>3 DEF CheckProvider, Allowed, service, Registered
    <3> QED BY <1>8, <3>1, <3>2, <3>3
  <2>2. /\ secrets # 0 /\ rec[c].plist = plist /\ rec[c].version = mine[c]
        /\ rec[c].prev = record.prev /\ host = db.id /\ registry
        /\ rec[c].controller = db.id /\ config = Render(mine[c], mine[c])
        /\ rec[c].config = config
    BY <1>1, <2>1
       DEF WorkInv, Unread, Ready, Enabled, Placed, Listed, InstallSteps
  <2> QED BY <1>2, <1>3, <2>1, <2>2
          DEF WorkInv, kept, Changing, Unwritten, Unread
<1> QED BY <1>5, <1>6, <1>7, <1>8 DEF QuietStep

-----------------------------------------------------------------------------
(* The steps of the holder that write.                                     *)
LEMMA Written ==
    ASSUME Progress, NEW c \in Cmds, NEW step, step # "lock", Go(c, step),
           \A d \in Cmds : d # c => rec'[d] = rec[d],
           UNCHANGED <<loaded, served, inFlight>>,
           record'.version # None, record'.prev # record'.version,
           HasProvider(record'.config) => record'.controller # 0,
           served = Render(record'.version, record'.version)
               => config' = served
    PROVE  RecordInv'
<1>1. \A d \in Cmds : pc'[d] = "lock" => rec'[d].version # None
  BY OthersWait
<1>2. Render(record'.version, record'.version)
          = Render(record.version, record.version)'
  BY DEF Render, Author
<1>3. inFlight' => Registered'
  BY DEF Progress, RecordInv, Registered
<1>4. RecordInv
  BY DEF Progress
<1> QED BY <1>1, <1>2, <1>3, <1>4 DEF RecordInv

(* What a step tells the command it belongs to, it tells nobody else.      *)
LEMMA ToldAlone ==
    ASSUME Inv, NEW c \in Cmds, NEW r, Learn(c, r) \/ rec' = rec
    PROVE  /\ \A d \in Cmds : d # c => rec'[d] = rec[d]
           /\ Learn(c, r) => rec'[c] = r
BY DEF Inv, TypeOK, Learn

LEMMA ProgressLocks ==
    ASSUME Progress, NEW c \in Cmds, Lock(c)
    PROVE  RecordInv' /\ holder' = c /\ WorkInv(c)'
<1> USE DEF dirs, managed, identity, service, world
<1>1. /\ pc[c] = "lock" /\ holder = None /\ holder' = c /\ record' = rec[c]
      /\ Unchanged(c)
      /\ UNCHANGED <<config, plist, loaded, served, respawned, inFlight, mine,
                     rec, loc>>
      /\ pc' = [pc EXCEPT ![c] = IF rec[c].version = mine[c]
                                 THEN "place" ELSE "check"]
  BY DEF Lock, At, Allowed
<1>2. Inv /\ RecordInv /\ TypeOK /\ rec[c].version # None
      /\ mine[c] \in Versions
  BY <1>1, CommandTyped DEF Progress, RecordInv, Inv, Running
<1>3. /\ pc'[c] = (IF rec[c].version = mine[c] THEN "place" ELSE "check")
      /\ \A d \in Cmds : d # c => pc'[d] = pc[d]
  BY <1>1, <1>2 DEF TypeOK
<1>4. RecordInv'
  <2>1. CASE rec[c] = record
    <3>1. /\ record' = record /\ record.version # None
          /\ inFlight' => Registered'
          /\ \A d \in Cmds : pc'[d] = "lock" => rec'[d].version # None
      BY <1>1, <1>2, <1>3, <2>1 DEF RecordInv, Registered
    <3> QED BY <1>1, <1>2, <3>1, RecordKept
  <2>2. CASE rec[c] # record
    <3>1. record = NoRecord /\ rec[c] = NewRecord(mine[c])
      BY <1>1, <2>2 DEF Unchanged
    <3>2. /\ record'.version = mine[c] /\ record'.prev = None
          /\ record'.config = NoFile
      BY <1>1, <3>1 DEF NewRecord, NoRecord
    <3>3. served = NoFile /\ ~inFlight
      BY <1>2, <3>1, NoRecordTyped DEF RecordInv, Inv, IInv, ServiceInv
    <3>4. Render(record'.version, record'.version) # NoFile
      BY DEF Render, NoFile
    <3>5. record'.version # None /\ record'.prev # record'.version
      BY <1>2, <3>2, NoneIsNoVersion
    <3>6. /\ ~HasProvider(record'.config)
          /\ \A d \in Cmds : pc'[d] = "lock" => rec'[d].version # None
      BY <1>1, <1>2, <1>3, <3>2 DEF HasProvider, RecordInv
    <3> QED BY <1>1, <3>3, <3>4, <3>5, <3>6 DEF RecordInv, Render, Author
  <2> QED BY <2>1, <2>2
<1>5. WorkInv(c)'
  <2>1. /\ pc'[c] \notin Unread \cup Ready \cup Listed \cup Enabled \cup Placed
        /\ pc'[c] \notin {"registry", "bind", "enable", "save", "restart"}
        /\ pc'[c] \in Changing => rec[c].version # mine[c]
        /\ pc'[c] \in Unwritten => rec[c].version = mine[c]
    BY <1>3
       DEF Changing, Unwritten, Unread, Ready, Enabled, Placed, Listed,
           InstallSteps
  <2> QED BY <1>1, <2>1 DEF WorkInv, Ready
<1> QED BY <1>1, <1>4, <1>5

LEMMA ProgressChangesVersion ==
    ASSUME Progress, NEW c \in Cmds, ChangeVersion(c)
    PROVE  RecordInv' /\ WorkInv(c)'
<1> USE DEF dirs, managed, identity, service, world
<1>1. /\ pc[c] = "backup" /\ Go(c, "place")
      /\ record' = [rec[c] EXCEPT !.version = mine[c],
                                  !.prev = rec[c].version]
      /\ Learn(c, record')
      /\ UNCHANGED <<config, plist, loaded, served, inFlight>>
  BY DEF ChangeVersion, At
<1>2. /\ Inv /\ TypeOK /\ mine[c] \in Versions /\ rec[c] \in Records
      /\ HolderInv(c) /\ WorkInv(c)
  BY <1>1, Going DEF Inv
<1>3. /\ rec[c] = record /\ rec[c].version # mine[c] /\ loaded = None
  BY <1>1, <1>2 DEF WorkInv, HolderInv, Changing
<1>4. /\ record'.version = mine[c] /\ record'.prev = rec[c].version
      /\ record'.config = record.config
      /\ record'.controller = record.controller
  BY <1>1, <1>2, <1>3 DEF Records
<1>5. served = NoFile
  BY <1>2, <1>3 DEF Inv, IInv, ServiceInv
<1>6. /\ pc'[c] = "place" /\ mine' = mine /\ rec'[c] = record'
      /\ \A d \in Cmds : d # c => rec'[d] = rec[d]
  BY <1>1, <1>2, ToldAlone DEF Go, TypeOK
<1>7. RecordInv'
  <2>1. Render(record'.version, record'.version) # NoFile
    BY DEF Render, NoFile
  <2>2. record'.version # None
    BY <1>2, <1>4, NoneIsNoVersion
  <2>3. HasProvider(record'.config) => record'.controller # 0
    BY <1>4 DEF Progress, RecordInv
  <2> QED BY <1>1, <1>3, <1>4, <1>5, <1>6, <2>1, <2>2, <2>3, Written
<1>8. WorkInv(c)'
  BY <1>4, <1>6
     DEF WorkInv, Changing, Unwritten, Unread, Ready, Enabled, Placed, Listed,
         InstallSteps
<1> QED BY <1>7, <1>8

(* The steps that leave the record and the configuration alone.            *)
OtherWrite(c) ==
    \/ PlaceRelease(c) \/ EnsureSecrets(c) \/ WritePlist(c)
    \/ WaitController(c) \/ ReadController(c) \/ CreateHost(c)
    \/ EnsureLink(c)
    \/ RemovePlist(c) \/ RemoveLink(c) \/ RemoveRelease(c)

LEMMA OtherWriteRecord ==
    ASSUME Progress, NEW c \in Cmds, OtherWrite(c)
    PROVE  RecordInv'
<1> USE DEF dirs, managed, identity, service, world, files, At, Keep
<1>1. /\ pc[c] \notin {"idle", "lock"}
      /\ \E step : step # "lock" /\ Go(c, step)
      /\ UNCHANGED <<record, config, loaded, served, inFlight>>
      /\ rec' = rec \/ Learn(c, [rec[c] EXCEPT !.plist = plist'])
  <2>1. CASE PlaceRelease(c) \/ EnsureSecrets(c) \/ WritePlist(c)
             \/ CreateHost(c) \/ EnsureLink(c)
    BY <2>1 DEF PlaceRelease, EnsureSecrets, WritePlist, CreateHost,
       EnsureLink
  <2>2. CASE WaitController(c)
    BY <2>2 DEF WaitController
  <2>3. CASE ReadController(c)
    BY <2>3 DEF ReadController
  <2>4. CASE RemovePlist(c) \/ RemoveLink(c) \/ RemoveRelease(c)
    BY <2>4 DEF RemovePlist, RemoveLink, RemoveRelease
  <2> QED BY <2>1, <2>2, <2>3, <2>4 DEF OtherWrite
<1>2. PICK step : step # "lock" /\ Go(c, step)
  BY <1>1
<1>3. Inv /\ RecordInv /\ record.version # None
  BY <1>1, Going
<1>4. \A d \in Cmds : d # c => rec'[d] = rec[d]
  BY <1>1, <1>3, ToldAlone
<1> QED BY <1>1, <1>2, <1>3, <1>4, Written DEF RecordInv

(* What the holder knows once it has the configuration it will bind.       *)
LEMMA OtherWriteWork ==
    ASSUME Progress, NEW c \in Cmds, OtherWrite(c)
    PROVE  WorkInv(c)'
<1> USE DEF dirs, managed, identity, service, world, files, At, Keep
<1>0. TypeOK
  BY DEF Progress, Inv
<1>1. \A step : Go(c, step) => pc'[c] = step /\ mine' = mine
  BY <1>0 DEF Go, TypeOK
<1>2. CASE RemovePlist(c) \/ RemoveLink(c) \/ RemoveRelease(c)
  <2>1. /\ pc[c] \notin {"idle", "lock"}
        /\ pc'[c] \in {"unlink", "remove", "removing", "logout"}
        /\ rec' = rec /\ record' = record
    BY <1>1, <1>2 DEF RemovePlist, RemoveLink, RemoveRelease
  <2>2. WorkInv(c)
    BY <2>1, Going
  <2> QED BY <2>1, <2>2
          DEF WorkInv, Changing, Unwritten, Unread, Ready, Enabled, Placed,
              Listed, InstallSteps
<1>3. CASE PlaceRelease(c) \/ EnsureSecrets(c)
  <2>1. /\ \/ pc[c] = "place" /\ pc'[c] = "secrets"
           \/ pc[c] = "secrets" /\ pc'[c] = "prepare" /\ secrets' # 0
        /\ rec' = rec /\ record' = record /\ mine' = mine
    <3>1. count.losses \in Nat
      BY <1>0 DEF TypeOK
    <3> QED BY <1>1, <1>3, <3>1 DEF PlaceRelease, EnsureSecrets
  <2>2. /\ rec[c] = record /\ rec[c].version = mine[c]
        /\ rec[c].prev = record.prev
    BY <2>1, Going DEF WorkInv, Unwritten
  <2> QED BY <2>1, <2>2
          DEF WorkInv, Changing, Unread, Ready, Enabled, Placed, Listed,
              InstallSteps
<1>4. CASE WritePlist(c)
  <2>1. /\ pc[c] = "plist" /\ pc'[c] = "start" /\ mine' = mine
        /\ Learn(c, [rec[c] EXCEPT !.plist = plist'])
        /\ UNCHANGED <<record, secrets, served, respawned, loc>>
    BY <1>1, <1>4 DEF WritePlist
  <2>2. Inv /\ WorkInv(c) /\ rec[c] \in Records
    BY <2>1, Going
  <2>3. rec'[c] = [rec[c] EXCEPT !.plist = plist']
    BY <2>1, <2>2, ToldAlone
  <2>4. /\ rec'[c].plist = plist' /\ rec'[c].version = rec[c].version
        /\ rec'[c].prev = rec[c].prev
    BY <2>2, <2>3 DEF Records
  <2> QED BY <2>1, <2>2, <2>4
          DEF WorkInv, Changing, Unwritten, Unread, Ready, Enabled, Placed,
              Listed, InstallSteps
<1>5. CASE WaitController(c) \/ ReadController(c) \/ CreateHost(c)
  <2>1. /\ \/ pc[c] = "wait" /\ pc'[c] \in {"read", "login"}
           \/ pc[c] = "read" /\ pc'[c] = "read"
           \/ /\ pc[c] = "read" /\ pc'[c] = "host"
           \/ /\ pc[c] = "read" /\ pc'[c] = "registry" /\ loc[c].host # 0
              /\ host' = host /\ db'.id = db.id
           \/ pc[c] = "host" /\ pc'[c] = "registry" /\ host' = db'.id
        /\ mine' = mine
        /\ UNCHANGED <<record, rec, plist, secrets, served, respawned, loc>>
    BY <1>1, <1>5 DEF WaitController, ReadController, CreateHost
  <2>2. WorkInv(c) /\ HolderInv(c) /\ Inv
    BY <2>1, Going
  <2>3. pc'[c] = "registry" => host' = db'.id
    <3>1. ASSUME pc[c] = "read", pc'[c] = "registry"
          PROVE  host = db.id
      <4>1. host # 0 /\ IsTheController(c) /\ loc[c].host = host
        BY <1>5, <2>1, <2>2, <3>1
           DEF HolderInv, Told, ReadController, WaitController, CreateHost,
               Allowed
      <4> QED BY <4>1 DEF IsTheController
    <3> QED BY <2>1, <3>1
  <2>4. /\ secrets # 0 /\ rec[c].plist = plist /\ rec[c].version = mine[c]
        /\ rec[c].prev = record.prev
        /\ ~respawned /\ loc[c].early /\ ~loc[c].boot
               => served # Render(mine[c], mine[c])
    BY <2>1, <2>2 DEF WorkInv, Unread, Placed, Listed, InstallSteps
  <2> QED BY <2>1, <2>3, <2>4
          DEF WorkInv, Changing, Unwritten, Ready, Enabled
<1>6. CASE EnsureLink(c)
  <2>1. /\ pc[c] = "link" /\ pc'[c] = "finish" /\ link' = mine[c]
        /\ mine' = mine
        /\ UNCHANGED <<record, rec, config, plist, secrets, host, registry,
                       db, served>>
    BY <1>1, <1>6 DEF EnsureLink
  <2>2. WorkInv(c)
    BY <2>1, Going
  <2> QED BY <2>1, <2>2
          DEF WorkInv, Changing, Unwritten, Unread, Ready, Enabled, Placed,
              Listed, InstallSteps, Registered
<1> QED BY <1>2, <1>3, <1>4, <1>5, <1>6 DEF OtherWrite

(* A configuration with this release's provider is either found as wanted  *)
(* or not accepted: without host.toml no digest of one is on record.       *)
LEMMA ProgressWritesConfig ==
    ASSUME Progress, NEW c \in Cmds, WriteConfig(c)
    PROVE  RecordInv' /\ WorkInv(c)'
<1> USE DEF dirs, identity, service, world
<1>1. /\ pc[c] = "config" /\ Go(c, "plist") /\ config' = Wanted(c)
      /\ MayWriteConfig(c)
      /\ Learn(c, [rec[c] EXCEPT !.config = Wanted(c)])
      /\ Note(c, [loc[c] EXCEPT !.early = (config # Wanted(c))])
      /\ UNCHANGED <<record, plist, secrets, host, registry, loaded, served,
                     respawned, inFlight>>
  BY DEF WriteConfig, At, Allowed
<1>2. /\ Inv /\ TypeOK /\ RecordInv /\ mine[c] \in Versions
      /\ rec[c] \in Records /\ record.version # None
      /\ HolderInv(c) /\ WorkInv(c)
  BY <1>1, Going DEF Inv
<1>3. /\ rec[c] = record /\ rec[c].version = mine[c] /\ secrets # 0
  BY <1>1, <1>2 DEF WorkInv, Unwritten, Placed, InstallSteps
<1>4. served = Render(mine[c], mine[c]) => config = served
  BY <1>2, <1>3 DEF RecordInv
<1>5. Wanted(c) = Bare(mine[c]) => config # Render(mine[c], mine[c])
  <2> SUFFICES ASSUME Wanted(c) = Bare(mine[c]),
                      config = Render(mine[c], mine[c])
               PROVE  FALSE
    OBVIOUS
  <2>1. Bare(mine[c]) # Render(mine[c], mine[c]) /\ HasProvider(config)
        /\ config # NoFile
    BY <1>2, Renders
  <2>2. loc[c].host = 0
    BY <2>1 DEF Wanted
  <2>3. record.controller = 0
    BY <1>1, <1>2, <2>2 DEF HolderInv, WorkInv, Told
  <2>4. config \notin Others(mine[c], {rec[c].prev})
    <3>1. rec[c].prev # mine[c] /\ rec[c].prev \in Versions \cup {None}
      BY <1>2, <1>3 DEF RecordInv, Records
    <3>2. \A w \in Versions : Render(mine[c], w) = config => w = mine[c]
      BY <1>2, Renders
    <3>3. ASSUME NEW of \in {rec[c].prev} \ {None}
          PROVE  Render(mine[c], of) # config
      BY <3>1, <3>2
    <3> QED BY <3>3 DEF Others
  <2>5. config = rec[c].config
    BY <1>1, <2>1, <2>4 DEF MayWriteConfig, Acceptable, Wanted
  <2>6. rec[c].controller # 0
    BY <1>2, <1>3, <2>1, <2>5 DEF RecordInv
  <2> QED BY <1>3, <2>3, <2>6
<1>6. config # Wanted(c) => served # Render(mine[c], mine[c])
  BY <1>4, <1>5 DEF Wanted
<1>7. served = Render(mine[c], mine[c]) => config' = served
  BY <1>1, <1>4, <1>6
<1>8. /\ pc'[c] = "plist" /\ mine' = mine
      /\ rec'[c] = [rec[c] EXCEPT !.config = Wanted(c)]
      /\ \A d \in Cmds : d # c => rec'[d] = rec[d]
  BY <1>1, <1>2, ToldAlone DEF Go, TypeOK
<1>9. rec'[c].version = rec[c].version /\ rec'[c].prev = rec[c].prev
  BY <1>2, <1>8 DEF Records
<1>10. loc'[c].early = (config # Wanted(c))
  BY <1>1, <1>2 DEF Note, TypeOK
<1>11. RecordInv'
  <2>1. /\ record'.version # None /\ record'.prev # record'.version
        /\ HasProvider(record'.config) => record'.controller # 0
        /\ served = Render(record'.version, record'.version)
               => config' = served
    BY <1>1, <1>2, <1>3, <1>7 DEF RecordInv
  <2> QED BY <1>1, <1>8, <2>1, Written
<1>12. WorkInv(c)'
  <2>1. loc'[c].early => served # Render(mine[c], mine[c])
    BY <1>6, <1>10
  <2> QED BY <1>1, <1>2, <1>3, <1>8, <1>9, <2>1
          DEF WorkInv, Changing, Unwritten, Unread, Ready, Enabled, Placed,
              Listed, InstallSteps
<1> QED BY <1>11, <1>12

LEMMA ProgressEnables ==
    ASSUME Progress, NEW c \in Cmds, EnableProvider(c)
    PROVE  RecordInv' /\ WorkInv(c)'
<1> USE DEF dirs, identity, service, world
<1>1. /\ pc[c] = "enable" /\ Go(c, "save")
      /\ config' = Render(mine[c], mine[c])
      /\ Learn(c, [rec[c] EXCEPT !.config = config'])
      /\ Note(c, [loc[c] EXCEPT !.late = (config # config')])
      /\ UNCHANGED <<record, plist, secrets, host, registry, loaded, served,
                     respawned, inFlight, db>>
  BY DEF EnableProvider, At
<1>2. /\ Inv /\ TypeOK /\ RecordInv /\ mine[c] \in Versions
      /\ rec[c] \in Records /\ record.version # None
      /\ rec[c].version = record.version /\ WorkInv(c)
  BY <1>1, Going DEF Inv
<1>3. /\ rec[c].version = mine[c] /\ secrets # 0 /\ rec[c].plist = plist
      /\ rec[c].prev = record.prev /\ host = db.id /\ registry
      /\ rec[c].controller = db.id
      /\ ~respawned /\ loc[c].early /\ ~loc[c].boot
             => served # Render(mine[c], mine[c])
  BY <1>1, <1>2
     DEF WorkInv, Unread, Placed, Listed, InstallSteps
<1>4. served = Render(mine[c], mine[c]) => config = served
  BY <1>2, <1>3 DEF RecordInv
<1>5. /\ pc'[c] = "save" /\ mine' = mine
      /\ rec'[c] = [rec[c] EXCEPT !.config = config']
      /\ \A d \in Cmds : d # c => rec'[d] = rec[d]
  BY <1>1, <1>2, ToldAlone DEF Go, TypeOK
<1>6. /\ rec'[c].version = rec[c].version /\ rec'[c].prev = rec[c].prev
      /\ rec'[c].plist = rec[c].plist /\ rec'[c].config = config'
      /\ rec'[c].controller = rec[c].controller
  BY <1>2, <1>5 DEF Records
<1>7. /\ loc'[c].late = (config # config') /\ loc'[c].early = loc[c].early
      /\ loc'[c].boot = loc[c].boot
  BY <1>1, <1>2 DEF Note, TypeOK
<1>8. RecordInv'
  <2>1. /\ record'.version # None /\ record'.prev # record'.version
        /\ HasProvider(record'.config) => record'.controller # 0
        /\ served = Render(record'.version, record'.version)
               => config' = served
    BY <1>1, <1>2, <1>3 DEF RecordInv
  <2> QED BY <1>1, <1>5, <2>1, Written
<1>9. WorkInv(c)'
  <2>1. loc'[c].late => served # Render(mine[c], mine[c])
    BY <1>1, <1>4, <1>7
  <2> QED BY <1>1, <1>3, <1>5, <1>6, <1>7, <2>1
          DEF WorkInv, Changing, Unwritten, Ready, Placed,
              Listed, InstallSteps
<1> QED BY <1>8, <1>9

LEMMA ProgressSaves ==
    ASSUME Progress, NEW c \in Cmds, SaveBinding(c) \/ SaveFiles(c)
    PROVE  RecordInv' /\ WorkInv(c)'
<1> USE DEF dirs, managed, identity, service, world
<1>1. /\ \/ /\ pc[c] = "bind" /\ Go(c, "enable")
            /\ record' = [rec[c] EXCEPT !.controller = db.id]
         \/ /\ pc[c] = "save" /\ Go(c, "restart") /\ record' = rec[c]
      /\ Learn(c, record')
      /\ UNCHANGED <<config, plist, secrets, host, registry, loaded, served,
                     respawned, inFlight, db, loc>>
  BY DEF SaveBinding, SaveFiles, Save, At
<1>2. /\ Inv /\ TypeOK /\ RecordInv /\ mine[c] \in Versions
      /\ rec[c] \in Records /\ record.version # None
      /\ rec[c].version = record.version /\ WorkInv(c) /\ HolderInv(c)
  BY <1>1, Going DEF Inv
<1>3. /\ rec[c].version = mine[c] /\ secrets # 0 /\ rec[c].plist = plist
      /\ rec[c].prev = record.prev /\ host = db.id /\ registry
      /\ db.id # 0
      /\ ~respawned /\ loc[c].early /\ ~loc[c].boot
             => served # Render(mine[c], mine[c])
  BY <1>1, <1>2
     DEF WorkInv, HolderInv, Unread, Enabled, Bound, Placed, Listed,
         InstallSteps
<1>4. /\ record'.version = rec[c].version /\ record'.prev = rec[c].prev
      /\ record'.plist = rec[c].plist /\ record'.config = rec[c].config
      /\ record'.controller = db.id
  <2>1. pc[c] = "save" => rec[c].controller = db.id
    BY <1>2 DEF WorkInv, Enabled
  <2> QED BY <1>1, <1>2, <2>1 DEF Records
<1>5. /\ pc'[c] \in {"enable", "restart"} /\ mine' = mine
      /\ pc'[c] = "restart" <=> pc[c] = "save"
      /\ rec'[c] = record'
      /\ \A d \in Cmds : d # c => rec'[d] = rec[d]
  BY <1>1, <1>2, ToldAlone DEF Go, TypeOK
<1>6. RecordInv'
  <2>1. /\ record'.version # None /\ record'.prev # record'.version
        /\ HasProvider(record'.config) => record'.controller # 0
        /\ served = Render(record'.version, record'.version)
               => config' = served
    BY <1>1, <1>2, <1>3, <1>4 DEF RecordInv
  <2> QED BY <1>1, <1>5, <2>1, Written
<1>7. WorkInv(c)'
  <2>1. pc[c] = "save" => /\ config = Render(mine[c], mine[c])
                          /\ rec[c].config = config
                          /\ ~respawned /\ loc[c].late =>
                                 served # Render(mine[c], mine[c])
    BY <1>2 DEF WorkInv, Enabled
  <2> QED BY <1>1, <1>3, <1>4, <1>5, <2>1
          DEF WorkInv, Changing, Unwritten, Ready, Enabled, Placed,
              Listed, InstallSteps
<1> QED BY <1>6, <1>7

LEMMA ProgressFinishes ==
    ASSUME Progress, NEW c \in Cmds, Finish(c)
    PROVE  RecordInv' /\ holder' = None
<1> USE DEF dirs, managed, identity, service, world
<1>1. /\ pc[c] = "finish" /\ record' = [rec[c] EXCEPT !.prev = None]
      /\ End(c)
      /\ UNCHANGED <<config, plist, loaded, served, inFlight>>
  BY DEF Finish, At
<1>2. /\ Inv /\ TypeOK /\ OneHolder /\ RecordInv /\ holder = c
      /\ rec[c] \in Records /\ mine[c] \in Versions
      /\ rec[c].version = record.version
      /\ record.version # None /\ WorkInv(c) /\ HolderInv(c)
  BY <1>1, Going DEF Inv, IInv
<1>3. rec[c].controller # 0
  BY <1>1, <1>2
     DEF WorkInv, HolderInv, Enabled, Ready, Bound, Placed, Listed,
         InstallSteps
<1>4. /\ record'.version = record.version /\ record'.prev = None
      /\ record'.controller # 0
  BY <1>1, <1>2, <1>3 DEF Records
<1>5. /\ holder' = None
      /\ \A d \in Cmds : pc'[d] = "lock" => rec'[d].version # None
  <2>1. pc'[c] = "idle"
    BY <1>1, <1>2 DEF End, TypeOK
  <2>2. \A d \in Cmds : d # c => pc'[d] = pc[d] /\ rec'[d] = rec[d]
    BY <1>1, <1>2, Ending
  <2> QED BY <1>1, <1>2, <2>1, <2>2 DEF End, RecordInv
<1>6. served = Render(record'.version, record'.version) => config' = served
  BY <1>1, <1>2, <1>4 DEF RecordInv
<1>7. RecordInv'
  <2>1. Render(record'.version, record'.version)
            = Render(record.version, record.version)'
    BY DEF Render, Author
  <2>2. inFlight' => Registered'
    BY <1>1, <1>2 DEF RecordInv, Registered
  <2> QED BY <1>1, <1>2, <1>4, <1>5, <1>6, <2>1, <2>2 DEF RecordInv
<1> QED BY <1>5, <1>7

-----------------------------------------------------------------------------
LEMMA ProgressInitially == Init => Progress
<1> SUFFICES ASSUME Init  PROVE Progress
  OBVIOUS
<1>1. record = NoRecord /\ holder = None /\ loaded = None /\ plist = NoFile
      /\ served = NoFile /\ ~inFlight /\ \A c \in Cmds : pc[c] = "idle"
  BY DEF Init
<1>2. record.config = NoFile
  BY <1>1 DEF NoRecord
<1>3. Render(record.version, record.version) # NoFile
  BY DEF Render, NoFile
<1> QED BY <1>1, <1>2, <1>3, Initially, NoRecordTyped
        DEF Progress, RecordInv, HasProvider

LEMMA ProgressSteps ==
    ASSUME Progress, NEW c \in Cmds, Step(c)
    PROVE  RecordInv' /\ (holder' # None => WorkInv(holder)')
<1>1. ASSUME RecordInv', pc[c] \notin {"idle", "lock"}, WorkInv(c)',
             holder' = holder
      PROVE  RecordInv' /\ (holder' # None => WorkInv(holder)')
  <2>1. holder' = c
    BY <1>1, Going
  <2> QED BY <1>1, <2>1
<1>2. CASE QuietStep(c)
  <2>1. RecordInv' /\ WorkInv(c)' /\ pc[c] \notin {"idle", "lock"}
    BY <1>2, QuietRecord, QuietWork, QuietMoves DEF Progress
  <2>2. holder' = holder
    BY <1>2, QuietSteps DEF Go, Progress
  <2> QED BY <1>1, <2>1, <2>2
<1>3. CASE OtherWrite(c)
  <2>1. RecordInv' /\ WorkInv(c)'
    BY <1>3, OtherWriteRecord, OtherWriteWork
  <2>2. pc[c] \notin {"idle", "lock"} /\ holder' = holder
    BY <1>3
    DEF OtherWrite, PlaceRelease, EnsureSecrets, WritePlist, WaitController,
        ReadController, CreateHost, EnsureLink, RemovePlist, RemoveLink,
        RemoveRelease, At, Go
  <2> QED BY <1>1, <2>1, <2>2
<1>4. CASE Lock(c)
  BY <1>4, ProgressLocks
<1>5. CASE \/ ChangeVersion(c) \/ WriteConfig(c) \/ EnableProvider(c)
           \/ SaveBinding(c) \/ SaveFiles(c)
  <2>1. RecordInv' /\ WorkInv(c)'
    BY <1>5, ProgressChangesVersion, ProgressWritesConfig, ProgressEnables,
       ProgressSaves
  <2>2. pc[c] \notin {"idle", "lock"} /\ holder' = holder
    BY <1>5 DEF ChangeVersion, WriteConfig, EnableProvider, SaveBinding,
       SaveFiles, At, Go
  <2> QED BY <1>1, <2>1, <2>2
<1>6. CASE Finish(c)
  BY <1>6, ProgressFinishes
<1>7. CASE RemoveProfile(c) \/ Refuse(c)
  BY <1>7, ProgressEnded
<1> QED BY <1>2, <1>3, <1>4, <1>5, <1>6, <1>7
        DEF Step, InstallStep, UninstallStep, QuietStep, OtherWrite

LEMMA ProgressNext ==
    ASSUME Progress, [Next]_vars
    PROVE  Progress'
<1>1. Inv'
  BY NextKeeps DEF Progress
<1>2. RecordInv' /\ (holder' # None => WorkInv(holder)')
  <2>1. CASE \E c \in Cmds : Step(c)
    BY <2>1, ProgressSteps
  <2>2. CASE \E c \in Cmds : Die(c)
    BY <2>2, ProgressEnded
  <2>3. CASE \E c \in Cmds, v \in Versions : Install(c, v)
    BY <2>3, ProgressInstalls
  <2>4. CASE \E c \in Cmds, v \in Versions : Uninstall(c, v)
    BY <2>4, ProgressUninstalls
  <2>5. CASE \/ \E v \in Versions : GarmCLI(v)
             \/ Respawn \/ CallProvider \/ Provider
    BY <2>5, ProgressOutside
  <2>6. CASE RestartMachine
    BY <2>6, ProgressRestarts
  <2>7. CASE Lose
    BY <2>7, ProgressLoses
  <2>8. CASE UNCHANGED vars
    <3> USE <2>8 DEF vars, files, dirs, managed, identity, service, cmdVars,
                     world
    <3>1. RecordInv'
      BY DEF Progress, RecordInv, Registered
    <3>2. holder' # None => WorkInv(holder)'
      BY DEF Progress, WorkInv, Registered
    <3> QED BY <3>1, <3>2
  <2> QED BY <2>1, <2>2, <2>3, <2>4, <2>5, <2>6, <2>7, <2>8 DEF Next
<1> QED BY <1>1, <1>2 DEF Progress

LEMMA AlwaysProgress == Spec => []Progress
BY ProgressInitially, ProgressNext, PTL DEF Spec

(* An install that ends well has everything a job needs in place, and a    *)
(* controller that serves the provider, whatever interrupted the commands  *)
(* before it, and whatever happens while it runs (Install).                *)
THEOREM FinishServes == Spec => FinishedMeansServing
<1>1. Progress /\ [Next]_vars =>
        (\A c \in Cmds : Finish(c) => Complete(mine[c]))
  <2> SUFFICES ASSUME Progress, NEW c \in Cmds, Finish(c)
               PROVE  Complete(mine[c])
    OBVIOUS
  <2>1. pc[c] = "finish"
    BY DEF Finish, At
  <2>2. WorkInv(c) /\ HolderInv(c)
    BY <2>1, Going
  <2>3. /\ link = mine[c] /\ host = db.id /\ registry /\ Registered
        /\ config = Render(mine[c], mine[c]) /\ rec[c].controller = db.id
    BY <2>1, <2>2 DEF WorkInv, Enabled, Ready
  <2>4. /\ mine[c] \in releases /\ plist = Render(mine[c], mine[c])
        /\ db.id # 0 /\ db.ca /\ rec[c].controller = record.controller
    BY <2>1, <2>2 DEF HolderInv, Bound, Listed, Placed, InstallSteps
  <2> QED BY <2>3, <2>4 DEF Complete
<1> QED BY AlwaysProgress, <1>1, PTL DEF Spec, FinishedMeansServing

(* An install that ends well leaves files every release takes for ours:    *)
(* what was found as wanted has its digest on record too (managedWrite).   *)
THEOREM FinishUpgradable == Spec => FinishedIsUpgradable
<1>1. Progress /\ [Next]_vars =>
        (\A c \in Cmds, v \in Versions :
            Finish(c) => FilesAreOurs(v, record'))
  <2> SUFFICES ASSUME Progress, NEW c \in Cmds, NEW v \in Versions, Finish(c)
               PROVE  FilesAreOurs(v, record')
    OBVIOUS
  <2>1. pc[c] = "finish" /\ record' = [rec[c] EXCEPT !.prev = None]
    BY DEF Finish, At
  <2>2. WorkInv(c) /\ rec[c] \in Records
    BY <2>1, Going
  <2>3. rec[c].config = config /\ rec[c].plist = plist
    BY <2>1, <2>2 DEF WorkInv, Enabled, Ready, Listed, Placed, InstallSteps
  <2>4. record'.config = config /\ record'.plist = plist
    BY <2>1, <2>2, <2>3 DEF Records
  <2> QED BY <2>4 DEF FilesAreOurs, Acceptable
<1> QED BY AlwaysProgress, <1>1, PTL DEF Spec, FinishedIsUpgradable

(* Installing again restarts a controller with a provider at work only for *)
(* a change it has not read: what it has read of this release's            *)
(* configuration is the file, until the file is written (startService,     *)
(* ensureProvider).                                                        *)
THEOREM KillsForChange == Spec => KillsOnlyForChange
<1>1. Progress /\ [Next]_vars =>
        (inFlight /\ ~inFlight' /\ served = config =>
            \A c \in Cmds : RestartService(c) \/ EnsureProvider(c)
                                => respawned)
  <2> SUFFICES ASSUME Progress, inFlight, ~inFlight', served = config,
                      NEW c \in Cmds, RestartService(c) \/ EnsureProvider(c),
                      ~respawned
               PROVE  FALSE
    OBVIOUS
  <2>1. Registered /\ served # NoFile /\ loaded # None
    BY DEF Progress, RecordInv, Registered, HasProvider, Inv, IInv, ServiceInv
  <2>2. RestartService(c)
    BY <2>1 DEF EnsureProvider, service
  <2>3. pc[c] = "restart" /\ NeedsRestart(c)
    BY <2>1, <2>2 DEF RestartService, At, EnsureRunning, service
  <2>4. WorkInv(c)
    BY <2>3, Going
  <2>5. config = Render(mine[c], mine[c])
    BY <2>3, <2>4 DEF WorkInv, Enabled
  <2> QED BY <2>3, <2>4, <2>5 DEF WorkInv, NeedsRestart, Unread
<1> QED BY AlwaysProgress, <1>1, PTL DEF Spec, KillsOnlyForChange

-----------------------------------------------------------------------------
(* Who writes the record, who writes the link.                             *)
LEMMA RecordAndLinkWriters ==
    ASSUME Inv, [Next]_vars
    PROVE  /\ record' = record \/ \E c \in Cmds :
                 \/ Lock(c) \/ ChangeVersion(c) \/ SaveBinding(c)
                 \/ SaveFiles(c) \/ Finish(c)
           /\ link' = link \/ \E c \in Cmds : EnsureLink(c) \/ RemoveLink(c)
<1> USE DEF files, dirs, managed, identity
<1>1. ASSUME NEW c \in Cmds, Step(c)
      PROVE  /\ \/ Lock(c) \/ ChangeVersion(c) \/ SaveBinding(c)
                \/ SaveFiles(c) \/ Finish(c) \/ record' = record
             /\ EnsureLink(c) \/ RemoveLink(c) \/ link' = link
  <2>1. CASE QuietStep(c)
    BY <2>1, QuietSteps DEF kept
  <2>2. CASE \/ Lock(c) \/ ChangeVersion(c) \/ SaveBinding(c)
             \/ SaveFiles(c) \/ Finish(c)
    BY <2>2 DEF Lock, ChangeVersion, SaveBinding, SaveFiles, Finish
  <2>3. CASE \/ PlaceRelease(c) \/ EnsureSecrets(c) \/ WriteConfig(c)
             \/ WritePlist(c) \/ WaitController(c) \/ ReadController(c)
             \/ CreateHost(c) \/ EnableProvider(c) \/ EnsureLink(c)
    BY <2>3 DEF PlaceRelease, EnsureSecrets, WriteConfig, WritePlist,
       WaitController, ReadController, CreateHost, EnableProvider, EnsureLink
  <2>4. CASE RemovePlist(c) \/ RemoveLink(c) \/ RemoveRelease(c)
             \/ RemoveProfile(c) \/ Refuse(c)
    BY <2>4 DEF RemovePlist, RemoveLink, RemoveRelease, RemoveProfile, Refuse
  <2> QED BY <1>1, <2>1, <2>2, <2>3, <2>4
          DEF Step, InstallStep, UninstallStep, QuietStep
<1>2. ASSUME NEW c \in Cmds, NEW v \in Versions,
             Die(c) \/ Install(c, v) \/ Uninstall(c, v)
      PROVE  record' = record /\ link' = link
  BY <1>2 DEF Die, Install, Uninstall
<1>3. ASSUME NEW c \in Cmds, Die(c)  PROVE record' = record /\ link' = link
  BY <1>3 DEF Die
<1>4. ASSUME NEW v \in Versions, GarmCLI(v)
      PROVE  record' = record /\ link' = link
  BY <1>4 DEF GarmCLI
<1>5. Respawn \/ RestartMachine \/ Lose \/ CallProvider \/ Provider
        => record' = record /\ link' = link
  BY DEF Respawn, RestartMachine, Lose, CallProvider, Provider
<1>6. UNCHANGED vars => record' = record /\ link' = link
  BY DEF vars
<1> QED BY <1>1, <1>2, <1>3, <1>4, <1>5, <1>6 DEF Next

(* There is no link before the first record, and every record is kept.     *)
Unlinked == record = NoRecord => link = None

LEMMA UnlinkedKept ==
    ASSUME Progress, Unlinked, [Next]_vars
    PROVE  Unlinked'
<1> SUFFICES ASSUME record' = NoRecord  PROVE link' = None
  BY DEF Unlinked
<1>1. ASSUME NEW c \in Cmds,
             \/ Lock(c) \/ ChangeVersion(c) \/ SaveBinding(c)
             \/ SaveFiles(c) \/ Finish(c)
      PROVE  FALSE
  <2>1. CASE Lock(c)
    <3>1. pc[c] = "lock" /\ record' = rec[c]
      BY <2>1 DEF Lock, At
    <3> QED BY <3>1 DEF Progress, RecordInv, NoRecord
  <2>2. CASE ~Lock(c)
    <3>1. pc[c] \notin {"idle", "lock"}
      BY <1>1, <2>2 DEF ChangeVersion, SaveBinding, SaveFiles, Finish, At
    <3>2. /\ rec[c].version # None /\ rec[c] \in Records
          /\ mine[c] \in Versions
      BY <3>1, Going
    <3>3. record'.version \in {rec[c].version, mine[c]}
      BY <1>1, <2>2, <3>2
         DEF ChangeVersion, SaveBinding, SaveFiles, Save, Finish, Records
    <3> QED BY <3>2, <3>3, NoneIsNoVersion DEF NoRecord
  <2> QED BY <2>1, <2>2
<1>2. record' = record
  BY <1>1, RecordAndLinkWriters DEF Progress
<1>3. ASSUME NEW c \in Cmds, EnsureLink(c) \/ RemoveLink(c)  PROVE FALSE
  <2>1. pc[c] \notin {"idle", "lock"}
    BY <1>3 DEF EnsureLink, RemoveLink, At
  <2> QED BY <1>2, <2>1, Going DEF NoRecord
<1> QED BY <1>2, <1>3, RecordAndLinkWriters DEF Progress, Unlinked

LEMMA AlwaysUnlinked == Spec => []Unlinked
<1>1. Init => Unlinked
  BY DEF Init, Unlinked
<1> QED BY <1>1, UnlinkedKept, AlwaysProgress, PTL DEF Spec

(* The link is stranded in one way only: a change from a release whose own *)
(* installation never reached the link to a third one (Install).           *)
THEOREM LinkStranding == Spec => OnlyThirdReleaseStrandsLink
<1>1. Progress /\ Unlinked /\ [Next]_vars =>
        (ResumeAccepted /\ ~ResumeAccepted' =>
            \E c \in Cmds : /\ ChangeVersion(c) /\ link = record.prev
                            /\ record.prev \notin {None, mine[c]})
  <2> SUFFICES ASSUME Progress, Unlinked, [Next]_vars, ResumeAccepted,
                      record' # NoRecord, ~LinkIsOurs(record)'
               PROVE  \E c \in Cmds :
                         /\ ChangeVersion(c) /\ link = record.prev
                         /\ record.prev \notin {None, mine[c]}
    BY DEF ResumeAccepted
  <2>1. link \in {None, record.version, record.prev}
    BY DEF ResumeAccepted, Unlinked, LinkIsOurs
  <2>2. link' \notin {None, record'.version, record'.prev}
    BY DEF LinkIsOurs
  <2>3. ASSUME NEW c \in Cmds, EnsureLink(c) \/ RemoveLink(c)  PROVE FALSE
    <3>1. pc[c] \in {"link", "unlink"} /\ record' = record
      BY <2>3 DEF EnsureLink, RemoveLink, At
    <3>2. CASE EnsureLink(c)
      <4>1. pc[c] = "link" /\ link' = mine[c]
        BY <3>2 DEF EnsureLink, At
      <4>2. mine[c] = record.version
        BY <4>1, Going DEF WorkInv, Ready
      <4> QED BY <2>2, <3>1, <4>1, <4>2
    <3>3. CASE RemoveLink(c)
      BY <2>2, <3>3 DEF RemoveLink
    <3> QED BY <2>3, <3>2, <3>3
  <2>4. link' = link
    BY <2>3, RecordAndLinkWriters DEF Progress
  <2>5. record' # record
    BY <2>1, <2>2, <2>4
  <2>6. PICK c \in Cmds : \/ Lock(c) \/ ChangeVersion(c) \/ SaveBinding(c)
                          \/ SaveFiles(c) \/ Finish(c)
    BY <2>5, RecordAndLinkWriters DEF Progress
  <2>7. CASE Lock(c)
    <3>1. record' = rec[c] /\ Unchanged(c)
      BY <2>7 DEF Lock, At, Allowed
    <3>2. record = NoRecord
      BY <2>5, <3>1 DEF Unchanged
    <3> QED BY <2>2, <2>4, <3>2 DEF Unlinked
  <2>8. CASE SaveBinding(c) \/ SaveFiles(c)
    <3>1. pc[c] \notin {"idle", "lock"}
      BY <2>8 DEF SaveBinding, SaveFiles, At
    <3>2. /\ rec[c] \in Records /\ rec[c].version = record.version
          /\ rec[c].prev = record.prev
      BY <3>1, Going DEF WorkInv
    <3>3. record'.version = record.version /\ record'.prev = record.prev
      BY <2>8, <3>2 DEF SaveBinding, SaveFiles, Save, Records
    <3> QED BY <2>1, <2>2, <2>4, <3>3
  <2>9. CASE Finish(c)
    <3>1. pc[c] = "finish" /\ record' = [rec[c] EXCEPT !.prev = None]
      BY <2>9 DEF Finish, At
    <3>2. WorkInv(c) /\ rec[c] \in Records
      BY <3>1, Going
    <3>3. link = mine[c] /\ record'.version = mine[c]
      BY <3>1, <3>2 DEF WorkInv, Ready, Records
    <3> QED BY <2>2, <2>4, <3>3
  <2>10. CASE ChangeVersion(c)
    <3>1. pc[c] = "backup" /\ record' = [rec[c] EXCEPT !.version = mine[c],
                                            !.prev = rec[c].version]
      BY <2>10 DEF ChangeVersion, At
    <3>2. rec[c] \in Records /\ rec[c].version = record.version
      BY <3>1, Going
    <3>3. record'.version = mine[c] /\ record'.prev = record.version
      BY <3>1, <3>2 DEF Records
    <3> QED BY <2>1, <2>2, <2>4, <2>10, <3>3
  <2> QED BY <2>6, <2>7, <2>8, <2>9, <2>10
<1> QED BY <1>1, AlwaysProgress, AlwaysUnlinked, PTL
        DEF Spec, OnlyThirdReleaseStrandsLink

-----------------------------------------------------------------------------
(* Who loads another release than the recorded one.                        *)

(* A command loads the LaunchAgent only after it wrote its own.            *)
LEMMA CommandLoads ==
    ASSUME Progress, NEW c \in Cmds, Step(c), loaded' \notin {loaded, None}
    PROVE  loaded' = record.version /\ record' = record
<1> USE DEF files, service
<1>1. StartService(c) \/ RestartService(c)
  <2>1. CASE Stop(c)
    BY <2>1 DEF Stop, StopService
  <2>2. CASE EnsureProvider(c)
    BY <2>2 DEF EnsureProvider, Kickstart
  <2>3. CASE \/ Lock(c) \/ CheckVersionChange(c) \/ ChangeVersion(c)
             \/ PlaceRelease(c) \/ EnsureSecrets(c) \/ Prepare(c)
             \/ WriteConfig(c) \/ WritePlist(c) \/ WaitController(c)
             \/ Login(c) \/ ReadController(c) \/ CreateHost(c)
             \/ InitializeRegistry(c) \/ SaveBinding(c)
    BY <2>3 DEF Lock, CheckVersionChange, ChangeVersion, PlaceRelease,
       EnsureSecrets, Prepare, WriteConfig, WritePlist, WaitController, Login,
       ReadController, CreateHost, InitializeRegistry, SaveBinding
  <2>4. CASE \/ EnableProvider(c) \/ SaveFiles(c) \/ CheckProvider(c)
             \/ EnsureLink(c) \/ Finish(c) \/ Inspect(c) \/ RemovePlist(c)
             \/ RemoveLink(c) \/ RemoveRelease(c) \/ RemoveProfile(c)
             \/ Refuse(c)
    BY <2>4 DEF EnableProvider, SaveFiles, CheckProvider, EnsureLink, Finish,
       Inspect, RemovePlist, RemoveLink, RemoveRelease, RemoveProfile, Refuse
  <2> QED BY <2>1, <2>2, <2>3, <2>4 DEF Step, InstallStep, UninstallStep
<1>2. pc[c] \in {"start", "restart"} /\ loaded' = plist[2] /\ record' = record
  BY <1>1 DEF StartService, RestartService, At, EnsureRunning, Bootstrap,
     Kickstart
<1>3. HolderInv(c) /\ WorkInv(c) /\ rec[c].version = record.version
  BY <1>2, Going
<1>4. plist = Render(mine[c], mine[c]) /\ mine[c] = record.version
  BY <1>2, <1>3 DEF HolderInv, WorkInv, Unread, Listed, Placed, InstallSteps
<1> QED BY <1>2, <1>4 DEF Render

(* A finished installation has a controller, and it is of the installed    *)
(* release unless another one than the recorded release was loaded.        *)
THEOREM FinishServesItself == Spec => [](LoadedIsRecorded => ServesItsRelease)
<1>1. Progress => (LoadedIsRecorded => ServesItsRelease)
  <2> SUFFICES ASSUME Progress, LoadedIsRecorded, NEW c \in Cmds,
                      pc[c] = "finish"
               PROVE  loaded = mine[c]
    BY DEF ServesItsRelease
  <2>1. WorkInv(c) /\ rec[c].version = record.version /\ Inv
    BY Going
  <2>2. Registered /\ mine[c] = record.version
    BY <2>1 DEF WorkInv, Ready
  <2>3. loaded # None
    BY <2>1, <2>2 DEF Inv, IInv, ServiceInv, Registered, HasProvider
  <2> QED BY <2>2, <2>3 DEF LoadedIsRecorded
<1> QED BY <1>1, AlwaysProgress, PTL

(* Neither a command nor launchd otherwise loads another release's agent,  *)
(* and no version is recorded while one is loaded (Install, startService). *)
THEOREM LoginLoads == Spec => OnlyLoginLoadsOldRelease
<1>1. Progress /\ [Next]_vars =>
        (LoadedIsRecorded /\ ~LoadedIsRecorded' => RestartMachine)
  <2> SUFFICES ASSUME Progress, [Next]_vars, LoadedIsRecorded,
                      ~LoadedIsRecorded', ~RestartMachine
               PROVE  FALSE
    OBVIOUS
  <2>1. \/ loaded' \in {loaded, None}
        \/ loaded' = record.version /\ record' = record
    <3> USE DEF files, service
    <3> SUFFICES ASSUME loaded' \notin {loaded, None}
                 PROVE  loaded' = record.version /\ record' = record
      OBVIOUS
    <3>1. ~ \E c \in Cmds, v \in Versions : Install(c, v) \/ Uninstall(c, v)
      BY DEF Install, Uninstall
    <3>2. ~ \E c \in Cmds : Die(c)
      BY DEF Die
    <3>3. ~ \E v \in Versions : GarmCLI(v)
      BY DEF GarmCLI
    <3>4. ~(Respawn \/ Lose \/ CallProvider \/ Provider)
      BY DEF Respawn, Lose, CallProvider, Provider
    <3>5. ~ UNCHANGED vars
      BY DEF vars
    <3>6. PICK c \in Cmds : Step(c)
      BY <3>1, <3>2, <3>3, <3>4, <3>5 DEF Next
    <3> QED BY <3>6, CommandLoads
  <2>2. loaded' = loaded /\ loaded # None /\ record'.version # record.version
    BY <2>1 DEF LoadedIsRecorded
  <2>3. record # NoRecord
    BY <2>2 DEF Progress, RecordInv, NoRecord
  <2>4. PICK c \in Cmds : ChangeVersion(c)
    BY <2>2, <2>3, VersionsKept DEF Progress
  <2>5. pc[c] = "backup"
    BY <2>4 DEF ChangeVersion, At
  <2>6. loaded = None
    BY <2>5, Going DEF HolderInv
  <2> QED BY <2>2, <2>6
<1> QED BY <1>1, AlwaysProgress, PTL DEF Spec, OnlyLoginLoadsOldRelease
=============================================================================
