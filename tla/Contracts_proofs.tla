--------------------------- MODULE Contracts_proofs --------------------------
(***************************************************************************)
(* What follows from the contracts alone: the properties that everything   *)
(* that implements MachineLedger, CloneWindow or RunnerRegistry has, now   *)
(* and after any change that keeps its refinement.                         *)
(***************************************************************************)
EXTENDS Naturals, FiniteSetTheorems, TLAPS

CONSTANTS Runners, Names, MaxInstances

VARIABLES
    status,                                     \* MachineLedger's
    named, marked, copying, held,               \* CloneWindow's
    phase, keptPhase, keptMarked, made          \* RunnerRegistry's

Ledger   == INSTANCE MachineLedger
Window   == INSTANCE CloneWindow
Registry == INSTANCE RunnerRegistry

-----------------------------------------------------------------------------
(* Names that hold capacity are finitely many and within the bound.        *)
LedgerInv ==
    /\ status \in [Names -> Ledger!Statuses]
    /\ IsFiniteSet(Ledger!Held)
    /\ Cardinality(Ledger!Held) <= MaxInstances

LEMMA HeldShrinks ==
    ASSUME MaxInstances \in Nat, LedgerInv, Ledger!Held' \subseteq Ledger!Held
    PROVE  /\ IsFiniteSet(Ledger!Held)'
           /\ Cardinality(Ledger!Held)' <= MaxInstances
<1>1. /\ IsFiniteSet(Ledger!Held')
      /\ Cardinality(Ledger!Held') <= Cardinality(Ledger!Held)
  BY FS_Subset DEF LedgerInv
<1>2. Cardinality(Ledger!Held) \in Nat /\ Cardinality(Ledger!Held') \in Nat
  BY <1>1, FS_CardinalityType DEF LedgerInv
<1> QED BY <1>1, <1>2 DEF LedgerInv

LEMMA LedgerKeeps ==
    ASSUME MaxInstances \in Nat, LedgerInv, [Ledger!Next]_status
    PROVE  LedgerInv'
<1>1. CASE UNCHANGED status
  BY <1>1 DEF LedgerInv, Ledger!Held
<1>2. ASSUME NEW n \in Names, Ledger!Claim(n)
      PROVE  LedgerInv'
  <2>1. /\ status' = [status EXCEPT ![n] = "claimed"] /\ status[n] = "free"
        /\ Cardinality(Ledger!Held) < MaxInstances
    BY <1>2 DEF Ledger!Claim, Cardinality, Ledger!Cardinality
  <2>2. status' \in [Names -> Ledger!Statuses]
    BY <2>1 DEF LedgerInv, Ledger!Statuses
  <2>3. Ledger!Held' = Ledger!Held \cup {n} /\ n \notin Ledger!Held
    BY <2>1 DEF LedgerInv, Ledger!Held
  <2>4. /\ IsFiniteSet(Ledger!Held')
        /\ Cardinality(Ledger!Held') = Cardinality(Ledger!Held) + 1
    BY <2>3, FS_AddElement DEF LedgerInv
  <2>5. Cardinality(Ledger!Held) \in Nat
    BY FS_CardinalityType DEF LedgerInv
  <2> QED BY <2>1, <2>2, <2>4, <2>5 DEF LedgerInv
<1>3. ASSUME NEW n \in Names,
             Ledger!Clone(n) \/ Ledger!Vanish(n) \/ Ledger!Release(n)
      PROVE  LedgerInv'
  <2>1. /\ status[n] \in {"claimed", "live", "gone"}
        /\ \E s \in Ledger!Statuses : status' = [status EXCEPT ![n] = s]
    BY <1>3 DEF Ledger!Clone, Ledger!Vanish, Ledger!Release, Ledger!Statuses
  <2>2. status' \in [Names -> Ledger!Statuses]
    BY <2>1 DEF LedgerInv
  <2>3. Ledger!Held' \subseteq Ledger!Held
    BY <2>1 DEF LedgerInv, Ledger!Held
  <2> QED BY <2>2, <2>3, HeldShrinks DEF LedgerInv
<1> QED BY <1>1, <1>2, <1>3 DEF Ledger!Next

(* Whoever keeps the ledger keeps max_instances: names that hold a machine *)
(* or may come to hold one are never more (host.toml; Reserve).            *)
THEOREM LedgerBoundsMachines ==
    ASSUME MaxInstances \in Nat
    PROVE  Ledger!Spec => [](Cardinality(Ledger!Held) <= MaxInstances)
<1>1. Ledger!Init => LedgerInv
  <2> SUFFICES ASSUME Ledger!Init PROVE LedgerInv
    OBVIOUS
  <2>1. status \in [Names -> Ledger!Statuses] /\ Ledger!Held = {}
    BY DEF Ledger!Init, Ledger!Held, Ledger!Statuses
  <2> QED BY <2>1, FS_EmptySet DEF LedgerInv
<1>2. LedgerInv /\ [Ledger!Next]_status => LedgerInv'
  BY LedgerKeeps
<1>3. LedgerInv => Cardinality(Ledger!Held) <= MaxInstances
  BY DEF LedgerInv
<1> QED BY <1>1, <1>2, <1>3, PTL DEF Ledger!Spec

-----------------------------------------------------------------------------
(* Whoever keeps the window never copies for a runner without a record and *)
(* an intent, and leaves no intent without a record: what the removal of a *)
(* template looks for is there to be found (builder.go, Remove).           *)
THEOREM WindowShowsCopies ==
    Window!Spec => [](copying \subseteq marked /\ marked \subseteq named)
<1> DEFINE I == copying \subseteq marked /\ marked \subseteq named
<1>1. Window!Init => I
  BY DEF Window!Init
<1>2. I /\ [Window!Next]_(Window!vars) => I'
  <2> SUFFICES ASSUME I, [Window!Next]_(Window!vars) PROVE I'
    OBVIOUS
  <2>1. CASE UNCHANGED Window!vars
    BY <2>1 DEF Window!vars
  <2>2. CASE Window!Take \/ Window!Give
    BY <2>2 DEF Window!Take, Window!Give
  <2>3. ASSUME NEW r \in Runners,
               \/ Window!Reserve(r) \/ Window!Mark(r) \/ Window!Copy(r)
               \/ Window!CopyEnds(r) \/ Window!Unmark(r) \/ Window!Forget(r)
        PROVE  I'
    BY <2>3 DEF Window!Reserve, Window!Mark, Window!Copy, Window!CopyEnds,
       Window!Unmark, Window!Forget
  <2> QED BY <2>1, <2>2, <2>3 DEF Window!Next
<1> QED BY <1>1, <1>2, PTL DEF Window!Spec

-----------------------------------------------------------------------------
(* A runner whose machine is known, and that inherits no intent.           *)
Safe(r) ==
    /\ r \in made =>
          /\ Registry!Surely(r, Registry!Phases \ {"none"})
          /\ "reserved" \in {phase[r], keptPhase[r]} =>
                r \in marked \cap keptMarked
    /\ r \in marked \cup keptMarked =>
          Registry!Surely(r, Registry!Phases \ {"none"})

RegistryInv ==
    /\ phase \in [Runners -> Registry!Phases]
    /\ keptPhase \in [Runners -> Registry!Phases]
    /\ marked \subseteq Runners /\ keptMarked \subseteq Runners
    /\ made \subseteq Runners
    /\ \A r \in Runners : Safe(r)

(* A runner a step leaves alone, but for what settles of it.               *)
LEMMA StaysSafe ==
    ASSUME RegistryInv, Registry!Settles, NEW r \in Runners,
           phase'[r] = phase[r], r \in marked' <=> r \in marked, made' = made
    PROVE  Safe(r)'
BY DEF RegistryInv, Safe, Registry!Surely, Registry!Settles

(* A step that moves a runner's phase, ...                                 *)
LEMMA MovesSafely ==
    ASSUME RegistryInv, NEW r \in Runners, NEW from \in SUBSET Registry!Phases,
           NEW to \in Registry!Phases, Registry!Moves(r, from, to), Safe(r)'
    PROVE  RegistryInv'
<1>1. /\ phase' = [phase EXCEPT ![r] = to] /\ UNCHANGED <<marked, made>>
      /\ Registry!Settles
  BY DEF Registry!Moves
<1>2. /\ phase' \in [Runners -> Registry!Phases]
      /\ \A q \in Runners \ {r} : phase'[q] = phase[q]
  BY <1>1 DEF RegistryInv
<1>3. \A q \in Runners \ {r} : Safe(q)'
  BY <1>1, <1>2, StaysSafe
<1>4. /\ keptPhase' \in [Runners -> Registry!Phases]
      /\ keptMarked' \subseteq Runners
  BY <1>1 DEF RegistryInv, Registry!Settles
<1> QED BY <1>1, <1>2, <1>3, <1>4 DEF RegistryInv

LEMMA MoveSafe ==
    ASSUME RegistryInv, NEW r \in Runners,
           \/ Registry!Reserve(r) \/ Registry!Create(r)
           \/ Registry!Delete(r) \/ Registry!Forget(r)
    PROVE  RegistryInv'
<1> USE DEF Registry!Phases
<1>1. Safe(r) /\ phase \in [Runners -> Registry!Phases]
  BY DEF RegistryInv
<1>2. CASE Registry!Reserve(r)
  <2>1. Registry!Moves(r, {"none"}, "reserved")
    BY <1>2 DEF Registry!Reserve
  <2>2. Safe(r)'
    BY <1>1, <2>1 DEF Registry!Moves, Registry!Settles, Safe, Registry!Surely
  <2> QED BY <2>1, <2>2, MovesSafely
<1>3. CASE Registry!Create(r)
  <2>1. Registry!Moves(r, {"reserved"}, "created")
    BY <1>3 DEF Registry!Create
  <2>2. Safe(r)'
    BY <1>1, <2>1 DEF Registry!Moves, Registry!Settles, Safe, Registry!Surely
  <2> QED BY <2>1, <2>2, MovesSafely
<1>4. CASE Registry!Delete(r)
  <2>1. Registry!Moves(r, {"created"}, "deleting")
    BY <1>4 DEF Registry!Delete
  <2>2. Safe(r)'
    BY <1>1, <2>1 DEF Registry!Moves, Registry!Settles, Safe, Registry!Surely
  <2> QED BY <2>1, <2>2, MovesSafely
<1>5. CASE Registry!Forget(r)
  <2>1. /\ Registry!Moves(r, {"reserved", "deleting"}, "none")
        /\ r \notin made \cup marked \cup keptMarked
    BY <1>5 DEF Registry!Forget
  <2>2. Safe(r)'
    BY <2>1 DEF Registry!Moves, Registry!Settles, Safe
  <2> QED BY <2>1, <2>2, MovesSafely
<1> QED BY <1>2, <1>3, <1>4, <1>5

(* ... or its intent.                                                      *)
LEMMA MarkSafe ==
    ASSUME RegistryInv, NEW r \in Runners,
           Registry!Mark(r) \/ Registry!Unmark(r)
    PROVE  RegistryInv'
<1>1. /\ Registry!Settles /\ UNCHANGED <<phase, made>>
      /\ marked' \in {marked \cup {r}, marked \ {r}}
  BY DEF Registry!Mark, Registry!Unmark
<1>2. Safe(r)'
  <2>1. Safe(r)
    BY DEF RegistryInv
  <2>2. CASE Registry!Mark(r)
    BY <2>1, <2>2 DEF Registry!Mark, Registry!Settles, Safe, Registry!Surely,
       Registry!Phases
  <2>3. CASE Registry!Unmark(r)
    BY <2>1, <2>3 DEF Registry!Unmark, Registry!Settles, Safe,
       Registry!Surely, Registry!Phases
  <2> QED BY <2>2, <2>3
<1>3. \A q \in Runners \ {r} : Safe(q)'
  BY <1>1, StaysSafe
<1> QED BY <1>1, <1>2, <1>3 DEF RegistryInv, Registry!Settles

LEMMA RegistryKeeps ==
    ASSUME RegistryInv, [Registry!Next]_(Registry!vars)
    PROVE  RegistryInv'
<1>1. CASE UNCHANGED Registry!vars
  BY <1>1 DEF Registry!vars, RegistryInv, Safe, Registry!Surely
<1>2. CASE Registry!Settle
  BY <1>2, StaysSafe DEF Registry!Settle, Registry!Settles, RegistryInv
<1>3. CASE Registry!PowerFails
  BY <1>3 DEF Registry!PowerFails, RegistryInv, Safe, Registry!Surely
<1>4. ASSUME NEW r \in Runners, Registry!Make(r) \/ Registry!Vanish(r)
      PROVE  RegistryInv'
  BY <1>4 DEF Registry!Make, Registry!Vanish, RegistryInv, Safe,
     Registry!Surely, Registry!Phases
<1> QED BY <1>1, <1>2, <1>3, <1>4, MoveSafe, MarkSafe DEF Registry!Next

(* Whoever keeps the registry's contract loses no machine and inherits no  *)
(* intent: read or kept, before and after any power failure, every machine *)
(* is known by its ID or by a reservation with an intent, and every intent *)
(* belongs to a record (registry.go; provider.go:479-482).                 *)
THEOREM RegistryKnowsMachines ==
    Registry!Spec => [](Registry!MachinesKnown /\ Registry!NoStaleIntent)
<1>1. Registry!Init => RegistryInv
  BY DEF Registry!Init, RegistryInv, Safe, Registry!Phases
<1>2. RegistryInv /\ [Registry!Next]_(Registry!vars) => RegistryInv'
  BY RegistryKeeps
<1>3. RegistryInv => Registry!MachinesKnown /\ Registry!NoStaleIntent
  BY DEF RegistryInv, Safe, Registry!MachinesKnown, Registry!NoStaleIntent
<1> QED BY <1>1, <1>2, <1>3, PTL DEF Registry!Spec
=============================================================================
