--------------------------- MODULE RunnerListing ---------------------------
(***************************************************************************)
(* ListInstances (internal/provider/provider.go) next to the calls of      *)
(* RunnerLifecycle.  It takes no instance lock: it reads the records, then *)
(* the inventory, and shows each record of the pool whose machine it finds *)
(* there.  GARM decides on the answer which runners still exist.           *)
(*                                                                         *)
(* All runners are of the pool that is listed.  A list that fails at one   *)
(* of its two reads gives no answer; it ends as one that succeeds.         *)
(***************************************************************************)
EXTENDS RunnerLifecycle

VARIABLES
    listing,    \* is a list between its two reads?
    seen,       \* the machine of each runner in the records it read
    steady      \* runners that had their machine ever since (history)

listVars == <<listing, seen, steady>>
allVars == <<vars, listVars>>

NothingSeen == [r \in Runners |-> NoName]

(* Runners on record with a machine that is there.                         *)
Whole == {r \in Runners : records[r].id \in Inventory}

ListInit == Init /\ listing = FALSE /\ seen = NothingSeen /\ steady = {}

ReadRecords ==
    /\ ~listing
    /\ listing' = TRUE
    /\ seen' = [r \in Runners |-> records[r].id]
    /\ steady' = Whole
    /\ UNCHANGED vars

(* Bug: a record without its machine in the inventory is not passed over;  *)
(* Go's map gives it an empty machine.                                     *)
ShownUnmatched == {r \in Runners : seen[r] # NoName}

(* The answer, should the inventory be read now.                           *)
Shown == {r \in Runners : seen[r] \in Inventory}

ReadInventory ==
    /\ listing
    /\ listing' = FALSE
    /\ seen' = NothingSeen
    /\ steady' = {}
    /\ UNCHANGED vars

OtherCalls ==
    /\ Next
    /\ steady' = steady \cap Whole'
    /\ UNCHANGED <<listing, seen>>

ListNext == ReadRecords \/ ReadInventory \/ OtherCalls

ListSpec == ListInit /\ [][ListNext]_allVars

-----------------------------------------------------------------------------
(* The two reads are of different moments and other calls create, delete   *)
(* and create again in between.  Still the answer is true of one moment,   *)
(* the second: whatever is shown is the machine the runner has on record   *)
(* now, never the one of a predecessor of the same name; and a runner that *)
(* had its machine all along is not missed.                                *)
ListIsOfOneMoment ==
    listing =>
        /\ \A r \in Shown : records[r].id = seen[r]
        /\ steady \subseteq Shown

(* The inductive invariant: a machine that was seen is its runner's, and   *)
(* the record it was read from keeps it as long as it is there.            *)
ListInv ==
    /\ listing \in BOOLEAN
    /\ seen \in [Runners -> Names \cup {NoName}]
    /\ steady \subseteq Runners
    /\ \A r \in Runners : seen[r] # NoName =>
          /\ owner[seen[r]] = r
          /\ records[r].name = seen[r] => records[r].id = seen[r]
    /\ \A r \in steady : records[r].id = seen[r] /\ seen[r] \in Inventory
=============================================================================
