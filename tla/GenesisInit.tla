----------------------------- MODULE GenesisInit -----------------------------
(***************************************************************************)
(* The "init" command (cmd/ethemu/initcmd.go, initGenesis) over the chain  *)
(* databases it opens (core/rawdb/database.go), run again after a failure. *)
(*                                                                         *)
(* Every run builds a genesis whose Timestamp is time.Now(): two runs in   *)
(* the same second build the same block, later runs a different one.  A   *)
(* genesis is therefore named here by its timestamp.  For each node of the *)
(* roster, in map order, the run opens the node's chain database, calls    *)
(* SetupGenesisBlock and closes the database.  SetupGenesisBlock writes    *)
(* the genesis to an empty database, accepts an identical one and fails    *)
(* on a different one; a failure to open or to set up is utils.Fatalf,     *)
(* which ends the process with the nodes done so far left as they are.     *)
(***************************************************************************)
EXTENDS RunConfig, FiniteSets

CONSTANTS
    Times,      \* the seconds at which a run can start
    MaxRuns,    \* how many times the operator runs "init"
    NoGenesis   \* the content of a database never initialised

ASSUME InitAssumption ==
    /\ Times \subseteq Nat /\ Times # {}
    /\ MaxRuns \in Nat
    /\ NoGenesis \notin Times

VARIABLES
    db,       \* db[n]: the genesis stored in node n's chain database
    genesis,  \* the timestamp of the genesis of the current or last run
    roster,   \* the nodes of the descriptor the current run loaded
    todo,     \* the nodes the current run has not done yet
    pc,       \* "idle" (never run), "loop", "done", "failed"
    runs      \* how many runs were started

vars == <<db, genesis, roster, todo, pc, runs>>

-----------------------------------------------------------------------------
Init ==
    /\ db = [n \in Node |-> NoGenesis]
    /\ genesis \in Times /\ roster = {} /\ todo = {}
    /\ pc = "idle" /\ runs = 0

(* nofreezedb: HasAncient, Ancient and every other freezer accessor return *)
(* errNotSupported, and ReadAncients runs its callback on the key-value   *)
(* store itself, so the lookup of block 0 is answered by the key-value    *)
(* store.                                                                  *)
StoredGenesis(n) == db[n]

(* initGenesis starts: the descriptor is loaded (its error dropped), and   *)
(* the genesis gets the current time, no earlier than the last run's.      *)
StartInit ==
    /\ pc # "loop" /\ runs < MaxRuns
    /\ \E ok \in BOOLEAN, t \in Times :
          /\ pc # "idle" => t >= genesis
          /\ genesis' = t /\ roster' = LoadConfig(ok) /\ todo' = LoadConfig(ok)
          /\ pc' = IF LoadConfig(ok) = {} THEN "done" ELSE "loop"
    /\ runs' = runs + 1
    /\ UNCHANGED db

(* stack.OpenDatabase("chaindata") fails (rawdb.Open, on a badger store   *)
(* that cannot be opened): utils.Fatalf.                                  *)
OpenFails(n) ==
    /\ pc = "loop" /\ n \in todo
    /\ pc' = "failed"
    /\ UNCHANGED <<db, genesis, roster, todo, runs>>

(* Mutant of SetupGenesis: a stored genesis is taken whatever it is.       *)
SetupGenesisAnyStored(n) ==
    /\ pc = "loop" /\ n \in todo
    /\ db' = [db EXCEPT ![n] = IF StoredGenesis(n) = NoGenesis THEN genesis
                                                               ELSE @]
    /\ todo' = todo \ {n}
    /\ pc' = IF todo' = {} THEN "done" ELSE "loop"
    /\ UNCHANGED <<genesis, roster, runs>>

(* SetupGenesisBlock succeeds on an empty database (it writes the block)  *)
(* or on one that already holds this genesis; chaindb.Close follows.      *)
SetupGenesis(n) ==
    /\ pc = "loop" /\ n \in todo
    /\ StoredGenesis(n) \in {NoGenesis, genesis}
    /\ db' = [db EXCEPT ![n] = genesis]
    /\ todo' = todo \ {n}
    /\ pc' = IF todo' = {} THEN "done" ELSE "loop"
    /\ UNCHANGED <<genesis, roster, runs>>

(* A different genesis is stored: a GenesisMismatchError, utils.Fatalf.    *)
GenesisMismatch(n) ==
    /\ pc = "loop" /\ n \in todo
    /\ StoredGenesis(n) \notin {NoGenesis, genesis}
    /\ pc' = "failed"
    /\ UNCHANGED <<db, genesis, roster, todo, runs>>

(* The operator has stopped running "init".                                *)
Finished ==
    /\ pc # "loop" /\ runs = MaxRuns
    /\ UNCHANGED vars

Next ==
    \/ StartInit \/ Finished
    \/ \E n \in Node : OpenFails(n) \/ SetupGenesis(n) \/ GenesisMismatch(n)

Spec == Init /\ [][Next]_vars

-----------------------------------------------------------------------------
TypeOK ==
    /\ db \in [Node -> Times \cup {NoGenesis}]
    /\ genesis \in Times /\ roster \subseteq Node /\ todo \subseteq roster
    /\ pc \in {"idle", "loop", "done", "failed"} /\ runs \in 0 .. MaxRuns

(* A run of "init" that returns successfully leaves every node of its     *)
(* roster on one genesis, that run's, whatever earlier runs that failed   *)
(* half-way left in the databases.                                         *)
InitDoneConsistent ==
    pc = "done" => \A n \in roster : db[n] = genesis

(* The inductive strengthening of InitDoneConsistent: while a run is in   *)
(* its loop or has returned, every node it has done holds its genesis,     *)
(* whatever earlier runs left in the others, and a returned run has none   *)
(* left to do.                                                             *)
DoneHoldGenesis ==
    pc \in {"loop", "done"} => \A n \in roster \ todo : db[n] = genesis

IInv ==
    /\ TypeOK
    /\ DoneHoldGenesis
    /\ pc = "done" => todo = {}

=============================================================================
