-------------------------- MODULE GenesisInitProofs --------------------------
(***************************************************************************)
(* Proofs about repeated runs of "init": the type invariant and            *)
(* InitDoneConsistent, for every roster, every set of start times and      *)
(* every number of runs.                                                   *)
(***************************************************************************)
EXTENDS GenesisInit, TLAPS

USE InitAssumption

(* The invariant holds before the first run.                               *)
LEMMA InitIInv == Init => IInv
  BY DEF Init, IInv, TypeOK, DoneHoldGenesis

(* A new run starts with nothing done: its roster is its to-do list, and   *)
(* a run over an empty roster returns at once.                             *)
LEMMA StartInitIInv == IInv /\ StartInit => IInv'
  <1> SUFFICES ASSUME IInv, StartInit PROVE IInv'
    OBVIOUS
  <1>1. PICK ok \in BOOLEAN, t \in Times :
            /\ genesis' = t /\ roster' = LoadConfig(ok) /\ todo' = LoadConfig(ok)
            /\ pc' = IF LoadConfig(ok) = {} THEN "done" ELSE "loop"
    BY DEF StartInit
  <1>2. LoadConfig(ok) \subseteq Node
    BY DEF LoadConfig
  <1>3. TypeOK'
    BY <1>1, <1>2 DEF IInv, StartInit, TypeOK
  <1>4. QED
    BY <1>1, <1>3 DEF IInv, StartInit, DoneHoldGenesis

(* SetupGenesis writes, or finds, the run's genesis on the node it takes  *)
(* off the to-do list; the run returns when the list is empty.             *)
LEMMA SetupGenesisIInv ==
    ASSUME NEW n \in Node, IInv, SetupGenesis(n) PROVE IInv'
  <1>1. TypeOK'
    BY DEF IInv, SetupGenesis, TypeOK
  <1>2. DoneHoldGenesis'
    <2> SUFFICES ASSUME NEW m \in roster' \ todo' PROVE db'[m] = genesis'
      BY DEF DoneHoldGenesis
    <2>1. CASE m = n
      BY <2>1 DEF IInv, SetupGenesis, TypeOK
    <2>2. CASE m # n
      BY <2>2 DEF IInv, SetupGenesis, TypeOK, DoneHoldGenesis
    <2>3. QED
      BY <2>1, <2>2
  <1>3. QED
    BY <1>1, <1>2 DEF IInv, SetupGenesis

(* A Fatalf ends the run as failed, with the databases left as they are.   *)
LEMMA FailIInv ==
    ASSUME NEW n \in Node, IInv, OpenFails(n) \/ GenesisMismatch(n) PROVE IInv'
  BY DEF IInv, OpenFails, GenesisMismatch, TypeOK, DoneHoldGenesis

(* The strengthened invariant is inductive.                                *)
LEMMA NextIInv == IInv /\ [Next]_vars => IInv'
  <1> SUFFICES ASSUME IInv, [Next]_vars PROVE IInv'
    OBVIOUS
  <1>1. CASE StartInit
    BY <1>1, StartInitIInv
  <1>2. ASSUME NEW n \in Node, SetupGenesis(n) PROVE IInv'
    BY <1>2, SetupGenesisIInv
  <1>3. ASSUME NEW n \in Node, OpenFails(n) \/ GenesisMismatch(n) PROVE IInv'
    BY <1>3, FailIInv
  <1>4. CASE UNCHANGED vars
    BY <1>4 DEF vars, IInv, TypeOK, DoneHoldGenesis
  <1>5. CASE Finished
    BY <1>4, <1>5 DEF Finished
  <1>6. QED
    BY <1>1, <1>2, <1>3, <1>4, <1>5 DEF Next

(* Every run of "init" that returns successfully leaves all the nodes of   *)
(* its roster on its own genesis, whatever runs that failed half-way left  *)
(* in the chain databases before it.                                       *)
THEOREM InitDoneTheorem == Spec => []InitDoneConsistent
  <1>1. IInv => InitDoneConsistent
    BY DEF IInv, DoneHoldGenesis, InitDoneConsistent
  <1>2. QED
    BY <1>1, InitIInv, NextIInv, PTL DEF Spec

(* The variables of "init" keep their types in every reachable state.      *)
THEOREM GenesisTypeCorrect == Spec => []TypeOK
  <1>1. IInv => TypeOK
    BY DEF IInv
  <1>2. QED
    BY <1>1, InitIInv, NextIInv, PTL DEF Spec

=============================================================================
