---------------------------- MODULE PeerGenProofs ----------------------------
(***************************************************************************)
(* Proofs about the "gen" command's setMiners and setPeers: the descriptor *)
(* it writes is a valid topology, and no node ever has more than MaxPeer   *)
(* peers, for every number of nodes, of miners and every peer bounds.      *)
(***************************************************************************)
EXTENDS PeerGen, FiniteSetTheorems, TLAPS

USE NAssumption, MinersAssumption, PeerBoundsAssumption DEF Node

(* Every set of nodes is finite, with a natural cardinality.               *)
LEMMA NodeSetFinite ==
    ASSUME NEW S \in SUBSET Node
    PROVE  IsFiniteSet(S) /\ Cardinality(S) \in Nat
  <1>1. IsFiniteSet(Node)
    BY FS_Interval
  <1>2. IsFiniteSet(S)
    BY <1>1, FS_Subset
  <1> QED
    BY <1>2, FS_CardinalityType

(* Adding a node a set of nodes does not hold adds one to its size.        *)
LEMMA AddNode ==
    ASSUME NEW S \in SUBSET Node, NEW x, x \notin S
    PROVE  Cardinality(S \cup {x}) = Cardinality(S) + 1
  BY NodeSetFinite, FS_AddElement

(* Before the first draw: no miner, no peer.                               *)
LEMMA InitIInv == Init => IInv
  <1> SUFFICES ASSUME Init PROVE IInv
    OBVIOUS
  <1>1. Cardinality(miners) = 0
    BY FS_EmptySet DEF Init
  <1>2. \A n \in Node : Cardinality(peers[n]) = 0
    BY FS_EmptySet DEF Init
  <1> QED
    BY <1>1, <1>2 DEF Init, IInv, TypeOK, MinersCounted, PeerSymmetric,
                      NoSelfPeer, DegreeCapped, DegreesOK

(* setMiners adds one new index while the set is too small, and ends once *)
(* it has NumMiners of them.                                               *)
LEMMA MinersIInv == IInv /\ (AddMiner \/ MinersDone) => IInv'
  <1> SUFFICES ASSUME IInv, AddMiner \/ MinersDone PROVE IInv'
    OBVIOUS
  <1>1. CASE AddMiner
    <2>1. PICK j \in Node \ miners : miners' = miners \cup {j}
      BY <1>1 DEF AddMiner
    <2>2. Cardinality(miners') = Cardinality(miners) + 1
      BY <2>1, AddNode DEF IInv, TypeOK
    <2>3. Cardinality(miners) < NumMiners /\ Cardinality(miners) \in Nat
      BY <1>1, NodeSetFinite DEF AddMiner, IInv, TypeOK
    <2>4. MinersCounted'
      BY <1>1, <2>1, <2>2, <2>3 DEF AddMiner, MinersCounted
    <2>5. TypeOK'
      BY <1>1, <2>1 DEF AddMiner, IInv, TypeOK
    <2> QED
      BY <1>1, <2>4, <2>5
         DEF AddMiner, IInv, PeerSymmetric, NoSelfPeer, DegreeCapped
  <1>2. CASE MinersDone
    <2>1. Cardinality(miners) \in Nat
      BY NodeSetFinite DEF IInv, TypeOK
    <2> QED
      BY <1>2, <2>1 DEF MinersDone, IInv, TypeOK, MinersCounted, PeerSymmetric,
                        NoSelfPeer, DegreeCapped
  <1> QED
    BY <1>1, <1>2

(* check() leads to "done" only when every degree is within the bounds.   *)
LEMMA CheckIInv == IInv /\ Check => IInv'
  BY DEF Check, IInv, TypeOK, MinersCounted, PeerSymmetric, NoSelfPeer,
         DegreeCapped, DegreesOK

(* Moving along a pass, ending it, or stopping change no peer set.         *)
LEMMA LoopIInv == IInv /\ (NextNode \/ PassDone \/ Done) => IInv'
  <1> SUFFICES ASSUME IInv, NextNode \/ PassDone \/ Done PROVE IInv'
    OBVIOUS
  <1>1. CASE NextNode
    BY <1>1 DEF NextNode, IInv, TypeOK, MinersCounted, PeerSymmetric,
                NoSelfPeer, DegreeCapped, DegreesOK
  <1>2. CASE PassDone
    BY <1>2 DEF PassDone, IInv, TypeOK, MinersCounted, PeerSymmetric,
                NoSelfPeer, DegreeCapped, DegreesOK
  <1>3. CASE Done
    BY <1>3 DEF Done, vars, IInv, TypeOK, MinersCounted, PeerSymmetric,
                NoSelfPeer, DegreeCapped, DegreesOK
  <1> QED
    BY <1>1, <1>2, <1>3

(* An accepted draw links i and j both ways; i is below MinPeer and j     *)
(* below MaxPeer, so both stay within MaxPeer.                             *)
LEMMA PickIInv ==
    ASSUME NEW j \in Node, IInv, Pick(j) PROVE IInv'
  <1>1. /\ i \in Node /\ j # i /\ j \notin peers[i]
        /\ Cardinality(peers[i]) < MinPeer
        /\ Cardinality(peers[j]) < MaxPeer
        /\ peers' = [peers EXCEPT ![i] = @ \cup {j}, ![j] = @ \cup {i}]
        /\ UNCHANGED <<miners, phase, i>>
    BY DEF Pick
  <1>2. i \notin peers[j]
    BY <1>1 DEF IInv, PeerSymmetric
  <1>3. /\ peers'[i] = peers[i] \cup {j}
        /\ peers'[j] = peers[j] \cup {i}
        /\ \A n \in Node \ {i, j} : peers'[n] = peers[n]
    BY <1>1 DEF IInv, TypeOK
  <1>4. TypeOK'
    BY <1>1, <1>3 DEF IInv, TypeOK
  <1>5. PeerSymmetric' /\ NoSelfPeer'
    BY <1>1, <1>3 DEF IInv, PeerSymmetric, NoSelfPeer
  <1>6. DegreeCapped'
    <2>1. Cardinality(peers'[i]) = Cardinality(peers[i]) + 1
      BY <1>1, <1>3, AddNode DEF IInv, TypeOK
    <2>2. Cardinality(peers'[j]) = Cardinality(peers[j]) + 1
      BY <1>2, <1>3, AddNode DEF IInv, TypeOK
    <2>3. Cardinality(peers[i]) \in Nat /\ Cardinality(peers[j]) \in Nat
      BY <1>1, NodeSetFinite DEF IInv, TypeOK
    <2>4. Cardinality(peers'[i]) <= MaxPeer /\ Cardinality(peers'[j]) <= MaxPeer
      BY <1>1, <2>1, <2>2, <2>3
    <2> QED
      BY <1>3, <2>4 DEF IInv, DegreeCapped
  <1>7. MinersCounted' /\ (phase' = "done" => DegreesOK')
    BY <1>1 DEF Pick, IInv, MinersCounted
  <1> QED
    BY <1>4, <1>5, <1>6, <1>7 DEF IInv

(* The strengthened invariant is inductive.                                *)
LEMMA NextIInv == IInv /\ [Next]_vars => IInv'
  <1> SUFFICES ASSUME IInv, [Next]_vars PROVE IInv'
    OBVIOUS
  <1>1. CASE AddMiner \/ MinersDone
    BY <1>1, MinersIInv
  <1>2. CASE Check
    BY <1>2, CheckIInv
  <1>3. CASE NextNode \/ PassDone \/ Done
    BY <1>3, LoopIInv
  <1>4. ASSUME NEW j \in Node, Pick(j) PROVE IInv'
    BY <1>4, PickIInv
  <1>5. CASE UNCHANGED vars
    BY <1>5 DEF vars, IInv, TypeOK, MinersCounted, PeerSymmetric, NoSelfPeer,
                DegreeCapped, DegreesOK
  <1> QED
    BY <1>1, <1>2, <1>3, <1>4, <1>5 DEF Next, Gen

(* Whatever the number of nodes, of miners and the peer bounds, when gen  *)
(* finishes it has exactly NumMiners miners and a symmetric peer relation *)
(* without self-loops whose degrees lie in [MinPeer, MaxPeer].            *)
THEOREM ValidTopologyTheorem == Spec => []ValidTopology
  <1>1. IInv => ValidTopology
    BY DEF IInv, ValidTopology, MinersCounted, PeerSymmetric, NoSelfPeer,
           DegreesOK
  <1> QED
    BY <1>1, InitIInv, NextIInv, PTL DEF Spec

(* setPeers never gives a node more than MaxPeer peers, at any point of   *)
(* its passes, for every number of nodes and peer bounds.                  *)
THEOREM DegreeCappedTheorem == Spec => []DegreeCapped
  <1>1. IInv => DegreeCapped
    BY DEF IInv
  <1> QED
    BY <1>1, InitIInv, NextIInv, PTL DEF Spec

(* The miner set and every peer set stay sets of nodes, and the phase and *)
(* the loop index stay in range, for every number of nodes and bounds.     *)
THEOREM PeerGenTypeCorrect == Spec => []TypeOK
  <1>1. IInv => TypeOK
    BY DEF IInv
  <1> QED
    BY <1>1, InitIInv, NextIInv, PTL DEF Spec

=============================================================================
