-------------------------- MODULE BenchBlocksProofs --------------------------
(***************************************************************************)
(* Proofs about the block-height benchmark driver: the type invariant and *)
(* NoFork, for every number of nodes, every target and every peer graph.   *)
(***************************************************************************)
EXTENDS BenchBlocks, TLAPS

USE NAssumption, TargetAssumption, PeerAssumption DEF Node

(* The invariant holds initially.                                          *)
LEMMA InitIInv == Init => IInv
  BY DEF Init, IInv, TypeOK, NoFork, Agree, HeightBound, WorkPending,
         PollSeen, BarrierPassed, CounterBound

(* A barrier read keeps counter at 0 only for a node at curHeight.          *)
LEMMA ReadHeightIInv == IInv /\ ReadHeight => IInv'
  <1> SUFFICES ASSUME IInv, ReadHeight PROVE IInv'
    OBVIOUS
  <1>1. TypeOK' /\ CounterBound'
    BY DEF IInv, ReadHeight, TypeOK, CounterBound
  <1>2. PollSeen'
    BY DEF IInv, ReadHeight, TypeOK, PollSeen
  <1>3. QED
    BY <1>1, <1>2 DEF IInv, ReadHeight, NoFork, Agree, HeightBound,
                      WorkPending, BarrierPassed, CounterBound

(* The barrier passes only after a full poll with nothing counted.         *)
LEMMA PollDoneIInv == IInv /\ PollDone => IInv'
  <1> SUFFICES ASSUME IInv, PollDone PROVE IInv'
    OBVIOUS
  <1>1. BarrierPassed'
    BY DEF IInv, PollDone, TypeOK, PollSeen, BarrierPassed
  <1>2. QED
    BY <1>1 DEF IInv, PollDone, TypeOK, NoFork, Agree, HeightBound,
                WorkPending, PollSeen, CounterBound

(* Work() is only called when every node is at curHeight, so the new      *)
(* pending block is the only one and sits one block ahead of every node.   *)
LEMMA SealIInv == IInv /\ Seal => IInv'
  <1> SUFFICES ASSUME IInv, Seal PROVE IInv'
    OBVIOUS
  <1>1. PICK s \in Node : work' = [work EXCEPT ![s] = TRUE]
    BY DEF Seal
  <1>2. \A n \in Node : ~work[n]
    BY DEF IInv, Seal, WorkPending, BarrierPassed
  <1>3. WorkPending'
    <2> SUFFICES ASSUME NEW x \in Node, work'[x]
                 PROVE  /\ Len(chain'[x]) + 1 = curHeight'
                        /\ \A n \in Node : Len(chain'[n]) < curHeight'
                        /\ \A t \in Node : work'[t] => t = x
      BY DEF WorkPending
    <2>1. \A t \in Node : work'[t] <=> t = s
      BY <1>1, <1>2 DEF IInv, TypeOK
    <2>2. x = s
      BY <2>1
    <2>3. \A n \in Node : Len(chain'[n]) = curHeight
      BY DEF IInv, Seal, BarrierPassed
    <2>4. QED
      BY <2>1, <2>2, <2>3 DEF IInv, Seal, TypeOK
  <1>4. QED
    BY <1>1, <1>3 DEF IInv, Seal, TypeOK, NoFork, Agree, HeightBound,
                      PollSeen, BarrierPassed, CounterBound

(* Appending to the one node that is ahead of all others keeps every      *)
(* chain a prefix of its chain.                                            *)
LEMMA MineIInv == ASSUME NEW n \in Node, IInv, Mine(n) PROVE IInv'
  <1>1. /\ Len(chain[n]) + 1 = curHeight
        /\ \A m \in Node : Len(chain[m]) < curHeight
        /\ \A t \in Node : work[t] => t = n
    BY DEF IInv, Mine, WorkPending
  <1>2. chain[n] \in Seq(Node)
    BY DEF IInv, TypeOK
  <1>3. TypeOK'
    BY <1>2 DEF IInv, Mine, TypeOK, CounterBound
  <1>4. NoFork'
    <2> SUFFICES ASSUME NEW a \in Node, NEW b \in Node
                 PROVE  Agree(chain'[a], chain'[b])
      BY DEF NoFork
    <2>1. \A c \in Node : \A i \in 1 .. Len(chain'[c]) :
             i \in 1 .. Len(chain[n]) => chain'[c][i] = chain[n][i]
      BY <1>1, <1>2 DEF IInv, Mine, TypeOK, NoFork, Agree
    <2>2. \A c \in Node : Len(chain'[c]) <= Len(chain[n]) + 1
      BY <1>1, <1>2 DEF IInv, Mine, TypeOK
    <2>3. \A c \in Node \ {n} : Len(chain'[c]) <= Len(chain[n])
      BY <1>1, <1>2 DEF IInv, Mine, TypeOK
    <2> SUFFICES ASSUME NEW i \in 1 .. Len(chain'[a]), i \in 1 .. Len(chain'[b])
                 PROVE  chain'[a][i] = chain'[b][i]
      BY DEF Agree
    <2>4. CASE i \in 1 .. Len(chain[n])
      BY <2>1, <2>4
    <2>5. CASE i \notin 1 .. Len(chain[n])
      <3>1. a = n /\ b = n
        BY <1>2, <2>2, <2>3, <2>5
      <3>2. QED
        BY <3>1
    <2>6. QED
      BY <2>4, <2>5
  <1>5. QED
    BY <1>1, <1>2, <1>3, <1>4 DEF IInv, Mine, TypeOK, HeightBound,
                                   WorkPending, PollSeen, BarrierPassed, CounterBound

(* A node only adopts a longer chain of a peer, which agrees with all.     *)
LEMMA ImportIInv == ASSUME NEW n \in Node, NEW m \in Node, IInv, Import(n, m)
                    PROVE IInv'
  <1>1. TypeOK'
    BY DEF IInv, Import, TypeOK, CounterBound
  <1>2. NoFork'
    <2>1. \A c \in Node : \E d \in Node : chain'[c] = chain[d]
      BY DEF IInv, Import, TypeOK
    <2>2. QED
      BY <2>1 DEF IInv, NoFork
  <1>3. Len(chain'[n]) > Len(chain[n])
        /\ \A c \in Node \ {n} : chain'[c] = chain[c]
        /\ Len(chain'[n]) <= curHeight
    BY DEF IInv, Import, TypeOK, HeightBound
  <1>4. HeightBound'
    BY <1>3 DEF IInv, Import, TypeOK, HeightBound
  <1>5. WorkPending'
    <2>1. ~work[n]
      BY DEF IInv, Import, TypeOK, WorkPending
    <2>2. QED
      BY <1>3, <2>1 DEF IInv, Import, TypeOK, WorkPending
  <1>6. PollSeen'
    BY <1>3 DEF IInv, Import, TypeOK, PollSeen, HeightBound
  <1>7. BarrierPassed'
    BY <1>3 DEF IInv, Import, TypeOK, BarrierPassed, CounterBound, HeightBound
  <1>8. CounterBound'
    BY DEF IInv, Import, CounterBound
  <1>9. QED
    BY <1>1, <1>2, <1>4, <1>5, <1>6, <1>7, <1>8 DEF IInv

(* The strengthened invariant is inductive.                                *)
LEMMA NextIInv == IInv /\ [Next]_vars => IInv'
  <1> SUFFICES ASSUME IInv, [Next]_vars PROVE IInv'
    OBVIOUS
  <1>1. CASE ReadHeight
    BY <1>1, ReadHeightIInv
  <1>2. CASE PollDone
    BY <1>2, PollDoneIInv
  <1>3. CASE Seal
    BY <1>3, SealIInv
  <1>4. ASSUME NEW n \in Node, Mine(n) PROVE IInv'
    BY <1>4, MineIInv
  <1>5. ASSUME NEW n \in Node, NEW m \in Node, Import(n, m) PROVE IInv'
    BY <1>5, ImportIInv
  <1>6. CASE UNCHANGED vars
    BY <1>6 DEF vars, IInv, TypeOK, NoFork, Agree, HeightBound,
                WorkPending, PollSeen, BarrierPassed, CounterBound
  <1>7. CASE Terminated
    BY <1>6, <1>7 DEF Terminated
  <1>8. QED
    BY <1>1, <1>2, <1>3, <1>4, <1>5, <1>6, <1>7 DEF Next, Driver, Nodes

(* The barrier of the block-height benchmark keeps every node on a single *)
(* chain: in no reachable state do two nodes hold different blocks at the *)
(* same height, whatever the number of nodes, target and peer graph.       *)
THEOREM NoForkTheorem == Spec => []NoFork
  <1>1. IInv => NoFork
    BY DEF IInv
  <1>2. QED
    BY <1>1, InitIInv, NextIInv, PTL DEF Spec

(* Every step of the model keeps the variables in their types; in          *)
(* particular a poll never counts more nodes than there are.               *)
THEOREM TypeCorrect == Spec => []TypeOK
  <1>1. IInv => TypeOK
    BY DEF IInv
  <1>2. QED
    BY <1>1, InitIInv, NextIInv, PTL DEF Spec

=============================================================================
