---------------------------- MODULE BenchTxsProofs ----------------------------
(***************************************************************************)
(* Proofs about the transaction-count benchmark driver: the type invariant *)
(* and the per-transaction barrier IssuedPropagated, for every number of   *)
(* nodes, every target, every bound on transfers and every peer graph.     *)
(***************************************************************************)
EXTENDS BenchTxs, TLAPS

USE NAssumption, TargetAssumption, MaxSentAssumption, PeerAssumption
    DEF Node, Tx, NoHash

(* What a node's step keeps: the driver's state, the types, and what each *)
(* node holds in its pool or its chain, which only grows.                  *)
NodeStepKeeps ==
    /\ \A n \in Node : pool[n] \cup mined[n] \subseteq pool'[n] \cup mined'[n]
    /\ pool' \in [Node -> SUBSET Tx] /\ mined' \in [Node -> SUBSET Tx]
    /\ UNCHANGED <<pc, txNum, sent, cur, idx, counter>>

LEMMA NodesGrow == IInv /\ Nodes => NodeStepKeeps
  <1> SUFFICES ASSUME IInv, Nodes PROVE NodeStepKeeps
    OBVIOUS
  <1>1. PICK n \in Node : \/ MineTxs(n)
                          \/ \E m \in Node : Gossip(n, m) \/ ImportBlock(n, m)
    BY DEF Nodes
  <1>2. CASE MineTxs(n)
    BY <1>2 DEF MineTxs, IInv, TypeOK, NodeStepKeeps
  <1>3. ASSUME NEW m \in Node, Gossip(n, m) PROVE NodeStepKeeps
    <2>1. PICK t \in pool[m] \ (pool[n] \cup mined[n]) :
              pool' = [pool EXCEPT ![n] = @ \cup {t}]
      BY <1>3 DEF Gossip
    <2> QED
      BY <1>3, <2>1 DEF Gossip, IInv, TypeOK, NodeStepKeeps
  <1>4. ASSUME NEW m \in Node, ImportBlock(n, m) PROVE NodeStepKeeps
    BY <1>4 DEF ImportBlock, IInv, TypeOK, NodeStepKeeps
  <1> QED
    BY <1>1, <1>2, <1>3, <1>4

(* The nodes' steps keep the invariant: what the driver saw at a node     *)
(* stays in its pool or its chain.                                         *)
LEMMA NodesIInv == IInv /\ Nodes => IInv'
  <1> SUFFICES ASSUME IInv, Nodes PROVE IInv'
    OBVIOUS
  <1>1. NodeStepKeeps
    BY NodesGrow
  <1> QED
    BY <1>1 DEF NodeStepKeeps, IInv, TypeOK, IssuedPropagated, SendReady,
                PollSeen, CurIsLast, TxNumBelow, CounterBound

(* The invariant holds initially.                                          *)
LEMMA InitIInv == Init => IInv
  BY DEF Init, IInv, TypeOK, IssuedPropagated, SendReady, PollSeen, CurIsLast,
         TxNumBelow, CounterBound

(* SendTransaction either adds transfer sent + 1 to one pool and makes it *)
(* the current hash, or fails and leaves the zero hash; before it, every   *)
(* earlier transfer had reached every node.                                *)
LEMMA SendIInv == IInv /\ Send => IInv'
  <1> SUFFICES ASSUME IInv, Send PROVE IInv'
    OBVIOUS
  <1>1. PICK from \in Node, to \in Node :
            /\ from # to
            /\ \/ /\ pool' = [pool EXCEPT ![from] = @ \cup {sent + 1}]
                  /\ cur' = sent + 1
                  /\ sent' = sent + 1
               \/ /\ cur' = NoHash
                  /\ UNCHANGED <<pool, sent>>
    BY DEF Send
  <1>2. \A t \in 1 .. sent : \A n \in Node : t \in pool[n] \cup mined[n]
    BY DEF Send, IInv, SendReady
  <1>3. /\ pc' = "poll" /\ idx' = 1 /\ counter' = 0
        /\ UNCHANGED <<mined, txNum>> /\ sent < MaxSent
    BY DEF Send
  <1>4. \A n \in Node : pool[n] \subseteq pool'[n]
    BY <1>1 DEF IInv, TypeOK
  <1>5. TypeOK'
    BY <1>1, <1>3 DEF IInv, TypeOK, TxNumBelow, Send
  <1>6. IssuedPropagated'
    <2> SUFFICES ASSUME NEW t \in 1 .. sent', t # cur', NEW n \in Node
                 PROVE  t \in pool'[n] \cup mined'[n]
      BY DEF IssuedPropagated
    <2>1. t \in 1 .. sent
      BY <1>1 DEF IInv, TypeOK
    <2> QED
      BY <1>2, <1>3, <1>4, <2>1
  <1>7. CurIsLast'
    BY <1>1 DEF IInv, CurIsLast
  <1> QED
    BY <1>3, <1>5, <1>6, <1>7 DEF IInv, SendReady, PollSeen, TxNumBelow,
                                  CounterBound, Send

(* A read counts a node whose pool lacks the current hash.                 *)
LEMMA ReadPoolIInv == IInv /\ ReadPool => IInv'
  <1> SUFFICES ASSUME IInv, ReadPool PROVE IInv'
    OBVIOUS
  <1>1. TypeOK' /\ CounterBound'
    BY DEF ReadPool, IInv, TypeOK, CounterBound
  <1>2. PollSeen'
    BY DEF ReadPool, IInv, TypeOK, PollSeen
  <1> QED
    BY <1>1, <1>2 DEF ReadPool, IInv, IssuedPropagated, SendReady, CurIsLast,
                      TxNumBelow

(* The barrier passes only after a poll that found the hash at every node; *)
(* otherwise txNum goes up, and the driver exits when it reaches Target.   *)
LEMMA PollDoneIInv == IInv /\ PollDone => IInv'
  <1> SUFFICES ASSUME IInv, PollDone PROVE IInv'
    OBVIOUS
  <1>1. CASE counter = 0
    <2>1. \A j \in Node : cur \in pool[j] \cup mined[j]
      BY <1>1 DEF PollDone, IInv, PollSeen
    <2>2. SendReady'
      BY <1>1, <2>1 DEF PollDone, IInv, IssuedPropagated, SendReady
    <2> QED
      BY <1>1, <2>2 DEF PollDone, IInv, TypeOK, IssuedPropagated, PollSeen,
                        CurIsLast, TxNumBelow, CounterBound
  <1>2. CASE counter # 0
    BY <1>2 DEF PollDone, IInv, TypeOK, IssuedPropagated, SendReady, PollSeen,
                CurIsLast, TxNumBelow, CounterBound
  <1> QED
    BY <1>1, <1>2

(* The strengthened invariant is inductive.                                *)
LEMMA NextIInv == IInv /\ [Next]_vars => IInv'
  <1> SUFFICES ASSUME IInv, [Next]_vars PROVE IInv'
    OBVIOUS
  <1>1. CASE Send
    BY <1>1, SendIInv
  <1>2. CASE ReadPool
    BY <1>2, ReadPoolIInv
  <1>3. CASE PollDone
    BY <1>3, PollDoneIInv
  <1>4. CASE Nodes
    BY <1>4, NodesIInv
  <1>5. CASE UNCHANGED vars
    BY <1>5 DEF vars, IInv, TypeOK, IssuedPropagated, SendReady, PollSeen,
                CurIsLast, TxNumBelow, CounterBound
  <1> QED
    BY <1>1, <1>2, <1>3, <1>4, <1>5 DEF Next, Driver, Terminated, Horizon

(* For every number of nodes, target, bound and peer graph, every transfer *)
(* the driver sent before the current one has reached every node, in its   *)
(* pool or in its chain: the barrier over one-at-a-time pool reads is      *)
(* enough, because a pool and a chain together never lose a transaction.   *)
THEOREM IssuedPropagatedTheorem == Spec => []IssuedPropagated
  <1>1. IInv => IssuedPropagated
    BY DEF IInv
  <1> QED
    BY <1>1, InitIInv, NextIInv, PTL DEF Spec

(* The driver's and the nodes' variables keep their types.                 *)
THEOREM TxsTypeCorrect == Spec => []TypeOK
  <1>1. IInv => TypeOK
    BY DEF IInv
  <1> QED
    BY <1>1, InitIInv, NextIInv, PTL DEF Spec

=============================================================================
