------------------------------ MODULE BenchTxs ------------------------------
(***************************************************************************)
(* The transaction-count mode of the bounded benchmark driver of ethemu    *)
(* (cmd/ethemu/main.go, the goroutine started when the tx-mode flag is     *)
(* set).  The driver sends one transfer between two random distinct nodes  *)
(* and busy-polls every node's transaction pool for its hash.  A poll in   *)
(* which some pool lacks the hash increments txNum, and the process exits  *)
(* once txNum reaches the target (the literal 5050 of the code, Target     *)
(* here); a poll that finds the hash in every pool ends the barrier and    *)
(* the next transfer is sent.                                              *)
(*                                                                         *)
(* The nodes are the opaque collaborators: a pending transaction spreads   *)
(* from pool to pool along the peer graph (Gossip), a node seals the       *)
(* transactions of its pool into a block, which removes them from the pool *)
(* (MineTxs), and a block spreads along the peer graph, removing its       *)
(* transactions from the importer's pool (ImportBlock).  Transactions are  *)
(* named by their position 1, 2, ... in the order they were sent; the      *)
(* zero hash returned by a failed SendTransaction is NoHash.               *)
(***************************************************************************)
EXTENDS Naturals, FiniteSets

CONSTANTS
    N,        \* number of nodes in the run descriptor
    Target,   \* the value of txNum at which the driver exits (5050)
    Peer,     \* the peer graph: Peer[n] = peers of n
    MaxSent   \* bound of the model: transfers the driver may send

ASSUME NAssumption == N \in Nat /\ N >= 2
ASSUME TargetAssumption == Target \in Nat \ {0}
ASSUME MaxSentAssumption == MaxSent \in Nat \ {0}

Node == 1 .. N

ASSUME PeerAssumption == Peer \in [Node -> SUBSET Node]

Tx == 1 .. MaxSent

NoHash == 0

VARIABLES
    pool,     \* pool[n]: the transactions in node n's pool
    mined,    \* mined[n]: the transactions in node n's chain
    pc,       \* "send", "poll", "exit"
    txNum,    \* the driver's counter
    sent,     \* transfers the nodes accepted so far
    cur,      \* hash returned by the last SendTransaction
    idx,      \* the next entry of sealers the poll reads
    counter   \* pools that lacked cur in this poll

vars == <<pool, mined, pc, txNum, sent, cur, idx, counter>>

-----------------------------------------------------------------------------
Init ==
    /\ pool = [n \in Node |-> {}]
    /\ mined = [n \in Node |-> {}]
    /\ pc = "send"
    /\ txNum = 0
    /\ sent = 0
    /\ cur = NoHash
    /\ idx = 1
    /\ counter = 0

(* Pick from and a distinct to, and call SendTransaction on from.  The     *)
(* node either accepts the transfer into its pool and returns its hash, or *)
(* rejects it with an error the code drops, keeping the zero hash.         *)
Send ==
    /\ pc = "send"
    /\ sent < MaxSent
    /\ \E from, to \in Node :
         /\ from # to
         /\ \/ /\ pool' = [pool EXCEPT ![from] = @ \cup {sent + 1}]
               /\ cur' = sent + 1
               /\ sent' = sent + 1
            \/ /\ cur' = NoHash
               /\ UNCHANGED <<pool, sent>>
    /\ pc' = "poll"
    /\ idx' = 1
    /\ counter' = 0
    /\ UNCHANGED <<mined, txNum>>

(* One iteration of the loop over sealers: TxPool().Get(hash) == nil       *)
(* counts the node.                                                        *)
ReadPool ==
    /\ pc = "poll"
    /\ idx \in Node
    /\ counter' = IF cur \notin pool[idx] THEN counter + 1 ELSE counter
    /\ idx' = idx + 1
    /\ UNCHANGED <<pool, mined, pc, txNum, sent, cur>>

(* Mutant of PollDone: breaks once some pool holds the hash.              *)
PollDoneWeak ==
    /\ pc = "poll"
    /\ idx = N + 1
    /\ IF counter < N
         THEN /\ pc' = "send"
              /\ UNCHANGED <<txNum, idx, counter>>
         ELSE /\ txNum' = txNum + 1
              /\ pc' = IF txNum + 1 >= Target THEN "exit" ELSE "poll"
              /\ idx' = 1
              /\ counter' = 0
    /\ UNCHANGED <<pool, mined, sent, cur>>

(* Mutant of PollDone: polls again without resetting counter.             *)
PollDoneNoReset ==
    /\ pc = "poll"
    /\ idx = N + 1
    /\ IF counter = 0
         THEN /\ pc' = "send"
              /\ UNCHANGED <<txNum, idx, counter>>
         ELSE /\ txNum' = txNum + 1
              /\ pc' = IF txNum + 1 >= Target THEN "exit" ELSE "poll"
              /\ idx' = 1
              /\ UNCHANGED counter
    /\ UNCHANGED <<pool, mined, sent, cur>>

(* End of one poll: break when every pool held the hash; otherwise         *)
(* increment txNum, exit once it reaches the target, else poll again.      *)
PollDone ==
    /\ pc = "poll"
    /\ idx = N + 1
    /\ IF counter = 0
         THEN /\ pc' = "send"
              /\ UNCHANGED <<txNum, idx, counter>>
         ELSE /\ txNum' = txNum + 1
              /\ pc' = IF txNum + 1 >= Target THEN "exit" ELSE "poll"
              /\ idx' = 1
              /\ counter' = 0
    /\ UNCHANGED <<pool, mined, sent, cur>>

(* Node n receives a pending transaction from the pool of its peer m.      *)
Gossip(n, m) ==
    /\ pc # "exit"
    /\ m \in Peer[n]
    /\ \E t \in pool[m] \ (pool[n] \cup mined[n]) :
         pool' = [pool EXCEPT ![n] = @ \cup {t}]
    /\ UNCHANGED <<mined, pc, txNum, sent, cur, idx, counter>>

(* Node n seals the transactions of its pool into a block.                 *)
MineTxs(n) ==
    /\ pc # "exit"
    /\ pool[n] # {}
    /\ mined' = [mined EXCEPT ![n] = @ \cup pool[n]]
    /\ pool' = [pool EXCEPT ![n] = {}]
    /\ UNCHANGED <<pc, txNum, sent, cur, idx, counter>>

(* Node n imports the blocks of its peer m.                                *)
ImportBlock(n, m) ==
    /\ pc # "exit"
    /\ m \in Peer[n]
    /\ ~(mined[m] \subseteq mined[n])
    /\ mined' = [mined EXCEPT ![n] = @ \cup mined[m]]
    /\ pool' = [pool EXCEPT ![n] = @ \ mined[m]]
    /\ UNCHANGED <<pc, txNum, sent, cur, idx, counter>>

(* os.Exit(0) after txLog.Sync() ends the driver and every node.           *)
Terminated ==
    /\ pc = "exit"
    /\ UNCHANGED vars

(* The model's horizon: the driver has sent its MaxSent transfers.         *)
Horizon ==
    /\ pc = "send"
    /\ sent = MaxSent
    /\ UNCHANGED vars

Driver == Send \/ ReadPool \/ PollDone

Nodes ==
    \E n \in Node :
        \/ MineTxs(n)
        \/ \E m \in Node : Gossip(n, m) \/ ImportBlock(n, m)

Next == Driver \/ Nodes \/ Terminated \/ Horizon

Spec == Init /\ [][Next]_vars

-----------------------------------------------------------------------------
TypeOK ==
    /\ pool \in [Node -> SUBSET Tx]
    /\ mined \in [Node -> SUBSET Tx]
    /\ pc \in {"send", "poll", "exit"}
    /\ txNum \in 0 .. Target
    /\ sent \in 0 .. MaxSent
    /\ cur \in Tx \cup {NoHash}
    /\ idx \in 1 .. N + 1
    /\ counter \in 0 .. N

(* The per-transaction barrier: every transfer the driver sent before the  *)
(* current one has reached every node, in its pool or in its chain.        *)
IssuedPropagated ==
    \A t \in 1 .. sent :
        t # cur => \A n \in Node : t \in pool[n] \cup mined[n]

(* The transactions in the chain of every node.                            *)
Confirmed == {t \in Tx : \A n \in Node : t \in mined[n]}

(* The benchmark's promise: the process exits only after Target            *)
(* transactions have been confirmed on every node.                         *)
ExitAfterTarget == pc = "exit" => Cardinality(Confirmed) >= Target

-----------------------------------------------------------------------------
(* The inductive strengthening of IssuedPropagated.  A node's pool and     *)
(* chain together only grow; the barrier passes only after a poll that     *)
(* found the current hash at every node, so while the driver is about to   *)
(* send, every transfer so far has reached every node; a poll that has     *)
(* counted nothing saw the hash at every node it read; the current hash is *)
(* the last accepted transfer or the zero hash; txNum stays below the      *)
(* target until the exit; and a poll counts at most the nodes it read.     *)
SendReady ==
    pc = "send" => \A t \in 1 .. sent : \A n \in Node : t \in pool[n] \cup mined[n]

PollSeen ==
    pc = "poll" /\ counter = 0 =>
        \A j \in 1 .. idx - 1 : cur \in pool[j] \cup mined[j]

CurIsLast == cur \in {NoHash, sent}

TxNumBelow == pc # "exit" => txNum < Target

CounterBound == counter <= idx - 1

IInv ==
    /\ TypeOK
    /\ IssuedPropagated
    /\ SendReady
    /\ PollSeen
    /\ CurIsLast
    /\ TxNumBelow
    /\ CounterBound

=============================================================================
