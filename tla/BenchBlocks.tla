----------------------------- MODULE BenchBlocks -----------------------------
(***************************************************************************)
(* The block-height mode of the bounded benchmark driver of ethemu         *)
(* (cmd/ethemu/main.go, the goroutine started when the tx-mode flag is     *)
(* off).  The driver busy-polls every node's chain height until all of     *)
(* them equal curHeight, then triggers Miner().Work() on a random node,    *)
(* advances curHeight and calls os.Exit once curHeight reaches the target  *)
(* (the literal 110 of the code, the constant Target here).                *)
(*                                                                         *)
(* The nodes are the opaque collaborators: Work() only arms a node's       *)
(* miner, which seals a block on top of its own chain some time later      *)
(* (Mine), and blocks spread along the peer graph by the longest-chain     *)
(* rule (Import).  A chain is the sequence of the sealers of its blocks,   *)
(* so two blocks at one height differ exactly when their sealers differ.   *)
(***************************************************************************)
EXTENDS Naturals, Sequences

CONSTANTS
    N,       \* number of nodes in the run descriptor
    Target,  \* the height at which the driver exits (110 in the code)
    Peer     \* the peer graph of the run descriptor: Peer[n] = peers of n

ASSUME NAssumption == N \in Nat \ {0}
ASSUME TargetAssumption == Target \in Nat \ {0}

Node == 1 .. N

ASSUME PeerAssumption == Peer \in [Node -> SUBSET Node]

VARIABLES
    chain,      \* chain[n]: the sealers of the blocks of node n, genesis omitted
    work,       \* work[n]: Work() was called on n and its block is not sealed yet
    pc,         \* "poll" (barrier), "seal" (barrier passed), "exit" (os.Exit)
    curHeight,  \* the driver's expected height
    idx,        \* the next entry of sealers the barrier reads
    counter     \* nodes whose height differed from curHeight in this poll

vars == <<chain, work, pc, curHeight, idx, counter>>

-----------------------------------------------------------------------------
(* Driver: sealers := all nodes, curHeight := 0, then the barrier loop.    *)
Init ==
    /\ chain = [n \in Node |-> <<>>]
    /\ work = [n \in Node |-> FALSE]
    /\ pc = "poll"
    /\ curHeight = 0
    /\ idx = 1
    /\ counter = 0

(* Mutant of ReadHeight: compares against the height after the next seal. *)
ReadHeightAhead ==
    /\ pc = "poll"
    /\ idx \in Node
    /\ counter' = IF Len(chain[idx]) # curHeight + 1 THEN counter + 1 ELSE counter
    /\ idx' = idx + 1
    /\ UNCHANGED <<chain, work, pc, curHeight>>

(* One iteration of the inner loop over sealers: read a node's current     *)
(* block number and count it when it differs from curHeight.  The reads    *)
(* of one poll happen one at a time while the nodes keep running.          *)
ReadHeight ==
    /\ pc = "poll"
    /\ idx \in Node
    /\ counter' = IF Len(chain[idx]) # curHeight THEN counter + 1 ELSE counter
    /\ idx' = idx + 1
    /\ UNCHANGED <<chain, work, pc, curHeight>>

(* Mutant of PollDone: breaks once some node is at curHeight.             *)
PollDoneWeak ==
    /\ pc = "poll"
    /\ idx = N + 1
    /\ IF counter < N
         THEN pc' = "seal" /\ UNCHANGED <<idx, counter>>
         ELSE pc' = "poll" /\ idx' = 1 /\ counter' = 0
    /\ UNCHANGED <<chain, work, curHeight>>

(* Mutant of PollDone: polls again without resetting counter.             *)
PollDoneNoReset ==
    /\ pc = "poll"
    /\ idx = N + 1
    /\ IF counter = 0
         THEN pc' = "seal" /\ UNCHANGED <<idx, counter>>
         ELSE pc' = "poll" /\ idx' = 1 /\ UNCHANGED counter
    /\ UNCHANGED <<chain, work, curHeight>>

(* End of one poll: break out of the barrier when no node differed,        *)
(* otherwise poll again from the first sealer.                             *)
PollDone ==
    /\ pc = "poll"
    /\ idx = N + 1
    /\ IF counter = 0
         THEN pc' = "seal" /\ UNCHANGED <<idx, counter>>
         ELSE pc' = "poll" /\ idx' = 1 /\ counter' = 0
    /\ UNCHANGED <<chain, work, curHeight>>

(* After the barrier (and the one-second sleep): pick a random sealer,     *)
(* call Miner().Work() on it, advance curHeight, and exit the process once *)
(* curHeight has reached the target.                                       *)
Seal ==
    /\ pc = "seal"
    /\ \E s \in Node : work' = [work EXCEPT ![s] = TRUE]
    /\ curHeight' = curHeight + 1
    /\ pc' = IF curHeight + 1 >= Target THEN "exit" ELSE "poll"
    /\ idx' = 1
    /\ counter' = 0
    /\ UNCHANGED chain

(* Node n's miner, armed by Work(), seals a block on its own head.         *)
Mine(n) ==
    /\ pc # "exit"
    /\ work[n]
    /\ chain' = [chain EXCEPT ![n] = Append(@, n)]
    /\ work' = [work EXCEPT ![n] = FALSE]
    /\ UNCHANGED <<pc, curHeight, idx, counter>>

(* Node n imports the longer chain of its peer m.                          *)
Import(n, m) ==
    /\ pc # "exit"
    /\ m \in Peer[n]
    /\ Len(chain[m]) > Len(chain[n])
    /\ chain' = [chain EXCEPT ![n] = chain[m]]
    /\ UNCHANGED <<work, pc, curHeight, idx, counter>>

(* os.Exit(0) ends the driver and every node with it.                      *)
Terminated ==
    /\ pc = "exit"
    /\ UNCHANGED vars

Driver == ReadHeight \/ PollDone \/ Seal

Nodes == \E n \in Node : Mine(n) \/ \E m \in Node : Import(n, m)

Next == Driver \/ Nodes \/ Terminated

(* The goroutine is scheduled by the Go runtime and never blocks outside   *)
(* the barrier; every node's miner and p2p service keep running.           *)
Fairness ==
    /\ WF_vars(Driver)
    /\ \A n \in Node : WF_vars(Mine(n))
    /\ \A n, m \in Node : WF_vars(Import(n, m))

Spec == Init /\ [][Next]_vars

FairSpec == Spec /\ Fairness

-----------------------------------------------------------------------------
TypeOK ==
    /\ chain \in [Node -> Seq(Node)]
    /\ work \in [Node -> BOOLEAN]
    /\ pc \in {"poll", "seal", "exit"}
    /\ curHeight \in Nat
    /\ idx \in 1 .. N + 1
    /\ counter \in 0 .. N

(* a and b agree on every height both of them have.                        *)
Agree(a, b) == \A i \in 1 .. Len(a) : i \in 1 .. Len(b) => a[i] = b[i]

(* The barrier before each Work() keeps the nodes on one chain: no two     *)
(* nodes ever hold different blocks at the same height.                    *)
NoFork == \A n, m \in Node : Agree(chain[n], chain[m])

(* Over a connected peer graph every barrier converges, so the driver     *)
(* eventually seals its last block and exits.                              *)
ReachesTarget == <>(pc = "exit")

(* The benchmark's promise: the process terminates only once every node's  *)
(* height equals the target.                                               *)
ExitConverged == pc = "exit" => \A n \in Node : Len(chain[n]) = Target

-----------------------------------------------------------------------------
(* The inductive strengthening of NoFork.  No node is ever ahead of the    *)
(* driver; a pending Work() sits on the one node that is exactly one block *)
(* behind curHeight while all others are behind it too; the reads of a     *)
(* poll that found nothing to count saw nodes that stay at curHeight; and  *)
(* a passed barrier means every node is at curHeight; and a poll counts  *)
(* at most the nodes it has read.                                         *)
HeightBound == \A n \in Node : Len(chain[n]) <= curHeight

WorkPending ==
    \A s \in Node : work[s] =>
        /\ Len(chain[s]) + 1 = curHeight
        /\ \A n \in Node : Len(chain[n]) < curHeight
        /\ \A t \in Node : work[t] => t = s

PollSeen ==
    pc = "poll" /\ counter = 0 =>
        \A j \in 1 .. idx - 1 : Len(chain[j]) = curHeight

BarrierPassed == pc = "seal" => \A n \in Node : Len(chain[n]) = curHeight

CounterBound == counter <= idx - 1

IInv ==
    /\ TypeOK
    /\ NoFork
    /\ HeightBound
    /\ WorkPending
    /\ PollSeen
    /\ BarrierPassed
    /\ CounterBound

=============================================================================
