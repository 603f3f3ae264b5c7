------------------------------ MODULE PeerGen ------------------------------
(***************************************************************************)
(* Role assignment and the degree-bounded peering policy of the "gen"      *)
(* command (cmd/ethemu/gencmd.go: setMiners, then setPeers).               *)
(*                                                                         *)
(* setMiners draws random indices into a set until it holds NumMiners of   *)
(* them.  setPeers repeats full passes over the nodes until every degree   *)
(* lies in [MinPeer, MaxPeer]; in a pass, a node below MinPeer draws a     *)
(* random candidate j until its degree reaches MinPeer, rejecting j when   *)
(* it is the node itself or already has MaxPeer peers, and otherwise adds  *)
(* the edge to both sets.  A draw that is rejected, or that names a node   *)
(* already in the set, changes nothing, so it is a stuttering step here:   *)
(* the model only takes the draws that change the state.                   *)
(***************************************************************************)
EXTENDS Naturals, FiniteSets

CONSTANTS
    N,          \* --nodes
    NumMiners,  \* --miners
    MinPeer,    \* --minpeer
    MaxPeer     \* --maxpeer

ASSUME NAssumption == N \in Nat \ {0}
ASSUME MinersAssumption == NumMiners \in 0 .. N
ASSUME PeerBoundsAssumption ==
    MinPeer \in Nat /\ MaxPeer \in Nat /\ MinPeer <= MaxPeer

Node == 0 .. N - 1

VARIABLES
    miners,  \* the set of miner indices drawn so far
    peers,   \* peers[i]: the peer set of node i
    phase,   \* "miners", "check", "pass", "done"
    i        \* the node the current pass is at

vars == <<miners, peers, phase, i>>

-----------------------------------------------------------------------------
Init ==
    /\ miners = {}
    /\ peers = [n \in Node |-> {}]
    /\ phase = "miners"
    /\ i = 0

(* Mutant of AddMiner: draws from 0 .. len(nodes), one index too many.    *)
AddMinerOffByOne ==
    /\ phase = "miners"
    /\ Cardinality(miners) < NumMiners
    /\ \E j \in (0 .. N) \ miners : miners' = miners \cup {j}
    /\ UNCHANGED <<peers, phase, i>>

(* miners.Add(mrand.Intn(len(nodes))) while the set is too small.         *)
AddMiner ==
    /\ phase = "miners"
    /\ Cardinality(miners) < NumMiners
    /\ \E j \in Node \ miners : miners' = miners \cup {j}
    /\ UNCHANGED <<peers, phase, i>>

(* The loop ends; IsMiner is set from the set and setPeers starts.         *)
MinersDone ==
    /\ phase = "miners"
    /\ Cardinality(miners) >= NumMiners
    /\ phase' = "check"
    /\ UNCHANGED <<miners, peers, i>>

(* Mutant of DegreesOK: rejects a node that has exactly MaxPeer peers.    *)
DegreesOKStrict == \A n \in Node : Cardinality(peers[n]) \in MinPeer .. MaxPeer - 1

(* check(): every degree lies in [MinPeer, MaxPeer].                       *)
DegreesOK == \A n \in Node : Cardinality(peers[n]) \in MinPeer .. MaxPeer

(* for !check(): stop, or start a new pass at node 0.                      *)
Check ==
    /\ phase = "check"
    /\ IF DegreesOK
         THEN phase' = "done" /\ UNCHANGED i
         ELSE phase' = "pass" /\ i' = 0
    /\ UNCHANGED <<miners, peers>>

(* Mutant of Pick: only node i records the edge.                          *)
PickOneSided(j) ==
    /\ phase = "pass"
    /\ i \in Node
    /\ Cardinality(peers[i]) < MinPeer
    /\ j # i
    /\ Cardinality(peers[j]) < MaxPeer
    /\ j \notin peers[i]
    /\ peers' = [peers EXCEPT ![i] = @ \cup {j}]
    /\ UNCHANGED <<miners, phase, i>>

(* Mutant of Pick: accepts a candidate that already has MaxPeer peers.    *)
PickNoCap(j) ==
    /\ phase = "pass"
    /\ i \in Node
    /\ Cardinality(peers[i]) < MinPeer
    /\ j # i
    /\ j \notin peers[i]
    /\ peers' = [peers EXCEPT ![i] = @ \cup {j}, ![j] = @ \cup {i}]
    /\ UNCHANGED <<miners, phase, i>>

(* A draw j that is accepted: node i links to j and j to i.                *)
Pick(j) ==
    /\ phase = "pass"
    /\ i \in Node
    /\ Cardinality(peers[i]) < MinPeer
    /\ j # i
    /\ Cardinality(peers[j]) < MaxPeer
    /\ j \notin peers[i]
    /\ peers' = [peers EXCEPT ![i] = @ \cup {j}, ![j] = @ \cup {i}]
    /\ UNCHANGED <<miners, phase, i>>

(* Node i has MinPeer peers: the pass moves on.                            *)
NextNode ==
    /\ phase = "pass"
    /\ i \in Node
    /\ Cardinality(peers[i]) >= MinPeer
    /\ i' = i + 1
    /\ UNCHANGED <<miners, peers, phase>>

(* The pass is over: check again.                                          *)
PassDone ==
    /\ phase = "pass"
    /\ i = N
    /\ phase' = "check"
    /\ UNCHANGED <<miners, peers, i>>

(* The descriptor is complete (the peer sets become address lists).        *)
Done ==
    /\ phase = "done"
    /\ UNCHANGED vars

Gen ==
    \/ AddMiner \/ MinersDone \/ Check \/ NextNode \/ PassDone
    \/ \E j \in Node : Pick(j)

Next == Gen \/ Done

(* The generator is one sequential loop of one process; a random draw      *)
(* names every candidate with probability one eventually.                  *)
Spec == Init /\ [][Next]_vars /\ WF_vars(Gen)

-----------------------------------------------------------------------------
TypeOK ==
    /\ miners \in SUBSET Node
    /\ peers \in [Node -> SUBSET Node]
    /\ phase \in {"miners", "check", "pass", "done"}
    /\ i \in 0 .. N

(* The descriptor gen writes: exactly NumMiners miners, a symmetric peer   *)
(* relation without self-loops, every degree in [MinPeer, MaxPeer].        *)
ValidTopology ==
    phase = "done" =>
        /\ Cardinality(miners) = NumMiners
        /\ \A a, b \in Node : a \in peers[b] <=> b \in peers[a]
        /\ \A a \in Node : a \notin peers[a]
        /\ \A a \in Node : Cardinality(peers[a]) \in MinPeer .. MaxPeer

(* No node ever has more than MaxPeer peers, during generation included:   *)
(* a pass can never repair an excess, since it only adds edges.            *)
DegreeCapped == \A n \in Node : Cardinality(peers[n]) <= MaxPeer

(* setPeers returns.                                                       *)
Terminates == <>(phase = "done")

(* A node that still needs peers always has a candidate a draw can accept, *)
(* so the inner loop of setPeers cannot spin forever.                      *)
CanProgress ==
    phase = "pass" /\ i \in Node /\ Cardinality(peers[i]) < MinPeer =>
        \E j \in Node \ ({i} \cup peers[i]) : Cardinality(peers[j]) < MaxPeer

-----------------------------------------------------------------------------
(* The inductive strengthening of ValidTopology and DegreeCapped: the     *)
(* miner loop never overshoots, every step of setPeers adds an edge to     *)
(* both ends and never at a node itself, and "done" is only reached        *)
(* through a check() that held.                                            *)
PeerSymmetric == \A a, b \in Node : a \in peers[b] <=> b \in peers[a]

NoSelfPeer == \A a \in Node : a \notin peers[a]

MinersCounted ==
    /\ Cardinality(miners) <= NumMiners
    /\ phase # "miners" => Cardinality(miners) = NumMiners

IInv ==
    /\ TypeOK
    /\ MinersCounted
    /\ PeerSymmetric
    /\ NoSelfPeer
    /\ DegreeCapped
    /\ phase = "done" => DegreesOK

=============================================================================
