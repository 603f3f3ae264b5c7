----------------------------- MODULE PeerDensity -----------------------------
(***************************************************************************)
(* The density peering policy of the second "gen" (cmd/ethemu/main.go,     *)
(* setPeers at lines 1540-1561).  For every pair i < j of node indices the *)
(* code draws randNum = rand.Intn(100) / 100 and connects the pair when    *)
(* randNum < getPij(density, 0.25, maxDist, i, j), appending each node to  *)
(* the other's peer list.                                                  *)
(*                                                                         *)
(* The float arithmetic is kept exact: density = Target / (N - 1) and the  *)
(* ring distance over maxDist are quotients of small integers, which       *)
(* float64 division rounds to the same value exactly when they are equal,  *)
(* so comparing the rationals decides theta as the code does.  A draw r   *)
(* connects when r/100 < Target/(4(N-1)) + 3 theta/4, that is when         *)
(* 4(N-1) r < 100 Target + 300 (N-1) theta.                                *)
(***************************************************************************)
EXTENDS Naturals, Sequences, FiniteSetsExt

CONSTANTS
    N,        \* --nodes
    Target    \* --peernum: the degree the density is meant to give

Node == 0 .. N - 1

VARIABLES
    peers,  \* peers[i]: the address list nodes[i].Peers, in append order
    i, j    \* the pair the double loop is at

vars == <<peers, i, j>>

(* maxDist := len(nodes) / 2, an integer division.                         *)
MaxDist == N \div 2

(* The circular distance of two indices: min(|i - j|, N - |i - j|).        *)
Ring(a, b) ==
    LET d == IF a >= b THEN a - b ELSE b - a
    IN  IF d <= N - d THEN d ELSE N - d

(* theta = 1 when density - ring / maxDist >= 0.                           *)
Theta(a, b) == IF Target * MaxDist >= Ring(a, b) * (N - 1) THEN 1 ELSE 0

(* The draws r in 0 .. 99 with r / 100 < getPij: prop * density plus      *)
(* (1 - prop) * theta with prop = 0.25.                                    *)
Draws(a, b) ==
    {r \in 0 .. 99 : 4 * (N - 1) * r < 100 * Target + 300 * (N - 1) * Theta(a, b)}

(* for j := i + 1; ...                                                     *)
FirstJ(a) == a + 1

-----------------------------------------------------------------------------
Init ==
    /\ peers = [n \in Node |-> <<>>]
    /\ i = 0 /\ j = FirstJ(0)

(* Advance the double loop past the pair (i, j).                           *)
Advance ==
    IF j + 1 < N THEN i' = i /\ j' = j + 1
    ELSE i' = i + 1 /\ j' = FirstJ(i + 1)

(* The draw is below getPij: both peer lists get the other's address.     *)
Connect ==
    /\ i < N /\ j < N /\ Draws(i, j) # {}
    /\ peers' = [peers EXCEPT ![i] = Append(@, j), ![j] = Append(@, i)]
    /\ Advance

(* The draw is not below getPij: the pair stays apart.                     *)
Skip ==
    /\ i < N /\ j < N /\ Draws(i, j) # 0 .. 99
    /\ UNCHANGED peers
    /\ Advance

(* The loops are over: generateConfig stores the descriptor.               *)
Done ==
    /\ j >= N
    /\ UNCHANGED vars

Next == Connect \/ Skip \/ Done

Spec == Init /\ [][Next]_vars

-----------------------------------------------------------------------------
TypeOK ==
    /\ peers \in [Node -> Seq(Node)]
    /\ i \in 0 .. N /\ j \in 0 .. N + 1

(* The expected degree of node a, in hundredths of a peer: the sum over   *)
(* the other nodes of the probability of the pair.                         *)
ExpectedDegree100(a) ==
    MapThenSumSet(LAMBDA b : Cardinality(Draws(a, b)), Node \ {a})

(* The spec: the expected average degree follows the configured target.  *)
(* getPij depends on the ring distance only, so every node has the same   *)
(* expected degree, the average; checked for the node the loop is at, as  *)
(* being within half a peer of the target.                                 *)
DegreeFollowsTarget ==
    i < N => /\ ExpectedDegree100(i) <= 100 * Target + 50
             /\ 100 * Target <= ExpectedDegree100(i) + 50

=============================================================================
