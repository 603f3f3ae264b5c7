---------------------------- MODULE TrackerProofs ----------------------------
(***************************************************************************)
(* Proofs about the request tracker of initcmd.go: the map, the expiry     *)
(* list and the timer stay consistent, and the tracker implements         *)
(* ExpiringSet, for every set of ids and every timeout.                    *)
(***************************************************************************)
EXTENDS Tracker, WellFoundedInduction, TLAPS

USE TrackerAssumption

(* A nonempty set of numbers up to n has a largest element: the least     *)
(* distance to n, by the well-foundedness of < on Nat.                     *)
LEMMA BoundedMax ==
    ASSUME NEW n \in Nat, NEW D, D \subseteq 0 .. n, D # {}
    PROVE  \E k \in D : \A l \in D : l <= k
  <1> DEFINE T == {n - k : k \in D}
  <1>1. T \subseteq Nat
    <2> SUFFICES ASSUME NEW k \in D PROVE n - k \in Nat
      OBVIOUS
    <2> QED
      OBVIOUS
  <1>2. T # {}
    OBVIOUS
  <1>3. PICK x \in T : \A y \in T : ~(<<y, x>> \in OpToRel(<, Nat))
    BY <1>1, <1>2, NatLessThanWellFounded, WFMin
  <1>4. \A y \in T : ~(y < x)
    BY <1>1, <1>3 DEF OpToRel
  <1>5. PICK k \in D : x = n - k
    OBVIOUS
  <1>6. \A l \in D : l <= k
    <2> SUFFICES ASSUME NEW l \in D PROVE l <= k
      OBVIOUS
    <2>1. n - l \in T /\ ~(n - l < n - k)
      BY <1>4, <1>5
    <2> QED
      BY <2>1
  <1>7. QED
    BY <1>6

(* The number of heads clean drops is a length of a prefix of dead heads, *)
(* and the longest one.                                                    *)
LEMMA DeadPrefixIsLongest ==
    ASSUME NEW th, expire \in Seq(Id)
    PROVE  LET dead == {k \in 0 .. Len(expire) :
                           \A l \in 1 .. k : pending[expire[l]] >= th}
           IN  /\ DeadPrefix(th) \in dead
               /\ \A l \in dead : l <= DeadPrefix(th)
  <1> DEFINE dead == {k \in 0 .. Len(expire) :
                         \A l \in 1 .. k : pending[expire[l]] >= th}
  <1>1. /\ Len(expire) \in Nat
        /\ 0 \in dead /\ dead \subseteq 0 .. Len(expire)
    OBVIOUS
  <1>2. \E k \in dead : \A l \in dead : l <= k
    BY <1>1, BoundedMax
  <1>3. QED
    BY <1>2 DEF DeadPrefix

(* The invariant holds in every state Track could have left.               *)
LEMMA InitTrackerIInv == TrackerInit => TrackerIInv
  <1> SUFFICES ASSUME TrackerInit PROVE TrackerIInv
    OBVIOUS
  <1>1. PICK s \in Orders :
            /\ \A k, l \in DOMAIN s : k # l => s[k] # s[l]
            /\ expire = s
            /\ \E ages \in [Ids(s) -> 0 .. Cap] :
                  /\ \A k \in 1 .. Len(s) - 1 : ages[s[k]] >= ages[s[k + 1]]
                  /\ pending = ages
    BY DEF TrackerInit
  <1>2. s \in Seq(Id)
    BY DEF Orders
  <1>3. QED
    BY <1>1, <1>2 DEF TrackerInit, TrackerIInv, TrackerConsistent

(* Tick ages every request by one, up to the cap, and keeps their order.  *)
LEMMA TickIInv == TrackerIInv /\ Tick => TrackerIInv'
  <1> SUFFICES ASSUME TrackerIInv, Tick PROVE TrackerIInv'
    OBVIOUS
  <1>1. Cap \in Nat
    BY DEF Cap
  <1>2. /\ pending' = [i \in DOMAIN pending |->
                         IF pending[i] < Cap THEN pending[i] + 1 ELSE Cap]
        /\ expire' = expire /\ wake' = wake
    BY DEF Tick
  <1>3. pending' \in [Ids(expire) -> 0 .. Cap]
    <2>1. DOMAIN pending = Ids(expire) /\ \A i \in Ids(expire) : pending[i] \in 0 .. Cap
      BY DEF TrackerIInv
    <2> QED
      BY <1>1, <1>2, <2>1
  <1>4. \A k \in 1 .. Len(expire) - 1 :
            pending'[expire[k]] >= pending'[expire[k + 1]]
    <2> SUFFICES ASSUME NEW k \in 1 .. Len(expire) - 1
                 PROVE  pending'[expire[k]] >= pending'[expire[k + 1]]
      OBVIOUS
    <2>1. expire[k] \in DOMAIN pending /\ expire[k + 1] \in DOMAIN pending
      BY DEF TrackerIInv, TrackerConsistent, Ids
    <2>2. pending[expire[k]] \in 0 .. Cap /\ pending[expire[k + 1]] \in 0 .. Cap
      BY <2>1 DEF TrackerIInv, TrackerConsistent
    <2> QED
      BY <1>1, <1>2, <2>1, <2>2 DEF TrackerIInv, TrackerConsistent
  <1>5. QED
    BY <1>2, <1>3, <1>4 DEF TrackerIInv, TrackerConsistent

(* clean drops the k dead heads from the list and from the map, and       *)
(* schedule leaves the timer nil exactly when the list became empty.       *)
LEMMA CleanIInv ==
    ASSUME TrackerIInv, Clean
    PROVE  /\ TrackerIInv'
           /\ \A i \in DOMAIN pending \ DOMAIN pending' : pending[i] >= Cap
  <1> DEFINE k == DeadPrefix(Cap)
             gone == {expire[l] : l \in 1 .. k}
  <1>1. /\ k \in 0 .. Len(expire)
        /\ \A l \in 1 .. k : pending[expire[l]] >= Cap
    BY DeadPrefixIsLongest DEF TrackerIInv
  <1>2. /\ expire' = SubSeq(expire, k + 1, Len(expire))
        /\ pending' = [i \in DOMAIN pending \ gone |-> pending[i]]
        /\ wake' = IF expire' = <<>> THEN "nil" ELSE "armed"
    BY DEF Clean, Schedule
  <1>3. /\ expire' \in Seq(Id)
        /\ Len(expire') = Len(expire) - k
        /\ DOMAIN expire' = 1 .. Len(expire) - k
        /\ \A i \in 1 .. Len(expire') : expire'[i] = expire[i + k]
    <2>1. expire' = [i \in 1 .. Len(expire) - k |-> expire[i + k]]
      BY <1>1, <1>2 DEF TrackerIInv
    <2>2. \A i \in 1 .. Len(expire) - k : expire[i + k] \in Id
      BY <1>1 DEF TrackerIInv
    <2>3. Len(expire) - k \in Nat
      BY <1>1 DEF TrackerIInv
    <2>4. expire' \in [1 .. Len(expire) - k -> Id]
      BY <2>1, <2>2
    <2> QED
      BY <2>1, <2>3, <2>4
  <1>4. Ids(expire') = Ids(expire) \ gone
    <2>1. ASSUME NEW i \in DOMAIN expire' PROVE expire'[i] \in Ids(expire) \ gone
      <3>1. expire'[i] = expire[i + k] /\ i + k \in DOMAIN expire
        BY <1>1, <1>3
      <3>2. \A l \in 1 .. k : expire[l] # expire[i + k]
        <4> SUFFICES ASSUME NEW l \in 1 .. k PROVE expire[l] # expire[i + k]
          OBVIOUS
        <4>1. l \in DOMAIN expire /\ l # i + k
          BY <1>1, <1>3 DEF TrackerIInv
        <4> QED
          BY <3>1, <4>1 DEF TrackerIInv, TrackerConsistent
      <3> QED
        BY <3>1, <3>2 DEF Ids
    <2>2. ASSUME NEW j \in DOMAIN expire, expire[j] \notin gone
          PROVE  expire[j] \in Ids(expire')
      <3>1. j > k
        BY <1>1, <2>2 DEF TrackerIInv
      <3>2. j - k \in DOMAIN expire' /\ expire'[j - k] = expire[j]
        BY <1>1, <1>3, <3>1 DEF TrackerIInv
      <3> QED
        BY <3>2 DEF Ids
    <2> QED
      BY <2>1, <2>2 DEF Ids
  <1>5. DOMAIN pending' = Ids(expire') /\ pending' \in [Ids(expire') -> 0 .. Cap]
    BY <1>2, <1>4 DEF TrackerIInv, TrackerConsistent
  <1>6. \A i, j \in DOMAIN expire' : i # j => expire'[i] # expire'[j]
    <2> SUFFICES ASSUME NEW i \in DOMAIN expire', NEW j \in DOMAIN expire', i # j
                 PROVE  expire'[i] # expire'[j]
      OBVIOUS
    <2>1. i + k \in DOMAIN expire /\ j + k \in DOMAIN expire /\ i + k # j + k
      BY <1>1, <1>3 DEF TrackerIInv
    <2> QED
      BY <1>3, <2>1 DEF TrackerIInv, TrackerConsistent
  <1>7. \A i \in 1 .. Len(expire') - 1 :
            pending'[expire'[i]] >= pending'[expire'[i + 1]]
    <2> SUFFICES ASSUME NEW i \in 1 .. Len(expire') - 1
                 PROVE  pending'[expire'[i]] >= pending'[expire'[i + 1]]
      OBVIOUS
    <2>1. expire'[i] \in Ids(expire') /\ expire'[i + 1] \in Ids(expire')
      BY <1>3 DEF Ids
    <2>2. expire'[i] = expire[i + k] /\ expire'[i + 1] = expire[(i + k) + 1]
      BY <1>1, <1>3
    <2>3. expire'[i] \in DOMAIN pending \ gone /\ expire'[i + 1] \in DOMAIN pending \ gone
      BY <1>4, <2>1 DEF TrackerIInv, TrackerConsistent
    <2>4. /\ pending'[expire'[i]] = pending[expire[i + k]]
          /\ pending'[expire'[i + 1]] = pending[expire[(i + k) + 1]]
      BY <1>2, <2>2, <2>3
    <2>5. i + k \in 1 .. Len(expire) - 1
      BY <1>1, <1>3
    <2> QED
      BY <2>4, <2>5 DEF TrackerIInv, TrackerConsistent
  <1>8. (wake' = "nil") = (expire' = <<>>)
    BY <1>2
  <1>9. \A i \in DOMAIN pending \ DOMAIN pending' : pending[i] >= Cap
    BY <1>1, <1>2
  <1>10. QED
    BY <1>3, <1>5, <1>6, <1>7, <1>8, <1>9 DEF TrackerIInv, TrackerConsistent
(* The strengthened invariant is inductive, and no step of the tracker    *)
(* drops a request younger than the cap.                                   *)
LEMMA NextTrackerIInv ==
    ASSUME TrackerIInv, [TrackerNext]_tvars
    PROVE  /\ TrackerIInv'
           /\ \A i \in DOMAIN pending \ DOMAIN pending' : pending[i] >= Cap
  <1>1. CASE Tick
    <2>1. DOMAIN pending' = DOMAIN pending
      BY <1>1 DEF Tick
    <2> QED
      BY <1>1, <2>1, TickIInv
  <1>2. CASE Clean
    BY <1>2, CleanIInv
  <1>3. CASE UNCHANGED tvars
    BY <1>3 DEF tvars, TrackerIInv, TrackerConsistent, Ids
  <1>4. QED
    BY <1>1, <1>2, <1>3 DEF TrackerNext

(* Whatever ids, timeout and grace, the map, the expiry list and the      *)
(* timer of the tracker stay consistent under clean's removals, schedule's *)
(* re-arming and the passing of time.                                      *)
THEOREM TrackerConsistentTheorem == TrackerSpec => []TrackerConsistent
  <1>1. TrackerIInv => TrackerConsistent
    BY DEF TrackerIInv
  <1>2. TrackerIInv /\ [TrackerNext]_tvars => TrackerIInv'
    BY NextTrackerIInv
  <1>3. QED
    BY <1>1, <1>2, InitTrackerIInv, PTL DEF TrackerSpec

-----------------------------------------------------------------------------
(* The refinement of ExpiringSet.                                          *)

(* A nonempty set of naturals has a least element.                         *)
LEMMA LeastExists ==
    ASSUME NEW B, B \subseteq Nat, B # {}
    PROVE  \E m \in B : \A y \in B : m <= y
  <1>1. PICK x \in B : \A y \in B : ~(<<y, x>> \in OpToRel(<, Nat))
    BY NatLessThanWellFounded, WFMin
  <1>2. \A y \in B : ~(y < x)
    BY <1>1 DEF OpToRel
  <1> QED
    BY <1>2

(* Ages that do not increase from one entry of a list to the next do not  *)
(* increase from any entry to any later one.                               *)
LEMMA AdjacentToPairwise ==
    ASSUME NEW s \in Seq(Id), NEW f,
           \A i \in 1 .. Len(s) : f[s[i]] \in Nat,
           \A i \in 1 .. Len(s) - 1 : f[s[i]] >= f[s[i + 1]],
           NEW k \in 1 .. Len(s), NEW l \in 1 .. Len(s), k <= l
    PROVE  f[s[k]] >= f[s[l]]
  <1> DEFINE B == {m \in k .. l : f[s[m]] > f[s[k]]}
  <1> SUFFICES ASSUME f[s[l]] > f[s[k]] PROVE FALSE
    OBVIOUS
  <1>1. B \subseteq Nat /\ l \in B
    OBVIOUS
  <1>2. PICK m \in B : \A y \in B : m <= y
    BY <1>1, LeastExists
  <1>3. m # k
    OBVIOUS
  <1>4. m - 1 \in k .. l /\ m - 1 \notin B
    BY <1>2, <1>3
  <1>5. f[s[m - 1]] <= f[s[k]]
    BY <1>4
  <1>6. f[s[m - 1]] >= f[s[m]] /\ f[s[m]] > f[s[k]]
    <2>1. m - 1 \in 1 .. Len(s) - 1
      BY <1>3
    <2> QED
      BY <2>1
  <1>7. f[s[m - 1]] \in Nat /\ f[s[m]] \in Nat /\ f[s[k]] \in Nat
    BY <1>4
  <1> QED
    BY <1>5, <1>6, <1>7

(* clean's loop stops at the first live head, and still every dead        *)
(* request leaves the map: behind a live head the list holds only younger  *)
(* requests.                                                               *)
LEMMA CleanDropsAllDead ==
    ASSUME TrackerIInv, Clean
    PROVE  pending' = [i \in {j \in DOMAIN pending : pending[j] < Cap} |-> pending[i]]
  <1> DEFINE k == DeadPrefix(Cap)
             gone == {expire[l] : l \in 1 .. k}
             dead == {d \in 0 .. Len(expire) :
                         \A l \in 1 .. d : pending[expire[l]] >= Cap}
  <1>1. /\ k \in dead
        /\ \A d \in dead : d <= k
    BY DeadPrefixIsLongest DEF TrackerIInv
  <1>2. pending' = [i \in DOMAIN pending \ gone |-> pending[i]]
    BY DEF Clean
  <1>3. Cap \in Nat
    BY DEF Cap
  <1>4. ASSUME NEW j \in DOMAIN pending, j \notin gone PROVE pending[j] < Cap
    <2>1. PICK m \in 1 .. Len(expire) : expire[m] = j
      BY DEF TrackerIInv, TrackerConsistent, Ids
    <2>2. k < m
      BY <1>1, <2>1, <1>4 DEF TrackerIInv
    <2>3. k + 1 \in 1 .. Len(expire) /\ k + 1 <= m
      BY <1>1, <2>1, <2>2 DEF TrackerIInv
    <2>0. \A i \in 1 .. Len(expire) : pending[expire[i]] \in Nat
      BY <1>3 DEF TrackerIInv, Ids
    <2>4. pending[expire[k + 1]] < Cap
      <3> SUFFICES ASSUME pending[expire[k + 1]] >= Cap PROVE FALSE
        BY <1>3, <2>0, <2>3
      <3>1. k + 1 \in dead
        BY <1>1, <2>3
      <3> QED
        BY <1>1, <3>1
    <2>5. pending[expire[k + 1]] >= pending[expire[m]]
      BY <2>0, <2>3, AdjacentToPairwise DEF TrackerIInv, TrackerConsistent
    <2> QED
      BY <1>3, <2>0, <2>1, <2>3, <2>4, <2>5
  <1>5. DOMAIN pending \ gone = {j \in DOMAIN pending : pending[j] < Cap}
    <2>1. \A j \in gone : pending[j] >= Cap
      BY <1>1
    <2> QED
      BY <1>4, <2>1, <1>3 DEF TrackerIInv
  <1> QED
    BY <1>2, <1>5

(* Every state Track could have left is a set of requests of ExpiringSet. *)
LEMMA InitExpiring == TrackerInit => Expiring!ExpInit
  <1> SUFFICES ASSUME TrackerInit PROVE Expiring!ExpInit
    OBVIOUS
  <1>1. TrackerIInv
    BY InitTrackerIInv
  <1>2. Ids(expire) \in SUBSET Id /\ pending \in [Ids(expire) -> 0 .. Cap]
    BY <1>1 DEF TrackerIInv, Ids
  <1> QED
    BY <1>2 DEF Expiring!ExpInit

(* A tick is an Age step, a run of clean an ExpireDead step.               *)
LEMMA NextExpiring ==
    TrackerIInv /\ [TrackerNext]_tvars => [Expiring!ExpNext]_pending
  <1> SUFFICES ASSUME TrackerIInv, [TrackerNext]_tvars
               PROVE  [Expiring!ExpNext]_pending
    OBVIOUS
  <1>1. CASE Tick
    BY <1>1 DEF Tick, Expiring!ExpNext, Expiring!Age
  <1>2. CASE Clean
    BY <1>2, CleanDropsAllDead DEF Expiring!ExpNext, Expiring!ExpireDead
  <1>3. CASE UNCHANGED tvars
    BY <1>3 DEF tvars
  <1> QED
    BY <1>1, <1>2, <1>3 DEF TrackerNext

(* For every set of ids, timeout and grace, the tracker implements        *)
(* ExpiringSet: its map ages as time passes, and each run of clean drops  *)
(* exactly the requests at least timeout + 5ms old, so that the break at  *)
(* the first live head of the expiry list never leaves a dead request.     *)
THEOREM ExpiryRefinedTheorem == TrackerSpec => ExpiryRefined
  <1>1. TrackerIInv /\ [TrackerNext]_tvars => TrackerIInv'
    BY NextTrackerIInv
  <1> QED
    BY <1>1, InitExpiring, NextExpiring, InitTrackerIInv, PTL
       DEF TrackerSpec, ExpiryRefined, Expiring!ExpSpec

=============================================================================
