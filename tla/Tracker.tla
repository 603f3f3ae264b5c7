------------------------------- MODULE Tracker -------------------------------
(***************************************************************************)
(* The pending-request tracker of cmd/ethemu/initcmd.go (package tracker:  *)
(* New, clean, schedule).  Requests are kept in a map and, in the order    *)
(* they were made, in an expiry list; a single AfterFunc timer is armed    *)
(* for the head of the list at its time + timeout, and runs clean, which   *)
(* under the lock drops every head older than timeout + 5ms and then       *)
(* re-arms the timer through schedule.                                     *)
(*                                                                         *)
(* The file holds no Track or Fulfil, so requests only leave the tracker.  *)
(* Init is any state Track could have built: the ids in the list in the    *)
(* order they were made, ages not increasing along it, the timer armed     *)
(* when the list is not empty.  Time is the age of each request in ticks,  *)
(* capped at Timeout + Slack, the largest age any comparison looks at.     *)
(***************************************************************************)
EXTENDS Naturals, Sequences, FiniteSets

CONSTANTS
    Id,        \* request ids
    Timeout,   \* t.timeout, in ticks
    Slack,     \* the 5ms grace of clean, in ticks
    MaxWakes   \* how many timer runs the model allows between two ticks

ASSUME TrackerAssumption ==
    /\ Timeout \in Nat \ {0} /\ Slack \in Nat \ {0} /\ MaxWakes \in Nat \ {0}

Cap == Timeout + Slack

VARIABLES
    expire,   \* t.expire: the ids, oldest first
    pending,  \* t.pending: id -> age of the request
    wake,     \* t.wake: "nil", "armed", or "fired" (a spent timer)
    wakes     \* timer runs since the last tick

tvars == <<expire, pending, wake, wakes>>

Ids(s) == {s[k] : k \in DOMAIN s}

(* The sequences of distinct ids.                                          *)
Orders == UNION {[1 .. k -> Id] : k \in 0 .. Cardinality(Id)}

-----------------------------------------------------------------------------
TrackerInit ==
    /\ \E s \in Orders :
          /\ \A k, l \in DOMAIN s : k # l => s[k] # s[l]
          /\ expire = s
          /\ \E ages \in [Ids(s) -> 0 .. Cap] :
                /\ \A k \in 1 .. Len(s) - 1 : ages[s[k]] >= ages[s[k + 1]]
                /\ pending = ages
    /\ wake = IF expire = <<>> THEN "nil" ELSE "armed"
    /\ wakes = 0

(* Time passes by one tick.                                                *)
Tick ==
    /\ pending' = [i \in DOMAIN pending |->
                      IF pending[i] < Cap THEN pending[i] + 1 ELSE Cap]
    /\ wakes' = 0
    /\ UNCHANGED <<expire, wake>>

(* The number of heads clean drops: the longest prefix whose requests are  *)
(* at least timeout + 5ms old (time.Since(req.time) >= t.timeout + 5ms).   *)
DeadPrefix(threshold) ==
    LET dead == {k \in 0 .. Len(expire) :
                    \A l \in 1 .. k : pending[expire[l]] >= threshold}
    IN  CHOOSE k \in dead : \A l \in dead : l <= k

(* schedule: t.wake = nil when the list is empty, else AfterFunc armed for *)
(* the new head.                                                           *)
Schedule(rest) == wake' = IF rest = <<>> THEN "nil" ELSE "armed"

(* Mutant of clean: the entry is removed from the list, not from the map.  *)
CleanNoDelete ==
    /\ wake = "armed" /\ expire # <<>> /\ pending[Head(expire)] >= Timeout
    /\ wakes < MaxWakes
    /\ LET k == DeadPrefix(Cap) IN
          /\ expire' = SubSeq(expire, k + 1, Len(expire))
          /\ UNCHANGED pending
          /\ Schedule(expire')
    /\ wakes' = wakes + 1

(* Mutant of clean: the 5ms grace is lost.                                 *)
CleanNoSlack ==
    /\ wake = "armed" /\ expire # <<>> /\ pending[Head(expire)] >= Timeout
    /\ wakes < MaxWakes
    /\ LET k == DeadPrefix(Timeout) IN
          /\ expire' = SubSeq(expire, k + 1, Len(expire))
          /\ pending' = [i \in DOMAIN pending \ {expire[l] : l \in 1 .. k} |->
                            pending[i]]
          /\ Schedule(expire')
    /\ wakes' = wakes + 1

(* Mutant of clean: return instead of break at the first live head, so   *)
(* schedule is skipped and t.wake keeps pointing at the spent timer.       *)
CleanReturnEarly ==
    /\ wake = "armed" /\ expire # <<>> /\ pending[Head(expire)] >= Timeout
    /\ wakes < MaxWakes
    /\ LET k == DeadPrefix(Cap) IN
          /\ expire' = SubSeq(expire, k + 1, Len(expire))
          /\ pending' = [i \in DOMAIN pending \ {expire[l] : l \in 1 .. k} |->
                            pending[i]]
          /\ IF k < Len(expire) THEN wake' = "fired" ELSE Schedule(expire')
    /\ wakes' = wakes + 1

(* The AfterFunc timer of the head fires (time.Until(head.time + timeout)  *)
(* has passed; a negative wait fires at once) and runs clean: the dead     *)
(* heads leave the list and the map, and schedule re-arms the timer.       *)
Clean ==
    /\ wake = "armed" /\ expire # <<>> /\ pending[Head(expire)] >= Timeout
    /\ wakes < MaxWakes
    /\ LET k == DeadPrefix(Cap) IN
          /\ expire' = SubSeq(expire, k + 1, Len(expire))
          /\ pending' = [i \in DOMAIN pending \ {expire[l] : l \in 1 .. k} |->
                            pending[i]]
          /\ Schedule(expire')
    /\ wakes' = wakes + 1

TrackerNext == Tick \/ Clean

(* Time always passes, and the AfterFunc goroutine runs once its timer is *)
(* due.                                                                    *)
TrackerSpec == TrackerInit /\ [][TrackerNext]_tvars /\ WF_tvars(Tick) /\ WF_tvars(Clean)

-----------------------------------------------------------------------------
TrackerTypeOK ==
    /\ expire \in Orders /\ wake \in {"nil", "armed", "fired"} /\ wakes \in 0 .. MaxWakes
    /\ DOMAIN pending \subseteq Id /\ \A i \in DOMAIN pending : pending[i] \in 0 .. Cap

(* The map and the list hold the same requests, each once, oldest first,  *)
(* and the timer is armed exactly when there is a request to expire: what *)
(* clean's removals and schedule must keep together.                       *)
TrackerConsistent ==
    /\ Ids(expire) = DOMAIN pending
    /\ \A k, l \in DOMAIN expire : k # l => expire[k] # expire[l]
    /\ \A k \in 1 .. Len(expire) - 1 : pending[expire[k]] >= pending[expire[k + 1]]
    /\ (wake = "nil") = (expire = <<>>)

(* The inductive strengthening of TrackerConsistent: the list holds ids,  *)
(* and the map gives each of them an age that the Tick cap keeps in range. *)
TrackerIInv ==
    /\ expire \in Seq(Id)
    /\ pending \in [Ids(expire) -> 0 .. Cap]
    /\ TrackerConsistent

(* Every tracked request is eventually dropped: the timer chain that      *)
(* clean and schedule keep up never breaks while time passes.             *)
AllExpire ==
    \A i \in Id : [](i \in DOMAIN pending => <>(i \notin DOMAIN pending))

(* The comment on clean: it runs when the timeout of the first request    *)
(* passes.  A run that drops nothing re-arms the timer for a moment that  *)
(* is already past, so clean runs again and again within one tick.        *)
OneWakePerTick == wakes <= 1

(* The tracker implements ExpiringSet, with the map as the set of        *)
(* requests: a tick ages every request, and a run of clean, although its   *)
(* loop stops at the first live head of the list, drops every dead request *)
(* because the list is kept oldest first.                                  *)
Expiring == INSTANCE ExpiringSet WITH req <- pending

ExpiryRefined == Expiring!ExpSpec

=============================================================================
