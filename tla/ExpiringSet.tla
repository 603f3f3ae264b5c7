----------------------------- MODULE ExpiringSet -----------------------------
(***************************************************************************)
(* What the request tracker promises, without its expiry list, its timer   *)
(* or its lock: a set of outstanding requests, each with an age, that all  *)
(* age together as time passes, and an expiry that drops every request    *)
(* that has reached the cap and no other.                                  *)
(***************************************************************************)
EXTENDS Naturals

CONSTANTS
    Id,    \* request ids
    Cap    \* the age at which a request is dead

VARIABLE req    \* outstanding request -> age

ExpInit == \E S \in SUBSET Id : req \in [S -> 0 .. Cap]

(* One tick: every request is one tick older, up to the cap.              *)
Age ==
    req' = [i \in DOMAIN req |-> IF req[i] < Cap THEN req[i] + 1 ELSE Cap]

(* An expiry: the dead requests leave, all of them at once.                *)
ExpireDead ==
    req' = [i \in {j \in DOMAIN req : req[j] < Cap} |-> req[i]]

ExpNext == Age \/ ExpireDead

ExpSpec == ExpInit /\ [][ExpNext]_req

=============================================================================
