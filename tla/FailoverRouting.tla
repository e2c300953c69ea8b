---------------------------- MODULE FailoverRouting ----------------------------
(***************************************************************************)
(* What the coordinator promises the callers of /api/cluster/endpoint, with *)
(* nothing said of polling rounds, locks, addresses or the status of an     *)
(* entry.  Each service with a backup has a route.  One answered probe      *)
(* sends callers (back) to the primary.  They are sent to the backup with   *)
(* the Threshold-th miss in a row since the service last registered,        *)
(* neither earlier nor later.  A restart of the coordinator forgets all.    *)
(***************************************************************************)
EXTENDS Naturals

CONSTANTS Services,   \* the services that have a backup
          Threshold,  \* misses that cause a switch to the backup
          MissCap     \* misses are counted up to this bound

VARIABLES route,   \* where callers are sent: "default" until the first verdict
          misses,  \* probes missed in a row, up to MissCap
          counted  \* ... of those, the ones since the service last registered

vars == <<route, misses, counted>>

None == [s \in Services |-> 0]

Init == /\ route  = [s \in Services |-> "default"]
        /\ misses = None /\ counted = None

Answered(s) == /\ misses'  = [misses EXCEPT ![s] = 0]
               /\ counted' = [counted EXCEPT ![s] = 0]
               /\ route'   = [route EXCEPT ![s] = "primary"]

More(k) == IF k < MissCap THEN k + 1 ELSE k

Missed(s) ==
    /\ misses'  = [misses EXCEPT ![s] = More(@)]
    /\ counted' = [counted EXCEPT ![s] = More(@)]
    /\ route'   = IF counted'[s] >= Threshold THEN [route EXCEPT ![s] = "backup"]
                  ELSE route

\* A service that registers has its misses counted from the start again.
Registered(s) == counted' = [counted EXCEPT ![s] = 0] /\ UNCHANGED <<route, misses>>

Forget == /\ misses' = None /\ counted' = None
          /\ route' = [s \in Services |-> "default"]

Next == Forget \/ \E s \in Services : Answered(s) \/ Missed(s) \/ Registered(s)

Spec == Init /\ [][Next]_vars
================================================================================
