---------------------------- MODULE VehicleLock ----------------------------
(***************************************************************************)
(* What withLock promises (redis.service.ts:97-102): the callbacks for one *)
(* vehicle run one at a time, on however many pods; how one gets its turn, *)
(* fails or dies is its own business.                                      *)
(***************************************************************************)
CONSTANTS Vehicles, Requests

VARIABLE running        \* the requests whose callback runs, for each vehicle

Init == running = [v \in Vehicles |-> {}]

Begin(v, r) ==
    /\ running[v] = {}
    /\ running' = [running EXCEPT ![v] = {r}]

End(v) == running' = [running EXCEPT ![v] = {}]

Next == \E v \in Vehicles : End(v) \/ \E r \in Requests : Begin(v, r)

Spec == Init /\ [][Next]_running
=============================================================================
