-------------------------- MODULE FleetRefinement --------------------------
(* The supervisor of one program implements Fleet. *)
EXTENDS Supervisor

(* A variant is in memory when a process runs its worker; it serves as     *)
(* long as a lease is connected to it.                                     *)
At(r, place) ==
  \E t \in Threads : /\ pc[t] = place /\ Up(conn[t])
                     /\ worker[conn[t]].ref = r
Held ==
  [r \in Refs |-> IF At(r, "load") THEN "loading"
                  ELSE IF At(r, "job") THEN "serving"
                  ELSE IF \E q \in Pids : Up(q) /\ worker[q].ref = r
                  THEN "warm" ELSE "absent"]

F == INSTANCE Fleet WITH held <- Held, Weight <- Profile, Capacity <- Budget

(* The turns, the lock, the mirror and the sockets together keep the       *)
(* promise of Fleet: loads one at a time and within the budget, one job    *)
(* per model, no step that changes two models, and loads and jobs that     *)
(* end.                                                                    *)
ImplementsFleet == F!Spec
=============================================================================
