------------------------------- MODULE Fleet -------------------------------
(***************************************************************************)
(* What the supervisor promises of the models in memory, without turns,    *)
(* locks, mirror, sockets or processes: CONCEPTION 5.1-5.4 as one state    *)
(* per variant.  The machine loads one model at a time and only when the   *)
(* whole park fits; a model serves one job at a time and stays warm after  *)
(* it; loads and jobs end.                                                 *)
(***************************************************************************)
EXTENDS Naturals, FiniteSetsExt

CONSTANTS Refs,     \* the variants
          Weight,   \* [Refs -> Nat]: the memory each takes
          Capacity  \* what the park may take

VARIABLE held

Present == {r \in Refs : held[r] # "absent"}
Becomes(r, from, to) == held[r] = from /\ held' = [held EXCEPT ![r] = to]

Init == held = [r \in Refs |-> "absent"]

Load(r) ==
  /\ \A q \in Refs : held[q] # "loading"
  /\ MapThenSumSet(LAMBDA q : Weight[q], Present \cup {r}) <= Capacity
  /\ Becomes(r, "absent", "loading")

Loaded(r) == Becomes(r, "loading", "serving")
Take(r) == Becomes(r, "warm", "serving")
GiveBack(r) == Becomes(r, "serving", "warm")

(* A load that fails, an eviction, a worker that exits or dies. *)
Leave(r) == held[r] # "absent" /\ held' = [held EXCEPT ![r] = "absent"]

Step(r) == Load(r) \/ Loaded(r) \/ Take(r) \/ GiveBack(r) \/ Leave(r)
Next == \E r \in Refs : Step(r)

Fairness ==
  \A r \in Refs :
    /\ WF_held(held[r] = "loading" /\ (Loaded(r) \/ Leave(r)))
    /\ WF_held(held[r] = "serving" /\ (GiveBack(r) \/ Leave(r)))

Spec == Init /\ [][Next]_held /\ Fairness
=============================================================================
