---------------------------- MODULE MCSupervisor ----------------------------
(* Small instances of Supervisor: who runs, what each may issue, what the  *)
(* models weigh. Each MC*.cfg but MCAdmission*.cfg picks from these.       *)
EXTENDS FleetRefinement, TLC

CONSTANTS p1, p2, t1, t2, t3, a, b, c, x, w1, w2, w3, d1, d2

(* Worker processes are interchangeable; threads and variants are not. *)
Symmetric == Permutations(Pids)

(* One program, or one per thread. *)
OneProc == [t \in Threads |-> p1]
EachItsOwn == [t \in Threads |-> IF t = t1 THEN p1 ELSE p2]

(* In a budget of 4, c fits with a or b, which do not fit together; in a   *)
(* budget of 6 they do, but are heavy above 1. x never fits.               *)
PeakOf == [r \in Refs |-> CASE r = a -> 3 [] r = b -> 2 [] r = c -> 1 [] r = x -> 7]
JustPeak == [r \in Refs |-> {PeakOf[r]}]

AnyRef == [t \in Threads |-> Refs]
OneOrAny == [t \in Threads |-> IF t = t1 THEN {a} ELSE Refs]
Disjoint == [t \in Threads |-> IF t = t1 THEN {a} ELSE {b}]

(* A server: jobs on every variant, cancellations, unloads, a bench. *)
ServerDuties == [t \in Threads |->
  CASE t = t1 -> {"run", "pin", "overcommit"}
    [] t = t2 -> {"run", "unload", "force"}
    [] t = t3 -> {"bench", "unload all", "force all"}]

(* A server that may be closed and a terminal, on the same home. *)
TwoDuties == [t \in Threads |->
  IF t = t1 THEN {"run", "pin", "close"}
            ELSE {"run", "bench", "unload all", "force all", "prune"}]

(* The fewest commands in which calls wait for one another. *)
RunDuties == [t \in Threads |-> {"run"}]

(* Jobs, pins and a prune. *)
ReloadDuties == [t \in Threads |->
  IF t = t1 THEN {"run", "pin"}
            ELSE {"run", "prune"}]

=============================================================================
