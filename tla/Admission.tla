------------------------------ MODULE Admission ------------------------------
(***************************************************************************)
(* The admission decision of packages/runtime/.../admission.py, as a pure  *)
(* operator: given a candidate, its expected peak and the residents, what  *)
(* must be unloaded, and is it possible at all.                            *)
(*                                                                         *)
(* A park is a function from the resident variants to what the decision    *)
(* reads of them (class Resident): peak_bytes, last_used, pinned, busy.    *)
(* The two eviction loops of plan_admission are given here in closed form  *)
(* (the shortest prefix of the evictable residents in LRU order that makes *)
(* the condition true); AdmissionLoop is the loops themselves, one         *)
(* iteration per step, checked against this module.                        *)
(***************************************************************************)
EXTENDS Integers, FiniteSets, FiniteSetsExt

CONSTANTS
  Budget,          \* Policy.budget_bytes
  MaxHeavy,        \* Policy.max_heavy_resident
  HeavyThreshold,  \* Policy.heavy_threshold_bytes
  NoPeak           \* a variant without a measured profile has no peak (None)

ASSUME PolicyAssumption ==
  /\ Budget \in Nat
  /\ MaxHeavy \in Nat
  /\ HeavyThreshold \in Nat
  /\ NoPeak \notin Int

Resident == [peak : Nat, last : Nat, pinned : BOOLEAN, busy : BOOLEAN]

-----------------------------------------------------------------------------

(* sum(r.peak_bytes for r in ...) *)
Occupied(park, S) == MapThenSumSet(LAMBDA r : park[r].peak, S)

(* Resident.heavy: strictly above the threshold. *)
Heavies(park) == {r \in DOMAIN park : park[r].peak > HeavyThreshold}

(* Mutants: the pin, or the job, is forgotten. *)
OnlyBusy(park) == {r \in DOMAIN park : park[r].busy}
OnlyPinned(park) == {r \in DOMAIN park : park[r].pinned}

(* What no unforced decision may unload: a pinned resident, a running job. *)
Immobile(park) == {r \in DOMAIN park : park[r].pinned \/ park[r].busy}

(* The k least recently used members of S. *)
Oldest(park, S, k) ==
  {r \in S : Cardinality({q \in S : park[q].last < park[r].last}) < k}

(* The shortest LRU prefix of the evictable members of S whose departure   *)
(* makes Enough true. It exists only if evicting all of them is enough.    *)
Evictable(park, S) == S \ Immobile(park)
ShortestPrefix(park, S, Enough(_)) ==
  LET E == Evictable(park, S)
      n == CHOOSE k \in 0 .. Cardinality(E) :
             /\ Enough(Oldest(park, E, k))
             /\ \A j \in 0 .. k - 1 : ~Enough(Oldest(park, E, j))
  IN  Oldest(park, E, n)

-----------------------------------------------------------------------------
(* The outcomes of plan_admission: one operator per kind of return.        *)

Refused(why, blockers) ==
  [admitted |-> FALSE, why |-> why, evict |-> {}, headroom |-> 0,
   blockers |-> blockers, overcommit |-> FALSE]

Admitted(why, evict, headroom) ==
  [admitted |-> TRUE, why |-> why, evict |-> evict, headroom |-> headroom,
   blockers |-> {}, overcommit |-> (why = "over budget")]

(* Bench mode empties the park, pinned residents included, but stops in    *)
(* front of a running job.                                                 *)
PlanMeasure(peak, park) ==
  LET busy == {r \in DOMAIN park : park[r].busy}
  IN  IF busy # {}
      THEN Refused("measure", busy)
      ELSE Admitted("measure", DOMAIN park,
                    Budget - (IF peak = NoPeak THEN 0 ELSE peak))

(* A candidate that is already loaded is admitted without looking at the   *)
(* budget: its headroom may be negative.                                   *)
PlanResident(ref, peak, park) ==
  Admitted("already resident", {},
           Budget - Occupied(park, DOMAIN park \ {ref}) - peak)

(* Mutant: a model larger than the budget is admitted beside the others. *)
PlanBesideOthers(peak, park) == Admitted("over budget", {}, Budget - peak)

(* _hors_budget: the whole park leaves, or nothing does. *)
PlanOverBudget(peak, park) ==
  IF Immobile(park) # {}
  THEN Refused("over budget", Immobile(park))
  ELSE Admitted("over budget", DOMAIN park, Budget - peak)

(* Mutant: one heavy resident too many. *)
HeavyRuleOffByOne(peak, park, gone) ==
  \/ peak <= HeavyThreshold
  \/ Cardinality(Heavies(park) \ gone) <= MaxHeavy

(* First loop: a heavy candidate needs fewer than MaxHeavy heavy residents. *)
HeavyRuleHolds(peak, park, gone) ==
  \/ peak <= HeavyThreshold
  \/ Cardinality(Heavies(park) \ gone) < MaxHeavy

(* Mutant: the candidate is not counted. *)
FitsWithoutIt(peak, park, gone) == Occupied(park, DOMAIN park \ gone) <= Budget

(* Second loop: what is left and the candidate fit in the budget. *)
Fits(peak, park, gone) ==
  Occupied(park, DOMAIN park \ gone) + peak <= Budget

PlanFit(peak, park) ==
  LET heavyOK(gone) == HeavyRuleHolds(peak, park, gone)
      heavyGone == ShortestPrefix(park, Heavies(park), heavyOK)
      rest == DOMAIN park \ heavyGone
      budgetOK(gone) == Fits(peak, park, heavyGone \cup gone)
      evict == heavyGone \cup ShortestPrefix(park, rest, budgetOK)
  IN  IF peak > HeavyThreshold /\ MaxHeavy < 1
      THEN Refused("no heavy allowed", {})
      ELSE IF ~heavyOK(Evictable(park, Heavies(park)))
      THEN Refused("heavy rule", Heavies(park) \cap Immobile(park))
      ELSE IF ~budgetOK(Evictable(park, rest))
      THEN Refused("budget", Immobile(park))
      ELSE Admitted("fits", evict,
                    Budget - Occupied(park, DOMAIN park \ evict) - peak)

(* plan_admission, its early returns in the order of the code. *)
Plan(ref, peak, park, measure, overcommit) ==
  IF measure THEN PlanMeasure(peak, park)
  ELSE IF peak = NoPeak THEN Refused("no profile", {})
  ELSE IF ref \in DOMAIN park THEN PlanResident(ref, peak, park)
  ELSE IF peak > Budget
  THEN IF overcommit THEN PlanOverBudget(peak, park)
                     ELSE Refused("larger than the budget", {})
  ELSE PlanFit(peak, park)

=============================================================================
