---------------------------- MODULE AdmissionLoop ----------------------------
(***************************************************************************)
(* plan_admission as the code runs it: the early returns, then the two     *)
(* `while` loops of admission.py, one iteration per step.  A behaviour is  *)
(* one call, on any park and any candidate drawn from the constants.       *)
(*                                                                         *)
(* Admission!Plan is what the rest of the project uses; this module shows  *)
(* that the loops decide the same thing, and what they guarantee.          *)
(***************************************************************************)
EXTENDS Admission

CONSTANTS
  Refs,        \* the variants of the registry
  PeakValues,  \* the peaks a resident may have
  Demands,     \* the peaks a candidate may have, its input included
  LastUsed     \* last_used of each variant, distinct times: [Refs -> Nat]

ASSUME LoopAssumption ==
  /\ IsFiniteSet(Refs)
  /\ PeakValues \subseteq Nat
  /\ Demands \subseteq Nat
  /\ LastUsed \in [Refs -> Nat]

VARIABLES
  park,      \* the residents the call was given: [subset of Refs -> Resident]
  call,      \* its other arguments: [ref, peak, measure, overcommit]
  restants,  \* the residents not evicted so far
  evinces,   \* the residents evicted so far
  stage,     \* "start", "heavy" (first loop), "budget" (second loop), "done"
  verdict    \* the Admission returned

vars == <<park, call, restants, evinces, stage, verdict>>

Pending == Refused("pending", {})

Parks == UNION {[S -> [peak : PeakValues, pinned : BOOLEAN, busy : BOOLEAN]] :
                  S \in SUBSET Refs}

Calls == [ref : Refs, peak : Demands \cup {NoPeak},
          measure : BOOLEAN, overcommit : BOOLEAN]

Init ==
  /\ \E p \in Parks :
       park = [r \in DOMAIN p |-> [peak |-> p[r].peak, last |-> LastUsed[r],
                                   pinned |-> p[r].pinned, busy |-> p[r].busy]]
  /\ call \in Calls
  /\ restants = DOMAIN park
  /\ evinces = {}
  /\ stage = "start"
  /\ verdict = Pending

Return(v) ==
  /\ stage' = "done"
  /\ verdict' = v
  /\ UNCHANGED <<park, call, restants, evinces>>

(* None of the early returns applies. *)
ReachesLoops ==
  /\ ~call.measure
  /\ call.peak # NoPeak
  /\ call.ref \notin DOMAIN park
  /\ call.peak <= Budget
  /\ ~(call.peak > HeavyThreshold /\ MaxHeavy < 1)

EarlyReturn ==
  /\ stage = "start"
  /\ ~ReachesLoops
  /\ Return(Plan(call.ref, call.peak, park, call.measure, call.overcommit))

EnterLoops ==
  /\ stage = "start"
  /\ ReachesLoops
  /\ stage' = IF call.peak > HeavyThreshold THEN "heavy" ELSE "budget"
  /\ UNCHANGED <<park, call, restants, evinces, verdict>>

(* Mutant: the most recently used leaves first. *)
IsMruEvictable(r, S) ==
  /\ r \in Evictable(park, S)
  /\ \A q \in Evictable(park, S) : park[q].last <= park[r].last

(* _lru_evictable: the least recently used of S that may leave. *)
IsLruEvictable(r, S) ==
  /\ r \in Evictable(park, S)
  /\ \A q \in Evictable(park, S) : park[r].last <= park[q].last

(* Mutants: the list of victims is overwritten; the victim is not removed  *)
(* from those that remain.                                                 *)
EvictLast(r) ==
  /\ restants' = restants \ {r}
  /\ evinces' = {r}
  /\ UNCHANGED <<park, call, stage, verdict>>
EvictNone(r) == UNCHANGED vars

EvictOne(r) ==
  /\ restants' = restants \ {r}
  /\ evinces' = evinces \cup {r}
  /\ UNCHANGED <<park, call, stage, verdict>>

lourds == restants \cap Heavies(park)

(* while len(lourds()) >= max_heavy_resident *)
HeavyTurn ==
  /\ stage = "heavy"
  /\ Cardinality(lourds) >= MaxHeavy
  /\ \E r \in lourds : IsLruEvictable(r, lourds) /\ EvictOne(r)

RefuseHeavy ==
  /\ stage = "heavy"
  /\ Cardinality(lourds) >= MaxHeavy
  /\ Evictable(park, lourds) = {}
  /\ Return(Refused("heavy rule", lourds \cap Immobile(park)))

EndHeavy ==
  /\ stage = "heavy"
  /\ Cardinality(lourds) < MaxHeavy
  /\ stage' = "budget"
  /\ UNCHANGED <<park, call, restants, evinces, verdict>>

(* while occupe() + peak_bytes > budget_bytes, after two mutants: >= for > *)
(* and the candidate not counted.                                          *)
TooMuchAtEquality == Occupied(park, restants) + call.peak >= Budget
TooMuchWithoutIt == Occupied(park, restants) > Budget
TooMuch == ~(Occupied(park, restants) + call.peak <= Budget)

BudgetTurn ==
  /\ stage = "budget"
  /\ TooMuch
  /\ \E r \in restants : IsLruEvictable(r, restants) /\ EvictOne(r)

(* Mutant: a pinned or busy resident is enough to refuse. *)
RefuseBudgetEarly ==
  /\ stage = "budget"
  /\ TooMuch
  /\ restants \cap Immobile(park) # {}
  /\ Return(Refused("budget", restants \cap Immobile(park)))

RefuseBudget ==
  /\ stage = "budget"
  /\ TooMuch
  /\ Evictable(park, restants) = {}
  /\ Return(Refused("budget", restants \cap Immobile(park)))

Admit ==
  /\ stage = "budget"
  /\ ~TooMuch
  /\ Return(Admitted("fits", evinces,
                     Budget - Occupied(park, restants) - call.peak))

Finished == stage = "done" /\ UNCHANGED vars

Next ==
  \/ EarlyReturn
  \/ EnterLoops
  \/ HeavyTurn
  \/ RefuseHeavy
  \/ EndHeavy
  \/ BudgetTurn
  \/ RefuseBudget
  \/ Admit
  \/ Finished

Spec == Init /\ [][Next]_vars /\ WF_vars(Next)

-----------------------------------------------------------------------------

TypeOK ==
  /\ DOMAIN park \subseteq Refs
  /\ park \in [DOMAIN park -> Resident]
  /\ call \in Calls
  /\ restants \subseteq DOMAIN park
  /\ evinces = DOMAIN park \ restants
  /\ stage \in {"start", "heavy", "budget", "done"}
  /\ verdict.admitted \in BOOLEAN

(* The loops return exactly what the closed form Plan says, for the same   *)
(* arguments: decision, victims, headroom and blockers.                    *)
LoopsDecidePlan ==
  stage = "done" =>
    verdict = Plan(call.ref, call.peak, park, call.measure, call.overcommit)

(* No decision asks to unload a variant on which a job runs; only the bench *)
(* may ask for a pinned one (admission.py, Resident.busy and measure mode). *)
NoWorkDestroyed ==
  \A r \in verdict.evict \cup evinces :
    ~park[r].busy /\ (park[r].pinned => call.measure)

(* What an ordinary admission promises: once the victims are gone, the     *)
(* residents and the candidate fit in the budget, and a heavy candidate    *)
(* finds fewer than MaxHeavy heavy residents.                              *)
AdmittedFits ==
  (stage = "done" /\ verdict.admitted /\ verdict.why = "fits") =>
    /\ Fits(call.peak, park, verdict.evict)
    /\ HeavyRuleHolds(call.peak, park, verdict.evict)

(* "Un refus ne survient que quand il ne reste rien à évincer": when the   *)
(* loops refuse, no choice of evictable residents would have made room.    *)
RefusedOnlyWhenStuck ==
  (stage = "done" /\ verdict.why \in {"heavy rule", "budget"}) =>
    \A S \in SUBSET Evictable(park, DOMAIN park) :
      ~(Fits(call.peak, park, S) /\ HeavyRuleHolds(call.peak, park, S))

(* LRU: a resident that could have left stays while a more recently used   *)
(* one leaves only if the latter was heavy, evicted under the heavy rule,  *)
(* and the former was not.                                                 *)
LruRespected ==
  (stage = "done" /\ verdict.why = "fits") =>
    \A v \in verdict.evict, k \in Evictable(park, DOMAIN park) \ verdict.evict :
      park[k].last < park[v].last =>
        /\ call.peak > HeavyThreshold
        /\ v \in Heavies(park) /\ k \notin Heavies(park)

(* No gratuitous eviction: among the victims there is one that could not   *)
(* have stayed, the others gone: putting it back breaks the budget or the  *)
(* heavy rule.                                                             *)
NothingGratuitous ==
  (stage = "done" /\ verdict.why = "fits" /\ evinces # {}) =>
    \E v \in evinces :
      ~ (/\ Fits(call.peak, park, evinces \ {v})
         /\ HeavyRuleHolds(call.peak, park, evinces \ {v}))

(* Every call returns. *)
Returns == <>(stage = "done")

=============================================================================
