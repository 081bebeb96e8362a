---------------------------- MODULE DecisionProofs ----------------------------
(***************************************************************************)
(* What the program decides in one go, for every question it may be asked. *)
(* The safety of the two loops of plan_admission, for every policy, every  *)
(* park and every candidate; what they decide; and that what a refused     *)
(* agent is offered of it is then admitted.  Then, for every tree of files *)
(* that a registry is without error; for every registry, disk and family   *)
(* of tools, that an assistant may count on what it was told; for every    *)
(* command and circumstance, that its answer is what it did; for every     *)
(* disk, that what a recovery announces is what it gives back, and that it *)
(* keeps what is in service; for any weights, orders and draws, that a     *)
(* picture fits what is announced for it and can be made again.            *)
(***************************************************************************)
EXTENDS Pictures, Refusal, Catalog, Assistant, Commands, Recovery, PlanProofs, FiniteSetTheorems,
        SequenceTheorems

(* The loops. Inductive invariant: the residents are split between those   *)
(* that remain and those evicted, no evicted one was immobile, and the     *)
(* second loop is entered, and stays, with the heavy rule satisfied.       *)

WellTyped ==
  /\ DOMAIN park \subseteq Refs
  /\ park \in [DOMAIN park -> Resident]
  /\ call \in Calls
  /\ stage \in {"start", "heavy", "budget", "done"}

Split ==
  /\ restants \subseteq DOMAIN park
  /\ evinces = DOMAIN park \ restants
  /\ evinces \cap Immobile(park) = {}

Progress ==
  /\ stage # "start" => \/ ReachesLoops
                        \/ stage = "done"
  /\ stage = "start" => restants = DOMAIN park
  /\ stage = "budget" => HeavyRuleHolds(call.peak, park, evinces)

Decided ==
  /\ verdict.admitted \in BOOLEAN
  /\ \A q \in verdict.evict :
       q \in DOMAIN park /\ ~park[q].busy /\ (park[q].pinned => call.measure)

(* A sound verdict: no job destroyed, and what is admitted to fit fits. *)
FitVerdict(v) ==
  (v.admitted /\ v.why = "fits") =>
     /\ Fits(call.peak, park, v.evict)
     /\ HeavyRuleHolds(call.peak, park, v.evict)

IInv == WellTyped /\ Split /\ Progress /\ Decided /\ FitVerdict(verdict)

(* Evicting more never breaks the heavy rule. *)
LEMMA HeavyRuleMonotone ==
  ASSUME WellTyped, NEW S, NEW T, S \subseteq T,
         HeavyRuleHolds(call.peak, park, S)
  PROVE  HeavyRuleHolds(call.peak, park, T)
<1> DEFINE A == Heavies(park) \ S
           B == Heavies(park) \ T
<1>1. IsFiniteSet(A) /\ B \subseteq A
  <2>1. A \subseteq Refs
    BY DEF Heavies, WellTyped
  <2> QED BY <2>1, LoopAssumption, FS_Subset
<1>2. Cardinality(B) <= Cardinality(A) /\ Cardinality(A) \in Nat /\ Cardinality(B) \in Nat
  BY <1>1, FS_Subset, FS_CardinalityType
<1> HIDE DEF A, B
<1>3. MaxHeavy \in Nat
  BY PolicyAssumption
<1>4. Cardinality(A) < MaxHeavy => Cardinality(B) < MaxHeavy
  BY <1>2, <1>3
<1> QED BY <1>4 DEF HeavyRuleHolds, A, B

LEMMA InitIInv == Init => IInv
<1> SUFFICES ASSUME Init PROVE IInv
  OBVIOUS
<1>1. WellTyped
  <2>1. PICK p \in Parks :
          park = [r \in DOMAIN p |-> [peak |-> p[r].peak, last |-> LastUsed[r],
                                      pinned |-> p[r].pinned, busy |-> p[r].busy]]
    BY DEF Init
  <2>2. PICK S \in SUBSET Refs :
          p \in [S -> [peak : PeakValues, pinned : BOOLEAN, busy : BOOLEAN]]
    BY <2>1 DEF Parks
  <2>3. DOMAIN park = S /\ S \subseteq Refs
    BY <2>1, <2>2
  <2>4. \A r \in S : park[r] \in Resident
    BY <2>1, <2>2, LoopAssumption DEF Resident
  <2>5. park = [r \in S |-> park[r]]
    BY <2>1, <2>3
  <2> QED BY <2>3, <2>4, <2>5 DEF Init, WellTyped
<1>2. Split
  BY DEF Init, Split
<1>3. Progress
  BY DEF Init, Progress
<1>4. Decided
  BY DEF Init, Decided, Pending, Refused
<1>5. FitVerdict(verdict)
  BY DEF Init, FitVerdict, Pending, Refused
<1> QED BY <1>1, <1>2, <1>3, <1>4, <1>5 DEF IInv

(* A return leaves the split alone and its verdict is sound. *)
LEMMA ReturnIInv ==
  ASSUME IInv, NEW v, Return(v), v.admitted \in BOOLEAN,
         \A q \in v.evict :
           q \in DOMAIN park /\ ~park[q].busy /\ (park[q].pinned => call.measure),
         FitVerdict(v)
  PROVE  IInv'
<1>1. UNCHANGED <<park, call, restants, evinces>> /\ verdict' = v /\ stage' = "done"
  BY DEF Return
<1>2. FitVerdict(verdict)'
  BY <1>1 DEF FitVerdict
<1>3. (WellTyped /\ Split /\ Progress /\ Decided)'
  BY <1>1 DEF IInv, WellTyped, Split, Progress, Decided, Immobile
<1> QED BY <1>2, <1>3 DEF IInv

LEMMA EvictIInv ==
  ASSUME IInv, NEW r, EvictOne(r), r \in restants \ Immobile(park),
         stage \in {"heavy", "budget"}
  PROVE  IInv'
<1>1. evinces \subseteq evinces'
  BY DEF EvictOne
<1>2. UNCHANGED <<park, call, stage, verdict>>
  BY DEF EvictOne
<1>3. WellTyped' /\ Decided' /\ FitVerdict(verdict)'
  BY <1>2 DEF IInv, WellTyped, Decided, FitVerdict
<1>4. Split'
  BY <1>2 DEF IInv, Split, EvictOne, Immobile
<1>5. Progress'
  <2>1. stage = "budget" => HeavyRuleHolds(call.peak, park, evinces')
    BY <1>1, HeavyRuleMonotone DEF IInv, Progress
  <2>2. HeavyRuleHolds(call.peak, park, evinces')
          <=> HeavyRuleHolds(call.peak, park, evinces)'
    BY <1>2 DEF HeavyRuleHolds, Heavies
  <2> QED BY <1>2, <2>1, <2>2 DEF IInv, Progress, ReachesLoops
<1> QED BY <1>3, <1>4, <1>5 DEF IInv

LEMMA NextIInv == IInv /\ [Next]_vars => IInv'
<1> SUFFICES ASSUME IInv, [Next]_vars PROVE IInv'
  OBVIOUS
<1>a. /\ park \in [DOMAIN park -> Resident] /\ call \in Calls
      /\ restants \subseteq DOMAIN park
  BY DEF IInv, WellTyped, Split
<1>1. CASE EarlyReturn
  <2>1. \A q \in DOMAIN park : park[q].busy \in BOOLEAN /\ park[q].pinned \in BOOLEAN
    BY <1>a DEF Resident
  <2>2. call.measure \in BOOLEAN /\ call.overcommit \in BOOLEAN
    BY <1>a DEF Calls
  <2> DEFINE v == Plan(call.ref, call.peak, park, call.measure, call.overcommit)
  <2>3. /\ v.admitted \in BOOLEAN
        /\ v.evict \subseteq DOMAIN park
        /\ \A q \in v.evict : ~park[q].busy /\ (park[q].pinned => call.measure)
    BY <2>1, <2>2, PlanSparesJobs
  <2>4. Return(v)
    BY <1>1 DEF EarlyReturn
  <2>5. FitVerdict(v)
    <3>1. ~ReachesLoops
      BY <1>1 DEF EarlyReturn
    <3>2. call.peak > HeavyThreshold /\ MaxHeavy < 1
            => ~PlanFit(call.peak, park).admitted
      BY DEF PlanFit, Refused
    <3>3. \A m \in {"measure", "already resident", "over budget"} :
            \A e, h : FitVerdict(Admitted(m, e, h))
      BY DEF FitVerdict, Admitted
    <3>4. \A why, blockers : FitVerdict(Refused(why, blockers))
      BY DEF FitVerdict, Refused
    <3>5. \/ call.measure /\ v = PlanMeasure(call.peak, park)
          \/ v = PlanResident(call.ref, call.peak, park)
          \/ v = PlanOverBudget(call.peak, park)
          \/ \E why, blockers : v = Refused(why, blockers)
          \/ /\ v = PlanFit(call.peak, park)
             /\ ~call.measure /\ call.peak # NoPeak /\ call.ref \notin DOMAIN park
             /\ ~(call.peak > Budget)
      BY DEF Plan
    <3>6. ~(call.peak > Budget) /\ call.peak # NoPeak => call.peak <= Budget
      BY <1>a, PolicyAssumption, LoopAssumption DEF Calls
    <3>7. CASE v = PlanMeasure(call.peak, park)
      BY <3>7, <3>3, <3>4 DEF PlanMeasure
    <3>8. CASE v = PlanOverBudget(call.peak, park)
      BY <3>8, <3>3, <3>4 DEF PlanOverBudget
    <3>9. CASE v = PlanResident(call.ref, call.peak, park)
      BY <3>9, <3>3 DEF PlanResident
    <3> HIDE DEF v
    <3> QED BY <3>1, <3>2, <3>4, <3>5, <3>6, <3>7, <3>8, <3>9
             DEF ReachesLoops, FitVerdict
  <2> HIDE DEF v
  <2> QED BY <2>3, <2>4, <2>5, ReturnIInv
<1>2. CASE EnterLoops
  <2>1. /\ UNCHANGED <<park, call, restants, evinces, verdict>>
        /\ ReachesLoops /\ stage = "start"
        /\ stage' = IF call.peak > HeavyThreshold THEN "heavy" ELSE "budget"
    BY <1>2 DEF EnterLoops
  <2>2. WellTyped' /\ Split' /\ Decided' /\ FitVerdict(verdict)'
    BY <2>1 DEF IInv, WellTyped, Split, Decided, Immobile, FitVerdict
  <2>3. stage' = "budget" => call.peak <= HeavyThreshold
    <3>1. call.peak \in Nat /\ HeavyThreshold \in Nat
      BY <1>a, <2>1, PolicyAssumption, LoopAssumption DEF Calls, ReachesLoops
    <3> QED BY <2>1, <3>1
  <2>4. Progress'
    BY <2>1, <2>3 DEF IInv, Progress, ReachesLoops, HeavyRuleHolds
  <2> QED BY <2>2, <2>4 DEF IInv
<1>3. CASE HeavyTurn
  <2>1. PICK r \in lourds : IsLruEvictable(r, lourds) /\ EvictOne(r)
    BY <1>3 DEF HeavyTurn
  <2>2. r \in restants \ Immobile(park)
    BY <2>1 DEF IsLruEvictable, Evictable, lourds
  <2> QED BY <1>3, <2>1, <2>2, EvictIInv DEF HeavyTurn
<1>4. CASE RefuseHeavy
  BY <1>4, ReturnIInv DEF RefuseHeavy, Refused, FitVerdict
<1>5. CASE EndHeavy
  <2>1. /\ UNCHANGED <<park, call, restants, evinces, verdict>>
        /\ stage = "heavy" /\ stage' = "budget"
        /\ Cardinality(lourds) < MaxHeavy
    BY <1>5 DEF EndHeavy
  <2>2. WellTyped' /\ Split' /\ Decided' /\ FitVerdict(verdict)'
    BY <2>1 DEF IInv, WellTyped, Split, Decided, Immobile, FitVerdict
  <2>3. lourds = Heavies(park) \ evinces
    BY DEF IInv, Split, lourds, Heavies
  <2>4. HeavyRuleHolds(call.peak, park, evinces)
    BY <2>1, <2>3 DEF HeavyRuleHolds
  <2>5. HeavyRuleHolds(call.peak, park, evinces)'
    BY <2>1, <2>4 DEF HeavyRuleHolds, Heavies
  <2>6. Progress'
    BY <2>1, <2>5 DEF IInv, Progress, ReachesLoops
  <2> QED BY <2>2, <2>6 DEF IInv
<1>6. CASE BudgetTurn
  <2>1. PICK r \in restants : IsLruEvictable(r, restants) /\ EvictOne(r)
    BY <1>6 DEF BudgetTurn
  <2>2. r \in restants \ Immobile(park)
    BY <2>1 DEF IsLruEvictable, Evictable
  <2> QED BY <1>6, <2>1, <2>2, EvictIInv DEF BudgetTurn
<1>7. CASE RefuseBudget
  BY <1>7, ReturnIInv DEF RefuseBudget, Refused, FitVerdict
<1>8. CASE Admit
  <2> DEFINE v == Admitted("fits", evinces,
                           Budget - Occupied(park, restants) - call.peak)
  <2>1. Return(v)
    BY <1>8 DEF Admit
  <2>2. v.admitted = TRUE /\ v.evict = evinces
    BY DEF Admitted
  <2>3. \A q \in evinces : q \in DOMAIN park /\ ~park[q].busy /\ ~park[q].pinned
    BY DEF IInv, Split, Immobile
  <2>4. FitVerdict(v)
    <3>1. DOMAIN park \ evinces = restants
      BY DEF IInv, Split
    <3>2. Fits(call.peak, park, evinces)
      BY <1>8, <3>1 DEF Admit, TooMuch, Fits
    <3>3. HeavyRuleHolds(call.peak, park, evinces)
      BY <1>8 DEF Admit, IInv, Progress
    <3> HIDE DEF v
    <3> QED BY <2>2, <3>2, <3>3 DEF FitVerdict
  <2> HIDE DEF v
  <2> QED BY <2>1, <2>2, <2>3, <2>4, ReturnIInv
<1>9. CASE Finished \/ UNCHANGED vars
  BY <1>9 DEF Finished, vars, IInv, WellTyped, Split, Progress, Decided,
              Immobile, ReachesLoops, FitVerdict
<1> QED BY <1>1, <1>2, <1>3, <1>4, <1>5, <1>6, <1>7, <1>8, <1>9 DEF Next

(* Whatever the park, the policy and the candidate, plan_admission keeps   *)
(* its books: what remains and what leaves partition the residents.        *)
THEOREM LoopTyped == Spec => []TypeOK
<1>1. IInv => TypeOK
  BY DEF IInv, WellTyped, Split, Decided, TypeOK
<1> QED BY <1>1, InitIInv, NextIInv, PTL DEF Spec

(* No list of victims, final or under construction, holds a variant on     *)
(* which a job runs, nor, outside the bench, a pinned one.                 *)
THEOREM LoopSparesJobs == Spec => []NoWorkDestroyed
<1>1. IInv => NoWorkDestroyed
  BY DEF IInv, Split, Decided, NoWorkDestroyed, Immobile
<1> QED BY <1>1, InitIInv, NextIInv, PTL DEF Spec

(* What is admitted to fit does fit, for every policy: the memory of those *)
(* that stay plus the candidate within the budget, and the heavy rule.     *)
THEOREM LoopAdmitsWhatFits == Spec => []AdmittedFits
<1>1. IInv => AdmittedFits
  BY DEF IInv, FitVerdict, AdmittedFits
<1> QED BY <1>1, InitIInv, NextIInv, PTL DEF Spec

(***************************************************************************)
(* What the loops decide.                                                  *)
(***************************************************************************)

LEMMA ParkFinite ==
  ASSUME WellTyped
  PROVE  /\ IsFiniteSet(DOMAIN park)
         /\ \A q \in DOMAIN park : park[q].peak \in Nat /\ park[q].last \in Nat
         /\ \A S \in SUBSET DOMAIN park : IsFiniteSet(S) /\ Cardinality(S) \in Nat
<1>1. IsFiniteSet(DOMAIN park)
  BY LoopAssumption, FS_Subset DEF WellTyped
<1>2. \A S \in SUBSET DOMAIN park : IsFiniteSet(S) /\ Cardinality(S) \in Nat
  BY <1>1, FS_Subset, FS_CardinalityType
<1>3. \A q \in DOMAIN park : park[q] \in Resident
  BY DEF WellTyped
<1> QED BY <1>1, <1>2, <1>3 DEF Resident

(* In the loops the candidate's peak is a number, and Plan is PlanFit.     *)
LEMMA LoopsPlanFit ==
  ASSUME IInv, ReachesLoops
  PROVE  /\ call.peak \in Nat
         /\ ~ (call.peak > HeavyThreshold /\ MaxHeavy < 1)
         /\ Plan(call.ref, call.peak, park, call.measure, call.overcommit)
              = PlanFit(call.peak, park)
<1>1. call.peak \in Nat /\ Budget \in Nat
  BY PolicyAssumption, LoopAssumption DEF IInv, WellTyped, Calls, ReachesLoops
<1>2. ~ (call.peak > Budget)
  BY <1>1 DEF ReachesLoops
<1> QED BY <1>1, <1>2, Zenon DEF Plan, ReachesLoops

(* The residents and the victims, seen from the two loops. *)
LEMMA RestIs ==
  ASSUME IInv
  PROVE  /\ restants = DOMAIN park \ evinces /\ evinces \subseteq DOMAIN park
         /\ lourds = Heavies(park) \ evinces
         /\ Evictable(park, lourds) = Evictable(park, Heavies(park)) \ evinces
         /\ lourds \cap Immobile(park) = Heavies(park) \cap Immobile(park)
         /\ restants \cap Immobile(park) = Immobile(park)
         /\ TooMuch <=> ~ Fits(call.peak, park, evinces)
<1>1. /\ restants = DOMAIN park \ evinces /\ evinces \subseteq DOMAIN park
      /\ evinces \cap Immobile(park) = {}
  BY DEF IInv, Split
<1>2. lourds = Heavies(park) \ evinces /\ Immobile(park) \subseteq DOMAIN park
  BY <1>1 DEF lourds, Heavies, Immobile
<1>3. TooMuch <=> ~ Fits(call.peak, park, evinces)
  BY <1>1 DEF TooMuch, Fits
<1> QED BY <1>1, <1>2, <1>3 DEF Evictable

(* What the first loop tests is the heavy rule. *)
LEMMA HeavyTest ==
  ASSUME IInv, call.peak \in Nat, call.peak > HeavyThreshold
  PROVE  HeavyRuleHolds(call.peak, park, evinces) <=> ~ (Cardinality(lourds) >= MaxHeavy)
<1>1. lourds = Heavies(park) \ evinces /\ lourds \subseteq DOMAIN park
  BY RestIs DEF Heavies
<1>2. Cardinality(lourds) \in Nat
  BY <1>1, ParkFinite DEF IInv
<1>3. MaxHeavy \in Nat /\ HeavyThreshold \in Nat
  BY PolicyAssumption
<1>4. HeavyRuleHolds(call.peak, park, evinces) <=> Cardinality(lourds) < MaxHeavy
  BY <1>1, <1>3 DEF HeavyRuleHolds
<1> QED BY <1>2, <1>3, <1>4

(* A refusal of the loops leaves no way: whatever could leave has left.    *)
Stuck(peak, park1, why) ==
  why \in {"heavy rule", "budget"} =>
    \A S \in SUBSET Evictable(park1, DOMAIN park1) :
      ~ (Fits(peak, park1, S) /\ HeavyRuleHolds(peak, park1, S))

StuckInv ==
  /\ stage = "heavy" => call.peak > HeavyThreshold
  /\ stage = "done" => Stuck(call.peak, park, verdict.why)

LEMMA NextStuck == IInv /\ StuckInv /\ [Next]_vars => StuckInv'
<1> SUFFICES ASSUME IInv, StuckInv, [Next]_vars PROVE StuckInv'
  OBVIOUS
<1>a. park' = park /\ call' = call
  BY DEF Next, EarlyReturn, EnterLoops, HeavyTurn, RefuseHeavy, EndHeavy, BudgetTurn,
         RefuseBudget, Admit, Finished, vars, Return, EvictOne
<1>b. SUFFICES ASSUME stage' = "done", stage # "done"
               PROVE  Stuck(call.peak, park, verdict'.why)
  <2>1. (stage' = "heavy") => call.peak > HeavyThreshold
    BY DEF StuckInv, Next, EarlyReturn, EnterLoops, HeavyTurn, RefuseHeavy, EndHeavy,
           BudgetTurn, RefuseBudget, Admit, Finished, vars, Return, EvictOne
  <2>2. stage = "done" => verdict' = verdict
    BY DEF Next, EarlyReturn, EnterLoops, HeavyTurn, RefuseHeavy, EndHeavy,
           BudgetTurn, RefuseBudget, Admit, Finished, vars
  <2> QED BY <1>a, <2>1, <2>2 DEF StuckInv
<1>1. CASE EarlyReturn
  <2> DEFINE v == Plan(call.ref, call.peak, park, call.measure, call.overcommit)
  <2>1. verdict' = v /\ ~ ReachesLoops
    BY <1>1 DEF EarlyReturn, Return
  <2>2. \/ v = PlanMeasure(call.peak, park)
        \/ v = PlanResident(call.ref, call.peak, park)
        \/ v = PlanOverBudget(call.peak, park)
        \/ \E why \in {"no profile", "larger than the budget"} : v = Refused(why, {})
        \/ /\ v = PlanFit(call.peak, park)
           /\ ~call.measure /\ call.peak # NoPeak /\ call.ref \notin DOMAIN park
           /\ ~(call.peak > Budget)
    BY DEF Plan
  <2>3. ~(call.peak > Budget) /\ call.peak # NoPeak => call.peak <= Budget
    BY PolicyAssumption, LoopAssumption DEF IInv, WellTyped, Calls
  <2>4. call.peak > HeavyThreshold /\ MaxHeavy < 1
          => PlanFit(call.peak, park).why = "no heavy allowed"
    BY DEF PlanFit, Refused
  <2>5. /\ PlanMeasure(call.peak, park).why = "measure"
        /\ PlanResident(call.ref, call.peak, park).why = "already resident"
        /\ PlanOverBudget(call.peak, park).why = "over budget"
        /\ \A why : Refused(why, {}).why = why
    BY DEF PlanMeasure, PlanResident, PlanOverBudget, Refused, Admitted
  <2> HIDE DEF v
  <2>6. v.why \notin {"heavy rule", "budget"}
    BY <2>1, <2>2, <2>3, <2>4, <2>5 DEF ReachesLoops
  <2> QED BY <2>1, <2>6 DEF Stuck
<1>2. CASE RefuseHeavy
  <2>1. /\ call.peak > HeavyThreshold /\ Evictable(park, lourds) = {}
        /\ Cardinality(lourds) >= MaxHeavy
    BY <1>2 DEF RefuseHeavy, StuckInv
  <2>2. call.peak \in Nat
    BY <1>2, LoopsPlanFit DEF RefuseHeavy, IInv, Progress
  <2> SUFFICES ASSUME NEW S \in SUBSET Evictable(park, DOMAIN park)
               PROVE  ~ HeavyRuleHolds(call.peak, park, S)
    BY DEF Stuck
  <2>3. lourds \subseteq Heavies(park) \ S /\ Heavies(park) \subseteq DOMAIN park
    BY <2>1 DEF Evictable, lourds, Heavies, Immobile
  <2>4. Cardinality(lourds) <= Cardinality(Heavies(park) \ S)
    <3>1. IsFiniteSet(Heavies(park) \ S)
      BY <2>3, ParkFinite DEF IInv
    <3> QED BY <3>1, <2>3, FS_Subset
  <2>5. Cardinality(lourds) \in Nat /\ Cardinality(Heavies(park) \ S) \in Nat
    BY <2>3, ParkFinite DEF IInv
  <2> QED BY <2>1, <2>2, <2>4, <2>5, PolicyAssumption DEF HeavyRuleHolds
<1>3. CASE RefuseBudget
  <2>1. TooMuch /\ Evictable(park, restants) = {}
    BY <1>3 DEF RefuseBudget
  <2>2. call.peak \in Nat
    BY <1>3, LoopsPlanFit DEF RefuseBudget, IInv, Progress
  <2> SUFFICES ASSUME NEW S \in SUBSET Evictable(park, DOMAIN park)
               PROVE  ~ Fits(call.peak, park, S)
    BY DEF Stuck
  <2>3. S \subseteq evinces
    BY <2>1, RestIs DEF Evictable
  <2>4. ~ Fits(call.peak, park, evinces)
    BY <2>1, RestIs
  <2> QED BY <2>2, <2>3, <2>4, ParkFinite, FitsGrows DEF IInv
<1>4. CASE Admit
  BY <1>4 DEF Admit, Return, Admitted, Stuck
<1>5. CASE EnterLoops \/ HeavyTurn \/ EndHeavy \/ BudgetTurn \/ Finished \/ UNCHANGED vars
  BY <1>5, <1>b DEF EnterLoops, HeavyTurn, EndHeavy, BudgetTurn, Finished, vars, EvictOne
<1> QED BY <1>1, <1>2, <1>3, <1>4, <1>5 DEF Next

(* When the loops refuse, no choice of victims among those that may leave  *)
(* would have made room: the comment of _hors_budget and of the two loops, *)
(* for every policy, park and candidate.                                   *)
THEOREM LoopsRefuseOnlyWhenStuck == Spec => []RefusedOnlyWhenStuck
<1>1. Init => StuckInv
  BY DEF Init, StuckInv
<1>2. StuckInv => RefusedOnlyWhenStuck
  BY DEF StuckInv, Stuck, RefusedOnlyWhenStuck
<1> QED BY <1>1, <1>2, InitIInv, NextIInv, NextStuck, PTL DEF Spec


(***************************************************************************)
(* The loops compute the closed form.  Inductive invariant: what has left  *)
(* so far is a prefix, in LRU order, of what the loop may evict, and no    *)
(* shorter prefix was enough.                                              *)
(***************************************************************************)

(* No two residents were last used at the same instant: the order in which *)
(* the code sorts them is then the order of the model.                     *)
DistinctTimes == \A r, q \in Refs : LastUsed[r] = LastUsed[q] => r = q

Timestamps == \A r \in DOMAIN park : park[r].last = LastUsed[r]

Computed ==
  /\ Timestamps
  /\ stage = "heavy" => /\ call.peak > HeavyThreshold
                        /\ HeavySoFar(call.peak, park, evinces)
  /\ stage = "budget" =>
       /\ HeavyRuleHolds(call.peak, park, HeavyPool(park))
       /\ BudgetSoFar(call.peak, park, HeavyGone(call.peak, park), evinces)
  /\ stage = "done" =>
       verdict = Plan(call.ref, call.peak, park, call.measure, call.overcommit)

LEMMA Ordered ==
  ASSUME DistinctTimes, WellTyped, Timestamps, NEW E \in SUBSET DOMAIN park
  PROVE  Timed(park, E)
<1>1. E \subseteq Refs
  BY DEF WellTyped
<1>2. IsFiniteSet(E) /\ \A q \in E : park[q].last \in Nat
  BY ParkFinite
<1> QED BY <1>1, <1>2 DEF DistinctTimes, Timestamps, Timed

LEMMA Pools ==
  ASSUME DistinctTimes, WellTyped, Timestamps, NEW h
  PROVE  /\ Timed(park, HeavyPool(park)) /\ Timed(park, BudgetPool(park, h))
         /\ Cardinality(HeavyPool(park)) \in Nat
         /\ Cardinality(BudgetPool(park, h)) \in Nat
<1>1. HeavyPool(park) \in SUBSET DOMAIN park /\ BudgetPool(park, h) \in SUBSET DOMAIN park
  BY DEF HeavyPool, BudgetPool, Evictable, Heavies
<1> QED BY <1>1, Ordered, ParkFinite

(* The second loop starts from the victims of the first. *)
LEMMA BudgetStart ==
  ASSUME DistinctTimes, WellTyped, Timestamps, NEW peak, NEW h
  PROVE  BudgetSoFar(peak, park, h, h)
<1>1. Timed(park, BudgetPool(park, h)) /\ Cardinality(BudgetPool(park, h)) \in Nat
  BY Pools
<1>2. h = h \cup Oldest(park, BudgetPool(park, h), 0)
  BY <1>1, OldestNone
<1>3. 0 \in 0 .. Cardinality(BudgetPool(park, h)) /\ 0 .. 0 - 1 = {}
  BY <1>1
<1> QED BY <1>2, <1>3 DEF BudgetSoFar

(* Nothing has left when the first loop starts. *)
LEMMA HeavyStart ==
  ASSUME DistinctTimes, WellTyped, Timestamps, NEW peak
  PROVE  HeavySoFar(peak, park, {})
<1>1. Timed(park, HeavyPool(park)) /\ Cardinality(HeavyPool(park)) \in Nat
  BY Pools
<1>2. {} = Oldest(park, HeavyPool(park), 0)
  BY <1>1, OldestNone
<1>3. 0 \in 0 .. Cardinality(HeavyPool(park)) /\ 0 .. 0 - 1 = {}
  BY <1>1
<1> QED BY <1>2, <1>3 DEF HeavySoFar

(* What has left when the heavy rule first holds is what Plan says. *)
LEMMA HeavyEnd ==
  ASSUME DistinctTimes, WellTyped, Timestamps,
         HeavySoFar(call.peak, park, evinces), HeavyRuleHolds(call.peak, park, evinces)
  PROVE  /\ HeavyGone(call.peak, park) = evinces
         /\ HeavyRuleHolds(call.peak, park, HeavyPool(park))
<1>1. Cardinality(HeavyPool(park)) \in Nat
  BY Pools
<1>2. evinces \subseteq HeavyPool(park)
  BY DEF HeavySoFar, Oldest
<1> QED BY <1>1, <1>2, HeavyGoneIs, HeavyRuleMonotone

(* What has left when the rest first fits is what Plan says. *)
LEMMA BudgetEnd ==
  ASSUME DistinctTimes, WellTyped, Timestamps, NEW heavy, call.peak \in Nat,
         BudgetSoFar(call.peak, park, heavy, evinces), Fits(call.peak, park, evinces)
  PROVE  /\ evinces = heavy \cup MoreGone(call.peak, park, heavy)
         /\ Fits(call.peak, park, heavy \cup BudgetPool(park, heavy))
<1>1. Cardinality(BudgetPool(park, heavy)) \in Nat
  BY Pools
<1>2. evinces \subseteq heavy \cup BudgetPool(park, heavy)
  BY DEF BudgetSoFar, Oldest
<1>3. call.peak \in Int
  OBVIOUS
<1>4. Fits(call.peak, park, heavy \cup BudgetPool(park, heavy))
  BY <1>2, <1>3, ParkFinite, FitsGrows
<1> QED BY <1>1, <1>4, MoreGoneIs

(* One more turn of the first loop. *)
LEMMA HeavyOneMore ==
  ASSUME DistinctTimes, WellTyped, Timestamps,
         HeavySoFar(call.peak, park, evinces), ~ HeavyRuleHolds(call.peak, park, evinces),
         NEW r \in HeavyPool(park) \ evinces,
         \A q \in HeavyPool(park) \ evinces : park[r].last <= park[q].last
  PROVE  HeavySoFar(call.peak, park, evinces \cup {r})
<1> DEFINE E == HeavyPool(park)
<1>1. PICK k \in 0 .. Cardinality(E) :
        /\ evinces = Oldest(park, E, k)
        /\ \A j \in 0 .. k - 1 : ~ HeavyRuleHolds(call.peak, park, Oldest(park, E, j))
  BY DEF HeavySoFar
<1>2. Timed(park, E) /\ Cardinality(E) \in Nat
  BY Pools
<1>3. k \in Nat
  BY <1>1, <1>2
<1>4. Oldest(park, E, k + 1) = evinces \cup {r} /\ k + 1 <= Cardinality(E)
  BY <1>1, <1>2, <1>3, OldestNext
<1>5. k + 1 \in 0 .. Cardinality(E)
  BY <1>2, <1>3, <1>4
<1>6. \A j \in 0 .. (k + 1) - 1 : j = k \/ j \in 0 .. k - 1
  BY <1>3
<1>7. \A j \in 0 .. (k + 1) - 1 : ~ HeavyRuleHolds(call.peak, park, Oldest(park, E, j))
  BY <1>1, <1>6
<1> HIDE DEF E
<1>8. \E n \in 0 .. Cardinality(E) :
        /\ evinces \cup {r} = Oldest(park, E, n)
        /\ \A j \in 0 .. n - 1 : ~ HeavyRuleHolds(call.peak, park, Oldest(park, E, j))
  BY <1>4, <1>5, <1>7
<1> QED BY <1>8 DEF HeavySoFar, E

(* One more turn of the second. *)
LEMMA BudgetOneMore ==
  ASSUME DistinctTimes, WellTyped, Timestamps, NEW h,
         BudgetSoFar(call.peak, park, h, evinces), ~ Fits(call.peak, park, evinces),
         NEW r \in BudgetPool(park, h) \ evinces,
         \A q \in BudgetPool(park, h) \ evinces : park[r].last <= park[q].last
  PROVE  BudgetSoFar(call.peak, park, h, evinces \cup {r})
<1> DEFINE E == BudgetPool(park, h)
<1>1. PICK k \in 0 .. Cardinality(E) :
        /\ evinces = h \cup Oldest(park, E, k)
        /\ \A j \in 0 .. k - 1 : ~ Fits(call.peak, park, h \cup Oldest(park, E, j))
  BY DEF BudgetSoFar
<1>2. Timed(park, E) /\ Cardinality(E) \in Nat
  BY Pools
<1>3. k \in Nat
  BY <1>1, <1>2
<1>4. E \ evinces = E \ Oldest(park, E, k)
  BY <1>1 DEF BudgetPool, Evictable
<1>5. Oldest(park, E, k + 1) = Oldest(park, E, k) \cup {r} /\ k + 1 <= Cardinality(E)
  <2> HIDE DEF E
  <2>1. r \in E \ Oldest(park, E, k)
    BY <1>4 DEF E
  <2>2. \A q \in E \ Oldest(park, E, k) : park[r].last <= park[q].last
    BY <1>4 DEF E
  <2> QED BY <1>2, <1>3, <2>1, <2>2, OldestNext
<1>6. k + 1 \in 0 .. Cardinality(E)
  BY <1>2, <1>3, <1>5
<1>7. \A j \in 0 .. (k + 1) - 1 : j = k \/ j \in 0 .. k - 1
  BY <1>3
<1> HIDE DEF E
<1>8. \A j \in 0 .. (k + 1) - 1 : ~ Fits(call.peak, park, h \cup Oldest(park, E, j))
  BY <1>1, <1>7
<1>9. evinces \cup {r} = h \cup Oldest(park, E, k + 1)
  BY <1>1, <1>5
<1>10. \E n \in 0 .. Cardinality(E) :
        /\ evinces \cup {r} = h \cup Oldest(park, E, n)
        /\ \A j \in 0 .. n - 1 : ~ Fits(call.peak, park, h \cup Oldest(park, E, j))
  BY <1>6, <1>8, <1>9
<1> QED BY <1>10 DEF BudgetSoFar, E


(* A refusal of the first loop is Plan's. *)
LEMMA HeavyRefused ==
  ASSUME DistinctTimes, IInv, Computed, RefuseHeavy
  PROVE  verdict' = PlanFit(call.peak, park)
<1>1. /\ call.peak > HeavyThreshold /\ HeavySoFar(call.peak, park, evinces)
      /\ Cardinality(lourds) >= MaxHeavy /\ Evictable(park, lourds) = {}
      /\ verdict' = Refused("heavy rule", lourds \cap Immobile(park))
      /\ ReachesLoops
  BY DEF RefuseHeavy, Computed, Return, IInv, Progress
<1>2. call.peak \in Nat /\ ~ (call.peak > HeavyThreshold /\ MaxHeavy < 1)
  BY <1>1, LoopsPlanFit
<1>3. ~ HeavyRuleHolds(call.peak, park, evinces)
  BY <1>1, <1>2, HeavyTest
<1>4. evinces = Evictable(park, Heavies(park))
  <2>1. evinces \subseteq HeavyPool(park)
    BY <1>1 DEF HeavySoFar, Oldest
  <2>2. Evictable(park, Heavies(park)) \ evinces = {}
    BY <1>1, RestIs
  <2> QED BY <2>1, <2>2 DEF HeavyPool
<1>5. ~ HeavyRuleHolds(call.peak, park, Evictable(park, Heavies(park)))
  BY <1>3, <1>4
<1>6. PlanFit(call.peak, park) = Refused("heavy rule", Heavies(park) \cap Immobile(park))
  BY <1>2, <1>5, PlanFitIs
<1> QED BY <1>1, <1>6, RestIs

(* So is a refusal of the second. *)
LEMMA BudgetRefused ==
  ASSUME DistinctTimes, IInv, Computed, RefuseBudget
  PROVE  verdict' = PlanFit(call.peak, park)
<1> DEFINE h == HeavyGone(call.peak, park)
           R == Evictable(park, DOMAIN park \ h)
<1>1. /\ HeavyRuleHolds(call.peak, park, Evictable(park, Heavies(park)))
      /\ BudgetSoFar(call.peak, park, h, evinces)
      /\ TooMuch /\ Evictable(park, restants) = {}
      /\ verdict' = Refused("budget", restants \cap Immobile(park))
      /\ ReachesLoops
  BY DEF RefuseBudget, Computed, Return, IInv, Progress, HeavyPool
<1>2. call.peak \in Nat /\ ~ (call.peak > HeavyThreshold /\ MaxHeavy < 1)
  BY <1>1, LoopsPlanFit
<1>3. evinces \subseteq h \cup R /\ h \subseteq evinces
  BY <1>1 DEF BudgetSoFar, Oldest, BudgetPool
<1>4. R \subseteq evinces
  BY <1>1, <1>3, RestIs DEF Evictable
<1>5. h \cup R = evinces
  BY <1>3, <1>4
<1>6. ~ Fits(call.peak, park, h \cup R)
  BY <1>1, <1>5, RestIs
<1>7. PlanFit(call.peak, park) = Refused("budget", Immobile(park))
  BY <1>1, <1>2, <1>6, PlanFitIs
<1> QED BY <1>1, <1>7, RestIs

(* And so is what the second loop admits. *)
LEMMA LoopAdmits ==
  ASSUME DistinctTimes, IInv, Computed, Admit
  PROVE  verdict' = PlanFit(call.peak, park)
<1> DEFINE h == HeavyGone(call.peak, park)
           R == BudgetPool(park, h)
           m == MoreGone(call.peak, park, h)
<1>1. /\ HeavyRuleHolds(call.peak, park, Evictable(park, Heavies(park)))
      /\ BudgetSoFar(call.peak, park, h, evinces)
      /\ ~ TooMuch /\ ReachesLoops
      /\ verdict' = Admitted("fits", evinces,
                             Budget - Occupied(park, restants) - call.peak)
  BY DEF Admit, Computed, Return, IInv, Progress, HeavyPool
<1>2. call.peak \in Nat /\ ~ (call.peak > HeavyThreshold /\ MaxHeavy < 1)
  BY <1>1, LoopsPlanFit
<1>3. Fits(call.peak, park, evinces)
  BY <1>1, RestIs
<1>5. R = Evictable(park, DOMAIN park \ h)
  BY DEF BudgetPool
<1> HIDE DEF R, h, m
<1>8. evinces = h \cup m /\ Fits(call.peak, park, h \cup R)
  BY <1>1, <1>2, <1>3, BudgetEnd DEF IInv, Computed, R, m
<1>10. PlanFit(call.peak, park) =
         Admitted("fits", h \cup m,
                  Budget - Occupied(park, DOMAIN park \ (h \cup m)) - call.peak)
  BY <1>1, <1>2, <1>5, <1>8, PlanFitIs DEF h, m
<1>11. DOMAIN park \ (h \cup m) = restants
  BY <1>8, RestIs
<1> QED BY <1>1, <1>8, <1>10, <1>11

LEMMA NextComputed ==
  ASSUME DistinctTimes PROVE IInv /\ Computed /\ [Next]_vars => Computed'
<1> SUFFICES ASSUME IInv, Computed, [Next]_vars PROVE Computed'
  OBVIOUS
<1>a. park' = park /\ call' = call /\ WellTyped /\ Timestamps
  BY DEF Next, EarlyReturn, EnterLoops, HeavyTurn, RefuseHeavy, EndHeavy, BudgetTurn,
         RefuseBudget, Admit, Finished, vars, Return, EvictOne, IInv, Computed
<1>b. Timestamps'
  BY <1>a DEF Timestamps
<1> DEFINE h == HeavyGone(call.peak, park)
<1>c. /\ (stage' = "heavy") =>
           /\ call.peak > HeavyThreshold
           /\ HeavySoFar(call.peak, park, evinces')
      /\ (stage' = "budget") =>
           /\ HeavyRuleHolds(call.peak, park, HeavyPool(park))
           /\ BudgetSoFar(call.peak, park, h, evinces')
      /\ (stage' = "done") =>
           verdict' = Plan(call.ref, call.peak, park, call.measure, call.overcommit)
  <2> HIDE DEF h
  <2>1. CASE EarlyReturn
    BY <2>1 DEF EarlyReturn, Return
  <2>2. CASE EnterLoops
    <3>1. /\ ReachesLoops /\ evinces' = {} /\ evinces = {}
          /\ stage' = IF call.peak > HeavyThreshold THEN "heavy" ELSE "budget"
      BY <2>2 DEF EnterLoops, IInv, Progress, Split
    <3>2. CASE call.peak > HeavyThreshold
      BY <1>a, <3>1, <3>2, HeavyStart
    <3>3. CASE ~ (call.peak > HeavyThreshold)
      <4>1. \A gone : HeavyRuleHolds(call.peak, park, gone)
        <5>1. call.peak \in Nat
          BY <3>1, LoopsPlanFit
        <5> QED BY <3>3, <5>1, PolicyAssumption DEF HeavyRuleHolds
      <4>2. HeavySoFar(call.peak, park, evinces)
        BY <1>a, <3>1, HeavyStart
      <4>3. h = {}
        BY <1>a, <3>1, <4>1, <4>2, HeavyEnd DEF h
      <4>4. BudgetSoFar(call.peak, park, h, {})
        BY <1>a, <4>3, BudgetStart
      <4> QED BY <3>1, <3>3, <4>1, <4>4
    <3> QED BY <3>2, <3>3
  <2>3. CASE HeavyTurn
    <3>1. PICK r \in lourds : IsLruEvictable(r, lourds) /\ EvictOne(r)
      BY <2>3 DEF HeavyTurn
    <3>2. /\ call.peak > HeavyThreshold /\ HeavySoFar(call.peak, park, evinces)
          /\ Cardinality(lourds) >= MaxHeavy /\ stage' = "heavy" /\ ReachesLoops
          /\ evinces' = evinces \cup {r}
      BY <2>3, <3>1 DEF HeavyTurn, EvictOne, Computed, IInv, Progress
    <3>3. ~ HeavyRuleHolds(call.peak, park, evinces)
      BY <3>2, LoopsPlanFit, HeavyTest
    <3>4. Evictable(park, lourds) = HeavyPool(park) \ evinces
      BY RestIs DEF HeavyPool
    <3>5. /\ r \in HeavyPool(park) \ evinces
          /\ \A q \in HeavyPool(park) \ evinces : park[r].last <= park[q].last
      BY <3>1, <3>4 DEF IsLruEvictable
    <3>6. HeavySoFar(call.peak, park, evinces \cup {r})
      BY <1>a, <3>2, <3>3, <3>5, HeavyOneMore
    <3> QED BY <3>2, <3>6
  <2>4. CASE RefuseHeavy
    <3>1. stage' = "done" /\ ReachesLoops
      BY <2>4 DEF RefuseHeavy, Return, IInv, Progress
    <3> QED BY <2>4, <3>1, HeavyRefused, LoopsPlanFit
  <2>5. CASE EndHeavy
    <3>1. /\ call.peak > HeavyThreshold /\ HeavySoFar(call.peak, park, evinces)
          /\ Cardinality(lourds) < MaxHeavy /\ stage' = "budget" /\ ReachesLoops
          /\ evinces' = evinces
      BY <2>5 DEF EndHeavy, Computed, IInv, Progress
    <3>2. HeavyRuleHolds(call.peak, park, evinces)
      BY <3>1, RestIs DEF HeavyRuleHolds
    <3>3. h = evinces /\ HeavyRuleHolds(call.peak, park, HeavyPool(park))
      BY <1>a, <3>1, <3>2, HeavyEnd DEF h
    <3>4. BudgetSoFar(call.peak, park, h, h)
      BY <1>a, BudgetStart
    <3> QED BY <3>1, <3>3, <3>4
  <2>6. CASE BudgetTurn
    <3>1. PICK r \in restants : IsLruEvictable(r, restants) /\ EvictOne(r)
      BY <2>6 DEF BudgetTurn
    <3>2. /\ HeavyRuleHolds(call.peak, park, HeavyPool(park))
          /\ BudgetSoFar(call.peak, park, h, evinces)
          /\ TooMuch /\ stage' = "budget" /\ evinces' = evinces \cup {r}
      BY <2>6, <3>1 DEF BudgetTurn, EvictOne, Computed, h
    <3>3. ~ Fits(call.peak, park, evinces)
      BY <3>2, RestIs
    <3>4. Evictable(park, restants) = BudgetPool(park, h) \ evinces
      <4>1. h \subseteq evinces
        BY <3>2 DEF BudgetSoFar
      <4> QED BY <4>1, RestIs DEF BudgetPool, Evictable
    <3>5. /\ r \in BudgetPool(park, h) \ evinces
          /\ \A q \in BudgetPool(park, h) \ evinces : park[r].last <= park[q].last
      BY <3>1, <3>4 DEF IsLruEvictable
    <3>6. BudgetSoFar(call.peak, park, h, evinces \cup {r})
      BY <1>a, <3>2, <3>3, <3>5, BudgetOneMore
    <3> QED BY <3>2, <3>6
  <2>7. CASE RefuseBudget
    <3>1. stage' = "done" /\ ReachesLoops
      BY <2>7 DEF RefuseBudget, Return, IInv, Progress
    <3> QED BY <2>7, <3>1, BudgetRefused, LoopsPlanFit
  <2>8. CASE Admit
    <3>1. stage' = "done" /\ ReachesLoops
      BY <2>8 DEF Admit, Return, IInv, Progress
    <3> QED BY <2>8, <3>1, LoopAdmits, LoopsPlanFit
  <2>9. CASE Finished \/ UNCHANGED vars
    BY <2>9 DEF Finished, vars, Computed, h
  <2> QED BY <2>1, <2>2, <2>3, <2>4, <2>5, <2>6, <2>7, <2>8, <2>9 DEF Next
<1> QED BY <1>a, <1>b, <1>c, Zenon DEF Computed

LEMMA InitTimes == Init => Timestamps
<1> SUFFICES ASSUME Init PROVE Timestamps
  OBVIOUS
<1>1. PICK p \in Parks :
        park = [r \in DOMAIN p |-> [peak |-> p[r].peak, last |-> LastUsed[r],
                                    pinned |-> p[r].pinned, busy |-> p[r].busy]]
  BY DEF Init
<1> QED BY <1>1 DEF Timestamps

(* The loops return what the closed form says, whatever the policy, the    *)
(* park and the candidate: the same decision, victims, headroom and        *)
(* blockers.  What the other modules show of Plan holds of plan_admission. *)
THEOREM LoopsComputePlan ==
  ASSUME DistinctTimes PROVE Spec => []LoopsDecidePlan
<1>1. Init => Computed
  BY InitTimes DEF Init, Computed
<1>2. Computed => LoopsDecidePlan
  BY DEF Computed, LoopsDecidePlan
<1>3. IInv /\ Computed /\ [Next]_vars => Computed'
  BY NextComputed
<1> QED BY <1>1, <1>2, <1>3, InitIInv, NextIInv, PTL DEF Spec


(***************************************************************************)
(* What the MCP server offers to a refused agent.  The answer is composed  *)
(* later than the decision, from residents that may be less busy; what ties *)
(* them is that peaks and pins are the same and that jobs only ended.      *)
(***************************************************************************)

Owned(park1) == /\ IsFiniteSet(DOMAIN park1)
                /\ park1 \in [DOMAIN park1 -> Resident]

(* The same residents, with fewer jobs. *)
Calmer(park2, park1) ==
  /\ DOMAIN park2 = DOMAIN park1
  /\ \A r \in DOMAIN park1 : park2[r].peak = park1[r].peak
  /\ Immobile(park2) \subseteq Immobile(park1)

LEMMA AfterIs ==
  ASSUME NEW park1, NEW E, Owned(park1)
  PROVE  /\ Owned(After(park1, E)) /\ Calmer(After(park1, E), park1)
         /\ \A r \in DOMAIN park1 : /\ After(park1, E)[r].pinned = park1[r].pinned
                                    /\ After(park1, E)[r].busy = (park1[r].busy /\ r \notin E)
<1>1. /\ DOMAIN After(park1, E) = DOMAIN park1
      /\ \A r \in DOMAIN park1 :
           After(park1, E)[r] = [park1[r] EXCEPT !.busy = park1[r].busy /\ r \notin E]
  BY Zenon DEF After
<1>2. \A r \in DOMAIN park1 : park1[r] \in Resident
  BY DEF Owned
<1>3. \A r \in DOMAIN park1 :
        /\ After(park1, E)[r] \in Resident
        /\ After(park1, E)[r].peak = park1[r].peak
        /\ After(park1, E)[r].pinned = park1[r].pinned
        /\ After(park1, E)[r].busy = (park1[r].busy /\ r \notin E)
  <2> SUFFICES ASSUME NEW r \in DOMAIN park1
               PROVE  /\ After(park1, E)[r] \in Resident
                      /\ After(park1, E)[r].peak = park1[r].peak
                      /\ After(park1, E)[r].pinned = park1[r].pinned
                      /\ After(park1, E)[r].busy = (park1[r].busy /\ r \notin E)
    OBVIOUS
  <2>1. PICK x : x = park1[r]
    OBVIOUS
  <2>2. PICK b \in BOOLEAN : b = (park1[r].busy /\ r \notin E)
    <3>1. (park1[r].busy /\ r \notin E) \in BOOLEAN
      OBVIOUS
    <3> QED BY <3>1
  <2>3. After(park1, E)[r] = [x EXCEPT !.busy = b] /\ x \in Resident
    BY <1>1, <1>2, <2>1, <2>2
  <2> QED BY <2>1, <2>2, <2>3 DEF Resident
<1>4. After(park1, E) \in [DOMAIN park1 -> Resident]
  <2>1. After(park1, E) = [r \in DOMAIN park1 |-> After(park1, E)[r]]
    BY <1>1, Zenon DEF After
  <2> QED BY <1>3, <2>1
<1>5. Immobile(After(park1, E)) \subseteq Immobile(park1)
  BY <1>1, <1>3 DEF Immobile
<1> QED BY <1>1, <1>3, <1>4, <1>5 DEF Owned, Calmer

LEMMA RefusedIs ==
  ASSUME NEW why, NEW blockers
  PROVE  Refused(why, blockers).why = why /\ ~Refused(why, blockers).admitted
  BY DEF Refused

LEMMA AdmittedIs ==
  ASSUME NEW why, NEW victims, NEW headroom
  PROVE  Admitted(why, victims, headroom).admitted
  BY DEF Admitted

(* What a park must satisfy for a candidate to be admitted into it. *)
LEMMA RoomAdmits ==
  ASSUME NEW ref, NEW peak \in Nat, NEW park1, Owned(park1), ref \notin DOMAIN park1,
         peak <= Budget, ~ (peak > HeavyThreshold /\ MaxHeavy < 1),
         HeavyRuleHolds(peak, park1, Evictable(park1, Heavies(park1))),
         Occupied(park1, Immobile(park1)) + peak <= Budget
  PROVE  Plan(ref, peak, park1, FALSE, FALSE).admitted
<1> DEFINE S == DOMAIN park1 \ Immobile(park1)
           h == HeavyGone(peak, park1)
           T == h \cup Evictable(park1, DOMAIN park1 \ h)
<1>1. \A q \in DOMAIN park1 : park1[q].peak \in Nat
  BY DEF Owned, Resident
<1>2. Fits(peak, park1, S)
  <2>1. DOMAIN park1 \ S = Immobile(park1)
    BY DEF Immobile
  <2> QED BY <2>1 DEF Fits
<1>3. S \subseteq T
  BY DEF Evictable
<1>4. IsFiniteSet(DOMAIN park1) /\ peak \in Int
  BY DEF Owned
<1>5. Fits(peak, park1, T)
  <2> HIDE DEF S, T
  <2> QED BY <1>1, <1>2, <1>3, <1>4, FitsGrows
<1>6. PlanFit(peak, park1) =
        Admitted("fits", h \cup MoreGone(peak, park1, h),
                 Budget - Occupied(park1, DOMAIN park1 \ (h \cup MoreGone(peak, park1, h))) - peak)
  BY <1>5, PlanFitIs, Zenon
<1>7. PlanFit(peak, park1).admitted
  BY <1>6, AdmittedIs, Zenon
<1>8. peak # NoPeak /\ ~ (peak > Budget)
  BY PolicyAssumption
<1> QED BY <1>7, <1>8, Zenon DEF Plan

(* A candidate no heavier passes the heavy rule of a calmer park. *)
LEMMA HeavyStill ==
  ASSUME NEW park1, NEW park2, Owned(park1), Calmer(park2, park1), NEW S,
         S \cap Immobile(park1) = {}, NEW big \in Nat, NEW small \in Nat, small <= big,
         HeavyRuleHolds(big, park1, S)
  PROVE  HeavyRuleHolds(small, park2, Evictable(park2, Heavies(park2)))
<1>0. HeavyThreshold \in Nat /\ MaxHeavy \in Nat
  BY PolicyAssumption
<1>1. CASE small <= HeavyThreshold
  BY <1>1 DEF HeavyRuleHolds
<1>2. CASE big > HeavyThreshold
  <2> DEFINE A == Heavies(park1) \ S
             B == Heavies(park2) \ Evictable(park2, Heavies(park2))
  <2>1. Cardinality(A) < MaxHeavy
    BY <1>0, <1>2 DEF HeavyRuleHolds
  <2>2. B \subseteq A /\ A \subseteq DOMAIN park1
    BY DEF Calmer, Heavies, Evictable, Immobile
  <2>3. IsFiniteSet(A)
    BY <2>2, FS_Subset DEF Owned
  <2>4. Cardinality(B) <= Cardinality(A) /\ Cardinality(A) \in Nat /\ Cardinality(B) \in Nat
    <3> HIDE DEF A, B
    <3> QED BY <2>2, <2>3, FS_Subset, FS_CardinalityType
  <2>5. Cardinality(B) < MaxHeavy
    <3> HIDE DEF A, B
    <3> QED BY <1>0, <2>1, <2>4
  <2> QED BY <2>5 DEF HeavyRuleHolds
<1> QED BY <1>0, <1>1, <1>2

(* A refusal for lack of memory: the early returns did not apply, and what *)
(* had left when the loops gave up satisfies the heavy rule.               *)
ForMemory == ReachesLoops /\ HeavyRuleHolds(call.peak, park, evinces)

(* Why an ordinary call is refused. *)
Reasons ==
  stage = "done" /\ ~verdict.admitted =>
    /\ verdict.why = "budget" => ForMemory
    /\ ~call.measure /\ ~call.overcommit =>
         \/ call.peak = NoPeak \/ call.peak > Budget \/ MaxHeavy < 1
         \/ verdict.why \in {"heavy rule", "budget"}

LEMMA NextReasons == IInv /\ Reasons /\ [Next]_vars => Reasons'
<1> SUFFICES ASSUME IInv, Reasons, [Next]_vars PROVE Reasons'
  OBVIOUS
<1>a. park' = park /\ call' = call
  BY DEF Next, EarlyReturn, EnterLoops, HeavyTurn, RefuseHeavy, EndHeavy, BudgetTurn,
         RefuseBudget, Admit, Finished, vars, Return, EvictOne
<1>1. CASE EarlyReturn
  <2>1. verdict' = Plan(call.ref, call.peak, park, call.measure, call.overcommit) /\ ~ReachesLoops
    BY <1>1 DEF EarlyReturn, Return
  <2> DEFINE v == Plan(call.ref, call.peak, park, call.measure, call.overcommit)
  <2>2. /\ ~v.admitted => v.why # "budget"
        /\ ~v.admitted /\ ~call.measure /\ ~call.overcommit =>
             call.peak = NoPeak \/ call.peak > Budget \/ MaxHeavy < 1
    <3>1. CASE call.measure
      BY <3>1 DEF Plan, PlanMeasure, Refused, Admitted
    <3>2. CASE ~call.measure /\ call.peak = NoPeak
      BY <3>2 DEF Plan, Refused
    <3>3. CASE ~call.measure /\ call.peak # NoPeak /\ call.ref \in DOMAIN park
      BY <3>3 DEF Plan, PlanResident, Admitted
    <3>4. CASE ~call.measure /\ call.peak # NoPeak /\ call.ref \notin DOMAIN park /\ call.peak > Budget
      BY <3>4 DEF Plan, PlanOverBudget, Refused, Admitted
    <3>5. CASE ~call.measure /\ call.peak # NoPeak /\ call.ref \notin DOMAIN park /\ ~ (call.peak > Budget)
      <4>1. call.peak \in Nat /\ Budget \in Nat
        BY <3>5, PolicyAssumption, LoopAssumption DEF IInv, WellTyped, Calls
      <4>2. call.peak > HeavyThreshold /\ MaxHeavy < 1
        BY <2>1, <3>5, <4>1 DEF ReachesLoops
      <4>3. v = Refused("no heavy allowed", {})
        BY <3>5, <4>2, Zenon DEF Plan, PlanFit
      <4>4. v.why = "no heavy allowed"
        BY <4>3, RefusedIs, Zenon
      <4> HIDE DEF v
      <4> QED BY <4>2, <4>4
    <3> QED BY <3>1, <3>2, <3>3, <3>4, <3>5
  <2>3. verdict' = v
    BY <2>1
  <2> HIDE DEF v
  <2> QED BY <1>a, <2>2, <2>3 DEF Reasons
<1>2. CASE RefuseHeavy
  <2>1. verdict'.why = "heavy rule"
    BY <1>2 DEF RefuseHeavy, Return, Refused
  <2> QED BY <2>1 DEF Reasons
<1>3. CASE RefuseBudget
  <2>1. verdict'.why = "budget" /\ evinces' = evinces /\ stage = "budget"
    BY <1>3 DEF RefuseBudget, Return, Refused
  <2>2. ForMemory
    BY <2>1 DEF ForMemory, IInv, Progress
  <2>3. ForMemory'
    BY <1>a, <2>1, <2>2 DEF ForMemory, ReachesLoops, HeavyRuleHolds
  <2> QED BY <2>1, <2>3 DEF Reasons
<1>4. CASE Admit
  <2>1. verdict'.admitted
    BY <1>4 DEF Admit, Return, Admitted
  <2> QED BY <2>1 DEF Reasons
<1>5. CASE EnterLoops \/ HeavyTurn \/ EndHeavy \/ BudgetTurn
  <2>1. stage' # "done"
    BY <1>5 DEF EnterLoops, HeavyTurn, EndHeavy, BudgetTurn, EvictOne
  <2> QED BY <2>1 DEF Reasons
<1>6. CASE Finished \/ UNCHANGED vars
  <2>1. UNCHANGED <<stage, verdict, evinces>>
    BY <1>6 DEF Finished, vars
  <2> QED BY <1>a, <2>1 DEF Reasons, ForMemory, ReachesLoops, HeavyRuleHolds
<1> QED BY <1>1, <1>2, <1>3, <1>4, <1>5, <1>6 DEF Next

(* The room there is for a candidate no larger than the one refused, in a  *)
(* park whose jobs have only ended since.                                  *)
LEMMA AdmittedInstead ==
  ASSUME IInv, ForMemory, NEW park2, Owned(park2), Calmer(park2, park),
         NEW peak \in Nat, peak <= call.peak,
         Occupied(park2, Immobile(park2)) + peak <= Budget
  PROVE  Plan(call.ref, peak, park2, FALSE, FALSE).admitted
<1>1. /\ call.peak \in Nat /\ ~ (call.peak > HeavyThreshold /\ MaxHeavy < 1)
      /\ call.ref \notin DOMAIN park2 /\ call.peak <= Budget
  BY LoopsPlanFit DEF ForMemory, ReachesLoops, Calmer
<1>2. Budget \in Nat /\ HeavyThreshold \in Nat
  BY PolicyAssumption
<1>3. peak <= Budget /\ ~ (peak > HeavyThreshold /\ MaxHeavy < 1)
  BY <1>1, <1>2
<1>4. Owned(park)
  BY ParkFinite DEF IInv, WellTyped, Owned
<1>5. evinces \cap Immobile(park) = {}
  BY DEF IInv, Split
<1>6. HeavyRuleHolds(peak, park2, Evictable(park2, Heavies(park2)))
  BY <1>1, <1>4, <1>5, HeavyStill DEF ForMemory
<1> QED BY <1>1, <1>3, <1>6, RoomAdmits

(* What _options makes of its parts. *)
LEMMA OptionsAre ==
  ASSUME NEW residents, NEW ref, NEW values, NEW peak, NEW v, NEW variants
  PROVE  LET a == Options(residents, ref, values, peak, v, variants)
         IN  /\ a.retry # {} => peak # NoPeak /\ a.retry = Wait(residents, peak)
             /\ a.reduce # Absent =>
                  peak # NoPeak /\ a.reduce = Reduce(residents, ref, values, peak, v.why)
             /\ a.variants = <<>> \/ a.variants = variants
<1>1. CASE peak = NoPeak
  BY <1>1 DEF Options, NoAnswer
<1>2. CASE peak # NoPeak
  <2> DEFINE relay == Relay(residents, v.blockers)
             wait == Wait(residents, peak)
             less == Reduce(residents, ref, values, peak, v.why)
             found == [retry |-> wait, variants |-> variants, reduce |-> less,
                       relay |-> relay, human |-> "none"]
  <2>1. Options(residents, ref, values, peak, v, variants) =
          IF found = NoAnswer THEN [NoAnswer EXCEPT !.human = "over budget"] ELSE found
    BY <1>2, Zenon DEF Options
  <2> HIDE DEF relay, wait, less
  <2>2. PICK a : a = Options(residents, ref, values, peak, v, variants)
    OBVIOUS
  <2>3. /\ a.retry # {} => a.retry = wait
        /\ a.reduce # Absent => a.reduce = less
        /\ a.variants = <<>> \/ a.variants = variants
    <3> DEFINE human == [NoAnswer EXCEPT !.human = "over budget"]
    <3>1. human.retry = {} /\ human.reduce = Absent /\ human.variants = <<>>
      BY DEF NoAnswer
    <3>2. found.retry = wait /\ found.reduce = less /\ found.variants = variants
      OBVIOUS
    <3>3. a = human \/ a = found
      BY <2>1, <2>2
    <3> HIDE DEF human, found
    <3> QED BY <3>1, <3>2, <3>3
  <2> QED BY <1>2, <2>2, <2>3 DEF wait, less
<1> QED BY <1>1, <1>2

(* A list of alternatives: each line is what simulate says of its variant, *)
(* and what fits comes first.                                              *)
LEMMA OthersAre ==
  ASSUME NEW residents, NEW ref, NEW values, NEW s \in Others(residents, ref, values),
         NEW i \in DOMAIN s
  PROVE  /\ s[i].fits =>
              Plan(s[i].ref, ExpectedPeak(s[i].ref, values), residents, FALSE, FALSE).admitted
         /\ i > 1 => (s[i].fits => s[i - 1].fits)
<1> DEFINE others == {q \in Runnable \ {ref} : Capability[q] = Capability[ref]}
           offers == {Other(residents, r, values) : r \in others}
<1>1. s \in SetToSeqs(offers) /\ (i > 1 => (s[i].fits => s[i - 1].fits))
  BY Zenon DEF Others
<1>2. s[i] \in offers
  <2> HIDE DEF offers
  <2> QED BY <1>1 DEF SetToSeqs
<1>3. PICK r : s[i] = Other(residents, r, values)
  BY <1>2
<1>4. /\ Other(residents, r, values).ref = r
      /\ Other(residents, r, values).fits =
           Plan(r, ExpectedPeak(r, values), residents, FALSE, FALSE).admitted
  BY Zenon DEF Other
<1> QED BY <1>1, <1>3, <1>4, Zenon

LEMMA MaxOfTwo ==
  ASSUME NEW a \in Int, NEW b \in Int
  PROVE  Max({a, b}) \in Int /\ a <= Max({a, b}) /\ b <= Max({a, b})
<1>1. \E x \in {a, b} : \A y \in {a, b} : x >= y
  OBVIOUS
<1> QED BY <1>1 DEF Max

LEMMA MinOfTwo ==
  ASSUME NEW a \in Int, NEW b \in Int
  PROVE  Min({a, b}) = IF a <= b THEN a ELSE b
<1>1. \E x \in {a, b} : \A y \in {a, b} : y >= x
  OBVIOUS
<1> QED BY <1>1 DEF Min

(* The memory of the immobile: a natural number. *)
LEMMA HeldIs ==
  ASSUME NEW park1, Owned(park1), NEW S \in SUBSET DOMAIN park1,
         NEW w, w = [r \in DOMAIN park1 |-> park1[r].peak]
  PROVE  /\ IsFiniteSet(S) /\ Occupied(park1, S) = SumBy(w, S) /\ SumBy(w, S) \in Nat
         /\ \A r \in S : w[r] \in Nat
<1>1. IsFiniteSet(S) /\ \A r \in S : w[r] = park1[r].peak /\ w[r] \in Nat
  BY FS_Subset DEF Owned, Resident
<1> QED BY <1>1, OccupiedIs, SumNat

(* Once the jobs that `_attendre` names are over, what is left fits. *)
LEMMA WaitIsEnough ==
  ASSUME NEW park1, Owned(park1), NEW peak \in Nat, Wait(park1, peak) # {}
  PROVE  LET park2 == After(park1, Wait(park1, peak))
         IN  Occupied(park2, Immobile(park2)) + peak <= Budget
<1> DEFINE free == {r \in DOMAIN park1 : park1[r].busy /\ ~park1[r].pinned}
           pins == {r \in DOMAIN park1 : park1[r].pinned}
           park2 == After(park1, free)
           w == [r \in DOMAIN park1 |-> park1[r].peak]
<1>1. Wait(park1, peak) = free /\ ~ (Missing(park1, peak) > Occupied(park1, free))
  BY DEF Wait
<1>2. /\ Owned(park2) /\ DOMAIN park2 = DOMAIN park1
      /\ \A r \in DOMAIN park1 : /\ park2[r].peak = park1[r].peak
                                 /\ park2[r].pinned = park1[r].pinned
                                 /\ park2[r].busy = (park1[r].busy /\ r \notin free)
  <2> HIDE DEF free
  <2> QED BY AfterIs DEF Calmer
<1>3. Immobile(park1) = pins \cup free /\ pins \cap free = {}
  BY DEF Immobile
<1>4. Immobile(park2) = pins
  BY <1>2 DEF Immobile
<1>5. w = [r \in DOMAIN park2 |-> park2[r].peak]
  BY <1>2
<1>6. pins \in SUBSET DOMAIN park1 /\ free \in SUBSET DOMAIN park1
  OBVIOUS
<1>7. \A r \in pins \cup free : w[r] \in Nat
  <2> HIDE DEF pins, free
  <2>1. \A r \in DOMAIN park1 : w[r] \in Nat
    BY DEF Owned, Resident
  <2> QED BY <1>6, <2>1
<1> HIDE DEF pins, free, w, park2
<1>8. /\ IsFiniteSet(pins) /\ IsFiniteSet(free)
      /\ SumBy(w, pins) \in Nat /\ SumBy(w, free) \in Nat
      /\ Occupied(park2, pins) = SumBy(w, pins)
      /\ Occupied(park1, free) = SumBy(w, free)
      /\ Occupied(park1, pins \cup free) = SumBy(w, pins \cup free)
  <2>1. w = [r \in DOMAIN park1 |-> park1[r].peak]
    BY DEF w
  <2>2. pins \cup free \in SUBSET DOMAIN park1 /\ pins \in SUBSET DOMAIN park2
    BY <1>2, <1>6
  <2> QED BY <1>2, <1>5, <1>6, <2>1, <2>2, HeldIs
<1>9. SumBy(w, pins \cup free) = SumBy(w, pins) + SumBy(w, free)
  BY <1>3, <1>7, <1>8, SumSplits
<1>10. Held(park1) = SumBy(w, pins) + SumBy(w, free)
  BY <1>3, <1>8, <1>9 DEF Held
<1> DEFINE lack == Held(park1) + (peak - Budget)
<1>11. lack \in Int /\ Budget \in Nat /\ Missing(park1, peak) = Max({0, lack})
  BY <1>8, <1>10, PolicyAssumption DEF Missing
<1>12. Missing(park1, peak) \in Int /\ lack <= Missing(park1, peak)
  <2> HIDE DEF lack
  <2> QED BY <1>11, MaxOfTwo
<1>13. SumBy(w, pins) + peak <= Budget
  BY <1>1, <1>8, <1>10, <1>11, <1>12
<1>14. Occupied(park2, Immobile(park2)) + peak <= Budget
  BY <1>4, <1>8, <1>13
<1>15. park2 = After(park1, Wait(park1, peak))
  BY <1>1 DEF park2
<1> QED BY <1>14, <1>15

-----------------------------------------------------------------------------
(* `_reduire`, for an integer parameter: whole values, in hundredths.      *)

(* The range of an integer parameter was measured at integers. *)
WholeRanges == \A ref \in Refs : Profiles[ref].integer => Profiles[ref].lo % 100 = 0

LEMMA Quotient ==
  ASSUME NEW a \in Nat, NEW b \in Nat, b > 0
  PROVE  a \div b \in Nat /\ (a \div b) * b <= a /\ a < (a \div b + 1) * b
  OBVIOUS

LEMMA Hundredths ==
  ASSUME NEW a \in Nat, NEW b \in Nat, a <= b
  PROVE  a \div 100 <= b \div 100 /\ (100 * a) \div 100 = a /\ a \div 100 \in Nat
  OBVIOUS

(* The value proposed costs no more than the room left, and is lower.      *)
LEMMA WholeValue ==
  ASSUME NEW margin \in Nat, NEW unit \in Nat, NEW lo \in Nat, NEW hi \in Nat, NEW values \in Nat,
         NEW least \in Nat, lo = 100 * least, lo <= hi, margin > 0, unit > 0,
         ~ (10 * (100 * margin) < (11 * lo) * unit),
         NEW k \in Nat,
         \/ /\ 100 * margin > hi * unit /\ hi * unit < values * unit
            /\ k = hi \div 100
         \/ /\ 100 * margin <= hi * unit /\ 100 * margin < values * unit
            /\ k = (100 * margin) \div (100 * unit)
  PROVE  lo <= 100 * k /\ 100 * k <= hi /\ 100 * k < values /\ unit * k <= margin
<1>1. CASE 100 * margin > hi * unit /\ hi * unit < values * unit /\ k = hi \div 100
  <2>1. k * 100 <= hi /\ hi < (k + 1) * 100
    BY <1>1, Quotient
  <2>2. hi < values
    BY <1>1
  <2>3. least <= k
    BY <2>1
  <2>4. (100 * k) * unit <= hi * unit
    BY <2>1
  <2>5. 100 * (unit * k) < 100 * margin
    BY <1>1, <2>4
  <2> QED BY <2>1, <2>2, <2>3, <2>5
<1>2. CASE /\ 100 * margin <= hi * unit /\ 100 * margin < values * unit
           /\ k = (100 * margin) \div (100 * unit)
  <2>1. k * (100 * unit) <= 100 * margin /\ 100 * margin < (k + 1) * (100 * unit)
    BY <1>2, Quotient
  <2>2. unit * k <= margin
    BY <2>1
  <2>3. (100 * k) * unit <= hi * unit /\ (100 * k) * unit < values * unit
    BY <1>2, <2>1
  <2>4. 100 * k <= hi /\ 100 * k < values
    BY <2>3
  <2>5. lo * unit <= 100 * margin
    BY SMT
  <2>6. (100 * least) * unit < (k + 1) * (100 * unit)
    BY <2>1, <2>5
  <2>7. least < k + 1
    BY <2>6
  <2> QED BY <2>2, <2>4, <2>7
<1> QED BY <1>1, <1>2

LEMMA ReductionFits ==
  ASSUME WholeRanges, NEW ref \in Refs, Profiles[ref].integer,
         NEW park1, Owned(park1), NEW values \in Nat, NEW peak \in Nat, NEW why,
         peak = ExpectedPeak(ref, values),
         NEW value, value = Reduce(park1, ref, values, peak, why), value # Absent
  PROVE  /\ peak <= Budget /\ why # "heavy rule" /\ value < values
         /\ ExpectedPeak(ref, value) \in Nat /\ ExpectedPeak(ref, value) <= peak
         /\ Held(park1) + ExpectedPeak(ref, value) <= Budget
<1> DEFINE p == Profiles[ref]
           margin == Budget - Held(park1) - p.base
           num == 100 * margin
           den == p.unit
           clipped == num > p.hi * den
<1>1. /\ p.measured \in Nat /\ p.base \in Nat /\ p.unit \in Nat /\ p.lo \in Nat /\ p.hi \in Nat
      /\ p.lo <= p.hi /\ p.lo % 100 = 0
  BY RefusalAssumption DEF WholeRanges, Profile
<1>2. Budget \in Nat /\ Held(park1) \in Nat
  <2>1. PICK w : w = [r \in DOMAIN park1 |-> park1[r].peak]
    OBVIOUS
  <2>2. Immobile(park1) \in SUBSET DOMAIN park1
    BY DEF Immobile
  <2> QED BY <2>1, <2>2, HeldIs, PolicyAssumption DEF Held
<1>3. /\ peak <= Budget /\ why # "heavy rule" /\ p.unit # 0 /\ ~ (margin <= 0)
      /\ ~ (10 * num < 11 * p.lo * den)
      /\ ~ (Min({num, p.hi * den}) >= values * den)
      /\ value = IF clipped THEN ToType(p, p.hi, 1) ELSE ToType(p, num, den)
  <2>1. ~ (peak > Budget) /\ why # "heavy rule" /\ p.unit # 0 /\ ~ (margin <= 0)
    BY Zenon DEF Reduce
  <2>2. /\ ~ (10 * num < 11 * p.lo * den) /\ ~ (Min({num, p.hi * den}) >= values * den)
        /\ value = IF clipped THEN ToType(p, p.hi, 1) ELSE ToType(p, num, den)
    BY Zenon DEF Reduce
  <2>3. peak <= Budget
    <3>1. ~ (peak > Budget)
      BY <2>1, Zenon
    <3> QED BY <1>2, <3>1
  <2> QED BY <2>1, <2>2, <2>3, Zenon
<1>a. p.unit # 0 /\ ~ (margin <= 0)
  BY <1>3, Zenon
<1>b. ~ (Min({num, p.hi * den}) >= values * den)
  BY <1>3, Zenon
<1>c. value = IF clipped THEN ToType(p, p.hi, 1) ELSE ToType(p, num, den)
  BY <1>3, Zenon
<1>4. margin \in Nat /\ margin > 0 /\ den \in Nat /\ den > 0
  <2>1. margin \in Int
    BY <1>1, <1>2
  <2> HIDE DEF margin
  <2> QED BY <1>1, <1>a, <2>1
<1> DEFINE hd == p.hi * den
<1>5. num \in Int /\ hd \in Int /\ values * den \in Int
  BY <1>1, <1>4
<1>6. Min({num, hd}) = IF num <= hd THEN num ELSE hd
  <2> HIDE DEF num, hd
  <2> QED BY <1>5, MinOfTwo
<1>7. IF clipped THEN hd < values * den ELSE num <= hd /\ num < values * den
  <2>1. ~ (Min({num, hd}) >= values * den)
    BY <1>b
  <2>2. clipped <=> num > hd
    OBVIOUS
  <2>3. PICK x \in Int : x = values * den
    BY <1>5
  <2> HIDE DEF num, hd, clipped
  <2> QED BY <1>5, <1>6, <2>1, <2>2, <2>3
<1>8. PICK least \in Nat : p.lo = 100 * least
  <2>1. p.lo = 100 * (p.lo \div 100) /\ p.lo \div 100 \in Nat
    BY <1>1
  <2> QED BY <2>1
<1>9. \A a, b : ToType(p, a, b) = 100 * (a \div (100 * b))
  BY DEF ToType
<1>10. PICK k : /\ k = IF clipped THEN p.hi \div 100 ELSE num \div (100 * den)
                /\ value = 100 * k
  <2>1. 100 * 1 = 100
    OBVIOUS
  <2>2. ToType(p, p.hi, 1) = 100 * (p.hi \div 100)
    BY <1>9, <2>1
  <2>3. ToType(p, num, den) = 100 * (num \div (100 * den))
    BY <1>9, Zenon
  <2>4. CASE clipped
    BY <1>c, <2>2, <2>4, Zenon
  <2>5. CASE ~clipped
    BY <1>c, <2>3, <2>5, Zenon
  <2> QED BY <2>4, <2>5, Zenon
<1>11. k \in Nat
  <2>1. p.hi \div 100 \in Nat
    BY <1>1
  <2>2. num \in Nat /\ 100 * den \in Nat /\ 100 * den > 0
    BY <1>4
  <2>3. num \div (100 * den) \in Nat
    <3> HIDE DEF num, den
    <3> QED BY <2>2, Quotient
  <2> QED BY <1>10, <2>1, <2>3
<1>12. p.lo <= 100 * k /\ 100 * k <= p.hi /\ 100 * k < values /\ den * k <= margin
  <2>1. ~ (10 * (100 * margin) < (11 * p.lo) * den)
    BY <1>3
  <2>2. \/ 100 * margin > p.hi * den /\ p.hi * den < values * den /\ k = p.hi \div 100
        \/ /\ 100 * margin <= p.hi * den /\ 100 * margin < values * den
           /\ k = (100 * margin) \div (100 * den)
    BY <1>7, <1>10
  <2>3. PICK m, u, l, h : m = margin /\ u = den /\ l = p.lo /\ h = p.hi
    OBVIOUS
  <2> HIDE DEF margin, den, p
  <2> QED BY <1>1, <1>4, <1>8, <1>11, <2>1, <2>2, WholeValue DEF den
<1>13. value \in p.lo .. p.hi /\ value \in Nat /\ value < values
  BY <1>1, <1>10, <1>11, <1>12
<1>14. Linear(p, value) = p.base + den * k
  <2>1. den * value = 100 * (den * k) /\ den * k \in Nat
    BY <1>4, <1>10, <1>11
  <2>2. (100 * (den * k)) \div 100 = den * k
    <3>1. PICK x \in Nat : x = den * k
      BY <2>1
    <3> QED BY <3>1, Hundredths
  <2> QED BY <2>1, <2>2 DEF Linear
<1>15. ExpectedPeak(ref, value) = Linear(p, value)
  BY <1>3, <1>13 DEF ExpectedPeak
<1>16. Linear(p, value) <= Linear(p, values) /\ Linear(p, values) \in Nat /\ Linear(p, value) \in Nat
  <2>1. den * value \in Nat /\ den * values \in Nat /\ den * value <= den * values
    BY <1>4, <1>13
  <2>2. PICK x, y \in Nat : x = den * value /\ y = den * values
    BY <2>1
  <2>3. x \div 100 <= y \div 100 /\ x \div 100 \in Nat /\ y \div 100 \in Nat
    BY <2>1, <2>2
  <2>4. Linear(p, value) = p.base + x \div 100 /\ Linear(p, values) = p.base + y \div 100
    BY <2>2 DEF Linear
  <2> QED BY <1>1, <2>3, <2>4
<1>17. Linear(p, values) <= peak
  <2>1. \/ ExpectedPeak(ref, values) = Linear(p, values)
        \/ ExpectedPeak(ref, values) = Max({Linear(p, values), p.measured})
    BY <1>3 DEF ExpectedPeak
  <2>2. PICK x \in Nat, y \in Nat : x = Linear(p, values) /\ y = p.measured
    BY <1>1, <1>16
  <2>3. x <= Max({x, y})
    BY MaxOfTwo
  <2> QED BY <2>1, <2>2, <2>3
<1>18. Held(park1) + Linear(p, value) <= Budget
  <2>1. den * k \in Nat /\ den * k <= margin
    BY <1>4, <1>11, <1>12
  <2> QED BY <1>1, <1>2, <1>14, <2>1
<1>19. peak <= Budget /\ why # "heavy rule"
  BY <1>3, Zenon
<1> DEFINE less == Linear(p, value)
           more == Linear(p, values)
<1>20. /\ less <= more /\ more <= peak /\ less \in Nat /\ more \in Nat
       /\ Held(park1) + less <= Budget /\ ExpectedPeak(ref, value) = less
  BY <1>15, <1>16, <1>17, <1>18
<1> HIDE DEF less, more
<1>21. less <= peak
  BY <1>20
<1> QED BY <1>13, <1>19, <1>20, <1>21

-----------------------------------------------------------------------------
(* The step that answers, and what the state keeps of it.                  *)

OfferInv == IInv /\ Reasons /\ (Answered => stage = "done")

(* Nothing changes once the agent is answered. *)
LEMMA AnswerStays == OfferInv /\ Answered /\ [RefusalNext]_rvars => UNCHANGED rvars
<1> SUFFICES ASSUME OfferInv, Answered, [RefusalNext]_rvars PROVE UNCHANGED rvars
  OBVIOUS
<1>1. stage = "done" /\ ~Answer
  BY DEF OfferInv, Answered, Answer
<1>2. CASE Decide
  <2>1. UNCHANGED vars
    BY <1>1, <1>2 DEF Decide, Next, EarlyReturn, EnterLoops, HeavyTurn, RefuseHeavy, EndHeavy,
                      BudgetTurn, RefuseBudget, Admit, Finished
  <2> QED BY <1>2, <2>1 DEF Decide, vars, rvars
<1> QED BY <1>1, <1>2 DEF RefusalNext

LEMMA NextOffer == OfferInv /\ [RefusalNext]_rvars => OfferInv'
<1> SUFFICES ASSUME OfferInv, [RefusalNext]_rvars PROVE OfferInv'
  OBVIOUS
<1>1. [Next]_vars
  BY DEF RefusalNext, Decide, Answer, rvars, vars
<1>2. IInv' /\ Reasons'
  BY <1>1, NextIInv, NextReasons DEF OfferInv
<1>3. CASE Answered
  BY <1>2, <1>3, AnswerStays DEF OfferInv, Answered, rvars
<1>4. CASE ~Answered
  <2>1. CASE Answer
    BY <1>2, <2>1 DEF OfferInv, Answer, vars
  <2>2. CASE Decide \/ UNCHANGED rvars
    BY <1>2, <1>4, <2>2 DEF OfferInv, Answered, Decide, rvars
  <2> QED BY <2>1, <2>2 DEF RefusalNext
<1> QED BY <1>3, <1>4

LEMMA InitOffer == RefusalInit => OfferInv /\ ~Answered
<1> SUFFICES ASSUME RefusalInit PROVE OfferInv /\ ~Answered
  OBVIOUS
<1>1. Init /\ answer = NoAnswer
  BY DEF RefusalInit
<1>2. Reasons
  BY <1>1 DEF Init, Reasons
<1> QED BY <1>1, <1>2, InitIInv DEF OfferInv, Answered

(* What the agent is told, and of which park. *)
Told(residents, written, peak, v, a) ==
  /\ written \in Given \cup {Absent}
  /\ peak \in {NoPeak, ExpectedPeak(call.ref, Resolved(call.ref, written))}
  /\ \E variants \in Others(residents, call.ref, Resolved(call.ref, written)) :
       a = Options(residents, call.ref, Resolved(call.ref, written), peak, v, variants)

LEMMA AnswerTells ==
  ASSUME OfferInv, Answer
  PROVE  /\ \E ended : seen' = After(park, ended)
         /\ Told(seen', argument', call.peak, verdict, answer')
         /\ Owned(seen') /\ Calmer(seen', park)
         /\ call' = call /\ verdict' = verdict
         /\ ~call.measure /\ ~call.overcommit /\ call.ref \in Refs
         /\ stage = "done" /\ ~verdict.admitted
<1>1. PICK written \in Given \cup {Absent}, ended \in SUBSET DOMAIN park :
        /\ call.peak \in {NoPeak, ExpectedPeak(call.ref, Resolved(call.ref, written))}
        /\ argument' = written /\ seen' = After(park, ended)
        /\ \E variants \in Others(After(park, ended), call.ref, Resolved(call.ref, written)) :
             answer' = Options(After(park, ended), call.ref, Resolved(call.ref, written),
                               call.peak, verdict, variants)
  BY Zenon DEF Answer
<1>2. Owned(park)
  BY ParkFinite DEF OfferInv, IInv, WellTyped, Owned
<1>3. Owned(After(park, ended)) /\ Calmer(After(park, ended), park)
  BY <1>2, AfterIs
<1>4. /\ call' = call /\ verdict' = verdict /\ ~call.measure /\ ~call.overcommit
      /\ call.ref \in Refs /\ stage = "done" /\ ~verdict.admitted
  BY RefusalAssumption DEF Answer, vars
<1> QED BY <1>1, <1>3, <1>4 DEF Told

LEMMA AnswerRetry ==
  ASSUME OfferInv, Answer, verdict.why = "budget", answer'.retry # {}
  PROVE  Accepts(After(seen', answer'.retry), call.ref, argument')
<1>1. PICK residents, written, a : residents = seen' /\ written = argument' /\ a = answer'
  OBVIOUS
<1>2. /\ Told(residents, written, call.peak, verdict, a) /\ Owned(residents)
      /\ Calmer(residents, park) /\ stage = "done" /\ ~verdict.admitted
  BY <1>1, AnswerTells
<1>3. call.peak # NoPeak /\ a.retry = Wait(residents, call.peak)
  BY <1>1, <1>2, OptionsAre DEF Told
<1>4. ForMemory /\ IInv
  BY <1>2 DEF OfferInv, Reasons
<1>5. call.peak \in Nat
  BY <1>4, LoopsPlanFit DEF ForMemory
<1> DEFINE park2 == After(residents, Wait(residents, call.peak))
<1>6. Occupied(park2, Immobile(park2)) + call.peak <= Budget
  BY <1>1, <1>2, <1>3, <1>5, WaitIsEnough
<1>7. Owned(park2) /\ Calmer(park2, park)
  BY <1>2, AfterIs DEF Calmer
<1> HIDE DEF park2
<1>8. Plan(call.ref, call.peak, park2, FALSE, FALSE).admitted
  <2>1. PICK peak \in Nat : peak = call.peak
    BY <1>5
  <2>2. peak <= call.peak
    BY <2>1
  <2>3. Occupied(park2, Immobile(park2)) + peak <= Budget
    BY <1>6, <2>1
  <2> QED BY <1>4, <1>7, <2>1, <2>2, <2>3, AdmittedInstead, Zenon
<1>9. call.peak = ExpectedPeak(call.ref, Resolved(call.ref, written))
  BY <1>2, <1>3 DEF Told
<1> QED BY <1>1, <1>3, <1>8, <1>9 DEF Accepts, park2

LEMMA AnswerReduces ==
  ASSUME OfferInv, Answer, WholeRanges, MaxHeavy >= 1,
         answer'.reduce # Absent, Profiles[call.ref].integer
  PROVE  /\ answer'.reduce < Resolved(call.ref, argument')
         /\ Accepts(seen', call.ref, answer'.reduce)
<1>1. PICK residents, written, a : residents = seen' /\ written = argument' /\ a = answer'
  OBVIOUS
<1>2. /\ Told(residents, written, call.peak, verdict, a) /\ Owned(residents)
      /\ Calmer(residents, park) /\ stage = "done" /\ ~verdict.admitted
      /\ ~call.measure /\ ~call.overcommit /\ call.ref \in Refs
  BY <1>1, AnswerTells
<1>3. PICK values, value : values = Resolved(call.ref, written) /\ value = a.reduce
  OBVIOUS
<1>4. /\ call.peak # NoPeak /\ call.peak = ExpectedPeak(call.ref, values)
      /\ value = Reduce(residents, call.ref, values, call.peak, verdict.why) /\ value # Absent
  BY <1>1, <1>2, <1>3, OptionsAre DEF Told
<1>5. values \in Nat /\ call.peak \in Nat
  <2>1. values \in Nat
    BY <1>2, <1>3, RefusalAssumption DEF Told, Resolved
  <2>2. call.peak \in Nat
    BY <1>4, LoopAssumption DEF OfferInv, IInv, WellTyped, Calls
  <2> QED BY <2>1, <2>2
<1> DEFINE cost == ExpectedPeak(call.ref, value)
<1>6. /\ call.peak <= Budget /\ verdict.why # "heavy rule" /\ value < values
      /\ cost \in Nat /\ cost <= call.peak /\ Held(residents) + cost <= Budget
  BY <1>2, <1>4, <1>5, ReductionFits
<1>7. ForMemory
  <2>1. ~ (call.peak > Budget) /\ ~ (MaxHeavy < 1)
    <3>1. Budget \in Nat /\ MaxHeavy \in Nat
      BY PolicyAssumption
    <3> HIDE DEF cost
    <3>2. call.peak <= Budget
      BY <1>6, Zenon
    <3> QED BY <1>5, <3>1, <3>2
  <2> QED BY <1>2, <1>4, <1>6, <2>1 DEF OfferInv, Reasons
<1>8. Plan(call.ref, cost, residents, FALSE, FALSE).admitted
  <2> HIDE DEF cost
  <2> QED BY <1>2, <1>6, <1>7, AdmittedInstead DEF OfferInv, Held
<1>9. Resolved(call.ref, value) = value
  BY <1>4 DEF Resolved
<1>10. Accepts(residents, call.ref, value)
  BY <1>8, <1>9 DEF Accepts
<1> QED BY <1>1, <1>3, <1>6, <1>10

LEMMA AnswerFits ==
  ASSUME OfferInv, Answer
  PROVE  \A i \in DOMAIN answer'.variants :
           /\ answer'.variants[i].fits /\ argument' # Absent =>
                Accepts(seen', answer'.variants[i].ref, argument')
           /\ i > 1 => (answer'.variants[i].fits => answer'.variants[i - 1].fits)
<1>1. PICK residents, written, a : residents = seen' /\ written = argument' /\ a = answer'
  OBVIOUS
<1>2. Told(residents, written, call.peak, verdict, a)
  BY <1>1, AnswerTells
<1>3. PICK values : values = Resolved(call.ref, written)
  OBVIOUS
<1>4. PICK variants \in Others(residents, call.ref, values) :
        a = Options(residents, call.ref, values, call.peak, verdict, variants)
  BY <1>2, <1>3 DEF Told
<1>5. a.variants = <<>> \/ a.variants = variants
  BY <1>4, OptionsAre
<1>6. SUFFICES ASSUME NEW i \in DOMAIN a.variants
               PROVE  /\ a.variants[i].fits /\ written # Absent =>
                           Accepts(residents, a.variants[i].ref, written)
                      /\ i > 1 => (a.variants[i].fits => a.variants[i - 1].fits)
  BY <1>1
<1>7. a.variants = variants
  BY <1>5
<1>8. PICK o : o = variants[i]
  OBVIOUS
<1>9. /\ o.fits => Plan(o.ref, ExpectedPeak(o.ref, values), residents, FALSE, FALSE).admitted
      /\ i > 1 => (variants[i].fits => variants[i - 1].fits)
  BY <1>7, <1>8, OthersAre
<1>10. written # Absent => Resolved(o.ref, written) = values
  BY <1>3 DEF Resolved
<1>11. o.fits /\ written # Absent => Accepts(residents, o.ref, written)
  BY <1>9, <1>10, Zenon DEF Accepts
<1> QED BY <1>7, <1>8, <1>9, <1>11

(* "Il faut que l'attente suffise" (refus.py, _attendre): for any park and *)
(* policy, and however many jobs ended before the answer was composed, once *)
(* the jobs that it names are over, the same call is admitted.             *)
THEOREM RetriesHelp == RefusalSpec => []RetryHelps
<1>1. RefusalInit => OfferInv /\ RetryHelps
  BY InitOffer DEF RetryHelps
<1>2. OfferInv /\ RetryHelps /\ [RefusalNext]_rvars => RetryHelps'
  <2> SUFFICES ASSUME OfferInv, RetryHelps, [RefusalNext]_rvars PROVE RetryHelps'
    OBVIOUS
  <2>1. CASE Answered
    BY <2>1, AnswerStays DEF RetryHelps, rvars, Answered
  <2>2. CASE Answer
    BY <2>2, AnswerTells, AnswerRetry DEF RetryHelps
  <2>3. CASE ~Answered /\ (Decide \/ UNCHANGED rvars)
    BY <2>3 DEF RetryHelps, Answered, Decide, rvars
  <2> QED BY <2>1, <2>2, <2>3 DEF RefusalNext
<1> QED BY <1>1, <1>2, NextOffer, PTL DEF RefusalSpec

(* The docstring of _reduire: for any park, slope and range measured at    *)
(* integers, the value proposed for an integer parameter is lower than the *)
(* one refused, and the same call with it is admitted.  With no heavy      *)
(* model allowed at all the code does not recognise the refusal.           *)
THEOREM ReductionsAreAdmitted ==
  ASSUME WholeRanges, MaxHeavy >= 1
  PROVE  RefusalSpec => []ReductionAdmitted
<1>1. RefusalInit => OfferInv /\ ReductionAdmitted
  BY InitOffer DEF ReductionAdmitted
<1>2. OfferInv /\ ReductionAdmitted /\ [RefusalNext]_rvars => ReductionAdmitted'
  <2> SUFFICES ASSUME OfferInv, ReductionAdmitted, [RefusalNext]_rvars PROVE ReductionAdmitted'
    OBVIOUS
  <2>1. CASE Answered
    BY <2>1, AnswerStays DEF ReductionAdmitted, rvars, Answered
  <2>2. CASE Answer
    BY <2>2, AnswerTells, AnswerReduces DEF ReductionAdmitted
  <2>3. CASE ~Answered /\ (Decide \/ UNCHANGED rvars)
    BY <2>3 DEF ReductionAdmitted, Answered, Decide, rvars
  <2> QED BY <2>1, <2>2, <2>3 DEF RefusalNext
<1> QED BY <1>1, <1>2, NextOffer, PTL DEF RefusalSpec

(* What a refusal offers to an agent holds: for any park, policy and        *)
(* profiles with ranges measured at integers, however many jobs end before *)
(* the answer is composed, the wait that is named suffices, the             *)
(* alternative announced as fitting is admitted and comes first, and the   *)
(* smaller integer is admitted.                                            *)
THEOREM OffersAlwaysHold ==
  ASSUME WholeRanges, MaxHeavy >= 1
  PROVE  RefusalSpec => []OffersHold
<1>1. RefusalInit => OfferInv /\ FitsNowHolds
  BY InitOffer DEF FitsNowHolds
<1>2. OfferInv /\ FitsNowHolds /\ [RefusalNext]_rvars => FitsNowHolds'
  <2> SUFFICES ASSUME OfferInv, FitsNowHolds, [RefusalNext]_rvars PROVE FitsNowHolds'
    OBVIOUS
  <2>1. CASE Answered
    BY <2>1, AnswerStays DEF FitsNowHolds, rvars, Answered, Accepts
  <2>2. CASE Answer
    BY <2>2, AnswerFits DEF FitsNowHolds
  <2>3. CASE ~Answered /\ (Decide \/ UNCHANGED rvars)
    BY <2>3 DEF FitsNowHolds, Answered, Decide, rvars
  <2> QED BY <2>1, <2>2, <2>3 DEF RefusalNext
<1>3. RefusalSpec => []FitsNowHolds
  BY <1>1, <1>2, NextOffer, PTL DEF RefusalSpec
<1>4. RetryHelps /\ FitsNowHolds /\ ReductionAdmitted => OffersHold
  BY DEF OffersHold
<1> QED BY <1>3, <1>4, RetriesHelp, ReductionsAreAdmitted, PTL

-----------------------------------------------------------------------------
(* Sets of numbers and pairs, as the rest needs them.                      *)

LEMMA MinIs ==
  ASSUME NEW S \in SUBSET Nat, S # {}
  PROVE  Min(S) \in S
BY LeastIn, Zenon DEF Min

LEMMA TwoOf ==
  ASSUME NEW S, NEW x \in S, NEW y \in S, x # y, IsFiniteSet(S)
  PROVE  Cardinality(S) > 1
<1>1. Cardinality({x, y}) <= Cardinality(S) /\ Cardinality({x, y}) \in Nat /\ Cardinality(S) \in Nat
  BY FS_Subset, FS_CardinalityType
<1>2. Cardinality({x}) = 1 /\ IsFiniteSet({x})
  BY FS_Singleton
<1>3. Cardinality({x} \cup {y}) = Cardinality({x}) + 1
  BY <1>2, FS_AddElement
<1>4. {x} \cup {y} = {x, y}
  OBVIOUS
<1> QED BY <1>1, <1>2, <1>3, <1>4

-----------------------------------------------------------------------------
(* The catalogue of models.  What was read so far is kept, each file once,  *)
(* under its own name, unless an error says so; what is said against a      *)
(* model was said when it was read, and the contracts are all there then.   *)

ContractsRead == {i \in DOMAIN tree.contracts : reading[1] = "contracts" => i < reading[2]}
ManifestsRead ==
  {i \in DOMAIN tree.manifests : reading[1] = "done" \/ (reading[1] \in {"manifests", "raised"} /\ i < reading[2])}

ReadingPlace ==
  /\ tree \in Trees
  /\ \/ \E i \in 1..(Len(tree.contracts) + 1) : reading = <<"contracts", i>>
     \/ \E i \in 1..(Len(tree.manifests) + 1) : reading = <<"manifests", i>> \/ reading = <<"raised", i>>
     \/ reading = <<"done", 0>>
  /\ reading[1] = "contracts" => DOMAIN models = {}

ContractsKept ==
  /\ \A k \in DOMAIN contracts : \E i \in ContractsRead : contracts[k] = tree.contracts[i]
  /\ \A i \in ContractsRead :
       LET c == tree.contracts[i] IN c.id \in DOMAIN contracts /\ contracts[c.id] = c
  /\ \A k \in DOMAIN contracts : contracts[k].valid /\ (tree.meta = "there" => contracts[k].formed)

ModelsKept ==
  \A i \in ManifestsRead :
    LET m == tree.manifests[i] IN m.id \in DOMAIN models /\ models[m.id] = m

ModelsRead ==
  /\ IsFiniteSet(DOMAIN models)
  /\ \A k \in DOMAIN models :
       /\ models[k].id = k /\ IsSequence(models[k].variants)
       /\ \E i \in ManifestsRead : models[k] = tree.manifests[i]

StepsSaid == reading[1] # "contracts" => \A k \in DOMAIN contracts : StepIssues(contracts[k]) \subseteq issues
ModelsSaid == \A k \in DOMAIN models : ModelIssues(models[k]) \subseteq issues
EndSaid == reading[1] = "done" => SharedIssues \subseteq issues /\ IncumbentIssues \subseteq issues

CatalogInv ==
  /\ ReadingPlace /\ ModelsRead
  /\ Errors = {} => ContractsKept /\ ModelsKept /\ StepsSaid /\ ModelsSaid /\ EndSaid

LEMMA TreesAre ==
  ASSUME NEW t \in Trees
  PROVE  /\ DOMAIN t.contracts = 1..Len(t.contracts) /\ Len(t.contracts) \in Nat
         /\ DOMAIN t.manifests = 1..Len(t.manifests) /\ Len(t.manifests) \in Nat
BY CatalogAssumption DEF CatalogAssumption, IsSequence

(* What is said against a model depends on the files and the contracts.    *)
LEMMA SameModel ==
  ASSUME NEW m, UNCHANGED <<tree, contracts>>
  PROVE  ModelIssues(m)' = ModelIssues(m)
BY DEF ModelIssues, VariantIssues, ProfileIssues, Illegible, Measured

LEMMA NothingHere == DOMAIN <<>> = {}
OBVIOUS

LEMMA CatalogStarts == CatalogInit => CatalogInv
<1> SUFFICES ASSUME CatalogInit PROVE CatalogInv
  OBVIOUS
<1>1. tree \in Trees /\ contracts = <<>> /\ models = <<>>
  BY DEF CatalogInit
<1>2. DOMAIN contracts = {} /\ DOMAIN models = {}
  BY <1>1, NothingHere, Zenon
<1>3. Len(tree.contracts) \in Nat /\ DOMAIN tree.contracts = 1..Len(tree.contracts)
  BY <1>1, TreesAre
<1>4. reading = <<"contracts", 1>> \/ reading = <<"done", 0>>
  BY Zenon DEF CatalogInit
<1>5. ReadingPlace
  BY <1>1, <1>2, <1>3, <1>4 DEF ReadingPlace
<1>6. ModelsRead
  BY <1>2, FS_EmptySet DEF ModelsRead
<1>7. ASSUME Errors = {} PROVE ContractsKept /\ ModelsKept /\ StepsSaid /\ ModelsSaid /\ EndSaid
  <2>1. reading = <<"contracts", 1>>
    <3>1. CASE tree.schema
      BY <3>1, Zenon DEF CatalogInit
    <3>2. CASE ~tree.schema
      <4>1. PICK e : e = Wrong("schema", "missing")
        OBVIOUS
      <4>2. issues = {e}
        BY <3>2, <4>1, Zenon DEF CatalogInit
      <4>3. e.severity = "error"
        BY <4>1 DEF Wrong
      <4> QED BY <1>7, <4>2, <4>3, Zenon DEF Errors
    <3> QED BY <3>1, <3>2
  <2>2. ContractsRead = {} /\ ManifestsRead = {}
    BY <1>3, <2>1 DEF ContractsRead, ManifestsRead
  <2> QED BY <1>2, <2>1, <2>2 DEF ContractsKept, ModelsKept, StepsSaid, ModelsSaid, EndSaid
<1> QED BY <1>5, <1>6, <1>7 DEF CatalogInv

(* What is said stays said; what is not wrong was not.                     *)
LEMMA StillSaid ==
  ASSUME issues \subseteq issues', Errors' = {}
  PROVE  Errors = {}
BY DEF Errors

LEMMA WrongIs == \A at, what : Wrong(at, what).severity = "error"
BY DEF Wrong

LEMMA NothingWrong ==
  ASSUME NEW S, NEW at, NEW what, Wrong(at, what) \in S,
         {i \in S : i.severity = "error"} = {}
  PROVE  FALSE
BY WrongIs

LEMMA ContractRead ==
  ASSUME CatalogInv, ReadContract
  PROVE  CatalogInv'
<1>1. PICK n : n = reading[2]
  OBVIOUS
<1>2. PICK c : c = tree.contracts[n]
  OBVIOUS
<1>3. /\ tree \in Trees /\ tree' = tree /\ models' = models /\ DOMAIN models = {}
      /\ reading = <<"contracts", n>> /\ n \in 1..Len(tree.contracts)
      /\ DOMAIN tree.contracts = 1..Len(tree.contracts) /\ Len(tree.contracts) \in Nat
  <2>1. tree \in Trees /\ tree' = tree /\ models' = models /\ DOMAIN models = {}
    BY DEF ReadContract, CatalogInv, ReadingPlace
  <2>2. DOMAIN tree.contracts = 1..Len(tree.contracts) /\ Len(tree.contracts) \in Nat
    BY <2>1, TreesAre
  <2>3. reading[1] = "contracts" /\ n <= Len(tree.contracts)
    BY <1>1, Zenon DEF ReadContract
  <2>4. reading = <<"contracts", n>> /\ n \in 1..Len(tree.contracts)
    BY <1>1, <2>2, <2>3 DEF CatalogInv, ReadingPlace
  <2> QED BY <2>1, <2>2, <2>4
<1>4. reading' = <<"contracts", n + 1>>
  <2>1. reading' = [reading EXCEPT ![2] = reading[2] + 1]
    BY Zenon DEF ReadContract
  <2> QED BY <1>3, <2>1
<1>5. contracts' = IF c.legible THEN FirstRead(contracts, c.id, c) ELSE contracts
  BY <1>1, <1>2, Zenon DEF ReadContract
<1>6. issues' = issues \cup
           IF ~c.legible THEN {Wrong(c.stem, "illegible")}
           ELSE When(tree.meta = "there" /\ ~c.formed, Wrong(c.stem, "malformed"))
                  \cup When(c.id # c.stem, Wrong(c.stem, "misnamed"))
                  \cup When(c.id \in DOMAIN contracts, Wrong(c.stem, "twice"))
                  \cup When(c.id \notin DOMAIN contracts /\ ~c.valid, Wrong(c.stem, "invalid"))
  BY <1>1, <1>2, Zenon DEF ReadContract
<1>7. ReadingPlace'
  BY <1>3, <1>4 DEF ReadingPlace
<1>8. ModelsRead'
  BY <1>3, FS_EmptySet DEF ModelsRead
<1>9. ASSUME Errors' = {} PROVE (ContractsKept /\ ModelsKept /\ StepsSaid /\ ModelsSaid /\ EndSaid)'
  <2>1. Errors = {}
    <3>1. issues \subseteq issues'
      BY <1>6
    <3> QED BY <1>9, <3>1, StillSaid
  <2>2. c.legible
    <3>1. SUFFICES ASSUME ~c.legible PROVE FALSE
      OBVIOUS
    <3>2. Wrong(c.stem, "illegible") \in issues'
      BY <1>6, <3>1
    <3> QED BY <1>9, <3>2, NothingWrong DEF Errors
  <2>3. c.id \notin DOMAIN contracts
    <3>1. SUFFICES ASSUME c.id \in DOMAIN contracts PROVE FALSE
      OBVIOUS
    <3>2. Wrong(c.stem, "twice") \in issues'
      BY <1>6, <2>2, <3>1 DEF When
    <3> QED BY <1>9, <3>2, NothingWrong DEF Errors
  <2>4. contracts' = With(contracts, c.id, c)
    BY <1>5, <2>2, <2>3, Zenon DEF FirstRead
  <2>5. /\ DOMAIN contracts' = DOMAIN contracts \cup {c.id}
        /\ contracts'[c.id] = c
        /\ \A x \in DOMAIN contracts : contracts'[x] = contracts[x]
    BY <2>3, <2>4 DEF With
  <2>6. ContractsRead = 1..(n - 1) /\ ContractsRead' = 1..n /\ ManifestsRead' = {}
    <3>1. ContractsRead = 1..(n - 1)
      BY <1>3 DEF ContractsRead
    <3>2. ContractsRead' = 1..n
      <4>1. ContractsRead' = {i \in 1..Len(tree.contracts) : i < n + 1}
        BY <1>3, <1>4 DEF ContractsRead
      <4> QED BY <1>3, <4>1
    <3>3. ManifestsRead' = {}
      <4>1. reading'[1] = "contracts"
        BY <1>4
      <4> QED BY <4>1 DEF ManifestsRead
    <3> QED BY <3>1, <3>2, <3>3
  <2>7. ContractsKept
    BY <2>1 DEF CatalogInv
  <2>8. ContractsKept'
    <3>1. ASSUME NEW k \in DOMAIN contracts'
          PROVE  \E i \in ContractsRead' : contracts'[k] = tree.contracts[i]
      <4>1. CASE k = c.id
        BY <1>2, <1>3, <2>5, <2>6, <4>1
      <4>2. CASE k # c.id
        <5>1. PICK i \in ContractsRead : contracts[k] = tree.contracts[i]
          BY <2>5, <2>7, <4>2 DEF ContractsKept
        <5>2. i \in ContractsRead'
          BY <1>3, <2>6, <5>1
        <5> QED BY <2>5, <4>2, <5>1, <5>2
      <4> QED BY <4>1, <4>2
    <3>2. ASSUME NEW i \in ContractsRead'
          PROVE  tree.contracts[i].id \in DOMAIN contracts' /\ contracts'[tree.contracts[i].id] = tree.contracts[i]
      <4>1. CASE i = n
        BY <1>2, <2>5, <4>1
      <4>2. CASE i # n
        <5>1. i \in ContractsRead
          BY <1>3, <2>6, <4>2
        <5> QED BY <2>5, <2>7, <5>1 DEF ContractsKept
      <4> QED BY <4>1, <4>2
    <3>3. c.valid
      <4>1. SUFFICES ASSUME ~c.valid PROVE FALSE
        OBVIOUS
      <4>2. Wrong(c.stem, "invalid") \in issues'
        BY <1>6, <2>2, <2>3, <4>1 DEF When
      <4> QED BY <1>9, <4>2, NothingWrong DEF Errors
    <3>4. ASSUME tree.meta = "there" PROVE c.formed
      <4>1. SUFFICES ASSUME ~c.formed PROVE FALSE
        OBVIOUS
      <4>2. Wrong(c.stem, "malformed") \in issues'
        BY <1>6, <2>2, <3>4, <4>1 DEF When
      <4> QED BY <1>9, <4>2, NothingWrong DEF Errors
    <3>5. ASSUME NEW k \in DOMAIN contracts'
          PROVE  contracts'[k].valid /\ (tree.meta = "there" => contracts'[k].formed)
      BY <2>5, <2>7, <3>3, <3>4 DEF ContractsKept
    <3> QED BY <1>3, <3>1, <3>2, <3>5 DEF ContractsKept
  <2>9. reading'[1] = "contracts" /\ DOMAIN models' = {}
    BY <1>3, <1>4
  <2> QED BY <2>6, <2>8, <2>9 DEF ModelsKept, StepsSaid, ModelsSaid, EndSaid
<1> QED BY <1>7, <1>8, <1>9 DEF CatalogInv
LEMMA Composed ==
  ASSUME CatalogInv, Compose
  PROVE  CatalogInv'
<1>1. /\ tree \in Trees /\ tree' = tree /\ models' = models /\ contracts' = contracts /\ DOMAIN models = {}
      /\ reading = <<"contracts", Len(tree.contracts) + 1>> /\ reading' = <<"manifests", 1>>
  BY DEF Compose, CatalogInv, ReadingPlace
<1>2. DOMAIN tree.contracts = 1..Len(tree.contracts) /\ Len(tree.contracts) \in Nat /\ Len(tree.manifests) \in Nat
      /\ DOMAIN tree.manifests = 1..Len(tree.manifests)
  BY <1>1, TreesAre
<1>3. issues' = issues \cup UNION {StepIssues(contracts[k]) : k \in DOMAIN contracts}
  BY Zenon DEF Compose
<1>4. ReadingPlace'
  <2>1. \E i \in 1..(Len(tree.manifests) + 1) : reading' = <<"manifests", i>>
    BY <1>1, <1>2
  <2>2. reading'[1] # "contracts"
    BY <1>1
  <2> QED BY <1>1, <2>1, <2>2, Zenon DEF ReadingPlace
<1>5. ModelsRead'
  BY <1>1, FS_EmptySet DEF ModelsRead
<1>6. ASSUME Errors' = {} PROVE (ContractsKept /\ ModelsKept /\ StepsSaid /\ ModelsSaid /\ EndSaid)'
  <2>1. Errors = {}
    BY <1>3, <1>6, StillSaid
  <2>2. ContractsRead = DOMAIN tree.contracts /\ ContractsRead' = DOMAIN tree.contracts /\ ManifestsRead' = {}
    <3>1. reading[1] = "contracts" /\ reading[2] = Len(tree.contracts) + 1
      BY <1>1
    <3>2. reading'[1] = "manifests" /\ reading'[2] = 1
      BY <1>1
    <3>3. ContractsRead = DOMAIN tree.contracts
      BY <1>2, <3>1 DEF ContractsRead
    <3>4. ContractsRead' = DOMAIN tree.contracts
      BY <1>1, <3>2 DEF ContractsRead
    <3>5. ManifestsRead' = {}
      BY <1>1, <1>2, <3>2 DEF ManifestsRead
    <3> QED BY <3>3, <3>4, <3>5
  <2>3. ContractsKept'
    <3>1. ContractsKept
      BY <2>1 DEF CatalogInv
    <3> QED BY <1>1, <2>2, <3>1 DEF ContractsKept
  <2>4. StepsSaid'
    <3>1. ASSUME NEW k \in DOMAIN contracts PROVE StepIssues(contracts[k])' \subseteq issues'
      <4>1. StepIssues(contracts[k])' = StepIssues(contracts[k])
        BY <1>1 DEF StepIssues
      <4> QED BY <1>3, <4>1
    <3> QED BY <1>1, <3>1 DEF StepsSaid
  <2>5. reading'[1] = "manifests"
    BY <1>1
  <2> QED BY <1>1, <2>2, <2>3, <2>4, <2>5 DEF ModelsKept, ModelsSaid, EndSaid
<1> QED BY <1>4, <1>5, <1>6 DEF CatalogInv

LEMMA ManifestRead ==
  ASSUME CatalogInv, ReadManifest
  PROVE  CatalogInv'
<1>1. PICK n : n = reading[2]
  OBVIOUS
<1>2. PICK m : m = tree.manifests[n]
  OBVIOUS
<1>3. /\ tree \in Trees /\ tree' = tree /\ contracts' = contracts
      /\ reading = <<"manifests", n>> /\ n \in 1..Len(tree.manifests)
      /\ DOMAIN tree.manifests = 1..Len(tree.manifests) /\ Len(tree.manifests) \in Nat
      /\ DOMAIN tree.contracts = 1..Len(tree.contracts) /\ Len(tree.contracts) \in Nat
  <2>1. tree \in Trees /\ tree' = tree /\ contracts' = contracts
    BY DEF ReadManifest, CatalogInv, ReadingPlace
  <2>2. /\ DOMAIN tree.manifests = 1..Len(tree.manifests) /\ Len(tree.manifests) \in Nat
        /\ DOMAIN tree.contracts = 1..Len(tree.contracts) /\ Len(tree.contracts) \in Nat
    BY <2>1, TreesAre
  <2>3. reading[1] = "manifests" /\ n <= Len(tree.manifests)
    BY <1>1, Zenon DEF ReadManifest
  <2>4. reading = <<"manifests", n>> /\ n \in 1..Len(tree.manifests)
    BY <1>1, <2>2, <2>3 DEF CatalogInv, ReadingPlace
  <2> QED BY <2>1, <2>2, <2>4
<1>4. reading' = <<"manifests", n + 1>>
  <2>1. reading' = [reading EXCEPT ![2] = reading[2] + 1]
    BY Zenon DEF ReadManifest
  <2> QED BY <1>3, <2>1
<1>5. \/ /\ ~m.legible /\ models' = models
         /\ issues' = issues \cup {Wrong(m.stem, "illegible")}
      \/ /\ m.legible /\ m.id \in DOMAIN models /\ models' = models
         /\ issues' = issues \cup {Wrong(m.stem, "twice")} \cup
                      When(m.stem # m.id, Odd(m.stem, "misnamed"))
      \/ /\ m.legible /\ m.id \notin DOMAIN models /\ models' = With(models, m.id, m)
         /\ issues' = issues \cup ModelIssues(m) \cup When(m.stem # m.id, Odd(m.stem, "misnamed"))
  BY <1>1, <1>2, Zenon DEF ReadManifest
<1>6. ReadingPlace'
  <2>1. \E i \in 1..(Len(tree.manifests) + 1) : reading' = <<"manifests", i>>
    BY <1>3, <1>4
  <2>2. reading'[1] # "contracts"
    BY <1>4
  <2> QED BY <1>3, <2>1, <2>2, Zenon DEF ReadingPlace
<1>7. /\ ManifestsRead = 1..(n - 1) /\ ManifestsRead' = 1..n
      /\ ContractsRead = DOMAIN tree.contracts /\ ContractsRead' = DOMAIN tree.contracts
  <2>1. reading[1] = "manifests" /\ reading[2] = n /\ reading'[1] = "manifests" /\ reading'[2] = n + 1
    BY <1>3, <1>4
  <2>2. ManifestsRead = 1..(n - 1)
    BY <1>3, <2>1 DEF ManifestsRead
  <2>3. ManifestsRead' = 1..n
    <3>1. ManifestsRead' = {i \in 1..Len(tree.manifests) : i < n + 1}
      BY <1>3, <2>1 DEF ManifestsRead
    <3> QED BY <1>3, <3>1
  <2>4. ContractsRead = DOMAIN tree.contracts
    BY <2>1 DEF ContractsRead
  <2>5. ContractsRead' = DOMAIN tree.contracts
    BY <1>3, <2>1 DEF ContractsRead
  <2> QED BY <2>2, <2>3, <2>4, <2>5
<1>8. /\ IsFiniteSet(DOMAIN models)
      /\ \A k \in DOMAIN models :
           /\ models[k].id = k /\ IsSequence(models[k].variants)
           /\ \E i \in ManifestsRead' : models[k] = tree.manifests[i]
  <2>1. ManifestsRead \subseteq ManifestsRead'
    BY <1>3, <1>7
  <2> QED BY <2>1 DEF CatalogInv, ModelsRead
<1>9. CASE ~m.legible
  <2>1. models' = models /\ Wrong(m.stem, "illegible") \in issues'
    BY <1>5, <1>9
  <2>2. Errors' # {}
    BY <2>1, NothingWrong DEF Errors
  <2>3. ModelsRead'
    BY <1>3, <1>8, <2>1 DEF ModelsRead
  <2> QED BY <1>6, <2>2, <2>3 DEF CatalogInv
<1>10. CASE m.legible /\ m.id \in DOMAIN models
  <2>1. models' = models /\ Wrong(m.stem, "twice") \in issues'
    BY <1>5, <1>10
  <2>2. Errors' # {}
    BY <2>1, NothingWrong DEF Errors
  <2>3. ModelsRead'
    BY <1>3, <1>8, <2>1 DEF ModelsRead
  <2> QED BY <1>6, <2>2, <2>3 DEF CatalogInv
<1>11. CASE m.legible /\ m.id \notin DOMAIN models
  <2>1. /\ models' = With(models, m.id, m)
        /\ issues' = issues \cup ModelIssues(m) \cup When(m.stem # m.id, Odd(m.stem, "misnamed"))
    BY <1>5, <1>11
  <2>2. /\ DOMAIN models' = DOMAIN models \cup {m.id}
        /\ models'[m.id] = m
        /\ \A x \in DOMAIN models : models'[x] = models[x]
    BY <1>11, <2>1 DEF With
  <2>3. ModelsRead'
    <3>1. IsFiniteSet(DOMAIN models')
      BY <1>8, <2>2, FS_AddElement
    <3>2. IsSequence(m.variants)
      BY <1>2, <1>3, <1>11, CatalogAssumption DEF CatalogAssumption
    <3>3. ASSUME NEW k \in DOMAIN models'
          PROVE  /\ models'[k].id = k /\ IsSequence(models'[k].variants)
                 /\ \E i \in ManifestsRead' : models'[k] = tree.manifests[i]
      <4>1. CASE k = m.id
        BY <1>2, <1>3, <1>7, <2>2, <3>2, <4>1
      <4>2. CASE k # m.id
        BY <1>8, <2>2, <4>2
      <4> QED BY <4>1, <4>2
    <3> QED BY <1>3, <3>1, <3>3 DEF ModelsRead
  <2>4. ASSUME Errors' = {} PROVE (ContractsKept /\ ModelsKept /\ StepsSaid /\ ModelsSaid /\ EndSaid)'
    <3>1. Errors = {}
      BY <2>1, <2>4, StillSaid
    <3>2. ContractsKept /\ ModelsKept /\ StepsSaid /\ ModelsSaid
      BY <3>1 DEF CatalogInv
    <3>3. ContractsKept'
      BY <1>3, <1>7, <3>2 DEF ContractsKept
    <3>4. ModelsKept'
      <4>1. ASSUME NEW i \in ManifestsRead'
            PROVE  tree.manifests[i].id \in DOMAIN models' /\ models'[tree.manifests[i].id] = tree.manifests[i]
        <5>1. CASE i = n
          BY <1>2, <2>2, <5>1
        <5>2. CASE i # n
          <6>1. i \in ManifestsRead
            BY <1>3, <1>7, <5>2
          <6> QED BY <2>2, <3>2, <6>1 DEF ModelsKept
        <5> QED BY <5>1, <5>2
      <4> QED BY <1>3, <4>1 DEF ModelsKept
    <3>5. StepsSaid'
      <4>1. ASSUME NEW k \in DOMAIN contracts PROVE StepIssues(contracts[k])' \subseteq issues'
        <5>1. StepIssues(contracts[k])' = StepIssues(contracts[k])
          BY <1>3 DEF StepIssues
        <5>2. reading[1] # "contracts"
          BY <1>3
        <5>3. StepIssues(contracts[k]) \subseteq issues
          BY <3>2, <5>2 DEF StepsSaid
        <5> QED BY <2>1, <5>1, <5>3
      <4> QED BY <1>3, <4>1 DEF StepsSaid
    <3>6. ModelsSaid'
      <4>1. ASSUME NEW k \in DOMAIN models', NEW x, x = models'[k] PROVE ModelIssues(x)' \subseteq issues'
        <5>1. ModelIssues(x)' = ModelIssues(x)
          BY <1>3, SameModel
        <5>2. CASE k = m.id
          BY <2>1, <2>2, <4>1, <5>1, <5>2
        <5>3. CASE k # m.id
          <6>1. k \in DOMAIN models /\ x = models[k]
            BY <2>2, <4>1, <5>3
          <6>2. ModelIssues(x) \subseteq issues
            BY <3>2, <6>1 DEF ModelsSaid
          <6> QED BY <2>1, <5>1, <6>2
        <5> QED BY <5>2, <5>3
      <4> QED BY <4>1 DEF ModelsSaid
    <3>7. EndSaid'
      <4>1. reading'[1] = "manifests"
        BY <1>4
      <4> QED BY <4>1 DEF EndSaid
    <3> QED BY <3>3, <3>4, <3>5, <3>6, <3>7
  <2> QED BY <1>6, <2>3, <2>4 DEF CatalogInv
<1> QED BY <1>9, <1>10, <1>11

(* Nothing is kept or said by what raises.                                  *)
LEMMA ReadingRaises ==
  ASSUME CatalogInv, RaiseOnRecord
  PROVE  CatalogInv'
<1>1. /\ tree \in Trees /\ tree' = tree /\ models' = models /\ contracts' = contracts /\ issues' = issues
      /\ reading[1] = "manifests" /\ reading' = [reading EXCEPT ![1] = "raised"]
  BY Zenon DEF RaiseOnRecord, CatalogInv, ReadingPlace
<1>2. PICK n \in 1..(Len(tree.manifests) + 1) : reading = <<"manifests", n>>
  BY <1>1 DEF CatalogInv, ReadingPlace
<1>3. reading' = <<"raised", n>>
  BY <1>1, <1>2
<1>4. ReadingPlace'
  BY <1>1, <1>2, <1>3 DEF ReadingPlace
<1>5. ContractsRead' = ContractsRead /\ ManifestsRead' = ManifestsRead
  BY <1>1, <1>2, <1>3 DEF ContractsRead, ManifestsRead
<1>6. ModelsRead'
  BY <1>1, <1>5 DEF CatalogInv, ModelsRead
<1>7. Errors' = Errors
  BY <1>1 DEF Errors
<1>8. ASSUME Errors = {} PROVE (ContractsKept /\ ModelsKept /\ StepsSaid /\ ModelsSaid /\ EndSaid)'
  <2>1. ContractsKept /\ ModelsKept /\ StepsSaid /\ ModelsSaid
    BY <1>8 DEF CatalogInv
  <2>2. ContractsKept' /\ ModelsKept'
    BY <1>1, <1>5, <2>1 DEF ContractsKept, ModelsKept
  <2>3. \A c : StepIssues(c)' = StepIssues(c)
    BY <1>1 DEF StepIssues
  <2>4. StepsSaid'
    BY <1>1, <2>1, <2>3, Zenon DEF StepsSaid
  <2>5. \A m : ModelIssues(m)' = ModelIssues(m)
    BY <1>1, SameModel
  <2>6. ModelsSaid'
    BY <1>1, <2>1, <2>5, Zenon DEF ModelsSaid
  <2>7. EndSaid'
    BY <1>3 DEF EndSaid
  <2> QED BY <2>2, <2>4, <2>6, <2>7
<1> QED BY <1>4, <1>6, <1>7, <1>8 DEF CatalogInv

LEMMA ReadingEnds ==
  ASSUME CatalogInv, FinishReading
  PROVE  CatalogInv'
<1>1. /\ tree \in Trees /\ tree' = tree /\ models' = models /\ contracts' = contracts
      /\ reading = <<"manifests", Len(tree.manifests) + 1>> /\ reading' = <<"done", 0>>
  BY DEF FinishReading, CatalogInv, ReadingPlace
<1>2. DOMAIN tree.contracts = 1..Len(tree.contracts) /\ Len(tree.contracts) \in Nat /\ Len(tree.manifests) \in Nat
      /\ DOMAIN tree.manifests = 1..Len(tree.manifests)
  BY <1>1, TreesAre
<1>3. issues' = issues \cup SharedIssues \cup IncumbentIssues
  BY Zenon DEF FinishReading
<1>4. ReadingPlace'
  <2>1. reading'[1] # "contracts"
    BY <1>1
  <2> QED BY <1>1, <2>1, Zenon DEF ReadingPlace
<1>5. ContractsRead' = ContractsRead /\ ManifestsRead = ManifestsRead'
  <2>1. /\ reading[1] = "manifests" /\ reading[2] = Len(tree.manifests) + 1
        /\ reading'[1] = "done"
    BY <1>1
  <2>2. ContractsRead' = ContractsRead
    BY <1>1, <2>1 DEF ContractsRead
  <2>3. ManifestsRead = DOMAIN tree.manifests
    BY <1>2, <2>1 DEF ManifestsRead
  <2>4. ManifestsRead' = DOMAIN tree.manifests
    BY <1>1, <2>1 DEF ManifestsRead
  <2> QED BY <2>2, <2>3, <2>4
<1>6. ModelsRead'
  <2>1. ModelsRead
    BY DEF CatalogInv
  <2> QED BY <1>1, <1>5, <2>1 DEF ModelsRead
<1>7. ASSUME Errors' = {} PROVE (ContractsKept /\ ModelsKept /\ StepsSaid /\ ModelsSaid /\ EndSaid)'
  <2>1. Errors = {}
    BY <1>3, <1>7, StillSaid
  <2>2. ContractsKept /\ ModelsKept /\ StepsSaid /\ ModelsSaid
    BY <2>1 DEF CatalogInv
  <2>3. ContractsKept'
    BY <1>1, <1>5, <2>2 DEF ContractsKept
  <2>4. ModelsKept'
    BY <1>1, <1>5, <2>2 DEF ModelsKept
  <2>5. StepsSaid'
    <3>1. ASSUME NEW k \in DOMAIN contracts PROVE StepIssues(contracts[k])' \subseteq issues'
      <4>1. StepIssues(contracts[k])' = StepIssues(contracts[k])
        BY <1>1 DEF StepIssues
      <4>2. reading[1] # "contracts"
        BY <1>1
      <4>3. StepIssues(contracts[k]) \subseteq issues
        BY <2>2, <4>2 DEF StepsSaid
      <4> QED BY <1>3, <4>1, <4>3
    <3> QED BY <1>1, <3>1 DEF StepsSaid
  <2>6. ModelsSaid'
    <3>1. ASSUME NEW k \in DOMAIN models', NEW x, x = models'[k] PROVE ModelIssues(x)' \subseteq issues'
      <4>1. ModelIssues(x)' = ModelIssues(x)
        BY <1>1, SameModel
      <4>2. ModelIssues(x) \subseteq issues
        BY <1>1, <2>2, <3>1 DEF ModelsSaid
      <4> QED BY <1>3, <4>1, <4>2
    <3> QED BY <3>1 DEF ModelsSaid
  <2>7. EndSaid'
    <3>1. SharedIssues' = SharedIssues /\ IncumbentIssues' = IncumbentIssues
      BY <1>1 DEF SharedIssues, Sources, IncumbentIssues, Holders
    <3> QED BY <1>3, <3>1, Zenon DEF EndSaid
  <2> QED BY <2>3, <2>4, <2>5, <2>6, <2>7
<1> QED BY <1>4, <1>6, <1>7 DEF CatalogInv

LEMMA CatalogSteps == CatalogInv /\ [CatalogNext]_catalogVars => CatalogInv'
<1> SUFFICES ASSUME CatalogInv, [CatalogNext]_catalogVars PROVE CatalogInv'
  OBVIOUS
<1>1. CASE ReadContract
  BY <1>1, ContractRead
<1>2. CASE Compose
  BY <1>2, Composed
<1>3. CASE ReadManifest
  BY <1>3, ManifestRead
<1>4. CASE FinishReading
  BY <1>4, ReadingEnds
<1>6. CASE RaiseOnRecord
  BY <1>6, ReadingRaises
<1>5. CASE UNCHANGED catalogVars
  <2>1. UNCHANGED <<tree, contracts, models, issues, reading>>
    BY <1>5 DEF catalogVars
  <2>2. /\ ReadingPlace' = ReadingPlace /\ ModelsRead' = ModelsRead /\ Errors' = Errors
        /\ ContractsKept' = ContractsKept /\ ModelsKept' = ModelsKept
    BY <2>1 DEF ReadingPlace, ModelsRead, Errors, ContractsKept, ModelsKept, ContractsRead, ManifestsRead
  <2>3. StepsSaid' = StepsSaid
    BY <2>1 DEF StepsSaid, StepIssues
  <2>4. EndSaid' = EndSaid
    BY <2>1 DEF EndSaid, SharedIssues, Sources, IncumbentIssues, Holders
  <2>5. ModelsSaid => ModelsSaid'
    <3>1. ASSUME ModelsSaid, NEW k \in DOMAIN models', NEW x, x = models'[k] PROVE ModelIssues(x)' \subseteq issues'
      <4>1. ModelIssues(x)' = ModelIssues(x)
        BY <2>1, SameModel
      <4> QED BY <2>1, <3>1, <4>1 DEF ModelsSaid
    <3> QED BY <3>1 DEF ModelsSaid
  <2> QED BY <2>2, <2>3, <2>4, <2>5, Zenon DEF CatalogInv
<1> QED BY <1>1, <1>2, <1>3, <1>4, <1>5, <1>6 DEF CatalogNext

NoErrors == \A at, what : Wrong(at, what) \notin issues
NoWarnings == \A at, what : Odd(at, what) \notin issues

(* What is said of a variant, one thing after the other.                   *)
LEMMA SaidOfVariant ==
  ASSUME NEW m, NEW i, NEW v, v = m.variants[i], NEW c, c = contracts[m.capability],
         VariantIssues(m, i) \subseteq issues
  PROVE  /\ (\E k \in 1..(i - 1) : m.variants[k].id = v.id) => Wrong(m.stem, "variant twice") \in issues
         /\ RevisionIssues(m, v) \subseteq issues
         /\ v.kind = "huggingface" /\ v.repo = Unsaid => Wrong(m.stem, "no repository") \in issues
         /\ v.custom /\ ~v.entrypoint => Active(m, "no entry point") \in issues
         /\ m.capability \in DOMAIN contracts => DefaultIssues(m, c, v) \subseteq issues /\ OptionIssues(m, c, v) \subseteq issues
         /\ v.profile # Unsaid => ProfileIssues(m, v) \subseteq issues
         /\ v.tier # "absent" /\ v.env \notin tree.envs => Odd(m.stem, "no environment") \in issues
<1>1. VariantIssues(m, i) =
        When(\E k \in 1..(i - 1) : m.variants[k].id = v.id, Wrong(m.stem, "variant twice"))
      \cup RevisionIssues(m, v)
      \cup When(v.kind = "huggingface" /\ v.repo = Unsaid, Wrong(m.stem, "no repository"))
      \cup When(v.custom /\ ~v.entrypoint, Active(m, "no entry point"))
      \cup (IF m.capability \in DOMAIN contracts THEN DefaultIssues(m, c, v) \cup OptionIssues(m, c, v) ELSE {})
      \cup (IF v.profile # Unsaid THEN ProfileIssues(m, v) ELSE {})
      \cup When(v.tier # "absent" /\ v.env \notin tree.envs, Odd(m.stem, "no environment"))
  BY Zenon DEF VariantIssues
<1>2. /\ When(\E k \in 1..(i - 1) : m.variants[k].id = v.id, Wrong(m.stem, "variant twice")) \subseteq issues
      /\ RevisionIssues(m, v) \subseteq issues
      /\ When(v.kind = "huggingface" /\ v.repo = Unsaid, Wrong(m.stem, "no repository")) \subseteq issues
      /\ When(v.custom /\ ~v.entrypoint, Active(m, "no entry point")) \subseteq issues
      /\ (IF m.capability \in DOMAIN contracts THEN DefaultIssues(m, c, v) \cup OptionIssues(m, c, v) ELSE {})
           \subseteq issues
      /\ (IF v.profile # Unsaid THEN ProfileIssues(m, v) ELSE {}) \subseteq issues
      /\ When(v.tier # "absent" /\ v.env \notin tree.envs, Odd(m.stem, "no environment")) \subseteq issues
  BY <1>1, Zenon
<1>3. ASSUME \E k \in 1..(i - 1) : m.variants[k].id = v.id PROVE Wrong(m.stem, "variant twice") \in issues
  BY <1>2, <1>3, Zenon DEF When
<1>4. ASSUME v.kind = "huggingface" /\ v.repo = Unsaid PROVE Wrong(m.stem, "no repository") \in issues
  BY <1>2, <1>4, Zenon DEF When
<1>5. ASSUME v.custom /\ ~v.entrypoint PROVE Active(m, "no entry point") \in issues
  BY <1>2, <1>5, Zenon DEF When
<1>6. ASSUME m.capability \in DOMAIN contracts PROVE DefaultIssues(m, c, v) \subseteq issues /\ OptionIssues(m, c, v) \subseteq issues
  BY <1>2, <1>6, Zenon
<1>7. ASSUME v.profile # Unsaid PROVE ProfileIssues(m, v) \subseteq issues
  BY <1>2, <1>7, Zenon
<1>8. ASSUME v.tier # "absent" /\ v.env \notin tree.envs PROVE Odd(m.stem, "no environment") \in issues
  BY <1>2, <1>8, Zenon DEF When
<1> QED BY <1>2, <1>3, <1>4, <1>5, <1>6, <1>7, <1>8, Zenon

(* A profile about which nothing is said is that of a measurement: the     *)
(* first one of its own machine, or any where there is none of it.         *)
LEMMA ProfileSound ==
  ASSUME NEW m, NEW v, v.profile # Unsaid, ProfileIssues(m, v) = {}, tree \in Trees
  PROVE  LET records == tree.records[<<m.id, v.id>>]
             legible == Measured(<<m.id, v.id>>)
             own == {i \in legible : records[i].machine = v.profile.machine}
         IN  \E i \in IF own = {} THEN legible ELSE own : Agrees(v.profile, records[i])
<1> DEFINE ref == <<m.id, v.id>>
           records == tree.records[ref]
           legible == Measured(ref)
           own == {i \in legible : records[i].machine = v.profile.machine}
<1>1. legible # {} /\ Comparison(v.profile, records, legible) = {}
  <2>1. ProfileIssues(m, v) =
          (IF Illegible(ref) THEN {Wrong(m.stem, "illegible record")} ELSE {}) \cup
          (IF legible = {} THEN {Odd(m.stem, "unmeasured")}
           ELSE {Odd(m.stem, x) : x \in Comparison(v.profile, records, legible)})
    BY Zenon DEF ProfileIssues, When
  <2> HIDE DEF ref, records, legible
  <2> QED BY <2>1
<1>2. legible \in SUBSET Nat
  <2>1. CASE ref \in DOMAIN tree.records
    <3>1. records \in Seq({records[i] : i \in DOMAIN records})
      BY <2>1, CatalogAssumption DEF CatalogAssumption, IsSequence
    <3>2. DOMAIN records \subseteq Nat
      <4> HIDE DEF records
      <4> QED BY <3>1
    <3>3. legible \subseteq DOMAIN records
      BY <2>1 DEF Measured
    <3> QED BY <3>2, <3>3
  <2>2. CASE ref \notin DOMAIN tree.records
    BY <2>2 DEF Measured
  <2> QED BY <2>1, <2>2
<1> HIDE DEF records, legible
<1>3. CASE own = {}
  <2>1. Comparison(v.profile, records, legible) =
          IF \A i \in legible : ~Agrees(v.profile, records[i]) THEN {"diverges"} ELSE {}
    BY <1>3, Zenon DEF Comparison, When
  <2>2. \E i \in legible : Agrees(v.profile, records[i])
    BY <1>1, <2>1
  <2> QED BY <1>3, <2>2 DEF records, legible
<1>4. CASE own # {}
  <2>1. Min(own) \in own
    <3>1. own \in SUBSET Nat
      BY <1>2
    <3> HIDE DEF own
    <3> QED BY <1>4, <3>1, MinIs
  <2>2. When(~Agrees(v.profile, records[Min(own)]), "diverges") \subseteq Comparison(v.profile, records, legible)
    <3> DEFINE r == records[Min(own)]
    <3>1. Comparison(v.profile, records, legible) =
            When(~Agrees(v.profile, r), "diverges")
             \cup When(Unsaid \notin {v.profile.harness, r.harness} /\ v.profile.harness # r.harness, "harness")
      BY <1>4, Zenon DEF Comparison
    <3> HIDE DEF r
    <3>2. When(~Agrees(v.profile, r), "diverges") \subseteq Comparison(v.profile, records, legible)
      BY <3>1
    <3> QED BY <3>2 DEF r
  <2>3. Agrees(v.profile, records[Min(own)])
    BY <1>1, <2>2, Zenon DEF When
  <2> QED BY <1>4, <2>1, <2>3, Zenon DEF records, legible
<1> QED BY <1>3, <1>4

LEMMA Clean ==
  /\ Errors = {} => NoErrors
  /\ issues = {} => NoWarnings
<1>1. ASSUME Errors = {}, NEW at, NEW what, Wrong(at, what) \in issues PROVE FALSE
  BY <1>1, NothingWrong DEF Errors
<1>2. ASSUME issues = {} PROVE NoWarnings
  BY <1>2 DEF NoWarnings
<1> QED BY <1>1, <1>2 DEF NoErrors

(* A variant that nothing is said against. *)
Reliable(m, i, v, c) ==
         /\ m.capability \in DOMAIN contracts /\ ~c.composite
         /\ \A n \in DOMAIN m.variants : m.variants[n].id = v.id => n = i
         /\ v.kind = "huggingface" => v.repo # Unsaid /\ v.revision # Unsaid
         /\ m.status = "active" => v.revision # Zeros /\ (v.custom => v.entrypoint)
         /\ c.params # <<>> => DOMAIN v.defaults \subseteq DOMAIN c.params
         /\ \A n \in DOMAIN v.defaults : n \in DOMAIN c.params => v.defaults[n] \in c.params[n]
         /\ v.options \cap DOMAIN c.params = {}
         /\ v.profile # Unsaid => ProfileIssues(m, v) \subseteq issues
         /\ v.tier # "absent" /\ v.env \notin tree.envs => Odd(m.stem, "no environment") \in issues

LEMMA VariantSound ==
  ASSUME NoErrors, NEW m, IsSequence(m.variants), NEW i \in DOMAIN m.variants, ModelIssues(m) \subseteq issues
  PROVE  Reliable(m, i, m.variants[i], contracts[m.capability])
<1> DEFINE v == m.variants[i]
           c == contracts[m.capability]
<1>v. v = m.variants[i] /\ c = contracts[m.capability]
  OBVIOUS
<1> HIDE DEF v, c
<1>1. /\ When(m.capability \notin DOMAIN contracts, Wrong(m.stem, "no contract")) \subseteq issues
      /\ When(m.capability \in DOMAIN contracts /\ contracts[m.capability].composite, Wrong(m.stem, "composite")) \subseteq issues
      /\ \A n \in DOMAIN m.variants : VariantIssues(m, n) \subseteq issues
  BY Zenon DEF ModelIssues
<1>2. m.capability \in DOMAIN contracts
  BY <1>1, Zenon DEF When, NoErrors
<1>3. ~c.composite
  BY <1>1, <1>2, Zenon DEF When, NoErrors, c
<1>4. /\ RevisionIssues(m, v) \subseteq issues
      /\ v.kind = "huggingface" /\ v.repo = Unsaid => Wrong(m.stem, "no repository") \in issues
      /\ v.custom /\ ~v.entrypoint => Active(m, "no entry point") \in issues
      /\ DefaultIssues(m, c, v) \subseteq issues /\ OptionIssues(m, c, v) \subseteq issues
      /\ v.profile # Unsaid => ProfileIssues(m, v) \subseteq issues
      /\ v.tier # "absent" /\ v.env \notin tree.envs => Odd(m.stem, "no environment") \in issues
  <2>1. VariantIssues(m, i) \subseteq issues
    BY <1>1
  <2> QED BY <1>2, <1>v, <2>1, SaidOfVariant
<1>5. ASSUME NEW n \in DOMAIN m.variants, m.variants[n].id = v.id PROVE n = i
  <2>1. DOMAIN m.variants \subseteq Nat /\ \A x, y \in DOMAIN m.variants : x < y => x \in 1..(y - 1)
    <3>1. PICK s : s = m.variants
      OBVIOUS
    <3>2. s \in Seq({s[x] : x \in DOMAIN s})
      BY <3>1, Zenon DEF IsSequence
    <3>3. DOMAIN s = 1..Len(s) /\ Len(s) \in Nat
      BY <3>2
    <3> QED BY <3>1, <3>3
  <2>2. ASSUME NEW x \in DOMAIN m.variants, NEW y \in 1..(x - 1), m.variants[y].id = m.variants[x].id PROVE FALSE
    <3>1. VariantIssues(m, x) \subseteq issues
      BY <1>1
    <3>2. Wrong(m.stem, "variant twice") \in issues
      BY <2>2, <3>1, SaidOfVariant, Zenon
    <3> QED BY <3>2, Zenon DEF NoErrors
  <2>3. n < i \/ i < n \/ n = i
    BY <2>1
  <2> QED BY <1>5, <1>v, <2>1, <2>2, <2>3
<1>6. v.kind = "huggingface" => v.repo # Unsaid /\ v.revision # Unsaid
  <2>1. v.kind = "huggingface" /\ v.revision = Unsaid => Wrong(m.stem, "no revision") \in issues
    BY <1>4, CatalogAssumption, Zenon DEF RevisionIssues, When, CatalogAssumption
  <2> QED BY <1>4, <2>1, Zenon DEF NoErrors
<1>7. m.status = "active" => v.revision # Zeros /\ (v.custom => v.entrypoint)
  <2>1. m.status = "active" /\ v.revision = Zeros => Wrong(m.stem, "not pinned") \in issues
    BY <1>4, Zenon DEF RevisionIssues, Active
  <2>2. m.status = "active" /\ v.custom /\ ~v.entrypoint => Wrong(m.stem, "no entry point") \in issues
    BY <1>4, Zenon DEF Active
  <2> QED BY <2>1, <2>2, Zenon DEF NoErrors
<1>8. /\ c.params # <<>> => DOMAIN v.defaults \subseteq DOMAIN c.params
      /\ \A n \in DOMAIN v.defaults : n \in DOMAIN c.params => v.defaults[n] \in c.params[n]
  <2>1. CASE c.params = <<>>
    <3>1. DOMAIN c.params = {}
      BY <2>1, NothingHere, Zenon
    <3> QED BY <2>1, <3>1, Zenon
  <2>2. CASE c.params # <<>>
    <3>1. ~ \E n \in DOMAIN v.defaults : n \notin DOMAIN c.params \/ v.defaults[n] \notin c.params[n]
      BY <1>4, <2>2, Zenon DEF DefaultIssues, When, NoErrors
    <3> QED BY <3>1, Zenon
  <2> QED BY <2>1, <2>2
<1>9. v.options \cap DOMAIN c.params = {}
  BY <1>4, Zenon DEF OptionIssues, When, NoErrors
<1>10. Reliable(m, i, v, c)
  BY <1>2, <1>3, <1>4, <1>5, <1>6, <1>7, <1>8, <1>9, Zenon DEF Reliable
<1> QED BY <1>10, Zenon DEF v, c

LEMMA OneIncumbent ==
  ASSUME NoErrors, ModelsRead, IncumbentIssues \subseteq issues,
         NEW k \in DOMAIN models, NEW n \in DOMAIN models,
         models[k].incumbent, models[n].incumbent, models[k].capability = models[n].capability
  PROVE  k = n
<1> SUFFICES ASSUME k # n PROVE FALSE
  OBVIOUS
<1>1. PICK H : H = Holders(models[k].capability)
  OBVIOUS
<1>2. {k, n} \subseteq H
  BY <1>1 DEF Holders
<1>3. IsFiniteSet(H)
  <2>1. H \subseteq DOMAIN models
    BY <1>1 DEF Holders
  <2> QED BY <2>1, FS_Subset, Zenon DEF ModelsRead
<1>4. Cardinality(H) > 1
  BY <1>2, <1>3, TwoOf
<1>5. Wrong(models[k].capability, "several incumbents") \in IncumbentIssues
  <2>1. When(Cardinality(Holders(models[k].capability)) > 1,
             Wrong(models[k].capability, "several incumbents")) \subseteq IncumbentIssues
    BY Zenon DEF IncumbentIssues
  <2> QED BY <1>1, <1>4, <2>1, Zenon DEF When
<1> QED BY <1>5, Zenon DEF NoErrors

LEMMA OneRevision ==
  ASSUME NoWarnings, SharedIssues \subseteq issues,
         NEW k \in DOMAIN models, NEW i \in DOMAIN models[k].variants, NEW v, v = models[k].variants[i],
         NEW n \in DOMAIN models, NEW j \in DOMAIN models[n].variants, NEW w, w = models[n].variants[j],
         v.kind = "huggingface", w.kind = "huggingface", v.repo # Unsaid, v.repo = w.repo
  PROVE  v.revision = w.revision
<1> DEFINE x == [repo |-> v.repo, revision |-> v.revision, ref |-> <<k, v.id>>]
           y == [repo |-> w.repo, revision |-> w.revision, ref |-> <<n, w.id>>]
<1>1. x \in Sources
  BY DEF Sources
<1>2. y \in Sources
  BY DEF Sources
<1>3. x.repo = v.repo /\ x.revision = v.revision /\ y.repo = w.repo /\ y.revision = w.revision
  OBVIOUS
<1> HIDE DEF x, y
<1>4. When(Shared(x, y) /\ x.revision # y.revision, Odd(x.repo, "several revisions")) \subseteq SharedIssues
  <2>1. PICK p : p = <<x, y>>
    OBVIOUS
  <2>2. p \in Sources \X Sources /\ p[1] = x /\ p[2] = y
    BY <1>1, <1>2, <2>1
  <2> QED BY <2>2, Zenon DEF SharedIssues
<1> QED BY <1>3, <1>4, Zenon DEF When, Shared, NoWarnings

LEMMA CatalogKept == CatalogInv => CatalogSound
<1> SUFFICES ASSUME CatalogInv, reading[1] = "done", Errors = {}
             PROVE  /\ {tree.manifests[i] : i \in DOMAIN tree.manifests} = {models[k] : k \in DOMAIN models}
                    /\ {tree.contracts[i] : i \in DOMAIN tree.contracts} = {contracts[k] : k \in DOMAIN contracts}
                    /\ \A k \in DOMAIN contracts : contracts[k].valid /\ (tree.meta = "there" => contracts[k].formed)
                    /\ \A k \in DOMAIN contracts : \A i \in DOMAIN contracts[k].steps :
                         contracts[k].steps[i] \in DOMAIN contracts /\ ~contracts[contracts[k].steps[i]].composite
                    /\ \A k, n \in DOMAIN models :
                         models[k].incumbent /\ models[n].incumbent /\ models[k].capability = models[n].capability => k = n
                    /\ \A x \in AllVariants :
                         LET m == models[x[1]]
                             v == m.variants[x[2]]
                             c == contracts[m.capability]
                         IN  /\ m.capability \in DOMAIN contracts /\ ~c.composite
                             /\ \A i \in DOMAIN m.variants : m.variants[i].id = v.id => i = x[2]
                             /\ v.kind = "huggingface" => v.repo # Unsaid /\ v.revision # Unsaid
                             /\ m.status = "active" => v.revision # Zeros /\ (v.custom => v.entrypoint)
                             /\ c.params # <<>> => DOMAIN v.defaults \subseteq DOMAIN c.params
                             /\ \A n \in DOMAIN v.defaults : n \in DOMAIN c.params => v.defaults[n] \in c.params[n]
                             /\ v.options \cap DOMAIN c.params = {}
                             /\ issues = {} =>
                                  /\ v.profile # Unsaid =>
                                       LET records == tree.records[<<m.id, v.id>>]
                                           legible == Measured(<<m.id, v.id>>)
                                           own == {i \in legible : records[i].machine = v.profile.machine}
                                       IN  \E i \in IF own = {} THEN legible ELSE own : Agrees(v.profile, records[i])
                                  /\ \A y \in AllVariants :
                                       LET w == models[y[1]].variants[y[2]]
                                       IN  v.kind = "huggingface" /\ w.kind = "huggingface" /\ v.repo = w.repo
                                             => v.revision = w.revision
                                  /\ v.tier # "absent" => v.env \in tree.envs
  BY Zenon DEF CatalogSound
<1>1. tree \in Trees /\ ModelsRead /\ NoErrors /\ ContractsKept /\ ModelsKept /\ ModelsSaid
  BY Clean DEF CatalogInv, ReadingPlace
<1>2. \A k \in DOMAIN contracts : StepIssues(contracts[k]) \subseteq issues
  BY DEF CatalogInv, StepsSaid
<1>3. SharedIssues \subseteq issues /\ IncumbentIssues \subseteq issues
  BY DEF CatalogInv, EndSaid
<1>4. ContractsRead = DOMAIN tree.contracts /\ ManifestsRead = DOMAIN tree.manifests
  BY DEF ContractsRead, ManifestsRead
<1>5. {tree.manifests[i] : i \in DOMAIN tree.manifests} = {models[k] : k \in DOMAIN models}
  <2>1. \A i \in DOMAIN tree.manifests : \E k \in DOMAIN models : tree.manifests[i] = models[k]
    BY <1>1, <1>4, Zenon DEF ModelsKept
  <2>2. \A k \in DOMAIN models : \E i \in DOMAIN tree.manifests : models[k] = tree.manifests[i]
    BY <1>1, <1>4, Zenon DEF ModelsRead
  <2> QED BY <2>1, <2>2
<1>6. {tree.contracts[i] : i \in DOMAIN tree.contracts} = {contracts[k] : k \in DOMAIN contracts}
  <2>1. \A i \in DOMAIN tree.contracts : \E k \in DOMAIN contracts : tree.contracts[i] = contracts[k]
    BY <1>1, <1>4, Zenon DEF ContractsKept
  <2>2. \A k \in DOMAIN contracts : \E i \in DOMAIN tree.contracts : contracts[k] = tree.contracts[i]
    BY <1>1, <1>4, Zenon DEF ContractsKept
  <2> QED BY <2>1, <2>2
<1>7. ASSUME NEW k \in DOMAIN contracts, NEW i \in DOMAIN contracts[k].steps
      PROVE  contracts[k].steps[i] \in DOMAIN contracts /\ ~contracts[contracts[k].steps[i]].composite
  <2>1. PICK c : c = contracts[k]
    OBVIOUS
  <2>2. /\ When(c.steps[i] \notin DOMAIN contracts, Wrong(c.id, "unknown step")) \subseteq issues
        /\ When(c.steps[i] \in DOMAIN contracts /\ contracts[c.steps[i]].composite, Wrong(c.id, "composite step")) \subseteq issues
    <3>1. StepIssues(c) \subseteq issues /\ i \in DOMAIN c.steps
      BY <1>2, <1>7, <2>1
    <3>2. PICK w : w = When(c.steps[i] \notin DOMAIN contracts, Wrong(c.id, "unknown step"))
                         \cup When(c.steps[i] \in DOMAIN contracts /\ contracts[c.steps[i]].composite,
                                   Wrong(c.id, "composite step"))
      OBVIOUS
    <3>3. w \subseteq StepIssues(c)
      BY <3>1, <3>2 DEF StepIssues
    <3> QED BY <3>1, <3>2, <3>3
  <2>3. c.steps[i] \in DOMAIN contracts
    BY <1>1, <2>2, Zenon DEF When, NoErrors
  <2>4. ~contracts[c.steps[i]].composite
    BY <1>1, <2>2, <2>3, Zenon DEF When, NoErrors
  <2> QED BY <2>1, <2>3, <2>4
<1>8. ASSUME NEW k \in DOMAIN models, NEW n \in DOMAIN models,
             models[k].incumbent, models[n].incumbent, models[k].capability = models[n].capability
      PROVE  k = n
  BY <1>1, <1>3, <1>8, OneIncumbent
<1>9. ASSUME NEW x \in AllVariants
      PROVE  LET m == models[x[1]]
                 v == m.variants[x[2]]
                 c == contracts[m.capability]
             IN
             /\ m.capability \in DOMAIN contracts /\ ~c.composite
             /\ \A i \in DOMAIN m.variants : m.variants[i].id = v.id => i = x[2]
             /\ v.kind = "huggingface" => v.repo # Unsaid /\ v.revision # Unsaid
             /\ m.status = "active" => v.revision # Zeros /\ (v.custom => v.entrypoint)
             /\ c.params # <<>> => DOMAIN v.defaults \subseteq DOMAIN c.params
             /\ \A n \in DOMAIN v.defaults : n \in DOMAIN c.params => v.defaults[n] \in c.params[n]
             /\ v.options \cap DOMAIN c.params = {}
             /\ issues = {} =>
                  /\ v.profile # Unsaid =>
                       LET records == tree.records[<<m.id, v.id>>]
                           legible == Measured(<<m.id, v.id>>)
                           own == {i \in legible : records[i].machine = v.profile.machine}
                       IN  \E i \in IF own = {} THEN legible ELSE own : Agrees(v.profile, records[i])
                  /\ \A y \in AllVariants :
                       LET w == models[y[1]].variants[y[2]]
                       IN  v.kind = "huggingface" /\ w.kind = "huggingface" /\ v.repo = w.repo
                             => v.revision = w.revision
                  /\ v.tier # "absent" => v.env \in tree.envs
  <2> DEFINE m == models[x[1]]
             v == m.variants[x[2]]
             c == contracts[m.capability]
  <2>0. PICK k \in DOMAIN models : \E i \in DOMAIN models[k].variants : x = <<k, i>>
    BY Zenon DEF AllVariants
  <2>1. PICK i \in DOMAIN models[k].variants : x = <<k, i>>
    BY <2>0
  <2>2. x[1] = k /\ x[2] = i
    BY <2>1
  <2>3. m = models[k] /\ i \in DOMAIN m.variants /\ v = m.variants[i] /\ IsSequence(m.variants)
        /\ ModelIssues(m) \subseteq issues
    BY <1>1, <2>1, <2>2, Zenon DEF ModelsRead, ModelsSaid
  <2>c. c = contracts[m.capability]
    OBVIOUS
  <2> HIDE DEF m, v, c
  <2>4. /\ m.capability \in DOMAIN contracts /\ ~c.composite
        /\ \A n \in DOMAIN m.variants : m.variants[n].id = v.id => n = i
        /\ v.kind = "huggingface" => v.repo # Unsaid /\ v.revision # Unsaid
        /\ m.status = "active" => v.revision # Zeros /\ (v.custom => v.entrypoint)
        /\ c.params # <<>> => DOMAIN v.defaults \subseteq DOMAIN c.params
        /\ \A n \in DOMAIN v.defaults : n \in DOMAIN c.params => v.defaults[n] \in c.params[n]
        /\ v.options \cap DOMAIN c.params = {}
        /\ v.profile # Unsaid => ProfileIssues(m, v) \subseteq issues
        /\ v.tier # "absent" /\ v.env \notin tree.envs => Odd(m.stem, "no environment") \in issues
    <3>1. Reliable(m, i, v, c)
      BY <1>1, <2>3, <2>c, VariantSound
    <3> QED BY <3>1, Zenon DEF Reliable
  <2>5. ASSUME issues = {}, v.profile # Unsaid
        PROVE  LET records == tree.records[<<m.id, v.id>>]
                   legible == Measured(<<m.id, v.id>>)
                   own == {j \in legible : records[j].machine = v.profile.machine}
               IN  \E j \in IF own = {} THEN legible ELSE own : Agrees(v.profile, records[j])
    <3>1. ProfileIssues(m, v) = {}
      BY <2>4, <2>5
    <3> QED BY <1>1, <2>5, <3>1, ProfileSound, Zenon
  <2>6. ASSUME issues = {}, NEW y \in AllVariants, NEW w, w = models[y[1]].variants[y[2]],
               v.kind = "huggingface" /\ w.kind = "huggingface" /\ v.repo = w.repo
        PROVE  v.revision = w.revision
    <3>0. PICK n \in DOMAIN models : \E j \in DOMAIN models[n].variants : y = <<n, j>>
      BY <2>6, Zenon DEF AllVariants
    <3>1. PICK j \in DOMAIN models[n].variants : y = <<n, j>>
      BY <3>0
    <3>2. y[1] = n /\ y[2] = j
      BY <3>1
    <3>3. w = models[n].variants[j] /\ v = models[k].variants[i] /\ v.repo # Unsaid
      BY <2>3, <2>4, <2>6, <3>2, Zenon
    <3>4. NoWarnings
      BY <2>6, Clean
    <3> QED BY <1>3, <2>1, <2>6, <3>1, <3>3, <3>4, OneRevision
  <2>7. ASSUME issues = {}, v.tier # "absent" PROVE v.env \in tree.envs
    BY <2>4, <2>7, Clean, Zenon DEF NoWarnings
  <2>8. \A n \in DOMAIN m.variants : m.variants[n].id = v.id => n = x[2]
    BY <2>2, <2>4, Zenon
  <2>9. ASSUME issues = {}, NEW y \in AllVariants
        PROVE  LET w == models[y[1]].variants[y[2]]
               IN  v.kind = "huggingface" /\ w.kind = "huggingface" /\ v.repo = w.repo
                     => v.revision = w.revision
    BY <2>6, <2>9, Zenon
  <2> QED BY <2>4, <2>5, <2>7, <2>8, <2>9, Zenon DEF m, v, c
<1>10. \A k \in DOMAIN contracts : contracts[k].valid /\ (tree.meta = "there" => contracts[k].formed)
  BY <1>1 DEF ContractsKept
<1> QED BY <1>5, <1>6, <1>7, <1>8, <1>9, <1>10, Zenon

(* Whatever the files say, of a catalogue that is read to its end without   *)
(* an error (load_registry, load_capabilities): every contract and every    *)
(* manifest is in it; a contract is valid, formed as the schema of          *)
(* contracts wants where that one is legible, and chains known capabilities *)
(* that chain none; the capability of a model is known and chains none, and *)
(* has at most one incumbent; a reference names one variant; a variant of   *)
(* Hugging Face names its repository and a revision, which where the model  *)
(* is active is none that only holds a place; its defaults and its options  *)
(* agree with the contract.  And when there is no warning either: a profile *)
(* agrees with a record of its machine, or of some machine when there is    *)
(* none of its own; a main repository has one revision; what is on a disk   *)
(* has an environment.                                                      *)
THEOREM CatalogIsSound == CatalogSpec => []CatalogSound
<1>1. CatalogSpec => []CatalogInv
  BY CatalogStarts, CatalogSteps, PTL DEF CatalogSpec
<1> QED BY <1>1, CatalogKept, PTL

-----------------------------------------------------------------------------
(* The assistant.  What it was told holds until it is told otherwise: the   *)
(* tools are among those kept, the lines and the variants that serve are of *)
(* this situation and this session; and a response is made of them.         *)

LEMMA FirstIsFirst ==
  ASSUME NEW w, NEW S \in SUBSET Nat, S # {}
  PROVE  FirstServed(w, S) \in S /\ \A k \in S : RanksBefore(w, FirstServed(w, S), k)
<1>1. \A i \in S : Rank(w.variants[i]) \in Nat
  BY DEF Rank
<1>2. PICK ranks : ranks = {Rank(w.variants[i]) : i \in S}
  OBVIOUS
<1>3. ranks \in SUBSET Nat /\ ranks # {}
  BY <1>1, <1>2
<1>4. PICK m \in ranks : \A n \in ranks : m <= n
  BY <1>3, LeastIn
<1>5. PICK T : T = {i \in S : Rank(w.variants[i]) = m}
  OBVIOUS
<1>6. T \in SUBSET Nat /\ T # {}
  BY <1>2, <1>4, <1>5
<1>7. PICK i \in T : \A k \in T : i <= k
  BY <1>6, LeastIn
<1>8. i \in S /\ \A k \in S : RanksBefore(w, i, k)
  <2>1. i \in S /\ Rank(w.variants[i]) = m
    BY <1>5, <1>7
  <2>2. ASSUME NEW k \in S PROVE RanksBefore(w, i, k)
    <3>1. m <= Rank(w.variants[k]) /\ m \in Nat
      BY <1>2, <1>3, <1>4
    <3>2. CASE Rank(w.variants[k]) = m
      <4>1. i <= k
        BY <1>5, <1>7, <3>2
      <4> QED BY <2>1, <3>2, <4>1 DEF RanksBefore
    <3>3. CASE Rank(w.variants[k]) # m
      <4>1. m < Rank(w.variants[k])
        <5>1. Rank(w.variants[k]) \in Nat
          BY <1>1
        <5> QED BY <3>1, <3>3, <5>1
      <4> QED BY <2>1, <4>1 DEF RanksBefore
    <3> QED BY <3>2, <3>3
  <2> QED BY <2>1, <2>2
<1> QED BY <1>8, Zenon DEF FirstServed

(* What serves is ready, and passes over no incumbent that is.             *)
LEMMA ServesIs ==
  ASSUME NEW w \in Situations, NEW c, Serves(w, c) # Unsaid
  PROVE  \E i \in VariantsOf(w, c) :
           /\ w.variants[i].ref = Serves(w, c) /\ w.variants[i].ready
           /\ ~w.variants[i].incumbent =>
                \A k \in VariantsOf(w, c) : w.variants[k].incumbent => ~w.variants[k].ready
<1>1. PICK ready : ready = {i \in VariantsOf(w, c) : w.variants[i].ready}
  OBVIOUS
<1>2. ready # {} /\ Serves(w, c) = w.variants[FirstServed(w, ready)].ref
  BY <1>1, Zenon DEF Serves
<1>3. ready \in SUBSET Nat
  <2>1. IsSequence(w.variants)
    BY AssistantAssumption DEF AssistantAssumption
  <2>2. PICK s : s = w.variants
    OBVIOUS
  <2>3. s \in Seq({s[x] : x \in DOMAIN s})
    BY <2>1, <2>2, Zenon DEF IsSequence
  <2>4. DOMAIN s \subseteq Nat
    BY <2>3
  <2> QED BY <1>1, <2>2, <2>4 DEF VariantsOf
<1>4. PICK i : i = FirstServed(w, ready)
  OBVIOUS
<1>5. i \in ready /\ \A k \in ready : RanksBefore(w, i, k)
  BY <1>2, <1>3, <1>4, FirstIsFirst
<1>6. ASSUME ~w.variants[i].incumbent, NEW k \in ready, w.variants[k].incumbent PROVE FALSE
  <2>1. Rank(w.variants[i]) \in {2, 3} /\ Rank(w.variants[k]) \in {0, 1}
    BY <1>6 DEF Rank
  <2> QED BY <1>5, <2>1 DEF RanksBefore
<1> QED BY <1>1, <1>2, <1>4, <1>5, <1>6, Zenon

Answers == {"unknown", "invalid", "not ready", "ran"}

Executed(c, legal, imposed, a) ==
         /\ a.what \in Answers
         /\ a.what = "ran" => /\ c \in DOMAIN situation.contracts /\ legal
                              /\ a.ref = Chosen(c, imposed) /\ Chosen(c, imposed) # Unsaid
         /\ c \in DOMAIN situation.contracts /\ legal /\ Chosen(c, imposed) # Unsaid => a.what = "ran"

LEMMA ExecuteIs ==
  ASSUME NEW c, NEW legal, NEW imposed
  PROVE  Executed(c, legal, imposed, Execute(c, legal, imposed))
BY DEF Executed, Execute, Answers

(* What RunTool and Call answer, by either door.                           *)
Reply(via, c, legal, imposed) ==
  IF via = "run"
  THEN IF c \in DOMAIN situation.contracts /\ c \notin Open(situation, opened)
       THEN [what |-> "excluded", ref |-> Unsaid, family |-> FamilyOf(c)]
       ELSE Execute(c, legal, imposed)
  ELSE IF c \in DOMAIN kept THEN Execute(c, legal, imposed)
       ELSE [what |-> "no tool", ref |-> Unsaid, family |-> Unsaid]

Executes(via, c) ==
  IF via = "run" THEN ~(c \in DOMAIN situation.contracts /\ c \notin Open(situation, opened))
  ELSE c \in DOMAIN kept

Replied(via, c, legal, imposed, a) ==
         /\ a.what = "ran" => /\ c \in DOMAIN situation.contracts /\ legal
                              /\ a.ref = Chosen(c, imposed) /\ Chosen(c, imposed) # Unsaid
         /\ Executes(via, c) /\ c \in DOMAIN situation.contracts /\ legal /\ Chosen(c, imposed) # Unsaid => a.what = "ran"
         /\ a.what = "no tool" => via = "tool" /\ c \notin DOMAIN kept
         /\ a.what = "excluded" <=> via = "run" /\ c \in DOMAIN situation.contracts /\ c \notin Open(situation, opened)
         /\ a.what = "excluded" => a.family = FamilyOf(c)

LEMMA ReplyIs ==
  ASSUME NEW via \in {"run", "tool"}, NEW c, NEW legal, NEW imposed
  PROVE  Replied(via, c, legal, imposed, Reply(via, c, legal, imposed))
<1>1. CASE Executes(via, c)
  <2>1. Reply(via, c, legal, imposed) = Execute(c, legal, imposed)
    BY <1>1, Zenon DEF Reply, Executes
  <2>2. via = "tool" => c \in DOMAIN kept
    BY <1>1 DEF Executes
  <2>3. via = "run" => ~(c \in DOMAIN situation.contracts /\ c \notin Open(situation, opened))
    BY <1>1 DEF Executes
  <2>4. ASSUME NEW a, Executed(c, legal, imposed, a) PROVE Replied(via, c, legal, imposed, a)
    <3>1. /\ a.what \in Answers
          /\ a.what = "ran" => /\ c \in DOMAIN situation.contracts /\ legal
                               /\ a.ref = Chosen(c, imposed) /\ Chosen(c, imposed) # Unsaid
          /\ c \in DOMAIN situation.contracts /\ legal /\ Chosen(c, imposed) # Unsaid => a.what = "ran"
      BY <2>4, Zenon DEF Executed
    <3>2. a.what # "excluded" /\ a.what # "no tool"
      BY <3>1 DEF Answers
    <3> QED BY <1>1, <2>2, <2>3, <3>1, <3>2, Zenon DEF Replied
  <2> QED BY <2>1, <2>4, ExecuteIs
<1>2. CASE ~Executes(via, c) /\ via = "run"
  <2>1. /\ c \in DOMAIN situation.contracts /\ c \notin Open(situation, opened)
        /\ Reply(via, c, legal, imposed) = [what |-> "excluded", ref |-> Unsaid, family |-> FamilyOf(c)]
    BY <1>2, Zenon DEF Reply, Executes
  <2>2. Replied(via, c, legal, imposed, [what |-> "excluded", ref |-> Unsaid, family |-> FamilyOf(c)])
    BY <1>2, <2>1 DEF Replied
  <2> QED BY <2>1, <2>2
<1>3. CASE ~Executes(via, c) /\ via = "tool"
  <2>1. via # "run"
    BY <1>3
  <2>2. /\ c \notin DOMAIN kept
        /\ Reply(via, c, legal, imposed) = [what |-> "no tool", ref |-> Unsaid, family |-> Unsaid]
    BY <1>3, <2>1, Zenon DEF Reply, Executes
  <2>3. Replied(via, c, legal, imposed, [what |-> "no tool", ref |-> Unsaid, family |-> Unsaid])
    BY <1>3, <2>1, <2>2 DEF Replied
  <2> QED BY <2>2, <2>3
<1> QED BY <1>1, <1>2, <1>3

LEMMA FamilyOpens ==
  ASSUME NEW c \in DOMAIN situation.contracts
  PROVE  c \in Open(situation, {FamilyOf(c)})
<1>1. CASE \E f \in DOMAIN Families : c \in Families[f]
  <2>1. PICK f : f = FamilyOf(c)
    OBVIOUS
  <2>2. f \in DOMAIN Families /\ c \in Families[f]
    BY <1>1, <2>1, Zenon DEF FamilyOf
  <2>3. f # "all"
    BY <2>2, AssistantAssumption DEF AssistantAssumption
  <2> QED BY <2>1, <2>2, <2>3 DEF Open
<1>2. CASE ~ \E f \in DOMAIN Families : c \in Families[f]
  BY <1>2 DEF FamilyOf, Open
<1> QED BY <1>1, <1>2

ToolsKept == declared # Unsaid => declared \subseteq DOMAIN kept
LinesTrue ==
  lines # Unsaid => \A c \in DOMAIN lines : c \in DOMAIN situation.contracts /\ lines[c] = Line(c)
ServesTrue == \A c \in DOMAIN serves : serves[c] = Serves(situation, c)

AssistantInv ==
  /\ situation \in Situations
  /\ ToolsKept /\ LinesTrue /\ ServesTrue
  /\ PromisesKept

LEMMA AssistantStarts == AssistantInit => AssistantInv
<1> SUFFICES ASSUME AssistantInit PROVE AssistantInv
  OBVIOUS
<1>1. situation \in Situations /\ declared = Unsaid /\ lines = Unsaid /\ serves = <<>> /\ response = NoReply
  BY Zenon DEF AssistantInit
<1>2. DOMAIN serves = {}
  BY <1>1
<1> QED BY <1>1, <1>2, Zenon DEF AssistantInv, ToolsKept, LinesTrue, ServesTrue, PromisesKept

PromiseKept(c, via, legal, imposed, what, ref, family) ==
  LET ran == what = "ran"
      said == lines # Unsaid /\ c \in DOMAIN lines
  IN  /\ via = "tool" /\ declared # Unsaid /\ c \in declared => what # "no tool"
      /\ said /\ via = "run" => (lines[c].excluded <=> what = "excluded")
      /\ said /\ legal /\ imposed = Unsaid /\ lines[c].ready =>
           /\ via = "run" /\ ~lines[c].excluded => ran
           /\ via = "tool" /\ lines[c].tool => ran
      /\ ran /\ imposed = Unsaid /\ c \in DOMAIN serves => ref = serves[c]
      /\ what = "excluded" => c \in Open(situation, {family})
      /\ ran =>
           /\ legal
           /\ imposed \in {Unsaid, ref}
           /\ \E i \in VariantsOf(situation, c) :
                /\ situation.variants[i].ref = ref /\ situation.variants[i].ready
                /\ imposed = Unsaid /\ ~situation.variants[i].incumbent =>
                     \A k \in VariantsOf(situation, c) :
                       situation.variants[k].incumbent => ~situation.variants[k].ready

LEMMA PromisesAre ==
  PromiseKept(response.call, response.via, response.legal, response.imposed, response.what, response.ref, response.family)
    => PromisesKept
BY Zenon DEF PromiseKept, PromisesKept

(* A response to a capability that is told of keeps what was told.         *)
LEMMA ResponseKept ==
  ASSUME AssistantInv, NEW c, NEW via \in {"run", "tool"}, NEW legal, NEW imposed,
         UNCHANGED <<situation, opened, kept, declared, lines, serves>>,
         Responded(via, c, legal, imposed, Reply(via, c, legal, imposed)),
         via = "tool" => imposed = Unsaid
  PROVE  AssistantInv'
<1>0. /\ situation' = situation /\ opened' = opened /\ kept' = kept /\ declared' = declared
      /\ lines' = lines /\ serves' = serves
  OBVIOUS
<1>1. PICK r, a : r = response' /\ a = Reply(via, c, legal, imposed)
  OBVIOUS
<1>2. /\ r.call = c /\ r.via = via /\ r.legal = legal /\ r.imposed = imposed
      /\ r.what = a.what /\ r.ref = a.ref /\ r.family = a.family
  BY <1>1 DEF Responded
<1>3. /\ a.what = "ran" => /\ c \in DOMAIN situation.contracts /\ legal
                           /\ a.ref = Chosen(c, imposed) /\ Chosen(c, imposed) # Unsaid
      /\ Executes(via, c) /\ c \in DOMAIN situation.contracts /\ legal /\ Chosen(c, imposed) # Unsaid => a.what = "ran"
      /\ a.what = "no tool" => via = "tool" /\ c \notin DOMAIN kept
      /\ a.what = "excluded" <=> via = "run" /\ c \in DOMAIN situation.contracts /\ c \notin Open(situation, opened)
      /\ a.what = "excluded" => a.family = FamilyOf(c)
  <2>1. Replied(via, c, legal, imposed, a)
    BY <1>1, ReplyIs
  <2> QED BY <2>1, Zenon DEF Replied
<1>6. ASSUME lines # Unsaid, c \in DOMAIN lines
      PROVE  /\ c \in DOMAIN situation.contracts
             /\ lines[c].ready <=> Serves(situation, c) # Unsaid
             /\ lines[c].tool => c \in DOMAIN kept
             /\ lines[c].excluded <=> c \notin Open(situation, opened)
  <2>1. c \in DOMAIN situation.contracts /\ lines[c] = Line(c)
    BY <1>6 DEF AssistantInv, LinesTrue
  <2>2. /\ Line(c).ready = (Serves(situation, c) # Unsaid)
        /\ Line(c).tool = (c \in DOMAIN kept /\ kept[c] # Unsaid)
        /\ Line(c).excluded = (c \notin Open(situation, opened))
    BY DEF Line
  <2> QED BY <2>1, <2>2, Zenon
<1>7. via = "tool" /\ declared # Unsaid /\ c \in declared => a.what # "no tool"
  BY <1>3 DEF AssistantInv, ToolsKept
<1>8. ASSUME lines # Unsaid, c \in DOMAIN lines, via = "run"
      PROVE  lines[c].excluded <=> a.what = "excluded"
  BY <1>3, <1>6, <1>8, Zenon
<1>9. ASSUME lines # Unsaid, c \in DOMAIN lines, legal, imposed = Unsaid, lines[c].ready
      PROVE  /\ via = "run" /\ ~lines[c].excluded => a.what = "ran"
             /\ via = "tool" /\ lines[c].tool => a.what = "ran"
  <2>1. Chosen(c, imposed) # Unsaid /\ c \in DOMAIN situation.contracts
    BY <1>6, <1>9, Zenon DEF Chosen
  <2>2. ASSUME via = "run", ~lines[c].excluded PROVE Executes(via, c)
    BY <1>6, <1>9, <2>2, Zenon DEF Executes
  <2>3. ASSUME via = "tool", lines[c].tool PROVE Executes(via, c)
    <3>1. c \in DOMAIN kept /\ via # "run"
      BY <1>6, <1>9, <2>3
    <3> QED BY <3>1, Zenon DEF Executes
  <2> QED BY <1>3, <1>9, <2>1, <2>2, <2>3, Zenon
<1>10. ASSUME a.what = "ran", imposed = Unsaid, c \in DOMAIN serves PROVE a.ref = serves[c]
  BY <1>3, <1>10, Zenon DEF AssistantInv, ServesTrue, Chosen
<1>11. ASSUME a.what = "excluded" PROVE c \in Open(situation, {a.family})
  BY <1>3, <1>11, FamilyOpens
<1>12. ASSUME a.what = "ran"
       PROVE  /\ legal /\ imposed \in {Unsaid, a.ref}
              /\ \E i \in VariantsOf(situation, c) :
                   /\ situation.variants[i].ref = a.ref /\ situation.variants[i].ready
                   /\ imposed = Unsaid /\ ~situation.variants[i].incumbent =>
                        \A k \in VariantsOf(situation, c) :
                          situation.variants[k].incumbent => ~situation.variants[k].ready
  <2>1. CASE imposed = Unsaid
    <3>1. a.ref = Serves(situation, c) /\ Serves(situation, c) # Unsaid /\ legal
      BY <1>3, <1>12, <2>1 DEF Chosen
    <3>2. situation \in Situations
      BY DEF AssistantInv
    <3> QED BY <2>1, <3>1, <3>2, ServesIs, Zenon
  <2>2. CASE imposed # Unsaid
    <3>1. a.ref = Chosen(c, imposed) /\ Chosen(c, imposed) # Unsaid /\ legal
      BY <1>3, <1>12
    <3>2. /\ \E i \in VariantsOf(situation, c) : situation.variants[i].ref = imposed /\ situation.variants[i].ready
          /\ Chosen(c, imposed) = imposed
      BY <2>2, <3>1, Zenon DEF Chosen
    <3> QED BY <2>2, <3>1, <3>2, Zenon
  <2> QED BY <2>1, <2>2
<1>13. PromisesKept'
  <2>1. PromiseKept(c, via, legal, imposed, a.what, a.ref, a.family)
    BY <1>7, <1>8, <1>9, <1>10, <1>11, <1>12, Zenon DEF PromiseKept
  <2>2. PromiseKept(c, via, legal, imposed, a.what, a.ref, a.family)'
    BY <1>0, <2>1 DEF PromiseKept
  <2>3. /\ PromiseKept(response.call, response.via, response.legal, response.imposed, response.what, response.ref, response.family)'
          = PromiseKept(r.call, r.via, r.legal, r.imposed, r.what, r.ref, r.family)'
    BY <1>1 DEF PromiseKept
  <2>4. PromiseKept(r.call, r.via, r.legal, r.imposed, r.what, r.ref, r.family)'
          = PromiseKept(c, via, legal, imposed, a.what, a.ref, a.family)'
    BY <1>2
  <2>5. PromiseKept(response.call, response.via, response.legal, response.imposed, response.what, response.ref, response.family)'
    BY <2>2, <2>3, <2>4
  <2> QED BY <2>5, PromisesAre, PTL
<1>14. (ToolsKept /\ ServesTrue)'
  BY <1>0 DEF AssistantInv, ToolsKept, ServesTrue
<1>15. LinesTrue'
  BY <1>0 DEF AssistantInv, LinesTrue, Line
<1> QED BY <1>0, <1>13, <1>14, <1>15 DEF AssistantInv
LEMMA AssistantSteps == AssistantInv /\ [AssistantNext]_assistantVars => AssistantInv'
<1> SUFFICES ASSUME AssistantInv, [AssistantNext]_assistantVars PROVE AssistantInv'
  OBVIOUS
<1>s. (response = NoReply => PromisesKept) /\ (response' = NoReply => PromisesKept')
  BY Zenon DEF PromisesKept
<1>n. DOMAIN <<>> = {}
  OBVIOUS
<1>1. CASE Change
  <2>1. situation' \in Situations /\ lines' = Unsaid /\ serves' = <<>> /\ response' = NoReply
        /\ kept' = kept /\ declared' = declared
    BY <1>1, Zenon DEF Change
  <2>2. DOMAIN serves' = {}
    BY <1>n, <2>1, Zenon
  <2> QED BY <1>s, <2>1, <2>2, Zenon DEF AssistantInv, ToolsKept, LinesTrue, ServesTrue
<1>2. CASE Restart
  <2>1. situation' = situation /\ lines' = Unsaid /\ serves' = <<>> /\ response' = NoReply /\ declared' = Unsaid
    BY <1>2, Zenon DEF Restart
  <2>2. DOMAIN serves' = {}
    BY <1>n, <2>1, Zenon
  <2> QED BY <1>s, <2>1, <2>2, Zenon DEF AssistantInv, ToolsKept, LinesTrue, ServesTrue
<1>3. CASE Hear
  <2>1. situation' = situation /\ lines' = lines /\ serves' = serves /\ response' = NoReply /\ declared' = declared
        /\ kept' = kept /\ opened' = opened
    BY <1>3, Zenon DEF Hear
  <2> QED BY <1>s, <2>1 DEF AssistantInv, ToolsKept, LinesTrue, ServesTrue, Line
<1>4. CASE Declare
  <2>1. situation' = situation /\ lines' = lines /\ serves' = serves /\ response' = NoReply
        /\ kept' = kept /\ opened' = opened /\ declared' \subseteq DOMAIN kept
    BY <1>4 DEF Declare, NothingSaid
  <2> QED BY <1>s, <2>1 DEF AssistantInv, ToolsKept, LinesTrue, ServesTrue, Line
<1>5. ASSUME NEW readyOnly \in BOOLEAN, List(readyOnly) PROVE AssistantInv'
  <2>1. situation' = situation /\ serves' = serves /\ response' = NoReply
        /\ kept' = kept /\ opened' = opened /\ declared' = declared
    BY <1>5, Zenon DEF List, NothingSaid
  <2>2. LinesTrue'
    <3>1. lines' = [c \in {x \in DOMAIN situation.contracts : readyOnly => Serves(situation, x) # Unsaid} |-> Line(c)]
      BY <1>5, Zenon DEF List
    <3>2. \A c \in DOMAIN lines' : c \in DOMAIN situation.contracts /\ lines'[c] = Line(c)
      BY <3>1
    <3>3. \A c : Line(c)' = Line(c)
      BY <2>1 DEF Line
    <3> QED BY <2>1, <3>2, <3>3 DEF LinesTrue
  <2> QED BY <1>s, <2>1, <2>2 DEF AssistantInv, ToolsKept, ServesTrue
<1>6. ASSUME NEW c \in Capabilities, Detail(c) PROVE AssistantInv'
  <2>1. situation' = situation /\ lines' = lines /\ response' = NoReply
        /\ kept' = kept /\ opened' = opened /\ declared' = declared
    BY <1>6, Zenon DEF Detail, NothingSaid
  <2>2. ServesTrue'
    <3>1. serves' = [x \in DOMAIN serves \cup {c} |-> IF x = c THEN Serves(situation, c) ELSE serves[x]]
      BY <1>6, Zenon DEF Detail
    <3>2. \A x \in DOMAIN serves' : serves'[x] = Serves(situation, x)
      BY <3>1 DEF AssistantInv, ServesTrue
    <3> QED BY <2>1, <3>2 DEF ServesTrue
  <2> QED BY <1>s, <2>1, <2>2 DEF AssistantInv, ToolsKept, LinesTrue, Line
<1>7. ASSUME NEW c \in Capabilities, NEW legal \in BOOLEAN, Call(c, legal) PROVE AssistantInv'
  <2>1. UNCHANGED <<situation, opened, kept, declared, lines, serves>>
    BY <1>7 DEF Call
  <2>2. Responded("tool", c, legal, Unsaid, Reply("tool", c, legal, Unsaid))
    <3>1. Reply("tool", c, legal, Unsaid) =
            IF c \in DOMAIN kept THEN Execute(c, legal, Unsaid)
            ELSE [what |-> "no tool", ref |-> Unsaid, family |-> Unsaid]
      BY DEF Reply
    <3> QED BY <1>7, <3>1, Zenon DEF Call
  <2> QED BY <2>1, <2>2, ResponseKept
<1>8. ASSUME NEW c \in Capabilities, NEW legal \in BOOLEAN, NEW r \in RefsHere \cup {Unsaid}, RunTool(c, legal, r)
      PROVE  AssistantInv'
  <2>1. UNCHANGED <<situation, opened, kept, declared, lines, serves>>
    BY <1>8 DEF RunTool
  <2>2. Responded("run", c, legal, r, Reply("run", c, legal, r))
    <3>1. Reply("run", c, legal, r) =
            IF c \in DOMAIN situation.contracts /\ c \notin Open(situation, opened)
            THEN [what |-> "excluded", ref |-> Unsaid, family |-> FamilyOf(c)]
            ELSE Execute(c, legal, r)
      BY Zenon DEF Reply
    <3> QED BY <1>8, <3>1, Zenon DEF RunTool
  <2> QED BY <2>1, <2>2, ResponseKept
<1>9. CASE UNCHANGED assistantVars
  <2>1. situation' = situation /\ lines' = lines /\ serves' = serves /\ response' = response /\ declared' = declared
        /\ kept' = kept /\ opened' = opened
    BY <1>9, Zenon DEF assistantVars
  <2>2. PromisesKept' = PromisesKept
    BY <2>1 DEF PromisesKept
  <2> QED BY <2>1, <2>2 DEF AssistantInv, ToolsKept, LinesTrue, ServesTrue, Line
<1> QED BY <1>1, <1>2, <1>3, <1>4, <1>5, <1>6, <1>7, <1>8, <1>9, Zenon DEF AssistantNext

(* What an assistant is told, it may count on until it is told otherwise,  *)
(* for any registry, any disk, any families of capabilities (meta.py,      *)
(* serveur.py, catalogue.py, choix.py).                                    *)
THEOREM AssistantKeepsPromises == AssistantSpec => []PromisesKept
<1>1. AssistantSpec => []AssistantInv
  BY AssistantStarts, AssistantSteps, PTL DEF AssistantSpec
<1>2. AssistantInv => PromisesKept
  BY DEF AssistantInv
<1> QED BY <1>1, <1>2, PTL

-----------------------------------------------------------------------------
(* The commands: what each answers, then what is said of the answer.       *)

CommandNames ==
  {"env sync", "ps", "unload", "run", "bench", "pull", "scan", "status", "verify", "plan", "apply",
   "tier", "empty", "launch", "budget"}

LEMMA AnswerIs ==
  ASSUME NEW i
  PROVE  /\ i.command = "env sync" => CommandAnswer(i) = SyncEnvs(i)
         /\ i.command = "ps" => CommandAnswer(i) = ShowPark(i)
         /\ i.command = "unload" => CommandAnswer(i) = UnloadCommand(i)
         /\ i.command = "run" => CommandAnswer(i) = RunCommand(i)
         /\ i.command = "bench" => CommandAnswer(i) = BenchCommand(i)
         /\ i.command = "pull" => CommandAnswer(i) = PullCommand(i)
         /\ i.command = "scan" => CommandAnswer(i) = ScanCommand(i)
         /\ i.command = "status" => CommandAnswer(i) = StatusCommand(i)
         /\ i.command = "verify" => CommandAnswer(i) = VerifyCommand(i)
         /\ i.command = "plan" => CommandAnswer(i) = PlanCommand(i)
         /\ i.command = "apply" => CommandAnswer(i) = ApplyCommand(i)
         /\ i.command = "tier" => CommandAnswer(i) = TierCommand(i)
         /\ i.command = "empty" => CommandAnswer(i) = EmptyCommand(i)
         /\ i.command = "launch" => CommandAnswer(i) = LaunchWorker(i)
         /\ i.command = "budget" => CommandAnswer(i) = Succeeds({Budgets(i)})
BY DEF CommandAnswer

LEMMA EndsIs ==
  ASSUME NEW code, NEW did
  PROVE  Ends(code, did).code = code /\ Ends(code, did).did = did
BY DEF Ends

LEMMA AlwaysEnds ==
  /\ \A did : Succeeds(did).code = 0 /\ Succeeds(did).did = did
  /\ Fails.code = 1 /\ Fails.did = {} /\ Misused.code = 2 /\ Misused.did = {}
BY DEF Succeeds, Fails, Misused, Ends

LEMMA PlacesOf ==
  ASSUME NEW s, IsSequence(s)
  PROVE  Len(s) \in Nat /\ DOMAIN s = 1..Len(s) /\ (s # <<>> => DOMAIN s # {})
<1>1. s \in Seq({s[x] : x \in DOMAIN s})
  BY Zenon DEF IsSequence
<1> QED BY <1>1

(* Where nothing was raised, everything was done. *)
LEMMA AllDone ==
  ASSUME NEW s, NEW n \in Nat, DOMAIN s = 1..n, ~Raised(s)
  PROVE  UntilRaised(s) = DOMAIN s
BY DEF Raised, UntilRaised, ToSet

(* A misuse does nothing. *)
Idle(a) == a.code = 2 => a.did = {}

LEMMA IdleEnds ==
  /\ \A did : Idle(Succeeds(did)) /\ Idle(Ends(1, did)) /\ Idle(Ends(0, did))
  /\ Idle(Fails) /\ Idle(Misused)
BY DEF Idle, Succeeds, Fails, Misused, Ends

LEMMA IdleWraps ==
  ASSUME NEW i, NEW a, Idle(a)
  PROVE  Idle(Rooted(i, a)) /\ Idle(InContext(i, a)) /\ Idle(OfRegistry(i, a)) /\ Idle(Observing(i, a)) /\ Idle(Agreed(i, a))
BY IdleEnds, Zenon DEF Rooted, InContext, OfRegistry, Observing, Agreed

LEMMA IdleAlways ==
  ASSUME NEW i, i.command \in CommandNames
  PROVE  Idle(CommandAnswer(i))
<1>1. Idle(SyncEnvs(i))
  BY IdleEnds, IdleWraps, Zenon DEF SyncEnvs
<1>2. Idle(ShowPark(i))
  BY IdleEnds, IdleWraps, Zenon DEF ShowPark
<1>3. Idle(UnloadCommand(i))
  BY IdleEnds, IdleWraps, Zenon DEF UnloadCommand
<1>4. Idle(RunCommand(i))
  BY IdleEnds, IdleWraps, Zenon DEF RunCommand
<1>5. Idle(BenchCommand(i))
  BY IdleEnds, IdleWraps, Zenon DEF BenchCommand
<1>6. Idle(PullCommand(i))
  BY IdleEnds, IdleWraps, Zenon DEF PullCommand
<1>7. Idle(ScanCommand(i)) /\ Idle(StatusCommand(i)) /\ Idle(PlanCommand(i))
  BY IdleEnds, IdleWraps, Zenon DEF ScanCommand, StatusCommand, PlanCommand
<1>8. Idle(VerifyCommand(i))
  BY IdleEnds, IdleWraps, Zenon DEF VerifyCommand
<1>9. Idle(ApplyCommand(i))
  BY IdleEnds, IdleWraps, Zenon DEF ApplyCommand
<1>10. Idle(TierCommand(i))
  BY IdleEnds, IdleWraps, Zenon DEF TierCommand
<1>11. Idle(EmptyCommand(i))
  BY IdleEnds, IdleWraps, Zenon DEF EmptyCommand
<1>12. Idle(LaunchWorker(i))
  BY IdleEnds, IdleWraps, Zenon DEF LaunchWorker
<1>13. Idle(Succeeds({Budgets(i)}))
  BY IdleEnds, Zenon
<1> QED BY <1>1, <1>2, <1>3, <1>4, <1>5, <1>6, <1>7, <1>8, <1>9, <1>10, <1>11, <1>12, <1>13, AnswerIs, Zenon DEF CommandNames

(* A command that does something, or succeeds, went through what it begins *)
(* with.                                                                   *)
Passes(x, a) == (x.code = 0 \/ x.did # {}) => x = a

LEMMA PassesWraps ==
  ASSUME NEW i, NEW a
  PROVE  /\ Passes(a, a) /\ Passes(Fails, a) /\ Passes(Misused, a)
         /\ Passes(Rooted(i, a), a) /\ Passes(OfRegistry(i, a), a)
         /\ Passes(Observing(i, a), a) /\ Passes(Agreed(i, a), a)
         /\ Passes(InContext(i, a), a)
<1>1. /\ Passes(a, a) /\ Passes(Fails, a) /\ Passes(Misused, a)
  BY AlwaysEnds DEF Passes
<1>2. /\ Passes(Rooted(i, a), a) /\ Passes(OfRegistry(i, a), a)
      /\ Passes(Observing(i, a), a) /\ Passes(Agreed(i, a), a)
  BY <1>1, Zenon DEF Rooted, OfRegistry, Observing, Agreed
<1>3. Passes(InContext(i, a), a)
  BY <1>1, Zenon DEF InContext, Rooted
<1> QED BY <1>1, <1>2, <1>3

LEMMA AgreedSaid ==
  ASSUME NEW i, NEW a, Agreed(i, a).did # {}
  PROVE  i.dry \/ i.yes \/ i.consents
BY AlwaysEnds, Zenon DEF Agreed

LEMMA TouchesKept ==
  ASSUME NEW i \in Invocations
  PROVE  Touches(i, CommandAnswer(i))
<1> DEFINE a == CommandAnswer(i)
<1>1. i.command \in CommandNames
  BY CommandsAssumption DEF CommandsAssumption, CommandNames
<1>2. a.code = 2 => a.did = {}
  BY <1>1, IdleAlways, Zenon DEF Idle
<1>3. ASSUME i.command = "env sync", i.dry, SyncEnvs(i).did # {} PROVE FALSE
  BY <1>3, AlwaysEnds, Zenon DEF SyncEnvs, Rooted
<1>4. ASSUME i.command = "pull", i.dry, PullCommand(i).did # {} PROVE FALSE
  BY <1>4, AlwaysEnds, Zenon DEF PullCommand, InContext, Rooted, OfRegistry
<1>5. ASSUME i.command = "apply", ApplyCommand(i).did # {} PROVE ~i.dry /\ (i.yes \/ i.consents)
  BY <1>5, AlwaysEnds, Zenon DEF ApplyCommand, Agreed
<1>6. ASSUME i.command = "tier", TierCommand(i).did # {} PROVE ~i.dry /\ (i.yes \/ i.consents)
  BY <1>6, AlwaysEnds, Zenon DEF TierCommand, Agreed, Observing
<1>7. ASSUME i.command = "empty", EmptyCommand(i).did # {} PROVE i.yes \/ i.consents
  <2>1. ~i.dry
    BY <1>7, CommandsAssumption DEF CommandsAssumption
  <2> QED BY <1>7, <2>1, AlwaysEnds, Zenon DEF EmptyCommand, Agreed
<1>8. /\ i.command = "env sync" => a = SyncEnvs(i)
      /\ i.command = "pull" => a = PullCommand(i)
      /\ i.command = "apply" => a = ApplyCommand(i)
      /\ i.command = "tier" => a = TierCommand(i)
      /\ i.command = "empty" => a = EmptyCommand(i)
  BY AnswerIs, Zenon
<1> HIDE DEF a
<1>9. i.command \in {"env sync", "pull", "apply", "tier"} /\ i.dry => a.did = {}
  BY <1>3, <1>4, <1>5, <1>6, <1>8, Zenon
<1>10. i.command \in {"apply", "tier", "empty"} /\ a.did # {} => i.yes \/ i.consents
  BY <1>5, <1>6, <1>7, <1>8, Zenon
<1> QED BY <1>2, <1>9, <1>10, Zenon DEF Touches, a

LEMMA JsonKept ==
  ASSUME NEW i \in Invocations
  PROVE  SameInJson(i, CommandAnswer(i))
<1> SUFFICES ASSUME i.command \in {"run", "bench"}, NEW p, p = [i EXCEPT !.json = FALSE]
             PROVE  /\ CommandAnswer(i).code = CommandAnswer(p).code
                    /\ i.command = "run" /\ i.json => CommandAnswer(i).did = CommandAnswer(p).did \ {"open"}
                    /\ i.command = "bench" /\ ~i.write => CommandAnswer(i).did = CommandAnswer(p).did
  BY Zenon DEF SameInJson
<1>1. /\ {"command", "registry", "ref", "job", "json"} \subseteq DOMAIN i
      /\ i.json \in BOOLEAN
  BY CommandsAssumption DEF CommandsAssumption
<1>2. /\ p.command = i.command /\ p.registry = i.registry /\ p.ref = i.ref /\ p.job = i.job /\ p.json = FALSE
      /\ "parses" \in DOMAIN i => p.parses = i.parses
      /\ "show" \in DOMAIN i => p.show = i.show
      /\ "write" \in DOMAIN i => p.write = i.write
  BY <1>1
<1>3. CASE i.command = "run"
  <2>1. {"parses", "show"} \subseteq DOMAIN i
    BY <1>3, CommandsAssumption DEF CommandsAssumption
  <2>2. CommandAnswer(i) = RunCommand(i) /\ CommandAnswer(p) = RunCommand(p)
    BY <1>2, <1>3, AnswerIs
  <2>3. p.parses = i.parses /\ p.show = i.show
    BY <1>2, <2>1
  <2> DEFINE Runs(q) == IF ~q.parses \/ q.job = "raises" THEN Fails
                        ELSE IF q.job = "fails" THEN Ends(1, {"job"})
                        ELSE Succeeds({"job"} \cup IF q.show /\ ~q.json THEN {"open"} ELSE {})
  <2>5. /\ Runs(i).code = Runs(p).code
        /\ i.json => Runs(i).did = Runs(p).did \ {"open"}
    <3>1. CASE ~i.parses \/ i.job = "raises"
      BY <1>2, <2>3, <3>1, AlwaysEnds
    <3>2. CASE ~(~i.parses \/ i.job = "raises") /\ i.job = "fails"
      BY <1>2, <2>3, <3>2, EndsIs
    <3>3. CASE ~(~i.parses \/ i.job = "raises") /\ i.job # "fails"
      BY <1>2, <2>3, <3>3, AlwaysEnds
    <3> QED BY <3>1, <3>2, <3>3
  <2>6. RunCommand(i) = InContext(i, OfRegistry(i, Runs(i))) /\ RunCommand(p) = InContext(p, OfRegistry(p, Runs(p)))
    BY Zenon DEF RunCommand
  <2> HIDE DEF Runs
  <2>7. /\ CommandAnswer(i).code = CommandAnswer(p).code
        /\ i.json => CommandAnswer(i).did = CommandAnswer(p).did \ {"open"}
    BY <1>2, <2>2, <2>5, <2>6, AlwaysEnds DEF InContext, OfRegistry, Rooted
  <2> QED BY <1>3, <2>7
<1>4. CASE i.command = "bench"
  <2>1. "write" \in DOMAIN i
    BY <1>4, CommandsAssumption DEF CommandsAssumption
  <2>2. CommandAnswer(i) = BenchCommand(i) /\ CommandAnswer(p) = BenchCommand(p)
    BY <1>2, <1>4, AnswerIs
  <2>3. p.write = i.write
    BY <1>2, <2>1
  <2> DEFINE Runs(q) == IF q.job = "raises" THEN Fails
                        ELSE Ends(IF q.job = "works" THEN 0 ELSE 1,
                                  {"bench"} \cup IF q.write /\ ~q.json /\ q.job = "works" THEN {"measure"} ELSE {})
  <2>5. /\ Runs(i).code = Runs(p).code
        /\ ~i.write => Runs(i).did = Runs(p).did
    <3>1. CASE i.job = "raises"
      BY <1>2, <2>3, <3>1, AlwaysEnds
    <3>2. CASE i.job # "raises"
      BY <1>2, <2>3, <3>2, EndsIs
    <3> QED BY <3>1, <3>2
  <2>6. BenchCommand(i) = InContext(i, OfRegistry(i, Runs(i))) /\ BenchCommand(p) = InContext(p, OfRegistry(p, Runs(p)))
    BY Zenon DEF BenchCommand
  <2> HIDE DEF Runs
  <2>7. /\ CommandAnswer(i).code = CommandAnswer(p).code
        /\ ~i.write => CommandAnswer(i).did = CommandAnswer(p).did
    BY <1>2, <2>2, <2>5, <2>6, AlwaysEnds DEF InContext, OfRegistry, Rooted
  <2> QED BY <1>4, <2>7
<1> QED BY <1>3, <1>4

LEMMA RunSucceeds ==
  ASSUME NEW i \in Invocations, i.command \in {"run", "bench"}, CommandAnswer(i).code = 0
  PROVE  i.job = "works"
<1>1. i.job \in {"works", "fails", "raises"}
  BY CommandsAssumption DEF CommandsAssumption
<1>2. CASE i.command = "run"
  <2>1. CommandAnswer(i) = RunCommand(i)
    BY <1>2, AnswerIs
  <2>2. i.job # "raises" /\ i.job # "fails"
    BY <2>1, AlwaysEnds, EndsIs DEF RunCommand, InContext, Rooted, OfRegistry
  <2> QED BY <1>1, <2>2
<1>3. CASE i.command = "bench"
  <2>1. CommandAnswer(i) = BenchCommand(i)
    BY <1>3, AnswerIs
  <2> QED BY <2>1, AlwaysEnds, EndsIs DEF BenchCommand, InContext, Rooted, OfRegistry
<1> QED BY <1>2, <1>3

LEMMA PullSucceeds ==
  ASSUME NEW i \in Invocations, i.command = "pull", ~i.resolve, ~i.dry, CommandAnswer(i).code = 0
  PROVE  \A k \in DOMAIN i.pulls : i.pulls[k] = "there" \/ k \in CommandAnswer(i).did
<1>1. IsSequence(i.pulls) /\ ToSet(i.pulls) \subseteq {"fetches", "there", "raises"}
  BY CommandsAssumption DEF CommandsAssumption
<1>2. PICK made : made = {k \in UntilRaised(i.pulls) : i.pulls[k] = "fetches"}
  OBVIOUS
<1>3. CommandAnswer(i) = Ends(IF Raised(i.pulls) THEN 1 ELSE 0, made)
  <2>1. CommandAnswer(i) = PullCommand(i)
    BY AnswerIs
  <2> QED BY <1>2, <2>1, AlwaysEnds DEF PullCommand, InContext, Rooted, OfRegistry
<1>4. ~Raised(i.pulls) /\ CommandAnswer(i).did = made
  BY <1>3, EndsIs
<1>5. UntilRaised(i.pulls) = DOMAIN i.pulls
  <2>1. PICK n \in Nat : DOMAIN i.pulls = 1..n
    BY <1>1, PlacesOf
  <2> QED BY <1>4, <2>1, AllDone
<1>6. ASSUME NEW k \in DOMAIN i.pulls PROVE i.pulls[k] = "there" \/ i.pulls[k] = "fetches"
  <2>1. i.pulls[k] \in ToSet(i.pulls) /\ "raises" \notin ToSet(i.pulls)
    BY <1>4 DEF ToSet, Raised
  <2> QED BY <1>1, <2>1
<1> QED BY <1>2, <1>4, <1>5, <1>6

LEMMA VerifySucceeds ==
  ASSUME NEW i, i.command = "verify", CommandAnswer(i).code = 0, i.all
  PROVE  ~ \E f \in DOMAIN i.files : ~i.files[f].link /\ i.files[f].read = "differs"
<1>1. CommandAnswer(i) = VerifyCommand(i)
  BY AnswerIs
<1>2. ~(Cardinality(Selectors(i)) > 1)
  BY <1>1, AlwaysEnds DEF VerifyCommand
<1>3. IsFiniteSet(Selectors(i))
  <2>1. IsFiniteSet({"paths", "variant", "all"})
    <3>1. IsFiniteSet({"paths"})
      BY FS_Singleton
    <3>2. IsFiniteSet({"paths"} \cup {"variant"})
      BY <3>1, FS_AddElement
    <3>3. IsFiniteSet(({"paths"} \cup {"variant"}) \cup {"all"})
      BY <3>2, FS_AddElement
    <3>4. ({"paths"} \cup {"variant"}) \cup {"all"} = {"paths", "variant", "all"}
      OBVIOUS
    <3> QED BY <3>3, <3>4
  <2>2. Selectors(i) \subseteq {"paths", "variant", "all"}
    BY DEF Selectors
  <2> QED BY <2>1, <2>2, FS_Subset
<1>4. i.paths = {} /\ i.variant = Unsaid
  <2>1. "all" \in Selectors(i)
    BY DEF Selectors
  <2>2. ASSUME i.paths # {} PROVE FALSE
    <3>1. "paths" \in Selectors(i)
      BY <2>2 DEF Selectors
    <3> QED BY <1>2, <1>3, <2>1, <3>1, TwoOf
  <2>3. ASSUME i.variant # Unsaid PROVE FALSE
    <3>1. "variant" \in Selectors(i)
      BY <2>3 DEF Selectors
    <3> QED BY <1>2, <1>3, <2>1, <3>1, TwoOf
  <2> QED BY <2>2, <2>3
<1>5. VerifyTargets(i) = {f \in DOMAIN i.files : ~i.files[f].link}
  BY <1>4 DEF VerifyTargets
<1>6. PICK T : T = VerifyTargets(i)
  OBVIOUS
<1>7. ~ \E f \in T : i.files[f].read = "differs"
  <2>1. VerifyCommand(i) = Observing(i, Ends(IF \E f \in T : i.files[f].read = "differs" THEN 1 ELSE 0, T))
    BY <1>2, <1>6, Zenon DEF VerifyCommand
  <2>2. Observing(i, Ends(IF \E f \in T : i.files[f].read = "differs" THEN 1 ELSE 0, T)).code = 0
    BY <1>1, <2>1
  <2>3. Ends(IF \E f \in T : i.files[f].read = "differs" THEN 1 ELSE 0, T).code = 0
    BY <2>2, AlwaysEnds DEF Observing
  <2> QED BY <2>3, EndsIs
<1> QED BY <1>5, <1>6, <1>7

LEMMA UnloadSucceeds ==
  ASSUME NEW i, i.command = "unload", CommandAnswer(i).code = 0,
         NEW r \in DOMAIN i.park, i.all \/ i.named = r, i.force \/ r \notin Spared(i)
  PROVE  r \in CommandAnswer(i).did
<1>1. CommandAnswer(i) = UnloadCommand(i)
  BY AnswerIs
<1>2. CASE i.all
  <2>1. CommandAnswer(i) = Succeeds(IF i.force THEN DOMAIN i.park ELSE DOMAIN i.park \ Spared(i))
    BY <1>1, <1>2, AlwaysEnds DEF UnloadCommand, Rooted
  <2>2. CommandAnswer(i).did = IF i.force THEN DOMAIN i.park ELSE DOMAIN i.park \ Spared(i)
    BY <2>1, AlwaysEnds
  <2> QED BY <2>2
<1>3. CASE ~i.all
  <2>1. CommandAnswer(i) = Succeeds({i.named} \cap DOMAIN i.park)
    BY <1>1, <1>3, AlwaysEnds DEF UnloadCommand, Rooted
  <2>2. CommandAnswer(i).did = {i.named} \cap DOMAIN i.park
    BY <2>1, AlwaysEnds
  <2> QED BY <1>3, <2>2
<1> QED BY <1>2, <1>3

LEMMA TierSucceeds ==
  ASSUME NEW i \in Invocations, i.command = "tier", CommandAnswer(i).code = 0, ~i.dry
  PROVE  CommandAnswer(i).did = DOMAIN i.moves /\ CommandAnswer(i).did # {}
<1>1. IsSequence(i.moves)
  BY CommandsAssumption DEF CommandsAssumption
<1>2. CommandAnswer(i) = TierCommand(i)
  BY AnswerIs
<1>3. i.moves # <<>> /\ CommandAnswer(i) = Ends(IF Raised(i.moves) THEN 1 ELSE 0, UntilRaised(i.moves))
  BY <1>2, AlwaysEnds DEF TierCommand, Observing, Agreed
<1>4. ~Raised(i.moves) /\ CommandAnswer(i).did = UntilRaised(i.moves)
  BY <1>3, EndsIs
<1>5. UntilRaised(i.moves) = DOMAIN i.moves
  <2>1. PICK n \in Nat : DOMAIN i.moves = 1..n
    BY <1>1, PlacesOf
  <2> QED BY <1>4, <2>1, AllDone
<1> QED BY <1>1, <1>3, <1>4, <1>5, PlacesOf

LEMMA SuccessesTrue ==
  ASSUME NEW i \in Invocations
  PROVE  TrueSuccess(i, CommandAnswer(i))
<1> SUFFICES ASSUME NEW a, a = CommandAnswer(i), a.code = 0 PROVE TrueSuccess(i, a)
  BY Zenon DEF TrueSuccess
<1>1. CASE i.command \in {"run", "bench"}
  BY <1>1, RunSucceeds DEF TrueSuccess
<1>2. CASE i.command = "pull"
  <2>1. CASE ~i.resolve /\ ~i.dry
    <3>1. \A k \in DOMAIN i.pulls : i.pulls[k] = "there" \/ k \in a.did
      BY <1>2, <2>1, PullSucceeds
    <3> QED BY <1>2, <2>1, <3>1 DEF TrueSuccess
  <2>2. CASE ~(~i.resolve /\ ~i.dry)
    BY <1>2, <2>2 DEF TrueSuccess
  <2> QED BY <2>1, <2>2
<1>3. CASE i.command = "verify"
  <2>1. i.all => ~ \E f \in DOMAIN i.files : ~i.files[f].link /\ i.files[f].read = "differs"
    BY <1>3, VerifySucceeds
  <2> QED BY <1>3, <2>1 DEF TrueSuccess
<1>4. CASE i.command = "unload"
  <2>1. \A r \in DOMAIN i.park :
          (i.all \/ i.named = r) /\ (i.force \/ r \notin Spared(i)) => r \in a.did
    BY <1>4, UnloadSucceeds
  <2> QED BY <1>4, <2>1 DEF TrueSuccess
<1>5. CASE i.command = "tier"
  <2>1. ~i.dry => a.did = DOMAIN i.moves /\ a.did # {}
    BY <1>5, TierSucceeds
  <2> QED BY <1>5, <2>1 DEF TrueSuccess
<1>6. CASE i.command \notin {"run", "bench", "pull", "verify", "unload", "tier"}
  BY <1>6 DEF TrueSuccess
<1> QED BY <1>1, <1>2, <1>3, <1>4, <1>5, <1>6

LEMMA IndependentKept ==
  ASSUME NEW i \in Invocations
  PROVE  Independent(i, CommandAnswer(i))
<1> DEFINE a == CommandAnswer(i)
<1>1. ASSUME i.command = "env sync", ~i.dry, a.code = 0, NEW k \in DOMAIN SyncTargets(i),
             i.envs[SyncTargets(i)[k]] = "syncs"
      PROVE  SyncTargets(i)[k] \in a.did
  <2>1. PICK T : T = SyncTargets(i)
    OBVIOUS
  <2>2. PICK outcomes : outcomes = [n \in DOMAIN T |-> i.envs[T[n]]]
    OBVIOUS
  <2>3. PICK made : made = {T[n] : n \in {m \in UntilRaised(outcomes) : outcomes[m] # "undeclared"}}
    OBVIOUS
  <2>4. a = Rooted(i, IF i.dry THEN Succeeds({}) ELSE Ends(IF Raised(outcomes) THEN 1 ELSE 0, made))
    <3>1. a = SyncEnvs(i)
      BY <1>1, AnswerIs
    <3> QED BY <2>1, <2>2, <2>3, <3>1, Zenon DEF SyncEnvs
  <2>5. ~Raised(outcomes) /\ a.did = made
    <3>1. PICK b : b = a
      OBVIOUS
    <3>2. b.code = 0 /\ ~i.dry
      BY <1>1, <3>1
    <3> HIDE DEF a
    <3>3. b = Rooted(i, Ends(IF Raised(outcomes) THEN 1 ELSE 0, made))
      BY <2>4, <3>1, <3>2, Zenon
    <3>4. b = Ends(IF Raised(outcomes) THEN 1 ELSE 0, made)
      BY <3>2, <3>3, AlwaysEnds DEF Rooted
    <3> QED BY <3>1, <3>2, <3>4, EndsIs
  <2>6. UntilRaised(outcomes) = DOMAIN T
    <3>1. IsSequence(T)
      <4>1. IsSequence(i.names) /\ IsSequence(i.there)
        BY <1>1, CommandsAssumption DEF CommandsAssumption
      <4> QED BY <2>1, <4>1, Zenon DEF SyncTargets
    <3>2. PICK n \in Nat : DOMAIN T = 1..n
      BY <3>1, PlacesOf
    <3>3. DOMAIN outcomes = 1..n
      BY <2>2, <3>2
    <3>4. UntilRaised(outcomes) = DOMAIN outcomes
      BY <2>5, <3>3, AllDone
    <3> QED BY <3>2, <3>3, <3>4
  <2>7. k \in DOMAIN T /\ outcomes[k] = "syncs"
    BY <1>1, <2>1, <2>2
  <2>8. T[k] \in made
    BY <2>3, <2>6, <2>7
  <2> HIDE DEF a
  <2> QED BY <2>1, <2>5, <2>8
<1>2. ASSUME i.command = "apply", a.did # {}, NEW k \in DOMAIN i.actions
      PROVE  i.actions[k] = "works" <=> <<"applied", k>> \in a.did
  <2>1. PICK made : made = {<<"noted">>} \cup {<<"applied", m>> : m \in {n \in DOMAIN i.actions : i.actions[n] = "works"}}
    OBVIOUS
  <2>2. a = ApplyCommand(i)
    BY <1>2, AnswerIs
  <2> HIDE DEF a
  <2>3. a.did = made
    BY <1>2, <2>1, <2>2, AlwaysEnds, Zenon DEF ApplyCommand, Agreed
  <2>4. <<"applied", k>> \in made <=> i.actions[k] = "works"
    <3>1. <<"applied", k>> # <<"noted">>
      OBVIOUS
    <3>2. \A n : <<"applied", k>> = <<"applied", n>> => n = k
      OBVIOUS
    <3> QED BY <2>1, <3>1, <3>2, Zenon
  <2> QED BY <2>3, <2>4
<1> QED BY <1>1, <1>2, Zenon DEF Independent

LEMMA RespectsKept ==
  ASSUME NEW i
  PROVE  Respects(i, CommandAnswer(i))
<1> SUFFICES ASSUME i.command = "unload", ~i.force, NEW r \in CommandAnswer(i).did, r \in Spared(i)
             PROVE  FALSE
  BY DEF Respects
<1>1. UnloadCommand(i).did # {} /\ r \in UnloadCommand(i).did
  BY AnswerIs
<1>2. CASE i.all
  <2>1. UnloadCommand(i).did = DOMAIN i.park \ Spared(i)
    BY <1>1, <1>2, AlwaysEnds DEF UnloadCommand, Rooted
  <2> QED BY <1>1, <2>1
<1>3. CASE ~i.all
  <2>1. i.named \notin Spared(i) /\ UnloadCommand(i).did = {i.named} \cap DOMAIN i.park
    BY <1>1, <1>3, AlwaysEnds DEF UnloadCommand, Rooted
  <2> QED BY <1>1, <2>1
<1> QED BY <1>2, <1>3

LEMMA TrashKept ==
  ASSUME NEW i
  PROVE  TrashFound(i, CommandAnswer(i))
<1> SUFFICES ASSUME i.command = "empty", CommandAnswer(i).code = 0, NEW k \in DOMAIN i.thrown,
                    NEW volume, volume = VolumeOfPath(i, i.thrown[k].path),
                    i.thrown[k].from \in i.configured, VolumeOfPath(i, i.thrown[k].from) = volume,
                    volume \notin i.gone, i.older = Unsaid \/ i.thrown[k].days > i.older
             PROVE  k \in CommandAnswer(i).did
  BY Zenon DEF TrashFound
<1>1. TrashOf(i, i.thrown[k].path) \in TrashRoots(i)
  <2>1. CASE volume = VolumeOfPath(i, i.home)
    BY <2>1, Zenon DEF TrashOf, TrashRoots
  <2>2. CASE volume # VolumeOfPath(i, i.home)
    <3>1. TrashOf(i, i.thrown[k].path) = volume
      BY <2>2, Zenon DEF TrashOf
    <3>2. volume \in TrashRoots(i)
      BY <2>2 DEF TrashRoots
    <3> QED BY <3>1, <3>2
  <2> QED BY <2>1, <2>2
<1>2. k \in InTrash(i)
  BY <1>1, Zenon DEF InTrash
<1>3. PICK made : made = {n \in InTrash(i) : i.older = Unsaid \/ i.thrown[n].days > i.older}
  OBVIOUS
<1>4. CommandAnswer(i) = Agreed(i, Succeeds(made))
  <2>1. CommandAnswer(i) = EmptyCommand(i)
    BY AnswerIs
  <2> QED BY <1>2, <1>3, <2>1, Zenon DEF EmptyCommand
<1>5. CommandAnswer(i).did = made
  BY <1>4, AlwaysEnds DEF Agreed
<1> QED BY <1>2, <1>3, <1>5

LEMMA FirstSaidOf ==
  ASSUME NEW x, NEW y, FirstSaid(<<x, y>>) # Unsaid
  PROVE  FirstSaid(<<x, y>>) \in {x, y} \ {Unsaid}
<1> DEFINE layers == <<x, y>>
           said == {n \in DOMAIN layers : layers[n] # Unsaid}
<1>1. DOMAIN layers = {1, 2} /\ layers[1] = x /\ layers[2] = y
  OBVIOUS
<1> HIDE DEF layers
<1>2. said # {} /\ FirstSaid(layers) = layers[Min(said)]
  <2>1. FirstSaid(layers) # Unsaid
    BY DEF layers
  <2> QED BY <2>1 DEF FirstSaid
<1>3. said \in SUBSET Nat
  BY <1>1
<1> HIDE DEF said
<1>4. Min(said) \in said
  BY <1>2, <1>3, MinIs
<1>5. Min(said) \in DOMAIN layers /\ layers[Min(said)] # Unsaid
  BY <1>4 DEF said
<1>6. layers[Min(said)] \in {x, y}
  BY <1>1, <1>5
<1> QED BY <1>2, <1>5, <1>6 DEF layers

LEMMA ConfinedKept ==
  ASSUME NEW i
  PROVE  Confined(i, CommandAnswer(i))
<1> SUFFICES ASSUME i.command = "launch", NEW a, a = LaunchWorker(i), a.code = 0
             PROVE  /\ i.venv = "synced"
                    /\ i.custom => \A path \in a.did : path \in i.scripts /\ IsPrefix(i.root, path)
                    /\ ~i.custom => a.did \subseteq {i.special, i.general} \ {Unsaid}
  BY AnswerIs DEF Confined
<1>1. i.venv = "synced"
  BY AlwaysEnds DEF LaunchWorker
<1>2. ASSUME i.custom, NEW path \in a.did PROVE path \in i.scripts /\ IsPrefix(i.root, path)
  <2>1. /\ IsPrefix(i.root, ResolvedPath(i)) /\ ResolvedPath(i) \in i.scripts
        /\ a = Succeeds({ResolvedPath(i)})
    BY <1>1, <1>2, AlwaysEnds DEF LaunchWorker
  <2>2. path = ResolvedPath(i)
    BY <1>2, <2>1, AlwaysEnds
  <2> QED BY <2>1, <2>2
<1>3. ASSUME ~i.custom PROVE a.did \subseteq {i.special, i.general} \ {Unsaid}
  <2>1. WorkerModule(i) # Unsaid /\ a = Succeeds({WorkerModule(i)})
    BY <1>1, <1>3, AlwaysEnds DEF LaunchWorker
  <2>2. WorkerModule(i) \in {i.special, i.general} \ {Unsaid}
    BY <2>1, FirstSaidOf DEF WorkerModule
  <2>3. a.did = {WorkerModule(i)}
    BY <2>1, AlwaysEnds
  <2> QED BY <2>2, <2>3
<1> QED BY <1>1, <1>2, <1>3

LEMMA BudgetKept ==
  ASSUME NEW i \in Invocations
  PROVE  BudgetFound(i, CommandAnswer(i))
<1> SUFFICES ASSUME i.command = "budget", i.configured = Unsaid, ({i.mlx} \cup ToSet(i.probes)) \ {0} # {}
             PROVE  CommandAnswer(i).did \subseteq ({i.mlx} \cup ToSet(i.probes)) \ {0}
  BY Zenon DEF BudgetFound
<1>1. IsSequence(i.probes)
  BY CommandsAssumption DEF CommandsAssumption
<1>2. PICK s : s = i.probes
  OBVIOUS
<1>3. s \in Seq({s[x] : x \in DOMAIN s})
  BY <1>1, <1>2, Zenon DEF IsSequence
<1>4. PICK probes : probes = <<i.mlx>> \o s
  OBVIOUS
<1>5. /\ DOMAIN probes = 1..(1 + Len(s)) /\ Len(s) \in Nat /\ probes[1] = i.mlx
      /\ \A n \in 1..Len(s) : probes[n + 1] = s[n]
      /\ \A n \in DOMAIN probes : n # 1 => (n - 1) \in 1..Len(s) /\ probes[n] = s[n - 1]
  <2>1. PICK S : S = {s[x] : x \in DOMAIN s} \cup {i.mlx}
    OBVIOUS
  <2>2. <<i.mlx>> \in Seq(S) /\ s \in Seq(S) /\ Len(<<i.mlx>>) = 1 /\ <<i.mlx>>[1] = i.mlx
    BY <1>3, <2>1
  <2> QED BY <1>4, <2>2
<1>6. ToSet(i.probes) = {s[n] : n \in 1..Len(s)}
  BY <1>2, <1>3 DEF ToSet
<1>7. PICK says : says = {n \in DOMAIN probes : probes[n] # 0}
  OBVIOUS
<1>8. says # {} /\ says \in SUBSET Nat
  <2>1. PICK b \in ({i.mlx} \cup ToSet(i.probes)) \ {0} : TRUE
    OBVIOUS
  <2>2. CASE b = i.mlx
    <3>1. 1 \in says
      BY <1>5, <1>7, <2>1, <2>2
    <3> QED BY <1>5, <1>7, <3>1
  <2>3. CASE b # i.mlx
    <3>1. PICK n \in 1..Len(s) : b = s[n]
      BY <1>6, <2>1, <2>3
    <3>2. n + 1 \in says
      BY <1>5, <1>7, <2>1, <3>1
    <3> QED BY <1>5, <1>7, <3>2
  <2> QED BY <2>2, <2>3
<1>9. PICK m : m = Min(says)
  OBVIOUS
<1>10. m \in DOMAIN probes /\ probes[m] # 0
  BY <1>7, <1>8, <1>9, MinIs
<1>11. Budgets(i) = probes[m]
  BY <1>2, <1>4, <1>7, <1>8, <1>9, Zenon DEF Budgets
<1>12. probes[m] \in ({i.mlx} \cup ToSet(i.probes)) \ {0}
  BY <1>5, <1>6, <1>10
<1>13. CommandAnswer(i).did = {Budgets(i)}
  BY AnswerIs, AlwaysEnds
<1> QED BY <1>11, <1>12, <1>13

(* Whatever is asked and whatever is found (both cli.py): a dry run, a      *)
(* misuse and a refused question touch nothing; --json changes no exit      *)
(* code; `run`, `bench`, `pull`, `verify --all`, `unload` and `tier` that   *)
(* end with 0 did it all; `env sync` and `apply`, which may end with 0 all  *)
(* the same, do whatever of it does not fail; nothing busy or pinned is     *)
(* unloaded without --force; old trash is found; a worker is launched from  *)
(* where it may be; and the budget is one that was probed.                 *)
THEOREM CommandsAreHonest == CommandsSpec => []CommandsHonest
<1> DEFINE Inv == invoked \in Invocations /\ exit \in {Unsaid, CommandAnswer(invoked)}
<1>1. CommandsInit => Inv
  BY DEF CommandsInit
<1>2. Inv /\ [RunOnce]_commandVars => Inv'
  <2> SUFFICES ASSUME Inv, [RunOnce]_commandVars PROVE Inv'
    OBVIOUS
  <2>1. CASE RunOnce
    <3>1. PICK i : i = invoked
      OBVIOUS
    <3>2. invoked' = i /\ exit' = CommandAnswer(i)
      BY <2>1, <3>1 DEF RunOnce
    <3> QED BY <3>1, <3>2
  <2>2. CASE UNCHANGED commandVars
    <3>1. PICK i : i = invoked
      OBVIOUS
    <3>2. invoked' = i /\ exit' = exit
      BY <2>2, <3>1 DEF commandVars
    <3> QED BY <3>1, <3>2
  <2> QED BY <2>1, <2>2
<1>3. Inv => CommandsHonest
  BY TouchesKept, JsonKept, SuccessesTrue, IndependentKept, RespectsKept, TrashKept, ConfinedKept, BudgetKept DEF CommandsHonest
<1>4. CommandsSpec => []Inv
  <2> HIDE DEF Inv
  <2> QED BY <1>1, <1>2, PTL DEF CommandsSpec
<1> HIDE DEF Inv
<1> QED BY <1>3, <1>4, PTL

-----------------------------------------------------------------------------
(* The recovery.  What is observed of a disk, inode by inode.              *)

Inodes(w) == {w.inode[p] : p \in Paths}
SizeOn(w, i) == SizeOfContent[w.content[i]]
Cluster(w, i) == {r \in Park(w) : r.inode = i}

LEMMA InodesAre ==
  ASSUME NEW w \in Worlds
  PROVE  /\ \A p \in Paths : w.inode[p] \in Inodes(w)
         /\ \A i \in Inodes(w) : /\ w.content[i] \in DOMAIN SizeOfContent /\ SizeOn(w, i) \in Nat
                                 /\ i \in DOMAIN VolumeOf /\ \E p \in Paths : w.inode[p] = i
<1>1. w.inode \in [Paths -> DOMAIN VolumeOf] /\ w.content \in [DOMAIN VolumeOf -> DOMAIN SizeOfContent]
  BY WorldAssumption
<1>2. SizeOfContent \in [DOMAIN SizeOfContent -> Nat]
  BY PathAssumption
<1> QED BY <1>1, <1>2 DEF Inodes, SizeOn

Recorded(w, r) ==
  /\ r.path \in Paths /\ r.inode = w.inode[r.path] /\ r.inode \in Inodes(w)
  /\ r.vol = VolumeOf[r.inode] /\ r.size = SizeOn(w, r.inode) /\ r.nlink = Links(w, r.inode)
  /\ r.manager \in Nat /\ r.refs = w.refs[r.path]
  /\ r.sha \in {NoSha, w.content[r.inode]}
  /\ r.stale = (r.path \in StaleBlobs(w.repo, w.pinned))
  /\ r.orphan = (r.path \in HubPaths \ Blobs(w.repo))

LEMMA ParkIs ==
  ASSUME NEW w \in Worlds
  PROVE  /\ \A r \in Park(w) : Recorded(w, r)
         /\ \A q, r \in Park(w) : q.path = r.path => q = r
         /\ \A p \in Paths : \E r \in Park(w) : r.path = p
         /\ IsFiniteSet(Park(w)) /\ IsFiniteSet(Paths)
<1>1. \A p \in Paths : Observed(w, p).path = p
  BY DEF Observed
<1>2. ASSUME NEW p \in Paths PROVE Recorded(w, Observed(w, p))
  <2>1. w.inode[p] \in Inodes(w) /\ ManagerOf[p] \in Nat
    BY InodesAre, PathAssumption
  <2> QED BY <2>1 DEF Observed, Recorded, SizeOn
<1>3. IsFiniteSet(Park(w))
  <2> DEFINE g == [p \in Paths |-> Observed(w, p)]
  <2>1. g \in Surjection(Paths, Park(w))
    BY DEF Surjection, Park
  <2> HIDE DEF g
  <2> QED BY <2>1, FS_Surjection, PathAssumption
<1>4. IsFiniteSet(Paths)
  BY PathAssumption
<1> QED BY <1>1, <1>2, <1>3, <1>4 DEF Park

LEMMA ClusterIs ==
  ASSUME NEW w \in Worlds, NEW i \in Inodes(w)
  PROVE  /\ Cluster(w, i) # {} /\ Cluster(w, i) \subseteq Park(w) /\ IsFiniteSet(Cluster(w, i))
         /\ IsFiniteSet(Names(w, i)) /\ Cardinality(Cluster(w, i)) = Cardinality(Names(w, i))
<1>1. PICK p \in Paths : w.inode[p] = i
  BY InodesAre
<1>2. PICK r \in Park(w) : r.path = p
  BY ParkIs
<1>3. r \in Cluster(w, i)
  BY <1>1, <1>2, ParkIs DEF Cluster, Recorded
<1>4. Cluster(w, i) \subseteq Park(w)
  BY DEF Cluster
<1>5. IsFiniteSet(Cluster(w, i))
  BY <1>4, ParkIs, FS_Subset
<1>6. Names(w, i) \subseteq Paths
  BY DEF Names
<1>7. IsFiniteSet(Names(w, i))
  BY <1>6, ParkIs, FS_Subset
<1> DEFINE g == [x \in Cluster(w, i) |-> x.path]
<1>8. g \in Bijection(Cluster(w, i), Names(w, i))
  <2>1. \A x \in Cluster(w, i) : x.path \in Names(w, i)
    BY <1>4, ParkIs DEF Cluster, Names, Recorded
  <2>2. \A x, y \in Cluster(w, i) : x.path = y.path => x = y
    BY <1>4, ParkIs
  <2>3. \A n \in Names(w, i) : \E x \in Cluster(w, i) : x.path = n
    <3> SUFFICES ASSUME NEW n \in Names(w, i) PROVE \E x \in Cluster(w, i) : x.path = n
      OBVIOUS
    <3>1. n \in Paths /\ w.inode[n] = i
      BY DEF Names
    <3>2. PICK x \in Park(w) : x.path = n
      BY <3>1, ParkIs
    <3> QED BY <3>1, <3>2, ParkIs DEF Cluster, Recorded
  <2> QED BY <2>1, <2>2, <2>3 DEF Bijection, Injection, Surjection, IsInjective
<1> HIDE DEF g
<1>9. ExistsBijection(Cluster(w, i), Names(w, i))
  BY <1>8 DEF ExistsBijection
<1>10. Cardinality(Cluster(w, i)) = Cardinality(Names(w, i))
  BY <1>5, <1>9, FS_Bijection
<1> QED BY <1>3, <1>4, <1>5, <1>7, <1>10

LEMMA MaxSame == ASSUME NEW n \in Nat PROVE Max({n}) = n
<1>1. \E x \in {n} : \A y \in {n} : x >= y
  OBVIOUS
<1> QED BY <1>1 DEF Max

(* Nothing but all the names of an inode that none holds from outside frees it. *)
LEMMA CoveredIs ==
  ASSUME NEW w \in Worlds, NEW i \in Inodes(w), NEW c, c \subseteq Cluster(w, i), c # {}
  PROVE  Covered(c) <=> c = Cluster(w, i) /\ i \notin w.outside
<1>1. \A r \in c : r.nlink = Links(w, i)
  BY ParkIs DEF Cluster, Recorded
<1>2. {r.nlink : r \in c} = {Links(w, i)}
  BY <1>1
<1>3. IsFiniteSet(c) /\ Cardinality(c) <= Cardinality(Cluster(w, i)) /\ Cardinality(c) \in Nat
  BY ClusterIs, FS_Subset, FS_CardinalityType
<1>4. Cardinality(Cluster(w, i)) = Cardinality(Names(w, i)) /\ Cardinality(Names(w, i)) \in Nat
  BY ClusterIs, FS_CardinalityType
<1>5. Links(w, i) = Cardinality(Names(w, i)) + (IF i \in w.outside THEN 1 ELSE 0)
  BY DEF Links
<1>6. Links(w, i) \in Nat
  BY <1>4, <1>5
<1>7. Covered(c) <=> Cardinality(c) >= Links(w, i)
  BY <1>2, <1>6, MaxSame DEF Covered
<1>8. CASE c = Cluster(w, i)
  BY <1>3, <1>4, <1>5, <1>7, <1>8
<1>9. CASE c # Cluster(w, i)
  <2>1. Cardinality(c) # Cardinality(Cluster(w, i))
    BY <1>3, <1>9, ClusterIs, FS_Subset
  <2> QED BY <1>3, <1>4, <1>5, <1>7, <1>9, <2>1
<1> QED BY <1>8, <1>9

LEMMA FirstIs ==
  ASSUME NEW w \in Worlds, NEW c, c \subseteq Park(w), c # {}
  PROVE  FirstOf(c) \in c /\ \A q \in c : FirstOf(c).path <= q.path
<1>1. PICK N : N = {r.path : r \in c}
  OBVIOUS
<1>2. N \in SUBSET Nat /\ N # {}
  BY <1>1, ParkIs, PathAssumption DEF Recorded
<1>3. PICK m \in N : \A n \in N : m <= n
  BY <1>2, LeastIn
<1>4. \E r \in c : \A q \in c : r.path <= q.path
  BY <1>1, <1>3
<1> QED BY <1>4, Zenon DEF FirstOf

LEMMA ByInodeIs ==
  ASSUME NEW w \in Worlds, NEW T, T \subseteq Park(w)
  PROVE  ByInode(T) = {T \cap Cluster(w, i) : i \in {r.inode : r \in T}}
<1>1. \A q, r \in T : InodeOf(q) = InodeOf(r) <=> q.inode = r.inode
  BY ParkIs DEF InodeOf, Recorded
<1>2. ASSUME NEW r \in T PROVE {q \in T : InodeOf(q) = InodeOf(r)} = T \cap Cluster(w, r.inode)
  BY <1>1, <1>2 DEF Cluster
<1>3. ASSUME NEW c PROVE c \in ByInode(T) <=> \E r \in T : c = T \cap Cluster(w, r.inode)
  <2>1. c \in ByInode(T) <=> \E r \in T : c = {q \in T : InodeOf(q) = InodeOf(r)}
    BY DEF ByInode
  <2> QED BY <1>2, <2>1
<1>4. ASSUME NEW c
      PROVE  c \in {T \cap Cluster(w, i) : i \in {r.inode : r \in T}} <=> \E r \in T : c = T \cap Cluster(w, r.inode)
  OBVIOUS
<1> QED BY <1>3, <1>4

-----------------------------------------------------------------------------
(* The shares of a set of records, by the inodes it holds whole.           *)

Whole(w, T) == {i \in Inodes(w) \ w.outside : Cluster(w, i) \subseteq T}
On(w, X) == {p \in Paths : w.inode[p] \in X}
FirstPath(w, i) == FirstOf(Cluster(w, i)).path
ShareOf(w, p) ==
  [path |-> p, bytes |-> IF p = FirstPath(w, w.inode[p]) THEN SizeOn(w, w.inode[p]) ELSE 0]

LEMMA WholeIs ==
  ASSUME NEW w \in Worlds, NEW T, T \subseteq Park(w)
  PROVE  {c \in ByInode(T) : Covered(c)} = {Cluster(w, i) : i \in Whole(w, T)}
<1>1. ASSUME NEW c \in ByInode(T), Covered(c) PROVE c \in {Cluster(w, i) : i \in Whole(w, T)}
  <2>1. PICK r \in T : c = T \cap Cluster(w, r.inode)
    BY <1>1, ByInodeIs
  <2>2. r \in Park(w) /\ r.inode \in Inodes(w) /\ r \in c
    BY <2>1, ParkIs DEF Cluster, Recorded
  <2>3. PICK i : i = r.inode
    OBVIOUS
  <2>4. c = Cluster(w, i) /\ i \notin w.outside
    BY <1>1, <2>1, <2>2, <2>3, CoveredIs
  <2>5. i \in Whole(w, T)
    BY <2>1, <2>2, <2>3, <2>4 DEF Whole
  <2> QED BY <2>4, <2>5
<1>2. ASSUME NEW i \in Whole(w, T) PROVE Cluster(w, i) \in ByInode(T) /\ Covered(Cluster(w, i))
  <2>1. i \in Inodes(w) /\ i \notin w.outside /\ Cluster(w, i) \subseteq T
    BY DEF Whole
  <2>2. Cluster(w, i) # {}
    BY <2>1, ClusterIs
  <2>3. PICK r \in Cluster(w, i) : r.inode = i
    BY <2>2 DEF Cluster
  <2>4. Cluster(w, i) = T \cap Cluster(w, r.inode) /\ r \in T
    BY <2>1, <2>3
  <2>5. Cluster(w, i) \in ByInode(T)
    BY <2>4, ByInodeIs
  <2>6. Covered(Cluster(w, i))
    BY <2>1, <2>2, CoveredIs
  <2> QED BY <2>5, <2>6
<1> QED BY <1>1, <1>2

LEMMA SharesAre ==
  ASSUME NEW w \in Worlds, NEW T, T \subseteq Park(w)
  PROVE  Shares(T) = {ShareOf(w, p) : p \in On(w, Whole(w, T))}
<1> DEFINE Item(c, r) == [path |-> r.path, bytes |-> IF r = FirstOf(c) THEN r.size ELSE 0]
           Part(c) == {Item(c, r) : r \in c}
<1>1. Shares(T) = UNION {Part(c) : c \in {d \in ByInode(T) : Covered(d)}}
  BY DEF Shares
<1>2. ASSUME NEW i \in Whole(w, T) PROVE Part(Cluster(w, i)) = {ShareOf(w, p) : p \in On(w, {i})}
  <2>1. i \in Inodes(w) /\ Cluster(w, i) \subseteq Park(w) /\ Cluster(w, i) # {}
    BY ClusterIs DEF Whole
  <2>2. FirstOf(Cluster(w, i)) \in Cluster(w, i)
    BY <2>1, FirstIs
  <2>3. ASSUME NEW r \in Cluster(w, i)
        PROVE  /\ r.path \in On(w, {i})
               /\ Item(Cluster(w, i), r) = ShareOf(w, r.path)
    <3>1. r.path \in Paths /\ w.inode[r.path] = i /\ r.size = SizeOn(w, i)
      BY <2>1, ParkIs DEF Recorded, Cluster
    <3>2. r = FirstOf(Cluster(w, i)) <=> r.path = FirstPath(w, i)
      BY <2>1, <2>2, ParkIs DEF FirstPath
    <3> QED BY <3>1, <3>2 DEF On, ShareOf
  <2>4. ASSUME NEW p \in On(w, {i}) PROVE \E r \in Cluster(w, i) : r.path = p
    <3>1. p \in Paths /\ w.inode[p] = i
      BY DEF On
    <3>2. PICK r \in Park(w) : r.path = p
      BY <3>1, ParkIs
    <3> QED BY <3>1, <3>2, ParkIs DEF Recorded, Cluster
  <2>5. ASSUME NEW s PROVE s \in Part(Cluster(w, i)) <=> s \in {ShareOf(w, p) : p \in On(w, {i})}
    <3> HIDE DEF Item
    <3> QED BY <2>3, <2>4
  <2> HIDE DEF Part
  <2> QED BY <2>5
<1>3. {d \in ByInode(T) : Covered(d)} = {Cluster(w, i) : i \in Whole(w, T)}
  BY WholeIs
<1> HIDE DEF Part
<1>4. ASSUME NEW s PROVE s \in Shares(T) <=> \E i \in Whole(w, T) : s \in Part(Cluster(w, i))
  <2>1. PICK S : S = {d \in ByInode(T) : Covered(d)}
    OBVIOUS
  <2>2. Shares(T) = UNION {Part(c) : c \in S}
    BY <1>1, <2>1
  <2>3. S = {Cluster(w, i) : i \in Whole(w, T)}
    BY <1>3, <2>1
  <2>4. s \in Shares(T) <=> \E c \in S : s \in Part(c)
    BY <2>2
  <2> QED BY <2>3, <2>4
<1>5. ASSUME NEW s PROVE s \in Shares(T) <=> \E i \in Whole(w, T) : \E p \in On(w, {i}) : s = ShareOf(w, p)
  <2>1. ASSUME NEW i \in Whole(w, T)
        PROVE  s \in Part(Cluster(w, i)) <=> \E p \in On(w, {i}) : s = ShareOf(w, p)
    <3>1. Part(Cluster(w, i)) = {ShareOf(w, p) : p \in On(w, {i})}
      BY <1>2
    <3> QED BY <3>1
  <2> QED BY <1>4, <2>1
<1>6. ASSUME NEW p PROVE p \in On(w, Whole(w, T)) <=> \E i \in Whole(w, T) : p \in On(w, {i})
  BY DEF On
<1> QED BY <1>5, <1>6

-----------------------------------------------------------------------------
(* The records of one content, as far as their hashes tell.                *)

KeyOf(w, i) == ContentKey(Cluster(w, i))
Group(w, i) == {r \in Park(w) : KeyOf(w, r.inode) = KeyOf(w, i)}

LEMMA GroupsAre ==
  ASSUME NEW w \in Worlds
  PROVE  GroupByContent(Park(w)) = {Group(w, i) : i \in Inodes(w)}
<1>1. ASSUME NEW c PROVE c \in ByInode(Park(w)) <=> \E i \in Inodes(w) : c = Cluster(w, i)
  <2>1. ASSUME NEW i PROVE Park(w) \cap Cluster(w, i) = Cluster(w, i)
    BY DEF Cluster
  <2>2. \A i : i \in {r.inode : r \in Park(w)} <=> i \in Inodes(w)
    <3>1. \A r \in Park(w) : r.inode \in Inodes(w)
      BY ParkIs DEF Recorded
    <3>2. ASSUME NEW i \in Inodes(w) PROVE \E r \in Park(w) : r.inode = i
      BY ClusterIs DEF Cluster
    <3> QED BY <3>1, <3>2
  <2>3. ByInode(Park(w)) = {Park(w) \cap Cluster(w, i) : i \in {r.inode : r \in Park(w)}}
    BY ByInodeIs
  <2> QED BY <2>1, <2>2, <2>3
<1>2. ASSUME NEW k
      PROVE  UNION {c \in ByInode(Park(w)) : ContentKey(c) = k} = {r \in Park(w) : KeyOf(w, r.inode) = k}
  <2>1. ASSUME NEW r \in Park(w), KeyOf(w, r.inode) = k
        PROVE  \E c \in ByInode(Park(w)) : ContentKey(c) = k /\ r \in c
    <3>1. r.inode \in Inodes(w) /\ r \in Cluster(w, r.inode)
      BY ParkIs DEF Recorded, Cluster
    <3> QED BY <1>1, <2>1, <3>1 DEF KeyOf
  <2>2. ASSUME NEW c \in ByInode(Park(w)), ContentKey(c) = k, NEW r \in c
        PROVE  r \in Park(w) /\ KeyOf(w, r.inode) = k
    <3>1. PICK i \in Inodes(w) : c = Cluster(w, i)
      BY <1>1
    <3>2. r \in Park(w) /\ r.inode = i
      BY <2>2, <3>1 DEF Cluster
    <3> QED BY <2>2, <3>1, <3>2 DEF KeyOf
  <2> QED BY <2>1, <2>2
<1>3. ASSUME NEW k PROVE k \in {ContentKey(c) : c \in ByInode(Park(w))} <=> \E i \in Inodes(w) : k = KeyOf(w, i)
  BY <1>1 DEF KeyOf
<1>4. ASSUME NEW g PROVE g \in GroupByContent(Park(w)) <=> \E i \in Inodes(w) : g = {r \in Park(w) : KeyOf(w, r.inode) = KeyOf(w, i)}
  <2> DEFINE Of(k) == UNION {c \in ByInode(Park(w)) : ContentKey(c) = k}
             Keys == {ContentKey(c) : c \in ByInode(Park(w))}
             Merge(k) == {r \in Park(w) : KeyOf(w, r.inode) = k}
  <2>1. GroupByContent(Park(w)) = {Of(k) : k \in Keys}
    BY DEF GroupByContent
  <2>2. \A k : Of(k) = Merge(k)
    BY <1>2
  <2>3. \A k : k \in Keys <=> \E i \in Inodes(w) : k = KeyOf(w, i)
    BY <1>3
  <2>4. g \in GroupByContent(Park(w)) <=> \E i \in Inodes(w) : g = Merge(KeyOf(w, i))
    <3> HIDE DEF Of, Keys, Merge
    <3> QED BY <2>1, <2>2, <2>3
  <2> QED BY <2>4
<1> QED BY <1>4 DEF Group

LEMMA ShaIs ==
  ASSUME NEW w \in Worlds, NEW i \in Inodes(w)
  PROVE  ShaOfCluster(Cluster(w, i)) \in {NoSha, w.content[i]}
<1> DEFINE known == {r \in Cluster(w, i) : r.sha # NoSha}
           read == {r \in known : r.read}
           from == {r.sha : r \in IF read # {} THEN read ELSE known}
<1>1. \A r \in known : r.sha = w.content[i]
  BY ClusterIs, ParkIs DEF Recorded, Cluster
<1>2. from \subseteq {w.content[i]}
  BY <1>1
<1>3. ShaOfCluster(Cluster(w, i)) = IF Cardinality(from) = 1 THEN CHOOSE h \in from : TRUE ELSE NoSha
  BY DEF ShaOfCluster
<1> HIDE DEF from
<1>4. ASSUME Cardinality(from) = 1 PROVE (CHOOSE h \in from : TRUE) = w.content[i]
  <2>1. from # {}
    BY <1>4, FS_EmptySet
  <2> QED BY <1>2, <2>1
<1> QED BY <1>3, <1>4

LEMMA SameContent ==
  ASSUME NEW w \in Worlds, NEW i \in Inodes(w), NEW j \in Inodes(w), KeyOf(w, i) = KeyOf(w, j)
  PROVE  w.content[i] = w.content[j]
<1> DEFINE Sha(k) == ShaOfCluster(Cluster(w, k))
           One(k) == CHOOSE r \in Cluster(w, k) : TRUE
<1>1. ASSUME NEW k \in Inodes(w)
      PROVE  /\ Sha(k) \in {NoSha, w.content[k]}
             /\ One(k) \in Cluster(w, k) /\ One(k).inode = k
             /\ KeyOf(w, k) = IF Sha(k) = NoSha THEN <<"inode", <<One(k).vol, One(k).inode>>>>
                              ELSE <<"sha", Sha(k), SizeOf(Cluster(w, k))>>
  <2>1. One(k) \in Cluster(w, k)
    BY ClusterIs
  <2>2. One(k).inode = k
    BY <2>1 DEF Cluster
  <2> QED BY <2>1, <2>2, ShaIs DEF KeyOf, ContentKey, InodeOf
<1> HIDE DEF Sha, One
<1>2. PICK a : a = KeyOf(w, i)
  OBVIOUS
<1>3. Sha(i) = NoSha <=> a[1] = "inode"
  BY <1>1, <1>2
<1>4. Sha(j) = NoSha <=> a[1] = "inode"
  BY <1>1, <1>2
<1>5. CASE Sha(i) = NoSha
  <2>1. a = <<"inode", <<One(i).vol, i>>>> /\ a = <<"inode", <<One(j).vol, j>>>>
    BY <1>1, <1>2, <1>3, <1>4, <1>5
  <2>2. i = j
    BY <2>1
  <2> QED BY <2>2
<1>6. CASE Sha(i) # NoSha
  <2>1. a = <<"sha", Sha(i), SizeOf(Cluster(w, i))>> /\ a = <<"sha", Sha(j), SizeOf(Cluster(w, j))>>
    BY <1>1, <1>2, <1>3, <1>4, <1>6
  <2>2. Sha(i) = Sha(j)
    BY <2>1
  <2> QED BY <1>1, <1>3, <1>4, <1>6, <2>2
<1> QED BY <1>5, <1>6

-----------------------------------------------------------------------------
(* The keeper that the others are linked to. *)

FourNats == Nat \X Nat \X Nat \X Nat

LEMMA BeforeIs ==
  ASSUME NEW x \in FourNats, NEW y \in FourNats
  PROVE  Before(x, y) <=> \/ x[1] < y[1]
                          \/ x[1] = y[1] /\ x[2] < y[2]
                          \/ x[1] = y[1] /\ x[2] = y[2] /\ x[3] < y[3]
                          \/ x[1] = y[1] /\ x[2] = y[2] /\ x[3] = y[3] /\ x[4] < y[4]
<1>1. DOMAIN x = 1..4
  BY DEF FourNats
<1>2. \A i : i \in 1..4 <=> i \in {1, 2, 3, 4}
  OBVIOUS
<1>3. ASSUME NEW i \in 1..4
      PROVE  (\A k \in 1..(i - 1) : x[k] = y[k]) <=> \A k \in {1, 2, 3} : k < i => x[k] = y[k]
  OBVIOUS
<1>4. Before(x, y) <=> \E i \in {1, 2, 3, 4} : x[i] < y[i] /\ \A k \in {1, 2, 3} : k < i => x[k] = y[k]
  BY <1>1, <1>2, <1>3 DEF Before
<1> QED BY <1>4

LEMMA BeforeOrders ==
  ASSUME NEW x \in FourNats, NEW y \in FourNats, NEW z \in FourNats
  PROVE  /\ ~Before(x, x)
         /\ x[4] # y[4] => Before(x, y) \/ Before(y, x)
         /\ Before(x, y) /\ Before(y, z) => Before(x, z)
<1>1. /\ x[1] \in Nat /\ x[2] \in Nat /\ x[3] \in Nat /\ x[4] \in Nat
      /\ y[1] \in Nat /\ y[2] \in Nat /\ y[3] \in Nat /\ y[4] \in Nat
      /\ z[1] \in Nat /\ z[2] \in Nat /\ z[3] \in Nat /\ z[4] \in Nat
  BY DEF FourNats
<1>2. ~Before(x, x)
  BY <1>1, BeforeIs
<1>3. x[4] # y[4] => Before(x, y) \/ Before(y, x)
  BY <1>1, BeforeIs
<1>4. Before(x, y) /\ Before(y, z) => Before(x, z)
  <2>1. ASSUME NEW a \in Nat, NEW b \in Nat, NEW c \in Nat, NEW d \in Nat,
               NEW e \in Nat, NEW f \in Nat, NEW g \in Nat, NEW h \in Nat,
               NEW k \in Nat, NEW l \in Nat, NEW m \in Nat, NEW n \in Nat,
               a < e \/ (a = e /\ (b < f \/ (b = f /\ (c < g \/ (c = g /\ d < h))))),
               e < k \/ (e = k /\ (f < l \/ (f = l /\ (g < m \/ (g = m /\ h < n)))))
        PROVE  a < k \/ (a = k /\ (b < l \/ (b = l /\ (c < m \/ (c = m /\ d < n)))))
    BY <2>1
  <2> SUFFICES ASSUME Before(x, y), Before(y, z) PROVE Before(x, z)
    OBVIOUS
  <2> DEFINE Lex(u, v) == u[1] < v[1] \/ (u[1] = v[1] /\ (u[2] < v[2] \/ (u[2] = v[2] /\
                            (u[3] < v[3] \/ (u[3] = v[3] /\ u[4] < v[4])))))
  <2>2. Lex(x, y) /\ Lex(y, z)
    <3>1. Lex(x, y)
      BY BeforeIs
    <3>2. Lex(y, z)
      BY BeforeIs
    <3> QED BY <3>1, <3>2
  <2>3. Lex(x, z)
    BY <1>1, <2>1, <2>2
  <2> QED BY <2>3, BeforeIs
<1> QED BY <1>2, <1>3, <1>4

LEMMA KeeperExists ==
  ASSUME NEW w \in Worlds, NEW T, T \subseteq Park(w), T # {}
  PROVE  PreferredKeeper(ByInode(T)) \in ByInode(T)
<1>1. PICK S : S = ByInode(T)
  OBVIOUS
<1>2. \A c : c \in S <=> \E i \in {r.inode : r \in T} : c = T \cap Cluster(w, i)
  BY <1>1, ByInodeIs
<1>3. IsFiniteSet(S) /\ S # {}
  <2>1. \A c : c \in S <=> \E r \in T : c = T \cap Cluster(w, r.inode)
    BY <1>2
  <2>2. IsFiniteSet(T)
    BY ParkIs, FS_Subset
  <2> DEFINE g == [r \in T |-> T \cap Cluster(w, r.inode)]
  <2>3. g \in [T -> S] /\ \A c \in S : \E r \in T : g[r] = c
    BY <2>1
  <2> HIDE DEF g
  <2>4. g \in Surjection(T, S)
    BY <2>3 DEF Surjection
  <2> QED BY <2>1, <2>2, <2>4, FS_Surjection
<1>4. ASSUME NEW c \in S PROVE c \subseteq Park(w) /\ c # {} /\ FirstOf(c) \in c
  <2>1. PICK r \in T : c = T \cap Cluster(w, r.inode)
    BY <1>2
  <2>2. r \in c /\ c \subseteq Park(w)
    BY <2>1 DEF Cluster
  <2> QED BY <2>2, FirstIs
<1>5. ASSUME NEW c \in S, NEW d \in S, FirstOf(c).path = FirstOf(d).path PROVE c = d
  <2>1. PICK i \in {r.inode : r \in T} : c = T \cap Cluster(w, i)
    BY <1>2
  <2>2. PICK j \in {r.inode : r \in T} : d = T \cap Cluster(w, j)
    BY <1>2
  <2>3. FirstOf(c) = FirstOf(d)
    BY <1>4, <1>5, ParkIs
  <2>4. i = FirstOf(c).inode /\ j = FirstOf(d).inode
    BY <1>4, <2>1, <2>2 DEF Cluster
  <2> QED BY <2>1, <2>2, <2>3, <2>4
<1>6. ASSUME NEW c \in S PROVE KeeperRank(c) \in FourNats /\ KeeperRank(c)[4] = FirstOf(c).path
  <2>1. PICK r : r = FirstOf(c)
    OBVIOUS
  <2>2. r.manager \in Nat /\ r.path \in Nat
    BY <1>4, <2>1, ParkIs, PathAssumption DEF Recorded
  <2>3. KeeperRank(c) = <<IF Covered(c) THEN 1 ELSE 0, r.manager, IF r.refs = {} THEN 1 ELSE 0, r.path>>
    BY <2>1 DEF KeeperRank
  <2> QED BY <2>1, <2>2, <2>3 DEF FourNats
<1>7. PICK R : R = {e \in S \X S : Before(KeeperRank(e[2]), KeeperRank(e[1]))}
  OBVIOUS
<1>8. \A c, d \in S : <<d, c>> \in R <=> Before(KeeperRank(c), KeeperRank(d))
  BY <1>7
<1>9. TotalOrder(R, S)
  <2>1. \A c \in S : <<c, c>> \notin R
    BY <1>6, <1>8, BeforeOrders
  <2>2. \A c, d \in S : c # d => <<c, d>> \in R \/ <<d, c>> \in R
    BY <1>5, <1>6, <1>8, BeforeOrders
  <2>3. \A c, d, e \in S : <<c, d>> \in R /\ <<d, e>> \in R => <<c, e>> \in R
    BY <1>6, <1>8, BeforeOrders
  <2> QED BY <2>1, <2>2, <2>3 DEF TotalOrder
<1>10. PICK c \in S : \A d \in S : d # c => <<d, c>> \in R
  BY <1>3, <1>9, LastExists
<1>11. \A d \in S \ {c} : Before(KeeperRank(c), KeeperRank(d))
  BY <1>8, <1>10
<1> QED BY <1>1, <1>11, Zenon DEF PreferredKeeper

-----------------------------------------------------------------------------
(* What is proposed for a content, inode by inode.                         *)

KeptOf(g) == IF SizeOf(g) = 0 THEN {} ELSE Kept(g)
OutOf(g) == {r \in Disposable(g) : InodeOf(r) \notin {InodeOf(q) : q \in KeptOf(g)} /\ r.size # 0}
PosteOf(g) == IF \E r \in Disposable(g) : r.stale THEN "stale" ELSE "orphan"
IdleFor(g, unused) == KeptOf(g) # {} /\ \A r \in KeptOf(g) : NeverUsed(r, unused)

LEMMA AttributionIs ==
  ASSUME NEW g, NEW unused
  PROVE  /\ Attribution(g, unused).sha = ShaOfCluster(g)
         /\ Attribution(g, unused).read = (\A r \in g : r.read)
         /\ Attribution(g, unused).poste = PosteOf(g)
         /\ Attribution(g, unused).trash = Shares(OutOf(g))
         /\ Attribution(g, unused).unused = IF IdleFor(g, unused) THEN Shares(KeptOf(g)) ELSE {}
         /\ Attribution(g, unused).dups = IF IdleFor(g, unused) THEN {} ELSE Duplicates(KeptOf(g))
<1> DEFINE a == Attribution(g, unused)
<1>1. a = [sha    |-> ShaOfCluster(g),
           read   |-> \A r \in g : r.read,
           poste  |-> PosteOf(g),
           trash  |-> Shares(OutOf(g)),
           unused |-> IF IdleFor(g, unused) THEN Shares(KeptOf(g)) ELSE {},
           dups   |-> IF IdleFor(g, unused) THEN {} ELSE Duplicates(KeptOf(g))]
  BY Zenon DEF Attribution, KeptOf, OutOf, PosteOf, IdleFor
<1> HIDE DEF a
<1>2. /\ a.sha = ShaOfCluster(g) /\ a.read = (\A r \in g : r.read) /\ a.poste = PosteOf(g)
      /\ a.trash = Shares(OutOf(g))
      /\ a.unused = IF IdleFor(g, unused) THEN Shares(KeptOf(g)) ELSE {}
      /\ a.dups = IF IdleFor(g, unused) THEN {} ELSE Duplicates(KeptOf(g))
  BY <1>1
<1> QED BY <1>2 DEF a

LEMMA GroupIs ==
  ASSUME NEW w \in Worlds, NEW i \in Inodes(w)
  PROVE  /\ Group(w, i) \subseteq Park(w) /\ Cluster(w, i) \subseteq Group(w, i)
         /\ Group(w, i) # {} /\ SizeOf(Group(w, i)) = SizeOn(w, i)
         /\ \A r \in Group(w, i) : /\ r.inode \in Inodes(w) /\ w.content[r.inode] = w.content[i]
                                   /\ r.size = SizeOn(w, i) /\ Group(w, r.inode) = Group(w, i)
<1>1. Group(w, i) \subseteq Park(w)
  BY DEF Group
<1>2. Cluster(w, i) \subseteq Group(w, i)
  BY DEF Cluster, Group
<1>3. Group(w, i) # {}
  BY <1>2, ClusterIs
<1>4. ASSUME NEW r \in Group(w, i)
      PROVE  /\ r.inode \in Inodes(w) /\ w.content[r.inode] = w.content[i]
             /\ r.size = SizeOn(w, i) /\ Group(w, r.inode) = Group(w, i)
  <2>1. r \in Park(w) /\ KeyOf(w, r.inode) = KeyOf(w, i)
    BY DEF Group
  <2>2. r.inode \in Inodes(w) /\ r.size = SizeOn(w, r.inode)
    BY <2>1, ParkIs DEF Recorded
  <2>3. w.content[r.inode] = w.content[i]
    BY <2>1, <2>2, SameContent
  <2> QED BY <2>1, <2>2, <2>3 DEF SizeOn, Group
<1>5. {r.size : r \in Group(w, i)} = {SizeOn(w, i)}
  BY <1>3, <1>4
<1>6. SizeOf(Group(w, i)) = SizeOn(w, i)
  BY <1>5, InodesAre, MaxSame DEF SizeOf
<1> QED BY <1>1, <1>2, <1>3, <1>4, <1>6

LEMMA PartsOfGroup ==
  ASSUME NEW w \in Worlds, NEW i \in Inodes(w), NEW T, T \subseteq Group(w, i), NEW j \in Whole(w, T)
  PROVE  j \in Inodes(w) /\ Group(w, j) = Group(w, i) /\ SizeOn(w, j) = SizeOn(w, i)
<1>1. j \in Inodes(w) /\ Cluster(w, j) \subseteq T
  BY DEF Whole
<1>2. PICK r \in Cluster(w, j) : TRUE
  BY <1>1, ClusterIs
<1>3. r.inode = j /\ r \in Group(w, i) /\ r \in Group(w, j)
  BY <1>1, <1>2, GroupIs DEF Cluster
<1> QED BY <1>1, <1>3, GroupIs

Trashed(w, poste) ==
  {i \in Inodes(w) : PosteOf(Group(w, i)) = poste /\ i \in Whole(w, OutOf(Group(w, i)))}
IdleHere(w, i) == IdleFor(Group(w, i), Unused(w))
Idled(w) == {i \in Inodes(w) : IdleHere(w, i) /\ i \in Whole(w, KeptOf(Group(w, i)))}

LEMMA PartsAre ==
  ASSUME NEW w \in Worlds, NEW i \in Inodes(w)
  PROVE  /\ OutOf(Group(w, i)) \subseteq Group(w, i) /\ KeptOf(Group(w, i)) \subseteq Group(w, i)
         /\ OutOf(Group(w, i)) \subseteq Park(w) /\ KeptOf(Group(w, i)) \subseteq Park(w)
         /\ SizeOn(w, i) = 0 => KeptOf(Group(w, i)) = {} /\ OutOf(Group(w, i)) = {}
         /\ \A r \in OutOf(Group(w, i)) : \A q \in KeptOf(Group(w, i)) : r.inode # q.inode
         /\ \A r \in KeptOf(Group(w, i)) : ~r.stale /\ ~r.orphan
         /\ SizeOn(w, i) # 0 =>
              \A r \in Group(w, i) : r \in KeptOf(Group(w, i)) \/ r.stale \/ r.orphan
<1>1. OutOf(Group(w, i)) \subseteq Group(w, i) /\ KeptOf(Group(w, i)) \subseteq Group(w, i)
  BY DEF OutOf, KeptOf, Kept, Disposable
<1>2. SizeOn(w, i) = 0 => KeptOf(Group(w, i)) = {} /\ OutOf(Group(w, i)) = {}
  BY <1>1, GroupIs DEF KeptOf, OutOf
<1>3. ASSUME NEW r \in OutOf(Group(w, i)), NEW q \in KeptOf(Group(w, i)) PROVE r.inode # q.inode
  <2>1. r \in Park(w) /\ q \in Park(w)
    BY <1>1, GroupIs
  <2>2. InodeOf(r) # InodeOf(q)
    BY DEF OutOf
  <2> QED BY <2>1, <2>2, ParkIs DEF InodeOf, Recorded
<1>4. \A r \in KeptOf(Group(w, i)) : ~r.stale /\ ~r.orphan
  BY DEF KeptOf, Kept, Disposable
<1>5. SizeOn(w, i) # 0 => \A r \in Group(w, i) : r \in KeptOf(Group(w, i)) \/ r.stale \/ r.orphan
  BY GroupIs DEF KeptOf, Kept, Disposable
<1> QED BY <1>1, <1>2, <1>3, <1>4, <1>5, GroupIs

(* The headings of the trash, over all contents. *)
AttOf(w, i) == Attribution(Group(w, i), Unused(w))

LEMMA ClassifyIs ==
  ASSUME NEW w \in Worlds
  PROVE  Classify(Park(w), Unused(w)) = {AttOf(w, i) : i \in Inodes(w)}
<1>1. Classify(Park(w), Unused(w)) = {Attribution(g, Unused(w)) : g \in GroupByContent(Park(w))}
  BY DEF Classify
<1>2. ASSUME NEW g PROVE g \in GroupByContent(Park(w)) <=> \E i \in Inodes(w) : g = Group(w, i)
  BY GroupsAre
<1> QED BY <1>1, <1>2 DEF AttOf

LEMMA TrashIs ==
  ASSUME NEW w \in Worlds, NEW i \in Inodes(w), NEW s
  PROVE  s \in AttOf(w, i).trash <=>
           \E p \in On(w, Trashed(w, PosteOf(Group(w, i)))) :
             Group(w, w.inode[p]) = Group(w, i) /\ s = ShareOf(w, p)
<1>1. AttOf(w, i).trash = Shares(OutOf(Group(w, i)))
  BY AttributionIs DEF AttOf
<1>2. s \in AttOf(w, i).trash <=> \E p \in On(w, Whole(w, OutOf(Group(w, i)))) : s = ShareOf(w, p)
  BY <1>1, PartsAre, SharesAre
<1>3. ASSUME NEW p \in On(w, Whole(w, OutOf(Group(w, i))))
      PROVE  p \in On(w, Trashed(w, PosteOf(Group(w, i)))) /\ Group(w, w.inode[p]) = Group(w, i)
  <2>1. PICK j : j = w.inode[p]
    OBVIOUS
  <2>2. p \in Paths /\ j \in Whole(w, OutOf(Group(w, i)))
    BY <2>1 DEF On
  <2>3. j \in Inodes(w) /\ Group(w, j) = Group(w, i)
    BY <2>2, PartsAre, PartsOfGroup
  <2> QED BY <2>1, <2>2, <2>3 DEF On, Trashed
<1>4. ASSUME NEW p \in On(w, Trashed(w, PosteOf(Group(w, i)))), Group(w, w.inode[p]) = Group(w, i)
      PROVE  p \in On(w, Whole(w, OutOf(Group(w, i))))
  BY <1>4 DEF On, Trashed
<1> QED BY <1>2, <1>3, <1>4

LEMMA UnusedIs ==
  ASSUME NEW w \in Worlds, NEW i \in Inodes(w), NEW s
  PROVE  s \in AttOf(w, i).unused <=>
           \E p \in On(w, Idled(w)) : Group(w, w.inode[p]) = Group(w, i) /\ s = ShareOf(w, p)
<1>1. AttOf(w, i).unused = IF IdleHere(w, i) THEN Shares(KeptOf(Group(w, i))) ELSE {}
  BY AttributionIs DEF AttOf, IdleHere
<1>2. s \in AttOf(w, i).unused <=>
        IdleHere(w, i) /\ \E p \in On(w, Whole(w, KeptOf(Group(w, i)))) : s = ShareOf(w, p)
  <2>1. Shares(KeptOf(Group(w, i))) = {ShareOf(w, p) : p \in On(w, Whole(w, KeptOf(Group(w, i))))}
    BY PartsAre, SharesAre
  <2> QED BY <1>1, <2>1
<1>3. ASSUME NEW p \in On(w, Whole(w, KeptOf(Group(w, i)))), IdleHere(w, i)
      PROVE  p \in On(w, Idled(w)) /\ Group(w, w.inode[p]) = Group(w, i)
  <2>1. PICK j : j = w.inode[p]
    OBVIOUS
  <2>2. p \in Paths /\ j \in Whole(w, KeptOf(Group(w, i)))
    BY <2>1 DEF On
  <2>3. j \in Inodes(w) /\ Group(w, j) = Group(w, i)
    BY <2>2, PartsAre, PartsOfGroup
  <2> QED BY <1>3, <2>1, <2>2, <2>3 DEF On, Idled, IdleHere
<1>4. ASSUME NEW p \in On(w, Idled(w)), Group(w, w.inode[p]) = Group(w, i)
      PROVE  p \in On(w, Whole(w, KeptOf(Group(w, i)))) /\ IdleHere(w, i)
  BY <1>4 DEF On, Idled, IdleHere
<1> QED BY <1>2, <1>3, <1>4

-----------------------------------------------------------------------------
(* The copies in excess. *)

OnV(K, v) == ByInode({r \in K : r.vol = v})
KeepV(K, v) == PreferredKeeper(OnV(K, v))
GoneV(K, v) == {c \in OnV(K, v) \ {KeepV(K, v)} : Covered(c)}
DupV(K, v) == [keep    |-> FirstOf(KeepV(K, v)).path,
               replace |-> {r.path : r \in UNION GoneV(K, v)},
               bytes   |-> Cardinality(GoneV(K, v)) * SizeOf(K)]

LEMMA DuplicatesIs ==
  ASSUME NEW K
  PROVE  Duplicates(K) = {DupV(K, v) : v \in {u \in {r.vol : r \in K} : GoneV(K, u) # {}}}
BY Zenon DEF Duplicates, OnV, KeepV, GoneV, DupV

OnVol(w, i) == {r \in KeptOf(Group(w, i)) : r.vol = VolumeOf[i]}
KeeperAt(w, i) == FirstOf(PreferredKeeper(ByInode(OnVol(w, i))))
Gone(w, i) == {j \in Whole(w, OnVol(w, i)) : j # KeeperAt(w, i).inode}
DupOf(w, i) == [keep    |-> KeeperAt(w, i).path,
                replace |-> On(w, Gone(w, i)),
                bytes   |-> Cardinality(Gone(w, i)) * SizeOn(w, i)]
Merged(w) == {i \in Inodes(w) : ~IdleHere(w, i) /\ i \in Gone(w, i)}

LEMMA SameDesk ==
  ASSUME NEW w, NEW i, NEW j, Group(w, j) = Group(w, i), VolumeOf[j] = VolumeOf[i], SizeOn(w, j) = SizeOn(w, i)
  PROVE  /\ OnVol(w, j) = OnVol(w, i) /\ KeeperAt(w, j) = KeeperAt(w, i)
         /\ Gone(w, j) = Gone(w, i) /\ DupOf(w, j) = DupOf(w, i)
         /\ IdleHere(w, j) = IdleHere(w, i) /\ AttOf(w, j) = AttOf(w, i)
<1>1. OnVol(w, j) = OnVol(w, i)
  BY DEF OnVol
<1>2. KeeperAt(w, j) = KeeperAt(w, i)
  BY <1>1 DEF KeeperAt
<1>3. Gone(w, j) = Gone(w, i)
  BY <1>1, <1>2 DEF Gone
<1>4. DupOf(w, j) = DupOf(w, i)
  BY <1>2, <1>3 DEF DupOf
<1>5. IdleHere(w, j) = IdleHere(w, i) /\ AttOf(w, j) = AttOf(w, i)
  BY DEF IdleHere, AttOf
<1> QED BY <1>1, <1>2, <1>3, <1>4, <1>5

LEMMA OnVolIs ==
  ASSUME NEW w \in Worlds, NEW i \in Inodes(w)
  PROVE  /\ OnVol(w, i) \subseteq KeptOf(Group(w, i)) /\ OnVol(w, i) \subseteq Group(w, i)
         /\ OnVol(w, i) \subseteq Park(w)
         /\ \A j \in Whole(w, OnVol(w, i)) :
              /\ j \in Inodes(w) \ w.outside /\ Cluster(w, j) \subseteq OnVol(w, i)
              /\ Group(w, j) = Group(w, i) /\ VolumeOf[j] = VolumeOf[i] /\ SizeOn(w, j) = SizeOn(w, i)
<1>1. OnVol(w, i) \subseteq KeptOf(Group(w, i)) /\ OnVol(w, i) \subseteq Group(w, i) /\ OnVol(w, i) \subseteq Park(w)
  BY PartsAre DEF OnVol
<1>2. ASSUME NEW j \in Whole(w, OnVol(w, i))
      PROVE  /\ j \in Inodes(w) \ w.outside /\ Cluster(w, j) \subseteq OnVol(w, i)
             /\ Group(w, j) = Group(w, i) /\ VolumeOf[j] = VolumeOf[i] /\ SizeOn(w, j) = SizeOn(w, i)
  <2>1. j \in Inodes(w) \ w.outside /\ Cluster(w, j) \subseteq OnVol(w, i)
    BY DEF Whole
  <2>2. Group(w, j) = Group(w, i) /\ SizeOn(w, j) = SizeOn(w, i)
    BY <1>1, PartsOfGroup
  <2>3. PICK r \in Cluster(w, j) : TRUE
    BY <2>1, ClusterIs
  <2>4. r.inode = j /\ r.vol = VolumeOf[i] /\ r \in Park(w)
    BY <2>1, <2>3 DEF OnVol, Cluster
  <2>5. r.vol = VolumeOf[r.inode]
    BY <2>4, ParkIs DEF Recorded
  <2> QED BY <2>1, <2>2, <2>4, <2>5
<1> QED BY <1>1, <1>2

LEMMA KeeperIs ==
  ASSUME NEW w \in Worlds, NEW i \in Inodes(w), OnVol(w, i) # {}
  PROVE  /\ KeeperAt(w, i) \in OnVol(w, i)
         /\ \A j \in Whole(w, OnVol(w, i)) :
              Cluster(w, j) = PreferredKeeper(ByInode(OnVol(w, i))) <=> j = KeeperAt(w, i).inode
<1>1. PICK T : T = OnVol(w, i)
  OBVIOUS
<1>2. T \subseteq Park(w) /\ T # {}
  BY <1>1, OnVolIs
<1>3. PICK c : c = PreferredKeeper(ByInode(T))
  OBVIOUS
<1>4. c \in ByInode(T)
  BY <1>2, <1>3, KeeperExists
<1>5. PICK r \in T : c = T \cap Cluster(w, r.inode)
  BY <1>2, <1>4, ByInodeIs
<1>6. c \subseteq T /\ r \in c /\ c \subseteq Park(w)
  BY <1>2, <1>5 DEF Cluster
<1>7. FirstOf(c) \in c
  BY <1>6, FirstIs
<1>8. FirstOf(c).inode = r.inode
  BY <1>5, <1>7 DEF Cluster
<1>9. KeeperAt(w, i) = FirstOf(c)
  BY <1>1, <1>3 DEF KeeperAt
<1>10. ASSUME NEW j \in Whole(w, T) PROVE Cluster(w, j) = c <=> j = r.inode
  <2>1. Cluster(w, j) \subseteq T
    BY DEF Whole
  <2>2. j = r.inode => Cluster(w, j) = c
    BY <1>5, <2>1
  <2>3. Cluster(w, j) = c => j = r.inode
    BY <1>6 DEF Cluster
  <2> QED BY <2>2, <2>3
<1> QED BY <1>1, <1>3, <1>6, <1>7, <1>8, <1>9, <1>10

LEMMA GoneIs ==
  ASSUME NEW w \in Worlds, NEW i \in Inodes(w)
  PROVE  GoneV(KeptOf(Group(w, i)), VolumeOf[i]) = {Cluster(w, j) : j \in Gone(w, i)}
<1>1. PICK T : T = OnVol(w, i)
  OBVIOUS
<1>2. OnV(KeptOf(Group(w, i)), VolumeOf[i]) = ByInode(T)
  BY <1>1 DEF OnV, OnVol
<1>3. T \subseteq Park(w)
  BY <1>1, OnVolIs
<1>4. PICK S : S = {c \in ByInode(T) : Covered(c)}
  OBVIOUS
<1>5. S = {Cluster(w, j) : j \in Whole(w, T)}
  BY <1>3, <1>4, WholeIs
<1>6. PICK k : k = PreferredKeeper(ByInode(T))
  OBVIOUS
<1>7. GoneV(KeptOf(Group(w, i)), VolumeOf[i]) = S \ {k}
  BY <1>2, <1>4, <1>6 DEF GoneV, KeepV
<1>8. CASE T = {}
  <2>1. Whole(w, T) = {}
    BY <1>8, ClusterIs DEF Whole
  <2> QED BY <1>1, <1>5, <1>7, <2>1 DEF Gone
<1>9. CASE T # {}
  <2>1. \A j \in Whole(w, T) : Cluster(w, j) = k <=> j = KeeperAt(w, i).inode
    BY <1>1, <1>6, <1>9, KeeperIs
  <2>2. \A j : j \in Gone(w, i) <=> j \in Whole(w, T) /\ j # KeeperAt(w, i).inode
    BY <1>1 DEF Gone
  <2>3. S \ {k} = {Cluster(w, j) : j \in Gone(w, i)}
    BY <1>5, <2>1, <2>2
  <2> QED BY <1>7, <2>3
<1> QED BY <1>8, <1>9

LEMMA DupVIs ==
  ASSUME NEW w \in Worlds, NEW i \in Inodes(w), Gone(w, i) # {}
  PROVE  DupV(KeptOf(Group(w, i)), VolumeOf[i]) = DupOf(w, i)
<1>1. PICK K : K = KeptOf(Group(w, i))
  OBVIOUS
<1>2. PICK G : G = GoneV(K, VolumeOf[i])
  OBVIOUS
<1>3. G = {Cluster(w, j) : j \in Gone(w, i)}
  BY <1>1, <1>2, GoneIs
<1>4. ASSUME NEW j \in Gone(w, i)
      PROVE  j \in Inodes(w) /\ Cluster(w, j) \subseteq K /\ Cluster(w, j) # {}
  <2>1. j \in Inodes(w) /\ Cluster(w, j) \subseteq OnVol(w, i)
    BY OnVolIs DEF Gone
  <2> QED BY <1>1, <2>1, ClusterIs, OnVolIs
<1>5. FirstOf(KeepV(K, VolumeOf[i])) = KeeperAt(w, i)
  BY <1>1 DEF KeepV, OnV, KeeperAt, OnVol
<1>6. {r.path : r \in UNION G} = On(w, Gone(w, i))
  <2>1. ASSUME NEW p PROVE p \in {r.path : r \in UNION G} <=> \E j \in Gone(w, i) : \E r \in Cluster(w, j) : r.path = p
    BY <1>3
  <2>2. ASSUME NEW j \in Gone(w, i), NEW r \in Cluster(w, j) PROVE r.path \in On(w, Gone(w, i))
    <3>1. r.inode = j /\ r \in Park(w)
      BY DEF Cluster
    <3> QED BY <3>1, ParkIs DEF Recorded, On
  <2>3. ASSUME NEW p \in On(w, Gone(w, i)) PROVE \E j \in Gone(w, i) : \E r \in Cluster(w, j) : r.path = p
    <3>1. p \in Paths /\ w.inode[p] \in Gone(w, i)
      BY DEF On
    <3>2. PICK r \in Park(w) : r.path = p
      BY <3>1, ParkIs
    <3>3. r \in Cluster(w, w.inode[p])
      BY <3>2, ParkIs DEF Recorded, Cluster
    <3> QED BY <3>1, <3>2, <3>3
  <2> QED BY <2>1, <2>2, <2>3
<1>7. Cardinality(G) = Cardinality(Gone(w, i))
  <2>1. IsFiniteSet(Gone(w, i))
    <3> DEFINE g == [p \in Paths |-> w.inode[p]]
    <3>1. g \in Surjection(Paths, Inodes(w))
      BY DEF Surjection, Inodes
    <3>2. IsFiniteSet(Inodes(w))
      <4> HIDE DEF g
      <4> QED BY <3>1, ParkIs, FS_Surjection
    <3>3. Gone(w, i) \subseteq Inodes(w)
      BY <1>4
    <3> QED BY <3>2, <3>3, FS_Subset
  <2> DEFINE g == [j \in Gone(w, i) |-> Cluster(w, j)]
  <2>2. ASSUME NEW j \in Gone(w, i), NEW k \in Gone(w, i), Cluster(w, j) = Cluster(w, k) PROVE j = k
    <3>1. PICK r \in Cluster(w, j) : TRUE
      BY <1>4
    <3> QED BY <2>2, <3>1 DEF Cluster
  <2>3. /\ g \in [Gone(w, i) -> G]
        /\ \A j, k \in Gone(w, i) : g[j] = g[k] => j = k
        /\ \A c \in G : \E j \in Gone(w, i) : g[j] = c
    BY <1>3, <2>2
  <2> HIDE DEF g
  <2>4. g \in Bijection(Gone(w, i), G)
    BY <2>3 DEF Bijection, Injection, Surjection, IsInjective
  <2>5. ExistsBijection(Gone(w, i), G)
    BY <2>4 DEF ExistsBijection
  <2> QED BY <2>1, <2>5, FS_Bijection
<1>8. SizeOf(K) = SizeOn(w, i)
  <2>1. PICK j \in Gone(w, i) : TRUE
    OBVIOUS
  <2>2. K # {} /\ \A r \in K : r.size = SizeOn(w, i)
    BY <1>1, <1>4, <2>1, PartsAre, GroupIs
  <2>3. {r.size : r \in K} = {SizeOn(w, i)}
    BY <2>2
  <2> QED BY <2>3, InodesAre, MaxSame DEF SizeOf
<1> QED BY <1>1, <1>2, <1>5, <1>6, <1>7, <1>8 DEF DupV, DupOf

LEMMA DupsAre ==
  ASSUME NEW w \in Worlds, NEW i \in Inodes(w), NEW s
  PROVE  s \in AttOf(w, i).dups <=> \E j \in Merged(w) : Group(w, j) = Group(w, i) /\ s = DupOf(w, j)
<1>1. PICK K : K = KeptOf(Group(w, i))
  OBVIOUS
<1>2. AttOf(w, i).dups = IF IdleHere(w, i) THEN {} ELSE Duplicates(K)
  BY <1>1, AttributionIs DEF AttOf, IdleHere
<1>3. Duplicates(K) = {DupV(K, v) : v \in {u \in {r.vol : r \in K} : GoneV(K, u) # {}}}
  BY DuplicatesIs
<1>4. ASSUME s \in AttOf(w, i).dups
      PROVE  \E j \in Merged(w) : Group(w, j) = Group(w, i) /\ s = DupOf(w, j)
  <2>1. ~IdleHere(w, i) /\ s \in Duplicates(K)
    BY <1>2, <1>4
  <2>2. PICK r \in K : GoneV(K, r.vol) # {} /\ s = DupV(K, r.vol)
    BY <1>3, <2>1
  <2>3. PICK k : k = r.inode
    OBVIOUS
  <2>4. r \in Group(w, i) /\ r \in Park(w)
    BY <1>1, <2>2, PartsAre
  <2>5. k \in Inodes(w) /\ Group(w, k) = Group(w, i) /\ r.vol = VolumeOf[k]
    BY <2>3, <2>4, GroupIs, ParkIs DEF Recorded
  <2>6. GoneV(K, r.vol) = {Cluster(w, j) : j \in Gone(w, k)}
    BY <1>1, <2>5, GoneIs
  <2>7. PICK j \in Gone(w, k) : TRUE
    BY <2>2, <2>6
  <2>8. s = DupOf(w, k)
    BY <1>1, <2>2, <2>5, <2>7, DupVIs
  <2>9. j \in Inodes(w) /\ Group(w, j) = Group(w, k) /\ VolumeOf[j] = VolumeOf[k] /\ SizeOn(w, j) = SizeOn(w, k)
    BY <2>5, <2>7, OnVolIs DEF Gone
  <2>10. Gone(w, j) = Gone(w, k) /\ DupOf(w, j) = DupOf(w, k)
    BY <2>9, SameDesk
  <2>11. IdleHere(w, j) = IdleHere(w, i)
    BY <2>5, <2>9 DEF IdleHere
  <2>12. j \in Merged(w)
    BY <2>1, <2>7, <2>9, <2>10, <2>11 DEF Merged
  <2> QED BY <2>5, <2>8, <2>9, <2>10, <2>12
<1>5. ASSUME NEW j \in Merged(w), Group(w, j) = Group(w, i), s = DupOf(w, j)
      PROVE  s \in AttOf(w, i).dups
  <2>1. j \in Inodes(w) /\ ~IdleHere(w, j) /\ j \in Gone(w, j)
    BY DEF Merged
  <2>2. ~IdleHere(w, i)
    BY <1>5, <2>1 DEF IdleHere
  <2>3. Cluster(w, j) \subseteq OnVol(w, j) /\ Cluster(w, j) # {}
    BY <2>1, OnVolIs, ClusterIs DEF Gone
  <2>4. PICK r \in K : r.vol = VolumeOf[j]
    BY <1>1, <1>5, <2>3 DEF OnVol
  <2>5. GoneV(K, VolumeOf[j]) = {Cluster(w, k) : k \in Gone(w, j)}
    BY <1>1, <1>5, <2>1, GoneIs
  <2>6. GoneV(K, r.vol) # {}
    BY <2>1, <2>4, <2>5
  <2>7. s = DupV(K, r.vol)
    BY <1>1, <1>5, <2>1, <2>4, DupVIs
  <2> QED BY <1>2, <1>3, <2>2, <2>6, <2>7
<1> QED BY <1>4, <1>5

-----------------------------------------------------------------------------
(* The sums: what an operator adds up is the sum of a function. *)

Lost(w, names) == {i \in {w.inode[p] : p \in Paths} \ w.outside : \A p \in DOMAIN names : names[p] # i}
CoveredOf(park1, ref) == {c \in ByInode({r \in park1 : ref \in r.refs}) : Covered(c)}

LEMMA BytesIs ==
  ASSUME NEW v, NEW S, IsFiniteSet(S), \A x \in S : v[x] = x.bytes
  PROVE  Bytes(S) = SumBy(v, S)
<1> DEFINE Val(x) == x.bytes
           Eq(h) == h = [s \in SUBSET S |->
                     IF s = {} THEN 0
                     ELSE Val(CHOOSE x \in s : TRUE) + h[s \ {CHOOSE x \in s : TRUE}]]
           iter == CHOOSE h : Eq(h)
<1>1. \A x \in S : v[x] = Val(x)
  OBVIOUS
<1>2. Bytes(S) = iter[S]
  BY DEF Bytes, MapThenSumSet, MapThenFoldSet
<1> HIDE DEF Val
<1>3. \A h : Eq(h) <=> Adds(h, v, S)
  <2> SUFFICES ASSUME NEW h PROVE Eq(h) <=> Adds(h, v, S)
    OBVIOUS
  <2>1. \A s \in SUBSET S :
          (IF s = {} THEN 0 ELSE Val(CHOOSE x \in s : TRUE) + h[s \ {CHOOSE x \in s : TRUE}])
          = (IF s = {} THEN 0 ELSE v[Pick(s)] + h[s \ {Pick(s)}])
    <3> SUFFICES ASSUME NEW s \in SUBSET S, s # {}
                 PROVE  Val(Pick(s)) + h[s \ {Pick(s)}] = v[Pick(s)] + h[s \ {Pick(s)}]
      BY DEF Pick
    <3>1. Pick(s) \in S
      BY Picked
    <3> QED BY <1>1, <3>1
  <2> QED BY <2>1 DEF Adds
<1>4. \E h : Eq(h)
  <2>1. PICK g : Adds(g, v, S)
    BY AddsExists
  <2> HIDE DEF Eq
  <2> QED BY <1>3, <2>1
<1>5. Eq(iter)
  BY <1>4
<1>6. PICK h : Adds(h, v, S) /\ SumBy(v, S) = h[S]
  BY SumIs
<1> HIDE DEF iter, Eq
<1> QED BY <1>2, <1>3, <1>5, <1>6, AddsAgree

LEMMA FreedIs ==
  ASSUME NEW w, NEW names, NEW v, IsFiniteSet(Lost(w, names)),
         \A x \in Lost(w, names) : v[x] = SizeOn(w, x)
  PROVE  Freed(w, names) = SumBy(v, Lost(w, names))
<1> DEFINE Val(x) == SizeOfContent[w.content[x]]
           Eq(h) == h = [s \in SUBSET Lost(w, names) |->
                     IF s = {} THEN 0
                     ELSE Val(CHOOSE x \in s : TRUE) + h[s \ {CHOOSE x \in s : TRUE}]]
           iter == CHOOSE h : Eq(h)
<1>1. \A x \in Lost(w, names) : v[x] = Val(x)
  BY DEF SizeOn
<1>2. Freed(w, names) = iter[Lost(w, names)]
  BY DEF Freed, Lost, MapThenSumSet, MapThenFoldSet
<1> HIDE DEF Val
<1>3. \A h : Eq(h) <=> Adds(h, v, Lost(w, names))
  <2> SUFFICES ASSUME NEW h PROVE Eq(h) <=> Adds(h, v, Lost(w, names))
    OBVIOUS
  <2>1. \A s \in SUBSET Lost(w, names) :
          (IF s = {} THEN 0 ELSE Val(CHOOSE x \in s : TRUE) + h[s \ {CHOOSE x \in s : TRUE}])
          = (IF s = {} THEN 0 ELSE v[Pick(s)] + h[s \ {Pick(s)}])
    <3> SUFFICES ASSUME NEW s \in SUBSET Lost(w, names), s # {}
                 PROVE  Val(Pick(s)) + h[s \ {Pick(s)}] = v[Pick(s)] + h[s \ {Pick(s)}]
      BY DEF Pick
    <3>1. Pick(s) \in Lost(w, names)
      BY Picked
    <3> QED BY <1>1, <3>1
  <2> QED BY <2>1 DEF Adds
<1>4. \E h : Eq(h)
  <2>1. PICK g : Adds(g, v, Lost(w, names))
    BY AddsExists
  <2> HIDE DEF Eq
  <2> QED BY <1>3, <2>1
<1>5. Eq(iter)
  BY <1>4
<1>6. PICK h : Adds(h, v, Lost(w, names)) /\ SumBy(v, Lost(w, names)) = h[Lost(w, names)]
  BY SumIs
<1> HIDE DEF iter, Eq
<1> QED BY <1>2, <1>3, <1>5, <1>6, AddsAgree

LEMMA FootprintIs ==
  ASSUME NEW park1, NEW ref, NEW v, IsFiniteSet(CoveredOf(park1, ref)),
         \A x \in CoveredOf(park1, ref) : v[x] = SizeOf(x)
  PROVE  Footprint(park1, ref).freed = SumBy(v, CoveredOf(park1, ref))
<1> DEFINE Val(x) == SizeOf(x)
           Eq(h) == h = [s \in SUBSET CoveredOf(park1, ref) |->
                     IF s = {} THEN 0
                     ELSE Val(CHOOSE x \in s : TRUE) + h[s \ {CHOOSE x \in s : TRUE}]]
           iter == CHOOSE h : Eq(h)
<1>1. \A x \in CoveredOf(park1, ref) : v[x] = Val(x)
  OBVIOUS
<1>2. Footprint(park1, ref).freed = iter[CoveredOf(park1, ref)]
  BY DEF Footprint, CoveredOf, MapThenSumSet, MapThenFoldSet
<1> HIDE DEF Val
<1>3. \A h : Eq(h) <=> Adds(h, v, CoveredOf(park1, ref))
  <2> SUFFICES ASSUME NEW h PROVE Eq(h) <=> Adds(h, v, CoveredOf(park1, ref))
    OBVIOUS
  <2>1. \A s \in SUBSET CoveredOf(park1, ref) :
          (IF s = {} THEN 0 ELSE Val(CHOOSE x \in s : TRUE) + h[s \ {CHOOSE x \in s : TRUE}])
          = (IF s = {} THEN 0 ELSE v[Pick(s)] + h[s \ {Pick(s)}])
    <3> SUFFICES ASSUME NEW s \in SUBSET CoveredOf(park1, ref), s # {}
                 PROVE  Val(Pick(s)) + h[s \ {Pick(s)}] = v[Pick(s)] + h[s \ {Pick(s)}]
      BY DEF Pick
    <3>1. Pick(s) \in CoveredOf(park1, ref)
      BY Picked
    <3> QED BY <1>1, <3>1
  <2> QED BY <2>1 DEF Adds
<1>4. \E h : Eq(h)
  <2>1. PICK g : Adds(g, v, CoveredOf(park1, ref))
    BY AddsExists
  <2> HIDE DEF Eq
  <2> QED BY <1>3, <2>1
<1>5. Eq(iter)
  BY <1>4
<1>6. PICK h : Adds(h, v, CoveredOf(park1, ref)) /\ SumBy(v, CoveredOf(park1, ref)) = h[CoveredOf(park1, ref)]
  BY SumIs
<1> HIDE DEF iter, Eq
<1> QED BY <1>2, <1>3, <1>5, <1>6, AddsAgree

Weights(w) == [i \in Inodes(w) |-> SizeOn(w, i)]
Total(w, X) == SumBy(Weights(w), X)

LEMMA FiniteAre ==
  ASSUME NEW w \in Worlds
  PROVE  /\ IsFiniteSet(Inodes(w))
         /\ \A X \in SUBSET Inodes(w) :
              IsFiniteSet(X) /\ Total(w, X) \in Nat /\ \A i \in X : Weights(w)[i] = SizeOn(w, i) /\ Weights(w)[i] \in Nat
<1> DEFINE g == [p \in Paths |-> w.inode[p]]
<1>1. g \in Surjection(Paths, Inodes(w))
  BY DEF Surjection, Inodes
<1>2. IsFiniteSet(Inodes(w))
  <2> HIDE DEF g
  <2> QED BY <1>1, ParkIs, FS_Surjection
<1>3. ASSUME NEW X \in SUBSET Inodes(w)
      PROVE  IsFiniteSet(X) /\ Total(w, X) \in Nat /\ \A i \in X : Weights(w)[i] = SizeOn(w, i) /\ Weights(w)[i] \in Nat
  <2>1. IsFiniteSet(X)
    BY <1>2, FS_Subset
  <2>2. \A i \in X : Weights(w)[i] = SizeOn(w, i) /\ Weights(w)[i] \in Nat
    BY InodesAre DEF Weights
  <2>3. SumBy(Weights(w), X) \in Nat
    BY <2>1, <2>2, SumNat
  <2> QED BY <2>1, <2>2, <2>3 DEF Total
<1> QED BY <1>2, <1>3

LEMMA FirstPathIs ==
  ASSUME NEW w \in Worlds, NEW i \in Inodes(w)
  PROVE  FirstPath(w, i) \in Paths /\ w.inode[FirstPath(w, i)] = i
<1>1. FirstOf(Cluster(w, i)) \in Cluster(w, i)
  BY ClusterIs, FirstIs
<1>2. FirstOf(Cluster(w, i)) \in Park(w) /\ FirstOf(Cluster(w, i)).inode = i
  BY <1>1 DEF Cluster
<1> QED BY <1>2, ParkIs DEF FirstPath, Recorded

(* Whatever carries the shares of whole inodes carries their sizes. *)
LEMMA PathSum ==
  ASSUME NEW w \in Worlds, NEW X, X \subseteq Inodes(w), NEW f,
         \A p \in On(w, X) : f[p].bytes = ShareOf(w, p).bytes,
         \A p, q \in On(w, X) : f[p] = f[q] => p = q
  PROVE  Bytes({f[p] : p \in On(w, X)}) = Total(w, X) /\ IsFiniteSet({f[p] : p \in On(w, X)})
<1>1. PICK T : T = {f[p] : p \in On(w, X)}
  OBVIOUS
<1>2. IsFiniteSet(T)
  <2> DEFINE g == [p \in On(w, X) |-> f[p]]
  <2>1. g \in Surjection(On(w, X), T)
    BY <1>1 DEF Surjection
  <2>2. IsFiniteSet(On(w, X))
    BY ParkIs, FS_Subset DEF On
  <2> HIDE DEF g
  <2> QED BY <2>1, <2>2, FS_Surjection
<1>3. PICK v : v = [t \in T |-> t.bytes]
  OBVIOUS
<1>4. Bytes(T) = SumBy(v, T)
  BY <1>2, <1>3, BytesIs
<1>5. PICK g : g = [i \in X |-> f[FirstPath(w, i)]]
  OBVIOUS
<1>6. ASSUME NEW i \in X PROVE FirstPath(w, i) \in On(w, X) /\ w.inode[FirstPath(w, i)] = i /\ g[i] = f[FirstPath(w, i)]
  BY <1>5, FirstPathIs DEF On
<1>7. \A i \in X : g[i] \in T
  BY <1>1, <1>6
<1>8. ASSUME NEW t \in T PROVE v[t] = SumBy(Weights(w), Fiber(g, X, t))
  <2>1. PICK p \in On(w, X) : t = f[p]
    BY <1>1
  <2>2. PICK i : i = w.inode[p]
    OBVIOUS
  <2>3. i \in X /\ i \in Inodes(w) /\ p \in Paths
    BY <2>1, <2>2 DEF On
  <2>4. ASSUME NEW j \in X PROVE g[j] = t <=> p = FirstPath(w, j)
    BY <1>6, <2>1
  <2>5. v[t] = IF p = FirstPath(w, i) THEN SizeOn(w, i) ELSE 0
    BY <1>3, <2>1, <2>2 DEF ShareOf
  <2>6. CASE p = FirstPath(w, i)
    <3>1. Fiber(g, X, t) = {i}
      BY <1>6, <2>2, <2>3, <2>4, <2>6 DEF Fiber
    <3>2. Weights(w)[i] = SizeOn(w, i) /\ SizeOn(w, i) \in Nat
      BY <2>3, InodesAre DEF Weights
    <3>3. SumBy(Weights(w), {i}) = SizeOn(w, i)
      BY <3>2, SumOne
    <3>4. v[t] = SizeOn(w, i)
      BY <2>5, <2>6
    <3> QED BY <3>1, <3>3, <3>4
  <2>7. CASE p # FirstPath(w, i)
    <3>1. Fiber(g, X, t) = {}
      BY <1>6, <2>2, <2>4, <2>7 DEF Fiber
    <3> QED BY <2>5, <2>7, <3>1, SumEmpty
  <2> QED BY <2>6, <2>7
<1>9. IsFiniteSet(X) /\ \A i \in X : Weights(w)[i] \in Nat
  BY FiniteAre
<1>10. SumBy(Weights(w), X) = SumBy(v, T)
  BY <1>2, <1>7, <1>8, <1>9, SumFibers
<1> QED BY <1>1, <1>2, <1>4, <1>10 DEF Total

(* And what carries the copies in excess, the sizes of those it replaces. *)
LEMMA CopySum ==
  ASSUME NEW w \in Worlds, NEW Y, Y \subseteq Merged(w), \A i \in Y : Gone(w, i) \subseteq Y, NEW f,
         \A i \in Y : f[i].bytes = DupOf(w, i).bytes,
         \A i, j \in Y : f[i] = f[j] <=> Gone(w, i) = Gone(w, j)
  PROVE  Bytes({f[i] : i \in Y}) = Total(w, Y) /\ IsFiniteSet({f[i] : i \in Y})
<1>1. PICK T : T = {f[i] : i \in Y}
  OBVIOUS
<1>2. Y \subseteq Inodes(w) /\ IsFiniteSet(Y) /\ \A i \in Y : Weights(w)[i] \in Nat
  <2>1. Y \subseteq Inodes(w)
    BY DEF Merged
  <2> QED BY <2>1, FiniteAre
<1>3. IsFiniteSet(T)
  <2> DEFINE g == [i \in Y |-> f[i]]
  <2>1. g \in Surjection(Y, T)
    BY <1>1 DEF Surjection
  <2> HIDE DEF g
  <2> QED BY <1>2, <2>1, FS_Surjection
<1>4. PICK v : v = [t \in T |-> t.bytes]
  OBVIOUS
<1>5. Bytes(T) = SumBy(v, T)
  BY <1>3, <1>4, BytesIs
<1>6. ASSUME NEW t \in T PROVE v[t] = SumBy(Weights(w), Fiber(f, Y, t))
  <2>1. PICK i \in Y : t = f[i]
    BY <1>1
  <2>2. i \in Inodes(w) /\ Gone(w, i) \subseteq Y
    BY <1>2, <2>1
  <2>3. \A j \in Gone(w, i) : Gone(w, j) = Gone(w, i) /\ j \in Inodes(w) /\ SizeOn(w, j) = SizeOn(w, i)
    BY <2>2, OnVolIs, SameDesk DEF Gone
  <2>4. \A j \in Y : j \in Gone(w, j)
    BY DEF Merged
  <2>5. Fiber(f, Y, t) = Gone(w, i)
    BY <2>1, <2>2, <2>3, <2>4 DEF Fiber
  <2>6. IsFiniteSet(Gone(w, i)) /\ \A j \in Gone(w, i) : Weights(w)[j] = SizeOn(w, i)
    BY <1>2, <2>2, <2>3, FS_Subset DEF Weights
  <2>7. SizeOn(w, i) \in Nat
    BY <2>2, InodesAre
  <2>8. SumBy(Weights(w), Gone(w, i)) = Cardinality(Gone(w, i)) * SizeOn(w, i)
    BY <2>6, <2>7, SumSame
  <2>9. v[t] = Cardinality(Gone(w, i)) * SizeOn(w, i)
    BY <1>4, <2>1 DEF DupOf
  <2> QED BY <2>5, <2>8, <2>9
<1>7. \A i \in Y : f[i] \in T
  BY <1>1
<1>8. SumBy(Weights(w), Y) = SumBy(v, T)
  BY <1>2, <1>3, <1>6, <1>7, SumFibers
<1> QED BY <1>1, <1>3, <1>5, <1>8 DEF Total

-----------------------------------------------------------------------------
(* The plan, action by action, and the figures. *)

ReadHere(w, i) == \A r \in Group(w, i) : r.read
MergedIn(w) == {i \in Merged(w) : ~(w.cautious /\ ~ReadHere(w, i))}
LinkOf(w, i) == [kind |-> "hardlink", keep |-> DupOf(w, i).keep, replace |-> DupOf(w, i).replace,
                 sha |-> ShaOfCluster(Group(w, i)), bytes |-> DupOf(w, i).bytes]
BinOf(w, p) ==
  TrashAction(ShareOf(w, p), ShaOfCluster(Group(w, w.inode[p])), PosteOf(Group(w, w.inode[p])))
IdleOf(w, p) == TrashAction(ShareOf(w, p), ShaOfCluster(Group(w, w.inode[p])), "unused")
AllTrashed(w) == Trashed(w, "stale") \cup Trashed(w, "orphan")

Planned(w, a, x) ==
  \/ \E d \in IF w.cautious /\ ~a.read THEN {} ELSE a.dups :
       x = [kind |-> "hardlink", keep |-> d.keep, replace |-> d.replace, sha |-> a.sha, bytes |-> d.bytes]
  \/ \E s \in a.trash : x = TrashAction(s, a.sha, a.poste)
  \/ \E s \in a.unused : x = TrashAction(s, a.sha, "unused")

LEMMA PlanOfIs ==
  ASSUME NEW w \in Worlds, NEW x
  PROVE  x \in PlanOf(w) <=> \E i \in Inodes(w) : Planned(w, AttOf(w, i), x)
<1> DEFINE Of(a) ==
             {[kind |-> "hardlink", keep |-> d.keep, replace |-> d.replace, sha |-> a.sha, bytes |-> d.bytes] :
                d \in IF w.cautious /\ ~a.read THEN {} ELSE a.dups}
             \cup {TrashAction(s, a.sha, a.poste) : s \in a.trash}
             \cup {TrashAction(s, a.sha, "unused") : s \in a.unused}
<1>1. PlanOf(w) = UNION {Of(a) : a \in Classify(Park(w), Unused(w))}
  BY DEF PlanOf, GeneratePlan
<1>2. \A a : x \in Of(a) <=> Planned(w, a, x)
  BY DEF Planned
<1> HIDE DEF Of
<1>3. x \in PlanOf(w) <=> \E a \in Classify(Park(w), Unused(w)) : Planned(w, a, x)
  BY <1>1, <1>2
<1>4. \A a : a \in Classify(Park(w), Unused(w)) <=> \E i \in Inodes(w) : a = AttOf(w, i)
  BY ClassifyIs
<1> QED BY <1>3, <1>4

LEMMA OnIs ==
  ASSUME NEW w, NEW X, NEW p
  PROVE  p \in On(w, X) <=> p \in Paths /\ w.inode[p] \in X
BY DEF On

LEMMA PostesAre == ASSUME NEW g PROVE PosteOf(g) \in {"stale", "orphan"}
BY DEF PosteOf

LEMMA PlanIs ==
  ASSUME NEW w \in Worlds, NEW x
  PROVE  x \in PlanOf(w) <=>
           \/ \E i \in MergedIn(w) : x = LinkOf(w, i)
           \/ \E p \in On(w, AllTrashed(w)) : x = BinOf(w, p)
           \/ \E p \in On(w, Idled(w)) : x = IdleOf(w, p)
<1>1. ASSUME NEW i \in Inodes(w), Planned(w, AttOf(w, i), x)
      PROVE  \/ \E j \in MergedIn(w) : x = LinkOf(w, j)
             \/ \E p \in On(w, AllTrashed(w)) : x = BinOf(w, p)
             \/ \E p \in On(w, Idled(w)) : x = IdleOf(w, p)
  <2>1. /\ AttOf(w, i).sha = ShaOfCluster(Group(w, i)) /\ AttOf(w, i).poste = PosteOf(Group(w, i))
        /\ AttOf(w, i).read = ReadHere(w, i)
    BY AttributionIs DEF AttOf, ReadHere
  <2>2. ASSUME NEW d \in AttOf(w, i).dups, ~(w.cautious /\ ~ReadHere(w, i)),
               x = [kind |-> "hardlink", keep |-> d.keep, replace |-> d.replace,
                    sha |-> AttOf(w, i).sha, bytes |-> d.bytes]
        PROVE  \E j \in MergedIn(w) : x = LinkOf(w, j)
    <3>1. PICK j \in Merged(w) : Group(w, j) = Group(w, i) /\ d = DupOf(w, j)
      BY DupsAre
    <3>2. j \in MergedIn(w)
      BY <2>2, <3>1 DEF MergedIn, ReadHere
    <3> QED BY <2>1, <2>2, <3>1, <3>2 DEF LinkOf
  <2>3. ASSUME NEW s \in AttOf(w, i).trash, x = TrashAction(s, AttOf(w, i).sha, AttOf(w, i).poste)
        PROVE  \E p \in On(w, AllTrashed(w)) : x = BinOf(w, p)
    <3>1. PICK p \in On(w, Trashed(w, PosteOf(Group(w, i)))) : Group(w, w.inode[p]) = Group(w, i) /\ s = ShareOf(w, p)
      BY TrashIs
    <3>2. p \in On(w, AllTrashed(w))
      BY <3>1, OnIs, PostesAre DEF AllTrashed
    <3> QED BY <2>1, <2>3, <3>1, <3>2 DEF BinOf
  <2>4. ASSUME NEW s \in AttOf(w, i).unused, x = TrashAction(s, AttOf(w, i).sha, "unused")
        PROVE  \E p \in On(w, Idled(w)) : x = IdleOf(w, p)
    <3>1. PICK p \in On(w, Idled(w)) : Group(w, w.inode[p]) = Group(w, i) /\ s = ShareOf(w, p)
      BY UnusedIs
    <3> QED BY <2>1, <2>4, <3>1 DEF IdleOf
  <2> QED BY <1>1, <2>1, <2>2, <2>3, <2>4 DEF Planned
<1>2. ASSUME NEW j \in MergedIn(w), x = LinkOf(w, j)
      PROVE  \E i \in Inodes(w) : Planned(w, AttOf(w, i), x)
  <2>1. j \in Merged(w) /\ j \in Inodes(w) /\ ~(w.cautious /\ ~ReadHere(w, j))
    BY DEF MergedIn, Merged
  <2>2. AttOf(w, j).sha = ShaOfCluster(Group(w, j)) /\ AttOf(w, j).read = ReadHere(w, j)
    BY AttributionIs DEF AttOf, ReadHere
  <2>3. DupOf(w, j) \in AttOf(w, j).dups
    BY <2>1, DupsAre
  <2> QED BY <1>2, <2>1, <2>2, <2>3 DEF Planned, LinkOf
<1>3. ASSUME NEW p \in On(w, AllTrashed(w)), x = BinOf(w, p)
      PROVE  \E i \in Inodes(w) : Planned(w, AttOf(w, i), x)
  <2>1. PICK j : j = w.inode[p]
    OBVIOUS
  <2>2. j \in Inodes(w) /\ p \in On(w, Trashed(w, PosteOf(Group(w, j))))
    BY <2>1, OnIs DEF AllTrashed, Trashed
  <2>3. AttOf(w, j).sha = ShaOfCluster(Group(w, j)) /\ AttOf(w, j).poste = PosteOf(Group(w, j))
    BY AttributionIs DEF AttOf
  <2>4. ShareOf(w, p) \in AttOf(w, j).trash
    BY <2>1, <2>2, TrashIs
  <2> QED BY <1>3, <2>1, <2>2, <2>3, <2>4 DEF Planned, BinOf
<1>4. ASSUME NEW p \in On(w, Idled(w)), x = IdleOf(w, p)
      PROVE  \E i \in Inodes(w) : Planned(w, AttOf(w, i), x)
  <2>1. PICK j : j = w.inode[p]
    OBVIOUS
  <2>2. j \in Inodes(w)
    BY <2>1, OnIs DEF Idled
  <2>3. AttOf(w, j).sha = ShaOfCluster(Group(w, j))
    BY AttributionIs DEF AttOf
  <2>4. ShareOf(w, p) \in AttOf(w, j).unused
    BY <2>1, <2>2, UnusedIs
  <2> QED BY <1>4, <2>1, <2>2, <2>3, <2>4 DEF Planned, IdleOf
<1> QED BY <1>1, <1>2, <1>3, <1>4, PlanOfIs

-----------------------------------------------------------------------------
(* The headings are apart: an inode is freed under one only. *)

Freeable(w) == Inodes(w) \ w.outside

LEMMA HeadingsAre ==
  ASSUME NEW w \in Worlds
  PROVE  /\ AllTrashed(w) \subseteq Freeable(w) /\ Idled(w) \subseteq Freeable(w)
         /\ Merged(w) \subseteq Freeable(w) /\ MergedIn(w) \subseteq Merged(w)
         /\ Trashed(w, "stale") \cap Trashed(w, "orphan") = {}
         /\ AllTrashed(w) \cap Idled(w) = {} /\ AllTrashed(w) \cap Merged(w) = {}
         /\ Idled(w) \cap Merged(w) = {}
<1>1. ASSUME NEW i \in AllTrashed(w)
      PROVE  i \in Freeable(w) /\ Cluster(w, i) \subseteq OutOf(Group(w, i)) /\ i \in Inodes(w)
  BY <1>1 DEF AllTrashed, Trashed, Whole, Freeable
<1>2. ASSUME NEW i \in Idled(w)
      PROVE  i \in Freeable(w) /\ Cluster(w, i) \subseteq KeptOf(Group(w, i)) /\ i \in Inodes(w) /\ IdleHere(w, i)
  BY <1>2 DEF Idled, Whole, Freeable
<1>3. ASSUME NEW i \in Merged(w)
      PROVE  i \in Freeable(w) /\ Cluster(w, i) \subseteq KeptOf(Group(w, i)) /\ i \in Inodes(w) /\ ~IdleHere(w, i)
  <2>1. i \in Inodes(w) /\ i \in Whole(w, OnVol(w, i)) /\ ~IdleHere(w, i)
    BY <1>3 DEF Merged, Gone
  <2>2. OnVol(w, i) \subseteq KeptOf(Group(w, i))
    BY <2>1, OnVolIs
  <2> QED BY <2>1, <2>2 DEF Whole, Freeable
<1>4. ASSUME NEW i \in Inodes(w), Cluster(w, i) \subseteq OutOf(Group(w, i)),
             Cluster(w, i) \subseteq KeptOf(Group(w, i))
      PROVE  FALSE
  <2>1. PICK r : r \in Cluster(w, i)
    BY ClusterIs
  <2>2. r \in OutOf(Group(w, i)) /\ r \in KeptOf(Group(w, i))
    BY <1>4, <2>1
  <2> QED BY <2>2, PartsAre
<1>5. Trashed(w, "stale") \cap Trashed(w, "orphan") = {}
  BY DEF Trashed
<1>6. MergedIn(w) \subseteq Merged(w)
  BY DEF MergedIn
<1> QED BY <1>1, <1>2, <1>3, <1>4, <1>5, <1>6

(* What is put together is put together whole. *)
LEMMA MergedWhole ==
  ASSUME NEW w \in Worlds, NEW i
  PROVE  /\ i \in Merged(w) =>
              \A j \in Gone(w, i) : /\ j \in Merged(w) /\ Gone(w, j) = Gone(w, i)
                                    /\ DupOf(w, j) = DupOf(w, i) /\ Group(w, j) = Group(w, i)
                                    /\ KeeperAt(w, j) = KeeperAt(w, i)
         /\ i \in MergedIn(w) => \A j \in Gone(w, i) : j \in MergedIn(w)
<1>1. ASSUME i \in Merged(w), NEW j \in Gone(w, i)
      PROVE  /\ j \in Merged(w) /\ Gone(w, j) = Gone(w, i) /\ DupOf(w, j) = DupOf(w, i)
             /\ Group(w, j) = Group(w, i) /\ KeeperAt(w, j) = KeeperAt(w, i)
  <2>1. i \in Inodes(w) /\ ~IdleHere(w, i) /\ j \in Whole(w, OnVol(w, i))
    BY <1>1 DEF Merged, Gone
  <2>2. j \in Inodes(w) /\ Group(w, j) = Group(w, i) /\ VolumeOf[j] = VolumeOf[i] /\ SizeOn(w, j) = SizeOn(w, i)
    BY <2>1, OnVolIs
  <2>3. /\ Gone(w, j) = Gone(w, i) /\ DupOf(w, j) = DupOf(w, i) /\ IdleHere(w, j) = IdleHere(w, i)
        /\ KeeperAt(w, j) = KeeperAt(w, i)
    BY <2>2, SameDesk
  <2> QED BY <1>1, <2>1, <2>2, <2>3 DEF Merged
<1>2. ASSUME i \in MergedIn(w), NEW j \in Gone(w, i) PROVE j \in MergedIn(w)
  <2>1. i \in Merged(w) /\ ~(w.cautious /\ ~ReadHere(w, i))
    BY <1>2 DEF MergedIn
  <2>2. j \in Merged(w) /\ Group(w, j) = Group(w, i)
    BY <1>1, <1>2, <2>1
  <2> QED BY <2>1, <2>2 DEF MergedIn, ReadHere
<1> QED BY <1>1, <1>2

(* An action of a plan names what it replaces. *)
LEMMA SameLink ==
  ASSUME NEW w \in Worlds, NEW i \in Merged(w), NEW j \in Merged(w), On(w, Gone(w, i)) = On(w, Gone(w, j))
  PROVE  Gone(w, i) = Gone(w, j) /\ DupOf(w, i) = DupOf(w, j) /\ Group(w, i) = Group(w, j)
<1>1. j \in Inodes(w) /\ j \in Gone(w, j)
  BY DEF Merged
<1>2. PICK p \in Paths : w.inode[p] = j
  BY <1>1, InodesAre
<1>3. j \in Gone(w, i)
  BY <1>1, <1>2, OnIs
<1> QED BY <1>3, MergedWhole

LEMMA TotalSplits ==
  ASSUME NEW w \in Worlds, NEW A, A \subseteq Inodes(w), NEW B, B \subseteq Inodes(w), A \cap B = {}
  PROVE  Total(w, A \cup B) = Total(w, A) + Total(w, B) /\ Total(w, A) \in Nat /\ Total(w, B) \in Nat
<1>1. IsFiniteSet(A) /\ IsFiniteSet(B) /\ Total(w, A) \in Nat /\ Total(w, B) \in Nat
  BY FiniteAre
<1>2. \A i \in A \cup B : Weights(w)[i] \in Nat
  BY FiniteAre
<1>3. SumBy(Weights(w), A \cup B) = SumBy(Weights(w), A) + SumBy(Weights(w), B)
  BY <1>1, <1>2, SumSplits
<1> QED BY <1>1, <1>3 DEF Total

LEMMA BytesSplit ==
  ASSUME NEW A, NEW B, IsFiniteSet(A), IsFiniteSet(B), A \cap B = {}, \A x \in A \cup B : x.bytes \in Nat
  PROVE  Bytes(A \cup B) = Bytes(A) + Bytes(B) /\ IsFiniteSet(A \cup B)
<1>1. PICK v : v = [x \in A \cup B |-> x.bytes]
  OBVIOUS
<1>2. IsFiniteSet(A \cup B)
  BY FS_Union
<1>3. \A x \in A \cup B : v[x] = x.bytes /\ v[x] \in Nat
  BY <1>1
<1>4. Bytes(A \cup B) = SumBy(v, A \cup B) /\ Bytes(A) = SumBy(v, A) /\ Bytes(B) = SumBy(v, B)
  BY <1>2, <1>3, BytesIs
<1>5. SumBy(v, A \cup B) = SumBy(v, A) + SumBy(v, B)
  BY <1>3, SumSplits
<1> QED BY <1>2, <1>4, <1>5

(* What a share and a link carry. *)
LEMMA CarriedIs ==
  ASSUME NEW w \in Worlds
  PROVE  /\ \A p \in Paths : ShareOf(w, p).bytes \in Nat /\ ShareOf(w, p).path = p
         /\ \A i \in Merged(w) : DupOf(w, i).bytes \in Nat /\ DupOf(w, i).replace = On(w, Gone(w, i))
<1>1. ASSUME NEW p \in Paths PROVE ShareOf(w, p).bytes \in Nat /\ ShareOf(w, p).path = p
  <2>1. SizeOn(w, w.inode[p]) \in Nat
    BY InodesAre
  <2> QED BY <2>1 DEF ShareOf
<1>2. ASSUME NEW i \in Merged(w)
      PROVE  DupOf(w, i).bytes \in Nat /\ DupOf(w, i).replace = On(w, Gone(w, i))
  <2>1. i \in Inodes(w) /\ SizeOn(w, i) \in Nat
    BY InodesAre DEF Merged
  <2>2. Gone(w, i) \subseteq Inodes(w)
    BY DEF Gone, Whole
  <2>3. Cardinality(Gone(w, i)) \in Nat
    BY <2>2, FiniteAre, FS_CardinalityType
  <2>4. Cardinality(Gone(w, i)) * SizeOn(w, i) \in Nat
    BY <2>1, <2>3
  <2> QED BY <2>4 DEF DupOf
<1> QED BY <1>1, <1>2

LEMMA PlannedBytes ==
  ASSUME NEW w \in Worlds
  PROVE  Bytes(PlanOf(w)) = Total(w, AllTrashed(w) \cup Idled(w) \cup MergedIn(w))
<1>1. PICK f : f = [p \in Paths |-> BinOf(w, p)]
  OBVIOUS
<1>2. PICK g : g = [p \in Paths |-> IdleOf(w, p)]
  OBVIOUS
<1>3. PICK h : h = [i \in Inodes(w) |-> LinkOf(w, i)]
  OBVIOUS
<1>4. PICK A : A = {f[p] : p \in On(w, AllTrashed(w))}
  OBVIOUS
<1>5. PICK B : B = {g[p] : p \in On(w, Idled(w))}
  OBVIOUS
<1>6. PICK C : C = {h[i] : i \in MergedIn(w)}
  OBVIOUS
<1>7. /\ AllTrashed(w) \subseteq Inodes(w) /\ Idled(w) \subseteq Inodes(w) /\ Merged(w) \subseteq Inodes(w)
      /\ MergedIn(w) \subseteq Merged(w) /\ AllTrashed(w) \cap Idled(w) = {}
      /\ (AllTrashed(w) \cup Idled(w)) \cap MergedIn(w) = {}
  BY HeadingsAre DEF Freeable
<1>8. /\ \A p \in On(w, AllTrashed(w)) : p \in Paths /\ f[p] = BinOf(w, p)
      /\ \A p \in On(w, Idled(w)) : p \in Paths /\ g[p] = IdleOf(w, p)
      /\ \A i \in MergedIn(w) : i \in Merged(w) /\ h[i] = LinkOf(w, i)
  BY <1>1, <1>2, <1>3, <1>7, OnIs
<1>9. PlanOf(w) = (A \cup B) \cup C
  <2>1. ASSUME NEW x PROVE x \in PlanOf(w) <=> x \in (A \cup B) \cup C
    <3>1. x \in A <=> \E p \in On(w, AllTrashed(w)) : x = BinOf(w, p)
      BY <1>4, <1>8
    <3>2. x \in B <=> \E p \in On(w, Idled(w)) : x = IdleOf(w, p)
      BY <1>5, <1>8
    <3>3. x \in C <=> \E i \in MergedIn(w) : x = LinkOf(w, i)
      BY <1>6, <1>8
    <3> QED BY <3>1, <3>2, <3>3, PlanIs
  <2> QED BY <2>1
<1>10. \A p : /\ BinOf(w, p).kind = "trash" /\ BinOf(w, p).path = p
              /\ BinOf(w, p).reason \in {"stale", "orphan"}
              /\ BinOf(w, p).bytes = ShareOf(w, p).bytes
  BY PostesAre DEF BinOf, TrashAction, ShareOf
<1>11. \A p : /\ IdleOf(w, p).kind = "trash" /\ IdleOf(w, p).path = p
              /\ IdleOf(w, p).reason = "unused" /\ IdleOf(w, p).bytes = ShareOf(w, p).bytes
  BY DEF IdleOf, TrashAction, ShareOf
<1>12. \A i : /\ LinkOf(w, i).kind = "hardlink" /\ LinkOf(w, i).bytes = DupOf(w, i).bytes
              /\ LinkOf(w, i).replace = DupOf(w, i).replace
  BY DEF LinkOf
<1>13. Bytes(A) = Total(w, AllTrashed(w)) /\ IsFiniteSet(A)
  <2>1. \A p \in On(w, AllTrashed(w)) : f[p].bytes = ShareOf(w, p).bytes
    BY <1>8, <1>10
  <2>2. \A p, q \in On(w, AllTrashed(w)) : f[p] = f[q] => p = q
    BY <1>8, <1>10
  <2> QED BY <1>4, <1>7, <2>1, <2>2, PathSum
<1>14. Bytes(B) = Total(w, Idled(w)) /\ IsFiniteSet(B)
  <2>1. \A p \in On(w, Idled(w)) : g[p].bytes = ShareOf(w, p).bytes
    BY <1>8, <1>11
  <2>2. \A p, q \in On(w, Idled(w)) : g[p] = g[q] => p = q
    BY <1>8, <1>11
  <2> QED BY <1>5, <1>7, <2>1, <2>2, PathSum
<1>15. Bytes(C) = Total(w, MergedIn(w)) /\ IsFiniteSet(C)
  <2>1. \A i \in MergedIn(w) : h[i].bytes = DupOf(w, i).bytes /\ Gone(w, i) \subseteq MergedIn(w)
    BY <1>8, <1>12, MergedWhole
  <2>2. ASSUME NEW i \in MergedIn(w), NEW j \in MergedIn(w) PROVE h[i] = h[j] <=> Gone(w, i) = Gone(w, j)
    <3>1. i \in Merged(w) /\ j \in Merged(w) /\ h[i] = LinkOf(w, i) /\ h[j] = LinkOf(w, j)
      BY <1>8
    <3>2. h[i].replace = On(w, Gone(w, i)) /\ h[j].replace = On(w, Gone(w, j))
      <4>1. DupOf(w, i).replace = On(w, Gone(w, i)) /\ DupOf(w, j).replace = On(w, Gone(w, j))
        BY <3>1, CarriedIs
      <4>2. LinkOf(w, i).replace = DupOf(w, i).replace /\ LinkOf(w, j).replace = DupOf(w, j).replace
        BY <1>12
      <4> QED BY <3>1, <4>1, <4>2
    <3>3. h[i] = h[j] => On(w, Gone(w, i)) = On(w, Gone(w, j))
      BY <3>2
    <3>4. Gone(w, i) = Gone(w, j) => h[i] = h[j]
      BY <3>1, SameLink DEF LinkOf
    <3>5. On(w, Gone(w, i)) = On(w, Gone(w, j)) => Gone(w, i) = Gone(w, j)
      BY <3>1, SameLink
    <3> QED BY <3>3, <3>4, <3>5
  <2> QED BY <1>6, <1>7, <2>1, <2>2, CopySum
<1>16. /\ \A x \in A : x.kind = "trash" /\ x.reason \in {"stale", "orphan"} /\ x.bytes \in Nat
       /\ \A x \in B : x.kind = "trash" /\ x.reason = "unused" /\ x.bytes \in Nat
       /\ \A x \in C : x.kind = "hardlink" /\ x.bytes \in Nat
  <2>1. \A x \in A : x.kind = "trash" /\ x.reason \in {"stale", "orphan"} /\ x.bytes \in Nat
    BY <1>4, <1>8, <1>10, CarriedIs
  <2>2. \A x \in B : x.kind = "trash" /\ x.reason = "unused" /\ x.bytes \in Nat
    BY <1>5, <1>8, <1>11, CarriedIs
  <2>3. \A x \in C : x.kind = "hardlink" /\ x.bytes \in Nat
    BY <1>6, <1>8, <1>12, CarriedIs
  <2> QED BY <2>1, <2>2, <2>3
<1>17. A \cap B = {} /\ (A \cup B) \cap C = {}
  BY <1>16
<1>18. Bytes(A \cup B) = Bytes(A) + Bytes(B) /\ IsFiniteSet(A \cup B)
  BY <1>13, <1>14, <1>16, <1>17, BytesSplit
<1>19. Bytes((A \cup B) \cup C) = Bytes(A \cup B) + Bytes(C)
  BY <1>15, <1>16, <1>17, <1>18, BytesSplit
<1>20. Total(w, AllTrashed(w) \cup Idled(w)) = Total(w, AllTrashed(w)) + Total(w, Idled(w))
  BY <1>7, TotalSplits
<1>21. Total(w, (AllTrashed(w) \cup Idled(w)) \cup MergedIn(w))
         = Total(w, AllTrashed(w) \cup Idled(w)) + Total(w, MergedIn(w))
  <2>1. MergedIn(w) \subseteq Inodes(w) /\ AllTrashed(w) \cup Idled(w) \subseteq Inodes(w)
    BY <1>7
  <2> QED BY <1>7, <2>1, TotalSplits
<1> QED BY <1>9, <1>13, <1>14, <1>15, <1>18, <1>19, <1>20, <1>21

LEMMA FiguresBytes ==
  ASSUME NEW w \in Worlds
  PROVE  TotalKnown(ComputeFigures(Park(w), Unused(w)))
           = Total(w, AllTrashed(w) \cup Idled(w) \cup Merged(w))
<1> DEFINE found == Classify(Park(w), Unused(w))
           Bin(poste) == UNION {a.trash : a \in {x \in found : x.poste = poste}}
           Extra == UNION {a.dups : a \in found}
           Never1 == UNION {a.unused : a \in found}
<1>1. TotalKnown(ComputeFigures(Park(w), Unused(w)))
        = Bytes(Extra) + Bytes(Bin("stale")) + Bytes(Bin("orphan")) + Bytes(Never1)
  BY DEF TotalKnown, ComputeFigures
<1>2. \A a : a \in found <=> \E i \in Inodes(w) : a = AttOf(w, i)
  BY ClassifyIs
<1>3. /\ \A poste, s : s \in Bin(poste) <=> \E a \in found : a.poste = poste /\ s \in a.trash
      /\ \A s : s \in Extra <=> \E a \in found : s \in a.dups
      /\ \A s : s \in Never1 <=> \E a \in found : s \in a.unused
  OBVIOUS
<1> HIDE DEF found, Bin, Extra, Never1
<1>4. PICK f : f = [p \in Paths |-> ShareOf(w, p)]
  OBVIOUS
<1>5. PICK h : h = [i \in Inodes(w) |-> DupOf(w, i)]
  OBVIOUS
<1>6. /\ AllTrashed(w) \subseteq Inodes(w) /\ Idled(w) \subseteq Inodes(w) /\ Merged(w) \subseteq Inodes(w)
      /\ AllTrashed(w) \cap Idled(w) = {} /\ (AllTrashed(w) \cup Idled(w)) \cap Merged(w) = {}
      /\ Trashed(w, "stale") \cap Trashed(w, "orphan") = {}
  BY HeadingsAre DEF Freeable
<1>7. ASSUME NEW X, X \subseteq Inodes(w)
      PROVE  Bytes({f[p] : p \in On(w, X)}) = Total(w, X)
  <2>1. \A p \in On(w, X) : f[p] = ShareOf(w, p) /\ f[p].path = p
    BY <1>4, CarriedIs, OnIs
  <2>2. /\ \A p \in On(w, X) : f[p].bytes = ShareOf(w, p).bytes
        /\ \A p, q \in On(w, X) : f[p] = f[q] => p = q
    BY <2>1
  <2> QED BY <1>7, <2>2, PathSum
<1>8. ASSUME NEW poste \in {"stale", "orphan"}
      PROVE  Bin(poste) = {f[p] : p \in On(w, Trashed(w, poste))}
  <2>1. ASSUME NEW s, s \in Bin(poste) PROVE \E p \in On(w, Trashed(w, poste)) : s = f[p]
    <3>1. PICK i \in Inodes(w) : AttOf(w, i).poste = poste /\ s \in AttOf(w, i).trash
      BY <1>2, <1>3, <2>1
    <3>2. PosteOf(Group(w, i)) = poste
      BY <3>1, AttributionIs DEF AttOf
    <3>3. PICK p \in On(w, Trashed(w, poste)) : s = ShareOf(w, p)
      BY <3>1, <3>2, TrashIs
    <3> QED BY <1>4, <3>3, OnIs
  <2>2. ASSUME NEW p \in On(w, Trashed(w, poste)) PROVE f[p] \in Bin(poste)
    <3>1. PICK i : i = w.inode[p]
      OBVIOUS
    <3>2. p \in Paths /\ i \in Inodes(w) /\ PosteOf(Group(w, i)) = poste
      BY <3>1, OnIs DEF Trashed
    <3>3. ShareOf(w, p) \in AttOf(w, i).trash
      BY <2>2, <3>1, <3>2, TrashIs
    <3>4. AttOf(w, i).poste = poste
      BY <3>2, AttributionIs DEF AttOf
    <3> QED BY <1>2, <1>3, <1>4, <3>2, <3>3, <3>4
  <2> QED BY <2>1, <2>2
<1>9. Never1 = {f[p] : p \in On(w, Idled(w))}
  <2>1. ASSUME NEW s, s \in Never1 PROVE \E p \in On(w, Idled(w)) : s = f[p]
    <3>1. PICK i \in Inodes(w) : s \in AttOf(w, i).unused
      BY <1>2, <1>3, <2>1
    <3>2. PICK p \in On(w, Idled(w)) : s = ShareOf(w, p)
      BY <3>1, UnusedIs
    <3> QED BY <1>4, <3>2, OnIs
  <2>2. ASSUME NEW p \in On(w, Idled(w)) PROVE f[p] \in Never1
    <3>1. PICK i : i = w.inode[p]
      OBVIOUS
    <3>2. p \in Paths /\ i \in Inodes(w)
      BY <3>1, OnIs DEF Idled
    <3>3. ShareOf(w, p) \in AttOf(w, i).unused
      BY <2>2, <3>1, <3>2, UnusedIs
    <3> QED BY <1>2, <1>3, <1>4, <3>2, <3>3
  <2> QED BY <2>1, <2>2
<1>10. Extra = {h[i] : i \in Merged(w)}
  <2>1. \A i \in Merged(w) : i \in Inodes(w) /\ h[i] = DupOf(w, i)
    BY <1>5, <1>6
  <2>2. ASSUME NEW s, s \in Extra PROVE \E i \in Merged(w) : s = h[i]
    <3>1. PICK i \in Inodes(w) : s \in AttOf(w, i).dups
      BY <1>2, <1>3, <2>2
    <3>2. PICK j \in Merged(w) : s = DupOf(w, j)
      BY <3>1, DupsAre
    <3> QED BY <2>1, <3>2
  <2>3. ASSUME NEW i \in Merged(w) PROVE h[i] \in Extra
    <3>1. i \in Inodes(w) /\ DupOf(w, i) \in AttOf(w, i).dups
      BY <2>1, DupsAre
    <3> QED BY <1>2, <1>3, <2>1, <3>1
  <2> QED BY <2>2, <2>3
<1>11. Bytes(Extra) = Total(w, Merged(w))
  <2>1. \A i \in Merged(w) : h[i] = DupOf(w, i) /\ Gone(w, i) \subseteq Merged(w)
    BY <1>5, <1>6, MergedWhole
  <2>2. ASSUME NEW i \in Merged(w), NEW j \in Merged(w) PROVE h[i] = h[j] <=> Gone(w, i) = Gone(w, j)
    <3>1. h[i] = DupOf(w, i) /\ h[j] = DupOf(w, j)
      BY <2>1
    <3>2. DupOf(w, i).replace = On(w, Gone(w, i)) /\ DupOf(w, j).replace = On(w, Gone(w, j))
      BY CarriedIs
    <3>3. h[i] = h[j] => On(w, Gone(w, i)) = On(w, Gone(w, j))
      BY <3>1, <3>2
    <3>4. On(w, Gone(w, i)) = On(w, Gone(w, j)) => Gone(w, i) = Gone(w, j) /\ DupOf(w, i) = DupOf(w, j)
      BY SameLink
    <3> QED BY <3>1, <3>3, <3>4
  <2>3. \A i \in Merged(w) : h[i].bytes = DupOf(w, i).bytes
    BY <2>1
  <2> QED BY <1>10, <2>1, <2>2, <2>3, CopySum
<1>12. /\ Bytes(Bin("stale")) = Total(w, Trashed(w, "stale"))
       /\ Bytes(Bin("orphan")) = Total(w, Trashed(w, "orphan"))
       /\ Bytes(Never1) = Total(w, Idled(w))
       /\ Trashed(w, "stale") \subseteq Inodes(w) /\ Trashed(w, "orphan") \subseteq Inodes(w)
  <2>1. Trashed(w, "stale") \subseteq Inodes(w) /\ Trashed(w, "orphan") \subseteq Inodes(w)
    BY <1>6 DEF AllTrashed
  <2> QED BY <1>6, <1>7, <1>8, <1>9, <2>1
<1>13. Total(w, AllTrashed(w)) = Total(w, Trashed(w, "stale")) + Total(w, Trashed(w, "orphan"))
  BY <1>6, <1>12, TotalSplits DEF AllTrashed
<1>14. Total(w, AllTrashed(w) \cup Idled(w)) = Total(w, AllTrashed(w)) + Total(w, Idled(w))
  BY <1>6, TotalSplits
<1>15. Total(w, (AllTrashed(w) \cup Idled(w)) \cup Merged(w))
         = Total(w, AllTrashed(w) \cup Idled(w)) + Total(w, Merged(w))
  <2>1. AllTrashed(w) \cup Idled(w) \subseteq Inodes(w)
    BY <1>6
  <2> QED BY <1>6, <2>1, TotalSplits
<1>16. /\ Total(w, Merged(w)) \in Nat /\ Total(w, Trashed(w, "stale")) \in Nat
       /\ Total(w, Trashed(w, "orphan")) \in Nat /\ Total(w, Idled(w)) \in Nat
  BY <1>6, <1>12, FiniteAre
<1> QED BY <1>1, <1>11, <1>12, <1>13, <1>14, <1>15, <1>16

-----------------------------------------------------------------------------
(* The names that are left, and what they name.                            *)

Doomed(w) == AllTrashed(w) \cup Idled(w)

(* The one that is kept is not thrown away, and not replaced either. *)
LEMMA KeeperStays ==
  ASSUME NEW w \in Worlds, NEW i \in Merged(w)
  PROVE  /\ KeeperAt(w, i).path \in Paths /\ w.inode[KeeperAt(w, i).path] = KeeperAt(w, i).inode
         /\ w.content[KeeperAt(w, i).inode] = w.content[i]
         /\ KeeperAt(w, i).inode \notin Doomed(w) \cup Merged(w)
<1>1. PICK k : k = KeeperAt(w, i)
  OBVIOUS
<1>2. PICK m : m = k.inode
  OBVIOUS
<1>3. i \in Inodes(w) /\ ~IdleHere(w, i) /\ i \in Whole(w, OnVol(w, i))
  BY DEF Merged, Gone
<1>4. OnVol(w, i) # {}
  BY <1>3, ClusterIs DEF Whole
<1>5. k \in OnVol(w, i)
  BY <1>1, <1>3, <1>4, KeeperIs
<1>6. k \in KeptOf(Group(w, i)) /\ k \in Group(w, i) /\ k \in Park(w)
  BY <1>3, <1>5, OnVolIs
<1>7. k.path \in Paths /\ w.inode[k.path] = m /\ m \in Inodes(w) /\ k.vol = VolumeOf[m] /\ k \in Cluster(w, m)
  BY <1>2, <1>6, ParkIs DEF Recorded, Cluster
<1>8. w.content[m] = w.content[i] /\ Group(w, m) = Group(w, i) /\ SizeOn(w, m) = SizeOn(w, i)
  BY <1>2, <1>3, <1>6, GroupIs DEF SizeOn
<1>9. VolumeOf[m] = VolumeOf[i]
  BY <1>5, <1>7 DEF OnVol
<1>10. KeeperAt(w, m) = k /\ IdleHere(w, m) = IdleHere(w, i)
  BY <1>1, <1>8, <1>9, SameDesk
<1>11. m \notin AllTrashed(w)
  <2> SUFFICES ASSUME m \in AllTrashed(w) PROVE FALSE
    OBVIOUS
  <2>1. k \in OutOf(Group(w, i))
    BY <1>7, <1>8 DEF AllTrashed, Trashed, Whole
  <2> QED BY <1>3, <1>6, <2>1, PartsAre
<1>12. m \notin Idled(w)
  BY <1>3, <1>10 DEF Idled
<1>13. m \notin Merged(w)
  BY <1>2, <1>10 DEF Merged, Gone
<1> QED BY <1>1, <1>2, <1>7, <1>8, <1>11, <1>12, <1>13 DEF Doomed

LEMMA ActionsAre ==
  ASSUME NEW w \in Worlds
  PROVE  /\ \A p : BinOf(w, p).kind = "trash" /\ BinOf(w, p).path = p
         /\ \A p : IdleOf(w, p).kind = "trash" /\ IdleOf(w, p).path = p
         /\ \A i \in MergedIn(w) : /\ LinkOf(w, i).kind = "hardlink"
                                   /\ LinkOf(w, i).keep = KeeperAt(w, i).path
                                   /\ LinkOf(w, i).replace = On(w, Gone(w, i))
<1>1. \A p : BinOf(w, p).kind = "trash" /\ BinOf(w, p).path = p
  BY DEF BinOf, TrashAction, ShareOf
<1>2. \A p : IdleOf(w, p).kind = "trash" /\ IdleOf(w, p).path = p
  BY DEF IdleOf, TrashAction, ShareOf
<1>3. \A i : /\ LinkOf(w, i).kind = "hardlink" /\ LinkOf(w, i).keep = KeeperAt(w, i).path
             /\ LinkOf(w, i).replace = On(w, Gone(w, i))
  BY DEF LinkOf, DupOf
<1> QED BY <1>1, <1>2, <1>3

LEMMA ThrownIs ==
  ASSUME NEW w \in Worlds
  PROVE  Thrown(PlanOf(w)) = On(w, Doomed(w))
<1>1. ASSUME NEW x \in PlanOf(w), x.kind = "trash" PROVE x.path \in On(w, Doomed(w))
  <2>1. ~\E i \in MergedIn(w) : x = LinkOf(w, i)
    BY <1>1, ActionsAre
  <2>2. \/ \E p \in On(w, AllTrashed(w)) : x = BinOf(w, p)
        \/ \E p \in On(w, Idled(w)) : x = IdleOf(w, p)
    BY <2>1, PlanIs
  <2> QED BY <2>2, ActionsAre, OnIs DEF Doomed
<1>2. ASSUME NEW p \in On(w, Doomed(w)) PROVE \E x \in PlanOf(w) : x.kind = "trash" /\ x.path = p
  <2>1. p \in On(w, AllTrashed(w)) \/ p \in On(w, Idled(w))
    BY OnIs DEF Doomed
  <2>2. BinOf(w, p) \in PlanOf(w) \/ IdleOf(w, p) \in PlanOf(w)
    BY <2>1, PlanIs
  <2> QED BY <2>2, ActionsAre
<1> QED BY <1>1, <1>2 DEF Thrown

LEMMA KeeperForIs ==
  ASSUME NEW w \in Worlds, NEW p \in Paths
  PROVE  /\ w.inode[p] \notin MergedIn(w) => KeeperFor(PlanOf(w), p) = p
         /\ w.inode[p] \in MergedIn(w) => KeeperFor(PlanOf(w), p) = KeeperAt(w, w.inode[p]).path
<1>1. PICK i : i = w.inode[p]
  OBVIOUS
<1>2. PICK by : by = {a \in PlanOf(w) : a.kind = "hardlink" /\ p \in a.replace}
  OBVIOUS
<1>3. KeeperFor(PlanOf(w), p) = IF by = {} THEN p ELSE (CHOOSE a \in by : TRUE).keep
  BY <1>2 DEF KeeperFor
<1>4. ASSUME NEW a \in by PROVE i \in MergedIn(w) /\ a.keep = KeeperAt(w, i).path
  <2>1. a \in PlanOf(w) /\ a.kind = "hardlink" /\ p \in a.replace
    BY <1>2
  <2>2. PICK j \in MergedIn(w) : a = LinkOf(w, j)
    BY <2>1, PlanIs, ActionsAre
  <2>3. i \in Gone(w, j) /\ a.keep = KeeperAt(w, j).path
    BY <1>1, <2>1, <2>2, ActionsAre, OnIs
  <2>4. j \in Merged(w)
    BY DEF MergedIn
  <2>5. KeeperAt(w, i) = KeeperAt(w, j) /\ i \in MergedIn(w)
    BY <2>3, <2>4, MergedWhole
  <2> QED BY <2>3, <2>5
<1>5. ASSUME i \in MergedIn(w) PROVE by # {}
  <2>1. i \in Gone(w, i)
    BY <1>5 DEF MergedIn, Merged
  <2>2. LinkOf(w, i) \in PlanOf(w)
    BY <1>5, PlanIs
  <2>3. p \in LinkOf(w, i).replace /\ LinkOf(w, i).kind = "hardlink"
    BY <1>1, <1>5, <2>1, ActionsAre, OnIs
  <2> QED BY <1>2, <2>2, <2>3
<1>6. by # {} => (CHOOSE a \in by : TRUE) \in by
  OBVIOUS
<1> QED BY <1>1, <1>3, <1>4, <1>5, <1>6

LEMMA NamesAfterAre ==
  ASSUME NEW w \in Worlds
  PROVE  /\ DOMAIN NamesAfter(w, PlanOf(w)) = Paths \ On(w, Doomed(w))
         /\ \A p \in Paths \ On(w, Doomed(w)) :
              /\ w.inode[p] \notin MergedIn(w) => NamesAfter(w, PlanOf(w))[p] = w.inode[p]
              /\ w.inode[p] \in MergedIn(w) => NamesAfter(w, PlanOf(w))[p] = KeeperAt(w, w.inode[p]).inode
              /\ w.content[NamesAfter(w, PlanOf(w))[p]] = w.content[w.inode[p]]
<1>1. NamesAfter(w, PlanOf(w)) = [p \in Paths \ On(w, Doomed(w)) |-> w.inode[KeeperFor(PlanOf(w), p)]]
  BY ThrownIs DEF NamesAfter
<1>2. ASSUME NEW p \in Paths \ On(w, Doomed(w))
      PROVE  /\ w.inode[p] \notin MergedIn(w) => NamesAfter(w, PlanOf(w))[p] = w.inode[p]
             /\ w.inode[p] \in MergedIn(w) => NamesAfter(w, PlanOf(w))[p] = KeeperAt(w, w.inode[p]).inode
             /\ w.content[NamesAfter(w, PlanOf(w))[p]] = w.content[w.inode[p]]
  <2>1. NamesAfter(w, PlanOf(w))[p] = w.inode[KeeperFor(PlanOf(w), p)]
    BY <1>1
  <2>2. CASE w.inode[p] \notin MergedIn(w)
    BY <2>1, <2>2, KeeperForIs
  <2>3. CASE w.inode[p] \in MergedIn(w)
    <3>1. w.inode[p] \in Merged(w)
      BY <2>3 DEF MergedIn
    <3>2. /\ w.inode[KeeperAt(w, w.inode[p]).path] = KeeperAt(w, w.inode[p]).inode
          /\ w.content[KeeperAt(w, w.inode[p]).inode] = w.content[w.inode[p]]
      BY <3>1, KeeperStays
    <3> QED BY <2>1, <2>3, <3>2, KeeperForIs
  <2> QED BY <2>2, <2>3
<1> QED BY <1>1, <1>2

LEMMA LostIs ==
  ASSUME NEW w \in Worlds
  PROVE  Lost(w, NamesAfter(w, PlanOf(w))) = Doomed(w) \cup MergedIn(w)
<1>1. PICK n : n = NamesAfter(w, PlanOf(w))
  OBVIOUS
<1>2. DOMAIN n = Paths \ On(w, Doomed(w))
  BY <1>1, NamesAfterAre
<1>3. \A p \in DOMAIN n :
        /\ w.inode[p] \notin Doomed(w)
        /\ w.inode[p] \notin MergedIn(w) => n[p] = w.inode[p]
        /\ w.inode[p] \in MergedIn(w) => n[p] = KeeperAt(w, w.inode[p]).inode
  <2>1. \A p \in DOMAIN n : w.inode[p] \notin Doomed(w)
    BY <1>2, OnIs
  <2>2. \A p \in Paths \ On(w, Doomed(w)) :
          /\ w.inode[p] \notin MergedIn(w) => n[p] = w.inode[p]
          /\ w.inode[p] \in MergedIn(w) => n[p] = KeeperAt(w, w.inode[p]).inode
    BY <1>1, NamesAfterAre
  <2> QED BY <1>2, <2>1, <2>2
<1>4. ASSUME NEW p \in DOMAIN n PROVE n[p] \notin Doomed(w) \cup MergedIn(w)
  <2>1. MergedIn(w) \subseteq Merged(w)
    BY DEF MergedIn
  <2>2. CASE w.inode[p] \notin MergedIn(w)
    BY <1>3, <2>2
  <2>3. CASE w.inode[p] \in MergedIn(w)
    BY <1>3, <2>1, <2>3, KeeperStays
  <2> QED BY <2>2, <2>3
<1>5. Doomed(w) \cup MergedIn(w) \subseteq Freeable(w)
  BY HeadingsAre DEF Doomed
<1>6. Lost(w, n) \subseteq Doomed(w) \cup MergedIn(w)
  <2> SUFFICES ASSUME NEW i \in Lost(w, n), i \notin Doomed(w) \cup MergedIn(w) PROVE FALSE
    OBVIOUS
  <2>1. PICK p \in Paths : w.inode[p] = i
    BY DEF Lost
  <2>2. p \in DOMAIN n
    BY <1>2, <2>1, OnIs
  <2>3. n[p] = i
    BY <1>3, <2>1, <2>2
  <2> QED BY <2>2, <2>3 DEF Lost
<1>7. Doomed(w) \cup MergedIn(w) \subseteq Lost(w, n)
  BY <1>4, <1>5 DEF Lost, Freeable, Inodes
<1> QED BY <1>1, <1>6, <1>7

(* A recovery gives back what its plan announces, and status no less. *)
LEMMA RecoverGain ==
  ASSUME NEW w \in Worlds
  PROVE  /\ Freed(w, NamesAfter(w, PlanOf(w))) = Bytes(PlanOf(w))
         /\ Bytes(PlanOf(w)) <= TotalKnown(ComputeFigures(Park(w), Unused(w)))
         /\ w.cautious \/ Bytes(PlanOf(w)) = TotalKnown(ComputeFigures(Park(w), Unused(w)))
<1>1. PICK X : X = Doomed(w) \cup MergedIn(w)
  OBVIOUS
<1>2. PICK Y : Y = Doomed(w) \cup Merged(w)
  OBVIOUS
<1>3. X \subseteq Y /\ Y \subseteq Inodes(w) /\ Lost(w, NamesAfter(w, PlanOf(w))) = X
  BY <1>1, <1>2, HeadingsAre, LostIs DEF Doomed, Freeable
<1>4. Bytes(PlanOf(w)) = Total(w, X)
  BY <1>1, PlannedBytes DEF Doomed
<1>5. TotalKnown(ComputeFigures(Park(w), Unused(w))) = Total(w, Y)
  BY <1>2, FiguresBytes DEF Doomed
<1>6. /\ IsFiniteSet(X) /\ IsFiniteSet(Y)
      /\ \A i \in X : Weights(w)[i] = SizeOn(w, i)
      /\ \A i \in Y : Weights(w)[i] \in Nat
  <2>1. X \in SUBSET Inodes(w) /\ Y \in SUBSET Inodes(w)
    BY <1>3
  <2> QED BY <2>1, FiniteAre
<1>7. Freed(w, NamesAfter(w, PlanOf(w))) = Total(w, X)
  BY <1>3, <1>6, FreedIs DEF Total
<1>8. Total(w, X) <= Total(w, Y)
  BY <1>3, <1>6, SumGrows DEF Total
<1>9. ~w.cautious => X = Y
  BY <1>1, <1>2 DEF MergedIn
<1> QED BY <1>4, <1>5, <1>7, <1>8, <1>9

-----------------------------------------------------------------------------
(* What is in service is neither thrown away nor changed. *)

LEMMA InUseIs ==
  ASSUME NEW w \in Worlds, NEW p \in Paths,
         p \notin HubPaths \/ \E v \in InUse(w) : p \in w.repo.revs[v]
  PROVE  p \notin StaleBlobs(w.repo, w.pinned) /\ p \notin HubPaths \ Blobs(w.repo)
<1>1. StaleBlobs(w.repo, w.pinned) \subseteq Blobs(w.repo) /\ Blobs(w.repo) \subseteq HubPaths
  BY WorldAssumption DEF StaleBlobs
<1>2. CASE p \notin HubPaths
  BY <1>1, <1>2
<1>3. CASE \E v \in InUse(w) : p \in w.repo.revs[v]
  <2>1. PICK v \in InUse(w) : p \in w.repo.revs[v]
    BY <1>3
  <2>2. v \in DOMAIN w.repo.revs /\ (w.repo.refs = {} \/ v \in w.repo.refs \/ v \in w.pinned)
    BY DEF InUse
  <2>3. p \in Blobs(w.repo)
    BY <2>1, <2>2 DEF Blobs
  <2>4. p \in LiveBlobs(w.repo) \/ p \in Protected(w.repo, w.pinned)
    BY <2>1, <2>2 DEF LiveBlobs, Protected
  <2> QED BY <2>3, <2>4 DEF StaleBlobs
<1> QED BY <1>2, <1>3

LEMMA DatesAre ==
  ASSUME NEW w \in Worlds
  PROVE  /\ (\A v \in DOMAIN w.ran : w.ran[v] = Never \/ w.ran[v] > Now - Days) => Unused(w) = {}
         /\ \A v \in DOMAIN w.ran : w.ran[v] # Never /\ w.ran[v] >= Now - Days => v \notin Unused(w)
<1>1. IsFiniteSet(DOMAIN w.ran) /\ \A v \in DOMAIN w.ran : w.ran[v] \in Int \cup {Never}
  BY WorldAssumption
<1>2. PICK m : m = Now - Days
  OBVIOUS
<1>3. m \in Int
  BY <1>2, PathAssumption
<1>4. PICK D : D = {w.ran[v] : v \in DOMAIN w.ran} \ {Never}
  OBVIOUS
<1>5. FirstRun(w) = IF D = {} THEN Never ELSE Min(D)
  BY <1>4 DEF FirstRun
<1>6. D \subseteq Int
  BY <1>1, <1>4
<1>7. IsFiniteSet(D)
  <2> DEFINE g == [v \in DOMAIN w.ran |-> w.ran[v]]
             I == {w.ran[v] : v \in DOMAIN w.ran}
  <2>1. g \in Surjection(DOMAIN w.ran, I)
    BY DEF Surjection
  <2>2. D \subseteq I
    BY <1>4
  <2> HIDE DEF g, I
  <2>3. IsFiniteSet(I)
    BY <1>1, <2>1, FS_Surjection
  <2> QED BY <2>2, <2>3, FS_Subset
<1>8. ASSUME \A v \in DOMAIN w.ran : w.ran[v] = Never \/ w.ran[v] > Now - Days
      PROVE  Unused(w) = {}
  <2>1. \A d \in D : d > m
    BY <1>2, <1>4, <1>8
  <2>2. D # {} => Min(D) \in D
    BY <1>6, <1>7, LeastOf
  <2>3. ~(FirstRun(w) # Never /\ FirstRun(w) <= m)
    <3>1. CASE D = {}
      BY <1>5, <3>1
    <3>2. CASE D # {}
      <4>1. FirstRun(w) > m /\ FirstRun(w) \in Int
        BY <1>5, <1>6, <2>1, <2>2, <3>2
      <4> QED BY <1>3, <4>1
    <3> QED BY <3>1, <3>2
  <2> QED BY <1>2, <2>3 DEF Unused, Conclusive
<1>9. ASSUME NEW v \in DOMAIN w.ran, w.ran[v] # Never /\ w.ran[v] >= Now - Days
      PROVE  v \notin Unused(w)
  <2>1. w.ran[v] \in Int /\ w.ran[v] >= m
    BY <1>1, <1>2, <1>9
  <2>2. ~(w.ran[v] < m)
    BY <1>3, <2>1
  <2> QED BY <1>2, <1>9, <2>2 DEF Unused, UnusedVariants
<1> QED BY <1>8, <1>9

LEMMA ServedNotDoomed ==
  ASSUME NEW w \in Worlds, NEW p \in Paths, InService(w, p)
  PROVE  w.inode[p] \notin Doomed(w)
<1>1. PICK i : i = w.inode[p]
  OBVIOUS
<1>2. PICK r \in Park(w) : r.path = p
  BY ParkIs
<1>3. /\ Recorded(w, r)
  BY ParkIs
<1>4. /\ r \in Cluster(w, i) /\ i \in Inodes(w) /\ r.refs = w.refs[p]
      /\ r.stale = (p \in StaleBlobs(w.repo, w.pinned)) /\ r.orphan = (p \in HubPaths \ Blobs(w.repo))
  BY <1>1, <1>2, <1>3 DEF Recorded, Cluster
<1>5. p \notin StaleBlobs(w.repo, w.pinned) /\ p \notin HubPaths \ Blobs(w.repo)
  <2>1. p \notin HubPaths \/ \E v \in InUse(w) : p \in w.repo.revs[v]
    BY DEF InService
  <2> QED BY <2>1, InUseIs
<1>6. ~r.stale /\ ~r.orphan
  BY <1>4, <1>5
<1>7. i \notin AllTrashed(w)
  <2> SUFFICES ASSUME i \in AllTrashed(w) PROVE FALSE
    OBVIOUS
  <2>1. r \in OutOf(Group(w, i))
    BY <1>4 DEF AllTrashed, Trashed, Whole
  <2> QED BY <1>6, <2>1 DEF OutOf, Disposable
<1>8. i \notin Idled(w)
  <2> SUFFICES ASSUME i \in Idled(w) PROVE FALSE
    OBVIOUS
  <2>1. r \in KeptOf(Group(w, i)) /\ IdleHere(w, i)
    BY <1>4 DEF Idled, Whole
  <2>2. w.refs[p] # {} /\ w.refs[p] \subseteq Unused(w)
    BY <1>4, <2>1 DEF IdleHere, IdleFor, NeverUsed
  <2>3. w.refs[p] \subseteq DOMAIN w.ran
    BY WorldAssumption
  <2>4. \/ \A v \in DOMAIN w.ran : w.ran[v] = Never \/ w.ran[v] > Now - Days
        \/ \E v \in w.refs[p] : w.ran[v] # Never /\ w.ran[v] >= Now - Days
    BY <2>2 DEF InService
  <2>5. CASE \A v \in DOMAIN w.ran : w.ran[v] = Never \/ w.ran[v] > Now - Days
    BY <2>2, <2>5, DatesAre
  <2>6. CASE \E v \in w.refs[p] : w.ran[v] # Never /\ w.ran[v] >= Now - Days
    BY <2>2, <2>3, <2>6, DatesAre
  <2> QED BY <2>4, <2>5, <2>6
<1> QED BY <1>1, <1>7, <1>8 DEF Doomed

(* A recovery leaves what is in service at its path, with its content. *)
LEMMA RecoverServes ==
  ASSUME NEW w \in Worlds
  PROVE  /\ DetachedSnapshots(w.repo, w.pinned) \cap InUse(w) = {}
         /\ \A p \in Paths : InService(w, p) =>
              /\ p \in DOMAIN NamesAfter(w, PlanOf(w))
              /\ w.content[NamesAfter(w, PlanOf(w))[p]] = w.content[w.inode[p]]
<1>1. DetachedSnapshots(w.repo, w.pinned) \cap InUse(w) = {}
  BY DEF DetachedSnapshots, InUse
<1>2. ASSUME NEW p \in Paths, InService(w, p)
      PROVE  /\ p \in DOMAIN NamesAfter(w, PlanOf(w))
             /\ w.content[NamesAfter(w, PlanOf(w))[p]] = w.content[w.inode[p]]
  <2>1. p \in Paths \ On(w, Doomed(w))
    BY <1>2, ServedNotDoomed, OnIs
  <2> QED BY <2>1, NamesAfterAre
<1> QED BY <1>1, <1>2

-----------------------------------------------------------------------------
(* Moving a variant frees the inodes that are its own, whole.              *)

OwnRecords(w, ref) == {r \in Park(w) : ref \in r.refs}
NamesMoved(w, ref) == [p \in Paths \ {q \in Paths : ref \in w.refs[q]} |-> w.inode[p]]

LEMMA MoveGain ==
  ASSUME NEW w \in Worlds, NEW ref
  PROVE  Freed(w, NamesMoved(w, ref)) = Footprint(Park(w), ref).freed /\ Footprint(Park(w), ref).freed \in Nat
<1>1. PICK X : X = Whole(w, OwnRecords(w, ref))
  OBVIOUS
<1>2. PICK T : T = CoveredOf(Park(w), ref)
  OBVIOUS
<1>3. T = {Cluster(w, i) : i \in X}
  <2>1. OwnRecords(w, ref) \subseteq Park(w)
    BY DEF OwnRecords
  <2>2. T = {c \in ByInode(OwnRecords(w, ref)) : Covered(c)}
    BY <1>2 DEF CoveredOf, OwnRecords
  <2> QED BY <1>1, <2>1, <2>2, WholeIs
<1>4. X \subseteq Inodes(w) \ w.outside
  BY <1>1 DEF Whole
<1>5. /\ IsFiniteSet(X) /\ Total(w, X) \in Nat /\ \A i \in X : Weights(w)[i] = SizeOn(w, i) /\ Weights(w)[i] \in Nat
  <2>1. X \in SUBSET Inodes(w)
    BY <1>4
  <2> QED BY <2>1, FiniteAre
<1>6. ASSUME NEW i \in Inodes(w) \ w.outside
      PROVE  i \in X <=> \A p \in DOMAIN NamesMoved(w, ref) : NamesMoved(w, ref)[p] # i
  <2>1. /\ DOMAIN NamesMoved(w, ref) = {p \in Paths : ref \notin w.refs[p]}
        /\ \A p \in DOMAIN NamesMoved(w, ref) : NamesMoved(w, ref)[p] = w.inode[p]
    BY DEF NamesMoved
  <2>2. (\A p \in DOMAIN NamesMoved(w, ref) : NamesMoved(w, ref)[p] # i)
          <=> \A p \in Paths : w.inode[p] = i => ref \in w.refs[p]
    BY <2>1
  <2>3. ASSUME Cluster(w, i) \subseteq OwnRecords(w, ref), NEW p \in Paths, w.inode[p] = i
        PROVE  ref \in w.refs[p]
    <3>1. PICK r \in Park(w) : r.path = p
      BY ParkIs
    <3>2. r.inode = i /\ r.refs = w.refs[p]
      BY <2>3, <3>1, ParkIs DEF Recorded
    <3> QED BY <2>3, <3>1, <3>2 DEF Cluster, OwnRecords
  <2>4. ASSUME \A p \in Paths : w.inode[p] = i => ref \in w.refs[p], NEW r \in Cluster(w, i)
        PROVE  r \in OwnRecords(w, ref)
    <3>1. r \in Park(w) /\ r.inode = i
      BY DEF Cluster
    <3>2. r.path \in Paths /\ w.inode[r.path] = i /\ r.refs = w.refs[r.path]
      BY <3>1, ParkIs DEF Recorded
    <3> QED BY <2>4, <3>1, <3>2 DEF OwnRecords
  <2>5. i \in X <=> Cluster(w, i) \subseteq OwnRecords(w, ref)
    BY <1>1 DEF Whole
  <2> QED BY <2>2, <2>3, <2>4, <2>5
<1>7. Lost(w, NamesMoved(w, ref)) = X
  BY <1>4, <1>6 DEF Lost, Inodes
<1>8. Freed(w, NamesMoved(w, ref)) = Total(w, X)
  BY <1>5, <1>7, FreedIs DEF Total
<1>9. PICK f : f = [i \in X |-> Cluster(w, i)]
  OBVIOUS
<1>10. PICK v : v = [c \in T |-> SizeOf(c)]
  OBVIOUS
<1>11. IsFiniteSet(T)
  <2>1. f \in Surjection(X, T)
    BY <1>3, <1>9 DEF Surjection
  <2> QED BY <1>5, <2>1, FS_Surjection
<1>12. Footprint(Park(w), ref).freed = SumBy(v, T)
  BY <1>2, <1>10, <1>11, FootprintIs
<1>13. ASSUME NEW t \in T PROVE v[t] = SumBy(Weights(w), Fiber(f, X, t))
  <2>1. PICK i \in X : t = Cluster(w, i)
    BY <1>3
  <2>2. i \in Inodes(w)
    BY <1>4
  <2>3. t # {} /\ \A r \in t : r.inode = i /\ r.size = SizeOn(w, i)
    <3>1. t # {}
      BY <2>1, <2>2, ClusterIs
    <3>2. \A r \in t : r \in Park(w) /\ r.inode = i
      BY <2>1 DEF Cluster
    <3>3. \A r \in Park(w) : r.size = SizeOn(w, r.inode)
      BY ParkIs DEF Recorded
    <3> QED BY <3>1, <3>2, <3>3
  <2>4. Fiber(f, X, t) = {i}
    <3>1. ASSUME NEW j \in X, f[j] = t PROVE j = i
      <4>1. PICK r \in t : TRUE
        BY <2>3
      <4>2. r \in Cluster(w, j)
        BY <1>9, <3>1
      <4> QED BY <2>3, <4>2 DEF Cluster
    <3>2. f[i] = t
      BY <1>9, <2>1
    <3> QED BY <3>1, <3>2 DEF Fiber
  <2>5. SizeOf(t) = SizeOn(w, i)
    <3>1. {r.size : r \in t} = {SizeOn(w, i)}
      BY <2>3
    <3>2. SizeOn(w, i) \in Nat
      BY <2>2, InodesAre
    <3> QED BY <3>1, <3>2, MaxSame DEF SizeOf
  <2>6. SumBy(Weights(w), {i}) = SizeOn(w, i)
    BY <1>5, SumOne
  <2> QED BY <1>10, <2>4, <2>5, <2>6
<1>14. \A i \in X : f[i] \in T
  BY <1>3, <1>9
<1>15. SumBy(Weights(w), X) = SumBy(v, T)
  BY <1>5, <1>11, <1>13, <1>14, SumFibers
<1>16. Total(w, X) = SumBy(v, T) /\ Total(w, X) \in Nat
  BY <1>5, <1>15 DEF Total
<1> QED BY <1>8, <1>12, <1>16

-----------------------------------------------------------------------------
(* A recovery, whatever the disk, the registry and the telemetry: what the  *)
(* plan announces is what the disk gets back and, cautious plans apart, the *)
(* gain status shows; and what is in service is still read at its path with *)
(* its content.                                                            *)
THEOREM RecoveryIsSound == RecoverySpec => []RecoverySound
<1> DEFINE Inv == world \in Worlds /\ RecoverySound
<1>1. RecoveryInit => Inv
  BY DEF RecoveryInit, RecoverySound, GainIsReal, ServiceKept
<1>2. Inv /\ [RecoveryNext]_worldVars => Inv'
  <2> SUFFICES ASSUME Inv, [RecoveryNext]_worldVars PROVE Inv'
    OBVIOUS
  <2>1. CASE Recover
    <3>1. world' = world /\ world \in Worlds
      BY <2>1 DEF Recover
    <3>2. /\ done'.announced = Bytes(PlanOf(world))
          /\ done'.status = TotalKnown(ComputeFigures(Park(world), Unused(world)))
          /\ done'.freed = Freed(world, NamesAfter(world, PlanOf(world)))
          /\ done'.names = NamesAfter(world, PlanOf(world))
          /\ done'.detached = DetachedSnapshots(world.repo, world.pinned)
      BY <2>1 DEF Recover
    <3>3. GainIsReal'
      BY <3>1, <3>2, RecoverGain DEF GainIsReal
    <3>4. ServiceKept'
      BY <3>1, <3>2, RecoverServes DEF ServiceKept
    <3> QED BY <3>1, <3>3, <3>4 DEF RecoverySound
  <2>2. ASSUME NEW ref \in DOMAIN world.ran, Move(ref) PROVE Inv'
    <3>1. world' = world /\ world \in Worlds
      BY <2>2 DEF Move
    <3>2. /\ done'.announced = Footprint(Park(world), ref).freed
          /\ done'.status = Footprint(Park(world), ref).freed
          /\ done'.freed = Freed(world, NamesMoved(world, ref))
          /\ done'.names = [p \in Paths |-> world.inode[p]] /\ done'.detached = {}
      BY <2>2 DEF Move, NamesMoved
    <3>3. /\ Freed(world, NamesMoved(world, ref)) = Footprint(Park(world), ref).freed
          /\ Footprint(Park(world), ref).freed \in Nat
      BY <3>1, MoveGain
    <3>4. done'.freed = done'.announced /\ done'.announced = done'.status /\ done'.announced \in Nat
      BY <3>2, <3>3
    <3>5. GainIsReal'
      BY <3>4 DEF GainIsReal
    <3>6. ServiceKept'
      BY <3>1, <3>2 DEF ServiceKept
    <3> QED BY <3>1, <3>5, <3>6 DEF RecoverySound
  <2>3. CASE UNCHANGED worldVars
    BY <2>3 DEF worldVars, RecoverySound, GainIsReal, ServiceKept, InUse, InService
  <2> QED BY <2>1, <2>2, <2>3 DEF RecoveryNext
<1>3. Inv => RecoverySound
  OBVIOUS
<1> QED BY <1>1, <1>2, <1>3, PTL DEF RecoverySpec

-----------------------------------------------------------------------------
(* The adapters of pictures: the numbers they are brought to.               *)

LEMMA SettingIn ==
  ASSUME NEW S, NEW x \in Maybe(S), NEW y \in Maybe(S), NEW usual \in S
  PROVE  Setting(<<x, y>>, usual) \in S
<1>1. CASE FirstSaid(<<x, y>>) = Unsaid
  BY <1>1 DEF Setting
<1>2. CASE FirstSaid(<<x, y>>) # Unsaid
  <2>1. FirstSaid(<<x, y>>) \in {x, y} \ {Unsaid}
    BY <1>2, FirstSaidOf
  <2> QED BY <1>2, <2>1 DEF Setting, Maybe
<1> QED BY <1>1, <1>2

(* A grid of 32, half a step away; groups of 8, one group at least. *)
LEMMA GridIs ==
  ASSUME NEW n \in Positive
  PROVE  OnGrid(n) % 32 = 0 /\ OnGrid(n) > 0 /\ OnGrid(n) - n \in -16..31
<1> DEFINE q == n \div 32
           r == n % 32
<1>1. n \in Nat /\ n > 0
  BY DEF Positive
<1>2. q \in Nat /\ r \in 0..31 /\ n = 32 * q + r
  BY <1>1
<1> HIDE DEF q, r
<1>3. Nearest(n, 32) \in Nat /\ 32 * Nearest(n, 32) - n \in -16..16
  <2>1. Nearest(n, 32) = IF 2 * r < 32 THEN q ELSE IF 2 * r > 32 THEN q + 1 ELSE q + (q % 2)
    BY DEF Nearest, q, r
  <2>2. q % 2 \in {0, 1}
    BY <1>2
  <2> QED BY <1>2, <2>1, <2>2
<1> QED BY <1>1, <1>3 DEF OnGrid, AtLeast

LEMMA InGroupsIs ==
  ASSUME NEW n \in Positive
  PROVE  InGroups(n) % 8 = 1 /\ InGroups(n) - n \in -7..8
<1>1. n \in Nat /\ n > 0
  BY DEF Positive
<1> DEFINE q == (n - 1) \div 8
           r == (n - 1) % 8
           k == AtLeast(q, 1)
<1>2. q \in Nat /\ r \in 0..7 /\ n = 8 * q + r + 1
  BY <1>1
<1>3. InGroups(n) = 8 * k + 1
  BY DEF InGroups
<1> HIDE DEF q, r
<1>4. k \in Nat /\ (k = q \/ (q = 0 /\ k = 1))
  BY <1>2 DEF AtLeast
<1> HIDE DEF k
<1>5. (8 * k + 1) % 8 = 1
  BY <1>4
<1>6. (8 * k + 1) - n \in -7..8
  BY <1>2, <1>4
<1> QED BY <1>3, <1>5, <1>6

LEMMA Products ==
  ASSUME NEW a \in Int, NEW b \in Int, NEW c \in Nat, a <= b
  PROVE  a * c <= b * c
OBVIOUS

(* The quotient, or one less of it: floats stay within a whole number.      *)
LEMMA DownIs ==
  ASSUME NEW n \in Nat, NEW side \in Positive, NEW most \in Nat
  PROVE  /\ RoundedDown(n, side, most) \in Nat
         /\ RoundedDown(n, side, most) * side <= n * most
         /\ n * most <= RoundedDown(n, side, most) * side + side
<1> DEFINE a == n * most
           q == a \div side
<1>1. a \in Nat /\ side \in Nat /\ side > 0
  BY DEF Positive
<1> HIDE DEF a
<1>2. q \in Nat /\ q * side <= a /\ a < (q + 1) * side
  BY <1>1, Quotient
<1>3. (q + 1) * side = q * side + side
  BY <1>1, <1>2
<1>4. RoundedDown(n, side, most) = q - IF <<n, side, most>> \in FallShort /\ a % side = 0 /\ a > 0 THEN 1 ELSE 0
  BY DEF RoundedDown, a
<1>5. CASE <<n, side, most>> \in FallShort /\ a % side = 0 /\ a > 0
  <2>1. RoundedDown(n, side, most) = q - 1
    BY <1>4, <1>5
  <2>2. a = q * side
    BY <1>1, <1>5
  <2>3. q > 0
    BY <1>1, <1>2, <1>5, <2>2
  <2>4. (q - 1) * side = q * side - side
    BY <1>1, <1>2
  <2> QED BY <1>1, <1>2, <2>1, <2>2, <2>3, <2>4 DEF a
<1>6. CASE ~ (<<n, side, most>> \in FallShort /\ a % side = 0 /\ a > 0)
  <2>1. RoundedDown(n, side, most) = q
    BY <1>2, <1>4, <1>6
  <2> QED BY <1>1, <1>2, <1>3, <2>1 DEF a
<1> QED BY <1>5, <1>6

(* A side is made on the scale of the picture. *)
LEMMA SideIs ==
  ASSUME NEW n \in Nat, NEW side \in Positive, NEW most \in Positive
  PROVE  OnScale(SideMade(n, side, most), n, side, most)
<1>1. side \in Nat /\ side > 0 /\ most \in Nat
  BY DEF Positive
<1>2. CASE side <= most
  BY <1>1, <1>2 DEF OnScale, SideMade, Latent, AtLeast
<1>3. CASE ~ (side <= most)
  <2> DEFINE k == RoundedDown(n, side, most)
             made == SideMade(n, side, most)
  <2>1. k \in Nat /\ k * side <= n * most /\ n * most <= k * side + side
    BY <1>1, DownIs
  <2>2. made = Latent(k)
    BY <1>3 DEF SideMade
  <2> HIDE DEF k
  <2>3. made \in Nat /\ made % 8 = 0 /\ (made <= k \/ made = 8) /\ k <= made + 7
    BY <2>1, <2>2 DEF Latent, AtLeast
  <2> HIDE DEF made
  <2>4. made * side <= n * most \/ made * side = 8 * side
    <3>1. CASE made = 8
      BY <3>1
    <3>2. CASE made <= k
      <4>1. made * side <= k * side
        BY <1>1, <2>1, <2>3, <3>2, Products
      <4>2. made * side \in Nat /\ k * side \in Nat /\ n * most \in Nat
        BY <1>1, <2>1, <2>3
      <4> QED BY <2>1, <4>1, <4>2
    <3> QED BY <2>3, <3>1, <3>2
  <2>5. k * side <= made * side + 7 * side
    <3>1. k * side <= (made + 7) * side
      BY <1>1, <2>1, <2>3, Products
    <3>2. (made + 7) * side = made * side + 7 * side
      BY <1>1, <2>3
    <3> QED BY <3>1, <3>2
  <2>6. /\ n * most \in Nat /\ made * side \in Nat /\ k * side \in Nat
    BY <1>1, <2>1, <2>3
  <2>7. made * side > n * most - 9 * side
    BY <1>1, <2>1, <2>5, <2>6
  <2>8. made * side <= AtLeast(n * most, 8 * side)
    BY <1>1, <2>4, <2>6 DEF AtLeast
  <2> QED BY <1>3, <2>3, <2>7, <2>8 DEF OnScale, made
<1> QED BY <1>2, <1>3

(* Announcements go up, from the first to the last. *)
LEMMA AnnouncedRises ==
  ASSUME NEW steps \in Positive, NEW room \in Nat
  PROVE  /\ Announced(steps, room) \in Seq(Nat)
         /\ Len(Announced(steps, room)) = steps
         /\ \A k \in 1..steps : Announced(steps, room)[k] \in 5..(5 + room)
         /\ \A k \in 2..steps : Announced(steps, room)[k - 1] <= Announced(steps, room)[k]
<1>1. steps \in Nat /\ steps > 0
  BY DEF Positive
<1>2. \A k \in 1..steps : /\ (room * k) \div steps \in Nat
                          /\ ((room * k) \div steps) * steps <= room * k
                          /\ room * k < ((room * k) \div steps + 1) * steps
  <2> SUFFICES ASSUME NEW k \in 1..steps
               PROVE  /\ (room * k) \div steps \in Nat
                      /\ ((room * k) \div steps) * steps <= room * k
                      /\ room * k < ((room * k) \div steps + 1) * steps
    OBVIOUS
  <2>1. room * k \in Nat
    BY <1>1
  <2> QED BY <1>1, <2>1, Quotient
<1>3. \A k \in 1..steps : (room * k) \div steps <= room
  <2> SUFFICES ASSUME NEW k \in 1..steps
               PROVE  (room * k) \div steps <= room
    OBVIOUS
  <2> DEFINE d == (room * k) \div steps
  <2>1. d \in Nat /\ d * steps <= room * k
    BY <1>2
  <2> HIDE DEF d
  <2>2. k * room <= steps * room
    BY <1>1, Products
  <2>3. room * k = k * room /\ steps * room = room * steps
    BY <1>1
  <2>4. SUFFICES ASSUME d >= room + 1 PROVE FALSE
    BY <2>1 DEF d
  <2>5. (room + 1) * steps <= d * steps
    BY <1>1, <2>1, <2>4, Products
  <2>6. (room + 1) * steps = room * steps + steps
    BY <1>1
  <2>7. room * steps \in Nat /\ d * steps \in Nat
    BY <1>1, <2>1
  <2> QED BY <1>1, <2>1, <2>2, <2>3, <2>5, <2>6, <2>7
<1>4. \A k \in 2..steps : (room * (k - 1)) \div steps <= (room * k) \div steps
  <2> SUFFICES ASSUME NEW k \in 2..steps
               PROVE  (room * (k - 1)) \div steps <= (room * k) \div steps
    OBVIOUS
  <2> DEFINE c == (room * (k - 1)) \div steps
             d == (room * k) \div steps
  <2>1. c \in Nat /\ c * steps <= room * (k - 1)
    BY <1>1, <1>2
  <2>2. d \in Nat /\ room * k < (d + 1) * steps
    BY <1>1, <1>2
  <2> HIDE DEF c, d
  <2>3. room * (k - 1) <= room * k
    BY <1>1
  <2>4. SUFFICES ASSUME d + 1 <= c PROVE FALSE
    BY <2>1, <2>2 DEF c, d
  <2>5. (d + 1) * steps <= c * steps
    BY <1>1, <2>1, <2>2, <2>4, Products
  <2>6. room * k \in Nat /\ room * (k - 1) \in Nat /\ c * steps \in Nat /\ (d + 1) * steps \in Nat
    BY <1>1, <2>1, <2>2
  <2> QED BY <2>1, <2>2, <2>3, <2>5, <2>6
<1>5. Announced(steps, room) = [k \in 1..steps |-> 5 + (room * k) \div steps]
  BY DEF Announced
<1>6. \A k \in 1..steps : 5 + (room * k) \div steps \in 5..(5 + room)
  BY <1>2, <1>3
<1> DEFINE s == Announced(steps, room)
<1>7. s \in [1..steps -> Nat]
  BY <1>1, <1>5, <1>6
<1>8. s \in Seq(Nat) /\ Len(s) = steps
  BY <1>1, <1>7
<1>9. \A k \in 1..steps : s[k] \in 5..(5 + room)
  BY <1>5, <1>6
<1>10. \A k \in 2..steps : s[k - 1] <= s[k]
  <2> SUFFICES ASSUME NEW k \in 2..steps PROVE s[k - 1] <= s[k]
    OBVIOUS
  <2>1. k \in 1..steps /\ k - 1 \in 1..steps
    BY <1>1
  <2>2. s[k] = 5 + (room * k) \div steps /\ s[k - 1] = 5 + (room * (k - 1)) \div steps
    BY <1>5, <2>1
  <2>3. (room * k) \div steps \in Nat /\ (room * (k - 1)) \div steps \in Nat
    BY <1>2, <2>1
  <2> QED BY <1>4, <2>2, <2>3
<1> QED BY <1>8, <1>9, <1>10

-----------------------------------------------------------------------------
(* What each is asked fits.                                                 *)

LEMMA SaidIn ==
  ASSUME painter \in Painters, NEW o \in RequestSet, NEW usual \in Positive
  PROVE  /\ \A name \in {"width", "height", "frames", "steps", "most", "scale"} : Said(o, name, usual) \in Positive
         /\ \A some \in 0..100 : Said(o, "strength", some) \in 0..100
<1>1. painter.settings \in ManifestSet
  BY PicturesAssumption
<1>2. ASSUME NEW name \in {"width", "height", "frames", "steps", "most", "scale"}
      PROVE  Said(o, name, usual) \in Positive
  <2>1. o[name] \in Maybe(Positive) /\ painter.settings[name] \in Maybe(Positive)
    BY <1>1 DEF RequestSet, ManifestSet
  <2> QED BY <2>1, SettingIn DEF Said
<1>3. ASSUME NEW some \in 0..100
      PROVE  Said(o, "strength", some) \in 0..100
  <2>1. o["strength"] \in Maybe(0..100) /\ painter.settings["strength"] \in Maybe(0..100)
    BY <1>1 DEF RequestSet, ManifestSet
  <2> QED BY <2>1, SettingIn DEF Said
<1> QED BY <1>2, <1>3

LEMMA SentIs ==
  ASSUME NEW o \in RequestSet, Sent(o)
  PROVE  o.image.width \in Positive /\ o.image.height \in Positive
         /\ Longest(o.image) \in Positive /\ Shortest(o.image) \in Positive
         /\ o.image.width <= Longest(o.image) /\ o.image.height <= Longest(o.image)
         /\ Longest(o.image) \in {o.image.width, o.image.height}
         /\ Shortest(o.image) \in {o.image.width, o.image.height}
<1>1. o.image \in ImageSet
  BY DEF RequestSet, Maybe, Sent
<1>2. o.image.width \in Positive /\ o.image.height \in Positive
  BY <1>1 DEF ImageSet
<1> QED BY <1>2 DEF Longest, Shortest, AtLeast, Positive

LEMMA FilmsFit ==
  ASSUME painter \in Painters, NEW o \in RequestSet, NEW seed, NEW m,
         painter.kind = "film" \/ Sent(o),
         m.order = o, m.asked = FilmAsked(o, seed), m.said.notes = Adjusted(o, FilmAsked(o, seed))
  PROVE  FilmFits(m)
<1> DEFINE film == FilmOf(o)
           asked == FilmAsked(o, seed)
<1>1. film.width \in Positive /\ film.height \in Positive /\ film.frames \in Positive
  <2>1. 832 \in Positive /\ 480 \in Positive /\ 81 \in Positive
    BY DEF Positive
  <2>2. CASE painter.kind = "film"
    BY <2>1, <2>2, SaidIn DEF FilmOf
  <2>3. CASE painter.kind # "film"
    BY <2>1, <2>3, SaidIn, SentIs DEF FilmOf
  <2> QED BY <2>2, <2>3
<1>2. asked.width = OnGrid(film.width) /\ asked.height = OnGrid(film.height) /\ asked.frames = InGroups(film.frames)
  BY DEF FilmAsked
<1>3. /\ asked.width % 32 = 0 /\ asked.width > 0 /\ asked.width - film.width \in -16..31
      /\ asked.height % 32 = 0 /\ asked.height > 0 /\ asked.height - film.height \in -16..31
      /\ asked.frames % 8 = 1 /\ asked.frames - film.frames \in -7..8
  <2> HIDE DEF film, asked
  <2>1. asked.width % 32 = 0 /\ asked.width > 0 /\ asked.width - film.width \in -16..31
    BY <1>1, <1>2, GridIs
  <2>2. asked.height % 32 = 0 /\ asked.height > 0 /\ asked.height - film.height \in -16..31
    BY <1>1, <1>2, GridIs
  <2>3. asked.frames % 8 = 1 /\ asked.frames - film.frames \in -7..8
    <3>1. InGroups(film.frames) % 8 = 1 /\ InGroups(film.frames) - film.frames \in -7..8
      BY ONLY <1>1, InGroupsIs
    <3> QED BY ONLY <1>2, <3>1
  <2> QED BY <2>1, <2>2, <2>3
<1>4. \A x \in {"width", "height", "frames"} : x \in m.said.notes <=> asked[x] # film[x]
  BY DEF Adjusted
<1> HIDE DEF film, asked
<1>5. m.asked = asked /\ FilmOf(m.order) = film
  BY DEF film, asked
<1> QED BY <1>3, <1>4, <1>5 DEF FilmFits

LEMMA RetouchesFit ==
  ASSUME painter \in Painters, NEW o \in RequestSet, NEW seed, NEW m, Sent(o),
         m.order = o, m.asked = RetouchAsked(o, seed),
         m.said.passes = AtLeast(StepsRun(RetouchAsked(o, seed).steps, RetouchAsked(o, seed).strength), 1)
  PROVE  RetouchFits(m)
<1> DEFINE most == Said(o, "most", 1024)
           side == Longest(o.image)
           asked == RetouchAsked(o, seed)
<1>1. 1024 \in Positive /\ 25 \in Positive /\ 60 \in 0..100 /\ 100 \in Positive
  BY DEF Positive
<1>2. most \in Positive /\ Said(o, "steps", 25) \in Positive /\ Said(o, "strength", 60) \in 0..100
  BY <1>1, SaidIn
<1>3. side \in Positive /\ o.image.width \in Nat /\ o.image.height \in Nat
  BY SentIs DEF Positive
<1>4. /\ asked.width = SideMade(o.image.width, side, most)
      /\ asked.height = SideMade(o.image.height, side, most)
      /\ asked.steps = Said(o, "steps", 25) /\ asked.strength = Said(o, "strength", 60)
  BY DEF RetouchAsked
<1> HIDE DEF most, side, asked
<1>5. OnScale(asked.width, o.image.width, side, most) /\ OnScale(asked.height, o.image.height, side, most)
  BY <1>2, <1>3, <1>4, SideIs
<1>6. StepsRun(asked.steps, asked.strength) \in Nat
  <2>1. asked.steps \in Nat /\ asked.strength \in Nat
    BY <1>2, <1>4 DEF Positive
  <2> QED BY <1>1, <2>1, DownIs DEF StepsRun
<1>7. StepsRun(asked.steps, asked.strength) \in {0, AtLeast(StepsRun(asked.steps, asked.strength), 1)}
  BY <1>6 DEF AtLeast
<1>8. m.asked = asked /\ most = Said(m.order, "most", 1024) /\ side = Longest(m.order.image)
      /\ m.said.passes = AtLeast(StepsRun(asked.steps, asked.strength), 1)
  BY DEF asked, most, side
<1> QED BY <1>5, <1>7, <1>8 DEF RetouchFits

LEMMA CanvasIs ==
  ASSUME NEW o \in RequestSet, Sent(o)
  PROVE  /\ Canvas(o).width \in Positive /\ Canvas(o).height \in Positive
         /\ Longest(Canvas(o)) \in Positive
         /\ Widens(o) =>
              /\ o.expand \in ExpandSet
              /\ Canvas(o).width = o.image.width + o.expand.left + o.expand.right
              /\ Canvas(o).height = o.image.height + o.expand.top + o.expand.bottom
<1>1. o.image.width \in Positive /\ o.image.height \in Positive
  BY SentIs
<1>2. Widens(o) => o.expand \in ExpandSet
  BY DEF Widens, RequestSet, Maybe
<1>3. /\ Widens(o) => /\ Canvas(o).width = o.image.width + o.expand.left + o.expand.right
                      /\ Canvas(o).height = o.image.height + o.expand.top + o.expand.bottom
      /\ ~Widens(o) => Canvas(o).width = o.image.width /\ Canvas(o).height = o.image.height
  BY DEF Canvas
<1>4. Widens(o) => /\ o.expand.left \in Nat /\ o.expand.right \in Nat
                   /\ o.expand.top \in Nat /\ o.expand.bottom \in Nat
  BY <1>2 DEF ExpandSet
<1>5. Canvas(o).width \in Positive /\ Canvas(o).height \in Positive
  <2>1. CASE Widens(o)
    <3>1. \A n \in Positive : \A a, b \in Nat : n + a + b \in Positive
      BY DEF Positive
    <3> QED BY <1>1, <1>3, <1>4, <2>1, <3>1
  <2>2. CASE ~Widens(o)
    BY <1>1, <1>3, <2>2
  <2> QED BY <2>1, <2>2
<1>6. Longest(Canvas(o)) \in {Canvas(o).width, Canvas(o).height}
  BY <1>5 DEF Longest, AtLeast
<1> QED BY <1>2, <1>3, <1>5, <1>6

LEMMA RepairsFit ==
  ASSUME painter \in Painters, NEW o \in RequestSet, NEW seed, NEW m, Repairable(o),
         m.order = o, m.asked = RepairAsked(o, seed),
         m.said.mode = IF Widens(o) THEN "expand" ELSE "mask"
  PROVE  RepairFits(m)
<1> DEFINE most == Said(o, "most", 1024)
           side == Longest(Canvas(o))
           asked == RepairAsked(o, seed)
<1>1. Sent(o)
  BY DEF Repairable
<1>2. most \in Positive
  <2>1. 1024 \in Positive
    BY DEF Positive
  <2> QED BY <2>1, SaidIn
<1>3. side \in Positive /\ Canvas(o).width \in Nat /\ Canvas(o).height \in Nat
  BY <1>1, CanvasIs DEF Positive
<1>4. /\ asked.width = SideMade(Canvas(o).width, side, most)
      /\ asked.height = SideMade(Canvas(o).height, side, most)
      /\ asked.mask.width = asked.width /\ asked.mask.height = asked.height
      /\ Widens(o) => asked.mask.spared = Unpainted(o)
  BY DEF RepairAsked
<1>5. Widens(o) =>
        /\ Unpainted(o).from = <<o.expand.left, o.expand.top>>
        /\ Unpainted(o).to[1] - Unpainted(o).from[1] = o.image.width
        /\ Unpainted(o).to[2] - Unpainted(o).from[2] = o.image.height
  <2> SUFFICES ASSUME Widens(o)
               PROVE  /\ Unpainted(o).from = <<o.expand.left, o.expand.top>>
                      /\ Unpainted(o).to[1] - Unpainted(o).from[1] = o.image.width
                      /\ Unpainted(o).to[2] - Unpainted(o).from[2] = o.image.height
    OBVIOUS
  <2>1. o.image.width \in Nat /\ o.image.height \in Nat
    BY <1>1, SentIs DEF Positive
  <2>2. /\ o.expand.left \in Nat /\ o.expand.right \in Nat
        /\ o.expand.top \in Nat /\ o.expand.bottom \in Nat
    BY <1>1, CanvasIs DEF ExpandSet
  <2>3. /\ Unpainted(o).from = <<o.expand.left, o.expand.top>>
        /\ Unpainted(o).to[1] = Canvas(o).width - o.expand.right
        /\ Unpainted(o).to[2] = Canvas(o).height - o.expand.bottom
    BY DEF Unpainted
  <2>4. /\ Canvas(o).width = o.image.width + o.expand.left + o.expand.right
        /\ Canvas(o).height = o.image.height + o.expand.top + o.expand.bottom
    BY <1>1, CanvasIs
  <2>5. Unpainted(o).from[1] = o.expand.left /\ Unpainted(o).from[2] = o.expand.top
    BY <2>3
  <2> QED BY <2>1, <2>2, <2>3, <2>4, <2>5
<1> HIDE DEF most, side, asked
<1>6. OnScale(asked.width, Canvas(o).width, side, most) /\ OnScale(asked.height, Canvas(o).height, side, most)
  BY <1>2, <1>3, <1>4, SideIs
<1>7. m.said.mode = "expand" => Widens(o)
  OBVIOUS
<1>8. m.asked = asked /\ most = Said(m.order, "most", 1024) /\ side = Longest(Canvas(m.order))
  BY DEF asked, most, side
<1> QED BY <1>4, <1>5, <1>6, <1>7, <1>8 DEF RepairFits

LEMMA EnlargementsFit ==
  ASSUME painter \in Painters, painter.factor > 0, NEW o \in RequestSet, NEW m, Sent(o),
         Longest(o.image) * painter.factor <= Said(o, "most", 4096),
         m.order = o,
         m.asked = [width |-> o.image.width + Completing(o.image.width),
                    height |-> o.image.height + Completing(o.image.height)],
         m.said = [width |-> o.image.width * painter.factor, height |-> o.image.height * painter.factor]
  PROVE  EnlargeFits(m)
<1> DEFINE w == o.image.width
           h == o.image.height
           f == painter.factor
<1>1. w \in Nat /\ h \in Nat /\ w > 0 /\ h > 0 /\ f \in Nat /\ f > 0
  BY SentIs, PicturesAssumption DEF Positive
<1>2. Said(o, "most", 4096) \in Nat
  <2>1. 4096 \in Positive
    BY DEF Positive
  <2> QED BY <2>1, SaidIn DEF Positive
<1>3. m.asked.width = w + Completing(w) /\ m.asked.height = h + Completing(h) /\ m.said.width = w * f /\ m.said.height = h * f
  OBVIOUS
<1>4. Longest(o.image) \in {w, h} /\ w <= Longest(o.image) /\ h <= Longest(o.image)
  BY SentIs
<1>5. Longest(o.image) * f <= Said(m.order, "most", 4096)
  OBVIOUS
<1> HIDE DEF w, h, f
<1>6. /\ Completing(w) \in Nat /\ (w + Completing(w)) % 8 = 0
      /\ Completing(h) \in Nat /\ (h + Completing(h)) % 8 = 0
  BY <1>1 DEF Completing
<1>7. w * f \in Nat /\ h * f \in Nat /\ w * f > 0 /\ h * f > 0
  <2>1. 1 * f <= w * f /\ 1 * f <= h * f
    BY <1>1, Products
  <2> QED BY <1>1, <2>1
<1>8. w * f <= (w + Completing(w)) * f /\ h * f <= (h + Completing(h)) * f
  BY <1>1, <1>6, Products
<1>9. AtLeast(w * f, h * f) <= Said(m.order, "most", 4096)
  <2>1. Longest(o.image) \in Nat
    BY <1>1, <1>4
  <2>2. w * f <= Longest(o.image) * f /\ h * f <= Longest(o.image) * f
    BY <1>1, <1>4, <2>1, Products
  <2>3. Longest(o.image) * f \in Nat
    BY <1>1, <2>1
  <2> QED BY <1>2, <1>5, <1>7, <2>2, <2>3 DEF AtLeast
<1>10. painter.factor = f
  BY DEF f
<1>11. (w + Completing(w)) * f \in Nat /\ (h + Completing(h)) * f \in Nat
  <2>1. \A a \in Nat, b \in Nat : (a + b) * f \in Nat
    BY ONLY <1>1
  <2> QED BY ONLY <1>1, <1>6, <2>1
<1>12. m.said.width \in 1..(m.asked.width * f) /\ m.said.height \in 1..(m.asked.height * f)
  BY <1>3, <1>7, <1>8, <1>11
<1> QED BY <1>3, <1>6, <1>9, <1>10, <1>12 DEF EnlargeFits

LEMMA UpscalesFit ==
  ASSUME painter \in Painters, NEW o \in RequestSet, NEW m, Sent(o),
         m.order = o, m.asked.flat = o.image.clear, m.said.flattened = o.image.clear,
         m.asked.target \in Targets(o.image, Said(o, "scale", 2), Said(o, "most", 2048))
  PROVE  UpscaleFits(m)
<1> DEFINE L == Longest(o.image)
           S == Shortest(o.image)
           scale == Said(o, "scale", 2)
           most == Said(o, "most", 2048)
           target == m.asked.target
           up == S * (IF L * scale > most THEN most ELSE scale)
           down == IF L * scale > most THEN L ELSE 1
<1>1. L \in Nat /\ L > 0 /\ S \in Nat /\ scale \in Nat /\ most \in Nat
  <2>1. 2 \in Positive /\ 2048 \in Positive
    BY DEF Positive
  <2> QED BY <2>1, SaidIn, SentIs DEF Positive
<1>2. PICK j \in {up \div down, up \div down + 1} :
        target = AtLeast(j, 1) /\ 2 * j * down <= up * 2 + down
  BY DEF Targets
<1>3. most = Said(m.order, "most", 2048) /\ L = Longest(m.order.image) /\ S = Shortest(m.order.image)
  OBVIOUS
<1> HIDE DEF L, S, scale, most, target
<1>4. down \in Nat /\ down > 0 /\ up \in Nat
  BY <1>1
<1>5. j \in Nat
  BY <1>2, <1>4, Quotient
<1>6. target = 1 \/ target = j
  BY <1>2, <1>5 DEF AtLeast
<1>7. 2 * j * L <= 2 * S * most + L
  <2>1. CASE L * scale > most
    BY <1>2, <2>1, <1>1, <1>5
  <2>2. CASE ~ (L * scale > most)
    <3>1. 2 * j <= S * scale * 2 + 1
      BY <1>1, <1>2, <1>5, <2>2
    <3>2. S * scale \in Nat
      BY <1>1
    <3>3. j <= S * scale
      BY <1>5, <3>1, <3>2
    <3>4. j * L <= (S * scale) * L
      BY <1>1, <1>5, <3>2, <3>3, Products
    <3>5. (S * scale) * L = (L * scale) * S
      BY <1>1
    <3>6. (L * scale) * S <= most * S
      BY <1>1, <2>2, Products
    <3>7. most * S = S * most
      BY <1>1
    <3>8. j * L <= S * most
      BY <1>1, <1>5, <3>2, <3>4, <3>5, <3>6, <3>7
    <3>9. j * L \in Nat /\ S * most \in Nat
      BY <1>1, <1>5
    <3>10. 2 * j * L = 2 * (j * L) /\ 2 * S * most = 2 * (S * most)
      BY <1>1, <1>5
    <3> QED BY <1>1, <3>8, <3>9, <3>10
  <2> QED BY <2>1, <2>2
<1>8. target = 1 \/ 2 * target * L <= 2 * S * most + L
  BY <1>6, <1>7
<1> QED BY <1>3, <1>8 DEF UpscaleFits, target

-----------------------------------------------------------------------------
(* The inductive invariant: each picture fits its order, was asked for with *)
(* nothing but its order and the seed it says, and what a worker read from  *)
(* the driver is below the mark it keeps.                                   *)

AskedOf(o, seed) ==
  IF painter.kind = "image" THEN ImageAsked(o, seed)
  ELSE IF painter.kind \in {"film", "animation"} THEN FilmAsked(o, seed)
  ELSE IF painter.kind = "retouch" THEN RetouchAsked(o, seed)
  ELSE RepairAsked(o, seed)

ShownOf(m) ==
  /\ PictureFits(m)
  /\ Ascends(m.marks)
  /\ m.order \in RequestSet
  /\ ByDiffusion => m.said.seed \in SeedsFor(m.order) /\ m.asked = AskedOf(m.order, m.said.seed)

UnderMark(i) ==
  /\ pictures[i].held \in Nat /\ pictures[i].held <= high
  /\ \A k \in 1..i : pictures[k].ok => pictures[k].held <= pictures[i].peak

PicturesInv ==
  /\ painter \in Painters
  /\ high \in Nat
  /\ easel = "failed" => ~WeightsLoad
  /\ easel = "ready" => WeightsLoad
  /\ IsSequence(pictures)
  /\ \A i \in DOMAIN pictures : pictures[i].ok => ShownOf(pictures[i]) /\ (Watched => UnderMark(i))

LEMMA OneMore ==
  ASSUME NEW s, IsSequence(s), NEW x
  PROVE  /\ IsSequence(Append(s, x))
         /\ Len(s) \in Nat /\ DOMAIN s = 1..Len(s) /\ DOMAIN Append(s, x) = 1..(Len(s) + 1)
         /\ \A i \in DOMAIN s : Append(s, x)[i] = s[i]
         /\ Append(s, x)[Len(s) + 1] = x
<1> DEFINE S == {s[i] : i \in DOMAIN s} \cup {x}
           t == Append(s, x)
<1>1. s \in Seq({s[i] : i \in DOMAIN s})
  BY DEF IsSequence
<1>2. s \in Seq(S) /\ x \in S
  BY <1>1
<1>3. /\ t \in Seq(S) /\ Len(t) = Len(s) + 1
      /\ \A i \in 1..Len(s) : t[i] = s[i]
      /\ t[Len(s) + 1] = x
  BY <1>2, AppendProperties
<1>4. Len(s) \in Nat /\ DOMAIN s = 1..Len(s) /\ DOMAIN t = 1..(Len(s) + 1)
  BY <1>2, <1>3
<1>5. t \in Seq({t[i] : i \in DOMAIN t})
  <2> HIDE DEF t, S
  <2>1. t \in [1..Len(t) -> {t[i] : i \in DOMAIN t}] /\ Len(t) \in Nat
    BY <1>3
  <2> QED BY <2>1
<1> QED BY <1>3, <1>4, <1>5 DEF IsSequence

LEMMA ShownStays ==
  ASSUME painter' = painter, NEW m
  PROVE  ShownOf(m) => ShownOf(m)'
<1>1. \A o, name, usual : Said(o, name, usual)' = Said(o, name, usual)
  BY DEF Said
<1>2. \A o : FilmOf(o)' = FilmOf(o)
  BY <1>1 DEF FilmOf
<1>3. PictureFits(m)' <=> PictureFits(m)
  BY <1>1, <1>2 DEF PictureFits, FilmFits, RetouchFits, RepairFits, EnlargeFits, UpscaleFits
<1>4. \A o : SeedsFor(o)' = SeedsFor(o)
  BY <1>1 DEF SeedsFor
<1>5. \A o, seed : AskedOf(o, seed)' = AskedOf(o, seed)
  BY <1>1, <1>2 DEF AskedOf, ImageAsked, FilmAsked, RetouchAsked, RepairAsked
<1>6. ByDiffusion' <=> ByDiffusion
  BY DEF ByDiffusion
<1> QED BY <1>3, <1>4, <1>5, <1>6 DEF ShownOf

LEMMA OnePicture ==
  ASSUME PicturesInv, NEW o \in RequestSet, NEW asked, NEW said, NEW marks,
         Delivers(o, asked, said, marks), Ascends(marks),
         \A m : m.order = o /\ m.asked = asked /\ m.said = said => PictureFits(m),
         ByDiffusion => said.seed \in SeedsFor(o) /\ asked = AskedOf(o, said.seed)
  PROVE  PicturesInv'
<1>1. PICK held \in Weighings, left \in Weighings :
        /\ high' = IF Watched THEN Watermark(high, held, left) ELSE high
        /\ pictures' = Append(pictures,
             [ok |-> TRUE, order |-> o, asked |-> asked, said |-> said, marks |-> marks, held |-> held,
              peak |-> IF Watched THEN Watermark(high, held, left)
                       ELSE IF painter.kind = "upscale" THEN held ELSE left])
        /\ UNCHANGED <<painter, easel>>
  BY DEF Delivers
<1> DEFINE x == [ok |-> TRUE, order |-> o, asked |-> asked, said |-> said, marks |-> marks, held |-> held,
                 peak |-> IF Watched THEN Watermark(high, held, left)
                          ELSE IF painter.kind = "upscale" THEN held ELSE left]
           n == Len(pictures)
<1>2. painter' = painter /\ easel' = easel /\ pictures' = Append(pictures, x)
  BY <1>1
<1>3. high \in Nat /\ held \in Nat /\ left \in Nat
  BY PicturesAssumption DEF PicturesInv
<1>4. /\ x.ok /\ x.order = o /\ x.asked = asked /\ x.said = said /\ x.marks = marks /\ x.held = held
      /\ Watched => x.peak = Watermark(high, held, left)
  OBVIOUS
<1> HIDE DEF x
<1>5. /\ IsSequence(pictures') /\ n \in Nat
      /\ DOMAIN pictures = 1..n /\ DOMAIN pictures' = 1..(n + 1)
      /\ \A i \in 1..n : pictures'[i] = pictures[i]
      /\ pictures'[n + 1] = x
  BY <1>2, OneMore DEF PicturesInv
<1> HIDE DEF n
<1>6. ShownOf(x)
  BY <1>4 DEF ShownOf
<1>7. high' \in Nat /\ high <= high'
  BY <1>1, <1>3 DEF Watermark, AtLeast
<1>8. Watched' <=> Watched
  BY <1>2 DEF Watched
<1>9. Watched => high' = x.peak /\ held <= high' /\ x.peak >= high
  BY <1>1, <1>3, <1>4 DEF Watermark, AtLeast
<1>10. ASSUME NEW i \in 1..(n + 1), pictures'[i].ok
       PROVE  ShownOf(pictures[i])'
  <2>1. PICK m : m = pictures'[i]
    OBVIOUS
  <2>2. ShownOf(m)
    <3>1. CASE i = n + 1
      BY <1>5, <1>6, <2>1, <3>1
    <3>2. CASE i \in 1..n
      BY <1>5, <1>10, <2>1, <3>2 DEF PicturesInv
    <3> QED BY <1>5, <3>1, <3>2
  <2>3. ShownOf(m)'
    BY <1>2, <2>2, ShownStays
  <2> QED BY <2>1, <2>3
<1>11. ASSUME NEW i \in 1..(n + 1), pictures'[i].ok, Watched
       PROVE  UnderMark(i)'
  <2>1. ASSUME NEW k \in 1..n, pictures[k].ok
        PROVE  pictures[k].held \in Nat /\ pictures[k].held <= high
    BY <1>5, <1>11, <2>1 DEF PicturesInv, UnderMark
  <2>2. CASE i = n + 1
    <3>1. pictures'[i].held \in Nat /\ pictures'[i].held <= high' /\ pictures'[i].peak = high'
      BY <1>3, <1>4, <1>5, <1>9, <1>11, <2>2
    <3>2. ASSUME NEW k \in 1..i, pictures'[k].ok
          PROVE  pictures'[k].held <= pictures'[i].peak
      <4>1. CASE k = n + 1
        BY <2>2, <3>1, <4>1
      <4>2. CASE k \in 1..n
        <5>1. pictures[k].held \in Nat /\ pictures[k].held <= high
          BY <1>5, <2>1, <3>2, <4>2
        <5> QED BY <1>3, <1>5, <1>7, <3>1, <4>2, <5>1
      <4> QED BY <1>5, <2>2, <4>1, <4>2
    <3> QED BY <3>1, <3>2 DEF UnderMark
  <2>3. CASE i \in 1..n
    <3>1. UnderMark(i)
      BY <1>5, <1>11, <2>3 DEF PicturesInv
    <3>2. pictures'[i].held \in Nat /\ pictures'[i].held <= high'
      BY <1>3, <1>5, <1>7, <2>3, <3>1 DEF UnderMark
    <3>3. \A k \in 1..i : pictures'[k].ok => pictures'[k].held <= pictures'[i].peak
      BY <1>5, <2>3, <3>1 DEF UnderMark
    <3> QED BY <3>2, <3>3 DEF UnderMark
  <2> QED BY <1>5, <2>2, <2>3
<1>12. painter' \in Painters /\ (easel' = "failed" => ~WeightsLoad') /\ (easel' = "ready" => WeightsLoad')
  BY <1>2 DEF PicturesInv, WeightsLoad, ByDiffusion, Precise, Precision, FilesOpen, SuffixOfFiles, Scheduled
<1> QED BY <1>5, <1>7, <1>8, <1>10, <1>11, <1>12 DEF PicturesInv

-----------------------------------------------------------------------------
(* The steps. *)

LEMMA MarksRise ==
  ASSUME NEW s \in Seq(Nat), NEW first \in Nat, NEW last \in Nat, first <= last,
         \A k \in 1..Len(s) : s[k] \in first..last,
         \A k \in 2..Len(s) : s[k - 1] <= s[k]
  PROVE  Ascends(<<first>> \o s \o <<last>>)
<1> DEFINE t == <<first>> \o s
           u == t \o <<last>>
           n == Len(s)
<1>1. n \in Nat
  OBVIOUS
<1>2. <<first>> \in Seq(Nat) /\ Len(<<first>>) = 1 /\ <<last>> \in Seq(Nat) /\ Len(<<last>>) = 1
      /\ <<first>>[1] = first /\ <<last>>[1] = last
  OBVIOUS
<1>3. t \in Seq(Nat) /\ Len(t) = n + 1 /\ \A i \in 1..(n + 1) : t[i] = IF i <= 1 THEN first ELSE s[i - 1]
  BY <1>1, <1>2, ConcatProperties
<1>4. u \in Seq(Nat) /\ Len(u) = n + 2 /\ \A i \in 1..(n + 2) : u[i] = IF i <= n + 1 THEN t[i] ELSE last
  BY <1>1, <1>2, <1>3, ConcatProperties
<1>5. /\ u[1] = first /\ u[n + 2] = last
      /\ \A i \in 2..(n + 1) : u[i] = s[i - 1]
  BY <1>1, <1>3, <1>4
<1>6. DOMAIN u = 1..(n + 2)
  BY <1>1, <1>4
<1> HIDE DEF u, t
<1>7. ASSUME NEW i \in 1..(n + 2), i > 1
      PROVE  u[i - 1] <= u[i]
  <2>1. CASE i = 2 /\ n = 0
    BY <1>5, <2>1
  <2>2. CASE i = 2 /\ n > 0
    BY <1>1, <1>5, <2>2
  <2>3. CASE i > 2 /\ i <= n + 1
    <3>1. u[i] = s[i - 1] /\ u[i - 1] = s[i - 2] /\ i - 1 \in 2..n /\ (i - 1) - 1 = i - 2
      BY <1>1, <1>5, <2>3
    <3> QED BY <3>1
  <2>4. CASE i = n + 2 /\ n > 0
    <3>1. u[i - 1] = s[n] /\ u[i] = last /\ n \in 1..n
      BY <1>1, <1>5, <2>4
    <3> QED BY <3>1
  <2> QED BY <1>1, <1>7, <2>1, <2>2, <2>3, <2>4
<1> QED BY <1>6, <1>7 DEF Ascends, u, t

LEMMA FilmMarks ==
  ASSUME NEW steps \in Positive, NEW room \in Nat, NEW last \in Nat, 5 + room <= last
  PROVE  Ascends(<<2>> \o Announced(steps, room) \o <<last>>)
<1> DEFINE s == Announced(steps, room)
<1>1. s \in Seq(Nat) /\ Len(s) = steps
      /\ (\A k \in 1..steps : s[k] \in 5..(5 + room))
      /\ (\A k \in 2..steps : s[k - 1] <= s[k])
  BY AnnouncedRises
<1> HIDE DEF s
<1>2. \A k \in 1..Len(s) : s[k] \in 2..last
  BY <1>1
<1>3. 2 \in Nat /\ 2 <= last
  OBVIOUS
<1>4. Ascends(<<2>> \o s \o <<last>>)
  BY <1>1, <1>2, <1>3, MarksRise
<1> QED BY <1>4 DEF s

LEMMA OrderIs ==
  ASSUME NEW kind \in Kinds, NEW o \in Orders[kind]
  PROVE  o \in RequestSet
BY PicturesAssumption

(* The film and the animation. *)
LEMMA ReelKeeps ==
  ASSUME PicturesInv, painter.kind \in {"film", "animation"}, NEW o \in RequestSet,
         painter.kind = "film" \/ Sent(o), NEW seed \in SeedsFor(o), Reel(o, seed)
  PROVE  PicturesInv'
<1> DEFINE asked == FilmAsked(o, seed)
           said == [seed |-> seed, notes |-> Adjusted(o, asked)]
           marks == <<2>> \o Announced(asked.steps, 80) \o <<90>>
<1>1. Delivers(o, asked, said, marks)
  BY DEF Reel
<1>2. painter \in Painters
  BY DEF PicturesInv
<1>3. asked.steps \in Positive
  <2>1. 30 \in Positive
    BY DEF Positive
  <2>2. asked.steps = Said(o, "steps", 30)
    BY DEF FilmAsked
  <2> QED BY <1>2, <2>1, <2>2, SaidIn
<1>4. Ascends(marks)
  BY <1>3, FilmMarks
<1>5. said.seed = seed /\ said.notes = Adjusted(o, FilmAsked(o, seed))
  OBVIOUS
<1>6. asked = AskedOf(o, said.seed)
  BY DEF AskedOf
<1> HIDE DEF asked, said, marks
<1>7. ASSUME NEW m, m.order = o, m.asked = asked, m.said = said
      PROVE  PictureFits(m)
  <2>1. FilmFits(m)
    BY <1>2, <1>5, <1>7, FilmsFit DEF asked
  <2> QED BY <2>1 DEF PictureFits
<1>8. said.seed \in SeedsFor(o)
  BY <1>5
<1> QED BY <1>1, <1>4, <1>6, <1>7, <1>8, OnePicture

LEMMA DrawKeeps ==
  ASSUME PicturesInv, Draw
  PROVE  PicturesInv'
<1>0. PICK o \in Orders.image : \E seed \in SeedsFor(o) :
        Delivers(o, ImageAsked(o, seed), [seed |-> seed, notes |-> {}],
                 <<2>> \o (IF painter.reports THEN Announced(ImageAsked(o, seed).steps, 83) ELSE <<>>) \o <<92>>)
  BY DEF Draw
<1>1. PICK seed \in SeedsFor(o) :
        Delivers(o, ImageAsked(o, seed), [seed |-> seed, notes |-> {}],
                 <<2>> \o (IF painter.reports THEN Announced(ImageAsked(o, seed).steps, 83) ELSE <<>>) \o <<92>>)
  BY <1>0
<1>2. painter.kind = "image" /\ painter \in Painters /\ o \in RequestSet
  BY OrderIs DEF Draw, ReadyFor, PicturesInv, Kinds
<1> DEFINE asked == ImageAsked(o, seed)
           said == [seed |-> seed, notes |-> {}]
           marks == <<2>> \o (IF painter.reports THEN Announced(asked.steps, 83) ELSE <<>>) \o <<92>>
<1>3. asked.steps \in Positive
  <2>1. 25 \in Positive
    BY DEF Positive
  <2>2. asked.steps = Said(o, "steps", 25)
    BY DEF ImageAsked
  <2> QED BY <1>2, <2>1, <2>2, SaidIn
<1>4. Ascends(marks)
  <2>1. CASE painter.reports
    BY <1>3, <2>1, FilmMarks
  <2>2. CASE ~painter.reports
    <3> DEFINE none == <<>>
    <3>1. none \in Seq(Nat) /\ Len(none) = 0
      OBVIOUS
    <3>2. marks = <<2>> \o none \o <<92>>
      BY <2>2
    <3> HIDE DEF none, marks
    <3>3. \A k \in 1..Len(none) : none[k] \in 2..92
      BY <3>1
    <3>4. \A k \in 2..Len(none) : none[k - 1] <= none[k]
      BY <3>1
    <3>5. 2 \in Nat /\ 92 \in Nat /\ 2 <= 92
      OBVIOUS
    <3>6. Ascends(<<2>> \o none \o <<92>>)
      BY <3>1, <3>3, <3>4, <3>5, MarksRise
    <3> QED BY <3>2, <3>6
  <2> QED BY <2>1, <2>2
<1>5. said.seed = seed /\ asked = AskedOf(o, seed)
  BY <1>2 DEF AskedOf
<1>6. Delivers(o, asked, said, marks)
  BY <1>1
<1> HIDE DEF asked, said, marks
<1>7. \A m : PictureFits(m)
  BY <1>2 DEF PictureFits
<1> QED BY <1>2, <1>4, <1>5, <1>6, <1>7, OnePicture

LEMMA RetouchKeeps ==
  ASSUME PicturesInv, Retouch
  PROVE  PicturesInv'
<1>0. PICK o \in Orders.retouch : \E seed \in SeedsFor(o) :
        /\ Sent(o)
        /\ Delivers(o, RetouchAsked(o, seed),
             [seed |-> seed, passes |-> AtLeast(StepsRun(RetouchAsked(o, seed).steps, RetouchAsked(o, seed).strength), 1)],
             <<5, 15, 92>>)
  BY DEF Retouch
<1>1. PICK seed \in SeedsFor(o) :
        /\ Sent(o)
        /\ Delivers(o, RetouchAsked(o, seed),
             [seed |-> seed, passes |-> AtLeast(StepsRun(RetouchAsked(o, seed).steps, RetouchAsked(o, seed).strength), 1)],
             <<5, 15, 92>>)
  BY <1>0
<1>2. painter.kind = "retouch" /\ painter \in Painters /\ o \in RequestSet
  BY OrderIs DEF Retouch, ReadyFor, PicturesInv, Kinds
<1> DEFINE asked == RetouchAsked(o, seed)
           said == [seed |-> seed, passes |-> AtLeast(StepsRun(asked.steps, asked.strength), 1)]
<1>3. Ascends(<<5, 15, 92>>)
  BY DEF Ascends
<1>4. said.seed = seed /\ said.passes = AtLeast(StepsRun(asked.steps, asked.strength), 1)
  OBVIOUS
<1>5. asked = AskedOf(o, seed)
  BY <1>2 DEF AskedOf
<1>6. Delivers(o, asked, said, <<5, 15, 92>>)
  BY <1>1
<1> HIDE DEF said
<1>7. ASSUME NEW m, m.order = o, m.asked = asked, m.said = said
      PROVE  PictureFits(m)
  <2>1. RetouchFits(m)
    BY <1>1, <1>2, <1>4, <1>7, RetouchesFit
  <2> QED BY <1>2, <2>1 DEF PictureFits
<1> HIDE DEF asked
<1> QED BY <1>2, <1>3, <1>4, <1>5, <1>6, <1>7, OnePicture

LEMMA RepairKeeps ==
  ASSUME PicturesInv, Repair
  PROVE  PicturesInv'
<1>0. PICK o \in Orders.repair : \E seed \in SeedsFor(o) :
        /\ Repairable(o)
        /\ Delivers(o, RepairAsked(o, seed),
             [seed |-> seed, mode |-> IF Widens(o) THEN "expand" ELSE "mask"], <<5, 15, 92>>)
  BY DEF Repair
<1>1. PICK seed \in SeedsFor(o) :
        /\ Repairable(o)
        /\ Delivers(o, RepairAsked(o, seed),
             [seed |-> seed, mode |-> IF Widens(o) THEN "expand" ELSE "mask"], <<5, 15, 92>>)
  BY <1>0
<1>2. painter.kind = "repair" /\ painter \in Painters /\ o \in RequestSet
  BY OrderIs DEF Repair, ReadyFor, PicturesInv, Kinds
<1> DEFINE asked == RepairAsked(o, seed)
           said == [seed |-> seed, mode |-> IF Widens(o) THEN "expand" ELSE "mask"]
<1>3. Ascends(<<5, 15, 92>>)
  BY DEF Ascends
<1>4. said.seed = seed /\ said.mode = IF Widens(o) THEN "expand" ELSE "mask"
  OBVIOUS
<1>5. asked = AskedOf(o, seed)
  BY <1>2 DEF AskedOf
<1>6. Delivers(o, asked, said, <<5, 15, 92>>)
  BY <1>1
<1> HIDE DEF said
<1>7. ASSUME NEW m, m.order = o, m.asked = asked, m.said = said
      PROVE  PictureFits(m)
  <2>1. RepairFits(m)
    BY <1>1, <1>2, <1>4, <1>7, RepairsFit
  <2> QED BY <1>2, <2>1 DEF PictureFits
<1> HIDE DEF asked
<1> QED BY <1>2, <1>3, <1>4, <1>5, <1>6, <1>7, OnePicture

LEMMA EnlargeKeeps ==
  ASSUME PicturesInv, Enlarge
  PROVE  PicturesInv'
<1> DEFINE asked(o) == [width |-> o.image.width + Completing(o.image.width),
                        height |-> o.image.height + Completing(o.image.height)]
           said(o) == [width |-> o.image.width * painter.factor, height |-> o.image.height * painter.factor]
<1>0. PICK o \in Orders.enlarge :
        LET image == o.image
            factor == painter.factor
        IN  /\ Sent(o) /\ Said(o, "scale", factor) = factor
            /\ Longest(image) * factor <= Said(o, "most", 4096)
            /\ Completing(image.width) < image.width /\ Completing(image.height) < image.height
            /\ Delivers(o,
                 [width |-> image.width + Completing(image.width), height |-> image.height + Completing(image.height)],
                 [width |-> image.width * factor, height |-> image.height * factor],
                 <<10, 35, 78>>)
  BY DEF Enlarge
<1>1. /\ Sent(o) /\ Longest(o.image) * painter.factor <= Said(o, "most", 4096)
      /\ Delivers(o, asked(o), said(o), <<10, 35, 78>>)
  BY <1>0
<1>2. painter.kind = "enlarge" /\ painter \in Painters /\ o \in RequestSet
  BY OrderIs DEF Enlarge, ReadyFor, PicturesInv, Kinds
<1>3. painter.factor > 0
  <2>1. easel = "ready"
    BY DEF Enlarge, ReadyFor
  <2> QED BY <1>2, <2>1 DEF PicturesInv, WeightsLoad
<1>4. Ascends(<<10, 35, 78>>)
  BY DEF Ascends
<1>5. ASSUME NEW m, m.order = o, m.asked = asked(o), m.said = said(o)
      PROVE  PictureFits(m)
  <2>1. EnlargeFits(m)
    BY <1>1, <1>2, <1>3, <1>5, EnlargementsFit
  <2> QED BY <1>2, <2>1 DEF PictureFits
<1>6. ~ByDiffusion
  BY <1>2 DEF ByDiffusion
<1> HIDE DEF asked, said
<1> QED BY <1>1, <1>2, <1>4, <1>5, <1>6, OnePicture

LEMMA UpscaleKeeps ==
  ASSUME PicturesInv, Upscale
  PROVE  PicturesInv'
<1> DEFINE asked(o, target) == [target |-> target, flat |-> o.image.clear, generator |-> Generator(Setting(<<o.seed>>, 0))]
           said(o) == [flattened |-> o.image.clear]
<1>0. PICK o \in Orders.upscale :
        Sent(o) /\ \E target \in Targets(o.image, Said(o, "scale", 2), Said(o, "most", 2048)) :
          Delivers(o, asked(o, target), said(o), <<15, 90>>)
  BY DEF Upscale
<1>1. PICK target \in Targets(o.image, Said(o, "scale", 2), Said(o, "most", 2048)) :
        Sent(o) /\ Delivers(o, asked(o, target), said(o), <<15, 90>>)
  BY <1>0
<1>2. painter.kind = "upscale" /\ painter \in Painters /\ o \in RequestSet
  BY OrderIs DEF Upscale, ReadyFor, PicturesInv, Kinds
<1>3. Ascends(<<15, 90>>)
  BY DEF Ascends
<1>4. ASSUME NEW m, m.order = o, m.asked = asked(o, target), m.said = said(o)
      PROVE  PictureFits(m)
  <2>1. m.asked.flat = o.image.clear /\ m.said.flattened = o.image.clear /\ m.asked.target = target
    BY <1>4
  <2>2. UpscaleFits(m)
    BY <1>1, <1>2, <1>4, <2>1, UpscalesFit
  <2> QED BY <1>2, <2>2 DEF PictureFits
<1>5. ~ByDiffusion
  BY <1>2 DEF ByDiffusion
<1> HIDE DEF asked, said
<1> QED BY <1>1, <1>2, <1>3, <1>4, <1>5, OnePicture

(* A step that only adds what is no picture, or adds nothing. *)
LEMMA OthersKeep ==
  ASSUME PicturesInv, LoadPipeline \/ Refuses \/ LetGo \/ UNCHANGED pictureVars
  PROVE  PicturesInv'
<1>1. painter' = painter /\ painter \in Painters
  BY DEF LoadPipeline, Refuses, LetGo, pictureVars, PicturesInv
<1>2. WeightsLoad' <=> WeightsLoad
  BY <1>1 DEF WeightsLoad, ByDiffusion, Precise, Precision, FilesOpen, SuffixOfFiles, Scheduled
<1>3. (easel' = "failed" => ~WeightsLoad') /\ (easel' = "ready" => WeightsLoad')
  BY <1>2 DEF LoadPipeline, Refuses, LetGo, pictureVars, PicturesInv
<1>4. high' \in Nat /\ high <= high'
  <2>1. high \in Nat /\ Weighings \subseteq Nat
    BY PicturesAssumption DEF PicturesInv
  <2>2. CASE LoadPipeline
    BY <2>1, <2>2 DEF LoadPipeline, Watermark, AtLeast
  <2>3. CASE Refuses \/ LetGo \/ UNCHANGED pictureVars
    BY <2>1, <2>3 DEF Refuses, LetGo, pictureVars
  <2> QED BY <2>2, <2>3
<1>5. /\ IsSequence(pictures')
      /\ DOMAIN pictures \subseteq DOMAIN pictures'
      /\ \A i \in DOMAIN pictures : pictures'[i] = pictures[i]
      /\ \A i \in DOMAIN pictures' : pictures'[i].ok => i \in DOMAIN pictures
      /\ \A i \in DOMAIN pictures : 1..i \subseteq DOMAIN pictures
  <2>1. IsSequence(pictures)
    BY DEF PicturesInv
  <2>2. Len(pictures) \in Nat /\ DOMAIN pictures = 1..Len(pictures)
    BY <2>1, OneMore
  <2>3. CASE pictures' = pictures
    BY <2>1, <2>2, <2>3
  <2>4. CASE Refuses
    <3>1. PICK o : pictures' = Append(pictures, [ok |-> FALSE, order |-> o])
      BY <2>4 DEF Refuses
    <3> DEFINE x == [ok |-> FALSE, order |-> o]
    <3>2. ~x.ok
      OBVIOUS
    <3>3. pictures' = Append(pictures, x)
      BY <3>1
    <3> HIDE DEF x
    <3>4. /\ IsSequence(pictures') /\ DOMAIN pictures' = 1..(Len(pictures) + 1)
          /\ \A i \in DOMAIN pictures : pictures'[i] = pictures[i]
          /\ pictures'[Len(pictures) + 1] = x
      BY <2>1, <3>3, OneMore
    <3> QED BY <2>2, <3>2, <3>4
  <2>5. CASE LoadPipeline \/ LetGo \/ UNCHANGED pictureVars
    BY <2>3, <2>5 DEF LoadPipeline, LetGo, pictureVars
  <2> QED BY <2>4, <2>5
<1>6. Watched' <=> Watched
  BY <1>1 DEF Watched
<1>7. ASSUME NEW i \in DOMAIN pictures', pictures'[i].ok
      PROVE  ShownOf(pictures[i])' /\ (Watched => UnderMark(i)')
  <2>1. i \in DOMAIN pictures /\ pictures'[i] = pictures[i] /\ pictures[i].ok
    BY <1>5, <1>7
  <2>2. PICK m : m = pictures[i]
    OBVIOUS
  <2>3. ShownOf(m)
    BY <2>1, <2>2 DEF PicturesInv
  <2>4. ShownOf(m)'
    BY <1>1, <2>3, ShownStays
  <2>5. Watched => UnderMark(i)
    BY <2>1 DEF PicturesInv
  <2>6. high \in Nat
    BY DEF PicturesInv
  <2>7. UnderMark(i) => UnderMark(i)'
    <3> SUFFICES ASSUME UnderMark(i) PROVE UnderMark(i)'
      OBVIOUS
    <3>1. pictures'[i].held \in Nat /\ pictures'[i].held <= high'
      BY <1>4, <2>1, <2>6 DEF UnderMark
    <3>2. \A k \in 1..i : pictures'[k].ok => pictures'[k].held <= pictures'[i].peak
      BY <1>5, <2>1 DEF UnderMark
    <3> QED BY <3>1, <3>2 DEF UnderMark
  <2> QED BY <2>1, <2>2, <2>4, <2>5, <2>7
<1> QED BY <1>1, <1>3, <1>4, <1>5, <1>6, <1>7 DEF PicturesInv

(* The same order under the same seed asks for the same. *)
LEMMA SameOrderSameAsked ==
  ASSUME NEW o \in RequestSet, NEW seed, NEW other
  PROVE  AskedOf([o EXCEPT !.seed = seed], other) = AskedOf(o, other)
<1> DEFINE q == [o EXCEPT !.seed = seed]
<1>1. q.image = o.image /\ q.expand = o.expand
  BY DEF RequestSet
<1>2. \A name \in {"width", "height", "frames", "steps", "strength", "most"} : q[name] = o[name]
  BY DEF RequestSet
<1> HIDE DEF q
<1>3. \A name \in {"width", "height", "frames", "steps", "strength", "most"} : \A usual : Said(q, name, usual) = Said(o, name, usual)
  BY <1>2 DEF Said
<1>4. Widens(q) <=> Widens(o)
  BY <1>1 DEF Widens
<1>5. FilmOf(q) = FilmOf(o) /\ Canvas(q) = Canvas(o)
  BY <1>1, <1>3, <1>4 DEF FilmOf, Canvas
<1>6. Unpainted(q) = Unpainted(o)
  BY <1>1, <1>5 DEF Unpainted
<1>7. /\ ImageAsked(q, other) = ImageAsked(o, other)
      /\ FilmAsked(q, other) = FilmAsked(o, other)
      /\ RetouchAsked(q, other) = RetouchAsked(o, other)
      /\ RepairAsked(q, other) = RepairAsked(o, other)
  BY <1>1, <1>3, <1>4, <1>5, <1>6 DEF ImageAsked, FilmAsked, RetouchAsked, RepairAsked
<1> QED BY <1>7 DEF AskedOf, q

LEMMA InvSaysPictures == PicturesInv => PicturesHonest
<1> SUFFICES ASSUME PicturesInv PROVE PicturesHonest
  OBVIOUS
<1>1. /\ easel = "failed" /\ ByDiffusion
      /\ painter.metal /\ painter.folder /\ Precise /\ (painter.kind = "image" => Scheduled)
      => painter.files = {}
  <2> SUFFICES ASSUME easel = "failed", ByDiffusion, painter.metal, painter.folder, Precise,
                      painter.kind = "image" => Scheduled, painter.files # {}
               PROVE  FALSE
    OBVIOUS
  <2>1. painter.files \subseteq {"bare", "fp16", "bf16"}
    BY PicturesAssumption DEF PicturesInv
  <2>2. FilesOpen
    BY <2>1 DEF FilesOpen, SuffixOfFiles
  <2>3. painter.kind # "enlarge"
    BY DEF ByDiffusion
  <2> QED BY <2>2, <2>3 DEF PicturesInv, WeightsLoad
<1>2. ASSUME NEW i \in DOMAIN pictures, pictures[i].ok
      PROVE  /\ PictureFits(pictures[i])
             /\ Ascends(pictures[i].marks)
             /\ \A k \in 1..i : Watched /\ pictures[k].ok => pictures[k].held <= pictures[i].peak
             /\ ByDiffusion => \A k \in DOMAIN pictures : Retries(k, i) => pictures[k].asked = pictures[i].asked
  <2>1. ShownOf(pictures[i]) /\ (Watched => UnderMark(i))
    BY <1>2 DEF PicturesInv
  <2>2. ASSUME ByDiffusion, NEW k \in DOMAIN pictures, Retries(k, i)
        PROVE  pictures[k].asked = pictures[i].asked
    <3> DEFINE o == pictures[i].order
               seed == pictures[i].said.seed
    <3>1. o \in RequestSet /\ seed \in SeedsFor(o) /\ pictures[i].asked = AskedOf(o, seed)
      BY <2>1, <2>2 DEF ShownOf
    <3>2. pictures[k].order = [o EXCEPT !.seed = seed] /\ ShownOf(pictures[k])
      BY <2>2 DEF Retries, PicturesInv
    <3>3. /\ pictures[k].said.seed \in SeedsFor([o EXCEPT !.seed = seed])
          /\ pictures[k].asked = AskedOf([o EXCEPT !.seed = seed], pictures[k].said.seed)
      BY <2>2, <3>2 DEF ShownOf
    <3> HIDE DEF o, seed
    <3>4. seed # Unsaid
      BY <3>1, PicturesAssumption DEF SeedsFor
    <3>5. [o EXCEPT !.seed = seed].seed = seed
      BY <3>1 DEF RequestSet
    <3>6. pictures[k].said.seed = seed
      BY <3>3, <3>4, <3>5 DEF SeedsFor
    <3> QED BY <3>1, <3>3, <3>6, SameOrderSameAsked
  <2> QED BY <2>1, <2>2 DEF ShownOf, UnderMark
<1> QED BY <1>1, <1>2 DEF PicturesHonest

(* A picture can be made again and fits what is announced for it, whatever *)
(* the weights, the orders, the draws and what the driver is found to hold: *)
(* the adapters of pictures and films keep what PicturesHonest says.        *)
THEOREM PicturesAreHonest == PicturesSpec => []PicturesHonest
<1>1. PicturesInit => PicturesInv
  <2> SUFFICES ASSUME PicturesInit PROVE PicturesInv
    OBVIOUS
  <2>1. IsSequence(pictures) /\ DOMAIN pictures = {}
    BY DEF PicturesInit, IsSequence
  <2> QED BY <2>1 DEF PicturesInit, PicturesInv
<1>2. PicturesInv /\ [PicturesNext]_pictureVars => PicturesInv'
  <2> SUFFICES ASSUME PicturesInv, [PicturesNext]_pictureVars PROVE PicturesInv'
    OBVIOUS
  <2>1. CASE Draw
    BY <2>1, DrawKeeps
  <2>2. CASE Film
    <3>0. PICK o \in Orders.film : \E seed \in SeedsFor(o) : Reel(o, seed) /\ painter.kind = "film"
      BY <2>2 DEF Film, ReadyFor
    <3>1. PICK seed \in SeedsFor(o) : Reel(o, seed) /\ painter.kind = "film"
      BY <3>0
    <3> QED BY <3>1, OrderIs, ReelKeeps DEF Kinds
  <2>3. CASE Animate
    <3>0. PICK o \in Orders.animation : \E seed \in SeedsFor(o) :
            Reel(o, seed) /\ Sent(o) /\ painter.kind = "animation"
      BY <2>3 DEF Animate, ReadyFor
    <3>1. PICK seed \in SeedsFor(o) : Reel(o, seed) /\ Sent(o) /\ painter.kind = "animation"
      BY <3>0
    <3> QED BY <3>1, OrderIs, ReelKeeps DEF Kinds
  <2>4. CASE Retouch
    BY <2>4, RetouchKeeps
  <2>5. CASE Repair
    BY <2>5, RepairKeeps
  <2>6. CASE Enlarge
    BY <2>6, EnlargeKeeps
  <2>7. CASE Upscale
    BY <2>7, UpscaleKeeps
  <2>8. CASE LoadPipeline \/ Refuses \/ LetGo \/ UNCHANGED pictureVars
    BY <2>8, OthersKeep
  <2> QED BY <2>1, <2>2, <2>3, <2>4, <2>5, <2>6, <2>7, <2>8 DEF PicturesNext
<1> QED BY <1>1, <1>2, InvSaysPictures, PTL DEF PicturesSpec
=============================================================================
