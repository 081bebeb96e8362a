----------------------------- MODULE PlanProofs -----------------------------
(***************************************************************************)
(* What the admission decision guarantees for every policy and every park: *)
(* facts about Admission!Plan that the proofs about its two users cite.    *)
(***************************************************************************)
EXTENDS Admission, TLAPS, FiniteSetTheorems, NaturalsInduction, WellFoundedInduction

(* The victims of the closed form are evictable residents. *)
LEMMA PrefixEvictable ==
  ASSUME NEW park1, NEW S, NEW Enough(_)
  PROVE  ShortestPrefix(park1, S, Enough) \subseteq S \ Immobile(park1)
BY DEF ShortestPrefix, Oldest, Evictable

(* plan_admission never lists a resident on which a job runs among the     *)
(* victims, and a pinned one only for the bench.                           *)
THEOREM PlanSparesJobs ==
  ASSUME NEW ref, NEW peak, NEW park1, NEW measure \in BOOLEAN,
         NEW overcommit \in BOOLEAN,
         \A q \in DOMAIN park1 : park1[q].busy \in BOOLEAN /\ park1[q].pinned \in BOOLEAN
  PROVE  LET plan == Plan(ref, peak, park1, measure, overcommit)
         IN  /\ plan.admitted \in BOOLEAN
             /\ plan.evict \subseteq DOMAIN park1
             /\ \A q \in plan.evict : ~park1[q].busy /\ (park1[q].pinned => measure)
<1> DEFINE plan == Plan(ref, peak, park1, measure, overcommit)
<1> DEFINE Good(v) == /\ v.admitted \in BOOLEAN
                      /\ v.evict \subseteq DOMAIN park1
                      /\ \A q \in v.evict :
                           ~park1[q].busy /\ (park1[q].pinned => measure)
<1>1. \A why, blockers : Good(Refused(why, blockers))
  BY DEF Refused
<1>2. measure => Good(PlanMeasure(peak, park1))
  BY <1>1 DEF PlanMeasure, Admitted
<1>3. Good(PlanResident(ref, peak, park1))
  BY DEF PlanResident, Admitted
<1>4. Good(PlanOverBudget(peak, park1))
  <2>1. CASE Immobile(park1) # {}
    BY <2>1, <1>1 DEF PlanOverBudget
  <2>2. CASE Immobile(park1) = {}
    BY <2>2 DEF PlanOverBudget, Admitted, Immobile
  <2> QED BY <2>1, <2>2
<1>5. Good(PlanFit(peak, park1))
  <2> DEFINE heavyOK(gone) == HeavyRuleHolds(peak, park1, gone)
             heavyGone == ShortestPrefix(park1, Heavies(park1), heavyOK)
             rest == DOMAIN park1 \ heavyGone
             budgetOK(gone) == Fits(peak, park1, heavyGone \cup gone)
             more == ShortestPrefix(park1, rest, budgetOK)
             fit == Admitted("fits", heavyGone \cup more,
                             Budget - Occupied(park1, DOMAIN park1 \ (heavyGone \cup more)) - peak)
  <2>1. heavyGone \subseteq Heavies(park1) \ Immobile(park1)
    BY PrefixEvictable
  <2>2. more \subseteq rest \ Immobile(park1)
    BY PrefixEvictable
  <2>3. Good(fit)
    <3> HIDE DEF heavyGone, more
    <3> QED BY <2>1, <2>2 DEF Admitted, Heavies, Immobile, rest
  <2>4. \/ PlanFit(peak, park1) = fit
        \/ \E why, blockers : PlanFit(peak, park1) = Refused(why, blockers)
    BY Zenon DEF PlanFit
  <2> QED BY <2>3, <2>4, <1>1
<1>6. Good(plan)
  BY <1>1, <1>2, <1>3, <1>4, <1>5 DEF Plan
<1> QED BY <1>6

-----------------------------------------------------------------------------
(* Sums over finite sets, as MapThenSumSet computes them: they do not      *)
(* depend on the order, grow with the set and with what is added.          *)
SumBy(w, S) == MapThenSumSet(LAMBDA x : w[x], S)

(* The induction: of some finite sets, one contains no other. *)
LEMMA MinimalSet ==
  ASSUME NEW S, IsFiniteSet(S), NEW C, C \subseteq SUBSET S, C # {}
  PROVE  \E m \in C : \A T \in C : T \subseteq m => T = m
<1> DEFINE R == StrictSubsetOrdering(S)
<1>1. C \subseteq FiniteSubsetsOf(S)
  BY FS_FiniteSubsetsOfFinite
<1>2. PICK m \in C : \A T \in C : ~ (<<T, m>> \in R)
  BY <1>1, FS_StrictSubsetOrderingWellFounded, WFMin
<1>3. \A T \in C : T \subseteq m /\ T # m => <<T, m>> \in R
  <2> SUFFICES ASSUME NEW T \in C, T \subseteq m, T # m PROVE <<T, m>> \in R
    OBVIOUS
  <2>1. <<T, m>> \in (SUBSET S) \X (SUBSET S)
    BY <1>2
  <2> DEFINE tm == <<T, m>>
  <2>2. tm[1] \subseteq tm[2] /\ tm[1] # tm[2]
    OBVIOUS
  <2> HIDE DEF tm
  <2>3. tm \in (SUBSET S) \X (SUBSET S)
    BY <2>1 DEF tm
  <2>4. tm \in StrictSubsetOrdering(S)
    BY <2>2, <2>3, Zenon DEF StrictSubsetOrdering
  <2> QED BY <2>4 DEF tm
<1>4. \A T \in C : T \subseteq m => T = m
  <2> HIDE DEF R
  <2> QED BY <1>2, <1>3, Zenon
<1> QED BY <1>4

-----------------------------------------------------------------------------
(* The equation of the fold, which takes the elements in the order of Pick. *)
Pick(s) == CHOOSE x \in s : TRUE
Adds(g, w, S) ==
  g = [s \in SUBSET S |-> IF s = {} THEN 0 ELSE w[Pick(s)] + g[s \ {Pick(s)}]]

LEMMA Picked == ASSUME NEW s, s # {} PROVE Pick(s) \in s
BY DEF Pick

LEMMA AddsAt ==
  ASSUME NEW g, NEW w, NEW S, Adds(g, w, S), NEW s \in SUBSET S
  PROVE  g[s] = IF s = {} THEN 0 ELSE w[Pick(s)] + g[s \ {Pick(s)}]
BY DEF Adds

(* It has one solution. *)
LEMMA AddsAgree ==
  ASSUME NEW w, NEW g, NEW S, Adds(g, w, S), IsFiniteSet(S),
         NEW h, NEW T, Adds(h, w, T), NEW s, s \subseteq S, s \subseteq T
  PROVE  g[s] = h[s]
<1> DEFINE C == {x \in SUBSET s : g[x] # h[x]}
<1>1. IsFiniteSet(s)
  BY FS_Subset
<1> SUFFICES ASSUME C # {} PROVE FALSE
  OBVIOUS
<1>2. PICK m \in C : \A x \in C : x \subseteq m => x = m
  <2> C \subseteq SUBSET s
    OBVIOUS
  <2> HIDE DEF C
  <2> QED BY <1>1, MinimalSet
<1>3. m # {}
  BY <1>2, AddsAt
<1>4. Pick(m) \in m /\ m \ {Pick(m)} \in SUBSET s /\ m \in SUBSET S /\ m \in SUBSET T
  BY <1>2, <1>3, Picked
<1>5. g[m \ {Pick(m)}] = h[m \ {Pick(m)}]
  BY <1>2, <1>4
<1>6. g[m] = h[m]
  BY <1>3, <1>4, <1>5, AddsAt
<1> QED BY <1>2, <1>6

Value(w, s) == (CHOOSE g : Adds(g, w, s))[s]

LEMMA AddsExists ==
  ASSUME NEW w, NEW S, IsFiniteSet(S)
  PROVE  \E g : Adds(g, w, S)
<1> DEFINE C == {x \in SUBSET S : ~ \E g : Adds(g, w, x)}
<1> SUFFICES ASSUME C # {} PROVE FALSE
  OBVIOUS
<1>1. PICK m \in C : \A x \in C : x \subseteq m => x = m
  <2> C \subseteq SUBSET S
    OBVIOUS
  <2> HIDE DEF C
  <2> QED BY MinimalSet
<1>2. \A s \in SUBSET m : s # m => Adds(CHOOSE g : Adds(g, w, s), w, s)
  <2> SUFFICES ASSUME NEW s \in SUBSET m, s # m PROVE \E g : Adds(g, w, s)
    OBVIOUS
  <2> QED BY <1>1
<1>3. \A s \in SUBSET m : s # m =>
        Value(w, s) = IF s = {} THEN 0 ELSE w[Pick(s)] + Value(w, s \ {Pick(s)})
  <2> SUFFICES ASSUME NEW s \in SUBSET m, s # m
               PROVE  Value(w, s) = IF s = {} THEN 0 ELSE w[Pick(s)] + Value(w, s \ {Pick(s)})
    OBVIOUS
  <2> DEFINE g == CHOOSE g : Adds(g, w, s)
             h == CHOOSE h : Adds(h, w, s \ {Pick(s)})
  <2>1. IsFiniteSet(s)
    BY <1>1, FS_Subset
  <2>2. Adds(g, w, s)
    BY <1>2
  <2>3. g[s] = IF s = {} THEN 0 ELSE w[Pick(s)] + g[s \ {Pick(s)}]
    <3> HIDE DEF g
    <3> QED BY <2>2, AddsAt
  <2>4. s # {} => g[s \ {Pick(s)}] = h[s \ {Pick(s)}]
    <3> SUFFICES ASSUME s # {} PROVE g[s \ {Pick(s)}] = h[s \ {Pick(s)}]
      OBVIOUS
    <3>1. s \ {Pick(s)} \in SUBSET m /\ s \ {Pick(s)} # m
      BY Picked
    <3>2. Adds(h, w, s \ {Pick(s)})
      BY <1>2, <3>1
    <3> HIDE DEF g, h
    <3> QED BY <2>1, <2>2, <3>2, AddsAgree
  <2>5. Value(w, s) = g[s] /\ Value(w, s \ {Pick(s)}) = h[s \ {Pick(s)}]
    BY DEF Value
  <2> HIDE DEF g, h
  <2> QED BY <2>3, <2>4, <2>5
<1> DEFINE f == [s \in SUBSET m |-> IF s = {} THEN 0 ELSE w[Pick(s)] + Value(w, s \ {Pick(s)})]
<1>4. \A s \in SUBSET m : s # m => f[s] = Value(w, s)
  BY <1>3
<1>5. \A s \in SUBSET m : s # {} => f[s \ {Pick(s)}] = Value(w, s \ {Pick(s)})
  BY <1>4, Picked
<1>6. Adds(f, w, m)
  BY <1>5 DEF Adds
<1> QED BY <1>1, <1>6

(* Which the fold is. *)
LEMMA SumIs ==
  ASSUME NEW w, NEW S, IsFiniteSet(S)
  PROVE  \E h : Adds(h, w, S) /\ SumBy(w, S) = h[S]
<1> DEFINE iter == CHOOSE h : h = [s \in SUBSET S |->
                     IF s = {} THEN 0
                     ELSE w[CHOOSE x \in s : TRUE] + h[s \ {CHOOSE x \in s : TRUE}]]
<1>1. \E g : Adds(g, w, S)
  BY AddsExists
<1>2. iter = [s \in SUBSET S |->
                IF s = {} THEN 0
                ELSE w[CHOOSE x \in s : TRUE] + iter[s \ {CHOOSE x \in s : TRUE}]]
  BY <1>1 DEF Adds, Pick
<1>3. SumBy(w, S) = iter[S]
  BY DEF SumBy, MapThenSumSet, MapThenFoldSet
<1> QED BY <1>2, <1>3 DEF Adds, Pick

LEMMA SumStep ==
  ASSUME NEW w, NEW S, IsFiniteSet(S)
  PROVE  SumBy(w, S) = IF S = {} THEN 0 ELSE w[Pick(S)] + SumBy(w, S \ {Pick(S)})
<1>1. PICK g : Adds(g, w, S) /\ SumBy(w, S) = g[S]
  BY SumIs
<1>2. CASE S = {}
  BY <1>1, <1>2, AddsAt
<1>3. CASE S # {}
  <2>1. IsFiniteSet(S \ {Pick(S)})
    BY FS_Subset
  <2>2. PICK h : Adds(h, w, S \ {Pick(S)}) /\ SumBy(w, S \ {Pick(S)}) = h[S \ {Pick(S)}]
    BY <2>1, SumIs
  <2>3. g[S \ {Pick(S)}] = h[S \ {Pick(S)}]
    BY <1>1, <2>2, AddsAgree
  <2> QED BY <1>1, <1>3, <2>2, <2>3, AddsAt
<1> QED BY <1>2, <1>3

-----------------------------------------------------------------------------
(* What the proofs cite.                                                   *)

LEMMA SumEmpty == ASSUME NEW w PROVE SumBy(w, {}) = 0
BY SumStep, FS_EmptySet

LEMMA SumNat ==
  ASSUME NEW w, NEW S, IsFiniteSet(S), \A x \in S : w[x] \in Nat
  PROVE  SumBy(w, S) \in Nat
<1> DEFINE C == {s \in SUBSET S : SumBy(w, s) \notin Nat}
<1> SUFFICES ASSUME C # {} PROVE FALSE
  OBVIOUS
<1>1. PICK m \in C : \A x \in C : x \subseteq m => x = m
  <2> C \subseteq SUBSET S
    OBVIOUS
  <2> HIDE DEF C
  <2> QED BY MinimalSet
<1>2. IsFiniteSet(m) /\ m # {}
  <2>1. IsFiniteSet(m)
    BY <1>1, FS_Subset
  <2>2. SumBy(w, m) \notin Nat
    BY <1>1
  <2> QED BY <2>1, <2>2, SumEmpty
<1>3. Pick(m) \in m /\ m \ {Pick(m)} \in SUBSET S /\ m \ {Pick(m)} # m
  BY <1>1, <1>2, Picked
<1>4. SumBy(w, m \ {Pick(m)}) \in Nat
  BY <1>1, <1>3
<1>5. w[Pick(m)] \in Nat
  BY <1>1, <1>3
<1>6. SumBy(w, m) = w[Pick(m)] + SumBy(w, m \ {Pick(m)})
  BY <1>2, SumStep
<1> HIDE DEF C
<1>7. SumBy(w, m) \in Nat
  BY <1>4, <1>5, <1>6
<1> QED BY <1>1, <1>7 DEF C

(* Any element may be taken first. *)
LEMMA SumTake ==
  ASSUME NEW w, NEW S, IsFiniteSet(S), \A x \in S : w[x] \in Nat, NEW x \in S
  PROVE  SumBy(w, S) = w[x] + SumBy(w, S \ {x})
<1> DEFINE C == {s \in SUBSET S : \E y \in s : SumBy(w, s) # w[y] + SumBy(w, s \ {y})}
<1> SUFFICES ASSUME C # {} PROVE FALSE
  OBVIOUS
<1>1. PICK m \in C : \A s \in C : s \subseteq m => s = m
  <2> C \subseteq SUBSET S
    OBVIOUS
  <2> HIDE DEF C
  <2> QED BY MinimalSet
<1>2. PICK y \in m : SumBy(w, m) # w[y] + SumBy(w, m \ {y})
  BY <1>1
<1> DEFINE p == Pick(m)
           rest == m \ {y, p}
<1>3. p \in m
  BY <1>2, Picked
<1>4. IsFiniteSet(m) /\ IsFiniteSet(m \ {p}) /\ IsFiniteSet(m \ {y}) /\ IsFiniteSet(rest)
  BY <1>1, FS_Subset
<1>5. SumBy(w, m) = w[p] + SumBy(w, m \ {p})
  BY <1>2, <1>4, SumStep
<1>6. p # y
  BY <1>2, <1>5
<1>7. m \ {p} \notin C /\ m \ {y} \notin C /\ m \ {p} \in SUBSET S /\ m \ {y} \in SUBSET S
  BY <1>1, <1>2, <1>3
<1>8. /\ (m \ {p}) \ {y} = rest /\ (m \ {y}) \ {p} = rest
      /\ y \in m \ {p} /\ p \in m \ {y}
  BY <1>2, <1>3, <1>6
<1>9. SumBy(w, m \ {p}) = w[y] + SumBy(w, rest) /\ SumBy(w, m \ {y}) = w[p] + SumBy(w, rest)
  <2> HIDE DEF rest, p
  <2> QED BY <1>7, <1>8
<1>10. w[p] \in Nat /\ w[y] \in Nat /\ SumBy(w, rest) \in Nat
  <2>1. \A z \in rest : w[z] \in Nat
    BY <1>1
  <2>2. SumBy(w, rest) \in Nat
    <3> HIDE DEF rest
    <3> QED BY <1>4, <2>1, SumNat
  <2> QED BY <1>1, <1>2, <1>3, <2>2
<1>11. SumBy(w, m) = w[y] + SumBy(w, m \ {y})
  <2> HIDE DEF rest, p, C
  <2> QED BY <1>5, <1>9, <1>10
<1> QED BY <1>2, <1>11

(* A larger set weighs more. *)
LEMMA SumGrows ==
  ASSUME NEW w, NEW T, IsFiniteSet(T), \A x \in T : w[x] \in Nat, NEW S, S \subseteq T
  PROVE  SumBy(w, S) <= SumBy(w, T)
<1> DEFINE C == {s \in SUBSET T : S \subseteq s /\ ~ SumBy(w, S) <= SumBy(w, s)}
<1> SUFFICES ASSUME C # {} PROVE FALSE
  OBVIOUS
<1>1. PICK m \in C : \A s \in C : s \subseteq m => s = m
  <2> C \subseteq SUBSET T
    OBVIOUS
  <2> HIDE DEF C
  <2> QED BY MinimalSet
<1>2. IsFiniteSet(m) /\ IsFiniteSet(S) /\ S \subseteq m /\ m \subseteq T
  BY <1>1, FS_Subset
<1>3. SumBy(w, S) \in Nat /\ m # S
  <2>1. SumBy(w, S) \in Nat
    BY <1>2, SumNat
  <2> QED BY <1>1, <2>1
<1>4. PICK x \in m : x \notin S
  BY <1>2, <1>3
<1>5. m \ {x} \notin C /\ m \ {x} \in SUBSET T /\ S \subseteq m \ {x}
  BY <1>1, <1>2, <1>4
<1>6. SumBy(w, S) <= SumBy(w, m \ {x})
  BY <1>5
<1>7. SumBy(w, m) = w[x] + SumBy(w, m \ {x})
  BY <1>2, SumTake
<1>8. IsFiniteSet(m \ {x}) /\ SumBy(w, m \ {x}) \in Nat /\ w[x] \in Nat
  BY <1>2, SumNat, FS_Subset
<1> HIDE DEF C
<1>9. SumBy(w, S) <= SumBy(w, m)
  BY <1>3, <1>6, <1>7, <1>8
<1> QED BY <1>1, <1>9 DEF C

(* What is mapped one to one to what weighs as much or more weighs less. *)
LEMMA SumMaps ==
  ASSUME NEW w, NEW v, NEW f, NEW S, IsFiniteSet(S),
         \A x \in S : w[x] \in Nat /\ v[f[x]] \in Nat /\ w[x] <= v[f[x]],
         \A x, y \in S : f[x] = f[y] => x = y
  PROVE  SumBy(w, S) <= SumBy(v, {f[x] : x \in S})
<1> DEFINE Im(s) == {f[x] : x \in s}
           C == {s \in SUBSET S : ~ SumBy(w, s) <= SumBy(v, Im(s))}
<1> SUFFICES ASSUME C # {} PROVE FALSE
  OBVIOUS
<1>1. PICK m \in C : \A s \in C : s \subseteq m => s = m
  <2> C \subseteq SUBSET S
    OBVIOUS
  <2> HIDE DEF C
  <2> QED BY MinimalSet
<1>2. m # {}
  <2> SUFFICES ASSUME m = {} PROVE FALSE
    OBVIOUS
  <2>1. Im(m) = {}
    OBVIOUS
  <2> QED BY <1>1, <2>1, SumEmpty
<1>3. PICK x \in m : TRUE
  BY <1>2
<1>4. IsFiniteSet(m) /\ m \subseteq S /\ m \ {x} \in SUBSET S /\ m \ {x} # m
  BY <1>1, <1>3, FS_Subset
<1>5. SumBy(w, m \ {x}) <= SumBy(v, Im(m \ {x}))
  BY <1>1, <1>4
<1>6. Im(m) \ {f[x]} = Im(m \ {x}) /\ f[x] \in Im(m)
  BY <1>3, <1>4
<1>7. IsFiniteSet(Im(m)) /\ \A y \in Im(m) : v[y] \in Nat
  <2>1. IsFiniteSet(Im(m))
    <3> DEFINE g == [y \in m |-> f[y]]
    <3>1. g \in Surjection(m, Im(m))
      BY DEF Surjection
    <3> HIDE DEF g, Im
    <3> QED BY <1>4, <3>1, FS_Surjection
  <2> QED BY <1>4, <2>1
<1>8. SumBy(v, Im(m)) = v[f[x]] + SumBy(v, Im(m \ {x}))
  <2>1. SumBy(v, Im(m)) = v[f[x]] + SumBy(v, Im(m) \ {f[x]})
    <3> HIDE DEF Im
    <3> QED BY <1>6, <1>7, SumTake
  <2> QED BY <1>6, <2>1
<1>9. SumBy(w, m) = w[x] + SumBy(w, m \ {x})
  BY <1>4, SumTake
<1>10. SumBy(w, m \ {x}) \in Nat /\ SumBy(v, Im(m \ {x})) \in Nat
  <2>1. IsFiniteSet(m \ {x}) /\ IsFiniteSet(Im(m \ {x}))
    <3>1. Im(m \ {x}) \subseteq Im(m)
      OBVIOUS
    <3> HIDE DEF Im
    <3> QED BY <1>4, <1>7, <3>1, FS_Subset
  <2>2. \A y \in Im(m \ {x}) : v[y] \in Nat
    BY <1>4
  <2>3. \A y \in m \ {x} : w[y] \in Nat
    BY <1>4
  <2> HIDE DEF Im
  <2> QED BY <2>1, <2>2, <2>3, SumNat
<1>11. w[x] \in Nat /\ v[f[x]] \in Nat /\ w[x] <= v[f[x]]
  BY <1>4
<1> HIDE DEF C, Im
<1>12. SumBy(w, m) <= SumBy(v, Im(m))
  BY <1>5, <1>8, <1>9, <1>10, <1>11
<1> QED BY <1>1, <1>12 DEF C
(* The sum over two sets apart is that of the sums. *)
LEMMA SumSplits ==
  ASSUME NEW w, NEW A, NEW B, IsFiniteSet(A), IsFiniteSet(B), A \cap B = {},
         \A x \in A \cup B : w[x] \in Nat
  PROVE  SumBy(w, A \cup B) = SumBy(w, A) + SumBy(w, B)
<1> DEFINE C == {s \in SUBSET B : SumBy(w, A \cup s) # SumBy(w, A) + SumBy(w, s)}
<1> SUFFICES ASSUME C # {} PROVE FALSE
  OBVIOUS
<1>1. PICK m \in C : \A s \in C : s \subseteq m => s = m
  <2> C \subseteq SUBSET B
    OBVIOUS
  <2> HIDE DEF C
  <2> QED BY MinimalSet
<1>2. m \subseteq B /\ SumBy(w, A \cup m) # SumBy(w, A) + SumBy(w, m)
  BY <1>1
<1>3. IsFiniteSet(m) /\ IsFiniteSet(A \cup m) /\ SumBy(w, A) \in Nat
  <2>1. IsFiniteSet(m)
    BY <1>2, FS_Subset
  <2>2. \A x \in A : w[x] \in Nat
    OBVIOUS
  <2> QED BY <2>1, <2>2, FS_Union, SumNat
<1>4. m # {}
  <2> SUFFICES ASSUME m = {} PROVE FALSE
    OBVIOUS
  <2>1. A \cup m = A /\ SumBy(w, m) = 0
    BY SumEmpty
  <2> QED BY <1>2, <1>3, <2>1
<1>5. PICK x \in m : TRUE
  BY <1>4
<1> DEFINE n == m \ {x}
<1>6. n \in SUBSET B /\ n # m /\ n \subseteq m /\ IsFiniteSet(n)
  BY <1>2, <1>3, <1>5, FS_Subset
<1>7. SumBy(w, A \cup n) = SumBy(w, A) + SumBy(w, n)
  BY <1>1, <1>6
<1>8. (A \cup m) \ {x} = A \cup n /\ x \in A \cup m
  BY <1>2, <1>5
<1>9. SumBy(w, A \cup m) = w[x] + SumBy(w, A \cup n)
  <2>1. \A y \in A \cup m : w[y] \in Nat
    BY <1>2
  <2> HIDE DEF n
  <2> QED BY <1>3, <1>8, <2>1, SumTake
<1>10. SumBy(w, m) = w[x] + SumBy(w, n) /\ w[x] \in Nat /\ SumBy(w, n) \in Nat
  <2>1. \A y \in m : w[y] \in Nat
    BY <1>2
  <2>2. \A y \in n : w[y] \in Nat
    BY <2>1
  <2>3. SumBy(w, m) = w[x] + SumBy(w, m \ {x})
    BY <1>3, <2>1, SumTake
  <2>4. SumBy(w, n) \in Nat
    <3> HIDE DEF n
    <3> QED BY <1>6, <2>2, SumNat
  <2> QED BY <2>1, <2>3, <2>4
<1> HIDE DEF n, C
<1> QED BY <1>2, <1>3, <1>7, <1>9, <1>10

(* A sum may be taken part by part. *)
Fiber(f, S, t) == {x \in S : f[x] = t}

LEMMA SumFibers ==
  ASSUME NEW w, NEW S, IsFiniteSet(S), \A x \in S : w[x] \in Nat,
         NEW T, IsFiniteSet(T), NEW f, \A x \in S : f[x] \in T,
         NEW v, \A t \in T : v[t] = SumBy(w, Fiber(f, S, t))
  PROVE  SumBy(w, S) = SumBy(v, T)
<1> DEFINE From(U) == {x \in S : f[x] \in U}
           C == {U \in SUBSET T : SumBy(w, From(U)) # SumBy(v, U)}
<1>1. From(T) = S
  OBVIOUS
<1> SUFFICES ASSUME C # {} PROVE FALSE
  BY <1>1
<1>2. PICK m \in C : \A U \in C : U \subseteq m => U = m
  <2> C \subseteq SUBSET T
    OBVIOUS
  <2> HIDE DEF C
  <2> QED BY MinimalSet
<1>3. m # {}
  <2>1. From({}) = {}
    OBVIOUS
  <2>2. SumBy(w, From({})) = SumBy(v, {})
    BY <2>1, SumEmpty
  <2> QED BY <1>2, <2>2
<1>4. PICK t \in m : TRUE
  BY <1>3
<1>5. PICK n : n = m \ {t}
  OBVIOUS
<1>6. n \subseteq T /\ n \subseteq m /\ n # m /\ m \subseteq T /\ t \in T
  BY <1>2, <1>4, <1>5
<1>7. SumBy(w, From(n)) = SumBy(v, n)
  BY <1>2, <1>6
<1>8. PICK A, B : A = From(n) /\ B = Fiber(f, S, t)
  OBVIOUS
<1>9. A \cup B = From(m) /\ A \cap B = {} /\ A \subseteq S /\ B \subseteq S
  BY <1>4, <1>5, <1>8 DEF Fiber
<1>10. IsFiniteSet(A) /\ IsFiniteSet(B) /\ IsFiniteSet(m) /\ IsFiniteSet(n)
  BY <1>6, <1>9, FS_Subset
<1>11. \A x \in A \cup B : w[x] \in Nat
  BY <1>9
<1>12. SumBy(w, From(m)) = SumBy(w, A) + SumBy(w, B)
  <2>1. SumBy(w, A \cup B) = SumBy(w, A) + SumBy(w, B)
    BY <1>9, <1>10, <1>11, SumSplits
  <2> QED BY <1>9, <2>1
<1>13. v[t] = SumBy(w, B) /\ v[t] \in Nat
  <2>1. \A x \in B : w[x] \in Nat
    BY <1>11
  <2>2. SumBy(w, B) \in Nat
    BY <1>10, <2>1, SumNat
  <2>3. v[t] = SumBy(w, Fiber(f, S, t))
    BY <1>6
  <2> QED BY <1>8, <2>2, <2>3
<1>14. \A u \in m : v[u] \in Nat
  <2> SUFFICES ASSUME NEW u \in m PROVE v[u] \in Nat
    OBVIOUS
  <2>1. PICK D : D = Fiber(f, S, u)
    OBVIOUS
  <2>2. IsFiniteSet(D) /\ \A x \in D : w[x] \in Nat
    BY <2>1, FS_Subset DEF Fiber
  <2>3. SumBy(w, D) \in Nat
    BY <2>2, SumNat
  <2> QED BY <1>6, <2>1, <2>3
<1>15. SumBy(v, m) = v[t] + SumBy(v, n)
  BY <1>4, <1>5, <1>10, <1>14, SumTake
<1>16. SumBy(w, A) \in Nat /\ SumBy(w, B) \in Nat
  BY <1>10, <1>11, SumNat
<1>17. SumBy(w, From(m)) = SumBy(v, m)
  <2> HIDE DEF From, C
  <2> QED BY <1>7, <1>8, <1>12, <1>13, <1>15, <1>16
<1> QED BY <1>2, <1>17

LEMMA SumOne ==
  ASSUME NEW w, NEW x, w[x] \in Nat
  PROVE  SumBy(w, {x}) = w[x]
<1>1. IsFiniteSet({x}) /\ {x} \ {x} = {}
  BY FS_Singleton
<1>2. SumBy(w, {x}) = w[x] + SumBy(w, {x} \ {x})
  BY <1>1, SumTake
<1> QED BY <1>1, <1>2, SumEmpty

LEMMA SumSame ==
  ASSUME NEW w, NEW S, IsFiniteSet(S), NEW c \in Nat, \A x \in S : w[x] = c
  PROVE  SumBy(w, S) = Cardinality(S) * c
<1> DEFINE C == {s \in SUBSET S : SumBy(w, s) # Cardinality(s) * c}
<1> SUFFICES ASSUME C # {} PROVE FALSE
  OBVIOUS
<1>1. PICK m \in C : \A s \in C : s \subseteq m => s = m
  <2> C \subseteq SUBSET S
    OBVIOUS
  <2> HIDE DEF C
  <2> QED BY MinimalSet
<1>2. m # {}
  <2>1. SumBy(w, {}) = 0 /\ Cardinality({}) = 0
    BY SumEmpty, FS_EmptySet
  <2>2. 0 * c = 0
    OBVIOUS
  <2>3. SumBy(w, {}) = Cardinality({}) * c
    BY <2>1, <2>2
  <2> QED BY <1>1, <2>3
<1>3. PICK x \in m : TRUE
  BY <1>2
<1>4. PICK n : n = m \ {x}
  OBVIOUS
<1>5. IsFiniteSet(m) /\ n \in SUBSET S /\ n \subseteq m /\ n # m
  BY <1>1, <1>3, <1>4, FS_Subset
<1>6. SumBy(w, n) = Cardinality(n) * c
  BY <1>1, <1>5
<1>7. Cardinality(n) = Cardinality(m) - 1 /\ Cardinality(m) \in Nat /\ Cardinality(n) \in Nat
  <2>1. Cardinality(n) = Cardinality(m) - 1
    BY <1>3, <1>4, <1>5, FS_RemoveElement
  <2>2. IsFiniteSet(n)
    BY <1>5, FS_Subset
  <2> QED BY <1>5, <2>1, <2>2, FS_CardinalityType
<1>8. SumBy(w, m) = c + SumBy(w, n)
  <2>1. \A y \in m : w[y] \in Nat
    BY <1>1
  <2>2. w[x] = c
    BY <1>1, <1>3
  <2> QED BY <1>3, <1>4, <1>5, <2>1, <2>2, SumTake
<1>9. Cardinality(m) * c = c + (Cardinality(n) * c)
  <2>1. PICK a \in Nat : a = Cardinality(n)
    BY <1>7
  <2>2. Cardinality(m) = a + 1
    BY <1>7, <2>1
  <2>3. (a + 1) * c = c + (a * c)
    OBVIOUS
  <2> QED BY <2>1, <2>2, <2>3
<1>10. SumBy(w, m) = Cardinality(m) * c
  BY <1>6, <1>8, <1>9
<1> QED BY <1>1, <1>10

(* What is ordered and finite has a last one; so have whole numbers a least. *)
TotalOrder(R, S) ==
  /\ \A x \in S : <<x, x>> \notin R
  /\ \A x, y \in S : x # y => <<x, y>> \in R \/ <<y, x>> \in R
  /\ \A x, y, z \in S : <<x, y>> \in R /\ <<y, z>> \in R => <<x, z>> \in R

LEMMA LastExists ==
  ASSUME NEW S, IsFiniteSet(S), S # {}, NEW R, TotalOrder(R, S)
  PROVE  \E x \in S : \A y \in S : y # x => <<y, x>> \in R
<1> DEFINE C == {T \in SUBSET S : T # {} /\ ~ \E x \in T : \A y \in T : y # x => <<y, x>> \in R}
<1> SUFFICES ASSUME C # {} PROVE FALSE
  OBVIOUS
<1>1. PICK T \in C : \A U \in C : U \subseteq T => U = T
  <2> C \subseteq SUBSET S
    OBVIOUS
  <2> HIDE DEF C
  <2> QED BY MinimalSet
<1>2. T \subseteq S /\ T # {} /\ ~ \E x \in T : \A y \in T : y # x => <<y, x>> \in R
  BY <1>1
<1>3. PICK t \in T : TRUE
  BY <1>2
<1>4. T \ {t} # {}
  BY <1>2, <1>3
<1>5. T \ {t} \notin C
  BY <1>1, <1>3
<1>6. PICK x \in T \ {t} : \A y \in T \ {t} : y # x => <<y, x>> \in R
  BY <1>2, <1>4, <1>5
<1>7. x \in S /\ t \in S /\ x # t
  BY <1>2, <1>6
<1>8. CASE <<t, x>> \in R
  BY <1>2, <1>6, <1>8
<1>9. CASE <<x, t>> \in R
  <2>1. \A y \in T : y # t => <<y, t>> \in R
    BY <1>2, <1>6, <1>7, <1>9 DEF TotalOrder
  <2> QED BY <1>2, <2>1
<1> QED BY <1>7, <1>8, <1>9 DEF TotalOrder

LEMMA LeastOf ==
  ASSUME NEW D, D \subseteq Int, IsFiniteSet(D), D # {}
  PROVE  Min(D) \in D
<1> DEFINE R == {z \in D \X D : z[2] < z[1]}
<1>1. \A x, y \in D : <<x, y>> \in R <=> y < x
  OBVIOUS
<1> HIDE DEF R
<1>2. TotalOrder(R, D)
  <2>1. \A x \in D : <<x, x>> \notin R
    BY <1>1
  <2>2. \A x, y \in D : x # y => <<x, y>> \in R \/ <<y, x>> \in R
    BY <1>1
  <2>3. \A x, y, z \in D : <<x, y>> \in R /\ <<y, z>> \in R => <<x, z>> \in R
    BY <1>1
  <2> QED BY <2>1, <2>2, <2>3 DEF TotalOrder
<1>3. PICK x \in D : \A y \in D : y # x => <<y, x>> \in R
  BY <1>2, LastExists
<1>4. ASSUME NEW y \in D PROVE x <= y
  <2>1. x \in Int /\ y \in Int
    OBVIOUS
  <2>2. y = x \/ x < y
    BY <1>1, <1>3
  <2> QED BY <2>1, <2>2
<1>5. \E m \in D : \A y \in D : m <= y
  BY <1>4
<1>6. (CHOOSE m \in D : \A y \in D : m <= y) \in D
  BY <1>5
<1> QED BY <1>6 DEF Min

-----------------------------------------------------------------------------
LEMMA OccupiedIs ==
  ASSUME NEW park1, NEW w, NEW S, IsFiniteSet(S), \A x \in S : w[x] = park1[x].peak
  PROVE  Occupied(park1, S) = SumBy(w, S)
<1> DEFINE iter == CHOOSE h : h = [s \in SUBSET S |->
                     IF s = {} THEN 0
                     ELSE park1[CHOOSE x \in s : TRUE].peak + h[s \ {CHOOSE x \in s : TRUE}]]
           Eq(h) == h = [s \in SUBSET S |->
                     IF s = {} THEN 0
                     ELSE park1[CHOOSE x \in s : TRUE].peak + h[s \ {CHOOSE x \in s : TRUE}]]
<1>1. \A h : Eq(h) <=> Adds(h, w, S)
  <2> SUFFICES ASSUME NEW h PROVE Eq(h) <=> Adds(h, w, S)
    OBVIOUS
  <2>1. \A s \in SUBSET S :
          (IF s = {} THEN 0 ELSE park1[CHOOSE x \in s : TRUE].peak + h[s \ {CHOOSE x \in s : TRUE}])
          = (IF s = {} THEN 0 ELSE w[Pick(s)] + h[s \ {Pick(s)}])
    <3> SUFFICES ASSUME NEW s \in SUBSET S, s # {}
                 PROVE  park1[Pick(s)].peak + h[s \ {Pick(s)}] = w[Pick(s)] + h[s \ {Pick(s)}]
      BY DEF Pick
    <3>1. Pick(s) \in S
      BY Picked
    <3> QED BY <3>1
  <2> QED BY <2>1 DEF Adds
<1>2. \E h : Eq(h)
  <2>1. PICK g : Adds(g, w, S)
    BY AddsExists
  <2> HIDE DEF Eq
  <2> QED BY <1>1, <2>1
<1>3. Eq(iter)
  BY <1>2
<1>4. Occupied(park1, S) = iter[S]
  BY DEF Occupied, MapThenSumSet, MapThenFoldSet
<1>5. PICK h : Adds(h, w, S) /\ SumBy(w, S) = h[S]
  BY SumIs
<1> HIDE DEF iter, Eq
<1> QED BY <1>1, <1>3, <1>4, <1>5, AddsAgree
-----------------------------------------------------------------------------
(* What fits, fits: the victims make the room the decision asked for.      *)

LEMMA LeastIn ==
  ASSUME NEW S \in SUBSET Nat, S # {}
  PROVE  \E m \in S : \A n \in S : m <= n
<1> DEFINE R == OpToRel(<, Nat)
<1>1. PICK m \in S : \A y \in S : ~ (<<y, m>> \in R)
  BY NatLessThanWellFounded, WFMin
<1>2. \A x, y \in Nat : y < x => <<y, x>> \in R
  BY Zenon DEF OpToRel
<1> HIDE DEF R
<1>3. \A y \in S : y \in Nat /\ m \in Nat /\ ~(y < m)
  BY Zenon, <1>1, <1>2
<1>4. \A n \in S : m <= n
  BY <1>3, SMT
<1> QED BY <1>4

(* The whole of the evictable is the longest prefix. *)
LEMMA OldestAll ==
  ASSUME NEW park1, NEW E, IsFiniteSet(E), \A q \in E : park1[q].last \in Nat
  PROVE  Oldest(park1, E, Cardinality(E)) = E
<1> SUFFICES ASSUME NEW r \in E
             PROVE  Cardinality({q \in E : park1[q].last < park1[r].last}) < Cardinality(E)
  BY DEF Oldest
<1> DEFINE older == {q \in E : park1[q].last < park1[r].last}
<1>1. older \subseteq E \ {r} /\ IsFiniteSet(E \ {r})
  BY FS_RemoveElement
<1>2. Cardinality(E \ {r}) = Cardinality(E) - 1
  BY FS_RemoveElement
<1> HIDE DEF older
<1>3. Cardinality(older) <= Cardinality(E \ {r}) /\ IsFiniteSet(older)
  BY <1>1, FS_Subset
<1>4. Cardinality(older) \in Nat /\ Cardinality(E) \in Nat
  BY <1>3, FS_CardinalityType
<1>5. Cardinality(older) < Cardinality(E)
  BY <1>2, <1>3, <1>4
<1> QED BY <1>5 DEF older

(* If the longest prefix is enough, one is the shortest that is.           *)
LEMMA ShortestIs ==
  ASSUME NEW park1, NEW E, IsFiniteSet(E), \A q \in E : park1[q].last \in Nat,
         NEW Good, E \in Good
  PROVE  \E k \in 0 .. Cardinality(E) :
           /\ Oldest(park1, E, k) \in Good
           /\ \A j \in 0 .. k - 1 : Oldest(park1, E, j) \notin Good
<1> DEFINE N == {k \in 0 .. Cardinality(E) : Oldest(park1, E, k) \in Good}
<1>1. Cardinality(E) \in Nat
  BY FS_CardinalityType
<1>2. Cardinality(E) \in N
  BY <1>1, OldestAll
<1>3. N \in SUBSET Nat /\ N # {}
  BY <1>1, <1>2
<1> HIDE DEF N
<1>4. PICK k \in N : \A n \in N : k <= n
  BY <1>3, LeastIn
<1>5. k \in 0 .. Cardinality(E) /\ Oldest(park1, E, k) \in Good
  BY <1>4 DEF N
<1>6. ASSUME NEW j \in 0 .. k - 1 PROVE Oldest(park1, E, j) \notin Good
  <2>1. j \in 0 .. Cardinality(E) /\ ~ k <= j
    BY <1>1, <1>5
  <2>2. j \notin N
    BY <1>4, <2>1
  <2> QED BY <2>1, <2>2 DEF N
<1> QED BY <1>5, <1>6

HeavyFine(peak, park1, E) == {g \in SUBSET E : HeavyRuleHolds(peak, park1, g)}
BudgetFine(peak, park1, h, E) == {g \in SUBSET E : Fits(peak, park1, h \cup g)}

HeavyGone(peak, park1) ==
  LET heavyOK(gone) == HeavyRuleHolds(peak, park1, gone)
  IN  ShortestPrefix(park1, Heavies(park1), heavyOK)
MoreGone(peak, park1, h) ==
  LET budgetOK(gone) == Fits(peak, park1, h \cup gone)
  IN  ShortestPrefix(park1, DOMAIN park1 \ h, budgetOK)

LEMMA HeavyPrefix ==
  ASSUME NEW park1, NEW peak, IsFiniteSet(DOMAIN park1),
         \A q \in DOMAIN park1 : park1[q].last \in Nat,
         HeavyRuleHolds(peak, park1, Evictable(park1, Heavies(park1)))
  PROVE  HeavyRuleHolds(peak, park1, HeavyGone(peak, park1))
<1> DEFINE E == Evictable(park1, Heavies(park1))
<1>1. E \subseteq DOMAIN park1 /\ IsFiniteSet(E)
  <2>1. E \subseteq DOMAIN park1
    BY DEF Evictable, Heavies
  <2> QED BY <2>1, FS_Subset
<1>2. \A k : Oldest(park1, E, k) \subseteq E
  BY DEF Oldest
<1>3. \E k \in 0 .. Cardinality(E) :
        /\ Oldest(park1, E, k) \in HeavyFine(peak, park1, E)
        /\ \A j \in 0 .. k - 1 : Oldest(park1, E, j) \notin HeavyFine(peak, park1, E)
  <2>1. E \in HeavyFine(peak, park1, E)
    BY DEF HeavyFine
  <2>2. \A q \in E : park1[q].last \in Nat
    BY <1>1
  <2> HIDE DEF E
  <2> QED BY <1>1, <2>1, <2>2, ShortestIs
<1>4. \E k \in 0 .. Cardinality(E) :
        /\ HeavyRuleHolds(peak, park1, Oldest(park1, E, k))
        /\ \A j \in 0 .. k - 1 : ~HeavyRuleHolds(peak, park1, Oldest(park1, E, j))
  <2> HIDE DEF E
  <2> QED BY <1>2, <1>3 DEF HeavyFine
<1> DEFINE n == CHOOSE k \in 0 .. Cardinality(E) :
             /\ HeavyRuleHolds(peak, park1, Oldest(park1, E, k))
             /\ \A j \in 0 .. k - 1 : ~HeavyRuleHolds(peak, park1, Oldest(park1, E, j))
<1>5. HeavyRuleHolds(peak, park1, Oldest(park1, E, n))
  <2> HIDE DEF E
  <2> QED BY <1>4
<1> QED BY <1>5 DEF HeavyGone, ShortestPrefix

LEMMA BudgetPrefix ==
  ASSUME NEW park1, NEW peak, NEW h, IsFiniteSet(DOMAIN park1),
         \A q \in DOMAIN park1 : park1[q].last \in Nat,
         Fits(peak, park1, h \cup Evictable(park1, DOMAIN park1 \ h))
  PROVE  Fits(peak, park1, h \cup MoreGone(peak, park1, h))
<1> DEFINE E == Evictable(park1, DOMAIN park1 \ h)
<1>1. E \subseteq DOMAIN park1 /\ IsFiniteSet(E)
  <2>1. E \subseteq DOMAIN park1
    BY DEF Evictable
  <2> QED BY <2>1, FS_Subset
<1>2. \A k : Oldest(park1, E, k) \subseteq E
  BY DEF Oldest
<1>3. \E k \in 0 .. Cardinality(E) :
        /\ Oldest(park1, E, k) \in BudgetFine(peak, park1, h, E)
        /\ \A j \in 0 .. k - 1 : Oldest(park1, E, j) \notin BudgetFine(peak, park1, h, E)
  <2>1. E \in BudgetFine(peak, park1, h, E)
    BY DEF BudgetFine
  <2>2. \A q \in E : park1[q].last \in Nat
    BY <1>1
  <2> HIDE DEF E
  <2> QED BY <1>1, <2>1, <2>2, ShortestIs
<1>4. \E k \in 0 .. Cardinality(E) :
        /\ Fits(peak, park1, h \cup Oldest(park1, E, k))
        /\ \A j \in 0 .. k - 1 : ~Fits(peak, park1, h \cup Oldest(park1, E, j))
  <2> HIDE DEF E
  <2> QED BY <1>2, <1>3 DEF BudgetFine
<1> DEFINE n == CHOOSE k \in 0 .. Cardinality(E) :
             /\ Fits(peak, park1, h \cup Oldest(park1, E, k))
             /\ \A j \in 0 .. k - 1 : ~Fits(peak, park1, h \cup Oldest(park1, E, j))
<1>5. Fits(peak, park1, h \cup Oldest(park1, E, n))
  <2> HIDE DEF E
  <2> QED BY <1>4
<1> QED BY <1>5 DEF MoreGone, ShortestPrefix

(* An admitted candidate that was not there fits beside what stays, or     *)
(* nothing stays.                                                          *)
Room(peak, park1, gone) ==
  \/ DOMAIN park1 \subseteq gone
  \/ Fits(peak, park1, gone) /\ HeavyRuleHolds(peak, park1, gone)

LEMMA PlanMakesRoom ==
  ASSUME NEW ref, NEW peak, NEW park1, NEW overcommit \in BOOLEAN,
         IsFiniteSet(DOMAIN park1), \A q \in DOMAIN park1 : park1[q].last \in Nat,
         ref \notin DOMAIN park1,
         Plan(ref, peak, park1, FALSE, overcommit).admitted
  PROVE  /\ peak # NoPeak
         /\ Room(peak, park1, Plan(ref, peak, park1, FALSE, overcommit).evict)
<1> DEFINE plan == Plan(ref, peak, park1, FALSE, overcommit)
<1>1. \A why, blockers : ~Refused(why, blockers).admitted
  BY DEF Refused
<1>2. \A why, evict, headroom : Admitted(why, evict, headroom).evict = evict
  BY DEF Admitted
<1>3. peak # NoPeak
  BY <1>1 DEF Plan
<1>4. CASE plan = PlanOverBudget(peak, park1)
  <2> HIDE DEF plan
  <2>1. plan = Admitted("over budget", DOMAIN park1, Budget - peak)
    BY <1>1, <1>4 DEF PlanOverBudget, plan
  <2>2. plan.evict = DOMAIN park1
    BY <1>2, <2>1
  <2> QED BY <1>3, <2>2 DEF Room, plan
<1>5. CASE plan = PlanFit(peak, park1)
  <2> DEFINE heavyOK(gone) == HeavyRuleHolds(peak, park1, gone)
             heavyGone == ShortestPrefix(park1, Heavies(park1), heavyOK)
             rest == DOMAIN park1 \ heavyGone
             budgetOK(gone) == Fits(peak, park1, heavyGone \cup gone)
             more == ShortestPrefix(park1, rest, budgetOK)
             fit == Admitted("fits", heavyGone \cup more,
                             Budget - Occupied(park1, DOMAIN park1 \ (heavyGone \cup more)) - peak)
  <2>1. \/ /\ PlanFit(peak, park1) = fit
           /\ HeavyRuleHolds(peak, park1, Evictable(park1, Heavies(park1)))
           /\ Fits(peak, park1, heavyGone \cup Evictable(park1, rest))
        \/ \E why, blockers : PlanFit(peak, park1) = Refused(why, blockers)
    BY Zenon DEF PlanFit
  <2>2. /\ PlanFit(peak, park1) = fit
        /\ HeavyRuleHolds(peak, park1, Evictable(park1, Heavies(park1)))
        /\ Fits(peak, park1, heavyGone \cup Evictable(park1, rest))
    <3> HIDE DEF fit, heavyGone, rest
    <3> QED BY <1>1, <1>5, <2>1
  <2>3. HeavyRuleHolds(peak, park1, heavyGone)
    <3>1. HeavyRuleHolds(peak, park1, HeavyGone(peak, park1))
      <4> HIDE DEF fit, heavyGone, rest, plan
      <4> QED BY <2>2, HeavyPrefix
    <3> QED BY <3>1 DEF HeavyGone
  <2>4. Fits(peak, park1, heavyGone \cup more)
    <3>1. Fits(peak, park1, heavyGone \cup Evictable(park1, DOMAIN park1 \ heavyGone))
      BY <2>2
    <3>2. Fits(peak, park1, heavyGone \cup MoreGone(peak, park1, heavyGone))
      <4> HIDE DEF heavyGone
      <4> QED BY <3>1, BudgetPrefix
    <3> QED BY <3>2 DEF MoreGone
  <2>5. plan.evict = heavyGone \cup more
    <3> HIDE DEF heavyGone, more, plan
    <3> QED BY <1>2, <1>5, <2>2
  <2>6. HeavyRuleHolds(peak, park1, heavyGone \cup more)
    <3> HIDE DEF heavyGone, more
    <3> SUFFICES ASSUME ~ peak <= HeavyThreshold
                 PROVE  Cardinality(Heavies(park1) \ (heavyGone \cup more)) < MaxHeavy
      BY DEF HeavyRuleHolds
    <3>1. Cardinality(Heavies(park1) \ heavyGone) < MaxHeavy
      BY <2>3 DEF HeavyRuleHolds
    <3> DEFINE A == Heavies(park1) \ heavyGone
               B == Heavies(park1) \ (heavyGone \cup more)
    <3>2. A \subseteq DOMAIN park1 /\ B \subseteq A
      BY DEF Heavies
    <3>3. IsFiniteSet(A)
      BY <3>2, FS_Subset
    <3> HIDE DEF A, B
    <3>4. IsFiniteSet(B) /\ Cardinality(B) <= Cardinality(A)
      BY <3>2, <3>3, FS_Subset
    <3>5. Cardinality(B) \in Nat /\ Cardinality(A) \in Nat
      BY <3>3, <3>4, FS_CardinalityType
    <3>6. Cardinality(A) < MaxHeavy
      BY <3>1 DEF A
    <3>7. Cardinality(B) < MaxHeavy
      BY <3>4, <3>5, <3>6, PolicyAssumption
    <3> QED BY <3>7 DEF B
  <2> HIDE DEF heavyGone, more, plan
  <2>7. Room(peak, park1, plan.evict)
    BY <2>4, <2>5, <2>6 DEF Room
  <2> QED BY <1>3, <2>7 DEF plan
<1>6. \/ plan = PlanOverBudget(peak, park1) \/ plan = PlanFit(peak, park1)
      \/ \E why, blockers : plan = Refused(why, blockers)
  BY <1>3, Zenon DEF Plan
<1> QED BY <1>1, <1>4, <1>5, <1>6

-----------------------------------------------------------------------------
(* The prefixes in LRU order, one more victim at a time.                   *)

Older(park1, E, r) == {q \in E : park1[q].last < park1[r].last}
Timed(park1, E) ==
  /\ IsFiniteSet(E)
  /\ \A q \in E : park1[q].last \in Nat
  /\ \A q, r \in E : park1[q].last = park1[r].last => q = r

LEMMA OlderCount ==
  ASSUME NEW park1, NEW E, Timed(park1, E), NEW r \in E
  PROVE  /\ IsFiniteSet(Older(park1, E, r)) /\ Cardinality(Older(park1, E, r)) \in Nat
         /\ Cardinality(Older(park1, E, r)) < Cardinality(E)
<1>1. /\ IsFiniteSet(E \ {r}) /\ Cardinality(E \ {r}) = Cardinality(E) - 1
      /\ Cardinality(E) \in Nat
  BY FS_RemoveElement, FS_CardinalityType DEF Timed
<1>2. Older(park1, E, r) \subseteq E \ {r}
  BY DEF Older, Timed
<1>3. /\ IsFiniteSet(Older(park1, E, r))
      /\ Cardinality(Older(park1, E, r)) <= Cardinality(E \ {r})
      /\ Cardinality(Older(park1, E, r)) \in Nat
  BY <1>1, <1>2, FS_Subset, FS_CardinalityType
<1> QED BY <1>1, <1>3

LEMMA OlderGrows ==
  ASSUME NEW park1, NEW E, Timed(park1, E), NEW q \in E, NEW r \in E,
         park1[q].last < park1[r].last
  PROVE  Cardinality(Older(park1, E, q)) < Cardinality(Older(park1, E, r))
<1> DEFINE A == Older(park1, E, q)
           B == Older(park1, E, r)
<1>1. IsFiniteSet(A) /\ Cardinality(A) \in Nat /\ IsFiniteSet(B) /\ Cardinality(B) \in Nat
  BY OlderCount
<1>2. q \in B /\ A \subseteq B \ {q}
  BY DEF Older, Timed
<1>3. IsFiniteSet(B \ {q}) /\ Cardinality(B \ {q}) = Cardinality(B) - 1
  BY <1>1, <1>2, FS_RemoveElement
<1>4. Cardinality(A) <= Cardinality(B \ {q})
  BY <1>2, <1>3, FS_Subset
<1> QED BY <1>1, <1>3, <1>4

LEMMA OlderApart ==
  ASSUME NEW park1, NEW E, Timed(park1, E), NEW q \in E, NEW r \in E,
         Cardinality(Older(park1, E, q)) = Cardinality(Older(park1, E, r))
  PROVE  q = r
<1>1. /\ park1[q].last \in Nat /\ park1[r].last \in Nat
      /\ Cardinality(Older(park1, E, q)) \in Nat
  BY OlderCount DEF Timed
<1>2. ~ park1[q].last < park1[r].last /\ ~ park1[r].last < park1[q].last
  BY <1>1, OlderGrows
<1>3. park1[q].last = park1[r].last
  BY <1>1, <1>2
<1> QED BY <1>3 DEF Timed

LEMMA OldestNone ==
  ASSUME NEW park1, NEW E, Timed(park1, E) PROVE Oldest(park1, E, 0) = {}
<1>1. \A r \in E : ~ Cardinality(Older(park1, E, r)) < 0
  BY OlderCount
<1> QED BY <1>1 DEF Oldest, Older

(* At most k residents have fewer than k older ones. *)
LEMMA OldestFew ==
  ASSUME NEW park1, NEW E, Timed(park1, E), NEW k \in Nat
  PROVE  /\ IsFiniteSet(Oldest(park1, E, k)) /\ Oldest(park1, E, k) \subseteq E
         /\ Cardinality(Oldest(park1, E, k)) <= k
<1> DEFINE O == Oldest(park1, E, k)
           f == [r \in O |-> Cardinality(Older(park1, E, r))]
<1>1. O \subseteq E /\ \A r \in O : f[r] \in 0 .. k - 1
  <2>1. O \subseteq E
    BY DEF Oldest
  <2>2. \A r \in O : Cardinality(Older(park1, E, r)) < k
    BY DEF Oldest, Older
  <2> QED BY <2>1, <2>2, OlderCount
<1>2. \A q, r \in O : f[q] = f[r] => q = r
  BY <1>1, OlderApart
<1>3. f \in Injection(O, 0 .. k - 1)
  <2>1. f \in [O -> 0 .. k - 1]
    BY <1>1
  <2> QED BY <1>2, <2>1 DEF Injection, IsInjective
<1>4. IsFiniteSet(0 .. k - 1) /\ Cardinality(0 .. k - 1) = k
  BY FS_Interval
<1> HIDE DEF f, O
<1>5. IsFiniteSet(O) /\ Cardinality(O) <= k
  BY <1>3, <1>4, FS_Injection
<1> QED BY <1>1, <1>5 DEF O

(* The least recently used of the others is the next victim. *)
LEMMA OldestNext ==
  ASSUME NEW park1, NEW E, Timed(park1, E), NEW k \in Nat,
         NEW r \in E \ Oldest(park1, E, k),
         \A q \in E \ Oldest(park1, E, k) : park1[r].last <= park1[q].last
  PROVE  /\ Oldest(park1, E, k + 1) = Oldest(park1, E, k) \cup {r}
         /\ k + 1 <= Cardinality(E)
<1> DEFINE n(q) == Cardinality(Older(park1, E, q))
<1>1. \A q \in E : n(q) \in Nat /\ n(q) < Cardinality(E)
  BY OlderCount
<1>2. \A q \in E : q \in Oldest(park1, E, k) <=> n(q) < k
  BY DEF Oldest, Older
<1>3. \A q \in E : q \in Oldest(park1, E, k + 1) <=> n(q) < k + 1
  BY DEF Oldest, Older
<1>4. Older(park1, E, r) \subseteq Oldest(park1, E, k)
  <2> SUFFICES ASSUME NEW q \in E, park1[q].last < park1[r].last,
                      q \notin Oldest(park1, E, k)
               PROVE  FALSE
    BY DEF Older
  <2>1. park1[r].last <= park1[q].last
    OBVIOUS
  <2> QED BY <2>1 DEF Timed
<1>5. n(r) <= k
  <2>1. /\ IsFiniteSet(Oldest(park1, E, k)) /\ Cardinality(Oldest(park1, E, k)) <= k
        /\ Cardinality(Oldest(park1, E, k)) \in Nat
    BY OldestFew, FS_CardinalityType
  <2>2. n(r) <= Cardinality(Oldest(park1, E, k))
    BY <1>4, <2>1, FS_Subset
  <2> QED BY <1>1, <2>1, <2>2
<1>6. n(r) = k
  BY <1>1, <1>2, <1>5
<1>7. \A q \in E : n(q) < k + 1 <=> n(q) < k \/ q = r
  <2> SUFFICES ASSUME NEW q \in E PROVE n(q) < k + 1 <=> n(q) < k \/ q = r
    OBVIOUS
  <2>1. n(q) = k => q = r
    BY <1>6, OlderApart
  <2> HIDE DEF n
  <2> QED BY <1>1, <1>6, <2>1
<1>8. Cardinality(E) \in Nat
  BY FS_CardinalityType DEF Timed
<1>9. Oldest(park1, E, k + 1) \subseteq E /\ Oldest(park1, E, k) \subseteq E
  BY DEF Oldest
<1> HIDE DEF n
<1>10. Oldest(park1, E, k + 1) = Oldest(park1, E, k) \cup {r}
  BY <1>2, <1>3, <1>7, <1>9
<1> QED BY <1>1, <1>6, <1>8, <1>10

(* What the first loop may evict, and the second after the first. *)
HeavyPool(park1) == Evictable(park1, Heavies(park1))
BudgetPool(park1, heavy) == Evictable(park1, DOMAIN park1 \ heavy)

(* gone is a prefix, in LRU order, of what the loop may evict, and no      *)
(* shorter one is enough.                                                  *)
HeavySoFar(peak, park1, gone) ==
  \E k \in 0 .. Cardinality(HeavyPool(park1)) :
    /\ gone = Oldest(park1, HeavyPool(park1), k)
    /\ \A j \in 0 .. k - 1 :
         ~ HeavyRuleHolds(peak, park1, Oldest(park1, HeavyPool(park1), j))

BudgetSoFar(peak, park1, heavy, gone) ==
  \E k \in 0 .. Cardinality(BudgetPool(park1, heavy)) :
    /\ gone = heavy \cup Oldest(park1, BudgetPool(park1, heavy), k)
    /\ \A j \in 0 .. k - 1 :
         ~ Fits(peak, park1, heavy \cup Oldest(park1, BudgetPool(park1, heavy), j))

(* The shortest prefix is the one before which none was enough.            *)
LEMMA HeavyGoneIs ==
  ASSUME NEW park1, NEW peak, NEW gone, Cardinality(HeavyPool(park1)) \in Nat,
         HeavySoFar(peak, park1, gone), HeavyRuleHolds(peak, park1, gone)
  PROVE  HeavyGone(peak, park1) = gone
<1> DEFINE E == HeavyPool(park1)
           Least(n) == /\ HeavyRuleHolds(peak, park1, Oldest(park1, E, n))
                       /\ \A j \in 0 .. n - 1 : ~HeavyRuleHolds(peak, park1, Oldest(park1, E, j))
           m == CHOOSE n \in 0 .. Cardinality(E) : Least(n)
<1>1. PICK k \in 0 .. Cardinality(E) : gone = Oldest(park1, E, k) /\ Least(k)
  BY DEF HeavySoFar
<1>2. m \in 0 .. Cardinality(E) /\ Least(m)
  BY <1>1
<1>3. HeavyGone(peak, park1) = Oldest(park1, E, m)
  BY DEF HeavyGone, ShortestPrefix, HeavyPool
<1> HIDE DEF m
<1>4. m = k
  <2>1. m < k => m \in 0 .. k - 1
    BY <1>1, <1>2
  <2>2. k < m => k \in 0 .. m - 1
    BY <1>1, <1>2
  <2>3. ~(m < k)
    BY <1>1, <1>2, <2>1 DEF Least
  <2>4. ~(k < m)
    BY <1>1, <1>2, <2>2 DEF Least
  <2> HIDE DEF Least
  <2> QED BY <1>1, <1>2, <2>3, <2>4
<1> QED BY <1>1, <1>3, <1>4

LEMMA MoreGoneIs ==
  ASSUME NEW park1, NEW peak, NEW heavy, NEW gone, Cardinality(BudgetPool(park1, heavy)) \in Nat,
         BudgetSoFar(peak, park1, heavy, gone), Fits(peak, park1, gone)
  PROVE  gone = heavy \cup MoreGone(peak, park1, heavy)
<1> DEFINE E == BudgetPool(park1, heavy)
           Least(n) == /\ Fits(peak, park1, heavy \cup Oldest(park1, E, n))
                       /\ \A j \in 0 .. n - 1 : ~Fits(peak, park1, heavy \cup Oldest(park1, E, j))
           m == CHOOSE n \in 0 .. Cardinality(E) : Least(n)
<1>1. PICK k \in 0 .. Cardinality(E) : gone = heavy \cup Oldest(park1, E, k) /\ Least(k)
  BY DEF BudgetSoFar
<1>2. m \in 0 .. Cardinality(E) /\ Least(m)
  BY <1>1
<1>3. MoreGone(peak, park1, heavy) = Oldest(park1, E, m)
  BY DEF MoreGone, ShortestPrefix, BudgetPool
<1> HIDE DEF m
<1>4. m = k
  <2>1. m < k => m \in 0 .. k - 1
    BY <1>1, <1>2
  <2>2. k < m => k \in 0 .. m - 1
    BY <1>1, <1>2
  <2>3. ~(m < k)
    BY <1>1, <1>2, <2>1 DEF Least
  <2>4. ~(k < m)
    BY <1>1, <1>2, <2>2 DEF Least
  <2> HIDE DEF Least
  <2> QED BY <1>1, <1>2, <2>3, <2>4
<1> QED BY <1>1, <1>3, <1>4

(* PlanFit in terms of the two prefixes. *)
LEMMA PlanFitIs ==
  ASSUME NEW peak, NEW park1
  PROVE  LET h == HeavyGone(peak, park1)
             m == MoreGone(peak, park1, h)
             E == Evictable(park1, Heavies(park1))
             R == Evictable(park1, DOMAIN park1 \ h)
         IN  PlanFit(peak, park1) =
               IF peak > HeavyThreshold /\ MaxHeavy < 1
               THEN Refused("no heavy allowed", {})
               ELSE IF ~HeavyRuleHolds(peak, park1, E)
               THEN Refused("heavy rule", Heavies(park1) \cap Immobile(park1))
               ELSE IF ~Fits(peak, park1, h \cup R)
               THEN Refused("budget", Immobile(park1))
               ELSE Admitted("fits", h \cup m,
                             Budget - Occupied(park1, DOMAIN park1 \ (h \cup m)) - peak)
BY Zenon DEF PlanFit, HeavyGone, MoreGone


(* What fits still fits when more leaves. *)
LEMMA FitsGrows ==
  ASSUME NEW park1, NEW peak \in Int, IsFiniteSet(DOMAIN park1),
         \A q \in DOMAIN park1 : park1[q].peak \in Nat,
         NEW S, NEW T, S \subseteq T, Fits(peak, park1, S)
  PROVE  Fits(peak, park1, T)
<1> DEFINE w == [q \in DOMAIN park1 |-> park1[q].peak]
           A == DOMAIN park1 \ S
           B == DOMAIN park1 \ T
<1>1. IsFiniteSet(A) /\ IsFiniteSet(B)
  BY FS_Subset
<1>2. B \subseteq A /\ A \subseteq DOMAIN park1
  OBVIOUS
<1>3. \A q \in A : w[q] = park1[q].peak /\ w[q] \in Nat
  OBVIOUS
<1>4. Occupied(park1, A) + peak <= Budget
  BY DEF Fits
<1>5. Occupied(park1, B) + peak <= Budget => Fits(peak, park1, T)
  BY DEF Fits
<1> HIDE DEF w, A, B
<1>6. Occupied(park1, A) = SumBy(w, A) /\ Occupied(park1, B) = SumBy(w, B)
  BY <1>1, <1>2, <1>3, OccupiedIs
<1>7. SumBy(w, A) \in Nat /\ SumBy(w, B) \in Nat
  BY <1>1, <1>2, <1>3, SumNat
<1>8. SumBy(w, B) <= SumBy(w, A)
  BY <1>1, <1>2, <1>3, SumGrows
<1>9. Budget \in Nat
  BY PolicyAssumption
<1> QED BY <1>4, <1>5, <1>6, <1>7, <1>8, <1>9

=============================================================================
