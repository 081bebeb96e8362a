------------------------------- MODULE Refusal -------------------------------
(***************************************************************************)
(* What the MCP server answers when the admission refuses an agent's job   *)
(* (packages/mcp: refus.py, and the path to it in serveur.py, choix.py,    *)
(* execution.py).  The decision is the one AdmissionLoop takes; the answer *)
(* is composed later, from the residents as they are by then.              *)
(*                                                                         *)
(* Values of the scaling parameter are in hundredths, so that the code's   *)
(* round(value, 2) is exact; amounts of memory are integers, as in Python. *)
(***************************************************************************)
EXTENDS AdmissionLoop, Sequences, SequencesExt

CONSTANTS
  Capability,\* [Refs -> capability]: what each variant serves
  Runnable,  \* the variants inspect_variant finds ready
  Profiles,  \* [Refs -> Profile]
  Defaults,  \* [Refs -> Nat]: merge_defaults, for the scaling parameter
  Given,     \* the values an agent may write for it
  Absent     \* it writes none

Profile == [measured : Nat, base : Nat, unit : Nat, lo : Nat, hi : Nat,
            integer : BOOLEAN]

ASSUME RefusalAssumption ==
  /\ Runnable \subseteq Refs
  /\ Profiles \in [Refs -> Profile]
  /\ \A ref \in Refs : Profiles[ref].lo <= Profiles[ref].hi
  /\ Defaults \in [Refs -> Nat] /\ Given \subseteq Nat
  /\ Absent \notin Nat

VARIABLES
  argument,  \* the parameter as the agent wrote it
  seen,      \* the residents the answer was composed from
  answer     \* the options of the payload

rvars == <<park, call, restants, evinces, stage, verdict, argument, seen, answer>>

NoAnswer == [retry |-> {}, variants |-> <<>>, reduce |-> Absent,
             relay |-> {}, human |-> "none"]

-----------------------------------------------------------------------------
(* The peak of an input. *)

(* _resolve: what the agent wrote, the defaults of the variant otherwise. *)
Resolved(ref, written) == IF written = Absent THEN Defaults[ref] ELSE written

(* PeakScaling.expected and Profile.expected_peak; a unit of 0 stands for a *)
(* profile without peak_scaling.                                           *)
Linear(p, v) == p.base + (p.unit * v) \div 100
ExpectedPeak(ref, v) ==
  LET p == Profiles[ref]
  IN  CASE p.unit = 0 -> p.measured
        [] p.unit # 0 /\ v \in p.lo .. p.hi -> Linear(p, v)
        [] OTHER -> Max({Linear(p, v), p.measured})

-----------------------------------------------------------------------------
(* The options.  `peak` is demande.peak_bytes, `values` the resolved input.*)

Held(residents) == Occupied(residents, Immobile(residents))

(* _manque *)
Missing(residents, peak) == Max({0, Held(residents) + peak - Budget})

(* Mutant: the end of any running job, enough or not. *)
WaitHopefully(residents, peak) ==
  {r \in DOMAIN residents : residents[r].busy /\ ~residents[r].pinned}

(* _attendre *)
Wait(residents, peak) ==
  LET freeable == {r \in DOMAIN residents :
                     residents[r].busy /\ ~residents[r].pinned}
  IN  IF peak > Budget \/ Missing(residents, peak) > Occupied(residents, freeable)
      THEN {} ELSE freeable

(* Mutant: the alternative is priced at its measured peak. *)
OtherMeasured(residents, ref, values) ==
  [ref |-> ref, peak |-> Profiles[ref].measured,
   fits |-> Plan(ref, Profiles[ref].measured, residents, FALSE, FALSE).admitted]

(* One line of _autres_variants: Supervisor.simulate on the same input. *)
Other(residents, ref, values) ==
  LET peak == ExpectedPeak(ref, values)
  IN  [ref |-> ref, peak |-> peak,
       fits |-> Plan(ref, peak, residents, FALSE, FALSE).admitted]

(* _autres_variants: what fits first, then the lightest; the sort is       *)
(* stable, so among equals the order of the registry, any order here.      *)
Others(residents, ref, values) ==
  LET lines == {Other(residents, r, values) :
                  r \in {q \in Runnable \ {ref} : Capability[q] = Capability[ref]}}
      before(a, b) == \/ a.fits /\ ~b.fits
                      \/ a.fits = b.fits /\ a.peak < b.peak
  IN  {s \in SetToSeqs(lines) : \A i \in DOMAIN s : i > 1 => ~before(s[i], s[i - 1])}

(* Mutant: the value is rounded to the nearest integer. *)
ToNearest(p, num, den) ==
  IF p.integer THEN 100 * ((2 * num + 100 * den) \div (200 * den))
  ELSE (2 * num + den) \div (2 * den)

(* _au_type_du_parametre, for the value num/den: truncated to an integer,  *)
(* or rounded to the nearest hundredth.                                    *)
ToType(p, num, den) ==
  IF p.integer THEN 100 * (num \div (100 * den))
  ELSE (2 * num + den) \div (2 * den)

(* _reduire: the largest value the slope allows in the room left, within   *)
(* the measured range; Absent for None.  The quotient margin / unit is     *)
(* kept as num/den, in hundredths.                                         *)
Reduce(residents, ref, values, peak, why) ==
  LET p == Profiles[ref]
      margin == Budget - Held(residents) - p.base
      num == 100 * margin
      den == p.unit
      clipped == num > p.hi * den
      value == IF clipped THEN ToType(p, p.hi, 1) ELSE ToType(p, num, den)
  IN  IF \/ peak > Budget
         \/ why = "heavy rule"
         \/ p.unit = 0
         \/ margin <= 0
         \/ 10 * num < 11 * p.lo * den
         \/ Min({num, p.hi * den}) >= values * den
         \/ value < (IF p.integer THEN 100 ELSE 1)
      THEN Absent ELSE value

(* _relayer *)
Relay(residents, blockers) ==
  {r \in DOMAIN residents : residents[r].pinned /\ r \in blockers}

(* _options, its two human fallbacks; `variants` is one of Others.         *)
Options(residents, ref, values, peak, v, variants) ==
  IF peak = NoPeak THEN [NoAnswer EXCEPT !.human = "bench"]
  ELSE LET found == [retry |-> Wait(residents, peak),
                     variants |-> variants,
                     reduce |-> Reduce(residents, ref, values, peak, v.why),
                     relay |-> Relay(residents, v.blockers),
                     human |-> "none"]
       IN  IF found = NoAnswer THEN [NoAnswer EXCEPT !.human = "over budget"]
           ELSE found

-----------------------------------------------------------------------------

RefusalInit ==
  /\ Init
  /\ argument = Absent
  /\ seen = <<>>
  /\ answer = NoAnswer

(* The decision: AdmissionLoop, one step. *)
Decide == Next /\ UNCHANGED <<argument, seen, answer>>

(* The park after the jobs on `ended` are over: the payload reads the      *)
(* residents when the refusal has come back from the thread of the job.    *)
After(residents, ended) ==
  [r \in DOMAIN residents |->
     [residents[r] EXCEPT !.busy = residents[r].busy /\ r \notin ended]]

(* Server.executer_capacite, execution.executer and refus.payload: the     *)
(* variant was chosen by the server or imposed by an earlier option (hence *)
(* any runnable one), and the peak decided on is the one of the resolved   *)
(* input, or none when the variant was never benched.                      *)
Answer ==
  /\ stage = "done" /\ ~verdict.admitted /\ answer = NoAnswer
  /\ ~call.measure /\ ~call.overcommit /\ call.ref \in Runnable
  /\ \E written \in Given \cup {Absent}, ended \in SUBSET DOMAIN park :
       LET values == Resolved(call.ref, written)
           residents == After(park, ended)
       IN  /\ call.peak \in {NoPeak, ExpectedPeak(call.ref, values)}
           /\ \A r \in ended : park[r].busy
           /\ argument' = written
           /\ seen' = residents
           /\ \E variants \in Others(residents, call.ref, values) :
                answer' = Options(residents, call.ref, values, call.peak, verdict, variants)
  /\ UNCHANGED vars

RefusalNext == Decide \/ Answer

RefusalSpec == RefusalInit /\ [][RefusalNext]_rvars

-----------------------------------------------------------------------------

Answered == answer # NoAnswer

Accepts(residents, ref, written) ==
  Plan(ref, ExpectedPeak(ref, Resolved(ref, written)), residents, FALSE, FALSE).admitted

(* "Il faut que l'attente suffise" (refus.py, _attendre): when the budget  *)
(* refused, once every job the answer names has ended, the same call is    *)
(* admitted.                                                               *)
RetryHelps ==
  (Answered /\ verdict.why = "budget" /\ answer.retry # {}) =>
    Accepts(After(seen, answer.retry), call.ref, argument)

(* An alternative announced as fitting now is admitted if the agent takes  *)
(* it at once, with the value it wrote; and what fits comes first.         *)
FitsNowHolds ==
  Answered =>
    \A i \in DOMAIN answer.variants :
      /\ (answer.variants[i].fits /\ argument # Absent) =>
            Accepts(seen, answer.variants[i].ref, argument)
      /\ i > 1 =>
            (answer.variants[i].fits => answer.variants[i - 1].fits)

(* The value a refusal proposes for an integer parameter is lower than the *)
(* one refused, and the same call with it is admitted.                     *)
ReductionAdmitted ==
  (Answered /\ answer.reduce # Absent /\ Profiles[call.ref].integer) =>
    /\ answer.reduce < Resolved(call.ref, argument)
    /\ Accepts(seen, call.ref, answer.reduce)

(* What a refusal offers holds. *)
OffersHold == RetryHelps /\ FitsNowHolds /\ ReductionAdmitted

(* The same promise for a parameter of type number. *)
NumberReductionAdmitted ==
  (Answered /\ answer.reduce # Absent) => Accepts(seen, call.ref, answer.reduce)

(* The same promise as RetryHelps, whatever refused. *)
RetryAlwaysHelps ==
  (Answered /\ answer.retry # {}) =>
    Accepts(After(seen, answer.retry), call.ref, argument)

(* "nothing can be freed" (refus.py, _options): an agent is sent to its     *)
(* human for a run over budget only if the same call would be refused now. *)
LastResort ==
  (Answered /\ answer.human = "over budget") =>
    ~Accepts(seen, call.ref, argument)

(* An alternative announced as fitting is admitted if the agent takes it,  *)
(* having left the parameter to its default.                               *)
FitsNowByDefault ==
  Answered => \A i \in DOMAIN answer.variants :
    answer.variants[i].fits => Accepts(seen, answer.variants[i].ref, argument)
=============================================================================
