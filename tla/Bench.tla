------------------------------- MODULE Bench -------------------------------
(***************************************************************************)
(* The measure of a variant (runtime/bench.py): the cases of a workload    *)
(* one after the other on a worker of its own, then the profile that is    *)
(* drawn from them, which every admission then reads (core/models.py).     *)
(* Session and Provision have the worker and the lease.                    *)
(*                                                                         *)
(* A workload holds                                                        *)
(*   version  0 when it is inferred from the contract                      *)
(*   named    whether it says that x is what it varies                     *)
(*   cases    each [x, files]: the value of x, or Unsaid, and how each     *)
(*            file of its input is written, "relative" or "absolute"       *)
(* A case ends as [ok, peak, duration, audio, tokens]; a peak of 0 is one  *)
(* that is not reported.  A source holds what resolve_source found of it,  *)
(* resolved, and its files: [content, size, wanted].                       *)
(***************************************************************************)
EXTENDS Input, Integers, Sequences, SequencesExt, FiniteSetsExt

CONSTANTS
  Workloads, Contract,   \* the workloads that may be on disk, or Unsaid; the inferred one
  Outcomes, Loadings,    \* how a case may end; the peak of a load
  SourcesMeasured,       \* the sequences of sources a variant may have
  ObservedBytes,         \* the bytes of the state observed for it: variant_disk_bytes
  Machines

ASSUME BenchAssumption == Contract.version = 0 /\ Contract.named = FALSE

VARIABLES
  charge,      \* the workload
  sources,
  loading,     \* the peak of the load, 0 when it is not reported
  received,    \* the files the worker is given, case by case
  results,     \* the cases that ended
  measures     \* [machine |-> the profile on disk, or Unsaid]

benchVars == <<charge, sources, loading, received, results, measures>>

(* load_workload, default_workload: a file without cases is no workload.    *)
WorkloadOf(file) == IF file = Unsaid \/ file.cases = <<>> THEN Contract ELSE file

BenchInit ==
  /\ charge \in {WorkloadOf(f) : f \in Workloads \cup {Unsaid}}
  /\ sources \in SourcesMeasured
  /\ loading \in Loadings
  /\ received = <<>> /\ results = <<>>
  /\ measures = [m \in Machines |-> Unsaid]

-----------------------------------------------------------------------------
(* Mutant: the files of a list are left as they are written. *)
OneFileResolved(files) ==
  [i \in DOMAIN files |-> IF files[i] = "relative" /\ Len(files) = 1 THEN "workload" ELSE files[i]]
(* _resolve_case: from the folder of the workload; an inferred one has none. *)
FilesResolved(files) ==
  [i \in DOMAIN files |-> IF files[i] = "relative" THEN "workload" ELSE files[i]]

(* A case that fails does not cancel the measure of the others. *)
RunCase ==
  /\ Len(results) < Len(charge.cases)
  /\ LET case == charge.cases[Len(results) + 1]
     IN  received' = Append(received, IF charge.version = 0 THEN case.files ELSE FilesResolved(case.files))
  /\ \E o \in Outcomes : results' = Append(results, o)
  /\ UNCHANGED <<charge, sources, loading, measures>>

-----------------------------------------------------------------------------
(* The peak. *)

Sum(s) == FoldLeft(LAMBDA a, b : a + b, 0, s)
Succeeded == SelectSeq(results, LAMBDA r : r.ok)

(* Mutant: the peak of the load. *)
LoadPeak(rs) == loading
(* _peak_bytes: the largest of all. *)
PeakBytes(rs) == Max({loading} \cup {rs[i].peak : i \in DOMAIN rs})

(* fit_peak_scaling: what is to be fitted, <<x, y>>. *)
Fittable ==
  LET ended == SetToSortSeq({i \in DOMAIN results :
                  charge.named /\ results[i].ok /\ results[i].peak > 0 /\ charge.cases[i].x # Unsaid}, <)
  IN  [k \in DOMAIN ended |-> <<charge.cases[ended[k]].x, results[ended[k]].peak>>]

(* Deviations from the mean, each multiplied by the number of points. *)
Deviation(ps, c) == [i \in DOMAIN ps |-> Len(ps) * ps[i][c] - Sum([k \in DOMAIN ps |-> ps[k][c]])]
Product(s, t) == Sum([i \in DOMAIN s |-> s[i] * t[i]])
XX(ps) == Product(Deviation(ps, 1), Deviation(ps, 1))
XY(ps) == Product(Deviation(ps, 1), Deviation(ps, 2))
YY(ps) == Product(Deviation(ps, 2), Deviation(ps, 2))

(* Least squares, with a base that is not negative. *)
Fitted(ps) ==
  LET sx == Sum([k \in DOMAIN ps |-> ps[k][1]])
      sy == Sum([k \in DOMAIN ps |-> ps[k][2]])
  IN  [base |-> Max({0, (sy * XX(ps) - XY(ps) * sx) \div (Len(ps) * XX(ps))}),
       rise |-> XY(ps), run |-> XX(ps),
       least |-> Min({ps[k][1] : k \in DOMAIN ps}), most |-> Max({ps[k][1] : k \in DOMAIN ps})]

(* Mutant: any line. *)
AnyLine(ps) == TRUE
(* run_bench: R2 is at least nine tenths. *)
Straight(ps) == 10 * XY(ps) * XY(ps) >= 9 * XX(ps) * YY(ps)

Scaling(ps) == IF Len(ps) < 2 \/ XX(ps) = 0 \/ ~Straight(ps) THEN Unsaid ELSE Fitted(ps)

-----------------------------------------------------------------------------
(* The disk. *)

(* Mutant: every file of the repository. *)
WholeTree(s) == FoldSet(LAMBDA f, n : n + f.size, 0, s.files)
(* _tree_bytes: what was asked of it, each content once. *)
TreeBytes(s) ==
  LET wanted == {f \in s.files : f.wanted}
      contents == {f.content : f \in wanted}
      SizeOf(c) == (CHOOSE f \in wanted : f.content = c).size
  IN  FoldSet(LAMBDA c, n : n + SizeOf(c), 0, contents)

(* _disk_bytes: of the sources that resolve, or else what was observed. *)
DiskBytes ==
  LET total == Sum([i \in DOMAIN sources |-> IF sources[i].resolved THEN TreeBytes(sources[i]) ELSE 0])
  IN  IF total > 0 THEN total ELSE ObservedBytes

-----------------------------------------------------------------------------
(* The speed: _rtf and _throughput, over all the cases. *)
Over(rs, Of(_)) == Sum([i \in DOMAIN rs |-> Of(rs[i])])

Speed(rs) ==
  LET seconds == Over(rs, LAMBDA r : r.duration)
      audio == Over(rs, LAMBDA r : r.audio)
      tokens == Over(rs, LAMBDA r : r.tokens)
  IN  CASE rs = <<>> \/ seconds = 0 -> [unit |-> "none"]
        [] rs # <<>> /\ seconds > 0 /\ audio > 0 -> [unit |-> "audio", made |-> audio, in |-> seconds]
        [] rs # <<>> /\ seconds > 0 /\ audio = 0 /\ tokens > 0 ->
             [unit |-> "tokens", made |-> tokens, in |-> seconds]
        [] OTHER -> [unit |-> "outputs", made |-> Len(rs), in |-> seconds]

(* build_profile *)
ProfileMade ==
  [disk |-> DiskBytes, peak |-> PeakBytes(results), scaling |-> Scaling(Fittable), speed |-> Speed(Succeeded)]

(* write_measurement: one file for each machine. *)
WriteMeasurement(m) ==
  /\ Len(results) = Len(charge.cases)
  /\ measures[m] = Unsaid
  /\ measures' = [measures EXCEPT ![m] = ProfileMade]
  /\ UNCHANGED <<charge, sources, loading, received, results>>

BenchNext == RunCase \/ \E m \in Machines : WriteMeasurement(m)

-----------------------------------------------------------------------------
(* What is reserved for a job from a profile: Profile.expected_peak,       *)
(* PeakScaling.expected and extrapolates.                                  *)
Reserved(p, x) ==
  IF p.scaling = Unsaid \/ x = Unsaid THEN p.peak
  ELSE LET line == Max({0, p.scaling.base + ((p.scaling.rise * x) \div p.scaling.run)})
       IN  IF x \in p.scaling.least..p.scaling.most THEN line ELSE Max({line, p.peak})

Peaks == {loading} \cup {results[i].peak : i \in DOMAIN results}
ProfilesWritten == {measures[m] : m \in {n \in Machines : measures[n] # Unsaid}}
ContentsApart ==
  \A i, k \in DOMAIN sources : i # k =>
    {f.content : f \in sources[i].files} \cap {f.content : f \in sources[k].files} = {}
AskedFiles == UNION {{f \in sources[i].files : f.wanted} : i \in {k \in DOMAIN sources : sources[k].resolved}}

ContentBytes(files) ==
  LET ofContent == {[content |-> f.content, size |-> f.size] : f \in files}
  IN  FoldSet(LAMBDA c, n : n + c.size, 0, ofContent)

(* A profile never reserves less than what was measured, but where it has a *)
(* line: beyond what was measured, and where the job does not say x, it     *)
(* reserves the largest peak of all; within, a measured case falls short of *)
(* the line by no more than a line that explains nine tenths may miss it,   *)
(* two units of rounding apart.  Its disk is that of the contents it asks,  *)
(* each once; its speed is that of the whole workload; no case of a         *)
(* workload depends on where the bench is started from.                     *)
ProfileHolds ==
  /\ charge.version > 0 => \A i \in DOMAIN received : \A k \in DOMAIN received[i] : received[i][k] # "relative"
  /\ \A p \in ProfilesWritten :
       /\ \A y \in Peaks : p.peak >= y /\ Reserved(p, Unsaid) >= y
       /\ p.scaling # Unsaid =>
            /\ \A y \in Peaks : Reserved(p, p.scaling.least - 1) >= y /\ Reserved(p, p.scaling.most + 1) >= y
            /\ \A i \in DOMAIN Fittable :
                 LET short == Fittable[i][2] - Reserved(p, Fittable[i][1])
                 IN  short > 2 => 10 * (Len(Fittable) ^ 2) * (short - 2) * (short - 2) <= YY(Fittable)
       /\ p.scaling = Unsaid => \A i \in DOMAIN results : Reserved(p, charge.cases[i].x) >= results[i].peak
       /\ ContentsApart /\ (\E f \in AskedFiles : f.size > 0) => p.disk = ContentBytes(AskedFiles)
       /\ p.speed.unit = "audio" =>
            p.speed.made = Sum([i \in DOMAIN Succeeded |-> Succeeded[i].audio])

(* "Admission reserves for the worst moment" (_peak_bytes): no case that   *)
(* was measured took more than what a job like it now reserves.            *)
EveryCaseReserved ==
  \A p \in ProfilesWritten : \A i \in DOMAIN results : Reserved(p, charge.cases[i].x) >= results[i].peak

(* Each content counts once (_tree_bytes), also in two sources. *)
EachContentOnce ==
  \A p \in ProfilesWritten : (\E f \in AskedFiles : f.size > 0) => p.disk = ContentBytes(AskedFiles)
=============================================================================
