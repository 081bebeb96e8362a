------------------------------- MODULE Faces -------------------------------
(***************************************************************************)
(* The workers of the capabilities about faces (workers/uniface_base.py    *)
(* and the six that extend it): a detector, and for five of them a model   *)
(* of their own on what it finds.  The detector is built for one size of   *)
(* entry, and again when a job asks for another; each time the weights are *)
(* read from the snapshot, which other programs may have changed since.    *)
(*                                                                         *)
(* A manifest holds the task, the weights and the detector it names, the   *)
(* size of its options and of its defaults, each or Unsaid.  A picture is  *)
(* a line of pixels, 0 .. width - 1, and its faces, in the order in which  *)
(* a detector finds them:                                                  *)
(*   box    <<first, beyond>>       confidence                             *)
(*   sizes  of entry at which it is seen                                   *)
(*   code   what the model of a task answers for it                        *)
(*   region the label of each of its pixels, 0 for none, or code           *)
(* A job holds a picture, another to compare or Unsaid, a size or Unsaid,  *)
(* the least confidence and the most faces it wants.                       *)
(***************************************************************************)
EXTENDS Input, Integers, Sequences, SequencesExt, FiniteSetsExt

CONSTANTS
  Manifests, FaceJobs,    \* what to consider
  Family,                 \* [weights |-> [anchors, sized, mesh]]: what the library knows
  UsualDetector,          \* DETECTEUR_PAR_DEFAUT
  Own,                    \* the size of a detector that is built without one
  Nothing,                \* no detector, no model, no similarity
  Aligned,                \* POINTS_ALIGNEMENT
  MaxDrifts, MaxFaceJobs  \* bounds: changes of the snapshot, jobs of a worker

ASSUME FacesAssumption == UsualDetector \in DOMAIN Family /\ Aligned \in Nat

VARIABLES
  manifest,
  snapshot,   \* [weights |-> "intact", "changed", "absent"], the files as they are
  worker,     \* the worker: state, model, detector, named, size
  drifts,
  answers     \* the jobs done, each with what was published

faceVars == <<manifest, snapshot, worker, drifts, answers>>

FacesInit ==
  /\ manifest \in Manifests
  /\ snapshot = [k \in DOMAIN Family |-> "intact"]
  /\ worker = [state |-> "new", model |-> Nothing, detector |-> Nothing,
               named |-> Nothing, size |-> Own, failed |-> FALSE]
  /\ drifts = 0 /\ answers = <<>>

(* Another program prunes the snapshot, or pulls another revision, or this *)
(* one again.                                                              *)
Drift(k) ==
  /\ drifts < MaxDrifts /\ drifts' = drifts + 1
  /\ \E s \in {"intact", "changed", "absent"} \ {snapshot[k]} : snapshot' = [snapshot EXCEPT ![k] = s]
  /\ UNCHANGED <<manifest, worker, answers>>

-----------------------------------------------------------------------------
(* Building. *)

(* Mutant: present is enough. *)
PresentIsEnough(k) == k \in DOMAIN Family /\ snapshot[k] # "absent"
(* resoudre_poids, exiger_present *)
Buildable(k) == k \in DOMAIN Family /\ snapshot[k] = "intact"

(* _construire: from the file as it is. *)
Built(k, size) == [weights |-> k, size |-> size, file |-> snapshot[k]]

(* _taille_entree *)
EntryOf(k, size) == IF Family[k].sized THEN size ELSE Own

(* reglage *)
SettingSize(job) == FirstSaid(<<job.size, manifest.option, manifest.default>>)

(* _construire_detecteur: what it is for is noted before it is built. *)
Rebuilt(w, k, size) ==
  IF k \notin DOMAIN Family THEN [w EXCEPT !.failed = TRUE]
  ELSE IF Buildable(k)
  THEN [w EXCEPT !.named = k, !.size = size, !.detector = Built(k, EntryOf(k, size)), !.failed = FALSE]
  ELSE [w EXCEPT !.named = k, !.size = size, !.failed = TRUE]

(* load: the model of the task, which the manifest must name, then the     *)
(* detector; a detector alone is what the manifest names as weights.       *)
DetectorNamed ==
  FirstSaid(IF manifest.task = "detect"
            THEN <<manifest.weights, manifest.detector, UsualDetector>>
            ELSE <<manifest.detector, UsualDetector>>)
LoadSize == Setting(<<manifest.default, manifest.option>>, Own)
ModelBuilt == manifest.task = "detect" \/ (manifest.weights # Unsaid /\ Buildable(manifest.weights))

LoadFaces ==
  LET w == Rebuilt(worker, DetectorNamed, LoadSize)
  IN  /\ worker.state = "new"
      /\ worker' = IF ModelBuilt /\ ~w.failed
           THEN [w EXCEPT !.state = "ready",
                          !.model = IF manifest.task = "detect" THEN Nothing ELSE Built(manifest.weights, Own)]
           ELSE [worker EXCEPT !.state = "refused"]
      /\ UNCHANGED <<manifest, snapshot, drifts, answers>>

-----------------------------------------------------------------------------
(* Detection. *)

(* _surface, boite *)
Surface(f) == Max({0, f.box[2] - f.box[1]})

(* Mutant: in the order of the detector. *)
AsFound(fs) == fs
(* The largest first, and as they were found among equals. *)
BySurface(fs) ==
  LET before(i, k) == Surface(fs[i]) > Surface(fs[k]) \/ (Surface(fs[i]) = Surface(fs[k]) /\ i < k)
      order == SetToSortSeq(DOMAIN fs, before)
  IN  [i \in DOMAIN fs |-> fs[order[i]]]

(* Mutant: a detector is a detector. *)
AsItStands(w, job) == w
(* The detector is built again when a job asks for another size. *)
Resized(w, job) ==
  LET size == SettingSize(job)
  IN  IF size \notin {Unsaid, w.size} THEN Rebuilt(w, w.named, size) ELSE w

(* detecter: what the detector sees at its size. *)
Found(w, picture) == SelectSeq(picture.faces, LAMBDA f : w.detector.size \in f.sizes)
Detected(w, picture, job) ==
  LET kept == BySurface(SelectSeq(Found(w, picture), LAMBDA f : f.confidence >= job.least))
  IN  SubSeq(kept, 1, Min({job.most, Len(kept)}))

-----------------------------------------------------------------------------
(* What each task makes of the faces. *)

(* recadrer and _boite_marge, by a margin in twentieths of the box. *)
FaceCrop(picture, f, margin) ==
  LET more == margin * (f.box[2] - f.box[1])
      first == Max({0, 20 * f.box[1] - more}) \div 20
      beyond == Min({picture.width, (20 * f.box[2] + more) \div 20})
  IN  [first |-> first, beyond |-> beyond]
CropExtent(c) == c.beyond - c.first

FaceTold(f, what) == [box |-> f.box, confidence |-> f.confidence, told |-> what]
AllTold(fs, What(_)) == [i \in DOMAIN fs |-> FaceTold(fs[i], What(fs[i]))]
NotTreated == [ok |-> FALSE]
FacesShown(fs) == [ok |-> TRUE, faces |-> fs, mask |-> <<>>, similarity |-> Nothing]

(* UnifaceDetectWorker.traiter *)
Boxes(w, job, fs) ==
  FacesShown(AllTold(fs, LAMBDA f : Family[w.detector.weights].anchors))

(* UnifaceLandmarkWorker.traiter, _points: a mesh may find nothing. *)
PointsOf(w, f) == IF Family[w.model.weights].mesh /\ f.code = 0 THEN 0 ELSE Family[w.model.weights].anchors
Landmarks(w, job, fs) == FacesShown(AllTold(fs, LAMBDA f : PointsOf(w, f)))

(* UnifaceHeadposeWorker.traiter: one face too narrow and there is no      *)
(* answer.                                                                 *)
PoseMargin == 3
TooNarrow(job, fs) == \E i \in DOMAIN fs : CropExtent(FaceCrop(job.picture, fs[i], PoseMargin)) < 2
Poses(w, job, fs) ==
  IF TooNarrow(job, fs) THEN NotTreated ELSE FacesShown(AllTold(fs, LAMBDA f : f.code))

(* UnifaceGazeWorker.traiter: its model answers in half turns, of which    *)
(* what is published are the degrees.                                      *)
Degrees(angle) == 180 * angle
Gazes(w, job, fs) ==
  IF TooNarrow(job, fs) THEN NotTreated ELSE FacesShown(AllTold(fs, LAMBDA f : Degrees(f.code)))

(* UnifaceParseWorker.traiter: the map of the whole picture, where a pixel *)
(* that has a label keeps it.                                              *)
RegionMargin == 5
LabelAt(f, c, p) == IF p \notin c.first..(c.beyond - 1) THEN 0
                    ELSE IF p \in f.box[1]..(f.box[2] - 1) THEN f.region ELSE 0
(* Mutant: the last one writes over the others. *)
Overwritten(old, new) == IF new # 0 THEN new ELSE old
(* libre *)
Painted(old, new) == IF old = 0 THEN new ELSE old
Mask(job, fs) ==
  [p \in 0..(job.picture.width - 1) |->
     FoldLeft(LAMBDA label, f : Painted(label, LabelAt(f, FaceCrop(job.picture, f, RegionMargin), p)), 0, fs)]
Regions(w, job, fs) ==
  IF \E i \in DOMAIN fs : CropExtent(FaceCrop(job.picture, fs[i], RegionMargin)) <= 0 THEN NotTreated
  ELSE [FacesShown(AllTold(fs, LAMBDA f : f.region)) EXCEPT !.mask = Mask(job, fs)]

(* UnifaceEmbedWorker.traiter, _encoder, _comparer: a face is straightened *)
(* on five points; the main face of each picture, when each has one.       *)
Straightened(w, fs) == fs # <<>> => Family[w.detector.weights].anchors = Aligned
Vectors(w, job, fs) ==
  LET others == IF job.other = Unsaid THEN <<>> ELSE Detected(w, job.other, job)
  IN  IF ~Straightened(w, fs) THEN NotTreated
      ELSE [FacesShown(AllTold(fs, LAMBDA f : f.code)) EXCEPT !.similarity =
              IF fs = <<>> \/ others = <<>> THEN Nothing ELSE <<fs[1].code, others[1].code>>]

Treated(w, job, fs) ==
  CASE manifest.task = "detect"  -> Boxes(w, job, fs)
    [] manifest.task = "points"  -> Landmarks(w, job, fs)
    [] manifest.task = "poses"   -> Poses(w, job, fs)
    [] manifest.task = "gazes"   -> Gazes(w, job, fs)
    [] manifest.task = "regions" -> Regions(w, job, fs)
    [] manifest.task = "vectors" -> Vectors(w, job, fs)

(* infer *)
InferFaces(job) ==
  LET w == Resized(worker, job)
      rebuilt == w # worker
      answer == IF rebuilt /\ w.failed THEN NotTreated
                ELSE Treated(w, job, Detected(w, job.picture, job))
  IN  /\ worker.state = "ready" /\ Len(answers) < MaxFaceJobs
      /\ worker' = w
      /\ answers' = Append(answers, [job |-> job, answer |-> answer, by |-> w])
      /\ UNCHANGED <<manifest, snapshot, drifts>>

FacesNext ==
  \/ LoadFaces
  \/ \E k \in DOMAIN Family : Drift(k)
  \/ \E job \in FaceJobs : InferFaces(job)

-----------------------------------------------------------------------------
FaceAnswers == {answers[i] : i \in {k \in DOMAIN answers : answers[k].answer.ok}}

(* The faces of a picture a job may hear of, at the size of its detector.   *)
Eligible(a, picture) ==
  {f \in ToSet(picture.faces) : a.by.detector.size \in f.sizes /\ f.confidence >= a.job.least}
Largest(fs) == {f \in fs : \A g \in fs : Surface(g) <= Surface(f)}
KeptBoxes(a) == {a.answer.faces[i].box : i \in DOMAIN a.answer.faces}
LabelsAt(a, p) ==
  {<<Surface(f), LabelAt(f, FaceCrop(a.job.picture, f, RegionMargin), p)>> :
     f \in {g \in Eligible(a, a.job.picture) : g.box \in KeptBoxes(a)}}

(* What is published of faces is of the largest faces of the picture of    *)
(* this job, no more of them than it wants, none smaller than one that is  *)
(* left out, each with the answer of its own; they were found at the size  *)
(* this job asked, whatever the last one asked, by weights that were       *)
(* verified when they were read; a pixel of the map is of the largest face *)
(* that has a label there; a similarity is that of the main face of each   *)
(* picture, and there is one when each has a face.                         *)
FacesHonest ==
  /\ worker.detector # Nothing => worker.detector.file = "intact"
  /\ worker.model # Nothing => worker.model.file = "intact" /\ worker.model.weights = manifest.weights
  /\ \A a \in FaceAnswers :
       LET all == Eligible(a, a.job.picture)
           kept == {f \in all : f.box \in KeptBoxes(a)}
           fs == a.answer.faces
       IN  /\ Len(fs) = Min({a.job.most, Cardinality(all)}) /\ Cardinality(kept) = Len(fs)
           /\ \A f \in kept : \A g \in all \ kept : Surface(g) <= Surface(f)
           /\ manifest.task \in {"poses", "gazes", "vectors"} =>
                \A i \in DOMAIN fs : \E f \in kept :
                  f.box = fs[i].box /\ fs[i].told = IF manifest.task = "gazes" THEN Degrees(f.code) ELSE f.code
           /\ a.job.size # Unsaid /\ Family[a.by.named].sized /\ ~a.by.failed =>
                a.by.detector.size = a.job.size
           /\ \A p \in DOMAIN a.answer.mask :
                LET labels == {l \in LabelsAt(a, p) : l[2] # 0}
                IN  IF labels = {} THEN a.answer.mask[p] = 0
                    ELSE \E l \in labels : l[2] = a.answer.mask[p] /\ \A m \in labels : m[1] <= l[1]
           /\ manifest.task = "vectors" /\ a.job.other # Unsaid =>
                LET others == Eligible(a, a.job.other)
                IN  IF all = {} \/ others = {} THEN a.answer.similarity = Nothing
                    ELSE \E f \in Largest(all), g \in Largest(others) : a.answer.similarity = <<f.code, g.code>>

(* The detector is that of the size the job asked, also after it could not *)
(* be built for it once.                                                   *)
FoundAsAsked ==
  \A a \in FaceAnswers :
    a.job.size # Unsaid /\ Family[a.by.named].sized => a.by.detector.size = a.job.size
=============================================================================
