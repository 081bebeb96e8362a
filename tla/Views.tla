------------------------------- MODULE Views -------------------------------
(****************************************************************************)
(* A worker that reconstructs a scene from views of it                      *)
(* (workers/da3_multiview.py): a cloud with a camera for each view, the     *)
(* cameras in a document, a preview of both.  Space is a line: a pose is    *)
(* [r, t] with r in {-1, 1}, the world x is at r * x + t for its camera,    *)
(* and a pixel is <<depth, confidence>>, a depth of 0 where there is none.  *)
(*                                                                          *)
(* A photograph holds its format and whether it can be read, its extent,    *)
(* what the model makes of it: a pose, a focal, pixels.  A demand holds     *)
(* how its list is written, "list", "json" or "text", the photographs, and  *)
(* for each setting its layers: of the input, the parameters, the manifest. *)
(****************************************************************************)
EXTENDS Input, Integers, Sequences, SequencesExt, FiniteSetsExt

CONSTANTS
  Demands3D,             \* what to consider
  ViewsMin, ViewsMax,    \* VUES_MIN, VUES_MAX
  Bounds3D,              \* [setting |-> <<default, least, greatest>>]
  Patch,                 \* the side of a patch of the encoder
  Cost,                  \* [number of views |-> memory]
  MaxScenes              \* bound: jobs of a worker

ASSUME ViewsAssumption == ViewsMin \in Nat /\ ViewsMin <= ViewsMax /\ Patch > 0

VARIABLES
  held,     \* the memory of the driver
  peak,     \* _peak_driver
  random,   \* the state of the global generator
  scenes    \* the jobs done, each with what was published

viewVars == <<held, peak, random, scenes>>

ViewsInit == held = 0 /\ peak = 0 /\ random = <<0, 0>> /\ scenes = <<>>

-----------------------------------------------------------------------------
(* The demand. *)

(* _reglage, _entier, _reel *)
Wished(d, name) == Setting(d[name], Bounds3D[name][1])
InBounds(d, name) == Wished(d, name) \in Bounds3D[name][2]..Bounds3D[name][3]

(* plan_multivue *)
PlannedViews(d) == \A name \in DOMAIN Bounds3D : InBounds(d, name)

(* resolve_vues *)
ViewsResolved(d) ==
  /\ d.written # "text"
  /\ \A i \in DOMAIN d.photos : d.photos[i].format = "image"
  /\ Len(d.photos) \in ViewsMin..ViewsMax

(* _lire *)
PhotosLegible(d) == \A i \in DOMAIN d.photos : d.photos[i].legible

DemandTold(d) ==
  {w \in {"not of patches", "extents differ", "only two"} :
     \/ w = "not of patches" /\ Wished(d, "res") % Patch # 0
     \/ w = "extents differ" /\ Cardinality({d.photos[i].extent : i \in DOMAIN d.photos}) > 1
     \/ w = "only two" /\ Len(d.photos) = ViewsMin}

-----------------------------------------------------------------------------
(* Geometry. *)

(* Mutant: the translation, which is a plausible arc. *)
Translation(pose) == pose.t
(* centres_cameras *)
Centre(pose) == -(pose.r * pose.t)

(* Where a pixel is in the world. *)
Unprojected(pose, depth) == pose.r * (depth - pose.t)

(* _avants: the axis of a camera. *)
Ahead(pose) == pose.r

(* Twice the median of a sequence, 0 of none. *)
MedianTwice(s) ==
  LET o == SortSeq(s, LAMBDA a, b : a < b)
      n == Len(s)
  IN  IF n = 0 THEN 0 ELSE o[(n + 1) \div 2] + o[(n \div 2) + 1]

(* alignement: the axis of the first camera, turned to that of the format, *)
(* about the median of the points; twice what it is.                       *)
Turned(pose, x) == -(pose.r * x + pose.t)
Aligned2(pose, points, x) ==
  2 * Turned(pose, x) - MedianTwice([i \in DOMAIN points |-> Turned(pose, points[i])])

(* numpy.percentile, linear: a hundred times the q-th of s. *)
Percentile(s, q) ==
  LET o == SortSeq(s, LAMBDA a, b : a < b)
      at == q * (Len(s) - 1)
      i == (at \div 100) + 1
  IN  100 * o[i] + (IF i = Len(s) THEN 0 ELSE (at % 100) * (o[i + 1] - o[i]))

AllPixels(photos) == FlattenSeq([v \in DOMAIN photos |-> photos[v].pixels])
Floor(photos, q) ==
  LET all == AllPixels(photos) IN Percentile([i \in DOMAIN all |-> all[i][2]], q)

(* The points of the views that are seen and sure enough. *)
PointsOver(photos, floor) ==
  FlattenSeq([v \in DOMAIN photos |->
    LET sure == SelectSeq(photos[v].pixels, LAMBDA p : p[1] > 0 /\ 100 * p[2] >= floor)
    IN  [i \in DOMAIN sure |-> Unprojected(photos[v].pose, sure[i][1])]])

-----------------------------------------------------------------------------
(* The cloud. *)

(* numpy.random.seed *)
Seeded(state, seed) == <<seed, 0>>
(* Mutant: as the draw left it. *)
LeftDrawn(before, after) == after
(* numpy.random.set_state *)
GivenBack(before, after) == before

(* The export draws, as its generator is, as many points as it may keep.    *)
Sampled(points, most, state) ==
  LET n == Len(points)
  IN  IF n <= most THEN points
      ELSE [i \in 1..most |-> points[((i + state[1] + state[2]) % n) + 1]]
StateAfter(points, most, state) == IF Len(points) <= most THEN state ELSE <<state[1], state[2] + 1>>

(* What the library writes: cameras of the colours of their ranks.          *)
Exported(d, state, loses) ==
  LET all == PointsOver(d.photos, Floor(d.photos, Wished(d, "conf")))
      first == d.photos[1].pose
      kept == Sampled(all, Wished(d, "most"), state)
  IN  [points  |-> [i \in DOMAIN kept |-> Aligned2(first, all, kept[i])],
       cameras |-> [v \in 1..(Len(d.photos) - (IF loses THEN 1 ELSE 0)) |->
                      [colour |-> <<v, Len(d.photos)>>, at |-> Aligned2(first, all, Centre(d.photos[v].pose))]]]

(* _relire, and what infer adds when the cloud is at its limit. *)
CloudRecord(d, cloud) ==
  {w \in {"empty", "cameras", "cut"} :
     \/ w = "empty" /\ cloud.points = <<>>
     \/ w = "cameras" /\ Len(cloud.cameras) # Len(d.photos)
     \/ w = "cut" /\ Len(cloud.points) >= Wished(d, "most")}

(* _traces *)
TracesTold(left) == IF left = {} THEN {} ELSE {"traces"}

-----------------------------------------------------------------------------
(* The document of the cameras, and the preview. *)

(* _ecrire_cameras *)
CamerasOf(d) ==
  [v \in DOMAIN d.photos |->
     [file |-> d.photos[v], pose |-> d.photos[v].pose,
      centre |-> Centre(d.photos[v].pose), focal |-> d.photos[v].focal]]

(* _nuage_leger: every so many pixels, over the usual confidence whatever  *)
(* is asked for the cloud.                                                 *)
Thinned(photos, stride) ==
  [v \in DOMAIN photos |-> [photos[v] EXCEPT !.pixels =
     [i \in 1..((Len(@) + stride - 1) \div stride) |-> @[(i - 1) * stride + 1]]]]
Light(d) == PointsOver(Thinned(d.photos, 2), Floor(d.photos, Bounds3D["conf"][1]))

(* couleur_vue *)
ColourOf(v, d) == <<v, Len(d.photos)>>

(* _ecrire_apercu: each view in the colour of its camera, where the camera *)
(* is and where it looks, and the points, as rows from the top.            *)
PreviewOf(d) ==
  LET light == Light(d)
      first == d.photos[1].pose
      Screen(x) == -Aligned2(first, light, x)
  IN  [points  |-> [i \in DOMAIN light |-> Screen(light[i])],
       cameras |-> [v \in DOMAIN d.photos |->
          LET c == Centre(d.photos[v].pose)
          IN  [colour |-> ColourOf(v, d), view |-> d.photos[v], at |-> Screen(c),
               looks |-> Screen(c + Ahead(d.photos[v].pose))]]]

-----------------------------------------------------------------------------
(* infer.  The cache of the driver is emptied first; what it then holds is *)
(* the cost of this job.                                                   *)

(* Mutant: the driver keeps what the last job took. *)
KeptCache(before) == before
EmptiedCache(before) == 0

Refusal3D(d) == [demand |-> d, ok |-> FALSE]

Reconstruct(d) ==
  /\ Len(scenes) < MaxScenes
  /\ \/ /\ ~(PlannedViews(d) /\ ViewsResolved(d) /\ PhotosLegible(d))
        /\ scenes' = Append(scenes, Refusal3D(d)) /\ UNCHANGED <<held, peak, random>>
     \/ /\ PlannedViews(d) /\ ViewsResolved(d) /\ PhotosLegible(d)
        /\ held' = Max({EmptiedCache(held), Cost[Len(d.photos)]})
        /\ peak' = Max({peak, held'})
        /\ LET state == Seeded(random, Wished(d, "seed"))
               all == PointsOver(d.photos, Floor(d.photos, Wished(d, "conf")))
           IN  /\ random' = GivenBack(random, StateAfter(all, Wished(d, "most"), state))
               /\ \/ scenes' = Append(scenes, Refusal3D(d))      \* the export fails
                  \/ \E left \in {{}, {"depth_vis"}}, loses \in BOOLEAN :
                       LET cloud == Exported(d, state, loses)
                       IN  scenes' = Append(scenes,
                             [demand |-> d, ok |-> TRUE, cloud |-> cloud,
                              cameras |-> CamerasOf(d), preview |-> PreviewOf(d),
                              told |-> DemandTold(d) \cup CloudRecord(d, cloud) \cup TracesTold(left),
                              left |-> left, own |-> held', peak |-> peak'])

ViewsNext == \E d \in Demands3D : Reconstruct(d)

-----------------------------------------------------------------------------
ScenesMade == {scenes[i] : i \in {k \in DOMAIN scenes : scenes[k].ok}}
Passing(d) == PointsOver(d.photos, Floor(d.photos, Wished(d, "conf")))

(* What is published of a scene describes one scene, and only this job: the *)
(* cameras of the cloud, of the document and of the preview are those of    *)
(* the views, in their order and colours, as far apart in each and in the   *)
(* same direction; a cloud that lacks a point is said to be cut, one that   *)
(* lacks a camera is said to; the same demand has the same cloud whatever   *)
(* ran in between, and leaves the generator as it was; the memory of a job  *)
(* is its own, and that of the worker the most that any took.               *)
ViewsHonest ==
  /\ random = <<0, 0>>
  /\ \A i, k \in DOMAIN scenes : i < k /\ scenes[i].ok /\ scenes[k].ok =>
       /\ scenes[i].peak <= scenes[k].peak
       /\ scenes[i].demand = scenes[k].demand => scenes[i].cloud.points = scenes[k].cloud.points
  /\ \A s \in ScenesMade :
       LET n == Len(s.demand.photos)
           first == s.demand.photos[1].pose
       IN  /\ Len(s.cameras) = n /\ Len(s.preview.cameras) = n
           /\ s.own = Cost[n] /\ s.own <= s.peak
           /\ \A v \in 1..n : s.cameras[v].file = s.demand.photos[v]
                            /\ s.preview.cameras[v].view = s.demand.photos[v]
           /\ \A v \in 1..n : s.cameras[v].pose.r * s.cameras[v].centre + s.cameras[v].pose.t = 0
           /\ \A v \in DOMAIN s.cloud.cameras :
                /\ s.cloud.cameras[v].colour = s.preview.cameras[v].colour
                /\ s.cloud.cameras[v].at - s.cloud.cameras[1].at
                     = -2 * first.r * (s.cameras[v].centre - s.cameras[1].centre)
                /\ s.preview.cameras[v].at - s.preview.cameras[1].at
                     = s.cloud.cameras[1].at - s.cloud.cameras[v].at
           /\ s.preview.cameras[1].looks > s.preview.cameras[1].at
           /\ "cut" \in s.told \/ Len(s.cloud.points) = Len(Passing(s.demand))
           /\ "cameras" \in s.told \/ Len(s.cloud.cameras) = n
           /\ "traces" \in s.told \/ s.left = {}

(* A cloud that is said to be cut lacks a point. *)
CutMeansCut ==
  \A s \in ScenesMade : "cut" \in s.told => Len(s.cloud.points) < Len(Passing(s.demand))
=============================================================================
