------------------------------ MODULE Program ------------------------------
(***************************************************************************)
(* A part drawn from a cloud of points (workers/cad_recode.py): the points *)
(* the model is given, the program read in what it writes and, when the    *)
(* job asks for it, that program run by an interpreter of its own, with    *)
(* limits and a deadline, in the directory of the job.                     *)
(*                                                                         *)
(* A request holds                                                         *)
(*   points   n_points, of each layer (input, parameters, defaults), or    *)
(*            Unsaid                                                       *)
(*   execute  executer_le_code, likewise                                   *)
(*   object   what trimesh reads: "mesh", "empty mesh", "scene", "lines"   *)
(*            (a scene that reduces to no mesh), "cloud", "other", "unread"*)
(*   cloud    the points it holds, or that are drawn from its surface      *)
(*   text     what the model writes, a sequence of tokens                  *)
(* What the program does once it runs is left to chance.                   *)
(***************************************************************************)
EXTENDS Input, Integers, Sequences, SequencesExt, FiniteSetsExt, Functions, TLC

CONSTANTS
  PointsMin, PointsMax, Trained,   \* the bounds of n_points, its usual value
  Start, End, Library,  \* the marks of a program; a token that names cadquery
  Extra,                \* a file no one expects
  Parts                 \* the requests to consider

ASSUME ProgramAssumption == Trained \in PointsMin..PointsMax

VARIABLES
  part,      \* the request
  adapter,   \* where the adapter is
  child,     \* where the interpreter is
  folder,    \* the directory of the job: "partial" or "whole" for each entry
  report,    \* what execution.json says
  drawn      \* what the job published

programVars == <<part, adapter, child, folder, report, drawn>>

Nobody == [execution |-> "none", told |-> {}, outputs |-> {}, code |-> <<>>, cloud |-> <<>>]

ProgramInit ==
  /\ part \in Parts
  /\ adapter = "start" /\ child = "none"
  /\ folder = <<>> /\ report = "none" /\ drawn = Nobody

Layered(layers, default) ==
  LET saying == {i \in DOMAIN layers : layers[i] # Unsaid}
  IN  IF saying = {} THEN default ELSE layers[Min(saying)]

(* plan_cao, _entier *)
Points == Layered(part.points, Trained)
Executes == Layered(part.execute, FALSE)
Planned == Points \in PointsMin..PointsMax

-----------------------------------------------------------------------------
(* The cloud. *)

Extent(cloud, axis) ==
  LET along == {cloud[i][axis] : i \in DOMAIN cloud} IN [lo |-> Min(along), hi |-> Max(along)]

(* cadrer: centred on its bounds, in a cube of side 2, or left at its scale *)
(* when it is flat. A coordinate is num / den.                             *)
Framed(cloud) ==
  LET side == Max({Extent(cloud, a).hi - Extent(cloud, a).lo : a \in {1, 2}})
  IN  [i \in DOMAIN cloud |->
         [num |-> [a \in {1, 2} |-> 2 * cloud[i][a] - Extent(cloud, a).lo - Extent(cloud, a).hi],
          den |-> IF side = 0 THEN 2 ELSE side]]

Apart(p, q) == (p[1] - q[1]) * (p[1] - q[1]) + (p[2] - q[2]) * (p[2] - q[2])
Distance(cloud, i, chosen) == Min({Apart(cloud[i], cloud[j]) : j \in chosen})

(* Mutant: the nearest of those that are not chosen. *)
ClosestNext(cloud, chosen) ==
  Min({i \in DOMAIN cloud \ chosen :
         \A k \in DOMAIN cloud \ chosen : Distance(cloud, i, chosen) <= Distance(cloud, k, chosen)})

(* argmax of the distances: the first of the farthest. *)
FarthestNext(cloud, chosen) ==
  Min({i \in DOMAIN cloud :
         \A k \in DOMAIN cloud : Distance(cloud, k, chosen) <= Distance(cloud, i, chosen)})

(* plus_lointains: from the first, k times; all of them when they are few. *)
Farthest(cloud, k) ==
  IF k >= Len(cloud) THEN [i \in DOMAIN cloud |-> i]
  ELSE FoldLeftDomain(LAMBDA chosen, rank :
         IF rank = 1 THEN <<1>> ELSE Append(chosen, FarthestNext(cloud, ToSet(chosen))),
         <<>>, [i \in 1..k |-> i])

(* _nuage, _aplatir, _echantillonner_surface: what can be given to the     *)
(* model, and what is said of it.                                          *)
Readable == part.object \in {"mesh", "scene", "cloud"} /\ part.cloud # <<>>
Submitted == LET framed == Framed(part.cloud)
                 of == Farthest([i \in DOMAIN framed |-> framed[i].num], Points)
             IN  [i \in DOMAIN of |-> framed[of[i]]]
CloudTold ==
  {w \in {"scene", "cloud", "few", "untrained"} :
     \/ w = part.object
     \/ w = "few" /\ Len(part.cloud) <= Points
     \/ w = "untrained" /\ Points # Trained}

-----------------------------------------------------------------------------
(* extraire_programme *)

Where(text, mark) == {i \in DOMAIN text : text[i] = mark}
Body == SubSeq(part.text, Min(Where(part.text, Start)) + 1, Len(part.text))
Code == IF Where(Body, End) = {} THEN Body ELSE SubSeq(Body, 1, Min(Where(Body, End)) - 1)
Extracted == Where(part.text, Start) # {} /\ \E i \in DOMAIN Code : Code[i] # Start
CodeTold ==
  {w \in {"truncated", "loop", "foreign"} :
     \/ w = "truncated" /\ Where(Body, End) = {}
     \/ w = "loop" /\ Where(Code, Start) # {}
     \/ w = "foreign" /\ Where(Code, Library) = {}}

-----------------------------------------------------------------------------
(* infer *)

At(where) == adapter = where /\ UNCHANGED part
Puts(entry, how) == folder' = (entry :> how) @@ folder

Fail ==
  /\ At("start") /\ ~(Planned /\ Readable /\ Extracted)
  /\ adapter' = "failed"
  /\ UNCHANGED <<child, folder, report, drawn>>

Written(execution) ==
  [execution |-> execution, told |-> CloudTold \cup CodeTold, outputs |-> {"code"},
   code |-> Code, cloud |-> Submitted]

(* The program is written, whatever comes next. *)
Write ==
  /\ At("start") /\ Planned /\ Readable /\ Extracted
  /\ Puts("programme.py", "whole")
  /\ IF Executes THEN adapter' = "run" /\ drawn' = Written("none")
     ELSE adapter' = "over" /\ drawn' = [Written("non-demandee") EXCEPT !.told = @ \cup {"not run"}]
  /\ UNCHANGED <<child, report>>

(* _executer, up to subprocess.run. *)
Launch ==
  /\ At("run") /\ child = "none"
  /\ Puts("executeur.py", "whole")
  /\ child' \in {"limited", "unlaunched"}
  /\ adapter' = "wait"
  /\ UNCHANGED <<report, drawn>>

-----------------------------------------------------------------------------
(* EXECUTEUR.  Any step may fail, which it catches; the limits may kill it, *)
(* which it does not; the deadline of the adapter kills it too.            *)

Child(from, to) == child = from /\ child' = to /\ UNCHANGED <<part, adapter, report, drawn>>

(* exec: the program may leave a file behind it. *)
Exec ==
  /\ Child("limited", "shaped")
  /\ folder' \in {folder, (Extra :> "whole") @@ folder}

(* Each export creates its file, then completes it. *)
Export(from, entry, to) ==
  Child(from, to) /\ Puts(entry, IF entry \in DOMAIN folder THEN "whole" ELSE "partial")

ExportStep == Export("shaped", "piece.step", "shaping") \/ Export("shaping", "piece.step", "solid")
ExportGlb == Export("solid", "piece.glb", "meshing") \/ Export("meshing", "piece.glb", "ok")

(* The except clause: whatever was raised becomes a report. *)
Raise ==
  /\ child \in {"limited", "shaped", "shaping", "solid", "meshing"}
  /\ child' = "erreur"
  /\ UNCHANGED <<part, adapter, folder, report, drawn>>

(* Its report is opened, which empties it, then written; then it ends.     *)
OpenReport ==
  /\ child \in {"ok", "erreur"} /\ report = "none"
  /\ report' = "torn" /\ Puts("execution.json", "partial")
  /\ UNCHANGED <<part, adapter, child, drawn>>
WriteReport ==
  /\ child \in {"ok", "erreur"} /\ report = "torn"
  /\ report' = child /\ Puts("execution.json", "whole")
  /\ UNCHANGED <<part, adapter, child, drawn>>
Exit == report \in {"ok", "erreur"} /\ Child(report, "exited") /\ UNCHANGED folder

Running == child \notin {"none", "unlaunched", "exited", "killed", "late"}
Limit == Running /\ Child(child, "killed") /\ UNCHANGED folder
Deadline == Running /\ Child(child, "late") /\ UNCHANGED folder

-----------------------------------------------------------------------------
(* The end of _executer and of infer. *)

Expected == {"programme.py", "executeur.py", "execution.json", "piece.step", "piece.glb"}
Traces == IF DOMAIN folder \ Expected = {} THEN {} ELSE {"traces"}

(* Mutant: the report is read however the interpreter ended. *)
VerdictOfReport == IF child = "unlaunched" THEN "erreur"
                   ELSE IF "piece.glb" \in DOMAIN folder THEN "ok" ELSE "erreur"

(* A deadline comes before the report, a report before a return code.      *)
Verdict ==
  CASE child = "late" -> "delai-depasse"
    [] child = "unlaunched" -> "erreur"
    [] child \in {"exited", "killed"} -> IF report \in {"ok", "erreur"} THEN report ELSE "erreur"

Conclude ==
  /\ At("wait") /\ ~Running
  /\ adapter' = "over"
  /\ drawn' = [drawn EXCEPT !.execution = Verdict,
                            !.told = @ \cup Traces \cup {"run"},
                            !.outputs = @ \cup IF Verdict = "ok" THEN {"step", "mesh"} ELSE {}]
  /\ UNCHANGED <<child, folder, report>>

ProgramNext ==
  \/ Fail \/ Write \/ Launch \/ Conclude
  \/ Exec \/ ExportStep \/ ExportGlb \/ Raise \/ OpenReport \/ WriteReport \/ Exit
  \/ Limit \/ Deadline

-----------------------------------------------------------------------------
(* What a part is published as is what was made of it. Its files are        *)
(* published if and only if the run is said to be ok, and are then complete *)
(* whatever limit or deadline struck and when; nothing runs that the job    *)
(* did not ask for; a file the program left is told of. The points are      *)
(* framed, distinct when the file's are, and no point of the file is        *)
(* farther from them than they are from each other. The code has no mark of *)
(* its end, and a code without one is said to be cut.                       *)
ProgramHonest ==
  /\ adapter = "over" =>
       /\ {"step", "mesh"} \subseteq drawn.outputs <=> drawn.execution = "ok"
       /\ drawn.execution = "ok" =>
            folder["piece.step"] = "whole" /\ folder["piece.glb"] = "whole"
       /\ drawn.execution = "non-demandee" <=> child = "none"
       /\ child # "none" => Layered(part.execute, FALSE)
       /\ "traces" \in drawn.told <=> Extra \in DOMAIN folder
       /\ End \notin ToSet(drawn.code)
       /\ End \notin ToSet(part.text) => "truncated" \in drawn.told
  /\ drawn.cloud # <<>> =>
       LET cloud == drawn.cloud
           at == [i \in DOMAIN cloud |-> cloud[i].num]
           all == Framed(part.cloud)
       IN  /\ Len(cloud) = Min({Points, Len(part.cloud)})
           /\ \A i \in DOMAIN cloud, a \in {1, 2} : cloud[i].num[a] \in -cloud[i].den..cloud[i].den
           /\ IsInjective(part.cloud) => IsInjective(at)
           /\ IsInjective(part.cloud) => \A i \in DOMAIN all, j, k \in DOMAIN at :
                j # k => Min({Apart(all[i].num, at[m]) : m \in DOMAIN at}) <= Apart(at[j], at[k])
=============================================================================
