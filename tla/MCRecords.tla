----------------------------- MODULE MCRecords -----------------------------
(* What is kept of what happened, told again later, or shown: two jobs and *)
(* their records, two files and their hashes, two requests and the registry *)
(* they read; the screen where a job is composed, the panel of its          *)
(* capabilities, the camera of a field.  The systems do not meet: `system`  *)
(* names the one that runs.                                                *)
EXTENDS Archive, Caches, Workshop, TLC

CONSTANTS j1, j2, u, d1, d2, must, p1, p2, c1, c2

(* Two deposits and a file of the user, for two fields of a form.           *)
MCNameOf == [s \in Files \cup Deposits |-> s]
MCMediaOf == (d1 :> <<"image", "png">> @@ d2 :> <<"text", "plain">>)
MCAccept == {<<"image", "*">>, <<"audio", "wav">>}
Form(a, b, l) == [of |-> 1 :> a @@ 2 :> b, list |-> l]
MCForms == {Form(u, d1, FALSE), Form(u, u, TRUE), Form(NoFile, d1, FALSE)}

(* A path whose name announces a hash, another whose name says nothing.     *)
MCNamedAs == p1 :> c1 @@ p2 :> NoSha
MCSizeOf == c1 :> 1 @@ c2 :> 1

(* Two capabilities that share a field: one has a variant the screen takes *)
(* of itself, the other none that is ready, and no family in the panel.    *)
Field(type, types) == [type |-> type, types |-> types]
MCContracts == <<
  [id |-> "A", input |-> [text |-> Field("string", {}), picture |-> Field("file", {"image"})],
   output |-> [answer |-> {"texte"}], defaults |-> {"text"}, incumbent |-> "m2", ready |-> <<"a1", "a2">>],
  [id |-> "B", input |-> [picture |-> Field("array", {"image", "video"})],
   output |-> [picture |-> {"image", "document"}], defaults |-> {}, incumbent |-> "m3", ready |-> <<>>]>>
Model(id, variants) == [id |-> id, variants |-> variants]
MCModelsFor == [A |-> <<Model("m1", <<"a1">>), Model("m2", <<"a2">>)>>, B |-> <<Model("m3", <<"b1">>)>>]
MCModelOf == [a1 |-> "m1", a2 |-> "m2", b1 |-> "m3"]
MCDefaultsOf == [a1 |-> {}, a2 |-> {"text", "engine"}, b1 |-> {"picture"}]
MCFiled == [A |-> "texte"]
MCFamilies == <<"texte", "divers">>
MCSearches == [pic |-> {"A", "B"}]
MCParks == {[residents |-> <<3, 2>>, budget |-> 6, demand |-> 2]}

-----------------------------------------------------------------------------
VARIABLE system
screenVars == <<deskVars, captureVars>>
MCvars == <<system, vars, cachesVars, screenVars>>

MCInit ==
  /\ system \in {"jobs", "hashes", "registry", "desk", "panel", "camera"}
  /\ Init /\ CachesInit /\ DeskInit /\ CaptureInit
  /\ \A p \in Paths : disk[p].content = c1

MCNext ==
  \/ system = "jobs" /\ Next /\ UNCHANGED <<system, cachesVars, screenVars>>
  \/ system = "hashes" /\ HashNext /\ UNCHANGED <<system, registryVars, vars, screenVars>>
  \/ system = "registry" /\ RegistryNext /\ UNCHANGED <<system, vars, screenVars>>
  \/ system = "desk" /\ (Choose \/ Compose) /\ UNCHANGED <<system, vars, cachesVars, captureVars>>
  \/ system = "panel" /\ (Choose \/ Browse) /\ UNCHANGED <<system, vars, cachesVars, captureVars>>
  \/ system = "camera" /\ CaptureNext /\ UNCHANGED <<system, vars, cachesVars, deskVars>>

MCSpec == MCInit /\ [][MCNext]_MCvars
MCSymmetry ==
  Permutations(Jobs) \cup Permutations(Verifiers)
=============================================================================
