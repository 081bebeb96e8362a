---------------------------- MODULE MCDecisions ----------------------------
(* What the program decides in one go, on every small question: whether a  *)
(* job is admitted and what a refused agent is told, what a store recovers, *)
(* what a registry is worth, what a command answers, what an adapter makes  *)
(* of its job.  The systems do not meet: `system` names the one asked.      *)
EXTENDS Refusal, Recovery, Catalog, Assistant, Commands, Forecast, Streams, Program, Robot,
        Pieces, Faces, Views, Vectors, Bench, Pictures, TLC

CONSTANTS c1, c2, v1, v2, main, pin

VARIABLE system

-----------------------------------------------------------------------------
(* Every park of three variants, every refusal an agent may then be         *)
(* answered.                                                                *)

(* The variants are interchangeable but for their age, so fixing the order *)
(* of last use loses no case.                                              *)
MCRefs == 1 .. 3
MCLastUsed == [r \in MCRefs |-> r]

(* With a budget of 600 and a threshold of 200: light, light at the        *)
(* threshold, heavy (one of them and a candidate of 350 fill it exactly).  *)
MCPeakValues == {100, 200, 250}

(* Variant 1 scales with an integer parameter, 2 with a number whose unit  *)
(* is dear enough for a hundredth of it to be seen, 3 does not scale.      *)
MCProfiles ==
  [r \in MCRefs |->
     CASE r = 1 -> [measured |-> 350, base |-> 50, unit |-> 150,
                    lo |-> 100, hi |-> 300, integer |-> TRUE]
       [] r = 2 -> [measured |-> 400, base |-> 100, unit |-> 300,
                    lo |-> 20, hi |-> 200, integer |-> FALSE]
       [] OTHER -> [measured |-> 200, base |-> 0, unit |-> 0,
                    lo |-> 0, hi |-> 0, integer |-> FALSE]]
MCGiven == {100, 200, 300}
MCDefaults == [r \in MCRefs |-> IF r = 1 THEN 200 ELSE 100]
MCCapability == [r \in MCRefs |-> IF r = 3 THEN "alone" ELSE "shared"]
MCRunnable == MCRefs

(* The peaks those inputs have: 700 is larger than the whole budget. *)
MCDemands == {200, 350, 400, 500, 700}

-----------------------------------------------------------------------------
(* Four paths, two of them blobs of one repository; three inodes, the last  *)
(* on another volume; two contents; two variants.                           *)

MCPaths == 1..4
MCHubPaths == {1, 2}
MCManagerOf == [p \in MCPaths |-> CASE p \in {1, 2} -> 0 [] p = 3 -> 2 [] p = 4 -> 1]
MCVolumeOf == [i \in 1..3 |-> IF i = 3 THEN 2 ELSE 1]
MCSizeOfContent == (c1 :> 3 @@ c2 :> 5)

AllKept == [revs |-> (main :> {1, 2}), refs |-> {main}]

(* Which paths share an inode, which inodes a content, which are held from  *)
(* outside, whose hash is known and how.                                    *)
Shapes == [inode    : [MCPaths -> 1..3],
           content  : {f \in [1..3 -> {c1, c2}] : f[1] = c1},
           outside  : {{}, {1}, {2, 3}},
           hashed   : {[p \in MCPaths |-> IF p \in some THEN how ELSE "read"] :
                         some \in {{}, {1}, {2, 3}}, how \in {"announced", "no"}},
           repo     : {AllKept},
           pinned   : {{}},
           refs     : {[p \in MCPaths |-> IF p = 4 THEN {v2} ELSE {v1}]},
           ran      : {(v1 :> Now @@ v2 :> Never)},
           cautious : BOOLEAN]

(* What is referenced, pinned, used, and when. *)
Services == [inode    : {[p \in MCPaths |-> (p % 3) + 1], [p \in MCPaths |-> (p + 1) \div 2]},
             content  : {[i \in 1..3 |-> IF i = 2 THEN c2 ELSE c1]},
             outside  : {{}},
             hashed   : {[p \in MCPaths |-> "read"]},
             repo     : [revs : [{main, pin} -> SUBSET MCHubPaths], refs : SUBSET {main, pin}],
             pinned   : {{}, {pin}},
             refs     : [MCPaths -> {{v1}, {v1, v2}}] \cup {[p \in MCPaths |-> {}]},
             ran      : {(v1 :> a @@ v2 :> b) : a \in {Never, 0, Now - Days, Now}, b \in {Never, Now}},
             cautious : {FALSE}]

MCWorlds == Shapes \cup {w \in Services : w.refs[1] = w.refs[2]}

-----------------------------------------------------------------------------
(* Registries of up to three contracts and two manifests, one thing wrong   *)
(* in each of them, or two.                                                 *)
SetterOf == [stem |-> "c1", id |-> "c1", legible |-> TRUE, formed |-> TRUE, valid |-> TRUE, composite |-> FALSE, steps |-> <<>>,
  params |-> [p |-> {1, 2}]]
Chain == [SetterOf EXCEPT !.stem = "c2", !.id = "c2", !.composite = TRUE, !.steps = <<"c1">>, !.params = <<>>]
V1 == [id |-> "v1", kind |-> "huggingface", repo |-> "r1", revision |-> "sha1", extra |-> {}, custom |-> FALSE,
  entrypoint |-> FALSE, defaults |-> <<>>, options |-> {}, tier |-> "hot", env |-> "e", profile |-> Unsaid]
V2 == [V1 EXCEPT !.id = "v2", !.repo = "r2"]
M1 == [stem |-> "m1", legible |-> TRUE, id |-> "m1", capability |-> "c1", status |-> "active", incumbent |-> TRUE,
  variants |-> <<V1>>]
M2 == [M1 EXCEPT !.stem = "m2", !.id = "m2", !.incumbent = FALSE, !.variants = <<V2>>]
RecordOf == [legible |-> TRUE, object |-> TRUE, machine |-> "here", peak |-> 5, disk |-> 3, harness |-> "h1"]
Prof == [machine |-> "here", peak |-> 5, disk |-> 3, harness |-> "h1"]
BaseTree == [schema |-> TRUE, meta |-> "there", contracts |-> <<SetterOf, Chain>>, manifests |-> <<M1, M2>>, records |-> <<>>, envs |-> {"e"}]
VariantShapes ==
  {[V1 EXCEPT !.id = i, !.kind = k, !.repo = r, !.revision = s] :
     i \in {"v1", "v2"}, k \in {"huggingface", "local"}, r \in {Unsaid, "r1", "r2"}, s \in {Unsaid, Zeros, "sha1", "sha2"}}
  \cup {[V1 EXCEPT !.custom = c, !.entrypoint = e, !.tier = t, !.env = n] :
     c \in BOOLEAN, e \in BOOLEAN, t \in {"hot", "absent"}, n \in {"e", "none"}}
  \cup {[V1 EXCEPT !.defaults = d, !.options = o] : d \in {<<>>, [p |-> 1], [p |-> 3], [q |-> 1]}, o \in {{}, {"p"}, {"q"}}}
  \cup {[V1 EXCEPT !.extra = {[repo |-> "r2", revision |-> s]}] : s \in {"sha1", "sha2"}}
MCTrees ==
  {[BaseTree EXCEPT !.contracts = c, !.manifests = m] :
     c \in {<<SetterOf, Chain>>, <<Chain>>, <<[SetterOf EXCEPT !.legible = FALSE], Chain>>, <<[SetterOf EXCEPT !.formed = FALSE]>>,
            <<SetterOf, [SetterOf EXCEPT !.stem = "c3"]>>, <<[SetterOf EXCEPT !.params = <<>>], Chain>>,
            <<SetterOf, Chain, [Chain EXCEPT !.stem = "c3", !.id = "c3", !.steps = <<"c1", "c2">>]>>},
     m \in {<<[M1 EXCEPT !.variants = <<v>>], M2>> : v \in VariantShapes}}
  \cup {[BaseTree EXCEPT !.manifests = <<[M1 EXCEPT !.variants = <<v, V2>>], [M2 EXCEPT !.status = s, !.incumbent = n, !.capability = c,
            !.id = i, !.legible = l]>>] : v \in VariantShapes, s \in {"active", "candidate"}, n \in BOOLEAN, c \in {"c1", "c2"},
            i \in {"m1", "m2"}, l \in BOOLEAN}
  \cup {[BaseTree EXCEPT !.manifests = <<[M1 EXCEPT !.variants = <<[V1 EXCEPT !.profile = p]>>]>>, !.records = r] :
       p \in {Unsaid, Prof, [Prof EXCEPT !.machine = "there"], [Prof EXCEPT !.peak = 6], [Prof EXCEPT !.harness = Unsaid]},
       r \in {<<>>} \cup {[x \in {<<"m1", "v1">>} |-> y] : y \in UNION {[1..n ->
         {RecordOf, [RecordOf EXCEPT !.machine = "there"], [RecordOf EXCEPT !.peak = 6, !.harness = "h2"], [RecordOf EXCEPT !.legible = FALSE], [RecordOf EXCEPT !.object = FALSE],
          [RecordOf EXCEPT !.peak = Unsaid, !.disk = Unsaid]}] : n \in 1..2}}}
  \cup {[BaseTree EXCEPT !.schema = s, !.meta = n, !.contracts = <<[SetterOf EXCEPT !.formed = f, !.valid = y], [SetterOf EXCEPT !.stem = "c3", !.valid = z]>>] :
       s \in BOOLEAN, n \in {"there", "absent", "illegible"}, f \in BOOLEAN, y \in BOOLEAN, z \in BOOLEAN}
  \cup {[BaseTree EXCEPT !.meta = n, !.contracts = <<[SetterOf EXCEPT !.formed = f], Chain>>] :
       n \in {"there", "absent", "illegible"}, f \in BOOLEAN}

-----------------------------------------------------------------------------
(* Two variants for a capability, none for another, one for a third that    *)
(* does something of a person; what is ready, and the contracts, change.    *)
VariantsAre(ra, rb, rf, inc) == <<
  [ref |-> "a1", capability |-> "a", incumbent |-> FALSE, active |-> TRUE, ready |-> ra],
  [ref |-> "a2", capability |-> "a", incumbent |-> inc, active |-> FALSE, ready |-> rb],
  [ref |-> "f1", capability |-> "f", incumbent |-> FALSE, active |-> TRUE, ready |-> rf]>>
UsualContracts == [a |-> FALSE, b |-> FALSE, f |-> TRUE]
MCSituations ==
  {[contracts |-> UsualContracts, variants |-> VariantsAre(x[1], x[2], x[3], x[4])] :
     x \in {<<TRUE, FALSE, TRUE, TRUE>>, <<TRUE, TRUE, FALSE, TRUE>>, <<FALSE, FALSE, TRUE, FALSE>>}}
  \cup {[contracts |-> k, variants |-> VariantsAre(TRUE, TRUE, TRUE, TRUE)] :
     k \in {[UsualContracts EXCEPT !.a = TRUE], [b |-> FALSE, f |-> TRUE]}}
MCFamilies == [faces |-> {"f"}, voice |-> {"v"}]

-----------------------------------------------------------------------------
(* Commands: a registry or none, a name known or not, every flag; a home    *)
(* directory, an external volume that is there and one that may not be.     *)
WithRegistry(some) ==
  {q @@ [registry |-> g, ref |-> r] :
     q \in some, g \in {"none", "broken", "sound"}, r \in {"known", "unknown", "no contract"}}
Sequels == {<<>>, <<"fetches">>, <<"there", "fetches">>, <<"fetches", "raises", "fetches">>}
Home == <<"home">>
Parc == <<"Volumes", "Parc">>
Gone == <<"Volumes", "Gone">>
Throwable == {[path |-> Append(d, "f"), from |-> d, days |-> n] : d \in {Home, Parc, Gone}, n \in {1, 9}}
SomeFile == [refs |-> {"v"}, link |-> FALSE, candidate |-> TRUE, read |-> "same"]
Observable == {[SomeFile EXCEPT !.link = l, !.candidate = c, !.read = r] :
                 l \in BOOLEAN, c \in BOOLEAN, r \in {"same", "differs"}}

MCInvocations ==
  WithRegistry(
    [command : {"env sync"}, names : {<<>>, <<"b">>, <<"none", "a">>}, there : {<<"a", "b">>}, dry : BOOLEAN,
     envs : {e @@ ("none" :> "undeclared") : e \in [{"a", "b"} -> {"syncs", "fails", "raises", "undeclared"}]}]
    \cup [command : {"ps"}, asks : BOOLEAN, orphans : {{}, {"r1"}}]
    \cup [command : {"unload"}, all : BOOLEAN, force : BOOLEAN, bare : BOOLEAN, named : {Unsaid, "r1", "r9"},
          park : [{"r1", "r2"} -> {"free", "busy", "pinned"}]]
    \cup [command : {"run"}, parses : BOOLEAN, job : {"works", "fails", "raises"}, show : BOOLEAN, json : BOOLEAN]
    \cup [command : {"bench"}, job : {"works", "fails", "raises"}, write : BOOLEAN, json : BOOLEAN]
    \cup [command : {"pull"}, resolve : BOOLEAN, repo : BOOLEAN, hub : BOOLEAN, dry : BOOLEAN, pulls : Sequels])
  \cup [command : {"scan", "status", "plan"}, scanned : BOOLEAN, applied : {0, 1, 3}, last : {0, 2}]
  \cup [command : {"verify"}, scanned : BOOLEAN, paths : {{}, {"p"}, {"p", "x"}}, variant : {Unsaid, "v", "w"},
        all : BOOLEAN, files : [{"p", "q"} -> Observable]]
  \cup [command : {"apply"}, plan : BOOLEAN, actions : {<<>>, <<"works">>, <<"fails", "works">>},
        dry : BOOLEAN, yes : BOOLEAN, consents : BOOLEAN]
  \cup [command : {"tier"}, volumes : {{}, {<<"P">>}}, dest : {<<"P">>, <<"P", "2">>, <<"Q">>}, scanned : BOOLEAN,
        moves : Sequels, spread : BOOLEAN, dry : BOOLEAN, yes : BOOLEAN, consents : BOOLEAN]
  \cup [command : {"empty"}, mounts : {{<<>>, Parc, Gone}}, home : {Append(Home, "trash")},
        configured : SUBSET {Home, Parc, Gone}, gone : {{}, {Gone}}, older : {Unsaid, 5},
        thrown : {<<>>} \cup [1..2 -> Throwable], dry : {FALSE}, yes : BOOLEAN, consents : BOOLEAN]
  \cup [command : {"launch"}, venv : {"undeclared", "declared", "synced"}, custom : BOOLEAN,
        special : {Unsaid, "m1"}, general : {Unsaid, "m2"}, root : {<<"repo">>}, absolute : BOOLEAN,
        entry : {Unsaid, <<"s">>, <<"a", "s">>, <<"a", "..", "s">>, <<"..", "tmp", "s">>, <<"tmp", "s">>, <<"repo", "s">>},
        scripts : {{<<"repo", "s">>, <<"repo", "a", "s">>, <<"tmp", "s">>}}]
  \cup [command : {"budget"}, configured : {Unsaid, 4}, mlx : {0, 12}, probes : {<<>>, <<0>>, <<0, 10>>, <<11, 10>>},
        memory : {0, 16}]

-----------------------------------------------------------------------------
(* Three detectors and two models, of which one file changes; a crowd, an  *)
(* empty picture, faces that are alike.                                    *)
MCFamily == [retina |-> [anchors |-> 5, sized |-> TRUE, mesh |-> FALSE],
  blaze |-> [anchors |-> 6, sized |-> FALSE, mesh |-> FALSE],
  mesh |-> [anchors |-> 468, sized |-> FALSE, mesh |-> TRUE],
  net |-> [anchors |-> 98, sized |-> FALSE, mesh |-> FALSE]]
MCManifest == [task |-> "detect", weights |-> "retina", detector |-> Unsaid, option |-> Unsaid, default |-> 640]
MCManifests ==
  {[MCManifest EXCEPT !.weights = w, !.default = d] : w \in {"retina", "blaze", "other", Unsaid}, d \in {640}}
  \cup {[MCManifest EXCEPT !.task = t, !.weights = w, !.detector = d, !.default = Unsaid] :
          t \in {"points", "poses", "gazes", "regions", "vectors"},
          w \in {"mesh", "net", Unsaid}, d \in {Unsaid, "blaze"}}
Face(a, b, c, s, n) == [box |-> <<a, b>>, confidence |-> c, sizes |-> s, code |-> n, region |-> n]
AllSizes == {320, 640, Own}
MCCrowd == [width |-> 8, faces |->
  <<Face(0, 3, 9, AllSizes, 1), Face(2, 7, 8, AllSizes, 2), Face(6, 8, 3, {640}, 3)>>]
MCEmpty == [width |-> 8, faces |-> <<>>]
MCPictures == {MCCrowd, MCEmpty,
  [width |-> 8, faces |-> <<Face(1, 4, 9, {640, Own}, 4), Face(3, 6, 9, AllSizes, 0)>>],
  [width |-> 8, faces |-> <<Face(4, 5, 9, AllSizes, 5)>>]}
MCJob == [picture |-> MCCrowd, other |-> Unsaid, size |-> 640, least |-> 5, most |-> 3]
MCFaceJobs ==
  {[MCJob EXCEPT !.picture = p, !.size = s] : p \in MCPictures, s \in {320, 640}}
  \cup {[MCJob EXCEPT !.picture = p, !.other = o, !.most = 1] : p \in MCPictures, o \in {MCCrowd, MCEmpty}}
-----------------------------------------------------------------------------
(* Three photographs and what may be wrong with one, two demands in a row.  *)
Photo(n, r, t, px) == [name |-> n, format |-> "image", legible |-> TRUE,
  extent |-> 1, focal |-> n, pose |-> [r |-> r, t |-> t], pixels |-> px]
MCPhotos == <<Photo(1, 1, 0, <<<<3, 5>>, <<4, 6>>, <<0, 9>>>>),
              Photo(2, -1, 7, <<<<2, 5>>, <<3, 1>>, <<5, 6>>>>),
              Photo(3, 1, -2, <<<<0, 4>>, <<0, 6>>, <<0, 5>>>>)>>
MCDemand3D == [written |-> "list", photos |-> <<MCPhotos[1], MCPhotos[2]>>,
  res |-> <<Unsaid, Unsaid, 4>>, most |-> <<Unsaid, 2, 9>>,
  conf |-> <<Unsaid, Unsaid, Unsaid>>, seed |-> <<Unsaid, 1, Unsaid>>]
MCDemands3D ==
  {[MCDemand3D EXCEPT !.photos = [i \in DOMAIN f |-> MCPhotos[f[i]]], !.most = <<Unsaid, m, 9>>] :
     f \in {<<1>>, <<2, 1>>, <<3, 3>>, <<3, 2>>, <<2, 3, 1>>}, m \in {2, 4}}
  \cup {[MCDemand3D EXCEPT !.photos[2] = p, !.written = w, !.conf = <<c, 40, Unsaid>>] :
     p \in {MCPhotos[2], [MCPhotos[2] EXCEPT !.legible = FALSE],
          [MCPhotos[2] EXCEPT !.format = "pdf"], [MCPhotos[3] EXCEPT !.extent = 2]},
     w \in {"list", "text"}, c \in {0, 90, 95}}
  \cup {[MCDemand3D EXCEPT !.res = <<r, Unsaid, 4>>, !.seed = <<s, Unsaid, Unsaid>>] :
          r \in {1, 3, 8}, s \in {0, 1}}
MCBounds3D == [res |-> <<4, 2, 8>>, most |-> <<4, 2, 9>>, conf |-> <<40, 0, 90>>, seed |-> <<0, 0, 5>>]
MCCost == <<1, 3, 4>>
-----------------------------------------------------------------------------
(* Encoders that may be served and may not; texts of several records, of   *)
(* letters that no one knows; pictures and scenes of a few patches.        *)
MCEncoder == [kind |-> "residues", pooling |-> Unsaid, limit |-> Unsaid, tile |-> Unsaid, side |-> Unsaid,
  alphabet |-> {"A", "C", "M", "-"}, pooler |-> FALSE,
  config |-> [architecture |-> "vit", tag |-> "own", means |-> <<1, 1>>, deviations |-> <<1, 1>>],
  trained |-> "own", files |-> 1, keys |-> {<<"encoder", "w1">>, <<"encoder", "w2">>, <<"decoder", "w3">>},
  network |-> [head |-> 1, short |-> 0]]
Poolings == {Unsaid, "cls", "max"}
MCEncoders ==
  {[MCEncoder EXCEPT !.pooling = p, !.pooler = b] : p \in Poolings, b \in BOOLEAN}
  \cup {[MCEncoder EXCEPT !.limit = 3]}
  \cup {[MCEncoder EXCEPT !.kind = "picture", !.pooling = p, !.config.architecture = a, !.config.tag = t,
           !.trained = IF t = Unsaid THEN "usual" ELSE "own"] :
          p \in Poolings, a \in {"vit", "convnext", "plain", "other"}, t \in {Unsaid, "own"}}
  \cup {[MCEncoder EXCEPT !.kind = "scene", !.pooling = p, !.keys = k, !.network = n] :
          p \in Poolings, k \in {MCEncoder.keys, {<<"encoder", "w1">>}, {<<"decoder", "w3">>}},
          n \in {[head |-> 1, short |-> 0], [head |-> 0, short |-> 0], [head |-> 2, short |-> 0],
                [head |-> 1, short |-> 2]}}
  \cup {[MCEncoder EXCEPT !.kind = k, !.files = 0] : k \in {"residues", "picture"}}
  \cup {[MCEncoder EXCEPT !.kind = "scene", !.files = f, !.config.deviations = d] :
          f \in 0..2, d \in {<<1, 1>>, <<1, 0>>, <<1>>}}
Networks(head, step) == [usual |-> [head |-> head, step |-> step, statistics |-> "usual"],
                         own |-> [head |-> head, step |-> step, statistics |-> "own"]]
MCTimm == [vit |-> Networks(2, 3), convnext |-> Networks(Unsaid, 4), plain |-> Networks(0, 2)]
TextLine(ls) == [head |-> FALSE, letters |-> ls]
Header == [head |-> TRUE, letters |-> <<>>]
MCLines == {Header, TextLine(<<"M", "A">>), TextLine(<<"C", " ", "A">>),
  TextLine(<<"M", "J", "J">>), TextLine(<<" ">>), TextLine(<<"A", "C", "A", "C">>),
  TextLine(<<"10", "-">>)}
MCTextsOf ==
  {<<>>} \cup {<<Header, l>> : l \in MCLines} \cup {<<l, TextLine(<<"A">>)>> : l \in MCLines}
  \cup {<<Header, TextLine(<<"M">>), Header, TextLine(<<"A">>)>>}
MCText == <<Header, TextLine(<<"M", "A">>), TextLine(<<"C">>)>>
MCEmbedJob == [kind |-> "residues", input |-> MCText, other |-> Unsaid, limit |-> Unsaid,
  side |-> Unsaid, tile |-> Unsaid,  bands |-> Unsaid, normalise |-> TRUE]
Picture(w, h, s, g) == [width |-> w, height |-> h, subject |-> s, ground |-> g]
MCPicture == Picture(4, 3, "cat", "black")
SceneOfPatches(h, w, n) == [height |-> h, width |-> w, layers |-> [i \in 1..n |-> i - 1],
  cells |-> [c \in (0..(h - 1)) \X (0..(w - 1)) |-> ToString(c)]]
MCEmbedJobs ==
  {[MCEmbedJob EXCEPT !.input = t, !.limit = l] : t \in MCTextsOf, l \in {Unsaid, 2}}
  \cup {[MCEmbedJob EXCEPT !.other = t, !.limit = l, !.normalise = b] :
          t \in {<<TextLine(<<"M", "A", "C", "A">>)>>, <<TextLine(<<"M", "J">>)>>, MCText},
          l \in {Unsaid, 1, 2}, b \in BOOLEAN}
  \cup {[MCEmbedJob EXCEPT !.kind = "picture", !.input = Picture(w, h, "cat", g), !.side = s] :
          w \in {1, 7}, h \in {3, 7}, g \in {Unsaid, "black"}, s \in {Unsaid, 7}}
  \cup {[MCEmbedJob EXCEPT !.kind = "picture", !.input = MCPicture, !.other = o, !.normalise = b] :
          o \in {MCPicture, Picture(2, 2, "null", Unsaid)}, b \in BOOLEAN}
  \cup {[MCEmbedJob EXCEPT !.kind = "scene", !.input = SceneOfPatches(h, w, n), !.tile = t, !.bands = b] :
          h \in {1, 5}, w \in {3, 5}, n \in {3}, t \in {Unsaid, 3}, b \in {<<0, 1>>, <<2, 0>>}}
  \cup {[MCEmbedJob EXCEPT !.kind = "scene", !.input = SceneOfPatches(1, 3, 2), !.tile = t, !.bands = <<2, 0>>] :
          t \in {Unsaid, 0}}
  \cup {[MCEmbedJob EXCEPT !.kind = "scene", !.input = SceneOfPatches(2, 3, 2), !.other = SceneOfPatches(h, 2, 2),
           !.bands = b, !.normalise = n] :
          h \in {2, 3}, b \in {Unsaid, <<1, 0>>, <<0>>}, n \in BOOLEAN}
-----------------------------------------------------------------------------
(* Workloads of up to three cases, that end in six ways; two sources.       *)
Case(x, f) == [x |-> x, files |-> f]
MCWorkloads == {[version |-> 1, named |-> n, cases |-> c] : n \in BOOLEAN,
  c \in {<<>>, <<Case(1, <<"relative">>), Case(2, <<"relative", "relative">>), Case(4, <<"absolute">>)>>,
         <<Case(2, <<>>), Case(2, <<>>), Case(Unsaid, <<>>)>>, <<Case(1, <<>>), Case(3, <<>>)>>}}
MCContract == [version |-> 0, named |-> FALSE, cases |-> <<Case(Unsaid, <<"relative">>)>>]
Ended(p, a, t) == [ok |-> TRUE, peak |-> p, duration |-> 2, audio |-> a, tokens |-> t]
MCOutcomes == {Ended(0, 0, 0), Ended(10, 3, 0), Ended(20, 0, 5), Ended(30, 0, 0), Ended(40, 3, 0),
  [ok |-> FALSE, peak |-> 0, duration |-> 0, audio |-> 0, tokens |-> 0]}
File(c, s, w) == [content |-> c, size |-> s, wanted |-> w]
Tree(files, r) == [resolved |-> r, files |-> files]
MCSourcesMeasured == {<<Tree({File(1, 3, TRUE), File(2, 5, FALSE)}, TRUE)>>,
  <<Tree({File(1, 3, TRUE)}, TRUE), Tree({File(3, 2, TRUE)}, FALSE)>>,
  <<Tree({File(1, 3, TRUE)}, TRUE), Tree({File(1, 3, TRUE)}, TRUE)>>,
  <<Tree({}, FALSE)>>}
-----------------------------------------------------------------------------
(* Histories of two series over four days, with holes, blanks and rows that *)
(* come twice; levels below, above and too close to each other; columns in  *)
(* any order, with names or without.                                        *)
MCSeries == {"a", "b"}
MCTimes == 0..3
Histories == {[a |-> f, b |-> g] : f \in [MCTimes -> {"none", "value", "blank", "twice"}],
                                   g \in {[t \in MCTimes |-> IF t \in some THEN "value" ELSE "none"] :
                                            some \in {{}, {0, 1, 2}, {1, 3}}}}
PlainRequest == [csv |-> [s \in MCSeries |-> [t \in MCTimes |-> "value"]], freq |-> 0,
          context |-> <<Unsaid, Unsaid, Unsaid>>, levels |-> <<5000000>>, columns |-> <<1, 2, 3>>,
          named |-> TRUE, future |-> Unsaid]
ColumnOrders == {<<1, 2, 3>>, <<2, 1, 3>>, <<2, 3, 1>>, <<1, 3, 2>>, <<3, 1, 2>>, <<3, 2, 1>>}
FewLevels == {0, 1000000, 5000001, 5000004, 10000000}
MCForecasts ==
  {[PlainRequest EXCEPT !.csv = h, !.freq = f, !.context = c] :
     h \in Histories, f \in {0, 1, 2}, c \in {<<Unsaid, 2, 3>>, <<Unsaid, Unsaid, 1>>, <<Unsaid, Unsaid, Unsaid>>}}
  \cup {[PlainRequest EXCEPT !.levels = l, !.columns = o, !.named = n] :
     l \in {<<x, y, z>> : x \in FewLevels, y \in FewLevels, z \in FewLevels}, o \in {<<1, 2, 3>>}, n \in {TRUE}}
  \cup {[PlainRequest EXCEPT !.levels = l, !.columns = o, !.named = n] :
     l \in {<<0, 1000000, 5000000>>, <<9900000, 5000000, 5000004>>, Unsaid}, o \in ColumnOrders, n \in BOOLEAN}
  \cup {[PlainRequest EXCEPT !.future = [a |-> i, b |-> k]] : i \in 0..3, k \in 0..3}
MCUsual == <<1000000, 5000000, 9000000>>

-----------------------------------------------------------------------------
(* Texts of up to four pieces: marks of either convention, whole or not.    *)
MCOpenings == <<<<"<", "t", ">">>, <<"<", "|", ">">>>>
MCClosings == <<<<"<", "/", ">">>, <<"<", "c", ">">>>>
TextPieces == ToSet(MCOpenings) \cup ToSet(MCClosings) \cup {<<>>, <<"x">>, <<" ">>, <<"<">>, <<"#">>}
MCTexts == {a \o b \o c \o d : a \in TextPieces, b \in TextPieces, c \in TextPieces, d \in TextPieces}
MCStops == {<<"x", "x">>}

-----------------------------------------------------------------------------
(* Every object a file may hold, every text of four tokens, clouds of five *)
(* points.                                                                 *)
MCPart == [points |-> <<Unsaid, Unsaid, 3>>, execute |-> <<TRUE, Unsaid, FALSE>>, object |-> "mesh",
  cloud |-> <<<<0, 0>>, <<1, 0>>, <<2, 1>>, <<0, 1>>>>, text |-> <<"p", "start", "cq", "end">>]
CodeTokens == {"p", "start", "cq", "end"}
Points2D == {0, 1, 3} \X {0, 2}
MCParts ==
  {MCPart}
  \cup {[MCPart EXCEPT !.object = o, !.points = n, !.execute = e] :
     o \in {"mesh", "empty mesh", "scene", "lines", "cloud", "other", "unread"},
     n \in {<<Unsaid, Unsaid, Unsaid>>, <<Unsaid, 4, 2>>, <<5, 2, 3>>, <<1, 2, 3>>},
     e \in {<<Unsaid, Unsaid, Unsaid>>, <<FALSE, Unsaid, TRUE>>, <<Unsaid, Unsaid, TRUE>>}}
  \cup {[MCPart EXCEPT !.text = <<a, b, c, d>>, !.execute = <<FALSE, Unsaid, Unsaid>>] :
     a \in CodeTokens, b \in CodeTokens, c \in CodeTokens, d \in CodeTokens}
  \cup {[MCPart EXCEPT !.cloud = <<a, b, c, d, e>>, !.points = <<n, Unsaid, Unsaid>>, !.execute = <<FALSE, Unsaid, Unsaid>>] :
     a \in Points2D, b \in Points2D, c \in Points2D, d \in Points2D, e \in Points2D, n \in {2, 3}}

-----------------------------------------------------------------------------
(* Checkpoints with and without what they should declare, two questions in *)
(* a row.                                                                  *)
MCCheckpoint == [cameras |-> 2, dof |-> 2, bounds |-> <<[lo |-> -10, hi |-> 10], [lo |-> 0, hi |-> 30]>>,
  state |-> 2, options |-> RequiredOptions, gripper |-> 1]
MCCheckpoints ==
  {[MCCheckpoint EXCEPT !.cameras = c, !.bounds = b, !.state = s] :
     c \in 0..3, b \in {Unsaid, MCCheckpoint.bounds, <<MCCheckpoint.bounds[1]>>}, s \in {Unsaid, 2}}
  \cup {[MCCheckpoint EXCEPT !.dof = d, !.options = o, !.gripper = g] :
     d \in 0..3, o \in {RequiredOptions, {"space"}}, g \in {Unsaid, 0, 1, 2}}
MCQuestion == [instruction |-> "plain", posture |-> <<1, 2>>, views |-> <<"a", "b", Unsaid>>,
  steps |-> <<Unsaid, Unsaid, 2>>, seed |-> 1]
MCQuestions ==
  {[MCQuestion EXCEPT !.seed = s, !.posture = p] : s \in 1..3, p \in {<<>>, <<1>>, <<1, 2>>, <<2, 2>>}}
  \cup {[MCQuestion EXCEPT !.views = <<a, b, c>>] : a \in {"a", Unsaid}, b \in {"b", Unsaid}, c \in {"c", Unsaid}}
  \cup {[MCQuestion EXCEPT !.instruction = t, !.steps = s] : t \in {"", "plain", "foreign"},
     s \in {<<Unsaid, Unsaid, 2>>, <<2, 1, 1>>, <<1, Unsaid, 2>>, <<9, Unsaid, 2>>}}
MCNumbers == <<<<<<-10, 30, 1>>, <<10, 0, 1>>>>, <<<<-15, 5, 1>>, <<3, 4, 1>>>>, <<<<9, 31, 8>>>>>>

-----------------------------------------------------------------------------
(* Scenes up to five by five with tiles up to four, sounds up to seven     *)
(* samples, talks of three turns, texts of three words, documents of four  *)
(* pages.                                                                  *)
SceneOf(h, w, t, o, bit) == [kind |-> "scene", height |-> h, width |-> w, tile |-> t, overlap |-> o,
  seen |-> [p \in (0..(h - 1)) \X (0..(w - 1)) |->
     IF (p[1] + p[2] * bit) % 2 = 0 THEN <<0, 1>> ELSE <<1, 0>>], names |-> Unsaid, interest |-> Unsaid]
MCScenes == {SceneOf(h, w, t, o, b) : h \in 1..5, w \in {1, 4, 5}, t \in 0..4, o \in 0..3, b \in {0, 1}}
  \cup {[SceneOf(3, 2, 2, 0, 1) EXCEPT !.names = n, !.interest = i] :
     n \in {Unsaid, <<>>, <<"a">>, <<"a", "b">>, <<"a", "b", "c">>}, i \in {Unsaid, 1, 2, 3}}
MCSounds == {[kind |-> "sound", length |-> n, hop |-> k] : n \in 0..7, k \in 1..4}
TurnsOf == {[start |-> s, end |-> s + d, speaker |-> p] : s \in {0, 4, 8}, d \in {1, 3}, p \in {"x", "y"}}
MCTalks == {[kind |-> "talk", turns |-> t, shortest |-> m, length |-> n, longest |-> 10] :
   t \in {u \in UNION {[1..n -> TurnsOf] : n \in 0..3} : \A i, k \in DOMAIN u : i < k => u[i].start < u[k].start},
   m \in {0, 2}, n \in {10, 12}}
PlainToken(t) == [form |-> t, units |-> <<t>>]
MCTokens == {<<>>, <<PlainToken("a"), PlainToken("bb"), PlainToken("c")>>,
  <<[form |-> "a.", units |-> <<"a">>], PlainToken("bb"), [form |-> "%", units |-> <<>>]>>,
  <<[form |-> "bb", units |-> <<"a", "c">>], PlainToken("a")>>}
MCWordsOf == {[text |-> t, start |-> s[1], end |-> s[2]] :
  t \in {"a", "bb"}, s \in {<<0, 1>>, <<0, 3>>, <<0, 7>>, <<2, 3>>, <<2, 7>>, <<6, 7>>}}
MCScripts == {[kind |-> "script", tokens |-> k, words |-> w, length |-> n, longest |-> l] :
   k \in MCTokens,
   w \in {u \in UNION {[1..n -> MCWordsOf] : n \in 0..3} : \A i, j \in DOMAIN u : i < j => u[i].start <= u[j].start},
   n \in {8}, l \in {8, 9}}
  \cup {[kind |-> "script", tokens |-> k, words |-> <<>>, length |-> 9, longest |-> 8] : k \in MCTokens}
MCDocuments == {[kind |-> "pages", pdf |-> b, total |-> n, range |-> r] : b \in BOOLEAN, n \in 1..4,
   r \in {Unsaid} \cup UNION {[1..m -> {<<1>>, <<3>>, <<2, 4>>, <<4, 3>>, <<>>, Unsaid}] : m \in 1..3}}
MCPieces == MCScenes \cup MCSounds \cup MCTalks \cup MCScripts \cup MCDocuments
MCLengthOf == [t \in {"a", "a.", "bb", "c", "%"} |-> IF t \in {"a.", "bb"} THEN 2 ELSE 1]

-----------------------------------------------------------------------------
(* Each kind of painter, with what may be wrong with one; of each kind, the *)
(* sides that are on the grid of the model and that are not.               *)
MCPainter == [kind |-> "image", metal |-> TRUE, folder |-> TRUE, files |-> {"bare"}, quantization |-> Unsaid,
  scheduler |-> Unsaid, schedulers |-> {"ddim"}, reports |-> TRUE, factor |-> 2,
  settings |-> [own |-> Unsaid, width |-> Unsaid, height |-> 16, frames |-> Unsaid, steps |-> 50, strength |-> Unsaid,
                most |-> 24, scale |-> Unsaid]]
MCPainters ==
  {[MCPainter EXCEPT !.kind = k] : k \in Kinds}
  \cup {[MCPainter EXCEPT !.files = f, !.quantization = q] :
          f \in {{}, {"fp16"}, {"bf16"}, {"bare", "fp16"}}, q \in {"none", "bf16"}}
  \cup {[MCPainter EXCEPT !.settings.own = 1]}
  \cup {[MCPainter EXCEPT !.scheduler = s, !.reports = FALSE] : s \in {"ddim", "other"}}
  \cup {[MCPainter EXCEPT !.quantization = "int4"], [MCPainter EXCEPT !.kind = "retouch", !.files = {"bf16"}]}
  \cup {[MCPainter EXCEPT !.kind = "enlarge", !.metal = m, !.files = f, !.factor = n] :
          m \in BOOLEAN, f \in {{"bare"}, {"fp16"}}, n \in {0, 3}}
  \cup {[MCPainter EXCEPT !.kind = "upscale", !.folder = FALSE]}
MCOrder == [prompt |-> TRUE, seed |-> Unsaid, own |-> Unsaid, width |-> 8, height |-> Unsaid, frames |-> 9,
  steps |-> Unsaid, strength |-> 60, most |-> Unsaid, scale |-> Unsaid, image |-> Unsaid, mask |-> Unsaid,
  expand |-> Unsaid]
Sided(w, h) == [width |-> w, height |-> h, there |-> TRUE, clear |-> FALSE]
WithSeeds(orders) == orders \cup {[o EXCEPT !.seed = s, !.own = s] : o \in orders, s \in {2}}
Around(t, b, l, r) == [top |-> t, bottom |-> b, left |-> l, right |-> r]
MCOrders == [
  image |-> WithSeeds({[MCOrder EXCEPT !.width = w, !.steps = n] : w \in {8, 16, Unsaid}, n \in {3, Unsaid}}
                   \cup {[MCOrder EXCEPT !.prompt = FALSE]}),
  film |-> WithSeeds({[MCOrder EXCEPT !.width = w, !.frames = f] : w \in {8, 48, 64, 80}, f \in {8, 9, 24}}
                  \cup {[MCOrder EXCEPT !.prompt = FALSE]}),
  animation |-> WithSeeds({[MCOrder EXCEPT !.image = Sided(w, h), !.prompt = p] :
                          w \in {1, 49, 64}, h \in {32, 112}, p \in BOOLEAN}
                       \cup {MCOrder, [MCOrder EXCEPT !.image = [Sided(32, 32) EXCEPT !.there = FALSE]]}),
  retouch |-> WithSeeds({[MCOrder EXCEPT !.image = Sided(w, h), !.strength = s, !.most = m] :
                        w \in {5, 47}, h \in {20, 40}, s \in {0, 58}, m \in {16, Unsaid}}),
  repair |-> WithSeeds({[MCOrder EXCEPT !.image = Sided(w, 20), !.mask = k, !.expand = e] :
                       w \in {10, 30}, k \in {Unsaid, "given", "missing"},
                       e \in {Unsaid, Around(0, 0, 0, 0), Around(0, 4, 2, 0), Around(0, 0, 1, 9)}}),
  enlarge |-> {[MCOrder EXCEPT !.image = Sided(w, 8), !.scale = s, !.most = m] :
                 w \in {3, 5, 12}, s \in {Unsaid, 3}, m \in {30, Unsaid}},
  upscale |-> {[MCOrder EXCEPT !.image = [Sided(w, 5) EXCEPT !.clear = c], !.scale = s, !.most = m] :
                 w \in {1, 7, 12}, s \in {Unsaid, 3}, m \in {15, 100}, c \in BOOLEAN}]
MCShort == {<<47, 47, 24>>, <<50, 100, 58>>}

-----------------------------------------------------------------------------
workerVars == <<faceVars, viewVars, vectorVars, benchVars, pictureVars>>
adapterVars == <<forecastVars, streamVars, programVars, robotVars, pieceVars, workerVars>>

ForecastIdle == forecast = <<>> /\ published = Unsaid
StreamsIdle ==
  text = <<>> /\ sent = 0 /\ flux = Unsure /\ draft = <<>> /\ reply = <<>> /\ over = FALSE
ProgramIdle ==
  /\ part = <<>> /\ adapter = "start" /\ child = "none"
  /\ folder = <<>> /\ report = "none" /\ drawn = Nobody
RobotIdle == checkpoint = <<>> /\ loaded = "no" /\ queue = <<>> /\ jobs = <<>>
PiecesIdle == piece = <<>> /\ made = Unsaid
FacesIdle ==
  /\ manifest = <<>> /\ snapshot = <<>> /\ worker = <<>>
  /\ drifts = 0 /\ answers = <<>>
VectorsIdle == encoder = <<>> /\ served = <<>> /\ embedded = <<>>
BenchIdle ==
  /\ charge = <<>> /\ sources = <<>> /\ loading = 0
  /\ received = <<>> /\ results = <<>> /\ measures = <<>>
PicturesIdle == painter = <<>> /\ easel = "started" /\ high = 0 /\ pictures = <<>>

AdaptersInit ==
  /\ IF system = "forecast" THEN ForecastInit ELSE ForecastIdle
  /\ IF system = "streams" THEN StreamsInit ELSE StreamsIdle
  /\ IF system = "program" THEN ProgramInit ELSE ProgramIdle
  /\ IF system = "robot" THEN RobotInit ELSE RobotIdle
  /\ IF system = "pieces" THEN PiecesInit ELSE PiecesIdle
  /\ IF system = "faces" THEN FacesInit ELSE FacesIdle
  /\ ViewsInit
  /\ IF system = "vectors" THEN VectorsInit ELSE VectorsIdle
  /\ IF system = "bench" THEN BenchInit ELSE BenchIdle
  /\ IF system = "pictures" THEN PicturesInit ELSE PicturesIdle

AdaptersNext ==
  /\ UNCHANGED system
  /\ \/ /\ system = "forecast" /\ Infer
        /\ UNCHANGED <<streamVars, programVars, robotVars, pieceVars, workerVars>>
     \/ /\ system = "streams" /\ StreamsNext
        /\ UNCHANGED <<forecastVars, programVars, robotVars, pieceVars, workerVars>>
     \/ /\ system = "program" /\ ProgramNext
        /\ UNCHANGED <<forecastVars, streamVars, robotVars, pieceVars, workerVars>>
     \/ /\ system = "robot" /\ RobotNext
        /\ UNCHANGED <<forecastVars, streamVars, programVars, pieceVars, workerVars>>
     \/ /\ system = "pieces" /\ PiecesNext
        /\ UNCHANGED <<forecastVars, streamVars, programVars, robotVars, workerVars>>
     \/ /\ UNCHANGED <<forecastVars, streamVars, programVars, robotVars, pieceVars>>
        /\ \/ system = "faces" /\ FacesNext /\ UNCHANGED <<viewVars, vectorVars, benchVars, pictureVars>>
           \/ system = "views" /\ ViewsNext /\ UNCHANGED <<faceVars, vectorVars, benchVars, pictureVars>>
           \/ system = "vectors" /\ VectorsNext /\ UNCHANGED <<faceVars, viewVars, benchVars, pictureVars>>
           \/ system = "bench" /\ BenchNext /\ UNCHANGED <<faceVars, viewVars, vectorVars, pictureVars>>
           \/ system = "pictures" /\ PicturesNext /\ UNCHANGED <<faceVars, viewVars, vectorVars, benchVars>>

(* The adapters keep what they promise of their answers, and the bench of  *)
(* the profiles it draws.                                                  *)
AdaptersHonest ==
  /\ ForecastHonest
  /\ StreamIsSplit
  /\ ProgramHonest
  /\ RobotHonest
  /\ PiecesWhole
  /\ system = "faces" => FacesHonest
  /\ ViewsHonest
  /\ system = "vectors" => VectorsHonest
  /\ system = "bench" => ProfileHolds
  /\ system = "pictures" => PicturesHonest

-----------------------------------------------------------------------------
MCSystems == {"admission", "recovery", "catalog", "assistant", "commands",
              "forecast", "streams", "program", "robot", "pieces",
              "faces", "views", "vectors", "bench", "pictures"}
MCvars == <<system, rvars, worldVars, catalogVars, assistantVars, commandVars, adapterVars>>

NoCall == [ref |-> 1, peak |-> 200, measure |-> FALSE, overcommit |-> FALSE]
AdmissionIdle ==
  /\ park = <<>> /\ call = NoCall /\ restants = {} /\ evinces = {}
  /\ stage = "start" /\ verdict = Pending
  /\ argument = Absent /\ seen = <<>> /\ answer = NoAnswer

RecoveryIdle == world = <<>> /\ done = Untouched
CatalogIdle ==
  /\ tree = <<>> /\ contracts = <<>> /\ models = <<>> /\ issues = {}
  /\ reading = <<"contracts", 1>>

AssistantIdle ==
  /\ situation = <<>> /\ opened = {} /\ kept = <<>>
  /\ declared = Unsaid /\ lines = Unsaid /\ serves = <<>> /\ response = NoReply

CommandsIdle == invoked = <<>> /\ exit = Unsaid

MCInit ==
  /\ system \in MCSystems
  /\ IF system = "admission" THEN RefusalInit ELSE AdmissionIdle
  /\ IF system = "recovery" THEN RecoveryInit ELSE RecoveryIdle
  /\ IF system = "catalog" THEN CatalogInit ELSE CatalogIdle
  /\ IF system = "assistant" THEN AssistantInit ELSE AssistantIdle
  /\ IF system = "commands" THEN CommandsInit ELSE CommandsIdle
  /\ AdaptersInit

MCNext ==
  \/ /\ system = "admission" /\ RefusalNext
     /\ UNCHANGED <<system, worldVars, catalogVars, assistantVars, commandVars, adapterVars>>
  \/ /\ system = "recovery" /\ RecoveryNext
     /\ UNCHANGED <<system, rvars, catalogVars, assistantVars, commandVars, adapterVars>>
  \/ /\ system = "catalog" /\ CatalogNext
     /\ UNCHANGED <<system, rvars, worldVars, assistantVars, commandVars, adapterVars>>
  \/ /\ system = "assistant" /\ AssistantNext
     /\ UNCHANGED <<system, rvars, worldVars, catalogVars, commandVars, adapterVars>>
  \/ /\ system = "commands" /\ RunOnce
     /\ UNCHANGED <<system, rvars, worldVars, catalogVars, assistantVars, adapterVars>>
  \/ AdaptersNext /\ UNCHANGED <<rvars, worldVars, catalogVars, assistantVars, commandVars>>

MCSpec == MCInit /\ [][MCNext]_MCvars
=============================================================================
