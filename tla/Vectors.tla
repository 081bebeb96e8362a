------------------------------ MODULE Vectors ------------------------------
(***************************************************************************)
(* The workers that answer a vector: of a protein (workers/esm_embed.py),  *)
(* of a picture (dinov3_embed.py), of a scene (prithvi_embed.py).  Nothing *)
(* fails when a vector is of something else than it says, so the model     *)
(* keeps what a vector is of: the tokens that weigh in it.                 *)
(*                                                                         *)
(* An encoder of a kind holds what its manifest and its files say:         *)
(*   all        kind; pooling, limit, tile, side: its options, or Unsaid;  *)
(*              files: how many there are of the one that it needs         *)
(*   residues   alphabet of its tokenizer; pooler: the library drew one    *)
(*   picture    config [architecture, tag]; trained: the statistics its    *)
(*              weights were trained with                                  *)
(*   scene      config [means, deviations]; keys of the checkpoint,        *)
(*              <<prefix, weight>>; network [head, short]                  *)
(* A job holds an input of the kind, another to compare or Unsaid, its     *)
(* settings or Unsaid, and whether it normalises.  A text is a sequence of *)
(* lines [head, letters]; a picture [width, height, subject, ground]: what *)
(* is opaque, and what colour hides under what is not, or Unsaid; a scene  *)
(* [height, width, layers, cells].                                         *)
(***************************************************************************)
EXTENDS Input, Integers, Sequences, SequencesExt, FiniteSetsExt

CONSTANTS
  Encoders, EmbedJobs,       \* what to consider
  Least, Most, UsualLimit,   \* the bounds and the usual value of max_length
  Suspicious,                \* NUCLEOTIDES_MIN
  Timm,                      \* [architecture |-> [tag |-> network]], "usual" among the tags
  UsualSide,                 \* DEFAUT_COTE
  Weights,                   \* the weights of the network of scenes
  Channels,                  \* CANAUX
  EdgeOfPatch, UsualTile,    \* PATCH, DEFAUT_TUILE
  MaxEmbedJobs               \* bound: jobs of a worker

ASSUME VectorsAssumption ==
  /\ Least \in Nat /\ Most \in Nat /\ UsualLimit \in Least..Most
  /\ EdgeOfPatch \in Nat \ {0} /\ UsualTile % EdgeOfPatch = 0

VARIABLES
  encoder,    \* the encoder
  served,     \* the worker: state, pooling, and the network it holds
  embedded    \* the jobs done, each with what was published

vectorVars == <<encoder, served, embedded>>

NoNetwork == [head |-> Unsaid, step |-> 1, statistics |-> Unsaid, weights |-> {}]
VectorsInit ==
  /\ encoder \in Encoders /\ embedded = <<>>
  /\ served = [state |-> "new", pooling |-> Unsaid, network |-> NoNetwork]

-----------------------------------------------------------------------------
(* Loading. *)

PoolingOf(e) == Setting(<<e.pooling>>, "mean")
KnownPooling(e) == PoolingOf(e) \in {"mean", "cls"}

(* EsmEmbedWorker.load: a pooler that is not in the checkpoint was drawn.   *)
ResiduesServed(e) == KnownPooling(e) /\ e.files > 0 /\ ~e.pooler
(* Mutant: the architecture alone. *)
TagForgotten(e) == "usual"
(* _nom_timm, _creer *)
TaggedName(e) == Setting(<<e.config.tag>>, "usual")
Declared(e) ==
  /\ e.config.architecture \in DOMAIN Timm
  /\ TaggedName(e) \in DOMAIN Timm[e.config.architecture]
PictureNetwork(e) == Timm[e.config.architecture][TaggedName(e)]

(* verifier_agregation of dinov3_embed: cls is refused to a map of traits.  *)
PictureServed(e) ==
  /\ Declared(e) /\ KnownPooling(e) /\ e.files > 0
  /\ PoolingOf(e) = "cls" => PictureNetwork(e).head # Unsaid

(* depouiller_prefixe *)
Stripped(e) == {k[2] : k \in {j \in e.keys : j[1] = "encoder"}}
(* Mutant: what the file has is enough. *)
SomethingLoaded(e) == Stripped(e) # {}
(* exiger_chargement_complet *)
WhollyLoaded(e) == Stripped(e) # {} /\ Stripped(e) = Weights
(* _lire_config, poser_normalisation: a statistic for each channel, and    *)
(* none to divide by that is not above zero.                               *)
Normalised(e) ==
  /\ Len(e.config.means) = Channels /\ Len(e.config.deviations) = Channels
  /\ \A d \in ToSet(e.config.deviations) : d > 0
SceneServed(e) == KnownPooling(e) /\ e.files = 1 /\ WhollyLoaded(e) /\ Normalised(e)

Holding(e) ==
  CASE e.kind = "residues" -> [NoNetwork EXCEPT !.head = 1]
    [] e.kind = "picture"  -> [NoNetwork EXCEPT !.head = PictureNetwork(e).head,
                                                !.step = PictureNetwork(e).step,
                                                !.statistics = PictureNetwork(e).statistics]
    [] e.kind = "scene"    -> [NoNetwork EXCEPT !.head = e.network.head, !.step = EdgeOfPatch,
                                                !.weights = Stripped(e)]
Loads(Accepted(_)) ==
  /\ served.state = "new"
  /\ served' = IF Accepted(encoder)
               THEN [state |-> "ready", pooling |-> PoolingOf(encoder), network |-> Holding(encoder)]
               ELSE [served EXCEPT !.state = "refused"]
  /\ UNCHANGED <<encoder, embedded>>
LoadResidues == encoder.kind = "residues" /\ Loads(ResiduesServed)
LoadPicture == encoder.kind = "picture" /\ Loads(PictureServed)
LoadScene == encoder.kind = "scene" /\ Loads(SceneServed)

-----------------------------------------------------------------------------
(* Vectors: the tokens that weigh in one, whether each part was brought to *)
(* norm 1 before the mean, and whether the whole is of norm 1.             *)
VectorOf(tokens) == [tokens |-> tokens, parts |-> FALSE, unit |-> FALSE]
Null(v) == ToSet(v.tokens) \subseteq {"null"}

(* normaliser_l2 *)
Unit(v) == [v EXCEPT !.unit = ~Null(v)]
Scaled(v, job) == IF job.normalise THEN Unit(v) ELSE v
(* cosinus: of directions, none with a vector that is null.                 *)
Direction(v) == [tokens |-> v.tokens, parts |-> v.parts]
Cosine(a, b) == IF Null(a) \/ Null(b) THEN Unsaid ELSE <<Direction(a), Direction(b)>>

(* Mutant: the tokens in front weigh as the others do. *)
WithTheHead(tokens, head) == tokens
(* agreger: a map of traits has no head. *)
Meant(tokens, head) == SubSeq(tokens, head + 1, Len(tokens))
Pooled(tokens, head) == IF served.pooling = "cls" THEN <<tokens[1]>> ELSE Meant(tokens, head)

Rejected == [ok |-> FALSE]
VectorAnswer(v, similarity, more) == [ok |-> TRUE, vector |-> v, similarity |-> similarity, more |-> more]
Ready(kind, job) ==
  served.state = "ready" /\ encoder.kind = kind /\ job.kind = kind /\ Len(embedded) < MaxEmbedJobs
Publish(job, answer) ==
  embedded' = Append(embedded, [job |-> job, answer |-> answer]) /\ UNCHANGED <<encoder, served>>

-----------------------------------------------------------------------------
(* A protein. *)

(* lire_sequence *)
Spelled(line) == SelectSeq(line.letters, LAMBDA c : c # " ")
Flushed(read) == IF read.now = <<>> THEN read.records ELSE Append(read.records, read.now)
ReadLine(read, line) ==
  IF line.head THEN [records |-> Flushed(read), now |-> <<>>] ELSE [read EXCEPT !.now = @ \o Spelled(line)]
Records(text) == Flushed(FoldLeft(ReadLine, [records |-> <<>>, now |-> <<>>], text))
(* Mutant: one after the other. *)
Chimera(text) == FlattenSeq(Records(text))
Sequence(text) == IF Records(text) = <<>> THEN <<>> ELSE Records(text)[1]

(* verifier_alphabet, _alphabet_du_tokenizer *)
InAlphabet(s) == ToSet(s) \subseteq encoder.alphabet
Spellable(text) == Sequence(text) # <<>> /\ InAlphabet(Sequence(text))
(* ressemble_a_un_acide_nucleique *)
Nucleic(s) ==
  Len(s) >= Suspicious /\ (ToSet(s) \subseteq {"A", "C", "G", "T"} \/ ToSet(s) \subseteq {"A", "C", "G", "U"})
Warned(text) ==
  {w \in {"several", "headers", "alignment", "nucleic"} :
     \/ w = "several" /\ Len(Records(text)) > 1
     \/ w = "headers" /\ \E i \in DOMAIN text : text[i].head
     \/ w = "alignment" /\ "-" \in ToSet(Sequence(text))
     \/ w = "nucleic" /\ Nucleic(Sequence(text))}

(* plafond_residus *)
LimitOf(job) == Setting(<<job.limit, encoder.limit>>, UsualLimit)
LimitAllowed(job) == LimitOf(job) \in Least..Most

(* The tokenizer makes one token of a run of letters it does not know, and *)
(* keeps its two marks within the window.                                  *)
Tokenised(s) ==
  FoldLeft(LAMBDA t, c : IF c \in encoder.alphabet THEN Append(t, c)
                         ELSE IF t # <<>> /\ Last(t) = "unknown" THEN t ELSE Append(t, "unknown"), <<>>, s)
(* Mutant: the marks are forgotten. *)
NoRoomForMarks(limit) == limit
TokenWindow(limit) == limit + 2
WindowTokens(s, limit) ==
  <<"cls">> \o SubSeq(Tokenised(s), 1, Min({Len(Tokenised(s)), TokenWindow(limit) - 2})) \o <<"eos">>
(* _encoder *)
Useful(tokens) == SelectSeq(tokens, LAMBDA t : t \notin {"cls", "eos", "unknown"})
ResiduesVector(s, limit) ==
  LET tokens == WindowTokens(s, limit)
  IN  VectorOf(IF served.pooling = "cls" THEN <<tokens[1]>> ELSE Useful(tokens))
Encoded(s, limit) == Len(Useful(WindowTokens(s, limit)))

EmbedResidues(job) ==
  LET s == Sequence(job.input)
      t == IF job.other = Unsaid THEN s ELSE Sequence(job.other)
      v == ResiduesVector(s, LimitOf(job))
      length == Encoded(s, LimitOf(job))
      cut == {w \in {"cut", "other cut"} :
                \/ w = "cut" /\ length < Len(s)
                \/ w = "other cut" /\ job.other # Unsaid /\ Encoded(t, LimitOf(job)) < Len(t)}
  IN  /\ Ready("residues", job)
      /\ Publish(job,
           IF ~LimitAllowed(job) \/ ~Spellable(job.input) \/ (job.other # Unsaid /\ ~Spellable(job.other))
           THEN Rejected
           ELSE VectorAnswer(Scaled(v, job),
                         IF job.other = Unsaid THEN Unsaid
                         ELSE Cosine(Scaled(v, job), ResiduesVector(t, LimitOf(job))),
                         [length |-> length, tokens |-> Len(WindowTokens(s, LimitOf(job))),
                          warnings |-> cut \cup Warned(job.input)
                                         \cup (IF job.other = Unsaid THEN {} ELSE Warned(job.other))]))

-----------------------------------------------------------------------------
(* A picture. *)

(* round: to the nearest of n / d, to the even one of two. *)
NearestOf(n, d) ==
  LET below == n \div d
      twice == 2 * (n % d)
  IN  IF twice > d \/ (twice = d /\ below % 2 = 1) THEN below + 1 ELSE below
(* Mutant: cut down to the step. *)
Floored(n, d, step) == Max({1, n \div (d * step)}) * step
(* aligner *)
AlignedTo(n, d, step) == Max({1, NearestOf(n, d * step)}) * step
SideOf(job) == Setting(<<job.side, encoder.side>>, UsualSide)
(* definition *)
InputSize(p, side) ==
  LET longest == Max({p.width, p.height})
  IN  <<AlignedTo(p.width * side, longest, served.network.step),
        AlignedTo(p.height * side, longest, served.network.step)>>

(* Mutant: converted as it is. *)
Uncovered(p) == IF p.ground = Unsaid THEN <<p.subject>> ELSE <<p.subject, p.ground>>
(* Composed over white; the colour under what is transparent is dropped.    *)
Composed(p) == IF p.ground = Unsaid THEN <<p.subject>> ELSE <<p.subject, "white">>
(* _encoder, _agreger: the tokens in front, then one for each patch; a map *)
(* of traits is as patches alone.                                          *)
PictureTokens(p, side) ==
  LET size == InputSize(p, side)
      patches == (size[1] \div served.network.step) * (size[2] \div served.network.step)
      colours == Composed(p)
      head == Setting(<<served.network.head>>, 0)
  IN  [i \in 1..head |-> "head"] \o [i \in 1..patches |-> colours[Min({i, Len(colours)})]]
PictureVector(p, side) == VectorOf(Pooled(PictureTokens(p, side), Setting(<<served.network.head>>, 0)))

EmbedPicture(job) ==
  LET v == Scaled(PictureVector(job.input, SideOf(job)), job)
  IN  /\ Ready("picture", job)
      /\ Publish(job,
           VectorAnswer(v,
                        IF job.other = Unsaid THEN Unsaid ELSE Cosine(v, PictureVector(job.other, SideOf(job))),
                    [size |-> InputSize(job.input, SideOf(job))]))

-----------------------------------------------------------------------------
(* A scene. *)

(* verifier_bandes *)
BandsAllowed(job, p) ==
  /\ job.bands # Unsaid /\ Len(job.bands) = Channels
  /\ \A i \in DOMAIN job.bands : job.bands[i] \in 0..(Len(p.layers) - 1)
(* lire_scene: the library counts the layers from one. *)
LayersRead(job, p) == [i \in DOMAIN job.bands |-> p.layers[job.bands[i] + 1]]

(* tuile_alignee *)
TileAsked(job) == Setting(<<job.tile, encoder.tile>>, UsualTile)
TileOf(job) == AlignedUp(TileAsked(job), EdgeOfPatch)

(* _encoder_fichier: row by row. *)
Windows(p, tile) ==
  SetToSortSeq(Starts(p.height, tile, 0) \X Starts(p.width, tile, 0),
               LAMBDA a, b : a[1] < b[1] \/ (a[1] = b[1] /\ a[2] < b[2]))
Extents(p, tile, w) == <<Min({tile, p.height - w[1]}), Min({tile, p.width - w[2]})>>

(* rembourrer: the border is repeated up to a whole patch. *)
SeenAt(p, w, size, y, x) == p.cells[<<w[1] + Min({y, size[1] - 1}), w[2] + Min({x, size[2] - 1})>>]
PatchTokens(p, tile, w) ==
  LET size == Extents(p, tile, w)
      across == AlignedUp(size[2], EdgeOfPatch) \div EdgeOfPatch
      down == AlignedUp(size[1], EdgeOfPatch) \div EdgeOfPatch
  IN  [k \in 1..(across * down) |->
         SeenAt(p, w, size, ((k - 1) \div across) * EdgeOfPatch, ((k - 1) % across) * EdgeOfPatch)]
(* What the network answers: it may have fewer tokens than patches.         *)
SceneTokens(p, tile, w) ==
  LET all == [i \in 1..encoder.network.head |-> "head"] \o PatchTokens(p, tile, w)
  IN  SubSeq(all, 1, Len(all) - encoder.network.short)
(* jetons_de_tete *)
HeadTokens(p, tile, w) == Len(SceneTokens(p, tile, w)) - Len(PatchTokens(p, tile, w))
Poolable(p, tile, w) ==
  HeadTokens(p, tile, w) >= (IF served.pooling = "cls" THEN 1 ELSE 0)
(* _encoder_tuile *)
TileVector(p, tile, w) == VectorOf(Pooled(SceneTokens(p, tile, w), HeadTokens(p, tile, w)))
TileVectors(p, tile) == [i \in DOMAIN Windows(p, tile) |-> TileVector(p, tile, Windows(p, tile)[i])]

(* moyenne_vecteurs, _agreger_scene: the tiles and the scene, both or none. *)
MeanOf(vs) ==
  [tokens |-> FlattenSeq([i \in DOMAIN vs |-> vs[i].tokens]),
   parts |-> \E i \in DOMAIN vs : vs[i].unit, unit |-> FALSE]
ScaledTiles(vs, job) == [i \in DOMAIN vs |-> Scaled(vs[i], job)]
SceneVector(p, job) == Scaled(MeanOf(ScaledTiles(TileVectors(p, TileOf(job)), job)), job)

Encodable(p, job) ==
  /\ BandsAllowed(job, p)
  /\ \A w \in ToSet(Windows(p, TileOf(job))) : Poolable(p, TileOf(job), w)
EmbedScene(job) ==
  LET p == job.input
  IN  /\ Ready("scene", job)
      /\ Publish(job,
           IF TileAsked(job) < 1 \/ ~Encodable(p, job) \/ (job.other # Unsaid /\ ~Encodable(job.other, job))
           THEN Rejected
           ELSE VectorAnswer(SceneVector(p, job),
                         IF job.other = Unsaid THEN Unsaid
                         ELSE Cosine(SceneVector(p, job), SceneVector(job.other, job)),
                         [tile |-> TileOf(job), realigned |-> TileOf(job) # TileAsked(job),
                          layers |-> LayersRead(job, p), windows |-> Windows(p, TileOf(job)),
                          vectors |-> ScaledTiles(TileVectors(p, TileOf(job)), job)]))

VectorsNext ==
  \/ LoadResidues \/ LoadPicture \/ LoadScene
  \/ \E job \in EmbedJobs : EmbedResidues(job) \/ EmbedPicture(job) \/ EmbedScene(job)

-----------------------------------------------------------------------------
VectorAnswers == {embedded[i] : i \in {k \in DOMAIN embedded : embedded[k].answer.ok}}

(* A protein's vector is of the residues of one protein, as many of the     *)
(* first ones as the limit lets in, none merged with its neighbour, and the *)
(* length told is that of what was encoded: it is told when some are left   *)
(* out.                                                                     *)
ResiduesHonest(a) ==
  LET s == Sequence(a.job.input)
      length == Min({Len(s), LimitOf(a.job)})
  IN  /\ Len(Records(a.job.input)) >= 1 /\ s = Records(a.job.input)[1]
      /\ served.pooling = "mean" => a.answer.vector.tokens = SubSeq(s, 1, length)
      /\ a.answer.more.length = length /\ a.answer.more.tokens = length + 2
      /\ "cut" \in a.answer.more.warnings <=> length < Len(s)
      /\ Len(Records(a.job.input)) > 1 => "several" \in a.answer.more.warnings

(* A picture's is of the picture whole on the one background, at a size its *)
(* network divides, as near as it can be to the one asked and to the shape  *)
(* of the picture, by the statistics its weights were trained with.         *)
PictureHonest(a) ==
  LET p == a.job.input
      size == a.answer.more.size
      step == served.network.step
      longest == Max({p.width, p.height})
      near(n, wanted) ==
        \/ 2 * Max({n * longest - wanted, wanted - n * longest}) <= step * longest
        \/ n = step /\ wanted <= step * longest
  IN  /\ served.network.statistics = encoder.trained
      /\ size[1] % step = 0 /\ size[2] % step = 0
      /\ near(size[1], p.width * SideOf(a.job))
      /\ near(size[2], p.height * SideOf(a.job))
      /\ served.pooling = "mean" => ToSet(a.answer.vector.tokens) \subseteq {p.subject, "white"}

(* A scene's is of every pixel of it, each tile's of its own window, by a  *)
(* network that has all of its weights, from the bands the contract counts *)
(* from zero; what is in front of the patches weighs in none.              *)
SceneHonest(a) ==
  LET p == a.job.input
      more == a.answer.more
      window(i) == LET w == more.windows[i] IN
        (w[1]..(w[1] + Extents(p, more.tile, w)[1] - 1)) \X (w[2]..(w[2] + Extents(p, more.tile, w)[2] - 1))
  IN  /\ served.network.weights = Weights
      /\ more.layers = a.job.bands
      /\ UNION {window(i) : i \in DOMAIN more.windows} = DOMAIN p.cells
      /\ served.pooling = "mean" =>
           \A i \in DOMAIN more.vectors :
             ToSet(more.vectors[i].tokens) \subseteq {p.cells[c] : c \in window(i)}
      /\ a.answer.vector.unit => \A i \in DOMAIN more.vectors : more.vectors[i].unit \/ Null(more.vectors[i])

(* What a vector is of is what it says; and how a job wants its vector     *)
(* scaled changes nothing in the similarity of two proteins or pictures.   *)
VectorsHonest ==
  /\ encoder.kind = "residues" /\ served.state = "ready" => ~encoder.pooler
  /\ \A a \in VectorAnswers :
       /\ encoder.kind = "residues" => ResiduesHonest(a)
       /\ encoder.kind = "picture" => PictureHonest(a)
       /\ encoder.kind = "scene" => SceneHonest(a)
       /\ \A b \in VectorAnswers :
            encoder.kind # "scene" /\ [a.job EXCEPT !.normalise = b.job.normalise] = b.job =>
              a.answer.similarity = b.answer.similarity

(* The class token that is published is one.                                *)
ClassIsAToken ==
  \A a \in VectorAnswers : served.pooling = "cls" => a.answer.vector.tokens \in {<<"cls">>, <<"head">>}

(* The numbers of a column in a copied sequence are taken out of it.        *)
ColumnsRead ==
  \A i \in DOMAIN embedded :
    encoder.kind = "residues" /\ embedded[i].job.other = Unsaid /\ LimitAllowed(embedded[i].job)
      /\ InAlphabet(SelectSeq(Sequence(embedded[i].job.input), LAMBDA c : c # "10"))
      /\ SelectSeq(Sequence(embedded[i].job.input), LAMBDA c : c # "10") # <<>>
      => embedded[i].answer.ok
=============================================================================
