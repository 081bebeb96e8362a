------------------------------- MODULE Pieces -------------------------------
(***************************************************************************)
(* What the adapters cut, and put together again: the tiles of a scene     *)
(* (workers/prithvi_segment.py, prithvi_base.py), the frames of a sound    *)
(* (dfn3_denoise.py), the turns of a talk (moss_diarize.py), the words of  *)
(* an aligned text and its subtitles (qwen3_align.py), the pages of a      *)
(* document (mlx_vlm.py).  The networks are what is between: each answers  *)
(* for the piece it is shown.                                              *)
(*                                                                         *)
(* A job of each kind holds                                                *)
(*   scene   height, width, tile, overlap, seen: what the network sees at  *)
(*           each pixel, a sequence of votes, one for each class;          *)
(*           names, interest: the options of the manifest, or Unsaid       *)
(*   sound   length, hop                                                   *)
(*   talk    turns: [start, end, speaker], shortest, length, longest       *)
(*   script  tokens: [form, units], the tokens of the text and the units   *)
(*           the library cleans each into; words: [text, start, end], what *)
(*           the model answers; length, longest                            *)
(*   pages   pdf, total, range: Unsaid or a sequence of pieces, <<n>>,     *)
(*           <<first, last>>, <<>> one that cannot be read, Unsaid a blank *)
(***************************************************************************)
EXTENDS Input, Integers, Sequences, SequencesExt, FiniteSetsExt

CONSTANTS
  Pieces,           \* the jobs to consider
  Side,             \* PAS_MPS: what the sides of a tile are multiples of
  Characters, Seconds, Silent,  \* CARACTERES_, SECONDES_PAR_REPLIQUE, SILENCE_COUPANT
  LengthOf,         \* [text |-> its characters]
  Ending,           \* the texts that end a sentence
  Ceiling,          \* PLAFOND_DUR_S
  PagesMax          \* MAX_PAGES

ASSUME PiecesAssumption == Side > 0 /\ Ending \subseteq DOMAIN LengthOf

VARIABLES
  piece,    \* the job
  made      \* what it published, or Unsaid

pieceVars == <<piece, made>>

PiecesInit == piece \in Pieces /\ made = Unsaid

Declined == [ok |-> FALSE]

-----------------------------------------------------------------------------
(* A scene. *)

Tiles(s) == Starts(s.height, s.tile, s.overlap) \X Starts(s.width, s.tile, s.overlap)
Size(s, t) == <<Min({s.tile, s.height - t[1]}), Min({s.tile, s.width - t[2]})>>
Crop(s, t) == (t[1]..(t[1] + Size(s, t)[1] - 1)) \X (t[2]..(t[2] + Size(s, t)[2] - 1))

(* _segmenter: what the network is shown, padded; its answer is cut back.  *)
Shape(s, t) == <<AlignedUp(Size(s, t)[1], Side), AlignedUp(Size(s, t)[2], Side)>>

Votes(s, p, class) ==
  FoldSet(LAMBDA t, sum : sum + s.seen[p][class], 0, {t \in Tiles(s) : p \in Crop(s, t)})

(* argmax: the first of the highest. *)
Classes(s) == DOMAIN s.seen[<<0, 0>>]
TopClass(votes) == Min({c \in DOMAIN votes : \A d \in DOMAIN votes : votes[d] <= votes[c]})
Map(s) == [p \in DOMAIN s.seen |-> TopClass([c \in Classes(s) |-> Votes(s, p, c)])]

(* noms_classes, classe_interet: a name for each class, and the second of  *)
(* the classes when the manifest names none.                               *)
Named(s) == s.names # Unsaid => Len(s.names) <= Cardinality(Classes(s))
ClassNames(s) ==
  [c \in Classes(s) |-> IF s.names # Unsaid /\ c \in DOMAIN s.names THEN s.names[c] ELSE c]
Interest(s) == IF s.interest # Unsaid THEN s.interest ELSE Min({2, Cardinality(Classes(s))})

Segment ==
  LET map == Map(piece)
      count == [c \in Classes(piece) |-> Cardinality({p \in DOMAIN map : map[p] = c})]
  IN  /\ piece.kind = "scene" /\ made = Unsaid
      /\ made' =
           IF Named(piece) /\ Interest(piece) \in Classes(piece)
                /\ piece.tile >= 1 /\ piece.overlap < piece.tile
           THEN [ok |-> TRUE, map |-> map, count |-> count, names |-> ClassNames(piece),
                 covered |-> count[Interest(piece)], tiles |-> Cardinality(Tiles(piece)),
                 padded |-> {Shape(piece, t) : t \in {u \in Tiles(piece) : Shape(piece, u) # Size(piece, u)}}]
           ELSE Declined
      /\ UNCHANGED piece

-----------------------------------------------------------------------------
(* A sound. *)

(* analyser: the samples of the frame f; the sound starts after one hop.   *)
Rest(s) == (-s.length) % s.hop
Frames(s) == 0..((s.length + Rest(s) + 2 * s.hop) \div s.hop - 2)
(* Mutant: it starts at once. *)
AtOnce(s, f) == {i \in 0..(s.length - 1) : i \in (f * s.hop)..((f + 2) * s.hop - 1)}
Reads(s, f) == {i \in 0..(s.length - 1) : i + s.hop \in (f * s.hop)..((f + 2) * s.hop - 1)}

(* synthetiser, cut to the length that came in: where each frame adds.     *)
Adds(s, f) == {i \in 0..(s.length - 1) : i + s.hop \in (f * s.hop)..((f + 2) * s.hop - 1)}

Denoise ==
  /\ piece.kind = "sound" /\ made = Unsaid
  /\ made' =
       IF piece.length = 0 THEN Declined
       ELSE [ok |-> TRUE, from |-> [i \in 0..(piece.length - 1) |->
               {f \in Frames(piece) : i \in Adds(piece, f)}],
             read |-> [f \in Frames(piece) |-> Reads(piece, f)]]
  /\ UNCHANGED piece

-----------------------------------------------------------------------------
(* A talk. *)

Truncated(w) == w.length > w.longest
Heard(w) == Min({w.length, w.longest})

(* fusionner *)
Short(w, turn) == turn.end - turn.start < w.shortest
(* Mutant: whoever spoke. *)
JoinedAnyway(w, kept, turn) == [kept EXCEPT ![Len(kept)].end = turn.end]
Joined(w, kept, turn) ==
  IF kept[Len(kept)].speaker = turn.speaker THEN [kept EXCEPT ![Len(kept)].end = turn.end] ELSE kept
Merged(w, kept, turn) ==
  IF w.shortest <= 0 \/ ~Short(w, turn) THEN Append(kept, turn)
  ELSE IF kept = <<>> THEN kept ELSE Joined(w, kept, turn)
Turns(w) == FoldLeft(LAMBDA kept, turn : Merged(w, kept, turn), <<>>, w.turns)

Diarise ==
  /\ piece.kind = "talk" /\ made = Unsaid
  /\ made' = [ok |-> TRUE, turns |-> Turns(piece), cut |-> Truncated(piece),
              speakers |-> Cardinality({Turns(piece)[i].speaker : i \in DOMAIN Turns(piece)}),
              merged |-> Len(piece.turns) - Len(Turns(piece))]
  /\ UNCHANGED piece

-----------------------------------------------------------------------------
(* A script. *)

(* surfaces_originales: the form of a token that is one unit, the units of *)
(* one that is several.                                                    *)
Surfaces(w) ==
  FlattenSeq([i \in DOMAIN w.tokens |->
    IF Len(w.tokens[i].units) = 1 THEN <<w.tokens[i].form>> ELSE w.tokens[i].units])

(* _rendre_les_formes_donnees *)
Paired(w) == w.words = <<>> \/ Len(Surfaces(w)) = Len(w.words)
Words(w) ==
  IF Paired(w) THEN [i \in DOMAIN w.words |-> [w.words[i] EXCEPT !.text = Surfaces(w)[i]]] ELSE w.words

(* repliques: the words between two cuts are one subtitle. *)
TextLength(words, i, k) == FoldLeft(LAMBDA n, w : n + 1 + LengthOf[w.text], -1, SubSeq(words, i, k))
(* Mutant: whatever the length of the line. *)
CutsLong(words, from, k) ==
  \/ words[k - 1].text \in Ending
  \/ words[k].start - words[k - 1].end > Silent
  \/ words[k].end - words[from].start > Seconds
Cuts(words, from, k) ==
  \/ words[k - 1].text \in Ending
  \/ words[k].start - words[k - 1].end > Silent
  \/ words[k].end - words[from].start > Seconds
  \/ TextLength(words, from, k) > Characters

(* The first word of each subtitle. *)
Heads(words) ==
  LET head[k \in DOMAIN words] ==
        IF k = 1 THEN 1 ELSE IF Cuts(words, head[k - 1], k) THEN k ELSE head[k - 1]
  IN  {head[k] : k \in DOMAIN words}
Cues(words) ==
  {<<h, Min({Len(words)} \cup {g - 1 : g \in {x \in Heads(words) : x > h}})>> : h \in Heads(words)}

(* empan *)
Span(words) ==
  IF words = <<>> THEN 0 ELSE Max({0, words[Len(words)].end - words[1].start})

Align ==
  /\ piece.kind = "script" /\ made = Unsaid
  /\ made' =
       IF piece.tokens = <<>> \/ piece.longest > Ceiling THEN Declined
       ELSE [ok |-> TRUE, words |-> Words(piece), cues |-> Cues(Words(piece)),
             told |-> {x \in {"cut", "not paired", "collapsed"} :
               \/ x = "cut" /\ Truncated(piece)
               \/ x = "not paired" /\ ~Paired(piece)
               \/ /\ x = "collapsed" /\ piece.words # <<>> /\ Heard(piece) > 0
                  /\ 2 * Span(Words(piece)) < Heard(piece)}]
  /\ UNCHANGED piece

-----------------------------------------------------------------------------
(* A document. *)

(* parse_page_range *)
Wanted(d) ==
  IF d.range = Unsaid THEN 1..d.total
  ELSE UNION {IF d.range[i] = Unsaid THEN {}
              ELSE d.range[i][1]..d.range[i][Len(d.range[i])] : i \in DOMAIN d.range} \cap 1..d.total

Legible(d) == d.range # Unsaid => <<>> \notin {d.range[i] : i \in DOMAIN d.range}

(* Mutant: load_page counts from zero. *)
ImageAt(numero) == numero + 1
(* pdf_to_images: the page of the document a number is the image of.       *)
Image(numero) == numero

Numbered(d) == SetToSortSeq(Wanted(d), <)

ReadPages ==
  LET numbers == IF piece.pdf THEN Numbered(piece) ELSE <<1>>
  IN  /\ piece.kind = "pages" /\ made = Unsaid
      /\ made' =
           IF IF piece.pdf THEN Legible(piece) /\ Wanted(piece) # {} /\ Len(numbers) <= PagesMax
              ELSE piece.range \in {Unsaid, <<<<1>>>>}
           THEN [ok |-> TRUE, text |-> [k \in DOMAIN numbers |->
                   [label |-> numbers[k], of |-> Image(numbers[k])]]]
           ELSE Declined
      /\ UNCHANGED piece

PiecesNext == Segment \/ Denoise \/ Diarise \/ Align \/ ReadPages

-----------------------------------------------------------------------------
(* Whatever the tiles, each pixel has the class the network sees there, no *)
(* tile is shown that is not told of if it was padded, and the classes     *)
(* share the pixels, each under a name of its own rank.                    *)
SceneWhole(s, r) ==
  /\ \A p \in DOMAIN s.seen : r.map[p] = TopClass(s.seen[p])
  /\ FoldFunction(+, 0, r.count) = s.height * s.width
  /\ DOMAIN r.names = DOMAIN r.count
  /\ r.padded = {} <=> \A side \in {s.height, s.width} :
                         Min({side, s.tile}) % Side = 0

(* Each sample that comes out is the sum of the two frames that read it:   *)
(* the sound has its length, and nothing moves.                            *)
SoundWhole(s, r) ==
  \A i \in 0..(s.length - 1) :
    /\ Cardinality(r.from[i]) = 2
    /\ r.from[i] = {f \in DOMAIN r.read : i \in r.read[f]}

(* The long turns are all there, in their order, each with its speaker and *)
(* its start; an end only ever moves to that of a turn of that speaker.    *)
TalkWhole(w, r) ==
  LET long == SelectSeq(w.turns, LAMBDA t : w.shortest <= 0 \/ ~Short(w, t))
  IN  /\ Len(long) = Len(r.turns)
      /\ \A i \in DOMAIN long :
           /\ long[i].speaker = r.turns[i].speaker /\ long[i].start = r.turns[i].start
           /\ \E k \in DOMAIN w.turns :
                w.turns[k].speaker = long[i].speaker /\ w.turns[k].end = r.turns[i].end
      /\ w.length > w.longest => r.cut

(* No word is lost, and none gets the form of another unless the units do  *)
(* not pair, which is told; a subtitle of several words crosses no end of  *)
(* a sentence and no silence, and stays within the time and the line.      *)
ScriptWhole(w, r) ==
  LET n == Len(w.words)
      given == FlattenSeq([i \in DOMAIN w.tokens |-> w.tokens[i].units])
      units == [i \in 1..n |-> w.words[i].text]
  IN  /\ Len(r.words) = n
      /\ \A i \in 1..n : r.words[i].start = w.words[i].start /\ r.words[i].end = w.words[i].end
      /\ "not paired" \notin r.told => n = Len(given) \/ n = 0
      /\ "not paired" \in r.told => [i \in 1..n |-> r.words[i].text] = units
      /\ UNION {c[1]..c[2] : c \in r.cues} = 1..n
      /\ \A c, d \in r.cues : c # d => (c[1]..c[2]) \cap (d[1]..d[2]) = {}
      /\ \A c \in r.cues : c[1] < c[2] =>
           /\ r.words[c[2]].end - r.words[c[1]].start <= Seconds
           /\ TextLength(r.words, c[1], c[2]) <= Characters
           /\ \A k \in c[1]..(c[2] - 1) :
                /\ r.words[k].text \notin Ending
                /\ r.words[k + 1].start - r.words[k].end <= Silent
      /\ w.length > w.longest => "cut" \in r.told

(* Every page that was asked for is read once, in its order, and is under  *)
(* its own number.                                                         *)
PagesWhole(d, r) ==
  /\ \A k \in DOMAIN r.text : r.text[k].label = r.text[k].of
  /\ \A i, k \in DOMAIN r.text : i < k => r.text[i].label < r.text[k].label
  /\ d.pdf => {r.text[k].label : k \in DOMAIN r.text} = Wanted(d)

(* What was cut is put together again. *)
PiecesWhole ==
  made # Unsaid /\ made.ok =>
    CASE piece.kind = "scene" -> SceneWhole(piece, made)
      [] piece.kind = "sound" -> SoundWhole(piece, made)
      [] piece.kind = "talk" -> TalkWhole(piece, made)
      [] piece.kind = "script" -> ScriptWhole(piece, made)
      [] piece.kind = "pages" -> PagesWhole(piece, made)

(* "Merging it with another speaker would invent speech" (fusionner): a    *)
(* turn only covers time at which its speaker speaks, or nobody does.      *)
NothingInvented ==
  made # Unsaid /\ piece.kind = "talk" =>
    \A i \in DOMAIN made.turns : \A k \in DOMAIN piece.turns :
      piece.turns[k].speaker # made.turns[i].speaker =>
        \/ piece.turns[k].end <= made.turns[i].start
        \/ piece.turns[k].start >= made.turns[i].end
=============================================================================
