------------------------------- MODULE Streams -------------------------------
(***************************************************************************)
(* A generated text and its draft, told apart twice: fragment by fragment  *)
(* for who watches (workers/base.py, FluxRaisonnement), and once it is     *)
(* whole for the result (sans_raisonnement), by the generation loop of     *)
(* workers/mlx_lm.py.  A text is a sequence of symbols, cut anywhere.      *)
(***************************************************************************)
EXTENDS Naturals, Sequences, SequencesExt, FiniteSetsExt

CONSTANTS
  Openings, Closings,   \* BALISES_RAISONNEMENT: the marks of each convention
  EndMark,              \* the mark of the end a model may write
  Blank,
  Stops,                \* the sequences a request wants its text cut at
  Texts                 \* the texts to consider

ASSUME StreamsAssumption == DOMAIN Openings = DOMAIN Closings

VARIABLES
  text,     \* what the model writes
  sent,     \* how much of it has been pushed
  flux,     \* the state of FluxRaisonnement
  draft, reply,   \* what each channel has carried
  over      \* the stream was emptied

streamVars == <<text, sent, flux, draft, reply, over>>

Unsure == [inside |-> "unsure", closing |-> <<>>, reserve |-> <<>>]
Silence == [draft |-> <<>>, answer |-> <<>>]

StreamsInit ==
  /\ text \in Texts
  /\ sent = 0 /\ flux = Unsure /\ over = FALSE
  /\ draft = <<>> /\ reply = <<>>

-----------------------------------------------------------------------------
(* Texts. *)

Inked(s) == {i \in DOMAIN s : s[i] # Blank}
LStrip(s) == IF Inked(s) = {} THEN <<>> ELSE SubSeq(s, Min(Inked(s)), Len(s))
RStrip(s) == IF Inked(s) = {} THEN <<>> ELSE SubSeq(s, 1, Max(Inked(s)))
Strip(s) == LStrip(RStrip(s))

Finds(s, mark) == {i \in DOMAIN s : IsPrefix(mark, SubSeq(s, i, Len(s)))}
Beyond(s, mark, i) == SubSeq(s, i + Len(mark), Len(s))

(* _sans_marqueur_de_fin: as many as there are at the end. *)
Trimmed(s) ==
  LET real == {i \in DOMAIN s : s[i] \notin {Blank, EndMark}}
  IN  IF real = {} THEN <<>> ELSE LStrip(SubSeq(s, 1, Max(real)))

(* sans_raisonnement: the first convention whose closing is there; what    *)
(* precedes it, without the opening if it starts with it, is the draft.    *)
Split(s) ==
  LET closed == {k \in DOMAIN Closings : Finds(s, Closings[k]) # {}}
      k == Min(closed)
      at == Min(Finds(s, Closings[k]))
      from == IF IsPrefix(Openings[k], s) THEN Len(Openings[k]) + 1 ELSE 1
  IN  IF closed = {} THEN [draft |-> <<>>, answer |-> s]
      ELSE [draft |-> Strip(SubSeq(s, from, at - 1)), answer |-> Strip(Beyond(s, Closings[k], at))]

(* _couper: at the first of the sequences it was asked to stop at. *)
Cut(s) ==
  LET at == UNION {Finds(s, stop) : stop \in Stops}
  IN  IF at = {} THEN s ELSE RStrip(SubSeq(s, 1, Min(at) - 1))

-----------------------------------------------------------------------------
(* FluxRaisonnement.  A step returns its new state and what it emits.      *)

Emits(state, on, s) == [flux |-> state, out |-> [Silence EXCEPT ![on] = s]]
Holds(state, s) == Emits([state EXCEPT !.reserve = s], "draft", <<>>)

(* Mutant: no reserve. *)
KeepsNothing(closing, s) == 0

(* _sortir: how much of the end may be the beginning of the closing.       *)
Keeps(closing, s) ==
  Max({0} \cup {n \in 1..(Len(closing) - 1) : IsSuffix(SubSeq(closing, 1, n), s)})

(* pousser, in the draft: up to the closing, or all that cannot be its     *)
(* beginning. Blanks after it do not count.                                *)
Inside(state, s) ==
  LET closings == Finds(s, state.closing)
      n == Keeps(state.closing, s)
      at == Min(closings)
  IN  IF closings = {}
      THEN Emits([state EXCEPT !.reserve = SubSeq(s, Len(s) - n + 1, Len(s))],
                 "draft", SubSeq(s, 1, Len(s) - n))
      ELSE [flux |-> [state EXCEPT !.inside = "after"],
            out |-> [draft |-> SubSeq(s, 1, at - 1), answer |-> LStrip(Beyond(s, state.closing, at))]]

(* Mutant: the start is the answer, unless it is the whole opening. *)
DecidesAtOnce(state, s) ==
  LET opening == {k \in DOMAIN Openings : IsPrefix(Openings[k], LStrip(s))}
      k == Min(opening)
  IN  IF opening # {}
      THEN Inside([state EXCEPT !.inside = "inside", !.closing = Closings[k]],
                  Beyond(LStrip(s), Openings[k], 1))
      ELSE Emits([state EXCEPT !.inside = "after"], "answer", s)

(* ... at the start: blank, an opening, what may become one, or neither.   *)
Decides(state, s) ==
  LET bare == LStrip(s)
      opening == {k \in DOMAIN Openings : IsPrefix(Openings[k], bare)}
      k == Min(opening)
  IN  IF bare = <<>> \/ (opening = {} /\ \E o \in ToSet(Openings) : IsPrefix(bare, o))
      THEN Holds(state, s)
      ELSE IF opening = {} THEN Emits([state EXCEPT !.inside = "after"], "answer", s)
      ELSE Inside([state EXCEPT !.inside = "inside", !.closing = Closings[k]],
                  Beyond(bare, Openings[k], 1))

Pushed(state, fragment) ==
  LET s == state.reserve \o fragment
      bare == [state EXCEPT !.reserve = <<>>]
  IN  CASE state.inside = "unsure" -> Decides(bare, s)
        [] state.inside = "inside" -> Inside(bare, s)
        [] state.inside = "after" -> Emits(bare, "answer", s)

-----------------------------------------------------------------------------
(* The loop of engendrer: whatever fragments the model is cut into. *)

Fragment(n) ==
  /\ sent + n <= Len(text)
  /\ LET step == Pushed(flux, SubSeq(text, sent + 1, sent + n))
     IN  /\ flux' = step.flux
         /\ draft' = draft \o step.out.draft
         /\ reply' = reply \o step.out.answer
  /\ sent' = sent + n
  /\ UNCHANGED <<text, over>>

(* vider: nothing that was held is lost. *)
Empty ==
  /\ sent = Len(text) /\ ~over
  /\ over' = TRUE
  /\ draft' = IF flux.inside = "inside" THEN draft \o flux.reserve ELSE draft
  /\ reply' = IF flux.inside = "inside" THEN reply ELSE reply \o flux.reserve
  /\ flux' = [flux EXCEPT !.reserve = <<>>]
  /\ UNCHANGED <<text, sent>>

StreamsNext == Empty \/ \E n \in 1..Len(text) : Fragment(n)

-----------------------------------------------------------------------------
(* The result of a job, and the draft it leaves out. *)
Result == LET split == Split(Trimmed(text)) IN [split EXCEPT !.answer = Cut(@)]

Opens(s) == {k \in DOMAIN Openings : IsPrefix(Openings[k], LStrip(s))}
Closed(s) == {k \in DOMAIN Closings : Finds(s, Closings[k]) # {}}

(* Who watches a text reads what its result will say, however it was cut:   *)
(* when it opens with a draft and closes it, with one convention, the draft *)
(* never reaches the channel of the answer, nor the answer that of the      *)
(* draft, and both are those of the result but for blanks and marks of end; *)
(* when it is neither opened nor closed all of it is the answer. And at no  *)
(* moment is anything shown out of order or twice.                          *)
StreamIsSplit ==
  /\ over /\ Opens(text) # {} /\ Closed(text) = Opens(text) =>
       /\ Strip(draft) = Split(Trimmed(text)).draft
       /\ Cut(Trimmed(reply)) = Result.answer
  /\ over /\ Opens(text) = {} => reply = text /\ draft = <<>>
  /\ over /\ Opens(text) # {} /\ Closed(text) = {} =>
       /\ reply = <<>>
       /\ \E k \in Opens(text) : Openings[k] \o draft = LStrip(text)
  /\ Len(draft) + Len(reply) + Len(flux.reserve) <= sent

(* "L'ouverture est facultative": what has only its closing is split too.   *)
OpeningOptional ==
  over /\ Closed(text) # {} => Cut(Trimmed(reply)) = Result.answer
=============================================================================
