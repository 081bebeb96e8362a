------------------------------ MODULE Workshop ------------------------------
(***************************************************************************)
(* The screen where a job is composed (Atelier.tsx): the panel that offers *)
(* the capabilities, the chosen one, its variants and the form, the price  *)
(* of the job, the band that tells the memory.  Four kinds of answers come *)
(* back while the user goes on choosing: the models of a capability, a     *)
(* price, a poll of the residents, the path of a deposited file.  A field   *)
(* of the form may open the panel that films, which Capture models.        *)
(***************************************************************************)
EXTENDS Capture, SequencesExt, FiniteSetsExt

CONSTANTS
  Contracts,   \* the capabilities, in the order the server lists them
  ModelsFor,   \* [capability -> the models the server answers, in order]
  ModelOf,     \* [variant -> its model, which its name tells]
  DefaultsOf,  \* [variant -> the fields its manifest sets]
  Filed,       \* [capability -> the family the panel files it under]
  Families,    \* the families, in the order of the panel; "divers" is the last
  Chips,       \* the modalities a filter may ask for
  Searches,    \* [a word typed in the panel -> the capabilities it matches]
  Parks,       \* what a poll may answer: budget, peaks, what the variant costs
  NoRef,       \* nothing is chosen, nothing was answered
  MaxAsked     \* bound of the model: prices and deposits under way

VariantsIn(list) == FlattenSeq([i \in DOMAIN list |-> list[i].variants])

ASSUME WorkshopAssumption ==
  /\ Contracts \in Seq(Range(Contracts))
  /\ \A i, k \in DOMAIN Contracts : Contracts[i].id = Contracts[k].id => i = k
  /\ \A i \in DOMAIN Contracts : Contracts[i].id \in DOMAIN ModelsFor
  /\ \A c, d \in DOMAIN ModelsFor :
       c # d => Range(VariantsIn(ModelsFor[c])) \cap Range(VariantsIn(ModelsFor[d])) = {}
  /\ Families \in Seq(Range(Families)) /\ Range(Filed) \cup {"divers"} \subseteq Range(Families)
  /\ \A w \in Parks : w.residents \in Seq(Nat) /\ w.budget \in Nat /\ w.demand \in Nat

VARIABLES
  cap, ref,    \* the capability and the variant on the screen
  form,        \* [field -> the capability or variant that set it, or "typed"]
  models,      \* the capability whose models were read last
  loading,     \* the capability whose models are asked
  price,       \* the answer to `Chiffrer ce job`, or NoRef
  asking,      \* the questions of price under way
  deposits,    \* the fields whose file is being deposited
  poll,        \* the question of the band: "asleep", "asked" of a variant, "resting"
  park,        \* its last answer
  panel        \* the panel of the capabilities, its search and filters

deskVars == <<cap, ref, form, models, loading, price, asking, deposits, poll, park, panel>>

ClosedPanel == [open |-> FALSE, word |-> "", takes |-> {}, gives |-> {}]
Caps == {Contracts[i].id : i \in DOMAIN Contracts}
Contract(c) == Contracts[CHOOSE i \in DOMAIN Contracts : Contracts[i].id = c]
Declared(c) == DOMAIN Contract(c).input

DeskInit ==
  /\ cap = NoRef /\ ref = NoRef /\ form = <<>>
  /\ models = NoRef /\ loading = NoRef
  /\ price = NoRef /\ asking = {} /\ deposits = {}
  /\ poll = [at |-> "asked", of |-> NoRef] /\ park = NoRef
  /\ panel = ClosedPanel

-----------------------------------------------------------------------------
(* What is chosen.                                                         *)

(* Mutant: the models read last, whatever capability they are of. *)
ListedAll(c, m) == IF m = NoRef THEN <<>> ELSE VariantsIn(ModelsFor[m])

(* The models read last may be those of the capability left behind. *)
Listed(c, m) == IF m = NoRef \/ m # c THEN <<>> ELSE VariantsIn(ModelsFor[m])

(* initialValues: the contract sets a value, the variant corrects it where *)
(* the contract declares the field.                                        *)
InitialValues(c, r) ==
  LET corrected == IF r = NoRef THEN {} ELSE DefaultsOf[r] \cap Declared(c)
  IN  [f \in Contract(c).defaults \cup corrected |-> IF f \in corrected THEN r ELSE c]

(* variantParDefaut: a variant of the incumbent, or the first that is ready. *)
DefaultVariant(c) ==
  LET ready == Contract(c).ready
      his == {i \in DOMAIN ready : ModelOf[ready[i]] = Contract(c).incumbent}
  IN  IF ready = <<>> THEN NoRef ELSE ready[IF his = {} THEN 1 ELSE Min(his)]

(* The effect of preselection follows every change of what it depends on:  *)
(* c, r and d are the capability, the variant and the form that were posed. *)
Settle(c, r, d, m) ==
  LET default == IF c = NoRef THEN NoRef ELSE DefaultVariant(c)
      ripe == c # NoRef /\ r = NoRef /\ default # NoRef /\ default \in Range(Listed(c, m))
  IN  /\ cap' = c
      /\ models' = m
      /\ ref' = IF ripe THEN default ELSE r
      /\ form' = IF ripe THEN InitialValues(c, default) ELSE d

Asleep == [at |-> "asleep", of |-> NoRef]
Resting == [at |-> "resting", of |-> NoRef]
Asked(r) == [at |-> "asked", of |-> r]

(* Mutant: a question under way outlives the variant it is about. *)
PollKept(changed) == UNCHANGED poll

(* The effect of the poll starts again with every change of the variant,   *)
(* be it to come back to the same.                                         *)
Restart(changed) ==
  poll' = IF poll # Asleep /\ (changed \/ ref' # ref) THEN Asked(ref') ELSE poll

ChooseCapability(c) ==
  /\ panel.open
  /\ Settle(c, NoRef, <<>>, models)
  /\ Restart(ref # NoRef)
  /\ price' = NoRef
  /\ loading' = IF c # cap THEN c ELSE loading
  /\ panel' = ClosedPanel
  /\ UNCHANGED <<asking, deposits, park>>

PickVariant(r) ==
  /\ cap # NoRef /\ r # ref
  /\ Settle(cap, r, InitialValues(cap, r), models)
  /\ Restart(TRUE)
  /\ price' = NoRef
  /\ UNCHANGED <<loading, asking, deposits, park, panel>>

(* useResource: only the answer to the latest question is read; a refusal  *)
(* leaves the former models in place.                                      *)
ModelsArrive ==
  /\ loading # NoRef /\ loading' = NoRef
  /\ Settle(cap, ref, form, loading)
  /\ Restart(FALSE)
  /\ UNCHANGED <<price, asking, deposits, park, panel>>
ModelsFail ==
  /\ loading # NoRef /\ loading' = NoRef
  /\ UNCHANGED <<cap, ref, form, models, price, asking, deposits, poll, park, panel>>

-----------------------------------------------------------------------------
(* What is filled in, and what it costs.                                   *)

Typed(f) == [g \in DOMAIN form \cup {f} |-> IF g = f THEN "typed" ELSE form[g]]

Type(f) ==
  /\ cap # NoRef /\ f \in Declared(cap)
  /\ form' = Typed(f)
  /\ UNCHANGED <<cap, ref, models, loading, price, asking, deposits, poll, park, panel>>

(* FilePathWidget: the path comes back to the field that asked, which may  *)
(* have left the screen; what the library of forms does of it then is its  *)
(* affair.                                                                 *)
Deposit(f) ==
  /\ cap # NoRef /\ f \in Declared(cap) \ deposits
  /\ Cardinality(asking) + Cardinality(deposits) < MaxAsked
  /\ deposits' = deposits \cup {f}
  /\ UNCHANGED <<cap, ref, form, models, loading, price, asking, poll, park, panel>>
Deposited(f) ==
  /\ f \in deposits /\ deposits' = deposits \ {f}
  /\ form' \in {form, Typed(f)}
  /\ UNCHANGED <<cap, ref, models, loading, price, asking, poll, park, panel>>

(* Mutant: all that the form holds. *)
Whole(c, d) == d

(* toContractInput: what would leave, of the fields the contract declares. *)
Projected(c, d) == [f \in DOMAIN d \cap Declared(c) |-> d[f]]

AskPrice ==
  /\ cap # NoRef /\ ref # NoRef
  /\ Cardinality(asking) + Cardinality(deposits) < MaxAsked
  /\ asking' = asking \cup {[ref |-> ref, input |-> Projected(cap, form)]}
  /\ UNCHANGED <<cap, ref, form, models, loading, price, deposits, poll, park, panel>>
PriceArrives(q) ==
  /\ q \in asking /\ asking' = asking \ {q}
  /\ price' = q
  /\ UNCHANGED <<cap, ref, form, models, loading, deposits, poll, park, panel>>

(* Mutant: the last answer, whatever variant it is of. *)
PriceOfAny == price

PriceShown == IF price # NoRef /\ price.ref = ref THEN price ELSE NoRef

-----------------------------------------------------------------------------
(* useSondage: a question at a time, none while the page is hidden; the    *)
(* question names the variant of its moment, and dies with it.             *)

Polled(w) ==
  /\ poll.at = "asked" /\ poll' = Resting
  /\ park' = [of |-> poll.of, residents |-> w.residents, budget |-> w.budget, demand |-> w.demand]
  /\ UNCHANGED <<cap, ref, form, models, loading, price, asking, deposits, panel>>
Ask(from, to) ==
  /\ from /\ poll' = to
  /\ UNCHANGED <<cap, ref, form, models, loading, price, asking, deposits, park, panel>>
Unanswered == Ask(poll.at = "asked", Resting)
Timer == Ask(poll = Resting, Asked(ref))
Hide == Ask(poll # Asleep, Asleep)
Show == Ask(poll = Asleep, Asked(ref))

(* What the band says of the variant under composition. *)
Demand == IF park # NoRef /\ park.of = ref /\ ref # NoRef THEN park.demand ELSE 0

Summed(s) == MapThenSumSet(LAMBDA i : s[i], DOMAIN s)

(* Mutant: what comes is drawn beyond what is there, whatever the budget. *)
RailBeyond ==
  LET used == IF park = NoRef THEN 0 ELSE Summed(park.residents)
      scale == IF park = NoRef THEN 0 ELSE Max({park.budget, used})
  IN  [used |-> used, scale |-> scale, inside |-> Demand, outside |-> 0]

(* railDeMemoire: the residents, what comes and fits, what comes and does  *)
(* not, on a scale that grows when the budget is too short.                *)
Rail ==
  LET used == IF park = NoRef THEN 0 ELSE Summed(park.residents)
      budget == IF park = NoRef THEN 0 ELSE park.budget
      filled == Min({used + Demand, budget})
      inside == IF filled > used THEN filled - used ELSE 0
  IN  [used |-> used, scale |-> Max({budget, used + Demand}),
       inside |-> inside, outside |-> Demand - inside]

-----------------------------------------------------------------------------
(* The panel of the capabilities.                                          *)

(* modaliteDuMedia: the first of these that the types of a medium hold. *)
Media == <<"document", "image", "son", "video", "maillage", "donnees", "texte">>
ModalityOf(types) ==
  LET his == {i \in DOMAIN Media : Media[i] \in types}
  IN  IF his = {} THEN {} ELSE {Media[Min(his)]}

(* modaliteDuChamp: a list says it of its elements, a file without a type  *)
(* says nothing, a string is a text.                                       *)
FieldModality(f) ==
  IF f.types # {} THEN ModalityOf(f.types) ELSE IF f.type = "string" THEN {"texte"} ELSE {}
Takes(k) == UNION {FieldModality(k.input[f]) : f \in DOMAIN k.input}
Gives(k) == UNION {ModalityOf(k.output[o]) : o \in DOMAIN k.output}

(* Mutant: a capability that the table does not know is filed nowhere. *)
FiledOrNowhere(c) == IF c \in DOMAIN Filed THEN Filed[c] ELSE "nowhere"

CategoryOf(c) == IF c \in DOMAIN Filed THEN Filed[c] ELSE "divers"

Matches(k, p) ==
  /\ p.word # "" => k.id \in Searches[p.word]
  /\ p.takes # {} => p.takes \cap Takes(k) # {}
  /\ p.gives # {} => p.gives \cap Gives(k) # {}

Readiness(k) == IF k.ready # <<>> THEN 0 ELSE IF ModelsFor[k.id] = <<>> THEN 2 ELSE 1

(* sections: by family, what is ready first, in the order of the server. *)
SectionOf(k) == CHOOSE n \in DOMAIN Families : Families[n] = CategoryOf(k.id)

ComesBefore(i, j) ==
  LET a == Contracts[i]
      b == Contracts[j]
  IN  \/ SectionOf(a) < SectionOf(b)
      \/ SectionOf(a) = SectionOf(b) /\ Readiness(a) < Readiness(b)
      \/ SectionOf(a) = SectionOf(b) /\ Readiness(a) = Readiness(b) /\ i < j

Offered(p) ==
  LET kept == {i \in DOMAIN Contracts :
                 Matches(Contracts[i], p) /\ CategoryOf(Contracts[i].id) \in Range(Families)}
      order == CHOOSE s \in SetToSeqs(kept) :
                 \A n, m \in DOMAIN s : n < m => ComesBefore(s[n], s[m])
  IN  [n \in DOMAIN order |-> Contracts[order[n]]]

Toggled(set, x) == IF x \in set THEN set \ {x} ELSE set \cup {x}
SetPanel(p) ==
  /\ panel' = p
  /\ UNCHANGED <<cap, ref, form, models, loading, price, asking, deposits, poll, park>>
OpenPanel == ~panel.open /\ SetPanel([ClosedPanel EXCEPT !.open = TRUE])
ClosePanel == panel.open /\ SetPanel(ClosedPanel)
Search(word) == panel.open /\ panel.word # word /\ SetPanel([panel EXCEPT !.word = word])
Filter(side, x) == panel.open /\ SetPanel([panel EXCEPT ![side] = Toggled(@, x)])

Choose ==
  \/ OpenPanel \/ ClosePanel
  \/ \E k \in Range(Offered(panel)) : ChooseCapability(k.id)
Browse ==
  \/ \E word \in DOMAIN Searches \cup {""} : Search(word)
  \/ \E x \in Chips : Filter("takes", x) \/ Filter("gives", x)
Compose ==
  \/ \E r \in Range(Listed(cap, models)) \cup {NoRef} : PickVariant(r)
  \/ ModelsArrive \/ ModelsFail
  \/ \E k \in Range(Contracts) : \E f \in DOMAIN k.input : Type(f) \/ Deposit(f)
  \/ \E f \in deposits : Deposited(f)
  \/ AskPrice \/ \E q \in asking : PriceArrives(q)
  \/ \E w \in Parks : Polled(w)
  \/ Unanswered \/ Timer \/ Hide \/ Show
DeskNext == Choose \/ Browse \/ Compose

(* The screen, with the panel that films. *)
ScreenNext ==
  \/ DeskNext /\ UNCHANGED captureVars
  \/ CaptureNext /\ UNCHANGED deskVars
ScreenSpec == DeskInit /\ CaptureInit /\ [][ScreenNext]_<<deskVars, captureVars>>

-----------------------------------------------------------------------------
(* The variant is one of the capability. *)
VariantIsOfCapability == ref # NoRef => cap # NoRef /\ ref \in Range(VariantsIn(ModelsFor[cap]))

(* The form holds what the user typed or what this variant proposes. *)
FormIsOfVariant ==
  \A f \in DOMAIN form : form[f] # "typed" =>
    f \in DOMAIN InitialValues(cap, ref) /\ form[f] = InitialValues(cap, ref)[f]

(* The price shown and the memory asked for are its own. *)
PriceIsOfVariant == PriceShown # NoRef => DOMAIN PriceShown.input \subseteq Declared(cap)
PollIsOfVariant == poll.at = "asked" => poll.of = ref

(* What comes is drawn where the budget leaves room. *)
RailIsToScale ==
  /\ Rail.used + Rail.inside + Rail.outside <= Rail.scale
  /\ Rail.inside > 0 => Rail.used + Rail.inside <= park.budget
  /\ Rail.outside > 0 => Rail.scale > park.budget

(* The panel offers each capability that passes its filters, once. *)
PanelIsWhole ==
  LET offered == Offered(panel)
  IN  /\ Len(offered) = Cardinality(Range(offered))
      /\ Range(offered) = {k \in Range(Contracts) : Matches(k, panel)}

DeskIsOfOne ==
  /\ VariantIsOfCapability /\ FormIsOfVariant /\ PriceIsOfVariant /\ PollIsOfVariant
  /\ RailIsToScale /\ PanelIsWhole

(* What the screen shows at a time is of one variant, however late the     *)
(* answers, and the light of the camera is what the panel shows.           *)
ScreenIsTrue == DeskIsOfOne /\ LightHeld

(* A comment of Atelier.tsx ("pour ne jamais écraser une saisie en cours"): *)
(* the preselection takes nothing of what was typed.  It does when the user *)
(* types before the models come.                                            *)
TypingIsKept ==
  [][\A f \in DOMAIN form :
       form[f] = "typed" /\ cap' = cap /\ ~\E r \in Range(Listed(cap, models)) \cup {NoRef} : PickVariant(r)
       => f \in DOMAIN form' /\ form'[f] = "typed"]_deskVars

(* The price on the screen is of the input on the screen: it is not, for a  *)
(* price is kept while the user edits, and answers come in any order.       *)
PriceIsOfInput == PriceShown # NoRef => PriceShown.input = Projected(cap, form)

=============================================================================
