------------------------------ MODULE Forecast ------------------------------
(***************************************************************************)
(* The forecasting adapter (workers/chronos_forecast.py) around its model: *)
(* which history the model is shown, which levels it is asked, under which *)
(* names its answer is published, and what is refused.                     *)
(*                                                                         *)
(* A request holds                                                         *)
(*   csv      of each series and time: "none", one row with a "value", one *)
(*            that is "blank", or two rows: "twice"                        *)
(*   freq     the step that is imposed, or 0                               *)
(*   context  the setting `contexte`, of each layer (input, parameters,    *)
(*            defaults of the variant), or Absent                          *)
(*   levels   the quantiles, a sequence, or Absent                         *)
(*   columns  the order of the columns the library answers                 *)
(*   named    whether it names each after its level                        *)
(*   future   how many rows of covariates for each series, or Absent       *)
(* A level is a whole number of 1/One; times are whole numbers.            *)
(***************************************************************************)
EXTENDS Input, Integers, Sequences, SequencesExt, FiniteSetsExt

CONSTANTS
  Series, Times,
  One,                  \* the level 1
  Horizon,
  ContextMin, ContextMax,
  Usual,                \* the levels of a request that names none
  Forecasts             \* the requests to consider

ASSUME ForecastAssumption == Times \subseteq Nat /\ One % 1000000 = 0

VARIABLES
  forecast,   \* the request
  published   \* what its job published, or Unsaid

forecastVars == <<forecast, published>>

ForecastInit == forecast \in Forecasts /\ published = Unsaid

-----------------------------------------------------------------------------
(* Settings. *)

(* _entier: refused outside of the bounds of the contract. *)
Context(r) == Setting(r.context, ContextMax)
ContextAllowed(r) == Context(r) \in ContextMin..ContextMax

Asked(r) == IF r.levels = Unsaid THEN Usual ELSE r.levels

Lowest == One \div 100
Highest == One - Lowest

(* Mutant: the library is left to clip. *)
Unclipped(q) == q
Clip(q) == Max({Lowest, Min({q, Highest})})

(* ecreter_quantiles: clipped, once each, ascending; what was changed is   *)
(* said.                                                                   *)
Levels(r) == SetToSortSeq({Clip(q) : q \in ToSet(Asked(r))}, <)

Warnings(r) ==
  {w \in {"clipped", "doubled"} :
     \/ w = "clipped" /\ \E q \in ToSet(Asked(r)) : q \notin Lowest..Highest
     \/ w = "doubled" /\ Len(Levels(r)) < Len(Asked(r))}

(* nom_niveau: six significant digits. *)
Label(q) ==
  LET digit == IF 10 * q < One THEN One \div 10000000 ELSE One \div 1000000
  IN  IF digit = 0 THEN q ELSE ((2 * q + digit) \div (2 * digit)) * digit

-----------------------------------------------------------------------------
(* The history. *)

Rows(r, s) == {t \in Times : r.csv[s][t] # "none"}
Present(r) == {s \in Series : Rows(r, s) # {}}
Twice(r) == {x \in Series \X Times : r.csv[x[1]][x[2]] = "twice"}

(* How often a gap separates two rows of a series. *)
GapCount(r, gap) ==
  IF gap = 0 THEN Cardinality(Twice(r))
  ELSE Cardinality({x \in Series \X Times :
         /\ {x[2], x[2] + gap} \subseteq Rows(r, x[1])
         /\ \A t \in Rows(r, x[1]) : t <= x[2] \/ t >= x[2] + gap})

Gaps(r) == {g \in 0..Max(Times) : GapCount(r, g) > 0}

(* _offset: the step imposed, or else the most frequent gap, the smallest   *)
(* of equals; 0 without any.                                               *)
Step(r) ==
  IF r.freq # 0 \/ Gaps(r) = {} THEN r.freq
  ELSE Min({g \in Gaps(r) : \A h \in Gaps(r) : GapCount(r, h) <= GapCount(r, g)})

(* Mutant: the step is handed to the library with the rows as they are. *)
GridOfRows(r, s) == Rows(r, s)

Grid(r, s) ==
  {t \in Min(Rows(r, s))..Max(Rows(r, s)) : (t - Min(Rows(r, s))) % Step(r) = 0}

Known(r, s, t) == IF t \in Times /\ r.csv[s][t] = "value" THEN <<s, t>> ELSE Unsaid

(* _regulariser: a step that is none, a row off the grid of its series, two *)
(* rows of one time, a column without a number are refused.                *)
Regular(r) ==
  /\ \E x \in Series \X Times : r.csv[x[1]][x[2]] \in {"value", "twice"}
  /\ Step(r) > 0 /\ Twice(r) = {}
  /\ \A s \in Present(r) : Rows(r, s) \subseteq Grid(r, s)

Holes(r) == MapThenSumSet(LAMBDA s : Cardinality(Grid(r, s) \ Rows(r, s)), Present(r))

(* _tronquer: the last steps of each series. *)
Window(r, s) ==
  {t \in Grid(r, s) : Cardinality({u \in Grid(r, s) : u >= t}) <= Context(r)}

Shown(r) == [s \in Present(r) |-> [t \in Window(r, s) |-> Known(r, s, t)]]
ContextUsed(r) == Max({Cardinality(DOMAIN Shown(r)[s]) : s \in Present(r)})

(* _lire_covariables: as many rows as the horizon has steps, for as many    *)
(* series as the table names.                                              *)
FutureAllowed(r) ==
  \/ r.future = Unsaid
  \/ LET named == {s \in Series : r.future[s] > 0}
     IN  MapThenSumSet(LAMBDA s : r.future[s], named) = Horizon * Cardinality(named)

Accepted(r) ==
  ContextAllowed(r) /\ Asked(r) # <<>> /\ Regular(r) /\ FutureAllowed(r)

-----------------------------------------------------------------------------
(* The answer. *)

(* predict_df: a column for each level it was asked, its name and the level *)
(* it was computed for.                                                    *)
Predicted(r) ==
  [i \in DOMAIN Levels(r) |->
     LET q == Levels(r)[r.columns[i]]
     IN  [name |-> IF r.named THEN q ELSE Unsaid, level |-> Max({Lowest, Min({q, Highest})})]]

(* Mutant: the columns are taken in the order they come. *)
ColumnByRank(r, i) == Predicted(r)[i]

(* colonnes_quantiles: by its name, or else by its rank. *)
Column(r, i) ==
  LET named == {k \in DOMAIN Levels(r) : Predicted(r)[k].name = Levels(r)[i]}
  IN  Predicted(r)[IF named = {} THEN i ELSE Min(named)]

(* _projeter: the columns that are published, each under the label of the  *)
(* level that was asked.                                                   *)
Published(r) ==
  [i \in DOMAIN Levels(r) |-> [label |-> Label(Levels(r)[i]), level |-> Column(r, i).level]]

(* _document: a label that two columns share reads as the names of the two. *)
Told(r, label) ==
  LET under == {i \in DOMAIN Levels(r) : Published(r)[i].label = label}
  IN  IF Cardinality(under) = 1 THEN [of |-> Published(r)[Min(under)].level, is |-> "forecast"]
      ELSE [of |-> label, is |-> "label"]

(* infer: refused, or what the model was shown, what is said of it, and    *)
(* each column under its label.                                            *)
Infer ==
  LET r == forecast
  IN  /\ published = Unsaid
      /\ published' =
           IF ~Accepted(r) THEN [ok |-> FALSE]
           ELSE [ok       |-> TRUE,
                 shown    |-> Shown(r),
                 length   |-> ContextUsed(r),
                 holes    |-> Holes(r),
                 warnings |-> Warnings(r),
                 columns  |-> Published(r),
                 told     |-> [i \in DOMAIN Levels(r) |-> Told(r, Label(Levels(r)[i])).is]]
      /\ UNCHANGED forecast

-----------------------------------------------------------------------------
(* A forecast is drawn from the history as it was, and called by its name.  *)
(* Each series is shown to the model step by step up to its last row, every *)
(* value at its own time, no gap closed, nothing unknown made known; the    *)
(* holes and the length are those announced. Each column is the forecast of *)
(* the level it is named after, in ascending order, and whatever of the     *)
(* request was changed is said. The library may order its columns as it     *)
(* likes, if it names them.                                                 *)
ForecastHonest ==
  published # Unsaid /\ published.ok =>
    LET r == forecast
        columns == published.columns
        n == DOMAIN columns
        apart == \A i, k \in n : i # k => columns[i].label # columns[k].label
        ordered == r.named \/ \A i \in n : r.columns[i] = i
    IN  /\ \A s \in Present(r) :
             LET shown == published.shown[s]
             IN  /\ \A t \in DOMAIN shown :
                      /\ t = Max(Rows(r, s)) \/ t + Step(r) \in DOMAIN shown
                      /\ shown[t] = Known(r, s, t)
                 /\ \A t \in Rows(r, s) : t > Min(DOMAIN shown) => t \in DOMAIN shown
                 /\ Cardinality(DOMAIN shown) <= published.length
                 /\ published.holes = 0 => DOMAIN shown \subseteq Rows(r, s)
        /\ ordered => \A i \in n :
             /\ columns[i].label = Label(columns[i].level)
             /\ apart => published.told[i] = "forecast"
        /\ \A i \in n : i > 1 => columns[i].label >= columns[i - 1].label
        /\ published.warnings = {} =>
             {Label(q) : q \in ToSet(Asked(r))} = {columns[i].label : i \in n}

(* The same of levels that six digits do not tell apart. *)
CloseLevelsToo ==
  published # Unsaid /\ published.ok => \A i \in DOMAIN published.told : published.told[i] = "forecast"
=============================================================================
