----------------------------- MODULE Assistant -----------------------------
(***************************************************************************)
(* The server an assistant talks to (packages/mcp: serveur.py, meta.py,    *)
(* catalogue.py, choix.py): the tools it declares, the catalogue it tells, *)
(* and the variant that serves a call.  The first is decided once, when it *)
(* starts, and the rest at every call: between two calls a human downloads *)
(* weights, takes some away, or edits the registry.                        *)
(*                                                                         *)
(* A situation holds                                                       *)
(*   contracts  [capability |-> whether it does something of a person]     *)
(*   variants   a sequence in the order of the registry: [ref, capability, *)
(*              incumbent, active, ready]                                  *)
(***************************************************************************)
EXTENDS Input, Naturals, Sequences, SequencesExt, FiniteSetsExt, Functions

CONSTANTS
  Situations,       \* what the registry and the disk may be
  Promised,     \* DOUZE
  Families,     \* FAMILLES: [name |-> its capabilities]
  ToolTexts,        \* the capabilities a tool is written for
  Capabilities  \* what an assistant may name, whether it exists or not

ASSUME AssistantAssumption ==
  /\ "all" \notin DOMAIN Families
  /\ \A w \in Situations : IsSequence(w.variants)

VARIABLES
  situation,
  opened,     \* the families of this session
  kept,       \* retenus: [capability |-> the variant that was ready at the start, or Unsaid]
  declared,   \* the tools the assistant was given, or Unsaid
  lines,      \* what the catalogue said of each, in this situation, or Unsaid
  serves,     \* the variant it said would serve, in this situation: [capability |-> ref]
  response      \* to the last call that would run something

assistantVars == <<situation, opened, kept, declared, lines, serves, response>>

-----------------------------------------------------------------------------
(* variants_de: the incumbent first, then what is active; the order of the *)
(* registry for the rest.                                                  *)
Rank(v) == (IF v.incumbent THEN 0 ELSE 2) + (IF v.active THEN 0 ELSE 1)
VariantsOf(w, c) == {i \in DOMAIN w.variants : w.variants[i].capability = c}
RanksBefore(w, i, k) ==
  \/ Rank(w.variants[i]) < Rank(w.variants[k])
  \/ Rank(w.variants[i]) = Rank(w.variants[k]) /\ i <= k

FirstServed(w, ranks) == CHOOSE i \in ranks : \A k \in ranks : RanksBefore(w, i, k)

(* Mutant: the first, whether or not it is ready. *)
ServesFirst(w, c) ==
  IF VariantsOf(w, c) = {} THEN Unsaid ELSE w.variants[FirstServed(w, VariantsOf(w, c))].ref
(* choisir: never one that is not ready. *)
Serves(w, c) ==
  LET ready == {i \in VariantsOf(w, c) : w.variants[i].ready}
  IN  IF ready = {} THEN Unsaid ELSE w.variants[FirstServed(w, ready)].ref

-----------------------------------------------------------------------------
(* outils_exposes: a list that is written, whatever the contracts say. *)
Exposed(families) ==
  ToolTexts \cap (IF "all" \in families THEN ToolTexts ELSE Promised \cup UNION {Families[f] : f \in families})

(* capacites_ouvertes: by what the contracts say. *)
Open(w, families) ==
  IF "all" \in families THEN DOMAIN w.contracts
  ELSE {c \in DOMAIN w.contracts : w.contracts[c] => c \in UNION {Families[f] : f \in families}}

(* Mutant: the first family there is. *)
AnyFamily(c) == CHOOSE f \in DOMAIN Families : TRUE
(* famille_de, or all. *)
FamilyOf(c) ==
  IF \E f \in DOMAIN Families : c \in Families[f]
  THEN CHOOSE f \in DOMAIN Families : c \in Families[f] ELSE "all"

-----------------------------------------------------------------------------
NoReply == [call |-> Unsaid]

(* Serveur.__init__ *)
Started(w, families) == [c \in Exposed(families) |-> Serves(w, c)]

StartOptions == {{f} : f \in DOMAIN Families} \cup {{}, {"all"}, DOMAIN Families}

AssistantInit ==
  /\ situation \in Situations /\ opened \in StartOptions
  /\ kept = Started(situation, opened)
  /\ declared = Unsaid /\ lines = Unsaid /\ serves = <<>> /\ response = NoReply

(* The human: the disk or the registry is no longer what was told. *)
Change ==
  /\ situation' \in Situations \ {situation}
  /\ lines' = Unsaid /\ serves' = <<>> /\ response' = NoReply
  /\ UNCHANGED <<opened, kept, declared>>

(* The human starts the server as a refusal says. *)
Restart ==
  /\ response # NoReply /\ response.what = "excluded"
  /\ opened' = {response.family}
  /\ kept' = Started(situation, opened')
  /\ declared' = Unsaid /\ lines' = Unsaid /\ serves' = <<>>
  /\ response' = NoReply
  /\ UNCHANGED situation

(* The assistant reads a response before it asks again; the server has     *)
(* forgotten it by then.                                                   *)
NothingSaid == response = NoReply
Hear ==
  /\ ~NothingSaid /\ response' = NoReply
  /\ UNCHANGED <<situation, opened, kept, declared, lines, serves>>

(* declarer *)
Declare ==
  /\ NothingSaid
  /\ declared' = {c \in DOMAIN kept : kept[c] # Unsaid /\ c \in DOMAIN situation.contracts}
  /\ UNCHANGED <<situation, opened, kept, lines, serves, response>>

(* catalogue_reponse *)
Line(c) ==
  [ready |-> Serves(situation, c) # Unsaid,
   tool |-> c \in DOMAIN kept /\ kept[c] # Unsaid,
   excluded |-> c \notin Open(situation, opened)]

List(readyOnly) ==
  /\ NothingSaid
  /\ lines' = [c \in {x \in DOMAIN situation.contracts : readyOnly => Serves(situation, x) # Unsaid} |-> Line(c)]
  /\ UNCHANGED <<situation, opened, kept, declared, serves, response>>

(* _detail *)
Detail(c) ==
  /\ NothingSaid
  /\ c \in DOMAIN situation.contracts /\ Serves(situation, c) # Unsaid
  /\ serves' = [x \in DOMAIN serves \cup {c} |-> IF x = c THEN Serves(situation, c) ELSE serves[x]]
  /\ UNCHANGED <<situation, opened, kept, declared, lines, response>>

(* executer_capacite: the variant is chosen again; _variant_nomme, when it *)
(* is imposed, has it serve this capability and ready.                     *)
Chosen(c, imposed) ==
  IF imposed = Unsaid THEN Serves(situation, c)
  ELSE IF \E i \in VariantsOf(situation, c) : situation.variants[i].ref = imposed /\ situation.variants[i].ready
  THEN imposed ELSE Unsaid

Execute(c, legal, imposed) ==
  IF c \notin DOMAIN situation.contracts THEN [what |-> "unknown", ref |-> Unsaid, family |-> Unsaid]
  ELSE IF ~legal THEN [what |-> "invalid", ref |-> Unsaid, family |-> Unsaid]
  ELSE IF Chosen(c, imposed) = Unsaid THEN [what |-> "not ready", ref |-> Unsaid, family |-> Unsaid]
  ELSE [what |-> "ran", ref |-> Chosen(c, imposed), family |-> Unsaid]

Responded(via, c, legal, imposed, a) ==
  response' = [call |-> c, via |-> via, legal |-> legal, imposed |-> imposed,
             what |-> a.what, ref |-> a.ref, family |-> a.family]

(* meta._run: the filter is that of the capability, whatever the door. *)
RunTool(c, legal, imposed) ==
  /\ NothingSaid
  /\ Responded("run", c, legal, imposed,
       IF c \in DOMAIN situation.contracts /\ c \notin Open(situation, opened)
       THEN [what |-> "excluded", ref |-> Unsaid, family |-> FamilyOf(c)]
       ELSE Execute(c, legal, imposed))
  /\ UNCHANGED <<situation, opened, kept, declared, lines, serves>>

(* appeler: a tool of its own, of those this session exposes. *)
Call(c, legal) ==
  /\ NothingSaid
  /\ Responded("tool", c, legal, Unsaid,
       IF c \in DOMAIN kept THEN Execute(c, legal, Unsaid)
       ELSE [what |-> "no tool", ref |-> Unsaid, family |-> Unsaid])
  /\ UNCHANGED <<situation, opened, kept, declared, lines, serves>>

RefsHere == {situation.variants[i].ref : i \in DOMAIN situation.variants}

AssistantNext ==
  \/ Change \/ Restart \/ Hear \/ Declare
  \/ \E readyOnly \in BOOLEAN : List(readyOnly)
  \/ \E c \in Capabilities :
       \/ Detail(c)
       \/ \E legal \in BOOLEAN : Call(c, legal) \/ \E r \in RefsHere \cup {Unsaid} : RunTool(c, legal, r)

AssistantSpec == AssistantInit /\ [][AssistantNext]_assistantVars

-----------------------------------------------------------------------------
(* A response is what the assistant was told to expect.  Of a capability the *)
(* catalogue says is excluded, nothing runs through ecurie_run; of one it    *)
(* says is ready and not, a legal call runs, by its tool if it is said to    *)
(* have one, and on the variant that was said to serve.  A tool that was     *)
(* declared is there.  A refusal is one the human can lift: the command it   *)
(* relays opens the capability.  And what runs is ready, serves what was     *)
(* asked, and passes over no incumbent that could have run.                  *)
PromisesKept ==
  response # NoReply =>
    LET c == response.call
        ran == response.what = "ran"
        said == lines # Unsaid /\ c \in DOMAIN lines
    IN  /\ response.via = "tool" /\ declared # Unsaid /\ c \in declared => response.what # "no tool"
        /\ said /\ response.via = "run" => (lines[c].excluded <=> response.what = "excluded")
        /\ said /\ response.legal /\ response.imposed = Unsaid /\ lines[c].ready =>
             /\ response.via = "run" /\ ~lines[c].excluded => ran
             /\ response.via = "tool" /\ lines[c].tool => ran
        /\ ran /\ response.imposed = Unsaid /\ c \in DOMAIN serves => response.ref = serves[c]
        /\ response.what = "excluded" => c \in Open(situation, {response.family})
        /\ ran =>
             /\ response.legal
             /\ response.imposed \in {Unsaid, response.ref}
             /\ \E i \in VariantsOf(situation, c) :
                  /\ situation.variants[i].ref = response.ref /\ situation.variants[i].ready
                  /\ response.imposed = Unsaid /\ ~situation.variants[i].incumbent =>
                       \A k \in VariantsOf(situation, c) :
                         situation.variants[k].incumbent => ~situation.variants[k].ready

(* "Excluded by the field of the contract" (catalogue.py), whatever the    *)
(* door: the tools of a session are those of a list.                       *)
FieldExcludes ==
  response # NoReply /\ response.what = "ran" => response.call \in Open(situation, opened)

(* "Restarts the server with that family enabled" (meta._run): and with no *)
(* other.                                                                  *)
NothingCloses ==
  [][response # NoReply /\ response.what = "excluded" /\ opened' # opened => opened \subseteq opened']_assistantVars
=============================================================================
