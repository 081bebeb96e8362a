------------------------------ MODULE Catalog ------------------------------
(***************************************************************************)
(* The catalogue of models read from its files, one after the other        *)
(* (core: registry.py load_registry, capabilities.py load_capabilities):   *)
(* what is kept, and what is said of what is wrong.                        *)
(*                                                                         *)
(* A tree of files holds                                                   *)
(*   schema     whether the schema of manifests is there                   *)
(*   meta       the schema of contracts: "there", "absent", "illegible"    *)
(*   contracts  a sequence, by name of file: [stem, legible, formed: as    *)
(*              the schema of contracts wants, valid: its input and its    *)
(*              output are JSON Schemas, id, params: for each parameter    *)
(*              the values it accepts, composite, steps: the capabilities  *)
(*              it chains]                                                 *)
(*   manifests  a sequence, by name of file: [stem, legible, id,           *)
(*              capability, status, incumbent, variants: [id, kind, repo,  *)
(*              revision, extra, custom, entrypoint, defaults, options,    *)
(*              tier, env, profile]]                                       *)
(*   records    for each <<model, variant>> a sequence of measurements:    *)
(*              [legible, object: whether this JSON is an object, machine, *)
(*              peak, disk, harness]                                       *)
(*   envs       the environments that are described                        *)
(* A manifest is legible when it is YAML, within the schema and the types. *)
(***************************************************************************)
EXTENDS Input, Naturals, Sequences, SequencesExt, FiniteSetsExt, Functions

CONSTANTS
  Trees,        \* the trees of files to consider
  Zeros         \* a revision that only holds the place of one

ASSUME CatalogAssumption ==
  /\ Zeros # Unsaid
  /\ \A t \in Trees :
       /\ IsSequence(t.contracts) /\ IsSequence(t.manifests)
       /\ \A i \in DOMAIN t.manifests : t.manifests[i].legible => IsSequence(t.manifests[i].variants)
       /\ \A ref \in DOMAIN t.records : IsSequence(t.records[ref])

VARIABLES
  tree,
  contracts,    \* [capability |-> its contract]
  models,       \* [id |-> its manifest]
  issues,       \* what is wrong: [severity, at, what]
  reading       \* <<"contracts", i>>, <<"manifests", i>>, <<"done", 0>>; <<"raised", i>>

catalogVars == <<tree, contracts, models, issues, reading>>

Wrong(at, what) == [severity |-> "error", at |-> at, what |-> what]
Odd(at, what) == [severity |-> "warning", at |-> at, what |-> what]
Active(m, what) == IF m.status = "active" THEN Wrong(m.stem, what) ELSE Odd(m.stem, what)
When(condition, issue) == IF condition THEN {issue} ELSE {}

With(f, key, value) == [k \in DOMAIN f \cup {key} |-> IF k = key THEN value ELSE f[k]]

(* Without the schema of manifests nothing is read; without that of the     *)
(* contracts they are not compared with it.                                 *)
CatalogInit ==
  /\ tree \in Trees
  /\ contracts = <<>> /\ models = <<>>
  /\ issues = IF ~tree.schema THEN {Wrong("schema", "missing")}
              ELSE When(tree.meta = "absent", Odd("metaschema", "missing"))
                     \cup When(tree.meta = "illegible", Wrong("metaschema", "illegible"))
  /\ reading = IF tree.schema THEN <<"contracts", 1>> ELSE <<"done", 0>>

-----------------------------------------------------------------------------
(* load_capabilities. *)

FirstRead(known, id, c) == IF id \in DOMAIN known THEN known ELSE With(known, id, c)

ReadContract ==
  LET c == tree.contracts[reading[2]]
  IN  /\ reading[1] = "contracts" /\ reading[2] <= Len(tree.contracts)
      /\ reading' = [reading EXCEPT ![2] = @ + 1]
      /\ contracts' = IF c.legible THEN FirstRead(contracts, c.id, c) ELSE contracts
      /\ issues' = issues \cup
           IF ~c.legible THEN {Wrong(c.stem, "illegible")}
           ELSE When(tree.meta = "there" /\ ~c.formed, Wrong(c.stem, "malformed"))
                  \cup When(c.id # c.stem, Wrong(c.stem, "misnamed"))
                  \cup When(c.id \in DOMAIN contracts, Wrong(c.stem, "twice"))
                  \cup When(c.id \notin DOMAIN contracts /\ ~c.valid, Wrong(c.stem, "invalid"))
      /\ UNCHANGED <<tree, models>>

(* _check_composites *)
StepIssues(c) ==
  UNION {When(c.steps[i] \notin DOMAIN contracts, Wrong(c.id, "unknown step"))
           \cup When(c.steps[i] \in DOMAIN contracts /\ contracts[c.steps[i]].composite,
                     Wrong(c.id, "composite step")) : i \in DOMAIN c.steps}

Compose ==
  /\ reading = <<"contracts", Len(tree.contracts) + 1>>
  /\ reading' = <<"manifests", 1>>
  /\ issues' = issues \cup UNION {StepIssues(contracts[k]) : k \in DOMAIN contracts}
  /\ UNCHANGED <<tree, contracts, models>>

-----------------------------------------------------------------------------
(* _check_model. *)

(* check_variant_defaults: nothing is said against a contract that has no  *)
(* parameter.                                                              *)
DefaultIssues(m, c, v) ==
  IF c.params = <<>> THEN {}
  ELSE When(\E n \in DOMAIN v.defaults : n \notin DOMAIN c.params \/ v.defaults[n] \notin c.params[n],
            Wrong(m.stem, "default"))

(* check_variant_options *)
OptionIssues(m, c, v) == When(v.options \cap DOMAIN c.params # {}, Wrong(m.stem, "option"))

(* measurement_records: the places of those that are read. *)
Measured(ref) ==
  IF ref \in DOMAIN tree.records
  THEN {i \in DOMAIN tree.records[ref] : tree.records[ref][i].legible} ELSE {}
Illegible(ref) ==
  ref \in DOMAIN tree.records /\ \E i \in DOMAIN tree.records[ref] : ~tree.records[ref][i].legible

(* _accorde *)
Agrees(p, r) == r.peak \in {Unsaid, p.peak} /\ r.disk \in {Unsaid, p.disk}

(* Mutant: the measurements of other machines answer for this one. *)
AnyRecord(p, records, legible) == When(\A i \in legible : ~Agrees(p, records[i]), "diverges")
(* _compare_exact, against the first measurement of its own machine; or    *)
(* any that agrees.                                                        *)
Comparison(p, records, legible) ==
  LET own == {i \in legible : records[i].machine = p.machine}
      r == records[Min(own)]
  IN  IF own = {} THEN When(\A i \in legible : ~Agrees(p, records[i]), "diverges")
      ELSE When(~Agrees(p, r), "diverges")
             \cup When(Unsaid \notin {p.harness, r.harness} /\ p.harness # r.harness, "harness")

(* _check_profile *)
ProfileIssues(m, v) ==
  LET ref == <<m.id, v.id>>
  IN  When(Illegible(ref), Wrong(m.stem, "illegible record")) \cup
      IF Measured(ref) = {} THEN {Odd(m.stem, "unmeasured")}
      ELSE {Odd(m.stem, x) : x \in Comparison(v.profile, tree.records[ref], Measured(ref))}

(* Mutant: only what is active is pinned. *)
PinnedIfActive(m, v) == When(v.revision = Zeros, Active(m, "not pinned"))
RevisionIssues(m, v) ==
  IF v.revision = Zeros THEN {Active(m, "not pinned")}
  ELSE When(v.kind = "huggingface" /\ v.revision = Unsaid, Wrong(m.stem, "no revision"))

VariantIssues(m, i) ==
  LET v == m.variants[i]
      known == m.capability \in DOMAIN contracts
      c == contracts[m.capability]
  IN  When(\E k \in 1..(i - 1) : m.variants[k].id = v.id, Wrong(m.stem, "variant twice"))
      \cup RevisionIssues(m, v)
      \cup When(v.kind = "huggingface" /\ v.repo = Unsaid, Wrong(m.stem, "no repository"))
      \cup When(v.custom /\ ~v.entrypoint, Active(m, "no entry point"))
      \cup (IF known THEN DefaultIssues(m, c, v) \cup OptionIssues(m, c, v) ELSE {})
      \cup (IF v.profile # Unsaid THEN ProfileIssues(m, v) ELSE {})
      \cup When(v.tier # "absent" /\ v.env \notin tree.envs, Odd(m.stem, "no environment"))

ModelIssues(m) ==
  When(m.capability \notin DOMAIN contracts, Wrong(m.stem, "no contract"))
    \cup When(m.capability \in DOMAIN contracts /\ contracts[m.capability].composite,
              Wrong(m.stem, "composite"))
    \cup When(m.incumbent /\ m.status # "active", Odd(m.stem, "incumbent not active"))
    \cup UNION {VariantIssues(m, i) : i \in DOMAIN m.variants}

(* The comparison of a profile with a record that is JSON and no object.    *)
CannotCompare(m) ==
  \E i \in DOMAIN m.variants :
    LET ref == <<m.id, m.variants[i].id>>
    IN  m.variants[i].profile # Unsaid /\ \E n \in Measured(ref) : ~tree.records[ref][n].object

(* It raises, out of load_registry, which returns nothing.                  *)
RaiseOnRecord ==
  LET m == tree.manifests[reading[2]]
  IN  /\ reading[1] = "manifests" /\ reading[2] <= Len(tree.manifests)
      /\ m.legible /\ m.id \notin DOMAIN models /\ CannotCompare(m)
      /\ reading' = [reading EXCEPT ![1] = "raised"]
      /\ UNCHANGED <<tree, contracts, models, issues>>

ReadManifest ==
  LET m == tree.manifests[reading[2]]
  IN  /\ reading[1] = "manifests" /\ reading[2] <= Len(tree.manifests)
      /\ m.legible /\ m.id \notin DOMAIN models => ~CannotCompare(m)
      /\ reading' = [reading EXCEPT ![2] = @ + 1]
      /\ IF ~m.legible
         THEN issues' = issues \cup {Wrong(m.stem, "illegible")} /\ UNCHANGED models
         ELSE IF m.id \in DOMAIN models
         THEN /\ issues' = issues \cup {Wrong(m.stem, "twice")} \cup
                             When(m.stem # m.id, Odd(m.stem, "misnamed"))
              /\ UNCHANGED models
         ELSE /\ models' = With(models, m.id, m)
              /\ issues' = issues \cup ModelIssues(m) \cup When(m.stem # m.id, Odd(m.stem, "misnamed"))
      /\ UNCHANGED <<tree, contracts>>

-----------------------------------------------------------------------------
(* _check_shared_repos: by the main source of each variant. *)
Sources ==
  UNION {{[repo |-> models[k].variants[i].repo, revision |-> models[k].variants[i].revision,
           ref |-> <<k, models[k].variants[i].id>>] :
            i \in {n \in DOMAIN models[k].variants :
                     models[k].variants[n].kind = "huggingface" /\ models[k].variants[n].repo # Unsaid}} :
         k \in DOMAIN models}

(* Mutant: only the variants of a same model are compared. *)
SharedWithin(x, y) == x.repo = y.repo /\ x.ref[1] = y.ref[1]
Shared(x, y) == x.repo = y.repo
SharedIssues ==
  UNION {When(Shared(x[1], x[2]) /\ x[1].revision # x[2].revision, Odd(x[1].repo, "several revisions")) :
           x \in Sources \X Sources}

(* _check_incumbents *)
Holders(capability) == {k \in DOMAIN models : models[k].incumbent /\ models[k].capability = capability}
IncumbentIssues ==
  UNION {When(Cardinality(Holders(models[k].capability)) > 1,
              Wrong(models[k].capability, "several incumbents")) : k \in DOMAIN models}

FinishReading ==
  /\ reading = <<"manifests", Len(tree.manifests) + 1>>
  /\ reading' = <<"done", 0>>
  /\ issues' = issues \cup SharedIssues \cup IncumbentIssues
  /\ UNCHANGED <<tree, contracts, models>>

CatalogNext == ReadContract \/ Compose \/ ReadManifest \/ RaiseOnRecord \/ FinishReading

CatalogSpec == CatalogInit /\ [][CatalogNext]_catalogVars

-----------------------------------------------------------------------------
Errors == {i \in issues : i.severity = "error"}

AllVariants == UNION {{<<k, i>> : i \in DOMAIN models[k].variants} : k \in DOMAIN models}

(* A catalogue without an error is one that the rest of the program can     *)
(* rely on: no contract and no manifest is left out, a contract is formed   *)
(* as the schema of contracts, where it is there, wants and chains known    *)
(* capabilities that chain none; the capability of each model is known and  *)
(* runs, and has at most one incumbent; a reference names one variant; a    *)
(* variant of Hugging Face names its repository and its revision, which     *)
(* holds no place of another where the model is active; no default is lost  *)
(* on the way to a worker, and no option hides a parameter.  Without a      *)
(* warning either, a main repository is at one revision, a profile is not   *)
(* that of no measurement, and what is on a disk has an environment.        *)
CatalogSound ==
  reading[1] = "done" /\ Errors = {} =>
    /\ {tree.manifests[i] : i \in DOMAIN tree.manifests} = {models[k] : k \in DOMAIN models}
    /\ {tree.contracts[i] : i \in DOMAIN tree.contracts} = {contracts[k] : k \in DOMAIN contracts}
    /\ \A k \in DOMAIN contracts : contracts[k].valid /\ (tree.meta = "there" => contracts[k].formed)
    /\ \A k \in DOMAIN contracts : \A i \in DOMAIN contracts[k].steps :
         LET step == contracts[k].steps[i] IN step \in DOMAIN contracts /\ ~contracts[step].composite
    /\ \A k, n \in DOMAIN models :
         models[k].incumbent /\ models[n].incumbent /\ models[k].capability = models[n].capability => k = n
    /\ \A x \in AllVariants :
         LET m == models[x[1]]
             v == m.variants[x[2]]
             c == contracts[m.capability]
         IN  /\ m.capability \in DOMAIN contracts /\ ~c.composite
             /\ \A i \in DOMAIN m.variants : m.variants[i].id = v.id => i = x[2]
             /\ v.kind = "huggingface" => v.repo # Unsaid /\ v.revision # Unsaid
             /\ m.status = "active" => v.revision # Zeros /\ (v.custom => v.entrypoint)
             /\ c.params # <<>> => DOMAIN v.defaults \subseteq DOMAIN c.params
             /\ \A n \in DOMAIN v.defaults : n \in DOMAIN c.params => v.defaults[n] \in c.params[n]
             /\ v.options \cap DOMAIN c.params = {}
             /\ issues = {} =>
                  /\ v.profile # Unsaid =>
                       LET records == tree.records[<<m.id, v.id>>]
                           legible == Measured(<<m.id, v.id>>)
                           own == {i \in legible : records[i].machine = v.profile.machine}
                       IN  \E i \in IF own = {} THEN legible ELSE own : Agrees(v.profile, records[i])
                  /\ \A y \in AllVariants :
                       LET w == models[y[1]].variants[y[2]]
                       IN  v.kind = "huggingface" /\ w.kind = "huggingface" /\ v.repo = w.repo
                             => v.revision = w.revision
                  /\ v.tier # "absent" => v.env \in tree.envs

(* "Three places that must see the same list" (Variant.sources): here, the  *)
(* sources beside the main one are not looked at.                           *)
ExtrasPinned ==
  reading[1] = "done" /\ issues = {} => \A x \in AllVariants : \A s \in models[x[1]].variants[x[2]].extra :
    \A y \in AllVariants :
      LET w == models[y[1]].variants[y[2]] IN s.repo = w.repo => s.revision = w.revision

(* "What is refused is a profile that corresponds to no measurement"        *)
(* (_check_profile): a record whose figures are missing agrees with any.    *)
ProfileIsACopy ==
  reading[1] = "done" /\ issues = {} => \A x \in AllVariants :
    LET v == models[x[1]].variants[x[2]]
    IN  v.profile # Unsaid => \E i \in Measured(<<x[1], v.id>>) :
          LET r == tree.records[<<x[1], v.id>>][i] IN r.peak = v.profile.peak /\ r.disk = v.profile.disk

(* "A corrupt file is reported without making its neighbours disappear"     *)
(* (measurement_records): one that is JSON and no object raises, and there  *)
(* is no catalogue at all.                                                  *)
CorruptIsTold == reading[1] # "raised"
=============================================================================
