--------------------------- MODULE RecordsProofs ---------------------------
(***************************************************************************)
(* What jobs leave behind them can be trusted, and what is remembered of   *)
(* files is true of them: for any number of jobs, deposits, files,         *)
(* verifications and requests, and any number of faults and writings.  The *)
(* panel that films lights the camera only for what it shows.              *)
(***************************************************************************)
EXTENDS Archive, Caches, Workshop, PlanProofs

-----------------------------------------------------------------------------
(* The archive: what is resolved of the fields that are staged, and what   *)
(* the manifest, the table and the row say at each place of a job.         *)

Shas == (Sources \X Nat) \cup {NoFile}
Bundle == [name : Names, sha : Shas]
Resolved == [Fields -> Bundle \cup {NoFile}]
Manifest == [is : {"none", "torn", "whole"}, ok : BOOLEAN, resolved : Resolved \cup {NoFile}]
DepositState == [is : {"none", "writing", "whole", "refused", "gone", "torn"}, age : Nat]
Early == {"none", "open", "alter", "stage", "hash"}
Places == Early \cup {"infer", "check", "write", "record", "over", "lost"}

ArchiveTyped ==
  /\ version \in [Files -> Nat] /\ faults \in Nat
  /\ sas \in [Deposits -> DepositState]
  /\ place \in [Jobs -> Places]
  /\ given \in [Jobs -> [Fields -> Sources \cup {NoFile}]]
  /\ ranked \in [Jobs -> BOOLEAN] /\ todo \in [Jobs -> SUBSET Fields]
  /\ resolved \in [Jobs -> Resolved] /\ inputs \in [Jobs -> [Names -> Shas]]
  /\ outputs \in [Jobs -> SUBSET Outputs] /\ announced \in [Jobs -> (SUBSET Outputs) \cup {NoFile}]
  /\ manifest \in [Jobs -> Manifest]
  /\ rows \in [Jobs -> {"none", "done", "failed"}]
  /\ state \in [Jobs -> {"none", "running", "done", "failed"}]

(* The fields that are staged, each under a name of its own. *)
Staged(j) ==
  \A f \in Fields \ todo[j] :
    given[j][f] # NoFile /\ ~Clash(j) =>
      /\ resolved[j][f] \in Bundle /\ resolved[j][f].name = Target(j, f)
      /\ inputs[j][Target(j, f)] = resolved[j][f].sha

Staging(j) ==
  /\ place[j] = "hash" => todo[j] # {} /\ given[j][Current(j)] # NoFile
  /\ place[j] \notin Early \cup {"over", "lost"} => todo[j] = {}

(* The manifest tells what was resolved and how it ended; a worker was had *)
(* by whatever succeeded.                                                  *)
Inscribed(j) ==
  /\ manifest[j].is # "none" => place[j] \in {"write", "record", "over", "lost"}
  /\ manifest[j].is # "whole" => ~manifest[j].ok
  /\ manifest[j].is = "whole" => 
       /\ place[j] \in {"record", "over", "lost"}
       /\ todo[j] = {} /\ manifest[j].resolved = resolved[j] /\ manifest[j].ok = Ok(j)
  /\ place[j] = "record" => manifest[j].is = "whole"
  /\ place[j] = "infer" => j \in leased
  /\ place[j] \in {"check", "write"} \/ manifest[j].is = "whole" =>
       announced[j] = NoFile \/ j \in leased

Told(j) ==
  /\ place[j] = "none" => state[j] = "none"
  /\ rows[j] # "none" => place[j] = "over" /\ j \in leased /\ rows[j] = FromDisk(j)
  /\ place[j] = "over" =>
       /\ state[j] \in {"done", "failed"}
       /\ state[j] = "done" => FromDisk(j) = "done" /\ rows[j] = "done"
       /\ faults = 0 /\ manifest[j].is = "whole" =>
            FromDisk(j) = state[j] /\ (rows[j] # "none" <=> j \in leased)

JobOK(j) == Staged(j) /\ Staging(j) /\ Inscribed(j) /\ Told(j)

Expired == \A d \in Deposits : sas[d].is = "gone" => sas[d].age > Retention

ArchiveInv == ArchiveTyped /\ Expired /\ \A j \in Jobs : JobOK(j)

LEMMA SmallestNat ==
  ASSUME NEW S \in SUBSET Nat, S # {}
  PROVE  \E m \in S : \A n \in S : m <= n
<1> DEFINE R == OpToRel(<, Nat)
<1>1. PICK m \in S : \A y \in S : ~ (<<y, m>> \in R)
  BY NatLessThanWellFounded, WFMin
<1>2. \A x, y \in Nat : y < x => <<y, x>> \in R
  BY Zenon DEF OpToRel
<1> HIDE DEF R
<1>3. \A y \in S : y \in Nat /\ m \in Nat /\ ~(y < m)
  BY Zenon, <1>1, <1>2
<1>4. \A n \in S : m <= n
  BY <1>3, SMT
<1> QED BY <1>4

(* The field that is staged next is one that is not staged yet. *)
LEMMA CurrentIs ==
  ASSUME ArchiveTyped, NEW j \in Jobs, todo[j] # {}
  PROVE  Current(j) \in todo[j] /\ Current(j) \in Fields
<1>1. todo[j] \in SUBSET Nat /\ todo[j] \subseteq Fields
  BY ArchiveAssumption DEF ArchiveTyped
<1>2. \E f \in todo[j] : \A g \in todo[j] : f <= g
  BY <1>1, SmallestNat
<1> QED BY <1>1, <1>2 DEF Current

LEMMA TargetIs ==
  ASSUME ArchiveTyped, NEW j \in Jobs, NEW f \in Fields, given[j][f] # NoFile
  PROVE  Target(j, f) \in Names /\ given[j][f] \in Sources
<1>1. given[j][f] \in Sources
  BY DEF ArchiveTyped
<1> QED BY <1>1 DEF Target, Names

LEMMA ContentIs ==
  ASSUME ArchiveTyped, NEW s \in Sources
  PROVE  ContentOf(s) \in Shas
BY DEF ArchiveTyped, ContentOf, Shas

LEMMA BundleIs == NoFile \notin Bundle
BY ArchiveAssumption DEF Bundle, Shas

LEMMA BareIs ==
  /\ Bare \in Manifest /\ Bare.is = "none" /\ ~Bare.ok
  /\ Torn \in Manifest /\ Torn.is = "torn" /\ ~Torn.ok
BY DEF Bare, Torn, Manifest

LEMMA InitArchive == Init => ArchiveInv
<1> SUFFICES ASSUME Init PROVE ArchiveInv
  OBVIOUS
<1>1. ArchiveTyped
  BY BareIs DEF Init, ArchiveTyped, DepositState, Places, Early, Resolved, Shas
<1>2. Expired
  BY DEF Init, Expired
<1>3. ASSUME NEW j \in Jobs PROVE JobOK(j)
  <2>1. /\ place[j] = "none" /\ given[j] = [f \in Fields |-> NoFile] /\ manifest[j] = Bare
        /\ rows[j] = "none" /\ state[j] = "none"
    BY <1>3 DEF Init
  <2> QED BY <2>1, BareIs DEF JobOK, Staged, Staging, Inscribed, Told, Early
<1> QED BY <1>1, <1>2, <1>3 DEF ArchiveInv

(* What is true of a job stays so while only others move. *)
Aside(j) ==
  /\ place'[j] = place[j] /\ given'[j] = given[j] /\ ranked'[j] = ranked[j] /\ todo'[j] = todo[j]
  /\ resolved'[j] = resolved[j] /\ inputs'[j] = inputs[j] /\ outputs'[j] = outputs[j]
  /\ announced'[j] = announced[j] /\ manifest'[j] = manifest[j] /\ (j \in leased' <=> j \in leased)
  /\ rows'[j] = rows[j] /\ state'[j] = state[j]

LEMMA JobStays ==
  ASSUME NEW j \in Jobs, Aside(j), faults' = 0 => faults = 0, JobOK(j)
  PROVE  JobOK(j)'
<1>1. Staged(j)'
  BY DEF JobOK, Staged, Clash, Target, Aside
<1>2. Staging(j)'
  BY DEF JobOK, Staging, Current, Aside
<1>3. Inscribed(j)'
  BY DEF JobOK, Inscribed, Ok, Missing, Aside
<1>4. Told(j)'
  BY DEF JobOK, Told, FromDisk, Aside
<1> QED BY <1>1, <1>2, <1>3, <1>4 DEF JobOK

LEMMA OneJob ==
  ASSUME ArchiveInv, NEW j \in Jobs, \A k \in Jobs \ {j} : Aside(k), faults' = 0 => faults = 0,
         sas' = sas, ArchiveTyped', JobOK(j)'
  PROVE  ArchiveInv'
<1>1. \A k \in Jobs : JobOK(k)'
  BY JobStays DEF ArchiveInv
<1>2. Expired'
  BY DEF ArchiveInv, Expired
<1> QED BY <1>1, <1>2 DEF ArchiveInv

LEMMA SubmitStep ==
  ASSUME ArchiveInv, NEW j \in Jobs, NEW shape \in Forms, Submit(j, shape)
  PROVE  ArchiveInv'
<1>t. ArchiveTyped /\ JobOK(j)
  BY DEF ArchiveInv
<1>1. /\ place[j] = "none" /\ place' = [place EXCEPT ![j] = "open"]
      /\ given' = [given EXCEPT ![j] = shape.of] /\ ranked' = [ranked EXCEPT ![j] = shape.list]
      /\ todo' = [todo EXCEPT ![j] = Fields] /\ state' = [state EXCEPT ![j] = "running"]
      /\ UNCHANGED <<version, sas, resolved, announced, leased, inputs, outputs, manifest, rows, faults>>
  BY DEF Submit, Goes, user, folder
<1>2. shape.of \in [Fields -> Sources \cup {NoFile}] /\ shape.list \in BOOLEAN
  BY ArchiveAssumption
<1>3. ArchiveTyped'
  BY <1>t, <1>1, <1>2 DEF ArchiveTyped, Places, Early
<1>4. place'[j] = "open" /\ todo'[j] = Fields /\ state'[j] = "running"
  BY <1>t, <1>1 DEF ArchiveTyped
<1>5. JobOK(j)'
  BY <1>t, <1>1, <1>4 DEF JobOK, Staged, Staging, Inscribed, Told, Early
<1>6. \A k \in Jobs \ {j} : Aside(k)
  BY <1>t, <1>1 DEF Aside, ArchiveTyped
<1> QED BY <1>1, <1>3, <1>5, <1>6, OneJob

(* Steps within the opening, the staging and the call that change only     *)
(* where the job is, its worker, what it holds or what was announced.      *)
LEMMA OnTheWay ==
  ASSUME ArchiveInv, NEW j \in Jobs, ArchiveTyped', \A k \in Jobs \ {j} : Aside(k),
         UNCHANGED <<sas, given, ranked, todo, resolved, inputs, manifest, rows, state, faults>>,
         manifest[j].is = "none", place[j] # "none",
         \/ place'[j] \in {"alter", "stage"}
         \/ place'[j] = "infer" /\ todo[j] = {} /\ j \in leased'
         \/ place'[j] = "check" /\ todo[j] = {} /\ (announced'[j] = NoFile \/ j \in leased'),
         place[j] # "over"
  PROVE  ArchiveInv'
<1>t. JobOK(j)
  BY DEF ArchiveInv
<1>1. Staged(j)' /\ Staging(j)'
  BY <1>t DEF JobOK, Staged, Clash, Target, Staging, Early
<1>2. Inscribed(j)' /\ Told(j)'
  BY <1>t DEF JobOK, Inscribed, Told
<1> QED BY <1>1, <1>2, OneJob DEF JobOK

LEMMA OpenSteps ==
  ASSUME ArchiveInv, NEW j \in Jobs, OpenBase(j) \/ AlterBase(j)
  PROVE  ArchiveInv'
<1>t. ArchiveTyped /\ JobOK(j)
  BY DEF ArchiveInv
<1>1. /\ place[j] \in {"open", "alter"}
      /\ \E to \in {"alter", "stage"} : place' = [place EXCEPT ![j] = to]
      /\ UNCHANGED <<version, sas, given, ranked, todo, resolved, announced, leased, inputs, outputs,
                     manifest, rows, state, faults>>
  BY DEF OpenBase, AlterBase, Goes, Quiet, user, folder
<1>2. place' \in [Jobs -> Places] /\ place'[j] \in {"alter", "stage"}
      /\ \A k \in Jobs \ {j} : place'[k] = place[k]
  BY <1>t, <1>1 DEF ArchiveTyped, Places, Early
<1>3. ArchiveTyped' /\ \A k \in Jobs \ {j} : Aside(k)
  BY <1>t, <1>1, <1>2 DEF ArchiveTyped, Aside
<1>4. manifest[j].is = "none"
  BY <1>t, <1>1 DEF JobOK, Inscribed, ArchiveTyped, Manifest
<1> QED BY <1>1, <1>2, <1>3, <1>4, OnTheWay

LEMMA CallSteps ==
  ASSUME ArchiveInv, NEW j \in Jobs,
         \/ \E granted \in BOOLEAN : Acquire(j, granted)
         \/ \E said \in SUBSET Outputs : Answer(j, said)
         \/ \E o \in Outputs : Produce(j, o)
  PROVE  ArchiveInv'
<1>t. ArchiveTyped /\ JobOK(j)
  BY DEF ArchiveInv
<1>1. /\ place[j] \in {"stage", "infer"}
      /\ UNCHANGED <<version, sas, given, ranked, todo, resolved, inputs, manifest, rows, state, faults>>
  BY DEF Acquire, Answer, Produce, Quiet, user, folder, thread
<1>2. manifest[j].is = "none" /\ place[j] # "none"
  BY <1>t, <1>1 DEF JobOK, Inscribed, ArchiveTyped, Manifest
<1>3. ASSUME NEW granted \in BOOLEAN, Acquire(j, granted) PROVE ArchiveInv'
  <2>1. /\ todo[j] = {} /\ leased' = IF granted THEN leased \cup {j} ELSE leased
        /\ announced' = [announced EXCEPT ![j] = IF granted THEN {} ELSE NoFile]
        /\ place' = [place EXCEPT ![j] = IF granted THEN "infer" ELSE "check"]
        /\ outputs' = outputs
    BY <1>3 DEF Acquire, Goes, folder
  <2>2. /\ place' \in [Jobs -> Places] /\ \A k \in Jobs \ {j} : place'[k] = place[k]
        /\ place'[j] = (IF granted THEN "infer" ELSE "check")
    BY <1>t, <2>1 DEF ArchiveTyped, Places, Early
  <2> DEFINE none == IF granted THEN {} ELSE NoFile
  <2>a. announced' = [announced EXCEPT ![j] = none]
    BY <2>1
  <2>b. none \in (SUBSET Outputs) \cup {NoFile}
    OBVIOUS
  <2> HIDE DEF none
  <2>3. /\ announced' \in [Jobs -> (SUBSET Outputs) \cup {NoFile}]
        /\ \A k \in Jobs \ {j} : announced'[k] = announced[k]
        /\ announced'[j] = none
    BY <1>t, <2>a, <2>b DEF ArchiveTyped
  <2>4. \A k \in Jobs \ {j} : k \in leased' <=> k \in leased
    BY <2>1
  <2>5. ArchiveTyped' /\ \A k \in Jobs \ {j} : Aside(k)
    BY <1>t, <1>1, <2>1, <2>2, <2>3, <2>4 DEF ArchiveTyped, Aside
  <2> QED BY <1>1, <1>2, <2>1, <2>2, <2>3, <2>5, OnTheWay DEF none
<1>4. ASSUME NEW said \in SUBSET Outputs, Answer(j, said) PROVE ArchiveInv'
  <2>1. /\ place[j] = "infer" /\ leased' = leased /\ outputs' = outputs
        /\ announced' = [announced EXCEPT ![j] = said]
        /\ place' = [place EXCEPT ![j] = "check"]
    BY <1>4 DEF Answer, Goes, folder
  <2>2. todo[j] = {} /\ j \in leased
    BY <1>t, <2>1 DEF JobOK, Staging, Inscribed, Early
  <2>3. ArchiveTyped' /\ (\A k \in Jobs \ {j} : Aside(k)) /\ place'[j] = "check"
    BY <1>t, <1>1, <2>1 DEF ArchiveTyped, Aside, Places, Early
  <2> QED BY <1>1, <1>2, <2>1, <2>2, <2>3, OnTheWay
<1>5. ASSUME NEW o \in Outputs, Produce(j, o) PROVE ArchiveInv'
  <2>1. /\ place[j] = "infer" /\ UNCHANGED <<leased, announced, place>>
        /\ outputs' = [outputs EXCEPT ![j] = @ \cup {o}]
    BY <1>5 DEF Produce, thread
  <2>2. todo[j] = {} /\ j \in leased
    BY <1>t, <2>1 DEF JobOK, Staging, Inscribed, Early
  <2>3. ArchiveTyped' /\ (\A k \in Jobs \ {j} : Aside(k)) /\ place'[j] = "infer"
    BY <1>t, <1>1, <2>1 DEF ArchiveTyped, Aside
  <2> QED BY <1>1, <1>2, <2>1, <2>2, <2>3, OnTheWay
<1> QED BY <1>3, <1>4, <1>5

LEMMA CopyStep ==
  ASSUME ArchiveInv, NEW j \in Jobs, CopyInput(j)
  PROVE  ArchiveInv'
<1> DEFINE f == Current(j)
           s == given[j][f]
<1>t. ArchiveTyped /\ JobOK(j)
  BY DEF ArchiveInv
<1>1. /\ place[j] = "stage" /\ todo[j] # {}
      /\ UNCHANGED <<version, sas, given, ranked, resolved, announced, leased, outputs, manifest,
                     rows, state, faults>>
  BY DEF CopyInput, Quiet, user
<1>2. f \in todo[j] /\ f \in Fields
  BY <1>t, <1>1, CurrentIs
<1>3. manifest[j].is = "none"
  BY <1>t, <1>1 DEF JobOK, Inscribed, ArchiveTyped, Manifest
<1>4. CASE s = NoFile
  <2>1. todo' = [todo EXCEPT ![j] = @ \ {f}] /\ UNCHANGED <<place, inputs>>
    BY <1>4 DEF CopyInput
  <2>2. todo' \in [Jobs -> SUBSET Fields] /\ todo'[j] = todo[j] \ {f}
        /\ \A k \in Jobs \ {j} : todo'[k] = todo[k]
    BY <1>t, <2>1 DEF ArchiveTyped
  <2>3. ArchiveTyped' /\ \A k \in Jobs \ {j} : Aside(k)
    BY <1>t, <1>1, <2>1, <2>2 DEF ArchiveTyped, Aside
  <2>4. Staged(j)'
    BY <1>t, <1>1, <1>4, <2>1, <2>2 DEF JobOK, Staged, Clash, Target
  <2>5. Staging(j)' /\ Inscribed(j)' /\ Told(j)'
    BY <1>t, <1>1, <1>3, <2>1 DEF JobOK, Staging, Inscribed, Told, Early
  <2> QED BY <1>1, <2>3, <2>4, <2>5, OneJob DEF JobOK
<1>5. CASE s # NoFile
  <2>1. /\ inputs' = [inputs EXCEPT ![j][Target(j, f)] = ContentOf(s)]
        /\ place' = [place EXCEPT ![j] = "hash"] /\ todo' = todo
    BY <1>5 DEF CopyInput, Goes
  <2>2. Target(j, f) \in Names /\ ContentOf(s) \in Shas
    BY <1>t, <1>2, <1>5, TargetIs, ContentIs
  <2>3. /\ inputs' \in [Jobs -> [Names -> Shas]] /\ \A k \in Jobs \ {j} : inputs'[k] = inputs[k]
        /\ \A n \in Names \ {Target(j, f)} : inputs'[j][n] = inputs[j][n]
    BY <1>t, <2>1, <2>2 DEF ArchiveTyped
  <2>4. place' \in [Jobs -> Places] /\ place'[j] = "hash" /\ \A k \in Jobs \ {j} : place'[k] = place[k]
    BY <1>t, <2>1 DEF ArchiveTyped, Places, Early
  <2>5. ArchiveTyped' /\ \A k \in Jobs \ {j} : Aside(k)
    BY <1>t, <1>1, <2>1, <2>3, <2>4 DEF ArchiveTyped, Aside
  <2>6. \A g \in Fields : Target(j, g)' = Target(j, g)
    BY <1>1 DEF Target
  <2>7. Clash(j)' = Clash(j)
    BY <1>1 DEF Clash, Target
  <2>8. ASSUME NEW g \in Fields \ todo[j], given[j][g] # NoFile, ~Clash(j)
        PROVE  inputs'[j][Target(j, g)] = inputs[j][Target(j, g)]
    <3>1. g # f /\ Target(j, g) # Target(j, f)
      BY <1>2, <1>5, <2>8 DEF Clash
    <3>2. Target(j, g) \in Names
      BY <1>t, <2>8, TargetIs
    <3> QED BY <2>3, <3>1, <3>2
  <2>9. Staged(j)'
    BY <1>t, <1>1, <2>1, <2>6, <2>7, <2>8 DEF JobOK, Staged
  <2>10. Staging(j)'
    BY <1>1, <1>5, <2>1, <2>4 DEF Staging, Current, Early
  <2>11. Inscribed(j)' /\ Told(j)'
    BY <1>t, <1>1, <1>3, <2>4 DEF JobOK, Inscribed, Told
  <2> QED BY <1>1, <2>5, <2>9, <2>10, <2>11, OneJob DEF JobOK
<1> QED BY <1>4, <1>5

LEMMA HashStep ==
  ASSUME ArchiveInv, NEW j \in Jobs, HashInput(j)
  PROVE  ArchiveInv'
<1> DEFINE f == Current(j)
           r == [name |-> Target(j, f), sha |-> inputs[j][Target(j, f)]]
<1>t. ArchiveTyped /\ JobOK(j)
  BY DEF ArchiveInv
<1>1. /\ place[j] = "hash" /\ place' = [place EXCEPT ![j] = "stage"]
      /\ resolved' = [resolved EXCEPT ![j][f] = r] /\ todo' = [todo EXCEPT ![j] = @ \ {f}]
      /\ UNCHANGED <<version, sas, given, ranked, announced, leased, inputs, outputs, manifest,
                     rows, state, faults>>
  BY DEF HashInput, Hashed, Goes, Quiet, user, folder
<1>2. f \in todo[j] /\ f \in Fields /\ given[j][f] # NoFile
  BY <1>t, <1>1, CurrentIs DEF JobOK, Staging
<1>3. manifest[j].is = "none"
  BY <1>t, <1>1 DEF JobOK, Inscribed, ArchiveTyped, Manifest
<1>4. Target(j, f) \in Names
  BY <1>t, <1>2, TargetIs
<1>5. r \in Bundle /\ r.name = Target(j, f) /\ r.sha = inputs[j][Target(j, f)]
  BY <1>t, <1>4 DEF ArchiveTyped, Bundle
<1> HIDE DEF r
<1>6. /\ resolved' \in [Jobs -> Resolved] /\ resolved'[j][f] = r
      /\ \A k \in Jobs \ {j} : resolved'[k] = resolved[k]
      /\ \A g \in Fields \ {f} : resolved'[j][g] = resolved[j][g]
  BY <1>t, <1>1, <1>2, <1>5 DEF ArchiveTyped, Resolved
<1>7. todo' \in [Jobs -> SUBSET Fields] /\ todo'[j] = todo[j] \ {f}
      /\ \A k \in Jobs \ {j} : todo'[k] = todo[k]
  BY <1>t, <1>1 DEF ArchiveTyped
<1>8. place' \in [Jobs -> Places] /\ place'[j] = "stage" /\ \A k \in Jobs \ {j} : place'[k] = place[k]
  BY <1>t, <1>1 DEF ArchiveTyped, Places, Early
<1>9. ArchiveTyped' /\ \A k \in Jobs \ {j} : Aside(k)
  BY <1>t, <1>1, <1>6, <1>7, <1>8 DEF ArchiveTyped, Aside
<1>10. /\ \A g \in Fields : Target(j, g)' = Target(j, g)
       /\ Clash(j)' = Clash(j)
  BY <1>1 DEF Clash, Target
<1>11. Staged(j)'
  BY <1>t, <1>1, <1>2, <1>5, <1>6, <1>7, <1>10 DEF JobOK, Staged
<1>12. Staging(j)' /\ Inscribed(j)' /\ Told(j)'
  BY <1>t, <1>1, <1>3, <1>8 DEF JobOK, Staging, Inscribed, Told, Early
<1> QED BY <1>1, <1>9, <1>11, <1>12, OneJob DEF JobOK

(* The staged fields do not change any more. *)
LEMMA StagedStays ==
  ASSUME NEW j \in Jobs, Staged(j), UNCHANGED <<given, ranked, todo, resolved, inputs>>
  PROVE  Staged(j)'
BY DEF Staged, Clash, Target

LEMMA ManifestSteps ==
  ASSUME ArchiveInv, NEW j \in Jobs, OpenManifest(j) \/ WriteManifest(j)
  PROVE  ArchiveInv'
<1> DEFINE m == [is |-> "whole", ok |-> Ok(j), resolved |-> resolved[j]]
<1>t. ArchiveTyped /\ JobOK(j)
  BY DEF ArchiveInv
<1>1. /\ place[j] \in {"check", "write"}
      /\ UNCHANGED <<version, sas, given, ranked, todo, resolved, announced, leased, inputs, outputs,
                     rows, state, faults>>
  BY DEF OpenManifest, WriteManifest, Quiet, user
<1>2. todo[j] = {} /\ (announced[j] = NoFile \/ j \in leased)
  BY <1>t, <1>1 DEF JobOK, Staging, Inscribed, Early
<1>3. Staged(j)' /\ Ok(j)' = Ok(j)
  BY <1>t, <1>1, StagedStays DEF JobOK, Ok, Missing
<1>4. CASE OpenManifest(j)
  <2>1. manifest' = [manifest EXCEPT ![j] = Torn] /\ place' = [place EXCEPT ![j] = "write"]
    BY <1>4 DEF OpenManifest, Goes
  <2>2. /\ ArchiveTyped' /\ \A k \in Jobs \ {j} : Aside(k)
        /\ manifest'[j] = Torn /\ place'[j] = "write"
    BY <1>t, <1>1, <2>1, BareIs DEF ArchiveTyped, Aside, Places, Early
  <2>3. Staging(j)' /\ Inscribed(j)' /\ Told(j)'
    BY <1>t, <1>1, <1>2, <2>2, BareIs DEF JobOK, Staging, Inscribed, Told
  <2> QED BY <1>1, <1>3, <2>2, <2>3, OneJob DEF JobOK
<1>5. CASE WriteManifest(j)
  <2>1. manifest' = [manifest EXCEPT ![j] = m] /\ place' = [place EXCEPT ![j] = "record"]
    BY <1>5 DEF WriteManifest, Goes
  <2>2. m \in Manifest /\ m.is = "whole" /\ m.ok = Ok(j) /\ m.resolved = resolved[j]
    BY <1>t DEF ArchiveTyped, Manifest, Ok
  <2> HIDE DEF m
  <2>3. /\ ArchiveTyped' /\ \A k \in Jobs \ {j} : Aside(k)
        /\ manifest'[j] = m /\ place'[j] = "record"
    BY <1>t, <1>1, <2>1, <2>2 DEF ArchiveTyped, Aside, Places, Early
  <2>4. Staging(j)' /\ Inscribed(j)' /\ Told(j)'
    BY <1>t, <1>1, <1>2, <1>3, <2>2, <2>3 DEF JobOK, Staging, Inscribed, Told
  <2> QED BY <1>1, <1>3, <2>3, <2>4, OneJob DEF JobOK
<1> QED BY <1>4, <1>5

LEMMA EndSteps ==
  ASSUME ArchiveInv, NEW j \in Jobs, RefuseInput(j) \/ Record(j) \/ DiskFull(j)
  PROVE  ArchiveInv'
<1>t. ArchiveTyped /\ JobOK(j)
  BY DEF ArchiveInv
<1>1. /\ UNCHANGED <<version, sas, given, ranked, todo, resolved, announced, leased, inputs, outputs>>
      /\ place[j] \in {"stage", "check", "write", "record"}
      /\ \E as \in {"done", "failed"} : Ends(j, as)
  BY DEF RefuseInput, Record, DiskFull, Ends, user, folder, Verdict
<1>2. /\ place' \in [Jobs -> Places] /\ place'[j] = "over" /\ \A k \in Jobs \ {j} : place'[k] = place[k]
      /\ state' \in [Jobs -> {"none", "running", "done", "failed"}] /\ state'[j] \in {"done", "failed"}
      /\ \A k \in Jobs \ {j} : state'[k] = state[k]
  BY <1>t, <1>1 DEF Ends, Goes, ArchiveTyped, Places, Early
<1>3. Staged(j)' /\ Ok(j)' = Ok(j) /\ rows[j] = "none"
  BY <1>t, <1>1, StagedStays DEF JobOK, Ok, Missing, Told
<1>4. Staging(j)'
  BY <1>2 DEF Staging, Early
<1>5. CASE RefuseInput(j)
  <2>1. UNCHANGED <<manifest, rows, faults>> /\ state'[j] = "failed" /\ place[j] = "stage"
    BY <1>t, <1>5 DEF RefuseInput, Ends, folder, ArchiveTyped
  <2>2. manifest[j].is = "none"
    BY <1>t, <2>1 DEF JobOK, Inscribed, ArchiveTyped, Manifest
  <2>3. ArchiveTyped' /\ \A k \in Jobs \ {j} : Aside(k)
    BY <1>t, <1>1, <1>2, <2>1 DEF ArchiveTyped, Aside
  <2>4. Inscribed(j)' /\ Told(j)'
    BY <1>t, <1>2, <1>3, <2>1, <2>2 DEF JobOK, Inscribed, Told
  <2> QED BY <1>1, <1>3, <1>4, <2>1, <2>3, <2>4, OneJob DEF JobOK
<1>6. CASE DiskFull(j)
  <2>1. /\ rows' = rows /\ faults' = faults + 1 /\ state'[j] = "failed"
        /\ manifest' = [manifest EXCEPT ![j] = IF place[j] = "check" THEN Torn ELSE @]
        /\ place[j] \in {"check", "write", "record"}
    BY <1>t, <1>6 DEF DiskFull, Ends, ArchiveTyped
  <2>2. /\ manifest' \in [Jobs -> Manifest] /\ \A k \in Jobs \ {j} : manifest'[k] = manifest[k]
        /\ manifest'[j] = IF place[j] = "check" THEN Torn ELSE manifest[j]
    BY <1>t, <2>1, BareIs DEF ArchiveTyped
  <2>3. ArchiveTyped' /\ (\A k \in Jobs \ {j} : Aside(k)) /\ faults' # 0
    BY <1>t, <1>1, <1>2, <2>1, <2>2 DEF ArchiveTyped, Aside
  <2>4. Inscribed(j)' /\ Told(j)'
    BY <1>t, <1>1, <1>2, <1>3, <2>1, <2>2, <2>3, BareIs DEF JobOK, Inscribed, Told
  <2> QED BY <1>1, <1>3, <1>4, <2>3, <2>4, OneJob DEF JobOK
<1>7. CASE Record(j)
  <2>1. UNCHANGED <<manifest, faults>> /\ rows' = RowsWith(j) /\ state'[j] = Verdict(j)
        /\ place[j] = "record"
    BY <1>t, <1>7 DEF Record, Ends, folder, ArchiveTyped
  <2>2. /\ rows' \in [Jobs -> {"none", "done", "failed"}] /\ \A k \in Jobs \ {j} : rows'[k] = rows[k]
        /\ rows'[j] = IF j \in leased THEN Verdict(j) ELSE "none"
    BY <1>t, <1>3, <2>1 DEF RowsWith, Verdict, ArchiveTyped
  <2>3. ArchiveTyped' /\ \A k \in Jobs \ {j} : Aside(k)
    BY <1>t, <1>1, <1>2, <2>1, <2>2 DEF ArchiveTyped, Aside
  <2>4. /\ manifest[j].is = "whole" /\ manifest[j].ok = Ok(j) /\ (announced[j] = NoFile \/ j \in leased)
        /\ todo[j] = {} /\ manifest[j].resolved = resolved[j]
    BY <1>t, <2>1 DEF JobOK, Inscribed
  <2>5. FromDisk(j)' = Verdict(j) /\ (Verdict(j) = "done" => j \in leased) /\ Verdict(j) # "none"
    BY <2>1, <2>4 DEF FromDisk, Verdict, Ok
  <2>6. Inscribed(j)'
    BY <1>1, <1>2, <1>3, <2>1, <2>4 DEF Inscribed
  <2>7. Told(j)'
    BY <1>1, <1>2, <2>1, <2>2, <2>5 DEF Told
  <2> QED BY <1>1, <1>3, <1>4, <2>1, <2>3, <2>6, <2>7, OneJob DEF JobOK
<1> QED BY <1>5, <1>6, <1>7

(* Steps of no job: the files of the user, the deposits. *)
LEMMA FileSteps ==
  ASSUME ArchiveInv, UNCHANGED <<thread, folder, rows, state, faults>>,
         version' \in [Files -> Nat], sas' \in [Deposits -> DepositState], Expired'
  PROVE  ArchiveInv'
<1>1. ArchiveTyped' /\ \A k \in Jobs : Aside(k)
  BY DEF ArchiveInv, ArchiveTyped, thread, folder, Aside
<1>2. \A k \in Jobs : JobOK(k)'
  BY <1>1, JobStays DEF ArchiveInv
<1> QED BY <1>1, <1>2 DEF ArchiveInv

LEMMA PurgedIs ==
  ASSUME ArchiveTyped, Expired, NEW d \in Deposits
  PROVE  Purged(sas[d]) \in DepositState /\ (Purged(sas[d]).is = "gone" => Purged(sas[d]).age > Retention)
<1> DEFINE x == sas[d]
           gone == [x EXCEPT !.is = "gone"]
<1>1. x \in DepositState /\ (x.is = "gone" => x.age > Retention)
  BY DEF ArchiveTyped, Expired
<1>2. gone \in DepositState /\ gone.is = "gone" /\ gone.age = x.age
  BY <1>1 DEF DepositState
<1>3. Purged(x) = IF x.is \notin Absent /\ x.age > Retention THEN gone ELSE x
  BY DEF Purged
<1> HIDE DEF x, gone
<1>4. Purged(x) \in DepositState /\ (Purged(x).is = "gone" => Purged(x).age > Retention)
  BY <1>1, <1>2, <1>3
<1> QED BY <1>4 DEF x

LEMMA DepositSteps ==
  ASSUME ArchiveInv,
         \/ \E d \in Deposits : Receive(d) \/ Written(d) \/ TooLarge(d)
         \/ ReceiveOther \/ Age \/ \E f \in Files : Edit(f)
  PROVE  ArchiveInv'
<1>t. ArchiveTyped /\ Expired /\ sas \in [Deposits -> DepositState] /\ version \in [Files -> Nat]
  BY DEF ArchiveInv, ArchiveTyped
<1>1. UNCHANGED <<thread, folder, rows, state, faults>>
  BY DEF Receive, Written, TooLarge, Settles, ReceiveOther, Age, Edit
<1>2. ASSUME NEW d \in Deposits, Receive(d) PROVE ArchiveInv'
  <2> DEFINE new == [is |-> "writing", age |-> 0]
  <2>1. sas' = [e \in Deposits |-> IF e = d THEN new ELSE Purged(sas[e])] /\ version' = version
    BY <1>2 DEF Receive, user
  <2>2. new \in DepositState /\ new.is # "gone"
    BY DEF DepositState
  <2> HIDE DEF new
  <2>3. \A e \in Deposits : sas'[e] \in DepositState /\ (sas'[e].is = "gone" => sas'[e].age > Retention)
    BY <1>t, <2>1, <2>2, PurgedIs
  <2>4. sas' \in [Deposits -> DepositState]
    BY <2>1, <2>3
  <2> QED BY <1>t, <1>1, <2>1, <2>3, <2>4, FileSteps DEF Expired
<1>3. CASE ReceiveOther
  <2>1. sas' = [d \in Deposits |-> Purged(sas[d])] /\ version' = version
    BY <1>3 DEF ReceiveOther, user
  <2>2. \A e \in Deposits : sas'[e] \in DepositState /\ (sas'[e].is = "gone" => sas'[e].age > Retention)
    BY <1>t, <2>1, PurgedIs
  <2>3. sas' \in [Deposits -> DepositState]
    BY <2>1, <2>2
  <2> QED BY <1>t, <1>1, <2>1, <2>2, <2>3, FileSteps DEF Expired
<1>4. ASSUME NEW d \in Deposits, NEW as \in {"whole", "refused"}, Settles(d, as) PROVE ArchiveInv'
  <2>1. sas' = [sas EXCEPT ![d].is = as] /\ version' = version
    BY <1>4 DEF Settles, user
  <2>2. \A e \in Deposits : /\ sas'[e] \in DepositState
                            /\ sas'[e] = sas[e] \/ sas'[e].is = as
    BY <1>t, <2>1 DEF DepositState
  <2>3. sas' \in [Deposits -> DepositState]
    BY <1>t, <2>1, <2>2
  <2> QED BY <1>t, <1>1, <2>1, <2>2, <2>3, FileSteps DEF Expired
<1>5. CASE Age
  <2> DEFINE still(x) == x.is \in Absent \cup {"writing"} \/ x.age > Retention
             more(x) == [x EXCEPT !.age = @ + 1]
  <2>1. sas' = [d \in Deposits |-> IF still(sas[d]) THEN sas[d] ELSE more(sas[d])] /\ version' = version
    BY <1>5 DEF Age, user
  <2>2. \A x \in DepositState : more(x) \in DepositState /\ more(x).is = x.is
    BY DEF DepositState
  <2>3. \A d \in Deposits : sas[d] \in DepositState /\ (sas[d].is = "gone" => still(sas[d]))
    BY <1>t DEF Absent
  <2> HIDE DEF still, more
  <2>4. \A d \in Deposits : /\ sas'[d] \in DepositState
                            /\ sas'[d] = sas[d] \/ sas'[d].is # "gone"
    BY <2>1, <2>2, <2>3
  <2>5. sas' \in [Deposits -> DepositState]
    BY <2>1, <2>4
  <2> QED BY <1>t, <1>1, <2>1, <2>4, <2>5, FileSteps DEF Expired
<1>6. ASSUME NEW f \in Files, Edit(f) PROVE ArchiveInv'
  <2>1. version' = [version EXCEPT ![f] = @ + 1] /\ sas' = sas
    BY <1>6 DEF Edit
  <2>2. version' \in [Files -> Nat]
    BY <1>t, <2>1
  <2> QED BY <1>t, <1>1, <2>1, <2>2, FileSteps DEF Expired
<1> QED BY <1>2, <1>3, <1>4, <1>5, <1>6 DEF Written, TooLarge

LEMMA KillStep == ASSUME ArchiveInv, Kill PROVE ArchiveInv'
<1>t. ArchiveTyped /\ Expired
  BY DEF ArchiveInv
<1>1. /\ faults' = faults + 1
      /\ place' = [j \in Jobs |-> IF place[j] \in {"none", "over"} THEN place[j] ELSE "lost"]
      /\ sas' = [d \in Deposits |-> IF sas[d].is = "writing" THEN [sas[d] EXCEPT !.is = "torn"]
                                    ELSE sas[d]]
      /\ UNCHANGED <<version, given, ranked, todo, resolved, announced, leased, inputs, outputs,
                     manifest, rows, state>>
  BY DEF Kill, user, folder
<1>2. \A d \in Deposits : /\ sas'[d] \in DepositState
                          /\ sas'[d] = sas[d] \/ sas'[d].is = "torn"
  BY <1>t, <1>1 DEF ArchiveTyped, DepositState
<1>3. sas' \in [Deposits -> DepositState] /\ Expired'
  BY <1>t, <1>1, <1>2 DEF Expired
<1>4. /\ place' \in [Jobs -> Places]
      /\ \A j \in Jobs : place'[j] = place[j] \/ (place'[j] = "lost" /\ place[j] \notin {"none", "over"})
  BY <1>t, <1>1 DEF ArchiveTyped, Places
<1>5. ArchiveTyped' /\ faults' # 0
  BY <1>t, <1>1, <1>3, <1>4 DEF ArchiveTyped
<1>6. ASSUME NEW j \in Jobs PROVE JobOK(j)'
  <2>1. JobOK(j)
    BY DEF ArchiveInv
  <2>2. Staged(j)'
    BY <1>1, <2>1, StagedStays DEF JobOK
  <2>3. Ok(j)' = Ok(j) /\ FromDisk(j)' = FromDisk(j)
    BY <1>1 DEF Ok, Missing, FromDisk
  <2>4. CASE place'[j] = place[j]
    <3>1. Staging(j)'
      BY <1>1, <2>1, <2>4 DEF JobOK, Staging, Current
    <3>2. Inscribed(j)'
      BY <1>1, <2>1, <2>3, <2>4 DEF JobOK, Inscribed
    <3>3. Told(j)'
      BY <1>1, <1>5, <2>1, <2>3, <2>4 DEF JobOK, Told
    <3> QED BY <2>2, <3>1, <3>2, <3>3 DEF JobOK
  <2>5. CASE place'[j] = "lost" /\ place[j] \notin {"none", "over"}
    <3>1. Staging(j)'
      BY <2>5 DEF Staging, Early
    <3>2. Inscribed(j)'
      BY <1>1, <2>1, <2>3, <2>5 DEF JobOK, Inscribed
    <3>3. Told(j)'
      BY <1>1, <2>1, <2>5 DEF JobOK, Told
    <3> QED BY <2>2, <3>1, <3>2, <3>3 DEF JobOK
  <2> QED BY <1>4, <2>4, <2>5
<1> QED BY <1>3, <1>5, <1>6 DEF ArchiveInv

LEMMA NextArchive == ArchiveInv /\ [Next]_vars => ArchiveInv'
<1> SUFFICES ASSUME ArchiveInv, [Next]_vars PROVE ArchiveInv'
  OBVIOUS
<1>t. sas \in [Deposits -> DepositState] /\ version \in [Files -> Nat] /\ Expired
  BY DEF ArchiveInv, ArchiveTyped
<1>1. ASSUME NEW j \in Jobs, Run(j) PROVE ArchiveInv'
  BY <1>1, OpenSteps, CopyStep, HashStep, CallSteps, ManifestSteps, EndSteps DEF Run
<1>2. ASSUME NEW j \in Jobs, Forget(j) PROVE ArchiveInv'
  <2>1. UNCHANGED <<thread, folder, rows, state, faults, sas, version>>
    BY <1>2 DEF Forget, user
  <2> QED BY <1>t, <2>1, FileSteps DEF Expired
<1>3. CASE UNCHANGED vars
  <2>1. UNCHANGED <<thread, folder, rows, state, faults, sas, version>>
    BY <1>3 DEF vars, user
  <2> QED BY <1>t, <2>1, FileSteps DEF Expired
<1>4. ASSUME NEW j \in Jobs, DiskFull(j) \/ \E o \in Outputs : Produce(j, o) PROVE ArchiveInv'
  BY <1>4, EndSteps, CallSteps
<1> QED BY <1>1, <1>2, <1>3, <1>4, DepositSteps, SubmitStep, KillStep DEF Next

(* A job can be replayed from its directory, and a deposit is only gone     *)
(* past its retention: for any forms, any number of jobs, and however often *)
(* files are edited, disks fill up and the server is killed.                *)
THEOREM JobsReplay == Spec => []Replayable
<1>1. ArchiveInv => Replayable
  <2> SUFFICES ASSUME ArchiveInv PROVE Replayable
    OBVIOUS
  <2>1. ASSUME NEW j \in Jobs, manifest[j].is = "whole", ~Clash(j), NEW f \in Fields,
               given[j][f] # NoFile
        PROVE  manifest[j].resolved[f] # NoFile
               /\ inputs[j][manifest[j].resolved[f].name] = manifest[j].resolved[f].sha
    <3>1. todo[j] = {} /\ manifest[j].resolved = resolved[j] /\ Staged(j)
      BY <2>1 DEF ArchiveInv, JobOK, Inscribed
    <3> QED BY <2>1, <3>1, BundleIs DEF Staged
  <2> QED BY <2>1 DEF Replayable, ArchiveInv, Expired
<1> QED BY <1>1, InitArchive, NextArchive, PTL DEF Spec

(* The table of the server, the manifest and the row of a job agree, for    *)
(* any outputs, whatever the workers announce and wherever jobs are cut.    *)
THEOREM RecordsTell == Spec => []RecordsAgree
<1>1. ArchiveInv => RecordsAgree
  <2> SUFFICES ASSUME ArchiveInv, NEW j \in Jobs
               PROVE  /\ manifest[j].ok => Required \subseteq outputs[j] /\ j \in leased
                      /\ rows[j] # "none" => j \in leased /\ rows[j] = FromDisk(j)
                      /\ state[j] = "running" => place[j] \notin {"none", "over", "dead"}
                      /\ place[j] = "over" =>
                           /\ state[j] = "done" => FromDisk(j) = "done" /\ rows[j] = "done"
                           /\ faults = 0 /\ manifest[j].is = "whole" =>
                                FromDisk(j) = state[j] /\ (rows[j] # "none" <=> j \in leased)
    BY DEF RecordsAgree
  <2>1. Inscribed(j) /\ Told(j) /\ place[j] \in Places /\ manifest[j] \in Manifest
    BY DEF ArchiveInv, JobOK, ArchiveTyped
  <2>2. manifest[j].ok => Required \subseteq outputs[j] /\ j \in leased
    BY <2>1 DEF Inscribed, Ok, Missing
  <2>3. state[j] = "running" => place[j] \notin {"none", "over", "dead"}
    BY <2>1 DEF Told, Places, Early
  <2> QED BY <2>1, <2>2, <2>3 DEF Told
<1> QED BY <1>1, InitArchive, NextArchive, PTL DEF Spec

-----------------------------------------------------------------------------
(* The registry: what is loaded is no older than its signature, which is   *)
(* no newer than the documents.                                            *)

Dated == [Documents -> Nat]
Partial == UNION {[D -> Nat] : D \in SUBSET Documents}
Question == [at : {"idle", "signing", "signed", "loading", "served"}, took : Partial, since : Partial, got : Partial]

(* Each document is no older in y than in x. *)
Before(x, y) == \A d \in Documents : x[d] <= y[d]

RegistryTyped ==
  /\ writes \in Nat
  /\ docs \in Dated /\ \A d \in Documents : docs[d] <= writes + 1
  /\ ask \in [Requests -> Question]

AskOK(a) ==
  /\ a.at # "idle" => a.since \in Dated /\ Before(a.since, docs)
  /\ a.at = "signing" => \A d \in DOMAIN a.took : a.since[d] <= a.took[d] /\ a.took[d] <= docs[d]
  /\ a.at \notin {"idle", "signing"} => a.took \in Dated /\ Before(a.since, a.took) /\ Before(a.took, docs)
  /\ a.at = "loading" => \A d \in DOMAIN a.got : a.took[d] <= a.got[d]
  /\ a.at = "served" => a.got \in Dated /\ Before(a.since, a.got)

RegistryInv ==
  /\ RegistryTyped
  /\ \A q \in Requests : AskOK(ask[q])
  /\ registry # <<>> =>
       registry \in Dated /\ signature \in Dated /\ Before(signature, registry)

LEMMA EmptyPartial == <<>> \in Partial
<1>1. <<>> \in [{} -> Nat]
  OBVIOUS
<1> QED BY <1>1 DEF Partial

LEMMA DatedPartial == Dated \subseteq Partial
BY DEF Dated, Partial

LEMMA PartialType ==
  ASSUME NEW f \in Partial
  PROVE  DOMAIN f \subseteq Documents /\ f \in [DOMAIN f -> Nat]
BY DEF Partial

LEMMA PartialOf ==
  ASSUME NEW D \in SUBSET Documents, NEW f \in [D -> Nat]
  PROVE  f \in Partial
BY DEF Partial

LEMMA WithPartial ==
  ASSUME docs \in Dated, NEW g \in Partial, NEW d \in Documents
  PROVE  /\ With(g, d) \in Partial /\ DOMAIN With(g, d) = DOMAIN g \cup {d}
         /\ \A e \in DOMAIN With(g, d) : With(g, d)[e] = IF e = d THEN docs[d] ELSE g[e]
<1>1. DOMAIN g \cup {d} \in SUBSET Documents /\ docs[d] \in Nat /\ \A e \in DOMAIN g : g[e] \in Nat
  BY PartialType DEF Dated
<1>2. With(g, d) \in [DOMAIN g \cup {d} -> Nat]
  BY <1>1 DEF With
<1> QED BY <1>1, <1>2, PartialOf DEF With

LEMMA InitRegistry == CachesInit => RegistryInv
<1> SUFFICES ASSUME CachesInit PROVE RegistryInv
  OBVIOUS
<1>1. Unasked \in Question /\ Unasked.at = "idle"
  BY EmptyPartial DEF Unasked, Question
<1>2. ask \in [Requests -> Question] /\ \A q \in Requests : ask[q].at = "idle"
  BY <1>1 DEF CachesInit
<1>3. writes = 0 /\ docs = [d \in Documents |-> 1] /\ registry = <<>>
  BY DEF CachesInit
<1> QED BY <1>2, <1>3 DEF RegistryInv, RegistryTyped, AskOK, Dated

(* Documents only become newer. *)
LEMMA OlderStays ==
  ASSUME RegistryInv, docs' \in Dated, Before(docs, docs'), NEW q \in Requests
  PROVE  AskOK(ask[q])'  \/ ask'[q] # ask[q]
<1> SUFFICES ASSUME ask'[q] = ask[q] PROVE AskOK(ask[q])'
  OBVIOUS
<1>1. AskOK(ask[q]) /\ docs \in Dated
  BY DEF RegistryInv, RegistryTyped
<1>2. ask[q].at # "idle" => Before(ask[q].since, docs')
  BY <1>1 DEF AskOK, Before, Dated
<1>3. ask[q].at \notin {"idle", "signing"} => Before(ask[q].took, docs')
  BY <1>1 DEF AskOK, Before, Dated
<1>4. ask[q].at = "signing" => \A d \in DOMAIN ask[q].took : ask[q].took[d] <= docs'[d]
  <2> SUFFICES ASSUME ask[q].at = "signing", NEW d \in DOMAIN ask[q].took PROVE ask[q].took[d] <= docs'[d]
    OBVIOUS
  <2>1. ask[q].took \in Partial
    BY DEF RegistryInv, RegistryTyped, Question
  <2>2. d \in Documents /\ ask[q].took[d] \in Nat
    BY <2>1, PartialType
  <2> QED BY <1>1, <2>2 DEF AskOK, Before, Dated
<1> QED BY <1>1, <1>2, <1>3, <1>4 DEF AskOK, Before

(* A step that changes one request and no document. *)
LEMMA OneAsk ==
  ASSUME RegistryInv, UNCHANGED <<writes, docs>>, NEW q \in Requests, NEW a \in Question,
         ask' = [ask EXCEPT ![q] = a], AskOK(a)
  PROVE  RegistryTyped' /\ \A p \in Requests : AskOK(ask[p])'
<1>1. ask' \in [Requests -> Question] /\ ask'[q] = a /\ \A p \in Requests \ {q} : ask'[p] = ask[p]
  BY DEF RegistryInv, RegistryTyped
<1>2. \A p \in Requests : AskOK(ask[p])'
  BY <1>1 DEF RegistryInv, AskOK, Before
<1> QED BY <1>1, <1>2 DEF RegistryInv, RegistryTyped

LEMMA NextRegistry == RegistryInv /\ [CachesNext]_cachesVars => RegistryInv'
<1> SUFFICES ASSUME RegistryInv, [CachesNext]_cachesVars PROVE RegistryInv'
  OBVIOUS
<1> USE DEF RegistryInv
<1>t. /\ writes \in Nat /\ docs \in Dated /\ ask \in [Requests -> Question]
      /\ \A d \in Documents : docs[d] \in Nat /\ docs[d] <= writes + 1
      /\ \A q \in Requests : ask[q] \in Question /\ AskOK(ask[q])
  BY DEF RegistryTyped, Dated
<1>1. ASSUME UNCHANGED registryVars, writes' \in Nat, writes <= writes' PROVE RegistryInv'
  <2>1. RegistryTyped'
    BY <1>t, <1>1 DEF registryVars, RegistryTyped
  <2> QED BY <1>t, <1>1, <2>1 DEF registryVars, AskOK, Before
<1>2. CASE HashNext
  <2>1. UNCHANGED registryVars /\ writes' \in {writes, writes + 1}
    BY <1>2 DEF HashNext, RemoveFile, WriteFile, Walk, Fill, Replace, BeginVerify, Stat, Read, Put,
                Adopt, Kept
  <2> QED BY <1>1, <1>t, <2>1
<1>3. ASSUME NEW d \in Documents, WriteDocument(d) PROVE RegistryInv'
  <2>1. writes' = writes + 1 /\ docs' = [docs EXCEPT ![d] = writes + 2]
        /\ UNCHANGED <<registry, signature, ask>>
    BY <1>3 DEF WriteDocument, Fresh
  <2>2. docs' \in Dated /\ Before(docs, docs') /\ \A e \in Documents : docs'[e] <= writes' + 1
    BY <1>t, <2>1 DEF Dated, Before
  <2>3. \A q \in Requests : AskOK(ask[q])'
    BY <2>1, <2>2, OlderStays
  <2> QED BY <1>t, <2>1, <2>2, <2>3 DEF RegistryTyped, Before
<1>4. ASSUME NEW q \in Requests, Arrive(q) PROVE RegistryInv'
  <2> DEFINE a == [Unasked EXCEPT !.at = "signing", !.since = docs]
  <2>1. a \in Question /\ a.at = "signing" /\ a.took = <<>> /\ a.since = docs
    BY <1>t, EmptyPartial, DatedPartial DEF Unasked, Question
  <2>2. AskOK(a)
    <3>1. DOMAIN <<>> = {}
      OBVIOUS
    <3> QED BY <1>t, <2>1, <3>1 DEF AskOK, Before, Dated
  <2>3. ask' = [ask EXCEPT ![q] = a] /\ UNCHANGED <<writes, docs, registry, signature>>
    BY <1>4 DEF Arrive
  <2> HIDE DEF a
  <2> QED BY <2>1, <2>2, <2>3, OneAsk DEF Before
<1>5. ASSUME NEW q \in Requests, Compare(q) PROVE RegistryInv'
  <2> DEFINE stale == registry = <<>> \/ signature # ask[q].took
             a == IF stale THEN [ask[q] EXCEPT !.at = "loading", !.got = <<>>]
                           ELSE [ask[q] EXCEPT !.at = "served", !.got = registry]
  <2>1. ask[q].at = "signed" /\ ask' = [ask EXCEPT ![q] = a]
        /\ UNCHANGED <<writes, docs, registry, signature>>
    BY <1>t, <1>5 DEF Compare
  <2>2. a \in Question /\ AskOK(a)
    <3>1. CASE stale
      <4>1. a \in Question /\ a.at = "loading" /\ a.took = ask[q].took /\ a.since = ask[q].since
            /\ a.got = <<>>
        BY <1>t, <3>1, EmptyPartial DEF Question
      <4>2. DOMAIN <<>> = {}
        OBVIOUS
      <4> QED BY <1>t, <2>1, <4>1, <4>2 DEF AskOK
    <3>2. CASE ~stale
      <4>1. a \in Question /\ a.at = "served" /\ a.took = ask[q].took /\ a.since = ask[q].since
            /\ a.got = registry
        BY <1>t, <3>2, DatedPartial DEF Question
      <4>2. /\ ask[q].since \in Dated /\ Before(ask[q].since, docs) /\ Before(ask[q].took, docs)
            /\ ask[q].took \in Dated /\ Before(ask[q].since, ask[q].took)
        BY <1>t, <2>1 DEF AskOK
      <4>3. registry \in Dated /\ Before(ask[q].took, registry)
        BY <3>2
      <4>4. Before(ask[q].since, registry)
        BY <4>2, <4>3 DEF Before, Dated
      <4> HIDE DEF a
      <4> QED BY <4>1, <4>2, <4>3, <4>4 DEF AskOK
    <3> QED BY <3>1, <3>2
  <2> HIDE DEF a
  <2> QED BY <2>1, <2>2, OneAsk DEF Before
<1>9. ASSUME NEW q \in Requests, NEW d \in Documents, Sign(q, d) PROVE RegistryInv'
  <2> DEFINE g == ask[q].took
             h == With(g, d)
             over == DOMAIN h = Documents
             a == [ask[q] EXCEPT !.took = h, !.at = IF over THEN "signed" ELSE "signing"]
  <2>1. ask[q].at = "signing" /\ ask' = [ask EXCEPT ![q] = a]
        /\ UNCHANGED <<writes, docs, registry, signature>>
    BY <1>t, <1>9 DEF Sign
  <2>2. g \in Partial
    BY <1>t DEF Question
  <2>3. /\ h \in Partial /\ DOMAIN h = DOMAIN g \cup {d}
        /\ \A e \in DOMAIN h : h[e] = IF e = d THEN docs[d] ELSE g[e]
    BY <1>t, <2>2, WithPartial
  <2>4. /\ a \in Question /\ a.since = ask[q].since /\ a.took = h
        /\ a.at = IF over THEN "signed" ELSE "signing"
    <3>1. ask[q] \in Question
      BY <1>t
    <3> HIDE DEF h, over
    <3> QED BY <2>3, <3>1 DEF Question
  <2>5. ask[q].since \in Dated /\ Before(ask[q].since, docs)
    BY <1>t, <2>1 DEF AskOK
  <2>6. \A e \in DOMAIN h : ask[q].since[e] <= h[e] /\ h[e] <= docs[e]
    <3> SUFFICES ASSUME NEW e \in DOMAIN h PROVE ask[q].since[e] <= h[e] /\ h[e] <= docs[e]
      OBVIOUS
    <3>1. e \in Documents
      BY <2>2, <2>3, PartialType
    <3>2. CASE e = d
      BY <1>t, <2>3, <2>5, <3>1, <3>2 DEF Before, Dated
    <3>3. CASE e # d
      BY <1>t, <2>1, <2>3, <3>3 DEF AskOK
    <3> QED BY <3>2, <3>3
  <2> HIDE DEF h, a, g
  <2>7. over => h \in Dated /\ Before(ask[q].since, h) /\ Before(h, docs)
    <3>1. over => h \in Dated
      BY <2>3, PartialType DEF Dated
    <3> QED BY <2>6, <3>1 DEF Before
  <2>8. AskOK(a)
    BY <2>4, <2>5, <2>6, <2>7 DEF AskOK
  <2> QED BY <2>1, <2>4, <2>8, OneAsk DEF Before
<1>6. ASSUME NEW q \in Requests, NEW d \in Documents, LoadDocument(q, d) PROVE RegistryInv'
  <2> DEFINE g == ask[q].got
             h == With(g, d)
             a == [ask[q] EXCEPT !.got = h]
  <2>1. ask[q].at = "loading" /\ ask' = [ask EXCEPT ![q] = a]
        /\ UNCHANGED <<writes, docs, registry, signature>>
    BY <1>t, <1>6 DEF LoadDocument
  <2>2. g \in Partial
    BY <1>t DEF Question
  <2>4. /\ h \in Partial /\ DOMAIN h = DOMAIN g \cup {d}
        /\ \A e \in DOMAIN h : h[e] = IF e = d THEN docs[d] ELSE g[e]
    BY <1>t, <2>2, WithPartial
  <2>5. a \in Question /\ a.at = "loading" /\ a.took = ask[q].took /\ a.since = ask[q].since /\ a.got = h
    <3> HIDE DEF h
    <3> QED BY <1>t, <2>1, <2>4 DEF Question
  <2>6. \A e \in DOMAIN h : ask[q].took[e] <= h[e]
    <3> HIDE DEF h
    <3> QED BY <1>t, <2>1, <2>2, <2>4, PartialType DEF AskOK, Before
  <2>7. AskOK(a)
    <3> HIDE DEF h, a
    <3> QED BY <1>t, <2>1, <2>5, <2>6 DEF AskOK
  <2> HIDE DEF a
  <2> QED BY <2>1, <2>5, <2>7, OneAsk DEF Before
<1>7. ASSUME NEW q \in Requests, Serve(q) PROVE RegistryInv'
  <2> DEFINE a == [ask[q] EXCEPT !.at = "served"]
  <2>1. /\ ask[q].at = "loading" /\ DOMAIN ask[q].got = Documents
        /\ registry' = ask[q].got /\ signature' = ask[q].took
        /\ ask' = [ask EXCEPT ![q] = a] /\ UNCHANGED <<writes, docs>>
    BY <1>t, <1>7 DEF Serve, SignedAs
  <2>2. ask[q].got \in Dated /\ ask[q].took \in Dated /\ Before(ask[q].took, ask[q].got)
    <3>1. ask[q].got \in Partial
      BY <1>t DEF Question
    <3> QED BY <1>t, <2>1, <3>1, PartialType DEF AskOK, Before, Dated
  <2>5. ask[q].since \in Dated /\ Before(ask[q].since, ask[q].took)
    BY <1>t, <2>1 DEF AskOK
  <2>6. Before(ask[q].since, ask[q].got)
    BY <2>2, <2>5 DEF Before, Dated
  <2>3. a \in Question /\ a.at = "served" /\ a.took = ask[q].took /\ a.since = ask[q].since
        /\ a.got = ask[q].got
    BY <1>t DEF Question
  <2>4. AskOK(a)
    BY <1>t, <2>1, <2>2, <2>3, <2>6 DEF AskOK
  <2> HIDE DEF a
  <2> QED BY <2>1, <2>2, <2>3, <2>4, OneAsk DEF Before
<1>8. CASE UNCHANGED cachesVars
  BY <1>1, <1>8, <1>t DEF cachesVars
<1> QED BY <1>2, <1>3, <1>4, <1>5, <1>6, <1>7, <1>8, <1>9 DEF CachesNext, RegistryNext

(* A request is served documents no older than those it found on arriving,  *)
(* however many requests reload and whatever is written meanwhile.          *)
THEOREM RegistryIsFresh == CachesSpec => []RegistryFresh
<1>1. RegistryInv => RegistryFresh
  BY DEF RegistryInv, RegistryTyped, AskOK, Before, RegistryFresh, Dated
<1> QED BY <1>1, InitRegistry, NextRegistry, PTL DEF CachesSpec

-----------------------------------------------------------------------------
(* The hashes: one that is kept under a stat is of the content the file    *)
(* has as long as it has that stat, for stats only grow.                   *)

Hash == Contents \cup {NoSha}
Row == [stat : Nat, size : Nat, sha : Hash, source : {"none", "announced", "verified"}, said : Hash]
Verification ==
  [at : {"idle", "stat", "read", "put", "adopt"}, todo : SUBSET Paths, force : BOOLEAN,
   stat : Nat, sha : Hash]

HashTyped ==
  /\ writes \in Nat
  /\ disk \in [Paths -> [stat : Nat, content : Hash]]
  /\ cache \in [Paths -> [stat : Nat, sha : Hash]]
  /\ seen \in [Paths -> Row]
  /\ walk \in [at : {"idle", "fill", "replace"}, rows : [Paths -> Row]]
  /\ check \in [Verifiers -> Verification]

(* A file that is there has been written. *)
There(p) == disk[p].stat \in 1 .. writes + 1 /\ disk[p].content \in Contents

(* A stat that was read of p, the hash that is kept under it. *)
Past(p, stat) == stat \in 0 .. writes + 1 /\ (disk[p] # Gone => stat <= disk[p].stat)
TrueUnder(p, stat, sha) == disk[p] # Gone /\ disk[p].stat = stat => sha = disk[p].content

CacheOK(p) ==
  /\ Past(p, cache[p].stat)
  /\ cache[p].sha # NoSha => TrueUnder(p, cache[p].stat, cache[p].sha)

(* What a row says was announced is what the name announces. *)
RowOK(p, row) ==
  /\ Past(p, row.stat)
  /\ row # Nothing => row.stat > 0 /\ row.said \in {NoSha, NamedAs[p]}
  /\ row.source = "announced" => row.sha = NamedAs[p]
  /\ row.source = "none" /\ row # Nothing => row.said = NamedAs[p]
  /\ row.source = "verified" => row # Nothing /\ row.said = NamedAs[p]
RowTrue(p, row) == row.source = "verified" => TrueUnder(p, row.stat, row.sha)

(* A verification under way; no scan has changed the rows since it began.  *)
Aim(c) == CHOOSE p \in c.todo : TRUE
CheckOK(c) ==
  /\ c.at # "idle" => c.todo # {}
  /\ c.at \in {"read", "put", "adopt"} =>
       /\ Past(Aim(c), c.stat)
       /\ ~Overlap => seen[Aim(c)].stat <= c.stat
  /\ c.at \in {"put", "adopt"} => TrueUnder(Aim(c), c.stat, c.sha)

HashInv ==
  /\ HashTyped
  /\ \A p \in Paths :
       /\ disk[p] = Gone \/ There(p)
       /\ CacheOK(p)
       /\ RowOK(p, seen[p]) /\ RowOK(p, walk.rows[p])
       /\ RowTrue(p, walk.rows[p]) /\ (~Overlap => RowTrue(p, seen[p]))
       /\ walk.rows[p] # Nothing => walk.rows[p].said = NamedAs[p]
  /\ \A v \in Verifiers : CheckOK(check[v])
  /\ ~Overlap /\ walk.at # "idle" => \A v \in Verifiers : check[v].at = "idle"

LEMMA NothingIs ==
  /\ Nothing \in Row /\ Nothing.stat = 0 /\ Nothing.source = "none"
BY DEF Nothing, Row, Hash

LEMMA GoneIs == Gone.stat = 0 /\ Gone.content = NoSha
BY DEF Gone

LEMMA FormerIs ==
  ASSUME HashTyped, NEW p \in Paths, There(p)
  PROVE  /\ Former(p, disk[p]) \in Row /\ Former(p, disk[p]).stat = disk[p].stat
         /\ Former(p, disk[p]).said = NoSha /\ Former(p, disk[p]).sha = NamedAs[p]
         /\ Former(p, disk[p]).source = IF NamedAs[p] = NoSha THEN "none" ELSE "announced"
BY CachesAssumption DEF HashTyped, There, Former, Row, Hash

LEMMA ObservedIs ==
  ASSUME HashInv, NEW p \in Paths
  PROVE  /\ Observed(p) \in Row /\ RowOK(p, Observed(p)) /\ Observed(p).source # "verified"
         /\ Observed(p) # Nothing => Observed(p).said = NamedAs[p]
<1>1. CASE disk[p] = Gone
  BY <1>1, NothingIs DEF Observed, RowOK, Past, HashInv, HashTyped
<1>2. CASE disk[p] # Gone
  <2> DEFINE f == Former(p, disk[p])
             o == [f EXCEPT !.said = NamedAs[p]]
  <2>1. There(p) /\ writes \in Nat
    BY <1>2 DEF HashInv, HashTyped
  <2>2. f \in Row /\ f.stat = disk[p].stat /\ f.sha = NamedAs[p]
        /\ f.source = IF NamedAs[p] = NoSha THEN "none" ELSE "announced"
    BY <2>1, FormerIs DEF HashInv
  <2>3. NamedAs[p] \in Hash
    BY CachesAssumption DEF Hash
  <2>4. o \in Row /\ o.stat = disk[p].stat /\ o.sha = NamedAs[p] /\ o.said = NamedAs[p]
        /\ o.source = IF NamedAs[p] = NoSha THEN "none" ELSE "announced"
    <3> HIDE DEF f
    <3> QED BY <2>2, <2>3 DEF Row
  <2>5. Observed(p) = o
    BY <1>2 DEF Observed
  <2> HIDE DEF o
  <2> QED BY <2>1, <2>4, <2>5 DEF There, RowOK, Past
<1> QED BY <1>1, <1>2

LEMMA InitHash == CachesInit => HashInv
<1> SUFFICES ASSUME CachesInit PROVE HashInv
  OBVIOUS
<1>1. PICK first \in [Paths -> Contents] : disk = [p \in Paths |-> [stat |-> 1, content |-> first[p]]]
  BY DEF CachesInit
<1>2. writes = 0 /\ disk \in [Paths -> [stat : Nat, content : Hash]]
  BY <1>1 DEF CachesInit, Hash
<1>3. \A p \in Paths : disk[p].stat = 1 /\ There(p)
  BY <1>1, <1>2 DEF There
<1>4. /\ cache = [p \in Paths |-> [stat |-> 0, sha |-> NoSha]]
      /\ walk = Calm /\ check = [v \in Verifiers |-> Idle]
  BY DEF CachesInit
<1>5. cache \in [Paths -> [stat : Nat, sha : Hash]] /\ \A p \in Paths : CacheOK(p)
  BY <1>2, <1>3, <1>4 DEF CacheOK, Past, Hash
<1>6. Idle \in Verification /\ Idle.at = "idle"
  BY DEF Idle, Verification, Hash
<1>7. check \in [Verifiers -> Verification] /\ \A v \in Verifiers : check[v].at = "idle" /\ CheckOK(check[v])
  BY <1>4, <1>6 DEF CheckOK
<1>8. /\ walk \in [at : {"idle", "fill", "replace"}, rows : [Paths -> Row]]
      /\ \A p \in Paths : /\ RowOK(p, walk.rows[p]) /\ RowTrue(p, walk.rows[p])
                          /\ walk.rows[p] = Nothing
  <2>1. walk.at = "idle" /\ walk.rows = [p \in Paths |-> Nothing]
        /\ walk = [at |-> "idle", rows |-> [p \in Paths |-> Nothing]]
    BY <1>4 DEF Calm
  <2> QED BY <1>2, <2>1, NothingIs DEF RowOK, RowTrue, Past
<1>9. \A p \in Paths : Former(p, disk[p]) \in Row /\ RowOK(p, Former(p, disk[p]))
                       /\ Former(p, disk[p]).source # "verified"
  <2> SUFFICES ASSUME NEW p \in Paths
               PROVE  Former(p, disk[p]) \in Row /\ RowOK(p, Former(p, disk[p]))
                      /\ Former(p, disk[p]).source # "verified"
    OBVIOUS
  <2>1. disk[p].content \in Contents /\ disk[p].stat = 1
    BY <1>3 DEF There
  <2> DEFINE f == Former(p, disk[p])
  <2>2. f \in Row /\ f.stat = 1 /\ f.said = NoSha /\ f.sha = NamedAs[p]
        /\ f.source = IF NamedAs[p] = NoSha THEN "none" ELSE "announced"
    BY <2>1, CachesAssumption DEF Former, Row, Hash
  <2>3. f # Nothing
    BY <2>2, NothingIs
  <2> HIDE DEF f
  <2> QED BY <1>2, <2>1, <2>2, <2>3 DEF RowOK, Past, f
<1>10. seen = [p \in Paths |-> Former(p, disk[p])]
  BY DEF CachesInit
<1>11. seen \in [Paths -> Row] /\ \A p \in Paths : RowOK(p, seen[p]) /\ RowTrue(p, seen[p])
  BY <1>9, <1>10 DEF RowTrue
<1> QED BY <1>2, <1>3, <1>5, <1>7, <1>8, <1>11 DEF HashInv, HashTyped

(* While files are written, what was read keeps its stat and its truth.    *)
LEMMA Meanwhile ==
  ASSUME HashInv, NEW p \in Paths, writes' \in Nat, writes <= writes',
         \/ disk'[p] \in {disk[p], Gone}
         \/ disk'[p].stat = writes + 2 /\ disk'[p].content \in Contents /\ writes' = writes + 1
  PROVE  /\ disk'[p] = Gone \/ There(p)'
         /\ \A stat, sha : Past(p, stat) =>
              Past(p, stat)' /\ (TrueUnder(p, stat, sha) => TrueUnder(p, stat, sha)')
<1>1. writes \in Nat /\ (disk[p] = Gone \/ There(p))
  BY DEF HashInv, HashTyped
<1> QED BY <1>1 DEF There, Past, TrueUnder

LEMMA DiskStep ==
  ASSUME HashInv, UNCHANGED hashVars, writes' \in Nat, writes <= writes',
         disk' \in [Paths -> [stat : Nat, content : Hash]],
         \A p \in Paths :
           \/ disk'[p] \in {disk[p], Gone}
           \/ disk'[p].stat = writes + 2 /\ disk'[p].content \in Contents /\ writes' = writes + 1
  PROVE  HashInv'
<1>1. /\ UNCHANGED <<seen, cache, walk, check>>
      /\ seen \in [Paths -> Row] /\ walk.rows \in [Paths -> Row] /\ check \in [Verifiers -> Verification]
  BY DEF hashVars, HashInv, HashTyped
<1>2. HashTyped'
  BY <1>1 DEF HashInv, HashTyped
<1>3. ASSUME NEW p \in Paths
      PROVE  /\ disk'[p] = Gone \/ There(p)'
             /\ \A stat, sha : Past(p, stat) =>
                  Past(p, stat)' /\ (TrueUnder(p, stat, sha) => TrueUnder(p, stat, sha)')
  BY <1>3, Meanwhile
<1>4. ASSUME NEW p \in Paths
      PROVE  /\ CacheOK(p)'
             /\ RowOK(p, seen[p])' /\ RowOK(p, walk.rows[p])'
             /\ RowTrue(p, walk.rows[p])' /\ (~Overlap => RowTrue(p, seen[p])')
  <2>1. CacheOK(p)'
    BY <1>1, <1>3 DEF HashInv, CacheOK
  <2>2. \A row \in Row : /\ RowOK(p, row) => RowOK(p, row)'
                         /\ RowOK(p, row) /\ RowTrue(p, row) => RowTrue(p, row)'
    BY <1>3 DEF RowOK, RowTrue
  <2> QED BY <1>1, <2>1, <2>2 DEF HashInv, RowOK, RowTrue
<1>5. ASSUME NEW v \in Verifiers PROVE CheckOK(check[v])'
  <2>1. CheckOK(check[v]) /\ check[v] \in Verification /\ check'[v] = check[v] /\ seen' = seen
    BY <1>1 DEF HashInv
  <2>2. check[v].todo # {} => Aim(check[v]) \in Paths
    BY <2>1 DEF Aim, Verification
  <2>3. Aim(check[v])' = Aim(check[v])
    BY <2>1 DEF Aim
  <2>4. check[v].at \in {"read", "put", "adopt"} => Past(Aim(check[v]), check[v].stat)'
    <3> DEFINE p == Aim(check[v])
    <3>1. SUFFICES ASSUME check[v].at \in {"read", "put", "adopt"} PROVE Past(p, check[v].stat)'
      OBVIOUS
    <3>2. p \in Paths /\ Past(p, check[v].stat) /\ p' = p
      BY <2>1, <2>2, <2>3, <3>1 DEF CheckOK
    <3> HIDE DEF p
    <3> QED BY <1>3, <2>1, <3>2 DEF Past
  <2>5. check[v].at \in {"put", "adopt"} => TrueUnder(Aim(check[v]), check[v].stat, check[v].sha)'
    <3> DEFINE p == Aim(check[v])
    <3>1. SUFFICES ASSUME check[v].at \in {"put", "adopt"} PROVE TrueUnder(p, check[v].stat, check[v].sha)'
      OBVIOUS
    <3>2. p \in Paths /\ Past(p, check[v].stat) /\ TrueUnder(p, check[v].stat, check[v].sha) /\ p' = p
      BY <2>1, <2>2, <2>3, <3>1 DEF CheckOK
    <3> HIDE DEF p
    <3> QED BY <1>3, <2>1, <3>2 DEF Past, TrueUnder
  <2> QED BY <2>1, <2>3, <2>4, <2>5 DEF CheckOK
<1> QED BY <1>1, <1>2, <1>3, <1>4, <1>5 DEF HashInv

(* A step of a verification, which leaves the stats of the rows.           *)
LEMMA CheckStep ==
  ASSUME HashInv, UNCHANGED <<disk, writes, walk>>, cache' \in [Paths -> [stat : Nat, sha : Hash]],
         seen' \in [Paths -> Row], \A p \in Paths : seen'[p].stat = seen[p].stat,
         \A p \in Paths : CacheOK(p)' /\ RowOK(p, seen'[p]) /\ (~Overlap => RowTrue(p, seen'[p])),
         NEW v \in Verifiers, NEW c \in Verification, CheckOK(c),
         check' = [check EXCEPT ![v] = c],
         ~Overlap /\ walk.at # "idle" => c.at = "idle"
  PROVE  HashInv'
<1>1. /\ check' \in [Verifiers -> Verification]
      /\ check'[v] = c /\ \A u \in Verifiers \ {v} : check'[u] = check[u]
  BY DEF HashInv, HashTyped
<1>2. HashTyped'
  BY <1>1 DEF HashInv, HashTyped
<1>3. \A p \in Paths : /\ \A row : RowOK(p, row)' = RowOK(p, row) /\ RowTrue(p, row)' = RowTrue(p, row)
                       /\ There(p)' = There(p)
                       /\ \A x, y : Past(p, x)' = Past(p, x) /\ TrueUnder(p, x, y)' = TrueUnder(p, x, y)
  BY DEF RowOK, RowTrue, There, Past, TrueUnder
<1>4. ASSUME NEW d \in Verification, CheckOK(d) PROVE CheckOK(d)'
  <2>1. d.todo # {} => Aim(d) \in Paths
    BY DEF Aim, Verification
  <2>2. d.at # "idle" => d.todo # {}
    BY <1>4 DEF CheckOK
  <2>3. d.at \in {"read", "put", "adopt"} =>
          Past(Aim(d), d.stat)' /\ (~Overlap => seen'[Aim(d)].stat <= d.stat)
    BY <1>3, <1>4, <2>1, <2>2 DEF CheckOK
  <2>4. d.at \in {"put", "adopt"} => TrueUnder(Aim(d), d.stat, d.sha)'
    BY <1>3, <1>4, <2>1, <2>2 DEF CheckOK
  <2> QED BY <2>2, <2>3, <2>4 DEF CheckOK, Aim
<1>5. ASSUME NEW u \in Verifiers PROVE CheckOK(check[u])'
  <2>1. check'[u] \in Verification /\ CheckOK(check'[u])
    BY <1>1 DEF HashInv, HashTyped
  <2> QED BY <1>4, <2>1 DEF CheckOK, Aim
<1> QED BY <1>1, <1>2, <1>3, <1>5 DEF HashInv, RowOK, RowTrue, There

LEMMA FollowingIs ==
  ASSUME HashInv, NEW v \in Verifiers, check[v].at # "idle"
  PROVE  /\ At(v) = Aim(check[v]) /\ At(v) \in Paths
         /\ Following(v) \in Verification /\ CheckOK(Following(v))
         /\ Following(v).at \in {"idle", "stat"}
<1>1. check[v] \in Verification /\ CheckOK(check[v])
  BY DEF HashInv, HashTyped
<1>2. At(v) = Aim(check[v]) /\ At(v) \in Paths
  BY <1>1 DEF At, Aim, CheckOK, Verification
<1>3. Idle \in Verification /\ Idle.at = "idle"
  BY DEF Idle, Verification, Hash
<1> DEFINE left == check[v].todo \ {At(v)}
           c == [check[v] EXCEPT !.at = "stat", !.todo = left]
<1>4. c \in Verification /\ c.at = "stat" /\ c.todo = left
  BY <1>1 DEF Verification
<1>5. Following(v) = IF left = {} THEN Idle ELSE c
  BY DEF Following
<1> HIDE DEF c, left
<1> QED BY <1>2, <1>3, <1>4, <1>5 DEF CheckOK

LEMMA WalkStep == ASSUME HashInv, Walk PROVE HashInv'
<1>1. /\ walk' = [at |-> "fill", rows |-> [p \in Paths |-> Observed(p)]]
      /\ UNCHANGED <<disk, writes, seen, cache, check>>
      /\ Overlap \/ \A v \in Verifiers : check[v].at = "idle"
  BY DEF Walk, Kept
<1>2. \A p \in Paths : /\ Observed(p) \in Row /\ RowOK(p, Observed(p))
                       /\ Observed(p).source # "verified"
                       /\ Observed(p) # Nothing => Observed(p).said = NamedAs[p]
  BY ObservedIs
<1>3. /\ walk'.at = "fill" /\ walk'.rows \in [Paths -> Row]
      /\ walk' \in [at : {"idle", "fill", "replace"}, rows : [Paths -> Row]]
      /\ \A p \in Paths : walk'.rows[p] = Observed(p)
  BY <1>1, <1>2
<1>4. HashTyped'
  BY <1>1, <1>3 DEF HashInv, HashTyped
<1>5. \A p \in Paths : RowOK(p, walk.rows[p])' /\ RowTrue(p, walk.rows[p])'
                       /\ (walk'.rows[p] # Nothing => walk'.rows[p].said = NamedAs[p])
  BY <1>1, <1>2, <1>3 DEF RowOK, RowTrue, Past
<1>6. \A p \in Paths : /\ disk'[p] = Gone \/ There(p)'
                       /\ CacheOK(p)' /\ RowOK(p, seen[p])' /\ (~Overlap => RowTrue(p, seen[p])')
  BY <1>1 DEF HashInv, There, CacheOK, RowOK, RowTrue, Past, TrueUnder
<1>7. \A v \in Verifiers : CheckOK(check[v])'
  BY <1>1 DEF HashInv, CheckOK, Aim, Past, TrueUnder
<1> QED BY <1>1, <1>4, <1>5, <1>6, <1>7 DEF HashInv

LEMMA FillStep == ASSUME HashInv, Fill PROVE HashInv'
<1> DEFINE row(p) == walk.rows[p]
           read(p) == row(p) # Nothing /\ Hit(p, row(p).stat)
           with(p) == IF read(p) THEN [row(p) EXCEPT !.sha = cache[p].sha, !.source = "verified"]
                                 ELSE row(p)
<1>1. /\ walk.at = "fill" /\ walk' = [at |-> "replace", rows |-> [p \in Paths |-> with(p)]]
      /\ UNCHANGED <<disk, writes, seen, cache, check>>
  BY DEF Fill, Kept
<1>2. ASSUME NEW p \in Paths
      PROVE  /\ with(p) \in Row /\ RowOK(p, with(p)) /\ RowTrue(p, with(p))
             /\ with(p) # Nothing => with(p).said = NamedAs[p]
  <2>1. /\ row(p) \in Row /\ RowOK(p, row(p)) /\ RowTrue(p, row(p))
        /\ row(p) # Nothing => row(p).said = NamedAs[p]
        /\ cache[p] \in [stat : Nat, sha : Hash] /\ CacheOK(p)
    BY DEF HashInv, HashTyped
  <2>2. CASE read(p)
    <3> DEFINE w == [row(p) EXCEPT !.sha = cache[p].sha, !.source = "verified"]
    <3>1. /\ w \in Row /\ w.stat = row(p).stat /\ w.sha = cache[p].sha
          /\ w.source = "verified" /\ w.said = row(p).said
      BY <2>1 DEF Row
    <3>2. w # Nothing
      BY <3>1, NothingIs
    <3>3. cache[p].sha # NoSha /\ cache[p].stat = row(p).stat
      BY <2>2 DEF Hit
    <3>4. RowOK(p, w) /\ RowTrue(p, w)
      <4> HIDE DEF w, row
      <4> QED BY <2>1, <2>2, <3>1, <3>2, <3>3 DEF RowOK, RowTrue, CacheOK
    <3> QED BY <2>1, <2>2, <3>1, <3>4
  <2>3. CASE ~read(p)
    BY <2>1, <2>3
  <2> QED BY <2>2, <2>3
<1> HIDE DEF with
<1>3. /\ walk'.at = "replace" /\ walk'.rows \in [Paths -> Row]
      /\ walk' \in [at : {"idle", "fill", "replace"}, rows : [Paths -> Row]]
      /\ \A p \in Paths : walk'.rows[p] = with(p)
  BY <1>1, <1>2
<1>4. HashTyped'
  BY <1>1, <1>3 DEF HashInv, HashTyped
<1>5. \A p \in Paths : RowOK(p, walk.rows[p])' /\ RowTrue(p, walk.rows[p])'
                       /\ (walk'.rows[p] # Nothing => walk'.rows[p].said = NamedAs[p])
  BY <1>1, <1>2, <1>3 DEF RowOK, RowTrue, Past, TrueUnder
<1>6. \A p \in Paths : /\ disk'[p] = Gone \/ There(p)'
                       /\ CacheOK(p)' /\ RowOK(p, seen[p])' /\ (~Overlap => RowTrue(p, seen[p])')
  BY <1>1 DEF HashInv, There, CacheOK, RowOK, RowTrue, Past, TrueUnder
<1>7. \A v \in Verifiers : CheckOK(check[v])'
  BY <1>1 DEF HashInv, CheckOK, Aim, Past, TrueUnder
<1>8. ~Overlap => \A v \in Verifiers : check'[v].at = "idle"
  BY <1>1 DEF HashInv
<1> QED BY <1>4, <1>5, <1>6, <1>7, <1>8 DEF HashInv

LEMMA ReplaceStep == ASSUME HashInv, Replace PROVE HashInv'
<1>1. /\ walk.at = "replace" /\ walk' = Calm /\ seen' \in {seen, walk.rows}
      /\ UNCHANGED <<disk, writes, cache, check>>
  BY DEF Replace, Kept
<1>2. /\ walk'.at = "idle" /\ walk'.rows = [p \in Paths |-> Nothing]
      /\ walk' \in [at : {"idle", "fill", "replace"}, rows : [Paths -> Row]]
  <2>1. walk' = [at |-> "idle", rows |-> [p \in Paths |-> Nothing]]
    BY <1>1 DEF Calm
  <2> QED BY <2>1, NothingIs
<1>3. HashTyped'
  BY <1>1, <1>2 DEF HashInv, HashTyped
<1>4. \A p \in Paths : /\ walk'.rows[p] = Nothing
                       /\ RowOK(p, walk.rows[p])' /\ RowTrue(p, walk.rows[p])'
  BY <1>1, <1>2, NothingIs DEF RowOK, RowTrue, Past, HashInv, HashTyped
<1>5. ASSUME NEW p \in Paths PROVE RowOK(p, seen[p])' /\ (~Overlap => RowTrue(p, seen[p])')
  <2>1. RowOK(p, seen'[p]) /\ (~Overlap => RowTrue(p, seen'[p]))
    BY <1>1 DEF HashInv
  <2> QED BY <1>1, <2>1 DEF RowOK, RowTrue, Past, TrueUnder
<1>6. \A p \in Paths : (disk'[p] = Gone \/ There(p)') /\ CacheOK(p)'
  BY <1>1 DEF HashInv, There, CacheOK, Past, TrueUnder
<1>7. ASSUME NEW v \in Verifiers PROVE CheckOK(check[v])'
  <2>1. CheckOK(check[v]) /\ (~Overlap => check[v].at = "idle")
    BY <1>1 DEF HashInv
  <2> QED BY <1>1, <2>1 DEF CheckOK, Aim, Past, TrueUnder
<1> QED BY <1>2, <1>3, <1>4, <1>5, <1>6, <1>7 DEF HashInv

(* The steps of a verification. *)
LEMMA VerifySteps ==
  ASSUME HashInv, NEW v \in Verifiers,
         \/ \E aim \in Goals, force \in BOOLEAN : BeginVerify(v, aim, force)
         \/ Stat(v) \/ Read(v) \/ Put(v) \/ Adopt(v)
  PROVE  HashInv'
<1> DEFINE p == At(v)
           c == check[v]
<1>t. /\ c \in Verification /\ CheckOK(c)
      /\ cache \in [Paths -> [stat : Nat, sha : Hash]] /\ seen \in [Paths -> Row]
      /\ disk \in [Paths -> [stat : Nat, content : Hash]]
      /\ \A q \in Paths : /\ disk[q] = Gone \/ There(q)
                          /\ CacheOK(q) /\ RowOK(q, seen[q]) /\ (~Overlap => RowTrue(q, seen[q]))
  BY DEF HashInv, HashTyped
<1>f. c.at # "idle" =>
        /\ p = Aim(c) /\ p \in Paths /\ (~Overlap => walk.at = "idle")
        /\ Following(v) \in Verification /\ CheckOK(Following(v))
  BY FollowingIs DEF HashInv
<1>s. UNCHANGED <<disk, writes, cache>> => \A q \in Paths : CacheOK(q)'
  BY <1>t DEF CacheOK, Past, TrueUnder
<1>1. ASSUME NEW aim \in Goals, NEW force \in BOOLEAN, BeginVerify(v, aim, force)
      PROVE  HashInv'
  <2> DEFINE d == [Idle EXCEPT !.at = "stat", !.todo = aim, !.force = force]
  <2>1. aim \in SUBSET Paths
    BY DEF Goals, DedupCandidates, Rows
  <2>2. d \in Verification /\ d.at = "stat" /\ d.todo = aim
    BY <2>1 DEF Idle, Verification, Hash
  <2>3. /\ aim # {} /\ (~Overlap => walk.at = "idle")
        /\ check' = [check EXCEPT ![v] = d]
        /\ UNCHANGED <<disk, writes, walk, seen, cache>>
    BY <1>1 DEF BeginVerify, Kept
  <2>4. CheckOK(d)
    BY <2>2, <2>3 DEF CheckOK
  <2> HIDE DEF d
  <2> QED BY <1>s, <1>t, <2>2, <2>3, <2>4, CheckStep
<1>2. CASE Stat(v)
  <2> DEFINE now == disk[p].stat
             hit == ~c.force /\ Hit(p, now)
             adopted == [c EXCEPT !.at = "adopt", !.stat = now, !.sha = cache[p].sha]
             reading == [c EXCEPT !.at = "read", !.stat = now]
             d == IF disk[p] = Gone THEN Following(v) ELSE IF hit THEN adopted ELSE reading
  <2>1. /\ c.at = "stat" /\ check' = [check EXCEPT ![v] = d]
        /\ UNCHANGED <<disk, writes, walk, seen, cache>>
    BY <1>2 DEF Stat, Kept, HashInv, HashTyped
  <2>2. p = Aim(c) /\ p \in Paths /\ c.todo # {}
    BY <1>f, <1>t, <2>1 DEF CheckOK
  <2>3. disk[p] # Gone => Past(p, now) /\ seen[p].stat <= now
    BY <1>t, <2>2 DEF Past, There, RowOK, HashInv, HashTyped
  <2>4. d \in Verification /\ CheckOK(d)
    <3>1. CASE disk[p] = Gone
      BY <1>f, <2>1, <3>1
    <3>2. CASE disk[p] # Gone /\ hit
      <4>1. /\ adopted \in Verification /\ adopted.at = "adopt" /\ adopted.todo = c.todo
            /\ adopted.stat = now /\ adopted.sha = cache[p].sha
        BY <1>t, <2>2 DEF Verification
      <4>2. cache[p].sha # NoSha /\ cache[p].stat = now
        BY <3>2 DEF Hit
      <4>3. TrueUnder(p, now, cache[p].sha)
        BY <1>t, <2>2, <4>2 DEF CacheOK
      <4>4. Aim(adopted) = p
        BY <2>2, <4>1 DEF Aim
      <4> HIDE DEF adopted, now
      <4>5. CheckOK(adopted)
        BY <2>2, <2>3, <3>2, <4>1, <4>3, <4>4 DEF CheckOK
      <4> QED BY <3>2, <4>1, <4>5
    <3>3. CASE disk[p] # Gone /\ ~hit
      <4>1. /\ reading \in Verification /\ reading.at = "read" /\ reading.todo = c.todo
            /\ reading.stat = now
        BY <1>t, <2>2 DEF Verification
      <4>2. Aim(reading) = p
        BY <2>2, <4>1 DEF Aim
      <4> HIDE DEF reading, now
      <4>3. CheckOK(reading)
        BY <2>2, <2>3, <3>3, <4>1, <4>2 DEF CheckOK
      <4> QED BY <3>3, <4>1, <4>3
    <3> QED BY <3>1, <3>2, <3>3
  <2> HIDE DEF d
  <2> QED BY <1>f, <1>s, <1>t, <2>1, <2>4, CheckStep
<1>3. CASE Read(v)
  <2> DEFINE put == [c EXCEPT !.at = "put", !.sha = disk[p].content]
             d == IF disk[p] = Gone THEN Following(v) ELSE put
  <2>1. /\ c.at = "read" /\ check' = [check EXCEPT ![v] = d]
        /\ UNCHANGED <<disk, writes, walk, seen, cache>>
    BY <1>3 DEF Read, Kept, HashInv, HashTyped
  <2>2. p = Aim(c) /\ p \in Paths /\ c.todo # {}
    BY <1>f, <1>t, <2>1 DEF CheckOK
  <2>3. /\ put \in Verification /\ put.at = "put" /\ put.todo = c.todo
        /\ put.stat = c.stat /\ put.sha = disk[p].content
    BY <1>t, <2>2 DEF Verification
  <2>4. CheckOK(put)
    <3>1. Aim(put) = p
      BY <2>2, <2>3 DEF Aim
    <3> HIDE DEF put
    <3> QED BY <1>t, <2>1, <2>2, <2>3, <3>1 DEF CheckOK, TrueUnder
  <2>5. d \in Verification /\ CheckOK(d)
    BY <1>f, <2>1, <2>3, <2>4
  <2> HIDE DEF d
  <2> QED BY <1>f, <1>s, <1>t, <2>1, <2>5, CheckStep
<1>4. CASE Put(v)
  <2> DEFINE d == [c EXCEPT !.at = "adopt"]
             kept == [stat |-> c.stat, sha |-> c.sha]
  <2>1. /\ c.at = "put" /\ cache' = [cache EXCEPT ![p] = kept]
        /\ check' = [check EXCEPT ![v] = d]
        /\ UNCHANGED <<disk, writes, walk, seen>>
    BY <1>4 DEF Put, Kept, HashInv, HashTyped
  <2>2. p = Aim(c) /\ p \in Paths /\ c.todo # {}
    BY <1>f, <1>t, <2>1 DEF CheckOK
  <2>3. /\ d \in Verification /\ d.at = "adopt" /\ d.todo = c.todo
        /\ d.stat = c.stat /\ d.sha = c.sha
    BY <1>t DEF Verification
  <2>4. Aim(d) = p
    BY <2>2, <2>3 DEF Aim
  <2>5. kept \in [stat : Nat, sha : Hash] /\ kept.stat = c.stat /\ kept.sha = c.sha
    BY <1>t DEF Verification
  <2>6. cache' \in [Paths -> [stat : Nat, sha : Hash]] /\ cache'[p] = kept
        /\ \A q \in Paths \ {p} : cache'[q] = cache[q]
    <3> HIDE DEF kept
    <3> QED BY <1>t, <2>1, <2>2, <2>5
  <2>7. CheckOK(d)
    <3> HIDE DEF d
    <3> QED BY <1>t, <2>1, <2>2, <2>3, <2>4 DEF CheckOK
  <2>8. \A q \in Paths : CacheOK(q)'
    <3>1. Past(p, c.stat) /\ TrueUnder(p, c.stat, c.sha)
      BY <1>t, <2>1, <2>2 DEF CheckOK
    <3> HIDE DEF kept
    <3> QED BY <1>t, <2>1, <2>5, <2>6, <3>1 DEF CacheOK, Past, TrueUnder
  <2> HIDE DEF d
  <2> QED BY <1>f, <1>t, <2>1, <2>3, <2>6, <2>7, <2>8, CheckStep
<1>5. CASE Adopt(v)
  <2> DEFINE row == seen[p]
             new == IF row = Nothing THEN row ELSE VerifiedAs(row, c.sha)
             d == Following(v)
  <2>1. /\ c.at = "adopt" /\ seen' = [seen EXCEPT ![p] = new]
        /\ check' = [check EXCEPT ![v] = d]
        /\ UNCHANGED <<disk, writes, walk, cache>>
    BY <1>5 DEF Adopt, Kept, HashInv, HashTyped
  <2>2. p = Aim(c) /\ p \in Paths
    BY <1>f, <2>1
  <2>3. row \in Row /\ RowOK(p, row) /\ c.sha \in Hash
    BY <1>t, <2>2 DEF Verification
  <2>4. /\ new \in Row /\ new.stat = row.stat
        /\ RowOK(p, new) /\ (~Overlap => RowTrue(p, new))
    <3>1. CASE row = Nothing
      BY <1>t, <2>2, <2>3, <3>1
    <3>2. CASE row # Nothing
      <4> DEFINE said == IF row.source = "announced" /\ row.said = NoSha THEN row.sha ELSE row.said
                 w == [row EXCEPT !.sha = c.sha, !.source = "verified", !.said = said]
      <4>1. said \in Hash
        BY <2>3 DEF Row
      <4>2. /\ w \in Row /\ w.stat = row.stat /\ w.sha = c.sha /\ w.source = "verified"
            /\ w.said = said
        <5> HIDE DEF said
        <5> QED BY <2>3, <4>1 DEF Row
      <4>3. w # Nothing
        <5> HIDE DEF w
        <5> QED BY <4>2, NothingIs
      <4>4. said = NamedAs[p]
        BY <2>3, <3>2 DEF RowOK, Row
      <4>5. RowOK(p, w)
        <5> HIDE DEF w, said
        <5> QED BY <2>3, <3>2, <4>2, <4>3, <4>4 DEF RowOK
      <4>6. ~Overlap => RowTrue(p, w)
        <5>1. TrueUnder(p, c.stat, c.sha) /\ Past(p, c.stat) /\ (~Overlap => row.stat <= c.stat)
          BY <1>t, <2>1, <2>2 DEF CheckOK
        <5>2. row.stat \in Nat /\ c.stat \in Nat
          BY <1>t, <2>3 DEF Row, Verification
        <5> HIDE DEF w, row, c
        <5> QED BY <4>2, <5>1, <5>2 DEF RowTrue, TrueUnder, Past
      <4>7. new = w
        BY <3>2 DEF VerifiedAs
      <4> HIDE DEF w
      <4> QED BY <4>2, <4>5, <4>6, <4>7
    <3> QED BY <3>1, <3>2
  <2>5. /\ seen' \in [Paths -> Row] /\ seen'[p] = new
        /\ \A q \in Paths \ {p} : seen'[q] = seen[q]
    <3> HIDE DEF new
    <3> QED BY <1>t, <2>1, <2>2, <2>4
  <2>6. \A q \in Paths : /\ seen'[q].stat = seen[q].stat /\ RowOK(q, seen'[q])
                         /\ ~Overlap => RowTrue(q, seen'[q])
    <3> HIDE DEF new
    <3> QED BY <1>t, <2>4, <2>5
  <2>7. d \in Verification /\ CheckOK(d) /\ (~Overlap => walk.at = "idle")
    BY <1>f, <2>1
  <2> HIDE DEF d
  <2> QED BY <1>s, <2>1, <2>5, <2>6, <2>7, CheckStep, <1>t
<1> QED BY <1>1, <1>2, <1>3, <1>4, <1>5

LEMMA NextHash == HashInv /\ [CachesNext]_cachesVars => HashInv'
<1> SUFFICES ASSUME HashInv, [CachesNext]_cachesVars PROVE HashInv'
  OBVIOUS
<1>t. writes \in Nat /\ disk \in [Paths -> [stat : Nat, content : Hash]]
  BY DEF HashInv, HashTyped
<1>1. CASE RegistryNext \/ UNCHANGED cachesVars
  <2>1. UNCHANGED <<disk, hashVars>> /\ writes' \in {writes, writes + 1}
    BY <1>1 DEF RegistryNext, WriteDocument, Arrive, Sign, Compare, LoadDocument, Serve, Apart, cachesVars
  <2> QED BY <1>t, <2>1, DiskStep
<1>2. ASSUME NEW p \in Paths, NEW content \in Contents, WriteFile(p, content) PROVE HashInv'
  <2> DEFINE new == [stat |-> writes + 2, content |-> content]
  <2>1. UNCHANGED hashVars /\ writes' = writes + 1 /\ disk' = [disk EXCEPT ![p] = new]
    BY <1>2 DEF WriteFile, Fresh
  <2>2. new \in [stat : Nat, content : Hash] /\ new.stat = writes + 2 /\ new.content = content
    BY <1>t DEF Hash
  <2> HIDE DEF new
  <2>3. /\ disk' \in [Paths -> [stat : Nat, content : Hash]]
        /\ \A q \in Paths : disk'[q] = IF q = p THEN new ELSE disk[q]
    BY <1>t, <2>1, <2>2
  <2> QED BY <1>t, <2>1, <2>2, <2>3, DiskStep
<1>3. ASSUME NEW p \in Paths, RemoveFile(p) PROVE HashInv'
  <2>1. UNCHANGED hashVars /\ writes' = writes + 1 /\ disk' = [disk EXCEPT ![p] = Gone]
    BY <1>3 DEF RemoveFile
  <2>2. Gone \in [stat : Nat, content : Hash]
    BY DEF Gone, Hash
  <2>3. /\ disk' \in [Paths -> [stat : Nat, content : Hash]]
        /\ \A q \in Paths : disk'[q] \in {disk[q], Gone}
    BY <1>t, <2>1, <2>2
  <2> QED BY <1>t, <2>1, <2>3, DiskStep
<1>4. CASE Walk \/ Fill \/ Replace
  BY <1>4, WalkStep, FillStep, ReplaceStep
<1> QED BY <1>1, <1>2, <1>3, <1>4, VerifySteps DEF CachesNext, HashNext

(* No hash that is called verified lies of the file as it is: in the cache, *)
(* whatever scans and verifications overlap; in the rows, as long as no     *)
(* scan runs beside a verification (~Overlap; with one they do lie, see     *)
(* RowsAreTrue). What a manager announced is never forgotten, in any case.  *)
THEOREM HashesTrue == CachesSpec => []HashesAreTrue
<1>1. HashInv => HashesAreTrue
  <2> SUFFICES ASSUME HashInv PROVE HashesAreTrue
    OBVIOUS
  <2>1. \A p \in Paths : /\ disk[p] = Gone \/ There(p)
                         /\ CacheOK(p) /\ RowOK(p, seen[p]) /\ (~Overlap => RowTrue(p, seen[p]))
    BY DEF HashInv
  <2>2. ~Overlap => RowsAreTrue
    BY <2>1, GoneIs DEF RowsAreTrue, RowOK, RowTrue, TrueUnder
  <2>3. ASSUME NEW p \in Paths, disk[p] # Gone, Hit(p, disk[p].stat)
        PROVE  cache[p].sha = disk[p].content
    BY <2>1, <2>3 DEF Hit, CacheOK, TrueUnder
  <2> QED BY <2>1, <2>2, <2>3 DEF HashesAreTrue, RowOK
<1> QED BY <1>1, InitHash, NextHash, PTL DEF CachesSpec

-----------------------------------------------------------------------------
(* The camera.  While nobody acted during an authorisation, at most one is *)
(* awaited, and the panel holds nothing meanwhile: the stream that the     *)
(* answer lights is the only one.                                          *)

Openings == [mode : CaptureModes, stream : Nat]

Awaited(p) ==
  /\ pending = {p} /\ p \in Openings
  /\ flux = Off /\ lit = {} /\ mounted /\ ~enregistre

Unhurried ==
  /\ pending = {} \/ \E p \in Openings : Awaited(p)
  /\ lit = {flux} \ {Off}
  /\ flux # Off => mounted /\ mode # Off
  /\ enregistre /\ mounted => flux # Off

CameraInv == openings \in Nat /\ hasty \in BOOLEAN /\ (~hasty => Unhurried)

(* What closes all leaves no light.                                        *)
LEMMA Closed ==
  ASSUME Unhurried, flux' = Off, lit' = Without(flux)
  PROVE  lit' = {}
  BY DEF Unhurried, Without

LEMMA CameraStep ==
  ASSUME CameraInv, CaptureNext
  PROVE  CameraInv'
<1>1. ASSUME NEW m \in CaptureModes, OpenHardware(m) PROVE CameraInv'
  <2>1. openings' \in Nat /\ hasty' \in BOOLEAN
    BY <1>1, CaptureAssumption DEF OpenHardware, CameraInv, Gesture
  <2>2. ASSUME ~hasty' PROVE Unhurried'
    <3>1. ~hasty /\ pending = {} /\ Unhurried
      BY <1>1, <2>2 DEF OpenHardware, Gesture, CameraInv
    <3>2. lit' = {} /\ flux' = Off /\ enregistre' = FALSE /\ mounted' = mounted /\ mounted
      BY <1>1, <3>1, Closed DEF OpenHardware, Refermer, ClosesFirst
    <3>3. CASE mode = m
      BY <1>1, <3>1, <3>2, <3>3 DEF OpenHardware, Unhurried
    <3>4. CASE mode # m
      <4>1. pending' = {[mode |-> m, stream |-> openings']}
        BY <1>1, <3>1, <3>4 DEF OpenHardware
      <4>2. [mode |-> m, stream |-> openings'] \in Openings
        BY <2>1 DEF Openings
      <4> QED BY <3>2, <4>1, <4>2 DEF Unhurried, Awaited
    <3> QED BY <3>3, <3>4
  <2> QED BY <2>1, <2>2 DEF CameraInv
<1>2. ASSUME NEW p \in pending, Granted(p) PROVE CameraInv'
  <2>1. ASSUME ~hasty PROVE Unhurried'
    <3>1. Awaited(p)
      BY <1>2, <2>1 DEF CameraInv, Unhurried, Awaited
    <3>2. p.stream \in Nat /\ p.mode \in CaptureModes
      BY <3>1 DEF Awaited, Openings
    <3>3. p.stream # Off /\ p.mode # Off
      BY <3>2, CaptureAssumption
    <3> QED BY <1>2, <3>1, <3>3 DEF Granted, Unhurried, Awaited
  <2> QED BY <1>2, <2>1 DEF CameraInv, Granted
<1>3. ASSUME NEW p \in pending, Denied(p) PROVE CameraInv'
  <2>1. ASSUME ~hasty PROVE Unhurried'
    <3>1. Awaited(p)
      BY <1>3, <2>1 DEF CameraInv, Unhurried, Awaited
    <3> QED BY <1>3, <3>1 DEF Denied, Unhurried, Awaited
  <2> QED BY <1>3, <2>1 DEF CameraInv, Denied
<1>4. ASSUME CloseHardware \/ Unmount PROVE CameraInv'
  <2>1. openings' \in Nat /\ hasty' \in BOOLEAN
    BY <1>4 DEF CloseHardware, Unmount, CameraInv, Gesture
  <2>2. ASSUME ~hasty' PROVE Unhurried'
    <3>1. ~hasty /\ pending = {} /\ pending' = {} /\ Unhurried
      BY <1>4, <2>2 DEF CloseHardware, Unmount, Gesture, CameraInv
    <3>2. lit' = {} /\ flux' = Off /\ (enregistre' => ~mounted')
      BY <1>4, <3>1, Closed DEF CloseHardware, Unmount, Refermer, Leaves
    <3> QED BY <3>1, <3>2 DEF Unhurried
  <2> QED BY <2>1, <2>2 DEF CameraInv
<1>5. ASSUME Photo \/ StartRecording \/ StopRecording PROVE CameraInv'
  <2>1. openings' \in Nat /\ hasty' \in BOOLEAN
    BY <1>5 DEF Photo, StartRecording, StopRecording, CameraInv, Gesture
  <2>2. ASSUME ~hasty' PROVE Unhurried'
    <3>1. ~hasty /\ pending = {} /\ Unhurried
      BY <1>5, <2>2 DEF Photo, StartRecording, StopRecording, Gesture, CameraInv
    <3> QED BY <1>5, <3>1 DEF Photo, StartRecording, StopRecording, Unhurried
  <2> QED BY <2>1, <2>2 DEF CameraInv
<1>6. ASSUME NEW t \in takes, Spoiled(t) \/ Give(t) PROVE CameraInv'
  <2>1. ASSUME ~hasty PROVE Unhurried'
    BY <1>6, <2>1 DEF CameraInv, Unhurried, Awaited, Spoiled, Give
  <2> QED BY <1>6, <2>1 DEF CameraInv, Spoiled, Give
<1>7. ASSUME NEW t \in takes, Given(t) PROVE CameraInv'
  <2>1. ASSUME ~hasty PROVE Unhurried'
    <3>1. Unhurried
      BY <2>1 DEF CameraInv
    <3>2. CASE Refermer
      <4>1. lit' = {} /\ flux' = Off /\ enregistre' = FALSE
        BY <3>1, <3>2, Closed DEF Refermer
      <4> QED BY <1>7, <3>1, <4>1 DEF Given, Unhurried, Awaited
    <3>3. CASE UNCHANGED <<mode, flux, lit, enregistre, held>>
      BY <1>7, <3>1, <3>3 DEF Given, Unhurried, Awaited
    <3> QED BY <1>7, <3>2, <3>3 DEF Given
  <2> QED BY <1>7, <2>1 DEF CameraInv, Given
<1> QED BY <1>1, <1>2, <1>3, <1>4, <1>5, <1>6, <1>7 DEF CaptureNext

LEMMA CameraStarts == CaptureInit => CameraInv
<1> SUFFICES ASSUME CaptureInit PROVE openings \in Nat /\ hasty \in BOOLEAN /\ Unhurried
  BY DEF CameraInv
<1>1. lit = {flux} \ {Off} /\ pending = {} /\ flux = Off /\ enregistre = FALSE
  BY DEF CaptureInit
<1>2. openings \in Nat /\ hasty \in BOOLEAN
  BY DEF CaptureInit
<1> QED BY <1>1, <1>2 DEF Unhurried

LEMMA CameraSteps == CameraInv /\ [CaptureNext]_captureVars => CameraInv'
<1> SUFFICES ASSUME CameraInv, [CaptureNext]_captureVars PROVE CameraInv'
  OBVIOUS
<1>1. CASE CaptureNext
  BY <1>1, CameraStep
<1>2. CASE UNCHANGED captureVars
  BY <1>2 DEF captureVars, CameraInv, Unhurried, Awaited
<1> QED BY <1>1, <1>2

LEMMA CameraLit == CameraInv => LightHeld
BY DEF CameraInv, Unhurried, LightHeld

(* The light of the camera is on only for what the panel shows, and out    *)
(* once the mode changed, the panel closed, the screen went or a file was  *)
(* deposited, for a user who waits for the answer to an authorisation.     *)
THEOREM LightIsHeld == CaptureInit /\ [][CaptureNext]_captureVars => []LightHeld
BY CameraStarts, CameraSteps, CameraLit, PTL

-----------------------------------------------------------------------------
(* The desk.  A finite set that is ordered can be listed in its order.      *)

InOrder(R, s) == \A n, m \in DOMAIN s : n < m => <<s[n], s[m]>> \in R

LEMMA OrderExists ==
  ASSUME NEW S, IsFiniteSet(S), NEW R, TotalOrder(R, S)
  PROVE  \E s \in SetToSeqs(S) : InOrder(R, s)
<1> DEFINE C == {T \in SUBSET S : ~ \E s \in SetToSeqs(T) : InOrder(R, s)}
<1> SUFFICES ASSUME C # {} PROVE FALSE
  OBVIOUS
<1>1. PICK T \in C : \A U \in C : U \subseteq T => U = T
  <2> C \subseteq SUBSET S
    OBVIOUS
  <2> HIDE DEF C
  <2> QED BY MinimalSet
<1>2. T \subseteq S /\ IsFiniteSet(T) /\ ~ \E s \in SetToSeqs(T) : InOrder(R, s)
  BY <1>1, FS_Subset
<1>3. CASE T = {}
  <2>1. Cardinality(T) = 0
    BY <1>3, FS_EmptySet
  <2>2. [n \in 1..0 |-> n] \in SetToSeqs(T) /\ InOrder(R, [n \in 1..0 |-> n])
    BY <1>3, <2>1 DEF SetToSeqs, InOrder
  <2> QED BY <1>2, <2>2
<1>4. CASE T # {}
  <2>1. TotalOrder(R, T)
    BY <1>2 DEF TotalOrder
  <2>2. PICK x \in T : \A y \in T : y # x => <<y, x>> \in R
    BY <1>2, <1>4, <2>1, LastExists
  <2>3. PICK U : U = T \ {x}
    OBVIOUS
  <2>4. U \subseteq S /\ U \subseteq T /\ U # T
    BY <1>2, <2>2, <2>3
  <2>5. \E s \in SetToSeqs(U) : InOrder(R, s)
    BY <1>1, <2>4
  <2>6. PICK s \in SetToSeqs(U) : InOrder(R, s)
    BY <2>5
  <2>7. PICK k \in Nat : k = Cardinality(U)
    BY <1>2, <2>4, FS_Subset, FS_CardinalityType
  <2>8. Cardinality(T) = k + 1
    <3>1. T = U \cup {x} /\ x \notin U
      BY <2>2, <2>3
    <3>2. IsFiniteSet(U)
      BY <1>2, <2>4, FS_Subset
    <3> QED BY <2>7, <3>1, <3>2, FS_AddElement
  <2>9. s \in [1..k -> U] /\ \A i, j \in 1..k : i # j => s[i] # s[j]
    BY <2>6, <2>7 DEF SetToSeqs
  <2>10. PICK t : t = [n \in 1..(k + 1) |-> IF n = k + 1 THEN x ELSE s[n]]
    OBVIOUS
  <2>11. /\ DOMAIN t = 1..(k + 1) /\ t[k + 1] = x
         /\ \A n \in 1..(k + 1) : n = k + 1 \/ (n \in 1..k /\ n # k + 1 /\ t[n] = s[n] /\ s[n] \in U)
    BY <2>9, <2>10
  <2>12. t \in [1..(k + 1) -> T]
    BY <2>2, <2>4, <2>9, <2>10
  <2>13. \A i, j \in 1..(k + 1) : i # j => t[i] # t[j]
    BY <2>3, <2>9, <2>11
  <2>14. t \in SetToSeqs(T)
    BY <2>8, <2>12, <2>13 DEF SetToSeqs
  <2>15. ASSUME NEW n \in 1..(k + 1), NEW m \in 1..(k + 1), n < m PROVE <<t[n], t[m]>> \in R
    <3>1. n \in 1..k /\ t[n] = s[n] /\ s[n] \in U /\ s[n] # x
      BY <2>3, <2>11, <2>15
    <3>2. CASE m = k + 1
      BY <2>2, <2>4, <2>11, <3>1, <3>2
    <3>3. CASE m # k + 1
      <4>1. m \in 1..k /\ t[m] = s[m]
        BY <2>11, <3>3
      <4> QED BY <2>6, <2>9, <2>15, <3>1, <4>1 DEF InOrder
    <3> QED BY <3>2, <3>3
  <2>16. InOrder(R, t)
    BY <2>11, <2>15 DEF InOrder
  <2> QED BY <1>2, <2>14, <2>16
<1> QED BY <1>3, <1>4

(* What the panel offers is every capability that it should, once.         *)
LEMMA FiledSomewhere == ASSUME NEW c PROVE CategoryOf(c) \in Range(Families)
<1>1. CASE c \in DOMAIN Filed
  <2>1. Filed[c] \in Range(Filed)
    BY <1>1 DEF Range
  <2> QED BY <1>1, <2>1, WorkshopAssumption DEF CategoryOf
<1>2. CASE c \notin DOMAIN Filed
  BY <1>2, WorkshopAssumption DEF CategoryOf
<1> QED BY <1>1, <1>2

LEMMA SectionIs == ASSUME NEW k PROVE SectionOf(k) \in Nat
<1>1. CategoryOf(k.id) \in Range(Families)
  BY FiledSomewhere
<1>2. DOMAIN Families = 1..Len(Families) /\ Len(Families) \in Nat
  BY WorkshopAssumption
<1>3. \E n \in DOMAIN Families : Families[n] = CategoryOf(k.id)
  BY <1>1 DEF Range
<1>4. SectionOf(k) \in DOMAIN Families
  BY <1>3 DEF SectionOf
<1> QED BY <1>2, <1>4

BeforePairs == {e \in Nat \X Nat : ComesBefore(e[1], e[2])}

LEMMA SectionsOrder == TotalOrder(BeforePairs, DOMAIN Contracts)
<1>1. DOMAIN Contracts \subseteq Nat
  BY WorkshopAssumption
<1>2. \A k : SectionOf(k) \in Nat
  BY SectionIs
<1>3. \A k : Readiness(k) \in Nat
  BY DEF Readiness
<1>4. ASSUME NEW i \in Nat PROVE ~ ComesBefore(i, i)
  <2>1. PICK a \in Nat : a = SectionOf(Contracts[i])
    BY <1>2
  <2>2. PICK b \in Nat : b = Readiness(Contracts[i])
    BY <1>3
  <2>3. ~(a < a) /\ ~(b < b) /\ ~(i < i)
    OBVIOUS
  <2> QED BY <2>1, <2>2, <2>3 DEF ComesBefore
<1>5. ASSUME NEW i \in Nat, NEW j \in Nat, i # j PROVE ComesBefore(i, j) \/ ComesBefore(j, i)
  <2>1. PICK a \in Nat : a = SectionOf(Contracts[i])
    BY <1>2
  <2>2. PICK b \in Nat : b = SectionOf(Contracts[j])
    BY <1>2
  <2>3. PICK r \in Nat : r = Readiness(Contracts[i])
    BY <1>3
  <2>4. PICK q \in Nat : q = Readiness(Contracts[j])
    BY <1>3
  <2>5. (a < b \/ (a = b /\ r < q) \/ (a = b /\ r = q /\ i < j)) \/ (b < a \/ (b = a /\ q < r) \/ (b = a /\ q = r /\ j < i))
    BY <1>5
  <2> QED BY <2>1, <2>2, <2>3, <2>4, <2>5 DEF ComesBefore
<1>6. ASSUME NEW i \in Nat, NEW j \in Nat, NEW k \in Nat, ComesBefore(i, j), ComesBefore(j, k)
      PROVE  ComesBefore(i, k)
  <2>1. PICK a \in Nat : a = SectionOf(Contracts[i])
    BY <1>2
  <2>2. PICK b \in Nat : b = SectionOf(Contracts[j])
    BY <1>2
  <2>3. PICK c \in Nat : c = SectionOf(Contracts[k])
    BY <1>2
  <2>4. PICK r \in Nat : r = Readiness(Contracts[i])
    BY <1>3
  <2>5. PICK q \in Nat : q = Readiness(Contracts[j])
    BY <1>3
  <2>6. PICK w \in Nat : w = Readiness(Contracts[k])
    BY <1>3
  <2>7. a < b \/ (a = b /\ r < q) \/ (a = b /\ r = q /\ i < j)
    BY <1>6, <2>1, <2>2, <2>4, <2>5 DEF ComesBefore
  <2>8. b < c \/ (b = c /\ q < w) \/ (b = c /\ q = w /\ j < k)
    BY <1>6, <2>2, <2>3, <2>5, <2>6 DEF ComesBefore
  <2>9. a < c \/ (a = c /\ r < w) \/ (a = c /\ r = w /\ i < k)
    BY <2>7, <2>8
  <2> QED BY <2>1, <2>3, <2>4, <2>6, <2>9 DEF ComesBefore
<1>7. \A i, j \in Nat : <<i, j>> \in BeforePairs <=> ComesBefore(i, j)
  BY DEF BeforePairs
<1> QED BY <1>1, <1>4, <1>5, <1>6, <1>7 DEF TotalOrder

LEMMA PanelWhole == PanelIsWhole
<1>1. DOMAIN Contracts = 1..Len(Contracts) /\ Len(Contracts) \in Nat /\ IsFiniteSet(1..Len(Contracts))
  BY WorkshopAssumption, FS_Interval
<1>2. PICK kept : kept = {i \in DOMAIN Contracts : Matches(Contracts[i], panel)}
  OBVIOUS
<1>3. kept = {i \in DOMAIN Contracts :
                Matches(Contracts[i], panel) /\ CategoryOf(Contracts[i].id) \in Range(Families)}
  BY <1>2, FiledSomewhere
<1>4. IsFiniteSet(kept) /\ kept \subseteq DOMAIN Contracts /\ kept \subseteq Nat
  BY <1>1, <1>2, FS_Subset
<1>5. TotalOrder(BeforePairs, kept)
  BY <1>4, SectionsOrder DEF TotalOrder
<1>6. PICK s \in SetToSeqs(kept) : InOrder(BeforePairs, s)
  BY <1>4, <1>5, OrderExists
<1>7. \A n, m \in DOMAIN s : n < m => ComesBefore(s[n], s[m])
  BY <1>6 DEF InOrder, BeforePairs
<1>8. PICK order : order = CHOOSE t \in SetToSeqs(kept) :
                       \A n, m \in DOMAIN t : n < m => ComesBefore(t[n], t[m])
  OBVIOUS
<1>9. order \in SetToSeqs(kept)
  BY <1>6, <1>7, <1>8
<1>10. PICK k \in Nat : k = Cardinality(kept)
  BY <1>4, FS_CardinalityType
<1>11. order \in [1..k -> kept] /\ \A i, j \in 1..k : i # j => order[i] # order[j]
  BY <1>9, <1>10 DEF SetToSeqs
<1>12. IsFiniteSet(1..k) /\ Cardinality(1..k) = k
  BY FS_Interval
<1>13. order \in Injection(1..k, kept)
  BY <1>11 DEF Injection, IsInjective
<1>14. order \in Surjection(1..k, kept)
  BY <1>4, <1>10, <1>12, <1>13, FS_Injection
<1>15. \A i \in kept : \E n \in 1..k : order[n] = i
  BY <1>14 DEF Surjection
<1>16. PICK offered : offered = Offered(panel)
  OBVIOUS
<1>17. offered = [n \in DOMAIN order |-> Contracts[order[n]]]
  BY <1>3, <1>8, <1>16 DEF Offered
<1>18. DOMAIN offered = 1..k /\ \A n \in 1..k : offered[n] = Contracts[order[n]]
  BY <1>11, <1>17
<1>19. Range(offered) = {c \in Range(Contracts) : Matches(c, panel)}
  <2>1. ASSUME NEW c \in Range(offered) PROVE c \in Range(Contracts) /\ Matches(c, panel)
    <3>1. PICK n \in 1..k : c = offered[n]
      BY <1>18, <2>1 DEF Range
    <3>2. order[n] \in kept /\ c = Contracts[order[n]]
      BY <1>11, <1>18, <3>1
    <3> QED BY <1>2, <3>2 DEF Range
  <2>2. ASSUME NEW c \in Range(Contracts), Matches(c, panel) PROVE c \in Range(offered)
    <3>1. PICK i \in DOMAIN Contracts : c = Contracts[i]
      BY <2>2 DEF Range
    <3>2. i \in kept
      BY <1>2, <2>2, <3>1
    <3>3. PICK n \in 1..k : order[n] = i
      BY <1>15, <3>2
    <3> QED BY <1>18, <3>1, <3>3 DEF Range
  <2> QED BY <2>1, <2>2
<1>20. \A n, m \in 1..k : n # m => offered[n] # offered[m]
  <2> SUFFICES ASSUME NEW n \in 1..k, NEW m \in 1..k, offered[n] = offered[m] PROVE n = m
    OBVIOUS
  <2>1. order[n] \in DOMAIN Contracts /\ order[m] \in DOMAIN Contracts
    BY <1>4, <1>11
  <2>2. Contracts[order[n]].id = Contracts[order[m]].id
    BY <1>18
  <2>3. order[n] = order[m]
    BY <2>1, <2>2, WorkshopAssumption
  <2> QED BY <1>11, <2>3
<1>21. \A n \in 1..k : offered[n] \in Range(offered)
  BY <1>18 DEF Range
<1>22. offered \in [1..k -> Range(offered)]
  BY <1>17, <1>18, <1>21
<1>23. offered \in Surjection(1..k, Range(offered)) /\ offered \in Injection(1..k, Range(offered))
  BY <1>18, <1>20, <1>22 DEF Surjection, Injection, IsInjective, Range
<1>24. Cardinality(Range(offered)) = k
  BY <1>12, <1>23, FS_Surjection
<1>25. Len(offered) = k
  BY <1>22
<1> QED BY <1>16, <1>19, <1>24, <1>25 DEF PanelIsWhole

-----------------------------------------------------------------------------
(* The rail of the memory is drawn to scale, whatever a poll answered.      *)
ParkIsSound == park # NoRef => park.residents \in Seq(Nat) /\ park.budget \in Nat /\ park.demand \in Nat

LEMMA SummedIs == ASSUME NEW s \in Seq(Nat) PROVE Summed(s) \in Nat
<1>1. DOMAIN s = 1..Len(s) /\ Len(s) \in Nat /\ \A i \in DOMAIN s : s[i] \in Nat
  OBVIOUS
<1>2. IsFiniteSet(DOMAIN s)
  BY <1>1, FS_Interval
<1>3. Summed(s) = SumBy(s, DOMAIN s)
  BY DEF Summed, SumBy
<1> QED BY <1>1, <1>2, <1>3, SumNat

LEMMA TwoNumbers ==
  ASSUME NEW a \in Nat, NEW b \in Nat
  PROVE  /\ Max({a, b}) = IF a >= b THEN a ELSE b
         /\ Min({a, b}) = IF a <= b THEN a ELSE b
<1>1. PICK x : x = IF a >= b THEN a ELSE b
  OBVIOUS
<1>2. x \in {a, b} /\ x \in Nat /\ x >= a /\ x >= b
  BY <1>1
<1>3. \A y \in {a, b} : (\A z \in {a, b} : y >= z) => y = x
  BY <1>1
<1>4. Max({a, b}) = x
  BY <1>2, <1>3 DEF Max
<1>5. PICK w : w = IF a <= b THEN a ELSE b
  OBVIOUS
<1>6. w \in {a, b} /\ w \in Nat /\ w <= a /\ w <= b
  BY <1>5
<1>7. \A y \in {a, b} : (\A z \in {a, b} : y <= z) => y = w
  BY <1>5
<1>8. Min({a, b}) = w
  BY <1>6, <1>7 DEF Min
<1> QED BY <1>1, <1>4, <1>5, <1>8

LEMMA RailToScale == ParkIsSound => RailIsToScale
<1> SUFFICES ASSUME ParkIsSound PROVE RailIsToScale
  OBVIOUS
<1>1. PICK u : u = IF park = NoRef THEN 0 ELSE Summed(park.residents)
  OBVIOUS
<1>2. PICK b : b = IF park = NoRef THEN 0 ELSE park.budget
  OBVIOUS
<1>3. PICK d : d = Demand
  OBVIOUS
<1>4. u \in Nat /\ b \in Nat /\ d \in Nat
  <2>1. u \in Nat
    BY <1>1, SummedIs DEF ParkIsSound
  <2>2. b \in Nat /\ d \in Nat
    BY <1>2, <1>3 DEF ParkIsSound, Demand
  <2> QED BY <2>1, <2>2
<1>5. park # NoRef => b = park.budget
  BY <1>2
<1>6. park = NoRef => b = 0 /\ d = 0
  BY <1>2, <1>3 DEF Demand
<1>7. PICK m : m = IF u + d <= b THEN u + d ELSE b
  OBVIOUS
<1>8. PICK t : t = IF b >= u + d THEN b ELSE u + d
  OBVIOUS
<1>9. PICK n : n = IF m > u THEN m - u ELSE 0
  OBVIOUS
<1>10. Rail = [used |-> u, scale |-> t, inside |-> n, outside |-> d - n]
  <2>1. Min({u + d, b}) = m /\ Max({b, u + d}) = t
    BY <1>4, <1>7, <1>8, TwoNumbers
  <2> QED BY <1>1, <1>2, <1>3, <1>9, <2>1 DEF Rail
<1>11. n \in Nat /\ n <= d /\ t \in Nat /\ u + d <= t /\ (n > 0 => u + n <= b) /\ (d - n > 0 => t > b)
  BY <1>4, <1>7, <1>8, <1>9
<1>12. Rail.used + Rail.inside + Rail.outside <= Rail.scale
  <2>1. u + n + (d - n) = u + d
    BY <1>4, <1>11
  <2> QED BY <1>10, <1>11, <2>1
<1>13. n > 0 \/ d - n > 0 => park # NoRef
  BY <1>4, <1>6, <1>11
<1>14. Rail.inside > 0 => Rail.used + Rail.inside <= park.budget
  BY <1>5, <1>10, <1>11, <1>13
<1>15. Rail.outside > 0 => Rail.scale > park.budget
  BY <1>5, <1>10, <1>11, <1>13
<1> QED BY <1>12, <1>14, <1>15 DEF RailIsToScale

-----------------------------------------------------------------------------
(* What is chosen.  A price, shown or on its way, is of a variant of some   *)
(* capability and of the fields that this one declares: a variant belongs   *)
(* to one capability, so that a late price is shown to no other.            *)
OfAVariant(q) ==
  /\ q.ref # NoRef
  /\ \E c \in DOMAIN ModelsFor :
       q.ref \in Range(VariantsIn(ModelsFor[c])) /\ DOMAIN q.input \subseteq Declared(c)

PricesAreSound == (\A q \in asking : OfAVariant(q)) /\ (price # NoRef => OfAVariant(price))

DeskInv ==
  /\ cap \in DOMAIN ModelsFor \cup {NoRef}
  /\ ParkIsSound /\ PricesAreSound
  /\ VariantIsOfCapability /\ FormIsOfVariant /\ PollIsOfVariant

FormOf(d, c, r) ==
  \A f \in DOMAIN d : d[f] # "typed" => f \in DOMAIN InitialValues(c, r) /\ d[f] = InitialValues(c, r)[f]
VariantOf(c, r) == r # NoRef => c # NoRef /\ r \in Range(VariantsIn(ModelsFor[c]))

LEMMA ListedIs ==
  ASSUME NEW c, NEW m, NEW r \in Range(Listed(c, m))
  PROVE  r \in Range(VariantsIn(ModelsFor[c]))
<1>1. Range(<<>>) = {}
  BY DEF Range
<1>2. ~(m = NoRef \/ m # c)
  BY <1>1 DEF Listed
<1> QED BY <1>2 DEF Listed

(* The preselection follows, whatever was posed. *)
LEMMA SettlementKept ==
  ASSUME NEW c, NEW r, NEW d, NEW m, Settle(c, r, d, m), VariantOf(c, r), FormOf(d, c, r)
  PROVE  VariantIsOfCapability' /\ FormIsOfVariant' /\ cap' = c
<1>1. PICK default : default = IF c = NoRef THEN NoRef ELSE DefaultVariant(c)
  OBVIOUS
<1>2. PICK ripe : ripe = (c # NoRef /\ r = NoRef /\ default # NoRef /\ default \in Range(Listed(c, m)))
  OBVIOUS
<1>3. /\ cap' = c /\ ref' = IF ripe THEN default ELSE r
      /\ form' = IF ripe THEN InitialValues(c, default) ELSE d
  BY <1>1, <1>2 DEF Settle
<1>4. VariantOf(cap', ref') /\ FormOf(form', cap', ref')
  <2>1. CASE ripe
    <3>1. c # NoRef /\ default \in Range(VariantsIn(ModelsFor[c]))
      BY <1>2, <2>1, ListedIs
    <3>2. cap' = c /\ ref' = default /\ form' = InitialValues(c, default)
      BY <1>3, <2>1
    <3> QED BY <3>1, <3>2 DEF VariantOf, FormOf
  <2>2. CASE ~ripe
    BY <1>3, <2>2
  <2> QED BY <1>2, <2>1, <2>2
<1>5. VariantIsOfCapability'
  BY <1>4 DEF VariantOf, VariantIsOfCapability
<1>6. FormIsOfVariant'
  BY <1>4 DEF FormOf, FormIsOfVariant
<1> QED BY <1>3, <1>5, <1>6

LEMMA Restarts ==
  ASSUME NEW changed, Restart(changed), PollIsOfVariant
  PROVE  PollIsOfVariant'
<1>1. CASE poll # Asleep /\ (changed \/ ref' # ref)
  <2>1. poll' = Asked(ref')
    BY <1>1 DEF Restart
  <2> QED BY <2>1 DEF Asked, PollIsOfVariant
<1>2. CASE ~(poll # Asleep /\ (changed \/ ref' # ref))
  <2>1. poll' = poll
    BY <1>2 DEF Restart
  <2>2. CASE poll = Asleep
    BY <2>1, <2>2 DEF Asleep, PollIsOfVariant
  <2>3. CASE ref' = ref
    BY <2>1, <2>3 DEF PollIsOfVariant
  <2> QED BY <1>2, <2>2, <2>3
<1> QED BY <1>1, <1>2

LEMMA ParkStays == ASSUME ParkIsSound, park' = park PROVE ParkIsSound'
BY DEF ParkIsSound

LEMMA PricesStay ==
  ASSUME PricesAreSound, asking' \subseteq asking, price' \in {price, NoRef} \cup asking
  PROVE  PricesAreSound'
<1>1. \A q : OfAVariant(q)' = OfAVariant(q)
  BY DEF OfAVariant, Declared, Contract
<1> QED BY <1>1 DEF PricesAreSound

LEMMA DeskStarts == DeskInit => DeskInv
<1> SUFFICES ASSUME DeskInit PROVE DeskInv
  OBVIOUS
<1>1. cap = NoRef /\ ref = NoRef /\ park = NoRef /\ price = NoRef /\ asking = {}
  BY DEF DeskInit
<1>2. DOMAIN form = {}
  BY DEF DeskInit
<1>3. poll.of = ref
  BY DEF DeskInit
<1> QED BY <1>1, <1>2, <1>3 DEF DeskInv, ParkIsSound, PricesAreSound, VariantIsOfCapability,
                                FormIsOfVariant, PollIsOfVariant

(* Steps that touch neither what is chosen nor the form. *)
LEMMA ChoiceStays ==
  ASSUME DeskInv, UNCHANGED <<cap, ref, form>>
  PROVE  cap' \in DOMAIN ModelsFor \cup {NoRef} /\ VariantIsOfCapability' /\ FormIsOfVariant'
<1>1. VariantIsOfCapability'
  BY DEF DeskInv, VariantIsOfCapability
<1>2. FormIsOfVariant'
  <2>1. PICK values : values = InitialValues(cap, ref)
    OBVIOUS
  <2>2. InitialValues(cap, ref)' = values
    BY <2>1 DEF InitialValues, Declared, Contract
  <2> QED BY <2>1, <2>2 DEF DeskInv, FormIsOfVariant
<1> QED BY <1>1, <1>2 DEF DeskInv

LEMMA Chooses ==
  ASSUME DeskInv, NEW k \in Range(Offered(panel)), ChooseCapability(k.id)
  PROVE  DeskInv'
<1>1. k.id \in DOMAIN ModelsFor
  <2>1. k \in Range(Contracts)
    BY PanelWhole DEF PanelIsWhole
  <2>2. PICK i \in DOMAIN Contracts : k = Contracts[i]
    BY <2>1 DEF Range
  <2> QED BY <2>2, WorkshopAssumption
<1>2. PICK c : c = k.id
  OBVIOUS
<1>3. Settle(c, NoRef, <<>>, models) /\ Restart(ref # NoRef) /\ price' = NoRef /\ UNCHANGED <<asking, park>>
  BY <1>2 DEF ChooseCapability
<1>4. VariantOf(c, NoRef) /\ FormOf(<<>>, c, NoRef)
  <2>1. DOMAIN <<>> = {}
    OBVIOUS
  <2> QED BY <2>1 DEF VariantOf, FormOf
<1>5. VariantIsOfCapability' /\ FormIsOfVariant' /\ cap' = c
  BY <1>3, <1>4, SettlementKept
<1>6. PollIsOfVariant'
  BY <1>3, Restarts DEF DeskInv
<1>7. ParkIsSound' /\ PricesAreSound'
  BY <1>3, ParkStays, PricesStay DEF DeskInv
<1> QED BY <1>1, <1>2, <1>5, <1>6, <1>7 DEF DeskInv

LEMMA Picks ==
  ASSUME DeskInv, NEW r \in Range(Listed(cap, models)) \cup {NoRef}, PickVariant(r)
  PROVE  DeskInv'
<1>1. PICK c : c = cap
  OBVIOUS
<1>2. /\ c # NoRef /\ Settle(c, r, InitialValues(c, r), models) /\ Restart(TRUE)
      /\ price' = NoRef /\ UNCHANGED <<asking, park>>
  BY <1>1 DEF PickVariant
<1>3. VariantOf(c, r)
  BY <1>1, <1>2, ListedIs DEF VariantOf
<1>4. FormOf(InitialValues(c, r), c, r)
  BY DEF FormOf
<1>5. VariantIsOfCapability' /\ FormIsOfVariant' /\ cap' = c
  BY <1>2, <1>3, <1>4, SettlementKept
<1>6. PollIsOfVariant'
  BY <1>2, Restarts DEF DeskInv
<1>7. ParkIsSound' /\ PricesAreSound'
  BY <1>2, ParkStays, PricesStay DEF DeskInv
<1> QED BY <1>1, <1>5, <1>6, <1>7 DEF DeskInv

LEMMA Arrives ==
  ASSUME DeskInv, ModelsArrive
  PROVE  DeskInv'
<1>1. PICK c : c = cap
  OBVIOUS
<1>2. PICK r : r = ref
  OBVIOUS
<1>3. PICK d : d = form
  OBVIOUS
<1>4. Settle(c, r, d, loading) /\ Restart(FALSE) /\ UNCHANGED <<price, asking, park>>
  <2>1. Settle(cap, ref, form, loading) /\ Restart(FALSE) /\ UNCHANGED <<price, asking, park>>
    BY Zenon DEF ModelsArrive
  <2> QED BY <1>1, <1>2, <1>3, <2>1 DEF Settle
<1>5. VariantOf(c, r) /\ FormOf(d, c, r)
  BY <1>1, <1>2, <1>3 DEF DeskInv, VariantIsOfCapability, FormIsOfVariant, VariantOf, FormOf
<1>6. VariantIsOfCapability' /\ FormIsOfVariant' /\ cap' = c
  BY <1>4, <1>5, SettlementKept
<1>7. PollIsOfVariant'
  BY <1>4, Restarts DEF DeskInv
<1>8. ParkIsSound' /\ PricesAreSound'
  BY <1>4, ParkStays, PricesStay DEF DeskInv
<1> QED BY <1>1, <1>6, <1>7, <1>8 DEF DeskInv

(* What is typed, or deposited, is the user's. *)
LEMMA Types ==
  ASSUME DeskInv, NEW f, form' \in {form, Typed(f)}, UNCHANGED <<cap, ref>>
  PROVE  cap' \in DOMAIN ModelsFor \cup {NoRef} /\ VariantIsOfCapability' /\ FormIsOfVariant'
<1>1. CASE form' = form
  BY <1>1, ChoiceStays
<1>2. CASE form' = Typed(f)
  <2>1. PICK values : values = InitialValues(cap, ref)
    OBVIOUS
  <2>2. InitialValues(cap, ref)' = values
    BY <2>1 DEF InitialValues, Declared, Contract
  <2>3. \A g \in DOMAIN form : form[g] # "typed" => g \in DOMAIN values /\ form[g] = values[g]
    BY <2>1 DEF DeskInv, FormIsOfVariant
  <2>4. DOMAIN form' = DOMAIN form \cup {f} /\ \A g \in DOMAIN form' : form'[g] = IF g = f THEN "typed" ELSE form[g]
    BY <1>2 DEF Typed
  <2>5. \A g \in DOMAIN form' : form'[g] # "typed" => g \in DOMAIN values /\ form'[g] = values[g]
    BY <2>3, <2>4
  <2>6. FormIsOfVariant'
    BY <2>2, <2>5 DEF FormIsOfVariant
  <2>7. VariantIsOfCapability'
    BY DEF DeskInv, VariantIsOfCapability
  <2> QED BY <2>6, <2>7 DEF DeskInv
<1> QED BY <1>1, <1>2

LEMMA Prices ==
  ASSUME DeskInv, AskPrice
  PROVE  PricesAreSound'
<1>1. \A q : OfAVariant(q)' = OfAVariant(q)
  BY DEF OfAVariant, Declared, Contract
<1>2. PICK q : q = [ref |-> ref, input |-> Projected(cap, form)]
  OBVIOUS
<1>3. q.ref = ref /\ q.input = Projected(cap, form)
  BY <1>2
<1>4. DOMAIN q.input \subseteq Declared(cap)
  BY <1>3 DEF Projected
<1>5. ref # NoRef /\ cap # NoRef /\ asking' = asking \cup {q} /\ price' = price
  BY <1>2 DEF AskPrice
<1>6. cap \in DOMAIN ModelsFor /\ ref \in Range(VariantsIn(ModelsFor[cap]))
  BY <1>5 DEF DeskInv, VariantIsOfCapability
<1>7. OfAVariant(q)
  BY <1>3, <1>4, <1>5, <1>6 DEF OfAVariant
<1> QED BY <1>1, <1>5, <1>7 DEF DeskInv, PricesAreSound

LEMMA DeskSteps == DeskInv /\ [DeskNext]_deskVars => DeskInv'
<1> SUFFICES ASSUME DeskInv, [DeskNext]_deskVars PROVE DeskInv'
  OBVIOUS
<1>i. ParkIsSound /\ PricesAreSound /\ PollIsOfVariant
  BY DEF DeskInv
<1>1. CASE OpenPanel \/ ClosePanel \/ Browse
  <2>1. UNCHANGED <<cap, ref, form, price, asking, poll, park>>
    <3>1. CASE OpenPanel \/ ClosePanel
      BY <3>1 DEF OpenPanel, ClosePanel, SetPanel
    <3>2. ASSUME NEW word, Search(word) PROVE UNCHANGED <<cap, ref, form, price, asking, poll, park>>
      BY <3>2 DEF Search, SetPanel
    <3>3. ASSUME NEW side, NEW x, Filter(side, x) PROVE UNCHANGED <<cap, ref, form, price, asking, poll, park>>
      BY <3>3 DEF Filter, SetPanel
    <3> QED BY <1>1, <3>1, <3>2, <3>3, Zenon DEF Browse
  <2>2. PollIsOfVariant'
    BY <1>i, <2>1 DEF PollIsOfVariant
  <2> QED BY <1>i, <2>1, <2>2, ChoiceStays, ParkStays, PricesStay DEF DeskInv
<1>2. ASSUME NEW k \in Range(Offered(panel)), ChooseCapability(k.id) PROVE DeskInv'
  BY <1>2, Chooses
<1>3. ASSUME NEW r \in Range(Listed(cap, models)) \cup {NoRef}, PickVariant(r) PROVE DeskInv'
  BY <1>3, Picks
<1>4. CASE ModelsArrive
  BY <1>4, Arrives
<1>5. CASE ModelsFail
  <2>1. UNCHANGED <<cap, ref, form, price, asking, poll, park>>
    BY <1>5 DEF ModelsFail
  <2>2. PollIsOfVariant'
    BY <1>i, <2>1 DEF PollIsOfVariant
  <2> QED BY <1>i, <2>1, <2>2, ChoiceStays, ParkStays, PricesStay DEF DeskInv
<1>6. ASSUME NEW f, Type(f) \/ Deposit(f) \/ Deposited(f) PROVE DeskInv'
  <2>1. UNCHANGED <<cap, ref, price, asking, poll, park>> /\ form' \in {form, Typed(f)}
    BY <1>6 DEF Type, Deposit, Deposited
  <2>2. PollIsOfVariant'
    BY <1>i, <2>1 DEF PollIsOfVariant
  <2>3. cap' \in DOMAIN ModelsFor \cup {NoRef} /\ VariantIsOfCapability' /\ FormIsOfVariant'
    BY <2>1, Types
  <2> QED BY <1>i, <2>1, <2>2, <2>3, ParkStays, PricesStay DEF DeskInv
<1>7. CASE AskPrice
  <2>1. UNCHANGED <<cap, ref, form, poll, park>>
    BY <1>7 DEF AskPrice
  <2>2. PollIsOfVariant'
    BY <1>i, <2>1 DEF PollIsOfVariant
  <2> QED BY <1>i, <1>7, <2>1, <2>2, Prices, ChoiceStays, ParkStays DEF DeskInv
<1>8. ASSUME NEW q \in asking, PriceArrives(q) PROVE DeskInv'
  <2>1. UNCHANGED <<cap, ref, form, poll, park>> /\ asking' \subseteq asking /\ price' \in asking
    BY <1>8 DEF PriceArrives
  <2>2. PollIsOfVariant'
    BY <1>i, <2>1 DEF PollIsOfVariant
  <2> QED BY <1>i, <2>1, <2>2, ChoiceStays, ParkStays, PricesStay DEF DeskInv
<1>9. ASSUME NEW w \in Parks, Polled(w) PROVE DeskInv'
  <2>1. /\ UNCHANGED <<cap, ref, form, price, asking>> /\ poll' = Resting
        /\ park' = [of |-> poll.of, residents |-> w.residents, budget |-> w.budget, demand |-> w.demand]
    BY <1>9 DEF Polled
  <2>2. PollIsOfVariant'
    BY <2>1 DEF Resting, PollIsOfVariant
  <2>3. ParkIsSound'
    BY <2>1, WorkshopAssumption DEF ParkIsSound
  <2> QED BY <1>i, <2>1, <2>2, <2>3, ChoiceStays, PricesStay DEF DeskInv
<1>10. CASE Unanswered \/ Timer \/ Hide \/ Show
  <2>1. /\ UNCHANGED <<cap, ref, form, price, asking, park>>
        /\ poll' \in {Resting, Asleep, Asked(ref)}
    BY <1>10 DEF Unanswered, Timer, Hide, Show, Ask
  <2>2. PollIsOfVariant'
    BY <2>1 DEF Resting, Asleep, Asked, PollIsOfVariant
  <2> QED BY <1>i, <2>1, <2>2, ChoiceStays, ParkStays, PricesStay DEF DeskInv
<1>11. CASE UNCHANGED deskVars
  <2>1. UNCHANGED <<cap, ref, form, price, asking, poll, park>>
    BY <1>11 DEF deskVars
  <2>2. PollIsOfVariant'
    BY <1>i, <2>1 DEF PollIsOfVariant
  <2> QED BY <1>i, <2>1, <2>2, ChoiceStays, ParkStays, PricesStay DEF DeskInv
<1>12. CASE Compose
  BY <1>3, <1>4, <1>5, <1>6, <1>7, <1>8, <1>9, <1>10, <1>12 DEF Compose
<1> QED BY <1>1, <1>2, <1>11, <1>12 DEF DeskNext, Choose

LEMMA DeskIsKept == DeskInv => DeskIsOfOne
<1> SUFFICES ASSUME DeskInv PROVE DeskIsOfOne
  OBVIOUS
<1>1. PriceIsOfVariant
  <2> SUFFICES ASSUME PriceShown # NoRef PROVE DOMAIN PriceShown.input \subseteq Declared(cap)
    BY DEF PriceIsOfVariant
  <2>1. PriceShown = price /\ price # NoRef /\ price.ref = ref
    BY DEF PriceShown
  <2>2. PICK c \in DOMAIN ModelsFor :
          price.ref \in Range(VariantsIn(ModelsFor[c])) /\ DOMAIN price.input \subseteq Declared(c)
    BY <2>1 DEF DeskInv, PricesAreSound, OfAVariant
  <2>3. ref # NoRef
    BY <2>1 DEF DeskInv, PricesAreSound, OfAVariant
  <2>4. cap \in DOMAIN ModelsFor /\ ref \in Range(VariantsIn(ModelsFor[cap]))
    BY <2>3 DEF DeskInv, VariantIsOfCapability
  <2>5. c = cap
    BY <2>1, <2>2, <2>4, WorkshopAssumption
  <2> QED BY <2>1, <2>2, <2>5
<1> QED BY <1>1, RailToScale, PanelWhole DEF DeskInv, DeskIsOfOne

(* The screen tells what is of the variant on it, for any capabilities,     *)
(* variants, polls and prices, in any order of their answers (Atelier.tsx,  *)
(* SelecteurCapacite.tsx); and, for a user who does nothing while an        *)
(* authorisation is awaited, the light of the camera is on only for what    *)
(* the panel shows, for any openings, recordings and deposits.  For one who *)
(* does not wait it is not: LightAlwaysHeld (CapturePanel.tsx:164).         *)
THEOREM ScreenTellsTrue == ScreenSpec => []ScreenIsTrue
<1>1. DeskInv /\ CameraInv => ScreenIsTrue
  BY DeskIsKept, CameraLit DEF ScreenIsTrue
<1>2. DeskInv /\ CameraInv /\ [ScreenNext]_<<deskVars, captureVars>> => (DeskInv /\ CameraInv)'
  BY DeskSteps, CameraSteps DEF ScreenNext
<1> QED BY <1>1, <1>2, DeskStarts, CameraStarts, PTL DEF ScreenSpec
=============================================================================
