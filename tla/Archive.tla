------------------------------ MODULE Archive ------------------------------
(***************************************************************************)
(* What a job leaves behind it (runner.py): copies of its inputs and their *)
(* hashes, its outputs, its manifest, a row of `runs` (db.py); where its   *)
(* inputs come from (the deposits of uploads.py, files of the user); and   *)
(* what GET /jobs/{id} says of it once the server has forgotten it         *)
(* (routers/jobs.py).                                                      *)
(*                                                                         *)
(* Users edit their files, deposits age and are purged, disks fill up and  *)
(* programs are killed meanwhile.  A hash is the content it is taken of.   *)
(***************************************************************************)
EXTENDS Naturals, FiniteSets

CONSTANTS
  Jobs,
  Fields,            \* the file fields of the contract, in their order
  Outputs, Required, \* the file outputs, those the contract requires
  Files,             \* the files of the user
  Deposits,          \* one identifier for each upload
  NameOf,            \* the base name of each
  MediaOf, Accept,   \* the media type of an upload, the patterns of the contracts
  Forms,             \* what a user may fill in: a source for each field, list or not
  NoFile,            \* a field left empty; a name nothing is stored under
  Retention,         \* the age a deposit may reach
  MaxEdits, MaxFaults  \* bounds: edits; kills and disks full

Sources == Files \cup Deposits
Names == ({0} \cup Fields) \X {NameOf[s] : s \in Sources}

ASSUME ArchiveAssumption ==
  /\ Fields \subseteq Nat \ {0} /\ IsFiniteSet(Fields)
  /\ Required \subseteq Outputs
  /\ \A form \in Forms : form.of \in [Fields -> Sources \cup {NoFile}] /\ form.list \in BOOLEAN
  /\ NoFile \notin Sources \cup Names \cup [name : Names, sha : (Sources \X Nat) \cup {NoFile}]
  /\ {Retention, MaxEdits, MaxFaults} \subseteq Nat

VARIABLES
  version,   \* of each file of the user
  sas,       \* the deposits: their state and their age
  old,       \* the column `source` is missing from the table `runs`
  place,     \* where each job is
  given,     \* the source its form gave for each field
  ranked,    \* whether its fields are the items of one list
  todo,      \* the fields that are not staged yet
  resolved,  \* the name and the hash it resolved for each field
  inputs,    \* its directory: what is under each name of inputs/
  outputs,   \* ... the output files it holds
  announced, \* the outputs the worker named, or NoFile without a result
  manifest,  \* ... its manifest
  leased,    \* whether it had a worker
  rows,      \* the table `runs`
  listed,    \* the jobs the server remembers
  state,     \* the state it remembers of each
  edits,
  faults     \* kills and full disks so far

user == <<version, edits>>
folder == <<inputs, outputs, manifest>>
thread == <<place, given, ranked, todo, resolved, announced, leased>>
vars == <<user, sas, old, thread, folder, rows, listed, state, faults>>

Bare == [is |-> "none", ok |-> FALSE, resolved |-> NoFile]
Torn == [Bare EXCEPT !.is = "torn"]

Init ==
  /\ version = [f \in Files |-> 0]
  /\ sas = [d \in Deposits |-> [is |-> "none", age |-> 0]]
  /\ old = TRUE
  /\ place = [j \in Jobs |-> "none"]
  /\ given = [j \in Jobs |-> [f \in Fields |-> NoFile]]
  /\ ranked = [j \in Jobs |-> FALSE] /\ todo = [j \in Jobs |-> {}]
  /\ resolved = [j \in Jobs |-> [f \in Fields |-> NoFile]]
  /\ inputs = [j \in Jobs |-> [n \in Names |-> NoFile]]
  /\ outputs = [j \in Jobs |-> {}]
  /\ announced = [j \in Jobs |-> {}]
  /\ manifest = [j \in Jobs |-> Bare]
  /\ leased = {} /\ rows = [j \in Jobs |-> "none"]
  /\ listed = {} /\ state = [j \in Jobs |-> "none"]
  /\ edits = 0 /\ faults = 0

-----------------------------------------------------------------------------
(* Deposits. *)

(* correspond: a pattern is a pair, its second half possibly "*". *)
Corresponds(media, pattern) ==
  \/ pattern[1] = "*"
  \/ pattern[1] = media[1] /\ pattern[2] \in {"*", media[2]}

Accepted(d) == \E pattern \in Accept : Corresponds(MediaOf[d], pattern)

(* Without a file: not uploaded, given up, purged. *)
Absent == {"none", "refused", "gone"}

(* Mutant: whatever is not of today goes. *)
PurgedEarly(deposit) ==
  IF deposit.is \notin Absent /\ deposit.age >= Retention /\ Retention > 0
  THEN [deposit EXCEPT !.is = "gone"] ELSE deposit

(* purger: what is strictly older than the retention. *)
Purged(deposit) ==
  IF deposit.is \notin Absent /\ deposit.age > Retention
  THEN [deposit EXCEPT !.is = "gone"] ELSE deposit

(* deposer: the type, the purge, then the writing. *)
Receive(d) ==
  /\ sas[d].is = "none" /\ Accepted(d)
  /\ sas' = [e \in Deposits |-> IF e = d THEN [is |-> "writing", age |-> 0]
                                ELSE Purged(sas[e])]
  /\ UNCHANGED <<user, old, thread, folder, rows, listed, state, faults>>

(* The same, of a file that no form will name. *)
ReceiveOther ==
  /\ sas' = [d \in Deposits |-> Purged(sas[d])] /\ sas' # sas
  /\ UNCHANGED <<user, old, thread, folder, rows, listed, state, faults>>

Settles(d, as) ==
  /\ sas[d].is = "writing"
  /\ sas' = [sas EXCEPT ![d].is = as]
  /\ UNCHANGED <<user, old, thread, folder, rows, listed, state, faults>>

(* ecrire: to the end; or too long, or no room: the partial file goes.     *)
Written(d) == Settles(d, "whole")
TooLarge(d) == Settles(d, "refused")

(* A day passes; what is being written stays young. *)
Age ==
  LET older(x) == IF x.is \in Absent \cup {"writing"} \/ x.age > Retention THEN x
                  ELSE [x EXCEPT !.age = @ + 1]
  IN  /\ sas' = [d \in Deposits |-> older(sas[d])]
      /\ sas' # sas
      /\ UNCHANGED <<user, old, thread, folder, rows, listed, state, faults>>

Edit(f) ==
  /\ edits < MaxEdits
  /\ edits' = edits + 1
  /\ version' = [version EXCEPT ![f] = @ + 1]
  /\ UNCHANGED <<sas, old, thread, folder, rows, listed, state, faults>>

(* is_file, and what a reader finds. *)
Exists(s) == s \in Files \/ (s \in Deposits /\ sas[s].is = "whole")
ContentOf(s) == <<s, IF s \in Files THEN version[s] ELSE 0>>

-----------------------------------------------------------------------------
(* A job. *)

Goes(j, to) == place' = [place EXCEPT ![j] = to]

(* _copier: the items of a list bear their rank, a field alone its name.   *)
Target(j, f) == <<IF ranked[j] THEN f ELSE 0, NameOf[given[j][f]]>>

(* The form holds the paths it was given, for as long as its user likes.   *)
Submit(j, form) ==
  /\ place[j] = "none"
  /\ \A f \in Fields : form.of[f] \in Deposits => sas[form.of[f]].is \in {"whole", "gone"}
  /\ Goes(j, "open")
  /\ given' = [given EXCEPT ![j] = form.of]
  /\ ranked' = [ranked EXCEPT ![j] = form.list]
  /\ todo' = [todo EXCEPT ![j] = Fields]
  /\ listed' = listed \cup {j} /\ state' = [state EXCEPT ![j] = "running"]
  /\ UNCHANGED <<user, sas, old, resolved, announced, leased, folder, rows, faults>>

Quiet == UNCHANGED <<user, sas, listed, state, faults>>

(* open_db: the columns are read ... *)
OpenBase(j) ==
  /\ place[j] = "open"
  /\ Goes(j, IF old THEN "alter" ELSE "stage")
  /\ Quiet /\ UNCHANGED <<old, given, ranked, todo, resolved, announced, leased, folder, rows>>

(* Mutant: the loser raises, outside the `try` of _executer. *)
AlterRaises(j) ==
  /\ place[j] = "alter"
  /\ Goes(j, IF old THEN "stage" ELSE "dead")
  /\ old' = FALSE
  /\ Quiet /\ UNCHANGED <<given, ranked, todo, resolved, announced, leased, folder, rows>>

(* ... and the missing one added; whoever comes second finds it there.     *)
AlterBase(j) ==
  /\ place[j] = "alter"
  /\ Goes(j, "stage")
  /\ old' = FALSE
  /\ Quiet /\ UNCHANGED <<given, ranked, todo, resolved, announced, leased, folder, rows>>

(* The field stage_inputs is at: sorted by name, a list by rank. *)
Current(j) == CHOOSE f \in todo[j] : \A g \in todo[j] : f <= g

(* The end, in the table of the server. *)
Ends(j, as) == Goes(j, "over") /\ state' = [state EXCEPT ![j] = as]

(* InputError, or a file that is not there: _executer reports it.          *)
RefuseInput(j) ==
  /\ place[j] = "stage"
  /\ \/ todo[j] = Fields
     \/ LET s == given[j][Current(j)]
        IN  todo[j] # {} /\ IF s = NoFile THEN ranked[j] ELSE ~Exists(s)
  /\ Ends(j, "failed")
  /\ UNCHANGED <<user, sas, old, given, ranked, todo, resolved, announced, leased, folder, rows,
                 listed, faults>>

(* stage_inputs, field by field: the copy, under its base name ... *)
CopyInput(j) ==
  LET f == Current(j)
      s == given[j][f]
  IN  /\ place[j] = "stage" /\ todo[j] # {}
      /\ IF s = NoFile
         THEN ~ranked[j] /\ todo' = [todo EXCEPT ![j] = @ \ {f}] /\ UNCHANGED <<place, inputs>>
         ELSE /\ Exists(s)
              /\ inputs' = [inputs EXCEPT ![j][Target(j, f)] = ContentOf(s)]
              /\ Goes(j, "hash") /\ UNCHANGED todo
      /\ Quiet /\ UNCHANGED <<old, given, ranked, resolved, announced, leased, outputs, manifest, rows>>

Hashed(j, content) ==
  LET f == Current(j)
  IN  /\ place[j] = "hash"
      /\ resolved' = [resolved EXCEPT ![j][f] = [name |-> Target(j, f), sha |-> content]]
      /\ todo' = [todo EXCEPT ![j] = @ \ {f}]
      /\ Goes(j, "stage")
      /\ Quiet /\ UNCHANGED <<old, given, ranked, announced, leased, folder, rows>>

(* Mutant: the original is hashed. *)
HashOriginal(j) == Hashed(j, ContentOf(given[j][Current(j)]))

(* ... and its hash, of the copy. *)
HashInput(j) == Hashed(j, inputs[j][Target(j, Current(j))])

Acquire(j, granted) ==
  /\ place[j] = "stage" /\ todo[j] = {}
  /\ leased' = IF granted THEN leased \cup {j} ELSE leased
  /\ announced' = [announced EXCEPT ![j] = IF granted THEN {} ELSE NoFile]
  /\ Goes(j, IF granted THEN "infer" ELSE "check")
  /\ Quiet /\ UNCHANGED <<old, given, ranked, todo, resolved, folder, rows>>

(* The worker writes into the directory, then answers; what it announces   *)
(* need not be what it wrote.                                              *)
Produce(j, o) ==
  /\ place[j] = "infer" /\ o \notin outputs[j]
  /\ outputs' = [outputs EXCEPT ![j] = @ \cup {o}]
  /\ Quiet /\ UNCHANGED <<old, thread, inputs, manifest, rows>>

Answer(j, said) ==
  /\ place[j] = "infer"
  /\ announced' = [announced EXCEPT ![j] = said]
  /\ Goes(j, "check")
  /\ Quiet /\ UNCHANGED <<old, given, ranked, todo, resolved, leased, folder, rows>>

(* Mutant: what the worker announced is believed. *)
MissingUnread(j) == Required \ announced[j]

(* _check_outputs: what the contract requires, announced and on the disk.  *)
Missing(j) == Required \ (announced[j] \cap outputs[j])

Ok(j) == announced[j] # NoFile /\ Missing(j) = {}

(* The manifest is opened, which empties it, then written. *)
OpenManifest(j) ==
  /\ place[j] = "check"
  /\ manifest' = [manifest EXCEPT ![j] = Torn]
  /\ Goes(j, "write")
  /\ Quiet /\ UNCHANGED <<old, given, ranked, todo, resolved, announced, leased, inputs, outputs, rows>>

WriteManifest(j) ==
  /\ place[j] = "write"
  /\ manifest' = [manifest EXCEPT ![j] = [is |-> "whole", ok |-> Ok(j), resolved |-> resolved[j]]]
  /\ Goes(j, "record")
  /\ Quiet /\ UNCHANGED <<old, given, ranked, todo, resolved, announced, leased, inputs, outputs, rows>>

Verdict(j) == IF Ok(j) THEN "done" ELSE "failed"

(* record_run: a row attests that the variant was used. *)
RowsWith(j) == IF j \in leased THEN [rows EXCEPT ![j] = Verdict(j)] ELSE rows

Record(j) ==
  /\ place[j] = "record"
  /\ rows' = RowsWith(j)
  /\ Ends(j, Verdict(j))
  /\ UNCHANGED <<user, sas, old, given, ranked, todo, resolved, announced, leased, folder,
                 listed, faults>>

(* The disk is full, or the base locked: run_job raises. *)
DiskFull(j) ==
  /\ place[j] \in {"check", "write", "record"} /\ faults < MaxFaults
  /\ faults' = faults + 1
  /\ manifest' = [manifest EXCEPT ![j] = IF place[j] = "check" THEN Torn ELSE @]
  /\ Ends(j, "failed")
  /\ UNCHANGED <<user, sas, old, given, ranked, todo, resolved, announced, leased, inputs, outputs,
                 rows, listed>>

-----------------------------------------------------------------------------
(* The server forgets a job that is over, or is killed with its threads.   *)

Forget(j) ==
  /\ j \in listed /\ place[j] = "over"
  /\ listed' = listed \ {j}
  /\ UNCHANGED <<user, sas, old, thread, folder, rows, state, faults>>

Kill ==
  /\ faults < MaxFaults
  /\ faults' = faults + 1
  /\ place' = [j \in Jobs |-> IF place[j] \in {"none", "over"} THEN place[j] ELSE "lost"]
  /\ sas' = [d \in Deposits |-> IF sas[d].is = "writing" THEN [sas[d] EXCEPT !.is = "torn"]
                                ELSE sas[d]]
  /\ listed' = {}
  /\ UNCHANGED <<user, old, given, ranked, todo, resolved, announced, leased, folder, rows, state>>

Run(j) ==
  \/ OpenBase(j) \/ AlterBase(j) \/ CopyInput(j) \/ HashInput(j)
  \/ \E granted \in BOOLEAN : Acquire(j, granted)
  \/ OpenManifest(j) \/ WriteManifest(j) \/ Record(j) \/ RefuseInput(j)
  \/ \E said \in SUBSET Outputs : Answer(j, said)

Next ==
  \/ \E d \in Deposits : Receive(d) \/ Written(d) \/ TooLarge(d)
  \/ ReceiveOther \/ Age \/ \E f \in Files : Edit(f)
  \/ \E j \in Jobs, form \in Forms : Submit(j, form)
  \/ \E j \in Jobs : Run(j) \/ DiskFull(j) \/ Forget(j) \/ \E o \in Outputs : Produce(j, o)
  \/ Kill

Spec == Init /\ [][Next]_vars

-----------------------------------------------------------------------------
(* GET /jobs/{id}: the table, or else the manifest (_lu_sur_disque). *)
FromDisk(j) == IF manifest[j].is # "whole" THEN "unknown"
               ELSE IF manifest[j].ok THEN "done" ELSE "failed"

(* Two fields, not the items of a list, with files of one base name. *)
Clash(j) ==
  \E f, g \in Fields : /\ f # g /\ given[j][f] # NoFile /\ given[j][g] # NoFile
                       /\ Target(j, f) = Target(j, g)

(* A job can be replayed from its directory: under the name the manifest    *)
(* gives for a field is the content it gives the hash of, whatever the user *)
(* edits, deposits or lets expire, and at whatever step the job ended. And  *)
(* a deposit within its retention is not refused for being absent.          *)
Replayable ==
  \A j \in Jobs :
    /\ manifest[j].is = "whole" /\ ~Clash(j) =>
         \A f \in Fields : given[j][f] # NoFile =>
           LET r == manifest[j].resolved[f] IN r # NoFile /\ inputs[j][r.name] = r.sha
    /\ \A d \in Deposits : sas[d].is = "gone" => sas[d].age > Retention

(* The three records of a job agree: the table of the server, the manifest  *)
(* that survives it, the row the recovery of space counts as a use. What is *)
(* announced as done has its required outputs on the disk, is done for who  *)
(* asks after a restart, and has its row; a row attests a worker; only a    *)
(* full disk or a locked base make them differ. And no job is said to run   *)
(* whose thread is gone, were it for having lost the race of _migrate.      *)
RecordsAgree ==
  \A j \in Jobs :
    /\ manifest[j].ok => Required \subseteq outputs[j] /\ j \in leased
    /\ rows[j] # "none" => j \in leased /\ rows[j] = FromDisk(j)
    /\ state[j] = "running" => place[j] \notin {"none", "over", "dead"}
    /\ place[j] = "over" =>
         /\ state[j] = "done" => FromDisk(j) = "done" /\ rows[j] = "done"
         /\ faults = 0 /\ manifest[j].is = "whole" =>
              FromDisk(j) = state[j] /\ (rows[j] # "none" <=> j \in leased)

(* What the docstring of _copier wants of every job. *)
ClashesToo ==
  \A j \in Jobs : manifest[j].is = "whole" =>
    \A f \in Fields : given[j][f] # NoFile =>
      LET r == manifest[j].resolved[f] IN r # NoFile /\ inputs[j][r.name] = r.sha

(* GET after the server forgot is what it said before. *)
TellsTheSame ==
  \A j \in Jobs : place[j] = "over" /\ manifest[j].is = "whole" => FromDisk(j) = state[j]
=============================================================================
