------------------------------ MODULE Provision ------------------------------
(***************************************************************************)
(* From a manifest to a variant that can run: `ecurie pull` (pull.py, with *)
(* weights.py that finds what it wrote), `ecurie env sync` (envs.py) and   *)
(* `ecurie bench`, whose profile a human commits; and readiness.py, which  *)
(* says what is still missing.                                             *)
(*                                                                         *)
(* A repository of the Hugging Face cache keeps blobs, shared by its       *)
(* revisions, and for each revision a directory of links to them.  Several *)
(* terminals pull at once, are interrupted, lose the network; the store    *)
(* throws blobs away meanwhile.                                            *)
(***************************************************************************)
EXTENDS Integers, Sequences, FiniteSets, FiniteSetsExt

CONSTANTS
  Programs,    \* the terminals
  Variants, SourcesOf,  \* the repositories of each variant, weights first
  EnvOf,       \* the environment of each variant
  FilesOf,     \* what each repository holds, at each of its revisions
  Floating,    \* a revision that is no commit: main, zeros, a short sha
  Size,        \* of each file
  Total, MinFree,       \* the volume, and what free_disk_ratio keeps of it
  MaxEdits,    \* bound on what else is written: revisions of the registry,
               \* bytes of other programs on the volume
  MaxFaults    \* bound on interruptions, lost networks and lost venvs

Repos == DOMAIN FilesOf
Files == DOMAIN Size
Revisions(r) == DOMAIN FilesOf[r]
Envs == {EnvOf[v] : v \in Variants}

ASSUME ProvisionAssumption ==
  /\ \A v \in Variants : SourcesOf[v] \in Seq(Repos) /\ SourcesOf[v] # <<>>
  /\ \A r \in Repos : /\ FilesOf[r] \in [Revisions(r) -> SUBSET Files \ {{}}]
                      /\ Floating \notin Revisions(r)
  /\ Size \in [Files -> Nat] /\ IsFiniteSet(Files)
  /\ {Total, MinFree, MaxEdits, MaxFaults} \subseteq Nat

VARIABLES
  pinned,    \* the revision the registry gives each repository
  snapshot,  \* the links of each revision, or none without its directory
  blobs,     \* the files whose content is in the cache
  other,     \* what else is on the volume, the trash included
  doomed,    \* the blobs the last plan of the store throws away
  taken,     \* the blobs that were thrown away
  env,       \* of each environment: "absent", "declared", "synced"
  profile,   \* the variants whose profile is measured and committed
  job,       \* where each pull is
  spent,     \* per pull, what was written to the volume since it planned
  edits, faults

disk == <<snapshot, blobs, other>>
store == <<doomed, taken>>
vars == <<pinned, disk, store, env, profile, job, spent, edits, faults>>

SizeOf(files) == MapThenSumSet(LAMBDA f : Size[f], files)
Free == Total - other - SizeOf(blobs)

Absent == [made |-> FALSE, links |-> {}]
Idle == [at |-> "idle", done |-> FALSE, plans |-> <<>>, k |-> 1, todo |-> {}, own |-> {},
         force |-> FALSE, ignore |-> FALSE]

Init ==
  /\ pinned = [r \in Repos |-> Floating]
  /\ snapshot = [r \in Repos |-> [v \in Revisions(r) |-> Absent]]
  /\ blobs = {} /\ other = 0 /\ doomed = {} /\ taken = {}
  /\ env = [e \in Envs |-> "absent"]
  /\ profile \in SUBSET Variants
  /\ job = [g \in Programs |-> Idle]
  /\ spent = [g \in Programs |-> 0]
  /\ edits = 0 /\ faults = 0

-----------------------------------------------------------------------------
(* What is there (variant_presence). A link leads somewhere as long as its  *)
(* blob is in the cache.                                                    *)

Linked(r, rev) == snapshot[r][rev].links
Reached(r, rev) == Linked(r, rev) \cap blobs

(* resolve_source: the directory of the pinned revision is enough. *)
Resolved(r) == pinned[r] # Floating /\ snapshot[r][pinned[r]].made

(* Mutant: only the entries of a directory that exists may be missing.      *)
MissingEntries(r, rev) ==
  IF snapshot[r][rev].made THEN FilesOf[r][rev] \ Reached(r, rev) ELSE {}

(* Mutant: a link counts although it leads nowhere.                         *)
MissingLinks(r, rev) == FilesOf[r][rev] \ Linked(r, rev)

Missing(r, rev) ==
  IF snapshot[r][rev].made THEN FilesOf[r][rev] \ Reached(r, rev) ELSE FilesOf[r][rev]

Complete(r, rev) == snapshot[r][rev].made /\ Missing(r, rev) = {}

(* plan_pull, at the pinned revision; the guard is measured now.            *)
GuardOk(needed) == Free - needed >= MinFree

PlanOf(r) ==
  LET rev == pinned[r]
  IN  [repo |-> r, rev |-> rev, complete |-> Complete(r, rev), missing |-> Missing(r, rev),
       fits |-> GuardOk(SizeOf(Missing(r, rev)))]

-----------------------------------------------------------------------------
(* `ecurie pull`: every repository is planned (plan_pulls), then one after  *)
(* the other is fetched along its plan (run_pulls, run_pull).               *)

Begin(g, v, force, ignore) ==
  LET repos == SourcesOf[v]
  IN  /\ job[g].at = "idle"
      /\ \A i \in DOMAIN repos : pinned[repos[i]] # Floating
      /\ job' = [job EXCEPT ![g] =
                   [Idle EXCEPT !.at = "check", !.force = force, !.ignore = ignore,
                                !.plans = [i \in DOMAIN repos |-> PlanOf(repos[i])]]]
      /\ spent' = [spent EXCEPT ![g] = 0]
      /\ UNCHANGED <<pinned, disk, store, env, profile, edits, faults>>

Current(g) == job[g].plans[job[g].k]
Ends(g, done) == [job EXCEPT ![g] = [Idle EXCEPT !.done = done]]
Advance(g) == IF job[g].k = Len(job[g].plans) THEN Ends(g, TRUE)
              ELSE [job EXCEPT ![g].at = "check", ![g].k = @ + 1]

Check(g) ==
  /\ job[g].at = "check"
  /\ job' = IF Current(g).complete /\ ~job[g].force THEN Advance(g)
            ELSE IF ~Current(g).fits /\ ~job[g].ignore THEN Ends(g, FALSE)
            ELSE [job EXCEPT ![g].at = "fetch", ![g].own = {},
                                   ![g].todo = FilesOf[Current(g).repo][Current(g).rev]]
  /\ UNCHANGED <<pinned, disk, store, env, profile, spent, edits, faults>>

(* snapshot_download, file by file: what the cache has is only linked; under *)
(* --force (force_download) it is downloaded again beside the old file,      *)
(* whose place it then takes, so that there must be room for both meanwhile. *)
Fetch(g, f) ==
  LET r == Current(g).repo
      rev == Current(g).rev
      new == {f} \ blobs
  IN  /\ job[g].at = "fetch" /\ f \in job[g].todo
      /\ SizeOf(new) <= Free /\ (job[g].force => Size[f] <= Free)
      /\ blobs' = blobs \cup {f}
      /\ snapshot' = [snapshot EXCEPT ![r][rev] = [made |-> TRUE, links |-> @.links \cup {f}]]
      /\ job' = [job EXCEPT ![g].todo = @ \ {f}, ![g].own = @ \cup new]
      /\ spent' = [h \in Programs |-> IF job[h].at = "idle" THEN 0 ELSE spent[h] + SizeOf(new)]
      /\ UNCHANGED <<pinned, other, store, env, profile, edits, faults>>

(* The download returns: all is fetched, or the network is lost and the     *)
(* library is content with the directory it finds.                          *)
Return(g) ==
  /\ job[g].at = "fetch"
  /\ \/ job[g].todo = {} /\ UNCHANGED faults
     \/ /\ job[g].todo # {} /\ snapshot[Current(g).repo][Current(g).rev].made
        /\ faults < MaxFaults /\ faults' = faults + 1
  /\ job' = [job EXCEPT ![g].at = "verify", ![g].todo = {}]
  /\ UNCHANGED <<pinned, disk, store, env, profile, spent, edits>>

(* Mutant: the download's word is taken for it.                             *)
Trust(g) ==
  /\ job[g].at = "verify"
  /\ job' = Advance(g)
  /\ UNCHANGED <<pinned, disk, store, env, profile, spent, edits, faults>>

(* Every file that was asked for must be there. *)
Verify(g) ==
  /\ job[g].at = "verify"
  /\ job' = IF Complete(Current(g).repo, Current(g).rev) THEN Advance(g) ELSE Ends(g, FALSE)
  /\ UNCHANGED <<pinned, disk, store, env, profile, spent, edits, faults>>

(* No room for the next file, which is told; or an exception, Ctrl-C, a kill. *)
NoRoom(g) ==
  /\ job[g].at = "fetch"
  /\ \E f \in job[g].todo : (job[g].force \/ f \notin blobs) /\ Size[f] > Free
  /\ job' = Ends(g, FALSE)
  /\ UNCHANGED <<pinned, disk, store, env, profile, spent, edits, faults>>

Break(g) ==
  /\ job[g].at # "idle" /\ faults < MaxFaults
  /\ job' = Ends(g, FALSE)
  /\ faults' = faults + 1
  /\ UNCHANGED <<pinned, disk, store, env, profile, spent, edits>>

-----------------------------------------------------------------------------
(* The store, other programs and humans. *)

(* The blobs that no pinned revision names are stale (the scan, the plan);  *)
(* what the plan says is applied later, to the trash of the same volume.    *)
Wanted == UNION {FilesOf[r][pinned[r]] : r \in {q \in Repos : pinned[q] # Floating}}

PlanStore ==
  /\ doomed' = blobs \ (Wanted \cup taken)
  /\ doomed' # doomed
  /\ UNCHANGED <<pinned, disk, taken, env, profile, job, spent, edits, faults>>

Quarantine(b) ==
  /\ b \in doomed \cap blobs
  /\ blobs' = blobs \ {b}
  /\ other' = other + Size[b]
  /\ doomed' = doomed \ {b} /\ taken' = taken \cup {b}
  /\ UNCHANGED <<pinned, snapshot, env, profile, job, spent, edits, faults>>

Fill ==
  /\ edits < MaxEdits /\ edits' = edits + 1
  /\ Free > 0 /\ other' = other + 1
  /\ spent' = [h \in Programs |-> IF job[h].at = "idle" THEN 0 ELSE spent[h] + 1]
  /\ UNCHANGED <<pinned, snapshot, blobs, store, env, profile, job, faults>>

Vacate ==
  /\ other > 0
  /\ other' = 0
  /\ UNCHANGED <<pinned, snapshot, blobs, store, env, profile, job, spent, edits, faults>>

(* A commit to the registry: the sha that `pull --resolve` prints. *)
Pin(r, rev) ==
  /\ pinned[r] # rev
  /\ IF pinned[r] = Floating THEN UNCHANGED edits ELSE edits < MaxEdits /\ edits' = edits + 1
  /\ pinned' = [pinned EXCEPT ![r] = rev]
  /\ UNCHANGED <<disk, store, env, profile, job, spent, faults>>

-----------------------------------------------------------------------------
(* Environments and profiles. *)

Declare(e) ==
  /\ env[e] = "absent" /\ env' = [env EXCEPT ![e] = "declared"]
  /\ UNCHANGED <<pinned, disk, store, profile, job, spent, edits, faults>>

(* `uv sync`; one that fails leaves no interpreter. *)
Sync(e) ==
  /\ env[e] = "declared" /\ env' = [env EXCEPT ![e] = "synced"]
  /\ UNCHANGED <<pinned, disk, store, profile, job, spent, edits, faults>>

LoseVenv(e) ==
  /\ env[e] = "synced" /\ faults < MaxFaults
  /\ env' = [env EXCEPT ![e] = "declared"]
  /\ faults' = faults + 1
  /\ UNCHANGED <<pinned, disk, store, profile, job, spent, edits>>

(* What acquire resolves before it launches a worker: the weights, the      *)
(* other sources, the environment (spec_for_variant).                       *)
Launches(v) ==
  /\ \A i \in DOMAIN SourcesOf[v] : Resolved(SourcesOf[v][i])
  /\ env[EnvOf[v]] = "synced"

(* What the worker then needs to load. *)
Whole(v) == \A i \in DOMAIN SourcesOf[v] :
              LET r == SourcesOf[v][i]
              IN  Resolved(r) /\ FilesOf[r][pinned[r]] \subseteq Reached(r, pinned[r])

(* run_bench writes when every case passed; a human commits what it wrote.  *)
Bench(v) ==
  /\ v \notin profile /\ Launches(v) /\ Whole(v)
  /\ profile' = profile \cup {v}
  /\ UNCHANGED <<pinned, disk, store, env, job, spent, edits, faults>>

(* inspect_variant: what it finds in the way. *)
Blockers(v) ==
  {b \in {"weights", "env", "profile"} :
     \/ b = "weights" /\ ~Resolved(Head(SourcesOf[v]))
     \/ b = "env" /\ env[EnvOf[v]] # "synced"
     \/ b = "profile" /\ v \notin profile}

Ready(v) == Blockers(v) = {}

-----------------------------------------------------------------------------
Pull(g) == Check(g) \/ Return(g) \/ Verify(g) \/ NoRoom(g) \/ \E f \in Files : Fetch(g, f)

Next ==
  \/ \E g \in Programs : Pull(g) \/ Break(g)
  \/ \E g \in Programs, v \in Variants, force, ignore \in BOOLEAN : Begin(g, v, force, ignore)
  \/ PlanStore \/ Fill \/ Vacate \/ \E b \in Files : Quarantine(b)
  \/ \E r \in Repos : \E rev \in Revisions(r) : Pin(r, rev)
  \/ \E e \in Envs : Declare(e) \/ Sync(e) \/ LoseVenv(e)
  \/ \E v \in Variants : Bench(v)

(* A pull that began goes on. The user pins, pulls what is not whole and    *)
(* insists, declares, syncs and measures, as the messages say.              *)
Insist(v) == ~Whole(v) /\ \E g \in Programs : Begin(g, v, FALSE, TRUE)

Fairness ==
  /\ \A g \in Programs : WF_vars(Pull(g))
  /\ \A r \in Repos : WF_vars(pinned[r] = Floating /\ \E rev \in Revisions(r) : Pin(r, rev))
  /\ WF_vars(Vacate)
  /\ \A e \in Envs : WF_vars(Declare(e) \/ Sync(e))
  /\ \A v \in Variants : SF_vars(Insist(v)) /\ SF_vars(Bench(v))

Spec == Init /\ [][Next]_vars /\ Fairness

-----------------------------------------------------------------------------
(* The links of a revision are among its files, and a directory holds them. *)
TypeOK ==
  /\ \A r \in Repos : pinned[r] \in Revisions(r) \cup {Floating}
  /\ \A r \in Repos : \A rev \in Revisions(r) :
       /\ snapshot[r][rev].links \subseteq FilesOf[r][rev]
       /\ snapshot[r][rev].made = (snapshot[r][rev].links # {})
  /\ Free >= 0 /\ doomed \cap taken = {}
  /\ \A g \in Programs : job[g].at # "idle" => job[g].k \in DOMAIN job[g].plans

(* The guard of the disk: while a pull that did not pass over it writes, at *)
(* least MinFree stays free, but for what others wrote since it planned,    *)
(* what it wrote for the sources before this one, and what the store threw  *)
(* away under it.                                                           *)
GuardKept ==
  TypeOK /\ \A g \in Programs :
    job[g].at \in {"fetch", "verify"} /\ ~job[g].ignore =>
      Free + spent[g] - SizeOf(job[g].own \ taken) >= MinFree

(* A pull that says it is done left every file of every source at the       *)
(* revision it planned, but for those the store threw away.                 *)
PullHonest ==
  [][\A g \in Programs : job[g].at # "idle" /\ job'[g].done =>
       \A i \in DOMAIN job[g].plans :
         LET p == job[g].plans[i]
         IN  FilesOf[p.repo][p.rev] \ taken \subseteq Reached(p.repo, p.rev)]_vars

(* After interrupted downloads, lost networks, dangling links, a lost venv  *)
(* and changed revisions, the commands that messages name make every        *)
(* variant whole, its environment ready and its profile measured.           *)
ParkConverges == <>[](\A v \in Variants : Whole(v) /\ Ready(v))

(* What readiness.py asks, "would this variant run, here and now".          *)
ReadyRuns == \A v \in Variants : Ready(v) => Whole(v)

(* What pull.py says of the guard, at its word.                             *)
GuardAtItsWord ==
  \A g \in Programs :
    job[g].at = "verify" /\ ~job[g].ignore /\ other = 0 => Free >= MinFree

=============================================================================
