------------------------------ MODULE Commands ------------------------------
(***************************************************************************)
(* The command line: `ecurie env`, `ps`, `unload`, `run`, `bench`, `pull`  *)
(* (ecurie_runtime/cli.py) and `ecurie store` (ecurie_store/cli.py), with  *)
(* what they resolve on their own: the budget of the machine, how a worker *)
(* is launched, where a volume keeps its trash.                            *)
(*                                                                         *)
(* A command is asked once, in circumstances that say what it finds and    *)
(* what the functions it calls answer; its answer is its exit code and     *)
(* what it did.  What those functions do is in the other modules.          *)
(***************************************************************************)
EXTENDS Input, FiniteSets, SequencesExt

CONSTANT Invocations   \* the questions: [command, flags..., circumstances...]

(* A question has the flags of its command (`empty` has no --dry-run), and  *)
(* the outcomes of what is called in order, in that order.                  *)
ASSUME CommandsAssumption ==
  \A i \in Invocations :
    /\ i.command \in {"env sync", "ps", "unload", "run", "bench", "pull", "scan", "status",
                      "verify", "plan", "apply", "tier", "empty", "launch", "budget"}
    /\ i.command = "env sync" => IsSequence(i.names) /\ IsSequence(i.there)
    /\ i.command \in {"run", "bench"} =>
         /\ {"command", "registry", "ref", "job", "json"} \subseteq DOMAIN i
         /\ i.json \in BOOLEAN /\ i.job \in {"works", "fails", "raises"}
    /\ i.command = "run" => {"parses", "show"} \subseteq DOMAIN i
    /\ i.command = "bench" => "write" \in DOMAIN i
    /\ i.command = "pull" => IsSequence(i.pulls) /\ ToSet(i.pulls) \subseteq {"fetches", "there", "raises"}
    /\ i.command = "tier" => IsSequence(i.moves)
    /\ i.command = "empty" => ~i.dry
    /\ i.command = "budget" => IsSequence(i.probes)

VARIABLES invoked, exit   \* the question, and its answer once it is there

commandVars == <<invoked, exit>>

CommandsInit == invoked \in Invocations /\ exit = Unsaid

(* typer ends a misuse with 2, a refusal, an error or an abort with 1. *)
Ends(code, did) == [code |-> code, did |-> did]
Succeeds(did) == Ends(0, did)
Fails == Ends(1, {})
Misused == Ends(2, {})
(* What is done in order until something raises. *)
UntilRaised(outcomes) == {k \in DOMAIN outcomes : \A n \in 1..k : outcomes[n] # "raises"}
Raised(outcomes) == "raises" \in ToSet(outcomes)

-----------------------------------------------------------------------------
(* What most commands begin with. *)

(* _root, and _context for those that execute. *)
Rooted(i, answer) == IF i.registry = "none" THEN Misused ELSE answer
InContext(i, answer) == Rooted(i, IF i.registry = "broken" THEN Fails ELSE answer)
(* _resolve: a variant of the registry, whose capability has a contract. *)
OfRegistry(i, answer) == IF i.ref # "known" THEN Fails ELSE answer
(* _observed: a scan found something. *)
Observing(i, answer) == IF i.scanned THEN answer ELSE Fails
(* typer.confirm(abort=True), unless --yes or --dry-run. *)
Agreed(i, answer) == IF i.dry \/ i.yes \/ i.consents THEN answer ELSE Fails

-----------------------------------------------------------------------------
(* `ecurie env sync`: of the environments named, or of all, in that order. *)

SyncTargets(i) == IF i.names = <<>> THEN i.there ELSE i.names

(* Of an environment without a pyproject.toml, or whose resolution fails,   *)
(* it only says so; a uv that is missing or late ends the command.          *)
SyncEnvs(i) ==
  LET outcomes == [k \in DOMAIN SyncTargets(i) |-> i.envs[SyncTargets(i)[k]]]
  IN  Rooted(i, IF i.dry THEN Succeeds({})
                ELSE Ends(IF Raised(outcomes) THEN 1 ELSE 0,
                          {SyncTargets(i)[k] : k \in {n \in UntilRaised(outcomes) : outcomes[n] # "undeclared"}}))

(* `ecurie ps` reaps what became unreachable before it shows anything.     *)
ShowPark(i) ==
  Rooted(i, IF i.asks /\ i.ref # "known" THEN Ends(1, i.orphans) ELSE Succeeds(i.orphans))

-----------------------------------------------------------------------------
(* `ecurie unload`: a name with an @ is looked for as it is.  The force     *)
(* reaches the supervisor with --all only.                                  *)

Spared(i) == {r \in DOMAIN i.park : i.park[r] \in {"busy", "pinned"}}

UnloadCommand(i) ==
  Rooted(i, IF i.all THEN Succeeds(IF i.force THEN DOMAIN i.park ELSE DOMAIN i.park \ Spared(i))
            ELSE IF i.named = Unsaid THEN Misused
            ELSE IF i.bare /\ i.ref # "known" THEN Fails
            ELSE IF i.named \in Spared(i) THEN Fails
            ELSE Succeeds({i.named} \cap DOMAIN i.park))

-----------------------------------------------------------------------------
(* `ecurie run`: parameters, job, manifest or table, files opened. *)
RunCommand(i) ==
  InContext(i, OfRegistry(i,
    IF ~i.parses \/ i.job = "raises" THEN Fails
    ELSE IF i.job = "fails" THEN Ends(1, {"job"})
    ELSE Succeeds({"job"} \cup IF i.show /\ ~i.json THEN {"open"} ELSE {})))

(* `ecurie bench`: with --json the report is all there is. *)
BenchCommand(i) ==
  InContext(i, OfRegistry(i,
    IF i.job = "raises" THEN Fails
    ELSE Ends(IF i.job = "works" THEN 0 ELSE 1,
              {"bench"} \cup IF i.write /\ ~i.json /\ i.job = "works" THEN {"measure"} ELSE {})))

(* `ecurie pull`: --resolve asks the hub, --dry-run only plans; what was   *)
(* fetched before a failure stays.                                         *)
PullCommand(i) ==
  InContext(i, OfRegistry(i,
    IF i.resolve THEN (IF i.repo /\ i.hub THEN Succeeds({}) ELSE Fails)
    ELSE IF ~i.hub \/ ~i.repo THEN Fails
    ELSE IF i.dry THEN Succeeds({})
    ELSE Ends(IF Raised(i.pulls) THEN 1 ELSE 0, {k \in UntilRaised(i.pulls) : i.pulls[k] = "fetches"})))

-----------------------------------------------------------------------------
(* `ecurie store verify`: one selector at most, or the candidates.         *)

Selectors(i) ==
  {k \in {"paths", "variant", "all"} :
     \/ k = "paths" /\ i.paths # {}
     \/ k = "variant" /\ i.variant # Unsaid
     \/ k = "all" /\ i.all}

VerifyTargets(i) ==
  CASE i.paths # {} -> i.paths \cap DOMAIN i.files
    [] i.variant # Unsaid -> {f \in DOMAIN i.files : i.variant \in i.files[f].refs}
    [] i.all -> {f \in DOMAIN i.files : ~i.files[f].link}
    [] OTHER -> {f \in DOMAIN i.files : i.files[f].candidate}

VerifyCommand(i) ==
  IF Cardinality(Selectors(i)) > 1 THEN Misused
  ELSE Observing(i, Ends(IF \E f \in VerifyTargets(i) : i.files[f].read = "differs" THEN 1 ELSE 0,
                         VerifyTargets(i)))

(* `ecurie store apply`: a failed action does not stop the others, nor     *)
(* change the exit code; the day of the application is noted.              *)
ApplyCommand(i) ==
  IF ~i.plan THEN Fails
  ELSE Agreed(i, Succeeds(IF i.dry THEN {}
                          ELSE {<<"noted">>} \cup {<<"applied", k>> : k \in {n \in DOMAIN i.actions : i.actions[n] = "works"}}))

(* `ecurie store tier`: towards a declared volume, as the text of its path *)
(* begins; nothing is asked when there is nothing to move.                 *)
TierCommand(i) ==
  IF i.volumes # {} /\ \A v \in i.volumes : ~IsPrefix(v, i.dest) THEN Fails
  ELSE Observing(i,
    IF i.moves = <<>> \/ i.spread THEN Fails
    ELSE Agreed(i, IF i.dry THEN Succeeds({})
                   ELSE Ends(IF Raised(i.moves) THEN 1 ELSE 0, UntilRaised(i.moves))))

(* `ecurie store scan`, `status`, `plan`. *)
ScanCommand(i) == Succeeds({"scan"})
(* The figures are said to be stale when a plan was applied since the scan. *)
StatusCommand(i) ==
  Observing(i, Succeeds(IF i.applied > 0 /\ i.last > 0 /\ i.applied > i.last THEN {"stale"} ELSE {}))
PlanCommand(i) == Observing(i, Succeeds({"plan"}))

-----------------------------------------------------------------------------
(* The trash. A directory is where its path leads; a volume is the longest *)
(* of the mount points above it.                                           *)

VolumeOfPath(i, path) ==
  CHOOSE m \in i.mounts : /\ IsPrefix(m, path)
                          /\ \A n \in i.mounts : IsPrefix(n, path) => Len(n) <= Len(m)

(* trash_root_for: beside what is thrown away, so that it is a rename. *)
TrashOf(i, path) ==
  IF VolumeOfPath(i, path) = VolumeOfPath(i, i.home) THEN i.home ELSE VolumeOfPath(i, path)

(* Mutant: the trash of the home directory alone is looked into. *)
MainRoot(i) == {i.home}
(* _trash_roots: that of the home directory, and that of every volume which *)
(* a configured directory leads to, where it is mounted.                    *)
TrashRoots(i) ==
  {i.home} \cup {VolumeOfPath(i, c) : c \in {d \in i.configured :
                    VolumeOfPath(i, d) \notin i.gone \cup {VolumeOfPath(i, i.home)}}}

InTrash(i) == {k \in DOMAIN i.thrown : TrashOf(i, i.thrown[k].path) \in TrashRoots(i)
                                       /\ VolumeOfPath(i, i.thrown[k].path) \notin i.gone}

(* `ecurie store trash empty`: what is older, of what is there. *)
EmptyCommand(i) ==
  IF InTrash(i) = {} THEN Succeeds({})
  ELSE Agreed(i, Succeeds({k \in InTrash(i) : i.older = Unsaid \/ i.thrown[k].days > i.older}))

-----------------------------------------------------------------------------
(* spec_for_variant: the module of the capability, or of the runtime, or    *)
(* the script that the manifest names, below the root of the repository.    *)

WorkerModule(i) == FirstSaid(<<i.special, i.general>>)

(* Path.resolve, from the root of the repository or from the disk's. *)
ResolvedPath(i) ==
  FoldLeft(LAMBDA at, name : IF name # ".." THEN Append(at, name) ELSE IF at = <<>> THEN at ELSE Front(at),
           IF i.absolute THEN <<>> ELSE i.root, i.entry)

LaunchWorker(i) ==
  IF i.venv # "synced" THEN Fails
  ELSE IF i.custom
  THEN IF /\ i.entry # Unsaid /\ IsPrefix(i.root, ResolvedPath(i)) /\ ResolvedPath(i) \in i.scripts
       THEN Succeeds({ResolvedPath(i)}) ELSE Fails
  ELSE IF WorkerModule(i) = Unsaid THEN Fails ELSE Succeeds({WorkerModule(i)})

(* detect_budget: what the configuration says, what Metal says through the *)
(* mlx of this program or of the first environment that has one, or three  *)
(* quarters of the memory.                                                 *)
Budgets(i) ==
  LET probes == <<i.mlx>> \o i.probes
      says == {k \in DOMAIN probes : probes[k] # 0}
  IN  IF i.configured # Unsaid THEN i.configured
      ELSE IF says # {} THEN probes[Min(says)]
      ELSE IF i.memory # 0 THEN (i.memory * 3) \div 4 ELSE 8

-----------------------------------------------------------------------------
CommandAnswer(i) ==
  CASE i.command = "env sync" -> SyncEnvs(i)
    [] i.command = "ps" -> ShowPark(i)
    [] i.command = "unload" -> UnloadCommand(i)
    [] i.command = "run" -> RunCommand(i)
    [] i.command = "bench" -> BenchCommand(i)
    [] i.command = "pull" -> PullCommand(i)
    [] i.command = "scan" -> ScanCommand(i)
    [] i.command = "status" -> StatusCommand(i)
    [] i.command = "verify" -> VerifyCommand(i)
    [] i.command = "plan" -> PlanCommand(i)
    [] i.command = "apply" -> ApplyCommand(i)
    [] i.command = "tier" -> TierCommand(i)
    [] i.command = "empty" -> EmptyCommand(i)
    [] i.command = "launch" -> LaunchWorker(i)
    [] i.command = "budget" -> Succeeds({Budgets(i)})

RunOnce == exit = Unsaid /\ exit' = CommandAnswer(invoked) /\ UNCHANGED invoked

CommandsSpec == CommandsInit /\ [][RunOnce]_commandVars

-----------------------------------------------------------------------------
(* A dry run, a misuse and a question that is not agreed to leave the disk, *)
(* the park and the registry as they are.                                   *)
Touches(i, a) ==
  /\ a.code = 2 => a.did = {}
  /\ i.command \in {"env sync", "pull", "apply", "tier"} /\ i.dry => a.did = {}
  /\ i.command \in {"apply", "tier", "empty"} /\ a.did # {} => i.yes \/ i.consents

(* --json changes what is printed, never the exit code; nor what `run`     *)
(* does, but for the files that a reader is shown, nor what a `bench` that *)
(* was told --no-write does.                                               *)
SameInJson(i, a) ==
  i.command \in {"run", "bench"} =>
    LET plain == CommandAnswer([i EXCEPT !.json = FALSE])
    IN  /\ a.code = plain.code
        /\ i.command = "run" /\ i.json => a.did = plain.did \ {"open"}
        /\ i.command = "bench" /\ ~i.write => a.did = plain.did

(* Of --write, which is the default: "Ecrire registry/measurements/"        *)
(* (runtime cli.py:489).  With --json nothing is written: this does not     *)
(* hold.                                                                   *)
BenchWrites ==
  exit # Unsaid /\ invoked.command = "bench" =>
    (invoked.write /\ "bench" \in exit.did /\ invoked.job = "works" => "measure" \in exit.did)

(* The success of six commands is one: the job worked; every source is     *)
(* there; nothing of what --all reads differs from what its manager        *)
(* announced; what was to be unloaded is; every file is moved.  Nothing is *)
(* said here of `env sync` and `apply`, which end with 0 whatever failed.  *)
TrueSuccess(i, a) ==
  a.code = 0 =>
    /\ i.command \in {"run", "bench"} => i.job = "works"
    /\ i.command = "pull" /\ ~i.resolve /\ ~i.dry =>
         \A k \in DOMAIN i.pulls : i.pulls[k] = "there" \/ k \in a.did
    /\ i.command = "verify" /\ i.all =>
         ~ \E f \in DOMAIN i.files : ~i.files[f].link /\ i.files[f].read = "differs"
    /\ i.command = "unload" =>
         \A r \in DOMAIN i.park :
           (i.all \/ i.named = r) /\ (i.force \/ r \notin Spared(i)) => r \in a.did
    /\ i.command = "tier" /\ ~i.dry => a.did = DOMAIN i.moves /\ a.did # {}

(* The same of the other two: an exit code of 0 says that every environment *)
(* and every action worked.  Neither holds (runtime cli.py:181, store       *)
(* cli.py:433-460).                                                        *)
SyncSucceeds ==
  exit # Unsaid /\ invoked.command = "env sync" /\ exit.code = 0 /\ ~invoked.dry =>
    \A k \in DOMAIN SyncTargets(invoked) : invoked.envs[SyncTargets(invoked)[k]] = "syncs"
ApplySucceeds ==
  exit # Unsaid /\ invoked.command = "apply" /\ exit.code = 0 /\ ~invoked.dry =>
    \A k \in DOMAIN invoked.actions : invoked.actions[k] = "works"

(* One environment that fails, one action that fails, one source that is    *)
(* already there keep no other from being done.                             *)
Independent(i, a) ==
  /\ i.command = "env sync" /\ ~i.dry /\ a.code = 0 =>
       \A k \in DOMAIN SyncTargets(i) :
         i.envs[SyncTargets(i)[k]] = "syncs" => SyncTargets(i)[k] \in a.did
  /\ i.command = "apply" /\ a.did # {} =>
       \A k \in DOMAIN i.actions : i.actions[k] = "works" <=> <<"applied", k>> \in a.did

(* A job that runs and a pinned model lose their worker to no `unload`     *)
(* without --force (runtime cli.py:324-326).                               *)
Respects(i, a) ==
  i.command = "unload" /\ ~i.force => a.did \cap Spared(i) = {}

(* With it they do: "unload even what is pinned or in the middle of a job"  *)
(* (runtime cli.py:319).  It does not hold: of a variant that is named, the *)
(* force is dropped (line 347).                                            *)
ForceReaches ==
  exit # Unsaid /\ invoked.command = "unload" /\ invoked.registry # "none" /\ invoked.force =>
    \A r \in DOMAIN invoked.park :
      invoked.all \/ (invoked.named = r /\ (invoked.bare => invoked.ref = "known")) => r \in exit.did

(* Whatever was thrown away from the volume of a configured directory is    *)
(* found again where that volume is mounted, and erased if it is old.       *)
TrashFound(i, a) ==
  i.command = "empty" /\ a.code = 0 =>
    \A k \in DOMAIN i.thrown :
      LET volume == VolumeOfPath(i, i.thrown[k].path)
      IN  (i.thrown[k].from \in i.configured /\ VolumeOfPath(i, i.thrown[k].from) = volume
             /\ volume \notin i.gone /\ (i.older = Unsaid \/ i.thrown[k].days > i.older)) => k \in a.did

(* What runs as a worker is a module of this program or a script of the    *)
(* repository, in an environment that is there.                            *)
Confined(i, a) ==
  i.command = "launch" /\ a.code = 0 =>
    /\ i.venv = "synced"
    /\ i.custom => \A path \in a.did : path \in i.scripts /\ IsPrefix(i.root, path)
    /\ ~i.custom => a.did \subseteq {i.special, i.general} \ {Unsaid}

(* The budget is what the machine says, as soon as something of it does.   *)
BudgetFound(i, a) ==
  i.command = "budget" /\ i.configured = Unsaid =>
    LET says == ({i.mlx} \cup ToSet(i.probes)) \ {0}
    IN  says # {} => a.did \subseteq says

(* What the commands promise: what only looks touches nothing, --json does *)
(* as much, the success of the six commands of TrueSuccess is one, `env     *)
(* sync` and `apply` go on past what fails, `unload` without --force spares *)
(* jobs and pins, old trash is found, a worker is launched from where it    *)
(* may be, and the budget is one that was probed.                           *)
CommandsHonest ==
  exit # Unsaid =>
    /\ Touches(invoked, exit) /\ SameInJson(invoked, exit)
    /\ TrueSuccess(invoked, exit) /\ Independent(invoked, exit)
    /\ Respects(invoked, exit) /\ TrashFound(invoked, exit)
    /\ Confined(invoked, exit) /\ BudgetFound(invoked, exit)
=============================================================================
