# Écurie: a verification development

Écurie serves local models (images, audio, video, vision) on one machine and
promises that no job sends that machine into swap, that no model is loaded
twice, that no running job loses the process it runs on, that what it says to a
page or to an agent is true, and that the disk it tidies loses nothing. This
directory models the code that keeps those promises in TLA+, checks the models
with TLC and proves part of what they promise with TLAPS.

Paths below are relative to `packages/<name>/src/ecurie_<name>/`, except those
that name a document or `apps/ui/src`.

## 1. The system

### 1.1 Components

| Component | State | Operations | Interacts with |
|---|---|---|---|
| **Admission** `runtime/admission.py` | none: a pure decision | `plan_admission` (bench mode, unknown peak, already resident, larger than the budget, the two eviction loops) | called by the supervisor inside its transaction |
| **Mirror** `runtime/residents.py` | `residents.json`, `residents.lock` | `read`, `stale`, `locked` (a read-modify-write under `flock`), `_write` (temporary file and rename) | every program of a home directory |
| **Supervisor** `runtime/supervisor.py` | per process: a `WorkerHandle` per variant (entry, gate, holder, job) | `acquire`, `Lease.release`, `unload`, `unload_all`, `prune`, `residents`, `health`, `close` | mirror, admission, workers, registry |
| **Worker process** `runtime/worker.py`, `workers/base.py` | a process, one socket path per variant, the loaded model | `spawn_detached`, `kill_pid`, `serve_socket` (accepts one connection at a time, idle timeout), `load`/`run`/`unload`/`ping`/`shutdown` | the supervisor, through the path |
| **Channel and protocol** `runtime/channel.py`, `protocol.py` | a stream of JSON lines | framing, message types, session time limits | session and worker |
| **Job runner** `runtime/runner.py` | a run directory, its manifest and outcome | `run_job`: resolve, acquire, run, record | supervisor, store |
| **Adapters** `runtime/workers/*` | the loaded model, and what a library remembers between jobs | validate a job, cut it, run a network, reassemble and say of the result what it is | loaded by a worker; files of the job |
| **Bench** `runtime/bench.py` | a measured profile | run a workload, draw the profile, write the measurement | supervisor (bench mode); admission reads the profile |
| **API jobs** `api/jobs.py`, `routers/jobs.py` | in-memory job registry, event history per job | submit, cancel, event streams (SSE, websocket), close | runner, supervisor |
| **API uploads** `api/uploads.py` | files in quarantine and their index | receive, resolve, purge | job runner |
| **Store** `store/apply.py`, `trash.py`, `tier.py`, `pull.py`, `scan.py`, `hashing.py`, `db.py` | files, links, SQLite | deduplicate by hard links, trash and restore, move a variant to a slow volume behind a link, download, scan, verify hashes | file system only |
| **MCP server** `mcp/` | the tools and families of a session | declare, list, execute, refuse with exits | runner, supervisor, registry |
| **Core** `core/` | the registry of documents | load, validate, resolve | everyone |
| **CLI** `runtime/cli.py`, `store/cli.py` | none | resolve what is asked, call, say and return an exit code | the above |
| **UI** `apps/ui` | a job's view, the form of the next, the camera, in a browser | follow a job (`useJob`), compose one (`Atelier`), capture a field (`CapturePanel`) | API |

Several programs share one home directory at the same time: a server, any
number of `ecurie run` or `ecurie ps`, an MCP server per agent. They share no
memory. They meet in the mirror (under `flock`), in the socket paths, and in the
processes of the workers, which outlive the program that spawned them.

### 1.2 What is hard here

* *A transaction that lasts minutes.* `acquire` decides, evicts and loads
  inside one `flock`. Turns, ends of jobs, deaths and `close` do not need the
  lock and interleave with it.
* *A turn kept in three places.* The gate (a lock), `holder` and `job` are
  updated in different orders by refusals, time-outs, failed loads and `close`.
* *Two copies of the truth.* `_sync` merges this process's memory into the
  mirror and back at the beginning of every transaction; which side wins is
  decided per variant, on presence and not on content.
* *Names that outlive processes.* A worker is recorded by process number and
  reached by path; each can be removed, rebound or reused without the other.
* *Failures in the middle.* A load may fail after the evictions, a program may
  be killed between a spawn and the write of the mirror.
* *Files and crashes* in the store and in the directory of a job: every
  operation is several file-system calls.
* *Answers that come late.* A price, a poll, a `GET`, the authorisation of a
  camera come back to a user who has gone on to something else.
* *What a cache is of.* Hashes are kept under a stat, the registry under a
  signature, tools under the state of the park when a session began.
* *Results that look right.* A forecast under the wrong level, a vector of the
  padding, a map of another tile raise nothing: the adapters are where a mistake
  is published rather than reported, and where one job may answer for another.

`hazards` in `PROJECT.json` lists these one by one, each at its line, with the
properties that would catch it going wrong.

### 1.3 What makes each component correct

* **Admission**: what is admitted fits, at the boundary too; nothing on which
  work depends is unloaded; a refusal means no choice of victims would do; LRU
  order; nothing gratuitous; it returns.
* **Supervisor, mirror, workers**: one transaction at a time; one job at a time
  per worker; a running job never loses its worker to somebody else's
  decision; the mirror shows the running jobs; no worker runs that nobody
  remembers; no variant is loaded twice; the machine's memory holds what runs
  at *every* moment; a job is served by the manifest it asked for; every call
  ends.
* **API jobs**: a live job can be found and stopped; the journal tells one story
  with one final state; a stop is not reported as a fault; a stream ends, and
  not before it has shown the complete final state.
* **Sessions with a worker**: no job takes the result of another, whatever timed
  out before it; every call returns; a worker is not lost with a client that left.
* **The page**: a job the user took off does not come back; a text is shown once
  and whole; a job on the screen is seen to its end or declared lost from sight.
* **The refusal an agent receives**: what it offers (wait, another variant, a
  smaller parameter) would be admitted.
* **The session of an agent**: what it was told of a capability holds at its
  calls; what runs is ready and serves what was asked.
* **Records of a job**: it can be replayed from its directory; the table, the
  manifest and the row in the base agree.
* **Caches**: a hash called verified is true of the file; a request is served no
  registry older than its arrival.
* **The screen**: it is of one variant, however late the answers; the light of
  the camera is on only for what the panel shows.
* **Registry**: one that loads without an error leaves no file out and can be
  relied on by what reads it.
* **Adapters**: what is published is what it is said to be, of this job, all of
  it. **Bench**: a profile reserves what was measured.
* **Store**: the gain announced is the gain made; what is in service is never
  taken; at every crash point what a manager wrote can be read or is in the
  listed trash; only emptying the trash erases.
* **Command line**: a command does what it was asked, says whether it did, with
  `--json` as without, and touches nothing when it only announces.
* **Provisioning**: a pull keeps the guard of the disk, is whole when it says so,
  and the commands that messages name lead to a variant that runs.

## 2. Plan

Done, in this order:

1. `Admission` (the decision as an operator), `AdmissionLoop` (its loops),
   `Supervisor` (fleet, mirror and workers on top of `Admission`), with
   `PlanProofs`, `SupervisorProofs`, `ReachProofs`.
2. `Jobs` (the API's registry, above a supervisor reduced to turns, the mirror's
   lock and the loss of a worker); `Page`, which composes it with the browser's
   hook; `JobsProofs`, about both.
3. `Fleet`, the abstract specification of the models in memory, and
   `FleetRefinement`, where `Supervisor` with one program implements it.
4. `Refusal`, on top of `AdmissionLoop`: the answer of the MCP server.
5. `Session`: the conversation with a worker, under deadlines.
6. `Figures` (pure), `Recovery` (the figures against a reference definition) and
   `Store` (the calls to the file system, with crashes); `BoundaryProofs`, about
   `Session` and `Store`: the two parts that face what the code does not control.
7. `Provision`: pulls, environments, profiles, readiness; `ProvisionProofs`.
8. What is kept and told again: `Archive` (the records of a job), `Caches`
   (hashes, registry), with `RecordsProofs`; what a screen shows: `Workshop`,
   `Capture`.
9. What decides from documents: `Catalog` (the registry), `Assistant` (the
   session of an agent), `Bench` (the profile).
10. The adapters, on `Input` (layers of settings, how a scene is cut):
    `Forecast`, `Streams`, `Program`, `Robot`, `Pieces`, `Faces`, `Views`,
    `Vectors`; and `Pictures`, those that make a picture or a film.
11. `Commands`: the two command lines. `DecisionProofs` is about all that decides
    once and answers: `AdmissionLoop`, `Refusal`, `Catalog`, `Assistant`, `Commands`,
    `Recovery`, `Pictures`.

Left, most useful first: that the supervisor which `Jobs` assumes is what
`Supervisor` offers, as a refinement; the memory a worker gains during a job, for
profiles with a slope (`Bench!Reserved` inside `Supervisor`); the adapters that
section 7 names.

Everything proved about avoids RECURSIVE operators; parameters are CONSTANTS
with named assumptions; each operation is one action.

## 3. The modules and the code

### 3.1 `Admission`, `AdmissionLoop`

`Admission!Plan` is `plan_admission` as a total function of the candidate
(`ref`, `peak`, or `NoPeak` for an unmeasured variant), the park (a function
from the resident variants to peak, age, pin and occupation) and the two flags.
Its outcomes are records with the fields of `Admission` that decide something;
the reason is a short word, texts and `overflow_bytes` are left out. The two
`while` loops appear there in closed form (`ShortestPrefix`).

`AdmissionLoop` is the function as it executes: `EarlyReturn` or `EnterLoops`,
then an iteration per step (`HeavyTurn`, `BudgetTurn`) until `RefuseHeavy`,
`RefuseBudget` or `Admit`. `restants` and `evinces` are the code's two lists.
`LoopsDecidePlan` ties the two modules: what the supervisor's model uses is what
the loops compute.

### 3.2 `Supervisor`

One module models the three files together, because the properties are about
what they do to each other.

| Variable | In the code |
|---|---|
| `mirror` | `residents.json` |
| `lock`, `entries`, `victims` | who is inside `with registry_file.locked()`, the dictionary it will write, what it has still to evict |
| `known`, `job`, `holder`, `gate` | the fields of `WorkerHandle`, per process and variant |
| `worker`, `sock` | the worker processes (variant, manifest, memory held) and who bound each socket path |
| `pc`, `req`, `conn`, `reaped` | per thread: where it is, its call, the worker it is connected to, what its `prune` has read |
| `manifest` | the registry's current document of each variant |
| `alive`, `closing` | which programs run, which are in `close()` |

A call of `acquire` goes `Ask`, `Enter` (or `GiveUp` on the queue's time
limit), `Admit` or `Refuse`, `EvictVictim` for each victim, `EvictOther` when
its own variant must go (another manifest, a path that does not answer), then
`Reconnect`, or `Spawn` and `Loaded` or `LoadFails`; the end is `EndJob`,
`Free`, `Publish`, `Leave`. Where the code holds the lock for long (evictions,
loads) the transaction is several steps; where it only synchronises it is one.
Without the lock: everything else.

Two details decide several properties and are modelled literally. `_sync`
(`SyncedFile`, `SyncedMemory`) makes this process's entry win wherever both
sides have one. The dictionary of a transaction holds the very objects of
memory, so what another thread publishes meanwhile is written too (`Written`).

*Abstracted*: the order of last use is any order (`AdmissionLoop` checks what
the order does); messages of a session; texts, logs, figures of the warm-up. A
worker's memory is fixed at its load; time is not modelled, each time limit is a
step that may happen whenever the wait is not over. Process numbers are reused,
but not while some table still holds them (`FreePids`).

*Left out of the three files*: `health` (it pings what it read), `touch`,
`forget` and `set_pinned` of the mirror (no caller), a second `release` of the
same lease (no caller).

### 3.3 `Jobs`

| Variable | In the code |
|---|---|
| `table`, `age`, `next` | `JobRegistry._jobs`, an ordered dictionary |
| `card`, `journal` | the fields of each `Job`, and `Job.events` |
| `place`, `outcome` | the thread of the job: where it is in `_executer` and `run_job`, and with what result |
| `turn`, `mirror`, `cut` | what the job meets in the supervisor: the turn of its variant, the mirror's lock while a model loads, the loss of its worker to an `unload` |
| `cplace`, `target`, `socket` | each request to cancel, in a thread of its own or in the event loop |
| `fplace`, `follows`, `index`, `term`, `fresh`, `last` | each stream (`_flux`, `_pousser`): its place, its locals, and what its client shows |

A job goes `Submit`, `Begin`, then `Enter` (through `Queue` when somebody is
ahead, `GiveUp` on the time limit), `Load`, `Loaded`, `Answer` or `InferFails`,
`Release`, and the two halves of its end. Every way out of it is there:
`open_db` outside the `try`, an input refused or a manifest that cannot be
written (raised to `_executer`, which calls `fail`), a queue, a load or an
inference that fails (caught by `run_job`, which returns to `finish`).

Two readings without a lock make the difference. `finish` and `fail` set the
state first and append the final event last, under the lock of the job, while
`terminal` is read without it; so they are two steps each (`FinishState`,
`FailState`, then `EndRest`). And the event loop runs one stretch up to its next
`await`: a `cancel` on a websocket is such a stretch, however long its `unload`
waits for the mirror's lock (`InLoop`).

*Abstracted*: notes, percentages and texts; outputs, metrics and the like are
one flag (`whole`), set with the final event. A worker that answered before it
was killed has answered: `Answer` is the answer, not its reading. *Left out*: the
files of a job, a job of a former session, the validation of a request, the
socket's own protocol (`ping`, a second `submit`).

### 3.4 `Page`

`useJob.ts`, as `Atelier.tsx` calls it, on the server of `Jobs`: `Launch`,
`Resume`, `Forget` and `Stop` are what the user does; `flights` are its requests,
which `Post` and `Get` answer and `Pose`, `Drop` and `Fail` receive; `Open`,
`Deliver`, `Close` and `Cut` are the stream. A gesture opens a `generation` and
whatever comes back under an older one is dropped (`Stale`). The network delays
each direction and loses at most `MaxCuts` requests or streams. The one follower
of `Jobs` is the page's connection: `Open` follows, `Noticing` is the server
that finds its client gone. A text is counted in fragments, since what can go
wrong is to show one twice or not at all. A `POST` is accepted and then answered
with the job as it is when it answers, which may be over already
(`routers/jobs.py:232`). A job that the table has given up, or of a former session,
whose directory the server then reads, is not followed: such a request only gets
lost.

### 3.5 `Refusal`

`RefusalInit` and `Decide` are `AdmissionLoop`; `Answer` is what `refus.payload`
composes from a refusal: `Wait` (`_attendre`), `Others` (`_autres_variants`,
each priced by `ExpectedPeak` and simulated with `Plan`), `Reduce` (`_reduire`,
with Python's truncation and rounding: values are in hundredths), `Relay`. Some
jobs may have ended between the decision and the reading of the residents
(`After`), as in the code.

### 3.6 `Fleet`, `FleetRefinement`

`Fleet` has one state per variant (absent, loading, serving, warm) and says that
one model loads at a time, within the budget of the whole park, that a model
serves one job at a time, and that loads and jobs end. `Held` maps the
supervisor's processes, places and connections onto it.

### 3.7 `Session`

The lines of a channel (`asked`, `told`), the clients of a worker (`phase`, `at`,
`left`, `answers`) and its loop (`serving`, `backlog`, `task`, `hung`).
A resident worker serves jobs, health checks and evictions, one connection at a
time, the others wait in the kernel's backlog; a worker on stdio serves a bench,
whose cases share a channel, so that the answer to a case that timed out is
read by the next. Time is in ticks: `Expire` when a deadline is past and nothing
is left to read; progress renews it (`Renewed`), noise does not. *Abstracted*:
payloads; a delta is a progress.

### 3.8 `Figures`, `Recovery`, `Store`

`Figures` translates the pure functions: the stale blobs of a Hugging Face
repository and the pins that protect some (`StaleBlobs`), contents
(`GroupByContent`), the keeper, the attribution of each byte to one heading, and
`GeneratePlan`. `Recovery` gives them every small disk (`Worlds`) and compares
what they announce with the bytes no name holds any more once the plan is
applied and the trash emptied (`Freed`), which is the reference definition.

`Store` executes a plan one file-system call at a time: a hard link under a
temporary name and a rename, a rename to the trash and its manifest, a copy to a
cold volume, its proof, the trash, the link. `Crash` falls between any two.
Managers write (`Edit`) and download again (`Renew`); `owed` remembers what they
last wrote. A scan is a snapshot: what it saw may be stale when it is applied,
which is what `NoDrift` and the second reading of the hashes are for. A manager's
writing into an inode changes what is owed at every path that names it, and at a
path that names nothing any more, since its entry in the trash is that very file.

### 3.9 `Provision`

A repository has blobs, shared by its revisions, and links per revision. A pull
plans (`Begin`), checks each source's plan, made then, when its turn comes
(`Check`), fetches file by file, verifies. Under `--force` a file that is there is
downloaded again, which asks for its room; the new copy then takes the place of the
old one, and that they stand side by side meanwhile is not seen by `GuardKept` (the
plan counts nothing for them either). Meanwhile the store throws away blobs no pinned
revision names, other programs fill the volume, humans pin, declare, sync and
bench. `Blockers` is `inspect_variant`; `Launches` what `acquire` resolves;
`Whole` what the worker then needs.

### 3.10 `Archive`, `Caches`

`Archive` follows a job from the upload of its inputs to the answer a restarted
server gives of it: `Receive` and its ends are `deposer`, `Age` a day that passes,
`CopyInput` and `HashInput` a field of `stage_inputs`, `Answer` what the worker
announces (it need not be what it wrote, `Produce`), `OpenManifest`,
`WriteManifest` and `Record` the end. The user edits his files, a disk fills up
(`DiskFull`), the program is killed (`Kill`) at any of these. Two programs may
migrate the base at the same time (`OpenBase`, `AlterBase`).

`Caches` has two halves that do not meet. A scan (`Walk`, `Fill`, `Replace`) and
`verify` (`Stat`, `Read`, `Put`, `Adopt`) remember hashes of files that others
write. Requests (`Arrive`, `Sign`, `Compare`, `LoadDocument`, `Serve`) share a
registry kept under the signature taken before the lock, one document after the other,
as they are then read.

### 3.11 `Workshop`, `Capture`

`Atelier.tsx`: what the user chooses and types, the effect that preselects a
variant (`Settle`, part of every step that changes what it depends on), the
answers that come back late (`ModelsArrive`, `PriceArrives`, `Deposited`, the
poll), the panel (`Offered`). `CapturePanel.tsx`: streams that open and close,
recordings, deposits. `ScreenSpec` puts the desk and the panel that films side by
side. Rendering is left out.

### 3.12 `Catalog`, `Assistant`

`Catalog` reads the tree one file at a time (`ReadContract`, `Compose`,
`ReadManifest`, `FinishReading`) and keeps `issues`, as `load_registry` does; a
tree is a sequence of records that may each be illegible, misnamed or
contradictory. Without the schema of contracts there is a warning and contracts are
not compared with it; a measurement that is no object ends the reading with an
exception (`RaiseOnRecord`). `Assistant` is a session: `Declare` once, `List` and `Detail`,
`Call` (through the declared tool) and `RunTool` (through `ecurie_run`), while a
human changes the situation (`Change`) or restarts the server with a family
opened (`Restart`).

### 3.13 `Commands`

A command is one question: what was typed, and what it finds (a registry that is
missing or broken, a variant that is known, ready or refused, what the functions
it calls answer or raise). `CommandAnswer` gives its exit code and what it did,
one operator per command (`SyncEnvs`, `ShowPark`, `UnloadCommand`, `RunCommand`,
`BenchCommand`, `PullCommand`, `ScanCommand`, `StatusCommand`, `VerifyCommand`,
`PlanCommand`, `ApplyCommand`, `TierCommand`, `EmptyCommand`), with what they
resolve themselves: the targets, the budget of the machine (`Budgets`), the
interpreter and module of a worker (`LaunchWorker`), the trash of a volume
(`TrashOf`). What the functions called do to the machine is in the other modules;
tables and texts are left out.

`CommandsHonest` says no more than what the code keeps. `TrueSuccess` is about the
six commands whose exit code of 0 does mean success; `SameInJson` excludes the
measurement of a `bench`, which `--json` does not write; `Respects` is about an
`unload` without `--force`. What the helps say beyond that is stated apart and is
false: `SyncSucceeds`, `ApplySucceeds`, `BenchWrites`, `ForceReaches` (4.1).

### 3.14 The adapters and the bench

A network is external: it is an operator of the piece it is shown, or a choice.
What is modelled is what the adapter does around it, which is where a mistake goes
unseen.

| Module | Code | What it keeps |
|---|---|---|
| `Input` | `reglage`, `plan_tuiles`, `aligner_multiple` | layers of settings; how a scene is cut |
| `Forecast` | `chronos_forecast.py` | the history shown, the levels asked, the labels published |
| `Streams` | `base.py`, `mlx_lm.py` | a text pushed by fragments, split into draft and answer as it comes |
| `Program` | `cad_recode.py` | the points drawn from a cloud, the code read from a text, its interpreter with limits and a deadline |
| `Robot` | `smolvla_act.py` | what a checkpoint must declare; a policy that remembers, from one question to the next |
| `Pieces` | `prithvi_segment.py`, `dfn3_denoise.py`, `moss_diarize.py`, `qwen3_align.py`, `mlx_vlm.py` | what is cut and put together again: tiles, frames, turns, words, pages |
| `Faces` | `uniface_*.py` | a detector rebuilt for each size, from weights others may change; crops, maps, similarities |
| `Views` | `da3_multiview.py` | the cloud, the cameras and the preview of one scene; the random state and memory of the process |
| `Vectors` | `esm_embed.py`, `dinov3_embed.py`, `prithvi_embed.py` | the tokens that weigh in a vector |
| `Pictures` | `diffusers_mps.py`, `ltx_video.py`, `ltx_video_i2v.py`, `diffusers_img2img.py`, `diffusers_inpaint.py`, `swin2sr.py`, `seedvr2.py` | what a library is asked for a picture or a film, what is said of it, the memory announced |
| `Bench` | `bench.py` | cases, the fitted line of the peak, disk, speed, one measurement per machine |

A painter of `Pictures` is one of these seven with its manifest and its weights. It
loads (`LoadPipeline`: the suffix of the files, the precision, the scheduler, MPS),
answers jobs (one action per adapter, `Refuses` for any that fails) and lets its
weights go; it keeps the most that was read from the driver. Sides, lengths and
factors are computed as in the code: rounding to the even of two, division from
below, and `int` of a product that floats may leave just under the whole number it
is (`FallShort`, of which both outcomes are tried). What the driver holds when a
computation ends and after its cache is emptied is any of `Weighings`. A picture is
its sides and whether it is transparent; the frame rate, the guidance and the words of
a prompt are left out, and of the warnings of a film, those of its sides and length
are kept.

Data are as small as the properties allow: a face is its interval on a line of
pixels, space is a line, a vector is the sequence of what it averages, a level is
a whole number of ten-millionths, so that the rounding of a label to six digits is
there.

## 4. The runs

`MCSupervisor` names the instances of the supervisor: variants `a` (weight 3),
`b` (2) and `x` (7), worker processes as a symmetry set. In a budget of 4, `a` and
`b` do not fit together: every second load evicts. In a budget of 6 they fit but
are both heavy (`HeavyThreshold` 1, `MaxHeavy` 1). `x` never fits and needs
overcommit. Three process numbers are one more than the workers that can be
wanted at once (two variants, or a variant being replaced), so that a spawn is
never short of one. Threads differ by what they may issue (`ServerDuties`,
`TwoDuties`, ...).

| Run | Instance | Question |
|---|---|---|
| `decisions` | every park of at most 3 variants, weights 1, 2, 2.5 of a budget of 6, every candidate up to 7, every answer to a refusal; every disk of 4 paths on 3 inodes and 2 volumes, 2 contents, 2 managers, links outside the park, hashes read, announced or unknown, every repository of 2 revisions, references and pins, every telemetry of 2 variants; registries of up to 3 contracts and 2 manifests, a few things wrong in each; sessions on 3 variants that change; for each adapter and the bench, small jobs of every kind it tells apart; each command with every combination of flags and of what it may find | do the loops decide what the closed form says, is that right, and does the refusal offer what would be admitted? Is the gain real, is what serves kept? Can a registry without an error be relied on? Does what an assistant was told hold? Is what an adapter publishes what it says? Does a command do what it was asked, and say so? |
| `server` | 1 program; a thread that runs, pins, overcommits, another that runs, unloads and cancels; `a b x`; workers die or leave when idle | turns, transactions, spared jobs, no lost worker, none loaded twice, memory and heavy rule of the real processes |
| `two_programs` | 2 programs on a variant each; bench, close, prune, unload all, kills, deaths | what is decided through the mirror about somebody else's workers |
| `reload` | 1 program, 2 threads, 2 manifests per variant; a prune, sockets vanish | a job is served by what it asked for, however long it queued; whatever `prune` read before somebody else loaded, only workers that nobody can reach escape the tables |
| `calls_end` | 1 program, 2 threads, loads fail, workers die; fairness | `Supervisor` implements `Fleet`, its liveness included, and every call that queued ends |
| `jobs` | 3 jobs on 2 variants, both limits 2, a client that cancels | live jobs stay in the table; a stop is no fault; one story per journal |
| `page` | 1 job, 1 page, another client that cancels, at most 1 callback and 1 loss; fairness | the stream ends and has told all; the page shows what the server holds, no more, to the end |
| `session` | 2 jobs, a health check, an eviction on a resident worker, or a bench of 2 cases; errors, hangs, noise; fairness | own results, calls that return, a worker that comes back |
| `records` | 2 jobs, 2 deposits and a file of the user, 1 edit, 1 fault; 2 files, 2 verifications, 2 writings of others; 2 requests, 2 documents; a screen with 2 capabilities and 3 variants; a panel with 3 streams | what is recorded, remembered or shown is true |
| `store` | 3 paths, 2 contents, 3 commands, 1 writing of a manager, 1 crash | what was written can be read or recovered |
| `provision` | 1 variant of 2 sources, 2 revisions that share a file, 1 pull at a time, a nearly full volume, 2 edits, 1 fault; fairness | guard, honesty, convergence |
| `shared_variant` | 2 programs on the same two variants | a violation: section 4.1 |

Why these bounds suffice: an anomaly of the fleet needs two variants in each
other's way and two threads (one in its transaction, one outside it). Two
programs are enough for the mirror since a program sees the others only through
it. For the admission, three residents give each loop a victim it must take, one
it must leave and one it must not touch. In `jobs`, two jobs share a variant, so
that one queues behind the other and a cancellation of either meets both; the
third makes the purge choose between a live and a finished one. A page follows
one job; its callback puts a fragment between any two of its steps; one loss is
enough to strand each kind of request and the stream, and to resume after it.
In `session` the backlog holds one connection, so that a third client is refused.
In `store` a path has two names (a hard link) and a double, so that linking,
trashing and tiering meet each other on one inode; three commands are enough to
undo or to repeat one; one crash strikes any step. `provision` needs a shared
file (what a pull of the second revision does not fetch again) and a volume on
which the second source no longer fits.

`decisions` and `records` each run several systems that never meet: `system`
names the one that moves, the others stand still, so the states add up and do not
multiply. Most of `decisions` is one or two steps from each of very many initial
states: the bound is on the size of an input (two series of four days, texts of
four pieces, scenes of five by five, three turns or words, three cases), and each
set of inputs is chosen so that every refusal, warning and boundary of the adapter
is met. Where a library or a worker remembers (`Robot`, `Faces`, `Views`,
`Vectors`, `Pictures`), two jobs follow each other: one leaves something behind, the other
may see it. `records` has two of whatever shares something: two jobs, two writers
of a base, two verifications, two requests. `OffersHold`, `Recoverable`,
`RecoverySound`, `LoadedOnce`, `PageIsTrue`, `ScreenIsTrue`, `CommandsHonest` and
`AdaptersHonest` are conjunctions of named parts; each part is a definition of its module.

Each property is checked to be breakable: `mutants` in `PROJECT.json` replaces a
definition by a plausible mistake (the operators commented "Mutant", placed
before what they replace) under which TLC finds that property violated. Modules
with several mistakes worth trying keep a mutant for each: a reader can give any
of them to the definition below it.

`CHECK_DEADLOCK FALSE` stands where the system may stop: programs are all closed
or killed (`two_programs`, `shared_variant`), every job of the instance has ended
and clients have left (`jobs`, `page`, `session`), every command has been spent
(`store`, `provision`), the one question of a decision is answered (`decisions`), jobs
are over and files written as often as they may be (`records`).

`jobs` uses `UnfollowedSpec`: without a stream and without callbacks, `Spec`
allows nothing else. The streams and the callbacks run in `page`, whose next-state
relation contains the other actions of `Jobs`.

### 4.1 Where the code does not do what its documents say

One run ends in a violation, by design; `findings` quotes the documents.

* `shared_variant`: two programs that use *the same* variant. `_sync` writes
  what this program remembers over the entry of the other, its `busy_by`
  included. A program that once used the variant and is idle on it erases the
  occupation of the running job; the next admission evicts that job's worker.
  The same cause has another effect, met while modelling: the stale memory
  replaces the entry of a newer worker by a dead process number; the next
  transaction drops it and the variant is loaded twice.
  This is why `two_programs` gives each program a variant of its own: with that,
  all holds.

Others were met while modelling. Each is a definition of the module it names,
commented as what a document or a comment says; TLC violates it under the run's
configuration with the change given, and no passing run can state it.

| Definition | How to see it | What the code does |
|---|---|---|
| `Supervisor!NoLeak` | run `reload` | `locked()` drops an entry whose process lives but whose socket file is gone; the worker stays in memory and `prune`, which reads the same mirror, cannot see it any more; its docstring says that to withdraw such an entry without killing is worse than the harm |
| `Supervisor!PruneTakesItsOwn` | run `reload`, as a property | `prune` reads the stale entries without the lock and unlinks their paths after the kill (`supervisor.py:891`): a variant loaded anew in between loses its path, and its worker the mirror at the next transaction |
| `Supervisor!BenchAlone` | run `two_programs` | the bench's worker is in no table, so a job is admitted beside it once its transaction is over, against the docstring of `bench_lease` |
| `Jobs!StoppedFails` | run `jobs` | a job cancelled before it has a worker runs on to `done`, with `cancelled` true; nothing reads the mark before the load. The cancellation unloads the variant all the same, so the job in front, which nobody cancelled, loses its worker |
| `Page!ShownWhole` | run `page` | a `GET` answered between the two halves of `finish` says `done` without the outputs, against the docstring of `Job.snapshot`, and the page follows it no further |
| `Session!ErrorsAreOwn` | run `session` | the error of an execution that timed out is taken for that of the next case: `_await` compares the job of a result, not of an error |
| `Session!JobsSerialise` | 3 jobs, `Depth` 1 | a third connection is refused by the backlog and `acquire` takes the worker for a ghost and kills it under the job it serves |
| `Session!CallsReturn` | `Flood = TRUE` | a line that is no message does not consume the deadline (`channel.py:88`), so a library that babbles on stdout keeps a call waiting |
| `Store!Recoverable` | `Programs = {g1, g2}` | two terminals tier the same file: `tier` takes no lock, so the second one's rename publishes a copy that was not read again over the proven one that the link of the first already leads to |
| `Store!Recoverable` | `Hasty = TRUE` | a manager that downloads a file again between the second reading and the rename of `apply` sees its new file replaced by a link to the old content, which no trash keeps |
| `Store!Recoverable` | `Awkward = {1}` | the manifest of the trash is written over a payload called `manifest.json` (`trash.py:127`) |
| `Provision!ReadyRuns` | run `provision` | a variant with a complete first source and a missing second one, or dangling links, is announced ready; its load fails |
| `Provision!GuardAtItsWord` | `Total = 6` | each source's plan measures the free space before any of them is fetched: two that fit one by one pass together below the guard (`pull.py:13`) |
| `Refusal!NumberReductionAdmitted` | run `decisions` | a `number` parameter is rounded to the nearest hundredth, which may be above what fits |
| `Refusal!RetryAlwaysHelps` | run `decisions` | after a refusal by the heavy rule the jobs to wait for are those whose memory would suffice, not those that are heavy |
| `Refusal!FitsNowByDefault` | run `decisions` | an alternative is priced at the refused variant's defaults, the agent who takes it gets its own |
| `Refusal!LastResort` | run `decisions` | the answer is composed from the residents of now: an agent is sent to its human for a job that has become admissible |
| `Archive!ClashesToo` | run `records` | two fields of a job whose files have one base name share one copy (`_copier`), so one of the hashes of the manifest is of the other's content |
| `Archive!TellsTheSame` | run `records` | a job whose row could not be written (disk full, base locked) ends `failed` in the table and is `done` for the server that reads its manifest later |
| `Caches!RowsAreTrue` | run `records` with `Overlap = TRUE` | `store verify` beside a scan: a row is given the hash of the file that the scan has since replaced |
| `Caches!ScanForgets` | run `records` | `replace_manager` is called for the managers the scan saw something of (`scan.py:63`): the rows of one that shows nothing any more are kept |
| `Workshop!TypingIsKept` | run `records` | what is typed before the models of a capability come is overwritten by the preselection, against a comment of `Atelier.tsx` |
| `Workshop!PriceIsOfInput` | run `records` | a price stays on the screen while the form changes, and an old one may come back last |
| `Capture!LightAlwaysHeld` | run `records` | a mode chosen while the authorisation of another is awaited leaves the first stream open (`CapturePanel.tsx:164`) |
| `Capture!RecordedWhole` | run `records` | a recording cut by the deposit of the former, or by `Fermer`, is deposited as if it were stopped |
| `Catalog!ExtrasPinned` | run `decisions` | the revision of a source beside the main one is compared with no other |
| `Catalog!ProfileIsACopy` | run `decisions` | a profile is accepted against a measurement that lacks its figures |
| `Catalog!CorruptIsTold` | run `decisions` | a measurement that is JSON and no object raises in the comparison and takes the whole catalogue away, against the docstring of `measurement_records` (`registry.py:221`) |
| `Commands!ForceReaches` | run `decisions` | `ecurie unload <variant> --force`, which the refusals advise, calls `unload` without `force` (`cli.py:347`; only `--all` passes it): a busy or pinned variant is refused, against the help of `--force` (`cli.py:319`) |
| `Commands!BenchWrites` | run `decisions` | `bench --json` writes no measurement, although `--write` is the default and its help says so (`cli.py:489`) |
| `Commands!SyncSucceeds`, `Commands!ApplySucceeds` | run `decisions` | `env sync` (`cli.py:181`) and `store apply` (`store/cli.py:433`) end with 0 when one of their items failed |
| `Assistant!FieldExcludes` | run `decisions` | a tool the session declared (the list is written in the code) runs a capability whose contract excludes it |
| `Assistant!NothingCloses` | run `decisions` | the command that an exclusion relays names one family: restarting with it closes those that were open |
| `Forecast!CloseLevelsToo` | run `decisions` | two levels that six digits do not tell apart share a label, and the document shows the name for the number |
| `Streams!OpeningOptional` | run `decisions` | a text with only a closing mark is split in the result and not in the stream |
| `Robot!FieldsFeedCameras` | run `decisions` | the views are numbered after the gaps are closed: without `image`, `image2` feeds the first camera |
| `Robot!AllBounded` | run `decisions` | an action with more numbers than there are bounds is said to be in its domain |
| `Pieces!NothingInvented` | run `decisions` | a short turn absorbed by the last one of its speaker covers whoever spoke in between |
| `Faces!FoundAsAsked` | run `decisions` | the size is noted before the detector is built (`uniface_base.py:294`): if that fails, the next job of this size is served by the detector of the former size |
| `Views!CutMeansCut` | run `decisions` | a cloud of exactly the maximum is said to be cut |
| `Vectors!ClassIsAToken` | run `decisions` | the class token of a network that has none is its first patch |
| `Vectors!ColumnsRead` | run `decisions` | column numbers are said to be taken out of a copied sequence; they stay, and the alphabet refuses them |
| `Bench!EveryCaseReserved` | run `decisions` | a measured case may lie above the fitted line that is reserved |
| `Bench!EachContentOnce` | run `decisions` | a content that two sources share counts twice |

Of the adapters of pictures, as `Pictures` has them: the two that work from a picture
announce what the driver holds *after* its cache was emptied (`Delivers`;
`diffusers_img2img.py:229`, `diffusers_inpaint.py:273`), where four others keep the most
that was read; when steps times strength is under one, a result says one step while
the library, given both as they are, goes through none (`Retouch`), which is what the
docstring of `pas_effectifs` says it prevents; and where a
product of floats falls just short, the longest side is 8 pixels under the bound
(`OnScale`).

Of the command line besides, as `Commands` has it: a refusal under
`--json` is a French sentence on the standard output, where `cli.py:46`–`49`
promises JSON and nothing else; `store tier` compares paths as texts, so that
`/Volumes/Parc2` passes for a directory of `/Volumes/Parc`; after a scan that
overlapped an `apply`, or an `apply` or `tier` that was killed, `status` does not
say that its figures are stale.

Without a definition: with `max_heavy_resident = 0` a refusal is worded
otherwise (`admission.py:201`) than the sentence by which `refus.py:418` recognises
the refusals of the heavy rule, so a smaller input is offered that is refused again
(`Refusal` is checked with one heavy model); nothing kills a worker whose job timed out
(`worker.py:8`–`11` says the caller does; `Session!Conclude` shows that a job
only leaves); a change of manifest evicts a pinned
resident and drops the pin (`supervisor.py:551`); `headroom_bytes` is negative
for a resident candidate too, although `admission.py:106` says no other branch
produces that; `open_db` raising outside the
`try` of `_executer` leaves a job `running` for ever, and one place fewer among
the active ones (`jobs.py:383`); an output with an absolute path makes `finish`
raise after it set `done`, without a final event (`jobs.py:253`); the hook's
`arreter` poses its error without looking at the generation
(`useJob.ts:209`), so the failure of a stop may be written under another job; an
output declared as a list of files is looked for under the text of the list
(`_check_outputs`); the warning of `prithvi_embed.py` about two scenes with
different bands cannot fire, both being read with the same indices.

## 5. Fairness

`calls_end`, on `Supervisor`, assumes weak fairness of the steps of a call
under way: the wait for a turn is bounded by `queue_s`, a load and a job by their
time limits, evictions by `kill_pid`'s; each therefore ends (`Turn`, `Attach`,
`LoadEnds`, `JobEnds`, `Free`, `Leave`, `EndUnload`). Strong fairness of taking the
lock (`Transact`, `Publish`): between two transactions the lock is free only
briefly, and `flock` grants its waiters in order of arrival, so a waiter is not
passed over for ever. Beginning a command, faults and reloads have no fairness.
`AdmissionLoop` assumes only that the function goes on executing.

`calls_end` also checks the fairness of `Fleet`: a model that loads ends its
load, a model that serves gives back or leaves. It follows from the same.

`page`, on `Page`, assumes weak fairness only: of what a job's thread does next
(its waits are bounded by the same time limits), of a cancellation that has begun,
of the event loop that pushes and that notices a client gone, of the network for
what is not lost. Weak is enough, because the locks a step waits for are taken a
bounded number of times. The user is obliged to nothing, a worker need not report
anything.

`session` assumes that a client goes on with what it began (`Underway`: nobody is
obliged to connect), that time passes, and that a worker that does not hang
serves; errors, hangs, noise and the idle delay have no fairness.

`provision` assumes that a pull that began goes on, and of the user what the
messages ask: pin a floating revision, pull what is not whole and insist (strong:
another pull may be under way), declare, sync, bench (strong: the store may throw
a blob away meanwhile), vacate the volume. Edits and faults are bounded, for a
revision that changes for ever is never pulled.

## 6. What is proved

For every value of the constants that satisfies the named assumptions of each
module (`PolicyAssumption`, `LoopAssumption`, `SupervisorAssumption`,
`NullAssumption`, `JobsAssumption`, `PageAssumption`, `SessionAssumption`,
`ProvisionAssumption`, `ArchiveAssumption`, `CachesAssumption`, `StoreAssumption`,
`RefusalAssumption`, `CaptureAssumption`, `CatalogAssumption`, `AssistantAssumption`,
`CommandsAssumption`, `WorkshopAssumption`, `PathAssumption`, `WorldAssumption`):
any number of programs, threads, variants, workers, jobs, streams, clients, files,
any weights and limits, all faults enabled. They say what the sets are, that a list is one, and that a null value is
none of theirs. A theorem that holds under less than that names it as a hypothesis
of its own:

| Hypothesis | What it says | Why it is needed |
|---|---|---|
| `NothingShared` | no two programs use the same variant; one program satisfies it whatever it does | run `shared_variant` |
| `NoSocketLost` | no socket file vanishes on its own (a cleaner of temporary files) | `locked()` then drops the entry of a live worker: `Supervisor!NoLeak` in 4.1 |
| `NobodyKilled` | no program is killed; workers die, programs close | the worker that a killed program was loading is in no table |
| `NoBench` | nobody asks for the bench | its worker is in no table by design, beside a resident one of its variant |
| `Weighs(W)` | each variant has a weight `W`, no less than what a worker of it reports once loaded and no more than its profile and than the price of any of its jobs | the admission reserves the price of the job (`models.py:195`–`220`): where a profile has a slope, that of a small input is below the measured peak, and a worker that holds the peak is then more than what was reserved |
| `HonestProfiles` | the same with the profile as weight: no job is priced below the profile | `Fleet` counts its models by their profiles |
| `SomeHeavy` | the policy lets at least one heavy model in | `max_heavy_resident` may be 0 (`config.py:64`); a model larger than the budget is then admitted alone all the same, the overcommit asking nothing of the heavy rule, and `refus.py:418` does not recognise the refusal |
| `NoClose`, `EachFits` | nobody calls `close`; no profile is above the budget | `Fleet` has neither the end of a program nor overcommit |
| `WholeRanges` | the measured range of an integer parameter begins at an integer | the value proposed is truncated, and must not fall below the range |
| `DistinctTimes` | no two residents were last used at the same instant | the code takes the residents of one instant in the order of the dictionary, the model takes them together |
| `OneTerminal` | no two terminals run a command of the store | `tier` takes no lock: `Store!Recoverable` with two terminals, in 4.1 |
| `Alone` | no manager writes while a command is at work | between the second reading of a file and its replacement anything written is overwritten: `Store!Recoverable` with `Hasty` in 4.1 |
| `NothingAwkward` | no file of the park is called `manifest.json` | `trash.py:127`: `Store!Recoverable` with `Awkward` in 4.1 |
| `CarefulRestore` | nobody puts a file back from the trash at a path that a command has just read again and is about to move | a file put back there is moved in place of what was read |

### 6.1 The admission

* `PlanSparesJobs`: no decision of `Plan` lists a busy resident among its
  victims, nor, outside the bench, a pinned one.
* `LoopTyped`, `LoopSparesJobs`, `LoopAdmitsWhatFits`: the same of the loops as
  they execute, and that what is admitted to fit does. `AdmittedFits` is not
  inductive; `IInv` adds how the two lists split the park (`Split`), that the
  heavy rule holds once the first loop is over (`Progress`), and what a returned
  verdict contains (`Decided`, `FitVerdict`). The second loop evicts more, so the
  heavy rule must survive a larger set of victims: `HeavyRuleMonotone`.
* `LoopsRefuseOnlyWhenStuck`: when the loops refuse, no choice of victims would have
  made room. `StuckInv` adds to that invariant what each loop has left when it gives
  up: no candidate, and a rule that fails.
* `LoopsComputePlan`, under `DistinctTimes`: the loops end with the verdict, the
  victims, the headroom and the blockers that `Admission!Plan` gives in closed form, which is what
  the supervisor's model decides with. The invariant says that what was evicted so
  far is a prefix, by age, of the candidates of the loop, and that no shorter
  prefix was enough (`PlanProofs` has the lemmas about prefixes).
* `PlanMakesRoom` (a lemma of `PlanProofs`): once its victims are gone, the park
  that `Plan` admits into has room for the candidate. It and every other statement
  about memory rests on the laws of the sum of a function over a finite set
  (`SumEmpty`, `SumTake`, `SumGrows`...), proved there once from the
  definition of the fold.

* `RetriesHelp`: "il faut que l'attente suffise". When memory was lacking, once the
  jobs that the MCP server names are over, the same call is admitted. The answer is
  composed after the decision, of residents whose jobs may have ended meanwhile
  (`Calmer`); `Reasons` keeps of the loops what the refusal was for, and
  `WaitIsEnough` splits the memory of those that may not leave between pins and jobs
  (`SumSplits`).
* `OffersAlwaysHold`, under `WholeRanges` and with at least one heavy model allowed:
  the wait, the alternatives and the smaller parameter that an answer offers. Of the
  parameter: the value proposed is below the one refused and admitted. `WholeValue` is
  the arithmetic: truncation keeps the value within the measured range, outside of
  which the price would jump to the measured peak; the heavy rule needs that the
  cheaper call is no heavier (`HeavyStill`). Of the alternatives: one that is said to
  fit is admitted as it is priced, by what an outcome of `Plan` that admits is; that
  none which fits comes after one that does not is carried along the list, position by
  position, from the two neighbours that the sort compares.

### 6.2 The supervisors

* `SupervisorTyped`: `TypeOK` with `Calling` (a thread in the middle of a call has
  a request, of the kind its place says). `TypeOK` includes that the victims of a
  transaction are in its dictionary, which is where `Plan` enters the proof.
* `TransactionsExclude`: evictions and loads of two threads never overlap,
  through crashes and `close`.
* `TurnsExclude`: two threads of a program are never in the same turn. The
  invariant is `GateHeld` (a thread in its turn has its gate locked); the delicate
  step is `Leave`, which opens the gate only if nobody holds it, after `close()`
  has reset every holder.
* `RunningJobsAreSpared`, under `NothingShared`: no worker is evicted under a
  running job except by force. The invariant, `SparedInv`, says what the victims'
  list is trusted for long after the plan: whatever a table says of a variant, the
  process it names serves that variant, is not a bench's, and is marked busy by the program whose job runs on it
  (`TablesGood`); a path leads to a worker of its variant (`Linked`); the handle
  is marked from the turn to the end of the job (`Marked`); no victim left in the
  list has a job (`VictimsFree`). `TablesGood` is what makes `_sync` harmless here:
  what it publishes was computed from the job of this very program. A step that
  starts no job and lends no worker (`Steady`, `Calm`) preserves it because it
  only moves entries between tables (`Drawn`); the steps that do, `LeaseStep` and
  `SpawnStep`, need the exclusion of the turns. `EvictOther`, which asks no plan,
  takes the caller's own variant, whose turn the caller has.
* `JobsAreServedAsAsked`, under `NothingShared`: a job runs on a worker of its
  variant that loaded the manifest its caller resolved, through reloads of the
  registry, lost sockets and deaths. The code compares a fingerprint in a file with
  its own and then connects to a *path*: `ServedInv` is what makes this right. All
  tables name the same process and manifest for a variant (`Agree`), that manifest
  is what the process loaded (`TrueDocs`, and `TrueLoans` for the leases already
  given), and who listens on the path is the process the tables record (`Reached`),
  but while it loads (`LoadBinds`) or when no living program wants the variant.
* `JobsAreInTheMirror`, `OnlyKillsLeak`, under `NothingShared` and `NoSocketLost`:
  whoever takes the lock finds in the mirror, busy, the worker of every running job;
  a worker no table knows and nobody is connected to is one that a killed program
  was loading. `ReachInv`: a live worker has its path or is a bench's (`Loose`), who
  listens is in the mirror and in no transaction's way (`Shown`), what a file records
  has its path (`PathsHold`). A lost path breaks the last two, hence the hypothesis.
* `OnlyUnreachableWorkersLeak`, under `NothingShared` alone: with lost paths, and with
  prunes that unlink a path bound since they read the mirror, workers do escape the
  tables; but a worker that listens on its path is recorded, lent, or of a killed
  program. `Reached` (of `JobsAreServedAsAsked`) says that while a living program wants
  the variant, who listens on its path is who the tables name; what was missing is that
  some table does name it (`Listed`): each step that takes an entry out of the file
  (a sync, an eviction, the dropping of a dead one) finds there a process that is gone
  or a path that leads elsewhere.
* `NothingIsLoadedTwice`, with `NobodyKilled` and `NoBench` besides: every worker is
  in the file or in a thread's hands and no variant is loaded twice. Two workers of a
  variant would both have its one path.
* `MemoryIsBounded`, with `Weighs(W)` and `SomeHeavy` besides: the workers alive, as
  loaded, hold together at most the budget, a model above it being alone, and at most
  `MaxHeavy` of them are heavy. Nothing in the code sums what is alive: it sums a
  dictionary read under the lock. `RoomInv` says that the set of live variants is,
  at every point of a transaction, what the decision reckoned with (`Live`): the
  park it read, less the victims gone, plus the one being loaded; and that this set
  has room (`Holds`), because it is contained in the set that `PlanMakesRoom` is
  about. Deaths, lost entries and prunes only make it smaller.
* `StepsAreThoseOfFleet`, under all of these with `HonestProfiles` (`NothingShared`,
  `NoSocketLost`, `NobodyKilled`, `NoBench`, `SomeHeavy`), `NoClose` and `EachFits`: with
  the mapping of `FleetRefinement`, the initial states are initial states of `Fleet` and each step
  is one of its actions or changes nothing of it. `HeldSays` gives the state of a
  variant from the threads attached to its worker and from who listens on its path;
  each action is then shown to move one variant in one allowed way: a load
  (`SpawnFleet`, where `MemoryIsBounded`'s invariant gives the room that the
  abstract step asks for), a lease, its end, an eviction, a death (`Loses`).

### 6.3 Jobs and the page

* `JobsTyped`: `TypeOK` with `Named` (a request or a stream that has begun names
  a submitted job).
* `StopsAreNotFaults`: `StopInv` follows the mark of a cancellation from
  `MarkCancelled`, which precedes every `Unload`, to the error of the job; the two
  readings of the mark (`finish`, `_executer`) come after the loss of the worker.
* `LiveJobsAreListed`: `TableInv` ties `Terminal` to the thread's place, so a
  purge takes only threads that are done. The limit of the table needs counting:
  when fewer jobs than the surplus could be purged, those left are live, and
  `MaxActive <= MaxKept`.
* `EndsTellAll`: `EndInv` says of a journal that after a final snapshot all are,
  and of a stream that, having seen the job over before it read the journal, it
  read a final snapshot there. The lock that `Read` waits for is what makes the
  step from `Terminal` to `over`; the mutant `EndedNow` (the end decided after the
  journal was read) is the mistake the comment of `_flux` warns of.
* `JournalsTellOneStory`: states never go back and a job has one end. `StoryInv`
  orders each snapshot of a journal before those that follow and before the card
  (`Precedes`), and says that a final one is only there when the thread is over; a
  cancellation that comes after the end appends, so it is not enough to look at the
  last event.
* `PagesTellTrue`, about `PageSpec`: what a page shows is a job its user did not take
  back, its text never more than the server holds and all of it at the end. `PageInv`
  adds to what is proved of the server that at most one request of the latest
  generation flies, and none beside its stream (`Requests`, `Connection`); that a
  card on the screen is one the server has had, whose text is a prefix of what the
  journal tells (`Screen`); that what was read of the stream is what its server has
  pushed. The generation is what makes the answers of a former gesture harmless:
  without the test (`Stale`) the second part is not inductive.

### 6.4 Sessions, records, caches, pulls, the disk

* `CallsGetTheirOwn`: a result that a call returns is that of its own execution, and
  that execution ended. The invariant says of every line on a channel, read or not,
  that a result is of a job that ended (`ToldTrue`) and that an operation asked is
  one a worker may be asked (`AsksLegal`), so that the comparison of `_await` is
  between names of jobs; `BenchHasItsChannel` is why a bench that lost its worker
  asks no more.
* `JobsReplay`, `RecordsTell`: from the directory of a job its inputs can be found
  again under the hash its manifest gives; the table, the manifest and the row agree.
  `ArchiveInv` gives, for each place of a job, what each of them says there
  (`Staging`, `Inscribed`, `Told`); that a staged field has a name of its own needs
  the smallest element of a set of naturals (`SmallestNat`), the one induction here.
* `RegistryIsFresh`: a request is served documents no older than those it found. The
  registry kept is no older than its signature (`RegistryInv`), although documents
  are read one by one while others write, because the signature is taken before.
* `HashesTrue`: a hash called verified is true of the file as it is, in the cache
  whatever overlaps; in the rows only where no scan runs beside a verification, the
  case where one does being false (`Caches!RowsAreTrue` in 4.1).
  The invariant says it of a stat that was read, at any time, and not only of the
  present one: a stat never comes back (`Past`), so what is kept under an old one is
  harmless.
* `ScreenTellsTrue`, in two halves that share no state (`ScreenSpec`). Of the desk,
  `DeskInv` says of every price, shown or still asked, that it was asked of *some*
  capability that offers its variant and takes its fields (`OfAVariant`), which no
  step can undo. It is then shown only if its variant is the one on the desk, and a
  variant belongs to one capability (`WorkshopAssumption`: its name begins with that
  of its manifest, and a manifest serves one capability), so it is a price of this
  one. The panel is the only place where an order matters: that the positions kept
  can be listed in the order of `sections`, each once, is `OrderExists`, by the last
  position of a finite set. Of the panel that films, `LightIsHeld`: for a
  user who does nothing while an authorisation is awaited, the light of the camera is
  on only for what the panel shows, whatever is decoded, deposited or refused
  meanwhile; for one who does not wait it is false (`Capture!LightAlwaysHeld` in 4.1).
  `Unhurried` says that while the user waits for an authorisation it is the only one
  and nothing else is open, so that the answer cannot light a second stream.
* `PullsAreHonest`: a pull that says it is done left every file of every source at the
  revision it planned, but for those the store threw away. `PInv`: each plan that was
  complete, or that the pull has gone past, is `Held`. It is kept by everything other
  pulls, humans and the store do, because a repository only gains links
  (`HeldStays`); the revision of the *plan* matters, not that of the registry, which
  may have been edited.
* `GuardIsKept`: a pull writes no further than the guard of the disk, but for what
  others wrote since its plan, what it wrote for its earlier sources and what the
  store threw away under it. `GInv`: what a plan lists as missing is all that its
  pull can still write, but for what was thrown away (`Guarded`), whatever other
  pulls link meanwhile (`LinksTyped`); and the free space, with what the pull has
  spent and what others wrote, never shrinks. The sums of sizes need the files of a
  source to be finitely many (`ProvisionAssumption`).
* `NothingIsLost`, under `OneTerminal`, `Alone`, `NothingAwkward` and
  `CarefulRestore`: what a manager last wrote at a path is read there, waits in the
  trash, or stands proven on the cold volume. `Recoverable` says where a content is,
  not why it stays. `StoreInv` adds the reasons: `Placed` says of a path that it reads
  what it is owed, or, when it names nothing, that this waits in the trash of a plan
  (`Binned`) or has a proven copy that nobody is about to withdraw (`Tiered`,
  `Settled`) while its link is still to come (`Between`); `Sure` says what a command
  knows at each of its steps: that the file kept and those to replace still have the
  content that was read again, that the copy was proven before anything moved, that
  no link leads to a place where a copy is being written (`Unbound`), that a temporary
  name exists only between its two calls. A scan may be as old as one likes: of it,
  only that its plan names scanned paths is used (`PlanWithin`, from `GeneratePlan`).
* `OnlyTheTrashErases`, under the same: emptying the trash is the one step that makes
  a content disappear, and one that was listed. From `StoreInv`, call by call: what a
  link replaces has the content of the file kept, what a rename takes goes to the
  trash, a torn copy has a content nobody wrote. `NamesOf` counts the names of an inode,
  and `HasName` says when that count is not zero.

### 6.5 Documents, agents, commands, recovery, pictures

* `CatalogIsSound`: of a registry read to its end without an error, what
  `CatalogSound` lists (files kept, contracts valid, capabilities, names, pins,
  defaults, options; under no warning profiles, revisions, environments; nothing is
  said of licences, nor that a repository exists). The
  reading goes one file at a time and only ever *adds* issues, so the absence of an
  error at the end is the absence of one at each step; but what a step said was said
  of the contracts and models known *then*. `CatalogInv` therefore says of every
  contract and model already read what its own step checked (`StepsSaid`,
  `ModelsSaid`), that all files so far are in what was read (`ContractsKept`,
  `ModelsKept`: a duplicate or a misnamed one is an error), and of the last step, that
  looks at all models together, what it compared (`EndSaid`). Errors and remarks are
  apart: profiles, revisions shared between variants and environments only follow when
  there are no remarks either.
* `AssistantKeepsPromises`: what a session was told holds at each of its calls while
  the situation changes under it. `AssistantInv` says of the tools declared that
  the session still has them (`ToolsKept`), of each line of the catalogue that it is
  what would be said in the situation as it is (`LinesTrue`), and of each variant that
  was announced that it is the one a call would choose (`ServesTrue`); `Change` and
  `Restart` keep these only because they forget what they make false. That the choice
  is well defined, never unready and never past a ready incumbent is `FirstIsFirst`:
  the order of the ranks has a smallest element in any non-empty set of positions.
* `CommandsAreHonest`: what `CommandsHonest` claims and no more (3.13). One step, so
  the invariant is only that the answer is that of the question; the work is in the eight parts of `CommandsHonest`, each a lemma about
  `CommandAnswer` for any number of environments, sources, actions, moves, volumes and
  probes. Where a command stops at its first error (`PullSucceeds`) or asks in turn
  whoever may know (`BudgetKept`), the lemma is about the smallest position that did;
  where it goes on past an error (`IndependentKept`), about every position.

* `RecoveryIsSound`: the two sides of the equality add up different things. A plan is
  a set of actions, each with the bytes of its path or of its copies; the figures add
  up four sets of shares; the disk counts the inodes that no name holds. All are shown
  to be the weight of one set of inodes (`Total`). `Whole` is what a set of records
  can free: the inodes with no name outside the park and all their names in that set,
  which is what comparing the number of links with the number of records comes to
  (`CoveredIs`). Each record of a content is kept or disposable, so the inodes thrown
  away (`AllTrashed`), those that nobody uses (`Idled`) and those replaced by a link
  (`Merged`) are apart (`HeadingsAre`), and the plan, action by action, is about these
  (`PlanIs`). The bytes are on the first path of an inode (`PathSum`) or are counted
  by copies (`CopySum`): sums taken part by part (`SumFibers`). On the disk, the names
  left lead to none of these inodes and to every other one (`LostIs`), because the
  keeper, the least of a strict order on ranks (`BeforeOrders`), is itself neither
  thrown away nor replaced (`KeeperStays`). A cautious plan leaves out of `Merged`
  only whole contents (`MergedWhole`), hence the inequality.
  What is in service is in none of the first two sets: its blob is live, pinned or
  under no repository (`InUseIs`), and a variant that ran within the window, or a
  telemetry younger than the window, is not among the unused (`DatesAre`); what is
  replaced is read in the keeper's file, and the two share their content because they
  share their key (`SameContent`). The assumptions say that the paths are finitely
  many, that an inode has one content and that no content is the null hash.

* `PicturesAreHonest`: the part of `AdaptersHonest` about `Pictures`, for any weights,
  orders, draws, roundings and readings, and any number of jobs. `PicturesInv` says of
  every picture already made that what was asked of the library is a function of the
  order and of the seed that is said (`AskedOf`), so that the same order under that
  seed asks for the same whatever was made in between (`SameOrderSameAsked`); and that
  its peak is no less than anything read up to then, because the most that was read
  only rises (`UnderMark`). That weights that are there load is said of the painter as
  a whole (`WeightsLoad`), that does not change. The rest is arithmetic, one lemma for
  each conversion: half a step of a grid (`GridIs`), groups of eight (`InGroupsIs`), a
  side brought under a bound by a quotient that may be one less (`DownIs`, `SideIs`),
  the completed window (`EnlargementsFit`), the two quotients as near as each other
  (`UpscalesFit`), progress that rises to its end (`AnnouncedRises`, `MarksRise`). The
  assumptions are the bounds that the contracts of these capabilities set, and that a
  draw is a natural number.

### 6.6 What is only model-checked

* Liveness (`CallsEnd`, `PageSettles`, `CallsReturn`, `WorkerComesBack`,
  `ParkConverges`) and the fairness that `ImplementsFleet` asks of its steps:
  fairness and ENABLED are beyond this prover.
* `AdaptersHonest`, but for its part about `Pictures`: what the adapters compute over
  data of several layers (texts, scenes, series, batches), by folds and by recursion,
  against a reference definition. Each of its parts would need an induction over its
  data.

## 7. Not modelled

Each entry of `components` says what it leaves out. On the whole:

* The other adapters in `runtime/workers/`: generation of sound and music, depth,
  translation, tools, segmentation by prompt, restoration. They pass their
  settings to one call of a library; what they may do to the rest of the system
  (load, answer, report, err, hang, hold memory) is in `Session` and `Supervisor`.
  Of every adapter, the inference itself.
* The projections and schemas of the API, the other screens of the UI, the
  parsing of headers and of the other managers' layouts: sequential reading or
  formatting.
* The detection of the machine's memory: the budget is a constant.
* What the command lines display; the tools of the repository and the data of its
  registry.
