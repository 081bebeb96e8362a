----------------------------- MODULE Supervisor -----------------------------
(***************************************************************************)
(* The supervisors of a home directory (supervisor.py), the mirror file    *)
(* they share under flock (residents.py) and the resident workers they     *)
(* reach through one socket path per variant (worker.py, workers/base.py). *)
(*                                                                         *)
(* A process is a server, a CLI command or an MCP server; its threads run  *)
(* jobs and commands.  A transaction of the mirror is the body of a `with  *)
(* registry_file.locked()`: `lock` is its thread and `entries` the         *)
(* dictionary it will write back.  Evictions and loads are long, so the    *)
(* transaction of `acquire` takes several steps; everything that does not  *)
(* need the lock (turns, ends of jobs, deaths) interleaves with them.      *)
(*                                                                         *)
(* Abstracted: last_used (the LRU order is any order, AdmissionLoop checks *)
(* what the order does), texts, log paths, warm-up figures, the protocol   *)
(* spoken inside a session.                                                *)
(***************************************************************************)
EXTENDS Admission

CONSTANTS
  Procs,     \* operating-system processes, each with its own Supervisor
  Threads,   \* their threads
  Refs,      \* variants, "model@variant"
  Pids,      \* processes a worker may run as
  Docs,      \* versions of a variant's resolved manifest
  NoProc, NoThread, NoPid, NoEntry, NoWorker, NoReq,
  ProcOf,    \* [Threads -> Procs]
  Duties,    \* [Threads -> SUBSET Commands]: the commands a thread issues
  Wants,     \* [Threads -> SUBSET Refs]: the variants it names
  Profile,   \* [Refs -> Nat]: measured peak, without any input
  Demands,   \* [Refs -> peaks]: expected peak of each possible input
  Reported,  \* [Refs -> peaks]: what a worker may report after its load
  Faults     \* what may go wrong: a subset of FaultKinds

Commands == {"run", "pin", "overcommit", "bench", "unload", "force",
             "unload all", "force all", "prune", "close"}
FaultKinds == {"worker", "idle", "socket", "process"}

ASSUME SupervisorAssumption ==
  /\ IsFiniteSet(Refs)
  /\ NoProc \notin Procs /\ NoThread \notin Threads /\ NoPid \notin Pids
  /\ ProcOf \in [Threads -> Procs]
  /\ Duties \in [Threads -> SUBSET Commands]
  /\ Wants \in [Threads -> SUBSET Refs]
  /\ Profile \in [Refs -> Nat]
  /\ Demands \in [Refs -> SUBSET (Nat \cup {NoPeak})]
  /\ Reported \in [Refs -> SUBSET Nat]
  /\ Docs # {}
  /\ Faults \subseteq FaultKinds

(* What the mirror says of a resident (class ResidentEntry). *)
Entry == [pid : Pids, peak : Nat, pinned : BOOLEAN, doc : Docs,
          busy : Procs \cup {NoProc}]

(* A worker process: the variant it serves, the manifest it was given and  *)
(* the memory it holds.                                                    *)
Worker == [ref : Refs, doc : Docs, mem : Nat]

(* Where a thread may be. *)
Places == {"idle", "enter", "lock", "evict", "load", "job", "release",
           "publish", "leave", "prune", "gone"}

(* The call a thread is in the middle of. *)
Request == [op : {"run", "bench", "unload"}, ref : Refs, pin : BOOLEAN,
            over : BOOLEAN, force : BOOLEAN, peak : Nat \cup {NoPeak},
            doc : Docs]

ASSUME NullAssumption ==
  NoEntry \notin Entry /\ NoWorker \notin Worker /\ NoReq \notin Request

VARIABLES
  alive,     \* the processes that run
  closing,   \* those that began Supervisor.close
  manifest,  \* the registry's current version of each variant
  mirror,    \* residents.json
  lock,      \* the thread that holds residents.lock
  entries,   \* the dictionary of the open transaction
  victims,   \* the residents it has still to evict
  known,     \* WorkerHandle.entry of each process
  job,       \* WorkerHandle.job is not None
  holder,    \* WorkerHandle.holder
  gate,      \* WorkerHandle.gate is locked
  worker,    \* the worker processes
  sock,      \* the process that bound the socket path of a variant
  pc, req, conn,  \* per thread: where it is, its call, its worker
  reaped     \* per thread: the stale pids a prune has read

shared == <<alive, closing, manifest, mirror, lock, entries, victims>>
handles == <<known, job, holder, gate>>
world == <<worker, sock>>
local == <<pc, req, conn, reaped>>
vars == <<shared, handles, world, local>>

Nobody == [r \in Refs |-> NoEntry]
NotReaped == [r \in Refs |-> NoPid]

Init ==
  /\ alive = Procs
  /\ closing = {}
  /\ manifest \in [Refs -> Docs]
  /\ mirror = Nobody
  /\ lock = NoThread
  /\ entries = Nobody
  /\ victims = {}
  /\ known = [p \in Procs |-> Nobody]
  /\ job = [p \in Procs |-> [r \in Refs |-> FALSE]]
  /\ holder = [p \in Procs |-> [r \in Refs |-> NoThread]]
  /\ gate = [p \in Procs |-> [r \in Refs |-> FALSE]]
  /\ worker = [q \in Pids |-> NoWorker]
  /\ sock = [r \in Refs |-> NoPid]
  /\ pc = [t \in Threads |-> "idle"]
  /\ req = [t \in Threads |-> NoReq]
  /\ conn = [t \in Threads |-> NoPid]
  /\ reaped = [t \in Threads |-> NotReaped]

-----------------------------------------------------------------------------
(* The file lock. flock excludes the threads of one process too: each      *)
(* transaction opens residents.lock anew.                                  *)

(* Mutant: a lock owned by the process, as fcntl.lockf would take.         *)
PosixLockFree(p) == lock \in {NoThread} \cup {t \in Threads : ProcOf[t] = p}

LockFree(p) == lock = NoThread

(* Mutant: the exception path leaves the lock taken. *)
NoUnlock == UNCHANGED <<lock, entries, victims>>

Unlock ==
  /\ lock' = NoThread
  /\ entries' = Nobody
  /\ victims' = {}

-----------------------------------------------------------------------------
(* The mirror and the memory.                                              *)

Up(q) == q # NoPid /\ worker[q] # NoWorker

(* Mutant: a worker that is in the middle of a job does not answer a ping,  *)
(* and is taken for dead.                                                  *)
AnswersAPing(r, e) == Up(e.pid) /\ sock[r] # NoPid /\ e.busy \notin alive

(* ResidentEntry.alive: the process runs and the socket path exists -- not *)
(* that the one listens on the other.                                      *)
IsAlive(r, e) == Up(e.pid) /\ sock[r] # NoPid

(* _connect succeeds: somebody listens on the path. *)
Listening(r) == Up(sock[r])

(* ResidentRegistry.read, and what locked() yields: the live entries. *)
ReadMirror ==
  [r \in Refs |-> IF mirror[r] # NoEntry /\ IsAlive(r, mirror[r])
                  THEN mirror[r] ELSE NoEntry]

(* Mutant: the occupation is not reported to the entry. *)
Unpublished(p, r, e) == e

(* WorkerHandle.publish: the entry says whether a job holds the worker. *)
Published(p, r, e) == [e EXCEPT !.busy = IF job[p][r] THEN p ELSE NoProc]

(* Supervisor._sync, both ways: our entries overwrite the file's, and      *)
(* those the file no longer has leave our memory.                          *)
OnBothSides(p, r) == known[p][r] # NoEntry /\ ReadMirror[r] # NoEntry
SyncedFile(p) ==
  [r \in Refs |-> IF OnBothSides(p, r) THEN Published(p, r, known[p][r])
                                       ELSE ReadMirror[r]]
SyncedMemory(p) ==
  [r \in Refs |-> IF OnBothSides(p, r) THEN Published(p, r, known[p][r])
                                       ELSE NoEntry]

Sync(p) == known' = [known EXCEPT ![p] = SyncedMemory(p)]

(* What the end of a transaction writes. The dictionary holds the very     *)
(* objects of memory: what a handle published meanwhile is written too.    *)
Written(p, file) ==
  [r \in Refs |-> IF file[r] # NoEntry /\ known[p][r] # NoEntry
                  THEN known[p][r] ELSE file[r]]

(* The park the decision sees; ages is any order of last use.              *)
Busy(e) == e.busy \in alive
Ages == {f \in [Refs -> 0 .. Cardinality(Refs)] :
           \A r, q \in Refs : f[r] = f[q] => r = q}
Park(file, age) ==
  [r \in {q \in Refs : file[q] # NoEntry} |->
     [peak |-> file[r].peak, last |-> age[r], pinned |-> file[r].pinned,
      busy |-> Busy(file[r])]]

-----------------------------------------------------------------------------
(* Taking a turn: acquire up to _enter, and _leave.                        *)

(* Mutant: the turn is read off the occupation, which ends earlier. *)
NoJobThere(t) == ~job[ProcOf[t]][req[t].ref]

(* WorkerHandle.gate *)
TurnFree(t) == ~gate[ProcOf[t]][req[t].ref]

Runs(t, command) == ProcOf[t] \in alive /\ command \in Duties[t]

Idle(t) == pc[t] = "idle"

(* acquire resolves the manifest before it waits for its turn. *)
Ask(t) ==
  /\ Idle(t) /\ Runs(t, "run")
  /\ \E r \in Wants[t], pin, over \in BOOLEAN :
       /\ pin => "pin" \in Duties[t]
       /\ over => "overcommit" \in Duties[t]
       /\ \E peak \in Demands[r] :
            req' = [req EXCEPT ![t] =
                      [op |-> "run", ref |-> r, pin |-> pin, over |-> over,
                       force |-> FALSE, peak |-> peak, doc |-> manifest[r]]]
  /\ pc' = [pc EXCEPT ![t] = "enter"]
  /\ UNCHANGED <<shared, handles, world, conn, reaped>>

(* _enter: the gate, then its bookkeeping. *)
Enter(t) ==
  LET p == ProcOf[t]
      r == req[t].ref
  IN  /\ pc[t] = "enter"
      /\ TurnFree(t)
      /\ gate' = [gate EXCEPT ![p][r] = TRUE]
      /\ holder' = [holder EXCEPT ![p][r] = t]
      /\ job' = [job EXCEPT ![p][r] = TRUE]
      /\ pc' = [pc EXCEPT ![t] = "lock"]
      /\ UNCHANGED <<shared, known, world, req, conn, reaped>>

(* QueueTimeout: the turn did not come within queue_s. *)
GiveUp(t) ==
  /\ pc[t] = "enter"
  /\ ~TurnFree(t)
  /\ pc' = [pc EXCEPT ![t] = "idle"]
  /\ req' = [req EXCEPT ![t] = NoReq]
  /\ UNCHANGED <<shared, handles, world, conn, reaped>>

(* _leave: the entry is published free, the gate opens if it was held.     *)
Leave(t) ==
  LET p == ProcOf[t]
      r == req[t].ref
  IN  /\ pc[t] = "leave"
      /\ holder' = [holder EXCEPT ![p][r] = NoThread]
      /\ job' = [job EXCEPT ![p][r] = FALSE]
      /\ known' = IF known[p][r] = NoEntry THEN known
                  ELSE [known EXCEPT ![p][r].busy = NoProc]
      /\ gate' = [gate EXCEPT ![p][r] = @ /\ holder[p][r] = NoThread]
      /\ pc' = [pc EXCEPT ![t] = "idle"]
      /\ req' = [req EXCEPT ![t] = NoReq]
      /\ UNCHANGED <<shared, world, conn, reaped>>

-----------------------------------------------------------------------------
(* The transaction of acquire: sync, plan, evict, reconnect or start.      *)

(* The bench takes no turn. *)
AskBench(t) ==
  /\ Idle(t) /\ Runs(t, "bench")
  /\ \E r \in Wants[t] : \E peak \in Demands[r] :
       req' = [req EXCEPT ![t] =
                 [op |-> "bench", ref |-> r, pin |-> FALSE, over |-> FALSE,
                  force |-> FALSE, peak |-> peak, doc |-> manifest[r]]]
  /\ pc' = [pc EXCEPT ![t] = "lock"]
  /\ UNCHANGED <<shared, handles, world, conn, reaped>>

Decision(t, age) ==
  Plan(req[t].ref, req[t].peak, Park(SyncedFile(ProcOf[t]), age),
       req[t].op = "bench", req[t].over)

Admit(t) ==
  LET p == ProcOf[t]
  IN  /\ pc[t] = "lock"
      /\ LockFree(p)
      /\ \E age \in Ages :
           /\ Decision(t, age).admitted
           /\ victims' = Decision(t, age).evict
      /\ lock' = t
      /\ entries' = SyncedFile(p)
      /\ Sync(p)
      /\ pc' = [pc EXCEPT ![t] = "evict"]
      /\ UNCHANGED <<alive, closing, manifest, mirror, job, holder, gate,
                     world, req, conn, reaped>>

(* AdmissionRefused leaves the `with` on an exception: nothing is written. *)
Refuse(t) ==
  /\ pc[t] = "lock"
  /\ LockFree(ProcOf[t])
  /\ \E age \in Ages : ~Decision(t, age).admitted
  /\ Sync(ProcOf[t])
  /\ pc' = [pc EXCEPT ![t] = IF req[t].op = "run" THEN "leave" ELSE "idle"]
  /\ req' = [req EXCEPT ![t] = IF req[t].op = "run" THEN @ ELSE NoReq]
  /\ UNCHANGED <<shared, job, holder, gate, world, conn, reaped>>

(* Supervisor._evict, inside the transaction of t: the entry leaves both   *)
(* tables, whoever listens on the path is asked to unload, the recorded    *)
(* process is killed, the path is removed. A listener that is not the      *)
(* recorded process unloads (its loop lives on) unless it is serving.      *)
Evict(t, r) ==
  LET p == ProcOf[t]
      e == IF entries[r] # NoEntry THEN entries[r] ELSE known[p][r]
      serving == \E u \in Threads : conn[u] = sock[r]
  IN  /\ entries' = [entries EXCEPT ![r] = NoEntry]
      /\ known' = [known EXCEPT ![p][r] = NoEntry]
      /\ IF e = NoEntry THEN UNCHANGED world
         ELSE /\ worker' = [q \in Pids |->
                              IF q = e.pid THEN NoWorker
                              ELSE IF q = sock[r] /\ Up(q) /\ ~serving
                              THEN [worker[q] EXCEPT !.mem = 0]
                              ELSE worker[q]]
              /\ sock' = [sock EXCEPT ![r] = NoPid]

(* Mutant: the victim is not taken off the list. *)
EvictAgain(t) ==
  /\ pc[t] = "evict"
  /\ \E r \in victims : Evict(t, r)
  /\ UNCHANGED <<alive, closing, manifest, mirror, lock, victims, job, holder,
                 gate, local>>

EvictVictim(t) ==
  /\ pc[t] = "evict"
  /\ \E r \in victims :
       /\ Evict(t, r)
       /\ victims' = victims \ {r}
  /\ UNCHANGED <<alive, closing, manifest, mirror, lock, job, holder, gate,
                 local>>

(* The victims are gone and the call is an ordinary acquire. *)
Attaching(t) == pc[t] = "evict" /\ victims = {} /\ req[t].op = "run"

(* Mutant: a resident is reused without comparing its manifest. *)
AnyManifest(t) == TRUE

(* document_fingerprint: what was loaded is what the caller resolved. *)
SameManifest(t) == entries[req[t].ref].doc = req[t].doc

(* The manifest changed since the load, or the path does not answer: the   *)
(* resident of this very variant goes.                                     *)
EvictOther(t) ==
  LET r == req[t].ref
  IN  /\ Attaching(t)
      /\ entries[r] # NoEntry
      /\ ~SameManifest(t) \/ ~Listening(r)
      /\ Evict(t, r)
      /\ UNCHANGED <<alive, closing, manifest, mirror, lock, victims, job,
                     holder, gate, local>>

(* The lease is given: the entry goes to memory and to the mirror, and the *)
(* lock is released.                                                       *)
GiveLease(t, entry) ==
  LET p == ProcOf[t]
      r == req[t].ref
      e == Published(p, r, entry)
  IN  /\ known' = [known EXCEPT ![p][r] = e]
      /\ mirror' = [Written(p, entries) EXCEPT ![r] = e]
      /\ Unlock
      /\ pc' = [pc EXCEPT ![t] = "job"]

Reconnect(t) ==
  LET r == req[t].ref
  IN  /\ Attaching(t)
      /\ entries[r] # NoEntry
      /\ SameManifest(t)
      /\ Listening(r)
      /\ conn' = [conn EXCEPT ![t] = sock[r]]
      /\ GiveLease(t, [entries[r] EXCEPT !.pinned = @ \/ req[t].pin])
      /\ UNCHANGED <<alive, closing, manifest, job, holder, gate, world, req,
                     reaped>>

(* A process number nothing refers to any more. *)
Named(q) ==
  \/ \E r \in Refs : \/ mirror[r] # NoEntry /\ mirror[r].pid = q
                     \/ entries[r] # NoEntry /\ entries[r].pid = q
                     \/ sock[r] = q
  \/ \E p \in Procs, r \in Refs : known[p][r] # NoEntry /\ known[p][r].pid = q
  \/ \E t \in Threads : conn[t] = q \/ \E r \in Refs : reaped[t][r] = q
FreePids == {q \in Pids : ~Up(q) /\ ~Named(q)}

(* _start_resident spawns a detached worker, which binds the path;         *)
(* _ephemeral spawns one on its own stdio, without a path.                 *)
Spawn(t) ==
  LET r == req[t].ref
  IN  /\ pc[t] = "evict" /\ victims = {} /\ req[t].op # "unload"
      /\ req[t].op = "run" => entries[r] = NoEntry
      /\ \E q \in FreePids, m \in Reported[r] :
           /\ worker' = [worker EXCEPT ![q] =
                           [ref |-> r, doc |-> req[t].doc, mem |-> m]]
           /\ conn' = [conn EXCEPT ![t] = q]
           /\ sock' = IF req[t].op = "run" THEN [sock EXCEPT ![r] = q]
                                           ELSE sock
      /\ pc' = [pc EXCEPT ![t] = "load"]
      /\ UNCHANGED <<shared, handles, req, reaped>>

Larger(a, b) == IF a > b THEN a ELSE b

(* The load ends well. The entry engages the profile without the input, or *)
(* what the worker reports when that is more.                              *)
Loaded(t) ==
  LET r == req[t].ref
      q == conn[t]
  IN  /\ pc[t] = "load" /\ req[t].op = "run"
      /\ Up(q)
      /\ GiveLease(t, [pid |-> q, peak |-> Larger(Profile[r], worker[q].mem),
                       pinned |-> req[t].pin, doc |-> req[t].doc,
                       busy |-> NoProc])
      /\ UNCHANGED <<alive, closing, manifest, job, holder, gate, world, req,
                     conn, reaped>>

LoadedBench(t) ==
  /\ pc[t] = "load" /\ req[t].op = "bench"
  /\ Up(conn[t])
  /\ mirror' = Written(ProcOf[t], entries)
  /\ Unlock
  /\ pc' = [pc EXCEPT ![t] = "job"]
  /\ UNCHANGED <<alive, closing, manifest, handles, world, req, conn, reaped>>

(* Mutant: the process is not killed. *)
Survives(q) == UNCHANGED worker

(* kill_pid *)
Gone(q) == worker' = [worker EXCEPT ![q] = NoWorker]

(* A load that fails, times out or is interrupted kills what it spawned;   *)
(* the exception skips the write, so the evictions stay in the mirror.     *)
LoadFails(t) ==
  LET run == req[t].op = "run"
  IN  /\ pc[t] = "load"
      /\ Gone(conn[t])
      /\ sock' = IF run THEN [sock EXCEPT ![req[t].ref] = NoPid] ELSE sock
      /\ conn' = [conn EXCEPT ![t] = NoPid]
      /\ Unlock
      /\ pc' = [pc EXCEPT ![t] = IF run THEN "leave" ELSE "idle"]
      /\ req' = [req EXCEPT ![t] = IF run THEN @ ELSE NoReq]
      /\ UNCHANGED <<alive, closing, manifest, mirror, handles, reaped>>

-----------------------------------------------------------------------------
(* The job and the end of its lease.                                       *)

(* The job ends, well or badly; Lease.release closes the session first.    *)
EndJob(t) ==
  /\ pc[t] = "job" /\ req[t].op = "run"
  /\ conn' = [conn EXCEPT ![t] = NoPid]
  /\ pc' = [pc EXCEPT ![t] = "release"]
  /\ UNCHANGED <<shared, handles, world, req, reaped>>

(* An ephemeral worker is killed with its lease, which has no on_release.  *)
EndBench(t) ==
  /\ pc[t] = "job" /\ req[t].op = "bench"
  /\ Gone(conn[t])
  /\ conn' = [conn EXCEPT ![t] = NoPid]
  /\ pc' = [pc EXCEPT ![t] = "idle"]
  /\ req' = [req EXCEPT ![t] = NoReq]
  /\ UNCHANGED <<shared, handles, sock, reaped>>

(* _release: free in memory, then in the mirror, then the turn.            *)
Free(t) ==
  /\ pc[t] = "release"
  /\ job' = [job EXCEPT ![ProcOf[t]][req[t].ref] = FALSE]
  /\ pc' = [pc EXCEPT ![t] = "publish"]
  /\ UNCHANGED <<shared, known, holder, gate, world, req, conn, reaped>>

(* A transaction that only synchronises: nothing long happens under the    *)
(* lock, so it is one step.                                                *)
SyncMirror(p) ==
  /\ LockFree(p)
  /\ mirror' = SyncedFile(p)
  /\ Sync(p)

Publish(t) ==
  /\ pc[t] = "publish"
  /\ SyncMirror(ProcOf[t])
  /\ pc' = [pc EXCEPT ![t] = "leave"]
  /\ UNCHANGED <<alive, closing, manifest, lock, entries, victims, job,
                 holder, gate, world, req, conn, reaped>>

-----------------------------------------------------------------------------
(* Unloading on request.                                                   *)

UnloadCall(r, force) ==
  [op |-> "unload", ref |-> r, pin |-> FALSE, over |-> FALSE,
   force |-> force, peak |-> NoPeak, doc |-> manifest[r]]

(* Supervisor.unload: absent, it only synchronises; busy or pinned and not *)
(* forced, it raises, and nothing is written.                              *)
Unload(t, r, force) ==
  LET p == ProcOf[t]
      e == SyncedFile(p)[r]
      refused == ~force /\ (Busy(e) \/ e.pinned)
  IN  /\ Idle(t) /\ Runs(t, IF force THEN "force" ELSE "unload")
      /\ LockFree(p)
      /\ Sync(p)
      /\ IF e # NoEntry /\ ~refused
         THEN /\ lock' = t
              /\ entries' = SyncedFile(p)
              /\ victims' = {r}
              /\ pc' = [pc EXCEPT ![t] = "evict"]
              /\ req' = [req EXCEPT ![t] = UnloadCall(r, force)]
              /\ UNCHANGED mirror
         ELSE /\ mirror' = IF e = NoEntry THEN SyncedFile(p) ELSE mirror
              /\ UNCHANGED <<lock, entries, victims, pc, req>>
      /\ UNCHANGED <<alive, closing, manifest, job, holder, gate, world, conn,
                     reaped>>

(* Supervisor.unload_all: what it spares it does not report. *)
UnloadAll(t, force) ==
  LET p == ProcOf[t]
      file == SyncedFile(p)
      targets == {r \in Refs : /\ file[r] # NoEntry
                               /\ force \/ ~(file[r].pinned \/ Busy(file[r]))}
  IN  /\ Idle(t) /\ Runs(t, IF force THEN "force all" ELSE "unload all")
      /\ LockFree(p)
      /\ Sync(p)
      /\ IF targets # {}
         THEN /\ lock' = t
              /\ entries' = file
              /\ victims' = targets
              /\ pc' = [pc EXCEPT ![t] = "evict"]
              /\ \E r \in targets :
                   req' = [req EXCEPT ![t] = UnloadCall(r, force)]
              /\ UNCHANGED mirror
         ELSE /\ mirror' = file
              /\ UNCHANGED <<lock, entries, victims, pc, req>>
      /\ UNCHANGED <<alive, closing, manifest, job, holder, gate, world, conn,
                     reaped>>

EndUnload(t) ==
  /\ pc[t] = "evict" /\ victims = {} /\ req[t].op = "unload"
  /\ mirror' = Written(ProcOf[t], entries)
  /\ Unlock
  /\ pc' = [pc EXCEPT ![t] = "idle"]
  /\ req' = [req EXCEPT ![t] = NoReq]
  /\ UNCHANGED <<alive, closing, manifest, handles, world, conn, reaped>>

-----------------------------------------------------------------------------
(* prune: the stale entries are read without the lock, their processes     *)
(* killed and their paths removed, and only then is the mirror locked.     *)

Stale == {r \in Refs : mirror[r] # NoEntry /\ ~IsAlive(r, mirror[r])}

PruneRead(t) ==
  /\ Idle(t) /\ Runs(t, "prune")
  /\ Stale # {}
  /\ reaped' = [reaped EXCEPT ![t] =
                  [r \in Refs |-> IF r \in Stale THEN mirror[r].pid
                                                 ELSE NoPid]]
  /\ pc' = [pc EXCEPT ![t] = "prune"]
  /\ UNCHANGED <<shared, handles, world, req, conn>>

PruneKill(t, r) ==
  LET q == reaped[t][r]
  IN  /\ pc[t] = "prune"
      /\ q # NoPid
      /\ IF Up(q) THEN Gone(q) /\ sock' = [sock EXCEPT ![r] = NoPid]
                  ELSE UNCHANGED world
      /\ reaped' = [reaped EXCEPT ![t][r] = NoPid]
      /\ UNCHANGED <<shared, handles, pc, req, conn>>

PruneSync(t) ==
  /\ pc[t] = "prune"
  /\ reaped[t] = NotReaped
  /\ SyncMirror(ProcOf[t])
  /\ pc' = [pc EXCEPT ![t] = "idle"]
  /\ UNCHANGED <<alive, closing, manifest, lock, entries, victims, job,
                 holder, gate, world, req, conn, reaped>>

-----------------------------------------------------------------------------
(* Reading the table publishes the occupation into the entries of memory   *)
(* (_entries, behind residents, simulate and health).                      *)
ReadTable(p) ==
  /\ p \in alive
  /\ known' = [known EXCEPT ![p] =
                 [r \in Refs |-> IF OnBothSides(p, r)
                                  THEN Published(p, r, known[p][r])
                                  ELSE known[p][r]]]
  /\ UNCHANGED <<shared, job, holder, gate, world, local>>

-----------------------------------------------------------------------------
(* The end of a process. Its threads stop, the system releases its flock   *)
(* and closes its connections; detached workers survive it, a bench worker *)
(* dies with its stdio.                                                    *)

Ours(p) == {t \in Threads : ProcOf[t] = p}

Exit(p) ==
  /\ alive' = alive \ {p}
  /\ closing' = closing \ {p}
  /\ IF lock \in Ours(p) THEN Unlock ELSE UNCHANGED <<lock, entries, victims>>
  /\ known' = [known EXCEPT ![p] = Nobody]
  /\ gate' = [gate EXCEPT ![p] = [r \in Refs |-> FALSE]]
  /\ job' = [job EXCEPT ![p] = [r \in Refs |-> FALSE]]
  /\ holder' = [holder EXCEPT ![p] = [r \in Refs |-> NoThread]]
  /\ worker' = [q \in Pids |->
                  IF \E t \in Ours(p) : conn[t] = q /\ req[t].op = "bench"
                  THEN NoWorker ELSE worker[q]]
  /\ pc' = [t \in Threads |-> IF t \in Ours(p) THEN "gone" ELSE pc[t]]
  /\ req' = [t \in Threads |-> IF t \in Ours(p) THEN NoReq ELSE req[t]]
  /\ conn' = [t \in Threads |-> IF t \in Ours(p) THEN NoPid ELSE conn[t]]
  /\ reaped' = [t \in Threads |-> IF t \in Ours(p) THEN NotReaped
                                                   ELSE reaped[t]]
  /\ UNCHANGED <<manifest, sock>>

Crash(p) ==
  /\ "process" \in Faults
  /\ p \in alive
  /\ Exit(p)
  /\ UNCHANGED mirror

(* Supervisor.close: nobody holds a turn any more, then the mirror is told *)
(* so, then the process ends. Its daemon threads run until then.           *)
Close(p) ==
  /\ p \in alive \ closing
  /\ \E t \in Ours(p) : "close" \in Duties[t]
  /\ closing' = closing \cup {p}
  /\ job' = [job EXCEPT ![p] = [r \in Refs |-> FALSE]]
  /\ holder' = [holder EXCEPT ![p] = [r \in Refs |-> NoThread]]
  /\ UNCHANGED <<alive, manifest, mirror, lock, entries, victims, known, gate,
                 world, local>>

EndClose(p) ==
  /\ p \in closing
  /\ LockFree(p)
  /\ mirror' = SyncedFile(p)
  /\ Exit(p)

-----------------------------------------------------------------------------
(* What happens to workers and to the registry.                            *)

(* A worker dies on its own: out of memory, an adapter that aborts. Its    *)
(* socket file stays.                                                      *)
WorkerDies(q) ==
  /\ "worker" \in Faults
  /\ Up(q)
  /\ Gone(q)
  /\ UNCHANGED <<shared, handles, sock, local>>

(* serve_socket returns after its idle timeout and removes the path, by    *)
(* name: whoever bound it last.                                            *)
IdleExit(q) ==
  /\ "idle" \in Faults
  /\ Up(q)
  /\ \A t \in Threads : conn[t] # q
  /\ Gone(q)
  /\ sock' = [sock EXCEPT ![worker[q].ref] = NoPid]
  /\ UNCHANGED <<shared, handles, local>>

(* The socket file is removed under the worker (a cleaner of /tmp). *)
SocketLost(r) ==
  /\ "socket" \in Faults
  /\ sock[r] # NoPid
  /\ sock' = [sock EXCEPT ![r] = NoPid]
  /\ UNCHANGED <<shared, handles, worker, local>>

(* The registry is reloaded with another manifest (registry_provider). *)
Republish(r) ==
  /\ \E d \in Docs \ {manifest[r]} : manifest' = [manifest EXCEPT ![r] = d]
  /\ UNCHANGED <<alive, closing, mirror, lock, entries, victims, handles,
                 world, local>>

-----------------------------------------------------------------------------

(* A call under way goes on. *)
Turn(t) == Enter(t) \/ GiveUp(t)
Transact(t) == Admit(t) \/ Refuse(t)
Attach(t) == EvictVictim(t) \/ EvictOther(t) \/ Reconnect(t) \/ Spawn(t)
LoadEnds(t) == Loaded(t) \/ LoadedBench(t) \/ LoadFails(t)
JobEnds(t) == EndJob(t) \/ EndBench(t)

Step(t) ==
  \/ Turn(t) \/ Leave(t)
  \/ Transact(t) \/ Attach(t) \/ LoadEnds(t)
  \/ JobEnds(t) \/ Free(t) \/ Publish(t)
  \/ EndUnload(t)
  \/ \E r \in Refs : PruneKill(t, r)
  \/ PruneSync(t)

(* A thread begins a command. *)
Begin(t) ==
  \/ Ask(t) \/ AskBench(t)
  \/ \E r \in Wants[t], force \in BOOLEAN : Unload(t, r, force)
  \/ \E force \in BOOLEAN : UnloadAll(t, force)
  \/ PruneRead(t)

Environment ==
  \/ \E p \in Procs : ReadTable(p) \/ Crash(p) \/ Close(p) \/ EndClose(p)
  \/ \E q \in Pids : WorkerDies(q) \/ IdleExit(q)
  \/ \E r \in Refs : SocketLost(r) \/ Republish(r)

Next == (\E t \in Threads : Begin(t) \/ Step(t)) \/ Environment

(* The turn wait is bounded by queue_s, a job and a load by their          *)
(* timeouts, so each ends. flock grants its waiters in order of arrival,   *)
(* so a thread that waits for it is not passed over for ever.              *)
Fairness ==
  \A t \in Threads :
    /\ WF_vars(Turn(t)) /\ WF_vars(Leave(t))
    /\ SF_vars(Transact(t)) /\ SF_vars(Publish(t))
    /\ WF_vars(Attach(t)) /\ WF_vars(LoadEnds(t))
    /\ WF_vars(JobEnds(t)) /\ WF_vars(Free(t)) /\ WF_vars(EndUnload(t))

Spec == Init /\ [][Next]_vars
FairSpec == Spec /\ Fairness

-----------------------------------------------------------------------------
(* Type invariant.                                                         *)

TypeOK ==
  /\ closing \subseteq alive /\ alive \subseteq Procs
  /\ manifest \in [Refs -> Docs]
  /\ mirror \in [Refs -> Entry \cup {NoEntry}]
  /\ lock \in Threads \cup {NoThread}
  /\ entries \in [Refs -> Entry \cup {NoEntry}]
  /\ victims \subseteq {r \in Refs : entries[r] # NoEntry}
  /\ known \in [Procs -> [Refs -> Entry \cup {NoEntry}]]
  /\ job \in [Procs -> [Refs -> BOOLEAN]]
  /\ holder \in [Procs -> [Refs -> Threads \cup {NoThread}]]
  /\ gate \in [Procs -> [Refs -> BOOLEAN]]
  /\ worker \in [Pids -> Worker \cup {NoWorker}]
  /\ sock \in [Refs -> Pids \cup {NoPid}]
  /\ pc \in [Threads -> Places]
  /\ req \in [Threads -> Request \cup {NoReq}]
  /\ conn \in [Threads -> Pids \cup {NoPid}]
  /\ reaped \in [Threads -> [Refs -> Pids \cup {NoPid}]]

(* residents.lock: an eviction or a load happens inside the transaction of *)
(* its thread and of nobody else, whatever died or was closed meanwhile.   *)
LockExclusive ==
  \A t \in Threads : pc[t] \in {"evict", "load"} <=> lock = t

(* The turn of a variant: two threads of a process are never both between  *)
(* _enter and _leave on the same variant (WorkerHandle.gate), even while   *)
(* others give up, are refused or fail to load.                            *)
InTurn(t) ==
  /\ pc[t] \in {"lock", "evict", "load", "job", "release", "publish", "leave"}
  /\ req[t].op = "run"
TurnExclusive ==
  \A t, u \in Threads :
    (InTurn(t) /\ InTurn(u) /\ ProcOf[t] = ProcOf[u] /\ req[t].ref = req[u].ref)
      => t = u

(* CONCEPTION 5.4: a variant on which a job runs is never evicted, unless  *)
(* the unloading is forced. The plan was made before: between the plan and *)
(* the eviction other threads took turns and ended jobs. A process that    *)
(* closes gives its jobs up (Supervisor.close).                            *)
Evicting(r) ==
  /\ lock # NoThread /\ lock' = lock
  /\ entries[r] # NoEntry /\ entries'[r] = NoEntry
RunningJobsSpared ==
  [][\A t \in Threads, r \in Refs :
       /\ pc[t] = "job" /\ Up(conn[t]) /\ ProcOf[t] \notin closing
       /\ Evicting(r) /\ entries[r].pid = conn[t]
       => req[lock].force]_vars

(* Every worker that runs can be found again: a thread is connected to it, *)
(* or the mirror (the dictionary of the open transaction) records it.      *)
File == IF lock = NoThread THEN mirror ELSE entries
Recorded(q) == \E r \in Refs : File[r] # NoEntry /\ File[r].pid = q
Connected(q) == \E t \in Threads : conn[t] = q
NoLeak == \A q \in Pids : Up(q) => Recorded(q) \/ Connected(q)

(* What the mirror is for: none escapes it and no variant is loaded twice, *)
(* whatever dies, is forced out or fails to load.                          *)
LoadedOnce ==
  /\ NoLeak
  /\ \A q, s \in Pids :
       (Up(q) /\ Up(s) /\ worker[q].ref = worker[s].ref) => q = s

(* When socket files vanish (a cleaner of /tmp, a prune that removes the    *)
(* path another thread has bound since it read the mirror), workers do     *)
(* escape the mirror; but only those that nobody can reach any more: a     *)
(* worker still on its path is recorded or lent, whatever is pruned,       *)
(* evicted, reloaded or read without the lock meanwhile. A worker that a   *)
(* killed program was loading is again beyond the code.                    *)
Killed(q) == \E t \in Threads : pc[t] = "gone" /\ worker[q].ref \in Wants[t]
OnlyTheUnreachableLeak ==
  \A q \in Pids :
    Up(q) /\ sock[worker[q].ref] = q => Recorded(q) \/ Connected(q) \/ Killed(q)

(* Not so: that a prune takes only the path of a worker it kills. Between  *)
(* its read of the mirror and its kill another thread may find the entry   *)
(* stale, load the variant anew and bind the path; prune then removes it   *)
(* (supervisor.py:891-895), and the new worker escapes at the next sync.   *)
PruneTakesItsOwn ==
  [][\A t \in Threads, r \in Refs :
       PruneKill(t, r) /\ Up(sock[r]) => sock'[r] = sock[r] \/ sock[r] = reaped[t][r]]_vars

(* When processes may be killed, the only worker that escapes is one that  *)
(* such a process was loading, for one of its own jobs.                    *)
OnlyTheKilledLeak ==
  \A q \in Pids :
    Up(q) => Recorded(q) \/ Connected(q) \/ Killed(q)

(* A job is served by a worker that loaded the manifest its caller had     *)
(* read: the fingerprint kept in the mirror speaks for the process that    *)
(* listens on the path.                                                    *)
ServedAsAsked ==
  \A t \in Threads :
    (pc[t] = "job" /\ Up(conn[t])) =>
      worker[conn[t]].ref = req[t].ref /\ worker[conn[t]].doc = req[t].doc

(* The machine holds the models in memory: the workers that run fit in the *)
(* budget at every moment, loads and evictions under way included; a model *)
(* larger than the budget, admitted by overcommit, is alone, and there are *)
(* never more than MaxHeavy heavy ones. A worker that a killed program was *)
(* loading (OnlyTheKilledLeak) is beyond the code.                         *)
InMemory == {q \in Pids : Up(q) /\ (Recorded(q) \/ Connected(q))}
MemoryBound ==
  \/ Cardinality(InMemory) = 1
  \/ LET heavies == {q \in InMemory : worker[q].mem > HeavyThreshold}
     IN  /\ MapThenSumSet(LAMBDA q : worker[q].mem, InMemory) <= Budget
         /\ Cardinality(heavies) <= MaxHeavy

(* supervisor.py:12-13: the bench measures a model alone in the machine.   *)
BenchAlone ==
  \A t \in Threads :
    (pc[t] = "job" /\ req[t].op = "bench") => InMemory \subseteq {conn[t]}

(* What other processes decide on: while a job runs, the mirror shows its  *)
(* worker, and shows it busy with a living process, so that no plan made   *)
(* elsewhere may unload it.                                                *)
MirrorShowsJobs ==
  \A t \in Threads :
    LET r == req[t].ref
    IN  ( /\ lock = NoThread
          /\ pc[t] = "job" /\ req[t].op = "run" /\ Up(conn[t])
          /\ ProcOf[t] \notin closing )
        => /\ mirror[r] # NoEntry
           /\ mirror[r].pid = conn[t]
           /\ mirror[r].busy = ProcOf[t]

(* Every call that takes its place in the queue ends: neither the turns,   *)
(* nor the file lock, nor a load that fails leaves somebody waiting.       *)
CallsEnd == \A t \in Threads : pc[t] = "enter" ~> pc[t] = "idle"

=============================================================================
