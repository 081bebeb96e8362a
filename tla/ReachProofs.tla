----------------------------- MODULE ReachProofs -----------------------------
(***************************************************************************)
(* The tables of the supervisors tell the truth about the workers, for any *)
(* number of programs, threads, variants and workers: a job gets a worker  *)
(* that loaded what its caller asked for, none that can still be reached   *)
(* escapes the mirror and, where no socket file vanishes, the mirror shows *)
(* every running job and every worker but those that a killed program was  *)
(* loading.  What the tables say is then enough to bound the memory of the *)
(* workers alive and to show that the supervisor implements Fleet.         *)
(***************************************************************************)
EXTENDS SupervisorProofs, FleetRefinement

(* Who may still ask for the variant r; and who counts: all of them, when  *)
(* no program is killed.                                                   *)
Claimed(r) == \E t \in Threads : ProcOf[t] \in alive /\ r \in Wants[t]
Minded(r) == "process" \in Faults => Claimed(r)

Loads(t, r) == pc[t] = "load" /\ req[t].op = "run" /\ req[t].ref = r
Loading(r) == \E t \in Threads : Loads(t, r)

(* What the tables say of a variant. *)
Same(e, f) == e.pid = f.pid /\ e.doc = f.doc /\ e.peak = f.peak
OnFile(r) == {mirror[r], entries[r]} \ {NoEntry}
InMemories(r) == {known[p][r] : p \in Procs} \ {NoEntry}
Said(r) == OnFile(r) \cup InMemories(r)

-----------------------------------------------------------------------------
(* Most steps are soft on the machine and on the calls: workers die, paths *)
(* go, loads and leases end; nothing is loaded or lent.                    *)

SoftWorld ==
  /\ \A q \in Pids : worker'[q] # NoWorker =>
       /\ worker[q] # NoWorker
       /\ worker'[q].ref = worker[q].ref /\ worker'[q].doc = worker[q].doc
       /\ worker'[q].mem \in {worker[q].mem, 0}
  /\ \A r \in Refs : sock'[r] \in {sock[r], NoPid}

SoftCalls ==
  /\ alive' \subseteq alive
  /\ \A t \in Threads :
       /\ Attached(t)' => Attached(t) /\ conn'[t] = conn[t] /\ req'[t] = req[t]
       /\ \A q \in Pids : Benching(t) /\ conn[t] = q /\ worker'[q] # NoWorker =>
            Benching(t)' /\ conn'[t] = q
       /\ \A r \in Refs :
            /\ Loads(t, r)' => Loads(t, r)
            /\ Loads(t, r) => \/ Loads(t, r)' \/ sock'[r] = NoPid
                              \/ ProcOf[t] \notin alive' /\ "process" \in Faults

SoftReaped ==
  \A t \in Threads, r \in Refs :
    \/ reaped'[t][r] \in {reaped[t][r], NoPid}
    \/ r \in Stale /\ reaped'[t][r] = mirror[r].pid

Soft == SoftWorld /\ SoftCalls /\ SoftReaped

LEMMA SoftThread ==
  ASSUME TypeInv, NEW t \in Threads,
         \A u \in Threads \ {t} : pc'[u] = pc[u] /\ req'[u] = req[u] /\ conn'[u] = conn[u],
         ~Attached(t), pc'[t] \notin {"load", "job"},
         UNCHANGED alive
  PROVE  SoftCalls
BY DEF SoftCalls, Attached, Benching, Loads

LEMMA SoftStill ==
  ASSUME UNCHANGED <<alive, pc, req, conn>>
  PROVE  SoftCalls
BY DEF SoftCalls, Attached, Benching, Loads

LEMMA StillWorld == UNCHANGED world => SoftWorld
BY DEF SoftWorld, world

LEMMA GoneWorld ==
  ASSUME TypeInv, NEW q \in Pids, Gone(q),
         \A r \in Refs : sock'[r] \in {sock[r], NoPid}
  PROVE  SoftWorld
BY DEF SoftWorld, Gone, TypeInv, TypeOK

LEMMA StillReaped == UNCHANGED reaped => SoftReaped
BY DEF SoftReaped

LEMMA EvictSoft ==
  ASSUME TypeInv, NEW t \in Threads, NEW r \in Refs, Evict(t, r)
  PROVE  SoftWorld
<1>1. \A w \in Worker : LET v == [w EXCEPT !.mem = 0]
                        IN  v.ref = w.ref /\ v.doc = w.doc /\ v.mem = 0
  BY DEF Worker
<1>2. worker \in [Pids -> Worker \cup {NoWorker}]
  BY DEF TypeInv, TypeOK
<1>3. \A q \in Pids : worker'[q] # NoWorker =>
        /\ worker[q] # NoWorker
        /\ worker'[q].ref = worker[q].ref /\ worker'[q].doc = worker[q].doc
        /\ worker'[q].mem \in {worker[q].mem, 0}
  <2>1. CASE UNCHANGED world
    BY <2>1 DEF world
  <2>2. CASE \E pid, serving :
               worker' = [q \in Pids |->
                            IF q = pid THEN NoWorker
                            ELSE IF q = sock[r] /\ Up(q) /\ ~serving
                            THEN [worker[q] EXCEPT !.mem = 0]
                            ELSE worker[q]]
    <3> SUFFICES ASSUME NEW q \in Pids, worker'[q] # NoWorker
                 PROVE  /\ worker[q] # NoWorker
                        /\ worker'[q].ref = worker[q].ref
                        /\ worker'[q].doc = worker[q].doc
                        /\ worker'[q].mem \in {worker[q].mem, 0}
      OBVIOUS
    <3>1. \/ worker'[q] = worker[q]
          \/ Up(q) /\ worker'[q] = [worker[q] EXCEPT !.mem = 0]
      BY <2>2
    <3>2. Up(q) => worker[q] # NoWorker /\ worker[q] \in Worker
      BY <1>2 DEF Up
    <3> QED BY <1>1, <3>1, <3>2
  <2> QED BY <2>1, <2>2, EvictWorld
<1>4. \A q \in Refs : sock'[q] \in {sock[q], NoPid}
  <2>1. sock' = sock \/ sock' = [sock EXCEPT ![r] = NoPid]
    BY EvictWorld, Zenon DEF world
  <2> QED BY <2>1 DEF TypeInv, TypeOK
<1> QED BY <1>3, <1>4 DEF SoftWorld

LEMMA ExitSoft ==
  ASSUME TypeInv, LockExclusive, NEW p \in Procs, Exit(p),
         "process" \in Faults \/ lock = NoThread
  PROVE  Soft
<1> USE SupervisorAssumption DEF Ours
<1>1. SoftWorld
  BY DEF Exit, SoftWorld, TypeInv, TypeOK
<1>2. SoftReaped
  BY DEF Exit, SoftReaped, NotReaped, TypeInv, TypeOK
<1>3. alive' \subseteq alive /\ p \notin alive'
  BY DEF Exit
<1>4. ASSUME NEW t \in Threads
      PROVE  /\ Attached(t)' => Attached(t) /\ conn'[t] = conn[t] /\ req'[t] = req[t]
             /\ \A r \in Refs : Loads(t, r)' => Loads(t, r)
             /\ ProcOf[t] # p => pc'[t] = pc[t] /\ conn'[t] = conn[t] /\ req'[t] = req[t]
  BY DEF Exit, Attached, Loads
<1>5. ASSUME NEW t \in Threads, NEW q \in Pids, Benching(t), conn[t] = q,
             worker'[q] # NoWorker
      PROVE  Benching(t)' /\ conn'[t] = q
  <2>1. ProcOf[t] # p
    BY <1>5 DEF Exit, Benching
  <2> QED BY <1>4, <1>5, <2>1 DEF Benching, Attached
<1>6. ASSUME NEW t \in Threads, NEW r \in Refs, Loads(t, r)
      PROVE  Loads(t, r)' \/ (ProcOf[t] \notin alive' /\ "process" \in Faults)
  <2>1. lock # NoThread
    BY <1>6 DEF Loads, LockExclusive
  <2> QED BY <1>3, <1>4, <1>6, <2>1 DEF Loads
<1> QED BY <1>1, <1>2, <1>3, <1>4, <1>5, <1>6 DEF Soft, SoftCalls

LEMMA SoftBegin ==
  ASSUME TypeInv, NEW t \in Threads, Begin(t)
  PROVE  Soft
<1> USE DEF shared, handles, world, local
<1>1. CASE Ask(t)
  <2>1. SoftCalls
    BY <1>1, SoftThread DEF Ask, Idle, Attached, TypeInv, TypeOK
  <2> QED BY <1>1, <2>1, StillWorld, StillReaped DEF Ask, Soft
<1>2. CASE AskBench(t)
  <2>1. SoftCalls
    BY <1>2, SoftThread DEF AskBench, Idle, Attached, TypeInv, TypeOK
  <2> QED BY <1>2, <2>1, StillWorld, StillReaped DEF AskBench, Soft
<1>3. ASSUME NEW r \in Wants[t], NEW force \in BOOLEAN, Unload(t, r, force)
      PROVE  Soft
  <2>1. \/ UNCHANGED <<pc, req>>
        \/ /\ pc' = [pc EXCEPT ![t] = "evict"]
           /\ req' = [req EXCEPT ![t] = UnloadCall(r, force)]
    BY <1>3, Zenon DEF Unload
  <2>2. pc[t] = "idle" /\ UNCHANGED <<alive, world, conn, reaped>>
    BY <1>3 DEF Unload, Idle
  <2> HIDE DEF world
  <2>3. SoftCalls
    BY <2>1, <2>2, SoftThread, SoftStill DEF Attached, TypeInv, TypeOK
  <2> QED BY <2>2, <2>3, StillWorld, StillReaped DEF Soft
<1>4. ASSUME NEW force \in BOOLEAN, UnloadAll(t, force) PROVE Soft
  <2>1. \/ UNCHANGED <<pc, req>>
        \/ /\ pc' = [pc EXCEPT ![t] = "evict"]
           /\ \E r \in Refs : req' = [req EXCEPT ![t] = UnloadCall(r, force)]
    BY <1>4 DEF UnloadAll
  <2>2. pc[t] = "idle" /\ UNCHANGED <<alive, world, conn, reaped>>
    BY <1>4 DEF UnloadAll, Idle
  <2> HIDE DEF world
  <2>3. SoftCalls
    BY <2>1, <2>2, SoftThread, SoftStill DEF Attached, TypeInv, TypeOK
  <2> QED BY <2>2, <2>3, StillWorld, StillReaped DEF Soft
<1>5. CASE PruneRead(t)
  <2>1. SoftCalls
    BY <1>5, SoftThread DEF PruneRead, Idle, Attached, TypeInv, TypeOK
  <2>2. SoftReaped
    BY <1>5 DEF PruneRead, SoftReaped, TypeInv, TypeOK
  <2> QED BY <1>5, <2>1, <2>2, StillWorld DEF PruneRead, Soft
<1> QED BY <1>1, <1>2, <1>3, <1>4, <1>5 DEF Begin

(* The steps that load or lend. *)
Lends(t) == Reconnect(t) \/ Loaded(t)

LEMMA SoftStep ==
  ASSUME TypeInv, NEW t \in Threads, Step(t), ~Spawn(t), ~Lends(t)
  PROVE  Soft
<1> USE DEF shared, handles, world, local
<1>1. CASE \/ Turn(t) \/ Leave(t) \/ Transact(t) \/ Free(t) \/ Publish(t)
           \/ EndUnload(t) \/ PruneSync(t)
  <2>1. SoftCalls
    BY <1>1, SoftThread
    DEF Turn, Enter, GiveUp, Leave, Transact, Admit, Refuse, Free, Publish,
        EndUnload, PruneSync, Attached, TypeInv, TypeOK
  <2>2. UNCHANGED <<world, reaped>>
    BY <1>1
    DEF Turn, Enter, GiveUp, Leave, Transact, Admit, Refuse, Free, Publish,
        EndUnload, PruneSync
  <2> QED BY <2>1, <2>2, StillWorld, StillReaped DEF Soft
<1>2. CASE EvictVictim(t) \/ EvictOther(t)
  <2>1. \E r \in Refs : Evict(t, r)
    BY <1>2
    DEF EvictVictim, EvictOther, Attaching, TypeInv, TypeOK, Calling, Request
  <2>2. UNCHANGED <<alive, pc, req, conn, reaped>>
    BY <1>2 DEF EvictVictim, EvictOther
  <2> QED BY <2>1, <2>2, EvictSoft, SoftStill, StillReaped DEF Soft
<1>3. CASE LoadedBench(t)
  <2>1. SoftCalls
    BY <1>3 DEF LoadedBench, SoftCalls, Attached, Benching, Loads, TypeInv, TypeOK
  <2> QED BY <1>3, <2>1, StillWorld, StillReaped DEF LoadedBench, Soft
<1>4. CASE LoadFails(t)
  <2>1. /\ worker' = [worker EXCEPT ![conn[t]] = NoWorker]
        /\ UNCHANGED <<alive, reaped>>
        /\ pc[t] = "load" /\ pc'[t] \in {"leave", "idle"}
        /\ \A r \in Refs :
             \/ sock'[r] = sock[r] /\ ~Loads(t, r)
             \/ sock'[r] = NoPid
        /\ \A u \in Threads \ {t} :
             pc'[u] = pc[u] /\ req'[u] = req[u] /\ conn'[u] = conn[u]
    BY <1>4 DEF LoadFails, Gone, Loads, TypeInv, TypeOK
  <2>2. SoftWorld
    BY <2>1 DEF SoftWorld, TypeInv, TypeOK
  <2>3. SoftCalls
    BY <2>1 DEF SoftCalls, Attached, Benching, Loads, TypeInv, TypeOK
  <2> QED BY <2>1, <2>2, <2>3, StillReaped DEF Soft
<1>5. CASE EndJob(t)
  <2>1. SoftCalls
    BY <1>5 DEF EndJob, SoftCalls, Attached, Benching, Loads, TypeInv, TypeOK
  <2> QED BY <1>5, <2>1, StillWorld, StillReaped DEF EndJob, Soft
<1>6. CASE EndBench(t)
  <2>1. /\ SoftWorld /\ UNCHANGED <<alive, reaped>>
        /\ pc[t] = "job" /\ pc'[t] = "idle"
        /\ worker' = [worker EXCEPT ![conn[t]] = NoWorker]
        /\ \A u \in Threads \ {t} :
             pc'[u] = pc[u] /\ req'[u] = req[u] /\ conn'[u] = conn[u]
    BY <1>6 DEF EndBench, Gone, SoftWorld, TypeInv, TypeOK
  <2>2. SoftCalls
    BY <2>1 DEF SoftCalls, Attached, Benching, Loads, TypeInv, TypeOK
  <2> QED BY <2>1, <2>2, StillReaped DEF Soft
<1>7. ASSUME NEW r \in Refs, PruneKill(t, r) PROVE Soft
  <2>1. /\ UNCHANGED <<alive, pc, req, conn>>
        /\ reaped' = [reaped EXCEPT ![t][r] = NoPid]
        /\ \/ UNCHANGED world
           \/ Gone(reaped[t][r]) /\ sock' = [sock EXCEPT ![r] = NoPid]
    BY <1>7, Zenon DEF PruneKill
  <2>2. SoftWorld
    BY <2>1 DEF SoftWorld, Gone, TypeInv, TypeOK
  <2>3. SoftReaped
    BY <2>1 DEF SoftReaped, TypeInv, TypeOK
  <2> QED BY <2>1, <2>2, <2>3, SoftStill DEF Soft
<1> QED BY <1>1, <1>2, <1>3, <1>4, <1>5, <1>6, <1>7
        DEF Step, Attach, LoadEnds, JobEnds, Lends

LEMMA SoftWeather ==
  ASSUME TypeInv, LockExclusive, Environment
  PROVE  Soft
<1> USE DEF shared, handles, world, local
<1>1. ASSUME NEW p \in Procs, ReadTable(p) \/ Close(p) PROVE Soft
  <2>1. UNCHANGED <<alive, pc, req, conn, world, reaped>>
    BY <1>1 DEF ReadTable, Close
  <2> QED BY <2>1, SoftStill, StillWorld, StillReaped DEF Soft
<1>2. ASSUME NEW p \in Procs, Crash(p) \/ EndClose(p) PROVE Soft
  BY <1>2, ExitSoft DEF Crash, EndClose, LockFree
<1>3. ASSUME NEW q \in Pids, WorkerDies(q) \/ IdleExit(q) PROVE Soft
  <2>1. /\ Gone(q) /\ UNCHANGED <<alive, pc, req, conn, reaped>>
        /\ \A r \in Refs : sock'[r] \in {sock[r], NoPid}
    BY <1>3 DEF WorkerDies, IdleExit, TypeInv, TypeOK
  <2> QED BY <2>1, GoneWorld, SoftStill, StillReaped DEF Soft
<1>4. ASSUME NEW r \in Refs, SocketLost(r) PROVE Soft
  <2>1. SoftWorld /\ UNCHANGED <<alive, pc, req, conn, reaped>>
    BY <1>4 DEF SocketLost, SoftWorld, TypeInv, TypeOK
  <2> QED BY <2>1, SoftStill, StillReaped DEF Soft
<1>5. ASSUME NEW r \in Refs, Republish(r) PROVE Soft
  <2>1. UNCHANGED <<alive, pc, req, conn, world, reaped>>
    BY <1>5 DEF Republish
  <2> QED BY <2>1, SoftStill, StillWorld, StillReaped DEF Soft
<1> QED BY <1>1, <1>2, <1>3, <1>4, <1>5 DEF Environment

LEMMA SoftNext ==
  ASSUME TypeInv, LockExclusive, [Next]_vars
  PROVE  Soft \/ \E t \in Threads : Spawn(t) \/ Lends(t)
<1>1. CASE UNCHANGED vars
  BY <1>1, SoftStill, StillWorld, StillReaped
  DEF vars, shared, world, local, Soft
<1> QED BY <1>1, SoftBegin, SoftStep, SoftWeather DEF Next

(* A spawn: q is a process nothing refers to, and serves what t asked for. *)
Begets(t, q) ==
  /\ pc[t] = "evict" /\ req[t] \in Request /\ req[t].op \in {"run", "bench"}
  /\ victims = {} /\ (req[t].op = "run" => entries[req[t].ref] = NoEntry)
  /\ q \in Pids \ {NoPid} /\ ~Up(q) /\ ~Named(q)
  /\ worker'[q] # NoWorker
  /\ worker'[q].ref = req[t].ref /\ worker'[q].doc = req[t].doc
  /\ worker'[q].mem \in Reported[req[t].ref]
  /\ \A s \in Pids \ {q} : worker'[s] = worker[s]
  /\ pc'[t] = "load" /\ conn'[t] = q
  /\ \A u \in Threads \ {t} : pc'[u] = pc[u] /\ conn'[u] = conn[u]
  /\ req[t].op = "run" => sock'[req[t].ref] = q
  /\ \A r \in Refs : r # req[t].ref \/ req[t].op # "run" => sock'[r] = sock[r]
  /\ UNCHANGED <<shared, handles, req, reaped>>

LEMMA SpawnBegets ==
  ASSUME TypeInv, NEW t \in Threads, Spawn(t)
  PROVE  \E q \in Pids : Begets(t, q)
<1>1. /\ pc[t] = "evict" /\ pc' = [pc EXCEPT ![t] = "load"]
      /\ victims = {} /\ (req[t].op = "run" => entries[req[t].ref] = NoEntry)
      /\ req[t].op # "unload"
      /\ UNCHANGED <<shared, handles, req, reaped>>
  BY DEF Spawn
<1>2. req[t] \in Request /\ req[t].op \in {"run", "bench"} /\ req[t].ref \in Refs
  BY <1>1 DEF TypeInv, Calling, Request
<1>3. PICK q \in FreePids, m \in Reported[req[t].ref] :
        /\ worker' = [worker EXCEPT ![q] =
                         [ref |-> req[t].ref, doc |-> req[t].doc, mem |-> m]]
        /\ conn' = [conn EXCEPT ![t] = q]
        /\ sock' = IF req[t].op = "run" THEN [sock EXCEPT ![req[t].ref] = q]
                                        ELSE sock
  BY DEF Spawn
<1>4. q \in Pids \ {NoPid} /\ ~Up(q) /\ ~Named(q)
  BY SupervisorAssumption DEF FreePids
<1>5. worker'[q] = [ref |-> req[t].ref, doc |-> req[t].doc, mem |-> m]
  BY <1>3, <1>4 DEF TypeInv, TypeOK
<1>6. worker'[q] \in Worker
  BY <1>2, <1>5, SupervisorAssumption DEF Worker, Request
<1>7. worker'[q] # NoWorker
  BY <1>6, NullAssumption
<1>8. /\ \A s \in Pids \ {q} : worker'[s] = worker[s]
      /\ pc'[t] = "load" /\ conn'[t] = q
      /\ \A u \in Threads \ {t} : pc'[u] = pc[u] /\ conn'[u] = conn[u]
  BY <1>1, <1>3 DEF TypeInv, TypeOK
<1>9. /\ req[t].op = "run" => sock'[req[t].ref] = q
      /\ \A r \in Refs : r # req[t].ref \/ req[t].op # "run" => sock'[r] = sock[r]
  BY <1>2, <1>3 DEF TypeInv, TypeOK
<1> QED BY <1>1, <1>2, <1>4, <1>5, <1>7, <1>8, <1>9 DEF Begets

LEMMA LendsWorld ==
  ASSUME NEW t \in Threads, Lends(t)
  PROVE  UNCHANGED <<alive, closing, manifest, worker, sock, req, reaped>>
BY DEF Lends, Reconnect, Loaded, world

-----------------------------------------------------------------------------
(* The tables. Two entries of a variant, wherever they are, name the same  *)
(* process and the same manifest; most steps copy entries or drop them.    *)

Agree == \A r \in Refs : \A e, f \in Said(r) : Same(e, f)

Recalls ==
  \A p \in Procs, r \in Refs : known'[p][r] # NoEntry =>
    known[p][r] # NoEntry /\ Same(known'[p][r], known[p][r])

MirrorFollows ==
  \A r \in Refs : mirror'[r] # NoEntry =>
    \/ mirror[r] # NoEntry /\ Same(mirror'[r], mirror[r])
    \/ entries[r] # NoEntry /\ Same(mirror'[r], entries[r])

EntriesFollow ==
  \A r \in Refs : entries'[r] # NoEntry =>
    \/ entries[r] # NoEntry /\ Same(entries'[r], entries[r])
    \/ /\ lock = NoThread /\ mirror[r] # NoEntry /\ IsAlive(r, mirror[r])
       /\ Same(entries'[r], mirror[r])

(* What is recorded, alive and reachable stays recorded. *)
Keeps ==
  \A r \in Refs :
    /\ mirror[r] # NoEntry /\ IsAlive(r, mirror[r]) /\ sock'[r] # NoPid
    /\ lock # NoThread => entries[r] # NoEntry
    => mirror'[r] # NoEntry /\ (lock' # NoThread => entries'[r] # NoEntry)

Faithful == Recalls /\ MirrorFollows /\ EntriesFollow /\ Keeps

LEMMA SameFaithful == UNCHANGED <<mirror, entries, lock, known>> => Faithful
BY DEF Faithful, Recalls, MirrorFollows, EntriesFollow, Keeps, Same

LEMMA RecallsFaithful ==
  ASSUME Recalls, UNCHANGED <<mirror, entries, lock>> PROVE Faithful
BY DEF Faithful, MirrorFollows, EntriesFollow, Keeps, Same

LEMMA PublishedSame ==
  ASSUME TypeOK, NEW p \in Procs, NEW r \in Refs, NEW e \in Entry
  PROVE  Published(p, r, e) # NoEntry /\ Same(Published(p, r, e), e)
<1>1. Published(p, r, e) \in Entry
  BY PublishedType
<1>2. Same(Published(p, r, e), e)
  BY DEF Published, Same, Entry
<1> QED BY <1>1, <1>2, NullAssumption

LEMMA SyncSame ==
  ASSUME TypeOK, Agree, NEW p \in Procs, NEW r \in Refs
  PROVE  /\ SyncedFile(p)[r] # NoEntry =>
              /\ mirror[r] # NoEntry /\ IsAlive(r, mirror[r])
              /\ Same(SyncedFile(p)[r], mirror[r])
         /\ mirror[r] # NoEntry /\ IsAlive(r, mirror[r]) =>
              SyncedFile(p)[r] # NoEntry
         /\ SyncedMemory(p)[r] # NoEntry =>
              known[p][r] # NoEntry /\ Same(SyncedMemory(p)[r], known[p][r])
<1>1. ReadMirror[r] = IF mirror[r] # NoEntry /\ IsAlive(r, mirror[r])
                      THEN mirror[r] ELSE NoEntry
  BY DEF ReadMirror
<1>2. CASE OnBothSides(p, r)
  <2>1. /\ known[p][r] # NoEntry /\ mirror[r] # NoEntry
        /\ IsAlive(r, mirror[r]) /\ known[p][r] \in Entry
    BY <1>1, <1>2 DEF OnBothSides, TypeOK
  <2>2. /\ SyncedFile(p)[r] = Published(p, r, known[p][r])
        /\ SyncedMemory(p)[r] = Published(p, r, known[p][r])
    BY <1>2 DEF SyncedFile, SyncedMemory
  <2>3. Same(known[p][r], mirror[r])
    BY <2>1 DEF Agree, Said, OnFile, InMemories
  <2> QED BY <2>1, <2>2, <2>3, PublishedSame DEF Same
<1>3. CASE ~OnBothSides(p, r)
  <2>1. SyncedFile(p)[r] = ReadMirror[r] /\ SyncedMemory(p)[r] = NoEntry
    BY <1>3 DEF SyncedFile, SyncedMemory
  <2> QED BY <1>1, <2>1 DEF Same
<1> QED BY <1>2, <1>3

LEMMA SyncRecalls ==
  ASSUME TypeOK, Agree, NEW p \in Procs, Sync(p) PROVE Recalls
<1> SUFFICES ASSUME NEW q \in Procs, NEW r \in Refs, known'[q][r] # NoEntry
             PROVE  known[q][r] # NoEntry /\ Same(known'[q][r], known[q][r])
  BY DEF Recalls
<1>1. known'[q] = IF q = p THEN SyncedMemory(p) ELSE known[q]
  BY DEF Sync, TypeOK
<1> QED BY <1>1, SyncSame DEF Same

LEMMA WrittenSame ==
  ASSUME TypeOK, Agree, NEW p \in Procs, NEW r \in Refs
  PROVE  /\ Written(p, entries)[r] # NoEntry <=> entries[r] # NoEntry
         /\ entries[r] # NoEntry => Same(Written(p, entries)[r], entries[r])
<1>1. Written(p, entries)[r] =
        IF entries[r] # NoEntry /\ known[p][r] # NoEntry
        THEN known[p][r] ELSE entries[r]
  BY DEF Written
<1>2. entries[r] # NoEntry /\ known[p][r] # NoEntry =>
        Same(known[p][r], entries[r])
  BY DEF Agree, Said, OnFile, InMemories
<1> QED BY <1>1, <1>2 DEF Same

(* A synchronisation, that may open a transaction. *)
LEMMA SyncFaithful ==
  ASSUME TypeOK, Agree, NEW p \in Procs, Sync(p), lock = NoThread,
         mirror' \in {mirror, SyncedFile(p)},
         \/ UNCHANGED <<lock, entries>>
         \/ entries' = SyncedFile(p)
  PROVE  Faithful
<1>1. \A r \in Refs : mirror'[r] \in {mirror[r], SyncedFile(p)[r]}
  OBVIOUS
<1>2. MirrorFollows
  BY <1>1, SyncSame DEF MirrorFollows, Same
<1>3. EntriesFollow
  BY SyncSame DEF EntriesFollow, Same
<1>4. Keeps
  BY <1>1, SyncSame DEF Keeps
<1> QED BY <1>2, <1>3, <1>4, SyncRecalls DEF Faithful

(* A transaction that ends. *)
LEMMA UnlockFaithful ==
  ASSUME TypeOK, Agree, NEW p \in Procs, Unlock, Recalls,
         mirror' = mirror \/ (mirror' = Written(p, entries) /\ lock # NoThread)
  PROVE  Faithful
<1>1. MirrorFollows
  BY WrittenSame DEF MirrorFollows, Same
<1>2. EntriesFollow
  BY DEF Unlock, Nobody, EntriesFollow
<1>3. Keeps
  BY WrittenSame DEF Keeps, Unlock
<1> QED BY <1>1, <1>2, <1>3 DEF Faithful

LEMMA EvictFaithful ==
  ASSUME TypeInv, NEW t \in Threads, NEW r \in Refs, Evict(t, r),
         entries[r] # NoEntry, UNCHANGED <<mirror, lock>>
  PROVE  Faithful
<1>1. /\ entries' = [entries EXCEPT ![r] = NoEntry]
      /\ known' = [known EXCEPT ![ProcOf[t]][r] = NoEntry]
      /\ sock' = [sock EXCEPT ![r] = NoPid]
  BY DEF Evict
<1>2. /\ \A p \in Procs, q \in Refs : known'[p][q] \in {known[p][q], NoEntry}
      /\ \A q \in Refs : /\ q # r => entries'[q] = entries[q]
                         /\ entries'[r] = NoEntry /\ sock'[r] = NoPid
  BY <1>1 DEF TypeInv, TypeOK
<1>3. Recalls
  BY <1>2 DEF Recalls, Same
<1>4. EntriesFollow
  BY <1>2 DEF EntriesFollow, Same
<1>5. Keeps
  BY <1>2 DEF Keeps
<1>6. MirrorFollows
  BY DEF MirrorFollows, Same
<1> QED BY <1>3, <1>4, <1>5, <1>6 DEF Faithful

LEMMA ExitFaithful ==
  ASSUME TypeOK, Agree, NEW p \in Procs, Exit(p),
         mirror' = mirror \/ (lock = NoThread /\ mirror' = SyncedFile(p))
  PROVE  Faithful
<1>1. Recalls
  <2>1. \A q \in Procs : known'[q] \in {known[q], Nobody}
    BY DEF Exit, TypeOK
  <2> QED BY <2>1 DEF Recalls, Nobody, Same
<1>2. UNCHANGED <<lock, entries>> \/ (entries' = Nobody /\ lock' = NoThread)
  <2>1. IF lock \in Ours(p) THEN Unlock ELSE UNCHANGED <<lock, entries, victims>>
    BY DEF Exit
  <2> QED BY <2>1 DEF Unlock
<1>3. MirrorFollows
  BY SyncSame DEF MirrorFollows, Same
<1>4. EntriesFollow
  BY <1>2 DEF EntriesFollow, Nobody, Same
<1>5. Keeps
  <2>1. lock = NoThread => lock' = NoThread
    BY <1>2
  <2> QED BY <1>2, <2>1, SyncSame DEF Keeps
<1> QED BY <1>1, <1>3, <1>4, <1>5 DEF Faithful

LEMMA FaithfulBegin ==
  ASSUME TypeInv, Agree, NEW t \in Threads, Begin(t)
  PROVE  Faithful
<1> USE SupervisorAssumption DEF shared, handles
<1>1. CASE Ask(t) \/ AskBench(t) \/ PruneRead(t)
  BY <1>1, SameFaithful DEF Ask, AskBench, PruneRead
<1>2. ASSUME NEW r \in Wants[t], NEW force \in BOOLEAN, Unload(t, r, force)
      PROVE  Faithful
  <2>1. /\ Sync(ProcOf[t]) /\ lock = NoThread
        /\ mirror' \in {mirror, SyncedFile(ProcOf[t])}
        /\ \/ UNCHANGED <<lock, entries>>
           \/ entries' = SyncedFile(ProcOf[t])
    BY <1>2 DEF Unload, LockFree
  <2> QED BY <2>1, SyncFaithful DEF TypeInv
<1>3. ASSUME NEW force \in BOOLEAN, UnloadAll(t, force) PROVE Faithful
  <2>1. /\ Sync(ProcOf[t]) /\ lock = NoThread
        /\ mirror' \in {mirror, SyncedFile(ProcOf[t])}
        /\ \/ UNCHANGED <<lock, entries>>
           \/ entries' = SyncedFile(ProcOf[t])
    BY <1>3 DEF UnloadAll, LockFree
  <2> QED BY <2>1, SyncFaithful DEF TypeInv
<1> QED BY <1>1, <1>2, <1>3 DEF Begin

LEMMA FaithfulStep ==
  ASSUME TypeInv, LockExclusive, Agree, NEW t \in Threads, Step(t), ~Lends(t)
  PROVE  Faithful
<1> USE SupervisorAssumption DEF shared, handles
<1>1. CASE \/ Turn(t) \/ Spawn(t) \/ JobEnds(t) \/ Free(t)
           \/ \E r \in Refs : PruneKill(t, r)
  BY <1>1, SameFaithful
  DEF Turn, Enter, GiveUp, Spawn, JobEnds, EndJob, EndBench, Free, PruneKill
<1>2. CASE Leave(t)
  <2> DEFINE p == ProcOf[t]
             r == req[t].ref
             e == [known[p][r] EXCEPT !.busy = NoProc]
  <2>1. p \in Procs /\ r \in Refs
    BY <1>2 DEF Leave, TypeInv, Calling, Request
  <2>2. /\ known' = IF known[p][r] = NoEntry THEN known
                    ELSE [known EXCEPT ![p][r] = e]
        /\ UNCHANGED <<mirror, entries, lock>>
    BY <1>2 DEF Leave
  <2>3. known[p][r] # NoEntry => Same(e, known[p][r])
    BY <2>1 DEF Same, Entry, TypeInv, TypeOK
  <2> HIDE DEF e, p, r
  <2>4. Recalls
    BY <2>1, <2>2, <2>3 DEF Recalls, Same, TypeInv, TypeOK
  <2> QED BY <2>2, <2>4, RecallsFaithful
<1>3. CASE Transact(t) \/ Publish(t) \/ PruneSync(t)
  <2>1. /\ Sync(ProcOf[t]) /\ lock = NoThread
        /\ mirror' \in {mirror, SyncedFile(ProcOf[t])}
        /\ \/ UNCHANGED <<lock, entries>>
           \/ entries' = SyncedFile(ProcOf[t])
    BY <1>3
    DEF Transact, Admit, Refuse, Publish, PruneSync, SyncMirror, LockFree
  <2> QED BY <2>1, SyncFaithful DEF TypeInv
<1>4. CASE EvictVictim(t) \/ EvictOther(t)
  <2>1. \E r \in Refs : Evict(t, r) /\ entries[r] # NoEntry
    BY <1>4
    DEF EvictVictim, EvictOther, Attaching, TypeInv, TypeOK, Calling, Request
  <2> QED BY <1>4, <2>1, EvictFaithful DEF EvictVictim, EvictOther
<1>5. CASE LoadedBench(t) \/ LoadFails(t) \/ EndUnload(t)
  <2>1. /\ Unlock /\ UNCHANGED known /\ lock # NoThread
        /\ mirror' = mirror \/ mirror' = Written(ProcOf[t], entries)
    BY <1>5 DEF LoadedBench, LoadFails, EndUnload, LockExclusive
  <2>2. Recalls
    BY <2>1 DEF Recalls, Same
  <2> QED BY <2>1, <2>2, UnlockFaithful DEF TypeInv
<1> QED BY <1>1, <1>2, <1>3, <1>4, <1>5
        DEF Step, Attach, LoadEnds, Lends

LEMMA FaithfulWeather ==
  ASSUME TypeInv, Agree, Environment
  PROVE  Faithful
<1> USE DEF shared, handles
<1>1. ASSUME NEW p \in Procs, ReadTable(p) PROVE Faithful
  <2>1. /\ known' = [known EXCEPT ![p] =
                       [r \in Refs |-> IF OnBothSides(p, r)
                                        THEN Published(p, r, known[p][r])
                                        ELSE known[p][r]]]
        /\ UNCHANGED <<mirror, entries, lock>>
    BY <1>1 DEF ReadTable
  <2>2. Recalls
    <3> SUFFICES ASSUME NEW q \in Procs, NEW r \in Refs, known'[q][r] # NoEntry
                 PROVE  known[q][r] # NoEntry /\ Same(known'[q][r], known[q][r])
      BY DEF Recalls
    <3>1. \/ known'[q][r] = known[q][r]
          \/ OnBothSides(p, r) /\ q = p /\ known'[q][r] = Published(p, r, known[p][r])
      BY <2>1 DEF TypeInv, TypeOK
    <3>2. OnBothSides(p, r) => known[p][r] # NoEntry /\ known[p][r] \in Entry
      BY DEF OnBothSides, TypeInv, TypeOK
    <3> QED BY <3>1, <3>2, PublishedSame DEF Same, TypeInv
  <2> QED BY <2>1, <2>2, RecallsFaithful
<1>2. ASSUME NEW p \in Procs, Crash(p) \/ EndClose(p) PROVE Faithful
  <2>1. /\ Exit(p)
        /\ mirror' = mirror \/ (lock = NoThread /\ mirror' = SyncedFile(p))
    BY <1>2 DEF Crash, EndClose, LockFree
  <2> QED BY <2>1, ExitFaithful DEF TypeInv
<1>3. ASSUME NEW p \in Procs, Close(p) PROVE Faithful
  BY <1>3, SameFaithful DEF Close
<1>4. ASSUME NEW q \in Pids, WorkerDies(q) \/ IdleExit(q) PROVE Faithful
  BY <1>4, SameFaithful DEF WorkerDies, IdleExit
<1>5. ASSUME NEW r \in Refs, SocketLost(r) \/ Republish(r) PROVE Faithful
  BY <1>5, SameFaithful DEF SocketLost, Republish
<1> QED BY <1>1, <1>2, <1>3, <1>4, <1>5 DEF Environment

LEMMA FaithfulNext ==
  ASSUME TypeInv, LockExclusive, Agree, [Next]_vars
  PROVE  Faithful \/ \E t \in Threads : Lends(t)
<1>1. CASE UNCHANGED vars
  BY <1>1, SameFaithful DEF vars, shared, handles
<1> QED BY <1>1, FaithfulBegin, FaithfulStep, FaithfulWeather DEF Next

-----------------------------------------------------------------------------
(* A lease: t gets the worker q, and the entry of its variant says what f  *)
(* says.                                                                   *)
Hands(t, f, q) ==
  /\ f \in Entry /\ q \in Pids /\ Up(q)
  /\ req[t] \in Request /\ req[t].op = "run"
  /\ req[t].ref \in Wants[t] /\ ProcOf[t] \in alive
  /\ pc'[t] = "job" /\ conn'[t] = q
  /\ \A u \in Threads \ {t} : pc'[u] = pc[u] /\ conn'[u] = conn[u]
  /\ UNCHANGED <<alive, closing, worker, sock, req, reaped>>
  /\ mirror'[req[t].ref] # NoEntry /\ Same(mirror'[req[t].ref], f)
  /\ \A p \in Procs : known'[p][req[t].ref] # NoEntry =>
       Same(known'[p][req[t].ref], f)
  /\ \A r \in Refs \ {req[t].ref} :
       /\ mirror'[r] # NoEntry <=> entries[r] # NoEntry
       /\ entries[r] # NoEntry => Same(mirror'[r], entries[r])
       /\ \A p \in Procs : known'[p][r] = known[p][r]
  /\ entries' = Nobody /\ lock' = NoThread /\ lock = t
  /\ \/ /\ Loads(t, req[t].ref) /\ q = conn[t]
        /\ f.pid = q /\ f.doc = req[t].doc
        /\ f.peak = Larger(Profile[req[t].ref], worker[q].mem)
     \/ /\ pc[t] = "evict" /\ q = sock[req[t].ref]
        /\ entries[req[t].ref] # NoEntry /\ Same(f, entries[req[t].ref])
        /\ entries[req[t].ref].doc = req[t].doc

LEMMA LeaseHands ==
  ASSUME Before, Agree, NEW t \in Threads, NEW f \in Entry, NEW q \in Pids,
         pc[t] \in {"evict", "load"}, req[t].op = "run", GiveLease(t, f), Up(q),
         conn' = [conn EXCEPT ![t] = q],
         UNCHANGED <<alive, closing, worker, sock, req, reaped>>,
         \/ /\ Loads(t, req[t].ref) /\ q = conn[t]
            /\ f.pid = q /\ f.doc = req[t].doc
            /\ f.peak = Larger(Profile[req[t].ref], worker[q].mem)
         \/ /\ pc[t] = "evict" /\ q = sock[req[t].ref]
            /\ entries[req[t].ref] # NoEntry /\ Same(f, entries[req[t].ref])
            /\ entries[req[t].ref].doc = req[t].doc
  PROVE  Hands(t, f, q)
<1> USE SupervisorAssumption
<1> DEFINE p == ProcOf[t]
           r == req[t].ref
           e == Published(p, r, f)
<1>1. req[t] \in Request /\ r \in Refs /\ p \in Procs
  BY DEF Before, TypeInv, Calling, Request
<1>2. r \in Wants[t] /\ p \in alive
  BY DEF InTurn, Before, SparedInv, Wanted, Running, Living
<1>3. e # NoEntry /\ Same(e, f)
  BY <1>1, PublishedSame DEF Before, TypeInv
<1>4. /\ known' = [known EXCEPT ![p][r] = e]
      /\ mirror' = [Written(p, entries) EXCEPT ![r] = e]
      /\ Unlock
      /\ pc' = [pc EXCEPT ![t] = "job"]
  BY DEF GiveLease
<1>5. lock = t
  BY DEF Before, LockExclusive
<1>6. \A o \in Procs \ {p} : known[o][r] = NoEntry
  <2> SUFFICES ASSUME NEW o \in Procs \ {p}, known[o][r] # NoEntry PROVE FALSE
    OBVIOUS
  <2>1. PICK u \in Threads : ProcOf[u] = o /\ r \in Wants[u]
    BY <1>1 DEF Before, SparedInv, Wanted
  <2> QED BY <1>2, <2>1 DEF Before, NothingShared
<1>7. /\ Written(p, entries) \in [Refs -> Entry \cup {NoEntry}]
      /\ TypeOK
  BY <1>1, WrittenType DEF Before, TypeInv, TypeOK
<1>8. \A s \in Refs : /\ Written(p, entries)[s] # NoEntry <=> entries[s] # NoEntry
                      /\ entries[s] # NoEntry => Same(Written(p, entries)[s], entries[s])
  BY <1>1, <1>7, WrittenSame
<1> HIDE DEF e
<1>9. /\ mirror'[r] = e
      /\ \A s \in Refs \ {r} : /\ mirror'[s] = Written(p, entries)[s]
                               /\ \A o \in Procs : known'[o][s] = known[o][s]
      /\ \A o \in Procs : known'[o][r] \in {e, NoEntry}
  BY <1>1, <1>4, <1>6, <1>7 DEF TypeOK
<1>10. /\ pc'[t] = "job" /\ conn'[t] = q
       /\ \A u \in Threads \ {t} : pc'[u] = pc[u] /\ conn'[u] = conn[u]
  BY <1>4, <1>7 DEF TypeOK
<1>11. \A s \in Refs \ {r} :
         /\ mirror'[s] # NoEntry <=> entries[s] # NoEntry
         /\ entries[s] # NoEntry => Same(mirror'[s], entries[s])
         /\ \A o \in Procs : known'[o][s] = known[o][s]
  BY <1>8, <1>9
<1>12. /\ mirror'[r] # NoEntry /\ Same(mirror'[r], f)
       /\ \A o \in Procs : known'[o][r] # NoEntry => Same(known'[o][r], f)
  BY <1>3, <1>9
<1> QED BY <1>1, <1>2, <1>4, <1>5, <1>10, <1>11, <1>12 DEF Hands, Unlock

LEMMA LendsHands ==
  ASSUME Before, Agree, NEW t \in Threads, Lends(t)
  PROVE  \E f \in Entry, q \in Pids : Hands(t, f, q)
<1> USE SupervisorAssumption
<1> DEFINE r == req[t].ref
<1>0. UNCHANGED <<alive, closing, worker, sock, req, reaped>>
  BY LendsWorld
<1>1. CASE Reconnect(t)
  <2> DEFINE f == [entries[r] EXCEPT !.pinned = @ \/ req[t].pin]
  <2>1. /\ pc[t] = "evict" /\ req[t].op = "run" /\ entries[r] # NoEntry
        /\ Up(sock[r]) /\ GiveLease(t, f) /\ entries[r].doc = req[t].doc
        /\ conn' = [conn EXCEPT ![t] = sock[r]]
    BY <1>1 DEF Reconnect, Attaching, Listening, SameManifest
  <2>2. req[t] \in Request /\ r \in Refs
    BY <2>1 DEF Before, TypeInv, Calling, Request
  <2>3. entries[r] \in Entry /\ sock[r] \in Pids
    BY <2>1, <2>2 DEF Before, TypeInv, TypeOK, Up
  <2>4. f \in Entry /\ Same(f, entries[r])
    <3>1. \A e \in Entry, b \in BOOLEAN :
            LET g == [e EXCEPT !.pinned = @ \/ b]
            IN  g \in Entry /\ Same(g, e)
      BY DEF Entry, Same
    <3> QED BY <2>2, <2>3, <3>1 DEF Request
  <2> HIDE DEF f
  <2>5. Hands(t, f, sock[r])
    BY <1>0, <2>1, <2>3, <2>4, LeaseHands
  <2> QED BY <2>3, <2>4, <2>5
<1>2. CASE Loaded(t)
  <2> DEFINE q == conn[t]
             f == [pid |-> q, peak |-> Larger(Profile[r], worker[q].mem),
                   pinned |-> req[t].pin, doc |-> req[t].doc, busy |-> NoProc]
  <2>1. /\ pc[t] = "load" /\ req[t].op = "run" /\ Up(q) /\ GiveLease(t, f)
        /\ UNCHANGED conn
    BY <1>2 DEF Loaded
  <2>2. req[t] \in Request /\ q \in Pids /\ worker[q] \in Worker
    BY <2>1 DEF Before, TypeInv, TypeOK, Calling, Up
  <2>3. /\ f \in Entry /\ f.pid = q /\ f.doc = req[t].doc
        /\ f.peak = Larger(Profile[req[t].ref], worker[q].mem)
    BY <2>2 DEF Entry, Request, Worker, Larger
  <2>4. conn' = [conn EXCEPT ![t] = q]
    BY <2>1 DEF Before, TypeInv, TypeOK
  <2>5. Loads(t, r)
    BY <2>1 DEF Loads
  <2> HIDE DEF f
  <2>6. Hands(t, f, q)
    BY <1>0, <2>1, <2>2, <2>3, <2>4, <2>5, LeaseHands
  <2> QED BY <2>2, <2>3, <2>6
<1> QED BY <1>1, <1>2 DEF Lends

-----------------------------------------------------------------------------
(* The entries of a variant agree.                                         *)

LEMMA SaidFollows ==
  ASSUME Faithful
  PROVE  \A r \in Refs : \A e \in Said(r)' : \E f \in Said(r) : Same(e, f)
<1> SUFFICES ASSUME NEW r \in Refs, NEW e \in Said(r)'
             PROVE  \E f \in Said(r) : Same(e, f)
  OBVIOUS
<1>1. e # NoEntry /\ (e \in {mirror'[r], entries'[r]} \/ \E p \in Procs : e = known'[p][r])
  BY DEF Said, OnFile, InMemories
<1>2. ASSUME NEW p \in Procs, e = known'[p][r] PROVE \E f \in Said(r) : Same(e, f)
  <2>1. known[p][r] # NoEntry /\ Same(e, known[p][r])
    BY <1>1, <1>2 DEF Faithful, Recalls
  <2> QED BY <2>1 DEF Said, InMemories
<1>3. CASE e \in {mirror'[r], entries'[r]}
  <2>1. \/ mirror[r] # NoEntry /\ Same(e, mirror[r])
        \/ entries[r] # NoEntry /\ Same(e, entries[r])
    BY <1>1, <1>3 DEF Faithful, MirrorFollows, EntriesFollow
  <2> QED BY <2>1 DEF Said, OnFile
<1> QED BY <1>1, <1>2, <1>3

LEMMA HandsSaid ==
  ASSUME TypeInv, NEW t \in Threads, NEW f \in Entry, NEW q \in Pids, Hands(t, f, q)
  PROVE  \A r \in Refs : \A e \in Said(r)' :
           IF r = req[t].ref THEN Same(e, f) ELSE \E g \in Said(r) : Same(e, g)
<1> SUFFICES ASSUME NEW r \in Refs, NEW e \in Said(r)'
             PROVE  IF r = req[t].ref THEN Same(e, f)
                    ELSE \E g \in Said(r) : Same(e, g)
  OBVIOUS
<1>1. e # NoEntry /\ (e = mirror'[r] \/ \E p \in Procs : e = known'[p][r])
  BY DEF Said, OnFile, InMemories, Hands, Nobody
<1>2. CASE r = req[t].ref
  BY <1>1, <1>2 DEF Hands
<1>3. CASE r # req[t].ref
  <2>1. CASE e = mirror'[r]
    <3>1. entries[r] # NoEntry /\ Same(e, entries[r])
      BY <1>1, <1>3, <2>1 DEF Hands
    <3> QED BY <1>3, <3>1 DEF Said, OnFile
  <2>2. ASSUME NEW p \in Procs, e = known'[p][r]
        PROVE  \E g \in Said(r) : Same(e, g)
    <3>1. known[p][r] = e
      BY <1>3, <2>2 DEF Hands
    <3> QED BY <1>1, <3>1 DEF Said, InMemories, Same
  <2> QED BY <1>1, <1>3, <2>1, <2>2
<1> QED BY <1>2, <1>3

LEMMA InitAgree == Init => Agree
BY DEF Init, Agree, Said, OnFile, InMemories, Nobody

LEMMA NextAgree ==
  ASSUME Before, Agree, [Next]_vars
  PROVE  Agree'
<1> SUFFICES ASSUME NEW r \in Refs, NEW e \in Said(r)', NEW f \in Said(r)'
             PROVE  Same(e, f)
  BY DEF Agree
<1>1. CASE Faithful
  <2>1. PICK g \in Said(r), h \in Said(r) : Same(e, g) /\ Same(f, h)
    BY <1>1, SaidFollows
  <2>2. Same(g, h)
    BY DEF Agree
  <2> QED BY <2>1, <2>2 DEF Same
<1>2. ASSUME NEW t \in Threads, Lends(t) PROVE Same(e, f)
  <2>1. PICK h \in Entry, q \in Pids : Hands(t, h, q)
    BY <1>2, LendsHands
  <2>2. CASE r = req[t].ref
    <3>1. Same(e, h) /\ Same(f, h)
      BY <2>1, <2>2, HandsSaid DEF Before
    <3> QED BY <3>1 DEF Same
  <2>3. CASE r # req[t].ref
    <3>1. (\E g \in Said(r) : Same(e, g)) /\ (\E k \in Said(r) : Same(f, k))
      BY <2>1, <2>3, HandsSaid DEF Before
    <3>2. PICK g \in Said(r), k \in Said(r) : Same(e, g) /\ Same(f, k)
      BY <3>1
    <3>3. Same(g, k)
      BY DEF Agree
    <3> QED BY <3>2, <3>3 DEF Same
  <2> QED BY <2>2, <2>3
<1> QED BY <1>1, <1>2, FaithfulNext DEF Before

-----------------------------------------------------------------------------
(* What a lease gives is what its caller asked for.                        *)

(* The manifest written beside a process is the one it was given.          *)
TrueDocs ==
  \A r \in Refs : \A e \in Said(r) : Up(e.pid) => worker[e.pid].doc = e.doc
TrueLoans ==
  \A t \in Threads :
    Attached(t) /\ Up(conn[t]) => worker[conn[t]].doc = req[t].doc

(* While a variant is loaded, its path is that of the worker that loads.   *)
LoadBinds ==
  \A t \in Threads, r \in Refs : Loads(t, r) => sock[r] \in {conn[t], NoPid}

(* The worker that listens is the one the tables record: it may only be    *)
(* another while it loads, or when no program that lives wants the variant. *)
Reached ==
  \A r \in Refs : Claimed(r) /\ Up(sock[r]) =>
    /\ entries[r] # NoEntry => sock[r] = entries[r].pid
    /\ mirror[r] # NoEntry /\ Up(mirror[r].pid) /\ ~Loading(r) =>
         sock[r] = mirror[r].pid

ServedInv == Agree /\ TrueDocs /\ TrueLoans /\ LoadBinds /\ Reached

LEMMA SaidType ==
  ASSUME TypeInv, NEW r \in Refs, NEW e \in Said(r)
  PROVE  e \in Entry /\ e.pid \in Pids
<1>1. e \in Entry
  BY DEF Said, OnFile, InMemories, TypeInv, TypeOK
<1> QED BY <1>1 DEF Entry

LEMMA FileSaid ==
  \A r \in Refs : /\ mirror[r] # NoEntry => mirror[r] \in Said(r)
                  /\ entries[r] # NoEntry => entries[r] \in Said(r)
BY DEF Said, OnFile

(* A loading program lives, and a variant is loaded by one thread.         *)
LEMMA LoadsAlone ==
  ASSUME Before, NEW t \in Threads, NEW u \in Threads, NEW r \in Refs,
         NEW s \in Refs, Loads(t, r), Loads(u, s)
  PROVE  t = u /\ r = s
BY DEF Before, LockExclusive, Loads

(* A killed program leaves nobody who wants the variant it was loading.    *)
LEMMA KilledUnclaimed ==
  ASSUME Before, NEW t \in Threads, NEW r \in Refs, Loads(t, r),
         alive' \subseteq alive, ProcOf[t] \notin alive'
  PROVE  ~Claimed(r)'
<1>1. r \in Wants[t]
  BY DEF Loads, Before, SparedInv, Wanted, Running, InTurn
<1> QED BY <1>1 DEF Claimed, Before, NothingShared

LEMMA SoftUp ==
  ASSUME TypeInv, SoftWorld
  PROVE  /\ \A q \in Pids \cup {NoPid} : Up(q)' =>
              Up(q) /\ worker'[q].ref = worker[q].ref /\ worker'[q].doc = worker[q].doc
         /\ \A r \in Refs : Up(sock[r])' => sock'[r] = sock[r] /\ Up(sock[r])
<1>1. \A q \in Pids \cup {NoPid} : Up(q)' =>
        Up(q) /\ worker'[q].ref = worker[q].ref /\ worker'[q].doc = worker[q].doc
  BY DEF SoftWorld, Up
<1>2. ASSUME NEW r \in Refs, Up(sock[r])' PROVE sock'[r] = sock[r] /\ Up(sock[r])
  <2>1. sock'[r] = sock[r] /\ sock[r] \in Pids \cup {NoPid} /\ sock'[r] # NoPid
    BY <1>2 DEF SoftWorld, Up, TypeInv, TypeOK
  <2>2. worker'[sock[r]] # NoWorker
    BY <1>2, <2>1 DEF Up
  <2> QED BY <2>1, <2>2 DEF SoftWorld, Up
<1> QED BY <1>1, <1>2

LEMMA SoftBinds ==
  ASSUME LoadBinds, Soft PROVE LoadBinds'
<1> SUFFICES ASSUME NEW t \in Threads, NEW r \in Refs, Loads(t, r)'
             PROVE  sock'[r] \in {conn'[t], NoPid}
  BY DEF LoadBinds
<1>1. Loads(t, r) /\ conn'[t] = conn[t]
  BY DEF Soft, SoftCalls, Loads, Attached
<1> QED BY <1>1 DEF LoadBinds, Soft, SoftWorld

(* A variant that was loaded is still, or nobody listens on its path, or   *)
(* nobody asks for it.                                                     *)
LEMMA SoftLoading ==
  ASSUME Before, Soft, NEW r \in Refs, Up(sock[r])', ~Loading(r)', Loading(r)
  PROVE  ~Claimed(r)' /\ "process" \in Faults
<1>1. PICK t \in Threads : Loads(t, r)
  BY DEF Loading
<1>2. sock'[r] # NoPid /\ ~Loads(t, r)'
  BY DEF Up, Loading
<1>3. ProcOf[t] \notin alive' /\ "process" \in Faults
  BY <1>1, <1>2 DEF Soft, SoftCalls
<1> QED BY <1>1, <1>3, KilledUnclaimed DEF Soft, SoftCalls

LEMMA SoftServed ==
  ASSUME Before, ServedInv, Soft, Faithful
  PROVE  TrueDocs' /\ TrueLoans' /\ LoadBinds' /\ Reached'
<1> USE DEF Before, Soft
<1>1. TrueDocs'
  <2> SUFFICES ASSUME NEW r \in Refs, NEW e \in Said(r)', Up(e.pid)'
               PROVE  worker'[e.pid].doc = e.doc
    BY DEF TrueDocs
  <2>1. PICK f \in Said(r) : Same(e, f)
    BY SaidFollows
  <2>2. f.pid \in Pids /\ e.pid = f.pid /\ e.doc = f.doc
    BY <2>1, SaidType DEF Same
  <2>3. Up(f.pid) /\ worker'[f.pid].doc = worker[f.pid].doc
    BY <2>2, SoftUp DEF Up
  <2> QED BY <2>2, <2>3 DEF ServedInv, TrueDocs
<1>2. TrueLoans'
  <2> SUFFICES ASSUME NEW t \in Threads, Attached(t)', Up(conn[t])'
               PROVE  worker'[conn'[t]].doc = req'[t].doc
    BY DEF TrueLoans
  <2>1. Attached(t) /\ conn'[t] = conn[t] /\ req'[t] = req[t]
    BY DEF SoftCalls
  <2>2. conn[t] \in Pids \cup {NoPid}
    BY DEF TypeInv, TypeOK
  <2>3. Up(conn[t]) /\ worker'[conn[t]].doc = worker[conn[t]].doc
    BY <2>1, <2>2, SoftUp DEF Up
  <2> QED BY <2>1, <2>3 DEF ServedInv, TrueLoans
<1>3. Reached'
  <2> SUFFICES ASSUME NEW r \in Refs, Claimed(r)', Up(sock[r])'
               PROVE  /\ entries'[r] # NoEntry => sock'[r] = entries'[r].pid
                      /\ mirror'[r] # NoEntry /\ Up(mirror[r].pid)' /\ ~Loading(r)' =>
                           sock'[r] = mirror'[r].pid
    BY DEF Reached
  <2>1. sock'[r] = sock[r] /\ Up(sock[r])
    BY SoftUp
  <2>2. Claimed(r)
    BY DEF Claimed, SoftCalls
  <2>3. lock = NoThread => ~Loading(r)
    BY SupervisorAssumption DEF LockExclusive, Loading, Loads, TypeInv, TypeOK
  <2>4. ASSUME entries'[r] # NoEntry PROVE sock'[r] = entries'[r].pid
    <3>1. CASE entries[r] # NoEntry /\ Same(entries'[r], entries[r])
      BY <2>1, <2>2, <3>1 DEF ServedInv, Reached, Same
    <3>2. CASE /\ lock = NoThread /\ mirror[r] # NoEntry /\ IsAlive(r, mirror[r])
               /\ Same(entries'[r], mirror[r])
      BY <2>1, <2>2, <2>3, <3>2 DEF ServedInv, Reached, Same, IsAlive
    <3> QED BY <2>4, <3>1, <3>2 DEF Faithful, EntriesFollow
  <2>5. ASSUME mirror'[r] # NoEntry, Up(mirror[r].pid)', ~Loading(r)'
        PROVE  sock'[r] = mirror'[r].pid
    <3>1. CASE mirror[r] # NoEntry /\ Same(mirror'[r], mirror[r])
      <4>1. mirror[r].pid \in Pids /\ mirror'[r].pid = mirror[r].pid
        BY <3>1, FileSaid, SaidType DEF Same
      <4>2. Up(mirror[r].pid)
        BY <2>5, <4>1, SoftUp DEF Up
      <4>3. ~Loading(r)
        BY <2>5, SoftLoading
      <4> QED BY <2>1, <2>2, <3>1, <4>1, <4>2, <4>3 DEF ServedInv, Reached
    <3>2. CASE entries[r] # NoEntry /\ Same(mirror'[r], entries[r])
      BY <2>1, <2>2, <3>2 DEF ServedInv, Reached, Same
    <3> QED BY <2>5, <3>1, <3>2 DEF Faithful, MirrorFollows
  <2> QED BY <2>4, <2>5
<1> QED BY <1>1, <1>2, <1>3, SoftBinds DEF ServedInv

LEMMA SpawnAlone ==
  ASSUME Before, NEW t \in Threads, NEW q \in Pids, Begets(t, q)
  PROVE  /\ \A r \in Refs : ~Loading(r)
         /\ \A u \in Threads, r \in Refs : Loads(u, r)' <=>
              u = t /\ req[t].op = "run" /\ r = req[t].ref
<1>1. \A u \in Threads : pc[u] # "load"
  BY DEF Begets, Before, LockExclusive
<1> QED BY <1>1 DEF Begets, Loading, Loads

LEMMA SpawnSaid ==
  ASSUME TypeInv, NEW t \in Threads, NEW q \in Pids, Begets(t, q)
  PROVE  /\ \A r \in Refs : Said(r)' = Said(r) /\ \A e \in Said(r) : e.pid # q
         /\ \A s \in Pids \cup {NoPid} : s # q => (Up(s)' <=> Up(s))
<1>1. UNCHANGED <<mirror, entries, known>>
  BY DEF Begets, shared, handles
<1>2. \A r \in Refs : Said(r)' = Said(r)
  BY <1>1 DEF Said, OnFile, InMemories
<1>3. \A r \in Refs : \A e \in Said(r) : e.pid # q
  BY DEF Begets, Named, Said, OnFile, InMemories
<1>4. \A s \in Pids \cup {NoPid} : s # q => (Up(s)' <=> Up(s))
  BY DEF Begets, Up
<1> QED BY <1>2, <1>3, <1>4

LEMMA SpawnServed ==
  ASSUME Before, ServedInv, NEW t \in Threads, NEW q \in Pids, Begets(t, q)
  PROVE  TrueDocs' /\ TrueLoans' /\ LoadBinds' /\ Reached'
<1> USE DEF Before
<1>0. /\ \A u \in Threads : conn[u] \in Pids \cup {NoPid} /\ conn[u] # q
      /\ \A r \in Refs : sock[r] \in Pids \cup {NoPid} /\ sock[r] # q
  BY DEF TypeInv, TypeOK, Begets, Named
<1>1. TrueDocs'
  <2> SUFFICES ASSUME NEW r \in Refs, NEW e \in Said(r)', Up(e.pid)'
               PROVE  worker'[e.pid].doc = e.doc
    BY DEF TrueDocs
  <2>1. e \in Said(r) /\ e.pid \in Pids /\ e.pid # q
    BY SpawnSaid, SaidType
  <2>2. Up(e.pid) /\ worker'[e.pid] = worker[e.pid]
    BY <2>1 DEF Begets, Up
  <2> QED BY <2>1, <2>2 DEF ServedInv, TrueDocs
<1>2. TrueLoans'
  <2> SUFFICES ASSUME NEW u \in Threads, Attached(u)', Up(conn[u])'
               PROVE  worker'[conn'[u]].doc = req'[u].doc
    BY DEF TrueLoans
  <2>1. CASE u = t
    BY <2>1 DEF Begets
  <2>2. CASE u # t
    <3>1. Attached(u) /\ conn'[u] = conn[u] /\ req'[u] = req[u]
      BY <2>2 DEF Begets, Attached
    <3>2. Up(conn[u]) /\ worker'[conn[u]] = worker[conn[u]]
      BY <1>0, <3>1 DEF Begets, Up
    <3> QED BY <3>1, <3>2 DEF ServedInv, TrueLoans
  <2> QED BY <2>1, <2>2
<1>3. LoadBinds'
  <2> SUFFICES ASSUME NEW u \in Threads, NEW r \in Refs, Loads(u, r)'
               PROVE  sock'[r] \in {conn'[u], NoPid}
    BY DEF LoadBinds
  <2> QED BY SpawnAlone DEF Begets
<1>4. Reached'
  <2> SUFFICES ASSUME NEW r \in Refs, Claimed(r)', Up(sock[r])'
               PROVE  /\ entries'[r] # NoEntry => sock'[r] = entries'[r].pid
                      /\ mirror'[r] # NoEntry /\ Up(mirror[r].pid)' /\ ~Loading(r)' =>
                           sock'[r] = mirror'[r].pid
    BY DEF Reached
  <2>1. entries' = entries /\ mirror' = mirror /\ alive' = alive
    BY DEF Begets, shared
  <2>2. CASE req[t].op = "run" /\ r = req[t].ref
    <3>1. Loading(r)'
      BY <2>2, SpawnAlone DEF Loading
    <3> QED BY <2>1, <2>2, <3>1 DEF Begets
  <2>3. CASE ~(req[t].op = "run" /\ r = req[t].ref)
    <3>1. sock'[r] = sock[r] /\ Up(sock[r])
      BY <1>0, <2>3, SpawnSaid DEF Begets, Up
    <3>2. Claimed(r) /\ ~Loading(r)
      BY <2>1, SpawnAlone DEF Claimed
    <3>3. mirror[r] # NoEntry =>
            mirror[r].pid \in Pids /\ mirror[r].pid # q
      BY FileSaid, SaidType, SpawnSaid
    <3>4. mirror[r] # NoEntry /\ Up(mirror[r].pid)' => Up(mirror[r].pid)
      BY <2>1, <3>3, SpawnSaid DEF Up
    <3> QED BY <2>1, <3>1, <3>2, <3>4 DEF ServedInv, Reached
  <2> QED BY <2>2, <2>3
<1> QED BY <1>1, <1>2, <1>3, <1>4

(* A worker is lent under its own name. *)
LEMMA HandsTrue ==
  ASSUME Before, ServedInv, NEW t \in Threads, NEW f \in Entry, NEW q \in Pids,
         Hands(t, f, q)
  PROVE  /\ worker[q].doc = req[t].doc
         /\ Up(f.pid) => worker[f.pid].doc = f.doc
         /\ Up(sock[req[t].ref]) => sock[req[t].ref] = f.pid
         /\ Claimed(req[t].ref)
<1> DEFINE r == req[t].ref
<1>1. r \in Refs /\ Claimed(r) /\ Up(q)
  BY DEF Hands, Request, Claimed
<1>2. CASE /\ Loads(t, r) /\ q = conn[t]
           /\ f.pid = q /\ f.doc = req[t].doc
  <2>1. worker[q].doc = req[t].doc
    BY <1>1, <1>2 DEF ServedInv, TrueLoans, Attached, Loads
  <2>2. sock[r] \in {q, NoPid}
    BY <1>1, <1>2 DEF ServedInv, LoadBinds
  <2> QED BY <1>1, <1>2, <2>1, <2>2 DEF Up
<1>3. CASE /\ pc[t] = "evict" /\ q = sock[r]
           /\ entries[r] # NoEntry /\ Same(f, entries[r])
           /\ entries[r].doc = req[t].doc
  <2>1. sock[r] = entries[r].pid
    BY <1>1, <1>3 DEF ServedInv, Reached
  <2>2. Up(entries[r].pid) => worker[entries[r].pid].doc = entries[r].doc
    BY <1>1, <1>3, FileSaid DEF ServedInv, TrueDocs
  <2> QED BY <1>1, <1>3, <2>1, <2>2 DEF Same
<1> QED BY <1>1, <1>2, <1>3 DEF Hands

LEMMA HandsAlone ==
  ASSUME Before, NEW t \in Threads, NEW f \in Entry, NEW q \in Pids,
         Hands(t, f, q)
  PROVE  \A u \in Threads, r \in Refs :
           /\ ~Loads(u, r)'
           /\ Loads(u, r) => u = t /\ r = req[t].ref
<1>1. \A u \in Threads \ {t} : pc[u] # "load"
  BY DEF Hands, Before, LockExclusive
<1> QED BY <1>1 DEF Hands, Loads

LEMMA HandsServed ==
  ASSUME Before, ServedInv, NEW t \in Threads, NEW f \in Entry, NEW q \in Pids,
         Hands(t, f, q)
  PROVE  TrueDocs' /\ TrueLoans' /\ LoadBinds' /\ Reached'
<1> USE DEF Before
<1>0. worker' = worker /\ sock' = sock /\ req' = req /\ alive' = alive
  BY DEF Hands
<1>1. TrueDocs'
  <2> SUFFICES ASSUME NEW r \in Refs, NEW e \in Said(r)', Up(e.pid)'
               PROVE  worker'[e.pid].doc = e.doc
    BY DEF TrueDocs
  <2>1. Up(e.pid)
    BY <1>0 DEF Up
  <2>2. CASE r = req[t].ref
    <3>1. Same(e, f)
      BY <2>2, HandsSaid
    <3> QED BY <1>0, <2>1, <3>1, HandsTrue DEF Same
  <2>3. CASE r # req[t].ref
    <3>1. PICK g \in Said(r) : Same(e, g)
      BY <2>3, HandsSaid
    <3> QED BY <1>0, <2>1, <3>1 DEF Same, ServedInv, TrueDocs
  <2> QED BY <2>2, <2>3
<1>2. TrueLoans'
  <2> SUFFICES ASSUME NEW u \in Threads, Attached(u)', Up(conn[u])'
               PROVE  worker'[conn'[u]].doc = req'[u].doc
    BY DEF TrueLoans
  <2>1. CASE u = t
    BY <1>0, <2>1, HandsTrue DEF Hands
  <2>2. CASE u # t
    <3>1. Attached(u) /\ conn'[u] = conn[u]
      BY <2>2 DEF Hands, Attached
    <3>2. Up(conn[u])
      BY <1>0, <3>1 DEF Up
    <3> QED BY <1>0, <3>1, <3>2 DEF ServedInv, TrueLoans
  <2> QED BY <2>1, <2>2
<1>3. LoadBinds'
  BY HandsAlone DEF LoadBinds
<1>4. Reached'
  <2> SUFFICES ASSUME NEW r \in Refs, Claimed(r)', Up(sock[r])'
               PROVE  /\ entries'[r] # NoEntry => sock'[r] = entries'[r].pid
                      /\ mirror'[r] # NoEntry /\ Up(mirror[r].pid)' /\ ~Loading(r)' =>
                           sock'[r] = mirror'[r].pid
    BY DEF Reached
  <2>1. Up(sock[r]) /\ Claimed(r) /\ entries'[r] = NoEntry
    BY <1>0 DEF Up, Claimed, Hands, Nobody
  <2>2. CASE r = req[t].ref
    BY <1>0, <2>1, <2>2, HandsTrue DEF Hands, Same
  <2>3. CASE r # req[t].ref
    BY <1>0, <2>1, <2>3 DEF Hands, Same, ServedInv, Reached
  <2> QED BY <2>1, <2>2, <2>3
<1> QED BY <1>1, <1>2, <1>3, <1>4

LEMMA InitServed == Init => ServedInv
<1>1. Init => TrueDocs
  BY DEF Init, TrueDocs, Said, OnFile, InMemories, Nobody
<1>2. Init => TrueLoans /\ LoadBinds /\ Reached
  BY DEF Init, TrueLoans, LoadBinds, Reached, Attached, Loads, Up
<1> QED BY <1>1, <1>2, InitAgree DEF ServedInv

LEMMA NextServed ==
  ASSUME Before, ServedInv, [Next]_vars PROVE ServedInv'
<1>1. Agree'
  BY NextAgree DEF ServedInv
<1>2. CASE \E t \in Threads : Lends(t)
  BY <1>1, <1>2, LendsHands, HandsServed DEF ServedInv
<1>3. CASE \E t \in Threads : Spawn(t)
  BY <1>1, <1>3, SpawnBegets, SpawnServed DEF ServedInv, Before
<1>4. CASE Soft /\ Faithful
  BY <1>1, <1>4, SoftServed DEF ServedInv
<1> QED BY <1>2, <1>3, <1>4, SoftNext, FaithfulNext DEF Before, ServedInv

LEMMA ServedFits == SparedInv /\ ServedInv => ServedAsAsked
BY DEF SparedInv, Linked, ServedInv, TrueLoans, ServedAsAsked, Attached

(* A job is served by a worker of its variant that loaded the manifest its *)
(* caller resolved, while registries are reloaded, socket files vanish,    *)
(* workers and programs die: the fingerprint in the mirror is never that   *)
(* of another process than the one that listens.                           *)
THEOREM JobsAreServedAsAsked ==
  ASSUME NothingShared
  PROVE  Spec => []ServedAsAsked
<1> DEFINE Inv == TypeInv /\ LockExclusive /\ TurnInv /\ SparedInv /\ ServedInv
<1>1. Init => Inv
  BY InitTypeInv, InitLock, InitTurn, InitSpared, InitServed
<1>2. Inv /\ [Next]_vars => Inv'
  <2> SUFFICES ASSUME Inv, [Next]_vars PROVE Inv'
    OBVIOUS
  <2>1. TypeInv' /\ LockExclusive' /\ TurnInv'
    BY NextTypeInv, NextLock, NextTurn
  <2>2. Before
    BY <2>1 DEF Before
  <2> QED BY <2>1, <2>2, NextSpared, NextServed
<1>3. Inv => ServedAsAsked
  BY ServedFits
<1> QED BY <1>1, <1>2, <1>3, PTL DEF Spec

-----------------------------------------------------------------------------
(* Whatever socket files vanish, a worker on its path is not forgotten.    *)

SockWanted ==
  \A r \in Refs : sock[r] # NoPid => \E t \in Threads : r \in Wants[t]

(* Who listens on the path of a variant that a living program may ask for  *)
(* is in the mirror, and in the file as a transaction read it, unless it   *)
(* still loads.                                                            *)
Listed ==
  \A r \in Refs : Up(sock[r]) /\ Claimed(r) /\ ~Loading(r) =>
    /\ mirror[r] # NoEntry /\ mirror[r].pid = sock[r]
    /\ lock # NoThread => entries[r] # NoEntry

LEMMA SoftListed ==
  ASSUME Before, ServedInv, Listed, SockWanted, Soft, Faithful
  PROVE  Listed' /\ SockWanted'
<1> USE DEF Before, Soft
<1>1. SockWanted'
  BY DEF SockWanted, SoftWorld
<1>2. Listed'
  <2> SUFFICES ASSUME NEW r \in Refs, Up(sock[r])', Claimed(r)', ~Loading(r)'
               PROVE  /\ mirror'[r] # NoEntry /\ mirror'[r].pid = sock'[r]
                      /\ lock' # NoThread => entries'[r] # NoEntry
    BY DEF Listed
  <2>1. sock'[r] = sock[r] /\ Up(sock[r]) /\ sock'[r] # NoPid
    BY SoftUp DEF Up
  <2>2. Claimed(r) /\ ~Loading(r)
    BY SoftLoading DEF Claimed, SoftCalls
  <2>3. /\ mirror[r] # NoEntry /\ mirror[r].pid = sock[r]
        /\ lock # NoThread => entries[r] # NoEntry
    BY <2>1, <2>2 DEF Listed
  <2>4. mirror'[r] # NoEntry /\ (lock' # NoThread => entries'[r] # NoEntry)
    BY <2>1, <2>3 DEF Faithful, Keeps, IsAlive
  <2>5. entries[r] # NoEntry => entries[r].pid = mirror[r].pid
    BY <2>3, FileSaid DEF ServedInv, Agree, Same
  <2>6. mirror'[r].pid = sock'[r]
    BY <2>1, <2>3, <2>4, <2>5 DEF Faithful, MirrorFollows, Same
  <2> QED BY <2>4, <2>6
<1> QED BY <1>1, <1>2

LEMMA SpawnListed ==
  ASSUME Before, Listed, SockWanted, NEW t \in Threads, NEW q \in Pids, Begets(t, q)
  PROVE  Listed' /\ SockWanted'
<1> DEFINE own(r) == req[t].op = "run" /\ r = req[t].ref
<1> USE DEF Before
<1>1. UNCHANGED <<alive, mirror, entries, lock>>
  BY DEF Begets, shared
<1>2. \A r \in Refs : own(r) => r \in Wants[t] /\ Loading(r)'
  <2>1. req[t].op = "run" => req[t].ref \in Wants[t]
    BY DEF Begets, SparedInv, Wanted, Running, InTurn
  <2> QED BY <2>1, SpawnAlone DEF Loading
<1>3. \A r \in Refs : ~own(r) =>
        sock'[r] = sock[r] /\ ~Loading(r) /\ (Up(sock[r])' <=> Up(sock[r]))
  <2>1. \A r \in Refs : ~own(r) => sock'[r] = sock[r]
    BY DEF Begets
  <2>2. \A r \in Refs : sock[r] \in Pids \cup {NoPid} /\ sock[r] # q
    BY DEF Begets, Named, TypeInv, TypeOK
  <2> QED BY <2>1, <2>2, SpawnSaid, SpawnAlone DEF Up
<1>4. Listed'
  BY <1>1, <1>2, <1>3 DEF Listed, Claimed
<1>5. SockWanted'
  BY <1>2, <1>3 DEF SockWanted
<1> QED BY <1>4, <1>5

LEMMA HandsListed ==
  ASSUME Before, ServedInv, Listed, SockWanted, NEW t \in Threads,
         NEW f \in Entry, NEW q \in Pids, Hands(t, f, q)
  PROVE  Listed' /\ SockWanted'
<1> DEFINE o == req[t].ref
<1> USE DEF Before
<1>1. /\ UNCHANGED <<alive, sock, worker>> /\ \A s : Up(s)' <=> Up(s)
      /\ lock # NoThread /\ lock' = NoThread
  BY SupervisorAssumption DEF Hands, Up
<1>2. SockWanted'
  BY <1>1 DEF SockWanted
<1>3. Listed'
  <2> SUFFICES ASSUME NEW r \in Refs, Up(sock[r]), Claimed(r)
               PROVE  mirror'[r] # NoEntry /\ mirror'[r].pid = sock[r]
    BY <1>1 DEF Listed, Claimed
  <2>1. CASE r = o
    BY <2>1, HandsTrue DEF Hands, Same
  <2>2. CASE r # o
    <3>1. ~Loading(r)
      BY <2>2, HandsAlone DEF Loading
    <3>2. entries[r] # NoEntry /\ sock[r] = entries[r].pid
      BY <1>1, <3>1 DEF Listed, ServedInv, Reached
    <3> QED BY <2>2, <3>2 DEF Hands, Same
  <2> QED BY <2>1, <2>2
<1> QED BY <1>2, <1>3

LEMMA NextListed ==
  ASSUME Before, ServedInv, Listed, SockWanted, [Next]_vars
  PROVE  Listed' /\ SockWanted'
<1>1. CASE \E t \in Threads : Lends(t)
  BY <1>1, LendsHands, HandsListed DEF ServedInv
<1>2. CASE \E t \in Threads : Spawn(t)
  BY <1>2, SpawnBegets, SpawnListed DEF Before
<1>3. CASE Soft /\ Faithful
  BY <1>3, SoftListed
<1> QED BY <1>1, <1>2, <1>3, SoftNext, FaithfulNext DEF Before, ServedInv

LEMMA ListedFound ==
  ASSUME TypeInv, SparedInv, ServedInv, Listed, SockWanted
  PROVE  OnlyTheUnreachableLeak
<1> SUFFICES ASSUME NEW q \in Pids, Up(q), sock[worker[q].ref] = q
             PROVE  Recorded(q) \/ Connected(q) \/ Killed(q)
  BY DEF OnlyTheUnreachableLeak
<1> DEFINE r == worker[q].ref
<1>1. r \in Refs /\ q # NoPid
  BY DEF Up, TypeInv, TypeOK, Worker
<1>2. CASE Loading(r)
  <2>1. PICK t \in Threads : Loads(t, r)
    BY <1>2 DEF Loading
  <2>2. conn[t] = q
    BY <1>1, <2>1 DEF ServedInv, LoadBinds
  <2> QED BY <2>2 DEF Connected
<1>3. CASE ~Loading(r) /\ Claimed(r)
  <2>1. /\ mirror[r] # NoEntry /\ mirror[r].pid = q
        /\ lock # NoThread => entries[r] # NoEntry
    BY <1>1, <1>3 DEF Listed
  <2>2. entries[r] # NoEntry => entries[r].pid = q
    BY <1>1, <1>3 DEF ServedInv, Reached
  <2>3. File[r] # NoEntry /\ File[r].pid = q
    BY <2>1, <2>2 DEF File
  <2> QED BY <1>1, <2>3 DEF Recorded
<1>4. CASE ~Claimed(r)
  <2>1. PICK t \in Threads : r \in Wants[t]
    BY <1>1 DEF SockWanted
  <2>2. pc[t] = "gone"
    BY <1>4, <2>1 DEF Claimed, SparedInv, Living
  <2> QED BY <2>1, <2>2 DEF Killed
<1> QED BY <1>2, <1>3, <1>4

(* A worker that can still be reached through its path is recorded in the  *)
(* mirror or lent to a job, or belongs to a program that was killed: what  *)
(* a vanished socket file, or a prune that removes the path another thread *)
(* has just bound (supervisor.py:891), may lose is only a worker that      *)
(* nobody can reach any more. Programs that share no variant.              *)
THEOREM OnlyUnreachableWorkersLeak ==
  ASSUME NothingShared
  PROVE  Spec => []OnlyTheUnreachableLeak
<1> DEFINE Inv == /\ TypeInv /\ LockExclusive /\ TurnInv /\ SparedInv
                  /\ ServedInv /\ Listed /\ SockWanted
<1>1. Init => Inv
  <2>1. Init => Listed /\ SockWanted
    BY DEF Init, Listed, SockWanted, Up
  <2> QED BY <2>1, InitTypeInv, InitLock, InitTurn, InitSpared, InitServed
<1>2. Inv /\ [Next]_vars => Inv'
  <2> SUFFICES ASSUME Inv, [Next]_vars PROVE Inv'
    OBVIOUS
  <2>1. TypeInv' /\ LockExclusive' /\ TurnInv'
    BY NextTypeInv, NextLock, NextTurn
  <2>2. Before
    BY <2>1 DEF Before
  <2> QED BY <2>1, <2>2, NextSpared, NextServed, NextListed
<1>3. Inv => OnlyTheUnreachableLeak
  BY ListedFound
<1> QED BY <1>1, <1>2, <1>3, PTL DEF Spec

-----------------------------------------------------------------------------
(* Where no socket file vanishes, the paths are as good as the tables.     *)

NoSocketLost == "socket" \notin Faults

(* A live worker the file records has its path, and nobody else has it.    *)
PathsHold ==
  \A r \in Refs :
    /\ \A e \in OnFile(r) : Up(e.pid) => sock[r] = e.pid
    /\ entries[r] # NoEntry /\ Up(sock[r]) => sock[r] = entries[r].pid

(* A worker has its path, or is a bench's. *)
Loose ==
  \A q \in Pids : Up(q) =>
    \/ sock[worker[q].ref] = q
    \/ \E t \in Threads : Benching(t) /\ conn[t] = q

(* Who listens is in the mirror, and not yet in no transaction, unless it  *)
(* loads or its program was killed.                                        *)
Shown ==
  \A r \in Refs : Up(sock[r]) /\ Minded(r) /\ ~Loading(r) =>
    /\ mirror[r] # NoEntry /\ mirror[r].pid = sock[r]
    /\ lock # NoThread => entries[r] # NoEntry

(* The stale entries a prune has read are those of dead processes. *)
ReapedDead == \A t \in Threads, r \in Refs : ~Up(reaped[t][r])

ReachInv ==
  Agree /\ LoadBinds /\ PathsHold /\ Loose /\ Shown /\ SockWanted /\ ReapedDead

(* A job's worker has its path. *)
LEMMA LinkedPath ==
  ASSUME Before, Loose, NEW t \in Threads, Attached(t), req[t].op = "run",
         Up(conn[t])
  PROVE  /\ req[t].ref \in Refs /\ conn[t] \in Pids
         /\ worker[conn[t]].ref = req[t].ref /\ sock[req[t].ref] = conn[t]
<1>1. /\ conn[t] \in Pids /\ worker[conn[t]].ref = req[t].ref
      /\ req[t].ref \in Refs
  BY DEF Attached, Before, SparedInv, Linked, TypeInv, Calling, Request
<1>2. ~\E u \in Threads : Benching(u) /\ conn[u] = conn[t]
  BY DEF Benching, Before, SparedInv, Linked
<1> QED BY <1>1, <1>2 DEF Loose

(* A path goes with its worker: every step that removes one kills who      *)
(* listens on it.                                                          *)
Tidy ==
  \A r \in Refs :
    \/ sock'[r] = sock[r]
    \/ sock'[r] = NoPid /\ (sock[r] \in Pids => worker'[sock[r]] = NoWorker)

LEMMA SameTidy == UNCHANGED sock => Tidy
BY DEF Tidy

LEMMA OneTidy ==
  ASSUME TypeInv, SoftWorld, NEW r \in Refs, sock' = [sock EXCEPT ![r] = NoPid],
         Up(sock[r]) => worker'[sock[r]] = NoWorker
  PROVE  Tidy
<1>1. \A s \in Refs \ {r} : sock'[s] = sock[s]
  BY DEF TypeInv, TypeOK
<1>2. sock'[r] = NoPid
  BY DEF TypeInv, TypeOK
<1>3. sock[r] \in Pids => worker'[sock[r]] = NoWorker
  BY SupervisorAssumption DEF Up, SoftWorld
<1> QED BY <1>1, <1>2, <1>3 DEF Tidy

LEMMA EvictTidy ==
  ASSUME TypeInv, PathsHold, NEW t \in Threads, NEW r \in Refs, Evict(t, r),
         entries[r] # NoEntry
  PROVE  Tidy
<1>1. sock' = [sock EXCEPT ![r] = NoPid]
  BY DEF Evict
<1>2. entries[r].pid \in Pids
  BY DEF TypeInv, TypeOK, Entry
<1>3. worker'[entries[r].pid] = NoWorker
  <2> DEFINE after(q) == IF q = sock[r] /\ Up(q) /\ ~(\E u \in Threads : conn[u] = sock[r])
                         THEN [worker[q] EXCEPT !.mem = 0] ELSE worker[q]
  <2>1. worker' = [q \in Pids |-> IF q = entries[r].pid THEN NoWorker ELSE after(q)]
    BY DEF Evict
  <2> HIDE DEF after
  <2> QED BY <1>2, <2>1
<1>4. Up(sock[r]) => sock[r] = entries[r].pid
  BY DEF PathsHold
<1> QED BY <1>1, <1>3, <1>4, EvictSoft, OneTidy

LEMMA TidyNext ==
  ASSUME NoSocketLost, Before, ReachInv, [Next]_vars
  PROVE  Tidy \/ \E t \in Threads : Spawn(t)
<1> USE DEF shared, handles, world, local, Before
<1>1. ASSUME NEW t \in Threads, Begin(t) PROVE Tidy
  BY <1>1, SameTidy DEF Begin, Ask, AskBench, Unload, UnloadAll, PruneRead
<1>2. ASSUME NEW t \in Threads, Step(t), ~Spawn(t) PROVE Tidy
  <2>1. CASE \/ Turn(t) \/ Leave(t) \/ Transact(t) \/ Lends(t) \/ LoadedBench(t)
             \/ JobEnds(t) \/ Free(t) \/ Publish(t) \/ EndUnload(t) \/ PruneSync(t)
    <3>1. UNCHANGED sock
      BY <2>1, LendsWorld
      DEF Turn, Enter, GiveUp, Leave, Transact, Admit, Refuse, LoadedBench,
          JobEnds, EndJob, EndBench, Free, Publish, EndUnload, PruneSync
    <3> QED BY <3>1, SameTidy
  <2>2. CASE EvictVictim(t) \/ EvictOther(t)
    <3>1. \E r \in Refs : Evict(t, r) /\ entries[r] # NoEntry
      BY <2>2
      DEF EvictVictim, EvictOther, Attaching, TypeInv, TypeOK, Calling, Request
    <3> QED BY <3>1, EvictTidy DEF ReachInv
  <2>3. CASE LoadFails(t)
    <3>1. CASE req[t].op = "run"
      <4>1. /\ worker' = [worker EXCEPT ![conn[t]] = NoWorker]
            /\ sock' = [sock EXCEPT ![req[t].ref] = NoPid]
            /\ Loads(t, req[t].ref) /\ req[t].ref \in Refs
        BY <2>3, <3>1 DEF LoadFails, Gone, Loads, TypeInv, Calling, Request
      <4>2. sock[req[t].ref] \in {conn[t], NoPid}
        BY <4>1 DEF ReachInv, LoadBinds
      <4>3. Up(sock[req[t].ref]) => worker'[sock[req[t].ref]] = NoWorker
        BY <4>1, <4>2 DEF Up, TypeInv, TypeOK
      <4>4. SoftWorld
        BY <4>1 DEF SoftWorld, TypeInv, TypeOK
      <4> QED BY <4>1, <4>3, <4>4, OneTidy
    <3>2. CASE req[t].op # "run"
      BY <2>3, <3>2, SameTidy DEF LoadFails
    <3> QED BY <3>1, <3>2
  <2>4. ASSUME NEW r \in Refs, PruneKill(t, r) PROVE Tidy
    BY <2>4, SameTidy DEF PruneKill, ReachInv, ReapedDead
  <2> QED BY <1>2, <2>1, <2>2, <2>3, <2>4
          DEF Step, Attach, LoadEnds, Lends
<1>3. CASE Environment
  <2>1. ASSUME NEW p \in Procs,
               ReadTable(p) \/ Close(p) \/ Crash(p) \/ EndClose(p)
        PROVE  Tidy
    BY <2>1, SameTidy DEF ReadTable, Close, Crash, EndClose, Exit
  <2>2. ASSUME NEW q \in Pids, WorkerDies(q) PROVE Tidy
    BY <2>2, SameTidy DEF WorkerDies
  <2>3. ASSUME NEW q \in Pids, IdleExit(q) PROVE Tidy
    <3>1. /\ Up(q) /\ worker' = [worker EXCEPT ![q] = NoWorker]
          /\ \A t \in Threads : conn[t] # q
          /\ sock' = [sock EXCEPT ![worker[q].ref] = NoPid]
      BY <2>3 DEF IdleExit, Gone
    <3>2. worker[q].ref \in Refs
      BY <3>1 DEF Up, TypeInv, TypeOK, Worker
    <3>3. sock[worker[q].ref] = q
      BY <3>1 DEF ReachInv, Loose
    <3>4. worker'[q] = NoWorker /\ SoftWorld
      BY <3>1, <3>2 DEF SoftWorld, TypeInv, TypeOK
    <3> QED BY <3>1, <3>2, <3>3, <3>4, OneTidy
  <2>4. ASSUME NEW r \in Refs, SocketLost(r) \/ Republish(r) PROVE Tidy
    BY <2>4, SameTidy DEF SocketLost, Republish, NoSocketLost
  <2> QED BY <1>3, <2>1, <2>2, <2>3, <2>4 DEF Environment
<1>4. CASE UNCHANGED vars
  BY <1>4, SameTidy DEF vars
<1> QED BY <1>1, <1>2, <1>3, <1>4 DEF Next

LEMMA OnFileType ==
  ASSUME TypeInv, NEW r \in Refs, NEW e \in OnFile(r)
  PROVE  e \in Entry /\ e.pid \in Pids
BY SaidType DEF Said

LEMMA SoftFile ==
  ASSUME Before, ReachInv, Faithful, NEW r \in Refs, NEW e \in OnFile(r)'
  PROVE  \E f \in OnFile(r) : Same(e, f)
<1>1. CASE e = mirror'[r] /\ mirror'[r] # NoEntry
  BY <1>1 DEF Faithful, MirrorFollows, OnFile
<1>2. CASE e = entries'[r] /\ entries'[r] # NoEntry
  BY <1>2 DEF Faithful, EntriesFollow, OnFile
<1> QED BY <1>1, <1>2 DEF OnFile

LEMMA SoftPaths ==
  ASSUME Before, ReachInv, Soft, Faithful, Tidy
  PROVE  PathsHold'
<1> USE DEF Before, Soft
<1> SUFFICES ASSUME NEW r \in Refs
             PROVE  /\ \A e \in OnFile(r)' : Up(e.pid)' => sock'[r] = e.pid
                    /\ entries'[r] # NoEntry /\ Up(sock[r])' =>
                         sock'[r] = entries'[r].pid
  BY DEF PathsHold
<1>1. ASSUME NEW e \in OnFile(r)', Up(e.pid)' PROVE sock'[r] = e.pid
  <2>1. PICK f \in OnFile(r) : Same(e, f)
    BY SoftFile
  <2>2. f.pid \in Pids /\ e.pid = f.pid
    BY <2>1, OnFileType DEF Same
  <2>3. Up(f.pid) /\ worker'[f.pid] # NoWorker
    BY <1>1, <2>2, SoftUp DEF Up
  <2>4. sock[r] = f.pid
    BY <2>3 DEF ReachInv, PathsHold
  <2> QED BY <2>2, <2>3, <2>4 DEF Tidy
<1>2. ASSUME entries'[r] # NoEntry, Up(sock[r])'
      PROVE  sock'[r] = entries'[r].pid
  <2>1. sock'[r] = sock[r] /\ Up(sock[r])
    BY <1>2, SoftUp
  <2>2. CASE entries[r] # NoEntry /\ Same(entries'[r], entries[r])
    BY <2>1, <2>2 DEF ReachInv, PathsHold, Same
  <2>3. CASE /\ mirror[r] # NoEntry /\ IsAlive(r, mirror[r])
             /\ Same(entries'[r], mirror[r])
    BY <2>1, <2>3 DEF ReachInv, PathsHold, OnFile, Same, IsAlive
  <2> QED BY <1>2, <2>2, <2>3 DEF Faithful, EntriesFollow
<1> QED BY <1>1, <1>2

LEMMA SoftLoose ==
  ASSUME Before, ReachInv, Soft, Tidy
  PROVE  Loose'
<1> USE DEF Before, Soft
<1> SUFFICES ASSUME NEW q \in Pids, Up(q)'
             PROVE  \/ sock'[worker'[q].ref] = q
                    \/ \E t \in Threads : Benching(t)' /\ conn'[t] = q
  BY DEF Loose
<1>1. Up(q) /\ worker'[q].ref = worker[q].ref /\ worker'[q] # NoWorker
  BY SoftUp DEF Up
<1>2. worker[q].ref \in Refs
  BY <1>1 DEF Up, TypeInv, TypeOK, Worker
<1>3. CASE sock[worker[q].ref] = q
  BY <1>1, <1>2, <1>3 DEF Tidy
<1>4. ASSUME NEW t \in Threads, Benching(t), conn[t] = q
      PROVE  Benching(t)' /\ conn'[t] = q
  BY <1>1, <1>4 DEF SoftCalls
<1> QED BY <1>1, <1>3, <1>4 DEF ReachInv, Loose

LEMMA SoftShown ==
  ASSUME Before, ReachInv, Soft, Faithful
  PROVE  Shown'
<1> USE DEF Before, Soft
<1> SUFFICES ASSUME NEW r \in Refs, Up(sock[r])', Minded(r)', ~Loading(r)'
             PROVE  /\ mirror'[r] # NoEntry /\ mirror'[r].pid = sock'[r]
                    /\ lock' # NoThread => entries'[r] # NoEntry
  BY DEF Shown
<1>1. sock'[r] = sock[r] /\ Up(sock[r]) /\ sock'[r] # NoPid
  BY SoftUp DEF Up
<1>2. Minded(r)
  BY DEF Minded, Claimed, SoftCalls
<1>3. ~Loading(r)
  <2>1. ~(~Claimed(r)' /\ "process" \in Faults)
    BY DEF Minded
  <2> QED BY <2>1, SoftLoading
<1>4. /\ mirror[r] # NoEntry /\ mirror[r].pid = sock[r]
      /\ lock # NoThread => entries[r] # NoEntry
  BY <1>1, <1>2, <1>3 DEF ReachInv, Shown
<1>5. IsAlive(r, mirror[r])
  BY <1>1, <1>4 DEF IsAlive
<1>6. mirror'[r] # NoEntry /\ (lock' # NoThread => entries'[r] # NoEntry)
  BY <1>1, <1>4, <1>5 DEF Faithful, Keeps
<1>7. entries[r] # NoEntry => entries[r].pid = mirror[r].pid
  BY <1>4, FileSaid DEF ReachInv, Agree, Same
<1>8. mirror'[r].pid = sock'[r]
  BY <1>1, <1>4, <1>6, <1>7 DEF Faithful, MirrorFollows, Same
<1> QED BY <1>6, <1>8

LEMMA SoftReapedDead ==
  ASSUME Before, ReachInv, Soft
  PROVE  ReapedDead'
<1> USE DEF Before, Soft
<1> SUFFICES ASSUME NEW t \in Threads, NEW r \in Refs, Up(reaped[t][r])'
             PROVE  FALSE
  BY DEF ReapedDead
<1>1. reaped'[t][r] # NoPid
  BY DEF Up
<1>2. CASE reaped'[t][r] = reaped[t][r]
  <2>1. reaped[t][r] \in Pids \cup {NoPid}
    BY DEF TypeInv, TypeOK
  <2>2. Up(reaped[t][r])
    BY <1>2, <2>1, SoftUp DEF Up
  <2> QED BY <2>2 DEF ReachInv, ReapedDead
<1>3. CASE r \in Stale /\ reaped'[t][r] = mirror[r].pid
  <2>1. mirror[r] # NoEntry /\ mirror[r].pid \in Pids /\ ~IsAlive(r, mirror[r])
    BY <1>3, FileSaid, SaidType DEF Stale
  <2>2. Up(mirror[r].pid)
    BY <1>3, <2>1, SoftUp DEF Up
  <2>3. sock[r] = mirror[r].pid
    BY <2>1, <2>2 DEF ReachInv, PathsHold, OnFile
  <2> QED BY <2>1, <2>2, <2>3 DEF IsAlive, Up
<1> QED BY <1>1, <1>2, <1>3 DEF SoftReaped

LEMMA SoftReach ==
  ASSUME Before, ReachInv, Soft, Faithful, Tidy, Agree'
  PROVE  ReachInv'
<1>1. SockWanted'
  BY DEF ReachInv, SockWanted, Soft, SoftWorld
<1> QED BY <1>1, SoftBinds, SoftPaths, SoftLoose, SoftShown, SoftReapedDead
        DEF ReachInv

(* Who starts a resident of a variant takes nobody's path.                 *)
LEMMA SpawnPath ==
  ASSUME Before, ReachInv, NEW t \in Threads, NEW q \in Pids, Begets(t, q),
         req[t].op = "run"
  PROVE  /\ req[t].ref \in Refs /\ req[t].ref \in Wants[t]
         /\ ~Up(sock[req[t].ref])
<1>1. req[t].ref \in Refs /\ pc[t] = "evict" /\ entries[req[t].ref] = NoEntry
  BY DEF Begets, Request
<1>2. req[t].ref \in Wants[t] /\ ProcOf[t] \in alive
  BY <1>1 DEF Before, SparedInv, Wanted, Running, InTurn, Living
<1>3. Minded(req[t].ref)
  BY <1>2 DEF Minded, Claimed
<1>4. lock # NoThread
  BY <1>1, SupervisorAssumption DEF Before, LockExclusive
<1> QED BY <1>1, <1>2, <1>3, <1>4, SpawnAlone DEF ReachInv, Shown

LEMMA SpawnReach ==
  ASSUME Before, ReachInv, NEW t \in Threads, NEW q \in Pids, Begets(t, q), Agree'
  PROVE  ReachInv'
<1> DEFINE own(r) == req[t].op = "run" /\ r = req[t].ref
<1> USE DEF Before
<1>1. /\ UNCHANGED <<alive, mirror, entries, lock, req, reaped>>
      /\ \A r \in Refs : OnFile(r)' = OnFile(r)
  BY DEF Begets, shared, OnFile
<1>2. \A r \in Refs : /\ own(r) => sock'[r] = q /\ ~Up(sock[r])
                      /\ ~own(r) => sock'[r] = sock[r]
  BY SpawnPath DEF Begets
<1>3. \A s \in Pids \cup {NoPid} : s # q => (Up(s)' <=> Up(s))
  BY SpawnSaid
<1>4. \A r \in Refs : sock[r] \in Pids \cup {NoPid} /\ sock[r] # q
  BY DEF Begets, Named, TypeInv, TypeOK
<1>5. \A r \in Refs : ~own(r) => (Up(sock[r])' <=> Up(sock[r]))
  BY <1>2, <1>3, <1>4 DEF Up
<1>6. PathsHold'
  <2> SUFFICES ASSUME NEW r \in Refs
               PROVE  /\ \A e \in OnFile(r) : Up(e.pid)' => sock'[r] = e.pid
                      /\ entries[r] # NoEntry /\ Up(sock[r])' =>
                           sock'[r] = entries[r].pid
    BY <1>1 DEF PathsHold
  <2>1. ASSUME NEW e \in OnFile(r), Up(e.pid)' PROVE sock'[r] = e.pid
    <3>1. e.pid \in Pids /\ e.pid # q
      BY OnFileType, SpawnSaid DEF Said
    <3>2. Up(e.pid)
      BY <1>3, <2>1, <3>1 DEF Up
    <3>3. sock[r] = e.pid
      BY <3>2 DEF ReachInv, PathsHold
    <3> QED BY <1>2, <3>2, <3>3
  <2>2. ASSUME entries[r] # NoEntry, Up(sock[r])' PROVE sock'[r] = entries[r].pid
    <3>1. ~own(r)
      BY <2>2 DEF Begets
    <3> QED BY <1>2, <1>5, <2>2, <3>1 DEF ReachInv, PathsHold
  <2> QED BY <2>1, <2>2
<1>7. Loose'
  <2> SUFFICES ASSUME NEW s \in Pids, Up(s)'
               PROVE  \/ sock'[worker'[s].ref] = s
                      \/ \E u \in Threads : Benching(u)' /\ conn'[u] = s
    BY DEF Loose
  <2>1. CASE s = q
    BY <2>1 DEF Begets, Benching, Attached, shared, handles
  <2>2. CASE s # q
    <3>1. Up(s) /\ worker'[s] = worker[s]
      BY <1>3, <2>2 DEF Begets
    <3>2. worker[s].ref \in Refs
      BY <3>1 DEF Up, TypeInv, TypeOK, Worker
    <3>3. CASE sock[worker[s].ref] = s
      BY <1>2, <3>1, <3>2, <3>3
    <3>4. ASSUME NEW u \in Threads, Benching(u), conn[u] = s
          PROVE  Benching(u)' /\ conn'[u] = s
      BY <3>4 DEF Begets, Benching, Attached
    <3> QED BY <3>1, <3>3, <3>4 DEF ReachInv, Loose
  <2> QED BY <2>1, <2>2
<1>8. Shown'
  <2> SUFFICES ASSUME NEW r \in Refs, Up(sock[r])', Minded(r), ~Loading(r)'
               PROVE  /\ mirror[r] # NoEntry /\ mirror[r].pid = sock'[r]
                      /\ lock # NoThread => entries[r] # NoEntry
    BY <1>1 DEF Shown, Minded, Claimed
  <2>1. ~own(r) /\ ~Loading(r)
    BY SpawnAlone DEF Loading
  <2> QED BY <1>2, <1>5, <2>1 DEF ReachInv, Shown
<1>9. LoadBinds'
  BY SpawnAlone DEF LoadBinds, Begets
<1>10. SockWanted'
  <2> SUFFICES ASSUME NEW r \in Refs, sock'[r] # NoPid
               PROVE  \E u \in Threads : r \in Wants[u]
    BY DEF SockWanted
  <2>1. CASE own(r)
    BY <2>1, SpawnPath
  <2>2. CASE ~own(r)
    BY <1>2, <2>2 DEF ReachInv, SockWanted
  <2> QED BY <2>1, <2>2
<1>11. ReapedDead'
  <2> SUFFICES ASSUME NEW u \in Threads, NEW r \in Refs PROVE ~Up(reaped[u][r])'
    BY DEF ReapedDead
  <2>1. reaped[u][r] \in Pids \cup {NoPid} /\ reaped[u][r] # q
    BY DEF Begets, Named, TypeInv, TypeOK
  <2>2. ~Up(reaped[u][r])
    BY DEF ReachInv, ReapedDead
  <2> QED BY <1>1, <1>3, <2>1, <2>2 DEF Up
<1> QED BY <1>6, <1>7, <1>8, <1>9, <1>10, <1>11 DEF ReachInv

(* The worker that is lent is the one that listens. *)
LEMMA HandsPath ==
  ASSUME Before, ReachInv, NEW t \in Threads, NEW f \in Entry, NEW q \in Pids,
         Hands(t, f, q)
  PROVE  /\ req[t].ref \in Refs
         /\ sock[req[t].ref] = q /\ f.pid = q
<1>1. req[t].ref \in Refs
  BY DEF Hands, Request
<1>2. CASE Loads(t, req[t].ref) /\ q = conn[t] /\ f.pid = q
  <2>1. Attached(t) /\ req[t].op = "run" /\ Up(conn[t])
    BY <1>2 DEF Loads, Attached, Hands
  <2> QED BY <1>1, <1>2, <2>1, LinkedPath DEF ReachInv
<1>3. CASE /\ q = sock[req[t].ref]
           /\ entries[req[t].ref] # NoEntry /\ Same(f, entries[req[t].ref])
  BY <1>1, <1>3 DEF ReachInv, PathsHold, Same, Hands
<1> QED BY <1>2, <1>3 DEF Hands

LEMMA HandsReach ==
  ASSUME Before, ReachInv, NEW t \in Threads, NEW f \in Entry, NEW q \in Pids,
         Hands(t, f, q), Agree'
  PROVE  ReachInv'
<1> DEFINE o == req[t].ref
<1> USE DEF Before
<1>1. /\ UNCHANGED <<alive, worker, sock, req, reaped>>
      /\ \A s : Up(s)' <=> Up(s)
  BY DEF Hands, Up
<1>2. \A r \in Refs : entries'[r] = NoEntry
  BY DEF Hands, Nobody
<1>3. lock # NoThread /\ lock' = NoThread
  BY SupervisorAssumption DEF Hands
<1>4. \A r \in Refs : mirror'[r] # NoEntry =>
        \/ r = o /\ mirror'[r].pid = sock[r]
        \/ r # o /\ entries[r] # NoEntry /\ mirror'[r].pid = entries[r].pid
  BY HandsPath DEF Hands, Same
<1>5. PathsHold'
  <2> SUFFICES ASSUME NEW r \in Refs, NEW e \in OnFile(r)', Up(e.pid)
               PROVE  sock[r] = e.pid
    BY <1>1, <1>2 DEF PathsHold
  <2>1. e = mirror'[r] /\ mirror'[r] # NoEntry
    BY <1>2 DEF OnFile
  <2>2. ASSUME entries[r] # NoEntry, e.pid = entries[r].pid
        PROVE  sock[r] = entries[r].pid
    BY <2>2 DEF ReachInv, PathsHold, OnFile
  <2> QED BY <1>4, <2>1, <2>2
<1>6. Loose'
  <2> SUFFICES ASSUME NEW s \in Pids, Up(s)
               PROVE  \/ sock[worker[s].ref] = s
                      \/ \E u \in Threads : Benching(u)' /\ conn'[u] = s
    BY <1>1 DEF Loose
  <2>1. ASSUME NEW u \in Threads, Benching(u), conn[u] = s
        PROVE  Benching(u)' /\ conn'[u] = s
    BY <1>1, <2>1 DEF Hands, Benching, Attached
  <2> QED BY <2>1 DEF ReachInv, Loose
<1>7. Shown'
  <2> SUFFICES ASSUME NEW r \in Refs, Up(sock[r]), Minded(r)
               PROVE  mirror'[r] # NoEntry /\ mirror'[r].pid = sock[r]
    BY <1>1, <1>3 DEF Shown, Minded, Claimed
  <2>1. CASE r = o
    BY <1>4, <2>1 DEF Hands
  <2>2. CASE r # o
    <3>1. ~Loading(r)
      BY <2>2, HandsAlone DEF Loading
    <3>2. entries[r] # NoEntry /\ sock[r] = entries[r].pid
      BY <1>3, <3>1 DEF ReachInv, Shown, PathsHold
    <3> QED BY <1>4, <2>2, <3>2 DEF Hands
  <2> QED BY <2>1, <2>2
<1>8. LoadBinds'
  BY HandsAlone DEF LoadBinds
<1>9. SockWanted' /\ ReapedDead'
  BY <1>1 DEF ReachInv, SockWanted, ReapedDead
<1> QED BY <1>5, <1>6, <1>7, <1>8, <1>9 DEF ReachInv

LEMMA InitReach == Init => ReachInv
<1>1. Init => PathsHold /\ Loose /\ Shown /\ SockWanted /\ ReapedDead /\ LoadBinds
  BY DEF Init, PathsHold, Loose, Shown, SockWanted, ReapedDead, LoadBinds, Loads,
         OnFile, Nobody, NotReaped, Up
<1> QED BY <1>1, InitAgree DEF ReachInv

LEMMA NextReach ==
  ASSUME NoSocketLost, Before, ReachInv, [Next]_vars PROVE ReachInv'
<1>1. Agree'
  BY NextAgree DEF ReachInv
<1>2. CASE \E t \in Threads : Lends(t)
  BY <1>1, <1>2, LendsHands, HandsReach DEF ReachInv
<1>3. CASE \E t \in Threads : Spawn(t)
  BY <1>1, <1>3, SpawnBegets, SpawnReach DEF Before
<1>4. CASE Soft /\ Faithful /\ Tidy
  BY <1>1, <1>4, SoftReach
<1> QED BY <1>2, <1>3, <1>4, SoftNext, FaithfulNext, TidyNext
        DEF Before, ReachInv

(* What the theorems below are proved from. *)
PathInv == TypeInv /\ LockExclusive /\ TurnInv /\ SparedInv /\ ReachInv

LEMMA InitPath == Init => PathInv
BY InitTypeInv, InitLock, InitTurn, InitSpared, InitReach DEF PathInv

LEMMA NextPath ==
  ASSUME NothingShared, NoSocketLost, PathInv, [Next]_vars
  PROVE  Before /\ PathInv'
<1>1. TypeInv' /\ LockExclusive' /\ TurnInv'
  BY NextTypeInv, NextLock, NextTurn DEF PathInv
<1>2. Before
  BY <1>1 DEF Before, PathInv
<1> QED BY <1>1, <1>2, NextSpared, NextReach DEF PathInv

LEMMA ShownJobs ==
  ASSUME NothingShared, PathInv, NEW t \in Threads,
         lock = NoThread, pc[t] = "job", req[t].op = "run", Up(conn[t]),
         ProcOf[t] \notin closing
  PROVE  LET r == req[t].ref
         IN  /\ mirror[r] # NoEntry /\ mirror[r].pid = conn[t]
             /\ mirror[r].busy = ProcOf[t]
<1> DEFINE r == req[t].ref
<1> USE DEF PathInv
<1>1. /\ r \in Refs /\ worker[conn[t]].ref = r /\ conn[t] \in Pids
  BY DEF SparedInv, Linked, Attached, TypeInv, Calling, Request
<1>2. ~\E u \in Threads : Benching(u) /\ conn[u] = conn[t]
  BY DEF SparedInv, Linked, Benching, Attached
<1>3. sock[r] = conn[t]
  BY <1>1, <1>2 DEF ReachInv, Loose
<1>4. r \in Wants[t] /\ ProcOf[t] \in alive
  BY DEF SparedInv, Wanted, Running, InTurn, Living
<1>5. Minded(r)
  BY <1>4 DEF Minded, Claimed
<1>6. ~Loading(r)
  BY SupervisorAssumption DEF LockExclusive, Loading, Loads
<1>7. mirror[r] # NoEntry /\ mirror[r].pid = conn[t]
  BY <1>1, <1>3, <1>5, <1>6 DEF ReachInv, Shown
<1>8. InJob(t)
  BY DEF InJob
<1>9. mirror[r].busy = ProcOf[t]
  BY <1>1, <1>7, <1>8 DEF SparedInv, TablesGood, Good
<1> QED BY <1>7, <1>9

(* Every program that takes the lock finds in the mirror, busy with a      *)
(* living process, the worker of every job that runs anywhere: no decision *)
(* is made on a file that forgot one, whoever dies or is killed meanwhile. *)
THEOREM JobsAreInTheMirror ==
  ASSUME NothingShared, NoSocketLost
  PROVE  Spec => []MirrorShowsJobs
<1>1. PathInv => MirrorShowsJobs
  BY ShownJobs DEF MirrorShowsJobs
<1>2. PathInv /\ [Next]_vars => PathInv'
  BY NextPath
<1> QED BY <1>1, <1>2, InitPath, PTL DEF Spec

(* Who is up is recorded or connected, unless nobody that lives wants it.  *)
LEMMA FoundOrLost ==
  ASSUME PathInv, NEW q \in Pids, Up(q)
  PROVE  \/ Recorded(q) \/ Connected(q)
         \/ /\ "process" \in Faults
            /\ \E t \in Threads : pc[t] = "gone" /\ worker[q].ref \in Wants[t]
<1> DEFINE r == worker[q].ref
<1> USE DEF PathInv
<1>1. r \in Refs /\ q # NoPid
  BY DEF Up, TypeInv, TypeOK, Worker
<1>2. CASE \E t \in Threads : Benching(t) /\ conn[t] = q
  BY <1>2 DEF Connected
<1>3. CASE sock[r] = q
  <2>1. CASE Loading(r)
    <3>1. PICK t \in Threads : Loads(t, r)
      BY <2>1 DEF Loading
    <3>2. conn[t] = q
      BY <1>1, <1>3, <3>1 DEF ReachInv, LoadBinds
    <3> QED BY <3>2 DEF Connected
  <2>2. CASE ~Loading(r) /\ Minded(r)
    <3>1. /\ mirror[r] # NoEntry /\ mirror[r].pid = q
          /\ lock # NoThread => entries[r] # NoEntry
      BY <1>1, <1>3, <2>2 DEF ReachInv, Shown
    <3>2. entries[r] # NoEntry => entries[r].pid = q
      BY <1>1, <1>3 DEF ReachInv, PathsHold
    <3>3. File[r] # NoEntry /\ File[r].pid = q
      BY <3>1, <3>2 DEF File
    <3> QED BY <1>1, <3>3 DEF Recorded
  <2>3. CASE ~Minded(r)
    <3>1. "process" \in Faults /\ ~Claimed(r)
      BY <2>3 DEF Minded
    <3>2. PICK t \in Threads : r \in Wants[t]
      BY <1>1, <1>3 DEF ReachInv, SockWanted
    <3>3. pc[t] = "gone"
      BY <3>1, <3>2 DEF Claimed, SparedInv, Living
    <3> QED BY <3>1, <3>2, <3>3
  <2> QED BY <2>1, <2>2, <2>3
<1> QED BY <1>2, <1>3 DEF ReachInv, Loose

(* A worker that no table records and nobody is connected to is one that a *)
(* program was loading when it was killed: evictions, failed loads, deaths *)
(* and benches leave none behind.                                          *)
THEOREM OnlyKillsLeak ==
  ASSUME NothingShared, NoSocketLost
  PROVE  Spec => []OnlyTheKilledLeak
<1>1. PathInv => OnlyTheKilledLeak
  BY FoundOrLost DEF OnlyTheKilledLeak, Killed
<1>2. PathInv /\ [Next]_vars => PathInv'
  BY NextPath
<1> QED BY <1>1, <1>2, InitPath, PTL DEF Spec

-----------------------------------------------------------------------------
(* Without kills and without benches, none escapes and none is doubled.    *)

NobodyKilled == "process" \notin Faults
NoBench == \A t \in Threads : "bench" \notin Duties[t]
Unbenched == \A t \in Threads : req[t] \in Request => req[t].op # "bench"

(* A call is made by the thread that wants it, or ends. *)
Calls(t) ==
  \/ req'[t] \in {req[t], NoReq}
  \/ req'[t].op = "unload"
  \/ req'[t].op = "bench" /\ "bench" \in Duties[t]
  \/ /\ req'[t].op = "run" /\ req'[t].ref \in Wants[t]
     /\ req'[t].peak \in Demands[req'[t].ref]

LEMMA NextCalls ==
  ASSUME TypeInv, [Next]_vars
  PROVE  \A t \in Threads : Calls(t)
<1> USE DEF shared, handles, world, local, TypeInv, TypeOK
<1>1. ASSUME NEW t \in Threads, Begin(t) PROVE \A u \in Threads : Calls(u)
  <2>1. CASE AskBench(t)
    <3>1. \E c : c.op = "bench" /\ req' = [req EXCEPT ![t] = c]
      BY <2>1 DEF AskBench
    <3>2. "bench" \in Duties[t]
      BY <2>1 DEF AskBench, Runs
    <3> QED BY <3>1, <3>2 DEF Calls
  <2>2. CASE Ask(t)
    <3>1. \E c : /\ c.op = "run" /\ c.ref \in Wants[t] /\ c.peak \in Demands[c.ref]
                 /\ req' = [req EXCEPT ![t] = c]
      BY <2>2 DEF Ask
    <3> QED BY <3>1 DEF Calls
  <2>3. ASSUME NEW r, NEW force, Unload(t, r, force)
        PROVE  req' = req \/ req' = [req EXCEPT ![t] = UnloadCall(r, force)]
    BY <2>3, Zenon DEF Unload
  <2>4. ASSUME NEW force, UnloadAll(t, force)
        PROVE  \/ req' = req
               \/ \E r \in Refs : req' = [req EXCEPT ![t] = UnloadCall(r, force)]
    BY <2>4 DEF UnloadAll
  <2>5. \A r, force : UnloadCall(r, force).op = "unload"
    BY DEF UnloadCall
  <2>6. CASE \/ \E r \in Wants[t], force \in BOOLEAN : Unload(t, r, force)
             \/ \E force \in BOOLEAN : UnloadAll(t, force)
    <3>1. req' = req \/ \E c : c.op = "unload" /\ req' = [req EXCEPT ![t] = c]
      BY <2>3, <2>4, <2>5, <2>6
    <3> QED BY <3>1 DEF Calls
  <2>7. CASE PruneRead(t)
    BY <2>7 DEF PruneRead, Calls
  <2> QED BY <1>1, <2>1, <2>2, <2>6, <2>7 DEF Begin
<1>2. ASSUME NEW t \in Threads, Step(t)
      PROVE  \A u \in Threads : req'[u] \in {req[u], NoReq}
  <2>1. req' = req \/ req' = [req EXCEPT ![t] = NoReq]
           \/ req' = [req EXCEPT ![t] = req[t]]
    BY <1>2
    DEF Step, Turn, Enter, GiveUp, Leave, Transact, Admit, Refuse, Attach,
        EvictVictim, EvictOther, Reconnect, Spawn, LoadEnds, Loaded, LoadedBench,
        LoadFails, JobEnds, EndJob, EndBench, Free, Publish, EndUnload, PruneKill,
        PruneSync
  <2> QED BY <2>1
<1>3. CASE Environment
  BY <1>3
  DEF Environment, ReadTable, Crash, Close, EndClose, Exit, WorkerDies, IdleExit,
      SocketLost, Republish, Calls
<1>4. CASE UNCHANGED vars
  BY <1>4 DEF vars, Calls
<1> QED BY <1>1, <1>2, <1>3, <1>4 DEF Next, Calls

LEMMA NextUnbenched ==
  ASSUME NoBench, TypeInv, Unbenched, [Next]_vars
  PROVE  Unbenched'
BY NextCalls, NullAssumption DEF NoBench, Unbenched, Calls

(* Where nobody is killed and the bench is not used, every worker that     *)
(* runs is in the file or in a thread's hands, and no variant is loaded    *)
(* twice, for any number of programs that share no variant.                *)
THEOREM NothingIsLoadedTwice ==
  ASSUME NothingShared, NoSocketLost, NobodyKilled, NoBench
  PROVE  Spec => []LoadedOnce
<1> DEFINE Inv == PathInv /\ Unbenched
<1>1. Init => Inv
  BY InitPath, NullAssumption DEF Init, Unbenched
<1>2. Inv /\ [Next]_vars => Inv'
  BY NextPath, NextUnbenched DEF PathInv
<1>3. Inv => LoadedOnce
  <2> SUFFICES ASSUME Inv PROVE LoadedOnce
    OBVIOUS
  <2>1. NoLeak
    BY FoundOrLost DEF NoLeak, NobodyKilled
  <2>2. \A t \in Threads : ~Benching(t)
    BY DEF Benching, Attached, Unbenched, PathInv, TypeInv, Calling
  <2>3. \A q \in Pids : Up(q) => sock[worker[q].ref] = q
    BY <2>2 DEF PathInv, ReachInv, Loose
  <2> QED BY <2>1, <2>3 DEF LoadedOnce
<1> QED BY <1>1, <1>2, <1>3, PTL DEF Spec

-----------------------------------------------------------------------------
(* The memory of the machine, counted by what the profiles say: what runs  *)
(* holds together, and so does what an open transaction will leave and the *)
(* model it makes room for.                                                *)

(* A weight of the variants: what a worker of one reports, and all it      *)
(* holds while it runs, is within it, and it is within the measured        *)
(* profile and within what any demand asks for. The profile is such a      *)
(* weight where an input only adds to it; where a profile has a slope, and *)
(* prices a small job below the measured peak (models.py:195-220), what a  *)
(* loaded worker holds may be one.                                         *)
Weighs(W) ==
  /\ W \in [Refs -> Nat]
  /\ \A r \in Refs : /\ \A m \in Reported[r] : m <= W[r]
                     /\ W[r] <= Profile[r]
                     /\ \A d \in Demands[r] \ {NoPeak} : W[r] <= d

(* The policy lets at least one heavy model in: overcommit does not ask.   *)
SomeHeavy == MaxHeavy >= 1

Live == {r \in Refs : Up(sock[r])}
HeavyIn(W, C) == {r \in C : W[r] > HeavyThreshold}
Holds(W, C) ==
  \/ \A r, q \in C : r = q
  \/ SumBy(W, C) <= Budget /\ Cardinality(HeavyIn(W, C)) <= MaxHeavy

MemTrue(W) == \A q \in Pids : Up(q) => worker[q].mem <= W[worker[q].ref]
PeaksTrue(W) == \A r \in Refs : \A e \in Said(r) : W[r] <= e.peak
Sized(W) ==
  \A t \in Threads : req[t] \in Request /\ req[t].op = "run" =>
    req[t].peak = NoPeak \/ W[req[t].ref] <= req[t].peak
MakesRoom(t) == pc[t] = "evict" /\ req[t].op = "run"
RoomKept(W) ==
  /\ Holds(W, Live)
  /\ \A t \in Threads : MakesRoom(t) => Holds(W, (Live \ victims) \cup {req[t].ref})

RoomInv(W) == MemTrue(W) /\ PeaksTrue(W) /\ Sized(W) /\ RoomKept(W)

LEMMA RefsFinite ==
  ASSUME NEW W, Weighs(W), NEW C, C \subseteq Refs
  PROVE  IsFiniteSet(C) /\ \A r \in C : W[r] \in Nat
BY FS_Subset, SupervisorAssumption DEF Weighs

LEMMA HoldsLess ==
  ASSUME NEW W, Weighs(W), NEW C, C \subseteq Refs, Holds(W, C), NEW D,
         D \subseteq C
  PROVE  Holds(W, D)
<1>1. CASE \A r, q \in C : r = q
  BY <1>1 DEF Holds
<1>2. CASE SumBy(W, C) <= Budget /\ Cardinality(HeavyIn(W, C)) <= MaxHeavy
  <2>1. IsFiniteSet(C) /\ IsFiniteSet(D) /\ \A r \in C : W[r] \in Nat
    BY RefsFinite
  <2>2. SumBy(W, D) <= SumBy(W, C)
    BY <2>1, SumGrows
  <2>3. SumBy(W, D) \in Nat /\ SumBy(W, C) \in Nat
    BY <2>1, SumNat
  <2>4. HeavyIn(W, D) \subseteq HeavyIn(W, C) /\ IsFiniteSet(HeavyIn(W, C))
    BY <2>1, FS_Subset DEF HeavyIn
  <2>5. /\ Cardinality(HeavyIn(W, D)) <= Cardinality(HeavyIn(W, C))
        /\ Cardinality(HeavyIn(W, D)) \in Nat /\ Cardinality(HeavyIn(W, C)) \in Nat
    BY <2>4, FS_Subset, FS_CardinalityType
  <2>6. SumBy(W, D) <= Budget /\ Cardinality(HeavyIn(W, D)) <= MaxHeavy
    BY <1>2, <2>2, <2>3, <2>5, PolicyAssumption
  <2> QED BY <2>6 DEF Holds
<1> QED BY <1>1, <1>2 DEF Holds

(* Alone or not, no more heavy models than allowed. *)
LEMMA HeavyHolds ==
  ASSUME NEW W, Weighs(W), SomeHeavy, NEW C, C \subseteq Refs, Holds(W, C)
  PROVE  Cardinality(HeavyIn(W, C)) <= MaxHeavy
<1>1. CASE \A r, q \in C : r = q
  <2>1. PICK r : HeavyIn(W, C) \subseteq {r}
    <3>1. CASE C = {}
      BY <3>1 DEF HeavyIn
    <3>2. CASE C # {}
      <4>1. PICK r \in C : TRUE
        BY <3>2
      <4>2. HeavyIn(W, C) \subseteq {r}
        BY <1>1, <4>1 DEF HeavyIn
      <4> QED BY <4>2
    <3> QED BY <3>1, <3>2
  <2>2. IsFiniteSet({r}) /\ Cardinality({r}) = 1
    BY FS_Singleton
  <2>3. Cardinality(HeavyIn(W, C)) <= 1 /\ Cardinality(HeavyIn(W, C)) \in Nat
    BY <2>1, <2>2, FS_Subset, FS_CardinalityType
  <2> QED BY <2>3, PolicyAssumption DEF SomeHeavy
<1> QED BY <1>1 DEF Holds

(* The candidate fits where the decision made room for it.                 *)
LEMMA RoomHolds ==
  ASSUME NEW W, Weighs(W), SomeHeavy, NEW C, C \subseteq Refs, Holds(W, C),
         NEW ref \in Refs, ref \notin C,
         NEW peak \in Nat, W[ref] <= peak, NEW gone,
         NEW park1, DOMAIN park1 = C,
         \A r \in C : park1[r].peak \in Nat /\ W[r] <= park1[r].peak,
         Room(peak, park1, gone)
  PROVE  Holds(W, (C \ gone) \cup {ref})
<1> DEFINE D == C \ gone
           A == D \cup {ref}
<1>1. CASE C \subseteq gone
  BY <1>1 DEF Holds
<1>2. CASE Fits(peak, park1, gone) /\ HeavyRuleHolds(peak, park1, gone)
  <2>1. /\ IsFiniteSet(D) /\ IsFiniteSet(A) /\ IsFiniteSet(C)
        /\ \A r \in A : W[r] \in Nat
    BY RefsFinite
  <2>2. SumBy(W, A) <= Budget
    <3>1. SumBy(W, D) <= Occupied(park1, D) /\ Occupied(park1, D) \in Nat
      <4> DEFINE w == [r \in D |-> park1[r].peak]
                 id == [r \in D |-> r]
      <4>1. \A r \in D : /\ w[r] = park1[r].peak /\ w[id[r]] \in Nat /\ W[r] \in Nat
                         /\ W[r] <= w[id[r]] /\ w[r] \in Nat
        BY <2>1
      <4>2. {id[r] : r \in D} = D /\ \A r, q \in D : id[r] = id[q] => r = q
        OBVIOUS
      <4> HIDE DEF w, id, D
      <4>3. Occupied(park1, D) = SumBy(w, D)
        BY <2>1, <4>1, OccupiedIs
      <4>4. SumBy(W, D) <= SumBy(w, {id[r] : r \in D})
        BY <2>1, <4>1, <4>2, SumMaps
      <4>5. SumBy(w, D) \in Nat
        BY <2>1, <4>1, SumNat
      <4> QED BY <4>2, <4>3, <4>4, <4>5
    <3>2. Occupied(park1, D) + peak <= Budget
      BY <1>2 DEF Fits
    <3>3. A \ {ref} = D /\ ref \in A
      OBVIOUS
    <3> HIDE DEF A
    <3>4. SumBy(W, A) = W[ref] + SumBy(W, D)
      BY <2>1, <3>3, SumTake
    <3>5. SumBy(W, D) \in Nat /\ W[ref] \in Nat
      BY <2>1, <3>3, SumNat
    <3> QED BY <3>1, <3>2, <3>4, <3>5, PolicyAssumption
  <2>3. Cardinality(HeavyIn(W, A)) <= MaxHeavy
    <3>1. CASE W[ref] > HeavyThreshold
      <4>1. ~ peak <= HeavyThreshold
        BY <2>1, <3>1, PolicyAssumption
      <4>2. Cardinality(Heavies(park1) \ gone) < MaxHeavy
        BY <1>2, <4>1 DEF HeavyRuleHolds
      <4>3. /\ HeavyIn(W, D) \subseteq Heavies(park1) \ gone
            /\ IsFiniteSet(Heavies(park1) \ gone)
        <5>1. \A r \in C : W[r] \in Nat
          BY RefsFinite
        <5>2. Heavies(park1) \ gone \subseteq C /\ IsFiniteSet(C)
          BY <2>1 DEF Heavies
        <5> QED BY <5>1, <5>2, FS_Subset, PolicyAssumption DEF Heavies, HeavyIn
      <4>4. HeavyIn(W, A) = HeavyIn(W, D) \cup {ref}
        BY <3>1 DEF HeavyIn
      <4>5. IsFiniteSet(HeavyIn(W, D)) /\ ref \notin HeavyIn(W, D)
        BY <2>1, FS_Subset DEF HeavyIn
      <4>6. /\ Cardinality(HeavyIn(W, A)) = Cardinality(HeavyIn(W, D)) + 1
            /\ Cardinality(HeavyIn(W, D)) \in Nat
        BY <4>4, <4>5, FS_AddElement, FS_CardinalityType
      <4>7. /\ Cardinality(HeavyIn(W, D)) <= Cardinality(Heavies(park1) \ gone)
            /\ Cardinality(Heavies(park1) \ gone) \in Nat
        BY <4>3, FS_Subset, FS_CardinalityType
      <4> QED BY <4>2, <4>6, <4>7, PolicyAssumption
    <3>2. CASE ~ W[ref] > HeavyThreshold
      <4>1. HeavyIn(W, A) \subseteq HeavyIn(W, C) /\ IsFiniteSet(HeavyIn(W, C))
        BY <2>1, <3>2, FS_Subset DEF HeavyIn
      <4>2. /\ Cardinality(HeavyIn(W, A)) <= Cardinality(HeavyIn(W, C))
            /\ Cardinality(HeavyIn(W, A)) \in Nat /\ Cardinality(HeavyIn(W, C)) \in Nat
        BY <4>1, FS_Subset, FS_CardinalityType
      <4>3. Cardinality(HeavyIn(W, C)) <= MaxHeavy
        BY HeavyHolds
      <4> QED BY <4>2, <4>3, PolicyAssumption
    <3> QED BY <3>1, <3>2
  <2> QED BY <2>2, <2>3 DEF Holds
<1> QED BY <1>1, <1>2 DEF Room

(* The file a decision reads lists what listens, each with its profile.    *)
LEMMA ParkLive ==
  ASSUME NEW W, Weighs(W), NobodyKilled, PathInv, PeaksTrue(W),
         lock = NoThread, NEW p \in Procs,
         NEW age \in Ages
  PROVE  /\ DOMAIN Park(SyncedFile(p), age) = Live
         /\ \A r \in Live : /\ Park(SyncedFile(p), age)[r].peak \in Nat
                            /\ W[r] <= Park(SyncedFile(p), age)[r].peak
                            /\ Park(SyncedFile(p), age)[r].last \in Nat
<1> USE DEF PathInv
<1>1. ASSUME NEW r \in Refs
      PROVE  /\ SyncedFile(p)[r] # NoEntry <=> r \in Live
             /\ SyncedFile(p)[r] # NoEntry =>
                  SyncedFile(p)[r].peak \in Nat /\ W[r] <= SyncedFile(p)[r].peak
  <2>1. ASSUME SyncedFile(p)[r] # NoEntry
        PROVE  /\ r \in Live
               /\ SyncedFile(p)[r].peak \in Nat /\ W[r] <= SyncedFile(p)[r].peak
    <3>1. /\ mirror[r] # NoEntry /\ IsAlive(r, mirror[r])
          /\ Same(SyncedFile(p)[r], mirror[r])
      BY <2>1, SyncSame DEF TypeInv, ReachInv
    <3>2. mirror[r] \in OnFile(r) /\ mirror[r] \in Said(r)
      BY <3>1 DEF OnFile, Said
    <3>3. Up(sock[r])
      BY <3>1, <3>2 DEF IsAlive, ReachInv, PathsHold
    <3>4. mirror[r].peak \in Nat /\ W[r] <= mirror[r].peak
      BY <3>2, SaidType DEF PeaksTrue, Entry
    <3> QED BY <3>1, <3>3, <3>4 DEF Live, Same
  <2>2. ASSUME r \in Live PROVE SyncedFile(p)[r] # NoEntry
    <3>1. Up(sock[r]) /\ Minded(r)
      BY <2>2 DEF Live, Minded, NobodyKilled
    <3>2. ~Loading(r)
      BY SupervisorAssumption DEF LockExclusive, Loading, Loads
    <3>3. mirror[r] # NoEntry /\ IsAlive(r, mirror[r])
      BY <3>1, <3>2 DEF ReachInv, Shown, IsAlive, Up
    <3> QED BY <3>3, SyncSame DEF TypeInv, ReachInv
  <2> QED BY <2>1, <2>2
<1>2. Live \subseteq Refs
  BY DEF Live
<1>3. DOMAIN Park(SyncedFile(p), age) = Live
  BY <1>1, <1>2 DEF Park
<1>4. ASSUME NEW r \in Live
      PROVE  /\ Park(SyncedFile(p), age)[r].peak \in Nat
             /\ W[r] <= Park(SyncedFile(p), age)[r].peak
             /\ Park(SyncedFile(p), age)[r].last \in Nat
  <2>1. age[r] \in Nat
    <3>1. age[r] \in 0 .. Cardinality(Refs)
      BY <1>2 DEF Ages
    <3>2. Cardinality(Refs) \in Nat
      BY SupervisorAssumption, FS_CardinalityType
    <3> QED BY <3>1, <3>2
  <2> QED BY <1>1, <1>2, <2>1 DEF Park
<1> QED BY <1>3, <1>4

LEMMA AdmitRoom ==
  ASSUME NEW W, Weighs(W), SomeHeavy, NobodyKilled, PathInv, RoomInv(W),
         NEW t \in Threads, Admit(t),
         req[t].op = "run"
  PROVE  Holds(W, (Live \ victims') \cup {req[t].ref})
<1> DEFINE p == ProcOf[t]
           r == req[t].ref
<1>1. /\ pc[t] = "lock" /\ lock = NoThread
      /\ \E age \in Ages : Decision(t, age).admitted /\ victims' = Decision(t, age).evict
  BY DEF Admit, LockFree
<1>2. PICK age \in Ages :
        Decision(t, age).admitted /\ victims' = Decision(t, age).evict
  BY <1>1
<1> DEFINE park1 == Park(SyncedFile(p), age)
<1>3. req[t] \in Request /\ r \in Refs /\ p \in Procs
  BY <1>1, SupervisorAssumption DEF PathInv, TypeInv, Calling, Request
<1>4. /\ DOMAIN park1 = Live /\ Live \subseteq Refs /\ IsFiniteSet(Live)
      /\ \A q \in Live : /\ park1[q].peak \in Nat /\ W[q] <= park1[q].peak
                         /\ park1[q].last \in Nat
  <2>1. Live \subseteq Refs
    BY DEF Live
  <2> QED BY <1>1, <1>3, <2>1, ParkLive, RefsFinite DEF RoomInv
<1>5. Decision(t, age) = Plan(r, req[t].peak, park1, FALSE, req[t].over)
  BY DEF Decision
<1>6. Holds(W, Live)
  BY DEF RoomInv, RoomKept
<1>7. CASE r \in Live
  BY <1>4, <1>6, <1>7, HoldsLess
<1>8. CASE r \notin Live
  <2> HIDE DEF park1
  <2>1. /\ req[t].peak # NoPeak
        /\ Room(req[t].peak, park1, victims')
    <3> DEFINE plan == Plan(r, req[t].peak, park1, FALSE, req[t].over)
    <3>1. plan.admitted /\ victims' = plan.evict
      BY <1>2, <1>5
    <3>2. req[t].over \in BOOLEAN
      BY <1>3 DEF Request
    <3>3. IsFiniteSet(DOMAIN park1) /\ \A q \in DOMAIN park1 : park1[q].last \in Nat
      BY <1>4
    <3>4. req[t].peak # NoPeak /\ Room(req[t].peak, park1, plan.evict)
      BY <1>4, <1>8, <3>1, <3>2, <3>3, PlanMakesRoom
    <3> QED BY <3>1, <3>4
  <2>2. req[t].peak \in Nat /\ W[r] <= req[t].peak
    BY <1>3, <2>1 DEF Request, RoomInv, Sized
  <2> QED BY <1>3, <1>4, <1>6, <1>8, <2>1, <2>2, RoomHolds
<1> QED BY <1>7, <1>8

(* While a transaction makes room, a victim leaves the list when its path  *)
(* goes.                                                                   *)
LEMMA VictimsLeave ==
  ASSUME NobodyKilled, TypeInv, LockExclusive, [Next]_vars, NEW t \in Threads,
         MakesRoom(t)'
  PROVE  \/ Admit(t) /\ req[t].op = "run" /\ req'[t] = req[t] /\ UNCHANGED world
         \/ /\ MakesRoom(t) /\ req'[t] = req[t]
            /\ \A r \in victims : r \in victims' \/ sock'[r] = NoPid
<1> USE SupervisorAssumption DEF shared, handles, world, local
<1> DEFINE Stays == /\ MakesRoom(t) /\ req'[t] = req[t]
                    /\ \A r \in victims : r \in victims' \/ sock'[r] = NoPid
<1>1. ASSUME NEW u \in Threads, Begin(u) PROVE Stays
  <2>1. CASE Ask(u) \/ AskBench(u) \/ PruneRead(u)
    BY <2>1 DEF Ask, AskBench, PruneRead, MakesRoom, TypeInv, TypeOK
  <2>2. ASSUME NEW r \in Wants[u], NEW force \in BOOLEAN, Unload(u, r, force)
        PROVE  Stays
    <3>1. lock = NoThread
      BY <2>2 DEF Unload, LockFree
    <3>2. \/ UNCHANGED <<pc, req>>
          \/ /\ pc' = [pc EXCEPT ![u] = "evict"]
             /\ req' = [req EXCEPT ![u] = UnloadCall(r, force)]
      BY <2>2, Zenon DEF Unload
    <3> QED BY <3>1, <3>2 DEF MakesRoom, LockExclusive, UnloadCall, TypeInv, TypeOK
  <2>3. ASSUME NEW force \in BOOLEAN, UnloadAll(u, force) PROVE Stays
    <3>1. lock = NoThread
      BY <2>3 DEF UnloadAll, LockFree
    <3>2. \/ UNCHANGED <<pc, req>>
          \/ /\ pc' = [pc EXCEPT ![u] = "evict"]
             /\ \E r \in Refs : req' = [req EXCEPT ![u] = UnloadCall(r, force)]
      BY <2>3 DEF UnloadAll
    <3> QED BY <3>1, <3>2 DEF MakesRoom, LockExclusive, UnloadCall, TypeInv, TypeOK
  <2> QED BY <1>1, <2>1, <2>2, <2>3 DEF Begin
<1>2. ASSUME NEW u \in Threads, Step(u)
      PROVE  Stays \/ (Admit(t) /\ req[t].op = "run" /\ req'[t] = req[t] /\ UNCHANGED world)
  <2>1. CASE Admit(u)
    <3>1. u = t
      BY <2>1 DEF Admit, LockFree, MakesRoom, LockExclusive, TypeInv, TypeOK
    <3> QED BY <2>1, <3>1 DEF Admit, MakesRoom
  <2>2. CASE EvictVictim(u)
    <3>1. PICK r \in victims : Evict(u, r) /\ victims' = victims \ {r}
      BY <2>2 DEF EvictVictim
    <3>2. UNCHANGED <<pc, req>>
      BY <2>2 DEF EvictVictim
    <3>3. r \in Refs /\ entries[r] # NoEntry
      BY DEF TypeInv, TypeOK
    <3>4. sock' = [sock EXCEPT ![r] = NoPid]
      BY <3>1, <3>3 DEF Evict
    <3>5. sock'[r] = NoPid
      BY <3>3, <3>4 DEF TypeInv, TypeOK
    <3> QED BY <3>1, <3>2, <3>5 DEF MakesRoom
  <2>3. CASE Lends(u) \/ Spawn(u) \/ LoadedBench(u) \/ LoadFails(u) \/ EndUnload(u)
    <3>1. /\ pc[u] \in {"evict", "load"}
          /\ \E w \in {"job", "load", "leave", "idle"} : pc' = [pc EXCEPT ![u] = w]
          /\ \A v \in Threads \ {u} : req'[v] = req[v]
      BY <2>3
      DEF Lends, Reconnect, Attaching, Loaded, GiveLease, Spawn, LoadedBench,
          LoadFails, EndUnload, TypeInv, TypeOK
    <3>2. u # t
      BY <3>1 DEF MakesRoom, TypeInv, TypeOK
    <3>3. pc[t] = "evict"
      BY <3>1, <3>2 DEF MakesRoom, TypeInv, TypeOK
    <3> QED BY <3>1, <3>2, <3>3 DEF LockExclusive
  <2>4. CASE \/ Turn(u) \/ Leave(u) \/ Refuse(u) \/ EvictOther(u) \/ JobEnds(u)
             \/ Free(u) \/ Publish(u) \/ PruneSync(u)
             \/ \E r \in Refs : PruneKill(u, r)
    <3>1. /\ UNCHANGED victims
          /\ \/ UNCHANGED pc
             \/ \E w \in Places \ {"evict"} : pc' = [pc EXCEPT ![u] = w]
      BY <2>4
      DEF Turn, Enter, GiveUp, Leave, Refuse, EvictOther, JobEnds, EndJob, EndBench,
          Free, Publish, PruneSync, PruneKill, Places
    <3>2. \/ UNCHANGED req
          \/ pc'[u] # "evict" /\ \A v \in Threads \ {u} : req'[v] = req[v]
      BY <2>4
      DEF Turn, Enter, GiveUp, Leave, Refuse, EvictOther, JobEnds, EndJob, EndBench,
          Free, Publish, PruneSync, PruneKill, TypeInv, TypeOK
    <3> QED BY <3>1, <3>2 DEF MakesRoom, TypeInv, TypeOK
  <2> QED BY <1>2, <2>1, <2>2, <2>3, <2>4
          DEF Step, Transact, Attach, LoadEnds, Lends
<1>3. CASE Environment
  <2>1. ASSUME NEW p \in Procs, ReadTable(p) \/ Close(p) PROVE Stays
    BY <2>1 DEF ReadTable, Close, MakesRoom
  <2>2. ASSUME NEW p \in Procs, EndClose(p) PROVE Stays
    <3>1. /\ lock = NoThread
          /\ pc'[t] = "gone" \/ (pc'[t] = pc[t] /\ req'[t] = req[t])
      BY <2>2 DEF EndClose, LockFree, Exit
    <3> QED BY <3>1 DEF MakesRoom, LockExclusive
  <2>3. ASSUME NEW p \in Procs PROVE ~Crash(p)
    BY DEF Crash, NobodyKilled
  <2>4. ASSUME NEW q \in Pids, WorkerDies(q) \/ IdleExit(q) PROVE Stays
    BY <2>4 DEF WorkerDies, IdleExit, MakesRoom
  <2>5. ASSUME NEW r \in Refs, SocketLost(r) \/ Republish(r) PROVE Stays
    BY <2>5 DEF SocketLost, Republish, MakesRoom
  <2> QED BY <1>3, <2>1, <2>2, <2>3, <2>4, <2>5 DEF Environment
<1>4. CASE UNCHANGED vars
  BY <1>4 DEF vars, MakesRoom
<1> QED BY <1>1, <1>2, <1>3, <1>4 DEF Next

(* A step that loads nothing leaves less, and the plan stands.             *)
LEMMA StillRoom ==
  ASSUME NEW W, Weighs(W), SomeHeavy, NobodyKilled, PathInv, Before,
         RoomInv(W), [Next]_vars,
         Live' \subseteq Live, sock' = sock /\ worker' = worker => Live' = Live
  PROVE  RoomKept(W)'
<1> USE DEF PathInv
<1>1. Live \subseteq Refs /\ Holds(W, Live)
  BY DEF Live, RoomInv, RoomKept
<1>2. Holds(W, Live')
  BY <1>1, HoldsLess
<1>3. ASSUME NEW t \in Threads, MakesRoom(t)'
      PROVE  Holds(W, (Live' \ victims') \cup {req'[t].ref})
  <2>1. CASE Admit(t) /\ req[t].op = "run" /\ req'[t] = req[t] /\ UNCHANGED world
    <3>1. Live' = Live
      BY <2>1 DEF world
    <3> QED BY <2>1, <3>1, AdmitRoom
  <2>2. CASE /\ MakesRoom(t) /\ req'[t] = req[t]
             /\ \A r \in victims : r \in victims' \/ sock'[r] = NoPid
    <3>1. Holds(W, (Live \ victims) \cup {req[t].ref})
      BY <2>2 DEF RoomInv, RoomKept
    <3>2. req[t].ref \in Refs
      BY <2>2 DEF MakesRoom, TypeInv, Calling, Request
    <3>3. Live' \ victims' \subseteq Live \ victims
      BY <2>2 DEF Live, Up
    <3> QED BY <1>1, <2>2, <3>1, <3>2, <3>3, HoldsLess
  <2> QED BY <1>3, <2>1, <2>2, VictimsLeave
<1>4. Holds(W, Live)'
  BY <1>2 DEF Holds, HeavyIn
<1>5. \A t \in Threads : MakesRoom(t)' => Holds(W, (Live \ victims) \cup {req[t].ref})'
  BY <1>3 DEF Holds, HeavyIn
<1> QED BY <1>4, <1>5 DEF RoomKept

LEMMA SpawnRoom ==
  ASSUME NEW W, Weighs(W), PathInv, Before, RoomInv(W), Unbenched,
         NEW t \in Threads, NEW q \in Pids,
         Begets(t, q)
  PROVE  RoomKept(W)'
<1> USE DEF PathInv
<1>1. /\ req[t].op = "run" /\ req[t].ref \in Refs /\ victims = {}
      /\ pc[t] = "evict" /\ pc'[t] = "load"
  BY DEF Begets, Unbenched, Request
<1>2. Holds(W, (Live \ victims) \cup {req[t].ref})
  BY <1>1 DEF RoomInv, RoomKept, MakesRoom
<1>3. Live' \subseteq Live \cup {req[t].ref}
  <2>1. ASSUME NEW r \in Refs, Up(sock[r])', r # req[t].ref PROVE Up(sock[r])
    <3>1. sock'[r] = sock[r] /\ sock[r] # q /\ sock[r] \in Pids \cup {NoPid}
      BY <2>1 DEF Begets, Named, TypeInv, TypeOK
    <3> QED BY <2>1, <3>1 DEF Begets, Up
  <2> QED BY <2>1 DEF Live
<1>4. (Live \ victims) \cup {req[t].ref} \subseteq Refs
  BY <1>1 DEF Live
<1>5. Holds(W, Live')
  BY <1>1, <1>2, <1>3, <1>4, HoldsLess
<1>6. \A u \in Threads : ~MakesRoom(u)'
  BY <1>1 DEF MakesRoom, Begets, Before, LockExclusive
<1>7. Holds(W, Live)'
  BY <1>5 DEF Holds, HeavyIn
<1> QED BY <1>6, <1>7 DEF RoomKept

LEMMA NextRoom ==
  ASSUME NEW W, Weighs(W), SomeHeavy, NobodyKilled, PathInv, Before,
         RoomInv(W), Unbenched, [Next]_vars
  PROVE  RoomKept(W)'
<1>1. CASE Soft
  <2>1. Live' \subseteq Live
    BY <1>1, SoftUp DEF Live, Soft, Before
  <2>2. sock' = sock /\ worker' = worker => Live' = Live
    BY DEF Live, Up
  <2> QED BY <2>1, <2>2, StillRoom
<1>2. ASSUME NEW t \in Threads, Lends(t) PROVE RoomKept(W)'
  <2>1. Live' = Live
    BY <1>2, LendsWorld DEF Live, Up
  <2> QED BY <2>1, StillRoom
<1>3. ASSUME NEW t \in Threads, Spawn(t) PROVE RoomKept(W)'
  BY <1>3, SpawnBegets, SpawnRoom DEF Before
<1> QED BY <1>1, <1>2, <1>3, SoftNext DEF Before

LEMMA NextSized ==
  ASSUME NEW W, Weighs(W), TypeInv, Sized(W), [Next]_vars
  PROVE  Sized(W)'
<1> SUFFICES ASSUME NEW t \in Threads, req'[t] \in Request, req'[t].op = "run"
             PROVE  req'[t].peak = NoPeak \/ W[req'[t].ref] <= req'[t].peak
  BY DEF Sized
<1>1. CASE req'[t] = req[t]
  BY <1>1 DEF Sized
<1>2. CASE req'[t].ref \in Wants[t] /\ req'[t].peak \in Demands[req'[t].ref]
  BY <1>2 DEF Weighs, Request
<1> QED BY <1>1, <1>2, NextCalls, NullAssumption DEF Calls

(* A worker weighs no more than its profile, and the tables say the        *)
(* profile.                                                                *)
LEMMA NextMem ==
  ASSUME NEW W, Weighs(W), Before, MemTrue(W), [Next]_vars
  PROVE  MemTrue(W)'
<1> SUFFICES ASSUME NEW q \in Pids, Up(q)'
             PROVE  worker'[q].mem <= W[worker'[q].ref]
  BY DEF MemTrue
<1>1. CASE Soft
  <2>1. worker'[q] # NoWorker
    BY DEF Up
  <2>2. /\ Up(q) /\ worker'[q].ref = worker[q].ref
        /\ worker'[q].mem \in {worker[q].mem, 0}
    BY <1>1, <2>1, SoftUp DEF Soft, SoftWorld, Before
  <2>3. worker[q].ref \in Refs
    BY <2>2 DEF Up, Before, TypeInv, TypeOK, Worker
  <2>4. W[worker[q].ref] \in Nat
    BY <2>3 DEF Weighs
  <2> QED BY <2>2, <2>4 DEF MemTrue
<1>2. ASSUME NEW t \in Threads, Lends(t) PROVE worker'[q].mem <= W[worker'[q].ref]
  BY <1>2, LendsWorld DEF MemTrue, Up
<1>3. ASSUME NEW t \in Threads, Spawn(t) PROVE worker'[q].mem <= W[worker'[q].ref]
  <2>1. PICK s \in Pids : Begets(t, s)
    BY <1>3, SpawnBegets DEF Before
  <2>2. CASE q = s
    BY <2>1, <2>2 DEF Begets, Weighs, Request
  <2>3. CASE q # s
    BY <2>1, <2>3 DEF Begets, MemTrue, Up
  <2> QED BY <2>2, <2>3
<1> QED BY <1>1, <1>2, <1>3, SoftNext DEF Before

LEMMA NextPeaks ==
  ASSUME NEW W, Weighs(W), Before, Agree, PeaksTrue(W), [Next]_vars
  PROVE  PeaksTrue(W)'
<1> SUFFICES ASSUME NEW r \in Refs, NEW e \in Said(r)' PROVE W[r] <= e.peak
  BY DEF PeaksTrue
<1>1. CASE Faithful
  <2>1. PICK f \in Said(r) : Same(e, f)
    BY <1>1, SaidFollows
  <2> QED BY <2>1 DEF PeaksTrue, Same
<1>2. ASSUME NEW t \in Threads, Lends(t) PROVE W[r] <= e.peak
  <2>1. PICK f \in Entry, q \in Pids : Hands(t, f, q)
    BY <1>2, LendsHands
  <2>2. CASE r # req[t].ref
    <3>1. PICK g \in Said(r) : Same(e, g)
      BY <2>1, <2>2, HandsSaid DEF Before
    <3> QED BY <3>1 DEF PeaksTrue, Same
  <2>3. CASE r = req[t].ref
    <3>1. e.peak = f.peak
      BY <2>1, <2>3, HandsSaid DEF Before, Same
    <3>2. CASE entries[r] # NoEntry /\ Same(f, entries[r])
      <4>1. entries[r] \in Said(r)
        BY <3>2, FileSaid
      <4> QED BY <3>1, <3>2, <4>1 DEF PeaksTrue, Same
    <3>3. CASE /\ Loads(t, r) /\ q = conn[t]
               /\ f.peak = Larger(Profile[r], worker[q].mem)
      <4>1. Up(q) /\ worker[q] \in Worker
        BY <2>1 DEF Hands, Before, TypeInv, TypeOK, Up
      <4>2. worker[q].mem \in Nat /\ W[r] \in Nat /\ Profile[r] \in Nat /\ W[r] <= Profile[r]
        BY <4>1, SupervisorAssumption DEF Worker, Weighs
      <4> QED BY <3>1, <3>3, <4>2 DEF Larger
    <3> QED BY <2>1, <2>3, <3>2, <3>3 DEF Hands
  <2> QED BY <2>2, <2>3
<1> QED BY <1>1, <1>2, FaithfulNext DEF Before

LEMMA NextRoomInv ==
  ASSUME NEW W, Weighs(W), SomeHeavy, NobodyKilled, PathInv, Before, RoomInv(W),
         Unbenched, [Next]_vars
  PROVE  RoomInv(W)'
BY NextRoom, NextSized, NextMem, NextPeaks DEF RoomInv, Before, PathInv, ReachInv

LEMMA InitRoom == ASSUME NEW W PROVE Init => RoomInv(W)
<1> SUFFICES ASSUME Init PROVE RoomInv(W)
  OBVIOUS
<1>1. Live = {}
  BY DEF Init, Live, Up
<1>2. RoomKept(W)
  BY <1>1 DEF RoomKept, Holds, Init, MakesRoom
<1>3. MemTrue(W) /\ PeaksTrue(W)
  BY DEF Init, MemTrue, PeaksTrue, Said, OnFile, InMemories, Nobody, Up
<1>4. Sized(W)
  BY NullAssumption DEF Init, Sized
<1> QED BY <1>2, <1>3, <1>4 DEF RoomInv

-----------------------------------------------------------------------------
(* The sum of the property is such a sum. *)
LEMMA MemoryIs ==
  ASSUME NEW w, NEW S, IsFiniteSet(S), \A q \in S : w[q] = worker[q].mem
  PROVE  MapThenSumSet(LAMBDA q : worker[q].mem, S) = SumBy(w, S)
<1> DEFINE iter == CHOOSE h : h = [s \in SUBSET S |->
                     IF s = {} THEN 0
                     ELSE worker[CHOOSE x \in s : TRUE].mem + h[s \ {CHOOSE x \in s : TRUE}]]
           Eq(h) == h = [s \in SUBSET S |->
                     IF s = {} THEN 0
                     ELSE worker[CHOOSE x \in s : TRUE].mem + h[s \ {CHOOSE x \in s : TRUE}]]
<1>1. \A h : Eq(h) <=> Adds(h, w, S)
  <2> SUFFICES ASSUME NEW h PROVE Eq(h) <=> Adds(h, w, S)
    OBVIOUS
  <2>1. \A s \in SUBSET S :
          (IF s = {} THEN 0 ELSE worker[CHOOSE x \in s : TRUE].mem + h[s \ {CHOOSE x \in s : TRUE}])
          = (IF s = {} THEN 0 ELSE w[Pick(s)] + h[s \ {Pick(s)}])
    <3> SUFFICES ASSUME NEW s \in SUBSET S, s # {}
                 PROVE  worker[Pick(s)].mem + h[s \ {Pick(s)}] = w[Pick(s)] + h[s \ {Pick(s)}]
      BY DEF Pick
    <3>1. Pick(s) \in S
      BY Picked
    <3> QED BY <3>1
  <2> QED BY <2>1 DEF Adds
<1>2. \E h : Eq(h)
  <2>1. PICK g : Adds(g, w, S)
    BY AddsExists
  <2> HIDE DEF Eq
  <2> QED BY <1>1, <2>1
<1>3. Eq(iter)
  BY <1>2
<1>4. MapThenSumSet(LAMBDA q : worker[q].mem, S) = iter[S]
  BY DEF MapThenSumSet, MapThenFoldSet
<1>5. PICK h : Adds(h, w, S) /\ SumBy(w, S) = h[S]
  BY SumIs
<1> HIDE DEF iter, Eq
<1> QED BY <1>1, <1>3, <1>4, <1>5, AddsAgree

(* One worker per path: those that run weigh what their variants weigh.    *)
LEMMA MemoryHolds ==
  ASSUME NEW W, Weighs(W), PathInv, Unbenched, RoomInv(W)
  PROVE  MemoryBound
<1> DEFINE S == InMemory
           f == [q \in S |-> worker[q].ref]
           w == [q \in S |-> worker[q].mem]
           Im == {f[q] : q \in S}
           HS == {q \in S : worker[q].mem > HeavyThreshold}
<1> USE DEF PathInv
<1>1. \A t \in Threads : ~Benching(t)
  BY DEF Benching, Attached, Unbenched, TypeInv, Calling
<1>2. \A q \in S : /\ q \in Pids /\ Up(q) /\ sock[worker[q].ref] = q
                   /\ worker[q].ref \in Refs /\ worker[q].mem \in Nat
  <2> SUFFICES ASSUME NEW q \in S
               PROVE  /\ q \in Pids /\ Up(q) /\ sock[worker[q].ref] = q
                      /\ worker[q].ref \in Refs /\ worker[q].mem \in Nat
    OBVIOUS
  <2>1. q \in Pids /\ Up(q)
    BY DEF InMemory
  <2>2. worker[q] \in Worker
    BY <2>1 DEF Up, TypeInv, TypeOK
  <2> QED BY <1>1, <2>1, <2>2 DEF ReachInv, Loose, Worker
<1>3. \A q \in S : f[q] \in Live
  BY <1>2 DEF Live
<1>4. \A q, s \in S : f[q] = f[s] => q = s
  BY <1>2
<1>5. Live \subseteq Refs /\ IsFiniteSet(Live) /\ \A r \in Live : W[r] \in Nat
  <2>1. Live \subseteq Refs
    BY DEF Live
  <2> QED BY <2>1, RefsFinite
<1>6. f \in Injection(S, Live)
  <2>1. f \in [S -> Live]
    BY <1>3
  <2> QED BY <1>4, <2>1 DEF Injection, IsInjective
<1>7. IsFiniteSet(S)
  <2> HIDE DEF f, S
  <2> QED BY <1>5, <1>6, FS_Injection
<1>8. \A q \in S : w[q] \in Nat /\ W[f[q]] \in Nat /\ w[q] <= W[f[q]]
  BY <1>2, <1>3, <1>5 DEF RoomInv, MemTrue
<1>9. MapThenSumSet(LAMBDA q : worker[q].mem, S) = SumBy(w, S)
  <2>1. \A q \in S : w[q] = worker[q].mem
    OBVIOUS
  <2> HIDE DEF w, S
  <2> QED BY <1>7, <2>1, MemoryIs
<1>10. Holds(W, Live)
  BY DEF RoomInv, RoomKept
<1>11. CASE \A r, q \in Live : r = q
  <2>1. \A q, s \in S : q = s
    BY <1>3, <1>4, <1>11
  <2>2. CASE S = {}
    <3>1. SumBy(w, S) = 0 /\ Cardinality(HS) = 0
      BY <2>2, SumEmpty, FS_EmptySet
    <3> QED BY <1>9, <3>1, PolicyAssumption DEF MemoryBound
  <2>3. CASE S # {}
    <3>1. PICK q \in S : S = {q}
      BY <2>1, <2>3
    <3>2. Cardinality(S) = 1
      BY <3>1, FS_Singleton
    <3> QED BY <3>2 DEF MemoryBound
  <2> QED BY <2>2, <2>3
<1>12. CASE SumBy(W, Live) <= Budget /\ Cardinality(HeavyIn(W, Live)) <= MaxHeavy
  <2>1. Im \subseteq Live
    BY <1>3
  <2>2. SumBy(w, S) <= SumBy(W, Im)
    <3> HIDE DEF w, f, S
    <3> QED BY <1>4, <1>7, <1>8, SumMaps
  <2>3. SumBy(W, Im) <= SumBy(W, Live)
    <3> HIDE DEF Im
    <3> QED BY <1>5, <2>1, SumGrows
  <2>4. /\ SumBy(w, S) \in Nat /\ SumBy(W, Im) \in Nat
        /\ SumBy(W, Live) \in Nat
    <3>1. IsFiniteSet(Im) /\ \A r \in Im : W[r] \in Nat
      BY <1>5, <2>1, FS_Subset
    <3>2. SumBy(w, S) \in Nat
      <4> HIDE DEF w, f, S
      <4> QED BY <1>7, <1>8, SumNat
    <3> HIDE DEF Im
    <3> QED BY <1>5, <3>1, <3>2, SumNat
  <2>5. SumBy(w, S) <= Budget
    BY <1>12, <2>2, <2>3, <2>4, PolicyAssumption
  <2>6. Cardinality(HS) <= MaxHeavy
    <3> DEFINE g == [q \in HS |-> worker[q].ref]
    <3>1. \A q \in HS : worker[q].ref \in HeavyIn(W, Live)
      <4> SUFFICES ASSUME NEW q \in HS PROVE worker[q].ref \in HeavyIn(W, Live)
        OBVIOUS
      <4>1. /\ worker[q].mem > HeavyThreshold /\ worker[q].mem <= W[worker[q].ref]
            /\ worker[q].mem \in Nat /\ W[worker[q].ref] \in Nat
        BY <1>2, <1>8
      <4>2. W[worker[q].ref] > HeavyThreshold
        BY <4>1, PolicyAssumption
      <4> QED BY <1>3, <4>2 DEF HeavyIn
    <3>2. \A q, s \in HS : g[q] = g[s] => q = s
      BY <1>4
    <3>3. g \in Injection(HS, HeavyIn(W, Live))
      <4>1. g \in [HS -> HeavyIn(W, Live)]
        BY <3>1
      <4> QED BY <3>2, <4>1 DEF Injection, IsInjective
    <3>4. IsFiniteSet(HeavyIn(W, Live))
      BY <1>5, FS_Subset DEF HeavyIn
    <3> HIDE DEF g, HS
    <3>5. /\ IsFiniteSet(HS) /\ Cardinality(HS) <= Cardinality(HeavyIn(W, Live))
      BY <3>3, <3>4, FS_Injection
    <3>6. Cardinality(HS) \in Nat /\ Cardinality(HeavyIn(W, Live)) \in Nat
      BY <3>4, <3>5, FS_CardinalityType
    <3> QED BY <1>12, <3>5, <3>6, PolicyAssumption
  <2> QED BY <1>9, <2>5, <2>6 DEF MemoryBound
<1> QED BY <1>10, <1>11, <1>12 DEF Holds

(* What the workers hold once loaded fits in the budget, loads and         *)
(* evictions under way included, a model larger than the budget being      *)
(* alone, and no more of them are heavy than the policy allows: for any    *)
(* programs that share no variant, any threads, variants and policy that   *)
(* lets one heavy model in, while nobody is killed, no socket file         *)
(* vanishes and the bench is not used, and if no job is priced below what  *)
(* a worker of its variant holds. That price may be below the profile. A   *)
(* job that makes its worker grow beyond what it loaded is not modelled.   *)
THEOREM MemoryIsBounded ==
  ASSUME NothingShared, NoSocketLost, NobodyKilled, NoBench, SomeHeavy,
         NEW W, Weighs(W)
  PROVE  Spec => []MemoryBound
<1> DEFINE Inv == PathInv /\ Unbenched /\ RoomInv(W)
<1>1. Init => Inv
  BY InitPath, InitRoom, NullAssumption DEF Init, Unbenched
<1>2. Inv /\ [Next]_vars => Inv'
  BY NextPath, NextUnbenched, NextRoomInv DEF PathInv
<1>3. Inv => MemoryBound
  BY MemoryHolds
<1> QED BY <1>1, <1>2, <1>3, PTL DEF Spec

-----------------------------------------------------------------------------
(* Fleet is implemented: the state of a variant follows from the threads   *)
(* attached to its worker and from who listens on its path.                *)

(* No job is priced below the profile: what the file engages for a         *)
(* resident is then what its next job is admitted for.                     *)
HonestProfiles == Weighs(Profile)

NoClose == \A t \in Threads : "close" \notin Duties[t]

(* Each variant fits in the budget when alone: overcommit has no object.   *)
EachFits == \A r \in Refs : Profile[r] <= Budget

NobodyCloses == closing = {}

Serves(t, r) == Attached(t) /\ Up(conn[t]) /\ req[t].ref = r

(* One worker per variant, on its path; one thread per worker. *)
OneWorker ==
  /\ \A q \in Pids : Up(q) => worker[q].ref \in Refs /\ sock[worker[q].ref] = q
  /\ \A r \in Refs : Up(sock[r]) => sock[r] \in Pids /\ worker[sock[r]].ref = r
OneLease ==
  /\ \A t \in Threads : Attached(t) =>
       /\ conn[t] \in Pids /\ req[t].ref \in Refs /\ req[t].op = "run"
       /\ Up(conn[t]) => worker[conn[t]].ref = req[t].ref
  /\ \A t, u \in Threads :
       Attached(t) /\ Attached(u) /\ req[t].ref = req[u].ref => t = u
FleetShape == OneWorker /\ OneLease

HeldSays ==
  \A r \in Refs :
    /\ \A t \in Threads :
         Serves(t, r) => Held[r] = IF pc[t] = "load" THEN "loading" ELSE "serving"
    /\ (\A t \in Threads : ~Serves(t, r)) =>
         Held[r] = IF Up(sock[r]) THEN "warm" ELSE "absent"

LEMMA ShapeSays == FleetShape => HeldSays
<1> SUFFICES ASSUME FleetShape, NEW r \in Refs
             PROVE  /\ \A t \in Threads :
                         Serves(t, r) =>
                           Held[r] = IF pc[t] = "load" THEN "loading" ELSE "serving"
                    /\ (\A t \in Threads : ~Serves(t, r)) =>
                         Held[r] = IF Up(sock[r]) THEN "warm" ELSE "absent"
  BY DEF HeldSays
<1>1. \A place \in {"load", "job"} :
        At(r, place) <=> \E t \in Threads : Serves(t, r) /\ pc[t] = place
  BY DEF At, Serves, FleetShape, OneLease, Attached
<1>2. \A t, u \in Threads : Serves(t, r) /\ Serves(u, r) => t = u
  BY DEF Serves, FleetShape, OneLease
<1>3. (\E q \in Pids : Up(q) /\ worker[q].ref = r) <=> Up(sock[r])
  BY DEF FleetShape, OneWorker
<1>4. Held[r] = IF At(r, "load") THEN "loading"
                ELSE IF At(r, "job") THEN "serving"
                ELSE IF Up(sock[r]) THEN "warm" ELSE "absent"
  BY <1>3 DEF Held
<1>5. ASSUME NEW t \in Threads, Serves(t, r)
      PROVE  Held[r] = IF pc[t] = "load" THEN "loading" ELSE "serving"
  <2>1. pc[t] \in {"load", "job"}
    BY <1>5 DEF Serves, Attached
  <2>2. CASE pc[t] = "load"
    BY <1>1, <1>4, <1>5, <2>2
  <2>3. CASE pc[t] = "job"
    <3>1. ~ At(r, "load") /\ At(r, "job")
      BY <1>1, <1>2, <1>5, <2>3
    <3> QED BY <1>4, <2>3, <3>1
  <2> QED BY <2>1, <2>2, <2>3
<1>6. ASSUME \A t \in Threads : ~Serves(t, r)
      PROVE  Held[r] = IF Up(sock[r]) THEN "warm" ELSE "absent"
  BY <1>1, <1>4, <1>6
<1> QED BY <1>5, <1>6

LEMMA ShapeSaysNext == FleetShape' => HeldSays'
BY ShapeSays, PTL

LEMMA ShapeHolds ==
  ASSUME NothingShared, PathInv, Unbenched
  PROVE  FleetShape
<1> USE DEF PathInv
<1>1. \A t \in Threads : ~Benching(t)
  BY DEF Benching, Attached, Unbenched, TypeInv, Calling
<1>2. OneWorker
  <2>1. \A q \in Pids : Up(q) => worker[q].ref \in Refs
    BY DEF Up, TypeInv, TypeOK, Worker
  <2>2. \A r \in Refs : Up(sock[r]) => sock[r] \in Pids
    BY DEF Up, TypeInv, TypeOK
  <2> QED BY <1>1, <2>1, <2>2 DEF OneWorker, ReachInv, Loose, SparedInv, Linked
<1>3. ASSUME NEW t \in Threads, Attached(t)
      PROVE  /\ conn[t] \in Pids /\ req[t] \in Request /\ req[t].ref \in Refs
             /\ req[t].op = "run" /\ req[t].ref \in Wants[t] /\ InTurn(t)
             /\ Up(conn[t]) => worker[conn[t]].ref = req[t].ref
  <2>1. req[t] \in Request /\ req[t].ref \in Refs
    BY <1>3 DEF Attached, TypeInv, Calling, Request
  <2>2. req[t].op = "run" /\ InTurn(t)
    BY <1>3, <2>1 DEF SparedInv, Linked, Unbenched, InTurn, Attached
  <2>3. req[t].ref \in Wants[t]
    BY <2>2 DEF SparedInv, Wanted, Running
  <2> QED BY <1>3, <2>1, <2>2, <2>3 DEF SparedInv, Linked
<1>4. ASSUME NEW t \in Threads, NEW u \in Threads, Attached(t), Attached(u),
             req[t].ref = req[u].ref
      PROVE  t = u
  <2>1. ProcOf[t] = ProcOf[u]
    BY <1>3, <1>4 DEF NothingShared
  <2> QED BY <1>3, <1>4, <2>1 DEF TurnInv, TurnExclusive
<1> QED BY <1>2, <1>3, <1>4 DEF FleetShape, OneLease
LEMMA ShapeFollows == NothingShared /\ PathInv /\ Unbenched => FleetShape
BY ShapeHolds

LEMMA ShapeHoldsNext == NothingShared' /\ PathInv' /\ Unbenched' => FleetShape'
BY ShapeFollows, PTL
-----------------------------------------------------------------------------
(* What a step does to Fleet. *)
FleetStep == Held' = Held \/ \E r \in Refs : F!Step(r)

Moves(r, to) == Held' = [Held EXCEPT ![r] = to]

LEMMA MovesOne ==
  ASSUME NEW r \in Refs, NEW to, Held'[r] = to, \A s \in Refs \ {r} : Held'[s] = Held[s]
  PROVE  Moves(r, to)
<1>1. Held = [s \in Refs |-> Held[s]] /\ Held' = [s \in Refs |-> Held'[s]]
  BY DEF Held
<1> HIDE DEF Held
<1>2. [Held EXCEPT ![r] = to] = [s \in Refs |-> IF s = r THEN to ELSE Held[s]]
  BY <1>1
<1>3. \A s \in Refs : Held'[s] = IF s = r THEN to ELSE Held[s]
  OBVIOUS
<1>4. [s \in Refs |-> Held'[s]] = [s \in Refs |-> IF s = r THEN to ELSE Held[s]]
  BY <1>3
<1> QED BY <1>1, <1>2, <1>4 DEF Moves

LEMMA StaysEqual ==
  ASSUME \A s \in Refs : Held'[s] = Held[s] PROVE Held' = Held
<1>1. Held = [s \in Refs |-> Held[s]] /\ Held' = [s \in Refs |-> Held'[s]]
  BY DEF Held
<1> HIDE DEF Held
<1> QED BY <1>1

(* A variant keeps its state when the same thread serves it at the same    *)
(* place, or nobody does and the path is as good as it was.                *)
LEMMA HeldKept ==
  ASSUME HeldSays, HeldSays', NEW r \in Refs,
         \A t \in Threads : Serves(t, r)' <=> Serves(t, r),
         \A t \in Threads : Serves(t, r) => pc'[t] = pc[t],
         Up(sock[r])' <=> Up(sock[r])
  PROVE  Held'[r] = Held[r]
<1>1. CASE \E t \in Threads : Serves(t, r)
  BY <1>1 DEF HeldSays
<1>2. CASE \A t \in Threads : ~Serves(t, r)
  BY <1>2 DEF HeldSays
<1> QED BY <1>1, <1>2

(* The steps after which at most one worker, q, has gone, and no thread is *)
(* attached that was not.                                                  *)
Loses(q) ==
  /\ \A s \in Pids : Up(s)' <=> Up(s) /\ s # q
  /\ \A t \in Threads :
       /\ Attached(t)' => Attached(t)
       /\ Attached(t)' => pc'[t] = pc[t] /\ conn'[t] = conn[t] /\ req'[t].ref = req[t].ref
       /\ Attached(t) /\ Up(conn[t]) /\ conn[t] # q => Attached(t)'

LEMMA LosesOne ==
  ASSUME TypeInv, FleetShape, FleetShape', HeldSays, HeldSays', Tidy,
         NEW q, Loses(q)
  PROVE  FleetStep
<1> USE DEF FleetShape
<1>1. ASSUME NEW r \in Refs, ~ (Up(sock[r]) /\ sock[r] = q)
      PROVE  Held'[r] = Held[r]
  <2>1. Up(sock[r])' <=> Up(sock[r])
    <3>1. CASE sock'[r] = sock[r]
      BY <1>1, <3>1 DEF Loses, Up, TypeInv, TypeOK
    <3>2. CASE sock'[r] = NoPid /\ (sock[r] \in Pids => worker'[sock[r]] = NoWorker)
      <4>1. ~ Up(sock[r])
        <5> SUFFICES ASSUME Up(sock[r]) PROVE FALSE
          OBVIOUS
        <5>1. sock[r] \in Pids /\ sock[r] # q
          BY <1>1 DEF OneWorker
        <5>2. Up(sock[r]) /\ worker'[sock[r]] # NoWorker
          BY <5>1 DEF Loses, Up
        <5> QED BY <3>2, <5>1, <5>2
      <4> QED BY <3>2, <4>1 DEF Up
    <3> QED BY <3>1, <3>2 DEF Tidy
  <2>2. ASSUME NEW t \in Threads PROVE Serves(t, r) => Serves(t, r)' /\ pc'[t] = pc[t]
    <3> SUFFICES ASSUME Serves(t, r) PROVE Serves(t, r)' /\ pc'[t] = pc[t]
      OBVIOUS
    <3>1. conn[t] \in Pids /\ Up(conn[t]) /\ worker[conn[t]].ref = r /\ sock[r] = conn[t]
      BY DEF Serves, OneLease, OneWorker
    <3>2. conn[t] # q
      BY <1>1, <3>1
    <3>3. Attached(t)' /\ conn'[t] = conn[t] /\ req'[t].ref = req[t].ref /\ pc'[t] = pc[t]
      BY <3>1, <3>2 DEF Loses, Serves
    <3>4. Up(conn[t])'
      BY <3>1, <3>2, <3>3 DEF Loses, Up
    <3> QED BY <3>3, <3>4 DEF Serves
  <2>3. ASSUME NEW t \in Threads PROVE Serves(t, r)' => Serves(t, r)
    <3> SUFFICES ASSUME Serves(t, r)' PROVE Serves(t, r)
      OBVIOUS
    <3>1. Attached(t) /\ conn'[t] = conn[t] /\ req'[t].ref = req[t].ref
      BY DEF Loses, Serves
    <3>2. conn[t] \in Pids /\ Up(conn[t])'
      BY <3>1 DEF Serves, OneLease, Up
    <3>3. Up(conn[t])
      BY <3>1, <3>2 DEF Loses, Up
    <3> QED BY <3>1, <3>3 DEF Serves
  <2> QED BY <2>1, <2>2, <2>3, HeldKept
<1>2. CASE \A r \in Refs : ~ (Up(sock[r]) /\ sock[r] = q)
  BY <1>1, <1>2, StaysEqual DEF FleetStep
<1>3. ASSUME NEW r \in Refs, Up(sock[r]), sock[r] = q PROVE FleetStep
  <2>1. q \in Pids /\ worker[q].ref = r
    BY <1>3 DEF OneWorker
  <2>2. \A s \in Refs \ {r} : ~ (Up(sock[s]) /\ sock[s] = q)
    BY <1>3, <2>1 DEF OneWorker
  <2>3. \A s \in Refs \ {r} : Held'[s] = Held[s]
    BY <1>1, <2>2
  <2>4. Held[r] # "absent"
    <3>1. CASE \E t \in Threads : Serves(t, r)
      BY <3>1 DEF HeldSays
    <3>2. CASE \A t \in Threads : ~Serves(t, r)
      BY <1>3, <3>2 DEF HeldSays
    <3> QED BY <3>1, <3>2
  <2>5. ~ Up(sock[r])'
    <3>1. sock'[r] \in {q, NoPid}
      BY <1>3 DEF Tidy
    <3> QED BY <2>1, <3>1 DEF Loses, Up
  <2>6. ASSUME NEW t \in Threads, Serves(t, r)' PROVE FALSE
    <3>1. conn'[t] \in Pids /\ Up(conn[t])' /\ worker'[conn'[t]].ref = r
      BY <2>6 DEF Serves, OneLease, Up
    <3>2. sock'[r] = conn'[t]
      BY <3>1 DEF OneWorker, Up
    <3> QED BY <2>5, <3>1, <3>2 DEF Up
  <2>7. Held'[r] = "absent"
    BY <2>5, <2>6 DEF HeldSays
  <2>8. Moves(r, "absent")
    BY <2>3, <2>7, MovesOne
  <2> QED BY <2>4, <2>8 DEF FleetStep, Moves, F!Step, F!Leave
<1> QED BY <1>2, <1>3

-----------------------------------------------------------------------------
LEMMA StillLoses ==
  ASSUME UNCHANGED worker,
         \A t \in Threads : Attached(t) \/ Attached(t)' =>
           pc'[t] = pc[t] /\ conn'[t] = conn[t] /\ req'[t] = req[t]
  PROVE  Loses(NoPid)
BY DEF Loses, Attached, Up

LEMMA KillLoses ==
  ASSUME NEW q, \A s \in Pids : Up(s)' <=> Up(s) /\ s # q, UNCHANGED <<pc, req, conn>>
  PROVE  Loses(q)
BY DEF Loses, Attached

LEMMA GoneLoses ==
  ASSUME TypeInv, NEW q \in Pids, Gone(q)
  PROVE  \A s \in Pids : Up(s)' <=> Up(s) /\ s # q
BY DEF Gone, Up, TypeInv, TypeOK

LEMMA EvictLoses ==
  ASSUME TypeInv, NEW t \in Threads, NEW r \in Refs, Evict(t, r), entries[r] # NoEntry
  PROVE  \A s \in Pids : Up(s)' <=> Up(s) /\ s # entries[r].pid
<1>1. worker' = [q \in Pids |->
                   IF q = entries[r].pid THEN NoWorker
                   ELSE IF q = sock[r] /\ Up(q) /\ ~ (\E u \in Threads : conn[u] = sock[r])
                   THEN [worker[q] EXCEPT !.mem = 0] ELSE worker[q]]
  BY DEF Evict
<1> SUFFICES ASSUME NEW s \in Pids PROVE Up(s)' <=> Up(s) /\ s # entries[r].pid
  OBVIOUS
<1>2. CASE s = entries[r].pid
  BY <1>1, <1>2 DEF Up
<1>3. CASE s # entries[r].pid
  <2>1. Up(s) => [worker[s] EXCEPT !.mem = 0] \in Worker
    BY DEF Up, TypeInv, TypeOK, Worker
  <2> QED BY <1>1, <1>3, <2>1, NullAssumption DEF Up
<1> QED BY <1>2, <1>3

(* Every step but a spawn, a lease and the end of one.                     *)
LEMMA NextLoses ==
  ASSUME NoSocketLost, NobodyKilled, PathInv, FleetShape, NobodyCloses, [Next]_vars,
         \A t \in Threads : ~Spawn(t) /\ ~Lends(t) /\ ~EndJob(t)
  PROVE  \E q : Loses(q)
<1> USE DEF shared, handles, world, local, PathInv, TypeInv
<1>1. ASSUME NEW t \in Threads, Begin(t) PROVE Loses(NoPid)
  <2>1. UNCHANGED <<worker, conn>> /\ pc[t] = "idle"
    BY <1>1 DEF Begin, Ask, AskBench, Unload, UnloadAll, PruneRead, Idle
  <2>2. \A u \in Threads \ {t} : pc'[u] = pc[u] /\ req'[u] = req[u]
    <3>1. ASSUME NEW r, NEW force, Unload(t, r, force)
          PROVE  UNCHANGED <<pc, req>>
                   \/ /\ pc' = [pc EXCEPT ![t] = "evict"]
                      /\ req' = [req EXCEPT ![t] = UnloadCall(r, force)]
      BY <3>1, Zenon DEF Unload
    <3>2. ASSUME NEW r, NEW force, Unload(t, r, force)
          PROVE  \A u \in Threads \ {t} : pc'[u] = pc[u] /\ req'[u] = req[u]
      BY <3>1, <3>2 DEF TypeOK
    <3>3. ASSUME NEW force, UnloadAll(t, force)
          PROVE  \A u \in Threads \ {t} : pc'[u] = pc[u] /\ req'[u] = req[u]
      BY <3>3 DEF UnloadAll, TypeOK
    <3> QED BY <1>1, <3>2, <3>3 DEF Begin, Ask, AskBench, PruneRead, TypeOK
  <2>3. pc'[t] \notin {"load", "job"}
    <3>1. ASSUME NEW r, NEW force, Unload(t, r, force)
          PROVE  UNCHANGED pc \/ pc' = [pc EXCEPT ![t] = "evict"]
      BY <3>1, Zenon DEF Unload
    <3>2. ASSUME NEW force, UnloadAll(t, force)
          PROVE  UNCHANGED pc \/ pc' = [pc EXCEPT ![t] = "evict"]
      BY <3>2 DEF UnloadAll
    <3>3. UNCHANGED pc \/ \E w \in {"enter", "lock", "evict", "prune"} :
                             pc' = [pc EXCEPT ![t] = w]
      BY <1>1, <3>1, <3>2 DEF Begin, Ask, AskBench, PruneRead
    <3> QED BY <2>1, <3>3 DEF TypeOK
  <2> QED BY <2>1, <2>2, <2>3, StillLoses DEF Attached
<1>2. ASSUME NEW t \in Threads, Step(t) PROVE \E q : Loses(q)
  <2>1. CASE \/ Turn(t) \/ Leave(t) \/ Transact(t) \/ Free(t) \/ Publish(t)
             \/ EndUnload(t) \/ PruneSync(t)
    <3>1. UNCHANGED <<worker, conn>>
      BY <2>1
      DEF Turn, Enter, GiveUp, Leave, Transact, Admit, Refuse, Free, Publish,
          EndUnload, PruneSync
    <3>2. /\ pc[t] \in Places \ {"load", "job"}
          /\ \E w \in Places \ {"load", "job"} : pc' = [pc EXCEPT ![t] = w]
          /\ req' = req \/ \E c : req' = [req EXCEPT ![t] = c]
      BY <2>1
      DEF Turn, Enter, GiveUp, Leave, Transact, Admit, Refuse, Free, Publish,
          EndUnload, PruneSync, Places
    <3>3. \A u \in Threads \ {t} : pc'[u] = pc[u] /\ req'[u] = req[u]
      BY <3>2 DEF TypeOK
    <3>4. ~Attached(t) /\ ~Attached(t)'
      BY <3>2 DEF Attached, TypeOK
    <3>5. Loses(NoPid)
      BY <3>1, <3>3, <3>4, StillLoses
    <3> QED BY <3>5
  <2>2. CASE EvictVictim(t) \/ EvictOther(t)
    <3>1. PICK r \in Refs : Evict(t, r) /\ entries[r] # NoEntry
      BY <2>2
      DEF EvictVictim, EvictOther, Attaching, TypeOK, Calling, Request
    <3>2. UNCHANGED <<pc, req, conn>>
      BY <2>2 DEF EvictVictim, EvictOther
    <3>3. Loses(entries[r].pid)
      BY <3>1, <3>2, EvictLoses, KillLoses
    <3> QED BY <3>3
  <2>3. CASE LoadFails(t)
    <3>1. /\ pc[t] = "load" /\ Gone(conn[t])
          /\ conn' = [conn EXCEPT ![t] = NoPid]
          /\ \E w \in {"leave", "idle"} : pc' = [pc EXCEPT ![t] = w]
          /\ \A u \in Threads \ {t} : req'[u] = req[u]
      BY <2>3 DEF LoadFails, TypeOK
    <3>2. conn[t] \in Pids
      BY <3>1 DEF FleetShape, OneLease, Attached
    <3>3. \A s \in Pids : Up(s)' <=> Up(s) /\ s # conn[t]
      BY <3>1, <3>2, GoneLoses
    <3>4. /\ pc'[t] \notin {"load", "job"}
          /\ \A u \in Threads \ {t} : pc'[u] = pc[u] /\ conn'[u] = conn[u]
      BY <3>1 DEF TypeOK
    <3>5. Loses(conn[t])
      BY <3>1, <3>3, <3>4 DEF Loses, Attached
    <3> QED BY <3>5
  <2>4. ASSUME NEW r \in Refs, PruneKill(t, r) PROVE Loses(NoPid)
    <3>1. UNCHANGED <<worker, pc, req, conn>>
      BY <2>4 DEF PruneKill, ReachInv, ReapedDead
    <3> QED BY <3>1, StillLoses
  <2>5. ~LoadedBench(t) /\ ~EndBench(t)
    BY DEF LoadedBench, EndBench, FleetShape, OneLease, Attached
  <2> QED BY <1>2, <2>1, <2>2, <2>3, <2>4, <2>5
          DEF Step, Attach, LoadEnds, Lends, JobEnds
<1>3. CASE Environment
  <2>1. ASSUME NEW p \in Procs, ReadTable(p) \/ Close(p) PROVE Loses(NoPid)
    BY <2>1, StillLoses DEF ReadTable, Close
  <2>2. ASSUME NEW p \in Procs PROVE ~Crash(p) /\ ~EndClose(p)
    BY DEF Crash, EndClose, NobodyKilled, NobodyCloses
  <2>3. ASSUME NEW q \in Pids, WorkerDies(q) \/ IdleExit(q) PROVE Loses(q)
    <3>1. Gone(q) /\ UNCHANGED <<pc, req, conn>>
      BY <2>3 DEF WorkerDies, IdleExit
    <3> QED BY <3>1, GoneLoses, KillLoses
  <2>4. ASSUME NEW r \in Refs, SocketLost(r) \/ Republish(r) PROVE Loses(NoPid)
    <3>1. UNCHANGED <<worker, pc, req, conn>>
      BY <2>4 DEF SocketLost, Republish
    <3> QED BY <3>1, StillLoses
  <2> QED BY <1>3, <2>1, <2>2, <2>3, <2>4 DEF Environment
<1>4. CASE UNCHANGED vars
  <2>1. UNCHANGED <<worker, pc, req, conn>>
    BY <1>4 DEF vars
  <2> QED BY <2>1, StillLoses
<1> QED BY <1>1, <1>2, <1>3, <1>4 DEF Next

-----------------------------------------------------------------------------
(* A variant nobody starts or stops to serve keeps its state. *)
LEMMA OthersKept ==
  ASSUME HeldSays, HeldSays', NEW t \in Threads, NEW r \in Refs, NEW s \in Refs \ {r},
         UNCHANGED req, req[t].ref = r,
         \A u \in Threads \ {t} : pc'[u] = pc[u] /\ conn'[u] = conn[u],
         \A u \in Threads \ {t} : Attached(u) => (Up(conn[u])' <=> Up(conn[u])),
         Up(sock[s])' <=> Up(sock[s])
  PROVE  Held'[s] = Held[s]
<1>1. \A u \in Threads : Serves(u, s)' <=> Serves(u, s)
  BY DEF Serves, Attached
<1>2. \A u \in Threads : Serves(u, s) => pc'[u] = pc[u]
  BY DEF Serves
<1> QED BY <1>1, <1>2, HeldKept

LEMMA LoadedFleet ==
  ASSUME TypeInv, FleetShape, HeldSays, HeldSays', NEW t \in Threads, Loaded(t)
  PROVE  FleetStep
<1> DEFINE r == req[t].ref
<1>1. /\ pc[t] = "load" /\ Up(conn[t]) /\ pc' = [pc EXCEPT ![t] = "job"]
      /\ UNCHANGED <<worker, sock, req, conn>>
  BY DEF Loaded, GiveLease, world
<1>2. pc'[t] = "job" /\ \A u \in Threads \ {t} : pc'[u] = pc[u] /\ conn'[u] = conn[u]
  BY <1>1 DEF TypeInv, TypeOK
<1>3. r \in Refs /\ Serves(t, r)
  BY <1>1 DEF Serves, Attached, FleetShape, OneLease
<1>4. Serves(t, r)'
  BY <1>1, <1>2 DEF Serves, Attached, Up
<1>5. Held[r] = "loading" /\ Held'[r] = "serving"
  BY <1>1, <1>2, <1>3, <1>4 DEF HeldSays
<1>6. \A s \in Refs \ {r} : Held'[s] = Held[s]
  <2>1. \A y : Up(y)' <=> Up(y)
    BY <1>1 DEF Up
  <2>2. \A s \in Refs : Up(sock[s])' <=> Up(sock[s])
    BY <1>1 DEF Up
  <2>3. \A u \in Threads : Up(conn[u])' <=> Up(conn[u])
    BY <1>1 DEF Up
  <2> QED BY <1>1, <1>2, <1>3, <2>2, <2>3, OthersKept
<1>7. Moves(r, "serving")
  BY <1>3, <1>5, <1>6, MovesOne
<1> QED BY <1>3, <1>5, <1>7 DEF FleetStep, Moves, F!Step, F!Loaded, F!Becomes

LEMMA ReconnectFleet ==
  ASSUME TypeInv, FleetShape, FleetShape', HeldSays, HeldSays', NEW t \in Threads,
         Reconnect(t)
  PROVE  FleetStep
<1> DEFINE r == req[t].ref
<1>1. /\ pc[t] = "evict" /\ Up(sock[r]) /\ pc' = [pc EXCEPT ![t] = "job"]
      /\ conn' = [conn EXCEPT ![t] = sock[r]]
      /\ UNCHANGED <<worker, sock, req>>
  BY DEF Reconnect, Attaching, Listening, GiveLease, world
<1>2. /\ pc'[t] = "job" /\ conn'[t] = sock[r]
      /\ \A u \in Threads \ {t} : pc'[u] = pc[u] /\ conn'[u] = conn[u]
  BY <1>1 DEF TypeInv, TypeOK
<1>3. r \in Refs
  BY <1>1, <1>2 DEF FleetShape, OneLease, Attached
<1>4. Serves(t, r)'
  BY <1>1, <1>2 DEF Serves, Attached, Up
<1>5. \A u \in Threads : ~Serves(u, r)
  <2> SUFFICES ASSUME NEW u \in Threads, Serves(u, r) PROVE FALSE
    OBVIOUS
  <2>1. u # t
    BY <1>1 DEF Serves, Attached
  <2>2. Attached(u)' /\ Attached(t)' /\ req'[u].ref = req'[t].ref
    BY <1>1, <1>2, <2>1 DEF Serves, Attached
  <2> QED BY <2>1, <2>2 DEF FleetShape, OneLease
<1>6. Held[r] = "warm" /\ Held'[r] = "serving"
  BY <1>1, <1>2, <1>3, <1>4, <1>5 DEF HeldSays
<1>7. \A s \in Refs \ {r} : Held'[s] = Held[s]
  <2>1. \A s \in Refs : Up(sock[s])' <=> Up(sock[s])
    BY <1>1 DEF Up
  <2>2. \A u \in Threads \ {t} : Up(conn[u])' <=> Up(conn[u])
    BY <1>1, <1>2 DEF Up
  <2> QED BY <1>1, <1>2, <1>3, <2>1, <2>2, OthersKept
<1>8. Moves(r, "serving")
  BY <1>3, <1>6, <1>7, MovesOne
<1> QED BY <1>3, <1>6, <1>8 DEF FleetStep, Moves, F!Step, F!Take, F!Becomes

LEMMA EndJobFleet ==
  ASSUME TypeInv, FleetShape, FleetShape', HeldSays, HeldSays', Tidy,
         NEW t \in Threads, EndJob(t)
  PROVE  FleetStep
<1> DEFINE r == req[t].ref
<1>1. /\ pc[t] = "job" /\ conn' = [conn EXCEPT ![t] = NoPid]
      /\ pc' = [pc EXCEPT ![t] = "release"] /\ UNCHANGED <<worker, sock, req>>
  BY DEF EndJob, world
<1>2. /\ pc'[t] = "release"
      /\ \A u \in Threads \ {t} : pc'[u] = pc[u] /\ conn'[u] = conn[u]
  BY <1>1 DEF TypeInv, TypeOK
<1>3. CASE ~ Up(conn[t])
  <2>1. \A q \in Pids : Up(q)' <=> Up(q) /\ q # NoPid
    BY <1>1 DEF Up
  <2>2. Loses(NoPid)
    BY <1>1, <1>2, <1>3, <2>1 DEF Loses, Attached
  <2> QED BY <2>2, LosesOne
<1>4. CASE Up(conn[t])
  <2>1. r \in Refs /\ Serves(t, r) /\ sock[r] = conn[t]
    BY <1>1, <1>4 DEF Serves, Attached, FleetShape, OneLease, OneWorker
  <2>2. \A u \in Threads : ~ Serves(u, r)'
    <3> SUFFICES ASSUME NEW u \in Threads, Serves(u, r)' PROVE FALSE
      OBVIOUS
    <3>1. u # t
      BY <1>2 DEF Serves, Attached
    <3>2. Attached(u) /\ Attached(t) /\ req[u].ref = req[t].ref
      BY <1>1, <1>2, <3>1 DEF Serves, Attached
    <3> QED BY <3>1, <3>2 DEF FleetShape, OneLease
  <2>3. Up(sock[r])'
    BY <1>1, <1>4, <2>1 DEF Up
  <2>4. Held[r] = "serving" /\ Held'[r] = "warm"
    BY <1>1, <2>1, <2>2, <2>3 DEF HeldSays
  <2>5. \A s \in Refs \ {r} : Held'[s] = Held[s]
    <3>1. \A s \in Refs : Up(sock[s])' <=> Up(sock[s])
      BY <1>1 DEF Up
    <3>2. \A u \in Threads \ {t} : Up(conn[u])' <=> Up(conn[u])
      BY <1>1, <1>2 DEF Up
    <3> QED BY <1>1, <1>2, <2>1, <3>1, <3>2, OthersKept
  <2>6. Moves(r, "warm")
    BY <2>1, <2>4, <2>5, MovesOne
  <2> QED BY <2>1, <2>4, <2>6 DEF FleetStep, Moves, F!Step, F!GiveBack, F!Becomes
<1> QED BY <1>3, <1>4

-----------------------------------------------------------------------------
(* What is in memory and what comes fit in the budget. *)
LEMMA HoldsFit ==
  ASSUME HonestProfiles, EachFits, NEW C, C \subseteq Refs, Holds(Profile, C)
  PROVE  SumBy(Profile, C) <= Budget
<1>1. CASE C = {}
  BY <1>1, SumEmpty, PolicyAssumption
<1>2. CASE C # {} /\ \A r, q \in C : r = q
  <2>1. PICK r \in C : C = {r}
    BY <1>2
  <2>2. IsFiniteSet(C) /\ \A q \in C : Profile[q] \in Nat
    BY RefsFinite DEF HonestProfiles
  <2>3. C \ {r} = {}
    BY <2>1
  <2>4. SumBy(Profile, C) = Profile[r] + SumBy(Profile, C \ {r})
    BY <2>2, SumTake
  <2>5. SumBy(Profile, C) = Profile[r]
    BY <2>2, <2>3, <2>4, SumEmpty
  <2> QED BY <2>5 DEF EachFits
<1> QED BY <1>1, <1>2 DEF Holds

(* Fleet's sum is such a sum. *)
LEMMA WeightIs ==
  ASSUME NEW S, IsFiniteSet(S)
  PROVE  F!MapThenSumSet(LAMBDA q : Profile[q], S) = SumBy(Profile, S)
<1> DEFINE iter == CHOOSE h : h = [s \in SUBSET S |->
                     IF s = {} THEN 0
                     ELSE Profile[CHOOSE x \in s : TRUE] + h[s \ {CHOOSE x \in s : TRUE}]]
           Eq(h) == h = [s \in SUBSET S |->
                     IF s = {} THEN 0
                     ELSE Profile[CHOOSE x \in s : TRUE] + h[s \ {CHOOSE x \in s : TRUE}]]
<1>1. \A h : Eq(h) <=> Adds(h, Profile, S)
  BY DEF Adds, Pick
<1>2. \E h : Eq(h)
  <2>1. PICK g : Adds(g, Profile, S)
    BY AddsExists
  <2> HIDE DEF Eq
  <2> QED BY <1>1, <2>1
<1>3. Eq(iter)
  BY <1>2
<1>4. F!MapThenSumSet(LAMBDA q : Profile[q], S) = iter[S]
  BY DEF F!MapThenSumSet, F!MapThenFoldSet
<1>5. PICK h : Adds(h, Profile, S) /\ SumBy(Profile, S) = h[S]
  BY SumIs
<1> HIDE DEF iter, Eq
<1> QED BY <1>1, <1>3, <1>4, <1>5, AddsAgree

(* A spawn is a load of Fleet: nobody loads, the variant is not in memory, *)
(* and what is there and it fit together.                                  *)
LEMMA SpawnFleet ==
  ASSUME HonestProfiles, EachFits, NobodyKilled, PathInv, Before, Unbenched,
         RoomInv(Profile), FleetShape, FleetShape', HeldSays, HeldSays', NEW t \in Threads, Spawn(t)
  PROVE  FleetStep
<1> USE DEF PathInv
<1> DEFINE r == req[t].ref
<1>1. PICK q \in Pids : Begets(t, q)
  BY SpawnBegets
<1>2. /\ req[t].op = "run" /\ r \in Refs /\ victims = {} /\ pc[t] = "evict"
      /\ pc'[t] = "load" /\ conn'[t] = q /\ sock'[r] = q /\ UNCHANGED req
      /\ \A u \in Threads \ {t} : pc'[u] = pc[u] /\ conn'[u] = conn[u]
      /\ \A s \in Refs \ {r} : sock'[s] = sock[s]
  BY <1>1 DEF Begets, Unbenched, Request
<1>3. ~Up(sock[r])
  BY <1>1, <1>2, SpawnPath
<1>4. \A s \in Pids \cup {NoPid} : s # q => (Up(s)' <=> Up(s))
  BY <1>1, SpawnSaid
<1>5. Up(q)' /\ q # NoPid
  BY <1>1 DEF Begets, Up
<1>6. \A s \in Refs : sock[s] \in Pids \cup {NoPid} /\ sock[s] # q
  BY <1>1 DEF Begets, Named, TypeInv, TypeOK
<1>7. \A u \in Threads : conn[u] \in Pids \cup {NoPid} /\ conn[u] # q
  BY <1>1 DEF Begets, Named, TypeInv, TypeOK
<1>8. Serves(t, r)'
  BY <1>2, <1>5 DEF Serves, Attached, Up
<1>9. \A u \in Threads : ~Serves(u, r)
  <2> SUFFICES ASSUME NEW u \in Threads, Serves(u, r) PROVE FALSE
    OBVIOUS
  <2>1. u # t
    BY <1>2 DEF Serves, Attached
  <2>2. Attached(u)' /\ Attached(t)' /\ req'[u].ref = req'[t].ref
    BY <1>2, <2>1 DEF Serves, Attached
  <2> QED BY <2>1, <2>2 DEF FleetShape, OneLease
<1>10. Held[r] = "absent" /\ Held'[r] = "loading"
  BY <1>2, <1>3, <1>8, <1>9 DEF HeldSays
<1>11. \A s \in Refs \ {r} : Held'[s] = Held[s]
  <2>1. \A s \in Refs \ {r} : Up(sock[s])' <=> Up(sock[s])
    BY <1>2, <1>4, <1>6 DEF Up
  <2>2. \A u \in Threads \ {t} : Up(conn[u])' <=> Up(conn[u])
    BY <1>2, <1>4, <1>7 DEF Up
  <2> QED BY <1>2, <2>1, <2>2, OthersKept
<1>12. Moves(r, "loading")
  BY <1>2, <1>10, <1>11, MovesOne
<1>13. \A s \in Refs : Held[s] # "loading"
  <2>1. \A u \in Threads : pc[u] # "load"
    BY <1>2 DEF LockExclusive
  <2>2. ASSUME NEW s \in Refs PROVE Held[s] # "loading"
    <3>1. CASE \E u \in Threads : Serves(u, s)
      BY <2>1, <3>1 DEF HeldSays
    <3>2. CASE \A u \in Threads : ~Serves(u, s)
      BY <3>2 DEF HeldSays
    <3> QED BY <3>1, <3>2
  <2> QED BY <2>2
<1>14. F!Present \subseteq Live
  <2> SUFFICES ASSUME NEW s \in Refs, Held[s] # "absent" PROVE Up(sock[s])
    BY DEF F!Present, Live
  <2>1. CASE \E u \in Threads : Serves(u, s)
    BY <2>1 DEF Serves, FleetShape, OneLease, OneWorker
  <2>2. CASE \A u \in Threads : ~Serves(u, s)
    BY <2>2 DEF HeldSays
  <2> QED BY <2>1, <2>2
<1>15. Live \cup {r} \subseteq Refs
  BY <1>2 DEF Live
<1>16. Holds(Profile, (Live \ victims) \cup {r})
  BY <1>2 DEF RoomInv, RoomKept, MakesRoom
<1>17. (Live \ victims) \cup {r} = Live \cup {r}
  BY <1>2
<1>18. Holds(Profile, Live \cup {r})
  BY <1>16, <1>17
<1>19. F!Present \cup {r} \subseteq Live \cup {r}
  BY <1>14
<1>20. F!MapThenSumSet(LAMBDA s : Profile[s], F!Present \cup {r}) <= Budget
  <2> DEFINE C == F!Present \cup {r}
  <2>1. C \subseteq Refs
    BY <1>15, <1>19
  <2>2. Holds(Profile, C)
    BY <1>15, <1>18, <1>19, HoldsLess DEF HonestProfiles
  <2> HIDE DEF C
  <2>3. SumBy(Profile, C) <= Budget
    BY <2>1, <2>2, HoldsFit
  <2>4. IsFiniteSet(C)
    BY <2>1, RefsFinite DEF HonestProfiles
  <2>5. F!MapThenSumSet(LAMBDA s : Profile[s], C) <= Budget
    BY <2>3, <2>4, WeightIs
  <2> QED BY <2>5 DEF C
<1>21. F!Load(r)
  BY <1>10, <1>12, <1>13, <1>20 DEF F!Load, F!Becomes, Moves
<1> QED BY <1>2, <1>21 DEF FleetStep, F!Step

-----------------------------------------------------------------------------
(* Nobody closes where no thread may. *)
LEMMA NextCloses ==
  ASSUME NoClose, NobodyCloses, [Next]_vars
  PROVE  NobodyCloses'
<1> USE DEF shared, handles, world, local, NobodyCloses
<1>1. ASSUME NEW t \in Threads, Begin(t) PROVE closing' = closing
  BY <1>1 DEF Begin, Ask, AskBench, Unload, UnloadAll, PruneRead
<1>2. ASSUME NEW t \in Threads, Step(t) PROVE closing' = closing
  BY <1>2
  DEF Step, Turn, Enter, GiveUp, Leave, Transact, Admit, Refuse, Attach,
      EvictVictim, EvictOther, Reconnect, Spawn, LoadEnds, Loaded, LoadedBench,
      LoadFails, JobEnds, EndJob, EndBench, Free, Publish, EndUnload, PruneKill,
      PruneSync
<1>3. CASE Environment
  BY <1>3
  DEF Environment, ReadTable, Crash, Close, EndClose, Exit, WorkerDies, IdleExit,
      SocketLost, Republish, NoClose, Ours
<1>4. CASE UNCHANGED vars
  BY <1>4 DEF vars
<1> QED BY <1>1, <1>2, <1>3, <1>4 DEF Next

LEMMA InitFleet ==
  ASSUME PathInv, FleetShape, HeldSays, Init
  PROVE  F!Init
<1>1. \A r \in Refs, t \in Threads : ~Serves(t, r)
  BY DEF Init, Serves, Attached
<1>2. \A r \in Refs : ~Up(sock[r])
  BY DEF Init, Up
<1>3. \A r \in Refs : Held[r] = "absent"
  BY <1>1, <1>2 DEF HeldSays
<1>4. Held = [r \in Refs |-> Held[r]]
  BY DEF Held
<1> HIDE DEF Held
<1>5. [r \in Refs |-> Held[r]] = [r \in Refs |-> "absent"]
  BY <1>3
<1> QED BY <1>4, <1>5 DEF F!Init

FleetInv == PathInv /\ Unbenched /\ RoomInv(Profile) /\ NobodyCloses /\ FleetShape

LEMMA NextFleetInv ==
  ASSUME NothingShared, NoSocketLost, NobodyKilled, NoBench, NoClose,
         HonestProfiles, SomeHeavy, FleetInv, [Next]_vars
  PROVE  FleetInv'
<1>1. Before /\ PathInv'
  BY NextPath DEF FleetInv
<1>2. Unbenched'
  BY NextUnbenched DEF FleetInv, PathInv
<1>3. RoomInv(Profile)'
  BY <1>1, NextRoomInv DEF FleetInv, HonestProfiles
<1>4. NobodyCloses'
  BY NextCloses DEF FleetInv
<1>5. FleetShape'
  BY <1>1, <1>2, ShapeHoldsNext DEF NothingShared
<1> QED BY <1>1, <1>2, <1>3, <1>4, <1>5 DEF FleetInv

LEMMA NextFleet ==
  ASSUME NothingShared, NoSocketLost, NobodyKilled, HonestProfiles, EachFits,
         FleetInv, FleetInv', [Next]_vars
  PROVE  FleetStep
<1>1. Before
  BY NextPath DEF FleetInv
<1>2. HeldSays /\ HeldSays'
  BY ShapeSays, ShapeSaysNext DEF FleetInv
<1>3. ASSUME NEW t \in Threads, Spawn(t) PROVE FleetStep
  BY <1>1, <1>2, <1>3, SpawnFleet DEF FleetInv
<1>4. ASSUME \A t \in Threads : ~Spawn(t) PROVE FleetStep
  <2>1. Tidy
    BY <1>1, <1>4, TidyNext DEF FleetInv, PathInv
  <2>2. ASSUME NEW t \in Threads, Lends(t) PROVE FleetStep
    BY <1>2, <2>2, LoadedFleet, ReconnectFleet DEF Lends, FleetInv, PathInv
  <2>3. ASSUME NEW t \in Threads, EndJob(t) PROVE FleetStep
    BY <1>2, <2>1, <2>3, EndJobFleet DEF FleetInv, PathInv
  <2>4. ASSUME \A t \in Threads : ~Lends(t) /\ ~EndJob(t) PROVE FleetStep
    <3>1. PICK q : Loses(q)
      BY <1>4, <2>4, NextLoses DEF FleetInv
    <3> QED BY <1>2, <2>1, <3>1, LosesOne DEF FleetInv, PathInv
  <2> QED BY <2>2, <2>3, <2>4
<1> QED BY <1>3, <1>4

(* The supervisor takes no step that Fleet does not: models are loaded one *)
(* at a time and only when the whole park fits, a model is in at most one  *)
(* state, and no step changes two -- through turns, evictions, failed      *)
(* loads, prunes, idle exits and deaths of workers. It is so for any       *)
(* threads, variants and budget, and programs that share no variant, as    *)
(* long as nobody is killed or closes, no socket file vanishes, the bench  *)
(* is not used, no job is priced below the profile of its variant, every   *)
(* variant fits alone and one heavy model is allowed: without these the    *)
(* code does other things, and the README says which.                      *)
THEOREM StepsAreThoseOfFleet ==
  ASSUME NothingShared, NoSocketLost, NobodyKilled, NoBench, NoClose,
         HonestProfiles, SomeHeavy, EachFits
  PROVE  Spec => F!Init /\ [][F!Next]_Held
<1>1. Init => FleetInv
  <2> SUFFICES ASSUME Init PROVE FleetInv
    OBVIOUS
  <2>1. PathInv /\ RoomInv(Profile)
    BY InitPath, InitRoom
  <2>2. Unbenched /\ NobodyCloses
    BY NullAssumption DEF Init, Unbenched, NobodyCloses
  <2> QED BY <2>1, <2>2, ShapeHolds DEF FleetInv
<1>2. FleetInv /\ [Next]_vars => FleetInv'
  BY NextFleetInv
<1>3. Init => F!Init
  BY <1>1, InitFleet, ShapeSays DEF FleetInv
<1>4. FleetInv /\ FleetInv' /\ [Next]_vars => [F!Next]_Held
  BY NextFleet DEF FleetStep, F!Next
<1> QED BY <1>1, <1>2, <1>3, <1>4, PTL DEF Spec

=============================================================================
