-------------------------- MODULE SupervisorProofs --------------------------
(***************************************************************************)
(* The supervisors, for any number of processes, threads, variants and     *)
(* workers, whatever dies, is killed, disappears or is republished: the    *)
(* type invariant, the exclusion of the file lock and that of the turns;   *)
(* then, for programs that do not use one another's variants, that no      *)
(* running job loses its worker to somebody else's decision.               *)
(***************************************************************************)
EXTENDS Supervisor, PlanProofs

(* A thread that is somewhere in a call has one, of the right kind. *)
Calling ==
  \A t \in Threads :
    /\ pc[t] \in {"lock", "evict", "load", "job"} => req[t] \in Request
    /\ pc[t] \in {"enter", "release", "publish", "leave"} =>
         req[t] \in Request /\ req[t].op = "run"

TypeInv == TypeOK /\ Calling

-----------------------------------------------------------------------------
(* The tables the transactions compute are tables.                         *)

LEMMA PublishedType ==
  ASSUME TypeOK, NEW p \in Procs, NEW r \in Refs, NEW e \in Entry
  PROVE  Published(p, r, e) \in Entry
<1>1. \A f \in Entry, b \in Procs \cup {NoProc} : [f EXCEPT !.busy = b] \in Entry
  BY DEF Entry
<1>2. (IF job[p][r] THEN p ELSE NoProc) \in Procs \cup {NoProc}
  OBVIOUS
<1> QED BY <1>1, <1>2 DEF Published

LEMMA SyncType ==
  ASSUME TypeOK, NEW p \in Procs
  PROVE  /\ ReadMirror \in [Refs -> Entry \cup {NoEntry}]
         /\ SyncedFile(p) \in [Refs -> Entry \cup {NoEntry}]
         /\ SyncedMemory(p) \in [Refs -> Entry \cup {NoEntry}]
         /\ Sync(p) => known' \in [Procs -> [Refs -> Entry \cup {NoEntry}]]
<1>1. ReadMirror \in [Refs -> Entry \cup {NoEntry}]
  BY DEF TypeOK, ReadMirror
<1>2. SyncedFile(p) \in [Refs -> Entry \cup {NoEntry}]
  BY <1>1, PublishedType DEF SyncedFile, OnBothSides, TypeOK
<1>3. SyncedMemory(p) \in [Refs -> Entry \cup {NoEntry}]
  BY PublishedType DEF SyncedMemory, OnBothSides, TypeOK
<1>4. Sync(p) => known' \in [Procs -> [Refs -> Entry \cup {NoEntry}]]
  BY <1>3 DEF Sync, TypeOK
<1> QED BY <1>1, <1>2, <1>3, <1>4

LEMMA WrittenType ==
  ASSUME TypeOK, NEW p \in Procs, NEW file \in [Refs -> Entry \cup {NoEntry}]
  PROVE  Written(p, file) \in [Refs -> Entry \cup {NoEntry}]
BY DEF TypeOK, Written

(* The victims of acquire's plan are residents of the file it was made on, *)
(* and no job runs on them.                                                *)
LEMMA VictimsOfPlan ==
  ASSUME TypeInv, NEW t \in Threads, pc[t] = "lock", NEW age \in Ages
  PROVE  \A q \in Decision(t, age).evict :
           /\ q \in Refs /\ SyncedFile(ProcOf[t])[q] # NoEntry
           /\ ~Busy(SyncedFile(ProcOf[t])[q])
<1> DEFINE file == SyncedFile(ProcOf[t])
           park == Park(file, age)
<1>1. file \in [Refs -> Entry \cup {NoEntry}]
  BY SyncType, SupervisorAssumption DEF TypeInv
<1>2. DOMAIN park = {r \in Refs : file[r] # NoEntry}
  BY DEF Park
<1>3. \A q \in DOMAIN park :
        /\ park[q].busy = Busy(file[q])
        /\ park[q].busy \in BOOLEAN /\ park[q].pinned \in BOOLEAN
  <2> SUFFICES ASSUME NEW q \in DOMAIN park
               PROVE  /\ park[q].busy = Busy(file[q])
                      /\ park[q].busy \in BOOLEAN /\ park[q].pinned \in BOOLEAN
    OBVIOUS
  <2>1. file[q] \in Entry
    BY <1>1, <1>2
  <2> HIDE DEF file
  <2>2. park[q].busy = Busy(file[q]) /\ park[q].pinned = file[q].pinned
    BY <1>2 DEF Park
  <2> QED BY <2>1, <2>2 DEF Busy, Entry
<1>4. (req[t].op = "bench") \in BOOLEAN /\ req[t].over \in BOOLEAN
  BY DEF TypeInv, Calling, Request
<1> HIDE DEF park, file
<1>5. /\ Decision(t, age).evict \subseteq DOMAIN park
      /\ \A q \in Decision(t, age).evict : ~park[q].busy
  <2>1. LET plan == Plan(req[t].ref, req[t].peak, park, req[t].op = "bench",
                         req[t].over)
        IN  /\ plan.evict \subseteq DOMAIN park
            /\ \A q \in plan.evict : ~park[q].busy
    BY <1>3, <1>4, PlanSparesJobs
  <2> QED BY <2>1 DEF Decision, park, file
<1> QED BY <1>2, <1>3, <1>5 DEF file

-----------------------------------------------------------------------------
(* The parts several actions share.                                        *)

LEMMA BusyType ==
  \A e \in Entry, b \in Procs \cup {NoProc} : [e EXCEPT !.busy = b] \in Entry
BY DEF Entry

LEMMA NobodyType == Nobody \in [Refs -> Entry \cup {NoEntry}]
BY DEF Nobody

(* What an eviction does to the machine: nothing, or it kills one process  *)
(* at most and empties the memory of at most one other.                    *)
LEMMA EvictWorld ==
  ASSUME NEW t \in Threads, NEW r \in Refs, Evict(t, r)
  PROVE  \/ UNCHANGED world
         \/ /\ sock' = [sock EXCEPT ![r] = NoPid]
            /\ \E pid, serving :
                 worker' = [q \in Pids |->
                              IF q = pid THEN NoWorker
                              ELSE IF q = sock[r] /\ Up(q) /\ ~serving
                              THEN [worker[q] EXCEPT !.mem = 0]
                              ELSE worker[q]]
<1> DEFINE e == IF entries[r] # NoEntry THEN entries[r] ELSE known[ProcOf[t]][r]
           s == \E u \in Threads : conn[u] = sock[r]
           after(pid, serving) ==
             [q \in Pids |->
                IF q = pid THEN NoWorker
                ELSE IF q = sock[r] /\ Up(q) /\ ~serving
                THEN [worker[q] EXCEPT !.mem = 0]
                ELSE worker[q]]
<1>1. CASE e = NoEntry
  BY <1>1 DEF Evict
<1>2. CASE e # NoEntry
  <2>1. worker' = after(e.pid, s) /\ sock' = [sock EXCEPT ![r] = NoPid]
    BY <1>2 DEF Evict
  <2>2. \E pid, serving : worker' = after(pid, serving)
    <3> HIDE DEF after, s, e
    <3> QED BY <2>1
  <2> QED BY <2>1, <2>2
<1> QED BY <1>1, <1>2

LEMMA EvictType ==
  ASSUME TypeInv, NEW t \in Threads, NEW r \in Refs, Evict(t, r)
  PROVE  /\ entries' \in [Refs -> Entry \cup {NoEntry}]
         /\ \A q \in Refs \ {r} : entries'[q] = entries[q]
         /\ known' \in [Procs -> [Refs -> Entry \cup {NoEntry}]]
         /\ worker' \in [Pids -> Worker \cup {NoWorker}]
         /\ sock' \in [Refs -> Pids \cup {NoPid}]
<1>1. entries' = [entries EXCEPT ![r] = NoEntry]
  BY DEF Evict
<1>2. known' = [known EXCEPT ![ProcOf[t]][r] = NoEntry]
  BY DEF Evict
<1>3. known' \in [Procs -> [Refs -> Entry \cup {NoEntry}]]
  BY <1>2, SupervisorAssumption DEF TypeInv, TypeOK
<1>4. sock' \in [Refs -> Pids \cup {NoPid}]
  BY EvictWorld DEF world, TypeInv, TypeOK
<1>5. worker' \in [Pids -> Worker \cup {NoWorker}]
  <2>1. \A w \in Worker : [w EXCEPT !.mem = 0] \in Worker
    BY DEF Worker
  <2>2. \A q \in Pids : Up(q) => worker[q] \in Worker
    BY DEF TypeInv, TypeOK, Up
  <2>3. worker \in [Pids -> Worker \cup {NoWorker}]
    BY DEF TypeInv, TypeOK
  <2> QED BY EvictWorld, <2>1, <2>2, <2>3 DEF world
<1> QED BY <1>1, <1>3, <1>4, <1>5 DEF TypeInv, TypeOK

LEMMA LeaseType ==
  ASSUME TypeInv, NEW t \in Threads, pc[t] \in {"evict", "load"},
         NEW e \in Entry, GiveLease(t, e)
  PROVE  /\ known' \in [Procs -> [Refs -> Entry \cup {NoEntry}]]
         /\ mirror' \in [Refs -> Entry \cup {NoEntry}]
         /\ lock' = NoThread /\ entries' = Nobody /\ victims' = {}
         /\ pc' = [pc EXCEPT ![t] = "job"]
<1> DEFINE p == ProcOf[t]
           r == req[t].ref
           f == Published(p, r, e)
<1>1. p \in Procs
  BY SupervisorAssumption
<1>2. f \in Entry
  BY <1>1, PublishedType DEF TypeInv, Calling, Request
<1>3. /\ known' = [known EXCEPT ![p][r] = f]
      /\ mirror' = [Written(p, entries) EXCEPT ![r] = f]
      /\ Unlock
      /\ pc' = [pc EXCEPT ![t] = "job"]
  BY DEF GiveLease
<1>4. Written(p, entries) \in [Refs -> Entry \cup {NoEntry}]
  BY <1>1, WrittenType DEF TypeInv, TypeOK
<1>5. known \in [Procs -> [Refs -> Entry \cup {NoEntry}]]
  BY DEF TypeInv, TypeOK
<1> HIDE DEF f, r, p
<1>6. known' \in [Procs -> [Refs -> Entry \cup {NoEntry}]]
  BY <1>1, <1>2, <1>3, <1>5
<1>7. mirror' \in [Refs -> Entry \cup {NoEntry}]
  BY <1>2, <1>3, <1>4
<1> QED BY <1>3, <1>6, <1>7 DEF Unlock

LEMMA InitTypeInv == Init => TypeInv
BY SupervisorAssumption
  DEF Init, TypeInv, TypeOK, Calling, Nobody, NotReaped, Places

LEMMA NextTypeInv == TypeInv /\ [Next]_vars => TypeInv'
<1> SUFFICES ASSUME TypeInv, [Next]_vars PROVE TypeInv'
  OBVIOUS
<1> USE SupervisorAssumption
<1> USE DEF shared, handles, world, local
<1>1. ASSUME NEW t \in Threads, Ask(t) PROVE TypeInv'
  <2>1. req' \in [Threads -> Request \cup {NoReq}] /\ req'[t] \in Request /\ req'[t].op = "run"
    <3>0. PICK r \in Wants[t], pin \in BOOLEAN, over \in BOOLEAN :
            \E peak \in Demands[r] :
              req' = [req EXCEPT ![t] =
                        [op |-> "run", ref |-> r, pin |-> pin, over |-> over,
                         force |-> FALSE, peak |-> peak, doc |-> manifest[r]]]
      BY <1>1 DEF Ask
    <3>1. PICK peak \in Demands[r] :
            req' = [req EXCEPT ![t] =
                      [op |-> "run", ref |-> r, pin |-> pin, over |-> over,
                       force |-> FALSE, peak |-> peak, doc |-> manifest[r]]]
      BY <3>0
    <3>2. r \in Refs /\ peak \in Nat \cup {NoPeak} /\ manifest[r] \in Docs
      BY DEF TypeInv, TypeOK
    <3> QED BY <3>1, <3>2 DEF TypeInv, TypeOK, Request
  <2>2. \A u \in Threads \ {t} : req'[u] = req[u] /\ pc'[u] = pc[u]
    BY <1>1 DEF Ask, TypeInv, TypeOK
  <2> QED BY <1>1, <2>1, <2>2 DEF Ask, TypeInv, TypeOK, Calling, Places
<1>2. ASSUME NEW t \in Threads, AskBench(t) PROVE TypeInv'
  <2>1. req' \in [Threads -> Request \cup {NoReq}] /\ req'[t] \in Request
    <3>0. PICK r \in Wants[t] : \E peak \in Demands[r] :
            req' = [req EXCEPT ![t] =
                      [op |-> "bench", ref |-> r, pin |-> FALSE, over |-> FALSE,
                       force |-> FALSE, peak |-> peak, doc |-> manifest[r]]]
      BY <1>2 DEF AskBench
    <3>1. PICK peak \in Demands[r] :
            req' = [req EXCEPT ![t] =
                      [op |-> "bench", ref |-> r, pin |-> FALSE, over |-> FALSE,
                       force |-> FALSE, peak |-> peak, doc |-> manifest[r]]]
      BY <3>0
    <3>2. r \in Refs /\ peak \in Nat \cup {NoPeak} /\ manifest[r] \in Docs
      BY DEF TypeInv, TypeOK
    <3> QED BY <3>1, <3>2 DEF TypeInv, TypeOK, Request
  <2>2. \A u \in Threads \ {t} : req'[u] = req[u] /\ pc'[u] = pc[u]
    BY <1>2 DEF AskBench, TypeInv, TypeOK
  <2> QED BY <1>2, <2>1, <2>2 DEF AskBench, TypeInv, TypeOK, Calling, Places
<1>3. ASSUME NEW t \in Threads, Enter(t) PROVE TypeInv'
  BY <1>3 DEF Enter, TypeInv, TypeOK, Calling, Places
<1>4. ASSUME NEW t \in Threads, GiveUp(t) PROVE TypeInv'
  BY <1>4 DEF GiveUp, TypeInv, TypeOK, Calling, Places
<1>5. ASSUME NEW t \in Threads, Leave(t) PROVE TypeInv'
  <2> DEFINE p == ProcOf[t]
             r == req[t].ref
  <2>1. p \in Procs /\ r \in Refs
    BY <1>5 DEF Leave, TypeInv, Calling, Request
  <2>2. known' \in [Procs -> [Refs -> Entry \cup {NoEntry}]]
    <3>1. CASE known[p][r] = NoEntry
      BY <1>5, <3>1 DEF Leave, TypeInv, TypeOK
    <3>2. CASE known[p][r] # NoEntry
      <4>1. known[p][r] \in Entry
        BY <2>1, <3>2 DEF TypeInv, TypeOK
      <4>2. [known[p][r] EXCEPT !.busy = NoProc] \in Entry
        BY <4>1, BusyType
      <4>3. known' = [known EXCEPT ![p] = [@ EXCEPT ![r] = [known[p][r] EXCEPT !.busy = NoProc]]]
        BY <1>5, <2>1, <3>2 DEF Leave, TypeInv, TypeOK
      <4> QED BY <2>1, <4>2, <4>3 DEF TypeInv, TypeOK
    <3> QED BY <3>1, <3>2
  <2> QED BY <1>5, <2>1, <2>2 DEF Leave, TypeInv, TypeOK, Calling, Places
<1>6. ASSUME NEW t \in Threads, Admit(t) PROVE TypeInv'
  <2>1. victims' \subseteq {r \in Refs : SyncedFile(ProcOf[t])[r] # NoEntry}
    BY <1>6, VictimsOfPlan DEF Admit
  <2>2. SyncedFile(ProcOf[t]) \in [Refs -> Entry \cup {NoEntry}]
    BY SyncType DEF TypeInv
  <2>3. known' \in [Procs -> [Refs -> Entry \cup {NoEntry}]]
    BY <1>6, SyncType DEF Admit, TypeInv
  <2> QED BY <1>6, <2>1, <2>2, <2>3 DEF Admit, TypeInv, TypeOK, Calling, Places
<1>7. ASSUME NEW t \in Threads, Refuse(t) PROVE TypeInv'
  <2>1. known' \in [Procs -> [Refs -> Entry \cup {NoEntry}]]
    BY <1>7, SyncType DEF Refuse, TypeInv
  <2> QED BY <1>7, <2>1 DEF Refuse, TypeInv, TypeOK, Calling, Places
<1>8. ASSUME NEW t \in Threads, EvictVictim(t) PROVE TypeInv'
  <2>1. PICK r \in victims : Evict(t, r) /\ victims' = victims \ {r}
    BY <1>8 DEF EvictVictim
  <2>2. r \in Refs
    BY DEF TypeInv, TypeOK
  <2> QED BY <1>8, <2>1, <2>2, EvictType DEF EvictVictim, TypeInv, TypeOK, Calling
<1>9. ASSUME NEW t \in Threads, EvictOther(t) PROVE TypeInv'
  <2>1. req[t].ref \in Refs /\ Evict(t, req[t].ref) /\ victims = {}
    BY <1>9 DEF EvictOther, Attaching, TypeInv, Calling, Request
  <2> QED BY <1>9, <2>1, EvictType DEF EvictOther, TypeInv, TypeOK, Calling
<1>10. ASSUME NEW t \in Threads, Reconnect(t) PROVE TypeInv'
  <2> DEFINE r == req[t].ref
             e == [entries[r] EXCEPT !.pinned = @ \/ req[t].pin]
  <2>1. pc[t] = "evict" /\ r \in Refs /\ entries[r] # NoEntry /\ GiveLease(t, e)
    BY <1>10 DEF Reconnect, Attaching, TypeInv, Calling, Request
  <2>2. e \in Entry
    <3>1. entries[r] \in Entry /\ req[t] \in Request
      BY <2>1 DEF TypeInv, TypeOK, Calling
    <3>2. \A f \in Entry, b \in BOOLEAN : [f EXCEPT !.pinned = @ \/ b] \in Entry
      BY DEF Entry
    <3> QED BY <3>1, <3>2 DEF Request
  <2>3. conn' \in [Threads -> Pids \cup {NoPid}]
    BY <1>10, <2>1 DEF Reconnect, TypeInv, TypeOK
  <2>4. /\ known' \in [Procs -> [Refs -> Entry \cup {NoEntry}]]
        /\ mirror' \in [Refs -> Entry \cup {NoEntry}]
        /\ lock' = NoThread /\ entries' = Nobody /\ victims' = {}
        /\ pc' = [pc EXCEPT ![t] = "job"]
    BY <2>1, <2>2, LeaseType
  <2> HIDE DEF e
  <2> QED BY <1>10, <2>1, <2>3, <2>4, NobodyType
          DEF Reconnect, TypeInv, TypeOK, Calling, Places
<1>11. ASSUME NEW t \in Threads, Spawn(t) PROVE TypeInv'
  <2>1. req[t] \in Request /\ pc[t] = "evict"
    BY <1>11 DEF Spawn, TypeInv, Calling
  <2>2. PICK q \in FreePids, m \in Reported[req[t].ref] :
          /\ worker' = [worker EXCEPT ![q] =
                           [ref |-> req[t].ref, doc |-> req[t].doc, mem |-> m]]
          /\ conn' = [conn EXCEPT ![t] = q]
          /\ sock' = IF req[t].op = "run" THEN [sock EXCEPT ![req[t].ref] = q]
                                          ELSE sock
    BY <1>11 DEF Spawn
  <2>3. q \in Pids /\ m \in Nat
    BY <2>1 DEF FreePids, Request
  <2>4. worker' \in [Pids -> Worker \cup {NoWorker}]
    BY <2>1, <2>2, <2>3 DEF TypeInv, TypeOK, Worker, Request
  <2>5. /\ conn' \in [Threads -> Pids \cup {NoPid}]
        /\ sock' \in [Refs -> Pids \cup {NoPid}]
    BY <2>2, <2>3 DEF TypeInv, TypeOK
  <2> QED BY <1>11, <2>1, <2>4, <2>5 DEF Spawn, TypeInv, TypeOK, Calling, Places
<1>12. ASSUME NEW t \in Threads, Loaded(t) PROVE TypeInv'
  <2> DEFINE r == req[t].ref
             q == conn[t]
             e == [pid |-> q, peak |-> Larger(Profile[r], worker[q].mem),
                   pinned |-> req[t].pin, doc |-> req[t].doc, busy |-> NoProc]
  <2>1. pc[t] = "load" /\ req[t] \in Request /\ q \in Pids /\ worker[q] \in Worker
        /\ GiveLease(t, e)
    BY <1>12 DEF Loaded, TypeInv, TypeOK, Calling, Up
  <2>2. e \in Entry
    BY <2>1 DEF Entry, Request, Worker, Larger
  <2> HIDE DEF e
  <2>3. /\ known' \in [Procs -> [Refs -> Entry \cup {NoEntry}]]
        /\ mirror' \in [Refs -> Entry \cup {NoEntry}]
        /\ lock' = NoThread /\ entries' = Nobody /\ victims' = {}
        /\ pc' = [pc EXCEPT ![t] = "job"]
    BY <2>1, <2>2, LeaseType
  <2> QED BY <1>12, <2>1, <2>3, NobodyType
          DEF Loaded, TypeInv, TypeOK, Calling, Places
<1>13. ASSUME NEW t \in Threads, LoadedBench(t) PROVE TypeInv'
  <2>1. mirror' \in [Refs -> Entry \cup {NoEntry}]
    BY <1>13, WrittenType DEF LoadedBench, TypeInv, TypeOK
  <2> QED BY <1>13, <2>1, NobodyType
          DEF LoadedBench, Unlock, TypeInv, TypeOK, Calling, Places
<1>14. ASSUME NEW t \in Threads, LoadFails(t) PROVE TypeInv'
  BY <1>14, NobodyType
  DEF LoadFails, Gone, Unlock, TypeInv, TypeOK, Calling, Places
<1>15. ASSUME NEW t \in Threads, EndJob(t) PROVE TypeInv'
  BY <1>15 DEF EndJob, TypeInv, TypeOK, Calling, Places
<1>16. ASSUME NEW t \in Threads, EndBench(t) PROVE TypeInv'
  BY <1>16 DEF EndBench, Gone, TypeInv, TypeOK, Calling, Places
<1>17. ASSUME NEW t \in Threads, Free(t) PROVE TypeInv'
  BY <1>17 DEF Free, TypeInv, TypeOK, Calling, Places
<1>18. ASSUME NEW t \in Threads, Publish(t) PROVE TypeInv'
  <2>1. /\ known' \in [Procs -> [Refs -> Entry \cup {NoEntry}]]
        /\ mirror' \in [Refs -> Entry \cup {NoEntry}]
    BY <1>18, SyncType DEF Publish, SyncMirror, TypeInv
  <2> QED BY <1>18, <2>1 DEF Publish, TypeInv, TypeOK, Calling, Places
<1>19. ASSUME NEW t \in Threads, NEW r \in Wants[t], NEW force \in BOOLEAN,
              Unload(t, r, force)
       PROVE TypeInv'
  <2>1. r \in Refs /\ UnloadCall(r, force) \in Request
    BY DEF UnloadCall, Request, TypeInv, TypeOK
  <2>2. /\ known' \in [Procs -> [Refs -> Entry \cup {NoEntry}]]
        /\ SyncedFile(ProcOf[t]) \in [Refs -> Entry \cup {NoEntry}]
    BY <1>19, SyncType DEF Unload, TypeInv
  <2>3. \/ /\ lock' = t /\ entries' = SyncedFile(ProcOf[t]) /\ victims' = {r}
           /\ entries'[r] # NoEntry
           /\ pc' = [pc EXCEPT ![t] = "evict"]
           /\ req' = [req EXCEPT ![t] = UnloadCall(r, force)]
           /\ UNCHANGED mirror
        \/ /\ mirror' \in {mirror, SyncedFile(ProcOf[t])}
           /\ UNCHANGED <<lock, entries, victims, pc, req>>
    BY <1>19, Zenon DEF Unload
  <2>4. UNCHANGED <<alive, closing, manifest, job, holder, gate, worker, sock,
                    conn, reaped>>
    BY <1>19 DEF Unload
  <2>5. /\ victims' \subseteq {q \in Refs : entries'[q] # NoEntry}
        /\ entries' \in [Refs -> Entry \cup {NoEntry}]
        /\ mirror' \in [Refs -> Entry \cup {NoEntry}]
        /\ lock' \in Threads \cup {NoThread}
    BY <2>1, <2>2, <2>3 DEF TypeInv, TypeOK
  <2>6. /\ pc' \in [Threads -> Places]
        /\ req' \in [Threads -> Request \cup {NoReq}]
    <3>1. pc \in [Threads -> Places] /\ req \in [Threads -> Request \cup {NoReq}]
      BY DEF TypeInv, TypeOK
    <3>2. "evict" \in Places
      BY DEF Places
    <3>3. pc' = pc \/ pc' = [pc EXCEPT ![t] = "evict"]
      BY <2>3
    <3>4. req' = req \/ req' = [req EXCEPT ![t] = UnloadCall(r, force)]
      BY <2>3
    <3> QED BY <2>1, <3>1, <3>2, <3>3, <3>4
  <2>7. Calling'
    BY <2>1, <2>3 DEF TypeInv, TypeOK, Calling
  <2> QED BY <2>2, <2>4, <2>5, <2>6, <2>7 DEF TypeInv, TypeOK
<1>20. ASSUME NEW t \in Threads, NEW force \in BOOLEAN, UnloadAll(t, force)
       PROVE TypeInv'
  <2>1. \A r \in Refs : UnloadCall(r, force) \in Request
    BY DEF UnloadCall, Request, TypeInv, TypeOK
  <2>2. /\ known' \in [Procs -> [Refs -> Entry \cup {NoEntry}]]
        /\ SyncedFile(ProcOf[t]) \in [Refs -> Entry \cup {NoEntry}]
    BY <1>20, SyncType DEF UnloadAll, TypeInv
  <2>3. UNCHANGED <<alive, closing, manifest, job, holder, gate, worker, sock,
                    conn, reaped>>
    BY <1>20 DEF UnloadAll
  <2>4. CASE UNCHANGED <<lock, entries, victims, pc, req>>
    <3>1. mirror' \in [Refs -> Entry \cup {NoEntry}]
      BY <1>20, <2>2 DEF UnloadAll, TypeInv, TypeOK
    <3> QED BY <2>2, <2>3, <2>4, <3>1 DEF TypeInv, TypeOK, Calling
  <2>5. CASE /\ lock' = t
             /\ entries' = SyncedFile(ProcOf[t])
             /\ victims' \subseteq {r \in Refs : SyncedFile(ProcOf[t])[r] # NoEntry}
             /\ pc' = [pc EXCEPT ![t] = "evict"]
             /\ \E r \in Refs : req' = [req EXCEPT ![t] = UnloadCall(r, force)]
             /\ UNCHANGED mirror
    BY <2>1, <2>2, <2>3, <2>5 DEF TypeInv, TypeOK, Calling, Places
  <2> QED BY <1>20, <2>4, <2>5 DEF UnloadAll
<1>21. ASSUME NEW t \in Threads, EndUnload(t) PROVE TypeInv'
  <2>1. mirror' \in [Refs -> Entry \cup {NoEntry}]
    BY <1>21, WrittenType DEF EndUnload, TypeInv, TypeOK
  <2> QED BY <1>21, <2>1, NobodyType
          DEF EndUnload, Unlock, TypeInv, TypeOK, Calling, Places
<1>22. ASSUME NEW t \in Threads, PruneRead(t) PROVE TypeInv'
  BY <1>22 DEF PruneRead, Stale, TypeInv, TypeOK, Calling, Places, Entry
<1>23. ASSUME NEW t \in Threads, NEW r \in Refs, PruneKill(t, r) PROVE TypeInv'
  BY <1>23 DEF PruneKill, Gone, TypeInv, TypeOK, Calling, Places
<1>24. ASSUME NEW t \in Threads, PruneSync(t) PROVE TypeInv'
  <2>1. /\ known' \in [Procs -> [Refs -> Entry \cup {NoEntry}]]
        /\ mirror' \in [Refs -> Entry \cup {NoEntry}]
    BY <1>24, SyncType DEF PruneSync, SyncMirror, TypeInv
  <2> QED BY <1>24, <2>1 DEF PruneSync, TypeInv, TypeOK, Calling, Places
<1>25. ASSUME NEW p \in Procs, ReadTable(p) PROVE TypeInv'
  <2>1. known' \in [Procs -> [Refs -> Entry \cup {NoEntry}]]
    BY <1>25, PublishedType DEF ReadTable, OnBothSides, TypeInv, TypeOK
  <2> QED BY <1>25, <2>1 DEF ReadTable, TypeInv, TypeOK, Calling
<1>26. ASSUME NEW p \in Procs, Exit(p), mirror' \in [Refs -> Entry \cup {NoEntry}]
       PROVE TypeInv'
  <2>1. /\ lock' \in Threads \cup {NoThread}
        /\ entries' \in [Refs -> Entry \cup {NoEntry}]
        /\ victims' \subseteq {r \in Refs : entries'[r] # NoEntry}
    BY <1>26, NobodyType DEF Exit, Unlock, TypeInv, TypeOK
  <2>2. known' \in [Procs -> [Refs -> Entry \cup {NoEntry}]]
    BY <1>26, NobodyType DEF Exit, TypeInv, TypeOK
  <2>3. Calling'
    BY <1>26 DEF Exit, TypeInv, TypeOK, Calling
  <2> QED BY <1>26, <2>1, <2>2, <2>3 DEF Exit, TypeInv, TypeOK, Places, NotReaped
<1>27. ASSUME NEW p \in Procs, Crash(p) PROVE TypeInv'
  BY <1>26, <1>27 DEF Crash, TypeInv, TypeOK
<1>28. ASSUME NEW p \in Procs, EndClose(p) PROVE TypeInv'
  BY <1>26, <1>28, SyncType DEF EndClose, TypeInv
<1>29. ASSUME NEW p \in Procs, Close(p) PROVE TypeInv'
  BY <1>29 DEF Close, TypeInv, TypeOK, Calling
<1>30. ASSUME NEW q \in Pids, WorkerDies(q) \/ IdleExit(q) PROVE TypeInv'
  BY <1>30 DEF WorkerDies, IdleExit, Gone, TypeInv, TypeOK, Calling
<1>31. ASSUME NEW r \in Refs, SocketLost(r) \/ Republish(r) PROVE TypeInv'
  <2>1. CASE SocketLost(r)
    BY <2>1 DEF SocketLost, TypeInv, TypeOK, Calling
  <2>2. CASE Republish(r)
    BY <2>2 DEF Republish, TypeInv, TypeOK, Calling
  <2> QED BY <1>31, <2>1, <2>2
<1>32. CASE UNCHANGED vars
  BY <1>32 DEF vars, TypeInv, TypeOK, Calling
<1> QED
  BY <1>1, <1>2, <1>3, <1>4, <1>5, <1>6, <1>7, <1>8, <1>9, <1>10, <1>11, <1>12,
     <1>13, <1>14, <1>15, <1>16, <1>17, <1>18, <1>19, <1>20, <1>21, <1>22,
     <1>23, <1>24, <1>25, <1>27, <1>28, <1>29, <1>30, <1>31, <1>32
  DEF Next, Begin, Step, Turn, Transact, Attach, LoadEnds, JobEnds, Environment

-----------------------------------------------------------------------------
(* The file lock: nothing enters a transaction while another is open, and  *)
(* what ends one, a failure or the death of its process included, releases *)
(* it.                                                                     *)

LEMMA InitLock == Init => LockExclusive
BY SupervisorAssumption DEF Init, LockExclusive

LEMMA NextLock == TypeInv /\ LockExclusive /\ [Next]_vars => LockExclusive'
<1> SUFFICES ASSUME TypeInv, LockExclusive, [Next]_vars PROVE LockExclusive'
  OBVIOUS
<1> USE SupervisorAssumption
<1> USE DEF shared, handles, world, local
<1>1. ASSUME NEW t \in Threads, Ask(t) PROVE LockExclusive'
  BY <1>1 DEF Ask, Idle, TypeInv, TypeOK, LockExclusive
<1>2. ASSUME NEW t \in Threads, AskBench(t) PROVE LockExclusive'
  BY <1>2 DEF AskBench, Idle, TypeInv, TypeOK, LockExclusive
<1>3. ASSUME NEW t \in Threads, Enter(t) PROVE LockExclusive'
  BY <1>3 DEF Enter, TypeInv, TypeOK, LockExclusive
<1>4. ASSUME NEW t \in Threads, GiveUp(t) PROVE LockExclusive'
  BY <1>4 DEF GiveUp, TypeInv, TypeOK, LockExclusive
<1>5. ASSUME NEW t \in Threads, Leave(t) PROVE LockExclusive'
  BY <1>5 DEF Leave, TypeInv, TypeOK, LockExclusive
<1>6. ASSUME NEW t \in Threads, Admit(t) PROVE LockExclusive'
  BY <1>6 DEF Admit, LockFree, TypeInv, TypeOK, LockExclusive
<1>7. ASSUME NEW t \in Threads, Refuse(t) PROVE LockExclusive'
  BY <1>7 DEF Refuse, LockFree, TypeInv, TypeOK, LockExclusive
<1>8. ASSUME NEW t \in Threads, EvictVictim(t) PROVE LockExclusive'
  BY <1>8 DEF EvictVictim, TypeInv, TypeOK, LockExclusive
<1>9. ASSUME NEW t \in Threads, EvictOther(t) PROVE LockExclusive'
  BY <1>9 DEF EvictOther, Attaching, TypeInv, TypeOK, LockExclusive
<1>10. ASSUME NEW t \in Threads, Reconnect(t) PROVE LockExclusive'
  BY <1>10
  DEF Reconnect, Attaching, GiveLease, Unlock, TypeInv, TypeOK, LockExclusive
<1>11. ASSUME NEW t \in Threads, Spawn(t) PROVE LockExclusive'
  BY <1>11 DEF Spawn, TypeInv, TypeOK, LockExclusive
<1>12. ASSUME NEW t \in Threads, Loaded(t) PROVE LockExclusive'
  BY <1>12 DEF Loaded, GiveLease, Unlock, TypeInv, TypeOK, LockExclusive
<1>13. ASSUME NEW t \in Threads, LoadedBench(t) PROVE LockExclusive'
  BY <1>13 DEF LoadedBench, Unlock, TypeInv, TypeOK, LockExclusive
<1>14. ASSUME NEW t \in Threads, LoadFails(t) PROVE LockExclusive'
  BY <1>14 DEF LoadFails, Unlock, TypeInv, TypeOK, LockExclusive
<1>15. ASSUME NEW t \in Threads, EndJob(t) PROVE LockExclusive'
  BY <1>15 DEF EndJob, TypeInv, TypeOK, LockExclusive
<1>16. ASSUME NEW t \in Threads, EndBench(t) PROVE LockExclusive'
  BY <1>16 DEF EndBench, TypeInv, TypeOK, LockExclusive
<1>17. ASSUME NEW t \in Threads, Free(t) PROVE LockExclusive'
  BY <1>17 DEF Free, TypeInv, TypeOK, LockExclusive
<1>18. ASSUME NEW t \in Threads, Publish(t) PROVE LockExclusive'
  BY <1>18 DEF Publish, SyncMirror, TypeInv, TypeOK, LockExclusive
<1>19. ASSUME NEW t \in Threads, EndUnload(t) PROVE LockExclusive'
  BY <1>19 DEF EndUnload, Unlock, TypeInv, TypeOK, LockExclusive
<1>20. ASSUME NEW t \in Threads, PruneRead(t) PROVE LockExclusive'
  BY <1>20 DEF PruneRead, Idle, TypeInv, TypeOK, LockExclusive
<1>21. ASSUME NEW t \in Threads, PruneSync(t) PROVE LockExclusive'
  BY <1>21 DEF PruneSync, SyncMirror, TypeInv, TypeOK, LockExclusive
<1>22. ASSUME NEW t \in Threads, NEW r \in Wants[t], NEW force \in BOOLEAN,
              Unload(t, r, force)
       PROVE LockExclusive'
  BY <1>22
  DEF Unload, LockFree, Idle, UnloadCall, TypeInv, TypeOK, LockExclusive
<1>23. ASSUME NEW t \in Threads, NEW force \in BOOLEAN, UnloadAll(t, force)
       PROVE LockExclusive'
  <2>1. lock = NoThread /\ pc[t] = "idle"
    BY <1>23 DEF UnloadAll, LockFree, Idle
  <2>2. \/ UNCHANGED <<lock, pc>>
        \/ lock' = t /\ pc' = [pc EXCEPT ![t] = "evict"]
    BY <1>23 DEF UnloadAll
  <2> QED BY <2>1, <2>2, SupervisorAssumption DEF TypeInv, TypeOK, LockExclusive
<1>24. ASSUME NEW t \in Threads, NEW r \in Refs, PruneKill(t, r) PROVE LockExclusive'
  BY <1>24 DEF PruneKill, TypeInv, TypeOK, LockExclusive
<1>25. ASSUME NEW p \in Procs, ReadTable(p) PROVE LockExclusive'
  BY <1>25 DEF ReadTable, TypeInv, TypeOK, LockExclusive
<1>26. ASSUME NEW p \in Procs, Exit(p) PROVE LockExclusive'
  BY <1>26 DEF Exit, Unlock, Ours, TypeInv, TypeOK, LockExclusive
<1>27. ASSUME NEW p \in Procs, Crash(p) \/ EndClose(p) PROVE LockExclusive'
  BY <1>26, <1>27 DEF Crash, EndClose
<1>28. ASSUME NEW p \in Procs, Close(p) PROVE LockExclusive'
  BY <1>28 DEF Close, TypeInv, TypeOK, LockExclusive
<1>29. ASSUME NEW q \in Pids, WorkerDies(q) \/ IdleExit(q) PROVE LockExclusive'
  BY <1>29 DEF WorkerDies, IdleExit, TypeInv, TypeOK, LockExclusive
<1>30. ASSUME NEW r \in Refs, SocketLost(r) \/ Republish(r) PROVE LockExclusive'
  BY <1>30 DEF SocketLost, Republish, TypeInv, TypeOK, LockExclusive
<1>31. CASE UNCHANGED vars
  BY <1>31 DEF vars, TypeInv, TypeOK, LockExclusive
<1> QED
  BY <1>1, <1>2, <1>3, <1>4, <1>5, <1>6, <1>7, <1>8, <1>9, <1>10, <1>11,
     <1>12, <1>13, <1>14, <1>15, <1>16, <1>17, <1>18, <1>19, <1>20, <1>21,
     <1>22, <1>23, <1>24, <1>25, <1>27, <1>28, <1>29, <1>30, <1>31
  DEF Next, Begin, Step, Turn, Transact, Attach, LoadEnds, JobEnds, Environment

-----------------------------------------------------------------------------
(* The turns. A thread in its turn has the gate of its variant closed; the *)
(* gate opens only when the thread whose turn it was leaves.               *)

GateHeld == \A t \in Threads : InTurn(t) => gate[ProcOf[t]][req[t].ref]

TurnInv == GateHeld /\ TurnExclusive

LEMMA InitTurn == Init => TurnInv
BY DEF Init, TurnInv, GateHeld, TurnExclusive, InTurn

LEMMA NextTurn == TypeInv /\ TurnInv /\ [Next]_vars => TurnInv'
<1> SUFFICES ASSUME TypeInv, TurnInv, [Next]_vars PROVE TurnInv'
  OBVIOUS
<1> USE SupervisorAssumption
<1> USE DEF shared, handles, world, local
<1>1. ASSUME NEW t \in Threads, Ask(t) PROVE TurnInv'
  BY <1>1
  DEF Ask, TypeInv, TypeOK, Calling, TurnInv, GateHeld, TurnExclusive, InTurn
<1>2. ASSUME NEW t \in Threads, AskBench(t) PROVE TurnInv'
  BY <1>2
  DEF AskBench, TypeInv, TypeOK, Calling, TurnInv, GateHeld, TurnExclusive,
      InTurn
<1>3. ASSUME NEW t \in Threads, Enter(t) PROVE TurnInv'
  <2>1. /\ pc[t] = "enter" /\ ~gate[ProcOf[t]][req[t].ref]
        /\ gate' = [gate EXCEPT ![ProcOf[t]][req[t].ref] = TRUE]
        /\ pc' = [pc EXCEPT ![t] = "lock"]
        /\ UNCHANGED req
    BY <1>3 DEF Enter, TurnFree
  <2>2. ProcOf[t] \in Procs /\ req[t].ref \in Refs
    BY <2>1 DEF TypeInv, Calling, Request
  <2>3. \A u \in Threads \ {t} : InTurn(u)' => InTurn(u)
    BY <2>1 DEF InTurn, TypeInv, TypeOK
  <2>4. \A u \in Threads \ {t} :
          InTurn(u) => gate[ProcOf[u]][req[u].ref]
    BY DEF TurnInv, GateHeld
  <2>5. \A u \in Threads \ {t} :
          InTurn(u) => ~(ProcOf[u] = ProcOf[t] /\ req[u].ref = req[t].ref)
    BY <2>1, <2>4
  <2>6. TurnExclusive'
    BY <2>1, <2>3, <2>5 DEF TurnInv, TurnExclusive
  <2>7. gate'[ProcOf[t]][req[t].ref]
    BY <2>1, <2>2 DEF TypeInv, TypeOK
  <2>8. \A q \in Procs, r \in Refs : gate[q][r] => gate'[q][r]
    BY <2>1, <2>2 DEF TypeInv, TypeOK
  <2>9. \A u \in Threads : InTurn(u) => req[u].ref \in Refs /\ ProcOf[u] \in Procs
    BY DEF InTurn, TypeInv, Calling, Request
  <2>10. GateHeld'
    BY <2>1, <2>3, <2>4, <2>7, <2>8, <2>9 DEF GateHeld
  <2> QED BY <2>6, <2>10 DEF TurnInv
<1>4. ASSUME NEW t \in Threads, GiveUp(t) PROVE TurnInv'
  BY <1>4
  DEF GiveUp, TypeInv, TypeOK, Calling, TurnInv, GateHeld, TurnExclusive,
      InTurn
<1>5. ASSUME NEW t \in Threads, Leave(t) PROVE TurnInv'
  BY <1>5
  DEF Leave, TypeInv, TypeOK, Calling, TurnInv, GateHeld, TurnExclusive,
      InTurn
<1>6. ASSUME NEW t \in Threads, Admit(t) PROVE TurnInv'
  BY <1>6
  DEF Admit, LockFree, TypeInv, TypeOK, Calling, TurnInv, GateHeld,
      TurnExclusive, InTurn
<1>7. ASSUME NEW t \in Threads, Refuse(t) PROVE TurnInv'
  BY <1>7
  DEF Refuse, LockFree, TypeInv, TypeOK, Calling, TurnInv, GateHeld,
      TurnExclusive, InTurn
<1>8. ASSUME NEW t \in Threads, EvictVictim(t) PROVE TurnInv'
  BY <1>8
  DEF EvictVictim, TypeInv, TypeOK, Calling, TurnInv, GateHeld, TurnExclusive,
      InTurn
<1>9. ASSUME NEW t \in Threads, EvictOther(t) PROVE TurnInv'
  BY <1>9
  DEF EvictOther, Attaching, TypeInv, TypeOK, Calling, TurnInv, GateHeld,
      TurnExclusive, InTurn
<1>10. ASSUME NEW t \in Threads, Reconnect(t) PROVE TurnInv'
  BY <1>10
  DEF Reconnect, Attaching, GiveLease, Unlock, TypeInv, TypeOK, Calling,
      TurnInv, GateHeld, TurnExclusive, InTurn
<1>11. ASSUME NEW t \in Threads, Spawn(t) PROVE TurnInv'
  BY <1>11
  DEF Spawn, TypeInv, TypeOK, Calling, TurnInv, GateHeld, TurnExclusive,
      InTurn
<1>12. ASSUME NEW t \in Threads, Loaded(t) PROVE TurnInv'
  BY <1>12
  DEF Loaded, GiveLease, Unlock, TypeInv, TypeOK, Calling, TurnInv, GateHeld,
      TurnExclusive, InTurn
<1>13. ASSUME NEW t \in Threads, LoadedBench(t) PROVE TurnInv'
  BY <1>13
  DEF LoadedBench, Unlock, TypeInv, TypeOK, Calling, TurnInv, GateHeld,
      TurnExclusive, InTurn
<1>14. ASSUME NEW t \in Threads, LoadFails(t) PROVE TurnInv'
  BY <1>14
  DEF LoadFails, Unlock, TypeInv, TypeOK, Calling, TurnInv, GateHeld,
      TurnExclusive, InTurn
<1>15. ASSUME NEW t \in Threads, EndJob(t) PROVE TurnInv'
  BY <1>15
  DEF EndJob, TypeInv, TypeOK, Calling, TurnInv, GateHeld, TurnExclusive,
      InTurn
<1>16. ASSUME NEW t \in Threads, EndBench(t) PROVE TurnInv'
  BY <1>16
  DEF EndBench, TypeInv, TypeOK, Calling, TurnInv, GateHeld, TurnExclusive,
      InTurn
<1>17. ASSUME NEW t \in Threads, Free(t) PROVE TurnInv'
  BY <1>17
  DEF Free, TypeInv, TypeOK, Calling, TurnInv, GateHeld, TurnExclusive, InTurn
<1>18. ASSUME NEW t \in Threads, Publish(t) PROVE TurnInv'
  BY <1>18
  DEF Publish, SyncMirror, TypeInv, TypeOK, Calling, TurnInv, GateHeld,
      TurnExclusive, InTurn
<1>19. ASSUME NEW t \in Threads, EndUnload(t) PROVE TurnInv'
  BY <1>19
  DEF EndUnload, Unlock, TypeInv, TypeOK, Calling, TurnInv, GateHeld,
      TurnExclusive, InTurn
<1>20. ASSUME NEW t \in Threads, PruneRead(t) PROVE TurnInv'
  BY <1>20
  DEF PruneRead, TypeInv, TypeOK, Calling, TurnInv, GateHeld, TurnExclusive,
      InTurn
<1>21. ASSUME NEW t \in Threads, PruneSync(t) PROVE TurnInv'
  BY <1>21
  DEF PruneSync, SyncMirror, TypeInv, TypeOK, Calling, TurnInv, GateHeld,
      TurnExclusive, InTurn
<1>22. ASSUME NEW t \in Threads, NEW r \in Wants[t], NEW force \in BOOLEAN,
              Unload(t, r, force)
       PROVE TurnInv'
  <2>1. UNCHANGED gate /\ pc[t] = "idle"
    BY <1>22 DEF Unload, Idle
  <2>2. \/ UNCHANGED <<pc, req>>
        \/ /\ pc' = [pc EXCEPT ![t] = "evict"]
           /\ req' = [req EXCEPT ![t] = UnloadCall(r, force)]
    BY <1>22, Zenon DEF Unload
  <2>3. UnloadCall(r, force).op # "run"
    BY DEF UnloadCall
  <2>4. \A u \in Threads : InTurn(u)' => InTurn(u) /\ req'[u] = req[u]
    BY <2>1, <2>2, <2>3 DEF InTurn, TypeInv, TypeOK
  <2> QED BY <2>1, <2>4 DEF TurnInv, GateHeld, TurnExclusive
<1>23. ASSUME NEW t \in Threads, NEW force \in BOOLEAN, UnloadAll(t, force)
       PROVE TurnInv'
  <2>1. UNCHANGED gate /\ pc[t] = "idle"
    BY <1>23 DEF UnloadAll, Idle
  <2>2. \/ UNCHANGED <<pc, req>>
        \/ /\ pc' = [pc EXCEPT ![t] = "evict"]
           /\ \E r \in Refs : req' = [req EXCEPT ![t] = UnloadCall(r, force)]
    BY <1>23 DEF UnloadAll
  <2>3. \A r \in Refs : UnloadCall(r, force).op # "run"
    BY DEF UnloadCall
  <2>4. \A u \in Threads : InTurn(u)' => InTurn(u) /\ req'[u] = req[u]
    BY <2>1, <2>2, <2>3 DEF InTurn, TypeInv, TypeOK
  <2> QED BY <2>1, <2>4 DEF TurnInv, GateHeld, TurnExclusive
<1>24. ASSUME NEW t \in Threads, NEW r \in Refs, PruneKill(t, r) PROVE TurnInv'
  BY <1>24
  DEF PruneKill, TypeInv, TypeOK, Calling, TurnInv, GateHeld, TurnExclusive,
      InTurn
<1>25. ASSUME NEW p \in Procs, ReadTable(p) PROVE TurnInv'
  BY <1>25
  DEF ReadTable, TypeInv, TypeOK, Calling, TurnInv, GateHeld, TurnExclusive,
      InTurn
<1>26. ASSUME NEW p \in Procs, Exit(p) PROVE TurnInv'
  BY <1>26
  DEF Exit, Unlock, Ours, TypeInv, TypeOK, Calling, TurnInv, GateHeld,
      TurnExclusive, InTurn
<1>27. ASSUME NEW p \in Procs, Crash(p) \/ EndClose(p) PROVE TurnInv'
  BY <1>26, <1>27 DEF Crash, EndClose
<1>28. ASSUME NEW p \in Procs, Close(p) PROVE TurnInv'
  BY <1>28
  DEF Close, TypeInv, TypeOK, Calling, TurnInv, GateHeld, TurnExclusive,
      InTurn
<1>29. ASSUME NEW q \in Pids, WorkerDies(q) \/ IdleExit(q) PROVE TurnInv'
  BY <1>29
  DEF WorkerDies, IdleExit, TypeInv, TypeOK, Calling, TurnInv, GateHeld,
      TurnExclusive, InTurn
<1>30. ASSUME NEW r \in Refs, SocketLost(r) \/ Republish(r) PROVE TurnInv'
  BY <1>30
  DEF SocketLost, Republish, TypeInv, TypeOK, Calling, TurnInv, GateHeld,
      TurnExclusive, InTurn
<1>31. CASE UNCHANGED vars
  BY <1>31
  DEF vars, TypeInv, TypeOK, Calling, TurnInv, GateHeld, TurnExclusive, InTurn
<1> QED
  BY <1>1, <1>2, <1>3, <1>4, <1>5, <1>6, <1>7, <1>8, <1>9, <1>10, <1>11,
     <1>12, <1>13, <1>14, <1>15, <1>16, <1>17, <1>18, <1>19, <1>20, <1>21,
     <1>22, <1>23, <1>24, <1>25, <1>27, <1>28, <1>29, <1>30, <1>31
  DEF Next, Begin, Step, Turn, Transact, Attach, LoadEnds, JobEnds, Environment

-----------------------------------------------------------------------------

(* Whatever is run, refused, killed or lost, the tables of the supervisors *)
(* keep their shape, and a transaction only evicts what its file contains. *)
THEOREM SupervisorTyped == Spec => []TypeOK
<1>1. TypeInv => TypeOK
  BY DEF TypeInv
<1> QED BY <1>1, InitTypeInv, NextTypeInv, PTL DEF Spec

(* Evictions and loads of two threads, of one process or of two, never     *)
(* overlap: residents.lock covers them from plan to write.                 *)
THEOREM TransactionsExclude == Spec => []LockExclusive
<1>1. Init => TypeInv /\ LockExclusive
  BY InitTypeInv, InitLock
<1>2. TypeInv /\ LockExclusive /\ [Next]_vars => (TypeInv /\ LockExclusive)'
  BY NextTypeInv, NextLock
<1> QED BY <1>1, <1>2, PTL DEF Spec

(* One thread at a time has the turn of a variant in a process, through    *)
(* refusals, failed loads, time-outs, closings and crashes.                *)
THEOREM TurnsExclude == Spec => []TurnExclusive
<1>1. Init => TypeInv /\ TurnInv
  BY InitTypeInv, InitTurn
<1>2. TypeInv /\ TurnInv /\ [Next]_vars => (TypeInv /\ TurnInv)'
  BY NextTypeInv, NextTurn
<1>3. TurnInv => TurnExclusive
  BY DEF TurnInv
<1> QED BY <1>1, <1>2, <1>3, PTL DEF Spec

-----------------------------------------------------------------------------
(* Running jobs are spared.                                                *)

(* Programs share the machine and the mirror, but no variant. The run      *)
(* shared_variant shows what happens otherwise.                            *)
NothingShared ==
  \A t, u \in Threads : ProcOf[t] # ProcOf[u] => Wants[t] \cap Wants[u] = {}

Attached(t) == pc[t] \in {"load", "job"}
Benching(t) == Attached(t) /\ req[t].op = "bench"
InJob(t) == pc[t] = "job" /\ Up(conn[t]) /\ ProcOf[t] \notin closing

(* What a table may say of the variant r: the process it names serves r,   *)
(* is not a bench's, and if a job runs on it the entry says so.            *)
Good(r, e) ==
  e # NoEntry =>
    /\ Up(e.pid) => worker[e.pid].ref = r
    /\ \A t \in Threads :
         /\ Benching(t) => e.pid # conn[t]
         /\ InJob(t) /\ e.pid = conn[t] => e.busy = ProcOf[t]

TablesGood ==
  \A r \in Refs :
    /\ Good(r, mirror[r])
    /\ Good(r, entries[r])
    /\ \A p \in Procs : Good(r, known[p][r])

(* A connected worker serves the variant its caller asked for; a path is   *)
(* bound by a worker of its variant; a bench's worker is nobody else's.    *)
Linked ==
  /\ \A t \in Threads : Attached(t) =>
       /\ conn[t] \in Pids /\ req[t].op \in {"run", "bench"}
       /\ Up(conn[t]) => worker[conn[t]].ref = req[t].ref
  /\ \A r \in Refs : Up(sock[r]) => worker[sock[r]].ref = r
  /\ \A t \in Threads : Benching(t) =>
       /\ \A r \in Refs : sock[r] # conn[t]
       /\ \A u \in Threads \ {t} : conn[u] # conn[t]

(* A thread runs what it wants, and a program remembers only that.         *)
Running(t) == (pc[t] = "enter" /\ req[t].op = "run") \/ InTurn(t)
Wanted ==
  /\ \A t \in Threads : Running(t) => req[t].ref \in Wants[t]
  /\ \A p \in Procs, r \in Refs :
       known[p][r] # NoEntry => \E t \in Threads : ProcOf[t] = p /\ r \in Wants[t]

(* From the turn to the end of the job, the handle is marked busy.         *)
Holding(t) == InTurn(t) /\ pc[t] \in {"lock", "evict", "load", "job"}
Marked ==
  \A t \in Threads :
    Holding(t) /\ ProcOf[t] \notin closing => job[ProcOf[t]][req[t].ref]

Living == \A t \in Threads : pc[t] # "gone" => ProcOf[t] \in alive

(* The plan of the open transaction still spares the jobs.                 *)
VictimsFree ==
  \A u \in Threads, t \in Threads, r \in Refs :
    /\ pc[u] = "evict" /\ ~req[u].force
    /\ r \in victims /\ InJob(t)
    => entries[r].pid # conn[t]

SparedInv == TablesGood /\ Linked /\ Wanted /\ Marked /\ Living /\ VictimsFree

-----------------------------------------------------------------------------
(* Steps that start no job, lend no worker and take no turn.               *)

(* Good after the step, of an entry e known now. *)
GoodNext(r, e) ==
  e # NoEntry =>
    /\ e.pid # NoPid /\ worker'[e.pid] # NoWorker => worker'[e.pid].ref = r
    /\ \A t \in Threads :
         /\ Benching(t)' => e.pid # conn'[t]
         /\ InJob(t)' /\ e.pid = conn'[t] => e.busy = ProcOf[t]

Calm ==
  /\ \A q \in Pids :
       worker'[q] # NoWorker =>
         worker[q] # NoWorker /\ worker'[q].ref = worker[q].ref
  /\ \A t \in Threads :
       /\ Attached(t)' => Attached(t) /\ conn'[t] = conn[t] /\ req'[t] = req[t]
       /\ pc'[t] = "job" => pc[t] = "job" \/ req[t].op = "bench"
       /\ conn'[t] \in {conn[t], NoPid}
       /\ pc'[t] = "job" /\ ProcOf[t] \notin closing' => ProcOf[t] \notin closing
  /\ \A r \in Refs : sock'[r] \in {sock[r], NoPid}

Steady ==
  /\ Calm
  /\ UNCHANGED <<job, alive, closing>>
  /\ \A t \in Threads :
       /\ pc'[t] # "gone" => pc[t] # "gone"
       /\ Running(t)' => Running(t) /\ req'[t].ref = req[t].ref
       /\ Holding(t)' => Holding(t)
  /\ \A p \in Procs, r \in Refs : known'[p][r] # NoEntry => known[p][r] # NoEntry

LEMMA UpStays ==
  ASSUME TypeInv, Calm
  PROVE  \A q \in Pids \cup {NoPid} :
           Up(q)' => Up(q) /\ worker'[q].ref = worker[q].ref
BY SupervisorAssumption DEF Calm, Up

LEMMA JobsStay ==
  ASSUME TypeInv, Linked, Calm
  PROVE  \A t \in Threads :
           InJob(t)' => conn'[t] = conn[t] /\ (InJob(t) \/ Benching(t))
<1>1. \A t \in Threads : conn[t] \in Pids \cup {NoPid}
  BY DEF TypeInv, TypeOK
<1> QED BY <1>1, UpStays DEF Calm, InJob, Benching, Attached

LEMMA GoodStays ==
  ASSUME TypeInv, Linked, Calm
  PROVE  \A r \in Refs, e \in Entry \cup {NoEntry} : Good(r, e) => GoodNext(r, e)
<1> SUFFICES ASSUME NEW r \in Refs, NEW e \in Entry, e # NoEntry, Good(r, e)
             PROVE  GoodNext(r, e)
  BY DEF GoodNext
<1>1. e.pid \in Pids
  BY DEF Entry
<1>2. e.pid # NoPid /\ worker'[e.pid] # NoWorker => worker'[e.pid].ref = r
  BY <1>1, UpStays DEF Good, Up
<1>3. ASSUME NEW t \in Threads, Benching(t)' PROVE e.pid # conn'[t]
  BY <1>3 DEF Good, Calm, Benching
<1>4. ASSUME NEW t \in Threads, InJob(t)', e.pid = conn'[t]
      PROVE  e.busy = ProcOf[t]
  BY <1>4, JobsStay DEF Good
<1> QED BY <1>2, <1>3, <1>4 DEF GoodNext

LEMMA LinkedStays == ASSUME TypeInv, Linked, Calm PROVE Linked'
<1>1. /\ \A t \in Threads : conn[t] \in Pids \cup {NoPid}
      /\ \A r \in Refs : sock[r] \in Pids \cup {NoPid}
  BY DEF TypeInv, TypeOK
<1>2. ~Up(NoPid)'
  BY DEF Up
<1>3. ASSUME NEW t \in Threads, Attached(t)'
      PROVE  /\ conn'[t] \in Pids /\ req'[t].op \in {"run", "bench"}
             /\ Up(conn[t])' => worker'[conn'[t]].ref = req'[t].ref
  BY <1>1, <1>3, UpStays DEF Linked, Calm, Up
<1>4. ASSUME NEW r \in Refs, Up(sock[r])' PROVE worker'[sock'[r]].ref = r
  <2>1. sock'[r] = sock[r]
    BY <1>2, <1>4 DEF Calm, Up
  <2> QED BY <1>1, <1>4, <2>1, UpStays DEF Linked, Up
<1>5. ASSUME NEW t \in Threads, Benching(t)'
      PROVE  /\ \A r \in Refs : sock'[r] # conn'[t]
             /\ \A u \in Threads \ {t} : conn'[u] # conn'[t]
  <2>1. Benching(t) /\ conn'[t] = conn[t] /\ conn[t] \in Pids
    BY <1>5 DEF Calm, Benching, Linked
  <2> QED BY <2>1, SupervisorAssumption DEF Linked, Calm
<1> QED BY <1>3, <1>4, <1>5 DEF Linked

LEMMA SteadyStep ==
  ASSUME TypeInv, SparedInv, Steady
  PROVE  Linked' /\ Wanted' /\ Marked' /\ Living'
<1>1. Linked'
  BY LinkedStays DEF Steady, SparedInv
<1>2. Wanted'
  BY DEF Steady, SparedInv, Wanted
<1>3. Marked'
  <2>1. ASSUME NEW t \in Threads, Holding(t)', ProcOf[t] \notin closing'
        PROVE  job'[ProcOf[t]][req'[t].ref]
    BY <2>1 DEF Steady, SparedInv, Marked, Holding, Running
  <2> QED BY <2>1 DEF Marked
<1>4. Living'
  BY DEF Steady, SparedInv, Living
<1> QED BY <1>1, <1>2, <1>3, <1>4

LEMMA TablesNext ==
  ASSUME \A r \in Refs : /\ GoodNext(r, mirror'[r])
                         /\ GoodNext(r, entries'[r])
                         /\ \A p \in Procs : GoodNext(r, known'[p][r])
  PROVE  TablesGood'
BY DEF TablesGood, GoodNext, Good, Up

-----------------------------------------------------------------------------
(* What the tables are filled from.                                        *)

(* An entry of r the step finds somewhere, or publishes. *)
Drawn(r, e) ==
  \/ e \in {NoEntry, mirror[r], entries[r]}
  \/ \E p \in Procs :
       \/ e = known[p][r]
       \/ known[p][r] # NoEntry /\ e = Published(p, r, known[p][r])

Drawing ==
  \A r \in Refs :
    /\ Drawn(r, mirror'[r])
    /\ Drawn(r, entries'[r])
    /\ \A p \in Procs : Drawn(r, known'[p][r])

(* The job served by an entry of r is one of r, in the program that        *)
(* remembers r.                                                            *)
LEMMA JobOfEntry ==
  ASSUME NothingShared, TypeInv, SparedInv,
         NEW p \in Procs, NEW r \in Refs, known[p][r] # NoEntry,
         NEW e \in Entry, Good(r, e),
         NEW t \in Threads, InJob(t), e.pid = conn[t]
  PROVE  ProcOf[t] = p /\ req[t].ref = r /\ InTurn(t)
<1>1. Up(conn[t]) /\ Attached(t) /\ ~Benching(t)
  BY NullAssumption DEF Good, InJob, Attached
<1>2. req[t].op = "run" /\ req[t].ref = r
  BY <1>1, NullAssumption DEF Good, SparedInv, Linked, Benching
<1>3. InTurn(t) /\ r \in Wants[t]
  BY <1>2 DEF InTurn, InJob, SparedInv, Wanted, Running
<1>4. PICK u \in Threads : ProcOf[u] = p /\ r \in Wants[u]
  BY DEF SparedInv, Wanted
<1> QED BY <1>2, <1>3, <1>4 DEF NothingShared

LEMMA PublishedGood ==
  ASSUME NothingShared, TypeInv, SparedInv,
         NEW p \in Procs, NEW r \in Refs, known[p][r] # NoEntry
  PROVE  Good(r, Published(p, r, known[p][r]))
<1> DEFINE e == known[p][r]
           f == Published(p, r, e)
<1>1. e \in Entry /\ Good(r, e)
  BY DEF TypeInv, TypeOK, SparedInv, TablesGood
<1>2. f.pid = e.pid /\ f.busy = IF job[p][r] THEN p ELSE NoProc
  BY <1>1 DEF Published, Entry
<1>3. ASSUME NEW t \in Threads, InJob(t), e.pid = conn[t]
      PROVE  f.busy = ProcOf[t]
  <2>1. ProcOf[t] = p /\ req[t].ref = r /\ InTurn(t)
    BY <1>1, <1>3, JobOfEntry
  <2>2. job[p][r]
    BY <1>3, <2>1 DEF SparedInv, Marked, Holding, InJob
  <2> QED BY <1>2, <2>1, <2>2
<1>4. Good(r, f)
  <2> HIDE DEF e, f
  <2> QED BY <1>1, <1>2, <1>3 DEF Good, e
<1> QED BY <1>4

LEMMA DrawnGood ==
  ASSUME NothingShared, TypeInv, SparedInv, NEW r \in Refs, NEW e, Drawn(r, e)
  PROVE  Good(r, e) /\ e \in Entry \cup {NoEntry}
<1>1. Good(r, NoEntry)
  BY DEF Good
<1>2. ASSUME NEW p \in Procs, known[p][r] # NoEntry,
             e = Published(p, r, known[p][r])
      PROVE  Good(r, e) /\ e \in Entry
  <2>1. known[p][r] \in Entry
    BY <1>2 DEF TypeInv, TypeOK
  <2> QED BY <1>2, <2>1, PublishedGood, PublishedType DEF TypeInv
<1>3. /\ Good(r, mirror[r]) /\ mirror[r] \in Entry \cup {NoEntry}
      /\ Good(r, entries[r]) /\ entries[r] \in Entry \cup {NoEntry}
      /\ \A p \in Procs : Good(r, known[p][r]) /\ known[p][r] \in Entry \cup {NoEntry}
  BY DEF SparedInv, TablesGood, TypeInv, TypeOK
<1> QED BY <1>1, <1>2, <1>3 DEF Drawn

LEMMA CalmStep ==
  ASSUME NothingShared, TypeInv, SparedInv, Calm, Drawing
  PROVE  TablesGood' /\ Linked'
<1>1. \A r \in Refs : \A e : Drawn(r, e) => GoodNext(r, e)
  BY DrawnGood, GoodStays DEF SparedInv
<1>2. \A r \in Refs : /\ GoodNext(r, mirror'[r])
                      /\ GoodNext(r, entries'[r])
                      /\ \A p \in Procs : GoodNext(r, known'[p][r])
  BY <1>1 DEF Drawing
<1> QED BY <1>2, TablesNext, LinkedStays DEF SparedInv

LEMMA SyncDrawn ==
  ASSUME TypeInv, NEW p \in Procs, NEW r \in Refs
  PROVE  /\ Drawn(r, SyncedFile(p)[r])
         /\ Drawn(r, SyncedMemory(p)[r])
         /\ SyncedMemory(p)[r] # NoEntry => known[p][r] # NoEntry
<1>1. ReadMirror[r] \in {NoEntry, mirror[r]}
  BY DEF ReadMirror
<1>2. OnBothSides(p, r) => known[p][r] # NoEntry
  BY DEF OnBothSides
<1> QED BY <1>1, <1>2 DEF SyncedFile, SyncedMemory, Drawn

LEMMA SyncKnown ==
  ASSUME TypeInv, NEW p \in Procs, Sync(p)
  PROVE  \A q \in Procs, r \in Refs :
           /\ Drawn(r, known'[q][r])
           /\ known'[q][r] # NoEntry => known[q][r] # NoEntry
<1> SUFFICES ASSUME NEW q \in Procs, NEW r \in Refs
             PROVE  /\ Drawn(r, known'[q][r])
                    /\ known'[q][r] # NoEntry => known[q][r] # NoEntry
  OBVIOUS
<1>1. known'[q] = IF q = p THEN SyncedMemory(p) ELSE known[q]
  BY DEF Sync, TypeInv, TypeOK
<1>2. CASE q = p
  BY <1>1, <1>2, SyncDrawn
<1>3. CASE q # p
  BY <1>1, <1>3 DEF Drawn
<1> QED BY <1>2, <1>3

LEMMA WrittenDrawn ==
  ASSUME NEW p \in Procs, NEW r \in Refs
  PROVE  Drawn(r, Written(p, entries)[r])
BY DEF Written, Drawn

LEMMA SameDrawn == UNCHANGED <<mirror, entries, known>> => Drawing
BY DEF Drawing, Drawn

-----------------------------------------------------------------------------
(* The victims stay free: those left of a plan, none, or those of a plan   *)
(* just made.                                                              *)

LEMMA VictimsStay ==
  ASSUME TypeInv, SparedInv, Calm, victims' \subseteq victims,
         \A r \in victims' : entries'[r] = entries[r],
         \A u \in Threads :
           pc'[u] = "evict" => pc[u] = "evict" /\ req'[u] = req[u]
  PROVE  VictimsFree'
<1> SUFFICES ASSUME NEW u \in Threads, NEW t \in Threads, NEW r \in Refs,
                    pc'[u] = "evict", ~req'[u].force, r \in victims', InJob(t)'
             PROVE  entries'[r].pid # conn'[t]
  BY DEF VictimsFree
<1>1. conn'[t] = conn[t] /\ (InJob(t) \/ Benching(t))
  BY JobsStay DEF SparedInv
<1>2. entries'[r] = entries[r] /\ entries[r] # NoEntry /\ Good(r, entries[r])
  BY DEF TypeInv, TypeOK, SparedInv, TablesGood
<1>3. pc[u] = "evict" /\ ~req[u].force /\ r \in victims
  OBVIOUS
<1> QED BY <1>1, <1>2, <1>3 DEF Good, SparedInv, VictimsFree

LEMMA NoVictims ==
  ASSUME \A u \in Threads : pc'[u] # "evict"
  PROVE  VictimsFree'
BY DEF VictimsFree

LEMMA VictimsIdle ==
  ASSUME TypeInv', TablesGood', Living',
         \A u \in Threads, r \in Refs :
           pc'[u] = "evict" /\ ~req'[u].force /\ r \in victims' =>
             entries'[r].busy \notin alive'
  PROVE  VictimsFree'
<1> SUFFICES ASSUME NEW u \in Threads, NEW t \in Threads, NEW r \in Refs,
                    pc'[u] = "evict", ~req'[u].force, r \in victims', InJob(t)'
             PROVE  entries'[r].pid # conn'[t]
  BY DEF VictimsFree
<1>1. entries'[r] # NoEntry
  BY DEF TypeInv, TypeOK
<1>2. ProcOf[t] \in alive'
  BY DEF InJob, Living
<1>3. entries'[r].busy \notin alive'
  OBVIOUS
<1> QED BY <1>1, <1>2, <1>3 DEF TablesGood, Good

LEMMA QuietStep ==
  ASSUME NothingShared, TypeInv, SparedInv, Steady, Drawing
  PROVE  TablesGood' /\ Linked' /\ Wanted' /\ Marked' /\ Living'
BY CalmStep, SteadyStep DEF Steady

-----------------------------------------------------------------------------
(* One step of a thread or of the world.                                   *)

Before == /\ NothingShared /\ TypeInv /\ TypeInv' /\ LockExclusive
          /\ LockExclusive' /\ TurnInv /\ SparedInv

(* The steps that touch neither the tables nor a plan. *)
LEMMA PlainStep ==
  ASSUME Before, Steady, UNCHANGED <<mirror, entries, known, victims>>,
         \A u \in Threads :
           pc'[u] = "evict" => pc[u] = "evict" /\ req'[u] = req[u]
  PROVE  SparedInv'
<1>1. VictimsFree'
  BY VictimsStay DEF Before, Steady
<1> QED BY <1>1, QuietStep, SameDrawn DEF Before, SparedInv

LEMMA PlainActions ==
  ASSUME Before, NEW t \in Threads,
         \/ GiveUp(t) \/ AskBench(t) \/ EndJob(t) \/ EndBench(t)
         \/ PruneRead(t) \/ \E r \in Refs : PruneKill(t, r)
  PROVE  SparedInv'
<1> USE SupervisorAssumption
<1> USE DEF shared, handles, world, local
<1>1. ASSUME GiveUp(t) PROVE SparedInv'
  <2>1. Steady
    BY <1>1
    DEF GiveUp, Before, Steady, Calm, Running, Holding, InTurn, Attached, Idle,
        TypeInv, TypeOK, Calling
  <2>2. \A u \in Threads :
          pc'[u] = "evict" => pc[u] = "evict" /\ req'[u] = req[u]
    BY <1>1 DEF GiveUp, Before, Idle, TypeInv, TypeOK
  <2> QED BY <1>1, <2>1, <2>2, PlainStep DEF GiveUp
<1>2. ASSUME AskBench(t) PROVE SparedInv'
  <2>1. Steady
    BY <1>2
    DEF AskBench, Before, Steady, Calm, Running, Holding, InTurn, Attached,
        Idle, TypeInv, TypeOK, Calling
  <2>2. \A u \in Threads :
          pc'[u] = "evict" => pc[u] = "evict" /\ req'[u] = req[u]
    BY <1>2 DEF AskBench, Before, Idle, TypeInv, TypeOK
  <2> QED BY <1>2, <2>1, <2>2, PlainStep DEF AskBench
<1>3. ASSUME EndJob(t) PROVE SparedInv'
  <2>1. Steady
    BY <1>3
    DEF EndJob, Before, Steady, Calm, Running, Holding, InTurn, Attached, Idle,
        TypeInv, TypeOK, Calling
  <2>2. \A u \in Threads :
          pc'[u] = "evict" => pc[u] = "evict" /\ req'[u] = req[u]
    BY <1>3 DEF EndJob, Before, Idle, TypeInv, TypeOK
  <2> QED BY <1>3, <2>1, <2>2, PlainStep DEF EndJob
<1>4. ASSUME EndBench(t) PROVE SparedInv'
  <2>1. Steady
    BY <1>4
    DEF EndBench, Gone, Before, Steady, Calm, Running, Holding, InTurn,
        Attached, Idle, TypeInv, TypeOK, Calling
  <2>2. \A u \in Threads :
          pc'[u] = "evict" => pc[u] = "evict" /\ req'[u] = req[u]
    BY <1>4 DEF EndBench, Before, Idle, TypeInv, TypeOK
  <2> QED BY <1>4, <2>1, <2>2, PlainStep DEF EndBench
<1>5. ASSUME PruneRead(t) PROVE SparedInv'
  <2>1. Steady
    BY <1>5
    DEF PruneRead, Before, Steady, Calm, Running, Holding, InTurn, Attached,
        Idle, TypeInv, TypeOK, Calling
  <2>2. \A u \in Threads :
          pc'[u] = "evict" => pc[u] = "evict" /\ req'[u] = req[u]
    BY <1>5 DEF PruneRead, Before, Idle, TypeInv, TypeOK
  <2> QED BY <1>5, <2>1, <2>2, PlainStep DEF PruneRead
<1>6. ASSUME NEW r \in Refs, PruneKill(t, r) PROVE SparedInv'
  <2>1. /\ pc[t] = "prune" /\ UNCHANGED <<shared, handles, pc, req, conn>>
        /\ \/ UNCHANGED world
           \/ Gone(reaped[t][r]) /\ sock' = [sock EXCEPT ![r] = NoPid]
    BY <1>6, Zenon DEF PruneKill
  <2>3. \A q \in Pids : worker'[q] \in {worker[q], NoWorker}
    BY <2>1 DEF Gone, Before, TypeInv, TypeOK
  <2>4. \A q \in Refs : sock'[q] \in {sock[q], NoPid}
    BY <2>1 DEF Before, TypeInv, TypeOK
  <2>5. Calm
    BY <2>1, <2>3, <2>4 DEF Calm, Attached
  <2>6. Steady
    BY <2>1, <2>5 DEF Steady, Running, Holding, InTurn
  <2>2. \A u \in Threads :
          pc'[u] = "evict" => pc[u] = "evict" /\ req'[u] = req[u]
    BY <1>6 DEF PruneKill, Before, Idle, TypeInv, TypeOK
  <2> QED BY <2>1, <2>2, <2>6, PlainStep
<1> QED BY <1>1, <1>2, <1>3, <1>4, <1>5, <1>6

LEMMA PlainEvents ==
  ASSUME Before,
         \/ \E q \in Pids : WorkerDies(q) \/ IdleExit(q)
         \/ \E r \in Refs : SocketLost(r) \/ Republish(r)
         \/ UNCHANGED vars
  PROVE  SparedInv'
<1> USE SupervisorAssumption
<1> USE DEF shared, handles, world, local
<1>1. ASSUME NEW q \in Pids, WorkerDies(q) PROVE SparedInv'
  <2>1. Steady
    BY <1>1
    DEF WorkerDies, Gone, Before, Steady, Calm, Running, Holding, InTurn,
        Attached, Idle, TypeInv, TypeOK, Calling
  <2>2. \A u \in Threads :
          pc'[u] = "evict" => pc[u] = "evict" /\ req'[u] = req[u]
    BY <1>1 DEF WorkerDies, Before, Idle, TypeInv, TypeOK
  <2> QED BY <1>1, <2>1, <2>2, PlainStep DEF WorkerDies
<1>2. ASSUME NEW q \in Pids, IdleExit(q) PROVE SparedInv'
  <2>1. Steady
    BY <1>2
    DEF IdleExit, Gone, Before, Steady, Calm, Running, Holding, InTurn,
        Attached, Idle, TypeInv, TypeOK, Calling
  <2>2. \A u \in Threads :
          pc'[u] = "evict" => pc[u] = "evict" /\ req'[u] = req[u]
    BY <1>2 DEF IdleExit, Before, Idle, TypeInv, TypeOK
  <2> QED BY <1>2, <2>1, <2>2, PlainStep DEF IdleExit
<1>3. ASSUME NEW r \in Refs, SocketLost(r) PROVE SparedInv'
  <2>1. Steady
    BY <1>3
    DEF SocketLost, Before, Steady, Calm, Running, Holding, InTurn, Attached,
        Idle, TypeInv, TypeOK, Calling
  <2>2. \A u \in Threads :
          pc'[u] = "evict" => pc[u] = "evict" /\ req'[u] = req[u]
    BY <1>3 DEF SocketLost, Before, Idle, TypeInv, TypeOK
  <2> QED BY <1>3, <2>1, <2>2, PlainStep DEF SocketLost
<1>4. ASSUME NEW r \in Refs, Republish(r) PROVE SparedInv'
  <2>1. Steady
    BY <1>4
    DEF Republish, Before, Steady, Calm, Running, Holding, InTurn, Attached,
        Idle, TypeInv, TypeOK, Calling
  <2>2. \A u \in Threads :
          pc'[u] = "evict" => pc[u] = "evict" /\ req'[u] = req[u]
    BY <1>4 DEF Republish, Before, Idle, TypeInv, TypeOK
  <2> QED BY <1>4, <2>1, <2>2, PlainStep DEF Republish
<1>5. ASSUME UNCHANGED vars PROVE SparedInv'
  <2>1. Steady
    BY <1>5
    DEF vars, Before, Steady, Calm, Running, Holding, InTurn, Attached, Idle,
        TypeInv, TypeOK, Calling
  <2>2. \A u \in Threads :
          pc'[u] = "evict" => pc[u] = "evict" /\ req'[u] = req[u]
    BY <1>5 DEF vars, Before, Idle, TypeInv, TypeOK
  <2> QED BY <1>5, <2>1, <2>2, PlainStep DEF vars
<1> QED BY <1>1, <1>2, <1>3, <1>4, <1>5

(* A transaction that ends, well or badly, or only synchronises. *)
LEMMA SyncActions ==
  ASSUME Before, NEW t \in Threads,
         Refuse(t) \/ Publish(t) \/ PruneSync(t)
  PROVE  SparedInv'
<1> USE SupervisorAssumption
<1> USE DEF shared, handles, world, local
<1> DEFINE p == ProcOf[t]
<1>1. /\ Sync(p)
      /\ \/ mirror' = mirror
         \/ mirror' = SyncedFile(p)
      /\ UNCHANGED <<alive, closing, lock, entries, victims, job, worker, sock,
                     conn>>
      /\ pc[t] # "gone"
  BY DEF Refuse, Publish, PruneSync, SyncMirror
<1>2. Drawing
  BY <1>1, SyncKnown, SyncDrawn DEF Drawing, Drawn, Before
<1>3. \A q \in Procs, r \in Refs : known'[q][r] # NoEntry => known[q][r] # NoEntry
  BY <1>1, SyncKnown DEF Before
<1>4. \/ pc' = [pc EXCEPT ![t] = "leave"] /\ req' = req /\ pc[t] \in {"lock", "publish"}
      \/ pc' = [pc EXCEPT ![t] = "idle"] /\ req' = req
      \/ pc' = [pc EXCEPT ![t] = "idle"] /\ req' = [req EXCEPT ![t] = NoReq]
  BY DEF Refuse, Publish, PruneSync, Before, TypeInv, TypeOK
<1>5. Calm
  BY <1>1, <1>4 DEF Calm, Attached, Before, TypeInv, TypeOK
<1>6. Steady
  BY <1>1, <1>3, <1>4, <1>5
  DEF Steady, Running, Holding, InTurn, Before, TypeInv, TypeOK
<1>7. \A u \in Threads :
        pc'[u] = "evict" => pc[u] = "evict" /\ req'[u] = req[u]
  BY <1>4 DEF Before, TypeInv, TypeOK
<1>8. VictimsFree'
  BY <1>1, <1>5, <1>7, VictimsStay DEF Before
<1> QED BY <1>2, <1>6, <1>8, QuietStep DEF Before, SparedInv

LEMMA ReadTableStep ==
  ASSUME Before, NEW p \in Procs, ReadTable(p) PROVE SparedInv'
<1> USE SupervisorAssumption
<1> USE DEF shared, handles, world, local
<1>1. /\ known' = [known EXCEPT ![p] =
                     [r \in Refs |-> IF OnBothSides(p, r)
                                      THEN Published(p, r, known[p][r])
                                      ELSE known[p][r]]]
      /\ UNCHANGED <<shared, job, world, local>>
  BY DEF ReadTable
<1>2. \A r \in Refs : OnBothSides(p, r) => known[p][r] # NoEntry
  BY DEF OnBothSides
<1>3. ASSUME NEW q \in Procs, NEW r \in Refs
      PROVE  /\ Drawn(r, known'[q][r])
             /\ known'[q][r] # NoEntry => known[q][r] # NoEntry
  <2>1. CASE q = p
    BY <1>1, <1>2, <2>1 DEF Drawn, Before, TypeInv, TypeOK
  <2>2. CASE q # p
    BY <1>1, <2>2 DEF Drawn, Before, TypeInv, TypeOK
  <2> QED BY <2>1, <2>2
<1>4. Drawing
  BY <1>1, <1>3 DEF Drawing, Drawn
<1>5. Calm
  BY <1>1 DEF Calm, Attached
<1>6. Steady
  BY <1>1, <1>3, <1>5 DEF Steady, Running, Holding, InTurn
<1>7. VictimsFree'
  BY <1>1, <1>5, VictimsStay DEF Before
<1> QED BY <1>4, <1>6, <1>7, QuietStep DEF Before, SparedInv

LEMMA UnlockActions ==
  ASSUME Before, NEW t \in Threads,
         LoadedBench(t) \/ LoadFails(t) \/ EndUnload(t)
  PROVE  SparedInv'
<1> USE SupervisorAssumption
<1> USE DEF shared, handles, world, local
<1>1. /\ mirror' = mirror \/ mirror' = Written(ProcOf[t], entries)
      /\ entries' = Nobody /\ lock' = NoThread
      /\ UNCHANGED <<alive, closing, known, job>>
      /\ worker' = worker \/ worker' = [worker EXCEPT ![conn[t]] = NoWorker]
      /\ \A r \in Refs : sock'[r] \in {sock[r], NoPid}
  BY DEF LoadedBench, LoadFails, EndUnload, Unlock, Gone, Before, TypeInv, TypeOK
<1>2. Drawing
  BY <1>1, WrittenDrawn DEF Drawing, Drawn, Nobody
<1>3. \/ /\ pc' = [pc EXCEPT ![t] = "job"] /\ UNCHANGED <<req, conn>>
         /\ pc[t] = "load" /\ req[t].op = "bench"
      \/ /\ pc' = [pc EXCEPT ![t] = "leave"] /\ UNCHANGED req
         /\ conn' = [conn EXCEPT ![t] = NoPid]
         /\ pc[t] = "load" /\ req[t].op = "run"
      \/ /\ pc' = [pc EXCEPT ![t] = "idle"] /\ req' = [req EXCEPT ![t] = NoReq]
         /\ conn' \in {conn, [conn EXCEPT ![t] = NoPid]}
  <2>1. CASE LoadedBench(t)
    BY <2>1 DEF LoadedBench
  <2>2. CASE LoadFails(t)
    <3>1. CASE req[t].op = "run"
      BY <2>2, <3>1 DEF LoadFails, Before, TypeInv, TypeOK
    <3>2. CASE req[t].op # "run"
      BY <2>2, <3>2 DEF LoadFails, Before, TypeInv, TypeOK
    <3> QED BY <3>1, <3>2
  <2>3. CASE EndUnload(t)
    BY <2>3 DEF EndUnload
  <2> QED BY <2>1, <2>2, <2>3
<1>0. pc[t] # "gone" /\ \A q \in Pids : worker'[q] \in {worker[q], NoWorker}
  BY <1>1 DEF LoadedBench, LoadFails, EndUnload, Before, TypeInv, TypeOK
<1>4. Calm
  BY <1>0, <1>1, <1>3 DEF Calm, Attached, Before, TypeInv, TypeOK
<1>5. Steady
  BY <1>0, <1>1, <1>3, <1>4
  DEF Steady, Running, Holding, InTurn, Before, TypeInv, TypeOK
<1>6. VictimsFree'
  BY <1>1, NoVictims DEF Before, LockExclusive
<1> QED BY <1>2, <1>5, <1>6, QuietStep DEF Before, SparedInv

LEMMA EvictCalm ==
  ASSUME Before, NEW t \in Threads, NEW r \in Refs, Evict(t, r),
         UNCHANGED <<alive, closing, mirror, job, pc, req, conn>>
  PROVE  Steady /\ Drawing
<1> USE SupervisorAssumption
<1>1. \A q \in Pids : worker'[q] # NoWorker =>
        worker[q] # NoWorker /\ worker'[q].ref = worker[q].ref
  <2>1. \A w \in Worker : [w EXCEPT !.mem = 0].ref = w.ref
    BY DEF Worker
  <2>2. worker \in [Pids -> Worker \cup {NoWorker}]
    BY DEF Before, TypeInv, TypeOK
  <2>3. \A q \in Pids : Up(q) => worker[q] \in Worker
    BY <2>2 DEF Up
  <2>4. CASE UNCHANGED world
    BY <2>4 DEF world
  <2>5. CASE \E pid, serving :
               worker' = [q \in Pids |->
                            IF q = pid THEN NoWorker
                            ELSE IF q = sock[r] /\ Up(q) /\ ~serving
                            THEN [worker[q] EXCEPT !.mem = 0]
                            ELSE worker[q]]
    <3> SUFFICES ASSUME NEW q \in Pids, worker'[q] # NoWorker
                 PROVE  worker[q] # NoWorker /\ worker'[q].ref = worker[q].ref
      OBVIOUS
    <3>1. \/ worker'[q] = worker[q]
          \/ Up(q) /\ worker'[q] = [worker[q] EXCEPT !.mem = 0]
      BY <2>5
    <3> QED BY <2>1, <2>3, <3>1 DEF Up
  <2> QED BY <2>4, <2>5, EvictWorld
<1>2. \A q \in Refs : sock'[q] \in {sock[q], NoPid}
  <2>1. sock' = sock \/ sock' = [sock EXCEPT ![r] = NoPid]
    BY EvictWorld, Zenon DEF world
  <2> QED BY <2>1 DEF Before, TypeInv, TypeOK
<1>3. /\ entries' = [entries EXCEPT ![r] = NoEntry]
      /\ known' = [known EXCEPT ![ProcOf[t]][r] = NoEntry]
  BY DEF Evict
<1>4. \A q \in Refs : /\ entries'[q] \in {entries[q], NoEntry}
                      /\ \A p \in Procs : known'[p][q] \in {known[p][q], NoEntry}
  BY <1>3 DEF Before, TypeInv, TypeOK
<1>5. Drawing
  BY <1>4 DEF Drawing, Drawn
<1>6. Calm
  BY <1>1, <1>2 DEF Calm, Attached
<1>7. Steady
  BY <1>4, <1>6 DEF Steady, Running, Holding, InTurn
<1> QED BY <1>5, <1>7

LEMMA EvictStep ==
  ASSUME Before, NEW t \in Threads, NEW r \in Refs, Evict(t, r),
         UNCHANGED <<alive, closing, mirror, job, pc, req, conn>>,
         victims' \subseteq victims, r \notin victims'
  PROVE  SparedInv'
<1>1. Steady /\ Drawing
  BY EvictCalm
<1>2. \A q \in Refs \ {r} : entries'[q] = entries[q]
  BY EvictType DEF Before
<1>3. victims' \subseteq Refs \ {r}
  BY DEF Before, TypeInv, TypeOK
<1>4. VictimsFree'
  BY <1>1, <1>2, <1>3, VictimsStay DEF Before, Steady
<1> QED BY <1>1, <1>4, QuietStep DEF Before, SparedInv

LEMMA EvictActions ==
  ASSUME Before, NEW t \in Threads, EvictVictim(t) \/ EvictOther(t)
  PROVE  SparedInv'
<1> USE DEF local
<1>1. ASSUME EvictVictim(t) PROVE SparedInv'
  <2>1. PICK r \in victims : Evict(t, r) /\ victims' = victims \ {r}
    BY <1>1 DEF EvictVictim
  <2>2. r \in Refs
    BY DEF Before, TypeInv, TypeOK
  <2> QED BY <1>1, <2>1, <2>2, EvictStep DEF EvictVictim
<1>2. ASSUME EvictOther(t) PROVE SparedInv'
  <2>1. req[t].ref \in Refs /\ Evict(t, req[t].ref) /\ victims = {}
    BY <1>2 DEF EvictOther, Attaching, Before, TypeInv, Calling, Request
  <2> QED BY <1>2, <2>1, EvictStep DEF EvictOther
<1> QED BY <1>1, <1>2

(* A transaction that opens on a list of victims, and one that opens on    *)
(* nothing.                                                                *)
Opens(t) ==
  /\ pc[t] \in {"lock", "idle"} /\ pc' = [pc EXCEPT ![t] = "evict"]
  /\ lock' = t /\ entries' = SyncedFile(ProcOf[t]) /\ UNCHANGED mirror
  /\ \/ pc[t] = "lock" /\ req' = req
     \/ \E r \in Refs, force \in BOOLEAN :
          req' = [req EXCEPT ![t] = UnloadCall(r, force)]
  /\ ~req'[t].force => \A r \in victims' : ~Busy(SyncedFile(ProcOf[t])[r])
Glances(t) ==
  /\ UNCHANGED <<lock, entries, victims, pc, req>>
  /\ mirror' \in {mirror, SyncedFile(ProcOf[t])}

LEMMA OpenStep ==
  ASSUME Before, NEW t \in Threads, Sync(ProcOf[t]), Opens(t) \/ Glances(t),
         UNCHANGED <<alive, closing, job, worker, sock, conn>>
  PROVE  SparedInv'
<1> USE SupervisorAssumption
<1>1. \A p \in Procs, r \in Refs :
        /\ Drawn(r, known'[p][r])
        /\ known'[p][r] # NoEntry => known[p][r] # NoEntry
  BY SyncKnown DEF Before
<1>2. Drawing
  <2>1. \A r \in Refs : Drawn(r, SyncedFile(ProcOf[t])[r])
    BY SyncDrawn DEF Before
  <2>2. \A r \in Refs : mirror'[r] \in {mirror[r], SyncedFile(ProcOf[t])[r]}
    BY DEF Opens, Glances
  <2>3. \A r \in Refs : entries'[r] \in {entries[r], SyncedFile(ProcOf[t])[r]}
    BY DEF Opens, Glances
  <2>4. \A r \in Refs : Drawn(r, mirror[r]) /\ Drawn(r, entries[r])
    BY DEF Drawn
  <2> QED BY <1>1, <2>1, <2>2, <2>3, <2>4 DEF Drawing
<1>3. CASE Glances(t)
  <2>1. Calm
    BY <1>3 DEF Glances, Calm, Attached
  <2>2. Steady
    BY <1>1, <1>3, <2>1 DEF Glances, Steady, Running, Holding, InTurn
  <2>3. VictimsFree'
    BY <1>3, <2>1, VictimsStay DEF Glances, Before
  <2> QED BY <1>2, <2>2, <2>3, QuietStep DEF Before, SparedInv
<1>4. CASE Opens(t)
  <2>1. /\ \A u \in Threads \ {t} : pc'[u] = pc[u] /\ req'[u] = req[u]
        /\ pc'[t] = "evict"
        /\ (pc[t] = "lock" /\ req'[t] = req[t]) \/ req'[t].op = "unload"
        /\ pc[t] # "gone"
    BY <1>4 DEF Opens, UnloadCall, Before, TypeInv, TypeOK
  <2>2. Calm
    BY <2>1 DEF Calm, Attached
  <2>3. Steady
    BY <1>1, <1>4, <2>1, <2>2 DEF Opens, Steady, Running, Holding, InTurn
  <2>4. TablesGood' /\ Linked' /\ Wanted' /\ Marked' /\ Living'
    BY <1>2, <2>3, QuietStep DEF Before
  <2>5. ASSUME NEW u \in Threads, NEW r \in Refs,
               pc'[u] = "evict", ~req'[u].force, r \in victims'
        PROVE  entries'[r].busy \notin alive'
    <3>1. u = t
      BY <1>4, <2>5 DEF Opens, Before, LockExclusive
    <3> QED BY <1>4, <2>5, <3>1 DEF Opens, Busy
  <2>6. VictimsFree'
    BY <2>4, <2>5, VictimsIdle DEF Before
  <2> QED BY <2>4, <2>6 DEF SparedInv
<1> QED BY <1>3, <1>4

LEMMA OpenActions ==
  ASSUME Before, NEW t \in Threads,
         \/ Admit(t)
         \/ \E r \in Wants[t], force \in BOOLEAN : Unload(t, r, force)
         \/ \E force \in BOOLEAN : UnloadAll(t, force)
  PROVE  SparedInv'
<1> USE SupervisorAssumption
<1> USE DEF shared, handles, world, local
<1>1. ASSUME Admit(t) PROVE SparedInv'
  <2>1. PICK age \in Ages : victims' = Decision(t, age).evict
    BY <1>1 DEF Admit
  <2>2. \A r \in victims' : ~Busy(SyncedFile(ProcOf[t])[r])
    BY <1>1, <2>1, VictimsOfPlan DEF Admit, Before
  <2>3. Opens(t)
    BY <1>1, <2>2 DEF Admit, Opens
  <2> QED BY <1>1, <2>3, OpenStep DEF Admit
<1>2. ASSUME NEW r \in Wants[t], NEW force \in BOOLEAN, Unload(t, r, force)
      PROVE  SparedInv'
  <2> DEFINE e == SyncedFile(ProcOf[t])[r]
             idle == ~(~force /\ (Busy(e) \/ e.pinned))
  <2>1. \/ /\ e # NoEntry /\ idle
           /\ lock' = t /\ entries' = SyncedFile(ProcOf[t])
           /\ victims' = {r} /\ UNCHANGED mirror
           /\ pc' = [pc EXCEPT ![t] = "evict"]
           /\ req' = [req EXCEPT ![t] = UnloadCall(r, force)]
        \/ Glances(t)
    <3>1. CASE e # NoEntry /\ idle
      BY <1>2, <3>1, Zenon DEF Unload
    <3>2. CASE ~(e # NoEntry /\ idle)
      BY <1>2, <3>2 DEF Unload, Glances
    <3> QED BY <3>1, <3>2
  <2>2. /\ pc[t] = "idle" /\ Sync(ProcOf[t])
        /\ UNCHANGED <<alive, closing, job, worker, sock, conn>>
    BY <1>2 DEF Unload, Idle
  <2>3. UnloadCall(r, force).force = force
    BY DEF UnloadCall
  <2>4. ASSUME ~Glances(t) PROVE Opens(t)
    <3>1. req'[t].force = force
      BY <2>1, <2>3, <2>4 DEF Before, TypeInv, TypeOK
    <3>2. ~req'[t].force => \A q \in victims' : ~Busy(SyncedFile(ProcOf[t])[q])
      BY <2>1, <2>4, <3>1
    <3> QED BY <2>1, <2>2, <2>4, <3>2 DEF Opens
  <2> QED BY <2>2, <2>4, OpenStep
<1>3. ASSUME NEW force \in BOOLEAN, UnloadAll(t, force) PROVE SparedInv'
  <2> DEFINE file == SyncedFile(ProcOf[t])
             targets == {r \in Refs :
                           /\ file[r] # NoEntry
                           /\ force \/ ~(file[r].pinned \/ Busy(file[r]))}
  <2>1. \/ /\ lock' = t /\ entries' = file
           /\ victims' = targets /\ UNCHANGED mirror
           /\ pc' = [pc EXCEPT ![t] = "evict"]
           /\ \E r \in Refs : req' = [req EXCEPT ![t] = UnloadCall(r, force)]
        \/ Glances(t)
    <3>1. CASE targets # {}
      BY <1>3, <3>1, Zenon DEF UnloadAll
    <3>2. CASE targets = {}
      BY <1>3, <3>2 DEF UnloadAll, Glances
    <3> QED BY <3>1, <3>2
  <2>2. /\ pc[t] = "idle" /\ Sync(ProcOf[t])
        /\ UNCHANGED <<alive, closing, job, worker, sock, conn>>
    BY <1>3 DEF UnloadAll, Idle
  <2>3. \A r \in Refs : UnloadCall(r, force).force = force
    BY DEF UnloadCall
  <2>4. ASSUME ~Glances(t) PROVE Opens(t)
    <3>1. req'[t].force = force
      BY <2>1, <2>3, <2>4 DEF Before, TypeInv, TypeOK
    <3>2. ~req'[t].force => \A q \in victims' : ~Busy(file[q])
      BY <2>1, <2>4, <3>1
    <3> QED BY <2>1, <2>2, <2>4, <3>2 DEF Opens
  <2> QED BY <2>2, <2>4, OpenStep
<1> QED BY <1>1, <1>2, <1>3

-----------------------------------------------------------------------------
(* Steps that begin a call, take or give back a turn: no table changes.    *)

Still ==
  /\ Calm
  /\ UNCHANGED <<mirror, entries, known, victims, alive>>
  /\ \A u \in Threads :
       /\ pc'[u] = "evict" => pc[u] = "evict" /\ req'[u] = req[u]
       /\ pc'[u] # "gone" => pc[u] # "gone"

LEMMA StillStep == ASSUME Before, Still, Wanted', Marked' PROVE SparedInv'
<1>1. TablesGood' /\ Linked'
  BY CalmStep, SameDrawn DEF Before, Still
<1>2. VictimsFree'
  BY VictimsStay DEF Before, Still
<1>3. Living'
  BY DEF Living, Before, SparedInv, Still
<1> QED BY <1>1, <1>2, <1>3 DEF SparedInv

LEMMA AskStep == ASSUME Before, NEW t \in Threads, Ask(t) PROVE SparedInv'
<1> USE SupervisorAssumption
<1> USE DEF shared, handles, world, local
<1>1. pc[t] = "idle" /\ pc' = [pc EXCEPT ![t] = "enter"]
      /\ UNCHANGED <<shared, handles, world, conn, reaped>>
  BY DEF Ask, Idle
<1>2. (\A u \in Threads \ {t} : req'[u] = req[u]) /\ req'[t].ref \in Wants[t]
  <2>1. PICK r \in Wants[t], pin \in BOOLEAN, over \in BOOLEAN :
          \E peak \in Demands[r] :
            req' = [req EXCEPT ![t] =
                      [op |-> "run", ref |-> r, pin |-> pin, over |-> over,
                       force |-> FALSE, peak |-> peak, doc |-> manifest[r]]]
    BY DEF Ask
  <2>2. PICK peak \in Demands[r] :
          req' = [req EXCEPT ![t] =
                    [op |-> "run", ref |-> r, pin |-> pin, over |-> over,
                     force |-> FALSE, peak |-> peak, doc |-> manifest[r]]]
    BY <2>1
  <2> QED BY <2>2 DEF Before, TypeInv, TypeOK
<1>3. Still
  BY <1>1, <1>2 DEF Still, Calm, Attached, Before, TypeInv, TypeOK
<1>4. \A u \in Threads \ {t} :
        Running(u)' => Running(u) /\ req'[u] = req[u]
  BY <1>1, <1>2 DEF Running, InTurn, Before, TypeInv, TypeOK
<1>5. Wanted'
  BY <1>1, <1>2, <1>4 DEF Wanted, Before, SparedInv
<1>6. Marked'
  BY <1>1, <1>2
  DEF Marked, Holding, InTurn, Before, SparedInv, TypeInv, TypeOK
<1> QED BY <1>3, <1>5, <1>6, StillStep

LEMMA EnterStep == ASSUME Before, NEW t \in Threads, Enter(t) PROVE SparedInv'
<1> USE SupervisorAssumption
<1> USE DEF shared, handles, world, local
<1>1. /\ pc[t] = "enter" /\ pc' = [pc EXCEPT ![t] = "lock"]
      /\ job' = [job EXCEPT ![ProcOf[t]][req[t].ref] = TRUE]
      /\ UNCHANGED <<shared, known, world, req, conn, reaped>>
  BY DEF Enter
<1>2. req[t].op = "run" /\ req[t].ref \in Refs
  BY <1>1 DEF Before, TypeInv, Calling, Request
<1>3. Still
  BY <1>1 DEF Still, Calm, Attached, Before, TypeInv, TypeOK
<1>4. \A u \in Threads : Running(u)' => Running(u)
  BY <1>1, <1>2 DEF Running, InTurn, Before, TypeInv, TypeOK
<1>5. Wanted'
  BY <1>1, <1>4 DEF Wanted, Before, SparedInv
<1>6. ASSUME NEW u \in Threads, Holding(u)', ProcOf[u] \notin closing'
      PROVE  job'[ProcOf[u]][req'[u].ref]
  <2>1. req[u].ref \in Refs
    BY <1>1, <1>6 DEF Holding, InTurn, Before, TypeInv, Calling, Request
  <2>2. job'[ProcOf[u]][req[u].ref] =
          IF ProcOf[u] = ProcOf[t] /\ req[u].ref = req[t].ref THEN TRUE
          ELSE job[ProcOf[u]][req[u].ref]
    BY <1>1, <1>2, <2>1 DEF Before, TypeInv, TypeOK
  <2>3. u = t \/ Holding(u)
    BY <1>1, <1>6 DEF Holding, InTurn, Before, TypeInv, TypeOK
  <2> QED BY <1>1, <1>6, <2>2, <2>3 DEF Before, SparedInv, Marked
<1>7. Marked'
  BY <1>6 DEF Marked
<1> QED BY <1>3, <1>5, <1>7, StillStep

LEMMA FreeStep == ASSUME Before, NEW t \in Threads, Free(t) PROVE SparedInv'
<1> USE SupervisorAssumption
<1> USE DEF shared, handles, world, local
<1>1. /\ pc[t] = "release" /\ pc' = [pc EXCEPT ![t] = "publish"]
      /\ job' = [job EXCEPT ![ProcOf[t]][req[t].ref] = FALSE]
      /\ UNCHANGED <<shared, known, world, req, conn, reaped>>
  BY DEF Free
<1>2. InTurn(t) /\ req[t].ref \in Refs
  BY <1>1 DEF InTurn, Before, TypeInv, Calling, Request
<1>3. Still
  BY <1>1 DEF Still, Calm, Attached, Before, TypeInv, TypeOK
<1>4. \A u \in Threads : Running(u)' => Running(u)
  BY <1>1, <1>2 DEF Running, InTurn, Before, TypeInv, TypeOK
<1>5. Wanted'
  BY <1>1, <1>4 DEF Wanted, Before, SparedInv
<1>6. ASSUME NEW u \in Threads, Holding(u)', ProcOf[u] \notin closing'
      PROVE  job'[ProcOf[u]][req'[u].ref]
  <2>1. u # t /\ Holding(u)
    BY <1>1, <1>6 DEF Holding, InTurn, Before, TypeInv, TypeOK
  <2>2. req[u].ref \in Refs /\ InTurn(u)
    BY <2>1 DEF Holding, InTurn, Before, TypeInv, Calling, Request
  <2>3. ~(ProcOf[u] = ProcOf[t] /\ req[u].ref = req[t].ref)
    BY <1>2, <2>1, <2>2 DEF Before, TurnInv, TurnExclusive
  <2>4. job'[ProcOf[u]][req[u].ref] = job[ProcOf[u]][req[u].ref]
    BY <1>1, <1>2, <2>2, <2>3 DEF Before, TypeInv, TypeOK
  <2> QED BY <1>1, <1>6, <2>1, <2>4 DEF Before, SparedInv, Marked
<1>7. Marked'
  BY <1>6 DEF Marked
<1> QED BY <1>3, <1>5, <1>7, StillStep

LEMMA CloseStep == ASSUME Before, NEW p \in Procs, Close(p) PROVE SparedInv'
<1> USE SupervisorAssumption
<1> USE DEF shared, handles, world, local
<1>1. /\ closing' = closing \cup {p}
      /\ job' = [job EXCEPT ![p] = [r \in Refs |-> FALSE]]
      /\ UNCHANGED <<alive, mirror, entries, victims, known, world, local>>
  BY DEF Close
<1>2. Still
  BY <1>1 DEF Still, Calm, Attached
<1>3. Wanted'
  BY <1>1 DEF Wanted, Running, InTurn, Before, SparedInv
<1>4. Marked'
  <2>1. \A q \in Procs \ {p} : job'[q] = job[q]
    BY <1>1 DEF Before, TypeInv, TypeOK
  <2> QED BY <1>1, <2>1 DEF Marked, Holding, InTurn, Before, SparedInv
<1> QED BY <1>2, <1>3, <1>4, StillStep

LEMMA LeaveStep == ASSUME Before, NEW t \in Threads, Leave(t) PROVE SparedInv'
<1> USE SupervisorAssumption
<1> USE DEF shared, handles, world, local
<1> DEFINE p == ProcOf[t]
           r == req[t].ref
           e == [known[p][r] EXCEPT !.busy = NoProc]
<1>1. /\ pc[t] = "leave" /\ pc' = [pc EXCEPT ![t] = "idle"]
      /\ req' = [req EXCEPT ![t] = NoReq]
      /\ job' = [job EXCEPT ![p][r] = FALSE]
      /\ known' = IF known[p][r] = NoEntry THEN known
                  ELSE [known EXCEPT ![p][r] = e]
      /\ UNCHANGED <<shared, world, conn, reaped>>
  BY DEF Leave
<1>2. InTurn(t) /\ r \in Refs /\ p \in Procs
  BY <1>1 DEF InTurn, Before, TypeInv, Calling, Request
<1>3. Calm
  BY <1>1 DEF Calm, Attached, Before, TypeInv, TypeOK
<1>4. known[p][r] # NoEntry => Good(r, e) /\ e \in Entry
  <2> SUFFICES ASSUME known[p][r] # NoEntry PROVE Good(r, e) /\ e \in Entry
    OBVIOUS
  <2>1. known[p][r] \in Entry /\ Good(r, known[p][r])
    BY <1>2 DEF Before, SparedInv, TablesGood, TypeInv, TypeOK
  <2>2. e \in Entry /\ e.pid = known[p][r].pid
    BY <2>1, BusyType DEF Entry
  <2>3. ASSUME NEW u \in Threads, InJob(u) PROVE e.pid # conn[u]
    <3>1. e.pid = conn[u] =>
            ProcOf[u] = p /\ req[u].ref = r /\ InTurn(u)
      BY <1>2, <2>1, <2>2, <2>3, JobOfEntry DEF Before
    <3> QED BY <1>1, <1>2, <2>3, <3>1 DEF InJob, Before, TurnInv, TurnExclusive
  <2> HIDE DEF e
  <2> QED BY <2>1, <2>2, <2>3, NullAssumption DEF Good
<1>5. \A q \in Refs : /\ Good(q, mirror'[q]) /\ mirror'[q] \in Entry \cup {NoEntry}
                      /\ Good(q, entries'[q]) /\ entries'[q] \in Entry \cup {NoEntry}
                      /\ \A o \in Procs : /\ Good(q, known[o][q])
                                          /\ known[o][q] \in Entry \cup {NoEntry}
  BY <1>1 DEF Before, SparedInv, TablesGood, TypeInv, TypeOK
<1>6. \A q \in Refs, o \in Procs :
        \/ known'[o][q] = known[o][q]
        \/ q = r /\ known[p][r] # NoEntry /\ known'[o][q] = e
  <2> HIDE DEF e, r, p
  <2> QED BY <1>1, <1>2 DEF Before, TypeInv, TypeOK
<1>7. \A q \in Refs, o \in Procs :
        Good(q, known'[o][q]) /\ known'[o][q] \in Entry \cup {NoEntry}
  <2> HIDE DEF e
  <2> QED BY <1>4, <1>5, <1>6
<1>8. TablesGood'
  BY <1>3, <1>5, <1>7, GoodStays, TablesNext DEF Before, SparedInv
<1>9. Linked'
  BY <1>3, LinkedStays DEF Before, SparedInv
<1>10. \A u \in Threads : Running(u)' => Running(u) /\ req'[u] = req[u]
  BY <1>1 DEF Running, InTurn, Before, TypeInv, TypeOK
<1>11. \A q \in Refs, o \in Procs : known'[o][q] # NoEntry => known[o][q] # NoEntry
  BY <1>1, <1>2 DEF Before, TypeInv, TypeOK
<1>12. Wanted'
  BY <1>10, <1>11 DEF Wanted, Before, SparedInv
<1>13. ASSUME NEW u \in Threads, Holding(u)', ProcOf[u] \notin closing'
       PROVE  job'[ProcOf[u]][req'[u].ref]
  <2>1. u # t /\ Holding(u) /\ req'[u] = req[u]
    BY <1>1, <1>13 DEF Holding, InTurn, Before, TypeInv, TypeOK
  <2>2. req[u].ref \in Refs /\ InTurn(u)
    BY <2>1 DEF Holding, InTurn, Before, TypeInv, Calling, Request
  <2>3. ~(ProcOf[u] = ProcOf[t] /\ req[u].ref = req[t].ref)
    BY <1>2, <2>1, <2>2 DEF Before, TurnInv, TurnExclusive
  <2>4. job'[ProcOf[u]][req[u].ref] = job[ProcOf[u]][req[u].ref]
    BY <1>1, <1>2, <2>2, <2>3 DEF Before, TypeInv, TypeOK
  <2> QED BY <1>1, <1>13, <2>1, <2>4 DEF Before, SparedInv, Marked
<1>14. Marked'
  BY <1>13 DEF Marked
<1>15. Living'
  BY <1>1 DEF Living, Before, SparedInv, TypeInv, TypeOK
<1>16. \A u \in Threads :
         pc'[u] = "evict" => pc[u] = "evict" /\ req'[u] = req[u]
  BY <1>1 DEF Before, TypeInv, TypeOK
<1>17. VictimsFree'
  BY <1>1, <1>3, <1>16, VictimsStay DEF Before
<1> QED BY <1>8, <1>9, <1>12, <1>14, <1>15, <1>17 DEF SparedInv

LEMMA ExitStep ==
  ASSUME Before, NEW p \in Procs, Exit(p), mirror' \in {mirror, SyncedFile(p)}
  PROVE  SparedInv'
<1> USE SupervisorAssumption
<1>1. /\ alive' = alive \ {p} /\ closing' = closing \ {p}
      /\ known' = [known EXCEPT ![p] = Nobody]
      /\ job' = [job EXCEPT ![p] = [r \in Refs |-> FALSE]]
      /\ UNCHANGED sock
  BY DEF Exit
<1>2. \A q \in Pids : worker'[q] \in {worker[q], NoWorker}
  BY DEF Exit
<1>3. \A u \in Threads :
        \/ ProcOf[u] = p /\ pc'[u] = "gone" /\ conn'[u] = NoPid
        \/ ProcOf[u] # p /\ pc'[u] = pc[u] /\ req'[u] = req[u] /\ conn'[u] = conn[u]
  BY DEF Exit, Ours
<1>4. \/ UNCHANGED <<entries, victims>>
      \/ entries' = Nobody /\ victims' = {}
  BY DEF Exit, Unlock
<1>5. Calm
  BY <1>1, <1>2, <1>3 DEF Calm, Attached
<1>6. \A q \in Procs, r \in Refs : known'[q][r] \in {known[q][r], NoEntry}
  BY <1>1 DEF Nobody, Before, TypeInv, TypeOK
<1>7. Drawing
  <2>1. \A r \in Refs : Drawn(r, SyncedFile(p)[r])
    BY SyncDrawn DEF Before
  <2>2. \A r \in Refs : mirror'[r] \in {mirror[r], SyncedFile(p)[r]}
    OBVIOUS
  <2>3. \A r \in Refs : entries'[r] \in {entries[r], NoEntry}
    BY <1>4 DEF Nobody
  <2> QED BY <1>6, <2>1, <2>2, <2>3 DEF Drawing, Drawn
<1>8. TablesGood' /\ Linked'
  BY <1>5, <1>7, CalmStep DEF Before
<1>9. Wanted'
  BY <1>3, <1>6 DEF Wanted, Running, InTurn, Before, SparedInv
<1>10. Marked'
  <2>1. \A q \in Procs \ {p} : job'[q] = job[q]
    BY <1>1 DEF Before, TypeInv, TypeOK
  <2> QED BY <1>1, <1>3, <2>1 DEF Marked, Holding, InTurn, Before, SparedInv
<1>11. Living'
  BY <1>1, <1>3 DEF Living, Before, SparedInv
<1>12. VictimsFree'
  BY <1>3, <1>4, <1>5, VictimsStay DEF Before
<1> QED BY <1>8, <1>9, <1>10, <1>11, <1>12 DEF SparedInv

-----------------------------------------------------------------------------
(* Steps that give a worker to a thread.                                   *)

LEMMA SpawnStep == ASSUME Before, NEW t \in Threads, Spawn(t) PROVE SparedInv'
<1> USE SupervisorAssumption
<1> USE DEF shared, handles, world, local
<1>1. /\ pc[t] = "evict" /\ pc' = [pc EXCEPT ![t] = "load"]
      /\ req[t].op # "unload"
      /\ UNCHANGED <<shared, handles, req, reaped>>
  BY DEF Spawn
<1>2. req[t] \in Request
  BY <1>1 DEF Before, TypeInv, Calling
<1>3. PICK q \in FreePids, m \in Reported[req[t].ref] :
        /\ worker' = [worker EXCEPT ![q] =
                         [ref |-> req[t].ref, doc |-> req[t].doc, mem |-> m]]
        /\ conn' = [conn EXCEPT ![t] = q]
        /\ sock' = IF req[t].op = "run" THEN [sock EXCEPT ![req[t].ref] = q]
                                        ELSE sock
  BY DEF Spawn
<1>4. q \in Pids /\ q # NoPid
  BY DEF FreePids
<1>5. /\ \A r \in Refs : /\ mirror[r] # NoEntry => mirror[r].pid # q
                         /\ entries[r] # NoEntry => entries[r].pid # q
                         /\ sock[r] # q
      /\ \A p \in Procs, r \in Refs : known[p][r] # NoEntry => known[p][r].pid # q
      /\ \A u \in Threads : conn[u] # q
  BY DEF FreePids, Named
<1>6. /\ worker'[q] # NoWorker /\ worker'[q].ref = req[t].ref
      /\ conn'[t] = q
      /\ \A s \in Pids \ {q} : worker'[s] = worker[s]
      /\ \A u \in Threads \ {t} : conn'[u] = conn[u] /\ pc'[u] = pc[u]
      /\ pc'[t] = "load"
      /\ \A r \in Refs :
           \/ sock'[r] = sock[r]
           \/ sock'[r] = q /\ r = req[t].ref /\ req[t].op = "run"
  <2>1. worker'[q] \in Worker /\ worker'[q].ref = req[t].ref
    BY <1>2, <1>3, <1>4 DEF Before, TypeInv, TypeOK, Worker, Request
  <2>2. worker'[q] # NoWorker
    BY <2>1, NullAssumption DEF Worker
  <2>3. /\ conn'[t] = q
        /\ \A s \in Pids \ {q} : worker'[s] = worker[s]
        /\ \A u \in Threads \ {t} : conn'[u] = conn[u] /\ pc'[u] = pc[u]
        /\ pc'[t] = "load"
    BY <1>1, <1>3, <1>4 DEF Before, TypeInv, TypeOK
  <2>4. \A r \in Refs :
          \/ sock'[r] = sock[r]
          \/ sock'[r] = q /\ r = req[t].ref /\ req[t].op = "run"
    BY <1>3 DEF Before, TypeInv, TypeOK
  <2> QED BY <2>1, <2>2, <2>3, <2>4
<1>7. ASSUME NEW r \in Refs, NEW e \in Entry \cup {NoEntry}, Good(r, e),
             e # NoEntry => e.pid # q
      PROVE  GoodNext(r, e)
  <2> SUFFICES ASSUME e # NoEntry PROVE GoodNext(r, e)
    BY DEF GoodNext
  <2>1. e.pid \in Pids \ {q}
    BY <1>7 DEF Entry
  <2>2. e.pid # NoPid /\ worker'[e.pid] # NoWorker => worker'[e.pid].ref = r
    BY <1>6, <1>7, <2>1 DEF Good, Up
  <2>3. ASSUME NEW u \in Threads, Benching(u)' PROVE e.pid # conn'[u]
    BY <1>1, <1>6, <1>7, <2>1, <2>3 DEF Good, Benching, Attached
  <2>4. ASSUME NEW u \in Threads, InJob(u)', e.pid = conn'[u]
        PROVE  e.busy = ProcOf[u]
    <3>1. u # t
      BY <1>6, <2>4 DEF InJob
    <3>2. InJob(u) /\ e.pid = conn[u]
      BY <1>1, <1>6, <2>1, <2>4, <3>1 DEF InJob, Up
    <3> QED BY <1>7, <3>2 DEF Good
  <2> QED BY <2>2, <2>3, <2>4 DEF GoodNext
<1>8. TablesGood'
  <2>1. \A r \in Refs :
          /\ Good(r, mirror[r]) /\ mirror[r] \in Entry \cup {NoEntry}
          /\ Good(r, entries[r]) /\ entries[r] \in Entry \cup {NoEntry}
          /\ \A p \in Procs : /\ Good(r, known[p][r])
                              /\ known[p][r] \in Entry \cup {NoEntry}
    BY DEF Before, SparedInv, TablesGood, TypeInv, TypeOK
  <2> QED BY <1>1, <1>5, <1>7, <2>1, TablesNext
<1>9. Linked'
  <2>1. /\ \A u \in Threads : conn[u] \in Pids \cup {NoPid}
        /\ \A r \in Refs : sock[r] \in Pids \cup {NoPid}
    BY DEF Before, TypeInv, TypeOK
  <2>2. ASSUME NEW u \in Threads, Attached(u)'
        PROVE  /\ conn'[u] \in Pids /\ req'[u].op \in {"run", "bench"}
               /\ Up(conn[u])' => worker'[conn'[u]].ref = req'[u].ref
    <3>1. CASE u = t
      BY <1>1, <1>2, <1>4, <1>6, <3>1 DEF Request
    <3>2. CASE u # t
      <4>1. Attached(u) /\ conn'[u] = conn[u] /\ conn[u] \in Pids \ {q}
        BY <1>5, <1>6, <2>2, <3>2 DEF Attached, Before, SparedInv, Linked
      <4> QED BY <1>1, <1>6, <4>1 DEF Before, SparedInv, Linked, Up
    <3> QED BY <3>1, <3>2
  <2>3. ASSUME NEW r \in Refs, Up(sock[r])' PROVE worker'[sock'[r]].ref = r
    BY <1>5, <1>6, <2>1, <2>3 DEF Before, SparedInv, Linked, Up
  <2>4. ASSUME NEW u \in Threads, Benching(u)'
        PROVE  /\ \A r \in Refs : sock'[r] # conn'[u]
               /\ \A v \in Threads \ {u} : conn'[v] # conn'[u]
    <3>1. CASE u = t
      <4>1. req[t].op = "bench"
        BY <1>1, <2>4, <3>1 DEF Benching
      <4> QED BY <1>5, <1>6, <3>1, <4>1
    <3>2. CASE u # t
      <4>1. Benching(u)
        BY <1>1, <1>6, <2>4, <3>2 DEF Benching, Attached
      <4> QED BY <1>5, <1>6, <3>2, <4>1 DEF Before, SparedInv, Linked
    <3> QED BY <3>1, <3>2
  <2> QED BY <2>2, <2>3, <2>4 DEF Linked
<1>10. Wanted'
  BY <1>1, <1>6 DEF Wanted, Running, InTurn, Before, SparedInv
<1>11. Marked'
  BY <1>1, <1>6 DEF Marked, Holding, InTurn, Before, SparedInv
<1>12. Living'
  BY <1>1, <1>6 DEF Living, Before, SparedInv
<1>13. VictimsFree'
  <2>1. \A u \in Threads : pc'[u] # "evict"
    BY <1>1, <1>6 DEF Before, LockExclusive
  <2> QED BY <2>1, NoVictims
<1> QED BY <1>8, <1>9, <1>10, <1>11, <1>12, <1>13 DEF SparedInv

(* A job of the variant of t that runs on a worker already is in a turn of *)
(* t's program: it is the job of t.                                        *)
LEMMA OneJob ==
  ASSUME Before, NEW t \in Threads, InTurn(t),
         NEW u \in Threads, InJob(u), ~Benching(u),
         worker[conn[u]].ref = req[t].ref
  PROVE  u = t
<1>1. Attached(u) /\ Up(conn[u])
  BY DEF InJob, Attached
<1>2. req[u].op = "run" /\ req[u].ref = req[t].ref
  BY <1>1 DEF Before, SparedInv, Linked, Benching
<1>3. InTurn(u)
  BY <1>2 DEF InTurn, InJob
<1>4. req[t].ref \in Wants[t] /\ req[t].ref \in Wants[u]
  BY <1>2, <1>3 DEF Before, SparedInv, Wanted, Running
<1>5. ProcOf[u] = ProcOf[t]
  BY <1>4 DEF Before, NothingShared
<1> QED BY <1>2, <1>3, <1>5 DEF Before, TurnInv, TurnExclusive

LEMMA LeaseStep ==
  ASSUME Before, NEW t \in Threads, NEW f \in Entry, NEW q \in Pids,
         pc[t] \in {"evict", "load"}, req[t].op = "run", GiveLease(t, f),
         conn' = [conn EXCEPT ![t] = q],
         Up(q), worker[q].ref = req[t].ref,
         Up(f.pid) => worker[f.pid].ref = req[t].ref,
         \A u \in Threads \ {t} : Benching(u) => f.pid # conn[u] /\ q # conn[u],
         UNCHANGED <<alive, closing, job, worker, sock, req>>
  PROVE  SparedInv'
<1> USE SupervisorAssumption
<1> DEFINE p == ProcOf[t]
           r == req[t].ref
           e == Published(p, r, f)
<1>1. InTurn(t) /\ Holding(t) /\ r \in Refs /\ p \in Procs /\ r \in Wants[t]
  BY DEF InTurn, Holding, Before, SparedInv, Wanted, Running, TypeInv, Calling,
         Request
<1>2. /\ known' = [known EXCEPT ![p][r] = e]
      /\ mirror' = [Written(p, entries) EXCEPT ![r] = e]
      /\ entries' = Nobody /\ lock' = NoThread
      /\ pc' = [pc EXCEPT ![t] = "job"]
  BY DEF GiveLease, Unlock
<1>3. e \in Entry /\ e.pid = f.pid /\ e.busy = IF job[p][r] THEN p ELSE NoProc
  BY <1>1, PublishedType DEF Before, TypeInv, Published, Entry
<1>4. /\ \A u \in Threads \ {t} : pc'[u] = pc[u] /\ conn'[u] = conn[u]
      /\ pc'[t] = "job" /\ conn'[t] = q
  BY <1>2 DEF Before, TypeInv, TypeOK
<1>5. ASSUME NEW u \in Threads PROVE Benching(u)' => u # t /\ Benching(u)
  BY <1>4 DEF Benching, Attached
<1>6. ASSUME NEW u \in Threads \ {t} PROVE InJob(u)' => InJob(u)
  BY <1>4 DEF InJob, Up
<1>7. GoodNext(r, e)
  <2>1. ASSUME NEW u \in Threads, InJob(u)', e.pid = conn'[u]
        PROVE  e.busy = ProcOf[u]
    <3>1. CASE u = t
      <4>1. job[p][r]
        BY <1>1, <2>1, <3>1 DEF InJob, Before, SparedInv, Marked
      <4> QED BY <1>3, <3>1, <4>1
    <3>2. CASE u # t
      <4>1. InJob(u) /\ f.pid = conn[u] /\ ~Benching(u)
        BY <1>3, <1>4, <1>6, <2>1, <3>2
      <4>2. worker[conn[u]].ref = r
        BY <4>1 DEF InJob
      <4> QED BY <1>1, <3>2, <4>1, <4>2, OneJob
    <3> QED BY <3>1, <3>2
  <2>2. ASSUME NEW u \in Threads, Benching(u)' PROVE e.pid # conn'[u]
    BY <1>3, <1>4, <1>5, <2>2
  <2>3. e.pid # NoPid /\ worker'[e.pid] # NoWorker => worker'[e.pid].ref = r
    BY <1>3 DEF Up
  <2> HIDE DEF e
  <2> QED BY <2>1, <2>2, <2>3 DEF GoodNext
<1>8. ASSUME NEW s \in Refs, NEW x \in Entry \cup {NoEntry}, Good(s, x), s # r
      PROVE  GoodNext(s, x)
  <2> SUFFICES ASSUME x # NoEntry PROVE GoodNext(s, x)
    BY DEF GoodNext
  <2>1. ASSUME NEW u \in Threads, InJob(u)', x.pid = conn'[u]
        PROVE  x.busy = ProcOf[u]
    <3>1. CASE u = t
      BY <1>4, <1>8, <2>1, <3>1 DEF Good
    <3>2. CASE u # t
      BY <1>4, <1>6, <1>8, <2>1, <3>2 DEF Good
    <3> QED BY <3>1, <3>2
  <2>2. ASSUME NEW u \in Threads, Benching(u)' PROVE x.pid # conn'[u]
    BY <1>4, <1>5, <1>8, <2>2 DEF Good
  <2>3. x.pid # NoPid /\ worker'[x.pid] # NoWorker => worker'[x.pid].ref = s
    BY <1>8 DEF Good, Up
  <2> QED BY <2>1, <2>2, <2>3 DEF GoodNext
<1>9. ASSUME NEW o \in Procs \ {p} PROVE known[o][r] = NoEntry
  <2> SUFFICES ASSUME known[o][r] # NoEntry PROVE FALSE
    OBVIOUS
  <2>1. PICK u \in Threads : ProcOf[u] = o /\ r \in Wants[u]
    BY <1>1 DEF Before, SparedInv, Wanted
  <2> QED BY <1>1, <2>1 DEF Before, NothingShared
<1>10. \A s \in Refs \ {r} :
         /\ mirror'[s] = Written(p, entries)[s]
         /\ \A o \in Procs : known'[o][s] = known[o][s]
  <2> HIDE DEF e
  <2>1. Written(p, entries) \in [Refs -> Entry \cup {NoEntry}]
    BY <1>1, WrittenType DEF Before, TypeInv, TypeOK
  <2> QED BY <1>1, <1>2, <2>1 DEF Before, TypeInv, TypeOK
<1>11. mirror'[r] = e /\ \A o \in Procs : known'[o][r] \in {e, NoEntry}
  <2> HIDE DEF e, r, p
  <2>1. Written(p, entries) \in [Refs -> Entry \cup {NoEntry}]
    BY <1>1, WrittenType DEF Before, TypeInv, TypeOK
  <2> QED BY <1>1, <1>2, <1>9, <2>1 DEF Before, TypeInv, TypeOK
<1>12. \A s \in Refs : GoodNext(s, NoEntry)
  BY DEF GoodNext
<1>13. TablesGood'
  <2>1. \A s \in Refs \ {r} :
          /\ Good(s, Written(p, entries)[s])
          /\ Written(p, entries)[s] \in Entry \cup {NoEntry}
          /\ \A o \in Procs : /\ Good(s, known[o][s])
                              /\ known[o][s] \in Entry \cup {NoEntry}
    BY <1>1, WrittenDrawn, DrawnGood
    DEF Before, SparedInv, TablesGood, TypeInv, TypeOK
  <2>2. \A s \in Refs \ {r} :
          GoodNext(s, mirror'[s]) /\ \A o \in Procs : GoodNext(s, known'[o][s])
    BY <1>8, <1>10, <2>1
  <2>3. GoodNext(r, mirror'[r]) /\ \A o \in Procs : GoodNext(r, known'[o][r])
    <3> HIDE DEF e
    <3> QED BY <1>1, <1>7, <1>11, <1>12
  <2>4. \A s \in Refs : GoodNext(s, entries'[s])
    BY <1>2, <1>12 DEF Nobody
  <2> QED BY <2>2, <2>3, <2>4, TablesNext
<1>14. Linked'
  <2>1. ASSUME NEW u \in Threads, Attached(u)'
        PROVE  /\ conn'[u] \in Pids /\ req'[u].op \in {"run", "bench"}
               /\ Up(conn[u])' => worker'[conn'[u]].ref = req'[u].ref
    <3>1. CASE u = t
      BY <1>4, <3>1
    <3>2. CASE u # t
      BY <1>4, <2>1, <3>2 DEF Attached, Before, SparedInv, Linked, Up
    <3> QED BY <3>1, <3>2
  <2>2. ASSUME NEW s \in Refs, Up(sock[s])' PROVE worker'[sock'[s]].ref = s
    BY <2>2 DEF Before, SparedInv, Linked, Up
  <2>3. ASSUME NEW u \in Threads, Benching(u)'
        PROVE  /\ \A s \in Refs : sock'[s] # conn'[u]
               /\ \A v \in Threads \ {u} : conn'[v] # conn'[u]
    BY <1>4, <1>5, <2>3 DEF Before, SparedInv, Linked
  <2> QED BY <2>1, <2>2, <2>3 DEF Linked
<1>15. Wanted'
  <2>1. \A u \in Threads : Running(u)' => Running(u)
    BY <1>1, <1>4 DEF Running, InTurn
  <2>2. \A o \in Procs, s \in Refs :
          known'[o][s] # NoEntry => known[o][s] # NoEntry \/ (o = p /\ s = r)
    <3> HIDE DEF e
    <3> QED BY <1>1, <1>2 DEF Before, TypeInv, TypeOK
  <2> QED BY <1>1, <2>1, <2>2 DEF Wanted, Before, SparedInv
<1>16. Marked'
  <2>1. \A u \in Threads : Holding(u)' => Holding(u)
    BY <1>1, <1>4 DEF Holding, InTurn
  <2> QED BY <2>1 DEF Marked, Before, SparedInv
<1>17. Living'
  BY <1>4 DEF Living, Before, SparedInv
<1>18. VictimsFree'
  BY <1>2, NoVictims DEF Before, LockExclusive
<1> QED BY <1>13, <1>14, <1>15, <1>16, <1>17, <1>18 DEF SparedInv

LEMMA LeaseActions ==
  ASSUME Before, NEW t \in Threads, Reconnect(t) \/ Loaded(t) PROVE SparedInv'
<1> USE DEF world
<1> DEFINE r == req[t].ref
<1>1. ASSUME Reconnect(t) PROVE SparedInv'
  <2> DEFINE f == [entries[r] EXCEPT !.pinned = @ \/ req[t].pin]
  <2>1. /\ pc[t] = "evict" /\ req[t].op = "run" /\ entries[r] # NoEntry
        /\ Up(sock[r]) /\ GiveLease(t, f)
        /\ conn' = [conn EXCEPT ![t] = sock[r]]
        /\ UNCHANGED <<alive, closing, job, world, req>>
    BY <1>1 DEF Reconnect, Attaching, Listening
  <2>2. req[t] \in Request /\ r \in Refs
    BY <2>1 DEF Before, TypeInv, Calling, Request
  <2>3. entries[r] \in Entry /\ Good(r, entries[r])
    BY <2>1, <2>2 DEF Before, SparedInv, TablesGood, TypeInv, TypeOK
  <2>4. f \in Entry /\ f.pid = entries[r].pid
    <3>1. \A e \in Entry, b \in BOOLEAN :
            LET g == [e EXCEPT !.pinned = @ \/ b] IN g \in Entry /\ g.pid = e.pid
      BY DEF Entry
    <3> QED BY <2>2, <2>3, <3>1 DEF Request
  <2>5. sock[r] \in Pids /\ worker[sock[r]].ref = r
    BY <2>1, <2>2 DEF Before, SparedInv, Linked, TypeInv, TypeOK, Up
  <2>6. Up(f.pid) => worker[f.pid].ref = r
    BY <2>3, <2>4, NullAssumption DEF Good
  <2>7. \A u \in Threads : Benching(u) => f.pid # conn[u] /\ sock[r] # conn[u]
    BY <2>2, <2>3, <2>4, NullAssumption DEF Good, Before, SparedInv, Linked
  <2> HIDE DEF f
  <2> QED BY <2>1, <2>4, <2>5, <2>6, <2>7, LeaseStep
<1>2. ASSUME Loaded(t) PROVE SparedInv'
  <2> DEFINE q == conn[t]
             f == [pid |-> q, peak |-> Larger(Profile[r], worker[q].mem),
                   pinned |-> req[t].pin, doc |-> req[t].doc, busy |-> NoProc]
  <2>1. /\ pc[t] = "load" /\ req[t].op = "run" /\ Up(q) /\ GiveLease(t, f)
        /\ UNCHANGED <<alive, closing, job, world, req, conn>>
    BY <1>2 DEF Loaded
  <2>2. req[t] \in Request /\ q \in Pids /\ worker[q] \in Worker
    BY <2>1 DEF Before, TypeInv, TypeOK, Calling, Up
  <2>3. f \in Entry /\ f.pid = q
    BY <2>2, SupervisorAssumption DEF Entry, Request, Worker, Larger
  <2>4. conn' = [conn EXCEPT ![t] = q]
    BY <2>1 DEF Before, TypeInv, TypeOK
  <2>5. worker[q].ref = r
    BY <2>1 DEF Attached, Before, SparedInv, Linked
  <2>6. \A u \in Threads \ {t} : Benching(u) => q # conn[u]
    BY DEF Before, SparedInv, Linked
  <2> HIDE DEF f
  <2> QED BY <2>1, <2>2, <2>3, <2>4, <2>5, <2>6, LeaseStep
<1> QED BY <1>1, <1>2

-----------------------------------------------------------------------------

LEMMA InitSpared == Init => SparedInv
BY SupervisorAssumption
DEF Init, SparedInv, TablesGood, Good, Nobody, Linked, Attached, Benching, Up,
    Wanted, Running, InTurn, Marked, Holding, Living, VictimsFree

LEMMA NextSpared == Before /\ [Next]_vars => SparedInv'
<1> SUFFICES ASSUME Before, [Next]_vars PROVE SparedInv'
  OBVIOUS
<1>1. ASSUME NEW t \in Threads, Begin(t) PROVE SparedInv'
  BY <1>1, AskStep, PlainActions, OpenActions DEF Begin
<1>2. ASSUME NEW t \in Threads, Step(t) PROVE SparedInv'
  <2>1. CASE Turn(t) \/ Leave(t)
    BY <2>1, EnterStep, PlainActions, LeaveStep DEF Turn
  <2>2. CASE Transact(t) \/ Publish(t) \/ PruneSync(t)
    BY <2>2, OpenActions, SyncActions DEF Transact
  <2>3. CASE Attach(t)
    BY <2>3, EvictActions, LeaseActions, SpawnStep DEF Attach
  <2>4. CASE LoadEnds(t) \/ EndUnload(t)
    BY <2>4, LeaseActions, UnlockActions DEF LoadEnds
  <2>5. CASE JobEnds(t) \/ Free(t) \/ \E r \in Refs : PruneKill(t, r)
    BY <2>5, PlainActions, FreeStep DEF JobEnds
  <2> QED BY <1>2, <2>1, <2>2, <2>3, <2>4, <2>5 DEF Step
<1>3. ASSUME Environment PROVE SparedInv'
  <2>1. ASSUME NEW p \in Procs, ReadTable(p) \/ Close(p) PROVE SparedInv'
    BY <2>1, ReadTableStep, CloseStep
  <2>2. ASSUME NEW p \in Procs, Crash(p) \/ EndClose(p) PROVE SparedInv'
    <3>1. Exit(p) /\ mirror' \in {mirror, SyncedFile(p)}
      BY <2>2 DEF Crash, EndClose
    <3> QED BY <3>1, ExitStep
  <2>3. CASE \/ \E q \in Pids : WorkerDies(q) \/ IdleExit(q)
             \/ \E r \in Refs : SocketLost(r) \/ Republish(r)
    BY <2>3, PlainEvents
  <2> QED BY <1>3, <2>1, <2>2, <2>3 DEF Environment
<1>4. CASE UNCHANGED vars
  BY <1>4, PlainEvents
<1> QED BY <1>1, <1>2, <1>3, <1>4 DEF Next

(* Only an eviction takes an entry off the dictionary of the transaction.  *)
Kept == entries' = entries \/ lock = NoThread \/ lock' = NoThread

LEMMA OnlyEvictions ==
  ASSUME [Next]_vars, ~Kept
  PROVE  \E t \in Threads : EvictVictim(t) \/ EvictOther(t)
<1> USE DEF shared, Kept
<1>1. ASSUME NEW t \in Threads, Begin(t) PROVE Kept
  BY <1>1
  DEF Begin, Ask, AskBench, Unload, UnloadAll, PruneRead, LockFree
<1>2. ASSUME NEW t \in Threads, Step(t), ~(EvictVictim(t) \/ EvictOther(t))
      PROVE  Kept
  <2>1. CASE Turn(t) \/ Leave(t) \/ Transact(t) \/ Publish(t) \/ PruneSync(t)
    BY <2>1
    DEF Turn, Enter, GiveUp, Leave, Transact, Admit, Refuse, Publish, PruneSync,
        LockFree
  <2>2. CASE Attach(t)
    BY <1>2, <2>2 DEF Attach, Reconnect, GiveLease, Unlock, Spawn
  <2>3. CASE LoadEnds(t) \/ EndUnload(t)
    BY <2>3
    DEF LoadEnds, Loaded, GiveLease, LoadedBench, LoadFails, EndUnload, Unlock
  <2>4. CASE JobEnds(t) \/ Free(t) \/ \E r \in Refs : PruneKill(t, r)
    BY <2>4 DEF JobEnds, EndJob, EndBench, Free, PruneKill
  <2> QED BY <1>2, <2>1, <2>2, <2>3, <2>4 DEF Step
<1>3. CASE Environment
  <2>1. ASSUME NEW p \in Procs, Exit(p) PROVE Kept
    BY <2>1 DEF Exit, Unlock
  <2> QED
    BY <1>3, <2>1
    DEF Environment, ReadTable, Crash, Close, EndClose, WorkerDies, IdleExit,
        SocketLost, Republish
<1>4. CASE UNCHANGED vars
  BY <1>4 DEF vars
<1> QED BY <1>1, <1>2, <1>3, <1>4 DEF Next

(* The job of t runs on a worker of its own variant, which an eviction     *)
(* could only take as a listed victim or under that variant's name.        *)
LEMMA SparedStep ==
  ASSUME Before, NEW t \in Threads, NEW r \in Refs, [Next]_vars,
         pc[t] = "job", Up(conn[t]), ProcOf[t] \notin closing,
         Evicting(r), entries[r].pid = conn[t]
  PROVE  req[lock].force
<1>1. InJob(t) /\ lock \in Threads /\ pc[lock] \in {"evict", "load"}
  BY DEF InJob, Evicting, Before, LockExclusive, TypeInv, TypeOK
<1>2. Good(r, entries[r]) /\ entries[r] # NoEntry
  BY DEF Evicting, Before, SparedInv, TablesGood
<1>3. ~Benching(t) /\ worker[conn[t]].ref = r
  BY <1>1, <1>2 DEF Good, Benching, InJob
<1>4. \A u \in Threads : pc[u] \in {"evict", "load"} => u = lock
  BY DEF Before, LockExclusive
<1>5. PICK u \in Threads : EvictVictim(u) \/ EvictOther(u)
  <2>1. ~Kept
    BY DEF Kept, Evicting, Before, TypeInv, TypeOK
  <2> QED BY <2>1, OnlyEvictions
<1>6. u = lock
  BY <1>4, <1>5 DEF EvictVictim, EvictOther, Attaching
<1>7. CASE EvictVictim(u)
  <2>1. PICK s \in victims : Evict(u, s)
    BY <1>7 DEF EvictVictim
  <2>2. s = r
    BY <2>1, EvictType DEF Evicting, Before, TypeInv, TypeOK
  <2> QED BY <1>1, <1>6, <1>7, <2>2 DEF EvictVictim, Before, SparedInv, VictimsFree
<1>8. CASE EvictOther(u)
  <2>1. pc[u] = "evict" /\ req[u].op = "run" /\ Evict(u, req[u].ref)
    BY <1>8 DEF EvictOther, Attaching
  <2>2. InTurn(u) /\ req[u].ref \in Refs
    BY <2>1 DEF InTurn, Before, TypeInv, Calling, Request
  <2>3. req[u].ref = r
    BY <2>1, <2>2, EvictType DEF Evicting, Before
  <2>4. t = u
    BY <1>1, <1>3, <2>2, <2>3, OneJob
  <2> QED BY <2>1, <2>4
<1> QED BY <1>5, <1>7, <1>8

(* A program that runs a model keeps its worker until its job is over:     *)
(* whatever the other threads, commands and programs plan, unload, prune   *)
(* or reload, whatever dies, is killed or is republished, only a forced    *)
(* unload takes a worker away under a job.                                 *)
THEOREM RunningJobsAreSpared ==
  ASSUME NothingShared
  PROVE  Spec => RunningJobsSpared
<1> DEFINE Inv == TypeInv /\ LockExclusive /\ TurnInv /\ SparedInv
           Spared == \A t \in Threads, r \in Refs :
                       /\ pc[t] = "job" /\ Up(conn[t]) /\ ProcOf[t] \notin closing
                       /\ Evicting(r) /\ entries[r].pid = conn[t]
                       => req[lock].force
<1>1. Init => Inv
  BY InitTypeInv, InitLock, InitTurn, InitSpared
<1>2. Inv /\ [Next]_vars => Before
  BY NextTypeInv, NextLock DEF Before
<1>3. Inv /\ [Next]_vars => Inv'
  BY <1>2, NextTypeInv, NextLock, NextTurn, NextSpared
<1>4. Inv /\ [Next]_vars => [Spared]_vars
  BY <1>2, SparedStep
<1> HIDE DEF Inv
<1>5. Spec => [][Spared]_vars
  BY <1>1, <1>3, <1>4, PTL DEF Spec
<1> QED BY <1>5 DEF RunningJobsSpared

=============================================================================
