-------------------------------- MODULE Jobs --------------------------------
(***************************************************************************)
(* The jobs of the API server (jobs.py) and what its clients do to them    *)
(* (routers/jobs.py): submit, cancel, follow by SSE or by a socket.  A     *)
(* thread runs each job through run_job (runner.py); requests to cancel    *)
(* run in threads of their own, or, when they come over a socket, in the   *)
(* event loop that also pushes every stream.                               *)
(*                                                                         *)
(* The supervisor is reduced to what jobs meet in it: the turn of a        *)
(* variant, the lock of the mirror (held for the whole of a load), and the *)
(* worker under a job, which an unload may take away.  Supervisor has the  *)
(* rest.                                                                   *)
(*                                                                         *)
(* Abstracted: notes, percentages and texts; outputs and metrics are one   *)
(* flag, `whole`: the fields that finish fills after the state.            *)
(***************************************************************************)
EXTENDS Naturals, Sequences, FiniteSets

CONSTANTS
  Jobs,        \* job identifiers
  Refs,        \* variants
  RefOf,       \* [Jobs -> Refs]
  Clients,     \* requests to cancel a job
  Followers,   \* event streams
  NoJob,
  MaxActive,   \* MAX_JOBS_ACTIFS
  MaxKept,     \* MAX_JOBS_RETENUS
  MaxReports   \* bound of the model: callbacks of the worker, per job

ASSUME JobsAssumption ==
  /\ NoJob \notin Jobs
  /\ RefOf \in [Jobs -> Refs]
  /\ MaxActive \in Nat \ {0} /\ MaxKept \in Nat /\ MaxActive <= MaxKept
  /\ MaxReports \in Nat

(* What a client sees of a job (Job.snapshot). *)
Card == [state : {"queued", "running", "done", "failed"},
         cancelled : BOOLEAN,
         error : {"none", "fault", "stop"},
         whole : BOOLEAN]

Submitted == [state |-> "queued", cancelled |-> FALSE, error |-> "none",
              whole |-> FALSE]

(* An event of the journal; a delta carries its fragment, not the job. *)
Event == [kind : {"state", "progress"}, job : Card] \cup [kind : {"delta"}]

(* Where the thread of a job may be. *)
Places == {"none", "start", "ask", "wait", "lock", "load", "infer",
           "release", "write", "filling", "fail", "over", "dead"}

VARIABLES
  table,     \* the identifiers in JobRegistry._jobs
  age, next, \* their order of insertion
  card,      \* the fields of each Job
  journal,   \* Job.events
  place,     \* where the thread of each job is
  outcome,   \* what run_job returns, then what fail is told
  turn,      \* the job in the turn of a variant
  mirror,    \* the job that holds the lock of the mirror
  cut,       \* whether an unload took the worker under a job, on whose cancel
  cplace, target, socket,    \* per request to cancel; over a websocket?
  fplace, follows, index, term, fresh, last   \* per stream

registry == <<table, age, next>>
books == <<card, journal>>
run == <<place, outcome, turn, mirror, cut>>
requests == <<cplace, target, socket>>
streams == <<fplace, follows, index, term, fresh, last>>
vars == <<registry, books, run, requests, streams>>

Init ==
  /\ table = {}
  /\ age = [j \in Jobs |-> 0]
  /\ next = 1
  /\ card = [j \in Jobs |-> Submitted]
  /\ journal = [j \in Jobs |-> <<>>]
  /\ place = [j \in Jobs |-> "none"]
  /\ outcome = [j \in Jobs |-> "none"]
  /\ turn = [r \in Refs |-> NoJob]
  /\ mirror = NoJob
  /\ cut = [j \in Jobs |-> "no"]
  /\ cplace = [k \in Clients |-> "idle"]
  /\ target = [k \in Clients |-> NoJob]
  /\ socket = [k \in Clients |-> FALSE]
  /\ fplace = [f \in Followers |-> "idle"]
  /\ follows = [f \in Followers |-> NoJob]
  /\ index = [f \in Followers |-> 0]
  /\ term = [f \in Followers |-> FALSE]
  /\ fresh = [f \in Followers |-> 0]
  /\ last = [f \in Followers |-> Submitted]

-----------------------------------------------------------------------------
(* The job and its journal.                                                *)

(* Job.terminal, read without the lock of the job. *)
Terminal(j) == card[j].state \in {"done", "failed"}

(* finish and fail set the state first and say so last: they hold the lock *)
(* of the job in between, but readers of the fields do not take it.        *)
Locked(j) == place[j] = "filling"

(* The events that carry a snapshot. *)
Told(j) == {i \in DOMAIN journal[j] : journal[j][i].kind # "delta"}

Note(j, event) == journal' = [journal EXCEPT ![j] = Append(@, event)]

(* A transition of the job and the event that carries its new state. *)
Become(j, new) ==
  /\ card' = [card EXCEPT ![j] = new]
  /\ Note(j, [kind |-> "state", job |-> new])

Go(j, here) == place' = [place EXCEPT ![j] = here]

-----------------------------------------------------------------------------
(* JobRegistry.submit and _purger.                                         *)

Active == {j \in table : ~Terminal(j)}

(* Mutant: the surplus is taken from the oldest, terminated or not. *)
PurgeableAny(t) == t

Purgeable(t) == {j \in t : Terminal(j)}

Surplus(t) == IF Cardinality(t) > MaxKept THEN Cardinality(t) - MaxKept ELSE 0

(* The oldest terminated jobs, as many as the surplus if there are so many. *)
Purges(t, dropped) ==
  /\ dropped \subseteq Purgeable(t)
  /\ \/ Cardinality(dropped) = Surplus(t)
     \/ Cardinality(dropped) < Surplus(t) /\ dropped = Purgeable(t)
  /\ \A j \in dropped, i \in Purgeable(t) \ dropped : age'[j] < age'[i]

(* Under the lock of the registry; TooManyJobs changes nothing. *)
Submit(j) ==
  LET kept == table \cup {j}
  IN  /\ place[j] = "none"
      /\ Cardinality(Active) < MaxActive
      /\ age' = [age EXCEPT ![j] = next]
      /\ next' = next + 1
      /\ \E dropped \in SUBSET table :
           /\ Purges(kept, dropped)
           /\ table' = kept \ dropped
      /\ Become(j, Submitted)
      /\ Go(j, "start")
      /\ UNCHANGED <<outcome, turn, mirror, cut, requests, streams>>

-----------------------------------------------------------------------------
(* The thread of a job: _executer around run_job.                          *)

(* Mutant: a stop is reported as what it looks like. *)
PlainMotive(j) == "fault"

(* MOTIF_ANNULATION *)
Motive(j) == IF card[j].cancelled THEN "stop" ELSE "fault"

Calm == UNCHANGED <<registry, requests, streams>>

Begin(j) ==
  /\ place[j] = "start"
  /\ Become(j, [card[j] EXCEPT !.state = "running"])
  /\ Go(j, "ask")
  /\ Calm /\ UNCHANGED <<outcome, turn, mirror, cut>>

(* open_db is called before the `try`: an exception ends the thread. *)
OpenFails(j) ==
  /\ place[j] = "ask"
  /\ Go(j, "dead")
  /\ Calm /\ UNCHANGED <<books, outcome, turn, mirror, cut>>

(* What run_job raises is caught, and `job.cancelled` read there, before   *)
(* fail takes the lock of the job.                                         *)
Raise(j) ==
  /\ outcome' = [outcome EXCEPT ![j] = Motive(j)]
  /\ Go(j, "fail")
  /\ Calm /\ UNCHANGED <<books, turn, mirror, cut>>

(* The input is resolved and its files copied outside run_job's `try`. *)
RefuseInput(j) == place[j] = "ask" /\ Raise(j)

(* Supervisor._enter, with on_wait when somebody is ahead. *)
TurnFree(j) == turn[RefOf[j]] = NoJob

Enter(j) ==
  /\ place[j] \in {"ask", "wait"}
  /\ TurnFree(j)
  /\ turn' = [turn EXCEPT ![RefOf[j]] = j]
  /\ Go(j, "lock")
  /\ Calm /\ UNCHANGED <<books, outcome, mirror, cut>>

(* Mutant: a job that waits is shown in the queue again. *)
QueuedAgain(j) == [card[j] EXCEPT !.state = "queued"]

(* waiting_for: the note alone changes. *)
StillWaiting(j) == card[j]

Queue(j) ==
  /\ place[j] = "ask"
  /\ ~TurnFree(j)
  /\ Become(j, StillWaiting(j))
  /\ Go(j, "wait")
  /\ Calm /\ UNCHANGED <<outcome, turn, mirror, cut>>

(* QueueTimeout *)
GiveUp(j) ==
  /\ place[j] = "wait"
  /\ ~TurnFree(j)
  /\ outcome' = [outcome EXCEPT ![j] = "error"]
  /\ Go(j, "write")
  /\ Calm /\ UNCHANGED <<books, turn, mirror, cut>>

(* The transaction of acquire, as long as a load. *)

(* Mutant: whoever loaded keeps the lock. *)
KeepMirror == UNCHANGED mirror

FreeMirror == mirror' = NoJob

Load(j) ==
  /\ place[j] = "lock"
  /\ mirror = NoJob
  /\ mirror' = j
  /\ Go(j, "load")
  /\ Calm /\ UNCHANGED <<books, outcome, turn, cut>>

Loaded(j) ==
  /\ place[j] = "load"
  /\ FreeMirror
  /\ Go(j, "infer")
  /\ Calm /\ UNCHANGED <<books, outcome, turn, cut>>

(* A refused admission or a failed load: the turn is left at once. *)
LoadFails(j) ==
  /\ place[j] = "load"
  /\ FreeMirror
  /\ turn' = [turn EXCEPT ![RefOf[j]] = NoJob]
  /\ outcome' = [outcome EXCEPT ![j] = "error"]
  /\ Go(j, "write")
  /\ Calm /\ UNCHANGED <<books, cut>>

(* on_progress during a load or an inference, on_delta during the latter.  *)
Reports(j) == {i \in DOMAIN journal[j] : journal[j][i].kind # "state"}

Advance(j) ==
  /\ place[j] \in {"load", "infer"}
  /\ Cardinality(Reports(j)) < MaxReports
  /\ Note(j, [kind |-> "progress", job |-> card[j]])
  /\ Calm /\ UNCHANGED <<card, run>>

ReceiveDelta(j) ==
  /\ place[j] = "infer"
  /\ Cardinality(Reports(j)) < MaxReports
  /\ Note(j, [kind |-> "delta"])
  /\ Calm /\ UNCHANGED <<card, run>>

(* The worker answers before anything closes the channel; or it fails, or  *)
(* an output the contract requires is missing (_check_outputs).            *)
Answer(j) ==
  /\ place[j] = "infer"
  /\ cut[j] = "no"
  /\ outcome' = [outcome EXCEPT ![j] = "ok"]
  /\ Go(j, "release")
  /\ Calm /\ UNCHANGED <<books, turn, mirror, cut>>

InferFails(j) ==
  /\ place[j] = "infer"
  /\ outcome' = [outcome EXCEPT ![j] = "error"]
  /\ Go(j, "release")
  /\ Calm /\ UNCHANGED <<books, turn, mirror, cut>>

(* Lease.release publishes in the mirror, then leaves the turn. *)
Release(j) ==
  /\ place[j] = "release"
  /\ mirror = NoJob
  /\ turn' = [turn EXCEPT ![RefOf[j]] = NoJob]
  /\ Go(j, "write")
  /\ Calm /\ UNCHANGED <<books, outcome, mirror, cut>>

(* The manifest or the line of `runs` cannot be written. *)
RecordFails(j) == place[j] = "write" /\ Raise(j)

-----------------------------------------------------------------------------
(* The end of a job: finish or fail, in the two steps that readers of the  *)
(* state can tell apart.                                                   *)

FinishState(j) ==
  /\ place[j] = "write"
  /\ card' = [card EXCEPT ![j].state =
                IF outcome[j] = "ok" THEN "done" ELSE "failed"]
  /\ Go(j, "filling")
  /\ Calm /\ UNCHANGED <<journal, outcome, turn, mirror, cut>>

FailState(j) ==
  /\ place[j] = "fail"
  /\ card' = [card EXCEPT ![j].state = "failed"]
  /\ Go(j, "filling")
  /\ Calm /\ UNCHANGED <<journal, outcome, turn, mirror, cut>>

(* finish words a failure itself; fail was told what to say. *)
Error(j) == CASE outcome[j] = "ok" -> "none"
              [] outcome[j] = "error" -> Motive(j)
              [] OTHER -> outcome[j]

EndRest(j) ==
  /\ place[j] = "filling"
  /\ Become(j, [card[j] EXCEPT !.whole = TRUE, !.error = Error(j)])
  /\ Go(j, "over")
  /\ Calm /\ UNCHANGED <<outcome, turn, mirror, cut>>

-----------------------------------------------------------------------------
(* The event loop runs one stretch at a time up to its next await. A       *)
(* cancel over a socket is one such stretch, however long its unload.      *)
InLoop == {f \in Followers : fplace[f] = "read"}
            \cup {k \in Clients : socket[k] /\ cplace[k] \in {"mark", "unload"}}
LoopFree == InLoop = {}

(* JobRegistry.cancel: look, mark, unload, with nothing held in between.   *)
Cancel(k) ==
  /\ cplace[k] = "idle"
  /\ \E j \in Active, s \in BOOLEAN :
       /\ s => LoopFree
       /\ target' = [target EXCEPT ![k] = j]
       /\ socket' = [socket EXCEPT ![k] = s]
  /\ cplace' = [cplace EXCEPT ![k] = "mark"]
  /\ UNCHANGED <<registry, books, run, streams>>

MarkCancelled(k) ==
  LET j == target[k]
  IN  /\ cplace[k] = "mark"
      /\ ~Locked(j)
      /\ Become(j, [card[j] EXCEPT !.cancelled = TRUE])
      /\ cplace' = [cplace EXCEPT ![k] = "unload"]
      /\ UNCHANGED <<registry, run, target, socket, streams>>

(* unload(ref, force=True): the worker of the variant goes, whatever job   *)
(* is on it.                                                               *)
Unload(k) ==
  LET served == {j \in Jobs : place[j] = "infer" /\ RefOf[j] = RefOf[target[k]]}
  IN  /\ cplace[k] = "unload"
      /\ mirror = NoJob
      /\ cut' = [j \in Jobs |->
                   IF j \in served /\ cut[j] = "no"
                   THEN IF j = target[k] THEN "own" ELSE "other"
                   ELSE cut[j]]
      /\ cplace' = [cplace EXCEPT ![k] = "answered"]
      /\ UNCHANGED <<registry, books, place, outcome, turn, mirror, target,
                     socket, streams>>

-----------------------------------------------------------------------------
(* A stream: _flux (SSE) or _pousser (socket).                             *)

Quiet == UNCHANGED <<registry, books, run, requests>>

(* A client subscribes, for the first time or again. *)
Follow(f) ==
  /\ fplace[f] = "idle"
  /\ LoopFree
  /\ \E j \in table : follows' = [follows EXCEPT ![f] = j]
  /\ fplace' = [fplace EXCEPT ![f] = "look"]
  /\ Quiet /\ UNCHANGED <<index, term, fresh, last>>

Look(f) ==
  /\ fplace[f] = "look"
  /\ LoopFree
  /\ term' = [term EXCEPT ![f] = Terminal(follows[f])]
  /\ fplace' = [fplace EXCEPT ![f] = "read"]
  /\ Quiet /\ UNCHANGED <<follows, index, fresh, last>>

(* events_since takes the lock of the job. *)
Read(f) ==
  /\ fplace[f] = "read"
  /\ ~Locked(follows[f])
  /\ fresh' = [fresh EXCEPT ![f] = Len(journal[follows[f]])]
  /\ fplace' = [fplace EXCEPT ![f] = "send"]
  /\ Quiet /\ UNCHANGED <<follows, index, term, last>>

(* The client shows the latest snapshot among the events it received.      *)
Send(f) ==
  LET j == follows[f]
      shown == {i \in Told(j) : index[f] < i /\ i <= fresh[f]}
  IN  /\ fplace[f] = "send"
      /\ LoopFree
      /\ fresh[f] > index[f]
      /\ index' = [index EXCEPT ![f] = fresh[f]]
      /\ \/ shown = {} /\ UNCHANGED last
         \/ \E i \in shown : /\ \A n \in shown : n <= i
                            /\ last' = [last EXCEPT ![f] = journal[j][i].job]
      /\ fplace' = [fplace EXCEPT ![f] = "look"]
      /\ Quiet /\ UNCHANGED <<follows, term, fresh>>

(* Mutant: the end is decided after the journal was read. *)
EndedNow(f) == Terminal(follows[f])

(* The job was over before the journal was read. *)
SeenOver(f) == term[f]

Again(f) ==
  /\ fplace[f] = "send"
  /\ LoopFree
  /\ fresh[f] = index[f] /\ ~SeenOver(f)
  /\ fplace' = [fplace EXCEPT ![f] = "look"]
  /\ Quiet /\ UNCHANGED <<follows, index, term, fresh, last>>

(* `end` carries the fields as they are on a socket, the state alone in    *)
(* SSE, where the client keeps the last snapshot it was sent.              *)
End(f) ==
  /\ fplace[f] = "send"
  /\ LoopFree
  /\ fresh[f] = index[f] /\ SeenOver(f)
  /\ last' \in {last, [last EXCEPT ![f] = card[follows[f]]]}
  /\ fplace' = [fplace EXCEPT ![f] = "ended"]
  /\ Quiet /\ UNCHANGED <<follows, index, term, fresh>>

(* The client goes away and the generator with it; the job does not        *)
(* notice, and the client may come back.                                   *)
Disconnect(f) ==
  /\ fplace[f] \in {"look", "send", "ended"}
  /\ LoopFree
  /\ fplace' = [fplace EXCEPT ![f] = "idle"]
  /\ follows' = [follows EXCEPT ![f] = NoJob]
  /\ index' = [index EXCEPT ![f] = 0]
  /\ term' = [term EXCEPT ![f] = FALSE]
  /\ fresh' = [fresh EXCEPT ![f] = 0]
  /\ last' = [last EXCEPT ![f] = Submitted]
  /\ Quiet

-----------------------------------------------------------------------------
Prepare(j) == Begin(j) \/ OpenFails(j) \/ RefuseInput(j) \/ Queue(j)
Turn(j) == Enter(j) \/ GiveUp(j)
LoadEnds(j) == Loaded(j) \/ LoadFails(j)
JobEnds(j) == Answer(j) \/ InferFails(j)
Conclude(j) ==
  \/ FinishState(j) \/ FailState(j) \/ EndRest(j)
  \/ RecordFails(j)

Thread(j) ==
  \/ Prepare(j) \/ Turn(j) \/ Load(j) \/ LoadEnds(j)
  \/ Advance(j) \/ ReceiveDelta(j) \/ JobEnds(j)
  \/ Release(j) \/ Conclude(j)

Push(f) == Look(f) \/ Read(f) \/ Send(f) \/ Again(f) \/ End(f)

Next ==
  \/ \E j \in Jobs : Submit(j) \/ Thread(j)
  \/ \E k \in Clients : Cancel(k) \/ MarkCancelled(k) \/ Unload(k)
  \/ \E f \in Followers : Follow(f) \/ Push(f) \/ Disconnect(f)

(* Threads go on; a wait for the turn, a load and an inference are bounded *)
(* by time limits. The lock of the mirror and the event loop serve their   *)
(* waiters in order. Nothing obliges a client to submit, cancel or follow. *)
Fairness ==
  /\ \A j \in Jobs :
       /\ WF_vars(Prepare(j)) /\ WF_vars(Turn(j)) /\ SF_vars(Load(j))
       /\ WF_vars(LoadEnds(j)) /\ WF_vars(JobEnds(j)) /\ SF_vars(Release(j))
       /\ WF_vars(Conclude(j))
  /\ \A k \in Clients : WF_vars(MarkCancelled(k)) /\ SF_vars(Unload(k))
  /\ \A f \in Followers : SF_vars(Push(f))

Spec == Init /\ [][Next]_vars
FairSpec == Spec /\ Fairness

-----------------------------------------------------------------------------
(* Type invariant. *)
TypeOK ==
  /\ table \subseteq Jobs
  /\ age \in [Jobs -> Nat] /\ next \in Nat
  /\ card \in [Jobs -> Card]
  /\ journal \in [Jobs -> Seq(Event)]
  /\ place \in [Jobs -> Places]
  /\ outcome \in [Jobs -> {"none", "ok", "error", "fault", "stop"}]
  /\ \A j \in Jobs :
       /\ place[j] = "fail" => outcome[j] \in {"fault", "stop"}
       /\ place[j] = "filling" => outcome[j] # "none"
       /\ place[j] \in {"release", "write"} => outcome[j] \in {"ok", "error"}
  /\ turn \in [Refs -> Jobs \cup {NoJob}]
  /\ mirror \in Jobs \cup {NoJob}
  /\ \A j \in Jobs : mirror = j <=> place[j] = "load"
  /\ cut \in [Jobs -> {"no", "own", "other"}]
  /\ cplace \in [Clients -> {"idle", "mark", "unload", "answered"}]
  /\ target \in [Clients -> Jobs \cup {NoJob}]
  /\ socket \in [Clients -> BOOLEAN]
  /\ fplace \in [Followers -> {"idle", "look", "read", "send", "ended"}]
  /\ follows \in [Followers -> Jobs \cup {NoJob}]
  /\ index \in [Followers -> Nat]
  /\ term \in [Followers -> BOOLEAN]
  /\ fresh \in [Followers -> Nat]
  /\ last \in [Followers -> Card]

(* JobRegistry.submit, _purger: a job that is not over can be found and    *)
(* stopped, however many came after it, and the table stays within its     *)
(* limits even when a job turns terminal while another is submitted.       *)
LiveJobsListed ==
  /\ \A j \in Jobs : place[j] # "none" /\ ~Terminal(j) => j \in table
  /\ Cardinality(Active) <= MaxActive
  /\ Cardinality(table) <= MaxKept

(* routers/jobs.py, _flux and _pousser: a stream that says `end` has shown *)
(* its client the complete final state, although it reads the end of the   *)
(* job and its journal at two moments, one without the lock.               *)
Final(c) == c.state \in {"done", "failed"} /\ c.whole
EndTellsAll == \A f \in Followers : fplace[f] = "ended" => Final(last[f])

(* MOTIF_ANNULATION: a job that lost its worker to its own cancellation    *)
(* says so and does not report a fault, whether it ends by finish or fail. *)
StopIsNoFault ==
  \A j \in Jobs : place[j] = "over" /\ cut[j] = "own" => card[j].error = "stop"

(* The journal, replayed to whoever subscribes late, tells one story: the  *)
(* state never goes back, there is one final state, and what is complete   *)
(* stays so, late cancellations included.                                  *)
Rank(c) == CASE c.state = "queued" -> 0 [] c.state = "running" -> 1
             [] OTHER -> 2
OneStory ==
  \A j \in Jobs :
    \A i, n \in Told(j) :
      LET c == journal[j][i].job
          d == journal[j][n].job
      IN  i < n => /\ Rank(c) <= Rank(d)
                   /\ c.cancelled => d.cancelled
                   /\ Rank(c) = 2 => d = [c EXCEPT !.cancelled = d.cancelled]

(* A stream ends with its job: none waits for ever on a job that is over,  *)
(* nor behind a cancellation that blocks the event loop.                   *)
StreamsEnd ==
  \A f \in Followers, j \in Jobs :
    fplace[f] = "look" /\ follows[f] = j
      ~> fplace[f] \in {"ended", "idle"} \/ place[j] = "dead"

(* routers/jobs.py on cancel: the job returns `failed`. A job that was     *)
(* still in the queue when its cancellation was answered does not succeed. *)
Waiting(j) == place[j] \in {"start", "ask", "wait"}
StoppedFails ==
  \A k \in Clients, j \in Jobs :
    [](cplace[k] = "answered" /\ target[k] = j /\ Waiting(j)
         => [](card[j].state # "done"))

=============================================================================
