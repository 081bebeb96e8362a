------------------------------ MODULE Session ------------------------------
(***************************************************************************)
(* The dialogue with one worker process: channel.py carries lines of JSON, *)
(* worker.py (WorkerSession) waits for the answer to each operation under  *)
(* a deadline, workers/base.py (WorkerLoop, serve_socket, serve_stdio)     *)
(* serves one connection and one operation at a time.                      *)
(*                                                                         *)
(* A resident worker listens on a socket path: jobs of several programs,   *)
(* health checks and evictions connect to it, each with its own            *)
(* connection.  A worker on stdio has one client, the bench, whose cases   *)
(* follow one another on one channel.                                      *)
(*                                                                         *)
(* A line read from the kernel and one kept in Channel._buffer are not     *)
(* told apart: recv looks at both before it waits.  Time is counted in     *)
(* ticks.  Payloads, deltas (they do what progress does) and figures are   *)
(* left out.                                                               *)
(***************************************************************************)
EXTENDS Naturals, Sequences

CONSTANTS
  Jobs, Health, Evictors,  \* clients of a resident worker, by what they do
  Bench,                   \* the client of a worker on stdio
  Cases,                   \* how many cases the bench measures
  Nobody, NoTask,
  Depth,        \* connections the kernel keeps before accept (listen(1))
  Patience,     \* ticks before a call times out
  MaxProgress,  \* progress events of one execution
  MaxNoise,     \* lines that are no message, waiting in the channel
  Flood,        \* TRUE: noise never stops; FALSE: it stops with the call
  Faults        \* what the worker may do: a subset of FaultKinds

FaultKinds == {"error", "hang", "noise"}
Residents == Jobs \cup Health \cup Evictors
Clients == Residents \cup {Bench}

ASSUME SessionAssumption ==
  /\ Bench \notin Residents /\ Nobody \notin Clients
  /\ Cases \in Nat /\ Depth \in Nat \ {0} /\ Patience \in Nat \ {0}
  /\ MaxProgress \in Nat /\ MaxNoise \in Nat
  /\ Flood \in BOOLEAN /\ Faults \subseteq FaultKinds

(* An operation, with the job an inference names: `bench-<index>` for a    *)
(* case, the client itself for a job of its own.                           *)
JobIds == (Jobs \X {0}) \cup ({Bench} \X (1 .. Cases))
NoJob == <<Nobody, 0>>
Op == [op : {"load", "infer", "ping", "unload"}, job : JobIds \cup {NoJob}]
Call(name, id) == [op |-> name, job |-> id]

(* What each client asks, in order.                                        *)
Script(c) ==
  IF c \in Jobs THEN <<Call("infer", <<c, 0>>)>>
  ELSE IF c \in Health THEN <<Call("ping", NoJob)>>
  ELSE IF c \in Evictors THEN <<Call("unload", NoJob)>>
  ELSE <<Call("load", NoJob)>> \o [i \in 1 .. Cases |-> Call("infer", <<c, i>>)]

Events == {"loaded", "result", "pong", "unloaded", "error", "progress", "noise"}
Line == [ev : Events, job : JobIds \cup {NoJob}]
Says(name, id) == [ev |-> name, job |-> id]
Expected(op) == CASE op = "load" -> "loaded" [] op = "infer" -> "result"
                  [] op = "ping" -> "pong" [] op = "unload" -> "unloaded"

Verdicts == {"ok", "error", "timeout", "closed"}
Answer == [verdict : Verdicts, call : Op, from : JobIds \cup {NoJob}]
Phases == {"idle", "ready", "wait", "kill", "done"}

ASSUME NoTaskAssumption == NoTask \notin Op

VARIABLES
  resident,   \* which of the two transports this worker serves
  state,      \* of the process: "up", "leaving" (idle delay over), "down"
  loaded,     \* WorkerLoop.loaded
  hung,       \* the operation under way will never end
  backlog,    \* connections waiting for accept
  serving,    \* the client whose connection is served
  task, said, \* the operation under way, the progress it has reported
  finished,   \* the jobs whose inference ended without error
  link,       \* of a connection: "none", "open", "left", "cut"
  asked,      \* client to worker, the lines not read yet
  told,       \* worker to client
  phase, at, left,  \* per client: where it is, its call, its ticks
  answers     \* per client: how its calls ended

worker == <<state, loaded, hung, serving, task, said, finished>>
wires == <<backlog, link, asked, told>>
client == <<phase, at, left, answers>>
sessionVars == <<resident, worker, wires, client>>

SessionInit ==
  /\ resident \in BOOLEAN
  /\ state = "up"
  /\ loaded = resident
  /\ hung = FALSE
  /\ backlog = <<>>
  /\ serving = IF resident THEN Nobody ELSE Bench
  /\ task = NoTask
  /\ said = 0
  /\ finished = {}
  /\ link = [c \in Clients |-> IF c = Bench /\ ~resident THEN "open" ELSE "none"]
  /\ asked = [c \in Clients |-> <<>>]
  /\ told = [c \in Clients |-> <<>>]
  /\ phase = [c \in Clients |-> IF c = Bench
                                THEN IF resident THEN "done" ELSE "ready"
                                ELSE IF resident THEN "idle" ELSE "done"]
  /\ at = [c \in Clients |-> 1]
  /\ left = [c \in Clients |-> 0]
  /\ answers = [c \in Clients |-> <<>>]

-----------------------------------------------------------------------------
(* The client.                                                             *)

Current(c) == Script(c)[at[c]]

(* _connect: the kernel queues the connection. *)
Connect(c) ==
  /\ phase[c] = "idle" /\ state # "down" /\ Len(backlog) < Depth
  /\ backlog' = Append(backlog, c)
  /\ link' = [link EXCEPT ![c] = "open"]
  /\ phase' = [phase EXCEPT ![c] = "ready"]
  /\ UNCHANGED <<resident, worker, asked, told, at, left, answers>>

(* The connection is refused.  A job takes the worker for a ghost and      *)
(* evicts it (acquire after _reconnect returned None); an eviction goes on *)
(* to kill; a health check reports it.                                     *)
Refused(c) ==
  /\ phase[c] = "idle"
  /\ state = "down" \/ Len(backlog) >= Depth
  /\ phase' = [phase EXCEPT ![c] = IF c \in Health THEN "done" ELSE "kill"]
  /\ UNCHANGED <<resident, worker, wires, at, left, answers>>

(* kill_pid, at the end of _evict; terminate, for the bench. *)
Kill(c) ==
  /\ phase[c] = "kill"
  /\ phase' = [phase EXCEPT ![c] = "done"]
  /\ state' = "down"
  /\ serving' = Nobody
  /\ task' = NoTask
  /\ hung' = FALSE
  /\ backlog' = <<>>
  /\ link' = [d \in Clients |-> IF link[d] = "open" THEN "cut" ELSE link[d]]
  /\ asked' = [d \in Clients |-> <<>>]
  /\ said' = 0
  /\ UNCHANGED <<resident, loaded, finished, told, at, left, answers>>

(* How a call ended, and what its caller does then: a lease is released    *)
(* and its connection closed, an eviction kills, the bench goes on with    *)
(* its next case unless the load failed, and at the end terminates a       *)
(* worker that outlives its channel (WorkerProcess.close).                 *)
GoesOn(c, verdict) ==
  /\ at[c] < Len(Script(c))
  /\ verdict = "ok" \/ Current(c).op = "infer"
Conclude(c, verdict, from) ==
  /\ answers' = [answers EXCEPT ![c] =
       Append(@, [verdict |-> verdict, call |-> Current(c), from |-> from])]
  /\ left' = [left EXCEPT ![c] = 0]
  /\ IF GoesOn(c, verdict)
     THEN /\ at' = [at EXCEPT ![c] = @ + 1]
          /\ phase' = [phase EXCEPT ![c] = "ready"]
          /\ UNCHANGED link
     ELSE /\ at' = at
          /\ phase' = [phase EXCEPT ![c] =
                         IF c \in Jobs \cup Health THEN "done" ELSE "kill"]
          /\ link' = [link EXCEPT ![c] = IF @ = "open" THEN "left" ELSE @]

(* Channel.send, then _await sets its deadline.                            *)
Send(c) ==
  /\ phase[c] = "ready" /\ link[c] = "open"
  /\ asked' = [asked EXCEPT ![c] = Append(@, Current(c))]
  /\ left' = [left EXCEPT ![c] = Patience]
  /\ phase' = [phase EXCEPT ![c] = "wait"]
  /\ UNCHANGED <<resident, worker, backlog, link, told, at, answers>>

(* The other end is gone: on writing (EPIPE), or once all was read.        *)
Closed(c) ==
  /\ link[c] = "cut"
  /\ phase[c] = "ready" \/ (phase[c] = "wait" /\ told[c] = <<>>)
  /\ Conclude(c, "closed", NoJob)
  /\ UNCHANGED <<resident, worker, backlog, asked, told>>

(* Mutant: any result ends the wait.                                       *)
AnyResult(c, line) == line.ev = Expected(Current(c).op)

(* _await: the expected event, and for an inference the job's own.         *)
Awaited(c, line) ==
  /\ line.ev = Expected(Current(c).op)
  /\ Current(c).op = "infer" => line.job = Current(c).job

(* What a line that does not end the wait does to the deadline: progress   *)
(* renews it, noise and an answer to somebody else do not.                 *)
Renewed(c, line) == IF line.ev = "progress" THEN Patience ELSE left[c]

Receive(c) ==
  LET line == Head(told[c])
  IN  /\ phase[c] = "wait" /\ told[c] # <<>>
      /\ told' = [told EXCEPT ![c] = Tail(@)]
      /\ IF line.ev = "error" THEN Conclude(c, "error", line.job)
         ELSE IF Awaited(c, line) THEN Conclude(c, "ok", line.job)
         ELSE IF left[c] = 0 /\ line.ev \notin {"noise", "progress"}
              THEN Conclude(c, "timeout", NoJob)
         ELSE /\ left' = [left EXCEPT ![c] = Renewed(c, line)]
              /\ UNCHANGED <<link, phase, at, answers>>
      /\ UNCHANGED <<resident, worker, backlog, asked>>

(* Mutant: recv is given no deadline.                                      *)
Forever(c) == FALSE

(* recv gives up when the deadline is past and nothing is left to read:    *)
(* with no time left _fill still looks at what has arrived.                *)
Late(c) == left[c] = 0 /\ told[c] = <<>>

Expire(c) ==
  /\ phase[c] = "wait" /\ link[c] = "open"
  /\ Late(c)
  /\ Conclude(c, "timeout", NoJob)
  /\ UNCHANGED <<resident, worker, backlog, asked, told>>

Tick ==
  /\ \E c \in Clients : left[c] > 0
  /\ left' = [c \in Clients |-> IF left[c] > 0 THEN left[c] - 1 ELSE 0]
  /\ UNCHANGED <<resident, worker, wires, phase, at, answers>>

-----------------------------------------------------------------------------
(* The worker.                                                             *)

Ready == state = "up" /\ ~hung

Accept ==
  /\ Ready /\ serving = Nobody /\ backlog # <<>>
  /\ serving' = Head(backlog)
  /\ backlog' = Tail(backlog)
  /\ UNCHANGED <<resident, state, loaded, hung, task, said, finished, link,
                 asked, told, client>>

(* WorkerLoop.serve reads what was sent, by a client that left too.        *)
Take ==
  /\ Ready /\ serving # Nobody /\ task = NoTask /\ asked[serving] # <<>>
  /\ task' = Head(asked[serving])
  /\ asked' = [asked EXCEPT ![serving] = Tail(@)]
  /\ said' = 0
  /\ UNCHANGED <<resident, state, loaded, hung, serving, finished, backlog,
                 link, told, client>>

(* Mutant: the loop takes the end of a connection for a silence.           *)
Clings == UNCHANGED <<state, serving>>

(* The connection is over: a resident worker accepts the next one, one on  *)
(* stdio ends.                                                             *)
NextConnection ==
  /\ serving' = Nobody
  /\ state' = IF resident THEN state ELSE "down"

(* recv meets the end of the channel.                                      *)
HangUp ==
  /\ Ready /\ serving # Nobody /\ task = NoTask /\ asked[serving] = <<>>
  /\ link[serving] = "left"
  /\ NextConnection
  /\ UNCHANGED <<resident, loaded, hung, task, said, finished, wires, client>>

(* Channel.send towards the client: a line, or ChannelClosed which ends    *)
(* the operation and the connection.                                       *)
Tell(line) ==
  IF link[serving] = "open"
  THEN /\ told' = [told EXCEPT ![serving] = Append(@, line)]
       /\ UNCHANGED <<state, serving>>
  ELSE /\ NextConnection
       /\ UNCHANGED told

Busy == Ready /\ task # NoTask

Report ==
  /\ Busy /\ task.op = "infer" /\ loaded /\ said < MaxProgress
  /\ Tell(Says("progress", task.job))
  /\ said' = said + 1
  /\ task' = IF link[serving] = "open" THEN task ELSE NoTask
  /\ UNCHANGED <<resident, loaded, hung, finished, backlog, link, asked, client>>

(* _dispatch: the operation succeeds.                                      *)
Finish ==
  /\ Busy
  /\ task.op = "infer" => loaded
  /\ Tell(Says(Expected(task.op), task.job))
  /\ loaded' = CASE task.op = "load" -> TRUE [] task.op = "unload" -> FALSE
                 [] OTHER -> loaded
  /\ finished' = IF task.op = "infer" THEN finished \cup {task.job} ELSE finished
  /\ task' = NoTask
  /\ UNCHANGED <<resident, hung, said, backlog, link, asked, client>>

(* ... or the adapter raises, or no model is loaded: an `error` is told.   *)
Fail ==
  /\ Busy
  /\ "error" \in Faults \/ (task.op = "infer" /\ ~loaded)
  /\ Tell(Says("error", task.job))
  /\ task' = NoTask
  /\ UNCHANGED <<resident, loaded, hung, said, finished, backlog, link, asked,
                 client>>

(* The adapter never returns. *)
Hang ==
  /\ Busy /\ "hang" \in Faults
  /\ hung' = TRUE
  /\ UNCHANGED <<resident, state, loaded, serving, task, said, finished, wires,
                 client>>

(* A line on the channel that is no message.                               *)
Noise ==
  /\ ~resident /\ "noise" \in Faults /\ state = "up" /\ link[Bench] = "open"
  /\ Len(told[Bench]) < MaxNoise
  /\ Flood \/ left[Bench] > 0
  /\ told' = [told EXCEPT ![Bench] = Append(@, Says("noise", NoJob))]
  /\ UNCHANGED <<resident, worker, backlog, link, asked, client>>

(* serve_socket: accept timed out; the socket closes a moment later, on    *)
(* whoever connected meanwhile.                                            *)
IdleOut ==
  /\ Ready /\ resident /\ serving = Nobody /\ backlog = <<>>
  /\ state' = "leaving"
  /\ UNCHANGED <<resident, loaded, hung, serving, task, said, finished, wires,
                 client>>

Exit ==
  /\ state = "leaving"
  /\ state' = "down"
  /\ loaded' = FALSE
  /\ backlog' = <<>>
  /\ link' = [c \in Clients |-> IF link[c] = "open" THEN "cut" ELSE link[c]]
  /\ UNCHANGED <<resident, hung, serving, task, said, finished, asked, told,
                 client>>

-----------------------------------------------------------------------------
ClientStep(c) == Connect(c) \/ Refused(c) \/ Kill(c) \/ Send(c) \/ Closed(c)
                 \/ Receive(c) \/ Expire(c)
Serve == Accept \/ Take \/ HangUp \/ Report \/ Finish \/ Exit
SessionNext == (\E c \in Clients : ClientStep(c)) \/ Tick \/ Serve \/ Fail \/ Hang
        \/ Noise \/ IdleOut

(* A client goes on with what it began, time passes, and a worker that does *)
(* not hang serves. Nothing obliges a client to begin.                      *)
Underway(c) == phase[c] # "idle" /\ ClientStep(c)
Fairness == /\ \A c \in Clients : WF_sessionVars(Underway(c))
            /\ WF_sessionVars(Tick)
            /\ WF_sessionVars(Serve)
SessionSpec == SessionInit /\ [][SessionNext]_sessionVars /\ Fairness

-----------------------------------------------------------------------------
SessionTyped ==
  /\ resident \in BOOLEAN /\ loaded \in BOOLEAN /\ hung \in BOOLEAN
  /\ state \in {"up", "leaving", "down"}
  /\ backlog \in Seq(Residents)
  /\ serving \in Clients \cup {Nobody}
  /\ task \in Op \cup {NoTask} /\ said \in 0 .. MaxProgress
  /\ task # NoTask => serving # Nobody
  /\ finished \subseteq JobIds
  /\ link \in [Clients -> {"none", "open", "left", "cut"}]
  /\ asked \in [Clients -> Seq(Op)] /\ told \in [Clients -> Seq(Line)]
  /\ phase \in [Clients -> Phases]
  /\ at \in [Clients -> Nat] /\ \A c \in Clients : at[c] \in 1 .. Len(Script(c))
  /\ left \in [Clients -> 0 .. Patience]
  /\ answers \in [Clients -> Seq(Answer)]

(* A call that returned an output returned that of its own execution, and  *)
(* that execution ended: a result of an earlier job that timed out is      *)
(* never taken for the next one's (WorkerSession._await).                  *)
ResultsAreOwn ==
  SessionTyped /\ \A c \in Clients : \A i \in DOMAIN answers[c] :
    LET a == answers[c][i]
    IN  a.verdict = "ok" /\ a.call.op = "infer" =>
          a.from = a.call.job /\ a.from \in finished

(* The same of errors: what the comment of _await says of answers.         *)
ErrorsAreOwn ==
  \A c \in Clients : \A i \in DOMAIN answers[c] :
    LET a == answers[c][i]
    IN  a.verdict = "error" /\ a.call.op = "infer" => a.from = a.call.job

(* Two jobs of two programs are serialised in the queue of the worker      *)
(* (_reconnect): none of them kills the worker under the other's.          *)
JobsSerialise ==
  \A c, d \in Jobs : phase[c] = "kill" /\ serving = d => phase[d] # "wait"

(* A call on a worker that hangs, errs or babbles returns.                 *)
CallsReturn == \A c \in Clients : phase[c] = "wait" ~> phase[c] # "wait"

(* A worker is not lost with a client that left: it ends the operation     *)
(* under way and comes back to its listening socket, unless it hangs.      *)
WorkerComesBack ==
  \A c \in Clients :
    (serving = c /\ link[c] = "left") ~> (serving # c \/ hung)
=============================================================================
