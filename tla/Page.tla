-------------------------------- MODULE Page --------------------------------
(***************************************************************************)
(* A page that launches a job and follows it to its end (useJob.ts, as     *)
(* Atelier.tsx calls it), composed with the server of Jobs.  The network   *)
(* delays what both say, in each direction, and may cut a request or a     *)
(* stream.  The one stream of Jobs is the page's connection.               *)
(*                                                                         *)
(* A text is its length: the fragments of a journal come in order, so what *)
(* can go wrong is to show one twice, or not at all.                       *)
(***************************************************************************)
EXTENDS Jobs

CONSTANTS Stream,     \* the connection of the page
          Nothing,    \* no job on the screen
          MaxCuts     \* bound of the model: requests and streams that are cut

ASSUME PageAssumption == Followers = {Stream} /\ MaxCuts \in Nat

VARIABLES
  generation,  \* of the latest gesture
  shown,       \* the job on the screen, or Nothing
  interrompu,  \* the screen says that it lost sight of the job
  envoi,       \* a submission flies
  flights,     \* the requests that fly, POST and GET
  link,        \* the stream: "none", "opening", "open"
  wanted,      \* the job it is opened on
  mienne,      \* the generation that opened it
  got,         \* how many of its events were read
  cuts,        \* how many requests and streams were cut
  forgotten    \* history: the jobs whose gesture the user took back

screen == <<generation, shown, interrompu, envoi>>
stream == <<link, wanted, mienne, got>>
page == <<screen, flights, stream, cuts, forgotten>>

InitPage ==
  /\ Init
  /\ generation = 0 /\ shown = Nothing /\ interrompu = FALSE /\ envoi = FALSE
  /\ flights = {}
  /\ link = "none" /\ wanted = NoJob /\ mienne = 0 /\ got = 0
  /\ cuts = 0 /\ forgotten = {}

(* Mutant: an answer is posed, whatever happened since the question. *)
NeverStale(g) == FALSE

(* perime: the gesture that asked has been superseded. *)
Stale(g) == g # generation

(* stream_text and stream_reasoning of the snapshot that follows n events. *)
Text(j, n) == Cardinality({i \in 1 .. n : journal[j][i].kind = "delta"})
AllText(j) == Text(j, Len(journal[j]))

Live(c) == c.state \in {"queued", "running"}
Busy == shown # Nothing /\ Live(shown.card)

(* Nothing more is read from the stream: it was aborted, cut, or closed. *)
Abort == link' = "none" /\ wanted' = NoJob /\ mienne' = 0 /\ got' = 0

-----------------------------------------------------------------------------
(* What the user does; each gesture but a stop opens a generation.         *)

Flight(kind, j) ==
  [kind |-> kind, stage |-> "out", gen |-> generation', job |-> j, reply |-> Nothing]

(* lancer, behind a button that is off while a job is sent or runs. *)
Launch(j) ==
  /\ ~envoi /\ ~Busy
  /\ place[j] = "none" /\ j \notin forgotten
  /\ generation' = generation + 1
  /\ interrompu' = FALSE
  /\ envoi' = TRUE
  /\ flights' = flights \cup {Flight("post", j)}
  /\ UNCHANGED <<vars, shown, stream, cuts, forgotten>>

(* reprendre, offered where the page lost sight of the job. *)
Resume ==
  /\ shown # Nothing /\ interrompu
  /\ generation' = generation + 1
  /\ interrompu' = FALSE
  /\ flights' = flights \cup {Flight("get", shown.job)}
  /\ UNCHANGED <<vars, shown, envoi, stream, cuts, forgotten>>

(* oublier, from the panel of the job or by a change of capability. *)
Forget ==
  /\ shown # Nothing \/ envoi
  /\ generation' = generation + 1
  /\ Abort
  /\ shown' = Nothing
  /\ interrompu' = FALSE /\ envoi' = FALSE
  /\ forgotten' = forgotten \cup {x.job : x \in flights}
                    \cup (IF shown = Nothing THEN {} ELSE {shown.job})
  /\ UNCHANGED <<vars, flights, cuts>>

(* arreter, whose answer is not posed; or another client stops the job.    *)
Stop(k) == Cancel(k) /\ UNCHANGED page

-----------------------------------------------------------------------------
(* The requests.                                                           *)

Answered(x, stage, reply) ==
  flights' = (flights \ {x}) \cup {[x EXCEPT !.stage = stage, !.reply = reply]}

(* POST /jobs: the thread of the job is off before the answer is composed. *)
Post(x) ==
  /\ x.kind = "post" /\ x.stage = "out"
  /\ Submit(x.job)
  /\ Answered(x, "accepted", Nothing)
  /\ UNCHANGED <<screen, stream, cuts, forgotten>>

(* The answer of a POST, or GET /jobs/{id}: the job is read, without its    *)
(* lock, as it is by then.  (One that the table has given up is read from   *)
(* its manifest, which keeps no text: not followed here, such a request     *)
(* can only be lost.)                                                       *)
Get(x) ==
  /\ \/ x.kind = "post" /\ x.stage = "accepted"
     \/ x.kind = "get" /\ x.stage = "out" /\ x.job \in table
  /\ Answered(x, "back", [job |-> x.job, card |-> card[x.job], text |-> AllText(x.job)])
  /\ UNCHANGED <<vars, screen, stream, cuts, forgotten>>

(* The server refuses, or the request or its answer is lost. *)
Lose(x) ==
  /\ x.stage # "lost" /\ cuts < MaxCuts
  /\ cuts' = cuts + 1
  /\ Answered(x, "lost", Nothing)
  /\ UNCHANGED <<vars, screen, stream, forgotten>>

(* suivre: the former stream is aborted, a new one asks for everything.    *)
Watch(j, g) == link' = "opening" /\ wanted' = j /\ mienne' = g /\ got' = 0

(* Back in lancer or reprendre, which awaited the answer.                  *)
Drop(x) ==
  /\ x.stage \in {"back", "lost"} /\ Stale(x.gen)
  /\ flights' = flights \ {x}
  /\ UNCHANGED <<vars, screen, stream, cuts, forgotten>>

Pose(x) ==
  /\ x.stage = "back" /\ ~Stale(x.gen)
  /\ flights' = flights \ {x}
  /\ shown' = x.reply
  /\ envoi' = (envoi /\ x.kind # "post")
  /\ IF Live(x.reply.card) THEN Watch(x.job, x.gen) ELSE UNCHANGED stream
  /\ UNCHANGED <<vars, generation, interrompu, cuts, forgotten>>

Fail(x) ==
  /\ x.stage = "lost" /\ ~Stale(x.gen)
  /\ flights' = flights \ {x}
  /\ envoi' = (envoi /\ x.kind # "post")
  /\ interrompu' = (interrompu \/ x.kind = "get")
  /\ UNCHANGED <<vars, generation, shown, stream, cuts, forgotten>>

-----------------------------------------------------------------------------
(* The stream.                                                             *)

(* GET /jobs/{id}/events: the journal from its beginning. *)
Open ==
  /\ link = "opening"
  /\ Follow(Stream) /\ follows'[Stream] = wanted
  /\ link' = "open"
  /\ UNCHANGED <<screen, flights, wanted, mienne, got, cuts, forgotten>>

(* Mutant: a state replaces all of the former but what was received. *)
KeepsText(n) ==
  [job |-> wanted, card |-> journal[wanted][n].job,
   text |-> IF shown = Nothing THEN 0 ELSE shown.text]

(* setJob: a state or a progress carries the whole job. *)
Replaced(n) ==
  [job |-> wanted, card |-> journal[wanted][n].job, text |-> Text(wanted, n)]

(* appliquerDelta *)
Extended == IF shown = Nothing THEN Nothing ELSE [shown EXCEPT !.text = @ + 1]

(* LecteurSSE hands over one event that the server sent. *)
Deliver ==
  LET n == got + 1
  IN  /\ link = "open" /\ got < index[Stream]
      /\ got' = n
      /\ shown' = IF Stale(mienne) THEN shown
                  ELSE IF journal[wanted][n].kind = "delta" THEN Extended
                  ELSE Replaced(n)
      /\ UNCHANGED <<vars, generation, interrompu, envoi, flights, link, wanted,
                     mienne, cuts, forgotten>>

(* `end`, then the server closes: it carries no job. *)
Close ==
  /\ link = "open" /\ got = index[Stream] /\ fplace[Stream] = "ended"
  /\ Abort
  /\ UNCHANGED <<vars, screen, flights, cuts, forgotten>>

(* Mutant: the end of the body is taken for the end of the job. *)
NotNoticed == FALSE

(* The stream failed, or closed without an `end`. *)
Noticed == ~Stale(mienne)

Cut ==
  /\ link # "none" /\ cuts < MaxCuts
  /\ cuts' = cuts + 1
  /\ Abort
  /\ interrompu' = (interrompu \/ Noticed)
  /\ UNCHANGED <<vars, generation, shown, envoi, flights, forgotten>>

-----------------------------------------------------------------------------
(* The server on its own. What it sends to a stream that is over, until it *)
(* notices, nobody reads: the event loop only finishes the step it is in.  *)
Work(j) ==
  \/ Prepare(j) \/ Turn(j) \/ Load(j) \/ LoadEnds(j) \/ JobEnds(j)
  \/ Release(j) \/ Conclude(j)

Report(j) == Advance(j) \/ ReceiveDelta(j)
Attached == link = "open" \/ fplace[Stream] = "read"
Cancelling == \E k \in Clients : MarkCancelled(k) \/ Unload(k)
Pushing == Attached /\ Push(Stream)
Noticing == link # "open" /\ Disconnect(Stream)

Travel == \E x \in flights : Post(x) \/ Get(x) \/ Drop(x) \/ Pose(x) \/ Fail(x)
Hear == Open \/ Deliver \/ Close

PageNext ==
  \/ \E j \in Jobs : Work(j) /\ UNCHANGED page
  \/ \E j \in Jobs : Report(j) /\ UNCHANGED page
  \/ Cancelling /\ UNCHANGED page
  \/ Pushing /\ UNCHANGED page
  \/ Noticing /\ UNCHANGED page
  \/ \E j \in Jobs : Launch(j)
  \/ Resume \/ Forget
  \/ \E k \in Clients : Stop(k)
  \/ Travel
  \/ \E x \in flights : Lose(x)
  \/ Hear \/ Cut

(* The server goes on and notices a client that left; what is not cut      *)
(* arrives. The user is obliged to nothing. Weak fairness is enough: the   *)
(* locks a step waits for are taken a bounded number of times.             *)
PageFairness ==
  /\ \A j \in Jobs : WF_vars(Work(j))
  /\ WF_vars(Cancelling) /\ WF_vars(Pushing) /\ WF_vars(Noticing)
  /\ WF_<<vars, page>>(Travel) /\ WF_<<vars, page>>(Hear)

PageSpec == InitPage /\ [][PageNext]_<<vars, page>> /\ PageFairness

-----------------------------------------------------------------------------
(* useJob.ts, its generations: a job that the user took off the screen     *)
(* does not come back, however late the answers to its POST, its GET and   *)
(* the events of its stream; and the button waits for a request that flies.*)
ForgottenStays ==
  /\ shown # Nothing => shown.job \notin forgotten
  /\ envoi => \E x \in flights : x.kind = "post" /\ x.gen = generation

(* appliquerDelta: what the page recomposes from fragments is what the     *)
(* server holds, no more, through replays and resumptions; and a final     *)
(* state shows all of it.                                                  *)
TextIsTold ==
  shown # Nothing =>
    /\ shown.text <= AllText(shown.job)
    /\ Final(shown.card) => shown.text = AllText(shown.job)

(* What a page shows is of the job its user asked for last, and true.      *)
PageIsTrue == ForgottenStays /\ TextIsTold

(* The server says it all to a page that stays: a job on the screen is     *)
(* seen to its end, or the page says that it lost sight of it.             *)
PageSettles ==
  \A j \in Jobs :
    (Busy /\ shown.job = j)
      ~> \/ ~Busy \/ interrompu \/ shown.job # j \/ place[j] = "dead"

(* What a page shows as over is complete. It is not: a GET answered between *)
(* the two halves of `finish` says `done` without the outputs, and the page *)
(* follows it no further.                                                   *)
ShownWhole == shown # Nothing /\ ~Busy => shown.card.whole

=============================================================================
