----------------------------- MODULE JobsProofs -----------------------------
(***************************************************************************)
(* Theorems about Jobs, for any number of jobs, variants, requests and     *)
(* streams and any limits; then about Page, which composes it with a page. *)
(***************************************************************************)
EXTENDS Page, TLAPS, FiniteSetTheorems

(* Init establishes the types. *)
LEMMA InitType == Init => TypeOK
  BY JobsAssumption DEF JobsAssumption, Init, TypeOK, Card, Submitted, Places

(* What a thread, a request or a stream appends to a journal is an event.  *)
LEMMA BecomeType ==
  ASSUME TypeOK, NEW j \in Jobs, NEW c \in Card, Become(j, c)
  PROVE  card' \in [Jobs -> Card] /\ journal' \in [Jobs -> Seq(Event)]
<1> [kind |-> "state", job |-> c] \in Event
  BY DEF Event
<1> QED
  BY DEF TypeOK, Become, Note

LEMMA ThreadType ==
  ASSUME TypeOK, NEW j \in Jobs, Thread(j)
  PROVE  TypeOK'
<1> USE JobsAssumption DEF JobsAssumption
<1> card[j] \in Card
  BY DEF TypeOK
<1>1. CASE Begin(j)
  <2> [card[j] EXCEPT !.state = "running"] \in Card
    BY DEF Card
  <2> QED
    BY <1>1, BecomeType DEF Begin, TypeOK, Go, Calm, registry, requests,
                            streams, Places
<1>2. CASE OpenFails(j)
  BY <1>2 DEF OpenFails, TypeOK, Go, Calm, registry, books, requests, streams,
              Places
<1>3. CASE RefuseInput(j)
  BY <1>3 DEF RefuseInput, Raise, Motive, TypeOK, Go, Calm, registry, books,
              requests, streams, Places
<1>3b. CASE RecordFails(j)
  BY <1>3b DEF RecordFails, Raise, Motive, TypeOK, Go, Calm, registry, books,
               requests, streams, Places
<1>4. CASE Queue(j)
  BY <1>4, BecomeType DEF Queue, StillWaiting, TypeOK, Go, Calm, registry,
                          requests, streams, Places
<1>5. CASE Enter(j)
  BY <1>5 DEF Enter, TypeOK, Go, Calm, registry, books, requests, streams,
              Places
<1>5b. CASE GiveUp(j)
  BY <1>5b DEF GiveUp, TypeOK, Go, Calm, registry, books, requests, streams,
               Places
<1>6. CASE Load(j)
  BY <1>6 DEF Load, TypeOK, Go, Calm, registry, books, requests, streams, Places
<1>7. CASE Loaded(j)
  BY <1>7 DEF Loaded, FreeMirror, TypeOK, Go, Calm, registry, books, requests,
              streams, Places
<1>8. CASE LoadFails(j)
  BY <1>8 DEF LoadFails, FreeMirror, TypeOK, Go, Calm, registry, books,
              requests, streams, Places
<1>9. CASE Advance(j)
  <2> [kind |-> "progress", job |-> card[j]] \in Event
    BY DEF Event
  <2> QED
    BY <1>9 DEF Advance, Note, TypeOK, Calm, registry, run, requests, streams
<1>10. CASE ReceiveDelta(j)
  <2> [kind |-> "delta"] \in Event
    BY DEF Event
  <2> QED
    BY <1>10 DEF ReceiveDelta, Note, TypeOK, Calm, registry, run, requests,
                 streams
<1>11. CASE Answer(j)
  BY <1>11 DEF Answer, TypeOK, Go, Calm, registry, books, requests, streams,
               Places
<1>11b. CASE InferFails(j)
  BY <1>11b DEF InferFails, TypeOK, Go, Calm, registry, books, requests,
                streams, Places
<1>12. CASE Release(j)
  BY <1>12 DEF Release, TypeOK, Go, Calm, registry, books, requests, streams,
               Places
<1>13. CASE FinishState(j)
  <2> card' \in [Jobs -> Card]
    BY <1>13 DEF FinishState, TypeOK, Card
  <2> QED
    BY <1>13 DEF FinishState, TypeOK, Go, Calm, registry, requests, streams,
                 Places
<1>14. CASE FailState(j)
  <2> card' \in [Jobs -> Card]
    BY <1>14 DEF FailState, TypeOK, Card
  <2> QED
    BY <1>14 DEF FailState, TypeOK, Go, Calm, registry, requests, streams,
                 Places
<1>15. CASE EndRest(j)
  <2> DEFINE c == [card[j] EXCEPT !.whole = TRUE, !.error = Error(j)]
  <2> Error(j) \in {"none", "fault", "stop"}
    BY <1>15 DEF EndRest, Error, Motive, TypeOK
  <2> c \in Card
    BY DEF Card
  <2> Become(j, c)
    BY <1>15 DEF EndRest
  <2> HIDE DEF c
  <2> QED
    BY <1>15, BecomeType DEF EndRest, TypeOK, Go, Calm, registry, requests,
                             streams, Places
<1> QED
  BY <1>1, <1>2, <1>3, <1>3b, <1>4, <1>5, <1>5b, <1>6, <1>7, <1>8, <1>9,
     <1>10, <1>11, <1>11b, <1>12, <1>13, <1>14, <1>15
  DEF Thread, Prepare, Turn, LoadEnds, JobEnds, Conclude

LEMMA SubmitType ==
  ASSUME TypeOK, NEW j \in Jobs, Submit(j)
  PROVE  TypeOK'
<1>1. Submitted \in Card
  BY DEF Submitted, Card
<1>2. Become(j, Submitted)
  BY DEF Submit
<1>3. table' \subseteq Jobs
  BY DEF Submit, TypeOK
<1> QED
  BY <1>1, <1>2, <1>3, BecomeType
  DEF Submit, TypeOK, Go, requests, streams, Places

LEMMA ClientType ==
  ASSUME TypeOK, NEW k \in Clients, Cancel(k) \/ MarkCancelled(k) \/ Unload(k),
         \A i \in Clients : cplace[i] # "idle" => target[i] \in Jobs
  PROVE  TypeOK'
<1>1. CASE Cancel(k)
  BY <1>1 DEF Cancel, Active, TypeOK, registry, books, run, streams
<1>2. CASE MarkCancelled(k)
  <2> target[k] \in Jobs
    BY <1>2 DEF MarkCancelled
  <2> card[target[k]] \in Card
    BY DEF TypeOK
  <2> [card[target[k]] EXCEPT !.cancelled = TRUE] \in Card
    BY DEF Card
  <2> QED
    BY <1>2, BecomeType DEF MarkCancelled, TypeOK, registry, run, streams
<1>3. CASE Unload(k)
  BY <1>3 DEF Unload, TypeOK, registry, books, streams
<1> QED
  BY <1>1, <1>2, <1>3

LEMMA StreamType ==
  ASSUME TypeOK, NEW f \in Followers, Follow(f) \/ Push(f) \/ Disconnect(f),
         \A g \in Followers : fplace[g] # "idle" => follows[g] \in Jobs
  PROVE  TypeOK'
<1> USE DEF Quiet, registry, books, run, requests
<1>1. CASE Follow(f)
  BY <1>1 DEF Follow, TypeOK
<1>2. CASE Look(f)
  BY <1>2 DEF Look, TypeOK, Terminal
<1>3. CASE Read(f)
  <2> Len(journal[follows[f]]) \in Nat
    BY <1>3 DEF Read, TypeOK
  <2> QED
    BY <1>3 DEF Read, TypeOK
<1>4. CASE Send(f)
  <2> last' \in [Followers -> Card]
    <3> \A i \in Told(follows[f]) : journal[follows[f]][i].job \in Card
      BY <1>4 DEF Send, TypeOK, Told, Event
    <3> QED
      BY <1>4 DEF Send, TypeOK
  <2> QED
    BY <1>4 DEF Send, TypeOK
<1>5. CASE Again(f)
  BY <1>5 DEF Again, TypeOK
<1>6. CASE End(f)
  <2> card[follows[f]] \in Card
    BY <1>6 DEF End, TypeOK
  <2> last' \in [Followers -> Card]
    BY <1>6 DEF End, TypeOK
  <2> QED
    BY <1>6 DEF End, TypeOK
<1>7. CASE Disconnect(f)
  <2> Submitted \in Card
    BY DEF Submitted, Card
  <2> QED
    BY <1>7 DEF Disconnect, TypeOK
<1> QED
  BY <1>1, <1>2, <1>3, <1>4, <1>5, <1>6, <1>7 DEF Push

(* A request, once it looked, has its job, and so has a stream: both were  *)
(* taken from the table.                                                   *)
Named ==
  /\ \A j \in table : place[j] # "none"
  /\ \A k \in Clients :
       cplace[k] # "idle" => target[k] \in Jobs /\ place[target[k]] # "none"
  /\ \A f \in Followers :
       fplace[f] # "idle" => follows[f] \in Jobs /\ place[follows[f]] # "none"

(* A thread has a job that was submitted, and none goes back to before.    *)
LEMMA ThreadFrame ==
  ASSUME TypeOK, NEW j \in Jobs, Thread(j)
  PROVE  /\ UNCHANGED <<registry, requests, streams>>
         /\ place[j] # "none" /\ place'[j] # "none"
         /\ \A i \in Jobs \ {j} : place'[i] = place[i] /\ card'[i] = card[i]
                                 /\ journal'[i] = journal[i]
<1> USE DEF Calm, Go, registry, requests, streams, TypeOK
<1>1. CASE Begin(j)
  BY <1>1 DEF Begin, Become, Note
<1>2. CASE OpenFails(j)
  BY <1>2 DEF OpenFails, books
<1>3. CASE RefuseInput(j)
  BY <1>3 DEF RefuseInput, Raise, books
<1>4. CASE Queue(j)
  BY <1>4 DEF Queue, Become, Note
<1>5. CASE Turn(j)
  BY <1>5 DEF Turn, Enter, GiveUp, books
<1>6. CASE Load(j) \/ LoadEnds(j)
  BY <1>6 DEF Load, LoadEnds, Loaded, LoadFails, books
<1>7. CASE Advance(j) \/ ReceiveDelta(j)
  BY <1>7 DEF Advance, ReceiveDelta, Note, run
<1>8. CASE JobEnds(j)
  BY <1>8 DEF JobEnds, Answer, InferFails, books
<1>9. CASE Release(j)
  BY <1>9 DEF Release, books
<1>10. CASE FinishState(j)
  BY <1>10 DEF FinishState
<1>11. CASE EndRest(j)
  BY <1>11 DEF EndRest, Become, Note
<1>12. CASE RecordFails(j)
  BY <1>12 DEF RecordFails, Raise, books
<1>13. CASE FailState(j)
  BY <1>13 DEF FailState
<1> QED
  BY <1>1, <1>2, <1>3, <1>4, <1>5, <1>6, <1>7, <1>8, <1>9, <1>10, <1>11,
     <1>12, <1>13
  DEF Thread, Prepare, Conclude

LEMMA NamedStep == TypeOK /\ Named /\ [Next]_vars => Named'
<1> SUFFICES ASSUME TypeOK, Named, [Next]_vars PROVE Named'
  OBVIOUS
<1>1. CASE UNCHANGED vars
  BY <1>1 DEF Named, vars, registry, run, requests, streams
<1>2. ASSUME NEW j \in Jobs, Submit(j) PROVE Named'
  BY <1>2 DEF Named, Submit, Go, requests, streams, TypeOK
<1>3. ASSUME NEW j \in Jobs, Thread(j) PROVE Named'
  BY <1>3, ThreadFrame DEF Named, registry, requests, streams, TypeOK
<1>4. ASSUME NEW k \in Clients, Cancel(k) PROVE Named'
  BY <1>4 DEF Named, Cancel, Active, registry, run, streams, TypeOK
<1>5. ASSUME NEW k \in Clients, MarkCancelled(k) \/ Unload(k) PROVE Named'
  BY <1>5 DEF Named, MarkCancelled, Unload, registry, run, streams, TypeOK
<1>6. ASSUME NEW f \in Followers, Follow(f) PROVE Named'
  BY <1>6 DEF Named, Follow, Quiet, registry, run, requests, TypeOK
<1>7. ASSUME NEW f \in Followers, Push(f) \/ Disconnect(f) PROVE Named'
  BY <1>7 DEF Named, Push, Look, Read, Send, Again, End, Disconnect, Quiet,
              registry, run, requests, TypeOK
<1> QED
  BY <1>1, <1>2, <1>3, <1>4, <1>5, <1>6, <1>7 DEF Next

LEMMA TypeStep == TypeOK /\ Named /\ [Next]_vars => TypeOK'
<1> SUFFICES ASSUME TypeOK, Named, [Next]_vars PROVE TypeOK'
  OBVIOUS
<1>1. CASE UNCHANGED vars
  BY <1>1 DEF TypeOK, vars, registry, books, run, requests, streams
<1>2. CASE Next
  BY <1>2, SubmitType, ThreadType, ClientType, StreamType DEF Next, Named
<1> QED
  BY <1>1, <1>2

(* Every variable of the job registry keeps its type: the fields and the   *)
(* journal of a job, the mirror's holder, what a stream has shown.         *)
THEOREM JobsTyped == Spec => [](TypeOK /\ Named)
<1>1. Init => TypeOK /\ Named
  BY InitType DEF Init, Named
<1> QED
  BY <1>1, TypeStep, NamedStep, PTL DEF Spec

-----------------------------------------------------------------------------
(* A cancellation that took a worker had marked its job first; the error   *)
(* that follows is told apart by the mark, wherever it is caught.          *)
CutsMarked ==
  \A j \in Jobs :
    /\ cut[j] # "no" =>
         place[j] \in {"infer", "release", "write", "filling", "fail", "over"}
    /\ cut[j] = "own" =>
         /\ card[j].cancelled
         /\ place[j] \in {"release", "write"} => outcome[j] = "error"
         /\ place[j] = "filling" => outcome[j] \in {"error", "stop"}
         /\ place[j] = "fail" => outcome[j] = "stop"
         /\ place[j] = "over" => card[j].error = "stop"

UnloadsMarked ==
  \A k \in Clients : cplace[k] = "unload" => card[target[k]].cancelled

StopInv == CutsMarked /\ UnloadsMarked

LEMMA StopThread ==
  ASSUME TypeOK, Named, StopInv, NEW j \in Jobs, Thread(j)
  PROVE  StopInv'
<1> USE DEF Calm, Go, registry, requests, streams, TypeOK, StopInv, CutsMarked
<1>a. ASSUME \A i \in Jobs : card'[i].cancelled = card[i].cancelled,
             UNCHANGED requests
      PROVE  UnloadsMarked'
  BY <1>a DEF UnloadsMarked, Named
<1>1. CASE Begin(j)
  BY <1>1, <1>a DEF Begin, Become, Card
<1>2. CASE OpenFails(j)
  BY <1>2, <1>a DEF OpenFails, books
<1>3. CASE RefuseInput(j)
  BY <1>3, <1>a DEF RefuseInput, Raise, books
<1>4. CASE Queue(j)
  BY <1>4, <1>a DEF Queue, StillWaiting, Become, Card
<1>5. CASE Turn(j)
  BY <1>5, <1>a DEF Turn, Enter, GiveUp, books
<1>6. CASE Load(j) \/ LoadEnds(j)
  BY <1>6, <1>a DEF Load, LoadEnds, Loaded, LoadFails, books
<1>7. CASE Advance(j) \/ ReceiveDelta(j)
  BY <1>7, <1>a DEF Advance, ReceiveDelta, run
<1>8. CASE JobEnds(j)
  BY <1>8, <1>a DEF JobEnds, Answer, InferFails, books
<1>9. CASE Release(j)
  BY <1>9, <1>a DEF Release, books
<1>10. CASE FinishState(j)
  BY <1>10, <1>a DEF FinishState, Card
<1>11. CASE EndRest(j)
  BY <1>11, <1>a DEF EndRest, Error, Motive, Become, Card
<1>12. CASE RecordFails(j)
  BY <1>12, <1>a DEF RecordFails, Raise, Motive, books
<1>13. CASE FailState(j)
  BY <1>13, <1>a DEF FailState, Card
<1> QED
  BY <1>1, <1>2, <1>3, <1>4, <1>5, <1>6, <1>7, <1>8, <1>9, <1>10, <1>11,
     <1>12, <1>13
  DEF Thread, Prepare, Conclude

LEMMA StopStep == TypeOK /\ Named /\ StopInv /\ [Next]_vars => StopInv'
<1> SUFFICES ASSUME TypeOK, Named, StopInv, [Next]_vars PROVE StopInv'
  OBVIOUS
<1> USE DEF TypeOK, StopInv, CutsMarked, UnloadsMarked
<1>1. CASE UNCHANGED vars
  BY <1>1 DEF vars, books, run, requests
<1>2. ASSUME NEW j \in Jobs, Submit(j) PROVE StopInv'
  BY <1>2 DEF Submit, Become, Go, requests, Named
<1>3. ASSUME NEW j \in Jobs, Thread(j) PROVE StopInv'
  BY <1>3, StopThread
<1>4. ASSUME NEW k \in Clients, Cancel(k) PROVE StopInv'
  BY <1>4 DEF Cancel, books, run
<1>5. ASSUME NEW k \in Clients, MarkCancelled(k) PROVE StopInv'
  BY <1>5 DEF MarkCancelled, Become, Card, run, Named
<1>6. ASSUME NEW k \in Clients, Unload(k) PROVE StopInv'
  BY <1>6 DEF Unload, books
<1>7. ASSUME NEW f \in Followers, Follow(f) \/ Push(f) \/ Disconnect(f)
      PROVE  StopInv'
  BY <1>7 DEF Follow, Push, Look, Read, Send, Again, End, Disconnect, Quiet,
              books, run, requests
<1> QED
  BY <1>1, <1>2, <1>3, <1>4, <1>5, <1>6, <1>7 DEF Next

(* MOTIF_ANNULATION in finish and in _executer: a job that lost its worker *)
(* to its own cancellation reports a stop, never a fault.                  *)
THEOREM StopsAreNotFaults == Spec => []StopIsNoFault
<1>1. Init => StopInv
  BY DEF Init, StopInv, CutsMarked, UnloadsMarked
<1>2. StopInv => StopIsNoFault
  BY DEF StopInv, CutsMarked, StopIsNoFault
<1> QED
  BY <1>1, <1>2, JobsTyped, StopStep, PTL DEF Spec

-----------------------------------------------------------------------------
(* A job is terminal from the first step of finish, or from fail, on.      *)
TerminalAtEnd ==
  \A j \in Jobs : Terminal(j) <=> place[j] \in {"filling", "over"}

Listed ==
  \A j \in Jobs : place[j] # "none" /\ ~Terminal(j) => j \in table

Limits ==
  /\ IsFiniteSet(table)
  /\ Cardinality(Active) <= MaxActive
  /\ Cardinality(table) <= MaxKept

TableInv == TerminalAtEnd /\ Listed /\ Limits

(* Jobs that are not over can only become fewer, but by a submission.      *)
LEMMA FewerActive ==
  ASSUME Limits, UNCHANGED table,
         \A j \in table : Terminal(j) => Terminal(j)'
  PROVE  Limits'
<1>a. Active' \subseteq Active /\ Active \subseteq table
  BY DEF Active
<1>1. Active' \subseteq Active /\ IsFiniteSet(Active)
  BY <1>a, FS_Subset DEF Limits
<1>2. Cardinality(Active') <= Cardinality(Active)
  BY <1>1, FS_Subset
<1>3. Cardinality(Active) \in Nat /\ Cardinality(Active') \in Nat
  BY <1>1, FS_Subset, FS_CardinalityType
<1> QED
  BY <1>2, <1>3, JobsAssumption DEF Limits, JobsAssumption

LEMMA TerminalThread ==
  ASSUME TypeOK, TerminalAtEnd, NEW j \in Jobs, Thread(j)
  PROVE  /\ TerminalAtEnd'
         /\ \A i \in Jobs : Terminal(i) => Terminal(i)'
<1> SUFFICES /\ Terminal(j)' <=> place'[j] \in {"filling", "over"}
             /\ Terminal(j) => Terminal(j)'
  BY ThreadFrame DEF TerminalAtEnd, Terminal
<1>0. /\ card[j] \in Card
      /\ Terminal(j) <=> place[j] \in {"filling", "over"}
      /\ DOMAIN card = Jobs /\ DOMAIN place = Jobs
  BY DEF TypeOK, TerminalAtEnd
<1> USE <1>0 DEF Go, Terminal
<1>1. CASE Begin(j)
  BY <1>1 DEF Begin, Become, Card
<1>2. CASE OpenFails(j)
  BY <1>2 DEF OpenFails, books
<1>3. CASE RefuseInput(j)
  BY <1>3 DEF RefuseInput, Raise, books
<1>4. CASE Queue(j)
  BY <1>4 DEF Queue, StillWaiting, Become, Card
<1>5. CASE Enter(j)
  BY <1>5 DEF Enter, books
<1>5b. CASE GiveUp(j)
  BY <1>5b DEF GiveUp, books
<1>6. CASE Load(j)
  BY <1>6 DEF Load, books
<1>6b. CASE LoadEnds(j)
  BY <1>6b DEF LoadEnds, Loaded, LoadFails, books
<1>7. CASE Advance(j) \/ ReceiveDelta(j)
  BY <1>7 DEF Advance, ReceiveDelta, run
<1>8. CASE JobEnds(j)
  BY <1>8 DEF JobEnds, Answer, InferFails, books
<1>9. CASE Release(j)
  BY <1>9 DEF Release, books
<1>10. CASE FinishState(j)
  BY <1>10 DEF FinishState, Card
<1>11. CASE EndRest(j)
  BY <1>11 DEF EndRest, Become, Card
<1>12. CASE RecordFails(j)
  BY <1>12 DEF RecordFails, Raise, books
<1>13. CASE FailState(j)
  BY <1>13 DEF FailState, Card
<1> QED
  BY <1>1, <1>2, <1>3, <1>4, <1>5, <1>5b, <1>6, <1>6b, <1>7, <1>8, <1>9,
     <1>10, <1>11, <1>12, <1>13
  DEF Thread, Prepare, Turn, Conclude

(* What _purger leaves: no live job goes, and either nothing had to, or    *)
(* enough went, or only live jobs are left, of which there are few.        *)
LEMMA SubmitLimits ==
  ASSUME TypeOK, Named, TableInv, NEW j \in Jobs, Submit(j)
  PROVE  Limits' /\ Listed'
<1> DEFINE kept == table \cup {j}
           live == Active \cup {j}
<1>1. PICK dropped \in SUBSET table :
        Purges(kept, dropped) /\ table' = kept \ dropped
  BY DEF Submit
<1>2. ~Terminal(j) /\ ~Terminal(j)' /\ place[j] = "none"
  BY DEF Submit, TableInv, TerminalAtEnd, Become, Submitted, Terminal, TypeOK
<1>3. \A i \in Jobs \ {j} : (Terminal(i)' <=> Terminal(i)) /\ place'[i] = place[i]
  BY DEF Submit, Become, Go, Terminal, TypeOK
<1>4. Purgeable(kept) \subseteq kept /\ kept \ Purgeable(kept) = live
  BY <1>2 DEF Purgeable, Active
<1>5. dropped \subseteq Purgeable(kept)
  BY <1>1 DEF Purges
<1>6. Listed'
  BY <1>1, <1>2, <1>3, <1>5 DEF TableInv, Listed, Purgeable, TypeOK
<1>7. IsFiniteSet(kept) /\ IsFiniteSet(table') /\ IsFiniteSet(dropped)
  BY <1>1, <1>5, FS_AddElement, FS_Subset DEF TableInv, Limits
<1>8. IsFiniteSet(Active) /\ IsFiniteSet(live)
  BY FS_Subset, FS_AddElement DEF TableInv, Limits, Active
<1>9. Cardinality(live) <= MaxActive
  <2>1. Cardinality(live) <= Cardinality(Active) + 1
    BY <1>8, FS_AddElement, FS_CardinalityType
  <2>2. Cardinality(Active) < MaxActive
    BY DEF Submit
  <2> QED
    BY <2>1, <2>2, <1>8, FS_CardinalityType, JobsAssumption DEF JobsAssumption
<1>10. Cardinality(Active') <= MaxActive
  <2>1. Active' \subseteq live
    BY <1>1, <1>3, <1>2 DEF Active, TypeOK
  <2>2. Cardinality(Active') <= Cardinality(live)
    BY <2>1, <1>8, FS_Subset
  <2>3. Cardinality(Active') \in Nat /\ Cardinality(live) \in Nat
    BY <2>1, <1>8, FS_Subset, FS_CardinalityType
  <2> QED
    BY <2>2, <2>3, <1>9, JobsAssumption DEF JobsAssumption
<1>11. Cardinality(table') <= MaxKept
  <2> DEFINE n == Cardinality(kept)
             m == Cardinality(dropped)
  <2>1. dropped \subseteq kept
    BY <1>4, <1>5
  <2>2. Cardinality(kept \ dropped) = n - m
    <3>1. kept \cap dropped = dropped
      BY <2>1
    <3> QED
      BY <1>7, <3>1, FS_Difference
  <2>3. n \in Nat /\ m \in Nat
    BY <1>7, FS_CardinalityType
  <2>4. CASE m = Surplus(kept)
    BY <2>2, <2>3, <2>4, <1>1, JobsAssumption DEF Surplus, JobsAssumption
  <2>5. CASE dropped = Purgeable(kept)
    <3>1. table' = live
      BY <2>5, <1>1, <1>4
    <3> QED
      BY <3>1, <1>9, <1>8, FS_CardinalityType, JobsAssumption DEF JobsAssumption
  <2> QED
    BY <1>1, <2>4, <2>5 DEF Purges
<1> QED
  BY <1>6, <1>7, <1>10, <1>11 DEF Limits

LEMMA TableStep == TypeOK /\ Named /\ TableInv /\ [Next]_vars => TableInv'
<1> SUFFICES ASSUME TypeOK, Named, TableInv, [Next]_vars PROVE TableInv'
  OBVIOUS
<1>a. ASSUME UNCHANGED <<table, place>>,
             \A j \in Jobs : Terminal(j)' <=> Terminal(j)
      PROVE  TableInv'
  <2>1. Limits /\ UNCHANGED table /\ \A j \in table : Terminal(j) => Terminal(j)'
    BY <1>a DEF TableInv, TypeOK
  <2>2. Limits'
    BY <2>1, FewerActive
  <2> QED
    BY <1>a, <2>2 DEF TableInv, TerminalAtEnd, Listed
<1>1. CASE UNCHANGED vars
  BY <1>1, <1>a DEF vars, registry, books, run, Terminal
<1>2. ASSUME NEW j \in Jobs, Submit(j) PROVE TableInv'
  <2>1. TerminalAtEnd'
    BY <1>2 DEF Submit, Become, Go, Submitted, TypeOK, TableInv,
                TerminalAtEnd, Terminal
  <2> QED
    BY <1>2, <2>1, SubmitLimits DEF TableInv
<1>3. ASSUME NEW j \in Jobs, Thread(j) PROVE TableInv'
  <2>1. TerminalAtEnd' /\ \A i \in Jobs : Terminal(i) => Terminal(i)'
    BY <1>3, TerminalThread DEF TableInv
  <2>2. UNCHANGED table
    BY <1>3, ThreadFrame DEF registry
  <2>a. Limits /\ \A i \in table : Terminal(i) => Terminal(i)'
    BY <2>1 DEF TableInv, TypeOK
  <2>3. Limits'
    BY <2>a, <2>2, FewerActive
  <2>4. Listed'
    BY <1>3, <2>1, <2>2, ThreadFrame DEF TableInv, Listed
  <2> QED
    BY <2>1, <2>3, <2>4 DEF TableInv
<1>4. ASSUME NEW k \in Clients, Cancel(k) \/ Unload(k) PROVE TableInv'
  BY <1>4, <1>a DEF Cancel, Unload, registry, books, run, Terminal
<1>5. ASSUME NEW k \in Clients, MarkCancelled(k) PROVE TableInv'
  BY <1>5, <1>a DEF MarkCancelled, Become, registry, run, Terminal, TypeOK, Card
<1>6. ASSUME NEW f \in Followers, Follow(f) \/ Push(f) \/ Disconnect(f)
      PROVE  TableInv'
  BY <1>6, <1>a DEF Follow, Push, Look, Read, Send, Again, End, Disconnect,
                    Quiet, registry, books, run, Terminal
<1> QED
  BY <1>1, <1>2, <1>3, <1>4, <1>5, <1>6 DEF Next

LEMMA InitTable == Init => TableInv
<1>1. Init => table = {} /\ Active = {}
  BY DEF Init, Active
<1>2. Init => Limits
  BY <1>1, FS_EmptySet, JobsAssumption DEF Limits, JobsAssumption
<1> QED
  BY <1>2 DEF Init, TableInv, TerminalAtEnd, Listed, Terminal, Submitted

(* JobRegistry: a job that is not over stays in the table whatever is      *)
(* submitted after it, and both limits hold although the ends of jobs are  *)
(* not serialised with the submissions that count them.                    *)
THEOREM LiveJobsAreListed == Spec => []LiveJobsListed
<1>1. TableInv => LiveJobsListed
  BY DEF TableInv, Listed, Limits, LiveJobsListed
<1> QED
  BY <1>1, InitTable, JobsTyped, TableStep, PTL DEF Spec

-----------------------------------------------------------------------------
(* The journal's part of `end`: once a snapshot in it is final, so are the *)
(* later ones and the job; and a job that is over has told so.             *)
FinalAt(j, m) == m \in Told(j) /\ Final(journal[j][m].job)

JournalFinal(j) ==
  /\ \A m, n \in Told(j) : m < n /\ FinalAt(j, m) => FinalAt(j, n)
  /\ \A m \in Told(j) : FinalAt(j, m) => Final(card[j])
  /\ place[j] = "over" => \E m \in Told(j) : FinalAt(j, m)
  /\ card[j].whole => place[j] = "over"

(* The stream's part: what it has read is in the journal; a client that    *)
(* was sent a final snapshot shows one; a stream that saw the job over     *)
(* before it read the journal has read a final snapshot there.             *)
StreamFinal(f) ==
  LET j == follows[f]
  IN  /\ fplace[f] = "idle" => index[f] = 0 /\ fresh[f] = 0
      /\ fplace[f] # "idle" =>
           /\ index[f] <= fresh[f] /\ fresh[f] <= Len(journal[j])
           /\ \A m \in 1 .. index[f] : FinalAt(j, m) => Final(last[f])
           /\ fplace[f] = "read" /\ term[f] => Terminal(j)
           /\ fplace[f] = "send" /\ term[f] =>
                \E m \in 1 .. fresh[f] : FinalAt(j, m)
           /\ fplace[f] = "ended" => Final(last[f])

EndInv ==
  /\ \A j \in Jobs : JournalFinal(j)
  /\ \A f \in Followers : StreamFinal(f)

(* The journals in terms of what a stream has read of them. *)
LEMMA ToldFacts ==
  ASSUME TypeOK, NEW j \in Jobs
  PROVE  Len(journal[j]) \in Nat /\ Told(j) \subseteq 1 .. Len(journal[j])
<1>1. journal[j] \in Seq(Event)
  BY DEF TypeOK
<1> QED
  BY <1>1 DEF Told

(* One more event in the journal of a job: what was told stays.            *)
LEMMA NoteFacts ==
  ASSUME TypeOK, NEW j \in Jobs, NEW e, Note(j, e)
  PROVE  /\ \A i \in Jobs \ {j} : journal'[i] = journal[i]
         /\ Len(journal[j]) \in Nat
         /\ DOMAIN journal[j] = 1 .. Len(journal[j])
         /\ Len(journal'[j]) = Len(journal[j]) + 1
         /\ DOMAIN journal'[j] = 1 .. (Len(journal[j]) + 1)
         /\ \A m \in 1 .. Len(journal[j]) : journal'[j][m] = journal[j][m]
         /\ journal'[j][Len(journal[j]) + 1] = e
<1> DEFINE s == journal[j]
<1>1. s \in Seq(Event)
  BY DEF TypeOK
<1>2. journal'[j] = Append(s, e) /\ \A i \in Jobs \ {j} : journal'[i] = journal[i]
  BY DEF Note, TypeOK
<1>3. s \in Seq(Event \cup {e})
  BY <1>1
<1> HIDE DEF s
<1>4. /\ Len(s) \in Nat /\ DOMAIN s = 1 .. Len(s)
      /\ Len(Append(s, e)) = Len(s) + 1
      /\ DOMAIN Append(s, e) = 1 .. (Len(s) + 1)
      /\ \A m \in 1 .. Len(s) : Append(s, e)[m] = s[m]
      /\ Append(s, e)[Len(s) + 1] = e
  BY <1>3
<1> QED
  BY <1>2, <1>4 DEF s

LEMMA NoteTold ==
  ASSUME TypeOK, NEW j \in Jobs, NEW e, Note(j, e), NEW top, top = Len(journal[j]) + 1
  PROVE  /\ top \in Nat
         /\ \A m \in 1 .. (top - 1) : m \in Told(j)' <=> m \in Told(j)
         /\ \A m \in 1 .. (top - 1) : FinalAt(j, m)' <=> FinalAt(j, m)
         /\ Told(j)' \subseteq 1 .. top
         /\ top \in Told(j)' <=> e.kind # "delta"
         /\ FinalAt(j, top)' <=> e.kind # "delta" /\ Final(e.job)
<1> DEFINE old == journal[j]
           new == journal'[j]
<1>1. /\ top \in Nat \ {0}
      /\ DOMAIN old = 1 .. (top - 1) /\ DOMAIN new = 1 .. top
      /\ \A m \in 1 .. (top - 1) : new[m] = old[m]
      /\ new[top] = e
  BY NoteFacts
<1>2. /\ \A m : m \in Told(j)' <=> m \in DOMAIN new /\ new[m].kind # "delta"
      /\ \A m : m \in Told(j) <=> m \in DOMAIN old /\ old[m].kind # "delta"
  BY DEF Told
<1>3. /\ \A m : FinalAt(j, m)' <=> m \in Told(j)' /\ Final(new[m].job)
      /\ \A m : FinalAt(j, m) <=> m \in Told(j) /\ Final(old[m].job)
  BY DEF FinalAt, Final
<1> HIDE DEF old, new
<1>4. \A m \in 1 .. (top - 1) : m \in Told(j)' <=> m \in Told(j)
  BY <1>1, <1>2
<1>5. \A m \in 1 .. (top - 1) : FinalAt(j, m)' <=> FinalAt(j, m)
  BY <1>1, <1>3, <1>4
<1>6. Told(j)' \subseteq 1 .. top
  BY <1>1, <1>2
<1>7. top \in Told(j)' <=> e.kind # "delta"
  BY <1>1, <1>2
<1>8. FinalAt(j, top)' <=> e.kind # "delta" /\ Final(e.job)
  BY <1>1, <1>3, <1>7
<1> QED
  BY <1>1, <1>4, <1>5, <1>6, <1>7, <1>8

(* The event carries the job as it becomes, or a fragment of a job that    *)
(* stays as it is.                                                         *)
LEMMA GrowFinal ==
  ASSUME TypeOK, NEW j \in Jobs, JournalFinal(j), NEW e, Note(j, e),
         e.kind # "delta" => e.job = card'[j],
         Final(card[j]) => Final(card'[j]),
         card'[j].whole => place'[j] = "over",
         place'[j] = "over" =>
           (place[j] = "over" \/ (e.kind # "delta" /\ Final(card'[j])))
  PROVE  JournalFinal(j)'
<1> DEFINE top == Len(journal[j]) + 1
           new == journal'[j]
           told == Told(j)'
<1>0. top = Len(journal[j]) + 1
  OBVIOUS
<1> HIDE DEF top
<1>1. /\ top \in Nat
      /\ \A m \in 1 .. (top - 1) : m \in told <=> m \in Told(j)
      /\ told \subseteq 1 .. top
      /\ top \in told <=> e.kind # "delta"
  BY <1>0, NoteTold
<1>2. /\ \A m \in 1 .. (top - 1) : new[m] = journal[j][m]
      /\ new[top] = e
  BY <1>0, NoteFacts
<1>3. Told(j) \subseteq 1 .. (top - 1)
  BY <1>0, ToldFacts
<1>4. /\ \A m, n \in Told(j) : m < n /\ Final(journal[j][m].job)
                                 => Final(journal[j][n].job)
      /\ \A m \in Told(j) : Final(journal[j][m].job) => Final(card[j])
      /\ place[j] = "over" => \E m \in Told(j) : Final(journal[j][m].job)
  BY DEF JournalFinal, FinalAt
<1> HIDE DEF new, told
<1>5. ASSUME NEW m \in told, Final(new[m].job) PROVE Final(card'[j])
  <2>1. CASE m = top
    BY <2>1, <1>1, <1>2, <1>5
  <2>2. CASE m \in 1 .. (top - 1)
    BY <2>2, <1>1, <1>2, <1>4, <1>5
  <2> QED
    BY <2>1, <2>2, <1>1
<1>6. ASSUME NEW m \in told, NEW n \in told, m < n, Final(new[m].job)
      PROVE  Final(new[n].job)
  <2>0. m \in 1 .. top /\ n \in 1 .. top /\ top \in Nat
    BY <1>1
  <2>1. m \in 1 .. (top - 1)
    BY <1>6, <2>0
  <2>2. CASE n = top
    BY <2>2, <1>1, <1>2, <1>5, <1>6
  <2>3. CASE n \in 1 .. (top - 1)
    BY <2>1, <2>3, <1>1, <1>2, <1>4, <1>6
  <2> QED
    BY <2>2, <2>3, <1>1
<1>7. place'[j] = "over" => \E m \in told : Final(new[m].job)
  BY <1>1, <1>2, <1>3, <1>4
<1>8. /\ \A m, n \in told : m < n /\ Final(new[m].job) => Final(new[n].job)
      /\ \A m \in told : Final(new[m].job) => Final(card'[j])
  BY <1>5, <1>6
<1> QED
  BY <1>7, <1>8 DEF JournalFinal, FinalAt, Final, new, told

(* Nothing the others do to a job takes anything from a stream of it.      *)
LEMMA KeepStream ==
  ASSUME TypeOK, NEW f \in Followers, StreamFinal(f), fplace[f] # "idle",
         NEW j \in Jobs, follows[f] = j,
         fplace'[f] = fplace[f], follows'[f] = follows[f],
         index'[f] = index[f], fresh'[f] = fresh[f], term'[f] = term[f],
         last'[f] = last[f],
         Len(journal'[j]) \in Nat, Len(journal[j]) <= Len(journal'[j]),
         \A m \in 1 .. Len(journal[j]) :
           (m \in Told(j)' <=> m \in Told(j)) /\ journal'[j][m] = journal[j][m],
         Terminal(j) => Terminal(j)'
  PROVE  StreamFinal(f)'
<1>1. /\ index[f] \in Nat /\ fresh[f] \in Nat /\ Len(journal[j]) \in Nat
      /\ index[f] <= fresh[f] /\ fresh[f] <= Len(journal[j])
      /\ \A m \in 1 .. index[f] : FinalAt(j, m) => Final(last[f])
      /\ fplace[f] = "read" /\ term[f] => Terminal(j)
      /\ fplace[f] = "send" /\ term[f] => \E m \in 1 .. fresh[f] : FinalAt(j, m)
      /\ fplace[f] = "ended" => Final(last[f])
  BY ToldFacts DEF StreamFinal, TypeOK
<1>2. /\ \A m \in 1 .. index[f] : m \in 1 .. Len(journal[j])
      /\ \A m \in 1 .. fresh[f] : m \in 1 .. Len(journal[j])
  BY <1>1
<1> DEFINE told == Told(j)'
           final(m) == m \in told /\ Final(journal'[j][m].job)
<1>3. \A m \in 1 .. Len(journal[j]) : final(m) <=> FinalAt(j, m)
  BY DEF FinalAt
<1> HIDE DEF told, final
<1>4. \A m \in 1 .. index[f] : final(m) => Final(last[f])
  BY <1>1, <1>2, <1>3
<1>5. fplace[f] = "send" /\ term[f] => \E m \in 1 .. fresh[f] : final(m)
  BY <1>1, <1>2, <1>3
<1>6. fresh[f] <= Len(journal'[j])
  BY <1>1
<1>7. /\ fplace'[f] # "idle"
      /\ index'[f] <= fresh'[f] /\ fresh'[f] <= Len(journal'[j])
      /\ \A m \in 1 .. index'[f] : final(m) => Final(last'[f])
      /\ fplace'[f] = "read" /\ term'[f] => Terminal(j)'
      /\ fplace'[f] = "send" /\ term'[f] => \E m \in 1 .. fresh'[f] : final(m)
      /\ fplace'[f] = "ended" => Final(last'[f])
  BY <1>1, <1>4, <1>5, <1>6
<1> QED
  BY <1>7 DEF StreamFinal, FinalAt, Final, Told, Terminal, told, final

(* A step that leaves the streams where they are, when journals only grow. *)
LEMMA KeepStreams ==
  ASSUME TypeOK, Named, \A f \in Followers : StreamFinal(f),
         UNCHANGED streams,
         \A i \in Jobs :
           /\ Len(journal'[i]) \in Nat /\ Len(journal[i]) <= Len(journal'[i])
           /\ \A m \in 1 .. Len(journal[i]) :
                (m \in Told(i)' <=> m \in Told(i))
                  /\ journal'[i][m] = journal[i][m],
         \A i \in Jobs : place[i] # "none" /\ Terminal(i) => Terminal(i)'
  PROVE  \A f \in Followers : StreamFinal(f)'
<1> SUFFICES ASSUME NEW f \in Followers PROVE StreamFinal(f)'
  OBVIOUS
<1>1. CASE fplace[f] = "idle"
  BY <1>1 DEF StreamFinal, streams
<1>2. CASE fplace[f] # "idle"
  <2>1. PICK j \in Jobs : follows[f] = j
    BY <1>2 DEF Named
  <2>2. place[j] # "none"
    BY <1>2, <2>1 DEF Named
  <2>3. Terminal(j) => Terminal(j)'
    BY <2>2
  <2>4. /\ fplace'[f] = fplace[f] /\ follows'[f] = follows[f]
        /\ index'[f] = index[f] /\ fresh'[f] = fresh[f]
        /\ term'[f] = term[f] /\ last'[f] = last[f]
    BY DEF streams
  <2> QED
    BY <1>2, <2>1, <2>3, <2>4, KeepStream
<1> QED
  BY <1>1, <1>2

LEMMA SameJournals ==
  ASSUME TypeOK, UNCHANGED journal
  PROVE  \A i \in Jobs :
           /\ Len(journal'[i]) \in Nat /\ Len(journal[i]) <= Len(journal'[i])
           /\ \A m \in 1 .. Len(journal[i]) :
                (m \in Told(i)' <=> m \in Told(i))
                  /\ journal'[i][m] = journal[i][m]
<1> TAKE i \in Jobs
<1>1. Len(journal[i]) \in Nat
  BY ToldFacts
<1> QED
  BY <1>1 DEF Told

LEMMA NoteGrows ==
  ASSUME TypeOK, NEW j \in Jobs, NEW e, Note(j, e)
  PROVE  \A i \in Jobs :
           /\ Len(journal'[i]) \in Nat /\ Len(journal[i]) <= Len(journal'[i])
           /\ \A m \in 1 .. Len(journal[i]) :
                (m \in Told(i)' <=> m \in Told(i))
                  /\ journal'[i][m] = journal[i][m]
<1> TAKE i \in Jobs
<1>1. CASE i # j
  <2>1. journal'[i] = journal[i]
    BY <1>1, NoteFacts
  <2>2. Len(journal[i]) \in Nat
    BY ToldFacts
  <2> QED
    BY <2>1, <2>2 DEF Told
<1>2. CASE i = j
  <2>1. Len(journal[j]) \in Nat /\ Len(journal'[j]) = Len(journal[j]) + 1
    BY NoteFacts
  <2>2. \A m \in 1 .. Len(journal[j]) : journal'[j][m] = journal[j][m]
    BY NoteFacts
  <2>3. DOMAIN journal[j] = 1 .. Len(journal[j])
          /\ DOMAIN journal'[j] = 1 .. (Len(journal[j]) + 1)
    BY NoteFacts
  <2>4. \A m \in 1 .. Len(journal[j]) : m \in Told(j)' <=> m \in Told(j)
    BY <2>1, <2>2, <2>3 DEF Told
  <2>5. /\ Len(journal'[j]) \in Nat /\ Len(journal[j]) <= Len(journal'[j])
        /\ \A m \in 1 .. Len(journal[j]) :
             (m \in Told(j)' <=> m \in Told(j)) /\ journal'[j][m] = journal[j][m]
    BY <2>1, <2>2, <2>4
  <2> QED
    BY <1>2, <2>5
<1> QED
  BY <1>1, <1>2

(* A job whose journal does not move. *)
LEMMA SameFinal ==
  ASSUME NEW j \in Jobs, JournalFinal(j), journal'[j] = journal[j],
         Final(card[j]) => Final(card'[j]),
         card'[j].whole => place'[j] = "over",
         place'[j] = "over" => place[j] = "over"
  PROVE  JournalFinal(j)'
<1>1. Told(j)' = Told(j)
  BY DEF Told
<1>2. \A m \in Told(j) : Final(journal[j][m].job) => Final(card'[j])
  BY DEF JournalFinal, FinalAt
<1>3. /\ \A m, n \in Told(j) : m < n /\ Final(journal[j][m].job)
                                 => Final(journal[j][n].job)
      /\ place'[j] = "over" => \E m \in Told(j) : Final(journal[j][m].job)
  BY DEF JournalFinal, FinalAt
<1> DEFINE told == Told(j)
<1>4. /\ \A m \in Told(j)' : Final(journal'[j][m].job) => Final(card'[j])
      /\ \A m, n \in Told(j)' : m < n /\ Final(journal'[j][m].job)
                                  => Final(journal'[j][n].job)
      /\ place'[j] = "over" => \E m \in Told(j)' : Final(journal'[j][m].job)
  BY <1>1, <1>2, <1>3
<1> QED
  BY <1>4 DEF JournalFinal, FinalAt, Final

LEMMA ThreadEnds ==
  ASSUME TypeOK, TerminalAtEnd, NEW j \in Jobs, JournalFinal(j), Thread(j)
  PROVE  /\ JournalFinal(j)'
         /\ UNCHANGED journal \/ \E e : Note(j, e)
<1> USE DEF Calm, Go
<1>a. card[j] \in Card
  BY DEF TypeOK
<1>b. card[j].whole => place[j] = "over"
  BY DEF JournalFinal
<1>1. CASE Begin(j)
  <2> DEFINE c == [card[j] EXCEPT !.state = "running"]
             e == [kind |-> "state", job |-> c]
  <2>1. Note(j, e) /\ card'[j] = c /\ e.job = c /\ c.whole = card[j].whole
    BY <1>1, <1>a DEF Begin, Become, TypeOK, Card
  <2>2. ~card[j].whole
    BY <1>1, <1>b DEF Begin
  <2>3. place'[j] # "over"
    BY <1>1 DEF Begin, TypeOK
  <2> HIDE DEF c, e
  <2> QED
    BY <2>1, <2>2, <2>3, GrowFinal DEF Final
<1>2. CASE Queue(j)
  <2> DEFINE c == card[j]
             e == [kind |-> "state", job |-> c]
  <2>1. Note(j, e) /\ card'[j] = card[j] /\ e.job = card[j]
    BY <1>2, <1>a DEF Queue, StillWaiting, Become, TypeOK
  <2>2. ~card[j].whole
    BY <1>2, <1>b DEF Queue
  <2>3. place'[j] # "over"
    BY <1>2 DEF Queue, TypeOK
  <2> HIDE DEF c, e
  <2> QED
    BY <2>1, <2>2, <2>3, GrowFinal
<1>3. CASE Advance(j)
  <2> DEFINE e == [kind |-> "progress", job |-> card[j]]
  <2>1. Note(j, e) /\ card' = card /\ place' = place /\ e.job = card[j]
    BY <1>3 DEF Advance, run
  <2> HIDE DEF e
  <2> QED
    BY <2>1, <1>b, GrowFinal
<1>4. CASE ReceiveDelta(j)
  <2> DEFINE e == [kind |-> "delta"]
  <2>1. Note(j, e) /\ card' = card /\ place' = place /\ e.kind = "delta"
    BY <1>4 DEF ReceiveDelta, run
  <2> HIDE DEF e
  <2> QED
    BY <2>1, <1>b, GrowFinal
<1>5. CASE EndRest(j)
  <2> DEFINE c == [card[j] EXCEPT !.whole = TRUE, !.error = Error(j)]
             e == [kind |-> "state", job |-> c]
  <2>1. /\ Note(j, e) /\ card'[j] = c /\ e.job = c /\ e.kind = "state"
        /\ c.whole /\ c.state = card[j].state
    BY <1>5, <1>a DEF EndRest, Become, TypeOK, Card
  <2>2. place'[j] = "over" /\ card[j].state \in {"done", "failed"}
    BY <1>5 DEF EndRest, TypeOK, TerminalAtEnd, Terminal
  <2> HIDE DEF c, e
  <2> QED
    BY <2>1, <2>2, GrowFinal DEF Final
<1>6. CASE FinishState(j) \/ FailState(j)
  <2>1. card'[j].whole = card[j].whole /\ place[j] # "over"
          /\ place'[j] = "filling" /\ UNCHANGED journal
    BY <1>6, <1>a DEF FinishState, FailState, TypeOK, Card
  <2> QED
    BY <2>1, <1>b, SameFinal DEF Final
<1>8. ASSUME UNCHANGED books, place[j] # "over", place'[j] # "over"
      PROVE  JournalFinal(j)' /\ UNCHANGED journal
  BY <1>8, <1>b, SameFinal DEF books
<1>9. CASE OpenFails(j) \/ RefuseInput(j) \/ RecordFails(j)
  BY <1>9, <1>8 DEF OpenFails, RefuseInput, RecordFails, Raise, books, TypeOK
<1>10. CASE Turn(j) \/ Load(j) \/ LoadEnds(j)
  BY <1>10, <1>8 DEF Turn, Enter, GiveUp, Load, LoadEnds, Loaded, LoadFails,
                     TypeOK
<1>11. CASE JobEnds(j) \/ Release(j)
  BY <1>11, <1>8 DEF JobEnds, Answer, InferFails, Release, TypeOK
<1> QED
  BY <1>1, <1>2, <1>3, <1>4, <1>5, <1>6, <1>9, <1>10, <1>11
  DEF Thread, Prepare, Conclude

(* What one job does to its journal is all that changes in the journals.   *)
LEMMA OthersFinal ==
  ASSUME TypeOK, NEW j \in Jobs, \A i \in Jobs : JournalFinal(i),
         \A i \in Jobs \ {j} : /\ journal'[i] = journal[i] /\ card'[i] = card[i]
                              /\ place'[i] = place[i],
         JournalFinal(j)'
  PROVE  \A i \in Jobs : JournalFinal(i)'
<1> SUFFICES ASSUME NEW i \in Jobs \ {j} PROVE JournalFinal(i)'
  OBVIOUS
<1>1. card[i].whole => place[i] = "over"
  BY DEF JournalFinal
<1> QED
  BY <1>1, SameFinal

(* A stream's own step. *)
LEMMA PushEnds ==
  ASSUME TypeOK, Named, TerminalAtEnd, EndInv, NEW f \in Followers,
         Follow(f) \/ Push(f) \/ Disconnect(f)
  PROVE  EndInv'
<1> USE DEF Quiet
<1>1. UNCHANGED <<books, place>>
  BY DEF Follow, Push, Look, Read, Send, Again, End, Disconnect, run
<1>2. \A j \in Jobs : JournalFinal(j)'
  BY <1>1, SameFinal DEF EndInv, JournalFinal, books
<1>3. /\ TypeOK /\ UNCHANGED <<journal, card>>
      /\ \A j \in Jobs : Told(j)' = Told(j) /\ (Terminal(j)' <=> Terminal(j))
  BY <1>1 DEF books, Told, Terminal
<1>4. \A g \in Followers \ {f} :
        /\ fplace'[g] = fplace[g] /\ follows'[g] = follows[g]
        /\ index'[g] = index[g] /\ fresh'[g] = fresh[g]
        /\ term'[g] = term[g] /\ last'[g] = last[g]
  BY DEF Follow, Push, Look, Read, Send, Again, End, Disconnect, TypeOK
<1>5. ASSUME NEW g \in Followers \ {f} PROVE StreamFinal(g)'
  <2>1. StreamFinal(g)
    BY DEF EndInv
  <2>2. CASE fplace[g] = "idle"
    BY <1>4, <2>1, <2>2 DEF StreamFinal
  <2>3. CASE fplace[g] # "idle"
    <3>1. PICK j \in Jobs : follows[g] = j
      BY <2>3 DEF Named
    <3>2. /\ Len(journal'[j]) \in Nat /\ Len(journal[j]) <= Len(journal'[j])
          /\ \A m \in 1 .. Len(journal[j]) :
               (m \in Told(j)' <=> m \in Told(j))
                 /\ journal'[j][m] = journal[j][m]
      BY <1>3, SameJournals
    <3> QED
      BY <1>3, <1>4, <2>1, <2>3, <3>1, <3>2, KeepStream
  <2> QED
    BY <2>2, <2>3
<1>6. StreamFinal(f) /\ (fplace[f] = "idle" => index[f] = 0 /\ fresh[f] = 0)
  BY DEF EndInv, StreamFinal
<1> DEFINE told(j, m) == m \in Told(j) /\ Final(journal[j][m].job)
<1>7. \A j \in Jobs : \A m : FinalAt(j, m)' <=> told(j, m)
  BY <1>3 DEF FinalAt, Final
<1> DEFINE After(j) ==
             /\ follows'[f] = j /\ fplace'[f] # "idle"
             /\ index'[f] <= fresh'[f] /\ fresh'[f] <= Len(journal[j])
             /\ \A m \in 1 .. index'[f] : told(j, m) => Final(last'[f])
             /\ fplace'[f] = "read" /\ term'[f] => Terminal(j)
             /\ fplace'[f] = "send" /\ term'[f] =>
                  \E m \in 1 .. fresh'[f] : told(j, m)
             /\ fplace'[f] = "ended" => Final(last'[f])
<1>8. ASSUME NEW j \in Jobs, After(j) PROVE StreamFinal(f)'
  BY <1>1, <1>8 DEF StreamFinal, FinalAt, Final, Told, Terminal, books
<1>9. ASSUME Follow(f) PROVE StreamFinal(f)'
  <2>1. PICK j \in table : follows'[f] = j
    BY <1>9 DEF Follow, TypeOK
  <2>2. /\ j \in Jobs /\ Len(journal[j]) \in Nat /\ fplace'[f] = "look"
        /\ index'[f] = 0 /\ fresh'[f] = 0
    BY <1>6, <1>9, ToldFacts DEF Follow, TypeOK
  <2>3. After(j)
    BY <2>1, <2>2
  <2> HIDE DEF told, After
  <2> QED
    BY <1>8, <2>2, <2>3
<1>left. ASSUME Disconnect(f) PROVE StreamFinal(f)'
  <2>1. fplace'[f] = "idle" /\ index'[f] = 0 /\ fresh'[f] = 0
    BY <1>left DEF Disconnect, TypeOK
  <2> QED
    BY <2>1 DEF StreamFinal
<1>10. ASSUME Push(f) PROVE StreamFinal(f)'
  <2>1. fplace[f] # "idle" /\ follows' = follows
    BY <1>10 DEF Push, Look, Read, Send, Again, End
  <2>2. PICK j \in Jobs : follows[f] = j
    BY <2>1 DEF Named
  <2>3. /\ Len(journal[j]) \in Nat /\ Told(j) \subseteq 1 .. Len(journal[j])
        /\ index[f] \in Nat /\ fresh[f] \in Nat
    BY ToldFacts DEF TypeOK
  <2>4. /\ index[f] <= fresh[f] /\ fresh[f] <= Len(journal[j])
        /\ \A m \in 1 .. index[f] : told(j, m) => Final(last[f])
        /\ fplace[f] = "read" /\ term[f] => Terminal(j)
        /\ fplace[f] = "send" /\ term[f] => \E m \in 1 .. fresh[f] : told(j, m)
    BY <1>6, <2>1, <2>2 DEF StreamFinal, FinalAt
  <2>5. /\ \A m, n \in Told(j) : m < n /\ told(j, m) => told(j, n)
        /\ \A m \in Told(j) : told(j, m) => Final(card[j])
        /\ place[j] = "over" => \E m \in Told(j) : told(j, m)
    BY DEF EndInv, JournalFinal, FinalAt
  <2>6. CASE Look(f)
    <3>1. /\ fplace'[f] = "read" /\ index' = index /\ fresh' = fresh
          /\ last' = last /\ (term'[f] => Terminal(j))
      BY <2>2, <2>6 DEF Look, TypeOK
    <3>z. After(j)
      BY <2>1, <2>2, <2>4, <3>1
    <3> HIDE DEF After
    <3> QED
      BY <1>8, <3>z
  <2>7. CASE Read(f)
    <3>1. /\ fplace[f] = "read" /\ fplace'[f] = "send" /\ index' = index
          /\ fresh'[f] = Len(journal[j]) /\ last' = last /\ term' = term
          /\ place[j] # "filling"
      BY <2>2, <2>7 DEF Read, Locked, TypeOK
    <3>2. term[f] => place[j] = "over"
      BY <2>4, <3>1 DEF TerminalAtEnd
    <3>3. term[f] => \E m \in 1 .. Len(journal[j]) : told(j, m)
      BY <2>3, <2>5, <3>2
    <3>4. index'[f] <= fresh'[f] /\ fresh'[f] <= Len(journal[j])
      BY <2>3, <2>4, <3>1
    <3>z. After(j)
      BY <2>1, <2>2, <2>4, <3>1, <3>3, <3>4
    <3> HIDE DEF After
    <3> QED
      BY <1>8, <3>z
  <2>8. CASE Send(f)
    <3> DEFINE sent == {i \in Told(j) : index[f] < i /\ i <= fresh[f]}
    <3>1. /\ fplace'[f] = "look" /\ index'[f] = fresh[f] /\ fresh' = fresh
          /\ term' = term
          /\ \/ sent = {} /\ last' = last
             \/ \E i \in sent : /\ \A n \in sent : n <= i
                                /\ last'[f] = journal[j][i].job
      BY <2>2, <2>8 DEF Send, TypeOK
    <3>2. ASSUME NEW m \in 1 .. fresh[f], told(j, m) PROVE Final(last'[f])
      <4>1. m \in Told(j) /\ m \in Nat /\ (m > index[f] => m \in sent)
        BY <2>3, <3>2
      <4>2. CASE m <= index[f] /\ last' = last
        BY <2>3, <2>4, <3>2, <4>1, <4>2
      <4>3. ASSUME NEW i \in sent, \A n \in sent : n <= i,
                   last'[f] = journal[j][i].job
            PROVE  Final(last'[f])
        <5>1. i \in Told(j) /\ i \in Nat /\ index[f] < i /\ m <= i
          BY <2>3, <4>1, <4>3
        <5>2. told(j, i)
          BY <2>5, <3>2, <4>1, <5>1
        <5> QED
          BY <4>3, <5>2
      <4>4. CASE m > index[f] /\ sent = {}
        BY <4>1, <4>4
      <4> QED
        BY <2>3, <3>1, <4>1, <4>2, <4>3, <4>4
    <3> HIDE DEF told, sent
    <3>3. index'[f] <= fresh'[f] /\ fresh'[f] <= Len(journal[j])
      BY <2>3, <2>4, <3>1
    <3>z. After(j)
      BY <2>1, <2>2, <3>1, <3>2, <3>3
    <3> HIDE DEF After
    <3> QED
      BY <1>8, <3>z
  <2>9. CASE Again(f)
    <3>1. /\ fplace'[f] = "look" /\ index' = index /\ fresh' = fresh
          /\ last' = last /\ term' = term
      BY <2>9 DEF Again, TypeOK
    <3>z. After(j)
      BY <2>1, <2>2, <2>4, <3>1
    <3> HIDE DEF After
    <3> QED
      BY <1>8, <3>z
  <2>10. CASE End(f)
    <3>1. /\ fplace[f] = "send" /\ fplace'[f] = "ended" /\ index' = index
          /\ fresh' = fresh /\ term' = term /\ term[f] /\ fresh[f] = index[f]
          /\ last'[f] \in {last[f], card[j]}
      BY <2>2, <2>10 DEF End, SeenOver, TypeOK
    <3>2. PICK m \in 1 .. index[f] : told(j, m)
      BY <2>4, <3>1
    <3>3. Final(last[f]) /\ Final(card[j])
      BY <2>4, <2>5, <3>2
    <3>4. Final(last'[f])
      BY <3>1, <3>3
    <3>z. After(j)
      BY <2>1, <2>2, <2>4, <3>1, <3>4
    <3> HIDE DEF After
    <3> QED
      BY <1>8, <3>z
  <2> QED
    BY <1>10, <2>6, <2>7, <2>8, <2>9, <2>10 DEF Push
<1> QED
  BY <1>2, <1>5, <1>9, <1>10, <1>left DEF EndInv

LEMMA EndStep ==
  TypeOK /\ Named /\ TableInv /\ EndInv /\ [Next]_vars => EndInv'
<1> SUFFICES ASSUME TypeOK, Named, TableInv, EndInv, [Next]_vars PROVE EndInv'
  OBVIOUS
<1>a. ASSUME UNCHANGED <<books, place, streams>> PROVE EndInv'
  <2>1. UNCHANGED journal /\ \A i \in Jobs : Terminal(i) => Terminal(i)'
    BY <1>a DEF books, Terminal
  <2>2. UNCHANGED streams
    BY <1>a
  <2>3. \A f \in Followers : StreamFinal(f)'
    BY <2>1, <2>2, SameJournals, KeepStreams DEF EndInv
  <2>4. \A i \in Jobs : JournalFinal(i)'
    BY <1>a, SameFinal DEF EndInv, JournalFinal, books
  <2> QED
    BY <2>3, <2>4 DEF EndInv
<1>1. CASE UNCHANGED vars
  BY <1>1, <1>a DEF vars, run
<1>2. ASSUME NEW j \in Jobs, Submit(j) PROVE EndInv'
  <2> DEFINE e == [kind |-> "state", job |-> Submitted]
  <2>1. /\ Note(j, e) /\ card'[j] = Submitted /\ place'[j] = "start"
        /\ place[j] = "none"
        /\ \A i \in Jobs \ {j} : card'[i] = card[i] /\ place'[i] = place[i]
        /\ e.job = Submitted /\ UNCHANGED streams
    BY <1>2 DEF Submit, Become, Go, TypeOK
  <2> HIDE DEF e
  <2>2. JournalFinal(j) /\ ~card[j].whole
    BY <2>1 DEF EndInv, JournalFinal
  <2>3. JournalFinal(j)'
    BY <2>1, <2>2, GrowFinal DEF Final, Submitted
  <2>4. \A i \in Jobs \ {j} : journal'[i] = journal[i]
    BY <2>1, NoteFacts
  <2>5. \A i \in Jobs : JournalFinal(i)'
    BY <2>1, <2>3, <2>4, OthersFinal DEF EndInv
  <2>6. \A i \in Jobs : place[i] # "none" /\ Terminal(i) => Terminal(i)'
    BY <2>1 DEF Terminal
  <2>7. \A f \in Followers : StreamFinal(f)'
    BY <2>1, <2>6, NoteGrows, KeepStreams DEF EndInv
  <2> QED
    BY <2>5, <2>7 DEF EndInv
<1>3. ASSUME NEW j \in Jobs, Thread(j) PROVE EndInv'
  <2>1. /\ UNCHANGED streams
        /\ \A i \in Jobs \ {j} : /\ place'[i] = place[i] /\ card'[i] = card[i]
                                /\ journal'[i] = journal[i]
    BY <1>3, ThreadFrame
  <2>2. JournalFinal(j)' /\ (UNCHANGED journal \/ \E e : Note(j, e))
    BY <1>3, ThreadEnds DEF TableInv, EndInv
  <2>3. \A i \in Jobs : JournalFinal(i)'
    BY <2>1, <2>2, OthersFinal DEF EndInv
  <2>4. \A i \in Jobs : Terminal(i) => Terminal(i)'
    BY <1>3, TerminalThread DEF TableInv
  <2>5. \A f \in Followers : StreamFinal(f)'
    <3>1. CASE UNCHANGED journal
      BY <2>1, <2>4, <3>1, SameJournals, KeepStreams DEF EndInv
    <3>2. ASSUME NEW e, Note(j, e) PROVE \A f \in Followers : StreamFinal(f)'
      BY <2>1, <2>4, <3>2, NoteGrows, KeepStreams DEF EndInv
    <3> QED
      BY <2>2, <3>1, <3>2
  <2> QED
    BY <2>3, <2>5 DEF EndInv
<1>4. ASSUME NEW k \in Clients, Cancel(k) PROVE EndInv'
  BY <1>4, <1>a DEF Cancel, run
<1>5. ASSUME NEW k \in Clients, Unload(k) PROVE EndInv'
  BY <1>5, <1>a DEF Unload
<1>6. ASSUME NEW k \in Clients, MarkCancelled(k) PROVE EndInv'
  <2>1. PICK j \in Jobs : target[k] = j
    BY <1>6 DEF MarkCancelled, Named
  <2> DEFINE c == [card[j] EXCEPT !.cancelled = TRUE]
             e == [kind |-> "state", job |-> c]
  <2>2. card[j] \in Card
    BY DEF TypeOK
  <2>3. /\ Note(j, e) /\ card'[j] = c /\ place' = place
        /\ \A i \in Jobs \ {j} : card'[i] = card[i]
        /\ e.job = c /\ c.state = card[j].state /\ c.whole = card[j].whole
        /\ UNCHANGED streams
    BY <1>6, <2>1, <2>2 DEF MarkCancelled, Become, run, TypeOK, Card
  <2> HIDE DEF c, e
  <2>4. JournalFinal(j) /\ (card[j].whole => place[j] = "over")
    BY DEF EndInv, JournalFinal
  <2>5. Final(card[j]) <=> Final(card'[j])
    BY <2>3 DEF Final
  <2>6. JournalFinal(j)'
    BY <2>3, <2>4, <2>5, GrowFinal
  <2>7. \A i \in Jobs : JournalFinal(i)'
    BY <2>3, <2>6, NoteFacts, OthersFinal DEF EndInv
  <2>8. \A i \in Jobs : Terminal(i) => Terminal(i)'
    BY <2>3 DEF Terminal
  <2>9. \A f \in Followers : StreamFinal(f)'
    BY <2>3, <2>8, NoteGrows, KeepStreams DEF EndInv
  <2> QED
    BY <2>7, <2>9 DEF EndInv
<1>7. ASSUME NEW f \in Followers, Follow(f) \/ Push(f) \/ Disconnect(f)
      PROVE  EndInv'
  BY <1>7, PushEnds DEF TableInv
<1> QED
  BY <1>1, <1>2, <1>3, <1>4, <1>5, <1>6, <1>7 DEF Next

(* _flux and _pousser: the end of a job is read before its journal, so a   *)
(* stream that says `end` has shown the complete final state.              *)
THEOREM EndsTellAll == Spec => []EndTellsAll
<1>1. Init => TableInv /\ EndInv
  <2>1. ASSUME Init PROVE \A j \in Jobs : Told(j) = {}
    BY <2>1 DEF Init, Told
  <2>2. Init => EndInv
    BY <2>1 DEF Init, EndInv, JournalFinal, StreamFinal, Submitted
  <2> QED
    BY <2>2, InitTable
<1>2. EndInv => EndTellsAll
  BY DEF EndInv, StreamFinal, EndTellsAll
<1> QED
  BY <1>1, <1>2, JobsTyped, TableStep, EndStep, PTL DEF Spec

-----------------------------------------------------------------------------
(* The journal's story. What is told of a job precedes what is told later  *)
(* and what the job is now; a final snapshot is told of a job that is over *)
(* and of no other, although its state was final before it was told.       *)
Precedes(c, d) ==
  /\ Rank(c) <= Rank(d)
  /\ c.cancelled => d.cancelled
  /\ Rank(c) = 2 => c.state = d.state /\ c.error = d.error /\ c.whole = d.whole

Story(j) ==
  /\ place[j] = "none" => Told(j) = {}
  /\ \A i \in Told(j) :
       LET c == journal[j][i].job
       IN  /\ Precedes(c, card[j])
           /\ Rank(c) = 2 => place[j] = "over"
           /\ \A n \in Told(j) : i < n => Precedes(c, journal[j][n].job)

StoryInv == \A j \in Jobs : Story(j)

LEMMA RankFacts ==
  \A c \in Card : /\ Rank(c) \in 0 .. 2
                  /\ Rank(c) = 2 <=> c.state \in {"done", "failed"}
                  /\ c.state = "queued" => Rank(c) = 0
                  /\ c.state = "running" => Rank(c) = 1
BY DEF Rank, Card

LEMMA ToldCards ==
  ASSUME TypeOK, NEW j \in Jobs, NEW i \in Told(j)
  PROVE  journal[j][i].job \in Card
<1>1. journal[j] \in Seq(Event)
  BY DEF TypeOK
<1>2. i \in DOMAIN journal[j] /\ journal[j][i].kind # "delta"
  BY DEF Told
<1>3. journal[j][i] \in Event
  BY <1>1, <1>2
<1> QED
  BY <1>2, <1>3 DEF Event

(* The fields of a job go on from where they were. *)
Continues(j) ==
  /\ card[j] \in Card /\ card'[j] \in Card
  /\ Rank(card[j]) <= Rank(card'[j])
  /\ card[j].cancelled => card'[j].cancelled
  /\ place[j] = "over" =>
       /\ place'[j] = "over"
       /\ card'[j].state = card[j].state /\ card'[j].error = card[j].error
       /\ card'[j].whole = card[j].whole
  /\ place'[j] # "none"

LEMMA StoryGoesOn ==
  ASSUME TypeOK, NEW j \in Jobs, Story(j), Continues(j), NEW i \in Told(j)
  PROVE  /\ Precedes(journal[j][i].job, card'[j])
         /\ Rank(journal[j][i].job) = 2 => place'[j] = "over"
<1> DEFINE c == journal[j][i].job
<1>1. c \in Card
  BY ToldCards
<1>2. Precedes(c, card[j]) /\ (Rank(c) = 2 => place[j] = "over")
  BY DEF Story
<1> HIDE DEF c
<1>3. /\ Rank(c) \in 0 .. 2 /\ Rank(card[j]) \in 0 .. 2
      /\ Rank(card'[j]) \in 0 .. 2
  BY <1>1, RankFacts DEF Continues
<1>4. Precedes(c, card'[j]) /\ (Rank(c) = 2 => place'[j] = "over")
  BY <1>2, <1>3 DEF Precedes, Continues
<1> QED
  BY <1>4 DEF c

(* A job whose journal does not move. *)
LEMMA SameStory ==
  ASSUME TypeOK, NEW j \in Jobs, Story(j), Continues(j), journal'[j] = journal[j]
  PROVE  Story(j)'
<1>1. Told(j)' = Told(j)
  BY DEF Told
<1>2. \A i \in Told(j) : \A n \in Told(j) :
        i < n => Precedes(journal[j][i].job, journal[j][n].job)
  BY DEF Story
<1>3. \A i \in Told(j)' : \A n \in Told(j)' :
        i < n => Precedes(journal'[j][i].job, journal'[j][n].job)
  BY <1>1, <1>2
<1>4. \A i \in Told(j)' : /\ Precedes(journal'[j][i].job, card'[j])
                          /\ Rank(journal'[j][i].job) = 2 => place'[j] = "over"
  BY <1>1, StoryGoesOn
<1> QED
  BY <1>3, <1>4 DEF Story, Continues, Precedes, Rank

(* The event carries the job as it becomes, a final one once it is over.   *)
LEMMA GrowStory ==
  ASSUME TypeOK, NEW j \in Jobs, Story(j), Continues(j), NEW e, Note(j, e),
         e.kind # "delta" => e.job = card'[j],
         Rank(card'[j]) = 2 => place'[j] = "over"
  PROVE  Story(j)'
<1> DEFINE top == Len(journal[j]) + 1
           new == journal'[j]
           told == Told(j)'
<1>0. top = Len(journal[j]) + 1
  OBVIOUS
<1> HIDE DEF top
<1>1. /\ top \in Nat
      /\ \A m \in 1 .. (top - 1) : m \in told <=> m \in Told(j)
      /\ told \subseteq 1 .. top
      /\ top \in told <=> e.kind # "delta"
  BY <1>0, NoteTold
<1>2. /\ \A m \in 1 .. (top - 1) : new[m] = journal[j][m]
      /\ new[top] = e
  BY <1>0, NoteFacts
<1> HIDE DEF told, new
<1>3. \A m \in told : \/ m < top /\ m \in Told(j) /\ new[m] = journal[j][m]
                      \/ m = top /\ new[m].job = card'[j]
  <2> SUFFICES ASSUME NEW m \in told
               PROVE  \/ m < top /\ m \in Told(j) /\ new[m] = journal[j][m]
                      \/ m = top /\ new[m].job = card'[j]
    OBVIOUS
  <2>1. m \in 1 .. top
    BY <1>1
  <2>2. CASE m = top
    BY <1>1, <1>2, <2>2
  <2>3. CASE m # top
    <3>1. m \in 1 .. (top - 1)
      BY <1>1, <2>1, <2>3
    <3> QED
      BY <1>1, <1>2, <3>1
  <2> QED
    BY <2>2, <2>3
<1>4. Precedes(card'[j], card'[j])
  BY RankFacts DEF Precedes, Continues
<1>5. \A m \in told : /\ Precedes(new[m].job, card'[j])
                      /\ Rank(new[m].job) = 2 => place'[j] = "over"
  BY <1>3, <1>4, StoryGoesOn
<1>6. ASSUME NEW m \in told, NEW n \in told, m < n
      PROVE  Precedes(new[m].job, new[n].job)
  <2>1. m < top /\ m \in Told(j) /\ new[m] = journal[j][m]
    BY <1>1, <1>3, <1>6
  <2>2. CASE n \in Told(j) /\ new[n] = journal[j][n]
    BY <1>6, <2>1, <2>2 DEF Story
  <2>3. CASE new[n].job = card'[j]
    BY <1>5, <2>3
  <2> QED
    BY <1>3, <2>2, <2>3
<1> QED
  BY <1>5, <1>6 DEF Story, told, new, Continues, Precedes, Rank


LEMMA ThreadStory ==
  ASSUME TypeOK, TypeOK', TerminalAtEnd, NEW j \in Jobs, Story(j), Thread(j)
  PROVE  Story(j)'
<1> USE DEF Calm, Go
<1>a. /\ card[j] \in Card /\ card'[j] \in Card
      /\ card[j].state \in {"done", "failed"} <=> place[j] \in {"filling", "over"}
      /\ place'[j] # "none"
  BY ThreadFrame DEF TypeOK, TerminalAtEnd, Terminal
<1>b. /\ Rank(card[j]) \in 0 .. 2 /\ Rank(card'[j]) \in 0 .. 2
      /\ Rank(card[j]) = 2 <=> place[j] \in {"filling", "over"}
      /\ card'[j].state = "running" => Rank(card'[j]) = 1
      /\ card'[j].state \in {"done", "failed"} <=> Rank(card'[j]) = 2
  BY <1>a, RankFacts
<1>c. card'[j].state = card[j].state => Rank(card'[j]) = Rank(card[j])
  BY DEF Rank
<1>1. CASE Begin(j)
  <2> DEFINE c == [card[j] EXCEPT !.state = "running"]
             e == [kind |-> "state", job |-> c]
  <2>1. /\ Note(j, e) /\ card'[j] = c /\ e.job = c
        /\ c.cancelled = card[j].cancelled /\ c.state = "running"
        /\ place[j] = "start"
    BY <1>1, <1>a DEF Begin, Become, TypeOK, Card
  <2> HIDE DEF c, e
  <2>2. Continues(j)
    BY <1>a, <1>b, <2>1 DEF Continues
  <2> QED
    BY <1>b, <2>1, <2>2, GrowStory
<1>2. CASE Queue(j)
  <2> DEFINE e == [kind |-> "state", job |-> card[j]]
  <2>1. Note(j, e) /\ card'[j] = card[j] /\ e.job = card[j] /\ place[j] = "ask"
    BY <1>2, <1>a DEF Queue, StillWaiting, Become, TypeOK
  <2> HIDE DEF e
  <2>2. Continues(j)
    BY <1>a, <1>b, <2>1 DEF Continues
  <2> QED
    BY <1>b, <2>1, <2>2, GrowStory
<1>3. CASE Advance(j)
  <2> DEFINE e == [kind |-> "progress", job |-> card[j]]
  <2>1. /\ Note(j, e) /\ card' = card /\ place' = place /\ e.job = card[j]
        /\ place[j] \in {"load", "infer"}
    BY <1>3 DEF Advance, run
  <2> HIDE DEF e
  <2>2. Continues(j)
    BY <1>a, <1>b, <2>1 DEF Continues
  <2> QED
    BY <1>b, <2>1, <2>2, GrowStory
<1>4. CASE ReceiveDelta(j)
  <2> DEFINE e == [kind |-> "delta"]
  <2>1. /\ Note(j, e) /\ card' = card /\ place' = place /\ e.kind = "delta"
        /\ place[j] = "infer"
    BY <1>4 DEF ReceiveDelta, run
  <2> HIDE DEF e
  <2>2. Continues(j)
    BY <1>a, <1>b, <2>1 DEF Continues
  <2> QED
    BY <1>b, <2>1, <2>2, GrowStory
<1>5. CASE EndRest(j)
  <2> DEFINE c == [card[j] EXCEPT !.whole = TRUE, !.error = Error(j)]
             e == [kind |-> "state", job |-> c]
  <2>1. /\ Note(j, e) /\ card'[j] = c /\ e.job = c
        /\ c.state = card[j].state /\ c.cancelled = card[j].cancelled
        /\ place[j] = "filling" /\ place'[j] = "over"
    BY <1>5, <1>a DEF EndRest, Become, TypeOK, Card
  <2> HIDE DEF c, e
  <2>2. Continues(j)
    BY <1>a, <1>b, <1>c, <2>1 DEF Continues
  <2> QED
    BY <2>1, <2>2, GrowStory
<1>6. CASE FinishState(j) \/ FailState(j)
  <2>1. /\ card'[j].state \in {"done", "failed"}
        /\ card'[j].cancelled = card[j].cancelled
        /\ place[j] # "over" /\ UNCHANGED journal
    BY <1>6, <1>a DEF FinishState, FailState, TypeOK, Card
  <2>2. Continues(j)
    BY <1>a, <1>b, <2>1 DEF Continues
  <2> QED
    BY <2>1, <2>2, SameStory
<1>8. ASSUME UNCHANGED books, place[j] # "over" PROVE Story(j)'
  <2>1. Continues(j)
    BY <1>8, <1>a, <1>b DEF Continues, books
  <2> QED
    BY <1>8, <2>1, SameStory DEF books
<1>9. CASE OpenFails(j) \/ RefuseInput(j) \/ RecordFails(j)
  BY <1>9, <1>8 DEF OpenFails, RefuseInput, RecordFails, Raise, books, TypeOK
<1>10. CASE Turn(j) \/ Load(j) \/ LoadEnds(j)
  BY <1>10, <1>8 DEF Turn, Enter, GiveUp, Load, LoadEnds, Loaded, LoadFails,
                     TypeOK
<1>11. CASE JobEnds(j) \/ Release(j)
  BY <1>11, <1>8 DEF JobEnds, Answer, InferFails, Release, TypeOK
<1> QED
  BY <1>1, <1>2, <1>3, <1>4, <1>5, <1>6, <1>9, <1>10, <1>11
  DEF Thread, Prepare, Conclude

(* A job that does not move.                                               *)
LEMMA StillStory ==
  ASSUME NEW j \in Jobs, Story(j),
         journal'[j] = journal[j], card'[j] = card[j], place'[j] = place[j]
  PROVE  Story(j)'
<1>1. Told(j)' = Told(j)
  BY DEF Told
<1>2. \A i \in Told(j) : \A n \in Told(j) :
        i < n => Precedes(journal[j][i].job, journal[j][n].job)
  BY DEF Story
<1>3. \A i \in Told(j) : /\ Precedes(journal[j][i].job, card[j])
                         /\ Rank(journal[j][i].job) = 2 => place[j] = "over"
  BY DEF Story
<1>4. place[j] = "none" => Told(j) = {}
  BY DEF Story
<1>5. /\ \A i \in Told(j)' : \A n \in Told(j)' :
           i < n => Precedes(journal'[j][i].job, journal'[j][n].job)
      /\ \A i \in Told(j)' : /\ Precedes(journal'[j][i].job, card'[j])
                             /\ Rank(journal'[j][i].job) = 2 => place'[j] = "over"
      /\ place'[j] = "none" => Told(j)' = {}
  BY <1>1, <1>2, <1>3, <1>4
<1> QED
  BY <1>5 DEF Story, Precedes, Rank

LEMMA StoryStep ==
  TypeOK /\ TypeOK' /\ Named /\ TableInv /\ StoryInv /\ [Next]_vars => StoryInv'
<1> SUFFICES ASSUME TypeOK, TypeOK', Named, TableInv, StoryInv, [Next]_vars
             PROVE  StoryInv'
  OBVIOUS
<1>a. ASSUME UNCHANGED <<books, place>> PROVE StoryInv'
  BY <1>a, StillStory DEF StoryInv, books
<1>1. CASE UNCHANGED vars
  BY <1>1, <1>a DEF vars, run
<1>2. ASSUME NEW j \in Jobs, Submit(j) PROVE StoryInv'
  <2> DEFINE e == [kind |-> "state", job |-> Submitted]
  <2>1. /\ Note(j, e) /\ card'[j] = Submitted /\ place'[j] = "start"
        /\ place[j] = "none"
        /\ \A i \in Jobs \ {j} : card'[i] = card[i] /\ place'[i] = place[i]
        /\ e.job = Submitted /\ e.kind = "state"
    BY <1>2 DEF Submit, Become, Go, TypeOK
  <2> HIDE DEF e
  <2>2. Told(j) = {}
    BY <2>1 DEF StoryInv, Story
  <2>3. Submitted \in Card /\ Rank(Submitted) = 0
    BY DEF Submitted, Card, Rank
  <2>4. \A i \in Told(j)' : journal'[j][i].job = Submitted /\ i = Len(journal[j]) + 1
    <3> DEFINE top == Len(journal[j]) + 1
    <3> SUFFICES ASSUME NEW i \in Told(j)'
                 PROVE  journal'[j][i].job = Submitted /\ i = top
      OBVIOUS
    <3>1. top = Len(journal[j]) + 1
      OBVIOUS
    <3> HIDE DEF top
    <3>2. /\ top \in Nat /\ Told(j)' \subseteq 1 .. top
          /\ \A m \in 1 .. (top - 1) : m \in Told(j)' <=> m \in Told(j)
      BY <2>1, <3>1, NoteTold
    <3>3. i \in 1 .. top /\ i \notin 1 .. (top - 1)
      BY <2>2, <3>2
    <3>4. journal'[j][top] = e
      BY <2>1, <3>1, NoteFacts
    <3> QED
      BY <2>1, <3>2, <3>3, <3>4
  <2>5. /\ \A i \in Told(j)' : Precedes(journal'[j][i].job, card'[j])
        /\ \A i \in Told(j)' : Rank(journal'[j][i].job) # 2
        /\ \A i, n \in Told(j)' : ~(i < n)
    <3>1. Len(journal[j]) \in Nat
      BY ToldFacts
    <3> QED
      BY <2>1, <2>3, <2>4, <3>1 DEF Precedes
  <2>6. Story(j)'
    BY <2>1, <2>5 DEF Story, Precedes, Rank
  <2>7. \A i \in Jobs \ {j} : journal'[i] = journal[i]
    BY <2>1, NoteFacts
  <2> QED
    BY <2>1, <2>6, <2>7, StillStory DEF StoryInv
<1>3. ASSUME NEW j \in Jobs, Thread(j) PROVE StoryInv'
  <2>1. \A i \in Jobs \ {j} : /\ place'[i] = place[i] /\ card'[i] = card[i]
                              /\ journal'[i] = journal[i]
    BY <1>3, ThreadFrame
  <2>2. Story(j)'
    BY <1>3, ThreadStory DEF TableInv, StoryInv
  <2> QED
    BY <2>1, <2>2, StillStory DEF StoryInv
<1>4. ASSUME NEW k \in Clients, Cancel(k) \/ Unload(k) PROVE StoryInv'
  BY <1>4, <1>a DEF Cancel, Unload, run
<1>5. ASSUME NEW k \in Clients, MarkCancelled(k) PROVE StoryInv'
  <2>1. PICK j \in Jobs : target[k] = j /\ place[j] # "none"
    BY <1>5 DEF MarkCancelled, Named
  <2> DEFINE c == [card[j] EXCEPT !.cancelled = TRUE]
             e == [kind |-> "state", job |-> c]
  <2>2. card[j] \in Card
    BY DEF TypeOK
  <2>3. /\ Note(j, e) /\ card'[j] = c /\ place' = place
        /\ \A i \in Jobs \ {j} : card'[i] = card[i]
        /\ e.job = c /\ c.state = card[j].state /\ c.whole = card[j].whole
        /\ c.error = card[j].error /\ c.cancelled /\ c \in Card
        /\ place[j] # "filling"
    BY <1>5, <2>1, <2>2 DEF MarkCancelled, Become, run, TypeOK, Card, Locked
  <2> HIDE DEF c, e
  <2>4. Rank(card'[j]) = Rank(card[j]) /\ Rank(card[j]) \in 0 .. 2
    BY <2>2, <2>3, RankFacts DEF Rank
  <2>5. Continues(j)
    BY <2>1, <2>2, <2>3, <2>4 DEF Continues
  <2>6. Rank(card[j]) = 2 => place[j] = "over"
    BY <2>2, <2>3, RankFacts DEF TableInv, TerminalAtEnd, Terminal
  <2>7. Story(j)'
    BY <2>3, <2>4, <2>5, <2>6, GrowStory DEF StoryInv
  <2>8. \A i \in Jobs \ {j} : journal'[i] = journal[i]
    BY <2>3, NoteFacts
  <2> QED
    BY <2>3, <2>7, <2>8, StillStory DEF StoryInv
<1>6. ASSUME NEW f \in Followers, Follow(f) \/ Push(f) \/ Disconnect(f)
      PROVE  StoryInv'
  BY <1>6, <1>a DEF Follow, Push, Look, Read, Send, Again, End, Disconnect, Quiet,
                    run
<1> QED
  BY <1>1, <1>2, <1>3, <1>4, <1>5, <1>6 DEF Next

LEMMA StoryTells == TypeOK /\ StoryInv => OneStory
<1> SUFFICES ASSUME TypeOK, StoryInv, NEW j \in Jobs,
                    NEW i \in Told(j), NEW n \in Told(j), i < n
             PROVE  LET c == journal[j][i].job
                        d == journal[j][n].job
                    IN  /\ Rank(c) <= Rank(d)
                        /\ c.cancelled => d.cancelled
                        /\ Rank(c) = 2 => d = [c EXCEPT !.cancelled = d.cancelled]
  BY DEF OneStory
<1> DEFINE c == journal[j][i].job
           d == journal[j][n].job
<1>1. c \in Card /\ d \in Card
  BY ToldCards
<1>2. Precedes(c, d)
  BY DEF StoryInv, Story
<1> HIDE DEF c, d
<1>3. Rank(c) = 2 => d = [c EXCEPT !.cancelled = d.cancelled]
  <2> SUFFICES ASSUME c.state = d.state, c.error = d.error, c.whole = d.whole
               PROVE  d = [c EXCEPT !.cancelled = d.cancelled]
    BY <1>2 DEF Precedes
  <2> QED
    BY <1>1 DEF Card
<1> QED
  BY <1>2, <1>3 DEF Precedes, c, d

(* Job.events, replayed to whoever subscribes late: states never go back,  *)
(* a job has one end, and a cancellation that comes late adds its mark and *)
(* nothing else, for any interleaving of threads, cancels and streams.     *)
THEOREM JournalsTellOneStory == Spec => []OneStory
<1>1. Init => TableInv /\ StoryInv
  <2>1. ASSUME Init PROVE \A j \in Jobs : Told(j) = {}
    BY <2>1 DEF Init, Told
  <2>2. Init => StoryInv
    BY <2>1 DEF StoryInv, Story
  <2> QED
    BY <2>2, InitTable
<1> QED
  BY <1>1, JobsTyped, TableStep, StoryStep, StoryTells, PTL DEF Spec

-----------------------------------------------------------------------------
(* The page that launches a job and follows it, composed with the server.   *)

(* What the journals are to a page: each begins with a state, no fragment   *)
(* follows a final state.                                                   *)
Opened(j) ==
  /\ place[j] # "none" => Len(journal[j]) # 0
  /\ Len(journal[j]) # 0 => 1 \in Told(j)

Silent(j) ==
  \A m \in Told(j) : FinalAt(j, m) => \A i \in DOMAIN journal[j] : m < i => i \in Told(j)

(* The server's part.                                                       *)
ServerInv ==
  /\ TypeOK /\ Named /\ TableInv /\ EndInv
  /\ \A j \in Jobs : Opened(j) /\ Silent(j)

(* A step lets the journal of a job as it is, or adds an event to it, and   *)
(* a fragment only while the worker infers.                                 *)
Adds(j, e) ==
  /\ Note(j, e)
  /\ e.kind = "delta" => place[j] = "infer"
  /\ e.kind # "delta" => e.job = card'[j]

JournalStep ==
  /\ \A j \in Jobs : place[j] = "over" => place'[j] = "over"
  /\ \A j \in Jobs : place[j] # "none" => place'[j] # "none"
  /\ \/ journal' = journal /\ \A j \in Jobs : place[j] = "none" => place'[j] = "none"
     \/ \E j \in Jobs : /\ \E e : Adds(j, e)
                        /\ \A i \in Jobs \ {j} : place[i] = "none" => place'[i] = "none"

LEMMA Journals == ASSUME TypeOK, Named, [Next]_vars PROVE JournalStep
<1> USE DEF Go, TypeOK
<1>1. CASE UNCHANGED vars
  BY <1>1 DEF vars, books, run, JournalStep
<1>2. ASSUME NEW j \in Jobs, Submit(j) PROVE JournalStep
  <2>1. Adds(j, [kind |-> "state", job |-> Submitted])
    BY <1>2 DEF Submit, Become, Adds
  <2> QED
    BY <1>2, <2>1 DEF Submit, JournalStep
<1>3. ASSUME NEW j \in Jobs, Begin(j) \/ Queue(j) \/ EndRest(j) PROVE JournalStep
  <2>1. \E e : Adds(j, e)
    <3>1. PICK new : Become(j, new)
      BY <1>3 DEF Begin, Queue, EndRest
    <3>2. Adds(j, [kind |-> "state", job |-> new])
      BY <3>1 DEF Become, Adds
    <3> QED
      BY <3>2
  <2>2. place[j] \notin {"none", "over"} /\ place'[j] # "none" /\ \A i \in Jobs \ {j} : place'[i] = place[i]
    BY <1>3 DEF Begin, Queue, EndRest
  <2> QED
    BY <2>1, <2>2 DEF JournalStep
<1>4. ASSUME NEW j \in Jobs, Advance(j) \/ ReceiveDelta(j) PROVE JournalStep
  <2>1. CASE Advance(j)
    <3>1. Adds(j, [kind |-> "progress", job |-> card[j]])
      BY <2>1 DEF Advance, Adds
    <3> QED
      BY <2>1, <3>1 DEF Advance, run, JournalStep
  <2>2. CASE ReceiveDelta(j)
    <3>1. Adds(j, [kind |-> "delta"])
      BY <2>2 DEF ReceiveDelta, Adds
    <3> QED
      BY <2>2, <3>1 DEF ReceiveDelta, run, JournalStep
  <2> QED
    BY <1>4, <2>1, <2>2
<1>5. ASSUME NEW j \in Jobs, OpenFails(j) \/ RefuseInput(j) \/ Turn(j) \/ Load(j) \/ LoadEnds(j)
                             \/ JobEnds(j) \/ Release(j) \/ FinishState(j) \/ FailState(j) \/ RecordFails(j)
      PROVE  JournalStep
  <2>1. /\ journal' = journal /\ place[j] \notin {"none", "over"} /\ place'[j] # "none"
        /\ \A i \in Jobs \ {j} : place'[i] = place[i]
    BY <1>5 DEF OpenFails, RefuseInput, Turn, Enter, GiveUp, Load, LoadEnds, Loaded, LoadFails,
                JobEnds, Answer, InferFails, Release, FinishState, FailState, RecordFails, Raise, books
  <2> QED
    BY <2>1 DEF JournalStep
<1>6. ASSUME NEW k \in Clients, MarkCancelled(k) PROVE JournalStep
  <2>1. PICK j \in Jobs : target[k] = j
    BY <1>6 DEF MarkCancelled, Named
  <2>2. Adds(j, [kind |-> "state", job |-> [card[j] EXCEPT !.cancelled = TRUE]])
    BY <1>6, <2>1 DEF MarkCancelled, Become, Adds
  <2> QED
    BY <1>6, <2>2 DEF MarkCancelled, run, JournalStep
<1>7. ASSUME NEW k \in Clients, Cancel(k) \/ Unload(k) PROVE JournalStep
  BY <1>7 DEF Cancel, Unload, books, run, JournalStep
<1>8. ASSUME NEW f \in Followers, Follow(f) \/ Push(f) \/ Disconnect(f) PROVE JournalStep
  BY <1>8 DEF Follow, Push, Look, Read, Send, Again, End, Disconnect, Quiet, books, run, JournalStep
<1> QED
  BY <1>1, <1>2, <1>3, <1>4, <1>5, <1>6, <1>7, <1>8 DEF Next, Thread, Prepare, Conclude

(* What a journal held, it holds.                                           *)
LEMMA JournalGrows ==
  ASSUME TypeOK, JournalStep, NEW j \in Jobs
  PROVE  /\ Len(journal[j]) \in Nat /\ Len(journal'[j]) \in Nat
         /\ Len(journal[j]) <= Len(journal'[j])
         /\ DOMAIN journal[j] = 1 .. Len(journal[j]) /\ DOMAIN journal'[j] = 1 .. Len(journal'[j])
         /\ \A i \in 1 .. Len(journal[j]) : journal'[j][i] = journal[j][i]
         /\ place[j] # "infer" =>
              \A i \in 1 .. Len(journal'[j]) : Len(journal[j]) < i => journal'[j][i].kind # "delta"
<1>1. journal[j] \in Seq(Event)
  BY DEF TypeOK
<1>2. CASE journal' = journal
  BY <1>1, <1>2
<1>3. ASSUME NEW h \in Jobs, NEW e, Adds(h, e)
      PROVE  /\ Len(journal[j]) \in Nat /\ Len(journal'[j]) \in Nat
             /\ Len(journal[j]) <= Len(journal'[j])
             /\ DOMAIN journal[j] = 1 .. Len(journal[j]) /\ DOMAIN journal'[j] = 1 .. Len(journal'[j])
             /\ \A i \in 1 .. Len(journal[j]) : journal'[j][i] = journal[j][i]
             /\ place[j] # "infer" =>
                  \A i \in 1 .. Len(journal'[j]) : Len(journal[j]) < i => journal'[j][i].kind # "delta"
  <2>1. CASE h = j
    <3>1. /\ Len(journal[j]) \in Nat /\ DOMAIN journal[j] = 1 .. Len(journal[j])
          /\ Len(journal'[j]) = Len(journal[j]) + 1
          /\ DOMAIN journal'[j] = 1 .. (Len(journal[j]) + 1)
          /\ \A m \in 1 .. Len(journal[j]) : journal'[j][m] = journal[j][m]
          /\ journal'[j][Len(journal[j]) + 1] = e
      BY <1>3, <2>1, NoteFacts DEF Adds
    <3>2. place[j] # "infer" => e.kind # "delta"
      BY <1>3, <2>1 DEF Adds
    <3> HIDE DEF Adds
    <3> QED
      BY <3>1, <3>2
  <2>2. CASE h # j
    <3>1. journal'[j] = journal[j]
      BY <1>3, <2>2, NoteFacts DEF Adds
    <3> QED
      BY <1>1, <3>1
  <2> QED
    BY <2>1, <2>2
<1> QED
  BY <1>2, <1>3 DEF JournalStep

LEMMA OpenedStep ==
  ASSUME TypeOK, JournalStep, NEW j \in Jobs, Opened(j)
  PROVE  Opened(j)'
<1>1. CASE journal' = journal /\ \A h \in Jobs : place[h] = "none" => place'[h] = "none"
  BY <1>1 DEF Opened, Told
<1>2. ASSUME NEW h \in Jobs, NEW e, Adds(h, e), \A i \in Jobs \ {h} : place[i] = "none" => place'[i] = "none"
      PROVE  Opened(j)'
  <2>1. CASE h = j
    <3>1. /\ Len(journal[j]) \in Nat
          /\ Len(journal'[j]) = Len(journal[j]) + 1
          /\ DOMAIN journal'[j] = 1 .. (Len(journal[j]) + 1)
          /\ \A m \in 1 .. Len(journal[j]) : journal'[j][m] = journal[j][m]
          /\ journal'[j][Len(journal[j]) + 1] = e
      BY <1>2, <2>1, NoteFacts DEF Adds
    <3>2. Len(journal[j]) = 0 => e.kind # "delta"
      BY <1>2, <2>1 DEF Opened, Adds
    <3>3. Len(journal[j]) # 0 => journal[j][1].kind # "delta"
      BY DEF Opened, Told
    <3>4. 1 \in DOMAIN journal'[j] /\ journal'[j][1].kind # "delta"
      <4>1. CASE Len(journal[j]) = 0
        BY <4>1, <3>1, <3>2
      <4>2. CASE Len(journal[j]) # 0
        <5>1. 1 \in 1 .. Len(journal[j])
          BY <3>1, <4>2
        <5> QED
          BY <3>1, <3>3, <4>2, <5>1
      <4> QED
        BY <4>1, <4>2
    <3> QED
      BY <3>1, <3>4 DEF Opened, Told
  <2>2. CASE h # j
    <3>1. journal'[j] = journal[j]
      BY <1>2, <2>2, NoteFacts DEF Adds
    <3> QED
      BY <1>2, <2>2, <3>1 DEF Opened, Told
  <2> QED
    BY <2>1, <2>2
<1> QED
  BY <1>1, <1>2 DEF JournalStep

LEMMA SilentStep ==
  ASSUME TypeOK, JournalStep, NEW j \in Jobs, JournalFinal(j), Silent(j)
  PROVE  Silent(j)'
<1>1. /\ Len(journal[j]) \in Nat /\ Len(journal'[j]) \in Nat
      /\ DOMAIN journal[j] = 1 .. Len(journal[j]) /\ DOMAIN journal'[j] = 1 .. Len(journal'[j])
      /\ \A i \in 1 .. Len(journal[j]) : journal'[j][i] = journal[j][i]
      /\ place[j] # "infer" =>
           \A i \in 1 .. Len(journal'[j]) : Len(journal[j]) < i => journal'[j][i].kind # "delta"
  BY JournalGrows
<1> SUFFICES ASSUME NEW m \in Told(j)', FinalAt(j, m)', NEW i \in DOMAIN journal'[j], m < i
             PROVE  journal'[j][i].kind # "delta"
  BY DEF Silent, Told
<1>2. m \in 1 .. Len(journal'[j]) /\ i \in 1 .. Len(journal'[j])
  BY <1>1 DEF Told
<1>3. CASE m \in 1 .. Len(journal[j])
  <2>1. m \in Told(j) /\ FinalAt(j, m)
    BY <1>1, <1>3 DEF Told, FinalAt, Final
  <2>2. place[j] = "over"
    BY <2>1 DEF JournalFinal, Final
  <2>3. CASE i \in 1 .. Len(journal[j])
    <3>1. i \in Told(j)
      BY <1>1, <2>1, <2>3 DEF Silent
    <3> QED
      BY <1>1, <2>3, <3>1 DEF Told
  <2>4. CASE i \notin 1 .. Len(journal[j])
    BY <1>1, <1>2, <2>2, <2>4
  <2> QED
    BY <2>3, <2>4
<1>4. CASE m \notin 1 .. Len(journal[j])
  <2>1. ~(Len(journal'[j]) = Len(journal[j]) + 1)
    BY <1>1, <1>2, <1>4
  <2>2. CASE journal' = journal
    BY <1>2, <1>4, <2>2
  <2>3. ASSUME NEW h \in Jobs, NEW e, Adds(h, e) PROVE FALSE
    <3>1. h # j
      BY <2>1, <2>3, NoteFacts DEF Adds
    <3>2. journal'[j] = journal[j]
      BY <2>3, <3>1, NoteFacts DEF Adds
    <3> QED
      BY <1>2, <1>4, <3>2
  <2> QED
    BY <2>2, <2>3 DEF JournalStep
<1> QED
  BY <1>3, <1>4

LEMMA ServerStep == ServerInv /\ [Next]_vars => ServerInv' /\ JournalStep
<1> SUFFICES ASSUME ServerInv, [Next]_vars PROVE ServerInv' /\ JournalStep
  OBVIOUS
<1>1. JournalStep
  BY Journals DEF ServerInv
<1>2. \A j \in Jobs : Opened(j)' /\ Silent(j)'
  BY <1>1, OpenedStep, SilentStep DEF ServerInv, EndInv
<1>3. TypeOK' /\ Named' /\ TableInv' /\ EndInv'
  BY TypeStep, NamedStep, TableStep, EndStep DEF ServerInv
<1> QED
  BY <1>1, <1>2, <1>3 DEF ServerInv

-----------------------------------------------------------------------------
(* Texts, in a journal that grows.                                          *)
Fragments(j, n) == {i \in 1 .. n : journal[j][i].kind = "delta"}

LEMMA TextFacts ==
  ASSUME NEW j, NEW n \in Nat
  PROVE  IsFiniteSet(Fragments(j, n)) /\ Text(j, n) = Cardinality(Fragments(j, n)) /\ Text(j, n) \in Nat
<1>1. IsFiniteSet(1 .. n)
  BY FS_Interval
<1>2. IsFiniteSet(Fragments(j, n))
  BY <1>1, FS_Subset DEF Fragments
<1> QED
  BY <1>2, FS_CardinalityType DEF Text, Fragments

LEMMA TextNext ==
  ASSUME NEW j, NEW n \in Nat
  PROVE  Text(j, n + 1) = Text(j, n) + (IF journal[j][n + 1].kind = "delta" THEN 1 ELSE 0)
<1>1. Fragments(j, n + 1) = IF journal[j][n + 1].kind = "delta" THEN Fragments(j, n) \cup {n + 1}
                            ELSE Fragments(j, n)
  BY DEF Fragments
<1>2. n + 1 \notin Fragments(j, n)
  BY DEF Fragments
<1>3. IsFiniteSet(Fragments(j, n)) /\ Text(j, n) = Cardinality(Fragments(j, n)) /\ Text(j, n) \in Nat
  BY TextFacts
<1>4. Text(j, n + 1) = Cardinality(Fragments(j, n + 1))
  BY TextFacts
<1>5. CASE journal[j][n + 1].kind = "delta"
  <2>1. Cardinality(Fragments(j, n) \cup {n + 1}) = Cardinality(Fragments(j, n)) + 1
    BY <1>2, <1>3, FS_AddElement
  <2> QED
    BY <2>1, <1>1, <1>3, <1>4, <1>5
<1>6. CASE journal[j][n + 1].kind # "delta"
  BY <1>1, <1>3, <1>4, <1>6
<1> QED
  BY <1>5, <1>6

LEMMA TextMonotone ==
  ASSUME NEW j, NEW n \in Nat, NEW m \in Nat, n <= m
  PROVE  /\ Text(j, n) <= Text(j, m)
         /\ (\A i \in 1 .. m : n < i => journal[j][i].kind # "delta") => Text(j, n) = Text(j, m)
<1>1. Fragments(j, n) \subseteq Fragments(j, m)
  BY DEF Fragments
<1>2. (\A i \in 1 .. m : n < i => journal[j][i].kind # "delta") => Fragments(j, n) = Fragments(j, m)
  BY DEF Fragments
<1>3. /\ IsFiniteSet(Fragments(j, m)) /\ Text(j, m) = Cardinality(Fragments(j, m))
      /\ Text(j, n) = Cardinality(Fragments(j, n))
  BY TextFacts
<1>4. Cardinality(Fragments(j, n)) <= Cardinality(Fragments(j, m))
  BY <1>1, <1>3, FS_Subset
<1> QED
  BY <1>2, <1>3, <1>4

(* The whole text only grows, and not once the job is over.                 *)
LEMMA AllTextGrows ==
  ASSUME TypeOK, JournalStep, NEW j \in Jobs
  PROVE  /\ AllText(j) \in Nat /\ AllText(j)' \in Nat /\ AllText(j) <= AllText(j)'
         /\ place[j] = "over" => AllText(j)' = AllText(j)
<1> DEFINE n == Len(journal[j])
           m == Len(journal'[j])
           T(k) == Cardinality({i \in 1 .. k : journal'[j][i].kind = "delta"})
<1>1. /\ n \in Nat /\ m \in Nat /\ n <= m
      /\ place[j] # "infer" => \A i \in 1 .. m : n < i => journal'[j][i].kind # "delta"
  BY JournalGrows
<1>3. Text(j, n) \in Nat
  BY <1>1, TextFacts
<1> HIDE DEF n, m
<1>4. /\ T(n) <= T(m) /\ T(m) \in Nat
      /\ (\A i \in 1 .. m : n < i => journal'[j][i].kind # "delta") => T(n) = T(m)
  <2> DEFINE F(k) == {i \in 1 .. k : journal'[j][i].kind = "delta"}
  <2>1. F(n) \subseteq F(m)
    BY <1>1
  <2>2. (\A i \in 1 .. m : n < i => journal'[j][i].kind # "delta") => F(n) = F(m)
    BY <1>1
  <2>3. IsFiniteSet(F(m))
    <3>1. F(m) \in SUBSET (1 .. m) /\ IsFiniteSet(1 .. m)
      BY <1>1, FS_Interval
    <3> QED
      BY <3>1, FS_Subset
  <2> HIDE DEF F
  <2>4. Cardinality(F(n)) <= Cardinality(F(m)) /\ Cardinality(F(m)) \in Nat
    BY <2>1, <2>3, FS_Subset, FS_CardinalityType
  <2> QED
    BY <2>2, <2>4 DEF F
<1>5. AllText(j)' = T(m)
  BY DEF AllText, Text, m
<1>6. T(n) = Text(j, n)
  <2>1. \A i \in 1 .. n : journal'[j][i] = journal[j][i]
    BY JournalGrows DEF n
  <2>2. {i \in 1 .. n : journal'[j][i].kind = "delta"} = {i \in 1 .. n : journal[j][i].kind = "delta"}
    BY <2>1
  <2> QED
    BY <2>2 DEF Text
<1>7. AllText(j) = Text(j, n)
  BY DEF AllText, n
<1> HIDE DEF T
<1> QED
  BY <1>1, <1>3, <1>4, <1>5, <1>6, <1>7

-----------------------------------------------------------------------------
(* What the page was told of a job, or shows of it, is true.                *)
Shows(s) ==
  /\ DOMAIN s = {"job", "card", "text"}
  /\ s.job \in Jobs /\ s.text \in Nat /\ s.text <= AllText(s.job)
  /\ Final(s.card) => s.text = AllText(s.job) /\ place[s.job] = "over"

(* One request at most flies for the latest gesture, for a job that was not *)
(* forgotten; `envoi` waits for it.                                         *)
FlightOK(x) ==
  /\ DOMAIN x = {"kind", "stage", "gen", "job", "reply"}
  /\ x.job \in Jobs /\ x.gen \in Nat /\ x.gen <= generation
  /\ x.stage = "back" => x.reply.job = x.job /\ Shows(x.reply)
  /\ x.gen = generation => x.job \notin forgotten

Requests ==
  /\ generation \in Nat
  /\ \A x \in flights : FlightOK(x)
  /\ \A x, y \in flights : x.gen = generation /\ y.gen = generation => x = y
  /\ envoi => ~interrompu /\ \E x \in flights : x.kind = "post" /\ x.gen = generation

Screen == shown # Nothing => Shows(shown) /\ shown.job \notin forgotten

(* The stream, while it is of the latest gesture, is of the job on the      *)
(* screen, whose text is what was read of it; no request flies beside it.   *)
Fresh == link # "none" /\ mienne = generation

Connection ==
  /\ got \in Nat /\ (link # "open" => got = 0)
  /\ link # "none" => wanted \in Jobs /\ mienne \in Nat /\ mienne <= generation
  /\ link = "open" =>
       fplace[Stream] # "idle" /\ follows[Stream] = wanted /\ got <= index[Stream]
  /\ Fresh =>
       /\ \A x \in flights : x.gen # generation
       /\ wanted \notin forgotten
       /\ shown # Nothing => shown.job = wanted /\ (got > 0 => shown.text = Text(wanted, got))

PageInv == ServerInv /\ Requests /\ Screen /\ Connection

LEMMA ShowsStays ==
  ASSUME TypeOK, JournalStep, NEW s, Shows(s)
  PROVE  Shows(s)'
<1>1. s.job \in Jobs
  BY DEF Shows
<1>2. /\ AllText(s.job) \in Nat /\ AllText(s.job)' \in Nat /\ AllText(s.job) <= AllText(s.job)'
      /\ place[s.job] = "over" => AllText(s.job)' = AllText(s.job)
  BY <1>1, AllTextGrows
<1>3. place[s.job] = "over" => place'[s.job] = "over"
  BY <1>1 DEF JournalStep
<1> QED
  BY <1>1, <1>2, <1>3 DEF Shows, Final

(* What was read of a stream stays what it is.                              *)
LEMMA ReadStays ==
  ASSUME PageInv, JournalStep, UNCHANGED <<wanted, got>>, link = "open"
  PROVE  Text(wanted, got)' = Text(wanted, got)
<1> USE DEF PageInv
<1>1. TypeOK /\ Stream \in Followers
  BY PageAssumption DEF ServerInv
<1>2. wanted \in Jobs /\ got \in Nat /\ got <= Len(journal[wanted])
  <2>1. index[Stream] <= fresh[Stream] /\ fresh[Stream] <= Len(journal[wanted])
    BY <1>1 DEF Connection, ServerInv, EndInv, StreamFinal
  <2>2. /\ index[Stream] \in Nat /\ fresh[Stream] \in Nat
        /\ wanted \in Jobs /\ got \in Nat /\ got <= index[Stream]
    BY <1>1 DEF Connection, TypeOK
  <2>3. Len(journal[wanted]) \in Nat
    BY <2>2, <1>1, ToldFacts
  <2> QED
    BY <2>1, <2>2, <2>3
<1>3. \A i \in 1 .. got : journal'[wanted][i] = journal[wanted][i]
  BY <1>1, <1>2, JournalGrows
<1>4. {i \in 1 .. got : journal'[wanted][i].kind = "delta"} = {i \in 1 .. got : journal[wanted][i].kind = "delta"}
  BY <1>3
<1> QED
  BY <1>4 DEF Text

(* A page that does not move, before a server that may, or a server that    *)
(* does not, before a page that may: what either needs of the other stays.  *)
LEMMA ServerMoves ==
  ASSUME PageInv, ServerInv', JournalStep, UNCHANGED page,
         link = "open" => /\ fplace'[Stream] # "idle" /\ follows'[Stream] = follows[Stream]
                          /\ index[Stream] <= index'[Stream]
  PROVE  PageInv'
<1> USE DEF PageInv
<1>1. TypeOK
  BY DEF ServerInv
<1>2. Stream \in Followers
  BY PageAssumption
<1>3. Requests'
  <2>1. ASSUME NEW x \in flights, FlightOK(x) PROVE FlightOK(x)'
    <3>1. Shows(x.reply) => Shows(x.reply)'
      BY <1>1, ShowsStays
    <3> QED
      BY <2>1, <3>1 DEF FlightOK, page, screen
  <2> QED
    BY <2>1 DEF Requests, page, screen
<1>4. Screen'
  <2>1. Shows(shown) => Shows(shown)'
    BY <1>1, ShowsStays DEF page, screen, Shows, AllText, Text
  <2> QED
    BY <2>1 DEF Screen, page, screen
<1>5. Connection'
  <2>1. index[Stream] \in Nat /\ index'[Stream] \in Nat
    BY <1>2 DEF ServerInv, TypeOK
  <2>2. link = "open" /\ got > 0 => Text(wanted, got)' = Text(wanted, got)
    BY ReadStays DEF page, stream
  <2> QED
    BY <2>1, <2>2 DEF Connection, Fresh, page, screen, stream
<1> QED
  BY <1>3, <1>4, <1>5

-----------------------------------------------------------------------------
(* A step of the page beside a server that stays as it is.                  *)
LEMMA SameServer ==
  ASSUME ServerInv, UNCHANGED vars
  PROVE  /\ ServerInv' /\ JournalStep
         /\ UNCHANGED <<card, journal, place, fplace, follows, index>>
         /\ \A s : Shows(s) => Shows(s)'
<1>1. ServerInv' /\ JournalStep
  BY ServerStep
<1>2. UNCHANGED <<card, journal, place, fplace, follows, index>>
  BY DEF vars, books, run, streams
<1>3. ASSUME NEW s, Shows(s) PROVE Shows(s)'
  BY <1>1, <1>3, ShowsStays DEF ServerInv
<1> QED
  BY <1>1, <1>2, <1>3

(* The requests that fly stay true, beside a new one and a later gesture.   *)
LEMMA OldFlights ==
  ASSUME Requests, generation' = generation + 1,
         \A s : Shows(s) => Shows(s)'
  PROVE  \A x \in flights : FlightOK(x)' /\ x.gen # generation'
<1> SUFFICES ASSUME NEW x \in flights PROVE FlightOK(x)' /\ x.gen # generation'
  OBVIOUS
<1>1. FlightOK(x) /\ generation \in Nat
  BY DEF Requests
<1>2. x.gen \in Nat /\ x.gen <= generation
  BY <1>1 DEF FlightOK
<1>3. x.gen <= generation' /\ x.gen # generation'
  BY <1>1, <1>2
<1> QED
  BY <1>1, <1>3 DEF FlightOK

LEMMA GestureKeeps ==
  ASSUME PageInv, NEW j, (j \in Jobs /\ Launch(j)) \/ Resume \/ Forget
  PROVE  PageInv'
<1> USE DEF PageInv
<1>1. UNCHANGED vars
  BY DEF Launch, Resume, Forget
<1>2. /\ ServerInv' /\ \A s : Shows(s) => Shows(s)'
      /\ UNCHANGED <<card, journal, place, fplace, follows, index>>
  BY <1>1, SameServer
<1>3. generation \in Nat /\ generation' = generation + 1 /\ generation' \in Nat
  BY DEF Launch, Resume, Forget, Requests
<1>4. \A x \in flights : FlightOK(x)' /\ x.gen # generation'
  BY <1>2, <1>3, OldFlights
<1>5. ASSUME NEW i \in Jobs, NEW kind, i \notin forgotten, flights' = flights \cup {Flight(kind, i)},
             interrompu' = FALSE, UNCHANGED <<shown, stream, forgotten>>,
             envoi' => kind = "post"
      PROVE  PageInv'
  <2>1. PICK new : new = Flight(kind, i)
    OBVIOUS
  <2>2. /\ DOMAIN new = {"kind", "stage", "gen", "job", "reply"}
        /\ new.kind = kind /\ new.stage = "out" /\ new.gen = generation' /\ new.job = i
    BY <2>1 DEF Flight
  <2>3. flights' = flights \cup {new}
    BY <1>5, <2>1
  <2>4. FlightOK(new)'
    BY <1>3, <1>5, <2>2 DEF FlightOK
  <2>5. Requests'
    <3>1. \A x \in flights' : FlightOK(x)'
      BY <1>4, <2>3, <2>4
    <3>2. \A x \in flights' : x.gen = generation' => x = new
      BY <1>4, <2>3
    <3>3. new \in flights' /\ (envoi' => new.kind = "post" /\ ~interrompu')
      BY <1>5, <2>2, <2>3
    <3> QED
      BY <1>3, <2>2, <3>1, <3>2, <3>3 DEF Requests
  <2>6. Screen'
    BY <1>2, <1>5 DEF Screen
  <2>7. Connection'
    <3>1. ~Fresh'
      BY <1>3, <1>5 DEF Fresh, Connection, stream
    <3> QED
      BY <1>2, <1>3, <1>5, <3>1 DEF Connection, stream
  <2> QED
    BY <1>2, <2>5, <2>6, <2>7
<1>6. CASE j \in Jobs /\ Launch(j)
  BY <1>5, <1>6 DEF Launch
<1>7. CASE Resume
  <2>1. shown.job \in Jobs /\ shown.job \notin forgotten /\ ~envoi'
    BY <1>7 DEF Resume, Screen, Shows, Requests
  <2> QED
    BY <1>5, <1>7, <2>1 DEF Resume
<1>8. CASE Forget
  <2>1. flights' = flights /\ envoi' = FALSE /\ shown' = Nothing /\ link' = "none" /\ got' = 0
    BY <1>8 DEF Forget, Abort
  <2>2. Requests'
    <3>1. \A x \in flights' : FlightOK(x)' /\ x.gen # generation'
      BY <1>4, <2>1
    <3> QED
      BY <1>3, <2>1, <3>1 DEF Requests
  <2>3. Screen' /\ Connection'
    BY <2>1 DEF Screen, Connection, Fresh
  <2> QED
    BY <1>2, <2>2, <2>3
<1> QED
  BY <1>6, <1>7, <1>8

(* The answers.                                                             *)
LEMMA AnsweredKeeps ==
  ASSUME PageInv, ServerInv', JournalStep, NEW x \in flights,
         UNCHANGED <<screen, stream, forgotten>>,
         link = "open" => /\ fplace'[Stream] = fplace[Stream] /\ follows'[Stream] = follows[Stream]
                          /\ index'[Stream] = index[Stream],
         NEW stage \in {"accepted", "back", "lost"}, NEW reply, Answered(x, stage, reply),
         stage = "back" => reply.job = x.job /\ Shows(reply)'
  PROVE  PageInv'
<1> USE DEF PageInv
<1>1. PICK new : new = [x EXCEPT !.stage = stage, !.reply = reply]
  OBVIOUS
<1>2. FlightOK(x)
  BY DEF Requests
<1>3. /\ DOMAIN new = {"kind", "stage", "gen", "job", "reply"}
      /\ new.kind = x.kind /\ new.stage = stage /\ new.gen = x.gen /\ new.job = x.job
      /\ new.reply = reply
  BY <1>1, <1>2 DEF FlightOK
<1>4. flights' = (flights \ {x}) \cup {new}
  BY <1>1 DEF Answered
<1>5. FlightOK(new)'
  BY <1>2, <1>3 DEF FlightOK, screen
<1>6. ASSUME NEW y \in flights PROVE FlightOK(y)'
  <2>1. Shows(y.reply) => Shows(y.reply)'
    BY ShowsStays DEF ServerInv
  <2> QED
    BY <2>1 DEF FlightOK, Requests, screen
<1>7. Requests'
  <2>1. \A y \in flights' : FlightOK(y)'
    BY <1>4, <1>5, <1>6
  <2>2. \A y, z \in flights' : y.gen = generation' /\ z.gen = generation' => y = z
    BY <1>3, <1>4 DEF Requests, screen
  <2>3. envoi' => ~interrompu' /\ \E y \in flights' : y.kind = "post" /\ y.gen = generation'
    <3> SUFFICES ASSUME envoi' PROVE ~interrompu' /\ \E y \in flights' : y.kind = "post" /\ y.gen = generation'
      OBVIOUS
    <3>1. PICK y \in flights : y.kind = "post" /\ y.gen = generation
      BY DEF Requests, screen
    <3>2. CASE y = x
      BY <1>3, <1>4, <3>1, <3>2 DEF Requests, screen
    <3>3. CASE y # x
      BY <1>4, <3>1, <3>3 DEF Requests, screen
    <3> QED
      BY <3>2, <3>3
  <2> QED
    BY <2>1, <2>2, <2>3 DEF Requests, screen
<1>8. Screen'
  <2>1. Shows(shown) => Shows(shown)'
    <3>1. ASSUME NEW s, s = shown, Shows(s) PROVE Shows(shown)'
      <4>1. Shows(s)' /\ shown' = s
        BY <3>1, ShowsStays DEF ServerInv, screen
      <4> QED
        BY <4>1 DEF Shows, AllText, Text
    <3> QED
      BY <3>1
  <2> QED
    BY <2>1 DEF Screen, screen
<1>9. Connection'
  <2>1. Fresh' => \A y \in flights' : y.gen # generation'
    BY <1>3, <1>4 DEF Fresh, Connection, screen, stream
  <2>2. link = "open" /\ got > 0 => Text(wanted, got)' = Text(wanted, got)
    BY ReadStays DEF stream
  <2> QED
    BY <2>1, <2>2 DEF Connection, Fresh, screen, stream
<1> QED
  BY <1>7, <1>8, <1>9

LEMMA PostKeeps ==
  ASSUME PageInv, NEW x \in flights, Post(x) PROVE PageInv'
<1> USE DEF PageInv
<1>1. x.job \in Jobs /\ Submit(x.job)
  BY DEF Post, Requests, FlightOK
<1>2. ServerInv' /\ JournalStep
  BY <1>1, ServerStep DEF Next
<1>3. UNCHANGED streams /\ UNCHANGED <<screen, stream, forgotten>>
  BY <1>1 DEF Submit, Post
<1>4. Answered(x, "accepted", Nothing)
  BY DEF Post
<1> QED
  BY <1>2, <1>3, <1>4, AnsweredKeeps DEF streams

LEMMA GetKeeps ==
  ASSUME PageInv, NEW x \in flights, Get(x) \/ Lose(x) PROVE PageInv'
<1> USE DEF PageInv
<1>1. x.job \in Jobs /\ UNCHANGED vars /\ UNCHANGED <<screen, stream, forgotten>>
  BY DEF Get, Lose, Requests, FlightOK
<1>2. /\ ServerInv' /\ JournalStep
      /\ UNCHANGED <<card, journal, place, fplace, follows, index>>
      /\ \A s : Shows(s) => Shows(s)'
  BY <1>1, SameServer
<1>3. CASE Lose(x)
  BY <1>1, <1>2, <1>3, AnsweredKeeps DEF Lose
<1>4. CASE Get(x)
  <2>1. PICK reply : reply = [job |-> x.job, card |-> card[x.job], text |-> AllText(x.job)]
    OBVIOUS
  <2>2. Answered(x, "back", reply)
    BY <1>4, <2>1 DEF Get
  <2>3. Shows(reply)
    <3>1. AllText(x.job) \in Nat
      BY <1>1, <1>2, AllTextGrows DEF ServerInv
    <3>2. Final(card[x.job]) => place[x.job] = "over"
      BY <1>1 DEF ServerInv, EndInv, JournalFinal, Final
    <3> QED
      BY <1>1, <2>1, <3>1, <3>2 DEF Shows
  <2> QED
    BY <1>1, <1>2, <2>1, <2>2, <2>3, AnsweredKeeps
<1> QED
  BY <1>3, <1>4

(* Back from an await, the page drops what is stale, or takes it.           *)
LEMMA TakenKeeps ==
  ASSUME PageInv, NEW x \in flights, Drop(x) \/ Pose(x) \/ Fail(x) PROVE PageInv'
<1> USE DEF PageInv
<1>1. UNCHANGED vars /\ flights' = flights \ {x} /\ UNCHANGED <<generation, forgotten>>
  BY DEF Drop, Pose, Fail, screen
<1>2. /\ ServerInv' /\ \A s : Shows(s) => Shows(s)'
      /\ UNCHANGED <<card, journal, place, fplace, follows, index>>
  BY <1>1, SameServer
<1>3. /\ generation' \in Nat
      /\ \A y \in flights' : FlightOK(y)'
      /\ \A y, z \in flights' : y.gen = generation' /\ z.gen = generation' => y = z
  <2>1. ASSUME NEW y \in flights PROVE FlightOK(y)'
    BY <1>1, <1>2 DEF FlightOK, Requests
  <2> QED
    BY <1>1, <2>1 DEF Requests
<1>4. x.gen = generation => \A y \in flights' : y.gen # generation
  BY <1>1 DEF Requests
<1>5. CASE Drop(x)
  <2>1. x.gen # generation /\ UNCHANGED <<shown, interrompu, envoi, stream>>
    BY <1>5 DEF Drop, Stale, screen
  <2>2. Requests'
    BY <1>1, <1>3, <2>1 DEF Requests
  <2>3. Screen'
    BY <1>1, <1>2, <2>1 DEF Screen
  <2>4. Connection'
    BY <1>1, <1>2, <2>1 DEF Connection, Fresh, stream, Text
  <2> QED
    BY <1>2, <2>2, <2>3, <2>4
<1>6. CASE Pose(x) \/ Fail(x)
  <2>1. x.gen = generation /\ ~Fresh
    BY <1>6 DEF Pose, Fail, Stale, Connection
  <2>2. ~envoi'
    BY <1>6, <2>1 DEF Pose, Fail, Requests
  <2>3. Requests'
    BY <1>3, <2>2 DEF Requests
  <2>4. CASE Fail(x)
    <3>1. UNCHANGED <<shown, stream>>
      BY <2>4 DEF Fail
    <3>2. Screen'
      BY <1>1, <1>2, <3>1 DEF Screen
    <3>3. Connection'
      BY <1>1, <1>2, <2>1, <3>1 DEF Connection, Fresh, stream
    <3> QED
      BY <1>2, <2>3, <3>2, <3>3
  <2>5. CASE Pose(x)
    <3>1. x.reply.job = x.job /\ Shows(x.reply) /\ x.job \in Jobs /\ x.job \notin forgotten /\ shown' = x.reply
      BY <2>1, <2>5 DEF Pose, Requests, FlightOK
    <3>2. Screen'
      BY <1>1, <1>2, <3>1 DEF Screen
    <3>3. Watch(x.job, x.gen) => Connection'
      BY <1>1, <1>3, <1>4, <2>1, <3>1 DEF Connection, Watch, Fresh, Requests
    <3>4. UNCHANGED stream => Connection'
      BY <1>1, <1>2, <2>1 DEF Connection, Fresh, stream
    <3>5. Watch(x.job, x.gen) \/ UNCHANGED stream
      BY <2>5 DEF Pose
    <3> QED
      BY <1>2, <2>3, <3>2, <3>3, <3>4, <3>5
  <2> QED
    BY <1>6, <2>4, <2>5
<1> QED
  BY <1>5, <1>6

(* The stream.                                                              *)
LEMMA OpenKeeps ==
  ASSUME PageInv, Open PROVE PageInv'
<1> USE DEF PageInv
<1>1. Stream \in Followers /\ Follow(Stream) /\ TypeOK
  BY PageAssumption DEF Open, ServerInv
<1>2. ServerInv' /\ JournalStep
  BY <1>1, ServerStep DEF Next
<1>3. /\ UNCHANGED <<screen, flights, wanted, mienne, got, forgotten>>
      /\ link = "opening" /\ link' = "open" /\ follows'[Stream] = wanted
      /\ UNCHANGED <<card, journal, place, index>> /\ fplace'[Stream] = "look"
  BY <1>1 DEF Open, Follow, Quiet, books, run, TypeOK
<1>4. Requests'
  <2>1. ASSUME NEW y \in flights PROVE FlightOK(y)'
    <3>1. Shows(y.reply) => Shows(y.reply)'
      BY <1>2, ShowsStays DEF ServerInv
    <3> QED
      BY <1>3, <3>1 DEF FlightOK, Requests, screen
  <2> QED
    BY <1>3, <2>1 DEF Requests, screen
<1>5. Screen'
  BY <1>3 DEF Screen, screen, Shows, AllText, Text
<1>6. Connection'
  <2>1. got = 0 /\ index'[Stream] \in Nat
    BY <1>1, <1>2, <1>3 DEF Connection, ServerInv, TypeOK
  <2> QED
    BY <1>3, <2>1 DEF Connection, Fresh, screen
<1> QED
  BY <1>2, <1>4, <1>5, <1>6

LEMMA DeliverKeeps ==
  ASSUME PageInv, Deliver PROVE PageInv'
<1> USE DEF PageInv
<1> DEFINE n == got + 1
<1>1. /\ UNCHANGED <<vars, generation, interrompu, envoi, flights, link, wanted, mienne, forgotten>>
      /\ link = "open" /\ got < index[Stream] /\ got' = n
      /\ shown' = IF Stale(mienne) THEN shown
                  ELSE IF journal[wanted][n].kind = "delta" THEN Extended ELSE Replaced(n)
  BY DEF Deliver
<1>2. /\ ServerInv' /\ \A s : Shows(s) => Shows(s)'
      /\ UNCHANGED <<card, journal, place, fplace, follows, index>>
  BY <1>1, SameServer
<1>3. /\ wanted \in Jobs /\ got \in Nat /\ n \in Nat /\ n <= index[Stream]
      /\ Len(journal[wanted]) \in Nat /\ n <= Len(journal[wanted])
      /\ DOMAIN journal[wanted] = 1 .. Len(journal[wanted])
  <2>1. Stream \in Followers /\ TypeOK
    BY PageAssumption DEF ServerInv
  <2>2. wanted \in Jobs /\ got \in Nat /\ fplace[Stream] # "idle" /\ follows[Stream] = wanted
    BY <1>1 DEF Connection
  <2>3. index[Stream] <= fresh[Stream] /\ fresh[Stream] <= Len(journal[wanted])
    BY <2>1, <2>2 DEF ServerInv, EndInv, StreamFinal
  <2>4. index[Stream] \in Nat /\ fresh[Stream] \in Nat
    BY <2>1 DEF TypeOK
  <2>5. journal[wanted] \in Seq(Event)
    BY <2>1, <2>2 DEF TypeOK
  <2>6. Len(journal[wanted]) \in Nat /\ DOMAIN journal[wanted] = 1 .. Len(journal[wanted])
    BY <2>5
  <2> QED
    BY <1>1, <2>2, <2>3, <2>4, <2>6
<1>4. /\ Text(wanted, n) \in Nat /\ AllText(wanted) \in Nat /\ Text(wanted, n) <= AllText(wanted)
  BY <1>3, TextFacts, TextMonotone DEF AllText
<1>5. Text(wanted, n) = Text(wanted, got) + (IF journal[wanted][n].kind = "delta" THEN 1 ELSE 0)
  BY <1>3, TextNext
<1>6. Requests'
  <2>1. ASSUME NEW y \in flights PROVE FlightOK(y)'
    BY <1>1, <1>2 DEF FlightOK, Requests
  <2> QED
    BY <1>1, <2>1 DEF Requests
<1>7. CASE Stale(mienne)
  <2>1. shown' = shown /\ ~Fresh
    BY <1>1, <1>7 DEF Stale, Fresh
  <2>2. Screen'
    BY <1>1, <1>2, <2>1 DEF Screen
  <2>3. Connection'
    BY <1>1, <1>2, <1>3, <2>1 DEF Connection, Fresh
  <2> QED
    BY <1>2, <1>6, <2>2, <2>3
<1>8. CASE ~Stale(mienne)
  <2>1. Fresh /\ wanted \notin forgotten
    BY <1>1, <1>8 DEF Stale, Fresh, Connection
  <2>2. shown' # Nothing => /\ Shows(shown') /\ shown'.job = wanted
                            /\ shown'.text = Text(wanted, n)
    <3>1. CASE journal[wanted][n].kind # "delta"
      <4>1. shown' = Replaced(n)
        BY <1>1, <1>8, <3>1
      <4>2. PICK s : s = [job |-> wanted, card |-> journal[wanted][n].job, text |-> Text(wanted, n)]
        OBVIOUS
      <4>3. Final(s.card) => s.text = AllText(wanted) /\ place[wanted] = "over"
        <5> SUFFICES ASSUME Final(s.card) PROVE s.text = AllText(wanted) /\ place[wanted] = "over"
          OBVIOUS
        <5>1. n \in Told(wanted) /\ FinalAt(wanted, n)
          BY <1>3, <3>1, <4>2 DEF Told, FinalAt
        <5>2. Final(card[wanted]) /\ place[wanted] = "over"
          BY <1>3, <5>1 DEF ServerInv, EndInv, JournalFinal, Final
        <5>3. \A i \in 1 .. Len(journal[wanted]) : n < i => journal[wanted][i].kind # "delta"
          BY <1>3, <5>1 DEF ServerInv, Silent, Told
        <5>4. Text(wanted, n) = AllText(wanted)
          BY <1>3, <5>3, TextMonotone DEF AllText
        <5> QED
          BY <4>2, <5>2, <5>4
      <4>4. Shows(s)
        BY <1>3, <1>4, <4>2, <4>3 DEF Shows
      <4> QED
        BY <4>1, <4>2, <4>4 DEF Replaced
    <3>2. CASE journal[wanted][n].kind = "delta"
      <4>1. shown' = Extended
        BY <1>1, <1>8, <3>2
      <4>2. CASE shown = Nothing
        BY <4>1, <4>2 DEF Extended
      <4>3. CASE shown # Nothing
        <5>1. got > 0
          <6>1. n \in DOMAIN journal[wanted] /\ n \notin Told(wanted) /\ Len(journal[wanted]) # 0
            BY <1>3, <3>2 DEF Told
          <6>2. 1 \in Told(wanted)
            BY <1>3, <6>1 DEF ServerInv, Opened
          <6> QED
            BY <1>3, <6>1, <6>2
        <5>2. shown.job = wanted /\ shown.text = Text(wanted, got) /\ Shows(shown)
          BY <2>1, <4>3, <5>1 DEF Connection, Screen
        <5>3. PICK s : s = [shown EXCEPT !.text = @ + 1]
          OBVIOUS
        <5>4. /\ DOMAIN s = {"job", "card", "text"} /\ s.job = wanted /\ s.card = shown.card
              /\ s.text = Text(wanted, n)
          BY <1>5, <3>2, <5>2, <5>3 DEF Shows
        <5>5. ~Final(shown.card)
          BY <1>3, <1>4, <1>5, <3>2, <5>2, TextFacts DEF Shows
        <5>6. Shows(s)
          BY <1>3, <1>4, <5>4, <5>5 DEF Shows
        <5> QED
          BY <4>1, <4>3, <5>3, <5>4, <5>6 DEF Extended
      <4> QED
        BY <4>2, <4>3
    <3> QED
      BY <3>1, <3>2
  <2>3. Screen'
    <3>1. ASSUME NEW s, s = shown', Shows(s) PROVE Shows(shown)'
      BY <1>2, <3>1 DEF Shows, AllText, Text
    <3> QED
      BY <1>1, <2>1, <2>2, <3>1 DEF Screen
  <2>4. Connection'
    <3>1. Text(wanted, got)' = Text(wanted, n)
      BY <1>1, <1>2 DEF Text
    <3> QED
      BY <1>1, <1>2, <1>3, <2>1, <2>2, <3>1 DEF Connection, Fresh
  <2> QED
    BY <1>2, <1>6, <2>3, <2>4
<1> QED
  BY <1>7, <1>8

(* The stream is over, at its end or cut.                                   *)
LEMMA OverKeeps ==
  ASSUME PageInv, Close \/ Cut PROVE PageInv'
<1> USE DEF PageInv
<1>1. /\ UNCHANGED <<vars, generation, shown, envoi, flights, forgotten>>
      /\ link' = "none" /\ got' = 0
      /\ UNCHANGED interrompu \/ (link # "none" /\ interrompu' = (interrompu \/ Noticed))
  BY DEF Close, Cut, Abort, screen
<1>2. /\ ServerInv' /\ \A s : Shows(s) => Shows(s)'
  BY <1>1, SameServer
<1>3. Requests'
  <2>1. ASSUME NEW y \in flights PROVE FlightOK(y)'
    BY <1>1, <1>2 DEF FlightOK, Requests
  <2>2. envoi /\ Noticed => link = "none"
    BY DEF Noticed, Stale, Requests, Connection, Fresh
  <2>3. envoi' => ~interrompu' /\ \E x \in flights' : x.kind = "post" /\ x.gen = generation'
    <3>1. envoi => ~interrompu /\ \E x \in flights : x.kind = "post" /\ x.gen = generation
      BY DEF Requests
    <3>2. interrompu' /\ envoi => interrompu
      BY <1>1, <2>2
    <3> QED
      BY <1>1, <3>1, <3>2
  <2>4. /\ generation \in Nat
        /\ \A x, y \in flights : x.gen = generation /\ y.gen = generation => x = y
    BY DEF Requests
  <2> QED
    BY <1>1, <2>1, <2>3, <2>4 DEF Requests
<1>4. Screen' /\ Connection'
  BY <1>1, <1>2 DEF Screen, Connection, Fresh
<1> QED
  BY <1>2, <1>3, <1>4

(* The server on its own.                                                   *)
LEMMA ServerKeeps ==
  ASSUME PageInv, UNCHANGED page, NEW j,
         \/ j \in Jobs /\ (Work(j) \/ Report(j))
         \/ Cancelling \/ Pushing \/ Noticing \/ (j \in Clients /\ Cancel(j))
         \/ UNCHANGED vars
  PROVE  PageInv'
<1> USE DEF PageInv
<1>1. Stream \in Followers /\ TypeOK
  BY PageAssumption DEF ServerInv
<1>2. [Next]_vars
  BY <1>1 DEF Work, Report, Cancelling, Pushing, Noticing, Next, Thread
<1>3. ServerInv' /\ JournalStep
  BY <1>2, ServerStep
<1>4. CASE ~Pushing /\ ~Noticing
  <2>1. UNCHANGED streams
    <3>1. ASSUME j \in Jobs, Work(j) \/ Report(j) PROVE UNCHANGED streams
      BY <1>1, <3>1, ThreadFrame DEF Work, Report, Thread
    <3>2. ASSUME NEW k, Cancel(k) \/ MarkCancelled(k) \/ Unload(k) PROVE UNCHANGED streams
      BY <3>2 DEF Cancel, MarkCancelled, Unload
    <3> QED
      BY <1>4, <3>1, <3>2 DEF Cancelling, vars
  <2>2. index[Stream] \in Nat
    BY <1>1 DEF TypeOK
  <2> QED
    BY <1>3, <2>1, <2>2, ServerMoves DEF streams, Connection
<1>5. CASE Pushing
  <2>1. /\ index[Stream] \in Nat /\ fresh[Stream] \in Nat
        /\ fplace'[Stream] # "idle" /\ follows' = follows
        /\ index'[Stream] = index[Stream] \/ (index'[Stream] = fresh[Stream] /\ fresh[Stream] > index[Stream])
    BY <1>1, <1>5 DEF Pushing, Push, Look, Read, Send, Again, End, TypeOK
  <2> QED
    BY <1>3, <2>1, ServerMoves
<1>6. CASE Noticing
  BY <1>3, <1>6, ServerMoves DEF Noticing
<1> QED
  BY <1>4, <1>5, <1>6

LEMMA PageStep == PageInv /\ [PageNext]_<<vars, page>> => PageInv'
<1> SUFFICES ASSUME PageInv, [PageNext]_<<vars, page>> PROVE PageInv'
  OBVIOUS
<1>1. ASSUME UNCHANGED <<vars, page>> PROVE PageInv'
  BY <1>1, ServerKeeps
<1>2. ASSUME UNCHANGED page, (\E j \in Jobs : Work(j) \/ Report(j)) \/ Cancelling \/ Pushing \/ Noticing
      PROVE  PageInv'
  BY <1>2, ServerKeeps
<1>3. ASSUME NEW k \in Clients, Stop(k) PROVE PageInv'
  BY <1>3, ServerKeeps DEF Stop
<1>4. ASSUME (\E j \in Jobs : Launch(j)) \/ Resume \/ Forget PROVE PageInv'
  BY <1>4, GestureKeeps
<1>5. ASSUME NEW x \in flights, Post(x) \/ Get(x) \/ Drop(x) \/ Pose(x) \/ Fail(x) \/ Lose(x) PROVE PageInv'
  BY <1>5, PostKeeps, GetKeeps, TakenKeeps
<1>6. ASSUME Hear \/ Cut PROVE PageInv'
  BY <1>6, OpenKeeps, DeliverKeeps, OverKeeps DEF Hear
<1> QED
  BY <1>1, <1>2, <1>3, <1>4, <1>5, <1>6 DEF PageNext, Travel

(* useJob.ts and Atelier.tsx against jobs.py: whatever is late, cut, replayed *)
(* or resumed, what a page shows is a job its user did not take back, and     *)
(* its text is never more than the server holds, and all of it at the end.    *)
THEOREM PagesTellTrue == PageSpec => []PageIsTrue
<1>1. InitPage => PageInv
  <2> SUFFICES ASSUME InitPage PROVE PageInv
    OBVIOUS
  <2>1. TypeOK /\ Named /\ TableInv
    BY InitType, InitTable DEF InitPage, Init, Named
  <2>2. \A j \in Jobs : place[j] = "none" /\ journal[j] = <<>> /\ Told(j) = {}
    BY DEF InitPage, Init, Told
  <2>3. \A j \in Jobs : Opened(j) /\ Silent(j)
    BY <2>2 DEF Opened, Silent
  <2>4. EndInv
    BY <2>2 DEF InitPage, Init, EndInv, JournalFinal, StreamFinal, Submitted
  <2> QED
    BY <2>1, <2>3, <2>4 DEF PageInv, ServerInv, InitPage, Requests, Screen, Connection, Fresh
<1>2. PageInv => PageIsTrue
  BY DEF PageInv, Requests, Screen, Shows, PageIsTrue, ForgottenStays, TextIsTold
<1> QED
  BY <1>1, <1>2, PageStep, PTL DEF PageSpec
=============================================================================
