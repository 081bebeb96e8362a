--------------------------- MODULE ProvisionProofs ---------------------------
(***************************************************************************)
(* Theorems about Provision, for any terminals, variants, repositories and *)
(* revisions, any volume and any number of faults.                         *)
(***************************************************************************)
EXTENDS Provision, PlanProofs, SequenceTheorems

Entry == [made : BOOLEAN, links : SUBSET Files]

(* What was there and was not thrown away is still reached.                *)
Held(r, rev) == FilesOf[r][rev] \ taken \subseteq Reached(r, rev)

PinTyped == \A r \in Repos : pinned[r] \in Revisions(r) \cup {Floating}

CacheTyped ==
  /\ DOMAIN pinned = Repos /\ PinTyped
  /\ DOMAIN snapshot = Repos
  /\ \A r \in Repos : snapshot[r] \in [Revisions(r) -> Entry]

(* Of a pull that is on its way.                                           *)
Planned(g) ==
  /\ DOMAIN job[g] = DOMAIN Idle
  /\ DOMAIN job[g].plans = 1 .. Len(job[g].plans) /\ Len(job[g].plans) \in Nat
  /\ \A i \in DOMAIN job[g].plans :
       job[g].plans[i].repo \in Repos /\ job[g].plans[i].rev \in Revisions(job[g].plans[i].repo)
  /\ job[g].k \in DOMAIN job[g].plans
  /\ ~job[g].done

(* It passed over the plans that were complete, and has fetched those       *)
(* before the one it is at: what they ask for is there.                     *)
BehindIt(g) == {i \in DOMAIN job[g].plans : job[g].plans[i].complete \/ i < job[g].k}

Keeps(g) ==
  job[g].at # "idle" =>
    /\ Planned(g)
    /\ \A i \in BehindIt(g) : Held(job[g].plans[i].repo, job[g].plans[i].rev)

PInv ==
  /\ CacheTyped
  /\ DOMAIN job = Programs
  /\ \A g \in Programs : Keeps(g)

LEMMA InitPInv == Init => PInv
<1> SUFFICES ASSUME Init PROVE PInv
  OBVIOUS
<1>1. \A r \in Repos : snapshot[r] \in [Revisions(r) -> Entry]
  <2> SUFFICES ASSUME NEW r \in Repos PROVE snapshot[r] \in [Revisions(r) -> Entry]
    OBVIOUS
  <2>1. snapshot[r] = [v \in Revisions(r) |-> Absent]
    BY DEF Init
  <2>2. Absent \in Entry
    BY DEF Absent, Entry
  <2> QED
    BY <2>1, <2>2
<1>2. CacheTyped
  BY <1>1 DEF Init, CacheTyped, PinTyped
<1>3. DOMAIN job = Programs /\ \A g \in Programs : job[g].at = "idle"
  BY DEF Init, Idle
<1> QED
  BY <1>2, <1>3 DEF PInv, Keeps

(* A cache that only grows, but for what is thrown away.                    *)
CacheGrows ==
  /\ DOMAIN snapshot' = Repos
  /\ \A r \in Repos : snapshot'[r] \in [Revisions(r) -> Entry]
  /\ \A r \in Repos : \A rev \in Revisions(r) : snapshot[r][rev].links \subseteq snapshot'[r][rev].links
  /\ taken \subseteq taken' /\ blobs \ taken' \subseteq blobs'

(* Such a cache keeps what it held.                                         *)
LEMMA HeldStays ==
  ASSUME CacheGrows, NEW r \in Repos, NEW rev \in Revisions(r), Held(r, rev)
  PROVE  Held(r, rev)'
  BY DEF CacheGrows, Held, Reached, Linked

(* A cache that nobody writes to is one.                                    *)
LEMMA SameCacheGrows ==
  ASSUME PInv, UNCHANGED <<snapshot, blobs, taken>>
  PROVE  CacheGrows
  BY DEF PInv, CacheTyped, CacheGrows

(* A pull that does not move keeps what it had, whatever grows.             *)
LEMMA StillKeeps ==
  ASSUME CacheGrows, NEW g, Keeps(g), job'[g] = job[g]
  PROVE  Keeps(g)'
<1> SUFFICES ASSUME job[g].at # "idle" PROVE Keeps(g)'
  BY DEF Keeps
<1>1. Planned(g)'
  BY DEF Keeps, Planned
<1>2. ASSUME NEW i \in BehindIt(g)'
      PROVE  Held(job[g].plans[i].repo, job[g].plans[i].rev)'
  <2>1. i \in BehindIt(g) /\ i \in DOMAIN job[g].plans
    BY <1>2 DEF BehindIt
  <2>2. job[g].plans[i].repo \in Repos /\ job[g].plans[i].rev \in Revisions(job[g].plans[i].repo)
    BY <2>1 DEF Keeps, Planned
  <2>3. Held(job[g].plans[i].repo, job[g].plans[i].rev)
    BY <2>1 DEF Keeps
  <2>4. job'[g].plans[i] = job[g].plans[i]
    OBVIOUS
  <2>5. Held(job[g].plans[i].repo, job[g].plans[i].rev) =>
        FilesOf[job[g].plans[i].repo][job[g].plans[i].rev] \ taken' \subseteq
          snapshot'[job[g].plans[i].repo][job[g].plans[i].rev].links \cap blobs'
    BY <2>2 DEF CacheGrows, Held, Reached, Linked
  <2> QED
    BY <2>3, <2>4, <2>5 DEF Held, Reached, Linked
<1> QED
  BY <1>1, <1>2 DEF Keeps

(* Then one pull at most has to be looked at.                               *)
LEMMA OneMoves ==
  ASSUME PInv, CacheGrows, DOMAIN pinned' = Repos, PinTyped', NEW h,
         DOMAIN job' = Programs,
         \A g \in Programs \ {h} : job'[g] = job[g],
         h \in Programs => Keeps(h)'
  PROVE  PInv'
<1>1. CacheTyped'
  BY DEF CacheTyped, CacheGrows
<1>2. ASSUME NEW g \in Programs PROVE Keeps(g)'
  <2>1. CASE g = h
    BY <2>1
  <2>2. CASE g # h
    BY <2>2, StillKeeps DEF PInv
  <2> QED
    BY <2>1, <2>2
<1> QED
  BY <1>1, <1>2 DEF PInv

(* What a pull finds complete is held.                                      *)
LEMMA CompleteHolds ==
  ASSUME NEW r, NEW rev, Complete(r, rev)
  PROVE  Held(r, rev)
  BY DEF Complete, Missing, Held

LEMMA BeginKeeps ==
  ASSUME PInv, NEW g \in Programs, NEW v \in Variants, NEW force \in BOOLEAN, NEW ignore \in BOOLEAN,
         Begin(g, v, force, ignore)
  PROVE  PInv' /\ ~job'[g].done
<1> DEFINE repos == SourcesOf[v]
           plans == [i \in DOMAIN repos |-> PlanOf(repos[i])]
           S == {PlanOf(repos[i]) : i \in DOMAIN repos}
<1>1. repos \in Seq(Repos) /\ repos # <<>> /\ \A i \in DOMAIN repos : pinned[repos[i]] # Floating
  BY ProvisionAssumption DEF Begin
<1>2. Len(repos) \in Nat /\ DOMAIN repos = 1 .. Len(repos) /\ 1 \in DOMAIN repos
  <2>1. Len(repos) \in Nat /\ DOMAIN repos = 1 .. Len(repos)
    BY <1>1, LenProperties
  <2>2. Len(repos) # 0
    BY <1>1, EmptySeq
  <2> QED
    BY <2>1, <2>2
<1>3. DOMAIN plans = 1 .. Len(plans) /\ Len(plans) \in Nat
  <2>1. plans \in [1 .. Len(repos) -> S]
    BY <1>2
  <2>2. plans \in Seq(S)
    BY <2>1, <1>2, SeqDef
  <2> QED
    BY <2>2, LenProperties
<1>4. \A i \in DOMAIN plans : /\ plans[i].repo = repos[i] /\ plans[i].rev = pinned[repos[i]]
                              /\ plans[i].complete = Complete(repos[i], pinned[repos[i]])
  BY DEF PlanOf
<1>5. \A i \in DOMAIN plans : plans[i].repo \in Repos /\ plans[i].rev \in Revisions(plans[i].repo)
  <2> TAKE i \in DOMAIN plans
  <2>1. repos[i] \in Repos
    BY <1>1, ElementOfSeq, <1>2
  <2> QED
    BY <2>1, <1>1, <1>4 DEF PInv, CacheTyped, PinTyped
<1>6. /\ job'[g].plans = plans /\ job'[g].k = 1 /\ job'[g].done = FALSE
      /\ DOMAIN job' = Programs /\ \A h \in Programs \ {g} : job'[h] = job[h]
  BY DEF Begin, PInv, Idle
<1>7. UNCHANGED <<pinned, snapshot, blobs, taken>>
  BY DEF Begin, disk, store
<1>8. Planned(g)'
  <2>1. DOMAIN job'[g] = DOMAIN Idle
    BY DEF Begin, PInv, Idle
  <2> HIDE DEF plans
  <2> QED
    BY <1>2, <1>3, <1>5, <1>6, <2>1, DOMAIN plans = DOMAIN repos DEF Planned, plans, Idle
<1>9. ASSUME NEW i \in BehindIt(g)'
      PROVE  Held(plans[i].repo, plans[i].rev)
  <2>1. i \in DOMAIN plans /\ plans[i].complete
    BY <1>2, <1>6, <1>9, i \in DOMAIN plans => i \in 1 .. Len(repos) DEF BehindIt
  <2> QED
    BY <2>1, <1>4, CompleteHolds
<1>10. CacheGrows
  BY <1>7, SameCacheGrows
<1>11. Keeps(g)'
  <2>1. ASSUME NEW i \in BehindIt(g)'
        PROVE  Held(job[g].plans[i].repo, job[g].plans[i].rev)'
    <3>1. Held(plans[i].repo, plans[i].rev)
      BY <1>9, <2>1
    <3>2. job'[g].plans[i] = plans[i]
      BY <1>6
    <3> HIDE DEF plans
    <3> QED
      BY <3>1, <3>2, <1>7 DEF Held, Reached, Linked
  <2> QED
    BY <1>8, <2>1 DEF Keeps
<1>12. DOMAIN pinned' = Repos /\ PinTyped'
  BY <1>7 DEF PInv, CacheTyped, PinTyped
<1> QED
  BY <1>6, <1>10, <1>11, <1>12, OneMoves

(* A pull that ends keeps nothing more.                                     *)
LEMMA EndKeeps ==
  ASSUME PInv, CacheGrows, NEW g \in Programs, NEW done \in BOOLEAN, job' = Ends(g, done),
         UNCHANGED pinned
  PROVE  PInv' /\ job'[g].done = done
<1>1. /\ job'[g].at = "idle" /\ job'[g].done = done
      /\ DOMAIN job' = Programs /\ \A h \in Programs \ {g} : job'[h] = job[h]
  BY DEF Ends, Idle, PInv
<1>2. Keeps(g)'
  BY <1>1 DEF Keeps
<1>3. DOMAIN pinned' = Repos /\ PinTyped'
  BY DEF PInv, CacheTyped, PinTyped
<1> QED
  BY <1>1, <1>2, <1>3, OneMoves

(* A pull that goes on with the same plans keeps what it had, when what it  *)
(* leaves behind is held.                                                   *)
LEMMA OnKeeps ==
  ASSUME PInv, CacheGrows, UNCHANGED pinned, NEW g \in Programs, job[g].at # "idle",
         DOMAIN job' = Programs, \A h \in Programs \ {g} : job'[h] = job[h],
         DOMAIN job'[g] = DOMAIN job[g],
         job'[g].plans = job[g].plans, job'[g].done = job[g].done,
         job'[g].k \in DOMAIN job[g].plans,
         \A i \in DOMAIN job[g].plans :
           i < job'[g].k => i < job[g].k \/ Held(job[g].plans[i].repo, job[g].plans[i].rev)
  PROVE  PInv'
<1>1. Planned(g) /\ Planned(g)'
  BY DEF PInv, Keeps, Planned
<1>2. ASSUME NEW i \in BehindIt(g)'
      PROVE  Held(job[g].plans[i].repo, job[g].plans[i].rev)'
  <2>1. i \in DOMAIN job[g].plans /\ job'[g].plans[i] = job[g].plans[i]
    BY <1>2 DEF BehindIt
  <2>2. Held(job[g].plans[i].repo, job[g].plans[i].rev)
    BY <1>2, <2>1 DEF PInv, Keeps, BehindIt
  <2>3. job[g].plans[i].repo \in Repos /\ job[g].plans[i].rev \in Revisions(job[g].plans[i].repo)
    BY <1>1, <2>1 DEF Planned
  <2>4. FilesOf[job[g].plans[i].repo][job[g].plans[i].rev] \ taken' \subseteq
          snapshot'[job[g].plans[i].repo][job[g].plans[i].rev].links \cap blobs'
    BY <2>2, <2>3 DEF CacheGrows, Held, Reached, Linked
  <2> QED
    BY <2>1, <2>4 DEF Held, Reached, Linked
<1>3. Keeps(g)'
  BY <1>1, <1>2 DEF Keeps
<1>4. DOMAIN pinned' = Repos /\ PinTyped'
  BY DEF PInv, CacheTyped, PinTyped
<1> QED
  BY <1>3, <1>4, OneMoves

(* What it says at the end of a list of plans.                              *)
AllHeld(g) ==
  \A i \in DOMAIN job[g].plans : Held(job[g].plans[i].repo, job[g].plans[i].rev)

LEMMA AdvanceKeeps ==
  ASSUME PInv, UNCHANGED <<pinned, snapshot, blobs, taken>>, NEW g \in Programs,
         job[g].at # "idle", job' = Advance(g), Held(Current(g).repo, Current(g).rev)
  PROVE  PInv' /\ (job'[g].done => AllHeld(g))
<1>1. CacheGrows
  BY SameCacheGrows
<1>2. Planned(g)
  BY DEF PInv, Keeps
<1>3. CASE job[g].k = Len(job[g].plans)
  <2>1. job' = Ends(g, TRUE)
    BY <1>3 DEF Advance
  <2>2. AllHeld(g)
    <3> SUFFICES ASSUME NEW i \in DOMAIN job[g].plans
                 PROVE  Held(job[g].plans[i].repo, job[g].plans[i].rev)
      BY DEF AllHeld
    <3>1. CASE i = job[g].k
      BY <3>1 DEF Current
    <3>2. CASE i # job[g].k
      <4>1. i < job[g].k
        BY <1>2, <1>3, <3>2 DEF Planned
      <4> QED
        BY <4>1 DEF PInv, Keeps, BehindIt
    <3> QED
      BY <3>1, <3>2
  <2> QED
    BY <1>1, <2>1, <2>2, EndKeeps
<1>4. CASE job[g].k # Len(job[g].plans)
  <2>1. job' = [job EXCEPT ![g].at = "check", ![g].k = @ + 1]
    BY <1>4 DEF Advance
  <2>2. "k" \in DOMAIN job[g] /\ "at" \in DOMAIN job[g]
    BY <1>2 DEF Planned, Idle
  <2>3. /\ DOMAIN job' = Programs /\ \A h \in Programs \ {g} : job'[h] = job[h]
        /\ DOMAIN job'[g] = DOMAIN job[g]
        /\ job'[g].plans = job[g].plans /\ job'[g].done = job[g].done
        /\ job'[g].k = job[g].k + 1
    BY <2>1, <2>2 DEF PInv
  <2>4. job'[g].k \in DOMAIN job[g].plans
    BY <1>2, <1>4, <2>3 DEF Planned
  <2>5. \A i \in DOMAIN job[g].plans :
          i < job'[g].k => i < job[g].k \/ Held(job[g].plans[i].repo, job[g].plans[i].rev)
    <3> SUFFICES ASSUME NEW i \in DOMAIN job[g].plans, i < job'[g].k
                 PROVE  i < job[g].k \/ i = job[g].k
      BY DEF Current
    <3> QED
      BY <1>2, <2>3 DEF Planned
  <2>6. ~job'[g].done
    BY <1>2, <2>3 DEF Planned
  <2> QED
    BY <1>1, <2>3, <2>4, <2>5, <2>6, OnKeeps
<1> QED
  BY <1>3, <1>4

-----------------------------------------------------------------------------
(* One lemma per kind of step: it keeps the invariant, and a pull that says *)
(* it is done has all its plans held.                                       *)
Told == \A g \in Programs : job[g].at # "idle" /\ job'[g].done => AllHeld(g)

LEMMA StepOfOne ==
  ASSUME PInv, NEW g \in Programs, \A h \in Programs \ {g} : job'[h] = job[h],
         job[g].at # "idle" /\ job'[g].done => AllHeld(g)
  PROVE  Told
  BY DEF Told, PInv, Keeps, Planned

LEMMA OfNone ==
  ASSUME PInv, job' = job, CacheGrows, DOMAIN pinned' = Repos, PinTyped'
  PROVE  PInv' /\ Told
<1>1. \A g \in Programs : Keeps(g)'
  BY StillKeeps DEF PInv
<1>2. CacheTyped'
  BY DEF CacheTyped, CacheGrows
<1> QED
  BY <1>1, <1>2 DEF PInv, Told, Keeps, Planned

LEMMA CheckKeeps ==
  ASSUME PInv, NEW g \in Programs, Check(g)
  PROVE  PInv' /\ Told
<1>1. /\ job[g].at = "check" /\ UNCHANGED <<pinned, snapshot, blobs, taken>>
      /\ \/ Current(g).complete /\ job' = Advance(g)
         \/ job' = Ends(g, FALSE)
         \/ job' = [job EXCEPT ![g].at = "fetch", ![g].own = {},
                               ![g].todo = FilesOf[Current(g).repo][Current(g).rev]]
  BY DEF Check, disk, store
<1>2. CacheGrows /\ Planned(g)
  BY <1>1, SameCacheGrows DEF PInv, Keeps
<1>3. \A h \in Programs \ {g} : job'[h] = job[h]
  BY <1>1 DEF Advance, Ends, PInv
<1>4. CASE Current(g).complete /\ job' = Advance(g)
  <2>1. Held(Current(g).repo, Current(g).rev)
    BY <1>1, <1>2, <1>4 DEF PInv, Keeps, BehindIt, Current, Planned
  <2> QED
    BY <1>1, <1>3, <1>4, <2>1, AdvanceKeeps, StepOfOne
<1>5. CASE job' = Ends(g, FALSE)
  BY <1>1, <1>2, <1>3, <1>5, EndKeeps, StepOfOne
<1>6. CASE job' = [job EXCEPT ![g].at = "fetch", ![g].own = {},
                              ![g].todo = FilesOf[Current(g).repo][Current(g).rev]]
  <2>1. /\ DOMAIN job' = Programs /\ DOMAIN job'[g] = DOMAIN job[g]
        /\ job'[g].plans = job[g].plans /\ job'[g].done = job[g].done /\ job'[g].k = job[g].k
    BY <1>6 DEF PInv
  <2>2. job'[g].k \in DOMAIN job[g].plans /\ ~job'[g].done
    BY <1>2, <2>1 DEF Planned
  <2> QED
    BY <1>1, <1>2, <1>3, <2>1, <2>2, OnKeeps, StepOfOne
<1> QED
  BY <1>1, <1>4, <1>5, <1>6

LEMMA FetchGrows ==
  ASSUME PInv, NEW g \in Programs, NEW f \in Files, Fetch(g, f)
  PROVE  CacheGrows
<1> DEFINE r == Current(g).repo
           rev == Current(g).rev
<1>1. snapshot' = [snapshot EXCEPT ![r][rev] = [made |-> TRUE, links |-> @.links \cup {f}]]
  BY DEF Fetch
<1>2. blobs' = blobs \cup {f} /\ taken' = taken /\ job[g].at # "idle"
  BY DEF Fetch, store
<1>3. r \in Repos /\ rev \in Revisions(r)
  BY <1>2 DEF PInv, Keeps, Planned, Current
<1>4. snapshot[r] \in [Revisions(r) -> Entry] /\ DOMAIN snapshot = Repos
  BY <1>3 DEF PInv, CacheTyped
<1> HIDE DEF r, rev
<1>5. snapshot'[r] = [snapshot[r] EXCEPT ![rev] = [made |-> TRUE, links |-> @.links \cup {f}]]
  BY <1>1, <1>3, <1>4
<1>6. \A q \in Repos \ {r} : snapshot'[q] = snapshot[q]
  BY <1>1
<1>7. DOMAIN snapshot' = Repos
  BY <1>1, <1>4
<1>8. [made |-> TRUE, links |-> snapshot[r][rev].links \cup {f}] \in Entry
  BY <1>3, <1>4 DEF Entry
<1>9. snapshot'[r] \in [Revisions(r) -> Entry]
  BY <1>4, <1>5, <1>8
<1>10. \A v \in Revisions(r) : snapshot[r][v].links \subseteq snapshot'[r][v].links
  BY <1>3, <1>4, <1>5
<1> QED
  BY <1>2, <1>6, <1>7, <1>9, <1>10 DEF CacheGrows, PInv, CacheTyped

LEMMA FetchKeeps ==
  ASSUME PInv, NEW g \in Programs, NEW f \in Files, Fetch(g, f)
  PROVE  PInv' /\ Told
<1>1. job[g].at # "idle" /\ pinned' = pinned
  BY DEF Fetch
<1>2. /\ \A h \in Programs \ {g} : job'[h] = job[h]
      /\ DOMAIN job' = Programs /\ DOMAIN job'[g] = DOMAIN job[g]
      /\ job'[g].plans = job[g].plans /\ job'[g].done = job[g].done /\ job'[g].k = job[g].k
  BY DEF Fetch, PInv
<1>3. CacheGrows
  BY FetchGrows
<1>4. job'[g].k \in DOMAIN job[g].plans /\ ~job'[g].done
  BY <1>1, <1>2 DEF PInv, Keeps, Planned
<1> QED
  BY <1>1, <1>2, <1>3, <1>4, OnKeeps, StepOfOne

LEMMA ReturnKeeps ==
  ASSUME PInv, NEW g \in Programs, Return(g)
  PROVE  PInv' /\ Told
<1>1. /\ job[g].at # "idle" /\ UNCHANGED <<pinned, snapshot, blobs, taken>>
      /\ job' = [job EXCEPT ![g].at = "verify", ![g].todo = {}]
  BY DEF Return, disk, store
<1>2. /\ \A h \in Programs \ {g} : job'[h] = job[h]
      /\ DOMAIN job' = Programs /\ DOMAIN job'[g] = DOMAIN job[g]
      /\ job'[g].plans = job[g].plans /\ job'[g].done = job[g].done /\ job'[g].k = job[g].k
  BY <1>1 DEF PInv
<1>3. job'[g].k \in DOMAIN job[g].plans /\ ~job'[g].done
  BY <1>1, <1>2 DEF PInv, Keeps, Planned
<1> QED
  BY <1>1, <1>2, <1>3, SameCacheGrows, OnKeeps, StepOfOne

LEMMA VerifyKeeps ==
  ASSUME PInv, NEW g \in Programs, Verify(g)
  PROVE  PInv' /\ Told
<1>1. /\ job[g].at # "idle" /\ UNCHANGED <<pinned, snapshot, blobs, taken>>
      /\ \/ Complete(Current(g).repo, Current(g).rev) /\ job' = Advance(g)
         \/ job' = Ends(g, FALSE)
  BY DEF Verify, disk, store
<1>2. \A h \in Programs \ {g} : job'[h] = job[h]
  BY <1>1 DEF Advance, Ends, PInv
<1>3. CASE Complete(Current(g).repo, Current(g).rev) /\ job' = Advance(g)
  BY <1>1, <1>2, <1>3, CompleteHolds, AdvanceKeeps, StepOfOne
<1>4. CASE job' = Ends(g, FALSE)
  BY <1>1, <1>2, <1>4, SameCacheGrows, EndKeeps, StepOfOne
<1> QED
  BY <1>1, <1>3, <1>4

LEMMA StopKeeps ==
  ASSUME PInv, NEW g \in Programs, NoRoom(g) \/ Break(g)
  PROVE  PInv' /\ Told
<1>1. job' = Ends(g, FALSE) /\ UNCHANGED <<pinned, snapshot, blobs, taken>>
  BY DEF NoRoom, Break, disk, store
<1>2. \A h \in Programs \ {g} : job'[h] = job[h]
  BY <1>1 DEF Ends, PInv
<1> QED
  BY <1>1, <1>2, SameCacheGrows, EndKeeps, StepOfOne

(* The store, other programs, humans, environments and profiles.            *)
LEMMA RestKeeps ==
  ASSUME PInv,
         \/ PlanStore \/ Fill \/ Vacate \/ \E b \in Files : Quarantine(b)
         \/ \E r \in Repos : \E rev \in Revisions(r) : Pin(r, rev)
         \/ \E e \in Envs : Declare(e) \/ Sync(e) \/ LoseVenv(e)
         \/ \E v \in Variants : Bench(v)
         \/ UNCHANGED vars
  PROVE  PInv' /\ Told
<1>1. DOMAIN pinned = Repos /\ PinTyped
  BY DEF PInv, CacheTyped
<1>2. job' = job
  BY DEF PlanStore, Fill, Vacate, Quarantine, Pin, Declare, Sync, LoseVenv, Bench, vars
<1>3. DOMAIN pinned' = Repos /\ PinTyped'
  <2>1. CASE \E r \in Repos : \E rev \in Revisions(r) : Pin(r, rev)
    BY <1>1, <2>1 DEF Pin, PinTyped
  <2>2. CASE ~\E r \in Repos : \E rev \in Revisions(r) : Pin(r, rev)
    <3>1. pinned' = pinned
      BY <2>2 DEF PlanStore, Fill, Vacate, Quarantine, Declare, Sync, LoseVenv, Bench, vars
    <3> QED
      BY <1>1, <3>1 DEF PinTyped
  <2> QED
    BY <2>1, <2>2
<1>4. CacheGrows
  <2>1. ASSUME NEW b \in Files, Quarantine(b) PROVE CacheGrows
    BY <2>1 DEF Quarantine, CacheGrows, PInv, CacheTyped
  <2>2. CASE ~\E b \in Files : Quarantine(b)
    <3>1. UNCHANGED <<snapshot, blobs, taken>>
      BY <2>2 DEF PlanStore, Fill, Vacate, Pin, Declare, Sync, LoseVenv, Bench, vars, disk, store
    <3> QED
      BY <3>1, SameCacheGrows
  <2> QED
    BY <2>1, <2>2
<1> QED
  BY <1>2, <1>3, <1>4, OfNone

LEMMA NextPInv == PInv /\ [Next]_vars => PInv' /\ Told
<1> SUFFICES ASSUME PInv, [Next]_vars PROVE PInv' /\ Told
  OBVIOUS
<1>1. ASSUME NEW g \in Programs, Pull(g) \/ Break(g) PROVE PInv' /\ Told
  BY <1>1, CheckKeeps, ReturnKeeps, VerifyKeeps, StopKeeps, FetchKeeps DEF Pull
<1>2. ASSUME NEW g \in Programs, NEW v \in Variants, NEW force \in BOOLEAN, NEW ignore \in BOOLEAN,
             Begin(g, v, force, ignore)
      PROVE  PInv' /\ Told
  <2>1. \A h \in Programs \ {g} : job'[h] = job[h]
    BY <1>2 DEF Begin, PInv
  <2> QED
    BY <1>2, <2>1, BeginKeeps, StepOfOne
<1> QED
  BY <1>1, <1>2, RestKeeps DEF Next

(* Whatever is interrupted, lost, thrown away, written or pinned meanwhile, *)
(* in any number of terminals: a pull that says it is done left every file  *)
(* of every source at the revision it planned, but for those the store      *)
(* threw away (pull.py, run_pulls and run_pull).                            *)
THEOREM PullsAreHonest == Spec => PullHonest
<1>1. PInv /\ Told => \A g \in Programs : job[g].at # "idle" /\ job'[g].done =>
        \A i \in DOMAIN job[g].plans :
          LET p == job[g].plans[i]
          IN  FilesOf[p.repo][p.rev] \ taken \subseteq Reached(p.repo, p.rev)
  BY DEF Told, AllHeld, Held
<1> QED
  BY <1>1, InitPInv, NextPInv, PTL DEF Spec, PullHonest

-----------------------------------------------------------------------------
(* The guard of the disk. What a plan lists as missing is all that its pull *)
(* can write, but for what the store threw away; and as long as the pull is *)
(* on its way, what is free and what was written since it planned together  *)
(* never shrink.                                                            *)
DiskTyped ==
  /\ blobs \subseteq Files /\ other \in Nat /\ spent \in [Programs -> Nat]
  /\ Free >= 0 /\ doomed \cap taken = {}

LinksTyped ==
  \A r \in Repos : \A rev \in Revisions(r) :
    /\ snapshot[r][rev].links \subseteq FilesOf[r][rev]
    /\ snapshot[r][rev].made = (snapshot[r][rev].links # {})

Sound(p, had, room) ==
  /\ p.missing \subseteq FilesOf[p.repo][p.rev]
  /\ FilesOf[p.repo][p.rev] \ p.missing \subseteq had
  /\ p.fits => room - SizeOf(p.missing) >= MinFree

Guarded(g) ==
  job[g].at # "idle" =>
    /\ \A i \in DOMAIN job[g].plans : Sound(job[g].plans[i], blobs \cup taken, Free + spent[g])
    /\ job[g].at \in {"fetch", "verify"} =>
         /\ job[g].ignore \/ Current(g).fits
         /\ job[g].todo \subseteq FilesOf[Current(g).repo][Current(g).rev]
         /\ job[g].own \subseteq Current(g).missing \cup taken

GInv == DiskTyped /\ LinksTyped /\ \A g \in Programs : Guarded(g)

LEMMA SizeIs == \A S : SizeOf(S) = SumBy(Size, S)
  BY DEF SizeOf, SumBy

LEMMA SizeNat ==
  ASSUME NEW S, S \subseteq Files
  PROVE  SizeOf(S) \in Nat /\ IsFiniteSet(S)
<1>1. IsFiniteSet(S) /\ \A f \in S : Size[f] \in Nat
  BY ProvisionAssumption, FS_Subset DEF Files
<1> QED
  BY <1>1, SizeIs, SumNat

LEMMA SizeGrows ==
  ASSUME NEW T, T \subseteq Files, NEW S, S \subseteq T
  PROVE  SizeOf(S) <= SizeOf(T)
<1>1. IsFiniteSet(T) /\ \A f \in T : Size[f] \in Nat
  BY ProvisionAssumption, FS_Subset DEF Files
<1> QED
  BY <1>1, SizeIs, SumGrows

LEMMA SizeLoses ==
  ASSUME NEW S, S \subseteq Files, NEW f \in S
  PROVE  SizeOf(S) = Size[f] + SizeOf(S \ {f})
<1>1. IsFiniteSet(S) /\ \A x \in S : Size[x] \in Nat
  BY ProvisionAssumption, FS_Subset DEF Files
<1> QED
  BY <1>1, SizeIs, SumTake

LEMMA SizeAdds ==
  ASSUME NEW S, S \subseteq Files, NEW f \in Files
  PROVE  SizeOf(S \cup {f}) = SizeOf(S) + SizeOf({f} \ S)
<1>1. SizeOf({}) = 0
  BY SizeIs, SumEmpty
<1>2. SizeOf(S) \in Nat /\ Size[f] \in Nat
  BY SizeNat, ProvisionAssumption DEF Files
<1>3. CASE f \in S
  <2>1. S \cup {f} = S /\ {f} \ S = {}
    BY <1>3
  <2> QED
    BY <2>1, <1>1, <1>2
<1>4. CASE f \notin S
  <2>1. SizeOf({f}) = Size[f]
    <3>1. SizeOf({f}) = Size[f] + SizeOf({f} \ {f})
      BY SizeLoses
    <3>2. {f} \ {f} = {}
      OBVIOUS
    <3> QED
      BY <3>1, <3>2, <1>1, <1>2
  <2>2. SizeOf(S \cup {f}) = Size[f] + SizeOf((S \cup {f}) \ {f})
    <3> f \in S \cup {f} /\ S \cup {f} \subseteq Files
      OBVIOUS
    <3> QED
      BY SizeLoses
  <2>3. (S \cup {f}) \ {f} = S /\ {f} \ S = {f}
    BY <1>4
  <2> QED
    BY <2>1, <2>2, <2>3, <1>2
<1> QED
  BY <1>3, <1>4

LEMMA FreeIs ==
  ASSUME DiskTyped
  PROVE  Free \in Int /\ SizeOf(blobs) \in Nat /\ Free = Total - other - SizeOf(blobs)
<1>1. SizeOf(blobs) \in Nat
  BY SizeNat DEF DiskTyped
<1> QED
  BY <1>1, ProvisionAssumption DEF DiskTyped, Free

FreeInt == Free \in Int

LEMMA FreeIsInt == DiskTyped => FreeInt
  BY FreeIs DEF FreeInt

LEMMA FreeIntNext == DiskTyped' => FreeInt'
  BY FreeIsInt, PTL

-----------------------------------------------------------------------------
(* What every step does to the volume. *)
RoomGrows ==
  /\ DiskTyped'
  /\ blobs \cup taken \subseteq blobs' \cup taken'
  /\ \A g \in Programs : job[g].at # "idle" => Free + spent[g] <= Free' + spent'[g]

LEMMA FetchRoom ==
  ASSUME DiskTyped, NEW g \in Programs, NEW f \in Files, Fetch(g, f)
  PROVE  RoomGrows
<1> DEFINE new == {f} \ blobs
<1>1. /\ SizeOf(new) <= Free /\ blobs' = blobs \cup {f} /\ UNCHANGED <<other, doomed, taken>>
      /\ spent' = [h \in Programs |-> IF job[h].at = "idle" THEN 0 ELSE spent[h] + SizeOf(new)]
  BY DEF Fetch, store
<1>2. SizeOf(blobs') = SizeOf(blobs) + SizeOf(new)
  BY <1>1, SizeAdds DEF DiskTyped
<1>3. SizeOf(new) \in Nat
  <2>1. new \subseteq Files
    OBVIOUS
  <2> QED
    BY <2>1, SizeNat
<1>4. Free' = Total - other' - SizeOf(blobs')
  BY DEF Free
<1> HIDE DEF new
<1>5. Free' = Free - SizeOf(new) /\ Free \in Int
  BY <1>1, <1>2, <1>3, <1>4, FreeIs, ProvisionAssumption DEF DiskTyped
<1>6. \A h \in Programs : spent'[h] = IF job[h].at = "idle" THEN 0 ELSE spent[h] + SizeOf(new)
  BY <1>1
<1>7. spent' \in [Programs -> Nat]
  <2>1. \A h \in Programs : (IF job[h].at = "idle" THEN 0 ELSE spent[h] + SizeOf(new)) \in Nat
    BY <1>3 DEF DiskTyped
  <2> QED
    BY <1>1, <2>1
<1>8. DiskTyped'
  BY <1>1, <1>3, <1>5, <1>7 DEF DiskTyped
<1>9. \A h \in Programs : job[h].at # "idle" => Free + spent[h] <= Free' + spent'[h]
  BY <1>3, <1>5, <1>6 DEF DiskTyped
<1> QED
  BY <1>1, <1>8, <1>9 DEF RoomGrows

LEMMA FillRoom ==
  ASSUME DiskTyped, Fill
  PROVE  RoomGrows
<1>1. /\ Free > 0 /\ other' = other + 1 /\ UNCHANGED <<blobs, doomed, taken>>
      /\ spent' = [h \in Programs |-> IF job[h].at = "idle" THEN 0 ELSE spent[h] + 1]
  BY DEF Fill, store
<1>2. Free' = Free - 1 /\ Free \in Int
  BY <1>1, FreeIs, ProvisionAssumption DEF DiskTyped, Free
<1>3. spent' \in [Programs -> Nat]
  <2>1. \A h \in Programs : (IF job[h].at = "idle" THEN 0 ELSE spent[h] + 1) \in Nat
    BY DEF DiskTyped
  <2> QED
    BY <1>1, <2>1
<1>4. DiskTyped'
  BY <1>1, <1>2, <1>3 DEF DiskTyped
<1>5. \A h \in Programs : job[h].at # "idle" => Free + spent[h] <= Free' + spent'[h]
  BY <1>1, <1>2 DEF DiskTyped
<1> QED
  BY <1>1, <1>4, <1>5 DEF RoomGrows

LEMMA VacateRoom ==
  ASSUME DiskTyped, Vacate
  PROVE  RoomGrows
<1>1. other' = 0 /\ UNCHANGED <<blobs, doomed, taken, spent>>
  BY DEF Vacate, store
<1>2. Free' = Free + other /\ Free \in Int
  BY <1>1, FreeIs, ProvisionAssumption DEF DiskTyped, Free
<1> QED
  BY <1>1, <1>2 DEF DiskTyped, RoomGrows

(* The trash is on the same volume: quarantine frees nothing. *)
LEMMA QuarantineRoom ==
  ASSUME DiskTyped, NEW b \in Files, Quarantine(b)
  PROVE  RoomGrows
<1>1. /\ b \in doomed \cap blobs /\ blobs' = blobs \ {b} /\ other' = other + Size[b]
      /\ doomed' = doomed \ {b} /\ taken' = taken \cup {b} /\ spent' = spent
  BY DEF Quarantine
<1>2. SizeOf(blobs) = Size[b] + SizeOf(blobs')
  BY <1>1, SizeLoses DEF DiskTyped
<1>3. Size[b] \in Nat /\ SizeOf(blobs') \in Nat
  BY <1>1, SizeNat, ProvisionAssumption DEF DiskTyped, Files
<1>4. Free' = Total - other' - SizeOf(blobs')
  BY DEF Free
<1>5. Free' = Free /\ Free \in Int
  BY <1>1, <1>2, <1>3, <1>4, FreeIs, ProvisionAssumption DEF DiskTyped
<1>6. DiskTyped'
  BY <1>1, <1>3, <1>5 DEF DiskTyped
<1> QED
  BY <1>1, <1>5, <1>6 DEF DiskTyped, RoomGrows

(* The other steps write nothing; a pull that begins had nothing to keep. *)
LEMMA RestRoom ==
  ASSUME DiskTyped, UNCHANGED <<blobs, other, taken>>,
         spent' \in [Programs -> Nat],
         doomed' = doomed \/ doomed' \cap taken = {},
         \A g \in Programs : spent'[g] = spent[g] \/ job[g].at = "idle"
  PROVE  RoomGrows
<1>1. Free' = Free /\ Free \in Int
  BY FreeIs DEF Free
<1> QED
  BY <1>1 DEF DiskTyped, RoomGrows

LEMMA NextRoom ==
  ASSUME DiskTyped, [Next]_vars
  PROVE  RoomGrows
<1>1. ASSUME NEW g \in Programs, Check(g) \/ Return(g) \/ Verify(g) \/ NoRoom(g) \/ Break(g)
      PROVE  RoomGrows
  <2>1. UNCHANGED <<blobs, other, taken, doomed, spent>>
    BY <1>1 DEF Check, Return, Verify, NoRoom, Break, disk, store
  <2> QED
    BY <2>1, RestRoom DEF DiskTyped
<1>2. ASSUME NEW g \in Programs, NEW v \in Variants, NEW force \in BOOLEAN, NEW ignore \in BOOLEAN,
             Begin(g, v, force, ignore)
      PROVE  RoomGrows
  <2>1. /\ UNCHANGED <<blobs, other, taken, doomed>> /\ job[g].at = "idle"
        /\ spent' = [spent EXCEPT ![g] = 0]
    BY <1>2 DEF Begin, disk, store
  <2>2. spent' \in [Programs -> Nat] /\ \A h \in Programs : spent'[h] = spent[h] \/ job[h].at = "idle"
    BY <2>1 DEF DiskTyped
  <2> QED
    BY <2>1, <2>2, RestRoom
<1>3. CASE PlanStore
  BY <1>3, RestRoom DEF PlanStore, disk, DiskTyped
<1>4. ASSUME \/ \E r \in Repos : \E rev \in Revisions(r) : Pin(r, rev)
             \/ \E e \in Envs : Declare(e) \/ Sync(e) \/ LoseVenv(e)
             \/ \E v \in Variants : Bench(v)
             \/ UNCHANGED vars
      PROVE  RoomGrows
  <2>1. UNCHANGED <<blobs, other, taken, doomed, spent>>
    BY <1>4 DEF Pin, Declare, Sync, LoseVenv, Bench, vars, disk, store
  <2> QED
    BY <2>1, RestRoom DEF DiskTyped
<1> QED
  BY <1>1, <1>2, <1>3, <1>4, FetchRoom, FillRoom, VacateRoom, QuarantineRoom DEF Next, Pull

-----------------------------------------------------------------------------
(* Every step keeps what the plans of a pull promise. *)
LEMMA PlanFiles ==
  ASSUME PInv, NEW g \in Programs, job[g].at # "idle", NEW i \in DOMAIN job[g].plans
  PROVE  FilesOf[job[g].plans[i].repo][job[g].plans[i].rev] \subseteq Files
  BY ProvisionAssumption DEF PInv, Keeps, Planned

LEMMA SoundStays ==
  ASSUME NEW p, FilesOf[p.repo][p.rev] \subseteq Files,
         NEW had, NEW room \in Int, Sound(p, had, room),
         NEW more, had \subseteq more, NEW larger \in Int, room <= larger
  PROVE  Sound(p, more, larger)
<1>1. SizeOf(p.missing) \in Nat
  BY SizeNat DEF Sound
<1> QED
  BY <1>1, ProvisionAssumption DEF Sound

LEMMA SoundReserves ==
  ASSUME NEW p, NEW had, NEW room, Sound(p, had, room), p.fits
  PROVE  room - SizeOf(p.missing) >= MinFree
  BY DEF Sound

LEMMA PlansStay ==
  ASSUME PInv, GInv, RoomGrows, NEW g \in Programs, job[g].at # "idle"
  PROVE  \A i \in DOMAIN job[g].plans :
           Sound(job[g].plans[i], blobs' \cup taken', Free' + spent'[g])
<1> SUFFICES ASSUME NEW i \in DOMAIN job[g].plans
             PROVE  Sound(job[g].plans[i], blobs' \cup taken', Free' + spent'[g])
  OBVIOUS
<1>1. Sound(job[g].plans[i], blobs \cup taken, Free + spent[g])
  BY DEF GInv, Guarded
<1>2. Free + spent[g] \in Int
  BY FreeIs DEF GInv, DiskTyped
<1>3. Free' + spent'[g] \in Int
  BY FreeIntNext DEF FreeInt, RoomGrows, DiskTyped
<1>4. Free + spent[g] <= Free' + spent'[g] /\ blobs \cup taken \subseteq blobs' \cup taken'
  BY DEF RoomGrows
<1>5. FilesOf[job[g].plans[i].repo][job[g].plans[i].rev] \subseteq Files
  BY PlanFiles
<1> DEFINE had == blobs \cup taken
           more == blobs' \cup taken'
           room == Free + spent[g]
           larger == Free' + spent'[g]
           p == job[g].plans[i]
<1> HIDE DEF had, more, room, larger, p
<1>6. Sound(p, more, larger)
  BY <1>1, <1>2, <1>3, <1>4, <1>5, SoundStays DEF had, more, room, larger, p
<1> QED
  BY <1>6 DEF more, larger, p

(* A pull that does not move, and one that goes on with the same plans. *)
LEMMA OnGuarded ==
  ASSUME PInv, GInv, RoomGrows, NEW g \in Programs, job[g].at # "idle",
         job'[g].plans = job[g].plans,
         job'[g].at \in {"fetch", "verify"} =>
           /\ job[g].ignore \/ Current(g).fits
           /\ job'[g].ignore = job[g].ignore /\ job'[g].k = job[g].k
           /\ job'[g].todo \subseteq FilesOf[Current(g).repo][Current(g).rev]
           /\ job'[g].own \subseteq Current(g).missing \cup taken'
  PROVE  Guarded(g)'
<1>1. \A i \in DOMAIN job[g].plans :
        Sound(job[g].plans[i], blobs' \cup taken', Free' + spent'[g])
  BY PlansStay
<1>2. \A i \in DOMAIN job'[g].plans : Sound(job[g].plans[i], blobs \cup taken, Free + spent[g])'
  BY <1>1 DEF Sound
<1>3. job'[g].at \in {"fetch", "verify"} => Current(g)' = Current(g)
  BY DEF Current
<1>4. job'[g].at \in {"fetch", "verify"} =>
        /\ job'[g].ignore \/ Current(g)'.fits
        /\ job'[g].todo \subseteq FilesOf[Current(g)'.repo][Current(g)'.rev]
        /\ job'[g].own \subseteq Current(g)'.missing \cup taken'
  BY <1>3
<1> QED
  BY <1>2, <1>4 DEF Guarded

LEMMA StillGuarded ==
  ASSUME PInv, GInv, RoomGrows, NEW g \in Programs, job'[g] = job[g], taken \subseteq taken'
  PROVE  Guarded(g)'
<1>1. CASE job[g].at = "idle"
  BY <1>1 DEF Guarded
<1>2. CASE job[g].at # "idle"
  BY <1>2, OnGuarded DEF GInv, Guarded
<1> QED
  BY <1>1, <1>2

(* One pull at most moves. *)
Others(h) == \A g \in Programs \ {h} : job'[g] = job[g]

LEMMA OneGuarded ==
  ASSUME PInv, GInv, RoomGrows, LinksTyped', taken \subseteq taken', NEW h, Others(h),
         h \in Programs => Guarded(h)'
  PROVE  GInv'
<1>1. ASSUME NEW g \in Programs PROVE Guarded(g)'
  BY StillGuarded DEF Others
<1> QED
  BY <1>1 DEF GInv, RoomGrows

LEMMA LinksStay ==
  ASSUME LinksTyped, snapshot' = snapshot
  PROVE  LinksTyped'
  BY DEF LinksTyped

(* Of what it has not, a pull lists all as missing. *)
LEMMA PlanIsSound ==
  ASSUME PInv, DiskTyped, NEW r \in Repos, pinned[r] # Floating
  PROVE  Sound(PlanOf(r), blobs \cup taken, Free)
<1>1. /\ PlanOf(r).repo = r /\ PlanOf(r).rev = pinned[r]
      /\ PlanOf(r).missing = Missing(r, pinned[r])
      /\ PlanOf(r).fits = GuardOk(SizeOf(Missing(r, pinned[r])))
  BY DEF PlanOf
<1>2. /\ Missing(r, pinned[r]) \subseteq FilesOf[r][pinned[r]]
      /\ FilesOf[r][pinned[r]] \ Missing(r, pinned[r]) \subseteq blobs
  BY DEF Missing, Reached
<1> QED
  BY <1>1, <1>2 DEF Sound, GuardOk

LEMMA BeginGuarded ==
  ASSUME PInv, GInv, RoomGrows, NEW g \in Programs, NEW v \in Variants,
         NEW force \in BOOLEAN, NEW ignore \in BOOLEAN, Begin(g, v, force, ignore)
  PROVE  GInv'
<1> DEFINE repos == SourcesOf[v]
<1>1. /\ job' = [job EXCEPT ![g] =
                   [Idle EXCEPT !.at = "check", !.force = force, !.ignore = ignore,
                                !.plans = [i \in DOMAIN repos |-> PlanOf(repos[i])]]]
      /\ spent' = [spent EXCEPT ![g] = 0]
      /\ UNCHANGED <<snapshot, blobs, other, taken>>
      /\ \A i \in DOMAIN repos : pinned[repos[i]] # Floating
  BY DEF Begin, disk, store
<1>2. /\ job'[g].at = "check" /\ job'[g].plans = [i \in DOMAIN repos |-> PlanOf(repos[i])]
      /\ Others(g)
  BY <1>1 DEF Others, PInv, Idle
<1>3. spent'[g] = 0 /\ Free' = Free /\ Free \in Int
  BY <1>1, FreeIs DEF GInv, DiskTyped, Free
<1>4. \A i \in DOMAIN repos : Sound(PlanOf(repos[i]), blobs \cup taken, Free)
  <2> TAKE i \in DOMAIN repos
  <2>1. repos[i] \in Repos
    BY ProvisionAssumption, ElementOfSeq, LenProperties
  <2> QED
    BY <1>1, <2>1, PlanIsSound DEF GInv
<1>5. ASSUME NEW i \in DOMAIN job'[g].plans
      PROVE  Sound(job[g].plans[i], blobs \cup taken, Free + spent[g])'
  <2>1. job'[g].plans[i] = PlanOf(repos[i]) /\ i \in DOMAIN repos
    BY <1>2
  <2>2. Free' + spent'[g] = Free /\ blobs' \cup taken' = blobs \cup taken
    BY <1>1, <1>3
  <2>3. Sound(PlanOf(repos[i]), blobs \cup taken, Free)
    BY <1>4, <2>1
  <2> DEFINE p == PlanOf(repos[i])
  <2> HIDE DEF p, repos
  <2>4. Sound(p, blobs' \cup taken', Free' + spent'[g])
    BY <2>2, <2>3 DEF p
  <2>5. job'[g].plans[i] = p
    BY <2>1 DEF p
  <2> QED
    BY <2>4, <2>5 DEF Sound
<1>6. Guarded(g)'
  BY <1>2, <1>5 DEF Guarded
<1> QED
  BY <1>1, <1>2, <1>6, LinksStay, OneGuarded DEF GInv

LEMMA EndGuarded ==
  ASSUME PInv, GInv, RoomGrows, NEW g \in Programs, NEW done \in BOOLEAN, job' = Ends(g, done),
         UNCHANGED <<snapshot, taken>>
  PROVE  GInv'
<1>1. job'[g].at = "idle" /\ Others(g)
  BY DEF Ends, Idle, Others, PInv
<1>2. Guarded(g)'
  BY <1>1 DEF Guarded
<1> QED
  BY <1>1, <1>2, LinksStay, OneGuarded DEF GInv

LEMMA AdvanceGuarded ==
  ASSUME PInv, GInv, RoomGrows, NEW g \in Programs, job[g].at # "idle", job' = Advance(g),
         UNCHANGED <<snapshot, taken>>
  PROVE  GInv'
<1>1. CASE job[g].k = Len(job[g].plans)
  BY <1>1, EndGuarded DEF Advance
<1>2. CASE job[g].k # Len(job[g].plans)
  <2>1. job' = [job EXCEPT ![g].at = "check", ![g].k = @ + 1]
    BY <1>2 DEF Advance
  <2>2. DOMAIN job[g] = DOMAIN Idle
    BY DEF PInv, Keeps, Planned
  <2>3. job'[g].at = "check" /\ job'[g].plans = job[g].plans /\ Others(g)
    BY <2>1, <2>2 DEF PInv, Others, Idle
  <2>4. Guarded(g)'
    BY <2>3, OnGuarded
  <2> QED
    BY <2>3, <2>4, LinksStay, OneGuarded DEF GInv
<1> QED
  BY <1>1, <1>2

LEMMA CheckGuarded ==
  ASSUME PInv, GInv, RoomGrows, NEW g \in Programs, Check(g)
  PROVE  GInv'
<1>1. /\ job[g].at = "check" /\ UNCHANGED <<snapshot, taken>>
      /\ \/ job' = Advance(g)
         \/ job' = Ends(g, FALSE)
         \/ /\ Current(g).fits \/ job[g].ignore
            /\ job' = [job EXCEPT ![g].at = "fetch", ![g].own = {},
                                  ![g].todo = FilesOf[Current(g).repo][Current(g).rev]]
  BY DEF Check, disk, store
<1>2. CASE job' = Advance(g)
  BY <1>1, <1>2, AdvanceGuarded
<1>3. CASE job' = Ends(g, FALSE)
  BY <1>1, <1>3, EndGuarded
<1>4. CASE /\ Current(g).fits \/ job[g].ignore
           /\ job' = [job EXCEPT ![g].at = "fetch", ![g].own = {},
                                 ![g].todo = FilesOf[Current(g).repo][Current(g).rev]]
  <2>1. DOMAIN job[g] = DOMAIN Idle
    BY <1>1 DEF PInv, Keeps, Planned
  <2>2. /\ job'[g].plans = job[g].plans /\ job'[g].ignore = job[g].ignore /\ job'[g].k = job[g].k
        /\ job'[g].own = {} /\ job'[g].todo = FilesOf[Current(g).repo][Current(g).rev]
        /\ Others(g)
    BY <1>4, <2>1 DEF PInv, Others, Idle
  <2>3. Guarded(g)'
    BY <1>1, <1>4, <2>2, OnGuarded
  <2> QED
    BY <1>1, <2>2, <2>3, LinksStay, OneGuarded DEF GInv
<1> QED
  BY <1>1, <1>2, <1>3, <1>4

(* It writes only what its plan misses, or what was thrown away since. *)
LEMMA FetchGuarded ==
  ASSUME PInv, GInv, RoomGrows, NEW g \in Programs, NEW f \in Files, Fetch(g, f)
  PROVE  GInv'
<1> DEFINE new == {f} \ blobs
           r == Current(g).repo
           rev == Current(g).rev
<1>1. /\ job[g].at = "fetch" /\ f \in job[g].todo /\ taken' = taken
      /\ job' = [job EXCEPT ![g].todo = @ \ {f}, ![g].own = @ \cup new]
      /\ snapshot' = [snapshot EXCEPT ![r][rev] = [made |-> TRUE, links |-> @.links \cup {f}]]
  BY DEF Fetch, store
<1>2. Planned(g) /\ DOMAIN job[g] = DOMAIN Idle /\ job[g].k \in DOMAIN job[g].plans
  BY <1>1 DEF PInv, Keeps, Planned
<1>3. /\ job'[g].at = "fetch" /\ job'[g].plans = job[g].plans /\ job'[g].k = job[g].k
      /\ job'[g].ignore = job[g].ignore
      /\ job'[g].todo = job[g].todo \ {f} /\ job'[g].own = job[g].own \cup new /\ Others(g)
  BY <1>1, <1>2 DEF PInv, Others, Idle
<1>4. /\ job[g].ignore \/ Current(g).fits
      /\ job[g].todo \subseteq FilesOf[r][rev]
      /\ job[g].own \subseteq Current(g).missing \cup taken
      /\ Sound(Current(g), blobs \cup taken, Free + spent[g])
  BY <1>1, <1>2 DEF GInv, Guarded, Current
<1>5. new \subseteq Current(g).missing \cup taken
  BY <1>1, <1>4 DEF Sound
<1>6. Guarded(g)'
  <2> HIDE DEF new
  <2> QED
    BY <1>1, <1>3, <1>4, <1>5, OnGuarded
<1>7. LinksTyped'
  <2>1. r \in Repos /\ rev \in Revisions(r) /\ DOMAIN snapshot = Repos
    BY <1>2 DEF Planned, Current, PInv, CacheTyped
  <2>2. snapshot[r] \in [Revisions(r) -> Entry]
    BY <2>1 DEF PInv, CacheTyped
  <2>3. f \in FilesOf[r][rev]
    BY <1>1, <1>4
  <2> HIDE DEF r, rev
  <2>4. snapshot'[r] = [snapshot[r] EXCEPT ![rev] = [made |-> TRUE, links |-> @.links \cup {f}]]
    BY <1>1, <2>1
  <2>5. \A q \in Repos \ {r} : snapshot'[q] = snapshot[q]
    BY <1>1, <2>1
  <2>6. /\ snapshot'[r][rev].made = TRUE
        /\ snapshot'[r][rev].links = snapshot[r][rev].links \cup {f}
    BY <2>1, <2>2, <2>4
  <2>7. \A w \in Revisions(r) \ {rev} : snapshot'[r][w] = snapshot[r][w]
    BY <2>2, <2>4
  <2>8. ASSUME NEW q \in Repos, NEW w \in Revisions(q)
        PROVE  /\ snapshot'[q][w].links \subseteq FilesOf[q][w]
               /\ snapshot'[q][w].made = (snapshot'[q][w].links # {})
    <3>1. CASE q = r /\ w = rev
      BY <2>1, <2>3, <2>6, <3>1 DEF GInv, LinksTyped
    <3>2. CASE ~(q = r /\ w = rev)
      <4>1. snapshot'[q][w] = snapshot[q][w]
        BY <2>5, <2>7, <3>2
      <4> QED
        BY <4>1 DEF GInv, LinksTyped
    <3> QED
      BY <3>1, <3>2
  <2> QED
    BY <2>8 DEF LinksTyped
<1> QED
  BY <1>1, <1>3, <1>6, <1>7, OneGuarded

LEMMA ReturnGuarded ==
  ASSUME PInv, GInv, RoomGrows, NEW g \in Programs, Return(g)
  PROVE  GInv'
<1>1. /\ job[g].at = "fetch" /\ UNCHANGED <<snapshot, taken>>
      /\ job' = [job EXCEPT ![g].at = "verify", ![g].todo = {}]
  BY DEF Return, disk, store
<1>2. DOMAIN job[g] = DOMAIN Idle
  BY <1>1 DEF PInv, Keeps, Planned
<1>3. /\ job'[g].plans = job[g].plans /\ job'[g].ignore = job[g].ignore /\ job'[g].k = job[g].k
      /\ job'[g].own = job[g].own /\ job'[g].todo = {} /\ Others(g)
  BY <1>1, <1>2 DEF PInv, Others, Idle
<1>4. Guarded(g)'
  BY <1>1, <1>3, OnGuarded DEF GInv, Guarded
<1> QED
  BY <1>1, <1>3, <1>4, LinksStay, OneGuarded DEF GInv

LEMMA VerifyGuarded ==
  ASSUME PInv, GInv, RoomGrows, NEW g \in Programs, Verify(g)
  PROVE  GInv'
<1>1. /\ job[g].at # "idle" /\ UNCHANGED <<snapshot, taken>>
      /\ job' = Advance(g) \/ job' = Ends(g, FALSE)
  BY DEF Verify, disk, store
<1> QED
  BY <1>1, AdvanceGuarded, EndGuarded

LEMMA StopGuarded ==
  ASSUME PInv, GInv, RoomGrows, NEW g \in Programs, NoRoom(g) \/ Break(g)
  PROVE  GInv'
<1>1. job' = Ends(g, FALSE) /\ UNCHANGED <<snapshot, taken>>
  BY DEF NoRoom, Break, disk, store
<1> QED
  BY <1>1, EndGuarded

LEMMA RestGuarded ==
  ASSUME PInv, GInv, RoomGrows,
         \/ PlanStore \/ Fill \/ Vacate \/ \E b \in Files : Quarantine(b)
         \/ \E r \in Repos : \E rev \in Revisions(r) : Pin(r, rev)
         \/ \E e \in Envs : Declare(e) \/ Sync(e) \/ LoseVenv(e)
         \/ \E v \in Variants : Bench(v)
         \/ UNCHANGED vars
  PROVE  GInv'
<1>1. job' = job /\ snapshot' = snapshot
  BY DEF PlanStore, Fill, Vacate, Quarantine, Pin, Declare, Sync, LoseVenv, Bench, vars, disk
<1>2. taken \subseteq taken'
  <2>1. CASE \E b \in Files : Quarantine(b)
    BY <2>1 DEF Quarantine
  <2>2. CASE ~\E b \in Files : Quarantine(b)
    BY <2>2 DEF PlanStore, Fill, Vacate, Pin, Declare, Sync, LoseVenv, Bench, vars, store
  <2> QED
    BY <2>1, <2>2
<1>3. ASSUME NEW g \in Programs PROVE Guarded(g)'
  BY <1>1, <1>2, StillGuarded
<1> QED
  BY <1>1, <1>3, LinksStay DEF GInv, RoomGrows

LEMMA NextGInv == PInv /\ GInv /\ [Next]_vars => GInv'
<1> SUFFICES ASSUME PInv, GInv, [Next]_vars PROVE GInv'
  OBVIOUS
<1>1. RoomGrows
  BY NextRoom DEF GInv
<1>2. ASSUME NEW g \in Programs, Pull(g) \/ Break(g) PROVE GInv'
  BY <1>1, <1>2, CheckGuarded, ReturnGuarded, VerifyGuarded, StopGuarded, FetchGuarded DEF Pull
<1> QED
  BY <1>1, <1>2, BeginGuarded, RestGuarded DEF Next

LEMMA InitGInv == Init => GInv
<1> SUFFICES ASSUME Init PROVE GInv
  OBVIOUS
<1>1. blobs = {} /\ other = 0 /\ doomed = {} /\ spent = [g \in Programs |-> 0]
  BY DEF Init
<1>2. Free = Total
  <2>1. SizeOf(blobs) = 0
    BY <1>1, SizeIs, SumEmpty
  <2> QED
    BY <1>1, <2>1, ProvisionAssumption DEF Free
<1>3. DiskTyped
  BY <1>1, <1>2, ProvisionAssumption DEF DiskTyped
<1>4. LinksTyped
  <2>1. \A r \in Repos : \A rev \in Revisions(r) : snapshot[r][rev] = Absent
    BY DEF Init
  <2>2. Absent.links = {} /\ Absent.made = FALSE
    BY DEF Absent
  <2>3. \A r \in Repos : \A rev \in Revisions(r) :
          snapshot[r][rev].links = {} /\ snapshot[r][rev].made = FALSE
    BY <2>1, <2>2
  <2> QED
    BY <2>3 DEF LinksTyped
<1>5. \A g \in Programs : job[g].at = "idle"
  BY DEF Init, Idle
<1> QED
  BY <1>3, <1>4, <1>5 DEF GInv, Guarded

LEMMA GuardFollows == PInv /\ GInv => GuardKept
<1> SUFFICES ASSUME PInv, GInv PROVE GuardKept
  OBVIOUS
<1>1. TypeOK
  BY DEF TypeOK, PInv, CacheTyped, PinTyped, Keeps, Planned, GInv, DiskTyped, LinksTyped
<1>2. ASSUME NEW g \in Programs, job[g].at \in {"fetch", "verify"}, ~job[g].ignore
      PROVE  Free + spent[g] - SizeOf(job[g].own \ taken) >= MinFree
  <2>1. job[g].k \in DOMAIN job[g].plans
    BY <1>2 DEF PInv, Keeps, Planned
  <2>2. /\ Current(g).fits /\ job[g].own \ taken \subseteq Current(g).missing
        /\ Sound(Current(g), blobs \cup taken, Free + spent[g])
    BY <1>2, <2>1 DEF GInv, Guarded, Current
  <2>3. Current(g).missing \subseteq Files
    BY <1>2, <2>1, <2>2, PlanFiles DEF Sound, Current
  <2>4. /\ SizeOf(job[g].own \ taken) <= SizeOf(Current(g).missing)
        /\ SizeOf(job[g].own \ taken) \in Nat /\ SizeOf(Current(g).missing) \in Nat
    BY <2>2, <2>3, SizeGrows, SizeNat
  <2>5. Free \in Int /\ spent[g] \in Int /\ MinFree \in Int
    BY FreeIs, ProvisionAssumption DEF GInv, DiskTyped
  <2>6. (Free + spent[g]) - SizeOf(Current(g).missing) >= MinFree
    BY <2>2, SoundReserves
  <2> DEFINE own == SizeOf(job[g].own \ taken)
             all == SizeOf(Current(g).missing)
  <2> HIDE DEF own, all
  <2>7. own <= all /\ own \in Int /\ all \in Int /\ (Free + spent[g]) - all >= MinFree
    BY <2>4, <2>6 DEF own, all
  <2>8. Free + spent[g] - own >= MinFree
    BY <2>5, <2>7
  <2> QED
    BY <2>8 DEF own
<1> QED
  BY <1>1, <1>2 DEF GuardKept

(* Whatever the sizes, the volume and the number of terminals: while a pull *)
(* that was not told to pass over the guard writes, at least MinFree stays  *)
(* free, but for what others wrote since it planned, what it wrote for the  *)
(* sources before this one and what the store threw away under it (pull.py, *)
(* disk_guard and run_pull).                                                *)
THEOREM GuardIsKept == Spec => []GuardKept
<1>1. PInv /\ [Next]_vars => PInv'
  BY NextPInv
<1> QED
  BY <1>1, InitPInv, InitGInv, NextGInv, GuardFollows, PTL DEF Spec
=============================================================================
