------------------------------ MODULE Recovery ------------------------------
(***************************************************************************)
(* What a plan does to a disk, compared with what it announces: every park *)
(* of a few paths is scanned, planned and recovered to the last action,    *)
(* trash emptied.                                                          *)
(*                                                                         *)
(* A world is a disk and what is known of it:                              *)
(*   inode     the inode of each path                                      *)
(*   content   of each inode                                               *)
(*   outside   the inodes that also have a name outside the scanned park   *)
(*   hashed    how the hash of each path is known: "read", "announced",    *)
(*             "no"                                                        *)
(*   repo      the Hugging Face repository whose blobs are HubPaths        *)
(*   pinned    the revisions the registry pins                             *)
(*   refs      the variants each path belongs to                           *)
(*   ran       when each variant ran last                                  *)
(*   cautious  whether only what was read may be deduplicated              *)
(***************************************************************************)
EXTENDS Figures

CONSTANTS Paths,       \* the names of the park
          HubPaths,    \* those under the blobs of a Hugging Face repository
          ManagerOf,   \* the rank of the manager of each path
          VolumeOf,    \* the volume of each inode
          SizeOfContent,  \* how many bytes each content has
          Now, Days,   \* the date, and the window of the telemetry
          Worlds       \* the disks to consider

ASSUME PathAssumption ==
  /\ Paths \subseteq Nat /\ IsFiniteSet(Paths) /\ HubPaths \subseteq Paths
  /\ ManagerOf \in [Paths -> Nat]
  /\ SizeOfContent \in [DOMAIN SizeOfContent -> Nat] /\ NoSha \notin DOMAIN SizeOfContent
  /\ Now \in Nat /\ Days \in Nat

(* An inode has one content, the blobs of the repository are where it keeps *)
(* them, and a date, or none, is known of every variant.                    *)
ASSUME WorldAssumption ==
  \A w \in Worlds :
    /\ w.inode \in [Paths -> DOMAIN VolumeOf]
    /\ w.content \in [DOMAIN VolumeOf -> DOMAIN SizeOfContent]
    /\ Blobs(w.repo) \subseteq HubPaths
    /\ IsFiniteSet(DOMAIN w.ran)
    /\ \A v \in DOMAIN w.ran : w.ran[v] \in Int \cup {Never}
    /\ \A p \in Paths : w.refs[p] \subseteq DOMAIN w.ran

VARIABLES world,   \* the disk
          done     \* Null, or what the recovery announced and did

worldVars == <<world, done>>

Names(w, i) == {p \in Paths : w.inode[p] = i}
Links(w, i) == Cardinality(Names(w, i)) + IF i \in w.outside THEN 1 ELSE 0

(* stat_record and announce: what the scan writes of a path. *)
Observed(w, p) ==
  LET i == w.inode[p]
  IN  [path    |-> p,
       manager |-> ManagerOf[p],
       vol     |-> VolumeOf[i],
       inode   |-> i,
       size    |-> SizeOfContent[w.content[i]],
       sha     |-> IF w.hashed[p] = "no" THEN NoSha ELSE w.content[i],
       read    |-> w.hashed[p] = "read",
       nlink   |-> Links(w, i),
       refs    |-> w.refs[p],
       stale   |-> p \in StaleBlobs(w.repo, w.pinned),
       orphan  |-> p \in HubPaths \ Blobs(w.repo)]

Park(w) == {Observed(w, p) : p \in Paths}

FirstRun(w) ==
  LET dates == {w.ran[v] : v \in DOMAIN w.ran} \ {Never}
  IN  IF dates = {} THEN Never ELSE Min(dates)

Unused(w) ==
  IF Conclusive(FirstRun(w), Now, Days) THEN UnusedVariants(Park(w), w.ran, Now, Days) ELSE {}

PlanOf(w) == GeneratePlan(Park(w), Unused(w), w.cautious)

(* The names left after every action of the plan and an emptied trash. *)
Thrown(plan) == {a.path : a \in {x \in plan : x.kind = "trash"}}
KeeperFor(plan, p) ==
  LET by == {a \in plan : a.kind = "hardlink" /\ p \in a.replace}
  IN  IF by = {} THEN p ELSE (CHOOSE a \in by : TRUE).keep
NamesAfter(w, plan) == [p \in Paths \ Thrown(plan) |-> w.inode[KeeperFor(plan, p)]]

(* The bytes that no name holds any more. *)
Freed(w, names) ==
  MapThenSumSet(LAMBDA i : SizeOfContent[w.content[i]],
                {i \in {w.inode[p] : p \in Paths} \ w.outside :
                   \A p \in DOMAIN names : names[p] # i})

Untouched == [announced |-> 0, status |-> 0, freed |-> 0, names |-> <<>>, detached |-> {}]

RecoveryInit == world \in Worlds /\ done = Untouched

(* `store plan`, `store apply`, `trash empty`. *)
Recover ==
  /\ done = Untouched
  /\ LET plan == PlanOf(world)
         names == NamesAfter(world, plan)
     IN  done' = [announced |-> Bytes(plan),
                  status    |-> TotalKnown(ComputeFigures(Park(world), Unused(world))),
                  freed     |-> Freed(world, names),
                  names     |-> names,
                  detached  |-> DetachedSnapshots(world.repo, world.pinned)]
  /\ UNCHANGED world

(* `store tier` of a variant, trash emptied: its paths become links. *)
Move(ref) ==
  /\ done = Untouched
  /\ LET own   == {p \in Paths : ref \in world.refs[p]}
         names == [p \in Paths \ own |-> world.inode[p]]
     IN  done' = [announced |-> Footprint(Park(world), ref).freed,
                  status    |-> Footprint(Park(world), ref).freed,
                  freed     |-> Freed(world, names),
                  names     |-> [p \in Paths |-> world.inode[p]],
                  detached  |-> {}]
  /\ UNCHANGED world

RecoveryNext == Recover \/ \E ref \in DOMAIN world.ran : Move(ref)
RecoverySpec == RecoveryInit /\ [][RecoveryNext]_worldVars

-----------------------------------------------------------------------------
(* The gain of `store status`, the gain the plan announces and the bytes    *)
(* the disk gets back are one number: hard links inside and outside the     *)
(* park, several volumes, two managers and a variant's shared files count   *)
(* once or not at all. A cautious plan may do less than status says.        *)
GainIsReal ==
  done # Untouched =>
    /\ done.freed = done.announced
    /\ done.announced <= done.status
    /\ world.cautious \/ done.announced = done.status

(* The revisions somebody counts on, and the paths: among the blobs of      *)
(* such a revision, and of a variant that ran within the window.            *)
InUse(w) ==
  {v \in DOMAIN w.repo.revs : w.repo.refs = {} \/ v \in w.repo.refs \cup w.pinned}

InService(w, p) ==
  LET lately(v) == w.ran[v] # Never /\ w.ran[v] >= Now - Days
      young == \A v \in DOMAIN w.ran : w.ran[v] = Never \/ w.ran[v] > Now - Days
  IN  /\ p \notin HubPaths \/ \E v \in InUse(w) : p \in w.repo.revs[v]
      /\ young \/ w.refs[p] = {} \/ \E v \in w.refs[p] : lately(v)

(* A recovery never takes the last copy of what is in service: the links   *)
(* of a revision that a reference or the registry names (of any when no     *)
(* reference is left) and its blobs, or any other file, of a variant that   *)
(* ran within the window, are still read at their path with their content. *)
ServiceKept ==
  done # Untouched =>
    /\ done.detached \cap InUse(world) = {}
    /\ \A p \in Paths : InService(world, p) =>
         /\ p \in DOMAIN done.names
         /\ world.content[done.names[p]] = world.content[world.inode[p]]

(* What a recovery announces, gives back and leaves is what was promised:   *)
(* the gain is real, and what is in service keeps its files.                *)
RecoverySound == GainIsReal /\ ServiceKept
=============================================================================
