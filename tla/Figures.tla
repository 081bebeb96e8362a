------------------------------- MODULE Figures -------------------------------
(***************************************************************************)
(* What the observed park offers to recover and the plan that recovers it  *)
(* (figures.py, plan.py), with the two passes that decide what may be      *)
(* thrown away: the scan of a Hugging Face repository (scanners/hf.py) and *)
(* the protection of pinned revisions (resolver.py).                       *)
(*                                                                         *)
(* A park is a set of records, one for each path that is not a symbolic    *)
(* link. Paths are numbers, compared as the code compares their names; a   *)
(* manager is its rank in MANAGER_PRIORITY.                                *)
(***************************************************************************)
EXTENDS Integers, FiniteSets, FiniteSetsExt

CONSTANTS NoSha,  \* the hash of a file that nobody announced and nobody read
          Never   \* the date of a run that never was

-----------------------------------------------------------------------------
(* The passes of a scan. A repository is [revs, refs]: the blobs of each of *)
(* its revisions, and the revisions some reference (main, a tag) names.     *)

Blobs(repo) == UNION {repo.revs[v] : v \in DOMAIN repo.revs}

(* Without any reference no revision is behind another. *)
LiveBlobs(repo) ==
  UNION {repo.revs[v] : v \in IF repo.refs = {} THEN DOMAIN repo.revs ELSE repo.refs}

(* A revision the registry pins is never obsolete, even without reference. *)
Protected(repo, pinned) == UNION {repo.revs[v] : v \in pinned \cap DOMAIN repo.revs}

(* Mutant: the pins are forgotten. *)
StaleDespitePins(repo, pinned) == Blobs(repo) \ LiveBlobs(repo)

StaleBlobs(repo, pinned) == Blobs(repo) \ (LiveBlobs(repo) \cup Protected(repo, pinned))

(* The directories of links nothing designates any more. *)
DetachedSnapshots(repo, pinned) ==
  {v \in DOMAIN repo.revs : repo.refs # {} /\ v \notin repo.refs \cup pinned}

-----------------------------------------------------------------------------
(* One content: the paths that hold it, whatever their manager. *)

InodeOf(r) == <<r.vol, r.inode>>
ByInode(records) == {{r \in records : InodeOf(r) = i} : i \in {InodeOf(r) : r \in records}}

(* The hash of an inode: what was read, or else what was announced; none    *)
(* when either contradicts itself.                                          *)
ShaOfCluster(cluster) ==
  LET known == {r \in cluster : r.sha # NoSha}
      read  == {r \in known : r.read}
      from  == {r.sha : r \in IF read # {} THEN read ELSE known}
  IN  IF Cardinality(from) = 1 THEN CHOOSE h \in from : TRUE ELSE NoSha

SizeOf(records) == Max({r.size : r \in records})

(* Identity of inode first, then the hash together with the exact size. *)
ContentKey(cluster) ==
  LET sha == ShaOfCluster(cluster)
  IN  IF sha = NoSha THEN <<"inode", InodeOf(CHOOSE r \in cluster : TRUE)>>
                     ELSE <<"sha", sha, SizeOf(cluster)>>

GroupByContent(park) ==
  {UNION {c \in ByInode(park) : ContentKey(c) = k} : k \in {ContentKey(c) : c \in ByInode(park)}}

-----------------------------------------------------------------------------
(* What one content offers, each byte under one heading only. *)

Disposable(records) == {r \in records : r.stale \/ r.orphan}
Kept(records) == records \ Disposable(records)

(* Mutant: links outside the park are not counted. *)
CoveredAnyway(cluster) == TRUE

(* The scan sees every link of the inode: removing them frees the bytes. *)
Covered(cluster) == Cardinality(cluster) >= Max({r.nlink : r \in cluster})

FirstOf(cluster) == CHOOSE r \in cluster : \A q \in cluster : r.path <= q.path

(* The paths worth moving; the size goes to the first path of each inode. *)
Shares(records) ==
  UNION {{[path |-> r.path, bytes |-> IF r = FirstOf(c) THEN r.size ELSE 0] : r \in c} :
           c \in {d \in ByInode(records) : Covered(d)}}

NeverUsed(r, unused) == r.refs # {} /\ r.refs \subseteq unused

(* Kept first: what could not be freed anyway, then the manager that needs  *)
(* the file most, then what a variant owns, then the first path.            *)
KeeperRank(c) ==
  LET r == FirstOf(c)
  IN  <<IF Covered(c) THEN 1 ELSE 0, r.manager, IF r.refs = {} THEN 1 ELSE 0, r.path>>

Before(x, y) ==
  \E i \in DOMAIN x : x[i] < y[i] /\ \A k \in 1..(i - 1) : x[k] = y[k]

PreferredKeeper(clusters) ==
  CHOOSE c \in clusters : \A d \in clusters \ {c} : Before(KeeperRank(c), KeeperRank(d))

(* A hard link does not cross volumes: one action for each volume on which  *)
(* the content occupies several inodes, if some of them can be freed.       *)
Duplicates(kept) ==
  LET on(v)   == ByInode({r \in kept : r.vol = v})
      keep(v) == PreferredKeeper(on(v))
      gone(v) == {c \in on(v) \ {keep(v)} : Covered(c)}
  IN  {[keep    |-> FirstOf(keep(v)).path,
        replace |-> {r.path : r \in UNION gone(v)},
        bytes   |-> Cardinality(gone(v)) * SizeOf(kept)] :
          v \in {w \in {r.vol : r \in kept} : gone(w) # {}}}

(* Copies to throw away and, of the copies to keep, either all for want of *)
(* any use or the ones in excess. An empty file offers nothing.            *)
Attribution(records, unused) ==
  LET kept == IF SizeOf(records) = 0 THEN {} ELSE Kept(records)
      idle == kept # {} /\ \A r \in kept : NeverUsed(r, unused)
      held == {InodeOf(r) : r \in kept}
      out  == {r \in Disposable(records) : InodeOf(r) \notin held /\ r.size # 0}
  IN  [sha    |-> ShaOfCluster(records),
       read   |-> \A r \in records : r.read,
       poste  |-> IF \E r \in Disposable(records) : r.stale THEN "stale" ELSE "orphan",
       trash  |-> Shares(out),
       unused |-> IF idle THEN Shares(kept) ELSE {},
       dups   |-> IF idle THEN {} ELSE Duplicates(kept)]

Classify(park, unused) == {Attribution(g, unused) : g \in GroupByContent(park)}

Bytes(set) == MapThenSumSet(LAMBDA x : x.bytes, set)

-----------------------------------------------------------------------------
(* Telemetry: which variants count as never used. *)

(* A journal opened yesterday proves nothing about three months. *)
Conclusive(firstRun, now, days) == firstRun # Never /\ firstRun <= now - days

UnusedVariants(park, lastRun, now, days) ==
  {v \in UNION {r.refs : r \in park} : lastRun[v] = Never \/ lastRun[v] < now - days}

-----------------------------------------------------------------------------
(* The figures that announce a gain, and the plan that makes it. *)

ComputeFigures(park, unused) ==
  LET found == Classify(park, unused)
      trash(poste) == UNION {a.trash : a \in {x \in found : x.poste = poste}}
  IN  [apparent    |-> MapThenSumSet(LAMBDA r : r.size, park),
       unique      |-> MapThenSumSet(SizeOf, GroupByContent(park)),
       duplication |-> Bytes(UNION {a.dups : a \in found}),
       stale       |-> Bytes(trash("stale")),
       orphan      |-> Bytes(trash("orphan")),
       unused      |-> Bytes(UNION {a.unused : a \in found})]

TotalKnown(f) == f.duplication + f.stale + f.orphan + f.unused

TrashAction(share, sha, reason) ==
  [kind |-> "trash", path |-> share.path, sha |-> sha, reason |-> reason, bytes |-> share.bytes]

(* A cautious plan deduplicates only what was read to the last copy. *)
GeneratePlan(park, unused, verifiedOnly) ==
  UNION {{[kind |-> "hardlink", keep |-> d.keep, replace |-> d.replace,
           sha |-> a.sha, bytes |-> d.bytes] :
            d \in IF verifiedOnly /\ ~a.read THEN {} ELSE a.dups}
         \cup {TrashAction(s, a.sha, a.poste) : s \in a.trash}
         \cup {TrashAction(s, a.sha, "unused") : s \in a.unused} :
           a \in Classify(park, unused)}

(* What moving a variant to another volume would give back. *)
Footprint(park, ref) ==
  LET own == {r \in park : ref \in r.refs}
  IN  [bytes |-> MapThenSumSet(SizeOf, ByInode(own)),
       freed |-> MapThenSumSet(SizeOf, {c \in ByInode(own) : Covered(c)})]

=============================================================================
