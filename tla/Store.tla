-------------------------------- MODULE Store --------------------------------
(***************************************************************************)
(* The disk under `ecurie store apply`, `tier` and `trash`: names, inodes  *)
(* and the trash, one file-system call per step, with programs that may be *)
(* killed between any two of them (apply.py, tier.py, trash.py).           *)
(*                                                                         *)
(* Each path of the park has a namesake on the cold volume, where tiering  *)
(* copies it. A symbolic link always leads to such a namesake.             *)
(***************************************************************************)
EXTENDS Figures

CONSTANTS Programs,      \* the terminals that run a command of the store
          Paths,         \* the files of the park, numbered
          HomeInodes,    \* the inodes of the park's volume ...
          ColdInodes,    \* ... and of the cold volume, numbered too
          Contents,      \* what managers write
          Junk,          \* a content nobody wrote: a torn copy, a text
          NoContent,     \* what a path that leads nowhere reads
          Obsolete,      \* the paths of stale revisions or orphan blobs
          Awkward,       \* the paths whose file is called manifest.json
          Starts,        \* the disks to begin with: [inode, content]
          Hasty,         \* whether managers write while a command is at work
          MaxCommands,   \* bound on the commands that change the disk
          MaxEdits,      \* bound on what managers write
          MaxCrashes     \* bound on the crashes

ASSUME StoreAssumption ==
  /\ Paths \subseteq Nat \ {0} /\ HomeInodes \cup ColdInodes \subseteq Nat \ {0}
  /\ HomeInodes \cap ColdInodes = {}
  /\ IsFiniteSet(Paths) /\ IsFiniteSet(Programs)
  /\ Obsolete \subseteq Paths /\ Awkward \subseteq Paths
  /\ Junk \notin Contents /\ NoContent \notin Contents \cup {Junk}
  /\ \A start \in Starts : /\ start.inode \in [Paths -> HomeInodes]
                           /\ start.content \in [HomeInodes -> Contents]
  /\ {MaxCommands, MaxEdits, MaxCrashes} \subseteq Nat

VARIABLES home,     \* what each path names: a file, a link, or nothing
          cold,     \* what its namesake on the cold volume names
          temp,     \* the temporary name of each program
          debris,   \* the inodes that a killed program's temporary name holds
          bin,      \* the trash
          file,     \* content and date of each inode
          seen,     \* the last scan: the dates it saw, the plan drawn from it
          job,      \* where each program is in its command
          owed,     \* what the managers last wrote at each path
          struck,   \* the paths a crash left without their link
          commands, edits, crashes

disk == <<home, cold, temp, debris, bin, file>>
vars == <<disk, seen, job, owed, struck, commands, edits, crashes>>

Inodes == HomeInodes \cup ColdInodes
Nothing == [is |-> "nothing", at |-> 0]
File(i) == [is |-> "file", at |-> i]
Link(p) == [is |-> "link", at |-> p]
Idle == [at |-> "idle", path |-> 0, dest |-> 0, todo |-> {}, sha |-> NoSha, why |-> "none"]

IsFile(entry) == entry.is = "file"
ContentOf(entry) == IF IsFile(entry) THEN file[entry.at].content ELSE NoContent

(* What a reader finds at a path, through the link if there is one. *)
Reads(p) == IF home[p].is = "link" THEN ContentOf(cold[home[p].at]) ELSE ContentOf(home[p])

(* The names of an inode, everywhere. *)
NamesOf(i) ==
  LET at(names) == {n \in DOMAIN names : names[n] = File(i)}
  IN  Cardinality(at(home)) + Cardinality(at(cold)) + Cardinality(at(temp))
        + Cardinality({e \in bin : e.what = File(i)}) + IF i \in debris THEN 1 ELSE 0

(* The inode the volume gives to a new file; which one tells nothing. *)
FreeInodes(volume) ==
  LET free == {i \in volume : NamesOf(i) = 0} IN {i \in free : \A j \in free : i <= j}

StatOf(p) == IF IsFile(home[p]) THEN <<home[p].at, file[home[p].at].date>> ELSE <<0, 0>>

-----------------------------------------------------------------------------
(* `store scan` and `store plan`. Hashes are those the managers announced,  *)
(* or all of them were read.                                                *)

Observed(p, read) ==
  [path |-> p, manager |-> p, vol |-> "home", inode |-> home[p].at, size |-> 1,
   sha |-> IF read THEN ContentOf(home[p]) ELSE owed[p], read |-> read,
   nlink |-> NamesOf(home[p].at), refs |-> {}, stale |-> p \in Obsolete, orphan |-> FALSE]

Scan(read) ==
  /\ LET park == {Observed(p, read) : p \in {q \in Paths : IsFile(home[q])}}
     IN  seen' = [stat |-> [p \in Paths |-> StatOf(p)], read |-> read,
                  sha  |-> [p \in Paths |-> IF read THEN ContentOf(home[p]) ELSE owed[p]],
                  plan |-> GeneratePlan(park, {}, FALSE)]
  /\ seen' # seen
  /\ UNCHANGED <<commands, disk, job, owed, struck, edits, crashes>>

(* _stat_drift finds nothing: size, date and inode are those of the scan. *)
Counted == commands < MaxCommands /\ commands' = commands + 1

NoDrift(p) == IsFile(home[p]) /\ StatOf(p) = seen.stat[p]

-----------------------------------------------------------------------------
(* Mutant: the file that is kept is not read again. *)
LinkUnread(g, a) ==
  LET others == {p \in a.replace : home[p] # home[a.keep]}
  IN  /\ job[g] = Idle
      /\ a \in seen.plan /\ a.kind = "hardlink" /\ a.sha # NoSha
      /\ \A p \in a.replace \cup {a.keep} : NoDrift(p)
      /\ others # {}
      /\ job' = [job EXCEPT ![g] =
                   [Idle EXCEPT !.at = "link", !.dest = a.keep, !.todo = others, !.sha = a.sha]]
      /\ Counted
      /\ UNCHANGED <<disk, seen, owed, struck, edits, crashes>>

(* A hard link for each duplicate (_apply_hardlink, _link_atomically). All  *)
(* is read again before anything moves; a refusal changes nothing.          *)

BeginLink(g, a) ==
  LET others == {p \in a.replace : home[p] # home[a.keep]}
      links(p) == {q \in others : home[q] = home[p]}
  IN  /\ job[g] = Idle
      /\ a \in seen.plan /\ a.kind = "hardlink" /\ a.sha # NoSha
      /\ \A p \in a.replace \cup {a.keep} : NoDrift(p)
      /\ ContentOf(home[a.keep]) = a.sha
      /\ others # {}
      /\ \A p \in others : /\ NamesOf(home[p].at) = Cardinality(links(p))
                           /\ ContentOf(home[p]) = a.sha
      /\ job' = [job EXCEPT ![g] =
                   [Idle EXCEPT !.at = "link", !.dest = a.keep, !.todo = others, !.sha = a.sha]]
      /\ Counted
      /\ UNCHANGED <<disk, seen, owed, struck, edits, crashes>>

(* link: the kept file gets a temporary name beside the copy ... *)
LinkTemp(g) ==
  /\ job[g].at = "link"
  /\ IF IsFile(home[job[g].dest])
     THEN /\ temp' = [temp EXCEPT ![g] = home[job[g].dest]]
          /\ job' = [job EXCEPT ![g].at = "swap"]
     ELSE job' = [job EXCEPT ![g] = Idle] /\ UNCHANGED temp
  /\ UNCHANGED <<commands, home, cold, debris, bin, file, seen, owed, struck, edits, crashes>>

(* ... which replaces it: the path is never absent. *)
Swap(g, p) ==
  /\ job[g].at = "swap" /\ p \in job[g].todo
  /\ home' = [home EXCEPT ![p] = temp[g]]
  /\ temp' = [temp EXCEPT ![g] = Nothing]
  /\ job' = [job EXCEPT ![g] = IF @.todo = {p} THEN Idle
                               ELSE [@ EXCEPT !.at = "link", !.todo = job[g].todo \ {p}]]
  /\ UNCHANGED <<commands, cold, debris, bin, file, seen, owed, struck, edits, crashes>>

(* The rename fails: the temporary name goes, what was done stays done. *)
SwapFails(g) ==
  /\ job[g].at = "swap"
  /\ temp' = [temp EXCEPT ![g] = Nothing]
  /\ job' = [job EXCEPT ![g] = Idle]
  /\ UNCHANGED <<commands, home, cold, debris, bin, file, seen, owed, struck, edits, crashes>>

-----------------------------------------------------------------------------
(* The trash: a rename, then a manifest (_apply_trash, move_to_trash). *)

BeginTrash(g, a) ==
  /\ job[g] = Idle
  /\ a \in seen.plan /\ a.kind = "trash"
  /\ NoDrift(a.path)
  /\ a.sha # NoSha => ContentOf(home[a.path]) = a.sha
  /\ job' = [job EXCEPT ![g] = [Idle EXCEPT !.at = "move", !.path = a.path, !.why = "plan"]]
  /\ Counted
  /\ UNCHANGED <<disk, seen, owed, struck, edits, crashes>>

Move(g) ==
  LET p == job[g].path
  IN  /\ job[g].at = "move"
      /\ IF home[p] = Nothing
         THEN job' = [job EXCEPT ![g] = Idle] /\ UNCHANGED <<home, bin>>
         ELSE /\ bin' = bin \cup {[what |-> home[p], origin |-> p,
                                   why |-> job[g].why, listed |-> FALSE]}
              /\ home' = [home EXCEPT ![p] = Nothing]
              /\ job' = [job EXCEPT ![g].at = "note"]
      /\ UNCHANGED <<commands, cold, temp, debris, file, seen, owed, struck, edits, crashes>>

(* The manifest is written beside what it describes, under a fixed name: a  *)
(* file of that name is written over.                                       *)
Note(g) ==
  LET p == job[g].path
  IN  /\ job[g].at = "note"
      /\ \E e \in bin :
           /\ e.origin = p /\ ~e.listed
           /\ bin' = (bin \ {e}) \cup {[e EXCEPT !.listed = TRUE]}
           /\ file' = IF p \in Awkward /\ IsFile(e.what)
                      THEN [file EXCEPT ![e.what.at].content = Junk] ELSE file
      /\ job' = [job EXCEPT ![g] = IF @.why = "tier" THEN [@ EXCEPT !.at = "leave"] ELSE Idle]
      /\ UNCHANGED <<commands, home, cold, temp, debris, seen, owed, struck, edits, crashes>>

(* `trash empty`, the one place that erases: what has a manifest. *)
Empty(e) ==
  /\ e \in bin /\ e.listed
  /\ bin' = bin \ {e}
  /\ owed' = IF e.origin # 0 /\ e.why = "plan" /\ Reads(e.origin) # owed[e.origin]
             THEN [owed EXCEPT ![e.origin] = NoContent] ELSE owed
  /\ Counted
  /\ UNCHANGED <<home, cold, temp, debris, file, seen, job, struck, edits, crashes>>

(* The user types the `mv` the listing shows. *)
Restore(e) ==
  /\ e \in bin /\ e.listed /\ e.origin # 0 /\ ~IsFile(home[e.origin])
  /\ bin' = bin \ {e}
  /\ home' = [home EXCEPT ![e.origin] = e.what]
  /\ owed' = [owed EXCEPT ![e.origin] = ContentOf(e.what)]
  /\ struck' = struck \ {e.origin}
  /\ Counted
  /\ UNCHANGED <<cold, temp, debris, file, seen, job, edits, crashes>>

-----------------------------------------------------------------------------
(* Tiering: copy, fsync, hash of the copy, original to the trash, link      *)
(* (migrate_path, tier_variant). The other paths of the inode follow, each  *)
(* read again, to links towards the one copy.                               *)

BeginTier(g, p) ==
  LET cluster == {q \in Paths : seen.stat[q] # <<0, 0>> /\ seen.stat[q][1] = seen.stat[p][1]}
      sha == ContentOf(home[p])
  IN  /\ job[g] = Idle
      /\ p \in cluster /\ \A q \in cluster : p <= q
      /\ IsFile(home[p])
      /\ seen.read => sha = seen.sha[p]
      /\ cold[p] # Nothing => ContentOf(cold[p]) = sha
      /\ job' = [job EXCEPT ![g] =
                   [at |-> IF cold[p] = Nothing THEN "copy" ELSE "move",
                    path |-> p, dest |-> p, todo |-> cluster \ {p}, sha |-> sha, why |-> "tier"]]
      /\ Counted
      /\ UNCHANGED <<disk, seen, owed, struck, edits, crashes>>

Copy(g) ==
  /\ job[g].at = "copy" /\ IsFile(home[job[g].path])
  /\ \E i \in FreeInodes(ColdInodes), c \in {ContentOf(home[job[g].path]), Junk} :
       /\ temp' = [temp EXCEPT ![g] = File(i)]
       /\ file' = [file EXCEPT ![i] = [content |-> c, date |-> edits]]
  /\ job' = [job EXCEPT ![g].at = "publish"]
  /\ UNCHANGED <<commands, home, cold, debris, bin, seen, owed, struck, edits, crashes>>

(* The volume is full or gone: what was copied goes to the volume's trash. *)
CopyFails(g) ==
  /\ job[g].at \in {"copy", "publish"}
  /\ bin' = IF temp[g] = Nothing THEN bin
            ELSE bin \cup {[what |-> temp[g], origin |-> 0, why |-> "tier", listed |-> TRUE]}
  /\ temp' = [temp EXCEPT ![g] = Nothing]
  /\ job' = [job EXCEPT ![g] = Idle]
  /\ UNCHANGED <<commands, home, cold, debris, file, seen, owed, struck, edits, crashes>>

Publish(g) ==
  /\ job[g].at = "publish"
  /\ cold' = [cold EXCEPT ![job[g].dest] = temp[g]]
  /\ temp' = [temp EXCEPT ![g] = Nothing]
  /\ job' = [job EXCEPT ![g].at = "prove"]
  /\ UNCHANGED <<commands, home, debris, bin, file, seen, owed, struck, edits, crashes>>

(* Mutant: the copy is believed. *)
Believe(g) ==
  /\ job[g].at = "prove"
  /\ job' = [job EXCEPT ![g].at = "move"]
  /\ UNCHANGED <<commands, disk, seen, owed, struck, edits, crashes>>

(* The copy is read again; one that differs goes to the volume's trash. *)
Prove(g) ==
  LET d == job[g].dest
  IN  /\ job[g].at = "prove"
      /\ IF ContentOf(cold[d]) = job[g].sha
         THEN job' = [job EXCEPT ![g].at = "move"] /\ UNCHANGED <<cold, bin>>
         ELSE /\ bin' = bin \cup {[what |-> cold[d], origin |-> 0, why |-> "tier", listed |-> TRUE]}
              /\ cold' = [cold EXCEPT ![d] = Nothing]
              /\ job' = [job EXCEPT ![g] = Idle]
      /\ UNCHANGED <<commands, home, temp, debris, file, seen, owed, struck, edits, crashes>>

(* The link takes the place of the original, unless something took it. *)
Leave(g) ==
  LET p == job[g].path
      next == {q \in job[g].todo : \A o \in job[g].todo : q <= o}
  IN  /\ job[g].at = "leave"
      /\ home' = IF home[p] = Nothing THEN [home EXCEPT ![p] = Link(job[g].dest)] ELSE home
      /\ job' = [job EXCEPT ![g] =
                   IF home[p] # Nothing \/ next = {} THEN Idle
                   ELSE [@ EXCEPT !.at = "verify", !.path = CHOOSE q \in next : TRUE,
                                  !.todo = job[g].todo \ next]]
      /\ UNCHANGED <<commands, cold, temp, debris, bin, file, seen, owed, struck, edits, crashes>>

(* Mutant: the other names are presumed to be the same file still. *)
Presume(g) ==
  /\ job[g].at = "verify"
  /\ job' = [job EXCEPT ![g].at = "move"]
  /\ UNCHANGED <<commands, disk, seen, owed, struck, edits, crashes>>

(* Another name of the inode is read again before it follows. *)
Verify(g) ==
  /\ job[g].at = "verify"
  /\ job' = [job EXCEPT ![g] = IF Reads(@.path) = @.sha THEN [@ EXCEPT !.at = "move"] ELSE Idle]
  /\ UNCHANGED <<commands, disk, seen, owed, struck, edits, crashes>>

-----------------------------------------------------------------------------
(* What happens to programs, and what other programs do to the files. *)

(* A kill between two calls: a temporary name stays behind. *)
Crash(g) ==
  /\ job[g] # Idle /\ crashes < MaxCrashes
  /\ debris' = IF IsFile(temp[g]) THEN debris \cup {temp[g].at} ELSE debris
  /\ temp' = [temp EXCEPT ![g] = Nothing]
  /\ struck' = IF job[g].at \in {"note", "leave"} THEN struck \cup {job[g].path} ELSE struck
  /\ job' = [job EXCEPT ![g] = Idle]
  /\ crashes' = crashes + 1
  /\ UNCHANGED <<commands, home, cold, bin, file, seen, owed, edits>>

CommandsAtRest == \A g \in Programs : job[g] = Idle

(* A manager writes into its file: every name of the inode shows it. The    *)
(* date may be preserved.                                                   *)
Edit(p, c, kept) ==
  LET i == home[p].at
      shown == {q \in Paths : \/ home[q] = File(i)
                              \/ /\ home[q] = Nothing
                                 /\ \E e \in bin : e.origin = q /\ e.what = File(i) /\ e.why = "plan"}
  IN  /\ edits < MaxEdits /\ (Hasty \/ CommandsAtRest)
      /\ IsFile(home[p]) /\ c # ContentOf(home[p])
      /\ file' = [file EXCEPT ![i] = [content |-> c, date |-> IF kept THEN @.date ELSE edits + 1]]
      /\ owed' = [q \in Paths |-> IF q \in shown THEN c ELSE owed[q]]
      /\ edits' = edits + 1
      /\ UNCHANGED <<commands, home, cold, temp, debris, bin, seen, job, struck, crashes>>

(* A manager downloads the file again, to a new inode. *)
Renew(p, c) ==
  /\ edits < MaxEdits /\ (Hasty \/ CommandsAtRest)
  /\ home[p].is # "link"
  /\ \E i \in FreeInodes(HomeInodes) :
       /\ home' = [home EXCEPT ![p] = File(i)]
       /\ file' = [file EXCEPT ![i] = [content |-> c, date |-> edits + 1]]
  /\ owed' = [owed EXCEPT ![p] = c]
  /\ struck' = struck \ {p}
  /\ edits' = edits + 1
  /\ UNCHANGED <<commands, cold, temp, debris, bin, seen, job, crashes>>

Init ==
  \E start \in Starts :
    /\ home = [p \in Paths |-> File(start.inode[p])]
    /\ cold = [p \in Paths |-> Nothing]
    /\ temp = [g \in Programs |-> Nothing]
    /\ debris = {} /\ bin = {}
    /\ file = [i \in Inodes |->
                 [content |-> IF i \in HomeInodes THEN start.content[i] ELSE Junk, date |-> 0]]
    /\ seen = [stat |-> [p \in Paths |-> <<0, 0>>], read |-> FALSE,
               sha |-> [p \in Paths |-> NoSha], plan |-> {}]
    /\ job = [g \in Programs |-> Idle]
    /\ owed = [p \in Paths |-> start.content[start.inode[p]]]
    /\ struck = {} /\ commands = 0 /\ edits = 0 /\ crashes = 0

Command(g) ==
  \/ \E a \in seen.plan : BeginLink(g, a) \/ BeginTrash(g, a)
  \/ LinkTemp(g) \/ SwapFails(g) \/ Move(g) \/ Note(g)
  \/ \E p \in Paths : Swap(g, p) \/ BeginTier(g, p)
  \/ Copy(g) \/ CopyFails(g) \/ Publish(g) \/ Prove(g) \/ Leave(g) \/ Verify(g)

Next ==
  \/ \E read \in BOOLEAN : Scan(read)
  \/ \E g \in Programs : Command(g) \/ Crash(g)
  \/ \E e \in bin : Empty(e) \/ Restore(e)
  \/ \E p \in Paths, c \in Contents : Renew(p, c) \/ \E kept \in BOOLEAN : Edit(p, c, kept)

Spec == Init /\ [][Next]_vars

-----------------------------------------------------------------------------
(* Names, inodes and jobs are what the commands leave them. *)
TypeOK ==
  LET entries == {Nothing} \cup {File(i) : i \in Inodes} \cup {Link(p) : p \in Paths}
  IN  /\ home \in [Paths -> entries]
      /\ cold \in [Paths -> {Nothing} \cup {File(i) : i \in ColdInodes}]
      /\ temp \in [Programs -> {Nothing} \cup {File(i) : i \in Inodes}]
      /\ debris \subseteq Inodes
      /\ bin \subseteq [what : entries, origin : Paths \cup {0}, why : {"plan", "tier"}, listed : BOOLEAN]
      /\ file \in [Inodes -> [content : Contents \cup {Junk}, date : 0..MaxEdits]]
      /\ owed \in [Paths -> Contents \cup {NoContent}]
      /\ struck \subseteq Paths

(* What a manager wrote at a path is read there, or waits in the trash under *)
(* that path, or stands proven on the cold volume: at every step, whatever   *)
(* crashed or failed, whatever links two paths share, until the user empties *)
(* the trash of what a plan threw away.                                      *)
ContentHeld ==
  \A p \in Paths : owed[p] # NoContent =>
    \/ Reads(p) = owed[p]
    \/ \E e \in bin : e.origin = p /\ ContentOf(e.what) = owed[p]
    \/ \E q \in Paths : ContentOf(cold[q]) = owed[p]

(* A path that nobody threw away leads to its content, except between the   *)
(* two last calls of a tiering or where a crash fell between them.          *)
HiddenByCrashOnly ==
  \A p \in Paths : owed[p] # NoContent /\ Reads(p) # owed[p] =>
    \/ p \in struck
    \/ \E e \in bin : e.origin = p /\ e.why = "plan"
    \/ \E g \in Programs : job[g].path = p /\ job[g].at \in {"note", "leave"}

(* Apply, tier and trash keep what the managers wrote, and where they do:   *)
(* held somewhere at every step, and hidden from its path by a crash only.  *)
Recoverable == TypeOK /\ ContentHeld /\ HiddenByCrashOnly

(* The contents some name still holds. *)
OnDisk == {file[i].content : i \in {j \in Inodes : NamesOf(j) > 0}} \ {Junk}

(* Emptying the trash is the only step that makes a content disappear from  *)
(* the disk, and only a content the listing showed; all else is a manager's *)
(* own writing.                                                             *)
OnlyEmptyErases ==
  [][ \/ OnDisk \subseteq OnDisk'
      \/ edits' # edits
      \/ \E e \in bin : /\ e.listed /\ bin' = bin \ {e}
                        /\ OnDisk \ OnDisk' \subseteq {ContentOf(e.what)} ]_vars

=============================================================================
