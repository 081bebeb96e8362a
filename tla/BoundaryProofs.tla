--------------------------- MODULE BoundaryProofs ---------------------------
(***************************************************************************)
(* What Ecurie may expect of what it does not control. Of a disk where a   *)
(* command may fail or be killed between any two calls: what the managers  *)
(* wrote is never lost, for any park, plans, commands, writings, crashes.  *)
(* Of a worker that answers late, errs, hangs or babbles: a call gets its  *)
(* own result, for any clients, cases, patience and faults.                *)
(***************************************************************************)
EXTENDS Store, Session, TLAPS, FiniteSetTheorems, SequenceTheorems,
        NaturalsInduction, WellFoundedInduction

(* One terminal at a time works on the disk, and a command is alone to: no *)
(* manager writes meanwhile; no file is called manifest.json.              *)
OneTerminal == \A g, h \in Programs : g = h
Alone == ~Hasty
NothingAwkward == Awkward = {}

HomeFiles == {File(i) : i \in HomeInodes}
ColdFiles == {File(i) : i \in ColdInodes}
Links == {Link(p) : p \in Paths}
Work == {"link", "swap", "move", "note", "copy", "publish", "prove", "leave", "verify"}
Job == [at : Work \cup {"idle"}, path : Paths \cup {0}, dest : Paths \cup {0},
        todo : SUBSET Paths, sha : Contents \cup {NoSha}, why : {"none", "plan", "tier"}]

DiskTyped ==
  /\ home \in [Paths -> {Nothing} \cup HomeFiles \cup Links]
  /\ cold \in [Paths -> {Nothing} \cup ColdFiles]
  /\ temp \in [Programs -> {Nothing} \cup HomeFiles \cup ColdFiles]
  /\ debris \subseteq Inodes
  /\ file \in [Inodes -> [content : Contents \cup {Junk}, date : 0..MaxEdits]]
  /\ \A i \in HomeInodes : file[i].content \in Contents
  /\ owed \in [Paths -> Contents \cup {NoContent}]
  /\ struck \subseteq Paths /\ edits \in 0..MaxEdits

BinTyped ==
  /\ IsFiniteSet(bin)
  /\ bin \subseteq [what : {Nothing} \cup HomeFiles \cup ColdFiles \cup Links,
                    origin : Paths \cup {0}, why : {"plan", "tier"}, listed : BOOLEAN]
  /\ \A e \in bin : e.origin # 0 => e.what \in HomeFiles \cup Links

PlanTyped ==
  \A a \in seen.plan :
    /\ a.kind = "trash" => a.path \in Paths
    /\ a.kind = "hardlink" => a.keep \in Paths /\ a.replace \subseteq Paths

Tiers == {"copy", "publish", "prove", "leave", "verify"}
Named(j) ==
  /\ j.at \in Tiers \cup {"move", "note"} => j.path \in Paths
  /\ j.at \in {"link", "swap"} \cup Tiers \/ j.why = "tier" => j.dest \in Paths
  /\ j.at \in Tiers => j.why = "tier"
  /\ j.at \in {"move", "note"} => j.why \in {"plan", "tier"}

JobTyped == job \in [Programs -> Job] /\ \A g \in Programs : Named(job[g])

Typed == DiskTyped /\ BinTyped /\ PlanTyped /\ JobTyped

(* What a path is owed waits in the trash of a plan, or stands proven on   *)
(* the cold volume while its link is still to come.                        *)
Binned(p) == \E e \in bin : e.origin = p /\ e.why = "plan" /\ ContentOf(e.what) = owed[p]
Settled(q) == \A g \in Programs : ~(job[g].at = "prove" /\ job[g].dest = q)
Tiered(p) == \E q \in Paths : ContentOf(cold[q]) = owed[p] /\ Settled(q)
Between(p) == p \in struck \/ \E g \in Programs : job[g].path = p /\ job[g].at \in {"note", "leave"}

Placed(p) ==
  /\ IsFile(home[p]) => owed[p] = ContentOf(home[p])
  /\ home[p].is = "link" => owed[p] \in {NoContent, Reads(p)}
  /\ home[p] = Nothing /\ owed[p] # NoContent => Binned(p) \/ (Tiered(p) /\ Between(p))

(* What a command is sure of at each of its steps.                         *)
Is(p, sha) == IsFile(home[p]) /\ ContentOf(home[p]) = sha
Proven(j) == j.sha \in Contents /\ ContentOf(cold[j.dest]) = j.sha
Unbound(d) == \A p \in Paths : home[p] = Link(d) => owed[p] = NoContent

SureLink(j) == j.at \in {"link", "swap"} => Is(j.dest, j.sha) /\ \A p \in j.todo : Is(p, j.sha)
SureSwap(g, j) == j.at = "swap" => temp[g] \in HomeFiles /\ ContentOf(temp[g]) = j.sha
SureMove(j) ==
  /\ j.at = "move" /\ j.why = "plan" => IsFile(home[j.path])
  /\ j.at = "move" /\ j.why = "tier" => Proven(j) /\ Reads(j.path) = j.sha
  /\ j.at = "verify" => Proven(j)
SureCopy(g, j) ==
  /\ j.at \in {"copy", "publish", "prove"} =>
       Is(j.path, j.sha) /\ j.path = j.dest /\ Unbound(j.dest)
  /\ j.at \in {"copy", "publish"} => cold[j.dest] = Nothing
  /\ j.at = "publish" => temp[g] \in ColdFiles
SureNote(j) ==
  home[j.path] = Nothing /\ owed[j.path] # NoContent =>
    /\ j.at = "note" /\ j.why = "plan" => Binned(j.path)
    /\ j.at \in {"note", "leave"} /\ j.why = "tier" => owed[j.path] = j.sha
SureTemp(g, j) == temp[g] # Nothing => j.at \in {"swap", "publish"}
SureLeave(j) == j.at \in {"note", "leave"} /\ j.why = "tier" => Proven(j)

Sure(g) ==
  LET j == job[g]
  IN  /\ SureLink(j) /\ SureSwap(g, j) /\ SureMove(j) /\ SureCopy(g, j)
      /\ SureNote(j) /\ SureLeave(j) /\ SureTemp(g, j)

StoreInv ==
  /\ Typed
  /\ \A p \in Paths : Placed(p)
  /\ \A g \in Programs : Sure(g)

(* Nobody puts back a file between the moment when a command has read it   *)
(* again and the one when it moves it.                                     *)
CarefulRestore ==
  \A e \in bin, g \in Programs :
    job[g].at = "move" /\ job[g].path = e.origin => ~Restore(e)

-----------------------------------------------------------------------------
(* A plan only names paths that the scan saw: its choices have a choice.   *)

LEMMA LeastNat ==
  ASSUME NEW S, S \subseteq Nat, S # {}
  PROVE  \E m \in S : \A n \in S : m <= n
<1> DEFINE R == OpToRel(<, Nat)
<1>1. PICK m \in S : \A y \in S : ~ (<<y, m>> \in R)
  BY NatLessThanWellFounded, WFMin
<1>2. \A x, y \in Nat : y < x => <<y, x>> \in R
  BY Zenon DEF OpToRel
<1> HIDE DEF R
<1>3. \A y \in S : y \in Nat /\ m \in Nat /\ ~(y < m)
  BY Zenon, <1>1, <1>2
<1> QED
  BY <1>3, SMT

LEMMA LeastOf ==
  ASSUME NEW S, S # {}, NEW f, \A x \in S : f[x] \in Nat
  PROVE  \E m \in S : \A n \in S : f[m] <= f[n]
<1> DEFINE Im == {f[x] : x \in S}
<1>1. Im \subseteq Nat /\ Im # {}
  OBVIOUS
<1>2. PICK i \in Im : \A k \in Im : i <= k
  <2> HIDE DEF Im
  <2> QED
    BY <1>1, LeastNat
<1> QED
  BY <1>2

LEMMA ClustersWithin ==
  ASSUME NEW R
  PROVE  /\ \A c \in ByInode(R) : c \subseteq R /\ c # {}
         /\ \A c, d \in ByInode(R) : c # d => c \cap d = {}
  BY DEF ByInode

(* Each path once, and its manager is its own.                             *)
Observations(park) ==
  /\ \A r \in park : r.path \in Nat /\ r.manager = r.path
  /\ \A r, s \in park : r.path = s.path => r = s

LEMMA FirstIn ==
  ASSUME NEW park, Observations(park), NEW c, c \subseteq park, c # {}
  PROVE  FirstOf(c) \in c
<1> DEFINE f == [r \in c |-> r.path]
<1>1. PICK m \in c : \A n \in c : f[m] <= f[n]
  <2>1. \A r \in c : f[r] \in Nat
    BY DEF Observations
  <2> HIDE DEF f
  <2> QED
    BY <2>1, LeastOf
<1>2. \E r \in c : \A q \in c : r.path <= q.path
  BY <1>1
<1> QED
  BY <1>2 DEF FirstOf

LEMMA KeeperIn ==
  ASSUME NEW park, Observations(park), NEW K, K # {},
         \A c \in K : c \subseteq park /\ c # {},
         \A c, d \in K : c # d => c \cap d = {}
  PROVE  PreferredKeeper(K) \in K
<1> DEFINE cov == [c \in K |-> IF Covered(c) THEN 1 ELSE 0]
           man == [c \in K |-> FirstOf(c).manager]
<1>1. \A c \in K : FirstOf(c) \in c /\ FirstOf(c) \in park
  BY FirstIn
<1>2. \A c \in K : cov[c] \in Nat /\ man[c] \in Nat
  BY <1>1 DEF Observations
<1>3. \A c, d \in K : c # d => man[c] # man[d]
  BY <1>1 DEF Observations
<1>4. \A c \in K : DOMAIN KeeperRank(c) = 1 .. 4 /\ KeeperRank(c)[1] = cov[c] /\ KeeperRank(c)[2] = man[c]
  BY DEF KeeperRank
<1> HIDE DEF cov, man
<1>5. PICK a \in K : \A d \in K : cov[a] <= cov[d]
  BY <1>2, LeastOf
<1> DEFINE L == {c \in K : cov[c] = cov[a]}
<1>6. PICK b \in L : \A d \in L : man[b] <= man[d]
  <2>1. L # {} /\ \A c \in L : man[c] \in Nat
    BY <1>2
  <2> HIDE DEF L
  <2> QED
    BY <2>1, LeastOf
<1>7. ASSUME NEW d \in K \ {b}
      PROVE  Before(KeeperRank(b), KeeperRank(d))
  <2>1. b \in K /\ cov[b] = cov[a]
    BY <1>6
  <2>2. CASE cov[d] # cov[b]
    <3>1. KeeperRank(b)[1] < KeeperRank(d)[1]
      BY <1>2, <1>4, <1>5, <2>1, <2>2
    <3>2. 1 \in DOMAIN KeeperRank(b) /\ \A k \in 1 .. (1 - 1) : FALSE
      BY <1>4, <2>1
    <3> QED
      BY <3>1, <3>2 DEF Before
  <2>3. CASE cov[d] = cov[b]
    <3>1. KeeperRank(b)[2] < KeeperRank(d)[2]
      BY <1>2, <1>3, <1>4, <1>6, <2>1, <2>3
    <3>2. KeeperRank(b)[1] = KeeperRank(d)[1]
      BY <1>4, <2>1, <2>3
    <3>3. 2 \in DOMAIN KeeperRank(b) /\ \A k \in 1 .. (2 - 1) : k = 1
      BY <1>4, <2>1
    <3> QED
      BY <3>1, <3>2, <3>3 DEF Before
  <2> QED
    BY <2>2, <2>3
<1>8. \E c \in K : \A d \in K \ {c} : Before(KeeperRank(c), KeeperRank(d))
  BY <1>6, <1>7
<1> QED
  BY <1>8 DEF PreferredKeeper

LEMMA DuplicatesWithin ==
  ASSUME NEW park, Observations(park), NEW kept, kept \subseteq park, NEW d \in Duplicates(kept)
  PROVE  d.keep \in {r.path : r \in park} /\ d.replace \subseteq {r.path : r \in park}
<1> DEFINE on(v) == ByInode({r \in kept : r.vol = v})
           keep(v) == PreferredKeeper(on(v))
           gone(v) == {c \in on(v) \ {keep(v)} : Covered(c)}
<1>1. PICK v \in {w \in {r.vol : r \in kept} : gone(w) # {}} :
        d = [keep    |-> FirstOf(keep(v)).path,
             replace |-> {r.path : r \in UNION gone(v)},
             bytes   |-> Cardinality(gone(v)) * SizeOf(kept)]
  BY DEF Duplicates
<1>2. /\ on(v) # {}
      /\ \A c \in on(v) : c \subseteq park /\ c # {}
      /\ \A c, e \in on(v) : c # e => c \cap e = {}
  <2>1. on(v) # {}
    BY <1>1
  <2> DEFINE R == {r \in kept : r.vol = v}
  <2>2. R \subseteq park
    OBVIOUS
  <2> HIDE DEF R
  <2>3. /\ \A c \in ByInode(R) : c \subseteq R /\ c # {}
        /\ \A c, e \in ByInode(R) : c # e => c \cap e = {}
    BY ClustersWithin
  <2> QED
    BY <2>1, <2>2, <2>3 DEF R
<1>3. keep(v) \in on(v)
  <2> DEFINE K == on(v)
  <2>1. K # {} /\ (\A c \in K : c \subseteq park /\ c # {}) /\ \A c, e \in K : c # e => c \cap e = {}
    BY <1>2
  <2> HIDE DEF K
  <2>2. PreferredKeeper(K) \in K
    BY <2>1, KeeperIn
  <2> QED
    BY <2>2 DEF K
<1>4. FirstOf(keep(v)) \in park
  BY <1>2, <1>3, FirstIn
<1>5. UNION gone(v) \subseteq park
  BY <1>2
<1> HIDE DEF on, keep, gone
<1>6. d.keep = FirstOf(keep(v)).path /\ d.replace = {r.path : r \in UNION gone(v)}
  BY <1>1
<1> QED
  BY <1>4, <1>5, <1>6

LEMMA SharesWithin ==
  ASSUME NEW R, NEW s \in Shares(R)
  PROVE  s.path \in {r.path : r \in R}
<1>1. PICK c \in ByInode(R) : s \in {[path |-> r.path, bytes |-> IF r = FirstOf(c) THEN r.size ELSE 0] : r \in c}
  BY DEF Shares
<1>2. c \subseteq R
  BY ClustersWithin
<1> QED
  BY <1>1, <1>2

LEMMA GroupsWithin ==
  ASSUME NEW park, NEW G \in GroupByContent(park)
  PROVE  G \subseteq park
<1>1. PICK k : G = UNION {c \in ByInode(park) : ContentKey(c) = k}
  BY DEF GroupByContent
<1> QED
  BY <1>1, ClustersWithin

NamesOnly(a, paths) ==
  /\ a.kind = "trash" => a.path \in paths
  /\ a.kind = "hardlink" => a.keep \in paths /\ a.replace \subseteq paths

LEMMA PlanWithin ==
  ASSUME NEW park, Observations(park), NEW unused, NEW verified \in BOOLEAN,
         NEW a \in GeneratePlan(park, unused, verified)
  PROVE  NamesOnly(a, {r.path : r \in park})
<1>1. PICK G \in GroupByContent(park) :
        LET x == Attribution(G, unused)
        IN  a \in {[kind |-> "hardlink", keep |-> d.keep, replace |-> d.replace,
                    sha |-> x.sha, bytes |-> d.bytes] :
                     d \in IF verified /\ ~x.read THEN {} ELSE x.dups}
                  \cup {TrashAction(s, x.sha, x.poste) : s \in x.trash}
                  \cup {TrashAction(s, x.sha, "unused") : s \in x.unused}
  BY DEF GeneratePlan, Classify
<1> DEFINE x == Attribution(G, unused)
           kept == IF SizeOf(G) = 0 THEN {} ELSE Kept(G)
           out == {r \in Disposable(G) : InodeOf(r) \notin {InodeOf(q) : q \in kept} /\ r.size # 0}
<1>2. kept \subseteq park /\ out \subseteq park
  BY GroupsWithin DEF Kept, Disposable
<1>3. /\ x.trash = Shares(out)
      /\ x.unused \subseteq Shares(kept)
      /\ x.dups \subseteq Duplicates(kept)
  BY DEF Attribution
<1> HIDE DEF x, kept, out
<1>4. CASE \E d \in x.dups : a = [kind |-> "hardlink", keep |-> d.keep, replace |-> d.replace,
                                  sha |-> x.sha, bytes |-> d.bytes]
  <2>1. PICK d \in Duplicates(kept) : a.kind = "hardlink" /\ a.keep = d.keep /\ a.replace = d.replace
    BY <1>3, <1>4
  <2> QED
    BY <1>2, <2>1, DuplicatesWithin DEF NamesOnly
<1>5. CASE \E s \in x.trash \cup x.unused, why \in {x.poste, "unused"} : a = TrashAction(s, x.sha, why)
  <2>1. PICK s \in Shares(out) \cup Shares(kept) : a.kind = "trash" /\ a.path = s.path
    BY <1>3, <1>5 DEF TrashAction
  <2>2. s.path \in {r.path : r \in out} \cup {r.path : r \in kept}
    BY <2>1, SharesWithin
  <2>3. s.path \in {r.path : r \in park}
    BY <1>2, <2>2
  <2> QED
    BY <2>1, <2>3 DEF NamesOnly
<1> QED
  BY <1>1, <1>4, <1>5 DEF x

LEMMA ScanTyped ==
  ASSUME NEW read \in BOOLEAN, Scan(read)
  PROVE  PlanTyped'
<1> DEFINE park == {Observed(p, read) : p \in {q \in Paths : IsFile(home[q])}}
<1>1. seen'.plan = GeneratePlan(park, {}, FALSE)
  BY DEF Scan
<1>2. Observations(park)
  <2>1. \A r \in park : \E p \in Paths : r = Observed(p, read)
    OBVIOUS
  <2>2. \A p \in Paths : Observed(p, read).path = p /\ Observed(p, read).manager = p
    BY DEF Observed
  <2> HIDE DEF park
  <2> QED
    BY <2>1, <2>2, StoreAssumption DEF Observations
<1>3. {r.path : r \in park} \subseteq Paths
  BY DEF Observed
<1> HIDE DEF park
<1>4. \A a \in seen'.plan : NamesOnly(a, {r.path : r \in park})
  BY <1>1, <1>2, PlanWithin
<1> QED
  BY <1>3, <1>4 DEF PlanTyped, NamesOnly

-----------------------------------------------------------------------------
(* Entries and names. *)

LEMMA EntryKinds ==
  /\ Nothing.is = "nothing"
  /\ \A x \in HomeFiles : x.is = "file" /\ x.at \in HomeInodes /\ x = File(x.at)
  /\ \A x \in ColdFiles : x.is = "file" /\ x.at \in ColdInodes /\ x = File(x.at)
  /\ \A x \in Links : x.is = "link" /\ x.at \in Paths /\ x = Link(x.at)
  BY DEF Nothing, HomeFiles, ColdFiles, Links, File, Link

LEMMA HomeEntry ==
  ASSUME DiskTyped, NEW p \in Paths
  PROVE  /\ home[p] = Nothing \/ home[p] \in HomeFiles \/ home[p] \in Links
         /\ home[p].is = "nothing" <=> home[p] = Nothing
         /\ IsFile(home[p]) <=> home[p] \in HomeFiles
         /\ home[p].is = "link" <=> home[p] \in Links
         /\ IsFile(home[p]) => home[p].at \in HomeInodes /\ home[p] = File(home[p].at)
         /\ home[p].is = "link" => home[p].at \in Paths /\ home[p] = Link(home[p].at)
<1>1. home[p] = Nothing \/ home[p] \in HomeFiles \/ home[p] \in Links
  BY DEF DiskTyped
<1> QED
  BY <1>1, EntryKinds DEF IsFile

LEMMA ColdEntry ==
  ASSUME DiskTyped, NEW q \in Paths
  PROVE  /\ cold[q] = Nothing \/ cold[q] \in ColdFiles
         /\ IsFile(cold[q]) <=> cold[q] \in ColdFiles
         /\ IsFile(cold[q]) => cold[q].at \in ColdInodes /\ cold[q] = File(cold[q].at)
  BY DEF DiskTyped, Nothing, ColdFiles, File, IsFile

LEMMA FileContent ==
  ASSUME DiskTyped
  PROVE  /\ \A x \in HomeFiles : IsFile(x) /\ x.at \in HomeInodes /\ ContentOf(x) = file[x.at].content
                                 /\ ContentOf(x) \in Contents
         /\ \A x \in ColdFiles : IsFile(x) /\ x.at \in ColdInodes /\ ContentOf(x) = file[x.at].content
                                 /\ ContentOf(x) \in Contents \cup {Junk}
         /\ \A x \in Links \cup {Nothing} : ContentOf(x) = NoContent
  BY DEF DiskTyped, HomeFiles, ColdFiles, Links, Nothing, File, Link, IsFile, ContentOf, Inodes

NamedIn(names, i) == {n \in DOMAIN names : names[n] = File(i)}
Listing(i) == {e \in bin : e.what = File(i)}

(* The names of an inode are counted, none is forgotten. *)
LEMMA NamesAre ==
  ASSUME Typed, NEW i
  PROVE  /\ NamesOf(i) \in Nat
         /\ NamesOf(i) > 0 <=> \/ \E p \in Paths : home[p] = File(i) \/ cold[p] = File(i)
                               \/ \E g \in Programs : temp[g] = File(i)
                               \/ \E e \in bin : e.what = File(i)
                               \/ i \in debris
<1> DEFINE a == Cardinality(NamedIn(home, i))
           b == Cardinality(NamedIn(cold, i))
           c == Cardinality(NamedIn(temp, i))
           d == Cardinality(Listing(i))
           e == IF i \in debris THEN 1 ELSE 0
<1>1. NamesOf(i) = a + b + c + d + e
  BY DEF NamesOf, NamedIn, Listing
<1>2. /\ IsFiniteSet(NamedIn(home, i)) /\ IsFiniteSet(NamedIn(cold, i))
      /\ IsFiniteSet(NamedIn(temp, i)) /\ IsFiniteSet(Listing(i))
  <2>1. /\ NamedIn(home, i) \subseteq Paths /\ NamedIn(cold, i) \subseteq Paths
        /\ NamedIn(temp, i) \subseteq Programs /\ Listing(i) \subseteq bin
    BY DEF Typed, DiskTyped, NamedIn, Listing
  <2> QED
    BY <2>1, FS_Subset, StoreAssumption DEF Typed, BinTyped
<1>3. a \in Nat /\ b \in Nat /\ c \in Nat /\ d \in Nat /\ e \in Nat
  BY <1>2, FS_CardinalityType
<1>4. /\ a = 0 <=> NamedIn(home, i) = {}
      /\ b = 0 <=> NamedIn(cold, i) = {}
      /\ c = 0 <=> NamedIn(temp, i) = {}
      /\ d = 0 <=> Listing(i) = {}
      /\ e = 0 <=> i \notin debris
  BY <1>2, FS_EmptySet
<1> HIDE DEF a, b, c, d, e
<1>5. NamesOf(i) \in Nat /\ (NamesOf(i) > 0 <=> ~(a = 0 /\ b = 0 /\ c = 0 /\ d = 0 /\ e = 0))
  BY <1>1, <1>3
<1>6. /\ NamedIn(home, i) = {} <=> \A p \in Paths : home[p] # File(i)
      /\ NamedIn(cold, i) = {} <=> \A p \in Paths : cold[p] # File(i)
      /\ NamedIn(temp, i) = {} <=> \A g \in Programs : temp[g] # File(i)
      /\ Listing(i) = {} <=> \A x \in bin : x.what # File(i)
  BY DEF Typed, DiskTyped, NamedIn, Listing
<1> QED
  BY <1>4, <1>5, <1>6

LEMMA FreeIsFree ==
  ASSUME Typed, NEW volume, NEW i \in FreeInodes(volume)
  PROVE  /\ i \in volume
         /\ \A p \in Paths : home[p] # File(i) /\ cold[p] # File(i)
         /\ \A g \in Programs : temp[g] # File(i)
         /\ \A e \in bin : e.what # File(i)
         /\ i \notin debris
<1>1. i \in volume /\ NamesOf(i) = 0
  BY DEF FreeInodes
<1> QED
  BY <1>1, NamesAre

-----------------------------------------------------------------------------
(* A path that a step leaves alone. *)

LEMMA Undisturbed ==
  ASSUME NEW p, Placed(p), home'[p] = home[p], owed'[p] = owed[p],
         IsFile(home[p]) => ContentOf(home[p])' = ContentOf(home[p]),
         home[p].is = "link" /\ owed[p] # NoContent => Reads(p)' = Reads(p),
         Binned(p) /\ home[p] = Nothing /\ owed[p] # NoContent => Binned(p)',
         Tiered(p) /\ Between(p) /\ ~Binned(p) /\ home[p] = Nothing /\ owed[p] # NoContent =>
           Tiered(p)' /\ Between(p)'
  PROVE  Placed(p)'
<1>1. IsFile(home[p])' => owed'[p] = ContentOf(home[p])'
  BY DEF Placed, IsFile
<1>2. home'[p].is = "link" => owed'[p] \in {NoContent, Reads(p)'}
  BY DEF Placed
<1>3. home'[p] = Nothing /\ owed'[p] # NoContent => Binned(p)' \/ (Tiered(p)' /\ Between(p)')
  BY DEF Placed
<1> QED
  BY <1>1, <1>2, <1>3 DEF Placed

(* A step that only moves a command. *)
LEMMA Quiet ==
  ASSUME UNCHANGED <<home, cold, bin, file, owed>>,
         \A q \in Paths : Settled(q) => Settled(q)',
         NEW p \in Paths, Placed(p),
         Between(p) /\ ~Binned(p) /\ home[p] = Nothing /\ owed[p] # NoContent => Between(p)'
  PROVE  Placed(p)'
<1>1. ContentOf(home[p])' = ContentOf(home[p]) /\ Reads(p)' = Reads(p)
  BY DEF ContentOf, Reads, IsFile
<1>2. Binned(p)' <=> Binned(p)
  BY DEF Binned, ContentOf, IsFile
<1>3. Tiered(p) => Tiered(p)'
  BY DEF Tiered, ContentOf, IsFile
<1> QED
  BY <1>1, <1>2, <1>3, Undisturbed

(* The one command there is.                                               *)
LEMMA TheCommand ==
  ASSUME OneTerminal, NEW g \in Programs
  PROVE  \A h \in Programs : h = g
  BY DEF OneTerminal

(* A command that begins, goes on or stops without touching the disk.      *)
LEMMA CommandOnly ==
  ASSUME StoreInv, OneTerminal, NEW g \in Programs,
         UNCHANGED <<home, cold, debris, bin, file, seen, owed, struck, edits>>,
         temp' \in [Programs -> {Nothing} \cup HomeFiles \cup ColdFiles],
         job' \in [Programs -> Job], Named(job'[g]),
         job'[g].at # "prove", job[g].at \notin {"note", "leave"}, Sure(g)'
  PROVE  StoreInv'
<1>1. Typed'
  <2>1. DiskTyped' /\ BinTyped' /\ PlanTyped'
    BY DEF StoreInv, Typed, DiskTyped, BinTyped, PlanTyped
  <2>2. JobTyped'
    BY DEF StoreInv, Typed, JobTyped, OneTerminal
  <2> QED
    BY <2>1, <2>2 DEF Typed
<1>2. \A h \in Programs : h = g
  BY TheCommand
<1>3. \A q \in Paths : Settled(q)'
  BY <1>2 DEF Settled
<1>4. \A p \in Paths : Between(p) => Between(p)'
  BY <1>2 DEF Between
<1>5. \A p \in Paths : Placed(p)'
  BY <1>3, <1>4, Quiet DEF StoreInv
<1>6. \A h \in Programs : Sure(h)'
  BY <1>2
<1> QED
  BY <1>1, <1>5, <1>6 DEF StoreInv

-----------------------------------------------------------------------------
(* Commands begin, and go on or stop without touching the disk.            *)

LEMMA BeginLinkKeeps ==
  ASSUME StoreInv, OneTerminal, NEW g \in Programs, NEW a \in seen.plan, BeginLink(g, a)
  PROVE  StoreInv'
<1> DEFINE others == {p \in a.replace : home[p] # home[a.keep]}
<1>1. a.keep \in Paths /\ a.replace \subseteq Paths
  BY DEF BeginLink, StoreInv, Typed, PlanTyped
<1>2. Is(a.keep, a.sha) /\ \A p \in others : Is(p, a.sha)
  BY DEF BeginLink, NoDrift, Is
<1>3. a.sha \in Contents
  BY <1>1, <1>2, HomeEntry, FileContent DEF Is, StoreInv, Typed
<1>4. /\ job' = [job EXCEPT ![g] = [Idle EXCEPT !.at = "link", !.dest = a.keep,
                                                !.todo = others, !.sha = a.sha]]
      /\ UNCHANGED <<disk, seen, owed, struck, edits, crashes>> /\ job[g] = Idle
  BY DEF BeginLink
<1>5. others \subseteq Paths
  BY <1>1
<1> HIDE DEF others
<1>6. job'[g] = [at |-> "link", path |-> 0, dest |-> a.keep, todo |-> others, sha |-> a.sha,
                 why |-> "none"]
  BY <1>4 DEF Idle, StoreInv, Typed, JobTyped
<1>7. job' \in [Programs -> Job] /\ Named(job'[g])
  <2>1. job'[g] \in Job
    BY <1>1, <1>3, <1>5, <1>6 DEF Job, Work
  <2> QED
    BY <1>1, <1>4, <1>6, <2>1 DEF Named, Tiers, StoreInv, Typed, JobTyped
<1>8. Sure(g)'
  <2>1. temp'[g] = Nothing
    BY <1>4 DEF StoreInv, Sure, SureTemp, disk, Idle
  <2>2. Is(a.keep, a.sha)' /\ \A p \in others : Is(p, a.sha)'
    BY <1>2, <1>4 DEF Is, IsFile, ContentOf, disk
  <2> QED
    BY <1>6, <2>1, <2>2 DEF Sure, SureLink, SureSwap, SureMove, SureCopy, SureNote, SureLeave, SureTemp
<1> QED
  BY <1>4, <1>6, <1>7, <1>8, CommandOnly DEF disk, Idle, StoreInv, Typed, DiskTyped

LEMMA LinkTempKeeps ==
  ASSUME StoreInv, OneTerminal, NEW g \in Programs, LinkTemp(g)
  PROVE  StoreInv'
<1>0. PICK j : j = job[g]
  OBVIOUS
<1> USE <1>0
<1>1. /\ j.at = "link" /\ j.dest \in Paths
      /\ UNCHANGED <<home, cold, debris, bin, file, seen, owed, struck, edits>>
      /\ j \in Job /\ Named(j)
  BY DEF LinkTemp, StoreInv, Typed, JobTyped, Named
<1>2. Is(j.dest, j.sha) /\ \A p \in j.todo : Is(p, j.sha)
  BY <1>1 DEF StoreInv, Sure, SureLink
<1>3. /\ temp' = [temp EXCEPT ![g] = home[j.dest]]
      /\ job' = [job EXCEPT ![g].at = "swap"]
  BY <1>2 DEF LinkTemp, Is
<1>4. /\ home[j.dest] \in HomeFiles
      /\ temp' \in [Programs -> {Nothing} \cup HomeFiles \cup ColdFiles]
      /\ temp'[g] = home[j.dest]
  BY <1>1, <1>2, <1>3, HomeEntry DEF Is, StoreInv, Typed, DiskTyped
<1>5. job'[g] = [j EXCEPT !.at = "swap"]
  BY <1>3 DEF StoreInv, Typed, JobTyped
<1>6. /\ job'[g].at = "swap" /\ job'[g].dest = j.dest /\ job'[g].todo = j.todo
      /\ job'[g].sha = j.sha /\ job'[g].path = j.path /\ job'[g].why = j.why
      /\ job'[g] \in Job
  BY <1>1, <1>5 DEF Job, Work
<1>7. job' \in [Programs -> Job] /\ Named(job'[g])
  BY <1>1, <1>3, <1>6 DEF Named, Tiers, StoreInv, Typed, JobTyped
<1>8. Sure(g)'
  <2>1. Is(j.dest, j.sha)' /\ \A p \in j.todo : Is(p, j.sha)'
    BY <1>1, <1>2, <1>3 DEF Is, IsFile, ContentOf
  <2> QED
    BY <1>1, <1>2, <1>4, <1>6, <2>1
    DEF Is, Sure, SureLink, SureSwap, SureMove, SureCopy, SureNote, SureLeave, SureTemp, ContentOf, IsFile
<1> QED
  BY <1>1, <1>4, <1>6, <1>7, <1>8, CommandOnly

LEMMA StopsSure ==
  ASSUME NEW g \in Programs, job'[g] = Idle, temp'[g] = Nothing
  PROVE  Sure(g)'
  BY DEF Idle, Sure, SureLink, SureSwap, SureMove, SureCopy, SureNote, SureLeave, SureTemp

LEMMA IdleNamed == Idle \in Job /\ Named(Idle)
  BY DEF Idle, Job, Named, Tiers

LEMMA SwapFailsKeeps ==
  ASSUME StoreInv, OneTerminal, NEW g \in Programs, SwapFails(g)
  PROVE  StoreInv'
<1>1. job'[g] = Idle /\ temp'[g] = Nothing /\ job' \in [Programs -> Job]
      /\ temp' \in [Programs -> {Nothing} \cup HomeFiles \cup ColdFiles]
  BY IdleNamed DEF SwapFails, StoreInv, Typed, JobTyped, DiskTyped
<1>2. job'[g].at = "idle" /\ Named(job'[g]) /\ Sure(g)'
  BY <1>1, IdleNamed, StopsSure DEF Idle
<1> QED
  BY <1>1, <1>2, CommandOnly DEF SwapFails

LEMMA VerifyKeeps ==
  ASSUME StoreInv, OneTerminal, NEW g \in Programs, Verify(g)
  PROVE  StoreInv'
<1>0. PICK j : j = job[g]
  OBVIOUS
<1> USE <1>0
<1>1. /\ j.at = "verify" /\ j.why = "tier" /\ Proven(j) /\ temp[g] = Nothing
      /\ j \in Job /\ j.path \in Paths /\ j.dest \in Paths
      /\ UNCHANGED disk /\ UNCHANGED <<seen, owed, struck, edits>>
  BY DEF Verify, StoreInv, Typed, JobTyped, Named, Tiers, Sure, SureMove, SureTemp
<1>2. job'[g] = IF Reads(j.path) = j.sha THEN [j EXCEPT !.at = "move"] ELSE Idle
  BY DEF Verify, StoreInv, Typed, JobTyped
<1>3. job'[g] \in Job /\ Named(job'[g])
  BY <1>1, <1>2, IdleNamed DEF Named, Tiers, Job, Work
<1>4. job' \in [Programs -> Job]
  BY <1>2, <1>3 DEF Verify, StoreInv, Typed, JobTyped
<1>5. Sure(g)'
  <2>1. CASE job'[g] = Idle
    BY <1>1, <2>1, StopsSure DEF disk
  <2>2. CASE Reads(j.path) = j.sha /\ job'[g] = [j EXCEPT !.at = "move"]
    <3>2. job'[g].at = "move" /\ job'[g].path = j.path /\ job'[g].sha = j.sha
          /\ job'[g].dest = j.dest /\ job'[g].why = "tier" /\ temp'[g] = Nothing
      BY <1>1, <2>2 DEF Job, disk
    <3>3. Proven(j)' /\ Reads(j.path)' = j.sha
      BY <1>1, <2>2, <3>2 DEF Proven, Reads, ContentOf, IsFile, disk
    <3> QED
      BY <3>2, <3>3
      DEF Sure, SureLink, SureSwap, SureMove, SureCopy, SureNote, SureLeave, SureTemp, Proven
  <2> QED
    BY <1>2, <2>1, <2>2
<1>6. job'[g].at # "prove" /\ j.at \notin {"note", "leave"}
  BY <1>1, <1>2 DEF Idle, Job
<1>7. temp' \in [Programs -> {Nothing} \cup HomeFiles \cup ColdFiles]
  BY <1>1 DEF disk, StoreInv, Typed, DiskTyped
<1> QED
  BY <1>1, <1>3, <1>4, <1>5, <1>6, <1>7, CommandOnly DEF disk

LEMMA BeginTrashKeeps ==
  ASSUME StoreInv, OneTerminal, NEW g \in Programs, NEW a \in seen.plan, BeginTrash(g, a)
  PROVE  StoreInv'
<1>1. /\ a.path \in Paths /\ IsFile(home[a.path]) /\ job[g] = Idle
      /\ UNCHANGED <<disk, seen, owed, struck, edits>>
      /\ job' = [job EXCEPT ![g] = [Idle EXCEPT !.at = "move", !.path = a.path, !.why = "plan"]]
  BY DEF BeginTrash, NoDrift, StoreInv, Typed, PlanTyped
<1>2. job'[g] = [at |-> "move", path |-> a.path, dest |-> 0, todo |-> {}, sha |-> NoSha, why |-> "plan"]
  BY <1>1 DEF Idle, StoreInv, Typed, JobTyped
<1>3. job'[g] \in Job /\ Named(job'[g])
  <2>1. PICK q \in Paths : q = a.path
    BY <1>1
  <2>2. job'[g] \in Job
    BY <1>2, <2>1 DEF Job, Work
  <2> QED
    BY <1>1, <1>2, <2>2 DEF Named, Tiers
<1>4. job' \in [Programs -> Job] /\ temp' \in [Programs -> {Nothing} \cup HomeFiles \cup ColdFiles]
  BY <1>1, <1>3 DEF disk, StoreInv, Typed, JobTyped, DiskTyped
<1>5. Sure(g)'
  <2>1. temp'[g] = Nothing /\ IsFile(home[a.path])'
    BY <1>1 DEF StoreInv, Sure, SureTemp, disk, Idle, IsFile
  <2> QED
    BY <1>2, <2>1 DEF Sure, SureLink, SureSwap, SureMove, SureCopy, SureNote, SureLeave, SureTemp
<1> QED
  BY <1>1, <1>2, <1>3, <1>4, <1>5, CommandOnly DEF disk, Idle

LEMMA BeginTierKeeps ==
  ASSUME StoreInv, OneTerminal, NEW g \in Programs, NEW p \in Paths, BeginTier(g, p)
  PROVE  StoreInv'
<1> DEFINE cluster == {q \in Paths : seen.stat[q] # <<0, 0>> /\ seen.stat[q][1] = seen.stat[p][1]}
<1>1. /\ IsFile(home[p]) /\ job[g] = Idle /\ UNCHANGED <<disk, seen, owed, struck, edits>>
      /\ cold[p] # Nothing => ContentOf(cold[p]) = ContentOf(home[p])
      /\ job' = [job EXCEPT ![g] = [at |-> IF cold[p] = Nothing THEN "copy" ELSE "move",
                                    path |-> p, dest |-> p, todo |-> cluster \ {p},
                                    sha |-> ContentOf(home[p]), why |-> "tier"]]
  BY DEF BeginTier
<1>2. cluster \ {p} \subseteq Paths
  OBVIOUS
<1> DEFINE todo == cluster \ {p}
<1>3. job'[g] = [at |-> IF cold[p] = Nothing THEN "copy" ELSE "move", path |-> p, dest |-> p,
                 todo |-> todo, sha |-> ContentOf(home[p]), why |-> "tier"]
  BY <1>1 DEF StoreInv, Typed, JobTyped
<1>4. ContentOf(home[p]) \in Contents
  BY <1>1, HomeEntry, FileContent DEF StoreInv, Typed
<1> HIDE DEF todo, cluster
<1>5. job'[g] \in Job /\ Named(job'[g])
  <2>1. todo \in SUBSET Paths
    BY <1>2 DEF todo
  <2> QED
    BY <1>3, <1>4, <2>1 DEF Job, Work, Named, Tiers
<1>6. job' \in [Programs -> Job] /\ temp' \in [Programs -> {Nothing} \cup HomeFiles \cup ColdFiles]
  BY <1>1, <1>3, <1>5 DEF disk, StoreInv, Typed, JobTyped, DiskTyped, todo, cluster
<1>7. Is(p, ContentOf(home[p]))' /\ temp'[g] = Nothing /\ cold' = cold
      /\ ContentOf(home[p])' = ContentOf(home[p]) /\ Reads(p)' = ContentOf(home[p])
  BY <1>1 DEF Is, ContentOf, IsFile, Reads, disk, StoreInv, Sure, SureTemp, Idle
<1>8. cold[p] = Nothing => Unbound(p)'
  <2>1. ASSUME cold[p] = Nothing, NEW q \in Paths, home[q] = Link(p) PROVE owed[q] = NoContent
    <3>1. home[q].is = "link" /\ home[q].at = p
      BY <2>1 DEF Link
    <3>2. Reads(q) = NoContent
      BY <2>1, <3>1 DEF Reads, ContentOf, IsFile, Nothing
    <3> QED
      BY <3>1, <3>2 DEF StoreInv, Placed
  <2> QED
    BY <1>1, <2>1 DEF Unbound, disk
<1>9. cold[p] # Nothing => ContentOf(cold[p])' = ContentOf(home[p])
  BY <1>1 DEF ContentOf, IsFile, disk
<1>10. Sure(g)'
  BY <1>3, <1>4, <1>7, <1>8, <1>9
  DEF Sure, SureLink, SureSwap, SureMove, SureCopy, SureNote, SureLeave, SureTemp, Proven
<1>11. job'[g].at # "prove" /\ job[g].at \notin {"note", "leave"}
  BY <1>1, <1>3 DEF Idle
<1> QED
  BY <1>1, <1>5, <1>6, <1>10, <1>11, CommandOnly DEF disk

-----------------------------------------------------------------------------
(* Commands that change the disk.                                          *)

LEMMA Assemble ==
  ASSUME OneTerminal, NEW g \in Programs, DiskTyped', BinTyped', PlanTyped',
         job' \in [Programs -> Job], Named(job'[g]), Sure(g)',
         \A p \in Paths : Placed(p)'
  PROVE  StoreInv'
<1>1. JobTyped' /\ \A h \in Programs : Sure(h)'
  BY TheCommand DEF JobTyped
<1> QED
  BY <1>1 DEF StoreInv, Typed

LEMMA SamePlan ==
  ASSUME StoreInv, UNCHANGED seen
  PROVE  PlanTyped'
  BY DEF StoreInv, Typed, PlanTyped

LEMMA SwapKeeps ==
  ASSUME StoreInv, OneTerminal, NEW g \in Programs, NEW p \in Paths, Swap(g, p)
  PROVE  StoreInv'
<1>0. PICK j : j = job[g]
  OBVIOUS
<1> USE <1>0
<1>1. /\ j.at = "swap" /\ p \in j.todo /\ j.dest \in Paths
      /\ j \in Job /\ Is(p, j.sha) /\ Is(j.dest, j.sha)
      /\ \A q \in j.todo : Is(q, j.sha)
      /\ temp[g] \in HomeFiles /\ ContentOf(temp[g]) = j.sha
  BY DEF Swap, StoreInv, Typed, JobTyped, Named, Sure, SureLink, SureSwap
<1>2. /\ home' = [home EXCEPT ![p] = temp[g]] /\ temp' = [temp EXCEPT ![g] = Nothing]
      /\ UNCHANGED <<cold, debris, bin, file, seen, owed, struck, edits>>
      /\ job' = [job EXCEPT ![g] = IF job[g].todo = {p} THEN Idle
                               ELSE [job[g] EXCEPT !.at = "link", !.todo = job[g].todo \ {p}]]
  BY DEF Swap
<1>3. job'[g] = IF j.todo = {p} THEN Idle
                ELSE [j EXCEPT !.at = "link", !.todo = j.todo \ {p}]
  BY <1>2 DEF StoreInv, Typed, JobTyped
<1>4. job'[g] = Idle \/ /\ job'[g] \in Job /\ job'[g].at = "link" /\ job'[g].dest = j.dest
                        /\ job'[g].sha = j.sha /\ job'[g].todo \subseteq j.todo
                        /\ job'[g].why = j.why /\ job'[g].path = j.path
  <2>1. PICK T \in SUBSET Paths : T = j.todo \ {p}
    BY <1>1 DEF Job
  <2>2. job'[g] = Idle \/ job'[g] = [j EXCEPT !.at = "link", !.todo = T]
    BY <1>3, <2>1
  <2>3. T \subseteq j.todo
    BY <2>1
  <2> QED
    BY <1>1, <2>2, <2>3 DEF Job, Work
<1>5. job' \in [Programs -> Job] /\ Named(job'[g])
  BY <1>1, <1>2, <1>3, <1>4, IdleNamed DEF Named, Tiers, StoreInv, Typed, JobTyped
<1>6. /\ \A x : ContentOf(x)' = ContentOf(x) /\ IsFile(x)' = IsFile(x)
      /\ home'[p] = temp[g] /\ \A q \in Paths \ {p} : home'[q] = home[q]
      /\ temp'[g] = Nothing
      /\ IsFile(temp[g])
  BY <1>1, <1>2, FileContent DEF ContentOf, IsFile, StoreInv, Typed, DiskTyped
<1>7. DiskTyped' /\ BinTyped' /\ PlanTyped'
  BY <1>1, <1>2, SamePlan DEF StoreInv, Typed, DiskTyped, BinTyped
<1>8. \A q \in Paths : Is(q, j.sha) => Is(q, j.sha)'
  BY <1>1, <1>6 DEF Is, ContentOf, IsFile
<1>9. Sure(g)'
  <2>1. CASE job'[g] = Idle
    BY <1>6, <2>1, StopsSure
  <2>2. CASE job'[g] # Idle
    <3>1. /\ job'[g].at = "link" /\ job'[g].dest = j.dest
          /\ job'[g].sha = j.sha /\ job'[g].todo \subseteq j.todo
          /\ j.todo \subseteq Paths
      BY <1>1, <1>4, <2>2 DEF Job
    <3>2. Is(j.dest, j.sha)' /\ \A q \in job'[g].todo : Is(q, j.sha)'
      BY <1>1, <1>8, <3>1 DEF Is
    <3> QED
      BY <1>6, <3>1, <3>2
      DEF Sure, SureLink, SureSwap, SureMove, SureCopy, SureNote, SureLeave, SureTemp
  <2> QED
    BY <2>1, <2>2
<1>10. ASSUME NEW q \in Paths PROVE Placed(q)'
  <2>1. Placed(q)
    BY DEF StoreInv
  <2>2. CASE q = p
    <3>1. owed[p] = j.sha
      BY <1>1, <2>1, <2>2 DEF Placed, Is
    <3>2. home'[p].is = "file" /\ ContentOf(home[p])' = j.sha
      BY <1>1, <1>2, <1>6 DEF IsFile, ContentOf
    <3> QED
      BY <1>2, <2>2, <3>1, <3>2 DEF Placed, Nothing
  <2>3. CASE q # p
    <3>1. /\ home'[q] = home[q] /\ owed'[q] = owed[q]
          /\ ContentOf(home[q])' = ContentOf(home[q]) /\ Reads(q)' = Reads(q)
      BY <1>2, <1>6, <2>3 DEF Reads, ContentOf, IsFile
    <3>2. Binned(q) => Binned(q)'
      BY <1>2, <1>6 DEF Binned, ContentOf, IsFile
    <3>3. Tiered(q) => Tiered(q)'
      <4>1. \A r \in Paths : Settled(r)'
        BY <1>4, TheCommand DEF Settled, Idle
      <4> QED
        BY <1>2, <4>1 DEF Tiered, ContentOf, IsFile
    <3>4. Between(q) => Between(q)'
      BY <1>1, <1>2, TheCommand DEF Between
    <3> QED
      BY <2>1, <3>1, <3>2, <3>3, <3>4, Undisturbed
  <2> QED
    BY <2>2, <2>3
<1> QED
  BY <1>5, <1>7, <1>9, <1>10, Assemble

(* The paths a step does not name, when it leaves cold volume and contents alone. *)
LEMMA OthersKeep ==
  ASSUME StoreInv, UNCHANGED <<cold, file>>, NEW q \in Paths,
         home'[q] = home[q], owed'[q] = owed[q],
         Binned(q) /\ home[q] = Nothing /\ owed[q] # NoContent => Binned(q)',
         \A r \in Paths : Settled(r) => Settled(r)',
         Between(q) /\ ~Binned(q) /\ home[q] = Nothing /\ owed[q] # NoContent => Between(q)'
  PROVE  Placed(q)'
<1>1. ContentOf(home[q])' = ContentOf(home[q]) /\ Reads(q)' = Reads(q)
  BY DEF ContentOf, Reads, IsFile
<1>2. Tiered(q) => Tiered(q)'
  BY DEF Tiered, ContentOf, IsFile
<1> QED
  BY <1>1, <1>2, Undisturbed DEF StoreInv

LEMMA MoveKeeps ==
  ASSUME StoreInv, OneTerminal, NEW g \in Programs, Move(g)
  PROVE  StoreInv'
<1>0. PICK j : j = job[g]
  OBVIOUS
<1> USE <1>0
<1> DEFINE p == j.path
           e == [what |-> home[p], origin |-> p, why |-> j.why, listed |-> FALSE]
<1>1. /\ j.at = "move" /\ p \in Paths /\ j.why \in {"plan", "tier"}
      /\ j \in Job /\ temp[g] = Nothing
      /\ j.why = "plan" => IsFile(home[p])
      /\ j.why = "tier" => j.dest \in Paths /\ Proven(j) /\ Reads(p) = j.sha
  BY DEF Move, StoreInv, Typed, JobTyped, Named, Sure, SureMove, SureTemp
<1>2. home[p] # Nothing
  <2>1. CASE j.why = "plan"
    BY <1>1, <2>1 DEF IsFile, Nothing
  <2>2. CASE j.why = "tier"
    BY <1>1, <2>2, StoreAssumption DEF Reads, ContentOf, IsFile, Nothing, Proven
  <2> QED
    BY <1>1, <2>1, <2>2
<1>3. /\ bin' = bin \cup {e} /\ home' = [home EXCEPT ![p] = Nothing]
      /\ job' = [job EXCEPT ![g].at = "note"]
      /\ UNCHANGED <<cold, temp, debris, file, seen, owed, struck, edits>>
  BY <1>2 DEF Move
<1>4. home[p] \in HomeFiles \cup Links /\ home'[p] = Nothing
      /\ \A q \in Paths \ {p} : home'[q] = home[q]
  BY <1>1, <1>2, <1>3, HomeEntry DEF StoreInv, Typed, DiskTyped
<1>5. job'[g] = [j EXCEPT !.at = "note"]
  BY <1>3 DEF StoreInv, Typed, JobTyped
<1>6. /\ job'[g].at = "note" /\ job'[g].path = p /\ job'[g].dest = j.dest
      /\ job'[g].sha = j.sha /\ job'[g].why = j.why /\ job'[g] \in Job
  BY <1>1, <1>5 DEF Job, Work
<1>7. job' \in [Programs -> Job] /\ Named(job'[g])
  BY <1>1, <1>3, <1>6 DEF Named, Tiers, StoreInv, Typed, JobTyped
<1>8. e \in bin' /\ e.origin = p /\ e.why = j.why /\ e.what = home[p]
  BY <1>3
<1>9. DiskTyped'
  BY <1>1, <1>3 DEF StoreInv, Typed, DiskTyped
<1>10. BinTyped'
  <2>1. e \in [what : {Nothing} \cup HomeFiles \cup ColdFiles \cup Links,
               origin : Paths \cup {0}, why : {"plan", "tier"}, listed : BOOLEAN]
    BY <1>1, <1>4
  <2>2. IsFiniteSet(bin')
    <3> HIDE DEF e
    <3> QED
      BY <1>3, FS_AddElement DEF StoreInv, Typed, BinTyped
  <2>3. e.what \in HomeFiles \cup Links
    BY <1>4
  <2> HIDE DEF e
  <2> QED
    BY <1>3, <2>1, <2>2, <2>3 DEF StoreInv, Typed, BinTyped
<1> HIDE DEF e
<1>11. owed[p] = j.sha \/ j.why = "plan" \/ owed[p] = NoContent
  BY <1>1, <1>4, HomeEntry DEF StoreInv, Typed, Placed, Reads, IsFile
<1>12. j.why = "plan" => owed[p] = ContentOf(home[p])
  BY <1>1 DEF StoreInv, Placed
<1>13. j.why = "plan" => Binned(p)'
  BY <1>3, <1>8, <1>12 DEF Binned, ContentOf, IsFile
<1>14. j.why = "tier" => Proven(j)'
  BY <1>1, <1>3 DEF Proven, ContentOf, IsFile
<1>15. \A r \in Paths : Settled(r)'
  BY <1>6, TheCommand DEF Settled
<1>16. Sure(g)'
  BY <1>1, <1>3, <1>6, <1>11, <1>13, <1>14
  DEF Sure, SureLink, SureSwap, SureMove, SureCopy, SureNote, SureLeave, SureTemp, Proven
<1>17. ASSUME NEW q \in Paths PROVE Placed(q)'
  <2>1. CASE q = p
    <3>1. owed[p] # NoContent /\ j.why = "tier" => Tiered(p)' /\ Between(p)'
      <4> SUFFICES ASSUME owed[p] # NoContent, j.why = "tier" PROVE Tiered(p)' /\ Between(p)'
        OBVIOUS
      <4>1. ContentOf(cold[j.dest])' = owed'[p]
        BY <1>3, <1>11, <1>14 DEF Proven
      <4> QED
        BY <1>1, <1>6, <1>15, <4>1 DEF Tiered, Between
    <3> QED
      BY <1>1, <1>3, <1>4, <1>13, <2>1, <3>1 DEF Placed, IsFile, Nothing
  <2>2. CASE q # p
    <3>1. Binned(q) => Binned(q)'
      BY <1>3 DEF Binned, ContentOf, IsFile
    <3>2. Between(q) => Between(q)'
      BY <1>1, <1>3, TheCommand DEF Between
    <3> QED
      BY <1>3, <1>4, <1>15, <2>2, <3>1, <3>2, OthersKeep
  <2> QED
    BY <2>1, <2>2
<1> QED
  BY <1>3, <1>7, <1>9, <1>10, <1>16, <1>17, Assemble, SamePlan

LEMMA NoteKeeps ==
  ASSUME StoreInv, OneTerminal, NothingAwkward, NEW g \in Programs, Note(g)
  PROVE  StoreInv'
<1>0. PICK j : j = job[g]
  OBVIOUS
<1> USE <1>0
<1> DEFINE p == j.path
<1>1. /\ j.at = "note" /\ p \in Paths /\ j.why \in {"plan", "tier"}
      /\ j \in Job /\ temp[g] = Nothing
      /\ j.why = "tier" => j.dest \in Paths /\ Proven(j)
      /\ home[p] = Nothing /\ owed[p] # NoContent =>
           /\ j.why = "plan" => Binned(p)
           /\ j.why = "tier" => owed[p] = j.sha
  BY DEF Note, StoreInv, Typed, JobTyped, Named, Sure, SureNote, SureLeave, SureTemp
<1>2. PICK e \in bin : /\ e.origin = p /\ ~e.listed
                       /\ bin' = (bin \ {e}) \cup {[e EXCEPT !.listed = TRUE]}
                       /\ file' = file
  BY DEF Note, NothingAwkward
<1>3. /\ UNCHANGED <<home, cold, temp, debris, seen, owed, struck, edits, file>>
      /\ job' = [job EXCEPT ![g] = IF j.why = "tier" THEN [j EXCEPT !.at = "leave"] ELSE Idle]
  BY <1>2 DEF Note
<1>4. job'[g] = IF j.why = "tier" THEN [j EXCEPT !.at = "leave"] ELSE Idle
  BY <1>3 DEF StoreInv, Typed, JobTyped
<1>5. j.why = "tier" =>
        /\ job'[g].at = "leave" /\ job'[g].path = p /\ job'[g].dest = j.dest
        /\ job'[g].sha = j.sha /\ job'[g].why = "tier" /\ job'[g] \in Job
  BY <1>1, <1>4 DEF Job, Work
<1>6. job' \in [Programs -> Job] /\ Named(job'[g])
  BY <1>1, <1>3, <1>4, <1>5, IdleNamed DEF Named, Tiers, StoreInv, Typed, JobTyped
<1> DEFINE f == [e EXCEPT !.listed = TRUE]
<1>7. f \in [what : {Nothing} \cup HomeFiles \cup ColdFiles \cup Links,
             origin : Paths \cup {0}, why : {"plan", "tier"}, listed : BOOLEAN]
      /\ f.what = e.what /\ f.origin = e.origin /\ f.why = e.why
  BY DEF StoreInv, Typed, BinTyped
<1> HIDE DEF f
<1>8. bin' = (bin \ {e}) \cup {f}
  BY <1>2 DEF f
<1>9. DiskTyped' /\ BinTyped'
  <2>1. IsFiniteSet(bin')
    BY <1>8, FS_AddElement, FS_RemoveElement DEF StoreInv, Typed, BinTyped
  <2> QED
    BY <1>3, <1>7, <1>8, <2>1 DEF StoreInv, Typed, BinTyped, DiskTyped
<1>10. ASSUME NEW q \in Paths, Binned(q) PROVE Binned(q)'
  <2>1. PICK x \in bin : x.origin = q /\ x.why = "plan" /\ ContentOf(x.what) = owed[q]
    BY <1>10 DEF Binned
  <2>2. PICK y \in bin' : y.origin = x.origin /\ y.why = x.why /\ y.what = x.what
    BY <1>7, <1>8
  <2>3. ContentOf(y.what)' = ContentOf(x.what)
    BY <1>3, <2>2 DEF ContentOf, IsFile
  <2> QED
    BY <1>3, <2>1, <2>2, <2>3 DEF Binned
<1>11. \A r \in Paths : Settled(r)'
  <2>1. job'[g].at # "prove"
    BY <1>1, <1>4, <1>5 DEF Idle
  <2> QED
    BY <2>1, TheCommand DEF Settled
<1>12. j.why = "tier" => Proven(j)'
  BY <1>1, <1>3 DEF Proven, ContentOf, IsFile
<1>13. Sure(g)'
  <2>1. CASE j.why = "plan"
    BY <1>1, <1>3, <1>4, <2>1, StopsSure
  <2>2. CASE j.why = "tier"
    BY <1>1, <1>3, <1>5, <1>12, <2>2
    DEF Sure, SureLink, SureSwap, SureMove, SureCopy, SureNote, SureLeave, SureTemp, Proven
  <2> QED
    BY <1>1, <2>1, <2>2
<1>14. ASSUME NEW q \in Paths PROVE Placed(q)'
  <2>1. Between(q) /\ ~Binned(q) /\ home[q] = Nothing /\ owed[q] # NoContent => Between(q)'
    BY <1>1, <1>3, <1>5, TheCommand DEF Between
  <2> QED
    BY <1>3, <1>10, <1>11, <2>1, OthersKeep
<1> QED
  BY <1>3, <1>6, <1>9, <1>13, <1>14, Assemble, SamePlan

LEMMA CopyFailsKeeps ==
  ASSUME StoreInv, OneTerminal, NEW g \in Programs, CopyFails(g)
  PROVE  StoreInv'
<1> DEFINE e == [what |-> temp[g], origin |-> 0, why |-> "tier", listed |-> TRUE]
<1>1. /\ job[g].at \in {"copy", "publish"} /\ bin' \in {bin, bin \cup {e}}
      /\ temp' = [temp EXCEPT ![g] = Nothing] /\ job' = [job EXCEPT ![g] = Idle]
      /\ UNCHANGED <<home, cold, debris, file, seen, owed, struck, edits>>
  BY DEF CopyFails
<1>2. e \in [what : {Nothing} \cup HomeFiles \cup ColdFiles \cup Links,
             origin : Paths \cup {0}, why : {"plan", "tier"}, listed : BOOLEAN]
      /\ e.origin = 0
  BY DEF StoreInv, Typed, DiskTyped
<1> HIDE DEF e
<1>3. BinTyped'
  <2>1. IsFiniteSet(bin')
    BY <1>1, FS_AddElement DEF StoreInv, Typed, BinTyped
  <2> QED
    BY <1>1, <1>2, <2>1 DEF StoreInv, Typed, BinTyped
<1>4. DiskTyped'
  BY <1>1 DEF StoreInv, Typed, DiskTyped
<1>5. job'[g] = Idle /\ temp'[g] = Nothing /\ job' \in [Programs -> Job] /\ Named(job'[g])
  BY <1>1, IdleNamed DEF StoreInv, Typed, JobTyped, DiskTyped
<1>6. \A r \in Paths : Settled(r)'
  BY <1>5, TheCommand DEF Settled, Idle
<1>7. ASSUME NEW q \in Paths PROVE Placed(q)'
  <2>1. Binned(q) => Binned(q)'
    BY <1>1 DEF Binned, ContentOf, IsFile
  <2>2. Between(q) => Between(q)'
    BY <1>1, TheCommand DEF Between
  <2> QED
    BY <1>1, <1>6, <2>1, <2>2, OthersKeep
<1> QED
  BY <1>1, <1>3, <1>4, <1>5, <1>7, StopsSure, Assemble, SamePlan

LEMMA CopyKeeps ==
  ASSUME StoreInv, OneTerminal, NEW g \in Programs, Copy(g)
  PROVE  StoreInv'
<1>0. PICK j : j = job[g]
  OBVIOUS
<1> USE <1>0
<1>1. /\ j.at = "copy" /\ j \in Job /\ j.why = "tier"
      /\ j.path \in Paths /\ j.dest \in Paths
      /\ Is(j.path, j.sha) /\ j.path = j.dest /\ Unbound(j.dest)
      /\ cold[j.dest] = Nothing
  BY DEF Copy, StoreInv, Typed, JobTyped, Named, Tiers, Sure, SureCopy
<1>2. PICK i \in FreeInodes(ColdInodes), c \in {ContentOf(home[j.path]), Junk} :
        /\ temp' = [temp EXCEPT ![g] = File(i)]
        /\ file' = [file EXCEPT ![i] = [content |-> c, date |-> edits]]
  BY DEF Copy
<1>3. /\ job' = [job EXCEPT ![g].at = "publish"]
      /\ UNCHANGED <<home, cold, debris, bin, seen, owed, struck, edits>>
  BY DEF Copy
<1>4. /\ i \in ColdInodes /\ i \notin HomeInodes
      /\ \A q \in Paths : home[q] # File(i) /\ cold[q] # File(i)
      /\ \A e \in bin : e.what # File(i)
  BY FreeIsFree, StoreAssumption DEF StoreInv
<1>5. c \in Contents \cup {Junk}
  BY <1>1, <1>2, HomeEntry, FileContent DEF Is, StoreInv, Typed
<1>6. job'[g] = [j EXCEPT !.at = "publish"]
  BY <1>3 DEF StoreInv, Typed, JobTyped
<1>7. /\ job'[g].at = "publish" /\ job'[g].path = j.path /\ job'[g].dest = j.dest
      /\ job'[g].sha = j.sha /\ job'[g].why = "tier" /\ job'[g] \in Job
  BY <1>1, <1>6 DEF Job, Work
<1>8. job' \in [Programs -> Job] /\ Named(job'[g])
  BY <1>1, <1>3, <1>7 DEF Named, Tiers, StoreInv, Typed, JobTyped
<1>9. File(i) \in ColdFiles /\ temp'[g] = File(i)
  BY <1>2, <1>4 DEF ColdFiles, StoreInv, Typed, DiskTyped
<1>10. DiskTyped'
  <2>1. file' \in [Inodes -> [content : Contents \cup {Junk}, date : 0..MaxEdits]]
    BY <1>2, <1>4, <1>5 DEF StoreInv, Typed, DiskTyped, Inodes
  <2>2. \A k \in HomeInodes : file'[k] = file[k]
    BY <1>2, <1>4 DEF StoreInv, Typed, DiskTyped, Inodes
  <2> QED
    BY <1>2, <1>3, <1>9, <2>1, <2>2 DEF StoreInv, Typed, DiskTyped
<1>11. BinTyped'
  BY <1>3 DEF StoreInv, Typed, BinTyped
<1>12. \A k \in Inodes \ {i} : file'[k] = file[k]
  BY <1>2 DEF StoreInv, Typed, DiskTyped
<1>13. \A x \in HomeFiles \cup ColdFiles \cup Links \cup {Nothing} :
         x # File(i) => ContentOf(x)' = ContentOf(x)
  BY <1>12, EntryKinds DEF ContentOf, IsFile, Inodes
<1>14. \A q \in Paths : /\ ContentOf(home[q])' = ContentOf(home[q])
                        /\ ContentOf(cold[q])' = ContentOf(cold[q])
  <2>1. \A q \in Paths : home[q] \in HomeFiles \cup Links \cup {Nothing} /\ cold[q] \in ColdFiles \cup {Nothing}
    BY DEF StoreInv, Typed, DiskTyped
  <2> QED
    BY <1>3, <1>4, <1>13, <2>1 DEF ContentOf, IsFile
<1>15. \A r \in Paths : Settled(r)'
  BY <1>7, TheCommand DEF Settled
<1>16. ASSUME NEW q \in Paths PROVE Placed(q)'
  <2>1. Placed(q) /\ home'[q] = home[q] /\ owed'[q] = owed[q]
    BY <1>3 DEF StoreInv
  <2>2. Reads(q)' = Reads(q)
    BY <1>3, <1>14, HomeEntry DEF Reads, StoreInv, Typed
  <2>3. Binned(q) => Binned(q)'
    <3>1. \A e \in bin : ContentOf(e.what)' = ContentOf(e.what)
      BY <1>4, <1>13 DEF StoreInv, Typed, BinTyped
    <3> QED
      BY <1>3, <3>1 DEF Binned
  <2>4. Tiered(q) => Tiered(q)'
    BY <1>3, <1>14, <1>15 DEF Tiered
  <2>5. Between(q) => Between(q)'
    BY <1>1, <1>3, TheCommand DEF Between
  <2> QED
    BY <1>14, <2>1, <2>2, <2>3, <2>4, <2>5, Undisturbed
<1>17. Sure(g)'
  <2>1. Is(j.path, j.sha)' /\ Unbound(j.dest)' /\ cold'[j.dest] = Nothing
    BY <1>1, <1>3, <1>14 DEF Is, IsFile, Unbound
  <2> QED
    BY <1>1, <1>7, <1>9, <2>1
    DEF Sure, SureLink, SureSwap, SureMove, SureCopy, SureNote, SureLeave, SureTemp, Is, Unbound
<1> QED
  BY <1>3, <1>8, <1>10, <1>11, <1>16, <1>17, Assemble, SamePlan

(* The cold namesake of a path changes, to which no link that counts leads. *)
LEMMA NamesakeKeeps ==
  ASSUME StoreInv, NEW d \in Paths, Unbound(d),
         ContentOf(cold[d]) = NoContent \/ ~Settled(d),
         \A r \in Paths \ {d} : cold'[r] = cold[r] /\ Settled(r)',
         UNCHANGED <<home, file, owed>>, bin \subseteq bin',
         NEW q \in Paths, Between(q) => Between(q)'
  PROVE  Placed(q)'
<1>1. Placed(q)
  BY DEF StoreInv
<1>2. ContentOf(home[q])' = ContentOf(home[q]) /\ (Binned(q) => Binned(q)')
  BY DEF ContentOf, IsFile, Binned
<1>3. home[q].is = "link" /\ owed[q] # NoContent => Reads(q)' = Reads(q)
  BY HomeEntry DEF Unbound, Reads, ContentOf, IsFile, StoreInv, Typed
<1>4. owed[q] # NoContent /\ Tiered(q) => Tiered(q)'
  BY DEF Tiered, ContentOf, IsFile
<1> QED
  BY <1>1, <1>2, <1>3, <1>4, Undisturbed

LEMMA PublishKeeps ==
  ASSUME StoreInv, OneTerminal, NEW g \in Programs, Publish(g)
  PROVE  StoreInv'
<1>0. PICK j : j = job[g]
  OBVIOUS
<1> USE <1>0
<1> DEFINE d == j.dest
<1>1. /\ j.at = "publish" /\ j \in Job /\ j.why = "tier"
      /\ j.path \in Paths /\ d \in Paths
      /\ Is(j.path, j.sha) /\ j.path = d /\ Unbound(d)
      /\ cold[d] = Nothing /\ temp[g] \in ColdFiles
  BY DEF Publish, StoreInv, Typed, JobTyped, Named, Tiers, Sure, SureCopy
<1>2. /\ cold' = [cold EXCEPT ![d] = temp[g]] /\ temp' = [temp EXCEPT ![g] = Nothing]
      /\ job' = [job EXCEPT ![g].at = "prove"]
      /\ UNCHANGED <<home, debris, bin, file, seen, owed, struck, edits>>
  BY DEF Publish
<1>3. job'[g] = [j EXCEPT !.at = "prove"]
  BY <1>2 DEF StoreInv, Typed, JobTyped
<1>4. /\ job'[g].at = "prove" /\ job'[g].path = d /\ job'[g].dest = d
      /\ job'[g].sha = j.sha /\ job'[g].why = "tier" /\ job'[g] \in Job
  BY <1>1, <1>3 DEF Job, Work
<1>5. job' \in [Programs -> Job] /\ Named(job'[g])
  BY <1>1, <1>2, <1>4 DEF Named, Tiers, StoreInv, Typed, JobTyped
<1>6. DiskTyped' /\ BinTyped'
  BY <1>1, <1>2 DEF StoreInv, Typed, DiskTyped, BinTyped
<1>7. ContentOf(cold[d]) = NoContent
  BY <1>1, FileContent DEF StoreInv, Typed
<1>8. \A r \in Paths \ {d} : cold'[r] = cold[r] /\ Settled(r)'
  BY <1>2, <1>4, TheCommand DEF Settled, StoreInv, Typed, DiskTyped
<1>9. ASSUME NEW q \in Paths PROVE Placed(q)'
  <2>1. Between(q) => Between(q)'
    BY <1>1, <1>2, TheCommand DEF Between
  <2> HIDE DEF d
  <2> QED
    BY <1>1, <1>2, <1>7, <1>8, <2>1, NamesakeKeeps
<1>10. Sure(g)'
  <2>1. Is(d, j.sha)' /\ Unbound(d)' /\ temp'[g] = Nothing
    BY <1>1, <1>2 DEF Is, IsFile, ContentOf, Unbound, StoreInv, Typed, DiskTyped
  <2> QED
    BY <1>1, <1>4, <2>1
    DEF Sure, SureLink, SureSwap, SureMove, SureCopy, SureNote, SureLeave, SureTemp, Is, Unbound
<1> QED
  BY <1>2, <1>5, <1>6, <1>9, <1>10, Assemble, SamePlan

LEMMA ProveKeeps ==
  ASSUME StoreInv, OneTerminal, NEW g \in Programs, Prove(g)
  PROVE  StoreInv'
<1>0. PICK j : j = job[g]
  OBVIOUS
<1> USE <1>0
<1> DEFINE d == j.dest
           e == [what |-> cold[d], origin |-> 0, why |-> "tier", listed |-> TRUE]
<1>1. /\ j.at = "prove" /\ j \in Job /\ j.why = "tier"
      /\ j.path \in Paths /\ d \in Paths /\ temp[g] = Nothing
      /\ Is(j.path, j.sha) /\ j.path = d /\ Unbound(d)
  BY DEF Prove, StoreInv, Typed, JobTyped, Named, Tiers, Sure, SureCopy, SureTemp
<1>2. UNCHANGED <<home, temp, debris, file, seen, owed, struck, edits>>
  BY DEF Prove
<1>3. ~Settled(d)
  BY <1>1 DEF Settled
<1>4. j.sha \in Contents
  BY <1>1, HomeEntry, FileContent DEF Is, StoreInv, Typed
<1>5. CASE ContentOf(cold[d]) = j.sha
  <2>1. job' = [job EXCEPT ![g].at = "move"] /\ UNCHANGED <<cold, bin>>
    BY <1>5 DEF Prove
  <2>2. job'[g] = [j EXCEPT !.at = "move"]
    BY <2>1 DEF StoreInv, Typed, JobTyped
  <2>3. /\ job'[g].at = "move" /\ job'[g].path = d /\ job'[g].dest = d
        /\ job'[g].sha = j.sha /\ job'[g].why = "tier" /\ job'[g] \in Job
    BY <1>1, <2>2 DEF Job, Work
  <2>4. job' \in [Programs -> Job] /\ Named(job'[g])
    BY <1>1, <2>1, <2>3 DEF Named, Tiers, StoreInv, Typed, JobTyped
  <2>5. DiskTyped' /\ BinTyped'
    BY <1>2, <2>1 DEF StoreInv, Typed, DiskTyped, BinTyped
  <2>6. \A r \in Paths : Settled(r)'
    BY <2>3, TheCommand DEF Settled
  <2>7. ASSUME NEW q \in Paths PROVE Placed(q)'
    <3>1. Binned(q) => Binned(q)'
      BY <1>2, <2>1 DEF Binned, ContentOf, IsFile
    <3>2. Between(q) => Between(q)'
      BY <1>1, <1>2, TheCommand DEF Between
    <3> QED
      BY <1>2, <2>1, <2>6, <3>1, <3>2, OthersKeep
  <2>8. Sure(g)'
    <3>1. Reads(d) = j.sha
      BY <1>1 DEF Is, Reads, IsFile
    <3>2. Reads(d)' = Reads(d) /\ ContentOf(cold[d])' = ContentOf(cold[d])
      BY <1>2, <2>1 DEF Reads, ContentOf, IsFile
    <3>3. Proven(j)'
      BY <1>4, <1>5, <3>2 DEF Proven
    <3> QED
      BY <1>1, <1>2, <2>3, <3>1, <3>2, <3>3
      DEF Sure, SureLink, SureSwap, SureMove, SureCopy, SureNote, SureLeave, SureTemp, Proven
  <2> QED
    BY <1>2, <2>4, <2>5, <2>7, <2>8, Assemble, SamePlan
<1>6. CASE ContentOf(cold[d]) # j.sha
  <2>1. /\ job' = [job EXCEPT ![g] = Idle] /\ cold' = [cold EXCEPT ![d] = Nothing]
        /\ bin' = bin \cup {e}
    BY <1>6 DEF Prove
  <2>2. job'[g] = Idle /\ job' \in [Programs -> Job] /\ Named(job'[g])
    BY <2>1, IdleNamed DEF StoreInv, Typed, JobTyped
  <2>3. e \in [what : {Nothing} \cup HomeFiles \cup ColdFiles \cup Links,
               origin : Paths \cup {0}, why : {"plan", "tier"}, listed : BOOLEAN]
        /\ e.origin = 0
    BY <1>1 DEF StoreInv, Typed, DiskTyped
  <2> HIDE DEF e
  <2>4. DiskTyped' /\ BinTyped'
    <3>1. IsFiniteSet(bin')
      BY <2>1, FS_AddElement DEF StoreInv, Typed, BinTyped
    <3> QED
      BY <1>2, <2>1, <2>3, <3>1 DEF StoreInv, Typed, DiskTyped, BinTyped
  <2>5. \A r \in Paths \ {d} : cold'[r] = cold[r] /\ Settled(r)'
    BY <2>1, <2>2, TheCommand DEF Settled, Idle, StoreInv, Typed, DiskTyped
  <2>6. ASSUME NEW q \in Paths PROVE Placed(q)'
    <3>1. Between(q) => Between(q)'
      BY <1>1, <1>2, TheCommand DEF Between
    <3>2. bin \subseteq bin'
      BY <2>1
    <3> HIDE DEF d
    <3> QED
      BY <1>1, <1>2, <1>3, <2>5, <3>1, <3>2, NamesakeKeeps
  <2>7. Sure(g)'
    BY <1>1, <1>2, <2>2, StopsSure
  <2> QED
    BY <1>2, <2>2, <2>4, <2>6, <2>7, Assemble, SamePlan
<1> QED
  BY <1>5, <1>6

LEMMA LeaveKeeps ==
  ASSUME StoreInv, OneTerminal, NEW g \in Programs, Leave(g)
  PROVE  StoreInv'
<1>0. PICK j : j = job[g]
  OBVIOUS
<1> USE <1>0
<1> DEFINE p == j.path
           next == {q \in j.todo : \A o \in j.todo : q <= o}
<1>1. /\ j.at = "leave" /\ j \in Job /\ j.why = "tier"
      /\ p \in Paths /\ j.dest \in Paths /\ temp[g] = Nothing /\ Proven(j)
      /\ home[p] = Nothing /\ owed[p] # NoContent => owed[p] = j.sha
  BY DEF Leave, StoreInv, Typed, JobTyped, Named, Tiers, Sure, SureNote, SureLeave, SureTemp
<1>2. /\ home' = IF home[p] = Nothing THEN [home EXCEPT ![p] = Link(j.dest)] ELSE home
      /\ job' = [job EXCEPT ![g] =
                   IF home[p] # Nothing \/ next = {} THEN Idle
                   ELSE [j EXCEPT !.at = "verify", !.path = CHOOSE q \in next : TRUE,
                                       !.todo = j.todo \ next]]
      /\ UNCHANGED <<cold, temp, debris, bin, file, seen, owed, struck, edits>>
  BY DEF Leave
<1>3. job'[g] = Idle \/ \E q \in j.todo, rest \in SUBSET j.todo :
        job'[g] = [j EXCEPT !.at = "verify", !.path = q, !.todo = rest]
  <2>1. next # {} => (CHOOSE q \in next : TRUE) \in j.todo
    OBVIOUS
  <2>2. j.todo \ next \in SUBSET j.todo
    OBVIOUS
  <2>3. job'[g] = IF home[p] # Nothing \/ next = {} THEN Idle
                  ELSE [j EXCEPT !.at = "verify", !.path = CHOOSE q \in next : TRUE,
                                      !.todo = j.todo \ next]
    BY <1>2 DEF StoreInv, Typed, JobTyped
  <2> HIDE DEF next
  <2> QED
    BY <2>1, <2>2, <2>3
<1>4. job'[g] = Idle \/ /\ job'[g].at = "verify" /\ job'[g].path \in Paths
                        /\ job'[g].dest = j.dest /\ job'[g].sha = j.sha
                        /\ job'[g].why = "tier" /\ job'[g] \in Job
  BY <1>1, <1>3 DEF Job, Work
<1>5. job' \in [Programs -> Job] /\ Named(job'[g])
  <2>1. job'[g] \in Job /\ Named(job'[g])
    BY <1>1, <1>4, IdleNamed DEF Named, Tiers
  <2>2. job' = [job EXCEPT ![g] = job'[g]]
    BY <1>2 DEF StoreInv, Typed, JobTyped
  <2> QED
    BY <2>1, <2>2 DEF StoreInv, Typed, JobTyped
<1> HIDE DEF next
<1>6. DiskTyped' /\ BinTyped'
  <2>1. Link(j.dest) \in Links
    BY <1>1 DEF Links
  <2> QED
    BY <1>2, <2>1 DEF StoreInv, Typed, DiskTyped, BinTyped
<1>7. Proven(j)'
  BY <1>1, <1>2 DEF Proven, ContentOf, IsFile
<1>8. Sure(g)'
  <2>1. CASE job'[g] = Idle
    BY <1>1, <1>2, <2>1, StopsSure
  <2>2. CASE job'[g] # Idle
    BY <1>1, <1>2, <1>4, <1>7, <2>2
    DEF Sure, SureLink, SureSwap, SureMove, SureCopy, SureNote, SureLeave, SureTemp, Proven
  <2> QED
    BY <2>1, <2>2
<1>9. \A r \in Paths : Settled(r)'
  BY <1>4, TheCommand DEF Settled, Idle
<1>10. ASSUME NEW q \in Paths PROVE Placed(q)'
  <2>1. Binned(q) => Binned(q)'
    BY <1>2 DEF Binned, ContentOf, IsFile
  <2>2. CASE home[p] = Nothing /\ q = p
    <3>1. home'[p] = Link(j.dest)
      BY <1>1, <1>2, <2>2 DEF StoreInv, Typed, DiskTyped
    <3>2. home'[p].is = "link" /\ home'[p].at = j.dest
      BY <3>1 DEF Link
    <3>3. Reads(p)' = j.sha
      BY <1>7, <3>2 DEF Reads, Proven
    <3>4. owed'[p] \in {NoContent, j.sha}
      BY <1>1, <1>2, <2>2
    <3> QED
      BY <2>2, <3>2, <3>3, <3>4 DEF Placed, IsFile, Nothing
  <2>3. CASE home[p] # Nothing \/ q # p
    <3>1. home'[q] = home[q]
      BY <1>1, <1>2, <2>3 DEF StoreInv, Typed, DiskTyped
    <3>2. Between(q) /\ home[q] = Nothing => Between(q)'
      BY <1>2, <2>3, TheCommand DEF Between
    <3> QED
      BY <1>2, <1>9, <2>1, <3>1, <3>2, OthersKeep
  <2> QED
    BY <2>2, <2>3
<1> QED
  BY <1>2, <1>5, <1>6, <1>8, <1>10, Assemble, SamePlan

-----------------------------------------------------------------------------
(* What happens to commands and to files.                                  *)

LEMMA CrashKeeps ==
  ASSUME StoreInv, OneTerminal, NEW g \in Programs, Crash(g)
  PROVE  StoreInv'
<1>1. /\ debris' = IF IsFile(temp[g]) THEN debris \cup {temp[g].at} ELSE debris
      /\ temp' = [temp EXCEPT ![g] = Nothing] /\ job' = [job EXCEPT ![g] = Idle]
      /\ struck' = IF job[g].at \in {"note", "leave"} THEN struck \cup {job[g].path} ELSE struck
      /\ UNCHANGED <<home, cold, bin, file, seen, owed, edits>>
  BY DEF Crash
<1>2. job'[g] = Idle /\ temp'[g] = Nothing /\ job' \in [Programs -> Job] /\ Named(job'[g])
  BY <1>1, IdleNamed DEF StoreInv, Typed, JobTyped, DiskTyped
<1>3. IsFile(temp[g]) => temp[g].at \in Inodes
  BY EntryKinds DEF StoreInv, Typed, DiskTyped, IsFile, Inodes
<1>4. job[g].at \in {"note", "leave"} => job[g].path \in Paths
  BY DEF StoreInv, Typed, JobTyped, Named, Tiers
<1>5. DiskTyped' /\ BinTyped'
  BY <1>1, <1>3, <1>4 DEF StoreInv, Typed, DiskTyped, BinTyped
<1>6. \A r \in Paths : Settled(r)'
  BY <1>2, TheCommand DEF Settled, Idle
<1>7. ASSUME NEW q \in Paths PROVE Placed(q)'
  <2>1. Binned(q) => Binned(q)'
    BY <1>1 DEF Binned, ContentOf, IsFile
  <2>2. Between(q) => Between(q)'
    BY <1>1, TheCommand DEF Between
  <2> QED
    BY <1>1, <1>6, <2>1, <2>2, OthersKeep
<1> QED
  BY <1>1, <1>2, <1>5, <1>7, StopsSure, Assemble, SamePlan

LEMMA EmptyKeeps ==
  ASSUME StoreInv, NEW e \in bin, Empty(e)
  PROVE  StoreInv'
<1>1. /\ bin' = bin \ {e}
      /\ owed' = IF e.origin # 0 /\ e.why = "plan" /\ Reads(e.origin) # owed[e.origin]
                 THEN [owed EXCEPT ![e.origin] = NoContent] ELSE owed
      /\ UNCHANGED <<home, cold, temp, debris, file, seen, job, struck, edits>>
  BY DEF Empty
<1>2. Typed'
  <2>1. IsFiniteSet(bin')
    BY <1>1, FS_RemoveElement DEF StoreInv, Typed, BinTyped
  <2>2. DiskTyped' /\ BinTyped'
    BY <1>1, <2>1 DEF StoreInv, Typed, DiskTyped, BinTyped
  <2>3. PlanTyped' /\ JobTyped'
    BY <1>1 DEF StoreInv, Typed, PlanTyped, JobTyped
  <2> QED
    BY <2>2, <2>3 DEF Typed
<1>3. ASSUME NEW q \in Paths
      PROVE  \/ owed'[q] = owed[q]
             \/ owed'[q] = NoContent /\ Reads(q) # owed[q]
  BY <1>1 DEF StoreInv, Typed, DiskTyped
<1>4. ASSUME NEW q \in Paths, Binned(q), home[q] = Nothing, owed'[q] # NoContent
      PROVE  Binned(q)'
  <2>1. PICK f \in bin : f.origin = q /\ f.why = "plan" /\ ContentOf(f.what) = owed[q]
    BY <1>4 DEF Binned
  <2>2. owed'[q] = owed[q] /\ owed[q] # NoContent
    BY <1>3, <1>4
  <2>3. Reads(q) = NoContent
    BY <1>4 DEF Reads, ContentOf, IsFile, Nothing
  <2>4. f # e
    <3> SUFFICES ASSUME f = e PROVE FALSE
      OBVIOUS
    <3>1. e.origin # 0 /\ e.why = "plan" /\ Reads(e.origin) # owed[e.origin]
      BY <2>1, <2>2, <2>3, StoreAssumption
    <3>2. owed'[q] = NoContent
      BY <1>1, <2>1, <3>1 DEF StoreInv, Typed, DiskTyped
    <3> QED
      BY <1>4, <3>2
  <2> QED
    BY <1>1, <2>1, <2>2, <2>4 DEF Binned, ContentOf, IsFile
<1>5. ASSUME NEW q \in Paths PROVE Placed(q)'
  <2>1. Placed(q) /\ home'[q] = home[q] /\ Reads(q)' = Reads(q) /\ ContentOf(home[q])' = ContentOf(home[q])
    BY <1>1 DEF StoreInv, Reads, ContentOf, IsFile
  <2>2. CASE owed'[q] = owed[q]
    <3>1. Tiered(q) => Tiered(q)'
      BY <1>1, <2>2 DEF Tiered, Settled, ContentOf, IsFile
    <3>2. Between(q) => Between(q)'
      BY <1>1 DEF Between
    <3>3. Binned(q) /\ home[q] = Nothing /\ owed[q] # NoContent => Binned(q)'
      BY <1>4, <2>2
    <3> QED
      BY <2>1, <2>2, <3>1, <3>2, <3>3, Undisturbed
  <2>3. CASE owed'[q] = NoContent /\ Reads(q) # owed[q]
    <3>1. ~IsFile(home[q])
      BY <2>1, <2>3 DEF Placed, Reads, IsFile
    <3> QED
      BY <2>1, <2>3, <3>1 DEF Placed, IsFile
  <2> QED
    BY <1>3, <2>2, <2>3
<1>6. ASSUME NEW g \in Programs PROVE Sure(g)'
  <2>1. Sure(g) /\ job'[g] = job[g] /\ temp'[g] = temp[g] /\ Named(job[g])
    BY <1>1 DEF StoreInv, Typed, JobTyped
  <2>2. \A x : ContentOf(x)' = ContentOf(x)
    BY <1>1 DEF ContentOf, IsFile
  <2>3. \A q, sha : Is(q, sha) => Is(q, sha)'
    BY <1>1 DEF Is, ContentOf, IsFile
  <2>4. \A q : Reads(q)' = Reads(q)
    BY <1>1 DEF Reads, ContentOf, IsFile
  <2>5. \A d : Unbound(d) => Unbound(d)'
    BY <1>1, <1>3 DEF Unbound
  <2>6. SureNote(job[g])'
    <3> SUFFICES ASSUME home[job[g].path] = Nothing, owed'[job[g].path] # NoContent,
                        job[g].at \in {"note", "leave"}
                 PROVE  /\ job[g].at = "note" /\ job[g].why = "plan" => Binned(job[g].path)'
                        /\ job[g].why = "tier" => owed'[job[g].path] = job[g].sha
      BY <1>1 DEF SureNote
    <3>1. job[g].path \in Paths
      BY <2>1 DEF Named, Tiers
    <3>2. owed'[job[g].path] = owed[job[g].path]
      BY <1>3, <3>1
    <3> QED
      BY <1>4, <2>1, <3>1, <3>2 DEF Sure, SureNote
  <2>7. SureLink(job[g])' /\ SureCopy(g, job[g])'
    BY <1>1, <2>1, <2>3, <2>5 DEF Sure, SureLink, SureCopy
  <2>8. SureSwap(g, job[g])' /\ SureMove(job[g])' /\ SureLeave(job[g])' /\ SureTemp(g, job[g])'
    BY <1>1, <2>1 DEF Sure, SureSwap, SureMove, SureLeave, SureTemp, Proven, Reads, ContentOf, IsFile
  <2> QED
    BY <1>1, <2>1, <2>6, <2>7, <2>8 DEF Sure, SureLink, SureSwap, SureMove, SureCopy, SureNote, SureLeave, SureTemp
<1> QED
  BY <1>2, <1>5, <1>6 DEF StoreInv

LEMMA RestoreKeeps ==
  ASSUME StoreInv, NEW e \in bin, Restore(e),
         \A g \in Programs : ~(job[g].at = "move" /\ job[g].path = e.origin)
  PROVE  StoreInv'
<1> DEFINE o == e.origin
<1>1. /\ o \in Paths /\ ~IsFile(home[o]) /\ e.what \in HomeFiles \cup Links
      /\ bin' = bin \ {e} /\ home' = [home EXCEPT ![o] = e.what]
      /\ owed' = [owed EXCEPT ![o] = ContentOf(e.what)] /\ struck' = struck \ {o}
      /\ UNCHANGED <<cold, temp, debris, file, seen, job, edits>>
  BY DEF Restore, StoreInv, Typed, BinTyped
<1> HIDE DEF o
<1>2. /\ home'[o] = e.what /\ owed'[o] = ContentOf(e.what)
      /\ \A q \in Paths \ {o} : home'[q] = home[q] /\ owed'[q] = owed[q]
  BY <1>1 DEF StoreInv, Typed, DiskTyped
<1>3. ContentOf(e.what) \in Contents \cup {NoContent}
  BY <1>1, FileContent DEF StoreInv, Typed
<1>4. Typed'
  <2>1. IsFiniteSet(bin')
    BY <1>1, FS_RemoveElement DEF StoreInv, Typed, BinTyped
  <2>2. DiskTyped' /\ BinTyped'
    BY <1>1, <1>3, <2>1 DEF StoreInv, Typed, DiskTyped, BinTyped
  <2>3. PlanTyped' /\ JobTyped'
    BY <1>1 DEF StoreInv, Typed, PlanTyped, JobTyped
  <2> QED
    BY <2>2, <2>3 DEF Typed
<1>5. home'[o] # Nothing /\ (home'[o].is = "link" => owed'[o] = NoContent)
  BY <1>1, <1>2, EntryKinds, FileContent DEF StoreInv, Typed, Nothing
<1>6. \A q \in Paths \ {o} : Binned(q) => Binned(q)'
  BY <1>1, <1>2 DEF Binned, ContentOf, IsFile, o
<1>7. ASSUME NEW q \in Paths PROVE Placed(q)'
  <2>1. CASE q = o
    <3>1. IsFile(home[o])' => owed'[o] = ContentOf(home[o])'
      BY <1>1, <1>2 DEF ContentOf, IsFile
    <3> QED
      BY <1>5, <2>1, <3>1 DEF Placed
  <2>2. CASE q # o
    <3>1. Between(q) => Between(q)'
      BY <1>1, <2>2 DEF Between
    <3>2. \A r \in Paths : Settled(r) => Settled(r)'
      BY <1>1 DEF Settled
    <3> QED
      BY <1>1, <1>2, <1>6, <2>2, <3>1, <3>2, OthersKeep
  <2> QED
    BY <2>1, <2>2
<1>8. ASSUME NEW g \in Programs PROVE Sure(g)'
  <2>1. Sure(g) /\ job'[g] = job[g] /\ temp'[g] = temp[g] /\ Named(job[g]) /\ job[g] \in Job
    BY <1>1 DEF StoreInv, Typed, JobTyped
  <2>2. \A q \in Paths : \A sha : Is(q, sha) => Is(q, sha)'
    BY <1>1, <1>2 DEF Is, ContentOf, IsFile
  <2>3. \A q \in Paths : q # o => Reads(q)' = Reads(q) /\ (IsFile(home[q])' <=> IsFile(home[q]))
    BY <1>1, <1>2 DEF Reads, ContentOf, IsFile
  <2>4. \A d : Unbound(d) => Unbound(d)'
    BY <1>2, <1>5 DEF Unbound, Link
  <2>5. SureNote(job[g])'
    <3> SUFFICES ASSUME home'[job[g].path] = Nothing, owed'[job[g].path] # NoContent,
                        job[g].at \in {"note", "leave"}
                 PROVE  /\ job[g].at = "note" /\ job[g].why = "plan" => Binned(job[g].path)'
                        /\ job[g].why = "tier" => owed'[job[g].path] = job[g].sha
      BY <1>1 DEF SureNote
    <3>1. job[g].path \in Paths /\ job[g].path # o
      BY <1>5, <2>1 DEF Named, Tiers
    <3> QED
      BY <1>2, <1>6, <2>1, <3>1 DEF Sure, SureNote
  <2>6. SureLink(job[g])'
    <3>1. job[g].at \in {"link", "swap"} => job[g].dest \in Paths /\ job[g].todo \subseteq Paths
      BY <2>1 DEF Named, Job
    <3> QED
      BY <1>1, <2>1, <2>2, <3>1 DEF Sure, SureLink
  <2>7. SureCopy(g, job[g])'
    <3>1. job[g].at \in Tiers => job[g].path \in Paths
      BY <2>1 DEF Named
    <3> QED
      BY <1>1, <2>1, <2>2, <2>4, <3>1 DEF Sure, SureCopy, Tiers
  <2>8. SureMove(job[g])'
    <3>1. job[g].at = "move" => job[g].path \in Paths /\ job[g].path # o
      BY <2>1 DEF Named, o
    <3> QED
      BY <1>1, <2>1, <2>3, <3>1 DEF Sure, SureMove, Proven, ContentOf, IsFile
  <2>9. SureSwap(g, job[g])' /\ SureLeave(job[g])' /\ SureTemp(g, job[g])'
    BY <1>1, <2>1 DEF Sure, SureSwap, SureLeave, SureTemp, Proven, ContentOf, IsFile
  <2> QED
    BY <1>1, <2>5, <2>6, <2>7, <2>8, <2>9
    DEF Sure, SureLink, SureSwap, SureMove, SureCopy, SureNote, SureLeave, SureTemp
<1> QED
  BY <1>4, <1>7, <1>8 DEF StoreInv

(* No command is at work: nothing is in between.                           *)
LEMMA AtRest ==
  ASSUME StoreInv, CommandsAtRest, UNCHANGED <<job, temp>>
  PROVE  /\ \A g \in Programs : Sure(g)'
         /\ \A q \in Paths : Settled(q)' /\ (Between(q) => q \in struck)
<1>1. ASSUME NEW g \in Programs PROVE job[g] = Idle /\ temp[g] = Nothing
  BY DEF CommandsAtRest, StoreInv, Sure, SureTemp, Idle
<1> QED
  BY <1>1, StopsSure DEF Settled, Between, Idle

LEMMA EditKeeps ==
  ASSUME StoreInv, Alone, NEW p \in Paths, NEW c \in Contents, NEW kept \in BOOLEAN, Edit(p, c, kept)
  PROVE  StoreInv'
<1>0. PICK i : i = home[p].at
  OBVIOUS
<1> DEFINE shown == {q \in Paths : \/ home[q] = File(i)
                                   \/ /\ home[q] = Nothing
                                      /\ \E e \in bin : e.origin = q /\ e.what = File(i) /\ e.why = "plan"}
<1>1. /\ CommandsAtRest /\ IsFile(home[p]) /\ edits < MaxEdits
      /\ \E date \in {file[i].date, edits + 1} : file' = [file EXCEPT ![i] = [content |-> c, date |-> date]]
      /\ edits' = edits + 1
      /\ UNCHANGED <<home, cold, temp, debris, bin, seen, job, struck>>
  BY <1>0 DEF Edit, Alone
<1>2. owed' = [q \in Paths |-> IF q \in shown THEN c ELSE owed[q]]
  BY <1>0 DEF Edit
<1>3. i \in HomeInodes /\ i \notin ColdInodes /\ home[p] = File(i)
  BY <1>0, <1>1, HomeEntry, StoreAssumption DEF StoreInv, Typed
<1>4. i \in Inodes /\ file'[i].content = c /\ \A k \in Inodes \ {i} : file'[k] = file[k]
  BY <1>1, <1>3 DEF StoreInv, Typed, DiskTyped, Inodes
<1>5. Typed'
  <2>1. edits' \in 0..MaxEdits
    BY <1>1, StoreAssumption DEF StoreInv, Typed, DiskTyped
  <2>2. \E date \in 0..MaxEdits : file' = [file EXCEPT ![i] = [content |-> c, date |-> date]]
    <3>1. file[i].date \in 0..MaxEdits /\ edits + 1 \in 0..MaxEdits
      BY <1>1, <1>4, <2>1 DEF StoreInv, Typed, DiskTyped
    <3>2. PICK date \in {file[i].date, edits + 1} : file' = [file EXCEPT ![i] = [content |-> c, date |-> date]]
      BY <1>1
    <3>3. date \in 0..MaxEdits
      BY <3>1
    <3> QED
      BY <3>2, <3>3, Zenon
  <2>3. file' \in [Inodes -> [content : Contents \cup {Junk}, date : 0..MaxEdits]]
    <3>1. PICK x \in [content : Contents \cup {Junk}, date : 0..MaxEdits] : file' = [file EXCEPT ![i] = x]
      BY <2>2
    <3> QED
      BY <3>1 DEF StoreInv, Typed, DiskTyped
  <2>4. \A k \in HomeInodes : file'[k].content \in Contents
    BY <1>4 DEF StoreInv, Typed, DiskTyped, Inodes
  <2>5. owed' \in [Paths -> Contents \cup {NoContent}]
    BY <1>2 DEF StoreInv, Typed, DiskTyped
  <2>6. DiskTyped'
    BY <1>1, <2>1, <2>3, <2>4, <2>5 DEF StoreInv, Typed, DiskTyped
  <2>7. BinTyped' /\ PlanTyped' /\ JobTyped'
    BY <1>1 DEF StoreInv, Typed, BinTyped, PlanTyped, JobTyped
  <2> QED
    BY <2>6, <2>7 DEF Typed
<1>6. \A x \in HomeFiles \cup ColdFiles \cup Links \cup {Nothing} :
        x # File(i) => ContentOf(x)' = ContentOf(x)
  BY <1>4, EntryKinds DEF ContentOf, IsFile, Inodes
<1>7. ContentOf(File(i))' = c
  BY <1>4 DEF ContentOf, IsFile, File
<1>8. \A g \in Programs : Sure(g)'
  BY <1>1, AtRest
<1>9. ASSUME NEW q \in Paths PROVE Placed(q)'
  <2>1. Placed(q) /\ home'[q] = home[q]
    BY <1>1 DEF StoreInv
  <2>2. CASE home[q] = File(i)
    <3>1. q \in shown /\ owed'[q] = c
      BY <1>2, <2>2
    <3>2. home'[q].is = "file" /\ ContentOf(home[q])' = c
      BY <1>1, <1>7, <2>2 DEF File
    <3> QED
      BY <3>1, <3>2 DEF Placed, Nothing
  <2>3. CASE IsFile(home[q]) /\ home[q] # File(i)
    <3>1. owed'[q] = owed[q]
      BY <1>2, <2>3 DEF IsFile, Nothing
    <3>2. ContentOf(home[q])' = ContentOf(home[q])
      BY <1>1, <1>6, <2>3, HomeEntry DEF StoreInv, Typed
    <3> QED
      BY <2>1, <2>3, <3>1, <3>2 DEF Placed, IsFile, Nothing
  <2>4. CASE home[q].is = "link"
    <3>1. owed'[q] = owed[q]
      BY <1>2, <2>4 DEF File, Nothing
    <3>2. home[q].at \in Paths
      BY <2>4, HomeEntry DEF StoreInv, Typed
    <3>3. cold[home[q].at] \in ColdFiles \cup {Nothing} /\ cold[home[q].at] # File(i)
      BY <1>3, <3>2, EntryKinds DEF StoreInv, Typed, DiskTyped, File, Nothing
    <3>4. Reads(q)' = Reads(q)
      <4>1. ContentOf(cold[home[q].at])' = ContentOf(cold[home[q].at])
        BY <1>1, <1>6, <3>3
      <4> QED
        BY <1>1, <2>4, <4>1 DEF Reads
    <3> QED
      BY <2>1, <2>4, <3>1, <3>4 DEF Placed, IsFile, Nothing
  <2>5. CASE home[q] = Nothing
    <3>1. CASE \E e \in bin : e.origin = q /\ e.what = File(i) /\ e.why = "plan"
      <4>1. owed'[q] = c
        BY <1>2, <2>5, <3>1
      <4>2. PICK e \in bin : e.origin = q /\ e.what = File(i) /\ e.why = "plan"
        BY <3>1
      <4>3. ContentOf(e.what)' = c
        BY <1>7, <4>2
      <4>4. Binned(q)'
        BY <1>1, <4>1, <4>2, <4>3 DEF Binned
      <4> QED
        BY <2>1, <2>5, <4>4 DEF Placed, IsFile, Nothing
    <3>2. CASE ~\E e \in bin : e.origin = q /\ e.what = File(i) /\ e.why = "plan"
      <4>1. owed'[q] = owed[q]
        BY <1>2, <2>5, <3>2 DEF File, Nothing
      <4>2. Binned(q) => Binned(q)'
        <5> SUFFICES ASSUME NEW e \in bin, e.origin = q, e.why = "plan", ContentOf(e.what) = owed[q]
                     PROVE  Binned(q)'
          BY DEF Binned
        <5>1. e.what \in HomeFiles \cup ColdFiles \cup Links \cup {Nothing} /\ e.what # File(i)
          BY <3>2 DEF StoreInv, Typed, BinTyped
        <5>2. ContentOf(e.what)' = owed'[q]
          BY <1>6, <4>1, <5>1
        <5> QED
          BY <1>1, <5>2 DEF Binned
      <4>3. Tiered(q) => Tiered(q)'
        <5> SUFFICES ASSUME NEW r \in Paths, ContentOf(cold[r]) = owed[q] PROVE Tiered(q)'
          BY DEF Tiered
        <5>1. cold[r] \in ColdFiles \cup {Nothing} /\ cold[r] # File(i)
          BY <1>3, EntryKinds DEF StoreInv, Typed, DiskTyped, File, Nothing
        <5>2. ContentOf(cold[r])' = owed'[q]
          BY <1>1, <1>6, <4>1, <5>1
        <5> QED
          BY <1>1, <5>2, AtRest DEF Tiered
      <4>4. Between(q) => Between(q)'
        BY <1>1 DEF Between
      <4> QED
        BY <2>1, <2>5, <4>1, <4>2, <4>3, <4>4 DEF Placed, IsFile, Nothing
    <3> QED
      BY <3>1, <3>2
  <2> QED
    BY <2>2, <2>3, <2>4, <2>5, HomeEntry, EntryKinds DEF StoreInv, Typed, IsFile
<1> QED
  BY <1>5, <1>8, <1>9 DEF StoreInv

LEMMA RenewKeeps ==
  ASSUME StoreInv, Alone, NEW p \in Paths, NEW c \in Contents, Renew(p, c)
  PROVE  StoreInv'
<1>1. PICK i \in FreeInodes(HomeInodes) :
        /\ home' = [home EXCEPT ![p] = File(i)]
        /\ file' = [file EXCEPT ![i] = [content |-> c, date |-> edits + 1]]
  BY DEF Renew
<1>2. /\ CommandsAtRest /\ edits < MaxEdits
      /\ owed' = [owed EXCEPT ![p] = c] /\ struck' = struck \ {p} /\ edits' = edits + 1
      /\ UNCHANGED <<cold, temp, debris, bin, seen, job>>
  BY DEF Renew, Alone
<1>3. /\ i \in HomeInodes
      /\ \A q \in Paths : home[q] # File(i) /\ cold[q] # File(i)
      /\ \A e \in bin : e.what # File(i)
  BY FreeIsFree DEF StoreInv
<1>4. i \in Inodes /\ file'[i].content = c /\ \A k \in Inodes \ {i} : file'[k] = file[k]
  BY <1>1, <1>3 DEF StoreInv, Typed, DiskTyped, Inodes
<1>5. Typed'
  <2>1. edits' \in 0..MaxEdits /\ edits' = edits + 1
    BY <1>2, StoreAssumption DEF StoreInv, Typed, DiskTyped
  <2>2. file' \in [Inodes -> [content : Contents \cup {Junk}, date : 0..MaxEdits]]
    BY <1>1, <2>1 DEF StoreInv, Typed, DiskTyped
  <2>3. \A k \in HomeInodes : file'[k].content \in Contents
    BY <1>4 DEF StoreInv, Typed, DiskTyped, Inodes
  <2>4. home' \in [Paths -> {Nothing} \cup HomeFiles \cup Links]
    BY <1>1, <1>3 DEF StoreInv, Typed, DiskTyped, HomeFiles
  <2>5. DiskTyped'
    BY <1>2, <2>1, <2>2, <2>3, <2>4 DEF StoreInv, Typed, DiskTyped
  <2>6. BinTyped' /\ PlanTyped' /\ JobTyped'
    BY <1>2 DEF StoreInv, Typed, BinTyped, PlanTyped, JobTyped
  <2> QED
    BY <2>5, <2>6 DEF Typed
<1>6. \A x \in HomeFiles \cup ColdFiles \cup Links \cup {Nothing} :
        x # File(i) => ContentOf(x)' = ContentOf(x)
  BY <1>4, EntryKinds DEF ContentOf, IsFile, Inodes
<1>7. \A g \in Programs : Sure(g)'
  BY <1>2, AtRest
<1>8. ASSUME NEW q \in Paths PROVE Placed(q)'
  <2>1. CASE q = p
    <3>1. home'[p] = File(i) /\ owed'[p] = c
      BY <1>1, <1>2 DEF StoreInv, Typed, DiskTyped
    <3>2. home'[p].is = "file" /\ home'[p].at = i
      BY <3>1 DEF File
    <3>3. ContentOf(home[p])' = c
      BY <1>4, <3>2 DEF ContentOf, IsFile
    <3> QED
      BY <2>1, <3>1, <3>2, <3>3 DEF Placed, IsFile, Nothing
  <2>2. CASE q # p
    <3>1. Placed(q) /\ home'[q] = home[q] /\ owed'[q] = owed[q]
      BY <1>1, <1>2, <2>2 DEF StoreInv, Typed, DiskTyped
    <3>2. ContentOf(home[q])' = ContentOf(home[q])
      BY <1>3, <1>6, <3>1 DEF StoreInv, Typed, DiskTyped
    <3>3. \A r \in Paths : ContentOf(cold[r])' = ContentOf(cold[r])
      BY <1>2, <1>3, <1>6 DEF StoreInv, Typed, DiskTyped
    <3>4. Reads(q)' = Reads(q)
      BY <3>1, <3>2, <3>3, HomeEntry DEF Reads, StoreInv, Typed
    <3>5. Binned(q) => Binned(q)'
      <4>1. \A e \in bin : ContentOf(e.what)' = ContentOf(e.what)
        BY <1>3, <1>6 DEF StoreInv, Typed, BinTyped
      <4> QED
        BY <1>2, <3>1, <4>1 DEF Binned
    <3>6. Tiered(q) => Tiered(q)'
      BY <1>2, <3>1, <3>3, AtRest DEF Tiered
    <3>7. Between(q) => Between(q)'
      BY <1>2, <2>2 DEF Between
    <3> QED
      BY <3>1, <3>2, <3>4, <3>5, <3>6, <3>7, Undisturbed
  <2> QED
    BY <2>1, <2>2
<1> QED
  BY <1>5, <1>7, <1>8 DEF StoreInv

LEMMA SameStore ==
  ASSUME StoreInv, UNCHANGED <<disk, job, owed, struck, edits>>, PlanTyped'
  PROVE  StoreInv'
<1>1. Typed'
  BY DEF StoreInv, Typed, DiskTyped, BinTyped, JobTyped, disk
<1>2. ASSUME NEW p \in Paths PROVE Placed(p)'
  BY DEF StoreInv, Placed, Binned, Tiered, Settled, Between, Reads, ContentOf, IsFile, disk
<1>3. ASSUME NEW g \in Programs PROVE Sure(g)'
  <2>1. Sure(g)
    BY DEF StoreInv
  <2>2. SureLink(job[g])' /\ SureSwap(g, job[g])' /\ SureMove(job[g])' /\ SureLeave(job[g])'
    BY <2>1 DEF Sure, SureLink, SureSwap, SureMove, SureLeave, Is, Proven, Reads, ContentOf, IsFile, disk
  <2>3. SureCopy(g, job[g])' /\ SureNote(job[g])' /\ SureTemp(g, job[g])'
    BY <2>1 DEF Sure, SureCopy, SureNote, SureTemp, Is, Unbound, Binned, ContentOf, IsFile, disk
  <2> QED
    BY <2>2, <2>3 DEF Sure
<1> QED
  BY <1>1, <1>2, <1>3 DEF StoreInv

LEMMA InitStore == Init => StoreInv
<1> SUFFICES ASSUME Init PROVE StoreInv
  OBVIOUS
<1>1. PICK start \in Starts :
        /\ home = [p \in Paths |-> File(start.inode[p])]
        /\ file = [i \in Inodes |->
                     [content |-> IF i \in HomeInodes THEN start.content[i] ELSE Junk, date |-> 0]]
        /\ owed = [p \in Paths |-> start.content[start.inode[p]]]
  BY DEF Init
<1>2. /\ cold = [p \in Paths |-> Nothing] /\ temp = [g \in Programs |-> Nothing]
      /\ debris = {} /\ bin = {} /\ seen.plan = {} /\ job = [g \in Programs |-> Idle]
      /\ struck = {} /\ edits = 0
  BY DEF Init
<1>3. start.inode \in [Paths -> HomeInodes] /\ start.content \in [HomeInodes -> Contents]
  BY StoreAssumption
<1>4. Typed
  <2>1. DiskTyped
    BY <1>1, <1>2, <1>3, StoreAssumption DEF DiskTyped, HomeFiles, Inodes
  <2>2. BinTyped
    BY <1>2, FS_EmptySet DEF BinTyped
  <2>3. PlanTyped /\ JobTyped
    BY <1>2, IdleNamed DEF PlanTyped, JobTyped
  <2> QED
    BY <2>1, <2>2, <2>3 DEF Typed
<1>5. ASSUME NEW p \in Paths PROVE Placed(p)
  <2>1. home[p] = File(start.inode[p]) /\ home[p].is = "file" /\ home[p].at = start.inode[p]
    BY <1>1 DEF File
  <2>2. ContentOf(home[p]) = owed[p]
    BY <1>1, <1>3, <2>1 DEF ContentOf, IsFile, Inodes
  <2> QED
    BY <2>1, <2>2 DEF Placed, Nothing
<1>6. ASSUME NEW g \in Programs PROVE Sure(g)
  BY <1>2 DEF Idle, Sure, SureLink, SureSwap, SureMove, SureCopy, SureNote, SureLeave, SureTemp
<1> QED
  BY <1>4, <1>5, <1>6 DEF StoreInv

LEMMA CommandKeeps ==
  ASSUME StoreInv, OneTerminal, NothingAwkward, NEW g \in Programs, Command(g)
  PROVE  StoreInv'
<1>1. CASE \E a \in seen.plan : BeginLink(g, a) \/ BeginTrash(g, a)
  BY <1>1, BeginLinkKeeps, BeginTrashKeeps
<1>2. CASE \E p \in Paths : Swap(g, p) \/ BeginTier(g, p)
  BY <1>2, SwapKeeps, BeginTierKeeps
<1>3. CASE LinkTemp(g) \/ SwapFails(g) \/ Move(g) \/ Note(g)
  BY <1>3, LinkTempKeeps, SwapFailsKeeps, MoveKeeps, NoteKeeps
<1>4. CASE Copy(g) \/ CopyFails(g) \/ Publish(g) \/ Prove(g) \/ Leave(g) \/ Verify(g)
  BY <1>4, CopyKeeps, CopyFailsKeeps, PublishKeeps, ProveKeeps, LeaveKeeps, VerifyKeeps
<1> QED
  BY <1>1, <1>2, <1>3, <1>4 DEF Command

LEMMA StoreKeeps ==
  ASSUME OneTerminal, Alone, NothingAwkward, StoreInv, [Next]_vars, [CarefulRestore]_vars
  PROVE  StoreInv'
<1>1. ASSUME NEW read \in BOOLEAN, Scan(read) PROVE StoreInv'
  BY <1>1, ScanTyped, SameStore DEF Scan
<1>2. ASSUME NEW g \in Programs, Command(g) \/ Crash(g) PROVE StoreInv'
  BY <1>2, CommandKeeps, CrashKeeps
<1>3. ASSUME NEW e \in bin, Empty(e) PROVE StoreInv'
  BY <1>3, EmptyKeeps
<1>4. ASSUME NEW e \in bin, Restore(e) PROVE StoreInv'
  <2>1. vars' # vars
    <3>1. bin' # bin
      BY <1>4 DEF Restore
    <3> QED
      BY <3>1 DEF vars, disk
  <2>2. CarefulRestore
    BY <2>1
  <2> QED
    BY <1>4, <2>2, RestoreKeeps DEF CarefulRestore
<1>5. ASSUME NEW p \in Paths, NEW c \in Contents, Renew(p, c) PROVE StoreInv'
  BY <1>5, RenewKeeps
<1>6. ASSUME NEW p \in Paths, NEW c \in Contents, NEW kept \in BOOLEAN, Edit(p, c, kept) PROVE StoreInv'
  BY <1>6, EditKeeps
<1>7. CASE UNCHANGED vars
  BY <1>7, SameStore DEF vars, StoreInv, Typed, PlanTyped
<1> QED
  BY <1>1, <1>2, <1>3, <1>4, <1>5, <1>6, <1>7 DEF Next

LEMMA InvRecovers == StoreInv => Recoverable
<1> SUFFICES ASSUME StoreInv PROVE Recoverable
  OBVIOUS
<1>1. TypeOK
  BY DEF StoreInv, Typed, DiskTyped, BinTyped, TypeOK, HomeFiles, ColdFiles, Links, Inodes
<1>2. ASSUME NEW p \in Paths, owed[p] # NoContent, Reads(p) # owed[p]
      PROVE  home[p] = Nothing /\ (Binned(p) \/ (Tiered(p) /\ Between(p)))
  <2>1. Placed(p)
    BY DEF StoreInv
  <2>2. home[p].is # "link"
    BY <1>2, <2>1 DEF Placed
  <2>3. ~IsFile(home[p])
    BY <1>2, <2>1, <2>2 DEF Placed, Reads
  <2> QED
    BY <1>2, <2>1, <2>2, <2>3, HomeEntry DEF Placed, StoreInv, Typed
<1>3. ContentHeld
  BY <1>2 DEF ContentHeld, Binned, Tiered
<1>4. HiddenByCrashOnly
  BY <1>2 DEF HiddenByCrashOnly, Binned, Between
<1> QED
  BY <1>1, <1>3, <1>4 DEF Recoverable

(* What a manager wrote at a path is always held: read there, or waiting in *)
(* the trash under that path's name, or proven on the cold volume; and only *)
(* a crash between the two last calls of a tiering hides it. For any disk,  *)
(* any plans, any number of commands, writings and crashes, one terminal at *)
(* a time.                                                                  *)
THEOREM NothingIsLost ==
  ASSUME OneTerminal, Alone, NothingAwkward
  PROVE  Spec /\ [][CarefulRestore]_vars => []Recoverable
<1>1. StoreInv /\ [Next]_vars /\ [CarefulRestore]_vars => StoreInv'
  BY StoreKeeps
<1> QED
  BY <1>1, InitStore, InvRecovers, PTL DEF Spec

-----------------------------------------------------------------------------
(* What is on the disk stays there: the names a step takes are given again, *)
(* or the content has another name.                                         *)

HasName(i) ==
  \/ \E p \in Paths : home[p] = File(i) \/ cold[p] = File(i)
  \/ \E g \in Programs : temp[g] = File(i)
  \/ \E e \in bin : e.what = File(i)
  \/ i \in debris

OnDiskSaid ==
  \A c : c \in OnDisk <=> c # Junk /\ \E i \in Inodes : HasName(i) /\ file[i].content = c

LEMMA OnDiskIs == Typed => OnDiskSaid
<1> SUFFICES ASSUME Typed PROVE OnDiskSaid
  OBVIOUS
<1>1. \A i : NamesOf(i) > 0 <=> HasName(i)
  BY NamesAre DEF HasName
<1> QED
  BY <1>1 DEF OnDisk, OnDiskSaid

LEMMA OnDiskNext == Typed' => OnDiskSaid'
  BY OnDiskIs, PTL

LEMMA Stands ==
  ASSUME StoreInv, StoreInv',
         \A i \in Inodes : HasName(i) =>
           \E k \in Inodes : HasName(k)' /\ file'[k].content = file[i].content
  PROVE  OnDisk \subseteq OnDisk'
<1>1. OnDiskSaid /\ OnDiskSaid'
  BY OnDiskIs, OnDiskNext DEF StoreInv
<1> QED
  BY <1>1 DEF OnDiskSaid

LEMMA SameNames ==
  ASSUME StoreInv, StoreInv', file' = file, \A i \in Inodes : HasName(i) => HasName(i)'
  PROVE  OnDisk \subseteq OnDisk'
  BY Stands

LEMMA SameDisk ==
  ASSUME StoreInv, StoreInv', UNCHANGED disk
  PROVE  OnDisk \subseteq OnDisk'
<1>1. \A i \in Inodes : HasName(i) => HasName(i)'
  BY DEF HasName, disk
<1> QED
  BY <1>1, SameNames DEF disk

LEMMA FileApart == \A i, k : File(i) = File(k) => i = k
  BY DEF File

LEMMA NoFile == \A i : File(i) # Nothing /\ \A q : File(i) # Link(q)
  BY DEF File, Nothing, Link

(* The names that a step leaves: all but those of g, of a path, of an entry. *)
LEMMA LinkTempHolds ==
  ASSUME StoreInv, StoreInv', NEW g \in Programs, LinkTemp(g)
  PROVE  OnDisk \subseteq OnDisk'
<1>1. temp[g] = Nothing
  BY DEF LinkTemp, StoreInv, Sure, SureTemp
<1>2. \A h \in Programs : temp'[h] = temp[h] \/ h = g
  BY DEF LinkTemp, StoreInv, Typed, DiskTyped
<1>3. \A i \in Inodes : HasName(i) => HasName(i)'
  BY <1>1, <1>2, NoFile DEF HasName, LinkTemp
<1> QED
  BY <1>3, SameNames DEF LinkTemp

LEMMA SwapHolds ==
  ASSUME StoreInv, StoreInv', NEW g \in Programs, NEW p \in Paths, Swap(g, p)
  PROVE  OnDisk \subseteq OnDisk'
<1>1. /\ Is(p, job[g].sha) /\ temp[g] \in HomeFiles /\ ContentOf(temp[g]) = job[g].sha
      /\ home'[p] = temp[g] /\ \A q \in Paths \ {p} : home'[q] = home[q]
      /\ \A h \in Programs \ {g} : temp'[h] = temp[h]
      /\ UNCHANGED <<cold, debris, bin, file>>
  BY DEF Swap, StoreInv, Typed, DiskTyped, JobTyped, Sure, SureLink, SureSwap
<1>2. PICK k \in HomeInodes : temp[g] = File(k)
  BY <1>1 DEF HomeFiles
<1>3. HasName(k)' /\ k \in Inodes /\ file'[k].content = job[g].sha
  BY <1>1, <1>2 DEF HasName, Inodes, ContentOf, IsFile, File
<1>4. ASSUME NEW i \in Inodes, HasName(i)
      PROVE  HasName(i)' \/ home[p] = File(i)
  BY <1>1, <1>2, <1>3, <1>4, FileApart DEF HasName
<1>5. ASSUME NEW i \in Inodes, home[p] = File(i) PROVE file[i].content = job[g].sha
  BY <1>1, <1>5 DEF Is, ContentOf, File
<1> QED
  BY <1>1, <1>3, <1>4, <1>5, Stands

LEMMA SwapFailsHolds ==
  ASSUME StoreInv, StoreInv', NEW g \in Programs, SwapFails(g)
  PROVE  OnDisk \subseteq OnDisk'
<1> DEFINE d == job[g].dest
<1>1. /\ d \in Paths /\ Is(d, job[g].sha) /\ ContentOf(temp[g]) = job[g].sha
      /\ \A h \in Programs \ {g} : temp'[h] = temp[h]
      /\ UNCHANGED <<home, cold, debris, bin, file>>
  BY DEF SwapFails, StoreInv, Typed, DiskTyped, JobTyped, Named, Sure, SureLink, SureSwap
<1> HIDE DEF d
<1>2. PICK k \in Inodes : home[d] = File(k)
  BY <1>1, HomeEntry DEF Is, StoreInv, Typed, Inodes
<1>3. HasName(k)' /\ file'[k].content = job[g].sha
  BY <1>1, <1>2 DEF HasName, Is, ContentOf, IsFile, File
<1>4. ASSUME NEW i \in Inodes, HasName(i)
      PROVE  HasName(i)' \/ temp[g] = File(i)
  BY <1>1, <1>4 DEF HasName
<1>5. ASSUME NEW i \in Inodes, temp[g] = File(i) PROVE file[i].content = job[g].sha
  BY <1>1, <1>5 DEF ContentOf, IsFile, File
<1> QED
  BY <1>1, <1>3, <1>4, <1>5, Stands

LEMMA MoveHolds ==
  ASSUME StoreInv, StoreInv', NEW g \in Programs, Move(g)
  PROVE  OnDisk \subseteq OnDisk'
<1>1. CASE home[job[g].path] = Nothing
  BY <1>1, SameDisk DEF Move, disk
<1>2. CASE home[job[g].path] # Nothing
  <2>1. PICK p : p = job[g].path
    OBVIOUS
  <2>2. PICK e : e.what = home[p] /\ bin' = bin \cup {e}
    BY <1>2, <2>1 DEF Move
  <2>3. home' = [home EXCEPT ![p] = Nothing] /\ UNCHANGED <<cold, temp, debris, file>>
    BY <1>2, <2>1 DEF Move
  <2>4. \A q \in Paths \ {p} : home'[q] = home[q]
    BY <2>3 DEF StoreInv, Typed, DiskTyped
  <2>5. \A i \in Inodes : HasName(i) => HasName(i)'
    BY <2>2, <2>3, <2>4 DEF HasName
  <2> QED
    BY <2>3, <2>5, SameNames
<1> QED
  BY <1>1, <1>2

LEMMA NoteHolds ==
  ASSUME StoreInv, StoreInv', NothingAwkward, NEW g \in Programs, Note(g)
  PROVE  OnDisk \subseteq OnDisk'
<1>1. PICK e \in bin : bin' = (bin \ {e}) \cup {[e EXCEPT !.listed = TRUE]} /\ file' = file
  BY DEF Note, NothingAwkward
<1>2. UNCHANGED <<home, cold, temp, debris>>
  BY DEF Note
<1>3. PICK f \in bin' : f.what = e.what
  <2>1. [e EXCEPT !.listed = TRUE].what = e.what
    BY DEF StoreInv, Typed, BinTyped
  <2> QED
    BY <1>1, <2>1
<1>4. \A x \in bin : x \in bin' \/ x = e
  BY <1>1
<1>5. \A i \in Inodes : HasName(i) => HasName(i)'
  BY <1>2, <1>3, <1>4 DEF HasName
<1> QED
  BY <1>1, <1>5, SameNames

LEMMA CopyHolds ==
  ASSUME StoreInv, StoreInv', NEW g \in Programs, Copy(g)
  PROVE  OnDisk \subseteq OnDisk'
<1>1. temp[g] = Nothing
  BY DEF Copy, StoreInv, Sure, SureTemp
<1>2. PICK i \in FreeInodes(ColdInodes), c \in {ContentOf(home[job[g].path]), Junk} :
        /\ temp' = [temp EXCEPT ![g] = File(i)]
        /\ file' = [file EXCEPT ![i] = [content |-> c, date |-> edits]]
  BY DEF Copy
<1>3. ~HasName(i)
  BY FreeIsFree DEF HasName, StoreInv
<1>4. \A k \in Inodes \ {i} : file'[k] = file[k]
  BY <1>2 DEF StoreInv, Typed, DiskTyped
<1>5. \A h \in Programs \ {g} : temp'[h] = temp[h]
  BY <1>2 DEF StoreInv, Typed, DiskTyped
<1>6. \A k \in Inodes : HasName(k) => HasName(k)'
  BY <1>1, <1>5, NoFile DEF HasName, Copy
<1> QED
  BY <1>3, <1>4, <1>6, Stands

LEMMA CopyFailsHolds ==
  ASSUME StoreInv, StoreInv', NEW g \in Programs, CopyFails(g)
  PROVE  OnDisk \subseteq OnDisk'
<1>1. bin \subseteq bin' /\ (temp[g] # Nothing => \E e \in bin' : e.what = temp[g])
  <2> DEFINE e == [what |-> temp[g], origin |-> 0, why |-> "tier", listed |-> TRUE]
  <2>1. e.what = temp[g]
    OBVIOUS
  <2>2. bin' = IF temp[g] = Nothing THEN bin ELSE bin \cup {e}
    BY DEF CopyFails
  <2> HIDE DEF e
  <2> QED
    BY <2>1, <2>2
<1>2. \A h \in Programs \ {g} : temp'[h] = temp[h]
  BY DEF CopyFails, StoreInv, Typed, DiskTyped
<1>3. \A i \in Inodes : HasName(i) => HasName(i)'
  BY <1>1, <1>2, NoFile DEF HasName, CopyFails
<1> QED
  BY <1>3, SameNames DEF CopyFails

LEMMA PublishHolds ==
  ASSUME StoreInv, StoreInv', NEW g \in Programs, Publish(g)
  PROVE  OnDisk \subseteq OnDisk'
<1>1. PICK d \in Paths : d = job[g].dest /\ cold[d] = Nothing
  BY DEF Publish, StoreInv, Typed, JobTyped, Named, Tiers, Sure, SureCopy
<1>2. /\ cold'[d] = temp[g] /\ \A q \in Paths \ {d} : cold'[q] = cold[q]
      /\ \A h \in Programs \ {g} : temp'[h] = temp[h]
      /\ UNCHANGED <<home, debris, bin, file>>
  BY <1>1 DEF Publish, StoreInv, Typed, DiskTyped
<1>3. \A i \in Inodes : HasName(i) => HasName(i)'
  BY <1>1, <1>2, NoFile DEF HasName
<1> QED
  BY <1>2, <1>3, SameNames

LEMMA ProveHolds ==
  ASSUME StoreInv, StoreInv', NEW g \in Programs, Prove(g)
  PROVE  OnDisk \subseteq OnDisk'
<1>1. CASE ContentOf(cold[job[g].dest]) = job[g].sha
  BY <1>1, SameDisk DEF Prove, disk
<1>2. CASE ContentOf(cold[job[g].dest]) # job[g].sha
  <2>1. PICK d : d = job[g].dest
    OBVIOUS
  <2>2. PICK e : e.what = cold[d] /\ bin' = bin \cup {e}
    BY <1>2, <2>1 DEF Prove
  <2>3. cold' = [cold EXCEPT ![d] = Nothing] /\ UNCHANGED <<home, temp, debris, file>>
    BY <1>2, <2>1 DEF Prove
  <2>4. \A q \in Paths \ {d} : cold'[q] = cold[q]
    BY <2>3 DEF StoreInv, Typed, DiskTyped
  <2>5. \A i \in Inodes : HasName(i) => HasName(i)'
    BY <2>2, <2>3, <2>4 DEF HasName
  <2> QED
    BY <2>3, <2>5, SameNames
<1> QED
  BY <1>1, <1>2

LEMMA LeaveHolds ==
  ASSUME StoreInv, StoreInv', NEW g \in Programs, Leave(g)
  PROVE  OnDisk \subseteq OnDisk'
<1>1. \A q \in Paths : home'[q] = home[q] \/ home[q] = Nothing
  BY DEF Leave, StoreInv, Typed, DiskTyped
<1>2. \A i \in Inodes : HasName(i) => HasName(i)'
  BY <1>1, NoFile DEF HasName, Leave
<1> QED
  BY <1>2, SameNames DEF Leave

LEMMA CrashHolds ==
  ASSUME StoreInv, StoreInv', NEW g \in Programs, Crash(g)
  PROVE  OnDisk \subseteq OnDisk'
<1>1. \A i : temp[g] = File(i) => i \in debris'
  BY DEF Crash, IsFile, File
<1>2. \A h \in Programs \ {g} : temp'[h] = temp[h]
  BY DEF Crash, StoreInv, Typed, DiskTyped
<1>3. debris \subseteq debris'
  BY DEF Crash
<1>4. \A i \in Inodes : HasName(i) => HasName(i)'
  BY <1>1, <1>2, <1>3 DEF HasName, Crash
<1> QED
  BY <1>4, SameNames DEF Crash

LEMMA EmptyErases ==
  ASSUME StoreInv, StoreInv', NEW e \in bin, Empty(e)
  PROVE  OnDisk \ OnDisk' \subseteq {ContentOf(e.what)}
<1>1. bin' = bin \ {e} /\ UNCHANGED <<home, cold, temp, debris, file>>
  BY DEF Empty
<1>2. OnDiskSaid /\ OnDiskSaid'
  BY OnDiskIs, OnDiskNext DEF StoreInv
<1>3. ASSUME NEW i \in Inodes, HasName(i)
      PROVE  HasName(i)' \/ e.what = File(i)
  BY <1>1, <1>3 DEF HasName
<1>4. ASSUME NEW i \in Inodes, e.what = File(i) PROVE ContentOf(e.what) = file[i].content
  BY <1>4 DEF ContentOf, IsFile, File
<1> QED
  BY <1>1, <1>2, <1>3, <1>4 DEF OnDiskSaid

LEMMA RestoreHolds ==
  ASSUME StoreInv, StoreInv', NEW e \in bin, Restore(e)
  PROVE  OnDisk \subseteq OnDisk'
<1>1. /\ e.origin \in Paths /\ ~IsFile(home[e.origin])
      /\ home' = [home EXCEPT ![e.origin] = e.what] /\ bin' = bin \ {e}
      /\ UNCHANGED <<cold, temp, debris, file>>
  BY DEF Restore, StoreInv, Typed, BinTyped
<1>2. home'[e.origin] = e.what /\ \A q \in Paths \ {e.origin} : home'[q] = home[q]
  BY <1>1 DEF StoreInv, Typed, DiskTyped
<1>3. \A i : home[e.origin] # File(i)
  BY <1>1 DEF IsFile, File
<1>4. \A i \in Inodes : HasName(i) => HasName(i)'
  BY <1>1, <1>2, <1>3 DEF HasName
<1> QED
  BY <1>1, <1>4, SameNames

LEMMA CommandHolds ==
  ASSUME StoreInv, StoreInv', NothingAwkward, NEW g \in Programs, Command(g)
  PROVE  OnDisk \subseteq OnDisk'
<1>1. CASE \/ \E a \in seen.plan : BeginLink(g, a) \/ BeginTrash(g, a)
           \/ \E p \in Paths : BeginTier(g, p)
           \/ Verify(g)
  BY <1>1, SameDisk DEF BeginLink, BeginTrash, BeginTier, Verify
<1>2. CASE \E p \in Paths : Swap(g, p)
  BY <1>2, SwapHolds
<1>3. CASE LinkTemp(g) \/ SwapFails(g) \/ Move(g) \/ Note(g)
  BY <1>3, LinkTempHolds, SwapFailsHolds, MoveHolds, NoteHolds
<1>4. CASE Copy(g) \/ CopyFails(g) \/ Publish(g) \/ Prove(g) \/ Leave(g)
  BY <1>4, CopyHolds, CopyFailsHolds, PublishHolds, ProveHolds, LeaveHolds
<1> QED
  BY <1>1, <1>2, <1>3, <1>4 DEF Command

Erasing ==
  \/ OnDisk \subseteq OnDisk'
  \/ edits' # edits
  \/ \E e \in bin : /\ e.listed /\ bin' = bin \ {e}
                    /\ OnDisk \ OnDisk' \subseteq {ContentOf(e.what)}

LEMMA StepErases ==
  ASSUME NothingAwkward, StoreInv, StoreInv', Next
  PROVE  Erasing
<1>1. ASSUME NEW read \in BOOLEAN, Scan(read) PROVE Erasing
  BY <1>1, SameDisk DEF Scan, Erasing
<1>2. ASSUME NEW g \in Programs, Command(g) \/ Crash(g) PROVE Erasing
  BY <1>2, CommandHolds, CrashHolds DEF Erasing
<1>3. ASSUME NEW e \in bin, Empty(e) PROVE Erasing
  BY <1>3, EmptyErases DEF Empty, Erasing
<1>4. ASSUME NEW e \in bin, Restore(e) PROVE Erasing
  BY <1>4, RestoreHolds DEF Erasing
<1>5. ASSUME NEW p \in Paths, NEW c \in Contents, Renew(p, c) \/ \E kept \in BOOLEAN : Edit(p, c, kept)
      PROVE  Erasing
  <2>1. edits' = edits + 1
    BY <1>5 DEF Renew, Edit
  <2>2. edits \in Int
    BY StoreAssumption DEF StoreInv, Typed, DiskTyped
  <2> QED
    BY <2>1, <2>2 DEF Erasing
<1> QED
  BY <1>1, <1>2, <1>3, <1>4, <1>5 DEF Next

(* Emptying the trash is the one step by which a content stops being on the *)
(* disk, and it is a content that the listing showed: all other calls, the  *)
(* crashes between them included, give again the names they take.           *)
THEOREM OnlyTheTrashErases ==
  ASSUME OneTerminal, Alone, NothingAwkward
  PROVE  Spec /\ [][CarefulRestore]_vars => OnlyEmptyErases
<1>1. StoreInv /\ [Next]_vars /\ [CarefulRestore]_vars => StoreInv'
  BY StoreKeeps
<1>2. StoreInv /\ StoreInv' /\ [Next]_vars => [Erasing]_vars
  BY StepErases
<1>3. Spec /\ [][CarefulRestore]_vars => [][Erasing]_vars
  BY <1>1, <1>2, InitStore, PTL DEF Spec
<1> QED
  BY <1>3 DEF OnlyEmptyErases, Erasing

-----------------------------------------------------------------------------
(* The conversation with a worker (Session).                               *)

(* What a client asks is an operation, and an inference names a job.       *)
Legal(op) == op.op = "infer" => op.job \in JobIds
Legals == {op \in Op : Legal(op)}

(* A result that is told is that of an execution that ended.               *)
ToldTrue ==
  \A c \in Clients : \A i \in DOMAIN told[c] :
    told[c][i].ev = "result" => told[c][i].job \in finished

AnswersOwn ==
  \A c \in Clients : \A i \in DOMAIN answers[c] :
    answers[c][i].verdict = "ok" /\ answers[c][i].call.op = "infer" =>
      answers[c][i].from = answers[c][i].call.job /\ answers[c][i].from \in finished

(* The bench never connects: its channel is there, or it has none.         *)
BenchHasItsChannel == phase[Bench] # "idle"

AsksLegal ==
  /\ task \in Legals \cup {NoTask}
  /\ asked \in [Clients -> Seq(Legals)]

IInv == SessionTyped /\ AsksLegal /\ ToldTrue /\ AnswersOwn /\ BenchHasItsChannel

(* A script has at least one call, and each is one a worker may be asked.  *)
LEMMA ScriptLegal ==
  ASSUME NEW c \in Clients
  PROVE  /\ Script(c) \in Seq(Legals)
         /\ Len(Script(c)) \in Nat \ {0}
<1> USE SessionAssumption DEF SessionAssumption
<1>1. CASE c \in Jobs
  <2> Call("infer", <<c, 0>>) \in Legals
    BY <1>1 DEF Call, Op, Legals, Legal, JobIds
  <2> QED
    BY <1>1 DEF Script
<1>2. CASE c \notin Jobs /\ c \in Health
  <2> Call("ping", NoJob) \in Legals
    BY DEF Call, Op, Legals, Legal
  <2> QED
    BY <1>2 DEF Script
<1>3. CASE c \notin Jobs /\ c \notin Health /\ c \in Evictors
  <2> Call("unload", NoJob) \in Legals
    BY DEF Call, Op, Legals, Legal
  <2> QED
    BY <1>3 DEF Script
<1>4. CASE c \notin Residents
  <2> DEFINE cases == [i \in 1 .. Cases |-> Call("infer", <<c, i>>)]
  <2>1. c = Bench
    BY <1>4 DEF Clients
  <2>2. Call("load", NoJob) \in Legals
    BY DEF Call, Op, Legals, Legal
  <2>3. \A i \in 1 .. Cases : Call("infer", <<c, i>>) \in Legals
    BY <2>1 DEF Call, Op, Legals, Legal, JobIds
  <2>4. cases \in Seq(Legals)
    BY <2>3, IsASeq
  <2>5. <<Call("load", NoJob)>> \in Seq(Legals) /\ Len(<<Call("load", NoJob)>>) = 1
    BY <2>2
  <2>6. Script(c) = <<Call("load", NoJob)>> \o cases
    BY <1>4 DEF Script, Residents
  <2> HIDE DEF cases
  <2>7. /\ <<Call("load", NoJob)>> \o cases \in Seq(Legals)
        /\ Len(<<Call("load", NoJob)>> \o cases) = 1 + Len(cases)
    BY <2>4, <2>5, ConcatProperties
  <2>8. Len(cases) \in Nat
    BY <2>4, LenProperties
  <2> QED
    BY <2>6, <2>7, <2>8
<1> QED
  BY <1>1, <1>2, <1>3, <1>4 DEF Residents

LEMMA CurrentLegal ==
  ASSUME SessionTyped, NEW c \in Clients
  PROVE  Current(c) \in Legals /\ Current(c) \in Op
<1>1. Current(c) \in Legals
  BY ScriptLegal, ElementOfSeq DEF SessionTyped, Current
<1> QED
  BY <1>1 DEF Legals

LEMMA InitIInv == SessionInit => IInv
<1> SUFFICES ASSUME SessionInit PROVE IInv
  OBVIOUS
<1> USE SessionAssumption, NoTaskAssumption DEF SessionAssumption
<1>1. SessionTyped
  <2>1. at \in [Clients -> Nat] /\ \A c \in Clients : at[c] \in 1 .. Len(Script(c))
    BY ScriptLegal DEF SessionInit
  <2>2. backlog \in Seq(Residents) /\ asked \in [Clients -> Seq(Op)]
    BY DEF SessionInit
  <2>3. told \in [Clients -> Seq(Line)] /\ answers \in [Clients -> Seq(Answer)]
    BY DEF SessionInit
  <2>4. serving \in Clients \cup {Nobody} /\ task \in Op \cup {NoTask} /\ task = NoTask
    BY DEF SessionInit, Clients
  <2>5. phase \in [Clients -> Phases] /\ left \in [Clients -> 0 .. Patience]
    BY DEF SessionInit, Phases
  <2>6. link \in [Clients -> {"none", "open", "left", "cut"}]
    BY DEF SessionInit
  <2>7. resident \in BOOLEAN /\ loaded \in BOOLEAN /\ hung \in BOOLEAN
    BY DEF SessionInit
  <2>8. state \in {"up", "leaving", "down"} /\ said \in 0 .. MaxProgress /\ finished \subseteq JobIds
    BY DEF SessionInit
  <2> QED
    BY <2>1, <2>2, <2>3, <2>4, <2>5, <2>6, <2>7, <2>8 DEF SessionTyped
<1>2. AsksLegal
  BY DEF SessionInit, AsksLegal
<1>3. ToldTrue /\ AnswersOwn
  BY DEF SessionInit, ToldTrue, AnswersOwn
<1>4. BenchHasItsChannel
  BY DEF SessionInit, BenchHasItsChannel, Clients
<1> QED
  BY <1>1, <1>2, <1>3, <1>4 DEF IInv

-----------------------------------------------------------------------------
(* The invariant, by whose variables it speaks of.                         *)
WorkerTyped ==
  /\ resident \in BOOLEAN /\ loaded \in BOOLEAN /\ hung \in BOOLEAN
  /\ state \in {"up", "leaving", "down"}
  /\ serving \in Clients \cup {Nobody}
  /\ task \in Legals \cup {NoTask} /\ said \in 0 .. MaxProgress
  /\ task # NoTask => serving # Nobody
  /\ finished \subseteq JobIds
WiresTyped ==
  /\ backlog \in Seq(Residents)
  /\ link \in [Clients -> {"none", "open", "left", "cut"}]
  /\ asked \in [Clients -> Seq(Legals)]
ToldTyped == told \in [Clients -> Seq(Line)]
ClientTyped ==
  /\ phase \in [Clients -> Phases]
  /\ at \in [Clients -> Nat] /\ \A c \in Clients : at[c] \in 1 .. Len(Script(c))
  /\ left \in [Clients -> 0 .. Patience]
  /\ answers \in [Clients -> Seq(Answer)]

(* What is asked is a sequence of operations.                              *)
LEMMA AskedOps ==
  ASSUME NEW f \in [Clients -> Seq(Legals)]
  PROVE  f \in [Clients -> Seq(Op)]
<1>1. Seq(Legals) \subseteq Seq(Op)
  <2> Legals \subseteq Op
    BY DEF Legals
  <2> QED
    BY SeqMonotonic
<1> QED
  BY <1>1

LEMMA InParts ==
  IInv => /\ WorkerTyped /\ WiresTyped /\ ToldTyped /\ ClientTyped
          /\ ToldTrue /\ AnswersOwn /\ BenchHasItsChannel
BY DEF IInv, SessionTyped, AsksLegal, WorkerTyped, WiresTyped, ToldTyped, ClientTyped

(* It holds after a step whose parts do. *)
LEMMA Rejoined ==
  ASSUME WorkerTyped', WiresTyped', ToldTyped', ClientTyped',
         ToldTrue', AnswersOwn', BenchHasItsChannel'
  PROVE  IInv'
<1>1. asked' \in [Clients -> Seq(Op)]
  BY AskedOps DEF WiresTyped
<1>2. task' \in Op \cup {NoTask}
  BY DEF WorkerTyped, Legals
<1>3. SessionTyped' /\ AsksLegal'
  BY <1>1, <1>2 DEF SessionTyped, AsksLegal, WorkerTyped, WiresTyped, ToldTyped, ClientTyped
<1> QED
  BY <1>3 DEF IInv

-----------------------------------------------------------------------------
(* How a call concludes keeps what its caller is known to be.               *)
LEMMA Concluding ==
  ASSUME IInv, NEW c \in Clients, NEW verdict \in Verdicts,
         NEW from \in JobIds \cup {NoJob}, Conclude(c, verdict, from),
         finished' = finished,
         verdict = "ok" /\ Current(c).op = "infer" =>
           from = Current(c).job /\ from \in finished
  PROVE  /\ ClientTyped' /\ AnswersOwn' /\ BenchHasItsChannel'
         /\ link' \in [Clients -> {"none", "open", "left", "cut"}]
<1> USE SessionAssumption DEF SessionAssumption
<1> DEFINE a == [verdict |-> verdict, call |-> Current(c), from |-> from]
<1>1. a \in Answer
  BY CurrentLegal DEF IInv, Answer
<1>2. /\ answers \in [Clients -> Seq(Answer)] /\ phase \in [Clients -> Phases]
      /\ left \in [Clients -> 0 .. Patience] /\ at \in [Clients -> Nat]
      /\ \A d \in Clients : at[d] \in 1 .. Len(Script(d))
      /\ link \in [Clients -> {"none", "open", "left", "cut"}]
  BY DEF IInv, SessionTyped
<1>3. answers' = [answers EXCEPT ![c] = Append(@, a)]
  BY DEF Conclude
<1>4. a.verdict = verdict /\ a.call = Current(c) /\ a.from = from
  OBVIOUS
<1> HIDE DEF a
<1>5. answers' \in [Clients -> Seq(Answer)]
  BY <1>1, <1>2, <1>3, AppendProperties
<1>6. AnswersOwn'
  <2> SUFFICES ASSUME NEW d \in Clients, NEW i \in DOMAIN answers'[d],
                      answers'[d][i].verdict = "ok", answers'[d][i].call.op = "infer"
               PROVE  /\ answers'[d][i].from = answers'[d][i].call.job
                      /\ answers'[d][i].from \in finished
    BY DEF AnswersOwn
  <2>1. CASE d # c \/ i \in DOMAIN answers[d]
    <3> answers'[d][i] = answers[d][i] /\ i \in DOMAIN answers[d]
      BY <1>1, <1>2, <1>3, <2>1, AppendProperties
    <3> QED
      BY DEF IInv, AnswersOwn
  <2>2. CASE d = c /\ i \notin DOMAIN answers[d]
    <3> answers'[d][i] = a
      BY <1>1, <1>2, <1>3, <2>2, AppendProperties
    <3> QED
      BY <1>4
  <2> QED
    BY <2>1, <2>2
<1>7. left' \in [Clients -> 0 .. Patience]
  BY <1>2 DEF Conclude
<1>8. CASE GoesOn(c, verdict)
  <2>1. at' = [at EXCEPT ![c] = @ + 1] /\ phase' = [phase EXCEPT ![c] = "ready"] /\ link' = link
    BY <1>8 DEF Conclude
  <2>2. at[c] < Len(Script(c))
    BY <1>8 DEF GoesOn
  <2>3. at' \in [Clients -> Nat]
    BY <1>2, <2>1
  <2>4. \A d \in Clients : at'[d] \in 1 .. Len(Script(d))
    <3> SUFFICES ASSUME NEW d \in Clients PROVE at'[d] \in 1 .. Len(Script(d))
      OBVIOUS
    <3>1. at[d] \in 1 .. Len(Script(d)) /\ Len(Script(d)) \in Nat
      BY <1>2, ScriptLegal
    <3>2. at'[d] \in {at[d], IF d = c THEN at[d] + 1 ELSE at[d]}
      BY <1>2, <2>1, <3>1
    <3> QED
      BY <2>2, <3>1, <3>2
  <2>5. phase' \in [Clients -> Phases] /\ BenchHasItsChannel'
    BY <1>2, <2>1 DEF Phases, IInv, BenchHasItsChannel, Clients
  <2> QED
    BY <1>2, <1>5, <1>6, <1>7, <2>1, <2>3, <2>4, <2>5 DEF ClientTyped
<1>9. CASE ~GoesOn(c, verdict)
  <2>1. /\ at' = at
        /\ phase' = [phase EXCEPT ![c] = IF c \in Jobs \cup Health THEN "done" ELSE "kill"]
        /\ link' = [link EXCEPT ![c] = IF @ = "open" THEN "left" ELSE @]
    BY <1>9 DEF Conclude
  <2>2. phase' \in [Clients -> Phases] /\ BenchHasItsChannel'
    BY <1>2, <2>1 DEF Phases, IInv, BenchHasItsChannel, Clients
  <2>3. link' \in [Clients -> {"none", "open", "left", "cut"}]
    BY <1>2, <2>1
  <2> QED
    BY <1>2, <1>5, <1>6, <1>7, <2>1, <2>2, <2>3 DEF ClientTyped
<1> QED
  BY <1>8, <1>9

(* A step that leaves what was told and what finished keeps ToldTrue; one   *)
(* that leaves the answers keeps AnswersOwn.                                *)
LEMMA StepKept ==
  ASSUME IInv, finished \subseteq finished'
  PROVE  /\ told' = told => ToldTrue'
         /\ answers' = answers => AnswersOwn'
         /\ phase' = phase => BenchHasItsChannel'
  BY DEF IInv, ToldTrue, AnswersOwn, BenchHasItsChannel

LEMMA ClientKeeps ==
  ASSUME IInv, NEW c \in Clients, ClientStep(c)
  PROVE  IInv'
<1> USE SessionAssumption DEF SessionAssumption
<1>a. /\ WorkerTyped /\ WiresTyped /\ ToldTyped /\ ClientTyped
      /\ ToldTrue /\ AnswersOwn /\ BenchHasItsChannel
  BY InParts
<1>b. c # Bench => c \in Residents
  BY DEF Clients
<1>1. CASE Connect(c)
  <2>1. phase[c] = "idle" /\ c \in Residents
    BY <1>1, <1>a, <1>b DEF Connect, BenchHasItsChannel
  <2>2. UNCHANGED <<resident, worker, asked, told, at, left, answers>>
    BY <1>1 DEF Connect
  <2>3. WorkerTyped' /\ ToldTyped'
    BY <1>a, <2>2 DEF worker, WorkerTyped, ToldTyped
  <2>4. backlog' = Append(backlog, c) /\ link' = [link EXCEPT ![c] = "open"]
        /\ phase' = [phase EXCEPT ![c] = "ready"]
    BY <1>1 DEF Connect
  <2>5. WiresTyped'
    BY <1>a, <2>1, <2>2, <2>4, AppendProperties DEF WiresTyped
  <2>6. ClientTyped' /\ BenchHasItsChannel'
    BY <1>a, <2>2, <2>4 DEF ClientTyped, BenchHasItsChannel, Phases
  <2>7. ToldTrue' /\ AnswersOwn'
    BY <2>2, StepKept DEF worker
  <2> QED
    BY <2>3, <2>5, <2>6, <2>7, Rejoined
<1>2. CASE Refused(c)
  <2>1. UNCHANGED <<resident, worker, wires, at, left, answers>>
        /\ phase' = [phase EXCEPT ![c] = IF c \in Health THEN "done" ELSE "kill"]
    BY <1>2 DEF Refused
  <2>2. WorkerTyped' /\ WiresTyped' /\ ToldTyped'
    BY <1>a, <2>1 DEF worker, wires, WorkerTyped, WiresTyped, ToldTyped
  <2>3. ClientTyped' /\ BenchHasItsChannel'
    BY <1>a, <2>1 DEF ClientTyped, BenchHasItsChannel, Phases
  <2>4. ToldTrue' /\ AnswersOwn'
    BY <2>1, StepKept DEF worker, wires
  <2> QED
    BY <2>2, <2>3, <2>4, Rejoined
<1>3. CASE Kill(c)
  <2>1. /\ phase' = [phase EXCEPT ![c] = "done"] /\ backlog' = <<>>
        /\ link' = [d \in Clients |-> IF link[d] = "open" THEN "cut" ELSE link[d]]
        /\ asked' = [d \in Clients |-> <<>>]
        /\ UNCHANGED <<resident, loaded, finished, told, at, left, answers>>
    BY <1>3 DEF Kill
  <2>2. state' = "down" /\ serving' = Nobody /\ task' = NoTask /\ hung' = FALSE /\ said' = 0
    BY <1>3 DEF Kill
  <2>3. WorkerTyped' /\ ToldTyped'
    <3>1. 0 \in 0 .. MaxProgress /\ task' \in Legals \cup {NoTask}
      BY <2>2
    <3>2. hung' \in BOOLEAN /\ (task' # NoTask => serving' # Nobody)
      BY <2>2
    <3> QED
      BY <1>a, <2>1, <2>2, <3>1, <3>2 DEF WorkerTyped, ToldTyped
  <2>4. WiresTyped'
    BY <1>a, <2>1 DEF WiresTyped
  <2>5. ClientTyped' /\ BenchHasItsChannel'
    BY <1>a, <2>1 DEF ClientTyped, BenchHasItsChannel, Phases
  <2>6. ToldTrue' /\ AnswersOwn'
    BY <2>1, StepKept
  <2> QED
    BY <2>3, <2>4, <2>5, <2>6, Rejoined
<1>4. CASE Send(c)
  <2>1. /\ asked' = [asked EXCEPT ![c] = Append(@, Current(c))]
        /\ left' = [left EXCEPT ![c] = Patience]
        /\ phase' = [phase EXCEPT ![c] = "wait"]
        /\ UNCHANGED <<resident, worker, backlog, link, told, at, answers>>
    BY <1>4 DEF Send
  <2>2. WorkerTyped' /\ ToldTyped'
    BY <1>a, <2>1 DEF worker, WorkerTyped, ToldTyped
  <2>3. Current(c) \in Legals
    BY CurrentLegal DEF IInv
  <2>4. WiresTyped'
    BY <1>a, <2>1, <2>3, AppendProperties DEF WiresTyped
  <2>5. ClientTyped' /\ BenchHasItsChannel'
    BY <1>a, <2>1 DEF ClientTyped, BenchHasItsChannel, Phases
  <2>6. ToldTrue' /\ AnswersOwn'
    BY <2>1, StepKept DEF worker
  <2> QED
    BY <2>2, <2>4, <2>5, <2>6, Rejoined
<1>5. CASE Closed(c) \/ Expire(c)
  <2>1. \E verdict \in {"closed", "timeout"} : Conclude(c, verdict, NoJob)
    BY <1>5 DEF Closed, Expire
  <2>2. UNCHANGED <<resident, worker, backlog, asked, told>>
    BY <1>5 DEF Closed, Expire
  <2>3. /\ ClientTyped' /\ AnswersOwn' /\ BenchHasItsChannel'
        /\ link' \in [Clients -> {"none", "open", "left", "cut"}]
    BY <2>1, <2>2, Concluding DEF Verdicts, worker
  <2>4. WorkerTyped' /\ WiresTyped' /\ ToldTyped' /\ ToldTrue'
    BY <1>a, <2>2, <2>3, StepKept DEF worker, WorkerTyped, WiresTyped, ToldTyped
  <2> QED
    BY <2>3, <2>4, Rejoined
<1>6. CASE Receive(c)
  <2> DEFINE line == Head(told[c])
  <2>1. told[c] \in Seq(Line) /\ told[c] # <<>>
    BY <1>6, <1>a DEF Receive, ToldTyped
  <2>2. /\ told' = [told EXCEPT ![c] = Tail(@)]
        /\ UNCHANGED <<resident, worker, backlog, asked>>
    BY <1>6 DEF Receive
  <2>3. \/ line.ev = "error" /\ Conclude(c, "error", line.job)
        \/ Awaited(c, line) /\ Conclude(c, "ok", line.job)
        \/ Conclude(c, "timeout", NoJob)
        \/ /\ left' = [left EXCEPT ![c] = Renewed(c, line)]
           /\ UNCHANGED <<link, phase, at, answers>>
    BY <1>6 DEF Receive
  <2>4. line \in Line /\ line = told[c][1] /\ 1 \in DOMAIN told[c]
    BY <2>1
  <2>5. Awaited(c, line) /\ Current(c).op = "infer" =>
          line.job = Current(c).job /\ line.job \in finished
    BY <1>a, <2>4 DEF Awaited, Expected, ToldTrue
  <2> HIDE DEF line
  <2>6. line.job \in JobIds \cup {NoJob}
    BY <2>4 DEF Line
  <2>7. ToldTyped' /\ ToldTrue'
    <3>1. \A d \in Clients : \A i \in DOMAIN told'[d] :
             told'[d][i] \in Line /\ \E k \in DOMAIN told[d] : told'[d][i] = told[d][k]
      <4> SUFFICES ASSUME NEW d \in Clients, NEW i \in DOMAIN told'[d]
                   PROVE  told'[d][i] \in Line /\ \E k \in DOMAIN told[d] : told'[d][i] = told[d][k]
        OBVIOUS
      <4>1. told[d] \in Seq(Line)
        BY <1>a DEF ToldTyped
      <4>2. CASE d = c
        <5>1. told'[c] = Tail(told[c])
          BY <1>a, <2>2 DEF ToldTyped
        <5>2. told'[c][i] = told[c][i + 1] /\ i + 1 \in DOMAIN told[c]
          BY <2>1, <4>2, <5>1
        <5> QED
          BY <4>1, <4>2, <5>2, ElementOfSeq
      <4>3. CASE d # c
        BY <1>a, <2>2, <4>1, <4>3 DEF ToldTyped
      <4> QED
        BY <4>2, <4>3
    <3>2. told' \in [Clients -> Seq(Line)]
      BY <1>a, <2>1, <2>2 DEF ToldTyped
    <3> QED
      BY <1>a, <2>2, <3>1, <3>2 DEF ToldTyped, ToldTrue, worker
  <2>8. /\ ClientTyped' /\ AnswersOwn' /\ BenchHasItsChannel'
        /\ link' \in [Clients -> {"none", "open", "left", "cut"}]
    <3>1. finished' = finished
      BY <2>2 DEF worker
    <3>2. CASE line.ev = "error" /\ Conclude(c, "error", line.job)
      BY <3>1, <3>2, <2>6, Concluding DEF Verdicts
    <3>3. CASE Awaited(c, line) /\ Conclude(c, "ok", line.job)
      BY <3>1, <3>3, <2>5, <2>6, Concluding DEF Verdicts
    <3>4. CASE Conclude(c, "timeout", NoJob)
      BY <3>1, <3>4, Concluding DEF Verdicts
    <3>5. CASE left' = [left EXCEPT ![c] = Renewed(c, line)] /\ UNCHANGED <<link, phase, at, answers>>
      <4>1. Renewed(c, line) \in 0 .. Patience
        BY <1>a DEF Renewed, ClientTyped
      <4> QED
        BY <1>a, <3>1, <3>5, <4>1, StepKept DEF ClientTyped, WiresTyped
    <3> QED
      BY <2>3, <3>2, <3>3, <3>4, <3>5
  <2>9. WorkerTyped' /\ WiresTyped'
    BY <1>a, <2>2, <2>8 DEF worker, WorkerTyped, WiresTyped
  <2> QED
    BY <2>7, <2>8, <2>9, Rejoined
<1> QED
  BY <1>1, <1>2, <1>3, <1>4, <1>5, <1>6 DEF ClientStep

(* A line told to the client served is a line, true if it is.               *)
LEMMA Telling ==
  ASSUME IInv, serving \in Clients, NEW line \in Line, Tell(line),
         finished \subseteq finished', finished' \subseteq JobIds,
         line.ev = "result" => line.job \in finished'
  PROVE  /\ ToldTyped' /\ ToldTrue'
         /\ serving' \in Clients \cup {Nobody} /\ state' \in {"up", "leaving", "down"}
         /\ link[serving] = "open" => serving' = serving
<1>a. /\ told \in [Clients -> Seq(Line)] /\ ToldTrue
      /\ serving \in Clients /\ state \in {"up", "leaving", "down"}
  BY DEF IInv, SessionTyped
<1>1. CASE link[serving] = "open"
  <2>1. told' = [told EXCEPT ![serving] = Append(@, line)] /\ UNCHANGED <<state, serving>>
    BY <1>1 DEF Tell
  <2>2. ToldTyped'
    BY <1>a, <2>1, AppendProperties DEF ToldTyped
  <2>3. ToldTrue'
    <3> SUFFICES ASSUME NEW d \in Clients, NEW i \in DOMAIN told'[d], told'[d][i].ev = "result"
                 PROVE  told'[d][i].job \in finished'
      BY DEF ToldTrue
    <3>1. CASE d # serving \/ i \in DOMAIN told[d]
      <4> told'[d][i] = told[d][i] /\ i \in DOMAIN told[d]
        BY <1>a, <2>1, <3>1, AppendProperties
      <4> QED
        BY <1>a DEF ToldTrue
    <3>2. CASE d = serving /\ i \notin DOMAIN told[d]
      <4> told'[d][i] = line
        BY <1>a, <2>1, <3>2, AppendProperties
      <4> QED
        OBVIOUS
    <3> QED
      BY <3>1, <3>2
  <2> QED
    BY <1>a, <2>1, <2>2, <2>3
<1>2. CASE link[serving] # "open"
  <2>1. NextConnection /\ told' = told
    BY <1>2 DEF Tell
  <2> QED
    BY <1>2, <1>a, <2>1, StepKept DEF NextConnection, ToldTyped
<1> QED
  BY <1>1, <1>2

LEMMA WorkerKeeps ==
  ASSUME IInv, Serve \/ Fail \/ Hang \/ IdleOut
  PROVE  IInv'
<1> USE SessionAssumption, NoTaskAssumption DEF SessionAssumption
<1>a. /\ WorkerTyped /\ WiresTyped /\ ToldTyped /\ ClientTyped
      /\ ToldTrue /\ AnswersOwn /\ BenchHasItsChannel
  BY InParts
<1>b. Nobody \notin Clients
  OBVIOUS
<1>c. client' = client => ClientTyped'
  BY <1>a DEF client, ClientTyped
<1>1. CASE Accept
  <2>1. /\ serving = Nobody /\ backlog # <<>> /\ serving' = Head(backlog) /\ backlog' = Tail(backlog)
        /\ UNCHANGED <<resident, state, loaded, hung, task, said, finished, link, asked, told, client>>
    BY <1>1 DEF Accept
  <2>2. Head(backlog) \in Residents /\ Tail(backlog) \in Seq(Residents)
    BY <1>a, <2>1, HeadTailProperties DEF WiresTyped
  <2>3. WorkerTyped' /\ WiresTyped' /\ ToldTyped'
    BY <1>a, <2>1, <2>2 DEF WorkerTyped, WiresTyped, ToldTyped, Clients
  <2> QED
    BY <1>c, <2>1, <2>3, StepKept, Rejoined DEF client
<1>2. CASE Take
  <2>1. /\ serving # Nobody /\ asked[serving] # <<>> /\ task' = Head(asked[serving])
        /\ asked' = [asked EXCEPT ![serving] = Tail(@)] /\ said' = 0
        /\ UNCHANGED <<resident, state, loaded, hung, serving, finished, backlog, link, told, client>>
    BY <1>2 DEF Take
  <2>2. serving \in Clients /\ asked[serving] \in Seq(Legals)
    BY <1>a, <2>1 DEF WorkerTyped, WiresTyped
  <2>3. Head(asked[serving]) \in Legals /\ Tail(asked[serving]) \in Seq(Legals)
    BY <2>1, <2>2, HeadTailProperties
  <2>4. WorkerTyped' /\ WiresTyped' /\ ToldTyped'
    BY <1>a, <2>1, <2>2, <2>3 DEF WorkerTyped, WiresTyped, ToldTyped
  <2> QED
    BY <1>c, <2>1, <2>4, StepKept, Rejoined DEF client
<1>3. CASE HangUp
  <2>1. /\ serving' = Nobody /\ task = NoTask /\ state' \in {state, "down"}
        /\ UNCHANGED <<resident, loaded, hung, task, said, finished, wires, client>>
    BY <1>3 DEF HangUp, NextConnection
  <2>2. WorkerTyped' /\ WiresTyped' /\ ToldTyped'
    BY <1>a, <2>1 DEF WorkerTyped, WiresTyped, ToldTyped, wires
  <2> QED
    BY <1>c, <2>1, <2>2, StepKept, Rejoined DEF client, wires
<1>4. CASE Report
  <2>1. /\ task # NoTask /\ said < MaxProgress /\ Tell(Says("progress", task.job))
        /\ said' = said + 1
        /\ task' = IF link[serving] = "open" THEN task ELSE NoTask
        /\ UNCHANGED <<resident, loaded, hung, finished, backlog, link, asked, client>>
    BY <1>4 DEF Report, Busy
  <2>2. serving \in Clients /\ task \in Legals
    BY <1>a, <2>1 DEF WorkerTyped
  <2>3. Says("progress", task.job) \in Line /\ Says("progress", task.job).ev # "result"
    BY <2>2 DEF Says, Line, Events, Legals, Op
  <2>4. /\ ToldTyped' /\ ToldTrue'
        /\ serving' \in Clients \cup {Nobody} /\ state' \in {"up", "leaving", "down"}
        /\ link[serving] = "open" => serving' = serving
    BY <1>a, <2>1, <2>2, <2>3, Telling DEF WorkerTyped
  <2>5. WorkerTyped' /\ WiresTyped'
    BY <1>a, <1>b, <2>1, <2>2, <2>4 DEF WorkerTyped, WiresTyped
  <2> QED
    BY <1>c, <2>1, <2>4, <2>5, StepKept, Rejoined DEF client
<1>5. CASE Finish
  <2> DEFINE line == Says(Expected(task.op), task.job)
  <2>1. /\ task # NoTask /\ Tell(line) /\ task' = NoTask
        /\ finished' = IF task.op = "infer" THEN finished \cup {task.job} ELSE finished
        /\ UNCHANGED <<resident, hung, said, backlog, link, asked, client>>
    BY <1>5 DEF Finish, Busy
  <2>2. loaded' \in BOOLEAN
    BY <1>5, <1>a DEF Finish, WorkerTyped
  <2>3. serving \in Clients /\ task \in Legals
    BY <1>a, <2>1 DEF WorkerTyped
  <2>4. /\ task.op \in {"load", "infer", "ping", "unload"} /\ task.job \in JobIds \cup {NoJob}
        /\ task.op = "infer" => task.job \in JobIds
    BY <2>3 DEF Legals, Legal, Op
  <2>5. Expected(task.op) \in Events /\ (Expected(task.op) = "result" => task.op = "infer")
    BY <2>4 DEF Expected, Events
  <2>6. line \in Line /\ line.ev = Expected(task.op) /\ line.job = task.job
    BY <2>4, <2>5 DEF Says, Line
  <2> HIDE DEF line
  <2>7. finished \subseteq finished' /\ finished' \subseteq JobIds
    BY <1>a, <2>1, <2>4 DEF WorkerTyped
  <2>8. line.ev = "result" => line.job \in finished'
    BY <2>1, <2>5, <2>6
  <2>9. /\ ToldTyped' /\ ToldTrue'
        /\ serving' \in Clients \cup {Nobody} /\ state' \in {"up", "leaving", "down"}
    BY <2>1, <2>3, <2>6, <2>7, <2>8, Telling
  <2>10. WorkerTyped' /\ WiresTyped'
    BY <1>a, <2>1, <2>2, <2>7, <2>9 DEF WorkerTyped, WiresTyped
  <2> QED
    BY <1>c, <2>1, <2>7, <2>9, <2>10, StepKept, Rejoined DEF client
<1>6. CASE Fail
  <2>1. /\ task # NoTask /\ Tell(Says("error", task.job)) /\ task' = NoTask
        /\ UNCHANGED <<resident, loaded, hung, said, finished, backlog, link, asked, client>>
    BY <1>6 DEF Fail, Busy
  <2>2. serving \in Clients /\ task \in Legals
    BY <1>a, <2>1 DEF WorkerTyped
  <2>3. Says("error", task.job) \in Line /\ Says("error", task.job).ev # "result"
    BY <2>2 DEF Says, Line, Events, Legals, Op
  <2>4. /\ ToldTyped' /\ ToldTrue'
        /\ serving' \in Clients \cup {Nobody} /\ state' \in {"up", "leaving", "down"}
    BY <1>a, <2>1, <2>2, <2>3, Telling DEF WorkerTyped
  <2>5. WorkerTyped' /\ WiresTyped'
    BY <1>a, <2>1, <2>4 DEF WorkerTyped, WiresTyped
  <2> QED
    BY <1>c, <2>1, <2>4, <2>5, StepKept, Rejoined DEF client
<1>7. CASE Exit
  <2>1. /\ state' = "down" /\ loaded' = FALSE /\ backlog' = <<>>
        /\ link' = [c \in Clients |-> IF link[c] = "open" THEN "cut" ELSE link[c]]
        /\ UNCHANGED <<resident, hung, serving, task, said, finished, asked, told, client>>
    BY <1>7 DEF Exit
  <2>2. WorkerTyped' /\ ToldTyped'
    BY <1>a, <2>1 DEF WorkerTyped, ToldTyped
  <2>3. WiresTyped'
    BY <1>a, <2>1 DEF WiresTyped
  <2> QED
    BY <1>c, <2>1, <2>2, <2>3, StepKept, Rejoined DEF client
<1>8. CASE Hang \/ IdleOut
  <2>1. /\ hung' \in BOOLEAN /\ state' \in {"up", "leaving", "down"}
        /\ UNCHANGED <<resident, loaded, serving, task, said, finished, wires, client>>
    BY <1>8, <1>a DEF Hang, IdleOut, WorkerTyped
  <2>2. WorkerTyped' /\ WiresTyped' /\ ToldTyped'
    BY <1>a, <2>1 DEF WorkerTyped, WiresTyped, ToldTyped, wires
  <2> QED
    BY <1>c, <2>1, <2>2, StepKept, Rejoined DEF client, wires
<1> QED
  BY <1>1, <1>2, <1>3, <1>4, <1>5, <1>6, <1>7, <1>8 DEF Serve

LEMMA StepKeeps == IInv /\ [SessionNext]_sessionVars => IInv'
<1> SUFFICES ASSUME IInv, [SessionNext]_sessionVars PROVE IInv'
  OBVIOUS
<1> USE SessionAssumption DEF SessionAssumption
<1>a. /\ WorkerTyped /\ WiresTyped /\ ToldTyped /\ ClientTyped
      /\ ToldTrue /\ AnswersOwn /\ BenchHasItsChannel
  BY InParts
<1>1. CASE \E c \in Clients : ClientStep(c)
  BY <1>1, ClientKeeps
<1>2. CASE Serve \/ Fail \/ Hang \/ IdleOut
  BY <1>2, WorkerKeeps
<1>3. CASE Tick
  <2>1. /\ left' = [c \in Clients |-> IF left[c] > 0 THEN left[c] - 1 ELSE 0]
        /\ UNCHANGED <<resident, worker, wires, phase, at, answers>>
    BY <1>3 DEF Tick
  <2>2. ClientTyped'
    BY <1>a, <2>1 DEF ClientTyped
  <2>3. WorkerTyped' /\ WiresTyped' /\ ToldTyped'
    BY <1>a, <2>1 DEF worker, wires, WorkerTyped, WiresTyped, ToldTyped
  <2> QED
    BY <2>1, <2>2, <2>3, StepKept, Rejoined DEF worker, wires
<1>4. CASE Noise
  <2> DEFINE line == Says("noise", NoJob)
  <2>1. /\ told' = [told EXCEPT ![Bench] = Append(@, line)]
        /\ UNCHANGED <<resident, worker, backlog, link, asked, client>>
    BY <1>4 DEF Noise
  <2>2. line \in Line /\ line.ev # "result"
    BY DEF Says, Line, Events
  <2> HIDE DEF line
  <2>3. Bench \in Clients
    BY DEF Clients
  <2>4. ToldTyped'
    BY <1>a, <2>1, <2>2, <2>3, AppendProperties DEF ToldTyped
  <2>5. ToldTrue'
    <3> SUFFICES ASSUME NEW d \in Clients, NEW i \in DOMAIN told'[d], told'[d][i].ev = "result"
                 PROVE  told'[d][i].job \in finished'
      BY DEF ToldTrue
    <3>1. told'[d][i] = told[d][i] /\ i \in DOMAIN told[d]
      BY <1>a, <2>1, <2>2, <2>3, AppendProperties DEF ToldTyped
    <3> QED
      BY <1>a, <2>1, <3>1 DEF ToldTrue, worker
  <2>6. WorkerTyped' /\ WiresTyped' /\ ClientTyped'
    BY <1>a, <2>1 DEF worker, client, WorkerTyped, WiresTyped, ClientTyped
  <2> QED
    BY <2>1, <2>4, <2>5, <2>6, StepKept, Rejoined DEF worker, client
<1>5. CASE UNCHANGED sessionVars
  <2>1. UNCHANGED <<resident, worker, wires, client>>
    BY <1>5 DEF sessionVars
  <2>2. WorkerTyped' /\ WiresTyped' /\ ToldTyped' /\ ClientTyped'
    BY <1>a, <2>1 DEF worker, wires, client, WorkerTyped, WiresTyped, ToldTyped, ClientTyped
  <2> QED
    BY <2>1, <2>2, StepKept, Rejoined DEF worker, wires, client
<1> QED
  BY <1>1, <1>2, <1>3, <1>4, <1>5 DEF SessionNext

(* A result that a call returns is that of its own execution, which ended: *)
(* a job that timed out leaves its result on the channel, and no later job *)
(* takes it for its own, for any number of clients, any patience and any   *)
(* fault of the worker.                                                    *)
THEOREM CallsGetTheirOwn == SessionSpec => []ResultsAreOwn
<1>1. IInv => ResultsAreOwn
  BY DEF IInv, ResultsAreOwn, AnswersOwn
<1> QED
  BY InitIInv, StepKeeps, <1>1, PTL DEF SessionSpec

=============================================================================
