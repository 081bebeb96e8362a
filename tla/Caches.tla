------------------------------- MODULE Caches -------------------------------
(***************************************************************************)
(* What is remembered of files that others write.                          *)
(*                                                                         *)
(* The store keeps the hashes it has computed under the stat it read       *)
(* (hashing.py, db.py, scan.py) and a row per file, whose hash is the name *)
(* its manager gives it until it is verified.  The server keeps the        *)
(* registry it has loaded under the signature of its documents (state.py). *)
(*                                                                         *)
(* A hash is the content it is taken of; a stat is the number of the       *)
(* writing, which size, mtime and inode tell apart.                        *)
(***************************************************************************)
EXTENDS Naturals, FiniteSets

CONSTANTS
  Paths, Contents,
  NamedAs,          \* the hash the name of each announces, or NoSha
  SizeOf,           \* the size of each content
  NoSha,
  Verifiers,        \* the commands `store verify` at work
  Overlap,          \* whether a scan may run beside them
  Documents,        \* the files the registry is loaded from
  Requests,         \* those that read the registry
  MaxWrites         \* bound: writings of others

ASSUME CachesAssumption ==
  /\ NamedAs \in [Paths -> Contents \cup {NoSha}] /\ NoSha \notin Contents
  /\ SizeOf \in [Contents -> Nat]
  /\ Overlap \in BOOLEAN /\ MaxWrites \in Nat

VARIABLES
  disk,       \* of each path, the stat and the content
  writes,     \* how many others have made
  seen,       \* the table `locations`: stat, hash, where it comes from, what was announced
  cache,      \* the table `hash_cache`
  walk,       \* what a scan has gathered, its step
  check,      \* of each verification: where it is, on which row, what it read
  docs,       \* the writing each document is at
  registry, signature,  \* what the server has loaded, and under which signature
  ask         \* of each request: where it is, the signature it took, what was there

hashVars == <<seen, cache, walk, check>>
registryVars == <<docs, registry, signature, ask>>
cachesVars == <<disk, writes, hashVars, registryVars>>

Nothing == [stat |-> 0, size |-> 0, sha |-> NoSha, source |-> "none", said |-> NoSha]
Gone == [stat |-> 0, content |-> NoSha]
Idle == [at |-> "idle", todo |-> {}, force |-> FALSE, stat |-> 0, sha |-> NoSha]
Calm == [at |-> "idle", rows |-> [p \in Paths |-> Nothing]]
Unasked == [at |-> "idle", took |-> <<>>, since |-> <<>>, got |-> <<>>]

(* A row of a former version does not hold apart what was announced. *)
Former(p, file) ==
  [stat |-> file.stat, size |-> SizeOf[file.content], sha |-> NamedAs[p], said |-> NoSha,
   source |-> IF NamedAs[p] = NoSha THEN "none" ELSE "announced"]

CachesInit ==
  /\ \E first \in [Paths -> Contents] :
       disk = [p \in Paths |-> [stat |-> 1, content |-> first[p]]]
  /\ writes = 0
  /\ seen = [p \in Paths |-> Former(p, disk[p])]
  /\ cache = [p \in Paths |-> [stat |-> 0, sha |-> NoSha]]
  /\ walk = Calm
  /\ check = [v \in Verifiers |-> Idle]
  /\ docs = [d \in Documents |-> 1]
  /\ registry = <<>> /\ signature = <<>>
  /\ ask = [q \in Requests |-> Unasked]

-----------------------------------------------------------------------------
(* Others write: a new file under a name, in place, or none any more. *)

Fresh == writes + 2

WriteFile(p, content) ==
  /\ writes < MaxWrites
  /\ writes' = writes + 1
  /\ disk' = [disk EXCEPT ![p] = [stat |-> Fresh, content |-> content]]
  /\ UNCHANGED <<hashVars, registryVars>>

RemoveFile(p) ==
  /\ writes < MaxWrites /\ disk[p] # Gone
  /\ writes' = writes + 1
  /\ disk' = [disk EXCEPT ![p] = Gone]
  /\ UNCHANGED <<hashVars, registryVars>>

-----------------------------------------------------------------------------
(* A scan. *)

Kept == UNCHANGED <<disk, writes, registryVars>>

(* stat_record and announce. *)
Observed(p) ==
  IF disk[p] = Gone THEN Nothing
  ELSE [Former(p, disk[p]) EXCEPT !.said = NamedAs[p]]

Walk ==
  /\ walk.at = "idle"
  /\ Overlap \/ \A v \in Verifiers : check[v].at = "idle"
  /\ walk' = [at |-> "fill", rows |-> [p \in Paths |-> Observed(p)]]
  /\ Kept /\ UNCHANGED <<seen, cache, check>>

(* Mutant: the path alone is the key of the cache. *)
HitByPath(p, stat) == cache[p].sha # NoSha

(* hash_cache_get *)
Hit(p, stat) == cache[p].sha # NoSha /\ cache[p].stat = stat

(* fill_from_hash_cache: what was read prevails over what is announced. *)
Fill ==
  LET with(p) == IF walk.rows[p] # Nothing /\ Hit(p, walk.rows[p].stat)
                 THEN [walk.rows[p] EXCEPT !.sha = cache[p].sha, !.source = "verified"]
                 ELSE walk.rows[p]
  IN  /\ walk.at = "fill"
      /\ walk' = [at |-> "replace", rows |-> [p \in Paths |-> with(p)]]
      /\ Kept /\ UNCHANGED <<seen, cache, check>>

(* replace_manager: the rows of a manager that showed something.           *)
Replace ==
  /\ walk.at = "replace"
  /\ seen' = IF \A p \in Paths : walk.rows[p] = Nothing THEN seen ELSE walk.rows
  /\ walk' = Calm
  /\ Kept /\ UNCHANGED <<cache, check>>

-----------------------------------------------------------------------------
(* `store verify`. *)

Rows == {p \in Paths : seen[p] # Nothing}

(* dedup_candidates: no hash, and another file of that size. *)
DedupCandidates ==
  {p \in Rows : seen[p].sha = NoSha /\ \E q \in Rows \ {p} : seen[q].size = seen[p].size}

Goals == {DedupCandidates, Rows}

BeginVerify(v, todo, force) ==
  /\ check[v].at = "idle" /\ todo # {}
  /\ Overlap \/ walk.at = "idle"
  /\ check' = [check EXCEPT ![v] = [Idle EXCEPT !.at = "stat", !.todo = todo, !.force = force]]
  /\ Kept /\ UNCHANGED <<seen, cache, walk>>

At(v) == CHOOSE p \in check[v].todo : TRUE

(* On to the next row; the command ends with the last. *)
Following(v) ==
  LET left == check[v].todo \ {At(v)}
  IN  IF left = {} THEN Idle ELSE [check[v] EXCEPT !.at = "stat", !.todo = left]

(* verify_location: a file that is gone, one in the cache, one to read.    *)
Stat(v) ==
  /\ check[v].at = "stat"
  /\ LET p == At(v)
         now == disk[p].stat
     IN  check' = [check EXCEPT ![v] =
                     IF disk[p] = Gone THEN Following(v)
                     ELSE IF ~check[v].force /\ Hit(p, now)
                     THEN [@ EXCEPT !.at = "adopt", !.stat = now, !.sha = cache[p].sha]
                     ELSE [@ EXCEPT !.at = "read", !.stat = now]]
  /\ Kept /\ UNCHANGED <<seen, cache, walk>>

Read(v) ==
  /\ check[v].at = "read"
  /\ LET p == At(v)
     IN  check' = [check EXCEPT ![v] = IF disk[p] = Gone THEN Following(v)
                                       ELSE [@ EXCEPT !.at = "put", !.sha = disk[p].content]]
  /\ Kept /\ UNCHANGED <<seen, cache, walk>>

(* Mutant: the stat of after the reading. *)
PutAfter(v) ==
  /\ check[v].at = "put"
  /\ cache' = [cache EXCEPT ![At(v)] = [stat |-> disk[At(v)].stat, sha |-> check[v].sha]]
  /\ check' = [check EXCEPT ![v].at = "adopt"]
  /\ Kept /\ UNCHANGED <<seen, walk>>

(* hash_cache_put: under the stat of before the reading. *)
Put(v) ==
  /\ check[v].at = "put"
  /\ cache' = [cache EXCEPT ![At(v)] = [stat |-> check[v].stat, sha |-> check[v].sha]]
  /\ check' = [check EXCEPT ![v].at = "adopt"]
  /\ Kept /\ UNCHANGED <<seen, walk>>

(* Mutant: what was announced is covered by what was read. *)
CoveredBy(row, sha) == [row EXCEPT !.sha = sha, !.source = "verified"]

(* set_location_hash: what was announced is put aside first. *)
VerifiedAs(row, sha) ==
  [row EXCEPT !.sha = sha, !.source = "verified",
              !.said = IF row.source = "announced" /\ @ = NoSha THEN row.sha ELSE @]

Adopt(v) ==
  /\ check[v].at = "adopt"
  /\ seen' = [seen EXCEPT ![At(v)] = IF @ = Nothing THEN @ ELSE VerifiedAs(@, check[v].sha)]
  /\ check' = [check EXCEPT ![v] = Following(v)]
  /\ Kept /\ UNCHANGED <<cache, walk>>

-----------------------------------------------------------------------------
(* The registry of the server. *)

Apart == UNCHANGED <<disk, hashVars>>

WriteDocument(d) ==
  /\ writes < MaxWrites
  /\ writes' = writes + 1
  /\ docs' = [docs EXCEPT ![d] = Fresh]
  /\ Apart /\ UNCHANGED <<registry, signature, ask>>

(* A request arrives; what is on the disk then is what it must be served.  *)
Arrive(q) ==
  /\ ask[q].at \in {"idle", "served"}
  /\ ask' = [ask EXCEPT ![q] = [Unasked EXCEPT !.at = "signing", !.since = docs]]
  /\ Apart /\ UNCHANGED <<writes, docs, registry, signature>>

(* What is gathered of a document after the other. *)
With(got, d) == [e \in DOMAIN got \cup {d} |-> IF e = d THEN docs[d] ELSE got[e]]

(* registry_signature: the stat of each document, not yet under the lock.  *)
Sign(q, d) ==
  /\ ask[q].at = "signing" /\ d \notin DOMAIN ask[q].took
  /\ LET took == With(ask[q].took, d)
     IN  ask' = [ask EXCEPT ![q].took = took,
                            ![q].at = IF DOMAIN took = Documents THEN "signed" ELSE "signing"]
  /\ Apart /\ UNCHANGED <<writes, docs, registry, signature>>

NobodyLoads == \A q \in Requests : ask[q].at # "loading"

(* Under the lock: the signature it took against the one kept. *)
Compare(q) ==
  /\ ask[q].at = "signed" /\ NobodyLoads
  /\ ask' = [ask EXCEPT ![q] = IF registry = <<>> \/ signature # ask[q].took
                               THEN [@ EXCEPT !.at = "loading", !.got = <<>>]
                               ELSE [@ EXCEPT !.at = "served", !.got = registry]]
  /\ Apart /\ UNCHANGED <<writes, docs, registry, signature>>

(* load_registry reads a document after the other. *)
LoadDocument(q, d) ==
  /\ ask[q].at = "loading" /\ d \notin DOMAIN ask[q].got
  /\ ask' = [ask EXCEPT ![q].got = With(@, d)]
  /\ Apart /\ UNCHANGED <<writes, docs, registry, signature>>

(* Mutant: the signature of what is there once loaded. *)
SignedAfter(q) == docs

(* The signature kept is the one taken before the lock. *)
SignedAs(q) == ask[q].took

Serve(q) ==
  /\ ask[q].at = "loading" /\ DOMAIN ask[q].got = Documents
  /\ registry' = ask[q].got
  /\ signature' = SignedAs(q)
  /\ ask' = [ask EXCEPT ![q].at = "served"]
  /\ Apart /\ UNCHANGED <<writes, docs>>

-----------------------------------------------------------------------------
HashNext ==
  \/ \E p \in Paths : RemoveFile(p) \/ \E content \in Contents : WriteFile(p, content)
  \/ Walk \/ Fill \/ Replace
  \/ \E v \in Verifiers, todo \in Goals, force \in BOOLEAN : BeginVerify(v, todo, force)
  \/ \E v \in Verifiers : Stat(v) \/ Read(v) \/ Put(v) \/ Adopt(v)

RegistryNext ==
  \/ \E d \in Documents : WriteDocument(d)
  \/ \E q \in Requests : Arrive(q) \/ Compare(q) \/ Serve(q)
  \/ \E q \in Requests, d \in Documents : Sign(q, d) \/ LoadDocument(q, d)

CachesNext == HashNext \/ RegistryNext
CachesSpec == CachesInit /\ [][CachesNext]_cachesVars

-----------------------------------------------------------------------------
(* A row that is called verified has the content of its file, when the file *)
(* still has the stat the row keeps (duplicates are found by it).           *)
RowsAreTrue ==
  \A p \in Paths : seen[p].source = "verified" /\ disk[p].stat = seen[p].stat
                     => seen[p].sha = disk[p].content

(* A hash that is called verified is true of the file as it is, when the    *)
(* file has the stat it is kept under: in the cache whatever happens, in    *)
(* the rows when no scan runs beside a verification. And what a manager     *)
(* announced is never forgotten: a name that lies is reported at each       *)
(* verification, not only at the first.                                     *)
HashesAreTrue ==
  /\ ~Overlap => RowsAreTrue
  /\ \A p \in Paths :
       /\ disk[p] # Gone /\ Hit(p, disk[p].stat) => cache[p].sha = disk[p].content
       /\ seen[p].source = "verified" => seen[p].said = NamedAs[p]

(* A request is served a registry no older than its arrival, whatever is    *)
(* written while the documents are read, and whoever else reloads.          *)
RegistryFresh ==
  \A q \in Requests : ask[q].at = "served" => \A d \in Documents : ask[q].got[d] >= ask[q].since[d]

(* What replace_manager promises: after a scan, a row has its file. *)
ScanForgets ==
  [][seen' = seen \/ (\E v \in Verifiers : check[v].at = "adopt")
     \/ \A p \in Paths : seen'[p] # Nothing => walk.rows[p] # Nothing]_cachesVars
=============================================================================
