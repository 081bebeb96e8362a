------------------------------- MODULE MCJobs -------------------------------
(* Small instances of Jobs, for the runs on the API.                       *)
EXTENDS Jobs, TLC

CONSTANTS j1, j2, j3, a, b, k1, f1

(* The first two jobs want the same variant and are interchangeable. *)
SameThenOther == [j \in Jobs |-> IF j = j3 THEN b ELSE a]
Twins == Permutations({j1, j2})

(* All that Next does while nobody follows a job and no worker reports;    *)
(* Page has the rest.                                                      *)
Unfollowed ==
  \/ \E j \in Jobs :
       \/ Submit(j)
       \/ Prepare(j) \/ Turn(j) \/ Load(j) \/ LoadEnds(j) \/ JobEnds(j)
       \/ Release(j) \/ Conclude(j)
  \/ \E k \in Clients : Cancel(k) \/ MarkCancelled(k) \/ Unload(k)
UnfollowedSpec == Init /\ [][Unfollowed]_vars

=============================================================================
