-------------------------------- MODULE Input --------------------------------
(* What a caller may leave out of an input, in every module that reads one, *)
(* and the value that holds where several layers may say it: reglage, that  *)
(* the workers have each their own of.                                      *)
EXTENDS Integers, Sequences, FiniteSetsExt

CONSTANT Unsaid

(* A sequence of whatever it holds. *)
IsSequence(s) == s \in Seq({s[i] : i \in DOMAIN s})

(* reglage: the job, then the options, then the defaults. *)
FirstSaid(layers) ==
  IF \E i \in DOMAIN layers : layers[i] # Unsaid
  THEN layers[Min({i \in DOMAIN layers : layers[i] # Unsaid})] ELSE Unsaid
Setting(layers, default) == IF FirstSaid(layers) = Unsaid THEN default ELSE FirstSaid(layers)

(* How the satellite adapters cut a scene (workers/prithvi_base.py). *)

(* Mutant: the last tile is not moved back to the edge. *)
RegularStarts(side, tile, overlap) == {k * (tile - overlap) : k \in 0..((side - tile) \div (tile - overlap))}
(* plan_tuiles *)
Starts(side, tile, overlap) ==
  IF side <= tile THEN {0} ELSE RegularStarts(side, tile, overlap) \cup {side - tile}

(* aligner_multiple *)
AlignedUp(n, step) == IF n <= step THEN step ELSE ((n + step - 1) \div step) * step
=============================================================================
