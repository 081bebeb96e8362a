------------------------------- MODULE Robot -------------------------------
(***************************************************************************)
(* A worker that turns views, a posture and an instruction into a chunk of *)
(* actions for a robot (workers/smolvla_act.py): what it accepts to load,  *)
(* then jobs one after the other on one policy, which remembers.           *)
(*                                                                         *)
(* A checkpoint holds                                                      *)
(*   cameras  how many it declares         dof      numbers in an action   *)
(*   bounds   of each axis, or Unsaid      state    numbers in a posture,  *)
(*                                                  or Unsaid              *)
(*   options  those the manifest fills in  gripper  the index of the       *)
(*            as the code wants them                gripper, or Unsaid     *)
(* A question holds the instruction ("" for none, "plain", "foreign"), the *)
(* posture, the view of each field of the contract or Unsaid, the number   *)
(* of steps of each layer or Unsaid, the seed.                             *)
(***************************************************************************)
EXTENDS Input, Integers, Sequences, SequencesExt, FiniteSetsExt

CONSTANTS
  Checkpoints, Questions, \* what to consider
  RequiredOptions,        \* embodiment, space, units
  StepsMin, StepsMax, StepsUsual, StateMax,
  Digit,                  \* the last digit that is published, in units of numbers
  Micro,                  \* the precision of a margin: 1 / Micro
  Numbers,                \* [seed |-> the chunk the policy draws], longest rows
  MaxJobs                 \* bound: jobs of a worker

ASSUME RobotAssumption == StepsUsual \in StepsMin..StepsMax /\ Digit > 0 /\ Micro > 0

VARIABLES
  checkpoint,
  loaded,    \* "no", "yes", "refused"
  queue,     \* the observations the policy keeps
  jobs       \* the questions answered so far, each with its answer

robotVars == <<checkpoint, loaded, queue, jobs>>

RobotInit == checkpoint \in Checkpoints /\ loaded = "no" /\ queue = <<>> /\ jobs = <<>>

(* verifier_options, then what load reads of the weights: at least one     *)
(* camera, an action, a gripper among its components.                      *)
Loadable(c) ==
  /\ RequiredOptions \subseteq c.options
  /\ c.cameras > 0 /\ c.dof > 0
  /\ c.gripper # Unsaid => c.gripper \in 0..(c.dof - 1)

Load ==
  /\ loaded = "no"
  /\ loaded' = IF Loadable(checkpoint) THEN "yes" ELSE "refused"
  /\ UNCHANGED <<checkpoint, queue, jobs>>

-----------------------------------------------------------------------------
(* A question. *)

(* _entier *)
StepsOf(q) ==
  LET saying == {i \in DOMAIN q.steps : q.steps[i] # Unsaid}
  IN  IF saying = {} THEN StepsUsual ELSE q.steps[Min(saying)]

(* lire_etat *)
PostureRead(q) ==
  /\ Len(q.posture) \in 1..StateMax
  /\ checkpoint.state \in {Unsaid, Len(q.posture)}

(* _vues: the fields that are filled in, to the cameras in their order.    *)
Filled(q) == SelectSeq(q.views, LAMBDA v : v # Unsaid)
Views(q) == SubSeq(Filled(q), 1, Min({Len(Filled(q)), checkpoint.cameras}))

Understood(q) ==
  q.instruction # "" /\ PostureRead(q) /\ Filled(q) # <<>> /\ StepsOf(q) \in StepsMin..StepsMax

QuestionTold(q) ==
  {w \in {"foreign", "unseen", "missing", "no state", "no bounds"} :
     \/ w = q.instruction
     \/ w = "unseen" /\ Len(Filled(q)) > checkpoint.cameras
     \/ w = "missing" /\ Len(Filled(q)) < checkpoint.cameras
     \/ w = "no state" /\ checkpoint.state = Unsaid
     \/ w = "no bounds" /\ checkpoint.bounds = Unsaid}

-----------------------------------------------------------------------------
(* _tronçon *)

(* Mutant: the files of observations are not emptied. *)
QueueKept(before) == before
(* policy.reset *)
Reset(before) == <<>>

(* predict_action_chunk, and post: from all it is given, and all it keeps. *)
Predict(q, before) ==
  [from |-> <<q.instruction, q.posture, Views(q), StepsOf(q), q.seed, before>>,
   rows |-> [t \in DOMAIN Numbers[q.seed] |-> SubSeq(Numbers[q.seed][t], 1, checkpoint.dof)]]

(* empreinte: of every digit. *)
Fingerprint(chunk) == chunk

-----------------------------------------------------------------------------
(* domaine *)

(* An axis without bounds is passed over. *)
Cells(rows) ==
  UNION {{t} \X (DOMAIN rows[t] \cap DOMAIN checkpoint.bounds) : t \in DOMAIN rows}

(* Mutant: only what is above. *)
Above(rows, x) == Max({0, rows[x[1]][x[2]] - checkpoint.bounds[x[2]].hi})
Excess(rows, x) ==
  LET b == checkpoint.bounds[x[2]]
      v == rows[x[1]][x[2]]
  IN  Max({b.lo - v, v - b.hi, 0})

Relative(rows, x) ==
  LET extent == Max({checkpoint.bounds[x[2]].hi - checkpoint.bounds[x[2]].lo, 1})
  IN  (2 * Micro * Excess(rows, x) + extent) \div (2 * extent)

Domain(rows) ==
  IF checkpoint.bounds = Unsaid THEN [ok |-> FALSE, out |-> 0, margin |-> Unsaid]
  ELSE LET outside == {x \in Cells(rows) : Excess(rows, x) > 0}
       IN  [ok |-> outside = {}, out |-> Cardinality(outside),
            margin |-> Max({0} \cup {Relative(rows, x) : x \in outside})]

(* _ecrire: published to the nearest digit; the gripper of the first action. *)
Rounded(v) == ((2 * v + Digit) \div (2 * Digit)) * Digit
Gripper(rows) ==
  IF checkpoint.gripper # Unsaid /\ rows # <<>> /\ checkpoint.gripper < Len(rows[1])
  THEN Rounded(rows[1][checkpoint.gripper + 1]) ELSE Unsaid

Act(q) ==
  LET chunk == Predict(q, Reset(queue))
      rows == chunk.rows
  IN  /\ loaded = "yes" /\ Len(jobs) < MaxJobs
      /\ IF Understood(q)
         THEN /\ queue' = Append(Reset(queue), q.views)
              /\ jobs' = Append(jobs,
                   [question |-> q, ok |-> TRUE,
                    sha |-> Fingerprint(chunk),
                    control |-> Domain(rows),
                    actions |-> [t \in DOMAIN rows |-> [a \in DOMAIN rows[t] |-> Rounded(rows[t][a])]],
                    gripper |-> Gripper(rows),
                    told |-> QuestionTold(q), views |-> Views(q)])
         ELSE jobs' = Append(jobs, [question |-> q, ok |-> FALSE]) /\ UNCHANGED queue
      /\ UNCHANGED <<checkpoint, loaded>>

RobotNext == Load \/ \E q \in Questions : Act(q)

-----------------------------------------------------------------------------
Answers == {jobs[i] : i \in {k \in DOMAIN jobs : jobs[k].ok}}

(* What two questions have in common for the policy. *)
Same(p, q) ==
  p.instruction = q.instruction /\ p.posture = q.posture /\ p.seed = q.seed
    /\ StepsOf(p) = StepsOf(q) /\ Filled(p) = Filled(q)

(* Where the fields are filled in without a gap, the n-th feeds camera n.   *)
NoGap(q) == \A i, k \in DOMAIN q.views : i < k /\ q.views[k] # Unsaid => q.views[i] # Unsaid

(* A chunk can be trusted for what it says of itself, at any rank in the    *)
(* life of a worker: the same question has the same fingerprint whatever    *)
(* was asked in between; a chunk said to be in its domain has every number  *)
(* it publishes there, to half a digit; a worker without bounds never says  *)
(* so; a view is seen by its camera or said not to be seen; a robot that is *)
(* not named, or whose gripper is not among its components, moves nothing.  *)
RobotHonest ==
  \A a \in Answers :
    /\ \A b \in Answers : Same(a.question, b.question) => a.sha = b.sha
    /\ a.control.ok =>
         /\ checkpoint.bounds # Unsaid
         /\ \A t \in DOMAIN a.actions : \A x \in DOMAIN a.actions[t] :
              x \in DOMAIN checkpoint.bounds =>
                /\ 2 * (checkpoint.bounds[x].lo - a.actions[t][x]) <= Digit
                /\ 2 * (a.actions[t][x] - checkpoint.bounds[x].hi) <= Digit
    /\ a.control.out = 0 => a.control.margin \in {0, Unsaid}
    /\ NoGap(a.question) =>
         /\ \A i \in DOMAIN a.views : a.views[i] = a.question.views[i]
         /\ "unseen" \in a.told \/ Filled(a.question) = a.views
    /\ RequiredOptions \subseteq checkpoint.options
    /\ checkpoint.gripper # Unsaid => a.gripper = a.actions[1][checkpoint.gripper + 1]

(* "`image2` feeds the second" (_vues), whether or not the first is there.  *)
FieldsFeedCameras ==
  \A a \in Answers : \A i \in DOMAIN a.views : a.question.views[i] \in {Unsaid, a.views[i]}

(* Every number of a chunk that is in its domain has a bound. *)
AllBounded ==
  \A a \in Answers : a.control.ok =>
    \A t \in DOMAIN a.actions : DOMAIN a.actions[t] \subseteq DOMAIN checkpoint.bounds
=============================================================================
