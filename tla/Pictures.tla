------------------------------ MODULE Pictures ------------------------------
(***************************************************************************)
(* The adapters that make a picture or a film: from words (diffusers_mps,  *)
(* ltx_video), from a picture (ltx_video_i2v, diffusers_img2img,           *)
(* diffusers_inpaint), or larger (swin2sr, seedvr2).  What each asks of    *)
(* its library, what it says it asked, and the memory it announces.        *)
(*                                                                         *)
(* A painter is an adapter with its manifest and its weights:              *)
(*   kind       which of the seven                                         *)
(*   metal, folder   whether the machine has MPS, the weights a folder     *)
(*   files      the precisions its files are suffixed with, in every       *)
(*              component of it, "bare" where they are not                 *)
(*   quantization, scheduler   of the manifest; schedulers, those it knows *)
(*   reports    whether its pipeline tells its steps                       *)
(*   factor     of the weights (swin2sr), or 0                             *)
(*   settings   of each name, what the manifest says under the job         *)
(* A picture given is its sides, whether it is there, and transparent.     *)
(* A strength is a number of hundredths.  What the library or the disk may *)
(* refuse once the weights are open is a job that fails.                   *)
(***************************************************************************)
EXTENDS Input, Integers, Sequences

CONSTANTS
  Painters,     \* the painters to consider
  Orders,       \* of each kind, the requests to consider
  Seeds,        \* what draw_seed may draw
  FallShort,    \* <<n, side, most>> where the floats of n x (most / side) fall
                \* short of the whole number it is
  Weighings,    \* what the driver may be found to hold, in bytes
  MaxPictures

Kinds == {"image", "film", "animation", "retouch", "repair", "enlarge", "upscale"}
Positive == Nat \ {0}
Maybe(values) == {Unsaid} \cup values
ImageSet == [width : Positive, height : Positive, there : BOOLEAN, clear : BOOLEAN]
ExpandSet == [top : Nat, bottom : Nat, left : Nat, right : Nat]
RequestSet ==
  [prompt : BOOLEAN, seed : Maybe(Int), own : Maybe(Nat),
   width : Maybe(Positive), height : Maybe(Positive), frames : Maybe(Positive),
   steps : Maybe(Positive), strength : Maybe(0..100), most : Maybe(Positive), scale : Maybe(Positive),
   image : Maybe(ImageSet), mask : {Unsaid, "given", "missing"}, expand : Maybe(ExpandSet)]
ManifestSet ==
  [own : Maybe(Nat), width : Maybe(Positive), height : Maybe(Positive), frames : Maybe(Positive),
   steps : Maybe(Positive), strength : Maybe(0..100), most : Maybe(Positive), scale : Maybe(Positive)]

(* The bounds that the contracts of these capabilities set. *)
ASSUME PicturesAssumption ==
  /\ Seeds \subseteq Nat \ {Unsaid}
  /\ Weighings \subseteq Nat
  /\ \A kind \in Kinds : Orders[kind] \subseteq RequestSet
  /\ \A p \in Painters :
       /\ p.kind \in Kinds
       /\ p.files \subseteq {"bare", "fp16", "bf16"}
       /\ p.factor \in Nat
       /\ p.settings \in ManifestSet

VARIABLES
  painter,
  easel,      \* "started", "failed", "ready" or "unloaded"
  high,       \* _peak_driver: the most that was read
  pictures    \* what each job was answered

pictureVars == <<painter, easel, high, pictures>>

PicturesInit ==
  /\ painter \in Painters
  /\ easel = "started" /\ high = 0 /\ pictures = <<>>

-----------------------------------------------------------------------------
(* Numbers. *)

AtLeast(n, least) == IF n < least THEN least ELSE n

(* round, the even one of two that are as near. *)
Nearest(n, step) ==
  LET q == n \div step
      r == n % step
  IN  IF 2 * r < step THEN q ELSE IF 2 * r > step THEN q + 1 ELSE q + (q % 2)

(* aligner_pixels: a grid of 32; aligner_images: 8k + 1, from below. *)
OnGrid(n) == AtLeast(32 * Nearest(n, 32), 32)
InGroups(n) == 8 * AtLeast((n - 1) \div 8, 1) + 1

(* _aligner *)
Latent(n) == AtLeast(8 * (n \div 8), 8)

(* int(n * (most / side)) *)
RoundedDown(n, side, most) ==
  (n * most) \div side
    - IF <<n, side, most>> \in FallShort /\ (n * most) % side = 0 /\ n * most > 0 THEN 1 ELSE 0

(* A side of a picture whose longest is `side`. *)
SideMade(n, side, most) == Latent(IF side <= most THEN n ELSE RoundedDown(n, side, most))

Longest(image) == AtLeast(image.width, image.height)
Shortest(image) == IF image.width < image.height THEN image.width ELSE image.height

(* How many of its steps a pipeline goes through: int(steps x strength). *)
StepsRun(steps, strength) == RoundedDown(steps, 100, strength)

(* _completer: up to a multiple of the window. *)
Completing(n) == (8 - (n % 8)) % 8

-----------------------------------------------------------------------------
(* Loading. *)

(* torch_dtype_name *)
Precision == IF painter.quantization \in {Unsaid, "none"} THEN "fp16" ELSE painter.quantization
Precise == Precision \in {"fp16", "bf16", "fp32"}

(* detect_variant: a suffix serves where no file is without. *)
SuffixOfFiles ==
  IF "bare" \in painter.files \/ painter.files = {} THEN "bare"
  ELSE IF "fp16" \in painter.files THEN "fp16" ELSE "bf16"

(* from_pretrained finds the files of that name. *)
FilesOpen == SuffixOfFiles \in painter.files

(* _apply_engine_settings *)
Scheduled == painter.scheduler \in {Unsaid} \cup painter.schedulers

ByDiffusion == painter.kind \in {"image", "film", "animation", "retouch", "repair"}

WeightsLoad ==
  /\ painter.folder
  /\ painter.kind # "upscale" => painter.metal
  /\ ByDiffusion => Precise /\ FilesOpen
  /\ painter.kind = "image" => Scheduled
  /\ painter.kind = "enlarge" => "bare" \in painter.files /\ painter.factor > 0

(* _mps_counters: every reading feeds the maximum. *)
Watermark(most, held, left) == AtLeast(most, AtLeast(held, left))

Watched == painter.kind \in {"image", "film", "animation", "enlarge"}

LoadPipeline ==
  /\ easel = "started"
  /\ IF WeightsLoad
     THEN /\ easel' = "ready"
          /\ \E held \in Weighings : high' = IF Watched THEN Watermark(high, held, held) ELSE high
     ELSE easel' = "failed" /\ UNCHANGED high
  /\ UNCHANGED <<painter, pictures>>

-----------------------------------------------------------------------------
(* A job. *)

(* The job, the manifest under it, the contract. *)
Said(o, name, usual) == Setting(<<o[name], painter.settings[name]>>, usual)

(* The seed of the protocol, or of the input where it is read there, or one *)
(* that is drawn.                                                          *)
SeedsFor(o) ==
  IF o.seed # Unsaid THEN {o.seed}
  ELSE IF painter.kind \in {"image", "film", "animation"} /\ Said(o, "own", Unsaid) # Unsaid
       THEN {Said(o, "own", Unsaid)}
  ELSE Seeds

(* Mutant: one generator for all the jobs of a worker. *)
SameGenerator(seed) == [seed |-> seed, used |-> Len(pictures)]
(* manual_seed, on a generator of its own. *)
Generator(seed) == [seed |-> seed, used |-> 0]

(* step_progress *)
Announced(steps, room) == [k \in 1..steps |-> 5 + (room * k) \div steps]

Sent(o) == o.image # Unsaid /\ o.image.there

(* What a job answers, and what the driver held when its computation ended *)
(* and after the cache was emptied: peak_memory_bytes is the most that was *)
(* read, what is held now, or for mflux the peak since the job began.      *)
Delivers(o, asked, said, marks) ==
  \E held \in Weighings, left \in Weighings :
    LET most == Watermark(high, held, left)
    IN  /\ left <= held
        /\ high' = IF Watched THEN most ELSE high
        /\ pictures' = Append(pictures,
             [ok |-> TRUE, order |-> o, asked |-> asked, said |-> said, marks |-> marks, held |-> held,
              peak |-> IF Watched THEN most ELSE IF painter.kind = "upscale" THEN held ELSE left])
        /\ UNCHANGED <<painter, easel>>

ReadyFor(kind) == easel = "ready" /\ painter.kind = kind /\ Len(pictures) < MaxPictures

(* diffusers_mps: sides of a multiple of 8, or nothing. *)
ImageAsked(o, seed) ==
  [width |-> Said(o, "width", 1024), height |-> Said(o, "height", 1024),
   steps |-> Said(o, "steps", 25), generator |-> Generator(seed)]

Draw ==
  /\ ReadyFor("image")
  /\ \E o \in Orders.image : \E seed \in SeedsFor(o) :
       LET asked == ImageAsked(o, seed)
       IN  /\ o.prompt /\ seed >= 0 /\ asked.steps > 0
           /\ asked.width > 0 /\ asked.width % 8 = 0 /\ asked.height > 0 /\ asked.height % 8 = 0
           /\ Delivers(o, asked, [seed |-> seed, notes |-> {}],
                <<2>> \o (IF painter.reports THEN Announced(asked.steps, 83) ELSE <<>>) \o <<92>>)

(* ltx_video: the frames and the sides brought to what the model takes, and *)
(* what was changed. ltx_video_i2v: the sides are those of the picture.     *)
FilmOf(o) ==
  IF painter.kind = "film"
  THEN [width |-> Said(o, "width", 832), height |-> Said(o, "height", 480), frames |-> Said(o, "frames", 81)]
  ELSE [width |-> o.image.width, height |-> o.image.height, frames |-> Said(o, "frames", 81)]

FilmAsked(o, seed) ==
  [width |-> OnGrid(FilmOf(o).width), height |-> OnGrid(FilmOf(o).height),
   frames |-> InGroups(FilmOf(o).frames), steps |-> Said(o, "steps", 30), generator |-> Generator(seed)]

Adjusted(o, asked) ==
  {x \in {"width", "height", "frames"} : asked[x] # FilmOf(o)[x]} \cup {x \in {"no prompt"} : ~o.prompt}

Reel(o, seed) ==
  LET asked == FilmAsked(o, seed)
  IN  /\ seed >= 0 /\ asked.steps > 0
      /\ FilmOf(o).frames > 0 /\ FilmOf(o).width > 0 /\ FilmOf(o).height > 0
      /\ Delivers(o, asked, [seed |-> seed, notes |-> Adjusted(o, asked)],
                  <<2>> \o Announced(asked.steps, 80) \o <<90>>)

Film ==
  /\ ReadyFor("film")
  /\ \E o \in Orders.film : \E seed \in SeedsFor(o) : o.prompt /\ Reel(o, seed)

Animate ==
  /\ ReadyFor("animation")
  /\ \E o \in Orders.animation : \E seed \in SeedsFor(o) : Sent(o) /\ Reel(o, seed)

(* diffusers_img2img *)
RetouchAsked(o, seed) ==
  [width  |-> SideMade(o.image.width, Longest(o.image), Said(o, "most", 1024)),
   height |-> SideMade(o.image.height, Longest(o.image), Said(o, "most", 1024)),
   steps |-> Said(o, "steps", 25), strength |-> Said(o, "strength", 60), generator |-> Generator(seed)]

(* pas_effectifs: one at least is said, whatever is asked of the pipeline. *)
Retouch ==
  /\ ReadyFor("retouch")
  /\ \E o \in Orders.retouch : \E seed \in SeedsFor(o) :
       LET asked == RetouchAsked(o, seed)
       IN  /\ Sent(o) /\ o.prompt
           /\ Delivers(o, asked,
                [seed |-> seed, passes |-> AtLeast(StepsRun(asked.steps, asked.strength), 1)],
                <<5, 15, 92>>)

(* diffusers_inpaint: preparer. What is added around the picture, and the   *)
(* rectangle that is not painted over; or the mask it is given.            *)
Widens(o) == o.expand # Unsaid
Added(e) == e.top + e.bottom + e.left + e.right
Canvas(o) ==
  IF Widens(o)
  THEN [width |-> o.image.width + o.expand.left + o.expand.right,
        height |-> o.image.height + o.expand.top + o.expand.bottom]
  ELSE [width |-> o.image.width, height |-> o.image.height]

Unpainted(o) ==
  [from |-> <<o.expand.left, o.expand.top>>,
   to |-> <<Canvas(o).width - o.expand.right, Canvas(o).height - o.expand.bottom>>]

Repairable(o) ==
  /\ Sent(o) /\ o.prompt /\ o.mask # "missing"
  /\ Widens(o) <=> o.mask = Unsaid
  /\ Widens(o) => Added(o.expand) > 0

(* The picture and its mask are brought to the same sides. *)
RepairAsked(o, seed) ==
  LET width == SideMade(Canvas(o).width, Longest(Canvas(o)), Said(o, "most", 1024))
      height == SideMade(Canvas(o).height, Longest(Canvas(o)), Said(o, "most", 1024))
  IN  [width |-> width, height |-> height, steps |-> Said(o, "steps", 25),
       strength |-> Said(o, "strength", 99), generator |-> Generator(seed),
       mask |-> [width |-> width, height |-> height,
                 spared |-> IF Widens(o) THEN Unpainted(o) ELSE Unsaid]]

Repair ==
  /\ ReadyFor("repair")
  /\ \E o \in Orders.repair : \E seed \in SeedsFor(o) :
       /\ Repairable(o)
       /\ Delivers(o, RepairAsked(o, seed),
            [seed |-> seed, mode |-> IF Widens(o) THEN "expand" ELSE "mask"], <<5, 15, 92>>)

(* swin2sr: the factor of the weights; the window is completed by what is   *)
(* reflected, which is less than the picture has, and then cut off.        *)
Enlarge ==
  /\ ReadyFor("enlarge")
  /\ \E o \in Orders.enlarge :
       LET image == o.image
           factor == painter.factor
       IN  /\ Sent(o) /\ Said(o, "scale", factor) = factor
           /\ Longest(image) * factor <= Said(o, "most", 4096)
           /\ Completing(image.width) < image.width /\ Completing(image.height) < image.height
           /\ Delivers(o,
                [width |-> image.width + Completing(image.width), height |-> image.height + Completing(image.height)],
                [width |-> image.width * factor, height |-> image.height * factor],
                <<10, 35, 78>>)

(* seedvr2: a factor and a longest side, told as a shortest side. Where two *)
(* numbers are as near, floats may find either.                            *)
Targets(image, scale, most) ==
  LET bitten == Longest(image) * scale > most
      up == Shortest(image) * IF bitten THEN most ELSE scale
      down == IF bitten THEN Longest(image) ELSE 1
      n == up \div down
  IN  {AtLeast(k, 1) : k \in {j \in {n, n + 1} :
         up * 2 - down <= 2 * j * down /\ 2 * j * down <= up * 2 + down}}

Upscale ==
  /\ ReadyFor("upscale")
  /\ \E o \in Orders.upscale :
       /\ Sent(o)
       /\ \E target \in Targets(o.image, Said(o, "scale", 2), Said(o, "most", 2048)) :
            Delivers(o,
              [target |-> target, flat |-> o.image.clear, generator |-> Generator(Setting(<<o.seed>>, 0))],
              [flattened |-> o.image.clear],
              <<15, 90>>)

(* A request that is refused, or a library that fails. *)
Refuses ==
  /\ easel = "ready" /\ Len(pictures) < MaxPictures
  /\ \E o \in Orders[painter.kind] : pictures' = Append(pictures, [ok |-> FALSE, order |-> o])
  /\ UNCHANGED <<painter, easel, high>>

(* The pipeline is let go and the cache of the driver emptied; what was     *)
(* read stays.                                                             *)
LetGo ==
  /\ easel = "ready"
  /\ easel' = "unloaded"
  /\ UNCHANGED <<painter, high, pictures>>

PicturesNext ==
  \/ LoadPipeline \/ Draw \/ Film \/ Animate \/ Retouch \/ Repair \/ Enlarge \/ Upscale
  \/ Refuses \/ LetGo
PicturesSpec == PicturesInit /\ [][PicturesNext]_pictureVars

-----------------------------------------------------------------------------
(* Between a side that was asked and the one that is made. *)
OnScale(made, n, side, most) ==
  /\ made % 8 = 0
  /\ IF side <= most THEN made <= AtLeast(n, 8) /\ made > n - 8
     ELSE made * side <= AtLeast(n * most, 8 * side) /\ made * side > n * most - 9 * side

(* Sides and a length the model takes, not a step away from those it was    *)
(* asked, and what was changed said, no more.                              *)
FilmFits(made) ==
  LET asked == made.asked
      film == FilmOf(made.order)
  IN  /\ asked.width % 32 = 0 /\ asked.width > 0 /\ asked.width - film.width \in -16..31
      /\ asked.height % 32 = 0 /\ asked.height > 0 /\ asked.height - film.height \in -16..31
      /\ asked.frames % 8 = 1 /\ asked.frames - film.frames \in -7..8
      /\ \A x \in {"width", "height", "frames"} : x \in made.said.notes <=> asked[x] # film[x]

(* Multiples of 8 within the bound, on the scale of the picture. *)
RetouchFits(made) ==
  LET asked == made.asked
      image == made.order.image
      most == Said(made.order, "most", 1024)
  IN  /\ OnScale(asked.width, image.width, Longest(image), most)
      /\ OnScale(asked.height, image.height, Longest(image), most)
      /\ StepsRun(asked.steps, asked.strength) \in {0, made.said.passes}

(* So is the canvas, with a mask of its size that spares what was there.    *)
RepairFits(made) ==
  LET asked == made.asked
      o == made.order
      most == Said(o, "most", 1024)
      spared == asked.mask.spared
  IN  /\ OnScale(asked.width, Canvas(o).width, Longest(Canvas(o)), most)
      /\ OnScale(asked.height, Canvas(o).height, Longest(Canvas(o)), most)
      /\ asked.mask.width = asked.width /\ asked.mask.height = asked.height
      /\ made.said.mode = "expand" =>
           /\ spared.from = <<o.expand.left, o.expand.top>>
           /\ spared.to[1] - spared.from[1] = o.image.width
           /\ spared.to[2] - spared.from[2] = o.image.height

(* Windows of 8 that hold what is kept, none of it beyond the bound. *)
EnlargeFits(made) ==
  /\ made.asked.width % 8 = 0 /\ made.asked.height % 8 = 0
  /\ made.said.width \in 1..(made.asked.width * painter.factor)
  /\ made.said.height \in 1..(made.asked.height * painter.factor)
  /\ AtLeast(made.said.width, made.said.height) <= Said(made.order, "most", 4096)

(* The longest side stays within the bound, to half a pixel of the other;   *)
(* what is transparent was made opaque, and said.                          *)
UpscaleFits(made) ==
  LET image == made.order.image
      target == made.asked.target
  IN  /\ made.asked.flat = image.clear /\ made.said.flattened = image.clear
      /\ \/ target = 1
         \/ 2 * target * Longest(image)
              <= 2 * Shortest(image) * Said(made.order, "most", 2048) + Longest(image)

PictureFits(made) ==
  /\ painter.kind \in {"film", "animation"} => FilmFits(made)
  /\ painter.kind = "retouch" => RetouchFits(made)
  /\ painter.kind = "repair" => RepairFits(made)
  /\ painter.kind = "enlarge" => EnlargeFits(made)
  /\ painter.kind = "upscale" => UpscaleFits(made)

(* Progress never goes back. *)
Ascends(marks) == \A i \in DOMAIN marks : i > 1 => marks[i - 1] <= marks[i]

(* The same request, under the seed that was said of the other. *)
Retries(k, i) ==
  pictures[k].ok /\ pictures[k].order = [pictures[i].order EXCEPT !.seed = pictures[i].said.seed]

(* A picture can be made again and fits in what is announced for it. Weights *)
(* that are there load, under whichever name of precision; a job is given    *)
(* sides its model takes, those asked for as near as it can, mask and        *)
(* picture alike, and says what it changed; the seed it says makes the same  *)
(* demand of its library again, in any order, after any other job; progress  *)
(* only goes up; and no peak that is announced is below what was ever read   *)
(* from the driver before it, where a worker watches it.                    *)
PicturesHonest ==
  /\ /\ easel = "failed" /\ ByDiffusion
     /\ painter.metal /\ painter.folder /\ Precise /\ (painter.kind = "image" => Scheduled)
     => painter.files = {}
  /\ \A i \in DOMAIN pictures : pictures[i].ok =>
       /\ PictureFits(pictures[i])
       /\ Ascends(pictures[i].marks)
       /\ \A k \in 1..i : Watched /\ pictures[k].ok => pictures[k].held <= pictures[i].peak
       /\ ByDiffusion => \A k \in DOMAIN pictures : Retries(k, i) => pictures[k].asked = pictures[i].asked
=============================================================================
