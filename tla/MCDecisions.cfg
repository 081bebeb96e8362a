CONSTANTS
  Budget = 600
  MaxHeavy = 1
  HeavyThreshold = 200
  NoPeak = NoPeak
  Refs <- MCRefs
  PeakValues <- MCPeakValues
  Demands <- MCDemands
  LastUsed <- MCLastUsed
  Capability <- MCCapability
  Runnable <- MCRunnable
  Profiles <- MCProfiles
  Defaults <- MCDefaults
  Given <- MCGiven
  Absent = Absent
  NoSha = NoSha
  Never = Never
  v1 = v1
  v2 = v2
  main = main
  pin = pin
  Now = 5
  Days = 3
  Paths <- MCPaths
  HubPaths <- MCHubPaths
  ManagerOf <- MCManagerOf
  VolumeOf <- MCVolumeOf
  SizeOfContent <- MCSizeOfContent
  Worlds <- MCWorlds
  Unsaid = Unsaid
  Zeros = "0000000"
  Trees <- MCTrees
  Promised = {"a"}
  ToolTexts = {"a", "f"}
  Capabilities = {"a", "b", "f", "none"}
  Families <- MCFamilies
  Situations <- MCSituations
  Series <- MCSeries
  Times <- MCTimes
  One = 10000000
  Horizon = 2
  ContextMin = 2
  ContextMax = 4
  Usual <- MCUsual
  Forecasts <- MCForecasts
  Openings <- MCOpenings
  Closings <- MCClosings
  EndMark = "#"
  Blank = " "
  Stops <- MCStops
  Texts <- MCTexts
  PointsMin = 2
  PointsMax = 5
  Trained = 3
  Start = "start"
  End = "end"
  Library = "cq"
  Extra = "extra"
  Parts <- MCParts
  Checkpoints <- MCCheckpoints
  Questions <- MCQuestions
  RequiredOptions = {"embodiment", "space", "units"}
  StepsMin = 1
  StepsMax = 3
  StepsUsual = 2
  StateMax = 2
  Digit = 4
  Micro = 10
  Numbers <- MCNumbers
  MaxJobs = 2
  Pieces <- MCPieces
  Side = 2
  Characters = 4
  Seconds = 5
  Silent = 2
  LengthOf <- MCLengthOf
  Ending = {"a."}
  Ceiling = 8
  PagesMax = 3
  c1 = c1
  c2 = c2
  Own = Own
  Nothing = Nothing
  Aligned = 5
  MaxDrifts = 1
  MaxFaceJobs = 2
  UsualDetector = "retina"
  Family <- MCFamily
  Manifests <- MCManifests
  FaceJobs <- MCFaceJobs
  Demands3D <- MCDemands3D
  ViewsMin = 2
  ViewsMax = 3
  Bounds3D <- MCBounds3D
  Patch = 2
  Cost <- MCCost
  MaxScenes = 2
  Encoders <- MCEncoders
  EmbedJobs <- MCEmbedJobs
  Least = 2
  Most = 6
  UsualLimit = 4
  Suspicious = 4
  Timm <- MCTimm
  UsualSide = 6
  Weights = {"w1", "w2"}
  Channels = 2
  EdgeOfPatch = 2
  UsualTile = 4
  MaxEmbedJobs = 2
  Workloads <- MCWorkloads
  Contract <- MCContract
  Outcomes <- MCOutcomes
  Loadings = {0, 25}
  SourcesMeasured <- MCSourcesMeasured
  ObservedBytes = 9
  Machines = {"here", "there"}
  Invocations <- MCInvocations
  Painters <- MCPainters
  Orders <- MCOrders
  Seeds = {1, 2}
  FallShort <- MCShort
  Weighings = {1, 2}
  MaxPictures = 2
SPECIFICATION MCSpec
CHECK_DEADLOCK FALSE
INVARIANTS
  LoopsDecidePlan
  NoWorkDestroyed
  AdmittedFits
  RefusedOnlyWhenStuck
  OffersHold
  RecoverySound
  CatalogSound
  PromisesKept
  CommandsHonest
  AdaptersHonest
