CONSTANTS
  j1 = j1
  j2 = j2
  u = u
  d1 = d1
  d2 = d2
  must = must
  Jobs = {j1, j2}
  Fields = {1, 2}
  Outputs = {must}
  Required = {must}
  Files = {u}
  Deposits = {d1, d2}
  NameOf <- MCNameOf
  MediaOf <- MCMediaOf
  Accept <- MCAccept
  Forms <- MCForms
  NoFile = NoFile
  Retention = 1
  MaxEdits = 1
  MaxFaults = 1
  p1 = p1
  p2 = p2
  c1 = c1
  c2 = c2
  Paths = {p1, p2}
  Contents = {c1, c2}
  NamedAs <- MCNamedAs
  SizeOf <- MCSizeOf
  NoSha = NoSha
  Verifiers = {v1, v2}
  Overlap = FALSE
  Documents = {1, 2}
  Requests = {q1, q2}
  MaxWrites = 2
  Contracts <- MCContracts
  ModelsFor <- MCModelsFor
  ModelOf <- MCModelOf
  DefaultsOf <- MCDefaultsOf
  Filed <- MCFiled
  Families <- MCFamilies
  Searches <- MCSearches
  Parks <- MCParks
  Chips = {"image"}
  NoRef = NoRef
  MaxAsked = 1
  CaptureModes = {"photo", "audio"}
  Off = Off
  MaxStreams = 3
  MaxTakes = 2
SYMMETRY MCSymmetry
SPECIFICATION MCSpec
CHECK_DEADLOCK FALSE
INVARIANTS
  Replayable
  RecordsAgree
  HashesAreTrue
  RegistryFresh
  ScreenIsTrue
