\* Three memories of eight kinds; two axes; two places in a pool.
SPECIFICATION Spec
CONSTANTS
  Kinds <- MCKinds
  Side <- MCSide
  Type <- MCType
  Project <- MCProject
  Hits <- MCHits
  Asked <- MCAsked
  AxesByName <- MCAxesByName
  Score <- MCScore
  Status <- MCStatus
  Weight <- MCWeight
  Prompts = {little, ops, both}
  ExperienceOnly = {cto}
  little = little
  ops = ops
  both = both
  Projects = {here}
  NoProject = NoProject
  AnyAxis = AnyAxis
  decHere = decHere
  decOther = decOther
  appHere = appHere
  note = note
  summary = summary
  taskHere = taskHere
  edgeHere = edgeHere
  edgeOther = edgeOther
  here = here
  other = other
  cto = cto
  linux = linux
  Unit = 12
  Saturation = 1
  MinConfidence = 4
  MaxScore = 3
  TopK = 2
  MaxItems = 3
  Limit = 1
  MaxMemories = 3
INVARIANTS TypeOK RecallFloor BoundedTilt NoForeignProject ApprovedAreListed
