\* Liveness of the pipeline: after the last DDL every entry heals.  One
\* parent, three DDL transactions, resets possible, one bound value (see the reset run).
CONSTANTS
  p1 = p1  p2 = p2  c1 = c1  c2 = c2  b1 = b1  b2 = b2
  Parents <- MC_OneParent
  Parts <- MC_Parts
  BoundVals <- MC_OneBound
  NoRel = NoRel  NoBound = NoBound  AllRels = AllRels
  MaxDDL = 3
  InvalListMaxItems = 1
  SinvalQueueMax = 2
  EnableValues = {}
  NoSet = NoSet
  AcceptInCook = FALSE
  AcceptInDrain = FALSE
  ConfigRel = ConfigRel
  ExtensionDrop = FALSE
  PlanScans = FALSE
SPECIFICATION FairSpec
INVARIANTS RegistryCoherent
PROPERTIES EventuallyCoherent
