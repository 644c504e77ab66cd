\* The backend may be reset (relcache flush) with the bounds cache on.
CONSTANTS
  p1 = p1  p2 = p2  c1 = c1  c2 = c2  b1 = b1  b2 = b2
  Parents <- MC_Parents
  Parts <- MC_Parts
  BoundVals <- MC_BoundVals
  NoRel = NoRel  NoBound = NoBound  AllRels = AllRels
  MaxDDL = 3
  InvalListMaxItems = 1
  SinvalQueueMax = 1
  EnableValues = {}
  NoSet = NoSet
  AcceptInCook = FALSE
  AcceptInDrain = FALSE
  ConfigRel = ConfigRel
  ExtensionDrop = FALSE
  PlanScans = FALSE
SPECIFICATION Spec
INVARIANTS RegistryCoherent
SYMMETRY MC_Symmetry
