\* Delivery at the code's regular AcceptInvalidationMessages points only; another backend may DROP EXTENSION; the cache is checked against the Registry abstraction.
CONSTANTS
  p1 = p1  p2 = p2  c1 = c1  c2 = c2  b1 = b1  b2 = b2
  Parents <- MC_Parents
  Parts <- MC_Parts
  BoundVals <- MC_BoundVals
  NoRel = NoRel  NoBound = NoBound  AllRels = AllRels
  MaxDDL = 2
  InvalListMaxItems = 1
  SinvalQueueMax = 4
  EnableValues = {TRUE}
  NoSet = NoSet
  AcceptInCook = FALSE
  AcceptInDrain = FALSE
  ConfigRel = ConfigRel
  ExtensionDrop = TRUE
  PlanScans = TRUE
SPECIFICATION Spec
INVARIANTS TypeOK BoundCacheCoherent RegistryCoherent NoLookupAfterDrop PlannedChildrenStable
PROPERTIES ImplementsRegistry
SYMMETRY MC_Symmetry
