\* A whole-cache job recorded by a catalog lock inside finish_delayed_invalidation (a reset, or a list past INVAL_LIST_MAX_ITEMS) frees the lists the drain walks.
CONSTANTS
  p1 = p1  p2 = p2  c1 = c1  c2 = c2  b1 = b1  b2 = b2
  Parents <- MC_Parents
  Parts <- MC_Parts
  BoundVals <- MC_BoundVals
  NoRel = NoRel  NoBound = NoBound  AllRels = AllRels
  MaxDDL = 3
  InvalListMaxItems = 1
  SinvalQueueMax = 4
  EnableValues = {}
  NoSet = NoSet
  AcceptInCook = FALSE
  AcceptInDrain = TRUE
  ConfigRel = ConfigRel
  ExtensionDrop = FALSE
  PlanScans = FALSE
SPECIFICATION Spec
PROPERTIES DrainListsIntact
SYMMETRY MC_Symmetry
