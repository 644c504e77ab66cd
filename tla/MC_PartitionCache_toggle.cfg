\* The session may SET pg_pathman.enable off and on again; DDL of other
\* backends goes on meanwhile.
CONSTANTS
  p1 = p1  p2 = p2  c1 = c1  c2 = c2  b1 = b1  b2 = b2
  Parents <- MC_Parents
  Parts <- MC_Parts
  BoundVals <- MC_BoundVals
  NoRel = NoRel  NoBound = NoBound  AllRels = AllRels
  MaxDDL = 2
  InvalListMaxItems = 1
  SinvalQueueMax = 4
  EnableValues = {TRUE, FALSE}
  NoSet = NoSet
  AcceptInCook = FALSE
  AcceptInDrain = FALSE
  ConfigRel = ConfigRel
  ExtensionDrop = FALSE
  PlanScans = FALSE
SPECIFICATION Spec
INVARIANTS RegistryCoherent
SYMMETRY MC_Symmetry
