\* An ALTER of a partition whose first command is OPTIONS.
CONSTANTS
  p1 = p1
  c1 = c1
  c2 = c2
  f1 = f1
  t1 = t1
  t2 = t2
  i1 = i1
  k1 = k1
  k2 = k2
  Indexes = {i1}
  Parents = {p1}
  Kids <- MC_Kids
  Standalone = {f1}
  Plain = {t1}
  Free = {t2}
  RenameTargets = {t2}
  MaxAlter = 2
  AlterLists <- MC_AllLists
  CascadeDrops = FALSE
  Keys = {k1, k2}
  KeyPart <- MC_KeyPart
  IfNotExists = {FALSE}
SPECIFICATION Spec
INVARIANTS ShapeFollowsParent
