\* Two reset callbacks registered by the subplan ahead of the first fetch.
CONSTANTS
  n1 = n1  n2 = n2  a1 = a1  a2 = a2  a3 = a3  b1 = b1  b2 = b2  b3 = b3
  v1 = v1  v2 = v2  f1 = f1  f2 = f2  Own = Own
  Nodes <- MC_TwoNodes
  Parts <- MC_Parts
  Vals <- MC_Vals
  RangeOf <- MC_RangeOf
  Foreign <- MC_TwoForeign
  MaxDDL = 2
  RowsPerNode = 2
  InitResultRels = 1
  PartFdw <- MC_PartFdw
SPECIFICATION FairSpec
PROPERTIES RowsComplete
CHECK_DEADLOCK FALSE
