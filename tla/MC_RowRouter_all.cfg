\* Two nodes share the EState; one foreign callback; two DDL transactions; heap partitions for v1, gogudb_fdw and another FDW for v2; the parent may be removed from PATHMAN_CONFIG; the executor keeps pulling every node.
CONSTANTS
  n1 = n1  n2 = n2  a1 = a1  a2 = a2  a3 = a3  b1 = b1  b2 = b2  b3 = b3
  v1 = v1  v2 = v2  f1 = f1  f2 = f2  Own = Own
  Nodes <- MC_TwoNodes
  Parts <- MC_Parts
  Vals <- MC_Vals
  RangeOf <- MC_RangeOf
  Foreign <- MC_OneForeign
  MaxDDL = 2
  RowsPerNode = 2
  InitResultRels = 1
  PartFdw <- MC_PartFdw
SPECIFICATION FairSpec
INVARIANTS TypeOK RowsInLiveParts  ResultRelsFit RoutedOnlyWhereAllowed
PROPERTIES RowsComplete
CHECK_DEADLOCK FALSE
