SPECIFICATION Spec
CONSTANTS
  Tasks = {t1, t2}
  WeightLists <- MCWeightLists
  MaxEndpoints = 3
  MaxWeight = 4
  MaxWeightTable = 7
  MaxSelects = 14
INVARIANTS NeverAheadOfShare FullPassIsExact TableIsSound
CHECK_DEADLOCK FALSE
