CONSTANTS
  MaxUsize = 5
  Languages <- MCLanguages
  Children <- MCChildren
  MaxChildren = 3
SPECIFICATION Spec
INVARIANTS MergeHolds StagingIsInvisible PromisesWhatItsChildrenDo
CHECK_DEADLOCK FALSE
