SPECIFICATION Spec
CONSTANTS
  Environments <- MCEnvironments
  Plans <- MCPlans
  NewNodeWeeks = 1
  NoProduct = 0
  MaxSteps = 6
INVARIANTS
  FilesInSaveOrder
  HashTellsMix
  LotsKept
