SPECIFICATION Spec
CONSTANTS
  Products <- MCProducts
  SlotsPerYear = 5
  PreProdWeeks = 2
  MaxCommands = 4
INVARIANTS
  DemandFollowsRoutes
  LevelingKeepsOrderAndRate
  ShipmentsReachTheirLeaf
  StockFollowsMoves
  CandidatesCutTheTree
