SPECIFICATION WindowSpec
CONSTANTS
  Products <- MCWindowProducts
  SlotsPerYear = 5
  PreProdWeeks = 2
  MaxCommands = 4
  DADs = {"dad"}
INVARIANT SavedRunIsPlanned
