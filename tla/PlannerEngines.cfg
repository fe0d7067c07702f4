SPECIFICATION WindowSpec
CONSTANTS
  Products <- MCWindowProducts
  SlotsPerYear = 5
  PreProdWeeks = 2
  MaxCommands = 4
  DADs = {"dad"}
INVARIANTS
  PullMeetsDemand
  ArrivalsCountPasses
  SuppliedOnce
PROPERTY RunIsSaved
