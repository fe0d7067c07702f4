SPECIFICATION Spec
CONSTANT Inputs <- MCInputs
INVARIANTS
  TypeOK
  EventOrderTotal
  FlowConserved
  StockNeverNegative
  ReplayDerivesSameState
  BacklogIsUnmetDemand
  ArrivalAfterLeadTime
  EarliestStockoutCleared
PROPERTIES
  Converges
  Terminates
