SPECIFICATION Spec
CONSTANTS
  Directories <- MCDirectories
  Length = 8
  MaxCommands = 4
INVARIANTS
  OrdersFollowPlan
  OrdersAreOwn
  StockFollowsMoves
