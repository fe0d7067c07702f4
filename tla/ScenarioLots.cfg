SPECIFICATION Spec
CONSTANTS
  Processes = {p1, p2}
  Pairs <- MCPairs
  Token <- MCToken
  WeeksIn <- MCWeeksIn
  DefaultBounds <- MCDefaultBounds
  Calls <- MCCalls
  MaxRuns = 2
INVARIANTS TypeOK LotsFollowDemand RunIsWhole
PROPERTIES RerunChangesNothing RunsEnd
