SPECIFICATION Spec
CONSTANTS
  Processes = {p1, p2}
  s1 = s1
  s2 = s2
  Calls <- MCCalls
  ScenarioTable <- MCScenarioTable
  Statuses = {"running", "completed", "failed"}
  LotTable <- MCLotTable
  InitialStores <- MCInitialStores
INVARIANT DecisionsLogged
