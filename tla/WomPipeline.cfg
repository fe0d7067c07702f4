SPECIFICATION Spec
CONSTANTS
  PluginFolders <- MCPluginFolders
  Launchers = {"main", "cli"}
  DemandProvider = "demand_provider"
  MaxRuns = 3
INVARIANTS
  RegisteredOnce
  PlannedOnDemand
  CompletedRunIsWhole
CHECK_DEADLOCK FALSE
