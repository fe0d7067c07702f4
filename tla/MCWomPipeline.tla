--------------------------- MODULE MCWomPipeline ---------------------------
(***************************************************************************)
(* Bounded plugin folders for WomPipeline: the demand provider with up to  *)
(* two other modules, before or after it in the order of import.           *)
(***************************************************************************)
EXTENDS WomPipeline

CB(fn, hook, priority) == [fn |-> fn, hook |-> hook, priority |-> priority]

Module(top, imports, decorates, registers) ==
  [top |-> top, imports |-> imports, decorates |-> decorates, registers |-> registers]

(* demand_provider_monthly_csv and capacity_provider_monthly_csv.          *)
Provider == Module(FALSE, TRUE, <<CB("demand_provider", "before_planning", 10)>>, <<>>)
Capacity == Module(FALSE, TRUE, <<CB("capacity_provider", "before_planning", 20)>>, <<>>)

(* optimize_capacity, as it is, in a package, and at the top level.        *)
Optimize(top) == Module(top, TRUE, <<>>, <<CB("on_pre_plan", "before_planning", 10)>>)

(* A module with both, and one whose import fails after its decorators ran.*)
Both == Module(TRUE, TRUE, <<CB("early", "before_planning", 10), CB("export", "result", 50)>>,
               <<CB("late", "before_planning", 5)>>)
Broken == Module(TRUE, FALSE, <<CB("leftover", "before_planning", 10)>>, <<>>)

MCPluginFolders ==
  { <<Capacity, Provider>>, <<Capacity, Provider, Optimize(FALSE)>>,
    <<Optimize(TRUE), Provider>>, <<Provider, Optimize(TRUE)>>,
    <<Both, Provider>>, <<Provider, Both>>, <<Broken, Provider>>, <<Provider, Capacity, Broken>> }

=============================================================================
