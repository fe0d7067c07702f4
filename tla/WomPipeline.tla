---------------------------- MODULE WomPipeline ----------------------------
(***************************************************************************)
(* A process that plans with plugins: the hook bus                         *)
(* (pysi/core/hooks/core.py), the loading of the plugins and the pipeline  *)
(* runner (pysi/core/wom_pipeline.py), as main.py and the runner's own     *)
(* command line start them.                                                *)
(*                                                                         *)
(* A plugin module registers callbacks in two ways: its decorators run     *)
(* when it is imported and register on the bus that is global at that      *)
(* moment; its function register(bus) is called by the loader, which looks *)
(* at the top level of the plugin package only.  An import that fails may  *)
(* have run some decorators; it is tried again whenever the module is      *)
(* loaded again.                                                           *)
(*                                                                         *)
(* The tree's PSI spaces stay empty until a callback, the demand provider, *)
(* loads the demand.  The figures and plans themselves are PsiPlanning's.  *)
(*                                                                         *)
(* A definition named X_Mistake is X with that mistake; nothing uses it.   *)
(* Substituted for X it shows that a property can fail.                    *)
(***************************************************************************)
EXTENDS Lists, SequencesExt

CONSTANTS
  PluginFolders,  \* what a process may find: lists of modules, in the order of import
  Launchers,      \* the ways to start: a subset of {"main", "cli"}
  DemandProvider, \* the callback that loads the demand
  MaxRuns         \* bound on the runs of a process

VARIABLES
  launcher,
  plugins,     \* the plugin modules of this process
  buses,       \* the bus the module hooks.core creates ("first") and the runner's ("own")
  hooks,       \* the bus that is global
  imported,    \* the modules imported without an exception
  loading,     \* steps of loading still to make
  stage,       \* the stage of the run, 0 outside a run
  calls,       \* the callbacks of the stage still to call
  demand,      \* has the demand of the run's environment been loaded?
  ran,         \* what the run has done: callbacks and work
  failed,      \* the callbacks of the run that raised, and what
  result,      \* how the last run ended
  runs         \* number of runs begun

vars == <<launcher, plugins, buses, hooks, imported, loading, stage, calls, demand, ran,
          failed, result, runs>>

-----------------------------------------------------------------------------
(* The run: hooks around the work.                                         *)

Hook(name) == [does |-> "hook", name |-> name]
Work(name) == [does |-> "work", name |-> name]

Stages ==
  << Hook("spec"), Work("build_tree"), Hook("after_build"), Hook("before_planning"),
     Work("demand_planning"), Hook("after_demand_planning"),
     Work("demand_leveling"), Hook("after_demand_leveling"),
     Work("supply_planning"), Hook("after_supply_planning"),
     Hook("before_collect"), Hook("result"), Hook("after_run") >>

Hooks == {Stages[k].name : k \in {j \in DOMAIN Stages : Stages[j].does = "hook"}}

Errors == {"AttributeError", "another exception"}

(* What a callback is registered with, and a plugin module: does it lie at *)
(* the top level, does its import succeed, what do its decorators and what *)
(* does its function register(bus) register?                               *)
Callbacks == [fn : STRING, hook : Hooks, priority : Int]

PluginModules ==
  [top : BOOLEAN, imports : BOOLEAN, decorates : Seq(Callbacks), registers : Seq(Callbacks)]

(* A name stands for one registration, and some module that can be         *)
(* imported decorates the demand provider, as the plugin folder's does.    *)
FoldersAssumption ==
  \A folder \in PluginFolders :
    /\ folder \in Seq(PluginModules)
    /\ \A k, l \in DOMAIN folder :
         LET one   == folder[k].decorates \o folder[k].registers
             other == folder[l].decorates \o folder[l].registers
         IN  \A i \in DOMAIN one, j \in DOMAIN other :
               one[i].fn = other[j].fn /\ one[i].hook = other[j].hook => k = l /\ i = j
    /\ \E k \in DOMAIN folder : folder[k].imports /\ \E i \in DOMAIN folder[k].decorates :
         /\ folder[k].decorates[i].fn = DemandProvider
         /\ folder[k].decorates[i].hook = "before_planning"

ASSUME FoldersAssumption

-----------------------------------------------------------------------------
(* The bus: callbacks by priority, those of one priority in the order they *)
(* were added (the sort is stable).                                        *)

NewBus == [h \in Hooks |-> <<>>]

Add(list, cb) ==
  InsertAt(list, 1 + Cardinality({i \in DOMAIN list : list[i].priority <= cb.priority}),
           [fn |-> cb.fn, priority |-> cb.priority])

AddAll(bus, callbacks) ==
  LET after[i \in 0 .. Len(callbacks)] ==
        IF i = 0 THEN bus
        ELSE [after[i - 1] EXCEPT ![callbacks[i].hook] = Add(@, callbacks[i])]
  IN  after[Len(callbacks)]

-----------------------------------------------------------------------------
(* Loading.                                                                *)

SetGlobal   == [op |-> "set_global", module |-> 0]
Import(k)   == [op |-> "import", module |-> k]
Register(k) == [op |-> "register", module |-> k]

autoload_plugins(modules) == [k \in DOMAIN modules |-> Import(k)]

call_register_if_present(modules) ==
  LET top == InOrder([k \in {j \in DOMAIN modules : modules[j].top} |-> <<k>>])
  IN  [i \in DOMAIN top |-> Register(top[i])]

LoadPlugins_GlobalLast(modules) ==
  autoload_plugins(modules) \o <<SetGlobal>> \o call_register_if_present(modules)

LoadPlugins(modules) ==
  <<SetGlobal>> \o autoload_plugins(modules) \o call_register_if_present(modules)

(* main.py loads the plugins, and the runner it creates does so again.     *)
LoadingOf(l, modules) ==
  LoadPlugins(modules) \o (IF l = "main" THEN LoadPlugins(modules) ELSE <<>>)

(* What an import leaves: an imported module is not executed again.        *)
Decorated_EveryTime(k) == [buses EXCEPT ![hooks] = AddAll(@, plugins[k].decorates)]

Decorated(k) ==
  IF k \in imported THEN buses ELSE [buses EXCEPT ![hooks] = AddAll(@, plugins[k].decorates)]

Imported(k) == IF plugins[k].imports THEN imported \cup {k} ELSE imported

Loading(op) == loading # <<>> /\ Head(loading).op = op /\ loading' = Tail(loading)

InRunUnchanged == UNCHANGED <<stage, calls, demand, ran, failed, result, runs>>

set_global ==
  /\ Loading("set_global")
  /\ hooks' = "own"
  /\ InRunUnchanged /\ UNCHANGED <<launcher, plugins, buses, imported>>

ImportModule ==
  LET k == Head(loading).module
  IN  /\ Loading("import")
      /\ buses' = Decorated(k)
      /\ imported' = Imported(k)
      /\ InRunUnchanged /\ UNCHANGED <<launcher, plugins, hooks>>

(* registers: what register(bus) adds before it returns or raises.         *)
CallRegister ==
  LET k == Head(loading).module
  IN  /\ Loading("register")
      /\ imported' = Imported(k)
      /\ buses' = IF k \in imported' THEN [Decorated(k) EXCEPT !["own"] =
                                             AddAll(@, plugins[k].registers)]
                  ELSE Decorated(k)
      /\ InRunUnchanged /\ UNCHANGED <<launcher, plugins, hooks>>

-----------------------------------------------------------------------------
(* WOMPipelineRunner.run.                                                  *)

CallsOf(k) == IF Stages[k].does = "hook" THEN buses["own"][Stages[k].name] ELSE <<>>

LoaderUnchanged == UNCHANGED <<launcher, plugins, buses, hooks, imported, loading>>

(* The command line runs once.  main.py runs once before it opens the      *)
(* window, and from the window again whenever a product is chosen; the     *)
(* window survives a run that raises.                                      *)
StartRun ==
  /\ loading = <<>> /\ stage = 0
  /\ runs > 0 => launcher = "main" /\ runs < MaxRuns
  /\ runs = 1 => result = "returned"
  /\ runs' = runs + 1
  /\ stage' = 1
  /\ calls' = CallsOf(1)
  /\ ran' = <<>>
  /\ failed' = {}
  /\ demand' = FALSE
  /\ result' = "running"
  /\ LoaderUnchanged

Advance ==
  IF stage = Len(Stages)
  THEN stage' = 0 /\ calls' = <<>> /\ result' = "returned"
  ELSE stage' = stage + 1 /\ calls' = CallsOf(stage + 1) /\ UNCHANGED result

Abort == stage' = 0 /\ calls' = <<>> /\ result' = "raised"

AtHook == stage # 0 /\ Stages[stage].does = "hook"
AtWork == stage # 0 /\ Stages[stage].does = "work"

Called == ran' = Append(ran, Head(calls).fn)

CallReturns ==
  /\ AtHook /\ calls # <<>>
  /\ Called
  /\ calls' = Tail(calls)
  /\ demand' = (demand \/ Head(calls).fn = DemandProvider)
  /\ LoaderUnchanged /\ UNCHANGED <<stage, failed, result, runs>>

GoesOn(error) == calls' = Tail(calls) /\ UNCHANGED <<stage, result>>

(* An AttributeError is raised again, any other exception is logged and    *)
(* the next callback called.                                               *)
AfterError_Swallowed(error) == GoesOn(error)

AfterError(error) == IF error = "AttributeError" THEN Abort ELSE GoesOn(error)

CallRaises(error) ==
  /\ AtHook /\ calls # <<>>
  /\ Called
  /\ failed' = failed \cup {[fn |-> Head(calls).fn, error |-> error]}
  /\ AfterError(error)
  /\ LoaderUnchanged /\ UNCHANGED <<demand, runs>>

EndHook ==
  /\ AtHook /\ calls = <<>>
  /\ Advance
  /\ LoaderUnchanged /\ UNCHANGED <<demand, ran, failed, runs>>

WorkDone ==
  /\ AtWork
  /\ ran' = Append(ran, Stages[stage].name)
  /\ Advance
  /\ LoaderUnchanged /\ UNCHANGED <<demand, failed, runs>>

WorkRaises ==
  /\ AtWork
  /\ Abort
  /\ LoaderUnchanged /\ UNCHANGED <<demand, ran, failed, runs>>

-----------------------------------------------------------------------------
Init ==
  /\ launcher \in Launchers
  /\ plugins \in PluginFolders
  /\ buses = [b \in {"first", "own"} |-> NewBus]
  /\ hooks = "first"
  /\ imported = {}
  /\ loading = LoadingOf(launcher, plugins)
  /\ stage = 0 /\ calls = <<>> /\ demand = FALSE /\ ran = <<>> /\ failed = {}
  /\ result = "none" /\ runs = 0

Next ==
  \/ set_global \/ ImportModule \/ CallRegister
  \/ StartRun
  \/ CallReturns \/ (\E error \in Errors : CallRaises(error)) \/ EndHook
  \/ WorkDone \/ WorkRaises

Spec == Init /\ [][Next]_vars

-----------------------------------------------------------------------------
(* Properties.                                                             *)

Names(callbacks) == [i \in DOMAIN callbacks |-> callbacks[i].fn]

Count(bus, hook, fn) ==
  Cardinality({i \in DOMAIN buses[bus][hook] : buses[bus][hook][i].fn = fn})

(* A process imports a module up to four times; still a decorated callback *)
(* of a module that can be imported is on one bus, once, and when loading  *)
(* is over on the runner's.  A register function is called once by the     *)
(* command line and twice by main.py.                                      *)
RegisteredOnce ==
  \A k \in DOMAIN plugins : plugins[k].imports =>
    /\ \A cb \in ToSet(plugins[k].decorates) :
         LET there == Count("first", cb.hook, cb.fn) + Count("own", cb.hook, cb.fn)
         IN  there <= 1 /\ (loading = <<>> => Count("own", cb.hook, cb.fn) = 1)
    /\ \A cb \in ToSet(plugins[k].registers) :
         Count("own", cb.hook, cb.fn) <= IF launcher = "main" THEN 2 ELSE 1

(* No planning command works on empty PSI spaces unless the provider of    *)
(* the demand itself raised: other plugins may raise what they want, and   *)
(* the environment is a new one in every run.                              *)
PlannedOnDemand ==
  AtWork /\ Stages[stage].name # "build_tree" =>
    \/ demand
    \/ \E f \in failed : f.fn = DemandProvider

(* What a run that raises nothing has done after each of its stages.       *)
DoneAfter(bus) ==
  LET done[k \in 0 .. Len(Stages)] ==
        IF k = 0 THEN <<>>
        ELSE done[k - 1] \o (IF Stages[k].does = "hook" THEN Names(bus[Stages[k].name])
                             ELSE <<Stages[k].name>>)
  IN  done

(* A run that returns has called every callback of every hook, in the      *)
(* order of the bus, and done all its work between them, no matter what    *)
(* other exceptions callbacks raised; and none raised an AttributeError.   *)
CompletedRunIsWhole ==
  result = "returned" =>
    /\ ran = DoneAfter(buses["own"])[Len(Stages)]
    /\ \A f \in failed : f.error # "AttributeError"

=============================================================================
