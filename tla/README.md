# Verification of WOM, the Weekly Operation Model

TLA+ modules, TLC runs and TLAPS proofs kept beside the WOM source tree. Paths
are relative to the repository; `minimal_kernel.py:302` is a line of a file
there.

1. Inventory · 2. Modules and code · 3. Runs · 4. Proofs · 5. Where code and
documents differ · 6. Abstractions and what is not modelled · 7. Plan

## 1. Inventory

WOM plans a supply chain in weekly buckets. Three generations live in the
repository:

* the **event-sourced planning kernel** (`pysi/core/kernel`, `project/`), which
  the root documents specify (KERNEL_RULES.md, WOM_EXECUTION_MODEL.md,
  WOM_FlowEvent_Schema_v1_1.md, WOM_Event_Store_DB_Table_Design.md);
* the **lot-based PSI planner** (`pysi/network`, `pysi/plan`,
  `pysi/psi_planner_mvp/init_load_plan_data.py`, driven by `pysi/wom_main.py`,
  the pipeline and the GUI), where PSI stands for purchase, sales, inventory;
* the **scenario database** and its command lines (`pysi/etl`, `pysi/app`,
  `pysi/io`, `pysi/db`).

| Component | State it keeps | Operations | Modelled |
|---|---|---|---|
| Planning kernel, `pysi/core/kernel/minimal_kernel.py` | the event log, the history of derived states, the operators selected; all local to one call of `run` | derive a state from the log, detect trust events, evaluate, resolve, apply | `FlowEngine`, `PlanningKernel` |
| Event store and runner, `project/*.py`, `project/schema_sqlite_minimal.sql` | five tables: sessions, iteration history, trust events, operators, flow events | create a session, run the kernel, save in six kinds of transactions, complete, replay | `EventStore`, `PublishedRuns` |
| PSI planner, outbound tree | per node and layer (demand, supply) a list of S, CO, I, P lots for each week | load demand, demand planning, demand leveling, supply planning | `PsiNode`, `PsiPlanning` (partly: 6.3) |
| Hook bus, plugin loading, pipeline runner, `pysi/core/hooks/core.py`, `pysi/core/wom_pipeline.py`, `main.py` | two buses and which is global, the imported modules, the environment of the run | import, decorate, register, run the stages, call callbacks | `WomPipeline` |
| Weekly lots and scenario database, `pysi/etl`, `pysi/app/orchestrator.py`, `pysi/io`, `pysi/db` | scenarios, lot sizes, weekly demand, lots, one calendar, lot buckets | import a CSV, synchronise the calendar, load and write back each pair | `ScenarioLots` (partly: 6.5) |
| Inbound planning and the planner window, `pysi/gui/app.py`, `pysi/plan/engines.py`, inbound part of `pysi/network/tree.py` | the inbound trees' PSI lists, a dictionary of them, the decoupling nodes selected, the stages of a sequence | Inbound DmBw and SpFw, the engine buttons ① to ⑤, Run Full, Run & Save, product selection | `InboundPlanning`, `PlannerEngines` (partly: 6.7) |
| PSI state of the planner window, `pysi/io/psi_state_io.py`, `psi_state_loader.py`, `pysi/gui/app.py` | a directory of eight files; the window's trees | SAVE file by file, LOAD | `PsiState` |
| Scenario results store, `pysi/scenario/store.py` | run headers, summaries, node rows | save a run in one transaction, list, load | no (6.6) |
| Monthly to weekly conversion, `pysi/plan/demand_generate.py`, `pysi/utils/calendar445.py` | none | months to weeks to lots | no (6.6) |
| Allocation pipeline, `pysi/core/pipeline.py` | weekly lots, capacities | a weekly loop | no, it cannot be imported (6.6) |
| Plugins, planning environment of the SQL and CSV entry points, cost evaluation, optimiser experiments, GUI, stand-alone MVP, tutorials, scenario results in SQLite | | | no; reasons in 6.6 |

**How they interact.** `main.py` makes a hook bus, loads the plugins on it and
hands it to the pipeline runner, which loads them again. The runner builds a
`WOMEnv`, calls the callbacks of each stage and, between them, the planner's
commands; a callback of `before_planning` loads the demand. The window then
calls planner commands and whole runs again, on the same process and partly on
the same PSI lists; its other buttons give single stages of the engines, run all
of them and save the outcome, plan the inbound trees, and write the PSI lists to a
directory and read them back. The kernel does not know any of this: `kernel_db_runner.py`
reads lots and demands from SQLite, calls `PlanningKernel.run` and writes the
result, one transaction per repository call, so that several runners meet in one
database file. The scenario command lines share another SQLite file: import,
calendar and planning each read what an earlier transaction, possibly of another
process, left.

**Behaviours that are hard here.**

* Feedback: the kernel's loop changes the log from which it derives the state it
  reacts to; an operator for one week has effects in later ones.
* Order: who is served in a bucket rests on `creation_sequence`; the store
  replays in another order than the kernel's.
* Half-done work: nothing in the runner or in the leaf mode catches an
  exception, so a refused transaction, a locked database or a kill leaves what
  was committed before. A planner command that raises leaves a tree half planned.
* Interleaving: two runners with one session id; two imports of one scenario; a
  calendar replaced between another run's reads and its writes.
* Repetition: commands on the same lists any number of times, plugins imported
  and registered twice, a run repeated after a crash, a save into a directory
  that holds an older one.
* Aliasing: the supply layer of an inbound node becomes the very PSI space of
  another product's demand layer.
* Boundaries: year ends, the first and last weeks of a plan, decoupling points
  of a shallow tree, a budget of zero iterations.

**What makes each component correct.**

* Kernel: goods are conserved and never negative; backlog is unmet demand; the
  order of events is total; an operator clears exactly the stockout it answers;
  the loop ends.
* Store: rows under a session are those of one run and exactly as many as it
  committed; "completed" means complete, at once and for good; replay gives the
  kernel's state.
* Planner: every lot stands where its own route puts it, once; stock follows
  from arrivals and shipments; leveling keeps order and rate; what is pulled
  meets demand.
* Inbound planning: a supplier is asked for each lot when the outbound plan of
  the day needs it; one product's commands leave the other products' orders
  alone.
* Planner window: repetition adds what it adds and no more; whatever stage of a
  sequence fails, a Run & Save comes to its save.
* PSI state: a directory never mixes newer events with older trees, its hash
  proves that it is no mix, loading neither loses nor invents a lot.
* Pipeline: each callback on the right bus, once, in order; no planning without
  demand; a run that returns has done everything.
* Scenario database: every lot belongs to a demand; an undisturbed run leaves
  its work whole; repeating it changes nothing; every run ends.

`PROJECT.json` lists the hazards of this code line by line with the properties
that cover each.

## 2. Modules and code

A definition keeps the name it has in the code where there is one
(`infer_network`, `shiftS2P_LV`, `_lot_to_events`). A definition `X_Mistake` is
`X` with that mistake: no action and no property uses it; putting it in the place
of `X` shows that a property can fail (`PROJECT.json` says which).

### 2.1 FlowEngine, PlanningKernel

`FlowEngine` is the pure half of `minimal_kernel.py`: `run_flow` and `Derive`
(lines 107–199), `detect_trust_events`, `evaluate_state`, `generate_candidates`,
`apply_operator`, `_lot_to_events`, `advance_time_bucket` (every year has 52
weeks). Nodes and products are numbered in the order of their names, a bucket is
the integer YYYYWW, a dict is a function on its keys, the list of events a set,
as the code only appends to it and sorts before use. It has no RECURSIVE operator;
what iterates is a fold or a recursive function.

`PlanningKernel` is one call of `run` (394–458): `LoadLot` (the loading loop,
lot by lot in the code's order), `EnterLoop`, `Iterate` (derive, detect,
evaluate, then `Settle`, which breaks out of the loop, or `Select`, which applies
the first candidate), `Exhaust` (the budget is spent; without any iteration
`history[-1]` raises). `Inputs` are the argument records. The return value is
`final_state`, the last history entry's state.

### 2.2 EventStore, PublishedRuns

Processes run `run_kernel_from_db` on one database. Each repository call is one
transaction, so one action: `CreateSession`, `SaveHistory`, `SaveTrust`,
`SaveOperators`, `SaveFlow`, `CompleteSession`. `Refused` lists the primary and
foreign keys of the schema that each of them can break (foreign keys are on:
`wom_sqlite_repository.py:104`); `Raise` is the refusal, which the runner does
not catch. `Crash` is a kill or a locked or full database between any two
transactions. A call carries what the kernel returns for it; `MCEventStore`
computes that with `FlowEngine`'s operators, so kernel and store are composed
there.

`PublishedRuns` is what a reader is promised, in two actions: open a session,
publish all its artifacts at once. `EventStore!PublishedAtOnce` is its
specification under the mapping `Board`: a session shows its rows once its
status is "completed", and nothing before.

### 2.3 Lists, PsiNode, PsiPlanning

`Lists` has the few operators on Python's lists and dicts that several modules
share: an updated dict (`Updated`), members in the order of their keys
(`InOrder`, `Ascending`, with tuples compared by `Lex`), the members of a list at
some places or that pass a test (`Picked`, `Filtered`), the concatenation of many
lists (`Concat`). They take the place of operators of the community modules that
proofs cannot expand.

`PsiNode` is the PSI space of one node as operators: `shiftS2P_LV` (S to P across
safety stock and vacations), `calcPS2I4demand`, `calcPS2I4supply`, vacation
search in both directions, and the shipping yard's leveling
(`demand_leveling_on_ship`, with the years found in lot ids). A stock is a
recursive function of the week, as the loops of the code are. `Space` and
`Bucket` are the shapes of a node's lists; `TreeOf` and `ListedOnce` say that
children make a tree and that no node is listed twice in it.

`PsiPlanning` is a session on one product: `BeginLoad`, `BeginDemandPlanning`,
`BeginLeveling`, `BeginSupplyPlanning` are the commands, `LoadNode`,
`DemandNode`, `FeedbackNode`, `SupplyNode` the visit of one node each; `todo` is
the walk still to do, in the order of the code's recursion. `LoadRaises` and the
raising branches of `FeedbackNode` and `BeginSupplyPlanning` are the exceptions
(lead time None, a lot id that names no node, an arrival after the plan, a tree
too shallow for `nodes_decouple_all[-3]`), which end a command where they occur.
`PsiProducts` holds the small products that the runs of this module and of
`PlannerEngines` share.
The pipeline gives the commands in one order; the window gives them in any
(`gui/cockpit_tk.py:920`, the buttons of `gui/app.py`), so the model does.

### 2.4 WomPipeline

One process: `loading` is the list of loading steps its launcher will make
(`set_global`, `ImportModule`, `CallRegister`; `main.py` makes them twice), then
runs of `Stages`, each a hook or a piece of work: `CallReturns`, `CallRaises`,
`EndHook`, `WorkDone`, `WorkRaises`. `Add` is the bus's stable insertion by
priority; `Decorated` knows that a module is executed once per process unless its
import failed. What the work does is `PsiPlanning`.

### 2.5 ScenarioLots

Processes run command lines on one SQLite file: the import alone, the
orchestrator for the pairs with demand (leaf mode) or for those of a network
(tree mode). An action is one transaction, or the reads between two of them that
no other process can tell from one read: `EnsureScenario` (the lookup before the
transaction), `Stage`/`StageRaises`, `Convert`, `SaveLots`; `ReadPlanBounds`,
`ensure_calendar_iso`, `rebuild_calendar_iso`; `ReadPairs`; for each pair
`ReadWindow`, `calendar_map_for_scenario`, `ReadWholeCalendar`, `LoadLeaf`, and
for each layer `CountWeeks`, `DeleteSlice`, `InsertRows`. `PairRaises`,
`PairSkipped`, `WriteSkipped` and `Crash` are the failures. `clean` and `base`
are not in the code: they record whether a run went undisturbed and what it
found, for the properties.

### 2.6 InboundPlanning

A window with the products that OPEN has loaded, each with its inbound tree.
`Inbound_DmBw` copies the outbound root's supply layer to both layers of the
inbound root and walks down: `shift_P2childS_LV` asks each supplier to ship, a
lead time earlier, what its customer must have received, and
`calc_all_psiS2P2childS_preorder` is the whole walk, with the node at which a
lead time of None ends it (`StopsAt`, `Fed`). The trees of all products have one
root name, "supply_point". The code assigns a shifted week's
list to the supplier, so of two weeks that are shifted to one open week the
earlier stays. `Inbound_SpFw` connects the supply layer to the demand layer
through the dictionary of the product opened last and reckons stocks; `shared`
says which supply nodes have thereby become PSI spaces of that product's demand
layer, which is the aliasing of `app.py:7672`. `Replan` stands for outbound
planning, which leaves another plan at the outbound root; `own`, which is not in
the code, is what a product's demand layer would be had nobody else written to it.

### 2.7 PlannerEngines

The window on the trees its environment loads. It EXTENDS `PsiPlanning`: the
planning buttons are that module's commands, and `push_pull` (engine ⑤) starts
the walk of its supply planning with other decoupling nodes. `EngineButton` is a
single engine, `RunSequence`, `NextStage`, `Save` and `SaveRaises` are Run Full and
Run & Save, stage by stage, with the save that the results database takes or refuses; `SelectProduct` selects the nodes named DAD. In this environment the
inbound nodes have PSI spaces of one year only, so `connect_outbound2inbound`
(③ and Inbound DmBw) copies one year and raises.

### 2.8 PsiState

SAVE is `save_to_directory`, then for each of the eight files `EmptyFile` and
`WriteFile`; `CopyRaises` is a CSV file that cannot be copied before the first of
them, `WriteRaises` is the node without a lead time, `Crash` the death of
the process between any two. `disk` is what a file holds, `savedBy` the save that
touched it last. `load_psi_state_from_directory` is LOAD with what it makes of
missing files, of events that do not fit the calendar, and of the window's old
product list; `LoadRaises` are the damaged files. `source` and `eventsOf`, which
are not in the code, follow the lots through saves and loads.

### 2.9 Composition

`EventStore` takes the kernel through the results of its calls and the replay
through `FlowEngine!Derive`; `PsiPlanning` builds on `PsiNode`, and
`PlannerEngines` on `PsiPlanning`; `InboundPlanning` and `PsiState` build on
`PsiNode` and take outbound planning through the plans it leaves; `WomPipeline`
stands above `PsiPlanning` with the planner's commands as single pieces of work;
`ScenarioLots` is another way into the lots, with a one-node plan of its own
(`psi_io_adapters.py`), and shares no state with the others.

## 3. Runs

Each `MC…` module gives the constants of one specification. State counts are
those of the current modules.

| Run | States | Shows |
|---|---|---|
| kernel | 13 186 | the ten properties of `PlanningKernel` |
| store | 12 212 | the seven of `EventStore`, `PublishedRuns` among them |
| psi | 15 583 | five of `PsiPlanning` |
| pipeline | 3 544 | the three of `WomPipeline` |
| lots | 115 050 | the five of `ScenarioLots` |
| inbound | 7 827 | the three of `InboundPlanning` |
| engines | 19 761 | three of `PlannerEngines`, and `PsiPlanning!PullMeetsDemand` under more buttons |
| psistate | 3 928 814 | the three of `PsiState` |
| final_state, decisions, engines_saved, psistate_restore | – | one statement of a document or comment each that the code does not keep (section 5) |

### 3.1 kernel

*Bounds.* Every subset of three lots (to each market, and one kept at the
factory) with every subset of five demands (both markets, both products, the
factory, and two records for one market, product and bucket), in week 202652
and week 202701, so that events cross a year end; lead time 0 and 1; budget 0
and 3; a capacity limit that some inputs exceed; with and without an opening
log; and once more with production nodes and an upstream edge given by the
caller. Three stockouts and three iterations are enough for an operator to
precede, follow and meet another's bucket.

*Checked.* `FlowConserved`, `StockNeverNegative`, `BacklogIsUnmetDemand` speak
about derived states; `EventOrderTotal` and `ReplayDerivesSameState` about the
order (`FlowConserved` has the premise that what the opening log ships arrives in
it, which a log handed in by the caller need not do); `ArrivalAfterLeadTime` about weeks across the year end;
`EarliestStockoutCleared` relates successive iterations; `Converges` and
`Terminates` are liveness. The
premises are the code's limits: no lead time
(with one, a stockout is answered for ever: section 5), no two demands on one
key (`backlog` is assigned, `demand` added: lines 179 and 185).

*Fairness.* WF(Next): one sequential call that nothing can block.

### 3.2 store

*Bounds.* Two processes, two session ids (equal or not), three scenarios
(served, short in one market, over capacity), a call that finds nothing, a call
without iterations; the database empty, or as the sample data leaves it up to
the statement that a foreign key stops. Two processes suffice for every
collision, as a session's rows are touched by its owner only, which is proved for
any number of processes (section 4).

*Fairness.* WF on each process's `Work`: a process that is started keeps running
until it returns, raises or is killed. Neither `Start` nor `Crash` is fair.

### 3.3 psi

*Bounds.* Years of 4 or 5 weeks, 2 weeks of pre-production, PSI lists of two
years of 5 slots (demand in weeks 0 to 9), four trees: a fork below a distribution point, a leaf next
to a subtree, a chain with a leaf two levels below the decoupling point, and one
leaf below the root; lead times 1, 2 and None; safety stock 0 to 2, vacations at
a leaf or above; up to nine lots, so that leveling overfills the plan; a
leaf whose name its lots do not spell; up to four commands in any order, enough
to run any command on what any three before it left. Vacations are in the middle
of the plan and in its weeks 0 and 1, where the arrival week of a lot falls below
0 and indexes the list from its end (`ClosedAtStart`; `node_base.py:28`).
`DemandFollowsRoutes` reckons that week too.

*Fairness.* None: the properties are invariants.

### 3.4 pipeline

*Bounds.* Eight plugin folders: the two providers, `optimize_capacity` in its
package and at the top level, a module that both decorates and registers, a
module whose import fails after its decorators; before and after the demand
provider in the order of import. Both launchers, three runs (the first, and two
from the window: the second can follow a failed one). Any callback may raise,
any work may raise.

*Fairness and deadlock.* No fairness. CHECK_DEADLOCK is FALSE because a process
really stops after its run.

### 3.5 lots

*Bounds.* Two processes, two runs in all, so any two of nine command lines, at
once or one after the other, on an empty database; every step killed or, in tree
mode, skipped by a locked database. Three pairs, two of which have one token in
lot ids; years of two and three weeks; a CSV that spills into the next year, one
with less demand, a second scenario on the same lots, a CSV whose year column
the orchestrator does not recognise, bounds given by the command line, an
existing calendar kept, no lot size and a size of 0. Two runs suffice for a run on what another left and for
the repetition of a run; a third would start from a database that two left.

*Fairness.* As in 3.2.

### 3.6 inbound

*Bounds.* Two products on chains, forks and wide trees of two to four nodes that
share node names, opened in this order; PSI spaces of 8 weeks; two lots and two
outbound plans each (that of loading the demand and that of leveling it); a node
closed for two weeks, so that two weeks are shifted to one; a lead time of None at
a supplier or at the mother plant; up to four commands, enough for SpFw of one
product, DmBw of the other and both again.

*Checked.* `OrdersFollowPlan` reckons for each lot alone when each supplier must
ship it and compares; `OrdersAreOwn` bounds what one product's commands do to the
other's lists, for the aliasing does reach the product opened last;
`StockFollowsMoves` says that even so the stocks agree.

### 3.7 engines

*Bounds.* A fork, a skew tree and one too shallow, safety stock 0 and 1, a
vacation, one to three lots, PSI lists as in 3.3; up to four buttons, a sequence
counting as one, so that a sequence meets what any three buttons left and is
followed by any three.

*Checked.* `ArrivalsCountPasses` says exactly how often a lot is listed after any
repetition, `SuppliedOnce` that the supply layer does not inherit it;
`PullMeetsDemand` that nodes pulled ship and receive what is demanded, whichever
button chose the decoupling nodes; `RunIsSaved` that each step of a Run & Save
runs a stage or, with none left, saves or is refused by the results database. With deadlock checked, a Run & Save ends.

### 3.8 psistate

*Bounds.* Windows with one or two products on one or two nodes: lots in all
buckets and weeks, weeks beyond the planned range, a product without an inbound
tree, no lots at all, a node without a lead time; up to six commands SAVE, LOAD
and OPEN, a save cut short before or after the emptying of any file, and a new
window after a crash; copying the CSV files before a save may fail. Six commands allow three cut saves with a load after each,
and three round trips, after which every bucket is back in its place.

## 4. Proofs

Eight modules hold about 22 100 obligations that tlapm 1.4.5 checks with SMT (Z3), Zenon
and LS4. `PROJECT.json` lists the theorems. Whatever is proved holds for all
values of the constants that satisfy the assumptions named here, which TLC
evaluates on the constants of the runs.

**OperatorLemmas**: what the operators compute that the models are built from,
for any arguments.

* `FlowEngine`: the derivation as a run over the buckets in their order, with
  what each bucket adds to a balance; a balance does not depend on the order in
  which the events of a bucket are taken, so it is the sum of what went in less
  what went out; the calendar and its indices; the order of events that a new
  sequence number extends (`ChainExtendsOrder`).
* `Lists`: lists are put in an order that keeps their members, picking and
  concatenating keep order and multiplicity. Lists may cut a list into
  consecutive parts (`Tiles`), which is what leveling makes of the lots requested.
* `PsiNode`: each planning function gives a PSI space of the same shape, stocks
  agree with moves after reckoning, and a reckoned stock lists no lot twice. The
  week in which a lot arrives depends on that lot alone, across safety stock,
  lead time and vacations. The leveled shipping yard ships what is requested in
  its order, week by week no more than the rate of a year.
* Trees: induction down and up a tree given by its children, walks that visit
  every node, subtrees that meet only below one another, and cuts: sets of nodes
  that every leaf is below exactly one of.

What a recursive function computes is proved by induction over the numbers of an
interval (`RecursionOnInterval`, `IntervalInduction`), over a finite set or over
a tree, each time for a set defined in the proof. The library's rules take
an operator and cannot be used.

**PlanningKernelProofs**, under `InputsAssumption`: lots are finitely many, with
distinct keys and in weeks of the calendar; demands are in such weeks; the events
of a log handed in are events with natural, distinct sequence numbers; no node
has the empty name.

* `TypeCorrect`, `OrderIsTotal`, `StocksStayNonNegative`, `GoodsAreConserved`,
  `ReplayIsFaithful`, `BacklogTellsUnmetDemand`, `OperatorClearsEarliest`,
  `SettledRunsAreWhole`, `ArrivalsKeepLeadTime`: the invariants the kernel run
  checks, and that a run which ends for want of a candidate returns the state
  of the log it returns.
* The invariant `IInv`: the log is ordered; the history and the operators are
  as long as each other between iterations; `HistoryTold`, each state of the
  history is what the log of its time derives, where `LogAt(i)` finds that log in
  the present one by its sequence numbers, and each operator is the first candidate
  of its iteration and made the next log; `NothingLost`, no bucket
  of a log made from lots and operators takes more of a product from a node than it
  brings there; `OnTime` and `AllArrive`, what was shipped arrives once,
  the lead time later.
* Most of the properties speak about derived states, so they follow from `IInv` by
  the lemmas about `run_flow`: no stock is negative since every balance grows by
  what a bucket brings less what it takes; goods are conserved since shipments and
  their arrivals cancel; the operator clears its stockout and no other since
  its three events change one node's balance in one bucket and those after it.

**EventStoreProofs**, for any number of processes, any calls and any initial
database that satisfy `CallsAssumption` (the scenario of a call that finds data
exists; the kernel returns what the kernel's theorems say it does: an operator for
each iteration but possibly the last, numbered events, and, without an operator
for the last, the state of its log), `StatusesAssumption` and
`InitialStoresAssumption` (rows refer to sessions, as the schema demands).

* `TypeCorrect`; `SavedPrefix == Spec => [](NoOrphanRows /\ OneOwnerPerSession /\
  SavedUpToStage)`; `CompletedComplete`; `OneOwner`; `ReplayRestores ==
  Spec => []CompletedReplays`; `StorePublishesAtOnce == Spec => PublishedAtOnce`,
  the refinement.
* `SavedUpToStage` is not inductive by itself. A session that is created must
  have no rows yet, which is `NoOrphanRows` (without the reference to sessions a
  row could be waiting for its session); a write must not appear under another
  process's session, which is `OneOwnerPerSession`, and that rests on the primary
  key of sessions; and a process that saves has a history, `Placed`. `IInv` is
  the conjunction. There is one lemma per action; `OwnWrite` says what
  all writes have in common: rows of the own session change, and no others.
* `CompletedIsComplete` and `CompletedReplays` follow from `IInv` without a step:
  only the stage "end" has the status "completed", and deriving a log does not
  depend on the order in which its rows are stored.
* The refinement maps `CreateSession` to `OpenSession`, `CompleteSession` to
  `Publish`, everything else to a stutter: the saves because their session is
  not yet completed (`SaveShowsNothing`).

**PsiStateProofs**, for any windows, any plans and any number of commands. The
number of weeks of a window is a natural number (`RangesAssumption`).

* `DirectoryInSaveOrder == Spec => []FilesInSaveOrder`; `HashProvesSave == Spec =>
  []HashTellsMix`; `SavingKeepsLots == Spec => []LotsKept`.
* None is inductive. `SaveUnderWay` says where a save stands: the files before
  the one being written are of this save and hold what this window writes into
  them, those behind it are older. `HashOfKept` says that a hash file that is
  whole is that of a save that ended well, which is what makes an agreement
  between hash and files mean something.
* `LotsInv` follows the lots: the window holds the lists of their source, its
  buckets turned by the number of round trips (`Holds`), and the rows of a file
  of events tell each non-empty list of theirs in one row, turned once more (`Tell`).

**WomPipelineProofs**, for plugin folders that satisfy `FoldersAssumption`: a
callback's name stands for one registration in one module, and some module that
can be imported decorates the demand provider.

* `EachRegisteredOnce == Spec => []RegisteredOnce`, `NeverPlansOnNothing ==
  Spec => []PlannedOnDemand`, `ReturnedRunIsWhole == Spec => []CompletedRunIsWhole`.
* `IInv` counts: how often a name is on a bus, in what is still to be loaded and
  in what is still to be called. `ImportsAhead` says that modules not yet imported
  are still to come and that the runner's bus becomes global before the first of
  them, `Decorations` and `Registrations` that what was imported or
  registered is on the bus once, `DoneSoFar` that a run in stage k has done all
  before it, in order of priority, `DemandInTime` that the provider is among what
  is called before planning.

**InboundPlanningProofs**, for any directories of products whose inbound trees are
trees with one root name (`ProductsAssumption`) and plans over PSI spaces of
`LengthAssumption` weeks.

* `StockIsReckoned == Spec => []StockFollowsMoves`, `OrdersStayOwn == Spec =>
  []OrdersAreOwn`, `OrdersAreRequested == Spec => []OrdersFollowPlan`.
* `IInv` adds to the first that the layers are PSI spaces, and `OwnInv`: only the
  product opened last can have anything else in its demand layer than its own
  orders, at nodes that another product's supply layer shares, and there, but for
  the root, in the stock alone. SpFw reckons stocks from
  moves, so through the alias it changes no moves but the root's.
* For the third, one DmBw is followed down the tree: of what a node receives in
  some weeks, `ShippedAsReceived` says in which its supplier ships, for each
  closed week and each pair of weeks that are shifted to one. What stood in the
  lists before a walk would survive it in weeks the walk never writes. `OrdersInv`
  says that no supplier ever ships in such a week, and receives nothing before the
  product's first DmBw. Arrivals of earlier walks do stay, so further away than
  the root's suppliers only the first DmBw orders nothing else.

**PlannerEnginesProofs**, for any products that satisfy `ProductsAssumption` (a
tree, each child listed once; years of as many weeks as they have slots, or one
less; finitely many weeks of vacation), `YearsAssumption` (the id of a lot that
is planned holds the digits of a planned year: `demand_generate.py:136` writes the
year into it, and the weeks of the plan are those of its years,
`operations.py:19`) and any buttons.

* Planning: `PlannedStockFollowsMoves == Spec => []StockFollowsMoves`. `PlanInv`
  says that the layers are PSI spaces, that no supply stock lists a lot twice, and
  that there is a set of nodes which agree, such that what is not in it is still
  in the walk or below what is (`Passed`). When the walk is empty, the set is the
  tree. The same with the window's buttons is `WindowStockFollowsMoves`; from
  `PlanInv` there follows `StockedOnce == WindowSpec => []SuppliedOnce`.
* Backward planning: `DemandIsRouted == Spec => []DemandFollowsRoutes`,
  `WindowFollowsRoutes` and `ArrivalsCounted == WindowSpec =>
  []ArrivalsCountPasses`. `Routes(k)` says of each node and each lot in which week
  the node ships it and how often it is listed among the arrivals of which week, k
  passes after the loading; the right-hand side speaks of that lot's route only.
  `LoadedSoFar` is the same for a load that is still under way. A leaf has what
  was read for it; an inner node has, of each child, what the child's arrivals
  come to, and a lot is below one child only. Each pass of engine ① adds one to k.
* Leveling: `ShipmentsAreLeveled == Spec => []LevelingKeepsOrderAndRate`.
  `Leveled` says that the root's weeks cut a beginning of what is requested of it
  into consecutive parts. That no lot is without a rate needs `YearsAssumption`,
  and by the routes what is requested are lots of the plan. Passing shipments down
  does not touch the root, which is no node's child.
* Passing down: `ShipmentsReach == ASSUME NamesTell PROVE Spec =>
  []ShipmentsReachTheirLeaf`. `HandInv`: there is a set of nodes, closed under
  parents, that have handed each shipment to the child on the way to the lot's
  leaf, and they and the next nodes of the walk ship only lots of leaves below
  them, each once. Without the closure a visit could overwrite what a node behind
  the walk has passed on. A shipment is placed by the name cut off its lot's id at
  the first "-", so the theorem assumes `NamesTell`: this name is the leaf's or no
  node's. The names are data: sent after another node's name, a lot would go to
  that node's branch; in the second case leveling raises. TLC evaluates
  `NamesTell` on the products of the runs. `WindowLevels` and
  `WindowShipmentsReach` say the same of the window.
* Decoupling: `EachListCuts == Spec => []CandidatesCutTheTree`. Each list of
  candidates is the one before with a node in the place of its children. Every leaf
  stays below exactly one node of the list, and the number of inner nodes at or below it grows
  until the root alone is left, which is the last list.
* Pulling: `LeavesArePulled == Spec => []PullMeetsDemand`, and `WindowPulls` for
  the window. `PullInv` says that the decoupling points are above every leaf and
  that the leaves visited have what demand asks. In the window the decoupling
  points may be the nodes named DAD, so that theorem assumes `DADsCover`: a
  product has no such node, or one above every leaf. The names are data, and a
  leaf outside would not be pulled; TLC evaluates `DADsCover` on the products of
  the run.
* The window: `RunAndSaveEnds == WindowSpec => RunIsSaved`; `OnlyFirstStageSaved`:
  a saved run has done stage ① and no other, which is the finding of
  `engines_saved` for every product. The invariant says that a sequence stands
  before its first stage, before its second or at its end, and walks no tree
  then: ② always raises.

**ScenarioLotsProofs**, for any command lines that satisfy `CallsAssumption` (bounds
within the calendar, CSVs of finitely many years with demand in their weeks), any
number of processes, and kills and refusals anywhere; the years of the calendar
have at most 53 weeks (`WeeksInAssumption`) and the default bounds lie in it
(`DefaultAssumption`).

* `LotsBelong == Spec => []LotsFollowDemand`; `TypeCorrect == Spec => []TypeOK`;
  `RunsAreWhole == Spec => []RunIsWhole`; `RepeatedRunsRest == Spec =>
  RerunChangesNothing`.
* For the first the invariant adds that a process at a place of the import has a
  CSV to import (`Places`). The rows of an import are demands it imports
  (`RowsAreDemanded`); that the pair a row gets exists rests on the largest of
  finitely many numbers being one of them (`LargestIsMember`).
* `TypeInv` adds what each process holds at each place of its program
  (`AllHold`): what it read lies in the tables, and stays there, since no
  command deletes a scenario, a size or a lot.

* For the last two the invariant has to say what a run has done so far. `Shaped`
  is what a process is, `TablesInv` that the calendar lists its weeks in the order
  of their years. `RunsInv` says of each place of the program where an undisturbed
  process there stands (`Stands`): the lots it has stored, the pairs it has
  planned, what it holds for the layer it is about to write. `Kept` says that a
  step of a run of the same call takes none of this away. The rows of a planned
  layer are never older than the plan, and complete unless a run is about to
  insert them (`Pending`), which no run is once all have ended: then `CallDone` is
  what `RunIsWhole` says. A run that repeats the last one is alone (`Alone`), its
  call is done already, and the tables are those it found, but for the layer
  between its deletion and its insertion (`IsBase`).

**Only model-checked.** Liveness under fairness (`Converges` and `Terminates` of
the kernel, `RunsEnd` of the store and of the scenario database), which the
prover does not reach. Every other property of a run that passes is the statement of
a theorem.

## 5. Where code and documents differ

Four statements have a run that finds them violated; `PROJECT.json` quotes the
lines.

| Run | Statement | What the code does |
|---|---|---|
| final_state | WOM_EXECUTION_MODEL.md:318, the flow is simulated again after an operator | a run whose budget is spent returns the state from before its last operator, beside the log with it |
| decisions | KERNEL_RULES.md:118, every decision leaves an artifact trail | the history row names an operator that is not yet in its table; the foreign key refuses it, and no operator is ever logged |
| engines_saved | app.py:2569, Run & Save runs the sequence ① to ⑤ | ② raises in every run (engines.py:61 asks a list for `get`); the exception is caught and a run that did ① only is saved |
| psistate_restore | psi_state_loader.py:294, loading restores `psi4demand[w][bucket_idx]` | saving names the places P, CO, S, I, loading puts S, CO, I, P there: one SAVE and one LOAD move every list to another bucket |

The models show the following as well. They have no run of their own.

* WOM_FlowEvent_Schema_v1_1.md:94, `flow_id` is globally unique: with the default
  lead time 1 the operator's goods arrive a week late, the stockout stays, and
  the same operator is applied again under the same ids.
* WOM_Event_Store_DB_Table_Design.md:70, runs are separable: event ids do not
  contain the session, so a second session of a scenario is refused.
* scripts/psi_consistency_tests.py:9, a leaf's sums of S and P are equal: the
  lots of the weeks 0 … sw are shifted nowhere.
* LOT_ID_SPEC.md:294, no lot at two places: a decoupling point ships by demand
  what leveling delivers to it later; the lot never leaves its stock.
* calendar_sync.py:23, the calendar follows the bounds given: a calendar of other
  years with as many weeks stays.
* LOT_ID_SPEC.md:292 and `validators.py:197`, no duplicate lot ids: engine ① after the load lists every lot twice among a
  node's arrivals, and every sequence once more (`ArrivalsCountPasses`). So do
  demand leveling and then Inbound DmBw at the inbound root.
* In the environment of the pipeline only outbound nodes get PSI spaces of the
  planned years; ③ and Inbound DmBw raise an IndexError at the first week after
  the inbound root's single year. `engines_updated.py` holds another ②, but
  nothing imports it.
* "Inbound SpFw" (app.py:7669) connects the supply layer instead of copying it and
  takes it from the dictionary of the product opened last: planning one product
  writes into the lists of another (`OrdersAreOwn` says how far), and a node that
  the other product lacks ends it with a KeyError.
* LOAD takes the root to draw from the product list of before (app.py:6063) and
  only logs it when the hash does not agree.
* `tests/test_minimal_kernel.py:50` expects a backlog of 0 after three
  iterations with the default lead time; it is 100 still, because
  the lot and all three operators arrive in the week after. Line 31
  expects the lot's supply in the week of its creation, a key that the state
  does not have. Both tests fail when they are run.
* `wom_pipeline.py:10` says that a plugin's `register(bus)` is called; the loop
  at line 71 looks at the names directly below `pysi.plugins`, which are packages
  whose `__init__` has none, so `optimize_capacity` is never registered.
  A `register` at the top level is called twice under `main.py` (lines 114
  and the runner's), so its callback runs twice.
* Two scenario runs at once with different calendars leave the union of their
  plans: `psi_io_adapters.py:226` deletes a slice and inserts the new one in two
  transactions with the indexes read before, so both deletes may precede both
  inserts, and a lot is in the S of two weeks (LOT_ID_SPEC.md:294).
* When the calendar begins before the scenario's first year, a week's index
  (`psi_io_adapters.py:138`) counts from the calendar's start and is bounded by
  the number of the scenario's weeks (143): the lots of its last weeks are
  dropped without a word. `RunIsWhole` has the premise for that reason.
* The import gives the scenario one year more than the CSV has
  (`etl_monthly_to_lots.py:172`), the orchestrator's calendar only those the CSV
  has (`orchestrator.py:74`): lots of a week that spills into the next year are
  stored and never planned.
* An import with less demand than an earlier one leaves the earlier lots
  (`etl_monthly_to_lots.py:321`), which are planned with its own. A lot id holds
  neither the scenario nor a "-" of a name (line 26), so a second scenario, or a
  node that differs by a "-", takes lots over. `LotsFollowDemand` holds because
  the whole row follows; the first scenario has lost the lot.
* `tree_writeback.py:222` calls `json.loads` without an import of `json`; the
  NameError is swallowed and vacations never reach a planning of the scenario
  database. Nothing writes vacations there either.

## 6. Abstractions and what is not modelled

**6.1 Kernel.** Quantities are integers where the code has floats; the evaluation
is part of the history and no property is about it beyond its being there.

**6.2 Store.** Ids are the tuples their text is made of. The scenario's lots and
demands are constant during a call; the code reads them in two connections
before the session exists (`kernel_db_runner.py:232`). Timestamps, JSON columns
and artifacts the runner does not write are left out.

**6.3 Planner.** Lots are given with their week: the conversion of monthly into
weekly demand is not modelled, nor are capacity leveling, buffer stock
evaluation and the figures computed after each command. The bucket CO is empty on
these paths. A node has two safety-stock attributes: `ss` is that of the shift
from S to P; `safety_stock_week`, used on the way forward, is 0 everywhere.
Backward planning uses the parent's own lead time and forward planning the
child's, as the code does. Vacations and other safety stocks are those
that trees loaded from a database have (`io/psi_state_loader.py`). An index below
0 counts from the end of the list (`Slot`), as in Python. A yearly average is
that of the lots whose id contains the year's digits.

**6.4 Pipeline.** What a callback does to the environment is left out, but for
the demand provider's loading; the monthly demand file it reads exists. Logging
and arguments are left out.

**6.5 Scenario database.** A CSV is what its months come to. A start year or a
range given alone, the tree mode's `--write-all-nodes` and reports are left out.
`Pairs` is one order, the same by node and by product first; lot sizes are read
at once (no property tells a mixture from either). A size is kept as it is
read, at least 1, and one below 1 is given as 0: the code inserts 0 as 1
(`etl_monthly_to_lots.py:87`) but an update stores it (97), so a repeated import
with size 0 changes the number stored and not the size read (117), which is what
`RerunChangesNothing` is about. The import leaves `ss_days`
0, so P is S from week 1 on. Transactions are those Python's sqlite3 opens
implicitly: at the first write, until the commit.

**6.6 Not modelled.** `pysi/core/pipeline.py` cannot be imported: line 12
imports from a package that hides the module of the same name. No run of
`scenario_runner.py` gets beyond line 137, whose argument `scenario_name`
`sync_calendar_iso` does not have. The scenario results store writes a run in one
transaction and maps its rows; the monthly to weekly conversion works on data
frames, dates and text, without state. The plugins compute from CSV files what
the pipeline's model leaves out. The planning environment of the SQL and CSV
entry points, cost evaluation and the optimiser scripts compute without
state that lasts; GUI layout and views draw; the stand-alone MVP is an earlier copy
that nothing imports; tutorials read a finished run. By lines these, the MVP's
copies and the GUI's drawing above all, are nearly the whole repository.

**6.7 Planner window.** Each handler runs to its end or to an exception in the
window's one thread. In `InboundPlanning` outbound planning is the choice of
another plan at the outbound root. In `PlannerEngines` the inbound tree is its
root, the only inbound node that is ever filled there; Run Full names six stages
(`app.py:7922`), push and pull apart, where `Sequence` has the five of Run &
Save: either ends in ②, the second, which always raises; what ② does after the statement
that raises is left out, as are the buttons for costs and prices. In `PsiState`
the rows of the two physical trees and the attributes of nodes are data, of which
only a lead time of None matters, and a node without PSI space keeps
`NewNodeWeeks` weeks, 53 in the code and 1 in the run.

## 7. Plan

What is left, in the order of its worth.

1. **StockoutResolution**, an abstract specification of the kernel without lead
   time: a set of stockouts from which each step removes the earliest.
   `PlanningKernel` refines it; `EarliestStockoutCleared` and `Converges` are its
   consequences.
2. **LotRoutes**, an abstract specification of the planner per lot (a lot's
   route up and down its branch), refined by `PsiPlanning`.
3. **WeeklyLots**: months to weeks to lots (`demand_generate.py`,
   `calendar445.py`) as operators checked against sums.
4. **ScenarioResults**: `scenario/store.py` and its readers; the runner's two
   reads (`kernel_db_runner.py:232`) with an import between them.
5. ② to the end of its text, once line 61 is repaired: an earlier week is filled
   with the capacity of the later one (`engines.py:107`), what is left at week 0
   is dropped.
6. Leftovers of the survey: the last week's P kept by `_replace`; hook aliases
   bound to the first bus (`hooks/core.py:186`); leveling computes the root's
   stock only (`wom_main.py:1250`); loading demand a second time with another
   scale.
7. Proofs: `DADsCover` and `NamesTell` are about names that users choose; checks of
   them in the environment's loader would turn both hypotheses into invariants.
