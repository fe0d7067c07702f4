---------------------------- MODULE ScenarioLots ----------------------------
(***************************************************************************)
(* Planning runs against the scenario database: the import of monthly      *)
(* demand (pysi/etl/etl_monthly_to_lots.py), the calendar                  *)
(* (pysi/db/calendar_iso.py, calendar_sync.py), and the loading and        *)
(* writing back of each node and product (pysi/io/psi_io_adapters.py,      *)
(* tree_writeback.py), as the orchestrator (pysi/app/orchestrator.py) and  *)
(* the import's own command line run them.                                 *)
(*                                                                         *)
(* Processes share one SQLite file.  A step is one transaction, or the     *)
(* reads between two of them that no other process can tell from one read. *)
(* A process may be killed, or meet a locked database, between any two.    *)
(*                                                                         *)
(* A pair is a node and a product.  A week is <<iso_year, iso_week>>, a    *)
(* lot id <<token of the pair, week, number>>.  A CSV is                   *)
(*   years    the years of its rows                                        *)
(*   demand   <<pair, week>> -> quantity, what its months come to          *)
(*   plain    is its column named "year"?  The import takes "Year" too.    *)
(* A table no step reads (monthly_demand_stg, weekly_demand's value) is    *)
(* left out, and of a bucket row what tells rows apart.                    *)
(*                                                                         *)
(* A definition named X_Mistake is X with that mistake; nothing uses it.   *)
(* Substituted for X it shows that a property can fail.                    *)
(***************************************************************************)
EXTENDS Integers, Sequences, FiniteSets, SequencesExt, Lists

CONSTANTS
  Processes,
  Pairs,          \* the pairs in order, the same by node and by product first
  Token,          \* pair -> what its names are in a lot id
  WeeksIn,        \* year -> number of its ISO weeks, for the years of the calendar
  DefaultBounds,  \* the orchestrator's, for a CSV it cannot read: 2025, 1
  Calls,          \* the command lines a process may be started with
  MaxRuns         \* bound on the runs

NoCsv    == [years |-> {}]
NoBounds == [st |-> 0, range |-> 0]
NoSize   == -1      \* a size below 1 is given as 0
NoCall   == [mode |-> "none"]

ASSUME PairsAssumption == Pairs \in Seq(Range(Pairs))

ASSUME WeeksInAssumption == \A y \in DOMAIN WeeksIn : y \in Nat /\ WeeksIn[y] \in 0 .. 53

IsoWeeks == {<<y, k>> : y \in DOMAIN WeeksIn, k \in 1 .. 53}

(* Bounds of a plan within the years of the calendar.                      *)
Covered(b) == /\ b.st \in Nat /\ b.range \in Nat
              /\ b.st .. b.st + b.range - 1 \subseteq DOMAIN WeeksIn

ASSUME DefaultAssumption == Covered(DefaultBounds)

(* What a command line holds.  The demand of a CSV is for weeks of the     *)
(* calendar, which has the years of the CSV, those between and one more.   *)
ASSUME CallsAssumption ==
  \A call \in Calls :
    /\ call.mode \in {"etl", "leaf", "tree"}
    /\ call.mode = "etl" => call.csv # NoCsv
    /\ call.lot_size \in Nat \cup {NoSize}
    /\ call.csv # NoCsv =>
         /\ IsFiniteSet(call.csv.years) /\ call.csv.years # {}
         /\ call.csv.years \subseteq Nat
         /\ Min(call.csv.years) .. Max(call.csv.years) + 1 \subseteq DOMAIN WeeksIn
         /\ DOMAIN call.csv.demand \subseteq Range(Pairs) \X IsoWeeks
         /\ \A k \in DOMAIN call.csv.demand : call.csv.demand[k] \in Int
    /\ call.bounds # NoBounds => Covered(call.bounds)
    /\ call.fallback \in Range(Pairs)

ASSUME MaxRunsAssumption == MaxRuns \in Nat

VARIABLES
  scenario,        \* name -> [st, range]
  lot_size,        \* node_product: pair -> lot_size, as it is read
  weekly_demand,   \* a set of [scenario, pair, week]
  lot,             \* lot_id -> [scenario, pair, week]
  calendar_iso,    \* the weeks, in the order of week_index, which counts from 0
  lot_bucket,      \* a set of [scenario, layer, pair, week_index, bucket, lot_id]
  proc,            \* each process: its call and its place in the code
  runs,            \* number of runs begun
  last             \* the call of the last runs if they went undisturbed

tables == <<scenario, lot_size, weekly_demand, lot, calendar_iso, lot_bucket>>
vars == <<tables, proc, runs, last>>

Idle == [outcome |-> "idle"]

Init ==
  /\ scenario = <<>> /\ lot_size = <<>> /\ weekly_demand = {} /\ lot = <<>>
  /\ calendar_iso = <<>> /\ lot_bucket = {}
  /\ proc = [p \in Processes |-> Idle]
  /\ runs = 0
  /\ last = NoCall

-----------------------------------------------------------------------------
(* Places in the code.  here holds the locals the place needs; clean and   *)
(* base, which are not in the code, say that no run with another command   *)
(* line and no failure got in the way so far, and what the tables were     *)
(* when a run began that repeats the last.                                 *)

NoBase == <<>>
Running(p) == proc[p].outcome = "running"
At(p, pc)  == Running(p) /\ proc[p].pc = pc
Call(p)    == proc[p].call
Here(p)    == proc[p].here
Pair(p)    == Head(proc[p].todo)

Goto(p, pc, here) ==
  /\ proc' = [proc EXCEPT ![p].pc = pc, ![p].here = here]
  /\ UNCHANGED <<runs, last>>

Nothing == [nothing |-> TRUE]

Return(p, end) ==
  /\ proc' = [proc EXCEPT ![p] = [end EXCEPT !.outcome = "returned", !.pc = "end",
                                             !.here = Nothing]]
  /\ last' = IF end.clean THEN end.call ELSE NoCall
  /\ UNCHANGED runs

Disturbed(p) == [q \in Processes |->
                   IF q # p /\ Running(q) THEN [proc[q] EXCEPT !.clean = FALSE] ELSE proc[q]]

Raise(p) ==
  /\ proc' = [Disturbed(p) EXCEPT ![p].outcome = "raised", ![p].here = Nothing]
  /\ last' = NoCall
  /\ UNCHANGED runs

Start(p) ==
  /\ ~ Running(p)
  /\ runs < MaxRuns
  /\ \E call \in Calls :
       LET others == {q \in Processes : Running(q)}
           same == \A q \in others : Call(q) = call /\ proc[q].clean
       IN  proc' = [q \in Processes |->
             IF q = p THEN
               [outcome |-> "running", call |-> call, clean |-> same,
                pc |-> IF call.csv = NoCsv THEN "bounds" ELSE "ensure", here |-> Nothing,
                todo |-> <<>>, failed |-> {},
                base |-> IF others = {} /\ last = call THEN tables ELSE NoBase]
             ELSE IF q \in others THEN
               [proc[q] EXCEPT !.clean = @ /\ Call(q) = call, !.base = NoBase]
             ELSE proc[q]]
  /\ runs' = runs + 1
  /\ last' = NoCall
  /\ UNCHANGED tables

-----------------------------------------------------------------------------
(* The import: run_etl.                                                    *)

Keys(call) == DOMAIN call.csv.demand
CsvPairs(call) == {k[1] : k \in Keys(call)}

(* One year more than the CSV has.                                         *)
compute_plan_bounds(csv) == [st |-> Min(csv.years), range |-> Max(csv.years) - Min(csv.years) + 2]

(* ensure_scenario looks for the name before the transaction begins.       *)
EnsureScenario(p) ==
  /\ At(p, "ensure")
  /\ Goto(p, "stage", [found |-> Call(p).scenario \in DOMAIN scenario])
  /\ UNCHANGED tables

(* A size of 0 is inserted as 1, but stored as it is by an update, and     *)
(* read as 1 either way.                                                   *)
SizeRead(size) == IF size < 1 THEN 1 ELSE size

(* The lot size is that of the command line; without one an existing row   *)
(* keeps its size and a new one has 1.                                     *)
Sizes(call) ==
  [pair \in CsvPairs(call) |->
     IF call.lot_size # NoSize THEN SizeRead(call.lot_size)
     ELSE IF pair \in DOMAIN lot_size THEN lot_size[pair] ELSE 1]

Refused(p) == ~ Here(p).found /\ Call(p).scenario \in DOMAIN scenario

Stage(p) ==
  /\ At(p, "stage")
  /\ ~ Refused(p)
  /\ scenario' = Updated(scenario, [s \in {Call(p).scenario} |-> compute_plan_bounds(Call(p).csv)])
  /\ lot_size' = Updated(lot_size, Sizes(Call(p)))
  /\ Goto(p, "convert", Nothing)
  /\ UNCHANGED <<weekly_demand, lot, calendar_iso, lot_bucket>>

(* The insert of a scenario that another process has inserted since.       *)
StageRaises(p) ==
  /\ At(p, "stage")
  /\ Refused(p)
  /\ Raise(p)
  /\ UNCHANGED tables

LotCount(a, b) == (a + b - 1) \div b

(* The numbers of the lots of each pair and week.  The lot sizes are read  *)
(* at once: no property tells a mixture of two sizes from either.          *)
Convert(p) ==
  /\ At(p, "convert")
  /\ Goto(p, "save", [count |-> [k \in Keys(Call(p)) |->
                                   LotCount(Call(p).csv.demand[k], lot_size[k[1]])]])
  /\ UNCHANGED tables

(* Two pairs with one token make the same ids: the last row decides.       *)
LastOf(pairs) == Pairs[Max({i \in DOMAIN Pairs : Pairs[i] \in pairs})]

LotRows_FromZero(call, count) ==
  [id \in UNION {{<<Token[k[1]], k[2], i>> : i \in 0 .. count[k] - 1} : k \in Keys(call)} |->
     [scenario |-> call.scenario, week |-> id[2],
      pair |-> LastOf({k[1] : k \in {k \in Keys(call) :
                         Token[k[1]] = id[1] /\ k[2] = id[2]}})]]

LotRows_Continued(call, count) ==
  LET used(k) == Cardinality({id \in DOMAIN lot : id[1] = Token[k[1]] /\ id[2] = k[2]})
  IN  [id \in UNION {{<<Token[k[1]], k[2], used(k) + i>> : i \in 1 .. count[k]} : k \in Keys(call)} |->
         [scenario |-> call.scenario, week |-> id[2],
          pair |-> LastOf({k[1] : k \in {k \in Keys(call) :
                             Token[k[1]] = id[1] /\ k[2] = id[2]}})]]

LotRows(call, count) ==
  [id \in UNION {{<<Token[k[1]], k[2], i>> : i \in 1 .. count[k]} : k \in Keys(call)} |->
     [scenario |-> call.scenario, week |-> id[2],
      pair |-> LastOf({k[1] : k \in {k \in Keys(call) :
                         Token[k[1]] = id[1] /\ k[2] = id[2] /\ id[3] <= count[k]}})]]

AfterImport(p) ==
  IF Call(p).mode = "etl" THEN Return(p, proc[p]) ELSE Goto(p, "bounds", Nothing)

Demanded(call) == {[scenario |-> call.scenario, pair |-> k[1], week |-> k[2]] : k \in Keys(call)}

(* ON CONFLICT(lot_id) the row is the new one's, scenario and all.         *)
SaveLots_KeepsPair(p) ==
  /\ At(p, "save")
  /\ weekly_demand' = weekly_demand \cup Demanded(Call(p))
  /\ lot' = Updated(LotRows(Call(p), Here(p).count),
                    [id \in DOMAIN lot |-> [lot[id] EXCEPT !.scenario = Call(p).scenario]])
  /\ AfterImport(p)
  /\ UNCHANGED <<scenario, lot_size, calendar_iso, lot_bucket>>

SaveLots(p) ==
  /\ At(p, "save")
  /\ weekly_demand' = weekly_demand \cup Demanded(Call(p))
  /\ lot' = Updated(lot, LotRows(Call(p), Here(p).count))
  /\ AfterImport(p)
  /\ UNCHANGED <<scenario, lot_size, calendar_iso, lot_bucket>>

-----------------------------------------------------------------------------
(* The calendar: _ensure_calendar, sync_calendar_iso.                      *)

Bounded(b) == b # NoBounds

(* The orchestrator's own reading of the CSV: the years that are there.    *)
_scenario_bounds_from_csv(csv) == [st |-> Min(csv.years), range |-> Cardinality(csv.years)]

(* Bounds from the command line, else the CSV, else the scenario.          *)
PlanBounds(call) ==
  IF Bounded(call.bounds) THEN call.bounds
  ELSE IF call.csv # NoCsv
       THEN IF call.csv.plain THEN _scenario_bounds_from_csv(call.csv) ELSE DefaultBounds
  ELSE IF call.scenario \in DOMAIN scenario THEN scenario[call.scenario]
  ELSE NoBounds

ReadPlanBounds(p) ==
  /\ At(p, "bounds")
  /\ Bounded(PlanBounds(Call(p)))
  /\ IF Call(p).skip_calendar THEN Goto(p, "pairs", Nothing)
     ELSE Goto(p, "calendar", [want |-> PlanBounds(Call(p))])
  /\ UNCHANGED tables

(* int(None).                                                              *)
BoundsRaise(p) ==
  /\ At(p, "bounds")
  /\ ~ Bounded(PlanBounds(Call(p)))
  /\ Raise(p)
  /\ UNCHANGED tables

(* The weeks of some years, in their order.  A year's week that does not   *)
(* exist is passed over.                                                   *)
_generate_calendar_rows(b) ==
  InOrder([w \in {w \in (b.st .. b.st + b.range - 1) \X (1 .. 53) : w[2] <= WeeksIn[w[1]]} |-> w])

ensure_calendar_iso(p) ==
  /\ At(p, "calendar")
  /\ IF Len(calendar_iso) # Len(_generate_calendar_rows(Here(p).want))
     THEN Goto(p, "rebuild", Here(p)) ELSE Goto(p, "pairs", Nothing)
  /\ UNCHANGED tables

rebuild_calendar_iso(p) ==
  /\ At(p, "rebuild")
  /\ calendar_iso' = _generate_calendar_rows(Here(p).want)
  /\ Goto(p, "pairs", Nothing)
  /\ UNCHANGED <<scenario, lot_size, weekly_demand, lot, lot_bucket>>

-----------------------------------------------------------------------------
(* The pairs to plan.                                                      *)

(* Leaf mode: those the scenario has demand for.  Tree mode: those of them *)
(* whose node is in the network, or else the root with a product.          *)
PairsOf(call) ==
  LET demanded == {r.pair : r \in {r \in weekly_demand : r.scenario = call.scenario}}
      planned == Filtered(Pairs, LAMBDA pair :
                   pair \in demanded /\ (call.mode = "tree" => pair \in call.network))
  IN  IF call.mode = "tree" /\ planned = <<>> THEN <<call.fallback>> ELSE planned

(* On to the next pair, or the end.                                        *)
NextPair(p, rest, failed) ==
  LET st == [proc[p] EXCEPT !.todo = rest, !.failed = failed]
  IN  IF rest = <<>> THEN Return(p, st)
      ELSE /\ proc' = [proc EXCEPT ![p] = [st EXCEPT !.pc = "window", !.here = Nothing]]
           /\ UNCHANGED <<runs, last>>

ReadPairs(p) ==
  /\ At(p, "pairs")
  /\ IF Call(p).scenario \in DOMAIN scenario THEN NextPair(p, PairsOf(Call(p)), {}) ELSE Raise(p)
  /\ UNCHANGED tables

-----------------------------------------------------------------------------
(* load_leaf_S_and_compute.                                                *)

(* week -> week_index.                                                     *)
WeekMap(weeks) == [w \in weeks |-> SelectInSeq(calendar_iso, LAMBDA x : x = w) - 1]

ReadWindow(p) ==
  /\ At(p, "window")
  /\ Goto(p, "map", [window |-> scenario[Call(p).scenario]])
  /\ UNCHANGED tables

(* The weeks of the scenario's years.  If there are none, all weeks.       *)
calendar_map_for_scenario(p) ==
  LET b == Here(p).window
      week_map == WeekMap({w \in ToSet(calendar_iso) : b.st <= w[1] /\ w[1] <= b.st + b.range - 1})
  IN  /\ At(p, "map")
      /\ IF week_map = <<>> THEN Goto(p, "whole", Nothing) ELSE Goto(p, "lots", [map |-> week_map])
      /\ UNCHANGED tables

ReadWholeCalendar(p) ==
  /\ At(p, "whole")
  /\ Goto(p, "lots", [map |-> WeekMap(ToSet(calendar_iso))])
  /\ UNCHANGED tables

(* Node and product are in the database, not necessarily together.         *)
Known(pair) == \E a, b \in DOMAIN lot_size : a[1] = pair[1] /\ b[2] = pair[2]

(* Why the planning of a pair raises.                                      *)
Unplannable(p) == At(p, "lots") /\ (DOMAIN Here(p).map = {} \/ ~ Known(Pair(p)))

LotsOf(s, pair) == {id \in DOMAIN lot : lot[id].scenario = s /\ lot[id].pair = pair}

(* S: the scenario's lots of the pair, in the weeks of the map, as long as *)
(* the index is within the number of weeks of the map.                     *)
Injected(s, pair, map) ==
  {[week_index |-> map[lot[id].week], bucket |-> "S", lot_id |-> id] :
     id \in {id \in LotsOf(s, pair) : /\ lot[id].week \in DOMAIN map
                                      /\ map[lot[id].week] < Cardinality(DOMAIN map)}}

(* P: the same weeks, without the first.  The import leaves ss_days 0, and *)
(* the shift from S to P ends at week 1.                                   *)
calcS2P(S) == S \cup {[r EXCEPT !.bucket = "P"] : r \in {r \in S : r.week_index > 0}}

LoadLeaf(p) ==
  LET S == Injected(Call(p).scenario, Pair(p), Here(p).map)
  IN  /\ At(p, "lots")
      /\ ~ Unplannable(p)
      /\ Goto(p, "count", [layer |-> "demand", demand |-> calcS2P(S), supply |-> S])
      /\ UNCHANGED tables

-----------------------------------------------------------------------------
(* write_layer_to_lot_bucket, for the demand layer and then the supply     *)
(* layer.                                                                  *)

CountWeeks(p) ==
  /\ At(p, "count")
  /\ Goto(p, "delete", Updated(Here(p), [weeks |-> Len(calendar_iso)]))
  /\ UNCHANGED tables

PairSlice(s, layer, pair) ==
  {r \in lot_bucket : r.scenario = s /\ r.layer = layer /\ r.pair = pair}

DeleteSlice_AllLayers(p) ==
  /\ At(p, "delete")
  /\ lot_bucket' = lot_bucket \ (PairSlice(Call(p).scenario, "demand", Pair(p))
                                  \cup PairSlice(Call(p).scenario, "supply", Pair(p)))
  /\ Goto(p, "insert", Here(p))
  /\ UNCHANGED <<scenario, lot_size, weekly_demand, lot, calendar_iso>>

DeleteSlice(p) ==
  /\ At(p, "delete")
  /\ lot_bucket' = lot_bucket \ PairSlice(Call(p).scenario, Here(p).layer, Pair(p))
  /\ Goto(p, "insert", Here(p))
  /\ UNCHANGED <<scenario, lot_size, weekly_demand, lot, calendar_iso>>

BucketRows(p) ==
  LET here == Here(p)
  IN  {[scenario |-> Call(p).scenario, layer |-> here.layer, pair |-> Pair(p),
        week_index |-> r.week_index, bucket |-> r.bucket, lot_id |-> r.lot_id] :
         r \in {r \in here[here.layer] : r.week_index < here.weeks}}

InsertRows_SamePair(p) ==
  /\ At(p, "insert")
  /\ lot_bucket' = lot_bucket \cup BucketRows(p)
  /\ IF Here(p).layer = "demand"
     THEN Goto(p, "count", [layer |-> "supply", supply |-> Here(p).supply])
     ELSE NextPair(p, proc[p].todo, proc[p].failed)
  /\ UNCHANGED <<scenario, lot_size, weekly_demand, lot, calendar_iso>>

(* ON CONFLICT DO NOTHING.                                                 *)
InsertRows(p) ==
  /\ At(p, "insert")
  /\ lot_bucket' = lot_bucket \cup BucketRows(p)
  /\ IF Here(p).layer = "demand"
     THEN Goto(p, "count", [layer |-> "supply", supply |-> Here(p).supply])
     ELSE NextPair(p, Tail(proc[p].todo), proc[p].failed)
  /\ UNCHANGED <<scenario, lot_size, weekly_demand, lot, calendar_iso>>

-----------------------------------------------------------------------------
(* Failures.                                                               *)

(* Leaf mode lets the exception of a pair through.                         *)
PairRaises(p) ==
  /\ Unplannable(p)
  /\ Call(p).mode = "leaf"
  /\ Raise(p)
  /\ UNCHANGED tables

(* Tree mode catches it and goes on with the next pair.                    *)
PairSkipped(p) ==
  /\ Unplannable(p)
  /\ Call(p).mode = "tree"
  /\ NextPair(p, Tail(proc[p].todo), proc[p].failed \cup {Pair(p)})
  /\ UNCHANGED tables

(* So it does with the exception of a write that meets a locked database.  *)
WriteSkipped(p) ==
  LET rest == Tail(proc[p].todo)
  IN  /\ At(p, "delete") \/ At(p, "insert")
      /\ Call(p).mode = "tree"
      /\ proc' = [Disturbed(p) EXCEPT ![p].clean = FALSE, ![p].here = Nothing, ![p].todo = rest,
                    ![p].failed = @ \cup {Pair(p)},
                    ![p].outcome = IF rest = <<>> THEN "returned" ELSE @,
                    ![p].pc = IF rest = <<>> THEN "end" ELSE "window"]
      /\ last' = NoCall
      /\ UNCHANGED <<tables, runs>>

Crash(p) ==
  /\ Running(p)
  /\ Raise(p)
  /\ UNCHANGED tables

-----------------------------------------------------------------------------
Work(p) ==
  \/ EnsureScenario(p) \/ Stage(p) \/ StageRaises(p) \/ Convert(p) \/ SaveLots(p)
  \/ ReadPlanBounds(p) \/ BoundsRaise(p) \/ ensure_calendar_iso(p) \/ rebuild_calendar_iso(p)
  \/ ReadPairs(p) \/ ReadWindow(p) \/ calendar_map_for_scenario(p) \/ ReadWholeCalendar(p)
  \/ LoadLeaf(p) \/ CountWeeks(p) \/ DeleteSlice(p) \/ InsertRows(p)
  \/ PairRaises(p) \/ PairSkipped(p) \/ WriteSkipped(p)

AllOver == runs = MaxRuns /\ (\A p \in Processes : ~ Running(p)) /\ UNCHANGED vars

Next == (\E p \in Processes : Start(p) \/ Work(p) \/ Crash(p)) \/ AllOver

(* A started process keeps running until it ends.                          *)
Spec == Init /\ [][Next]_vars /\ \A p \in Processes : WF_vars(Work(p))

-----------------------------------------------------------------------------
(* Properties.                                                             *)

Ids == {Token[x] : x \in Range(Pairs)} \X IsoWeeks \X (Nat \ {0})

(* The tables are well formed, as the schema's keys and the spelling of    *)
(* lot ids (LOT_ID_SPEC.md: numbers start from 0001) demand; a lot in the  *)
(* plan is in the lot table.                                               *)
TypeOK ==
  /\ \A s \in DOMAIN scenario : scenario[s].range > 0
  /\ \A x \in DOMAIN lot_size : x \in Range(Pairs) /\ lot_size[x] > 0
  /\ \A id \in DOMAIN lot : id \in Ids /\ lot[id].week = id[2] /\ Token[lot[id].pair] = id[1]
  /\ ToSet(calendar_iso) \subseteq IsoWeeks /\ IsInjective(calendar_iso)
  /\ \A r \in lot_bucket : r.lot_id \in DOMAIN lot /\ r.scenario \in DOMAIN scenario
  /\ \A p \in Processes : proc[p].outcome \in {"idle", "running", "returned", "raised"}
  /\ runs \in 0 .. MaxRuns

(* A lot belongs to a demand of its scenario, node, product and week, also *)
(* when another scenario or another pair with the same token takes its id  *)
(* over: run_etl writes weekly_demand and lot in one transaction.          *)
LotsFollowDemand ==
  \A id \in DOMAIN lot : lot[id] \in weekly_demand

(* What the planning of a pair leaves in both layers, from what the        *)
(* database holds now.                                                     *)
Owned(s, pair) == LotsOf(s, pair)
Window(s) == {w \in ToSet(calendar_iso) : scenario[s].st <= w[1] /\ w[1] < scenario[s].st + scenario[s].range}
Index(w) == CHOOSE i \in 0 .. Len(calendar_iso) - 1 : calendar_iso[i + 1] = w

Row(s, layer, pair, bucket, id) ==
  [scenario |-> s, layer |-> layer, pair |-> pair, bucket |-> bucket, lot_id |-> id,
   week_index |-> Index(lot[id].week)]

PlanOf(s, pair) ==
  LET inside == {id \in Owned(s, pair) : lot[id].week \in Window(s)}
  IN  {Row(s, layer, pair, "S", id) : layer \in {"demand", "supply"}, id \in inside}
        \cup {Row(s, "demand", pair, "P", id) : id \in {id \in inside : Index(lot[id].week) > 0}}

NobodyRuns == \A p \in Processes : ~ Running(p)

(* A call that ran undisturbed, or beside runs of the same call, leaves    *)
(* its work whole, whatever other calls and crashes before it left: each   *)
(* imported quantity has its lots 1, 2, ... under the call's scenario, and *)
(* if the calendar begins with the scenario's first year, both layers of   *)
(* every planned pair hold the scenario's lots in that calendar and        *)
(* nothing older (write_both_layers_for_pair).                             *)
ImportIsWhole(call) ==
  call.csv # NoCsv =>
    /\ call.scenario \in DOMAIN scenario
    /\ \A k \in Keys(call) : \A i \in 1 .. LotCount(call.csv.demand[k], lot_size[k[1]]) :
         LET id == <<Token[k[1]], k[2], i>>
         IN  id \in DOMAIN lot /\ lot[id].scenario = call.scenario

PlanIsWhole(call) ==
  call.mode # "etl" =>
    \A pair \in Range(PairsOf(call)) :
      (Known(pair) /\ Window(call.scenario) # {} /\ calendar_iso[1][1] = scenario[call.scenario].st) =>
        PairSlice(call.scenario, "demand", pair) \cup PairSlice(call.scenario, "supply", pair)
          = PlanOf(call.scenario, pair)

RunIsWhole == NobodyRuns /\ last # NoCall => ImportIsWhole(last) /\ PlanIsWhole(last)

(* Run again, the same call changes no table (the import's last comment:   *)
(* run it as often as you like, the state is the same).                    *)
RerunChangesNothing ==
  [][\A p \in Processes :
       Running(p) /\ proc'[p].outcome = "returned" /\ proc'[p].clean /\ proc[p].base # NoBase
         => tables' = proc[p].base]_vars

(* Every started run ends, with or without an exception.                   *)
RunsEnd == \A p \in Processes : Running(p) ~> ~ Running(p)
=============================================================================
