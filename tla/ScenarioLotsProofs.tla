------------------------- MODULE ScenarioLotsProofs -------------------------
(***************************************************************************)
(* Proofs of ScenarioLots, for any command lines, any number of processes  *)
(* and a kill or a refusal anywhere: every lot belongs to a demand of its  *)
(* scenario, node, product and week; the tables are well formed; and a run *)
(* that nothing disturbs leaves its work whole and, repeated, changes      *)
(* nothing.                                                                *)
(***************************************************************************)
EXTENDS ScenarioLots, OperatorLemmas

(* Of some numbers the smallest is one of them, and of finitely many the   *)
(* largest.                                                                *)
LEMMA SmallestIsMember ==
  ASSUME NEW S \in SUBSET Nat, S # {}
  PROVE  Min(S) \in S /\ \A x \in S : Min(S) <= x
<1>1. PICK m \in S : \A x \in S : m <= x
  BY LeastMember
<1> QED
  BY <1>1 DEF Min

LEMMA LargestIsMember ==
  ASSUME NEW S \in SUBSET Nat, IsFiniteSet(S), S # {}
  PROVE  Max(S) \in S /\ \A x \in S : x <= Max(S)
<1> DEFINE P == {T \in SUBSET S : T # {} => \E m \in T : \A x \in T : x <= m}
<1>1. {} \in P
  OBVIOUS
<1>2. ASSUME NEW T \in SUBSET S, NEW n \in S \ T, T \in P PROVE T \cup {n} \in P
  <2>1. CASE T = {}
    BY <2>1
  <2>2. CASE T # {}
    <3>1. PICK m \in T : \A x \in T : x <= m
      BY <1>2, <2>2
    <3>2. m \in Nat /\ n \in Nat
      OBVIOUS
    <3>3. CASE n <= m
      BY <3>1, <3>3
    <3>4. CASE m <= n
      <4>1. \A x \in T : x <= n
        BY <3>1, <3>2, <3>4
      <4> QED
        BY <3>2, <4>1
    <3> QED
      BY <3>2, <3>3, <3>4
  <2> QED
    BY <2>1, <2>2
<1>3. S \in P
  <2> HIDE DEF P
  <2>1. \A T \in SUBSET S : T \in P
    BY <1>1, <1>2, FiniteSetInduction
  <2> QED
    BY <2>1
<1>4. PICK m \in S : \A x \in S : x <= m
  BY <1>3
<1> QED
  BY <1>4 DEF Max

-----------------------------------------------------------------------------
(* The rows of an import.                                                  *)

(* Of some pairs of the network LastOf takes one.                          *)
LEMMA LastIsOne ==
  ASSUME NEW pairs \in SUBSET Range(Pairs), pairs # {}
  PROVE  LastOf(pairs) \in pairs
<1> DEFINE Indices == {i \in DOMAIN Pairs : Pairs[i] \in pairs}
<1>1. PICK n \in Nat : DOMAIN Pairs = 1 .. n
  BY PairsAssumption
<1>2. Indices \in SUBSET (1 .. n)
  BY <1>1
<1>3. Indices # {}
  BY DEF Range
<1>4. Max(Indices) \in Indices
  <2>1. IsFiniteSet(Indices) /\ Indices \in SUBSET Nat
    BY <1>1, <1>2, FS_Interval, FS_Subset
  <2> HIDE DEF Indices
  <2> QED
    BY <1>3, <2>1, LargestIsMember
<1> QED
  BY <1>4 DEF LastOf

(* Every row of an import is one of the demands it imports.                *)
LEMMA RowsAreDemanded ==
  ASSUME NEW call \in Calls, call.csv # NoCsv, NEW count,
         NEW id \in DOMAIN LotRows(call, count)
  PROVE  LotRows(call, count)[id] \in Demanded(call)
<1> DEFINE Keyed == {k \in Keys(call) : Token[k[1]] = id[1] /\ k[2] = id[2] /\ id[3] <= count[k]}
           Owners == {k[1] : k \in Keyed}
           Mine == [scenario |-> call.scenario, week |-> id[2], pair |-> LastOf(Owners)]
<1>1. Keys(call) \subseteq Range(Pairs) \X IsoWeeks
  BY CallsAssumption DEF Keys
<1>2. PICK k \in Keys(call) : \E i \in 1 .. count[k] : id = <<Token[k[1]], k[2], i>>
  BY DEF LotRows
<1>3. k \in Keyed
  BY <1>2
<1>4. Owners # {} /\ Owners \subseteq Range(Pairs)
  BY <1>1, <1>3
<1>5. PICK o \in Keyed : o[1] = LastOf(Owners)
  BY <1>4, LastIsOne
<1>6. LotRows(call, count)[id] = Mine
  BY DEF LotRows
<1>7. Mine = [scenario |-> call.scenario, pair |-> o[1], week |-> o[2]]
  BY <1>5
<1> QED
  BY <1>6, <1>7 DEF Demanded

-----------------------------------------------------------------------------
(* Where a process that runs may stand.                                    *)

(* At a place of the import a process has a CSV to import.                 *)
Place(x) ==
  x.outcome = "running" =>
    /\ {"outcome", "call", "pc"} \subseteq DOMAIN x
    /\ x.call \in Calls
    /\ x.pc \in {"ensure", "stage", "convert", "save"} => x.call.csv # NoCsv

Places == DOMAIN proc = Processes /\ \A p \in Processes : Place(proc[p])

IInv == Places /\ LotsFollowDemand

(* A process that goes on to a place keeps its call.                       *)
LEMMA GotoKeepsPlaces ==
  ASSUME Places, NEW p \in Processes, Running(p), NEW pc, NEW here,
         pc \in {"ensure", "stage", "convert", "save"} => Call(p).csv # NoCsv,
         Goto(p, pc, here)
  PROVE  Places'
<1> DEFINE x == [[proc[p] EXCEPT !.pc = pc] EXCEPT !.here = here]
<1>1. proc' = [proc EXCEPT ![p] = x]
  BY DEF Goto, Places
<1>2. {"outcome", "call", "pc"} \subseteq DOMAIN proc[p] /\ Call(p) \in Calls
  BY DEF Places, Place, Running, Call
<1>3. DOMAIN x = DOMAIN proc[p] /\ x.outcome = "running" /\ x.call = Call(p) /\ x.pc = pc
  BY <1>2 DEF Running, Call
<1>4. Place(x)
  BY <1>2, <1>3 DEF Place
<1> QED
  BY <1>1, <1>4 DEF Places

(* So does one that goes on to its next pair or returns.                   *)
LEMMA NextPairKeepsPlaces ==
  ASSUME Places, NEW p \in Processes, Running(p), NEW rest, NEW failed,
         NextPair(p, rest, failed)
  PROVE  Places'
<1> DEFINE st == [proc[p] EXCEPT !.todo = rest, !.failed = failed]
           returned == [st EXCEPT !.outcome = "returned", !.pc = "end", !.here = Nothing]
           moved == [st EXCEPT !.pc = "window", !.here = Nothing]
<1>1. {"outcome", "call", "pc"} \subseteq DOMAIN proc[p] /\ Call(p) \in Calls
  BY DEF Places, Place, Running, Call
<1>2. Place(returned)
  BY <1>1 DEF Place
<1>3. Place(moved)
  BY <1>1 DEF Place, Call
<1>4. proc' = [proc EXCEPT ![p] = returned] \/ proc' = [proc EXCEPT ![p] = moved]
  BY DEF NextPair, Return
<1> QED
  BY <1>2, <1>3, <1>4 DEF Places

(* What Disturbed leaves of a process still stands where it stood.         *)
LEMMA DisturbedKeepsPlaces ==
  ASSUME Places, NEW p \in Processes
  PROVE  /\ DOMAIN Disturbed(p) = Processes
         /\ Disturbed(p)[p] = proc[p]
         /\ \A q \in Processes : Place(Disturbed(p)[q])
<1> SUFFICES ASSUME NEW q \in Processes PROVE Place(Disturbed(p)[q])
  BY DEF Disturbed
<1>1. Place(proc[q]) /\ Place([proc[q] EXCEPT !.clean = FALSE])
  BY DEF Places, Place
<1> QED
  BY <1>1 DEF Disturbed

(* A process that raises stands nowhere; the others stand where they stood.*)
LEMMA RaiseKeepsPlaces ==
  ASSUME Places, NEW p \in Processes, Running(p), Raise(p)
  PROVE  Places'
<1> DEFINE D == Disturbed(p)
           x == [[D[p] EXCEPT !.outcome = "raised"] EXCEPT !.here = Nothing]
<1>1. DOMAIN D = Processes /\ D[p] = proc[p] /\ \A q \in Processes : Place(D[q])
  BY DisturbedKeepsPlaces
<1>2. Place(x)
  BY <1>1 DEF Places, Place, Running
<1> HIDE DEF D
<1>3. proc' = [D EXCEPT ![p] = x]
  BY <1>1 DEF Raise, D
<1> QED
  BY <1>1, <1>2, <1>3 DEF Places

(* Starting a run leaves every process where the code may stand.           *)
LEMMA StartKeepsPlaces ==
  ASSUME Places, NEW p \in Processes, Start(p)
  PROVE  Places'
<1> DEFINE others == {q \in Processes : Running(q)}
           Begun(call, same) ==
             [q \in Processes |->
                IF q = p THEN
                  [outcome |-> "running", call |-> call, clean |-> same,
                   pc |-> IF call.csv = NoCsv THEN "bounds" ELSE "ensure", here |-> Nothing,
                   todo |-> <<>>, failed |-> {},
                   base |-> IF others = {} /\ last = call THEN tables ELSE NoBase]
                ELSE IF q \in others THEN
                  [proc[q] EXCEPT !.clean = @ /\ Call(q) = call, !.base = NoBase]
                ELSE proc[q]]
<1>1. PICK call \in Calls :
        proc' = Begun(call, \A q \in others : Call(q) = call /\ proc[q].clean)
  BY DEF Start
<1>2. ASSUME NEW same, NEW q \in Processes PROVE Place(Begun(call, same)[q])
  <2>1. CASE q = p
    BY <2>1 DEF Place
  <2>2. Place(proc[q])
    BY DEF Places
  <2>3. ASSUME NEW clean PROVE Place([proc[q] EXCEPT !.clean = clean, !.base = NoBase])
    BY <2>2 DEF Place
  <2>4. CASE q # p
    BY <2>2, <2>3, <2>4
  <2> QED
    BY <2>1, <2>4
<1>3. DOMAIN Begun(call, \A q \in others : Call(q) = call /\ proc[q].clean) = Processes
  OBVIOUS
<1> HIDE DEF Begun
<1> QED
  BY <1>1, <1>2, <1>3 DEF Places

(* The import leaves lots of its own demands in place of those it takes    *)
(* over.                                                                   *)
LEMMA SaveLotsKeeps ==
  ASSUME IInv, NEW p \in Processes, SaveLots(p)
  PROVE  IInv'
<1>1. Call(p) \in Calls /\ Call(p).csv # NoCsv /\ Running(p)
  BY DEF IInv, Places, Place, SaveLots, At, Running, Call
<1>2. Places'
  <2>1. CASE Goto(p, "bounds", Nothing)
    BY <1>1, <2>1, GotoKeepsPlaces DEF IInv
  <2>2. CASE Return(p, proc[p])
    <3> DEFINE returned == [proc[p] EXCEPT !.outcome = "returned", !.pc = "end", !.here = Nothing]
    <3>1. Place(returned)
      BY <1>1 DEF IInv, Places, Place, Running
    <3>2. proc' = [proc EXCEPT ![p] = returned]
      BY <2>2 DEF Return
    <3> QED
      BY <3>1, <3>2 DEF IInv, Places
  <2> QED
    BY <2>1, <2>2 DEF SaveLots, AfterImport
<1>3. LotsFollowDemand'
  <2> DEFINE rows == LotRows(Call(p), Here(p).count)
  <2>1. /\ lot' = [id \in DOMAIN rows \cup DOMAIN lot |->
                     IF id \in DOMAIN rows THEN rows[id] ELSE lot[id]]
        /\ weekly_demand' = weekly_demand \cup Demanded(Call(p))
    BY DEF SaveLots, Updated
  <2>2. \A id \in DOMAIN rows : rows[id] \in Demanded(Call(p))
    BY <1>1, RowsAreDemanded
  <2> HIDE DEF rows
  <2>3. \A id \in DOMAIN lot' :
          IF id \in DOMAIN rows THEN lot'[id] = rows[id]
          ELSE id \in DOMAIN lot /\ lot'[id] = lot[id]
    BY <2>1
  <2> QED
    BY <2>1, <2>2, <2>3 DEF IInv, LotsFollowDemand
<1> QED
  BY <1>2, <1>3 DEF IInv

(* Where no lot and no demand is written the rows stay as they are.        *)
LEMMA SameLots ==
  ASSUME LotsFollowDemand, lot' = lot, weekly_demand' = weekly_demand
  PROVE  LotsFollowDemand'
BY DEF LotsFollowDemand

-----------------------------------------------------------------------------
(* The invariant of the specification.                                     *)

LEMMA InitInvariant == Init => IInv
BY DEF Init, IInv, Places, Place, Idle, LotsFollowDemand

LEMMA WorkKeeps ==
  ASSUME IInv, NEW p \in Processes, Work(p)
  PROVE  IInv'
<1>1. Running(p)
  BY DEF Work, EnsureScenario, Stage, StageRaises, Convert, SaveLots, ReadPlanBounds,
         BoundsRaise, ensure_calendar_iso, rebuild_calendar_iso, ReadPairs, ReadWindow,
         calendar_map_for_scenario, ReadWholeCalendar, LoadLeaf, CountWeeks, DeleteSlice,
         InsertRows, PairRaises, PairSkipped, WriteSkipped, Unplannable, At
<1>2. proc[p].pc \in {"ensure", "stage", "convert", "save"} => Call(p).csv # NoCsv
  BY <1>1 DEF IInv, Places, Place, Running, Call
<1>3. CASE SaveLots(p)
  BY <1>3, SaveLotsKeeps
<1>4. ASSUME lot' = lot, weekly_demand' = weekly_demand, Places' PROVE IInv'
  BY <1>4, SameLots DEF IInv
<1>5. CASE EnsureScenario(p)
  BY <1>1, <1>2, <1>4, <1>5, GotoKeepsPlaces DEF EnsureScenario, At, tables, IInv
<1>6. CASE Stage(p)
  BY <1>1, <1>2, <1>4, <1>6, GotoKeepsPlaces DEF Stage, At, IInv
<1>7. CASE Convert(p)
  BY <1>1, <1>2, <1>4, <1>7, GotoKeepsPlaces DEF Convert, At, tables, IInv
<1>8. CASE StageRaises(p) \/ BoundsRaise(p) \/ PairRaises(p)
  BY <1>1, <1>4, <1>8, RaiseKeepsPlaces DEF StageRaises, BoundsRaise, PairRaises, tables, IInv
<1>9. CASE ReadPlanBounds(p)
  BY <1>1, <1>4, <1>9, GotoKeepsPlaces DEF ReadPlanBounds, tables, IInv
<1>10. CASE ensure_calendar_iso(p)
  BY <1>1, <1>4, <1>10, GotoKeepsPlaces DEF ensure_calendar_iso, tables, IInv
<1>11. CASE rebuild_calendar_iso(p)
  BY <1>1, <1>4, <1>11, GotoKeepsPlaces DEF rebuild_calendar_iso, IInv
<1>12. CASE ReadPairs(p)
  BY <1>1, <1>4, <1>12, NextPairKeepsPlaces, RaiseKeepsPlaces DEF ReadPairs, tables, IInv
<1>13. CASE ReadWindow(p) \/ ReadWholeCalendar(p) \/ LoadLeaf(p) \/ CountWeeks(p)
  BY <1>1, <1>4, <1>13, GotoKeepsPlaces
     DEF ReadWindow, ReadWholeCalendar, LoadLeaf, CountWeeks, tables, IInv
<1>14. CASE calendar_map_for_scenario(p)
  BY <1>1, <1>4, <1>14, GotoKeepsPlaces DEF calendar_map_for_scenario, tables, IInv
<1>15. CASE DeleteSlice(p)
  BY <1>1, <1>4, <1>15, GotoKeepsPlaces DEF DeleteSlice, IInv
<1>16. CASE InsertRows(p)
  BY <1>1, <1>4, <1>16, GotoKeepsPlaces, NextPairKeepsPlaces DEF InsertRows, IInv
<1>17. CASE PairSkipped(p)
  BY <1>1, <1>4, <1>17, NextPairKeepsPlaces DEF PairSkipped, tables, IInv
<1>18. CASE WriteSkipped(p)
  <2> DEFINE D == Disturbed(p)
             rest == Tail(proc[p].todo)
             x == [D[p] EXCEPT !.clean = FALSE, !.here = Nothing, !.todo = rest,
                     !.failed = @ \cup {Pair(p)},
                     !.outcome = IF rest = <<>> THEN "returned" ELSE @,
                     !.pc = IF rest = <<>> THEN "end" ELSE "window"]
  <2>1. DOMAIN D = Processes /\ D[p] = proc[p] /\ \A q \in Processes : Place(D[q])
    BY DisturbedKeepsPlaces DEF IInv
  <2>2. {"outcome", "call", "pc"} \subseteq DOMAIN proc[p] /\ Call(p) \in Calls
    BY <1>1 DEF IInv, Places, Place, Running, Call
  <2>3. Place(x)
    BY <2>1, <2>2 DEF Place, Call
  <2> HIDE DEF D
  <2>4. proc' = [D EXCEPT ![p] = x]
    BY <1>18, <2>1 DEF WriteSkipped, D
  <2>5. Places'
    BY <2>1, <2>3, <2>4 DEF Places
  <2> QED
    BY <1>4, <1>18, <2>5 DEF WriteSkipped, tables
<1> QED
  BY <1>3, <1>5, <1>6, <1>7, <1>8, <1>9, <1>10, <1>11, <1>12, <1>13, <1>14, <1>15,
     <1>16, <1>17, <1>18 DEF Work

(* A step of a process, a start, a kill or the end keeps the invariant.    *)
LEMMA StepKeeps == IInv /\ [Next]_vars => IInv'
<1> SUFFICES ASSUME IInv, [Next]_vars PROVE IInv'
  OBVIOUS
<1>1. ASSUME NEW p \in Processes, Start(p) PROVE IInv'
  BY <1>1, StartKeepsPlaces, SameLots DEF Start, tables, IInv
<1>2. ASSUME NEW p \in Processes, Work(p) PROVE IInv'
  BY <1>2, WorkKeeps
<1>3. ASSUME NEW p \in Processes, Crash(p) PROVE IInv'
  BY <1>3, RaiseKeepsPlaces, SameLots DEF Crash, tables, IInv
<1>4. CASE UNCHANGED vars
  BY <1>4, SameLots DEF vars, tables, IInv, Places
<1> QED
  BY <1>1, <1>2, <1>3, <1>4 DEF Next, AllOver

(* For any command lines, any number of processes and a kill or a refusal  *)
(* anywhere: every row of the lot table belongs to a demand of its         *)
(* scenario, node, product and week.                                       *)
THEOREM LotsBelong == Spec => []LotsFollowDemand
<1>1. IInv => LotsFollowDemand
  BY DEF IInv
<1> QED
  BY <1>1, InitInvariant, StepKeeps, PTL DEF Spec

-----------------------------------------------------------------------------
(* Well-formed tables.                                                     *)

(* The bounds of a CSV, and those the orchestrator reads from it, are      *)
(* within the years of the calendar.                                       *)
LEMMA BoundsOfCsv ==
  ASSUME NEW call \in Calls, call.csv # NoCsv
  PROVE  /\ Covered(compute_plan_bounds(call.csv)) /\ compute_plan_bounds(call.csv).range > 0
         /\ Covered(_scenario_bounds_from_csv(call.csv))
<1> DEFINE years == call.csv.years
           a == Min(years)
           b == Max(years)
<1>1. /\ IsFiniteSet(years) /\ years # {} /\ years \subseteq Nat
      /\ a .. b + 1 \subseteq DOMAIN WeeksIn
  BY CallsAssumption
<1>2. a \in years /\ \A x \in years : a <= x
  BY <1>1, SmallestIsMember
<1>3. b \in years /\ \A x \in years : x <= b
  BY <1>1, LargestIsMember
<1>4. a \in Nat /\ b \in Nat /\ a <= b
  BY <1>1, <1>2, <1>3
<1> HIDE DEF a, b
<1>5. years \subseteq a .. b
  BY <1>1, <1>2, <1>3, <1>4
<1>6. Cardinality(years) \in Nat /\ Cardinality(years) <= b - a + 1
  <2>1. IsFiniteSet(a .. b) /\ Cardinality(a .. b) = b - a + 1
    BY <1>4, FS_Interval
  <2> QED
    BY <1>5, <2>1, FS_Subset, FS_CardinalityType
<1>7. compute_plan_bounds(call.csv) = [st |-> a, range |-> b - a + 2]
  BY DEF compute_plan_bounds, a, b
<1>8. _scenario_bounds_from_csv(call.csv) = [st |-> a, range |-> Cardinality(years)]
  BY DEF _scenario_bounds_from_csv, a
<1>9. a .. a + (b - a + 2) - 1 = a .. b + 1
  BY <1>4
<1>10. a .. a + Cardinality(years) - 1 \subseteq a .. b + 1
  BY <1>4, <1>6
<1> QED
  BY <1>1, <1>4, <1>6, <1>7, <1>8, <1>9, <1>10 DEF Covered

(* A generated calendar has weeks of its years, each once.                 *)
YearWeeks(b) == {w \in (b.st .. b.st + b.range - 1) \X (1 .. 53) : w[2] <= WeeksIn[w[1]]}

LEMMA CalendarRows ==
  ASSUME NEW b, Covered(b)
  PROVE  /\ IsListing(_generate_calendar_rows(b), YearWeeks(b))
         /\ \A i, j \in 1 .. Cardinality(YearWeeks(b)) :
              i < j => Lex(_generate_calendar_rows(b)[i], _generate_calendar_rows(b)[j])
<1> DEFINE S == YearWeeks(b)
           key == [w \in S |-> w]
<1>1. b.st \in Nat /\ b.range \in Nat /\ b.st .. b.st + b.range - 1 \subseteq DOMAIN WeeksIn
  BY DEF Covered
<1>2. IsFiniteSet(S)
  <2>0. b.st \in Int /\ b.st + b.range - 1 \in Int /\ 1 \in Int /\ 53 \in Int
    BY <1>1
  <2>1. IsFiniteSet(b.st .. b.st + b.range - 1) /\ IsFiniteSet(1 .. 53)
    BY <2>0, FS_Interval, Zenon
  <2>2. IsFiniteSet((b.st .. b.st + b.range - 1) \X (1 .. 53))
    BY <2>1, FS_Product
  <2> QED
    BY <2>2, FS_Subset DEF YearWeeks
<1>3. \A w \in S : w \in Tuples(2)
  BY <1>1 DEF YearWeeks, Tuples
<1> HIDE DEF S
<1>4. KeyOf(key, 2)
  BY <1>2, <1>3 DEF KeyOf
<1>5. DOMAIN key = S /\ \A w \in S : key[w] = w
  OBVIOUS
<1> HIDE DEF key
<1>6. /\ IsListing(InOrder(key), S)
      /\ \A i, j \in 1 .. Cardinality(S) : i < j => Lex(key[InOrder(key)[i]], key[InOrder(key)[j]])
  BY <1>4, <1>5, InOrderLists
<1>7. \A i \in 1 .. Cardinality(S) : InOrder(key)[i] \in S
  BY <1>6 DEF IsListing
<1>8. _generate_calendar_rows(b) = InOrder(key)
  BY DEF _generate_calendar_rows, key, S, YearWeeks
<1> QED
  BY <1>5, <1>6, <1>7, <1>8 DEF S

(* The rows of a calendar: a list of weeks without repeats.                *)
IsCalendar(weeks) == ToSet(weeks) \subseteq IsoWeeks /\ IsInjective(weeks)

LEMMA GeneratedIsCalendar ==
  ASSUME NEW b, Covered(b)
  PROVE  IsCalendar(_generate_calendar_rows(b))
<1> DEFINE rows == _generate_calendar_rows(b)
           n == Cardinality(YearWeeks(b))
<1>1. IsListing(rows, YearWeeks(b))
  BY CalendarRows
<1> HIDE DEF rows
<1>2. /\ DOMAIN rows = 1 .. n /\ \A i \in 1 .. n : rows[i] \in YearWeeks(b)
      /\ \A i, j \in 1 .. n : rows[i] = rows[j] => i = j
  BY <1>1 DEF IsListing
<1>3. YearWeeks(b) \subseteq IsoWeeks
  BY DEF YearWeeks, IsoWeeks, Covered
<1>4. ToSet(rows) \subseteq IsoWeeks
  BY <1>2, <1>3 DEF ToSet
<1>5. IsInjective(rows)
  BY <1>2 DEF IsInjective
<1> QED
  BY <1>4, <1>5 DEF IsCalendar, rows

(* The tables, and what a process holds of them at its place: the pairs    *)
(* with a lot size, the numbers of lots, the bounds of a calendar, the     *)
(* scenario it plans, the lots of the layers it writes.                    *)
WellFormed ==
  /\ \A s \in DOMAIN scenario : Covered(scenario[s]) /\ scenario[s].range > 0
  /\ \A x \in DOMAIN lot_size : x \in Range(Pairs) /\ lot_size[x] \in Nat \ {0}
  /\ \A id \in DOMAIN lot : id \in Ids /\ lot[id].week = id[2] /\ Token[lot[id].pair] = id[1]
  /\ IsCalendar(calendar_iso)
  /\ \A r \in lot_bucket : r.lot_id \in DOMAIN lot /\ r.scenario \in DOMAIN scenario
  /\ runs \in 0 .. MaxRuns

Listed(here, ids) ==
  /\ {"layer", "supply", here.layer} \subseteq DOMAIN here
  /\ here.layer \in {"demand", "supply"}
  /\ \A r \in here[here.layer] \cup here.supply : r.lot_id \in ids

Outcomes == {"idle", "running", "returned", "raised"}

Planning == {"window", "map", "whole", "lots", "count", "delete", "insert"}

Fits(call, pc, here, names, pairs, ids) ==
  /\ pc = "convert" => CsvPairs(call) \subseteq pairs
  /\ pc = "save" => here.count \in [Keys(call) -> Int]
  /\ pc \in {"calendar", "rebuild"} => Covered(here.want)
  /\ pc \in Planning => call.scenario \in names
  /\ pc \in {"count", "delete", "insert"} => Listed(here, ids)

Holds(x, names, pairs, ids) ==
  /\ "outcome" \in DOMAIN x /\ x.outcome \in Outcomes
  /\ x.outcome = "running" =>
       /\ "here" \in DOMAIN x
       /\ Fits(x.call, x.pc, x.here, names, pairs, ids)

AllHold ==
  \A p \in Processes : Holds(proc[p], DOMAIN scenario, DOMAIN lot_size, DOMAIN lot)

TypeInv == Places /\ WellFormed /\ AllHold

(* Tables that lose no row leave every process what it holds.              *)
NoRowLost ==
  /\ DOMAIN scenario \subseteq DOMAIN scenario'
  /\ DOMAIN lot_size \subseteq DOMAIN lot_size'
  /\ DOMAIN lot \subseteq DOMAIN lot'

LEMMA HoldsWithMore ==
  ASSUME AllHold, NoRowLost, NEW p \in Processes
  PROVE  Holds(proc[p], DOMAIN scenario', DOMAIN lot_size', DOMAIN lot')
BY DEF AllHold, NoRowLost, Holds, Fits, Listed

(* A process that goes on to a place holds what it needs there, and the    *)
(* others keep what they hold.                                             *)
Rebased(x, clean, base) == [x EXCEPT !.clean = clean, !.base = base]

HoldsNext(p) ==
  /\ DOMAIN proc' = Processes
  /\ Holds(proc'[p], DOMAIN scenario', DOMAIN lot_size', DOMAIN lot')
  /\ \A q \in Processes \ {p} :
       \/ proc'[q] = proc[q]
       \/ \E clean : proc'[q] = [proc[q] EXCEPT !.clean = clean]
       \/ \E clean, base : proc'[q] = Rebased(proc[q], clean, base)

LEMMA AllHoldNext ==
  ASSUME AllHold, NoRowLost, NEW p \in Processes, HoldsNext(p)
  PROVE  AllHold'
<1> DEFINE names == DOMAIN scenario'
           pairs == DOMAIN lot_size'
           ids == DOMAIN lot'
<1>1. SUFFICES ASSUME NEW q \in Processes PROVE Holds(proc'[q], names, pairs, ids)
  BY DEF AllHold
<1>2. Holds(proc[q], names, pairs, ids)
  BY HoldsWithMore
<1> HIDE DEF names, pairs, ids
<1>3. ASSUME NEW clean, NEW base
      PROVE  /\ Holds([proc[q] EXCEPT !.clean = clean], names, pairs, ids)
             /\ Holds(Rebased(proc[q], clean, base), names, pairs, ids)
  BY <1>2 DEF Holds, Rebased
<1>4. CASE q = p
  BY <1>4 DEF HoldsNext, names, pairs, ids
<1>5. CASE q # p
  <2>1. CASE proc'[q] = proc[q]
    BY <1>2, <2>1
  <2>2. ASSUME NEW clean, proc'[q] = [proc[q] EXCEPT !.clean = clean]
        PROVE  Holds(proc'[q], names, pairs, ids)
    BY <1>3, <2>2
  <2>3. ASSUME NEW clean, NEW base, proc'[q] = Rebased(proc[q], clean, base)
        PROVE  Holds(proc'[q], names, pairs, ids)
    BY <1>3, <2>3
  <2> QED
    BY <1>5, <2>1, <2>2, <2>3 DEF HoldsNext
<1> QED
  BY <1>4, <1>5

LEMMA GotoHolds ==
  ASSUME Places, AllHold, NoRowLost, NEW p \in Processes, Running(p), NEW pc, NEW here,
         Goto(p, pc, here),
         Fits(Call(p), pc, here, DOMAIN scenario', DOMAIN lot_size', DOMAIN lot')
  PROVE  AllHold'
<1> DEFINE x == [[proc[p] EXCEPT !.pc = pc] EXCEPT !.here = here]
<1>1. proc' = [proc EXCEPT ![p] = x]
  BY DEF Goto, Places
<1>2. {"outcome", "call", "pc", "here"} \subseteq DOMAIN proc[p]
  BY DEF Places, Place, AllHold, Holds, Running
<1>3. "outcome" \in DOMAIN x /\ "here" \in DOMAIN x /\ x.outcome = "running" /\ x.call = Call(p)
      /\ x.pc = pc /\ x.here = here
  BY <1>2 DEF Running, Call
<1> HIDE DEF x
<1>4. Holds(x, DOMAIN scenario', DOMAIN lot_size', DOMAIN lot')
  BY <1>3 DEF Holds, Outcomes
<1>5. proc'[p] = x /\ DOMAIN proc' = Processes /\ \A q \in Processes \ {p} : proc'[q] = proc[q]
  BY <1>1 DEF Places
<1>6. HoldsNext(p)
  BY <1>4, <1>5 DEF HoldsNext
<1> QED
  BY <1>6, AllHoldNext

(* So does one that goes on to its next pair.                              *)
LEMMA NextPairHolds ==
  ASSUME Places, AllHold, NoRowLost, NEW p \in Processes, Running(p), NEW rest, NEW failed,
         NextPair(p, rest, failed), Call(p).scenario \in DOMAIN scenario'
  PROVE  AllHold'
<1> DEFINE st == [proc[p] EXCEPT !.todo = rest, !.failed = failed]
           returned == [st EXCEPT !.outcome = "returned", !.pc = "end", !.here = Nothing]
           moved == [st EXCEPT !.pc = "window", !.here = Nothing]
<1>1. {"outcome", "call", "pc", "here"} \subseteq DOMAIN proc[p]
  BY DEF Places, Place, AllHold, Holds, Running
<1>2. Holds(returned, DOMAIN scenario', DOMAIN lot_size', DOMAIN lot')
  BY <1>1 DEF Holds, Outcomes
<1>3. Holds(moved, DOMAIN scenario', DOMAIN lot_size', DOMAIN lot')
  <2>1. "outcome" \in DOMAIN moved /\ "here" \in DOMAIN moved /\ moved.outcome = "running"
        /\ moved.call = Call(p) /\ moved.pc = "window"
    BY <1>1 DEF Running, Call
  <2> HIDE DEF moved
  <2> QED
    BY <2>1 DEF Holds, Outcomes, Fits
<1>4. proc' = [proc EXCEPT ![p] = returned] \/ proc' = [proc EXCEPT ![p] = moved]
  BY DEF NextPair, Return
<1> HIDE DEF returned, moved
<1>5. proc'[p] \in {returned, moved} /\ DOMAIN proc' = Processes
      /\ \A q \in Processes \ {p} : proc'[q] = proc[q]
  BY <1>4 DEF Places
<1>6. HoldsNext(p)
  BY <1>2, <1>3, <1>5 DEF HoldsNext
<1> QED
  BY <1>6, AllHoldNext

(* What is disturbed keeps what it holds; what has raised holds nothing.   *)
LEMMA DisturbedHolds ==
  ASSUME NEW p \in Processes
  PROVE  \A q \in Processes \ {p} :
           \/ Disturbed(p)[q] = proc[q]
           \/ \E clean : Disturbed(p)[q] = [proc[q] EXCEPT !.clean = clean]
BY DEF Disturbed

LEMMA RaiseHolds ==
  ASSUME Places, AllHold, NoRowLost, NEW p \in Processes, Running(p), Raise(p)
  PROVE  AllHold'
<1> DEFINE D == Disturbed(p)
           x == [[D[p] EXCEPT !.outcome = "raised"] EXCEPT !.here = Nothing]
<1>1. DOMAIN D = Processes /\ D[p] = proc[p]
  BY DisturbedKeepsPlaces
<1>2. "outcome" \in DOMAIN proc[p]
  BY DEF AllHold, Holds
<1>3. \A q \in Processes \ {p} : D[q] = proc[q] \/ \E clean : D[q] = [proc[q] EXCEPT !.clean = clean]
  BY DisturbedHolds
<1>4. Holds(x, DOMAIN scenario', DOMAIN lot_size', DOMAIN lot')
  BY <1>1, <1>2 DEF Holds, Outcomes
<1> HIDE DEF D
<1>5. proc' = [D EXCEPT ![p] = x]
  BY <1>1 DEF Raise, D
<1> HIDE DEF x
<1>6. proc'[p] = x /\ DOMAIN proc' = Processes /\ \A q \in Processes \ {p} : proc'[q] = D[q]
  BY <1>1, <1>5
<1>7. ASSUME NEW q \in Processes \ {p}
      PROVE  \/ proc'[q] = proc[q]
             \/ \E clean : proc'[q] = [proc[q] EXCEPT !.clean = clean]
  <2>1. proc'[q] = D[q]
    BY <1>6
  <2> QED
    BY <1>3, <2>1
<1>8. HoldsNext(p)
  BY <1>4, <1>6, <1>7 DEF HoldsNext
<1> QED
  BY <1>8, AllHoldNext

LEMMA StartHolds ==
  ASSUME Places, AllHold, NoRowLost, NEW p \in Processes, Start(p)
  PROVE  AllHold'
<1> DEFINE others == {q \in Processes : Running(q)}
           New(call, same) ==
             [outcome |-> "running", call |-> call, clean |-> same,
              pc |-> IF call.csv = NoCsv THEN "bounds" ELSE "ensure", here |-> Nothing,
              todo |-> <<>>, failed |-> {},
              base |-> IF others = {} /\ last = call THEN tables ELSE NoBase]
           Begun(call, same) ==
             [q \in Processes |->
                IF q = p THEN New(call, same)
                ELSE IF q \in others THEN
                  [proc[q] EXCEPT !.clean = @ /\ Call(q) = call, !.base = NoBase]
                ELSE proc[q]]
<1>1. PICK call \in Calls :
        proc' = Begun(call, \A q \in others : Call(q) = call /\ proc[q].clean)
  BY DEF Start
<1>2. PICK same : proc' = Begun(call, same)
  BY <1>1
<1>3. Holds(New(call, same), DOMAIN scenario', DOMAIN lot_size', DOMAIN lot')
  BY DEF Holds, Fits, Outcomes, Planning
<1> HIDE DEF New
<1>4. ASSUME NEW q \in Processes \ {p}
      PROVE  \/ proc'[q] = proc[q]
             \/ \E clean, base : proc'[q] = Rebased(proc[q], clean, base)
  <2>1. CASE q \in others
    <3>1. proc'[q] = Rebased(proc[q], proc[q].clean /\ Call(q) = call, NoBase)
      BY <1>2, <2>1 DEF Rebased
    <3> QED
      BY <3>1
  <2> QED
    BY <1>2, <2>1
<1>5. DOMAIN proc' = Processes /\ proc'[p] = New(call, same)
  BY <1>2
<1>6. HoldsNext(p)
  BY <1>3, <1>4, <1>5 DEF HoldsNext
<1> QED
  BY <1>6, AllHoldNext

-----------------------------------------------------------------------------
(* The actions keep the tables well formed.                                *)

(* The import's first transaction.                                         *)
LEMMA StageHolds ==
  ASSUME TypeInv, NEW p \in Processes, Stage(p)
  PROVE  WellFormed' /\ NoRowLost /\ AllHold'
<1> DEFINE call == Call(p)
           b == compute_plan_bounds(call.csv)
           sizes == Sizes(call)
<1>1. call \in Calls /\ call.csv # NoCsv /\ Running(p)
  BY DEF TypeInv, Places, Place, Stage, At, Running, Call
<1>2. Covered(b) /\ b.range > 0
  BY <1>1, BoundsOfCsv
<1>3. CsvPairs(call) \subseteq Range(Pairs) /\ call.lot_size \in Nat \cup {NoSize}
  BY <1>1, CallsAssumption DEF CsvPairs, Keys
<1>4. DOMAIN sizes = CsvPairs(call) /\ \A x \in CsvPairs(call) : sizes[x] \in Nat \ {0}
  BY <1>3 DEF Sizes, SizeRead, NoSize, TypeInv, WellFormed
<1> HIDE DEF b, sizes
<1>5. /\ DOMAIN scenario' = DOMAIN scenario \cup {call.scenario}
      /\ \A s \in DOMAIN scenario' :
           \/ scenario'[s] = b
           \/ s \in DOMAIN scenario /\ scenario'[s] = scenario[s]
  <2>1. scenario' = Updated(scenario, [s \in {call.scenario} |-> b])
    BY DEF Stage, b
  <2> QED
    BY <2>1 DEF Updated
<1>6. /\ DOMAIN lot_size' = DOMAIN lot_size \cup CsvPairs(call)
      /\ \A x \in DOMAIN lot_size' :
           \/ x \in CsvPairs(call) /\ lot_size'[x] = sizes[x]
           \/ x \in DOMAIN lot_size /\ lot_size'[x] = lot_size[x]
  <2>1. lot_size' = Updated(lot_size, sizes)
    BY DEF Stage, sizes
  <2> QED
    BY <1>4, <2>1 DEF Updated
<1>7. lot' = lot /\ calendar_iso' = calendar_iso /\ lot_bucket' = lot_bucket /\ runs' = runs
  BY DEF Stage, Goto
<1>8. NoRowLost
  BY <1>5, <1>6, <1>7 DEF NoRowLost
<1>9. WellFormed'
  <2>1. \A s \in DOMAIN scenario' : Covered(scenario'[s]) /\ scenario'[s].range > 0
    BY <1>2, <1>5 DEF TypeInv, WellFormed
  <2>2. \A x \in DOMAIN lot_size' : x \in Range(Pairs) /\ lot_size'[x] \in Nat \ {0}
    BY <1>3, <1>4, <1>6 DEF TypeInv, WellFormed
  <2> QED
    BY <1>5, <1>7, <2>1, <2>2 DEF TypeInv, WellFormed
<1>10. Fits(call, "convert", Nothing, DOMAIN scenario', DOMAIN lot_size', DOMAIN lot')
  BY <1>6 DEF Fits, Planning
<1>11. Goto(p, "convert", Nothing)
  BY DEF Stage
<1>12. AllHold'
  BY <1>1, <1>8, <1>10, <1>11, GotoHolds DEF TypeInv
<1> QED
  BY <1>8, <1>9, <1>12

(* The import's second transaction: lots with the ids, weeks and pairs of  *)
(* its rows.                                                               *)
LEMMA RowsAreWell ==
  ASSUME NEW call \in Calls, call.csv # NoCsv, NEW count \in [Keys(call) -> Int],
         NEW id \in DOMAIN LotRows(call, count)
  PROVE  /\ id \in Ids /\ LotRows(call, count)[id].week = id[2]
         /\ Token[LotRows(call, count)[id].pair] = id[1]
<1> DEFINE Keyed == {k \in Keys(call) : Token[k[1]] = id[1] /\ k[2] = id[2] /\ id[3] <= count[k]}
           Owners == {k[1] : k \in Keyed}
           Mine == [scenario |-> call.scenario, week |-> id[2], pair |-> LastOf(Owners)]
<1>1. Keys(call) \subseteq Range(Pairs) \X IsoWeeks
  BY CallsAssumption DEF Keys
<1>a. PICK k \in Keys(call) : \E i \in 1 .. count[k] : id = <<Token[k[1]], k[2], i>>
  BY DEF LotRows
<1>2. PICK i \in 1 .. count[k] : id = <<Token[k[1]], k[2], i>>
  BY <1>a
<1>3. count[k] \in Int /\ i \in Nat \ {0} /\ i <= count[k]
  BY <1>2
<1>4. k \in Keyed /\ k[1] \in Range(Pairs) /\ k[2] \in IsoWeeks
  BY <1>1, <1>2, <1>3
<1>5. id \in Ids
  BY <1>2, <1>3, <1>4 DEF Ids
<1>6. Owners # {} /\ Owners \subseteq Range(Pairs)
  BY <1>1, <1>4
<1>7. PICK o \in Keyed : o[1] = LastOf(Owners)
  BY <1>6, LastIsOne
<1>8. LotRows(call, count)[id] = Mine
  BY DEF LotRows
<1> QED
  BY <1>5, <1>7, <1>8

(* The numbers of lots are integers: a lot size is at least 1.             *)
LEMMA CountsAreNumbers ==
  ASSUME NEW a \in Int, NEW b \in Nat \ {0}
  PROVE  LotCount(a, b) \in Int
BY DEF LotCount

LEMMA ConvertHolds ==
  ASSUME TypeInv, NEW p \in Processes, Convert(p)
  PROVE  AllHold'
<1> DEFINE call == Call(p)
           count == [k \in Keys(call) |-> LotCount(call.csv.demand[k], lot_size[k[1]])]
<1>1. call \in Calls /\ call.csv # NoCsv /\ Running(p) /\ CsvPairs(call) \subseteq DOMAIN lot_size
  BY DEF TypeInv, Places, Place, AllHold, Holds, Fits, Convert, At, Running, Call
<1>2. \A k \in Keys(call) : call.csv.demand[k] \in Int
  BY <1>1, CallsAssumption DEF Keys
<1>3. \A k \in Keys(call) : lot_size[k[1]] \in Nat \ {0}
  BY <1>1 DEF CsvPairs, TypeInv, WellFormed
<1>4. count \in [Keys(call) -> Int]
  BY <1>2, <1>3, CountsAreNumbers
<1>5. Goto(p, "save", [count |-> count]) /\ NoRowLost
  BY DEF Convert, NoRowLost, tables
<1> HIDE DEF count
<1>6. Fits(call, "save", [count |-> count], DOMAIN scenario', DOMAIN lot_size', DOMAIN lot')
  BY <1>4 DEF Fits, Planning
<1> QED
  BY <1>1, <1>5, <1>6, GotoHolds DEF TypeInv

LEMMA SaveLotsHolds ==
  ASSUME TypeInv, NEW p \in Processes, SaveLots(p)
  PROVE  WellFormed' /\ AllHold'
<1> DEFINE call == Call(p)
           count == Here(p).count
           rows == LotRows(call, count)
<1>1. call \in Calls /\ call.csv # NoCsv /\ Running(p) /\ count \in [Keys(call) -> Int]
  BY DEF TypeInv, Places, Place, AllHold, Holds, Fits, SaveLots, At, Running, Call, Here
<1>2. \A id \in DOMAIN rows : id \in Ids /\ rows[id].week = id[2] /\ Token[rows[id].pair] = id[1]
  BY <1>1, RowsAreWell
<1>3. lot' = Updated(lot, rows)
  BY DEF SaveLots
<1> HIDE DEF rows
<1>4. /\ DOMAIN lot' = DOMAIN lot \cup DOMAIN rows
      /\ \A id \in DOMAIN lot' : \/ id \in DOMAIN rows /\ lot'[id] = rows[id]
                                 \/ id \in DOMAIN lot /\ lot'[id] = lot[id]
  BY <1>3 DEF Updated
<1>5. scenario' = scenario /\ lot_size' = lot_size /\ calendar_iso' = calendar_iso
      /\ lot_bucket' = lot_bucket /\ runs' = runs
  BY DEF SaveLots, AfterImport, Return, Goto
<1>6. NoRowLost
  BY <1>4, <1>5 DEF NoRowLost
<1>7. WellFormed'
  BY <1>2, <1>4, <1>5 DEF TypeInv, WellFormed
<1>8. AllHold'
  <2>1. CASE Goto(p, "bounds", Nothing)
    <3>1. Fits(call, "bounds", Nothing, DOMAIN scenario', DOMAIN lot_size', DOMAIN lot')
      BY DEF Fits, Planning
    <3> QED
      BY <1>1, <1>6, <2>1, <3>1, GotoHolds DEF TypeInv
  <2>2. CASE Return(p, proc[p])
    <3> DEFINE x == [proc[p] EXCEPT !.outcome = "returned", !.pc = "end", !.here = Nothing]
    <3>1. Holds(x, DOMAIN scenario', DOMAIN lot_size', DOMAIN lot')
      BY DEF TypeInv, AllHold, Holds, Outcomes
    <3>2. proc' = [proc EXCEPT ![p] = x]
      BY <2>2 DEF Return
    <3> HIDE DEF x
    <3>3. HoldsNext(p)
      BY <3>1, <3>2 DEF HoldsNext, TypeInv, Places
    <3> QED
      BY <1>6, <3>3, AllHoldNext DEF TypeInv
  <2> QED
    BY <2>1, <2>2 DEF SaveLots, AfterImport
<1> QED
  BY <1>7, <1>8

(* The bounds a calendar is made from are within the years there are.      *)
LEMMA PlanBoundsCovered ==
  ASSUME TypeInv, NEW call \in Calls, Bounded(PlanBounds(call))
  PROVE  Covered(PlanBounds(call))
<1>1. CASE Bounded(call.bounds)
  BY <1>1, CallsAssumption DEF PlanBounds, Bounded
<1>2. CASE ~Bounded(call.bounds) /\ call.csv # NoCsv
  BY <1>2, BoundsOfCsv, DefaultAssumption DEF PlanBounds
<1>3. CASE ~Bounded(call.bounds) /\ call.csv = NoCsv
  BY <1>3 DEF PlanBounds, Bounded, TypeInv, WellFormed
<1> QED
  BY <1>1, <1>2, <1>3

(* Where no table is written they stay well formed.                        *)
LEMMA SameTables ==
  ASSUME WellFormed, UNCHANGED tables, runs' = runs
  PROVE  WellFormed' /\ NoRowLost
BY DEF WellFormed, NoRowLost, tables, IsCalendar

LEMMA CalendarHolds ==
  ASSUME TypeInv, NEW p \in Processes,
         ReadPlanBounds(p) \/ ensure_calendar_iso(p) \/ rebuild_calendar_iso(p)
  PROVE  WellFormed' /\ AllHold'
<1>1. Running(p) /\ Call(p) \in Calls
  BY DEF TypeInv, Places, Place, ReadPlanBounds, ensure_calendar_iso, rebuild_calendar_iso,
         At, Running, Call
<1>2. ASSUME NEW pc, NEW here, Goto(p, pc, here), NoRowLost,
             pc \in {"pairs", "calendar", "rebuild"}, pc # "pairs" => Covered(here.want)
      PROVE  AllHold'
  <2>1. Fits(Call(p), pc, here, DOMAIN scenario', DOMAIN lot_size', DOMAIN lot')
    BY <1>2 DEF Fits, Planning
  <2> QED
    BY <1>1, <1>2, <2>1, GotoHolds DEF TypeInv
<1>3. CASE ReadPlanBounds(p)
  <2>1. Covered([want |-> PlanBounds(Call(p))].want)
    BY <1>1, <1>3, PlanBoundsCovered DEF ReadPlanBounds
  <2>2. UNCHANGED tables /\ runs' = runs
    BY <1>3 DEF ReadPlanBounds, Goto
  <2>3. WellFormed' /\ NoRowLost
    BY <2>2, SameTables DEF TypeInv
  <2>4. \/ Goto(p, "pairs", Nothing)
        \/ Goto(p, "calendar", [want |-> PlanBounds(Call(p))])
    BY <1>3 DEF ReadPlanBounds
  <2> QED
    BY <1>2, <2>1, <2>3, <2>4
<1>4. CASE ensure_calendar_iso(p)
  <2>1. Covered(Here(p).want)
    BY <1>1, <1>4 DEF ensure_calendar_iso, At, Here, TypeInv, AllHold, Holds, Fits, Running
  <2>2. UNCHANGED tables /\ runs' = runs
    BY <1>4 DEF ensure_calendar_iso, Goto
  <2>3. WellFormed' /\ NoRowLost
    BY <2>2, SameTables DEF TypeInv
  <2>4. Goto(p, "pairs", Nothing) \/ Goto(p, "rebuild", Here(p))
    BY <1>4 DEF ensure_calendar_iso
  <2> QED
    BY <1>2, <2>1, <2>3, <2>4
<1>5. CASE rebuild_calendar_iso(p)
  <2>1. Covered(Here(p).want)
    BY <1>1, <1>5 DEF rebuild_calendar_iso, At, Here, TypeInv, AllHold, Holds, Fits, Running
  <2>2. calendar_iso' = _generate_calendar_rows(Here(p).want) /\ Goto(p, "pairs", Nothing)
        /\ UNCHANGED <<scenario, lot_size, weekly_demand, lot, lot_bucket>> /\ runs' = runs
    BY <1>5 DEF rebuild_calendar_iso, Goto
  <2>3. IsCalendar(calendar_iso')
    BY <2>1, <2>2, GeneratedIsCalendar
  <2>4. IsCalendar(calendar_iso)'
    BY <2>3 DEF IsCalendar
  <2>5. WellFormed' /\ NoRowLost
    BY <2>2, <2>4 DEF TypeInv, WellFormed, NoRowLost
  <2> QED
    BY <1>2, <2>2, <2>5
<1> QED
  BY <1>3, <1>4, <1>5

-----------------------------------------------------------------------------
(* Planning and writing back.                                              *)

(* A scenario's lots, and what is put into the weeks, are lots.            *)
LEMMA LeafIsListed ==
  ASSUME NEW s, NEW pair, NEW map
  PROVE  LET S == Injected(s, pair, map)
         IN  Listed([layer |-> "demand", demand |-> calcS2P(S), supply |-> S], DOMAIN lot)
<1> DEFINE S == Injected(s, pair, map)
<1>1. \A r \in S : r.lot_id \in DOMAIN lot /\ {"bucket", "lot_id"} \subseteq DOMAIN r
  BY DEF Injected, LotsOf
<1> HIDE DEF S
<1>2. \A r \in calcS2P(S) : r.lot_id \in DOMAIN lot
  BY <1>1 DEF calcS2P
<1> QED
  BY <1>1, <1>2 DEF Listed, S

LEMMA PlanningHolds ==
  ASSUME TypeInv, NEW p \in Processes,
         \/ ReadWindow(p) \/ calendar_map_for_scenario(p) \/ ReadWholeCalendar(p)
         \/ LoadLeaf(p) \/ CountWeeks(p)
  PROVE  WellFormed' /\ AllHold'
<1>1. Running(p) /\ Call(p).scenario \in DOMAIN scenario
  BY DEF TypeInv, AllHold, Holds, Fits, Planning, ReadWindow, calendar_map_for_scenario,
         ReadWholeCalendar, LoadLeaf, CountWeeks, At, Running, Call
<1>2. UNCHANGED tables /\ runs' = runs
  BY DEF ReadWindow, calendar_map_for_scenario, ReadWholeCalendar, LoadLeaf, CountWeeks, Goto
<1>3. WellFormed' /\ NoRowLost
  BY <1>2, SameTables DEF TypeInv
<1>4. ASSUME NEW pc \in Planning, NEW here, Goto(p, pc, here),
             pc \in {"count", "delete", "insert"} => Listed(here, DOMAIN lot)
      PROVE  AllHold'
  <2>1. Fits(Call(p), pc, here, DOMAIN scenario', DOMAIN lot_size', DOMAIN lot')
    BY <1>1, <1>2, <1>4 DEF Fits, Planning, tables
  <2> QED
    BY <1>1, <1>3, <1>4, <2>1, GotoHolds DEF TypeInv
<1>5. CASE ReadWindow(p) \/ calendar_map_for_scenario(p) \/ ReadWholeCalendar(p)
  <2> DEFINE Moves(pc) == \E here : Goto(p, pc, here)
  <2>1. Moves("map") \/ Moves("whole") \/ Moves("lots")
    BY <1>5 DEF ReadWindow, calendar_map_for_scenario, ReadWholeCalendar
  <2>2. \A pc \in {"map", "whole", "lots"} : Moves(pc) => AllHold'
    BY <1>4 DEF Planning
  <2> QED
    BY <1>3, <2>1, <2>2
<1>6. CASE LoadLeaf(p)
  <2>1. PICK here : Goto(p, "count", here) /\ Listed(here, DOMAIN lot)
    BY <1>6, LeafIsListed DEF LoadLeaf
  <2> QED
    BY <1>3, <1>4, <2>1 DEF Planning
<1>7. CASE CountWeeks(p)
  <2> DEFINE here == Updated(Here(p), [weeks |-> Len(calendar_iso)])
  <2>1. Listed(Here(p), DOMAIN lot)
    BY <1>1, <1>7 DEF CountWeeks, At, Here, TypeInv, AllHold, Holds, Fits, Running
  <2>2. Listed(here, DOMAIN lot)
    BY <2>1 DEF Listed, Updated
  <2>3. Goto(p, "delete", here)
    BY <1>7 DEF CountWeeks
  <2> HIDE DEF here
  <2> QED
    BY <1>3, <1>4, <2>2, <2>3 DEF Planning
<1> QED
  BY <1>5, <1>6, <1>7

LEMMA DeleteHolds ==
  ASSUME TypeInv, NEW p \in Processes, DeleteSlice(p)
  PROVE  WellFormed' /\ AllHold'
<1>1. Running(p) /\ Call(p).scenario \in DOMAIN scenario /\ Listed(Here(p), DOMAIN lot)
  BY DEF TypeInv, AllHold, Holds, Fits, Planning, DeleteSlice, At, Running, Call, Here
<1>2. /\ lot_bucket' \subseteq lot_bucket /\ Goto(p, "insert", Here(p)) /\ runs' = runs
      /\ UNCHANGED <<scenario, lot_size, weekly_demand, lot, calendar_iso>>
  BY DEF DeleteSlice, Goto
<1>3. WellFormed' /\ NoRowLost
  BY <1>2 DEF TypeInv, WellFormed, NoRowLost, IsCalendar
<1>4. Fits(Call(p), "insert", Here(p), DOMAIN scenario', DOMAIN lot_size', DOMAIN lot')
  BY <1>1, <1>2 DEF Fits
<1> QED
  BY <1>1, <1>2, <1>3, <1>4, GotoHolds DEF TypeInv

LEMMA InsertHolds ==
  ASSUME TypeInv, NEW p \in Processes, InsertRows(p)
  PROVE  WellFormed' /\ AllHold'
<1> DEFINE here == [layer |-> "supply", supply |-> Here(p).supply]
<1>1. Running(p) /\ Call(p).scenario \in DOMAIN scenario /\ Listed(Here(p), DOMAIN lot)
  BY DEF TypeInv, AllHold, Holds, Fits, Planning, InsertRows, At, Running, Call, Here
<1>2. /\ lot_bucket' = lot_bucket \cup BucketRows(p) /\ runs' = runs
      /\ UNCHANGED <<scenario, lot_size, weekly_demand, lot, calendar_iso>>
  BY DEF InsertRows, Goto, NextPair, Return
<1>3. \A r \in BucketRows(p) : r.scenario = Call(p).scenario /\ r.lot_id \in DOMAIN lot
  BY <1>1 DEF BucketRows, Listed
<1>4. WellFormed' /\ NoRowLost
  BY <1>1, <1>2, <1>3 DEF TypeInv, WellFormed, NoRowLost, IsCalendar
<1>5. CASE Goto(p, "count", here)
  <2>1. Listed(here, DOMAIN lot)
    BY <1>1 DEF Listed
  <2> HIDE DEF here
  <2>2. Fits(Call(p), "count", here, DOMAIN scenario', DOMAIN lot_size', DOMAIN lot')
    BY <1>1, <1>2, <2>1 DEF Fits
  <2> QED
    BY <1>1, <1>4, <1>5, <2>2, GotoHolds DEF TypeInv
<1>6. CASE NextPair(p, Tail(proc[p].todo), proc[p].failed)
  BY <1>1, <1>2, <1>4, <1>6, NextPairHolds DEF TypeInv
<1> QED
  BY <1>4, <1>5, <1>6 DEF InsertRows

LEMMA WriteSkippedHolds ==
  ASSUME TypeInv, NEW p \in Processes, WriteSkipped(p)
  PROVE  WellFormed' /\ AllHold'
<1> DEFINE D == Disturbed(p)
           rest == Tail(proc[p].todo)
           x == [D[p] EXCEPT !.clean = FALSE, !.here = Nothing, !.todo = rest,
                   !.failed = @ \cup {Pair(p)},
                   !.outcome = IF rest = <<>> THEN "returned" ELSE @,
                   !.pc = IF rest = <<>> THEN "end" ELSE "window"]
<1>1. Running(p) /\ Call(p).scenario \in DOMAIN scenario
  BY DEF TypeInv, AllHold, Holds, Fits, Planning, WriteSkipped, At, Running, Call
<1>2. {"outcome", "call", "pc", "here"} \subseteq DOMAIN proc[p]
  BY <1>1 DEF TypeInv, Places, Place, AllHold, Holds, Running
<1>3. DOMAIN D = Processes /\ D[p] = proc[p]
  BY DisturbedKeepsPlaces DEF TypeInv
<1>4. UNCHANGED tables /\ runs' = runs
  BY DEF WriteSkipped
<1>5. WellFormed' /\ NoRowLost
  BY <1>4, SameTables DEF TypeInv
<1>6. /\ DOMAIN x = DOMAIN proc[p] /\ x.call = Call(p)
      /\ \/ x.outcome = "returned"
         \/ x.outcome = "running" /\ x.pc = "window"
  BY <1>1, <1>2, <1>3 DEF Running, Call
<1>7. \A q \in Processes \ {p} : D[q] = proc[q] \/ \E clean : D[q] = [proc[q] EXCEPT !.clean = clean]
  BY DisturbedHolds
<1> HIDE DEF D
<1>8. proc' = [D EXCEPT ![p] = x]
  BY <1>3 DEF WriteSkipped, D
<1> HIDE DEF x
<1>9. DOMAIN scenario' = DOMAIN scenario
  BY <1>4 DEF tables
<1>10. Holds(x, DOMAIN scenario', DOMAIN lot_size', DOMAIN lot')
  BY <1>1, <1>2, <1>6, <1>9 DEF Holds, Fits, Outcomes
<1>11. proc'[p] = x /\ DOMAIN proc' = Processes /\ \A q \in Processes \ {p} : proc'[q] = D[q]
  BY <1>3, <1>8
<1>12. ASSUME NEW q \in Processes \ {p}
       PROVE  \/ proc'[q] = proc[q]
              \/ \E clean : proc'[q] = [proc[q] EXCEPT !.clean = clean]
  <2>1. proc'[q] = D[q]
    BY <1>11
  <2> QED
    BY <1>7, <2>1
<1>13. HoldsNext(p)
  BY <1>10, <1>11, <1>12 DEF HoldsNext
<1> QED
  BY <1>5, <1>13, AllHoldNext DEF TypeInv

-----------------------------------------------------------------------------
(* The invariant of the tables.                                            *)

LEMMA InitTypeInv == Init => TypeInv
<1> SUFFICES ASSUME Init PROVE TypeInv
  OBVIOUS
<1>1. Places
  BY InitInvariant DEF IInv
<1>2. WellFormed
  <2>1. DOMAIN scenario = {} /\ DOMAIN lot_size = {} /\ DOMAIN lot = {} /\ lot_bucket = {}
    BY DEF Init
  <2>2. IsCalendar(calendar_iso)
    BY DEF Init, IsCalendar, ToSet, IsInjective
  <2> QED
    BY <2>1, <2>2, MaxRunsAssumption DEF Init, WellFormed
<1>3. AllHold
  BY DEF Init, AllHold, Holds, Idle, Outcomes
<1> QED
  BY <1>1, <1>2, <1>3 DEF TypeInv

LEMMA WorkHolds ==
  ASSUME TypeInv, NEW p \in Processes, Work(p)
  PROVE  WellFormed' /\ AllHold'
<1>1. Running(p)
  BY DEF Work, EnsureScenario, Stage, StageRaises, Convert, SaveLots, ReadPlanBounds,
         BoundsRaise, ensure_calendar_iso, rebuild_calendar_iso, ReadPairs, ReadWindow,
         calendar_map_for_scenario, ReadWholeCalendar, LoadLeaf, CountWeeks, DeleteSlice,
         InsertRows, PairRaises, PairSkipped, WriteSkipped, Unplannable, At
<1>2. ASSUME UNCHANGED tables, runs' = runs PROVE WellFormed' /\ NoRowLost
  BY <1>2, SameTables DEF TypeInv
<1>3. CASE EnsureScenario(p)
  <2>1. PICK here : Goto(p, "stage", here) /\ UNCHANGED tables /\ runs' = runs
    BY <1>3 DEF EnsureScenario, Goto
  <2>2. Fits(Call(p), "stage", here, DOMAIN scenario', DOMAIN lot_size', DOMAIN lot')
    BY DEF Fits, Planning
  <2> QED
    BY <1>1, <1>2, <2>1, <2>2, GotoHolds DEF TypeInv
<1>4. CASE StageRaises(p) \/ BoundsRaise(p) \/ PairRaises(p)
  <2>1. Raise(p) /\ UNCHANGED tables /\ runs' = runs
    BY <1>4 DEF StageRaises, BoundsRaise, PairRaises, Raise
  <2> QED
    BY <1>1, <1>2, <2>1, RaiseHolds DEF TypeInv
<1>5. CASE Stage(p)
  BY <1>5, StageHolds
<1>6. CASE Convert(p)
  <2>1. UNCHANGED tables /\ runs' = runs
    BY <1>6 DEF Convert, Goto
  <2> QED
    BY <1>2, <1>6, <2>1, ConvertHolds
<1>7. CASE SaveLots(p)
  BY <1>7, SaveLotsHolds
<1>8. CASE ReadPlanBounds(p) \/ ensure_calendar_iso(p) \/ rebuild_calendar_iso(p)
  BY <1>8, CalendarHolds
<1>9. CASE ReadPairs(p)
  <2>1. UNCHANGED tables /\ runs' = runs
    BY <1>9 DEF ReadPairs, NextPair, Return, Raise
  <2>2. WellFormed' /\ NoRowLost /\ DOMAIN scenario' = DOMAIN scenario
    BY <1>2, <2>1 DEF tables
  <2>3. \/ Raise(p)
        \/ Call(p).scenario \in DOMAIN scenario /\ NextPair(p, PairsOf(Call(p)), {})
    BY <1>9 DEF ReadPairs
  <2> QED
    BY <1>1, <2>2, <2>3, RaiseHolds, NextPairHolds DEF TypeInv
<1>10. CASE \/ ReadWindow(p) \/ calendar_map_for_scenario(p) \/ ReadWholeCalendar(p)
            \/ LoadLeaf(p) \/ CountWeeks(p)
  BY <1>10, PlanningHolds
<1>11. CASE DeleteSlice(p)
  BY <1>11, DeleteHolds
<1>12. CASE InsertRows(p)
  BY <1>12, InsertHolds
<1>13. CASE PairSkipped(p)
  <2>1. UNCHANGED tables /\ runs' = runs
    BY <1>13 DEF PairSkipped, NextPair, Return
  <2>2. WellFormed' /\ NoRowLost /\ DOMAIN scenario' = DOMAIN scenario
    BY <1>2, <2>1 DEF tables
  <2>3. Call(p).scenario \in DOMAIN scenario
    BY <1>13 DEF PairSkipped, Unplannable, At, TypeInv, AllHold, Holds, Fits, Planning, Running, Call
  <2>4. NextPair(p, Tail(proc[p].todo), proc[p].failed \cup {Pair(p)})
    BY <1>13 DEF PairSkipped
  <2> QED
    BY <1>1, <2>2, <2>3, <2>4, NextPairHolds DEF TypeInv
<1>14. CASE WriteSkipped(p)
  BY <1>14, WriteSkippedHolds
<1> QED
  BY <1>3, <1>4, <1>5, <1>6, <1>7, <1>8, <1>9, <1>10, <1>11, <1>12, <1>13, <1>14 DEF Work

LEMMA StepKeepsTypeInv == TypeInv /\ IInv /\ [Next]_vars => TypeInv'
<1> SUFFICES ASSUME TypeInv, IInv, [Next]_vars PROVE TypeInv'
  OBVIOUS
<1>1. Places'
  BY StepKeeps DEF IInv
<1>2. ASSUME NEW p \in Processes, Start(p) PROVE WellFormed' /\ AllHold'
  <2>0. runs \in 0 .. MaxRuns /\ runs < MaxRuns /\ runs' = runs + 1 /\ UNCHANGED tables
    BY <1>2 DEF Start, TypeInv, WellFormed
  <2>1. UNCHANGED tables /\ runs' \in 0 .. MaxRuns
    BY <2>0, MaxRunsAssumption
  <2>2. WellFormed' /\ NoRowLost
    BY <2>1 DEF TypeInv, WellFormed, NoRowLost, tables, IsCalendar
  <2> QED
    BY <1>2, <2>2, StartHolds DEF TypeInv
<1>3. ASSUME NEW p \in Processes, Work(p) PROVE WellFormed' /\ AllHold'
  BY <1>3, WorkHolds
<1>4. ASSUME NEW p \in Processes, Crash(p) PROVE WellFormed' /\ AllHold'
  <2>1. UNCHANGED tables /\ runs' = runs /\ Running(p) /\ Raise(p)
    BY <1>4 DEF Crash, Raise
  <2> QED
    BY <2>1, SameTables, RaiseHolds DEF TypeInv
<1>5. ASSUME UNCHANGED vars PROVE WellFormed' /\ AllHold'
  <2>1. UNCHANGED tables /\ runs' = runs /\ proc' = proc
    BY <1>5 DEF vars
  <2>2. WellFormed'
    BY <2>1, SameTables DEF TypeInv
  <2>3. AllHold'
    BY <2>1 DEF TypeInv, AllHold, tables
  <2> QED
    BY <2>2, <2>3
<1>6. WellFormed' /\ AllHold'
  BY <1>2, <1>3, <1>4, <1>5 DEF Next, AllOver
<1> QED
  BY <1>1, <1>6 DEF TypeInv

(* For any command lines, any number of processes and a kill or a refusal  *)
(* anywhere: every scenario has a year, every lot size is positive, every  *)
(* lot has the token, the week and a number from 1 that its id says, the   *)
(* calendar has no week twice, and no bucket row is without its lot and    *)
(* its scenario.                                                           *)
THEOREM TypeCorrect == Spec => []TypeOK
<1>1. TypeInv => TypeOK
  BY DEF TypeInv, WellFormed, AllHold, Holds, Outcomes, IsCalendar, TypeOK
<1> QED
  BY <1>1, InitInvariant, StepKeeps, InitTypeInv, StepKeepsTypeInv, PTL DEF Spec

-----------------------------------------------------------------------------
(* Whole runs.                                                             *)

(* A calendar as the database lists it: whole weeks, year after year.      *)
YearByYear(weeks) ==
  /\ weeks \in Seq(IsoWeeks)
  /\ \A i, j \in 1 .. Len(weeks) : i < j => weeks[i][1] <= weeks[j][1]

(* So is a generated one.                                                  *)
LEMMA GeneratedYearByYear ==
  ASSUME NEW b, Covered(b)
  PROVE  YearByYear(_generate_calendar_rows(b))
<1> DEFINE S == YearWeeks(b)
<1>1. PICK rows : /\ rows = _generate_calendar_rows(b) /\ IsListing(rows, S)
                  /\ \A i, j \in 1 .. Cardinality(S) : i < j => Lex(rows[i], rows[j])
  BY CalendarRows
<1>2. /\ rows \in Seq(S) /\ Len(rows) = Cardinality(S) /\ Len(rows) \in Nat
      /\ \A i \in 1 .. Len(rows) : rows[i] \in S
  BY <1>1, ListingIsSeq
<1>3. S \subseteq IsoWeeks /\ \A w \in S : w \in Nat \X Nat
  BY DEF YearWeeks, IsoWeeks, Covered
<1> HIDE DEF S
<1>4. rows \in Seq(IsoWeeks)
  BY <1>2, <1>3
<1>5. ASSUME NEW v \in Nat \X Nat, NEW w \in Nat \X Nat, Lex(v, w) PROVE v[1] <= w[1]
  BY <1>5 DEF Lex
<1>6. ASSUME NEW i \in 1 .. Len(rows), NEW j \in 1 .. Len(rows), i < j
      PROVE  rows[i][1] <= rows[j][1]
  BY <1>1, <1>2, <1>3, <1>5, <1>6
<1> QED
  BY <1>1, <1>4, <1>6 DEF YearByYear

(* The index of a week of the calendar.                                    *)
LEMMA IndexOfWeek ==
  ASSUME IsCalendar(calendar_iso), YearByYear(calendar_iso), NEW weeks,
         weeks \subseteq ToSet(calendar_iso), NEW w \in weeks
  PROVE  /\ DOMAIN WeekMap(weeks) = weeks
         /\ WeekMap(weeks)[w] \in 0 .. Len(calendar_iso) - 1
         /\ calendar_iso[WeekMap(weeks)[w] + 1] = w
         /\ Index(w) = WeekMap(weeks)[w]
<1> DEFINE I == {i \in 1 .. Len(calendar_iso) : calendar_iso[i] = w}
<1>0. Len(calendar_iso) \in Nat /\ DOMAIN calendar_iso = 1 .. Len(calendar_iso)
  BY DEF YearByYear
<1>1. PICK k \in 1 .. Len(calendar_iso) : calendar_iso[k] = w
  BY <1>0 DEF ToSet
<1>2. \A i \in 1 .. Len(calendar_iso) : calendar_iso[i] = w => i = k
  BY <1>0, <1>1 DEF IsCalendar, IsInjective
<1>3. I = {k}
  BY <1>1, <1>2
<1>4. Min(I) = k
  BY <1>0, <1>3 DEF Min
<1>5. SelectInSeq(calendar_iso, LAMBDA x : x = w) = k
  BY <1>3, <1>4 DEF SelectInSeq
<1>6. DOMAIN WeekMap(weeks) = weeks /\ WeekMap(weeks)[w] = k - 1
  BY <1>5 DEF WeekMap
<1>7. \A i \in 0 .. Len(calendar_iso) - 1 : calendar_iso[i + 1] = w => i = k - 1
  BY <1>0, <1>2
<1>8. k - 1 \in 0 .. Len(calendar_iso) - 1 /\ k - 1 + 1 = k
  BY <1>0
<1>9. Index(w) = k - 1
  BY <1>1, <1>7, <1>8 DEF Index
<1> QED
  BY <1>1, <1>6, <1>8, <1>9

(* What a call leaves of the import, of its plan's window, and of the      *)
(* layers of a pair in that window, by the tables as they are.             *)
Counts(c) == [k \in Keys(c) |-> LotCount(c.csv.demand[k], lot_size[k[1]])]

Staged(c) ==
  /\ c.scenario \in DOMAIN scenario
  /\ scenario[c.scenario] = compute_plan_bounds(c.csv)
  /\ CsvPairs(c) \subseteq DOMAIN lot_size
  /\ c.lot_size # NoSize => \A x \in CsvPairs(c) : lot_size[x] = SizeRead(c.lot_size)

HasRows(rows) == \A id \in DOMAIN rows : id \in DOMAIN lot /\ lot[id] = rows[id]

Saved(c) ==
  Staged(c) /\ Demanded(c) \subseteq weekly_demand /\ HasRows(LotRows(c, Counts(c)))

Imported(c) == c.csv # NoCsv => Saved(c)

Settled(c) ==
  /\ Imported(c)
  /\ c.mode # "etl"
  /\ ~ c.skip_calendar => Len(calendar_iso) = Len(_generate_calendar_rows(PlanBounds(c)))

MapOf(c) ==
  IF WeekMap(Window(c.scenario)) = <<>> THEN WeekMap(ToSet(calendar_iso))
  ELSE WeekMap(Window(c.scenario))

LotsPlanned(c, pair) == Injected(c.scenario, pair, MapOf(c))

LayerOf(c, layer, pair) ==
  IF layer = "demand" THEN calcS2P(LotsPlanned(c, pair)) ELSE LotsPlanned(c, pair)

RowsOf(c, layer, pair) ==
  {[scenario |-> c.scenario, layer |-> layer, pair |-> pair,
    week_index |-> r.week_index, bucket |-> r.bucket, lot_id |-> r.lot_id] :
      r \in LayerOf(c, layer, pair)}

Plannable(c, pair) == DOMAIN MapOf(c) # {} /\ Known(pair)

(* A process stands between the deletion and the insertion of a layer.     *)
Pending(layer, pair) ==
  \E q \in Processes : At(q, "insert") /\ Pair(q) = pair /\ Here(q).layer = layer

(* The rows of a layer are none but the plan's, and all of them if no      *)
(* process is about to insert them.                                        *)
NoneOlder(c, layer, pair) ==
  PairSlice(c.scenario, layer, pair) \subseteq RowsOf(c, layer, pair)

Finished(c, layer, pair) ==
  Plannable(c, pair) =>
    /\ NoneOlder(c, layer, pair)
    /\ RowsOf(c, layer, pair) \subseteq PairSlice(c.scenario, layer, pair) \/ Pending(layer, pair)

Planned(c, pairs) ==
  \A pair \in pairs : Finished(c, "demand", pair) /\ Finished(c, "supply", pair)

PlanPairs(c) == Range(PairsOf(c))

CallDone(c) ==
  /\ Imported(c)
  /\ c.mode # "etl" => Settled(c) /\ c.scenario \in DOMAIN scenario /\ Planned(c, PlanPairs(c))

(* The tables a plan depends on.                                           *)
imports == <<scenario, lot_size, weekly_demand, lot>>

(* What depends on the tables only is the same when they are.              *)
LEMMA SameImport ==
  ASSUME NEW c, UNCHANGED <<scenario, lot_size>>
  PROVE  /\ Counts(c)' = Counts(c) /\ Staged(c)' = Staged(c) /\ PlanBounds(c)' = PlanBounds(c)
         /\ \A pair : Known(pair)' = Known(pair)
<1>1. Counts(c)' = Counts(c)
  BY DEF Counts
<1>2. Staged(c)' = Staged(c)
  BY DEF Staged
<1>3. PlanBounds(c)' = PlanBounds(c)
  BY DEF PlanBounds
<1>4. \A pair : Known(pair)' = Known(pair)
  BY DEF Known
<1> QED
  BY <1>1, <1>2, <1>3, <1>4

(* So is what depends on the lots.                                         *)
LEMMA SameImported ==
  ASSUME NEW c, UNCHANGED imports
  PROVE  Saved(c)' = Saved(c) /\ Imported(c)' = Imported(c) /\ PairsOf(c)' = PairsOf(c)
         /\ PlanPairs(c)' = PlanPairs(c)
<1>1. UNCHANGED <<scenario, lot_size>> /\ lot' = lot /\ weekly_demand' = weekly_demand
  BY DEF imports
<1>2. Counts(c)' = Counts(c) /\ Staged(c)' = Staged(c)
  BY <1>1, SameImport
<1>3. \A rows : HasRows(rows)' = HasRows(rows)
  BY <1>1 DEF HasRows
<1>4. LotRows(c, Counts(c))' = LotRows(c, Counts(c))
  BY <1>2 DEF LotRows
<1>5. Saved(c)' = Saved(c)
  BY <1>1, <1>2, <1>3, <1>4 DEF Saved
<1>6. PairsOf(c)' = PairsOf(c)
  BY <1>1 DEF PairsOf, Filtered
<1> QED
  BY <1>5, <1>6 DEF Imported, PlanPairs, Range

(* And on the calendar.                                                    *)
LEMMA SamePlan ==
  ASSUME NEW c, UNCHANGED imports, calendar_iso' = calendar_iso
  PROVE  /\ Settled(c)' = Settled(c) /\ MapOf(c)' = MapOf(c)
         /\ Window(c.scenario)' = Window(c.scenario)
         /\ \A weeks : WeekMap(weeks)' = WeekMap(weeks)
         /\ \A pair : LotsPlanned(c, pair)' = LotsPlanned(c, pair)
         /\ \A layer, pair : RowsOf(c, layer, pair)' = RowsOf(c, layer, pair)
         /\ \A pair : Plannable(c, pair)' = Plannable(c, pair)
<1>1. UNCHANGED <<scenario, lot_size>> /\ lot' = lot
  BY DEF imports
<1>2. PlanBounds(c)' = PlanBounds(c) /\ \A pair : Known(pair)' = Known(pair)
  BY <1>1, SameImport
<1>3. Settled(c)' = Settled(c)
  BY <1>2, SameImported DEF Settled
<1>4. Window(c.scenario)' = Window(c.scenario)
  BY <1>1 DEF Window
<1>5. \A weeks : WeekMap(weeks)' = WeekMap(weeks)
  BY DEF WeekMap, SelectInSeq
<1>6. MapOf(c)' = MapOf(c)
  BY <1>4, <1>5 DEF MapOf
<1>7. \A pair, map : Injected(c.scenario, pair, map)' = Injected(c.scenario, pair, map)
  BY <1>1 DEF Injected, LotsOf
<1>8. ASSUME NEW pair PROVE LotsPlanned(c, pair)' = LotsPlanned(c, pair)
  BY <1>6, <1>7 DEF LotsPlanned
<1>9. ASSUME NEW layer, NEW pair PROVE RowsOf(c, layer, pair)' = RowsOf(c, layer, pair)
  BY <1>8 DEF RowsOf, LayerOf
<1>10. \A pair : Plannable(c, pair)' = Plannable(c, pair)
  BY <1>2, <1>6 DEF Plannable
<1> QED
  BY <1>3, <1>4, <1>5, <1>6, <1>8, <1>9, <1>10

-----------------------------------------------------------------------------
(* Where an undisturbed process stands: what its call has done so far.     *)

Importing == {"ensure", "stage", "convert", "save"}
Writing   == {"count", "delete", "insert"}

Prepared(c, pc, here, pair) ==
  /\ Plannable(c, pair)
  /\ here.layer \in {"demand", "supply"}
  /\ here.supply = LotsPlanned(c, pair)
  /\ here.layer = "demand" => here.demand = calcS2P(LotsPlanned(c, pair))
  /\ here.layer = "supply" => Finished(c, "demand", pair)
  /\ pc # "count" => here.weeks = Len(calendar_iso)
  /\ pc = "insert" => NoneOlder(c, here.layer, pair)

StandsInImport(c, pc, here) ==
  /\ c.csv # NoCsv
  /\ pc \in {"convert", "save"} => Staged(c)
  /\ pc = "save" => here.count = Counts(c)

StandsAtCalendar(c, pc, here) ==
  /\ Imported(c) /\ c.mode # "etl"
  /\ pc # "bounds" => here.want = PlanBounds(c) /\ ~ c.skip_calendar
  /\ pc = "rebuild" => \/ Len(calendar_iso) # Len(_generate_calendar_rows(PlanBounds(c)))
                       \/ calendar_iso = _generate_calendar_rows(PlanBounds(c))

StandsInPlan(c, pc, here, todo) ==
  /\ Settled(c) /\ c.scenario \in DOMAIN scenario
  /\ todo \in Seq(PlanPairs(c)) /\ todo # <<>>
  /\ Planned(c, PlanPairs(c) \ Range(todo))
  /\ pc = "map" => here.window = scenario[c.scenario]
  /\ pc = "whole" => WeekMap(Window(c.scenario)) = <<>>
  /\ pc = "lots" => here.map = MapOf(c)
  /\ pc \in Writing => Prepared(c, pc, here, Head(todo))

Stands(c, pc, here, todo) ==
  \/ pc \in Importing /\ StandsInImport(c, pc, here)
  \/ pc \in {"bounds", "calendar", "rebuild"} /\ StandsAtCalendar(c, pc, here)
  \/ pc = "pairs" /\ Settled(c)
  \/ pc \in Planning /\ StandsInPlan(c, pc, here, todo)

(* A step that leaves what the call has done.                              *)
Kept(c) ==
  /\ c.csv = NoCsv \/ Staged(c) => UNCHANGED <<scenario, lot_size>>
  /\ Imported(c) => UNCHANGED imports
  /\ \/ calendar_iso' = calendar_iso
     \/ ~ c.skip_calendar /\ calendar_iso' = _generate_calendar_rows(PlanBounds(c))
  /\ Settled(c) \/ c.mode = "etl" => calendar_iso' = calendar_iso
  /\ Settled(c) => \A layer, pair :
       Plannable(c, pair) => /\ NoneOlder(c, layer, pair) => NoneOlder(c, layer, pair)'
                             /\ Finished(c, layer, pair) => Finished(c, layer, pair)'

(* What is finished stays so under such a step.                            *)
LEMMA KeptPlan ==
  ASSUME NEW c, Kept(c), Settled(c)
  PROVE  /\ UNCHANGED imports /\ calendar_iso' = calendar_iso /\ Settled(c)'
         /\ PlanPairs(c)' = PlanPairs(c)
         /\ \A pair : Plannable(c, pair)' = Plannable(c, pair)
         /\ \A layer, pair : Finished(c, layer, pair) => Finished(c, layer, pair)'
         /\ \A pairs : Planned(c, pairs) => Planned(c, pairs)'
<1>1. UNCHANGED imports /\ calendar_iso' = calendar_iso
  BY DEF Kept, Settled
<1>2. Settled(c)' /\ (\A pair : Plannable(c, pair)' = Plannable(c, pair))
      /\ PlanPairs(c)' = PlanPairs(c)
  BY <1>1, SamePlan, SameImported
<1>3. ASSUME NEW layer, NEW pair, Finished(c, layer, pair) PROVE Finished(c, layer, pair)'
  <2>1. CASE Plannable(c, pair)
    BY <1>3, <2>1 DEF Kept
  <2>2. CASE ~ Plannable(c, pair)
    BY <1>2, <2>2 DEF Finished
  <2> QED
    BY <2>1, <2>2
<1>4. \A pairs : Planned(c, pairs) => Planned(c, pairs)'
  BY <1>3 DEF Planned
<1> QED
  BY <1>1, <1>2, <1>3, <1>4

(* A process stands where it stood after such a step of another.           *)
LEMMA KeptStands ==
  ASSUME NEW c, NEW pc, NEW here, NEW todo, Kept(c), Stands(c, pc, here, todo)
  PROVE  Stands(c, pc, here, todo)'
<1>1. CASE pc \in Importing /\ StandsInImport(c, pc, here)
  <2>1. CASE Staged(c)
    <3>1. UNCHANGED <<scenario, lot_size>>
      BY <2>1 DEF Kept
    <3>2. Staged(c)' = Staged(c) /\ Counts(c)' = Counts(c)
      BY <3>1, SameImport
    <3> QED
      BY <1>1, <3>2 DEF Stands, StandsInImport
  <2>2. CASE ~ Staged(c)
    BY <1>1, <2>2 DEF Stands, StandsInImport
  <2> QED
    BY <2>1, <2>2
<1>2. CASE pc \in {"bounds", "calendar", "rebuild"} /\ StandsAtCalendar(c, pc, here)
  <2>1. UNCHANGED imports
    BY <1>2 DEF Kept, StandsAtCalendar
  <2>2. Imported(c)' /\ PlanBounds(c)' = PlanBounds(c)
    BY <1>2, <2>1, SameImport, SameImported DEF StandsAtCalendar, imports
  <2>3. \A b : _generate_calendar_rows(b)' = _generate_calendar_rows(b)
    BY DEF _generate_calendar_rows
  <2>4. \/ calendar_iso' = calendar_iso
        \/ calendar_iso' = _generate_calendar_rows(PlanBounds(c))
    BY DEF Kept
  <2>5. StandsAtCalendar(c, pc, here)'
    BY <1>2, <2>2, <2>3, <2>4 DEF StandsAtCalendar
  <2> QED
    BY <1>2, <2>5 DEF Stands
<1>3. CASE pc = "pairs" /\ Settled(c)
  BY <1>3, KeptPlan DEF Stands
<1>4. CASE pc \in Planning /\ StandsInPlan(c, pc, here, todo)
  <2>0. Settled(c)
    BY <1>4 DEF StandsInPlan
  <2>1. UNCHANGED imports /\ calendar_iso' = calendar_iso /\ Settled(c)' /\ scenario' = scenario
        /\ PlanPairs(c)' = PlanPairs(c)
    BY <2>0, KeptPlan DEF imports
  <2>2. \A pairs : Planned(c, pairs) => Planned(c, pairs)'
    BY <2>0, KeptPlan
  <2>3. MapOf(c)' = MapOf(c) /\ WeekMap(Window(c.scenario))' = WeekMap(Window(c.scenario))
        /\ \A pair : LotsPlanned(c, pair)' = LotsPlanned(c, pair)
    <3>1. Window(c.scenario)' = Window(c.scenario) /\ \A weeks : WeekMap(weeks)' = WeekMap(weeks)
      BY <2>1, SamePlan
    <3> QED
      BY <2>1, <3>1, SamePlan
  <2>4. ASSUME NEW pair, Prepared(c, pc, here, pair) PROVE Prepared(c, pc, here, pair)'
    <3>1. Plannable(c, pair)' /\ (Finished(c, "demand", pair) => Finished(c, "demand", pair)')
      BY <2>0, <2>4, KeptPlan DEF Prepared
    <3>2. NoneOlder(c, here.layer, pair) => NoneOlder(c, here.layer, pair)'
      BY <2>0, <2>4 DEF Kept, Prepared
    <3>3. LotsPlanned(c, pair)' = LotsPlanned(c, pair)
      BY <2>3
    <3> QED
      BY <2>1, <2>4, <3>1, <3>2, <3>3 DEF Prepared, calcS2P
  <2>5. StandsInPlan(c, pc, here, todo)'
    BY <1>4, <2>1, <2>2, <2>3, <2>4 DEF StandsInPlan
  <2> QED
    BY <1>4, <2>5 DEF Stands
<1> QED
  BY <1>1, <1>2, <1>3, <1>4 DEF Stands

(* What a call has done it has done after such a step.                     *)
LEMMA KeptDone ==
  ASSUME NEW c, Kept(c), CallDone(c)
  PROVE  CallDone(c)' /\ UNCHANGED imports /\ calendar_iso' = calendar_iso
<1>1. UNCHANGED imports /\ scenario' = scenario
  BY DEF Kept, CallDone, imports
<1>2. Imported(c)' /\ PlanPairs(c)' = PlanPairs(c)
  BY <1>1, SameImported DEF CallDone
<1>3. CASE c.mode = "etl"
  BY <1>1, <1>2, <1>3 DEF CallDone, Kept
<1>4. CASE c.mode # "etl"
  <2>1. Settled(c) /\ c.scenario \in DOMAIN scenario /\ Planned(c, PlanPairs(c))
    BY <1>4 DEF CallDone
  <2>2. calendar_iso' = calendar_iso /\ Settled(c)' /\ Planned(c, PlanPairs(c))'
    <3>1. \A pairs : Planned(c, pairs) => Planned(c, pairs)'
      BY <2>1, KeptPlan
    <3> QED
      BY <1>2, <2>1, <3>1, KeptPlan DEF Planned
  <2> QED
    BY <1>1, <1>2, <2>1, <2>2 DEF CallDone
<1> QED
  BY <1>3, <1>4

-----------------------------------------------------------------------------
(* The processes: runs that overlap undisturbed are runs of one call.      *)

Fields == {"outcome", "call", "clean", "pc", "here", "todo", "failed", "base"}

Shape(x) == x.outcome = "running" => Fields \subseteq DOMAIN x /\ x.clean \in BOOLEAN

Shaped == DOMAIN proc = Processes /\ \A p \in Processes : Shape(proc[p])

Clean(p) == Running(p) /\ proc[p].clean

Together == \A p, q \in Processes : Clean(p) /\ Running(q) => Clean(q) /\ Call(q) = Call(p)

LastTogether == last # NoCall => \A q \in Processes : Running(q) => Clean(q) /\ Call(q) = last

IsAt(p, c, pc, here, todo) ==
  Clean(p) /\ Call(p) = c /\ proc[p].pc = pc /\ Here(p) = here /\ proc[p].todo = todo

AllStand ==
  \A p \in Processes : \A c, pc, here, todo :
    IsAt(p, c, pc, here, todo) => Stands(c, pc, here, todo)

LastDone == \A c : last = c /\ c # NoCall => CallDone(c)

(* The plan with the rows a process is about to insert.                    *)
BucketWith(c, pc, here, todo) ==
  IF pc = "insert" THEN lot_bucket \cup RowsOf(c, here.layer, Head(todo)) ELSE lot_bucket

IsBase(base, c, pc, here, todo) ==
  base = <<scenario, lot_size, weekly_demand, lot, calendar_iso, BucketWith(c, pc, here, todo)>>

(* A run that repeats the last runs alone, and what it began with is left. *)
Alone(p) == \A q \in Processes : Running(q) => q = p

AllRepeated ==
  \A p \in Processes : \A c, pc, here, todo, base :
    IsAt(p, c, pc, here, todo) /\ proc[p].base = base /\ base # NoBase =>
      Alone(p) /\ CallDone(c) /\ IsBase(base, c, pc, here, todo)

RunsInv == Together /\ LastTogether /\ AllStand /\ LastDone /\ AllRepeated

(* What a step of a process makes of it.                                   *)
Moves(p, outcome, pc, here, todo) ==
  /\ proc'[p].outcome = outcome /\ proc'[p].pc = pc /\ proc'[p].here = here
  /\ proc'[p].todo = todo /\ proc'[p].call = Call(p) /\ proc'[p].clean = proc[p].clean
  /\ proc'[p].base = proc[p].base
  /\ \A q \in Processes \ {p} : proc'[q] = proc[q]

GoesOn(p, pc, here, todo) == Moves(p, "running", pc, here, todo) /\ last' = last

Ends(p, todo) ==
  /\ Moves(p, "returned", "end", Nothing, todo)
  /\ last' = IF proc[p].clean THEN Call(p) ELSE NoCall

(* How Goto moves a process.                                               *)
LEMMA GotoMoves ==
  ASSUME Shaped, NEW p \in Processes, Running(p), NEW pc, NEW here, Goto(p, pc, here)
  PROVE  GoesOn(p, pc, here, proc[p].todo) /\ Shaped'
<1> DEFINE x == [[proc[p] EXCEPT !.pc = pc] EXCEPT !.here = here]
<1>1. proc' = [proc EXCEPT ![p] = x] /\ last' = last
  BY DEF Goto, Shaped
<1>2. Fields \subseteq DOMAIN proc[p] /\ proc[p].clean \in BOOLEAN
  BY DEF Shaped, Shape, Running
<1>3. /\ DOMAIN x = DOMAIN proc[p] /\ x.outcome = "running" /\ x.call = proc[p].call
      /\ x.clean = proc[p].clean /\ x.pc = pc /\ x.here = here /\ x.todo = proc[p].todo
      /\ x.base = proc[p].base
  BY <1>2 DEF Fields, Running
<1> HIDE DEF x
<1>4. proc'[p] = x /\ DOMAIN proc' = Processes /\ \A q \in Processes \ {p} : proc'[q] = proc[q]
  BY <1>1 DEF Shaped
<1>5. Shape(x)
  BY <1>2, <1>3 DEF Shape
<1>6. Shaped'
  BY <1>4, <1>5 DEF Shaped
<1> QED
  BY <1>1, <1>3, <1>4, <1>6 DEF GoesOn, Moves, Call

(* How Return does.                                                        *)
LEMMA ReturnMoves ==
  ASSUME Shaped, NEW p \in Processes, Running(p), NEW st,
         Fields \subseteq DOMAIN st, st.call = Call(p), st.clean = proc[p].clean,
         st.base = proc[p].base, Return(p, st)
  PROVE  Ends(p, st.todo) /\ Shaped'
<1> DEFINE x == [st EXCEPT !.outcome = "returned", !.pc = "end", !.here = Nothing]
<1>1. proc' = [proc EXCEPT ![p] = x] /\ last' = IF st.clean THEN st.call ELSE NoCall
  BY DEF Return
<1>3. /\ x.outcome = "returned" /\ x.call = Call(p)
      /\ x.clean = proc[p].clean /\ x.pc = "end" /\ x.here = Nothing /\ x.todo = st.todo
      /\ x.base = proc[p].base
  BY DEF Fields
<1> HIDE DEF x
<1>4. proc'[p] = x /\ DOMAIN proc' = Processes /\ \A q \in Processes \ {p} : proc'[q] = proc[q]
  BY <1>1 DEF Shaped
<1>5. Shape(x)
  BY <1>3 DEF Shape
<1>6. Shaped'
  BY <1>4, <1>5 DEF Shaped
<1> QED
  BY <1>1, <1>3, <1>4, <1>6 DEF Ends, Moves

(* How NextPair does.                                                      *)
LEMMA NextPairMoves ==
  ASSUME Shaped, NEW p \in Processes, Running(p), NEW rest, NEW failed,
         NextPair(p, rest, failed)
  PROVE  /\ rest = <<>> => Ends(p, rest)
         /\ rest # <<>> => GoesOn(p, "window", Nothing, rest)
         /\ Shaped'
<1> DEFINE st == [[proc[p] EXCEPT !.todo = rest] EXCEPT !.failed = failed]
           x == [st EXCEPT !.pc = "window", !.here = Nothing]
<1>2. Fields \subseteq DOMAIN proc[p] /\ proc[p].clean \in BOOLEAN
  BY DEF Shaped, Shape, Running
<1>3. /\ Fields \subseteq DOMAIN st /\ st.call = Call(p) /\ st.clean = proc[p].clean
      /\ st.base = proc[p].base /\ st.todo = rest /\ st.outcome = "running"
  BY <1>2 DEF Fields, Call, Running
<1>4. [proc[p] EXCEPT !.todo = rest, !.failed = failed] = st
  OBVIOUS
<1>5. CASE rest = <<>>
  <2>1. Return(p, st)
    BY <1>4, <1>5 DEF NextPair
  <2> HIDE DEF st
  <2> QED
    BY <1>3, <1>5, <2>1, ReturnMoves
<1>6. CASE rest # <<>>
  <2>1. proc' = [proc EXCEPT ![p] = x] /\ last' = last
    BY <1>4, <1>6 DEF NextPair
  <2> HIDE DEF st
  <2>2. /\ Fields \subseteq DOMAIN x /\ x.outcome = "running" /\ x.call = Call(p)
        /\ x.clean = proc[p].clean /\ x.pc = "window" /\ x.here = Nothing /\ x.todo = rest
        /\ x.base = proc[p].base
    BY <1>3 DEF Fields
  <2> HIDE DEF x
  <2>3. proc'[p] = x /\ DOMAIN proc' = Processes /\ \A q \in Processes \ {p} : proc'[q] = proc[q]
    BY <2>1 DEF Shaped
  <2>4. Shape(x)
    BY <1>2, <2>2 DEF Shape
  <2>5. Shaped'
    BY <2>3, <2>4 DEF Shaped
  <2> QED
    BY <1>6, <2>1, <2>2, <2>3, <2>5 DEF GoesOn, Moves
<1> QED
  BY <1>5, <1>6

(* A run that repeats the last has changed no table when it returns.       *)
Rerun(p) ==
  proc'[p].outcome = "returned" /\ proc'[p].clean =>
    \A base : proc[p].base = base /\ base # NoBase => base = tables'

(* After a failure no process that runs is undisturbed.                    *)
NobodyClean == last = NoCall /\ \A p \in Processes : ~ Clean(p)

(* A process that raises disturbs all.                                     *)
LEMMA RaiseMoves ==
  ASSUME Shaped, NEW p \in Processes, Running(p), Raise(p)
  PROVE  Shaped' /\ NobodyClean' /\ Rerun(p)
<1> DEFINE D == Disturbed(p)
           x == [[D[p] EXCEPT !.outcome = "raised"] EXCEPT !.here = Nothing]
<1>1. DOMAIN D = Processes /\ D[p] = proc[p]
  BY DEF Disturbed
<1>2. ASSUME NEW q \in Processes \ {p}
      PROVE  Shape(D[q]) /\ (D[q].outcome = "running" => ~ D[q].clean)
  <2>1. CASE Running(q)
    <3>1. Fields \subseteq DOMAIN proc[q]
      BY <2>1 DEF Shaped, Shape, Running
    <3>2. D[q] = [proc[q] EXCEPT !.clean = FALSE]
      BY <2>1 DEF Disturbed
    <3> QED
      BY <3>1, <3>2 DEF Shape, Fields
  <2>2. CASE ~ Running(q)
    <3>1. D[q] = proc[q]
      BY <2>2 DEF Disturbed
    <3> QED
      BY <2>2, <3>1 DEF Shape, Running
  <2> QED
    BY <2>1, <2>2
<1>3. x.outcome = "raised"
  BY <1>1 DEF Running, Shaped, Shape, Fields
<1> HIDE DEF D
<1>4. proc' = [D EXCEPT ![p] = x] /\ last' = NoCall
  BY <1>1 DEF Raise, D
<1> HIDE DEF x
<1>5. proc'[p] = x /\ DOMAIN proc' = Processes /\ \A q \in Processes \ {p} : proc'[q] = D[q]
  BY <1>1, <1>4
<1>6. Shaped'
  BY <1>2, <1>3, <1>5 DEF Shaped, Shape
<1>7. \A q \in Processes : proc'[q].outcome = "running" => ~ proc'[q].clean
  BY <1>2, <1>3, <1>5
<1> QED
  BY <1>3, <1>4, <1>5, <1>6, <1>7 DEF NobodyClean, Clean, Running, Rerun

(* So does one that passes over a pair it cannot write.                    *)
LEMMA WriteSkippedMoves ==
  ASSUME Shaped, NEW p \in Processes, Running(p), WriteSkipped(p)
  PROVE  Shaped' /\ NobodyClean' /\ Rerun(p)
<1> DEFINE D == Disturbed(p)
           rest == Tail(proc[p].todo)
           x == [D[p] EXCEPT !.clean = FALSE, !.here = Nothing, !.todo = rest,
                   !.failed = @ \cup {Pair(p)},
                   !.outcome = IF rest = <<>> THEN "returned" ELSE @,
                   !.pc = IF rest = <<>> THEN "end" ELSE "window"]
<1>1. DOMAIN D = Processes /\ D[p] = proc[p] /\ Fields \subseteq DOMAIN proc[p]
  BY DEF Disturbed, Shaped, Shape, Running
<1>2. ASSUME NEW q \in Processes \ {p}
      PROVE  Shape(D[q]) /\ (D[q].outcome = "running" => ~ D[q].clean)
  <2>1. CASE Running(q)
    <3>1. Fields \subseteq DOMAIN proc[q]
      BY <2>1 DEF Shaped, Shape, Running
    <3>2. D[q] = [proc[q] EXCEPT !.clean = FALSE]
      BY <2>1 DEF Disturbed
    <3> QED
      BY <3>1, <3>2 DEF Shape, Fields
  <2>2. CASE ~ Running(q)
    <3>1. D[q] = proc[q]
      BY <2>2 DEF Disturbed
    <3> QED
      BY <2>2, <3>1 DEF Shape, Running
  <2> QED
    BY <2>1, <2>2
<1>3. x.clean = FALSE /\ Fields \subseteq DOMAIN x
  BY <1>1 DEF Fields
<1> HIDE DEF D
<1>4. proc' = [D EXCEPT ![p] = x] /\ last' = NoCall
  BY <1>1 DEF WriteSkipped, D
<1> HIDE DEF x
<1>5. proc'[p] = x /\ DOMAIN proc' = Processes /\ \A q \in Processes \ {p} : proc'[q] = D[q]
  BY <1>1, <1>4
<1>6. Shaped'
  BY <1>2, <1>3, <1>5 DEF Shaped, Shape
<1>7. \A q \in Processes : proc'[q].outcome = "running" => ~ proc'[q].clean
  BY <1>2, <1>3, <1>5
<1> QED
  BY <1>3, <1>4, <1>5, <1>6, <1>7 DEF NobodyClean, Clean, Running, Rerun

(* Nobody undisturbed, nothing to show.                                    *)
LEMMA NobodyCleanRuns == NobodyClean' => RunsInv'
BY DEF NobodyClean, RunsInv, Together, LastTogether, AllStand, LastDone, AllRepeated, IsAt, Clean, Running

(* A disturbed process goes on disturbed, and so do those beside it.       *)
LEMMA DisturbedMoves ==
  ASSUME RunsInv, NEW p \in Processes, Running(p), ~ proc[p].clean,
         \/ \E pc, here, todo : GoesOn(p, pc, here, todo)
         \/ \E todo : Ends(p, todo)
  PROVE  NobodyClean' /\ Rerun(p)
<1>1. \A q \in Processes : ~ Clean(q)
  BY DEF RunsInv, Together, Clean
<1>2. last = NoCall
  BY DEF RunsInv, LastTogether, Clean
<1>3. /\ ~ proc'[p].clean \/ proc'[p].outcome # "running"
      /\ last' = NoCall /\ \A q \in Processes \ {p} : proc'[q] = proc[q]
  BY <1>2 DEF GoesOn, Ends, Moves
<1>4. ~ (proc'[p].outcome = "returned" /\ proc'[p].clean)
  BY DEF GoesOn, Ends, Moves
<1> QED
  BY <1>1, <1>3, <1>4 DEF NobodyClean, Clean, Running, Rerun

(* An undisturbed process takes a step of its call.                        *)
LEMMA CleanMoves ==
  ASSUME RunsInv, NEW p \in Processes, NEW c, NEW pc, NEW here, NEW todo,
         IsAt(p, c, pc, here, todo), Kept(c),
         NEW outcome, NEW pc2, NEW here2, NEW todo2, Moves(p, outcome, pc2, here2, todo2),
         \/ outcome = "running" /\ last' = last /\ Stands(c, pc2, here2, todo2)'
         \/ outcome = "returned" /\ last' = c /\ CallDone(c)',
         CallDone(c) /\ Alone(p) =>
           BucketWith(c, pc2, here2, todo2)' = BucketWith(c, pc, here, todo)
  PROVE  /\ RunsInv'
         /\ \A base : proc[p].base = base /\ base # NoBase => IsBase(base, c, pc2, here2, todo2)'
<1>0. /\ proc'[p].outcome = outcome /\ proc'[p].pc = pc2 /\ proc'[p].here = here2
      /\ proc'[p].todo = todo2 /\ proc'[p].call = c /\ proc'[p].clean = proc[p].clean
      /\ proc'[p].base = proc[p].base /\ proc[p].call = c /\ proc[p].clean
      /\ Clean(p) /\ Call(p) = c
      /\ \A q \in Processes \ {p} : proc'[q] = proc[q]
  BY DEF Moves, Clean, Call, IsAt
<1>1. \A q \in Processes : Running(q)' => Running(q)
  BY <1>0 DEF Running, Clean
<1>2. \A q \in Processes : Running(q)' => Clean(q) /\ Clean(q)' /\ Call(q) = c /\ Call(q)' = c
  <2>1. SUFFICES ASSUME NEW q \in Processes, Running(q)'
                 PROVE  Clean(q) /\ Clean(q)' /\ Call(q) = c /\ Call(q)' = c
    OBVIOUS
  <2>2. Running(q) /\ Clean(q) /\ Call(q) = c
    BY <1>0, <1>1, <2>1 DEF RunsInv, Together
  <2>3. CASE q = p
    BY <1>0, <2>1, <2>2, <2>3 DEF Clean, Call
  <2>4. CASE q # p
    BY <1>0, <2>1, <2>2, <2>4 DEF Clean, Call
  <2> QED
    BY <2>3, <2>4, <2>2
<1>3. Together' /\ LastTogether'
  <2>1. last' \in {NoCall, c}
    BY <1>0 DEF RunsInv, LastTogether, Clean
  <2> QED
    BY <1>2, <2>1 DEF Together, LastTogether, Clean
<1>4. AllStand'
  <2>1. SUFFICES ASSUME NEW q \in Processes, NEW d, NEW y, NEW h, NEW t, IsAt(q, d, y, h, t)'
                 PROVE  Stands(d, y, h, t)'
    BY DEF AllStand
  <2>2. CASE q = p
    <3>1. outcome = "running" /\ d = c /\ y = pc2 /\ h = here2 /\ t = todo2
      BY <1>0, <2>1, <2>2 DEF Clean, Running, IsAt, Call, Here
    <3> QED
      BY <3>1
  <2>3. CASE q # p
    <3>1. IsAt(q, d, y, h, t) /\ d = c
      BY <1>0, <1>2, <2>1, <2>3 DEF Clean, Here, IsAt, Call, Running
    <3>2. Stands(d, y, h, t) /\ Kept(d)
      BY <3>1 DEF RunsInv, AllStand
    <3> QED
      BY <3>2, KeptStands
  <2> QED
    BY <2>2, <2>3
<1>5. LastDone'
  <2>1. SUFFICES ASSUME NEW d, last' = d, d # NoCall PROVE CallDone(d)'
    BY DEF LastDone
  <2>2. CASE last' = last
    <3>1. d = c /\ CallDone(d)
      BY <1>0, <2>1, <2>2 DEF RunsInv, LastTogether, LastDone, Clean
    <3> QED
      BY <3>1, KeptDone
  <2>3. CASE last' = c /\ CallDone(c)'
    BY <2>1, <2>3
  <2> QED
    BY <2>2, <2>3
<1>6. ASSUME NEW base, proc[p].base = base, base # NoBase
      PROVE  Alone(p) /\ CallDone(c)' /\ IsBase(base, c, pc2, here2, todo2)'
  <2>1. Alone(p) /\ CallDone(c) /\ IsBase(base, c, pc, here, todo)
    BY <1>6 DEF RunsInv, AllRepeated
  <2>2. CallDone(c)' /\ UNCHANGED imports /\ calendar_iso' = calendar_iso
    BY <2>1, KeptDone
  <2>3. BucketWith(c, pc2, here2, todo2)' = BucketWith(c, pc, here, todo)
    BY <2>1
  <2>4. IsBase(base, c, pc2, here2, todo2)'
    BY <2>1, <2>2, <2>3 DEF IsBase, imports
  <2> QED
    BY <2>1, <2>2, <2>4
<1>7. AllRepeated'
  <2>1. SUFFICES ASSUME NEW q \in Processes, NEW d, NEW y, NEW h, NEW t, NEW base,
                        IsAt(q, d, y, h, t)', proc'[q].base = base, base # NoBase
                 PROVE  Alone(q)' /\ CallDone(d)' /\ IsBase(base, d, y, h, t)'
    BY DEF AllRepeated
  <2>2. CASE q = p
    <3>1. d = c /\ y = pc2 /\ h = here2 /\ t = todo2 /\ proc[p].base = base
      BY <1>0, <2>1, <2>2 DEF IsAt, Call, Here
    <3>2. Alone(p) /\ CallDone(c)' /\ IsBase(base, c, pc2, here2, todo2)'
      BY <1>6, <2>1, <3>1
    <3>3. Alone(p)'
      BY <1>1, <3>2 DEF Alone
    <3> QED
      BY <2>2, <3>1, <3>2, <3>3
  <2>3. CASE q # p
    <3>1. IsAt(q, d, y, h, t) /\ proc[q].base = base
      BY <1>0, <1>2, <2>1, <2>3 DEF Clean, Here, IsAt, Call, Running
    <3>2. Alone(q)
      BY <2>1, <3>1 DEF RunsInv, AllRepeated
    <3> QED
      BY <1>0, <2>3, <3>2 DEF Alone, Clean
  <2> QED
    BY <2>2, <2>3
<1> QED
  BY <1>3, <1>4, <1>5, <1>6, <1>7 DEF RunsInv

(* A step that goes on, and one that ends the run.                         *)
SameBucket(p, c, pc, here, todo, pc2, here2, todo2) ==
  CallDone(c) /\ Alone(p) =>
    BucketWith(c, pc2, here2, todo2)' = BucketWith(c, pc, here, todo)

StepOf(p, pc2, here2, todo2) ==
  \A c, pc, here, todo : IsAt(p, c, pc, here, todo) =>
    /\ Kept(c) /\ Stands(c, pc2, here2, todo2)'
    /\ SameBucket(p, c, pc, here, todo, pc2, here2, todo2)

LastStepOf(p, todo2) ==
  \A c, pc, here, todo : IsAt(p, c, pc, here, todo) =>
    /\ Kept(c) /\ CallDone(c)'
    /\ SameBucket(p, c, pc, here, todo, "end", Nothing, todo2)

(* A step of its call keeps the invariant.                                 *)
LEMMA StepGoesOn ==
  ASSUME RunsInv, NEW p \in Processes, Running(p), NEW pc2, NEW here2, NEW todo2,
         GoesOn(p, pc2, here2, todo2), StepOf(p, pc2, here2, todo2)
  PROVE  RunsInv' /\ Rerun(p)
<1>1. CASE ~ proc[p].clean
  BY <1>1, DisturbedMoves, NobodyCleanRuns
<1>2. CASE proc[p].clean
  <2>1. PICK c, pc, here, todo : IsAt(p, c, pc, here, todo)
    BY <1>2 DEF IsAt, Clean
  <2>2. Kept(c) /\ Stands(c, pc2, here2, todo2)'
        /\ SameBucket(p, c, pc, here, todo, pc2, here2, todo2)
    BY <2>1 DEF StepOf
  <2>3. Moves(p, "running", pc2, here2, todo2) /\ last' = last
    BY DEF GoesOn
  <2>4. RunsInv'
    BY <2>1, <2>2, <2>3, CleanMoves DEF SameBucket
  <2>5. proc'[p].outcome = "running"
    BY <2>3 DEF Moves
  <2> QED
    BY <2>4, <2>5 DEF Rerun
<1> QED
  BY <1>1, <1>2

(* So does the last one.                                                   *)
LEMMA StepEnds ==
  ASSUME RunsInv, NEW p \in Processes, Running(p), NEW todo2,
         Ends(p, todo2), LastStepOf(p, todo2)
  PROVE  RunsInv' /\ Rerun(p)
<1>1. CASE ~ proc[p].clean
  BY <1>1, DisturbedMoves, NobodyCleanRuns
<1>2. CASE proc[p].clean
  <2>1. PICK c, pc, here, todo : IsAt(p, c, pc, here, todo)
    BY <1>2 DEF IsAt, Clean
  <2>2. Kept(c) /\ CallDone(c)' /\ SameBucket(p, c, pc, here, todo, "end", Nothing, todo2)
    BY <2>1 DEF LastStepOf
  <2>3. Moves(p, "returned", "end", Nothing, todo2) /\ last' = c
    BY <1>2, <2>1 DEF Ends, IsAt
  <2>4. RunsInv' /\ \A base : proc[p].base = base /\ base # NoBase => IsBase(base, c, "end", Nothing, todo2)'
    BY <2>1, <2>2, <2>3, CleanMoves DEF SameBucket
  <2>5. ASSUME NEW base, IsBase(base, c, "end", Nothing, todo2)' PROVE base = tables'
    BY <2>5 DEF IsBase, BucketWith, tables
  <2> QED
    BY <2>4, <2>5 DEF Rerun
<1> QED
  BY <1>1, <1>2

(* Where no table is written what the calls have done is left.             *)
LEMMA QuietKept ==
  ASSUME UNCHANGED tables, \A layer, pair : Pending(layer, pair) => Pending(layer, pair)', NEW c
  PROVE  Kept(c)
<1>1. UNCHANGED imports /\ calendar_iso' = calendar_iso /\ lot_bucket' = lot_bucket
      /\ UNCHANGED <<scenario, lot_size>>
  BY DEF tables, imports
<1>2. (\A layer, pair : RowsOf(c, layer, pair)' = RowsOf(c, layer, pair))
      /\ (\A pair : Plannable(c, pair)' = Plannable(c, pair))
  BY <1>1, SamePlan
<1>3. \A layer, pair : PairSlice(c.scenario, layer, pair)' = PairSlice(c.scenario, layer, pair)
  BY <1>1 DEF PairSlice
<1>4. \A layer, pair : NoneOlder(c, layer, pair)' = NoneOlder(c, layer, pair)
  BY <1>2, <1>3 DEF NoneOlder
<1>5. \A layer, pair : Finished(c, layer, pair) => Finished(c, layer, pair)'
  BY <1>2, <1>3, <1>4 DEF Finished
<1> QED
  BY <1>1, <1>4, <1>5 DEF Kept

(* Whoever is about to insert rows is so still after a step of another.    *)
LEMMA StillPending ==
  ASSUME NEW p \in Processes, ~ At(p, "insert"),
         \A q \in Processes \ {p} : proc'[q] = proc[q]
  PROVE  \A layer, pair : Pending(layer, pair) => Pending(layer, pair)'
BY DEF Pending, At, Running, Pair, Here

(* A step that writes no table.                                            *)
LEMMA QuietStep ==
  ASSUME RunsInv, NEW p \in Processes, Running(p), NEW pc2, NEW here2, NEW todo2,
         UNCHANGED tables, proc[p].pc # "insert", pc2 # "insert",
         GoesOn(p, pc2, here2, todo2),
         \A c, pc, here, todo : IsAt(p, c, pc, here, todo) => Stands(c, pc2, here2, todo2)
  PROVE  RunsInv' /\ Rerun(p)
<1>1. \A layer, pair : Pending(layer, pair) => Pending(layer, pair)'
  BY StillPending DEF GoesOn, Moves, At
<1>2. ASSUME NEW c, NEW pc, NEW here, NEW todo, IsAt(p, c, pc, here, todo)
      PROVE  /\ Kept(c) /\ Stands(c, pc2, here2, todo2)'
             /\ SameBucket(p, c, pc, here, todo, pc2, here2, todo2)
  <2>1. Kept(c)
    BY <1>1, QuietKept
  <2>2. Stands(c, pc2, here2, todo2)'
    BY <1>2, <2>1, KeptStands
  <2>3. pc # "insert" /\ lot_bucket' = lot_bucket
    BY <1>2 DEF IsAt, tables
  <2> QED
    BY <2>1, <2>2, <2>3 DEF SameBucket, BucketWith
<1> QED
  BY <1>2, StepGoesOn DEF StepOf

(* The last step of a run that writes no table.                            *)
LEMMA QuietEnd ==
  ASSUME RunsInv, NEW p \in Processes, Running(p), NEW todo2,
         UNCHANGED tables, proc[p].pc # "insert", Ends(p, todo2),
         \A c, pc, here, todo : IsAt(p, c, pc, here, todo) => CallDone(c)
  PROVE  RunsInv' /\ Rerun(p)
<1>1. \A layer, pair : Pending(layer, pair) => Pending(layer, pair)'
  BY StillPending DEF Ends, Moves, At
<1>2. ASSUME NEW c, NEW pc, NEW here, NEW todo, IsAt(p, c, pc, here, todo)
      PROVE  /\ Kept(c) /\ CallDone(c)'
             /\ SameBucket(p, c, pc, here, todo, "end", Nothing, todo2)
  <2>1. Kept(c)
    BY <1>1, QuietKept
  <2>2. CallDone(c)'
    BY <1>2, <2>1, KeptDone
  <2>3. pc # "insert" /\ lot_bucket' = lot_bucket
    BY <1>2 DEF IsAt, tables
  <2> QED
    BY <2>1, <2>2, <2>3 DEF SameBucket, BucketWith
<1> QED
  BY <1>2, StepEnds DEF LastStepOf

-----------------------------------------------------------------------------
(* Starting a run keeps the invariant, and no other run ends.              *)
LEMMA StartRuns ==
  ASSUME Shaped, RunsInv, NEW p \in Processes, Start(p)
  PROVE  Shaped' /\ RunsInv' /\ \A q \in Processes : q # p /\ Running(q) => Running(q)'
<1> DEFINE others == {q \in Processes : Running(q)}
           New(call, same, base) ==
             [outcome |-> "running", call |-> call, clean |-> same,
              pc |-> IF call.csv = NoCsv THEN "bounds" ELSE "ensure", here |-> Nothing,
              todo |-> <<>>, failed |-> {}, base |-> base]
           Same(call) == \A q \in others : Call(q) = call /\ proc[q].clean
           Began(call) == IF others = {} /\ last = call THEN tables ELSE NoBase
           Left(call, q) ==
             IF q \in others THEN [proc[q] EXCEPT !.clean = @ /\ Call(q) = call, !.base = NoBase]
             ELSE proc[q]
<1>1. PICK call \in Calls :
        proc' = [q \in Processes |-> IF q = p THEN New(call, Same(call), Began(call))
                                     ELSE Left(call, q)]
  BY DEF Start
<1>2. ~ Running(p) /\ last' = NoCall /\ UNCHANGED tables
  BY DEF Start
<1>3. PICK same, base : same = Same(call) /\ base = Began(call)
  OBVIOUS
<1>4. same \in BOOLEAN
  BY <1>3
<1>5. DOMAIN proc' = Processes /\ proc'[p] = New(call, same, base)
      /\ \A q \in Processes \ {p} : proc'[q] = Left(call, q)
  BY <1>1, <1>3
<1>6. /\ proc'[p].outcome = "running" /\ proc'[p].call = call /\ proc'[p].clean = same
      /\ proc'[p].pc = (IF call.csv = NoCsv THEN "bounds" ELSE "ensure")
      /\ proc'[p].here = Nothing /\ proc'[p].todo = <<>> /\ proc'[p].base = base
      /\ Shape(proc'[p])
  <2> DEFINE x == New(call, same, base)
  <2>1. /\ x.outcome = "running" /\ x.call = call /\ x.clean = same
        /\ x.pc = (IF call.csv = NoCsv THEN "bounds" ELSE "ensure")
        /\ x.here = Nothing /\ x.todo = <<>> /\ x.base = base
    OBVIOUS
  <2>2. DOMAIN x = Fields
    BY DEF Fields
  <2> HIDE DEF x
  <2>3. Shape(x)
    BY <1>4, <2>1, <2>2 DEF Shape
  <2> QED
    BY <1>5, <2>1, <2>3 DEF x
<1>7. ASSUME NEW q \in Processes \ {p}
      PROVE  /\ Shape(proc'[q])
             /\ Running(q)' <=> Running(q)
             /\ Running(q) => /\ proc'[q].call = proc[q].call /\ proc'[q].pc = proc[q].pc
                              /\ proc'[q].here = proc[q].here /\ proc'[q].todo = proc[q].todo
                              /\ proc'[q].clean = (proc[q].clean /\ Call(q) = call)
                              /\ proc'[q].base = NoBase
  <2>1. CASE Running(q)
    <3>1. Fields \subseteq DOMAIN proc[q] /\ proc[q].clean \in BOOLEAN
      BY <2>1 DEF Shaped, Shape, Running
    <3>2. PICK clean : clean = (proc[q].clean /\ Call(q) = call) /\ clean \in BOOLEAN
      BY <3>1
    <3>3. proc'[q] = [[proc[q] EXCEPT !.clean = clean] EXCEPT !.base = NoBase]
      BY <1>5, <2>1, <3>1, <3>2 DEF Fields
    <3> QED
      BY <2>1, <3>1, <3>2, <3>3 DEF Shape, Running, Fields
  <2>2. CASE ~ Running(q)
    <3>1. proc'[q] = proc[q]
      BY <1>5, <2>2
    <3> QED
      BY <2>2, <3>1 DEF Shape, Running
  <2> QED
    BY <2>1, <2>2
<1> HIDE DEF New, Left
<1>8. Shaped'
  BY <1>5, <1>6, <1>7 DEF Shaped
<1>9. \A layer, pair : Pending(layer, pair) => Pending(layer, pair)'
  BY <1>2, <1>6, <1>7 DEF Pending, At, Running, Pair, Here
<1>10. \A c : Kept(c)
  BY <1>2, <1>9, QuietKept
<1>11. ASSUME NEW q \in Processes, Clean(q)'
       PROVE  same /\ Call(q)' = call /\ \A r \in Processes \ {p} : Running(r) => Clean(r) /\ Call(r) = call
  <2>1. CASE q = p
    <3>1. same
      BY <1>6, <1>11, <2>1 DEF Clean
    <3> QED
      BY <1>3, <1>6, <2>1, <3>1 DEF Clean, Call
  <2>2. CASE q # p
    <3>1. Clean(q) /\ Call(q) = call
      BY <1>7, <1>11, <2>2 DEF Clean
    <3>2. \A r \in Processes : Running(r) => Clean(r) /\ Call(r) = call
      BY <3>1 DEF RunsInv, Together
    <3>3. same
      BY <1>3, <3>2 DEF Clean
    <3> QED
      BY <1>7, <3>1, <3>2, <3>3, <2>2 DEF Call, Clean
  <2> QED
    BY <2>1, <2>2
<1>12. Together'
  <2>1. SUFFICES ASSUME NEW q \in Processes, NEW r \in Processes, Clean(q)', Running(r)'
                 PROVE  Clean(r)' /\ Call(r)' = Call(q)'
    BY DEF Together
  <2>2. same /\ Call(q)' = call /\ \A s \in Processes \ {p} : Running(s) => Clean(s) /\ Call(s) = call
    BY <1>11, <2>1
  <2>3. CASE r = p
    BY <1>6, <2>1, <2>2, <2>3 DEF Clean, Call
  <2>4. CASE r # p
    BY <1>7, <2>1, <2>2, <2>4 DEF Clean, Call
  <2> QED
    BY <2>3, <2>4
<1>13. LastTogether' /\ LastDone'
  BY <1>2 DEF LastTogether, LastDone
<1>14. AllStand'
  <2>1. SUFFICES ASSUME NEW q \in Processes, NEW d, NEW y, NEW h, NEW t, IsAt(q, d, y, h, t)'
                 PROVE  Stands(d, y, h, t)'
    BY DEF AllStand
  <2>2. CASE q = p
    <3>1. d = call /\ y = (IF call.csv = NoCsv THEN "bounds" ELSE "ensure")
      BY <1>6, <2>1, <2>2 DEF IsAt, Call
    <3>2. CASE call.csv = NoCsv
      <4>1. call.mode # "etl"
        BY <3>2, CallsAssumption
      <4> QED
        BY <3>1, <3>2, <4>1 DEF Stands, StandsAtCalendar, Imported
    <3>3. CASE call.csv # NoCsv
      BY <3>1, <3>3 DEF Stands, StandsInImport, Importing
    <3> QED
      BY <3>2, <3>3
  <2>3. CASE q # p
    <3>1. IsAt(q, d, y, h, t)
      BY <1>7, <2>1, <2>3 DEF IsAt, Clean, Call, Here
    <3>2. Stands(d, y, h, t) /\ Kept(d)
      BY <1>10, <3>1 DEF RunsInv, AllStand
    <3> QED
      BY <3>2, KeptStands
  <2> QED
    BY <2>2, <2>3
<1>15. AllRepeated'
  <2>1. SUFFICES ASSUME NEW q \in Processes, NEW d, NEW y, NEW h, NEW t, NEW b,
                        IsAt(q, d, y, h, t)', proc'[q].base = b, b # NoBase
                 PROVE  Alone(q)' /\ CallDone(d)' /\ IsBase(b, d, y, h, t)'
    BY DEF AllRepeated
  <2>2. q = p /\ d = call /\ b = base /\ y # "insert"
    <3>1. q = p
      BY <1>7, <2>1 DEF IsAt, Clean
    <3> QED
      BY <1>6, <2>1, <3>1 DEF IsAt, Call
  <2>3. others = {} /\ last = call /\ b = tables
    BY <1>3, <2>1, <2>2
  <2>4. CallDone(d)
    <3>1. call # NoCall
      BY CallsAssumption DEF NoCall
    <3> QED
      BY <2>2, <2>3, <3>1 DEF RunsInv, LastDone
  <2>5. CallDone(d)'
    BY <1>10, <2>4, KeptDone
  <2>6. Alone(q)'
    BY <1>7, <2>2, <2>3 DEF Alone
  <2>7. IsBase(b, d, y, h, t)'
    BY <1>2, <2>2, <2>3 DEF IsBase, BucketWith, tables
  <2> QED
    BY <2>5, <2>6, <2>7
<1> QED
  BY <1>7, <1>8, <1>12, <1>13, <1>14, <1>15 DEF RunsInv

-----------------------------------------------------------------------------
(* The steps of the import.                                                *)

IsDict(f) == f = [x \in DOMAIN f |-> f[x]]

TablesInv ==
  IsDict(scenario) /\ IsDict(lot_size) /\ IsDict(lot) /\ YearByYear(calendar_iso)

(* An update with what is there changes nothing.                           *)
LEMMA UpdatedWithSame ==
  ASSUME NEW d, NEW e, IsDict(d), \A x \in DOMAIN e : x \in DOMAIN d /\ d[x] = e[x]
  PROVE  Updated(d, e) = d
BY DEF Updated, IsDict

(* What an update holds.                                                   *)
LEMMA UpdatedHas ==
  ASSUME NEW d, NEW e
  PROVE  /\ IsDict(Updated(d, e)) /\ DOMAIN Updated(d, e) = DOMAIN d \cup DOMAIN e
         /\ \A x \in DOMAIN e : Updated(d, e)[x] = e[x]
BY DEF Updated, IsDict

(* What an undisturbed process of the import has done.                     *)
LEMMA ImportingStands ==
  ASSUME RunsInv, NEW p \in Processes, NEW c, NEW pc, NEW here, NEW todo,
         IsAt(p, c, pc, here, todo), pc \in Importing
  PROVE  StandsInImport(c, pc, here)
<1>1. Stands(c, pc, here, todo)
  BY DEF RunsInv, AllStand
<1> QED
  BY <1>1 DEF Stands, Importing, Planning

(* The look at the scenario's name.                                        *)
LEMMA EnsureScenarioRuns ==
  ASSUME Shaped, RunsInv, NEW p \in Processes, EnsureScenario(p)
  PROVE  Shaped' /\ RunsInv' /\ Rerun(p)
<1>1. Running(p) /\ proc[p].pc = "ensure" /\ UNCHANGED tables
  BY DEF EnsureScenario, At
<1>2. PICK here : Goto(p, "stage", here)
  BY DEF EnsureScenario
<1>3. GoesOn(p, "stage", here, proc[p].todo) /\ Shaped'
  BY <1>1, <1>2, GotoMoves
<1>4. ASSUME NEW c, NEW pc, NEW h, NEW t, IsAt(p, c, pc, h, t)
      PROVE  Stands(c, "stage", here, proc[p].todo)
  <2>1. StandsInImport(c, pc, h)
    BY <1>1, <1>4, ImportingStands DEF IsAt, Importing
  <2> QED
    BY <2>1 DEF Stands, StandsInImport, Importing
<1> QED
  BY <1>1, <1>3, <1>4, QuietStep

(* The first transaction, the first time and again.                        *)
LEMMA StageStages ==
  ASSUME IsDict(scenario), IsDict(lot_size), NEW c,
         scenario' = Updated(scenario, [s \in {c.scenario} |-> compute_plan_bounds(c.csv)]),
         lot_size' = Updated(lot_size, Sizes(c))
  PROVE  Staged(c)' /\ (Staged(c) => scenario' = scenario /\ lot_size' = lot_size)
<1> DEFINE b == compute_plan_bounds(c.csv)
           one == [s \in {c.scenario} |-> b]
           sizes == Sizes(c)
<1>1. DOMAIN sizes = CsvPairs(c)
      /\ \A x \in CsvPairs(c) :
           /\ c.lot_size # NoSize => sizes[x] = SizeRead(c.lot_size)
           /\ c.lot_size = NoSize /\ x \in DOMAIN lot_size => sizes[x] = lot_size[x]
  BY DEF Sizes
<1>2. DOMAIN one = {c.scenario} /\ one[c.scenario] = b
  OBVIOUS
<1> HIDE DEF sizes, one, b
<1>3. scenario' = Updated(scenario, one) /\ lot_size' = Updated(lot_size, sizes)
  BY DEF sizes, one, b
<1>4. c.scenario \in DOMAIN scenario' /\ scenario'[c.scenario] = b
  <2>1. PICK d, e : d = scenario /\ e = one
    OBVIOUS
  <2>2. DOMAIN Updated(d, e) = DOMAIN d \cup DOMAIN e /\ \A x \in DOMAIN e : Updated(d, e)[x] = e[x]
    BY UpdatedHas
  <2>3. scenario' = Updated(d, e)
    BY <1>3, <2>1
  <2>4. c.scenario \in DOMAIN e /\ e[c.scenario] = b
    BY <1>2, <2>1
  <2>5. PICK s : s = c.scenario
    OBVIOUS
  <2>6. s \in DOMAIN Updated(d, e) /\ Updated(d, e)[s] = b
    BY <2>2, <2>4, <2>5
  <2> QED
    BY <2>3, <2>5, <2>6
<1>5. CsvPairs(c) \subseteq DOMAIN lot_size' /\ \A x \in CsvPairs(c) : lot_size'[x] = sizes[x]
  <2>1. PICK d, e : d = lot_size /\ e = sizes
    OBVIOUS
  <2>2. DOMAIN Updated(d, e) = DOMAIN d \cup DOMAIN e /\ \A x \in DOMAIN e : Updated(d, e)[x] = e[x]
    BY UpdatedHas
  <2>3. lot_size' = Updated(d, e)
    BY <1>3, <2>1
  <2> QED
    BY <1>1, <2>1, <2>2, <2>3
<1>6. Staged(c)'
  BY <1>1, <1>4, <1>5 DEF Staged, CsvPairs, Keys, b
<1>7. ASSUME Staged(c) PROVE scenario' = scenario /\ lot_size' = lot_size
  <2>1. \A s \in DOMAIN one : s \in DOMAIN scenario /\ scenario[s] = one[s]
    BY <1>2, <1>7 DEF Staged, b
  <2>2. \A x \in DOMAIN sizes : x \in DOMAIN lot_size /\ lot_size[x] = sizes[x]
    BY <1>1, <1>7 DEF Staged
  <2> QED
    BY <1>3, <2>1, <2>2, UpdatedWithSame
<1> QED
  BY <1>6, <1>7

(* The first transaction of a run.                                         *)
LEMMA StageRuns ==
  ASSUME Shaped, RunsInv, TablesInv, NEW p \in Processes, Stage(p)
  PROVE  Shaped' /\ RunsInv' /\ Rerun(p)
<1>0. PICK todo : todo = proc[p].todo
  OBVIOUS
<1>1. /\ Running(p) /\ proc[p].pc = "stage" /\ Goto(p, "convert", Nothing)
      /\ UNCHANGED <<weekly_demand, lot, calendar_iso, lot_bucket>>
  BY DEF Stage, At
<1>2. GoesOn(p, "convert", Nothing, todo) /\ Shaped'
  BY <1>0, <1>1, GotoMoves
<1>3. ASSUME NEW c, NEW pc, NEW h, NEW t, IsAt(p, c, pc, h, t)
      PROVE  /\ Kept(c) /\ Stands(c, "convert", Nothing, todo)'
             /\ SameBucket(p, c, pc, h, t, "convert", Nothing, todo)
  <2>1. StandsInImport(c, pc, h)
    BY <1>1, <1>3, ImportingStands DEF IsAt, Importing
  <2>2. Staged(c)' /\ (Staged(c) => scenario' = scenario /\ lot_size' = lot_size)
    BY <1>3, StageStages DEF Stage, IsAt, TablesInv
  <2>3. Kept(c)
    <3>1. CASE Staged(c)
      <4>1. UNCHANGED tables
        BY <1>1, <2>2, <3>1 DEF tables
      <4>2. \A layer, pair : Pending(layer, pair) => Pending(layer, pair)'
        BY <1>1, <1>2, StillPending DEF GoesOn, Moves, At
      <4> QED
        BY <4>1, <4>2, QuietKept
    <3>2. CASE ~ Staged(c)
      BY <1>1, <2>1, <3>2 DEF Kept, StandsInImport, Settled, Imported, Saved
    <3> QED
      BY <3>1, <3>2
  <2>5. Stands(c, "convert", Nothing, todo)'
    BY <2>1, <2>2 DEF Stands, StandsInImport, Importing
  <2>6. BucketWith(c, "convert", Nothing, todo)' = BucketWith(c, pc, h, t)
    BY <1>1, <1>3 DEF BucketWith, IsAt
  <2> QED
    BY <2>3, <2>5, <2>6 DEF SameBucket
<1> QED
  BY <1>1, <1>2, <1>3, StepGoesOn DEF StepOf

(* The counting of the lots.                                               *)
LEMMA ConvertRuns ==
  ASSUME Shaped, RunsInv, NEW p \in Processes, Convert(p)
  PROVE  Shaped' /\ RunsInv' /\ Rerun(p)
<1>1. Running(p) /\ proc[p].pc = "convert" /\ UNCHANGED tables
  BY DEF Convert, At
<1>2. PICK here : Goto(p, "save", here) /\ here = [count |-> Counts(Call(p))]
  BY DEF Convert, Counts
<1>3. GoesOn(p, "save", here, proc[p].todo) /\ Shaped'
  BY <1>1, <1>2, GotoMoves
<1>4. ASSUME NEW c, NEW pc, NEW h, NEW t, IsAt(p, c, pc, h, t)
      PROVE  Stands(c, "save", here, proc[p].todo)
  <2>1. StandsInImport(c, pc, h) /\ pc = "convert" /\ Call(p) = c
    BY <1>1, <1>4, ImportingStands DEF IsAt, Importing
  <2>2. here.count = Counts(c)
    BY <1>2, <2>1
  <2> QED
    BY <2>1, <2>2 DEF Stands, StandsInImport, Importing
<1> QED
  BY <1>1, <1>3, <1>4, QuietStep

(* The second transaction, the first time and again.                       *)
LEMMA SaveSaves ==
  ASSUME IsDict(lot), NEW c, Staged(c), UNCHANGED <<scenario, lot_size>>,
         weekly_demand' = weekly_demand \cup Demanded(c),
         lot' = Updated(lot, LotRows(c, Counts(c)))
  PROVE  Saved(c)' /\ (Saved(c) => weekly_demand' = weekly_demand /\ lot' = lot)
<1> DEFINE rows == LotRows(c, Counts(c))
<1>1. Counts(c)' = Counts(c) /\ Staged(c)'
  BY SameImport
<1>2. LotRows(c, Counts(c))' = rows
  BY <1>1 DEF LotRows
<1>3. HasRows(LotRows(c, Counts(c)))'
  <2> HIDE DEF rows
  <2>1. \A id \in DOMAIN rows : id \in DOMAIN lot' /\ lot'[id] = rows[id]
    BY UpdatedHas DEF rows
  <2> QED
    BY <1>2, <2>1 DEF HasRows
<1>4. Demanded(c)' \subseteq weekly_demand'
  BY DEF Demanded, Keys
<1>5. Saved(c)'
  BY <1>1, <1>3, <1>4 DEF Saved
<1>6. ASSUME Saved(c) PROVE weekly_demand' = weekly_demand /\ lot' = lot
  BY <1>6, UpdatedWithSame DEF Saved, HasRows
<1> QED
  BY <1>5, <1>6

(* The second transaction of a run.                                        *)
LEMMA SaveLotsRuns ==
  ASSUME Shaped, RunsInv, TablesInv, NEW p \in Processes, SaveLots(p)
  PROVE  Shaped' /\ RunsInv' /\ Rerun(p)
<1>0. PICK todo : todo = proc[p].todo
  OBVIOUS
<1>1. /\ Running(p) /\ proc[p].pc = "save"
      /\ UNCHANGED <<scenario, lot_size, calendar_iso, lot_bucket>>
  BY DEF SaveLots, At
<1>2. ASSUME \A q \in Processes \ {p} : proc'[q] = proc[q],
             NEW c, NEW pc, NEW h, NEW t, IsAt(p, c, pc, h, t)
      PROVE  /\ Kept(c) /\ Saved(c)' /\ c.csv # NoCsv
             /\ \A pc2, h2, t2 : pc2 # "insert" => SameBucket(p, c, pc, h, t, pc2, h2, t2)
  <2>1. StandsInImport(c, pc, h) /\ pc = "save" /\ Call(p) = c /\ Here(p) = h
    BY <1>1, <1>2, ImportingStands DEF IsAt, Importing
  <2>2. Staged(c) /\ h.count = Counts(c) /\ c.csv # NoCsv
    BY <2>1 DEF StandsInImport
  <2>3. /\ weekly_demand' = weekly_demand \cup Demanded(c)
        /\ lot' = Updated(lot, LotRows(c, Counts(c)))
    BY <2>1, <2>2 DEF SaveLots
  <2>4. Saved(c)' /\ (Saved(c) => weekly_demand' = weekly_demand /\ lot' = lot)
    BY <1>1, <2>2, <2>3, SaveSaves DEF TablesInv
  <2>5. Kept(c)
    <3>1. CASE Saved(c)
      <4>1. UNCHANGED tables
        BY <1>1, <2>4, <3>1 DEF tables
      <4>2. \A layer, pair : Pending(layer, pair) => Pending(layer, pair)'
        BY <1>1, <1>2, StillPending DEF At
      <4> QED
        BY <4>1, <4>2, QuietKept
    <3>2. CASE ~ Saved(c)
      BY <1>1, <2>2, <3>2 DEF Kept, Settled, Imported
    <3> QED
      BY <3>1, <3>2
  <2>6. \A pc2, h2, t2 : pc2 # "insert" => BucketWith(c, pc2, h2, t2)' = BucketWith(c, pc, h, t)
    BY <1>1, <2>1 DEF BucketWith
  <2> QED
    BY <2>2, <2>4, <2>5, <2>6 DEF SameBucket
<1>3. CASE Call(p).mode = "etl"
  <2>1. Return(p, proc[p])
    BY <1>3 DEF SaveLots, AfterImport
  <2>2. Ends(p, todo) /\ Shaped'
    BY <1>0, <1>1, <2>1, ReturnMoves DEF Shaped, Shape, Running, Call
  <2>3. \A q \in Processes \ {p} : proc'[q] = proc[q]
    BY <2>2 DEF Ends, Moves
  <2>4. ASSUME NEW c, NEW pc, NEW h, NEW t, IsAt(p, c, pc, h, t)
        PROVE  /\ Kept(c) /\ CallDone(c)'
               /\ SameBucket(p, c, pc, h, t, "end", Nothing, todo)
    <3>1. Kept(c) /\ Saved(c)' /\ c.csv # NoCsv /\ c.mode = "etl"
      BY <1>2, <1>3, <2>3, <2>4 DEF IsAt
    <3>2. SameBucket(p, c, pc, h, t, "end", Nothing, todo)
      BY <1>2, <2>3, <2>4
    <3> QED
      BY <3>1, <3>2 DEF CallDone, Imported
  <2> QED
    BY <1>1, <2>2, <2>4, StepEnds DEF LastStepOf
<1>4. CASE Call(p).mode # "etl"
  <2>1. Goto(p, "bounds", Nothing)
    BY <1>4 DEF SaveLots, AfterImport
  <2>2. GoesOn(p, "bounds", Nothing, todo) /\ Shaped'
    BY <1>0, <1>1, <2>1, GotoMoves
  <2>3. \A q \in Processes \ {p} : proc'[q] = proc[q]
    BY <2>2 DEF GoesOn, Moves
  <2>4. ASSUME NEW c, NEW pc, NEW h, NEW t, IsAt(p, c, pc, h, t)
        PROVE  /\ Kept(c) /\ Stands(c, "bounds", Nothing, todo)'
               /\ SameBucket(p, c, pc, h, t, "bounds", Nothing, todo)
    <3>1. Kept(c) /\ Saved(c)' /\ c.csv # NoCsv /\ c.mode # "etl"
      BY <1>2, <1>4, <2>3, <2>4 DEF IsAt
    <3>2. SameBucket(p, c, pc, h, t, "bounds", Nothing, todo)
      BY <1>2, <2>3, <2>4
    <3>4. Stands(c, "bounds", Nothing, todo)'
      BY <3>1 DEF Stands, StandsAtCalendar, Imported
    <3> QED
      BY <3>1, <3>2, <3>4
  <2> QED
    BY <1>1, <2>2, <2>4, StepGoesOn DEF StepOf
<1> QED
  BY <1>3, <1>4

-----------------------------------------------------------------------------
(* The steps before the pairs.                                             *)

(* What an undisturbed process at the calendar has done.                   *)
LEMMA CalendarStands ==
  ASSUME RunsInv, NEW p \in Processes, NEW c, NEW pc, NEW here, NEW todo,
         IsAt(p, c, pc, here, todo), pc \in {"bounds", "calendar", "rebuild"}
  PROVE  StandsAtCalendar(c, pc, here)
<1>1. Stands(c, pc, here, todo)
  BY DEF RunsInv, AllStand
<1> QED
  BY <1>1 DEF Stands, Importing, Planning

(* The reading of the bounds.                                              *)
LEMMA ReadPlanBoundsRuns ==
  ASSUME Shaped, RunsInv, NEW p \in Processes, ReadPlanBounds(p)
  PROVE  Shaped' /\ RunsInv' /\ Rerun(p)
<1>0. PICK todo : todo = proc[p].todo
  OBVIOUS
<1>1. Running(p) /\ proc[p].pc = "bounds" /\ UNCHANGED tables
  BY DEF ReadPlanBounds, At
<1>2. ASSUME NEW c, NEW pc, NEW h, NEW t, IsAt(p, c, pc, h, t)
      PROVE  StandsAtCalendar(c, "bounds", h) /\ Call(p) = c
  <2>1. pc = "bounds" /\ Call(p) = c
    BY <1>1, <1>2 DEF IsAt
  <2> QED
    BY <1>2, <2>1, CalendarStands
<1>3. CASE Call(p).skip_calendar
  <2>1. Goto(p, "pairs", Nothing)
    BY <1>3 DEF ReadPlanBounds
  <2>2. GoesOn(p, "pairs", Nothing, todo) /\ Shaped'
    BY <1>0, <1>1, <2>1, GotoMoves
  <2>3. ASSUME NEW c, NEW pc, NEW h, NEW t, IsAt(p, c, pc, h, t)
        PROVE  Stands(c, "pairs", Nothing, todo)
    BY <1>2, <1>3, <2>3 DEF Stands, StandsAtCalendar, Settled
  <2> QED
    BY <1>1, <2>2, <2>3, QuietStep
<1>4. CASE ~ Call(p).skip_calendar
  <2>1. PICK here : Goto(p, "calendar", here) /\ here = [want |-> PlanBounds(Call(p))]
    BY <1>4 DEF ReadPlanBounds
  <2>2. GoesOn(p, "calendar", here, todo) /\ Shaped'
    BY <1>0, <1>1, <2>1, GotoMoves
  <2>3. ASSUME NEW c, NEW pc, NEW h, NEW t, IsAt(p, c, pc, h, t)
        PROVE  Stands(c, "calendar", here, todo)
    <3>1. StandsAtCalendar(c, "bounds", h) /\ Call(p) = c
      BY <1>2, <2>3
    <3>2. here.want = PlanBounds(c) /\ ~ c.skip_calendar
      BY <1>4, <2>1, <3>1
    <3> QED
      BY <3>1, <3>2 DEF Stands, StandsAtCalendar
  <2> QED
    BY <1>1, <2>2, <2>3, QuietStep
<1> QED
  BY <1>3, <1>4

(* The look at the calendar's length.                                      *)
LEMMA EnsureCalendarRuns ==
  ASSUME Shaped, RunsInv, NEW p \in Processes, ensure_calendar_iso(p)
  PROVE  Shaped' /\ RunsInv' /\ Rerun(p)
<1>0. PICK todo, here : todo = proc[p].todo /\ here = Here(p)
  OBVIOUS
<1>1. Running(p) /\ proc[p].pc = "calendar" /\ UNCHANGED tables
  BY DEF ensure_calendar_iso, At
<1>2. ASSUME NEW c, NEW pc, NEW h, NEW t, IsAt(p, c, pc, h, t)
      PROVE  StandsAtCalendar(c, "calendar", here)
  <2>1. pc = "calendar" /\ h = here
    BY <1>0, <1>1, <1>2 DEF IsAt
  <2> QED
    BY <1>2, <2>1, CalendarStands
<1>3. CASE Len(calendar_iso) # Len(_generate_calendar_rows(here.want))
  <2>1. Goto(p, "rebuild", here)
    BY <1>0, <1>3 DEF ensure_calendar_iso
  <2>2. GoesOn(p, "rebuild", here, todo) /\ Shaped'
    BY <1>0, <1>1, <2>1, GotoMoves
  <2>3. ASSUME NEW c, NEW pc, NEW h, NEW t, IsAt(p, c, pc, h, t)
        PROVE  Stands(c, "rebuild", here, todo)
    <3>1. StandsAtCalendar(c, "calendar", here)
      BY <1>2, <2>3
    <3> QED
      BY <1>3, <3>1 DEF Stands, StandsAtCalendar
  <2> QED
    BY <1>1, <2>2, <2>3, QuietStep
<1>4. CASE Len(calendar_iso) = Len(_generate_calendar_rows(here.want))
  <2>1. Goto(p, "pairs", Nothing)
    BY <1>0, <1>4 DEF ensure_calendar_iso
  <2>2. GoesOn(p, "pairs", Nothing, todo) /\ Shaped'
    BY <1>0, <1>1, <2>1, GotoMoves
  <2>3. ASSUME NEW c, NEW pc, NEW h, NEW t, IsAt(p, c, pc, h, t)
        PROVE  Stands(c, "pairs", Nothing, todo)
    <3>1. StandsAtCalendar(c, "calendar", here)
      BY <1>2, <2>3
    <3> QED
      BY <1>4, <3>1 DEF Stands, StandsAtCalendar, Settled
  <2> QED
    BY <1>1, <2>2, <2>3, QuietStep
<1> QED
  BY <1>3, <1>4

(* The calendar made anew, as it was or for a first time.                  *)
LEMMA RebuildRuns ==
  ASSUME Shaped, RunsInv, NEW p \in Processes, rebuild_calendar_iso(p)
  PROVE  Shaped' /\ RunsInv' /\ Rerun(p)
<1>0. PICK todo, here : todo = proc[p].todo /\ here = Here(p)
  OBVIOUS
<1>1. /\ Running(p) /\ proc[p].pc = "rebuild" /\ Goto(p, "pairs", Nothing)
      /\ calendar_iso' = _generate_calendar_rows(here.want)
      /\ UNCHANGED imports /\ UNCHANGED <<scenario, lot_size>> /\ lot_bucket' = lot_bucket
  BY <1>0 DEF rebuild_calendar_iso, At, imports
<1>2. GoesOn(p, "pairs", Nothing, todo) /\ Shaped'
  BY <1>0, <1>1, GotoMoves
<1>3. ASSUME NEW c, NEW pc, NEW h, NEW t, IsAt(p, c, pc, h, t)
      PROVE  /\ Kept(c) /\ Stands(c, "pairs", Nothing, todo)'
             /\ SameBucket(p, c, pc, h, t, "pairs", Nothing, todo)
  <2>0. pc = "rebuild" /\ h = here
    BY <1>0, <1>1, <1>3 DEF IsAt
  <2>1. StandsAtCalendar(c, "rebuild", here)
    BY <1>3, <2>0, CalendarStands
  <2>2. here.want = PlanBounds(c) /\ ~ c.skip_calendar /\ c.mode # "etl" /\ Imported(c)
    BY <2>1 DEF StandsAtCalendar
  <2>3. calendar_iso' = _generate_calendar_rows(PlanBounds(c))
    BY <1>1, <2>2
  <2>4. Kept(c)
    <3>1. CASE Settled(c)
      <4>1. calendar_iso' = calendar_iso
        BY <2>1, <2>2, <2>3, <3>1 DEF StandsAtCalendar, Settled
      <4>2. UNCHANGED tables
        BY <1>1, <4>1 DEF tables, imports
      <4>3. \A layer, pair : Pending(layer, pair) => Pending(layer, pair)'
        BY <1>1, <1>2, StillPending DEF GoesOn, Moves, At
      <4> QED
        BY <4>2, <4>3, QuietKept
    <3>2. CASE ~ Settled(c)
      BY <1>1, <2>2, <2>3, <3>2 DEF Kept
    <3> QED
      BY <3>1, <3>2
  <2>5. Settled(c)'
    <3>1. Imported(c)' /\ PlanBounds(c)' = PlanBounds(c)
      BY <1>1, <2>2, SameImport, SameImported
    <3>2. \A b : _generate_calendar_rows(b)' = _generate_calendar_rows(b)
      BY DEF _generate_calendar_rows
    <3> QED
      BY <2>2, <2>3, <3>1, <3>2 DEF Settled
  <2>6. SameBucket(p, c, pc, h, t, "pairs", Nothing, todo)
    BY <1>1, <2>0 DEF SameBucket, BucketWith
  <2> QED
    BY <2>4, <2>5, <2>6 DEF Stands
<1> QED
  BY <1>1, <1>2, <1>3, StepGoesOn DEF StepOf

(* The pairs of a plan are a list.                                         *)
LEMMA PairsAreListed ==
  ASSUME NEW c
  PROVE  PairsOf(c) \in Seq(PlanPairs(c))
<1> DEFINE X == Range(Pairs) \cup {c.fallback}
           Test(pair) == /\ pair \in {r.pair : r \in {r \in weekly_demand : r.scenario = c.scenario}}
                         /\ c.mode = "tree" => pair \in c.network
           places == {i \in DOMAIN Pairs : Test(Pairs[i])}
           planned == Picked(Pairs, places)
<1>1. PairsOf(c) = IF c.mode = "tree" /\ planned = <<>> THEN <<c.fallback>> ELSE planned
  BY DEF PairsOf, Filtered
<1> HIDE DEF Test
<1>2. places \in SUBSET (1 .. Len(Pairs)) /\ Pairs \in Seq(X)
  BY PairsAssumption
<1> HIDE DEF places, X
<1>3. planned \in Seq(X)
  BY <1>2, PickedInOrder
<1>4. <<c.fallback>> \in Seq(X)
  BY DEF X
<1> HIDE DEF planned
<1>5. PairsOf(c) \in Seq(X)
  BY <1>1, <1>3, <1>4
<1>6. PICK s \in Seq(X) : s = PairsOf(c)
  BY <1>5
<1>7. s \in Seq(Range(s))
  BY DEF Range
<1> QED
  BY <1>6, <1>7 DEF PlanPairs

(* The reading of the pairs.                                               *)
LEMMA ReadPairsRuns ==
  ASSUME Shaped, RunsInv, NEW p \in Processes, ReadPairs(p)
  PROVE  Shaped' /\ RunsInv' /\ Rerun(p)
<1>1. Running(p) /\ proc[p].pc = "pairs" /\ UNCHANGED tables
  BY DEF ReadPairs, At
<1>2. CASE Call(p).scenario \notin DOMAIN scenario
  <2>1. Raise(p)
    BY <1>2 DEF ReadPairs
  <2> QED
    BY <1>1, <2>1, RaiseMoves, NobodyCleanRuns
<1>3. CASE Call(p).scenario \in DOMAIN scenario
  <2>1. PICK rest : rest = PairsOf(Call(p)) /\ NextPair(p, rest, {})
    BY <1>3 DEF ReadPairs
  <2>2. ASSUME NEW c, NEW pc, NEW h, NEW t, IsAt(p, c, pc, h, t)
        PROVE  /\ Settled(c) /\ c.scenario \in DOMAIN scenario /\ rest = PairsOf(c)
               /\ rest \in Seq(PlanPairs(c)) /\ Planned(c, PlanPairs(c) \ Range(rest))
    <3>1. pc = "pairs" /\ Call(p) = c
      BY <1>1, <2>2 DEF IsAt
    <3>2. Stands(c, pc, h, t)
      BY <2>2 DEF RunsInv, AllStand
    <3>3. Settled(c)
      BY <3>1, <3>2 DEF Stands, Importing, Planning
    <3>4. rest = PairsOf(c) /\ c.scenario \in DOMAIN scenario
      BY <1>3, <2>1, <3>1
    <3>5. Planned(c, PlanPairs(c) \ Range(rest))
      BY <3>4 DEF Planned, PlanPairs
    <3> QED
      BY <3>3, <3>4, <3>5, PairsAreListed
  <2>3. CASE rest = <<>>
    <3>1. Ends(p, rest) /\ Shaped'
      BY <1>1, <2>1, <2>3, NextPairMoves
    <3>2. ASSUME NEW c, NEW pc, NEW h, NEW t, IsAt(p, c, pc, h, t) PROVE CallDone(c)
      <4>1. Range(rest) = {}
        BY <2>3 DEF Range
      <4>2. Planned(c, PlanPairs(c))
        BY <2>2, <3>2, <4>1
      <4> QED
        BY <2>2, <3>2, <4>2 DEF CallDone, Settled
    <3> QED
      BY <1>1, <3>1, <3>2, QuietEnd
  <2>4. CASE rest # <<>>
    <3>1. GoesOn(p, "window", Nothing, rest) /\ Shaped'
      BY <1>1, <2>1, <2>4, NextPairMoves
    <3>2. ASSUME NEW c, NEW pc, NEW h, NEW t, IsAt(p, c, pc, h, t)
          PROVE  Stands(c, "window", Nothing, rest)
      BY <2>2, <2>4, <3>2 DEF Stands, StandsInPlan, Planning, Writing
    <3> QED
      BY <1>1, <3>1, <3>2, QuietStep
  <2> QED
    BY <2>3, <2>4
<1> QED
  BY <1>2, <1>3

-----------------------------------------------------------------------------
(* The steps of a pair.                                                    *)

(* What an undisturbed process at a pair has done.                         *)
LEMMA PlanStands ==
  ASSUME RunsInv, NEW p \in Processes, NEW c, NEW pc, NEW here, NEW todo,
         IsAt(p, c, pc, here, todo), pc \in Planning
  PROVE  StandsInPlan(c, pc, here, todo)
<1>1. Stands(c, pc, here, todo)
  BY DEF RunsInv, AllStand
<1> QED
  BY <1>1 DEF Stands, Importing, Planning

(* A list is its first member and the others.                              *)
LEMMA HeadAndTail ==
  ASSUME NEW X, NEW s \in Seq(X), s # <<>>
  PROVE  Head(s) \in X /\ Tail(s) \in Seq(X) /\ Range(s) = {Head(s)} \cup Range(Tail(s))
<1>1. Len(s) \in Nat \ {0} /\ Head(s) = s[1] /\ Tail(s) \in Seq(X) /\ Len(Tail(s)) = Len(s) - 1
      /\ \A i \in 1 .. Len(s) - 1 : Tail(s)[i] = s[i + 1]
  OBVIOUS
<1> DEFINE t == Tail(s)
           n == Len(s)
<1>2. \A i \in 1 .. n : i = 1 \/ (i - 1 \in 1 .. n - 1 /\ s[i] = t[i - 1])
  BY <1>1
<1>3. \A i \in 1 .. n - 1 : i + 1 \in 1 .. n /\ t[i] = s[i + 1]
  BY <1>1
<1>4. DOMAIN s = 1 .. n /\ DOMAIN t = 1 .. n - 1 /\ 1 \in 1 .. n
  BY <1>1
<1> HIDE DEF t, n
<1>5. Range(s) \subseteq {s[1]} \cup Range(t)
  BY <1>2, <1>4 DEF Range
<1>6. {s[1]} \cup Range(t) \subseteq Range(s)
  BY <1>3, <1>4 DEF Range
<1>7. Head(s) \in X
  BY <1>1
<1> QED
  BY <1>1, <1>5, <1>6, <1>7 DEF t

(* The reading of the scenario's years.                                    *)
LEMMA ReadWindowRuns ==
  ASSUME Shaped, RunsInv, NEW p \in Processes, ReadWindow(p)
  PROVE  Shaped' /\ RunsInv' /\ Rerun(p)
<1>0. PICK todo : todo = proc[p].todo
  OBVIOUS
<1>1. Running(p) /\ proc[p].pc = "window" /\ UNCHANGED tables
  BY DEF ReadWindow, At
<1>2. PICK here : Goto(p, "map", here) /\ here = [window |-> scenario[Call(p).scenario]]
  BY DEF ReadWindow
<1>3. GoesOn(p, "map", here, todo) /\ Shaped'
  BY <1>0, <1>1, <1>2, GotoMoves
<1>4. ASSUME NEW c, NEW pc, NEW h, NEW t, IsAt(p, c, pc, h, t) PROVE Stands(c, "map", here, todo)
  <2>1. Call(p) = c /\ t = todo /\ pc = "window"
    BY <1>0, <1>1, <1>4 DEF IsAt
  <2>2. StandsInPlan(c, pc, h, todo)
    BY <1>4, <2>1, PlanStands DEF Planning
  <2>3. here.window = scenario[c.scenario]
    BY <1>2, <2>1
  <2> QED
    BY <2>2, <2>3 DEF Stands, StandsInPlan, Planning, Writing
<1> QED
  BY <1>1, <1>3, <1>4, QuietStep

(* The map of the scenario's weeks is that of its window.                  *)
LEMMA WindowIsMapped ==
  ASSUME WellFormed, YearByYear(calendar_iso), NEW s \in DOMAIN scenario
  PROVE  {w \in ToSet(calendar_iso) : scenario[s].st <= w[1]
             /\ w[1] <= scenario[s].st + scenario[s].range - 1} = Window(s)
<1>1. scenario[s].st \in Nat /\ scenario[s].range \in Nat
  BY DEF WellFormed, Covered
<1>2. \A w \in ToSet(calendar_iso) : w[1] \in Nat
  BY WeeksInAssumption DEF WellFormed, IsCalendar, IsoWeeks
<1> QED
  BY <1>1, <1>2 DEF Window

(* The map of the scenario's weeks.                                        *)
LEMMA MapRuns ==
  ASSUME Shaped, RunsInv, TypeInv, YearByYear(calendar_iso),
         NEW p \in Processes, calendar_map_for_scenario(p)
  PROVE  Shaped' /\ RunsInv' /\ Rerun(p)
<1>0. PICK todo : todo = proc[p].todo
  OBVIOUS
<1>1. Running(p) /\ proc[p].pc = "map" /\ UNCHANGED tables
  BY DEF calendar_map_for_scenario, At
<1>2. PICK map : /\ map = WeekMap({w \in ToSet(calendar_iso) : Here(p).window.st <= w[1]
                              /\ w[1] <= Here(p).window.st + Here(p).window.range - 1})
                 /\ IF map = <<>> THEN Goto(p, "whole", Nothing) ELSE Goto(p, "lots", [map |-> map])
  BY DEF calendar_map_for_scenario
<1>3. ASSUME NEW c, NEW pc, NEW h, NEW t, IsAt(p, c, pc, h, t)
      PROVE  StandsInPlan(c, "map", h, todo) /\ map = WeekMap(Window(c.scenario))
  <2>1. Here(p) = h /\ t = todo /\ pc = "map"
    BY <1>0, <1>1, <1>3 DEF IsAt
  <2>2. StandsInPlan(c, "map", h, todo)
    BY <1>3, <2>1, PlanStands DEF Planning
  <2>3. h.window = scenario[c.scenario] /\ c.scenario \in DOMAIN scenario
    BY <2>2 DEF StandsInPlan
  <2>4. {w \in ToSet(calendar_iso) : h.window.st <= w[1] /\ w[1] <= h.window.st + h.window.range - 1}
          = Window(c.scenario)
    BY <2>3, WindowIsMapped DEF TypeInv
  <2> QED
    BY <1>2, <2>1, <2>2, <2>4
<1>4. CASE map = <<>>
  <2>1. GoesOn(p, "whole", Nothing, todo) /\ Shaped'
    BY <1>0, <1>1, <1>2, <1>4, GotoMoves
  <2>2. ASSUME NEW c, NEW pc, NEW h, NEW t, IsAt(p, c, pc, h, t)
        PROVE  Stands(c, "whole", Nothing, todo)
    BY <1>3, <1>4, <2>2 DEF Stands, StandsInPlan, Planning, Writing
  <2> QED
    BY <1>1, <2>1, <2>2, QuietStep
<1>5. CASE map # <<>>
  <2>0. PICK here : here = [map |-> map]
    OBVIOUS
  <2>1. GoesOn(p, "lots", here, todo) /\ Shaped'
    BY <1>0, <1>1, <1>2, <1>5, <2>0, GotoMoves
  <2>2. ASSUME NEW c, NEW pc, NEW h, NEW t, IsAt(p, c, pc, h, t)
        PROVE  Stands(c, "lots", here, todo)
    <3>1. here.map = MapOf(c)
      BY <1>3, <1>5, <2>0, <2>2 DEF MapOf
    <3> QED
      BY <1>3, <2>2, <3>1 DEF Stands, StandsInPlan, Planning, Writing
  <2> QED
    BY <1>1, <2>1, <2>2, QuietStep
<1> QED
  BY <1>4, <1>5

(* The map of all weeks.                                                   *)
LEMMA WholeRuns ==
  ASSUME Shaped, RunsInv, NEW p \in Processes, ReadWholeCalendar(p)
  PROVE  Shaped' /\ RunsInv' /\ Rerun(p)
<1>0. PICK todo : todo = proc[p].todo
  OBVIOUS
<1>1. Running(p) /\ proc[p].pc = "whole" /\ UNCHANGED tables
  BY DEF ReadWholeCalendar, At
<1>2. PICK here : Goto(p, "lots", here) /\ here = [map |-> WeekMap(ToSet(calendar_iso))]
  BY DEF ReadWholeCalendar
<1>3. GoesOn(p, "lots", here, todo) /\ Shaped'
  BY <1>0, <1>1, <1>2, GotoMoves
<1>4. ASSUME NEW c, NEW pc, NEW h, NEW t, IsAt(p, c, pc, h, t) PROVE Stands(c, "lots", here, todo)
  <2>1. t = todo /\ pc = "whole"
    BY <1>0, <1>1, <1>4 DEF IsAt
  <2>2. StandsInPlan(c, pc, h, todo)
    BY <1>4, <2>1, PlanStands DEF Planning
  <2>3. here.map = MapOf(c)
    BY <1>2, <2>1, <2>2 DEF StandsInPlan, MapOf
  <2> QED
    BY <2>2, <2>3 DEF Stands, StandsInPlan, Planning, Writing
<1> QED
  BY <1>1, <1>3, <1>4, QuietStep

(* The loading of a pair's lots.                                           *)
LEMMA LoadLeafRuns ==
  ASSUME Shaped, RunsInv, NEW p \in Processes, LoadLeaf(p)
  PROVE  Shaped' /\ RunsInv' /\ Rerun(p)
<1>0. PICK todo, S : todo = proc[p].todo /\ S = Injected(Call(p).scenario, Pair(p), Here(p).map)
  OBVIOUS
<1>1. Running(p) /\ proc[p].pc = "lots" /\ UNCHANGED tables /\ ~ Unplannable(p)
  BY DEF LoadLeaf, At
<1>2. PICK here : /\ Goto(p, "count", here)
                  /\ here = [layer |-> "demand", demand |-> calcS2P(S), supply |-> S]
  BY <1>0 DEF LoadLeaf
<1>3. GoesOn(p, "count", here, todo) /\ Shaped'
  BY <1>0, <1>1, <1>2, GotoMoves
<1>4. ASSUME NEW c, NEW pc, NEW h, NEW t, IsAt(p, c, pc, h, t) PROVE Stands(c, "count", here, todo)
  <2>1. Call(p) = c /\ Here(p) = h /\ t = todo /\ pc = "lots" /\ Pair(p) = Head(todo)
    BY <1>0, <1>1, <1>4 DEF IsAt, Pair
  <2>2. StandsInPlan(c, pc, h, todo)
    BY <1>4, <2>1, PlanStands DEF Planning
  <2>3. h.map = MapOf(c)
    BY <2>1, <2>2 DEF StandsInPlan
  <2>4. Plannable(c, Head(todo))
    BY <1>1, <2>1, <2>3 DEF Unplannable, At, Plannable
  <2>5. S = LotsPlanned(c, Head(todo))
    BY <1>0, <2>1, <2>3 DEF LotsPlanned
  <2>6. here.layer = "demand" /\ here.demand = calcS2P(S) /\ here.supply = S
    BY <1>2
  <2>7. Prepared(c, "count", here, Head(todo))
    BY <2>4, <2>5, <2>6 DEF Prepared
  <2> QED
    BY <2>2, <2>7 DEF Stands, StandsInPlan, Planning, Writing
<1> QED
  BY <1>1, <1>3, <1>4, QuietStep

(* The counting of the weeks.                                              *)
LEMMA CountWeeksRuns ==
  ASSUME Shaped, RunsInv, TypeInv, NEW p \in Processes, CountWeeks(p)
  PROVE  Shaped' /\ RunsInv' /\ Rerun(p)
<1>0. PICK todo, old : todo = proc[p].todo /\ old = Here(p)
  OBVIOUS
<1>1. Running(p) /\ proc[p].pc = "count" /\ UNCHANGED tables
  BY DEF CountWeeks, At
<1>2. PICK here : Goto(p, "delete", here) /\ here = Updated(old, [weeks |-> Len(calendar_iso)])
  BY <1>0 DEF CountWeeks
<1>3. GoesOn(p, "delete", here, todo) /\ Shaped'
  BY <1>0, <1>1, <1>2, GotoMoves
<1>4. {"layer", "supply", old.layer} \subseteq DOMAIN old
  BY <1>0, <1>1 DEF TypeInv, AllHold, Holds, Fits, Listed, Running, Here
<1>5. /\ here.weeks = Len(calendar_iso) /\ here.layer = old.layer /\ here.supply = old.supply
      /\ old.layer = "demand" => here.demand = old.demand
  BY <1>2, <1>4 DEF Updated
<1>6. ASSUME NEW c, NEW pc, NEW h, NEW t, IsAt(p, c, pc, h, t) PROVE Stands(c, "delete", here, todo)
  <2>1. t = todo /\ pc = "count" /\ h = old
    BY <1>0, <1>1, <1>6 DEF IsAt
  <2>2. StandsInPlan(c, pc, old, todo)
    BY <1>6, <2>1, PlanStands DEF Planning
  <2>3. Prepared(c, "count", old, Head(todo))
    BY <2>1, <2>2 DEF StandsInPlan, Writing
  <2>4. Prepared(c, "delete", here, Head(todo))
    BY <1>5, <2>3 DEF Prepared
  <2> QED
    BY <2>2, <2>4 DEF Stands, StandsInPlan, Planning, Writing
<1> QED
  BY <1>1, <1>3, <1>6, QuietStep

(* On to the next pair, or to the end, with the first one done.            *)
LEMMA OneMoreDone ==
  ASSUME NEW c, NEW todo, todo \in Seq(PlanPairs(c)), todo # <<>>,
         Planned(c, PlanPairs(c) \ Range(todo)),
         Finished(c, "demand", Head(todo)), Finished(c, "supply", Head(todo)),
         Settled(c), c.scenario \in DOMAIN scenario
  PROVE  /\ Tail(todo) = <<>> => CallDone(c)
         /\ Tail(todo) # <<>> => Stands(c, "window", Nothing, Tail(todo))
<1>1. Tail(todo) \in Seq(PlanPairs(c)) /\ Range(todo) = {Head(todo)} \cup Range(Tail(todo))
  BY HeadAndTail
<1>2. Planned(c, PlanPairs(c) \ Range(Tail(todo)))
  BY <1>1 DEF Planned
<1>3. Tail(todo) = <<>> => CallDone(c)
  <2>1. Tail(todo) = <<>> => Range(Tail(todo)) = {}
    BY DEF Range
  <2>2. Tail(todo) = <<>> => Planned(c, PlanPairs(c))
    BY <1>2, <2>1
  <2> QED
    BY <2>2 DEF CallDone, Settled
<1>4. Tail(todo) # <<>> => Stands(c, "window", Nothing, Tail(todo))
  BY <1>1, <1>2 DEF Stands, StandsInPlan, Planning, Writing
<1> QED
  BY <1>3, <1>4

(* A pair that cannot be planned, passed over.                             *)
LEMMA PairSkippedRuns ==
  ASSUME Shaped, RunsInv, NEW p \in Processes, PairSkipped(p)
  PROVE  Shaped' /\ RunsInv' /\ Rerun(p)
<1>0. PICK todo, rest : todo = proc[p].todo /\ rest = Tail(todo)
  OBVIOUS
<1>1. /\ Running(p) /\ proc[p].pc = "lots" /\ UNCHANGED tables /\ Unplannable(p)
      /\ NextPair(p, rest, proc[p].failed \cup {Pair(p)})
  BY <1>0 DEF PairSkipped, Unplannable, At
<1>2. ASSUME NEW c, NEW pc, NEW h, NEW t, IsAt(p, c, pc, h, t)
      PROVE  /\ rest = <<>> => CallDone(c)
             /\ rest # <<>> => Stands(c, "window", Nothing, rest)
  <2>1. Call(p) = c /\ Here(p) = h /\ t = todo /\ pc = "lots" /\ Pair(p) = Head(todo)
    BY <1>0, <1>1, <1>2 DEF IsAt, Pair
  <2>2. StandsInPlan(c, pc, h, todo)
    BY <1>2, <2>1, PlanStands DEF Planning
  <2>3. h.map = MapOf(c)
    BY <2>1, <2>2 DEF StandsInPlan
  <2>4. ~ Plannable(c, Head(todo))
    BY <1>1, <2>1, <2>3 DEF Unplannable, At, Plannable
  <2>5. Finished(c, "demand", Head(todo)) /\ Finished(c, "supply", Head(todo))
    BY <2>4 DEF Finished
  <2> QED
    BY <1>0, <2>2, <2>5, OneMoreDone DEF StandsInPlan
<1>3. CASE rest = <<>>
  <2>1. Ends(p, rest) /\ Shaped'
    BY <1>1, <1>3, NextPairMoves
  <2> QED
    BY <1>1, <1>2, <1>3, <2>1, QuietEnd
<1>4. CASE rest # <<>>
  <2>1. GoesOn(p, "window", Nothing, rest) /\ Shaped'
    BY <1>1, <1>4, NextPairMoves
  <2> QED
    BY <1>1, <1>2, <1>4, <2>1, QuietStep
<1> QED
  BY <1>3, <1>4

-----------------------------------------------------------------------------
(* The writing of a layer.                                                 *)

(* What a plan puts into the weeks is within the calendar.                 *)
LEMMA IndexWithin ==
  ASSUME WellFormed, YearByYear(calendar_iso), NEW c, NEW layer, NEW pair,
         NEW r \in LayerOf(c, layer, pair)
  PROVE  r.week_index \in 0 .. Len(calendar_iso) - 1
<1> DEFINE S == LotsPlanned(c, pair)
<1>1. PICK weeks : weeks \subseteq ToSet(calendar_iso) /\ MapOf(c) = WeekMap(weeks)
  <2>1. Window(c.scenario) \subseteq ToSet(calendar_iso)
    BY DEF Window
  <2> QED
    BY <2>1 DEF MapOf
<1>2. \A w \in weeks : DOMAIN WeekMap(weeks) = weeks /\ WeekMap(weeks)[w] \in 0 .. Len(calendar_iso) - 1
  BY <1>1, IndexOfWeek DEF WellFormed
<1>3. DOMAIN WeekMap(weeks) = weeks
  BY DEF WeekMap
<1>4. \A x \in S : \E i, id : /\ x = [week_index |-> i, bucket |-> "S", lot_id |-> id]
                              /\ i \in 0 .. Len(calendar_iso) - 1
  BY <1>1, <1>2, <1>3 DEF LotsPlanned, Injected
<1>5. LayerOf(c, layer, pair) = S \/ LayerOf(c, layer, pair) = calcS2P(S)
  BY DEF LayerOf
<1> HIDE DEF S
<1>6. \A x \in calcS2P(S) : x \in S \/ \E y \in S : x = [y EXCEPT !.bucket = "P"]
  BY DEF calcS2P
<1>7. \A x \in S : x.week_index \in 0 .. Len(calendar_iso) - 1
                   /\ [x EXCEPT !.bucket = "P"].week_index = x.week_index
  BY <1>4
<1> QED
  BY <1>5, <1>6, <1>7

(* A process writes all rows of its layer.                                 *)
LEMMA BucketRowsWhole ==
  ASSUME TypeInv, YearByYear(calendar_iso), NEW p \in Processes, NEW c, NEW here, NEW todo,
         IsAt(p, c, "insert", here, todo), Prepared(c, "insert", here, Head(todo))
  PROVE  BucketRows(p) = RowsOf(c, here.layer, Head(todo))
<1>1. Call(p) = c /\ Here(p) = here /\ Pair(p) = Head(todo)
  BY DEF IsAt, Pair
<1>2. here[here.layer] = LayerOf(c, here.layer, Head(todo)) /\ here.weeks = Len(calendar_iso)
  BY DEF Prepared, LayerOf
<1>3. Len(calendar_iso) \in Nat
  BY DEF YearByYear
<1>4. PICK layer, L : layer = here.layer /\ L = LayerOf(c, here.layer, Head(todo))
  OBVIOUS
<1>5. \A r \in L : r.week_index < here.weeks
  BY <1>2, <1>3, <1>4, IndexWithin DEF TypeInv
<1>6. {r \in here[here.layer] : r.week_index < here.weeks} = L
  BY <1>2, <1>4, <1>5
<1> QED
  BY <1>1, <1>4, <1>6, Zenon DEF BucketRows, RowsOf

(* The slices after a deletion.                                            *)
LEMMA SlicesAfterDelete ==
  ASSUME NEW s, NEW layer, NEW pair, lot_bucket' = lot_bucket \ PairSlice(s, layer, pair)
  PROVE  /\ PairSlice(s, layer, pair)' = {}
         /\ \A l, x : PairSlice(s, l, x)' \subseteq PairSlice(s, l, x)
         /\ \A l, x : l # layer \/ x # pair => PairSlice(s, l, x)' = PairSlice(s, l, x)
  BY DEF PairSlice

(* The slices after an insertion.                                          *)
LEMMA SlicesAfterInsert ==
  ASSUME NEW s, NEW layer, NEW pair, NEW rows, lot_bucket' = lot_bucket \cup rows,
         \A r \in rows : r.scenario = s /\ r.layer = layer /\ r.pair = pair
  PROVE  /\ PairSlice(s, layer, pair)' = PairSlice(s, layer, pair) \cup rows
         /\ \A l, x : l # layer \/ x # pair => PairSlice(s, l, x)' = PairSlice(s, l, x)
  BY DEF PairSlice

(* The deletion of a layer's slice, which is then to be inserted.          *)
LEMMA DeleteSliceRuns ==
  ASSUME Shaped, RunsInv, NEW p \in Processes, DeleteSlice(p)
  PROVE  Shaped' /\ RunsInv' /\ Rerun(p)
<1>0. PICK todo, here, pair, layer :
        todo = proc[p].todo /\ here = Here(p) /\ pair = Head(todo) /\ layer = here.layer
  OBVIOUS
<1>1. /\ Running(p) /\ proc[p].pc = "delete" /\ UNCHANGED <<imports, calendar_iso>>
      /\ lot_bucket' = lot_bucket \ PairSlice(Call(p).scenario, layer, pair)
      /\ Goto(p, "insert", here)
  BY <1>0 DEF DeleteSlice, At, imports, Pair
<1>2. GoesOn(p, "insert", here, todo) /\ Shaped'
  BY <1>0, <1>1, GotoMoves
<1>3. Pending(layer, pair)'
  <2>1. proc'[p].outcome = "running" /\ proc'[p].pc = "insert" /\ proc'[p].here = here
        /\ proc'[p].todo = todo
    BY <1>2 DEF GoesOn, Moves
  <2> QED
    BY <1>0, <2>1 DEF Pending, At, Running, Pair, Here
<1>4. \A l, x : Pending(l, x) => Pending(l, x)'
  BY <1>1, <1>2, StillPending DEF At, GoesOn, Moves
<1>5. ASSUME NEW c, NEW pc, NEW h, NEW t, IsAt(p, c, pc, h, t)
      PROVE  /\ Kept(c) /\ Stands(c, "insert", here, todo)'
             /\ SameBucket(p, c, pc, h, t, "insert", here, todo)
  <2>1. Call(p) = c /\ t = todo /\ pc = "delete" /\ h = here
    BY <1>0, <1>1, <1>5 DEF IsAt
  <2>2. StandsInPlan(c, "delete", here, todo)
    BY <1>5, <2>1, PlanStands DEF Planning
  <2>3. Prepared(c, "delete", here, pair) /\ Settled(c)
    BY <1>0, <2>2 DEF StandsInPlan, Writing
  <2>4. /\ PairSlice(c.scenario, layer, pair)' = {}
        /\ \A l, x : PairSlice(c.scenario, l, x)' \subseteq PairSlice(c.scenario, l, x)
        /\ \A l, x : l # layer \/ x # pair =>
             PairSlice(c.scenario, l, x)' = PairSlice(c.scenario, l, x)
    BY <1>1, <2>1, SlicesAfterDelete
  <2>5. \A l, x : RowsOf(c, l, x)' = RowsOf(c, l, x) /\ Plannable(c, x)' = Plannable(c, x)
    BY <1>1, SamePlan
  <2>6. \A l, x : NoneOlder(c, l, x) => NoneOlder(c, l, x)'
    BY <2>4, <2>5 DEF NoneOlder
  <2>7. NoneOlder(c, layer, pair)'
    BY <2>4 DEF NoneOlder
  <2>8. \A l, x : Plannable(c, x) /\ Finished(c, l, x) => Finished(c, l, x)'
    <3>1. SUFFICES ASSUME NEW l, NEW x, Plannable(c, x), Finished(c, l, x)
                   PROVE  Finished(c, l, x)'
      OBVIOUS
    <3>2. CASE l = layer /\ x = pair
      BY <1>3, <2>7, <3>2 DEF Finished
    <3>3. CASE l # layer \/ x # pair
      <4>1. PairSlice(c.scenario, l, x)' = PairSlice(c.scenario, l, x)
            /\ RowsOf(c, l, x)' = RowsOf(c, l, x)
        BY <2>4, <2>5, <3>3
      <4>2. Pending(l, x) => Pending(l, x)'
        BY <1>4
      <4> QED
        BY <3>1, <4>1, <4>2, <2>6 DEF Finished
    <3> QED
      BY <3>2, <3>3
  <2>9. Kept(c)
    BY <1>1, <2>6, <2>8 DEF Kept, imports
  <2>10. Stands(c, "insert", here, todo)'
    <3>1. Stands(c, "delete", here, todo)
      BY <2>2 DEF Stands, Planning
    <3>2. Stands(c, "delete", here, todo)'
      BY <2>9, <3>1, KeptStands
    <3>3. StandsInPlan(c, "delete", here, todo)'
      BY <3>2 DEF Stands, Importing
    <3>4. Prepared(c, "delete", here, pair)'
      BY <1>0, <3>3 DEF StandsInPlan, Writing
    <3>5. Prepared(c, "insert", here, pair)'
      BY <1>0, <2>7, <3>4 DEF Prepared
    <3>6. StandsInPlan(c, "insert", here, todo)'
      BY <1>0, <3>3, <3>5 DEF StandsInPlan
    <3> QED
      BY <3>6 DEF Stands, Planning
  <2>11. ASSUME CallDone(c), Alone(p)
         PROVE  BucketWith(c, "insert", here, todo)' = BucketWith(c, "delete", here, todo)
    <3>1. ~ Pending(layer, pair)
      BY <1>1, <2>11 DEF Alone, Pending, At
    <3>2. pair \in PlanPairs(c)
      BY <1>0, <2>2, HeadAndTail DEF StandsInPlan
    <3>3. Finished(c, layer, pair)
      BY <1>0, <2>3, <2>11, <3>2 DEF CallDone, Settled, Planned, Prepared
    <3>4. PairSlice(c.scenario, layer, pair) = RowsOf(c, layer, pair)
      BY <2>3, <3>1, <3>3 DEF Finished, NoneOlder, Prepared
    <3>5. PairSlice(c.scenario, layer, pair) \subseteq lot_bucket
      BY DEF PairSlice
    <3>6. lot_bucket' \cup RowsOf(c, layer, pair)' = lot_bucket
      BY <1>1, <2>1, <2>5, <3>4, <3>5
    <3> QED
      BY <1>0, <3>6 DEF BucketWith
  <2> QED
    BY <2>1, <2>9, <2>10, <2>11 DEF SameBucket
<1>6. StepOf(p, "insert", here, todo)
  BY <1>5 DEF StepOf
<1> QED
  BY <1>1, <1>2, <1>6, StepGoesOn

(* What a step makes of the first pair, done, and of the others.           *)
LEMMA OneMoreDoneNext ==
  ASSUME NEW c, NEW pairs, NEW todo, PlanPairs(c)' = pairs, todo \in Seq(pairs), todo # <<>>,
         Planned(c, pairs \ Range(todo))',
         Finished(c, "demand", Head(todo))', Finished(c, "supply", Head(todo))',
         Settled(c)', c.scenario \in DOMAIN scenario'
  PROVE  /\ Tail(todo) = <<>> => CallDone(c)'
         /\ Tail(todo) # <<>> => Stands(c, "window", Nothing, Tail(todo))'
<1>1. Tail(todo) \in Seq(pairs) /\ Range(todo) = {Head(todo)} \cup Range(Tail(todo))
  BY HeadAndTail
<1>2. Planned(c, pairs \ Range(Tail(todo)))'
  BY <1>1 DEF Planned
<1>3. Tail(todo) = <<>> => CallDone(c)'
  <2>1. Tail(todo) = <<>> => Range(Tail(todo)) = {}
    BY DEF Range
  <2>2. Tail(todo) = <<>> => Planned(c, pairs)'
    BY <1>2, <2>1 DEF Planned
  <2> QED
    BY <2>2 DEF CallDone, Settled, Planned
<1>4. Tail(todo) # <<>> => Stands(c, "window", Nothing, Tail(todo))'
  BY <1>1, <1>2 DEF Stands, StandsInPlan, Planning, Writing, Planned
<1> QED
  BY <1>3, <1>4

(* What the insertion of a layer finishes.                                 *)
LEMMA InsertRowsKept ==
  ASSUME TypeInv, RunsInv, YearByYear(calendar_iso), NEW p \in Processes, InsertRows(p),
         \A q \in Processes \ {p} : proc'[q] = proc[q],
         NEW c, NEW here, NEW todo, IsAt(p, c, "insert", here, todo)
  PROVE  /\ StandsInPlan(c, "insert", here, todo)
         /\ Prepared(c, "insert", here, Head(todo))
         /\ lot_bucket' = lot_bucket \cup RowsOf(c, here.layer, Head(todo))
         /\ Kept(c) /\ Finished(c, here.layer, Head(todo))'
<1>0. PICK pair, layer : pair = Head(todo) /\ layer = here.layer
  OBVIOUS
<1>1. UNCHANGED <<imports, calendar_iso>> /\ lot_bucket' = lot_bucket \cup BucketRows(p)
  BY DEF InsertRows, imports
<1>2. StandsInPlan(c, "insert", here, todo)
  BY PlanStands DEF Planning
<1>3. Prepared(c, "insert", here, pair) /\ Settled(c)
  BY <1>0, <1>2 DEF StandsInPlan, Writing
<1>4. lot_bucket' = lot_bucket \cup RowsOf(c, layer, pair)
  BY <1>0, <1>1, <1>3, BucketRowsWhole
<1>5. /\ PairSlice(c.scenario, layer, pair)'
            = PairSlice(c.scenario, layer, pair) \cup RowsOf(c, layer, pair)
      /\ \A l, x : l # layer \/ x # pair =>
           PairSlice(c.scenario, l, x)' = PairSlice(c.scenario, l, x)
  <2>1. PICK s, rows : s = c.scenario /\ rows = RowsOf(c, layer, pair)
    OBVIOUS
  <2>2. \A r \in rows : r.scenario = s /\ r.layer = layer /\ r.pair = pair
    BY <2>1 DEF RowsOf
  <2>3. /\ PairSlice(s, layer, pair)' = PairSlice(s, layer, pair) \cup rows
        /\ \A l, x : l # layer \/ x # pair => PairSlice(s, l, x)' = PairSlice(s, l, x)
    BY <1>4, <2>1, <2>2, SlicesAfterInsert
  <2> QED
    BY <2>1, <2>3
<1>6. \A l, x : RowsOf(c, l, x)' = RowsOf(c, l, x) /\ Plannable(c, x)' = Plannable(c, x)
  BY <1>1, SamePlan
<1>7. NoneOlder(c, layer, pair)
  BY <1>0, <1>3 DEF Prepared
<1>8. NoneOlder(c, layer, pair)'
  BY <1>5, <1>6, <1>7 DEF NoneOlder
<1>9. Finished(c, layer, pair)'
  <2>1. RowsOf(c, layer, pair)' \subseteq PairSlice(c.scenario, layer, pair)'
    BY <1>5, <1>6
  <2> QED
    BY <1>8, <2>1 DEF Finished
<1>10. \A l, x : NoneOlder(c, l, x) => NoneOlder(c, l, x)'
  <2>1. SUFFICES ASSUME NEW l, NEW x, NoneOlder(c, l, x) PROVE NoneOlder(c, l, x)'
    OBVIOUS
  <2>2. CASE l = layer /\ x = pair
    BY <1>8, <2>2
  <2>3. CASE l # layer \/ x # pair
    BY <1>5, <1>6, <2>1, <2>3 DEF NoneOlder
  <2> QED
    BY <2>2, <2>3
<1>11. \A l, x : l # layer \/ x # pair => (Pending(l, x) => Pending(l, x)')
  <2>1. SUFFICES ASSUME NEW l, NEW x, l # layer \/ x # pair, Pending(l, x) PROVE Pending(l, x)'
    OBVIOUS
  <2>2. PICK q \in Processes : At(q, "insert") /\ Pair(q) = x /\ Here(q).layer = l
    BY <2>1 DEF Pending
  <2>3. q # p
    BY <1>0, <2>1, <2>2 DEF IsAt, Pair
  <2>4. proc'[q] = proc[q]
    BY <2>3
  <2>5. At(q, "insert")' /\ Pair(q)' = x /\ Here(q)'.layer = l
    BY <2>2, <2>4 DEF At, Running, Pair, Here
  <2> QED
    BY <2>5 DEF Pending
<1>12. \A l, x : Plannable(c, x) /\ Finished(c, l, x) => Finished(c, l, x)'
  <2>1. SUFFICES ASSUME NEW l, NEW x, Plannable(c, x), Finished(c, l, x)
                 PROVE  Finished(c, l, x)'
    OBVIOUS
  <2>2. CASE l = layer /\ x = pair
    BY <1>9, <2>2
  <2>3. CASE l # layer \/ x # pair
    <3>1. PairSlice(c.scenario, l, x)' = PairSlice(c.scenario, l, x)
          /\ RowsOf(c, l, x)' = RowsOf(c, l, x)
      BY <1>5, <1>6, <2>3
    <3>2. Pending(l, x) => Pending(l, x)'
      BY <1>11, <2>3
    <3> QED
      BY <2>1, <3>1, <3>2, <1>10 DEF Finished
  <2> QED
    BY <2>2, <2>3
<1>13. Kept(c)
  BY <1>1, <1>10, <1>12 DEF Kept, imports
<1> QED
  BY <1>0, <1>2, <1>3, <1>4, <1>9, <1>13

(* The insertion of a layer's rows.                                        *)
LEMMA InsertRowsRuns ==
  ASSUME Shaped, RunsInv, TypeInv, YearByYear(calendar_iso), NEW p \in Processes, InsertRows(p)
  PROVE  Shaped' /\ RunsInv' /\ Rerun(p)
<1>0. PICK todo, here, rest : todo = proc[p].todo /\ here = Here(p) /\ rest = Tail(todo)
  OBVIOUS
<1>1. Running(p) /\ proc[p].pc = "insert"
  BY DEF InsertRows, At
<1>2. CASE here.layer = "demand"
  <2>1. PICK next : Goto(p, "count", next) /\ next = [layer |-> "supply", supply |-> here.supply]
    BY <1>0, <1>2 DEF InsertRows
  <2>2. GoesOn(p, "count", next, todo) /\ Shaped'
    BY <1>0, <1>1, <2>1, GotoMoves
  <2>3. ASSUME NEW c, NEW pc, NEW h, NEW t, IsAt(p, c, pc, h, t)
        PROVE  /\ Kept(c) /\ Stands(c, "count", next, todo)'
               /\ SameBucket(p, c, pc, h, t, "count", next, todo)
    <3>1. t = todo /\ pc = "insert" /\ h = here
      BY <1>0, <1>1, <2>3 DEF IsAt
    <3>2. /\ StandsInPlan(c, "insert", here, todo)
          /\ Prepared(c, "insert", here, Head(todo))
          /\ lot_bucket' = lot_bucket \cup RowsOf(c, here.layer, Head(todo))
          /\ Kept(c) /\ Finished(c, here.layer, Head(todo))'
      BY <2>2, <2>3, <3>1, InsertRowsKept DEF GoesOn, Moves
    <3>3. Stands(c, "insert", here, todo)
      BY <3>2 DEF Stands, Planning
    <3>4. Stands(c, "insert", here, todo)'
      BY <3>2, <3>3, KeptStands
    <3>5. StandsInPlan(c, "insert", here, todo)'
      BY <3>4 DEF Stands, Importing
    <3>6. Prepared(c, "insert", here, Head(todo))'
      BY <3>5 DEF StandsInPlan, Writing
    <3>7. Prepared(c, "count", next, Head(todo))'
      BY <1>2, <2>1, <3>2, <3>6 DEF Prepared
    <3>8. Stands(c, "count", next, todo)'
      BY <3>5, <3>7 DEF Stands, StandsInPlan, Planning
    <3>9. SameBucket(p, c, "insert", here, todo, "count", next, todo)
      BY <3>2 DEF SameBucket, BucketWith
    <3> QED
      BY <3>1, <3>2, <3>8, <3>9
  <2>4. StepOf(p, "count", next, todo)
    BY <2>3 DEF StepOf
  <2> QED
    BY <1>1, <2>2, <2>4, StepGoesOn
<1>3. CASE here.layer # "demand"
  <2>1. NextPair(p, rest, proc[p].failed)
    BY <1>0, <1>3 DEF InsertRows
  <2>2. /\ rest = <<>> => Ends(p, rest)
        /\ rest # <<>> => GoesOn(p, "window", Nothing, rest)
        /\ Shaped'
    BY <1>1, <2>1, NextPairMoves
  <2>3. ASSUME NEW c, NEW pc, NEW h, NEW t, IsAt(p, c, pc, h, t)
        PROVE  /\ Kept(c)
               /\ rest = <<>> => CallDone(c)' /\ SameBucket(p, c, pc, h, t, "end", Nothing, rest)
               /\ rest # <<>> => /\ Stands(c, "window", Nothing, rest)'
                                 /\ SameBucket(p, c, pc, h, t, "window", Nothing, rest)
    <3>1. t = todo /\ pc = "insert" /\ h = here
      BY <1>0, <1>1, <2>3 DEF IsAt
    <3>2. /\ StandsInPlan(c, "insert", here, todo)
          /\ Prepared(c, "insert", here, Head(todo))
          /\ lot_bucket' = lot_bucket \cup RowsOf(c, here.layer, Head(todo))
          /\ Kept(c) /\ Finished(c, here.layer, Head(todo))'
      BY <2>2, <2>3, <3>1, InsertRowsKept DEF GoesOn, Ends, Moves
    <3>3. here.layer = "supply" /\ Finished(c, "demand", Head(todo))
      BY <1>3, <3>2 DEF Prepared
    <3>4. /\ Settled(c) /\ c.scenario \in DOMAIN scenario
          /\ todo \in Seq(PlanPairs(c)) /\ todo # <<>>
          /\ Planned(c, PlanPairs(c) \ Range(todo))
      BY <3>2 DEF StandsInPlan
    <3>5. PICK pairs : pairs = PlanPairs(c)
      OBVIOUS
    <3>6. /\ UNCHANGED imports /\ Settled(c)' /\ PlanPairs(c)' = pairs
          /\ Finished(c, "demand", Head(todo))'
          /\ Planned(c, pairs \ Range(todo))'
      BY <3>2, <3>3, <3>4, <3>5, KeptPlan
    <3>7. c.scenario \in DOMAIN scenario'
      BY <3>4, <3>6 DEF imports
    <3>8. /\ rest = <<>> => CallDone(c)'
          /\ rest # <<>> => Stands(c, "window", Nothing, rest)'
      BY <1>0, <3>2, <3>3, <3>4, <3>5, <3>6, <3>7, OneMoreDoneNext
    <3>9. /\ SameBucket(p, c, "insert", here, todo, "end", Nothing, rest)
          /\ SameBucket(p, c, "insert", here, todo, "window", Nothing, rest)
      BY <3>2 DEF SameBucket, BucketWith
    <3> QED
      BY <3>1, <3>2, <3>8, <3>9
  <2>4. CASE rest = <<>>
    <3>1. LastStepOf(p, rest)
      BY <2>3, <2>4 DEF LastStepOf
    <3> QED
      BY <1>1, <2>2, <2>4, <3>1, StepEnds
  <2>5. CASE rest # <<>>
    <3>1. StepOf(p, "window", Nothing, rest)
      BY <2>3, <2>5 DEF StepOf
    <3> QED
      BY <1>1, <2>2, <2>5, <3>1, StepGoesOn
  <2> QED
    BY <2>4, <2>5
<1> QED
  BY <1>2, <1>3

-----------------------------------------------------------------------------
(* Every step.                                                             *)

(* Each step of a process.                                                 *)
LEMMA WorkRuns ==
  ASSUME Shaped, RunsInv, TypeInv, TablesInv, NEW p \in Processes, Work(p)
  PROVE  Shaped' /\ RunsInv' /\ Rerun(p)
<1>1. CASE StageRaises(p) \/ BoundsRaise(p) \/ PairRaises(p)
  <2>1. Running(p) /\ Raise(p)
    BY <1>1 DEF StageRaises, BoundsRaise, PairRaises, Unplannable, At
  <2> QED
    BY <2>1, RaiseMoves, NobodyCleanRuns
<1>2. CASE WriteSkipped(p)
  <2>1. Running(p)
    BY <1>2 DEF WriteSkipped, At
  <2> QED
    BY <1>2, <2>1, WriteSkippedMoves, NobodyCleanRuns
<1>3. CASE EnsureScenario(p) \/ Stage(p) \/ Convert(p) \/ SaveLots(p)
  BY <1>3, EnsureScenarioRuns, StageRuns, ConvertRuns, SaveLotsRuns
<1>4. CASE \/ ReadPlanBounds(p) \/ ensure_calendar_iso(p) \/ rebuild_calendar_iso(p)
           \/ ReadPairs(p)
  BY <1>4, ReadPlanBoundsRuns, EnsureCalendarRuns, RebuildRuns, ReadPairsRuns
<1>5. CASE \/ ReadWindow(p) \/ calendar_map_for_scenario(p) \/ ReadWholeCalendar(p)
           \/ LoadLeaf(p) \/ CountWeeks(p) \/ PairSkipped(p)
  BY <1>5, ReadWindowRuns, MapRuns, WholeRuns, LoadLeafRuns, CountWeeksRuns, PairSkippedRuns
     DEF TablesInv
<1>6. CASE DeleteSlice(p) \/ InsertRows(p)
  BY <1>6, DeleteSliceRuns, InsertRowsRuns DEF TablesInv
<1> QED
  BY <1>1, <1>2, <1>3, <1>4, <1>5, <1>6 DEF Work

(* No step spoils a table.                                                 *)
LEMMA WorkTables ==
  ASSUME TypeInv, TablesInv, NEW p \in Processes, Work(p)
  PROVE  TablesInv'
<1>1. CASE Stage(p)
  <2>1. PICK d, e : /\ scenario' = Updated(scenario, d) /\ lot_size' = Updated(lot_size, e)
                    /\ lot' = lot /\ calendar_iso' = calendar_iso
    BY <1>1, Zenon DEF Stage
  <2>2. IsDict(scenario)' /\ IsDict(lot_size)'
    BY <2>1, UpdatedHas DEF IsDict
  <2> QED
    BY <2>1, <2>2 DEF TablesInv, IsDict, YearByYear
<1>2. CASE SaveLots(p)
  <2>1. PICK d : lot' = Updated(lot, d)
    BY <1>2 DEF SaveLots
  <2>2. IsDict(lot)'
    BY <2>1, UpdatedHas DEF IsDict
  <2>3. UNCHANGED <<scenario, lot_size, calendar_iso>>
    BY <1>2 DEF SaveLots
  <2> QED
    BY <2>2, <2>3 DEF TablesInv, IsDict, YearByYear
<1>3. CASE rebuild_calendar_iso(p)
  <2>1. /\ calendar_iso' = _generate_calendar_rows(Here(p).want)
        /\ UNCHANGED <<scenario, lot_size, lot>> /\ Running(p) /\ proc[p].pc = "rebuild"
    BY <1>3 DEF rebuild_calendar_iso, At
  <2>2. Covered(Here(p).want)
    BY <2>1 DEF TypeInv, AllHold, Holds, Fits, Running, Here
  <2>3. YearByYear(calendar_iso')
    BY <2>1, <2>2, GeneratedYearByYear
  <2> QED
    BY <2>1, <2>3 DEF TablesInv, IsDict
<1>4. ASSUME UNCHANGED <<scenario, lot_size, lot, calendar_iso>> PROVE TablesInv'
  BY <1>4 DEF TablesInv, IsDict, YearByYear
<1>5. CASE \/ EnsureScenario(p) \/ StageRaises(p) \/ Convert(p) \/ ReadPlanBounds(p)
           \/ BoundsRaise(p) \/ ensure_calendar_iso(p) \/ ReadPairs(p)
  BY <1>4, <1>5 DEF EnsureScenario, StageRaises, Convert, ReadPlanBounds, BoundsRaise,
     ensure_calendar_iso, ReadPairs, tables
<1>6. CASE \/ ReadWindow(p) \/ calendar_map_for_scenario(p) \/ ReadWholeCalendar(p)
           \/ LoadLeaf(p) \/ CountWeeks(p)
  BY <1>4, <1>6 DEF ReadWindow, calendar_map_for_scenario, ReadWholeCalendar, LoadLeaf,
     CountWeeks, tables
<1>7. CASE DeleteSlice(p) \/ InsertRows(p) \/ PairRaises(p) \/ PairSkipped(p) \/ WriteSkipped(p)
  BY <1>4, <1>7 DEF DeleteSlice, InsertRows, PairRaises, PairSkipped, WriteSkipped, tables
<1> QED
  BY <1>1, <1>2, <1>3, <1>5, <1>6, <1>7 DEF Work

(* No step ends the run of another process.                                *)
LEMMA OthersRun ==
  ASSUME Shaped, RunsInv, NEW p \in Processes, Start(p) \/ Work(p) \/ Crash(p),
         NEW q \in Processes, q # p, Running(q)
  PROVE  Running(q)'
<1>1. DOMAIN proc = Processes /\ proc[q].outcome = "running" /\ "outcome" \in DOMAIN proc[q]
  BY DEF Shaped, Shape, Running, Fields
<1>2. CASE Start(p)
  BY <1>2, StartRuns
<1>3. ASSUME proc'[q] = proc[q] PROVE Running(q)'
  BY <1>1, <1>3 DEF Running
<1>4. ASSUME NEW x, proc' = [proc EXCEPT ![p] = x] PROVE proc'[q] = proc[q]
  BY <1>1, <1>4
<1>5. ASSUME proc'[q] = Disturbed(p)[q] PROVE Running(q)'
  <2>1. \/ Disturbed(p)[q] = proc[q]
        \/ \E clean : Disturbed(p)[q] = [proc[q] EXCEPT !.clean = clean]
    BY DisturbedHolds
  <2>2. \A x, clean : "outcome" \in DOMAIN x => [x EXCEPT !.clean = clean].outcome = x.outcome
    OBVIOUS
  <2> QED
    BY <1>1, <1>5, <2>1, <2>2 DEF Running
<1>6. ASSUME NEW pc, NEW here, Goto(p, pc, here) PROVE proc'[q] = proc[q]
  BY <1>1, <1>6 DEF Goto
<1>7. ASSUME NEW st, Return(p, st) PROVE proc'[q] = proc[q]
  BY <1>1, <1>7 DEF Return
<1>8. ASSUME Raise(p) PROVE proc'[q] = Disturbed(p)[q]
  <2>1. DOMAIN Disturbed(p) = Processes
    BY DEF Disturbed
  <2> QED
    BY <1>8, <2>1 DEF Raise
<1>9. ASSUME NEW rest, NEW failed, NextPair(p, rest, failed) PROVE proc'[q] = proc[q]
  <2>1. \/ \E st : Return(p, st)
        \/ \E x : proc' = [proc EXCEPT ![p] = x]
    BY <1>9, Zenon DEF NextPair
  <2> QED
    BY <1>4, <1>7, <2>1
<1>10. CASE EnsureScenario(p) \/ Stage(p) \/ Convert(p) \/ SaveLots(p) \/ ReadPlanBounds(p)
  <2>1. \/ \E pc, here : Goto(p, pc, here)
        \/ \E st : Return(p, st)
    BY <1>10, Zenon DEF EnsureScenario, Stage, Convert, SaveLots, AfterImport, ReadPlanBounds
  <2> QED
    BY <1>3, <1>6, <1>7, <2>1
<1>11. CASE StageRaises(p) \/ BoundsRaise(p) \/ PairRaises(p) \/ Crash(p)
  <2>1. Raise(p)
    BY <1>11 DEF StageRaises, BoundsRaise, PairRaises, Crash
  <2> QED
    BY <1>5, <1>8, <2>1
<1>12. CASE ensure_calendar_iso(p) \/ rebuild_calendar_iso(p) \/ ReadWindow(p)
  <2>1. \E pc, here : Goto(p, pc, here)
    BY <1>12, Zenon DEF ensure_calendar_iso, rebuild_calendar_iso, ReadWindow
  <2> QED
    BY <1>3, <1>6, <2>1
<1>13. CASE calendar_map_for_scenario(p) \/ ReadWholeCalendar(p) \/ LoadLeaf(p) \/ CountWeeks(p)
            \/ DeleteSlice(p)
  <2>1. \E pc, here : Goto(p, pc, here)
    BY <1>13, Zenon DEF calendar_map_for_scenario, ReadWholeCalendar, LoadLeaf, CountWeeks,
       DeleteSlice
  <2> QED
    BY <1>3, <1>6, <2>1
<1>14. CASE ReadPairs(p) \/ InsertRows(p) \/ PairSkipped(p)
  <2>1. \/ \E pc, here : Goto(p, pc, here)
        \/ \E rest, failed : NextPair(p, rest, failed)
        \/ Raise(p)
    BY <1>14, Zenon DEF ReadPairs, InsertRows, PairSkipped
  <2> QED
    BY <1>3, <1>5, <1>6, <1>8, <1>9, <2>1
<1>15. CASE WriteSkipped(p)
  <2>1. DOMAIN Disturbed(p) = Processes
    BY DEF Disturbed
  <2>2. proc'[q] = Disturbed(p)[q]
    BY <1>15, <2>1 DEF WriteSkipped
  <2> QED
    BY <1>5, <2>2
<1> QED
  BY <1>2, <1>10, <1>11, <1>12, <1>13, <1>14, <1>15 DEF Work

(* The invariant of whole runs.                                            *)
WholeInv == TypeInv /\ IInv /\ Shaped /\ TablesInv /\ RunsInv

(* It holds before any run.                                                *)
LEMMA InitWhole == Init => WholeInv
<1> SUFFICES ASSUME Init PROVE WholeInv
  OBVIOUS
<1>1. TypeInv /\ IInv
  BY InitTypeInv, InitInvariant
<1>2. DOMAIN proc = Processes /\ \A p \in Processes : proc[p].outcome = "idle"
  BY DEF Init, Idle
<1>3. Shaped /\ \A p \in Processes : ~ Running(p) /\ ~ Clean(p)
  BY <1>2 DEF Shaped, Shape, Running, Clean
<1>4. TablesInv
  <2>1. scenario = <<>> /\ lot_size = <<>> /\ lot = <<>> /\ calendar_iso = <<>>
    BY DEF Init
  <2>2. IsDict(<<>>) /\ YearByYear(<<>>)
    BY DEF IsDict, YearByYear
  <2> QED
    BY <2>1, <2>2 DEF TablesInv
<1>5. RunsInv
  BY <1>3 DEF Init, RunsInv, Together, LastTogether, AllStand, LastDone, AllRepeated, IsAt
<1> QED
  BY <1>1, <1>3, <1>4, <1>5 DEF WholeInv

(* Where nothing changes every process stands where it stood.              *)
LEMMA SameProcesses ==
  ASSUME Shaped, RunsInv, UNCHANGED vars
  PROVE  Shaped' /\ RunsInv'
<1>1. proc' = proc /\ last' = last /\ UNCHANGED <<imports, calendar_iso, lot_bucket>>
  BY DEF vars, tables, imports
<1>2. \A p \in Processes : Running(p)' = Running(p) /\ Clean(p)' = Clean(p) /\ Call(p)' = Call(p)
  BY <1>1 DEF Running, Clean, Call
<1>3. \A p \in Processes : \A c, pc, here, todo :
        IsAt(p, c, pc, here, todo)' = IsAt(p, c, pc, here, todo)
  BY <1>1 DEF IsAt, Running, Clean, Call, Here
<1>4. ASSUME NEW c PROVE Kept(c)
  BY <1>1, QuietKept DEF Pending, At, Running, Pair, Here, imports, tables
<1>5. \A c, layer, pair : RowsOf(c, layer, pair)' = RowsOf(c, layer, pair)
  BY <1>1, SamePlan
<1>6. Shaped' /\ Together' /\ LastTogether'
  BY <1>1, <1>2 DEF RunsInv, Shaped, Shape, Together, LastTogether
<1>7. AllStand'
  BY <1>3, <1>4, KeptStands DEF RunsInv, AllStand
<1>8. LastDone'
  BY <1>1, <1>4, KeptDone DEF RunsInv, LastDone
<1>9. \A c, pc, here, todo :
        BucketWith(c, pc, here, todo)' = BucketWith(c, pc, here, todo)
  BY <1>1, <1>5 DEF BucketWith
<1>10. \A base, c, pc, here, todo :
         IsBase(base, c, pc, here, todo)' = IsBase(base, c, pc, here, todo)
  BY <1>1, <1>9 DEF IsBase, imports
<1>11. \A c : CallDone(c) => CallDone(c)'
  BY <1>4, KeptDone
<1>12. \A p \in Processes : Alone(p)' = Alone(p) /\ proc'[p].base = proc[p].base
  BY <1>1, <1>2 DEF Alone
<1>13. AllRepeated'
  BY <1>3, <1>10, <1>11, <1>12 DEF RunsInv, AllRepeated
<1> QED
  BY <1>6, <1>7, <1>8, <1>13 DEF RunsInv

(* A step keeps it.                                                        *)
LEMMA StepWhole ==
  WholeInv /\ [Next]_vars => WholeInv'
<1> SUFFICES ASSUME WholeInv, [Next]_vars PROVE WholeInv'
  OBVIOUS
<1>1. TypeInv' /\ IInv'
  BY StepKeeps, StepKeepsTypeInv DEF WholeInv
<1>2. ASSUME NEW p \in Processes, Start(p) PROVE Shaped' /\ TablesInv' /\ RunsInv'
  <2>1. UNCHANGED tables
    BY <1>2 DEF Start
  <2> QED
    BY <1>2, <2>1, StartRuns DEF WholeInv, TablesInv, IsDict, YearByYear, tables
<1>3. ASSUME NEW p \in Processes, Work(p) PROVE Shaped' /\ TablesInv' /\ RunsInv'
  BY <1>3, WorkRuns, WorkTables DEF WholeInv
<1>4. ASSUME NEW p \in Processes, Crash(p) PROVE Shaped' /\ TablesInv' /\ RunsInv'
  <2>1. Running(p) /\ Raise(p) /\ UNCHANGED tables
    BY <1>4 DEF Crash
  <2>2. Shaped' /\ RunsInv'
    BY <2>1, RaiseMoves, NobodyCleanRuns DEF WholeInv
  <2> QED
    BY <2>1, <2>2 DEF WholeInv, TablesInv, IsDict, YearByYear, tables
<1>5. CASE UNCHANGED vars
  <2>1. Shaped' /\ RunsInv'
    BY <1>5, SameProcesses DEF WholeInv
  <2>2. TablesInv'
    BY <1>5 DEF WholeInv, TablesInv, IsDict, YearByYear, tables, vars
  <2> QED
    BY <1>1, <2>1, <2>2 DEF WholeInv
<1> QED
  BY <1>1, <1>2, <1>3, <1>4, <1>5 DEF Next, AllOver, WholeInv

(* Such a run returns to the tables it began with.                         *)
LEMMA StepRepeats ==
  ASSUME WholeInv, [Next]_vars, NEW p \in Processes, Running(p),
         proc'[p].outcome = "returned", proc'[p].clean, proc[p].base # NoBase
  PROVE  tables' = proc[p].base
<1>1. ~ UNCHANGED vars
  BY DEF Running, vars
<1>2. PICK q \in Processes : Start(q) \/ Work(q) \/ Crash(q)
  BY <1>1 DEF Next, AllOver
<1>3. q = p
  BY <1>2, OthersRun DEF WholeInv, Running
<1>4. ~ Start(p)
  BY DEF Start
<1>5. ~ Crash(p)
  <2>1. ASSUME Crash(p) PROVE proc'[p].outcome = "raised"
    <3>1. PICK x : proc' = [Disturbed(p) EXCEPT ![p] = [@ EXCEPT !.outcome = "raised", !.here = x]]
      BY <2>1 DEF Crash, Raise
    <3>2. DOMAIN Disturbed(p) = Processes /\ Disturbed(p)[p] = proc[p]
      BY DEF Disturbed
    <3>3. Fields \subseteq DOMAIN proc[p]
      BY DEF WholeInv, Shaped, Shape, Running
    <3> QED
      BY <3>1, <3>2, <3>3 DEF Fields
  <2> QED
    BY <2>1
<1>6. Rerun(p)
  BY <1>2, <1>3, <1>4, <1>5, WorkRuns DEF WholeInv
<1> QED
  BY <1>6 DEF Rerun

(* For any command lines, any number of processes and a kill or a refusal  *)
(* anywhere: a run that repeats the last one, and that nothing disturbs,   *)
(* leaves every table as it found it.                                      *)
THEOREM RepeatedRunsRest == Spec => RerunChangesNothing
<1>1. ASSUME WholeInv, [Next]_vars
      PROVE  [\A p \in Processes :
                Running(p) /\ proc'[p].outcome = "returned" /\ proc'[p].clean /\ proc[p].base # NoBase
                  => tables' = proc[p].base]_vars
  BY <1>1, StepRepeats
<1> QED
  BY <1>1, InitWhole, StepWhole, PTL DEF Spec, RerunChangesNothing

-----------------------------------------------------------------------------
(* What a call leaves when nobody runs.                                    *)

(* The lots of each quantity.                                              *)
LEMMA ImportLeftWhole ==
  ASSUME NEW c, Imported(c)
  PROVE  ImportIsWhole(c)
<1>1. SUFFICES ASSUME c.csv # NoCsv
               PROVE  /\ c.scenario \in DOMAIN scenario
                      /\ \A k \in Keys(c) : \A i \in 1 .. LotCount(c.csv.demand[k], lot_size[k[1]]) :
                           LET id == <<Token[k[1]], k[2], i>>
                           IN  id \in DOMAIN lot /\ lot[id].scenario = c.scenario
  BY DEF ImportIsWhole
<1>2. c.scenario \in DOMAIN scenario /\ HasRows(LotRows(c, Counts(c)))
  BY <1>1 DEF Imported, Saved, Staged
<1>3. ASSUME NEW k \in Keys(c), NEW i \in 1 .. LotCount(c.csv.demand[k], lot_size[k[1]])
      PROVE  /\ <<Token[k[1]], k[2], i>> \in DOMAIN lot
             /\ lot[<<Token[k[1]], k[2], i>>].scenario = c.scenario
  <2>1. PICK id, counts : id = <<Token[k[1]], k[2], i>> /\ counts = Counts(c)
    OBVIOUS
  <2>2. i \in 1 .. counts[k]
    BY <1>3, <2>1 DEF Counts
  <2>3. id \in UNION {{<<Token[x[1]], x[2], j>> : j \in 1 .. counts[x]} : x \in Keys(c)}
    BY <1>3, <2>1, <2>2
  <2>4. id \in DOMAIN LotRows(c, counts) /\ LotRows(c, counts)[id].scenario = c.scenario
    BY <2>3 DEF LotRows
  <2>5. id \in DOMAIN lot /\ lot[id] = LotRows(c, counts)[id]
    BY <1>2, <2>1, <2>4 DEF HasRows
  <2> QED
    BY <2>1, <2>4, <2>5
<1> QED
  BY <1>2, <1>3

(* If the calendar begins with the scenario's first year, the index of a   *)
(* week of the window is below the number of its weeks.                    *)
LEMMA WindowIsPrefix ==
  ASSUME WellFormed, YearByYear(calendar_iso), NEW s \in DOMAIN scenario,
         calendar_iso[1][1] = scenario[s].st, NEW w \in Window(s)
  PROVE  WeekMap(Window(s))[w] < Cardinality(Window(s))
<1> DEFINE W == Window(s)
           i == WeekMap(W)[w]
<1>0. /\ Len(calendar_iso) \in Nat /\ DOMAIN calendar_iso = 1 .. Len(calendar_iso)
      /\ \A j \in 1 .. Len(calendar_iso) : calendar_iso[j] \in IsoWeeks
  BY DEF YearByYear
<1>1. W \subseteq ToSet(calendar_iso) /\ IsCalendar(calendar_iso)
  BY DEF Window, WellFormed
<1>2. i \in 0 .. Len(calendar_iso) - 1 /\ calendar_iso[i + 1] = w
  BY <1>1, IndexOfWeek
<1>3. scenario[s].st \in Nat /\ scenario[s].range \in Nat
  BY DEF WellFormed, Covered
<1>4. w[1] < scenario[s].st + scenario[s].range
  BY DEF Window
<1> HIDE DEF i
<1>5. i + 1 \in 1 .. Len(calendar_iso) /\ 1 \in 1 .. Len(calendar_iso)
  BY <1>0, <1>2
<1>6. \A j \in 1 .. Len(calendar_iso) : calendar_iso[j][1] \in Nat
  BY <1>0, WeeksInAssumption DEF IsoWeeks
<1>7. ASSUME NEW j \in 1 .. i + 1 PROVE calendar_iso[j] \in W
  <2>1. j \in 1 .. Len(calendar_iso) /\ (j = i + 1 \/ j < i + 1) /\ (j = 1 \/ 1 < j)
    BY <1>0, <1>2
  <2>2. calendar_iso[j][1] <= w[1]
    BY <1>2, <1>5, <1>6, <2>1 DEF YearByYear
  <2>3. scenario[s].st <= calendar_iso[j][1]
    BY <1>5, <1>6, <2>1 DEF YearByYear
  <2>4. calendar_iso[j][1] \in Nat /\ w[1] \in Nat
    BY <1>2, <1>5, <1>6, <2>1
  <2>5. calendar_iso[j][1] < scenario[s].st + scenario[s].range
    BY <1>3, <1>4, <2>2, <2>4
  <2>6. calendar_iso[j] \in ToSet(calendar_iso)
    BY <1>0, <2>1 DEF ToSet
  <2> QED
    BY <2>3, <2>5, <2>6 DEF Window
<1>8. IsFiniteSet(W)
  <2>1. IsFiniteSet(ToSet(calendar_iso))
    <3>1. IsFiniteSet(1 .. Len(calendar_iso))
      BY <1>0, FS_Interval
    <3>2. calendar_iso \in Surjection(1 .. Len(calendar_iso), ToSet(calendar_iso))
      BY <1>0, Fun_IsSurj DEF ToSet, YearByYear
    <3> QED
      BY <3>1, <3>2, FS_Surjection
  <2> QED
    BY <1>1, <2>1, FS_Subset
<1> DEFINE f == [j \in 1 .. i + 1 |-> calendar_iso[j]]
<1>9. f \in Injection(1 .. i + 1, W)
  <2>1. f \in [1 .. i + 1 -> W]
    BY <1>7
  <2>2. \A a, b \in 1 .. i + 1 : f[a] = f[b] => a = b
    <3>1. \A a \in 1 .. i + 1 : a \in 1 .. Len(calendar_iso) /\ f[a] = calendar_iso[a]
      BY <1>0, <1>2
    <3> QED
      BY <1>0, <1>1, <3>1 DEF IsCalendar, IsInjective
  <2> QED
    BY <2>1, <2>2 DEF Injection, IsInjective
<1>10. Cardinality(1 .. i + 1) <= Cardinality(W)
  BY <1>8, <1>9, FS_Injection
<1>11. Cardinality(1 .. i + 1) = i + 1
  BY <1>2, FS_Interval
<1>12. Cardinality(W) \in Nat /\ i \in Nat
  BY <1>2, <1>8, FS_CardinalityType
<1>13. i < Cardinality(W)
  BY <1>10, <1>11, <1>12
<1> QED
  BY <1>13 DEF i

(* The lots of a pair in its scenario's window, and their rows.            *)
Inside(c, pair) == {id \in Owned(c.scenario, pair) : lot[id].week \in Window(c.scenario)}

(* The lots planned are those inside, at their index.                      *)
LEMMA LotsPlannedAre ==
  ASSUME WellFormed, YearByYear(calendar_iso), NEW c, c.scenario \in DOMAIN scenario, NEW pair,
         Window(c.scenario) # {}, calendar_iso[1][1] = scenario[c.scenario].st
  PROVE  /\ LotsPlanned(c, pair)
              = {[week_index |-> Index(lot[id].week), bucket |-> "S", lot_id |-> id] :
                   id \in Inside(c, pair)}
         /\ DOMAIN MapOf(c) # {}
<1> DEFINE s == c.scenario
           W == Window(s)
           map == WeekMap(W)
<1>1. W \subseteq ToSet(calendar_iso) /\ IsCalendar(calendar_iso) /\ DOMAIN map = W
  BY DEF Window, WellFormed, WeekMap
<1>2. MapOf(c) = map
  <2>1. map # <<>>
    BY <1>1
  <2> QED
    BY <2>1 DEF MapOf
<1>3. \A w \in W : map[w] < Cardinality(W) /\ Index(w) = map[w]
  BY <1>1, WindowIsPrefix, IndexOfWeek
<1> HIDE DEF map
<1>4. LotsPlanned(c, pair)
        = {[week_index |-> map[lot[id].week], bucket |-> "S", lot_id |-> id] :
             id \in {id \in LotsOf(s, pair) : /\ lot[id].week \in DOMAIN map
                                              /\ map[lot[id].week] < Cardinality(DOMAIN map)}}
  BY <1>2 DEF LotsPlanned, Injected
<1>5. Inside(c, pair)
        = {id \in LotsOf(s, pair) : /\ lot[id].week \in DOMAIN map
                                    /\ map[lot[id].week] < Cardinality(DOMAIN map)}
  BY <1>1, <1>3 DEF Inside, Owned
<1>6. \A id \in Inside(c, pair) : map[lot[id].week] = Index(lot[id].week)
  BY <1>3 DEF Inside
<1>7. LotsPlanned(c, pair)
        = {[week_index |-> map[lot[id].week], bucket |-> "S", lot_id |-> id] : id \in Inside(c, pair)}
  BY <1>4, <1>5
<1>8. {[week_index |-> map[lot[id].week], bucket |-> "S", lot_id |-> id] : id \in Inside(c, pair)}
        = {[week_index |-> Index(lot[id].week), bucket |-> "S", lot_id |-> id] :
             id \in Inside(c, pair)}
  BY <1>6
<1> QED
  BY <1>1, <1>2, <1>7, <1>8

(* The layers of each pair.                                                *)
LEMMA PlanLeftWhole ==
  ASSUME TypeInv, YearByYear(calendar_iso), NobodyRuns, NEW c, CallDone(c)
  PROVE  PlanIsWhole(c)
<1>1. SUFFICES ASSUME c.mode # "etl", NEW pair \in PlanPairs(c), Known(pair),
                      Window(c.scenario) # {}, calendar_iso[1][1] = scenario[c.scenario].st
               PROVE  PairSlice(c.scenario, "demand", pair) \cup PairSlice(c.scenario, "supply", pair)
                        = PlanOf(c.scenario, pair)
  BY DEF PlanIsWhole, PlanPairs
<1>2. /\ c.scenario \in DOMAIN scenario
      /\ Finished(c, "demand", pair) /\ Finished(c, "supply", pair)
  BY <1>1 DEF CallDone, Planned
<1>3. PICK s, L, I, index :
        /\ s = c.scenario /\ L = LotsPlanned(c, pair) /\ I = Inside(c, pair)
        /\ index = [id \in Inside(c, pair) |-> Index(lot[id].week)]
  OBVIOUS
<1>4. /\ L = {[week_index |-> index[id], bucket |-> "S", lot_id |-> id] : id \in I}
      /\ DOMAIN MapOf(c) # {}
  <2>1. /\ L = {[week_index |-> Index(lot[id].week), bucket |-> "S", lot_id |-> id] : id \in I}
        /\ DOMAIN MapOf(c) # {}
    BY <1>1, <1>2, <1>3, LotsPlannedAre DEF TypeInv
  <2>2. \A id \in I : index[id] = Index(lot[id].week)
    BY <1>3
  <2> QED
    BY <2>1, <2>2
<1>5. \A layer : ~ Pending(layer, pair)
  BY DEF NobodyRuns, Pending, At
<1>6. /\ PairSlice(s, "demand", pair) = RowsOf(c, "demand", pair)
      /\ PairSlice(s, "supply", pair) = RowsOf(c, "supply", pair)
  <2>1. Plannable(c, pair)
    BY <1>1, <1>4 DEF Plannable
  <2> QED
    BY <1>2, <1>3, <1>5, <2>1 DEF Finished, NoneOlder
<1> DEFINE row(layer, bucket, id) ==
             [scenario |-> s, layer |-> layer, pair |-> pair, bucket |-> bucket, lot_id |-> id,
              week_index |-> index[id]]
           x(bucket, id) == [week_index |-> index[id], bucket |-> bucket, lot_id |-> id]
           rowOf(layer, r) ==
             [scenario |-> s, layer |-> layer, pair |-> pair,
              week_index |-> r.week_index, bucket |-> r.bucket, lot_id |-> r.lot_id]
<1>7. \A layer, bucket, id : rowOf(layer, x(bucket, id)) = row(layer, bucket, id)
  OBVIOUS
<1>8. \A id : [x("S", id) EXCEPT !.bucket = "P"] = x("P", id) /\ x("S", id).week_index = index[id]
  OBVIOUS
<1>9. /\ RowsOf(c, "supply", pair) = {rowOf("supply", r) : r \in L}
      /\ RowsOf(c, "demand", pair) = {rowOf("demand", r) : r \in calcS2P(L)}
  BY <1>3 DEF RowsOf, LayerOf
<1>10. L = {x("S", id) : id \in I}
  BY <1>4
<1> HIDE DEF x
<1>11. calcS2P(L) = L \cup {x("P", id) : id \in {id \in I : index[id] > 0}}
  BY <1>8, <1>10 DEF calcS2P
<1> HIDE DEF row, rowOf
<1>12. RowsOf(c, "supply", pair) = {row("supply", "S", id) : id \in I}
  BY <1>7, <1>9, <1>10
<1>13. RowsOf(c, "demand", pair)
         = {row("demand", "S", id) : id \in I}
             \cup {row("demand", "P", id) : id \in {id \in I : index[id] > 0}}
  <2>1. {rowOf("demand", r) : r \in L} = {row("demand", "S", id) : id \in I}
    BY <1>7, <1>10
  <2> DEFINE late == {id \in I : index[id] > 0}
  <2> HIDE DEF late
  <2>2. {rowOf("demand", r) : r \in {x("P", id) : id \in late}} = {row("demand", "P", id) : id \in late}
    BY <1>7
  <2>3. \A A, B : {rowOf("demand", r) : r \in A \cup B}
                    = {rowOf("demand", r) : r \in A} \cup {rowOf("demand", r) : r \in B}
    OBVIOUS
  <2> QED
    BY <1>9, <1>11, <2>1, <2>2, <2>3 DEF late
<1>14. PlanOf(s, pair)
         = ({row("demand", "S", id) : id \in I} \cup {row("supply", "S", id) : id \in I})
             \cup {row("demand", "P", id) : id \in {id \in I : index[id] > 0}}
  <2>1. \A layer, bucket : \A id \in I : Row(s, layer, pair, bucket, id) = row(layer, bucket, id)
    BY <1>3 DEF Row, row
  <2> DEFINE J == {id \in Owned(s, pair) : lot[id].week \in Window(s)}
             late == {id \in J : Index(lot[id].week) > 0}
             U == {Row(s, layer, pair, "S", id) : layer \in {"demand", "supply"}, id \in J}
             V == {Row(s, "demand", pair, "P", id) : id \in late}
  <2>2. PlanOf(s, pair) = U \cup V
    BY DEF PlanOf
  <2>3. J = I
    BY <1>3 DEF Inside
  <2>4. late = {id \in I : index[id] > 0}
    BY <1>3, <2>3
  <2> HIDE DEF J, late
  <2>5. U = {row("demand", "S", id) : id \in I} \cup {row("supply", "S", id) : id \in I}
    BY <2>1, <2>3
  <2>6. V = {row("demand", "P", id) : id \in {id \in I : index[id] > 0}}
    BY <2>1, <2>4
  <2> HIDE DEF U, V
  <2> QED
    BY <2>2, <2>5, <2>6
<1> QED
  BY <1>3, <1>6, <1>12, <1>13, <1>14

(* For any command lines, any number of processes, and whatever calls and  *)
(* kills came before: a call that ran undisturbed or beside runs of the    *)
(* same call leaves each quantity with its lots under the call's scenario, *)
(* and both layers of every planned pair with the scenario's lots and      *)
(* nothing older.                                                          *)
THEOREM RunsAreWhole == Spec => []RunIsWhole
<1>1. ASSUME WholeInv PROVE RunIsWhole
  <2>1. SUFFICES ASSUME NobodyRuns, last # NoCall
                 PROVE  ImportIsWhole(last) /\ PlanIsWhole(last)
    BY DEF RunIsWhole
  <2>2. PICK c : c = last
    OBVIOUS
  <2>3. CallDone(c)
    BY <1>1, <2>1, <2>2 DEF WholeInv, RunsInv, LastDone
  <2>4. ImportIsWhole(c) /\ PlanIsWhole(c)
    BY <1>1, <2>1, <2>3, ImportLeftWhole, PlanLeftWhole DEF CallDone, WholeInv, TablesInv
  <2> QED
    BY <2>2, <2>4
<1> QED
  BY <1>1, InitWhole, StepWhole, PTL DEF Spec
=============================================================================
