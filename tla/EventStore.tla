----------------------------- MODULE EventStore -----------------------------
(***************************************************************************)
(* Planning sessions against the SQLite event store: run_kernel_from_db    *)
(* and save_kernel_result (project/kernel_db_runner.py) over the           *)
(* repository (project/wom_sqlite_repository.py) and the tables of         *)
(* project/schema_sqlite_minimal.sql.                                      *)
(*                                                                         *)
(* Several runner processes share one database file.  Every repository     *)
(* call is one transaction, so it is one step here: it commits all its     *)
(* rows or, on a constraint, none, and then the exception ends the         *)
(* process, for the runner catches nothing.  A process may also be killed  *)
(* or meet a locked or full database between any two transactions.         *)
(*                                                                         *)
(* A call is what the command line asks for together with what the kernel  *)
(* returns for it, which is a function of the arguments (PlanningKernel):  *)
(*   found    the scenario has lots and demands                            *)
(*   demands  the scenario's demand events                                 *)
(*   result   history (the trust event ids of each iteration), selected    *)
(*            (the operator ids), flow_events and the derived final_state; *)
(*            an empty history stands for the exception of a run without   *)
(*            iterations.                                                  *)
(* A definition named X_Mistake is X with that mistake; nothing uses it.   *)
(* Substituted for X it shows that a property can fail.                    *)
(***************************************************************************)
EXTENDS FlowEngine

CONSTANTS
  Processes,       \* runner processes
  Calls,           \* the calls a process may be started with
  ScenarioTable,   \* the primary keys of sc_scenario
  LotTable,        \* the primary keys of sc_lot
  Statuses,        \* the texts a session's status may hold
  InitialStores    \* the contents the database may have before

NoOperator == <<>>

(* A scenario with lots exists.  The kernel returns (TypeOK, Iterate and   *)
(* EventOrderTotal of PlanningKernel) an operator for every iteration but  *)
(* possibly the last, a log of numbered events, and, when the last         *)
(* iteration applied no operator, the state of that log                    *)
(* (SettledRunsAreWhole of its proofs).                                    *)
ASSUME CallsAssumption ==
  \A call \in Calls :
    LET result == call.result
    IN  /\ call.found => call.scenario \in ScenarioTable
        /\ Len(result.history) \in Nat
        /\ Len(result.selected) \in Nat
        /\ Len(result.history) - Len(result.selected) \in {0, 1}
        /\ IsDemands(call.demands)
        /\ IsLog(result.flow_events) /\ SequenceUnique(result.flow_events)
        /\ Len(result.selected) < Len(result.history)
             => result.final_state = run_flow(result.flow_events, call.demands)

ASSUME StatusesAssumption == {"running", "completed"} \subseteq Statuses

(* The schema's references to sc_scenario and to run_planning_session.     *)
ASSUME InitialStoresAssumption ==
  \A store \in InitialStores :
    /\ store.sessions \in
         [DOMAIN store.sessions -> [scenario : ScenarioTable, status : Statuses]]
    /\ \A r \in store.history \cup store.trust \cup store.operators \cup store.flow :
         r.session \in DOMAIN store.sessions

VARIABLES
  sessions,    \* run_planning_session: session_id -> [scenario, status]
  history,     \* run_iteration_history, a set of rows, as the three below
  trust,       \* ev_trust_event
  operators,   \* ev_operator_action
  flow,        \* ev_flow_event
  proc         \* each runner: its call, its place in the code, its outcome

tables == <<sessions, history, trust, operators, flow>>
vars == <<sessions, history, trust, operators, flow, proc>>

Idle == [outcome |-> "idle", stage |-> "start", i |-> 0]

Init ==
  /\ \E store \in InitialStores :
       /\ sessions = store.sessions
       /\ history = store.history
       /\ trust = store.trust
       /\ operators = store.operators
       /\ flow = store.flow
  /\ proc = [p \in Processes |-> Idle]

-----------------------------------------------------------------------------
(* The rows a call writes, by stage.                                       *)

Result(p)  == proc[p].call.result
Session(p) == proc[p].call.session
Scenario(p) == proc[p].call.scenario

Iterations(call) == 0 .. Len(call.result.history) - 1

HistoryRow(call, i) ==
  [session |-> call.session, iteration |-> i,
   operator |-> IF i < Len(call.result.selected) THEN call.result.selected[i + 1]
                ELSE NoOperator]

TrustRows(call, i) ==
  {[id |-> te, session |-> call.session, iteration |-> i]
     : te \in call.result.history[i + 1]}

OperatorRows(call) ==
  {[id |-> call.result.selected[i + 1], session |-> call.session, iteration |-> i]
     : i \in 0 .. Len(call.result.selected) - 1}

FlowRows_FromNodeTwice(call) ==
  {[event |-> [e EXCEPT !.to_node = e.from_node],
    session |-> call.session, scenario |-> call.scenario,
    iteration |-> Len(call.result.history) - 1] : e \in call.result.flow_events}

(* Every event of the final log, under the number of the last iteration.   *)
FlowRows(call) ==
  {[event |-> e, session |-> call.session, scenario |-> call.scenario,
    iteration |-> Len(call.result.history) - 1] : e \in call.result.flow_events}

Ids(rows) == {r.id : r \in rows}
FlowIds(rows) == {r.event.flow_id : r \in rows}

-----------------------------------------------------------------------------
(* Which constraint the next transaction of a process would break.  The    *)
(* references to run_planning_session are not among them: NoOrphanRows.    *)

Refused_NoPrimaryKey(p) == proc[p].stage = "kernel" /\ Len(Result(p).history) = 0

Refused(p) ==
  LET call == proc[p].call
      i == proc[p].i
  IN  CASE proc[p].stage = "create" -> call.session \in DOMAIN sessions
        [] proc[p].stage = "kernel" -> Len(call.result.history) = 0
        [] proc[p].stage = "history" ->
             \/ HistoryRow(call, i).operator \notin Ids(operators) \cup {NoOperator}
             \/ \E r \in history : r.session = call.session /\ r.iteration = i
        [] proc[p].stage = "trust" -> Ids(TrustRows(call, i)) \cap Ids(trust) # {}
        [] proc[p].stage = "operators" ->
             \/ Ids(OperatorRows(call)) \cap Ids(operators) # {}
             \/ Cardinality(Ids(OperatorRows(call))) # Len(call.result.selected)
        [] proc[p].stage = "flow" ->
             \/ FlowIds(FlowRows(call)) \cap FlowIds(flow) # {}
             \/ Cardinality(FlowIds(FlowRows(call))) # Cardinality(FlowRows(call))
             \/ \E e \in call.result.flow_events : e.lot_id \notin LotTable
        [] OTHER -> FALSE

At(p, stage) == proc[p].outcome = "running" /\ proc[p].stage = stage

Goto(p, stage, i) == proc' = [proc EXCEPT ![p].stage = stage, ![p].i = i]

-----------------------------------------------------------------------------
(* run_kernel_from_db.                                                     *)

Start(p) ==
  /\ proc[p].outcome = "idle"
  /\ \E call \in Calls :
       proc' = [proc EXCEPT ![p] =
                  [outcome |-> IF call.found THEN "running" ELSE "raised",
                   stage |-> "create", i |-> 0, call |-> call]]
  /\ UNCHANGED tables

CreateSession(p) ==
  /\ At(p, "create")
  /\ ~ Refused(p)
  /\ sessions' = Put(sessions, Session(p), [scenario |-> Scenario(p), status |-> "running"])
  /\ Goto(p, "kernel", 0)
  /\ UNCHANGED <<history, trust, operators, flow>>

RunKernel(p) ==
  /\ At(p, "kernel")
  /\ ~ Refused(p)
  /\ Goto(p, "history", 0)
  /\ UNCHANGED tables

(* save_kernel_result, 1: the history row of iteration i, then its trust   *)
(* events, and on to the next iteration.                                   *)
SaveHistory(p) ==
  /\ At(p, "history")
  /\ ~ Refused(p)
  /\ history' = history \cup {HistoryRow(proc[p].call, proc[p].i)}
  /\ Goto(p, "trust", proc[p].i)
  /\ UNCHANGED <<sessions, trust, operators, flow>>

SaveTrust_OneMore(p) ==
  /\ At(p, "trust")
  /\ ~ Refused(p)
  /\ trust' = trust \cup TrustRows(proc[p].call, proc[p].i)
  /\ Goto(p, "history", proc[p].i + 1)
  /\ UNCHANGED <<sessions, history, operators, flow>>

SaveTrust_LastIteration(p) ==
  /\ At(p, "trust")
  /\ trust' = trust \cup TrustRows(proc[p].call, Len(Result(p).history) - 1)
  /\ IF proc[p].i + 1 < Len(Result(p).history)
     THEN Goto(p, "history", proc[p].i + 1)
     ELSE Goto(p, "operators", proc[p].i)
  /\ UNCHANGED <<sessions, history, operators, flow>>

SaveTrust(p) ==
  /\ At(p, "trust")
  /\ ~ Refused(p)
  /\ trust' = trust \cup TrustRows(proc[p].call, proc[p].i)
  /\ IF proc[p].i + 1 < Len(Result(p).history)
     THEN Goto(p, "history", proc[p].i + 1)
     ELSE Goto(p, "operators", proc[p].i)
  /\ UNCHANGED <<sessions, history, operators, flow>>

SaveOperators_Completes(p) ==
  /\ At(p, "operators")
  /\ ~ Refused(p)
  /\ operators' = operators \cup OperatorRows(proc[p].call)
  /\ sessions' = [sessions EXCEPT ![Session(p)].status = "completed"]
  /\ Goto(p, "flow", proc[p].i)
  /\ UNCHANGED <<history, trust, flow>>

(* save_kernel_result, 2 and 3.                                            *)
SaveOperators(p) ==
  /\ At(p, "operators")
  /\ ~ Refused(p)
  /\ operators' = operators \cup OperatorRows(proc[p].call)
  /\ Goto(p, "flow", proc[p].i)
  /\ UNCHANGED <<sessions, history, trust, flow>>

SaveFlow(p) ==
  /\ At(p, "flow")
  /\ ~ Refused(p)
  /\ flow' = flow \cup FlowRows(proc[p].call)
  /\ Goto(p, "complete", proc[p].i)
  /\ UNCHANGED <<sessions, history, trust, operators>>

CompleteSession_All(p) ==
  /\ At(p, "complete")
  /\ sessions' = [s \in DOMAIN sessions |-> [sessions[s] EXCEPT !.status = "completed"]]
  /\ proc' = [proc EXCEPT ![p].stage = "end", ![p].outcome = "returned"]
  /\ UNCHANGED <<history, trust, operators, flow>>

CompleteSession(p) ==
  /\ At(p, "complete")
  /\ sessions' = [sessions EXCEPT ![Session(p)].status = "completed"]
  /\ proc' = [proc EXCEPT ![p].stage = "end", ![p].outcome = "returned"]
  /\ UNCHANGED <<history, trust, operators, flow>>

Raise_Retries(p) ==
  /\ proc[p].outcome = "running"
  /\ Refused(p)
  /\ UNCHANGED vars

(* A refused transaction rolls back and its exception leaves the runner.   *)
Raise(p) ==
  /\ proc[p].outcome = "running"
  /\ Refused(p)
  /\ proc' = [proc EXCEPT ![p].outcome = "raised"]
  /\ UNCHANGED tables

Crash(p) ==
  /\ proc[p].outcome = "running"
  /\ proc' = [proc EXCEPT ![p].outcome = "crashed"]
  /\ UNCHANGED tables

-----------------------------------------------------------------------------

Work(p) ==
  \/ CreateSession(p) \/ RunKernel(p) \/ SaveHistory(p) \/ SaveTrust(p)
  \/ SaveOperators(p) \/ SaveFlow(p) \/ CompleteSession(p) \/ Raise(p)

Ended(p) == proc[p].outcome \in {"returned", "raised", "crashed"}

AllEnded == (\A p \in Processes : Ended(p)) /\ UNCHANGED vars

Next == (\E p \in Processes : Start(p) \/ Work(p) \/ Crash(p)) \/ AllEnded

(* A started process keeps running until it ends.                          *)
Spec == Init /\ [][Next]_vars /\ \A p \in Processes : WF_vars(Work(p))

-----------------------------------------------------------------------------
(* load_flow_events_for_replay of a session.                               *)

(* ORDER BY time_bucket, COALESCE(event_priority, 999), creation_sequence: *)
(* flow_event_to_record stores no event_priority.                          *)
StoredKey(e) == <<e.time_bucket, 999, e.creation_sequence>>

load_flow_events_for_replay(scenario, session) ==
  LET events == {r.event : r \in {r \in flow : r.scenario = scenario /\ r.session = session}}
  IN  InOrder([e \in events |-> StoredKey(e)])

(* The state derived from a list of events in the order they have there.   *)
Replayed(loaded, demands) ==
  Derive(Range(loaded),
         [e \in Range(loaded) |-> <<CHOOSE i \in DOMAIN loaded : loaded[i] = e>>],
         demands)

-----------------------------------------------------------------------------
(* Properties.                                                             *)

Stages == {"start", "create", "kernel", "history", "trust", "operators", "flow",
           "complete", "end"}

Outcomes == {"running", "returned", "raised", "crashed"}

Started == [outcome : Outcomes, stage : Stages \ {"start"}, i : Nat, call : Calls]

(* Each process is at a place of the runner's code, within its iterations, *)
(* and each session belongs to a scenario of the database.                 *)
TypeOK ==
  /\ sessions \in [DOMAIN sessions -> [scenario : ScenarioTable, status : Statuses]]
  /\ proc \in [Processes -> {Idle} \cup Started]
  /\ \A p \in Processes :
       proc[p].stage \in {"history", "trust"} => proc[p].i \in Iterations(proc[p].call)

(* A process owns the session it created.                                  *)
Owns(p) == proc[p].stage \notin {"start", "create"}

RowsOf(rows, s) == {r \in rows : r.session = s}

(* The schema's references to run_planning_session hold for every row, so  *)
(* a session id that was never created has no rows waiting for it.         *)
NoOrphanRows ==
  \A r \in history \cup trust \cup operators \cup flow : r.session \in DOMAIN sessions

(* No two processes write under one session id.                            *)
OneOwnerPerSession ==
  \A p, q \in Processes : Owns(p) /\ Owns(q) /\ p # q => Session(p) # Session(q)

HistorySaved(p) ==
  CASE proc[p].stage = "kernel"  -> 0
    [] proc[p].stage = "history" -> proc[p].i
    [] proc[p].stage = "trust"   -> proc[p].i + 1
    [] OTHER                     -> Len(Result(p).history)

TrustSaved(p) ==
  CASE proc[p].stage = "kernel"             -> 0
    [] proc[p].stage \in {"history", "trust"} -> proc[p].i
    [] OTHER                                -> Len(Result(p).history)

Saved(p) ==
  LET call == proc[p].call
      s == Session(p)
      stage == proc[p].stage
  IN  /\ s \in DOMAIN sessions
      /\ RowsOf(history, s) = {HistoryRow(call, i) : i \in 0 .. HistorySaved(p) - 1}
      /\ RowsOf(trust, s) = UNION {TrustRows(call, i) : i \in 0 .. TrustSaved(p) - 1}
      /\ RowsOf(operators, s) =
           IF stage \in {"flow", "complete", "end"} THEN OperatorRows(call) ELSE {}
      /\ RowsOf(flow, s) = IF stage \in {"complete", "end"} THEN FlowRows(call) ELSE {}
      /\ sessions[s].status = IF stage = "end" THEN "completed" ELSE "running"

(* Wherever a process stands, and after a crash or an exception wherever   *)
(* it stood, the rows under its session are exactly those of the           *)
(* transactions before that place: no row of another process, no gap, none *)
(* doubled.                                                                *)
SavedUpToStage == \A p \in Processes : Owns(p) => Saved(p)

(* Whoever finds a session completed that some process started finds every *)
(* artifact of that run: one history row per iteration, all trust events,  *)
(* operators and flow events.  A failed or killed run never reads          *)
(* completed, whatever is started afterwards, with its session id too.     *)
CompletedIsComplete ==
  \A p \in Processes : Owns(p) =>
    LET call == proc[p].call
        s == Session(p)
    IN  sessions[s].status = "completed" =>
          /\ proc[p].outcome = "returned"
          /\ RowsOf(history, s) = {HistoryRow(call, i) : i \in Iterations(call)}
          /\ RowsOf(trust, s) = UNION {TrustRows(call, i) : i \in Iterations(call)}
          /\ RowsOf(operators, s) = OperatorRows(call)
          /\ RowsOf(flow, s) = FlowRows(call)

(* What is replayed from the store for a completed session derives the     *)
(* final state the kernel returned, although the stored order is not the   *)
(* kernel's, unless the budget ended the run right after an operator.      *)
CompletedReplays ==
  \A p \in Processes :
    proc[p].outcome = "returned" /\ Len(Result(p).selected) < Len(Result(p).history) =>
      Replayed(load_flow_events_for_replay(Scenario(p), Session(p)), proc[p].call.demands)
        = Result(p).final_state

(* The store implements PublishedRuns, whose board shows of a completed    *)
(* session all rows under it: a session is published in one step, complete, *)
(* and never changes after.                                                *)
Artifacts(call) ==
  [history   |-> {HistoryRow(call, i) : i \in Iterations(call)},
   trust     |-> UNION {TrustRows(call, i) : i \in Iterations(call)},
   operators |-> OperatorRows(call),
   flow      |-> FlowRows(call)]

Board(store) ==
  [s \in DOMAIN store.sessions |->
     IF store.sessions[s].status = "completed"
     THEN [published |-> TRUE,
           artifacts |-> [history   |-> RowsOf(store.history, s),
                          trust     |-> RowsOf(store.trust, s),
                          operators |-> RowsOf(store.operators, s),
                          flow      |-> RowsOf(store.flow, s)]]
     ELSE [published |-> FALSE]]

Store == [sessions |-> sessions, history |-> history, trust |-> trust,
          operators |-> operators, flow |-> flow]

Promised == INSTANCE PublishedRuns WITH
  InitialBoards <- {Board(store) : store \in InitialStores},
  Runs <- {[session |-> call.session, artifacts |-> Artifacts(call)] : call \in Calls},
  board <- Board(Store)

PublishedAtOnce == Promised!Spec

(* A started run ends: it returns, raises or crashes.                      *)
RunsEnd ==
  \A p \in Processes : proc[p].outcome = "running" ~> Ended(p)

-----------------------------------------------------------------------------
(* Claims of the documents that the code does not keep.                    *)

(* KERNEL_RULES.md 11: every decision leaves an artifact trail.  A run     *)
(* that ended by itself has logged the operators it selected.              *)
DecisionsLogged ==
  \A p \in Processes :
    proc[p].outcome \in {"returned", "raised"} /\ Owns(p) =>
      OperatorRows(proc[p].call) \subseteq operators

=============================================================================
