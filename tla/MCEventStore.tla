---------------------------- MODULE MCEventStore ----------------------------
(***************************************************************************)
(* Small stores and calls for EventStore.  The result of a call is what    *)
(* the kernel's operators compute from the scenario's lots and demands.    *)
(***************************************************************************)
EXTENDS EventStore

W1 == 202611
W2 == 202612

Lot(k, product, dest, quantity, created) ==
  [lot_id |-> <<"lot", k>>, product |-> product, origin |-> 1,
   destination |-> dest, quantity |-> quantity, created |-> created]

Demand(k, market, product, quantity, t) ==
  [demand_id |-> k, market |-> market, product |-> product,
   quantity |-> quantity, time_bucket |-> t]

(* Scenarios: served in full by two lots of one week; short in one market, *)
(* the sample data's case; served but over the capacity limit.             *)
LotsOf ==
  [served |-> {Lot(1, 1, 2, 2, W1), Lot(2, 1, 3, 1, W1)},
   short  |-> {Lot(3, 1, 2, 2, W1)},
   packed |-> {Lot(4, 2, 2, 9, W1)}]

DemandsOf ==
  [served |-> {Demand(1, 2, 1, 2, W2), Demand(2, 3, 1, 1, W2)},
   short  |-> {Demand(3, 2, 1, 3, W2)},
   packed |-> {Demand(4, 2, 2, 5, W2)}]

MCScenarioTable == DOMAIN LotsOf

MCLotTable == UNION {{lot.lot_id : lot \in LotsOf[sc]} : sc \in DOMAIN LotsOf}

Fold(op(_, _), base, seq) ==
  FoldLeft(LAMBDA acc, x : With(acc, LAMBDA a : op(a, x)), base, seq)

(* PlanningKernel.run as a function of its arguments: capacity limit 5, no *)
(* lead time.                                                              *)
KernelResult(lots, demands, budget) ==
  LET Load(st, lot) == [log |-> st.log \cup _lot_to_events(lot, st.seq, 0),
                        seq |-> st.seq + 3]
      network == infer_network(lots, {}, <<>>)
      TrustId(te) == <<te.event_type, te.node, te.product, te.time_bucket>>
      Iteration(r, n) ==
        LET state == run_flow(r.flow_events, demands)
            found == detect_trust_events(state, 5)
            candidates == generate_candidates(found, network)
            seen == [r EXCEPT !.history = Append(@, {TrustId(te) : te \in found}),
                              !.final_state = state]
        IN  IF r.settled THEN r
            ELSE IF candidates = <<>> THEN [seen EXCEPT !.settled = TRUE]
            ELSE [seen EXCEPT
                    !.selected = Append(@, candidates[1].operator_id),
                    !.flow_events = apply_operator(@, candidates[1], 0)]
  IN  Fold(Iteration,
           [history |-> <<>>, selected |-> <<>>, settled |-> FALSE,
            final_state |-> NothingDerived,
            flow_events |-> Fold(Load, [log |-> {}, seq |-> 0], OrderedLots(lots)).log],
           [n \in 1 .. budget |-> n])

Call(scenario, session, budget) ==
  [scenario |-> scenario, session |-> session, found |-> TRUE,
   demands |-> DemandsOf[scenario],
   result |-> KernelResult(LotsOf[scenario], DemandsOf[scenario], budget)]

NothingFound(session) ==
  [scenario |-> "none", session |-> session, found |-> FALSE, demands |-> {},
   result |-> KernelResult({}, {}, 0)]

CONSTANTS s1, s2

MCCalls ==
  {Call(sc, s, 2) : sc \in DOMAIN LotsOf, s \in {s1, s2}}
    \cup {Call("served", s1, 0), Call("short", s1, 1), NothingFound(s2)}

EmptyStore ==
  [sessions |-> <<>>, history |-> {}, trust |-> {}, operators |-> {}, flow |-> {}]

(* sample_data_sqlite_minimal.sql, up to the statement a foreign key stops: *)
(* the session, the scenario's trust event and operator are there.         *)
SampleSession == "sess-demo-001"

SampleStore ==
  LET call == Call("short", SampleSession, 2)
  IN  [sessions |-> (SampleSession :> [scenario |-> "short", status |-> "running"]),
       history |-> {}, trust |-> TrustRows(call, 0), operators |-> OperatorRows(call),
       flow |-> {[r EXCEPT !.iteration = 0] :
                   r \in {r \in FlowRows(call) : r.event.lot_id \in MCLotTable}}]

MCInitialStores == {EmptyStore, SampleStore}
=============================================================================
