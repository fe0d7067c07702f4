--------------------------- MODULE PlanningKernel ---------------------------
(***************************************************************************)
(* One call of PlanningKernel.run (pysi/core/kernel/minimal_kernel.py      *)
(* 394-458): the lots become flow events, then the loop derives the state, *)
(* detects trust events, evaluates, and applies the first candidate        *)
(* operator to the event log, until nothing is left to do or the iteration *)
(* budget is spent.                                                        *)
(*                                                                         *)
(* A definition named X_Mistake is X with that mistake; no property and no  *)
(* action uses it.  Substituted for X it shows that a property can fail.   *)
(***************************************************************************)
EXTENDS FlowEngine

CONSTANT Inputs     \* the argument records run may be called with

(* Lots and demands have their ids for keys and lie in weeks, nodes have   *)
(* names, and the events of a log handed in by the caller are numbered.    *)
ASSUME InputsAssumption ==
  \A in \in Inputs :
    /\ IsFiniteSet(in.lots)
    /\ \A lot \in in.lots : IsLot(lot) /\ IsWeek(lot.created)
    /\ \A lot, other \in in.lots : LotKey(lot) = LotKey(other) => lot = other
    /\ IsDemands(in.demands)
    /\ \A d \in in.demands : IsWeek(d.time_bucket)
    /\ IsLog(in.initial)
    /\ SequenceUnique(in.initial)
    /\ in.lead_time \in Int
    /\ NoNode \notin in.production_nodes /\ in.production_nodes \subseteq Nat
    /\ \A n \in DOMAIN in.upstream : in.upstream[n] \in Nat \ {NoNode}

VARIABLES
  input,               \* the call's arguments
  phase,               \* "loading" lots, "planning", "returned" or "raised"
  pending,             \* lots not yet turned into events
  next_seq,            \* the loading loop's counter
  flow_events,         \* the event log
  history,             \* one [state, trust_events, evaluation] per iteration
  selected_operators   \* the operators applied, in order

vars == <<input, phase, pending, next_seq, flow_events, history, selected_operators>>

Init ==
  /\ input \in Inputs
  /\ phase = "loading"
  /\ pending = input.lots
  /\ next_seq = next_sequence(input.initial)
  /\ flow_events = input.initial
  /\ history = <<>>
  /\ selected_operators = <<>>

-----------------------------------------------------------------------------
(* The loading loop, in the order of (created_time_bucket, lot_id).        *)

LoadLot ==
  /\ phase = "loading"
  /\ \E lot \in pending :
       /\ \A other \in pending \ {lot} : Lex(LotKey(lot), LotKey(other))
       /\ flow_events' = flow_events \cup _lot_to_events(lot, next_seq, input.lead_time)
       /\ pending' = pending \ {lot}
  /\ next_seq' = next_seq + 3
  /\ UNCHANGED <<input, phase, history, selected_operators>>

EnterLoop ==
  /\ phase = "loading"
  /\ pending = {}
  /\ phase' = "planning"
  /\ UNCHANGED <<input, pending, next_seq, flow_events, history, selected_operators>>

-----------------------------------------------------------------------------
(* One iteration of the planning loop.                                     *)

network == infer_network(input.lots, input.production_nodes, input.upstream)

Observe(log) ==
  With(run_flow(log, input.demands), LAMBDA state :
    [state |-> state,
     trust_events |-> detect_trust_events(state, input.capacity_limit),
     evaluation |-> evaluate_state(state)])

(* Breaks out of the loop: no trust event, or none the resolver answers.   *)
Settle(now) ==
  /\ generate_candidates(now.trust_events, network) = <<>>
  /\ phase' = "returned"
  /\ UNCHANGED <<flow_events, selected_operators>>

Select_Unrecorded(now) ==
  \E candidates \in {generate_candidates(now.trust_events, network)} :
    /\ candidates # <<>>
    /\ flow_events' = apply_operator(flow_events, candidates[1], input.lead_time)
    /\ UNCHANGED <<phase, selected_operators>>

(* Applies the first candidate.                                            *)
Select(now) ==
  \E candidates \in {generate_candidates(now.trust_events, network)} :
    /\ candidates # <<>>
    /\ selected_operators' = Append(selected_operators, candidates[1])
    /\ flow_events' = apply_operator(flow_events, candidates[1], input.lead_time)
    /\ UNCHANGED phase

Iterate ==
  /\ phase = "planning"
  /\ Len(history) < input.max_iterations
  /\ \E now \in {Observe(flow_events)} :
       /\ history' = Append(history, now)
       /\ Settle(now) \/ Select(now)
  /\ UNCHANGED <<input, pending, next_seq>>

Exhaust_Spins ==
  /\ phase = "planning"
  /\ Len(history) >= input.max_iterations
  /\ phase' = IF history = <<>> THEN phase ELSE "returned"
  /\ UNCHANGED <<input, pending, next_seq, flow_events, history, selected_operators>>

(* The budget is spent.  Without any iteration history[-1] raises.         *)
Exhaust ==
  /\ phase = "planning"
  /\ Len(history) >= input.max_iterations
  /\ phase' = IF history = <<>> THEN "raised" ELSE "returned"
  /\ UNCHANGED <<input, pending, next_seq, flow_events, history, selected_operators>>

Terminated ==
  /\ phase \in {"returned", "raised"}
  /\ UNCHANGED vars

Next == LoadLot \/ EnterLoop \/ Iterate \/ Exhaust \/ Terminated

Spec == Init /\ [][Next]_vars /\ WF_vars(Next)

(* What run returns.                                                       *)
final_state == Last(history).state

-----------------------------------------------------------------------------
(* Vocabulary of the properties.                                           *)

(* At most one demand record for a market, product and bucket.             *)
DemandKeysUnique ==
  \A d, e \in input.demands :
    <<d.market, d.product, d.time_bucket>> = <<e.market, e.product, e.time_bucket>> => d = e

(* What the earliest bucket, then node, then product means.                *)
IsEarliest(k, S) ==
  /\ k \in S
  /\ \A other \in S \ {k} : Lex(<<k[3], k[1], k[2]>>, <<other[3], other[1], other[2]>>)

(* What a log moves of a product in events of some types.                  *)
Quantity(log, p, types) ==
  SumFunctionOnSet([e \in log |-> e.quantity],
                   {e \in log : e.product = p /\ e.event_type \in types})

(* What is shipped arrives, and whatever happens has a node.               *)
ShipmentsArrive(log) ==
  \A e \in log :
    /\ EventNode(e) # NoNode
    /\ Quantity(log, e.product, {"shipment"}) = Quantity(log, e.product, {"arrival"})

(* A state's stock of a product: the last snapshot of every node added up. *)
OnHand(state, p) ==
  LET nodes == {k[1] : k \in {o \in DOMAIN state.inventory : o[2] = p}}
      LastWeek(n) == Max({k[3] : k \in {o \in DOMAIN state.inventory : o[1] = n /\ o[2] = p}})
  IN  SumFunctionOnSet([n \in nodes |-> state.inventory[<<n, p, LastWeek(n)>>]], nodes)

(* The demand for a product that a state serves from stock.                *)
SoldOn(state, p) ==
  SumFunctionOnSet([k \in DOMAIN state.demand |-> state.demand[k] - state.backlog[k]],
                   {k \in DOMAIN state.demand : k[2] = p})

-----------------------------------------------------------------------------
(* Invariants.                                                             *)

(* The variables hold what the code's locals hold, and the history is at   *)
(* most one entry ahead of the selected operators.                         *)
TypeOK ==
  /\ phase \in {"loading", "planning", "returned", "raised"}
  /\ pending \subseteq input.lots
  /\ next_seq \in Nat
  /\ \A e \in flow_events : e.creation_sequence \in Nat
  /\ Len(history) - Len(selected_operators) \in {0, 1}

(* No two events of the log share a creation_sequence, whatever the lots,  *)
(* the initial log and the operators applied: run_flow's order is total.   *)
EventOrderTotal == SequenceUnique(flow_events)

(* Flow conservation (KERNEL_RULES 5): in the state derived from the log,  *)
(* a product's stock over all nodes, at each node's last snapshot, is what *)
(* was produced or adjusted in minus what was sold: every shipment that    *)
(* leaves a node arrives exactly once, those of an opening log provided.   *)
FlowConserved ==
  phase \in {"planning", "returned"} /\ DemandKeysUnique /\ ShipmentsArrive(input.initial) =>
    LET state == run_flow(flow_events, input.demands)
    IN  \A p \in {k[2] : k \in DOMAIN state.inventory} :
          OnHand(state, p)
            = Quantity(flow_events, p, {"production", "inventory_adjustment"})
                - Quantity(flow_events, p, {"sale"}) - SoldOn(state, p)

(* A log made from lots and operators never drives a stock below zero, at  *)
(* any bucket of any derived state: goods leave a node only after they     *)
(* are there.                                                              *)
StockNeverNegative ==
  input.initial = {} =>
    \A i \in 1 .. Len(history) : \A k \in DOMAIN history[i].state.inventory :
      history[i].state.inventory[k] >= 0

(* The order in which the event store replays a log (no event_priority, so *)
(* time_bucket then creation_sequence) derives the same state as the       *)
(* kernel's own order.                                                     *)
ReplayDerivesSameState ==
  phase \in {"returned", "raised"} =>
    LET stored == [e \in flow_events |-> <<e.time_bucket, e.creation_sequence>>]
    IN  Derive(flow_events, stored, input.demands) = run_flow(flow_events, input.demands)

(* Backlog and demand tell the same story: when no market has two demands  *)
(* in a bucket, every backlog lies between zero and the demand it belongs  *)
(* to, and a stockout leaves no stock of the product at the market.        *)
BacklogIsUnmetDemand ==
  DemandKeysUnique =>
    \A i \in 1 .. Len(history) :
      LET state == history[i].state
      IN  \A k \in DOMAIN state.demand :
            /\ state.backlog[k] \in 0 .. state.demand[k]
            /\ state.backlog[k] > 0 => state.inventory[k] <= 0

(* Time buckets stay canonical YYYYWW weeks (KERNEL_RULES 12), across year *)
(* ends too, and an arrival lies exactly the lead time after the shipment  *)
(* of its lot.                                                             *)
ArrivalAfterLeadTime ==
  \A e, f \in flow_events \ input.initial :
    /\ IsWeek(e.time_bucket)
    /\ e.creation_sequence = f.creation_sequence + 1 /\ e.event_type = "arrival"
         => WeekIndex(e.time_bucket) = WeekIndex(f.time_bucket) + Max({input.lead_time, 0})

(* With no lead time, the operator applied after an iteration clears       *)
(* exactly the earliest stockout seen in it and leaves every other backlog *)
(* as it was, later buckets and other markets included.                    *)
EarliestStockoutCleared ==
  input.lead_time = 0 /\ input.initial = {} /\ DemandKeysUnique =>
    \A i \in 1 .. Len(history) - 1 :
      \E k \in Stockouts(history[i].state) :
        /\ IsEarliest(k, Stockouts(history[i].state))
        /\ history[i + 1].state.backlog = [history[i].state.backlog EXCEPT ![k] = 0]

-----------------------------------------------------------------------------
(* Liveness.                                                               *)

(* With no lead time and more iterations than the first one sees           *)
(* stockouts, run returns a final state without any stockout.              *)
Converges ==
  ( /\ Len(history) = 1
    /\ input.lead_time = 0 /\ input.initial = {} /\ DemandKeysUnique
    /\ Cardinality(Stockouts(history[1].state)) < input.max_iterations )
  ~> (phase = "returned" /\ Stockouts(final_state) = {})

(* Every call returns or raises.                                           *)
Terminates == <>(phase \in {"returned", "raised"})

-----------------------------------------------------------------------------
(* Claims of the documents that the code does not keep.                    *)

(* WOM_EXECUTION_MODEL.md, 10: the flow simulation is re-run after an      *)
(* operator is applied, so the returned state is that of the returned log. *)
FinalStateOfFinalLog ==
  phase = "returned" => final_state = run_flow(flow_events, input.demands)

=============================================================================
