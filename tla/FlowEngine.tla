----------------------------- MODULE FlowEngine -----------------------------
(***************************************************************************)
(* The pure part of the planning kernel (pysi/core/kernel/                 *)
(* minimal_kernel.py): the derivation of a StateView from flow events and  *)
(* demands, the detection of trust events, the evaluation, and the         *)
(* resolver that turns a stockout into three new flow events.              *)
(*                                                                         *)
(* Data.  Nodes and products are numbered in the order of their names, so  *)
(* that the code's sorts by name are sorts by number; NoNode is Python's   *)
(* None.  A time bucket is the integer YYYYWW, which orders like the       *)
(* code's six-character string.  Quantities (floats in the code) are       *)
(* integers.  A dict is a function on the keys it holds.  A lot id is      *)
(* <<"lot", k>>, an operator is named by the stockout it answers.  The     *)
(* list of flow events is the set of its members: the code only appends to *)
(* it and sorts it before use, and creation_sequence tells members apart.  *)
(*                                                                         *)
(* A definition named X_Mistake is X with that mistake; nothing uses it.   *)
(* Substituted for X it shows that a property can fail.                    *)
(***************************************************************************)
EXTENDS Lists, SequencesExt

NoNode == 0

EVENT_PRIORITY ==
  [production |-> 10, shipment |-> 20, arrival |-> 30, sale |-> 40,
   inventory_adjustment |-> 50]

(* The records a call is made of.  An adjustment may take stock away; what *)
(* is asked for or made is never less than nothing.                        *)
IsFlowEvent(e) ==
  /\ e.event_type \in DOMAIN EVENT_PRIORITY
  /\ {e.product, e.from_node, e.to_node, e.time_bucket, e.creation_sequence} \subseteq Nat
  /\ e.quantity \in Int

IsDemand(d) ==
  /\ {d.demand_id, d.market, d.product, d.time_bucket} \subseteq Nat
  /\ d.market # NoNode
  /\ d.quantity \in Nat

IsLot(lot) ==
  /\ {lot.product, lot.origin, lot.destination, lot.created, lot.lot_id[2], lot.quantity}
       \subseteq Nat
  /\ lot.origin # NoNode

-----------------------------------------------------------------------------
(* Calendar: every year has 52 weeks.                                      *)

NextWeek_NoYearEnd(t) == t + 1

NextWeek(t) == IF t % 100 >= 52 THEN (t \div 100 + 1) * 100 + 1 ELSE t + 1

advance_time_bucket_NeverZero(t, weeks) == NextWeek(t)

advance_time_bucket(t, weeks) ==
  LET after[i \in 0 .. weeks] == IF i = 0 THEN t ELSE NextWeek(after[i - 1])
  IN  IF weeks > 0 THEN after[weeks] ELSE t

(* A canonical week, and its place on a line of 52-week years.             *)
IsWeek(t) == t \in Nat /\ t % 100 \in 1 .. 52

WeekIndex(t) == (t \div 100) * 52 + (t % 100)

-----------------------------------------------------------------------------
(* Dicts.                                                                  *)

Get(f, k)    == IF k \in DOMAIN f THEN f[k] ELSE 0
Put(f, k, v) == [x \in DOMAIN f \cup {k} |-> IF x = k THEN v ELSE f[x]]
Plus(f, k, d) == Put(f, k, Get(f, k) + d)

First(x, y) == IF x = NoNode THEN y ELSE x      \* Python's "x or y"

-----------------------------------------------------------------------------
(* State derivation: FlowEngine.run_flow.                                  *)

EventNode(e) ==
  CASE e.event_type = "shipment" -> e.from_node
    [] e.event_type = "sale"     -> First(e.from_node, e.to_node)
    [] OTHER                     -> First(e.to_node, e.from_node)

Signed_ShipmentKept(e) == IF e.event_type = "sale" THEN - e.quantity ELSE e.quantity

Signed(e) ==
  IF e.event_type \in {"shipment", "sale"} THEN - e.quantity ELSE e.quantity

ApplyEvent_ClipsStock(acc, e) ==
  LET n == EventNode(e)
  IN  IF n = NoNode THEN acc
      ELSE [acc EXCEPT
              !.current = Put(@, <<n, e.product>>,
                              Max({0, Get(@, <<n, e.product>>) + Signed(e)})),
              !.touched = @ \cup {<<n, e.product>>}]

ApplyEvent(acc, e) ==
  LET n == EventNode(e)
  IN  IF n = NoNode THEN acc
      ELSE [acc EXCEPT
              !.current  = Plus(@, <<n, e.product>>, Signed(e)),
              !.capacity = IF e.event_type = "production"
                           THEN Plus(@, <<n, e.time_bucket>>, e.quantity) ELSE @,
              !.supply   = IF e.event_type = "arrival"
                           THEN Plus(@, <<n, e.product, e.time_bucket>>, e.quantity)
                           ELSE @,
              !.touched  = @ \cup {<<n, e.product>>}]

ServeDemand_SellsAll(acc, d) ==
  LET stock == <<d.market, d.product>>
      key   == <<d.market, d.product, d.time_bucket>>
  IN  [acc EXCEPT
         !.demand  = Plus(@, key, d.quantity),
         !.current = Plus(@, stock, - d.quantity),
         !.backlog = Put(@, key, 0),
         !.touched = @ \cup {stock}]

ServeDemand_SignedBacklog(acc, d) ==
  LET stock == <<d.market, d.product>>
      key   == <<d.market, d.product, d.time_bucket>>
  IN  [acc EXCEPT
         !.demand  = Plus(@, key, d.quantity),
         !.current = Plus(@, stock, - Min({Get(@, stock), d.quantity})),
         !.backlog = Put(@, key, d.quantity - Get(acc.current, stock)),
         !.touched = @ \cup {stock}]

ServeDemand(acc, d) ==
  LET stock == <<d.market, d.product>>
      key   == <<d.market, d.product, d.time_bucket>>
      sold  == Min({Max({Get(acc.current, stock), 0}), d.quantity})
  IN  [acc EXCEPT
         !.demand  = Plus(@, key, d.quantity),
         !.current = Plus(@, stock, - sold),
         !.backlog = Put(@, key, d.quantity - sold),
         !.touched = @ \cup {stock}]

CloseBucket(acc, t) ==
  LET closed == {<<stock[1], stock[2], t>> : stock \in acc.touched}
  IN  [acc EXCEPT
         !.inventory = [k \in DOMAIN @ \cup closed |->
                          IF k \in closed THEN acc.current[<<k[1], k[2]>>] ELSE @[k]],
         !.touched   = {}]

EventKey(e)  == <<e.time_bucket, EVENT_PRIORITY[e.event_type], e.creation_sequence>>
DemandKey(d) == <<d.time_bucket, d.market, d.product, d.demand_id>>

(* A log and the demands as run_flow takes them.                           *)
IsLog(E) == IsFiniteSet(E) /\ \A e \in E : IsFlowEvent(e)

IsDemands(D) ==
  /\ IsFiniteSet(D)
  /\ \A d \in D : IsDemand(d)
  /\ \A d, e \in D : DemandKey(d) = DemandKey(e) => d = e

(* creation_sequence tells the events of a log apart: the last key of the  *)
(* processing order.                                                       *)
SequenceUnique(log) ==
  \A e, f \in log : e.creation_sequence = f.creation_sequence => e = f

InBucket(S, t) == {x \in S : x.time_bucket = t}

ApplyEvents(acc, events) ==
  LET after[i \in 0 .. Len(events)] ==
        IF i = 0 THEN acc ELSE With(after[i - 1], LAMBDA a : ApplyEvent(a, events[i]))
  IN  after[Len(events)]

ServeDemands(acc, demands) ==
  LET after[i \in 0 .. Len(demands)] ==
        IF i = 0 THEN acc ELSE With(after[i - 1], LAMBDA a : ServeDemand(a, demands[i]))
  IN  after[Len(demands)]

NothingDerived ==
  [current |-> <<>>, capacity |-> <<>>, supply |-> <<>>, demand |-> <<>>,
   backlog |-> <<>>, inventory |-> <<>>, touched |-> {}]

StateView(acc) ==
  [inventory |-> acc.inventory, demand |-> acc.demand, supply |-> acc.supply,
   backlog |-> acc.backlog, capacity |-> acc.capacity]

(* One time bucket: its events by their keys, then its demands.            *)
DeriveBucket(acc, t, flow_events, key, demands) ==
  With(InOrder([e \in InBucket(flow_events, t) |-> key[e]]), LAMBDA events :
    With(InOrder([d \in InBucket(demands, t) |-> DemandKey(d)]), LAMBDA orders :
      With(ServeDemands(ApplyEvents(acc, events), orders), LAMBDA served :
        CloseBucket(served, t))))

(* The loop over the time buckets.                                         *)
DeriveBuckets(times, flow_events, key, demands) ==
  LET after[i \in 0 .. Len(times)] ==
        IF i = 0 THEN NothingDerived
        ELSE With(after[i - 1], LAMBDA a : DeriveBucket(a, times[i], flow_events, key, demands))
  IN  after[Len(times)]

Derive(flow_events, key, demands) ==
  With(InOrder([t \in {x.time_bucket : x \in flow_events \cup demands} |-> <<t>>]), LAMBDA times :
    With(DeriveBuckets(times, flow_events, key, demands), StateView))

run_flow(flow_events, demands) ==
  With([e \in flow_events |-> EventKey(e)], LAMBDA key : Derive(flow_events, key, demands))

-----------------------------------------------------------------------------
(* Detection and evaluation.                                               *)

Stockouts(state) == {k \in DOMAIN state.backlog : state.backlog[k] > 0}

Overloads(state, limit) == {k \in DOMAIN state.capacity : state.capacity[k] > limit}

detect_trust_events(state, limit) ==
  {[event_type |-> "E_STOCKOUT_RISK", node |-> k[1], product |-> k[2],
    time_bucket |-> k[3], severity |-> state.backlog[k]] : k \in Stockouts(state)}
  \cup
  {[event_type |-> "E_CAPACITY_OVERLOAD", node |-> k[1], product |-> NoNode,
    time_bucket |-> k[2], severity |-> state.capacity[k] - limit]
      : k \in Overloads(state, limit)}

(* The totals evaluation is computed from; total_score is a function of them. *)
evaluate_state(state) ==
  LET Abs(i) == IF i < 0 THEN - i ELSE i
  IN  [total_demand    |-> SumFunction(state.demand),
       total_backlog   |-> SumFunction(state.backlog),
       total_inventory |-> SumFunction([k \in DOMAIN state.inventory |->
                                          Abs(state.inventory[k])])]

-----------------------------------------------------------------------------
(* Resolver.                                                               *)

SourceFor(te, net) ==
  IF te.node \in net.production_nodes THEN te.node
  ELSE IF te.node \in DOMAIN net.upstream THEN net.upstream[te.node]
  ELSE IF te.product \in DOMAIN net.origin THEN net.origin[te.product]
  ELSE te.node

TrustKey_ByNode(te) == <<te.node, te.product, te.time_bucket>>
TrustKey(te) == <<te.time_bucket, te.node, te.product>>

generate_candidates(trust_events, net) ==
  LET stockouts == {te \in trust_events : te.event_type = "E_STOCKOUT_RISK"}
      ordered == InOrder([te \in stockouts |-> TrustKey(te)])
  IN  [i \in 1 .. Len(ordered) |->
         LET te == ordered[i]
         IN  [operator_id |-> <<"op", te.node, te.product, te.time_bucket>>,
              source_node |-> SourceFor(te, net), destination_node |-> te.node,
              product |-> te.product, time_bucket |-> te.time_bucket,
              quantity |-> te.severity]]

(* Production and shipment at the source in the bucket t, arrival at the   *)
(* destination after the lead time: the shape of every lot and operator.   *)
Chain(lot_id, product, source, dest, t, lead_time, quantity, seq) ==
  LET Event(type, to, bucket, i) ==
        [flow_id |-> <<lot_id, type>>, lot_id |-> lot_id, event_type |-> type,
         product |-> product, from_node |-> source, to_node |-> to,
         time_bucket |-> bucket, quantity |-> quantity,
         creation_sequence |-> seq + i]
  IN  { Event("production", source, t, 0),
        Event("shipment", dest, t, 1),
        Event("arrival", dest, advance_time_bucket(t, lead_time), 2) }

next_sequence_Repeats(flow_events) ==
  IF flow_events = {} THEN 0 ELSE Max({e.creation_sequence : e \in flow_events})

next_sequence(flow_events) ==
  IF flow_events = {} THEN 0
  ELSE Max({e.creation_sequence : e \in flow_events}) + 1

apply_operator(flow_events, op, lead_time) ==
  flow_events \cup Chain(op.operator_id, op.product, op.source_node,
                          op.destination_node, op.time_bucket, lead_time,
                          op.quantity, next_sequence(flow_events))

-----------------------------------------------------------------------------
(* What PlanningKernel.run makes of a lot, and the network it infers from  *)
(* the lots unless the caller names it.                                    *)

LotKey(lot) == <<lot.created, lot.lot_id[2]>>

OrderedLots(lots) == InOrder([lot \in lots |-> LotKey(lot)])

_lot_to_events(lot, seq, lead_time) ==
  Chain(lot.lot_id, lot.product, lot.origin, First(lot.destination, lot.origin),
        lot.created, lead_time, lot.quantity, seq)

(* dict.setdefault in lot order: the first lot of a key decides.           *)
FirstLotWins(lots, key) ==
  LET Decisive(k) == CHOOSE lot \in lots :
                     /\ key[lot] = k
                     /\ \A other \in lots \ {lot} :
                          key[other] = k => Lex(LotKey(lot), LotKey(other))
  IN  [k \in {key[lot] : lot \in lots} \ {NoNode} |-> Decisive(k).origin]

infer_network(lots, production_nodes, upstream) ==
  LET inferred == FirstLotWins(lots, [lot \in lots |-> lot.destination])
  IN  [production_nodes |-> IF production_nodes = {} THEN {lot.origin : lot \in lots}
                            ELSE production_nodes,
       upstream |-> [n \in DOMAIN upstream \cup DOMAIN inferred |->
                       IF n \in DOMAIN upstream THEN upstream[n] ELSE inferred[n]],
       origin   |-> FirstLotWins(lots, [lot \in lots |-> lot.product])]
=============================================================================
