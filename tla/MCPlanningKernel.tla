-------------------------- MODULE MCPlanningKernel --------------------------
(***************************************************************************)
(* Bounded inputs for PlanningKernel: one factory (node 1) that may also   *)
(* sell, two markets, two products, the last week of 2026 and the first of *)
(* 2027.                                                                   *)
(***************************************************************************)
EXTENDS PlanningKernel

W1 == 202652
W2 == 202701

Lot(k, product, dest, quantity, created) ==
  [lot_id |-> <<"lot", k>>, product |-> product, origin |-> 1,
   destination |-> dest, quantity |-> quantity, created |-> created]

Demand(k, market, product, quantity, t) ==
  [demand_id |-> k, market |-> market, product |-> product,
   quantity |-> quantity, time_bucket |-> t]

Opening(type, node, quantity, t, seq) ==
  [flow_id |-> <<"opening", type>>, lot_id |-> <<"lot", 0>>, event_type |-> type,
   product |-> 1, from_node |-> node, to_node |-> NoNode, time_bucket |-> t,
   quantity |-> quantity, creation_sequence |-> seq]

(* Lots: to a market, to the second market, kept at the factory.           *)
LotPool == { Lot(1, 1, 2, 3, W1), Lot(2, 1, 3, 2, W1), Lot(3, 2, NoNode, 2, W2) }

(* Demands: both markets, both products and weeks, the factory itself, and *)
(* two records for the same market, product and bucket (1 and 5).          *)
DemandPool == { Demand(1, 2, 1, 4, W1), Demand(2, 3, 1, 1, W2), Demand(3, 1, 2, 3, W2),
                Demand(4, 2, 1, 2, W2), Demand(5, 2, 1, 1, W1) }

OpeningLogs == { {},
  {Opening("inventory_adjustment", 2, 2, W1, 4), Opening("sale", 2, 3, W2, 7)} }

Arguments(lots, demands, initial, budget, limit, lead, production, upstream) ==
  [lots |-> lots, demands |-> demands, initial |-> initial,
   max_iterations |-> budget, capacity_limit |-> limit, lead_time |-> lead,
   production_nodes |-> production, upstream |-> upstream]

NoUpstream == <<>>

MCInputs ==
  { Arguments(lots, demands, initial, budget, limit, lead, {}, NoUpstream) :
      lots \in SUBSET LotPool, demands \in SUBSET DemandPool,
      initial \in OpeningLogs, budget \in {0, 3}, limit \in {4},
      lead \in {0, 1} }
  \cup
  { Arguments(lots, demands, {}, 3, 100, 0, {1, 3}, (2 :> 3)) :
      lots \in SUBSET LotPool, demands \in SUBSET DemandPool }

(* One market short in both weeks, one iteration less than it takes.       *)
ShortBudgetInputs ==
  { Arguments({Lot(1, 1, 2, 3, W1)}, {Demand(1, 2, 1, 4, W1), Demand(4, 2, 1, 2, W2)}, {},
              1, 100, 0, {}, NoUpstream) }

=============================================================================
