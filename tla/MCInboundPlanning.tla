------------------------- MODULE MCInboundPlanning -------------------------
(***************************************************************************)
(* Bounded directories for InboundPlanning: two products on trees of two   *)
(* to four nodes with some of the same names, PSI spaces of 8 weeks, two   *)
(* lots each and two outbound plans each: that of loading the demand, where*)
(* nothing arrives yet at the outbound root, and that of leveling it.      *)
(***************************************************************************)
EXTENDS InboundPlanning

Loaded(shipped) ==
  [w \in 0 .. Length - 1 |-> [EmptyWeek EXCEPT !.S = IF w \in DOMAIN shipped THEN shipped[w] ELSE <<>>]]

Leveled(shipped) == calcPS2I4supply(shiftS2P_LV_replace(Loaded(shipped), 1, {}))

Lead(nodes, mom, leaf) == [n \in nodes |-> IF n = "mom" THEN mom ELSE leaf]

Product(children, leadtime, ss, vacation, lots, loaded, leveled) ==
  [nodes |-> DOMAIN children, root |-> "supply_point", children |-> children,
   leadtime |-> leadtime, ss |-> [n \in DOMAIN children |-> IF n = "mom" THEN 2 * ss ELSE ss],
   vacation |-> vacation, lots |-> lots,
   plans |-> <<Loaded(loaded), Leveled(leveled)>>]

Chain == [supply_point |-> <<"mom">>, mom |-> <<"north">>, north |-> <<>>]
Fork  == [supply_point |-> <<"mom">>, mom |-> <<"north", "south">>, north |-> <<>>, south |-> <<>>]
Short == [supply_point |-> <<"mom">>, mom |-> <<>>]
Wide  == [supply_point |-> <<"mom", "south">>, mom |-> <<"north">>, north |-> <<>>, south |-> <<>>]

Open(children)         == [n \in DOMAIN children |-> {}]
Closed(children, node) == [n \in DOMAIN children |-> IF n = node THEN {3, 4} ELSE {}]

Rice(children, leadtime, vacation) ==
  Product(children, leadtime, 0, vacation, {1, 2},
          5 :> <<1>> @@ 6 :> <<2>>, 4 :> <<1>> @@ 5 :> <<2>>)

Beans(children, leadtime, vacation) ==
  Product(children, leadtime, 1, vacation, {3, 4},
          6 :> <<3, 4>>, 5 :> <<3>> @@ 6 :> <<4>>)

Plain(children, leaf) == Lead(DOMAIN children, 1, leaf)

MCDirectories ==
  { << Rice(a, Plain(a, leaf), Open(a)), Beans(b, Plain(b, 2), Open(b)) >> :
      a \in {Short, Chain, Wide}, b \in {Chain, Fork}, leaf \in {2} }
  \cup
  { << Rice(a, Plain(a, 1), Closed(a, node)), Beans(b, Plain(b, 1), Closed(b, node)) >> :
      a \in {Chain}, b \in {Chain, Wide}, node \in {"mom", "north"} }
  \cup
  { << Rice(a, Lead(DOMAIN a, 1, None), Open(a)), Beans(Fork, Lead(DOMAIN Fork, None, 1), Open(Fork)) >> :
      a \in {Chain, Wide} }

=============================================================================
