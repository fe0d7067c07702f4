--------------------------- MODULE MCPsiPlanning ---------------------------
(***************************************************************************)
(* Bounded products for PsiPlanning.  A planned year has 4 or 5 weeks and  *)
(* pre-production 2 of them; a product's plan is two years long, one more  *)
(* than its demand, as check_plan_range makes it.                          *)
(***************************************************************************)
EXTENDS PsiPlanning, PsiProducts

LotLists == { Some(keep) : keep \in {{1, 2, 3}, {1, 2, 4, 5}, {3, 5, 6}, 1 .. 7, {2, 7}} }

Session ==
  { Product(ForkNodes, ForkChildren, outside, LeadTime(ForkNodes, leaf), 1,
            NoVacation(ForkNodes), lots, <<4, 5, 4>>) :
      outside \in BOOLEAN, leaf \in {1, 2}, lots \in LotLists }
  \cup
  { Product(SkewNodes, SkewChildren, outside, LeadTime(SkewNodes, 1), 1,
            NoVacation(SkewNodes), lots, <<4, 4, 5>>) :
      outside \in BOOLEAN, lots \in LotLists }
  \cup
  { Product(ChainNodes, ChainChildren, TRUE, LeadTime(ChainNodes, leaf), 1,
            NoVacation(ChainNodes), EastOnly, <<4, 5, 4>>) : leaf \in {1, 2} }
  \cup
  { Product(FlatNodes, FlatChildren, FALSE, LeadTime(FlatNodes, leaf), 1,
            NoVacation(FlatNodes), EastOnly, <<4, 4, 4>>) : leaf \in {1, None} }
  \cup
  { Product(FlatNodes, FlatChildren, TRUE, [root |-> None, east |-> 1], 1,
            NoVacation(FlatNodes), EastOnly, <<4, 4, 4>>) }

(* More lots than weeks are left: some stay behind, some arrive too late.  *)
Full ==
  { Product(FlatNodes, FlatChildren, TRUE, LeadTime(FlatNodes, 1), 1, NoVacation(FlatNodes),
            [k \in 1 .. lots |-> Lot("east", IF k < 5 THEN 4 ELSE k, IF k < 5 THEN {1} ELSE {2})],
            <<4, 5, 4>>) : lots \in 8 .. 9 }

(* Attributes a tree loaded from the data base may have: vacations, other  *)
(* safety stocks.                                                          *)
Calendars ==
  { Product(ForkNodes, ForkChildren, TRUE, LeadTime(ForkNodes, 1), ss,
            [n \in ForkNodes |-> IF n \in closed THEN {4, 5} ELSE {}], lots, <<4, 5, 4>>) :
      ss \in {0, 1, 2}, closed \in {{}, {"dad"}, {"east"}}, lots \in LotLists }

(* A leaf closed in the first weeks: the lot of week 1 arrives in the last *)
(* week of the plan, and is asked for late all the way up.                 *)
ClosedAtStart ==
  { Product(ForkNodes, ForkChildren, TRUE, LeadTime(ForkNodes, leaf), 0,
            [n \in ForkNodes |-> IF n = "west" THEN {0, 1} ELSE {}], Some({2, 6}), <<4, 5, 4>>) :
      leaf \in {1, 2} }

(* A leaf whose name has a "-": its lots name a node that does not exist.  *)
Dashed ==
  { Product(ForkNodes, ForkChildren, TRUE, LeadTime(ForkNodes, 1), 1, NoVacation(ForkNodes),
            << Lot("east", 4, {1}), [Lot("west", 4, {1}) EXCEPT !.names = "west without -"],
               Lot("east", 6, {2}) >>, <<4, 5, 4>>) }

(* Demand the tree has no leaf for, and of a week after the plan.          *)
Unasked ==
  { Product(ForkNodes, ForkChildren, TRUE, LeadTime(ForkNodes, 1), 1, NoVacation(ForkNodes),
            << Lot("dad", 4, {1}), Lot("east", 4, {1}), Lot("east", 12, {2}) >>, <<4, 5, 4>>) }

MCProducts == Session \cup Full \cup Calendars \cup ClosedAtStart \cup Dashed \cup Unasked

(* The hypothesis under which it is proved that shipments reach their leaf.*)
ASSUME NamesTell

=============================================================================
