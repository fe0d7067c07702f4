-------------------------- MODULE MCPlannerEngines --------------------------
(***************************************************************************)
(* Bounded sessions of PlannerEngines, on products of PsiProducts.         *)
(***************************************************************************)
EXTENDS PlannerEngines, PsiProducts

MCWindowProducts ==
  { Product(ForkNodes, ForkChildren, outside, LeadTime(ForkNodes, 1), ss,
                NoVacation(ForkNodes), Some(lots), <<4, 5, 4>>) :
      outside \in BOOLEAN, ss \in {0, 1}, lots \in {{1, 2, 3}, {2, 7}} }
  \cup
  { Product(SkewNodes, SkewChildren, TRUE, LeadTime(SkewNodes, 1), 1,
                [n \in SkewNodes |-> IF n = "mid" THEN {3} ELSE {}], Some({3, 5}), <<4, 4, 5>>) }
  \cup
  { Product(FlatNodes, FlatChildren, FALSE, LeadTime(FlatNodes, 1), 1,
                NoVacation(FlatNodes), EastOnly, <<4, 4, 4>>) }

(* The hypotheses under which pulling, and that shipments reach their      *)
(* leaf, are proved for the window.                                        *)
ASSUME DADsCover /\ NamesTell

=============================================================================
