----------------------------- MODULE MCPsiState -----------------------------
(***************************************************************************)
(* Bounded sessions of PsiState: windows with one or two products (numbers,*)
(* for their order) on one or two nodes, with PSI spaces of two or three   *)
(* weeks, of which a window may plan fewer.                                *)
(***************************************************************************)
EXTENDS PsiState

Lists(s, i, p) == [S |-> s, I |-> i, P |-> p]

Long  == [w \in 0 .. 2 |-> IF w = 2 THEN Lists(<<2>>, <<3>>, <<>>) ELSE Lists(<<1>>, <<>>, <<2, 3>>)]
Short == [w \in 0 .. 1 |-> IF w = 1 THEN Lists(<<4>>, <<>>, <<5>>) ELSE EmptyWeek]
None  == EmptyPsi(2)

Both   == [trees |-> 1 :> [root |-> Long, leaf |-> Short] @@ 2 :> [root |-> Short],
           inbound |-> {1, 2}, products |-> <<2, 1>>, root |-> 2, range |-> 3, fails |-> NoFile]

(* A product without an inbound tree, and weeks beyond the range.          *)
Partly == [trees |-> 1 :> [root |-> Long] @@ 2 :> [root |-> Short], inbound |-> {1},
           products |-> <<1, 2>>, root |-> 1, range |-> 2, fails |-> NoFile]

(* No lots; a node without a lead time.                                    *)
Empty  == [trees |-> 2 :> [root |-> None, leaf |-> None], inbound |-> {2}, products |-> <<2>>,
           root |-> 2, range |-> 2, fails |-> NoFile]
NoLead == [trees |-> 2 :> [root |-> Short], inbound |-> {2}, products |-> <<2>>, root |-> 2,
           range |-> 2, fails |-> product_tree_inbound]

MCEnvironments == {Both, Empty}
MCPlans == {Partly, NoLead}

=============================================================================
