------------------------ MODULE InboundPlanningProofs ------------------------
(***************************************************************************)
(* Proofs of InboundPlanning, for any products on any trees: stock agrees  *)
(* with the movements after every SpFw that ended well, the orders of a    *)
(* product are its own, and they are what the outbound plan requests.      *)
(*                                                                         *)
(* For the last, a lot's weeks are followed down the tree: Leaving is what *)
(* a supplier ships of what its parent receives in the weeks A, Received   *)
(* what a node receives of what it ships in them.  The invariant OrdersInv *)
(* says which weeks a walk never writes: there nothing was ever shipped.   *)
(***************************************************************************)
EXTENDS InboundPlanning, OperatorLemmas

Spaces == Space(Length, Nat)

(* The layers of every product are PSI spaces.                             *)
IsLayers(layers) ==
  /\ layers = [i \in Opened |-> layers[i]]
  /\ \A i \in Opened : layers[i] \in [Node(i) -> Spaces]

TypeInv ==
  /\ products \in Directories
  /\ outbound \in [Opened -> Spaces]
  /\ IsLayers(psi4demand)
  /\ IsLayers(own)
  /\ shared \in SUBSET (Opened \X UNION {Node(j) : j \in Opened})

(* The demand layer of the product opened last differs from its own at     *)
(* nodes another product supplies, and but for the root in the stock only. *)
OwnInv ==
  /\ \A i \in Opened : i # LastOpened => psi4demand[i] = own[i]
  /\ \A n \in Node(LastOpened) :
       psi4demand[LastOpened][n] # own[LastOpened][n] =>
         /\ \E j \in Opened \ {LastOpened} : <<j, n>> \in shared
         /\ n # Root(LastOpened) =>
              SameMoves(psi4demand[LastOpened][n], own[LastOpened][n], Length)

IInv == TypeInv /\ OwnInv /\ StockFollowsMoves

-----------------------------------------------------------------------------
(* The trees.                                                              *)

(* What the assumption on the directories says of an opened product.       *)
LEMMA ProductFacts ==
  ASSUME products \in Directories, NEW i \in Opened
  PROVE  /\ Length \in Nat \ {0}
         /\ LastOpened \in Opened /\ Root(i) = Root(LastOpened)
         /\ IsFiniteSet(Node(i)) /\ TreeOf(Node(i), Root(i), products[i].children)
         /\ \A n \in Node(i) : products[i].ss[n] \in Nat
         /\ products[i].plans \in Seq(Spaces)
<1>1. /\ products \in Seq({products[k] : k \in DOMAIN products}) /\ products # <<>>
      /\ \A k \in DOMAIN products : products[k].root = products[1].root
      /\ TreeOf(products[i].nodes, products[i].root, products[i].children)
      /\ products[i].ss \in [products[i].nodes -> Nat]
      /\ products[i].plans \in Seq(Space(Length, Nat))
  BY ProductsAssumption DEF Opened
<1>2. LastOpened \in Opened
  <2>1. PICK A : products \in Seq(A)
    BY <1>1
  <2> QED
    BY <1>1, <2>1 DEF LastOpened, Opened
<1>3. Root(i) = Root(LastOpened)
  BY <1>1, <1>2 DEF Root, Opened
<1> QED
  BY <1>1, <1>2, <1>3, LengthAssumption DEF Node, Root, Spaces, TreeOf

Above(i) == [n \in Node(i) |-> IF n = Root(i) THEN n ELSE Parent(i, n)]

(* The tree of an opened product, by its parents.                          *)
LEMMA ProductTree ==
  ASSUME products \in Directories, NEW i \in Opened
  PROVE  \E depth : \E max \in Nat : IsTree(Node(i), Root(i), Above(i), depth, max)
<1>1. /\ IsFiniteSet(Node(i)) /\ Root(i) \in Node(i)
      /\ \A n \in Node(i) \ {Root(i)} : \E m \in Node(i) : Contains(Children(i, m), n)
  BY ProductFacts DEF TreeOf, Children
<1> DEFINE max == Cardinality(Node(i))
<1>2. max \in Nat
  BY <1>1, FS_CardinalityType
<1>3. PICK depth \in [Node(i) -> 0 .. max] :
        \A m, n \in Node(i) : Contains(Children(i, m), n) => depth[m] < depth[n]
  BY ProductFacts DEF TreeOf, Children
<1>4. ASSUME NEW n \in Node(i), n # Root(i)
      PROVE  Parent(i, n) \in Node(i) /\ depth[Parent(i, n)] < depth[n]
  <2>1. \E m \in Node(i) : Contains(Children(i, m), n)
    BY <1>1, <1>4
  <2>2. Parent(i, n) \in Node(i) /\ Contains(Children(i, Parent(i, n)), n)
    BY <2>1 DEF Parent
  <2> QED
    BY <1>3, <2>2
<1> HIDE DEF max
<1>5. IsTree(Node(i), Root(i), Above(i), depth, max)
  <2>1. Above(i) \in [Node(i) -> Node(i)]
    BY <1>1, <1>4 DEF Above
  <2>2. \A n \in Node(i) : n # Root(i) => depth[Above(i)[n]] < depth[n]
    BY <1>4 DEF Above
  <2> QED
    BY <1>1, <1>3, <2>1, <2>2 DEF IsTree
<1> QED
  BY <1>2, <1>5

-----------------------------------------------------------------------------
(* Ordering backward.                                                      *)

(* A supplier is asked to ship what its parent receives: its stock and     *)
(* arrivals stay.                                                          *)
IsFed(fed, i, node, child, c) ==
  \A v \in 0 .. Length - 1 :
    LET from == {w \in 1 .. Length - 2 : Leaves(i, c, w) = v}
    IN  /\ fed[v].S = IF v > 0 /\ from # {} THEN node[Min(from)].P ELSE child[v].S
        /\ fed[v].I = child[v].I /\ fed[v].P = child[v].P

(* A node fed by its parent has a space still, fed as IsFed says.          *)
LEMMA FeedKeeps ==
  ASSUME products \in Directories, NEW i \in Opened, NEW node \in Spaces, NEW child \in Spaces, NEW c
  PROVE  LET fed == shift_P2childS_LV(i, node, child, c)
         IN  fed \in Spaces /\ IsFed(fed, i, node, child, c)
<1> DEFINE From(v) == {w \in 1 .. Length - 2 : Leaves(i, c, w) = v}
           s == [v \in 0 .. Length - 1 |->
                   IF v > 0 /\ From(v) # {} THEN node[Min(From(v))].P ELSE child[v].S]
           st == [v \in 0 .. Length - 1 |-> child[v].I]
           p == [v \in 0 .. Length - 1 |-> child[v].P]
           fed == [v \in DOMAIN child |->
                     IF v > 0 /\ From(v) # {} THEN [child[v] EXCEPT !.S = node[Min(From(v))].P]
                     ELSE child[v]]
<1>1. shift_P2childS_LV(i, node, child, c) = fed
  BY DEF shift_P2childS_LV
<1>2. Length \in Nat \ {0}
  BY ProductFacts
<1>3. /\ DOMAIN child = 0 .. Length - 1 /\ child[0].I = <<>>
      /\ \A w \in 0 .. Length - 1 :
           /\ child[w] = [S |-> child[w].S, I |-> child[w].I, P |-> child[w].P]
           /\ child[w].S \in Seq(Nat) /\ child[w].I \in Seq(Nat) /\ child[w].P \in Seq(Nat)
  <2> HIDE DEF s, st, p, fed
  <2> QED
    BY <1>2, SpaceParts DEF Spaces
<1>4. \A w \in 0 .. Length - 1 : node[w].P \in Seq(Nat)
  <2> HIDE DEF s, st, p, fed
  <2> QED
    BY <1>2, SpaceParts DEF Spaces
<1>5. ASSUME NEW v, From(v) # {} PROVE node[Min(From(v))].P \in Seq(Nat)
  <2>1. From(v) \in SUBSET Nat /\ From(v) \in SUBSET (0 .. Length - 1)
    BY <1>2
  <2> HIDE DEF From
  <2>2. \E m \in From(v) : \A y \in From(v) : m <= y
    BY <1>5, <2>1, LeastMember
  <2>3. Min(From(v)) \in From(v)
    BY <2>2 DEF Min
  <2> QED
    BY <1>4, <2>1, <2>3
<1> HIDE DEF From
<1>6. ASSUME NEW v \in 0 .. Length - 1
      PROVE  fed[v] = [S |-> s[v], I |-> st[v], P |-> p[v]] /\ s[v] \in Seq(Nat)
  <2>1. PICK x \in Seq(Nat), y \in Seq(Nat), z \in Seq(Nat) :
          child[v] = [S |-> x, I |-> y, P |-> z] /\ x = child[v].S /\ y = child[v].I /\ z = child[v].P
    BY <1>3
  <2>2. st[v] = y /\ p[v] = z
    BY <2>1
  <2>3. CASE v > 0 /\ From(v) # {}
    <3>1. fed[v] = [child[v] EXCEPT !.S = node[Min(From(v))].P] /\ s[v] = node[Min(From(v))].P
      BY <1>3, <2>3
    <3>2. fed[v] = [S |-> node[Min(From(v))].P, I |-> y, P |-> z]
      BY <2>1, <3>1
    <3> QED
      BY <1>5, <2>2, <2>3, <3>1, <3>2
  <2>4. CASE ~(v > 0 /\ From(v) # {})
    <3>1. fed[v] = child[v] /\ s[v] = x
      BY <1>3, <2>1, <2>4
    <3> QED
      BY <2>1, <2>2, <3>1
  <2> QED
    BY <2>3, <2>4
<1>7. s \in [0 .. Length - 1 -> Seq(Nat)]
  BY <1>6
<1>8. st \in [0 .. Length - 1 -> Seq(Nat)] /\ p \in [0 .. Length - 1 -> Seq(Nat)] /\ st[0] = <<>>
  BY <1>2, <1>3
<1>9. fed = SpaceOf(Length, s, st, p)
  <2>1. fed = [w \in 0 .. Length - 1 |-> fed[w]]
    BY <1>3
  <2> HIDE DEF fed, s, st, p
  <2> QED
    BY <1>6, <2>1 DEF SpaceOf
<1>10. \A v \in 0 .. Length - 1 :
         /\ s[v] = IF v > 0 /\ From(v) # {} THEN node[Min(From(v))].P ELSE child[v].S
         /\ st[v] = child[v].I /\ p[v] = child[v].P
  OBVIOUS
<1> HIDE DEF fed, s, st, p
<1>11. fed \in Spaces
  BY <1>2, <1>7, <1>8, <1>9, SpaceIntro DEF Spaces
<1>12. ASSUME NEW v \in 0 .. Length - 1
       PROVE  /\ fed[v].S = IF v > 0 /\ From(v) # {} THEN node[Min(From(v))].P ELSE child[v].S
              /\ fed[v].I = child[v].I /\ fed[v].P = child[v].P
  <2>1. fed[v].S = s[v] /\ fed[v].I = st[v] /\ fed[v].P = p[v]
    <3>1. fed[v] = [S |-> s[v], I |-> st[v], P |-> p[v]]
      BY <1>6
    <3> QED
      BY <3>1
  <2> QED
    BY <1>10, <2>1
<1> QED
  BY <1>1, <1>11, <1>12 DEF From, IsFed

(* Parents of the same moves feed children to the same moves.              *)
LEMMA FeedFollowsMoves ==
  ASSUME products \in Directories, NEW i \in Opened, NEW m \in Spaces, NEW n \in Spaces,
         NEW a \in Spaces, NEW b \in Spaces,
         SameMoves(m, n, Length), SameMoves(a, b, Length), NEW c
  PROVE  SameMoves(shift_P2childS_LV(i, m, a, c), shift_P2childS_LV(i, n, b, c), Length)
<1> DEFINE From(v) == {w \in 1 .. Length - 2 : Leaves(i, c, w) = v}
           f == shift_P2childS_LV(i, m, a, c)
           g == shift_P2childS_LV(i, n, b, c)
<1>1. \A v \in 0 .. Length - 1 :
        /\ f[v].S = IF v > 0 /\ From(v) # {} THEN m[Min(From(v))].P ELSE a[v].S
        /\ f[v].P = a[v].P
  <2>1. IsFed(f, i, m, a, c)
    BY FeedKeeps
  <2> HIDE DEF f, g
  <2> QED
    BY <2>1 DEF IsFed
<1>2. \A v \in 0 .. Length - 1 :
        /\ g[v].S = IF v > 0 /\ From(v) # {} THEN n[Min(From(v))].P ELSE b[v].S
        /\ g[v].P = b[v].P
  <2>1. IsFed(g, i, n, b, c)
    BY FeedKeeps
  <2> HIDE DEF f, g
  <2> QED
    BY <2>1 DEF IsFed
<1>3. ASSUME NEW v, From(v) # {} PROVE m[Min(From(v))].P = n[Min(From(v))].P
  <2>1. From(v) \in SUBSET Nat /\ From(v) \in SUBSET (0 .. Length - 1)
    BY LengthAssumption
  <2> HIDE DEF From
  <2>2. \E y \in From(v) : \A z \in From(v) : y <= z
    BY <1>3, <2>1, LeastMember
  <2>3. Min(From(v)) \in From(v)
    BY <2>2 DEF Min
  <2> QED
    BY <2>1, <2>3 DEF SameMoves
<1> HIDE DEF From, f, g
<1>4. ASSUME NEW v \in 0 .. Length - 1 PROVE f[v].S = g[v].S /\ f[v].P = g[v].P
  <2>1. a[v].S = b[v].S /\ a[v].P = b[v].P
    BY DEF SameMoves
  <2> QED
    BY <1>1, <1>2, <1>3, <2>1
<1> QED
  BY <1>4 DEF SameMoves, f, g

(* What the walk makes of a node, given what it made of the parent.        *)
Passed(i, layer, n, above) ==
  LET fed == IF n # Root(i) /\ Fed(i, n) THEN shift_P2childS_LV(i, above, layer[n], n) ELSE layer[n]
  IN  IF Visited(i, n) THEN shiftS2P_LV(fed, products[i].ss[n], products[i].vacation[n]) ELSE fed

SameStock(a, b, len) == \A w \in 0 .. len - 1 : a[w].I = b[w].I

(* A node passed by "Inbound SpFw" keeps its stock till it is reckoned.    *)
LEMMA PassedKeeps ==
  ASSUME products \in Directories, NEW i \in Opened, NEW layer \in [Node(i) -> Spaces],
         NEW n \in Node(i), NEW above \in Spaces
  PROVE  /\ Passed(i, layer, n, above) \in Spaces
         /\ SameStock(Passed(i, layer, n, above), layer[n], Length)
<1> DEFINE fed == IF n # Root(i) /\ Fed(i, n) THEN shift_P2childS_LV(i, above, layer[n], n)
                  ELSE layer[n]
<1>1. layer[n] \in Spaces /\ products[i].ss[n] \in Nat /\ Length \in Nat \ {0}
  BY ProductFacts
<1>2. fed \in Spaces /\ SameStock(fed, layer[n], Length)
  <2>1. shift_P2childS_LV(i, above, layer[n], n) \in Spaces
        /\ SameStock(shift_P2childS_LV(i, above, layer[n], n), layer[n], Length)
    <3> DEFINE f == shift_P2childS_LV(i, above, layer[n], n)
    <3>1. f \in Spaces /\ IsFed(f, i, above, layer[n], n)
      BY <1>1, FeedKeeps
    <3> HIDE DEF f
    <3>2. SameStock(f, layer[n], Length)
      BY <3>1 DEF SameStock, IsFed
    <3> QED
      BY <3>1, <3>2 DEF f
  <2> QED
    BY <1>1, <2>1 DEF SameStock
<1> HIDE DEF fed
<1>3. shiftS2P_LV(fed, products[i].ss[n], products[i].vacation[n]) \in Spaces
      /\ SameStock(shiftS2P_LV(fed, products[i].ss[n], products[i].vacation[n]), fed, Length)
  <2> DEFINE sw == products[i].ss[n]
             vac == products[i].vacation[n]
  <2>1. fed \in Space(Length, Nat) /\ sw \in Nat
    BY <1>1, <1>2 DEF Spaces
  <2> HIDE DEF sw, vac
  <2>2. ASSUME NEW psi \in Space(Length, Nat), NEW safety \in Nat, NEW vacation
        PROVE  /\ shiftS2P_LV(psi, safety, vacation) \in Space(Length, Nat)
               /\ \A w \in 0 .. Length - 1 : shiftS2P_LV(psi, safety, vacation)[w].I = psi[w].I
    <3>1. Length \in Nat \ {0}
      BY <1>1
    <3> QED
      BY <3>1, ShiftAppends
  <2>3. /\ shiftS2P_LV(fed, sw, vac) \in Space(Length, Nat)
        /\ \A w \in 0 .. Length - 1 : shiftS2P_LV(fed, sw, vac)[w].I = fed[w].I
    BY <2>1, <2>2
  <2> QED
    BY <2>3 DEF Spaces, SameStock, sw, vac
<1>4. Passed(i, layer, n, above)
        = IF Visited(i, n) THEN shiftS2P_LV(fed, products[i].ss[n], products[i].vacation[n]) ELSE fed
  BY DEF Passed, fed
<1> QED
  BY <1>2, <1>3, <1>4 DEF SameStock

(* It moves as it would have with another stock.                           *)
LEMMA PassedFollowsMoves ==
  ASSUME products \in Directories, NEW i \in Opened,
         NEW a \in [Node(i) -> Spaces], NEW b \in [Node(i) -> Spaces], NEW n \in Node(i),
         SameMoves(a[n], b[n], Length),
         NEW u \in Spaces, NEW v \in Spaces, n = Root(i) \/ SameMoves(u, v, Length)
  PROVE  SameMoves(Passed(i, a, n, u), Passed(i, b, n, v), Length)
<1> DEFINE Feed(layer, above) ==
             IF n # Root(i) /\ Fed(i, n) THEN shift_P2childS_LV(i, above, layer[n], n) ELSE layer[n]
           s == Feed(a, u)
           t == Feed(b, v)
<1>1. a[n] \in Spaces /\ b[n] \in Spaces /\ products[i].ss[n] \in Nat /\ Length \in Nat \ {0}
  BY ProductFacts
<1>2. shift_P2childS_LV(i, u, a[n], n) \in Spaces /\ shift_P2childS_LV(i, v, b[n], n) \in Spaces
  BY <1>1, FeedKeeps
<1>3. n # Root(i) => SameMoves(shift_P2childS_LV(i, u, a[n], n), shift_P2childS_LV(i, v, b[n], n), Length)
  BY <1>1, FeedFollowsMoves
<1>4. s \in Spaces /\ t \in Spaces /\ SameMoves(s, t, Length)
  BY <1>1, <1>2, <1>3
<1>5. /\ Passed(i, a, n, u)
           = IF Visited(i, n) THEN shiftS2P_LV(s, products[i].ss[n], products[i].vacation[n]) ELSE s
      /\ Passed(i, b, n, v)
           = IF Visited(i, n) THEN shiftS2P_LV(t, products[i].ss[n], products[i].vacation[n]) ELSE t
  BY DEF Passed
<1> HIDE DEF s, t
<1>6. SameMoves(shiftS2P_LV(s, products[i].ss[n], products[i].vacation[n]),
                shiftS2P_LV(t, products[i].ss[n], products[i].vacation[n]), Length)
  BY <1>1, <1>4, ShiftFollowsMoves DEF Spaces
<1> QED
  BY <1>4, <1>5, <1>6

(* The walk passes every node once, its parent before it.                  *)
LEMMA WalkPasses ==
  ASSUME products \in Directories, NEW i \in Opened, NEW layer \in [Node(i) -> Spaces]
  PROVE  LET after == calc_all_psiS2P2childS_preorder(i, layer)
         IN  /\ after \in [Node(i) -> Spaces]
             /\ \A n \in Node(i) : after[n] = Passed(i, layer, n, after[Above(i)[n]])
<1> DEFINE root == Root(i)
           parent == Above(i)
           node == Node(i)
           base == Passed(i, layer, root, layer[root])
           step == [n \in node |-> [above \in Spaces |-> Passed(i, layer, n, above)]]
           after == CHOOSE f : f = [n \in node |-> Passed(i, layer, n, f[Parent(i, n)])]
<1>0. calc_all_psiS2P2childS_preorder(i, layer) = after
  BY Zenon DEF calc_all_psiS2P2childS_preorder, Passed
<1>1. PICK depth : \E max \in Nat : IsTree(node, root, parent, depth, max)
  BY ProductTree
<1>2. PICK max \in Nat : IsTree(node, root, parent, depth, max)
  BY <1>1
<1>3. root \in node /\ \A n \in node : parent[n] \in node /\ (n # root => parent[n] = Parent(i, n))
  BY <1>2 DEF IsTree, Above
<1>4. \A above \in Spaces, n \in node : Passed(i, layer, n, above) \in Spaces
  BY PassedKeeps
<1>5. \A u, v : Passed(i, layer, root, u) = Passed(i, layer, root, v)
  BY DEF Passed
<1>6. base \in Spaces
  BY <1>3, <1>4
<1>7. step \in StepsDown(node, Spaces)
  BY <1>4 DEF StepsDown
<1> HIDE DEF base, step, root, parent, node
<1>8. PICK g \in [node -> Spaces] :
        \A n \in node : g[n] = IF n = root THEN base ELSE step[n][g[parent[n]]]
  BY <1>2, <1>6, <1>7, WalkExists
<1>9. ASSUME NEW n \in node PROVE g[n] = Passed(i, layer, n, g[Parent(i, n)])
  <2>1. CASE n = root
    BY <1>5, <1>8, <2>1 DEF base
  <2>2. CASE n # root
    <3>1. parent[n] = Parent(i, n) /\ g[parent[n]] \in Spaces
      BY <1>3, <1>8, <2>2
    <3>2. g[n] = step[n][g[parent[n]]]
      BY <1>8, <2>2
    <3> QED
      BY <3>1, <3>2 DEF step
  <2> QED
    BY <2>1, <2>2
<1>10. g = [n \in node |-> Passed(i, layer, n, g[Parent(i, n)])]
  BY <1>8, <1>9
<1>11. after = [n \in node |-> Passed(i, layer, n, after[Parent(i, n)])]
  BY <1>10, Zenon
<1> HIDE DEF after
<1>12. ASSUME NEW n \in node PROVE after[n] = Passed(i, layer, n, after[parent[n]])
  <2>1. after[n] = Passed(i, layer, n, after[Parent(i, n)])
    BY <1>11
  <2>2. n = root => after[n] = Passed(i, layer, n, after[parent[n]])
    BY <1>5, <2>1
  <2> QED
    BY <1>3, <2>1, <2>2
<1> DEFINE Good == {n \in node : after[n] \in Spaces}
<1>13. ASSUME NEW n \in node, n = root \/ parent[n] \in Good PROVE n \in Good
  <2>1. CASE n = root
    BY <1>5, <1>6, <1>12, <2>1 DEF base
  <2>2. CASE parent[n] \in Good
    BY <1>4, <1>12, <2>2
  <2> QED
    BY <1>13, <2>1, <2>2
<1>14. \A n \in node : n \in Good
  <2> HIDE DEF Good
  <2> QED
    BY <1>2, <1>13, DownTheTree
<1>15. after \in [node -> Spaces]
  BY <1>11, <1>14
<1> QED
  BY <1>0, <1>12, <1>15 DEF node, parent

(* What the walk makes of the movements depends on the movements, and it   *)
(* leaves the stocks as they are.                                          *)
LEMMA WalkFollowsMoves ==
  ASSUME products \in Directories, NEW i \in Opened,
         NEW a \in [Node(i) -> Spaces], NEW b \in [Node(i) -> Spaces],
         \A n \in Node(i) : SameMoves(a[n], b[n], Length),
         NEW n \in Node(i)
  PROVE  LET s == calc_all_psiS2P2childS_preorder(i, a)
             t == calc_all_psiS2P2childS_preorder(i, b)
         IN  /\ SameMoves(s[n], t[n], Length)
             /\ s[n] # t[n] => a[n] # b[n]
<1> DEFINE s == calc_all_psiS2P2childS_preorder(i, a)
           t == calc_all_psiS2P2childS_preorder(i, b)
           Good == {m \in Node(i) : SameMoves(s[m], t[m], Length)}
<1>1. s \in [Node(i) -> Spaces] /\ \A m \in Node(i) : s[m] = Passed(i, a, m, s[Above(i)[m]])
  BY WalkPasses
<1>2. t \in [Node(i) -> Spaces] /\ \A m \in Node(i) : t[m] = Passed(i, b, m, t[Above(i)[m]])
  BY WalkPasses
<1> HIDE DEF s, t
<1>3. PICK depth : \E max \in Nat : IsTree(Node(i), Root(i), Above(i), depth, max)
  BY ProductTree
<1>4. PICK max \in Nat : IsTree(Node(i), Root(i), Above(i), depth, max)
  BY <1>3
<1>5. \A m \in Node(i) : Above(i)[m] \in Node(i)
  BY <1>4 DEF IsTree
<1>6. ASSUME NEW m \in Node(i), m = Root(i) \/ Above(i)[m] \in Good PROVE m \in Good
  <2>1. PICK u \in Spaces, v \in Spaces : u = s[Above(i)[m]] /\ v = t[Above(i)[m]]
    BY <1>1, <1>2, <1>5
  <2>2. m = Root(i) \/ SameMoves(u, v, Length)
    BY <1>6, <2>1
  <2>3. SameMoves(Passed(i, a, m, u), Passed(i, b, m, v), Length)
    BY <2>2, PassedFollowsMoves
  <2>4. s[m] = Passed(i, a, m, u) /\ t[m] = Passed(i, b, m, v)
    BY <1>1, <1>2, <2>1
  <2> QED
    BY <2>3, <2>4
<1>7. \A m \in Node(i) : m \in Good
  <2> HIDE DEF Good
  <2> QED
    BY <1>4, <1>6, DownTheTree
<1>8. ASSUME s[n] # t[n] PROVE a[n] # b[n]
  <2> SUFFICES ASSUME a[n] = b[n] PROVE FALSE
    OBVIOUS
  <2>1. PICK u \in Spaces, v \in Spaces : u = s[Above(i)[n]] /\ v = t[Above(i)[n]]
    BY <1>1, <1>2, <1>5
  <2>2. s[n] = Passed(i, a, n, u) /\ t[n] = Passed(i, b, n, v)
    BY <1>1, <1>2, <2>1
  <2>3. SameStock(s[n], a[n], Length) /\ SameStock(t[n], b[n], Length)
    BY <2>2, PassedKeeps
  <2>4. SameMoves(s[n], t[n], Length) /\ SameStock(s[n], t[n], Length)
    BY <1>7, <2>3 DEF SameStock
  <2>5. s[n] = t[n]
    <3>1. s[n] \in Space(Length, Nat) /\ t[n] \in Space(Length, Nat) /\ Length \in Nat \ {0}
      BY <1>1, <1>2, LengthAssumption DEF Spaces
    <3> QED
      BY <2>4, <3>1, SpacesEqual DEF SameStock
  <2> QED
    BY <1>8, <2>5
<1> QED
  BY <1>7, <1>8 DEF s, t

-----------------------------------------------------------------------------
(* The steps.                                                              *)

(* Before the first command.                                               *)
LEMMA InitFacts ==
  ASSUME Init
  PROVE  IInv
<1>1. products \in Directories
  BY DEF Init
<1>2. EmptyPsi(Length) \in Spaces
  BY LengthAssumption, EmptySpace DEF Spaces
<1>3. outbound \in [Opened -> Spaces]
  <2>1. ASSUME NEW i \in Opened PROVE products[i].plans[1] \in Spaces
    <3>1. products[i].plans \in Seq(Spaces) /\ products[i].plans # <<>>
      BY <1>1, ProductFacts, ProductsAssumption DEF Opened
    <3> QED
      BY <3>1
  <2> QED
    BY <2>1 DEF Init
<1>4. IsLayers(NewSpaces)
  BY <1>2 DEF IsLayers, NewSpaces
<1>5. StockFollowsMoves
  BY DEF Init, StockFollowsMoves
<1>6. psi4demand = NewSpaces /\ own = NewSpaces /\ shared = {}
  BY DEF Init
<1> QED
  BY <1>1, <1>3, <1>4, <1>5, <1>6 DEF IInv, TypeInv, OwnInv

(* One product's layer is replaced.                                        *)
LEMMA LayerReplaced ==
  ASSUME products \in Directories, NEW layers, IsLayers(layers), NEW i \in Opened,
         NEW layer \in [Node(i) -> Spaces]
  PROVE  IsLayers([layers EXCEPT ![i] = layer])
<1> DEFINE new == [layers EXCEPT ![i] = layer]
<1>1. layers = [j \in Opened |-> layers[j]]
  BY DEF IsLayers
<1>2. DOMAIN layers = Opened
  BY <1>1
<1>3. new = [j \in Opened |-> new[j]]
  BY <1>2
<1>4. ASSUME NEW j \in Opened PROVE new[j] \in [Node(j) -> Spaces]
  <2>1. new[j] = IF j = i THEN layer ELSE layers[j]
    BY <1>2
  <2> HIDE DEF new
  <2> QED
    BY <2>1 DEF IsLayers
<1> QED
  BY <1>3, <1>4 DEF IsLayers

(* Planning the outbound tree again.                                       *)
LEMMA ReplanKeeps ==
  ASSUME IInv, NEW i \in Opened, Replan(i)
  PROVE  IInv'
<1>1. products' = products /\ psi4demand' = psi4demand /\ own' = own /\ shared' = shared
      /\ last'.command = "replan"
  BY DEF Replan, Command
<1>2. outbound' \in [Opened -> Spaces]
  <2>1. PICK plan \in ToSet(products[i].plans) : outbound' = [outbound EXCEPT ![i] = plan]
    BY DEF Replan
  <2>2. products[i].plans \in Seq(Spaces)
    BY ProductFacts DEF IInv, TypeInv
  <2>3. plan \in Spaces
    BY <2>1, <2>2 DEF ToSet
  <2> QED
    BY <2>1, <2>3 DEF IInv, TypeInv
<1>3. TypeInv'
  BY <1>1, <1>2 DEF IInv, TypeInv, IsLayers, Opened, Node, LastOpened
<1>4. OwnInv'
  BY <1>1 DEF IInv, OwnInv, Opened, Node, LastOpened, Root
<1>5. StockFollowsMoves'
  BY <1>1 DEF StockFollowsMoves
<1> QED
  BY <1>3, <1>4, <1>5 DEF IInv

(* DmBw of a product: its layer is ordered anew from the outbound plan,    *)
(* which may also be written to the root of the product opened last.       *)
LEMMA DmBwKeeps ==
  ASSUME IInv, NEW i \in Opened, Inbound_DmBw(i)
  PROVE  IInv'
<1> DEFINE root == Root(i)
           z == LastOpened
           Connected_(layer) == [layer EXCEPT ![root] = outbound[i]]
           Ordered(layer) == calc_all_psiS2P2childS_preorder(i, Connected_(layer))
           through == IF <<i, root>> \in shared
                      THEN [psi4demand EXCEPT ![z][root] = outbound[i]]
                      ELSE psi4demand
<1>0. products \in Directories /\ IsLayers(psi4demand) /\ IsLayers(own)
      /\ outbound \in [Opened -> Spaces]
      /\ shared \in SUBSET (Opened \X UNION {Node(j) : j \in Opened})
  BY DEF IInv, TypeInv
<1>1. /\ products' = products /\ outbound' = outbound /\ shared' = shared
      /\ last'.command = "DmBw"
      /\ psi4demand' = [through EXCEPT ![i] = Ordered(through[i])]
      /\ own' = [own EXCEPT ![i] = Ordered(own[i])]
  BY DEF Inbound_DmBw, Command
<1>2. z \in Opened /\ root = Root(z) /\ root \in Node(i) /\ outbound[i] \in Spaces /\ root \in Node(z)
  BY <1>0, ProductFacts DEF TreeOf
<1>3. /\ DOMAIN psi4demand = Opened /\ DOMAIN own = Opened
      /\ \A j \in Opened : psi4demand[j] \in [Node(j) -> Spaces] /\ own[j] \in [Node(j) -> Spaces]
  BY <1>0 DEF IsLayers
<1>4. /\ IsLayers(through)
      /\ \A j \in Opened : j # z => through[j] = psi4demand[j]
      /\ \A n \in Node(z) : n # root => through[z][n] = psi4demand[z][n]
      /\ <<i, root>> \notin shared => through = psi4demand
  <2>1. CASE <<i, root>> \in shared
    <3> DEFINE layer == [psi4demand[z] EXCEPT ![root] = outbound[i]]
    <3>1. layer \in [Node(z) -> Spaces] /\ \A n \in Node(z) : n # root => layer[n] = psi4demand[z][n]
      BY <1>2, <1>3
    <3>2. through = [psi4demand EXCEPT ![z] = layer]
      BY <2>1
    <3> HIDE DEF layer, through
    <3>3. IsLayers(through)
      BY <1>0, <1>2, <3>1, <3>2, LayerReplaced
    <3>4. through[z] = layer /\ \A j \in Opened : j # z => through[j] = psi4demand[j]
      BY <1>2, <1>3, <3>2
    <3> QED
      BY <2>1, <3>1, <3>3, <3>4
  <2>2. CASE <<i, root>> \notin shared
    BY <1>0, <2>2
  <2> QED
    BY <2>1, <2>2
<1> HIDE DEF through
<1>5. through[i] \in [Node(i) -> Spaces] /\ DOMAIN through = Opened
  BY <1>4 DEF IsLayers
<1>6. Connected_(through[i]) \in [Node(i) -> Spaces] /\ Connected_(own[i]) \in [Node(i) -> Spaces]
  BY <1>2, <1>3, <1>5
<1> DEFINE a == Connected_(through[i])
           b == Connected_(own[i])
<1>7. a \in [Node(i) -> Spaces] /\ b \in [Node(i) -> Spaces] /\ Ordered(through[i]) = calc_all_psiS2P2childS_preorder(i, a)
      /\ Ordered(own[i]) = calc_all_psiS2P2childS_preorder(i, b)
  BY <1>6
<1>8. /\ a[root] = outbound[i] /\ b[root] = outbound[i]
      /\ \A n \in Node(i) : n # root => a[n] = through[i][n] /\ b[n] = own[i][n]
  BY <1>2, <1>3, <1>5
<1> HIDE DEF a, b, Ordered, Connected_
<1> DEFINE s == calc_all_psiS2P2childS_preorder(i, a)
           t == calc_all_psiS2P2childS_preorder(i, b)
<1>9. s \in [Node(i) -> Spaces] /\ t \in [Node(i) -> Spaces]
  BY <1>0, <1>7, WalkPasses
<1>10. psi4demand' = [through EXCEPT ![i] = s] /\ own' = [own EXCEPT ![i] = t]
  BY <1>1, <1>7
<1> HIDE DEF s, t
<1>11. IsLayers(psi4demand') /\ IsLayers(own')
  <2>1. IsLayers([through EXCEPT ![i] = s]) /\ IsLayers([own EXCEPT ![i] = t])
    BY <1>0, <1>4, <1>9, LayerReplaced
  <2> QED
    BY <1>10, <2>1
<1>12. TypeInv'
  BY <1>0, <1>1, <1>11 DEF TypeInv, IsLayers, Opened, Node, LastOpened
<1>13. StockFollowsMoves'
  BY <1>1 DEF StockFollowsMoves
<1>14. \A j \in Opened : /\ psi4demand'[j] = IF j = i THEN s ELSE through[j]
                         /\ own'[j] = IF j = i THEN t ELSE own[j]
  BY <1>3, <1>5, <1>10
<1>15. CASE i # z
  <2>1. a = b
    <3>1. through[i] = own[i]
      BY <1>4, <1>15 DEF IInv, OwnInv
    <3> QED
      BY <3>1 DEF a, b
  <2>2. s = t
    BY <2>1 DEF s, t
  <2>3. \A j \in Opened : j # z => psi4demand'[j] = own'[j]
    BY <1>4, <1>14, <2>2 DEF IInv, OwnInv
  <2>4. psi4demand'[z] = through[z] /\ own'[z] = own[z]
    BY <1>2, <1>14, <1>15
  <2>5. ASSUME NEW n \in Node(z), psi4demand'[z][n] # own'[z][n]
        PROVE  /\ \E j \in Opened \ {z} : <<j, n>> \in shared
               /\ n # Root(z) => SameMoves(psi4demand'[z][n], own'[z][n], Length)
    <3>1. CASE through[z][n] = psi4demand[z][n]
      BY <2>4, <2>5, <3>1 DEF IInv, OwnInv
    <3>2. CASE through[z][n] # psi4demand[z][n]
      <4>1. n = root /\ <<i, root>> \in shared
        BY <1>4, <3>2
      <4> QED
        BY <1>2, <1>15, <4>1
    <3> QED
      BY <3>1, <3>2
  <2>6. OwnInv'
    BY <1>1, <2>3, <2>5 DEF OwnInv, Opened, Node, LastOpened, Root
  <2> QED
    BY <1>12, <1>13, <2>6 DEF IInv
<1>16. CASE i = z
  <2>1. \A n \in Node(i) : n # root => a[n] = psi4demand[z][n] /\ b[n] = own[z][n]
    BY <1>4, <1>8, <1>16
  <2>2. \A n \in Node(i) : SameMoves(a[n], b[n], Length)
    BY <1>2, <1>8, <1>16, <2>1 DEF IInv, OwnInv, SameMoves
  <2>3. \A j \in Opened : j # z => psi4demand'[j] = own'[j]
    BY <1>4, <1>14, <1>16 DEF IInv, OwnInv
  <2>4. ASSUME NEW n \in Node(z), psi4demand'[z][n] # own'[z][n]
        PROVE  /\ \E j \in Opened \ {z} : <<j, n>> \in shared
               /\ n # Root(z) => SameMoves(psi4demand'[z][n], own'[z][n], Length)
    <3>1. n \in Node(i) /\ psi4demand'[z][n] = s[n] /\ own'[z][n] = t[n]
      BY <1>2, <1>14, <1>16
    <3>2. SameMoves(s[n], t[n], Length) /\ (s[n] # t[n] => a[n] # b[n])
      BY <1>0, <1>7, <2>2, <3>1, WalkFollowsMoves DEF s, t
    <3>3. n # root /\ psi4demand[z][n] # own[z][n]
      BY <1>8, <2>1, <2>4, <3>1, <3>2
    <3>4. \E j \in Opened \ {z} : <<j, n>> \in shared
      BY <3>3 DEF IInv, OwnInv
    <3> QED
      BY <3>1, <3>2, <3>4
  <2>5. OwnInv'
    BY <1>1, <2>3, <2>4 DEF OwnInv, Opened, Node, LastOpened, Root
  <2> QED
    BY <1>12, <1>13, <2>5 DEF IInv
<1> QED
  BY <1>15, <1>16

(* SpFw of a product: if the dictionary names all its nodes, the stocks of *)
(* these are reckoned, in the layer of the product opened last.            *)
LEMMA SpFwKeeps ==
  ASSUME IInv, NEW i \in Opened, Inbound_SpFw(i)
  PROVE  IInv'
<1> DEFINE z == LastOpened
           Reckoned(layer) ==
             [n \in DOMAIN layer |-> IF n \in Node(i) THEN calcPS2I4supply(layer[n]) ELSE layer[n]]
<1>0. products \in Directories /\ IsLayers(psi4demand) /\ IsLayers(own)
      /\ outbound \in [Opened -> Spaces]
      /\ shared \in SUBSET (Opened \X UNION {Node(j) : j \in Opened})
  BY DEF IInv, TypeInv
<1>1. /\ products' = products /\ outbound' = outbound
      /\ shared' = shared \cup {<<i, n>> : n \in Connected(i)}
      /\ last' = [command |-> "SpFw", product |-> i, raised |-> Unnamed(i) # {}]
      /\ psi4demand' = IF Unnamed(i) = {} THEN [psi4demand EXCEPT ![z] = Reckoned(psi4demand[z])]
                       ELSE psi4demand
      /\ own' = IF i = z THEN [own EXCEPT ![i] = Reckoned(own[i])] ELSE own
  BY DEF Inbound_SpFw, Command
<1>2. z \in Opened /\ Root(i) = Root(z) /\ Length \in Nat \ {0}
  BY <1>0, ProductFacts
<1>3. /\ DOMAIN psi4demand = Opened /\ DOMAIN own = Opened
      /\ \A j \in Opened : psi4demand[j] \in [Node(j) -> Spaces] /\ own[j] \in [Node(j) -> Spaces]
  BY <1>0 DEF IsLayers
<1>4. shared' \in SUBSET (Opened \X UNION {Node(j) : j \in Opened})
  BY <1>0, <1>1 DEF Connected
<1>5. /\ Opened' = Opened
      /\ shared' \in SUBSET (Opened \X UNION {Node(j) : j \in Opened})'
  BY <1>1, <1>4 DEF Opened, Node
<1>6. ASSUME NEW psi \in Spaces, NEW lots
      PROVE  /\ calcPS2I4supply(psi) \in Spaces
             /\ SameMoves(calcPS2I4supply(psi), psi, Length)
             /\ StockAgrees(calcPS2I4supply(psi), lots)
  BY <1>2, <1>6, SupplyReckoned DEF Spaces
<1>7. CASE Unnamed(i) # {}
  <2>1. i # z /\ psi4demand' = psi4demand /\ own' = own
    BY <1>1, <1>7 DEF Unnamed
  <2>2. TypeInv'
    <3>1. IsLayers(psi4demand)' /\ IsLayers(own)'
      BY <1>0, <1>1, <2>1 DEF IsLayers, Opened, Node
    <3>2. products' \in Directories /\ outbound' \in [Opened -> Spaces]'
      BY <1>0, <1>1, <1>5
    <3> QED
      BY <1>5, <3>1, <3>2 DEF TypeInv
  <2>3. OwnInv'
    BY <1>1, <2>1 DEF IInv, OwnInv, Opened, Node, LastOpened, Root
  <2>4. StockFollowsMoves'
    BY <1>1, <1>7 DEF StockFollowsMoves
  <2> QED
    BY <2>2, <2>3, <2>4 DEF IInv
<1>8. CASE Unnamed(i) = {}
  <2>1. /\ \A n \in Node(i) : n \in Node(z) /\ <<i, n>> \in shared'
        /\ psi4demand' = [psi4demand EXCEPT ![z] = Reckoned(psi4demand[z])]
    BY <1>1, <1>8 DEF Unnamed, Connected
  <2> DEFINE new == Reckoned(psi4demand[z])
             mine == Reckoned(own[z])
  <2>2. /\ new \in [Node(z) -> Spaces] /\ mine \in [Node(z) -> Spaces]
        /\ \A n \in Node(z) :
             /\ new[n] = IF n \in Node(i) THEN calcPS2I4supply(psi4demand[z][n]) ELSE psi4demand[z][n]
             /\ mine[n] = IF n \in Node(i) THEN calcPS2I4supply(own[z][n]) ELSE own[z][n]
    BY <1>2, <1>3, <1>6
  <2>3. psi4demand' = [psi4demand EXCEPT ![z] = new]
        /\ own' = IF i = z THEN [own EXCEPT ![z] = mine] ELSE own
    BY <1>1, <2>1
  <2> HIDE DEF new, mine, Reckoned
  <2>4. IsLayers(psi4demand') /\ IsLayers(own')
    <3>1. IsLayers([psi4demand EXCEPT ![z] = new]) /\ IsLayers([own EXCEPT ![z] = mine])
      BY <1>0, <1>2, <2>2, LayerReplaced
    <3> QED
      BY <1>0, <2>3, <3>1
  <2>5. TypeInv'
    <3>1. IsLayers(psi4demand)' /\ IsLayers(own)'
      BY <1>1, <2>4 DEF IsLayers, Opened, Node
    <3>2. products' \in Directories /\ outbound' \in [Opened -> Spaces]'
      BY <1>0, <1>1, <1>5
    <3> QED
      BY <1>5, <3>1, <3>2 DEF TypeInv
  <2>6. psi4demand'[z] = new /\ own'[z] = (IF i = z THEN mine ELSE own[z])
        /\ \A j \in Opened : j # z => psi4demand'[j] = psi4demand[j] /\ own'[j] = own[j]
    BY <1>2, <1>3, <2>3
  <2>7. ASSUME NEW n \in Node(z), psi4demand'[z][n] # own'[z][n]
        PROVE  /\ \E j \in Opened \ {z} : <<j, n>> \in shared'
               /\ n # Root(z) => SameMoves(psi4demand'[z][n], own'[z][n], Length)
    <3>1. /\ psi4demand[z][n] \in Spaces /\ own[z][n] \in Spaces
          /\ psi4demand[z][n] # own[z][n] => \E j \in Opened \ {z} : <<j, n>> \in shared'
          /\ n # Root(z) => SameMoves(psi4demand[z][n], own[z][n], Length)
      BY <1>1, <1>2, <1>3 DEF IInv, OwnInv, SameMoves
    <3>2. CASE n \notin Node(i)
      <4>1. psi4demand'[z][n] = psi4demand[z][n] /\ own'[z][n] = own[z][n]
        BY <2>2, <2>6, <3>2
      <4> QED
        BY <2>7, <3>1, <4>1
    <3>3. CASE n \in Node(i)
      <4> DEFINE a == calcPS2I4supply(psi4demand[z][n])
                 b == calcPS2I4supply(own[z][n])
      <4>1. psi4demand'[z][n] = a /\ own'[z][n] = IF i = z THEN b ELSE own[z][n]
        BY <2>2, <2>6, <3>3
      <4>2. SameMoves(a, psi4demand[z][n], Length) /\ SameMoves(b, own[z][n], Length)
        BY <1>6, <3>1
      <4>3. n # Root(z) => SameMoves(a, own[z][n], Length) /\ SameMoves(a, b, Length)
        BY <3>1, <4>2 DEF SameMoves
      <4>4. i = z => psi4demand[z][n] # own[z][n]
        BY <2>7, <4>1
      <4>5. i # z => i \in Opened \ {z} /\ <<i, n>> \in shared'
        BY <2>1, <3>3
      <4> HIDE DEF a, b
      <4> QED
        BY <3>1, <4>1, <4>3, <4>4, <4>5
    <3> QED
      BY <3>2, <3>3
  <2>8. \A j \in Opened : j # z => psi4demand'[j] = own'[j]
    BY <2>6 DEF IInv, OwnInv
  <2>9. OwnInv'
    BY <1>1, <2>7, <2>8 DEF OwnInv, Opened, Node, LastOpened, Root
  <2>10. StockFollowsMoves'
    <3> SUFFICES ASSUME NEW n \in Node(i), NEW lots
                 PROVE  StockAgrees(Supply(i, n)', lots)
      BY <1>1 DEF StockFollowsMoves, Node
    <3>1. Supply(i, n)' = psi4demand'[z][n]
      BY <1>1, <2>1 DEF Supply, LastOpened
    <3>2. psi4demand'[z][n] = calcPS2I4supply(psi4demand[z][n]) /\ psi4demand[z][n] \in Spaces
      BY <1>2, <1>3, <2>1, <2>2, <2>6
    <3> QED
      BY <1>6, <3>1, <3>2
  <2> QED
    BY <2>5, <2>9, <2>10 DEF IInv
<1> QED
  BY <1>7, <1>8

(* Every step keeps the invariant.                                         *)
THEOREM InvariantHolds == Spec => []IInv
<1>1. Init => IInv
  BY InitFacts
<1>2. IInv /\ [Next]_vars => IInv'
  <2> SUFFICES ASSUME IInv, [Next]_vars
               PROVE  IInv'
    OBVIOUS
  <2>1. CASE \E i \in Opened : Replan(i) \/ Inbound_DmBw(i) \/ Inbound_SpFw(i)
    BY <2>1, ReplanKeeps, DmBwKeeps, SpFwKeeps
  <2>2. CASE UNCHANGED vars
    <3>1. /\ Opened' = Opened /\ LastOpened' = LastOpened
          /\ UNCHANGED <<products, outbound, psi4demand, psi4supply, shared, last, own>>
      BY <2>2 DEF vars, Opened, LastOpened
    <3>2. TypeInv'
      BY <3>1 DEF IInv, TypeInv, IsLayers, Node
    <3>3. OwnInv'
      BY <3>1 DEF IInv, OwnInv, Node, Root
    <3>4. StockFollowsMoves'
      BY <3>1 DEF IInv, StockFollowsMoves, Node, Supply
    <3> QED
      BY <3>2, <3>3, <3>4 DEF IInv
  <2> QED
    BY <2>1, <2>2 DEF Next, SessionOver
<1> QED
  BY <1>1, <1>2, PTL DEF Spec

(* After an SpFw that ended well the stock of every node of the product    *)
(* agrees with its movements, whatever the trees and the layers shared.    *)
THEOREM StockIsReckoned == Spec => []StockFollowsMoves
<1>1. IInv => StockFollowsMoves
  BY DEF IInv
<1> QED
  BY <1>1, InvariantHolds, PTL

(* What is planned for one product never changes what another's suppliers  *)
(* are asked to ship: but for the stocks and the root of the product       *)
(* opened last, a demand layer is what its own commands make it.           *)
THEOREM OrdersStayOwn == Spec => []OrdersAreOwn
<1>1. IInv => OrdersAreOwn
  <2> SUFFICES ASSUME IInv, NEW i \in Opened, NEW n \in Node(i), psi4demand[i][n] # own[i][n]
               PROVE  /\ i = LastOpened
                      /\ \E j \in Opened \ {i} : <<j, n>> \in shared
                      /\ \/ \E j \in Opened \ {i} : n = Root(j)
                         \/ \A w \in 0 .. Length - 1, bucket \in {"S", "P"} :
                              psi4demand[i][n][w][bucket] = own[i][n][w][bucket]
    BY DEF OrdersAreOwn
  <2>1. i = LastOpened
    BY DEF IInv, OwnInv
  <2>2. PICK j \in Opened \ {i} : <<j, n>> \in shared
    BY <2>1 DEF IInv, OwnInv
  <2>3. Root(j) = Root(i)
    BY <2>1, ProductFacts DEF IInv, TypeInv
  <2>4. n # Root(i) => SameMoves(psi4demand[i][n], own[i][n], Length)
    BY <2>1 DEF IInv, OwnInv
  <2>5. CASE n # Root(i)
    <3> SUFFICES ASSUME NEW w \in 0 .. Length - 1
                 PROVE  \A bucket \in {"S", "P"} : psi4demand[i][n][w][bucket] = own[i][n][w][bucket]
      BY <2>1, <2>2
    <3> QED
      BY <2>4, <2>5 DEF SameMoves
  <2>6. CASE n = Root(i)
    BY <2>1, <2>2, <2>3, <2>6
  <2> QED
    BY <2>5, <2>6
<1> QED
  BY <1>1, InvariantHolds, PTL

-----------------------------------------------------------------------------
(* Orders against the weeks reckoned for each lot alone.                   *)

(* The weeks a supplier ships what its parent receives in the weeks A, and *)
(* those in which a node receives what it ships in the weeks A.            *)
FirstTo(i, c, w) == \A u \in 1 .. w - 1 : Leaves(i, c, u) # Leaves(i, c, w)

Leaving(i, c, A) ==
  {Leaves(i, c, w) : w \in {u \in A \cap 1 .. Length - 2 : FirstTo(i, c, u) /\ Leaves(i, c, u) > 0}}

Received(i, n, A) ==
  {Slot(Length, check_lv_week_bw(products[i].vacation[n], v - products[i].ss[n])) :
     v \in {u \in A : u > products[i].ss[n]}}

(* The weeks requested of a node, given those requested of the parent.     *)
Request(i, lot, n, above) ==
  IF n = Root(i) THEN WeeksOf(outbound[i], "S", lot)
  ELSE Leaving(i, n, Received(i, Parent(i, n), above)
         \cup (IF Parent(i, n) = Root(i) THEN WeeksOf(outbound[i], "P", lot) ELSE {}))

(* The weeks reckoned for a lot alone, one node after its parent.          *)
LEMMA WeeksRequested ==
  ASSUME products \in Directories, NEW i \in Opened, outbound[i] \in Spaces, NEW lot, NEW n \in Node(i)
  PROVE  RequestedWeeks(i, lot)[n] = Request(i, lot, n, RequestedWeeks(i, lot)[Parent(i, n)])
<1> DEFINE root == Root(i)
           parent == Above(i)
           node == Node(i)
           W == {Leaves(i, m, w) : m \in Node(i), w \in 1 .. Length - 2} \cup (0 .. Length - 1)
           V == SUBSET W
           base == WeeksOf(outbound[i], "S", lot)
           step == [m \in node |-> [above \in V |->
                      IF m = root THEN base ELSE Request(i, lot, m, above)]]
           week == CHOOSE f : f = [m \in node |-> Request(i, lot, m, f[Parent(i, m)])]
<1>0. RequestedWeeks(i, lot) = week
  BY Zenon DEF RequestedWeeks, Request, Leaving, Received, FirstTo
<1>1. PICK depth : \E max \in Nat : IsTree(node, root, parent, depth, max)
  BY ProductTree
<1>2. PICK max \in Nat : IsTree(node, root, parent, depth, max)
  BY <1>1
<1>3. root \in node /\ \A m \in node : parent[m] \in node /\ (m # root => parent[m] = Parent(i, m))
  BY <1>2 DEF IsTree, Above
<1>4. base \in V
  <2>1. DOMAIN outbound[i] = 0 .. Length - 1
    BY LengthAssumption, SpaceParts DEF Spaces
  <2> QED
    BY <2>1 DEF WeeksOf
<1>5. \A m \in node : \A above : m # root => Request(i, lot, m, above) \in V
  BY DEF Request, Leaving
<1>6. step \in StepsDown(node, V)
  <2> HIDE DEF V, base
  <2> QED
    BY <1>4, <1>5 DEF StepsDown
<1>7. \A m \in node : \A above : m = root => Request(i, lot, m, above) = base
  BY DEF Request
<1> HIDE DEF base, step, root, parent, node, V
<1>8. PICK g \in [node -> V] :
        \A m \in node : g[m] = IF m = root THEN base ELSE step[m][g[parent[m]]]
  BY <1>2, <1>4, <1>6, WalkExists
<1>9. ASSUME NEW m \in node PROVE g[m] = Request(i, lot, m, g[Parent(i, m)])
  <2>1. CASE m = root
    BY <1>7, <1>8, <2>1
  <2>2. CASE m # root
    <3>1. parent[m] = Parent(i, m) /\ g[parent[m]] \in V
      BY <1>3, <1>8, <2>2
    <3>2. g[m] = step[m][g[parent[m]]]
      BY <1>8, <2>2
    <3> QED
      BY <2>2, <3>1, <3>2 DEF step
  <2> QED
    BY <2>1, <2>2
<1>10. g = [m \in node |-> Request(i, lot, m, g[Parent(i, m)])]
  BY <1>8, <1>9
<1>11. week = [m \in node |-> Request(i, lot, m, week[Parent(i, m)])]
  BY <1>10, Zenon
<1> HIDE DEF week
<1> QED
  BY <1>0, <1>11 DEF node

(* The walk stops at no node: it feeds and shifts them all.                *)
LEMMA NothingStops ==
  ASSUME products \in Directories, NEW i \in Opened, StopsAt(i) = {},
         NEW layer, NEW n \in Node(i), NEW above
  PROVE  /\ Passed(i, layer, n, above)
              = shiftS2P_LV(IF n = Root(i) THEN layer[n]
                            ELSE shift_P2childS_LV(i, above, layer[n], n),
                            products[i].ss[n], products[i].vacation[n])
         /\ n # Root(i) => /\ Parent(i, n) \in Node(i)
                           /\ products[i].leadtime[n] \in Nat
<1>1. /\ Root(i) \in Node(i)
      /\ \A m \in Node(i) \ {Root(i)} : \E k \in Node(i) : Contains(Children(i, k), m)
      /\ \A m \in Node(i) : Children(i, m) \in Seq(Node(i))
  BY ProductFacts DEF TreeOf, Children
<1>2. Visited(i, n)
  BY DEF Visited
<1>3. \A m \in Node(i) : \A c \in ToSet(Children(i, m)) : ~NoLeadTime(i, c)
  BY DEF StopsAt
<1>4. ASSUME n # Root(i)
      PROVE  Parent(i, n) \in Node(i) /\ Contains(Children(i, Parent(i, n)), n)
  <2>1. \E m \in Node(i) : Contains(Children(i, m), n)
    BY <1>1, <1>4
  <2> QED
    BY <2>1 DEF Parent
<1>5. ASSUME n # Root(i) PROVE products[i].leadtime[n] \in Nat
  <2>1. n \in ToSet(Children(i, Parent(i, n)))
    BY <1>4, <1>5 DEF Contains, ToSet
  <2>2. ~NoLeadTime(i, n)
    BY <1>3, <1>4, <1>5, <2>1
  <2>3. products[i].leadtime \in [Node(i) -> Nat \cup {None}]
    BY ProductsAssumption DEF Opened, Node
  <2> QED
    BY <2>2, <2>3 DEF NoLeadTime
<1>6. ASSUME n # Root(i) PROVE Fed(i, n)
  <2> DEFINE m == Parent(i, n)
             upto == SelectInSeq(Children(i, m), LAMBDA x : x = n)
             before == SubSeq(Children(i, m), 1, upto)
  <2>1. m \in Node(i) /\ Children(i, m) \in Seq(Node(i)) /\ Contains(Children(i, m), n)
    BY <1>1, <1>4, <1>6
  <2>2. upto \in 0 .. Len(Children(i, m))
    <3> DEFINE I == {k \in 1 .. Len(Children(i, m)) : Children(i, m)[k] = n}
    <3>1. upto = IF I # {} THEN Min(I) ELSE 0
      BY DEF SelectInSeq
    <3>2. I \in SUBSET Nat /\ I \in SUBSET (1 .. Len(Children(i, m))) /\ Len(Children(i, m)) \in Nat
      BY <2>1
    <3> HIDE DEF I, upto, m
    <3>3. CASE I = {}
      BY <3>1, <3>2, <3>3
    <3>4. CASE I # {}
      <4>1. \E k \in I : \A y \in I : k <= y
        BY <3>2, <3>4, LeastMember
      <4>2. Min(I) \in I
        BY <4>1 DEF Min
      <4>3. upto = Min(I)
        BY <3>1, <3>4
      <4>4. upto \in I
        BY <4>2, <4>3
      <4>5. upto \in 1 .. Len(Children(i, m))
        BY <3>2, <4>4
      <4> QED
        BY <3>2, <4>5
    <3> QED
      BY <3>3, <3>4
  <2>3. ASSUME NEW c \in ToSet(before) PROVE ~NoLeadTime(i, c)
    <3> HIDE DEF upto, m
    <3>1. PICK k \in 1 .. Len(Children(i, m)) : c = Children(i, m)[k]
      BY <2>1, <2>2, <2>3 DEF ToSet
    <3>2. c \in ToSet(Children(i, m))
      BY <2>1, <3>1 DEF ToSet
    <3> QED
      BY <1>3, <2>1, <3>2
  <2>4. Visited(i, m)
    BY DEF Visited
  <2> HIDE DEF upto
  <2> QED
    BY <2>3, <2>4 DEF Fed, upto
<1> QED
  BY <1>2, <1>4, <1>5, <1>6 DEF Passed

Shifts(i, n, psi) == shiftS2P_LV(psi, products[i].ss[n], products[i].vacation[n])

(* A node ships the same after the shift, and receives, besides what       *)
(* arrived before, what it ships.                                          *)
LEMMA ArrivesAsShipped ==
  ASSUME products \in Directories, NEW i \in Opened, NEW n \in Node(i), NEW psi \in Spaces, NEW lot
  PROVE  /\ Shifts(i, n, psi) \in Spaces
         /\ WeeksOf(Shifts(i, n, psi), "S", lot) = WeeksOf(psi, "S", lot)
         /\ WeeksOf(Shifts(i, n, psi), "P", lot)
              = (WeeksOf(psi, "P", lot) \cup Received(i, n, WeeksOf(psi, "S", lot)))
                  \cap (0 .. Length - 1)
<1> DEFINE new == Shifts(i, n, psi)
           vac == products[i].vacation[n]
           dom == 0 .. Length - 1
<1>1. PICK len \in Nat \ {0} : len = Length
  BY ProductFacts
<1>2. PICK sw \in Nat : sw = products[i].ss[n]
  BY ProductFacts
<1>3. psi \in Space(len, Nat)
  BY <1>1 DEF Spaces
<1> HIDE DEF vac
<1>4. new = shiftS2P_LV(psi, sw, vac)
  BY <1>2 DEF Shifts, vac
<1> HIDE DEF new
<1>5. /\ new \in Space(len, Nat)
      /\ \A w \in 0 .. len - 1 : /\ new[w].S = psi[w].S
                                 /\ new[w].P = psi[w].P \o ShiftedTo(psi, sw, vac, w)
  BY <1>3, <1>4, ShiftAppends
<1>6. /\ DOMAIN psi = 0 .. len - 1 /\ \A w \in 0 .. len - 1 : psi[w].P \in Seq(Nat)
  BY <1>3, SpaceParts
<1>7. DOMAIN new = 0 .. len - 1
  BY <1>5, SpaceParts
<1>8. ASSUME NEW w \in 0 .. len - 1
      PROVE  Contains(new[w].P, lot) <=>
               Contains(psi[w].P, lot) \/ Contains(ShiftedTo(psi, sw, vac, w), lot)
  <2>1. ShiftedTo(psi, sw, vac, w) \in Seq(Nat) /\ psi[w].P \in Seq(Nat)
    BY <1>3, <1>6, ShiftedLots
  <2>2. PICK u \in Seq(Nat), v \in Seq(Nat) : u = psi[w].P /\ v = ShiftedTo(psi, sw, vac, w)
    BY <2>1
  <2>3. HasBoth(u \o v, u, v)
    BY JoinHas
  <2>4. new[w].P = u \o v
    BY <1>5, <2>2
  <2> QED
    BY <2>2, <2>3, <2>4 DEF HasBoth
<1>9. ASSUME NEW w \in 0 .. len - 1
      PROVE  Contains(ShiftedTo(psi, sw, vac, w), lot) <=> w \in Received(i, n, WeeksOf(psi, "S", lot))
  <2>1. Contains(ShiftedTo(psi, sw, vac, w), lot)
          <=> \E v \in sw + 1 .. len - 1 :
                w = Slot(len, check_lv_week_bw(vac, v - sw)) /\ Contains(psi[v].S, lot)
    BY <1>3, ShiftedHas
  <2>2. w \in Received(i, n, WeeksOf(psi, "S", lot))
          <=> \E v \in 0 .. len - 1 :
                /\ Contains(psi[v].S, lot) /\ v > sw
                /\ w = Slot(len, check_lv_week_bw(vac, v - sw))
    BY <1>1, <1>2, <1>6 DEF Received, WeeksOf, vac
  <2>3. \A v : v \in sw + 1 .. len - 1 <=> v \in 0 .. len - 1 /\ v > sw
    OBVIOUS
  <2> QED
    BY <2>1, <2>2, <2>3
<1>10. new \in Spaces
  BY <1>1, <1>5 DEF Spaces
<1>11. WeeksOf(new, "S", lot) = WeeksOf(psi, "S", lot)
  BY <1>5, <1>6, <1>7 DEF WeeksOf
<1>12. WeeksOf(new, "P", lot)
         = (WeeksOf(psi, "P", lot) \cup Received(i, n, WeeksOf(psi, "S", lot))) \cap (0 .. Length - 1)
  <2> DEFINE A == Received(i, n, WeeksOf(psi, "S", lot))
  <2>1. \A w \in 0 .. len - 1 : Contains(new[w].P, lot) <=> Contains(psi[w].P, lot) \/ w \in A
    BY <1>8, <1>9
  <2> HIDE DEF A
  <2>2. WeeksOf(new, "P", lot) = (WeeksOf(psi, "P", lot) \cup A) \cap (0 .. len - 1)
    BY <1>6, <1>7, <2>1 DEF WeeksOf
  <2> QED
    BY <1>1, <2>2 DEF A
<1> QED
  BY <1>10, <1>11, <1>12 DEF new

(* A supplier ships in no week but those it leaves in for its parent.      *)
FromWeeks(i, c, v) == {w \in 1 .. Length - 2 : Leaves(i, c, w) = v}

OnlyFed(i, c, psi) ==
  \A v \in 0 .. Length - 1 : (v > 0 /\ FromWeeks(i, c, v) # {}) \/ psi[v].S = <<>>

(* A supplier ships what arrives at its parent, in the weeks that leave in *)
(* time for it: the first of those shifted to the same.                    *)
LEMMA ShippedAsReceived ==
  ASSUME products \in Directories, NEW i \in Opened, NEW c \in Node(i), products[i].leadtime[c] \in Nat,
         NEW node \in Spaces, NEW child \in Spaces, OnlyFed(i, c, child), NEW lot
  PROVE  LET fed == shift_P2childS_LV(i, node, child, c)
         IN  /\ fed \in Spaces
             /\ OnlyFed(i, c, fed)
             /\ WeeksOf(fed, "P", lot) = WeeksOf(child, "P", lot)
             /\ WeeksOf(fed, "S", lot) = Leaving(i, c, WeeksOf(node, "P", lot))
<1> DEFINE fed == shift_P2childS_LV(i, node, child, c)
           From(v) == FromWeeks(i, c, v)
           dom == 0 .. Length - 1
<1>1. /\ fed \in Spaces
      /\ \A v \in dom :
           /\ fed[v].S = IF v > 0 /\ From(v) # {} THEN node[Min(From(v))].P ELSE child[v].S
           /\ fed[v].P = child[v].P
  <2>1. fed \in Spaces /\ IsFed(fed, i, node, child, c)
    BY FeedKeeps
  <2> HIDE DEF fed
  <2> QED
    BY <2>1 DEF IsFed, FromWeeks
<1> HIDE DEF fed
<1>2. Length \in Nat \ {0} /\ DOMAIN fed = dom /\ DOMAIN node = dom /\ DOMAIN child = dom
  BY <1>1, ProductFacts, SpaceParts DEF Spaces
<1>3. ASSUME NEW w \in 1 .. Length - 2, Leaves(i, c, w) > 0 PROVE Leaves(i, c, w) \in dom
  <2>1. PICK lead \in Nat : lead = products[i].leadtime[c]
    OBVIOUS
  <2>2. products[i].vacation[c] \in SUBSET Nat /\ IsFiniteSet(products[i].vacation[c])
    BY ProductsAssumption DEF Opened, Node
  <2>3. w - lead \in Int /\ w - lead <= Length - 2
    BY <1>2, <2>1
  <2>4. Leaves(i, c, w) \in Int /\ Leaves(i, c, w) <= w - lead
    BY <2>1, <2>2, <2>3, WeekAtWorkBefore DEF Leaves
  <2> QED
    BY <1>2, <1>3, <2>3, <2>4
<1>4. ASSUME NEW v, From(v) # {}
      PROVE  /\ Min(From(v)) \in 1 .. Length - 2 /\ Leaves(i, c, Min(From(v))) = v
             /\ FirstTo(i, c, Min(From(v)))
             /\ \A w \in From(v) : FirstTo(i, c, w) => w = Min(From(v))
  <2>1. From(v) \in SUBSET Nat /\ \A w : w \in From(v) <=> w \in 1 .. Length - 2 /\ Leaves(i, c, w) = v
    BY <1>2 DEF FromWeeks
  <2> HIDE DEF From
  <2>2. PICK m \in From(v) : m = Min(From(v)) /\ \A y \in From(v) : m <= y
    <3>1. \E m \in From(v) : \A y \in From(v) : m <= y
      BY <1>4, <2>1, LeastMember
    <3> QED
      BY <3>1 DEF Min
  <2>3. m \in 1 .. Length - 2 /\ m \in Nat /\ Leaves(i, c, m) = v
    BY <2>1, <2>2
  <2>4. FirstTo(i, c, m)
    <3> SUFFICES ASSUME NEW u \in 1 .. m - 1, Leaves(i, c, u) = v PROVE FALSE
      BY <2>3 DEF FirstTo
    <3>1. u \in From(v)
      BY <1>2, <2>1, <2>3
    <3> QED
      BY <2>2, <2>3, <3>1
  <2>5. ASSUME NEW w \in From(v), FirstTo(i, c, w) PROVE w = m
    <3>1. w \in 1 .. Length - 2 /\ Leaves(i, c, w) = v /\ m <= w
      BY <2>1, <2>2
    <3> SUFFICES ASSUME m < w PROVE FALSE
      BY <2>3, <3>1
    <3>2. m \in 1 .. w - 1
      BY <1>2, <2>3, <3>1
    <3> QED
      BY <2>3, <2>5, <3>1, <3>2 DEF FirstTo
  <2> QED
    BY <2>2, <2>3, <2>4, <2>5
<1>5. WeeksOf(fed, "S", lot) = {v \in dom : Contains(fed[v].S, lot)}
      /\ WeeksOf(node, "P", lot) = {v \in dom : Contains(node[v].P, lot)}
  BY <1>2 DEF WeeksOf
<1>6. ASSUME NEW v \in WeeksOf(fed, "S", lot) PROVE v \in Leaving(i, c, WeeksOf(node, "P", lot))
  <2>1. v \in dom /\ Contains(fed[v].S, lot)
    BY <1>5
  <2>2. v > 0 /\ From(v) # {}
    <3>1. ~Contains(<<>>, lot)
      BY DEF Contains
    <3> QED
      BY <1>1, <2>1, <3>1 DEF OnlyFed
  <2> DEFINE w == Min(From(v))
  <2>3. w \in 1 .. Length - 2 /\ Leaves(i, c, w) = v /\ FirstTo(i, c, w)
    BY <1>4, <2>2
  <2>4. fed[v].S = node[w].P
    BY <1>1, <2>1, <2>2
  <2> HIDE DEF w
  <2>5. w \in WeeksOf(node, "P", lot)
    BY <1>2, <1>5, <2>1, <2>3, <2>4
  <2>6. w \in {u \in WeeksOf(node, "P", lot) \cap 1 .. Length - 2 : FirstTo(i, c, u) /\ Leaves(i, c, u) > 0}
    BY <2>2, <2>3, <2>5
  <2> QED
    BY <2>3, <2>6 DEF Leaving
<1>7. ASSUME NEW v \in Leaving(i, c, WeeksOf(node, "P", lot)) PROVE v \in WeeksOf(fed, "S", lot)
  <2>1. PICK w \in WeeksOf(node, "P", lot) \cap 1 .. Length - 2 :
          FirstTo(i, c, w) /\ Leaves(i, c, w) > 0 /\ v = Leaves(i, c, w)
    BY <1>7 DEF Leaving
  <2>2. w \in From(v) /\ v \in dom /\ v > 0
    BY <1>3, <2>1 DEF FromWeeks
  <2>3. w = Min(From(v))
    BY <1>4, <2>1, <2>2
  <2>4. fed[v].S = node[w].P
    BY <1>1, <2>2, <2>3
  <2>5. Contains(node[w].P, lot)
    BY <1>5, <2>1
  <2> QED
    BY <1>5, <2>2, <2>4, <2>5
<1>8. WeeksOf(fed, "P", lot) = WeeksOf(child, "P", lot)
  BY <1>1, <1>2 DEF WeeksOf
<1>9. OnlyFed(i, c, fed)
  BY <1>1 DEF OnlyFed
<1> QED
  BY <1>1, <1>6, <1>7, <1>8, <1>9 DEF fed

(* Whether the walk stops or not, a supplier ships in no other week.       *)
LEMMA PassedOnlyFed ==
  ASSUME products \in Directories, NEW i \in Opened, NEW layer \in [Node(i) -> Spaces],
         NEW n \in Node(i), NEW above \in Spaces, OnlyFed(i, n, layer[n])
  PROVE  OnlyFed(i, n, Passed(i, layer, n, above))
<1> DEFINE shipped == shift_P2childS_LV(i, above, layer[n], n)
           fed == IF n # Root(i) /\ Fed(i, n) THEN shipped ELSE layer[n]
<1>1. layer[n] \in Spaces
  OBVIOUS
<1>2. shipped \in Spaces /\ OnlyFed(i, n, shipped)
  <2>1. shipped \in Spaces /\ IsFed(shipped, i, above, layer[n], n)
    BY <1>1, FeedKeeps
  <2> HIDE DEF shipped
  <2> QED
    BY <2>1 DEF IsFed, OnlyFed, FromWeeks
<1>3. Passed(i, layer, n, above) = IF Visited(i, n) THEN Shifts(i, n, fed) ELSE fed
  BY DEF Passed, Shifts
<1> HIDE DEF shipped
<1>4. fed \in Spaces /\ OnlyFed(i, n, fed)
  BY <1>1, <1>2
<1> HIDE DEF fed
<1>5. OnlyFed(i, n, Shifts(i, n, fed))
  <2>1. PICK len \in Nat \ {0}, sw \in Nat : len = Length /\ sw = products[i].ss[n]
    BY ProductFacts
  <2>2. fed \in Space(len, Nat)
    BY <1>4, <2>1 DEF Spaces
  <2>3. \A w \in 0 .. len - 1 : shiftS2P_LV(fed, sw, products[i].vacation[n])[w].S = fed[w].S
    BY <2>2, ShiftAppends
  <2> QED
    BY <1>4, <2>1, <2>3 DEF OnlyFed, Shifts
<1> QED
  BY <1>3, <1>4, <1>5

NothingArrives(psi) == \A v \in 0 .. Length - 1 : psi[v].P = <<>>

(* Nothing arrived at the suppliers before.                                *)
NothingBefore(i, layer) == \A m \in Node(i) : m # Root(i) => NothingArrives(layer[m])

(* What DmBw orders of a node: nothing of what is requested is missing;    *)
(* near the root, or if nothing arrived before, nothing else is ordered.   *)
Follows(i, lot, layer, n, psi) ==
  /\ RequestedWeeks(i, lot)[n] \subseteq WeeksOf(psi, "S", lot)
  /\ (n = Root(i) \/ Parent(i, n) = Root(i) \/ NothingBefore(i, layer)) =>
       WeeksOf(psi, "S", lot) = RequestedWeeks(i, lot)[n]

(* More weeks of the parent, no fewer of the supplier.                     *)
LEMMA MoreLeaves ==
  ASSUME NEW i, NEW c, NEW A, NEW B, A \cap 1 .. Length - 2 \subseteq B
  PROVE  Leaving(i, c, A) \subseteq Leaving(i, c, B)
  BY DEF Leaving

(* Of the weeks only those from 1 to Length - 2 matter.                    *)
LEMMA SameLeave ==
  ASSUME NEW i, NEW c, NEW A, NEW B, A \cap 1 .. Length - 2 = B \cap 1 .. Length - 2
  PROVE  Leaving(i, c, A) = Leaving(i, c, B)
  BY DEF Leaving

(* More weeks shipped, no fewer received.                                  *)
LEMMA MoreArrive ==
  ASSUME NEW i, NEW n, NEW A, NEW B, A \subseteq B
  PROVE  Received(i, n, A) \subseteq Received(i, n, B)
  BY DEF Received

(* A walk that stops at no node orders what is requested.                  *)
LEMMA WalkFollowsPlan ==
  ASSUME products \in Directories, NEW i \in Opened, StopsAt(i) = {}, outbound[i] \in Spaces,
         NEW layer \in [Node(i) -> Spaces], layer[Root(i)] = outbound[i],
         \A n \in Node(i) : n # Root(i) => OnlyFed(i, n, layer[n]),
         NEW lot
  PROVE  \A n \in Node(i) :
           Follows(i, lot, layer, n, calc_all_psiS2P2childS_preorder(i, layer)[n])
<1> DEFINE root == Root(i)
           after == calc_all_psiS2P2childS_preorder(i, layer)
           requested == RequestedWeeks(i, lot)
           asked(n) == WeeksOf(after[n], "S", lot)
           got(n) == WeeksOf(after[n], "P", lot)
           before(n) == WeeksOf(layer[n], "P", lot)
           dom == 0 .. Length - 1
           fresh == NothingBefore(i, layer)
           S == {n \in Node(i) : Follows(i, lot, layer, n, after[n])}
<1>1. after \in [Node(i) -> Spaces] /\ \A n \in Node(i) : after[n] = Passed(i, layer, n, after[Above(i)[n]])
  BY WalkPasses
<1>2. PICK depth : \E max \in Nat : IsTree(Node(i), root, Above(i), depth, max)
  BY ProductTree
<1>3. PICK max \in Nat : IsTree(Node(i), root, Above(i), depth, max)
  BY <1>2
<1>4. root \in Node(i) /\ \A n \in Node(i) : Above(i)[n] \in Node(i) /\ (n # root => Above(i)[n] = Parent(i, n))
  BY <1>3 DEF IsTree, Above
<1>5. \A n \in Node(i) : requested[n] = Request(i, lot, n, requested[Parent(i, n)])
  BY WeeksRequested
<1> HIDE DEF after, requested
<1>6. ASSUME NEW n \in Node(i)
      PROVE  /\ got(n) = (before(n) \cup Received(i, n, asked(n))) \cap dom
             /\ n = root => asked(n) = WeeksOf(outbound[i], "S", lot)
             /\ n # root => asked(n) = Leaving(i, n, got(Parent(i, n)))
  <2> DEFINE m == Above(i)[n]
             fed == IF n = root THEN layer[n] ELSE shift_P2childS_LV(i, after[m], layer[n], n)
  <2>1. PICK above \in Spaces : above = after[m]
    BY <1>1, <1>4
  <2>2. after[n] = Shifts(i, n, fed) /\ (n # root => products[i].leadtime[n] \in Nat)
    BY <1>1, NothingStops DEF Shifts
  <2>3. CASE n = root
    <3>1. fed = outbound[i] /\ fed \in Spaces /\ before(n) = WeeksOf(fed, "P", lot)
      BY <2>3
    <3> HIDE DEF fed
    <3>2. asked(n) = WeeksOf(fed, "S", lot)
          /\ got(n) = (WeeksOf(fed, "P", lot) \cup Received(i, n, WeeksOf(fed, "S", lot))) \cap dom
      BY <2>2, <3>1, ArrivesAsShipped
    <3> QED
      BY <2>3, <3>1, <3>2
  <2>4. CASE n # root
    <3>1. fed = shift_P2childS_LV(i, above, layer[n], n)
      BY <2>1, <2>4
    <3>2. layer[n] \in Spaces /\ OnlyFed(i, n, layer[n]) /\ products[i].leadtime[n] \in Nat
      BY <2>2, <2>4
    <3>3. /\ fed \in Spaces /\ WeeksOf(fed, "P", lot) = before(n)
          /\ WeeksOf(fed, "S", lot) = Leaving(i, n, WeeksOf(above, "P", lot))
      BY <3>1, <3>2, ShippedAsReceived
    <3> HIDE DEF fed
    <3>4. asked(n) = WeeksOf(fed, "S", lot)
          /\ got(n) = (WeeksOf(fed, "P", lot) \cup Received(i, n, WeeksOf(fed, "S", lot))) \cap dom
      BY <2>2, <3>3, ArrivesAsShipped
    <3>5. m = Parent(i, n) /\ WeeksOf(above, "P", lot) = got(m)
      BY <1>4, <2>1, <2>4
    <3> QED
      BY <2>4, <3>3, <3>4, <3>5
  <2> QED
    BY <2>3, <2>4
<1>7. \A n \in Node(i) : n # root /\ fresh => before(n) = {}
  <2> SUFFICES ASSUME NEW n \in Node(i), n # root, fresh PROVE before(n) = {}
    OBVIOUS
  <2>1. \A v \in DOMAIN layer[n] : layer[n][v].P = <<>>
    <3>1. layer[n] \in Space(Length, Nat) /\ Length \in Nat \ {0}
      BY LengthAssumption DEF Spaces
    <3>2. DOMAIN layer[n] = 0 .. Length - 1
      BY <3>1, SpaceParts
    <3> QED
      BY <3>2 DEF NothingArrives, NothingBefore
  <2> QED
    BY <2>1 DEF WeeksOf, Contains
<1>8. Length \in Nat \ {0} /\ 1 .. Length - 2 \subseteq dom
  BY LengthAssumption
<1> HIDE DEF fresh
<1>9. ASSUME NEW n \in Node(i), n = root \/ Above(i)[n] \in S PROVE n \in S
  <2>1. CASE n = root
    <3>1. requested[n] = WeeksOf(outbound[i], "S", lot) /\ asked(n) = WeeksOf(outbound[i], "S", lot)
      BY <1>5, <1>6, <2>1 DEF Request
    <3> QED
      BY <2>1, <3>1 DEF Follows, requested
  <2>2. CASE n # root
    <3> DEFINE m == Parent(i, n)
               extra == IF m = root THEN WeeksOf(outbound[i], "P", lot) ELSE {}
               due == Received(i, m, requested[m]) \cup extra
    <3>1. m \in Node(i) /\ m \in S
      BY <1>4, <1>9, <2>2
    <3>2. /\ requested[m] \subseteq asked(m)
          /\ m = root \/ Parent(i, m) = root \/ fresh => asked(m) = requested[m]
      BY <3>1 DEF Follows, fresh, requested
    <3>3. requested[n] = Leaving(i, n, due)
      BY <1>5, <2>2 DEF Request
    <3>4. asked(n) = Leaving(i, n, got(m)) /\ got(m) = (before(m) \cup Received(i, m, asked(m))) \cap dom
      BY <1>6, <2>2, <3>1
    <3>5. extra \subseteq before(m) /\ (m = root => extra = before(m))
          /\ (m # root /\ fresh => extra = before(m))
      BY <1>7, <3>1
    <3> HIDE DEF extra
    <3>6. due \cap 1 .. Length - 2 \subseteq got(m)
      <4>1. Received(i, m, requested[m]) \subseteq Received(i, m, asked(m))
        BY <3>2, MoreArrive
      <4> QED
        BY <1>8, <3>4, <3>5, <4>1
    <3>7. ASSUME m = root \/ fresh PROVE due \cap 1 .. Length - 2 = got(m) \cap 1 .. Length - 2
      <4>1. asked(m) = requested[m] /\ extra = before(m)
        BY <3>2, <3>5, <3>7
      <4>2. got(m) = due \cap dom
        BY <3>4, <4>1
      <4> QED
        BY <1>8, <4>2
    <3> HIDE DEF due
    <3>8. requested[n] \subseteq asked(n)
      BY <3>3, <3>4, <3>6, MoreLeaves
    <3>9. ASSUME m = root \/ fresh PROVE asked(n) = requested[n]
      BY <3>3, <3>4, <3>7, <3>9, SameLeave
    <3> QED
      BY <2>2, <3>8, <3>9 DEF Follows, requested, fresh
  <2> QED
    BY <2>1, <2>2
<1>10. \A n \in Node(i) : n \in S
  <2> HIDE DEF S
  <2> QED
    BY <1>3, <1>9, DownTheTree
<1> QED
  BY <1>10 DEF after

(* Suppliers ship only in weeks that leave in time for their parent, and   *)
(* receive nothing before the product's first DmBw.                        *)
OrdersInv ==
  /\ passes \in [Opened -> Nat]
  /\ \A i \in Opened : \A n \in Node(i) :
       n # Root(i) => /\ OnlyFed(i, n, psi4demand[i][n])
                      /\ passes[i] = 0 => NothingArrives(psi4demand[i][n])

(* It speaks of movements only.                                            *)
LEMMA MovesDecide ==
  ASSUME NEW i, NEW n, NEW a, NEW b, SameMoves(a, b, Length)
  PROVE  /\ OnlyFed(i, n, b) => OnlyFed(i, n, a)
         /\ NothingArrives(b) => NothingArrives(a)
  BY DEF SameMoves, OnlyFed, NothingArrives

(* What keeps the movements of all suppliers and the trees keeps it.       *)
LEMMA OrdersStay ==
  ASSUME OrdersInv, products' = products, passes' = passes,
         \A i \in Opened : \A n \in Node(i) :
           n # Root(i) => SameMoves(psi4demand'[i][n], psi4demand[i][n], Length)
  PROVE  OrdersInv'
<1>1. Opened' = Opened /\ LastOpened' = LastOpened
  BY DEF Opened, LastOpened
<1>2. ASSUME NEW i \in Opened, NEW n \in Node(i), n # Root(i)
      PROVE  /\ OnlyFed(i, n, psi4demand'[i][n])
             /\ passes[i] = 0 => NothingArrives(psi4demand'[i][n])
  <2>1. SameMoves(psi4demand'[i][n], psi4demand[i][n], Length)
    BY <1>2
  <2>2. OnlyFed(i, n, psi4demand[i][n]) /\ (passes[i] = 0 => NothingArrives(psi4demand[i][n]))
    BY <1>2 DEF OrdersInv
  <2> QED
    BY <2>1, <2>2, MovesDecide
<1> QED
  BY <1>1, <1>2 DEF OrdersInv, Node, Root, OnlyFed, FromWeeks, Leaves, NothingArrives

(* Before the first command nothing is ordered.                            *)
LEMMA InitOrders ==
  ASSUME Init
  PROVE  OrdersInv
<1>1. psi4demand = NewSpaces /\ passes = [i \in Opened |-> 0]
  BY DEF Init
<1>2. passes \in [Opened -> Nat]
  BY <1>1
<1>3. ASSUME NEW i \in Opened, NEW n \in Node(i)
      PROVE  OnlyFed(i, n, psi4demand[i][n]) /\ NothingArrives(psi4demand[i][n])
  <2>1. psi4demand[i][n] = EmptyPsi(Length)
    BY <1>1 DEF NewSpaces
  <2> QED
    BY <2>1 DEF EmptyPsi, EmptyWeek, OnlyFed, NothingArrives
<1> QED
  BY <1>2, <1>3 DEF OrdersInv

(* DmBw keeps it, and orders what the outbound plan requests.              *)
LEMMA DmBwOrders ==
  ASSUME IInv, OrdersInv, NEW i \in Opened, Inbound_DmBw(i)
  PROVE  OrdersInv' /\ OrdersFollowPlan'
<1> DEFINE root == Root(i)
           z == LastOpened
           Connected_(layer) == [layer EXCEPT ![root] = outbound[i]]
           Ordered(layer) == calc_all_psiS2P2childS_preorder(i, Connected_(layer))
           through == IF <<i, root>> \in shared
                      THEN [psi4demand EXCEPT ![z][root] = outbound[i]]
                      ELSE psi4demand
<1>0. products \in Directories /\ IsLayers(psi4demand) /\ outbound \in [Opened -> Spaces]
  BY DEF IInv, TypeInv
<1>1. /\ products' = products /\ outbound' = outbound
      /\ last' = [command |-> "DmBw", product |-> i, raised |-> StopsAt(i) # {}]
      /\ psi4demand' = [through EXCEPT ![i] = Ordered(through[i])]
      /\ passes' = [passes EXCEPT ![i] = passes[i] + 1]
  BY DEF Inbound_DmBw, Command
<1>2. z \in Opened /\ root = Root(z) /\ root \in Node(i) /\ outbound[i] \in Spaces /\ root \in Node(z)
  BY <1>0, ProductFacts DEF TreeOf
<1>3. /\ DOMAIN psi4demand = Opened
      /\ \A j \in Opened : psi4demand[j] \in [Node(j) -> Spaces]
  BY <1>0 DEF IsLayers
<1>4. /\ DOMAIN through = Opened
      /\ \A j \in Opened : through[j] \in [Node(j) -> Spaces]
      /\ \A j \in Opened : \A n \in Node(j) : n # Root(j) => through[j][n] = psi4demand[j][n]
  <2>1. CASE <<i, root>> \in shared
    <3> DEFINE layer == [psi4demand[z] EXCEPT ![root] = outbound[i]]
    <3>1. layer \in [Node(z) -> Spaces] /\ \A n \in Node(z) : n # root => layer[n] = psi4demand[z][n]
      BY <1>2, <1>3
    <3>2. through = [psi4demand EXCEPT ![z] = layer]
      BY <2>1
    <3> HIDE DEF layer, through
    <3>3. DOMAIN through = Opened /\ through[z] = layer /\ \A j \in Opened : j # z => through[j] = psi4demand[j]
      BY <1>2, <1>3, <3>2
    <3> QED
      BY <1>2, <1>3, <3>1, <3>3
  <2>2. CASE <<i, root>> \notin shared
    BY <1>3, <2>2
  <2> QED
    BY <2>1, <2>2
<1> HIDE DEF through
<1> DEFINE layer == Connected_(through[i])
           after == calc_all_psiS2P2childS_preorder(i, layer)
<1>5. /\ layer \in [Node(i) -> Spaces] /\ layer[root] = outbound[i]
      /\ \A n \in Node(i) : n # root => layer[n] = psi4demand[i][n]
  BY <1>2, <1>4
<1>6. psi4demand'[i] = after /\ \A j \in Opened : j # i => psi4demand'[j] = through[j]
  BY <1>1, <1>4
<1> HIDE DEF layer, Connected_, Ordered
<1>7. \A n \in Node(i) : n # root => OnlyFed(i, n, layer[n])
  BY <1>5 DEF OrdersInv
<1>8. ASSUME NEW n \in Node(i), n # root PROVE OnlyFed(i, n, after[n])
  <2>1. after \in [Node(i) -> Spaces] /\ after[n] = Passed(i, layer, n, after[Above(i)[n]])
    BY <1>0, <1>5, WalkPasses
  <2>2. Above(i)[n] \in Node(i)
    <3>1. PICK depth : \E max \in Nat : IsTree(Node(i), root, Above(i), depth, max)
      BY <1>0, ProductTree
    <3> QED
      BY <3>1 DEF IsTree
  <2> HIDE DEF after
  <2>3. PICK above \in Spaces : above = after[Above(i)[n]]
    BY <2>1, <2>2
  <2>4. OnlyFed(i, n, layer[n])
    BY <1>7, <1>8
  <2>5. OnlyFed(i, n, Passed(i, layer, n, above))
    BY <1>0, <1>5, <2>4, PassedOnlyFed
  <2> QED
    BY <2>1, <2>3, <2>5
<1> HIDE DEF after
<1>9. passes' \in [Opened -> Nat] /\ passes'[i] # 0 /\ passes'[i] = passes[i] + 1
      /\ \A j \in Opened : j # i => passes'[j] = passes[j]
  BY <1>1 DEF OrdersInv
<1>10. OrdersInv'
  <2>1. ASSUME NEW j \in Opened, NEW n \in Node(j), n # Root(j)
        PROVE  /\ OnlyFed(j, n, psi4demand'[j][n])
               /\ passes'[j] = 0 => NothingArrives(psi4demand'[j][n])
    <3>1. CASE j = i
      BY <1>6, <1>8, <1>9, <2>1, <3>1
    <3>2. CASE j # i
      <4>1. psi4demand'[j][n] = psi4demand[j][n] /\ passes'[j] = passes[j]
        BY <1>4, <1>6, <1>9, <2>1, <3>2
      <4> QED
        BY <2>1, <4>1 DEF OrdersInv
    <3> QED
      BY <3>1, <3>2
  <2>2. Opened' = Opened
    BY <1>1 DEF Opened
  <2> QED
    BY <1>1, <1>9, <2>1, <2>2 DEF OrdersInv, Node, Root, OnlyFed, FromWeeks, Leaves, NothingArrives
<1>11. OrdersFollowPlan'
  <2> SUFFICES ASSUME StopsAt(i) = {}, NEW lot, NEW n \in Node(i)
               PROVE  /\ RequestedWeeks(i, lot)'[n] \subseteq WeeksOf(psi4demand'[i][n], "S", lot)
                      /\ (n = root \/ Parent(i, n)' = root) \/ passes'[i] = 1 =>
                           WeeksOf(psi4demand'[i][n], "S", lot) = RequestedWeeks(i, lot)'[n]
    <3>1. \A j : last' = [command |-> "DmBw", product |-> j, raised |-> FALSE]
                  => j = i /\ StopsAt(i) = {}
      BY <1>1
    <3> QED
      BY <1>1, <3>1 DEF OrdersFollowPlan, Opened, Node, Root
  <2>1. RequestedWeeks(i, lot)' = RequestedWeeks(i, lot) /\ Parent(i, n)' = Parent(i, n)
    BY <1>1 DEF RequestedWeeks, Parent, Node, Root, Children, Leaves
  <2>2. Follows(i, lot, layer, n, after[n])
    BY <1>0, <1>2, <1>5, <1>7, WalkFollowsPlan DEF after
  <2>3. passes'[i] = 1 => NothingBefore(i, layer)
    <3> SUFFICES ASSUME passes'[i] = 1, NEW m \in Node(i), m # root PROVE NothingArrives(layer[m])
      BY DEF NothingBefore
    <3>1. passes[i] = 0
      BY <1>9 DEF OrdersInv
    <3> QED
      BY <1>5, <3>1 DEF OrdersInv
  <2> QED
    BY <1>6, <2>1, <2>2, <2>3 DEF Follows
<1> QED
  BY <1>10, <1>11

(* SpFw reckons stocks: no movement changes.                               *)
LEMMA SpFwOrders ==
  ASSUME IInv, OrdersInv, NEW i \in Opened, Inbound_SpFw(i)
  PROVE  OrdersInv'
<1> DEFINE z == LastOpened
           new == [n \in DOMAIN psi4demand[z] |->
                     IF n \in Node(i) THEN calcPS2I4supply(psi4demand[z][n]) ELSE psi4demand[z][n]]
<1>1. /\ products' = products /\ passes' = passes
      /\ psi4demand' = IF Unnamed(i) = {} THEN [psi4demand EXCEPT ![z] = new] ELSE psi4demand
  BY DEF Inbound_SpFw, Command
<1>2. /\ z \in Opened /\ DOMAIN psi4demand = Opened
      /\ \A j \in Opened : psi4demand[j] \in [Node(j) -> Spaces]
  BY ProductFacts DEF IInv, TypeInv, IsLayers
<1>3. \A psi \in Spaces : SameMoves(calcPS2I4supply(psi), psi, Length)
  BY LengthAssumption, SupplyReckoned DEF Spaces
<1>4. \A n \in Node(z) : SameMoves(new[n], psi4demand[z][n], Length)
  BY <1>2, <1>3 DEF SameMoves
<1> HIDE DEF new
<1>5. ASSUME NEW j \in Opened, NEW n \in Node(j)
      PROVE  SameMoves(psi4demand'[j][n], psi4demand[j][n], Length)
  <2>1. CASE j = z /\ Unnamed(i) = {}
    BY <1>1, <1>2, <1>4, <2>1
  <2>2. CASE ~(j = z /\ Unnamed(i) = {})
    <3>1. psi4demand'[j] = psi4demand[j]
      BY <1>1, <1>2, <2>2
    <3> QED
      BY <3>1 DEF SameMoves
  <2> QED
    BY <2>1, <2>2
<1> QED
  BY <1>1, <1>5, OrdersStay

(* Every step keeps it, and orders follow the plan after every DmBw.       *)
LEMMA StepOrders ==
  ASSUME IInv, OrdersInv, OrdersFollowPlan, [Next]_vars
  PROVE  OrdersInv' /\ OrdersFollowPlan'
<1>1. CASE \E i \in Opened : Inbound_DmBw(i)
  BY <1>1, DmBwOrders
<1>2. CASE \E i \in Opened : Replan(i)
  <2>1. PICK i \in Opened : Replan(i)
    BY <1>2
  <2>2. products' = products /\ passes' = passes /\ psi4demand' = psi4demand /\ last'.command = "replan"
    BY <2>1 DEF Replan, Command
  <2>3. OrdersInv'
    BY <2>2, OrdersStay DEF SameMoves
  <2>4. OrdersFollowPlan'
    BY <2>2 DEF OrdersFollowPlan
  <2> QED
    BY <2>3, <2>4
<1>3. CASE \E i \in Opened : Inbound_SpFw(i)
  <2>1. PICK i \in Opened : Inbound_SpFw(i)
    BY <1>3
  <2>2. last'.command = "SpFw"
    BY <2>1 DEF Inbound_SpFw, Command
  <2>3. OrdersFollowPlan'
    BY <2>2 DEF OrdersFollowPlan
  <2> QED
    BY <2>1, <2>3, SpFwOrders
<1>4. CASE UNCHANGED vars
  <2>1. UNCHANGED <<products, outbound, psi4demand, last, passes>>
    BY <1>4 DEF vars
  <2>2. OrdersInv'
    BY <2>1, OrdersStay DEF SameMoves
  <2>3. ASSUME NEW i, NEW lot PROVE RequestedWeeks(i, lot)' = RequestedWeeks(i, lot)
    BY <2>1 DEF RequestedWeeks, Parent, Node, Root, Children, Leaves
  <2>4. OrdersFollowPlan'
    BY <2>1, <2>3 DEF OrdersFollowPlan, Opened, Node, Root, Parent, Children
  <2> QED
    BY <2>2, <2>4
<1> QED
  BY <1>1, <1>2, <1>3, <1>4 DEF Next, SessionOver

(* After every DmBw that ended well each supplier of the root is asked to  *)
(* ship each lot in the weeks reckoned for this lot alone from the outbound*)
(* plan of the day, and further away nothing of that plan is missing, nor  *)
(* anything else ordered by the product's first DmBw: on any trees, for    *)
(* any plans, lead times and vacations, however the products share layers. *)
THEOREM OrdersAreRequested == Spec => []OrdersFollowPlan
<1>1. Init => OrdersInv /\ OrdersFollowPlan
  <2>1. Init => OrdersFollowPlan
    BY DEF Init, OrdersFollowPlan
  <2> QED
    BY <2>1, InitOrders
<1>2. IInv /\ (OrdersInv /\ OrdersFollowPlan) /\ [Next]_vars => (OrdersInv /\ OrdersFollowPlan)'
  BY StepOrders
<1> QED
  BY <1>1, <1>2, InvariantHolds, PTL DEF Spec
=============================================================================
