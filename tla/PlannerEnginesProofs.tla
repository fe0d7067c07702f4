------------------------ MODULE PlannerEnginesProofs ------------------------
(***************************************************************************)
(* Proofs of PsiPlanning and PlannerEngines, for any products, trees and   *)
(* lots and any order of buttons.                                          *)
(*                                                                         *)
(* Planning: the invariant PlanInv holds in every session.  Its layers are *)
(* PSI spaces, no supply stock lists a lot twice, and a walk down the tree *)
(* leaves behind it a set of nodes whose stock agrees with their moves;    *)
(* what is not in the set is still to be visited, or below what is.  When  *)
(* the walk has ended, the set is the tree.                                *)
(*                                                                         *)
(* The window: "Run & Save" always comes to its save, a run it has saved   *)
(* has done the first of its five stages and no other, and PlanInv holds   *)
(* with the stages and sequences among the planning buttons as well.       *)
(*                                                                         *)
(* Backward planning: Routes(k) says that what each node of the demand     *)
(* layer ships and receives is what is reckoned for each lot alone, k      *)
(* passes after the demand was loaded; its stock plays no part in it.      *)
(*                                                                         *)
(* Leveling: Leveled says that the root ships what is requested of it, in  *)
(* order and at rate, while HandInv follows the walk that passes shipments *)
(* down: the nodes behind it, closed upward, have handed what they ship to *)
(* the children on the way to the lots' leaves, and carry each lot once.   *)
(***************************************************************************)
EXTENDS PlannerEngines, OperatorLemmas

-----------------------------------------------------------------------------
(* The layers, and the walk down the tree.                                 *)

Spaces == Space(Length(product), Nat)

(* A walk that has visited V: the root and the children of visited nodes   *)
(* are visited, or stand in the rest of the walk.                          *)
Passed(V, rest) ==
  /\ product.root \in V \/ Contains(rest, product.root)
  /\ \A m \in V, n \in product.nodes :
       Contains(Children(product, m), n) => n \in V \/ Contains(rest, n)

(* Every node visited agrees.                                              *)
IsVisited(V, layer, rest) == Passed(V, rest) /\ \A n \in V : StockAgrees(layer[n], Lots)

Walked(layer, rest) == \E V \in SUBSET product.nodes : IsVisited(V, layer, rest)

Walks == {"demand_planning", "demand_leveling", "supply_planning"}

PlanInv ==
  /\ product \in Products
  /\ psi4demand \in [product.nodes -> Spaces]
  /\ psi4supply \in [product.nodes -> Spaces]
  /\ \A n \in product.nodes : Stocked(psi4supply[n], Length(product))
  /\ command \in Walks => todo \in Seq(product.nodes)
  /\ command = "demand_planning" => Walked(psi4demand, todo)
  /\ command = "supply_planning" /\ ~raised => Walked(psi4supply, todo)

(* What the assumption on the products says of one.                        *)
LEMMA ProductFacts ==
  ASSUME NEW p \in Products
  PROVE  /\ Length(p) \in Nat \ {0}
         /\ p.weeks \in Seq(Nat \ {0}) /\ p.weeks # <<>>
         /\ PreProdWeeks \in Nat /\ PreProdWeeks <= p.weeks[1]
         /\ TreeOf(p.nodes, p.root, p.children)
         /\ \A n \in p.nodes : p.ss[n] \in Nat /\ Children(p, n) \in Seq(p.nodes)
         /\ \E A : p.lots \in Seq(A)
<1>1. SlotsPerYear \in Nat /\ PreProdWeeks \in 1 .. SlotsPerYear - 2
  BY SlotsAssumption
<1>2. /\ p.weeks \in Seq({SlotsPerYear - 1, SlotsPerYear}) /\ Len(p.weeks) > 1
      /\ p.lots \in Seq({p.lots[i] : i \in DOMAIN p.lots})
      /\ TreeOf(p.nodes, p.root, p.children)
      /\ p.ss \in [p.nodes -> Nat]
  BY ProductsAssumption
<1>3. SlotsPerYear \in Nat \ {0} /\ SlotsPerYear - 1 \in Nat \ {0} /\ PreProdWeeks \in Nat
      /\ PreProdWeeks <= SlotsPerYear - 1
  BY <1>1
<1>4. Len(p.weeks) \in Nat /\ p.weeks \in Seq(Nat \ {0}) /\ p.weeks # <<>>
      /\ p.weeks[1] \in {SlotsPerYear - 1, SlotsPerYear}
  BY <1>2, <1>3
<1>5. Length(p) \in Nat \ {0}
  <2>1. \A a, b \in Nat \ {0} : a * b \in Nat \ {0}
    OBVIOUS
  <2>2. Len(p.weeks) - 1 \in Nat \ {0}
    <3> DEFINE k == Len(p.weeks)
    <3>1. k \in Nat
      BY <1>4
    <3>2. k > 1
      BY <1>2
    <3> HIDE DEF k
    <3>3. k - 1 \in Nat \ {0}
      BY <3>1, <3>2
    <3> QED
      BY <3>3 DEF k
  <2> QED
    BY <1>3, <2>1, <2>2 DEF Length
<1>6. PreProdWeeks <= p.weeks[1]
  BY <1>3, <1>4
<1>7. \A n \in p.nodes : p.ss[n] \in Nat /\ Children(p, n) \in Seq(p.nodes)
  BY <1>2 DEF TreeOf, Children
<1> QED
  BY <1>2, <1>3, <1>4, <1>5, <1>6, <1>7

(* One node of a layer is given another space.                             *)
LEMMA NodeChanged ==
  ASSUME NEW A, NEW nodes, NEW layer \in [nodes -> A], NEW n, NEW x, n \in nodes => x \in A
  PROVE  /\ [layer EXCEPT ![n] = x] \in [nodes -> A]
         /\ \A m \in nodes : [layer EXCEPT ![n] = x][m] = IF m = n THEN x ELSE layer[m]
OBVIOUS

(* A visit of the walk: the node's children are still to visit.            *)
LEMMA PassesOn ==
  ASSUME product \in Products, NEW rest \in Seq(product.nodes), rest # <<>>,
         NEW V \in SUBSET product.nodes, Passed(V, rest)
  PROVE  /\ Children(product, Head(rest)) \o Tail(rest) \in Seq(product.nodes)
         /\ V \cup {Head(rest)} \in SUBSET product.nodes
         /\ Passed(V \cup {Head(rest)}, Children(product, Head(rest)) \o Tail(rest))
<1> DEFINE h == Head(rest)
           t == Tail(rest)
           c == Children(product, h)
<1>1. h \in product.nodes /\ t \in Seq(product.nodes)
  OBVIOUS
<1>2. c \in Seq(product.nodes)
  BY <1>1, ProductFacts
<1>3. ASSUME NEW n, Contains(rest, n) PROVE n = h \/ Contains(t, n)
  <2>1. PICK i \in 1 .. Len(rest) : rest[i] = n
    BY <1>3 DEF Contains
  <2>2. CASE i = 1
    BY <2>1, <2>2
  <2>3. CASE i # 1
    <3>1. i - 1 \in 1 .. Len(t) /\ t[i - 1] = n
      BY <2>1, <2>3
    <3> QED
      BY <3>1 DEF Contains
  <2> QED
    BY <2>2, <2>3
<1> HIDE DEF h, t, c
<1>4. c \o t \in Seq(product.nodes) /\ HasBoth(c \o t, c, t)
  BY <1>1, <1>2, JoinHas
<1> DEFINE W == V \cup {h}
<1>5. W \in SUBSET product.nodes
  BY <1>1
<1>6. \A n : (n \in V \/ Contains(rest, n)) => n \in W \/ Contains(c \o t, n)
  BY <1>3, <1>4 DEF HasBoth
<1>7. \A n \in product.nodes : Contains(c, n) => Contains(c \o t, n)
  BY <1>4 DEF HasBoth
<1>8. product.root \in W \/ Contains(c \o t, product.root)
  BY <1>6 DEF Passed
<1>9. ASSUME NEW m \in W, NEW n \in product.nodes, Contains(Children(product, m), n)
      PROVE  n \in W \/ Contains(c \o t, n)
  <2>1. CASE m \in V
    BY <1>6, <1>9, <2>1 DEF Passed
  <2>2. CASE m = h
    BY <1>7, <1>9, <2>2 DEF c
  <2> QED
    BY <2>1, <2>2
<1>10. Passed(W, c \o t)
  BY <1>8, <1>9 DEF Passed
<1> QED
  BY <1>4, <1>5, <1>10 DEF h, t, c

(* A walk that begins at the root.                                         *)
LEMMA PassesFirst ==
  ASSUME product \in Products
  PROVE  <<product.root>> \in Seq(product.nodes) /\ Passed({}, <<product.root>>)
<1> DEFINE nodes == product.nodes
           root == product.root
<1>1. root \in nodes
  BY ProductFacts DEF TreeOf
<1> HIDE DEF nodes, root
<1>2. Contains(<<product.root>>, product.root)
  BY DEF Contains
<1>3. Passed({}, <<product.root>>)
  BY <1>2 DEF Passed
<1>4. <<root>> \in Seq(nodes)
  BY <1>1
<1> QED
  BY <1>3, <1>4 DEF nodes, root

(* A walk that has ended has visited every node.                           *)
LEMMA PassesAll ==
  ASSUME product \in Products, NEW V \in SUBSET product.nodes, Passed(V, <<>>)
  PROVE  \A n \in product.nodes : n \in V
<1>1. \A m : ~Contains(<<>>, m)
  BY DEF Contains
<1> DEFINE node == product.nodes
           root == product.root
           children == product.children
<1>2. TreeOf(node, root, children)
  BY ProductFacts
<1> HIDE DEF node, root, children
<1>3. PICK parent : \E depth : \E max \in Nat :
        IsTree(node, root, parent, depth, max) /\ HasParents(node, root, children, parent)
  BY <1>2, TreeHasParents
<1>4. PICK depth : \E max \in Nat :
        IsTree(node, root, parent, depth, max) /\ HasParents(node, root, children, parent)
  BY <1>3
<1>5. PICK max \in Nat :
        IsTree(node, root, parent, depth, max) /\ HasParents(node, root, children, parent)
  BY <1>4
<1>6. ASSUME NEW m \in node, m = root \/ parent[m] \in V PROVE m \in V
  <2>1. CASE m = root
    BY <1>1, <2>1 DEF Passed, root
  <2>2. CASE m # root
    <3>1. parent[m] \in V /\ Contains(children[parent[m]], m)
      BY <1>5, <1>6, <2>2 DEF HasParents
    <3> QED
      BY <1>1, <3>1 DEF Passed, Children, children, node
  <2> QED
    BY <2>1, <2>2
<1>7. \A m \in node : m \in V
  BY <1>5, <1>6, DownTheTree
<1> QED
  BY <1>7 DEF node

(* The same of the walks that leave a stock that agrees behind them.       *)
LEMMA WalkGoesOn ==
  ASSUME product \in Products, NEW rest \in Seq(product.nodes), rest # <<>>,
         NEW layer, Walked(layer, rest), NEW new,
         \A m \in product.nodes : m # Head(rest) => new[m] = layer[m],
         StockAgrees(new[Head(rest)], Lots)
  PROVE  /\ Children(product, Head(rest)) \o Tail(rest) \in Seq(product.nodes)
         /\ Walked(new, Children(product, Head(rest)) \o Tail(rest))
<1>1. PICK V \in SUBSET product.nodes : IsVisited(V, layer, rest)
  BY DEF Walked
<1> DEFINE on == Children(product, Head(rest)) \o Tail(rest)
           W == V \cup {Head(rest)}
<1>2. on \in Seq(product.nodes) /\ W \in SUBSET product.nodes /\ Passed(W, on)
  BY <1>1, PassesOn DEF IsVisited
<1>3. \A n \in W : StockAgrees(new[n], Lots)
  BY <1>1 DEF IsVisited
<1> HIDE DEF on, W
<1>4. Walked(new, on)
  BY <1>2, <1>3 DEF Walked, IsVisited
<1> QED
  BY <1>2, <1>4 DEF on

(* A walk that begins has nothing behind it.                               *)
LEMMA WalkBegins ==
  ASSUME product \in Products, NEW layer
  PROVE  <<product.root>> \in Seq(product.nodes) /\ Walked(layer, <<product.root>>)
<1>1. IsVisited({}, layer, <<product.root>>)
  BY PassesFirst DEF IsVisited
<1>2. {} \in SUBSET product.nodes
  OBVIOUS
<1> QED
  BY <1>1, <1>2, PassesFirst DEF Walked

(* A walk that has ended leaves a stock that agrees at every node.         *)
LEMMA WalkEnds ==
  ASSUME product \in Products, NEW layer, Walked(layer, <<>>), NEW n \in product.nodes
  PROVE  StockAgrees(layer[n], Lots)
<1>1. PICK V \in SUBSET product.nodes : IsVisited(V, layer, <<>>)
  BY DEF Walked
<1>2. n \in V
  BY <1>1, PassesAll DEF IsVisited
<1> QED
  BY <1>1, <1>2 DEF IsVisited

-----------------------------------------------------------------------------
(* The operators keep PSI spaces.                                          *)

(* The lots of a leaf's demand in each week are listed.                    *)
LEMMA DemandKeeps ==
  ASSUME NEW p \in Products, NEW leaf, NEW psi \in Space(Length(p), Nat)
  PROVE  set_S2psi(p, leaf, psi) \in Space(Length(p), Nat)
<1> DEFINE len == Length(p)
           places(w) == {lot \in DOMAIN p.lots : p.lots[lot].leaf = leaf /\ p.lots[lot].week = w}
           s == [w \in 0 .. len - 1 |-> psi[w].S \o Ascending(places(w))]
<1>1. len \in Nat \ {0} /\ \E A : p.lots \in Seq(A)
  BY ProductFacts
<1>2. Len(p.lots) \in Nat /\ DOMAIN p.lots = 1 .. Len(p.lots)
  BY <1>1
<1>3. ASSUME NEW w \in 0 .. len - 1 PROVE Ascending(places(w)) \in Seq(Nat)
  <2>1. places(w) \in SUBSET (1 .. Len(p.lots))
    BY <1>2
  <2>2. IsFiniteSet(places(w)) /\ Cardinality(places(w)) \in Nat /\ places(w) \in SUBSET Int
    <3> HIDE DEF places
    <3> QED
      BY <1>2, <2>1, PlacesAreFinite
  <2>3. IsListing(Ascending(places(w)), places(w))
    <3> HIDE DEF places
    <3> QED
      BY <2>2, AscendingLists
  <2>4. \A n \in places(w) : n \in Nat
    BY <1>2, <2>1
  <2> HIDE DEF places
  <2> QED
    BY <2>2, <2>3, <2>4 DEF IsListing
<1> HIDE DEF len
<1>4. DOMAIN psi = 0 .. len - 1 /\ \A w \in 0 .. len - 1 : psi[w].S \in Seq(Nat)
  BY <1>1, SpaceParts DEF len
<1>5. s \in [0 .. len - 1 -> Seq(Nat)]
  <2>1. \A w \in 0 .. len - 1 : psi[w].S \o Ascending(places(w)) \in Seq(Nat)
    <3> HIDE DEF places
    <3> QED
      BY <1>3, <1>4
  <2> HIDE DEF places
  <2> QED
    BY <2>1
<1>6. set_S2psi(p, leaf, psi) = Shipping(psi, s)
  BY <1>4 DEF set_S2psi, Shipping
<1> HIDE DEF s
<1> QED
  BY <1>1, <1>5, <1>6, ShipsInstead DEF len

(* What the children must have received.                                   *)
LEMMA RequestsKeep ==
  ASSUME NEW p \in Products, NEW n \in p.nodes,
         NEW spaces \in [p.nodes -> Space(Length(p), Nat)], p.leadtime[n] # None
  PROVE  get_set_childrenP2S2psi(p, n, spaces) \in Space(Length(p), Nat)
<1> DEFINE len == Length(p)
           psi == spaces[n]
           c == Children(p, n)
           Asked(w, i) == IF w + p.leadtime[n] \in DOMAIN spaces[n]
                          THEN spaces[Children(p, n)[i]][w + p.leadtime[n]].P ELSE <<>>
           lists(w) == [i \in 1 .. Len(Children(p, n)) |-> Asked(w, i)]
           s == [w \in 0 .. len - 1 |-> psi[w].S \o Concat(lists(w))]
<1>1. len \in Nat \ {0} /\ c \in Seq(p.nodes)
  BY ProductFacts
<1>2. \A m \in p.nodes : DOMAIN spaces[m] = 0 .. len - 1
                         /\ \A w \in 0 .. len - 1 : spaces[m][w].S \in Seq(Nat) /\ spaces[m][w].P \in Seq(Nat)
  <2> SUFFICES ASSUME NEW m \in p.nodes
               PROVE  DOMAIN spaces[m] = 0 .. len - 1
                      /\ \A w \in 0 .. len - 1 : spaces[m][w].S \in Seq(Nat) /\ spaces[m][w].P \in Seq(Nat)
    OBVIOUS
  <2>1. spaces[m] \in Space(len, Nat)
    OBVIOUS
  <2> HIDE DEF len
  <2> QED
    BY <1>1, <2>1, SpaceParts
<1>3. psi \in Space(len, Nat)
  OBVIOUS
<1> HIDE DEF len
<1>4. ASSUME NEW w \in 0 .. len - 1 PROVE Concat(lists(w)) \in Seq(Nat)
  <2>1. ASSUME NEW i \in 1 .. Len(c) PROVE Asked(w, i) \in Seq(Nat)
    <3> DEFINE m == c[i]
               v == w + p.leadtime[n]
    <3>1. m \in p.nodes /\ DOMAIN spaces[n] = 0 .. len - 1
      BY <1>1, <1>2
    <3>2. Asked(w, i) = IF v \in DOMAIN spaces[n] THEN spaces[m][v].P ELSE <<>>
      OBVIOUS
    <3> HIDE DEF m, v, Asked
    <3>3. v \in 0 .. len - 1 => spaces[m][v].P \in Seq(Nat)
      BY <1>2, <3>1
    <3> QED
      BY <3>1, <3>2, <3>3
  <2> DEFINE A == Seq(Nat)
  <2>2. lists(w) \in Seq(A)
    <3>1. \A i \in 1 .. Len(c) : Asked(w, i) \in A
      BY <2>1
    <3>2. Len(c) \in Nat
      BY <1>1
    <3> HIDE DEF A, Asked
    <3>3. [i \in 1 .. Len(c) |-> Asked(w, i)] \in Seq(A)
      BY <3>1, <3>2
    <3> QED
      BY <3>3
  <2> HIDE DEF lists
  <2> QED
    BY <2>2, ConcatJoins DEF A
<1>5. s \in [0 .. len - 1 -> Seq(Nat)]
  <2> HIDE DEF lists, psi
  <2>1. \A w \in 0 .. len - 1 : psi[w].S \in Seq(Nat)
    BY <1>2 DEF psi
  <2>2. \A w \in 0 .. len - 1 : psi[w].S \o Concat(lists(w)) \in Seq(Nat)
    BY <1>4, <2>1
  <2> QED
    BY <2>2
<1>6. get_set_childrenP2S2psi(p, n, spaces) = Shipping(psi, s)
  <2>1. \A w \in 0 .. len - 1 : s[w] = psi[w].S \o Concat(lists(w))
    BY Zenon
  <2>2. get_set_childrenP2S2psi(p, n, spaces)
          = [w \in DOMAIN psi |-> [psi[w] EXCEPT !.S = psi[w].S \o Concat(lists(w))]]
    BY Zenon DEF get_set_childrenP2S2psi
  <2> HIDE DEF s, lists
  <2> QED
    BY <1>2, <2>1, <2>2 DEF Shipping
<1> HIDE DEF s, psi
<1> QED
  BY <1>1, <1>3, <1>5, <1>6, ShipsInstead DEF len

(* A copied list joins those of the supply layer.                          *)
LEMMA CopyKeeps ==
  ASSUME NEW len \in Nat \ {0}, NEW X, NEW demand \in Space(len, X), NEW supply \in Space(len, X)
  PROVE  /\ copy_demand_to_supply(demand, supply) \in Space(len, X)
         /\ \A w \in 0 .. len - 1 : copy_demand_to_supply(demand, supply)[w].I = supply[w].I
<1> DEFINE s == [w \in 0 .. len - 1 |-> supply[w].S \o demand[w].S]
<1>1. \A w \in 0 .. len - 1 : demand[w].S \in Seq(X)
  BY SpaceParts
<1>2. DOMAIN supply = 0 .. len - 1 /\ \A w \in 0 .. len - 1 : supply[w].S \in Seq(X)
  BY SpaceParts
<1>3. s \in [0 .. len - 1 -> Seq(X)]
  BY <1>1, <1>2
<1>4. copy_demand_to_supply(demand, supply) = Shipping(supply, s)
  BY <1>2 DEF copy_demand_to_supply, Shipping
<1> HIDE DEF s
<1> QED
  BY <1>3, <1>4, ShipsInstead

(* Another space's shipments, and its arrivals.                            *)
LEMMA BucketKeeps ==
  ASSUME NEW len \in Nat \ {0}, NEW X, NEW demand \in Space(len, X), NEW supply \in Space(len, X)
  PROVE  /\ SupplyBucket(supply, demand, "S") \in Space(len, X)
         /\ SupplyBucket(supply, demand, "P") \in Space(len, X)
         /\ \A w \in 0 .. len - 1 :
              /\ SupplyBucket(supply, demand, "S")[w].S = demand[w].S
              /\ SupplyBucket(supply, demand, "P")[w].S = supply[w].S
              /\ SupplyBucket(supply, demand, "P")[w].P = demand[w].P
<1> DEFINE s == [w \in 0 .. len - 1 |-> demand[w].S]
           p == [w \in 0 .. len - 1 |-> demand[w].P]
<1>1. \A w \in 0 .. len - 1 : demand[w].S \in Seq(X) /\ demand[w].P \in Seq(X)
  BY SpaceParts
<1>2. DOMAIN supply = 0 .. len - 1
  BY SpaceParts
<1>3. s \in [0 .. len - 1 -> Seq(X)] /\ p \in [0 .. len - 1 -> Seq(X)]
  BY <1>1
<1>4. SupplyBucket(supply, demand, "S") = Shipping(supply, s)
      /\ SupplyBucket(supply, demand, "P") = Arriving(supply, p)
  BY <1>2 DEF SupplyBucket, Shipping, Arriving
<1>5. \A w \in 0 .. len - 1 : s[w] = demand[w].S /\ p[w] = demand[w].P
  OBVIOUS
<1> HIDE DEF s, p
<1> DEFINE ships == Shipping(supply, s)
           arrives == Arriving(supply, p)
<1>6. ships \in Space(len, X) /\ \A w \in 0 .. len - 1 : ships[w].S = s[w]
  BY <1>3, ShipsInstead
<1>7. arrives \in Space(len, X) /\ \A w \in 0 .. len - 1 : arrives[w].P = p[w]
  BY <1>3, ArrivesInstead
<1>8. ASSUME NEW w \in 0 .. len - 1 PROVE arrives[w].S = supply[w].S
  <2>1. PICK q \in [0 .. len - 1 -> Seq(X)] : q = p
    BY <1>3
  <2>2. Arriving(supply, q)[w].S = supply[w].S
    BY ArrivesInstead
  <2> QED
    BY <2>1, <2>2
<1> HIDE DEF ships, arrives
<1> QED
  BY <1>4, <1>5, <1>6, <1>7, <1>8 DEF ships, arrives

(* The same lists shipped and received: what a node was sent.              *)
LEMMA ReplacedKeeps ==
  ASSUME NEW len \in Nat \ {0}, NEW X, NEW psi \in Space(len, X), NEW r \in [0 .. len - 1 -> Seq(X)]
  PROVE  /\ Replaced(psi, r) \in Space(len, X)
         /\ \A w \in 0 .. len - 1 : Replaced(psi, r)[w].I = psi[w].I
<1> DEFINE first == Shipping(psi, r)
           both == Arriving(first, r)
<1>1. DOMAIN psi = 0 .. len - 1
      /\ \A w \in 0 .. len - 1 : psi[w] = [S |-> psi[w].S, I |-> psi[w].I, P |-> psi[w].P]
  BY SpaceParts
<1>2. first \in Space(len, X) /\ \A w \in 0 .. len - 1 : first[w].I = psi[w].I
  BY ShipsInstead
<1> HIDE DEF first
<1>3. both \in Space(len, X) /\ \A w \in 0 .. len - 1 : both[w].I = first[w].I
  BY <1>2, ArrivesInstead
<1>4. DOMAIN first = 0 .. len - 1
  BY <1>2, SpaceParts
<1>5. ASSUME NEW w \in 0 .. len - 1
      PROVE  [S |-> r[w], I |-> psi[w].I, P |-> r[w]] = [first[w] EXCEPT !.P = r[w]]
  <2>1. PICK x, y, z : psi[w] = [S |-> x, I |-> y, P |-> z]
    BY <1>1
  <2>2. first[w] = [psi[w] EXCEPT !.S = r[w]]
    BY <1>1 DEF first, Shipping
  <2>3. first[w] = [S |-> r[w], I |-> y, P |-> z]
    BY <2>1, <2>2
  <2> QED
    BY <2>1, <2>3
<1>6. Replaced(psi, r) = both
  BY <1>1, <1>4, <1>5 DEF Replaced, Arriving
<1> QED
  BY <1>2, <1>3, <1>6

(* What a node ships is listed by lots, and what of it a child receives.   *)
Shipment == [lot : Nat, week : Nat]

(* A node's shipments are a list of lots and weeks.                        *)
LEMMA ShipmentsListed ==
  ASSUME NEW len \in Nat \ {0}, NEW psi \in Space(len, Nat)
  PROVE  Shipments(psi) \in Seq(Shipment)
<1> DEFINE Of(k) == [i \in DOMAIN psi[k - 1].S |-> [lot |-> psi[k - 1].S[i], week |-> k - 1]]
           lists == [k \in 1 .. Weeks(psi) |-> Of(k)]
           A == Seq(Shipment)
<1>1. Weeks(psi) = len /\ \A w \in 0 .. len - 1 : psi[w].S \in Seq(Nat)
  BY SpaceParts
<1>2. ASSUME NEW k \in 1 .. len PROVE Of(k) \in A
  <2>1. PICK s \in Seq(Nat), w \in Nat : s = psi[k - 1].S /\ w = k - 1
    BY <1>1
  <2>2. \A i \in 1 .. Len(s) : [lot |-> s[i], week |-> w] \in Shipment
    BY DEF Shipment
  <2>3. [i \in 1 .. Len(s) |-> [lot |-> s[i], week |-> w]] \in Seq(Shipment)
    <3> DEFINE R(i) == [lot |-> s[i], week |-> w]
    <3>1. \A i \in 1 .. Len(s) : R(i) \in Shipment
      BY <2>2
    <3>2. Len(s) \in Nat
      OBVIOUS
    <3> HIDE DEF R
    <3>3. [i \in 1 .. Len(s) |-> R(i)] \in Seq(Shipment)
      BY <3>1, <3>2
    <3> QED
      BY <3>3 DEF R
  <2>4. DOMAIN psi[k - 1].S = 1 .. Len(s)
    BY <2>1
  <2>5. Of(k) = [i \in 1 .. Len(s) |-> [lot |-> s[i], week |-> w]]
    BY <2>1, <2>4
  <2> HIDE DEF Of
  <2> QED
    BY <2>3, <2>5
<1>3. lists \in Seq(A)
  <2>1. \A k \in 1 .. len : Of(k) \in A
    BY <1>2
  <2> HIDE DEF Of, A
  <2>2. [k \in 1 .. len |-> Of(k)] \in Seq(A)
    BY <2>1
  <2> QED
    BY <1>1, <2>2
<1>4. Shipments(psi) = Concat(lists)
  BY DEF Shipments
<1> HIDE DEF lists
<1> QED
  BY <1>3, <1>4, ConcatJoins DEF A

(* What of them a child receives is a list of lots for every week.         *)
LEMMA ReceivedLists ==
  ASSUME NEW p \in Products, NEW n, NEW c, NEW psi \in Space(Length(p), Nat)
  PROVE  Received(p, n, c, Placed(p, n, Shipments(psi))) \in [0 .. Length(p) - 1 -> Seq(Nat)]
<1> DEFINE all == Shipments(psi)
           places == {i \in DOMAIN all : \A j \in 1 .. i : CanShip(p, n, all[j])}
           placed == Placed(p, n, all)
<1>1. all \in Seq(Shipment)
  BY ProductFacts, ShipmentsListed
<1>2. placed \in Seq(Shipment)
  <2>1. places \in SUBSET (1 .. Len(all))
    BY <1>1
  <2>2. placed = Picked(all, places)
    BY DEF Placed
  <2> HIDE DEF places, all, placed
  <2> QED
    BY <1>1, <2>1, <2>2, PickedInOrder
<1> HIDE DEF placed
<1> DEFINE at(w) == {i \in DOMAIN placed : Receiver(p, n, placed[i].lot) = c
                                           /\ Arrival(p, n, placed[i]) = w}
           here(w) == Picked(placed, at(w))
           lots(w) == [i \in DOMAIN here(w) |-> here(w)[i].lot]
<1>3. ASSUME NEW w \in 0 .. Length(p) - 1 PROVE lots(w) \in Seq(Nat)
  <2>1. at(w) \in SUBSET (1 .. Len(placed))
    BY <1>2
  <2>2. here(w) \in Seq(Shipment)
    <3> HIDE DEF at
    <3> QED
      BY <1>2, <2>1, PickedInOrder
  <2>3. PICK s \in Seq(Shipment) : s = here(w)
    BY <2>2
  <2>4. \A i \in 1 .. Len(s) : s[i].lot \in Nat
    <3>1. \A i \in 1 .. Len(s) : s[i] \in Shipment
      OBVIOUS
    <3> QED
      BY <3>1 DEF Shipment
  <2>5. [i \in 1 .. Len(s) |-> s[i].lot] \in Seq(Nat)
    BY <2>4
  <2> HIDE DEF here
  <2> QED
    BY <2>3, <2>5
<1>4. Received(p, n, c, placed) = [w \in 0 .. Length(p) - 1 |-> lots(w)]
  BY Zenon DEF Received
<1> HIDE DEF lots
<1>5. [w \in 0 .. Length(p) - 1 |-> lots(w)] \in [0 .. Length(p) - 1 -> Seq(Nat)]
  BY <1>3
<1> QED
  BY <1>4, <1>5 DEF placed

(* The leveled root: its stock is reckoned anew.                           *)
LEMMA RootLeveled ==
  ASSUME NEW p \in Products, NEW demand \in Space(Length(p), Nat), NEW supply \in Space(Length(p), Nat)
  PROVE  /\ LeveledRoot(p, demand, supply) \in Space(Length(p), Nat)
         /\ Stocked(LeveledRoot(p, demand, supply), Length(p))
<1> DEFINE len == Length(p)
           years == [lot \in DOMAIN p.lots |-> p.lots[lot].years]
           shipped == demand_leveling_on_ship(demand, supply, p.weeks, years, PreProdWeeks)
           shifted == shiftS2P_LV_replace(shipped, p.ss[p.root], p.vacation[p.root])
<1>1. /\ len \in Nat \ {0} /\ p.weeks \in Seq(Nat \ {0}) /\ p.weeks # <<>>
      /\ PreProdWeeks \in Nat /\ PreProdWeeks <= p.weeks[1] /\ p.ss[p.root] \in Nat
  BY ProductFacts DEF TreeOf
<1>2. shipped \in Space(len, Nat)
  <2> HIDE DEF len, years
  <2> QED
    BY <1>1, LeveledLists DEF len
<1>3. LeveledRoot(p, demand, supply) = calcPS2I4supply(shifted)
  BY DEF LeveledRoot
<1> HIDE DEF shipped, len
<1>4. shifted \in Space(len, Nat)
  BY <1>1, <1>2, ReplaceKeeps
<1> HIDE DEF shifted
<1>5. calcPS2I4supply(shifted) \in Space(len, Nat) /\ Stocked(calcPS2I4supply(shifted), len)
  BY <1>1, <1>4, SupplyReckoned
<1> QED
  BY <1>3, <1>5 DEF len

-----------------------------------------------------------------------------
(* The steps of planning.                                                  *)

(* What depends on the product only stays as the product does.             *)
LEMMA ProductStays ==
  ASSUME product' = product
  PROVE  Spaces' = Spaces /\ Lots' = Lots
BY DEF Spaces, Lots

(* New layers: nothing is planned.                                         *)
LEMMA NewLayers ==
  ASSUME NEW p \in Products
  PROVE  /\ NewSpaces(p) \in [p.nodes -> Space(Length(p), Nat)]
         /\ \A n \in p.nodes : Stocked(NewSpaces(p)[n], Length(p))
<1>1. Length(p) \in Nat \ {0}
  BY ProductFacts
<1>2. EmptyPsi(Length(p)) \in Space(Length(p), Nat)
  BY <1>1, EmptySpace
<1>3. Stocked(EmptyPsi(Length(p)), Length(p))
  <2> SUFFICES ASSUME NEW w \in 0 .. Length(p) - 1 PROVE Distinct(EmptyPsi(Length(p))[w].I)
    BY DEF Stocked
  <2>1. EmptyPsi(Length(p))[w].I = <<>>
    BY DEF EmptyPsi, EmptyWeek
  <2> QED
    BY <2>1 DEF Distinct
<1> QED
  BY <1>2, <1>3 DEF NewSpaces

(* Nothing is planned before the first command.                            *)
LEMMA PlanInit ==
  ASSUME Init
  PROVE  PlanInv
<1>1. product \in Products /\ command = "load"
      /\ psi4demand = NewSpaces(product) /\ psi4supply = NewSpaces(product)
  BY DEF Init
<1> QED
  BY <1>1, NewLayers DEF PlanInv, Spaces, Walks

(* Loading begins with new layers.                                         *)
LEMMA BeginLoadKeeps ==
  ASSUME PlanInv, BeginLoad
  PROVE  PlanInv'
<1>1. product' = product /\ command' = "load" /\ product \in Products
      /\ psi4demand' = NewSpaces(product) /\ psi4supply' = NewSpaces(product)
  BY DEF BeginLoad, Begin, PlanInv
<1>2. NewSpaces(product) \in [product.nodes -> Spaces]
      /\ \A n \in product.nodes : Stocked(NewSpaces(product)[n], Length(product))
  BY <1>1, NewLayers DEF Spaces
<1> QED
  BY <1>1, <1>2, ProductStays DEF PlanInv, Walks

(* Loading a node: its shipments are those of demand or of its children.   *)
LEMMA LoadNodeKeeps ==
  ASSUME PlanInv, LoadNode
  PROVE  PlanInv'
<1> DEFINE n == Head(todo)
           shipped == IF IsLeaf(product, n) THEN set_S2psi(product, n, psi4demand[n])
                      ELSE get_set_childrenP2S2psi(product, n, psi4demand)
           d == shiftS2P_LV(shipped, product.ss[n], product.vacation[n])
           s == copy_demand_to_supply(psi4demand'[n], psi4supply[n])
           len == Length(product)
<1>0. /\ product \in Products /\ len \in Nat \ {0}
      /\ psi4demand \in [product.nodes -> Spaces] /\ psi4supply \in [product.nodes -> Spaces]
      /\ \A m \in product.nodes : Stocked(psi4supply[m], len)
  BY ProductFacts DEF PlanInv
<1>1. /\ product' = product /\ command' = "load"
      /\ IsLeaf(product, n) \/ product.leadtime[n] # None
      /\ psi4demand' = [psi4demand EXCEPT ![n] = d]
      /\ psi4supply' = [psi4supply EXCEPT ![n] = s]
  BY DEF LoadNode, Running
<1>2. n \in product.nodes => d \in Spaces
  <2> SUFFICES ASSUME n \in product.nodes PROVE d \in Spaces
    OBVIOUS
  <2>1. psi4demand \in [product.nodes -> Space(len, Nat)] /\ psi4demand[n] \in Space(len, Nat)
    BY <1>0 DEF Spaces
  <2>2. shipped \in Space(len, Nat)
    BY <1>0, <1>1, <2>1, DemandKeeps, RequestsKeep
  <2>3. product.ss[n] \in Nat
    BY <1>0, ProductFacts
  <2> HIDE DEF shipped, n, len
  <2> QED
    BY <1>0, <2>2, <2>3, ShiftAppends DEF Spaces, len
<1> HIDE DEF n, d
<1>3. psi4demand' \in [product.nodes -> Spaces]
      /\ (n \in product.nodes => psi4demand'[n] \in Spaces)
  <2>1. [psi4demand EXCEPT ![n] = d] \in [product.nodes -> Spaces]
    BY <1>0, <1>2, NodeChanged
  <2> QED
    BY <1>1, <2>1
<1>4. n \in product.nodes =>
        s \in Spaces /\ \A w \in 0 .. len - 1 : s[w].I = psi4supply[n][w].I
  <2> SUFFICES ASSUME n \in product.nodes
               PROVE  s \in Spaces /\ \A w \in 0 .. len - 1 : s[w].I = psi4supply[n][w].I
    OBVIOUS
  <2>1. psi4demand'[n] \in Space(len, Nat) /\ psi4supply[n] \in Space(len, Nat)
    BY <1>0, <1>3 DEF Spaces
  <2> HIDE DEF len
  <2> QED
    BY <1>0, <2>1, CopyKeeps DEF Spaces, len
<1> HIDE DEF s
<1>5. psi4supply' \in [product.nodes -> Spaces]
      /\ \A m \in product.nodes : psi4supply'[m] = IF m = n THEN s ELSE psi4supply[m]
  BY <1>0, <1>1, <1>4, NodeChanged
<1>6. \A m \in product.nodes : Stocked(psi4supply'[m], len)
  BY <1>0, <1>4, <1>5 DEF Stocked
<1> QED
  BY <1>0, <1>1, <1>3, <1>5, <1>6, ProductStays DEF PlanInv, Walks

(* Loading that raises leaves the layers as they are.                      *)
LEMMA LoadRaisesKeeps ==
  ASSUME PlanInv, LoadRaises
  PROVE  PlanInv'
<1>1. product' = product /\ command' = "load" /\ psi4demand' = psi4demand /\ psi4supply' = psi4supply
  BY DEF LoadRaises, Running
<1> QED
  BY <1>1, ProductStays DEF PlanInv, Walks

(* Demand planning begins with its walk at the root.                       *)
LEMMA BeginDemandKeeps ==
  ASSUME PlanInv, BeginDemandPlanning
  PROVE  PlanInv'
<1> DEFINE rest == <<product.root>>
<1>1. /\ product' = product /\ command' = "demand_planning" /\ product \in Products
      /\ psi4demand' = psi4demand /\ psi4supply' = psi4supply /\ todo' = rest
  BY DEF BeginDemandPlanning, Begin, PlanInv
<1>2. rest \in Seq(product.nodes) /\ Walked(psi4demand, rest)
  BY <1>1, WalkBegins
<1> HIDE DEF rest
<1>3. Walked(psi4demand, todo)'
  BY <1>1, <1>2, ProductStays DEF Walked, IsVisited, Passed
<1> QED
  BY <1>1, <1>2, <1>3, ProductStays DEF PlanInv, Walks

(* A visit of demand planning: the node's stock agrees from now on.        *)
LEMMA DemandNodeKeeps ==
  ASSUME PlanInv, DemandNode
  PROVE  PlanInv'
<1> DEFINE n == Head(todo)
           d == calcPS2I4demand(psi4demand[n])
           rest == Children(product, n) \o Tail(todo)
           len == Length(product)
<1>0. /\ product \in Products /\ len \in Nat \ {0} /\ todo # <<>> /\ command = "demand_planning"
      /\ psi4demand \in [product.nodes -> Spaces] /\ psi4supply \in [product.nodes -> Spaces]
      /\ \A m \in product.nodes : Stocked(psi4supply[m], len)
      /\ todo \in Seq(product.nodes) /\ Walked(psi4demand, todo)
  BY ProductFacts DEF PlanInv, DemandNode, Running, Walks
<1>1. /\ product' = product /\ command' = "demand_planning" /\ psi4supply' = psi4supply
      /\ psi4demand' = [psi4demand EXCEPT ![n] = d] /\ todo' = rest
  BY <1>0 DEF DemandNode, AfterVisit
<1>2. n \in product.nodes
  BY <1>0
<1>3. d \in Spaces /\ StockAgrees(d, Lots)
  <2>1. psi4demand[n] \in Space(len, Nat)
    BY <1>0, <1>2 DEF Spaces
  <2> HIDE DEF n, len
  <2> QED
    BY <1>0, <2>1, DemandReckoned DEF Spaces, len
<1> HIDE DEF d
<1>4. psi4demand' \in [product.nodes -> Spaces]
      /\ \A m \in product.nodes : psi4demand'[m] = IF m = n THEN d ELSE psi4demand[m]
  BY <1>0, <1>1, <1>3, NodeChanged
<1>5. rest \in Seq(product.nodes) /\ Walked(psi4demand', rest)
  <2>1. StockAgrees(psi4demand'[n], Lots)
        /\ \A m \in product.nodes : m # n => psi4demand'[m] = psi4demand[m]
    BY <1>2, <1>3, <1>4
  <2>2. PICK new : new = psi4demand'
    OBVIOUS
  <2>3. rest \in Seq(product.nodes) /\ Walked(new, rest)
    BY <1>0, <2>1, <2>2, WalkGoesOn
  <2> QED
    BY <2>2, <2>3
<1> HIDE DEF rest
<1>6. Walked(psi4demand, todo)'
  BY <1>1, <1>5, ProductStays DEF Walked, IsVisited, Passed
<1> QED
  BY <1>0, <1>1, <1>4, <1>5, <1>6, ProductStays DEF PlanInv, Walks

(* Leveling begins with the root, whose stock is reckoned anew.            *)
LEMMA BeginLevelingKeeps ==
  ASSUME PlanInv, BeginLeveling
  PROVE  PlanInv'
<1> DEFINE n == product.root
           s == LeveledRoot(product, psi4demand[n], psi4supply[n])
           len == Length(product)
<1>0. /\ product \in Products /\ n \in product.nodes
      /\ psi4demand \in [product.nodes -> Spaces] /\ psi4supply \in [product.nodes -> Spaces]
      /\ \A m \in product.nodes : Stocked(psi4supply[m], len)
  BY ProductFacts DEF PlanInv, TreeOf
<1>1. /\ product' = product /\ command' = "demand_leveling" /\ psi4demand' = psi4demand
      /\ psi4supply' = [psi4supply EXCEPT ![n] = s] /\ todo' = <<product.root>>
  BY DEF BeginLeveling, Begin
<1>2. s \in Spaces /\ Stocked(s, len)
  <2>1. psi4demand[n] \in Space(len, Nat) /\ psi4supply[n] \in Space(len, Nat)
    BY <1>0 DEF Spaces
  <2> QED
    BY <1>0, <2>1, RootLeveled DEF Spaces
<1> HIDE DEF s
<1>3. psi4supply' \in [product.nodes -> Spaces]
      /\ \A m \in product.nodes : psi4supply'[m] = IF m = n THEN s ELSE psi4supply[m]
  BY <1>0, <1>1, <1>2, NodeChanged
<1>4. <<product.root>> \in Seq(product.nodes)
  BY <1>0, WalkBegins
<1> QED
  BY <1>0, <1>1, <1>2, <1>3, <1>4, ProductStays DEF PlanInv, Walks

(* Passing shipments down changes what the children ship and receive.      *)
LEMMA FeedbackNodeKeeps ==
  ASSUME PlanInv, FeedbackNode
  PROVE  PlanInv'
<1> DEFINE n == Head(todo)
           placed == Placed(product, n, Shipments(psi4supply[n]))
           r(m) == Received(product, n, m, placed)
           len == Length(product)
<1>0. /\ product \in Products /\ len \in Nat \ {0}
      /\ psi4demand \in [product.nodes -> Spaces] /\ psi4supply \in [product.nodes -> Spaces]
      /\ \A m \in product.nodes : Stocked(psi4supply[m], len)
      /\ todo \in Seq(product.nodes) /\ todo # <<>> /\ n \in product.nodes
  <2>1. command = "demand_leveling" /\ todo # <<>>
    BY DEF FeedbackNode, Running
  <2> QED
    BY <2>1, ProductFacts DEF PlanInv, Walks
<1>1. /\ product' = product /\ command' = "demand_leveling" /\ psi4demand' = psi4demand
      /\ todo' \in {AfterVisit, <<>>}
  BY DEF FeedbackNode, Running, Raise
<1>2. todo' \in Seq(product.nodes)
  <2>1. Children(product, n) \in Seq(product.nodes) /\ Tail(todo) \in Seq(product.nodes)
    BY <1>0, ProductFacts
  <2>2. AfterVisit \in Seq(product.nodes) /\ <<>> \in Seq(product.nodes)
    BY <2>1 DEF AfterVisit
  <2> QED
    BY <1>1, <2>2
<1>3. CASE IsLeaf(product, n)
  <2>1. psi4supply' = psi4supply
    BY <1>3 DEF FeedbackNode
  <2> QED
    BY <1>0, <1>1, <1>2, <2>1, ProductStays DEF PlanInv, Walks
<1>4. CASE ~IsLeaf(product, n)
  <2>1. psi4supply' = [m \in product.nodes |->
                         IF Contains(Children(product, n), m) THEN Replaced(psi4supply[m], r(m))
                         ELSE psi4supply[m]]
    BY <1>4 DEF FeedbackNode
  <2>2. ASSUME NEW m \in product.nodes, Contains(Children(product, n), m)
        PROVE  /\ Replaced(psi4supply[m], r(m)) \in Spaces
               /\ Stocked(Replaced(psi4supply[m], r(m)), len)
    <3>1. psi4supply[m] \in Space(len, Nat)
      BY <1>0 DEF Spaces
    <3>3. psi4supply[n] \in Space(len, Nat)
      BY <1>0 DEF Spaces
    <3>4. r(m) \in [0 .. len - 1 -> Seq(Nat)]
      BY <1>0, <3>3, ReceivedLists
    <3>5. PICK x \in [0 .. len - 1 -> Seq(Nat)] : x = r(m)
      BY <3>4
    <3>6. /\ Replaced(psi4supply[m], x) \in Space(len, Nat)
          /\ \A w \in 0 .. len - 1 : Replaced(psi4supply[m], x)[w].I = psi4supply[m][w].I
      <4> HIDE DEF len, n
      <4> QED
        BY <1>0, <3>1, ReplacedKeeps
    <3> QED
      BY <1>0, <3>5, <3>6 DEF Spaces, Stocked
  <2> HIDE DEF r, n
  <2>3. psi4supply' \in [product.nodes -> Spaces]
        /\ \A m \in product.nodes : Stocked(psi4supply'[m], len)
    BY <1>0, <2>1, <2>2
  <2> QED
    BY <1>0, <1>1, <1>2, <2>3, ProductStays DEF PlanInv, Walks
<1> QED
  BY <1>3, <1>4

(* Supply planning begins: it raises, or the walk is at the root.          *)
LEMMA WalkBeginsSupply ==
  ASSUME PlanInv, product' = product, psi4demand' = psi4demand, psi4supply' = psi4supply,
         command' = "supply_planning", todo' = <<product.root>>
  PROVE  PlanInv'
<1> DEFINE rest == <<product.root>>
<1>1. /\ product' = product /\ psi4supply' = psi4supply /\ todo' = rest
      /\ product \in Products
  BY DEF PlanInv
<1>2. rest \in Seq(product.nodes) /\ Walked(psi4supply, rest)
  BY <1>1, WalkBegins
<1> HIDE DEF rest
<1>3. Walked(psi4supply, todo)'
  BY <1>1, <1>2, ProductStays DEF Walked, IsVisited, Passed
<1> QED
  BY <1>1, <1>2, <1>3, ProductStays DEF PlanInv, Walks

(* Supply planning begins with its walk, or raises.                        *)
LEMMA BeginSupplyKeeps ==
  ASSUME PlanInv, BeginSupplyPlanning
  PROVE  PlanInv'
<1>1. /\ product' = product /\ command' = "supply_planning"
      /\ psi4demand' = psi4demand /\ psi4supply' = psi4supply
      /\ (raised' = TRUE /\ todo' = <<>>) \/ todo' = <<product.root>>
  BY DEF BeginSupplyPlanning, Begin, Raise
<1>2. CASE raised' = TRUE /\ todo' = <<>>
  <2>1. <<>> \in Seq(product.nodes)
    OBVIOUS
  <2> QED
    BY <1>1, <1>2, <2>1, ProductStays DEF PlanInv, Walks
<1>3. CASE todo' = <<product.root>>
  BY <1>1, <1>3, WalkBeginsSupply
<1> QED
  BY <1>1, <1>2, <1>3

(* Pushed or pulled, a node's stock is reckoned last.                      *)
LEMMA SupplyNodeKeeps ==
  ASSUME PlanInv, SupplyNode
  PROVE  PlanInv'
<1> DEFINE n == Head(todo)
           rest == Children(product, n) \o Tail(todo)
           len == Length(product)
           supply == psi4supply[n]
           demand == psi4demand[n]
           Reached == IF Pulled(product, n)
                      THEN SupplyBucket(SupplyBucket(supply, demand, "S"), demand, "P")
                      ELSE IF n \in decouple
                           THEN SupplyBucket(calcPS2I4supply(supply), demand, "S")
                           ELSE supply
           s == calcPS2I4supply(Reached)
<1>0. /\ product \in Products /\ len \in Nat \ {0} /\ todo # <<>> /\ command = "supply_planning"
      /\ psi4demand \in [product.nodes -> Spaces] /\ psi4supply \in [product.nodes -> Spaces]
      /\ \A m \in product.nodes : Stocked(psi4supply[m], len)
      /\ todo \in Seq(product.nodes) /\ n \in product.nodes
  <2>1. command = "supply_planning" /\ todo # <<>>
    BY DEF SupplyNode, Running
  <2> QED
    BY <2>1, ProductFacts DEF PlanInv, Walks
<1>1. /\ product' = product /\ command' = "supply_planning" /\ psi4demand' = psi4demand
      /\ raised' = raised /\ todo' = rest
      /\ psi4supply' = [psi4supply EXCEPT ![n] = s]
  <2>1. /\ product' = product /\ command' = "supply_planning" /\ psi4demand' = psi4demand
        /\ raised' = raised /\ todo' = rest
    BY <1>0 DEF SupplyNode, AfterVisit
  <2>2. psi4supply' = [psi4supply EXCEPT ![n] =
          IF Pulled(product, n) THEN PULL_process(supply, demand)
          ELSE IF n \in decouple
               THEN PUSH_process(SupplyBucket(calcPS2I4supply(supply), demand, "S"))
               ELSE PUSH_process(supply)]
    BY DEF SupplyNode
  <2> QED
    BY <2>1, <2>2 DEF PULL_process, PUSH_process
<1>2. Reached \in Space(len, Nat)
  <2>1. supply \in Space(len, Nat) /\ demand \in Space(len, Nat)
    BY <1>0 DEF Spaces
  <2> HIDE DEF supply, demand, len
  <2>2. calcPS2I4supply(supply) \in Space(len, Nat)
    BY <1>0, <2>1, SupplyReckoned
  <2>3. SupplyBucket(calcPS2I4supply(supply), demand, "S") \in Space(len, Nat)
        /\ SupplyBucket(supply, demand, "S") \in Space(len, Nat)
    BY <1>0, <2>1, <2>2, BucketKeeps
  <2>4. SupplyBucket(SupplyBucket(supply, demand, "S"), demand, "P") \in Space(len, Nat)
    BY <1>0, <2>1, <2>3, BucketKeeps
  <2> QED
    BY <2>1, <2>3, <2>4
<1> HIDE DEF Reached
<1>3. s \in Spaces /\ StockAgrees(s, Lots) /\ Stocked(s, len)
  <2> HIDE DEF len
  <2> QED
    BY <1>0, <1>2, SupplyReckoned DEF Spaces, len
<1> HIDE DEF s
<1>4. psi4supply' \in [product.nodes -> Spaces]
      /\ \A m \in product.nodes : psi4supply'[m] = IF m = n THEN s ELSE psi4supply[m]
  BY <1>0, <1>1, <1>3, NodeChanged
<1>5. rest \in Seq(product.nodes)
  BY <1>0, ProductFacts
<1>6. ~raised => Walked(psi4supply', rest)
  <2> SUFFICES ASSUME ~raised PROVE Walked(psi4supply', rest)
    OBVIOUS
  <2>1. Walked(psi4supply, todo)
    BY <1>0 DEF PlanInv
  <2>2. StockAgrees(psi4supply'[n], Lots)
        /\ \A m \in product.nodes : m # n => psi4supply'[m] = psi4supply[m]
    BY <1>0, <1>3, <1>4
  <2>3. PICK new : new = psi4supply'
    OBVIOUS
  <2>4. Walked(new, rest)
    BY <1>0, <2>1, <2>2, <2>3, WalkGoesOn
  <2> QED
    BY <2>3, <2>4
<1> HIDE DEF rest
<1>7. ~raised' => Walked(psi4supply, todo)'
  BY <1>1, <1>6, ProductStays DEF Walked, IsVisited, Passed
<1>8. \A m \in product.nodes : Stocked(psi4supply'[m], len)
  BY <1>0, <1>3, <1>4
<1> QED
  BY <1>0, <1>1, <1>4, <1>5, <1>7, <1>8, ProductStays DEF PlanInv, Walks

(* Every visit keeps the invariant.                                        *)
LEMMA StepKeeps ==
  ASSUME PlanInv, Step
  PROVE  PlanInv'
BY LoadNodeKeeps, LoadRaisesKeeps, DemandNodeKeeps, FeedbackNodeKeeps, SupplyNodeKeeps DEF Step

(* So does a step that plans nothing.                                      *)
LEMMA SamePlan ==
  ASSUME PlanInv, UNCHANGED vars
  PROVE  PlanInv'
<1>1. /\ product' = product /\ command' = command /\ todo' = todo /\ raised' = raised
      /\ psi4demand' = psi4demand /\ psi4supply' = psi4supply
  BY DEF vars
<1>2. /\ Walked(psi4demand, todo) => Walked(psi4demand, todo)'
      /\ Walked(psi4supply, todo) => Walked(psi4supply, todo)'
  BY <1>1, ProductStays DEF Walked, IsVisited, Passed
<1> QED
  BY <1>1, <1>2, ProductStays DEF PlanInv, Walks

(* A walk that ended has visited every node.                               *)
LEMMA SettledAgrees ==
  ASSUME PlanInv
  PROVE  StockFollowsMoves
<1>1. Settled("demand_planning") => \A n \in product.nodes : StockAgrees(psi4demand[n], Lots)
  BY WalkEnds DEF PlanInv, Settled
<1>2. Settled("supply_planning") => \A n \in product.nodes : StockAgrees(psi4supply[n], Lots)
  BY WalkEnds DEF PlanInv, Settled
<1> QED
  BY <1>1, <1>2 DEF StockFollowsMoves

(* The invariant holds in every session of the planning buttons.           *)
THEOREM PlanInvariance == Spec => []PlanInv
<1>1. Init => PlanInv
  BY PlanInit
<1>2. PlanInv /\ [Next]_vars => PlanInv'
  BY BeginLoadKeeps, BeginDemandKeeps, BeginLevelingKeeps, BeginSupplyKeeps, StepKeeps, SamePlan
     DEF Next, SessionOver
<1> QED
  BY <1>1, <1>2, PTL DEF Spec

(* In any session of the planning buttons, of any length and on any tree:  *)
(* when demand planning or supply planning has ended, every node's stock   *)
(* is what its arrivals and shipments leave.                               *)
THEOREM PlannedStockFollowsMoves == Spec => []StockFollowsMoves
<1>1. PlanInv => StockFollowsMoves
  BY SettledAgrees
<1> QED
  BY <1>1, PlanInvariance, PTL

-----------------------------------------------------------------------------
(* The decoupling candidates of a product cut its tree.                    *)

(* The recursive definition has a solution.                                *)
LEMMA SubtreesBelow ==
  ASSUME NEW p, TreeOf(p.nodes, p.root, p.children)
  PROVE  IsBelow(Subtrees(p), p.nodes, p.children)
<1> DEFINE nodes == p.nodes
           children == p.children
           root == p.root
           V == SUBSET nodes
           Here(n, b) == {n} \cup UNION {b[c] : c \in ToSet(children[n])}
           step == [n \in nodes |-> [b \in [nodes -> V] |-> Here(n, b)]]
           below == CHOOSE b : b = [n \in nodes |-> Here(n, b)]
<1>0. Subtrees(p) = below
  BY Zenon DEF Subtrees, Children
<1>1. TreeOf(nodes, root, children)
  OBVIOUS
<1> HIDE DEF nodes, children, root
<1>2. \A n \in nodes : ToSet(children[n]) \subseteq nodes
                       /\ \A c \in ToSet(children[n]) : Contains(children[n], c)
  <2> SUFFICES ASSUME NEW n \in nodes
               PROVE  ToSet(children[n]) \subseteq nodes
                      /\ \A c \in ToSet(children[n]) : Contains(children[n], c)
    OBVIOUS
  <2>1. children[n] \in Seq(nodes)
    BY <1>1 DEF TreeOf
  <2> QED
    BY <2>1 DEF ToSet, Contains
<1>3. \A n \in nodes, b \in [nodes -> V] : Here(n, b) \in V
  BY <1>2
<1>4. step \in StepsUp(nodes, V)
  <2> HIDE DEF V, Here
  <2> QED
    BY <1>3 DEF StepsUp
<1>5. IsLocal(step, nodes, children, V)
  <2> SUFFICES ASSUME NEW n \in nodes, NEW v \in [nodes -> V], NEW w \in [nodes -> V],
                      \A c \in nodes : Contains(children[n], c) => v[c] = w[c]
               PROVE  step[n][v] = step[n][w]
    BY DEF IsLocal
  <2>1. \A c \in ToSet(children[n]) : v[c] = w[c]
    BY <1>2
  <2>2. Here(n, v) = Here(n, w)
    BY <2>1
  <2> HIDE DEF Here, V
  <2> QED
    BY <2>2
<1>6. PICK g \in [nodes -> V] : \A n \in nodes : g[n] = step[n][g]
  <2>1. V # {}
    OBVIOUS
  <2> HIDE DEF V, step
  <2> QED
    BY <1>1, <1>4, <1>5, <2>1, UpwardExists
<1>7. g = [n \in nodes |-> Here(n, g)]
  <2> HIDE DEF Here, V
  <2> QED
    BY <1>6
<1>8. below = [n \in nodes |-> Here(n, below)]
  <2> HIDE DEF Here
  <2> QED
    BY <1>7, Zenon
<1> HIDE DEF below
<1>9. \A n \in nodes : below[n] = Here(n, below)
  <2> HIDE DEF Here
  <2> QED
    BY <1>8
<1> DEFINE S == {n \in nodes : below[n] \in SUBSET nodes}
<1>10. ASSUME NEW n \in nodes, \A c \in nodes : Contains(children[n], c) => c \in S
       PROVE  n \in S
  <2>1. \A c \in ToSet(children[n]) : below[c] \in SUBSET nodes
    BY <1>2, <1>10
  <2>2. Here(n, below) \in SUBSET nodes
    BY <2>1
  <2> QED
    BY <1>9, <2>2
<1>11. \A n \in nodes : n \in S
  <2> HIDE DEF S
  <2> QED
    BY <1>1, <1>10, UpTheTree
<1>12. below \in [nodes -> SUBSET nodes]
  <2> HIDE DEF Here
  <2> QED
    BY <1>8, <1>11
<1> QED
  BY <1>0, <1>9, <1>12 DEF IsBelow, nodes, children

(* A product's tree.                                                       *)
LEMMA ProductOutline ==
  ASSUME NEW p \in Products
  PROVE  /\ IsOutline(p.nodes, p.root, p.children, Subtrees(p))
         /\ IsFiniteSet(p.nodes) /\ p.root \in p.nodes /\ Outside \notin p.nodes
         /\ p.children \in [p.nodes -> Seq(p.nodes)]
         /\ \A n : Below(p, n) = Subtrees(p)[n]
         /\ \A n : find_depth(p, n) = Deep(Subtrees(p), p.nodes, n)
<1>1. TreeOf(p.nodes, p.root, p.children) /\ ListedOnce(p.nodes, p.children) /\ Outside \notin p.nodes
  BY ProductsAssumption
<1>2. IsOutline(p.nodes, p.root, p.children, Subtrees(p))
  BY <1>1, SubtreesBelow DEF IsOutline
<1>3. \A n : Below(p, n) = Subtrees(p)[n]
  BY DEF Below, SubtreesOf
<1>4. \A n : find_depth(p, n) = Deep(Subtrees(p), p.nodes, n)
  BY <1>3 DEF find_depth, Deep, AtOrAbove
<1> QED
  BY <1>1, <1>2, <1>3, <1>4 DEF TreeOf

(* What comes later is not below what came before.                         *)
LowestFirst(p) == {pair \in p.nodes \X p.nodes : pair[2] \notin Subtrees(p)[pair[1]]}

(* Every node after its children, once.                                    *)
LEMMA PostOrderLists ==
  ASSUME NEW p, IsOutline(p.nodes, p.root, p.children, Subtrees(p))
  PROVE  /\ PostOrder(p) \in Seq(p.nodes) /\ Pairwise(PostOrder(p), Differing(p.nodes))
         /\ Pairwise(PostOrder(p), LowestFirst(p))
         /\ \A n \in p.nodes : Contains(PostOrder(p), n)
<1> DEFINE nodes == p.nodes
           children == p.children
           root == p.root
           B == Subtrees(p)
           V == Seq(nodes)
           lists(n, v) == [i \in 1 .. Len(children[n]) |-> v[children[n][i]]]
           Listed(n, v) == Concat(lists(n, v)) \o <<n>>
           step == [n \in nodes |-> [v \in [nodes -> V] |-> Listed(n, v)]]
           visit == CHOOSE v : v = [n \in nodes |-> Listed(n, v)]
<1>0. PostOrder(p) = visit[root]
  BY Zenon DEF PostOrder, Children
<1>1. /\ IsOutline(nodes, root, children, B) /\ TreeOf(nodes, root, children)
      /\ ListedOnce(nodes, children) /\ IsBelow(B, nodes, children) /\ root \in nodes
      /\ IsLaminar(nodes, children, B) /\ B[root] = nodes
  <2> HIDE DEF nodes, children, root, B
  <2>1. IsOutline(nodes, root, children, B)
    BY DEF nodes, root, children, B
  <2>2. IsLaminar(nodes, children, B) /\ B[root] = nodes
    BY <2>1, OutlineIsLaminar
  <2> QED
    BY <2>1, <2>2 DEF IsOutline, TreeOf
<1> HIDE DEF nodes, children, root, B
<1>2. \A n \in nodes : /\ children[n] \in Seq(nodes) /\ Len(children[n]) \in Nat
                       /\ \A i \in 1 .. Len(children[n]) :
                            children[n][i] \in nodes /\ Contains(children[n], children[n][i])
  <2> SUFFICES ASSUME NEW n \in nodes
               PROVE  /\ children[n] \in Seq(nodes) /\ Len(children[n]) \in Nat
                      /\ \A i \in 1 .. Len(children[n]) :
                           children[n][i] \in nodes /\ Contains(children[n], children[n][i])
    OBVIOUS
  <2>1. children[n] \in Seq(nodes)
    BY <1>1 DEF TreeOf
  <2> QED
    BY <2>1 DEF Contains
<1>3. ASSUME NEW n \in nodes, NEW v \in [nodes -> V]
      PROVE  lists(n, v) \in Seq(Seq(nodes)) /\ Listed(n, v) \in V
  <2>1. lists(n, v) \in Seq(Seq(nodes))
    BY <1>2
  <2> DEFINE l == lists(n, v)
             X == nodes
  <2> HIDE DEF l
  <2>2. Concat(l) \in Seq(X)
    BY <2>1, ConcatJoins DEF l
  <2>3. Concat(l) \o <<n>> \in Seq(X)
    BY <2>2
  <2> QED
    BY <2>1, <2>3 DEF l
<1>4. step \in StepsUp(nodes, V)
  <2> HIDE DEF V, Listed
  <2> QED
    BY <1>3 DEF StepsUp
<1>5. IsLocal(step, nodes, children, V)
  <2> SUFFICES ASSUME NEW n \in nodes, NEW v \in [nodes -> V], NEW w \in [nodes -> V],
                      \A c \in nodes : Contains(children[n], c) => v[c] = w[c]
               PROVE  step[n][v] = step[n][w]
    BY DEF IsLocal
  <2>1. lists(n, v) = lists(n, w)
    BY <1>2
  <2>2. Listed(n, v) = Listed(n, w)
    <3> HIDE DEF lists
    <3> QED
      BY <2>1
  <2> HIDE DEF Listed, V
  <2> QED
    BY <2>2
<1>6. PICK g \in [nodes -> V] : \A n \in nodes : g[n] = step[n][g]
  <2>1. <<>> \in V
    OBVIOUS
  <2> HIDE DEF V, step
  <2> QED
    BY <1>1, <1>4, <1>5, <2>1, UpwardExists
<1>7. g = [n \in nodes |-> Listed(n, g)]
  <2> HIDE DEF Listed, V
  <2> QED
    BY <1>6
<1>8. visit = [n \in nodes |-> Listed(n, visit)]
  <2> HIDE DEF Listed
  <2> QED
    BY <1>7, Zenon
<1> HIDE DEF visit
<1>9. \A n \in nodes : visit[n] = Listed(n, visit)
  <2> HIDE DEF Listed
  <2> QED
    BY <1>8
<1> DEFINE R == {pair \in nodes \X nodes : pair[2] \notin B[pair[1]]}
           Good(n) == /\ visit[n] \in Seq(nodes) /\ Pairwise(visit[n], R)
                      /\ \A x : Contains(visit[n], x) <=> x \in B[n]
           S == {n \in nodes : Good(n)}
<1>10. ASSUME NEW n \in nodes, \A c \in nodes : Contains(children[n], c) => c \in S
       PROVE  n \in S
  <2> DEFINE l == lists(n, visit)
             len == Len(children[n])
             c(i) == children[n][i]
  <2>1. len \in Nat /\ \A i \in 1 .. len : c(i) \in nodes /\ Contains(children[n], c(i)) /\ Good(c(i))
    BY <1>2, <1>10
  <2>2. l \in Seq(Seq(nodes)) /\ Len(l) = len /\ \A i \in 1 .. len : l[i] = visit[c(i)]
    <3>1. \A i \in 1 .. len : visit[c(i)] \in Seq(nodes)
      BY <2>1
    <3> HIDE DEF len, Good
    <3>2. l = [i \in 1 .. len |-> visit[c(i)]]
      BY DEF len
    <3> HIDE DEF l
    <3> QED
      BY <2>1, <3>1, <3>2
  <2>3. visit[n] = Concat(l) \o <<n>>
    BY <1>9
  <2> HIDE DEF l, len
  <2>4. \A x : Contains(Concat(l), x) <=> \E i \in 1 .. len : Contains(l[i], x)
    BY <2>2, ConcatJoins
  <2>5. \A x : Contains(Concat(l), x) <=> \E i \in 1 .. len : x \in B[c(i)]
    BY <2>1, <2>2, <2>4
  <2>6. \A x : x \in B[n] <=> x = n \/ \E i \in 1 .. len : x \in B[c(i)]
    <3>1. \A x : x \in B[n] <=> x = n \/ \E d \in nodes : Contains(children[n], d) /\ x \in B[d]
      BY <1>1, BelowParts
    <3>2. \A d \in nodes : Contains(children[n], d) <=> \E i \in 1 .. len : d = c(i)
      BY <2>1 DEF Contains, len
    <3>3. \A i \in 1 .. len : c(i) \in nodes /\ Contains(children[n], c(i))
      BY <2>1
    <3> HIDE DEF c, Good
    <3> QED
      BY <3>1, <3>2, <3>3
  <2>7. \A i, j \in 1 .. len : i < j =>
          \A x, y : Contains(l[i], x) /\ Contains(l[j], y) => <<x, y>> \in R
    <3> SUFFICES ASSUME NEW i \in 1 .. len, NEW j \in 1 .. len, i < j, NEW x, NEW y,
                        x \in B[c(i)], y \in B[c(j)]
                 PROVE  <<x, y>> \in R
      <4>1. \A k \in 1 .. len : \A z : Contains(l[k], z) <=> z \in B[c(k)]
        <5> HIDE DEF c
        <5> QED
          BY <2>1, <2>2
      <4> HIDE DEF c, R
      <4> QED
        BY <4>1
    <3>1. c(i) \in nodes /\ c(j) \in nodes /\ x \in nodes /\ y \in nodes
      BY <1>1, <2>1 DEF IsBelow
    <3>2. c(i) # c(j)
      <4>1. i \in DOMAIN children[n] /\ j \in DOMAIN children[n]
        BY <1>2 DEF len
      <4> QED
        BY <1>1, <2>1, <4>1 DEF ListedOnce
    <3>3. ASSUME NEW a \in nodes, NEW b \in nodes, Contains(children[n], a),
                 Contains(children[n], b), a # b
          PROVE  a \notin B[b]
      <4>1. n \notin B[b]
        BY <1>1, <3>3 DEF IsLaminar
      <4>2. a \in B[b] => a = b \/ n \in B[b]
        BY <1>1, <3>3 DEF IsLaminar
      <4> QED
        BY <3>3, <4>1, <4>2
    <3>4. c(i) \notin B[c(j)] /\ c(j) \notin B[c(i)]
      BY <2>1, <3>1, <3>2, <3>3
    <3>5. y \notin B[x]
      <4>0. \A a, b \in nodes : y \in B[a] /\ y \in B[b] => a \in B[b] \/ b \in B[a]
        BY <1>1, <3>1 DEF IsLaminar
      <4> HIDE DEF c
      <4>1. y \in B[c(i)] /\ y \in B[c(j)] => c(i) \in B[c(j)] \/ c(j) \in B[c(i)]
        BY <3>1, <4>0
      <4>2. B[x] \subseteq B[c(i)]
        <5>1. \A a, b \in nodes : a \in B[b] => B[a] \subseteq B[b]
          BY <1>1 DEF IsLaminar
        <5> QED
          BY <3>1, <5>1
      <4> QED
        BY <3>4, <4>1, <4>2
    <3> QED
      BY <3>1, <3>5
  <2>8. Concat(l) \in Seq(nodes) /\ Pairwise(Concat(l), R)
    <3>1. \A i \in 1 .. Len(l) : Pairwise(l[i], R)
      BY <2>1, <2>2
    <3>2. \A i, j \in 1 .. Len(l) : i < j =>
            \A x, y : Contains(l[i], x) /\ Contains(l[j], y) => <<x, y>> \in R
      BY <2>2, <2>7
    <3> HIDE DEF R
    <3> QED
      BY <2>2, <3>1, <3>2, ConcatPairwise, ConcatJoins
  <2> DEFINE u == Concat(l)
             last == <<n>>
  <2>9. last \in Seq(nodes) /\ Pairwise(last, R) /\ \A x : Contains(last, x) <=> x = n
    BY DEF Pairwise, Contains
  <2>10. \A x, y : Contains(u, x) /\ Contains(last, y) => <<x, y>> \in R
    <3> SUFFICES ASSUME NEW i \in 1 .. len, NEW x \in B[c(i)] PROVE <<x, n>> \in R
      BY <2>5, <2>9
    <3>1. c(i) \in nodes /\ Contains(children[n], c(i)) /\ x \in nodes
      BY <1>1, <2>1 DEF IsBelow
    <3>2. n \notin B[c(i)]
      BY <1>1, <3>1 DEF IsLaminar
    <3>3. B[x] \subseteq B[c(i)]
      <4>1. \A a, b \in nodes : a \in B[b] => B[a] \subseteq B[b]
        BY <1>1 DEF IsLaminar
      <4> QED
        BY <3>1, <4>1
    <3> QED
      BY <3>1, <3>2, <3>3
  <2> HIDE DEF u, last, R
  <2>11. u \in Seq(nodes) /\ Pairwise(u, R)
    BY <2>8 DEF u
  <2>12. Pairwise(u \o last, R)
    BY <2>9, <2>10, <2>11, JoinPairwise
  <2>13. u \o last \in Seq(nodes) /\ HasBoth(u \o last, u, last)
    BY <2>9, <2>11, JoinHas
  <2>14. visit[n] = u \o last
    BY <2>3 DEF u, last
  <2>15. \A x : Contains(visit[n], x) <=> x \in B[n]
    BY <2>5, <2>6, <2>9, <2>13, <2>14 DEF HasBoth, u
  <2> QED
    BY <2>12, <2>13, <2>14, <2>15
<1>11. \A n \in nodes : n \in S
  <2> HIDE DEF S
  <2> QED
    BY <1>1, <1>10, UpTheTree
<1>12. Good(root)
  BY <1>1, <1>11
<1>13. Pairwise(visit[root], Differing(nodes))
  <2>1. \A x \in nodes : x \in B[x]
    BY <1>1 DEF IsLaminar
  <2>2. R \subseteq Differing(nodes)
    BY <2>1 DEF Differing
  <2> HIDE DEF R
  <2> QED
    BY <1>12, <2>2 DEF Pairwise
<1>14. R = LowestFirst(p)
  BY DEF LowestFirst, nodes, B
<1> HIDE DEF R
<1> QED
  BY <1>0, <1>1, <1>12, <1>13, <1>14 DEF nodes

(* The deepest first, each once.                                           *)
Falling(p) == {pair \in p.nodes \X p.nodes :
                 pair[1] # pair[2] /\ find_depth(p, pair[2]) <= find_depth(p, pair[1])}

(* Sorted, a list has the same members, each once, the deepest first.      *)
LEMMA DeepestFirstLists ==
  ASSUME NEW p \in Products, NEW list \in Seq(p.nodes), Pairwise(list, Differing(p.nodes))
  PROVE  /\ DeepestFirst(p, list) \in Seq(p.nodes)
         /\ Pairwise(DeepestFirst(p, list), Falling(p))
         /\ \A n : Contains(DeepestFirst(p, list), n) <=> Contains(list, n)
<1> DEFINE X == p.nodes
           max == Cardinality(X)
           deep(n) == find_depth(p, n)
           R == Falling(p)
           places(k) == {i \in DOMAIN list : deep(list[i]) = max + 1 - k}
           level(k) == Picked(list, places(k))
           levels == [k \in 1 .. max |-> level(k)]
<1>1. max \in Nat /\ \A n \in X : deep(n) \in 1 .. max
  <2>1. IsFiniteSet(X) /\ IsLaminar(X, p.children, Subtrees(p))
    BY ProductOutline, OutlineIsLaminar
  <2>2. \A n \in X : Deep(Subtrees(p), X, n) \in 1 .. Cardinality(X)
    BY <2>1, DepthsInOutline
  <2> QED
    BY <2>1, <2>2, FS_CardinalityType, ProductOutline
<1>2. DeepestFirst(p, list) = Concat(levels)
  BY DEF DeepestFirst, Filtered
<1>3. list \in Seq(X) /\ Pairwise(list, Differing(X))
      /\ \A x : Contains(list, x) <=> \E i \in DOMAIN list : list[i] = x
  BY DEF Contains
<1>4. \A x, y : <<x, y>> \in R <=> x \in X /\ y \in X /\ x # y /\ deep(y) <= deep(x)
  BY DEF Falling
<1>5. \A x, y : <<x, y>> \in Differing(X) => x \in X /\ y \in X /\ x # y
  BY DEF Differing
<1> HIDE DEF X, max, deep, R
<1>6. ASSUME NEW k \in 1 .. max
      PROVE  /\ level(k) \in Seq(X) /\ Pairwise(level(k), Differing(X))
             /\ \A x : Contains(level(k), x) <=> Contains(list, x) /\ deep(x) = max + 1 - k
  <2>1. places(k) \in SUBSET (1 .. Len(list))
    BY <1>3
  <2>2. level(k) \in Seq(X) /\ Pairwise(level(k), Differing(X))
    BY <1>3, <2>1, PickedInOrder, PickedPairwise
  <2>3. \A x : Contains(level(k), x) <=> \E i \in places(k) : list[i] = x
    BY <1>3, <2>1, PickedHas
  <2> HIDE DEF level
  <2> QED
    BY <1>3, <2>2, <2>3
<1>7. levels \in Seq(Seq(X)) /\ Len(levels) = max /\ \A k \in 1 .. max : levels[k] = level(k)
  <2>1. \A k \in 1 .. max : level(k) \in Seq(X)
    BY <1>6
  <2> HIDE DEF level
  <2>2. levels \in [1 .. max -> Seq(X)]
    BY <2>1
  <2>3. levels \in Seq(Seq(X)) /\ Len(levels) = max
    <3> HIDE DEF levels
    <3> QED
      BY <1>1, <2>2
  <2> QED
    BY <2>3
<1> HIDE DEF levels, level
<1>8. \A k \in 1 .. max : \A x : Contains(levels[k], x) => x \in X /\ deep(x) = max + 1 - k
  <2>1. \A x : Contains(list, x) => x \in X
    BY <1>3
  <2> QED
    BY <1>6, <1>7, <2>1
<1>9. ASSUME NEW k \in 1 .. max PROVE Pairwise(levels[k], R)
  <2> DEFINE l == levels[k]
  <2>1. l \in Seq(X) /\ Pairwise(l, Differing(X)) /\ \A x : Contains(l, x) => deep(x) = max + 1 - k
    BY <1>6, <1>7
  <2> HIDE DEF l
  <2>2. \A a \in 1 .. Len(l) : Contains(l, l[a])
    BY DEF Contains
  <2>3. max + 1 - k \in Int
    BY <1>1
  <2>4. ASSUME NEW a \in 1 .. Len(l), NEW b \in 1 .. Len(l), a < b PROVE <<l[a], l[b]>> \in R
    <3>1. l[a] \in X /\ l[b] \in X /\ l[a] # l[b]
      BY <1>5, <2>1, <2>4 DEF Pairwise
    <3>2. deep(l[a]) = max + 1 - k /\ deep(l[b]) = max + 1 - k
      BY <2>1, <2>2
    <3>3. deep(l[b]) <= deep(l[a])
      BY <2>3, <3>2
    <3> QED
      BY <1>4, <3>1, <3>3
  <2> QED
    BY <2>4 DEF Pairwise, l
<1>10. ASSUME NEW k \in 1 .. max, NEW l \in 1 .. max, k < l, NEW x, NEW y,
              Contains(levels[k], x), Contains(levels[l], y)
       PROVE  <<x, y>> \in R
  <2>1. x \in X /\ y \in X /\ deep(x) = max + 1 - k /\ deep(y) = max + 1 - l
    BY <1>8, <1>10
  <2>2. deep(y) < deep(x)
    BY <1>1, <1>10, <2>1
  <2>3. deep(y) <= deep(x) /\ x # y
    BY <1>1, <2>1, <2>2
  <2> QED
    BY <1>4, <2>1, <2>3
<1>11. Concat(levels) \in Seq(X) /\ Pairwise(Concat(levels), R)
       /\ \A x : Contains(Concat(levels), x) <=> \E k \in 1 .. max : Contains(levels[k], x)
  BY <1>7, <1>9, <1>10, ConcatJoins, ConcatPairwise
<1>12. ASSUME NEW x, Contains(list, x) PROVE \E k \in 1 .. max : Contains(levels[k], x)
  <2>1. x \in X
    BY <1>3, <1>12
  <2>2. max + 1 - deep(x) \in 1 .. max /\ max + 1 - (max + 1 - deep(x)) = deep(x)
    BY <1>1, <2>1
  <2> QED
    BY <1>6, <1>7, <1>12, <2>2
<1>13. \A x : Contains(Concat(levels), x) <=> Contains(list, x)
  BY <1>6, <1>7, <1>11, <1>12
<1> QED
  BY <1>2, <1>11, <1>13 DEF X, R

InnerOf(p) == Inner(p.nodes, p.children)

(* A list that cuts the tree, the deepest first, with k inner nodes at or  *)
(* below it.                                                               *)
CutOf(p, cut, k) ==
  /\ cut \in Seq(p.nodes) /\ Pairwise(cut, Falling(p))
  /\ Cuts(ToSet(cut), p.nodes, p.children, Subtrees(p))
  /\ Cardinality(InnerBelow(ToSet(cut), p.nodes, p.children, Subtrees(p))) = k

(* The first list of candidates, the leaves, cuts the tree with no inner   *)
(* node at or below it.                                                    *)
LEMMA LeavesFirst ==
  ASSUME NEW p \in Products
  PROVE  /\ ToSet(find_all_leaves(p)) = LeafSet(p.nodes, p.children)
         /\ CutOf(p, DeepestFirst(p, find_all_leaves(p)), 0)
<1> DEFINE X == p.nodes
           order == PostOrder(p)
           places == {i \in DOMAIN order : IsLeaf(p, order[i])}
           leaves == Picked(order, places)
           L == LeafSet(X, p.children)
           cut == DeepestFirst(p, leaves)
<1>1. /\ IsOutline(X, p.root, p.children, Subtrees(p)) /\ p.root \in X
  BY ProductOutline
<1>2. order \in Seq(X) /\ Pairwise(order, Differing(X)) /\ \A n \in X : Contains(order, n)
  BY <1>1, PostOrderLists
<1>3. find_all_leaves(p) = leaves
  BY DEF find_all_leaves, Filtered
<1> HIDE DEF order
<1>4. places \in SUBSET (1 .. Len(order))
  BY <1>2
<1>5. leaves \in Seq(X) /\ Pairwise(leaves, Differing(X))
  BY <1>2, <1>4, PickedInOrder, PickedPairwise
<1>6. \A x : Contains(leaves, x) <=> \E i \in places : order[i] = x
  BY <1>2, <1>4, PickedHas
<1>7. \A x : Contains(leaves, x) <=> x \in L
  <2>1. \A i \in DOMAIN order : order[i] \in X
    BY <1>2
  <2>2. \A n \in X : \E i \in DOMAIN order : order[i] = n
    BY <1>2 DEF Contains
  <2>3. \A n : n \in L <=> n \in X /\ IsLeaf(p, n)
    BY DEF LeafSet, IsLeafOf, IsLeaf, Children
  <2> HIDE DEF leaves, L
  <2> QED
    BY <1>6, <2>1, <2>2, <2>3
<1> HIDE DEF leaves
<1>8. \A list \in Seq(X) : \A x : x \in ToSet(list) <=> Contains(list, x)
  BY DEF ToSet, Contains
<1>9. cut \in Seq(X) /\ Pairwise(cut, Falling(p)) /\ \A n : Contains(cut, n) <=> Contains(leaves, n)
  BY <1>5, DeepestFirstLists
<1> HIDE DEF cut, L
<1>10. ToSet(leaves) = L /\ ToSet(cut) = L
  BY <1>5, <1>7, <1>8, <1>9
<1>11. Cuts(L, X, p.children, Subtrees(p)) /\ InnerBelow(L, X, p.children, Subtrees(p)) = {}
  BY <1>1, LeavesCut DEF L
<1>12. CutOf(p, cut, 0)
  BY <1>9, <1>10, <1>11, FS_EmptySet DEF CutOf
<1> QED
  BY <1>3, <1>10, <1>12 DEF cut, L

(* A node's parent.                                                        *)
LEMMA ParentOf ==
  ASSUME NEW p \in Products, NEW n \in p.nodes, n # p.root
  PROVE  Parent(p, n) \in p.nodes /\ Contains(Children(p, Parent(p, n)), n)
<1> DEFINE Is(m) == IF n = p.root THEN m = Outside
                    ELSE m # Outside /\ Contains(Children(p, m), n)
<1>1. \E m \in p.nodes : Contains(Children(p, m), n)
  BY ProductsAssumption DEF TreeOf, Children
<1>2. \E m \in p.nodes \cup {Outside} : Is(m)
  BY <1>1, ProductOutline
<1>3. Parent(p, n) \in p.nodes \cup {Outside} /\ Is(Parent(p, n))
  <2> HIDE DEF Is
  <2>1. Parent(p, n) = CHOOSE m \in p.nodes \cup {Outside} : Is(m)
    BY DEF Parent, Is
  <2> QED
    BY <1>2, <2>1
<1> QED
  BY <1>3

(* A node that gives way takes its siblings with it, and one more inner    *)
(* node is at or below the cut.                                            *)
LEMMA GiveWayKeeps ==
  ASSUME NEW p \in Products, NEW cut, NEW k \in Nat, CutOf(p, cut, k),
         k < Cardinality(InnerOf(p))
  PROVE  CutOf(p, GiveWay(p, cut), k + 1)
<1> DEFINE X == p.nodes
           B == Subtrees(p)
           deep(n) == find_depth(p, n)
           h == Head(cut)
           t == Tail(cut)
           parent == Parent(p, h)
           I == {i \in 1 .. Len(t) : DepthOf(p, t[i]) <= DepthOf(p, parent)}
           at == IF I # {} THEN Min(I) ELSE 0
           place == IF at = 0 THEN Len(cut) ELSE at
           with == InsertAt(t, place, parent)
           keep == {i \in DOMAIN with : ~(parent \in X /\ Contains(Children(p, parent), with[i]))}
           R == Falling(p)
<1>0. GiveWay(p, cut) = Picked(with, keep)
  BY DEF GiveWay, Filtered, SelectInSeq
<1>1. cut \in Seq(X) /\ Pairwise(cut, R) /\ Cuts(ToSet(cut), X, p.children, B)
      /\ Cardinality(InnerBelow(ToSet(cut), X, p.children, B)) = k
  BY DEF CutOf
<1>2. IsOutline(X, p.root, p.children, B) /\ p.root \in X /\ Outside \notin X
      /\ IsLaminar(X, p.children, B) /\ IsFiniteSet(X)
  BY ProductOutline, OutlineIsLaminar
<1>3. \A list \in Seq(X) : \A x : x \in ToSet(list) <=> Contains(list, x)
  BY DEF ToSet, Contains
<1>4. \A n : deep(n) = Deep(B, X, n)
  BY ProductOutline
<1>5. \A n \in X : deep(n) \in Nat
  BY <1>2, <1>4, DepthsInOutline, FS_CardinalityType
<1>6. \A n \in X : DepthOf(p, n) = deep(n)
  BY <1>2 DEF DepthOf
<1>7. \A x, y : <<x, y>> \in R <=> x \in X /\ y \in X /\ x # y /\ deep(y) <= deep(x)
  BY DEF Falling
<1>8. cut # <<>>
  <2>1. PICK leaf \in X : leaf \in B[p.root] /\ IsLeafOf(leaf, p.children)
    BY <1>2 DEF IsLaminar
  <2>2. \E n \in ToSet(cut) : leaf \in B[n]
    BY <1>1, <2>1 DEF Cuts, LeafSet
  <2> QED
    BY <2>2 DEF ToSet
<1> HIDE DEF X, B, R, deep
<1>9. /\ h \in X /\ t \in Seq(X) /\ Len(cut) \in Nat /\ Len(t) = Len(cut) - 1 /\ Len(cut) >= 1
      /\ h = cut[1] /\ \A i \in 1 .. Len(t) : t[i] = cut[i + 1] /\ i + 1 \in 1 .. Len(cut) /\ t[i] \in X
  BY <1>1, <1>8
<1> HIDE DEF h, t
<1>10. \A x : Contains(cut, x) <=> x = h \/ Contains(t, x)
  <2>1. \A x : Contains(cut, x) <=> \E i \in 1 .. Len(cut) : cut[i] = x
    BY DEF Contains
  <2>2. \A x : Contains(t, x) <=> \E i \in 1 .. Len(t) : t[i] = x
    BY DEF Contains
  <2>3. \A i \in 1 .. Len(cut) : i = 1 \/ (i - 1 \in 1 .. Len(t) /\ t[i - 1] = cut[i])
    <3> SUFFICES ASSUME NEW i \in 2 .. Len(cut) PROVE i - 1 \in 1 .. Len(t) /\ t[i - 1] = cut[i]
      BY <1>9
    <3>1. i - 1 \in 1 .. Len(t) /\ (i - 1) + 1 = i
      BY <1>9
    <3> QED
      BY <1>9, <3>1
  <2>4. ASSUME NEW x, Contains(cut, x) PROVE x = h \/ Contains(t, x)
    <3>1. PICK i \in 1 .. Len(cut) : cut[i] = x
      BY <2>1, <2>4
    <3>2. i = 1 \/ (i - 1 \in 1 .. Len(t) /\ t[i - 1] = x)
      BY <2>3, <3>1
    <3> QED
      BY <1>9, <2>2, <3>1, <3>2
  <2>5. ASSUME NEW x, x = h \/ Contains(t, x) PROVE Contains(cut, x)
    <3>1. CASE x = h
      BY <1>9, <2>1, <3>1
    <3>2. CASE Contains(t, x)
      <4>1. PICK i \in 1 .. Len(t) : t[i] = x
        BY <2>2, <3>2
      <4>2. i + 1 \in 1 .. Len(cut) /\ cut[i + 1] = x
        BY <1>9, <4>1
      <4> QED
        BY <2>1, <4>2
    <3> QED
      BY <2>5, <3>1, <3>2
  <2> QED
    BY <2>4, <2>5
<1>11. Pairwise(t, R) /\ \A x : Contains(t, x) => deep(x) <= deep(h)
  <2>1. ASSUME NEW a \in 1 .. Len(t), NEW b \in 1 .. Len(t), a < b PROVE <<t[a], t[b]>> \in R
    <3>1. a + 1 \in 1 .. Len(cut) /\ b + 1 \in 1 .. Len(cut) /\ a + 1 < b + 1
      BY <1>9, <2>1
    <3>2. <<cut[a + 1], cut[b + 1]>> \in R
      BY <1>1, <3>1 DEF Pairwise
    <3> QED
      BY <1>9, <3>2
  <2>2. ASSUME NEW i \in 1 .. Len(t) PROVE deep(t[i]) <= deep(h)
    <3>1. <<cut[1], cut[i + 1]>> \in R
      BY <1>1, <1>9 DEF Pairwise
    <3> QED
      BY <1>7, <1>9, <3>1
  <2> QED
    BY <2>1, <2>2 DEF Pairwise, Contains
<1>12. h \in ToSet(cut) /\ \A n \in ToSet(cut) : Deep(B, X, n) <= Deep(B, X, h)
  BY <1>1, <1>3, <1>4, <1>5, <1>9, <1>10, <1>11
<1>13. h # p.root
  <2> SUFFICES ASSUME h = p.root PROVE FALSE
    OBVIOUS
  <2>1. InnerBelow(ToSet(cut), X, p.children, B) = Inner(X, p.children)
    BY <1>1, <1>2, <1>12, RootCutsAll
  <2> QED
    BY <1>1, <2>1 DEF InnerOf, X
<1>14. parent \in X /\ Contains(p.children[parent], h) /\ Children(p, parent) = p.children[parent]
  BY <1>9, <1>13, ParentOf DEF X, Children
<1> HIDE DEF parent
<1> DEFINE C == ToSet(cut)
           D == Raised(C, parent, p.children)
<1>15. /\ parent \notin C /\ Cuts(D, X, p.children, B)
       /\ parent \in Inner(X, p.children) \ InnerBelow(C, X, p.children, B)
       /\ InnerBelow(D, X, p.children, B) = InnerBelow(C, X, p.children, B) \cup {parent}
  BY <1>1, <1>2, <1>12, <1>14, GivingWayCuts
<1>16. ~Contains(t, parent)
  BY <1>1, <1>3, <1>10, <1>15
<1>17. I \in SUBSET Nat /\ \A i : i \in I <=> i \in 1 .. Len(t) /\ deep(t[i]) <= deep(parent)
  BY <1>6, <1>9, <1>14
<1> HIDE DEF I
<1>18. /\ place \in 1 .. Len(t) + 1
       /\ \A i \in 1 .. place - 1 : i \in 1 .. Len(t) /\ i \notin I
       /\ \A i \in place .. Len(t) : i \in 1 .. Len(t) /\ \E j \in I : j <= i
  <2>1. CASE I = {}
    <3>1. place = Len(t) + 1
      BY <1>9, <2>1
    <3> QED
      BY <1>9, <2>1, <3>1
  <2>2. CASE I # {}
    <3>1. PICK m \in I : \A i \in I : m <= i
      BY <1>17, <2>2, LeastMember
    <3>2. Min(I) \in I /\ \A i \in I : Min(I) <= i
      BY <3>1 DEF Min
    <3>3. place = Min(I)
      BY <1>17, <2>2, <3>2
    <3> HIDE DEF place, at
    <3>4. place \in 1 .. Len(t) /\ place \in I /\ \A i \in I : place <= i
      BY <1>17, <3>2, <3>3
    <3> QED
      BY <1>9, <1>17, <3>4
  <2> QED
    BY <2>1, <2>2
<1> HIDE DEF place, at
<1>19. \A i \in 1 .. place - 1 : <<t[i], parent>> \in R
  <2> SUFFICES ASSUME NEW i \in 1 .. place - 1 PROVE <<t[i], parent>> \in R
    OBVIOUS
  <2>1. i \in 1 .. Len(t) /\ t[i] \in X /\ ~(deep(t[i]) <= deep(parent))
    BY <1>9, <1>17, <1>18
  <2>2. t[i] # parent
    BY <1>16, <2>1 DEF Contains
  <2>3. deep(parent) <= deep(t[i])
    BY <1>5, <1>14, <2>1
  <2> QED
    BY <1>7, <1>14, <2>1, <2>2, <2>3
<1>20. \A i \in place .. Len(t) : <<parent, t[i]>> \in R
  <2> SUFFICES ASSUME NEW i \in place .. Len(t) PROVE <<parent, t[i]>> \in R
    OBVIOUS
  <2>1. i \in 1 .. Len(t) /\ t[i] \in X
    BY <1>9, <1>18
  <2>2. t[i] # parent
    BY <1>16, <2>1 DEF Contains
  <2>3. PICK j \in I : j <= i
    BY <1>18
  <2>4. j \in 1 .. Len(t) /\ deep(t[j]) <= deep(parent) /\ t[j] \in X
    BY <1>9, <1>17
  <2>5. deep(t[i]) <= deep(t[j])
    <3>1. CASE i = j
      BY <1>5, <2>4, <3>1
    <3>2. CASE i # j
      <4>1. j < i
        BY <1>9, <2>1, <2>3, <2>4, <3>2
      <4>2. <<t[j], t[i]>> \in R
        BY <1>11, <2>1, <2>4, <4>1 DEF Pairwise
      <4> QED
        BY <1>7, <4>2
    <3> QED
      BY <3>1, <3>2
  <2>6. deep(t[i]) <= deep(parent)
    BY <1>5, <1>14, <2>1, <2>4, <2>5
  <2> QED
    BY <1>7, <1>14, <2>1, <2>2, <2>6
<1>21. with \in Seq(X) /\ Pairwise(with, R)
       /\ \A y : Contains(with, y) <=> y = parent \/ Contains(t, y)
  BY <1>9, <1>11, <1>14, <1>18, <1>19, <1>20, InsertPairwise
<1> HIDE DEF with
<1> DEFINE new == Picked(with, keep)
<1>22. keep \in SUBSET (1 .. Len(with))
  BY <1>21
<1>23. new \in Seq(X) /\ Pairwise(new, R)
       /\ \A x : Contains(new, x) <=> \E i \in keep : with[i] = x
  BY <1>21, <1>22, PickedInOrder, PickedPairwise, PickedHas
<1>24. \A x : Contains(new, x) <=> Contains(with, x) /\ ~Contains(p.children[parent], x)
  <2>1. \A i : i \in keep <=> i \in 1 .. Len(with) /\ ~Contains(p.children[parent], with[i])
    BY <1>14, <1>21
  <2>2. \A x : Contains(with, x) <=> \E i \in 1 .. Len(with) : with[i] = x
    BY DEF Contains
  <2> HIDE DEF keep, new
  <2> QED
    BY <1>23, <2>1, <2>2
<1> HIDE DEF new, keep
<1>25. ~Contains(p.children[parent], parent)
  BY <1>2, <1>14 DEF IsLaminar
<1>26. ToSet(new) = D
  <2>1. \A x : x \in ToSet(new) <=> (x = parent \/ Contains(t, x)) /\ ~Contains(p.children[parent], x)
    BY <1>3, <1>21, <1>23, <1>24
  <2>2. \A x : x \in C <=> x = h \/ Contains(t, x)
    BY <1>1, <1>3, <1>10
  <2>3. \A x : x \in D <=> (x \in C /\ ~Contains(p.children[parent], x)) \/ x = parent
    BY DEF Raised
  <2> HIDE DEF C, D
  <2> QED
    BY <1>14, <1>25, <2>1, <2>2, <2>3
<1>27. Cardinality(InnerBelow(D, X, p.children, B)) = k + 1
  <2> DEFINE below == InnerBelow(C, X, p.children, B)
  <2>1. below \subseteq X
    BY DEF InnerBelow, Inner
  <2>2. IsFiniteSet(below)
    BY <1>2, <2>1, FS_Subset
  <2>3. parent \notin below
    BY <1>15
  <2>4. Cardinality(below) = k
    BY <1>1
  <2>5. InnerBelow(D, X, p.children, B) = below \cup {parent}
    BY <1>15
  <2> HIDE DEF below, D
  <2> QED
    BY <2>2, <2>3, <2>4, <2>5, FS_AddElement
<1>28. CutOf(p, new, k + 1)
  BY <1>15, <1>23, <1>26, <1>27 DEF CutOf, X, B, R
<1> QED
  BY <1>0, <1>28 DEF new

(* Every candidate list cuts the tree, or is the root's parent outside.    *)
IsCandidate(p, cut) == cut = <<Outside>> \/ \E k : CutOf(p, cut, k)

(* Each list after it has one more inner node at or below the cut, so the  *)
(* last but one is the root: there is a node to give way at every step.    *)
LEMMA CandidatesCut ==
  ASSUME NEW p \in Products
  PROVE  /\ make_nodes_decouple_all(p) \in Seq(Seq(p.nodes \cup {Outside}))
         /\ Len(make_nodes_decouple_all(p)) \in Nat \ {0}
         /\ \A k \in DOMAIN make_nodes_decouple_all(p) :
              IsCandidate(p, make_nodes_decouple_all(p)[k])
<1> DEFINE m == Cardinality({n \in p.nodes : ~IsLeaf(p, n)})
           A == Seq(p.nodes)
           first == DeepestFirst(p, find_all_leaves(p))
           Giving(c) == GiveWay(p, c)
           Is(f) == f = [k \in 1 .. m + 1 |-> IF k = 1 THEN first ELSE Giving(f[k - 1])]
           cut == CHOOSE f : Is(f)
           above == IF p.outside THEN <<<<Outside>>>> ELSE <<>>
<1>0. make_nodes_decouple_all(p) = cut \o above
  BY Zenon DEF make_nodes_decouple_all
<1>1. m = Cardinality(InnerOf(p)) /\ m \in Nat
  <2>1. {n \in p.nodes : ~IsLeaf(p, n)} = InnerOf(p)
    BY DEF InnerOf, Inner, IsLeaf, IsLeafOf, Children
  <2>2. InnerOf(p) \in SUBSET p.nodes /\ IsFiniteSet(p.nodes)
    BY ProductOutline DEF InnerOf, Inner
  <2>3. Cardinality(InnerOf(p)) \in Nat
    BY <2>2, SubsetOfFinite
  <2> QED
    BY <2>1, <2>3
<1> HIDE DEF m
<1>2. CutOf(p, first, 0)
  BY LeavesFirst
<1>3. \A c, k : CutOf(p, c, k) => c \in A
  BY DEF CutOf
<1>4. \A k \in 1 .. m : \A c : CutOf(p, c, k - 1) => CutOf(p, Giving(c), k)
  <2> SUFFICES ASSUME NEW k \in 1 .. m, NEW c, CutOf(p, c, k - 1) PROVE CutOf(p, Giving(c), k)
    OBVIOUS
  <2>1. k - 1 \in Nat /\ k - 1 < Cardinality(InnerOf(p)) /\ (k - 1) + 1 = k
    BY <1>1
  <2>2. CutOf(p, GiveWay(p, c), (k - 1) + 1)
    BY <2>1, GiveWayKeeps
  <2> QED
    BY <2>1, <2>2
<1> HIDE DEF Giving, first, A
<1> DEFINE step == [k \in 1 .. m |-> [c \in A |-> IF Giving(c) \in A THEN Giving(c) ELSE c]]
<1>5. step \in Steps(m, A)
  BY DEF Steps
<1>6. PICK g \in [0 .. m -> A] : g[0] = first /\ \A k \in 1 .. m : g[k] = step[k][g[k - 1]]
  <2>1. first \in A
    BY <1>2, <1>3
  <2> HIDE DEF step
  <2> QED
    BY <1>1, <1>5, <2>1, RecursionOnInterval
<1> DEFINE S == {k \in 0 .. m : CutOf(p, g[k], k)}
<1>7. \A k \in 0 .. m : k \in S
  <2>1. 0 \in S
    BY <1>1, <1>2, <1>6
  <2>2. ASSUME NEW k \in 1 .. m, k - 1 \in S PROVE k \in S
    <3>1. CutOf(p, Giving(g[k - 1]), k)
      BY <1>4, <2>2
    <3>2. g[k - 1] \in A /\ Giving(g[k - 1]) \in A
      BY <1>1, <1>3, <1>6, <2>2, <3>1
    <3>3. g[k] = Giving(g[k - 1])
      BY <1>6, <3>2
    <3>4. k \in 0 .. m
      BY <1>1
    <3> QED
      BY <3>1, <3>3, <3>4
  <2> HIDE DEF S
  <2> QED
    BY <1>1, <2>1, <2>2, IntervalInduction
<1>8. \A k \in 1 .. m : g[k] = Giving(g[k - 1])
  <2> SUFFICES ASSUME NEW k \in 1 .. m PROVE g[k] = Giving(g[k - 1])
    OBVIOUS
  <2>1. k - 1 \in 0 .. m
    BY <1>1
  <2>2. CutOf(p, g[k - 1], k - 1)
    BY <1>7, <2>1
  <2>3. CutOf(p, Giving(g[k - 1]), k)
    BY <1>4, <2>2
  <2>4. Giving(g[k - 1]) \in A
    BY <1>3, <2>3
  <2> QED
    BY <1>6, <2>1, <2>4
<1> DEFINE f == [k \in 1 .. m + 1 |-> g[k - 1]]
<1>9. Is(f)
  <2>1. ASSUME NEW k \in 1 .. m + 1 PROVE f[k] = IF k = 1 THEN first ELSE Giving(f[k - 1])
    <3>1. CASE k = 1
      BY <1>6, <3>1
    <3>2. CASE k # 1
      <4>1. k - 1 \in 1 .. m /\ k - 1 \in 1 .. m + 1
        BY <1>1, <3>2
      <4>2. f[k] = g[k - 1] /\ f[k - 1] = g[(k - 1) - 1]
        BY <4>1
      <4> QED
        BY <1>8, <3>2, <4>1, <4>2
    <3> QED
      BY <3>1, <3>2
  <2> QED
    BY <2>1
<1>10. Is(cut)
  <2> HIDE DEF Is, f
  <2> QED
    BY <1>9
<1> HIDE DEF cut
<1>11. DOMAIN cut = 1 .. m + 1 /\ cut[1] = first /\ \A k \in 1 .. m : cut[k + 1] = Giving(cut[k])
  <2>1. DOMAIN cut = 1 .. m + 1 /\ \A k \in 1 .. m + 1 : cut[k] = IF k = 1 THEN first ELSE Giving(cut[k - 1])
    BY <1>10
  <2>2. 1 \in 1 .. m + 1
    BY <1>1
  <2>3. ASSUME NEW k \in 1 .. m PROVE cut[k + 1] = Giving(cut[k])
    <3>1. k + 1 \in 1 .. m + 1 /\ k + 1 # 1 /\ (k + 1) - 1 = k
      BY <1>1
    <3> QED
      BY <2>1, <3>1
  <2> QED
    BY <2>1, <2>2, <2>3
<1> DEFINE T == {k \in 0 .. m : CutOf(p, cut[k + 1], k)}
<1>12. \A k \in 0 .. m : k \in T
  <2>1. 0 \in T
    BY <1>1, <1>2, <1>11
  <2>2. ASSUME NEW k \in 1 .. m, k - 1 \in T PROVE k \in T
    <3>1. (k - 1) + 1 = k /\ k \in 0 .. m
      BY <1>1
    <3>2. CutOf(p, cut[k], k - 1)
      BY <2>2, <3>1
    <3>3. CutOf(p, cut[k + 1], k)
      BY <1>4, <1>11, <3>2
    <3> QED
      BY <3>1, <3>3
  <2> HIDE DEF T
  <2> QED
    BY <1>1, <2>1, <2>2, IntervalInduction
<1>13. \A k \in 1 .. m + 1 : CutOf(p, cut[k], k - 1)
  <2> SUFFICES ASSUME NEW k \in 1 .. m + 1 PROVE CutOf(p, cut[k], k - 1)
    OBVIOUS
  <2>1. k - 1 \in 0 .. m /\ (k - 1) + 1 = k
    BY <1>1
  <2>2. k - 1 \in T
    BY <1>12, <2>1
  <2> QED
    BY <2>1, <2>2
<1> DEFINE Z == Seq(p.nodes \cup {Outside})
<1>14. cut \in Seq(Z) /\ Len(cut) = m + 1
  <2>1. \A k \in 1 .. m + 1 : cut[k] \in Z
    <3>1. \A k \in 1 .. m + 1 : cut[k] \in Seq(p.nodes)
      BY <1>3, <1>13 DEF A
    <3> QED
      BY <3>1
  <2> HIDE DEF Z
  <2>2. cut \in [1 .. m + 1 -> Z]
    BY <1>10, <2>1
  <2>3. m + 1 \in Nat
    BY <1>1
  <2> QED
    BY <2>2, <2>3
<1>15. above \in Seq(Z) /\ Len(above) \in Nat /\ \A i \in 1 .. Len(above) : above[i] = <<Outside>>
  <2> DEFINE out == <<Outside>>
  <2>1. out \in Z
    OBVIOUS
  <2> HIDE DEF out, Z
  <2>2. /\ <<out>> \in Seq(Z) /\ Len(<<out>>) = 1 /\ <<out>>[1] = out
        /\ <<>> \in Seq(Z) /\ Len(<<>>) = 0
    BY <2>1
  <2>3. above = IF p.outside THEN <<out>> ELSE <<>>
    BY DEF out
  <2> HIDE DEF above
  <2>4. CASE p.outside
    BY <2>2, <2>3, <2>4 DEF out
  <2>5. CASE ~p.outside
    BY <2>2, <2>3, <2>5
  <2> QED
    BY <2>4, <2>5
<1> HIDE DEF above, Z
<1>16. /\ cut \o above \in Seq(Z) /\ Len(cut \o above) = m + 1 + Len(above)
       /\ \A k \in 1 .. m + 1 + Len(above) :
            (cut \o above)[k] = IF k <= m + 1 THEN cut[k] ELSE above[k - (m + 1)]
  BY <1>14, <1>15
<1> DEFINE all == cut \o above
<1>17. ASSUME NEW k \in 1 .. m + 1 + Len(above) PROVE IsCandidate(p, all[k])
  <2>1. CASE k <= m + 1
    <3>1. k \in 1 .. m + 1 /\ all[k] = cut[k]
      BY <1>1, <1>15, <1>16, <2>1
    <3> QED
      BY <1>13, <3>1 DEF IsCandidate
  <2>2. CASE ~(k <= m + 1)
    <3>1. k - (m + 1) \in 1 .. Len(above) /\ all[k] = above[k - (m + 1)]
      BY <1>1, <1>15, <1>16, <2>2
    <3> QED
      BY <1>15, <3>1 DEF IsCandidate
  <2> QED
    BY <2>1, <2>2
<1>18. all \in Seq(Z) /\ Len(all) \in Nat \ {0} /\ DOMAIN all = 1 .. m + 1 + Len(above)
  BY <1>1, <1>15, <1>16
<1> HIDE DEF all
<1>19. \A k \in DOMAIN all : IsCandidate(p, all[k])
  BY <1>17, <1>18
<1>20. make_nodes_decouple_all(p) = all
  BY <1>0 DEF all
<1> QED
  BY <1>18, <1>19, <1>20 DEF Z

(* Every leaf is below exactly one place of a list that cuts the tree.     *)
LEMMA OnePlaceEach ==
  ASSUME NEW p \in Products, NEW cut, NEW k, CutOf(p, cut, k),
         NEW leaf \in ToSet(find_all_leaves(p))
  PROVE  Cardinality({i \in DOMAIN cut : leaf \in Below(p, cut[i])}) = 1
<1> DEFINE places == {i \in DOMAIN cut : leaf \in Below(p, cut[i])}
           B == Subtrees(p)
<1>1. cut \in Seq(p.nodes) /\ Pairwise(cut, Falling(p)) /\ Cuts(ToSet(cut), p.nodes, p.children, B)
  BY DEF CutOf
<1>2. leaf \in LeafSet(p.nodes, p.children)
  BY LeavesFirst
<1>3. \A n : Below(p, n) = B[n]
  BY ProductOutline
<1> HIDE DEF B
<1>4. DOMAIN cut = 1 .. Len(cut) /\ Len(cut) \in Nat
      /\ \A i \in 1 .. Len(cut) : cut[i] \in ToSet(cut)
  BY <1>1 DEF ToSet
<1>5. PICK i \in 1 .. Len(cut) : leaf \in B[cut[i]]
  <2>1. \E n \in ToSet(cut) : leaf \in B[n]
    BY <1>1, <1>2 DEF Cuts
  <2> QED
    BY <1>4, <2>1 DEF ToSet
<1>6. ASSUME NEW j \in 1 .. Len(cut), leaf \in B[cut[j]] PROVE j = i
  <2>1. cut[i] = cut[j]
    BY <1>1, <1>2, <1>4, <1>5, <1>6 DEF Cuts
  <2>2. ~(i < j) /\ ~(j < i)
    BY <1>1, <2>1 DEF Pairwise, Falling
  <2> QED
    BY <1>4, <2>2
<1>7. places = {i}
  BY <1>3, <1>4, <1>5, <1>6
<1> HIDE DEF places
<1>8. Cardinality(places) = 1
  BY <1>7, FS_Singleton
<1> QED
  BY <1>8 DEF places

(* Supply planning pushes each lot down to one decoupling point: each list *)
(* of candidates cuts the tree, whatever the tree.                         *)
THEOREM EachListCuts == Spec => []CandidatesCutTheTree
<1>1. PlanInv => CandidatesCutTheTree
  <2> SUFFICES ASSUME PlanInv PROVE CandidatesCutTheTree
    OBVIOUS
  <2> DEFINE cuts == make_nodes_decouple_all(product)
  <2>1. product \in Products
    BY DEF PlanInv
  <2>2. \A k \in DOMAIN cuts : IsCandidate(product, cuts[k])
    BY <2>1, CandidatesCut
  <2> HIDE DEF cuts
  <2>3. ASSUME NEW k \in DOMAIN cuts, cuts[k] # <<Outside>>
        PROVE  /\ ToSet(cuts[k]) \subseteq product.nodes
               /\ \A leaf \in ToSet(find_all_leaves(product)) :
                    Cardinality({i \in DOMAIN cuts[k] : leaf \in Below(product, cuts[k][i])}) = 1
    <3>1. PICK j : CutOf(product, cuts[k], j)
      BY <2>2, <2>3 DEF IsCandidate
    <3>2. ToSet(cuts[k]) \subseteq product.nodes
      BY <3>1 DEF CutOf, Cuts
    <3> QED
      BY <2>1, <3>1, <3>2, OnePlaceEach
  <2> QED
    BY <2>3 DEF CandidatesCutTheTree, cuts
<1> QED
  BY <1>1, PlanInvariance, PTL

-----------------------------------------------------------------------------
(* Pulled from the decoupling points, every leaf gets what demand asks.    *)

(* Every leaf is below a decoupling point.                                 *)
Covers(C, p) ==
  \A leaf \in LeafSet(p.nodes, p.children) : \E m \in C : m \in p.nodes /\ leaf \in Below(p, m)

(* What a leaf of the plan in two layers must get, from week 0 to len - 1. *)
Meets(supply, demand, decoupled, len) ==
  \A w \in 0 .. len - 1 :
    /\ supply[w].S = demand[w].S
    /\ ~decoupled => supply[w].P = demand[w].P

(* Pulled, a node gets what demand asks; at a decoupling point it ships it.*)
LEMMA PullGets ==
  ASSUME NEW len \in Nat \ {0}, NEW demand \in Space(len, Nat), NEW supply \in Space(len, Nat)
  PROVE  /\ Meets(PULL_process(supply, demand), demand, FALSE, len)
         /\ Meets(PUSH_process(SupplyBucket(calcPS2I4supply(supply), demand, "S")), demand, TRUE, len)
<1> DEFINE one == SupplyBucket(supply, demand, "S")
           two == SupplyBucket(one, demand, "P")
           stocked == calcPS2I4supply(supply)
           point == SupplyBucket(stocked, demand, "S")
<1>1. one \in Space(len, Nat) /\ \A w \in 0 .. len - 1 : one[w].S = demand[w].S
  BY BucketKeeps
<1> HIDE DEF one
<1>2. /\ two \in Space(len, Nat)
      /\ \A w \in 0 .. len - 1 : two[w].S = one[w].S /\ two[w].P = demand[w].P
  BY <1>1, BucketKeeps
<1> HIDE DEF two
<1>3. SameMoves(calcPS2I4supply(two), two, len)
  BY <1>2, SupplyReckoned
<1>4. stocked \in Space(len, Nat)
  BY SupplyReckoned
<1> HIDE DEF stocked
<1>5. point \in Space(len, Nat) /\ \A w \in 0 .. len - 1 : point[w].S = demand[w].S
  BY <1>4, BucketKeeps
<1> HIDE DEF point
<1>6. SameMoves(calcPS2I4supply(point), point, len)
  BY <1>5, SupplyReckoned
<1>7. Meets(calcPS2I4supply(two), demand, FALSE, len)
  BY <1>1, <1>2, <1>3 DEF Meets, SameMoves
<1>8. Meets(calcPS2I4supply(point), demand, TRUE, len)
  BY <1>5, <1>6 DEF Meets, SameMoves
<1> QED
  BY <1>7, <1>8 DEF PULL_process, PUSH_process, one, two, stocked, point

(* The leaves among the visited nodes have what demand asks.               *)
Fed(V, supply, demand, C, p) ==
  \A leaf \in LeafSet(p.nodes, p.children) :
    leaf \in V => Meets(supply[leaf], demand[leaf], leaf \in C, Length(p))

Feeding(supply, demand, C, rest) ==
  \E V \in SUBSET product.nodes : Passed(V, rest) /\ Fed(V, supply, demand, C, product)

PullInv ==
  command = "supply_planning" /\ ~raised /\ decouple \subseteq product.nodes =>
    /\ Covers(decouple, product)
    /\ Feeding(psi4supply, psi4demand, decouple, todo)

(* Any candidate list serves as decoupling points, but the one outside.    *)
LEMMA CandidateCovers ==
  ASSUME NEW p \in Products, NEW k \in DOMAIN make_nodes_decouple_all(p),
         ToSet(make_nodes_decouple_all(p)[k]) \subseteq p.nodes
  PROVE  Covers(ToSet(make_nodes_decouple_all(p)[k]), p)
<1> DEFINE cut == make_nodes_decouple_all(p)[k]
<1>1. IsCandidate(p, cut)
  BY CandidatesCut
<1>2. Outside \notin p.nodes /\ \A n : Below(p, n) = Subtrees(p)[n]
  BY ProductOutline
<1>3. ToSet(cut) \subseteq p.nodes
  OBVIOUS
<1> HIDE DEF cut
<1>4. cut # <<Outside>>
  <2>1. Outside \in ToSet(<<Outside>>)
    BY DEF ToSet
  <2> QED
    BY <1>2, <1>3, <2>1
<1>5. PICK j : CutOf(p, cut, j)
  BY <1>1, <1>4 DEF IsCandidate
<1>6. Cuts(ToSet(cut), p.nodes, p.children, Subtrees(p))
  BY <1>5 DEF CutOf
<1>7. Covers(ToSet(cut), p)
  BY <1>2, <1>3, <1>6 DEF Covers, Cuts
<1> QED
  BY <1>7 DEF cut

(* The walk begins with no leaf visited.                                   *)
LEMMA FeedingBegins ==
  ASSUME product \in Products, NEW supply, NEW demand, NEW C
  PROVE  Feeding(supply, demand, C, <<product.root>>)
<1>1. Passed({}, <<product.root>>) /\ {} \in SUBSET product.nodes
  BY PassesFirst
<1>2. Fed({}, supply, demand, C, product)
  BY DEF Fed
<1> QED
  BY <1>1, <1>2 DEF Feeding

(* A walk that begins at the root, with decoupling points that cover the   *)
(* leaves.                                                                 *)
LEMMA PullBegins ==
  ASSUME PlanInv, product' = product, todo' = <<product.root>>,
         decouple' \subseteq product.nodes => Covers(decouple', product)
  PROVE  PullInv'
<1> DEFINE rest == <<product.root>>
<1>1. /\ product' = product /\ todo' = rest
      /\ decouple' \subseteq product.nodes => Covers(decouple', product)
  OBVIOUS
<1>2. \A supply, demand, C : Feeding(supply, demand, C, rest)
  BY FeedingBegins DEF PlanInv
<1> HIDE DEF rest
<1>3. Feeding(psi4supply, psi4demand, decouple, todo)'
  BY <1>1, <1>2 DEF Feeding, Passed
<1> QED
  BY <1>1, <1>3 DEF PullInv

(* Supply planning takes the last list but two of the candidates.          *)
LEMMA BeginSupplyCovers ==
  ASSUME PlanInv, BeginSupplyPlanning, ~raised', decouple' \subseteq product.nodes
  PROVE  product' = product /\ todo' = <<product.root>> /\ Covers(decouple', product)
<1> DEFINE cuts == make_nodes_decouple_all(product)
<1>1. Len(cuts) >= 3 /\ decouple' = ToSet(cuts[Len(cuts) - 2]) /\ todo' = <<product.root>>
      /\ product' = product
  <2>1. Len(cuts) \in Nat
    BY CandidatesCut DEF PlanInv
  <2> HIDE DEF cuts
  <2> QED
    BY <2>1 DEF BeginSupplyPlanning, Raise, cuts
<1>2. product \in Products
  BY DEF PlanInv
<1>3. DOMAIN cuts = 1 .. Len(cuts) /\ Len(cuts) \in Nat
  BY <1>2, CandidatesCut
<1>4. Len(cuts) - 2 \in DOMAIN cuts
  <2> HIDE DEF cuts
  <2> QED
    BY <1>1, <1>3
<1>5. Covers(ToSet(cuts[Len(cuts) - 2]), product)
  BY <1>1, <1>2, <1>4, CandidateCovers
<1> HIDE DEF cuts
<1> QED
  BY <1>1, <1>5

(* Its walk begins, or it raises.                                          *)
LEMMA BeginSupplyPulls ==
  ASSUME PlanInv, BeginSupplyPlanning
  PROVE  PullInv'
<1>1. product' = product
  BY DEF BeginSupplyPlanning
<1>2. CASE raised'
  BY <1>2 DEF PullInv
<1>3. CASE ~(decouple' \subseteq product.nodes)
  BY <1>1, <1>3 DEF PullInv
<1>4. CASE ~raised' /\ decouple' \subseteq product.nodes
  BY <1>4, BeginSupplyCovers, PullBegins
<1> QED
  BY <1>2, <1>3, <1>4

(* A visit: if the node is a leaf, a decoupling point is above it, or the  *)
(* leaf is one.                                                            *)
LEMMA SupplyNodePulls ==
  ASSUME PlanInv, PullInv, SupplyNode
  PROVE  PullInv'
<1> SUFFICES ASSUME ~raised', decouple' \subseteq product'.nodes PROVE PullInv'
  BY DEF PullInv
<1> DEFINE n == Head(todo)
           rest == Children(product, n) \o Tail(todo)
           len == Length(product)
           supply == psi4supply[n]
           demand == psi4demand[n]
           pulled == PULL_process(supply, demand)
           point == PUSH_process(SupplyBucket(calcPS2I4supply(supply), demand, "S"))
           pushed == PUSH_process(supply)
           s == IF Pulled(product, n) THEN pulled ELSE IF n \in decouple THEN point ELSE pushed
<1>1. command = "supply_planning" /\ todo # <<>>
  BY DEF SupplyNode, Running
<1>2. /\ product \in Products /\ len \in Nat \ {0}
      /\ psi4demand \in [product.nodes -> Spaces] /\ psi4supply \in [product.nodes -> Spaces]
      /\ todo \in Seq(product.nodes) /\ n \in product.nodes
  BY <1>1, ProductFacts DEF PlanInv, Walks
<1>3. /\ product' = product /\ psi4demand' = psi4demand
      /\ raised' = raised /\ todo' = rest /\ decouple' = decouple
  BY <1>1 DEF SupplyNode, AfterVisit
<1>4. psi4supply' = [psi4supply EXCEPT ![n] = s]
  BY DEF SupplyNode
<1>5. Meets(pulled, demand, FALSE, len) /\ Meets(point, demand, TRUE, len)
  <2>1. supply \in Space(len, Nat) /\ demand \in Space(len, Nat)
    BY <1>2 DEF Spaces
  <2> HIDE DEF supply, demand, len
  <2> QED
    BY <1>2, <2>1, PullGets
<1> HIDE DEF pulled, point, pushed
<1>6. Covers(decouple, product) /\ Feeding(psi4supply, psi4demand, decouple, todo)
  <2>1. ~raised /\ decouple \subseteq product.nodes
    BY <1>3
  <2> QED
    BY <1>1, <2>1 DEF PullInv
<1>7. n \in LeafSet(product.nodes, product.children) => Meets(s, demand, n \in decouple, len)
  <2> SUFFICES ASSUME n \in LeafSet(product.nodes, product.children)
               PROVE  Meets(s, demand, n \in decouple, len)
    OBVIOUS
  <2>1. Pulled(product, n) \/ n \in decouple
    BY <1>6 DEF Covers, Pulled
  <2>2. CASE Pulled(product, n)
    BY <1>5, <2>2 DEF Meets
  <2>3. CASE ~Pulled(product, n) /\ n \in decouple
    BY <1>5, <2>3 DEF Meets
  <2> QED
    BY <2>1, <2>2, <2>3
<1> HIDE DEF s
<1>8. \A m \in product.nodes : psi4supply'[m] = IF m = n THEN s ELSE psi4supply[m]
  BY <1>2, <1>4
<1>9. PICK V \in SUBSET product.nodes :
        Passed(V, todo) /\ Fed(V, psi4supply, psi4demand, decouple, product)
  BY <1>6 DEF Feeding
<1> DEFINE W == V \cup {n}
<1>10. W \in SUBSET product.nodes /\ Passed(W, rest)
  BY <1>1, <1>2, <1>9, PassesOn
<1>11. PICK new : new = psi4supply'
  OBVIOUS
<1>12. Fed(W, new, psi4demand, decouple, product)
  <2> SUFFICES ASSUME NEW leaf \in LeafSet(product.nodes, product.children), leaf \in W
               PROVE  Meets(new[leaf], psi4demand[leaf], leaf \in decouple, len)
    BY DEF Fed
  <2>1. leaf \in product.nodes
    BY <1>10
  <2>2. CASE leaf = n
    BY <1>7, <1>8, <1>11, <2>1, <2>2
  <2>3. CASE leaf # n
    <3>1. leaf \in V /\ new[leaf] = psi4supply[leaf]
      BY <1>8, <1>11, <2>1, <2>3
    <3> QED
      BY <1>9, <3>1 DEF Fed
  <2> QED
    BY <2>2, <2>3
<1> HIDE DEF W, rest
<1>13. Feeding(new, psi4demand, decouple, rest)
  BY <1>10, <1>12 DEF Feeding
<1>14. Feeding(psi4supply, psi4demand, decouple, todo)'
  BY <1>3, <1>11, <1>13 DEF Feeding, Passed
<1> QED
  BY <1>3, <1>6, <1>14 DEF PullInv

(* No other visit is one of supply planning.                               *)
LEMMA StepPulls ==
  ASSUME PlanInv, PullInv, Step
  PROVE  PullInv'
<1>1. CASE SupplyNode
  BY <1>1, SupplyNodePulls
<1>2. CASE LoadNode \/ LoadRaises \/ DemandNode \/ FeedbackNode
  <2>1. command' # "supply_planning"
    BY <1>2 DEF LoadNode, LoadRaises, DemandNode, FeedbackNode, Running
  <2> QED
    BY <2>1 DEF PullInv
<1> QED
  BY <1>1, <1>2 DEF Step

(* A step that plans nothing keeps what was pulled.                        *)
LEMMA SamePull ==
  ASSUME PullInv, UNCHANGED vars
  PROVE  PullInv'
<1>1. /\ product' = product /\ command' = command /\ todo' = todo /\ raised' = raised
      /\ psi4demand' = psi4demand /\ psi4supply' = psi4supply /\ decouple' = decouple
  BY DEF vars
<1>2. Feeding(psi4supply, psi4demand, decouple, todo) => Feeding(psi4supply, psi4demand, decouple, todo)'
  BY <1>1 DEF Feeding, Passed
<1> QED
  BY <1>1, <1>2 DEF PullInv

(* A walk that ended has visited every leaf.                               *)
LEMMA SettledMeets ==
  ASSUME PlanInv, PullInv
  PROVE  PullMeetsDemand
<1> SUFFICES ASSUME Settled("supply_planning"), decouple \subseteq product.nodes,
                    NEW leaf \in ToSet(find_all_leaves(product)), NEW w \in 0 .. Length(product) - 1
             PROVE  /\ psi4supply[leaf][w].S = psi4demand[leaf][w].S
                    /\ leaf \notin decouple => psi4supply[leaf][w].P = psi4demand[leaf][w].P
  BY DEF PullMeetsDemand
<1>1. product \in Products /\ todo = <<>>
  BY DEF PlanInv, Settled
<1>2. leaf \in LeafSet(product.nodes, product.children) /\ leaf \in product.nodes
  BY <1>1, LeavesFirst DEF LeafSet
<1>3. Feeding(psi4supply, psi4demand, decouple, <<>>)
  BY <1>1 DEF PullInv, Settled
<1>4. PICK V \in SUBSET product.nodes :
        Passed(V, <<>>) /\ Fed(V, psi4supply, psi4demand, decouple, product)
  BY <1>3 DEF Feeding
<1>5. leaf \in V
  BY <1>1, <1>2, <1>4, PassesAll
<1>6. Meets(psi4supply[leaf], psi4demand[leaf], leaf \in decouple, Length(product))
  BY <1>2, <1>4, <1>5 DEF Fed
<1> QED
  BY <1>6 DEF Meets

(* In any session of the planning buttons and on any tree: when supply     *)
(* planning has ended, every leaf ships and receives what demand asks of   *)
(* it, in the weeks it asks, whatever stood in the supply layer before.    *)
THEOREM LeavesArePulled == Spec => []PullMeetsDemand
<1>1. Init => PullInv
  BY DEF Init, PullInv
<1>2. PlanInv /\ PullInv /\ [Next]_vars => PullInv'
  <2> SUFFICES ASSUME PlanInv, PullInv, [Next]_vars PROVE PullInv'
    OBVIOUS
  <2>1. CASE BeginLoad \/ BeginDemandPlanning \/ BeginLeveling
    <3>1. command' # "supply_planning"
      BY <2>1 DEF BeginLoad, BeginDemandPlanning, BeginLeveling, Begin
    <3> QED
      BY <3>1 DEF PullInv
  <2> QED
    BY <2>1, BeginSupplyPulls, StepPulls, SamePull DEF Next, SessionOver
<1>3. PlanInv /\ PullInv => PullMeetsDemand
  BY SettledMeets
<1> QED
  BY <1>1, <1>2, <1>3, PlanInvariance, PTL DEF Spec

-----------------------------------------------------------------------------
(* The sequences of the window.                                            *)

FirstStage == "outbound_backward_leaf_to_MOM"
Rest == << "inbound_MOM_leveling_vs_capacity", "inbound_backward_MOM_to_leaf",
           "inbound_forward_leaf_to_MOM", "push_pull" >>

(* A sequence stands before its first or its second stage, and walks no    *)
(* tree; what it has done is known from there until its run is saved.      *)
IInv ==
  /\ stages \in {Sequence, Rest, <<>>}
  /\ saving \in BOOLEAN
  /\ saving \/ stages # <<>> => todo = <<>>
  /\ stages = Sequence => done = {}
  /\ stages = Rest \/ (stages = <<>> /\ saving) => done = {FirstStage}
  /\ saved \subseteq {{FirstStage}}

(* The sequence, and what is left of it after its first stage.             *)
LEMMA StagesInOrder ==
  /\ Sequence # <<>> /\ Rest # <<>> /\ Sequence # Rest
  /\ Head(Sequence) = FirstStage /\ Tail(Sequence) = Rest
  /\ Head(Rest) = "inbound_MOM_leveling_vs_capacity"
  /\ Len(Sequence) = 5 /\ Len(Rest) = 4 /\ Len(<<>>) = 0
<1>1. Len(Sequence) = 5 /\ Len(Rest) = 4 /\ Len(<<>>) = 0
  BY DEF Sequence, Rest
<1>2. Sequence # <<>> /\ Rest # <<>> /\ Sequence # Rest
  BY DEF Sequence, Rest
<1>3. Head(Sequence) = FirstStage /\ Head(Rest) = "inbound_MOM_leveling_vs_capacity"
  BY DEF Sequence, Rest, FirstStage
<1>4. Tail(Sequence) = Rest
  BY DEF Sequence, Rest
<1> QED
  BY <1>1, <1>2, <1>3, <1>4

(* The two stages a sequence ever comes to.                                *)
LEMMA NextStageRuns ==
  ASSUME IInv, NextStage
  PROVE  \/ stages = Sequence /\ outbound_backward_leaf_to_MOM
         \/ stages = Rest /\ RaisesAtOnce
<1>1. CASE stages = Sequence
  <2>1. Head(stages) = "outbound_backward_leaf_to_MOM"
    BY <1>1, StagesInOrder DEF FirstStage
  <2> QED
    BY <1>1, <2>1 DEF NextStage, StageOf
<1>2. CASE stages = Rest
  <2>1. Head(stages) = "inbound_MOM_leveling_vs_capacity"
    BY <1>2, StagesInOrder
  <2> QED
    BY <1>2, <2>1 DEF NextStage, StageOf
<1> QED
  BY <1>1, <1>2 DEF IInv, NextStage

(* What NextStage does before each of them.                                *)
LEMMA NextStageFacts ==
  ASSUME IInv, NextStage
  PROVE  /\ todo = <<>> /\ todo' = <<>> /\ saving' = saving /\ saved' = saved
         /\ \/ stages = Sequence /\ stages' = Rest /\ done' = {FirstStage}
            \/ stages = Rest /\ stages' = <<>> /\ done' = done
<1>0. todo = <<>> /\ stages # <<>> /\ saving' = saving /\ saved' = saved
  BY DEF NextStage
<1>1. CASE stages = Sequence /\ outbound_backward_leaf_to_MOM
  <2>1. raised' = FALSE /\ todo' = todo
    BY <1>1 DEF outbound_backward_leaf_to_MOM, NoMorePlanning
  <2>2. done = {} /\ Head(stages) = FirstStage
    BY <1>1, StagesInOrder DEF IInv
  <2>3. stages' = Rest /\ done' = {FirstStage}
    BY <1>1, <2>1, <2>2, StagesInOrder DEF NextStage
  <2> QED
    BY <1>0, <1>1, <2>1, <2>3
<1>2. CASE stages = Rest /\ RaisesAtOnce
  <2>1. raised' = TRUE /\ todo' = todo
    BY <1>2 DEF RaisesAtOnce, NoMorePlanning
  <2> QED
    BY <1>0, <1>2, <2>1 DEF NextStage
<1> QED
  BY <1>1, <1>2, NextStageRuns

(* A visit is a step of a planning command, so of no sequence.             *)
LEMMA VisitFacts ==
  ASSUME IInv, Visit
  PROVE  stages = <<>> /\ ~saving /\ UNCHANGED sequence
<1>1. todo # <<>>
  BY DEF Visit, Step, LoadNode, LoadRaises, DemandNode, FeedbackNode, SupplyNode, Running
<1> QED
  BY <1>1 DEF IInv, Visit

(* Before the first button.                                                *)
LEMMA Initially == WindowInit => IInv
BY StagesInOrder DEF WindowInit, Init, IInv

(* A stage keeps the invariant of the sequences.                           *)
LEMMA NextStageKeepsIInv ==
  ASSUME IInv, NextStage
  PROVE  IInv'
<1>1. CASE stages = Sequence /\ stages' = Rest /\ done' = {FirstStage}
  BY <1>1, NextStageFacts, StagesInOrder DEF IInv
<1>2. CASE stages = Rest /\ stages' = <<>> /\ done' = done
  BY <1>2, NextStageFacts, StagesInOrder DEF IInv
<1> QED
  BY <1>1, <1>2, NextStageFacts

(* Every step of the window does.                                          *)
LEMMA StepKeepsIInv == IInv /\ [WindowNext]_windowVars => IInv'
<1> SUFFICES ASSUME IInv, [WindowNext]_windowVars PROVE IInv'
  OBVIOUS
<1>1. CASE Free /\ UNCHANGED sequence
  BY <1>1 DEF Free, IInv, sequence
<1>2. CASE RunSequence
  <2>1. stages' = Sequence /\ done' = {} /\ saving' \in BOOLEAN /\ saved' = saved /\ todo' = <<>>
    BY <1>2 DEF RunSequence, Free
  <2> QED
    BY <2>1, StagesInOrder DEF IInv
<1>3. CASE Visit
  BY <1>3, VisitFacts DEF IInv, sequence
<1>4. CASE NextStage
  BY <1>4, NextStageKeepsIInv
<1>5. CASE Save
  BY <1>5, StagesInOrder DEF Save, IInv, vars
<1>6. CASE SaveRaises
  BY <1>6, StagesInOrder DEF SaveRaises, IInv, vars
<1>7. CASE UNCHANGED windowVars
  BY <1>7 DEF windowVars, vars, sequence, IInv
<1>8. CASE Load \/ EngineButton \/ PlanningButton \/ SelectProduct
  BY <1>1, <1>8 DEF Load, EngineButton, PlanningButton, SelectProduct, Press
<1> QED
  BY <1>2, <1>3, <1>4, <1>5, <1>6, <1>7, <1>8 DEF WindowNext, Handler, WindowOver

(* The inductive invariant holds in every reachable state.                 *)
THEOREM Invariance == WindowSpec => []IInv
BY Initially, StepKeepsIInv, PTL DEF WindowSpec

(* Whatever is pressed before and whatever the products: every step of a   *)
(* Run & Save (_run_and_save) runs a stage or, with none left, saves what  *)
(* was run or is refused.                                                  *)
THEOREM RunAndSaveEnds == WindowSpec => RunIsSaved
<1> DEFINE Goes == saving => \/ saving' /\ Len(stages') < Len(stages)
                             \/ ~saving' /\ stages = <<>> /\ saved' \in {saved, saved \cup {done}}
<1>1. IInv /\ [WindowNext]_windowVars => [Goes]_windowVars
  <2> SUFFICES ASSUME IInv, WindowNext, saving PROVE Goes \/ UNCHANGED windowVars
    OBVIOUS
  <2>1. ~Free
    BY DEF Free
  <2>2. NextStage \/ Save \/ SaveRaises
    BY <2>1, VisitFacts DEF WindowNext, Handler, Load, EngineButton, Press, PlanningButton,
         SelectProduct, RunSequence, WindowOver
  <2>3. CASE NextStage
    BY <2>3, NextStageFacts, StagesInOrder
  <2>4. CASE Save \/ SaveRaises
    BY <2>4 DEF Save, SaveRaises
  <2> QED
    BY <2>2, <2>3, <2>4
<1> QED
  BY <1>1, Invariance, PTL DEF WindowSpec, RunIsSaved

(* No saved run has ever done more than its first stage: the second always *)
(* raises (engines.py:61).                                                 *)
THEOREM OnlyFirstStageSaved == WindowSpec => [](saved \subseteq {{FirstStage}})
<1>1. IInv => saved \subseteq {{FirstStage}}
  BY DEF IInv
<1> QED
  BY <1>1, Invariance, PTL

-----------------------------------------------------------------------------
(* Planning in the window: stages change layers only while no walk is on.  *)

Busy == stages # <<>> => command = "engine"

WindowInv == IInv /\ PlanInv /\ Busy

(* A stage: (1) appends to the demand layer, (5) begins a walk, the others *)
(* leave both layers alone.                                                *)
LEMMA EngineKeeps ==
  ASSUME PlanInv, product' = product, psi4supply' = psi4supply, psi4demand' = psi4demand,
         command' = "engine"
  PROVE  PlanInv'
<1>1. product' = product /\ psi4supply' = psi4supply /\ psi4demand' = psi4demand
      /\ command' = "engine"
  OBVIOUS
<1> QED
  BY <1>1, ProductStays DEF PlanInv, Walks

(* Engine (1) appends arrivals to the demand layer: PSI spaces still.      *)
LEMMA FirstStageKeeps ==
  ASSUME PlanInv, outbound_backward_leaf_to_MOM, command' = "engine"
  PROVE  PlanInv'
<1> DEFINE d(n) == shiftS2P_LV(psi4demand[n], product.ss[n], product.vacation[n])
           len == Length(product)
<1>0. /\ product \in Products /\ len \in Nat \ {0}
      /\ psi4demand \in [product.nodes -> Spaces] /\ psi4supply \in [product.nodes -> Spaces]
      /\ \A m \in product.nodes : Stocked(psi4supply[m], len)
  BY ProductFacts DEF PlanInv
<1>1. /\ product' = product /\ psi4supply' = psi4supply
      /\ psi4demand' = [n \in product.nodes |-> d(n)]
  BY DEF outbound_backward_leaf_to_MOM, NoMorePlanning
<1>2. ASSUME NEW n \in product.nodes PROVE d(n) \in Spaces
  <2>1. psi4demand[n] \in Space(len, Nat) /\ product.ss[n] \in Nat
    BY <1>0, ProductFacts DEF Spaces
  <2> HIDE DEF len
  <2> QED
    BY <1>0, <2>1, ShiftAppends DEF Spaces, len
<1> HIDE DEF d
<1>3. psi4demand' \in [product.nodes -> Spaces]
  BY <1>1, <1>2
<1>4. command' = "engine"
  OBVIOUS
<1> QED
  BY <1>0, <1>1, <1>3, <1>4, ProductStays DEF PlanInv, Walks

(* The engine buttons keep the invariant of planning.                      *)
LEMMA ButtonKeeps ==
  ASSUME PlanInv, EngineButton
  PROVE  PlanInv'
<1>1. CASE Press("engine") /\ outbound_backward_leaf_to_MOM
  BY <1>1, FirstStageKeeps DEF Press, Begin
<1>2. CASE Press("engine") /\ (RaisesAtOnce \/ connect_outbound2inbound \/ inbound_forward_leaf_to_MOM)
  BY <1>2, EngineKeeps DEF Press, Begin, RaisesAtOnce, connect_outbound2inbound,
       inbound_forward_leaf_to_MOM, NoMorePlanning
<1>3. CASE Press("supply_planning") /\ push_pull
  <2>1. /\ product' = product /\ psi4demand' = psi4demand /\ psi4supply' = psi4supply
        /\ command' = "supply_planning" /\ todo' = <<product.root>>
    BY <1>3 DEF Press, Begin, push_pull
  <2> QED
    BY <2>1, WalkBeginsSupply
<1> QED
  BY <1>1, <1>2, <1>3 DEF EngineButton

(* So do the two stages a sequence ever comes to.                          *)
LEMMA NextStagePlans ==
  ASSUME WindowInv, NextStage
  PROVE  PlanInv' /\ Busy'
<1>1. IInv /\ PlanInv /\ command = "engine" /\ command' = "engine"
  BY DEF WindowInv, Busy, NextStage
<1>2. CASE outbound_backward_leaf_to_MOM
  BY <1>1, <1>2, FirstStageKeeps DEF Busy
<1>3. CASE RaisesAtOnce
  BY <1>1, <1>3, EngineKeeps DEF Busy, RaisesAtOnce, NoMorePlanning
<1> QED
  BY <1>1, <1>2, <1>3, NextStageRuns

(* So does every step of the window.                                       *)
LEMMA WindowStepPlans ==
  ASSUME WindowInv, [WindowNext]_windowVars
  PROVE  PlanInv' /\ Busy'
<1>0. PlanInv /\ Busy
  BY DEF WindowInv
<1>1. CASE Load
  BY <1>0, <1>1, BeginLoadKeeps DEF Load, Free, sequence, Busy
<1>2. CASE EngineButton
  BY <1>0, <1>2, ButtonKeeps DEF EngineButton, Press, Free, sequence, Busy
<1>3. CASE PlanningButton
  BY <1>0, <1>3, BeginDemandKeeps, BeginLevelingKeeps, BeginSupplyKeeps
     DEF PlanningButton, Free, sequence, Busy
<1>4. CASE SelectProduct
  BY <1>0, <1>4, SamePlan DEF SelectProduct, Free, sequence, Busy
<1>5. CASE RunSequence
  BY <1>0, <1>5, EngineKeeps DEF RunSequence, Begin, Busy
<1>6. CASE Visit
  BY <1>0, <1>6, StepKeeps, VisitFacts DEF Visit, WindowInv, Busy, sequence
<1>7. CASE NextStage
  BY <1>7, NextStagePlans
<1>8. CASE Save \/ SaveRaises
  BY <1>0, <1>8, SamePlan DEF Save, SaveRaises, Busy
<1>9. CASE UNCHANGED windowVars
  <2>1. UNCHANGED vars /\ stages' = stages /\ command' = command
    BY <1>9 DEF windowVars, sequence, vars
  <2> QED
    BY <1>0, <2>1, SamePlan DEF Busy
<1> QED
  BY <1>1, <1>2, <1>3, <1>4, <1>5, <1>6, <1>7, <1>8, <1>9 DEF WindowNext, Handler, WindowOver

(* The invariants of sequences and planning hold in every session.         *)
THEOREM WindowInvariance == WindowSpec => []WindowInv
<1>1. WindowInit => PlanInv /\ Busy
  BY PlanInit DEF WindowInit, Busy
<1>2. WindowInv /\ [WindowNext]_windowVars => PlanInv' /\ Busy'
  BY WindowStepPlans
<1> QED
  BY <1>1, <1>2, Initially, StepKeepsIInv, PTL DEF WindowSpec, WindowInv

(* Also with the engine buttons and the sequences between them, the stock  *)
(* that demand planning and supply planning leave is what the arrivals and *)
(* shipments make it, at every node.                                       *)
THEOREM WindowStockFollowsMoves == WindowSpec => []StockFollowsMoves
<1>1. WindowInv => StockFollowsMoves
  BY SettledAgrees DEF WindowInv
<1> QED
  BY <1>1, WindowInvariance, PTL

(* However often engine (1) has added the arrivals of the demand layer     *)
(* anew, whatever was leveled, pushed and pulled since: no node's supply   *)
(* layer has a lot in stock twice in a week.                               *)
THEOREM StockedOnce == WindowSpec => []SuppliedOnce
<1>1. PlanInv => SuppliedOnce
  <2> SUFFICES ASSUME PlanInv, NEW n \in product.nodes, NEW w \in 0 .. Length(product) - 1
               PROVE  LET stock == psi4supply[n][w].I IN Cardinality(ToSet(stock)) = Len(stock)
    BY DEF SuppliedOnce
  <2> DEFINE stock == psi4supply[n][w].I
             len == Length(product)
  <2>1. psi4supply[n] \in Space(len, Nat) /\ len \in Nat \ {0}
    BY ProductFacts DEF PlanInv, Spaces
  <2>2. Distinct(stock)
    BY DEF PlanInv, Stocked
  <2>3. stock \in Seq(Nat)
    <3>1. w \in 0 .. len - 1
      OBVIOUS
    <3>2. PICK psi \in Space(len, Nat) : psi = psi4supply[n]
      BY <2>1
    <3> HIDE DEF len
    <3>3. psi[w].I \in Seq(Nat)
      BY <2>1, <3>1, SpaceParts
    <3> QED
      BY <3>2, <3>3
  <2> HIDE DEF stock
  <2>4. Cardinality(ToSet(stock)) = Len(stock)
    BY <2>2, <2>3, DistinctMembers
  <2> QED
    BY <2>4 DEF stock
<1> QED
  BY <1>1, WindowInvariance, PTL DEF WindowInv

-----------------------------------------------------------------------------
(* Pulling in the window.                                                  *)

(* The nodes selected in the window serve as decoupling points: a product's*)
(* distribution nodes, or those of the last supply planning.               *)
Selected ==
  decouple_node_selected # {} /\ decouple_node_selected \subseteq product.nodes =>
    Covers(decouple_node_selected, product)

(* What on_product_changed selects: nothing, or nodes above every leaf.    *)
LEMMA SelectionCovers ==
  ASSUME DADsCover, NEW p \in Products
  PROVE  p.nodes \cap DADs = {} \/ Covers(p.nodes \cap DADs, p)
<1> DEFINE C == p.nodes \cap DADs
<1>1. C = {} \/ \A n \in p.nodes : IsLeaf(p, n) => \E m \in C : n \in Below(p, m)
  BY DEF DADsCover
<1>2. \A n \in LeafSet(p.nodes, p.children) : n \in p.nodes /\ IsLeaf(p, n)
  BY DEF LeafSet, IsLeafOf, IsLeaf, Children
<1> QED
  BY <1>1, <1>2 DEF Covers

PullWindow == WindowInv /\ PullInv /\ Selected

(* A selection that is kept or dropped.                                    *)
LEMMA SelectedStays ==
  ASSUME Selected, product' = product,
         decouple_node_selected' \in {{}, decouple_node_selected}
  PROVE  Selected'
BY DEF Selected

(* Engine (5): the selected nodes, else a candidate list.                  *)
LEMMA PushPullCovers ==
  ASSUME PlanInv, Selected, push_pull, decouple' \subseteq product.nodes
  PROVE  product' = product /\ todo' = <<product.root>> /\ Covers(decouple', product)
<1> DEFINE cuts == make_nodes_decouple_all(product)
           at == IF Len(cuts) > 1 THEN Len(cuts) - 1 ELSE 1
<1>1. product' = product /\ todo' = <<product.root>>
      /\ decouple' = IF decouple_node_selected # {} THEN decouple_node_selected
                     ELSE ToSet(cuts[at])
  BY DEF push_pull
<1>2. product \in Products
  BY DEF PlanInv
<1>3. DOMAIN cuts = 1 .. Len(cuts) /\ Len(cuts) \in Nat \ {0}
  <2>1. cuts \in Seq(Seq(product.nodes \cup {Outside})) /\ Len(cuts) \in Nat \ {0}
    BY <1>2, CandidatesCut
  <2> HIDE DEF cuts
  <2> QED
    BY <2>1
<1>4. at \in DOMAIN cuts
  <2> HIDE DEF cuts
  <2> QED
    BY <1>3
<1>5. CASE decouple_node_selected # {}
  BY <1>1, <1>5 DEF Selected
<1>6. CASE decouple_node_selected = {}
  <2>1. decouple' = ToSet(cuts[at])
    BY <1>1, <1>6
  <2> HIDE DEF at
  <2>2. Covers(ToSet(cuts[at]), product)
    BY <1>2, <1>4, <2>1, CandidateCovers
  <2> QED
    BY <1>1, <2>1, <2>2
<1> QED
  BY <1>5, <1>6

(* The engine buttons: of them (5) plans supply.                           *)
LEMMA ButtonPulls ==
  ASSUME PlanInv, Selected, EngineButton
  PROVE  PullInv' /\ Selected'
<1>1. CASE Press("engine") /\ (outbound_backward_leaf_to_MOM \/ RaisesAtOnce
                                \/ connect_outbound2inbound \/ inbound_forward_leaf_to_MOM)
  <2>1. /\ command' = "engine" /\ product' = product
        /\ decouple_node_selected' = decouple_node_selected
    BY <1>1 DEF Press, Begin, outbound_backward_leaf_to_MOM, RaisesAtOnce,
         connect_outbound2inbound, inbound_forward_leaf_to_MOM, NoMorePlanning
  <2> QED
    BY <2>1, SelectedStays DEF PullInv
<1>2. CASE Press("supply_planning") /\ push_pull
  <2>1. product' = product /\ decouple_node_selected' = decouple_node_selected
    BY <1>2 DEF push_pull
  <2>2. CASE ~(decouple' \subseteq product.nodes)
    BY <2>1, <2>2, SelectedStays DEF PullInv
  <2>3. CASE decouple' \subseteq product.nodes
    BY <1>2, <2>1, <2>3, PushPullCovers, PullBegins, SelectedStays
  <2> QED
    BY <2>2, <2>3
<1> QED
  BY <1>1, <1>2 DEF EngineButton

(* The planning buttons: supply planning selects its decoupling points.    *)
LEMMA PlanningPulls ==
  ASSUME PlanInv, Selected, PlanningButton
  PROVE  PullInv' /\ Selected'
<1>1. CASE BeginDemandPlanning /\ decouple_node_selected' = {}
  <2>1. command' # "supply_planning" /\ product' = product
    BY <1>1 DEF BeginDemandPlanning, Begin
  <2> QED
    BY <1>1, <2>1, SelectedStays DEF PullInv
<1>2. CASE BeginLeveling /\ UNCHANGED decouple_node_selected
  <2>1. command' # "supply_planning" /\ product' = product
    BY <1>2 DEF BeginLeveling, Begin
  <2> QED
    BY <1>2, <2>1, SelectedStays DEF PullInv
<1>3. CASE BeginSupplyPlanning /\ decouple_node_selected' = IF raised' THEN {} ELSE decouple'
  <2>1. product' = product
    BY <1>3 DEF BeginSupplyPlanning
  <2>2. PullInv'
    BY <1>3, BeginSupplyPulls
  <2>3. CASE raised'
    BY <1>3, <2>1, <2>2, <2>3, SelectedStays
  <2>4. CASE ~raised' /\ ~(decouple' \subseteq product.nodes)
    BY <1>3, <2>1, <2>2, <2>4 DEF Selected
  <2>5. CASE ~raised' /\ decouple' \subseteq product.nodes
    <3>1. Covers(decouple', product) /\ decouple_node_selected' = decouple'
      BY <1>3, <2>5, BeginSupplyCovers
    <3> QED
      BY <2>1, <2>2, <3>1 DEF Selected
  <2> QED
    BY <2>3, <2>4, <2>5
<1> QED
  BY <1>1, <1>2, <1>3 DEF PlanningButton

(* Every step of the window keeps what leaves have pulled.                 *)
LEMMA WindowStepPulls ==
  ASSUME DADsCover, PullWindow, [WindowNext]_windowVars
  PROVE  PullInv' /\ Selected'
<1>0. WindowInv /\ PlanInv /\ Busy /\ PullInv /\ Selected
  BY DEF PullWindow, WindowInv
<1>1. CASE Load
  <2>1. command' # "supply_planning" /\ product' = product
        /\ decouple_node_selected' = decouple_node_selected
    BY <1>1 DEF Load, BeginLoad, Begin
  <2> QED
    BY <1>0, <2>1, SelectedStays DEF PullInv
<1>2. CASE EngineButton
  BY <1>0, <1>2, ButtonPulls
<1>3. CASE PlanningButton
  BY <1>0, <1>3, PlanningPulls
<1>4. CASE SelectProduct
  <2>1. UNCHANGED vars /\ product' = product /\ decouple_node_selected' = product.nodes \cap DADs
    BY <1>4 DEF SelectProduct, vars
  <2>2. PullInv'
    BY <1>0, <2>1, SamePull
  <2>3. decouple_node_selected' = {} \/ Covers(decouple_node_selected', product)
    BY <1>0, <2>1, SelectionCovers DEF PlanInv
  <2> QED
    BY <2>1, <2>2, <2>3 DEF Selected
<1>5. CASE RunSequence
  <2>1. command' = "engine" /\ product' = product /\ decouple_node_selected' = decouple_node_selected
    BY <1>5 DEF RunSequence, Begin
  <2> QED
    BY <1>0, <2>1, SelectedStays DEF PullInv
<1>6. CASE Visit
  <2>1. product' = product /\ decouple_node_selected' = decouple_node_selected
    BY <1>6 DEF Visit, Step, LoadNode, LoadRaises, DemandNode, FeedbackNode, SupplyNode
  <2> QED
    BY <1>0, <1>6, <2>1, StepPulls, SelectedStays DEF Visit
<1>7. CASE NextStage
  <2>1. command' = "engine"
    BY <1>0, <1>7 DEF NextStage, Busy
  <2>2. outbound_backward_leaf_to_MOM \/ RaisesAtOnce
    BY <1>0, <1>7, NextStageRuns DEF WindowInv
  <2>3. product' = product /\ decouple_node_selected' = decouple_node_selected
    BY <2>2 DEF outbound_backward_leaf_to_MOM, RaisesAtOnce, NoMorePlanning
  <2> QED
    BY <1>0, <2>1, <2>3, SelectedStays DEF PullInv
<1>8. CASE Save \/ SaveRaises \/ UNCHANGED windowVars
  <2>1. UNCHANGED vars /\ decouple_node_selected' = decouple_node_selected /\ product' = product
    BY <1>8 DEF Save, SaveRaises, windowVars, vars
  <2> QED
    BY <1>0, <2>1, SamePull, SelectedStays
<1> QED
  BY <1>1, <1>2, <1>3, <1>4, <1>5, <1>6, <1>7, <1>8 DEF WindowNext, Handler, WindowOver

(* Also with engine (5) and decoupling nodes selected in the window, if    *)
(* the distribution nodes it selects with a product (on_product_changed)   *)
(* are above every leaf, or there are none.                                *)
THEOREM WindowPulls ==
  ASSUME DADsCover
  PROVE  WindowSpec => []PullMeetsDemand
<1>1. WindowInit => PullInv /\ Selected
  BY DEF WindowInit, Init, PullInv, Selected
<1>2. WindowInv /\ PullInv /\ Selected /\ [WindowNext]_windowVars => PullInv' /\ Selected'
  BY WindowStepPulls DEF PullWindow
<1>3. WindowInv /\ PullInv => PullMeetsDemand
  BY SettledMeets DEF WindowInv
<1> QED
  BY <1>1, <1>2, <1>3, WindowInvariance, PTL DEF WindowSpec

-----------------------------------------------------------------------------
(* Backward planning: every node's shipments and arrivals against the weeks*)
(* reckoned for each lot alone.                                            *)

(* The week a lot is wanted of a node, and the week it is due there.       *)
Wanted(p, x, n) == IF x \in DOMAIN p.lots THEN RequestedWeek(p, x, n) ELSE Lost

ShiftOf(p, n, w) == Slot(Length(p), check_lv_week_bw(p.vacation[n], w - p.ss[n]))

DueIn(p, x, n) == IF Wanted(p, x, n) > p.ss[n] THEN ShiftOf(p, n, Wanted(p, x, n)) ELSE Lost

Reckoned == Nat \cup {Lost}

(* A shift after the weeks of safety stock goes to a week.                 *)
LEMMA ShiftIsWeek ==
  ASSUME NEW p \in Products, NEW n \in p.nodes, NEW w \in Reckoned, w > p.ss[n]
  PROVE  /\ ShiftOf(p, n, w) \in Nat /\ w \in Nat
         /\ w < Length(p) => ShiftOf(p, n, w) < Length(p)
<1> DEFINE week == w - p.ss[n]
           len == Length(p)
           back == check_lv_week_bw(p.vacation[n], week)
<1>1. p.ss[n] \in Nat /\ len \in Nat \ {0}
  BY ProductFacts
<1>2. w \in Nat /\ week \in Nat /\ week <= w
  BY <1>1 DEF Reckoned, Lost
<1>3. p.vacation[n] \in SUBSET Nat /\ IsFiniteSet(p.vacation[n])
  BY ProductsAssumption
<1> HIDE DEF week, len
<1>4. back \in -1 .. week
  BY <1>2, <1>3, WeekAtWork
<1>5. ShiftOf(p, n, w) = IF back < 0 THEN back + len ELSE back
  BY DEF ShiftOf, Slot, week, len
<1> HIDE DEF back
<1> QED
  BY <1>1, <1>2, <1>4, <1>5 DEF len

(* The recursive definition has a solution.                                *)
LEMMA WeeksReckoned ==
  ASSUME NEW p \in Products, NEW lot \in DOMAIN p.lots, IsDemanded(p, lot)
  PROVE  \A n \in p.nodes :
           /\ RequestedWeek(p, lot, n) \in Reckoned
           /\ RequestedWeek(p, lot, n) =
                IF n = p.lots[lot].leaf THEN p.lots[lot].week
                ELSE IF p.lots[lot].leaf \notin Below(p, n) THEN Lost
                ELSE LET c == ShipTo(p, n, p.lots[lot].leaf)
                         due == ShiftOf(p, c, RequestedWeek(p, lot, c))
                     IN  IF RequestedWeek(p, lot, c) <= p.ss[c] \/ due < p.leadtime[n] THEN Lost
                         ELSE due - p.leadtime[n]
<1> DEFINE nodes == p.nodes
           children == p.children
           leaf == p.lots[lot].leaf
           V == Reckoned
           Up(n, c, v) == IF v[c] <= p.ss[c] \/ ShiftOf(p, c, v[c]) < p.leadtime[n] THEN Lost
                          ELSE ShiftOf(p, c, v[c]) - p.leadtime[n]
           Here(n, v) == IF n = leaf THEN p.lots[lot].week
                         ELSE IF leaf \notin Below(p, n) THEN Lost
                         ELSE Up(n, ShipTo(p, n, leaf), v)
           step == [n \in nodes |-> [v \in [nodes -> V] |-> Here(n, v)]]
           week == CHOOSE v : v = [n \in nodes |-> Here(n, v)]
<1>0. \A n : RequestedWeek(p, lot, n) = week[n]
  BY Zenon DEF RequestedWeek, ShiftOf
<1>1. TreeOf(nodes, p.root, children) /\ IsBelow(Subtrees(p), nodes, children)
      /\ \A n : Below(p, n) = Subtrees(p)[n]
  BY ProductOutline DEF IsOutline
<1>2. p.lots[lot].week \in V
  BY DEF IsDemanded, Reckoned
<1>3. p.leadtime \in [nodes -> Nat \cup {None}] /\ \A n \in nodes : p.ss[n] \in Nat
  BY ProductsAssumption
<1>4. ASSUME NEW n \in nodes, leaf \in Below(p, n), n # leaf
      PROVE  ShipTo(p, n, leaf) \in nodes /\ Contains(children[n], ShipTo(p, n, leaf))
  <2>1. \E c \in nodes : Contains(children[n], c) /\ leaf \in Subtrees(p)[c]
    BY <1>1, <1>4, BelowParts
  <2>2. children[n] \in Seq(nodes)
    BY <1>1 DEF TreeOf
  <2>3. \A c : c \in ToSet(children[n]) <=> c \in nodes /\ Contains(children[n], c)
    BY <2>2 DEF ToSet, Contains
  <2>4. \E c \in ToSet(children[n]) : leaf \in Below(p, c)
    BY <1>1, <2>1, <2>3
  <2>5. ShipTo(p, n, leaf) \in ToSet(children[n])
    BY <2>4, Zenon DEF ShipTo, Children
  <2> QED
    BY <2>3, <2>5
<1> HIDE DEF nodes, children, leaf
<1>5. ASSUME NEW n \in nodes, NEW c \in nodes, NEW v \in [nodes -> V] PROVE Up(n, c, v) \in V
  <2>1. v[c] \in V /\ p.ss[c] \in Nat /\ p.leadtime[n] \in Nat \cup {None} /\ Lost \in V
    BY <1>3 DEF Reckoned
  <2>2. v[c] > p.ss[c] => ShiftOf(p, c, v[c]) \in Nat
    BY ShiftIsWeek DEF nodes
  <2>3. v[c] > p.ss[c] \/ v[c] <= p.ss[c]
    BY <2>1 DEF Reckoned, Lost
  <2>4. v[c] > p.ss[c] /\ ~(ShiftOf(p, c, v[c]) < p.leadtime[n])
          => ShiftOf(p, c, v[c]) - p.leadtime[n] \in Nat
    BY <2>1, <2>2 DEF Reckoned, Lost, None
  <2> QED
    BY <2>1, <2>3, <2>4 DEF Reckoned
<1>6. \A n \in nodes, v \in [nodes -> V] : Here(n, v) \in V
  <2> HIDE DEF Up
  <2>1. Lost \in V
    BY DEF Reckoned
  <2> QED
    BY <1>2, <1>4, <1>5, <2>1
<1>7. step \in StepsUp(nodes, V)
  <2> HIDE DEF V, Here
  <2> QED
    BY <1>6 DEF StepsUp
<1>8. IsLocal(step, nodes, children, V)
  <2> SUFFICES ASSUME NEW n \in nodes, NEW v \in [nodes -> V], NEW w \in [nodes -> V],
                      \A c \in nodes : Contains(children[n], c) => v[c] = w[c]
               PROVE  step[n][v] = step[n][w]
    BY DEF IsLocal
  <2>1. ASSUME leaf \in Below(p, n), n # leaf
        PROVE  Up(n, ShipTo(p, n, leaf), v) = Up(n, ShipTo(p, n, leaf), w)
    <3>1. v[ShipTo(p, n, leaf)] = w[ShipTo(p, n, leaf)]
      BY <1>4, <2>1
    <3> QED
      BY <3>1
  <2>2. Here(n, v) = Here(n, w)
    <3> HIDE DEF Up
    <3> QED
      BY <2>1
  <2> HIDE DEF Here, V
  <2> QED
    BY <2>2
<1>9. PICK g \in [nodes -> V] : \A n \in nodes : g[n] = step[n][g]
  <2>1. V # {}
    BY DEF Reckoned
  <2>2. PICK root : root = p.root
    OBVIOUS
  <2>3. TreeOf(nodes, root, children)
    BY <1>1, <2>2
  <2> HIDE DEF V, step
  <2> QED
    BY <1>7, <1>8, <2>1, <2>3, UpwardExists
<1>10. g = [n \in nodes |-> Here(n, g)]
  <2> HIDE DEF Here, V
  <2> QED
    BY <1>9
<1>11. week = [n \in nodes |-> Here(n, week)]
  <2> HIDE DEF Here
  <2> QED
    BY <1>10, Zenon
<1> HIDE DEF week
<1>12. \A n \in nodes : week[n] = Here(n, week)
  <2> HIDE DEF Here
  <2> QED
    BY <1>11
<1> DEFINE S == {n \in nodes : week[n] \in V}
<1>13. ASSUME NEW n \in nodes, \A c \in nodes : Contains(children[n], c) => c \in S
       PROVE  n \in S
  <2>1. Lost \in V
    BY DEF Reckoned
  <2>2. CASE n = leaf \/ leaf \notin Below(p, n)
    BY <1>2, <1>12, <2>1, <2>2
  <2>3. CASE n # leaf /\ leaf \in Below(p, n)
    <3>1. PICK c \in nodes : c = ShipTo(p, n, leaf) /\ Contains(children[n], c)
      BY <1>4, <2>3
    <3>2. week[c] \in V
      BY <1>13, <3>1
    <3> DEFINE v == [m \in nodes |-> week[c]]
    <3>3. v \in [nodes -> V] /\ v[c] = week[c]
      BY <3>2
    <3>4. Up(n, c, v) = Up(n, c, week)
      BY <3>3
    <3>5. Up(n, c, v) \in V
      <4> HIDE DEF Up, v
      <4> QED
        BY <1>5, <3>3
    <3>6. week[n] = Up(n, c, week)
      <4> HIDE DEF Up
      <4> QED
        BY <1>12, <2>3, <3>1
    <3> QED
      BY <3>4, <3>5, <3>6
  <2> QED
    BY <2>2, <2>3
<1>14. \A n \in nodes : n \in S
  <2>1. PICK root : root = p.root
    OBVIOUS
  <2>2. TreeOf(nodes, root, children)
    BY <1>1, <2>1
  <2> HIDE DEF S
  <2> QED
    BY <1>13, <2>2, UpTheTree
<1> SUFFICES ASSUME NEW n \in nodes
             PROVE  /\ week[n] \in V
                    /\ week[n] = IF n = leaf THEN p.lots[lot].week
                                 ELSE IF leaf \notin Below(p, n) THEN Lost
                                 ELSE Up(n, ShipTo(p, n, leaf), week)
  BY <1>0, Zenon DEF nodes, leaf
<1> QED
  BY <1>12, <1>14

(* A leaf ships what is demanded of it, in the week of the demand.         *)
LEMMA LeafWants ==
  ASSUME NEW p \in Products, NEW n \in p.nodes, IsLeaf(p, n), NEW x
  PROVE  /\ Wanted(p, x, n) \in -1 .. Length(p) - 1
         /\ \A w \in 0 .. Length(p) - 1 :
              Wanted(p, x, n) = w <=>
                x \in DOMAIN p.lots /\ p.lots[x].leaf = n /\ p.lots[x].week = w
<1> DEFINE len == Length(p)
<1>1. len \in Nat \ {0}
  BY ProductFacts
<1>2. \A m : m \in Below(p, n) <=> m = n
  <2>1. IsBelow(Subtrees(p), p.nodes, p.children) /\ TreeOf(p.nodes, p.root, p.children)
        /\ Below(p, n) = Subtrees(p)[n]
    BY ProductOutline DEF IsOutline
  <2>2. \A c : ~Contains(p.children[n], c)
    BY DEF IsLeaf, Children, Contains
  <2>3. \A m : m \in Subtrees(p)[n] <=> m = n \/ \E c \in p.nodes : Contains(p.children[n], c) /\ m \in Subtrees(p)[c]
    BY <2>1, BelowParts
  <2> QED
    BY <2>1, <2>2, <2>3
<1> HIDE DEF len
<1>3. CASE x \in DOMAIN p.lots /\ IsDemanded(p, x)
  <2>1. p.lots[x].leaf \in p.nodes /\ p.lots[x].week \in 0 .. len - 1
    BY <1>3 DEF IsDemanded, len
  <2>2. Wanted(p, x, n) = IF n = p.lots[x].leaf THEN p.lots[x].week ELSE Lost
    <3>1. Wanted(p, x, n) = RequestedWeek(p, x, n)
      BY <1>3 DEF Wanted
    <3>2. n # p.lots[x].leaf => p.lots[x].leaf \notin Below(p, n)
      BY <1>2
    <3> QED
      BY <1>3, <3>1, <3>2, WeeksReckoned
  <2> QED
    BY <1>1, <1>3, <2>1, <2>2 DEF len, Lost
<1>4. CASE ~(x \in DOMAIN p.lots /\ IsDemanded(p, x))
  <2>1. Wanted(p, x, n) = Lost
    BY <1>4, Zenon DEF Wanted, RequestedWeek
  <2>2. ~(x \in DOMAIN p.lots /\ p.lots[x].leaf = n /\ p.lots[x].week \in 0 .. len - 1)
    BY <1>4 DEF IsDemanded, len
  <2> QED
    BY <1>1, <2>1, <2>2 DEF len, Lost
<1> QED
  BY <1>3, <1>4

(* Another node ships what is due at its children, its lead time before;   *)
(* no lot is due at two of them.                                           *)
LEMMA InnerWants ==
  ASSUME NEW p \in Products, NEW n \in p.nodes, ~IsLeaf(p, n), p.leadtime[n] # None, NEW x
  PROVE  /\ p.leadtime[n] \in Nat
         /\ \A w \in Nat :
              Wanted(p, x, n) = w <=>
                \E c \in p.nodes : Contains(Children(p, n), c) /\ DueIn(p, x, c) = w + p.leadtime[n]
         /\ \A c, d \in p.nodes :
              /\ Contains(Children(p, n), c) /\ Contains(Children(p, n), d)
              /\ DueIn(p, x, c) # Lost /\ DueIn(p, x, d) # Lost
              => c = d
         /\ Wanted(p, x, n) \in Reckoned
<1>1. /\ IsLaminar(p.nodes, p.children, Subtrees(p))
      /\ TreeOf(p.nodes, p.root, p.children)
      /\ IsBelow(Subtrees(p), p.nodes, p.children)
      /\ \A m : Below(p, m) = Subtrees(p)[m]
  BY ProductOutline, OutlineIsLaminar DEF IsOutline
<1>2. p.leadtime[n] \in Nat /\ \A m \in p.nodes : p.ss[m] \in Nat
  BY ProductsAssumption DEF None
<1>3. CASE x \in DOMAIN p.lots /\ IsDemanded(p, x)
  <2> DEFINE leaf == p.lots[x].leaf
             lead == p.leadtime[n]
             Want(m) == RequestedWeek(p, x, m)
  <2>1. \A m : Wanted(p, x, m) = Want(m)
    BY <1>3 DEF Wanted
  <2>2. \A m \in p.nodes : Want(m) \in Reckoned
    BY <1>3, WeeksReckoned
  <2>3. n # leaf
    BY <1>3 DEF IsDemanded
  <2>4. Want(n) = IF leaf \notin Below(p, n) THEN Lost
                  ELSE LET c == ShipTo(p, n, leaf)
                           due == ShiftOf(p, c, Want(c))
                       IN  IF Want(c) <= p.ss[c] \/ due < lead THEN Lost ELSE due - lead
    BY <1>3, <2>3, WeeksReckoned
  <2>5. \A m \in p.nodes : leaf \notin Below(p, m) => Want(m) = Lost
    <3> SUFFICES ASSUME NEW m \in p.nodes, leaf \notin Below(p, m) PROVE Want(m) = Lost
      OBVIOUS
    <3>1. m # leaf
      BY <1>1 DEF IsLaminar
    <3> QED
      BY <1>3, <3>1, WeeksReckoned
  <2> HIDE DEF leaf, lead, Want
  <2>6. \A m \in p.nodes : DueIn(p, x, m) = IF Want(m) > p.ss[m] THEN ShiftOf(p, m, Want(m)) ELSE Lost
    BY <2>1 DEF DueIn
  <2>7. \A m \in p.nodes : DueIn(p, x, m) # Lost =>
          leaf \in Below(p, m) /\ Want(m) > p.ss[m] /\ DueIn(p, x, m) = ShiftOf(p, m, Want(m))
    <3> SUFFICES ASSUME NEW m \in p.nodes, DueIn(p, x, m) # Lost
                 PROVE  leaf \in Below(p, m) /\ Want(m) > p.ss[m]
                        /\ DueIn(p, x, m) = ShiftOf(p, m, Want(m))
      OBVIOUS
    <3>1. Want(m) > p.ss[m] /\ DueIn(p, x, m) = ShiftOf(p, m, Want(m))
      BY <2>6
    <3>2. Want(m) # Lost
      BY <1>2, <3>1 DEF Lost
    <3> QED
      BY <2>5, <3>1, <3>2
  <2>8. ASSUME NEW c \in p.nodes, NEW d \in p.nodes,
               Contains(Children(p, n), c), Contains(Children(p, n), d),
               leaf \in Below(p, c), leaf \in Below(p, d)
        PROVE  c = d
    <3>1. leaf \in p.nodes
      BY <1>1, <2>8 DEF IsBelow
    <3>2. d \in Subtrees(p)[c] \/ c \in Subtrees(p)[d]
      <4>1. \A l, a, b \in p.nodes : l \in Subtrees(p)[a] /\ l \in Subtrees(p)[b] =>
              a \in Subtrees(p)[b] \/ b \in Subtrees(p)[a]
        BY <1>1 DEF IsLaminar
      <4> QED
        BY <1>1, <2>8, <3>1, <4>1
    <3>3. n \notin Subtrees(p)[c] /\ n \notin Subtrees(p)[d]
      BY <1>1, <2>8 DEF IsLaminar, Children
    <3>4. /\ d \in Subtrees(p)[c] => d = c \/ n \in Subtrees(p)[c]
          /\ c \in Subtrees(p)[d] => c = d \/ n \in Subtrees(p)[d]
      BY <1>1, <2>8 DEF IsLaminar, Children
    <3> QED
      BY <3>2, <3>3, <3>4
  <2>9. ASSUME NEW c \in p.nodes, Contains(Children(p, n), c), leaf \in Below(p, c)
        PROVE  c = ShipTo(p, n, leaf) /\ leaf \in Below(p, n)
    <3>1. Children(p, n) \in Seq(p.nodes)
      BY <1>1 DEF TreeOf, Children
    <3>2. \A d : d \in ToSet(Children(p, n)) <=> d \in p.nodes /\ Contains(Children(p, n), d)
      BY <3>1 DEF ToSet, Contains
    <3>3. ShipTo(p, n, leaf) \in ToSet(Children(p, n)) /\ leaf \in Below(p, ShipTo(p, n, leaf))
      BY <2>9, <3>2, Zenon DEF ShipTo
    <3>4. c = ShipTo(p, n, leaf)
      BY <2>8, <2>9, <3>2, <3>3
    <3>5. leaf \in Subtrees(p)[n]
      BY <1>1, <2>9, BelowParts DEF Children
    <3> QED
      BY <1>1, <3>4, <3>5
  <2>10. ASSUME NEW w \in Nat, Want(n) = w
         PROVE  \E c \in p.nodes : Contains(Children(p, n), c) /\ DueIn(p, x, c) = w + lead
    <3>1. leaf \in Below(p, n)
      BY <2>4, <2>10 DEF Lost
    <3>2. \E c \in p.nodes : Contains(Children(p, n), c) /\ leaf \in Below(p, c)
      <4>1. \A y : y \in Subtrees(p)[n]
              <=> y = n \/ \E c \in p.nodes : Contains(p.children[n], c) /\ y \in Subtrees(p)[c]
        BY <1>1, BelowParts
      <4> QED
        BY <1>1, <2>3, <3>1, <4>1 DEF Children, leaf
    <3>3. PICK c \in p.nodes : Contains(Children(p, n), c) /\ leaf \in Below(p, c)
      BY <3>2
    <3>4. c = ShipTo(p, n, leaf)
      BY <2>9, <3>3
    <3> DEFINE due == ShiftOf(p, c, Want(c))
    <3>5. Want(n) = IF Want(c) <= p.ss[c] \/ due < lead THEN Lost ELSE due - lead
      BY <2>4, <3>1, <3>4, Zenon
    <3>6. ~(Want(c) <= p.ss[c]) /\ w = due - lead
      <4> HIDE DEF due
      <4> QED
        BY <2>10, <3>5 DEF Lost
    <3>7. Want(c) > p.ss[c]
      BY <1>2, <2>2, <3>6 DEF Reckoned, Lost
    <3>8. due \in Nat
      BY <2>2, <3>7, ShiftIsWeek
    <3>9. DueIn(p, x, c) = w + lead
      BY <1>2, <2>6, <3>6, <3>7, <3>8 DEF lead
    <3> QED
      BY <3>3, <3>9
  <2>11. ASSUME NEW w \in Nat, NEW c \in p.nodes, Contains(Children(p, n), c), DueIn(p, x, c) = w + lead
         PROVE  Want(n) = w
    <3>1. lead \in Nat
      BY <1>2 DEF lead
    <3>2. DueIn(p, x, c) # Lost
      BY <2>11, <3>1 DEF Lost
    <3>3. leaf \in Below(p, c) /\ Want(c) > p.ss[c] /\ w + lead = ShiftOf(p, c, Want(c))
      BY <2>7, <2>11, <3>2
    <3>4. c = ShipTo(p, n, leaf) /\ leaf \in Below(p, n)
      BY <2>9, <2>11, <3>3
    <3> DEFINE due == ShiftOf(p, c, Want(c))
    <3>5. Want(n) = IF Want(c) <= p.ss[c] \/ due < lead THEN Lost ELSE due - lead
      BY <2>4, <3>4, Zenon
    <3>6. ~(Want(c) <= p.ss[c])
      BY <1>2, <2>2, <3>3 DEF Reckoned, Lost
    <3> QED
      BY <3>1, <3>3, <3>5, <3>6
  <2> QED
    BY <1>2, <2>1, <2>2, <2>7, <2>8, <2>10, <2>11 DEF lead
<1>4. CASE ~(x \in DOMAIN p.lots /\ IsDemanded(p, x))
  <2>1. \A m : Wanted(p, x, m) = Lost
    BY <1>4, Zenon DEF Wanted, RequestedWeek
  <2>2. \A m \in p.nodes : DueIn(p, x, m) = Lost
    BY <1>2, <2>1 DEF DueIn, Lost
  <2>3. \A w \in Nat : w + p.leadtime[n] # Lost /\ w # Lost
    BY <1>2 DEF Lost
  <2> QED
    BY <1>2, <2>1, <2>2, <2>3 DEF Reckoned
<1> QED
  BY <1>3, <1>4

(* So a lot is due at one child at most.                                   *)
LEMMA OneChildIsDue ==
  ASSUME NEW p \in Products, NEW n \in p.nodes, ~IsLeaf(p, n), p.leadtime[n] # None, NEW x,
         NEW c \in p.nodes, NEW d \in p.nodes,
         Contains(Children(p, n), c), Contains(Children(p, n), d),
         DueIn(p, x, c) # Lost, DueIn(p, x, d) # Lost
  PROVE  c = d
<1>1. \A a, b \in p.nodes :
        /\ Contains(Children(p, n), a) /\ Contains(Children(p, n), b)
        /\ DueIn(p, x, a) # Lost /\ DueIn(p, x, b) # Lost
        => a = b
  BY InnerWants
<1> QED
  BY <1>1

(* A node of the demand layer lists every lot in the week it is wanted, and*)
(* times it in the week it is due.                                         *)
ShipsWanted(p, n, psi) ==
  \A w \in 0 .. Length(p) - 1, x \in Nat :
    Occ(psi[w].S, x) = IF Wanted(p, x, n) = w THEN 1 ELSE 0

ArrivesDue(p, n, psi, times) ==
  \A w \in 0 .. Length(p) - 1, x \in Nat :
    Occ(psi[w].P, x) = IF DueIn(p, x, n) = w THEN times ELSE 0

WantedInPlan(p, n) == \A x \in Nat : Wanted(p, x, n) \in -1 .. Length(p) - 1

IsRouted(p, n, psi, times) ==
  WantedInPlan(p, n) /\ ShipsWanted(p, n, psi) /\ ArrivesDue(p, n, psi, times)

IsFresh(p, psi) == \A w \in 0 .. Length(p) - 1 : psi[w].S = <<>> /\ psi[w].P = <<>>

(* The shift adds every lot once more to the week it is due in.            *)
LEMMA ShiftIsDue ==
  ASSUME NEW p \in Products, NEW n \in p.nodes, NEW psi \in Space(Length(p), Nat),
         NEW times \in Nat, IsRouted(p, n, psi, times)
  PROVE  IsRouted(p, n, shiftS2P_LV(psi, p.ss[n], p.vacation[n]), times + 1)
<1> DEFINE len == Length(p)
           sw == p.ss[n]
           vacation == p.vacation[n]
           new == shiftS2P_LV(psi, sw, vacation)
<1>1. len \in Nat \ {0} /\ sw \in Nat
  BY ProductFacts
<1>2. \A w \in 0 .. len - 1, x \in Nat : Occ(psi[w].S, x) = IF Wanted(p, x, n) = w THEN 1 ELSE 0
  BY DEF IsRouted, ShipsWanted
<1>3. \A w \in 0 .. len - 1, x \in Nat : Occ(psi[w].P, x) = IF DueIn(p, x, n) = w THEN times ELSE 0
  BY DEF IsRouted, ArrivesDue
<1>4. \A x \in Nat : Wanted(p, x, n) \in -1 .. len - 1
  BY DEF IsRouted, WantedInPlan
<1>5. \A x : DueIn(p, x, n) = IF Wanted(p, x, n) > sw
                              THEN Slot(len, check_lv_week_bw(vacation, Wanted(p, x, n) - sw)) ELSE -1
  BY DEF DueIn, ShiftOf, Lost
<1> HIDE DEF len, sw, vacation, new
<1>6. psi \in Space(len, Nat)
  BY DEF len
<1>7. /\ \A w \in 0 .. len - 1 : new[w].S = psi[w].S
      /\ \A w \in 0 .. len - 1 : new[w].P = psi[w].P \o ShiftedTo(psi, sw, vacation, w)
  BY <1>1, <1>6, ShiftAppends DEF new
<1>8. ASSUME NEW v \in 0 .. len - 1, NEW x \in Nat
      PROVE  Occ(new[v].P, x) = IF DueIn(p, x, n) = v THEN times + 1 ELSE 0
  <2> DEFINE to == ShiftedTo(psi, sw, vacation, v)
  <2>1. PICK at \in -1 .. len - 1 : at = Wanted(p, x, n)
    BY <1>4
  <2>2. \A w \in 0 .. len - 1 : w # at => Occ(psi[w].S, x) = 0
    BY <1>2, <2>1
  <2>3. Occ(to, x) = IF at \in sw + 1 .. len - 1 /\ v = Slot(len, check_lv_week_bw(vacation, at - sw))
                     THEN Occ(psi[at].S, x) ELSE 0
    <3>1. PICK l, m, s, b, X, u, y, a :
            l = len /\ m = psi /\ s = sw /\ b = vacation /\ X = Nat /\ u = v /\ y = x /\ a = at
      OBVIOUS
    <3>2. OnlyIn(l, m, "S", y, a)
      BY <2>2, <3>1 DEF OnlyIn
    <3>3. l \in Nat \ {0} /\ s \in Nat
      BY <1>1, <3>1
    <3>4. m \in Space(l, X)
      BY <1>6, <3>1
    <3>5. Occ(ShiftedTo(m, s, b, u), y) = CountShifted(l, m, s, b, u, y, a)
      BY <3>2, <3>3, <3>4, ShiftCounts
    <3> HIDE DEF to
    <3>6. to = ShiftedTo(m, s, b, u)
      BY <3>1 DEF to
    <3>7. Occ(to, x) = CountShifted(len, psi, sw, vacation, v, x, at)
      BY <3>1, <3>5, <3>6
    <3> QED
      BY <3>7 DEF CountShifted
  <2>4. at \in sw + 1 .. len - 1 => Occ(psi[at].S, x) = 1
    BY <1>1, <1>2, <2>1
  <2>5. Occ(to, x) = IF DueIn(p, x, n) = v THEN 1 ELSE 0
    <3> HIDE DEF to
    <3>1. at \in sw + 1 .. len - 1 <=> at > sw
      BY <1>1
    <3> QED
      BY <1>5, <2>1, <2>3, <2>4, <3>1
  <2>6. psi[v].P \in Seq(Nat)
    BY <1>1, <1>6, SpaceParts
  <2>7. to \in Seq(Nat)
    BY <1>1, <1>6, ShiftedLots
  <2> HIDE DEF to
  <2>8. Occ(psi[v].P \o to, x) = Occ(psi[v].P, x) + Occ(to, x)
    BY <2>6, <2>7, JoinCounts
  <2>9. Occ(new[v].P, x) = Occ(psi[v].P, x) + Occ(to, x)
    BY <1>7, <2>8 DEF to
  <2>10. Occ(psi[v].P, x) = IF DueIn(p, x, n) = v THEN times ELSE 0
    BY <1>3
  <2> QED
    BY <2>5, <2>9, <2>10
<1>9. ShipsWanted(p, n, new)
  BY <1>2, <1>7 DEF ShipsWanted, len
<1>10. ArrivesDue(p, n, new, times + 1)
  BY <1>8 DEF ArrivesDue, len
<1> QED
  BY <1>9, <1>10 DEF IsRouted, new, sw, vacation

(* A leaf that is loaded.                                                  *)
LEMMA LeafIsRouted ==
  ASSUME NEW p \in Products, NEW n \in p.nodes, IsLeaf(p, n), NEW psi \in Space(Length(p), Nat),
         IsFresh(p, psi)
  PROVE  IsRouted(p, n, set_S2psi(p, n, psi), 0)
<1> DEFINE len == Length(p)
           places(w) == {lot \in DOMAIN p.lots : p.lots[lot].leaf = n /\ p.lots[lot].week = w}
           s == [w \in 0 .. len - 1 |-> psi[w].S \o Ascending(places(w))]
           new == set_S2psi(p, n, psi)
<1>1. len \in Nat \ {0} /\ \E A : p.lots \in Seq(A)
  BY ProductFacts
<1>2. Len(p.lots) \in Nat /\ DOMAIN p.lots = 1 .. Len(p.lots)
  BY <1>1
<1>3. ASSUME NEW w \in 0 .. len - 1
      PROVE  /\ Ascending(places(w)) \in Seq(Nat)
             /\ \A x : Occ(Ascending(places(w)), x) = IF x \in places(w) THEN 1 ELSE 0
  <2>1. places(w) \in SUBSET (1 .. Len(p.lots)) /\ places(w) \in SUBSET Nat
    BY <1>2
  <2> HIDE DEF places
  <2>2. IsFiniteSet(places(w)) /\ places(w) \in SUBSET Int
    BY <1>2, <2>1, PlacesAreFinite
  <2>3. Ascending(places(w)) \in Seq(places(w))
        /\ \A x : Occ(Ascending(places(w)), x) = IF x \in places(w) THEN 1 ELSE 0
    BY <2>2, AscendingCounts
  <2>4. Seq(places(w)) \subseteq Seq(Nat)
    BY <2>1
  <2> QED
    BY <2>3, <2>4
<1>4. DOMAIN psi = 0 .. len - 1
      /\ \A w \in 0 .. len - 1 : psi[w].S = <<>> /\ psi[w].P = <<>>
  BY <1>1, SpaceParts DEF IsFresh
<1>5. set_S2psi(p, n, psi) = Shipping(psi, s)
  BY <1>4 DEF set_S2psi, Shipping
<1> HIDE DEF len, places, new
<1>6. \A w \in 0 .. len - 1 : s[w] = Ascending(places(w))
  <2>1. ASSUME NEW w \in 0 .. len - 1 PROVE psi[w].S \o Ascending(places(w)) = Ascending(places(w))
    <3>1. PICK list \in Seq(Nat) : list = Ascending(places(w))
      BY <1>3
    <3>2. <<>> \o list = list
      OBVIOUS
    <3> QED
      BY <1>4, <3>1, <3>2
  <2> QED
    BY <2>1
<1>7. s \in [0 .. len - 1 -> Seq(Nat)]
  <2>1. s = [w \in 0 .. len - 1 |-> s[w]]
    OBVIOUS
  <2> HIDE DEF s
  <2> QED
    BY <1>3, <1>6, <2>1
<1> HIDE DEF s
<1>8. \A w \in 0 .. len - 1 : new[w].S = s[w] /\ new[w].P = psi[w].P
  <2>1. psi \in Space(len, Nat)
    BY DEF len
  <2>2. \A w \in 0 .. len - 1 : Shipping(psi, s)[w].S = s[w] /\ Shipping(psi, s)[w].P = psi[w].P
    <3>1. DOMAIN psi = 0 .. len - 1
          /\ \A w \in 0 .. len - 1 : psi[w] = [S |-> psi[w].S, I |-> psi[w].I, P |-> psi[w].P]
      BY <1>1, <2>1, SpaceParts
    <3>2. PICK weeks : weeks = 0 .. len - 1
      OBVIOUS
    <3>3. \A w \in weeks : Shipping(psi, s)[w].S = s[w] /\ Shipping(psi, s)[w].P = psi[w].P
      <4>1. DOMAIN psi = weeks
            /\ \A w \in weeks : psi[w] = [S |-> psi[w].S, I |-> psi[w].I, P |-> psi[w].P]
        BY <3>1, <3>2
      <4> QED
        BY <4>1, ShippedOnly
    <3> QED
      BY <3>2, <3>3
  <2> QED
    BY <1>5, <2>2 DEF new
<1>9. WantedInPlan(p, n)
  BY LeafWants DEF WantedInPlan
<1>10. ShipsWanted(p, n, new)
  <2> SUFFICES ASSUME NEW w \in 0 .. len - 1, NEW x \in Nat
               PROVE  Occ(new[w].S, x) = IF Wanted(p, x, n) = w THEN 1 ELSE 0
    BY DEF ShipsWanted, len
  <2>1. Wanted(p, x, n) = w <=> x \in places(w)
    BY LeafWants DEF places, len
  <2> QED
    BY <1>3, <1>6, <1>8, <2>1
<1>11. ArrivesDue(p, n, new, 0)
  BY <1>4, <1>8, NoneCounts DEF ArrivesDue, len
<1> QED
  BY <1>9, <1>10, <1>11 DEF IsRouted, new

(* Another node, whose children are.                                       *)
LEMMA InnerIsRouted ==
  ASSUME NEW p \in Products, NEW n \in p.nodes, ~IsLeaf(p, n), p.leadtime[n] # None,
         NEW spaces \in [p.nodes -> Space(Length(p), Nat)], IsFresh(p, spaces[n]),
         \A c \in p.nodes : Contains(Children(p, n), c) => IsRouted(p, c, spaces[c], 1)
  PROVE  IsRouted(p, n, get_set_childrenP2S2psi(p, n, spaces), 0)
<1> DEFINE len == Length(p)
           psi == spaces[n]
           c == Children(p, n)
           lead == p.leadtime[n]
           Asked(w, i) == IF w + p.leadtime[n] \in DOMAIN spaces[n]
                          THEN spaces[Children(p, n)[i]][w + p.leadtime[n]].P ELSE <<>>
           lists(w) == [i \in 1 .. Len(Children(p, n)) |-> Asked(w, i)]
           s == [w \in 0 .. len - 1 |-> psi[w].S \o Concat(lists(w))]
           new == get_set_childrenP2S2psi(p, n, spaces)
<1>1. len \in Nat \ {0} /\ c \in Seq(p.nodes) /\ lead \in Nat
  BY ProductFacts, InnerWants
<1>2. ASSUME NEW m \in p.nodes
      PROVE  DOMAIN spaces[m] = 0 .. len - 1
             /\ \A w \in 0 .. len - 1 : spaces[m][w].P \in Seq(Nat)
  <2>1. spaces[m] \in Space(len, Nat)
    OBVIOUS
  <2> HIDE DEF len
  <2> QED
    BY <1>1, <2>1, SpaceParts
<1>3. psi \in Space(len, Nat) /\ \A w \in 0 .. len - 1 : psi[w].S = <<>> /\ psi[w].P = <<>>
  BY DEF IsFresh
<1>4. \A i \in 1 .. Len(c) : c[i] \in p.nodes /\ Contains(c, c[i]) /\ IsRouted(p, c[i], spaces[c[i]], 1)
  BY <1>1 DEF Contains
<1>5. get_set_childrenP2S2psi(p, n, spaces)
          = [w \in DOMAIN psi |-> [psi[w] EXCEPT !.S = psi[w].S \o Concat(lists(w))]]
  BY Zenon DEF get_set_childrenP2S2psi
<1>6. \A w : \A i \in 1 .. Len(c) :
        Asked(w, i) = IF w + lead \in 0 .. len - 1 THEN spaces[c[i]][w + lead].P ELSE <<>>
  BY <1>2
<1> HIDE DEF len, lead
<1>7. ASSUME NEW w \in 0 .. len - 1
      PROVE  /\ Concat(lists(w)) \in Seq(Nat)
             /\ \A x \in Nat : Occ(Concat(lists(w)), x) = IF Wanted(p, x, n) = w THEN 1 ELSE 0
  <2> DEFINE A == Seq(Nat)
             v == w + lead
             l == lists(w)
  <2>1. l \in Seq(A) /\ Len(l) = Len(c) /\ \A i \in 1 .. Len(c) : l[i] = Asked(w, i)
    <3>1. \A i \in 1 .. Len(c) : Asked(w, i) \in A
      <4> SUFFICES ASSUME NEW i \in 1 .. Len(c) PROVE Asked(w, i) \in A
        OBVIOUS
      <4>1. v \in 0 .. len - 1 => spaces[c[i]][v].P \in A
        BY <1>2, <1>4
      <4>2. <<>> \in A
        OBVIOUS
      <4> HIDE DEF A, Asked
      <4> QED
        BY <1>6, <4>1, <4>2
    <3>2. Len(c) \in Nat /\ l = [i \in 1 .. Len(c) |-> Asked(w, i)]
      BY <1>1
    <3> HIDE DEF A, Asked, l, c
    <3> QED
      BY <3>1, <3>2
  <2>2. \A i \in 1 .. Len(c) : l[i] = IF v \in 0 .. len - 1 THEN spaces[c[i]][v].P ELSE <<>>
    BY <1>6, <2>1
  <2> HIDE DEF l, lists, Asked
  <2>3. Concat(l) \in Seq(Nat)
    BY <2>1, ConcatJoins DEF A
  <2>4. ASSUME NEW x \in Nat PROVE Occ(Concat(l), x) = IF Wanted(p, x, n) = w THEN 1 ELSE 0
    <3>1. \A i \in 1 .. Len(c) :
            /\ DueIn(p, x, c[i]) \in -1 .. len - 1
            /\ v \in 0 .. len - 1 => Occ(spaces[c[i]][v].P, x) = IF DueIn(p, x, c[i]) = v THEN 1 ELSE 0
      <4> SUFFICES ASSUME NEW i \in 1 .. Len(c)
                   PROVE  /\ DueIn(p, x, c[i]) \in -1 .. len - 1
                          /\ v \in 0 .. len - 1 =>
                               Occ(spaces[c[i]][v].P, x) = IF DueIn(p, x, c[i]) = v THEN 1 ELSE 0
        OBVIOUS
      <4>1. PICK m \in p.nodes : m = c[i] /\ IsRouted(p, m, spaces[m], 1)
        BY <1>4
      <4>2. Wanted(p, x, m) \in -1 .. len - 1
        BY <4>1 DEF IsRouted, WantedInPlan, len
      <4>3. DueIn(p, x, m) \in -1 .. len - 1
        <5>1. p.ss[m] \in Nat /\ Wanted(p, x, m) \in Reckoned
          BY <1>1, <4>2, ProductFacts DEF Reckoned, Lost
        <5>2. Wanted(p, x, m) > p.ss[m] =>
                ShiftOf(p, m, Wanted(p, x, m)) \in Nat /\ ShiftOf(p, m, Wanted(p, x, m)) < len
          BY <1>1, <4>2, <5>1, ShiftIsWeek DEF len
        <5> QED
          BY <1>1, <5>2 DEF DueIn, Lost
      <4>4. v \in 0 .. len - 1 => Occ(spaces[m][v].P, x) = IF DueIn(p, x, m) = v THEN 1 ELSE 0
        BY <4>1 DEF IsRouted, ArrivesDue, len
      <4> QED
        BY <4>1, <4>3, <4>4
    <3>2. \A i \in 1 .. Len(c) : Occ(l[i], x) = IF DueIn(p, x, c[i]) = v THEN 1 ELSE 0
      <4> SUFFICES ASSUME NEW i \in 1 .. Len(c)
                   PROVE  Occ(l[i], x) = IF DueIn(p, x, c[i]) = v THEN 1 ELSE 0
        OBVIOUS
      <4>1. v \in Nat
        BY <1>1
      <4>2. CASE v \in 0 .. len - 1
        BY <2>2, <3>1, <4>2
      <4>3. CASE v \notin 0 .. len - 1
        <5>1. DueIn(p, x, c[i]) # v
          BY <1>1, <3>1, <4>1, <4>3
        <5> QED
          BY <2>2, <4>3, <5>1, NoneCounts
      <4> QED
        BY <4>2, <4>3
    <3>3. Wanted(p, x, n) = w <=> \E m \in p.nodes : Contains(c, m) /\ DueIn(p, x, m) = v
      BY <1>1, InnerWants DEF lead
    <3>4. \A m : m \in p.nodes /\ Contains(c, m) <=> \E i \in 1 .. Len(c) : c[i] = m
      BY <1>4 DEF Contains
    <3>5. CASE Wanted(p, x, n) = w
      <4>1. PICK i \in 1 .. Len(c) : DueIn(p, x, c[i]) = v
        BY <3>3, <3>4, <3>5
      <4>2. \A j \in 1 .. Len(l) : j # i => Occ(l[j], x) = 0
        <5> SUFFICES ASSUME NEW j \in 1 .. Len(c), j # i PROVE DueIn(p, x, c[j]) # v
          BY <2>1, <3>2
        <5>1. c[i] # c[j]
          <6>1. i \in DOMAIN p.children[n] /\ j \in DOMAIN p.children[n]
            BY <1>1 DEF Children
          <6>2. ListedOnce(p.nodes, p.children)
            BY ProductsAssumption
          <6> QED
            BY <6>1, <6>2 DEF ListedOnce, Children
        <5>2. v # Lost
          BY <1>1 DEF Lost
        <5>3. c[i] \in p.nodes /\ c[j] \in p.nodes /\ Contains(c, c[i]) /\ Contains(c, c[j])
          BY <1>4
        <5>4. \A a, b \in p.nodes :
                Contains(c, a) /\ Contains(c, b) /\ DueIn(p, x, a) # Lost /\ DueIn(p, x, b) # Lost => a = b
          <6> HIDE DEF v
          <6> QED
            BY OneChildIsDue
        <5> HIDE DEF v, c
        <5> QED
          BY <4>1, <5>1, <5>2, <5>3, <5>4
      <4>3. Occ(Concat(l), x) = IF i \in 1 .. Len(l) THEN Occ(l[i], x) ELSE 0
        BY <2>1, <4>2, ConcatCounts DEF A
      <4> QED
        BY <2>1, <3>2, <3>5, <4>1, <4>3
    <3>6. CASE Wanted(p, x, n) # w
      <4>1. \A j \in 1 .. Len(l) : j # 0 => Occ(l[j], x) = 0
        BY <2>1, <3>2, <3>3, <3>4, <3>6
      <4>2. Occ(Concat(l), x) = IF 0 \in 1 .. Len(l) THEN Occ(l[0], x) ELSE 0
        BY <2>1, <4>1, ConcatCounts DEF A
      <4> QED
        BY <3>6, <4>2
    <3> QED
      BY <3>5, <3>6
  <2> QED
    BY <2>3, <2>4 DEF l
<1> HIDE DEF lists, psi, c
<1>8. \A w \in 0 .. len - 1 : s[w] = Concat(lists(w))
  <2>1. ASSUME NEW w \in 0 .. len - 1 PROVE psi[w].S \o Concat(lists(w)) = Concat(lists(w))
    <3>1. PICK list \in Seq(Nat) : list = Concat(lists(w))
      BY <1>7
    <3>2. <<>> \o list = list
      OBVIOUS
    <3> QED
      BY <1>3, <3>1, <3>2
  <2> QED
    BY <2>1
<1>9. s \in [0 .. len - 1 -> Seq(Nat)]
  <2>1. s = [w \in 0 .. len - 1 |-> s[w]]
    OBVIOUS
  <2> HIDE DEF s
  <2> QED
    BY <1>7, <1>8, <2>1
<1>10. get_set_childrenP2S2psi(p, n, spaces) = Shipping(psi, s)
  <2>1. \A w \in 0 .. len - 1 : s[w] = psi[w].S \o Concat(lists(w))
    BY Zenon
  <2>2. DOMAIN psi = 0 .. len - 1
    BY <1>2 DEF psi
  <2> HIDE DEF s
  <2> QED
    BY <1>5, <2>1, <2>2 DEF Shipping
<1> HIDE DEF s, new
<1>11. \A w \in 0 .. len - 1 : new[w].S = s[w] /\ new[w].P = psi[w].P
  BY <1>1, <1>3, <1>9, <1>10, ShipsInstead DEF new
<1>12. ShipsWanted(p, n, new)
  BY <1>7, <1>8, <1>11 DEF ShipsWanted, len
<1>13. ArrivesDue(p, n, new, 0)
  BY <1>3, <1>11, NoneCounts DEF ArrivesDue, len
<1>14. WantedInPlan(p, n)
  <2> SUFFICES ASSUME NEW x \in Nat PROVE Wanted(p, x, n) \in -1 .. len - 1
    BY DEF WantedInPlan, len
  <2>1. Wanted(p, x, n) \in Reckoned
    BY InnerWants
  <2>2. CASE Wanted(p, x, n) \in Nat
    <3>1. PICK m \in p.nodes : Contains(Children(p, n), m) /\ DueIn(p, x, m) = Wanted(p, x, n) + lead
      BY <2>2, InnerWants DEF lead
    <3>2. Wanted(p, x, m) \in -1 .. len - 1
      BY <3>1 DEF IsRouted, WantedInPlan, len
    <3>3. p.ss[m] \in Nat /\ Wanted(p, x, m) \in Reckoned
      BY <1>1, <3>2, ProductFacts DEF Reckoned, Lost
    <3>4. Wanted(p, x, m) > p.ss[m] =>
                ShiftOf(p, m, Wanted(p, x, m)) \in Nat /\ ShiftOf(p, m, Wanted(p, x, m)) < len
      BY <1>1, <3>2, <3>3, ShiftIsWeek DEF len
    <3>5. DueIn(p, x, m) # Lost
      BY <1>1, <2>2, <3>1 DEF Lost
    <3>6. DueIn(p, x, m) < len
      BY <3>4, <3>5 DEF DueIn
    <3> QED
      BY <1>1, <2>2, <3>1, <3>6
  <2> QED
    BY <1>1, <2>1, <2>2 DEF Reckoned, Lost
<1> QED
  BY <1>12, <1>13, <1>14 DEF IsRouted, new

(* While a product is loaded: the nodes still to load are fresh, the other *)
(* ones are routed; no node stands before one below it.                    *)
LoadedSoFar ==
  /\ ~loaded
  /\ todo \in Seq(product.nodes) /\ Pairwise(todo, LowestFirst(product))
  /\ \A n \in product.nodes :
       IF Contains(todo, n) THEN IsFresh(product, psi4demand[n])
       ELSE IsRouted(product, n, psi4demand[n], 1)

(* Once it is loaded, every node is, and its arrivals were derived k times.*)
Routes(k) ==
  /\ Running("load") => LoadedSoFar
  /\ loaded => \A n \in product.nodes : IsRouted(product, n, psi4demand[n], k)

(* Steps that leave the demand layer alone.                                *)
LEMMA RoutesStay ==
  ASSUME NEW k, Routes(k), product' = product, psi4demand' = psi4demand,
         loaded' = loaded, command' # "load" \/ todo' = <<>> \/ UNCHANGED <<command, todo>>
  PROVE  Routes(k)'
<1>1. product' = product /\ psi4demand' = psi4demand /\ loaded' = loaded
  OBVIOUS
<1>2. CASE command' # "load" \/ todo' = <<>>
  BY <1>1, <1>2 DEF Routes, Running
<1>3. CASE command' = command /\ todo' = todo
  BY <1>1, <1>3 DEF Routes, Running, LoadedSoFar
<1> QED
  BY <1>2, <1>3

(* Steps that keep every movement of it.                                   *)
LEMMA RoutedMoves ==
  ASSUME NEW p \in Products, NEW n, NEW a, NEW b, NEW times, SameMoves(a, b, Length(p)),
         IsRouted(p, n, b, times)
  PROVE  IsRouted(p, n, a, times)
<1>1. \A w \in 0 .. Length(p) - 1 : a[w].S = b[w].S /\ a[w].P = b[w].P
  BY DEF SameMoves
<1> QED
  BY <1>1 DEF IsRouted, ShipsWanted, ArrivesDue

(* Loading begins with every node fresh.                                   *)
LEMMA BeginLoadRoutes ==
  ASSUME PlanInv, BeginLoad, NEW k
  PROVE  Routes(k)'
<1>1. product' = product /\ product \in Products /\ todo' = PostOrder(product) /\ loaded' = FALSE
      /\ psi4demand' = NewSpaces(product)
  BY DEF BeginLoad, PlanInv
<1>2. /\ PostOrder(product) \in Seq(product.nodes)
      /\ Pairwise(PostOrder(product), LowestFirst(product))
      /\ \A n \in product.nodes : Contains(PostOrder(product), n)
  BY <1>1, ProductOutline, PostOrderLists
<1>3. \A n \in product.nodes : IsFresh(product, NewSpaces(product)[n])
  <2> SUFFICES ASSUME NEW n \in product.nodes, NEW w \in 0 .. Length(product) - 1
               PROVE  NewSpaces(product)[n][w].S = <<>> /\ NewSpaces(product)[n][w].P = <<>>
    BY DEF IsFresh
  <2>1. NewSpaces(product)[n][w] = EmptyWeek
    BY DEF NewSpaces, EmptyPsi
  <2> QED
    BY <2>1 DEF EmptyWeek
<1>4. LoadedSoFar'
  <2>1. \A n \in product.nodes : Contains(todo', n) /\ IsFresh(product, psi4demand'[n])
    BY <1>1, <1>2, <1>3
  <2> QED
    BY <1>1, <1>2, <2>1 DEF LoadedSoFar
<1> QED
  BY <1>1, <1>4 DEF Routes

(* A node is loaded: none of its children are still to load.               *)
LEMMA LoadNodeRoutes ==
  ASSUME PlanInv, Routes(1), LoadNode
  PROVE  Routes(1)'
<1> DEFINE n == Head(todo)
           p == product
           shipped == IF IsLeaf(p, n) THEN set_S2psi(p, n, psi4demand[n])
                      ELSE get_set_childrenP2S2psi(p, n, psi4demand)
           d == shiftS2P_LV(shipped, p.ss[n], p.vacation[n])
           rest == Tail(todo)
           len == Length(p)
<1>1. /\ p \in Products /\ len \in Nat \ {0} /\ LoadedSoFar /\ todo # <<>>
      /\ product' = product /\ command' = "load" /\ todo' = rest /\ loaded' = (rest = <<>>)
      /\ IsLeaf(p, n) \/ p.leadtime[n] # None
      /\ psi4demand' = [psi4demand EXCEPT ![n] = d]
      /\ psi4demand \in [p.nodes -> Space(len, Nat)]
  BY ProductFacts DEF LoadNode, Running, PlanInv, Routes, Spaces
<1>2. /\ todo \in Seq(p.nodes) /\ n \in p.nodes /\ rest \in Seq(p.nodes)
      /\ \A m : Contains(todo, m) <=> m = n \/ Contains(rest, m)
      /\ \A i \in 1 .. Len(rest) : <<n, rest[i]>> \in LowestFirst(p)
      /\ Pairwise(rest, LowestFirst(p))
  <2>1. PICK list \in Seq(p.nodes) : list = todo /\ list # <<>> /\ Pairwise(list, LowestFirst(p))
    BY <1>1 DEF LoadedSoFar
  <2> DEFINE R == LowestFirst(p)
             t == Tail(list)
  <2>2. /\ Len(list) \in Nat \ {0} /\ Head(list) = list[1] /\ Head(list) \in p.nodes
        /\ t \in Seq(p.nodes) /\ Len(t) = Len(list) - 1
        /\ \A i \in 1 .. Len(t) : i + 1 \in 1 .. Len(list) /\ t[i] = list[i + 1]
    BY <2>1
  <2>3. \A m : Contains(list, m) <=> m = Head(list) \/ Contains(t, m)
    <3> SUFFICES ASSUME NEW m PROVE Contains(list, m) <=> m = Head(list) \/ Contains(t, m)
      OBVIOUS
    <3> HIDE DEF t
    <3>1. ASSUME NEW i \in 1 .. Len(list), i # 1 PROVE i - 1 \in 1 .. Len(t) /\ t[i - 1] = list[i]
      BY <2>2, <3>1
    <3>2. 1 \in 1 .. Len(list)
      BY <2>2
    <3> QED
      BY <2>2, <3>1, <3>2 DEF Contains
  <2> HIDE DEF R, t
  <2>4. \A a, b \in 1 .. Len(list) : a < b => <<list[a], list[b]>> \in R
    BY <2>1 DEF Pairwise, R
  <2>5. \A i \in 1 .. Len(t) : <<Head(list), t[i]>> \in R
    <3> SUFFICES ASSUME NEW i \in 1 .. Len(t) PROVE <<Head(list), t[i]>> \in R
      OBVIOUS
    <3>1. 1 \in 1 .. Len(list) /\ i + 1 \in 1 .. Len(list) /\ 1 < i + 1
      BY <2>2
    <3> QED
      BY <2>2, <2>4, <3>1
  <2>6. Pairwise(t, R)
    <3> SUFFICES ASSUME NEW a \in 1 .. Len(t), NEW b \in 1 .. Len(t), a < b PROVE <<t[a], t[b]>> \in R
      BY DEF Pairwise
    <3>1. a + 1 \in 1 .. Len(list) /\ b + 1 \in 1 .. Len(list) /\ a + 1 < b + 1
      BY <2>2
    <3> QED
      BY <2>2, <2>4, <3>1
  <2> QED
    BY <2>1, <2>2, <2>3, <2>5, <2>6 DEF t, R
<1> HIDE DEF n, rest, d, shipped, len
<1>3. /\ IsLaminar(p.nodes, p.children, Subtrees(p))
      /\ \A m \in p.nodes : m \in Subtrees(p)[m]
  <2>1. IsLaminar(p.nodes, p.children, Subtrees(p))
    BY <1>1, ProductOutline, OutlineIsLaminar
  <2> QED
    BY <2>1 DEF IsLaminar
<1>4. \A m : Contains(rest, m) => m \in p.nodes /\ m \notin Subtrees(p)[n]
  BY <1>2 DEF Contains, LowestFirst
<1>5. ~Contains(rest, n) /\ Contains(todo, n)
  BY <1>2, <1>3, <1>4
<1>6. IsFresh(p, psi4demand[n]) /\ psi4demand[n] \in Space(len, Nat)
  BY <1>1, <1>2, <1>5 DEF LoadedSoFar
<1>7. ASSUME NEW c \in p.nodes, Contains(Children(p, n), c)
      PROVE  IsRouted(p, c, psi4demand[c], 1)
  <2>1. c \in Subtrees(p)[n] /\ n \notin Subtrees(p)[c] /\ c \in Subtrees(p)[c]
    BY <1>2, <1>3, <1>7 DEF IsLaminar, Children
  <2>2. ~Contains(todo, c)
    BY <1>2, <1>4, <2>1
  <2> QED
    BY <1>1, <2>2 DEF LoadedSoFar
<1>8. IsRouted(p, n, shipped, 0) /\ shipped \in Space(len, Nat)
  <2>1. CASE IsLeaf(p, n)
    <3>1. shipped = set_S2psi(p, n, psi4demand[n])
      BY <2>1 DEF shipped
    <3>2. IsRouted(p, n, set_S2psi(p, n, psi4demand[n]), 0)
      BY <1>1, <1>2, <1>6, <2>1, LeafIsRouted DEF len
    <3> QED
      BY <1>1, <1>2, <1>6, <3>1, <3>2, DemandKeeps DEF len
  <2>2. CASE ~IsLeaf(p, n)
    <3>1. shipped = get_set_childrenP2S2psi(p, n, psi4demand)
      BY <2>2 DEF shipped
    <3>2. IsRouted(p, n, get_set_childrenP2S2psi(p, n, psi4demand), 0)
      BY <1>1, <1>2, <1>6, <1>7, <2>2, InnerIsRouted DEF len
    <3> QED
      BY <1>1, <1>2, <1>6, <2>2, <3>1, <3>2, RequestsKeep DEF len
  <2> QED
    BY <2>1, <2>2
<1>9. IsRouted(p, n, d, 1)
  <2>1. IsRouted(p, n, d, 0 + 1)
    BY <1>1, <1>2, <1>8, ShiftIsDue DEF d, len
  <2> QED
    BY <2>1
<1>10. ASSUME NEW m \in p.nodes
       PROVE  IF Contains(rest, m) THEN IsFresh(p, psi4demand'[m])
              ELSE IsRouted(p, m, psi4demand'[m], 1)
  <2>1. psi4demand'[m] = IF m = n THEN d ELSE psi4demand[m]
    BY <1>1
  <2> QED
    BY <1>1, <1>2, <1>5, <1>9, <2>1 DEF LoadedSoFar
<1>11. CASE rest = <<>>
  <2>1. \A m : ~Contains(rest, m)
    BY <1>11 DEF Contains
  <2>2. \A m \in p.nodes : IsRouted(p, m, psi4demand'[m], 1)
    BY <1>10, <2>1
  <2> QED
    BY <1>1, <1>11, <2>2 DEF Routes, Running
<1>12. CASE rest # <<>>
  <2>1. LoadedSoFar'
    BY <1>1, <1>2, <1>10, <1>12 DEF LoadedSoFar
  <2> QED
    BY <1>1, <1>12, <2>1 DEF Routes
<1> QED
  BY <1>11, <1>12

(* A visit of demand planning moves nothing.                               *)
LEMMA DemandNodeRoutes ==
  ASSUME PlanInv, NEW k, Routes(k), DemandNode
  PROVE  Routes(k)'
<1> DEFINE n == Head(todo)
           d == calcPS2I4demand(psi4demand[n])
           len == Length(product)
<1>1. /\ product \in Products /\ len \in Nat \ {0} /\ product' = product
      /\ psi4demand' = [psi4demand EXCEPT ![n] = d] /\ command' = "demand_planning"
      /\ loaded' = loaded /\ psi4demand \in [product.nodes -> Space(len, Nat)]
  BY ProductFacts DEF DemandNode, Running, PlanInv, Spaces
<1>2. ASSUME loaded, NEW m \in product.nodes PROVE IsRouted(product, m, psi4demand'[m], k)
  <2>1. IsRouted(product, m, psi4demand[m], k)
    BY <1>2 DEF Routes
  <2>2. CASE m # n
    BY <1>1, <2>1, <2>2
  <2>3. CASE m = n
    <3>1. psi4demand'[m] = calcPS2I4demand(psi4demand[m]) /\ psi4demand[m] \in Space(len, Nat)
      BY <1>1, <2>3
    <3>2. SameMoves(psi4demand'[m], psi4demand[m], len)
      <4> HIDE DEF len
      <4> QED
        BY <1>1, <3>1, DemandReckoned
    <3> QED
      BY <1>1, <2>1, <3>2, RoutedMoves
  <2> QED
    BY <2>2, <2>3
<1> QED
  BY <1>1, <1>2 DEF Routes, Running

(* Every visit.                                                            *)
LEMMA StepRoutes ==
  ASSUME PlanInv, NEW k, Routes(k), Step, LoadNode => k = 1
  PROVE  Routes(k)'
<1>1. CASE LoadNode
  <2>1. Routes(1)
    BY <1>1
  <2>2. Routes(1)'
    BY <1>1, <2>1, LoadNodeRoutes
  <2> QED
    BY <1>1, <2>2
<1>2. CASE LoadRaises
  BY <1>2, RoutesStay DEF LoadRaises, Raise
<1>3. CASE DemandNode
  BY <1>3, DemandNodeRoutes
<1>4. CASE FeedbackNode
  BY <1>4, RoutesStay DEF FeedbackNode, Running
<1>5. CASE SupplyNode
  BY <1>5, RoutesStay DEF SupplyNode, Running
<1> QED
  BY <1>1, <1>2, <1>3, <1>4, <1>5 DEF Step

(* The buttons of planning.                                                *)
LEMMA BeginRoutes ==
  ASSUME NEW k, Routes(k), BeginDemandPlanning \/ BeginLeveling \/ BeginSupplyPlanning
  PROVE  Routes(k)'
<1>1. product' = product /\ psi4demand' = psi4demand /\ loaded' = loaded /\ command' # "load"
  BY DEF BeginDemandPlanning, BeginLeveling, BeginSupplyPlanning, Begin
<1> QED
  BY <1>1, RoutesStay

(* The weeks in which a lot is shipped late enough to be due.              *)
DueFrom(p, n, psi, lot) == {w \in WeeksOf(psi, "S", lot) : w > p.ss[n]}

(* A routed node lists every lot requested of it once, and no other.       *)
LEMMA RoutedOnce ==
  ASSUME NEW p \in Products, NEW n, NEW psi \in Space(Length(p), Nat), NEW times,
         IsRouted(p, n, psi, times)
  PROVE  /\ Flat(psi, "S") \in Seq(Nat) /\ Distinct(Flat(psi, "S"))
         /\ \A x : Contains(Flat(psi, "S"), x) => Wanted(p, x, n) # Lost
<1> DEFINE len == Length(p)
<1>1. len \in Nat \ {0} /\ psi \in Space(len, Nat)
  BY ProductFacts
<1>2. \A w \in 0 .. len - 1, x \in Nat : Occ(psi[w].S, x) = IF Wanted(p, x, n) = w THEN 1 ELSE 0
  BY DEF IsRouted, ShipsWanted
<1> HIDE DEF len
<1>3. \A w \in 0 .. len - 1 : psi[w].S \in Seq(Nat)
  BY <1>1, SpaceParts
<1>4. ASSUME NEW w \in 0 .. len - 1 PROVE Distinct(psi[w].S)
  <2>1. PICK list \in Seq(Nat) : list = psi[w].S
    BY <1>3
  <2>2. \A x \in Nat : Occ(list, x) <= 1
    BY <1>2, <2>1
  <2> QED
    BY <2>1, <2>2, CountedOnce
<1>5. ASSUME NEW w \in 0 .. len - 1, NEW x, Contains(psi[w].S, x)
      PROVE  x \in Nat /\ Wanted(p, x, n) = w
  <2>1. PICK list \in Seq(Nat) : list = psi[w].S
    BY <1>3
  <2>2. x \in Nat /\ Occ(list, x) # 0
    <3>1. x \in Nat
      BY <1>5, <2>1 DEF Contains
    <3> QED
      BY <1>5, <2>1, <3>1, CountsAre
  <2> QED
    BY <1>2, <2>1, <2>2
<1>6. Distinct(Flat(psi, "S"))
  <2>1. \A v, w \in 0 .. len - 1 : \A x \in Nat :
          Contains(psi[v].S, x) /\ Contains(psi[w].S, x) => v = w
    BY <1>5
  <2> QED
    BY <1>1, <1>4, <2>1, FlatOnce
<1>7. ASSUME NEW x, Contains(Flat(psi, "S"), x) PROVE Wanted(p, x, n) # Lost
  <2>1. PICK w \in 0 .. len - 1 : Contains(psi[w].S, x)
    BY <1>1, <1>7, FlatHas
  <2>2. Wanted(p, x, n) = w
    BY <1>5, <2>1
  <2> QED
    BY <1>1, <2>2 DEF Lost
<1>8. Flat(psi, "S") \in Seq(Nat)
  BY <1>1, FlatLists
<1> QED
  BY <1>6, <1>7, <1>8

(* What a routed node lists, in the words of the properties.               *)
LEMMA RoutedLists ==
  ASSUME NEW p \in Products, NEW n \in p.nodes, NEW psi \in Space(Length(p), Nat), NEW times \in Nat,
         IsRouted(p, n, psi, times)
  PROVE  /\ Once(psi, "S")
         /\ \A lot \in DOMAIN p.lots :
              /\ WeeksOf(psi, "S", lot) = {RequestedWeek(p, lot, n)} \ {Lost}
              /\ Occ(Flat(psi, "P"), lot) = times * Cardinality(DueFrom(p, n, psi, lot))
<1> DEFINE len == Length(p)
           flat == Flat(psi, "S")
<1>1. len \in Nat \ {0} /\ p.ss[n] \in Nat /\ DOMAIN p.lots \subseteq Nat
  BY ProductFacts
<1>2. \A x \in Nat : Wanted(p, x, n) \in -1 .. len - 1
  BY DEF IsRouted, WantedInPlan
<1>3. \A w \in 0 .. len - 1, x \in Nat : Occ(psi[w].S, x) = IF Wanted(p, x, n) = w THEN 1 ELSE 0
  BY DEF IsRouted, ShipsWanted
<1>4. \A w \in 0 .. len - 1, x \in Nat : Occ(psi[w].P, x) = IF DueIn(p, x, n) = w THEN times ELSE 0
  BY DEF IsRouted, ArrivesDue
<1>5. psi \in Space(len, Nat)
  OBVIOUS
<1> HIDE DEF len
<1>6. DOMAIN psi = 0 .. len - 1 /\ \A w \in 0 .. len - 1 : psi[w].S \in Seq(Nat) /\ psi[w].P \in Seq(Nat)
  BY <1>1, <1>5, SpaceParts
<1>7. Once(psi, "S")
  <2>1. flat \in Seq(Nat) /\ Distinct(flat)
    BY RoutedOnce
  <2> HIDE DEF flat
  <2>2. Cardinality(ToSet(flat)) = Len(flat)
    BY <2>1, DistinctMembers
  <2> QED
    BY <2>2 DEF Once, flat
<1>8. ASSUME NEW lot \in DOMAIN p.lots
      PROVE  WeeksOf(psi, "S", lot) = {Wanted(p, lot, n)} \ {Lost}
  <2>1. lot \in Nat
    BY <1>1
  <2>2. \A w \in 0 .. len - 1 : Contains(psi[w].S, lot) <=> Wanted(p, lot, n) = w
    <3> SUFFICES ASSUME NEW w \in 0 .. len - 1
                 PROVE  Contains(psi[w].S, lot) <=> Wanted(p, lot, n) = w
      OBVIOUS
    <3>1. PICK list \in Seq(Nat) : list = psi[w].S
      BY <1>6
    <3>2. Contains(list, lot) <=> Occ(list, lot) # 0
      BY <2>1, CountsAre
    <3>3. Occ(list, lot) = IF Wanted(p, lot, n) = w THEN 1 ELSE 0
      BY <1>3, <2>1, <3>1
    <3> QED
      BY <3>1, <3>2, <3>3
  <2>3. WeeksOf(psi, "S", lot) = {w \in 0 .. len - 1 : Contains(psi[w].S, lot)}
    BY <1>6 DEF WeeksOf
  <2>4. Wanted(p, lot, n) \in -1 .. len - 1
    BY <1>2, <2>1
  <2> QED
    BY <1>1, <2>2, <2>3, <2>4 DEF Lost
<1>9. ASSUME NEW lot \in DOMAIN p.lots
      PROVE  Occ(Flat(psi, "P"), lot) = times * Cardinality(DueFrom(p, n, psi, lot))
  <2>1. lot \in Nat /\ Wanted(p, lot, n) \in -1 .. len - 1
    BY <1>1, <1>2
  <2>2. PICK at : at = DueIn(p, lot, n)
    OBVIOUS
  <2>3. Occ(Flat(psi, "P"), lot) = IF at \in 0 .. len - 1 THEN Occ(psi[at].P, lot) ELSE 0
    <3>1. \A w \in 0 .. len - 1 : w # at => Occ(psi[w].P, lot) = 0
      BY <1>4, <2>1, <2>2
    <3> QED
      <4>1. PICK bucket \in {"S", "P"} : bucket = "P"
        OBVIOUS
      <4>2. PICK X, y : X = Nat /\ y = lot
        OBVIOUS
      <4>3. psi \in Space(len, X) /\ OnlyIn(len, psi, bucket, y, at)
        BY <1>5, <3>1, <4>1, <4>2 DEF OnlyIn
      <4>4. Occ(Flat(psi, bucket), y) = CountIn(len, psi, bucket, y, at)
        BY <1>1, <4>3, FlatCounts
      <4> QED
        BY <4>1, <4>2, <4>4 DEF CountIn
  <2>4. CASE Wanted(p, lot, n) > p.ss[n]
    <3>1. at \in 0 .. len - 1
      <4>1. Wanted(p, lot, n) \in Reckoned
        BY <1>1, <2>1 DEF Reckoned, Lost
      <4>2. ShiftOf(p, n, Wanted(p, lot, n)) \in Nat /\ ShiftOf(p, n, Wanted(p, lot, n)) < len
        BY <1>1, <2>1, <2>4, <4>1, ShiftIsWeek DEF len
      <4> QED
        BY <1>1, <2>2, <2>4, <4>2 DEF DueIn
    <3>2. DueFrom(p, n, psi, lot) = {Wanted(p, lot, n)}
      BY <1>1, <1>8, <2>4 DEF DueFrom, Lost
    <3>3. Cardinality(DueFrom(p, n, psi, lot)) = 1
      BY <3>2, FS_Singleton
    <3>4. Occ(psi[at].P, lot) = times
      BY <1>4, <2>1, <2>2, <3>1
    <3> QED
      BY <2>3, <3>1, <3>3, <3>4
  <2>5. CASE ~(Wanted(p, lot, n) > p.ss[n])
    <3>1. at = Lost
      BY <2>2, <2>5 DEF DueIn
    <3>2. DueFrom(p, n, psi, lot) = {}
      BY <1>8, <2>5 DEF DueFrom
    <3>3. Cardinality(DueFrom(p, n, psi, lot)) = 0
      BY <3>2, FS_EmptySet
    <3> QED
      BY <1>1, <2>3, <3>1, <3>3 DEF Lost
  <2> QED
    BY <2>4, <2>5
<1>10. \A lot \in DOMAIN p.lots : Wanted(p, lot, n) = RequestedWeek(p, lot, n)
  BY DEF Wanted
<1> QED
  BY <1>7, <1>8, <1>9, <1>10

(* The shipments follow the routes, whatever was planned since the load.   *)
LEMMA RoutesFollow ==
  ASSUME PlanInv, NEW k \in Nat, Routes(k)
  PROVE  DemandFollowsRoutes
<1> SUFFICES ASSUME loaded, NEW n \in product.nodes
             PROVE  /\ Once(psi4demand[n], "S")
                    /\ \A lot \in Lots :
                         WeeksOf(psi4demand[n], "S", lot) = {RequestedWeek(product, lot, n)} \ {Lost}
  BY DEF DemandFollowsRoutes
<1>1. product \in Products /\ psi4demand[n] \in Space(Length(product), Nat)
      /\ IsRouted(product, n, psi4demand[n], k)
  BY DEF PlanInv, Spaces, Routes
<1> QED
  BY <1>1, RoutedLists DEF Lots

(* Backward planning moves whole weekly lists from node to node, and yet   *)
(* each lot stands at each node in the week reckoned for this lot alone,   *)
(* once, and nowhere else: for any tree, calendars and lots.               *)
THEOREM DemandIsRouted == Spec => []DemandFollowsRoutes
<1>1. Init => Routes(1)
  BY DEF Init, Routes, Running
<1>2. PlanInv /\ Routes(1) /\ [Next]_vars => Routes(1)'
  <2> SUFFICES ASSUME PlanInv, Routes(1), [Next]_vars PROVE Routes(1)'
    OBVIOUS
  <2>1. CASE BeginLoad
    BY <2>1, BeginLoadRoutes
  <2>2. CASE BeginDemandPlanning \/ BeginLeveling \/ BeginSupplyPlanning
    BY <2>2, BeginRoutes
  <2>3. CASE Step
    BY <2>3, StepRoutes
  <2>4. CASE UNCHANGED vars
    BY <2>4, RoutesStay DEF vars
  <2> QED
    BY <2>1, <2>2, <2>3, <2>4 DEF Next, SessionOver
<1>3. PlanInv /\ Routes(1) => DemandFollowsRoutes
  BY RoutesFollow
<1> QED
  BY <1>1, <1>2, <1>3, PlanInvariance, PTL DEF Spec

(* The window: arrivals are derived when the product is loaded, once, and  *)
(* with every pass of engine (1) after that.                               *)
WindowRoutes ==
  /\ passes \in Nat \ {0}
  /\ ~loaded => passes = 1
  /\ stages # <<>> => loaded
  /\ Routes(passes)

(* Steps that derive nothing anew.                                         *)
LEMMA PassesStay ==
  ASSUME WindowRoutes, \A k : Routes(k) => Routes(k)', passes' = passes,
         ~loaded' => ~loaded, stages' # <<>> => loaded'
  PROVE  WindowRoutes'
<1>1. PICK k : k = passes
  OBVIOUS
<1>2. Routes(k)'
  BY <1>1 DEF WindowRoutes
<1>3. Routes(passes)'
  BY <1>1, <1>2 DEF Routes
<1> QED
  BY <1>3 DEF WindowRoutes

(* Engine (1): every node's arrivals once more.                            *)
LEMMA PassRoutes ==
  ASSUME PlanInv, WindowRoutes, loaded, outbound_backward_leaf_to_MOM,
         command' # "load" \/ todo' = <<>>
  PROVE  WindowRoutes'
<1>1. /\ product' = product /\ product \in Products /\ loaded' = loaded /\ passes' = passes + 1
      /\ psi4demand' = [n \in product.nodes |->
                          shiftS2P_LV(psi4demand[n], product.ss[n], product.vacation[n])]
      /\ psi4demand \in [product.nodes -> Space(Length(product), Nat)]
  BY DEF outbound_backward_leaf_to_MOM, NoMorePlanning, PlanInv, Spaces
<1>2. passes \in Nat \ {0} /\ passes' \in Nat \ {0}
  BY <1>1 DEF WindowRoutes
<1>3. ASSUME NEW n \in product.nodes
      PROVE  IsRouted(product, n, psi4demand'[n], passes')
  <2>1. IsRouted(product, n, psi4demand[n], passes)
    BY DEF WindowRoutes, Routes
  <2>2. PICK times \in Nat : times = passes
    BY <1>2
  <2>3. IsRouted(product, n, shiftS2P_LV(psi4demand[n], product.ss[n], product.vacation[n]), times + 1)
    BY <1>1, <2>1, <2>2, ShiftIsDue
  <2> QED
    BY <1>1, <2>2, <2>3
<1>4. Routes(passes)'
  BY <1>1, <1>3 DEF Routes, Running
<1> QED
  BY <1>1, <1>2, <1>4 DEF WindowRoutes

(* The engine buttons.                                                     *)
LEMMA ButtonRoutes ==
  ASSUME PlanInv, WindowRoutes, EngineButton
  PROVE  WindowRoutes'
<1>1. loaded /\ UNCHANGED sequence /\ stages' = stages
  BY DEF EngineButton, Press, sequence
<1>2. CASE Press("engine") /\ outbound_backward_leaf_to_MOM
  <2>1. command' = "engine"
    BY <1>2 DEF Press, Begin
  <2> QED
    BY <1>1, <1>2, <2>1, PassRoutes
<1>3. CASE \/ Press("engine") /\ (RaisesAtOnce \/ connect_outbound2inbound \/ inbound_forward_leaf_to_MOM)
           \/ Press("supply_planning") /\ push_pull
  <2>1. /\ product' = product /\ psi4demand' = psi4demand /\ loaded' = loaded /\ passes' = passes
        /\ command' # "load"
    BY <1>3 DEF Press, Begin, RaisesAtOnce, connect_outbound2inbound, inbound_forward_leaf_to_MOM,
         push_pull, NoMorePlanning
  <2>2. \A k : Routes(k) => Routes(k)'
    BY <2>1, RoutesStay
  <2> QED
    BY <1>1, <2>1, <2>2, PassesStay
<1> QED
  BY <1>2, <1>3 DEF EngineButton

(* Every step of the window.                                               *)
LEMMA WindowStepRoutes ==
  ASSUME WindowInv, WindowRoutes, [WindowNext]_windowVars
  PROVE  WindowRoutes'
<1>0. WindowInv /\ PlanInv /\ IInv /\ Busy /\ WindowRoutes
  BY DEF WindowInv
<1>1. CASE Load
  <2>1. BeginLoad /\ ~loaded /\ passes' = passes /\ stages' = stages /\ stages = <<>>
    BY <1>1 DEF Load, Free, sequence
  <2>2. \A k : Routes(k) => Routes(k)'
    BY <1>0, <2>1, BeginLoadRoutes
  <2> QED
    BY <2>1, <2>2, PassesStay
<1>2. CASE EngineButton
  BY <1>0, <1>2, ButtonRoutes
<1>3. CASE PlanningButton
  <2>1. /\ BeginDemandPlanning \/ BeginLeveling \/ BeginSupplyPlanning
        /\ passes' = passes /\ stages' = stages /\ stages = <<>> /\ loaded' = loaded
    BY <1>3 DEF PlanningButton, Free, sequence, BeginDemandPlanning, BeginLeveling, BeginSupplyPlanning
  <2>2. \A k : Routes(k) => Routes(k)'
    BY <2>1, BeginRoutes
  <2> QED
    BY <2>1, <2>2, PassesStay
<1>4. CASE SelectProduct \/ Save \/ SaveRaises \/ UNCHANGED windowVars
  <2>1. UNCHANGED vars /\ passes' = passes /\ (stages' = stages \/ stages' = <<>>)
    BY <1>4 DEF SelectProduct, Save, SaveRaises, windowVars, sequence
  <2>2. /\ product' = product /\ psi4demand' = psi4demand /\ loaded' = loaded
        /\ command' = command /\ todo' = todo
    BY <2>1 DEF vars
  <2>3. \A k : Routes(k) => Routes(k)'
    BY <2>2, RoutesStay
  <2>4. stages' # <<>> => loaded'
    BY <2>1, <2>2 DEF WindowRoutes
  <2> QED
    BY <2>1, <2>2, <2>3, <2>4, PassesStay
<1>5. CASE RunSequence
  <2>1. /\ product' = product /\ psi4demand' = psi4demand /\ loaded' = loaded /\ loaded
        /\ command' = "engine" /\ passes' = passes
    BY <1>5 DEF RunSequence, Begin
  <2>2. \A k : Routes(k) => Routes(k)'
    BY <2>1, RoutesStay
  <2> QED
    BY <2>1, <2>2, PassesStay
<1>6. CASE Visit
  <2>1. Step /\ passes' = passes /\ stages' = stages /\ stages = <<>>
    BY <1>0, <1>6, VisitFacts DEF Visit, sequence
  <2>2. LoadNode => ~loaded
    BY DEF LoadNode, WindowRoutes, Routes, LoadedSoFar
  <2>3. loaded' = loaded \/ LoadNode
    BY <2>1 DEF Step, LoadRaises, DemandNode, FeedbackNode, SupplyNode
  <2>4. LoadNode => passes = 1
    BY <2>2 DEF WindowRoutes
  <2>5. PICK k : k = passes /\ Routes(k)
    BY DEF WindowRoutes
  <2>6. Routes(k)'
    BY <1>0, <2>1, <2>4, <2>5, StepRoutes
  <2>7. Routes(passes)'
    BY <2>1, <2>5, <2>6 DEF Routes
  <2> QED
    BY <2>1, <2>2, <2>3, <2>7 DEF WindowRoutes
<1>7. CASE NextStage
  <2>1. loaded /\ command' = "engine"
    BY <1>0, <1>7 DEF NextStage, WindowRoutes, Busy
  <2>2. CASE outbound_backward_leaf_to_MOM
    BY <1>0, <2>1, <2>2, PassRoutes
  <2>3. CASE RaisesAtOnce
    <3>1. product' = product /\ psi4demand' = psi4demand /\ loaded' = loaded /\ passes' = passes
      BY <2>3 DEF RaisesAtOnce, NoMorePlanning
    <3>2. \A k : Routes(k) => Routes(k)'
      BY <2>1, <3>1, RoutesStay
    <3> QED
      BY <2>1, <3>1, <3>2, PassesStay
  <2> QED
    BY <1>0, <1>7, <2>2, <2>3, NextStageRuns
<1> QED
  BY <1>1, <1>2, <1>3, <1>4, <1>5, <1>6, <1>7 DEF WindowNext, Handler, WindowOver

(* The window's buttons too leave the demand layer as reckoned for each    *)
(* lot alone, for the passes counted since the demand was loaded.          *)
THEOREM WindowRoutesInvariance == WindowSpec => []WindowRoutes
<1>1. WindowInit => WindowRoutes
  BY DEF WindowInit, Init, WindowRoutes, Routes, Running
<1>2. WindowInv /\ WindowRoutes /\ [WindowNext]_windowVars => WindowRoutes'
  BY WindowStepRoutes
<1> QED
  BY <1>1, <1>2, WindowInvariance, PTL DEF WindowSpec

(* In the window as well each lot stands at each node in the week reckoned *)
(* for it alone, however the engines' stages, the sequences and the        *)
(* planning buttons were mixed.                                            *)
THEOREM WindowFollowsRoutes == WindowSpec => []DemandFollowsRoutes
<1>1. WindowInv /\ WindowRoutes => DemandFollowsRoutes
  <2> SUFFICES ASSUME WindowInv, WindowRoutes PROVE DemandFollowsRoutes
    OBVIOUS
  <2>1. PICK k \in Nat : k = passes /\ Routes(k)
    BY DEF WindowRoutes
  <2> QED
    BY <2>1, RoutesFollow DEF WindowInv
<1> QED
  BY <1>1, WindowInvariance, WindowRoutesInvariance, PTL

(* Stage (1) does not clear what arrives: every node lists each lot that   *)
(* it ships late enough once for each pass since the demand was loaded.    *)
THEOREM ArrivalsCounted == WindowSpec => []ArrivalsCountPasses
<1>1. WindowInv /\ WindowRoutes => ArrivalsCountPasses
  <2> SUFFICES ASSUME WindowInv, WindowRoutes, loaded, NEW n \in product.nodes, NEW lot \in Lots
               PROVE  Occurrences(psi4demand[n], "P", lot) =
                        passes * Cardinality({w \in WeeksOf(psi4demand[n], "S", lot) : w > product.ss[n]})
    BY DEF ArrivalsCountPasses
  <2>1. /\ product \in Products /\ psi4demand[n] \in Space(Length(product), Nat)
        /\ passes \in Nat /\ IsRouted(product, n, psi4demand[n], passes)
    BY DEF WindowInv, PlanInv, Spaces, WindowRoutes, Routes
  <2>2. PICK times \in Nat : times = passes
    BY <2>1
  <2>3. \A x \in DOMAIN product.lots :
          Occ(Flat(psi4demand[n], "P"), x) = times * Cardinality(DueFrom(product, n, psi4demand[n], x))
    BY <2>1, <2>2, RoutedLists
  <2>4. Occurrences(psi4demand[n], "P", lot) = Occ(Flat(psi4demand[n], "P"), lot)
    BY DEF Occurrences, Occ
  <2> QED
    BY <2>2, <2>3, <2>4 DEF Lots, DueFrom
<1> QED
  BY <1>1, WindowInvariance, WindowRoutesInvariance, PTL

-----------------------------------------------------------------------------
(* Leveling: the root ships what is requested of it, in order and at rate. *)

(* The first week leveling ships in is a week of the plan.                 *)
LEMMA LevelingFits ==
  ASSUME NEW p \in Products
  PROVE  p.weeks[1] - PreProdWeeks < Length(p)
<1>1. SlotsPerYear \in Nat /\ PreProdWeeks \in 1 .. SlotsPerYear - 2
  BY SlotsAssumption
<1>2. p.weeks \in Seq({SlotsPerYear - 1, SlotsPerYear}) /\ Len(p.weeks) > 1
  BY ProductsAssumption
<1>3. PICK k \in Nat : k = Len(p.weeks) - 1 /\ k >= 1
  BY <1>2
<1>4. p.weeks[1] \in {SlotsPerYear - 1, SlotsPerYear}
  BY <1>2
<1>5. Length(p) = SlotsPerYear * k
  BY <1>3 DEF Length
<1>6. SlotsPerYear * k >= SlotsPerYear
  BY <1>1, <1>3
<1> QED
  BY <1>1, <1>4, <1>5, <1>6

(* The planned years found in the ids of a product's lots.                 *)
YearsOf(p) == [lot \in DOMAIN p.lots |-> p.lots[lot].years]

HasYear(p, x) == \E y \in 1 .. Len(p.weeks) : y \in YearsOf(p)[x]

(* A lot wanted of a node in a week of the plan has a planned year.        *)
LEMMA WantedHasYear ==
  ASSUME NEW p \in Products, NEW x, NEW n, Wanted(p, x, n) # Lost
  PROVE  x \in DOMAIN p.lots /\ HasYear(p, x)
<1>1. x \in DOMAIN p.lots /\ RequestedWeek(p, x, n) # Lost
  BY DEF Wanted
<1>2. IsDemanded(p, x)
  BY <1>1, Zenon DEF RequestedWeek
<1>3. p.lots[x].week \in 0 .. Length(p) - 1
  BY <1>2 DEF IsDemanded
<1>4. PICK y \in 1 .. Len(p.weeks) : y \in p.lots[x].years
  BY <1>1, <1>3, YearsAssumption
<1>5. YearsOf(p)[x] = p.lots[x].years
  BY <1>1 DEF YearsOf
<1> QED
  BY <1>1, <1>4, <1>5 DEF HasYear

(* What leveling promises of the root's supply, given what is requested.   *)
LeveledFor(p, lots, psi) ==
  /\ ShipsInOrder(psi, lots) /\ ShipsAllThatFit(psi, lots)
  /\ ShipsAtRate(psi, lots, p.weeks, YearsOf(p), p.weeks[1] - PreProdWeeks)

(* The leveled root keeps the promise.                                     *)
LEMMA RootShips ==
  ASSUME NEW p \in Products, NEW demand \in Space(Length(p), Nat), NEW supply \in Space(Length(p), Nat),
         NEW lots, lots = Flat(demand, "S"), \A i \in 1 .. Len(lots) : HasYear(p, lots[i])
  PROVE  LeveledFor(p, lots, LeveledRoot(p, demand, supply))
<1> DEFINE len == Length(p)
           weeks == p.weeks
           years == YearsOf(p)
           first == p.weeks[1] - PreProdWeeks
           shipped == demand_leveling_on_ship(demand, supply, weeks, years, PreProdWeeks)
           shifted == shiftS2P_LV_replace(shipped, p.ss[p.root], p.vacation[p.root])
           new == LeveledRoot(p, demand, supply)
<1>1. /\ len \in Nat \ {0} /\ weeks \in Seq(Nat \ {0}) /\ weeks # <<>>
      /\ PreProdWeeks \in Nat /\ PreProdWeeks <= weeks[1] /\ p.ss[p.root] \in Nat
      /\ weeks[1] - PreProdWeeks < len
  BY ProductFacts, LevelingFits DEF TreeOf
<1>2. \A i \in 1 .. Len(lots) : \E y \in 1 .. Len(weeks) : y \in years[lots[i]]
  BY DEF HasYear
<1>3. new = calcPS2I4supply(shifted)
  BY DEF LeveledRoot, YearsOf
<1>4. LeveledFor(p, lots, new) <=>
        ShipsInOrder(new, lots) /\ ShipsAllThatFit(new, lots) /\ ShipsAtRate(new, lots, weeks, years, first)
  BY DEF LeveledFor
<1>5. demand \in Space(len, Nat) /\ supply \in Space(len, Nat)
  OBVIOUS
<1> HIDE DEF len, weeks, years, new
<1>6. PICK X, s : X = Nat /\ s = shipped
  OBVIOUS
<1>7. /\ s \in Space(len, X) /\ ShipsInOrder(s, lots) /\ ShipsAllThatFit(s, lots)
      /\ ShipsAtRate(s, lots, weeks, years, weeks[1] - PreProdWeeks)
  BY <1>1, <1>2, <1>5, <1>6, YardIsLeveled
<1>8. weeks[1] - PreProdWeeks = first
  BY DEF weeks
<1> HIDE DEF shipped, shifted, first
<1>9. shifted = shiftS2P_LV_replace(s, p.ss[p.root], p.vacation[p.root])
  BY <1>6 DEF shifted
<1>10. shifted \in Space(len, X) /\ \A w \in 0 .. len - 1 : shifted[w].S = s[w].S
  BY <1>1, <1>7, <1>9, ReplaceKeeps
<1>11. new \in Space(len, X) /\ SameMoves(new, shifted, len)
  BY <1>1, <1>3, <1>10, SupplyReckoned
<1>12. SameShipments(new, s, len)
  BY <1>10, <1>11 DEF SameShipments, SameMoves
<1>13. ShipsInOrder(new, lots) /\ ShipsAllThatFit(new, lots) /\ ShipsAtRate(new, lots, weeks, years, first)
  BY <1>1, <1>7, <1>8, <1>11, <1>12, ShipsTheSame
<1> QED
  BY <1>4, <1>13 DEF new

(* After leveling has begun, and while its walk passes shipments down.     *)
Leveled ==
  command = "demand_leveling" /\ loaded =>
    LeveledFor(product, Flat(psi4demand[product.root], "S"), psi4supply[product.root])

(* In the words of the property.                                           *)
LEMMA LeveledKeeps ==
  ASSUME PlanInv, Leveled
  PROVE  LevelingKeepsOrderAndRate
<1> SUFFICES ASSUME command = "demand_leveling", loaded
             PROVE  LET requested == Flat(psi4demand[product.root], "S")
                        supply  == psi4supply[product.root]
                        leveled == Flat(supply, "S")
                        years   == [lot \in Lots |-> product.lots[lot].years]
                        Rate(y) == Ceil(year_lots(requested, years, y), product.weeks[y])
                    IN  /\ IsPrefix(leveled, requested)
                        /\ leveled # requested => supply[Length(product) - 1].S # <<>>
                        /\ \A w \in DOMAIN supply :
                             supply[w].S # <<>> =>
                               /\ w >= product.weeks[1] - PreProdWeeks
                               /\ \E y \in 1 .. Len(product.weeks) : Len(supply[w].S) <= Rate(y)
  BY Zenon DEF LevelingKeepsOrderAndRate
<1> DEFINE requested == Flat(psi4demand[product.root], "S")
           supply == psi4supply[product.root]
<1>1. product \in Products /\ supply \in Space(Length(product), Nat) /\ Length(product) \in Nat \ {0}
  BY ProductFacts DEF PlanInv, Spaces, TreeOf
<1>2. Weeks(supply) = Length(product)
  BY <1>1, SpaceParts
<1>3. YearsOf(product) = [lot \in Lots |-> product.lots[lot].years]
  BY DEF YearsOf, Lots
<1>4. LeveledFor(product, requested, supply)
  BY DEF Leveled
<1> HIDE DEF requested, supply
<1>5. IsPrefix(Flat(supply, "S"), requested)
  BY <1>4 DEF LeveledFor, ShipsInOrder
<1>6. Flat(supply, "S") # requested => supply[Length(product) - 1].S # <<>>
  BY <1>2, <1>4 DEF LeveledFor, ShipsAllThatFit
<1>7. \A w \in DOMAIN supply :
        supply[w].S # <<>> =>
          /\ w >= product.weeks[1] - PreProdWeeks
          /\ \E y \in 1 .. Len(product.weeks) :
               Len(supply[w].S) <= Ceil(year_lots(requested, YearsOf(product), y), product.weeks[y])
  BY <1>4 DEF LeveledFor, ShipsAtRate
<1> QED
  BY <1>3, <1>5, <1>6, <1>7 DEF requested, supply

(* Leveling begins: every lot requested of the root has a planned year.    *)
LEMMA BeginLevelingLevels ==
  ASSUME PlanInv, NEW k, Routes(k), BeginLeveling
  PROVE  Leveled'
<1> DEFINE n == product.root
           demand == psi4demand[n]
           supply == psi4supply[n]
           len == Length(product)
<1>1. /\ product \in Products /\ n \in product.nodes
      /\ demand \in Space(len, Nat) /\ supply \in Space(len, Nat)
      /\ psi4supply \in [product.nodes -> Spaces]
  BY ProductFacts DEF PlanInv, Spaces, TreeOf
<1>2. /\ product' = product /\ psi4demand' = psi4demand /\ loaded
      /\ psi4supply' = [psi4supply EXCEPT ![n] = LeveledRoot(product, demand, supply)]
  BY DEF BeginLeveling
<1>3. IsRouted(product, n, demand, k)
  BY <1>1, <1>2 DEF Routes
<1>4. PICK lots : lots = Flat(demand, "S")
  OBVIOUS
<1>5. \A i \in 1 .. Len(lots) : HasYear(product, lots[i])
  <2>1. lots \in Seq(Nat) /\ \A x : Contains(lots, x) => Wanted(product, x, n) # Lost
    BY <1>1, <1>3, <1>4, RoutedOnce
  <2>2. \A i \in 1 .. Len(lots) : Contains(lots, lots[i])
    BY DEF Contains
  <2> QED
    BY <1>1, <2>1, <2>2, WantedHasYear
<1>6. LeveledFor(product, lots, LeveledRoot(product, demand, supply))
  BY <1>1, <1>4, <1>5, RootShips
<1>7. psi4supply'[n] = LeveledRoot(product, demand, supply)
  BY <1>1, <1>2
<1>8. LeveledFor(product, Flat(psi4demand[n], "S"), psi4supply'[n])
  BY <1>4, <1>6, <1>7
<1> QED
  BY <1>2, <1>8 DEF Leveled

(* The root is no node's child, so that what it ships stays.               *)
LEMMA RootIsNoChild ==
  ASSUME NEW p \in Products, NEW n \in p.nodes
  PROVE  ~Contains(Children(p, n), p.root)
<1>1. TreeOf(p.nodes, p.root, p.children) /\ ListedOnce(p.nodes, p.children)
  BY ProductOutline DEF IsOutline
<1> QED
  BY <1>1, OneParentEach DEF Children

(* Passing shipments down leaves the root's as they are.                   *)
LEMMA FeedbackNodeLevels ==
  ASSUME PlanInv, Leveled, FeedbackNode
  PROVE  Leveled'
<1> DEFINE n == Head(todo)
<1>1. /\ command = "demand_leveling" /\ product' = product /\ psi4demand' = psi4demand
      /\ loaded' = loaded
  BY DEF FeedbackNode, Running
<1>2. product \in Products /\ product.root \in product.nodes /\ n \in product.nodes
  <2>1. todo # <<>> /\ todo \in Seq(product.nodes) /\ product \in Products
    BY <1>1 DEF FeedbackNode, Running, PlanInv, Walks
  <2> QED
    BY <2>1, ProductOutline
<1>3. ~Contains(Children(product, n), product.root)
  BY <1>2, RootIsNoChild
<1>4. psi4supply'[product.root] = psi4supply[product.root]
  <2>1. CASE IsLeaf(product, n)
    BY <2>1 DEF FeedbackNode
  <2>2. CASE ~IsLeaf(product, n)
    <3> DEFINE placed == Placed(product, n, Shipments(psi4supply[n]))
               new(m) == Replaced(psi4supply[m], Received(product, n, m, placed))
    <3>1. psi4supply' = [m \in product.nodes |->
                           IF Contains(Children(product, n), m) THEN new(m) ELSE psi4supply[m]]
      BY <2>2 DEF FeedbackNode
    <3> HIDE DEF new
    <3> QED
      BY <1>2, <1>3, <3>1
  <2> QED
    BY <2>1, <2>2
<1> QED
  BY <1>1, <1>4 DEF Leveled

(* In any session, on any tree and for any years: from a leveling on, the  *)
(* root ships the lots requested of it in the order of the requests, from  *)
(* the first week of leveling on and never more in a week than a year's    *)
(* average; lots stay behind only if the plan is full to its last week.    *)
THEOREM ShipmentsAreLeveled == Spec => []LevelingKeepsOrderAndRate
<1>1. Init => Routes(1) /\ Leveled
  BY DEF Init, Routes, Running, Leveled
<1>2. PlanInv /\ Routes(1) /\ Leveled /\ [Next]_vars => Routes(1)' /\ Leveled'
  <2> SUFFICES ASSUME PlanInv, Routes(1), Leveled, [Next]_vars PROVE Routes(1)' /\ Leveled'
    OBVIOUS
  <2>1. CASE BeginLoad
    BY <2>1, BeginLoadRoutes DEF BeginLoad, Begin, Leveled
  <2>2. CASE BeginDemandPlanning \/ BeginSupplyPlanning
    BY <2>2, BeginRoutes DEF BeginDemandPlanning, BeginSupplyPlanning, Begin, Leveled
  <2>3. CASE BeginLeveling
    BY <2>3, BeginRoutes, BeginLevelingLevels
  <2>4. CASE LoadNode \/ LoadRaises \/ DemandNode \/ SupplyNode
    <3>1. Routes(1)'
      BY <2>4, StepRoutes DEF Step
    <3>2. command' # "demand_leveling"
      BY <2>4 DEF LoadNode, LoadRaises, DemandNode, SupplyNode, Running
    <3> QED
      BY <3>1, <3>2 DEF Leveled
  <2>5. CASE FeedbackNode
    BY <2>5, StepRoutes, FeedbackNodeLevels DEF Step, FeedbackNode, Running, LoadNode
  <2>6. CASE UNCHANGED vars
    BY <2>6, RoutesStay DEF vars, Leveled
  <2> QED
    BY <2>1, <2>2, <2>3, <2>4, <2>5, <2>6 DEF Next, Step, SessionOver
<1>3. PlanInv /\ Leveled => LevelingKeepsOrderAndRate
  BY LeveledKeeps
<1> QED
  BY <1>1, <1>2, <1>3, PlanInvariance, PTL DEF Spec

-----------------------------------------------------------------------------
(* Passing shipments down: each lot comes to the child on the way to its   *)
(* leaf.                                                                   *)

(* A list of shipments is that of a PSI space: every lot it ships, with    *)
(* the week, and none else.                                                *)
ListsShipments(s, psi, len) ==
  /\ \A i \in 1 .. Len(s) : s[i].week \in 0 .. len - 1
  /\ \A w \in 0 .. len - 1, x \in Nat :
       Contains(psi[w].S, x) <=> \E i \in 1 .. Len(s) : s[i].lot = x /\ s[i].week = w

LotOf == [shipment \in Shipment |-> shipment.lot]

(* What a node ships, by lots: in the order of all lots shipped.           *)
LEMMA ShipmentsAre ==
  ASSUME NEW len \in Nat \ {0}, NEW psi \in Space(len, Nat)
  PROVE  /\ ListsShipments(Shipments(psi), psi, len)
         /\ ReadsAs(Flat(psi, "S"), Shipments(psi), LotOf)
<1> DEFINE Of(k) == [i \in DOMAIN psi[k - 1].S |-> [lot |-> psi[k - 1].S[i], week |-> k - 1]]
           lists == [k \in 1 .. len |-> Of(k)]
           lots == [k \in 1 .. len |-> psi[k - 1].S]
           A == Seq(Shipment)
           B == Seq(Nat)
           all == Shipments(psi)
<1>1. Weeks(psi) = len /\ \A w \in 0 .. len - 1 : psi[w].S \in Seq(Nat)
  BY SpaceParts
<1>2. ASSUME NEW k \in 1 .. len
      PROVE  /\ Of(k) \in A /\ psi[k - 1].S \in B /\ k - 1 \in 0 .. len - 1
             /\ Len(Of(k)) = Len(psi[k - 1].S)
             /\ \A i \in 1 .. Len(psi[k - 1].S) : Of(k)[i].lot = psi[k - 1].S[i] /\ Of(k)[i].week = k - 1
             /\ ReadsAs(psi[k - 1].S, Of(k), LotOf)
  <2>1. PICK s \in Seq(Nat), w \in Nat : s = psi[k - 1].S /\ w = k - 1
    BY <1>1
  <2>2. Of(k) = [i \in 1 .. Len(s) |-> [lot |-> s[i], week |-> w]]
    BY <2>1
  <2> DEFINE R(i) == [lot |-> s[i], week |-> w]
  <2>3. \A i \in 1 .. Len(s) : R(i) \in Shipment /\ R(i).lot = s[i] /\ R(i).week = w /\ LotOf[R(i)] = s[i]
    BY DEF Shipment, LotOf
  <2>4. Len(s) \in Nat
    OBVIOUS
  <2> HIDE DEF R, A
  <2>5. PICK t : t = [i \in 1 .. Len(s) |-> R(i)]
    OBVIOUS
  <2>6. t \in Seq(Shipment) /\ Len(t) = Len(s) /\ \A i \in 1 .. Len(s) : t[i] = R(i)
    BY <2>3, <2>4, <2>5
  <2>7. Of(k) = t
    BY <2>2, <2>5 DEF R
  <2> HIDE DEF Of
  <2>8. ReadsAs(s, t, LotOf)
    BY <2>3, <2>6 DEF ReadsAs
  <2>9. k - 1 \in 0 .. len - 1 /\ s \in B
    OBVIOUS
  <2> QED
    BY <2>1, <2>3, <2>6, <2>7, <2>8, <2>9 DEF A
<1>3. all = Concat(lists) /\ Flat(psi, "S") = Concat(lots)
  BY <1>1 DEF Shipments, Flat
<1> HIDE DEF A, B, Of, all
<1>4. /\ lists \in Seq(A) /\ Len(lists) = len /\ \A k \in 1 .. len : lists[k] = Of(k)
      /\ lots \in Seq(B) /\ Len(lots) = len /\ \A k \in 1 .. len : lots[k] = psi[k - 1].S
  <2>1. lists \in Seq(A) /\ Len(lists) = len /\ \A k \in 1 .. len : lists[k] = Of(k)
    BY <1>2
  <2> DEFINE S(k) == psi[k - 1].S
  <2>2. \A k \in 1 .. len : S(k) \in B
    BY <1>2
  <2> HIDE DEF S
  <2>3. PICK t : t = [k \in 1 .. len |-> S(k)]
    OBVIOUS
  <2>4. t \in Seq(B) /\ Len(t) = len /\ \A k \in 1 .. len : t[k] = S(k)
    BY <2>2, <2>3
  <2>5. t = lots
    BY <2>3 DEF S
  <2> HIDE DEF lists, lots
  <2> QED
    BY <2>1, <2>4, <2>5 DEF S
<1> HIDE DEF lists, lots
<1>5. ReadsAs(Concat(lots), Concat(lists), LotOf)
  <2>1. \A k \in 1 .. Len(lists) : ReadsAs(lots[k], lists[k], LotOf)
    BY <1>2, <1>4
  <2> QED
    BY <1>4, <2>1, ConcatReads DEF A, B
<1>6. Concat(lists) \in Seq(Shipment)
      /\ \A x : Contains(Concat(lists), x) <=> \E k \in 1 .. len : Contains(lists[k], x)
  BY <1>4, ConcatJoins DEF A
<1>7. \A x : Contains(all, x) <=> \E k \in 1 .. len : Contains(Of(k), x)
  BY <1>3, <1>4, <1>6
<1>8. ASSUME NEW i \in 1 .. Len(all)
      PROVE  all[i].week \in 0 .. len - 1 /\ Contains(psi[all[i].week].S, all[i].lot)
  <2>1. PICK k \in 1 .. len : Contains(Of(k), all[i])
    <3>1. Contains(all, all[i])
      BY DEF Contains
    <3> QED
      BY <1>7, <3>1
  <2>2. PICK j \in 1 .. Len(psi[k - 1].S) : Of(k)[j] = all[i]
    BY <1>2, <2>1 DEF Contains
  <2>3. all[i].week = k - 1 /\ all[i].lot = psi[k - 1].S[j]
    BY <1>2, <2>2
  <2> QED
    BY <1>2, <2>3 DEF Contains
<1>9. ASSUME NEW w \in 0 .. len - 1, NEW x, Contains(psi[w].S, x)
      PROVE  \E i \in 1 .. Len(all) : all[i].lot = x /\ all[i].week = w
  <2>1. w + 1 \in 1 .. len /\ (w + 1) - 1 = w
    OBVIOUS
  <2>2. PICK k \in 1 .. len : k - 1 = w
    BY <2>1
  <2>3. PICK j \in 1 .. Len(psi[k - 1].S) : psi[k - 1].S[j] = x
    BY <1>9, <2>2 DEF Contains
  <2>4. Of(k)[j].lot = x /\ Of(k)[j].week = w /\ Contains(Of(k), Of(k)[j])
    BY <1>2, <2>2, <2>3 DEF Contains
  <2>5. Contains(all, Of(k)[j])
    BY <1>7, <2>4
  <2> QED
    BY <2>4, <2>5 DEF Contains
<1>10. ListsShipments(all, psi, len)
  BY <1>8, <1>9 DEF ListsShipments
<1> QED
  BY <1>3, <1>5, <1>10 DEF all

(* Shipments are listed by what is shipped alone.                          *)
LEMMA ShipmentsSame ==
  ASSUME NEW len \in Nat \ {0}, NEW a \in Space(len, Nat), NEW b \in Space(len, Nat),
         SameShipments(a, b, len)
  PROVE  Shipments(a) = Shipments(b) /\ Flat(a, "S") = Flat(b, "S")
<1>1. Weeks(a) = len /\ Weeks(b) = len
  BY SpaceParts
<1>2. \A k \in 1 .. len : k - 1 \in 0 .. len - 1 /\ a[k - 1].S = b[k - 1].S
  BY DEF SameShipments
<1> DEFINE Of(psi, k) == [i \in DOMAIN psi[k - 1].S |-> [lot |-> psi[k - 1].S[i], week |-> k - 1]]
<1>3. \A k \in 1 .. len : Of(a, k) = Of(b, k)
  BY <1>2
<1>4. Shipments(a) = Concat([k \in 1 .. len |-> Of(a, k)])
      /\ Shipments(b) = Concat([k \in 1 .. len |-> Of(b, k)])
  BY <1>1 DEF Shipments
<1> HIDE DEF Of
<1>5. [k \in 1 .. len |-> Of(a, k)] = [k \in 1 .. len |-> Of(b, k)]
  BY <1>3
<1> QED
  BY <1>4, <1>5, ShipsTheSame

(* What a child receives in a week, of a list of shipments.                *)
ReceivesIn(list, p, n, c, s, w) ==
  \A x : Contains(list, x) <=>
           \E i \in 1 .. Len(s) : s[i].lot = x /\ Receiver(p, n, s[i].lot) = c /\ Arrival(p, n, s[i]) = w

(* That is what the model makes a child receive, each lot once if no lot  *)
(* is shipped twice.                                                       *)
LEMMA ReceivedAre ==
  ASSUME NEW p \in Products, NEW n, NEW c, NEW s \in Seq(Shipment), NEW w \in 0 .. Length(p) - 1
  PROVE  /\ Received(p, n, c, s)[w] \in Seq(Nat)
         /\ ReceivesIn(Received(p, n, c, s)[w], p, n, c, s, w)
         /\ (\A i, j \in 1 .. Len(s) : s[i].lot = s[j].lot => i = j)
              => Distinct(Received(p, n, c, s)[w])
<1> DEFINE at == {i \in DOMAIN s : Receiver(p, n, s[i].lot) = c /\ Arrival(p, n, s[i]) = w}
           here == Picked(s, at)
           lots == [i \in DOMAIN here |-> here[i].lot]
<1>1. Received(p, n, c, s)[w] = lots
  BY Zenon DEF Received
<1>2. at \in SUBSET (1 .. Len(s))
      /\ \A i : i \in at <=> i \in 1 .. Len(s) /\ Receiver(p, n, s[i].lot) = c /\ Arrival(p, n, s[i]) = w
  OBVIOUS
<1> HIDE DEF at
<1>3. here \in Seq(Shipment) /\ IsPicked(here, s, at, Ascending(at))
      /\ \A x : Contains(here, x) <=> \E i \in at : s[i] = x
  BY <1>2, PickedInOrder, PickedHas
<1>4. PICK order : IsPicked(here, s, at, order)
  BY <1>3
<1> HIDE DEF here
<1>5. lots \in Seq(Nat) /\ Len(lots) = Len(here) /\ \A i \in 1 .. Len(here) : lots[i] = here[i].lot
  <2>1. PICK t \in Seq(Shipment) : t = here
    BY <1>3
  <2>2. \A i \in 1 .. Len(t) : t[i].lot \in Nat
    <3>1. \A i \in 1 .. Len(t) : t[i] \in Shipment
      OBVIOUS
    <3> QED
      BY <3>1 DEF Shipment
  <2>3. [i \in 1 .. Len(t) |-> t[i].lot] \in Seq(Nat)
    BY <2>2
  <2>4. lots = [i \in 1 .. Len(t) |-> t[i].lot]
    BY <2>1
  <2> QED
    BY <2>1, <2>3, <2>4
<1> HIDE DEF lots
<1>6. ASSUME NEW x
      PROVE  Contains(lots, x) <=> \E i \in at : s[i].lot = x
  <2>1. ASSUME Contains(lots, x) PROVE \E i \in at : s[i].lot = x
    <3>1. PICK k \in 1 .. Len(here) : here[k].lot = x
      BY <1>5, <2>1 DEF Contains
    <3>2. Contains(here, here[k])
      BY DEF Contains
    <3> QED
      BY <1>3, <3>1, <3>2
  <2>2. ASSUME NEW i \in at, s[i].lot = x PROVE Contains(lots, x)
    <3>1. Contains(here, s[i])
      BY <1>3
    <3>2. PICK k \in 1 .. Len(here) : here[k] = s[i]
      BY <3>1 DEF Contains
    <3> QED
      BY <1>5, <2>2, <3>2 DEF Contains
  <2> QED
    BY <2>1, <2>2
<1>7. ReceivesIn(lots, p, n, c, s, w)
  BY <1>2, <1>6 DEF ReceivesIn
<1>8. ASSUME \A i, j \in 1 .. Len(s) : s[i].lot = s[j].lot => i = j
      PROVE  Distinct(lots)
  <2> SUFFICES ASSUME NEW a \in 1 .. Len(here), NEW b \in 1 .. Len(here), here[a].lot = here[b].lot
               PROVE  a = b
    BY <1>5 DEF Distinct
  <2>1. /\ order[a] \in at /\ order[b] \in at /\ here[a] = s[order[a]] /\ here[b] = s[order[b]]
        /\ order[a] = order[b] => a = b
    BY <1>4 DEF IsPicked, IsListing
  <2> QED
    BY <1>2, <1>8, <2>1
<1> QED
  BY <1>1, <1>5, <1>7, <1>8

(* A lot that is on the way to its leaf at a node.                         *)
OnItsWay(p, n, x) ==
  /\ x \in DOMAIN p.lots
  /\ p.lots[x].leaf \in p.nodes /\ IsLeaf(p, p.lots[x].leaf) /\ p.lots[x].leaf \in Below(p, n)

(* A node that ships such lots only, and each once.                        *)
CarriesOwn(p, n, psi) ==
  /\ Distinct(Flat(psi, "S"))
  /\ \A x : Contains(Flat(psi, "S"), x) => OnItsWay(p, n, x)

(* One child of a node is on the way to a leaf below it.                   *)
LEMMA OneChildOnTheWay ==
  ASSUME NEW p \in Products, NEW n \in p.nodes, ~IsLeaf(p, n), NEW x, OnItsWay(p, n, x)
  PROVE  LET to == ShipTo(p, n, p.lots[x].leaf)
         IN  /\ to \in p.nodes /\ Contains(Children(p, n), to)
             /\ \A c \in p.nodes : Contains(Children(p, n), c) =>
                  (p.lots[x].leaf \in Below(p, c) <=> c = to)
<1> DEFINE leaf == p.lots[x].leaf
           to == ShipTo(p, n, leaf)
           B == Subtrees(p)
<1>1. /\ TreeOf(p.nodes, p.root, p.children) /\ IsBelow(B, p.nodes, p.children)
      /\ IsLaminar(p.nodes, p.children, B) /\ \A m : Below(p, m) = B[m]
  BY ProductOutline, OutlineIsLaminar DEF IsOutline
<1>2. leaf \in p.nodes /\ leaf \in B[n] /\ leaf # n
  BY <1>1 DEF OnItsWay
<1> HIDE DEF leaf, B
<1>3. \E c \in p.nodes : Contains(p.children[n], c) /\ leaf \in B[c]
  BY <1>1, <1>2, BelowParts
<1>4. \A c : c \in ToSet(p.children[n]) <=> c \in p.nodes /\ Contains(p.children[n], c)
  <2>1. p.children[n] \in Seq(p.nodes)
    BY <1>1 DEF TreeOf
  <2> QED
    BY <2>1 DEF ToSet, Contains
<1>5. to \in ToSet(p.children[n]) /\ leaf \in Below(p, to)
  <2>1. \E c \in ToSet(p.children[n]) : leaf \in Below(p, c)
    BY <1>1, <1>3, <1>4
  <2> QED
    BY <2>1, Zenon DEF ShipTo, Children
<1>6. to \in p.nodes /\ Contains(p.children[n], to) /\ leaf \in B[to]
  BY <1>1, <1>4, <1>5
<1> HIDE DEF to
<1>7. ASSUME NEW c \in p.nodes, Contains(p.children[n], c), leaf \in B[c] PROVE c = to
  <2>1. c \in B[to] \/ to \in B[c]
    BY <1>1, <1>2, <1>6, <1>7 DEF IsLaminar
  <2>2. /\ n \notin B[c] /\ (c \in B[to] => c = to \/ n \in B[to])
        /\ n \notin B[to] /\ (to \in B[c] => to = c \/ n \in B[c])
    BY <1>1, <1>6, <1>7 DEF IsLaminar
  <2> QED
    BY <2>1, <2>2
<1> QED
  BY <1>1, <1>6, <1>7 DEF to, leaf, Children

(* All of a list of shipments can be shipped.                              *)
ShipsAll(p, n, s) == \A i \in 1 .. Len(s) : CanShip(p, n, s[i])

(* If all of it was placed, no shipment failed.                            *)
LEMMA AllPlaced ==
  ASSUME NEW p, NEW n, NEW s \in Seq(Shipment), Placed(p, n, s) = s
  PROVE  ShipsAll(p, n, s)
<1> DEFINE places == {i \in DOMAIN s : \A j \in 1 .. i : CanShip(p, n, s[j])}
<1>1. Placed(p, n, s) = Picked(s, places)
  BY DEF Placed
<1>2. places \in SUBSET (1 .. Len(s))
  OBVIOUS
<1>3. places = 1 .. Len(s)
  <2> HIDE DEF places
  <2> QED
    BY <1>1, <1>2, PickedAll
<1> SUFFICES ASSUME NEW i \in 1 .. Len(s) PROVE CanShip(p, n, s[i])
  BY DEF ShipsAll
<1>4. i \in places
  BY <1>3
<1>5. i \in 1 .. i
  OBVIOUS
<1> QED
  BY <1>4, <1>5

(* What is shipped: to the child on the way to the leaf, at a time in the  *)
(* plan and at work, at least the lead time later.                         *)
LEMMA OneShipment ==
  ASSUME NamesTell, NEW p \in Products, NEW n \in p.nodes, ~IsLeaf(p, n), NEW shipment \in Shipment,
         CanShip(p, n, shipment), OnItsWay(p, n, shipment.lot)
  PROVE  LET c == ShipTo(p, n, p.lots[shipment.lot].leaf)
         IN  /\ Receiver(p, n, shipment.lot) = c
             /\ Arrival(p, n, shipment) \in 0 .. Length(p) - 1
             /\ Arrival(p, n, shipment) \notin p.vacation[c]
             /\ Arrival(p, n, shipment) >= shipment.week + p.leadtime[c]
<1> DEFINE lot == shipment.lot
           c == ShipTo(p, n, p.lots[lot].leaf)
           week == shipment.week + p.leadtime[c]
<1>1. lot \in DOMAIN p.lots /\ p.lots[lot].names \in p.nodes
  BY DEF CanShip, OnItsWay
<1>2. p.lots[lot].names = p.lots[lot].leaf
  BY <1>1 DEF NamesTell
<1>3. Receiver(p, n, lot) = c
  BY <1>2 DEF Receiver
<1>4. c \in p.nodes
  BY OneChildOnTheWay
<1> HIDE DEF c, lot
<1>5. Arrival(p, n, shipment) = check_lv_week_fw(p.vacation[c], week)
  BY <1>3, Zenon DEF Arrival, lot
<1>6. p.leadtime[c] # None /\ Arrival(p, n, shipment) < Length(p)
  BY <1>3 DEF CanShip, lot
<1>7. p.leadtime[c] \in Nat /\ p.vacation[c] \in SUBSET Nat /\ IsFiniteSet(p.vacation[c])
  BY <1>4, <1>6, ProductsAssumption
<1>8. week \in Nat
  BY <1>7 DEF Shipment
<1> HIDE DEF week
<1>9. Arrival(p, n, shipment) \in Nat /\ Arrival(p, n, shipment) >= week
      /\ Arrival(p, n, shipment) \notin p.vacation[c]
  BY <1>5, <1>7, <1>8, WeekAtWorkFrom
<1>10. Length(p) \in Nat
  BY ProductFacts
<1> QED
  BY <1>3, <1>6, <1>9, <1>10 DEF week, c, lot

(* A child that ships and receives what it is sent.                        *)
SentTo(p, n, c, s, psi) ==
  \A w \in 0 .. Length(p) - 1 :
    psi[w].S = Received(p, n, c, s)[w] /\ psi[w].P = Received(p, n, c, s)[w]

(* The property, of a node and a child.                                    *)
ReachesLeaf(p, n, c, psi, child) ==
  \A lot \in DOMAIN p.lots :
    LET ships   == WeeksOf(psi, "S", lot)
        arrives == WeeksOf(child, "P", lot)
    IN  /\ arrives # {} <=> ships # {} /\ p.lots[lot].leaf \in Below(p, c)
        /\ Cardinality(arrives) <= 1
        /\ \A w \in arrives :
             /\ w \notin p.vacation[c]
             /\ \A v \in ships : w >= v + p.leadtime[c]

(* A node that carries its own makes its children carry theirs.            *)
LEMMA HandsDown ==
  ASSUME NamesTell, NEW p \in Products, NEW n \in p.nodes, NEW c \in p.nodes, Contains(Children(p, n), c),
         NEW psi \in Space(Length(p), Nat), CarriesOwn(p, n, psi),
         NEW s, s = Shipments(psi), ShipsAll(p, n, s),
         NEW child \in Space(Length(p), Nat), SentTo(p, n, c, s, child)
  PROVE  CarriesOwn(p, c, child) /\ ReachesLeaf(p, n, c, psi, child)
<1> DEFINE len == Length(p)
           To(x) == ShipTo(p, n, p.lots[x].leaf)
           Comes(i) == Arrival(p, n, s[i])
<1>1. len \in Nat \ {0} /\ ~IsLeaf(p, n) /\ DOMAIN p.lots \subseteq Nat
      /\ psi \in Space(len, Nat) /\ child \in Space(len, Nat)
  <2>1. len \in Nat \ {0} /\ \E A : p.lots \in Seq(A)
    BY ProductFacts
  <2>2. DOMAIN p.lots \subseteq Nat
    BY <2>1
  <2>3. ~IsLeaf(p, n)
    BY DEF IsLeaf, Contains
  <2> QED
    BY <2>1, <2>2, <2>3
<1>2. s \in Seq(Shipment) /\ ListsShipments(s, psi, len) /\ ReadsAs(Flat(psi, "S"), s, LotOf)
  BY <1>1, ShipmentsListed, ShipmentsAre
<1>3. ASSUME NEW i \in 1 .. Len(s)
      PROVE  /\ s[i] \in Shipment /\ s[i].lot \in Nat /\ s[i].week \in Nat
             /\ Flat(psi, "S")[i] = s[i].lot /\ Contains(Flat(psi, "S"), s[i].lot)
             /\ OnItsWay(p, n, s[i].lot)
  <2>1. s[i] \in Shipment
    BY <1>2
  <2>2. s[i].lot \in Nat /\ s[i].week \in Nat /\ LotOf[s[i]] = s[i].lot
    BY <2>1 DEF Shipment, LotOf
  <2>3. Flat(psi, "S")[i] = s[i].lot /\ i \in 1 .. Len(Flat(psi, "S"))
    BY <1>2, <2>2 DEF ReadsAs
  <2>4. Contains(Flat(psi, "S"), s[i].lot)
    BY <2>3 DEF Contains
  <2> QED
    BY <2>1, <2>2, <2>3, <2>4 DEF CarriesOwn
<1>4. \A i, j \in 1 .. Len(s) : s[i].lot = s[j].lot => i = j
  BY <1>2, <1>3 DEF CarriesOwn, Distinct, ReadsAs
<1>5. ASSUME NEW i \in 1 .. Len(s)
      PROVE  /\ Receiver(p, n, s[i].lot) = To(s[i].lot)
             /\ Comes(i) \in 0 .. len - 1
             /\ Comes(i) \notin p.vacation[To(s[i].lot)]
             /\ Comes(i) >= s[i].week + p.leadtime[To(s[i].lot)]
             /\ p.lots[s[i].lot].leaf \in Below(p, c) <=> c = To(s[i].lot)
  <2>1. s[i] \in Shipment /\ CanShip(p, n, s[i]) /\ OnItsWay(p, n, s[i].lot)
    BY <1>3 DEF ShipsAll
  <2>2. PICK shipment : shipment = s[i]
    OBVIOUS
  <2> QED
    BY <1>1, <2>1, <2>2, OneShipment, OneChildOnTheWay
<1>6. ASSUME NEW w \in 0 .. len - 1
      PROVE  /\ child[w].S \in Seq(Nat) /\ Distinct(child[w].S) /\ child[w].P = child[w].S
             /\ \A x : Contains(child[w].S, x) <=>
                         \E i \in 1 .. Len(s) : s[i].lot = x /\ To(x) = c /\ Comes(i) = w
  <2>1. child[w].S = Received(p, n, c, s)[w] /\ child[w].P = Received(p, n, c, s)[w]
    BY DEF SentTo
  <2>2. ReceivesIn(child[w].S, p, n, c, s, w) /\ child[w].S \in Seq(Nat) /\ Distinct(child[w].S)
    <3>1. PICK got : got = Received(p, n, c, s)[w]
      OBVIOUS
    <3>2. /\ got \in Seq(Nat) /\ ReceivesIn(got, p, n, c, s, w)
          /\ (\A i, j \in 1 .. Len(s) : s[i].lot = s[j].lot => i = j) => Distinct(got)
      BY <1>2, <3>1, ReceivedAre
    <3>3. Distinct(got)
      BY <1>4, <3>2
    <3> QED
      BY <2>1, <3>1, <3>2, <3>3
  <2>3. ASSUME NEW x
        PROVE  Contains(child[w].S, x) <=>
                 \E i \in 1 .. Len(s) : s[i].lot = x /\ To(x) = c /\ Comes(i) = w
    <3>1. Contains(child[w].S, x) <=>
            \E i \in 1 .. Len(s) : s[i].lot = x /\ Receiver(p, n, s[i].lot) = c /\ Comes(i) = w
      BY <2>2 DEF ReceivesIn
    <3> HIDE DEF To, Comes
    <3> QED
      BY <1>5, <3>1
  <2> QED
    BY <2>1, <2>2, <2>3
<1> HIDE DEF len, To, Comes
<1>7. Distinct(Flat(child, "S"))
  <2>1. \A v, w \in 0 .. len - 1 : \A x \in Nat :
          Contains(child[v].S, x) /\ Contains(child[w].S, x) => v = w
    <3> SUFFICES ASSUME NEW v \in 0 .. len - 1, NEW w \in 0 .. len - 1, NEW x,
                        Contains(child[v].S, x), Contains(child[w].S, x)
                 PROVE  v = w
      OBVIOUS
    <3>1. PICK i \in 1 .. Len(s) : s[i].lot = x /\ Comes(i) = v
      BY <1>6
    <3>2. PICK j \in 1 .. Len(s) : s[j].lot = x /\ Comes(j) = w
      BY <1>6
    <3>3. i = j
      BY <1>4, <3>1, <3>2
    <3> QED
      BY <3>1, <3>2, <3>3
  <2> QED
    BY <1>1, <1>6, <2>1, FlatOnce
<1>8. ASSUME NEW x, Contains(Flat(child, "S"), x) PROVE OnItsWay(p, c, x)
  <2>1. PICK w \in 0 .. len - 1 : Contains(child[w].S, x)
    BY <1>1, <1>8, FlatHas
  <2>2. PICK i \in 1 .. Len(s) : s[i].lot = x /\ To(x) = c
    BY <1>6, <2>1
  <2>3. OnItsWay(p, n, x) /\ p.lots[x].leaf \in Below(p, c)
    BY <1>3, <1>5, <2>2
  <2> QED
    BY <2>3 DEF OnItsWay
<1>9. DOMAIN psi = 0 .. len - 1 /\ DOMAIN child = 0 .. len - 1
  BY <1>1, SpaceParts
<1>10. ASSUME NEW lot \in DOMAIN p.lots
       PROVE  LET ships   == WeeksOf(psi, "S", lot)
                  arrives == WeeksOf(child, "P", lot)
              IN  /\ arrives # {} <=> ships # {} /\ p.lots[lot].leaf \in Below(p, c)
                  /\ Cardinality(arrives) <= 1
                  /\ \A w \in arrives :
                       /\ w \notin p.vacation[c]
                       /\ \A v \in ships : w >= v + p.leadtime[c]
  <2> DEFINE ships == WeeksOf(psi, "S", lot)
             arrives == WeeksOf(child, "P", lot)
  <2>1. ships = {w \in 0 .. len - 1 : \E i \in 1 .. Len(s) : s[i].lot = lot /\ s[i].week = w}
    <3>1. lot \in Nat
      <4>1. p.lots \in Seq({p.lots[i] : i \in DOMAIN p.lots})
        BY ProductsAssumption
      <4> QED
        BY <4>1
    <3>2. \A w \in 0 .. len - 1 :
            Contains(psi[w].S, lot) <=> \E i \in 1 .. Len(s) : s[i].lot = lot /\ s[i].week = w
      BY <1>2, <3>1 DEF ListsShipments
    <3>3. ships = {w \in 0 .. len - 1 : Contains(psi[w].S, lot)}
      BY <1>9, Zenon DEF WeeksOf
    <3> QED
      BY <3>2, <3>3
  <2>2. arrives = {w \in 0 .. len - 1 :
                     \E i \in 1 .. Len(s) : s[i].lot = lot /\ To(lot) = c /\ Comes(i) = w}
    BY <1>6, <1>9 DEF WeeksOf
  <2> HIDE DEF ships, arrives
  <2>3. CASE \E i \in 1 .. Len(s) : s[i].lot = lot
    <3>1. PICK i \in 1 .. Len(s) : s[i].lot = lot
      BY <2>3
    <3>2. \A j \in 1 .. Len(s) : s[j].lot = lot => j = i
      BY <1>4, <3>1
    <3>3. s[i].week \in 0 .. len - 1
      BY <1>2 DEF ListsShipments
    <3>4. ships = {s[i].week}
      BY <2>1, <3>1, <3>2, <3>3
    <3>5. CASE To(lot) = c
      <4>1. arrives = {Comes(i)}
        BY <1>5, <2>2, <3>1, <3>2, <3>5
      <4>2. Cardinality(arrives) = 1
        BY <4>1, FS_Singleton
      <4>3. p.lots[lot].leaf \in Below(p, c) /\ Comes(i) \notin p.vacation[c]
            /\ Comes(i) >= s[i].week + p.leadtime[c]
        BY <1>5, <3>1, <3>5
      <4>4. \A w \in arrives : w \notin p.vacation[c] /\ \A v \in ships : w >= v + p.leadtime[c]
        BY <3>4, <4>1, <4>3
      <4>5. Cardinality(arrives) <= 1 /\ arrives # {} /\ ships # {}
        BY <3>4, <4>1, <4>2
      <4> QED
        BY <4>3, <4>4, <4>5 DEF ships, arrives
    <3>6. CASE To(lot) # c
      <4>1. arrives = {}
        BY <2>2, <3>6
      <4>2. Cardinality(arrives) = 0
        BY <4>1, FS_EmptySet
      <4>3. p.lots[lot].leaf \notin Below(p, c)
        BY <1>5, <3>1, <3>6
      <4> QED
        BY <4>1, <4>2, <4>3 DEF ships, arrives
    <3> QED
      BY <3>5, <3>6
  <2>4. CASE ~\E i \in 1 .. Len(s) : s[i].lot = lot
    <3>1. ships = {} /\ arrives = {}
      BY <2>1, <2>2, <2>4
    <3>2. Cardinality(arrives) = 0
      BY <3>1, FS_EmptySet
    <3> QED
      BY <3>1, <3>2 DEF ships, arrives
  <2> QED
    BY <2>3, <2>4
<1> QED
  BY <1>7, <1>8, <1>10 DEF CarriesOwn, ReachesLeaf

(* A node whose shipments its children have received and will ship on.     *)
Handed(layer, m) ==
  \A c \in product.nodes : Contains(Children(product, m), c) =>
    /\ ShipsAll(product, m, Shipments(layer[m]))
    /\ SentTo(product, m, c, Shipments(layer[m]), layer[c])

(* The parents of what is visited, or is next, are visited.                *)
Upward(V, rest) ==
  \A m, c \in product.nodes :
    Contains(Children(product, m), c) /\ (c \in V \/ Contains(rest, c)) => m \in V

(* The walk has passed down what the nodes of V ship; they and the next    *)
(* ones carry lots of leaves below them, each once.                        *)
PassedDown(V, layer, rest) ==
  /\ Passed(V, rest) /\ Upward(V, rest)
  /\ \A m \in V : CarriesOwn(product, m, layer[m]) /\ Handed(layer, m)
  /\ \A m \in product.nodes : Contains(rest, m) => CarriesOwn(product, m, layer[m])

HandsOn(layer, rest) == \E V \in SUBSET product.nodes : PassedDown(V, layer, rest)

(* Passing down has come as far as the walk has.                           *)
HandInv ==
  command = "demand_leveling" /\ loaded /\ ~raised => HandsOn(psi4supply, todo)

(* The same shipments are of the same lots.                                *)
LEMMA CarriesTheSame ==
  ASSUME NEW p \in Products, NEW n, NEW a \in Space(Length(p), Nat), NEW b \in Space(Length(p), Nat),
         SameShipments(a, b, Length(p))
  PROVE  Shipments(a) = Shipments(b) /\ (CarriesOwn(p, n, b) => CarriesOwn(p, n, a))
<1>1. Length(p) \in Nat \ {0}
  BY ProductFacts
<1>2. Shipments(a) = Shipments(b) /\ Flat(a, "S") = Flat(b, "S")
  BY <1>1, ShipmentsSame
<1> QED
  BY <1>2 DEF CarriesOwn

(* The requested root's lots are on their way, and so are those it ships   *)
(* once it is leveled.                                                     *)
LEMMA RootCarriesOwn ==
  ASSUME NEW p \in Products, NEW demand \in Space(Length(p), Nat), NEW k,
         IsRouted(p, p.root, demand, k), NEW psi \in Space(Length(p), Nat),
         ShipsInOrder(psi, Flat(demand, "S"))
  PROVE  CarriesOwn(p, p.root, psi)
<1>1. /\ Flat(demand, "S") \in Seq(Nat) /\ Distinct(Flat(demand, "S"))
      /\ \A x : Contains(Flat(demand, "S"), x) => Wanted(p, x, p.root) # Lost
  BY RoutedOnce
<1>2. Length(p) \in Nat \ {0}
  BY ProductFacts
<1>3. Flat(psi, "S") \in Seq(Nat)
  BY <1>2, FlatLists
<1>4. Distinct(Flat(psi, "S")) /\ \A x : Contains(Flat(psi, "S"), x) => Contains(Flat(demand, "S"), x)
  BY <1>1, <1>3, PrefixKeeps DEF ShipsInOrder
<1>5. ASSUME NEW x, Wanted(p, x, p.root) # Lost PROVE OnItsWay(p, p.root, x)
  <2>1. x \in DOMAIN p.lots /\ RequestedWeek(p, x, p.root) # Lost
    BY <1>5 DEF Wanted
  <2>2. IsDemanded(p, x)
    BY <2>1, Zenon DEF RequestedWeek
  <2>3. Below(p, p.root) = p.nodes
    BY ProductOutline, OutlineIsLaminar
  <2> QED
    BY <2>1, <2>2, <2>3 DEF IsDemanded, OnItsWay
<1> QED
  BY <1>1, <1>4, <1>5 DEF CarriesOwn

(* Leveling begins its walk at the root.                                   *)
LEMMA BeginLevelingHands ==
  ASSUME PlanInv, NEW k, Routes(k), BeginLeveling
  PROVE  HandInv'
<1> DEFINE n == product.root
<1>1. /\ product' = product /\ psi4demand' = psi4demand /\ todo' = <<product.root>>
      /\ loaded /\ loaded' = loaded /\ command' = "demand_leveling"
  BY DEF BeginLeveling, Begin
<1>2. product \in Products /\ n \in product.nodes /\ psi4demand[n] \in Space(Length(product), Nat)
  BY ProductFacts DEF PlanInv, Spaces, TreeOf
<1>3. psi4supply'[n] \in Space(Length(product), Nat)
  <2>1. PlanInv'
    BY BeginLevelingKeeps
  <2> QED
    BY <1>1, <1>2, <2>1 DEF PlanInv, Spaces
<1>4. PICK supply : supply = psi4supply'
  OBVIOUS
<1>5. CarriesOwn(product, n, supply[n])
  <2>1. Leveled'
    BY BeginLevelingLevels
  <2>2. ShipsInOrder(supply[n], Flat(psi4demand[n], "S"))
    BY <1>1, <1>4, <2>1 DEF Leveled, LeveledFor
  <2>3. IsRouted(product, n, psi4demand[n], k)
    BY <1>1, <1>2 DEF Routes
  <2> QED
    BY <1>2, <1>3, <1>4, <2>2, <2>3, RootCarriesOwn
<1>6. \A m : Contains(<<n>>, m) <=> m = n
  BY DEF Contains
<1>7. PassedDown({}, supply, <<n>>)
  <2>1. Passed({}, <<n>>)
    BY <1>2, PassesFirst
  <2>2. Upward({}, <<n>>)
    BY <1>2, <1>6, RootIsNoChild DEF Upward
  <2> QED
    BY <1>5, <1>6, <2>1, <2>2 DEF PassedDown
<1>8. HandsOn(supply, <<n>>)
  <2>1. {} \in SUBSET product.nodes
    OBVIOUS
  <2> QED
    BY <1>7, <2>1 DEF HandsOn
<1>9. HandsOn(psi4supply, todo)'
  BY <1>1, <1>4, <1>8 DEF HandsOn, PassedDown, Passed, Upward, Handed
<1> QED
  BY <1>9 DEF HandInv

(* A visit that passes down what the node ships: of the layer only the     *)
(* children change.                                                        *)
VisitHands(old, new, n) ==
  LET s == Shipments(old[n])
  IN  \A m \in product.nodes :
        IF Contains(Children(product, n), m)
        THEN ShipsAll(product, n, s) /\ SentTo(product, n, m, s, new[m])
        ELSE new[m] = old[m]

(* Such a visit takes the walk on.                                         *)
LEMMA HandsGoOn ==
  ASSUME NamesTell, product \in Products, NEW old \in [product.nodes -> Spaces],
         NEW new \in [product.nodes -> Spaces], NEW rest \in Seq(product.nodes), rest # <<>>,
         HandsOn(old, rest), VisitHands(old, new, Head(rest))
  PROVE  HandsOn(new, Children(product, Head(rest)) \o Tail(rest))
<1> DEFINE n == Head(rest)
           on == Children(product, Head(rest)) \o Tail(rest)
           p == product
           len == Length(product)
<1>1. PICK V \in SUBSET p.nodes : PassedDown(V, old, rest)
  BY DEF HandsOn
<1> DEFINE W == V \cup {n}
<1>2. /\ n \in p.nodes /\ W \in SUBSET p.nodes /\ Passed(W, on)
      /\ on \in Seq(p.nodes) /\ p \in Products
  BY <1>1, PassesOn DEF PassedDown
<1>3. \A m : Contains(on, m) <=> Contains(Children(p, n), m) \/ Contains(Tail(rest), m)
  <2>1. Children(p, n) \in Seq(p.nodes) /\ Tail(rest) \in Seq(p.nodes)
    BY <1>2, ProductFacts
  <2> QED
    BY <2>1, JoinHas DEF HasBoth
<1>4. Contains(rest, n) /\ \A m : Contains(Tail(rest), m) => Contains(rest, m)
  <2>1. PICK t : t = Tail(rest)
    OBVIOUS
  <2>2. /\ Len(rest) \in Nat \ {0} /\ rest[1] = n /\ Len(t) = Len(rest) - 1
        /\ \A i \in 1 .. Len(t) : i + 1 \in 1 .. Len(rest) /\ t[i] = rest[i + 1]
    BY <2>1
  <2>3. 1 \in 1 .. Len(rest)
    BY <2>2
  <2> HIDE DEF n
  <2> QED
    BY <2>1, <2>2, <2>3 DEF Contains
<1> HIDE DEF n, on, W
<1>5. /\ \A m \in p.nodes : ~Contains(Children(p, m), p.root)
      /\ \A l, m, c \in p.nodes : Contains(Children(p, l), c) /\ Contains(Children(p, m), c) => l = m
      /\ \A m, c \in p.nodes : Contains(Children(p, m), c) => m # c
  <2>1. TreeOf(p.nodes, p.root, p.children) /\ ListedOnce(p.nodes, p.children)
        /\ IsLaminar(p.nodes, p.children, Subtrees(p))
    BY <1>2, ProductOutline, OutlineIsLaminar DEF IsOutline
  <2>2. \A m, c \in p.nodes : Contains(p.children[m], c) => m # c
    BY <2>1 DEF IsLaminar
  <2> QED
    BY <2>1, <2>2, OneParentEach DEF Children
<1>6. \A m \in p.nodes : old[m] \in Space(len, Nat) /\ new[m] \in Space(len, Nat)
  BY DEF Spaces
<1>7. \A m \in p.nodes : ~Contains(Children(p, n), m) => new[m] = old[m]
  BY DEF VisitHands, n
<1>8. \A m \in p.nodes : Contains(Children(p, n), m) =>
        ShipsAll(p, n, Shipments(old[n])) /\ SentTo(p, n, m, Shipments(old[n]), new[m])
  BY DEF VisitHands, n
<1>9. new[n] = old[n]
  BY <1>2, <1>5, <1>7
<1>10. CarriesOwn(p, n, old[n])
  BY <1>1, <1>2, <1>4 DEF PassedDown
<1>11. ASSUME NEW c \in p.nodes, Contains(Children(p, n), c) PROVE CarriesOwn(p, c, new[c])
  <2>1. PICK s : s = Shipments(old[n])
    OBVIOUS
  <2>2. ShipsAll(p, n, s) /\ SentTo(p, n, c, s, new[c])
    BY <1>8, <1>11, <2>1
  <2>3. PICK psi, child : psi = old[n] /\ child = new[c]
    OBVIOUS
  <2>4. psi \in Space(Length(p), Nat) /\ child \in Space(Length(p), Nat)
    BY <1>2, <1>6, <2>3
  <2>5. CarriesOwn(p, c, child)
    BY <1>2, <1>10, <1>11, <2>1, <2>2, <2>3, <2>4, HandsDown
  <2> QED
    BY <2>3, <2>5
<1>12. ASSUME NEW m \in V PROVE SameShipments(new[m], old[m], len)
  <2>1. CASE Contains(Children(p, n), m)
    <3>1. n \in V
      BY <1>1, <1>2, <1>12, <2>1 DEF PassedDown, Upward
    <3>2. SentTo(p, n, m, Shipments(old[n]), old[m])
      BY <1>1, <1>12, <2>1, <3>1 DEF PassedDown, Handed
    <3>3. SentTo(p, n, m, Shipments(old[n]), new[m])
      BY <1>8, <1>12, <2>1
    <3> QED
      BY <3>2, <3>3 DEF SentTo, SameShipments
  <2>2. CASE ~Contains(Children(p, n), m)
    BY <1>7, <1>12, <2>2 DEF SameShipments
  <2> QED
    BY <2>1, <2>2
<1>13. ASSUME NEW m \in V
       PROVE  Shipments(new[m]) = Shipments(old[m]) /\ CarriesOwn(p, m, new[m])
  <2>1. new[m] \in Space(Length(p), Nat) /\ old[m] \in Space(Length(p), Nat)
        /\ SameShipments(new[m], old[m], Length(p)) /\ CarriesOwn(p, m, old[m])
    BY <1>1, <1>6, <1>12 DEF PassedDown
  <2> QED
    BY <1>2, <2>1, CarriesTheSame
<1>14. ASSUME NEW m \in W PROVE CarriesOwn(p, m, new[m]) /\ Handed(new, m)
  <2>1. CASE m = n
    BY <1>8, <1>9, <1>10, <2>1 DEF Handed
  <2>2. CASE m # n
    <3>1. m \in V /\ m \in p.nodes
      BY <1>14, <2>2 DEF W
    <3>2. ASSUME NEW c \in p.nodes, Contains(Children(p, m), c)
          PROVE  ShipsAll(p, m, Shipments(new[m])) /\ SentTo(p, m, c, Shipments(new[m]), new[c])
      <4>1. new[c] = old[c]
        BY <1>2, <1>5, <1>7, <2>2, <3>1, <3>2
      <4>2. ShipsAll(p, m, Shipments(old[m])) /\ SentTo(p, m, c, Shipments(old[m]), old[c])
        BY <1>1, <3>1, <3>2 DEF PassedDown, Handed
      <4> QED
        BY <1>13, <3>1, <4>1, <4>2
    <3> QED
      BY <1>13, <3>1, <3>2 DEF Handed
  <2> QED
    BY <2>1, <2>2
<1>15. ASSUME NEW m \in p.nodes, Contains(on, m) PROVE CarriesOwn(p, m, new[m])
  <2>1. CASE Contains(Children(p, n), m)
    BY <1>11, <2>1
  <2>2. CASE ~Contains(Children(p, n), m)
    BY <1>1, <1>3, <1>4, <1>7, <1>15, <2>2 DEF PassedDown
  <2> QED
    BY <2>1, <2>2
<1>16. Upward(W, on)
  <2> SUFFICES ASSUME NEW m \in p.nodes, NEW c \in p.nodes, Contains(Children(p, m), c),
                      c \in W \/ Contains(on, c)
               PROVE  m \in W
    BY DEF Upward
  <2>1. CASE c \in V \/ Contains(rest, c)
    BY <1>1, <2>1 DEF PassedDown, Upward, W
  <2>2. CASE ~(c \in V \/ Contains(rest, c))
    <3>1. Contains(Children(p, n), c)
      BY <1>3, <1>4, <2>2 DEF W
    <3> QED
      BY <1>2, <1>5, <3>1 DEF W
  <2> QED
    BY <2>1, <2>2
<1>17. PassedDown(W, new, on)
  BY <1>2, <1>14, <1>15, <1>16 DEF PassedDown
<1> QED
  BY <1>2, <1>17 DEF HandsOn, on, n

(* A visit of leveling that does not raise.                                *)
LEMMA FeedbackNodeHands ==
  ASSUME NamesTell, PlanInv, HandInv, FeedbackNode
  PROVE  HandInv'
<1> SUFFICES ASSUME loaded', ~raised' PROVE HandsOn(psi4supply, todo)'
  BY DEF HandInv
<1> DEFINE n == Head(todo)
           shipments == Shipments(psi4supply[n])
           placed == Placed(product, n, shipments)
           p == product
<1>1. /\ product' = product /\ loaded' = loaded /\ command = "demand_leveling" /\ todo # <<>>
      /\ product \in Products
  BY DEF FeedbackNode, Running, PlanInv
<1>2. todo' = Children(product, n) \o Tail(todo) /\ ~raised
      /\ (~IsLeaf(p, n) => placed = shipments)
  <2>1. CASE IsLeaf(p, n)
    BY <2>1 DEF FeedbackNode, AfterVisit
  <2>2. CASE ~IsLeaf(p, n)
    BY <2>2 DEF FeedbackNode, AfterVisit, Raise
  <2> QED
    BY <2>1, <2>2
<1>3. todo \in Seq(p.nodes) /\ n \in p.nodes /\ psi4supply \in [p.nodes -> Spaces]
  BY <1>1 DEF PlanInv, Walks
<1>4. psi4supply' \in [p.nodes -> Spaces]
  <2>1. PlanInv'
    BY FeedbackNodeKeeps
  <2> QED
    BY <1>1, <2>1 DEF PlanInv, Spaces
<1>5. HandsOn(psi4supply, todo)
  BY <1>1, <1>2 DEF HandInv
<1>6. PICK new : new = psi4supply'
  OBVIOUS
<1>7. VisitHands(psi4supply, new, n)
  <2>1. CASE IsLeaf(p, n)
    <3>1. \A m : ~Contains(Children(p, n), m)
      BY <2>1 DEF IsLeaf, Contains
    <3>2. new = psi4supply
      BY <1>6, <2>1 DEF FeedbackNode
    <3> QED
      BY <3>1, <3>2 DEF VisitHands
  <2>2. CASE ~IsLeaf(p, n)
    <3> DEFINE to(m) == Received(p, n, m, placed)
    <3>1. new = [m \in p.nodes |-> IF Contains(Children(p, n), m) THEN Replaced(psi4supply[m], to(m))
                                   ELSE psi4supply[m]]
      BY <1>6, <2>2 DEF FeedbackNode
    <3>2. shipments \in Seq(Shipment)
      <4>1. psi4supply[n] \in Space(Length(p), Nat) /\ Length(p) \in Nat \ {0}
        BY <1>1, <1>3, ProductFacts DEF Spaces
      <4> QED
        BY <4>1, ShipmentsListed
    <3>3. ShipsAll(p, n, shipments)
      BY <1>2, <2>2, <3>2, AllPlaced
    <3>4. ASSUME NEW m \in p.nodes, Contains(Children(p, n), m) PROVE SentTo(p, n, m, shipments, new[m])
      <4>1. to(m) = Received(p, n, m, shipments)
        BY <1>2, <2>2
      <4> HIDE DEF to, shipments, placed
      <4>2. new[m] = Replaced(psi4supply[m], to(m))
        BY <3>1, <3>4
      <4>3. DOMAIN psi4supply[m] = 0 .. Length(p) - 1
        <5>1. psi4supply[m] \in Space(Length(p), Nat) /\ Length(p) \in Nat \ {0}
          BY <1>1, <1>3, ProductFacts DEF Spaces
        <5> QED
          BY <5>1, SpaceParts
      <4>4. \A w \in 0 .. Length(p) - 1 : new[m][w].S = to(m)[w] /\ new[m][w].P = to(m)[w]
        BY <4>2, <4>3 DEF Replaced
      <4> QED
        BY <4>1, <4>4 DEF SentTo
    <3> HIDE DEF to
    <3>5. \A m \in p.nodes : ~Contains(Children(p, n), m) => new[m] = psi4supply[m]
      BY <3>1
    <3> QED
      BY <3>3, <3>4, <3>5 DEF VisitHands
  <2> QED
    BY <2>1, <2>2
<1> HIDE DEF shipments, placed
<1>8. HandsOn(new, Children(product, n) \o Tail(todo))
  <2>1. new \in [product.nodes -> Spaces]
    BY <1>4, <1>6
  <2> QED
    BY <1>1, <1>3, <1>5, <1>7, <2>1, HandsGoOn
<1>9. PICK on : on = todo'
  OBVIOUS
<1>10. HandsOn(new, on)
  BY <1>2, <1>8, <1>9
<1> QED
  BY <1>1, <1>6, <1>9, <1>10 DEF HandsOn, PassedDown, Passed, Upward, Handed

(* Once the walk has ended every shipment has come to its child.           *)
LEMMA HandsReach ==
  ASSUME NamesTell, PlanInv, HandInv
  PROVE  ShipmentsReachTheirLeaf
<1> SUFFICES ASSUME Settled("demand_leveling")
             PROVE  \A n, c \in product.nodes : Contains(Children(product, n), c) =>
                      ReachesLeaf(product, n, c, psi4supply[n], psi4supply[c])
  <2>1. \A n \in product.nodes : \A c \in ToSet(Children(product, n)) :
          c \in product.nodes /\ Contains(Children(product, n), c)
    <3> SUFFICES ASSUME NEW n \in product.nodes, NEW c \in ToSet(Children(product, n))
                 PROVE  c \in product.nodes /\ Contains(Children(product, n), c)
      OBVIOUS
    <3>1. Children(product, n) \in Seq(product.nodes)
      BY ProductFacts DEF PlanInv
    <3> QED
      BY <3>1 DEF ToSet, Contains
  <2> QED
    BY <2>1 DEF ShipmentsReachTheirLeaf, ReachesLeaf, Lots
<1>1. /\ product \in Products /\ command = "demand_leveling" /\ loaded /\ ~raised /\ todo = <<>>
      /\ psi4supply \in [product.nodes -> Spaces]
  BY DEF Settled, PlanInv
<1>2. PICK V \in SUBSET product.nodes : PassedDown(V, psi4supply, <<>>)
  BY <1>1 DEF HandInv, HandsOn
<1>3. \A n \in product.nodes : n \in V
  BY <1>1, <1>2, PassesAll DEF PassedDown
<1> SUFFICES ASSUME NEW n \in product.nodes, NEW c \in product.nodes, Contains(Children(product, n), c)
             PROVE  ReachesLeaf(product, n, c, psi4supply[n], psi4supply[c])
  OBVIOUS
<1>4. PICK psi, child, s : psi = psi4supply[n] /\ child = psi4supply[c] /\ s = Shipments(psi4supply[n])
  OBVIOUS
<1>5. psi \in Space(Length(product), Nat) /\ child \in Space(Length(product), Nat)
  BY <1>1, <1>4 DEF Spaces
<1>6. CarriesOwn(product, n, psi) /\ ShipsAll(product, n, s) /\ SentTo(product, n, c, s, child)
  BY <1>2, <1>3, <1>4 DEF PassedDown, Handed
<1>7. ReachesLeaf(product, n, c, psi, child)
  BY <1>1, <1>4, <1>5, <1>6, HandsDown
<1> QED
  BY <1>4, <1>7

(* In any session, on any tree and with any calendars: after a leveling    *)
(* that ended well every shipment of every node has arrived at the child   *)
(* on the way to the lot's leaf, in a week at work and not before its lead *)
(* time, and nothing else has - if the name cut off a lot's id tells its   *)
(* leaf.                                                                   *)
THEOREM ShipmentsReach ==
  ASSUME NamesTell
  PROVE  Spec => []ShipmentsReachTheirLeaf
<1>1. Init => Routes(1) /\ HandInv
  BY DEF Init, Routes, Running, HandInv
<1>2. PlanInv /\ Routes(1) /\ HandInv /\ [Next]_vars => Routes(1)' /\ HandInv'
  <2> SUFFICES ASSUME PlanInv, Routes(1), HandInv, [Next]_vars PROVE Routes(1)' /\ HandInv'
    OBVIOUS
  <2>1. CASE BeginLoad
    BY <2>1, BeginLoadRoutes DEF BeginLoad, Begin, HandInv
  <2>2. CASE BeginDemandPlanning \/ BeginSupplyPlanning
    BY <2>2, BeginRoutes DEF BeginDemandPlanning, BeginSupplyPlanning, Begin, HandInv
  <2>3. CASE BeginLeveling
    BY <2>3, BeginRoutes, BeginLevelingHands
  <2>4. CASE LoadNode \/ LoadRaises \/ DemandNode \/ SupplyNode
    <3>1. Routes(1)'
      BY <2>4, StepRoutes DEF Step
    <3>2. command' # "demand_leveling"
      BY <2>4 DEF LoadNode, LoadRaises, DemandNode, SupplyNode, Running
    <3> QED
      BY <3>1, <3>2 DEF HandInv
  <2>5. CASE FeedbackNode
    BY <2>5, StepRoutes, FeedbackNodeHands DEF Step, FeedbackNode, Running, LoadNode
  <2>6. CASE UNCHANGED vars
    <3>1. Routes(1)'
      BY <2>6, RoutesStay DEF vars
    <3>2. HandInv'
      BY <2>6 DEF vars, HandInv, HandsOn, PassedDown, Passed, Upward, Handed
    <3> QED
      BY <3>1, <3>2
  <2> QED
    BY <2>1, <2>2, <2>3, <2>4, <2>5, <2>6 DEF Next, Step, SessionOver
<1>3. PlanInv /\ HandInv => ShipmentsReachTheirLeaf
  BY HandsReach
<1> QED
  BY <1>1, <1>2, <1>3, PlanInvariance, PTL DEF Spec

(* The window: of its steps only the leveling button levels, and only the  *)
(* visits of that walk pass shipments down.                                *)
LEMMA WindowStepsOtherwise ==
  ASSUME WindowInv, [WindowNext]_windowVars
  PROVE  \/ BeginLeveling \/ FeedbackNode \/ UNCHANGED vars
         \/ command' # "demand_leveling"
<1>0. IInv /\ Busy
  BY DEF WindowInv
<1>1. CASE Load
  BY <1>1 DEF Load, BeginLoad, Begin
<1>2. CASE EngineButton
  BY <1>2 DEF EngineButton, Press, Begin
<1>3. CASE PlanningButton
  BY <1>3 DEF PlanningButton, BeginDemandPlanning, BeginSupplyPlanning, Begin
<1>4. CASE SelectProduct \/ Save \/ SaveRaises \/ UNCHANGED windowVars
  BY <1>4 DEF SelectProduct, Save, SaveRaises, windowVars
<1>5. CASE RunSequence
  BY <1>5 DEF RunSequence, Begin
<1>6. CASE Visit
  <2>1. LoadNode \/ LoadRaises \/ DemandNode \/ SupplyNode \/ FeedbackNode
    BY <1>6 DEF Visit, Step
  <2> QED
    BY <2>1 DEF LoadNode, LoadRaises, DemandNode, SupplyNode, Running
<1>7. CASE NextStage
  BY <1>0, <1>7 DEF NextStage, Busy
<1> QED
  BY <1>1, <1>2, <1>3, <1>4, <1>5, <1>6, <1>7 DEF WindowNext, Handler, WindowOver

(* Every step of the window leaves the root leveled.                       *)
LEMMA WindowStepLevels ==
  ASSUME WindowInv, WindowRoutes, Leveled, [WindowNext]_windowVars
  PROVE  Leveled'
<1>0. PlanInv
  BY DEF WindowInv
<1>1. CASE BeginLeveling
  <2>1. PICK k : k = passes /\ Routes(k)
    BY DEF WindowRoutes
  <2> QED
    BY <1>0, <1>1, <2>1, BeginLevelingLevels
<1>2. CASE FeedbackNode
  BY <1>0, <1>2, FeedbackNodeLevels
<1>3. CASE UNCHANGED vars
  BY <1>3 DEF vars, Leveled
<1>4. CASE command' # "demand_leveling"
  BY <1>4 DEF Leveled
<1> QED
  BY <1>1, <1>2, <1>3, <1>4, WindowStepsOtherwise

(* And what its walk passed down, passed down.                             *)
LEMMA WindowStepHands ==
  ASSUME NamesTell, WindowInv, WindowRoutes, HandInv, [WindowNext]_windowVars
  PROVE  HandInv'
<1>0. PlanInv
  BY DEF WindowInv
<1>1. CASE BeginLeveling
  <2>1. PICK k : k = passes /\ Routes(k)
    BY DEF WindowRoutes
  <2> QED
    BY <1>0, <1>1, <2>1, BeginLevelingHands
<1>2. CASE FeedbackNode
  BY <1>0, <1>2, FeedbackNodeHands
<1>3. CASE UNCHANGED vars
  BY <1>3 DEF vars, HandInv, HandsOn, PassedDown, Passed, Upward, Handed
<1>4. CASE command' # "demand_leveling"
  BY <1>4 DEF HandInv
<1> QED
  BY <1>1, <1>2, <1>3, <1>4, WindowStepsOtherwise

(* In the window too the root ships what is requested of it in the order   *)
(* of the requests and at a year's rate, however many passes of engine (1) *)
(* came before the leveling.                                               *)
THEOREM WindowLevels == WindowSpec => []LevelingKeepsOrderAndRate
<1>1. WindowInit => Leveled
  BY DEF WindowInit, Init, Leveled
<1>2. WindowInv /\ WindowRoutes /\ Leveled /\ [WindowNext]_windowVars => Leveled'
  BY WindowStepLevels
<1>3. WindowInv /\ Leveled => LevelingKeepsOrderAndRate
  BY LeveledKeeps DEF WindowInv
<1> QED
  BY <1>1, <1>2, <1>3, WindowInvariance, WindowRoutesInvariance, PTL DEF WindowSpec

(* And every shipment comes to the child on the way to its leaf, however   *)
(* the engines and the sequences were mixed with the levelings.            *)
THEOREM WindowShipmentsReach ==
  ASSUME NamesTell
  PROVE  WindowSpec => []ShipmentsReachTheirLeaf
<1>1. WindowInit => HandInv
  BY DEF WindowInit, Init, HandInv
<1>2. WindowInv /\ WindowRoutes /\ HandInv /\ [WindowNext]_windowVars => HandInv'
  BY WindowStepHands
<1>3. WindowInv /\ HandInv => ShipmentsReachTheirLeaf
  BY HandsReach DEF WindowInv
<1> QED
  BY <1>1, <1>2, <1>3, WindowInvariance, WindowRoutesInvariance, PTL DEF WindowSpec

=============================================================================
