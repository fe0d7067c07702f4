---------------------------- MODULE PsiPlanning ----------------------------
(***************************************************************************)
(* Lot-based planning of one product on its outbound tree, as the planning *)
(* environment (pysi/wom_main.py, WOMEnv) does it: loading the demand,     *)
(* demand planning, demand leveling and supply planning.  The pipeline     *)
(* (pysi/core/wom_pipeline.py) calls them in this order; a window calls    *)
(* them on the same PSI spaces again (gui/cockpit_tk.py:920, the buttons   *)
(* of gui/app.py), so the model has them in any order, any number of times.*)
(*                                                                         *)
(* A command walks the tree, one step per node it visits; todo holds the   *)
(* nodes still to visit.  A Python exception ends the command where it is  *)
(* (raised) and leaves what it has done; a window goes on with the next.   *)
(*                                                                         *)
(* A product is a record: its nodes, root and children (ordered), whether  *)
(* the root has a parent outside the tree (the row "root, supply_point" of *)
(* the sample data), per node leadtime (None: a lead time of 0 is read as  *)
(* None), safety-stock shift ss and vacation weeks; its lots, each with    *)
(* its leaf, demand week, the planned years found in its id, and the node  *)
(* its id names (which is not the leaf's name if that has a "-" in it);    *)
(* the numbers of weeks of the planned years.                              *)
(***************************************************************************)
EXTENDS PsiNode

CONSTANTS
  Products,       \* the products a session may plan
  SlotsPerYear,   \* weeks a PSI space has per planned year: 53
  PreProdWeeks,   \* weeks of pre-production: 26
  MaxCommands     \* bound on the commands of a session

None == -1              \* a lead time that is Python's None
Outside == "outside"    \* the parent of a root that has one

ASSUME SlotsAssumption == SlotsPerYear \in Nat /\ PreProdWeeks \in 1 .. SlotsPerYear - 2

ASSUME ProductsAssumption ==
  \A p \in Products :
    /\ p.weeks \in Seq({SlotsPerYear - 1, SlotsPerYear}) /\ Len(p.weeks) > 1
    /\ p.lots \in Seq({p.lots[i] : i \in DOMAIN p.lots})
    /\ TreeOf(p.nodes, p.root, p.children) /\ ListedOnce(p.nodes, p.children)
    /\ Outside \notin p.nodes /\ p.outside \in BOOLEAN
    /\ p.leadtime \in [p.nodes -> Nat \cup {None}]
    /\ p.ss \in [p.nodes -> Nat]
    /\ p.vacation \in [p.nodes -> SUBSET Nat]
    /\ \A n \in p.nodes : IsFiniteSet(p.vacation[n])

VARIABLES
  product,      \* the product planned
  psi4demand,   \* node -> PSI space
  psi4supply,
  command,      \* the last command begun
  todo,         \* the nodes it still visits, the next first
  decouple,     \* the decoupling nodes of supply planning
  raised,       \* did the last command end with an exception?
  loaded,       \* has a load ended well?
  commands      \* number of commands begun

vars == <<product, psi4demand, psi4supply, command, todo, decouple, raised, loaded, commands>>

-----------------------------------------------------------------------------
(* The tree.                                                               *)

Length(p)      == SlotsPerYear * (Len(p.weeks) - 1)

(* The id of a lot asked for in a week of the plan holds that week's year, *)
(* a planned one (pysi/plan/demand_generate.py:136, operations.py:19).     *)
ASSUME YearsAssumption ==
  \A p \in Products : \A lot \in DOMAIN p.lots :
    p.lots[lot].week \in 0 .. Length(p) - 1 =>
      \E y \in 1 .. Len(p.weeks) : y \in p.lots[lot].years

Children(p, n) == p.children[n]
IsLeaf(p, n)   == Children(p, n) = <<>>

Parent(p, n) ==
  CHOOSE m \in p.nodes \cup {Outside} :
    IF n = p.root THEN m = Outside ELSE m # Outside /\ Contains(Children(p, m), n)

(* n and what is below it.                                                 *)
Subtrees(p) ==
  LET below[m \in p.nodes] == {m} \cup UNION {below[c] : c \in ToSet(Children(p, m))}
  IN  below

SubtreesOf == [p \in Products |-> Subtrees(p)]

Below(p, n) == SubtreesOf[p][n]

find_depth(p, n) == Cardinality({m \in p.nodes : n \in Below(p, m)})

(* The child on the way from n to a leaf below it.                         *)
ShipTo(p, n, leaf) == CHOOSE c \in ToSet(Children(p, n)) : leaf \in Below(p, c)

PostOrder(p) ==
  LET visit[n \in p.nodes] ==
        Concat([i \in 1 .. Len(Children(p, n)) |-> visit[Children(p, n)[i]]]) \o <<n>>
  IN  visit[p.root]

-----------------------------------------------------------------------------
(* Decoupling points.  Starting with the leaves, the deepest node of the   *)
(* list gives way to its parent, and so do the node's siblings.            *)

find_all_leaves(p) == Filtered(PostOrder(p), LAMBDA n : IsLeaf(p, n))

DeepestFirst(p, nodes) ==
  Concat([k \in 1 .. Cardinality(p.nodes) |->
    Filtered(nodes, LAMBDA n : find_depth(p, n) = Cardinality(p.nodes) + 1 - k)])

DepthOf(p, n) == IF n = Outside THEN 0 ELSE find_depth(p, n)

GiveWay_KeepSiblings(p, cut) ==
  LET parent == Parent(p, Head(cut))
      at == SelectInSeq(Tail(cut), LAMBDA n : DepthOf(p, n) <= DepthOf(p, parent))
  IN  InsertAt(Tail(cut), IF at = 0 THEN Len(cut) ELSE at, parent)

GiveWay(p, cut) ==
  LET parent  == Parent(p, Head(cut))
      at      == SelectInSeq(Tail(cut), LAMBDA n : DepthOf(p, n) <= DepthOf(p, parent))
      with    == InsertAt(Tail(cut), IF at = 0 THEN Len(cut) ELSE at, parent)
      Sibling(n) == parent \in p.nodes /\ Contains(Children(p, parent), n)
  IN  Filtered(with, LAMBDA n : ~Sibling(n))

(* One list per node that gives way, the last being the topmost node.      *)
make_nodes_decouple_all(p) ==
  LET inner == Cardinality({n \in p.nodes : ~IsLeaf(p, n)})
      cut[k \in 1 .. inner + 1] ==
        IF k = 1 THEN DeepestFirst(p, find_all_leaves(p)) ELSE GiveWay(p, cut[k - 1])
  IN  cut \o (IF p.outside THEN <<<<Outside>>>> ELSE <<>>)

-----------------------------------------------------------------------------
(* init_psi_spaces_and_demand: new PSI spaces, then every node after its   *)
(* children.                                                               *)

Running(c) == todo # <<>> /\ command = c

Begin(c) ==
  /\ todo = <<>>
  /\ commands < MaxCommands
  /\ commands' = commands + 1
  /\ command' = c

AfterVisit == Children(product, Head(todo)) \o Tail(todo)

Raise ==
  /\ raised' = TRUE
  /\ todo' = <<>>

NewSpaces(p) == [n \in p.nodes |-> EmptyPsi(Length(p))]

BeginLoad ==
  /\ Begin("load")
  /\ psi4demand' = NewSpaces(product)
  /\ psi4supply' = NewSpaces(product)
  /\ todo' = PostOrder(product)
  /\ loaded' = FALSE
  /\ raised' = FALSE
  /\ UNCHANGED <<product, decouple>>

(* A leaf's S: the lots the weekly demand lists for it.                    *)
set_S2psi(p, leaf, psi) ==
  [w \in DOMAIN psi |-> [psi[w] EXCEPT !.S =
     @ \o Ascending({lot \in DOMAIN p.lots : p.lots[lot].leaf = leaf /\ p.lots[lot].week = w})]]

(* Another node's S: its children's P, its own lead time earlier.          *)
get_set_childrenP2S2psi(p, n, spaces) ==
  LET ordered(w) ==
        Concat([i \in 1 .. Len(Children(p, n)) |->
          IF w + p.leadtime[n] \in DOMAIN spaces[n]
          THEN spaces[Children(p, n)[i]][w + p.leadtime[n]].P ELSE <<>>])
  IN  [w \in DOMAIN spaces[n] |-> [spaces[n][w] EXCEPT !.S = @ \o ordered(w)]]

copy_demand_to_supply(demand, supply) ==
  [w \in DOMAIN supply |-> [supply[w] EXCEPT !.S = @ \o demand[w].S]]

LoadNode ==
  LET n == Head(todo)
      shipped == IF IsLeaf(product, n) THEN set_S2psi(product, n, psi4demand[n])
                 ELSE get_set_childrenP2S2psi(product, n, psi4demand)
  IN  /\ Running("load")
      /\ IsLeaf(product, n) \/ product.leadtime[n] # None
      /\ psi4demand' = [psi4demand EXCEPT
           ![n] = shiftS2P_LV(shipped, product.ss[n], product.vacation[n])]
      /\ psi4supply' = [psi4supply EXCEPT ![n] = copy_demand_to_supply(psi4demand'[n], @)]
      /\ todo' = Tail(todo)
      /\ loaded' = (todo' = <<>>)
      /\ UNCHANGED <<product, command, decouple, raised, commands>>

(* int(None) raises.                                                       *)
LoadRaises ==
  /\ Running("load")
  /\ ~IsLeaf(product, Head(todo)) /\ product.leadtime[Head(todo)] = None
  /\ Raise
  /\ UNCHANGED <<product, psi4demand, psi4supply, command, decouple, loaded, commands>>

-----------------------------------------------------------------------------
(* demand_planning4multi_product: stock of the demand layer, parents first.*)

BeginDemandPlanning ==
  /\ loaded
  /\ Begin("demand_planning")
  /\ todo' = <<product.root>>
  /\ raised' = FALSE
  /\ UNCHANGED <<product, psi4demand, psi4supply, decouple, loaded>>

DemandNode ==
  LET n == Head(todo)
  IN  /\ Running("demand_planning")
      /\ psi4demand' = [psi4demand EXCEPT ![n] = calcPS2I4demand(@)]
      /\ todo' = AfterVisit
      /\ UNCHANGED <<product, psi4supply, command, decouple, raised, loaded, commands>>

-----------------------------------------------------------------------------
(* demand_leveling4multi_prod: the root ships at the average rate of the   *)
(* year; its shipments are then passed down, node by node.                 *)

LeveledRoot(p, demand, supply) ==
  LET years   == [lot \in DOMAIN p.lots |-> p.lots[lot].years]
      shipped == demand_leveling_on_ship(demand, supply, p.weeks, years, PreProdWeeks)
  IN  calcPS2I4supply(shiftS2P_LV_replace(shipped, p.ss[p.root], p.vacation[p.root]))

BeginLeveling ==
  /\ loaded
  /\ Begin("demand_leveling")
  /\ psi4supply' = [psi4supply EXCEPT ![product.root] =
                      LeveledRoot(product, psi4demand[product.root], @)]
  /\ todo' = <<product.root>>
  /\ raised' = FALSE
  /\ UNCHANGED <<product, psi4demand, decouple, loaded>>

(* What a node ships, in the order of weeks.                               *)
Shipments(psi) ==
  Concat([k \in 1 .. Weeks(psi) |->
    [i \in DOMAIN psi[k - 1].S |-> [lot |-> psi[k - 1].S[i], week |-> k - 1]]])

Receiver(p, n, lot) == ShipTo(p, n, p.lots[lot].names)

(* The week in which a shipment of n arrives, and is shipped on: the       *)
(* receiver's safety_stock_week, a second attribute, is 0 everywhere.      *)
Arrival(p, n, shipment) ==
  LET c == Receiver(p, n, shipment.lot)
  IN  check_lv_week_fw(p.vacation[c], shipment.week + p.leadtime[c])

(* Else: KeyError, TypeError or IndexError.                                *)
CanShip(p, n, shipment) ==
  /\ p.lots[shipment.lot].names \in p.nodes
  /\ p.leadtime[Receiver(p, n, shipment.lot)] # None
  /\ Arrival(p, n, shipment) < Length(p)

(* The shipments placed before one that fails.                             *)
Placed(p, n, shipments) ==
  Picked(shipments, {i \in DOMAIN shipments : \A j \in 1 .. i : CanShip(p, n, shipments[j])})

Received(p, n, c, placed) ==
  [w \in 0 .. Length(p) - 1 |->
     LET here == Picked(placed, {i \in DOMAIN placed : Receiver(p, n, placed[i].lot) = c
                                                       /\ Arrival(p, n, placed[i]) = w})
     IN  [i \in DOMAIN here |-> here[i].lot]]

Replaced(psi, received) ==
  [w \in DOMAIN psi |-> [S |-> received[w], I |-> psi[w].I, P |-> received[w]]]

(* One node of feedback_psi_lists: the children's S and P are cleared and  *)
(* filled with what the node ships.                                        *)
FeedbackNode ==
  LET n == Head(todo)
      shipments == Shipments(psi4supply[n])
      placed == Placed(product, n, shipments)
  IN  /\ Running("demand_leveling")
      /\ IF IsLeaf(product, n)
         THEN /\ todo' = AfterVisit
              /\ UNCHANGED <<psi4supply, raised>>
         ELSE /\ psi4supply' = [m \in product.nodes |->
                                  IF Contains(Children(product, n), m)
                                  THEN Replaced(psi4supply[m], Received(product, n, m, placed))
                                  ELSE psi4supply[m]]
              /\ IF placed = shipments
                 THEN todo' = AfterVisit /\ UNCHANGED raised
                 ELSE Raise
      /\ UNCHANGED <<product, psi4demand, command, decouple, loaded, commands>>

-----------------------------------------------------------------------------
(* supply_planning4multi_product: push down to the decoupling points, pull *)
(* below them.                                                             *)

BeginSupplyPlanning ==
  LET cuts == make_nodes_decouple_all(product)
  IN  /\ loaded
      /\ Begin("supply_planning")
      /\ IF Len(cuts) < 3
         THEN Raise /\ UNCHANGED decouple
         ELSE /\ decouple' = ToSet(cuts[Len(cuts) - 2])
              /\ todo' = <<product.root>>
              /\ raised' = FALSE
      /\ UNCHANGED <<product, psi4demand, psi4supply, loaded>>

Pulled_ChildrenOnly(p, n) ==
  \E m \in decouple \cap p.nodes : Contains(Children(p, m), n)

Pulled(p, n) == \E m \in decouple \ {n} : m \in p.nodes /\ n \in Below(p, m)

SupplyBucket(supply, demand, bucket) ==
  [w \in DOMAIN supply |-> [supply[w] EXCEPT ![bucket] = demand[w][bucket]]]

PUSH_process(psi) == calcPS2I4supply(psi)

PULL_process(supply, demand) ==
  calcPS2I4supply(SupplyBucket(SupplyBucket(supply, demand, "S"), demand, "P"))

SupplyNode ==
  LET n == Head(todo)
      demand == psi4demand[n]
      planned(supply) ==
        IF Pulled(product, n) THEN PULL_process(supply, demand)
        ELSE IF n \in decouple
             THEN PUSH_process(SupplyBucket(calcPS2I4supply(supply), demand, "S"))
             ELSE PUSH_process(supply)
  IN  /\ Running("supply_planning")
      /\ psi4supply' = [psi4supply EXCEPT ![n] = planned(@)]
      /\ todo' = AfterVisit
      /\ UNCHANGED <<product, psi4demand, command, decouple, raised, loaded, commands>>

-----------------------------------------------------------------------------
Init ==
  /\ product \in Products
  /\ psi4demand = NewSpaces(product)
  /\ psi4supply = NewSpaces(product)
  /\ command = "load"
  /\ todo = <<>>
  /\ decouple = {}
  /\ raised = FALSE
  /\ loaded = FALSE
  /\ commands = 0

Step == LoadNode \/ LoadRaises \/ DemandNode \/ FeedbackNode \/ SupplyNode

(* The bound is reached.                                                   *)
SessionOver ==
  /\ todo = <<>>
  /\ commands = MaxCommands
  /\ UNCHANGED vars

Next ==
  \/ BeginLoad \/ BeginDemandPlanning \/ BeginLeveling \/ BeginSupplyPlanning
  \/ Step
  \/ SessionOver

Spec == Init /\ [][Next]_vars

-----------------------------------------------------------------------------
(* Properties.                                                             *)

Settled(c) == todo = <<>> /\ command = c /\ ~raised /\ loaded

Lots == DOMAIN product.lots
Once(psi, bucket) == LET lots == Flat(psi, bucket) IN Cardinality(ToSet(lots)) = Len(lots)

Lost == -1

(* The demand asks for a lot at a leaf, in a week of the plan; rows of the *)
(* weekly demand for other nodes and weeks are read past.                  *)
IsDemanded(p, lot) ==
  /\ p.lots[lot].leaf \in p.nodes /\ IsLeaf(p, p.lots[lot].leaf)
  /\ p.lots[lot].week \in 0 .. Length(p) - 1

(* The week in which a lot must leave a node, reckoned for this lot alone  *)
(* on its way up from its leaf; Lost if it falls off the start of the plan.*)
(* A vacation at the start makes it fall to the plan's end.                *)
RequestedWeek(p, lot, node) ==
  LET leaf == p.lots[lot].leaf
      week[n \in p.nodes] ==
        IF n = leaf THEN p.lots[lot].week
        ELSE IF leaf \notin Below(p, n) THEN Lost
        ELSE LET c == ShipTo(p, n, leaf)
                 leaves  == week[c]
                 arrives == Slot(Length(p), check_lv_week_bw(p.vacation[c], leaves - p.ss[c]))
             IN  IF leaves <= p.ss[c] \/ arrives < p.leadtime[n] THEN Lost
                 ELSE arrives - p.leadtime[n]
  IN  IF IsDemanded(p, lot) THEN week[node] ELSE Lost

(* Backward planning moves whole weekly lists from node to node; still,    *)
(* whenever a product is loaded, and whatever was planned since, each lot  *)
(* stands at each node in the week computed for this lot alone, once, and  *)
(* nowhere else.                                                           *)
DemandFollowsRoutes ==
  loaded => \A n \in product.nodes :
    /\ Once(psi4demand[n], "S")
    /\ \A lot \in Lots :
         WeeksOf(psi4demand[n], "S", lot) = {RequestedWeek(product, lot, n)} \ {Lost}

(* demand_leveling_on_ship only moves shipments: from then on the root     *)
(* ships the lots requested of it, in the order of the requests, from      *)
(* PreProdWeeks before the end of the first year on, never more in a week  *)
(* than the largest yearly average; lots stay behind only if the plan is   *)
(* full to its last week.                                                  *)
LevelingKeepsOrderAndRate ==
  command = "demand_leveling" /\ loaded =>
    LET requested == Flat(psi4demand[product.root], "S")
        supply  == psi4supply[product.root]
        leveled == Flat(supply, "S")
        years   == [lot \in Lots |-> product.lots[lot].years]
        Rate(y) == Ceil(year_lots(requested, years, y), product.weeks[y])
    IN  /\ IsPrefix(leveled, requested)
        /\ leveled # requested => supply[Length(product) - 1].S # <<>>
        /\ \A w \in DOMAIN supply :
             supply[w].S # <<>> =>
               /\ w >= product.weeks[1] - PreProdWeeks
               /\ \E y \in 1 .. Len(product.weeks) : Len(supply[w].S) <= Rate(y)

(* After a leveling that ended well, every shipment of every node arrives  *)
(* at the child on the way to the leaf the lot was ordered for, at least   *)
(* the child's lead time later and in a week at work, and at no other; and *)
(* nothing arrives that its parent did not ship.                           *)
ShipmentsReachTheirLeaf ==
  Settled("demand_leveling") =>
    \A n \in product.nodes, lot \in Lots :
      \A c \in ToSet(Children(product, n)) :
        LET ships   == WeeksOf(psi4supply[n], "S", lot)
            arrives == WeeksOf(psi4supply[c], "P", lot)
        IN  /\ arrives # {} <=> ships # {} /\ product.lots[lot].leaf \in Below(product, c)
            /\ Cardinality(arrives) <= 1
            /\ \A w \in arrives :
                 /\ w \notin product.vacation[c]
                 /\ \A v \in ships : w >= v + product.leadtime[c]

(* The name cut off a lot's id at its first "-" is the leaf's, or no       *)
(* node's: no other node is called what a leaf's name begins with.         *)
NamesTell ==
  \A p \in Products : \A lot \in DOMAIN p.lots :
    p.lots[lot].names \in p.nodes => p.lots[lot].names = p.lots[lot].leaf

(* After demand planning stock and movements agree at every node of the    *)
(* demand layer, and after supply planning at every node of the supply     *)
(* layer, although leveling leaves old stocks behind and supply planning   *)
(* replaces shipments at the decoupling points.                            *)
StockFollowsMoves ==
  /\ Settled("demand_planning") => \A n \in product.nodes : StockAgrees(psi4demand[n], Lots)
  /\ Settled("supply_planning") => \A n \in product.nodes : StockAgrees(psi4supply[n], Lots)

(* Each list of decoupling candidates cuts the tree: every leaf is below   *)
(* exactly one of its nodes, so that supply planning pushes each lot down  *)
(* to one point and pulls it from there.                                   *)
CandidatesCutTheTree ==
  Running("supply_planning") =>
    LET cuts == make_nodes_decouple_all(product)
    IN  \A k \in DOMAIN cuts :
          \/ cuts[k] = <<Outside>>
          \/ /\ ToSet(cuts[k]) \subseteq product.nodes
             /\ \A leaf \in ToSet(find_all_leaves(product)) :
                  Cardinality({i \in DOMAIN cuts[k] : leaf \in Below(product, cuts[k][i])}) = 1

(* From the decoupling points on the plan is the demand's: after supply    *)
(* planning every leaf receives and ships what demand asks, in the weeks   *)
(* it asks, whatever leveling and earlier supply plans left there.         *)
PullMeetsDemand ==
  Settled("supply_planning") /\ decouple \subseteq product.nodes =>
    \A leaf \in ToSet(find_all_leaves(product)), w \in 0 .. Length(product) - 1 :
      /\ psi4supply[leaf][w].S = psi4demand[leaf][w].S
      /\ leaf \notin decouple => psi4supply[leaf][w].P = psi4demand[leaf][w].P

=============================================================================
