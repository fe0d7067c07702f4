-------------------------- MODULE InboundPlanning --------------------------
(***************************************************************************)
(* Inbound planning of the products of a planner window, on the trees that *)
(* OPEN loads (pysi/gui/app.py, pysi/network/tree.py).                     *)
(*                                                                         *)
(* A product has an inbound tree whose root is the supply point and whose  *)
(* leaves are suppliers.  "Inbound DmBw" copies what the outbound root     *)
(* ships and receives to the inbound root and orders backward: what a node *)
(* must have received is what its suppliers must ship, a lead time before. *)
(* "Inbound SpFw" connects the supply layer to the demand layer and        *)
(* reckons the stocks.  Each handler runs to its end or to an exception in *)
(* the one thread of the window.                                           *)
(*                                                                         *)
(* SpFw takes the demand layer from a dictionary by node name that OPEN    *)
(* fills for one product after the other, each time anew: it holds the PSI *)
(* spaces, not copies, of the product opened last.                         *)
(*                                                                         *)
(* A product is a record: its inbound nodes, root and children, per node   *)
(* lead time (None: read from a 0), safety-stock shift and vacation weeks, *)
(* its lots, and the plans outbound planning may leave at the outbound     *)
(* root, the first of them that of loading the demand.  The root of every  *)
(* product is the node "supply_point", and a node has one row as a child.  *)
(***************************************************************************)
EXTENDS PsiNode

CONSTANTS
  Directories,   \* what OPEN may load: each a sequence of products
  Length,        \* weeks of a PSI space
  MaxCommands    \* bound on the commands of a session

None == -1

ASSUME LengthAssumption == Length \in Nat \ {0}

ASSUME ProductsAssumption ==
  \A directory \in Directories :
    /\ directory \in Seq({directory[i] : i \in DOMAIN directory}) /\ directory # <<>>
    /\ \A i \in DOMAIN directory : directory[i].root = directory[1].root
    /\ \A i \in DOMAIN directory :
         LET p == directory[i]
         IN  /\ TreeOf(p.nodes, p.root, p.children)
             /\ p.leadtime \in [p.nodes -> Nat \cup {None}]
             /\ p.ss \in [p.nodes -> Nat]
             /\ p.vacation \in [p.nodes -> SUBSET Nat]
             /\ \A n \in p.nodes : IsFiniteSet(p.vacation[n])
             /\ p.plans \in Seq(Space(Length, Nat)) /\ p.plans # <<>>

VARIABLES
  products,     \* the products opened, in the order opened
  outbound,     \* product -> PSI space of the outbound root's supply layer
  psi4demand,   \* product -> inbound node -> PSI space
  psi4supply,   \* the same of the supply layer, as OPEN made it
  shared,       \* the <<product, node>> whose supply layer is a PSI space of
                \*   the demand layer of the product opened last
  last,         \* the last command
  passes,       \* product -> number of its DmBw
  own,          \* product -> its demand layer as its own commands leave it
  commands      \* number of commands

vars == <<products, outbound, psi4demand, psi4supply, shared, last, passes, own, commands>>

Opened     == DOMAIN products
LastOpened == Len(products)
Node(i)    == products[i].nodes
Root(i)    == products[i].root

Children(i, n) == products[i].children[n]
Parent(i, n)   == CHOOSE m \in Node(i) : Contains(Children(i, m), n)

PreOrder(i) ==
  LET visit[n \in Node(i)] ==
        <<n>> \o Concat([k \in 1 .. Len(Children(i, n)) |-> visit[Children(i, n)[k]]])
  IN  visit[Root(i)]

Place(i, n) == SelectInSeq(PreOrder(i), LAMBDA m : m = n)

(* The supply layer of a node.                                             *)
Supply(i, n) == IF <<i, n>> \in shared THEN psi4demand[LastOpened][n] ELSE psi4supply[i][n]

-----------------------------------------------------------------------------
(* calc_all_psiS2P2childS_preorder.                                        *)

(* The week a supplier ships what its parent receives in week w.           *)
Leaves(i, child, w) == check_lv_week_bw(products[i].vacation[child], w - products[i].leadtime[child])

(* The week's list is assigned, the last week first: of two weeks that are *)
(* shifted to one the earlier stays.                                       *)
shift_P2childS_LV_Later(i, node, child, c) ==
  [v \in DOMAIN child |->
     LET from == {w \in 1 .. Length - 2 : Leaves(i, c, w) = v}
     IN  IF v > 0 /\ from # {} THEN [child[v] EXCEPT !.S = node[Max(from)].P] ELSE child[v]]

shift_P2childS_LV(i, node, child, c) ==
  [v \in DOMAIN child |->
     LET from == {w \in 1 .. Length - 2 : Leaves(i, c, w) = v}
     IN  IF v > 0 /\ from # {} THEN [child[v] EXCEPT !.S = node[Min(from)].P] ELSE child[v]]

NoLeadTime(i, n) == products[i].leadtime[n] = None

(* The node at whose children the walk stops: a lead time of None cannot   *)
(* be subtracted.  The root if there is none, which no walk stops at.      *)
StopsAt(i) ==
  {n \in Node(i) : \E c \in ToSet(Children(i, n)) : NoLeadTime(i, c)}

Visited(i, n) == \A m \in StopsAt(i) : Place(i, n) <= Place(i, m)

Fed(i, c) ==
  LET n == Parent(i, c)
      before == SubSeq(Children(i, n), 1, SelectInSeq(Children(i, n), LAMBDA m : m = c))
  IN  Visited(i, n) /\ \A m \in ToSet(before) : ~NoLeadTime(i, m)

(* The demand layer after the walk, given the layer before it.             *)
calc_all_psiS2P2childS_preorder(i, layer) ==
  LET after[n \in Node(i)] ==
        LET fed == IF n # Root(i) /\ Fed(i, n)
                   THEN shift_P2childS_LV(i, after[Parent(i, n)], layer[n], n)
                   ELSE layer[n]
        IN  IF Visited(i, n)
            THEN shiftS2P_LV(fed, products[i].ss[n], products[i].vacation[n])
            ELSE fed
  IN  after

-----------------------------------------------------------------------------
Command(name, i, raised) ==
  /\ commands < MaxCommands
  /\ commands' = commands + 1
  /\ last' = [command |-> name, product |-> i, raised |-> raised]

(* Outbound planning leaves another plan at the outbound root.             *)
Replan(i) ==
  /\ Command("replan", i, FALSE)
  /\ \E plan \in ToSet(products[i].plans) \ {outbound[i]} :
       outbound' = [outbound EXCEPT ![i] = plan]
  /\ UNCHANGED <<products, psi4demand, psi4supply, shared, passes, own>>

(* connect_outbound2inbound writes the lists of the root's two layers one  *)
(* by one: into whatever PSI space the supply layer is.                    *)
Inbound_DmBw(i) ==
  LET root == Root(i)
      Connected(layer) == [layer EXCEPT ![root] = outbound[i]]
      Ordered(layer)   == calc_all_psiS2P2childS_preorder(i, Connected(layer))
      through == IF <<i, root>> \in shared
                 THEN [psi4demand EXCEPT ![LastOpened][root] = outbound[i]]
                 ELSE psi4demand
  IN  /\ Command("DmBw", i, StopsAt(i) # {})
      /\ psi4demand' = [through EXCEPT ![i] = Ordered(@)]
      /\ psi4supply' = IF <<i, root>> \in shared THEN psi4supply
                       ELSE [psi4supply EXCEPT ![i] = Connected(@)]
      /\ own' = [own EXCEPT ![i] = Ordered(@)]
      /\ passes' = [passes EXCEPT ![i] = @ + 1]
      /\ UNCHANGED <<products, outbound, shared>>

(* The nodes up to the first that the dictionary does not name are         *)
(* connected; only if it names all are the stocks reckoned.                *)
Unnamed(i) == {n \in Node(i) : n \notin Node(LastOpened)}

Connected(i) == {n \in Node(i) : \A m \in Unnamed(i) : Place(i, n) < Place(i, m)}

Inbound_SpFw_WholeTree(i) ==
  LET Stocked(layer) == [n \in DOMAIN layer |-> calcPS2I4supply(layer[n])]
  IN  /\ Command("SpFw", i, Unnamed(i) # {})
      /\ shared' = shared \cup {<<i, n>> : n \in Connected(i)}
      /\ psi4demand' = IF Unnamed(i) = {}
                       THEN [psi4demand EXCEPT ![LastOpened] = Stocked(@)]
                       ELSE psi4demand
      /\ own' = IF i = LastOpened THEN [own EXCEPT ![i] = Stocked(@)] ELSE own
      /\ UNCHANGED <<products, outbound, psi4supply, passes>>

Inbound_SpFw(i) ==
  LET Stocked(layer) ==
        [n \in DOMAIN layer |-> IF n \in Node(i) THEN calcPS2I4supply(layer[n]) ELSE layer[n]]
  IN  /\ Command("SpFw", i, Unnamed(i) # {})
      /\ shared' = shared \cup {<<i, n>> : n \in Connected(i)}
      /\ psi4demand' = IF Unnamed(i) = {}
                       THEN [psi4demand EXCEPT ![LastOpened] = Stocked(@)]
                       ELSE psi4demand
      /\ own' = IF i = LastOpened THEN [own EXCEPT ![i] = Stocked(@)] ELSE own
      /\ UNCHANGED <<products, outbound, psi4supply, passes>>

-----------------------------------------------------------------------------
NewSpaces == [i \in Opened |-> [n \in Node(i) |-> EmptyPsi(Length)]]

Init ==
  /\ products \in Directories
  /\ outbound = [i \in Opened |-> products[i].plans[1]]
  /\ psi4demand = NewSpaces
  /\ psi4supply = NewSpaces
  /\ shared = {}
  /\ last = [command |-> "OPEN", product |-> LastOpened, raised |-> FALSE]
  /\ passes = [i \in Opened |-> 0]
  /\ own = NewSpaces
  /\ commands = 0

SessionOver == commands = MaxCommands /\ UNCHANGED vars

Next ==
  \/ \E i \in Opened : Replan(i) \/ Inbound_DmBw(i) \/ Inbound_SpFw(i)
  \/ SessionOver

Spec == Init /\ [][Next]_vars

-----------------------------------------------------------------------------
(* Properties.                                                             *)

(* The weeks in which a lot must leave each node, reckoned for this lot    *)
(* alone from the outbound plan.                                           *)
RequestedWeeks(i, lot) ==
  LET p == products[i]
      Arrives(n, leaves) ==
        {Slot(Length, check_lv_week_bw(p.vacation[n], v - p.ss[n])) :
           v \in {u \in leaves : u > p.ss[n]}}
      First(c, w) == \A u \in 1 .. w - 1 : Leaves(i, c, u) # Leaves(i, c, w)
      week[n \in Node(i)] ==
        IF n = Root(i) THEN WeeksOf(outbound[i], "S", lot)
        ELSE LET m == Parent(i, n)
                 arrives == Arrives(m, week[m])
                   \cup (IF m = Root(i) THEN WeeksOf(outbound[i], "P", lot) ELSE {})
             IN  {Leaves(i, n, w) :
                    w \in {u \in arrives \cap 1 .. Length - 2 :
                           First(n, u) /\ Leaves(i, n, u) > 0}}
  IN  week

(* Orders follow the outbound plan: after DmBw each supplier of the root   *)
(* is asked to ship each lot in the weeks reckoned for this lot alone from *)
(* the outbound plan of the day, and in no other, however often inbound    *)
(* planning was done before; further away nothing of the day's plan is     *)
(* missing, and nothing else is ordered if it is the product's first DmBw. *)
(* A lot is left out if its week is shifted to one that an earlier week is *)
(* shifted to, or to the start of the plan.                                *)
OrdersFollowPlan ==
  \A i \in Opened : last = [command |-> "DmBw", product |-> i, raised |-> FALSE] =>
    \A lot \in products[i].lots, n \in Node(i) :
      LET requested == RequestedWeeks(i, lot)[n]
          asked == WeeksOf(psi4demand[i][n], "S", lot)
          near  == n = Root(i) \/ Parent(i, n) = Root(i)
      IN  /\ requested \subseteq asked
          /\ near \/ passes[i] = 1 => asked = requested

(* A product's orders are its own: whatever is planned for the others, the *)
(* demand layer of each product is what its own commands make it, except   *)
(* for the product opened last, and there only at nodes that have become   *)
(* another product's supply layer; what such a node ships or receives      *)
(* differs only if it is the other's root, and the damage never reaches    *)
(* the node's suppliers.                                                   *)
OrdersAreOwn ==
  \A i \in Opened, n \in UNION {Node(j) : j \in Opened} :
    n \in Node(i) /\ psi4demand[i][n] # own[i][n] =>
      /\ i = LastOpened
      /\ \E j \in Opened \ {i} : <<j, n>> \in shared
      /\ \/ \E j \in Opened \ {i} : n = Root(j)
         \/ \A w \in 0 .. Length - 1, bucket \in {"S", "P"} :
              psi4demand[i][n][w][bucket] = own[i][n][w][bucket]

(* After an SpFw that ended well the stock of every node of the product    *)
(* agrees with what its supply layer ships and receives, whichever PSI     *)
(* spaces that layer has become.                                           *)
StockFollowsMoves ==
  last.command = "SpFw" /\ ~last.raised =>
    LET i == last.product
    IN  \A n \in Node(i) :
          StockAgrees(Supply(i, n), UNION {products[j].lots : j \in Opened})

=============================================================================
