--------------------------- MODULE PlannerEngines ---------------------------
(***************************************************************************)
(* The planner window (pysi/gui/app.py) on the trees its environment has   *)
(* loaded: the engine buttons (1) to (5) of pysi/plan/engines.py, their    *)
(* sequences "Run Full" and "Run & Save Results", and the planning buttons *)
(* of PsiPlanning, pressed in any order.                                   *)
(*                                                                         *)
(* The environment makes PSI spaces of the planned years for the outbound  *)
(* tree only; the inbound nodes keep the one year a node is made with.     *)
(* Copying the outbound root's supply week by week to the inbound root     *)
(* ends with an exception after that year, before anything is ordered of a *)
(* supplier: of the inbound tree only the root is ever filled, so only the *)
(* root is here (InboundPlanning has the trees that OPEN loads).           *)
(***************************************************************************)
EXTENDS PsiPlanning

CONSTANT DADs      \* the node names that start with "DAD"

ASSUME PlanIsLonger == \A p \in Products : Len(p.weeks) > 2

VARIABLES
  in_demand,       \* the inbound root's PSI spaces
  in_supply,
  decouple_node_selected,
  stages,          \* the stages a sequence has still to run
  done,            \* the stages it has run
  saving,          \* will its results be saved when it ends?
  saved,           \* of each run saved, the stages run
  passes           \* how often arrivals were derived from shipments

inbound  == <<in_demand, in_supply>>
sequence == <<stages, done, saving, saved>>

windowVars == <<vars, inbound, decouple_node_selected, sequence, passes>>

Sequence == << "outbound_backward_leaf_to_MOM", "inbound_MOM_leveling_vs_capacity",
               "inbound_backward_MOM_to_leaf", "inbound_forward_leaf_to_MOM", "push_pull" >>

Free == todo = <<>> /\ stages = <<>> /\ ~saving

-----------------------------------------------------------------------------
(* The stages.  Each ends well or with an exception.                       *)

NoMorePlanning == UNCHANGED <<product, psi4supply, decouple, todo, loaded>>

(* (1) calcS2P of every outbound node: its arrivals are appended.          *)
outbound_backward_leaf_to_MOM ==
  /\ psi4demand' = [n \in product.nodes |->
                      shiftS2P_LV(psi4demand[n], product.ss[n], product.vacation[n])]
  /\ passes' = passes + 1
  /\ raised' = FALSE
  /\ NoMorePlanning
  /\ UNCHANGED <<inbound, decouple_node_selected>>

(* (2) The inbound root's children are a list, and have no get.  "Inbound  *)
(* SpFw" looks a node up in a dictionary that only OPEN fills.             *)
RaisesAtOnce ==
  /\ raised' = TRUE
  /\ NoMorePlanning
  /\ UNCHANGED <<psi4demand, inbound, decouple_node_selected, passes>>

(* (3) and "Inbound DmBw" copy the outbound root's supply to both layers   *)
(* of the inbound root, until its PSI space ends.                          *)
connect_outbound2inbound ==
  LET year == [w \in 0 .. SlotsPerYear - 1 |-> psi4supply[product.root][w]]
  IN  /\ in_demand' = year
      /\ in_supply' = year
      /\ raised' = TRUE
      /\ NoMorePlanning
      /\ UNCHANGED <<psi4demand, decouple_node_selected, passes>>

(* (4) Stock of every inbound node.                                        *)
inbound_forward_leaf_to_MOM ==
  /\ in_supply' = calcPS2I4supply(in_supply)
  /\ raised' = FALSE
  /\ NoMorePlanning
  /\ UNCHANGED <<psi4demand, in_demand, decouple_node_selected, passes>>

(* (5) Push down to the decoupling nodes selected, else to the last but    *)
(* one of the candidates; the walk is that of supply planning.             *)
push_pull ==
  LET cuts  == make_nodes_decouple_all(product)
      names == IF decouple_node_selected # {} THEN decouple_node_selected
               ELSE ToSet(cuts[IF Len(cuts) > 1 THEN Len(cuts) - 1 ELSE 1])
  IN  /\ decouple' = names
      /\ todo' = <<product.root>>
      /\ raised' = FALSE
      /\ UNCHANGED <<product, psi4demand, psi4supply, loaded, inbound,
                     decouple_node_selected, passes>>

-----------------------------------------------------------------------------
(* Buttons.                                                                *)

Press(name) == Free /\ loaded /\ Begin(name) /\ UNCHANGED sequence

EngineButton ==
  \/ Press("engine") /\ outbound_backward_leaf_to_MOM
  \/ Press("engine") /\ RaisesAtOnce
  \/ Press("engine") /\ connect_outbound2inbound
  \/ Press("engine") /\ inbound_forward_leaf_to_MOM
  \/ Press("supply_planning") /\ push_pull

(* The planning buttons select decoupling nodes, or none.                  *)
PlanningButton ==
  /\ Free
  /\ \/ BeginDemandPlanning /\ decouple_node_selected' = {}
     \/ BeginLeveling /\ UNCHANGED decouple_node_selected
     \/ BeginSupplyPlanning /\ decouple_node_selected' = IF raised' THEN {} ELSE decouple'
  /\ UNCHANGED <<inbound, sequence, passes>>

(* on_product_changed selects the names that start with DAD.               *)
SelectProduct ==
  /\ Free /\ loaded
  /\ decouple_node_selected' = product.nodes \cap DADs
  /\ UNCHANGED <<vars, inbound, sequence, passes>>

(* The environment is loaded once, before the window opens.                *)
Load ==
  /\ Free /\ ~loaded
  /\ BeginLoad
  /\ UNCHANGED <<inbound, decouple_node_selected, sequence, passes>>

Visit ==
  /\ Step
  /\ UNCHANGED <<inbound, decouple_node_selected, sequence, passes>>

-----------------------------------------------------------------------------
(* Run Full and Run & Save: the stages in order, up to the first exception.*)
(* Run Full names push and pull as two stages in place of the last one:    *)
(* neither sequence comes that far, the second stage always raises.        *)

RunSequence ==
  /\ Free /\ loaded
  /\ Begin("engine")
  /\ stages' = Sequence
  /\ done' = {}
  /\ saving' \in BOOLEAN
  /\ UNCHANGED <<product, psi4demand, psi4supply, todo, decouple, raised, loaded,
                 inbound, decouple_node_selected, saved, passes>>

StageOf(name) ==
  CASE name = "outbound_backward_leaf_to_MOM" -> outbound_backward_leaf_to_MOM
    [] name = "inbound_MOM_leveling_vs_capacity" -> RaisesAtOnce
    [] name = "inbound_backward_MOM_to_leaf" -> connect_outbound2inbound
    [] name = "inbound_forward_leaf_to_MOM" -> inbound_forward_leaf_to_MOM
    [] name = "push_pull" -> push_pull

NextStage_Stuck ==
  /\ todo = <<>> /\ stages # <<>>
  /\ StageOf(Head(stages))
  /\ stages' = IF raised' THEN stages ELSE Tail(stages)
  /\ done' = IF raised' THEN done ELSE done \cup {Head(stages)}
  /\ UNCHANGED <<command, commands, saving, saved>>

NextStage ==
  /\ todo = <<>> /\ stages # <<>>
  /\ StageOf(Head(stages))
  /\ stages' = IF raised' THEN <<>> ELSE Tail(stages)
  /\ done' = IF raised' THEN done ELSE done \cup {Head(stages)}
  /\ UNCHANGED <<command, commands, saving, saved>>

(* An exception of the sequence is caught, and the run saved.              *)
Save ==
  /\ todo = <<>> /\ stages = <<>> /\ saving
  /\ saved' = saved \cup {done}
  /\ saving' = FALSE
  /\ UNCHANGED <<vars, inbound, decouple_node_selected, stages, done, passes>>

(* So is an exception of saving (save_run_results, one transaction: a run  *)
(* of the same second, a database in use); a dialog reports it.            *)
SaveRaises ==
  /\ todo = <<>> /\ stages = <<>> /\ saving
  /\ saving' = FALSE
  /\ UNCHANGED <<vars, inbound, decouple_node_selected, stages, done, saved, passes>>

-----------------------------------------------------------------------------
WindowInit ==
  /\ Init
  /\ in_demand = EmptyPsi(SlotsPerYear)
  /\ in_supply = EmptyPsi(SlotsPerYear)
  /\ decouple_node_selected = {}
  /\ stages = <<>>
  /\ done = {}
  /\ saving = FALSE
  /\ saved = {}
  /\ passes = 1

Handler == Visit \/ NextStage \/ Save \/ SaveRaises

WindowOver == Free /\ commands = MaxCommands /\ UNCHANGED windowVars

WindowNext ==
  \/ Load \/ EngineButton \/ PlanningButton \/ SelectProduct \/ RunSequence
  \/ Handler
  \/ WindowOver

WindowSpec == WindowInit /\ [][WindowNext]_windowVars

-----------------------------------------------------------------------------
(* Properties.                                                             *)

Occurrences(psi, bucket, lot) ==
  LET lots == Flat(psi, bucket) IN Cardinality({i \in DOMAIN lots : lots[i] = lot})

(* Deriving arrivals anew does not replace the old: loading does it once,  *)
(* every (1) and every sequence once more, and each time every lot shipped *)
(* after the weeks of safety stock is added to the week it arrives in.     *)
ArrivalsCountPasses ==
  loaded =>
    \A n \in product.nodes, lot \in Lots :
      Occurrences(psi4demand[n], "P", lot) =
        passes * Cardinality({w \in WeeksOf(psi4demand[n], "S", lot) : w > product.ss[n]})

(* However often the demand layer lists a lot, and whatever was pushed and *)
(* pulled, no node's supply layer has a lot in stock twice in a week.      *)
SuppliedOnce ==
  \A n \in product.nodes, w \in 0 .. Length(product) - 1 :
    LET stock == psi4supply[n][w].I IN Cardinality(ToSet(stock)) = Len(stock)

(* app.py:2569: Run & Save runs the sequence (1) to (5).                   *)
SavedRunIsPlanned == saved \subseteq {ToSet(Sequence)}

(* Run & Save comes to its save, whatever stage fails and however: each of *)
(* its steps leaves fewer stages, until none is left and what was run is   *)
(* saved, or the database refuses it.  As no state is a deadlock, it ends. *)
RunIsSaved ==
  [][saving => \/ saving' /\ Len(stages') < Len(stages)
               \/ ~saving' /\ stages = <<>> /\ saved' \in {saved, saved \cup {done}}]_windowVars

-----------------------------------------------------------------------------
(* Names under which what is selected pulls every leaf: a product has no   *)
(* such node, or one above every leaf.                                     *)
DADsCover ==
  \A p \in Products :
    LET selection == p.nodes \cap DADs
    IN  \/ selection = {}
        \/ \A n \in p.nodes : IsLeaf(p, n) => \E m \in selection : n \in Below(p, m)

=============================================================================
