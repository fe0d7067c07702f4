------------------------------ MODULE PsiState ------------------------------
(***************************************************************************)
(* SAVE and LOAD of the planner window (pysi/gui/app.py): the directory    *)
(* psi_state that pysi/io/psi_state_io.py writes and psi_state_loader.py   *)
(* reads.                                                                  *)
(*                                                                         *)
(* A save writes eight files, one after the other, each by emptying it and *)
(* then writing it.  It ends early if a node without a lead time (Python's *)
(* None, read from a 0) is met in one of the trees, or if the process dies;*)
(* what was in the directory then stays, up to the file being written.     *)
(* The last file is a hash of the others, which a load reckons anew but    *)
(* does not act on.                                                        *)
(*                                                                         *)
(* What a window holds is a record: trees (product -> node -> psi4demand), *)
(* inbound (the products with an inbound tree), products (the list the     *)
(* window shows), root (the product whose trees it draws, or NoProduct),   *)
(* range (the weeks it plans) and fails (the first file that meets a node  *)
(* without a lead time, or NoFile).  The supply layer is not here: a save  *)
(* leaves it out.                                                          *)
(***************************************************************************)
EXTENDS PsiNode

CONSTANTS
  Environments, \* what a window may hold when the process starts
  Plans,        \* what OPEN and planning may put in a window
  NewNodeWeeks, \* weeks of the PSI space a node is made with: 53
  NoProduct,
  MaxSteps      \* bound on the commands of a session

ASSUME NewNodeWeeksAssumption == NewNodeWeeks \in Nat

(* A window plans a number of weeks.                                       *)
ASSUME RangesAssumption == \A win \in Environments \cup Plans : win.range \in Nat

NoFile == 0
physical_tree_outbound == 1
physical_tree_inbound  == 2
product_tree_outbound  == 3
product_tree_inbound   == 4
psi_events             == 5
parameters             == 6
metadata               == 7
state_hash             == 8

Files == physical_tree_outbound .. state_hash

VARIABLES
  window,
  disk,      \* file -> {what it holds}, or {} if missing or not written to its end
  savedBy,   \* file -> the save that emptied it last, 0 if it is missing
  writing,   \* the file a save is at, or NoFile
  emptied,   \* has it emptied this file?
  last,      \* the last command, and whether it ended with an exception
  saves,     \* number of saves begun
  kept,      \* the window of the last save that wrote its hash, as a set
  source,    \* the lots the window's lists come from, and how often they have
             \*   been saved and loaded since
  eventsOf,  \* the same of the file psi_events
  steps      \* number of commands

vars == <<window, disk, savedBy, writing, emptied, last, saves, kept, source, eventsOf, steps>>

-----------------------------------------------------------------------------
(* SAVE.                                                                   *)

SavedAs == [S |-> "P", I |-> "S", P |-> "I"]

Rows(psi, weeks) ==
  {<<w, SavedAs[bucket], psi[w][bucket]>> :
     w \in DOMAIN psi \cap 0 .. weeks - 1, bucket \in {"S", "I", "P"}}

(* The lists of lots that have any, by product and node.                   *)
collect_psi_events(win) ==
  {event \in UNION {UNION {{p} \X {n} \X Rows(win.trees[p][n], win.range) :
                              n \in DOMAIN win.trees[p]} : p \in DOMAIN win.trees} :
     event[3][3] # <<>>}

compute_state_hash_TreesOnly(files) == [f \in 1 .. product_tree_inbound |-> files[f]]

compute_state_hash(files) == [f \in Files \ {state_hash} |-> files[f]]

(* What a save of a window writes into a file.                             *)
Content(win, f) ==
  CASE f \in {physical_tree_outbound, physical_tree_inbound} -> win.root
    [] f = product_tree_outbound -> [p \in DOMAIN win.trees |-> DOMAIN win.trees[p]]
    [] f = product_tree_inbound  -> win.inbound
    [] f = psi_events            -> collect_psi_events(win)
    [] f = parameters            -> win.range
    [] f = metadata              -> "notes"

Command(name, raised) ==
  /\ writing = NoFile
  /\ steps < MaxSteps
  /\ steps' = steps + 1
  /\ last' = [command |-> name, raised |-> raised]

save_to_directory_PlanOnly ==
  /\ Command("SAVE", FALSE)
  /\ IF DOMAIN window.trees = {} THEN UNCHANGED <<writing, saves>>
     ELSE /\ writing' = IF saves = 0 THEN physical_tree_outbound ELSE product_tree_outbound
          /\ saves' = saves + 1
  /\ UNCHANGED <<window, disk, savedBy, emptied, kept, source, eventsOf>>

(* Without outbound trees nothing is written.                              *)
save_to_directory ==
  /\ Command("SAVE", FALSE)
  /\ IF DOMAIN window.trees = {} THEN UNCHANGED <<writing, saves>>
     ELSE writing' = physical_tree_outbound /\ saves' = saves + 1
  /\ UNCHANGED <<window, disk, savedBy, emptied, kept, source, eventsOf>>

(* The input CSV files are copied first, and a copy may fail, onto itself  *)
(* for one, before any file of the state is touched.                       *)
CopyRaises ==
  /\ Command("SAVE", TRUE)
  /\ UNCHANGED <<window, disk, savedBy, writing, emptied, saves, kept, source, eventsOf>>

EmptyFile ==
  /\ writing # NoFile /\ ~emptied
  /\ disk' = [disk EXCEPT ![writing] = {}]
  /\ savedBy' = [savedBy EXCEPT ![writing] = saves]
  /\ emptied' = TRUE
  /\ UNCHANGED <<window, writing, last, saves, kept, source, eventsOf, steps>>

(* The lots of the weeks saved.                                            *)
Cut(origin, weeks) ==
  [p \in DOMAIN origin |-> [n \in DOMAIN origin[p] |->
     [w \in DOMAIN origin[p][n] \cap 0 .. weeks - 1 |-> origin[p][n][w]]]]

WriteFile ==
  /\ emptied /\ writing # window.fails
  /\ disk' = [disk EXCEPT ![writing] =
                IF writing = state_hash THEN {compute_state_hash(disk)}
                ELSE {Content(window, writing)}]
  /\ writing' = IF writing = state_hash THEN NoFile ELSE writing + 1
  /\ emptied' = FALSE
  /\ kept' = IF writing = state_hash THEN {window} ELSE kept
  /\ eventsOf' = IF writing = psi_events
                 THEN [source EXCEPT !.lots = Cut(@, window.range)] ELSE eventsOf
  /\ UNCHANGED <<window, savedBy, last, saves, source, steps>>

(* int(None): TypeError.                                                   *)
WriteRaises ==
  /\ emptied /\ writing = window.fails
  /\ last' = [last EXCEPT !.raised = TRUE]
  /\ writing' = NoFile
  /\ emptied' = FALSE
  /\ UNCHANGED <<window, disk, savedBy, saves, kept, source, eventsOf, steps>>

-----------------------------------------------------------------------------
(* LOAD.                                                                   *)

Missing(f)  == savedBy[f] = 0
Damaged(f)  == ~Missing(f) /\ disk[f] = {}
Read(f)     == CHOOSE value \in disk[f] : TRUE
ReadOr(f, default) == IF Missing(f) THEN default ELSE Read(f)

NoTrees    == [p \in {} |-> {}]
Nothing    == [lots |-> NoTrees, trips |-> 0]
SavedTrees == ReadOr(product_tree_outbound, NoTrees)

(* A damaged JSON or parquet file ends the load; the hash is only logged.  *)
load_psi_state_raises ==
  \/ \E f \in Files \ {psi_events, state_hash} : Damaged(f)
  \/ /\ Damaged(psi_events)
     /\ ~Damaged(product_tree_outbound) /\ DOMAIN SavedTrees # {}

(* Every node of the trees gets the weeks of the calendar, or as many as   *)
(* the events have.                                                        *)
WeeksLoaded_Hint(rows) == ReadOr(parameters, 0)

WeeksLoaded(rows) == Max({ReadOr(parameters, 0)} \cup {row[3][1] + 1 : row \in rows})

Week(rows, p, n, w) ==
  [bucket \in {"S", "I", "P"} |->
     LET lists == {lots \in {row[3][3] : row \in {r \in rows :
                     r[1] = p /\ r[2] = n /\ r[3][1] = w /\ r[3][2] = bucket}} : TRUE}
     IN  IF lists = {} THEN <<>> ELSE CHOOSE lots \in lists : TRUE]

attach_psi_events_from_parquet ==
  LET rows == ReadOr(psi_events, {})
  IN  [p \in DOMAIN SavedTrees |-> [n \in SavedTrees[p] |->
         IF rows = {} THEN EmptyPsi(NewNodeWeeks)
         ELSE [w \in 0 .. WeeksLoaded(rows) - 1 |-> Week(rows, p, n, w)]]]

FirstListed(products) == IF products = <<>> THEN NoProduct ELSE products[1]

Alphabetical(products) == SetToSortSeq(products, <)

ListAfter(trees, raises) == Alphabetical(DOMAIN trees)

(* The root is that of the first product of the list of before; the list   *)
(* follows.  The inbound tree of each product, and then the root, must be  *)
(* there: else KeyError or AttributeError.                                 *)
load_psi_state_from_directory ==
  LET trees   == attach_psi_events_from_parquet
      inbound == ReadOr(product_tree_inbound, {})
      root    == IF FirstListed(window.products) \in DOMAIN trees THEN FirstListed(window.products) ELSE NoProduct
      raises  == DOMAIN trees \ inbound # {} \/ root = NoProduct
      events  == IF ReadOr(psi_events, {}) = {} THEN Nothing ELSE eventsOf
      loaded  == DOMAIN events.lots \cap DOMAIN trees
  IN  /\ ~load_psi_state_raises
      /\ Command("LOAD", raises)
      /\ window' = [window EXCEPT !.trees = trees, !.inbound = inbound, !.root = root,
                      !.products = ListAfter(trees, raises), !.fails = NoFile]
      /\ source' =
           [lots  |-> [p \in loaded |-> [n \in DOMAIN events.lots[p] \cap DOMAIN trees[p] |->
                         events.lots[p][n]]],
            trips |-> events.trips + 1]
      /\ UNCHANGED <<disk, savedBy, writing, emptied, saves, kept, eventsOf>>

(* Everything is read before the window changes.                           *)
LoadRaises ==
  /\ load_psi_state_raises
  /\ Command("LOAD", TRUE)
  /\ UNCHANGED <<window, disk, savedBy, writing, emptied, saves, kept, source, eventsOf>>

-----------------------------------------------------------------------------
(* OPEN and planning fill the window anew.                                 *)
Plan(win) ==
  /\ window' = win
  /\ source' = [lots |-> win.trees, trips |-> 0]

Replan ==
  /\ Command("OPEN", FALSE)
  /\ \E win \in Plans \ {window} : Plan(win)
  /\ UNCHANGED <<disk, savedBy, writing, emptied, saves, kept, eventsOf>>

(* The process dies during a save, and is started again.                   *)
Crash ==
  /\ writing # NoFile
  /\ \E win \in Environments : Plan(win)
  /\ writing' = NoFile
  /\ emptied' = FALSE
  /\ last' = [command |-> "OPEN", raised |-> FALSE]
  /\ UNCHANGED <<disk, savedBy, saves, kept, eventsOf, steps>>

Init ==
  /\ \E win \in Environments : window = win /\ source = [lots |-> win.trees, trips |-> 0]
  /\ disk = [f \in Files |-> {}]
  /\ savedBy = [f \in Files |-> 0]
  /\ writing = NoFile
  /\ emptied = FALSE
  /\ last = [command |-> "OPEN", raised |-> FALSE]
  /\ saves = 0
  /\ kept = {}
  /\ eventsOf = Nothing
  /\ steps = 0

SessionOver == writing = NoFile /\ steps = MaxSteps /\ UNCHANGED vars

Next ==
  \/ save_to_directory \/ CopyRaises \/ EmptyFile \/ WriteFile \/ WriteRaises
  \/ load_psi_state_from_directory \/ LoadRaises
  \/ Replan \/ Crash
  \/ SessionOver

Spec == Init /\ [][Next]_vars

-----------------------------------------------------------------------------
(* Properties.                                                             *)

(* Files are written in one order, so a directory left by any number of    *)
(* saves, cut short anywhere, never has a file of a later save behind one  *)
(* of an earlier save: the trees a load builds are never older than the    *)
(* events it puts into them, and the hash is the oldest of all.            *)
FilesInSaveOrder ==
  \A f, g \in Files : f < g => savedBy[f] >= savedBy[g]

(* The hash tells a mix: whatever saves were cut short in a directory, if  *)
(* its hash agrees with its files, each of them is written to its end and  *)
(* holds what the last save that ended well wrote into it.                 *)
HashTellsMix ==
  disk[state_hash] = {compute_state_hash(disk)} =>
    \E win \in kept : \A f \in Files \ {state_hash} : disk[f] = {Content(win, f)}

(* The buckets, in the order in which saving and loading turns them.       *)
Turn == <<"S", "P", "I">>
Turned(i, trips) == Turn[((i - 1 + trips) % 3) + 1]

(* Saving and loading loses no lot of the weeks saved and adds none: at    *)
(* each node loaded each list of lots of the plan is there, whole, in its  *)
(* week, whatever mix of saves the directory is and whatever calendar was  *)
(* saved with it; and after every third time it is back in its bucket.     *)
LotsKept ==
  \A p \in DOMAIN window.trees : \A n \in DOMAIN window.trees[p] :
    LET psi  == window.trees[p][n]
        was  == IF p \in DOMAIN source.lots /\ n \in DOMAIN source.lots[p]
                THEN source.lots[p][n] ELSE EmptyPsi(0)
    IN  \A i \in 1 .. 3, w \in DOMAIN psi \cup DOMAIN was :
          LET lots == IF w \in DOMAIN was THEN was[w][Turn[i]] ELSE <<>>
          IN  IF w \in DOMAIN psi THEN psi[w][Turned(i, source.trips)] = lots ELSE lots = <<>>

(* psi_state_loader.py:294: loading restores psi4demand[w][bucket_idx].    *)
LoadRestoresDemand ==
  \A p \in DOMAIN source.lots : \A n \in DOMAIN source.lots[p] :
    \A w \in DOMAIN source.lots[p][n] :
      source.lots[p][n][w] # EmptyWeek => window.trees[p][n][w] = source.lots[p][n][w]

=============================================================================
