--------------------------- MODULE PsiStateProofs ---------------------------
(***************************************************************************)
(* Proofs of PsiState: the files of a directory are in the order of saves, *)
(* its hash tells a mix of saves, and no lot is lost or added, for any     *)
(* windows, any number of saves and loads, and a crash or an exception     *)
(* anywhere.                                                               *)
(***************************************************************************)
EXTENDS PsiState, OperatorLemmas

(* The save under way has written the files before the one it is at, and   *)
(* has at most emptied that one.                                           *)
SaveUnderWay ==
  writing # NoFile =>
    /\ emptied => savedBy[writing] = saves
    /\ \A f \in Files : f < writing => savedBy[f] = saves /\ disk[f] = {Content(window, f)}

(* A hash written to its end is that of the window kept.                   *)
HashOfKept ==
  disk[state_hash] # {} =>
    \E win \in kept :
      disk[state_hash] = {[f \in Files \ {state_hash} |-> {Content(win, f)}]}

Types ==
  /\ DOMAIN disk = Files
  /\ savedBy \in [Files -> Nat]
  /\ saves \in Nat
  /\ writing \in Files \cup {NoFile}
  /\ emptied \in BOOLEAN
  /\ emptied => writing # NoFile
  /\ \A f \in Files : savedBy[f] <= saves

IInv == Types /\ FilesInSaveOrder /\ SaveUnderWay /\ HashOfKept

LEMMA FilesAreNumbers ==
  /\ Files \subseteq Nat
  /\ physical_tree_outbound \in Files /\ state_hash \in Files
  /\ NoFile \notin Files
  /\ \A f \in Files : ~(f < physical_tree_outbound) /\ f <= state_hash
  /\ \A f \in Files \ {state_hash} : f < state_hash /\ f + 1 \in Files
  /\ \A f, g \in Files : f < g + 1 <=> f < g \/ f = g
BY DEF Files, physical_tree_outbound, state_hash, NoFile

LEMMA Initially == Init => IInv
<1> SUFFICES ASSUME Init PROVE IInv
  OBVIOUS
<1>0. /\ disk = [f \in Files |-> {}] /\ savedBy = [f \in Files |-> 0]
      /\ saves = 0 /\ writing = NoFile /\ emptied = FALSE
  BY DEF Init
<1>1. Types
  <2>1. DOMAIN disk = Files
    BY <1>0
  <2>2. savedBy \in [Files -> Nat] /\ \A f \in Files : savedBy[f] <= saves
    BY <1>0
  <2>3. saves \in Nat /\ writing \in Files \cup {NoFile}
    BY <1>0
  <2> QED
    BY <1>0, <2>1, <2>2, <2>3 DEF Types
<1>2. FilesInSaveOrder
  BY <1>0 DEF FilesInSaveOrder
<1>3. SaveUnderWay /\ HashOfKept
  BY <1>0, FilesAreNumbers DEF SaveUnderWay, HashOfKept
<1> QED
  BY <1>1, <1>2, <1>3 DEF IInv

(* A step that leaves the directory alone and no save under way.           *)
LEMMA DirectoryAlone ==
  ASSUME IInv, UNCHANGED <<disk, savedBy, saves, kept>>,
         writing' = NoFile, emptied' = FALSE
  PROVE  IInv'
<1>1. Types'
  BY FilesAreNumbers DEF IInv, Types
<1>2. FilesInSaveOrder'
  BY DEF IInv, FilesInSaveOrder
<1>3. SaveUnderWay'
  BY DEF SaveUnderWay
<1>4. HashOfKept'
  BY DEF IInv, HashOfKept
<1> QED
  BY <1>1, <1>2, <1>3, <1>4 DEF IInv

LEMMA CommandsKeepIInv ==
  ASSUME IInv,
         \/ load_psi_state_from_directory \/ LoadRaises \/ Replan
         \/ CopyRaises \/ WriteRaises \/ Crash
  PROVE  IInv'
<1>1. UNCHANGED <<disk, savedBy, saves, kept>>
  BY DEF load_psi_state_from_directory, LoadRaises, Replan, CopyRaises, WriteRaises, Crash
<1>2. writing' = NoFile /\ emptied' = FALSE
  BY DEF load_psi_state_from_directory, LoadRaises, Replan, CopyRaises, WriteRaises, Crash,
         Command, IInv, Types
<1> QED
  BY <1>1, <1>2, DirectoryAlone

LEMMA SaveKeepsIInv ==
  ASSUME IInv, save_to_directory
  PROVE  IInv'
<1>0. writing = NoFile /\ emptied = FALSE
  BY DEF save_to_directory, Command, IInv, Types
<1>1. CASE DOMAIN window.trees = {}
  <2> QED
    BY <1>0, <1>1, DirectoryAlone DEF save_to_directory
<1>2. CASE DOMAIN window.trees # {}
  <2>0. /\ writing' = physical_tree_outbound /\ saves' = saves + 1
        /\ UNCHANGED <<window, disk, savedBy, emptied, kept>>
    BY <1>2 DEF save_to_directory
  <2>1. Types'
    BY <2>0, <1>0, FilesAreNumbers DEF IInv, Types
  <2>2. FilesInSaveOrder'
    BY <2>0 DEF IInv, FilesInSaveOrder
  <2>3. SaveUnderWay'
    BY <2>0, <1>0, FilesAreNumbers DEF SaveUnderWay
  <2>4. HashOfKept'
    BY <2>0 DEF IInv, HashOfKept
  <2> QED
    BY <2>1, <2>2, <2>3, <2>4 DEF IInv
<1> QED
  BY <1>1, <1>2

LEMMA EmptyFileKeepsIInv ==
  ASSUME IInv, EmptyFile
  PROVE  IInv'
<1>0. /\ writing \in Files /\ saves \in Nat /\ savedBy \in [Files -> Nat]
      /\ DOMAIN disk = Files
  BY DEF IInv, Types, EmptyFile
<1>1. \A f \in Files : /\ disk'[f] = IF f = writing THEN {} ELSE disk[f]
                       /\ savedBy'[f] = IF f = writing THEN saves ELSE savedBy[f]
  BY <1>0 DEF EmptyFile
<1>2. Types'
  BY <1>0, FilesAreNumbers DEF EmptyFile, IInv, Types
<1>3. FilesInSaveOrder'
  <2> SUFFICES ASSUME NEW f \in Files, NEW g \in Files, f < g
               PROVE  savedBy'[f] >= savedBy'[g]
    BY DEF FilesInSaveOrder
  <2>1. savedBy[f] >= savedBy[g] /\ savedBy[g] <= saves
    BY DEF IInv, FilesInSaveOrder, Types
  <2>2. CASE g = writing
    BY <1>0, <1>1, <2>2 DEF IInv, SaveUnderWay, EmptyFile
  <2>3. CASE g # writing
    BY <1>0, <1>1, <2>1, <2>3, FilesAreNumbers
  <2> QED
    BY <2>2, <2>3
<1>4. SaveUnderWay'
  BY <1>0, <1>1, FilesAreNumbers DEF EmptyFile, IInv, SaveUnderWay
<1>5. HashOfKept'
  BY <1>0, <1>1, FilesAreNumbers DEF EmptyFile, IInv, HashOfKept
<1> QED
  BY <1>2, <1>3, <1>4, <1>5 DEF IInv

LEMMA WriteFileKeepsIInv ==
  ASSUME IInv, WriteFile
  PROVE  IInv'
<1>0. /\ writing \in Files /\ saves \in Nat /\ savedBy \in [Files -> Nat]
      /\ DOMAIN disk = Files
      /\ writing # NoFile /\ savedBy[writing] = saves
  BY FilesAreNumbers DEF IInv, Types, SaveUnderWay, WriteFile
<1>1. UNCHANGED <<window, savedBy, saves>> /\ emptied' = FALSE
  BY DEF WriteFile
<1>2. FilesInSaveOrder'
  BY <1>1 DEF IInv, FilesInSaveOrder
<1>3. CASE writing = state_hash
  <2>1. writing' = NoFile /\ kept' = {window}
    BY <1>3 DEF WriteFile
  <2>2. \A f \in Files \ {state_hash} : disk[f] = {Content(window, f)}
    BY <1>0, <1>3, FilesAreNumbers DEF IInv, SaveUnderWay
  <2>3. disk' = [disk EXCEPT ![state_hash] = {compute_state_hash(disk)}]
    BY <1>3 DEF WriteFile
  <2>4. disk'[state_hash] = {[f \in Files \ {state_hash} |-> {Content(window, f)}]}
    BY <1>0, <2>2, <2>3, FilesAreNumbers DEF compute_state_hash
  <2>5. Types'
    BY <1>0, <1>1, <2>1, <2>3, FilesAreNumbers DEF IInv, Types
  <2>6. SaveUnderWay'
    BY <2>1 DEF SaveUnderWay
  <2>7. HashOfKept'
    BY <2>1, <2>4, <1>1 DEF HashOfKept
  <2> QED
    BY <1>2, <2>5, <2>6, <2>7 DEF IInv
<1>4. CASE writing # state_hash
  <2>1. writing' = writing + 1 /\ kept' = kept
    BY <1>4 DEF WriteFile
  <2>2. disk' = [disk EXCEPT ![writing] = {Content(window, writing)}]
    BY <1>4 DEF WriteFile
  <2>3. \A f \in Files : disk'[f] = IF f = writing THEN {Content(window, writing)} ELSE disk[f]
    BY <1>0, <2>2
  <2>4. Types'
    BY <1>0, <1>1, <1>4, <2>1, <2>2, FilesAreNumbers DEF IInv, Types
  <2>5. SaveUnderWay'
    <3> SUFFICES ASSUME NEW f \in Files, f < writing + 1
                 PROVE  savedBy[f] = saves /\ disk'[f] = {Content(window, f)}
      BY <1>1, <2>1 DEF SaveUnderWay
    <3>1. f < writing \/ f = writing
      BY <1>0, FilesAreNumbers
    <3>2. CASE f = writing
      BY <3>2, <1>0, <2>3
    <3>3. CASE f < writing /\ f # writing
      BY <3>3, <1>0, <2>3 DEF IInv, SaveUnderWay
    <3> QED
      BY <3>1, <3>2, <3>3
  <2>6. HashOfKept'
    BY <1>0, <1>4, <2>1, <2>3, FilesAreNumbers DEF IInv, HashOfKept
  <2> QED
    BY <1>2, <2>4, <2>5, <2>6 DEF IInv
<1> QED
  BY <1>3, <1>4

LEMMA StepKeepsIInv == IInv /\ [Next]_vars => IInv'
<1> SUFFICES ASSUME IInv, [Next]_vars PROVE IInv'
  OBVIOUS
<1>1. CASE save_to_directory
  BY <1>1, SaveKeepsIInv
<1>2. CASE EmptyFile
  BY <1>2, EmptyFileKeepsIInv
<1>3. CASE WriteFile
  BY <1>3, WriteFileKeepsIInv
<1>4. CASE \/ load_psi_state_from_directory \/ LoadRaises \/ Replan
           \/ CopyRaises \/ WriteRaises \/ Crash
  BY <1>4, CommandsKeepIInv
<1>5. CASE SessionOver \/ UNCHANGED vars
  <2>1. UNCHANGED vars
    BY <1>5 DEF SessionOver
  <2> QED
    BY <2>1 DEF vars, IInv, Types, FilesInSaveOrder, SaveUnderWay, HashOfKept
<1> QED
  BY <1>1, <1>2, <1>3, <1>4, <1>5 DEF Next

(* The inductive invariant holds in every reachable state.                 *)
THEOREM Invariance == Spec => []IInv
BY Initially, StepKeepsIInv, PTL DEF Spec

(* No file of a directory is of a later save than a file before it,        *)
(* however many saves were cut short there and wherever.                   *)
THEOREM DirectoryInSaveOrder == Spec => []FilesInSaveOrder
<1>1. IInv => FilesInSaveOrder
  BY DEF IInv
<1> QED
  BY <1>1, Invariance, PTL

(* A hash that agrees with the files proves that all of them are those of  *)
(* the last save that ended well: a load could refuse every mix by it.     *)
THEOREM HashProvesSave == Spec => []HashTellsMix
<1>1. IInv => HashTellsMix
  <2> SUFFICES ASSUME IInv, disk[state_hash] = {compute_state_hash(disk)}
               PROVE  \E win \in kept : \A f \in Files \ {state_hash} : disk[f] = {Content(win, f)}
    BY DEF HashTellsMix
  <2>1. PICK win \in kept :
          disk[state_hash] = {[f \in Files \ {state_hash} |-> {Content(win, f)}]}
    BY DEF IInv, HashOfKept
  <2>2. [f \in Files \ {state_hash} |-> {Content(win, f)}] = compute_state_hash(disk)
    BY <2>1
  <2>3. ASSUME NEW f \in Files \ {state_hash}
        PROVE  disk[f] = {Content(win, f)}
    <3>1. compute_state_hash(disk)[f] = disk[f]
      BY DEF compute_state_hash
    <3> QED
      BY <2>2, <3>1
  <2> QED
    BY <2>1, <2>3
<1> QED
  BY <1>1, Invariance, PTL

-----------------------------------------------------------------------------
(* The lots of a plan, through any number of saves and loads.              *)

(* A list of lots of some trees, empty where the trees have nothing.       *)
ListIn(trees, p, n, w, bucket) ==
  IF p \in DOMAIN trees /\ n \in DOMAIN trees[p] /\ w \in DOMAIN trees[p][n]
  THEN trees[p][n][w][bucket] ELSE <<>>

(* Some trees hold the lists of the source, each in the bucket it has been *)
(* turned to.                                                              *)
Holds(trees, from) ==
  \A p, n, w : \A i \in 1 .. 3 :
    ListIn(trees, p, n, w, Turned(i, from.trips)) = ListIn(from.lots, p, n, w, Turn[i])

(* Rows tell the lists of the source, each as saving turns it.             *)
RowsAt(rows, p, n, w, bucket) ==
  {row \in rows : row[1] = p /\ row[2] = n /\ row[3][1] = w /\ row[3][2] = bucket}

TellOne(rows, p, n, w, bucket, lots) ==
  RowsAt(rows, p, n, w, bucket) = IF lots = <<>> THEN {} ELSE {<<p, n, <<w, bucket, lots>>>>}

Tell(rows, from) ==
  \A p, n, w : \A i \in 1 .. 3 :
    TellOne(rows, p, n, w, Turned(i, from.trips + 1), ListIn(from.lots, p, n, w, Turn[i]))

Bounded(rows) == \E k \in Nat : \A row \in rows : row[3][1] \in 0 .. k - 1

IsSource(from) ==
  /\ from = [lots |-> from.lots, trips |-> from.trips]
  /\ from.trips \in Nat

LotsInv ==
  /\ window.range \in Nat
  /\ \A range \in disk[parameters] : range \in Nat
  /\ IsSource(source) /\ IsSource(eventsOf)
  /\ Holds(window.trees, source)
  /\ \A rows \in disk[psi_events] : Bounded(rows) /\ Tell(rows, eventsOf)

(* Turning a bucket once more is what saving does to it.                   *)
LEMMA TurnedOnce ==
  ASSUME NEW i \in 1 .. 3, NEW trips \in Nat
  PROVE  /\ Turned(i, trips) \in {"S", "I", "P"}
         /\ Turned(i, trips + 1) = SavedAs[Turned(i, trips)]
         /\ Turned(i, 0) = Turn[i]
<1>1. (i - 1 + trips) % 3 \in 0 .. 2 /\ (i - 1 + (trips + 1)) % 3 \in 0 .. 2
  OBVIOUS
<1>2. (i - 1 + (trips + 1)) % 3 = IF (i - 1 + trips) % 3 = 2 THEN 0 ELSE ((i - 1 + trips) % 3) + 1
  OBVIOUS
<1>3. (i - 1 + 0) % 3 = i - 1
  OBVIOUS
<1> QED
  BY <1>1, <1>2, <1>3 DEF Turned, Turn, SavedAs

(* Each bucket is saved as another.                                        *)
LEMMA SavedApart ==
  \A b, c \in {"S", "I", "P"} : SavedAs[b] = SavedAs[c] => b = c
BY DEF SavedAs

(* What a plan starts with.                                                *)
LEMMA PlanHolds ==
  ASSUME NEW win
  PROVE  /\ IsSource([lots |-> win.trees, trips |-> 0])
         /\ Holds(win.trees, [lots |-> win.trees, trips |-> 0])
<1>1. \A i \in 1 .. 3 : Turned(i, 0) = Turn[i]
  BY TurnedOnce
<1> QED
  BY <1>1 DEF IsSource, Holds

(* The rows a save writes.                                                 *)
LEMMA SavedRows ==
  ASSUME NEW win, NEW row
  PROVE  row \in collect_psi_events(win) <=>
           \E p \in DOMAIN win.trees : \E n \in DOMAIN win.trees[p] :
             \E w \in DOMAIN win.trees[p][n] \cap 0 .. win.range - 1 :
               \E bucket \in {"S", "I", "P"} :
                 /\ row = <<p, n, <<w, SavedAs[bucket], win.trees[p][n][w][bucket]>>>>
                 /\ win.trees[p][n][w][bucket] # <<>>
BY DEF collect_psi_events, Rows

(* The list at a place of a cut source is that of the source in the weeks  *)
(* that are cut out.                                                       *)
LEMMA CutList ==
  ASSUME NEW origin, NEW weeks, NEW p, NEW n, NEW w, NEW bucket
  PROVE  ListIn(Cut(origin, weeks), p, n, w, bucket)
           = IF w \in 0 .. weeks - 1 THEN ListIn(origin, p, n, w, bucket) ELSE <<>>
BY DEF ListIn, Cut

(* A save writes rows that tell the source of the window.                  *)
LEMMA SaveTells ==
  ASSUME NEW win, win.range \in Nat, NEW from, IsSource(from), Holds(win.trees, from),
         NEW cut, cut = [from EXCEPT !.lots = Cut(@, win.range)]
  PROVE  /\ IsSource(cut)
         /\ Bounded(collect_psi_events(win))
         /\ Tell(collect_psi_events(win), cut)
<1> DEFINE rows == collect_psi_events(win)
<1>1. cut = [lots |-> Cut(from.lots, win.range), trips |-> from.trips]
  BY DEF IsSource
<1>2. IsSource(cut)
  BY <1>1 DEF IsSource
<1>3. Bounded(rows)
  <2>1. \A row \in rows : row[3][1] \in 0 .. win.range - 1
    BY SavedRows
  <2> HIDE DEF rows
  <2> QED
    BY <2>1 DEF Bounded
<1>4. ASSUME NEW p, NEW n, NEW w, NEW i \in 1 .. 3
      PROVE  TellOne(rows, p, n, w, Turned(i, cut.trips + 1), ListIn(cut.lots, p, n, w, Turn[i]))
  <2> DEFINE lots == ListIn(cut.lots, p, n, w, Turn[i])
             b == Turned(i, from.trips)
             list == ListIn(win.trees, p, n, w, b)
             bucket == Turned(i, cut.trips + 1)
  <2>1. b \in {"S", "I", "P"} /\ bucket = SavedAs[b]
    BY <1>1, TurnedOnce DEF IsSource
  <2>2. lots = IF w \in 0 .. win.range - 1 THEN list ELSE <<>>
    BY <1>1, CutList DEF Holds
  <2> HIDE DEF lots, b, bucket
  <2>3. ASSUME NEW row
        PROVE  row \in RowsAt(rows, p, n, w, bucket)
                 <=> lots # <<>> /\ row = <<p, n, <<w, bucket, lots>>>>
    <3>1. ASSUME row \in RowsAt(rows, p, n, w, bucket)
          PROVE  lots # <<>> /\ row = <<p, n, <<w, bucket, lots>>>>
      <4>1. row \in rows /\ row[1] = p /\ row[2] = n /\ row[3][1] = w /\ row[3][2] = bucket
        BY <3>1 DEF RowsAt
      <4>2. PICK q \in DOMAIN win.trees : \E m \in DOMAIN win.trees[q] :
               \E v \in DOMAIN win.trees[q][m] \cap 0 .. win.range - 1 :
                 \E c \in {"S", "I", "P"} :
                   /\ row = <<q, m, <<v, SavedAs[c], win.trees[q][m][v][c]>>>>
                   /\ win.trees[q][m][v][c] # <<>>
        BY <4>1, SavedRows
      <4>3. PICK m \in DOMAIN win.trees[q] :
               \E v \in DOMAIN win.trees[q][m] \cap 0 .. win.range - 1 :
                 \E c \in {"S", "I", "P"} :
                   /\ row = <<q, m, <<v, SavedAs[c], win.trees[q][m][v][c]>>>>
                   /\ win.trees[q][m][v][c] # <<>>
        BY <4>2
      <4>4. PICK v \in DOMAIN win.trees[q][m] \cap 0 .. win.range - 1 :
                 \E c \in {"S", "I", "P"} :
                   /\ row = <<q, m, <<v, SavedAs[c], win.trees[q][m][v][c]>>>>
                   /\ win.trees[q][m][v][c] # <<>>
        BY <4>3
      <4>5. PICK c \in {"S", "I", "P"} :
                   /\ row = <<q, m, <<v, SavedAs[c], win.trees[q][m][v][c]>>>>
                   /\ win.trees[q][m][v][c] # <<>>
        BY <4>4
      <4> HIDE DEF rows, list
      <4>6. q = p /\ m = n /\ v = w /\ SavedAs[c] = bucket
        BY <4>1, <4>5
      <4>7. c = b
        BY <2>1, <4>6, SavedApart
      <4>8. list = win.trees[q][m][v][c]
        BY <4>6, <4>7 DEF ListIn, list
      <4>9. lots = win.trees[q][m][v][c]
        BY <2>2, <4>6, <4>8
      <4> QED
        BY <4>5, <4>6, <4>9
    <3>2. ASSUME lots # <<>>, row = <<p, n, <<w, bucket, lots>>>>
          PROVE  row \in RowsAt(rows, p, n, w, bucket)
      <4>1. w \in 0 .. win.range - 1 /\ lots = list /\ list # <<>>
        BY <2>2, <3>2
      <4>2. /\ p \in DOMAIN win.trees /\ n \in DOMAIN win.trees[p] /\ w \in DOMAIN win.trees[p][n]
            /\ list = win.trees[p][n][w][b]
        BY <4>1 DEF ListIn
      <4>3. row \in rows
        BY <2>1, <3>2, <4>1, <4>2, SavedRows
      <4> QED
        BY <3>2, <4>3 DEF RowsAt
    <3> QED
      BY <3>1, <3>2
  <2>4. TellOne(rows, p, n, w, bucket, lots)
    <3> DEFINE at == RowsAt(rows, p, n, w, bucket)
               one == <<p, n, <<w, bucket, lots>>>>
    <3>1. \A row : row \in at <=> lots # <<>> /\ row = one
      BY <2>3
    <3> HIDE DEF at, one
    <3>2. at = IF lots = <<>> THEN {} ELSE {one}
      BY <3>1
    <3> QED
      BY <3>2 DEF TellOne, at, one
  <2> QED
    BY <2>4 DEF lots, bucket
<1>5. Tell(rows, cut)
  BY <1>4, Zenon DEF Tell
<1> QED
  BY <1>2, <1>3, <1>5

(* Of some numbers up to k one is the largest.                             *)
LEMMA LargestExists ==
  ASSUME NEW k \in Nat, NEW S \in SUBSET (0 .. k), S # {}
  PROVE  Max(S) \in S /\ \A y \in S : Max(S) >= y
<1> DEFINE Q == {m \in 0 .. k : \A T \in SUBSET (0 .. m) :
                   T # {} => \E x \in T : \A y \in T : x >= y}
<1>1. 0 \in Q
  <2>1. \A x \in 0 .. 0 : x = 0
    OBVIOUS
  <2>2. ASSUME NEW T \in SUBSET (0 .. 0), T # {}
        PROVE  0 \in T /\ \A y \in T : 0 >= y
    <3>1. PICK x \in T : TRUE
      BY <2>2
    <3>2. \A y \in T : y = 0
      BY <2>1
    <3> QED
      BY <3>1, <3>2
  <2> QED
    BY <2>2
<1>2. ASSUME NEW m \in 1 .. k, m - 1 \in Q PROVE m \in Q
  <2> SUFFICES ASSUME NEW T \in SUBSET (0 .. m), T # {}
               PROVE  \E x \in T : \A y \in T : x >= y
    OBVIOUS
  <2>1. CASE m \in T
    BY <2>1
  <2>2. CASE m \notin T
    <3>1. T \in SUBSET (0 .. m - 1)
      BY <2>2
    <3> QED
      BY <1>2, <3>1
  <2> QED
    BY <2>1, <2>2
<1>3. k \in Q
  <2>1. \A m \in 0 .. k : m \in Q
    <3> HIDE DEF Q
    <3> QED
      BY <1>1, <1>2, IntervalInduction
  <2> HIDE DEF Q
  <2> QED
    BY <2>1
<1>4. \E x \in S : \A y \in S : x >= y
  BY <1>3
<1> QED
  BY <1>4 DEF Max

(* A load gives its weeks to every row.                                    *)
LEMMA WeeksEnough ==
  ASSUME NEW rows, Bounded(rows), ReadOr(parameters, 0) \in Nat
  PROVE  /\ WeeksLoaded(rows) \in Nat
         /\ \A row \in rows : row[3][1] \in 0 .. WeeksLoaded(rows) - 1
<1> DEFINE R == ReadOr(parameters, 0)
           S == {R} \cup {row[3][1] + 1 : row \in rows}
<1>1. PICK k \in Nat : \A row \in rows : row[3][1] \in 0 .. k - 1
  BY DEF Bounded
<1>1a. R \in Nat
  OBVIOUS
<1> HIDE DEF R
<1>2. \A x \in S : x \in 0 .. k + R
  BY <1>1 DEF R
<1>3. S \in SUBSET (0 .. k + R) /\ S # {} /\ k + R \in Nat
  BY <1>2 DEF R
<1>4. \A row \in rows : row[3][1] + 1 \in S
  OBVIOUS
<1> HIDE DEF S
<1>5. Max(S) \in S /\ \A y \in S : Max(S) >= y
  BY <1>3, LargestExists
<1>6. WeeksLoaded(rows) = Max(S)
  BY DEF WeeksLoaded, S, R
<1> DEFINE m == Max(S)
<1>7. m \in Nat
  <2>1. \A x \in S : x \in Nat
    BY <1>2 DEF S
  <2> QED
    BY <1>5, <2>1
<1>8. \A row \in rows : m >= row[3][1] + 1
  BY <1>4, <1>5
<1> HIDE DEF m
<1>9. \A row \in rows : row[3][1] \in 0 .. m - 1
  BY <1>1, <1>7, <1>8
<1> QED
  BY <1>6, <1>7, <1>9 DEF m

(* The list that told rows hold for a place.                               *)
LEMMA WeekTold ==
  ASSUME NEW rows, NEW from, Tell(rows, from), IsSource(from), NEW p, NEW n, NEW w, NEW i \in 1 .. 3
  PROVE  /\ Week(rows, p, n, w)[Turned(i, from.trips + 1)] = ListIn(from.lots, p, n, w, Turn[i])
         /\ ListIn(from.lots, p, n, w, Turn[i]) # <<>> =>
              \E row \in rows : row[3][1] = w
<1> DEFINE bucket == Turned(i, from.trips + 1)
           lots == ListIn(from.lots, p, n, w, Turn[i])
           at == RowsAt(rows, p, n, w, bucket)
           lists == {list \in {row[3][3] : row \in {r \in rows :
                       r[1] = p /\ r[2] = n /\ r[3][1] = w /\ r[3][2] = bucket}} : TRUE}
<1>1. from.trips + 1 \in Nat
  BY DEF IsSource
<1>2. bucket \in {"S", "I", "P"}
  BY <1>1, TurnedOnce
<1>3. at = IF lots = <<>> THEN {} ELSE {<<p, n, <<w, bucket, lots>>>>}
  <2>1. TellOne(rows, p, n, w, bucket, lots)
    BY DEF Tell
  <2> QED
    BY <2>1 DEF TellOne
<1> HIDE DEF bucket, lots
<1>4. Week(rows, p, n, w)[bucket] = IF lists = {} THEN <<>> ELSE CHOOSE list \in lists : TRUE
  BY <1>2 DEF Week
<1>5. lists = {row[3][3] : row \in at}
  BY DEF RowsAt
<1>6. lists = IF lots = <<>> THEN {} ELSE {lots}
  <2> HIDE DEF at, lists
  <2>1. CASE lots = <<>>
    BY <1>3, <1>5, <2>1
  <2>2. CASE lots # <<>>
    <3>1. at = {<<p, n, <<w, bucket, lots>>>>}
      BY <1>3, <2>2
    <3>2. \A row \in at : row[3][3] = lots
      BY <3>1
    <3>3. at # {}
      BY <3>1
    <3>4. lists = {lots}
      BY <1>5, <3>2, <3>3
    <3> QED
      BY <2>2, <3>4
  <2> QED
    BY <2>1, <2>2
<1>7. Week(rows, p, n, w)[bucket] = lots
  <2> HIDE DEF lists
  <2> QED
    BY <1>4, <1>6
<1>8. lots # <<>> => \E row \in rows : row[3][1] = w
  <2>1. lots # <<>> => at # {}
    BY <1>3
  <2>2. \A row \in at : row \in rows /\ row[3][1] = w
    BY DEF RowsAt
  <2> HIDE DEF at
  <2> QED
    BY <2>1, <2>2
<1> QED
  BY <1>7, <1>8 DEF bucket, lots

(* What a load reads.                                                      *)
LoadedFrom(trees, events) ==
  LET loaded == DOMAIN events.lots \cap DOMAIN trees
  IN  [lots  |-> [p \in loaded |-> [n \in DOMAIN events.lots[p] \cap DOMAIN trees[p] |->
                    events.lots[p][n]]],
       trips |-> events.trips + 1]

(* The source of what is loaded has the lists of the file at the nodes     *)
(* that are loaded.                                                        *)
LEMMA LoadedList ==
  ASSUME NEW trees, NEW events, NEW p, NEW n, NEW w, NEW bucket
  PROVE  ListIn(LoadedFrom(trees, events).lots, p, n, w, bucket)
           = IF p \in DOMAIN trees /\ n \in DOMAIN trees[p]
             THEN ListIn(events.lots, p, n, w, bucket) ELSE <<>>
BY DEF ListIn, LoadedFrom

(* A load keeps what the file tells.                                       *)
LEMMA LoadHolds ==
  ASSUME LotsInv, ~load_psi_state_raises,
         NEW trees, trees = attach_psi_events_from_parquet,
         NEW events, events = IF ReadOr(psi_events, {}) = {} THEN Nothing ELSE eventsOf
  PROVE  IsSource(LoadedFrom(trees, events)) /\ Holds(trees, LoadedFrom(trees, events))
<1> DEFINE rows == ReadOr(psi_events, {})
           W == WeeksLoaded(rows)
           from == LoadedFrom(trees, events)
<1>1. IsSource(events) /\ from.trips = events.trips + 1 /\ IsSource(from)
  BY DEF LotsInv, IsSource, Nothing, LoadedFrom
<1>2. ASSUME NEW p \in DOMAIN trees, NEW n \in DOMAIN trees[p], NEW w, NEW i \in 1 .. 3
      PROVE  ListIn(trees, p, n, w, Turned(i, from.trips)) = ListIn(events.lots, p, n, w, Turn[i])
  <2>1. p \in DOMAIN SavedTrees /\ n \in SavedTrees[p]
        /\ trees[p][n] = IF rows = {} THEN EmptyPsi(NewNodeWeeks)
                         ELSE [v \in 0 .. W - 1 |-> Week(rows, p, n, v)]
    BY DEF attach_psi_events_from_parquet
  <2>2. ~Damaged(parameters) /\ ~Damaged(product_tree_outbound)
    BY DEF load_psi_state_raises, Files, parameters, product_tree_outbound, psi_events, state_hash,
           physical_tree_outbound
  <2>3. ~Damaged(psi_events)
    BY <2>1, <2>2 DEF load_psi_state_raises
  <2>4. ReadOr(parameters, 0) \in Nat
    BY <2>2 DEF ReadOr, Read, Damaged, LotsInv
  <2>5. Turned(i, from.trips) \in {"S", "I", "P"}
    BY <1>1, TurnedOnce DEF IsSource
  <2>6. CASE rows = {}
    <3>1. events = Nothing
      BY <2>6
    <3>2. ListIn(events.lots, p, n, w, Turn[i]) = <<>>
      BY <3>1 DEF Nothing, NoTrees, ListIn
    <3>3. trees[p][n] = EmptyPsi(NewNodeWeeks)
      BY <2>1, <2>6
    <3>4. ListIn(trees, p, n, w, Turned(i, from.trips)) = <<>>
      BY <2>5, <3>3 DEF ListIn, EmptyPsi, EmptyWeek
    <3> QED
      BY <3>2, <3>4
  <2>7. CASE rows # {}
    <3>1. events = eventsOf /\ rows \in disk[psi_events]
      BY <2>3, <2>7 DEF ReadOr, Read, Damaged
    <3>2. Bounded(rows) /\ Tell(rows, events)
      BY <3>1 DEF LotsInv
    <3> HIDE DEF rows, from
    <3>3. W \in Nat /\ \A row \in rows : row[3][1] \in 0 .. W - 1
      BY <2>4, <3>2, WeeksEnough
    <3> HIDE DEF W
    <3>4. /\ Week(rows, p, n, w)[Turned(i, from.trips)] = ListIn(events.lots, p, n, w, Turn[i])
          /\ ListIn(events.lots, p, n, w, Turn[i]) # <<>> => \E row \in rows : row[3][1] = w
      BY <1>1, <3>2, WeekTold
    <3>5. trees[p][n] = [v \in 0 .. W - 1 |-> Week(rows, p, n, v)]
      BY <2>1, <2>7
    <3>6. CASE w \in 0 .. W - 1
      <4>1. ListIn(trees, p, n, w, Turned(i, from.trips))
              = Week(rows, p, n, w)[Turned(i, from.trips)]
        BY <3>5, <3>6 DEF ListIn
      <4> QED
        BY <3>4, <4>1
    <3>7. CASE w \notin 0 .. W - 1
      <4>1. ListIn(trees, p, n, w, Turned(i, from.trips)) = <<>>
        BY <3>5, <3>7 DEF ListIn
      <4>2. ListIn(events.lots, p, n, w, Turn[i]) = <<>>
        BY <3>3, <3>4, <3>7
      <4> QED
        BY <4>1, <4>2
    <3> QED
      BY <3>6, <3>7
  <2> QED
    BY <2>6, <2>7
<1>3. ASSUME NEW p, NEW n, NEW w, NEW i \in 1 .. 3
      PROVE  ListIn(trees, p, n, w, Turned(i, from.trips)) = ListIn(from.lots, p, n, w, Turn[i])
  <2>1. CASE p \in DOMAIN trees /\ n \in DOMAIN trees[p]
    <3>1. ListIn(from.lots, p, n, w, Turn[i]) = ListIn(events.lots, p, n, w, Turn[i])
      BY <2>1, LoadedList
    <3> HIDE DEF from
    <3> QED
      BY <1>2, <2>1, <3>1
  <2>2. CASE ~(p \in DOMAIN trees /\ n \in DOMAIN trees[p])
    <3>1. ListIn(trees, p, n, w, Turned(i, from.trips)) = <<>>
      BY <2>2 DEF ListIn
    <3> QED
      BY <2>2, <3>1, LoadedList
  <2> QED
    BY <2>1, <2>2
<1>4. Holds(trees, from)
  <2> HIDE DEF from
  <2> QED
    BY <1>3, Zenon DEF Holds
<1> QED
  BY <1>1, <1>4

(* The invariant of the lots.                                              *)
LEMMA InitLots == Init => LotsInv
<1> SUFFICES ASSUME Init PROVE LotsInv
  OBVIOUS
<1>1. PICK win \in Environments : window = win /\ source = [lots |-> win.trees, trips |-> 0]
  BY DEF Init
<1>2. disk = [f \in Files |-> {}] /\ eventsOf = Nothing
  BY DEF Init
<1>3. disk[parameters] = {} /\ disk[psi_events] = {}
  BY <1>2 DEF Files, parameters, psi_events, physical_tree_outbound, state_hash
<1>4. IsSource(eventsOf)
  BY <1>2 DEF IsSource, Nothing
<1> QED
  BY <1>1, <1>3, <1>4, PlanHolds, RangesAssumption DEF LotsInv

LEMMA NextLots == IInv /\ LotsInv /\ [Next]_vars => LotsInv'
<1> SUFFICES ASSUME IInv, LotsInv, [Next]_vars PROVE LotsInv'
  OBVIOUS
<1>0. /\ parameters \in Files /\ psi_events \in Files /\ parameters # psi_events
      /\ state_hash # parameters /\ state_hash # psi_events /\ DOMAIN disk = Files
  BY DEF Files, parameters, psi_events, physical_tree_outbound, state_hash, IInv, Types
<1>1. CASE \/ save_to_directory \/ CopyRaises \/ WriteRaises \/ LoadRaises
           \/ SessionOver \/ UNCHANGED vars
  <2>1. UNCHANGED <<window, disk, source, eventsOf>>
    BY <1>1 DEF save_to_directory, CopyRaises, WriteRaises, LoadRaises, SessionOver, vars
  <2> QED
    BY <2>1 DEF LotsInv
<1>2. CASE EmptyFile
  <2>1. UNCHANGED <<window, source, eventsOf>> /\ disk' = [disk EXCEPT ![writing] = {}]
    BY <1>2 DEF EmptyFile
  <2>2. disk'[parameters] \subseteq disk[parameters] /\ disk'[psi_events] \subseteq disk[psi_events]
    BY <1>0, <2>1
  <2> QED
    BY <2>1, <2>2 DEF LotsInv
<1>3. CASE WriteFile
  <2>0. UNCHANGED <<window, source>>
    BY <1>3 DEF WriteFile
  <2>1. CASE writing = psi_events
    <3>1. /\ disk' = [disk EXCEPT ![psi_events] = {collect_psi_events(window)}]
          /\ eventsOf' = [source EXCEPT !.lots = Cut(@, window.range)]
      <4>1. Content(window, psi_events) = collect_psi_events(window)
        BY DEF Content, parameters, metadata, psi_events, physical_tree_outbound,
           physical_tree_inbound, product_tree_outbound, product_tree_inbound
      <4> QED
        BY <1>0, <1>3, <2>1, <4>1 DEF WriteFile
    <3>2. disk'[psi_events] = {collect_psi_events(window)} /\ disk'[parameters] = disk[parameters]
      BY <1>0, <3>1
    <3>3. /\ IsSource(eventsOf') /\ Bounded(collect_psi_events(window))
          /\ Tell(collect_psi_events(window), eventsOf')
      BY <3>1, SaveTells DEF LotsInv
    <3> QED
      BY <2>0, <3>2, <3>3 DEF LotsInv
  <2>2. CASE writing # psi_events
    <3>1. eventsOf' = eventsOf /\ disk'[psi_events] = disk[psi_events]
      BY <1>0, <1>3, <2>2 DEF WriteFile
    <3>2. CASE writing = parameters
      <4>1. disk' = [disk EXCEPT ![parameters] = {window.range}]
        <5>1. Content(window, parameters) = window.range
          BY DEF Content, parameters, metadata, psi_events, physical_tree_outbound,
             physical_tree_inbound, product_tree_outbound, product_tree_inbound
        <5> QED
          BY <1>0, <1>3, <3>2, <5>1 DEF WriteFile
      <4>2. disk'[parameters] = {window.range}
        BY <1>0, <4>1
      <4> QED
        BY <2>0, <3>1, <4>2 DEF LotsInv
    <3>3. CASE writing # parameters
      <4>1. disk'[parameters] = disk[parameters]
        BY <1>0, <1>3, <3>3 DEF WriteFile
      <4> QED
        BY <2>0, <3>1, <4>1 DEF LotsInv
    <3> QED
      BY <3>2, <3>3
  <2> QED
    BY <2>1, <2>2
<1>4. CASE load_psi_state_from_directory
  <2> DEFINE trees == attach_psi_events_from_parquet
             events == IF ReadOr(psi_events, {}) = {} THEN Nothing ELSE eventsOf
  <2>1. /\ ~load_psi_state_raises
        /\ window'.trees = trees /\ window'.range = window.range
        /\ source' = LoadedFrom(trees, events)
        /\ UNCHANGED <<disk, eventsOf>>
    BY <1>4 DEF load_psi_state_from_directory, LoadedFrom
  <2> HIDE DEF trees, events
  <2>2. IsSource(source') /\ Holds(window'.trees, source')
    BY <2>1, LoadHolds DEF trees, events
  <2> QED
    BY <2>1, <2>2 DEF LotsInv
<1>5. CASE Replan \/ Crash
  <2>1. PICK win \in Environments \cup Plans : Plan(win)
    BY <1>5 DEF Replan, Crash
  <2>2. window' = win /\ source' = [lots |-> win.trees, trips |-> 0] /\ win.range \in Nat
    BY <2>1, RangesAssumption DEF Plan
  <2>3. UNCHANGED <<disk, eventsOf>>
    BY <1>5 DEF Replan, Crash
  <2> QED
    BY <2>2, <2>3, PlanHolds DEF LotsInv
<1> QED
  BY <1>1, <1>2, <1>3, <1>4, <1>5 DEF Next

(* The lists of the window are those of its source.                        *)
LEMMA LotsAreKept == LotsInv => LotsKept
<1> SUFFICES ASSUME LotsInv, NEW p \in DOMAIN window.trees, NEW n \in DOMAIN window.trees[p]
             PROVE  LET psi  == window.trees[p][n]
                        was  == IF p \in DOMAIN source.lots /\ n \in DOMAIN source.lots[p]
                                THEN source.lots[p][n] ELSE EmptyPsi(0)
                    IN  \A i \in 1 .. 3, w \in DOMAIN psi \cup DOMAIN was :
                          LET lots == IF w \in DOMAIN was THEN was[w][Turn[i]] ELSE <<>>
                          IN  IF w \in DOMAIN psi THEN psi[w][Turned(i, source.trips)] = lots
                              ELSE lots = <<>>
  BY Zenon DEF LotsKept
<1> DEFINE psi  == window.trees[p][n]
           was  == IF p \in DOMAIN source.lots /\ n \in DOMAIN source.lots[p]
                   THEN source.lots[p][n] ELSE EmptyPsi(0)
           lots(w, i) == IF w \in DOMAIN was THEN was[w][Turn[i]] ELSE <<>>
<1>1. ASSUME NEW i \in 1 .. 3, NEW w
      PROVE  IF w \in DOMAIN psi THEN psi[w][Turned(i, source.trips)] = lots(w, i)
             ELSE lots(w, i) = <<>>
  <2>1. ListIn(window.trees, p, n, w, Turned(i, source.trips)) = ListIn(source.lots, p, n, w, Turn[i])
    BY DEF LotsInv, Holds
  <2>2. ListIn(source.lots, p, n, w, Turn[i]) = lots(w, i)
    BY DEF ListIn, EmptyPsi
  <2>3. ListIn(window.trees, p, n, w, Turned(i, source.trips))
          = IF w \in DOMAIN psi THEN psi[w][Turned(i, source.trips)] ELSE <<>>
    BY DEF ListIn
  <2> HIDE DEF psi, lots
  <2> QED
    BY <2>1, <2>2, <2>3
<1> HIDE DEF psi, was
<1> QED
  BY <1>1 DEF psi, was

(* Saving and loading loses no lot of the weeks saved and adds none, for   *)
(* any windows and calendars, however many saves were cut short in the     *)
(* directory and wherever.                                                 *)
THEOREM SavingKeepsLots == Spec => []LotsKept
<1>1. Spec => [](IInv /\ LotsInv)
  <2>1. Init => IInv /\ LotsInv
    BY Initially, InitLots
  <2>2. (IInv /\ LotsInv) /\ [Next]_vars => (IInv /\ LotsInv)'
    BY StepKeepsIInv, NextLots
  <2> QED
    BY <2>1, <2>2, PTL DEF Spec
<1> QED
  BY <1>1, LotsAreKept, PTL

=============================================================================
