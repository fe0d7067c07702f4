---------------------------- MODULE PsiProducts ----------------------------
(***************************************************************************)
(* Small products for the runs of the modules about PSI planning: outbound *)
(* trees of two to four nodes and lists of lots.                           *)
(***************************************************************************)
EXTENDS Integers, Sequences, SequencesExt

Lot(leaf, week, years) == [leaf |-> leaf, week |-> week, years |-> years, names |-> leaf]

Product(nodes, children, outside, leadtime, ss, vacation, lots, weeks) ==
  [nodes |-> nodes, root |-> "root", children |-> children, outside |-> outside,
   leadtime |-> leadtime, ss |-> [n \in nodes |-> ss], vacation |-> vacation,
   lots |-> lots, weeks |-> weeks]

(* root - dad - two leaves: a distribution point below the supply point.   *)
ForkNodes    == {"root", "dad", "east", "west"}
ForkChildren == [root |-> <<"dad">>, dad |-> <<"east", "west">>, east |-> <<>>, west |-> <<>>]

(* A leaf next to a node with a leaf.                                      *)
SkewNodes    == {"root", "mid", "east", "west"}
SkewChildren == [root |-> <<"west", "mid">>, mid |-> <<"east">>, east |-> <<>>, west |-> <<>>]

(* One leaf below the root: too shallow for nodes_decouple_all[-3].        *)
FlatNodes    == {"root", "east"}
FlatChildren == [root |-> <<"east">>, east |-> <<>>]

(* A chain: a leaf two levels below the decoupling point.                  *)
ChainNodes    == {"root", "dad", "mid", "east"}
ChainChildren == [root |-> <<"dad">>, dad |-> <<"mid">>, mid |-> <<"east">>, east |-> <<>>]

NoVacation(nodes) == [n \in nodes |-> {}]
LeadTime(nodes, leaf) == [n \in nodes |-> IF n \in {"east", "west"} THEN leaf ELSE 1]

(* Demand of both leaves in the weeks 0 to 5; the lot of week 5 is of the  *)
(* second year; an id may contain both years (week 20, lot 2612).          *)
Pool == << Lot("east", 3, {1}), Lot("west", 4, {1}), Lot("east", 4, {1, 2}),
           Lot("east", 5, {2}), Lot("west", 7, {2}), Lot("west", 1, {1}), Lot("west", 9, {2}) >>

Some(keep) == LET kept == SetToSortSeq(keep, <) IN [i \in DOMAIN kept |-> Pool[kept[i]]]

EastOnly == << Lot("east", 3, {1}), Lot("east", 6, {2}) >>

=============================================================================
