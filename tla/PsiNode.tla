------------------------------ MODULE PsiNode ------------------------------
(***************************************************************************)
(* The PSI space of one node (pysi/network/node_base.py) and the leveling  *)
(* of the shipping yard (pysi/psi_planner_mvp/init_load_plan_data.py), as  *)
(* operators on a PSI space.                                               *)
(*                                                                         *)
(* A PSI space is a function from the weeks 0 .. L - 1 to the lists of     *)
(* lots shipped (S), in stock (I) and arriving (P).  The carry-over bucket *)
(* CO is left out: nothing on these paths puts a lot in it.  A lot is a    *)
(* number: its place in the product's list of lots.                        *)
(*                                                                         *)
(* A definition named X_Mistake is X with that mistake; nothing uses it.   *)
(* Substituted for X it shows that a property can fail.                    *)
(***************************************************************************)
EXTENDS Lists, SequencesExt

Weeks(psi)     == Cardinality(DOMAIN psi)
EmptyWeek      == [S |-> <<>>, I |-> <<>>, P |-> <<>>]
EmptyPsi(len)  == [w \in 0 .. len - 1 |-> EmptyWeek]

(* The PSI spaces of len weeks of lots of X.  Stock is reckoned from the   *)
(* second week on: in the first there is none.                             *)
Bucket(X)     == [S : Seq(X), I : Seq(X), P : Seq(X)]
Space(len, X) == {psi \in [0 .. len - 1 -> Bucket(X)] : psi[0].I = <<>>}

(* A tree: all but the root are children, a child deeper than its parent.  *)
TreeOf(nodes, root, children) ==
  /\ root \in nodes /\ IsFiniteSet(nodes)
  /\ children \in [nodes -> Seq(nodes)]
  /\ \A n \in nodes \ {root} : \E m \in nodes : Contains(children[m], n)
  /\ \E depth \in [nodes -> 0 .. Cardinality(nodes)] :
       \A m, n \in nodes : Contains(children[m], n) => depth[m] < depth[n]

(* Every child once, and of one parent.                                    *)
ListedOnce(nodes, children) ==
  \A m, n \in nodes : \A i \in DOMAIN children[m], j \in DOMAIN children[n] :
    children[m][i] = children[n][j] => m = n /\ i = j

(* The list psi[index] names, for an index counted from the end as well.   *)
Slot(len, index) == IF index < 0 THEN index + len ELSE index

(* All lots of a bucket, in the order of weeks.                            *)
Flat(psi, bucket) == Concat([k \in 1 .. Weeks(psi) |-> psi[k - 1][bucket]])

-----------------------------------------------------------------------------
(* The next week at work at or before, at or after a week.                 *)

check_lv_week_bw(vacation, week) ==
  Max({w \in week - Cardinality(vacation) .. week : w \notin vacation})

check_lv_week_fw_KeepWeek(vacation, week) == week

check_lv_week_fw(vacation, week) ==
  Min({w \in week .. week + Cardinality(vacation) : w \notin vacation})

-----------------------------------------------------------------------------
(* S to P: a lot shipped in week w must have arrived sw weeks earlier.     *)

LastFirst(weeks) == InOrder([w \in weeks |-> <<-w>>])

(* What the shift puts into P of week v; the last week comes first.        *)
ShiftedTo(psi, sw, vacation, v) ==
  LET L == Weeks(psi)
      from == {w \in sw + 1 .. L - 1 : v = Slot(L, check_lv_week_bw(vacation, w - sw))}
      order == LastFirst(from)
  IN  Concat([k \in DOMAIN order |-> psi[order[k]].S])

Shifted(psi, sw, vacation) ==
  [v \in DOMAIN psi |-> [psi[v] EXCEPT !.P = @ \o ShiftedTo(psi, sw, vacation, v)]]

shiftS2P_LV_OneTooFar(psi, sw, vacation) ==
  With(psi, LAMBDA space : Shifted(space, sw + 1, vacation))

shiftS2P_LV(psi, sw, vacation) ==
  With(psi, LAMBDA space : Shifted(space, sw, vacation))

(* The same after clearing I and P: of every week but the last.            *)
shiftS2P_LV_replace(psi, sw, vacation) ==
  LET Cleared == [v \in DOMAIN psi |->
                    IF v < Weeks(psi) - 1 THEN [EmptyWeek EXCEPT !.S = psi[v].S] ELSE psi[v]]
  IN  shiftS2P_LV(Cleared, sw, vacation)

-----------------------------------------------------------------------------
(* P and S to I: stock is what was in stock or arrives, less the shipped.  *)
(* Week 0 is left as it is.                                                *)

Unshipped(lots, shipped) == {i \in DOMAIN lots : ~Contains(shipped, lots[i])}

Without(lots, shipped) == Picked(lots, Unshipped(lots, shipped))

fifo_lot_diff_KeepRepeats(lots, shipped) == Without(lots, shipped)

(* The same, and each lot once.                                            *)
fifo_lot_diff(lots, shipped) ==
  Picked(lots, {i \in Unshipped(lots, shipped) : \A j \in 1 .. i - 1 : lots[j] # lots[i]})

(* The weekly stocks, each from the week before it.                        *)
Stocks(psi, Left(_, _)) ==
  LET stock[w \in DOMAIN psi] ==
        IF w = 0 THEN psi[0].I
        ELSE Left(stock[w - 1] \o psi[w].P, psi[w].S)
  IN  stock

WithStocks(psi, stocks) ==
  With(stocks, LAMBDA stock : [w \in DOMAIN psi |-> [psi[w] EXCEPT !.I = stock[w]]])

calcPS2I4demand(psi) == WithStocks(psi, Stocks(psi, Without))

calcPS2I4supply_NoCarry(psi) ==
  [w \in DOMAIN psi |-> IF w = 0 THEN psi[0]
                        ELSE [psi[w] EXCEPT !.I = fifo_lot_diff(psi[w].P, psi[w].S)]]

calcPS2I4supply(psi) == WithStocks(psi, Stocks(psi, fifo_lot_diff))

-----------------------------------------------------------------------------
(* Demand leveling.  weeks is the list of the ISO weeks of the planned     *)
(* years, one year more than the PSI space holds; years[lot] is the set of *)
(* places in that list whose year is found in the lot's id.                *)

Ceil(a, b) == (a + b - 1) \div b

(* lots[from + 1 : to], which stops at the end of the list.                *)
Slice(lots, from, to) == SubSeq(lots, from + 1, Min({to, Len(lots)}))

Chunks(lots, n) ==
  [i \in 1 .. Ceil(Len(lots), n) |-> Slice(lots, (i - 1) * n, i * n)]

year_lots(lots, years, y) == Cardinality({i \in DOMAIN lots : y \in years[lots[i]]})

(* The list is cut by the numbers of lots of the years, and each cut into  *)
(* weekly lists of the year's average; the first list is that of the week  *)
(* pre_prod weeks before the end of the first year.                        *)
S_allocated(lots, weeks, years, pre_prod) ==
  LET count(y) == year_lots(lots, years, y)
      start[y \in 1 .. Len(weeks)] == IF y = 1 THEN 0 ELSE start[y - 1] + count(y - 1)
      Year(y) == IF count(y) = 0 THEN <<>>
                 ELSE Chunks(Slice(lots, start[y], start[y] + count(y)), Ceil(count(y), weeks[y]))
  IN  [k \in 1 .. weeks[1] - pre_prod |-> <<>>] \o Concat([y \in 1 .. Len(weeks) |-> Year(y)])

demand_leveling_on_ship_NoCut(demand, supply, weeks, years, pre_prod) ==
  LET lots == Flat(demand, "S")
  IN  [w \in DOMAIN supply |->
         [supply[w] EXCEPT !.S = IF w = weeks[1] - pre_prod THEN lots ELSE <<>>]]

demand_leveling_on_ship(demand, supply, weeks, years, pre_prod) ==
  With(S_allocated(Flat(demand, "S"), weeks, years, pre_prod), LAMBDA allocated :
    [w \in DOMAIN supply |->
       [supply[w] EXCEPT !.S = IF w < Len(allocated) THEN allocated[w + 1] ELSE <<>>]])

-----------------------------------------------------------------------------
(* What the properties say of a PSI space.                                 *)

WeeksOf(psi, bucket, lot) == {w \in DOMAIN psi : Contains(psi[w][bucket], lot)}

(* Stock and movements of a node agree: a lot is in stock in a week exactly*)
(* if it arrived (after week 0) and has not been shipped in a week since.  *)
StockAgrees(psi, lots) ==
  \A lot \in lots :
    LET arrives == WeeksOf(psi, "P", lot) \ {0}
        ships   == WeeksOf(psi, "S", lot)
    IN  WeeksOf(psi, "I", lot) =
          {w \in DOMAIN psi : \E v \in arrives : v <= w /\ ships \cap (v .. w) = {}}

=============================================================================
