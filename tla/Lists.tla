-------------------------------- MODULE Lists --------------------------------
(***************************************************************************)
(* What several modules need of Python's lists and dicts.                  *)
(***************************************************************************)
EXTENDS Integers, Sequences, FiniteSets

(* f(x): the set makes TLC evaluate x once, however often f uses it.       *)
With(x, f(_)) == CHOOSE r \in {f(v) : v \in {x}} : TRUE

(* d.update(e): e's entries take the place of d's.                         *)
Updated(d, e) == [x \in DOMAIN d \cup DOMAIN e |-> IF x \in DOMAIN e THEN e[x] ELSE d[x]]

(* The order of tuples.                                                    *)
Lex(a, b) == \E i \in 1 .. Len(a) :
               /\ a[i] < b[i]
               /\ \A j \in 1 .. i - 1 : a[j] = b[j]

(* The members of the domain of key by their keys, the smallest first.     *)
InOrder(key) ==
  With(key, LAMBDA k :
    [i \in 1 .. Cardinality(DOMAIN k) |->
       CHOOSE x \in DOMAIN k : Cardinality({y \in DOMAIN k : Lex(k[y], k[x])}) = i - 1])

(* Numbers, the smallest first, and the members of a list at some places,  *)
(* in their order.                                                         *)
Ascending(numbers) == InOrder([n \in numbers |-> <<n>>])

Picked(list, places) ==
  With(Ascending(places), LAMBDA order : [k \in DOMAIN order |-> list[order[k]]])

(* The members of a list that pass a test, in their order.                 *)
Filtered(list, Test(_)) == Picked(list, {i \in DOMAIN list : Test(list[i])})

(* Lists, one after the other.                                             *)
Concat(lists) ==
  With(lists, LAMBDA all :
    LET joined[k \in 0 .. Len(all)] == IF k = 0 THEN <<>> ELSE joined[k - 1] \o all[k]
    IN  joined[Len(all)])

=============================================================================
