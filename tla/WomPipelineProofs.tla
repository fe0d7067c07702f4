--------------------------- MODULE WomPipelineProofs ------------------------
(***************************************************************************)
(* Proofs about WomPipeline.                                               *)
(***************************************************************************)
EXTENDS WomPipeline, OperatorLemmas

-----------------------------------------------------------------------------
(* Lists of callbacks.                                                     *)

Entry == [fn : STRING, priority : Int]
Bus   == [Hooks -> Seq(Entry)]

In(list, f)       == Cardinality({i \in DOMAIN list : list[i].fn = f})
Adds(cbs, h, f)   == Cardinality({i \in DOMAIN cbs : cbs[i].hook = h /\ cbs[i].fn = f})

(* A callback is added at one place, the others keep their order.          *)
LEMMA AddIs ==
  ASSUME NEW list \in Seq(Entry), NEW cb \in Callbacks
  PROVE  /\ Add(list, cb) \in Seq(Entry)
         /\ Len(Add(list, cb)) = Len(list) + 1
         /\ \E p \in 1 .. Len(list) + 1 :
              /\ Add(list, cb)[p].fn = cb.fn
              /\ \A i \in 1 .. p - 1 : Add(list, cb)[i] = list[i]
              /\ \A i \in p .. Len(list) : Add(list, cb)[i + 1] = list[i]
<1> DEFINE A == {i \in DOMAIN list : list[i].priority <= cb.priority}
           p == 1 + Cardinality(A)
           e == [fn |-> cb.fn, priority |-> cb.priority]
           s == SubSeq(list, 1, p - 1)
           t == SubSeq(list, p, Len(list))
<1>1. p \in 1 .. Len(list) + 1
  <2>1. A \in SUBSET (1 .. Len(list)) /\ Len(list) \in Nat
    OBVIOUS
  <2>2. IsFiniteSet(1 .. Len(list)) /\ Cardinality(1 .. Len(list)) = Len(list)
    BY <2>1, FS_Interval
  <2>3. Cardinality(A) \in Nat /\ Cardinality(A) <= Len(list)
    BY <2>1, <2>2, FS_Subset, FS_CardinalityType
  <2> HIDE DEF A
  <2> QED
    BY <2>1, <2>3
<1>2. Add(list, cb) = s \o <<e>> \o t
  BY DEF Add, InsertAt
<1>3. e \in Entry /\ e.fn = cb.fn
  BY DEF Entry, Callbacks
<1> HIDE DEF p, e
<1>4. s \in Seq(Entry) /\ Len(s) = p - 1 /\ \A i \in 1 .. p - 1 : s[i] = list[i]
  BY <1>1
<1>5. t \in Seq(Entry) /\ Len(t) = Len(list) - p + 1
       /\ \A i \in 1 .. Len(list) - p + 1 : t[i] = list[p + i - 1]
  BY <1>1
<1> HIDE DEF s, t
<1> DEFINE u == s \o <<e>>
<1>6. u \in Seq(Entry) /\ Len(u) = p /\ u[p] = e /\ \A i \in 1 .. p - 1 : u[i] = list[i]
  BY <1>1, <1>3, <1>4
<1> HIDE DEF u
<1> DEFINE m == Len(list) - p + 1
           w == u \o t
<1>0. w \in Seq(Entry) /\ Len(w) = Len(u) + Len(t)
      /\ (\A i \in 1 .. Len(u) : w[i] = u[i])
      /\ (\A i \in 1 .. Len(t) : w[Len(u) + i] = t[i])
  <2>1. w \in Seq(Entry) /\ IsJoin(w, u, t)
    BY <1>5, <1>6, Joined
  <2> HIDE DEF w
  <2> QED
    BY <2>1 DEF IsJoin
<1> HIDE DEF w
<1>00. m \in Nat /\ p + m = Len(list) + 1
  BY <1>1
<1>7. /\ w \in Seq(Entry) /\ Len(w) = Len(list) + 1
      /\ \A i \in 1 .. p : w[i] = u[i]
      /\ \A i \in 1 .. Len(list) - p + 1 : w[p + i] = t[i]
  BY <1>0, <1>00, <1>5, <1>6
<1>8. ASSUME NEW i \in p .. Len(list) PROVE w[i + 1] = list[i]
  <2>1. i - p + 1 \in 1 .. Len(list) - p + 1 /\ p + (i - p + 1) = i + 1 /\ p + (i - p + 1) - 1 = i
    BY <1>1
  <2>2. \E j \in 1 .. Len(list) - p + 1 : i = p + j - 1 /\ i + 1 = p + j
    BY <2>1, <1>1
  <2>3. PICK j \in 1 .. Len(list) - p + 1 : i = p + j - 1 /\ i + 1 = p + j
    BY <2>2
  <2>4. w[p + j] = t[j]
    BY <1>1, <1>7
  <2>5. t[j] = list[p + j - 1]
    BY <1>1, <1>5
  <2> QED
    BY <2>3, <2>4, <2>5
<1>9. Add(list, cb) = w
  BY <1>2 DEF u, w
<1>10. w[p].fn = cb.fn /\ \A i \in 1 .. p - 1 : w[i] = list[i]
  BY <1>1, <1>3, <1>6, <1>7
<1> QED
  BY <1>1, <1>7, <1>8, <1>9, <1>10

(* A callback added stands once more in the list than it did.              *)
LEMMA AddCounts ==
  ASSUME NEW list \in Seq(Entry), NEW cb \in Callbacks, NEW f
  PROVE  In(Add(list, cb), f) = In(list, f) + (IF cb.fn = f THEN 1 ELSE 0)
<1> DEFINE n == Len(list)
           new == Add(list, cb)
           A == {i \in DOMAIN list : list[i].fn = f}
           N == {i \in DOMAIN new : new[i].fn = f}
<1>1. new \in Seq(Entry) /\ Len(new) = n + 1 /\ n \in Nat
  BY AddIs
<1>2. PICK p \in 1 .. n + 1 :
        /\ new[p].fn = cb.fn
        /\ \A i \in 1 .. p - 1 : new[i] = list[i]
        /\ \A i \in p .. n : new[i + 1] = list[i]
  BY AddIs
<1> DEFINE B == N \ {p}
           g == [i \in A |-> IF i < p THEN i ELSE i + 1]
<1>3. A = {i \in 1 .. n : list[i].fn = f} /\ N = {i \in 1 .. n + 1 : new[i].fn = f}
  BY <1>1
<1> HIDE DEF new, A, N
<1>4. g \in [A -> B]
  <2>1. ASSUME NEW i \in A PROVE g[i] \in B
    <3>1. i \in 1 .. n /\ list[i].fn = f
      BY <1>3
    <3>2. CASE i < p
      BY <1>1, <1>2, <1>3, <3>1, <3>2
    <3>3. CASE i >= p
      BY <1>1, <1>2, <1>3, <3>1, <3>3
    <3> QED
      BY <1>1, <1>2, <3>1, <3>2, <3>3
  <2> QED
    BY <2>1
<1>5. \A x, y \in A : g[x] = g[y] => x = y
  BY <1>1, <1>2, <1>3
<1>6. ASSUME NEW z \in B PROVE \E x \in A : g[x] = z
  <2>1. z \in 1 .. n + 1 /\ z # p /\ new[z].fn = f
    BY <1>3
  <2>2. CASE z < p
    <3>1. z \in A /\ g[z] = z
      BY <1>1, <1>2, <1>3, <2>1, <2>2
    <3> QED
      BY <3>1
  <2>3. CASE z > p
    <3>1. z - 1 \in p .. n /\ (z - 1) + 1 = z
      BY <1>1, <1>2, <2>1, <2>3
    <3>2. list[z - 1].fn = f /\ z - 1 \in 1 .. n
      BY <1>1, <1>2, <2>1, <3>1
    <3>3. z - 1 \in A /\ g[z - 1] = z
      BY <1>2, <1>3, <3>1, <3>2
    <3> QED
      BY <3>3
  <2> QED
    BY <1>1, <1>2, <2>1, <2>2, <2>3
<1> HIDE DEF g
<1>7. IsFiniteSet(A) /\ Cardinality(A) \in Nat
  <2>1. A \in SUBSET (1 .. n)
    BY <1>3
  <2> QED
    BY <1>1, <2>1, PlacesFinite
<1>8. IsFiniteSet(B) /\ Cardinality(B) = Cardinality(A)
  <2> HIDE DEF B
  <2> QED
    BY <1>4, <1>5, <1>6, <1>7, Reindexed
<1>9. p \in N <=> cb.fn = f
  BY <1>1, <1>2, <1>3
<1>10. Cardinality(N) = Cardinality(A) + (IF cb.fn = f THEN 1 ELSE 0)
  <2>1. CASE cb.fn = f
    <3>1. N = B \cup {p} /\ p \notin B
      BY <1>9, <2>1
    <3>2. Cardinality(B \cup {p}) = Cardinality(B) + 1
      <4> HIDE DEF B
      <4> QED
        BY <1>8, <3>1, FS_AddElement
    <3> QED
      BY <1>7, <1>8, <2>1, <3>1, <3>2
  <2>2. CASE cb.fn # f
    <3>1. N = B
      BY <1>9, <2>2
    <3> HIDE DEF B
    <3> QED
      BY <1>7, <1>8, <2>2, <3>1
  <2> QED
    BY <2>1, <2>2
<1> QED
  BY <1>10 DEF In, A, N, new

(* All callbacks of a list are added: each stands once more for every time *)
(* the list gives it, on its hook, and no other does.                      *)
LEMMA AddAllCounts ==
  ASSUME NEW bus \in Bus, NEW cbs \in Seq(Callbacks), NEW h \in Hooks, NEW f
  PROVE  /\ AddAll(bus, cbs) \in Bus
         /\ In(AddAll(bus, cbs)[h], f) = In(bus[h], f) + Adds(cbs, h, f)
<1> DEFINE after[i \in 0 .. Len(cbs)] ==
             IF i = 0 THEN bus
             ELSE [after[i - 1] EXCEPT ![cbs[i].hook] = Add(@, cbs[i])]
           n == Len(cbs)
           PutIn(b, i) == [b EXCEPT ![cbs[i].hook] = Add(@, cbs[i])]
           step == [i \in 1 .. n |-> [b \in Bus |-> PutIn(b, i)]]
           Given(i) == {j \in 1 .. i : cbs[j].hook = h /\ cbs[j].fn = f}
<1>0. ASSUME NEW i \in 1 .. Len(cbs) PROVE cbs[i] \in Callbacks /\ cbs[i].hook \in Hooks
  <2>1. cbs[i] \in Callbacks
    OBVIOUS
  <2> QED
    BY <2>1 DEF Callbacks
<1>1. n \in Nat /\ \A i \in 1 .. n : cbs[i] \in Callbacks /\ cbs[i].hook \in Hooks
  BY <1>0
<1>2. AddAll(bus, cbs) = after[n]
  BY Zenon DEF AddAll, after
<1> HIDE DEF n
<1>3. ASSUME NEW b \in Bus, NEW i \in 1 .. n
      PROVE  /\ PutIn(b, i) \in Bus
             /\ In(PutIn(b, i)[h], f) =
                  In(b[h], f) + (IF cbs[i].hook = h /\ cbs[i].fn = f THEN 1 ELSE 0)
  <2>1. cbs[i] \in Callbacks /\ cbs[i].hook \in Hooks
    BY <1>1, <1>3
  <2>2. b[cbs[i].hook] \in Seq(Entry) /\ b[h] \in Seq(Entry)
    BY <2>1 DEF Bus
  <2>3. Add(b[cbs[i].hook], cbs[i]) \in Seq(Entry)
    BY <2>1, <2>2, AddIs
  <2>4. PutIn(b, i) \in Bus
    BY <2>1, <2>3 DEF Bus
  <2>5. PutIn(b, i)[h] = IF cbs[i].hook = h THEN Add(b[h], cbs[i]) ELSE b[h]
    BY DEF Bus
  <2>6. In(Add(b[h], cbs[i]), f) = In(b[h], f) + (IF cbs[i].fn = f THEN 1 ELSE 0)
    BY <2>1, <2>2, AddCounts
  <2>7. In(b[h], f) \in Nat
    <3>1. {j \in DOMAIN b[h] : b[h][j].fn = f} \in SUBSET (1 .. Len(b[h])) /\ Len(b[h]) \in Nat
      BY <2>2
    <3> QED
      BY <3>1, PlacesFinite DEF In
  <2> HIDE DEF PutIn
  <2> QED
    BY <2>4, <2>5, <2>6, <2>7
<1>4. step \in Steps(n, Bus)
  BY <1>3 DEF Steps
<1> HIDE DEF step
<1>5. PICK g \in [0 .. n -> Bus] : g[0] = bus /\ \A i \in 1 .. n : g[i] = step[i][g[i - 1]]
  BY <1>1, <1>4, RecursionOnInterval, SMTT(30)
<1>6. \A i \in 1 .. n : i - 1 \in 0 .. n /\ g[i - 1] \in Bus /\ i # 0
  BY <1>1, <1>5
<1>7. \A i \in 1 .. n : g[i] = PutIn(g[i - 1], i)
  BY <1>5, <1>6 DEF step
<1>8. g = [i \in 0 .. n |-> IF i = 0 THEN bus ELSE PutIn(g[i - 1], i)]
  <2> HIDE DEF PutIn
  <2> QED
    BY <1>1, <1>5, <1>7
<1>9. after = [i \in 0 .. n |-> IF i = 0 THEN bus ELSE PutIn(after[i - 1], i)]
  BY <1>8, Zenon DEF n
<1> HIDE DEF after, PutIn
<1>10. after[0] = bus /\ \A i \in 1 .. n : after[i] = PutIn(after[i - 1], i)
  BY <1>1, <1>9
<1> DEFINE Good == {i \in 0 .. n : after[i] \in Bus
                                  /\ In(after[i][h], f) = In(bus[h], f) + Cardinality(Given(i))}
<1>11. In(bus[h], f) \in Nat
  <2>1. bus[h] \in Seq(Entry)
    BY DEF Bus
  <2>2. {j \in DOMAIN bus[h] : bus[h][j].fn = f} \in SUBSET (1 .. Len(bus[h])) /\ Len(bus[h]) \in Nat
    BY <2>1
  <2> QED
    BY <2>2, PlacesFinite DEF In
<1>12. 0 \in Good
  <2>1. Given(0) = {}
    OBVIOUS
  <2>2. Cardinality(Given(0)) = 0
    BY <2>1, FS_EmptySet
  <2> HIDE DEF Given
  <2> QED
    BY <1>1, <1>10, <1>11, <2>2
<1>13. ASSUME NEW i \in 1 .. n, i - 1 \in Good PROVE i \in Good
  <2>1. after[i - 1] \in Bus
        /\ In(after[i - 1][h], f) = In(bus[h], f) + Cardinality(Given(i - 1))
    BY <1>13
  <2>2. after[i] = PutIn(after[i - 1], i)
    BY <1>10
  <2>3. IsFiniteSet(Given(i - 1)) /\ Cardinality(Given(i - 1)) \in Nat
    <3>1. Given(i - 1) \in SUBSET (1 .. n)
      BY <1>1
    <3> QED
      BY <1>1, <3>1, PlacesFinite
  <2>4. Cardinality(Given(i)) =
          Cardinality(Given(i - 1)) + (IF cbs[i].hook = h /\ cbs[i].fn = f THEN 1 ELSE 0)
    <3>1. CASE cbs[i].hook = h /\ cbs[i].fn = f
      <4>1. Given(i) = Given(i - 1) \cup {i} /\ i \notin Given(i - 1)
        BY <1>1, <3>1
      <4> HIDE DEF Given
      <4>2. Cardinality(Given(i - 1) \cup {i}) = Cardinality(Given(i - 1)) + 1
        BY <2>3, <4>1, FS_AddElement
      <4> QED
        BY <3>1, <4>1, <4>2
    <3>2. CASE ~(cbs[i].hook = h /\ cbs[i].fn = f)
      <4>1. Given(i) = Given(i - 1)
        BY <1>1, <3>2
      <4> HIDE DEF Given
      <4> QED
        BY <2>3, <3>2, <4>1
    <3> HIDE DEF Given
    <3> QED
      BY <3>1, <3>2
  <2>5. i \in 0 .. n
    OBVIOUS
  <2> HIDE DEF Given
  <2>6. after[i] \in Bus
        /\ In(after[i][h], f) = In(after[i - 1][h], f)
             + (IF cbs[i].hook = h /\ cbs[i].fn = f THEN 1 ELSE 0)
    BY <1>3, <2>1, <2>2
  <2> QED
    BY <1>11, <2>1, <2>3, <2>4, <2>5, <2>6
<1>14. \A i \in 0 .. n : i \in Good
  <2> HIDE DEF Good
  <2> QED
    BY <1>1, <1>12, <1>13, IntervalInduction
<1>15. n \in Good
  BY <1>1, <1>14
<1>16. Given(n) = {j \in DOMAIN cbs : cbs[j].hook = h /\ cbs[j].fn = f}
  BY DEF n
<1> QED
  BY <1>2, <1>15, <1>16 DEF Adds

-----------------------------------------------------------------------------
(* The inductive invariant.                                                *)

(* The names a run may leave in its record.                                *)
Things == STRING \cup {Stages[k].name : k \in DOMAIN Stages}

OpsOf(modules) ==
  {SetGlobal} \cup {Import(k) : k \in DOMAIN modules} \cup {Register(k) : k \in DOMAIN modules}

TypeInv ==
  /\ plugins \in PluginFolders
  /\ buses \in [{"first", "own"} -> Bus]
  /\ hooks \in {"first", "own"}
  /\ imported \in SUBSET {k \in DOMAIN plugins : plugins[k].imports}
  /\ loading \in Seq(OpsOf(plugins))
  /\ stage \in 0 .. Len(Stages) /\ runs \in Nat
  /\ calls \in Seq(Entry) /\ ran \in Seq(Things)

(* Nothing is registered before the runner's bus is global, and what is not*)
(* imported yet still has an import ahead.                                 *)
ImportsAhead ==
  /\ buses["first"] = NewBus
  /\ hooks = "first" => /\ loading # <<>> /\ Head(loading) = SetGlobal
                        /\ imported = {} /\ buses["own"] = NewBus
  /\ \A k \in DOMAIN plugins : plugins[k].imports /\ k \notin imported =>
       \E i \in DOMAIN loading : loading[i] = Import(k)

(* A decorated callback stands on the runner's bus once its module is      *)
(* imported; a registered one as often as register was called.             *)
Decorations ==
  \A k \in DOMAIN plugins : plugins[k].imports =>
    \A cb \in ToSet(plugins[k].decorates) :
      In(buses["own"][cb.hook], cb.fn) = IF k \in imported THEN 1 ELSE 0

Registrations ==
  \A k \in DOMAIN plugins : plugins[k].imports =>
    \A cb \in ToSet(plugins[k].registers) :
      In(buses["own"][cb.hook], cb.fn) + Occ(loading, Register(k))
        <= IF launcher = "main" THEN 2 ELSE 1

(* A run has done what its finished stages do, and of the stage it is in   *)
(* everything but the callbacks still to call.                             *)
DoneSoFar ==
  /\ result # "none" => loading = <<>>
  /\ stage # 0 <=> result = "running"
  /\ AtHook => ran \o Names(calls) = DoneAfter(buses["own"])[stage]
  /\ AtWork => calls = <<>> /\ ran = DoneAfter(buses["own"])[stage - 1]
  /\ result = "returned" => ran = DoneAfter(buses["own"])[Len(Stages)]
  /\ result \in {"running", "returned"} => \A f \in failed : f.error # "AttributeError"

(* From the hook before the planning on, the demand is loaded, or its      *)
(* provider raised, or its turn is still to come.                          *)
DemandInTime ==
  stage >= 4 => \/ demand
                \/ \E f \in failed : f.fn = DemandProvider
                \/ stage = 4 /\ \E i \in DOMAIN calls : calls[i].fn = DemandProvider

IInv ==
  TypeInv /\ ImportsAhead /\ Decorations /\ Registrations /\ DoneSoFar /\ DemandInTime

-----------------------------------------------------------------------------
(* The steps of loading.                                                   *)

(* The first member of a list counts in the list and not in its tail.      *)
LEMMA TailCounts ==
  ASSUME NEW S, NEW s \in Seq(S), s # <<>>, NEW x
  PROVE  /\ Tail(s) \in Seq(S) /\ Occ(s, x) \in Nat /\ Occ(Tail(s), x) \in Nat
         /\ Occ(s, x) = Occ(Tail(s), x) + (IF Head(s) = x THEN 1 ELSE 0)
<1> DEFINE n == Len(s)
           A == {i \in 1 .. n : s[i] = x}
           B == {i \in 1 .. n - 1 : s[i + 1] = x}
           C == A \ {1}
           g == [i \in B |-> i + 1]
<1>1. n \in Nat /\ n >= 1
  OBVIOUS
<1>2. Tail(s) \in Seq(S) /\ Len(Tail(s)) = n - 1 /\ Head(s) = s[1]
  OBVIOUS
<1>3. \A i \in 1 .. n - 1 : Tail(s)[i] = s[i + 1]
  OBVIOUS
<1>4. Occ(s, x) = Cardinality(A)
  <2>1. {i \in DOMAIN s : s[i] = x} = A
    OBVIOUS
  <2> QED
    BY <2>1 DEF Occ
<1>5. Occ(Tail(s), x) = Cardinality(B)
  <2>1. {i \in DOMAIN Tail(s) : Tail(s)[i] = x} = B
    BY <1>1, <1>2, <1>3
  <2> QED
    BY <2>1 DEF Occ
<1> HIDE DEF n
<1>6. IsFiniteSet(A) /\ Cardinality(A) \in Nat
  BY <1>1, PlacesFinite
<1>7. IsFiniteSet(B) /\ Cardinality(B) \in Nat
  <2>1. B \in SUBSET (1 .. n)
    BY <1>1
  <2> QED
    BY <1>1, <2>1, PlacesFinite
<1>8. g \in [B -> C] /\ (\A i, j \in B : g[i] = g[j] => i = j)
  BY <1>1
<1>9. ASSUME NEW z \in C PROVE \E i \in B : g[i] = z
  <2>1. z - 1 \in B /\ g[z - 1] = z
    BY <1>1
  <2> QED
    BY <2>1
<1>10. IsFiniteSet(C) /\ Cardinality(C) = Cardinality(B)
  <2> HIDE DEF B, C, g
  <2> QED
    BY <1>7, <1>8, <1>9, Reindexed
<1>11. Cardinality(A) = Cardinality(C) + (IF s[1] = x THEN 1 ELSE 0)
  <2>1. CASE s[1] = x
    <3>1. A = C \cup {1} /\ 1 \notin C
      BY <1>1, <2>1
    <3> HIDE DEF A, C
    <3> QED
      BY <1>10, <2>1, <3>1, FS_AddElement
  <2>2. CASE s[1] # x
    <3>1. A = C
      BY <1>1, <2>2
    <3> HIDE DEF A, C
    <3> QED
      BY <1>6, <2>2, <3>1
  <2> HIDE DEF A, C
  <2> QED
    BY <2>1, <2>2
<1> HIDE DEF A, B, C
<1> QED
  BY <1>2, <1>4, <1>5, <1>6, <1>7, <1>10, <1>11

(* What one list of loading steps holds.                                   *)
LEMMA LoadPluginsFacts ==
  ASSUME NEW folder \in PluginFolders
  PROVE  /\ LoadPlugins(folder) \in Seq(OpsOf(folder))
         /\ LoadPlugins(folder) # <<>> /\ LoadPlugins(folder)[1] = SetGlobal
         /\ \A k \in DOMAIN folder :
              /\ \E i \in DOMAIN LoadPlugins(folder) : LoadPlugins(folder)[i] = Import(k)
              /\ Occ(LoadPlugins(folder), Register(k)) <= 1
<1> DEFINE Ops == OpsOf(folder)
           imports == autoload_plugins(folder)
           calls_ == call_register_if_present(folder)
           first == <<SetGlobal>> \o imports
           all == first \o calls_
           T == {j \in DOMAIN folder : folder[j].top}
           key == [k \in T |-> <<k>>]
           top == InOrder(key)
           m == Cardinality(T)
<1>0. folder \in Seq(PluginModules) /\ DOMAIN folder = 1 .. Len(folder) /\ Len(folder) \in Nat
  <2>1. folder \in Seq(PluginModules)
    BY FoldersAssumption, Zenon DEF FoldersAssumption
  <2> QED
    BY <2>1
<1>1. imports \in Seq(Ops) /\ Len(imports) = Len(folder) /\ \A k \in DOMAIN folder : imports[k] = Import(k)
  <2>1. imports = [k \in 1 .. Len(folder) |-> Import(k)]
    BY <1>0 DEF autoload_plugins
  <2>2. \A k \in 1 .. Len(folder) : Import(k) \in Ops
    BY <1>0 DEF OpsOf
  <2> HIDE DEF imports, Ops
  <2> QED
    BY <1>0, <2>1, <2>2
<1>2. IsListing(top, T)
  <2>1. IsFiniteSet(T)
    <3>1. T \in SUBSET (1 .. Len(folder))
      BY <1>0
    <3> HIDE DEF T
    <3> QED
      BY <1>0, <3>1, PlacesFinite
  <2>2. KeyOf(key, 1)
    <3>1. \A k \in T : k \in Int
      BY <1>0
    <3>2. DOMAIN key = T /\ (\A k \in T : key[k] = <<k>>)
      OBVIOUS
    <3>3. \A x \in DOMAIN key : key[x] \in Tuples(1)
      <4>1. \A k \in Int : <<k>> = [i \in 1 .. 1 |-> k]
        OBVIOUS
      <4>2. \A k \in Int : <<k>> \in Tuples(1)
        BY <4>1 DEF Tuples
      <4> HIDE DEF key
      <4> QED
        BY <3>1, <3>2, <4>2
    <3>4. \A x, y \in DOMAIN key : key[x] = key[y] => x = y
      BY <3>2
    <3>5. key = [x \in DOMAIN key |-> key[x]]
      BY <3>2
    <3>6. IsFiniteSet(DOMAIN key)
      BY <2>1, <3>2
    <3> HIDE DEF T, key
    <3> QED
      BY <3>3, <3>4, <3>5, <3>6 DEF KeyOf
  <2>3. DOMAIN key = T
    OBVIOUS
  <2> HIDE DEF key
  <2> QED
    BY <2>2, <2>3, InOrderLists
<1>3. calls_ = [i \in 1 .. m |-> Register(top[i])]
  <2>1. calls_ = [i \in DOMAIN top |-> Register(top[i])]
    BY Zenon DEF call_register_if_present
  <2>2. DOMAIN top = 1 .. m
    <3> HIDE DEF top, T
    <3> QED
      BY <1>2 DEF IsListing
  <2> HIDE DEF calls_, top, m
  <2> QED
    BY <2>1, <2>2
<1> HIDE DEF top, key, T
<1>4. m \in Nat /\ (\A i \in 1 .. m : top[i] \in T)
      /\ (\A i, j \in 1 .. m : top[i] = top[j] => i = j)
  BY <1>2 DEF IsListing
<1>5. T \in SUBSET DOMAIN folder
  BY DEF T
<1> HIDE DEF m
<1>6. calls_ \in Seq(Ops) /\ Len(calls_) = m /\ (\A i \in 1 .. m : calls_[i] = Register(top[i]))
  <2>1. \A i \in 1 .. m : Register(top[i]) \in Ops
    BY <1>4, <1>5 DEF OpsOf
  <2> HIDE DEF calls_, Ops
  <2> QED
    BY <1>3, <1>4, <2>1
<1>7. <<SetGlobal>> \in Seq(Ops) /\ Len(<<SetGlobal>>) = 1 /\ <<SetGlobal>>[1] = SetGlobal
  BY DEF OpsOf
<1>8. LoadPlugins(folder) = all
  BY Zenon DEF LoadPlugins
<1> HIDE DEF imports, calls_, Ops
<1>9. first \in Seq(Ops) /\ Len(first) = 1 + Len(folder) /\ first[1] = SetGlobal
      /\ \A k \in DOMAIN folder : first[1 + k] = Import(k)
  <2>1. first \in Seq(Ops) /\ IsJoin(first, <<SetGlobal>>, imports)
    BY <1>1, <1>7, Joined
  <2> HIDE DEF first
  <2> QED
    BY <1>0, <1>1, <1>7, <2>1 DEF IsJoin
<1>10. all \in Seq(Ops) /\ IsJoin(all, first, calls_)
  <2> HIDE DEF first
  <2> QED
    BY <1>6, <1>9, Joined
<1> HIDE DEF all
<1>11. Len(all) = Len(first) + m /\ \A i \in 1 .. Len(first) : all[i] = first[i]
  BY <1>6, <1>10 DEF IsJoin
<1>12. all # <<>> /\ all[1] = SetGlobal
  <2> HIDE DEF first
  <2>1. 1 \in 1 .. Len(first) /\ Len(all) # 0
    BY <1>0, <1>4, <1>9, <1>11
  <2> QED
    BY <1>9, <1>10, <1>11, <2>1
<1>13. ASSUME NEW k \in DOMAIN folder
       PROVE  /\ \E i \in DOMAIN all : all[i] = Import(k)
              /\ Occ(all, Register(k)) <= 1
  <2> HIDE DEF first
  <2>1. 1 + k \in 1 .. Len(first) /\ 1 + k \in DOMAIN all
    BY <1>0, <1>4, <1>9, <1>10, <1>11
  <2>2. all[1 + k] = Import(k)
    BY <1>9, <1>11, <2>1
  <2>3. Occ(all, Register(k)) = Occ(first, Register(k)) + Occ(calls_, Register(k))
    BY <1>6, <1>9, JoinCounts DEF all
  <2>4. Occ(first, Register(k)) = 0
    <3>1. ASSUME NEW i \in DOMAIN first, first[i] = Register(k) PROVE FALSE
      <4>1. first[i] # Register(k)
        <5>1. i = 1 \/ \E j \in DOMAIN folder : i = 1 + j
          <6>1. i \in 1 .. 1 + Len(folder)
            BY <1>9
          <6>2. i = 1 \/ i - 1 \in 1 .. Len(folder)
            BY <1>0, <6>1
          <6> QED
            BY <1>0, <6>1, <6>2
        <5> QED
          <6>1. first[i] = SetGlobal \/ \E j \in DOMAIN folder : first[i] = Import(j)
            BY <1>9, <5>1
          <6>2. SetGlobal # Register(k) /\ \A j : Import(j) # Register(k)
            BY DEF Register, Import, SetGlobal
          <6> QED
            BY <6>1, <6>2
      <4> QED
        BY <3>1, <4>1
    <3>2. {i \in DOMAIN first : first[i] = Register(k)} = {}
      BY <3>1
    <3> QED
      BY <3>2, FS_EmptySet DEF Occ
  <2>5. Occ(calls_, Register(k)) <= 1
    <3> DEFINE A == {i \in DOMAIN calls_ : calls_[i] = Register(k)}
    <3>1. \A i, j \in A : i = j
      <4>1. \A i \in A : i \in 1 .. m /\ Register(top[i]) = Register(k)
        BY <1>6
      <4>2. \A i \in A : i \in 1 .. m /\ top[i] = k
        BY <4>1 DEF Register
      <4> HIDE DEF A
      <4> QED
        BY <1>4, <4>2
    <3>2. A = {} \/ \E i \in A : A = {i}
      BY <3>1
    <3> HIDE DEF A
    <3>3. Cardinality(A) <= 1
      <4>1. CASE A = {}
        BY <4>1, FS_EmptySet
      <4>2. CASE \E i \in A : A = {i}
        <5>1. PICK i \in A : A = {i}
          BY <4>2
        <5>2. Cardinality({i}) = 1
          BY FS_Singleton, Zenon
        <5> QED
          BY <5>1, <5>2
      <4> QED
        BY <3>2, <4>1, <4>2
    <3> QED
      BY <3>3 DEF Occ, A
  <2>6. Occ(calls_, Register(k)) \in Nat
    BY <1>6, <1>9, JoinCounts
  <2> QED
    BY <2>1, <2>2, <2>3, <2>4, <2>5, <2>6
<1> QED
  BY <1>8, <1>10, <1>12, <1>13 DEF Ops
(* What loading has to do when a process starts.                           *)
LEMMA LoadingFacts ==
  ASSUME NEW l, NEW folder \in PluginFolders
  PROVE  /\ LoadingOf(l, folder) \in Seq(OpsOf(folder))
         /\ LoadingOf(l, folder) # <<>> /\ Head(LoadingOf(l, folder)) = SetGlobal
         /\ \A k \in DOMAIN folder :
              /\ \E i \in DOMAIN LoadingOf(l, folder) : LoadingOf(l, folder)[i] = Import(k)
              /\ Occ(LoadingOf(l, folder), Register(k)) <= IF l = "main" THEN 2 ELSE 1
<1> DEFINE Ops == OpsOf(folder)
           s == LoadPlugins(folder)
           t == IF l = "main" THEN s ELSE <<>>
           w == s \o t
<1>1. s \in Seq(Ops) /\ s # <<>> /\ s[1] = SetGlobal
  BY LoadPluginsFacts
<1>2. \A k \in DOMAIN folder : (\E i \in DOMAIN s : s[i] = Import(k)) /\ Occ(s, Register(k)) <= 1
  BY LoadPluginsFacts
<1>3. LoadingOf(l, folder) = w
  BY Zenon DEF LoadingOf
<1> HIDE DEF s, Ops
<1>4. t \in Seq(Ops)
  BY <1>1
<1>5. \A k \in DOMAIN folder : Occ(t, Register(k)) <= IF l = "main" THEN 1 ELSE 0
  <2>1. \A x : Occ(<<>>, x) = 0
    <3>1. \A x : {i \in DOMAIN <<>> : <<>>[i] = x} = {}
      OBVIOUS
    <3> QED
      BY <3>1, FS_EmptySet DEF Occ
  <2> QED
    BY <1>2, <2>1
<1> HIDE DEF t
<1>6. w \in Seq(Ops) /\ IsJoin(w, s, t)
  BY <1>1, <1>4, Joined
<1>7. \A x : Occ(w, x) = Occ(s, x) + Occ(t, x) /\ Occ(s, x) \in Nat /\ Occ(t, x) \in Nat
  BY <1>1, <1>4, JoinCounts
<1> HIDE DEF w
<1>8. Len(w) = Len(s) + Len(t) /\ \A i \in DOMAIN s : i \in DOMAIN w /\ w[i] = s[i]
  BY <1>1, <1>4, <1>6 DEF IsJoin
<1>9. w # <<>> /\ Head(w) = SetGlobal
  <2>1. 1 \in DOMAIN s
    BY <1>1
  <2> QED
    BY <1>1, <1>6, <1>8, <2>1
<1>10. ASSUME NEW k \in DOMAIN folder
       PROVE  /\ \E i \in DOMAIN w : w[i] = Import(k)
              /\ Occ(w, Register(k)) <= IF l = "main" THEN 2 ELSE 1
  BY <1>2, <1>5, <1>7, <1>8
<1> QED
  BY <1>3, <1>6, <1>9, <1>10 DEF Ops

-----------------------------------------------------------------------------
(* What a module adds to the bus.                                          *)

(* A name stands for one registration: of the lists of all modules, only   *)
(* its own gives it, and once.                                             *)
LEMMA GivenOnce ==
  ASSUME NEW folder \in PluginFolders, NEW k \in DOMAIN folder, NEW l \in DOMAIN folder
  PROVE  /\ folder[k].decorates \in Seq(Callbacks) /\ folder[k].registers \in Seq(Callbacks)
         /\ \A cb \in ToSet(folder[k].decorates) :
              /\ cb \in Callbacks
              /\ Adds(folder[l].decorates, cb.hook, cb.fn) = IF k = l THEN 1 ELSE 0
              /\ Adds(folder[l].registers, cb.hook, cb.fn) = 0
         /\ \A cb \in ToSet(folder[k].registers) :
              /\ cb \in Callbacks
              /\ Adds(folder[l].registers, cb.hook, cb.fn) = IF k = l THEN 1 ELSE 0
              /\ Adds(folder[l].decorates, cb.hook, cb.fn) = 0
<1> DEFINE Dk == folder[k].decorates
           Dl == folder[l].decorates
           Rk == folder[k].registers
           Rl == folder[l].registers
           Same(a, b) == a.fn = b.fn /\ a.hook = b.hook
<1>1. folder \in Seq(PluginModules)
  BY FoldersAssumption, Zenon DEF FoldersAssumption
<1>2. Dk \in Seq(Callbacks) /\ Dl \in Seq(Callbacks) /\ Rk \in Seq(Callbacks) /\ Rl \in Seq(Callbacks)
  <2>1. folder[k] \in PluginModules /\ folder[l] \in PluginModules
    BY <1>1
  <2> QED
    BY <2>1 DEF PluginModules
<1> DEFINE one == Dk \o Rk
           other == Dl \o Rl
<1>3. \A i \in DOMAIN one, j \in DOMAIN other : Same(one[i], other[j]) => k = l /\ i = j
  BY FoldersAssumption, Zenon DEF FoldersAssumption
<1>4. one \in Seq(Callbacks) /\ other \in Seq(Callbacks) /\ IsJoin(one, Dk, Rk) /\ IsJoin(other, Dl, Rl)
  BY <1>2, Joined
<1> HIDE DEF one, other, Dk, Dl, Rk, Rl
<1>5. /\ \A i \in DOMAIN Dk : i \in DOMAIN one /\ one[i] = Dk[i]
      /\ \A i \in DOMAIN Rk : Len(Dk) + i \in DOMAIN one /\ one[Len(Dk) + i] = Rk[i]
      /\ \A i \in DOMAIN Dl : i \in DOMAIN other /\ other[i] = Dl[i]
      /\ \A i \in DOMAIN Rl : Len(Dl) + i \in DOMAIN other /\ other[Len(Dl) + i] = Rl[i]
  <2> DEFINE Within(w, s, u) ==
               /\ \A i \in DOMAIN s : i \in DOMAIN w /\ w[i] = s[i]
               /\ \A i \in DOMAIN u : Len(s) + i \in DOMAIN w /\ w[Len(s) + i] = u[i]
  <2>1. ASSUME NEW w \in Seq(Callbacks), NEW s \in Seq(Callbacks), NEW u \in Seq(Callbacks),
               IsJoin(w, s, u)
        PROVE  Within(w, s, u)
    <3>1. /\ Len(w) = Len(s) + Len(u) /\ DOMAIN w = 1 .. Len(w)
          /\ DOMAIN s = 1 .. Len(s) /\ Len(s) \in Nat /\ DOMAIN u = 1 .. Len(u) /\ Len(u) \in Nat
      BY <2>1 DEF IsJoin
    <3>2. \A i \in DOMAIN s : i \in DOMAIN w
      BY <3>1
    <3>3. \A i \in DOMAIN u : Len(s) + i \in DOMAIN w
      BY <3>1
    <3>4. (\A i \in DOMAIN s : w[i] = s[i]) /\ \A i \in DOMAIN u : w[Len(s) + i] = u[i]
      BY <2>1, <3>1 DEF IsJoin
    <3> QED
      BY <3>2, <3>3, <3>4
  <2>2. Within(one, Dk, Rk) /\ Within(other, Dl, Rl)
    <3> HIDE DEF Within
    <3> QED
      BY <1>2, <1>4, <2>1
  <2> QED
    BY <2>2
<1> HIDE DEF Same
<1>6. \A i \in DOMAIN Dk, j \in DOMAIN Dl : Same(Dk[i], Dl[j]) => k = l /\ i = j
  BY <1>3, <1>5
<1>7. \A i \in DOMAIN Rk, j \in DOMAIN Rl : Same(Rk[i], Rl[j]) => k = l /\ i = j
  <2> SUFFICES ASSUME NEW i \in DOMAIN Rk, NEW j \in DOMAIN Rl, Same(Rk[i], Rl[j])
               PROVE  k = l /\ i = j
    OBVIOUS
  <2>1. k = l /\ Len(Dk) + i = Len(Dl) + j
    BY <1>3, <1>5
  <2>2. Len(Dk) = Len(Dl) /\ Len(Dk) \in Nat /\ i \in Nat /\ j \in Nat
    BY <1>2, <2>1 DEF Dk, Dl
  <2> QED
    BY <2>1, <2>2
<1>8. \A i \in DOMAIN Dk, j \in DOMAIN Rl : ~Same(Dk[i], Rl[j])
  <2> SUFFICES ASSUME NEW i \in DOMAIN Dk, NEW j \in DOMAIN Rl, Same(Dk[i], Rl[j])
               PROVE  FALSE
    OBVIOUS
  <2>1. k = l /\ i = Len(Dl) + j
    BY <1>3, <1>5
  <2>2. Len(Dk) = Len(Dl) /\ Len(Dk) \in Nat /\ i \in 1 .. Len(Dk) /\ j \in Nat /\ j > 0
    BY <1>2, <2>1 DEF Dk, Dl
  <2> QED
    BY <2>1, <2>2
<1>9. \A i \in DOMAIN Rk, j \in DOMAIN Dl : ~Same(Rk[i], Dl[j])
  <2> SUFFICES ASSUME NEW i \in DOMAIN Rk, NEW j \in DOMAIN Dl, Same(Rk[i], Dl[j])
               PROVE  FALSE
    OBVIOUS
  <2>1. k = l /\ Len(Dk) + i = j
    BY <1>3, <1>5
  <2>2. Len(Dk) = Len(Dl) /\ Len(Dk) \in Nat /\ j \in 1 .. Len(Dl) /\ i \in Nat /\ i > 0
    BY <1>2, <2>1 DEF Dk, Dl
  <2> QED
    BY <2>1, <2>2
<1>10. ASSUME NEW s \in Seq(Callbacks), NEW t \in Seq(Callbacks), NEW i \in DOMAIN s, NEW same \in BOOLEAN,
              \A j \in DOMAIN t : Same(s[i], t[j]) => same /\ i = j,
              same => s = t
       PROVE  Adds(t, s[i].hook, s[i].fn) = IF same THEN 1 ELSE 0
  <2> DEFINE A == {j \in DOMAIN t : t[j].hook = s[i].hook /\ t[j].fn = s[i].fn}
  <2>1. \A j \in A : same /\ i = j
    BY <1>10 DEF Same
  <2>2. CASE same
    <3>1. A = {i}
      BY <1>10, <2>1, <2>2
    <3>2. Cardinality({i}) = 1
      BY FS_Singleton, Zenon
    <3> QED
      BY <2>2, <3>1, <3>2 DEF Adds
  <2>3. CASE ~same
    <3>1. A = {}
      BY <2>1, <2>3
    <3>2. Cardinality({}) = 0
      BY FS_EmptySet
    <3> QED
      BY <2>3, <3>1, <3>2 DEF Adds
  <2> QED
    BY <2>2, <2>3
<1>11. k = l => Dk = Dl /\ Rk = Rl
  BY DEF Dk, Dl, Rk, Rl
<1>12. ASSUME NEW cb \in ToSet(Dk)
       PROVE  /\ cb \in Callbacks
              /\ Adds(Dl, cb.hook, cb.fn) = IF k = l THEN 1 ELSE 0
              /\ Adds(Rl, cb.hook, cb.fn) = 0
  <2>1. PICK i \in DOMAIN Dk : cb = Dk[i]
    BY DEF ToSet
  <2>0. PICK same \in BOOLEAN : same <=> k = l
    OBVIOUS
  <2>2. Adds(Dl, Dk[i].hook, Dk[i].fn) = IF same THEN 1 ELSE 0
    BY <1>2, <1>6, <1>10, <1>11, <2>0
  <2>3. Adds(Rl, Dk[i].hook, Dk[i].fn) = IF FALSE THEN 1 ELSE 0
    BY <1>2, <1>8, <1>10
  <2> QED
    BY <1>2, <2>0, <2>1, <2>2, <2>3
<1>13. ASSUME NEW cb \in ToSet(Rk)
       PROVE  /\ cb \in Callbacks
              /\ Adds(Rl, cb.hook, cb.fn) = IF k = l THEN 1 ELSE 0
              /\ Adds(Dl, cb.hook, cb.fn) = 0
  <2>1. PICK i \in DOMAIN Rk : cb = Rk[i]
    BY DEF ToSet
  <2>0. PICK same \in BOOLEAN : same <=> k = l
    OBVIOUS
  <2>2. Adds(Rl, Rk[i].hook, Rk[i].fn) = IF same THEN 1 ELSE 0
    BY <1>2, <1>7, <1>10, <1>11, <2>0
  <2>3. Adds(Dl, Rk[i].hook, Rk[i].fn) = IF FALSE THEN 1 ELSE 0
    BY <1>2, <1>9, <1>10
  <2> QED
    BY <1>2, <2>0, <2>1, <2>2, <2>3
<1> QED
  BY <1>2, <1>12, <1>13 DEF Dk, Dl, Rk, Rl
-----------------------------------------------------------------------------
(* The stages of a run.                                                    *)

(* What is used of the list of the stages.                                 *)
LEMMA StageFacts ==
  /\ Len(Stages) = 13
  /\ \A k \in 1 .. 13 : /\ Stages[k].name \in Things /\ Stages[k].does \in {"hook", "work"}
                        /\ Stages[k].does = "hook" => Stages[k].name \in Hooks
  /\ Stages[4] = Hook("before_planning")
  /\ \A k \in 1 .. 4 : Stages[k].does = "work" => Stages[k].name = "build_tree"
<1>1. Len(Stages) = 13 /\ DOMAIN Stages = 1 .. 13
  BY DEF Stages
<1>3. /\ Stages[1] = Hook("spec") /\ Stages[2] = Work("build_tree")
      /\ Stages[3] = Hook("after_build") /\ Stages[4] = Hook("before_planning")
      /\ Stages[5] = Work("demand_planning") /\ Stages[6] = Hook("after_demand_planning")
      /\ Stages[7] = Work("demand_leveling") /\ Stages[8] = Hook("after_demand_leveling")
      /\ Stages[9] = Work("supply_planning") /\ Stages[10] = Hook("after_supply_planning")
      /\ Stages[11] = Hook("before_collect") /\ Stages[12] = Hook("result")
      /\ Stages[13] = Hook("after_run")
  BY DEF Stages
<1>4. \A k \in 1 .. 13 : Stages[k].name \in Things /\ Stages[k].does \in {"hook", "work"}
  <2> DEFINE Good(x) == x.does \in {"hook", "work"}
  <2>1. \A k \in 1 .. 13 : k \in {1, 2, 3, 4, 5, 6, 7, 8, 9, 10, 11, 12, 13}
    OBVIOUS
  <2>2. /\ Good(Stages[1]) /\ Good(Stages[2]) /\ Good(Stages[3]) /\ Good(Stages[4])
        /\ Good(Stages[5]) /\ Good(Stages[6]) /\ Good(Stages[7]) /\ Good(Stages[8])
        /\ Good(Stages[9]) /\ Good(Stages[10]) /\ Good(Stages[11]) /\ Good(Stages[12])
        /\ Good(Stages[13])
    BY <1>3 DEF Hook, Work
  <2> HIDE DEF Good
  <2>3. \A k \in 1 .. 13 : Good(Stages[k])
    BY <2>1, <2>2
  <2> QED
    BY <1>1, <2>3 DEF Good, Things
<1>5. \A k \in 1 .. 13 : Stages[k].does = "hook" => Stages[k].name \in Hooks
  BY <1>1 DEF Hooks
<1>6. \A k \in 1 .. 4 : Stages[k].does = "work" => Stages[k].name = "build_tree"
  <2>1. \A k \in 1 .. 4 : k \in {1, 2, 3, 4}
    OBVIOUS
  <2>2. Stages[1].does = "hook" /\ Stages[3].does = "hook" /\ Stages[4].does = "hook"
        /\ Stages[2].name = "build_tree"
    BY <1>3 DEF Hook, Work
  <2> QED
    BY <2>1, <2>2
<1> QED
  BY <1>1, <1>3, <1>4, <1>5, <1>6

Does(bus, k) == IF Stages[k].does = "hook" THEN Names(bus[Stages[k].name]) ELSE <<Stages[k].name>>

(* DoneAfter adds, stage by stage, what the stage does.                    *)
LEMMA DoneAfterIs ==
  ASSUME NEW bus \in Bus
  PROVE  /\ DoneAfter(bus)[0] = <<>>
         /\ \A k \in 1 .. Len(Stages) : DoneAfter(bus)[k] = DoneAfter(bus)[k - 1] \o Does(bus, k)
<1> DEFINE n == Len(Stages)
           A == Seq(Things)
           done[k \in 0 .. n] ==
             IF k = 0 THEN <<>>
             ELSE done[k - 1] \o (IF Stages[k].does = "hook" THEN Names(bus[Stages[k].name])
                                  ELSE <<Stages[k].name>>)
           Then(a, k) == a \o Does(bus, k)
           none == <<>>
           step == [k \in 1 .. n |-> [a \in A |-> Then(a, k)]]
<1>1. DoneAfter(bus) = done
  BY Zenon DEF DoneAfter, done
<1>2. n \in Nat /\ n = 13
  BY StageFacts
<1> HIDE DEF n
<1>3. ASSUME NEW k \in 1 .. n PROVE Does(bus, k) \in A
  <2>1. CASE Stages[k].does = "hook"
    <3>1. bus[Stages[k].name] \in Seq(Entry)
      BY <1>2, <2>1, StageFacts DEF Bus
    <3>2. \A list \in Seq(Entry) : Names(list) \in Seq(Things)
      <4> SUFFICES ASSUME NEW list \in Seq(Entry) PROVE Names(list) \in Seq(Things)
        OBVIOUS
      <4>1. \A i \in 1 .. Len(list) : list[i].fn \in Things
        <5>1. \A i \in 1 .. Len(list) : list[i] \in Entry
          OBVIOUS
        <5> QED
          BY <5>1 DEF Entry, Things
      <4>2. Names(list) = [i \in 1 .. Len(list) |-> list[i].fn] /\ Len(list) \in Nat
        BY DEF Names
      <4> QED
        BY <4>1, <4>2
    <3> QED
      BY <2>1, <3>1, <3>2 DEF Does
  <2>2. CASE Stages[k].does # "hook"
    <3>1. Stages[k].name \in Things
      BY <1>2, StageFacts
    <3> QED
      BY <2>2, <3>1 DEF Does
  <2> QED
    BY <2>1, <2>2
<1>4. step \in Steps(n, A)
  <2>1. \A k \in 1 .. n : \A a \in A : Then(a, k) \in A
    BY <1>3
  <2> HIDE DEF A, Then
  <2> QED
    BY <2>1 DEF Steps
<1>5. none \in A
  OBVIOUS
<1> HIDE DEF step, A, none, Then
<1>6. PICK g \in [0 .. n -> A] : g[0] = none /\ \A i \in 1 .. n : g[i] = step[i][g[i - 1]]
  <2>1. n \in Nat
    BY <1>2
  <2> QED
    BY <1>4, <1>5, <2>1, RecursionOnInterval
<1>7. \A i \in 1 .. n : i - 1 \in 0 .. n /\ g[i - 1] \in A /\ i # 0
  BY <1>2, <1>6
<1>8. \A i \in 1 .. n : g[i] = Then(g[i - 1], i)
  BY <1>6, <1>7 DEF step
<1>9. g = [k \in 0 .. n |-> IF k = 0 THEN none ELSE Then(g[k - 1], k)]
  BY <1>2, <1>6, <1>8
<1>10. done = [k \in 0 .. n |-> IF k = 0 THEN none ELSE Then(done[k - 1], k)]
  BY <1>9, Zenon DEF Does, none, Then
<1> HIDE DEF done
<1>11. done[0] = none /\ \A k \in 1 .. n : done[k] = Then(done[k - 1], k)
  BY <1>2, <1>10
<1> QED
  BY <1>1, <1>11, Zenon DEF n, none, Then

-----------------------------------------------------------------------------
(* The invariant holds at the start.                                       *)

LEMMA InitEstablishes == Init => IInv
<1> SUFFICES ASSUME Init PROVE IInv
  OBVIOUS
<1> USE DEF Init
<1>1. plugins \in PluginFolders
  OBVIOUS
<1>2. /\ loading \in Seq(OpsOf(plugins)) /\ loading # <<>> /\ Head(loading) = SetGlobal
      /\ \A k \in DOMAIN plugins :
           /\ \E i \in DOMAIN loading : loading[i] = Import(k)
           /\ Occ(loading, Register(k)) <= IF launcher = "main" THEN 2 ELSE 1
      /\ \A x : Occ(loading, x) \in Nat
  <2>1. loading = LoadingOf(launcher, plugins)
    OBVIOUS
  <2>2. \A x : Occ(loading, x) \in Nat
    BY <1>1, <2>1, LoadingFacts, TailCounts
  <2> HIDE DEF Init
  <2> QED
    BY <1>1, <2>1, <2>2, LoadingFacts
<1>3. NewBus \in Bus
  BY DEF NewBus, Bus
<1>4. \A h \in Hooks : \A f : In(NewBus[h], f) = 0
  <2>1. \A f : {i \in DOMAIN <<>> : <<>>[i].fn = f} = {}
    OBVIOUS
  <2>2. \A f : In(<<>>, f) = 0
    BY <2>1, FS_EmptySet DEF In
  <2> QED
    BY <2>2 DEF NewBus
<1>5. buses["first"] = NewBus /\ buses["own"] = NewBus /\ hooks = "first" /\ imported = {}
  OBVIOUS
<1>6. \A k \in DOMAIN plugins : \A cb \in ToSet(plugins[k].decorates) \cup ToSet(plugins[k].registers) :
        cb.hook \in Hooks
  BY <1>1, GivenOnce DEF Callbacks
<1>7. TypeInv
  <2>1. stage \in 0 .. Len(Stages) /\ runs \in Nat /\ calls \in Seq(Entry) /\ ran \in Seq(Things)
    BY StageFacts
  <2>2. buses \in [{"first", "own"} -> Bus]
    BY <1>3
  <2> QED
    BY <1>1, <1>2, <1>5, <2>1, <2>2 DEF TypeInv
<1>8. ImportsAhead
  BY <1>2, <1>5 DEF ImportsAhead
<1>9. Decorations
  BY <1>4, <1>5, <1>6 DEF Decorations
<1>10. Registrations
  <2>1. ASSUME NEW k \in DOMAIN plugins, NEW cb \in ToSet(plugins[k].registers)
        PROVE  In(buses["own"][cb.hook], cb.fn) + Occ(loading, Register(k))
                 <= IF launcher = "main" THEN 2 ELSE 1
    <3>1. In(buses["own"][cb.hook], cb.fn) = 0
      BY <1>4, <1>5, <1>6, <2>1
    <3> HIDE DEF Init
    <3> QED
      BY <1>2, <2>1, <3>1
  <2> QED
    BY <2>1 DEF Registrations
<1>11. DoneSoFar
  BY DEF DoneSoFar, AtHook, AtWork
<1>12. DemandInTime
  BY DEF DemandInTime
<1> QED
  BY <1>7, <1>8, <1>9, <1>10, <1>11, <1>12 DEF IInv
-----------------------------------------------------------------------------
(* The steps of loading keep the invariant.                                *)

(* What is ahead and not first is ahead after the first is taken.          *)
LEMMA TailHas ==
  ASSUME NEW S, NEW s \in Seq(S), s # <<>>, NEW x, Head(s) # x,
         \E i \in DOMAIN s : s[i] = x
  PROVE  \E i \in DOMAIN Tail(s) : Tail(s)[i] = x
<1>1. PICK i \in 1 .. Len(s) : s[i] = x
  OBVIOUS
<1>2. i # 1
  BY <1>1
<1>3. i - 1 \in 1 .. Len(s) - 1 /\ (i - 1) + 1 = i
  BY <1>1, <1>2
<1>4. Len(Tail(s)) = Len(s) - 1 /\ DOMAIN Tail(s) = 1 .. Len(s) - 1
  OBVIOUS
<1>5. Tail(s)[i - 1] = s[i]
  BY <1>3, <1>4
<1> QED
  BY <1>1, <1>3, <1>4, <1>5

(* What the decorators, and what the function register, of a module change *)
(* of the counts of the callbacks of another.                              *)
Counts(new, bus, cb, more) ==
  /\ In(bus[cb.hook], cb.fn) \in Nat
  /\ In(new[cb.hook], cb.fn) = In(bus[cb.hook], cb.fn) + more

LEMMA ListAdds ==
  ASSUME NEW bus \in Bus, NEW cbs \in Seq(Callbacks), NEW cb \in Callbacks,
         NEW more \in Nat, Adds(cbs, cb.hook, cb.fn) = more
  PROVE  AddAll(bus, cbs) \in Bus /\ Counts(AddAll(bus, cbs), bus, cb, more)
<1>1. PICK h \in Hooks, f \in {cb.fn} : h = cb.hook
  BY DEF Callbacks
<1>2. AddAll(bus, cbs) \in Bus /\ In(AddAll(bus, cbs)[h], f) = In(bus[h], f) + Adds(cbs, h, f)
  BY <1>1, AddAllCounts
<1>3. In(bus[h], f) \in Nat
  <2>1. bus[h] \in Seq(Entry)
    BY <1>1 DEF Bus
  <2>2. {j \in DOMAIN bus[h] : bus[h][j].fn = f} \in SUBSET (1 .. Len(bus[h])) /\ Len(bus[h]) \in Nat
    BY <2>1
  <2> QED
    BY <2>2, PlacesFinite DEF In
<1> QED
  BY <1>1, <1>2, <1>3 DEF Counts

LEMMA DecoratesAdd ==
  ASSUME NEW folder \in PluginFolders, NEW k \in DOMAIN folder, NEW l \in DOMAIN folder,
         NEW bus \in Bus, NEW new, new = AddAll(bus, folder[l].decorates)
  PROVE  /\ new \in Bus
         /\ \A cb \in ToSet(folder[k].decorates) : Counts(new, bus, cb, IF k = l THEN 1 ELSE 0)
         /\ \A cb \in ToSet(folder[k].registers) : Counts(new, bus, cb, 0)
<1>0. folder[l].decorates \in Seq(Callbacks)
  BY GivenOnce
<1>1. ASSUME NEW cb \in ToSet(folder[k].decorates)
      PROVE  Counts(new, bus, cb, IF k = l THEN 1 ELSE 0)
  <2>1. cb \in Callbacks /\ Adds(folder[l].decorates, cb.hook, cb.fn) = IF k = l THEN 1 ELSE 0
    BY GivenOnce
  <2>2. PICK more \in Nat : more = IF k = l THEN 1 ELSE 0
    OBVIOUS
  <2> QED
    BY <1>0, <2>1, <2>2, ListAdds
<1>2. ASSUME NEW cb \in ToSet(folder[k].registers)
      PROVE  Counts(new, bus, cb, 0)
  <2>1. cb \in Callbacks /\ Adds(folder[l].decorates, cb.hook, cb.fn) = 0
    BY GivenOnce
  <2> QED
    BY <1>0, <2>1, ListAdds
<1>3. new \in Bus
  <2>1. Stages[4].does = "hook" /\ 4 \in 1 .. 13
    BY StageFacts DEF Hook
  <2>2. Hooks # {}
    BY <2>1, StageFacts
  <2> QED
    BY <1>0, <2>2, AddAllCounts
<1> QED
  BY <1>1, <1>2, <1>3

LEMMA RegisterAdds ==
  ASSUME NEW folder \in PluginFolders, NEW k \in DOMAIN folder, NEW l \in DOMAIN folder,
         NEW bus \in Bus, NEW new, new = AddAll(bus, folder[l].registers)
  PROVE  /\ new \in Bus
         /\ \A cb \in ToSet(folder[k].decorates) : Counts(new, bus, cb, 0)
         /\ \A cb \in ToSet(folder[k].registers) : Counts(new, bus, cb, IF k = l THEN 1 ELSE 0)
<1>0. folder[l].registers \in Seq(Callbacks)
  BY GivenOnce
<1>1. ASSUME NEW cb \in ToSet(folder[k].registers)
      PROVE  Counts(new, bus, cb, IF k = l THEN 1 ELSE 0)
  <2>1. cb \in Callbacks /\ Adds(folder[l].registers, cb.hook, cb.fn) = IF k = l THEN 1 ELSE 0
    BY GivenOnce
  <2>2. PICK more \in Nat : more = IF k = l THEN 1 ELSE 0
    OBVIOUS
  <2> QED
    BY <1>0, <2>1, <2>2, ListAdds
<1>2. ASSUME NEW cb \in ToSet(folder[k].decorates)
      PROVE  Counts(new, bus, cb, 0)
  <2>1. cb \in Callbacks /\ Adds(folder[l].registers, cb.hook, cb.fn) = 0
    BY GivenOnce
  <2> QED
    BY <1>0, <2>1, ListAdds
<1>3. new \in Bus
  <2>1. Stages[4].does = "hook" /\ 4 \in 1 .. 13
    BY StageFacts DEF Hook
  <2>2. Hooks # {}
    BY <2>1, StageFacts
  <2> QED
    BY <1>0, <2>2, AddAllCounts
<1> QED
  BY <1>1, <1>2, <1>3

LoadingStep == set_global \/ ImportModule \/ CallRegister

(* Loading takes place before the first run: nothing of a run changes.     *)
LEMMA LoadingKeepsRun ==
  IInv /\ LoadingStep => DoneSoFar' /\ DemandInTime'
<1> SUFFICES ASSUME IInv, LoadingStep PROVE DoneSoFar' /\ DemandInTime'
  OBVIOUS
<1>1. loading # <<>> /\ UNCHANGED <<stage, calls, demand, ran, failed, result, runs>>
  BY DEF LoadingStep, set_global, ImportModule, CallRegister, Loading, InRunUnchanged
<1>2. result = "none" /\ stage = 0
  BY <1>1 DEF IInv, DoneSoFar
<1>3. result' = "none" /\ stage' = 0
  BY <1>1, <1>2
<1>4. DoneSoFar'
  BY <1>3 DEF DoneSoFar, AtHook, AtWork
<1>5. DemandInTime'
  BY <1>3 DEF DemandInTime
<1> QED
  BY <1>4, <1>5

(* Making the runner's bus global.                                         *)
LEMMA SetGlobalKeeps ==
  IInv /\ set_global => TypeInv' /\ ImportsAhead' /\ Decorations' /\ Registrations'
<1> SUFFICES ASSUME IInv, set_global
             PROVE  TypeInv' /\ ImportsAhead' /\ Decorations' /\ Registrations'
  OBVIOUS
<1> USE DEF IInv
<1>1. /\ loading # <<>> /\ Head(loading).op = "set_global" /\ loading' = Tail(loading)
      /\ hooks' = "own"
      /\ UNCHANGED <<launcher, plugins, buses, imported, stage, calls, ran, runs>>
  BY DEF set_global, Loading, InRunUnchanged
<1>2. loading \in Seq(OpsOf(plugins)) /\ loading' \in Seq(OpsOf(plugins))
  BY <1>1 DEF TypeInv
<1>3. TypeInv'
  BY <1>1, <1>2 DEF TypeInv
<1>4. ImportsAhead'
  <2>1. \A k : Head(loading) # Import(k)
    BY <1>1 DEF Import
  <2>2. ASSUME NEW k \in DOMAIN plugins, plugins[k].imports, k \notin imported
        PROVE  \E i \in DOMAIN loading' : loading'[i] = Import(k)
    <3>1. \E i \in DOMAIN loading : loading[i] = Import(k)
      BY <2>2 DEF ImportsAhead
    <3>2. \E i \in DOMAIN Tail(loading) : Tail(loading)[i] = Import(k)
      BY <1>1, <1>2, <2>1, <3>1, TailHas
    <3> QED
      BY <1>1, <3>2
  <2> QED
    BY <1>1, <2>2 DEF ImportsAhead
<1>5. Decorations'
  BY <1>1 DEF Decorations
<1>6. Registrations'
  <2> SUFFICES ASSUME NEW k \in DOMAIN plugins, plugins[k].imports,
                      NEW cb \in ToSet(plugins[k].registers)
               PROVE  In(buses["own"][cb.hook], cb.fn) + Occ(loading', Register(k))
                        <= IF launcher = "main" THEN 2 ELSE 1
    BY <1>1 DEF Registrations
  <2>1. In(buses["own"][cb.hook], cb.fn) \in Nat
    BY DecoratesAdd DEF TypeInv, Counts
  <2>2. Occ(loading, Register(k)) \in Nat /\ Occ(loading', Register(k)) \in Nat
        /\ Occ(loading', Register(k)) <= Occ(loading, Register(k))
    BY <1>1, <1>2, TailCounts
  <2>3. In(buses["own"][cb.hook], cb.fn) + Occ(loading, Register(k))
          <= IF launcher = "main" THEN 2 ELSE 1
    BY DEF Registrations
  <2> QED
    BY <2>1, <2>2, <2>3
<1> QED
  BY <1>3, <1>4, <1>5, <1>6
(* The runner's bus after the decorators of a module, and after its        *)
(* function register.                                                      *)
Decorating(k) ==
  IF k \in imported THEN buses["own"] ELSE AddAll(buses["own"], plugins[k].decorates)

(* Importing a module, on its own or to call its register.                 *)
LEMMA ImportKeeps ==
  ASSUME IInv, NEW k \in DOMAIN plugins, hooks = "own",
         loading # <<>>, Head(loading) \in {Import(k), Register(k)}
  PROVE  /\ Decorated(k) = [buses EXCEPT !["own"] = Decorating(k)]
         /\ Decorating(k) \in Bus
         /\ Imported(k) \in SUBSET {j \in DOMAIN plugins : plugins[j].imports}
         /\ Tail(loading) \in Seq(OpsOf(plugins))
         /\ \A j \in DOMAIN plugins : plugins[j].imports /\ j \notin Imported(k) =>
              \E i \in DOMAIN Tail(loading) : Tail(loading)[i] = Import(j)
         /\ \A j \in DOMAIN plugins : plugins[j].imports =>
              /\ \A cb \in ToSet(plugins[j].decorates) :
                   In(Decorating(k)[cb.hook], cb.fn) = IF j \in Imported(k) THEN 1 ELSE 0
              /\ \A cb \in ToSet(plugins[j].registers) :
                   In(Decorating(k)[cb.hook], cb.fn) = In(buses["own"][cb.hook], cb.fn)
<1> USE DEF IInv
<1>1. plugins \in PluginFolders /\ buses["own"] \in Bus /\ buses \in [{"first", "own"} -> Bus]
      /\ loading \in Seq(OpsOf(plugins))
      /\ imported \in SUBSET {j \in DOMAIN plugins : plugins[j].imports}
  BY DEF TypeInv
<1>2. Decorated(k) = [buses EXCEPT !["own"] = Decorating(k)]
  BY <1>1 DEF Decorated, Decorating
<1>3. Decorating(k) \in Bus
  BY <1>1, DecoratesAdd DEF Decorating
<1>4. Imported(k) \in SUBSET {j \in DOMAIN plugins : plugins[j].imports}
  BY <1>1 DEF Imported
<1>5. Tail(loading) \in Seq(OpsOf(plugins))
  BY <1>1, TailCounts
<1>6. ASSUME NEW j \in DOMAIN plugins, plugins[j].imports, j \notin Imported(k)
      PROVE  \E i \in DOMAIN Tail(loading) : Tail(loading)[i] = Import(j)
  <2>1. j # k /\ j \notin imported
    BY <1>6 DEF Imported
  <2>2. \E i \in DOMAIN loading : loading[i] = Import(j)
    BY <1>6, <2>1 DEF ImportsAhead
  <2>3. Head(loading) # Import(j)
    <3>1. Import(k) # Import(j) /\ Register(k) # Import(j)
      BY <2>1 DEF Import, Register
    <3> QED
      BY <3>1
  <2> QED
    BY <1>1, <2>2, <2>3, TailHas
<1>7. ASSUME NEW j \in DOMAIN plugins, plugins[j].imports, NEW cb \in ToSet(plugins[j].decorates)
      PROVE  In(Decorating(k)[cb.hook], cb.fn) = IF j \in Imported(k) THEN 1 ELSE 0
  <2>1. In(buses["own"][cb.hook], cb.fn) = IF j \in imported THEN 1 ELSE 0
    BY <1>7 DEF Decorations
  <2>2. j \in Imported(k) <=> j \in imported \/ j = k
    BY <1>7 DEF Imported
  <2>3. CASE k \in imported
    BY <2>1, <2>2, <2>3 DEF Decorating
  <2>4. CASE k \notin imported
    <3>1. In(AddAll(buses["own"], plugins[k].decorates)[cb.hook], cb.fn)
            = In(buses["own"][cb.hook], cb.fn) + (IF j = k THEN 1 ELSE 0)
      BY <1>1, DecoratesAdd DEF Counts
    <3> QED
      BY <2>1, <2>2, <2>4, <3>1 DEF Decorating
  <2> QED
    BY <2>3, <2>4
<1>8. ASSUME NEW j \in DOMAIN plugins, NEW cb \in ToSet(plugins[j].registers)
      PROVE  In(Decorating(k)[cb.hook], cb.fn) = In(buses["own"][cb.hook], cb.fn)
  <2>1. In(AddAll(buses["own"], plugins[k].decorates)[cb.hook], cb.fn)
          = In(buses["own"][cb.hook], cb.fn)
    BY <1>1, DecoratesAdd DEF Counts
  <2> QED
    BY <2>1 DEF Decorating
<1> QED
  BY <1>2, <1>3, <1>4, <1>5, <1>6, <1>7, <1>8

(* At an import or a call of register the runner's bus is global already.  *)
LEMMA LoadingOnOwn ==
  ASSUME IInv, loading # <<>>, Head(loading).op \in {"import", "register"}
  PROVE  /\ hooks = "own"
         /\ Head(loading).module \in DOMAIN plugins
         /\ Head(loading).op = "import" => Head(loading) = Import(Head(loading).module)
         /\ Head(loading).op = "register" => Head(loading) = Register(Head(loading).module)
<1>1. hooks = "own"
  <2>1. SetGlobal.op = "set_global"
    BY DEF SetGlobal
  <2> QED
    BY <2>1 DEF IInv, TypeInv, ImportsAhead
<1>2. Head(loading) \in OpsOf(plugins)
  BY DEF IInv, TypeInv
<1> QED
  BY <1>1, <1>2 DEF OpsOf, SetGlobal, Import, Register

(* The import of a module.                                                 *)
LEMMA ImportModuleKeeps ==
  IInv /\ ImportModule => TypeInv' /\ ImportsAhead' /\ Decorations' /\ Registrations'
<1> SUFFICES ASSUME IInv, ImportModule
             PROVE  TypeInv' /\ ImportsAhead' /\ Decorations' /\ Registrations'
  OBVIOUS
<1> DEFINE k == Head(loading).module
<1>1. /\ loading # <<>> /\ Head(loading).op = "import" /\ loading' = Tail(loading)
      /\ buses' = Decorated(k) /\ imported' = Imported(k)
      /\ UNCHANGED <<launcher, plugins, hooks, stage, calls, ran, runs>>
  BY DEF ImportModule, Loading, InRunUnchanged
<1>2. hooks = "own" /\ k \in DOMAIN plugins /\ Head(loading) = Import(k)
  BY <1>1, LoadingOnOwn
<1> HIDE DEF k
<1>3. /\ Decorated(k) = [buses EXCEPT !["own"] = Decorating(k)]
      /\ Decorating(k) \in Bus
      /\ Imported(k) \in SUBSET {j \in DOMAIN plugins : plugins[j].imports}
      /\ Tail(loading) \in Seq(OpsOf(plugins))
  BY <1>1, <1>2, ImportKeeps
<1>4. \A j \in DOMAIN plugins : plugins[j].imports /\ j \notin Imported(k) =>
        \E i \in DOMAIN Tail(loading) : Tail(loading)[i] = Import(j)
  BY <1>1, <1>2, ImportKeeps
<1>5. \A j \in DOMAIN plugins : plugins[j].imports =>
        /\ \A cb \in ToSet(plugins[j].decorates) :
             In(Decorating(k)[cb.hook], cb.fn) = IF j \in Imported(k) THEN 1 ELSE 0
        /\ \A cb \in ToSet(plugins[j].registers) :
             In(Decorating(k)[cb.hook], cb.fn) = In(buses["own"][cb.hook], cb.fn)
  BY <1>1, <1>2, ImportKeeps
<1>6. buses \in [{"first", "own"} -> Bus] /\ plugins \in PluginFolders
  BY DEF IInv, TypeInv
<1>7. buses' \in [{"first", "own"} -> Bus] /\ buses'["own"] = Decorating(k)
      /\ buses'["first"] = buses["first"]
  BY <1>1, <1>3, <1>6
<1>8. TypeInv'
  BY <1>1, <1>3, <1>7 DEF IInv, TypeInv
<1>9. ImportsAhead'
  BY <1>1, <1>2, <1>4, <1>7 DEF IInv, ImportsAhead
<1>10. Decorations'
  BY <1>1, <1>5, <1>7 DEF Decorations
<1>11. Registrations'
  <2> SUFFICES ASSUME NEW j \in DOMAIN plugins, plugins[j].imports,
                      NEW cb \in ToSet(plugins[j].registers)
               PROVE  In(buses'["own"][cb.hook], cb.fn) + Occ(loading', Register(j))
                        <= IF launcher = "main" THEN 2 ELSE 1
    BY <1>1 DEF Registrations
  <2>1. In(buses'["own"][cb.hook], cb.fn) = In(buses["own"][cb.hook], cb.fn)
    BY <1>5, <1>7
  <2>2. In(buses["own"][cb.hook], cb.fn) \in Nat
    BY <1>6, DecoratesAdd DEF Counts
  <2>3. Occ(loading, Register(j)) \in Nat /\ Occ(loading', Register(j)) \in Nat
        /\ Occ(loading', Register(j)) <= Occ(loading, Register(j))
    BY <1>1, TailCounts DEF IInv, TypeInv
  <2>4. In(buses["own"][cb.hook], cb.fn) + Occ(loading, Register(j))
          <= IF launcher = "main" THEN 2 ELSE 1
    BY DEF IInv, Registrations
  <2> QED
    BY <2>1, <2>2, <2>3, <2>4
<1> QED
  BY <1>8, <1>9, <1>10, <1>11

(* The call of a module's register, which may import it first.             *)
LEMMA CallRegisterKeeps ==
  IInv /\ CallRegister => TypeInv' /\ ImportsAhead' /\ Decorations' /\ Registrations'
<1> SUFFICES ASSUME IInv, CallRegister
             PROVE  TypeInv' /\ ImportsAhead' /\ Decorations' /\ Registrations'
  OBVIOUS
<1> DEFINE k == Head(loading).module
           own == IF k \in imported' THEN AddAll(Decorating(k), plugins[k].registers)
                  ELSE Decorating(k)
<1>1. /\ loading # <<>> /\ Head(loading).op = "register" /\ loading' = Tail(loading)
      /\ buses' = IF k \in imported' THEN [Decorated(k) EXCEPT !["own"] =
                                             AddAll(@, plugins[k].registers)]
                  ELSE Decorated(k)
      /\ imported' = Imported(k)
      /\ UNCHANGED <<launcher, plugins, hooks, stage, calls, ran, runs>>
  BY DEF CallRegister, Loading, InRunUnchanged
<1>2. hooks = "own" /\ k \in DOMAIN plugins /\ Head(loading) = Register(k)
  BY <1>1, LoadingOnOwn
<1> HIDE DEF k
<1>3. /\ Decorated(k) = [buses EXCEPT !["own"] = Decorating(k)]
      /\ Decorating(k) \in Bus
      /\ Imported(k) \in SUBSET {j \in DOMAIN plugins : plugins[j].imports}
      /\ Tail(loading) \in Seq(OpsOf(plugins))
  BY <1>1, <1>2, ImportKeeps
<1>4. \A j \in DOMAIN plugins : plugins[j].imports /\ j \notin Imported(k) =>
        \E i \in DOMAIN Tail(loading) : Tail(loading)[i] = Import(j)
  BY <1>1, <1>2, ImportKeeps
<1>5. \A j \in DOMAIN plugins : plugins[j].imports =>
        /\ \A cb \in ToSet(plugins[j].decorates) :
             In(Decorating(k)[cb.hook], cb.fn) = IF j \in Imported(k) THEN 1 ELSE 0
        /\ \A cb \in ToSet(plugins[j].registers) :
             In(Decorating(k)[cb.hook], cb.fn) = In(buses["own"][cb.hook], cb.fn)
  BY <1>1, <1>2, ImportKeeps
<1>6. buses \in [{"first", "own"} -> Bus] /\ plugins \in PluginFolders
  BY DEF IInv, TypeInv
<1>7. buses' = [buses EXCEPT !["own"] = own]
  BY <1>1, <1>3, <1>6
<1>8. own \in Bus
  BY <1>2, <1>3, <1>6, RegisterAdds
<1>9. /\ \A j \in DOMAIN plugins : \A cb \in ToSet(plugins[j].decorates) :
           In(own[cb.hook], cb.fn) = In(Decorating(k)[cb.hook], cb.fn)
      /\ \A j \in DOMAIN plugins : \A cb \in ToSet(plugins[j].registers) :
           In(own[cb.hook], cb.fn) <= In(Decorating(k)[cb.hook], cb.fn) + (IF j = k THEN 1 ELSE 0)
  <2>1. CASE k \in imported'
    <3>1. PICK bus \in Bus : bus = Decorating(k)
      BY <1>3
    <3>2. PICK l \in DOMAIN plugins : l = k
      BY <1>2
    <3>3. own = AddAll(bus, plugins[l].registers)
      BY <2>1, <3>1, <3>2
    <3>4. plugins \in PluginFolders
      BY <1>6
    <3> HIDE DEF own
    <3>5. ASSUME NEW j \in DOMAIN plugins, NEW cb \in ToSet(plugins[j].decorates)
          PROVE  In(own[cb.hook], cb.fn) = In(bus[cb.hook], cb.fn)
      BY <3>1, <3>2, <3>3, <3>4, RegisterAdds DEF Counts
    <3>6. ASSUME NEW j \in DOMAIN plugins, NEW cb \in ToSet(plugins[j].registers)
          PROVE  In(own[cb.hook], cb.fn) <= In(bus[cb.hook], cb.fn) + (IF j = k THEN 1 ELSE 0)
      <4>1. In(own[cb.hook], cb.fn) = In(bus[cb.hook], cb.fn) + (IF j = l THEN 1 ELSE 0)
        BY <3>1, <3>2, <3>3, <3>4, RegisterAdds DEF Counts
      <4>2. In(bus[cb.hook], cb.fn) \in Nat
        BY <3>1, <3>4, DecoratesAdd DEF Counts
      <4> QED
        BY <3>2, <4>1, <4>2
    <3> QED
      BY <3>1, <3>5, <3>6
  <2>2. CASE k \notin imported'
    <3>1. own = Decorating(k)
      BY <2>2
    <3>2. \A j \in DOMAIN plugins : \A cb \in ToSet(plugins[j].registers) :
            In(own[cb.hook], cb.fn) = In(Decorating(k)[cb.hook], cb.fn)
            /\ In(Decorating(k)[cb.hook], cb.fn) \in Nat
      BY <1>3, <1>6, <3>1, DecoratesAdd DEF Counts
    <3> HIDE DEF own
    <3> QED
      BY <3>1, <3>2
  <2> QED
    BY <2>1, <2>2
<1> HIDE DEF own
<1>10. buses' \in [{"first", "own"} -> Bus] /\ buses'["own"] = own
       /\ buses'["first"] = buses["first"]
  BY <1>6, <1>7, <1>8
<1>11. TypeInv'
  BY <1>1, <1>3, <1>10 DEF IInv, TypeInv
<1>12. ImportsAhead'
  BY <1>1, <1>2, <1>4, <1>10 DEF IInv, ImportsAhead
<1>13. Decorations'
  BY <1>1, <1>5, <1>9, <1>10 DEF Decorations
<1>14. Registrations'
  <2> SUFFICES ASSUME NEW j \in DOMAIN plugins, plugins[j].imports,
                      NEW cb \in ToSet(plugins[j].registers)
               PROVE  In(buses'["own"][cb.hook], cb.fn) + Occ(loading', Register(j))
                        <= IF launcher = "main" THEN 2 ELSE 1
    BY <1>1 DEF Registrations
  <2> DEFINE before == In(buses["own"][cb.hook], cb.fn)
             after == In(buses'["own"][cb.hook], cb.fn)
             one == IF j = k THEN 1 ELSE 0
  <2>1. after <= before + one
    BY <1>5, <1>9, <1>10
  <2>2. before \in Nat
    BY <1>6, DecoratesAdd DEF Counts
  <2>3. after \in Nat
    BY <1>6, <1>8, <1>10, DecoratesAdd DEF Counts
  <2>4. Occ(loading, Register(j)) \in Nat /\ Occ(loading', Register(j)) \in Nat
        /\ Occ(loading, Register(j)) = Occ(loading', Register(j))
              + (IF Head(loading) = Register(j) THEN 1 ELSE 0)
    BY <1>1, TailCounts DEF IInv, TypeInv
  <2>5. j = k => Head(loading) = Register(j)
    BY <1>2
  <2>6. before + Occ(loading, Register(j)) <= IF launcher = "main" THEN 2 ELSE 1
    BY DEF IInv, Registrations
  <2> HIDE DEF before, after
  <2>7. after + Occ(loading', Register(j)) <= IF launcher = "main" THEN 2 ELSE 1
    BY <2>1, <2>2, <2>3, <2>4, <2>5, <2>6
  <2> QED
    BY <2>7 DEF after
<1> QED
  BY <1>11, <1>12, <1>13, <1>14
-----------------------------------------------------------------------------
(* The steps of a run keep the invariant.                                  *)

(* A run changes nothing of the loader.                                    *)
LEMMA RunFrame ==
  ASSUME IInv, LoaderUnchanged, stage' \in 0 .. Len(Stages), runs' \in Nat,
         calls' \in Seq(Entry), ran' \in Seq(Things)
  PROVE  TypeInv' /\ ImportsAhead' /\ Decorations' /\ Registrations'
<1>1. TypeInv'
  BY DEF IInv, TypeInv, LoaderUnchanged
<1>2. ImportsAhead'
  BY DEF IInv, ImportsAhead, LoaderUnchanged
<1>3. Decorations'
  BY DEF IInv, Decorations, LoaderUnchanged
<1>4. Registrations'
  BY DEF IInv, Registrations, LoaderUnchanged
<1> QED
  BY <1>1, <1>2, <1>3, <1>4

(* The callback that is called moves from what is to call to what was done.*)
LEMMA CallMoves ==
  ASSUME NEW r \in Seq(Things), NEW s \in Seq(Entry), s # <<>>
  PROVE  /\ Append(r, Head(s).fn) \in Seq(Things) /\ Tail(s) \in Seq(Entry)
         /\ Append(r, Head(s).fn) \o Names(Tail(s)) = r \o Names(s)
<1> DEFINE a == Append(r, Head(s).fn)
           u == Names(s)
           v == Names(Tail(s))
           left == a \o v
           right == r \o u
<1>1. Head(s) \in Entry /\ Tail(s) \in Seq(Entry) /\ Len(Tail(s)) = Len(s) - 1 /\ Len(s) \in Nat
      /\ Len(s) > 0 /\ Head(s) = s[1] /\ \A i \in 1 .. Len(s) - 1 : Tail(s)[i] = s[i + 1]
  OBVIOUS
<1>2. \A i \in 1 .. Len(s) : s[i].fn \in Things
  <2>1. \A i \in 1 .. Len(s) : s[i] \in Entry
    OBVIOUS
  <2> QED
    BY <2>1 DEF Entry, Things
<1>3. Head(s).fn = s[1].fn /\ Head(s).fn \in Things
  BY <1>1, <1>2
<1>4. a \in Seq(Things) /\ Len(a) = Len(r) + 1 /\ Len(r) \in Nat
      /\ (\A i \in 1 .. Len(r) : a[i] = r[i]) /\ a[Len(r) + 1] = s[1].fn
  BY <1>3
<1>5. u \in Seq(Things) /\ Len(u) = Len(s) /\ \A i \in 1 .. Len(s) : u[i] = s[i].fn
  <2>1. u = [i \in 1 .. Len(s) |-> s[i].fn]
    BY DEF Names
  <2> HIDE DEF u
  <2> QED
    BY <1>1, <1>2, <2>1
<1>6. v \in Seq(Things) /\ Len(v) = Len(s) - 1 /\ \A i \in 1 .. Len(s) - 1 : v[i] = s[i + 1].fn
  <2>1. v = [i \in 1 .. Len(s) - 1 |-> Tail(s)[i].fn]
    BY <1>1 DEF Names
  <2>2. \A i \in 1 .. Len(s) - 1 : Tail(s)[i].fn = s[i + 1].fn /\ s[i + 1].fn \in Things
    BY <1>1, <1>2
  <2> HIDE DEF v
  <2> QED
    BY <1>1, <2>1, <2>2
<1> HIDE DEF a, u, v
<1>7. left \in Seq(Things) /\ IsJoin(left, a, v) /\ right \in Seq(Things) /\ IsJoin(right, r, u)
  BY <1>4, <1>5, <1>6, Joined
<1> HIDE DEF left, right
<1> DEFINE n == Len(r)
           m == Len(s)
<1>8. n \in Nat /\ m \in Nat /\ m > 0
  BY <1>1
<1>9. Len(left) = n + m /\ Len(right) = n + m
  BY <1>1, <1>4, <1>5, <1>6, <1>7 DEF IsJoin
<1>10. /\ \A i \in 1 .. n + 1 : left[i] = a[i]
       /\ \A i \in 1 .. m - 1 : left[n + 1 + i] = v[i]
       /\ \A i \in 1 .. n : right[i] = r[i]
       /\ \A i \in 1 .. m : right[n + i] = u[i]
  BY <1>4, <1>5, <1>6, <1>7 DEF IsJoin
<1>11. (\A i \in 1 .. n : a[i] = r[i]) /\ a[n + 1] = s[1].fn
       /\ (\A i \in 1 .. m : u[i] = s[i].fn) /\ (\A i \in 1 .. m - 1 : v[i] = s[i + 1].fn)
  BY <1>4, <1>5, <1>6
<1> HIDE DEF n, m
<1>12. ASSUME NEW i \in 1 .. n + m PROVE left[i] = right[i]
  <2>1. CASE i \in 1 .. n
    <3>1. i \in 1 .. n + 1
      BY <1>8, <2>1
    <3> QED
      BY <1>10, <1>11, <2>1, <3>1
  <2>2. CASE i = n + 1
    <3>1. i \in 1 .. n + 1 /\ 1 \in 1 .. m
      BY <1>8, <2>2
    <3>2. right[n + 1] = u[1] /\ u[1] = s[1].fn
      BY <1>10, <1>11, <3>1
    <3> QED
      BY <1>10, <1>11, <2>2, <3>1, <3>2
  <2>3. CASE i > n + 1
    <3>1. i - n - 1 \in 1 .. m - 1 /\ n + 1 + (i - n - 1) = i
      BY <1>8, <2>3
    <3>2. PICK j \in 1 .. m - 1 : n + 1 + j = i
      BY <3>1
    <3>3. j + 1 \in 1 .. m /\ n + (j + 1) = i
      BY <1>8, <3>2
    <3>4. left[i] = v[j] /\ v[j] = s[j + 1].fn
      BY <1>10, <1>11, <3>2
    <3>5. right[i] = u[j + 1] /\ u[j + 1] = s[j + 1].fn
      BY <1>10, <1>11, <3>3
    <3> QED
      BY <3>4, <3>5
  <2> QED
    BY <1>8, <2>1, <2>2, <2>3
<1>13. left = right
  <2>1. left = [i \in 1 .. n + m |-> left[i]] /\ right = [i \in 1 .. n + m |-> right[i]]
    BY <1>7, <1>9
  <2> QED
    BY <1>12, <2>1
<1> QED
  BY <1>1, <1>4, <1>13 DEF a, v, u, left, right

(* Once loading is over the provider of the demand stands on the runner's  *)
(* bus, before the planning.                                               *)
LEMMA ProviderOnBus ==
  ASSUME IInv, loading = <<>>
  PROVE  \E i \in DOMAIN buses["own"]["before_planning"] :
           buses["own"]["before_planning"][i].fn = DemandProvider
<1>1. plugins \in PluginFolders /\ buses["own"] \in Bus
  BY DEF IInv, TypeInv
<1>2. \E k \in DOMAIN plugins : plugins[k].imports /\ \E i \in DOMAIN plugins[k].decorates :
        /\ plugins[k].decorates[i].fn = DemandProvider
        /\ plugins[k].decorates[i].hook = "before_planning"
  BY <1>1, FoldersAssumption, Zenon DEF FoldersAssumption
<1>3. PICK k \in DOMAIN plugins : plugins[k].imports /\ \E i \in DOMAIN plugins[k].decorates :
        /\ plugins[k].decorates[i].fn = DemandProvider
        /\ plugins[k].decorates[i].hook = "before_planning"
  BY <1>2
<1>4. PICK cb \in ToSet(plugins[k].decorates) : cb.fn = DemandProvider /\ cb.hook = "before_planning"
  BY <1>3 DEF ToSet
<1>5. k \in imported
  <2>1. ~\E i \in DOMAIN loading : loading[i] = Import(k)
    OBVIOUS
  <2> QED
    BY <1>3, <2>1 DEF IInv, ImportsAhead
<1>6. In(buses["own"]["before_planning"], DemandProvider) = 1
  BY <1>3, <1>4, <1>5 DEF IInv, Decorations
<1> DEFINE A == {i \in DOMAIN buses["own"]["before_planning"] :
                   buses["own"]["before_planning"][i].fn = DemandProvider}
<1>7. A # {}
  <2>1. Cardinality(A) = 1
    BY <1>6 DEF In
  <2> HIDE DEF A
  <2>2. A = {} => Cardinality(A) = 0
    BY FS_EmptySet
  <2> QED
    BY <2>1, <2>2
<1> QED
  BY <1>7

(* When a stage is over and its work recorded, the next one starts, or the *)
(* run returns.                                                            *)
LEMMA AdvanceKeeps ==
  ASSUME IInv, LoaderUnchanged, stage # 0, Advance, UNCHANGED <<demand, failed, runs>>,
         ran' = DoneAfter(buses["own"])[stage], ran' \in Seq(Things),
         stage = 4 => demand \/ \E f \in failed : f.fn = DemandProvider
  PROVE  IInv'
<1> DEFINE own == buses["own"]
           n == Len(Stages)
<1>1. own \in Bus /\ n = 13 /\ stage \in 1 .. n /\ runs \in Nat
  BY StageFacts DEF IInv, TypeInv
<1>2. result = "running" /\ loading = <<>> /\ \A f \in failed : f.error # "AttributeError"
  BY DEF IInv, DoneSoFar
<1>3. loading' = <<>> /\ buses' = buses
  BY <1>2 DEF LoaderUnchanged
<1>4. ASSUME NEW k \in 1 .. n
      PROVE  /\ CallsOf(k) \in Seq(Entry)
             /\ DoneAfter(own)[k] = DoneAfter(own)[k - 1] \o Does(own, k)
             /\ Stages[k].does = "hook" => Does(own, k) = Names(CallsOf(k)) /\ CallsOf(k) = own[Stages[k].name]
             /\ Stages[k].does = "work" => CallsOf(k) = <<>>
  <2>1. DoneAfter(own)[k] = DoneAfter(own)[k - 1] \o Does(own, k)
    BY <1>1, <1>4, DoneAfterIs
  <2>2. Stages[k].does \in {"hook", "work"} /\ (Stages[k].does = "hook" => Stages[k].name \in Hooks)
    BY <1>1, <1>4, StageFacts
  <2>3. CASE Stages[k].does = "hook"
    <3>1. CallsOf(k) = own[Stages[k].name] /\ Does(own, k) = Names(CallsOf(k))
      BY <2>3 DEF CallsOf, Does
    <3>2. own[Stages[k].name] \in Seq(Entry)
      BY <1>1, <2>2, <2>3 DEF Bus
    <3> QED
      BY <2>1, <2>3, <3>1, <3>2
  <2>4. CASE Stages[k].does = "work"
    <3>1. CallsOf(k) = <<>>
      BY <2>4 DEF CallsOf
    <3> QED
      BY <2>1, <2>4, <3>1
  <2> QED
    BY <2>2, <2>3, <2>4
<1>5. CASE stage = n
  <2>1. stage' = 0 /\ calls' = <<>> /\ result' = "returned"
    BY <1>5 DEF Advance
  <2>2. TypeInv' /\ ImportsAhead' /\ Decorations' /\ Registrations'
    <3>1. stage' \in 0 .. n /\ calls' \in Seq(Entry) /\ runs' \in Nat
      BY <1>1, <2>1
    <3> QED
      BY <3>1, RunFrame
  <2>3. DoneSoFar'
    BY <1>2, <1>3, <1>5, <2>1 DEF DoneSoFar, AtHook, AtWork
  <2>4. DemandInTime'
    BY <2>1 DEF DemandInTime
  <2> QED
    BY <2>2, <2>3, <2>4 DEF IInv
<1>6. CASE stage # n
  <2> DEFINE k == stage + 1
  <2>1. stage' = k /\ calls' = CallsOf(k) /\ result' = "running"
    BY <1>2, <1>6 DEF Advance
  <2>2. k \in 1 .. n /\ k - 1 = stage /\ k # 0
    BY <1>1, <1>6
  <2>3. TypeInv' /\ ImportsAhead' /\ Decorations' /\ Registrations'
    <3>1. stage' \in 0 .. n /\ calls' \in Seq(Entry) /\ runs' \in Nat
      <4>1. CallsOf(k) \in Seq(Entry)
        BY <1>4, <2>2
      <4>2. k \in 0 .. n
        BY <1>1, <2>2
      <4>3. runs' \in Nat
        BY <1>1
      <4> QED
        BY <2>1, <4>1, <4>2, <4>3
    <3> QED
      BY <3>1, RunFrame
  <2>4. DoneSoFar'
    <3>1. CASE Stages[k].does = "hook"
      <4>1. AtHook' /\ ~AtWork'
        BY <2>1, <2>2, <3>1 DEF AtHook, AtWork
      <4>2. ran' \o Names(calls') = DoneAfter(own)[k]
        BY <1>4, <2>1, <2>2, <3>1
      <4>3. (ran \o Names(calls) = DoneAfter(buses["own"])[stage])'
        BY <1>3, <2>1, <4>2
      <4> QED
        BY <1>2, <1>3, <2>1, <2>2, <4>1, <4>3 DEF DoneSoFar
    <3>2. CASE Stages[k].does = "work"
      <4>1. AtWork' /\ ~AtHook'
        BY <2>1, <2>2, <3>2 DEF AtHook, AtWork
      <4>2. calls' = <<>> /\ ran' = DoneAfter(own)[k - 1]
        BY <1>4, <2>1, <2>2, <3>2
      <4>3. (calls = <<>> /\ ran = DoneAfter(buses["own"])[stage - 1])'
        BY <1>3, <2>1, <4>2
      <4> QED
        BY <1>2, <1>3, <2>1, <2>2, <4>1, <4>3 DEF DoneSoFar
    <3> QED
      BY <1>1, <2>2, <3>1, <3>2, StageFacts
  <2>5. DemandInTime'
    <3>1. CASE k < 4
      BY <1>1, <2>1, <3>1 DEF DemandInTime
    <3>2. CASE k = 4
      <4>1. calls' = own["before_planning"]
        <5>1. Stages[k].does = "hook" /\ Stages[k].name = "before_planning"
          BY <3>2, StageFacts DEF Hook
        <5>2. CallsOf(k) = own[Stages[k].name]
          BY <1>4, <2>2, <5>1
        <5> QED
          BY <2>1, <5>1, <5>2
      <4>2. \E i \in DOMAIN own["before_planning"] : own["before_planning"][i].fn = DemandProvider
        BY ProviderOnBus, <1>2
      <4> QED
        BY <2>1, <3>2, <4>1, <4>2 DEF DemandInTime
    <3>3. CASE k > 4
      <4>1. demand \/ \E f \in failed : f.fn = DemandProvider
        BY <1>1, <3>3 DEF IInv, DemandInTime
      <4> QED
        BY <4>1 DEF DemandInTime
    <3> QED
      BY <1>1, <3>1, <3>2, <3>3
  <2> QED
    BY <2>3, <2>4, <2>5 DEF IInv
<1> QED
  BY <1>5, <1>6
(* The start of a run.                                                     *)
LEMMA StartRunKeeps ==
  ASSUME IInv, StartRun PROVE IInv'
<1> DEFINE own == buses["own"]
<1>1. /\ loading = <<>> /\ stage' = 1 /\ runs' = runs + 1 /\ calls' = CallsOf(1) /\ ran' = <<>>
      /\ failed' = {} /\ result' = "running" /\ LoaderUnchanged
  BY DEF StartRun
<1>2. own \in Bus /\ runs \in Nat /\ Len(Stages) = 13
  BY StageFacts DEF IInv, TypeInv
<1>3. loading' = <<>> /\ buses' = buses
  BY <1>1 DEF LoaderUnchanged
<1>4. Stages[1].does = "hook" /\ Stages[1].name \in Hooks
  BY StageFacts DEF Stages, Hook
<1>5. CallsOf(1) = own[Stages[1].name] /\ CallsOf(1) \in Seq(Entry)
  BY <1>2, <1>4 DEF CallsOf, Bus
<1>6. TypeInv' /\ ImportsAhead' /\ Decorations' /\ Registrations'
  <2>1. stage' \in 0 .. Len(Stages) /\ runs' \in Nat /\ calls' \in Seq(Entry) /\ ran' \in Seq(Things)
    BY <1>1, <1>2, <1>5
  <2> QED
    BY <1>1, <2>1, RunFrame
<1>7. DoneSoFar'
  <2>1. AtHook' /\ ~AtWork'
    BY <1>1, <1>4 DEF AtHook, AtWork
  <2>2. Names(CallsOf(1)) \in Seq(Things)
    <3>1. \A i \in 1 .. Len(CallsOf(1)) : CallsOf(1)[i].fn \in Things
      <4>1. \A i \in 1 .. Len(CallsOf(1)) : CallsOf(1)[i] \in Entry
        BY <1>5
      <4> QED
        BY <4>1 DEF Entry, Things
    <3>2. Names(CallsOf(1)) = [i \in 1 .. Len(CallsOf(1)) |-> CallsOf(1)[i].fn] /\ Len(CallsOf(1)) \in Nat
      BY <1>5 DEF Names
    <3> QED
      BY <3>1, <3>2
  <2>3. DoneAfter(own)[1] = <<>> \o Names(CallsOf(1))
    <3>1. DoneAfter(own)[1] = DoneAfter(own)[1 - 1] \o Does(own, 1) /\ DoneAfter(own)[0] = <<>>
      <4>1. 1 \in 1 .. Len(Stages)
        BY <1>2
      <4> QED
        BY <1>2, <4>1, DoneAfterIs, Zenon
    <3>2. Does(own, 1) = Names(CallsOf(1))
      BY <1>4, <1>5 DEF Does
    <3>3. 1 - 1 = 0
      OBVIOUS
    <3> QED
      BY <3>1, <3>2, <3>3
  <2>4. (ran \o Names(calls) = DoneAfter(buses["own"])[stage])'
    BY <1>1, <1>3, <2>3
  <2> QED
    BY <1>1, <1>3, <2>1, <2>4 DEF DoneSoFar
<1>8. DemandInTime'
  BY <1>1 DEF DemandInTime
<1> QED
  BY <1>6, <1>7, <1>8 DEF IInv

(* A callback is called, and what is left to call is its turn's.           *)
LEMMA CalledKeeps ==
  ASSUME IInv, AtHook, calls # <<>>, Called, calls' = Tail(calls), LoaderUnchanged,
         UNCHANGED <<stage, result, runs>>,
         demand => demand', failed \subseteq failed',
         \A f \in failed' : f.error # "AttributeError",
         Head(calls).fn = DemandProvider =>
           demand' \/ \E f \in failed' : f.fn = DemandProvider
  PROVE  IInv'
<1>1. calls \in Seq(Entry) /\ ran \in Seq(Things) /\ stage \in 0 .. Len(Stages) /\ runs \in Nat
  BY DEF IInv, TypeInv
<1>2. /\ ran' \in Seq(Things) /\ calls' \in Seq(Entry)
      /\ ran' \o Names(calls') = ran \o Names(calls)
  BY <1>1, CallMoves DEF Called
<1>3. TypeInv' /\ ImportsAhead' /\ Decorations' /\ Registrations'
  <2>1. stage' \in 0 .. Len(Stages) /\ runs' \in Nat
    BY <1>1
  <2> QED
    BY <1>2, <2>1, RunFrame
<1>4. result = "running" /\ loading = <<>>
      /\ ran \o Names(calls) = DoneAfter(buses["own"])[stage]
  BY DEF IInv, DoneSoFar, AtHook
<1>5. DoneSoFar'
  <2>1. buses' = buses /\ loading' = loading
    BY DEF LoaderUnchanged
  <2>2. AtHook' /\ ~AtWork' /\ stage' # 0
    BY DEF AtHook, AtWork
  <2>3. (ran \o Names(calls) = DoneAfter(buses["own"])[stage])'
    BY <1>2, <1>4, <2>1
  <2> QED
    BY <1>4, <2>1, <2>2, <2>3 DEF DoneSoFar
<1>6. DemandInTime'
  <2> SUFFICES ASSUME stage >= 4, ~demand', ~\E f \in failed' : f.fn = DemandProvider
               PROVE  stage = 4 /\ \E i \in DOMAIN calls' : calls'[i].fn = DemandProvider
    BY DEF DemandInTime
  <2>1. stage = 4 /\ \E i \in DOMAIN calls : calls[i].fn = DemandProvider
    BY DEF IInv, DemandInTime
  <2>2. PICK i \in 1 .. Len(calls) : calls[i].fn = DemandProvider
    BY <1>1, <2>1
  <2>3. i # 1
    BY <1>1, <2>2
  <2>4. i - 1 \in 1 .. Len(calls) - 1 /\ (i - 1) + 1 = i /\ DOMAIN calls' = 1 .. Len(calls) - 1
    BY <1>1, <2>2, <2>3
  <2>5. calls'[i - 1] = calls[i]
    BY <1>1, <2>4
  <2> QED
    BY <2>1, <2>2, <2>4, <2>5
<1> QED
  BY <1>3, <1>5, <1>6 DEF IInv

(* A run that raises is over.                                              *)
LEMMA AbortKeeps ==
  ASSUME IInv, LoaderUnchanged, stage # 0, Abort, ran' \in Seq(Things), UNCHANGED runs
  PROVE  IInv'
<1>1. stage' = 0 /\ calls' = <<>> /\ result' = "raised"
  BY DEF Abort
<1>2. loading = <<>> /\ loading' = <<>>
  BY DEF IInv, DoneSoFar, LoaderUnchanged
<1>3. TypeInv' /\ ImportsAhead' /\ Decorations' /\ Registrations'
  <2>1. stage' \in 0 .. Len(Stages) /\ runs' \in Nat /\ calls' \in Seq(Entry)
    BY <1>1, StageFacts DEF IInv, TypeInv
  <2> QED
    BY <2>1, RunFrame
<1>4. DoneSoFar'
  BY <1>1, <1>2 DEF DoneSoFar, AtHook, AtWork
<1>5. DemandInTime'
  BY <1>1 DEF DemandInTime
<1> QED
  BY <1>3, <1>4, <1>5 DEF IInv

(* Every step keeps the invariant.                                         *)
LEMMA StepKeeps == IInv /\ [Next]_vars => IInv'
<1> SUFFICES ASSUME IInv, [Next]_vars PROVE IInv'
  OBVIOUS
<1>0. ran \in Seq(Things) /\ calls \in Seq(Entry) /\ stage \in 0 .. Len(Stages)
  BY DEF IInv, TypeInv
<1>1. CASE LoadingStep
  BY <1>1, LoadingKeepsRun, SetGlobalKeeps, ImportModuleKeeps, CallRegisterKeeps DEF LoadingStep, IInv
<1>2. CASE StartRun
  BY <1>2, StartRunKeeps
<1>3. CASE CallReturns
  <2>1. \A f \in failed : f.error # "AttributeError"
    BY <1>3 DEF CallReturns, AtHook, IInv, DoneSoFar
  <2> QED
    BY <1>3, <2>1, CalledKeeps DEF CallReturns
<1>4. ASSUME NEW error \in Errors, CallRaises(error) PROVE IInv'
  <2>1. \A f \in failed : f.error # "AttributeError"
    BY <1>4 DEF CallRaises, AtHook, IInv, DoneSoFar
  <2>2. CASE error = "AttributeError"
    <3>1. ran' \in Seq(Things)
      BY <1>0, <1>4, CallMoves DEF CallRaises, Called
    <3> QED
      BY <1>4, <2>2, <3>1, AbortKeeps DEF CallRaises, AfterError, AtHook
  <2>3. CASE error # "AttributeError"
    <3>1. failed' = failed \cup {[fn |-> Head(calls).fn, error |-> error]}
      BY <1>4 DEF CallRaises
    <3>2. \A f \in failed' : f.error # "AttributeError"
      BY <2>1, <2>3, <3>1
    <3>3. Head(calls).fn = DemandProvider => \E f \in failed' : f.fn = DemandProvider
      <4>1. PICK f \in failed' : f = [fn |-> Head(calls).fn, error |-> error]
        BY <3>1
      <4> QED
        BY <4>1
    <3>4. failed \subseteq failed'
      BY <3>1
    <3> QED
      BY <1>4, <2>3, <3>2, <3>3, <3>4, CalledKeeps DEF CallRaises, AfterError, GoesOn
  <2> QED
    BY <2>2, <2>3
<1>5. CASE EndHook
  <2>1. ran = DoneAfter(buses["own"])[stage]
    <3>1. ran \o Names(<<>>) = DoneAfter(buses["own"])[stage]
      BY <1>5 DEF EndHook, IInv, DoneSoFar
    <3>2. Names(<<>>) = <<>>
      BY DEF Names
    <3>3. ran \o <<>> = ran
      BY <1>0
    <3> QED
      BY <3>1, <3>2, <3>3
  <2>2. stage = 4 => demand \/ \E f \in failed : f.fn = DemandProvider
    BY <1>5 DEF EndHook, IInv, DemandInTime
  <2> QED
    BY <1>0, <1>5, <2>1, <2>2, AdvanceKeeps DEF EndHook, AtHook
<1>6. CASE WorkDone
  <2>1. Stages[stage].does = "work" /\ stage # 0 /\ ran = DoneAfter(buses["own"])[stage - 1]
        /\ ran' = Append(ran, Stages[stage].name)
    BY <1>6 DEF WorkDone, AtWork, IInv, DoneSoFar
  <2>2. stage \in 1 .. Len(Stages) /\ Stages[stage].name \in Things
    BY <1>0, <2>1, StageFacts
  <2>3. ran' = ran \o <<Stages[stage].name>> /\ ran' \in Seq(Things)
    BY <1>0, <2>1, <2>2
  <2>4. ran' = DoneAfter(buses["own"])[stage]
    <3>1. buses["own"] \in Bus
      BY DEF IInv, TypeInv
    <3>2. Does(buses["own"], stage) = <<Stages[stage].name>>
      BY <2>1 DEF Does
    <3>3. DoneAfter(buses["own"])[stage] = DoneAfter(buses["own"])[stage - 1] \o Does(buses["own"], stage)
      BY <2>2, <3>1, DoneAfterIs
    <3> QED
      BY <2>1, <2>3, <3>2, <3>3
  <2>5. stage # 4
    BY <2>1, StageFacts DEF Hook
  <2> QED
    BY <1>6, <2>1, <2>3, <2>4, <2>5, AdvanceKeeps DEF WorkDone
<1>7. CASE WorkRaises
  BY <1>0, <1>7, AbortKeeps DEF WorkRaises, AtWork
<1>8. CASE UNCHANGED vars
  BY <1>8 DEF vars, IInv, TypeInv, ImportsAhead, Decorations, Registrations, DoneSoFar, DemandInTime,
       AtHook, AtWork
<1> QED
  BY <1>1, <1>2, <1>3, <1>4, <1>5, <1>6, <1>7, <1>8 DEF Next, LoadingStep

(* Every state of every run of the program satisfies the invariant.        *)
THEOREM InvariantHolds == Spec => []IInv
<1>1. Init => IInv
  BY InitEstablishes
<1>2. IInv /\ [Next]_vars => IInv'
  BY StepKeeps
<1> QED
  BY <1>1, <1>2, PTL DEF Spec

-----------------------------------------------------------------------------
(* The properties.                                                         *)

(* Every decorated callback of a module that can be imported stands at     *)
(* most once on the two buses together, and once on the runner's when      *)
(* loading is over, however often main.py and the runner load the plugins; *)
(* a registered one at most as often as register is called.                *)
THEOREM EachRegisteredOnce == Spec => []RegisteredOnce
<1>1. IInv => RegisteredOnce
  <2> SUFFICES ASSUME IInv PROVE RegisteredOnce
    OBVIOUS
  <2>1. plugins \in PluginFolders /\ buses["first"] = NewBus /\ buses["own"] \in Bus
    BY DEF IInv, TypeInv, ImportsAhead
  <2>2. \A b, h, f : Count(b, h, f) = In(buses[b][h], f)
    BY DEF Count, In
  <2>3. \A h \in Hooks : \A f : In(NewBus[h], f) = 0
    <3>1. \A f : {i \in DOMAIN <<>> : <<>>[i].fn = f} = {}
      OBVIOUS
    <3>2. \A f : In(<<>>, f) = 0
      BY <3>1, FS_EmptySet DEF In
    <3> QED
      BY <3>2 DEF NewBus
  <2>4. ASSUME NEW k \in DOMAIN plugins, plugins[k].imports,
               NEW cb \in ToSet(plugins[k].decorates)
        PROVE  LET there == Count("first", cb.hook, cb.fn) + Count("own", cb.hook, cb.fn)
               IN  there <= 1 /\ (loading = <<>> => Count("own", cb.hook, cb.fn) = 1)
    <3>1. cb.hook \in Hooks
      BY <2>1, GivenOnce DEF Callbacks
    <3>2. Count("first", cb.hook, cb.fn) = 0
      BY <2>1, <2>2, <2>3, <3>1
    <3>3. Count("own", cb.hook, cb.fn) = IF k \in imported THEN 1 ELSE 0
      BY <2>2, <2>4 DEF IInv, Decorations
    <3>4. loading = <<>> => k \in imported
      BY <2>4 DEF IInv, ImportsAhead
    <3> QED
      BY <3>2, <3>3, <3>4
  <2>5. ASSUME NEW k \in DOMAIN plugins, plugins[k].imports,
               NEW cb \in ToSet(plugins[k].registers)
        PROVE  Count("own", cb.hook, cb.fn) <= IF launcher = "main" THEN 2 ELSE 1
    <3>1. In(buses["own"][cb.hook], cb.fn) \in Nat
      BY <2>1, DecoratesAdd DEF Counts
    <3>2. Occ(loading, Register(k)) \in Nat
      BY JoinCounts DEF IInv, TypeInv
    <3>3. In(buses["own"][cb.hook], cb.fn) + Occ(loading, Register(k))
            <= IF launcher = "main" THEN 2 ELSE 1
      BY <2>5 DEF IInv, Registrations
    <3> QED
      BY <2>2, <3>1, <3>2, <3>3
  <2> QED
    BY <2>4, <2>5 DEF RegisteredOnce
<1> QED
  BY <1>1, InvariantHolds, PTL

(* A planning command works on loaded demand unless the provider of the    *)
(* demand raised in this run.                                              *)
THEOREM NeverPlansOnNothing == Spec => []PlannedOnDemand
<1>1. IInv => PlannedOnDemand
  <2> SUFFICES ASSUME IInv, AtWork, Stages[stage].name # "build_tree"
               PROVE  demand \/ \E f \in failed : f.fn = DemandProvider
    BY DEF PlannedOnDemand
  <2>1. stage \in 1 .. 13 /\ Stages[stage].does = "work"
    BY StageFacts DEF AtWork, IInv, TypeInv
  <2>2. stage > 4
    BY <2>1, StageFacts
  <2> QED
    BY <2>1, <2>2 DEF IInv, DemandInTime
<1> QED
  BY <1>1, InvariantHolds, PTL

(* A run that returns has done all its work and called every callback, in  *)
(* the order of the bus, and none of them raised an AttributeError.        *)
THEOREM ReturnedRunIsWhole == Spec => []CompletedRunIsWhole
<1>1. IInv => CompletedRunIsWhole
  BY DEF IInv, DoneSoFar, CompletedRunIsWhole
<1> QED
  BY <1>1, InvariantHolds, PTL
=============================================================================
