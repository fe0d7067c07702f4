---------------------------- MODULE OperatorLemmas ---------------------------
(***************************************************************************)
(* Lemmas about the operators the models are built from: those of          *)
(* FlowEngine, for every log of flow events and every set of demands, and  *)
(* those of Lists and PsiNode, for every PSI space of every lots.          *)
(*                                                                         *)
(* FlowEngine: a dict is a function to the integers (Dicts); a ledger      *)
(* (Ledgers) holds what run_flow keeps between two steps.  The events of a *)
(* bucket may be applied in any order (EventsAddUp), so a derivation is    *)
(* one run over its buckets (IsRun, RunOfFlow), whatever total order sorts *)
(* the events; what holds of every derived state is shown along that run.  *)
(*                                                                         *)
(* PsiNode: what the operations of a node make of a PSI space, bucket by   *)
(* bucket, that the stock reckoned agrees with the movements and depends   *)
(* on nothing else, and how a walk passes a tree from the root down.       *)
(* Leveling is told by lists that cut a list into consecutive parts        *)
(* (Tiles), and what a node passes on by where its shipments are read.     *)
(***************************************************************************)
EXTENDS FlowEngine, PsiNode, FiniteSetTheorems, FunctionTheorems, NaturalsInduction,
        WellFoundedInduction, SequenceTheorems, Functions, TLAPS

-----------------------------------------------------------------------------
(* Lists: induction, the order of tuples, and InOrder.                     *)

(* Induction, with a set for the property.                                 *)
LEMMA NatInductionOnSets ==
  ASSUME NEW S, 0 \in S, \A n \in Nat : n \in S => n + 1 \in S
  PROVE  \A n \in Nat : n \in S
<1> SUFFICES ASSUME Nat \ S # {} PROVE FALSE
  OBVIOUS
<1> DEFINE Missing == Nat \ S
<1>1. PICK m \in Missing : \A y \in Missing : ~(<<y, m>> \in OpToRel(<, Nat))
  BY NatLessThanWellFounded, WFMin
<1>2. \A y \in Missing : ~ (<<y, m>> \in {ss \in Nat \X Nat : ss[1] < ss[2]})
  BY <1>1, Zenon DEF OpToRel
<1>3. m \in Nat /\ m # 0
  OBVIOUS
<1>4. m - 1 \in Nat /\ (m - 1) + 1 = m /\ m - 1 < m
  BY <1>3
<1>5. m - 1 \in Missing
  BY <1>3, <1>4
<1>6. ~ (<<m - 1, m>> \in {ss \in Nat \X Nat : ss[1] < ss[2]})
  BY <1>2, <1>5
<1> QED
  BY <1>3, <1>4, <1>6

(* A non-empty set of numbers has a least member.                          *)
LEMMA LeastMember ==
  ASSUME NEW S \in SUBSET Nat, S # {}
  PROVE  \E m \in S : \A y \in S : m <= y
<1> SUFFICES ASSUME \A m \in S : \E y \in S : y < m PROVE FALSE
  OBVIOUS
<1> DEFINE T == {n \in Nat : \A y \in S : n <= y}
<1>1. 0 \in T
  OBVIOUS
<1>2. ASSUME NEW n \in Nat, n \in T PROVE n + 1 \in T
  <2>1. \A y \in S : n <= y
    BY <1>2
  <2>2. n \notin S
    BY <2>1
  <2>3. \A y \in S : n + 1 <= y
    BY <2>1, <2>2
  <2> QED
    BY <2>3
<1>3. \A n \in Nat : n \in T
  <2> HIDE DEF T
  <2> QED
    BY <1>1, <1>2, NatInductionOnSets
<1>4. PICK x \in S : TRUE
  OBVIOUS
<1>5. x + 1 \in T
  BY <1>3
<1> QED
  BY <1>5

-----------------------------------------------------------------------------
(* With and the order of tuples.                                           *)

Tuples(m) == [1 .. m -> Int]

(* Lex is a strict total order of the integer tuples of one length.        *)
LEMMA LexIsOrder ==
  ASSUME NEW m \in Nat, NEW a \in Tuples(m), NEW b \in Tuples(m)
  PROVE  /\ ~Lex(a, a)
         /\ Lex(a, b) => ~Lex(b, a)
         /\ a # b => Lex(a, b) \/ Lex(b, a)
         /\ \A c \in Tuples(m) : Lex(a, b) /\ Lex(b, c) => Lex(a, c)
<1>0. \A x \in Tuples(m) : Len(x) = m /\ \A i \in 1 .. m : x[i] \in Int
  BY DEF Tuples
<1> DEFINE At(x, y, i) == x[i] < y[i] /\ \A j \in 1 .. i - 1 : x[j] = y[j]
<1>1. \A x, y \in Tuples(m) : Lex(x, y) <=> \E i \in 1 .. m : At(x, y, i)
  BY <1>0 DEF Lex
<1>2. ~Lex(a, a)
  BY <1>0, <1>1
<1>3. ASSUME Lex(a, b), Lex(b, a) PROVE FALSE
  <2>1. PICK i \in 1 .. m : At(a, b, i)
    BY <1>1, <1>3
  <2>2. PICK j \in 1 .. m : At(b, a, j)
    BY <1>1, <1>3
  <2>3. i < j \/ i = j \/ j < i
    OBVIOUS
  <2>4. a[i] \in Int /\ b[i] \in Int /\ a[j] \in Int /\ b[j] \in Int
    BY <1>0
  <2>5. i < j => i \in 1 .. j - 1
    OBVIOUS
  <2>6. j < i => j \in 1 .. i - 1
    OBVIOUS
  <2> QED
    BY <2>1, <2>2, <2>3, <2>4, <2>5, <2>6
<1>4. ASSUME a # b PROVE Lex(a, b) \/ Lex(b, a)
  <2> DEFINE D == {i \in 1 .. m : a[i] # b[i]}
  <2>1. D # {}
    BY <1>4 DEF Tuples
  <2>2. D \in SUBSET Nat
    OBVIOUS
  <2> HIDE DEF D
  <2>3. PICK i \in D : \A y \in D : i <= y
    BY <2>1, <2>2, LeastMember
  <2>4. i \in 1 .. m /\ a[i] # b[i] /\ \A j \in 1 .. i - 1 : a[j] = b[j]
    BY <2>3 DEF D
  <2>5. a[i] < b[i] \/ b[i] < a[i]
    BY <1>0, <2>4
  <2> QED
    BY <1>1, <2>4, <2>5
<1>5. ASSUME NEW c \in Tuples(m), Lex(a, b), Lex(b, c) PROVE Lex(a, c)
  <2>1. PICK i \in 1 .. m : At(a, b, i)
    BY <1>1, <1>5
  <2>2. PICK j \in 1 .. m : At(b, c, j)
    BY <1>1, <1>5
  <2>3. PICK k \in {i, j} : k <= i /\ k <= j
    OBVIOUS
  <2>4. At(a, c, k)
    <3>1. \A x \in 1 .. k - 1 : a[x] = c[x]
      BY <2>1, <2>2, <2>3
    <3>2. k = i \/ k \in 1 .. i - 1
      BY <2>3
    <3>3. k = j \/ k \in 1 .. j - 1
      BY <2>3
    <3>4. a[k] \in Int /\ b[k] \in Int /\ c[k] \in Int
      BY <1>0
    <3>5. a[k] < c[k]
      BY <2>1, <2>2, <3>2, <3>3, <3>4
    <3> QED
      BY <3>1, <3>5
  <2> QED
    BY <1>1, <2>4
<1> QED
  BY <1>2, <1>3, <1>4, <1>5

(* InOrder lists every member of a finite set once, by distinct keys.      *)
KeyOf(key, m) ==
  /\ key = [x \in DOMAIN key |-> key[x]]
  /\ IsFiniteSet(DOMAIN key)
  /\ \A x \in DOMAIN key : key[x] \in Tuples(m)
  /\ \A x, y \in DOMAIN key : key[x] = key[y] => x = y

IsListing(s, S) ==
  /\ Cardinality(S) \in Nat
  /\ s \in [1 .. Cardinality(S) -> S]
  /\ \A x \in S : \E i \in 1 .. Cardinality(S) : s[i] = x
  /\ \A i, j \in 1 .. Cardinality(S) : s[i] = s[j] => i = j

(* InOrder lists the domain of a key, the smallest key first.              *)
LEMMA InOrderLists ==
  ASSUME NEW key, NEW m \in Nat, KeyOf(key, m)
  PROVE  /\ IsListing(InOrder(key), DOMAIN key)
         /\ \A i, j \in 1 .. Cardinality(DOMAIN key) :
              i < j => Lex(key[InOrder(key)[i]], key[InOrder(key)[j]])
<1> DEFINE S == DOMAIN key
           n == Cardinality(S)
           Less(x, y) == Lex(key[x], key[y])
           Under(x) == {y \in S : Less(y, x)}
           rank == [x \in S |-> Cardinality(Under(x))]
           s == [i \in 1 .. n |-> CHOOSE x \in S : Cardinality(Under(x)) = i - 1]
<1>0. InOrder(key) = s
  BY Zenon DEF InOrder, With
<1>1. IsFiniteSet(S) /\ n \in Nat
  BY FS_CardinalityType DEF KeyOf
<1>2. /\ \A x \in S : ~Less(x, x)
      /\ \A x, y \in S : x # y => Less(x, y) \/ Less(y, x)
      /\ \A x, y, z \in S : Less(x, y) /\ Less(y, z) => Less(x, z)
  BY LexIsOrder DEF KeyOf
<1> HIDE DEF Less, n, S
<1>3. ASSUME NEW x \in S
      PROVE  IsFiniteSet(Under(x)) /\ rank[x] \in 0 .. n - 1
  <2>1. Under(x) \in SUBSET S /\ Under(x) # S
    BY <1>2
  <2>2. IsFiniteSet(Under(x)) /\ Cardinality(Under(x)) <= n /\ Cardinality(Under(x)) # n
    BY <1>1, <2>1, FS_Subset DEF n
  <2>3. Cardinality(Under(x)) \in Nat
    BY <2>2, FS_CardinalityType
  <2> QED
    BY <1>1, <2>2, <2>3
<1>4. ASSUME NEW x \in S, NEW y \in S, Less(x, y)
      PROVE  rank[x] < rank[y]
  <2>1. Under(x) \in SUBSET Under(y) /\ x \in Under(y) /\ x \notin Under(x)
    BY <1>2, <1>4
  <2>2. IsFiniteSet(Under(y)) /\ rank[x] \in 0 .. n - 1 /\ rank[y] \in 0 .. n - 1
    BY <1>3
  <2>3. rank[x] = Cardinality(Under(x)) /\ rank[y] = Cardinality(Under(y))
    OBVIOUS
  <2> HIDE DEF Under, rank
  <2>4. Cardinality(Under(x)) <= Cardinality(Under(y)) /\ Cardinality(Under(x)) # Cardinality(Under(y))
    BY <2>1, <2>2, FS_Subset
  <2>5. n \in Nat
    BY <1>1
  <2> QED
    BY <2>2, <2>3, <2>4, <2>5
<1>5. ASSUME NEW x \in S, NEW y \in S, rank[x] = rank[y]
      PROVE  x = y
  <2>1. rank[x] \in 0 .. n - 1 /\ rank[y] \in 0 .. n - 1 /\ n \in Nat
    BY <1>1, <1>3
  <2> HIDE DEF rank
  <2> QED
    BY <1>2, <1>4, <1>5, <2>1
<1>6. \A k \in 0 .. n - 1 : \E x \in S : rank[x] = k
  <2> DEFINE T == 0 .. n - 1
  <2>1. IsFiniteSet(T) /\ Cardinality(T) = n
    BY <1>1, FS_Interval
  <2>2. rank \in [S -> T]
    BY <1>3
  <2> HIDE DEF rank, T
  <2>3. rank \in Injection(S, T)
    BY <1>5, <2>2 DEF Injection, IsInjective
  <2>4. rank \in Surjection(S, T)
    BY <1>1, <2>1, <2>3, FS_Injection DEF n
  <2>5. \A k \in T : \E x \in S : rank[x] = k
    BY <2>4 DEF Surjection
  <2> QED
    BY <2>5 DEF T
<1>7. ASSUME NEW i \in 1 .. n PROVE s[i] \in S /\ rank[s[i]] = i - 1
  <2>1. i - 1 \in 0 .. n - 1
    BY <1>1
  <2>2. \E x \in S : Cardinality(Under(x)) = i - 1
    BY <1>6, <2>1
  <2> QED
    BY <2>2
<1> HIDE DEF rank, s
<1>8. s \in [1 .. n -> S]
  BY <1>7 DEF s
<1>9. ASSUME NEW x \in S PROVE \E i \in 1 .. n : s[i] = x
  <2>0. rank[x] \in 0 .. n - 1
    BY <1>3
  <2>1. rank[x] + 1 \in 1 .. n /\ (rank[x] + 1) - 1 = rank[x]
    BY <1>1, <2>0
  <2>2. s[rank[x] + 1] \in S /\ rank[s[rank[x] + 1]] = (rank[x] + 1) - 1
    BY <1>7, <2>1
  <2>3. s[rank[x] + 1] = x
    BY <1>5, <2>1, <2>2
  <2> QED
    BY <2>1, <2>3
<1>10. \A i, j \in 1 .. n : s[i] = s[j] => i = j
  BY <1>7
<1>11. ASSUME NEW i \in 1 .. n, NEW j \in 1 .. n, i < j
       PROVE  Less(s[i], s[j])
  <2>1. s[i] # s[j]
    BY <1>10, <1>11
  <2>2. ~Less(s[j], s[i])
    BY <1>4, <1>7, <1>11
  <2> QED
    BY <1>2, <1>7, <2>1, <2>2
<1> QED
  BY <1>0, <1>1, <1>8, <1>9, <1>10, <1>11 DEF IsListing, n, S, Less

-----------------------------------------------------------------------------
Steps(n, A) == [1 .. n -> [A -> A]]

(* A recursive function over 0 .. n takes its steps.                       *)
LEMMA RecursionOnInterval ==
  ASSUME NEW n \in Nat, NEW A, NEW b \in A,
         NEW step \in Steps(n, A)
  PROVE  \E g \in [0 .. n -> A] :
           g[0] = b /\ \A i \in 1 .. n : g[i] = step[i][g[i - 1]]
<1> DEFINE Good(m) == \E g \in [0 .. m -> A] :
                        \A i \in 0 .. m : g[i] = IF i = 0 THEN b ELSE step[i][g[i - 1]]
           S == {m \in Nat : m <= n => Good(m)}
<1>1. Good(0)
  <2> DEFINE g == [i \in 0 .. 0 |-> b]
  <2>1. g \in [0 .. 0 -> A] /\ \A i \in 0 .. 0 : g[i] = IF i = 0 THEN b ELSE step[i][g[i - 1]]
    OBVIOUS
  <2> QED
    BY <2>1
<1>2. ASSUME NEW m \in Nat, m + 1 <= n, Good(m) PROVE Good(m + 1)
  <2>1. PICK g \in [0 .. m -> A] :
               \A i \in 0 .. m : g[i] = IF i = 0 THEN b ELSE step[i][g[i - 1]]
    BY <1>2
  <2> DEFINE h == [i \in 0 .. m + 1 |-> IF i = m + 1 THEN step[m + 1][g[m]] ELSE g[i]]
  <2>2. step[m + 1][g[m]] \in A
    <3>1. m + 1 \in 1 .. n /\ g[m] \in A
      BY <1>2, <2>1
    <3> QED
      BY <3>1 DEF Steps
  <2>3. h \in [0 .. m + 1 -> A]
    BY <2>2
  <2>4. ASSUME NEW i \in 0 .. m + 1
        PROVE  h[i] = IF i = 0 THEN b ELSE step[i][h[i - 1]]
    <3>1. CASE i = m + 1
      BY <3>1
    <3>2. CASE i \in 0 .. m
      <4>1. h[i] = g[i] /\ i # m + 1
        BY <3>2
      <4>2. g[i] = IF i = 0 THEN b ELSE step[i][g[i - 1]]
        BY <2>1, <3>2
      <4>3. i # 0 => h[i - 1] = g[i - 1]
        BY <3>2
      <4> QED
        BY <4>1, <4>2, <4>3
    <3> QED
      BY <3>1, <3>2
  <2> HIDE DEF h
  <2> QED
    BY <2>3, <2>4
<1>3. \A m \in Nat : m \in S
  <2> HIDE DEF Good
  <2>1. 0 \in S
    BY <1>1
  <2>2. ASSUME NEW m \in Nat, m \in S PROVE m + 1 \in S
    BY <1>2, <2>2
  <2> HIDE DEF S
  <2> QED
    BY <2>1, <2>2, NatInductionOnSets
<1>4. PICK g \in [0 .. n -> A] :
             \A i \in 0 .. n : g[i] = IF i = 0 THEN b ELSE step[i][g[i - 1]]
  BY <1>3
<1> QED
  BY <1>4

-----------------------------------------------------------------------------
(* Sums over finite sets.                                                  *)

(* Cardinalities of the subsets of a finite set.                           *)
LEMMA SubsetOfFinite ==
  ASSUME NEW S, IsFiniteSet(S), NEW T \in SUBSET S
  PROVE  /\ IsFiniteSet(T) /\ Cardinality(T) \in Nat
         /\ Cardinality(T) <= Cardinality(S)
         /\ Cardinality(T) = 0 <=> T = {}
         /\ \A x \in T : T \ {x} \in SUBSET S /\ Cardinality(T \ {x}) = Cardinality(T) - 1
<1>1. IsFiniteSet(T) /\ Cardinality(T) <= Cardinality(S)
  BY FS_Subset
<1>2. Cardinality(T) \in Nat /\ (Cardinality(T) = 0 <=> T = {})
  BY <1>1, FS_CardinalityType, FS_EmptySet
<1>3. \A x \in T : Cardinality(T \ {x}) = Cardinality(T) - 1
  BY <1>1, FS_RemoveElement
<1> QED
  BY <1>1, <1>2, <1>3

(* Induction on the subsets of a finite set, with a set for the property.  *)
LEMMA FiniteSetInduction ==
  ASSUME NEW S, IsFiniteSet(S), NEW P,
         {} \in P,
         \A T \in SUBSET S : \A x \in S \ T : T \in P => T \cup {x} \in P
  PROVE  \A T \in SUBSET S : T \in P
<1> DEFINE Q == {n \in Nat : \A T \in SUBSET S : Cardinality(T) = n => T \in P}
<1>0. \A T \in SUBSET S :
        /\ Cardinality(T) \in Nat
        /\ Cardinality(T) = 0 <=> T = {}
        /\ \A x \in T : T \ {x} \in SUBSET S /\ Cardinality(T \ {x}) = Cardinality(T) - 1
  BY SubsetOfFinite
<1>1. 0 \in Q
  BY <1>0
<1>2. ASSUME NEW n \in Nat, n \in Q PROVE n + 1 \in Q
  <2>1. SUFFICES ASSUME NEW T \in SUBSET S, Cardinality(T) = n + 1 PROVE T \in P
    OBVIOUS
  <2>2. T # {}
    BY <1>0, <2>1
  <2>3. PICK x \in T : TRUE
    BY <2>2
  <2> DEFINE R == T \ {x}
  <2>4. R \in SUBSET S /\ x \in S \ R /\ T = R \cup {x}
    BY <2>3
  <2>5. Cardinality(R) = n
    BY <1>0, <2>1, <2>3
  <2>6. R \in P
    BY <1>2, <2>4, <2>5
  <2> HIDE DEF R
  <2> QED
    BY <2>4, <2>6
<1>3. \A n \in Nat : n \in Q
  <2> HIDE DEF Q
  <2> QED
    BY <1>1, <1>2, NatInductionOnSets
<1> QED
  BY <1>0, <1>3

(* A family of sums: one value for each subset, found by taking out the    *)
(* member CHOOSE picks.                                                    *)
Chosen(s) == CHOOSE x \in s : TRUE

SumsOn(G, f, S) ==
  G = [s \in SUBSET S |-> IF s = {} THEN 0 ELSE f[Chosen(s)] + G[s \ {Chosen(s)}]]

(* A function that sums up the subsets of a finite set exists.             *)
LEMMA SumsExist ==
  ASSUME NEW S, IsFiniteSet(S), NEW f, \A x \in S : f[x] \in Int
  PROVE  \E G \in [SUBSET S -> Int] : SumsOn(G, f, S)
<1> DEFINE n == Cardinality(S) + 1
           A == [SUBSET S -> Int]
           b == [s \in SUBSET S |-> 0]
           Step(g) == [s \in SUBSET S |->
                         IF s = {} THEN 0 ELSE f[Chosen(s)] + g[s \ {Chosen(s)}]]
           step == [i \in 1 .. n |-> [g \in A |-> Step(g)]]
<1>0. n \in Nat /\ Cardinality(S) \in Nat
  BY FS_CardinalityType
<1>1. \A s \in SUBSET S : s # {} => Chosen(s) \in s /\ f[Chosen(s)] \in Int
  BY DEF Chosen
<1>2. \A g \in A : Step(g) \in A
  BY <1>1
<1>3. step \in Steps(n, A)
  <2> HIDE DEF A, Step, n
  <2> QED
    BY <1>2 DEF Steps
<1>4. b \in A
  OBVIOUS
<1> HIDE DEF n, A, b, step, Step
<1>5. PICK h \in [0 .. n -> A] : h[0] = b /\ \A i \in 1 .. n : h[i] = step[i][h[i - 1]]
  <2>1. n \in Nat
    BY <1>0
  <2> QED
    BY <1>3, <1>4, <2>1, RecursionOnInterval
<1>6. \A i \in 1 .. n : h[i] = Step(h[i - 1]) /\ i - 1 \in 0 .. n
  <2> SUFFICES ASSUME NEW i \in 1 .. n PROVE h[i] = Step(h[i - 1]) /\ i - 1 \in 0 .. n
    OBVIOUS
  <2>1. h[i - 1] \in A /\ i - 1 \in 0 .. n
    BY <1>0, <1>5
  <2> QED
    BY <1>5, <2>1 DEF step
<1> USE DEF Step
<1> DEFINE Q == {m \in Nat : m + 1 <= n =>
                   \A s \in SUBSET S : Cardinality(s) <= m => h[m + 1][s] = h[m][s]}
<1>7. 0 \in Q
  <2> SUFFICES ASSUME 1 <= n, NEW s \in SUBSET S, Cardinality(s) <= 0
               PROVE  h[1][s] = h[0][s]
    OBVIOUS
  <2>1. s = {}
    BY SubsetOfFinite
  <2>2. 1 \in 1 .. n /\ 1 - 1 = 0
    BY <1>0
  <2>3. h[1] = Step(h[0]) /\ h[0] = b
    <3> HIDE DEF Step
    <3> QED
      BY <1>5, <1>6, <2>2
  <2> QED
    BY <2>1, <2>3 DEF b
<1>8. ASSUME NEW m \in Nat, m \in Q PROVE m + 1 \in Q
  <2> SUFFICES ASSUME m + 2 <= n, NEW s \in SUBSET S, Cardinality(s) <= m + 1
               PROVE  h[m + 2][s] = h[m + 1][s]
    BY <1>0
  <2>0. /\ m + 1 \in 1 .. n /\ (m + 1) - 1 = m
        /\ m + 2 \in 1 .. n /\ (m + 2) - 1 = m + 1
    BY <1>0
  <2>1. h[m + 2] = Step(h[m + 1]) /\ h[m + 1] = Step(h[m])
    <3> HIDE DEF Step
    <3> QED
      BY <1>6, <2>0
  <2>2. CASE s = {}
    BY <2>1, <2>2
  <2>3. CASE s # {}
    <3> DEFINE r == s \ {Chosen(s)}
    <3>1. Cardinality(s) \in Nat /\ \A x \in s : s \ {x} \in SUBSET S /\ Cardinality(s \ {x}) = Cardinality(s) - 1
      BY SubsetOfFinite
    <3>2. r \in SUBSET S /\ Cardinality(r) <= m
      BY <1>1, <2>3, <3>1
    <3>3. h[m + 1][r] = h[m][r]
      BY <1>0, <1>8, <3>2
    <3> QED
      BY <2>1, <2>3, <3>3
  <2> QED
    BY <2>2, <2>3
<1>9. \A m \in Nat : m \in Q
  <2> HIDE DEF Q
  <2> QED
    BY <1>7, <1>8, NatInductionOnSets
<1>10. h[n] = h[n - 1]
  <2>1. \A s \in SUBSET S : Cardinality(s) <= Cardinality(S)
    BY FS_Subset
  <2>2. n - 1 = Cardinality(S) /\ (n - 1) + 1 = n
    BY <1>0 DEF n
  <2>3. \A s \in SUBSET S : h[n][s] = h[n - 1][s]
    BY <1>0, <1>9, <2>1, <2>2
  <2>4. h[n] \in A /\ h[n - 1] \in A
    BY <1>0, <1>5, <2>2
  <2> QED
    BY <2>3, <2>4 DEF A
<1>11. n \in 1 .. n /\ h[n] \in A
  BY <1>0, <1>5 DEF n
<1>12. h[n] = Step(h[n])
  BY <1>6, <1>10, <1>11
<1> QED
  BY <1>11, <1>12 DEF SumsOn, A

(* Only one function does.                                                 *)
LEMMA SumsUnique ==
  ASSUME NEW S, IsFiniteSet(S), NEW f, NEW T \in SUBSET S,
         NEW G, SumsOn(G, f, S), NEW H, SumsOn(H, f, T)
  PROVE  H[T] = G[T]
<1> DEFINE Q == {n \in Nat : \A s \in SUBSET T : Cardinality(s) = n => H[s] = G[s]}
<1>0. \A s \in SUBSET S : IsFiniteSet(s) /\ Cardinality(s) \in Nat
  BY FS_Subset, FS_CardinalityType
<1>1. /\ \A s \in SUBSET T : H[s] = IF s = {} THEN 0 ELSE f[Chosen(s)] + H[s \ {Chosen(s)}]
      /\ \A s \in SUBSET S : G[s] = IF s = {} THEN 0 ELSE f[Chosen(s)] + G[s \ {Chosen(s)}]
  BY DEF SumsOn
<1>2. 0 \in Q
  <2> SUFFICES ASSUME NEW s \in SUBSET T, Cardinality(s) = 0 PROVE H[s] = G[s]
    OBVIOUS
  <2>1. s = {} /\ s \in SUBSET S
    BY <1>0, FS_EmptySet
  <2> QED
    BY <1>1, <2>1
<1>3. ASSUME NEW n \in Nat, n \in Q PROVE n + 1 \in Q
  <2> SUFFICES ASSUME NEW s \in SUBSET T, Cardinality(s) = n + 1 PROVE H[s] = G[s]
    OBVIOUS
  <2>1. s \in SUBSET S /\ IsFiniteSet(s) /\ s # {}
    BY <1>0, FS_EmptySet
  <2>2. Chosen(s) \in s
    BY <2>1 DEF Chosen
  <2>3. Cardinality(s \ {Chosen(s)}) = n /\ s \ {Chosen(s)} \in SUBSET T
    BY <2>1, <2>2, SubsetOfFinite
  <2>4. H[s \ {Chosen(s)}] = G[s \ {Chosen(s)}]
    BY <1>3, <2>3
  <2> QED
    BY <1>1, <2>1, <2>4
<1>4. \A n \in Nat : n \in Q
  <2> HIDE DEF Q
  <2> QED
    BY <1>2, <1>3, NatInductionOnSets
<1> QED
  BY <1>0, <1>4

(* SumFunctionOnSet is the value of that function.                         *)
LEMMA SumIsChosen ==
  ASSUME NEW S, IsFiniteSet(S), NEW f, \A x \in S : f[x] \in Int,
         NEW G, SumsOn(G, f, S)
  PROVE  \A T \in SUBSET S : SumFunctionOnSet(f, T) = G[T]
<1> SUFFICES ASSUME NEW T \in SUBSET S PROVE SumFunctionOnSet(f, T) = G[T]
  OBVIOUS
<1> DEFINE iter[s \in SUBSET T] ==
             IF s = {} THEN 0 ELSE f[Chosen(s)] + iter[s \ {Chosen(s)}]
<1>1. SumFunctionOnSet(f, T) = iter[T]
  BY Zenon DEF SumFunctionOnSet, FoldFunctionOnSet, MapThenFoldSet, Chosen
<1>2. \E H : SumsOn(H, f, T)
  BY SumsExist, FS_Subset
<1>3. SumsOn(iter, f, T)
  BY <1>2 DEF SumsOn
<1> HIDE DEF iter
<1> QED
  BY <1>1, <1>3, SumsUnique

(* A set without one of its members.                                       *)
LEMMA OneLess ==
  ASSUME NEW s, IsFiniteSet(s), NEW n \in Nat, Cardinality(s) = n + 1, NEW x \in s
  PROVE  Cardinality(s \ {x}) = n
BY FS_RemoveElement

(* SumFunctionOnSet adds up: any member can be taken out first.            *)
LEMMA SumTakesOut ==
  ASSUME NEW S, IsFiniteSet(S), NEW f, \A x \in S : f[x] \in Int
  PROVE  /\ SumFunctionOnSet(f, {}) = 0
         /\ \A T \in SUBSET S :
              /\ SumFunctionOnSet(f, T) \in Int
              /\ \A x \in T : SumFunctionOnSet(f, T) = f[x] + SumFunctionOnSet(f, T \ {x})
<1>1. PICK G \in [SUBSET S -> Int] : SumsOn(G, f, S)
  BY SumsExist
<1>2. \A T \in SUBSET S : SumFunctionOnSet(f, T) = G[T]
  BY <1>1, SumIsChosen
<1>3. \A s \in SUBSET S : G[s] = IF s = {} THEN 0 ELSE f[Chosen(s)] + G[s \ {Chosen(s)}]
  BY <1>1 DEF SumsOn
<1> DEFINE Q == {n \in Nat : \A s \in SUBSET S : Cardinality(s) = n =>
                               \A x \in s : G[s] = f[x] + G[s \ {x}]}
<1>4. \A s \in SUBSET S : IsFiniteSet(s) /\ Cardinality(s) \in Nat
  BY FS_Subset, FS_CardinalityType
<1>5. 0 \in Q
  BY <1>4, FS_EmptySet
<1>6. ASSUME NEW n \in Nat, n \in Q PROVE n + 1 \in Q
  <2> SUFFICES ASSUME NEW s \in SUBSET S, Cardinality(s) = n + 1, NEW x \in s
               PROVE  G[s] = f[x] + G[s \ {x}]
    OBVIOUS
  <2> DEFINE c == Chosen(s)
  <2>1. c \in s
    BY DEF Chosen
  <2>2. G[s] = f[c] + G[s \ {c}]
    BY <1>3
  <2>3. CASE x = c
    BY <2>2, <2>3
  <2>4. CASE x # c
    <3> HIDE DEF c
    <3> DEFINE r == (s \ {c}) \ {x}
    <3>1. /\ s \ {c} \in SUBSET S /\ Cardinality(s \ {c}) = n /\ x \in s \ {c}
          /\ s \ {x} \in SUBSET S /\ Cardinality(s \ {x}) = n /\ c \in s \ {x}
      <4>1. IsFiniteSet(s) /\ Cardinality(s) = n + 1 /\ n \in Nat /\ x \in s /\ c \in s
        BY <1>4, <2>1
      <4>2. Cardinality(s \ {c}) = n
        BY <4>1, OneLess
      <4>3. Cardinality(s \ {x}) = n
        BY <4>1, OneLess
      <4> QED
        BY <2>4, <4>1, <4>2, <4>3
    <3>2. G[s \ {c}] = f[x] + G[r]
      BY <1>6, <3>1
    <3>3. (s \ {x}) \ {c} = r
      OBVIOUS
    <3>4. G[s \ {x}] = f[c] + G[r]
      <4>1. G[s \ {x}] = f[c] + G[(s \ {x}) \ {c}]
        BY <1>6, <3>1
      <4> QED
        BY <3>3, <4>1
    <3>5. G[r] \in Int /\ f[x] \in Int /\ f[c] \in Int
      BY <1>1, <2>1
    <3> QED
      BY <2>2, <3>2, <3>4, <3>5
  <2> QED
    BY <2>3, <2>4
<1>7. \A n \in Nat : n \in Q
  <2> HIDE DEF Q
  <2> QED
    BY <1>5, <1>6, NatInductionOnSets
<1>8. SumFunctionOnSet(f, {}) = 0
  BY <1>2, <1>3
<1>9. ASSUME NEW T \in SUBSET S
      PROVE  /\ SumFunctionOnSet(f, T) \in Int
             /\ \A x \in T : SumFunctionOnSet(f, T) = f[x] + SumFunctionOnSet(f, T \ {x})
  <2>1. \A x \in T : G[T] = f[x] + G[T \ {x}] /\ T \ {x} \in SUBSET S
    BY <1>4, <1>7
  <2>2. G[T] \in Int
    BY <1>1
  <2> QED
    BY <1>2, <2>1, <2>2
<1> QED
  BY <1>8, <1>9

(* One more member adds its value.                                         *)
LEMMA SumAddOne ==
  ASSUME NEW S, IsFiniteSet(S), NEW f, \A x \in S : f[x] \in Int,
         NEW T \in SUBSET S, NEW x \in S \ T
  PROVE  /\ SumFunctionOnSet(f, T) \in Int
         /\ SumFunctionOnSet(f, T \cup {x}) = SumFunctionOnSet(f, T) + f[x]
<1> DEFINE U == T \cup {x}
<1>1. U \in SUBSET S /\ x \in U /\ U \ {x} = T
  OBVIOUS
<1> HIDE DEF U
<1>2. /\ SumFunctionOnSet(f, T) \in Int
      /\ SumFunctionOnSet(f, U) = f[x] + SumFunctionOnSet(f, T)
  <2>1. SumFunctionOnSet(f, U) = f[x] + SumFunctionOnSet(f, U \ {x})
    BY <1>1, SumTakesOut
  <2>2. SumFunctionOnSet(f, T) \in Int
    BY SumTakesOut
  <2> QED
    BY <1>1, <2>1, <2>2
<1>3. f[x] \in Int
  OBVIOUS
<1>4. SumFunctionOnSet(f, U) = SumFunctionOnSet(f, T) + f[x]
  BY <1>1, <1>2, <1>3
<1> QED
  BY <1>2, <1>4 DEF U

(* The sum depends on the values over the set only.                        *)
LEMMA SumSame ==
  ASSUME NEW S, IsFiniteSet(S), NEW f, \A x \in S : f[x] \in Int,
         NEW R, IsFiniteSet(R), S \subseteq R, NEW h, \A x \in R : h[x] \in Int,
         \A x \in S : f[x] = h[x]
  PROVE  \A T \in SUBSET S : SumFunctionOnSet(f, T) = SumFunctionOnSet(h, T)
<1> DEFINE P == {T \in SUBSET S : SumFunctionOnSet(f, T) = SumFunctionOnSet(h, T)}
<1>1. {} \in P
  <2>1. SumFunctionOnSet(f, {}) = 0
    BY SumTakesOut
  <2>2. SumFunctionOnSet(h, {}) = 0
    BY SumTakesOut
  <2> QED
    BY <2>1, <2>2
<1>2. ASSUME NEW T \in SUBSET S, NEW x \in S \ T, T \in P PROVE T \cup {x} \in P
  <2>1. SumFunctionOnSet(f, T \cup {x}) = SumFunctionOnSet(f, T) + f[x]
    BY SumAddOne
  <2>2. T \in SUBSET R /\ x \in R \ T
    OBVIOUS
  <2>3. SumFunctionOnSet(h, T \cup {x}) = SumFunctionOnSet(h, T) + h[x]
    BY <2>2, SumAddOne
  <2> QED
    BY <1>2, <2>1, <2>3
<1>3. \A T \in SUBSET S : T \in P
  <2> HIDE DEF P
  <2> QED
    BY <1>1, <1>2, FiniteSetInduction
<1> QED
  BY <1>3

-----------------------------------------------------------------------------
(* Dicts, and what adding the events of a set does to one.                 *)

Dicts(K) == UNION {[D -> Int] : D \in SUBSET K}

(* What a dict of integers holds.                                          *)
LEMMA DictType ==
  ASSUME NEW K, NEW f \in Dicts(K)
  PROVE  /\ DOMAIN f \in SUBSET K
         /\ \A x \in DOMAIN f : f[x] \in Int
         /\ f = [x \in DOMAIN f |-> f[x]]
         /\ \A k : Get(f, k) \in Int
<1>1. PICK D \in SUBSET K : f \in [D -> Int]
  BY DEF Dicts
<1> QED
  BY <1>1 DEF Get

(* What makes a function such a dict.                                      *)
LEMMA DictIntro ==
  ASSUME NEW K, NEW f, f = [x \in DOMAIN f |-> f[x]], DOMAIN f \in SUBSET K,
         \A x \in DOMAIN f : f[x] \in Int
  PROVE  f \in Dicts(K)
<1> DEFINE D == DOMAIN f
<1>1. f \in [D -> Int]
  OBVIOUS
<1> HIDE DEF D
<1>2. [D -> Int] \in {[E -> Int] : E \in SUBSET K}
  BY DEF D
<1> QED
  BY <1>1, <1>2 DEF Dicts

(* The keys after Put.                                                     *)
LEMMA PutDomain ==
  ASSUME NEW f, NEW k, NEW d
  PROVE  /\ DOMAIN Put(f, k, d) = DOMAIN f \cup {k}
         /\ DOMAIN Plus(f, k, d) = DOMAIN f \cup {k}
  BY DEF Put, Plus

(* The values after Put.                                                   *)
LEMMA PutGet ==
  ASSUME NEW f, NEW k, NEW d, NEW x
  PROVE  Get(Put(f, k, d), x) = IF x = k THEN d ELSE Get(f, x)
  BY DEF Put, Get

(* The values after Plus.                                                  *)
LEMMA PlusGet ==
  ASSUME NEW f, NEW k, NEW d, NEW x
  PROVE  Get(Plus(f, k, d), x) = IF x = k THEN Get(f, k) + d ELSE Get(f, x)
<1> DEFINE v == Get(f, k) + d
<1>1. Plus(f, k, d) = Put(f, k, v)
  BY DEF Plus
<1> HIDE DEF v
<1>2. Get(Put(f, k, v), x) = IF x = k THEN v ELSE Get(f, x)
  BY PutGet
<1> QED
  BY <1>1, <1>2 DEF v

(* Put keeps a dict a dict.                                                *)
LEMMA PutType ==
  ASSUME NEW K, NEW f \in Dicts(K), NEW k \in K, NEW d \in Int
  PROVE  Put(f, k, d) \in Dicts(K) /\ Plus(f, k, d) \in Dicts(K)
<1>1. /\ DOMAIN f \in SUBSET K
      /\ \A x \in DOMAIN f : f[x] \in Int
      /\ Get(f, k) \in Int
  BY DictType
<1>2. ASSUME NEW v \in Int
      PROVE  Put(f, k, v) \in Dicts(K)
  <2> DEFINE g == Put(f, k, v)
  <2>1. /\ DOMAIN g = DOMAIN f \cup {k}
        /\ \A x \in DOMAIN g : g[x] = IF x = k THEN v ELSE f[x]
        /\ g = [x \in DOMAIN g |-> g[x]]
    BY DEF Put
  <2> HIDE DEF g
  <2> QED
    BY <1>1, <2>1, DictIntro DEF g
<1>3. Get(f, k) + d \in Int
  BY <1>1
<1> QED
  BY <1>2, <1>3 DEF Plus

(* A dict to which the values val of the members of D are added, each at   *)
(* its key.                                                                *)
KeysOf(D, key) == {key[e] : e \in D}

Group(D, key, k) == {e \in D : key[e] = k}

Added(f, key, val, D) ==
  [k \in DOMAIN f \cup KeysOf(D, key) |->
     Get(f, k) + SumFunctionOnSet(val, Group(D, key, k))]

(* The keys after the additions of a set.                                  *)
LEMMA AddedDomain ==
  ASSUME NEW f, NEW key, NEW val, NEW D
  PROVE  DOMAIN Added(f, key, val, D) = DOMAIN f \cup KeysOf(D, key)
  BY DEF Added

(* The additions to one key have a sum.                                    *)
LEMMA GroupSum ==
  ASSUME NEW E, IsFiniteSet(E), NEW val \in [E -> Int], NEW key, NEW D \in SUBSET E, NEW k
  PROVE  /\ Group(D, key, k) \in SUBSET E
         /\ SumFunctionOnSet(val, Group(D, key, k)) \in Int
         /\ k \notin KeysOf(D, key) => SumFunctionOnSet(val, Group(D, key, k)) = 0
<1>1. Group(D, key, k) \in SUBSET E
  BY DEF Group
<1>2. \A x \in E : val[x] \in Int
  OBVIOUS
<1>3. SumFunctionOnSet(val, Group(D, key, k)) \in Int
  BY <1>1, <1>2, SumTakesOut
<1>4. k \notin KeysOf(D, key) => Group(D, key, k) = {}
  BY DEF KeysOf, Group
<1>5. SumFunctionOnSet(val, {}) = 0
  BY <1>2, SumTakesOut
<1> QED
  BY <1>1, <1>3, <1>4, <1>5

(* The values after the additions of a set.                                *)
LEMMA AddedGet ==
  ASSUME NEW K, NEW f \in Dicts(K), NEW E, IsFiniteSet(E),
         NEW key, NEW val \in [E -> Int], NEW D \in SUBSET E, NEW k
  PROVE  /\ SumFunctionOnSet(val, Group(D, key, k)) \in Int
         /\ Get(f, k) \in Int
         /\ Get(Added(f, key, val, D), k) = Get(f, k) + SumFunctionOnSet(val, Group(D, key, k))
<1> DEFINE sum == SumFunctionOnSet(val, Group(D, key, k))
           g == Added(f, key, val, D)
<1>1. sum \in Int /\ (k \notin KeysOf(D, key) => sum = 0)
  BY GroupSum
<1>2. Get(f, k) \in Int
  BY DictType
<1>3. /\ DOMAIN g = DOMAIN f \cup KeysOf(D, key)
      /\ k \in DOMAIN g => g[k] = Get(f, k) + sum
  BY DEF Added
<1> HIDE DEF g, sum
<1>4. k \notin DOMAIN f => Get(f, k) = 0
  BY DEF Get
<1>5. Get(g, k) = IF k \in DOMAIN g THEN g[k] ELSE 0
  BY DEF Get
<1>6. Get(g, k) = Get(f, k) + sum
  BY <1>1, <1>2, <1>3, <1>4, <1>5
<1> QED
  BY <1>1, <1>2, <1>6 DEF g, sum

(* The additions of a set keep a dict a dict.                              *)
LEMMA AddedType ==
  ASSUME NEW K, NEW f \in Dicts(K), NEW E, IsFiniteSet(E),
         NEW key \in [E -> K], NEW val \in [E -> Int], NEW D \in SUBSET E
  PROVE  Added(f, key, val, D) \in Dicts(K)
<1> DEFINE g == Added(f, key, val, D)
<1>1. \A k : SumFunctionOnSet(val, Group(D, key, k)) \in Int /\ Get(f, k) \in Int
  BY AddedGet
<1>2. /\ DOMAIN g = DOMAIN f \cup KeysOf(D, key)
      /\ \A k \in DOMAIN g : g[k] = Get(f, k) + SumFunctionOnSet(val, Group(D, key, k))
      /\ g = [k \in DOMAIN g |-> g[k]]
  BY DEF Added
<1>3. DOMAIN g \in SUBSET K
  <2>1. DOMAIN f \in SUBSET K
    BY DictType
  <2>2. KeysOf(D, key) \in SUBSET K
    BY DEF KeysOf
  <2> HIDE DEF g
  <2> QED
    BY <1>2, <2>1, <2>2
<1> HIDE DEF g
<1>4. \A x \in DOMAIN g : g[x] \in Int
  BY <1>1, <1>2
<1> QED
  BY <1>2, <1>3, <1>4, DictIntro DEF g

(* No additions change nothing.                                            *)
LEMMA AddedNothing ==
  ASSUME NEW K, NEW f \in Dicts(K), NEW E, IsFiniteSet(E),
         NEW key, NEW val \in [E -> Int]
  PROVE  Added(f, key, val, {}) = f
<1>1. KeysOf({}, key) = {}
  BY DEF KeysOf
<1>2. \A k : SumFunctionOnSet(val, Group({}, key, k)) = 0
  BY <1>1, GroupSum
<1>3. /\ \A x \in DOMAIN f : f[x] \in Int /\ Get(f, x) = f[x]
      /\ f = [x \in DOMAIN f |-> f[x]]
  BY DictType DEF Get
<1>4. Added(f, key, val, {}) = [k \in DOMAIN f |-> Get(f, k) + 0]
  BY <1>1, <1>2 DEF Added
<1> QED
  BY <1>3, <1>4

(* The additions of a set and one more are one Plus more.                  *)
LEMMA AddOne ==
  ASSUME NEW K, NEW f \in Dicts(K), NEW E, IsFiniteSet(E),
         NEW key, NEW val \in [E -> Int],
         NEW D \in SUBSET E, NEW e \in E \ D
  PROVE  Plus(Added(f, key, val, D), key[e], val[e]) = Added(f, key, val, D \cup {e})
<1> DEFINE g == Added(f, key, val, D)
           h == Added(f, key, val, D \cup {e})
           G(k) == Group(D, key, k)
           H(k) == Group(D \cup {e}, key, k)
<1>1. DOMAIN h = DOMAIN g \cup {key[e]}
  <2>1. KeysOf(D \cup {e}, key) = KeysOf(D, key) \cup {key[e]}
    BY DEF KeysOf
  <2>2. DOMAIN h = DOMAIN f \cup KeysOf(D \cup {e}, key)
    BY AddedDomain
  <2>3. DOMAIN g = DOMAIN f \cup KeysOf(D, key)
    BY AddedDomain
  <2> HIDE DEF g, h
  <2> QED
    BY <2>1, <2>2, <2>3
<1>2. /\ \A k \in DOMAIN h : h[k] = Get(f, k) + SumFunctionOnSet(val, H(k))
      /\ h = [k \in DOMAIN h |-> h[k]]
      /\ \A k \in DOMAIN g : g[k] = Get(f, k) + SumFunctionOnSet(val, G(k))
  BY DEF Added
<1>3. \A k : k # key[e] => H(k) = G(k)
  BY DEF Group
<1>4. SumFunctionOnSet(val, H(key[e])) = SumFunctionOnSet(val, G(key[e])) + val[e]
  <2>1. G(key[e]) \in SUBSET E /\ H(key[e]) = G(key[e]) \cup {e} /\ e \in E \ G(key[e])
    BY DEF Group
  <2>2. \A x \in E : val[x] \in Int
    OBVIOUS
  <2> HIDE DEF G, H
  <2> QED
    BY <2>1, <2>2, SumAddOne
<1>5. /\ \A k : Get(f, k) \in Int /\ SumFunctionOnSet(val, G(k)) \in Int
                /\ Get(g, k) = Get(f, k) + SumFunctionOnSet(val, G(k))
      /\ val[e] \in Int
  BY AddedGet
<1> HIDE DEF g, h, G, H
<1>6. Plus(g, key[e], val[e])
        = [k \in DOMAIN h |-> IF k = key[e] THEN Get(g, k) + val[e] ELSE g[k]]
  BY <1>1 DEF Plus, Put
<1>7. \A k \in DOMAIN h : h[k] = IF k = key[e] THEN Get(g, k) + val[e] ELSE g[k]
  <2> SUFFICES ASSUME NEW k \in DOMAIN h
               PROVE  h[k] = IF k = key[e] THEN Get(g, k) + val[e] ELSE g[k]
    OBVIOUS
  <2>1. CASE k = key[e]
    BY <1>2, <1>4, <1>5, <2>1
  <2>2. CASE k # key[e]
    BY <1>1, <1>2, <1>3, <2>2
  <2> QED
    BY <2>1, <2>2
<1> QED
  BY <1>2, <1>6, <1>7 DEF g, h

-----------------------------------------------------------------------------
(* The events of a bucket, in any order, add up to AfterEvents.            *)

NatPairs == Nat \X Nat
Triples == Nat \X Nat \X Nat

Accs ==
  [current : Dicts(NatPairs), capacity : Dicts(NatPairs), supply : Dicts(Triples),
   demand : Dicts(Triples), backlog : Dicts(Triples), inventory : Dicts(Triples),
   touched : SUBSET NatPairs]

StockOf(e) == <<EventNode(e), e.product>>

StocksOf(E)     == [e \in E |-> StockOf(e)]
MovesOf(E)      == [e \in E |-> Signed(e)]
PlacesOf(E)     == [e \in E |-> <<EventNode(e), e.time_bucket>>]
CellsOf(E)      == [e \in E |-> <<EventNode(e), e.product, e.time_bucket>>]
QuantitiesOf(E) == [e \in E |-> e.quantity]

Located(D)       == {e \in D : EventNode(e) # NoNode}
LocatedOf(D, type) == {e \in D : EventNode(e) # NoNode /\ e.event_type = type}

(* What the events in D, of all the events in E, make of acc.              *)
AfterEvents(acc, E, D) ==
  [current   |-> Added(acc.current, StocksOf(E), MovesOf(E), Located(D)),
   capacity  |-> Added(acc.capacity, PlacesOf(E), QuantitiesOf(E), LocatedOf(D, "production")),
   supply    |-> Added(acc.supply, CellsOf(E), QuantitiesOf(E), LocatedOf(D, "arrival")),
   demand    |-> acc.demand,
   backlog   |-> acc.backlog,
   inventory |-> acc.inventory,
   touched   |-> acc.touched \cup {StockOf(e) : e \in Located(D)}]

(* The parts of an event.                                                  *)
LEMMA EventType ==
  ASSUME NEW e, IsFlowEvent(e)
  PROVE  /\ EventNode(e) \in Nat
         /\ Signed(e) \in Int
         /\ StockOf(e) \in NatPairs
         /\ <<EventNode(e), e.time_bucket>> \in NatPairs
         /\ <<EventNode(e), e.product, e.time_bucket>> \in Triples
         /\ e.quantity \in Int
         /\ e.time_bucket \in Nat
<1>1. /\ e.product \in Nat /\ e.from_node \in Nat /\ e.to_node \in Nat
      /\ e.time_bucket \in Nat /\ e.quantity \in Int
  BY DEF IsFlowEvent
<1>2. EventNode(e) \in Nat
  BY <1>1 DEF EventNode, First
<1>3. Signed(e) \in Int
  BY <1>1 DEF Signed
<1> QED
  BY <1>1, <1>2, <1>3 DEF StockOf, NatPairs, Triples

(* The parts of the events of a log.                                       *)
LEMMA LogType ==
  ASSUME NEW E, IsLog(E)
  PROVE  /\ IsFiniteSet(E)
         /\ StocksOf(E) \in [E -> NatPairs]
         /\ MovesOf(E) \in [E -> Int]
         /\ PlacesOf(E) \in [E -> NatPairs]
         /\ CellsOf(E) \in [E -> Triples]
         /\ QuantitiesOf(E) \in [E -> Int]
<1>1. \A e \in E : /\ EventNode(e) \in Nat
         /\ Signed(e) \in Int
         /\ StockOf(e) \in NatPairs
         /\ <<EventNode(e), e.time_bucket>> \in NatPairs
         /\ <<EventNode(e), e.product, e.time_bucket>> \in Triples
         /\ e.quantity \in Int
  BY EventType DEF IsLog
<1> QED
  BY <1>1 DEF IsLog, StocksOf, MovesOf, PlacesOf, CellsOf, QuantitiesOf

(* The events of a log keep a ledger typed.                                *)
LEMMA AfterEventsType ==
  ASSUME NEW acc \in Accs, NEW E, IsLog(E), NEW D \in SUBSET E
  PROVE  AfterEvents(acc, E, D) \in Accs
<1>1. /\ acc.current \in Dicts(NatPairs) /\ acc.capacity \in Dicts(NatPairs)
      /\ acc.supply \in Dicts(Triples) /\ acc.demand \in Dicts(Triples)
      /\ acc.backlog \in Dicts(Triples) /\ acc.inventory \in Dicts(Triples)
      /\ acc.touched \in SUBSET NatPairs
  BY DEF Accs
<1>2. /\ Located(D) \in SUBSET E /\ LocatedOf(D, "production") \in SUBSET E
      /\ LocatedOf(D, "arrival") \in SUBSET E
  BY DEF Located, LocatedOf
<1>3. Added(acc.current, StocksOf(E), MovesOf(E), Located(D)) \in Dicts(NatPairs)
  BY <1>1, <1>2, LogType, AddedType
<1>4. Added(acc.capacity, PlacesOf(E), QuantitiesOf(E), LocatedOf(D, "production")) \in Dicts(NatPairs)
  BY <1>1, <1>2, LogType, AddedType
<1>5. Added(acc.supply, CellsOf(E), QuantitiesOf(E), LocatedOf(D, "arrival")) \in Dicts(Triples)
  BY <1>1, <1>2, LogType, AddedType
<1>6. {StockOf(e) : e \in Located(D)} \in SUBSET NatPairs
  BY EventType DEF IsLog, Located
<1> HIDE DEF Accs
<1> QED
  BY <1>1, <1>3, <1>4, <1>5, <1>6 DEF AfterEvents, Accs

(* One more event is one ApplyEvent more.                                  *)
LEMMA ApplyOne ==
  ASSUME NEW acc \in Accs, NEW E, IsLog(E), NEW D \in SUBSET E, NEW e \in E \ D
  PROVE  ApplyEvent(AfterEvents(acc, E, D), e) = AfterEvents(acc, E, D \cup {e})
<1> DEFINE r == AfterEvents(acc, E, D)
           n == EventNode(e)
           made == e.event_type = "production"
           came == e.event_type = "arrival"
<1>1. /\ acc.current \in Dicts(NatPairs) /\ acc.capacity \in Dicts(NatPairs)
      /\ acc.supply \in Dicts(Triples)
  BY DEF Accs
<1>2. /\ Located(D) \in SUBSET E /\ LocatedOf(D, "production") \in SUBSET E
      /\ LocatedOf(D, "arrival") \in SUBSET E
      /\ e \notin Located(D) /\ e \notin LocatedOf(D, "production") /\ e \notin LocatedOf(D, "arrival")
  BY DEF Located, LocatedOf
<1>3. /\ StocksOf(E)[e] = <<n, e.product>> /\ MovesOf(E)[e] = Signed(e)
      /\ PlacesOf(E)[e] = <<n, e.time_bucket>> /\ QuantitiesOf(E)[e] = e.quantity
      /\ CellsOf(E)[e] = <<n, e.product, e.time_bucket>>
  BY DEF StocksOf, MovesOf, PlacesOf, QuantitiesOf, CellsOf, StockOf
<1>4. CASE n = NoNode
  <2>1. /\ Located(D \cup {e}) = Located(D)
        /\ LocatedOf(D \cup {e}, "production") = LocatedOf(D, "production")
        /\ LocatedOf(D \cup {e}, "arrival") = LocatedOf(D, "arrival")
    BY <1>4 DEF Located, LocatedOf
  <2>2. ApplyEvent(r, e) = r
    BY <1>4 DEF ApplyEvent
  <2> QED
    BY <2>1, <2>2 DEF AfterEvents
<1>5. CASE n # NoNode
  <2>1. /\ Located(D \cup {e}) = Located(D) \cup {e}
        /\ LocatedOf(D \cup {e}, "production")
             = IF made THEN LocatedOf(D, "production") \cup {e} ELSE LocatedOf(D, "production")
        /\ LocatedOf(D \cup {e}, "arrival")
             = IF came THEN LocatedOf(D, "arrival") \cup {e} ELSE LocatedOf(D, "arrival")
    BY <1>5 DEF Located, LocatedOf
  <2>2. Plus(r.current, <<n, e.product>>, Signed(e))
          = Added(acc.current, StocksOf(E), MovesOf(E), Located(D \cup {e}))
    <3>1. r.current = Added(acc.current, StocksOf(E), MovesOf(E), Located(D))
      BY DEF AfterEvents
    <3> HIDE DEF r, n
    <3>2. Plus(Added(acc.current, StocksOf(E), MovesOf(E), Located(D)), StocksOf(E)[e], MovesOf(E)[e])
            = Added(acc.current, StocksOf(E), MovesOf(E), Located(D) \cup {e})
      BY <1>1, <1>2, LogType, AddOne
    <3> QED
      BY <1>3, <2>1, <3>1, <3>2
  <2>3. (IF made THEN Plus(r.capacity, <<n, e.time_bucket>>, e.quantity) ELSE r.capacity)
          = Added(acc.capacity, PlacesOf(E), QuantitiesOf(E), LocatedOf(D \cup {e}, "production"))
    <3>1. r.capacity = Added(acc.capacity, PlacesOf(E), QuantitiesOf(E), LocatedOf(D, "production"))
      BY DEF AfterEvents
    <3> HIDE DEF r, n, made
    <3>2. Plus(Added(acc.capacity, PlacesOf(E), QuantitiesOf(E), LocatedOf(D, "production")), PlacesOf(E)[e], QuantitiesOf(E)[e])
            = Added(acc.capacity, PlacesOf(E), QuantitiesOf(E), LocatedOf(D, "production") \cup {e})
      BY <1>1, <1>2, LogType, AddOne
    <3> QED
      BY <1>3, <2>1, <3>1, <3>2
  <2>4. (IF came THEN Plus(r.supply, <<n, e.product, e.time_bucket>>, e.quantity) ELSE r.supply)
          = Added(acc.supply, CellsOf(E), QuantitiesOf(E), LocatedOf(D \cup {e}, "arrival"))
    <3>1. r.supply = Added(acc.supply, CellsOf(E), QuantitiesOf(E), LocatedOf(D, "arrival"))
      BY DEF AfterEvents
    <3> HIDE DEF r, n, came
    <3>2. Plus(Added(acc.supply, CellsOf(E), QuantitiesOf(E), LocatedOf(D, "arrival")), CellsOf(E)[e], QuantitiesOf(E)[e])
            = Added(acc.supply, CellsOf(E), QuantitiesOf(E), LocatedOf(D, "arrival") \cup {e})
      BY <1>1, <1>2, LogType, AddOne
    <3> QED
      BY <1>3, <2>1, <3>1, <3>2
  <2>5. r.touched \cup {<<n, e.product>>} = acc.touched \cup {StockOf(x) : x \in Located(D \cup {e})}
    <3>1. r.touched = acc.touched \cup {StockOf(x) : x \in Located(D)}
      BY DEF AfterEvents
    <3>2. StockOf(e) = <<n, e.product>>
      BY DEF StockOf
    <3> HIDE DEF r, n
    <3> QED
      BY <2>1, <3>1, <3>2
  <2>6. r.demand = acc.demand /\ r.backlog = acc.backlog /\ r.inventory = acc.inventory
    BY DEF AfterEvents
  <2>7. ApplyEvent(r, e)
          = [current |-> Plus(r.current, <<n, e.product>>, Signed(e)),
             capacity |-> IF made THEN Plus(r.capacity, <<n, e.time_bucket>>, e.quantity) ELSE r.capacity,
             supply |-> IF came THEN Plus(r.supply, <<n, e.product, e.time_bucket>>, e.quantity) ELSE r.supply,
             demand |-> r.demand, backlog |-> r.backlog, inventory |-> r.inventory,
             touched |-> r.touched \cup {<<n, e.product>>}]
    <3>1. r = [current |-> r.current, capacity |-> r.capacity, supply |-> r.supply,
             demand |-> r.demand, backlog |-> r.backlog, inventory |-> r.inventory,
             touched |-> r.touched]
      BY DEF AfterEvents
    <3> HIDE DEF r
    <3> QED
      BY <1>5, <3>1 DEF ApplyEvent
  <2> HIDE DEF r, n, made, came
  <2>8. ApplyEvent(r, e) = AfterEvents(acc, E, D \cup {e})
    BY <2>2, <2>3, <2>4, <2>5, <2>6, <2>7 DEF AfterEvents
  <2> QED
    BY <2>8 DEF r
<1> QED
  BY <1>4, <1>5

(* No events change nothing.                                               *)
LEMMA NoEvents ==
  ASSUME NEW acc \in Accs, NEW E, IsLog(E)
  PROVE  AfterEvents(acc, E, {}) = acc
<1>1. /\ acc.current \in Dicts(NatPairs) /\ acc.capacity \in Dicts(NatPairs)
      /\ acc.supply \in Dicts(Triples)
      /\ acc = [current |-> acc.current, capacity |-> acc.capacity, supply |-> acc.supply,
             demand |-> acc.demand, backlog |-> acc.backlog, inventory |-> acc.inventory,
             touched |-> acc.touched]
  BY DEF Accs
<1>2. Located({}) = {} /\ \A type : LocatedOf({}, type) = {}
  BY DEF Located, LocatedOf
<1>3. Added(acc.current, StocksOf(E), MovesOf(E), {}) = acc.current
  BY <1>1, LogType, AddedNothing
<1>4. Added(acc.capacity, PlacesOf(E), QuantitiesOf(E), {}) = acc.capacity
  BY <1>1, LogType, AddedNothing
<1>5. Added(acc.supply, CellsOf(E), QuantitiesOf(E), {}) = acc.supply
  BY <1>1, LogType, AddedNothing
<1>6. acc.touched \cup {StockOf(e) : e \in {}} = acc.touched
  OBVIOUS
<1> QED
  BY <1>1, <1>2, <1>3, <1>4, <1>5, <1>6 DEF AfterEvents

(* A listing as a sequence.                                                *)
LEMMA ListingIsSeq ==
  ASSUME NEW S, NEW s, IsListing(s, S)
  PROVE  /\ s \in Seq(S) /\ Len(s) = Cardinality(S) /\ Len(s) \in Nat
         /\ \A i \in 1 .. Len(s) : s[i] \in S
         /\ \A x \in S : \E i \in 1 .. Len(s) : s[i] = x
         /\ \A i, j \in 1 .. Len(s) : s[i] = s[j] => i = j
<1>1. Cardinality(S) \in Nat /\ s \in [1 .. Cardinality(S) -> S]
  BY DEF IsListing
<1> DEFINE n == Cardinality(S)
<1> HIDE DEF n
<1>2. s \in Seq(S) /\ Len(s) = n
  BY <1>1, SeqDef, LenProperties DEF n
<1> QED
  BY <1>1, <1>2 DEF IsListing, n

(* However the events are ordered, each is added once.                     *)
LEMMA EventsAddUp ==
  ASSUME NEW acc \in Accs, NEW E, IsLog(E), NEW s, IsListing(s, E)
  PROVE  ApplyEvents(acc, s) = AfterEvents(acc, E, E)
<1> DEFINE after[i \in 0 .. Len(s)] ==
             IF i = 0 THEN acc ELSE With(after[i - 1], LAMBDA a : ApplyEvent(a, s[i]))
           Done(i) == {s[j] : j \in 1 .. i}
           n == Len(s)
           g == [i \in 0 .. n |-> AfterEvents(acc, E, Done(i))]
<1>1. /\ n \in Nat
      /\ \A i \in 1 .. n : s[i] \in E
      /\ \A x \in E : \E i \in 1 .. n : s[i] = x
      /\ \A i, j \in 1 .. n : s[i] = s[j] => i = j
  BY ListingIsSeq
<1>2. \A a, e : With(a, LAMBDA v : ApplyEvent(v, e)) = ApplyEvent(a, e)
  BY Zenon DEF With
<1>3. Done(0) = {} /\ Done(n) = E
  BY <1>1
<1>4. \A i \in 1 .. n : /\ Done(i - 1) \in SUBSET E
                        /\ s[i] \in E \ Done(i - 1)
                        /\ Done(i) = Done(i - 1) \cup {s[i]}
                        /\ i - 1 \in 0 .. n /\ i # 0
  BY <1>1
<1> HIDE DEF n, Done
<1>5. \A i \in 1 .. n : g[i] = ApplyEvent(g[i - 1], s[i])
  BY <1>4, ApplyOne
<1>6. g[0] = acc
  BY <1>1, <1>3, NoEvents
<1>7. g = [i \in 0 .. n |-> IF i = 0 THEN acc ELSE ApplyEvent(g[i - 1], s[i])]
  BY <1>1, <1>5, <1>6
<1> HIDE DEF g
<1>8. g = [i \in 0 .. n |-> IF i = 0 THEN acc ELSE With(g[i - 1], LAMBDA a : ApplyEvent(a, s[i]))]
  BY <1>2, <1>7
<1>9. after = [i \in 0 .. n |-> IF i = 0 THEN acc ELSE With(after[i - 1], LAMBDA a : ApplyEvent(a, s[i]))]
  BY <1>8 DEF n
<1> HIDE DEF after
<1>10. after = [i \in 0 .. n |-> IF i = 0 THEN acc ELSE ApplyEvent(after[i - 1], s[i])]
  BY <1>2, <1>9
<1> DEFINE Q == {i \in Nat : i <= n => after[i] = g[i]}
<1>11. 0 \in Q
  BY <1>1, <1>6, <1>10
<1>12. ASSUME NEW i \in Nat, i \in Q PROVE i + 1 \in Q
  <2> SUFFICES ASSUME i + 1 <= n PROVE after[i + 1] = g[i + 1]
    OBVIOUS
  <2>1. i + 1 \in 0 .. n /\ i + 1 # 0 /\ (i + 1) - 1 = i /\ i <= n
    BY <1>1
  <2>2. after[i + 1] = ApplyEvent(after[i], s[i + 1])
    BY <1>10, <2>1
  <2>3. g[i + 1] = ApplyEvent(g[i], s[i + 1])
    BY <1>7, <2>1
  <2> QED
    BY <1>12, <2>1, <2>2, <2>3
<1>13. \A i \in Nat : i \in Q
  <2> HIDE DEF Q
  <2> QED
    BY <1>11, <1>12, NatInductionOnSets
<1>14. after[n] = g[n]
  BY <1>1, <1>13
<1>15. g[n] = AfterEvents(acc, E, E)
  BY <1>1, <1>3 DEF g
<1>16. ApplyEvents(acc, s) = after[Len(s)]
  BY Zenon DEF ApplyEvents, after
<1> QED
  BY <1>14, <1>15, <1>16 DEF n

-----------------------------------------------------------------------------
(* Demands are served in their order; the parts of a derivation.           *)

(* The greater and the lesser of two.                                      *)
LEMMA MaxMinOfTwo ==
  ASSUME NEW a \in Int, NEW b \in Int
  PROVE  /\ Max({a, b}) = IF a >= b THEN a ELSE b
         /\ Min({a, b}) = IF a <= b THEN a ELSE b
  BY DEF Max, Min

Ledgers == {a \in Accs : a.touched \subseteq DOMAIN a.current}

(* The parts of a ledger.                                                  *)
LEMMA LedgerType ==
  ASSUME NEW a \in Ledgers
  PROVE  /\ a \in Accs
         /\ a.current \in Dicts(NatPairs) /\ a.capacity \in Dicts(NatPairs)
         /\ a.supply \in Dicts(Triples) /\ a.demand \in Dicts(Triples)
         /\ a.backlog \in Dicts(Triples) /\ a.inventory \in Dicts(Triples)
         /\ a.touched \in SUBSET NatPairs
         /\ a.touched \subseteq DOMAIN a.current
         /\ a = [current |-> a.current, capacity |-> a.capacity, supply |-> a.supply,
                 demand |-> a.demand, backlog |-> a.backlog, inventory |-> a.inventory,
                 touched |-> a.touched]
  BY DEF Ledgers, Accs

(* The events of a log make a ledger of a ledger.                          *)
LEMMA EventsKeepLedger ==
  ASSUME NEW a \in Ledgers, NEW E, IsLog(E)
  PROVE  AfterEvents(a, E, E) \in Ledgers
<1> DEFINE r == AfterEvents(a, E, E)
<1>1. r \in Accs
  BY LedgerType, AfterEventsType
<1>2. Located(E) \in SUBSET E
  BY DEF Located
<1>3. r.current = Added(a.current, StocksOf(E), MovesOf(E), Located(E))
  BY DEF AfterEvents
<1>4. DOMAIN r.current = DOMAIN a.current \cup KeysOf(Located(E), StocksOf(E))
  BY <1>3, AddedDomain
<1>5. r.touched = a.touched \cup {StockOf(e) : e \in Located(E)}
  BY DEF AfterEvents
<1>6. KeysOf(Located(E), StocksOf(E)) = {StockOf(e) : e \in Located(E)}
  BY <1>2 DEF StocksOf, KeysOf
<1>7. a.touched \subseteq DOMAIN a.current
  BY LedgerType
<1> HIDE DEF r
<1> QED
  BY <1>1, <1>4, <1>5, <1>6, <1>7 DEF Ledgers, r

(* What serving one demand changes.                                        *)
Sold(a, d) == Min({Max({Get(a.current, <<d.market, d.product>>), 0}), d.quantity})

(* What serving one demand does to a ledger.                               *)
LEMMA ServeOne ==
  ASSUME NEW a \in Ledgers, NEW d, IsDemand(d)
  PROVE  LET stock == <<d.market, d.product>>
             key   == <<d.market, d.product, d.time_bucket>>
             r     == ServeDemand(a, d)
         IN  /\ r \in Ledgers
             /\ stock \in NatPairs /\ key \in Triples /\ Sold(a, d) \in Int
             /\ r.current = Plus(a.current, stock, - Sold(a, d))
             /\ r.demand  = Plus(a.demand, key, d.quantity)
             /\ r.backlog = Put(a.backlog, key, d.quantity - Sold(a, d))
             /\ r.touched = a.touched \cup {stock}
             /\ r.capacity = a.capacity /\ r.supply = a.supply /\ r.inventory = a.inventory
<1> DEFINE stock == <<d.market, d.product>>
           key   == <<d.market, d.product, d.time_bucket>>
           r     == ServeDemand(a, d)
<1>1. stock \in NatPairs /\ key \in Triples /\ d.quantity \in Int /\ d.quantity >= 0
  BY DEF IsDemand, NatPairs, Triples
<1>2. Sold(a, d) \in Int
  <2>1. Get(a.current, stock) \in Int
    BY LedgerType, DictType
  <2>2. Max({Get(a.current, stock), 0}) \in Int
    <3> HIDE DEF stock
    <3> QED
      BY <2>1, MaxMinOfTwo
  <2> HIDE DEF stock
  <2>3. Min({Max({Get(a.current, stock), 0}), d.quantity}) \in Int
    BY <1>1, <2>2, MaxMinOfTwo
  <2> QED
    BY <2>3 DEF Sold, stock
<1>3. r = [current |-> Plus(a.current, stock, - Sold(a, d)), capacity |-> a.capacity,
           supply |-> a.supply, demand |-> Plus(a.demand, key, d.quantity),
           backlog |-> Put(a.backlog, key, d.quantity - Sold(a, d)),
           inventory |-> a.inventory, touched |-> a.touched \cup {stock}]
  <2>1. a = [current |-> a.current, capacity |-> a.capacity, supply |-> a.supply,
             demand |-> a.demand, backlog |-> a.backlog, inventory |-> a.inventory,
             touched |-> a.touched]
    BY LedgerType
  <2> HIDE DEF Ledgers
  <2>2. r = [a EXCEPT !.demand = Plus(@, key, d.quantity), !.current = Plus(@, stock, - Sold(a, d)),
                      !.backlog = Put(@, key, d.quantity - Sold(a, d)), !.touched = @ \cup {stock}]
    BY Zenon DEF ServeDemand, Sold
  <2> HIDE DEF r, stock, key
  <2> QED
    BY <2>1, <2>2
<1> HIDE DEF r, stock, key
<1>4. /\ Plus(a.current, stock, - Sold(a, d)) \in Dicts(NatPairs)
      /\ DOMAIN Plus(a.current, stock, - Sold(a, d)) = DOMAIN a.current \cup {stock}
  <2>1. - Sold(a, d) \in Int /\ a.current \in Dicts(NatPairs)
    BY <1>2, LedgerType
  <2> QED
    BY <1>1, <2>1, PutType, PutDomain
<1>5. Plus(a.demand, key, d.quantity) \in Dicts(Triples)
  BY <1>1, LedgerType, PutType
<1>6. Put(a.backlog, key, d.quantity - Sold(a, d)) \in Dicts(Triples)
  <2>1. d.quantity - Sold(a, d) \in Int
    BY <1>1, <1>2
  <2> QED
    BY <1>1, <2>1, LedgerType, PutType
<1>7. r \in Ledgers
  BY <1>1, <1>3, <1>4, <1>5, <1>6, LedgerType DEF Ledgers, Accs
<1>8. /\ r.current = Plus(a.current, stock, - Sold(a, d))
      /\ r.demand  = Plus(a.demand, key, d.quantity)
      /\ r.backlog = Put(a.backlog, key, d.quantity - Sold(a, d))
      /\ r.touched = a.touched \cup {stock}
      /\ r.capacity = a.capacity /\ r.supply = a.supply /\ r.inventory = a.inventory
  BY <1>3
<1> QED
  BY <1>1, <1>2, <1>7, <1>8 DEF r, stock, key

(* ServeDemands as a run of ServeDemand, in any set of ledgers it stays in. *)
IsServing(g, A, acc, list) ==
  /\ g \in [0 .. Len(list) -> A]
  /\ g[0] = acc
  /\ \A i \in 1 .. Len(list) : g[i] = ServeDemand(g[i - 1], list[i])
  /\ ServeDemands(acc, list) = g[Len(list)]

(* ServeDemands as a run of ServeDemand, in any set it stays in.           *)
LEMMA ServeInOrder ==
  ASSUME NEW A, NEW acc \in A, NEW T, NEW list \in Seq(T),
         \A a \in A : \A i \in 1 .. Len(list) : ServeDemand(a, list[i]) \in A
  PROVE  \E g : IsServing(g, A, acc, list)
<1> DEFINE after[i \in 0 .. Len(list)] ==
             IF i = 0 THEN acc ELSE With(after[i - 1], LAMBDA a : ServeDemand(a, list[i]))
           n == Len(list)
           step == [i \in 1 .. n |-> [a \in A |-> ServeDemand(a, list[i])]]
<1>1. n \in Nat
  OBVIOUS
<1>2. \A a, d : With(a, LAMBDA v : ServeDemand(v, d)) = ServeDemand(a, d)
  BY Zenon DEF With
<1> HIDE DEF n
<1>3. step \in Steps(n, A)
  BY DEF Steps, n
<1> HIDE DEF step
<1>4. PICK g \in [0 .. n -> A] : g[0] = acc /\ \A i \in 1 .. n : g[i] = step[i][g[i - 1]]
  BY <1>1, <1>3, RecursionOnInterval, SMTT(30)
<1>5. \A i \in 1 .. n : i - 1 \in 0 .. n /\ g[i - 1] \in A /\ i # 0
  BY <1>1, <1>4
<1>6. \A i \in 1 .. n : g[i] = ServeDemand(g[i - 1], list[i])
  BY <1>4, <1>5 DEF step
<1>7. g = [i \in 0 .. n |-> IF i = 0 THEN acc ELSE ServeDemand(g[i - 1], list[i])]
  BY <1>1, <1>4, <1>6
<1>8. g = [i \in 0 .. n |-> IF i = 0 THEN acc ELSE With(g[i - 1], LAMBDA a : ServeDemand(a, list[i]))]
  BY <1>2, <1>7
<1>9. after = [i \in 0 .. n |-> IF i = 0 THEN acc ELSE With(after[i - 1], LAMBDA a : ServeDemand(a, list[i]))]
  BY <1>8 DEF n
<1> HIDE DEF after
<1>10. after = [i \in 0 .. n |-> IF i = 0 THEN acc ELSE ServeDemand(after[i - 1], list[i])]
  BY <1>2, <1>9
<1> DEFINE Q == {i \in Nat : i <= n => after[i] = g[i]}
<1>11. 0 \in Q
  BY <1>1, <1>4, <1>10
<1>12. ASSUME NEW i \in Nat, i \in Q PROVE i + 1 \in Q
  <2> SUFFICES ASSUME i + 1 <= n PROVE after[i + 1] = g[i + 1]
    OBVIOUS
  <2>1. i + 1 \in 0 .. n /\ i + 1 # 0 /\ (i + 1) - 1 = i /\ i <= n
    BY <1>1
  <2>2. after[i + 1] = ServeDemand(after[i], list[i + 1])
    BY <1>10, <2>1
  <2>3. g[i + 1] = ServeDemand(g[i], list[i + 1])
    BY <1>7, <2>1
  <2> QED
    BY <1>12, <2>1, <2>2, <2>3
<1>13. \A i \in Nat : i \in Q
  <2> HIDE DEF Q
  <2> QED
    BY <1>11, <1>12, NatInductionOnSets
<1>14. after[n] = g[n]
  BY <1>1, <1>13
<1>15. ServeDemands(acc, list) = after[Len(list)]
  BY Zenon DEF ServeDemands, after
<1> QED
  BY <1>4, <1>6, <1>14, <1>15 DEF n, IsServing

(* What closing a bucket does to a ledger.                                 *)
LEMMA CloseOne ==
  ASSUME NEW a \in Ledgers, NEW t \in Nat
  PROVE  LET r == CloseBucket(a, t)
             closed == {<<s[1], s[2], t>> : s \in a.touched}
         IN  /\ r \in Ledgers
             /\ r.touched = {}
             /\ r.current = a.current /\ r.capacity = a.capacity /\ r.supply = a.supply
             /\ r.demand = a.demand /\ r.backlog = a.backlog
             /\ DOMAIN r.inventory = DOMAIN a.inventory \cup closed
             /\ \A k \in DOMAIN r.inventory :
                  r.inventory[k] = IF k \in closed THEN a.current[<<k[1], k[2]>>]
                                   ELSE a.inventory[k]
<1> DEFINE r == CloseBucket(a, t)
           closed == {<<s[1], s[2], t>> : s \in a.touched}
           view == [k \in DOMAIN a.inventory \cup closed |->
                      IF k \in closed THEN a.current[<<k[1], k[2]>>] ELSE a.inventory[k]]
<1>1. \A s \in a.touched : s \in NatPairs /\ s[1] \in Nat /\ s[2] \in Nat /\ s = <<s[1], s[2]>>
  BY LedgerType DEF NatPairs
<1>2. \A k \in closed : k \in Triples /\ <<k[1], k[2]>> \in a.touched
  BY <1>1 DEF Triples
<1>3. r = [current |-> a.current, capacity |-> a.capacity, supply |-> a.supply,
           demand |-> a.demand, backlog |-> a.backlog, inventory |-> view, touched |-> {}]
  <2>1. a = [current |-> a.current, capacity |-> a.capacity, supply |-> a.supply,
             demand |-> a.demand, backlog |-> a.backlog, inventory |-> a.inventory,
             touched |-> a.touched]
    BY LedgerType
  <2>2. r = [a EXCEPT !.inventory = view, !.touched = {}]
    BY Zenon DEF CloseBucket
  <2> HIDE DEF r, view
  <2> QED
    BY <2>1, <2>2
<1>4. \A x \in a.touched : x \in DOMAIN a.current /\ a.current[x] \in Int
  <2>1. a.current \in Dicts(NatPairs) /\ a.touched \subseteq DOMAIN a.current
    BY LedgerType
  <2>2. \A x \in DOMAIN a.current : a.current[x] \in Int
    BY <2>1, DictType
  <2> QED
    BY <2>1, <2>2
<1>5. \A x \in DOMAIN a.inventory : x \in Triples /\ a.inventory[x] \in Int
  <2>1. a.inventory \in Dicts(Triples)
    BY LedgerType
  <2>2. \A x \in DOMAIN a.inventory : a.inventory[x] \in Int
    BY <2>1, DictType
  <2>3. DOMAIN a.inventory \in SUBSET Triples
    BY <2>1, DictType
  <2> QED
    BY <2>2, <2>3
<1> HIDE DEF closed
<1>6. /\ DOMAIN view = DOMAIN a.inventory \cup closed
      /\ view = [k \in DOMAIN view |-> view[k]]
      /\ \A k \in DOMAIN view : view[k] = IF k \in closed THEN a.current[<<k[1], k[2]>>]
                                          ELSE a.inventory[k]
  OBVIOUS
<1> HIDE DEF view, r
<1>7. view \in Dicts(Triples)
  <2>1. \A k \in DOMAIN view : k \in Triples /\ view[k] \in Int
    BY <1>2, <1>4, <1>5, <1>6
  <2> QED
    BY <1>6, <2>1, DictIntro
<1>8. r \in Ledgers
  BY <1>3, <1>7, LedgerType DEF Ledgers, Accs
<1>9. /\ r.touched = {}
      /\ r.current = a.current /\ r.capacity = a.capacity /\ r.supply = a.supply
      /\ r.demand = a.demand /\ r.backlog = a.backlog /\ r.inventory = view
  BY <1>3
<1> QED
  BY <1>6, <1>8, <1>9 DEF closed, r

-----------------------------------------------------------------------------

OrdersOf(D, t) == InOrder([d \in InBucket(D, t) |-> DemandKey(d)])

TimesOf(E, D) == InOrder([t \in {x.time_bucket : x \in E \cup D} |-> <<t>>])

(* The demands of a bucket are listed once each.                           *)
LEMMA OrdersListed ==
  ASSUME NEW D, IsDemands(D), NEW t
  PROVE  IsListing(OrdersOf(D, t), InBucket(D, t))
<1> DEFINE B == InBucket(D, t)
           key == [d \in B |-> DemandKey(d)]
<1>1. B \in SUBSET D /\ IsFiniteSet(B)
  <2>1. B \in SUBSET D
    BY DEF InBucket
  <2> HIDE DEF B
  <2> QED
    BY <2>1, FS_Subset DEF IsDemands
<1>2. \A d \in D : DemandKey(d) \in Tuples(4)
  <2> SUFFICES ASSUME NEW d \in D PROVE DemandKey(d) \in Tuples(4)
    OBVIOUS
  <2>1. d.time_bucket \in Nat /\ d.market \in Nat /\ d.product \in Nat /\ d.demand_id \in Nat
    BY DEF IsDemands, IsDemand
  <2>2. <<d.time_bucket, d.market, d.product, d.demand_id>> \in [1 .. 4 -> Int]
    BY <2>1
  <2> QED
    BY <2>2 DEF DemandKey, Tuples
<1> HIDE DEF B
<1>3. DOMAIN key = B /\ \A d \in B : key[d] = DemandKey(d)
  OBVIOUS
<1>4. key = [x \in DOMAIN key |-> key[x]]
  OBVIOUS
<1>5. \A x, y \in DOMAIN key : key[x] = key[y] => x = y
  BY <1>1, <1>3 DEF IsDemands
<1> HIDE DEF key
<1>6. KeyOf(key, 4)
  BY <1>1, <1>2, <1>3, <1>4, <1>5 DEF KeyOf
<1>7. IsListing(InOrder(key), B)
  BY <1>3, <1>6, InOrderLists
<1> QED
  BY <1>7 DEF OrdersOf, key, B

(* So are its events.                                                      *)
LEMMA EventsListed ==
  ASSUME NEW E, NEW m \in Nat, NEW key, KeyOf(key, m), DOMAIN key = E, NEW t
  PROVE  IsListing(InOrder([e \in InBucket(E, t) |-> key[e]]), InBucket(E, t))
<1> DEFINE B == InBucket(E, t)
           sub == [e \in B |-> key[e]]
<1>1. B \in SUBSET E /\ IsFiniteSet(B)
  <2>1. B \in SUBSET E
    BY DEF InBucket
  <2> HIDE DEF B
  <2> QED
    BY <2>1, FS_Subset DEF KeyOf
<1> HIDE DEF B
<1>2. DOMAIN sub = B /\ (\A e \in B : sub[e] = key[e]) /\ sub = [x \in DOMAIN sub |-> sub[x]]
  OBVIOUS
<1> HIDE DEF sub
<1>3. KeyOf(sub, m)
  BY <1>1, <1>2 DEF KeyOf
<1>4. IsListing(InOrder(sub), B)
  BY <1>2, <1>3, InOrderLists
<1> QED
  BY <1>4 DEF sub, B

(* So are the buckets, in increasing order.                                *)
LEMMA TimesListed ==
  ASSUME NEW E, IsLog(E), NEW D, IsDemands(D)
  PROVE  /\ IsListing(TimesOf(E, D), {x.time_bucket : x \in E \cup D})
         /\ {x.time_bucket : x \in E \cup D} \subseteq Nat
         /\ \A i, j \in 1 .. Len(TimesOf(E, D)) : i < j => TimesOf(E, D)[i] < TimesOf(E, D)[j]
<1> DEFINE T == {x.time_bucket : x \in E \cup D}
           key == [t \in T |-> <<t>>]
<1>1. IsFiniteSet(T)
  <2>1. IsFiniteSet(E \cup D)
    BY FS_Union DEF IsLog, IsDemands
  <2> DEFINE h == [x \in E \cup D |-> x.time_bucket]
  <2>2. h \in Surjection(E \cup D, T)
    BY DEF Surjection
  <2> HIDE DEF h, T
  <2> QED
    BY <2>1, <2>2, FS_Surjection
<1>2. \A x \in E \cup D : x.time_bucket \in Nat
  BY DEF IsLog, IsFlowEvent, IsDemands, IsDemand
<1>3. T \subseteq Nat
  BY <1>2
<1> HIDE DEF T
<1>4. /\ DOMAIN key = T /\ key = [x \in DOMAIN key |-> key[x]]
      /\ \A t \in T : key[t] = <<t>> /\ key[t] \in [1 .. 1 -> Int]
  BY <1>3
<1>5. \A x, y \in T : key[x] = key[y] => x = y
  BY <1>4
<1> HIDE DEF key
<1>6. KeyOf(key, 1)
  BY <1>1, <1>4, <1>5 DEF KeyOf, Tuples
<1>7. /\ IsListing(InOrder(key), T)
      /\ \A i, j \in 1 .. Cardinality(T) :
           i < j => Lex(key[InOrder(key)[i]], key[InOrder(key)[j]])
  BY <1>4, <1>6, InOrderLists
<1>8. TimesOf(E, D) = InOrder(key)
  BY DEF TimesOf, key, T
<1>9. \A s, t \in T : Lex(key[s], key[t]) => s < t
  BY <1>4 DEF Lex
<1>10. Len(InOrder(key)) = Cardinality(T) /\ \A i \in 1 .. Cardinality(T) : InOrder(key)[i] \in T
  BY <1>7, ListingIsSeq
<1> QED
  BY <1>3, <1>7, <1>8, <1>9, <1>10 DEF T

(* The ledger of a bucket once its demands are served.                     *)
Served(acc, t, E, D) ==
  ServeDemands(AfterEvents(acc, InBucket(E, t), InBucket(E, t)), OrdersOf(D, t))

(* A bucket of a log is a log.                                             *)
LEMMA BucketIsLog ==
  ASSUME NEW E, IsLog(E), NEW t
  PROVE  IsLog(InBucket(E, t)) /\ InBucket(E, t) \in SUBSET E
<1>1. InBucket(E, t) \in SUBSET E
  BY DEF InBucket
<1> QED
  BY <1>1, FS_Subset DEF IsLog

(* A bucket is derived in whatever order its events come.                  *)
LEMMA BucketDerived ==
  ASSUME NEW acc \in Ledgers, NEW E, IsLog(E), NEW D, IsDemands(D), NEW t \in Nat,
         NEW m \in Nat, NEW key, KeyOf(key, m), DOMAIN key = E
  PROVE  /\ DeriveBucket(acc, t, E, key, D) = CloseBucket(Served(acc, t, E, D), t)
         /\ Served(acc, t, E, D) \in Ledgers
         /\ DeriveBucket(acc, t, E, key, D) \in Ledgers
<1> DEFINE B == InBucket(E, t)
           events == InOrder([e \in B |-> key[e]])
<1>1. DeriveBucket(acc, t, E, key, D)
        = CloseBucket(ServeDemands(ApplyEvents(acc, events), OrdersOf(D, t)), t)
  BY Zenon DEF DeriveBucket, With, OrdersOf
<1>2. IsListing(events, B)
  BY EventsListed
<1>3. IsLog(B)
  BY BucketIsLog
<1> HIDE DEF events, B
<1>4. ApplyEvents(acc, events) = AfterEvents(acc, B, B)
  BY <1>2, <1>3, LedgerType, EventsAddUp
<1>5. AfterEvents(acc, B, B) \in Ledgers
  BY <1>3, EventsKeepLedger
<1> DEFINE list == OrdersOf(D, t)
<1>6. list \in Seq(D) /\ \A i \in 1 .. Len(list) : IsDemand(list[i])
  <2>1. IsListing(list, InBucket(D, t))
    BY OrdersListed
  <2>2. InBucket(D, t) \in SUBSET D
    BY DEF InBucket
  <2> HIDE DEF list
  <2>3. list \in Seq(D)
    BY <2>1, <2>2, ListingIsSeq, SeqMonotonic
  <2> QED
    BY <2>1, <2>2, <2>3, ListingIsSeq DEF IsDemands
<1> HIDE DEF list
<1>7. \A a \in Ledgers : \A i \in 1 .. Len(list) : ServeDemand(a, list[i]) \in Ledgers
  BY <1>6, ServeOne
<1>8. PICK g : IsServing(g, Ledgers, AfterEvents(acc, B, B), list)
  BY <1>5, <1>6, <1>7, ServeInOrder
<1>9. Served(acc, t, E, D) \in Ledgers
  <2>1. Len(list) \in 0 .. Len(list)
    BY <1>6
  <2> QED
    BY <1>8, <2>1 DEF Served, B, list, IsServing
<1> QED
  BY <1>1, <1>4, <1>9, CloseOne DEF Served, B, list

-----------------------------------------------------------------------------
(* A derivation is a run over the buckets, whatever the order of events.   *)

(* Derive as a run of DeriveBucket, in any set of ledgers it stays in.     *)
LEMMA DeriveInOrder ==
  ASSUME NEW E, NEW key, NEW D, NEW A, NothingDerived \in A,
         Len(TimesOf(E, D)) \in Nat,
         \A a \in A : \A i \in 1 .. Len(TimesOf(E, D)) :
           DeriveBucket(a, TimesOf(E, D)[i], E, key, D) \in A
  PROVE  \E g \in [0 .. Len(TimesOf(E, D)) -> A] :
           /\ g[0] = NothingDerived
           /\ \A i \in 1 .. Len(TimesOf(E, D)) :
                g[i] = DeriveBucket(g[i - 1], TimesOf(E, D)[i], E, key, D)
           /\ Derive(E, key, D) = StateView(g[Len(TimesOf(E, D))])
<1> DEFINE times == TimesOf(E, D)
           after[i \in 0 .. Len(times)] ==
             IF i = 0 THEN NothingDerived
             ELSE With(after[i - 1], LAMBDA a : DeriveBucket(a, times[i], E, key, D))
           n == Len(times)
           Next_(i, a) == DeriveBucket(a, times[i], E, key, D)
           step == [i \in 1 .. n |-> [a \in A |-> Next_(i, a)]]
<1>1. n \in Nat
  OBVIOUS
<1>2. \A a, t : With(a, LAMBDA v : DeriveBucket(v, t, E, key, D)) = DeriveBucket(a, t, E, key, D)
  BY Zenon DEF With
<1>3. \A a \in A : \A i \in 1 .. n : Next_(i, a) \in A
  OBVIOUS
<1>4. Derive(E, key, D) = StateView(after[Len(times)])
  <2>1. Derive(E, key, D) = StateView(DeriveBuckets(times, E, key, D))
    BY Zenon DEF Derive, With, TimesOf
  <2>2. DeriveBuckets(times, E, key, D) = after[Len(times)]
    BY Zenon DEF DeriveBuckets, after
  <2> QED
    BY <2>1, <2>2
<1> HIDE DEF n, Next_, times
<1>5. step \in Steps(n, A)
  BY <1>3 DEF Steps
<1> HIDE DEF step
<1>6. PICK g \in [0 .. n -> A] : g[0] = NothingDerived /\ \A i \in 1 .. n : g[i] = step[i][g[i - 1]]
  <2>1. n \in Nat /\ NothingDerived \in A
    BY <1>1
  <2> HIDE DEF NothingDerived
  <2> QED
    BY <1>5, <2>1, RecursionOnInterval
<1>7. \A i \in 1 .. n : i - 1 \in 0 .. n /\ g[i - 1] \in A /\ i # 0
  BY <1>1, <1>6
<1>8. \A i \in 1 .. n : g[i] = DeriveBucket(g[i - 1], times[i], E, key, D)
  BY <1>6, <1>7 DEF step, Next_
<1>9. g = [i \in 0 .. n |-> IF i = 0 THEN NothingDerived ELSE DeriveBucket(g[i - 1], times[i], E, key, D)]
  BY <1>1, <1>6, <1>8
<1>10. g = [i \in 0 .. n |-> IF i = 0 THEN NothingDerived
                             ELSE With(g[i - 1], LAMBDA a : DeriveBucket(a, times[i], E, key, D))]
  BY <1>2, <1>9
<1>11. after = [i \in 0 .. n |-> IF i = 0 THEN NothingDerived
                                 ELSE With(after[i - 1], LAMBDA a : DeriveBucket(a, times[i], E, key, D))]
  BY <1>10 DEF n
<1> HIDE DEF after
<1>12. after = [i \in 0 .. n |-> IF i = 0 THEN NothingDerived ELSE DeriveBucket(after[i - 1], times[i], E, key, D)]
  BY <1>2, <1>11
<1> DEFINE Q == {i \in Nat : i <= n => after[i] = g[i]}
<1>13. 0 \in Q
  BY <1>1, <1>6, <1>12
<1>14. ASSUME NEW i \in Nat, i \in Q PROVE i + 1 \in Q
  <2> SUFFICES ASSUME i + 1 <= n PROVE after[i + 1] = g[i + 1]
    OBVIOUS
  <2>1. i + 1 \in 0 .. n /\ i + 1 # 0 /\ (i + 1) - 1 = i /\ i <= n
    BY <1>1
  <2>2. after[i + 1] = DeriveBucket(after[i], times[i + 1], E, key, D)
    BY <1>12, <2>1
  <2>3. g[i + 1] = DeriveBucket(g[i], times[i + 1], E, key, D)
    BY <1>9, <2>1
  <2> QED
    BY <1>14, <2>1, <2>2, <2>3
<1>15. \A i \in Nat : i \in Q
  <2> HIDE DEF Q
  <2> QED
    BY <1>13, <1>14, NatInductionOnSets
<1>16. after[n] = g[n]
  BY <1>1, <1>15
<1> QED
  BY <1>4, <1>6, <1>8, <1>16 DEF n, times

(* The empty ledger is one.                                                *)
LEMMA NothingIsLedger == NothingDerived \in Ledgers
<1>1. <<>> \in Dicts(NatPairs) /\ <<>> \in Dicts(Triples)
  <2>1. <<>> = [x \in DOMAIN <<>> |-> <<>>[x]] /\ DOMAIN <<>> = {}
    OBVIOUS
  <2> QED
    BY <2>1, DictIntro
<1> QED
  BY <1>1 DEF NothingDerived, Ledgers, Accs

(* The buckets of a derivation.                                            *)
LEMMA TimesFacts ==
  ASSUME NEW E, IsLog(E), NEW D, IsDemands(D)
  PROVE  /\ Len(TimesOf(E, D)) \in Nat
         /\ \A i \in 1 .. Len(TimesOf(E, D)) : TimesOf(E, D)[i] \in Nat
         /\ \A i \in 1 .. Len(TimesOf(E, D)) :
              TimesOf(E, D)[i] \in {x.time_bucket : x \in E \cup D}
         /\ \A x \in E \cup D : \E i \in 1 .. Len(TimesOf(E, D)) : x.time_bucket = TimesOf(E, D)[i]
         /\ \A i, j \in 1 .. Len(TimesOf(E, D)) : i < j => TimesOf(E, D)[i] < TimesOf(E, D)[j]
<1> DEFINE T == {x.time_bucket : x \in E \cup D}
           s == TimesOf(E, D)
<1>1. IsListing(s, T) /\ T \subseteq Nat /\ \A i, j \in 1 .. Len(s) : i < j => s[i] < s[j]
  BY TimesListed
<1>2. \A x \in E \cup D : x.time_bucket \in T
  OBVIOUS
<1> HIDE DEF T, s
<1>3. /\ Len(s) \in Nat
      /\ \A i \in 1 .. Len(s) : s[i] \in T
      /\ \A x \in T : \E i \in 1 .. Len(s) : s[i] = x
  BY <1>1, ListingIsSeq
<1>4. \A i \in 1 .. Len(s) : s[i] \in Nat
  BY <1>1, <1>3
<1>5. \A x \in E \cup D : \E i \in 1 .. Len(s) : x.time_bucket = s[i]
  BY <1>2, <1>3
<1> QED
  BY <1>1, <1>3, <1>4, <1>5 DEF T, s

(* The ledgers of a derivation, one after each bucket.                     *)
IsRun(g, E, D) ==
  /\ g \in [0 .. Len(TimesOf(E, D)) -> Ledgers]
  /\ g[0] = NothingDerived
  /\ \A i \in 1 .. Len(TimesOf(E, D)) :
       g[i] = CloseBucket(Served(g[i - 1], TimesOf(E, D)[i], E, D), TimesOf(E, D)[i])

(* A derivation is a run.                                                  *)
LEMMA DeriveRuns ==
  ASSUME NEW E, IsLog(E), NEW D, IsDemands(D),
         NEW m \in Nat, NEW key, KeyOf(key, m), DOMAIN key = E
  PROVE  \E g : IsRun(g, E, D) /\ Derive(E, key, D) = StateView(g[Len(TimesOf(E, D))])
<1> DEFINE times == TimesOf(E, D)
<1>1. Len(times) \in Nat /\ \A i \in 1 .. Len(times) : times[i] \in Nat
  BY TimesFacts
<1>2. \A a \in Ledgers : \A i \in 1 .. Len(times) :
        /\ DeriveBucket(a, times[i], E, key, D) = CloseBucket(Served(a, times[i], E, D), times[i])
        /\ DeriveBucket(a, times[i], E, key, D) \in Ledgers
  <2> HIDE DEF times
  <2> QED
    BY <1>1, BucketDerived
<1>3. PICK g \in [0 .. Len(times) -> Ledgers] :
           /\ g[0] = NothingDerived
           /\ \A i \in 1 .. Len(times) : g[i] = DeriveBucket(g[i - 1], times[i], E, key, D)
           /\ Derive(E, key, D) = StateView(g[Len(times)])
  BY <1>1, <1>2, NothingIsLedger, DeriveInOrder
<1> HIDE DEF times
<1>4. \A i \in 1 .. Len(times) : g[i - 1] \in Ledgers
  BY <1>1, <1>3
<1>5. \A i \in 1 .. Len(times) : g[i] = CloseBucket(Served(g[i - 1], times[i], E, D), times[i])
  BY <1>2, <1>3, <1>4
<1> QED
  BY <1>3, <1>5 DEF times, IsRun

(* Two runs over one log and its demands are the same.                     *)
LEMMA RunsAgree ==
  ASSUME NEW E, NEW D, Len(TimesOf(E, D)) \in Nat,
         NEW g, IsRun(g, E, D), NEW h, IsRun(h, E, D)
  PROVE  g[Len(TimesOf(E, D))] = h[Len(TimesOf(E, D))]
<1> DEFINE n == Len(TimesOf(E, D))
           Q == {i \in Nat : i <= n => g[i] = h[i]}
<1>1. n \in Nat
  OBVIOUS
<1>2. 0 \in Q
  BY DEF IsRun
<1>3. ASSUME NEW i \in Nat, i \in Q PROVE i + 1 \in Q
  <2> SUFFICES ASSUME i + 1 <= n PROVE g[i + 1] = h[i + 1]
    OBVIOUS
  <2>1. i + 1 \in 1 .. n /\ (i + 1) - 1 = i /\ i <= n
    BY <1>1
  <2> DEFINE t == TimesOf(E, D)[i + 1]
  <2>2. g[i + 1] = CloseBucket(Served(g[i], t, E, D), t)
    BY <2>1 DEF IsRun
  <2>3. h[i + 1] = CloseBucket(Served(h[i], t, E, D), t)
    BY <2>1 DEF IsRun
  <2> QED
    BY <1>3, <2>1, <2>2, <2>3
<1>4. \A i \in Nat : i \in Q
  <2> HIDE DEF Q
  <2> QED
    BY <1>2, <1>3, NatInductionOnSets
<1> QED
  BY <1>1, <1>4

(* The order of the events within a bucket does not matter.                *)
LEMMA DeriveIgnoresOrder ==
  ASSUME NEW E, IsLog(E), NEW D, IsDemands(D),
         NEW m \in Nat, NEW key, KeyOf(key, m), DOMAIN key = E,
         NEW m2 \in Nat, NEW key2, KeyOf(key2, m2), DOMAIN key2 = E
  PROVE  Derive(E, key, D) = Derive(E, key2, D)
<1>1. PICK g : IsRun(g, E, D) /\ Derive(E, key, D) = StateView(g[Len(TimesOf(E, D))])
  BY DeriveRuns
<1>2. PICK h : IsRun(h, E, D) /\ Derive(E, key2, D) = StateView(h[Len(TimesOf(E, D))])
  BY DeriveRuns
<1>3. g[Len(TimesOf(E, D))] = h[Len(TimesOf(E, D))]
  BY <1>1, <1>2, TimesFacts, RunsAgree
<1> QED
  BY <1>1, <1>2, <1>3

(* The processing order and the stored order tell events apart.            *)
LEMMA KeysOfLog ==
  ASSUME NEW E, IsLog(E), \A e, f \in E : e.creation_sequence = f.creation_sequence => e = f
  PROVE  /\ KeyOf([e \in E |-> EventKey(e)], 3)
         /\ KeyOf([e \in E |-> <<e.time_bucket, e.creation_sequence>>], 2)
<1>1. \A e \in E : e.time_bucket \in Nat /\ e.creation_sequence \in Nat /\ EVENT_PRIORITY[e.event_type] \in Int
  BY DEF IsLog, IsFlowEvent, EVENT_PRIORITY
<1>2. \A e \in E : EventKey(e) \in Tuples(3)
  BY <1>1 DEF EventKey, Tuples
<1>3. \A e \in E : <<e.time_bucket, e.creation_sequence>> \in Tuples(2)
  BY <1>1 DEF Tuples
<1>4. \A e, f \in E : EventKey(e) = EventKey(f) => e.creation_sequence = f.creation_sequence
  BY DEF EventKey
<1> QED
  BY <1>2, <1>3, <1>4 DEF IsLog, KeyOf

(* Any list of the members of a log, taken as its order, derives the state *)
(* that run_flow derives.                                                  *)
LEMMA ListDerives ==
  ASSUME NEW E, IsLog(E), NEW D, IsDemands(D), SequenceUnique(E),
         NEW list, IsListing(list, E)
  PROVE  /\ Range(list) = E
         /\ Derive(E, [e \in E |-> <<CHOOSE i \in DOMAIN list : list[i] = e>>], D) = run_flow(E, D)
<1> DEFINE Place(e) == CHOOSE i \in DOMAIN list : list[i] = e
           place == [e \in E |-> <<Place(e)>>]
           key == [e \in E |-> EventKey(e)]
<1>1. /\ DOMAIN list \subseteq Nat /\ \A i \in DOMAIN list : list[i] \in E
      /\ \A e \in E : \E i \in DOMAIN list : list[i] = e
  BY DEF IsListing
<1>2. Range(list) = E
  BY <1>1 DEF Range
<1>3. \A e \in E : Place(e) \in DOMAIN list /\ list[Place(e)] = e
  BY <1>1
<1> HIDE DEF Place
<1>4. \A e \in E : <<Place(e)>> \in Tuples(1)
  <2>1. \A e \in E : Place(e) \in Int
    BY <1>1, <1>3
  <2> QED
    BY <2>1 DEF Tuples
<1>5. \A e, f \in E : <<Place(e)>> = <<Place(f)>> => e = f
  <2>1. \A e, f \in E : <<Place(e)>> = <<Place(f)>> => Place(e) = Place(f)
    OBVIOUS
  <2> QED
    BY <1>3, <2>1
<1>6. KeyOf(place, 1) /\ DOMAIN place = E /\ 1 \in Nat
  BY <1>4, <1>5 DEF IsLog, KeyOf
<1>7. KeyOf(key, 3) /\ DOMAIN key = E /\ 3 \in Nat
  BY KeysOfLog DEF SequenceUnique
<1>8. run_flow(E, D) = Derive(E, key, D)
  BY Zenon DEF run_flow, With
<1> HIDE DEF place, key
<1>9. Derive(E, place, D) = Derive(E, key, D)
  BY <1>6, <1>7, DeriveIgnoresOrder
<1> QED
  BY <1>2, <1>8, <1>9 DEF place, Place

(* run_flow returns the view of a run.                                     *)
LEMMA RunOfFlow ==
  ASSUME NEW E, IsLog(E), NEW D, IsDemands(D),
         \A e, f \in E : e.creation_sequence = f.creation_sequence => e = f
  PROVE  \E g : IsRun(g, E, D) /\ run_flow(E, D) = StateView(g[Len(TimesOf(E, D))])
<1>1. run_flow(E, D) = Derive(E, [e \in E |-> EventKey(e)], D)
  BY Zenon DEF run_flow, With
<1> DEFINE key == [e \in E |-> EventKey(e)]
<1>2. DOMAIN key = E /\ KeyOf(key, 3) /\ 3 \in Nat
  BY KeysOfLog
<1> HIDE DEF key
<1>3. \E g : IsRun(g, E, D) /\ Derive(E, key, D) = StateView(g[Len(TimesOf(E, D))])
  BY <1>2, DeriveRuns
<1> QED
  BY <1>1, <1>3 DEF key

-----------------------------------------------------------------------------
(* The demands of one bucket.                                              *)

(* Induction over 0 .. n.                                                  *)
LEMMA IntervalInduction ==
  ASSUME NEW n \in Nat, NEW S, 0 \in S, \A i \in 1 .. n : i - 1 \in S => i \in S
  PROVE  \A i \in 0 .. n : i \in S
<1> DEFINE Q == {i \in Nat : i <= n => i \in S}
<1>1. 0 \in Q
  OBVIOUS
<1>2. ASSUME NEW i \in Nat, i \in Q PROVE i + 1 \in Q
  <2>1. i + 1 <= n => i + 1 \in 1 .. n /\ (i + 1) - 1 = i /\ i <= n
    OBVIOUS
  <2> QED
    BY <1>2, <2>1
<1>3. \A i \in Nat : i \in Q
  <2> HIDE DEF Q
  <2> QED
    BY <1>1, <1>2, NatInductionOnSets
<1> QED
  BY <1>3

DKey(d)   == <<d.market, d.product, d.time_bucket>>
DStock(d) == <<d.market, d.product>>

(* The parts of a demand.                                                  *)
LEMMA DemandType ==
  ASSUME NEW d, IsDemand(d)
  PROVE  /\ DKey(d) \in Triples /\ DStock(d) \in NatPairs
         /\ d.quantity \in Nat /\ d.quantity \in Int /\ d.time_bucket \in Nat
         /\ DKey(d)[1] = d.market /\ DKey(d)[2] = d.product /\ DKey(d)[3] = d.time_bucket
  BY DEF IsDemand, Triples, NatPairs, DKey, DStock

(* The ledgers between the demands of a bucket.                            *)
IsService(h, acc, t, E, D) ==
  /\ Len(OrdersOf(D, t)) \in Nat
  /\ \A i \in 1 .. Len(OrdersOf(D, t)) :
       OrdersOf(D, t)[i] \in D /\ IsDemand(OrdersOf(D, t)[i]) /\ OrdersOf(D, t)[i].time_bucket = t
  /\ \A d \in InBucket(D, t) : \E i \in 1 .. Len(OrdersOf(D, t)) : OrdersOf(D, t)[i] = d
  /\ \A i, j \in 1 .. Len(OrdersOf(D, t)) : OrdersOf(D, t)[i] = OrdersOf(D, t)[j] => i = j
  /\ h \in [0 .. Len(OrdersOf(D, t)) -> Ledgers]
  /\ h[0] = AfterEvents(acc, InBucket(E, t), InBucket(E, t))
  /\ \A i \in 1 .. Len(OrdersOf(D, t)) : h[i] = ServeDemand(h[i - 1], OrdersOf(D, t)[i])
  /\ Served(acc, t, E, D) = h[Len(OrdersOf(D, t))]

(* The list of the demands of a bucket.                                    *)
LEMMA OrdersFacts ==
  ASSUME NEW D, IsDemands(D), NEW t
  PROVE  /\ OrdersOf(D, t) \in Seq(D) /\ Len(OrdersOf(D, t)) \in Nat
         /\ \A i \in 1 .. Len(OrdersOf(D, t)) :
              OrdersOf(D, t)[i] \in D /\ IsDemand(OrdersOf(D, t)[i]) /\ OrdersOf(D, t)[i].time_bucket = t
         /\ \A d \in InBucket(D, t) : \E i \in 1 .. Len(OrdersOf(D, t)) : OrdersOf(D, t)[i] = d
         /\ \A i, j \in 1 .. Len(OrdersOf(D, t)) : OrdersOf(D, t)[i] = OrdersOf(D, t)[j] => i = j
<1> DEFINE list == OrdersOf(D, t)
           B == InBucket(D, t)
<1>1. IsListing(list, B)
  BY OrdersListed
<1>2. \A d \in B : d \in D /\ d.time_bucket = t
  BY DEF InBucket
<1>3. B \in SUBSET D
  BY <1>2
<1> HIDE DEF list, B
<1>4. /\ list \in Seq(B) /\ Len(list) \in Nat
      /\ \A i \in 1 .. Len(list) : list[i] \in B
      /\ \A x \in B : \E i \in 1 .. Len(list) : list[i] = x
      /\ \A i, j \in 1 .. Len(list) : list[i] = list[j] => i = j
  BY <1>1, ListingIsSeq
<1>5. list \in Seq(D)
  BY <1>3, <1>4, SeqMonotonic
<1>6. \A i \in 1 .. Len(list) : list[i] \in D /\ IsDemand(list[i]) /\ list[i].time_bucket = t
  BY <1>2, <1>4 DEF IsDemands
<1> QED
  BY <1>4, <1>5, <1>6 DEF list, B

(* The demands of a bucket are served, in any set of ledgers they stay in. *)
LEMMA BucketServed ==
  ASSUME NEW acc \in Ledgers, NEW E, IsLog(E), NEW D, IsDemands(D), NEW t,
         NEW A \in SUBSET Ledgers, AfterEvents(acc, InBucket(E, t), InBucket(E, t)) \in A,
         \A a \in A : \A d \in D : ServeDemand(a, d) \in A
  PROVE  \E h : IsService(h, acc, t, E, D) /\ h \in [0 .. Len(OrdersOf(D, t)) -> A]
<1> DEFINE list == OrdersOf(D, t)
           first == AfterEvents(acc, InBucket(E, t), InBucket(E, t))
<1>1. list \in Seq(D) /\ \A i \in 1 .. Len(list) : list[i] \in D
  BY OrdersFacts
<1> HIDE DEF list, first
<1>2. \A a \in A : \A i \in 1 .. Len(list) : ServeDemand(a, list[i]) \in A
  BY <1>1
<1>3. first \in A
  BY DEF first
<1>4. PICK h : IsServing(h, A, first, list)
  <2>1. list \in Seq(D)
    BY <1>1
  <2>2. first \in A
    BY <1>3
  <2> QED
    BY <1>2, <2>1, <2>2, ServeInOrder
<1>5. h \in [0 .. Len(list) -> A] /\ h \in [0 .. Len(list) -> Ledgers]
  BY <1>4 DEF IsServing
<1>6. Served(acc, t, E, D) = h[Len(list)]
  BY <1>4 DEF Served, first, list, IsServing
<1>7. IsService(h, acc, t, E, D)
  BY <1>4, <1>5, <1>6, OrdersFacts DEF IsService, IsServing, first, list
<1> QED
  BY <1>5, <1>7 DEF list

(* They are served in the set of all ledgers.                              *)
LEMMA ServiceExists ==
  ASSUME NEW acc \in Ledgers, NEW E, IsLog(E), NEW D, IsDemands(D), NEW t
  PROVE  \E h : IsService(h, acc, t, E, D)
<1>1. AfterEvents(acc, InBucket(E, t), InBucket(E, t)) \in Ledgers
  BY BucketIsLog, EventsKeepLedger
<1>2. \A a \in Ledgers : \A d \in D : ServeDemand(a, d) \in Ledgers
  BY ServeOne DEF IsDemands
<1> QED
  BY <1>1, <1>2, BucketServed

(* The demands of a bucket leave the keys, the inventory and the demands   *)
(* of other buckets as they are.                                           *)
LEMMA ServedKeys ==
  ASSUME NEW acc \in Ledgers, NEW E, IsLog(E), NEW D, IsDemands(D), NEW t
  PROVE  LET r == Served(acc, t, E, D)
             keys == {DKey(d) : d \in InBucket(D, t)}
         IN  /\ DOMAIN r.demand = DOMAIN acc.demand \cup keys
             /\ DOMAIN r.backlog = DOMAIN acc.backlog \cup keys
             /\ r.inventory = acc.inventory
             /\ r.supply = AfterEvents(acc, InBucket(E, t), InBucket(E, t)).supply
             /\ \A k : k \notin keys => Get(r.demand, k) = Get(acc.demand, k)
                                     /\ Get(r.backlog, k) = Get(acc.backlog, k)
             /\ \A d \in InBucket(D, t) : DStock(d) \in r.touched
             /\ AfterEvents(acc, InBucket(E, t), InBucket(E, t)).touched \subseteq r.touched
<1> DEFINE list == OrdersOf(D, t)
           n == Len(list)
           K(i) == {DKey(list[j]) : j \in 1 .. i}
           e0 == AfterEvents(acc, InBucket(E, t), InBucket(E, t))
<1>1. PICK h : IsService(h, acc, t, E, D)
  BY ServiceExists
<1>2. /\ n \in Nat
      /\ \A i \in 1 .. n : list[i] \in D /\ IsDemand(list[i]) /\ list[i] \in InBucket(D, t)
      /\ \A d \in InBucket(D, t) : \E i \in 1 .. n : list[i] = d
      /\ h \in [0 .. n -> Ledgers]
      /\ h[0] = e0
      /\ \A i \in 1 .. n : h[i] = ServeDemand(h[i - 1], list[i])
      /\ Served(acc, t, E, D) = h[n]
  BY <1>1 DEF IsService, InBucket
<1>3. /\ e0.demand = acc.demand /\ e0.backlog = acc.backlog /\ e0.inventory = acc.inventory
  BY DEF AfterEvents
<1> HIDE DEF n, list, e0
<1>4. ASSUME NEW i \in 1 .. n
      PROVE /\ DOMAIN h[i].demand = DOMAIN h[i - 1].demand \cup {DKey(list[i])}
            /\ DOMAIN h[i].backlog = DOMAIN h[i - 1].backlog \cup {DKey(list[i])}
            /\ h[i].inventory = h[i - 1].inventory
            /\ h[i].supply = h[i - 1].supply
            /\ \A k : k # DKey(list[i]) => Get(h[i].demand, k) = Get(h[i - 1].demand, k)
                                        /\ Get(h[i].backlog, k) = Get(h[i - 1].backlog, k)
            /\ h[i].touched = h[i - 1].touched \cup {DStock(list[i])}
  <2> DEFINE a == h[i - 1]
             d == list[i]
             r == ServeDemand(a, d)
  <2>1. a \in Ledgers /\ IsDemand(d) /\ h[i] = r
    BY <1>2
  <2> HIDE DEF a, d, r
  <2>2. /\ r.demand  = Plus(a.demand, DKey(d), d.quantity)
        /\ r.backlog = Put(a.backlog, DKey(d), d.quantity - Sold(a, d))
        /\ r.touched = a.touched \cup {DStock(d)}
        /\ r.supply = a.supply /\ r.inventory = a.inventory
    BY <2>1, ServeOne DEF DKey, DStock, r
  <2> DEFINE left == d.quantity - Sold(a, d)
  <2>3. r.demand = Plus(a.demand, DKey(d), d.quantity) /\ r.backlog = Put(a.backlog, DKey(d), left)
    BY <2>2
  <2> HIDE DEF left
  <2> DEFINE f == Plus(a.demand, DKey(d), d.quantity)
             b == Put(a.backlog, DKey(d), left)
  <2>4. /\ DOMAIN f = DOMAIN a.demand \cup {DKey(d)}
        /\ DOMAIN b = DOMAIN a.backlog \cup {DKey(d)}
    BY PutDomain
  <2>5. \A k : k # DKey(d) => Get(f, k) = Get(a.demand, k) /\ Get(b, k) = Get(a.backlog, k)
    <3>1. \A k : Get(f, k) = IF k = DKey(d) THEN Get(a.demand, DKey(d)) + d.quantity ELSE Get(a.demand, k)
      BY PlusGet
    <3>2. \A k : Get(b, k) = IF k = DKey(d) THEN left ELSE Get(a.backlog, k)
      BY PutGet
    <3> QED
      BY <3>1, <3>2
  <2> QED
    BY <2>1, <2>2, <2>3, <2>4, <2>5 DEF a, d
<1> DEFINE Q == {i \in 0 .. n :
        /\ DOMAIN h[i].demand = DOMAIN acc.demand \cup K(i)
        /\ DOMAIN h[i].backlog = DOMAIN acc.backlog \cup K(i)
        /\ h[i].inventory = acc.inventory
        /\ h[i].supply = e0.supply
        /\ \A k : k \notin K(i) => Get(h[i].demand, k) = Get(acc.demand, k)
                                /\ Get(h[i].backlog, k) = Get(acc.backlog, k)
        /\ \A j \in 1 .. i : DStock(list[j]) \in h[i].touched
        /\ e0.touched \subseteq h[i].touched}
<1>5. 0 \in Q
  BY <1>2, <1>3
<1>6. ASSUME NEW i \in 1 .. n, i - 1 \in Q PROVE i \in Q
  <2>1. K(i) = K(i - 1) \cup {DKey(list[i])}
    BY <1>2
  <2>2. \A j \in 1 .. i : j = i \/ j \in 1 .. i - 1
    BY <1>2
  <2> HIDE DEF K
  <2>3. /\ DOMAIN h[i - 1].demand = DOMAIN acc.demand \cup K(i - 1)
        /\ DOMAIN h[i - 1].backlog = DOMAIN acc.backlog \cup K(i - 1)
        /\ h[i - 1].inventory = acc.inventory
        /\ h[i - 1].supply = e0.supply
        /\ \A k : k \notin K(i - 1) => Get(h[i - 1].demand, k) = Get(acc.demand, k)
                                /\ Get(h[i - 1].backlog, k) = Get(acc.backlog, k)
        /\ \A j \in 1 .. i - 1 : DStock(list[j]) \in h[i - 1].touched
        /\ e0.touched \subseteq h[i - 1].touched
    BY <1>6
  <2>4. /\ DOMAIN h[i].demand = DOMAIN acc.demand \cup K(i)
        /\ DOMAIN h[i].backlog = DOMAIN acc.backlog \cup K(i)
        /\ h[i].inventory = acc.inventory
        /\ h[i].supply = e0.supply
        /\ \A k : k \notin K(i) => Get(h[i].demand, k) = Get(acc.demand, k)
                                /\ Get(h[i].backlog, k) = Get(acc.backlog, k)
    BY <1>4, <2>1, <2>3
  <2>5. /\ \A j \in 1 .. i : DStock(list[j]) \in h[i].touched
        /\ e0.touched \subseteq h[i].touched
    BY <1>4, <2>2, <2>3
  <2>6. i \in 0 .. n
    BY <1>2
  <2> QED
    BY <2>4, <2>5, <2>6
<1>7. n \in Q
  <2> HIDE DEF Q
  <2>1. n \in Nat /\ n \in 0 .. n
    BY <1>2
  <2>2. \A i \in 1 .. n : i - 1 \in Q => i \in Q
    BY <1>6
  <2>3. \A i \in 0 .. n : i \in Q
    BY <1>5, <2>1, <2>2, IntervalInduction
  <2> QED
    BY <2>1, <2>3
<1>8. K(n) = {DKey(d) : d \in InBucket(D, t)}
  BY <1>2
<1> HIDE DEF K
<1>9. \A d \in InBucket(D, t) : DStock(d) \in h[n].touched
  BY <1>2, <1>7
<1> QED
  BY <1>2, <1>7, <1>8, <1>9 DEF e0

-----------------------------------------------------------------------------
(* What a run owes.                                                        *)

(* The values after serving one demand.                                    *)
LEMMA ServeValues ==
  ASSUME NEW a \in Ledgers, NEW d, IsDemand(d)
  PROVE  LET c == Get(a.current, DStock(d))
             r == ServeDemand(a, d)
         IN  /\ r \in Ledgers
             /\ c \in Int
             /\ Sold(a, d) = IF c <= 0 THEN 0 ELSE IF c <= d.quantity THEN c ELSE d.quantity
             /\ Get(r.current, DStock(d)) = c - Sold(a, d)
             /\ Get(r.demand, DKey(d)) = Get(a.demand, DKey(d)) + d.quantity
             /\ Get(r.backlog, DKey(d)) = d.quantity - Sold(a, d)
             /\ \A x : x # DStock(d) => Get(r.current, x) = Get(a.current, x)
             /\ \A x : x # DKey(d) => /\ Get(r.demand, x) = Get(a.demand, x)
                                      /\ Get(r.backlog, x) = Get(a.backlog, x)
<1> DEFINE c == Get(a.current, DStock(d))
           r == ServeDemand(a, d)
           s == Sold(a, d)
           q == d.quantity
<1>1. c \in Int /\ q \in Nat
  BY LedgerType, DictType, DemandType
<1>2. s = IF c <= 0 THEN 0 ELSE IF c <= q THEN c ELSE q
  <2>1. s = Min({Max({c, 0}), q})
    BY DEF Sold, DStock
  <2> HIDE DEF c, s, q
  <2>2. Max({c, 0}) = IF c >= 0 THEN c ELSE 0
    BY <1>1, MaxMinOfTwo
  <2>3. Max({c, 0}) \in Int /\ q \in Int
    BY <1>1, <2>2
  <2>4. s = IF Max({c, 0}) <= q THEN Max({c, 0}) ELSE q
    BY <2>1, <2>3, MaxMinOfTwo
  <2> QED
    BY <1>1, <2>2, <2>4
<1> HIDE DEF s, q, c, r
<1>3. /\ r \in Ledgers
      /\ r.current = Plus(a.current, DStock(d), - s)
      /\ r.demand  = Plus(a.demand, DKey(d), q)
      /\ r.backlog = Put(a.backlog, DKey(d), q - s)
  BY ServeOne DEF DStock, DKey, s, q, r
<1>4. s \in Int
  BY <1>1, <1>2
<1> DEFINE left == q - s
           minus == - s
<1>5. minus \in Int /\ c + minus = c - s
  BY <1>1, <1>4
<1> HIDE DEF left, minus
<1>6. \A x : Get(Plus(a.current, DStock(d), minus), x)
               = IF x = DStock(d) THEN c + minus ELSE Get(a.current, x)
  BY PlusGet DEF c
<1>7. \A x : Get(Plus(a.demand, DKey(d), q), x)
               = IF x = DKey(d) THEN Get(a.demand, DKey(d)) + q ELSE Get(a.demand, x)
  BY PlusGet
<1>8. \A x : Get(Put(a.backlog, DKey(d), left), x) = IF x = DKey(d) THEN left ELSE Get(a.backlog, x)
  BY PutGet
<1>9. /\ r.current = Plus(a.current, DStock(d), minus)
      /\ r.backlog = Put(a.backlog, DKey(d), left)
  BY <1>3 DEF left, minus
<1>10. \A x : Get(r.current, x) = IF x = DStock(d) THEN c - s ELSE Get(a.current, x)
  BY <1>5, <1>6, <1>9
<1>11. \A x : Get(r.backlog, x) = IF x = DKey(d) THEN q - s ELSE Get(a.backlog, x)
  BY <1>8, <1>9 DEF left
<1>12. \A x : Get(r.demand, x) = IF x = DKey(d) THEN Get(a.demand, DKey(d)) + q ELSE Get(a.demand, x)
  BY <1>3, <1>7
<1> QED
  BY <1>1, <1>2, <1>3, <1>10, <1>11, <1>12 DEF c, r, s, q

(* What serving one demand leaves as it is.                                *)
LEMMA ServeOthers ==
  ASSUME NEW a \in Ledgers, NEW d, IsDemand(d), NEW x
  PROVE  /\ x # DStock(d) => Get(ServeDemand(a, d).current, x) = Get(a.current, x)
         /\ x # DKey(d) => /\ Get(ServeDemand(a, d).demand, x) = Get(a.demand, x)
                           /\ Get(ServeDemand(a, d).backlog, x) = Get(a.backlog, x)
BY ServeValues

OneDemandEach(D) == \A d, e \in D : DKey(d) = DKey(e) => d = e

(* What was asked, what is owed, and what is left where something is owed. *)
Owed(r, d) ==
  /\ Get(r.demand, DKey(d)) = d.quantity
  /\ Get(r.backlog, DKey(d)) \in 0 .. d.quantity
  /\ Get(r.backlog, DKey(d)) > 0 => Get(r.current, DStock(d)) <= 0

(* After its bucket a demand that is alone with its key is told.           *)
LEMMA ServedOwed ==
  ASSUME NEW acc \in Ledgers, NEW E, IsLog(E), NEW D, IsDemands(D), NEW t,
         OneDemandEach(D), \A k \in DOMAIN acc.demand : k[3] # t
  PROVE  \A d \in InBucket(D, t) : Owed(Served(acc, t, E, D), d)
<1> DEFINE list == OrdersOf(D, t)
           n == Len(list)
           e0 == AfterEvents(acc, InBucket(E, t), InBucket(E, t))
<1>1. PICK h : IsService(h, acc, t, E, D)
  BY ServiceExists
<1>2. /\ n \in Nat
      /\ \A i \in 1 .. n : list[i] \in D /\ IsDemand(list[i]) /\ list[i].time_bucket = t
      /\ \A d \in InBucket(D, t) : \E i \in 1 .. n : list[i] = d
      /\ \A i, j \in 1 .. n : list[i] = list[j] => i = j
      /\ h \in [0 .. n -> Ledgers]
      /\ h[0] = e0
      /\ \A i \in 1 .. n : h[i] = ServeDemand(h[i - 1], list[i])
      /\ Served(acc, t, E, D) = h[n]
  BY <1>1 DEF IsService
<1>3. e0.demand = acc.demand
  BY DEF AfterEvents
<1> HIDE DEF n, list, e0
<1>4. \A i, j \in 1 .. n : i # j => DKey(list[i]) # DKey(list[j]) /\ DStock(list[i]) # DStock(list[j])
  <2> SUFFICES ASSUME NEW i \in 1 .. n, NEW j \in 1 .. n, i # j
               PROVE  DKey(list[i]) # DKey(list[j]) /\ DStock(list[i]) # DStock(list[j])
    OBVIOUS
  <2>1. DKey(list[i]) # DKey(list[j])
    BY <1>2 DEF OneDemandEach
  <2> QED
    BY <1>2, <2>1 DEF DKey, DStock
<1> DEFINE Q == {i \in 0 .. n :
             /\ \A j \in 1 .. n : j <= i => Owed(h[i], list[j])
             /\ \A j \in 1 .. n : j > i => Get(h[i].demand, DKey(list[j])) = 0}
<1>5. 0 \in Q
  <2> SUFFICES ASSUME NEW j \in 1 .. n PROVE Get(h[0].demand, DKey(list[j])) = 0
    BY <1>2
  <2>1. DKey(list[j])[3] = t
    BY <1>2, DemandType
  <2> QED
    BY <1>2, <1>3, <2>1 DEF Get
<1>6. ASSUME NEW i \in 1 .. n, i - 1 \in Q PROVE i \in Q
  <2> DEFINE a == h[i - 1]
             d == list[i]
             r == h[i]
  <2>1. /\ a \in Ledgers /\ IsDemand(d) /\ r = ServeDemand(a, d)
        /\ i \in 0 .. n
    BY <1>2
  <2>2. \A j \in 1 .. n : j <= i - 1 => Owed(a, list[j])
    BY <1>6
  <2>3. \A j \in 1 .. n : j > i - 1 => Get(a.demand, DKey(list[j])) = 0
    BY <1>6
  <2>4. Get(a.demand, DKey(d)) = 0
    BY <1>2, <2>3
  <2> HIDE DEF a, r, d, Q
  <2>5. Owed(r, d)
    <3> DEFINE c == Get(a.current, DStock(d))
    <3>1. /\ c \in Int
          /\ Sold(a, d) = IF c <= 0 THEN 0 ELSE IF c <= d.quantity THEN c ELSE d.quantity
          /\ Get(r.current, DStock(d)) = c - Sold(a, d)
          /\ Get(r.demand, DKey(d)) = 0 + d.quantity
          /\ Get(r.backlog, DKey(d)) = d.quantity - Sold(a, d)
      BY <2>1, <2>4, ServeValues
    <3>2. d.quantity \in Nat
      BY <2>1, DemandType
    <3> HIDE DEF c
    <3> QED
      BY <3>1, <3>2 DEF Owed
  <2> DEFINE v == ServeDemand(a, d)
  <2>6a. /\ \A x : x # DStock(d) => Get(v.current, x) = Get(a.current, x)
         /\ \A x : x # DKey(d) => /\ Get(v.demand, x) = Get(a.demand, x)
                                  /\ Get(v.backlog, x) = Get(a.backlog, x)
    BY <2>1, ServeOthers
  <2>6. /\ \A x : x # DStock(d) => Get(r.current, x) = Get(a.current, x)
        /\ \A x : x # DKey(d) => /\ Get(r.demand, x) = Get(a.demand, x)
                                 /\ Get(r.backlog, x) = Get(a.backlog, x)
    BY <2>1, <2>6a
  <2>7. ASSUME NEW j \in 1 .. n, j <= i PROVE Owed(r, list[j])
    <3>1. CASE j = i
      BY <2>5, <3>1 DEF d
    <3>2. CASE j # i
      <4>1. Owed(a, list[j])
        BY <1>2, <2>2, <2>7, <3>2
      <4>2. DKey(list[j]) # DKey(d) /\ DStock(list[j]) # DStock(d)
        BY <1>4, <3>2 DEF d
      <4> QED
        BY <2>6, <4>1, <4>2 DEF Owed
    <3> QED
      BY <3>1, <3>2
  <2>8. ASSUME NEW j \in 1 .. n, j > i PROVE Get(r.demand, DKey(list[j])) = 0
    <3>1. j # i /\ j > i - 1
      BY <1>2, <2>8
    <3>2. DKey(list[j]) # DKey(d)
      BY <1>4, <3>1 DEF d
    <3> QED
      BY <2>3, <2>6, <3>1, <3>2
  <2> QED
    BY <2>1, <2>7, <2>8 DEF Q, r
<1>7. n \in Q
  <2> HIDE DEF Q
  <2>1. n \in Nat /\ n \in 0 .. n
    BY <1>2
  <2>2. \A i \in 1 .. n : i - 1 \in Q => i \in Q
    BY <1>6
  <2>3. \A i \in 0 .. n : i \in Q
    BY <1>5, <2>1, <2>2, IntervalInduction
  <2> QED
    BY <2>1, <2>3
<1> QED
  BY <1>2, <1>7

-----------------------------------------------------------------------------
(* The ledgers of a run.                                                   *)

BucketsUpTo(E, D, i) == {TimesOf(E, D)[j] : j \in 1 .. i}

AskedBy(E, D, i) == {d \in D : d.time_bucket \in BucketsUpTo(E, D, i)}

(* One bucket of a run.                                                    *)
LEMMA RunStep ==
  ASSUME NEW E, IsLog(E), NEW D, IsDemands(D), NEW g, IsRun(g, E, D),
         NEW i \in 1 .. Len(TimesOf(E, D))
  PROVE  /\ Len(TimesOf(E, D)) \in Nat
         /\ TimesOf(E, D)[i] \in Nat
         /\ i \in 0 .. Len(TimesOf(E, D)) /\ i - 1 \in 0 .. Len(TimesOf(E, D))
         /\ g[i - 1] \in Ledgers /\ g[i] \in Ledgers
         /\ Served(g[i - 1], TimesOf(E, D)[i], E, D) \in Ledgers
         /\ g[i] = CloseBucket(Served(g[i - 1], TimesOf(E, D)[i], E, D), TimesOf(E, D)[i])
         /\ TimesOf(E, D)[i] \notin BucketsUpTo(E, D, i - 1)
         /\ BucketsUpTo(E, D, i) = BucketsUpTo(E, D, i - 1) \cup {TimesOf(E, D)[i]}
         /\ AskedBy(E, D, i) = AskedBy(E, D, i - 1) \cup InBucket(D, TimesOf(E, D)[i])
<1> DEFINE times == TimesOf(E, D)
           n == Len(times)
<1>1. /\ n \in Nat
      /\ \A j \in 1 .. n : times[j] \in Nat
      /\ \A j, k \in 1 .. n : j < k => times[j] < times[k]
  BY TimesFacts
<1>2. /\ g \in [0 .. n -> Ledgers]
      /\ g[i] = CloseBucket(Served(g[i - 1], times[i], E, D), times[i])
  BY DEF IsRun
<1> HIDE DEF times, n
<1>3. i \in 1 .. n
  BY DEF n, times
<1>4. i \in 0 .. n /\ i - 1 \in 0 .. n /\ g[i - 1] \in Ledgers /\ g[i] \in Ledgers
  BY <1>1, <1>2, <1>3
<1>5. \A j \in 1 .. i - 1 : times[j] # times[i]
  BY <1>1, <1>3
<1>6. 1 .. i = 1 .. i - 1 \cup {i}
  BY <1>1, <1>3
<1>7. BucketsUpTo(E, D, i) = BucketsUpTo(E, D, i - 1) \cup {times[i]}
  BY <1>6 DEF BucketsUpTo, times
<1>8. times[i] \notin BucketsUpTo(E, D, i - 1)
  BY <1>5 DEF BucketsUpTo, times
<1>9. AskedBy(E, D, i) = AskedBy(E, D, i - 1) \cup InBucket(D, times[i])
  BY <1>7 DEF AskedBy, InBucket
<1>10. times[i] \in Nat
  BY <1>1, <1>3
<1>11. Served(g[i - 1], times[i], E, D) \in Ledgers
  <2>1. PICK h : IsService(h, g[i - 1], times[i], E, D)
    BY <1>4, ServiceExists
  <2>2. Len(OrdersOf(D, times[i])) \in 0 .. Len(OrdersOf(D, times[i]))
    BY <2>1 DEF IsService
  <2> QED
    BY <2>1, <2>2 DEF IsService
<1> QED
  BY <1>1, <1>2, <1>4, <1>7, <1>8, <1>9, <1>10, <1>11 DEF n, times

(* The keys a run has met.                                                 *)
LEMMA RunKeys ==
  ASSUME NEW E, IsLog(E), NEW D, IsDemands(D), NEW g, IsRun(g, E, D)
  PROVE  \A i \in 0 .. Len(TimesOf(E, D)) :
           /\ DOMAIN g[i].demand = {DKey(d) : d \in AskedBy(E, D, i)}
           /\ DOMAIN g[i].backlog = {DKey(d) : d \in AskedBy(E, D, i)}
           /\ \A k \in DOMAIN g[i].inventory : k[3] \in BucketsUpTo(E, D, i)
<1> DEFINE n == Len(TimesOf(E, D))
           Q == {i \in 0 .. n :
                   /\ DOMAIN g[i].demand = {DKey(d) : d \in AskedBy(E, D, i)}
                   /\ DOMAIN g[i].backlog = {DKey(d) : d \in AskedBy(E, D, i)}
                   /\ \A k \in DOMAIN g[i].inventory : k[3] \in BucketsUpTo(E, D, i)}
<1>1. n \in Nat
  BY TimesFacts
<1>2. 0 \in Q
  <2>1. AskedBy(E, D, 0) = {}
    BY DEF AskedBy, BucketsUpTo
  <2>2. g[0] = NothingDerived
    BY DEF IsRun
  <2>3. DOMAIN NothingDerived.demand = {} /\ DOMAIN NothingDerived.backlog = {} /\ DOMAIN NothingDerived.inventory = {}
    BY DEF NothingDerived
  <2> QED
    BY <1>1, <2>1, <2>2, <2>3
<1>3. ASSUME NEW i \in 1 .. n, i - 1 \in Q PROVE i \in Q
  <2> DEFINE t == TimesOf(E, D)[i]
             a == g[i - 1]
             r == Served(a, t, E, D)
  <2>1. /\ t \in Nat /\ a \in Ledgers /\ r \in Ledgers /\ g[i] = CloseBucket(r, t)
        /\ i \in 0 .. n
        /\ BucketsUpTo(E, D, i) = BucketsUpTo(E, D, i - 1) \cup {t}
        /\ AskedBy(E, D, i) = AskedBy(E, D, i - 1) \cup InBucket(D, t)
    BY RunStep
  <2>2. /\ DOMAIN a.demand = {DKey(d) : d \in AskedBy(E, D, i - 1)}
        /\ DOMAIN a.backlog = {DKey(d) : d \in AskedBy(E, D, i - 1)}
        /\ \A k \in DOMAIN a.inventory : k[3] \in BucketsUpTo(E, D, i - 1)
    BY <1>3, SMTT(30)
  <2> HIDE DEF a, t, Q
  <2>3. /\ DOMAIN r.demand = DOMAIN a.demand \cup {DKey(d) : d \in InBucket(D, t)}
        /\ DOMAIN r.backlog = DOMAIN a.backlog \cup {DKey(d) : d \in InBucket(D, t)}
        /\ r.inventory = a.inventory
    BY <2>1, ServedKeys
  <2> HIDE DEF r
  <2>4. /\ g[i].demand = r.demand /\ g[i].backlog = r.backlog
        /\ DOMAIN g[i].inventory = DOMAIN r.inventory \cup {<<s[1], s[2], t>> : s \in r.touched}
    BY <2>1, CloseOne, SMTT(30)
  <2>5. {DKey(d) : d \in AskedBy(E, D, i)}
          = {DKey(d) : d \in AskedBy(E, D, i - 1)} \cup {DKey(d) : d \in InBucket(D, t)}
    BY <2>1
  <2>6. \A k \in DOMAIN g[i].inventory : k[3] \in BucketsUpTo(E, D, i)
    BY <2>1, <2>2, <2>3, <2>4
  <2>7. /\ DOMAIN g[i].demand = {DKey(d) : d \in AskedBy(E, D, i)}
        /\ DOMAIN g[i].backlog = {DKey(d) : d \in AskedBy(E, D, i)}
    BY <2>2, <2>3, <2>4, <2>5
  <2> QED
    BY <2>1, <2>6, <2>7 DEF Q
<1>4. \A i \in 0 .. n : i \in Q
  <2> HIDE DEF Q
  <2> QED
    BY <1>1, <1>2, <1>3, IntervalInduction
<1> QED
  BY <1>4

(* What a run owes, it owes where nothing is left.                         *)
LEMMA RunOwes ==
  ASSUME NEW E, IsLog(E), NEW D, IsDemands(D), OneDemandEach(D), NEW g, IsRun(g, E, D)
  PROVE  \A i \in 0 .. Len(TimesOf(E, D)) : \A d \in AskedBy(E, D, i) :
           /\ Get(g[i].demand, DKey(d)) = d.quantity
           /\ Get(g[i].backlog, DKey(d)) \in 0 .. d.quantity
           /\ DKey(d) \in DOMAIN g[i].inventory
           /\ Get(g[i].backlog, DKey(d)) > 0 => g[i].inventory[DKey(d)] <= 0
<1> DEFINE n == Len(TimesOf(E, D))
           Told(a, d) == /\ Get(a.demand, DKey(d)) = d.quantity
                         /\ Get(a.backlog, DKey(d)) \in 0 .. d.quantity
                         /\ DKey(d) \in DOMAIN a.inventory
                         /\ Get(a.backlog, DKey(d)) > 0 => a.inventory[DKey(d)] <= 0
           Q == {i \in 0 .. n : \A d \in AskedBy(E, D, i) : Told(g[i], d)}
<1>1. n \in Nat
  BY TimesFacts
<1>2. 0 \in Q
  BY <1>1 DEF AskedBy, BucketsUpTo
<1>3. ASSUME NEW i \in 1 .. n, i - 1 \in Q PROVE i \in Q
  <2> DEFINE t == TimesOf(E, D)[i]
             a == g[i - 1]
             r == Served(a, t, E, D)
             b == g[i]
             closed == {<<s[1], s[2], t>> : s \in r.touched}
  <2>1. /\ t \in Nat /\ a \in Ledgers /\ r \in Ledgers /\ b = CloseBucket(r, t)
        /\ i \in 0 .. n /\ i - 1 \in 0 .. n
        /\ t \notin BucketsUpTo(E, D, i - 1)
        /\ AskedBy(E, D, i) = AskedBy(E, D, i - 1) \cup InBucket(D, t)
    BY RunStep
  <2>2. \A d \in AskedBy(E, D, i - 1) : Told(a, d)
    BY <1>3
  <2>3. \A k \in DOMAIN a.demand : \E d \in AskedBy(E, D, i - 1) : k = DKey(d)
    BY <2>1, RunKeys
  <2> HIDE DEF a, t, b, Q, Told
  <2>4. \A d \in AskedBy(E, D, i - 1) : DKey(d)[3] # t /\ d \in D
    BY <2>1, DemandType DEF AskedBy, IsDemands
  <2>5. \A d \in InBucket(D, t) : Owed(r, d)
    BY <2>1, <2>3, <2>4, ServedOwed
  <2>6. \A d \in InBucket(D, t) : d \in D /\ DKey(d)[3] = t /\ DStock(d) = <<DKey(d)[1], DKey(d)[2]>>
                                  /\ DKey(d) = <<DStock(d)[1], DStock(d)[2], t>>
    BY DEF InBucket, DKey, DStock
  <2>7. \A d \in AskedBy(E, D, i - 1) : DKey(d) \notin {DKey(e) : e \in InBucket(D, t)}
    BY <2>4, <2>6
  <2>8. /\ r.inventory = a.inventory
        /\ \A k : k \notin {DKey(d) : d \in InBucket(D, t)} => Get(r.demand, k) = Get(a.demand, k)
                                     /\ Get(r.backlog, k) = Get(a.backlog, k)
        /\ \A d \in InBucket(D, t) : DStock(d) \in r.touched
    BY <2>1, ServedKeys
  <2> HIDE DEF r
  <2> DEFINE v == CloseBucket(r, t)
  <2>9a. /\ v.demand = r.demand /\ v.backlog = r.backlog /\ v.current = r.current
         /\ DOMAIN v.inventory = DOMAIN r.inventory \cup closed
         /\ \A k \in DOMAIN v.inventory : v.inventory[k] = IF k \in closed THEN r.current[<<k[1], k[2]>>]
                                                           ELSE r.inventory[k]
    BY <2>1, CloseOne
  <2>9. /\ b.demand = r.demand /\ b.backlog = r.backlog /\ b.current = r.current
        /\ DOMAIN b.inventory = DOMAIN r.inventory \cup closed
        /\ \A k \in DOMAIN b.inventory : b.inventory[k] = IF k \in closed THEN r.current[<<k[1], k[2]>>]
                                                          ELSE r.inventory[k]
    <3> HIDE DEF closed
    <3> QED
      BY <2>1, <2>9a
  <2>10. \A k \in closed : k[3] = t
    OBVIOUS
  <2>11. ASSUME NEW d \in AskedBy(E, D, i - 1) PROVE Told(b, d)
    <3>1. Told(a, d) /\ DKey(d)[3] # t /\ DKey(d) \notin {DKey(e) : e \in InBucket(D, t)}
      BY <2>2, <2>4, <2>7
    <3>2. DKey(d) \notin closed
      BY <2>10, <3>1
    <3>3. Get(b.demand, DKey(d)) = Get(a.demand, DKey(d)) /\ Get(b.backlog, DKey(d)) = Get(a.backlog, DKey(d))
      BY <2>8, <2>9, <3>1
    <3>4. DKey(d) \in DOMAIN a.inventory
      BY <3>1 DEF Told
    <3> HIDE DEF closed
    <3>5. DKey(d) \in DOMAIN b.inventory /\ b.inventory[DKey(d)] = a.inventory[DKey(d)]
      BY <2>8, <2>9, <3>2, <3>4
    <3> QED
      BY <3>1, <3>3, <3>5 DEF Told
  <2>12. ASSUME NEW d \in InBucket(D, t) PROVE Told(b, d)
    <3>1. DStock(d) \in r.touched /\ DKey(d) = <<DStock(d)[1], DStock(d)[2], t>>
      BY <2>6, <2>8
    <3>2. DKey(d) \in closed
      BY <3>1
    <3>3. DStock(d) \in DOMAIN r.current
      BY <2>1, <3>1, LedgerType
    <3> HIDE DEF closed
    <3>4. DKey(d) \in DOMAIN b.inventory /\ b.inventory[DKey(d)] = r.current[DStock(d)]
      BY <2>6, <2>9, <3>2
    <3>5. r.current[DStock(d)] = Get(r.current, DStock(d))
      BY <3>3 DEF Get
    <3> QED
      BY <2>5, <2>9, <3>4, <3>5 DEF Told, Owed
  <2> QED
    BY <2>1, <2>11, <2>12 DEF Q, b
<1>4. \A i \in 0 .. n : i \in Q
  <2> HIDE DEF Q
  <2> QED
    BY <1>1, <1>2, <1>3, IntervalInduction
<1> QED
  BY <1>4

-----------------------------------------------------------------------------
(* Stocks of a run.                                                        *)

(* What the events of a set do to one stock.                               *)
EventsAt(B, k) == {e \in B : EventNode(e) # NoNode /\ StockOf(e) = k}

NetMove(B, k) == SumFunctionOnSet(MovesOf(B), EventsAt(B, k))

(* A stock after the events of a bucket.                                   *)
LEMMA CurrentAfter ==
  ASSUME NEW acc \in Ledgers, NEW B, IsLog(B), NEW k
  PROVE  /\ NetMove(B, k) \in Int
         /\ Get(acc.current, k) \in Int
         /\ Get(AfterEvents(acc, B, B).current, k) = Get(acc.current, k) + NetMove(B, k)
<1>1. Group(Located(B), StocksOf(B), k) = EventsAt(B, k)
  BY DEF Located, StocksOf, EventsAt, Group
<1>2. acc.current \in Dicts(NatPairs) /\ Located(B) \in SUBSET B
  BY LedgerType DEF Located
<1>3. /\ SumFunctionOnSet(MovesOf(B), Group(Located(B), StocksOf(B), k)) \in Int
      /\ Get(Added(acc.current, StocksOf(B), MovesOf(B), Located(B)), k)
           = Get(acc.current, k) + SumFunctionOnSet(MovesOf(B), Group(Located(B), StocksOf(B), k))
  BY <1>2, LogType, AddedGet
<1>4. AfterEvents(acc, B, B).current = Added(acc.current, StocksOf(B), MovesOf(B), Located(B))
  BY DEF AfterEvents
<1>5. Get(acc.current, k) \in Int
  BY <1>2, DictType
<1> QED
  BY <1>1, <1>3, <1>4, <1>5 DEF NetMove

(* No bucket takes more from a stock than it brings.                       *)
NoNetLoss(E) == \A t \in Nat : \A k : NetMove(InBucket(E, t), k) >= 0

NotBelowZero(a) ==
  /\ \A k : Get(a.current, k) >= 0
  /\ \A k \in DOMAIN a.inventory : a.inventory[k] >= 0

(* Ledgers with no stock below zero.                                       *)
NonNeg == {x \in Ledgers : \A k : Get(x.current, k) >= 0}

(* Events with no net loss keep stocks from falling below zero.            *)
LEMMA EventsKeepNonNeg ==
  ASSUME NEW a \in NonNeg, NEW B, IsLog(B), \A k : NetMove(B, k) >= 0
  PROVE  AfterEvents(a, B, B) \in NonNeg
<1> DEFINE e0 == AfterEvents(a, B, B)
<1>1. a \in Ledgers /\ e0 \in Ledgers
  BY EventsKeepLedger DEF NonNeg
<1>2. ASSUME NEW k PROVE Get(e0.current, k) >= 0
  <2>1. /\ NetMove(B, k) \in Int /\ Get(a.current, k) \in Int
        /\ Get(e0.current, k) = Get(a.current, k) + NetMove(B, k)
    BY <1>1, CurrentAfter
  <2>2. NetMove(B, k) >= 0 /\ Get(a.current, k) >= 0
    BY DEF NonNeg
  <2> HIDE DEF e0
  <2> QED
    BY <2>1, <2>2
<1> HIDE DEF e0
<1> QED
  BY <1>1, <1>2 DEF NonNeg, e0

(* So does serving a demand.                                               *)
LEMMA ServeKeepsNonNeg ==
  ASSUME NEW x \in NonNeg, NEW d, IsDemand(d)
  PROVE  ServeDemand(x, d) \in NonNeg
<1> DEFINE c == Get(x.current, DStock(d))
           y == ServeDemand(x, d)
<1>1. x \in Ledgers /\ \A k : Get(x.current, k) >= 0
  BY DEF NonNeg
<1>2. /\ y \in Ledgers /\ c \in Int
      /\ Sold(x, d) = IF c <= 0 THEN 0 ELSE IF c <= d.quantity THEN c ELSE d.quantity
      /\ Get(y.current, DStock(d)) = c - Sold(x, d)
  BY <1>1, ServeValues
<1>3. \A k : k # DStock(d) => Get(y.current, k) = Get(x.current, k)
  BY <1>1, ServeOthers
<1>4. d.quantity \in Nat /\ c >= 0
  BY <1>1, DemandType
<1> HIDE DEF c, y
<1>5. Get(y.current, DStock(d)) >= 0
  BY <1>2, <1>4
<1>6. \A k : Get(y.current, k) >= 0
  BY <1>1, <1>3, <1>5
<1> QED
  BY <1>2, <1>6 DEF y, NonNeg

(* A log with no net loss derives no stock below zero.                     *)
LEMMA RunNotBelowZero ==
  ASSUME NEW E, IsLog(E), NoNetLoss(E), NEW D, IsDemands(D), NEW g, IsRun(g, E, D)
  PROVE  \A i \in 0 .. Len(TimesOf(E, D)) : NotBelowZero(g[i])
<1> DEFINE n == Len(TimesOf(E, D))
           Q == {i \in 0 .. n : NotBelowZero(g[i])}
<1>1. n \in Nat
  BY TimesFacts
<1>2. 0 \in Q
  <2>1. g[0] = NothingDerived
    BY DEF IsRun
  <2>2. NotBelowZero(NothingDerived)
    BY DEF NotBelowZero, NothingDerived, Get
  <2> QED
    BY <1>1, <2>1, <2>2
<1>3. ASSUME NEW i \in 1 .. n, i - 1 \in Q PROVE i \in Q
  <2> DEFINE t == TimesOf(E, D)[i]
             a == g[i - 1]
             B == InBucket(E, t)
             r == Served(a, t, E, D)
  <2>1. /\ t \in Nat /\ a \in Ledgers /\ r \in Ledgers /\ g[i] = CloseBucket(r, t)
        /\ i \in 0 .. n
    BY RunStep
  <2>2. NotBelowZero(a)
    BY <1>3
  <2> HIDE DEF a, t, Q, r
  <2>3. IsLog(B)
    BY BucketIsLog
  <2>4. \A k : NetMove(B, k) >= 0
    BY <2>1 DEF NoNetLoss
  <2>5. a \in NonNeg
    BY <2>1, <2>2 DEF NonNeg, NotBelowZero
  <2>6. AfterEvents(a, B, B) \in NonNeg
    <3> HIDE DEF B
    <3> QED
      BY <2>3, <2>4, <2>5, EventsKeepNonNeg
  <2>7. r \in NonNeg
    <3>1. NonNeg \in SUBSET Ledgers /\ \A x \in NonNeg : \A d \in D : ServeDemand(x, d) \in NonNeg
      BY ServeKeepsNonNeg DEF NonNeg, IsDemands
    <3>2. PICK h : IsService(h, a, t, E, D) /\ h \in [0 .. Len(OrdersOf(D, t)) -> NonNeg]
      BY <2>1, <2>6, <3>1, BucketServed
    <3>3. Len(OrdersOf(D, t)) \in 0 .. Len(OrdersOf(D, t)) /\ r = h[Len(OrdersOf(D, t))]
      BY <3>2 DEF IsService, r
    <3> QED
      BY <3>2, <3>3
  <2>8. r.inventory = a.inventory
    BY <2>1, ServedKeys DEF r
  <2> DEFINE v == CloseBucket(r, t)
             closed == {<<s[1], s[2], t>> : s \in r.touched}
  <2>9. /\ v.current = r.current
        /\ DOMAIN v.inventory = DOMAIN r.inventory \cup closed
        /\ \A k \in DOMAIN v.inventory : v.inventory[k] = IF k \in closed THEN r.current[<<k[1], k[2]>>]
                                                          ELSE r.inventory[k]
    BY <2>1, CloseOne
  <2>10a. ASSUME NEW s \in r.touched PROVE r.current[<<s[1], s[2]>>] >= 0
    <3>1. s \in NatPairs /\ s \in DOMAIN r.current
      BY <2>1, LedgerType
    <3>2. s = <<s[1], s[2]>>
      BY <3>1 DEF NatPairs
    <3>3. r.current[s] = Get(r.current, s)
      BY <3>1 DEF Get
    <3> QED
      BY <2>7, <3>2, <3>3 DEF NonNeg
  <2>10. \A k \in closed : r.current[<<k[1], k[2]>>] >= 0
    <3>1. \A k \in closed : \E s \in r.touched : k[1] = s[1] /\ k[2] = s[2]
      OBVIOUS
    <3> HIDE DEF closed
    <3> QED
      BY <2>10a, <3>1
  <2> HIDE DEF closed, v
  <2>11. NotBelowZero(v)
    BY <2>2, <2>7, <2>8, <2>9, <2>10 DEF NotBelowZero, NonNeg
  <2> QED
    BY <2>1, <2>11 DEF Q, v
<1>4. \A i \in 0 .. n : i \in Q
  <2> HIDE DEF Q
  <2> QED
    BY <1>1, <1>2, <1>3, IntervalInduction
<1> QED
  BY <1>4

-----------------------------------------------------------------------------
(* The three events of a lot or an operator.                               *)

(* The next week is the next on the line of weeks.                         *)
LEMMA NextWeekIsWeek ==
  ASSUME NEW t, IsWeek(t)
  PROVE  IsWeek(NextWeek(t)) /\ WeekIndex(NextWeek(t)) = WeekIndex(t) + 1
<1>1. t \in Nat /\ t % 100 \in 1 .. 52 /\ t = 100 * (t \div 100) + (t % 100) /\ t \div 100 \in Nat
  BY DEF IsWeek
<1> DEFINE y == t \div 100
           w == t % 100
           u == NextWeek(t)
<1>2. CASE w >= 52
  <2>1. u = (y + 1) * 100 + 1
    BY <1>2 DEF NextWeek
  <2>2. w = 52 /\ y \in Nat
    BY <1>1, <1>2
  <2> HIDE DEF y, w, u
  <2>3. u \in Nat /\ u % 100 = 1 /\ u \div 100 = y + 1
    BY <2>1, <2>2
  <2> QED
    BY <2>2, <2>3 DEF IsWeek, WeekIndex, u, y, w
<1>3. CASE ~(w >= 52)
  <2>1. u = t + 1
    BY <1>3 DEF NextWeek
  <2>2. y \in Nat /\ w \in 1 .. 51 /\ t = 100 * y + w
    BY <1>1, <1>3
  <2> HIDE DEF y, w, u
  <2>3. u \in Nat /\ u % 100 = w + 1 /\ u \div 100 = y
    BY <2>1, <2>2
  <2>4. WeekIndex(u) = y * 52 + (w + 1) /\ WeekIndex(t) = y * 52 + w
    BY <2>3 DEF WeekIndex, y, w
  <2> QED
    BY <2>2, <2>3, <2>4 DEF IsWeek, u
<1> QED
  BY <1>2, <1>3

(* NextWeek of any number is a number.                                     *)
LEMMA NextWeekType ==
  ASSUME NEW t \in Nat
  PROVE  NextWeek(t) \in Nat
BY DEF NextWeek

(* Advancing by weeks, whatever the start; and how far it goes from a week. *)
LEMMA Advanced ==
  ASSUME NEW t \in Nat, NEW weeks \in Int
  PROVE  /\ advance_time_bucket(t, weeks) \in Nat
         /\ IsWeek(t) =>
              /\ IsWeek(advance_time_bucket(t, weeks))
              /\ WeekIndex(advance_time_bucket(t, weeks))
                   = WeekIndex(t) + (IF weeks > 0 THEN weeks ELSE 0)
<1> DEFINE after[i \in 0 .. weeks] == IF i = 0 THEN t ELSE NextWeek(after[i - 1])
<1>1. advance_time_bucket(t, weeks) = IF weeks > 0 THEN after[weeks] ELSE t
  BY Zenon DEF advance_time_bucket
<1>2. CASE ~(weeks > 0)
  <2>1. advance_time_bucket(t, weeks) = t
    BY <1>1, <1>2
  <2>2. IsWeek(t) => WeekIndex(t) \in Int
    BY DEF IsWeek, WeekIndex
  <2> QED
    BY <1>2, <2>1, <2>2
<1>3. CASE weeks > 0
  <2> DEFINE step == [i \in 1 .. weeks |-> [x \in Nat |-> NextWeek(x)]]
  <2>1. weeks \in Nat /\ step \in Steps(weeks, Nat)
    BY <1>3, NextWeekType DEF Steps
  <2>2. PICK g \in [0 .. weeks -> Nat] :
          g[0] = t /\ \A i \in 1 .. weeks : g[i] = step[i][g[i - 1]]
    <3> DEFINE A == Nat
    <3>1. weeks \in Nat /\ t \in A /\ step \in Steps(weeks, A)
      BY <2>1
    <3> HIDE DEF step, A
    <3>2. \E g \in [0 .. weeks -> A] :
            g[0] = t /\ \A i \in 1 .. weeks : g[i] = step[i][g[i - 1]]
      BY <3>1, RecursionOnInterval
    <3> QED
      BY <3>2 DEF A
  <2>3. /\ weeks \in Nat /\ g \in [0 .. weeks -> Nat] /\ g[0] = t
        /\ \A i \in 1 .. weeks : g[i] = NextWeek(g[i - 1]) /\ i - 1 \in 0 .. weeks
    BY <2>1, <2>2
  <2> HIDE DEF step
  <2>4. after = g
    <3>1. g = [i \in 0 .. weeks |-> IF i = 0 THEN t ELSE NextWeek(g[i - 1])]
      BY <2>3
    <3>2. \E f : f = [i \in 0 .. weeks |-> IF i = 0 THEN t ELSE NextWeek(f[i - 1])]
      BY <3>1
    <3>3. after = [i \in 0 .. weeks |-> IF i = 0 THEN t ELSE NextWeek(after[i - 1])]
      BY <3>2, Zenon
    <3> HIDE DEF after
    <3> DEFINE Q == {i \in 0 .. weeks : after[i] = g[i]}
    <3>4. 0 \in Q
      BY <2>3, <3>3
    <3>5. \A i \in 1 .. weeks : i - 1 \in Q => i \in Q
      BY <2>3, <3>3
    <3>6. \A i \in 0 .. weeks : i \in Q
      <4> HIDE DEF Q
      <4> QED
        BY <2>3, <3>4, <3>5, IntervalInduction
    <3> QED
      BY <2>3, <3>3, <3>6
  <2>5. IsWeek(t) => \A i \in 0 .. weeks : IsWeek(g[i]) /\ WeekIndex(g[i]) = WeekIndex(t) + i
    <3> SUFFICES ASSUME IsWeek(t)
                 PROVE  \A i \in 0 .. weeks : IsWeek(g[i]) /\ WeekIndex(g[i]) = WeekIndex(t) + i
      OBVIOUS
    <3> DEFINE Q == {i \in 0 .. weeks : IsWeek(g[i]) /\ WeekIndex(g[i]) = WeekIndex(t) + i}
    <3>1. WeekIndex(t) \in Int
      BY DEF IsWeek, WeekIndex
    <3>2. 0 \in Q
      BY <2>3, <3>1
    <3>3. ASSUME NEW i \in 1 .. weeks, i - 1 \in Q PROVE i \in Q
      <4>1. IsWeek(g[i - 1]) /\ WeekIndex(g[i - 1]) = WeekIndex(t) + (i - 1)
        BY <3>3
      <4>2. IsWeek(g[i]) /\ WeekIndex(g[i]) = WeekIndex(g[i - 1]) + 1
        BY <2>3, <4>1, NextWeekIsWeek
      <4>3. i \in 0 .. weeks /\ i \in Int
        BY <2>3
      <4> QED
        BY <3>1, <4>1, <4>2, <4>3
    <3>4. \A i \in 0 .. weeks : i \in Q
      <4> HIDE DEF Q
      <4> QED
        BY <2>3, <3>2, <3>3, IntervalInduction
    <3> QED
      BY <3>4
  <2> HIDE DEF after
  <2>6. advance_time_bucket(t, weeks) = g[weeks] /\ weeks \in 0 .. weeks
    BY <1>1, <1>3, <2>3, <2>4
  <2> QED
    BY <1>3, <2>3, <2>5, <2>6
<1> QED
  BY <1>2, <1>3

-----------------------------------------------------------------------------
(* What one event does to one stock in one bucket.                         *)
Move(e, t, k) ==
  IF e.time_bucket = t /\ EventNode(e) # NoNode /\ StockOf(e) = k THEN Signed(e) ELSE 0

(* The events C, added to the log E, change the net move by m.             *)
MovesBy(E, C, t, k, m) ==
  /\ IsLog(E \cup C)
  /\ NetMove(InBucket(E, t), k) \in Int
  /\ m \in Int
  /\ NetMove(InBucket(E \cup C, t), k) = NetMove(InBucket(E, t), k) + m

(* One more event moves its own stock in its own bucket.                   *)
LEMMA OneMoreMove ==
  ASSUME NEW E, IsLog(E), NEW e, IsFlowEvent(e), e \notin E, NEW t, NEW k
  PROVE  MovesBy(E, {e}, t, k, Move(e, t, k))
<1> DEFINE F == E \cup {e}
           S == EventsAt(InBucket(E, t), k)
           T == EventsAt(InBucket(F, t), k)
<1>1. IsLog(F)
  BY FS_AddElement DEF IsLog
<1>2. IsLog(InBucket(E, t)) /\ IsLog(InBucket(F, t))
  BY <1>1, BucketIsLog
<1>3. S \in SUBSET InBucket(E, t) /\ S \in SUBSET F /\ e \notin S /\ T \in SUBSET InBucket(F, t)
      /\ InBucket(E, t) \subseteq F /\ InBucket(F, t) \subseteq F
  BY DEF EventsAt, InBucket
<1>4. /\ \A x \in F : MovesOf(F)[x] = Signed(x) /\ Signed(x) \in Int
      /\ \A x \in InBucket(E, t) : MovesOf(InBucket(E, t))[x] = Signed(x)
      /\ \A x \in InBucket(F, t) : MovesOf(InBucket(F, t))[x] = Signed(x)
  BY <1>1, EventType DEF MovesOf, IsLog
<1>5. IsFiniteSet(F) /\ IsFiniteSet(InBucket(E, t)) /\ IsFiniteSet(InBucket(F, t))
  BY <1>1, <1>2 DEF IsLog
<1>6. NetMove(InBucket(E, t), k) = SumFunctionOnSet(MovesOf(F), S)
  <2>1. SumFunctionOnSet(MovesOf(InBucket(E, t)), S) = SumFunctionOnSet(MovesOf(F), S)
    <3> HIDE DEF F, S, T
    <3> QED
      BY <1>3, <1>4, <1>5, SumSame
  <2> QED
    BY <2>1 DEF NetMove
<1>7. NetMove(InBucket(F, t), k) = SumFunctionOnSet(MovesOf(F), T)
  <2>1. SumFunctionOnSet(MovesOf(InBucket(F, t)), T) = SumFunctionOnSet(MovesOf(F), T)
    <3> HIDE DEF F, S, T
    <3> QED
      BY <1>3, <1>4, <1>5, SumSame
  <2> QED
    BY <2>1 DEF NetMove
<1>8. T = IF e.time_bucket = t /\ EventNode(e) # NoNode /\ StockOf(e) = k THEN S \cup {e} ELSE S
  BY DEF EventsAt, InBucket
<1>9. e \in F \ S /\ S \in SUBSET F
  BY <1>3
<1>10. \A x \in F : MovesOf(F)[x] \in Int
  BY <1>4
<1>11. /\ SumFunctionOnSet(MovesOf(F), S) \in Int
       /\ SumFunctionOnSet(MovesOf(F), S \cup {e}) = SumFunctionOnSet(MovesOf(F), S) + MovesOf(F)[e]
  <2> HIDE DEF F, S, T
  <2> QED
    BY <1>5, <1>9, <1>10, SumAddOne
<1>12. Signed(e) \in Int /\ MovesOf(F)[e] = Signed(e)
  BY <1>4, <1>9
<1> HIDE DEF S, T
<1> QED
  BY <1>1, <1>6, <1>7, <1>8, <1>11, <1>12 DEF Move, MovesBy

(* The three events of a chain.                                            *)
IsChain(C, a, b, c, product, source, dest, t, lead, quantity, seq) ==
  /\ C = {a, b, c}
  /\ IsFlowEvent(a) /\ IsFlowEvent(b) /\ IsFlowEvent(c)
  /\ a.event_type = "production" /\ b.event_type = "shipment" /\ c.event_type = "arrival"
  /\ a.to_node = source /\ b.to_node = dest /\ c.to_node = dest
  /\ a.from_node = source /\ b.from_node = source /\ c.from_node = source
  /\ a.product = product /\ b.product = product /\ c.product = product
  /\ a.time_bucket = t /\ b.time_bucket = t
  /\ c.time_bucket = advance_time_bucket(t, lead)
  /\ a.quantity = quantity /\ b.quantity = quantity /\ c.quantity = quantity
  /\ a.creation_sequence = seq /\ b.creation_sequence = seq + 1
  /\ c.creation_sequence = seq + 2

(* A chain has three events.                                               *)
LEMMA ChainIs ==
  ASSUME NEW id, NEW product \in Nat, NEW source \in Nat, NEW dest \in Nat,
         NEW t \in Nat, NEW lead \in Int, NEW quantity \in Nat, NEW seq \in Nat
  PROVE  \E a, b, c : IsChain(Chain(id, product, source, dest, t, lead, quantity, seq),
                              a, b, c, product, source, dest, t, lead, quantity, seq)
<1> DEFINE Event(type, to, bucket, i) ==
             [flow_id |-> <<id, type>>, lot_id |-> id, event_type |-> type,
              product |-> product, from_node |-> source, to_node |-> to,
              time_bucket |-> bucket, quantity |-> quantity,
              creation_sequence |-> seq + i]
           a == Event("production", source, t, 0)
           b == Event("shipment", dest, t, 1)
           c == Event("arrival", dest, advance_time_bucket(t, lead), 2)
<1>1. advance_time_bucket(t, lead) \in Nat
  BY Advanced
<1>2. IsFlowEvent(a) /\ IsFlowEvent(b) /\ IsFlowEvent(c)
  BY <1>1 DEF IsFlowEvent, EVENT_PRIORITY
<1>3. Chain(id, product, source, dest, t, lead, quantity, seq) = {a, b, c}
  BY DEF Chain
<1>4. IsChain({a, b, c}, a, b, c, product, source, dest, t, lead, quantity, seq)
  BY <1>2 DEF IsChain
<1> QED
  BY <1>3, <1>4

(* What a chain does to one stock in one bucket: it brings its quantity.   *)
Brought(product, source, dest, t, lead, quantity, u, k) ==
  IF /\ u = advance_time_bucket(t, lead)
     /\ First(dest, source) # NoNode
     /\ k = <<First(dest, source), product>>
  THEN quantity ELSE 0

(* A chain moves the stock it brings to, and no other.                     *)
LEMMA ChainMoves ==
  ASSUME NEW product \in Nat, NEW source \in Nat, NEW dest \in Nat,
         NEW t \in Nat, NEW lead \in Int, NEW quantity \in Nat, NEW seq \in Nat,
         NEW C, NEW a, NEW b, NEW c,
         IsChain(C, a, b, c, product, source, dest, t, lead, quantity, seq),
         NEW E, IsLog(E), \A e \in E : e.creation_sequence < seq,
         NEW u, NEW k
  PROVE  MovesBy(E, C, u, k, Brought(product, source, dest, t, lead, quantity, u, k))
<1>1. /\ IsFlowEvent(a) /\ IsFlowEvent(b) /\ IsFlowEvent(c)
      /\ a \notin E /\ b \notin E \cup {a} /\ c \notin (E \cup {a}) \cup {b}
      /\ E \cup C = ((E \cup {a}) \cup {b}) \cup {c}
  BY DEF IsChain
<1> DEFINE n0 == NetMove(InBucket(E, u), k)
           n1 == NetMove(InBucket(E \cup {a}, u), k)
           n2 == NetMove(InBucket((E \cup {a}) \cup {b}, u), k)
           n3 == NetMove(InBucket(E \cup C, u), k)
<1>2. IsLog(E \cup {a}) /\ n0 \in Int /\ Move(a, u, k) \in Int /\ n1 = n0 + Move(a, u, k)
  <2>1. MovesBy(E, {a}, u, k, Move(a, u, k))
    BY <1>1, OneMoreMove
  <2> QED
    BY <2>1 DEF MovesBy
<1>3. IsLog((E \cup {a}) \cup {b}) /\ Move(b, u, k) \in Int /\ n2 = n1 + Move(b, u, k)
  <2>1. MovesBy(E \cup {a}, {b}, u, k, Move(b, u, k))
    BY <1>1, <1>2, OneMoreMove
  <2> QED
    BY <2>1 DEF MovesBy
<1>4. IsLog(E \cup C) /\ Move(c, u, k) \in Int /\ n3 = n2 + Move(c, u, k)
  <2>1. MovesBy((E \cup {a}) \cup {b}, {c}, u, k, Move(c, u, k))
    BY <1>1, <1>3, OneMoreMove
  <2> QED
    BY <1>1, <2>1, Zenon DEF MovesBy
<1>5. /\ EventNode(a) = source /\ EventNode(b) = source /\ EventNode(c) = First(dest, source)
      /\ Signed(a) = quantity /\ Signed(b) = - quantity /\ Signed(c) = quantity
  BY DEF IsChain, EventNode, Signed, First
<1>6. a.time_bucket = b.time_bucket /\ StockOf(a) = StockOf(b)
      /\ StockOf(c) = <<First(dest, source), product>>
      /\ c.time_bucket = advance_time_bucket(t, lead)
  BY <1>5 DEF IsChain, StockOf
<1>7. Move(a, u, k) + Move(b, u, k) = 0
  BY <1>5, <1>6 DEF Move
<1>8. Move(c, u, k) = Brought(product, source, dest, t, lead, quantity, u, k)
  BY <1>5, <1>6 DEF Move, Brought
<1> HIDE DEF n0, n1, n2, n3
<1>9. n3 = n0 + Move(c, u, k)
  BY <1>2, <1>3, <1>4, <1>7
<1> QED
  BY <1>2, <1>4, <1>8, <1>9 DEF n0, n3, MovesBy

(* A chain loses nothing in any bucket.                                    *)
LEMMA ChainNoLoss ==
  ASSUME NEW id, NEW product \in Nat, NEW source \in Nat, NEW dest \in Nat,
         NEW t \in Nat, NEW lead \in Int, NEW quantity \in Nat, NEW seq \in Nat,
         NEW E, IsLog(E), \A e \in E : e.creation_sequence < seq
  PROVE  LET F == E \cup Chain(id, product, source, dest, t, lead, quantity, seq)
         IN  IsLog(F) /\ (NoNetLoss(E) => NoNetLoss(F))
<1> DEFINE C == Chain(id, product, source, dest, t, lead, quantity, seq)
<1>1. PICK a, b, c : IsChain(C, a, b, c, product, source, dest, t, lead, quantity, seq)
  BY ChainIs
<1> HIDE DEF C
<1>2. \A u, k : MovesBy(E, C, u, k, Brought(product, source, dest, t, lead, quantity, u, k))
  BY <1>1, ChainMoves
<1>3. ASSUME NoNetLoss(E) PROVE NoNetLoss(E \cup C)
  <2> SUFFICES ASSUME NEW u \in Nat, NEW k PROVE NetMove(InBucket(E \cup C, u), k) >= 0
    BY DEF NoNetLoss
  <2> DEFINE m == Brought(product, source, dest, t, lead, quantity, u, k)
  <2>1. /\ NetMove(InBucket(E, u), k) \in Int
        /\ NetMove(InBucket(E \cup C, u), k) = NetMove(InBucket(E, u), k) + m
    BY <1>2 DEF MovesBy
  <2>2. NetMove(InBucket(E, u), k) >= 0
    BY <1>3 DEF NoNetLoss
  <2>3. m \in {quantity, 0}
    BY DEF Brought
  <2> HIDE DEF m
  <2> QED
    BY <2>1, <2>2, <2>3
<1>4. IsLog(E \cup C)
  BY <1>2 DEF MovesBy
<1> QED
  BY <1>3, <1>4 DEF C

-----------------------------------------------------------------------------
(* The network, the stockouts of a state and the first candidate.          *)

AreLots(lots) ==
  /\ IsFiniteSet(lots)
  /\ \A lot \in lots : IsLot(lot)
  /\ \A lot, other \in lots : LotKey(lot) = LotKey(other) => lot = other

(* Of finitely many keys one comes first.                                  *)
LEMMA FirstKey ==
  ASSUME NEW m \in Nat, NEW key, KeyOf(key, m), DOMAIN key # {}
  PROVE  \E x \in DOMAIN key : \A y \in DOMAIN key \ {x} : Lex(key[x], key[y])
<1> DEFINE S == DOMAIN key
           s == InOrder(key)
           n == Cardinality(S)
<1>1. IsListing(s, S) /\ \A i, j \in 1 .. n : i < j => Lex(key[s[i]], key[s[j]])
  BY InOrderLists
<1>2. /\ n \in Nat /\ \A i \in 1 .. n : s[i] \in S
      /\ \A x \in S : \E i \in 1 .. n : s[i] = x
  BY <1>1 DEF IsListing
<1>3. 1 \in 1 .. n
  BY <1>2
<1>4. \A y \in S \ {s[1]} : \E i \in 1 .. n : s[i] = y /\ 1 < i
  BY <1>2
<1> HIDE DEF s, S, n
<1>5. \A y \in S \ {s[1]} : Lex(key[s[1]], key[y])
  BY <1>1, <1>3, <1>4
<1> QED
  BY <1>2, <1>3, <1>5 DEF S

(* Of the lots with one key there is a first.                              *)
LEMMA FirstLotExists ==
  ASSUME NEW lots, AreLots(lots), NEW key, NEW k, \E lot \in lots : key[lot] = k
  PROVE  \E lot \in lots : /\ key[lot] = k
                           /\ \A other \in lots \ {lot} :
                                key[other] = k => Lex(LotKey(lot), LotKey(other))
<1> DEFINE S == {lot \in lots : key[lot] = k}
           rank == [lot \in S |-> LotKey(lot)]
<1>1. \A lot \in lots : LotKey(lot) \in Tuples(2)
  <2> SUFFICES ASSUME NEW lot \in lots PROVE LotKey(lot) \in Tuples(2)
    OBVIOUS
  <2>1. lot.created \in Int /\ lot.lot_id[2] \in Int
    BY DEF AreLots, IsLot
  <2> QED
    BY <2>1 DEF LotKey, Tuples
<1>2. IsFiniteSet(S)
  BY FS_Subset DEF AreLots
<1>3. KeyOf(rank, 2) /\ DOMAIN rank = S /\ S # {}
  BY <1>1, <1>2 DEF AreLots, KeyOf
<1>4. \A x \in S : rank[x] = LotKey(x)
  OBVIOUS
<1>5. \A x \in lots : x \in S <=> key[x] = k
  OBVIOUS
<1>6. S \subseteq lots
  OBVIOUS
<1> HIDE DEF S, rank
<1>7. PICK x \in S : \A y \in S \ {x} : Lex(rank[x], rank[y])
  <2>1. 2 \in Nat /\ DOMAIN rank # {}
    BY <1>3
  <2> QED
    BY <1>3, <2>1, FirstKey
<1> QED
  BY <1>4, <1>5, <1>6, <1>7

(* The first lots name nodes.                                              *)
LEMMA FirstLotType ==
  ASSUME NEW lots, AreLots(lots), NEW key
  PROVE  \A k \in DOMAIN FirstLotWins(lots, key) : FirstLotWins(lots, key)[k] \in Nat \ {NoNode}
<1> SUFFICES ASSUME NEW k \in DOMAIN FirstLotWins(lots, key)
             PROVE  FirstLotWins(lots, key)[k] \in Nat \ {NoNode}
  OBVIOUS
<1> DEFINE P(lot) == /\ key[lot] = k
                     /\ \A other \in lots \ {lot} :
                          key[other] = k => Lex(LotKey(lot), LotKey(other))
<1>1. FirstLotWins(lots, key)[k] = (CHOOSE lot \in lots : P(lot)).origin
      /\ \E lot \in lots : key[lot] = k
  BY DEF FirstLotWins
<1>2. \E lot \in lots : P(lot)
  BY <1>1, FirstLotExists
<1> HIDE DEF P
<1>3. (CHOOSE lot \in lots : P(lot)) \in lots
  BY <1>2
<1>4. \A lot \in lots : lot.origin \in Nat \ {NoNode}
  BY DEF AreLots, IsLot
<1> QED
  BY <1>1, <1>3, <1>4

IsNetwork(net) ==
  /\ \A n \in net.production_nodes : n \in Nat \ {NoNode}
  /\ \A n \in DOMAIN net.upstream : net.upstream[n] \in Nat \ {NoNode}
  /\ \A p \in DOMAIN net.origin : net.origin[p] \in Nat \ {NoNode}

(* The inferred network names nodes.                                       *)
LEMMA NetworkInferred ==
  ASSUME NEW lots, AreLots(lots), NEW nodes, nodes \subseteq Nat \ {NoNode},
         NEW upstream, \A n \in DOMAIN upstream : upstream[n] \in Nat \ {NoNode}
  PROVE  IsNetwork(infer_network(lots, nodes, upstream))
<1> DEFINE to == [lot \in lots |-> lot.destination]
           of == [lot \in lots |-> lot.product]
           net == infer_network(lots, nodes, upstream)
           inferred == FirstLotWins(lots, to)
<1>1. \A n \in DOMAIN inferred : inferred[n] \in Nat \ {NoNode}
  BY FirstLotType
<1>2. \A n \in DOMAIN FirstLotWins(lots, of) : FirstLotWins(lots, of)[n] \in Nat \ {NoNode}
  BY FirstLotType
<1>3. /\ net.production_nodes = IF nodes = {} THEN {lot.origin : lot \in lots} ELSE nodes
      /\ net.upstream = [n \in DOMAIN upstream \cup DOMAIN inferred |->
                           IF n \in DOMAIN upstream THEN upstream[n] ELSE inferred[n]]
      /\ net.origin = FirstLotWins(lots, of)
  BY DEF infer_network
<1>4. \A lot \in lots : lot.origin \in Nat \ {NoNode}
  BY DEF AreLots, IsLot
<1> HIDE DEF net, inferred, of
<1>5. \A n \in net.production_nodes : n \in Nat \ {NoNode}
  <2>1. CASE nodes = {}
    BY <1>3, <1>4, <2>1
  <2>2. CASE nodes # {}
    BY <1>3, <2>2
  <2> QED
    BY <2>1, <2>2
<1>6. \A n \in DOMAIN net.upstream : net.upstream[n] \in Nat \ {NoNode}
  BY <1>1, <1>3
<1>7. \A p \in DOMAIN net.origin : net.origin[p] \in Nat \ {NoNode}
  BY <1>2, <1>3
<1> QED
  BY <1>5, <1>6, <1>7 DEF IsNetwork, net

(* The source of an operator is a node.                                    *)
LEMMA SourceType ==
  ASSUME NEW net, IsNetwork(net), NEW te, te.node \in Nat \ {NoNode}
  PROVE  SourceFor(te, net) \in Nat \ {NoNode}
BY DEF SourceFor, IsNetwork

-----------------------------------------------------------------------------
(* The derived state: what it has keys for.                                *)

DKeys(D) == {DKey(d) : d \in D}

(* The derived state has the keys of the demands.                          *)
LEMMA StateFacts ==
  ASSUME NEW E, IsLog(E), NEW D, IsDemands(D),
         \A e, f \in E : e.creation_sequence = f.creation_sequence => e = f
  PROVE  /\ DOMAIN run_flow(E, D).demand = DKeys(D)
         /\ DOMAIN run_flow(E, D).backlog = DKeys(D)
         /\ run_flow(E, D).demand \in Dicts(Triples)
         /\ run_flow(E, D).backlog \in Dicts(Triples)
         /\ run_flow(E, D).inventory \in Dicts(Triples)
<1> DEFINE n == Len(TimesOf(E, D))
           s == run_flow(E, D)
<1>1. PICK g : IsRun(g, E, D) /\ s = StateView(g[n])
  BY RunOfFlow
<1>2. n \in Nat /\ n \in 0 .. n
  BY TimesFacts
<1>3. g[n] \in Ledgers
  BY <1>1, <1>2 DEF IsRun
<1>4. s.demand = g[n].demand /\ s.backlog = g[n].backlog /\ s.inventory = g[n].inventory
  BY <1>1 DEF StateView
<1>5. AskedBy(E, D, n) = D
  <2>1. \A d \in D : \E i \in 1 .. n : d.time_bucket = TimesOf(E, D)[i]
    BY TimesFacts
  <2> QED
    BY <2>1 DEF AskedBy, BucketsUpTo
<1>6. /\ DOMAIN g[n].demand = {DKey(d) : d \in AskedBy(E, D, n)}
      /\ DOMAIN g[n].backlog = {DKey(d) : d \in AskedBy(E, D, n)}
  BY <1>1, <1>2, RunKeys
<1> HIDE DEF s, n
<1> QED
  BY <1>3, <1>4, <1>5, <1>6, LedgerType DEF s, DKeys

Risk(state, k) ==
  [event_type |-> "E_STOCKOUT_RISK", node |-> k[1], product |-> k[2],
   time_bucket |-> k[3], severity |-> state.backlog[k]]

Risks(state) == {Risk(state, k) : k \in Stockouts(state)}

(* A state of which only finitely many keys have a backlog.                *)
HasBacklogs(state) ==
  /\ state.backlog \in Dicts(Triples)
  /\ IsFiniteSet(DOMAIN state.backlog)

(* The derived state has finitely many backlogs.                           *)
LEMMA StateHasBacklogs ==
  ASSUME NEW E, IsLog(E), NEW D, IsDemands(D),
         \A e, f \in E : e.creation_sequence = f.creation_sequence => e = f
  PROVE  HasBacklogs(run_flow(E, D))
<1> DEFINE h == [d \in D |-> DKey(d)]
<1>1. IsFiniteSet(D) /\ h \in Surjection(D, DKeys(D))
  BY DEF IsDemands, Surjection, DKeys
<1> HIDE DEF h
<1>2. IsFiniteSet(DKeys(D))
  BY <1>1, FS_Surjection
<1> QED
  BY <1>2, StateFacts DEF HasBacklogs

(* Stockouts are told apart by the key they are sorted by.                 *)
LEMMA RiskKeys ==
  ASSUME NEW state, HasBacklogs(state)
  PROVE  /\ KeyOf([te \in Risks(state) |-> TrustKey(te)], 3)
         /\ \A k \in Stockouts(state) : /\ k = <<k[1], k[2], k[3]>> /\ k \in Triples
                                        /\ state.backlog[k] \in Nat \ {0}
<1> DEFINE key == [te \in Risks(state) |-> TrustKey(te)]
           S == Stockouts(state)
           R == Risks(state)
<1>1. \A k \in S : k \in Triples /\ state.backlog[k] \in Int /\ state.backlog[k] > 0
  BY DictType DEF HasBacklogs, Stockouts
<1>2. \A k \in S : /\ k = <<k[1], k[2], k[3]>> /\ k[1] \in Nat /\ k[2] \in Nat /\ k[3] \in Nat
                   /\ state.backlog[k] \in Nat \ {0}
  BY <1>1 DEF Triples
<1>3. \A k \in S : TrustKey(Risk(state, k)) = <<k[3], k[1], k[2]>>
  BY DEF TrustKey, Risk
<1>4. IsFiniteSet(R)
  <2> DEFINE h == [k \in S |-> Risk(state, k)]
  <2>1. IsFiniteSet(S)
    BY FS_Subset DEF HasBacklogs, Stockouts
  <2>2. h \in Surjection(S, R)
    BY DEF Surjection, Risks
  <2> HIDE DEF h, S, R
  <2> QED
    BY <2>1, <2>2, FS_Surjection
<1>5. \A te \in R : \E k \in S : te = Risk(state, k)
  BY DEF Risks
<1> HIDE DEF S, R
<1>6. \A te \in R : TrustKey(te) \in Tuples(3)
  <2> SUFFICES ASSUME NEW k \in S PROVE <<k[3], k[1], k[2]>> \in Tuples(3)
    BY <1>3, <1>5
  <2>1. k[1] \in Int /\ k[2] \in Int /\ k[3] \in Int
    BY <1>2
  <2> QED
    BY <2>1 DEF Tuples
<1>7. \A x, y \in R : TrustKey(x) = TrustKey(y) => x = y
  <2> SUFFICES ASSUME NEW k \in S, NEW l \in S, <<k[3], k[1], k[2]>> = <<l[3], l[1], l[2]>>
               PROVE  k = l
    BY <1>3, <1>5
  <2>1. k[1] = l[1] /\ k[2] = l[2] /\ k[3] = l[3]
    OBVIOUS
  <2> QED
    BY <2>1, <1>2
<1>8. DOMAIN key = R /\ (\A te \in R : key[te] = TrustKey(te)) /\ key = [x \in DOMAIN key |-> key[x]]
  BY DEF R
<1> HIDE DEF key
<1>9. KeyOf(key, 3)
  BY <1>4, <1>6, <1>7, <1>8 DEF KeyOf
<1> QED
  BY <1>1, <1>2, <1>9 DEF key, S

(* The earliest bucket, then node, then product.                           *)
Earliest(k, S) ==
  /\ k \in S
  /\ \A other \in S \ {k} : Lex(<<k[3], k[1], k[2]>>, <<other[3], other[1], other[2]>>)

(* What the resolver does about the stockout k.                            *)
Answer(state, k, net) ==
  [operator_id |-> <<"op", k[1], k[2], k[3]>>,
   source_node |-> SourceFor(Risk(state, k), net), destination_node |-> k[1],
   product |-> k[2], time_bucket |-> k[3], quantity |-> state.backlog[k]]

(* Without stockouts there is no candidate; with one, the first candidate  *)
(* answers the earliest.                                                   *)
LEMMA FirstCandidate ==
  ASSUME NEW state, HasBacklogs(state), NEW limit, NEW net
  PROVE  LET candidates == generate_candidates(detect_trust_events(state, limit), net)
         IN  /\ candidates = <<>> <=> Stockouts(state) = {}
             /\ candidates # <<>> => \E k \in Stockouts(state) :
                  Earliest(k, Stockouts(state)) /\ candidates[1] = Answer(state, k, net)
<1> DEFINE tes == detect_trust_events(state, limit)
           candidates == generate_candidates(tes, net)
           key == [te \in Risks(state) |-> TrustKey(te)]
           R == Risks(state)
           n == Cardinality(R)
           s == InOrder(key)
           Reply(te) == [operator_id |-> <<"op", te.node, te.product, te.time_bucket>>,
                         source_node |-> SourceFor(te, net), destination_node |-> te.node,
                         product |-> te.product, time_bucket |-> te.time_bucket,
                         quantity |-> te.severity]
<1>1. {te \in tes : te.event_type = "E_STOCKOUT_RISK"} = R
  <2>1. \A k : Risk(state, k).event_type = "E_STOCKOUT_RISK"
    BY DEF Risk
  <2> DEFINE Overload(k) == [event_type |-> "E_CAPACITY_OVERLOAD", node |-> k[1],
                             product |-> NoNode, time_bucket |-> k[2],
                             severity |-> state.capacity[k] - limit]
  <2>2. tes = R \cup {Overload(k) : k \in Overloads(state, limit)}
    BY DEF detect_trust_events, Risks, Risk
  <2>3. \A k : Overload(k).event_type # "E_STOCKOUT_RISK"
    OBVIOUS
  <2>4. \A te \in R : te.event_type = "E_STOCKOUT_RISK"
    BY <2>1 DEF Risks
  <2> HIDE DEF Overload, tes, R
  <2> QED
    BY <2>2, <2>3, <2>4
<1>2. candidates = [i \in 1 .. Len(s) |-> Reply(s[i])]
  BY <1>1, Zenon DEF generate_candidates
<1>3. KeyOf(key, 3) /\ 3 \in Nat /\ DOMAIN key = R
  BY RiskKeys
<1>4. IsListing(s, R) /\ \A i, j \in 1 .. n : i < j => Lex(key[s[i]], key[s[j]])
  <2> HIDE DEF key
  <2> QED
    BY <1>3, InOrderLists
<1>5. /\ s \in Seq(R) /\ Len(s) = n /\ n \in Nat
      /\ \A i \in 1 .. n : s[i] \in R
      /\ \A x \in R : \E i \in 1 .. n : s[i] = x
  <2> HIDE DEF s, R
  <2> QED
    BY <1>4, ListingIsSeq
<1>6. R = {} <=> Stockouts(state) = {}
  BY DEF Risks
<1>7. \A te \in R : key[te] = TrustKey(te)
  OBVIOUS
<1>8. \A te \in R : \E k \in Stockouts(state) : te = Risk(state, k)
  BY DEF Risks
<1>8a. \A k \in Stockouts(state) : Risk(state, k) \in R
  BY DEF Risks
<1>9. \A k \in Stockouts(state) : /\ TrustKey(Risk(state, k)) = <<k[3], k[1], k[2]>>
                                  /\ Reply(Risk(state, k)) = Answer(state, k, net)
  BY DEF TrustKey, Risk, Answer
<1> HIDE DEF candidates, tes, key, R, s, n, Reply
<1>10. candidates = <<>> <=> n = 0
  BY <1>2, <1>5
<1>11. n = 0 <=> R = {}
  BY <1>5
<1>12. ASSUME candidates # <<>>
       PROVE  \E k \in Stockouts(state) :
                Earliest(k, Stockouts(state)) /\ candidates[1] = Answer(state, k, net)
  <2>1. 1 \in 1 .. n
    BY <1>5, <1>10, <1>12
  <2>2. candidates[1] = Reply(s[1]) /\ s[1] \in R
    BY <1>2, <1>5, <2>1
  <2>3. PICK k \in Stockouts(state) : s[1] = Risk(state, k)
    BY <1>8, <2>2
  <2>4. \A y \in R \ {s[1]} : \E j \in 1 .. n : s[j] = y /\ 1 < j
    BY <1>5
  <2>5. \A y \in R \ {s[1]} : Lex(key[s[1]], key[y])
    BY <1>4, <2>1, <2>4
  <2>6. \A other \in Stockouts(state) \ {k} : Risk(state, other) # Risk(state, k)
    <3>1. \A o \in Stockouts(state) : o = <<o[1], o[2], o[3]>>
      BY RiskKeys
    <3>2. \A o : Risk(state, o).node = o[1] /\ Risk(state, o).product = o[2]
                   /\ Risk(state, o).time_bucket = o[3]
      BY DEF Risk
    <3> QED
      BY <3>1, <3>2
  <2>7. Earliest(k, Stockouts(state))
    BY <1>7, <1>8a, <1>9, <2>2, <2>3, <2>5, <2>6 DEF Earliest
  <2> QED
    BY <1>9, <2>2, <2>3, <2>7
<1> QED
  BY <1>6, <1>10, <1>11, <1>12 DEF candidates, tes

-----------------------------------------------------------------------------
(* A log that brings what one demand lacks.                                *)

(* b has q more than a of the stock s, and the same backlogs.              *)
Ahead(a, b, s, q) ==
  \A x : /\ Get(b.current, x) = Get(a.current, x) + (IF x = s THEN q ELSE 0)
         /\ Get(b.backlog, x) = Get(a.backlog, x)

(* b has the stocks of a and its backlogs but for k, where it has none.    *)
Cleared(a, b, k) ==
  \A x : /\ Get(b.current, x) = Get(a.current, x)
         /\ Get(b.backlog, x) = IF x = k THEN 0 ELSE Get(a.backlog, x)

(* Serving a demand of another stock keeps the lead.                       *)
LEMMA AheadStays ==
  ASSUME NEW a \in Ledgers, NEW b \in Ledgers, NEW s, NEW q \in Int, Ahead(a, b, s, q),
         NEW d, IsDemand(d), DStock(d) # s
  PROVE  Ahead(ServeDemand(a, d), ServeDemand(b, d), s, q)
<1> DEFINE u == ServeDemand(a, d)
           v == ServeDemand(b, d)
           c == Get(a.current, DStock(d))
<1>1. /\ c \in Int /\ Get(b.current, DStock(d)) = c + 0
      /\ \A x : Get(b.backlog, x) = Get(a.backlog, x)
      /\ \A x : Get(b.current, x) = Get(a.current, x) + (IF x = s THEN q ELSE 0)
  BY ServeValues DEF Ahead
<1>2. /\ Sold(a, d) = IF c <= 0 THEN 0 ELSE IF c <= d.quantity THEN c ELSE d.quantity
      /\ Get(u.current, DStock(d)) = c - Sold(a, d)
      /\ Get(u.backlog, DKey(d)) = d.quantity - Sold(a, d)
  BY ServeValues
<1>3. /\ Sold(b, d) = IF c <= 0 THEN 0 ELSE IF c <= d.quantity THEN c ELSE d.quantity
      /\ Get(v.current, DStock(d)) = c - Sold(b, d)
      /\ Get(v.backlog, DKey(d)) = d.quantity - Sold(b, d)
  <2>1. Get(b.current, DStock(d)) = c
    BY <1>1
  <2> HIDE DEF c
  <2> QED
    BY <2>1, ServeValues
<1>4. \A x : /\ x # DStock(d) => Get(u.current, x) = Get(a.current, x)
             /\ x # DKey(d) => Get(u.backlog, x) = Get(a.backlog, x)
  BY ServeOthers
<1>5. \A x : /\ x # DStock(d) => Get(v.current, x) = Get(b.current, x)
             /\ x # DKey(d) => Get(v.backlog, x) = Get(b.backlog, x)
  BY ServeOthers
<1>6. c - Sold(a, d) \in Int
  BY <1>1, <1>2, DemandType
<1> HIDE DEF u, v, c
<1>7. Sold(a, d) = Sold(b, d)
  BY <1>2, <1>3
<1>8. ASSUME NEW x
      PROVE  /\ Get(v.current, x) = Get(u.current, x) + (IF x = s THEN q ELSE 0)
             /\ Get(v.backlog, x) = Get(u.backlog, x)
  <2>1. CASE x = DStock(d)
    BY <1>1, <1>2, <1>3, <1>4, <1>5, <1>6, <1>7, <2>1
  <2>2. CASE x # DStock(d)
    BY <1>1, <1>2, <1>3, <1>4, <1>5, <1>7, <2>2
  <2> QED
    BY <2>1, <2>2
<1> QED
  BY <1>8 DEF Ahead, u, v

(* Serving a demand of another key keeps the rest as it was.               *)
LEMMA ClearedStays ==
  ASSUME NEW a \in Ledgers, NEW b \in Ledgers, NEW k, Cleared(a, b, k),
         NEW d, IsDemand(d), DKey(d) # k
  PROVE  Cleared(ServeDemand(a, d), ServeDemand(b, d), k)
<1> DEFINE u == ServeDemand(a, d)
           v == ServeDemand(b, d)
           c == Get(a.current, DStock(d))
<1>1. /\ Get(b.current, DStock(d)) = c
      /\ \A x : Get(b.backlog, x) = IF x = k THEN 0 ELSE Get(a.backlog, x)
      /\ \A x : Get(b.current, x) = Get(a.current, x)
  BY DEF Cleared
<1>2. /\ Sold(a, d) = IF c <= 0 THEN 0 ELSE IF c <= d.quantity THEN c ELSE d.quantity
      /\ Get(u.current, DStock(d)) = c - Sold(a, d)
      /\ Get(u.backlog, DKey(d)) = d.quantity - Sold(a, d)
  BY ServeValues
<1>3. /\ Sold(b, d) = IF c <= 0 THEN 0 ELSE IF c <= d.quantity THEN c ELSE d.quantity
      /\ Get(v.current, DStock(d)) = c - Sold(b, d)
      /\ Get(v.backlog, DKey(d)) = d.quantity - Sold(b, d)
  <2> HIDE DEF c
  <2> QED
    BY <1>1, ServeValues
<1>4. \A x : /\ x # DStock(d) => Get(u.current, x) = Get(a.current, x)
             /\ x # DKey(d) => Get(u.backlog, x) = Get(a.backlog, x)
  BY ServeOthers
<1>5. \A x : /\ x # DStock(d) => Get(v.current, x) = Get(b.current, x)
             /\ x # DKey(d) => Get(v.backlog, x) = Get(b.backlog, x)
  BY ServeOthers
<1> HIDE DEF u, v, c
<1>7. Sold(a, d) = Sold(b, d)
  BY <1>2, <1>3
<1>8. ASSUME NEW x
      PROVE  /\ Get(v.current, x) = Get(u.current, x)
             /\ Get(v.backlog, x) = IF x = k THEN 0 ELSE Get(u.backlog, x)
  BY <1>1, <1>2, <1>3, <1>4, <1>5, <1>7
<1> QED
  BY <1>8 DEF Cleared, u, v

(* What is missing for a demand, brought to its stock, clears it.          *)
LEMMA ServeClears ==
  ASSUME NEW a \in NonNeg, NEW b \in Ledgers, NEW d, IsDemand(d), NEW q \in Int,
         Ahead(a, b, DStock(d), q), q > 0, q = Get(ServeDemand(a, d).backlog, DKey(d))
  PROVE  Cleared(ServeDemand(a, d), ServeDemand(b, d), DKey(d))
<1> DEFINE u == ServeDemand(a, d)
           v == ServeDemand(b, d)
           c == Get(a.current, DStock(d))
           e == Get(b.current, DStock(d))
<1>1. /\ a \in Ledgers /\ c >= 0 /\ c \in Int /\ e = c + q
      /\ \A x : Get(b.backlog, x) = Get(a.backlog, x)
      /\ \A x : x # DStock(d) => Get(b.current, x) = Get(a.current, x) + 0
      /\ \A x : Get(a.current, x) \in Int
  <2>1. a \in Ledgers /\ c >= 0
    BY DEF NonNeg
  <2>2. \A x : Get(a.current, x) \in Int
    BY <2>1, LedgerType, DictType
  <2> QED
    BY <2>1, <2>2 DEF Ahead
<1>2. /\ Sold(a, d) = IF c <= 0 THEN 0 ELSE IF c <= d.quantity THEN c ELSE d.quantity
      /\ Get(u.current, DStock(d)) = c - Sold(a, d)
      /\ Get(u.backlog, DKey(d)) = d.quantity - Sold(a, d)
  BY <1>1, ServeValues
<1>3. /\ Sold(b, d) = IF e <= 0 THEN 0 ELSE IF e <= d.quantity THEN e ELSE d.quantity
      /\ Get(v.current, DStock(d)) = e - Sold(b, d)
      /\ Get(v.backlog, DKey(d)) = d.quantity - Sold(b, d)
  BY ServeValues
<1>4. \A x : /\ x # DStock(d) => Get(u.current, x) = Get(a.current, x)
             /\ x # DKey(d) => Get(u.backlog, x) = Get(a.backlog, x)
  BY <1>1, ServeOthers
<1>5. \A x : /\ x # DStock(d) => Get(v.current, x) = Get(b.current, x)
             /\ x # DKey(d) => Get(v.backlog, x) = Get(b.backlog, x)
  BY ServeOthers
<1>6. d.quantity \in Nat
  BY DemandType
<1>6a. q = Get(u.backlog, DKey(d))
  OBVIOUS
<1> HIDE DEF u, v, c, e
<1>7. Sold(a, d) = c /\ d.quantity = c + q /\ Sold(b, d) = c + q
  BY <1>1, <1>2, <1>3, <1>6, <1>6a
<1>8. Get(u.current, DStock(d)) = 0 /\ Get(v.current, DStock(d)) = 0 /\ Get(v.backlog, DKey(d)) = 0
  BY <1>1, <1>2, <1>3, <1>6, <1>7
<1>9. ASSUME NEW x
      PROVE  /\ Get(v.current, x) = Get(u.current, x)
             /\ Get(v.backlog, x) = IF x = DKey(d) THEN 0 ELSE Get(u.backlog, x)
  <2>1. x # DStock(d) => Get(b.current, x) = Get(a.current, x)
    BY <1>1
  <2> QED
    BY <1>1, <1>4, <1>5, <1>8, <2>1
<1> QED
  BY <1>9 DEF Cleared, u, v

(* A backlog, once written, stays.                                         *)
LEMMA BacklogWritten ==
  ASSUME NEW acc \in Ledgers, NEW E, IsLog(E), NEW D, IsDemands(D), OneDemandEach(D), NEW t,
         NEW h, IsService(h, acc, t, E, D), NEW m \in 1 .. Len(OrdersOf(D, t))
  PROVE  Get(Served(acc, t, E, D).backlog, DKey(OrdersOf(D, t)[m]))
           = Get(h[m].backlog, DKey(OrdersOf(D, t)[m]))
<1> DEFINE list == OrdersOf(D, t)
           n == Len(list)
           k == DKey(list[m])
           Q == {i \in 0 .. n : i >= m => Get(h[i].backlog, k) = Get(h[m].backlog, k)}
<1>1. /\ n \in Nat
      /\ \A i \in 1 .. n : list[i] \in D /\ IsDemand(list[i])
      /\ \A i, j \in 1 .. n : list[i] = list[j] => i = j
      /\ h \in [0 .. n -> Ledgers]
      /\ \A i \in 1 .. n : h[i] = ServeDemand(h[i - 1], list[i])
      /\ Served(acc, t, E, D) = h[n]
  BY DEF IsService
<1> HIDE DEF list, n, k
<1>2. 0 \in Q
  <2>1. m \in Nat /\ m >= 1 /\ 0 \in 0 .. n
    BY <1>1 DEF n, list
  <2> QED
    BY <2>1
<1>3. ASSUME NEW i \in 1 .. n, i - 1 \in Q PROVE i \in Q
  <2>1. i \in 0 .. n /\ i - 1 \in 0 .. n /\ h[i - 1] \in Ledgers /\ IsDemand(list[i])
        /\ h[i] = ServeDemand(h[i - 1], list[i]) /\ m \in 1 .. n
    BY <1>1, SMTT(30) DEF n, list
  <2>2. CASE i > m
    <3>1. list[i] # list[m] /\ list[i] \in D /\ list[m] \in D
      BY <1>1, <2>1, <2>2
    <3>2. DKey(list[i]) # k
      BY <3>1 DEF OneDemandEach, k
    <3>3. Get(h[i].backlog, k) = Get(h[i - 1].backlog, k)
      <4>1. h[i - 1] \in Ledgers /\ IsDemand(list[i]) /\ k # DKey(list[i])
        BY <2>1, <3>2
      <4> HIDE DEF Q
      <4>2. Get(ServeDemand(h[i - 1], list[i]).backlog, k) = Get(h[i - 1].backlog, k)
        BY <4>1, ServeOthers, ZenonT(30)
      <4> QED
        BY <2>1, <4>2
    <3>4. i - 1 >= m
      BY <2>1, <2>2
    <3> QED
      BY <1>3, <2>1, <3>3, <3>4
  <2>3. CASE i = m
    BY <2>1, <2>3
  <2>4. CASE i < m
    BY <2>1, <2>4
  <2> QED
    BY <2>1, <2>2, <2>3, <2>4
<1>4. \A i \in 0 .. n : i \in Q
  <2> HIDE DEF Q
  <2> QED
    BY <1>1, <1>2, <1>3, IntervalInduction
<1>5. n \in 0 .. n /\ n >= m
  BY <1>1 DEF n, list
<1> QED
  BY <1>1, <1>4, <1>5 DEF k, list

(* Events that bring more give the lead.                                   *)
LEMMA BucketAhead ==
  ASSUME NEW a \in Ledgers, NEW B, IsLog(B), NEW C, IsLog(C), NEW s, NEW q \in Int,
         \A x : NetMove(C, x) = NetMove(B, x) + (IF x = s THEN q ELSE 0)
  PROVE  Ahead(AfterEvents(a, B, B), AfterEvents(a, C, C), s, q)
<1> SUFFICES ASSUME NEW x
             PROVE  /\ Get(AfterEvents(a, C, C).current, x)
                         = Get(AfterEvents(a, B, B).current, x) + (IF x = s THEN q ELSE 0)
                    /\ Get(AfterEvents(a, C, C).backlog, x) = Get(AfterEvents(a, B, B).backlog, x)
  BY DEF Ahead
<1>1. /\ NetMove(B, x) \in Int /\ Get(a.current, x) \in Int
      /\ Get(AfterEvents(a, B, B).current, x) = Get(a.current, x) + NetMove(B, x)
  BY CurrentAfter
<1>2. Get(AfterEvents(a, C, C).current, x) = Get(a.current, x) + NetMove(C, x)
  BY CurrentAfter
<1>3. AfterEvents(a, C, C).backlog = AfterEvents(a, B, B).backlog
  BY DEF AfterEvents
<1>4. NetMove(C, x) = NetMove(B, x) + (IF x = s THEN q ELSE 0)
  OBVIOUS
<1> DEFINE m == NetMove(B, x)
           o == NetMove(C, x)
           v == Get(AfterEvents(a, B, B).current, x)
           w == Get(AfterEvents(a, C, C).current, x)
           c == Get(a.current, x)
<1> HIDE DEF m, o, v, w, c
<1>5. w = v + (IF x = s THEN q ELSE 0)
  <2>1. m \in Int /\ c \in Int /\ v = c + m /\ w = c + o /\ o = m + (IF x = s THEN q ELSE 0)
    BY <1>1, <1>2, <1>4 DEF m, o, v, w, c
  <2> QED
    BY <2>1
<1> QED
  BY <1>3, <1>5 DEF v, w

(* The bucket of the cleared demand.                                       *)
LEMMA BucketClears ==
  ASSUME NEW a \in NonNeg, NEW E, IsLog(E), NEW F, IsLog(F),
         NEW D, IsDemands(D), OneDemandEach(D), NEW t,
         NEW d \in InBucket(D, t), NEW q \in Int, q > 0,
         q = Get(Served(a, t, E, D).backlog, DKey(d)),
         \A x : NetMove(InBucket(E, t), x) >= 0,
         \A x : NetMove(InBucket(F, t), x)
                  = NetMove(InBucket(E, t), x) + (IF x = DStock(d) THEN q ELSE 0)
  PROVE  Cleared(Served(a, t, E, D), Served(a, t, F, D), DKey(d))
<1> DEFINE list == OrdersOf(D, t)
           n == Len(list)
           s == DStock(d)
           k == DKey(d)
<1>0. IsLog(InBucket(E, t)) /\ IsLog(InBucket(F, t)) /\ a \in Ledgers
  BY BucketIsLog DEF NonNeg
<1>1. NonNeg \in SUBSET Ledgers /\ \A x \in NonNeg : \A y \in D : ServeDemand(x, y) \in NonNeg
  BY ServeKeepsNonNeg DEF NonNeg, IsDemands
<1>2. AfterEvents(a, InBucket(E, t), InBucket(E, t)) \in NonNeg
  BY <1>0, EventsKeepNonNeg
<1>3. PICK g : IsService(g, a, t, E, D) /\ g \in [0 .. n -> NonNeg]
  BY <1>0, <1>1, <1>2, BucketServed
<1>4. PICK h : IsService(h, a, t, F, D)
  BY <1>0, ServiceExists
<1>5. /\ n \in Nat
      /\ \A i \in 1 .. n : list[i] \in D /\ IsDemand(list[i]) /\ list[i].time_bucket = t
      /\ \A i, j \in 1 .. n : list[i] = list[j] => i = j
      /\ \A i \in 1 .. n : g[i] = ServeDemand(g[i - 1], list[i])
      /\ Served(a, t, E, D) = g[n]
      /\ g[0] = AfterEvents(a, InBucket(E, t), InBucket(E, t))
  BY <1>3 DEF IsService
<1>6. /\ h \in [0 .. n -> Ledgers]
      /\ \A i \in 1 .. n : h[i] = ServeDemand(h[i - 1], list[i])
      /\ Served(a, t, F, D) = h[n]
      /\ h[0] = AfterEvents(a, InBucket(F, t), InBucket(F, t))
  BY <1>4 DEF IsService
<1>7. PICK m \in 1 .. n : list[m] = d
  BY <1>3 DEF IsService
<1>8. q = Get(g[m].backlog, k)
  BY <1>0, <1>3, <1>7, BacklogWritten
<1>9. Ahead(g[0], h[0], s, q)
  <2>1. Ahead(AfterEvents(a, InBucket(E, t), InBucket(E, t)),
              AfterEvents(a, InBucket(F, t), InBucket(F, t)), s, q)
    BY <1>0, BucketAhead
  <2> QED
    BY <1>5, <1>6, <2>1
<1>10. d \in D /\ d.time_bucket = t
  BY DEF InBucket
<1> HIDE DEF list, n, k, s
<1> DEFINE Q == {i \in 0 .. n : IF i < m THEN Ahead(g[i], h[i], s, q) ELSE Cleared(g[i], h[i], k)}
<1>11. 0 \in Q
  BY <1>5, <1>7, <1>9
<1>12. ASSUME NEW i \in 1 .. n, i - 1 \in Q PROVE i \in Q
  <2>1. /\ i \in 0 .. n /\ i - 1 \in 0 .. n /\ g[i - 1] \in NonNeg /\ g[i - 1] \in Ledgers
        /\ h[i - 1] \in Ledgers /\ IsDemand(list[i]) /\ list[i] \in D
        /\ g[i] = ServeDemand(g[i - 1], list[i]) /\ h[i] = ServeDemand(h[i - 1], list[i])
    <3>1. i \in 0 .. n /\ i - 1 \in 0 .. n
      BY <1>5
    <3>2. g[i - 1] \in NonNeg
      BY <1>3, <3>1
    <3>3. g[i - 1] \in Ledgers
      BY <3>2 DEF NonNeg
    <3>4. h[i - 1] \in Ledgers
      BY <1>6, <3>1
    <3> QED
      BY <1>5, <1>6, <3>1, <3>2, <3>3, <3>4
  <2>2. CASE i < m
    <3>1. Ahead(g[i - 1], h[i - 1], s, q)
      BY <1>12, <2>1, <2>2
    <3>2. DStock(list[i]) # s
      <4>1. list[i] # d
        BY <1>5, <1>7, <2>2
      <4>2. DKey(list[i]) # DKey(d)
        BY <1>10, <2>1, <4>1 DEF OneDemandEach
      <4>3. list[i].time_bucket = d.time_bucket
        BY <1>5, <1>10
      <4> QED
        BY <4>2, <4>3 DEF DKey, DStock, s
    <3>3. Ahead(ServeDemand(g[i - 1], list[i]), ServeDemand(h[i - 1], list[i]), s, q)
      BY <2>1, <3>1, <3>2, AheadStays
    <3> QED
      BY <2>1, <2>2, <3>3
  <2>3. CASE i = m
    <3>1. Ahead(g[i - 1], h[i - 1], s, q)
      BY <1>12, <2>1, <2>3
    <3>2. list[i] = d /\ q = Get(ServeDemand(g[i - 1], d).backlog, k)
      BY <1>7, <1>8, <2>1, <2>3
    <3>3. Cleared(ServeDemand(g[i - 1], d), ServeDemand(h[i - 1], d), k)
      BY <2>1, <3>1, <3>2, ServeClears DEF k, s
    <3> QED
      BY <2>1, <2>3, <3>2, <3>3
  <2>4. CASE i > m
    <3>1. Cleared(g[i - 1], h[i - 1], k)
      BY <1>12, <2>1, <2>4
    <3>2. DKey(list[i]) # k
      <4>1. list[i] # d
        BY <1>5, <1>7, <2>4
      <4> QED
        BY <1>10, <2>1, <4>1 DEF OneDemandEach, k
    <3>3. Cleared(ServeDemand(g[i - 1], list[i]), ServeDemand(h[i - 1], list[i]), k)
      BY <2>1, <3>1, <3>2, ClearedStays
    <3> QED
      BY <2>1, <2>4, <3>3
  <2> QED
    BY <2>1, <2>2, <2>3, <2>4
<1>13. \A i \in 0 .. n : i \in Q
  <2> HIDE DEF Q
  <2> QED
    BY <1>5, <1>11, <1>12, IntervalInduction
<1>14. n \in 0 .. n /\ ~(n < m)
  BY <1>5, <1>7
<1> QED
  BY <1>5, <1>6, <1>13, <1>14 DEF k

(* A bucket after it.                                                      *)
LEMMA BucketStaysCleared ==
  ASSUME NEW a \in Ledgers, NEW b \in Ledgers, NEW E, IsLog(E), NEW F, IsLog(F),
         NEW D, IsDemands(D), NEW t, InBucket(E, t) = InBucket(F, t),
         NEW k, Cleared(a, b, k), \A d \in InBucket(D, t) : DKey(d) # k
  PROVE  Cleared(Served(a, t, E, D), Served(b, t, F, D), k)
<1> DEFINE list == OrdersOf(D, t)
           n == Len(list)
           B == InBucket(E, t)
<1>0. IsLog(B)
  BY BucketIsLog
<1>1. PICK g : IsService(g, a, t, E, D)
  BY ServiceExists
<1>2. PICK h : IsService(h, b, t, F, D)
  BY ServiceExists
<1>3. /\ n \in Nat
      /\ \A i \in 1 .. n : list[i] \in InBucket(D, t) /\ IsDemand(list[i])
      /\ g \in [0 .. n -> Ledgers]
      /\ \A i \in 1 .. n : g[i] = ServeDemand(g[i - 1], list[i])
      /\ Served(a, t, E, D) = g[n]
      /\ g[0] = AfterEvents(a, B, B)
  BY <1>1 DEF IsService, InBucket
<1>4. /\ h \in [0 .. n -> Ledgers]
      /\ \A i \in 1 .. n : h[i] = ServeDemand(h[i - 1], list[i])
      /\ Served(b, t, F, D) = h[n]
      /\ h[0] = AfterEvents(b, B, B)
  BY <1>2 DEF IsService
<1>5. Cleared(g[0], h[0], k)
  <2> HIDE DEF B
  <2> SUFFICES ASSUME NEW x
               PROVE  /\ Get(AfterEvents(b, B, B).current, x) = Get(AfterEvents(a, B, B).current, x)
                      /\ Get(AfterEvents(b, B, B).backlog, x)
                           = IF x = k THEN 0 ELSE Get(AfterEvents(a, B, B).backlog, x)
    BY <1>3, <1>4 DEF Cleared
  <2>1. Get(AfterEvents(a, B, B).current, x) = Get(a.current, x) + NetMove(B, x)
    BY <1>0, CurrentAfter
  <2>2. Get(AfterEvents(b, B, B).current, x) = Get(b.current, x) + NetMove(B, x)
    BY <1>0, CurrentAfter
  <2>3. AfterEvents(a, B, B).backlog = a.backlog /\ AfterEvents(b, B, B).backlog = b.backlog
    BY DEF AfterEvents
  <2>4. /\ Get(b.current, x) = Get(a.current, x)
        /\ Get(b.backlog, x) = IF x = k THEN 0 ELSE Get(a.backlog, x)
    BY DEF Cleared
  <2> QED
    BY <2>1, <2>2, <2>3, <2>4
<1> HIDE DEF list, n, B
<1> DEFINE Q == {i \in 0 .. n : Cleared(g[i], h[i], k)}
<1>6. 0 \in Q
  BY <1>3, <1>5
<1>7. ASSUME NEW i \in 1 .. n, i - 1 \in Q PROVE i \in Q
  <2>1. /\ i \in 0 .. n /\ i - 1 \in 0 .. n /\ g[i - 1] \in Ledgers
        /\ h[i - 1] \in Ledgers /\ IsDemand(list[i]) /\ DKey(list[i]) # k
        /\ g[i] = ServeDemand(g[i - 1], list[i]) /\ h[i] = ServeDemand(h[i - 1], list[i])
        /\ Cleared(g[i - 1], h[i - 1], k)
    BY <1>3, <1>4, <1>7
  <2>2. Cleared(ServeDemand(g[i - 1], list[i]), ServeDemand(h[i - 1], list[i]), k)
    BY <2>1, ClearedStays
  <2> QED
    BY <2>1, <2>2
<1>8. \A i \in 0 .. n : i \in Q
  <2> HIDE DEF Q
  <2> QED
    BY <1>3, <1>6, <1>7, IntervalInduction
<1> QED
  BY <1>3, <1>4, <1>8

(* One step of a run changes no backlog of another bucket.                 *)
LEMMA StepKeepsBacklog ==
  ASSUME NEW E, IsLog(E), NEW D, IsDemands(D), NEW g, IsRun(g, E, D),
         NEW i \in 1 .. Len(TimesOf(E, D)), NEW k, k[3] # TimesOf(E, D)[i]
  PROVE  Get(g[i].backlog, k) = Get(g[i - 1].backlog, k)
<1> DEFINE t == TimesOf(E, D)[i]
           a == g[i - 1]
           r == Served(a, t, E, D)
<1>1. t \in Nat /\ a \in Ledgers /\ r \in Ledgers /\ g[i] = CloseBucket(r, t)
  BY RunStep
<1>2. k \notin {DKey(d) : d \in InBucket(D, t)}
  BY DEF InBucket, DKey
<1>3. Get(r.backlog, k) = Get(a.backlog, k)
  <2> HIDE DEF t, a
  <2> QED
    BY <1>1, <1>2, ServedKeys
<1>4. CloseBucket(r, t).backlog = r.backlog
  <2> HIDE DEF r, t
  <2> QED
    BY <1>1, CloseOne
<1> QED
  BY <1>1, <1>3, <1>4

(* Closing a bucket changes no stock and no backlog.                       *)
LEMMA ClosedCleared ==
  ASSUME NEW a \in Ledgers, NEW b \in Ledgers, NEW k, Cleared(a, b, k), NEW t \in Nat
  PROVE  Cleared(CloseBucket(a, t), CloseBucket(b, t), k)
<1>1. CloseBucket(a, t).current = a.current /\ CloseBucket(a, t).backlog = a.backlog
  BY CloseOne
<1>2. CloseBucket(b, t).current = b.current /\ CloseBucket(b, t).backlog = b.backlog
  BY CloseOne
<1> QED
  BY <1>1, <1>2 DEF Cleared

(* A log that brings to one demand's stock, in its bucket, what the demand *)
(* lacks, derives the same stocks and backlogs but for that demand's.      *)
LEMMA RunsClear ==
  ASSUME NEW E, IsLog(E), NoNetLoss(E), NEW F, IsLog(F),
         NEW D, IsDemands(D), OneDemandEach(D), TimesOf(F, D) = TimesOf(E, D),
         NEW g, IsRun(g, E, D), NEW h, IsRun(h, F, D),
         NEW d \in D, NEW q \in Int, q > 0,
         q = Get(g[Len(TimesOf(E, D))].backlog, DKey(d)),
         \A u : u # d.time_bucket => InBucket(F, u) = InBucket(E, u),
         \A x : NetMove(InBucket(F, d.time_bucket), x)
                  = NetMove(InBucket(E, d.time_bucket), x) + (IF x = DStock(d) THEN q ELSE 0)
  PROVE  Cleared(g[Len(TimesOf(E, D))], h[Len(TimesOf(E, D))], DKey(d))
<1> DEFINE times == TimesOf(E, D)
           n == Len(times)
           t == d.time_bucket
           k == DKey(d)
<1>1. /\ n \in Nat
      /\ \A i \in 1 .. n : times[i] \in Nat
      /\ \A i, j \in 1 .. n : i < j => times[i] < times[j]
  BY TimesFacts
<1>2. PICK m \in 1 .. n : t = times[m]
  BY TimesFacts
<1>3. k[3] = t /\ t \in Nat /\ IsDemand(d)
  BY DemandType DEF IsDemands
<1>4. ASSUME NEW i \in 1 .. n
      PROVE  /\ g[i - 1] \in Ledgers /\ Served(g[i - 1], times[i], E, D) \in Ledgers
             /\ g[i] = CloseBucket(Served(g[i - 1], times[i], E, D), times[i])
  BY RunStep
<1>5. ASSUME NEW i \in 1 .. n
      PROVE  /\ h[i - 1] \in Ledgers /\ Served(h[i - 1], times[i], F, D) \in Ledgers
             /\ h[i] = CloseBucket(Served(h[i - 1], times[i], F, D), times[i])
  <2>1. i \in 1 .. Len(TimesOf(F, D))
    OBVIOUS
  <2> QED
    BY <2>1, RunStep
<1>6. \A i \in 0 .. n : NotBelowZero(g[i])
  BY RunNotBelowZero
<1>7. \A i \in 1 .. n : k[3] # times[i] => Get(g[i].backlog, k) = Get(g[i - 1].backlog, k)
  BY StepKeepsBacklog
<1>8. g[0] = NothingDerived /\ h[0] = NothingDerived
  BY DEF IsRun
<1>9. \A i \in 1 .. n : times[i] = t => i = m
  <2>1. ASSUME NEW i \in 1 .. n, times[i] = t, i # m PROVE FALSE
    <3>1. i < m \/ m < i
      BY <2>1
    <3>2. times[i] \in Nat /\ times[m] \in Nat
      BY <1>1
    <3> QED
      BY <1>1, <1>2, <2>1, <3>1, <3>2
  <2> QED
    BY <2>1
<1>10. q = Get(g[n].backlog, k)
  OBVIOUS
<1> HIDE DEF times, n, t, k
(* Before the bucket both runs agree.                                      *)
<1> DEFINE P == {i \in 0 .. n : i < m => h[i] = g[i]}
<1>11. \A i \in 0 .. n : i \in P
  <2>1. 0 \in P
    BY <1>1, <1>8
  <2>2. ASSUME NEW i \in 1 .. n, i - 1 \in P PROVE i \in P
    <3>1. i \in 0 .. n
      BY <1>1
    <3>2. ASSUME i < m PROVE h[i] = g[i]
      <4>1. h[i - 1] = g[i - 1]
        BY <1>1, <2>2, <3>2
      <4>2. times[i] # t
        BY <1>9, <3>2
      <4>3. InBucket(F, times[i]) = InBucket(E, times[i])
        BY <4>2 DEF t
      <4>4. Served(h[i - 1], times[i], F, D) = Served(g[i - 1], times[i], E, D)
        BY <4>1, <4>3 DEF Served
      <4> QED
        BY <1>4, <1>5, <4>4
    <3> QED
      BY <3>1, <3>2
  <2> HIDE DEF P
  <2> QED
    BY <1>1, <2>1, <2>2, IntervalInduction
(* After it the backlog of the demand stays.                               *)
<1> DEFINE R == {i \in 0 .. n : i >= m => Get(g[i].backlog, k) = Get(g[m].backlog, k)}
<1>12. \A i \in 0 .. n : i \in R
  <2>1. 0 \in R
    BY <1>1, <1>2
  <2>2. ASSUME NEW i \in 1 .. n, i - 1 \in R PROVE i \in R
    <3>1. i \in 0 .. n /\ i - 1 \in 0 .. n
      BY <1>1
    <3>2. CASE i > m
      <4>1. times[i] # t
        BY <1>9, <3>2
      <4>2. Get(g[i].backlog, k) = Get(g[i - 1].backlog, k)
        BY <1>3, <1>7, <4>1
      <4>3. i - 1 >= m
        BY <1>1, <3>2
      <4> QED
        BY <2>2, <3>1, <4>2, <4>3
    <3>3. CASE i = m
      BY <3>1, <3>3
    <3>4. CASE i < m
      BY <1>1, <3>1, <3>4
    <3> QED
      BY <1>1, <3>2, <3>3, <3>4
  <2> HIDE DEF R
  <2> QED
    BY <1>1, <2>1, <2>2, IntervalInduction
(* The bucket itself.                                                      *)
<1>13. Cleared(g[m], h[m], k)
  <2>1. m - 1 \in 0 .. n /\ m - 1 < m /\ n \in 0 .. n /\ n >= m
    BY <1>1
  <2>2. h[m - 1] = g[m - 1]
    BY <1>11, <2>1
  <2>3. g[m - 1] \in NonNeg
    BY <1>4, <1>6, <2>1 DEF NonNeg, NotBelowZero
  <2>4. Get(g[n].backlog, k) = Get(g[m].backlog, k)
    BY <1>12, <2>1
  <2> DEFINE r == Served(g[m - 1], t, E, D)
             s == Served(g[m - 1], t, F, D)
  <2>5. /\ r \in Ledgers /\ s \in Ledgers
        /\ g[m] = CloseBucket(r, t) /\ h[m] = CloseBucket(s, t)
    BY <1>2, <1>4, <1>5, <2>2
  <2>6. q = Get(r.backlog, k)
    <3> HIDE DEF r
    <3>1. CloseBucket(r, t).backlog = r.backlog
      BY <1>3, <2>5, CloseOne
    <3> QED
      BY <1>10, <2>4, <2>5, <3>1
  <2>7. \A x : NetMove(InBucket(E, t), x) >= 0
    BY <1>3 DEF NoNetLoss
  <2>8. d \in InBucket(D, t)
    BY DEF InBucket, t
  <2>9. \A x : NetMove(InBucket(F, t), x)
                 = NetMove(InBucket(E, t), x) + (IF x = DStock(d) THEN q ELSE 0)
    BY DEF t
  <2>10. Cleared(r, s, k)
    BY <2>3, <2>6, <2>7, <2>8, <2>9, BucketClears DEF k
  <2> HIDE DEF r, s
  <2> QED
    BY <1>3, <2>5, <2>10, ClosedCleared
<1> DEFINE Q == {i \in 0 .. n : i >= m => Cleared(g[i], h[i], k)}
<1>14. \A i \in 0 .. n : i \in Q
  <2>1. 0 \in Q
    BY <1>1, <1>2
  <2>2. ASSUME NEW i \in 1 .. n, i - 1 \in Q PROVE i \in Q
    <3>1. i \in 0 .. n /\ i - 1 \in 0 .. n
      BY <1>1
    <3>2. CASE i > m
      <4>1. times[i] # t /\ times[i] \in Nat
        BY <1>1, <1>9, <3>2
      <4>2. i - 1 >= m
        BY <1>1, <3>2
      <4>3. Cleared(g[i - 1], h[i - 1], k)
        BY <2>2, <4>2
      <4>4. InBucket(E, times[i]) = InBucket(F, times[i])
        BY <4>1 DEF t
      <4>5. \A e \in InBucket(D, times[i]) : DKey(e) # k
        BY <1>3, <4>1 DEF InBucket, DKey
      <4>6. Cleared(Served(g[i - 1], times[i], E, D), Served(h[i - 1], times[i], F, D), k)
        BY <1>4, <1>5, <4>3, <4>4, <4>5, BucketStaysCleared
      <4>7. Cleared(g[i], h[i], k)
        BY <1>4, <1>5, <4>1, <4>6, ClosedCleared
      <4> QED
        BY <3>1, <4>7
    <3>3. CASE i = m
      BY <1>13, <3>1, <3>3
    <3>4. CASE i < m
      BY <1>1, <3>1, <3>4
    <3> QED
      BY <1>1, <3>2, <3>3, <3>4
  <2> HIDE DEF Q
  <2> QED
    BY <1>1, <2>1, <2>2, IntervalInduction
<1>15. n \in 0 .. n /\ n >= m
  BY <1>1
<1> QED
  BY <1>14, <1>15 DEF n, times, k

-----------------------------------------------------------------------------
(* What all nodes together hold of a product.                              *)

(* One value of a sum changes.                                             *)
LEMMA SumOneMore ==
  ASSUME NEW N, IsFiniteSet(N), NEW f \in [N -> Int], NEW h \in [N -> Int],
         NEW x \in N, NEW d \in Int, h[x] = f[x] + d, \A y \in N \ {x} : h[y] = f[y]
  PROVE  SumFunctionOnSet(h, N) = SumFunctionOnSet(f, N) + d
<1> DEFINE R == N \ {x}
<1>1. N \in SUBSET N /\ R \in SUBSET N /\ IsFiniteSet(R)
  BY FS_Subset
<1>2. /\ SumFunctionOnSet(f, N) = f[x] + SumFunctionOnSet(f, R)
      /\ SumFunctionOnSet(f, R) \in Int
  BY <1>1, SumTakesOut
<1>3. SumFunctionOnSet(h, N) = h[x] + SumFunctionOnSet(h, R)
  BY <1>1, SumTakesOut
<1>4. SumFunctionOnSet(f, R) = SumFunctionOnSet(h, R)
  <2>1. /\ R \subseteq N /\ R \in SUBSET R
        /\ \A y \in R : f[y] \in Int /\ f[y] = h[y]
        /\ \A y \in N : h[y] \in Int
    OBVIOUS
  <2> HIDE DEF R
  <2> QED
    BY <1>1, <2>1, SumSame
<1>5. f[x] \in Int
  OBVIOUS
<1> HIDE DEF R
<1> QED
  BY <1>2, <1>3, <1>4, <1>5

(* A sum over two sets that have nothing in common.                        *)
LEMMA SumUnion ==
  ASSUME NEW S, IsFiniteSet(S), NEW f, \A x \in S : f[x] \in Int,
         NEW A \in SUBSET S, NEW B \in SUBSET S, A \cap B = {}
  PROVE  SumFunctionOnSet(f, A \cup B) = SumFunctionOnSet(f, A) + SumFunctionOnSet(f, B)
<1> DEFINE P == {T \in SUBSET S : T \cap A = {} =>
                   SumFunctionOnSet(f, A \cup T)
                     = SumFunctionOnSet(f, A) + SumFunctionOnSet(f, T)}
<1>1. {} \in P
  <2>1. SumFunctionOnSet(f, {}) = 0 /\ SumFunctionOnSet(f, A) \in Int
    BY SumTakesOut
  <2>2. A \cup {} = A
    OBVIOUS
  <2> QED
    BY <2>1, <2>2
<1>2. ASSUME NEW T \in SUBSET S, NEW x \in S \ T, T \in P PROVE T \cup {x} \in P
  <2> SUFFICES ASSUME (T \cup {x}) \cap A = {}
               PROVE  SumFunctionOnSet(f, A \cup (T \cup {x}))
                        = SumFunctionOnSet(f, A) + SumFunctionOnSet(f, T \cup {x})
    OBVIOUS
  <2> DEFINE AT == A \cup T
  <2>1. /\ AT \in SUBSET S /\ x \in S \ AT /\ A \cup (T \cup {x}) = AT \cup {x}
        /\ T \cap A = {}
    OBVIOUS
  <2>2. SumFunctionOnSet(f, AT) = SumFunctionOnSet(f, A) + SumFunctionOnSet(f, T)
    BY <1>2, <2>1
  <2> HIDE DEF P, AT
  <2>3. SumFunctionOnSet(f, AT \cup {x}) = SumFunctionOnSet(f, AT) + f[x]
    BY <2>1, SumAddOne
  <2>4. SumFunctionOnSet(f, T \cup {x}) = SumFunctionOnSet(f, T) + f[x]
        /\ SumFunctionOnSet(f, T) \in Int
    BY SumAddOne, SMTT(30)
  <2>5. SumFunctionOnSet(f, A) \in Int /\ f[x] \in Int
    BY SumTakesOut
  <2>6. SumFunctionOnSet(f, A \cup (T \cup {x})) = SumFunctionOnSet(f, AT \cup {x})
    BY <2>1
  <2> QED
    BY <2>2, <2>3, <2>4, <2>5, <2>6
<1>3. \A T \in SUBSET S : T \in P
  <2> HIDE DEF P
  <2> QED
    BY <1>1, <1>2, FiniteSetInduction
<1> QED
  BY <1>3

(* What is nothing adds nothing.                                           *)
LEMMA SumZero ==
  ASSUME NEW S, IsFiniteSet(S), NEW f, \A x \in S : f[x] = 0
  PROVE  SumFunctionOnSet(f, S) = 0
<1> DEFINE P == {T \in SUBSET S : SumFunctionOnSet(f, T) = 0}
<1>1. \A x \in S : f[x] \in Int
  OBVIOUS
<1>2. {} \in P
  BY <1>1, SumTakesOut
<1>3. ASSUME NEW T \in SUBSET S, NEW x \in S \ T, T \in P PROVE T \cup {x} \in P
  <2>1. SumFunctionOnSet(f, T \cup {x}) = SumFunctionOnSet(f, T) + f[x]
    BY <1>1, SumAddOne
  <2>2. SumFunctionOnSet(f, T) = 0 /\ f[x] = 0
    BY <1>3
  <2> QED
    BY <2>1, <2>2
<1>4. \A T \in SUBSET S : T \in P
  <2> HIDE DEF P
  <2> QED
    BY <1>2, <1>3, FiniteSetInduction
<1> QED
  BY <1>4

(* Only what is not nothing counts.                                        *)
LEMMA SumDrop ==
  ASSUME NEW S, IsFiniteSet(S), NEW f, \A x \in S : f[x] \in Int,
         NEW A \in SUBSET S, \A x \in S \ A : f[x] = 0
  PROVE  SumFunctionOnSet(f, S) = SumFunctionOnSet(f, A)
<1> DEFINE B == S \ A
<1>1. B \in SUBSET S /\ A \cap B = {} /\ IsFiniteSet(B) /\ A \cup B = S
  BY FS_Subset
<1>2. SumFunctionOnSet(f, B) = 0
  <2>1. \A x \in B : f[x] = 0
    OBVIOUS
  <2> HIDE DEF B
  <2> QED
    BY <1>1, <2>1, SumZero
<1> HIDE DEF B
<1>3. SumFunctionOnSet(f, A \cup B) = SumFunctionOnSet(f, A) + SumFunctionOnSet(f, B)
  BY <1>1, SumUnion
<1>4. SumFunctionOnSet(f, A) \in Int
  BY SumTakesOut
<1>5. SumFunctionOnSet(f, S) = SumFunctionOnSet(f, A \cup B)
  BY <1>1
<1> QED
  BY <1>2, <1>3, <1>4, <1>5

-----------------------------------------------------------------------------
(* Conservation: what a ledger holds of a product and what it has sold of  *)
(* it change together.                                                     *)

Held(r, p, N) == SumFunctionOnSet([n \in N |-> Get(r.current, <<n, p>>)], N)

Sales(r, M) == SumFunctionOnSet([k \in M |-> Get(r.demand, k) - Get(r.backlog, k)], M)

Balance(r, p, N, M) == Held(r, p, N) + Sales(r, M)

(* Both are integers.                                                      *)
LEMMA BalanceType ==
  ASSUME NEW r \in Ledgers, NEW p, NEW N, IsFiniteSet(N), NEW M, IsFiniteSet(M)
  PROVE  /\ Held(r, p, N) \in Int /\ Sales(r, M) \in Int
         /\ [n \in N |-> Get(r.current, <<n, p>>)] \in [N -> Int]
         /\ [k \in M |-> Get(r.demand, k) - Get(r.backlog, k)] \in [M -> Int]
<1> DEFINE f == [n \in N |-> Get(r.current, <<n, p>>)]
           h == [k \in M |-> Get(r.demand, k) - Get(r.backlog, k)]
<1>1. \A k : Get(r.current, k) \in Int /\ Get(r.demand, k) \in Int /\ Get(r.backlog, k) \in Int
  BY LedgerType, DictType
<1>2. f \in [N -> Int] /\ h \in [M -> Int]
  BY <1>1
<1> HIDE DEF f, h
<1>3. (\A n \in N : f[n] \in Int) /\ (\A k \in M : h[k] \in Int) /\ N \in SUBSET N /\ M \in SUBSET M
  BY <1>2
<1>4. SumFunctionOnSet(f, N) \in Int
  BY <1>3, SumTakesOut
<1>5. SumFunctionOnSet(h, M) \in Int
  BY <1>3, SumTakesOut
<1> QED
  BY <1>2, <1>4, <1>5 DEF Held, Sales, f, h

(* Serving a demand for the first time: what is sold leaves the stock.     *)
LEMMA ServeBalances ==
  ASSUME NEW a \in Ledgers, NEW d, IsDemand(d), NEW p,
         NEW N, IsFiniteSet(N), d.market \in N,
         NEW M, IsFiniteSet(M), DKey(d) \in M <=> d.product = p,
         Get(a.demand, DKey(d)) = 0, Get(a.backlog, DKey(d)) = 0
  PROVE  Balance(ServeDemand(a, d), p, N, M) = Balance(a, p, N, M)
<1> DEFINE r == ServeDemand(a, d)
           f == [n \in N |-> Get(a.current, <<n, p>>)]
           f2 == [n \in N |-> Get(r.current, <<n, p>>)]
           h == [k \in M |-> Get(a.demand, k) - Get(a.backlog, k)]
           h2 == [k \in M |-> Get(r.demand, k) - Get(r.backlog, k)]
           sold == Sold(a, d)
<1>1. /\ r \in Ledgers /\ sold \in Int /\ d.quantity \in Int
      /\ Get(a.current, DStock(d)) \in Int
      /\ Get(r.current, DStock(d)) = Get(a.current, DStock(d)) - sold
      /\ Get(r.demand, DKey(d)) = d.quantity
      /\ Get(r.backlog, DKey(d)) = d.quantity - sold
      /\ \A x : x # DStock(d) => Get(r.current, x) = Get(a.current, x)
      /\ \A x : x # DKey(d) => /\ Get(r.demand, x) = Get(a.demand, x)
                               /\ Get(r.backlog, x) = Get(a.backlog, x)
  <2>1. sold \in Int /\ d.quantity \in Int
    BY ServeOne, DemandType
  <2>2. /\ r \in Ledgers
        /\ Get(a.current, DStock(d)) \in Int
        /\ Get(r.current, DStock(d)) = Get(a.current, DStock(d)) - sold
        /\ Get(r.demand, DKey(d)) = Get(a.demand, DKey(d)) + d.quantity
        /\ Get(r.backlog, DKey(d)) = d.quantity - sold
    BY ServeValues
  <2>3. /\ \A x : x # DStock(d) => Get(r.current, x) = Get(a.current, x)
        /\ \A x : x # DKey(d) => /\ Get(r.demand, x) = Get(a.demand, x)
                                 /\ Get(r.backlog, x) = Get(a.backlog, x)
    BY ServeOthers
  <2> HIDE DEF sold, r
  <2>4. Get(r.demand, DKey(d)) = d.quantity
    BY <2>1, <2>2
  <2> QED
    BY <2>1, <2>2, <2>3, <2>4
<1> HIDE DEF r, sold
<1>2. f \in [N -> Int] /\ f2 \in [N -> Int] /\ h \in [M -> Int] /\ h2 \in [M -> Int]
  BY <1>1, BalanceType
<1>3. CASE d.product = p
  <2>1. DStock(d) = <<d.market, p>> /\ DKey(d) \in M /\ \A n : n # d.market => <<n, p>> # DStock(d)
    BY <1>3 DEF DStock
  <2>2. f2[d.market] = f[d.market] + (- sold) /\ \A n \in N \ {d.market} : f2[n] = f[n]
    BY <1>1, <2>1
  <2>3. h2[DKey(d)] = h[DKey(d)] + sold /\ \A k \in M \ {DKey(d)} : h2[k] = h[k]
    BY <1>1, <2>1
  <2> HIDE DEF f, f2, h, h2
  <2>4. SumFunctionOnSet(f2, N) = SumFunctionOnSet(f, N) + (- sold)
    <3>1. - sold \in Int
      BY <1>1
    <3> QED
      BY <1>2, <2>2, <3>1, SumOneMore
  <2>5. SumFunctionOnSet(h2, M) = SumFunctionOnSet(h, M) + sold
    BY <1>1, <1>2, <2>1, <2>3, SumOneMore
  <2>6. SumFunctionOnSet(f, N) \in Int /\ SumFunctionOnSet(h, M) \in Int
    <3>1. Held(a, p, N) = SumFunctionOnSet(f, N) /\ Sales(a, M) = SumFunctionOnSet(h, M)
      BY DEF Held, Sales, f, h
    <3>2. Held(a, p, N) \in Int /\ Sales(a, M) \in Int
      BY BalanceType
    <3> QED
      BY <3>1, <3>2
  <2> QED
    BY <1>1, <2>4, <2>5, <2>6 DEF Balance, Held, Sales, f, f2, h, h2, r
<1>4. CASE d.product # p
  <2>1. \A n \in N : Get(r.current, <<n, p>>) = Get(a.current, <<n, p>>)
    <3>1. \A n : <<n, p>> # DStock(d)
      BY <1>4 DEF DStock
    <3> QED
      BY <1>1, <3>1
  <2>2. \A k \in M : Get(r.demand, k) = Get(a.demand, k) /\ Get(r.backlog, k) = Get(a.backlog, k)
    BY <1>1, <1>4
  <2>3. f2 = f /\ h2 = h
    BY <2>1, <2>2
  <2> HIDE DEF f, f2, h, h2
  <2> QED
    BY <2>3 DEF Balance, Held, Sales, f, f2, h, h2, r
<1> QED
  BY <1>3, <1>4

(* What the events of a set bring of a product.                            *)
AboutProduct(E, p) == {e \in E : EventNode(e) # NoNode /\ e.product = p}

Moved(E, p) == SumFunctionOnSet(MovesOf(E), AboutProduct(E, p))

(* The sum over the nodes of what events do to each is the sum over the    *)
(* events.                                                                 *)
LEMMA MovesAddUp ==
  ASSUME NEW B, IsLog(B), NEW p, NEW N, IsFiniteSet(N),
         \A e \in B : EventNode(e) # NoNode => EventNode(e) \in N,
         NEW f \in [N -> Int]
  PROVE  /\ Moved(B, p) \in Int
         /\ SumFunctionOnSet([n \in N |-> f[n] + NetMove(B, <<n, p>>)], N)
              = SumFunctionOnSet(f, N) + Moved(B, p)
<1> DEFINE m == MovesOf(B)
           Sum(D, k) == SumFunctionOnSet(m, EventsAt(D, k))
           Part(D) == [n \in N |-> f[n] + Sum(D, <<n, p>>)]
           P == {D \in SUBSET B : SumFunctionOnSet(Part(D), N)
                    = SumFunctionOnSet(f, N) + SumFunctionOnSet(m, AboutProduct(D, p))}
<1>1. m \in [B -> Int] /\ IsFiniteSet(B) /\ \A e \in B : m[e] = Signed(e) /\ m[e] \in Int
  BY LogType DEF MovesOf
<1>2. \A D \in SUBSET B : \A k : EventsAt(D, k) \in SUBSET B /\ Sum(D, k) \in Int
  <2> HIDE DEF m
  <2>1. \A T \in SUBSET B : SumFunctionOnSet(m, T) \in Int
    BY <1>1, SumTakesOut
  <2> QED
    BY <2>1 DEF EventsAt
<1>3. \A D \in SUBSET B : Part(D) \in [N -> Int] /\ AboutProduct(D, p) \in SUBSET B
                         /\ SumFunctionOnSet(m, AboutProduct(D, p)) \in Int
  <2>1. \A D \in SUBSET B : AboutProduct(D, p) \in SUBSET B
    BY DEF AboutProduct
  <2> HIDE DEF m
  <2>2. \A T \in SUBSET B : SumFunctionOnSet(m, T) \in Int
    BY <1>1, SumTakesOut
  <2> HIDE DEF Sum
  <2>3. ASSUME NEW D \in SUBSET B PROVE Part(D) \in [N -> Int]
    <3>1. \A n \in N : f[n] \in Int /\ Sum(D, <<n, p>>) \in Int
      BY <1>2
    <3>2. \A n \in N : f[n] + Sum(D, <<n, p>>) \in Int
      BY <3>1
    <3> QED
      BY <3>2
  <2> QED
    BY <2>1, <2>2, <2>3
<1>4. SumFunctionOnSet(f, N) \in Int
  BY SumTakesOut
<1>5. {} \in P
  <2>1. SumFunctionOnSet(m, {}) = 0
    <3> HIDE DEF m
    <3> QED
      BY <1>1, SumTakesOut
  <2>2. \A k : EventsAt({}, k) = {}
    BY DEF EventsAt
  <2>3. AboutProduct({}, p) = {}
    BY DEF AboutProduct
  <2>4. \A k : Sum({}, k) = 0
    BY <2>1, <2>2
  <2> HIDE DEF Sum, m
  <2>5. Part({}) = f
    BY <2>4
  <2> HIDE DEF Part
  <2>6. SumFunctionOnSet(m, AboutProduct({}, p)) = 0
    BY <2>1, <2>3
  <2>7. SumFunctionOnSet(Part({}), N) = SumFunctionOnSet(f, N)
    BY <2>5
  <2> QED
    BY <1>4, <2>6, <2>7
<1>6. ASSUME NEW D \in SUBSET B, NEW e \in B \ D, D \in P PROVE D \cup {e} \in P
  <2> DEFINE De == D \cup {e}
             n0 == EventNode(e)
  <2>0. De \in SUBSET B /\ m[e] \in Int /\ m[e] = Signed(e)
    BY <1>1
  <2>1. SumFunctionOnSet(Part(D), N)
          = SumFunctionOnSet(f, N) + SumFunctionOnSet(m, AboutProduct(D, p))
    BY <1>6
  <2>2. CASE n0 # NoNode /\ e.product = p
    <3>1. n0 \in N /\ StockOf(e) = <<n0, p>>
      BY <2>2 DEF StockOf
    <3>2. /\ EventsAt(De, <<n0, p>>) = EventsAt(D, <<n0, p>>) \cup {e}
          /\ e \in B \ EventsAt(D, <<n0, p>>) /\ EventsAt(D, <<n0, p>>) \in SUBSET B
      BY <2>2, <3>1 DEF EventsAt
    <3>3. /\ AboutProduct(De, p) = AboutProduct(D, p) \cup {e}
          /\ e \in B \ AboutProduct(D, p) /\ AboutProduct(D, p) \in SUBSET B
      BY <2>2 DEF AboutProduct
    <3>4. \A n : n # n0 => EventsAt(De, <<n, p>>) = EventsAt(D, <<n, p>>)
      BY <3>1 DEF EventsAt
    <3> HIDE DEF m, De, n0, P
    <3>5. SumFunctionOnSet(m, EventsAt(D, <<n0, p>>) \cup {e})
            = SumFunctionOnSet(m, EventsAt(D, <<n0, p>>)) + m[e]
      BY <1>1, <3>2, SumAddOne
    <3>6. SumFunctionOnSet(m, AboutProduct(D, p) \cup {e})
            = SumFunctionOnSet(m, AboutProduct(D, p)) + m[e]
      BY <1>1, <3>3, SumAddOne
    <3>7. Sum(De, <<n0, p>>) = Sum(D, <<n0, p>>) + m[e]
      BY <3>2, <3>5
    <3>8. \A n : n # n0 => Sum(De, <<n, p>>) = Sum(D, <<n, p>>)
      BY <3>4
    <3> HIDE DEF Sum
    <3>9. \A k : Sum(D, k) \in Int
      BY <1>2
    <3>10. Part(De)[n0] = Part(D)[n0] + m[e]
      BY <2>0, <3>1, <3>7, <3>9
    <3>11. \A n \in N \ {n0} : Part(De)[n] = Part(D)[n]
      BY <3>8
    <3>12. Part(De) \in [N -> Int] /\ Part(D) \in [N -> Int]
           /\ SumFunctionOnSet(m, AboutProduct(D, p)) \in Int
      BY <1>3, <2>0
    <3> HIDE DEF Part
    <3>13. SumFunctionOnSet(Part(De), N) = SumFunctionOnSet(Part(D), N) + m[e]
      BY <2>0, <3>1, <3>10, <3>11, <3>12, SumOneMore
    <3>14. SumFunctionOnSet(m, AboutProduct(De, p)) = SumFunctionOnSet(m, AboutProduct(D, p)) + m[e]
      BY <3>3, <3>6
    <3>15. SumFunctionOnSet(Part(De), N)
             = SumFunctionOnSet(f, N) + SumFunctionOnSet(m, AboutProduct(De, p))
      BY <1>4, <2>0, <2>1, <3>12, <3>13, <3>14
    <3> QED
      BY <2>0, <3>15 DEF P, De
  <2>3. CASE ~(n0 # NoNode /\ e.product = p)
    <3>1. \A n : EventsAt(De, <<n, p>>) = EventsAt(D, <<n, p>>)
      BY <2>3 DEF EventsAt, StockOf
    <3>2. AboutProduct(De, p) = AboutProduct(D, p)
      BY <2>3 DEF AboutProduct
    <3> HIDE DEF m, De, P
    <3>3. \A n : Sum(De, <<n, p>>) = Sum(D, <<n, p>>)
      BY <3>1
    <3> HIDE DEF Sum
    <3>4. Part(De) = Part(D)
      BY <3>3
    <3> HIDE DEF Part
    <3>5. SumFunctionOnSet(Part(De), N)
             = SumFunctionOnSet(f, N) + SumFunctionOnSet(m, AboutProduct(De, p))
      BY <2>1, <3>2, <3>4
    <3> QED
      BY <2>0, <3>5 DEF P, De
  <2> QED
    BY <2>2, <2>3
<1>7. \A D \in SUBSET B : D \in P
  <2> HIDE DEF P
  <2> QED
    BY <1>1, <1>5, <1>6, FiniteSetInduction
<1>8. SumFunctionOnSet(Part(B), N)
        = SumFunctionOnSet(f, N) + SumFunctionOnSet(m, AboutProduct(B, p))
  BY <1>7
<1>9. Part(B) = [n \in N |-> f[n] + NetMove(B, <<n, p>>)]
  BY DEF NetMove
<1>10. Moved(B, p) = SumFunctionOnSet(m, AboutProduct(B, p)) /\ Moved(B, p) \in Int
  <2>1. Moved(B, p) = SumFunctionOnSet(m, AboutProduct(B, p))
    BY DEF Moved
  <2> HIDE DEF m
  <2> QED
    BY <1>3, <2>1
<1> HIDE DEF Part, m
<1> QED
  BY <1>8, <1>9, <1>10

(* Events change the balance by what they bring.                           *)
LEMMA EventsBalance ==
  ASSUME NEW a \in Ledgers, NEW B, IsLog(B), NEW p, NEW N, IsFiniteSet(N),
         NEW M, IsFiniteSet(M),
         \A e \in B : EventNode(e) # NoNode => EventNode(e) \in N
  PROVE  /\ Moved(B, p) \in Int
         /\ Balance(AfterEvents(a, B, B), p, N, M) = Balance(a, p, N, M) + Moved(B, p)
<1> DEFINE r == AfterEvents(a, B, B)
           f == [n \in N |-> Get(a.current, <<n, p>>)]
<1>1. r.demand = a.demand /\ r.backlog = a.backlog
  BY DEF AfterEvents
<1>2. \A k : Get(r.current, k) = Get(a.current, k) + NetMove(B, k)
  BY CurrentAfter
<1>3. f \in [N -> Int] /\ Held(a, p, N) \in Int /\ Sales(a, M) \in Int
  BY BalanceType
<1> HIDE DEF r
<1>4. [n \in N |-> Get(r.current, <<n, p>>)] = [n \in N |-> f[n] + NetMove(B, <<n, p>>)]
  BY <1>2
<1>5. Held(a, p, N) = SumFunctionOnSet(f, N)
  BY DEF Held
<1> HIDE DEF f
<1>6. /\ Moved(B, p) \in Int
      /\ SumFunctionOnSet([n \in N |-> f[n] + NetMove(B, <<n, p>>)], N)
           = SumFunctionOnSet(f, N) + Moved(B, p)
  BY <1>3, MovesAddUp
<1>7. Held(r, p, N) = Held(a, p, N) + Moved(B, p)
  BY <1>4, <1>5, <1>6 DEF Held
<1>8. Sales(r, M) = Sales(a, M)
  BY <1>1 DEF Sales
<1> QED
  BY <1>3, <1>6, <1>7, <1>8 DEF Balance, r


(* A log, its demands, and the nodes and demand keys that balances are     *)
(* reckoned over.                                                          *)
Ground(E, D, p, N, M) ==
  /\ IsLog(E) /\ IsDemands(D) /\ OneDemandEach(D)
  /\ IsFiniteSet(N) /\ IsFiniteSet(M)
  /\ \A e \in E : EventNode(e) # NoNode => EventNode(e) \in N
  /\ \A d \in D : d.market \in N /\ (DKey(d) \in M <=> d.product = p)

(* A bucket changes the balance by what its events bring.                  *)
LEMMA BucketBalances ==
  ASSUME NEW acc \in Ledgers, NEW E, NEW D, NEW t, NEW p, NEW N, NEW M, Ground(E, D, p, N, M),
         \A d \in InBucket(D, t) :
           Get(acc.demand, DKey(d)) = 0 /\ Get(acc.backlog, DKey(d)) = 0
  PROVE  /\ Moved(InBucket(E, t), p) \in Int
         /\ Balance(Served(acc, t, E, D), p, N, M)
              = Balance(acc, p, N, M) + Moved(InBucket(E, t), p)
<1> DEFINE B == InBucket(E, t)
           list == OrdersOf(D, t)
           n == Len(list)
<1>1. PICK h : IsService(h, acc, t, E, D)
  BY ServiceExists DEF Ground
<1>2. /\ n \in Nat
      /\ \A i \in 1 .. n : list[i] \in D /\ IsDemand(list[i]) /\ list[i].time_bucket = t
      /\ \A i, j \in 1 .. n : list[i] = list[j] => i = j
      /\ h \in [0 .. n -> Ledgers]
      /\ h[0] = AfterEvents(acc, B, B)
      /\ \A i \in 1 .. n : h[i] = ServeDemand(h[i - 1], list[i])
      /\ Served(acc, t, E, D) = h[n]
  BY <1>1 DEF IsService
<1>3. IsLog(B) /\ B \in SUBSET E
  BY BucketIsLog DEF Ground
<1>4. /\ IsFiniteSet(N) /\ IsFiniteSet(M) /\ OneDemandEach(D)
      /\ \A e \in B : EventNode(e) # NoNode => EventNode(e) \in N
      /\ \A d \in D : d.market \in N /\ (DKey(d) \in M <=> d.product = p)
  BY <1>3 DEF Ground
<1>5. \A i \in 1 .. n : list[i] \in InBucket(D, t)
  BY <1>2 DEF InBucket
<1> HIDE DEF list, n, B
<1>6. /\ Moved(B, p) \in Int
      /\ Balance(h[0], p, N, M) = Balance(acc, p, N, M) + Moved(B, p)
  <2>1. Balance(AfterEvents(acc, B, B), p, N, M) = Balance(acc, p, N, M) + Moved(B, p)
        /\ Moved(B, p) \in Int
    BY <1>3, <1>4, EventsBalance
  <2> QED
    BY <1>2, <2>1
<1> DEFINE Fresh(x, d) == Get(x.demand, DKey(d)) = 0 /\ Get(x.backlog, DKey(d)) = 0
           Q == {i \in 0 .. n : /\ Balance(h[i], p, N, M) = Balance(h[0], p, N, M)
                               /\ \A j \in 1 .. n : j > i => Fresh(h[i], list[j])}
<1>7. 0 \in Q
  <2>1. h[0].demand = acc.demand /\ h[0].backlog = acc.backlog
    BY <1>2 DEF AfterEvents
  <2>2. \A j \in 1 .. n : Fresh(h[0], list[j])
    BY <1>5, <2>1
  <2> QED
    BY <1>2, <2>2
<1>8. ASSUME NEW i \in 1 .. n, i - 1 \in Q PROVE i \in Q
  <2> DEFINE a == h[i - 1]
             d == list[i]
  <2>1. i \in 0 .. n /\ i - 1 \in 0 .. n /\ i > i - 1
    BY <1>2
  <2>2. a \in Ledgers /\ IsDemand(d) /\ d \in D /\ h[i] = ServeDemand(a, d)
    BY <1>2, <2>1
  <2>3. /\ Balance(a, p, N, M) = Balance(h[0], p, N, M)
        /\ \A j \in 1 .. n : j > i - 1 => Fresh(a, list[j])
    BY <1>8
  <2>4. d.market \in N /\ (DKey(d) \in M <=> d.product = p)
    BY <1>4, <2>2
  <2>5. Get(a.demand, DKey(d)) = 0 /\ Get(a.backlog, DKey(d)) = 0
    BY <2>1, <2>3
  <2>6. ASSUME NEW j \in 1 .. n, j > i PROVE DKey(list[j]) # DKey(d)
    <3>1. list[j] # d /\ list[j] \in D
      BY <1>2, <2>1, <2>6
    <3> QED
      BY <1>4, <2>2, <3>1 DEF OneDemandEach
  <2>7. ASSUME NEW j \in 1 .. n, j > i PROVE Fresh(h[i], list[j])
    <3>1. Fresh(a, list[j])
      BY <2>1, <2>3, <2>7
    <3>2. DKey(list[j]) # DKey(d)
      BY <2>6, <2>7
    <3> HIDE DEF a, d, Q
    <3>3. \A x : x # DKey(d) => /\ Get(ServeDemand(a, d).demand, x) = Get(a.demand, x)
                               /\ Get(ServeDemand(a, d).backlog, x) = Get(a.backlog, x)
      BY <2>2, ServeOthers
    <3> QED
      BY <2>2, <3>1, <3>2, <3>3
  <2> HIDE DEF a, d, Q, Fresh
  <2>8. Balance(ServeDemand(a, d), p, N, M) = Balance(a, p, N, M)
    BY <1>4, <2>2, <2>4, <2>5, ServeBalances
  <2> QED
    BY <2>1, <2>2, <2>3, <2>7, <2>8 DEF Q
<1>9. \A i \in 0 .. n : i \in Q
  <2> HIDE DEF Q
  <2> QED
    BY <1>2, <1>7, <1>8, IntervalInduction
<1>10. Balance(h[n], p, N, M) = Balance(h[0], p, N, M)
  BY <1>2, <1>9
<1> QED
  BY <1>2, <1>6, <1>10 DEF B

(* Events of the buckets up to the i-th.                                   *)
EventsUpTo(E, D, i, p) == {e \in AboutProduct(E, p) : e.time_bucket \in BucketsUpTo(E, D, i)}

MovedUpTo(E, D, i, p) == SumFunctionOnSet(MovesOf(E), EventsUpTo(E, D, i, p))

(* The balance of a run is what all events so far have brought.            *)
LEMMA RunBalances ==
  ASSUME NEW E, NEW D, NEW p, NEW N, NEW M, Ground(E, D, p, N, M), NEW g, IsRun(g, E, D)
  PROVE  Balance(g[Len(TimesOf(E, D))], p, N, M) = Moved(E, p)
<1> DEFINE n == Len(TimesOf(E, D))
           Q == {i \in 0 .. n : Balance(g[i], p, N, M) = MovedUpTo(E, D, i, p)}
<1>0. /\ IsLog(E) /\ IsDemands(D) /\ OneDemandEach(D) /\ IsFiniteSet(E)
      /\ IsFiniteSet(N) /\ IsFiniteSet(M)
  BY DEF Ground, IsLog
<1>1. n \in Nat
  BY <1>0, TimesFacts
<1>2. MovesOf(E) \in [E -> Int] /\ \A e \in E : MovesOf(E)[e] \in Int
  BY <1>0, LogType
<1>3. 0 \in Q
  <2>1. EventsUpTo(E, D, 0, p) = {}
    BY DEF EventsUpTo, BucketsUpTo
  <2>2. SumFunctionOnSet(MovesOf(E), {}) = 0
    BY <1>0, <1>2, SumTakesOut
  <2>3. g[0] = NothingDerived
    BY DEF IsRun
  <2>4. \A k : Get(g[0].current, k) = 0 /\ Get(g[0].demand, k) = 0 /\ Get(g[0].backlog, k) = 0
    BY <2>3 DEF NothingDerived, Get
  <2>5. Held(g[0], p, N) = 0
    <3> DEFINE f == [x \in N |-> Get(g[0].current, <<x, p>>)]
    <3>1. \A x \in N : f[x] = 0
      BY <2>4
    <3> HIDE DEF f
    <3>2. SumFunctionOnSet(f, N) = 0
      BY <1>0, <3>1, SumZero
    <3> QED
      BY <3>2 DEF Held, f
  <2>6. Sales(g[0], M) = 0
    <3> DEFINE f == [k \in M |-> Get(g[0].demand, k) - Get(g[0].backlog, k)]
    <3>1. \A x \in M : f[x] = 0
      BY <2>4
    <3> HIDE DEF f
    <3>2. SumFunctionOnSet(f, M) = 0
      BY <1>0, <3>1, SumZero
    <3> QED
      BY <3>2 DEF Sales, f
  <2>7. Balance(g[0], p, N, M) = 0
    BY <2>5, <2>6 DEF Balance
  <2>8. MovedUpTo(E, D, 0, p) = 0
    BY <2>1, <2>2 DEF MovedUpTo
  <2> QED
    BY <1>1, <2>7, <2>8
<1>4. ASSUME NEW i \in 1 .. n, i - 1 \in Q PROVE i \in Q
  <2> DEFINE t == TimesOf(E, D)[i]
             a == g[i - 1]
             r == Served(a, t, E, D)
             before == EventsUpTo(E, D, i - 1, p)
             now == AboutProduct(InBucket(E, t), p)
  <2>1. /\ t \in Nat /\ a \in Ledgers /\ r \in Ledgers /\ g[i] = CloseBucket(r, t)
        /\ i \in 0 .. n /\ i - 1 \in 0 .. n
        /\ t \notin BucketsUpTo(E, D, i - 1)
        /\ BucketsUpTo(E, D, i) = BucketsUpTo(E, D, i - 1) \cup {t}
    BY <1>0, RunStep
  <2>2. \A d \in InBucket(D, t) : DKey(d) \notin DOMAIN a.demand /\ DKey(d) \notin DOMAIN a.backlog
    <3>1. /\ DOMAIN a.demand = {DKey(d) : d \in AskedBy(E, D, i - 1)}
          /\ DOMAIN a.backlog = {DKey(d) : d \in AskedBy(E, D, i - 1)}
      BY <1>0, <2>1, RunKeys
    <3>2. \A d \in AskedBy(E, D, i - 1) : DKey(d)[3] # t
      BY <2>1 DEF AskedBy, DKey
    <3>3. \A d \in InBucket(D, t) : DKey(d)[3] = t
      BY DEF InBucket, DKey
    <3> HIDE DEF a, t
    <3> QED
      BY <3>1, <3>2, <3>3
  <2>3. \A d \in InBucket(D, t) : Get(a.demand, DKey(d)) = 0 /\ Get(a.backlog, DKey(d)) = 0
    BY <2>2 DEF Get
  <2>4. Balance(a, p, N, M) = MovedUpTo(E, D, i - 1, p)
    BY <1>4
  <2>5. /\ EventsUpTo(E, D, i, p) = before \cup now /\ before \cap now = {}
        /\ before \in SUBSET E /\ now \in SUBSET E
    BY <2>1 DEF EventsUpTo, AboutProduct, InBucket
  <2> HIDE DEF a, t, r, Q
  <2>6. Balance(r, p, N, M) = Balance(a, p, N, M) + Moved(InBucket(E, t), p)
    BY <2>1, <2>3, BucketBalances DEF r
  <2>7. Moved(InBucket(E, t), p) = SumFunctionOnSet(MovesOf(E), now)
    <3> DEFINE B == InBucket(E, t)
    <3>1. IsLog(B) /\ B \subseteq E /\ IsFiniteSet(B)
      BY <1>0, BucketIsLog DEF IsLog
    <3>2. \A e \in B : MovesOf(B)[e] \in Int /\ MovesOf(B)[e] = MovesOf(E)[e]
      BY <1>2, <3>1 DEF MovesOf
    <3>3. now \in SUBSET B
      BY DEF AboutProduct
    <3> HIDE DEF B, now
    <3>4. SumFunctionOnSet(MovesOf(B), now) = SumFunctionOnSet(MovesOf(E), now)
      BY <1>0, <1>2, <3>1, <3>2, <3>3, SumSame
    <3> QED
      BY <3>4 DEF Moved, B, now
  <2> HIDE DEF before, now
  <2>8. SumFunctionOnSet(MovesOf(E), before \cup now)
          = SumFunctionOnSet(MovesOf(E), before) + SumFunctionOnSet(MovesOf(E), now)
    BY <1>0, <1>2, <2>5, SumUnion
  <2>9. MovedUpTo(E, D, i, p) = SumFunctionOnSet(MovesOf(E), before \cup now)
    BY <2>5 DEF MovedUpTo
  <2>10. MovedUpTo(E, D, i - 1, p) = SumFunctionOnSet(MovesOf(E), before)
    BY DEF MovedUpTo, before
  <2>11. Balance(g[i], p, N, M) = Balance(r, p, N, M)
    <3>1. CloseBucket(r, t).current = r.current /\ CloseBucket(r, t).demand = r.demand
          /\ CloseBucket(r, t).backlog = r.backlog
      BY <2>1, CloseOne
    <3> QED
      BY <2>1, <3>1 DEF Balance, Held, Sales
  <2>12. Balance(g[i], p, N, M) = MovedUpTo(E, D, i, p)
    BY <2>4, <2>6, <2>7, <2>8, <2>9, <2>10, <2>11
  <2> QED
    BY <2>1, <2>12 DEF Q
<1>5. \A i \in 0 .. n : i \in Q
  <2> HIDE DEF Q
  <2> QED
    BY <1>1, <1>3, <1>4, IntervalInduction
<1>6. Balance(g[n], p, N, M) = MovedUpTo(E, D, n, p)
  BY <1>1, <1>5
<1>7. EventsUpTo(E, D, n, p) = AboutProduct(E, p)
  <2>1. \A e \in E : \E j \in 1 .. n : e.time_bucket = TimesOf(E, D)[j]
    BY <1>0, TimesFacts
  <2> QED
    BY <2>1 DEF EventsUpTo, AboutProduct, BucketsUpTo
<1> QED
  BY <1>6, <1>7 DEF MovedUpTo, Moved


-----------------------------------------------------------------------------
(* Snapshots: the inventory's last entry of a stock is the stock.          *)

(* Ledgers a bucket can come to: stocks it does not touch stay.            *)
Tracks(acc, N) ==
  {x \in Ledgers :
     /\ DOMAIN acc.current \subseteq DOMAIN x.current
     /\ DOMAIN x.current \subseteq DOMAIN acc.current \cup x.touched
     /\ \A s \in DOMAIN x.current : s \in DOMAIN acc.current \/ s[1] \in N
     /\ \A s : s \notin x.touched => Get(x.current, s) = Get(acc.current, s)
     /\ x.inventory = acc.inventory}

(* The events of a bucket touch the stocks they change.                    *)
LEMMA EventsTrack ==
  ASSUME NEW acc \in Ledgers, NEW B, IsLog(B), NEW N,
         \A e \in B : EventNode(e) # NoNode => EventNode(e) \in N
  PROVE  AfterEvents(acc, B, B) \in Tracks(acc, N)
<1> DEFINE r == AfterEvents(acc, B, B)
           new == {StockOf(e) : e \in Located(B)}
<1>1. r \in Ledgers
  BY EventsKeepLedger
<1>2. /\ r.current = Added(acc.current, StocksOf(B), MovesOf(B), Located(B))
      /\ r.touched = acc.touched \cup new /\ r.inventory = acc.inventory
  BY DEF AfterEvents
<1>3. KeysOf(Located(B), StocksOf(B)) = new
  BY DEF KeysOf, StocksOf, Located
<1>4. DOMAIN r.current = DOMAIN acc.current \cup new
  <2>1. DOMAIN Added(acc.current, StocksOf(B), MovesOf(B), Located(B))
          = DOMAIN acc.current \cup KeysOf(Located(B), StocksOf(B))
    BY AddedDomain
  <2> HIDE DEF r, new
  <2> QED
    BY <1>2, <1>3, <2>1
<1>5. \A s \in new : s[1] \in N
  BY DEF Located, StockOf
<1>6. ASSUME NEW s, s \notin r.touched PROVE Get(r.current, s) = Get(acc.current, s)
  <2>1. s \notin new
    BY <1>2, <1>6
  <2>2. EventsAt(B, s) = {}
    BY <2>1 DEF EventsAt, Located
  <2>3. SumFunctionOnSet(MovesOf(B), {}) = 0
    <3>1. IsFiniteSet(B) /\ \A e \in B : MovesOf(B)[e] \in Int
      BY LogType
    <3> QED
      BY <3>1, SumTakesOut
  <2>4. NetMove(B, s) = 0
    BY <2>2, <2>3 DEF NetMove
  <2>5. Get(acc.current, s) \in Int /\ Get(r.current, s) = Get(acc.current, s) + NetMove(B, s)
    BY CurrentAfter
  <2> HIDE DEF r
  <2> QED
    BY <2>4, <2>5
<1> HIDE DEF r, new
<1> QED
  BY <1>1, <1>2, <1>4, <1>5, <1>6 DEF Tracks, r

(* So does serving a demand.                                               *)
LEMMA ServeTracks ==
  ASSUME NEW acc \in Ledgers, NEW N, NEW a \in Tracks(acc, N), NEW d, IsDemand(d), d.market \in N
  PROVE  ServeDemand(a, d) \in Tracks(acc, N)
<1> DEFINE r == ServeDemand(a, d)
           s0 == DStock(d)
<1>1. /\ a \in Ledgers
      /\ DOMAIN acc.current \subseteq DOMAIN a.current
      /\ DOMAIN a.current \subseteq DOMAIN acc.current \cup a.touched
      /\ \A s \in DOMAIN a.current : s \in DOMAIN acc.current \/ s[1] \in N
      /\ \A s : s \notin a.touched => Get(a.current, s) = Get(acc.current, s)
      /\ a.inventory = acc.inventory
  BY DEF Tracks
<1>2. /\ r \in Ledgers /\ r.current = Plus(a.current, s0, - Sold(a, d))
      /\ r.touched = a.touched \cup {s0} /\ r.inventory = a.inventory
  BY <1>1, ServeOne DEF DStock
<1>3. DOMAIN r.current = DOMAIN a.current \cup {s0}
  <2>1. DOMAIN Plus(a.current, s0, - Sold(a, d)) = DOMAIN a.current \cup {s0}
    BY PutDomain
  <2> HIDE DEF r
  <2> QED
    BY <1>2, <2>1
<1>4. \A x : x # s0 => Get(r.current, x) = Get(a.current, x)
  BY <1>1, ServeOthers
<1>5. s0[1] \in N
  BY DEF DStock
<1> HIDE DEF r, s0
<1>6. \A s : s \notin r.touched => Get(r.current, s) = Get(acc.current, s)
  BY <1>1, <1>2, <1>4
<1> QED
  BY <1>1, <1>2, <1>3, <1>5, <1>6 DEF Tracks, r

(* So does a bucket.                                                       *)
LEMMA ServedTracks ==
  ASSUME NEW acc \in Ledgers, NEW E, IsLog(E), NEW D, IsDemands(D), NEW t, NEW N,
         \A e \in E : EventNode(e) # NoNode => EventNode(e) \in N,
         \A d \in D : d.market \in N
  PROVE  Served(acc, t, E, D) \in Tracks(acc, N)
<1> DEFINE B == InBucket(E, t)
           A == Tracks(acc, N)
           n == Len(OrdersOf(D, t))
<1>1. IsLog(B) /\ B \in SUBSET E
  BY BucketIsLog
<1>2. AfterEvents(acc, B, B) \in A
  <2>1. \A e \in B : EventNode(e) # NoNode => EventNode(e) \in N
    BY <1>1
  <2> HIDE DEF B
  <2> QED
    BY <1>1, <2>1, EventsTrack
<1>3. \A a \in A : \A d \in D : ServeDemand(a, d) \in A
  BY ServeTracks DEF IsDemands
<1>4. A \in SUBSET Ledgers
  BY DEF Tracks
<1> HIDE DEF A
<1>5. PICK h : IsService(h, acc, t, E, D) /\ h \in [0 .. n -> A]
  BY <1>2, <1>3, <1>4, BucketServed
<1>6. n \in Nat /\ Served(acc, t, E, D) = h[n]
  BY <1>5 DEF IsService
<1> HIDE DEF n
<1>7. n \in 0 .. n
  BY <1>6
<1> QED
  BY <1>5, <1>6, <1>7 DEF A

(* The last snapshot of a stock.                                           *)
IsLatest(k, inventory) ==
  \A o \in DOMAIN inventory : o[1] = k[1] /\ o[2] = k[2] => o[3] <= k[3]

(* A ledger at the end of a bucket.                                        *)
Snapshot(x, N) ==
  /\ x.touched = {}
  /\ \A k \in DOMAIN x.inventory : <<k[1], k[2]>> \in DOMAIN x.current
  /\ \A s \in DOMAIN x.current :
       /\ s[1] \in N
       /\ \E k \in DOMAIN x.inventory : /\ IsLatest(k, x.inventory) /\ <<k[1], k[2]>> = s
                                       /\ x.inventory[k] = x.current[s]

(* After every bucket the last snapshot of each stock is the stock.        *)
LEMMA RunSnapshots ==
  ASSUME NEW E, IsLog(E), NEW D, IsDemands(D), NEW N,
         \A e \in E : EventNode(e) # NoNode => EventNode(e) \in N,
         \A d \in D : d.market \in N,
         NEW g, IsRun(g, E, D)
  PROVE  \A i \in 0 .. Len(TimesOf(E, D)) : Snapshot(g[i], N)
<1> DEFINE n == Len(TimesOf(E, D))
           Q == {i \in 0 .. n : Snapshot(g[i], N)}
<1>1. n \in Nat
  BY TimesFacts
<1>2. 0 \in Q
  <2>1. g[0] = NothingDerived
    BY DEF IsRun
  <2>2. Snapshot(NothingDerived, N)
    BY DEF NothingDerived, Snapshot
  <2> QED
    BY <1>1, <2>1, <2>2
<1>3. ASSUME NEW i \in 1 .. n, i - 1 \in Q PROVE i \in Q
  <2> DEFINE t == TimesOf(E, D)[i]
             a == g[i - 1]
             r == Served(a, t, E, D)
             b == g[i]
             closed == {<<s[1], s[2], t>> : s \in r.touched}
  <2>1. /\ t \in Nat /\ a \in Ledgers /\ r \in Ledgers /\ b = CloseBucket(r, t) /\ b \in Ledgers
        /\ i \in 0 .. n /\ i - 1 \in 0 .. n
    BY RunStep
  <2>2. Snapshot(a, N)
    BY <1>3
  <2>3. \A k \in DOMAIN a.inventory : k[3] \in Nat /\ k[3] < t
    <3>1. \A k \in DOMAIN a.inventory : k[3] \in BucketsUpTo(E, D, i - 1)
      BY <2>1, RunKeys
    <3>2. \A j \in 1 .. i - 1 : TimesOf(E, D)[j] \in Nat /\ TimesOf(E, D)[j] < t
      <4>1. \A j \in 1 .. i - 1 : j \in 1 .. n /\ j < i
        BY <1>1
      <4> QED
        BY <4>1, TimesFacts
    <3> HIDE DEF a, t
    <3> QED
      BY <3>1, <3>2 DEF BucketsUpTo
  <2> HIDE DEF a, t, b, Q
  <2>4. r \in Tracks(a, N)
    BY <2>1, ServedTracks
  <2> HIDE DEF r
  <2>5. /\ DOMAIN a.current \subseteq DOMAIN r.current
        /\ DOMAIN r.current \subseteq DOMAIN a.current \cup r.touched
        /\ \A s \in DOMAIN r.current : s \in DOMAIN a.current \/ s[1] \in N
        /\ \A s : s \notin r.touched => Get(r.current, s) = Get(a.current, s)
        /\ r.inventory = a.inventory
    BY <2>4 DEF Tracks
  <2> DEFINE v == CloseBucket(r, t)
  <2>6a. /\ v.touched = {} /\ v.current = r.current
         /\ DOMAIN v.inventory = DOMAIN r.inventory \cup closed
         /\ \A k \in DOMAIN v.inventory : v.inventory[k] = IF k \in closed THEN r.current[<<k[1], k[2]>>]
                                                           ELSE r.inventory[k]
    BY <2>1, CloseOne
  <2>6. /\ b.touched = {} /\ b.current = r.current
        /\ DOMAIN b.inventory = DOMAIN a.inventory \cup closed
        /\ \A k \in DOMAIN b.inventory : b.inventory[k] = IF k \in closed THEN r.current[<<k[1], k[2]>>]
                                                          ELSE a.inventory[k]
    <3> HIDE DEF closed
    <3> QED
      BY <2>1, <2>5, <2>6a
  <2>7. \A s \in r.touched : s \in DOMAIN r.current /\ s = <<s[1], s[2]>>
    BY <2>1, LedgerType DEF NatPairs
  <2>8. \A k \in closed : <<k[1], k[2]>> \in r.touched /\ k[3] = t
    BY <2>7
  <2>9. \A s \in r.touched : <<s[1], s[2], t>> \in closed
    OBVIOUS
  <2> HIDE DEF closed, v
  <2>10. ASSUME NEW k \in DOMAIN b.inventory PROVE <<k[1], k[2]>> \in DOMAIN b.current
    <3>1. CASE k \in closed
      BY <2>6, <2>7, <2>8, <3>1
    <3>2. CASE k \notin closed
      <4>1. k \in DOMAIN a.inventory
        BY <2>6, <3>2
      <4> QED
        BY <2>2, <2>5, <2>6, <4>1 DEF Snapshot
    <3> QED
      BY <3>1, <3>2
  <2>11. ASSUME NEW s \in DOMAIN b.current
         PROVE  /\ s[1] \in N
                /\ \E k \in DOMAIN b.inventory : /\ IsLatest(k, b.inventory) /\ <<k[1], k[2]>> = s
                                                /\ b.inventory[k] = b.current[s]
    <3>0. s[1] \in N /\ s \in DOMAIN r.current
      BY <2>2, <2>5, <2>6 DEF Snapshot
    <3>1. CASE s \in r.touched
      <4> DEFINE k == <<s[1], s[2], t>>
      <4>1. k \in closed /\ k \in DOMAIN b.inventory /\ <<k[1], k[2]>> = s /\ k[3] = t
        BY <2>6, <2>7, <2>9, <3>1
      <4> HIDE DEF k
      <4>2. b.inventory[k] = b.current[s]
        BY <2>6, <4>1
      <4>3. ASSUME NEW o \in DOMAIN b.inventory PROVE o[3] <= k[3]
        <5>1. o \in closed \/ o \in DOMAIN a.inventory
          BY <2>6
        <5>2. o[3] = t \/ (o[3] \in Nat /\ o[3] < t)
          BY <2>3, <2>8, <5>1
        <5> QED
          BY <2>1, <4>1, <5>2
      <4>4. IsLatest(k, b.inventory)
        BY <4>3 DEF IsLatest
      <4> QED
        BY <3>0, <4>1, <4>2, <4>4
    <3>2. CASE s \notin r.touched
      <4>1. s \in DOMAIN a.current
        BY <2>5, <3>0, <3>2
      <4>2. PICK k \in DOMAIN a.inventory : /\ IsLatest(k, a.inventory) /\ <<k[1], k[2]>> = s
                                            /\ a.inventory[k] = a.current[s]
        BY <2>2, <4>1 DEF Snapshot
      <4>3. k \notin closed
        BY <2>8, <3>2, <4>2
      <4>4. k \in DOMAIN b.inventory /\ b.inventory[k] = a.inventory[k]
        BY <2>6, <4>3
      <4>5. a.current[s] = r.current[s]
        BY <2>5, <3>0, <3>2, <4>1 DEF Get
      <4>6. IsLatest(k, b.inventory)
        <5> SUFFICES ASSUME NEW o \in DOMAIN b.inventory, o[1] = k[1] /\ o[2] = k[2]
                     PROVE  o[3] <= k[3]
          BY DEF IsLatest
        <5>1. <<o[1], o[2]>> = s
          BY <4>2
        <5>2. o \notin closed
          BY <2>8, <3>2, <5>1
        <5>3. o \in DOMAIN a.inventory
          BY <2>6, <5>2
        <5> QED
          BY <4>2, <5>3 DEF IsLatest
      <4> QED
        BY <2>6, <3>0, <4>2, <4>4, <4>5, <4>6
    <3> QED
      BY <3>1, <3>2
  <2>12. Snapshot(b, N)
    BY <2>6, <2>10, <2>11 DEF Snapshot
  <2> QED
    BY <2>1, <2>12 DEF Q, b
<1>4. \A i \in 0 .. n : i \in Q
  <2> HIDE DEF Q
  <2> QED
    BY <1>1, <1>2, <1>3, IntervalInduction
<1> QED
  BY <1>4

-----------------------------------------------------------------------------
(* Lists: their members at some places, and lists one after the other.     *)

(* Numbers in their order: each is listed once, the smaller before.        *)
LEMMA AscendingLists ==
  ASSUME NEW s \in SUBSET Int, IsFiniteSet(s)
  PROVE  /\ IsListing(Ascending(s), s)
         /\ \A i, j \in 1 .. Cardinality(s) : i < j => Ascending(s)[i] < Ascending(s)[j]
<1> DEFINE key == [n \in s |-> <<n>>]
<1>1. DOMAIN key = s
  OBVIOUS
<1>2. KeyOf(key, 1)
  <2>1. \A n \in s : key[n] \in Tuples(1)
    BY DEF Tuples
  <2>2. \A x, y \in s : key[x] = key[y] => x = y
    OBVIOUS
  <2> QED
    BY <2>1, <2>2 DEF KeyOf
<1>3. Ascending(s) = InOrder(key)
  BY Zenon DEF Ascending
<1> HIDE DEF key
<1>4. /\ IsListing(InOrder(key), s)
      /\ \A i, j \in 1 .. Cardinality(s) :
           i < j => Lex(key[InOrder(key)[i]], key[InOrder(key)[j]])
  BY <1>1, <1>2, InOrderLists
<1>5. ASSUME NEW i \in 1 .. Cardinality(s), NEW j \in 1 .. Cardinality(s), i < j
      PROVE  Ascending(s)[i] < Ascending(s)[j]
  <2>1. Ascending(s)[i] \in s /\ Ascending(s)[j] \in s
    BY <1>3, <1>4 DEF IsListing
  <2>2. PICK a \in s, b \in s : a = Ascending(s)[i] /\ b = Ascending(s)[j]
    BY <2>1
  <2>3. Lex(key[a], key[b])
    BY <1>3, <1>4, <1>5, <2>2
  <2>4. key[a] = <<a>> /\ key[b] = <<b>>
    BY DEF key
  <2>5. a < b
    BY <2>3, <2>4 DEF Lex
  <2> QED
    BY <2>2, <2>5
<1> QED
  BY <1>3, <1>4, <1>5

(* A subset of the places of a list.                                       *)
LEMMA PlacesAreFinite ==
  ASSUME NEW n \in Nat, NEW places \in SUBSET (1 .. n)
  PROVE  IsFiniteSet(places) /\ Cardinality(places) \in Nat /\ places \in SUBSET Int
<1> DEFINE S == 1 .. n
<1>1. IsFiniteSet(S)
  BY FS_Interval
<1>2. places \in SUBSET S /\ places \in SUBSET Int
  OBVIOUS
<1> HIDE DEF S
<1>3. IsFiniteSet(places) /\ Cardinality(places) \in Nat
  BY <1>1, <1>2, SubsetOfFinite
<1> QED
  BY <1>2, <1>3

(* The k-th of the members picked stands at the k-th of the places.        *)
IsPicked(picked, list, places, order) ==
  /\ IsListing(order, places)
  /\ \A i, j \in 1 .. Cardinality(places) : i < j => order[i] < order[j]
  /\ Len(picked) = Cardinality(places)
  /\ \A k \in 1 .. Cardinality(places) : picked[k] = list[order[k]]

(* The places of a list picked, in their order, are a list of its members. *)
LEMMA PickedInOrder ==
  ASSUME NEW X, NEW list \in Seq(X), NEW places \in SUBSET (1 .. Len(list))
  PROVE  /\ Picked(list, places) \in Seq(X)
         /\ IsPicked(Picked(list, places), list, places, Ascending(places))
<1> DEFINE n == Cardinality(places)
           order == Ascending(places)
           picked == [k \in DOMAIN order |-> list[order[k]]]
<1>0. Len(list) \in Nat
  OBVIOUS
<1>1. IsFiniteSet(places) /\ n \in Nat /\ places \in SUBSET Int
  BY <1>0, PlacesAreFinite
<1>2. IsListing(order, places) /\ \A i, j \in 1 .. n : i < j => order[i] < order[j]
  BY <1>1, AscendingLists
<1>3. Picked(list, places) = picked
  BY Zenon DEF Picked, With
<1> HIDE DEF order
<1>4. DOMAIN order = 1 .. n /\ \A k \in 1 .. n : order[k] \in places
  BY <1>2 DEF IsListing
<1> HIDE DEF n
<1>5. picked \in Seq(X) /\ Len(picked) = n
  <2>0. \A i \in places : list[i] \in X
    OBVIOUS
  <2>1. \A k \in 1 .. n : list[order[k]] \in X
    BY <1>4, <2>0
  <2>2. picked = [k \in 1 .. n |-> list[order[k]]]
    BY <1>4
  <2> QED
    BY <1>1, <2>1, <2>2
<1> QED
  BY <1>2, <1>3, <1>4, <1>5 DEF IsPicked, order, n

(* What is picked: the members at the places, each once if they differ.    *)
LEMMA PickedHas ==
  ASSUME NEW X, NEW list \in Seq(X), NEW places \in SUBSET (1 .. Len(list)), NEW x
  PROVE  Contains(Picked(list, places), x) <=> \E i \in places : list[i] = x
<1> DEFINE order == Ascending(places)
           picked == Picked(list, places)
<1>1. IsPicked(picked, list, places, order)
  BY PickedInOrder
<1> HIDE DEF order, picked
<1>2. ASSUME Contains(picked, x) PROVE \E i \in places : list[i] = x
  <2>1. PICK k \in 1 .. Cardinality(places) : list[order[k]] = x
    BY <1>1, <1>2 DEF Contains, IsPicked
  <2>2. order[k] \in places
    BY <1>1 DEF IsPicked, IsListing
  <2> QED
    BY <2>1, <2>2
<1>3. ASSUME NEW i \in places, list[i] = x PROVE Contains(picked, x)
  <2>1. PICK k \in 1 .. Cardinality(places) : order[k] = i
    BY <1>1 DEF IsPicked, IsListing
  <2> QED
    BY <1>1, <1>3, <2>1 DEF Contains, IsPicked
<1> QED
  BY <1>2, <1>3 DEF picked

Distinct(list) == \A a, b \in 1 .. Len(list) : list[a] = list[b] => a = b

(* What is picked of a list has no repeats if the members picked differ.   *)
LEMMA PickedOnce ==
  ASSUME NEW X, NEW list \in Seq(X), NEW places \in SUBSET (1 .. Len(list)),
         \A i, j \in places : list[i] = list[j] => i = j
  PROVE  Distinct(Picked(list, places))
<1> DEFINE order == Ascending(places)
           picked == Picked(list, places)
<1>1. IsPicked(picked, list, places, order)
  BY PickedInOrder
<1> HIDE DEF order, picked
<1>2. ASSUME NEW a \in 1 .. Cardinality(places), NEW b \in 1 .. Cardinality(places),
             picked[a] = picked[b]
      PROVE  a = b
  <2>1. order[a] \in places /\ order[b] \in places
    BY <1>1 DEF IsPicked, IsListing
  <2>2. list[order[a]] = list[order[b]]
    BY <1>1, <1>2 DEF IsPicked
  <2>3. order[a] = order[b]
    BY <2>1, <2>2
  <2> QED
    BY <1>1, <2>3 DEF IsPicked, IsListing
<1>3. Len(picked) = Cardinality(places)
  BY <1>1 DEF IsPicked
<1> QED
  BY <1>2, <1>3 DEF Distinct, picked

(* Of a list without repeats as many members differ as it has.             *)
LEMMA DistinctMembers ==
  ASSUME NEW X, NEW list \in Seq(X), Distinct(list)
  PROVE  Cardinality(ToSet(list)) = Len(list)
<1>1. Len(list) \in Nat /\ DOMAIN list = 1 .. Len(list)
  OBVIOUS
<1>2. IsFiniteSet(1 .. Len(list)) /\ Cardinality(1 .. Len(list)) = Len(list)
  <2>1. Cardinality(1 .. Len(list)) = IF 1 > Len(list) THEN 0 ELSE Len(list) - 1 + 1
    BY <1>1, FS_Interval
  <2> QED
    BY <1>1, <2>1, FS_Interval
<1>3. list \in Bijection(1 .. Len(list), ToSet(list))
  <2>1. list \in [1 .. Len(list) -> ToSet(list)]
    BY <1>1 DEF ToSet
  <2>2. \A y \in ToSet(list) : \E i \in 1 .. Len(list) : list[i] = y
    BY <1>1 DEF ToSet
  <2>3. \A a, b \in 1 .. Len(list) : list[a] = list[b] => a = b
    BY DEF Distinct
  <2> QED
    BY <2>1, <2>2, <2>3, Fun_IsBij
<1> QED
  BY <1>2, <1>3, FS_Bijection DEF ExistsBijection

(* A list with the members of both.                                        *)
HasBoth(all, u, v) == \A x : Contains(all, x) <=> Contains(u, x) \/ Contains(v, x)

(* A list and another after it have the members of both.                   *)
LEMMA JoinHas ==
  ASSUME NEW X, NEW u \in Seq(X), NEW v \in Seq(X)
  PROVE  u \o v \in Seq(X) /\ HasBoth(u \o v, u, v)
<1>1. u \o v \in Seq(X) /\ Len(u \o v) = Len(u) + Len(v)
      /\ \A i \in 1 .. Len(u) + Len(v) : (u \o v)[i] = IF i <= Len(u) THEN u[i] ELSE v[i - Len(u)]
  OBVIOUS
<1>2. ASSUME NEW x, Contains(u \o v, x) PROVE Contains(u, x) \/ Contains(v, x)
  BY <1>1, <1>2 DEF Contains
<1>3. ASSUME NEW x, Contains(u, x) PROVE Contains(u \o v, x)
  BY <1>1, <1>3 DEF Contains
<1>4. ASSUME NEW x, Contains(v, x) PROVE Contains(u \o v, x)
  <2>1. PICK i \in 1 .. Len(v) : v[i] = x
    BY <1>4 DEF Contains
  <2>2. Len(u) + i \in 1 .. Len(u) + Len(v) /\ (u \o v)[Len(u) + i] = v[i]
    BY <1>1
  <2> QED
    BY <1>1, <2>1, <2>2 DEF Contains
<1> QED
  BY <1>1, <1>2, <1>3, <1>4 DEF HasBoth

(* Concat runs over the lists: what is joined of the first k of them.      *)
IsJoined(joined, lists) ==
  joined[0] = <<>> /\ \A k \in 1 .. Len(lists) : joined[k] = joined[k - 1] \o lists[k]

(* Concat is such a run.                                                   *)
LEMMA ConcatRuns ==
  ASSUME NEW X, NEW lists \in Seq(Seq(X))
  PROVE  \E joined : IsJoined(joined, lists) /\ Concat(lists) = joined[Len(lists)]
<1> DEFINE n == Len(lists)
           Onto(list, k) == list \o lists[k]
           step == [k \in 1 .. n |-> [list \in Seq(X) |-> Onto(list, k)]]
           joined == CHOOSE f : f = [k \in 0 .. n |-> IF k = 0 THEN <<>> ELSE Onto(f[k - 1], k)]
<1>0. Concat(lists) = joined[n]
  BY Zenon DEF Concat, With
<1>1. n \in Nat /\ <<>> \in Seq(X) /\ \A k \in 1 .. n : lists[k] \in Seq(X)
  OBVIOUS
<1>2. step \in Steps(n, Seq(X))
  BY <1>1 DEF Steps
<1>3. PICK g \in [0 .. n -> Seq(X)] : g[0] = <<>> /\ \A k \in 1 .. n : g[k] = step[k][g[k - 1]]
  <2> DEFINE A == Seq(X)
             b == <<>>
  <2>1. n \in Nat /\ b \in A /\ step \in Steps(n, A)
    BY <1>1, <1>2
  <2> HIDE DEF step, n, A, b
  <2>2. \E g \in [0 .. n -> A] : g[0] = b /\ \A k \in 1 .. n : g[k] = step[k][g[k - 1]]
    BY <2>1, RecursionOnInterval
  <2> QED
    BY <2>2 DEF A, b
<1> HIDE DEF n
<1>4. \A k \in 1 .. n : k - 1 \in 0 .. n /\ g[k - 1] \in Seq(X) /\ k # 0
  BY <1>1, <1>3
<1>5. \A k \in 1 .. n : g[k] = Onto(g[k - 1], k)
  <2> HIDE DEF Onto
  <2> QED
    BY <1>3, <1>4
<1>6. g = [k \in 0 .. n |-> IF k = 0 THEN <<>> ELSE Onto(g[k - 1], k)]
  <2> HIDE DEF Onto
  <2> QED
    BY <1>1, <1>3, <1>5
<1>7. joined = [k \in 0 .. n |-> IF k = 0 THEN <<>> ELSE Onto(joined[k - 1], k)]
  BY <1>6, Zenon
<1> HIDE DEF joined, step, Onto
<1>8. joined[0] = <<>> /\ \A k \in 1 .. n : joined[k] = Onto(joined[k - 1], k)
  BY <1>1, <1>7
<1> QED
  BY <1>0, <1>8 DEF IsJoined, n, Onto

(* Lists one after the other: a list with the members of all.              *)
LEMMA ConcatJoins ==
  ASSUME NEW X, NEW lists \in Seq(Seq(X))
  PROVE  /\ Concat(lists) \in Seq(X)
         /\ \A x : Contains(Concat(lists), x) <=> \E k \in 1 .. Len(lists) : Contains(lists[k], x)
<1> DEFINE n == Len(lists)
           Among(m, x) == \E k \in 1 .. m : Contains(lists[k], x)
<1>1. n \in Nat /\ \A k \in 1 .. n : lists[k] \in Seq(X)
  OBVIOUS
<1>2. PICK joined : IsJoined(joined, lists) /\ Concat(lists) = joined[n]
  BY ConcatRuns
<1>3. joined[0] = <<>> /\ \A k \in 1 .. n : joined[k] = joined[k - 1] \o lists[k]
  BY <1>2 DEF IsJoined
<1> HIDE DEF n
<1> DEFINE Good == {m \in 0 .. n : /\ joined[m] \in Seq(X)
                                   /\ \A x : Contains(joined[m], x) <=> Among(m, x)}
<1>4. 0 \in Good
  <2>1. \A x : ~Contains(<<>>, x) /\ ~Among(0, x)
    BY DEF Contains
  <2>2. <<>> \in Seq(X) /\ 0 \in 0 .. n
    BY <1>1
  <2> HIDE DEF Among
  <2>3. \A x : Contains(joined[0], x) <=> Among(0, x)
    BY <1>3, <2>1
  <2> QED
    BY <1>3, <2>2, <2>3
<1>5. ASSUME NEW m \in 1 .. n, m - 1 \in Good PROVE m \in Good
  <2>1. PICK u \in Seq(X), v \in Seq(X) : u = joined[m - 1] /\ v = lists[m]
    BY <1>1, <1>5
  <2>2. joined[m] = u \o v
    BY <1>3, <2>1
  <2>3. u \o v \in Seq(X) /\ HasBoth(u \o v, u, v)
    BY JoinHas
  <2>4. \A x : Contains(u, x) <=> Among(m - 1, x)
    <3> HIDE DEF Among
    <3> QED
      BY <1>5, <2>1
  <2>5. \A x : Among(m, x) <=> Among(m - 1, x) \/ Contains(v, x)
    <3>1. m \in Nat /\ \A k : k \in 1 .. m <=> k \in 1 .. m - 1 \/ k = m
      BY <1>1
    <3>2. \A x : Contains(lists[m], x) <=> Contains(v, x)
      BY <2>1
    <3> HIDE DEF Good
    <3> QED
      BY <3>1, <3>2
  <2> HIDE DEF Among
  <2>6. \A x : Contains(joined[m], x) <=> Among(m, x)
    BY <2>2, <2>3, <2>4, <2>5 DEF HasBoth
  <2>7. m \in 0 .. n
    BY <1>1
  <2> QED
    BY <2>2, <2>3, <2>6, <2>7
<1>6. n \in Good
  <2>1. n \in Nat /\ n \in 0 .. n
    BY <1>1
  <2> HIDE DEF Good
  <2> QED
    BY <1>4, <1>5, <2>1, IntervalInduction
<1> QED
  BY <1>2, <1>6 DEF n

-----------------------------------------------------------------------------
(* Counting the places of a list.                                          *)

(* Places and their images are as many.                                    *)
LEMMA Reindexed ==
  ASSUME NEW A, NEW B, IsFiniteSet(A), NEW g \in [A -> B],
         \A x, y \in A : g[x] = g[y] => x = y,
         \A z \in B : \E x \in A : g[x] = z
  PROVE  IsFiniteSet(B) /\ Cardinality(B) = Cardinality(A)
<1>1. g \in Bijection(A, B)
  BY DEF Bijection, Injection, Surjection, IsInjective
<1>2. ExistsBijection(A, B)
  BY <1>1 DEF ExistsBijection
<1> QED
  BY <1>2, FS_Bijection

(* The places of a number range that satisfy a condition are finitely many.*)
LEMMA PlacesFinite ==
  ASSUME NEW n \in Nat, NEW A \in SUBSET (1 .. n)
  PROVE  IsFiniteSet(A) /\ Cardinality(A) \in Nat
<1>1. IsFiniteSet(1 .. n)
  BY FS_Interval
<1> QED
  BY <1>1, FS_Subset, FS_CardinalityType

(* Two lists one after the other.                                          *)
IsJoin(w, s, t) ==
  /\ Len(w) = Len(s) + Len(t)
  /\ \A i \in 1 .. Len(s) : w[i] = s[i]
  /\ \A i \in 1 .. Len(t) : w[Len(s) + i] = t[i]

(* Joining makes such a list.                                              *)
LEMMA Joined ==
  ASSUME NEW S, NEW s \in Seq(S), NEW t \in Seq(S)
  PROVE  s \o t \in Seq(S) /\ IsJoin(s \o t, s, t)
<1>1. ASSUME NEW i \in 1 .. Len(t) PROVE (s \o t)[Len(s) + i] = t[i]
  <2>1. Len(s) \in Nat /\ Len(t) \in Nat
    OBVIOUS
  <2>2. Len(s) + i \in Len(s) + 1 .. Len(s) + Len(t) /\ Len(s) + i - Len(s) = i
    BY <2>1
  <2> QED
    BY <2>1, <2>2
<1> QED
  BY <1>1 DEF IsJoin

(* How often a list has x.                                                 *)
Occ(s, x) == Cardinality({i \in DOMAIN s : s[i] = x})

(* A member counts in a joined list what it counts in its parts.           *)
LEMMA JoinCounts ==
  ASSUME NEW S, NEW s \in Seq(S), NEW t \in Seq(S), NEW x
  PROVE  /\ Occ(s, x) \in Nat /\ Occ(t, x) \in Nat
         /\ Occ(s \o t, x) = Occ(s, x) + Occ(t, x)
<1> DEFINE n == Len(s)
           m == Len(t)
           w == s \o t
           A == {i \in 1 .. n : s[i] = x}
           B == {i \in 1 .. m : t[i] = x}
           C == {i \in 1 .. n + m : w[i] = x}
           D == C \ A
           g == [i \in B |-> n + i]
<1>1. n \in Nat /\ m \in Nat
  OBVIOUS
<1>2. w \in Seq(S) /\ IsJoin(w, s, t)
  BY Joined
<1> HIDE DEF w
<1>3. Len(w) = n + m /\ (\A i \in 1 .. n : w[i] = s[i]) /\ (\A i \in 1 .. m : w[n + i] = t[i])
  BY <1>2 DEF IsJoin
<1>4. Occ(s, x) = Cardinality(A) /\ Occ(t, x) = Cardinality(B)
  <2>1. {i \in DOMAIN s : s[i] = x} = A /\ {i \in DOMAIN t : t[i] = x} = B
    OBVIOUS
  <2> QED
    BY <2>1 DEF Occ
<1>5. Occ(w, x) = Cardinality(C)
  BY <1>2, <1>3 DEF Occ
<1> HIDE DEF n, m
<1>6. IsFiniteSet(A) /\ Cardinality(A) \in Nat /\ IsFiniteSet(B) /\ Cardinality(B) \in Nat
  BY <1>1, PlacesFinite
<1>7. ASSUME NEW i \in 1 .. m PROVE n + i \in 1 .. n + m /\ n + i \notin 1 .. n
  BY <1>1
<1>8. g \in [B -> D] /\ (\A i, j \in B : g[i] = g[j] => i = j)
  BY <1>1, <1>3, <1>7
<1>9. ASSUME NEW z \in D PROVE \E i \in B : g[i] = z
  <2>1. z \in 1 .. n + m /\ z \notin 1 .. n /\ w[z] = x
    BY <1>3
  <2>2. z - n \in 1 .. m /\ n + (z - n) = z
    BY <1>1, <2>1
  <2>3. PICK i \in 1 .. m : n + i = z
    BY <2>2
  <2>4. i \in B /\ g[i] = z
    BY <1>3, <2>1, <2>3
  <2> QED
    BY <2>4
<1>10. IsFiniteSet(D) /\ Cardinality(D) = Cardinality(B)
  <2> HIDE DEF B, D, g
  <2> QED
    BY <1>6, <1>8, <1>9, Reindexed
<1>11. C = A \cup D /\ A \cap D = {}
  BY <1>1, <1>3
<1> HIDE DEF A, B, C, D
<1>12. Cardinality(A \cup D) = Cardinality(A) + Cardinality(D) - Cardinality(A \cap D)
  BY <1>6, <1>10, FS_Union
<1>13. Cardinality(A \cap D) = 0
  BY <1>11, FS_EmptySet
<1> QED
  BY <1>4, <1>5, <1>6, <1>10, <1>11, <1>12, <1>13 DEF w

(* How often is a number: none if the list has not x.                      *)
LEMMA CountsAre ==
  ASSUME NEW X, NEW list \in Seq(X), NEW x
  PROVE  /\ Occ(list, x) \in Nat
         /\ Occ(list, x) = 0 <=> ~Contains(list, x)
<1> DEFINE n == Len(list)
           A == {i \in 1 .. n : list[i] = x}
<1>1. n \in Nat /\ DOMAIN list = 1 .. n
  OBVIOUS
<1>2. Occ(list, x) = Cardinality(A)
  BY <1>1 DEF Occ
<1>3. Contains(list, x) <=> A # {}
  BY <1>1 DEF Contains
<1> HIDE DEF n
<1>4. IsFiniteSet(A) /\ Cardinality(A) \in Nat
  BY <1>1, PlacesFinite
<1> HIDE DEF A
<1>5. Cardinality(A) = 0 <=> A = {}
  BY <1>4, FS_EmptySet
<1> QED
  BY <1>2, <1>3, <1>4, <1>5

(* Nothing is in no list.                                                  *)
LEMMA NoneCounts ==
  ASSUME NEW x
  PROVE  Occ(<<>>, x) = 0
<1>1. {i \in DOMAIN <<>> : <<>>[i] = x} = {}
  OBVIOUS
<1> QED
  BY <1>1, FS_EmptySet DEF Occ

(* A list without repeats has each of its members once.                    *)
LEMMA DistinctCounts ==
  ASSUME NEW X, NEW list \in Seq(X), Distinct(list), NEW x
  PROVE  Occ(list, x) = IF Contains(list, x) THEN 1 ELSE 0
<1>1. CASE Contains(list, x)
  <2>1. PICK i \in 1 .. Len(list) : list[i] = x
    BY <1>1 DEF Contains
  <2>2. {j \in DOMAIN list : list[j] = x} = {i}
    BY <2>1 DEF Distinct
  <2>3. Cardinality({i}) = 1
    BY FS_Singleton
  <2> QED
    BY <1>1, <2>2, <2>3 DEF Occ
<1>2. CASE ~Contains(list, x)
  BY <1>2, CountsAre
<1> QED
  BY <1>1, <1>2

(* And a list that has each member once has no repeats.                    *)
LEMMA CountedOnce ==
  ASSUME NEW X, NEW list \in Seq(X), \A x \in X : Occ(list, x) <= 1
  PROVE  Distinct(list)
<1> SUFFICES ASSUME NEW a \in 1 .. Len(list), NEW b \in 1 .. Len(list),
                    list[a] = list[b], a # b
             PROVE  FALSE
  BY DEF Distinct
<1> DEFINE n == Len(list)
           A == {i \in 1 .. n : list[i] = list[a]}
<1>1. n \in Nat /\ DOMAIN list = 1 .. n /\ list[a] \in X
  OBVIOUS
<1>2. Cardinality(A) <= 1
  BY <1>1 DEF Occ
<1>3. a \in A /\ b \in A
  OBVIOUS
<1> HIDE DEF n
<1>4. IsFiniteSet(A) /\ Cardinality(A) \in Nat
  BY <1>1, PlacesFinite
<1> HIDE DEF A
<1> DEFINE two == {a} \cup {b}
<1>5. Cardinality(two) = 2
  <2>1. IsFiniteSet({a}) /\ Cardinality({a}) = 1
    BY FS_Singleton
  <2>2. Cardinality({a} \cup {b}) = Cardinality({a}) + 1
    BY <2>1, FS_AddElement
  <2>3. 1 + 1 = 2
    OBVIOUS
  <2> QED
    BY <2>1, <2>2, <2>3, Zenon
<1>6. two \in SUBSET A
  BY <1>3
<1> HIDE DEF two
<1>7. Cardinality(two) <= Cardinality(A)
  BY <1>4, <1>6, SubsetOfFinite
<1> QED
  BY <1>2, <1>4, <1>5, <1>7

(* Of lists one after the other only one has x: it is counted there.       *)
LEMMA ConcatCounts ==
  ASSUME NEW X, NEW lists \in Seq(Seq(X)), NEW x, NEW at,
         \A k \in 1 .. Len(lists) : k # at => Occ(lists[k], x) = 0
  PROVE  Occ(Concat(lists), x) = IF at \in 1 .. Len(lists) THEN Occ(lists[at], x) ELSE 0
<1> DEFINE n == Len(lists)
           Here(m) == IF at \in 1 .. m THEN Occ(lists[at], x) ELSE 0
<1>1. n \in Nat /\ \A k \in 1 .. n : lists[k] \in Seq(X)
  OBVIOUS
<1>2. PICK joined : IsJoined(joined, lists) /\ Concat(lists) = joined[n]
  BY ConcatRuns
<1>3. joined[0] = <<>> /\ \A k \in 1 .. n : joined[k] = joined[k - 1] \o lists[k]
  BY <1>2 DEF IsJoined
<1>4. \A k \in 1 .. n : k # at => Occ(lists[k], x) = 0
  OBVIOUS
<1> HIDE DEF n
<1> DEFINE Good == {m \in 0 .. n : joined[m] \in Seq(X) /\ Occ(joined[m], x) = Here(m)}
<1>5. 0 \in Good
  <2>1. at \notin 1 .. 0
    OBVIOUS
  <2>2. Here(0) = 0
    BY <2>1
  <2>3. joined[0] \in Seq(X) /\ Occ(joined[0], x) = 0 /\ 0 \in 0 .. n
    BY <1>1, <1>3, NoneCounts
  <2> HIDE DEF Here
  <2> QED
    BY <2>2, <2>3
<1>6. ASSUME NEW m \in 1 .. n, m - 1 \in Good PROVE m \in Good
  <2>1. PICK u \in Seq(X), v \in Seq(X) : u = joined[m - 1] /\ v = lists[m]
    BY <1>1, <1>6
  <2>2. joined[m] = u \o v
    BY <1>3, <2>1
  <2>3. Occ(u, x) \in Nat /\ Occ(v, x) \in Nat /\ Occ(u \o v, x) = Occ(u, x) + Occ(v, x)
    BY JoinCounts
  <2>4. Occ(u, x) = Here(m - 1)
    <3> HIDE DEF Here
    <3> QED
      BY <1>6, <2>1
  <2>5. at \in 1 .. m <=> at \in 1 .. m - 1 \/ at = m
    BY <1>1
  <2>6. ~(at \in 1 .. m - 1 /\ at = m)
    BY <1>1
  <2>7. Occ(joined[m], x) = Here(m)
    <3>1. CASE at = m
      BY <2>1, <2>2, <2>3, <2>4, <2>5, <2>6, <3>1
    <3>2. CASE at # m
      <4>1. Occ(v, x) = 0
        BY <1>4, <2>1, <3>2
      <4> QED
        BY <2>2, <2>3, <2>4, <2>5, <3>2, <4>1
    <3> QED
      BY <3>1, <3>2
  <2>8. m \in 0 .. n /\ u \o v \in Seq(X)
    BY <1>1
  <2> HIDE DEF Here
  <2> QED
    BY <2>2, <2>7, <2>8
<1>7. n \in Good
  <2>1. n \in Nat /\ n \in 0 .. n
    BY <1>1
  <2> HIDE DEF Good
  <2> QED
    BY <1>5, <1>6, <2>1, IntervalInduction
<1> QED
  BY <1>2, <1>7 DEF n

(* Numbers in their order: each once.                                      *)
LEMMA AscendingCounts ==
  ASSUME NEW s \in SUBSET Int, IsFiniteSet(s), NEW x
  PROVE  /\ Ascending(s) \in Seq(s)
         /\ Occ(Ascending(s), x) = IF x \in s THEN 1 ELSE 0
<1> DEFINE list == Ascending(s)
<1>1. IsListing(list, s)
  BY AscendingLists
<1> HIDE DEF list
<1>2. list \in Seq(s) /\ Len(list) = Cardinality(s)
  BY <1>1, ListingIsSeq
<1>3. Distinct(list)
  BY <1>1, <1>2 DEF Distinct, IsListing
<1>4. Contains(list, x) <=> x \in s
  <2>1. \A i \in 1 .. Len(list) : list[i] \in s
    BY <1>2
  <2>2. x \in s => \E i \in 1 .. Len(list) : list[i] = x
    BY <1>1, <1>2 DEF IsListing
  <2> QED
    BY <2>1, <2>2 DEF Contains
<1> QED
  BY <1>2, <1>3, <1>4, DistinctCounts DEF list

-----------------------------------------------------------------------------
(* Lists in an order: what is picked, joined and inserted.                 *)

(* Every pair of members, in the order of the list, is in R.               *)
Pairwise(list, R) == \A a, b \in 1 .. Len(list) : a < b => <<list[a], list[b]>> \in R

(* What is picked of a list is in the list's order.                        *)
LEMMA PickedPairwise ==
  ASSUME NEW X, NEW list \in Seq(X), NEW places \in SUBSET (1 .. Len(list)), NEW R,
         Pairwise(list, R)
  PROVE  Pairwise(Picked(list, places), R)
<1> DEFINE order == Ascending(places)
           picked == Picked(list, places)
<1>1. IsPicked(picked, list, places, order)
  BY PickedInOrder
<1> HIDE DEF order, picked
<1>2. ASSUME NEW a \in 1 .. Cardinality(places), NEW b \in 1 .. Cardinality(places), a < b
      PROVE  <<picked[a], picked[b]>> \in R
  <2>1. order[a] \in places /\ order[b] \in places /\ order[a] < order[b]
    BY <1>1, <1>2 DEF IsPicked, IsListing
  <2>2. picked[a] = list[order[a]] /\ picked[b] = list[order[b]]
    BY <1>1 DEF IsPicked
  <2> QED
    BY <2>1, <2>2 DEF Pairwise
<1>3. Len(picked) = Cardinality(places)
  BY <1>1 DEF IsPicked
<1> QED
  BY <1>2, <1>3 DEF Pairwise, picked

(* Two lists, one after the other.                                         *)
LEMMA JoinPairwise ==
  ASSUME NEW X, NEW u \in Seq(X), NEW v \in Seq(X), NEW R, Pairwise(u, R), Pairwise(v, R),
         \A x, y : Contains(u, x) /\ Contains(v, y) => <<x, y>> \in R
  PROVE  Pairwise(u \o v, R)
<1>1. Len(u) \in Nat /\ Len(v) \in Nat /\ Len(u \o v) = Len(u) + Len(v)
      /\ \A i \in 1 .. Len(u) + Len(v) : (u \o v)[i] = IF i <= Len(u) THEN u[i] ELSE v[i - Len(u)]
  OBVIOUS
<1>2. \A i \in 1 .. Len(u) : Contains(u, u[i])
  BY DEF Contains
<1>3. \A i \in 1 .. Len(v) : Contains(v, v[i])
  BY DEF Contains
<1>4. ASSUME NEW a \in 1 .. Len(u) + Len(v), NEW b \in 1 .. Len(u) + Len(v), a < b
      PROVE  <<(u \o v)[a], (u \o v)[b]>> \in R
  <2>1. CASE b <= Len(u)
    BY <1>1, <1>4, <2>1 DEF Pairwise
  <2>2. CASE a <= Len(u) /\ b > Len(u)
    <3>1. a \in 1 .. Len(u) /\ b - Len(u) \in 1 .. Len(v)
      BY <1>1, <1>4, <2>2
    <3> QED
      BY <1>1, <1>2, <1>3, <2>2, <3>1
  <2>3. CASE a > Len(u)
    <3>1. a - Len(u) \in 1 .. Len(v) /\ b - Len(u) \in 1 .. Len(v) /\ a - Len(u) < b - Len(u)
      BY <1>1, <1>4, <2>3
    <3> QED
      BY <1>1, <1>4, <2>3, <3>1 DEF Pairwise
  <2>4. b <= Len(u) \/ (a <= Len(u) /\ b > Len(u)) \/ a > Len(u)
    BY <1>1
  <2> QED
    BY <2>1, <2>2, <2>3, <2>4
<1> QED
  BY <1>1, <1>4 DEF Pairwise

(* Lists in order, one after the other: a list in order.                   *)
LEMMA ConcatPairwise ==
  ASSUME NEW X, NEW lists \in Seq(Seq(X)), NEW R,
         \A k \in 1 .. Len(lists) : Pairwise(lists[k], R),
         \A k, l \in 1 .. Len(lists) : k < l =>
           \A x, y : Contains(lists[k], x) /\ Contains(lists[l], y) => <<x, y>> \in R
  PROVE  Pairwise(Concat(lists), R)
<1> DEFINE n == Len(lists)
           Among(m, x) == \E k \in 1 .. m : Contains(lists[k], x)
<1>1. PICK joined : IsJoined(joined, lists) /\ Concat(lists) = joined[Len(lists)]
  BY ConcatRuns
<1>2. n \in Nat /\ \A k \in 1 .. n : lists[k] \in Seq(X)
  OBVIOUS
<1>3. joined[0] = <<>> /\ \A k \in 1 .. n : joined[k] = joined[k - 1] \o lists[k]
  BY <1>1 DEF IsJoined
<1>4. \A k \in 1 .. n : Pairwise(lists[k], R)
  OBVIOUS
<1>5. \A m \in 1 .. n : \A x, y : Among(m - 1, x) /\ Contains(lists[m], y) => <<x, y>> \in R
  BY <1>2
<1> DEFINE Good == {m \in 0 .. n : /\ joined[m] \in Seq(X) /\ Pairwise(joined[m], R)
                                   /\ \A x : Contains(joined[m], x) => Among(m, x)}
<1>6. 0 \in Good
  <2>1. <<>> \in Seq(X) /\ Pairwise(<<>>, R) /\ \A x : ~Contains(<<>>, x)
    BY DEF Pairwise, Contains
  <2>2. joined[0] \in Seq(X) /\ Pairwise(joined[0], R) /\ \A x : Contains(joined[0], x) => Among(0, x)
    <3> HIDE DEF Among
    <3> QED
      BY <1>3, <2>1
  <2>3. 0 \in 0 .. n
    BY <1>2
  <2> HIDE DEF Among, n
  <2> QED
    BY <2>2, <2>3
<1> HIDE DEF n
<1>7. ASSUME NEW m \in 1 .. n, m - 1 \in Good PROVE m \in Good
  <2>1. PICK u \in Seq(X), v \in Seq(X) : u = joined[m - 1] /\ v = lists[m]
    BY <1>2, <1>7
  <2>2. joined[m] = u \o v
    BY <1>3, <2>1
  <2>3. Pairwise(u, R) /\ Pairwise(v, R)
    BY <1>4, <1>7, <2>1
  <2>4. \A x : Contains(u, x) => Among(m - 1, x)
    BY <1>7, <2>1
  <2>5. \A x, y : Contains(u, x) /\ Contains(v, y) => <<x, y>> \in R
    BY <1>5, <2>1, <2>4
  <2>6. Pairwise(u \o v, R)
    <3> HIDE DEF Good, Among
    <3> QED
      BY <2>3, <2>5, JoinPairwise
  <2>7. u \o v \in Seq(X) /\ HasBoth(u \o v, u, v)
    BY JoinHas
  <2>8. \A x : Among(m - 1, x) \/ Contains(v, x) => Among(m, x)
    BY <1>2, <2>1
  <2>9. \A x : Contains(u \o v, x) => Among(m, x)
    <3> HIDE DEF Among
    <3> QED
      BY <2>4, <2>7, <2>8 DEF HasBoth
  <2>10. m \in 0 .. n
    BY <1>2
  <2> HIDE DEF Among
  <2> QED
    BY <2>2, <2>6, <2>7, <2>9, <2>10
<1>8. n \in Good
  <2>1. n \in Nat /\ n \in 0 .. n
    BY <1>2
  <2> HIDE DEF Good
  <2> QED
    BY <1>6, <1>7, <2>1, IntervalInduction
<1> QED
  BY <1>1, <1>8 DEF n

(* Lists without repeats, as lists in an order.                            *)
Differing(X) == {pair \in X \X X : pair[1] # pair[2]}

(* A member put into a list where the order R has its place.               *)
LEMMA InsertPairwise ==
  ASSUME NEW X, NEW list \in Seq(X), NEW R, Pairwise(list, R), NEW x \in X,
         NEW at \in 1 .. Len(list) + 1,
         \A i \in 1 .. at - 1 : <<list[i], x>> \in R,
         \A i \in at .. Len(list) : <<x, list[i]>> \in R
  PROVE  /\ InsertAt(list, at, x) \in Seq(X) /\ Pairwise(InsertAt(list, at, x), R)
         /\ \A y : Contains(InsertAt(list, at, x), y) <=> y = x \/ Contains(list, y)
<1> DEFINE u == SubSeq(list, 1, at - 1)
           v == SubSeq(list, at, Len(list))
           m == <<x>>
<1>1. Len(list) \in Nat /\ at \in Nat
  OBVIOUS
<1>2. /\ u \in Seq(X) /\ Len(u) = at - 1 /\ \A i \in 1 .. at - 1 : u[i] = list[i]
      /\ \A i \in 1 .. at - 1 : i \in 1 .. Len(list)
  <2>1. 1 \in Nat /\ at - 1 \in Nat /\ at - 1 <= Len(list)
    BY <1>1
  <2> QED
    BY <2>1
<1>3. /\ v \in Seq(X) /\ Len(v) = Len(list) - at + 1
      /\ \A i \in 1 .. Len(list) - at + 1 : v[i] = list[at + i - 1] /\ at + i - 1 \in at .. Len(list)
  BY <1>1
<1>4. m \in Seq(X) /\ Pairwise(m, R) /\ \A y : Contains(m, y) <=> y = x
  BY DEF Pairwise, Contains
<1> HIDE DEF u, v, m
<1>5. Pairwise(u, R) /\ Pairwise(v, R)
  <2>1. Pairwise(u, R)
    BY <1>1, <1>2 DEF Pairwise
  <2>2. ASSUME NEW a \in 1 .. Len(list) - at + 1, NEW b \in 1 .. Len(list) - at + 1, a < b
        PROVE  <<v[a], v[b]>> \in R
    <3>1. /\ at + a - 1 \in 1 .. Len(list) /\ at + b - 1 \in 1 .. Len(list)
          /\ at + a - 1 < at + b - 1
      BY <1>1, <2>2
    <3>2. v[a] = list[at + a - 1] /\ v[b] = list[at + b - 1]
      BY <1>3
    <3> QED
      BY <3>1, <3>2 DEF Pairwise
  <2> QED
    BY <1>3, <2>1, <2>2 DEF Pairwise
<1>6. \A y : Contains(u, y) <=> \E i \in 1 .. at - 1 : list[i] = y
  BY <1>1, <1>2 DEF Contains
<1>7. \A y : Contains(v, y) <=> \E i \in at .. Len(list) : list[i] = y
  <2>1. ASSUME NEW i \in at .. Len(list) PROVE Contains(v, list[i])
    <3>1. i - at + 1 \in 1 .. Len(list) - at + 1 /\ at + (i - at + 1) - 1 = i
      BY <1>1
    <3>2. v[i - at + 1] = list[i]
      BY <1>3, <3>1
    <3> QED
      BY <1>3, <3>1, <3>2 DEF Contains
  <2>2. ASSUME NEW y, Contains(v, y) PROVE \E i \in at .. Len(list) : list[i] = y
    BY <1>3, <2>2 DEF Contains
  <2> QED
    BY <2>1, <2>2
<1>8. u \o m \in Seq(X) /\ HasBoth(u \o m, u, m) /\ Pairwise(u \o m, R)
  <2>1. \A y, z : Contains(u, y) /\ Contains(m, z) => <<y, z>> \in R
    BY <1>4, <1>6
  <2> QED
    BY <1>2, <1>4, <1>5, <2>1, JoinHas, JoinPairwise
<1> DEFINE w == u \o m
<1>9. w \in Seq(X) /\ Pairwise(w, R) /\ \A y : Contains(w, y) <=> Contains(u, y) \/ y = x
  BY <1>4, <1>8 DEF HasBoth
<1> HIDE DEF w
<1>10. \A y, z : Contains(w, y) /\ Contains(v, z) => <<y, z>> \in R
  <2>1. ASSUME NEW i \in 1 .. at - 1, NEW j \in at .. Len(list) PROVE <<list[i], list[j]>> \in R
    BY <1>1 DEF Pairwise
  <2> QED
    BY <1>6, <1>7, <1>9, <2>1
<1>11. w \o v \in Seq(X) /\ HasBoth(w \o v, w, v) /\ Pairwise(w \o v, R)
  BY <1>3, <1>5, <1>9, <1>10, JoinHas, JoinPairwise
<1>12. InsertAt(list, at, x) = w \o v
  BY DEF InsertAt, w, u, m, v
<1>13. \A y : Contains(list, y) <=> Contains(u, y) \/ Contains(v, y)
  <2>1. \A i : i \in 1 .. Len(list) <=> i \in 1 .. at - 1 \/ i \in at .. Len(list)
    BY <1>1
  <2>2. \A y : Contains(list, y) <=> \E i \in 1 .. Len(list) : list[i] = y
    BY DEF Contains
  <2> QED
    BY <1>6, <1>7, <2>1, <2>2
<1> QED
  BY <1>9, <1>11, <1>12, <1>13 DEF HasBoth

-----------------------------------------------------------------------------
(* PSI spaces.                                                             *)

(* What a space is made of.                                                *)
LEMMA SpaceParts ==
  ASSUME NEW len \in Nat \ {0}, NEW X, NEW psi \in Space(len, X)
  PROVE  /\ psi = [w \in 0 .. len - 1 |-> psi[w]] /\ DOMAIN psi = 0 .. len - 1
         /\ \A w \in 0 .. len - 1 :
              /\ psi[w] = [S |-> psi[w].S, I |-> psi[w].I, P |-> psi[w].P]
              /\ psi[w].S \in Seq(X) /\ psi[w].I \in Seq(X) /\ psi[w].P \in Seq(X)
         /\ psi[0].I = <<>>
         /\ Weeks(psi) = len
<1>1. psi \in [0 .. len - 1 -> Bucket(X)] /\ psi[0].I = <<>>
  BY DEF Space
<1>2. Cardinality(0 .. len - 1) = IF 0 > len - 1 THEN 0 ELSE len - 1 - 0 + 1
  BY FS_Interval
<1>3. Cardinality(0 .. len - 1) = len
  BY <1>2
<1>4. ASSUME NEW w \in 0 .. len - 1
      PROVE  /\ psi[w] = [S |-> psi[w].S, I |-> psi[w].I, P |-> psi[w].P]
             /\ psi[w].S \in Seq(X) /\ psi[w].I \in Seq(X) /\ psi[w].P \in Seq(X)
  <2>1. psi[w] \in Bucket(X)
    BY <1>1
  <2> QED
    BY <2>1 DEF Bucket
<1> QED
  BY <1>1, <1>3, <1>4 DEF Weeks

(* A space from its weekly lists.                                          *)
SpaceOf(len, s, i, p) == [w \in 0 .. len - 1 |-> [S |-> s[w], I |-> i[w], P |-> p[w]]]

(* Weekly lists, with no stock in the first week, are a space.             *)
LEMMA SpaceIntro ==
  ASSUME NEW len \in Nat \ {0}, NEW X, NEW s \in [0 .. len - 1 -> Seq(X)],
         NEW i \in [0 .. len - 1 -> Seq(X)], NEW p \in [0 .. len - 1 -> Seq(X)], i[0] = <<>>
  PROVE  SpaceOf(len, s, i, p) \in Space(len, X)
<1> DEFINE psi == SpaceOf(len, s, i, p)
<1>1. ASSUME NEW w \in 0 .. len - 1
      PROVE  [S |-> s[w], I |-> i[w], P |-> p[w]] \in Bucket(X)
  BY DEF Bucket
<1>2. psi \in [0 .. len - 1 -> Bucket(X)]
  BY <1>1 DEF SpaceOf
<1>3. psi[0].I = i[0]
  BY DEF SpaceOf
<1> QED
  BY <1>2, <1>3 DEF Space

(* A space made anew.                                                      *)
LEMMA EmptySpace ==
  ASSUME NEW len \in Nat \ {0}, NEW X
  PROVE  EmptyPsi(len) \in Space(len, X)
<1>1. EmptyWeek \in Bucket(X) /\ EmptyWeek.I = <<>>
  BY DEF EmptyWeek, Bucket
<1> QED
  BY <1>1 DEF EmptyPsi, Space

-----------------------------------------------------------------------------
(* Stock: what is left of a list when lots are shipped.                    *)

(* What is left: the members that were not shipped.                        *)
LEMMA LeftOver ==
  ASSUME NEW X, NEW lots \in Seq(X), NEW shipped
  PROVE  /\ Without(lots, shipped) \in Seq(X)
         /\ \A x : Contains(Without(lots, shipped), x)
                     <=> Contains(lots, x) /\ ~Contains(shipped, x)
<1> DEFINE places == Unshipped(lots, shipped)
<1>1. places \in SUBSET (1 .. Len(lots)) /\ \A i \in 1 .. Len(lots) :
        i \in places <=> ~Contains(shipped, lots[i])
  BY DEF Unshipped
<1> HIDE DEF places
<1>2. Picked(lots, places) \in Seq(X)
  BY <1>1, PickedInOrder
<1>3. \A x : Contains(Picked(lots, places), x) <=> \E i \in places : lots[i] = x
  BY <1>1, PickedHas
<1>4. \A x : (\E i \in places : lots[i] = x) <=> Contains(lots, x) /\ ~Contains(shipped, x)
  <2>1. \A x : Contains(lots, x) <=> \E i \in 1 .. Len(lots) : lots[i] = x
    BY DEF Contains
  <2> QED
    BY <1>1, <2>1
<1> QED
  BY <1>2, <1>3, <1>4 DEF Without, places

(* And what is left when each lot is kept once: it is in the list once.    *)
LEMMA LeftOnce ==
  ASSUME NEW X, NEW lots \in Seq(X), NEW shipped
  PROVE  /\ fifo_lot_diff(lots, shipped) \in Seq(X)
         /\ \A x : Contains(fifo_lot_diff(lots, shipped), x)
                     <=> Contains(lots, x) /\ ~Contains(shipped, x)
         /\ Distinct(fifo_lot_diff(lots, shipped))
<1> DEFINE places == {i \in Unshipped(lots, shipped) : \A j \in 1 .. i - 1 : lots[j] # lots[i]}
<1>0. fifo_lot_diff(lots, shipped) = Picked(lots, places)
  BY DEF fifo_lot_diff
<1>1. places \in SUBSET (1 .. Len(lots)) /\ \A i \in 1 .. Len(lots) :
        i \in places <=> ~Contains(shipped, lots[i]) /\ \A j \in 1 .. i - 1 : lots[j] # lots[i]
  BY DEF Unshipped
<1> HIDE DEF places
<1>2. Picked(lots, places) \in Seq(X)
  BY <1>1, PickedInOrder
<1>3. \A x : Contains(Picked(lots, places), x) <=> \E i \in places : lots[i] = x
  BY <1>1, PickedHas
<1>4. ASSUME NEW x, Contains(lots, x), ~Contains(shipped, x)
      PROVE  \E i \in places : lots[i] = x
  <2> DEFINE at == {i \in 1 .. Len(lots) : lots[i] = x}
  <2>1. at # {} /\ at \in SUBSET Nat
    BY <1>4 DEF Contains
  <2> HIDE DEF at
  <2>2. PICK i \in at : \A y \in at : i <= y
    BY <2>1, LeastMember
  <2>3. i \in 1 .. Len(lots) /\ lots[i] = x /\ \A j \in 1 .. i - 1 : j \in 1 .. Len(lots) /\ j < i
    BY <2>2 DEF at
  <2>4. \A j \in 1 .. i - 1 : lots[j] # x
    <3> SUFFICES ASSUME NEW j \in 1 .. i - 1, lots[j] = x PROVE FALSE
      OBVIOUS
    <3>1. j \in at
      BY <2>3 DEF at
    <3>2. i <= j
      BY <2>2, <3>1
    <3> QED
      BY <2>3, <3>2
  <2> QED
    BY <1>1, <1>4, <2>3, <2>4
<1>5. ASSUME NEW x, NEW i \in places, lots[i] = x
      PROVE  Contains(lots, x) /\ ~Contains(shipped, x)
  BY <1>1, <1>5 DEF Contains
<1>6. Distinct(Picked(lots, places))
  <2>1. ASSUME NEW i \in places, NEW j \in places, lots[i] = lots[j] PROVE i = j
    <3>1. i \in 1 .. Len(lots) /\ j \in 1 .. Len(lots)
      BY <1>1
    <3>2. i < j => i \in 1 .. j - 1
      BY <3>1
    <3>3. j < i => j \in 1 .. i - 1
      BY <3>1
    <3> QED
      BY <1>1, <2>1, <3>1, <3>2, <3>3
  <2> QED
    BY <1>1, <2>1, PickedOnce
<1> QED
  BY <1>0, <1>2, <1>3, <1>4, <1>5, <1>6

(* The weekly stocks: a lot stays from a week to the next unless shipped,  *)
(* and an arriving lot joins it.                                           *)
IsStock(stock, psi, len, X) ==
  /\ stock \in [0 .. len - 1 -> Seq(X)]
  /\ stock[0] = <<>>
  /\ \A w \in 1 .. len - 1 : \A x :
       Contains(stock[w], x)
         <=> (Contains(stock[w - 1], x) \/ Contains(psi[w].P, x)) /\ ~Contains(psi[w].S, x)

(* The stocks of the supply layer, where each lot is kept once.            *)
LEMMA SupplyStocks ==
  ASSUME NEW len \in Nat \ {0}, NEW X, NEW psi \in Space(len, X)
  PROVE  LET stock == Stocks(psi, fifo_lot_diff)
         IN  /\ IsStock(stock, psi, len, X)
             /\ \A w \in 0 .. len - 1 : Distinct(stock[w])
             /\ \A w \in 1 .. len - 1 :
                  stock[w] = fifo_lot_diff(stock[w - 1] \o psi[w].P, psi[w].S)
<1> DEFINE n == len - 1
           Onto(s, w) == fifo_lot_diff(s \o psi[w].P, psi[w].S)
           A == Seq(X)
           b == psi[0].I
           step == [w \in 1 .. n |-> [s \in A |-> Onto(s, w)]]
           stock == CHOOSE f : f = [w \in DOMAIN psi |-> IF w = 0 THEN b ELSE Onto(f[w - 1], w)]
<1>0. Stocks(psi, fifo_lot_diff) = stock
  BY Zenon DEF Stocks
<1>1. n \in Nat /\ DOMAIN psi = 0 .. n /\ b = <<>> /\ \A w \in 0 .. n : psi[w].P \in Seq(X)
  <2>1. n \in Nat
    OBVIOUS
  <2>2. DOMAIN psi = 0 .. n /\ b = <<>> /\ \A w \in 0 .. n : psi[w].P \in Seq(X)
    <3> HIDE DEF A, step, Onto
    <3> QED
      BY SpaceParts
  <2> QED
    BY <2>1, <2>2
<1>2. ASSUME NEW w \in 1 .. n, NEW s \in A
      PROVE  Onto(s, w) \in A /\ Distinct(Onto(s, w)) /\ \A x :
               Contains(Onto(s, w), x)
                 <=> (Contains(s, x) \/ Contains(psi[w].P, x)) /\ ~Contains(psi[w].S, x)
  <2>0. PICK p \in Seq(X) : p = psi[w].P
    BY <1>1
  <2>1. PICK all \in Seq(X) : all = s \o p /\ HasBoth(all, s, p)
    BY JoinHas
  <2>2. fifo_lot_diff(all, psi[w].S) \in Seq(X) /\ Distinct(fifo_lot_diff(all, psi[w].S))
        /\ \A x : Contains(fifo_lot_diff(all, psi[w].S), x)
                    <=> Contains(all, x) /\ ~Contains(psi[w].S, x)
    BY LeftOnce
  <2> QED
    BY <2>0, <2>1, <2>2 DEF HasBoth
<1>3. step \in Steps(n, A) /\ b \in A
  <2> HIDE DEF Onto
  <2> QED
    BY <1>1, <1>2 DEF Steps
<1> HIDE DEF n, A, b, step
<1>4. PICK g \in [0 .. n -> A] : g[0] = b /\ \A w \in 1 .. n : g[w] = step[w][g[w - 1]]
  <2>1. n \in Nat
    BY <1>1
  <2> HIDE DEF Onto, stock
  <2>2. \E g \in [0 .. n -> A] : g[0] = b /\ \A w \in 1 .. n : g[w] = step[w][g[w - 1]]
    BY <1>3, <2>1, RecursionOnInterval
  <2> QED
    BY <2>2
<1>5. \A w \in 1 .. n : w - 1 \in 0 .. n /\ g[w - 1] \in A /\ w # 0
  BY <1>1, <1>4
<1>6. \A w \in 1 .. n : g[w] = Onto(g[w - 1], w)
  <2> HIDE DEF Onto
  <2> QED
    BY <1>4, <1>5 DEF step
<1>7. g = [w \in DOMAIN psi |-> IF w = 0 THEN b ELSE Onto(g[w - 1], w)]
  <2> HIDE DEF Onto
  <2> QED
    BY <1>1, <1>4, <1>6
<1>8. stock = [w \in DOMAIN psi |-> IF w = 0 THEN b ELSE Onto(stock[w - 1], w)]
  BY <1>7, Zenon
<1> HIDE DEF stock
<1>9. stock[0] = b /\ \A w \in 1 .. n : stock[w] = Onto(stock[w - 1], w)
  <2>1. DOMAIN psi = 0 .. n /\ n \in Nat
    BY <1>1
  <2> HIDE DEF Onto
  <2>2. stock[0] = b
    BY <1>8, <2>1
  <2>3. ASSUME NEW w \in 1 .. n PROVE stock[w] = Onto(stock[w - 1], w)
    <3>1. w \in DOMAIN psi /\ w # 0
      BY <2>1
    <3> QED
      BY <1>8, <3>1
  <2> QED
    BY <2>2, <2>3
<1> DEFINE Good == {w \in 0 .. n : stock[w] \in A /\ Distinct(stock[w])}
<1>10. 0 \in Good
  BY <1>1, <1>3, <1>9 DEF Distinct
<1>11. ASSUME NEW w \in 1 .. n, w - 1 \in Good PROVE w \in Good
  BY <1>2, <1>9, <1>11
<1>12. \A w \in 0 .. n : w \in Good
  <2> HIDE DEF Good
  <2> QED
    BY <1>1, <1>10, <1>11, IntervalInduction
<1>13. stock \in [0 .. n -> A]
  BY <1>1, <1>8, <1>12
<1>14. ASSUME NEW w \in 1 .. n, NEW x
       PROVE  Contains(stock[w], x)
                <=> (Contains(stock[w - 1], x) \/ Contains(psi[w].P, x)) /\ ~Contains(psi[w].S, x)
  <2>1. stock[w - 1] \in A /\ stock[w] = Onto(stock[w - 1], w)
    BY <1>1, <1>9, <1>12
  <2> HIDE DEF Onto
  <2> QED
    BY <1>2, <2>1
<1> QED
  BY <1>0, <1>1, <1>9, <1>12, <1>13, <1>14 DEF IsStock, n, A

(* Those of the demand layer.                                              *)
LEMMA DemandStocks ==
  ASSUME NEW len \in Nat \ {0}, NEW X, NEW psi \in Space(len, X)
  PROVE  IsStock(Stocks(psi, Without), psi, len, X)
<1> DEFINE n == len - 1
           Onto(s, w) == Without(s \o psi[w].P, psi[w].S)
           A == Seq(X)
           b == psi[0].I
           step == [w \in 1 .. n |-> [s \in A |-> Onto(s, w)]]
           stock == CHOOSE f : f = [w \in DOMAIN psi |-> IF w = 0 THEN b ELSE Onto(f[w - 1], w)]
<1>0. Stocks(psi, Without) = stock
  BY Zenon DEF Stocks
<1>1. n \in Nat /\ DOMAIN psi = 0 .. n /\ b = <<>> /\ \A w \in 0 .. n : psi[w].P \in Seq(X)
  <2>1. n \in Nat
    OBVIOUS
  <2>2. DOMAIN psi = 0 .. n /\ b = <<>> /\ \A w \in 0 .. n : psi[w].P \in Seq(X)
    <3> HIDE DEF A, step, Onto
    <3> QED
      BY SpaceParts
  <2> QED
    BY <2>1, <2>2
<1>2. ASSUME NEW w \in 1 .. n, NEW s \in A
      PROVE  Onto(s, w) \in A /\ \A x :
               Contains(Onto(s, w), x)
                 <=> (Contains(s, x) \/ Contains(psi[w].P, x)) /\ ~Contains(psi[w].S, x)
  <2>0. PICK p \in Seq(X) : p = psi[w].P
    BY <1>1
  <2>1. PICK all \in Seq(X) : all = s \o p /\ HasBoth(all, s, p)
    BY JoinHas
  <2>2. Without(all, psi[w].S) \in Seq(X)
        /\ \A x : Contains(Without(all, psi[w].S), x)
                    <=> Contains(all, x) /\ ~Contains(psi[w].S, x)
    BY LeftOver
  <2> QED
    BY <2>0, <2>1, <2>2 DEF HasBoth
<1>3. step \in Steps(n, A) /\ b \in A
  <2> HIDE DEF Onto
  <2> QED
    BY <1>1, <1>2 DEF Steps
<1> HIDE DEF n, A, b, step
<1>4. PICK g \in [0 .. n -> A] : g[0] = b /\ \A w \in 1 .. n : g[w] = step[w][g[w - 1]]
  <2>1. n \in Nat
    BY <1>1
  <2> HIDE DEF Onto, stock
  <2>2. \E g \in [0 .. n -> A] : g[0] = b /\ \A w \in 1 .. n : g[w] = step[w][g[w - 1]]
    BY <1>3, <2>1, RecursionOnInterval
  <2> QED
    BY <2>2
<1>5. \A w \in 1 .. n : w - 1 \in 0 .. n /\ g[w - 1] \in A /\ w # 0
  BY <1>1, <1>4
<1>6. \A w \in 1 .. n : g[w] = Onto(g[w - 1], w)
  <2> HIDE DEF Onto
  <2> QED
    BY <1>4, <1>5 DEF step
<1>7. g = [w \in DOMAIN psi |-> IF w = 0 THEN b ELSE Onto(g[w - 1], w)]
  <2> HIDE DEF Onto
  <2> QED
    BY <1>1, <1>4, <1>6
<1>8. stock = [w \in DOMAIN psi |-> IF w = 0 THEN b ELSE Onto(stock[w - 1], w)]
  BY <1>7, Zenon
<1> HIDE DEF stock
<1>9. stock[0] = b /\ \A w \in 1 .. n : stock[w] = Onto(stock[w - 1], w)
  <2>1. DOMAIN psi = 0 .. n /\ n \in Nat
    BY <1>1
  <2> HIDE DEF Onto
  <2>2. stock[0] = b
    BY <1>8, <2>1
  <2>3. ASSUME NEW w \in 1 .. n PROVE stock[w] = Onto(stock[w - 1], w)
    <3>1. w \in DOMAIN psi /\ w # 0
      BY <2>1
    <3> QED
      BY <1>8, <3>1
  <2> QED
    BY <2>2, <2>3
<1> DEFINE Good == {w \in 0 .. n : stock[w] \in A}
<1>10. 0 \in Good
  BY <1>1, <1>3, <1>9
<1>11. ASSUME NEW w \in 1 .. n, w - 1 \in Good PROVE w \in Good
  BY <1>2, <1>9, <1>11
<1>12. \A w \in 0 .. n : w \in Good
  <2> HIDE DEF Good
  <2> QED
    BY <1>1, <1>10, <1>11, IntervalInduction
<1>13. stock \in [0 .. n -> A]
  BY <1>1, <1>8, <1>12
<1>14. ASSUME NEW w \in 1 .. n, NEW x
       PROVE  Contains(stock[w], x)
                <=> (Contains(stock[w - 1], x) \/ Contains(psi[w].P, x)) /\ ~Contains(psi[w].S, x)
  <2>1. stock[w - 1] \in A /\ stock[w] = Onto(stock[w - 1], w)
    BY <1>1, <1>9, <1>12
  <2> HIDE DEF Onto
  <2> QED
    BY <1>2, <2>1
<1> QED
  BY <1>0, <1>1, <1>9, <1>13, <1>14 DEF IsStock, n, A

(* Stock kept in this way agrees with the movements.                       *)
LEMMA StockIsAgreed ==
  ASSUME NEW len \in Nat \ {0}, NEW X, NEW psi \in Space(len, X), NEW stock,
         IsStock(stock, psi, len, X), NEW lots
  PROVE  /\ WithStocks(psi, stock) \in Space(len, X)
         /\ \A w \in 0 .. len - 1 :
              /\ WithStocks(psi, stock)[w].S = psi[w].S
              /\ WithStocks(psi, stock)[w].P = psi[w].P
              /\ WithStocks(psi, stock)[w].I = stock[w]
         /\ StockAgrees(WithStocks(psi, stock), lots)
<1> DEFINE new == [w \in DOMAIN psi |-> [psi[w] EXCEPT !.I = stock[w]]]
           n == len - 1
<1>0. WithStocks(psi, stock) = new
  BY Zenon DEF WithStocks, With
<1>1. DOMAIN psi = 0 .. n /\ n \in Nat
  BY SpaceParts
<1>2. \A w \in 0 .. n : new[w] = [S |-> psi[w].S, I |-> stock[w], P |-> psi[w].P]
  <2>1. \A w \in 0 .. n : psi[w] = [S |-> psi[w].S, I |-> psi[w].I, P |-> psi[w].P]
    BY SpaceParts
  <2>2. ASSUME NEW w \in 0 .. n PROVE new[w] = [S |-> psi[w].S, I |-> stock[w], P |-> psi[w].P]
    <3>1. new[w] = [psi[w] EXCEPT !.I = stock[w]]
      BY <1>1
    <3>2. PICK s, i, p : psi[w] = [S |-> s, I |-> i, P |-> p]
      BY <2>1
    <3> QED
      BY <3>1, <3>2
  <2> QED
    BY <2>2
<1>3. new \in Space(len, X)
  <2>1. \A w \in 0 .. n : psi[w].S \in Seq(X) /\ psi[w].P \in Seq(X) /\ stock[w] \in Seq(X)
    BY SpaceParts DEF IsStock
  <2>2. ASSUME NEW w \in 0 .. n PROVE new[w] \in Bucket(X)
    <3>1. PICK s \in Seq(X), i \in Seq(X), p \in Seq(X) : new[w] = [S |-> s, I |-> i, P |-> p]
      <4> HIDE DEF new
      <4> QED
        BY <1>2, <2>1
    <3> HIDE DEF new
    <3> QED
      BY <3>1 DEF Bucket
  <2>3. new \in [0 .. n -> Bucket(X)]
    <3> DEFINE B == Bucket(X)
    <3>1. new = [w \in 0 .. n |-> new[w]] /\ \A w \in 0 .. n : new[w] \in B
      BY <1>1, <2>2
    <3> HIDE DEF new, B
    <3>2. new \in [0 .. n -> B]
      BY <3>1
    <3> QED
      BY <3>2 DEF B
  <2>4. new[0].I = <<>>
    <3>1. 0 \in 0 .. n /\ stock[0] = <<>>
      BY <1>1 DEF IsStock
    <3>2. new[0] = [S |-> psi[0].S, I |-> stock[0], P |-> psi[0].P]
      BY <1>2, <3>1
    <3> HIDE DEF new
    <3> QED
      BY <3>1, <3>2
  <2> HIDE DEF new
  <2> QED
    BY <2>3, <2>4 DEF Space
<1>4. ASSUME NEW w \in 0 .. n
      PROVE  new[w].S = psi[w].S /\ new[w].P = psi[w].P /\ new[w].I = stock[w]
  <2>1. new[w] = [S |-> psi[w].S, I |-> stock[w], P |-> psi[w].P]
    BY <1>2
  <2> HIDE DEF new
  <2> QED
    BY <2>1
<1>5. DOMAIN new = 0 .. n
  BY <1>1
<1> HIDE DEF new
<1>6. ASSUME NEW x \in lots
      PROVE  LET arrives == WeeksOf(new, "P", x) \ {0}
                 ships   == WeeksOf(new, "S", x)
             IN  WeeksOf(new, "I", x) =
                   {w \in DOMAIN new : \E v \in arrives : v <= w /\ ships \cap (v .. w) = {}}
  <2> DEFINE In(w) == \E v \in 1 .. w : /\ Contains(psi[v].P, x)
                                        /\ \A u \in v .. w : ~Contains(psi[u].S, x)
             Good == {w \in 0 .. n : Contains(stock[w], x) <=> In(w)}
  <2>1. 0 \in Good
    BY <1>1 DEF IsStock, Contains
  <2>2. ASSUME NEW w \in 1 .. n, w - 1 \in Good PROVE w \in Good
    <3>1. Contains(stock[w], x)
            <=> (Contains(stock[w - 1], x) \/ Contains(psi[w].P, x)) /\ ~Contains(psi[w].S, x)
      BY DEF IsStock
    <3>2. Contains(stock[w - 1], x) <=> In(w - 1)
      BY <2>2
    <3>3. \A v : v \in 1 .. w <=> v \in 1 .. w - 1 \/ v = w
      BY <1>1
    <3>4. \A v \in 1 .. w : \A u : u \in v .. w <=> u \in v .. w - 1 \/ u = w
      BY <1>1
    <3>5. \A u : u \in w .. w - 1 => FALSE
      BY <1>1
    <3>6. In(w) <=> (In(w - 1) \/ Contains(psi[w].P, x)) /\ ~Contains(psi[w].S, x)
      <4>1. ASSUME In(w) PROVE (In(w - 1) \/ Contains(psi[w].P, x)) /\ ~Contains(psi[w].S, x)
        <5>1. PICK v \in 1 .. w : /\ Contains(psi[v].P, x)
                                  /\ \A u \in v .. w : ~Contains(psi[u].S, x)
          BY <4>1
        <5> QED
          BY <3>3, <3>4, <5>1
      <4>2. ASSUME In(w - 1), ~Contains(psi[w].S, x) PROVE In(w)
        <5>1. PICK v \in 1 .. w - 1 : /\ Contains(psi[v].P, x)
                                      /\ \A u \in v .. w - 1 : ~Contains(psi[u].S, x)
          BY <4>2
        <5> QED
          BY <3>3, <3>4, <4>2, <5>1
      <4>3. ASSUME Contains(psi[w].P, x), ~Contains(psi[w].S, x) PROVE In(w)
        BY <3>3, <3>4, <3>5, <4>3
      <4> QED
        BY <4>1, <4>2, <4>3
    <3> HIDE DEF In
    <3> QED
      BY <1>1, <3>1, <3>2, <3>6
  <2>3. \A w \in 0 .. n : w \in Good
    <3> HIDE DEF Good
    <3> QED
      BY <1>1, <2>1, <2>2, IntervalInduction
  <2>4. WeeksOf(new, "I", x) = {w \in 0 .. n : Contains(stock[w], x)}
        /\ WeeksOf(new, "P", x) = {w \in 0 .. n : Contains(psi[w].P, x)}
        /\ WeeksOf(new, "S", x) = {w \in 0 .. n : Contains(psi[w].S, x)}
    BY <1>4, <1>5 DEF WeeksOf
  <2>5. ASSUME NEW w \in 0 .. n
        PROVE  In(w) <=> \E v \in WeeksOf(new, "P", x) \ {0} :
                           v <= w /\ WeeksOf(new, "S", x) \cap (v .. w) = {}
    <3>1. \A v : v \in 1 .. w <=> v \in (0 .. n) \ {0} /\ v <= w
      BY <1>1
    <3>2. \A v \in 1 .. w : \A u \in v .. w : u \in 0 .. n
      BY <1>1
    <3> QED
      BY <2>4, <3>1, <3>2
  <2>6. \A w \in 0 .. n : Contains(stock[w], x) <=>
          \E v \in WeeksOf(new, "P", x) \ {0} : v <= w /\ WeeksOf(new, "S", x) \cap (v .. w) = {}
    <3> HIDE DEF In
    <3> QED
      BY <2>3, <2>5
  <2> QED
    BY <1>5, <2>4, <2>6
<1>7. StockAgrees(new, lots)
  BY <1>6 DEF StockAgrees
<1> QED
  BY <1>0, <1>3, <1>4, <1>7

-----------------------------------------------------------------------------
(* The operations of a node.                                               *)

(* Two spaces ship and receive the same.                                   *)
SameMoves(a, b, len) == \A w \in 0 .. len - 1 : a[w].S = b[w].S /\ a[w].P = b[w].P

Stocked(psi, len) == \A w \in 0 .. len - 1 : Distinct(psi[w].I)

(* calcPS2I4supply moves nothing, and leaves a stock that agrees with the  *)
(* movements, each lot once.                                               *)
LEMMA SupplyReckoned ==
  ASSUME NEW len \in Nat \ {0}, NEW X, NEW psi \in Space(len, X), NEW lots
  PROVE  /\ calcPS2I4supply(psi) \in Space(len, X)
         /\ SameMoves(calcPS2I4supply(psi), psi, len)
         /\ Stocked(calcPS2I4supply(psi), len)
         /\ StockAgrees(calcPS2I4supply(psi), lots)
<1> DEFINE stock == Stocks(psi, fifo_lot_diff)
<1>1. IsStock(stock, psi, len, X) /\ \A w \in 0 .. len - 1 : Distinct(stock[w])
  BY SupplyStocks
<1>2. calcPS2I4supply(psi) = WithStocks(psi, stock)
  BY Zenon DEF calcPS2I4supply
<1> HIDE DEF stock
<1>3. /\ WithStocks(psi, stock) \in Space(len, X)
      /\ \A w \in 0 .. len - 1 :
           /\ WithStocks(psi, stock)[w].S = psi[w].S
           /\ WithStocks(psi, stock)[w].P = psi[w].P
           /\ WithStocks(psi, stock)[w].I = stock[w]
      /\ StockAgrees(WithStocks(psi, stock), lots)
  BY <1>1, StockIsAgreed
<1> QED
  BY <1>1, <1>2, <1>3 DEF SameMoves, Stocked

(* calcPS2I4demand moves nothing, and leaves a stock that agrees.          *)
LEMMA DemandReckoned ==
  ASSUME NEW len \in Nat \ {0}, NEW X, NEW psi \in Space(len, X), NEW lots
  PROVE  /\ calcPS2I4demand(psi) \in Space(len, X)
         /\ SameMoves(calcPS2I4demand(psi), psi, len)
         /\ StockAgrees(calcPS2I4demand(psi), lots)
<1> DEFINE stock == Stocks(psi, Without)
<1>1. IsStock(stock, psi, len, X)
  BY DemandStocks
<1>2. calcPS2I4demand(psi) = WithStocks(psi, stock)
  BY Zenon DEF calcPS2I4demand
<1> HIDE DEF stock
<1>3. /\ WithStocks(psi, stock) \in Space(len, X)
      /\ \A w \in 0 .. len - 1 :
           /\ WithStocks(psi, stock)[w].S = psi[w].S
           /\ WithStocks(psi, stock)[w].P = psi[w].P
           /\ WithStocks(psi, stock)[w].I = stock[w]
      /\ StockAgrees(WithStocks(psi, stock), lots)
  BY <1>1, StockIsAgreed
<1> QED
  BY <1>1, <1>2, <1>3 DEF SameMoves

(* Spaces are equal if their weekly lists are.                             *)
LEMMA SpacesEqual ==
  ASSUME NEW len \in Nat \ {0}, NEW X, NEW a \in Space(len, X), NEW b \in Space(len, X),
         SameMoves(a, b, len), \A w \in 0 .. len - 1 : a[w].I = b[w].I
  PROVE  a = b
<1>1. /\ a = [w \in 0 .. len - 1 |-> a[w]]
      /\ \A w \in 0 .. len - 1 : a[w] = [S |-> a[w].S, I |-> a[w].I, P |-> a[w].P]
  BY SpaceParts
<1>2. /\ b = [w \in 0 .. len - 1 |-> b[w]]
      /\ \A w \in 0 .. len - 1 : b[w] = [S |-> b[w].S, I |-> b[w].I, P |-> b[w].P]
  BY SpaceParts
<1>3. ASSUME NEW w \in 0 .. len - 1 PROVE a[w] = b[w]
  <2>1. a[w].S = b[w].S /\ a[w].I = b[w].I /\ a[w].P = b[w].P
    BY DEF SameMoves
  <2> QED
    BY <1>1, <1>2, <2>1
<1> QED
  BY <1>1, <1>2, <1>3

(* The stock reckoned depends on the movements alone.                      *)
LEMMA SupplyFollowsMoves ==
  ASSUME NEW len \in Nat \ {0}, NEW X, NEW a \in Space(len, X), NEW b \in Space(len, X),
         SameMoves(a, b, len)
  PROVE  calcPS2I4supply(a) = calcPS2I4supply(b)
<1> DEFINE s == Stocks(a, fifo_lot_diff)
           t == Stocks(b, fifo_lot_diff)
           n == len - 1
<1>1. calcPS2I4supply(a) = WithStocks(a, s) /\ calcPS2I4supply(b) = WithStocks(b, t)
  BY Zenon DEF calcPS2I4supply
<1>2. IsStock(s, a, len, X) /\ \A w \in 1 .. len - 1 : s[w] = fifo_lot_diff(s[w - 1] \o a[w].P, a[w].S)
  BY SupplyStocks
<1>3. IsStock(t, b, len, X) /\ \A w \in 1 .. len - 1 : t[w] = fifo_lot_diff(t[w - 1] \o b[w].P, b[w].S)
  BY SupplyStocks
<1> HIDE DEF s, t
<1> DEFINE Good == {w \in 0 .. n : s[w] = t[w]}
<1>4. 0 \in Good
  BY <1>2, <1>3 DEF IsStock
<1>5. ASSUME NEW w \in 1 .. n, w - 1 \in Good PROVE w \in Good
  <2>1. s[w - 1] = t[w - 1] /\ w \in 0 .. n
    BY <1>5
  <2>2. a[w].S = b[w].S /\ a[w].P = b[w].P
    BY <2>1 DEF SameMoves
  <2>3. s[w] = fifo_lot_diff(s[w - 1] \o a[w].P, a[w].S)
        /\ t[w] = fifo_lot_diff(t[w - 1] \o b[w].P, b[w].S)
    BY <1>2, <1>3
  <2>4. s[w] = t[w]
    BY <2>1, <2>2, <2>3
  <2> QED
    BY <2>1, <2>4
<1>6. \A w \in 0 .. n : w \in Good
  <2>1. n \in Nat
    OBVIOUS
  <2> HIDE DEF Good, n
  <2> QED
    BY <1>4, <1>5, <2>1, IntervalInduction
<1>7. /\ WithStocks(a, s) \in Space(len, X)
      /\ \A w \in 0 .. len - 1 :
           /\ WithStocks(a, s)[w].S = a[w].S
           /\ WithStocks(a, s)[w].P = a[w].P
           /\ WithStocks(a, s)[w].I = s[w]
  BY <1>2, StockIsAgreed
<1>8. /\ WithStocks(b, t) \in Space(len, X)
      /\ \A w \in 0 .. len - 1 :
           /\ WithStocks(b, t)[w].S = b[w].S
           /\ WithStocks(b, t)[w].P = b[w].P
           /\ WithStocks(b, t)[w].I = t[w]
  BY <1>3, StockIsAgreed
<1>9. SameMoves(WithStocks(a, s), WithStocks(b, t), len)
      /\ \A w \in 0 .. len - 1 : WithStocks(a, s)[w].I = WithStocks(b, t)[w].I
  BY <1>6, <1>7, <1>8 DEF SameMoves
<1>10. WithStocks(a, s) = WithStocks(b, t)
  BY <1>7, <1>8, <1>9, SpacesEqual
<1> QED
  BY <1>1, <1>10

(* The week at work at or before a week: one not closed, and the weeks     *)
(* after it are.                                                           *)
LEMMA WeekAtWork ==
  ASSUME NEW vacation \in SUBSET Nat, IsFiniteSet(vacation), NEW week \in Nat
  PROVE  /\ check_lv_week_bw(vacation, week) \in -1 .. week
         /\ check_lv_week_bw(vacation, week) \notin vacation
<1> DEFINE n == Cardinality(vacation)
           open == {w \in week - n .. week : w \notin vacation}
<1>1. n \in Nat
  BY FS_CardinalityType
<1> HIDE DEF n
<1>2. open # {}
  <2> SUFFICES ASSUME open = {} PROVE FALSE
    OBVIOUS
  <2> DEFINE all == week - n .. week
  <2>1. all \in SUBSET vacation
    OBVIOUS
  <2>2. Cardinality(all) = n + 1
    <3>1. week - n \in Int /\ week \in Int /\ week - n <= week /\ week - (week - n) + 1 = n + 1
      BY <1>1
    <3> QED
      BY <3>1, FS_Interval
  <2> HIDE DEF all
  <2>3. Cardinality(all) <= n
    BY <2>1, SubsetOfFinite DEF n
  <2> QED
    BY <1>1, <2>2, <2>3
<1> DEFINE back == {week - w : w \in open}
<1>3. back \in SUBSET Nat /\ back # {}
  BY <1>1, <1>2
<1>4. PICK least \in back : \A y \in back : least <= y
  <2> HIDE DEF back
  <2> QED
    BY <1>3, LeastMember
<1>5. PICK best \in open : \A w \in open : w <= best
  <2>1. PICK best \in open : least = week - best
    BY <1>4
  <2>2. ASSUME NEW w \in open PROVE w <= best
    <3>1. week - w \in back
      OBVIOUS
    <3>2. week - best <= week - w
      BY <1>4, <2>1, <3>1
    <3>3. w \in Int /\ best \in Int
      BY <1>1
    <3> QED
      BY <3>2, <3>3
  <2> QED
    BY <2>1, <2>2
<1> DEFINE max == CHOOSE x \in open : \A y \in open : x >= y
<1>6. check_lv_week_bw(vacation, week) = max
  BY Zenon DEF check_lv_week_bw, Max, n
<1>7. max \in open /\ \A y \in open : max >= y
  <2>1. \E x \in open : \A y \in open : x >= y
    <3>1. \A w \in open : w \in Int
      BY <1>1
    <3> HIDE DEF open
    <3> QED
      BY <1>5, <3>1
  <2> HIDE DEF open
  <2> QED
    BY <2>1, Zenon
<1>8. max >= -1
  <2>1. CASE -1 \in open
    BY <1>7, <2>1
  <2>2. CASE -1 \notin open
    BY <1>1, <1>7, <2>2
  <2> QED
    BY <2>1, <2>2
<1> HIDE DEF max
<1> QED
  BY <1>1, <1>6, <1>7, <1>8

(* The week at work at or before a week is at or before it, also if this   *)
(* is before the first.                                                    *)
LEMMA WeekAtWorkBefore ==
  ASSUME NEW vacation \in SUBSET Nat, IsFiniteSet(vacation), NEW week \in Int
  PROVE  check_lv_week_bw(vacation, week) \in Int /\ check_lv_week_bw(vacation, week) <= week
<1>1. CASE week \in Nat
  BY <1>1, WeekAtWork
<1>2. CASE week \notin Nat
  <2> DEFINE n == Cardinality(vacation)
             open == {w \in week - n .. week : w \notin vacation}
  <2>1. n \in Nat
    BY FS_CardinalityType
  <2> HIDE DEF n
  <2>2. open \in SUBSET Int /\ week \in open /\ \A w \in open : w <= week
    BY <1>2, <2>1
  <2> HIDE DEF open
  <2>3. Max(open) \in open
    <3>1. \E m \in open : \A w \in open : m >= w
      BY <2>2
    <3> QED
      BY <3>1 DEF Max
  <2>4. check_lv_week_bw(vacation, week) = Max(open)
    BY Zenon DEF check_lv_week_bw, open, n
  <2> QED
    BY <2>2, <2>3, <2>4
<1> QED
  BY <1>1, <1>2

(* The weeks of a shift are listed.                                        *)
LEMMA LastFirstLists ==
  ASSUME NEW len \in Nat \ {0}, NEW weeks \in SUBSET (0 .. len - 1)
  PROVE  /\ Cardinality(weeks) \in Nat /\ IsListing(LastFirst(weeks), weeks)
         /\ DOMAIN LastFirst(weeks) = 1 .. Cardinality(weeks)
         /\ \A k \in 1 .. Cardinality(weeks) : LastFirst(weeks)[k] \in 0 .. len - 1
<1>1. IsFiniteSet(weeks) /\ Cardinality(weeks) \in Nat /\ weeks \in SUBSET Int
  <2> DEFINE all == 0 .. len - 1
  <2>1. IsFiniteSet(all)
    BY FS_Interval
  <2>2. weeks \in SUBSET all
    OBVIOUS
  <2> HIDE DEF all
  <2>3. IsFiniteSet(weeks) /\ Cardinality(weeks) \in Nat
    BY <2>1, <2>2, SubsetOfFinite
  <2> QED
    BY <2>3
<1> DEFINE key == [w \in weeks |-> <<-w>>]
<1>2. KeyOf(key, 1) /\ DOMAIN key = weeks
  <2>1. \A w \in weeks : key[w] \in Tuples(1)
    BY <1>1 DEF Tuples
  <2>2. \A x, y \in weeks : key[x] = key[y] => x = y
    BY <1>1
  <2> QED
    BY <1>1, <2>1, <2>2 DEF KeyOf
<1>3. LastFirst(weeks) = InOrder(key)
  BY DEF LastFirst
<1> HIDE DEF key
<1>4. IsListing(InOrder(key), weeks)
  BY <1>2, InOrderLists
<1> QED
  BY <1>1, <1>3, <1>4 DEF IsListing

(* What a shift puts into a week is a list of lots, given by what is       *)
(* shipped alone.                                                          *)
LEMMA ShiftedLots ==
  ASSUME NEW len \in Nat \ {0}, NEW X, NEW psi \in Space(len, X), NEW sw \in Nat,
         NEW vacation, NEW v
  PROVE  ShiftedTo(psi, sw, vacation, v) \in Seq(X)
<1> DEFINE L == Weeks(psi)
           from == {w \in sw + 1 .. L - 1 : v = Slot(L, check_lv_week_bw(vacation, w - sw))}
           order == LastFirst(from)
           lists == [k \in DOMAIN order |-> psi[order[k]].S]
<1>1. ShiftedTo(psi, sw, vacation, v) = Concat(lists)
  BY Zenon DEF ShiftedTo
<1>2. L = len
  BY SpaceParts
<1>3. from \in SUBSET (0 .. len - 1)
  BY <1>2
<1> HIDE DEF from
<1>4. Cardinality(from) \in Nat /\ DOMAIN order = 1 .. Cardinality(from)
      /\ \A k \in 1 .. Cardinality(from) : order[k] \in 0 .. len - 1
  BY <1>3, LastFirstLists
<1>5. \A w \in 0 .. len - 1 : psi[w].S \in Seq(X)
  BY SpaceParts
<1> HIDE DEF order
<1>6. lists \in Seq(Seq(X))
  <2> DEFINE A == Seq(X)
             n == Cardinality(from)
  <2>1. lists = [k \in 1 .. n |-> psi[order[k]].S] /\ \A k \in 1 .. n : psi[order[k]].S \in A
    BY <1>4, <1>5
  <2>2. n \in Nat
    BY <1>4
  <2> HIDE DEF lists, A, n
  <2>3. lists \in [1 .. n -> A]
    BY <2>1
  <2>4. lists \in Seq(A)
    BY <2>2, <2>3
  <2> QED
    BY <2>4 DEF A
<1> HIDE DEF lists
<1> QED
  BY <1>1, <1>6, ConcatJoins

(* What a shift puts into a week is what is shipped in the weeks shifted to*)
(* it.                                                                     *)
LEMMA ShiftedHas ==
  ASSUME NEW len \in Nat \ {0}, NEW X, NEW psi \in Space(len, X), NEW sw \in Nat,
         NEW vacation, NEW v, NEW x
  PROVE  Contains(ShiftedTo(psi, sw, vacation, v), x)
           <=> \E w \in sw + 1 .. len - 1 :
                 v = Slot(len, check_lv_week_bw(vacation, w - sw)) /\ Contains(psi[w].S, x)
<1> DEFINE L == Weeks(psi)
           from == {w \in sw + 1 .. L - 1 : v = Slot(L, check_lv_week_bw(vacation, w - sw))}
           order == LastFirst(from)
           lists == [k \in DOMAIN order |-> psi[order[k]].S]
           n == Cardinality(from)
<1>1. ShiftedTo(psi, sw, vacation, v) = Concat(lists)
  BY Zenon DEF ShiftedTo
<1>2. L = len
  BY SpaceParts
<1>3. from \in SUBSET (0 .. len - 1)
  BY <1>2
<1>4. \A w : w \in from <=> w \in sw + 1 .. len - 1 /\ v = Slot(len, check_lv_week_bw(vacation, w - sw))
  BY <1>2
<1> HIDE DEF from
<1>5. n \in Nat /\ DOMAIN order = 1 .. n /\ IsListing(order, from)
  BY <1>3, LastFirstLists
<1>6. \A w \in 0 .. len - 1 : psi[w].S \in Seq(X)
  BY SpaceParts
<1>7. \A k \in 1 .. n : order[k] \in from /\ order[k] \in 0 .. len - 1
  BY <1>3, <1>5 DEF IsListing
<1>8. \A w \in from : \E k \in 1 .. n : order[k] = w
  BY <1>5 DEF IsListing
<1> HIDE DEF order
<1>9. lists \in Seq(Seq(X)) /\ Len(lists) = n /\ \A k \in 1 .. n : lists[k] = psi[order[k]].S
  <2> DEFINE A == Seq(X)
  <2>1. lists = [k \in 1 .. n |-> psi[order[k]].S] /\ \A k \in 1 .. n : psi[order[k]].S \in A
    BY <1>5, <1>6, <1>7
  <2>2. n \in Nat
    BY <1>5
  <2> HIDE DEF lists, A, n
  <2>3. lists \in [1 .. n -> A]
    BY <2>1
  <2>4. lists \in Seq(A) /\ Len(lists) = n
    BY <2>2, <2>3
  <2> QED
    BY <2>1, <2>4 DEF A
<1> HIDE DEF lists, n
<1>10. Contains(Concat(lists), x) <=> \E k \in 1 .. n : Contains(psi[order[k]].S, x)
  BY <1>9, ConcatJoins
<1>11. (\E k \in 1 .. n : Contains(psi[order[k]].S, x)) <=> \E w \in from : Contains(psi[w].S, x)
  BY <1>7, <1>8
<1> QED
  BY <1>1, <1>4, <1>10, <1>11

(* No list of a bucket but that of one week has x.                         *)
OnlyIn(len, psi, bucket, x, at) == \A w \in 0 .. len - 1 : w # at => Occ(psi[w][bucket], x) = 0

CountIn(len, psi, bucket, x, at) == IF at \in 0 .. len - 1 THEN Occ(psi[at][bucket], x) ELSE 0

CountShifted(len, psi, sw, vacation, v, x, at) ==
  IF at \in sw + 1 .. len - 1 /\ v = Slot(len, check_lv_week_bw(vacation, at - sw))
  THEN Occ(psi[at].S, x) ELSE 0

(* A lot shipped in one week only arrives where that week is shifted to.   *)
LEMMA ShiftCounts ==
  ASSUME NEW len \in Nat \ {0}, NEW X, NEW psi \in Space(len, X), NEW sw \in Nat,
         NEW vacation, NEW v, NEW x, NEW at, OnlyIn(len, psi, "S", x, at)
  PROVE  Occ(ShiftedTo(psi, sw, vacation, v), x) = CountShifted(len, psi, sw, vacation, v, x, at)
<1> SUFFICES Occ(ShiftedTo(psi, sw, vacation, v), x)
               = IF at \in sw + 1 .. len - 1 /\ v = Slot(len, check_lv_week_bw(vacation, at - sw))
                 THEN Occ(psi[at].S, x) ELSE 0
  BY DEF CountShifted
<1> DEFINE L == Weeks(psi)
           from == {w \in sw + 1 .. L - 1 : v = Slot(L, check_lv_week_bw(vacation, w - sw))}
           order == LastFirst(from)
           lists == [k \in DOMAIN order |-> psi[order[k]].S]
           n == Cardinality(from)
<1>0. \A w \in 0 .. len - 1 : w # at => Occ(psi[w].S, x) = 0
  BY DEF OnlyIn
<1>1. ShiftedTo(psi, sw, vacation, v) = Concat(lists)
  BY Zenon DEF ShiftedTo
<1>2. L = len
  BY SpaceParts
<1>3. from \in SUBSET (0 .. len - 1)
  BY <1>2
<1>4. at \in from <=> at \in sw + 1 .. len - 1 /\ v = Slot(len, check_lv_week_bw(vacation, at - sw))
  BY <1>2
<1> HIDE DEF from
<1>5. n \in Nat /\ DOMAIN order = 1 .. n /\ IsListing(order, from)
      /\ \A k \in 1 .. n : order[k] \in 0 .. len - 1
  BY <1>3, LastFirstLists
<1>6. \A w \in 0 .. len - 1 : psi[w].S \in Seq(X)
  BY SpaceParts
<1> HIDE DEF order
<1>7. lists \in Seq(Seq(X)) /\ Len(lists) = n /\ \A k \in 1 .. n : lists[k] = psi[order[k]].S
  <2> DEFINE A == Seq(X)
  <2>1. lists = [k \in 1 .. n |-> psi[order[k]].S] /\ \A k \in 1 .. n : psi[order[k]].S \in A
    BY <1>5, <1>6
  <2>2. n \in Nat
    BY <1>5
  <2> HIDE DEF lists, A, n
  <2>3. lists \in [1 .. n -> A]
    BY <2>1
  <2>4. lists \in Seq(A) /\ Len(lists) = n
    BY <2>2, <2>3
  <2> QED
    BY <2>1, <2>4 DEF A
<1> HIDE DEF lists
<1>8. CASE at \in from
  <2>1. PICK k \in 1 .. n : order[k] = at
    BY <1>5, <1>8 DEF IsListing
  <2>2. \A j \in 1 .. Len(lists) : j # k => Occ(lists[j], x) = 0
    <3> SUFFICES ASSUME NEW j \in 1 .. n, j # k PROVE Occ(lists[j], x) = 0
      BY <1>7
    <3>1. order[j] # at /\ order[j] \in 0 .. len - 1
      BY <1>5, <2>1 DEF IsListing
    <3> QED
      BY <1>0, <1>7, <3>1
  <2>3. Occ(Concat(lists), x) = Occ(lists[k], x)
    BY <1>7, <2>2, ConcatCounts
  <2> QED
    BY <1>1, <1>4, <1>7, <1>8, <2>1, <2>3
<1>9. CASE at \notin from
  <2>1. \A j \in 1 .. Len(lists) : j # 0 => Occ(lists[j], x) = 0
    <3> SUFFICES ASSUME NEW j \in 1 .. n PROVE Occ(lists[j], x) = 0
      BY <1>7
    <3>1. order[j] # at /\ order[j] \in 0 .. len - 1
      BY <1>5, <1>9 DEF IsListing
    <3> QED
      BY <1>0, <1>7, <3>1
  <2>2. 0 \notin 1 .. Len(lists)
    OBVIOUS
  <2>3. Occ(Concat(lists), x) = 0
    BY <1>7, <2>1, <2>2, ConcatCounts
  <2> QED
    BY <1>1, <1>4, <1>9, <2>3
<1> QED
  BY <1>8, <1>9

(* What the shift puts into a week depends on the shipments only.          *)
LEMMA ShiftedAlike ==
  ASSUME NEW len \in Nat \ {0}, NEW X, NEW a \in Space(len, X), NEW b \in Space(len, X),
         \A w \in 0 .. len - 1 : a[w].S = b[w].S,
         NEW sw \in Nat, NEW vacation, NEW v
  PROVE  ShiftedTo(a, sw, vacation, v) = ShiftedTo(b, sw, vacation, v)
<1> DEFINE from == {w \in sw + 1 .. len - 1 : v = Slot(len, check_lv_week_bw(vacation, w - sw))}
           order == LastFirst(from)
           Lists(psi) == [k \in DOMAIN order |-> psi[order[k]].S]
<1>1. Weeks(a) = len /\ Weeks(b) = len
  BY SpaceParts
<1>2. ShiftedTo(a, sw, vacation, v) = Concat(Lists(a)) /\ ShiftedTo(b, sw, vacation, v) = Concat(Lists(b))
  BY <1>1, Zenon DEF ShiftedTo
<1>3. from \in SUBSET (0 .. len - 1)
  OBVIOUS
<1> HIDE DEF from
<1>4. DOMAIN order = 1 .. Cardinality(from)
      /\ \A k \in 1 .. Cardinality(from) : order[k] \in 0 .. len - 1
  BY <1>3, LastFirstLists
<1> HIDE DEF order
<1>5. Lists(a) = Lists(b)
  BY <1>4
<1> QED
  BY <1>2, <1>5

(* shiftS2P_LV appends to what arrives, and changes nothing else; what it  *)
(* makes of the movements depends on the movements.                        *)
LEMMA ShiftAppends ==
  ASSUME NEW len \in Nat \ {0}, NEW X, NEW psi \in Space(len, X), NEW sw \in Nat, NEW vacation
  PROVE  /\ shiftS2P_LV(psi, sw, vacation) \in Space(len, X)
         /\ \A w \in 0 .. len - 1 :
              /\ shiftS2P_LV(psi, sw, vacation)[w].S = psi[w].S
              /\ shiftS2P_LV(psi, sw, vacation)[w].I = psi[w].I
              /\ shiftS2P_LV(psi, sw, vacation)[w].P = psi[w].P \o ShiftedTo(psi, sw, vacation, w)
<1> DEFINE To(v) == ShiftedTo(psi, sw, vacation, v)
           new == [v \in DOMAIN psi |-> [psi[v] EXCEPT !.P = @ \o To(v)]]
           s == [w \in 0 .. len - 1 |-> psi[w].S]
           i == [w \in 0 .. len - 1 |-> psi[w].I]
           p == [w \in 0 .. len - 1 |-> psi[w].P \o To(w)]
<1>1. shiftS2P_LV(psi, sw, vacation) = new
  BY Zenon DEF shiftS2P_LV, Shifted, With
<1>2. /\ DOMAIN psi = 0 .. len - 1 /\ psi[0].I = <<>>
      /\ \A w \in 0 .. len - 1 :
              /\ psi[w] = [S |-> psi[w].S, I |-> psi[w].I, P |-> psi[w].P]
              /\ psi[w].S \in Seq(X) /\ psi[w].I \in Seq(X) /\ psi[w].P \in Seq(X)
  <2> HIDE DEF To, new, s, i, p
  <2> QED
    BY SpaceParts
<1>3. \A w \in 0 .. len - 1 : To(w) \in Seq(X)
  BY ShiftedLots
<1> HIDE DEF To
<1>4. ASSUME NEW w \in 0 .. len - 1
      PROVE  new[w] = [S |-> s[w], I |-> i[w], P |-> p[w]] /\ p[w] \in Seq(X)
  <2>1. PICK x \in Seq(X), y \in Seq(X), z \in Seq(X) :
          psi[w] = [S |-> x, I |-> y, P |-> z] /\ x = psi[w].S /\ y = psi[w].I /\ z = psi[w].P
    BY <1>2
  <2>2. new[w] = [psi[w] EXCEPT !.P = psi[w].P \o To(w)]
    BY <1>2
  <2>3. new[w] = [S |-> x, I |-> y, P |-> z \o To(w)]
    BY <2>1, <2>2
  <2>4. z \o To(w) \in Seq(X)
    BY <1>3
  <2> QED
    BY <2>1, <2>3, <2>4
<1>5. s \in [0 .. len - 1 -> Seq(X)] /\ i \in [0 .. len - 1 -> Seq(X)] /\ i[0] = <<>>
  BY <1>2
<1>6. p \in [0 .. len - 1 -> Seq(X)]
  BY <1>4
<1>7. new = SpaceOf(len, s, i, p)
  <2>1. DOMAIN new = 0 .. len - 1 /\ new = [w \in 0 .. len - 1 |-> new[w]]
    BY <1>2
  <2> HIDE DEF new, s, i, p
  <2> QED
    BY <1>4, <2>1 DEF SpaceOf
<1>8. \A w \in 0 .. len - 1 :
        s[w] = psi[w].S /\ i[w] = psi[w].I /\ p[w] = psi[w].P \o To(w)
  OBVIOUS
<1> HIDE DEF new, s, i, p
<1>9. new \in Space(len, X)
  BY <1>5, <1>6, <1>7, SpaceIntro
<1>10. ASSUME NEW w \in 0 .. len - 1
       PROVE  new[w].S = psi[w].S /\ new[w].I = psi[w].I /\ new[w].P = psi[w].P \o To(w)
  <2>1. new[w] = [S |-> s[w], I |-> i[w], P |-> p[w]]
    BY <1>4
  <2>2. new[w].S = s[w] /\ new[w].I = i[w] /\ new[w].P = p[w]
    BY <2>1
  <2> QED
    BY <1>8, <2>2
<1> QED
  BY <1>1, <1>9, <1>10 DEF To

(* Spaces of the same moves have the same moves after the shift.           *)
LEMMA ShiftFollowsMoves ==
  ASSUME NEW len \in Nat \ {0}, NEW X, NEW a \in Space(len, X), NEW b \in Space(len, X),
         SameMoves(a, b, len), NEW sw \in Nat, NEW vacation
  PROVE  SameMoves(shiftS2P_LV(a, sw, vacation), shiftS2P_LV(b, sw, vacation), len)
<1>1. ASSUME NEW w \in 0 .. len - 1
      PROVE  /\ shiftS2P_LV(a, sw, vacation)[w].S = shiftS2P_LV(b, sw, vacation)[w].S
             /\ shiftS2P_LV(a, sw, vacation)[w].P = shiftS2P_LV(b, sw, vacation)[w].P
  <2>1. ShiftedTo(a, sw, vacation, w) = ShiftedTo(b, sw, vacation, w)
    BY ShiftedAlike DEF SameMoves
  <2>2. a[w].S = b[w].S /\ a[w].P = b[w].P
    BY DEF SameMoves
  <2>3. shiftS2P_LV(a, sw, vacation)[w].S = a[w].S
        /\ shiftS2P_LV(a, sw, vacation)[w].P = a[w].P \o ShiftedTo(a, sw, vacation, w)
    BY ShiftAppends
  <2>4. shiftS2P_LV(b, sw, vacation)[w].S = b[w].S
        /\ shiftS2P_LV(b, sw, vacation)[w].P = b[w].P \o ShiftedTo(b, sw, vacation, w)
    BY ShiftAppends
  <2> QED
    BY <2>1, <2>2, <2>3, <2>4
<1> QED
  BY <1>1 DEF SameMoves

-----------------------------------------------------------------------------
(* Trees: a walk from the root down.                                       *)

(* Every node but the root has a parent, less deep than the node.          *)
IsTree(node, root, parent, depth, max) ==
  /\ root \in node
  /\ parent \in [node -> node]
  /\ depth \in [node -> 0 .. max]
  /\ \A n \in node : n # root => depth[parent[n]] < depth[n]

(* A set with the root, and with every node whose parent it has.           *)
LEMMA DownTheTree ==
  ASSUME NEW node, NEW root, NEW parent, NEW depth, NEW max \in Nat,
         IsTree(node, root, parent, depth, max),
         NEW S, \A n \in node : n = root \/ parent[n] \in S => n \in S
  PROVE  \A n \in node : n \in S
<1> DEFINE Deep == {d \in Nat : \A n \in node : depth[n] <= d => n \in S}
<1>1. \A n \in node : depth[n] \in Nat /\ parent[n] \in node
  BY DEF IsTree
<1>2. 0 \in Deep
  <2> SUFFICES ASSUME NEW n \in node, depth[n] <= 0 PROVE n \in S
    OBVIOUS
  <2>1. n = root
    BY <1>1 DEF IsTree
  <2> QED
    BY <2>1
<1>3. ASSUME NEW d \in Nat, d \in Deep PROVE d + 1 \in Deep
  <2> SUFFICES ASSUME NEW n \in node, depth[n] <= d + 1 PROVE n \in S
    OBVIOUS
  <2>1. CASE n = root
    BY <2>1
  <2>2. CASE n # root
    <3>1. depth[parent[n]] <= d
      BY <1>1, <2>2 DEF IsTree
    <3>2. parent[n] \in S
      BY <1>1, <1>3, <3>1
    <3> QED
      BY <3>2
  <2> QED
    BY <2>1, <2>2
<1>4. \A d \in Nat : d \in Deep
  <2> HIDE DEF Deep
  <2> QED
    BY <1>2, <1>3, NatInductionOnSets
<1>5. ASSUME NEW n \in node PROVE n \in S
  <2>1. depth[n] \in Deep /\ depth[n] <= depth[n]
    BY <1>1, <1>4
  <2> QED
    BY <2>1
<1> QED
  BY <1>5

(* What a node is given depends on what its parent is given.               *)
StepsDown(node, V) == [node -> [V -> V]]

(* A value for every node, reckoned from its parent's, exists.             *)
LEMMA WalkExists ==
  ASSUME NEW node, NEW root, NEW parent, NEW depth, NEW max \in Nat,
         IsTree(node, root, parent, depth, max),
         NEW V, NEW base \in V, NEW step \in StepsDown(node, V)
  PROVE  \E g \in [node -> V] :
           \A n \in node : g[n] = IF n = root THEN base ELSE step[n][g[parent[n]]]
<1> DEFINE Given(g, d) == \A n \in node :
                 depth[n] <= d => g[n] = IF n = root THEN base ELSE step[n][g[parent[n]]]
           Deep == {d \in Nat : \E g \in [node -> V] : Given(g, d)}
<1>1. \A n \in node : depth[n] \in 0 .. max /\ parent[n] \in node
  BY DEF IsTree
<1>2. 0 \in Deep
  <2> DEFINE g == [n \in node |-> base]
  <2>1. g \in [node -> V]
    OBVIOUS
  <2>2. ASSUME NEW n \in node, depth[n] <= 0 PROVE n = root
    BY <1>1, <2>2 DEF IsTree
  <2>3. Given(g, 0)
    BY <2>2
  <2> QED
    BY <2>1, <2>3
<1>3. ASSUME NEW d \in Nat, d \in Deep PROVE d + 1 \in Deep
  <2>1. PICK g \in [node -> V] : Given(g, d)
    BY <1>3
  <2> DEFINE h == [n \in node |-> IF depth[n] <= d THEN g[n]
                                  ELSE IF n = root THEN base ELSE step[n][g[parent[n]]]]
  <2>2. h \in [node -> V]
    BY <1>1 DEF StepsDown
  <2>3. ASSUME NEW n \in node, depth[n] <= d + 1
        PROVE  h[n] = IF n = root THEN base ELSE step[n][h[parent[n]]]
    <3>1. n # root => h[parent[n]] = g[parent[n]]
      <4> SUFFICES ASSUME n # root PROVE depth[parent[n]] <= d
        BY <1>1
      <4> QED
        BY <1>1, <2>3 DEF IsTree
    <3>2. CASE depth[n] <= d
      BY <2>1, <3>1, <3>2
    <3>3. CASE ~(depth[n] <= d)
      BY <3>1, <3>3
    <3> QED
      BY <3>2, <3>3
  <2> HIDE DEF h
  <2> QED
    BY <2>2, <2>3
<1>4. max \in Deep
  <2> HIDE DEF Deep
  <2> QED
    BY <1>2, <1>3, NatInductionOnSets
<1>5. PICK g \in [node -> V] : Given(g, max)
  BY <1>4
<1> QED
  BY <1>1, <1>5

(* In a tree every node but the root has a parent, whose child it is.      *)
HasParents(nodes, root, children, parent) ==
  \A n \in nodes : n # root => parent[n] \in nodes /\ Contains(children[parent[n]], n)

(* The nodes of a tree have parents, and depths above which they lie.      *)
LEMMA TreeHasParents ==
  ASSUME NEW nodes, NEW root, NEW children, TreeOf(nodes, root, children)
  PROVE  \E parent : \E depth : \E max \in Nat :
           IsTree(nodes, root, parent, depth, max) /\ HasParents(nodes, root, children, parent)
<1> DEFINE Up(n) == CHOOSE m \in nodes : Contains(children[m], n)
           parent == [n \in nodes |-> IF n = root THEN n ELSE Up(n)]
           max == Cardinality(nodes)
<1>1. root \in nodes /\ IsFiniteSet(nodes)
      /\ \A n \in nodes \ {root} : \E m \in nodes : Contains(children[m], n)
  BY DEF TreeOf
<1>2. max \in Nat
  BY <1>1, FS_CardinalityType
<1>3. PICK depth \in [nodes -> 0 .. max] :
        \A m, n \in nodes : Contains(children[m], n) => depth[m] < depth[n]
  BY DEF TreeOf
<1> HIDE DEF max
<1>4. \A n \in nodes : n # root => Up(n) \in nodes /\ Contains(children[Up(n)], n)
  BY <1>1
<1> HIDE DEF Up
<1>5. parent \in [nodes -> nodes] /\ HasParents(nodes, root, children, parent)
  BY <1>1, <1>4 DEF HasParents
<1> HIDE DEF parent
<1>6. IsTree(nodes, root, parent, depth, max)
  BY <1>1, <1>3, <1>5 DEF IsTree, HasParents
<1> QED
  BY <1>2, <1>5, <1>6

-----------------------------------------------------------------------------
(* Trees: from the leaves up.                                              *)

(* How far down the tree a node is.                                        *)
IsDepth(depth, max, nodes, children) ==
  /\ max \in Nat /\ depth \in [nodes -> 0 .. max]
  /\ \A m, n \in nodes : Contains(children[m], n) => depth[m] < depth[n]

(* Every tree has one.                                                     *)
LEMMA TreeHasDepth ==
  ASSUME NEW nodes, NEW root, NEW children, TreeOf(nodes, root, children)
  PROVE  \E depth, max : IsDepth(depth, max, nodes, children)
<1>1. PICK depth \in [nodes -> 0 .. Cardinality(nodes)] :
        \A m, n \in nodes : Contains(children[m], n) => depth[m] < depth[n]
  BY DEF TreeOf
<1>2. Cardinality(nodes) \in Nat
  BY FS_CardinalityType DEF TreeOf
<1> QED
  BY <1>1, <1>2 DEF IsDepth

(* A set with every node whose children it has.                            *)
LEMMA UpTheTree ==
  ASSUME NEW nodes, NEW root, NEW children, TreeOf(nodes, root, children), NEW S,
         \A n \in nodes : (\A c \in nodes : Contains(children[n], c) => c \in S) => n \in S
  PROVE  \A n \in nodes : n \in S
<1>1. PICK depth, max : IsDepth(depth, max, nodes, children)
  BY TreeHasDepth
<1>2. max \in Nat /\ \A n \in nodes : depth[n] \in 0 .. max
  BY <1>1 DEF IsDepth
<1> DEFINE Level == {d \in Nat : \A n \in nodes : max - depth[n] < d => n \in S}
<1>3. 0 \in Level
  BY <1>2
<1>4. ASSUME NEW d \in Nat, d \in Level PROVE d + 1 \in Level
  <2> SUFFICES ASSUME NEW n \in nodes, max - depth[n] < d + 1 PROVE n \in S
    OBVIOUS
  <2>1. ASSUME NEW c \in nodes, Contains(children[n], c) PROVE c \in S
    <3>1. depth[n] < depth[c]
      BY <1>1, <2>1 DEF IsDepth
    <3>2. max - depth[c] < d
      BY <1>2, <3>1
    <3> QED
      BY <1>4, <3>2
  <2> QED
    BY <2>1
<1>5. \A d \in Nat : d \in Level
  <2> HIDE DEF Level
  <2> QED
    BY <1>3, <1>4, NatInductionOnSets
<1>6. ASSUME NEW n \in nodes PROVE n \in S
  <2>1. max + 1 \in Level /\ max - depth[n] < max + 1
    BY <1>2, <1>5
  <2> QED
    BY <2>1
<1> QED
  BY <1>6

(* What a node is given depends on what its children are given only.       *)
StepsUp(nodes, V) == [nodes -> [[nodes -> V] -> V]]

IsLocal(step, nodes, children, V) ==
  \A n \in nodes : \A v, w \in [nodes -> V] :
    (\A c \in nodes : Contains(children[n], c) => v[c] = w[c]) => step[n][v] = step[n][w]

(* Then what all nodes are given can be computed from the leaves up.       *)
LEMMA UpwardExists ==
  ASSUME NEW nodes, NEW root, NEW children, TreeOf(nodes, root, children),
         NEW V, V # {}, NEW step \in StepsUp(nodes, V), IsLocal(step, nodes, children, V)
  PROVE  \E g \in [nodes -> V] : \A n \in nodes : g[n] = step[n][g]
<1>1. PICK depth, max : IsDepth(depth, max, nodes, children)
  BY TreeHasDepth
<1>2. max \in Nat /\ \A n \in nodes : depth[n] \in 0 .. max
  BY <1>1 DEF IsDepth
<1> DEFINE Given(g, d) == \A n \in nodes : max - depth[n] < d => g[n] = step[n][g]
           Level == {d \in Nat : \E g \in [nodes -> V] : Given(g, d)}
<1>3. 0 \in Level
  <2>1. PICK v \in V : TRUE
    OBVIOUS
  <2> DEFINE g == [n \in nodes |-> v]
  <2>2. g \in [nodes -> V] /\ Given(g, 0)
    BY <1>2
  <2> QED
    BY <2>2
<1>4. ASSUME NEW d \in Nat, d \in Level PROVE d + 1 \in Level
  <2>1. PICK g \in [nodes -> V] : Given(g, d)
    BY <1>4
  <2> DEFINE h == [n \in nodes |-> IF max - depth[n] < d THEN g[n] ELSE step[n][g]]
  <2>2. h \in [nodes -> V]
    BY DEF StepsUp
  <2>3. ASSUME NEW n \in nodes, max - depth[n] < d + 1 PROVE h[n] = step[n][h]
    <3>1. ASSUME NEW c \in nodes, Contains(children[n], c) PROVE g[c] = h[c]
      <4>1. depth[n] < depth[c]
        BY <1>1, <3>1 DEF IsDepth
      <4>2. max - depth[c] < d
        BY <1>2, <2>3, <4>1
      <4> QED
        BY <4>2
    <3>2. h[n] = step[n][g]
      BY <2>1
    <3> HIDE DEF h
    <3>3. step[n][g] = step[n][h]
      BY <2>2, <3>1 DEF IsLocal
    <3> QED
      BY <3>2, <3>3
  <2> HIDE DEF h
  <2> QED
    BY <2>2, <2>3
<1>5. \A d \in Nat : d \in Level
  <2> HIDE DEF Level
  <2> QED
    BY <1>3, <1>4, NatInductionOnSets
<1>6. max + 1 \in Nat /\ \A n \in nodes : max - depth[n] < max + 1
  BY <1>2
<1>7. max + 1 \in Level
  BY <1>5, <1>6
<1> QED
  BY <1>6, <1>7

-----------------------------------------------------------------------------
(* Nodes and what is below them.                                           *)

IsBelow(B, nodes, children) ==
  /\ B \in [nodes -> SUBSET nodes]
  /\ \A m \in nodes : B[m] = {m} \cup UNION {B[c] : c \in ToSet(children[m])}

(* What is below a node: the node, and what is below a child.              *)
LEMMA BelowParts ==
  ASSUME NEW nodes, NEW root, NEW children, TreeOf(nodes, root, children),
         NEW B, IsBelow(B, nodes, children), NEW m \in nodes, NEW x
  PROVE  x \in B[m] <=> x = m \/ \E c \in nodes : Contains(children[m], c) /\ x \in B[c]
<1>1. \A c : c \in ToSet(children[m]) <=> Contains(children[m], c) /\ c \in nodes
  <2>1. children[m] \in Seq(nodes)
    BY DEF TreeOf
  <2> QED
    BY <2>1 DEF ToSet, Contains
<1>2. B[m] = {m} \cup UNION {B[c] : c \in ToSet(children[m])}
  BY DEF IsBelow
<1> QED
  BY <1>1, <1>2

(* A tree each of whose nodes but the root has one parent, and what is     *)
(* below its nodes.                                                        *)
IsOutline(nodes, root, children, B) ==
  /\ TreeOf(nodes, root, children)
  /\ ListedOnce(nodes, children)
  /\ IsBelow(B, nodes, children)

(* The root is nobody's child, and no node is the child of two.            *)
LEMMA OneParentEach ==
  ASSUME NEW nodes, NEW root, NEW children,
         TreeOf(nodes, root, children), ListedOnce(nodes, children)
  PROVE  /\ \A m \in nodes : ~Contains(children[m], root)
         /\ \A l, m, n \in nodes : Contains(children[l], n) /\ Contains(children[m], n) => l = m
<1>1. PICK depth, max : IsDepth(depth, max, nodes, children)
  BY TreeHasDepth
<1>2. max \in Nat /\ \A n \in nodes : depth[n] \in 0 .. max
  BY <1>1 DEF IsDepth
<1>3. ASSUME NEW m \in nodes, Contains(children[m], root) PROVE FALSE
  <2>1. \A n \in nodes : \E l \in nodes : Contains(children[l], n)
    BY <1>3 DEF TreeOf
  <2> DEFINE S == {d \in Nat : \A n \in nodes : depth[n] > d}
  <2>2. \A n \in nodes : \E l \in nodes : depth[l] < depth[n]
    BY <1>1, <2>1 DEF IsDepth
  <2>3. 0 \in S
    BY <1>2, <2>2
  <2>4. ASSUME NEW d \in Nat, d \in S PROVE d + 1 \in S
    <3> SUFFICES ASSUME NEW n \in nodes PROVE depth[n] > d + 1
      OBVIOUS
    <3>1. PICK l \in nodes : depth[l] < depth[n]
      BY <2>2
    <3> QED
      BY <1>2, <2>4, <3>1
  <2>5. \A d \in Nat : d \in S
    <3> HIDE DEF S
    <3> QED
      BY <2>3, <2>4, NatInductionOnSets
  <2>6. max \in S
    BY <1>2, <2>5
  <2> QED
    BY <1>2, <2>6
<1>4. ASSUME NEW l \in nodes, NEW m \in nodes, NEW n \in nodes,
             Contains(children[l], n), Contains(children[m], n)
      PROVE  l = m
  <2>1. children[l] \in Seq(nodes) /\ children[m] \in Seq(nodes)
    BY DEF TreeOf
  <2>2. PICK i \in 1 .. Len(children[l]), j \in 1 .. Len(children[m]) :
          children[l][i] = n /\ children[m][j] = n
    BY <1>4 DEF Contains
  <2>3. i \in DOMAIN children[l] /\ j \in DOMAIN children[m]
    BY <2>1
  <2> QED
    BY <2>2, <2>3 DEF ListedOnce
<1> QED
  BY <1>3, <1>4

IsLeafOf(n, children) == children[n] = <<>>

(* What is below a node y: deeper nodes, the child of one that is; all that*)
(* is below these; and a leaf.                                             *)
Spread(B, y, nodes, children, depth) ==
  /\ y \in B[y]
  /\ \A x \in B[y] : x # y => /\ depth[x] > depth[y]
                              /\ \E z \in B[y] : Contains(children[z], x)
  /\ \A z \in B[y] : B[z] \subseteq B[y]
  /\ \E leaf \in B[y] : IsLeafOf(leaf, children)

(* What is below a node spreads from it, in every tree.                    *)
LEMMA BelowSpreads ==
  ASSUME NEW nodes, NEW root, NEW children, TreeOf(nodes, root, children),
         NEW B, IsBelow(B, nodes, children), NEW depth, NEW max, IsDepth(depth, max, nodes, children)
  PROVE  \A y \in nodes : Spread(B, y, nodes, children, depth)
<1> DEFINE S == {y \in nodes : Spread(B, y, nodes, children, depth)}
<1>1. \A m \in nodes : B[m] \in SUBSET nodes /\ depth[m] \in Nat
  BY DEF IsBelow, IsDepth
<1>2. ASSUME NEW y \in nodes, \A c \in nodes : Contains(children[y], c) => c \in S
      PROVE  Spread(B, y, nodes, children, depth)
  <2>1. \A x : x \in B[y] <=> x = y \/ \E c \in nodes : Contains(children[y], c) /\ x \in B[c]
    BY BelowParts
  <2>2. \A c \in nodes : Contains(children[y], c) =>
          depth[y] < depth[c] /\ Spread(B, c, nodes, children, depth)
    BY <1>2 DEF IsDepth
  <2>3. y \in B[y]
    BY <2>1
  <2>4. ASSUME NEW x \in B[y], x # y
        PROVE  depth[x] > depth[y] /\ \E z \in B[y] : Contains(children[z], x)
    <3>1. PICK c \in nodes : Contains(children[y], c) /\ x \in B[c]
      BY <2>1, <2>4
    <3>2. CASE x = c
      BY <2>2, <2>3, <3>1, <3>2
    <3>3. CASE x # c
      <4>1. depth[x] > depth[c] /\ \E z \in B[c] : Contains(children[z], x)
        BY <2>2, <3>1, <3>3 DEF Spread
      <4>2. depth[y] < depth[c] /\ B[c] \subseteq B[y] /\ x \in nodes
        BY <1>1, <2>1, <2>2, <3>1
      <4> QED
        BY <1>1, <4>1, <4>2
    <3> QED
      BY <3>2, <3>3
  <2>5. ASSUME NEW z \in B[y] PROVE B[z] \subseteq B[y]
    <3>1. CASE z = y
      BY <3>1
    <3>2. CASE z # y
      <4>1. PICK c \in nodes : Contains(children[y], c) /\ z \in B[c]
        BY <2>1, <2>5, <3>2
      <4>2. B[z] \subseteq B[c]
        BY <2>2, <4>1 DEF Spread
      <4> QED
        BY <2>1, <4>1, <4>2
    <3> QED
      BY <3>1, <3>2
  <2>6. \E leaf \in B[y] : IsLeafOf(leaf, children)
    <3>1. CASE IsLeafOf(y, children)
      BY <2>3, <3>1
    <3>2. CASE ~IsLeafOf(y, children)
      <4>1. children[y] \in Seq(nodes) /\ children[y] # <<>>
        BY <3>2 DEF TreeOf, IsLeafOf
      <4>2. PICK c \in nodes : Contains(children[y], c)
        <5>1. children[y][1] \in nodes /\ 1 \in 1 .. Len(children[y])
          BY <4>1
        <5> QED
          BY <5>1 DEF Contains
      <4>3. PICK leaf \in B[c] : IsLeafOf(leaf, children)
        BY <2>2, <4>2 DEF Spread
      <4> QED
        BY <2>1, <4>2, <4>3
    <3> QED
      BY <3>1, <3>2
  <2> QED
    BY <2>3, <2>4, <2>5, <2>6 DEF Spread
<1>3. \A y \in nodes : (\A c \in nodes : Contains(children[y], c) => c \in S) => y \in S
  BY <1>2
<1>4. \A y \in nodes : y \in S
  <2> HIDE DEF S
  <2> QED
    BY <1>3, UpTheTree
<1> QED
  BY <1>4

(* Facts of an outline: of two nodes above a third, one is above the other;*)
(* a parent is below whatever else has its child below it.                 *)
IsLaminar(nodes, children, B) ==
  /\ \A n \in nodes : n \in B[n] /\ B[n] \subseteq nodes
  /\ \A m, n \in nodes : m \in B[n] => B[m] \subseteq B[n]
  /\ \A m, n \in nodes : m \in B[n] /\ n \in B[m] => m = n
  /\ \A m, c, n \in nodes : Contains(children[m], c) =>
       c \in B[m] /\ m \notin B[c] /\ (c \in B[n] => c = n \/ m \in B[n])
  /\ \A l, m, n \in nodes : l \in B[m] /\ l \in B[n] => m \in B[n] \/ n \in B[m]
  /\ \A n \in nodes : \E leaf \in nodes : leaf \in B[n] /\ IsLeafOf(leaf, children)

(* Every outline is like this.                                             *)
LEMMA OutlineIsLaminar ==
  ASSUME NEW nodes, NEW root, NEW children, NEW B, IsOutline(nodes, root, children, B)
  PROVE  IsLaminar(nodes, children, B) /\ B[root] = nodes
<1>0. TreeOf(nodes, root, children) /\ ListedOnce(nodes, children) /\ IsBelow(B, nodes, children)
  BY DEF IsOutline
<1>1. PICK depth, max : IsDepth(depth, max, nodes, children)
  BY <1>0, TreeHasDepth
<1>2. \A n \in nodes : depth[n] \in Nat /\ B[n] \subseteq nodes
  BY <1>0, <1>1 DEF IsDepth, IsBelow
<1>3. \A y \in nodes : Spread(B, y, nodes, children, depth)
  BY <1>0, <1>1, BelowSpreads
<1>4. /\ \A m \in nodes : ~Contains(children[m], root)
      /\ \A l, m, n \in nodes : Contains(children[l], n) /\ Contains(children[m], n) => l = m
  BY <1>0, OneParentEach
<1>5. \A n \in nodes : n \in B[n] /\ \E leaf \in nodes : leaf \in B[n] /\ IsLeafOf(leaf, children)
  BY <1>2, <1>3 DEF Spread
<1>6. \A m, n \in nodes : m \in B[n] => B[m] \subseteq B[n]
  BY <1>3 DEF Spread
<1>7. \A m, n \in nodes : m \in B[n] /\ n \in B[m] => m = n
  <2> SUFFICES ASSUME NEW m \in nodes, NEW n \in nodes, m \in B[n], n \in B[m], m # n PROVE FALSE
    OBVIOUS
  <2>1. depth[m] > depth[n] /\ depth[n] > depth[m]
    BY <1>3 DEF Spread
  <2> QED
    BY <1>2, <2>1
<1>8. ASSUME NEW m \in nodes, NEW c \in nodes, Contains(children[m], c)
      PROVE  /\ c \in B[m] /\ m \notin B[c]
             /\ \A n \in nodes : c \in B[n] => c = n \/ m \in B[n]
  <2>1. c \in B[m]
    BY <1>0, <1>5, <1>8, BelowParts
  <2>2. m # c
    <3>1. depth[m] < depth[c]
      BY <1>1, <1>8 DEF IsDepth
    <3> QED
      BY <1>2, <3>1
  <2>3. ASSUME NEW n \in nodes, c \in B[n], c # n PROVE m \in B[n]
    <3>1. PICK z \in B[n] : Contains(children[z], c)
      BY <1>3, <2>3 DEF Spread
    <3>2. z \in nodes
      BY <1>2
    <3> QED
      BY <1>4, <1>8, <3>1, <3>2
  <2> QED
    BY <1>7, <2>1, <2>2, <2>3
<1> DEFINE Nested(l) == \A m, n \in nodes : l \in B[m] /\ l \in B[n] => m \in B[n] \/ n \in B[m]
           S == {l \in nodes : Nested(l)}
           R == {n \in nodes : n \in B[root]}
<1>9. PICK parent : \E top : \E most \in Nat :
        IsTree(nodes, root, parent, top, most) /\ HasParents(nodes, root, children, parent)
  BY <1>0, TreeHasParents
<1>10. PICK top : \E most \in Nat :
        IsTree(nodes, root, parent, top, most) /\ HasParents(nodes, root, children, parent)
  BY <1>9
<1>11. PICK most \in Nat :
        IsTree(nodes, root, parent, top, most) /\ HasParents(nodes, root, children, parent)
  BY <1>10
<1>12. ASSUME NEW l \in nodes, l = root \/ parent[l] \in S PROVE l \in S
  <2> SUFFICES ASSUME NEW m \in nodes, NEW n \in nodes, l \in B[m], l \in B[n], l # m, l # n
               PROVE  m \in B[n] \/ n \in B[m]
    OBVIOUS
  <2>1. PICK z \in B[m] : Contains(children[z], l)
    BY <1>3 DEF Spread
  <2>2. z \in nodes
    BY <1>2
  <2>3. l # root
    BY <1>4, <2>1, <2>2
  <2>4. parent[l] \in nodes /\ Contains(children[parent[l]], l)
    BY <1>11, <2>3 DEF HasParents
  <2>5. parent[l] \in B[m] /\ parent[l] \in B[n]
    BY <1>8, <2>4
  <2>6. Nested(parent[l])
    BY <1>12, <2>3
  <2> QED
    BY <2>5, <2>6
<1>13. \A l \in nodes : l \in S
  <2> HIDE DEF S
  <2> QED
    BY <1>11, <1>12, DownTheTree
<1>14. ASSUME NEW l \in nodes, l = root \/ parent[l] \in R PROVE l \in R
  <2>1. CASE l = root
    BY <1>5, <2>1
  <2>2. CASE l # root
    <3>1. parent[l] \in nodes /\ Contains(children[parent[l]], l) /\ parent[l] \in B[root]
      BY <1>11, <1>14, <2>2 DEF HasParents
    <3>2. l \in B[parent[l]] /\ root \in nodes
      BY <1>0, <1>8, <3>1 DEF TreeOf
    <3> QED
      BY <1>6, <3>1, <3>2
  <2> QED
    BY <2>1, <2>2
<1>15. \A l \in nodes : l \in R
  <2> HIDE DEF R
  <2> QED
    BY <1>11, <1>14, DownTheTree
<1>16. B[root] = nodes
  BY <1>0, <1>2, <1>15 DEF TreeOf
<1> QED
  BY <1>2, <1>5, <1>6, <1>7, <1>8, <1>13, <1>16 DEF IsLaminar

AtOrAbove(B, nodes, n) == {m \in nodes : n \in B[m]}
Deep(B, nodes, n)  == Cardinality(AtOrAbove(B, nodes, n))

(* A child is one deeper than its parent, and what is below another node   *)
(* is deeper than it.                                                      *)
LEMMA DepthsInOutline ==
  ASSUME NEW nodes, IsFiniteSet(nodes), NEW children, NEW B, IsLaminar(nodes, children, B)
  PROVE  /\ \A n \in nodes : Deep(B, nodes, n) \in 1 .. Cardinality(nodes)
         /\ \A m, c \in nodes : Contains(children[m], c) =>
              Deep(B, nodes, c) = Deep(B, nodes, m) + 1
         /\ \A m, n \in nodes : n \in B[m] /\ n # m => Deep(B, nodes, m) < Deep(B, nodes, n)
<1>1. \A n \in nodes :
        /\ AtOrAbove(B, nodes, n) \in SUBSET nodes /\ n \in AtOrAbove(B, nodes, n)
        /\ IsFiniteSet(AtOrAbove(B, nodes, n)) /\ Deep(B, nodes, n) \in Nat
        /\ Deep(B, nodes, n) <= Cardinality(nodes) /\ Deep(B, nodes, n) # 0
  <2> SUFFICES ASSUME NEW n \in nodes
               PROVE  /\ AtOrAbove(B, nodes, n) \in SUBSET nodes /\ n \in AtOrAbove(B, nodes, n)
                      /\ IsFiniteSet(AtOrAbove(B, nodes, n)) /\ Deep(B, nodes, n) \in Nat
                      /\ Deep(B, nodes, n) <= Cardinality(nodes) /\ Deep(B, nodes, n) # 0
    OBVIOUS
  <2> DEFINE A == AtOrAbove(B, nodes, n)
  <2>1. A \in SUBSET nodes /\ n \in A
    BY DEF AtOrAbove, IsLaminar
  <2> HIDE DEF A
  <2>2. IsFiniteSet(A) /\ Cardinality(A) \in Nat /\ Cardinality(A) <= Cardinality(nodes)
        /\ (Cardinality(A) = 0 <=> A = {})
    BY <2>1, SubsetOfFinite
  <2> QED
    BY <2>1, <2>2 DEF Deep, A
<1>2. Cardinality(nodes) \in Nat
  BY FS_CardinalityType
<1>3. ASSUME NEW m \in nodes, NEW c \in nodes, Contains(children[m], c)
      PROVE  Deep(B, nodes, c) = Deep(B, nodes, m) + 1
  <2> DEFINE A == AtOrAbove(B, nodes, m)
             C == AtOrAbove(B, nodes, c)
  <2>1. \A n \in nodes : c \in B[n] <=> n = c \/ m \in B[n]
    <3>1. ASSUME NEW n \in nodes, m \in B[n] PROVE c \in B[n]
      <4>1. c \in B[m] /\ B[m] \subseteq B[n]
        BY <1>3, <3>1 DEF IsLaminar
      <4> QED
        BY <4>1
    <3>2. c \in B[c]
      BY DEF IsLaminar
    <3>3. \A n \in nodes : c \in B[n] => c = n \/ m \in B[n]
      BY <1>3 DEF IsLaminar
    <3> QED
      BY <3>1, <3>2, <3>3
  <2>2. C = A \cup {c} /\ c \notin A
    <3>1. m \notin B[c]
      BY <1>3 DEF IsLaminar
    <3> QED
      BY <2>1, <3>1 DEF AtOrAbove
  <2>3. IsFiniteSet(A)
    BY <1>1
  <2> HIDE DEF A, C
  <2>4. Cardinality(C) = Cardinality(A) + 1
    BY <2>2, <2>3, FS_AddElement
  <2> QED
    BY <2>4 DEF A, C, Deep
<1>4. ASSUME NEW m \in nodes, NEW n \in nodes, n \in B[m], n # m
      PROVE  Deep(B, nodes, m) < Deep(B, nodes, n)
  <2> DEFINE A == AtOrAbove(B, nodes, m)
             C == AtOrAbove(B, nodes, n)
             D == C \ {n}
  <2>1. A \in SUBSET D
    <3>1. \A k \in nodes : m \in B[k] => n \in B[k]
      BY <1>4 DEF IsLaminar
    <3>2. m \notin B[n]
      BY <1>4 DEF IsLaminar
    <3> QED
      BY <3>1, <3>2 DEF AtOrAbove
  <2>2. IsFiniteSet(C) /\ n \in C
    BY <1>1
  <2>3. Cardinality(A) \in Nat /\ Cardinality(C) \in Nat
    BY <1>1 DEF Deep
  <2> HIDE DEF A, C
  <2>4. IsFiniteSet(D) /\ Cardinality(D) = Cardinality(C) - 1
    BY <2>2, FS_RemoveElement
  <2> HIDE DEF D
  <2>5. Cardinality(A) <= Cardinality(D)
    BY <2>1, <2>4, FS_Subset
  <2>6. Cardinality(A) < Cardinality(C)
    BY <2>3, <2>4, <2>5
  <2> QED
    BY <2>6 DEF A, C, Deep
<1>5. \A n \in nodes : Deep(B, nodes, n) \in 1 .. Cardinality(nodes)
  BY <1>1, <1>2
<1> QED
  BY <1>3, <1>4, <1>5

-----------------------------------------------------------------------------
(* Cuts of a tree.                                                         *)

LeafSet(nodes, children) == {n \in nodes : IsLeafOf(n, children)}

(* Every leaf is below exactly one node of C.                              *)
Cuts(C, nodes, children, B) ==
  /\ C \subseteq nodes
  /\ \A leaf \in LeafSet(nodes, children) :
       /\ \E n \in C : leaf \in B[n]
       /\ \A m, n \in C : leaf \in B[m] /\ leaf \in B[n] => m = n

(* The nodes with children at or below a cut.                              *)
Inner(nodes, children) == {n \in nodes : ~IsLeafOf(n, children)}

InnerBelow(C, nodes, children, B) == {n \in Inner(nodes, children) : \E m \in C : n \in B[m]}

(* The leaves cut the tree.                                                *)
LEMMA LeavesCut ==
  ASSUME NEW nodes, NEW root, NEW children, NEW B, IsOutline(nodes, root, children, B)
  PROVE  /\ Cuts(LeafSet(nodes, children), nodes, children, B)
         /\ InnerBelow(LeafSet(nodes, children), nodes, children, B) = {}
<1> DEFINE L == LeafSet(nodes, children)
<1>0. TreeOf(nodes, root, children) /\ IsBelow(B, nodes, children)
  BY DEF IsOutline
<1>1. L \subseteq nodes /\ \A n \in L : IsLeafOf(n, children)
  BY DEF LeafSet
<1>2. ASSUME NEW n \in L, NEW x \in B[n] PROVE x = n
  <2>1. \A c : ~Contains(children[n], c)
    BY <1>1 DEF IsLeafOf, Contains
  <2> QED
    BY <1>0, <1>1, <2>1, BelowParts
<1>3. \A n \in nodes : n \in B[n]
  BY OutlineIsLaminar DEF IsLaminar
<1>4. Cuts(L, nodes, children, B)
  BY <1>1, <1>2, <1>3 DEF Cuts
<1>5. InnerBelow(L, nodes, children, B) = {}
  BY <1>1, <1>2 DEF InnerBelow, Inner
<1> QED
  BY <1>4, <1>5

(* A deepest node of a cut gives way to its parent, with its siblings.     *)
Raised(C, parent, children) == {n \in C : ~Contains(children[parent], n)} \cup {parent}

(* Still a cut, with one more inner node at or below it.                   *)
LEMMA GivingWayCuts ==
  ASSUME NEW nodes, NEW root, NEW children, NEW B, IsOutline(nodes, root, children, B),
         NEW C, Cuts(C, nodes, children, B),
         NEW h \in C, \A n \in C : Deep(B, nodes, n) <= Deep(B, nodes, h),
         NEW parent \in nodes, Contains(children[parent], h)
  PROVE  /\ parent \notin C
         /\ Cuts(Raised(C, parent, children), nodes, children, B)
         /\ parent \in Inner(nodes, children) \ InnerBelow(C, nodes, children, B)
         /\ InnerBelow(Raised(C, parent, children), nodes, children, B)
              = InnerBelow(C, nodes, children, B) \cup {parent}
<1> DEFINE Kid(n) == Contains(children[parent], n)
           D == Raised(C, parent, children)
<1>0. /\ IsLaminar(nodes, children, B)
      /\ TreeOf(nodes, root, children) /\ IsBelow(B, nodes, children) /\ IsFiniteSet(nodes)
  BY OutlineIsLaminar DEF IsOutline, TreeOf
<1>1. C \subseteq nodes /\ h \in nodes
  BY DEF Cuts
<1>2. /\ \A n \in nodes : Deep(B, nodes, n) \in Nat
      /\ \A m, c \in nodes : Contains(children[m], c) => Deep(B, nodes, c) = Deep(B, nodes, m) + 1
      /\ \A m, n \in nodes : n \in B[m] /\ n # m => Deep(B, nodes, m) < Deep(B, nodes, n)
  BY <1>0, DepthsInOutline
<1>3. ASSUME NEW n \in C, parent \in B[n] PROVE FALSE
  <2>1. PICK leaf \in nodes : leaf \in B[h] /\ IsLeafOf(leaf, children)
    BY <1>0, <1>1 DEF IsLaminar
  <2>2. h \in B[parent] /\ parent \notin B[h]
    BY <1>0, <1>1 DEF IsLaminar
  <2>3. h \in B[n]
    BY <1>0, <1>1, <1>3, <2>2 DEF IsLaminar
  <2>4. leaf \in B[n]
    BY <1>0, <1>1, <2>1, <2>3 DEF IsLaminar
  <2>5. n = h
    BY <2>1, <2>4 DEF Cuts, LeafSet
  <2> QED
    BY <1>3, <2>2, <2>5
<1>4. ASSUME NEW c \in nodes, Kid(c), NEW n \in C, NEW leaf \in LeafSet(nodes, children),
             leaf \in B[c], leaf \in B[n]
      PROVE  n = c
  <2>1. leaf \in nodes /\ n \in nodes
    BY <1>1 DEF LeafSet
  <2>2. c \in B[n] \/ n \in B[c]
    BY <1>0, <1>4, <2>1 DEF IsLaminar
  <2>3. CASE c \in B[n]
    <3>1. c = n \/ parent \in B[n]
      BY <1>0, <1>4, <2>1, <2>3 DEF IsLaminar
    <3> QED
      BY <1>3, <3>1
  <2>4. CASE n \in B[c]
    <3>1. Deep(B, nodes, c) = Deep(B, nodes, h)
      BY <1>1, <1>2, <1>4
    <3>2. Deep(B, nodes, n) <= Deep(B, nodes, h)
      OBVIOUS
    <3>3. n # c => Deep(B, nodes, c) < Deep(B, nodes, n)
      BY <1>2, <2>1, <2>4
    <3> QED
      BY <1>1, <1>2, <2>1, <3>1, <3>2, <3>3
  <2> QED
    BY <2>2, <2>3, <2>4
<1>5. ASSUME NEW c \in nodes, Kid(c) PROVE c \in C
  <2>1. PICK leaf \in nodes : leaf \in B[c] /\ IsLeafOf(leaf, children)
    BY <1>0 DEF IsLaminar
  <2>2. leaf \in LeafSet(nodes, children)
    BY <2>1 DEF LeafSet
  <2>3. PICK n \in C : leaf \in B[n]
    BY <2>2 DEF Cuts
  <2>4. n = c
    BY <1>4, <1>5, <2>1, <2>2, <2>3
  <2> QED
    BY <2>4
<1>6. \A n : n \in D <=> (n \in C /\ ~Kid(n)) \/ n = parent
  BY DEF Raised
<1>7. parent \in B[parent]
  BY <1>0 DEF IsLaminar
<1>8. ASSUME NEW x \in B[parent], x # parent PROVE \E c \in nodes : Kid(c) /\ x \in B[c]
  BY <1>0, <1>8, BelowParts
<1>9. ~IsLeafOf(parent, children)
  BY DEF IsLeafOf, Contains
<1>10. ASSUME NEW leaf \in LeafSet(nodes, children), leaf \in B[parent], NEW n \in C, leaf \in B[n]
       PROVE  Kid(n)
  <2>1. leaf # parent
    BY <1>9 DEF LeafSet
  <2>2. PICK c \in nodes : Kid(c) /\ leaf \in B[c]
    BY <1>8, <1>10, <2>1
  <2>3. n = c
    BY <1>4, <1>10, <2>2
  <2> QED
    BY <2>2, <2>3
<1>11. ASSUME NEW leaf \in LeafSet(nodes, children), NEW n \in C, leaf \in B[n], Kid(n)
       PROVE  leaf \in B[parent]
  <2>1. n \in B[parent] /\ B[n] \subseteq B[parent]
    BY <1>0, <1>1, <1>11 DEF IsLaminar
  <2> QED
    BY <1>11, <2>1
<1>12. Cuts(D, nodes, children, B)
  <2> SUFFICES ASSUME NEW leaf \in LeafSet(nodes, children)
               PROVE  /\ \E n \in D : leaf \in B[n]
                      /\ \A m, n \in D : leaf \in B[m] /\ leaf \in B[n] => m = n
    BY <1>1, <1>6 DEF Cuts
  <2>1. PICK k \in C : leaf \in B[k]
    BY DEF Cuts
  <2>2. \A m, n \in C : leaf \in B[m] /\ leaf \in B[n] => m = n
    BY DEF Cuts
  <2> HIDE DEF Kid, D
  <2>3. CASE leaf \in B[parent]
    <3>1. \A n \in C : leaf \in B[n] => Kid(n)
      BY <1>10, <2>3
    <3> QED
      BY <1>6, <2>3, <3>1
  <2>4. CASE leaf \notin B[parent]
    <3>1. ~Kid(k)
      BY <1>11, <2>1, <2>4
    <3> QED
      BY <1>6, <2>1, <2>2, <2>4, <3>1
  <2> QED
    BY <2>3, <2>4
<1> DEFINE I == Inner(nodes, children)
<1>13. parent \in I /\ parent \notin InnerBelow(C, nodes, children, B) /\ parent \notin C
  BY <1>0, <1>3, <1>7, <1>9 DEF InnerBelow, Inner
<1>14. ASSUME NEW x \in I
       PROVE  (\E m \in D : x \in B[m]) <=> (\E m \in C : x \in B[m]) \/ x = parent
  <2> HIDE DEF Kid, D
  <2>1. ASSUME NEW m \in D, x \in B[m] PROVE (\E n \in C : x \in B[n]) \/ x = parent
    <3>1. CASE m = parent
      BY <1>5, <1>8, <2>1, <3>1
    <3>2. CASE m # parent
      BY <1>6, <2>1, <3>2
    <3> QED
      BY <3>1, <3>2
  <2>2. ASSUME NEW n \in C, x \in B[n] PROVE \E m \in D : x \in B[m]
    <3>1. CASE Kid(n)
      <4>1. B[n] \subseteq B[parent]
        BY <1>0, <1>1, <3>1 DEF IsLaminar, Kid
      <4> QED
        BY <1>6, <2>2, <4>1
    <3>2. CASE ~Kid(n)
      BY <1>6, <2>2, <3>2
    <3> QED
      BY <3>1, <3>2
  <2>3. x = parent => \E m \in D : x \in B[m]
    BY <1>6, <1>7
  <2> QED
    BY <2>1, <2>2, <2>3
<1>15. InnerBelow(D, nodes, children, B) = InnerBelow(C, nodes, children, B) \cup {parent}
  <2> HIDE DEF D
  <2> QED
    BY <1>13, <1>14 DEF InnerBelow
<1> QED
  BY <1>12, <1>13, <1>15

(* With the root in it a cut is the root.                                  *)
LEMMA RootCutsAll ==
  ASSUME NEW nodes, NEW root, NEW children, NEW B, IsOutline(nodes, root, children, B),
         NEW C, Cuts(C, nodes, children, B), root \in C
  PROVE  /\ C = {root}
         /\ InnerBelow(C, nodes, children, B) = Inner(nodes, children)
<1>0. IsLaminar(nodes, children, B) /\ B[root] = nodes
  BY OutlineIsLaminar
<1>1. C \subseteq nodes
  BY DEF Cuts
<1>2. ASSUME NEW n \in C PROVE n = root
  <2>1. PICK leaf \in nodes : leaf \in B[n] /\ IsLeafOf(leaf, children)
    BY <1>0, <1>1 DEF IsLaminar
  <2> QED
    BY <1>0, <2>1 DEF Cuts, LeafSet
<1> QED
  BY <1>0, <1>2 DEF InnerBelow, Inner

-----------------------------------------------------------------------------
(* Other lists in the place of what is shipped or what arrives.            *)

Shipping(psi, s) == [w \in DOMAIN psi |-> [psi[w] EXCEPT !.S = s[w]]]
Arriving(psi, p) == [w \in DOMAIN psi |-> [psi[w] EXCEPT !.P = p[w]]]

(* Another list shipped in every week: a space of the same I and P.        *)
LEMMA ShipsInstead ==
  ASSUME NEW len \in Nat \ {0}, NEW X, NEW psi \in Space(len, X), NEW s \in [0 .. len - 1 -> Seq(X)]
  PROVE  LET new == Shipping(psi, s)
         IN  /\ new \in Space(len, X)
             /\ \A w \in 0 .. len - 1 : new[w].S = s[w] /\ new[w].I = psi[w].I /\ new[w].P = psi[w].P
<1> DEFINE new == [w \in DOMAIN psi |-> [psi[w] EXCEPT !.S = s[w]]]
           i == [w \in 0 .. len - 1 |-> psi[w].I]
           p == [w \in 0 .. len - 1 |-> psi[w].P]
<1>1. /\ DOMAIN psi = 0 .. len - 1 /\ psi[0].I = <<>>
      /\ \A w \in 0 .. len - 1 :
              /\ psi[w] = [S |-> psi[w].S, I |-> psi[w].I, P |-> psi[w].P]
              /\ psi[w].S \in Seq(X) /\ psi[w].I \in Seq(X) /\ psi[w].P \in Seq(X)
  <2> HIDE DEF new, i, p
  <2> QED
    BY SpaceParts
<1>2. ASSUME NEW w \in 0 .. len - 1
      PROVE  new[w] = [S |-> s[w], I |-> i[w], P |-> p[w]]
  <2>1. PICK x \in Seq(X), y \in Seq(X), z \in Seq(X) :
          psi[w] = [S |-> x, I |-> y, P |-> z] /\ y = psi[w].I /\ z = psi[w].P
    BY <1>1
  <2>2. new[w] = [psi[w] EXCEPT !.S = s[w]]
    BY <1>1
  <2>3. new[w] = [S |-> s[w], I |-> y, P |-> z]
    BY <2>1, <2>2
  <2> QED
    BY <2>1, <2>3
<1>3. i \in [0 .. len - 1 -> Seq(X)] /\ p \in [0 .. len - 1 -> Seq(X)] /\ i[0] = <<>>
  <2> HIDE DEF new
  <2>1. i[0] = <<>> /\ i \in [0 .. len - 1 -> Seq(X)]
    BY <1>1
  <2>2. p \in [0 .. len - 1 -> Seq(X)]
    BY <1>1
  <2> QED
    BY <2>1, <2>2
<1>4. new = SpaceOf(len, s, i, p)
  <2>1. new = [w \in 0 .. len - 1 |-> new[w]]
    BY <1>1
  <2> HIDE DEF new, i, p
  <2> QED
    BY <1>2, <2>1 DEF SpaceOf
<1>5. \A w \in 0 .. len - 1 : i[w] = psi[w].I /\ p[w] = psi[w].P
  OBVIOUS
<1> HIDE DEF new, i, p
<1>6. new \in Space(len, X)
  BY <1>3, <1>4, SpaceIntro
<1>7. ASSUME NEW w \in 0 .. len - 1
      PROVE  new[w].S = s[w] /\ new[w].I = psi[w].I /\ new[w].P = psi[w].P
  <2>1. PICK x, y, z : new[w] = [S |-> x, I |-> y, P |-> z] /\ x = s[w] /\ y = i[w] /\ z = p[w]
    BY <1>2
  <2> QED
    BY <1>5, <2>1
<1> QED
  BY <1>6, <1>7 DEF new, Shipping

(* Only the shipments of a week are others.                                *)
LEMMA ShippedOnly ==
  ASSUME NEW psi, NEW s, NEW w \in DOMAIN psi,
         psi[w] = [S |-> psi[w].S, I |-> psi[w].I, P |-> psi[w].P]
  PROVE  Shipping(psi, s)[w].S = s[w] /\ Shipping(psi, s)[w].P = psi[w].P
<1>1. PICK x, y, z : psi[w] = [S |-> x, I |-> y, P |-> z]
  OBVIOUS
<1>2. Shipping(psi, s)[w] = [psi[w] EXCEPT !.S = s[w]]
  BY DEF Shipping
<1>3. Shipping(psi, s)[w] = [S |-> s[w], I |-> y, P |-> z]
  BY <1>1, <1>2
<1> QED
  BY <1>1, <1>3

(* Another list arriving in every week: a space of the same S and I.       *)
LEMMA ArrivesInstead ==
  ASSUME NEW len \in Nat \ {0}, NEW X, NEW psi \in Space(len, X), NEW p \in [0 .. len - 1 -> Seq(X)]
  PROVE  LET new == Arriving(psi, p)
         IN  /\ new \in Space(len, X)
             /\ \A w \in 0 .. len - 1 : new[w].S = psi[w].S /\ new[w].I = psi[w].I /\ new[w].P = p[w]
<1> DEFINE new == [w \in DOMAIN psi |-> [psi[w] EXCEPT !.P = p[w]]]
           s == [w \in 0 .. len - 1 |-> psi[w].S]
           i == [w \in 0 .. len - 1 |-> psi[w].I]
<1>1. /\ DOMAIN psi = 0 .. len - 1 /\ psi[0].I = <<>>
      /\ \A w \in 0 .. len - 1 :
              /\ psi[w] = [S |-> psi[w].S, I |-> psi[w].I, P |-> psi[w].P]
              /\ psi[w].S \in Seq(X) /\ psi[w].I \in Seq(X) /\ psi[w].P \in Seq(X)
  <2> HIDE DEF new, s, i
  <2> QED
    BY SpaceParts
<1>2. ASSUME NEW w \in 0 .. len - 1
      PROVE  new[w] = [S |-> s[w], I |-> i[w], P |-> p[w]]
  <2>1. PICK x \in Seq(X), y \in Seq(X), z \in Seq(X) :
          psi[w] = [S |-> x, I |-> y, P |-> z] /\ x = psi[w].S /\ y = psi[w].I
    BY <1>1
  <2>2. new[w] = [psi[w] EXCEPT !.P = p[w]]
    BY <1>1
  <2>3. new[w] = [S |-> x, I |-> y, P |-> p[w]]
    BY <2>1, <2>2
  <2> QED
    BY <2>1, <2>3
<1>3. s \in [0 .. len - 1 -> Seq(X)] /\ i \in [0 .. len - 1 -> Seq(X)] /\ i[0] = <<>>
  <2> HIDE DEF new
  <2>1. i[0] = <<>> /\ i \in [0 .. len - 1 -> Seq(X)]
    BY <1>1
  <2>2. s \in [0 .. len - 1 -> Seq(X)]
    BY <1>1
  <2> QED
    BY <2>1, <2>2
<1>4. new = SpaceOf(len, s, i, p)
  <2>1. new = [w \in 0 .. len - 1 |-> new[w]]
    BY <1>1
  <2> HIDE DEF new, s, i
  <2> QED
    BY <1>2, <2>1 DEF SpaceOf
<1>5. \A w \in 0 .. len - 1 : s[w] = psi[w].S /\ i[w] = psi[w].I
  OBVIOUS
<1> HIDE DEF new, s, i
<1>6. new \in Space(len, X)
  BY <1>3, <1>4, SpaceIntro
<1>7. ASSUME NEW w \in 0 .. len - 1
      PROVE  new[w].S = psi[w].S /\ new[w].I = psi[w].I /\ new[w].P = p[w]
  <2>1. PICK x, y, z : new[w] = [S |-> x, I |-> y, P |-> z] /\ x = s[w] /\ y = i[w] /\ z = p[w]
    BY <1>2
  <2> QED
    BY <1>5, <2>1
<1> QED
  BY <1>6, <1>7 DEF new, Arriving

(* Clearing what is in stock and arrives before the shift; the shipments   *)
(* stay as they are.                                                       *)
LEMMA ReplaceKeeps ==
  ASSUME NEW len \in Nat \ {0}, NEW X, NEW psi \in Space(len, X), NEW sw \in Nat, NEW vacation
  PROVE  /\ shiftS2P_LV_replace(psi, sw, vacation) \in Space(len, X)
         /\ \A w \in 0 .. len - 1 : shiftS2P_LV_replace(psi, sw, vacation)[w].S = psi[w].S
<1> DEFINE cleared == [v \in DOMAIN psi |->
                    IF v < Weeks(psi) - 1 THEN [EmptyWeek EXCEPT !.S = psi[v].S] ELSE psi[v]]
           s == [w \in 0 .. len - 1 |-> psi[w].S]
           i == [w \in 0 .. len - 1 |-> IF w < len - 1 THEN <<>> ELSE psi[w].I]
           p == [w \in 0 .. len - 1 |-> IF w < len - 1 THEN <<>> ELSE psi[w].P]
<1>1. shiftS2P_LV_replace(psi, sw, vacation) = shiftS2P_LV(cleared, sw, vacation)
  BY DEF shiftS2P_LV_replace
<1>2. /\ DOMAIN psi = 0 .. len - 1 /\ psi[0].I = <<>> /\ Weeks(psi) = len
      /\ \A w \in 0 .. len - 1 :
              /\ psi[w] = [S |-> psi[w].S, I |-> psi[w].I, P |-> psi[w].P]
              /\ psi[w].S \in Seq(X) /\ psi[w].I \in Seq(X) /\ psi[w].P \in Seq(X)
  <2> HIDE DEF cleared, s, i, p
  <2> QED
    BY SpaceParts
<1>3. ASSUME NEW w \in 0 .. len - 1
      PROVE  cleared[w] = [S |-> s[w], I |-> i[w], P |-> p[w]]
  <2>1. PICK x \in Seq(X), y \in Seq(X), z \in Seq(X) :
          psi[w] = [S |-> x, I |-> y, P |-> z] /\ x = psi[w].S /\ y = psi[w].I /\ z = psi[w].P
    BY <1>2
  <2>2. CASE w < len - 1
    <3>1. cleared[w] = [EmptyWeek EXCEPT !.S = x]
      BY <1>2, <2>1, <2>2
    <3>2. cleared[w] = [S |-> x, I |-> <<>>, P |-> <<>>]
      BY <3>1 DEF EmptyWeek
    <3> QED
      BY <2>1, <2>2, <3>2
  <2>3. CASE ~(w < len - 1)
    <3>1. cleared[w] = psi[w]
      BY <1>2, <2>3
    <3> QED
      BY <2>1, <2>3, <3>1
  <2> QED
    BY <2>2, <2>3
<1>4. s \in [0 .. len - 1 -> Seq(X)] /\ i \in [0 .. len - 1 -> Seq(X)] /\ i[0] = <<>>
      /\ p \in [0 .. len - 1 -> Seq(X)]
  BY <1>2, SMTT(30)
<1>5. cleared = SpaceOf(len, s, i, p)
  <2>1. cleared = [w \in 0 .. len - 1 |-> cleared[w]]
    BY <1>2
  <2> HIDE DEF cleared, s, i, p
  <2> QED
    BY <1>3, <2>1 DEF SpaceOf
<1>6. \A w \in 0 .. len - 1 : cleared[w].S = psi[w].S
  <2> SUFFICES ASSUME NEW w \in 0 .. len - 1 PROVE cleared[w].S = psi[w].S
    OBVIOUS
  <2>1. cleared[w].S = s[w]
    <3> HIDE DEF cleared, s, i, p
    <3>1. cleared[w] = [S |-> s[w], I |-> i[w], P |-> p[w]]
      BY <1>3
    <3> QED
      BY <3>1
  <2> QED
    BY <2>1
<1> HIDE DEF cleared, s, i, p
<1>7. cleared \in Space(len, X)
  BY <1>4, <1>5, SpaceIntro
<1>8. \A w \in 0 .. len - 1 : shiftS2P_LV(cleared, sw, vacation)[w].S = cleared[w].S
  BY <1>7, ShiftAppends
<1> QED
  BY <1>1, <1>6, <1>7, <1>8, ShiftAppends

-----------------------------------------------------------------------------
(* Leveling of the shipping yard.                                          *)

(* All lots of a bucket are listed.                                        *)
LEMMA FlatLists ==
  ASSUME NEW len \in Nat \ {0}, NEW X, NEW psi \in Space(len, X)
  PROVE  Flat(psi, "S") \in Seq(X)
<1> DEFINE lists == [k \in 1 .. Weeks(psi) |-> psi[k - 1]["S"]]
<1>1. Flat(psi, "S") = Concat(lists)
  BY DEF Flat
<1>2. Weeks(psi) = len /\ \A w \in 0 .. len - 1 : psi[w].S \in Seq(X)
  BY SpaceParts
<1>3. lists \in Seq(Seq(X))
  <2>1. \A k \in 1 .. len : k - 1 \in 0 .. len - 1
    OBVIOUS
  <2>2. \A k \in 1 .. len : psi[k - 1]["S"] \in Seq(X)
    BY <1>2, <2>1
  <2> DEFINE A == Seq(X)
  <2> HIDE DEF A
  <2>3. [k \in 1 .. len |-> psi[k - 1]["S"]] \in Seq(A)
    BY <2>2 DEF A
  <2> QED
    BY <1>2, <2>3 DEF A
<1> HIDE DEF lists
<1> QED
  BY <1>1, <1>3, ConcatJoins

(* A lot in one week only of a bucket is counted there in the bucket.      *)
LEMMA FlatCounts ==
  ASSUME NEW len \in Nat \ {0}, NEW X, NEW psi \in Space(len, X), NEW bucket \in {"S", "P"},
         NEW x, NEW at, OnlyIn(len, psi, bucket, x, at)
  PROVE  /\ Flat(psi, bucket) \in Seq(X)
         /\ Occ(Flat(psi, bucket), x) = CountIn(len, psi, bucket, x, at)
<1> SUFFICES Flat(psi, bucket) \in Seq(X)
             /\ Occ(Flat(psi, bucket), x) = IF at \in 0 .. len - 1 THEN Occ(psi[at][bucket], x) ELSE 0
  BY DEF CountIn
<1> DEFINE A == Seq(X)
           lists == [k \in 1 .. len |-> psi[k - 1][bucket]]
<1>0. \A w \in 0 .. len - 1 : w # at => Occ(psi[w][bucket], x) = 0
  BY DEF OnlyIn
<1>1. Flat(psi, bucket) = Concat(lists)
  BY SpaceParts DEF Flat
<1>2. \A w \in 0 .. len - 1 : psi[w][bucket] \in A
  BY SpaceParts
<1>3. lists \in Seq(A) /\ Len(lists) = len /\ \A k \in 1 .. len : lists[k] = psi[k - 1][bucket]
  <2>1. ASSUME NEW k \in 1 .. len PROVE psi[k - 1][bucket] \in A
    <3>1. k - 1 \in 0 .. len - 1
      OBVIOUS
    <3> HIDE DEF A
    <3> QED
      BY <1>2, <3>1
  <2> HIDE DEF A
  <2> QED
    BY <2>1
<1> HIDE DEF lists
<1>4. Concat(lists) \in Seq(X)
  BY <1>3, ConcatJoins
<1>5. CASE at \in 0 .. len - 1
  <2>1. at + 1 \in 1 .. len /\ (at + 1) - 1 = at
    BY <1>5
  <2>2. PICK j \in 1 .. len : j = at + 1
    BY <2>1
  <2>3. ASSUME NEW k \in 1 .. len, k # j PROVE Occ(lists[k], x) = 0
    <3>1. k - 1 \in 0 .. len - 1 /\ k - 1 # at
      <4>1. k - 1 # at
        BY <1>5, <2>2, <2>3
      <4> QED
        BY <4>1
    <3>2. Occ(psi[k - 1][bucket], x) = 0
      BY <1>0, <3>1
    <3> QED
      BY <1>3, <3>2
  <2>4. Occ(Concat(lists), x) = IF j \in 1 .. Len(lists) THEN Occ(lists[j], x) ELSE 0
    BY <1>3, <2>3, ConcatCounts
  <2>5. lists[j] = psi[at][bucket]
    BY <1>3, <1>5, <2>2
  <2> QED
    BY <1>1, <1>3, <1>4, <1>5, <2>2, <2>4, <2>5
<1>6. CASE at \notin 0 .. len - 1
  <2>1. ASSUME NEW k \in 1 .. len PROVE Occ(lists[k], x) = 0
    <3>1. k - 1 \in 0 .. len - 1
      OBVIOUS
    <3>2. Occ(psi[k - 1][bucket], x) = 0
      BY <1>0, <1>6, <3>1
    <3> QED
      BY <1>3, <3>2
  <2>2. Occ(Concat(lists), x) = IF 0 \in 1 .. Len(lists) THEN Occ(lists[0], x) ELSE 0
    BY <1>3, <2>1, ConcatCounts
  <2> QED
    BY <1>1, <1>4, <1>6, <2>2
<1> QED
  BY <1>5, <1>6

(* A cut of a list, and a list cut into lists of a length.                 *)
LEMMA SlicesAreLists ==
  ASSUME NEW X, NEW lots \in Seq(X), NEW from \in Nat, NEW to \in Nat
  PROVE  Slice(lots, from, to) \in Seq(X)
<1> DEFINE end == Min({to, Len(lots)})
<1>1. end \in Int /\ end <= Len(lots)
  BY DEF Min
<1> HIDE DEF end
<1>2. \A i \in from + 1 .. end : lots[i] \in X
  BY <1>1
<1>3. SubSeq(lots, from + 1, end) \in Seq(X)
  BY <1>1, <1>2, SubSeqProperties
<1> QED
  BY <1>3 DEF Slice, end

(* A share of something, rounded up, is not nothing.                       *)
LEMMA CeilIsPositive ==
  ASSUME NEW a \in Nat \ {0}, NEW b \in Nat \ {0}
  PROVE  Ceil(a, b) \in Nat \ {0}
<1>1. (a + b - 1) \div b \in Nat /\ (a > 0 => (a + b - 1) \div b > 0)
  OBVIOUS
<1> QED
  BY <1>1 DEF Ceil

(* A list cut into pieces.                                                 *)
LEMMA ChunksAreLists ==
  ASSUME NEW X, NEW lots \in Seq(X), NEW n \in Nat \ {0}
  PROVE  Chunks(lots, n) \in Seq(Seq(X))
<1>1. Ceil(Len(lots), n) \in Nat
  BY DEF Ceil
<1>2. ASSUME NEW i \in 1 .. Ceil(Len(lots), n) PROVE Slice(lots, (i - 1) * n, i * n) \in Seq(X)
  <2>1. (i - 1) * n \in Nat /\ i * n \in Nat
    BY <1>1
  <2> QED
    BY <2>1, SlicesAreLists
<1> DEFINE A == Seq(X)
<1> HIDE DEF A
<1>3. \A i \in 1 .. Ceil(Len(lots), n) : Slice(lots, (i - 1) * n, i * n) \in A
  BY <1>2 DEF A
<1>4. [i \in 1 .. Ceil(Len(lots), n) |-> Slice(lots, (i - 1) * n, i * n)] \in Seq(A)
  BY <1>1, <1>3
<1> QED
  BY <1>4 DEF Chunks, A

(* The sums of the first numbers.                                          *)
IsTotal(g, n, c) ==
  g \in [0 .. n -> Nat] /\ g[0] = 0 /\ \A i \in 1 .. n : g[i] = g[i - 1] + c[i]

(* The running totals of a list of numbers exist.                          *)
LEMMA RunningTotals ==
  ASSUME NEW n \in Nat, NEW c, \A i \in 1 .. n : c[i] \in Nat
  PROVE  \E g : IsTotal(g, n, c)
<1> DEFINE step == [i \in 1 .. n |-> [s \in Nat |-> s + c[i]]]
           N == Nat
           b == 0
<1>1. n \in Nat /\ b \in N /\ step \in Steps(n, N)
  BY DEF Steps
<1>2. \A i \in 1 .. n, s \in Nat : step[i][s] = s + c[i]
  OBVIOUS
<1> HIDE DEF step, N, b
<1>3. \E g \in [0 .. n -> N] : g[0] = b /\ \A i \in 1 .. n : g[i] = step[i][g[i - 1]]
  BY <1>1, RecursionOnInterval
<1>4. PICK f \in [0 .. n -> Nat] : f[0] = 0 /\ \A i \in 1 .. n : f[i] = step[i][f[i - 1]]
  BY <1>3 DEF N, b
<1>5. ASSUME NEW i \in 1 .. n PROVE f[i] = f[i - 1] + c[i]
  <2>1. i - 1 \in 0 .. n
    OBVIOUS
  <2> QED
    BY <1>2, <1>4, <2>1
<1> QED
  <2>1. IsTotal(f, n, c)
    BY <1>4, <1>5 DEF IsTotal
  <2> QED
    BY <2>1

(* The lots of the yard are allocated to weekly lists.                     *)
LEMMA AllocatedLists ==
  ASSUME NEW X, NEW lots \in Seq(X), NEW weeks \in Seq(Nat \ {0}), weeks # <<>>, NEW years,
         NEW pre_prod \in Nat, pre_prod <= weeks[1]
  PROVE  S_allocated(lots, weeks, years, pre_prod) \in Seq(Seq(X))
<1> DEFINE L == Len(weeks)
           n == L - 1
           count(y) == year_lots(lots, years, y)
           start == CHOOSE f : f = [y \in 1 .. L |-> IF y = 1 THEN 0 ELSE f[y - 1] + count(y - 1)]
           Year(y) == IF count(y) = 0 THEN <<>>
                      ELSE Chunks(Slice(lots, start[y], start[y] + count(y)), Ceil(count(y), weeks[y]))
           before == [k \in 1 .. weeks[1] - pre_prod |-> <<>>]
           after == [y \in 1 .. L |-> Year(y)]
<1>0. S_allocated(lots, weeks, years, pre_prod) = before \o Concat(after)
  BY Zenon DEF S_allocated
<1>1. L \in Nat /\ n \in Nat /\ L = n + 1 /\ 1 \in 1 .. L /\ \A y \in 1 .. L : weeks[y] \in Nat \ {0}
  OBVIOUS
<1>2. ASSUME NEW y PROVE count(y) \in Nat
  <2> DEFINE places == {i \in DOMAIN lots : y \in years[lots[i]]}
  <2>1. Len(lots) \in Nat /\ places \in SUBSET (1 .. Len(lots))
    OBVIOUS
  <2>2. year_lots(lots, years, y) = Cardinality(places)
    BY DEF year_lots
  <2> HIDE DEF places
  <2> QED
    BY <2>1, <2>2, PlacesAreFinite
<1> HIDE DEF count
<1>3. \A y \in 1 .. L : start[y] \in Nat
  <2> DEFINE c == [i \in 1 .. n |-> count(i)]
  <2>1. c \in [1 .. n -> Nat] /\ \A i \in 1 .. n : c[i] = count(i)
    BY <1>2
  <2> HIDE DEF n, L, c, start, Year, before, after
  <2>2. \E g : IsTotal(g, n, c)
    <3>1. n \in Nat
      BY <1>1
    <3>2. c \in [1 .. n -> Nat]
      BY <2>1
    <3> QED
      BY <3>1, <3>2, RunningTotals
  <2>3. PICK g : IsTotal(g, n, c)
    BY <2>2
  <2>4. g \in [0 .. n -> Nat] /\ g[0] = 0 /\ \A i \in 1 .. n : g[i] = g[i - 1] + count(i)
    BY <2>1, <2>3 DEF IsTotal
  <2> DEFINE h == [y \in 1 .. L |-> g[y - 1]]
  <2>5. h = [y \in 1 .. L |-> IF y = 1 THEN 0 ELSE h[y - 1] + count(y - 1)]
    <3>1. ASSUME NEW y \in 1 .. L, y # 1 PROVE g[y - 1] = h[y - 1] + count(y - 1)
      <4>1. y - 1 \in 1 .. n /\ y - 1 - 1 \in 0 .. n /\ y - 1 \in 1 .. L
        BY <1>1, <3>1
      <4>2. g[y - 1] = g[y - 1 - 1] + count(y - 1)
        BY <2>4, <4>1
      <4> QED
        BY <4>1, <4>2
    <3>2. g[1 - 1] = 0
      BY <2>4
    <3> QED
      BY <3>1, <3>2
  <2> HIDE DEF h
  <2>6. start = [y \in 1 .. L |-> IF y = 1 THEN 0 ELSE start[y - 1] + count(y - 1)]
    BY <2>5, Zenon DEF start
  <2> DEFINE Good == {i \in 0 .. n : start[i + 1] \in Nat}
  <2>7. 0 \in Good
    BY <1>1, <2>6
  <2>8. ASSUME NEW i \in 1 .. n, i - 1 \in Good PROVE i \in Good
    <3>1. i + 1 \in 1 .. L /\ i + 1 # 1 /\ i + 1 - 1 = i /\ i - 1 + 1 = i /\ i \in 0 .. n
      BY <1>1
    <3>2. start[i + 1] = start[i + 1 - 1] + count(i + 1 - 1)
      <4> HIDE DEF Year, before, after, n, Good
      <4> DEFINE z == i + 1
      <4>1. z \in 1 .. L /\ z # 1
        BY <3>1
      <4> HIDE DEF z
      <4>2. start[z] = start[z - 1] + count(z - 1)
        BY <2>6, <4>1
      <4> QED
        BY <4>2 DEF z
    <3>3. start[i] \in Nat
      BY <2>8, <3>1
    <3>4. start[i + 1] \in Nat
      BY <1>2, <3>1, <3>2, <3>3
    <3> QED
      BY <3>1, <3>4
  <2>9. \A i \in 0 .. n : i \in Good
    <3> HIDE DEF Good
    <3> QED
      BY <1>1, <2>7, <2>8, IntervalInduction
  <2>10. ASSUME NEW y \in 1 .. L PROVE start[y] \in Nat
    <3>1. y - 1 \in 0 .. n /\ y - 1 + 1 = y
      BY <1>1
    <3> QED
      BY <2>9, <3>1
  <2> QED
    BY <2>10
<1> HIDE DEF start, L
<1>4. ASSUME NEW y \in 1 .. L PROVE Year(y) \in Seq(Seq(X))
  <2>1. CASE count(y) = 0
    BY <2>1
  <2>2. CASE count(y) # 0
    <3>1. Ceil(count(y), weeks[y]) \in Nat \ {0}
      <4>1. count(y) \in Nat \ {0} /\ weeks[y] \in Nat \ {0}
        BY <1>1, <1>2, <2>2
      <4> QED
        BY <4>1, CeilIsPositive
    <3>2. start[y] \in Nat /\ start[y] + count(y) \in Nat
      BY <1>2, <1>3
    <3>3. Slice(lots, start[y], start[y] + count(y)) \in Seq(X)
      BY <3>2, SlicesAreLists
    <3>4. Chunks(Slice(lots, start[y], start[y] + count(y)), Ceil(count(y), weeks[y])) \in Seq(Seq(X))
      BY <3>1, <3>3, ChunksAreLists
    <3> QED
      BY <2>2, <3>4
  <2> QED
    BY <2>1, <2>2
<1> DEFINE A == Seq(X)
           B == Seq(A)
<1>5. after \in Seq(B)
  <2>1. \A y \in 1 .. L : Year(y) \in B
    BY <1>4
  <2> HIDE DEF B, Year
  <2> QED
    BY <1>1, <2>1
<1>6. before \in Seq(A)
  <2>1. <<>> \in A /\ weeks[1] - pre_prod \in Nat
    BY <1>1
  <2> HIDE DEF A
  <2> QED
    BY <2>1
<1> HIDE DEF A, after, before
<1>7. Concat(after) \in Seq(A)
  BY <1>5, ConcatJoins DEF B
<1>8. before \o Concat(after) \in Seq(A)
  BY <1>6, <1>7
<1> QED
  BY <1>0, <1>8 DEF A

(* Leveling changes what is shipped.                                       *)
LEMMA LeveledLists ==
  ASSUME NEW len \in Nat \ {0}, NEW X, NEW demand \in Space(len, X), NEW supply \in Space(len, X),
         NEW weeks \in Seq(Nat \ {0}), weeks # <<>>, NEW years,
         NEW pre_prod \in Nat, pre_prod <= weeks[1]
  PROVE  demand_leveling_on_ship(demand, supply, weeks, years, pre_prod) \in Space(len, X)
<1> DEFINE allocated == S_allocated(Flat(demand, "S"), weeks, years, pre_prod)
           s == [w \in 0 .. len - 1 |-> IF w < Len(allocated) THEN allocated[w + 1] ELSE <<>>]
<1>1. allocated \in Seq(Seq(X))
  <2>1. Flat(demand, "S") \in Seq(X)
    BY FlatLists
  <2> QED
    BY <2>1, AllocatedLists
<1>2. demand_leveling_on_ship(demand, supply, weeks, years, pre_prod)
        = [w \in DOMAIN supply |->
             [supply[w] EXCEPT !.S = IF w < Len(allocated) THEN allocated[w + 1] ELSE <<>>]]
  BY Zenon DEF demand_leveling_on_ship, With
<1> HIDE DEF allocated
<1>3. s \in [0 .. len - 1 -> Seq(X)]
  <2> SUFFICES ASSUME NEW w \in 0 .. len - 1
               PROVE  (IF w < Len(allocated) THEN allocated[w + 1] ELSE <<>>) \in Seq(X)
    OBVIOUS
  <2> DEFINE A == Seq(X)
  <2>1. <<>> \in A
    OBVIOUS
  <2>2. allocated \in Seq(A)
    BY <1>1
  <2> HIDE DEF A
  <2>3. w < Len(allocated) => w + 1 \in 1 .. Len(allocated)
    BY <2>2
  <2>4. (IF w < Len(allocated) THEN allocated[w + 1] ELSE <<>>) \in A
    BY <2>1, <2>2, <2>3
  <2> QED
    BY <2>4 DEF A
<1>4. DOMAIN supply = 0 .. len - 1
  BY SpaceParts
<1>5. [w \in DOMAIN supply |->
         [supply[w] EXCEPT !.S = IF w < Len(allocated) THEN allocated[w + 1] ELSE <<>>]]
        = [w \in DOMAIN supply |-> [supply[w] EXCEPT !.S = s[w]]]
  BY <1>4
<1> HIDE DEF s
<1>6. Shipping(supply, s) \in Space(len, X)
  BY <1>3, ShipsInstead
<1> QED
  BY <1>2, <1>5, <1>6 DEF Shipping

-----------------------------------------------------------------------------
(* Leveling keeps the order of the lots: it cuts their list into parts.    *)

(* A part of a list: what stands after place a, up to place b.             *)
IsPart(t, s, a, b) ==
  /\ Len(t) = b - a
  /\ \A i \in 1 .. b - a : t[i] = s[a + i]

(* What SubSeq takes of a list.                                            *)
LEMMA PartTaken ==
  ASSUME NEW X, NEW s \in Seq(X), NEW a \in Nat, NEW b \in Nat, a <= b, b <= Len(s)
  PROVE  SubSeq(s, a + 1, b) \in Seq(X) /\ IsPart(SubSeq(s, a + 1, b), s, a, b)
<1> DEFINE t == SubSeq(s, a + 1, b)
<1>1. t = [i \in 1 .. (IF a + 1 <= b THEN b - (a + 1) + 1 ELSE 0) |-> s[i + (a + 1) - 1]]
  OBVIOUS
<1>2. \A i \in 1 .. b - a : s[a + i] \in X
  OBVIOUS
<1>3. t = [i \in 1 .. b - a |-> s[a + i]]
  BY <1>1
<1> HIDE DEF t
<1>4. b - a \in Nat
  OBVIOUS
<1>5. t \in [1 .. b - a -> X]
  BY <1>2, <1>3
<1>6. t \in Seq(X) /\ Len(t) = b - a
  BY <1>3, <1>4, <1>5
<1> QED
  BY <1>3, <1>6 DEF IsPart, t

(* Nothing is taken from the end on.                                       *)
LEMMA NothingTaken ==
  ASSUME NEW X, NEW s \in Seq(X), NEW a \in Nat, NEW b \in Nat, b <= a
  PROVE  SubSeq(s, a + 1, b) = <<>>
<1>1. SubSeq(s, a + 1, b) = [i \in 1 .. (IF a + 1 <= b THEN b - (a + 1) + 1 ELSE 0) |-> s[i + (a + 1) - 1]]
  OBVIOUS
<1>2. 1 .. (IF a + 1 <= b THEN b - (a + 1) + 1 ELSE 0) = {}
  OBVIOUS
<1> QED
  BY <1>1, <1>2

(* The empty part.                                                         *)
LEMMA EmptyPart ==
  ASSUME NEW s, NEW a \in Nat
  PROVE  IsPart(<<>>, s, a, a)
BY DEF IsPart

(* Two parts of a list, one where the other ends, are one part.            *)
LEMMA PartsJoin ==
  ASSUME NEW X, NEW s, NEW a \in Nat, NEW b \in Nat, NEW c \in Nat, a <= b, b <= c,
         NEW t \in Seq(X), IsPart(t, s, a, b), NEW u \in Seq(X), IsPart(u, s, b, c)
  PROVE  t \o u \in Seq(X) /\ IsPart(t \o u, s, a, c)
<1>1. Len(t) = b - a /\ Len(u) = c - b /\ b - a \in Nat /\ c - b \in Nat
  BY DEF IsPart
<1>2. PICK w : w = t \o u
  OBVIOUS
<1>3. w \in Seq(X) /\ IsJoin(w, t, u)
  BY <1>2, Joined
<1>4. Len(w) = c - a
  BY <1>1, <1>3 DEF IsJoin
<1>5. ASSUME NEW i \in 1 .. c - a PROVE w[i] = s[a + i]
  <2>1. CASE i <= b - a
    <3>1. i \in 1 .. b - a
      BY <2>1
    <3> QED
      BY <1>1, <1>3, <3>1 DEF IsJoin, IsPart
  <2>2. CASE i > b - a
    <3> DEFINE j == i - (b - a)
    <3>1. j \in 1 .. c - b /\ (b - a) + j = i /\ b + j = a + i
      BY <2>2
    <3> HIDE DEF j
    <3>2. w[(b - a) + j] = u[j]
      BY <1>1, <1>3, <3>1 DEF IsJoin
    <3>3. u[j] = s[b + j]
      BY <3>1 DEF IsPart
    <3> QED
      BY <3>1, <3>2, <3>3
  <2> QED
    BY <2>1, <2>2
<1> QED
  BY <1>2, <1>3, <1>4, <1>5 DEF IsPart

(* A part of a part.                                                       *)
LEMMA PartOfPart ==
  ASSUME NEW s, NEW a \in Nat, NEW b \in Nat, NEW t, IsPart(t, s, a, b),
         NEW c \in Nat, NEW d \in Nat, c <= d, d <= b - a, NEW u, IsPart(u, t, c, d)
  PROVE  IsPart(u, s, a + c, a + d)
<1>1. Len(u) = (a + d) - (a + c)
  BY DEF IsPart
<1>2. ASSUME NEW i \in 1 .. (a + d) - (a + c) PROVE u[i] = s[(a + c) + i]
  <2>1. i \in 1 .. d - c /\ c + i \in 1 .. b - a /\ a + (c + i) = (a + c) + i
    OBVIOUS
  <2>2. u[i] = t[c + i]
    BY <2>1 DEF IsPart
  <2> DEFINE j == c + i
  <2>3. j \in 1 .. b - a /\ a + j = (a + c) + i
    BY <2>1
  <2> HIDE DEF j
  <2>4. t[j] = s[a + j]
    BY <2>3 DEF IsPart
  <2> QED
    BY <2>2, <2>3, <2>4 DEF j
<1> QED
  BY <1>1, <1>2 DEF IsPart

(* The part from the start to the end is the list, and one from the start  *)
(* a prefix.                                                               *)
LEMMA WholePart ==
  ASSUME NEW X, NEW s \in Seq(X), NEW c \in 0 .. Len(s), NEW t \in Seq(X), IsPart(t, s, 0, c)
  PROVE  IsPrefix(t, s) /\ (c = Len(s) => t = s)
<1>1. Len(s) \in Nat /\ c \in Nat
  OBVIOUS
<1>2. Len(t) = c /\ \A i \in 1 .. c : t[i] = s[i]
  BY <1>1 DEF IsPart
<1>3. c = Len(s) => t = s
  BY <1>1, <1>2
<1>4. SubSeq(s, 1, c) = [i \in 1 .. c |-> s[i]] /\ SubSeq(t, 1, c) = [i \in 1 .. c |-> t[i]]
  BY <1>1, <1>2
<1>5. SubSeq(t, 1, c) = SubSeq(s, 1, c)
  BY <1>2, <1>4
<1> QED
  BY <1>1, <1>2, <1>3, <1>5 DEF IsPrefix

-----------------------------------------------------------------------------
(* Lists that cut a list: each goes on where the one before it ends.       *)
IsCutting(cut, lists, s, a, b) ==
  /\ cut \in [0 .. Len(lists) -> Nat]
  /\ cut[0] = a /\ cut[Len(lists)] = b
  /\ \A k \in 1 .. Len(lists) : cut[k - 1] <= cut[k] /\ IsPart(lists[k], s, cut[k - 1], cut[k])

Tiles(lists, s, a, b) == \E cut : IsCutting(cut, lists, s, a, b)

(* Joined again they are a part.                                           *)
LEMMA TilesJoin ==
  ASSUME NEW X, NEW s, NEW lists \in Seq(Seq(X)), NEW a, NEW b, Tiles(lists, s, a, b)
  PROVE  /\ a \in Nat /\ b \in Nat /\ a <= b
         /\ Concat(lists) \in Seq(X) /\ IsPart(Concat(lists), s, a, b)
<1> DEFINE n == Len(lists)
<1>1. n \in Nat /\ \A k \in 1 .. n : lists[k] \in Seq(X)
  OBVIOUS
<1>2. PICK cut : IsCutting(cut, lists, s, a, b)
  BY DEF Tiles
<1>3. /\ cut \in [0 .. n -> Nat] /\ cut[0] = a /\ cut[n] = b
      /\ \A k \in 1 .. n : cut[k - 1] <= cut[k] /\ IsPart(lists[k], s, cut[k - 1], cut[k])
  BY <1>2 DEF IsCutting
<1>4. PICK f : IsJoined(f, lists) /\ Concat(lists) = f[n]
  BY ConcatRuns
<1>5. f[0] = <<>> /\ \A k \in 1 .. n : f[k] = f[k - 1] \o lists[k]
  BY <1>4 DEF IsJoined
<1> HIDE DEF n
<1> DEFINE Good == {k \in 0 .. n : a <= cut[k] /\ f[k] \in Seq(X) /\ IsPart(f[k], s, a, cut[k])}
<1>6. 0 \in Good
  <2>1. a \in Nat /\ <<>> \in Seq(X) /\ 0 \in 0 .. n
    BY <1>1, <1>3
  <2>2. IsPart(<<>>, s, a, a)
    BY <2>1, EmptyPart
  <2>3. a <= cut[0] /\ f[0] \in Seq(X) /\ IsPart(f[0], s, a, cut[0])
    BY <1>3, <1>5, <2>1, <2>2
  <2> QED
    BY <2>1, <2>3
<1>7. ASSUME NEW k \in 1 .. n, k - 1 \in Good PROVE k \in Good
  <2>1. k \in 0 .. n /\ k - 1 \in 0 .. n
    BY <1>1
  <2>2. PICK t \in Seq(X), u \in Seq(X), c \in Nat, d \in Nat :
          t = f[k - 1] /\ u = lists[k] /\ c = cut[k - 1] /\ d = cut[k]
    BY <1>1, <1>3, <1>7, <2>1
  <2>3. a \in Nat /\ a <= c /\ c <= d /\ IsPart(t, s, a, c) /\ IsPart(u, s, c, d)
    BY <1>1, <1>3, <1>7, <2>2
  <2>4. t \o u \in Seq(X) /\ IsPart(t \o u, s, a, d)
    BY <2>3, PartsJoin
  <2>5. f[k] = t \o u
    BY <1>5, <2>2
  <2>6. a <= d
    BY <2>3
  <2> QED
    BY <2>1, <2>2, <2>4, <2>5, <2>6
<1> HIDE DEF Good
<1>8. n \in Good
  <2>1. \A k \in 0 .. n : k \in Good
    BY <1>1, <1>6, <1>7, IntervalInduction
  <2>2. n \in 0 .. n
    BY <1>1
  <2> QED
    BY <2>1, <2>2
<1>9. a <= cut[n] /\ f[n] \in Seq(X) /\ IsPart(f[n], s, a, cut[n])
  BY <1>8 DEF Good
<1>10. a \in Nat /\ b \in Nat
  <2>1. 0 \in 0 .. n /\ n \in 0 .. n
    BY <1>1
  <2> QED
    BY <1>3, <2>1
<1> QED
  BY <1>3, <1>4, <1>9, <1>10 DEF n

(* Lists that cut a part, and lists that cut the next, cut both.           *)
LEMMA TilesMeet ==
  ASSUME NEW X, NEW s, NEW u \in Seq(X), NEW v \in Seq(X), NEW a, NEW b, NEW c,
         Tiles(u, s, a, b), Tiles(v, s, b, c)
  PROVE  Tiles(u \o v, s, a, c)
<1> DEFINE m == Len(u)
           n == Len(v)
<1>1. m \in Nat /\ n \in Nat
  OBVIOUS
<1>2. PICK w : w = u \o v
  OBVIOUS
<1>3. w \in Seq(X) /\ Len(w) = m + n /\ (\A i \in 1 .. m : w[i] = u[i]) /\ \A i \in 1 .. n : w[m + i] = v[i]
  BY <1>2, Joined DEF IsJoin
<1>4. PICK f : IsCutting(f, u, s, a, b)
  BY DEF Tiles
<1>5. PICK g : IsCutting(g, v, s, b, c)
  BY DEF Tiles
<1>6. /\ f \in [0 .. m -> Nat] /\ f[0] = a /\ f[m] = b
      /\ \A k \in 1 .. m : f[k - 1] <= f[k] /\ IsPart(u[k], s, f[k - 1], f[k])
      /\ g \in [0 .. n -> Nat] /\ g[0] = b /\ g[n] = c
      /\ \A k \in 1 .. n : g[k - 1] <= g[k] /\ IsPart(v[k], s, g[k - 1], g[k])
  BY <1>4, <1>5 DEF IsCutting
<1> HIDE DEF m, n
<1> DEFINE cut == [k \in 0 .. m + n |-> IF k <= m THEN f[k] ELSE g[k - m]]
<1>7. cut \in [0 .. m + n -> Nat]
  <2>1. ASSUME NEW k \in 0 .. m + n PROVE (IF k <= m THEN f[k] ELSE g[k - m]) \in Nat
    <3>1. k <= m => k \in 0 .. m
      BY <1>1
    <3>2. k > m => k - m \in 0 .. n
      BY <1>1
    <3> QED
      BY <1>1, <1>6, <3>1, <3>2
  <2> QED
    BY <2>1
<1>8. cut[0] = a /\ cut[m + n] = c
  <2>1. cut[0] = f[0]
    BY <1>1
  <2>2. CASE n = 0
    <3>1. cut[m + n] = f[m] /\ c = b
      BY <1>1, <1>6, <2>2
    <3> QED
      BY <1>6, <2>1, <3>1
  <2>3. CASE n # 0
    <3>1. cut[m + n] = g[n]
      BY <1>1, <2>3
    <3> QED
      BY <1>6, <2>1, <3>1
  <2> QED
    BY <2>2, <2>3
<1>9. ASSUME NEW k \in 1 .. m + n
      PROVE  cut[k - 1] <= cut[k] /\ IsPart(w[k], s, cut[k - 1], cut[k])
  <2>1. CASE k <= m
    <3>1. k \in 1 .. m /\ cut[k - 1] = f[k - 1] /\ cut[k] = f[k] /\ w[k] = u[k]
      BY <1>1, <1>3, <2>1
    <3> QED
      BY <1>6, <3>1
  <2>2. CASE k > m
    <3> DEFINE j == k - m
    <3>1. j \in 1 .. n /\ m + j = k
      BY <1>1, <2>2
    <3>2. cut[k] = g[j]
      BY <1>1, <2>2
    <3>3. cut[k - 1] = g[j - 1]
      <4>1. CASE j = 1
        <5>1. k - 1 = m /\ k - 1 \in 0 .. m + n /\ k - 1 <= m
          BY <1>1, <2>2, <4>1
        <5>2. cut[k - 1] = f[k - 1]
          BY <5>1
        <5>3. j - 1 = 0
          BY <4>1
        <5> QED
          BY <1>6, <5>1, <5>2, <5>3
      <4>2. CASE j # 1
        <5>1. k - 1 > m /\ k - 1 \in 0 .. m + n /\ k - 1 - m = j - 1
          BY <1>1, <2>2, <4>2
        <5>2. ~(k - 1 <= m)
          BY <1>1, <5>1
        <5> QED
          BY <5>1, <5>2
      <4> QED
        BY <4>1, <4>2
    <3> HIDE DEF j, cut
    <3>4. w[k] = v[j]
      BY <1>3, <3>1
    <3> QED
      BY <1>6, <3>1, <3>2, <3>3, <3>4
  <2> QED
    BY <1>1, <2>1, <2>2
<1> HIDE DEF cut
<1>10. IsCutting(cut, w, s, a, c)
  BY <1>3, <1>7, <1>8, <1>9 DEF IsCutting
<1> QED
  BY <1>2, <1>10 DEF Tiles

(* Nothing cuts nothing.                                                   *)
LEMMA NoTiles ==
  ASSUME NEW s, NEW a \in Nat
  PROVE  Tiles(<<>>, s, a, a)
<1> DEFINE cut == [k \in 0 .. 0 |-> a]
<1>1. Len(<<>>) = 0
  OBVIOUS
<1>2. IsCutting(cut, <<>>, s, a, a)
  BY <1>1 DEF IsCutting
<1> QED
  BY <1>2 DEF Tiles

(* Weeks before the first of them cut nothing either.                      *)
LEMMA EmptyTiles ==
  ASSUME NEW s, NEW n \in Nat, NEW a \in Nat
  PROVE  Tiles([k \in 1 .. n |-> <<>>], s, a, a)
<1> DEFINE lists == [k \in 1 .. n |-> <<>>]
           cut == [k \in 0 .. n |-> a]
<1>1. lists \in Seq({<<>>}) /\ Len(lists) = n /\ \A k \in 1 .. n : lists[k] = <<>>
  OBVIOUS
<1>2. IsPart(<<>>, s, a, a)
  BY EmptyPart
<1>3. \A k \in 1 .. n : cut[k - 1] <= cut[k] /\ IsPart(lists[k], s, cut[k - 1], cut[k])
  <2> SUFFICES ASSUME NEW k \in 1 .. n
               PROVE  cut[k - 1] <= cut[k] /\ IsPart(lists[k], s, cut[k - 1], cut[k])
    OBVIOUS
  <2>1. cut[k - 1] = a /\ cut[k] = a /\ lists[k] = <<>>
    BY <1>1
  <2> HIDE DEF cut, lists
  <2> QED
    BY <1>2, <2>1
<1>4. cut \in [0 .. n -> Nat] /\ cut[0] = a /\ cut[n] = a
  OBVIOUS
<1> HIDE DEF cut, lists
<1>5. IsCutting(cut, lists, s, a, a)
  BY <1>1, <1>3, <1>4 DEF IsCutting
<1>6. Tiles(lists, s, a, a)
  BY <1>5 DEF Tiles
<1> QED
  BY <1>6 DEF lists

(* Lists of lists, each cutting what the one before it leaves, cut it all. *)
LEMMA TilesChain ==
  ASSUME NEW X, NEW s, NEW groups \in Seq(Seq(X)), NEW g \in [0 .. Len(groups) -> Nat],
         \A k \in 1 .. Len(groups) : Tiles(groups[k], s, g[k - 1], g[k])
  PROVE  Tiles(Concat(groups), s, g[0], g[Len(groups)])
<1> DEFINE n == Len(groups)
<1>1. n \in Nat /\ \A k \in 1 .. n : groups[k] \in Seq(X)
  OBVIOUS
<1>2. PICK f : IsJoined(f, groups) /\ Concat(groups) = f[n]
  BY ConcatRuns
<1>3. f[0] = <<>> /\ \A k \in 1 .. n : f[k] = f[k - 1] \o groups[k]
  BY <1>2 DEF IsJoined
<1>4. g \in [0 .. n -> Nat] /\ \A k \in 1 .. n : Tiles(groups[k], s, g[k - 1], g[k])
  OBVIOUS
<1> HIDE DEF n
<1> DEFINE Good == {k \in 0 .. n : f[k] \in Seq(X) /\ Tiles(f[k], s, g[0], g[k])}
<1>5. 0 \in Good
  <2>1. g[0] \in Nat /\ 0 \in 0 .. n /\ <<>> \in Seq(X)
    BY <1>1, <1>4
  <2>2. Tiles(<<>>, s, g[0], g[0])
    BY <2>1, NoTiles
  <2> QED
    BY <1>3, <2>1, <2>2
<1>6. ASSUME NEW k \in 1 .. n, k - 1 \in Good PROVE k \in Good
  <2>1. k \in 0 .. n
    BY <1>1
  <2>2. PICK u \in Seq(X), v \in Seq(X) : u = f[k - 1] /\ v = groups[k]
    BY <1>1, <1>6
  <2>3. PICK a, b, c : a = g[0] /\ b = g[k - 1] /\ c = g[k]
    OBVIOUS
  <2>4. Tiles(u, s, a, b) /\ Tiles(v, s, b, c)
    BY <1>4, <1>6, <2>2, <2>3
  <2>5. Tiles(u \o v, s, a, c) /\ u \o v \in Seq(X)
    BY <2>4, TilesMeet
  <2>6. f[k] = u \o v
    BY <1>3, <2>2
  <2> QED
    BY <2>1, <2>3, <2>5, <2>6
<1> HIDE DEF Good
<1>7. \A k \in 0 .. n : k \in Good
  BY <1>1, <1>5, <1>6, IntervalInduction
<1>8. Tiles(f[n], s, g[0], g[n])
  <2>1. n \in 0 .. n
    BY <1>1
  <2> QED
    BY <1>7, <2>1 DEF Good
<1> QED
  BY <1>2, <1>8 DEF n

(* The first len of the lists, and none where there are fewer.             *)
AreFirst(first, lists, len) ==
  /\ Len(first) = len
  /\ \A k \in 1 .. len : first[k] = IF k <= Len(lists) THEN lists[k] ELSE <<>>

(* They cut as far as they go.                                             *)
LEMMA FirstTiles ==
  ASSUME NEW X, NEW s, NEW lists \in Seq(Seq(X)), NEW a, NEW b, Tiles(lists, s, a, b),
         NEW len \in Nat, NEW first \in Seq(Seq(X)), AreFirst(first, lists, len)
  PROVE  \E c \in Nat : c <= b /\ Tiles(first, s, a, c) /\ (Len(lists) <= len => c = b)
<1> DEFINE n == Len(lists)
<1>1. n \in Nat
  OBVIOUS
<1>2. PICK cut : IsCutting(cut, lists, s, a, b)
  BY DEF Tiles
<1>3. /\ cut \in [0 .. n -> Nat] /\ cut[0] = a /\ cut[n] = b
      /\ \A k \in 1 .. n : cut[k - 1] <= cut[k] /\ IsPart(lists[k], s, cut[k - 1], cut[k])
  BY <1>2 DEF IsCutting
<1>4. Len(first) = len /\ \A k \in 1 .. len : first[k] = IF k <= n THEN lists[k] ELSE <<>>
  BY DEF AreFirst
<1> HIDE DEF n
<1>5. \A k \in 0 .. n : cut[n - k] <= b
  <2> DEFINE Good == {k \in 0 .. n : cut[n - k] <= b}
  <2>1. 0 \in Good
    <3>1. n - 0 = n /\ b \in Nat /\ 0 \in 0 .. n
      BY <1>1, <1>3
    <3> QED
      BY <1>3, <3>1
  <2>2. ASSUME NEW k \in 1 .. n, k - 1 \in Good PROVE k \in Good
    <3> DEFINE j == n - k + 1
    <3>1. j \in 1 .. n /\ j - 1 = n - k /\ n - (k - 1) = j /\ k \in 0 .. n /\ j \in 0 .. n /\ j - 1 \in 0 .. n
      BY <1>1
    <3>2. cut[j - 1] <= cut[j] /\ cut[j] <= b
      BY <1>3, <2>2, <3>1
    <3>3. cut[j - 1] \in Nat /\ cut[j] \in Nat /\ b \in Nat
      <4>1. n \in 0 .. n
        BY <1>1
      <4> QED
        BY <1>3, <3>1, <4>1
    <3>4. cut[j - 1] <= b
      BY <3>2, <3>3
    <3> QED
      BY <3>1, <3>4
  <2> HIDE DEF Good
  <2>3. \A k \in 0 .. n : k \in Good
    BY <1>1, <2>1, <2>2, IntervalInduction
  <2> QED
    BY <2>3 DEF Good
<1> DEFINE at == [k \in 0 .. len |-> IF k <= n THEN cut[k] ELSE b]
           c == at[len]
<1>6. \A k \in 0 .. n : cut[k] \in Nat /\ cut[k] <= b
  <2> SUFFICES ASSUME NEW k \in 0 .. n PROVE cut[k] \in Nat /\ cut[k] <= b
    OBVIOUS
  <2>1. n - k \in 0 .. n /\ n - (n - k) = k
    BY <1>1
  <2> QED
    BY <1>3, <1>5, <2>1
<1>7. b \in Nat /\ 0 \in 0 .. n /\ n \in 0 .. n
  BY <1>1, <1>3
<1>8. at \in [0 .. len -> Nat] /\ at[0] = a /\ c \in Nat /\ c <= b /\ (n <= len => c = b)
  <2>1. \A k \in 0 .. len : (IF k <= n THEN cut[k] ELSE b) \in Nat /\ (IF k <= n THEN cut[k] ELSE b) <= b
    BY <1>1, <1>6, <1>7
  <2>2. 0 \in 0 .. len /\ len \in 0 .. len
    OBVIOUS
  <2> QED
    BY <1>1, <1>3, <2>1, <2>2
<1>9. ASSUME NEW k \in 1 .. len
      PROVE  at[k - 1] <= at[k] /\ IsPart(first[k], s, at[k - 1], at[k])
  <2>1. CASE k <= n
    <3>1. k \in 1 .. n /\ at[k - 1] = cut[k - 1] /\ at[k] = cut[k] /\ first[k] = lists[k]
      BY <1>1, <1>4, <2>1
    <3> QED
      BY <1>3, <3>1
  <2>2. CASE k > n
    <3>1. at[k] = b /\ at[k - 1] = b /\ first[k] = <<>>
      <4>1. ~(k <= n) /\ k - 1 \in 0 .. len /\ k \in 0 .. len
        BY <1>1, <2>2
      <4>2. k - 1 <= n => k - 1 = n
        BY <1>1, <2>2
      <4> QED
        BY <1>3, <1>4, <4>1, <4>2
    <3>2. IsPart(<<>>, s, b, b) /\ b <= b
      BY <1>7, EmptyPart
    <3> QED
      BY <3>1, <3>2
  <2> QED
    BY <1>1, <2>1, <2>2
<1> HIDE DEF at
<1>10. IsCutting(at, first, s, a, c)
  BY <1>4, <1>8, <1>9 DEF IsCutting
<1> QED
  BY <1>8, <1>10 DEF Tiles, n

(* Products keep the order.                                                *)
LEMMA TimesMonotone ==
  ASSUME NEW i \in Nat, NEW j \in Nat, i <= j, NEW n \in Nat
  PROVE  i * n \in Nat /\ j * n \in Nat /\ i * n <= j * n /\ (i + 1) * n = i * n + n
<1> DEFINE d == j - i
<1>1. d \in Nat /\ j = i + d
  OBVIOUS
<1> HIDE DEF d
<1>2. j * n = i * n + d * n /\ d * n \in Nat /\ i * n \in Nat
  BY <1>1
<1> QED
  BY <1>2

(* As many pieces of n as are needed for a.                                *)
LEMMA CeilCovers ==
  ASSUME NEW a \in Nat, NEW n \in Nat \ {0}
  PROVE  /\ Ceil(a, n) \in Nat
         /\ a <= Ceil(a, n) * n
         /\ \A i \in 1 .. Ceil(a, n) : (i - 1) * n < a
<1> DEFINE m == Ceil(a, n)
<1>1. m = (a + n - 1) \div n
  BY DEF Ceil
<1>2. a + n - 1 \in Nat
  OBVIOUS
<1>3. m \in Nat /\ m * n <= a + n - 1 /\ a + n - 1 < m * n + n
  <2> DEFINE b == a + n - 1
             r == b % n
  <2>1. b \in Nat /\ m = b \div n
    BY <1>1, <1>2
  <2> HIDE DEF b, m
  <2>2. m \in Nat /\ r \in 0 .. n - 1 /\ b = n * m + r
    BY <2>1
  <2>3. n * m = m * n /\ m * n \in Nat
    BY <2>2
  <2> QED
    BY <2>2, <2>3 DEF b
<1> HIDE DEF m
<1>4. m * n \in Nat
  BY <1>3
<1>5. a <= m * n
  BY <1>3, <1>4
<1>6. ASSUME NEW i \in 1 .. m PROVE (i - 1) * n < a
  <2>1. i - 1 \in Nat /\ m - 1 \in Nat /\ i - 1 <= m - 1 /\ m - 1 + 1 = m
    BY <1>3
  <2>2. PICK x \in Nat, y \in Nat : x = i - 1 /\ y = m - 1
    BY <2>1
  <2>3. x * n <= y * n /\ x * n \in Nat /\ y * n \in Nat /\ (y + 1) * n = y * n + n
    BY <2>1, <2>2, TimesMonotone
  <2>4. m * n = y * n + n
    BY <2>1, <2>2, <2>3
  <2>5. y * n < a
    BY <1>3, <2>3, <2>4
  <2> QED
    BY <2>2, <2>3, <2>5
<1> QED
  BY <1>3, <1>5, <1>6 DEF m

(* A list cut into pieces: they cut it, and none is empty.                 *)
LEMMA ChunksTile ==
  ASSUME NEW X, NEW s, NEW a \in Nat, NEW b \in Nat, a <= b,
         NEW list \in Seq(X), IsPart(list, s, a, b), NEW n \in Nat \ {0}
  PROVE  /\ Tiles(Chunks(list, n), s, a, b)
         /\ \A i \in 1 .. Len(Chunks(list, n)) :
              Chunks(list, n)[i] # <<>> /\ Len(Chunks(list, n)[i]) <= n
<1> DEFINE len == Len(list)
           m == Ceil(len, n)
           least(u) == IF u <= len THEN u ELSE len
           cut == [i \in 0 .. m |-> a + least(i * n)]
           chunks == [i \in 1 .. m |-> Slice(list, (i - 1) * n, i * n)]
<1>1. len \in Nat /\ len = b - a /\ a + len = b
  BY DEF IsPart
<1>2. m \in Nat /\ len <= m * n /\ \A i \in 1 .. m : (i - 1) * n < len
  BY <1>1, CeilCovers
<1>3. Chunks(list, n) = chunks /\ Len(chunks) = m
  BY <1>2 DEF Chunks
<1> HIDE DEF m, len
<1>4. \A i \in 0 .. m : i * n \in Nat
  BY <1>2
<1>5. cut \in [0 .. m -> Nat] /\ cut[0] = a /\ cut[m] = b
  <2>1. 0 * n = 0 /\ m * n \in Nat /\ 0 \in 0 .. m /\ m \in 0 .. m
    BY <1>2
  <2>2. least(0) = 0 /\ least(m * n) = len
    BY <1>1, <1>2, <2>1
  <2>3. \A i \in 0 .. m : a + least(i * n) \in Nat
    BY <1>1, <1>4
  <2> HIDE DEF least
  <2>4. cut \in [0 .. m -> Nat]
    BY <2>3
  <2>5. cut[0] = a + least(0 * n) /\ cut[m] = a + least(m * n)
    BY <2>1
  <2>6. cut[0] = a + 0
    BY <2>1, <2>2, <2>5
  <2> QED
    BY <1>1, <2>2, <2>4, <2>5, <2>6
<1>6. ASSUME NEW i \in 1 .. m
      PROVE  /\ cut[i - 1] <= cut[i] /\ IsPart(chunks[i], s, cut[i - 1], cut[i])
             /\ chunks[i] # <<>> /\ Len(chunks[i]) <= n
  <2>1. PICK x \in Nat, y \in Nat : x = (i - 1) * n /\ y = i * n
    <3>1. i - 1 \in 0 .. m /\ i \in 0 .. m
      BY <1>2
    <3> QED
      BY <1>4, <3>1
  <2>2. y = x + n /\ x < len
    <3>1. PICK j \in Nat : j = i - 1
      BY <1>2
    <3>2. (j + 1) * n = j * n + n
      BY <3>1, TimesMonotone
    <3>3. j + 1 = i
      BY <1>2, <3>1
    <3> QED
      BY <1>2, <2>1, <3>1, <3>2, <3>3
  <2> DEFINE z == least(y)
  <2>3. z \in Nat /\ x < z /\ z <= len /\ z - x <= n /\ least(x) = x
    BY <1>1, <2>2
  <2>4. Min({y, len}) = z
    BY <1>1 DEF Min
  <2>5. chunks[i] = SubSeq(list, x + 1, z)
    BY <2>1, <2>4 DEF Slice, len
  <2>6. cut[i - 1] = a + x /\ cut[i] = a + z
    <3>1. i - 1 \in 0 .. m /\ i \in 0 .. m
      BY <1>2
    <3>2. cut[i - 1] = a + least(x) /\ cut[i] = a + least(y)
      BY <2>1, <3>1
    <3> QED
      BY <2>3, <3>2
  <2> HIDE DEF z, cut, chunks
  <2>7. PICK t \in Seq(X) : t = SubSeq(list, x + 1, z) /\ IsPart(t, list, x, z)
    <3>1. x <= z /\ z <= Len(list)
      BY <2>3 DEF len
    <3>2. SubSeq(list, x + 1, z) \in Seq(X) /\ IsPart(SubSeq(list, x + 1, z), list, x, z)
      BY <2>3, <3>1, PartTaken
    <3> QED
      BY <3>2
  <2>8. IsPart(t, s, a + x, a + z)
    BY <1>1, <2>3, <2>7, PartOfPart
  <2>9. Len(t) = z - x
    BY <2>7 DEF IsPart
  <2>10. t # <<>> /\ Len(t) <= n
    BY <2>3, <2>9
  <2>11. a + x <= a + z
    BY <2>3
  <2>12. chunks[i] = t
    BY <2>5, <2>7
  <2> QED
    BY <2>6, <2>8, <2>10, <2>11, <2>12
<1> HIDE DEF cut, chunks
<1>7. IsCutting(cut, chunks, s, a, b)
  BY <1>3, <1>5, <1>6 DEF IsCutting
<1> QED
  BY <1>3, <1>6, <1>7 DEF Tiles

-----------------------------------------------------------------------------
(* The weekly lists of a year, whose lots begin after place g[y - 1].      *)
CountsOf(lots, weeks, years) == [y \in 1 .. Len(weeks) |-> year_lots(lots, years, y)]

YearLists(lots, weeks, years, g, y) ==
  IF year_lots(lots, years, y) = 0 THEN <<>>
  ELSE Chunks(Slice(lots, g[y - 1], g[y - 1] + year_lots(lots, years, y)),
              Ceil(year_lots(lots, years, y), weeks[y]))

(* The lots of a year are counted.                                         *)
LEMMA YearCounts ==
  ASSUME NEW X, NEW lots \in Seq(X), NEW years, NEW y
  PROVE  year_lots(lots, years, y) \in Nat
<1> DEFINE places == {i \in DOMAIN lots : y \in years[lots[i]]}
<1>1. Len(lots) \in Nat /\ places \in SUBSET (1 .. Len(lots))
  OBVIOUS
<1>2. year_lots(lots, years, y) = Cardinality(places)
  BY DEF year_lots
<1> HIDE DEF places
<1> QED
  BY <1>1, <1>2, PlacesAreFinite

(* The allocation: empty weeks, then the lists of one year after another.  *)
LEMMA AllocationIs ==
  ASSUME NEW X, NEW lots \in Seq(X), NEW weeks \in Seq(Nat \ {0}), weeks # <<>>, NEW years,
         NEW pre_prod
  PROVE  \E g : /\ IsTotal(g, Len(weeks), CountsOf(lots, weeks, years))
                /\ S_allocated(lots, weeks, years, pre_prod)
                     = [k \in 1 .. weeks[1] - pre_prod |-> <<>>]
                       \o Concat([y \in 1 .. Len(weeks) |-> YearLists(lots, weeks, years, g, y)])
<1> DEFINE L == Len(weeks)
           n == L - 1
           count(y) == year_lots(lots, years, y)
           start == CHOOSE f : f = [y \in 1 .. L |-> IF y = 1 THEN 0 ELSE f[y - 1] + count(y - 1)]
           Year(y) == IF count(y) = 0 THEN <<>>
                      ELSE Chunks(Slice(lots, start[y], start[y] + count(y)), Ceil(count(y), weeks[y]))
           before == [k \in 1 .. weeks[1] - pre_prod |-> <<>>]
           after == [y \in 1 .. L |-> Year(y)]
           c == CountsOf(lots, weeks, years)
<1>0. S_allocated(lots, weeks, years, pre_prod) = before \o Concat(after)
  BY Zenon DEF S_allocated
<1>1. L \in Nat /\ n \in Nat /\ L = n + 1 /\ 1 \in 1 .. L
  OBVIOUS
<1>2. ASSUME NEW y PROVE count(y) \in Nat
  BY YearCounts
<1>3. c = [y \in 1 .. L |-> count(y)]
  BY DEF CountsOf
<1> HIDE DEF count
<1>4. \A y \in 1 .. L : c[y] = count(y) /\ c[y] \in Nat
  BY <1>2, <1>3
<1> HIDE DEF c, L, n
<1>5. PICK g : IsTotal(g, L, c)
  BY <1>1, <1>4, RunningTotals
<1>6. g \in [0 .. L -> Nat] /\ g[0] = 0 /\ \A i \in 1 .. L : g[i] = g[i - 1] + count(i)
  BY <1>4, <1>5 DEF IsTotal
<1>7. \A y \in 1 .. L : start[y] = g[y - 1]
  <2> HIDE DEF Year, before, after, start
  <2> DEFINE h == [y \in 1 .. L |-> g[y - 1]]
  <2>1. h = [y \in 1 .. L |-> IF y = 1 THEN 0 ELSE h[y - 1] + count(y - 1)]
    <3>1. ASSUME NEW y \in 1 .. L, y # 1 PROVE g[y - 1] = h[y - 1] + count(y - 1)
      <4>1. y - 1 \in 1 .. L
        BY <1>1, <3>1
      <4>2. g[y - 1] = g[y - 1 - 1] + count(y - 1)
        BY <1>6, <4>1
      <4> QED
        BY <4>1, <4>2
    <3>2. g[1 - 1] = 0
      BY <1>6
    <3> QED
      BY <3>1, <3>2
  <2> HIDE DEF h
  <2>2. start = [y \in 1 .. L |-> IF y = 1 THEN 0 ELSE start[y - 1] + count(y - 1)]
    BY <2>1, Zenon DEF start
  <2> DEFINE Good == {i \in 0 .. n : start[i + 1] = g[i]}
  <2>3. 0 \in Good
    <3>1. 0 \in 0 .. n /\ 0 + 1 = 1
      BY <1>1
    <3> QED
      BY <1>1, <1>6, <2>2, <3>1
  <2>4. ASSUME NEW i \in 1 .. n, i - 1 \in Good PROVE i \in Good
    <3>1. i + 1 \in 1 .. L /\ i + 1 # 1 /\ i + 1 - 1 = i /\ i - 1 + 1 = i /\ i \in 0 .. n /\ i \in 1 .. L
      BY <1>1
    <3>2. start[i + 1] = start[i + 1 - 1] + count(i + 1 - 1)
      <4> HIDE DEF Good
      <4> DEFINE z == i + 1
      <4>1. z \in 1 .. L /\ z # 1
        BY <3>1
      <4> HIDE DEF z
      <4>2. start[z] = start[z - 1] + count(z - 1)
        BY <2>2, <4>1
      <4> QED
        BY <4>2 DEF z
    <3>3. start[i] = g[i - 1]
      BY <2>4, <3>1
    <3>4. g[i] = g[i - 1] + count(i)
      BY <1>6, <3>1
    <3>5. start[i + 1] = g[i]
      BY <3>1, <3>2, <3>3, <3>4
    <3> QED
      BY <3>1, <3>5
  <2>5. \A i \in 0 .. n : i \in Good
    <3> HIDE DEF Good
    <3> QED
      BY <1>1, <2>3, <2>4, IntervalInduction
  <2> SUFFICES ASSUME NEW y \in 1 .. L PROVE start[y] = g[y - 1]
    OBVIOUS
  <2>6. y - 1 \in 0 .. n /\ y - 1 + 1 = y
    BY <1>1
  <2> QED
    BY <2>5, <2>6
<1> HIDE DEF start
<1>8. \A y \in 1 .. L : Year(y) = YearLists(lots, weeks, years, g, y)
  BY <1>7 DEF YearLists, count
<1>9. after = [y \in 1 .. L |-> YearLists(lots, weeks, years, g, y)]
  <2> HIDE DEF Year
  <2> QED
    BY <1>8
<1> QED
  BY <1>0, <1>5, <1>9 DEF L, c

(* The lots of the first years are at most as many as these years count.   *)
LEMMA YearsCoverLots ==
  ASSUME NEW X, NEW lots \in Seq(X), NEW weeks \in Seq(Nat \ {0}), NEW years,
         NEW g, IsTotal(g, Len(weeks), CountsOf(lots, weeks, years)),
         \A i \in 1 .. Len(lots) : \E y \in 1 .. Len(weeks) : y \in years[lots[i]]
  PROVE  Len(lots) <= g[Len(weeks)]
<1> DEFINE L == Len(weeks)
           N == Len(lots)
           c == CountsOf(lots, weeks, years)
           places(y) == {i \in 1 .. N : y \in years[lots[i]]}
           upto(k) == {i \in 1 .. N : \E y \in 1 .. k : y \in years[lots[i]]}
<1>1. L \in Nat /\ N \in Nat
  OBVIOUS
<1>2. \A y \in 1 .. L : c[y] = Cardinality(places(y)) /\ IsFiniteSet(places(y)) /\ Cardinality(places(y)) \in Nat
  <2> SUFFICES ASSUME NEW y \in 1 .. L
               PROVE  c[y] = Cardinality(places(y)) /\ IsFiniteSet(places(y)) /\ Cardinality(places(y)) \in Nat
    OBVIOUS
  <2>1. c[y] = year_lots(lots, years, y)
    BY DEF CountsOf
  <2>2. DOMAIN lots = 1 .. N
    OBVIOUS
  <2>3. year_lots(lots, years, y) = Cardinality(places(y))
    BY <2>2 DEF year_lots
  <2>4. places(y) \in SUBSET (1 .. N)
    OBVIOUS
  <2> HIDE DEF places, N
  <2> QED
    BY <1>1, <2>1, <2>3, <2>4, PlacesAreFinite
<1>3. g \in [0 .. L -> Nat] /\ g[0] = 0 /\ \A k \in 1 .. L : g[k] = g[k - 1] + c[k]
  BY DEF IsTotal
<1>4. \A i \in 1 .. N : \E y \in 1 .. L : y \in years[lots[i]]
  OBVIOUS
<1> HIDE DEF L, N, c
<1>5. \A k : IsFiniteSet(upto(k)) /\ Cardinality(upto(k)) \in Nat
  <2> SUFFICES ASSUME NEW k PROVE IsFiniteSet(upto(k)) /\ Cardinality(upto(k)) \in Nat
    OBVIOUS
  <2>1. upto(k) \in SUBSET (1 .. N)
    OBVIOUS
  <2> HIDE DEF upto
  <2> QED
    BY <1>1, <2>1, PlacesAreFinite
<1> DEFINE Good == {k \in 0 .. L : Cardinality(upto(k)) <= g[k]}
<1>6. 0 \in Good
  <2>1. upto(0) = {}
    OBVIOUS
  <2>2. Cardinality(upto(0)) = 0
    BY <2>1, FS_EmptySet
  <2>3. 0 \in 0 .. L /\ 0 <= g[0]
    BY <1>1, <1>3
  <2> HIDE DEF upto
  <2> QED
    BY <2>2, <2>3
<1>7. ASSUME NEW k \in 1 .. L, k - 1 \in Good PROVE k \in Good
  <2>1. k \in 0 .. L /\ k - 1 \in 0 .. L
    BY <1>1
  <2>2. upto(k) = upto(k - 1) \cup places(k)
    <3>1. \A y : y \in 1 .. k <=> y \in 1 .. k - 1 \/ y = k
      BY <1>1
    <3> QED
      BY <3>1
  <2> HIDE DEF upto, places
  <2>3. PICK A, B : A = upto(k - 1) /\ B = places(k)
    OBVIOUS
  <2>4. IsFiniteSet(A) /\ IsFiniteSet(B) /\ Cardinality(A) \in Nat /\ Cardinality(B) \in Nat
    BY <1>2, <1>5, <2>3
  <2>5. Cardinality(A \cup B) = Cardinality(A) + Cardinality(B) - Cardinality(A \cap B)
        /\ Cardinality(A \cap B) \in Nat
    <3>1. IsFiniteSet(A \cap B)
      BY <2>4, FS_Intersection
    <3> QED
      BY <2>4, <3>1, FS_Union, FS_CardinalityType
  <2>6. Cardinality(A) <= g[k - 1] /\ g[k] = g[k - 1] + Cardinality(B) /\ g[k - 1] \in Nat
    BY <1>2, <1>3, <1>7, <2>1, <2>3
  <2>7. Cardinality(A \cup B) <= g[k]
    BY <2>4, <2>5, <2>6
  <2> QED
    BY <2>1, <2>2, <2>3, <2>7
<1>8. L \in Good
  <2> HIDE DEF Good
  <2>1. \A k \in 0 .. L : k \in Good
    BY <1>1, <1>6, <1>7, IntervalInduction
  <2>2. L \in 0 .. L
    BY <1>1
  <2> QED
    BY <2>1, <2>2
<1>9. upto(L) = 1 .. N
  BY <1>4
<1>10. Cardinality(1 .. N) = N
  BY <1>1, FS_Interval
<1> HIDE DEF upto
<1> QED
  BY <1>8, <1>9, <1>10 DEF L, N

(* A weekly list of a year: not empty, and no longer than the average.     *)
IsWeekly(t, lots, weeks, years, y) ==
  t # <<>> /\ Len(t) <= Ceil(year_lots(lots, years, y), weeks[y])

(* The weekly lists of a year cut its lots, as far as there are any.       *)
LEMMA YearTiles ==
  ASSUME NEW X, NEW lots \in Seq(X), NEW weeks \in Seq(Nat \ {0}), NEW years,
         NEW g, IsTotal(g, Len(weeks), CountsOf(lots, weeks, years)), NEW y \in 1 .. Len(weeks)
  PROVE  LET upto(k) == IF g[k] <= Len(lots) THEN g[k] ELSE Len(lots)
             lists == YearLists(lots, weeks, years, g, y)
         IN  /\ lists \in Seq(Seq(X))
             /\ Tiles(lists, lots, upto(y - 1), upto(y))
             /\ \A i \in 1 .. Len(lists) : IsWeekly(lists[i], lots, weeks, years, y)
<1> DEFINE L == Len(weeks)
           N == Len(lots)
           count == year_lots(lots, years, y)
           upto(k) == IF g[k] <= N THEN g[k] ELSE N
           lists == YearLists(lots, weeks, years, g, y)
           from == g[y - 1]
           to == from + count
           n == Ceil(count, weeks[y])
           slice == Slice(lots, from, to)
<1>1. L \in Nat /\ N \in Nat /\ y \in 1 .. L /\ weeks[y] \in Nat \ {0}
  OBVIOUS
<1>2. count \in Nat
  BY YearCounts
<1>3. g[y] = to /\ from \in Nat /\ to \in Nat
  <2>1. CountsOf(lots, weeks, years)[y] = count
    BY DEF CountsOf
  <2>2. g \in [0 .. L -> Nat] /\ \A k \in 1 .. L : g[k] = g[k - 1] + CountsOf(lots, weeks, years)[k]
    BY DEF IsTotal
  <2>3. y - 1 \in 0 .. L
    BY <1>1
  <2>4. from \in Nat
    BY <2>2, <2>3
  <2> HIDE DEF count
  <2>5. g[y] = from + count
    BY <1>1, <2>1, <2>2
  <2> QED
    BY <1>2, <2>4, <2>5
<1>4. lists = IF count = 0 THEN <<>> ELSE Chunks(slice, n)
  BY DEF YearLists
<1> HIDE DEF lists, count
<1> DEFINE a == upto(y - 1)
           b == upto(y)
<1>5. a \in Nat /\ b \in Nat /\ a <= b /\ b <= N /\ (count = 0 => a = b)
  BY <1>1, <1>2, <1>3
<1>6. slice \in Seq(X) /\ IsPart(slice, lots, a, b)
  <2>1. Min({to, N}) = b
    BY <1>1, <1>3 DEF Min
  <2>2. slice = SubSeq(lots, from + 1, b)
    BY <2>1 DEF Slice
  <2>3. CASE from <= N
    <3>1. a = from
      BY <2>3
    <3>2. b <= Len(lots)
      BY <1>5
    <3> HIDE DEF a, b, slice, from, N
    <3> QED
      BY <1>5, <2>2, <3>1, <3>2, PartTaken
  <2>4. CASE from > N
    <3>1. a = N /\ b = N /\ b <= from
      BY <1>1, <1>2, <1>3, <2>4
    <3> HIDE DEF a, b, slice, from, N
    <3>2. slice = <<>>
      BY <1>3, <1>5, <2>2, <3>1, NothingTaken
    <3>3. IsPart(<<>>, lots, a, b) /\ <<>> \in Seq(X)
      BY <1>5, <3>1, EmptyPart
    <3> QED
      BY <3>2, <3>3
  <2> QED
    BY <1>1, <1>3, <2>3, <2>4
<1> HIDE DEF slice, n
<1>7. lists \in Seq(Seq(X)) /\ Tiles(lists, lots, a, b)
      /\ \A i \in 1 .. Len(lists) : lists[i] # <<>> /\ Len(lists[i]) <= n
  <2> HIDE DEF a, b
  <2>1. CASE count = 0
    <3>1. lists = <<>> /\ a = b
      BY <1>4, <1>5, <2>1
    <3>2. Tiles(<<>>, lots, a, a) /\ <<>> \in Seq(Seq(X)) /\ Len(<<>>) = 0
      BY <1>5, NoTiles
    <3> QED
      BY <3>1, <3>2
  <2>2. CASE count # 0
    <3>1. count \in Nat \ {0}
      BY <1>2, <2>2
    <3>2. n \in Nat \ {0}
      BY <1>1, <3>1, CeilIsPositive DEF n
    <3>3. lists = Chunks(slice, n)
      BY <1>4, <2>2
    <3>4. Chunks(slice, n) \in Seq(Seq(X))
      BY <1>6, <3>2, ChunksAreLists
    <3>5. PICK t \in Seq(X) : t = slice
      BY <1>6
    <3>6. /\ Tiles(Chunks(t, n), lots, a, b)
          /\ \A i \in 1 .. Len(Chunks(t, n)) : Chunks(t, n)[i] # <<>> /\ Len(Chunks(t, n)[i]) <= n
      BY <1>5, <1>6, <3>2, <3>5, ChunksTile
    <3> QED
      BY <3>3, <3>4, <3>5, <3>6
  <2> QED
    BY <2>1, <2>2
<1>8. \A i \in 1 .. Len(lists) : IsWeekly(lists[i], lots, weeks, years, y)
  BY <1>7 DEF IsWeekly, n, count
<1> QED
  BY <1>7, <1>8 DEF lists

(* Lists that cut the lots from the first on, all of them if each is of a  *)
(* planned year; and weekly lists from a week on.                          *)
CutsLots(all, lots, weeks, years) ==
  \E c \in 0 .. Len(lots) :
    /\ Tiles(all, lots, 0, c)
    /\ (\A i \in 1 .. Len(lots) : \E y \in 1 .. Len(weeks) : y \in years[lots[i]]) => c = Len(lots)

WeeklyFrom(first, all, lots, weeks, years) ==
  \A k \in 1 .. Len(all) :
    IF k <= first THEN all[k] = <<>>
    ELSE \E y \in 1 .. Len(weeks) : IsWeekly(all[k], lots, weeks, years, y)

(* The allocation: weeks without lots, then weekly lists that cut the lots *)
(* from the first on, all of them if each is of a planned year.            *)
LEMMA AllocationTiles ==
  ASSUME NEW X, NEW lots \in Seq(X), NEW weeks \in Seq(Nat \ {0}), weeks # <<>>, NEW years,
         NEW pre_prod \in Nat, pre_prod <= weeks[1],
         NEW all, all = S_allocated(lots, weeks, years, pre_prod)
  PROVE  /\ all \in Seq(Seq(X)) /\ weeks[1] - pre_prod <= Len(all)
         /\ CutsLots(all, lots, weeks, years)
         /\ WeeklyFrom(weeks[1] - pre_prod, all, lots, weeks, years)
<1> DEFINE L == Len(weeks)
           N == Len(lots)
           m == weeks[1] - pre_prod
           before == [k \in 1 .. m |-> <<>>]
           A == Seq(X)
           B == Seq(A)
<1>1. L \in Nat /\ N \in Nat /\ m \in Nat /\ 1 \in 1 .. L
  OBVIOUS
<1>2. PICK g : /\ IsTotal(g, L, CountsOf(lots, weeks, years))
               /\ all = before \o Concat([y \in 1 .. L |-> YearLists(lots, weeks, years, g, y)])
  BY AllocationIs
<1> DEFINE upto(k) == IF g[k] <= N THEN g[k] ELSE N
           cut == [k \in 0 .. L |-> upto(k)]
           Year(y) == YearLists(lots, weeks, years, g, y)
           groups == [y \in 1 .. L |-> Year(y)]
<1>3. g \in [0 .. L -> Nat] /\ g[0] = 0
  BY <1>2 DEF IsTotal
<1>4. cut \in [0 .. L -> Nat] /\ cut[0] = 0 /\ \A k \in 0 .. L : cut[k] <= N
  <2>1. \A k \in 0 .. L : upto(k) \in Nat /\ upto(k) <= N
    BY <1>1, <1>3
  <2>2. upto(0) = 0 /\ 0 \in 0 .. L
    BY <1>1, <1>3
  <2> HIDE DEF upto
  <2> QED
    BY <2>1, <2>2
<1>5. ASSUME NEW y \in 1 .. L
      PROVE  /\ Year(y) \in B /\ Tiles(Year(y), lots, cut[y - 1], cut[y])
             /\ \A i \in 1 .. Len(Year(y)) : IsWeekly(Year(y)[i], lots, weeks, years, y)
  <2>1. cut[y - 1] = upto(y - 1) /\ cut[y] = upto(y)
    <3>1. y - 1 \in 0 .. L /\ y \in 0 .. L
      BY <1>1
    <3> HIDE DEF upto
    <3> QED
      BY <3>1
  <2> HIDE DEF cut
  <2> QED
    BY <1>2, <2>1, YearTiles
<1> HIDE DEF Year, cut, upto
<1>6. groups \in Seq(B) /\ Len(groups) = L /\ \A y \in 1 .. L : groups[y] = Year(y)
  <2> HIDE DEF B
  <2> QED
    BY <1>1, <1>5
<1> HIDE DEF groups
<1> DEFINE after == Concat(groups)
<1>7. all = before \o after
  BY <1>2 DEF groups, Year
<1>8. after \in B /\ \A x : Contains(after, x) <=> \E y \in 1 .. L : Contains(groups[y], x)
  <2> HIDE DEF A
  <2> QED
    BY <1>6, ConcatJoins DEF B
<1>9. Tiles(after, lots, 0, cut[L])
  <2> HIDE DEF A
  <2>1. PICK u \in Seq(B) : u = groups
    BY <1>6
  <2>2. PICK h : h = cut
    OBVIOUS
  <2>3. h \in [0 .. Len(u) -> Nat] /\ \A k \in 1 .. Len(u) : Tiles(u[k], lots, h[k - 1], h[k])
    BY <1>4, <1>5, <1>6, <2>1, <2>2
  <2>4. Tiles(Concat(u), lots, h[0], h[Len(u)])
    BY <2>1, <2>3, TilesChain DEF B
  <2> QED
    BY <1>4, <1>6, <2>1, <2>2, <2>4
<1>10. before \in B /\ Len(before) = m /\ (\A k \in 1 .. m : before[k] = <<>>) /\ Tiles(before, lots, 0, 0)
  <2>1. Tiles(before, lots, 0, 0)
    BY <1>1, EmptyTiles
  <2>2. <<>> \in A
    OBVIOUS
  <2> HIDE DEF A, m
  <2> QED
    BY <1>1, <2>1, <2>2
<1> HIDE DEF before, after, m
<1>11. all \in B /\ IsJoin(all, before, after) /\ Tiles(all, lots, 0, cut[L])
  <2> DEFINE b == cut[L]
  <2>1. PICK u \in B, v \in B : u = before /\ v = after
    BY <1>8, <1>10
  <2> HIDE DEF b
  <2>2. u \o v \in Seq(A) /\ IsJoin(u \o v, u, v)
    BY <2>1, Joined
  <2>3. Tiles(u \o v, lots, 0, b)
    <3> HIDE DEF A
    <3>1. Tiles(u, lots, 0, 0) /\ Tiles(v, lots, 0, b)
      BY <1>9, <1>10, <2>1 DEF b
    <3> QED
      BY <3>1, TilesMeet
  <2> QED
    BY <1>7, <2>1, <2>2, <2>3 DEF b
<1>12. Len(all) = m + Len(after) /\ (\A k \in 1 .. m : all[k] = <<>>)
       /\ \A k \in 1 .. Len(after) : all[m + k] = after[k]
  BY <1>10, <1>11 DEF IsJoin
<1>13. Len(after) \in Nat
  BY <1>8
<1>14. ASSUME NEW k \in 1 .. Len(all), k > m
       PROVE  \E y \in 1 .. L : IsWeekly(all[k], lots, weeks, years, y)
  <2> DEFINE j == k - m
  <2>1. j \in 1 .. Len(after) /\ m + j = k
    BY <1>1, <1>12, <1>13, <1>14
  <2> HIDE DEF j
  <2>2. Contains(after, all[k])
    BY <1>12, <2>1 DEF Contains
  <2>3. PICK y \in 1 .. L : Contains(Year(y), all[k])
    BY <1>6, <1>8, <2>2
  <2>4. PICK i \in 1 .. Len(Year(y)) : Year(y)[i] = all[k]
    BY <2>3 DEF Contains
  <2>5. IsWeekly(Year(y)[i], lots, weeks, years, y)
    BY <1>5
  <2> QED
    BY <2>4, <2>5
<1>15. cut[L] \in 0 .. N
  <2>1. L \in 0 .. L
    BY <1>1
  <2> QED
    BY <1>1, <1>4, <2>1
<1>16. (\A i \in 1 .. N : \E y \in 1 .. L : y \in years[lots[i]]) => cut[L] = N
  <2> SUFFICES ASSUME \A i \in 1 .. N : \E y \in 1 .. L : y \in years[lots[i]] PROVE cut[L] = N
    OBVIOUS
  <2>1. N <= g[L]
    BY <1>2, YearsCoverLots
  <2>2. L \in 0 .. L /\ g[L] \in Nat
    BY <1>1, <1>3
  <2> QED
    BY <1>1, <2>1, <2>2 DEF cut, upto
<1>17. WeeklyFrom(m, all, lots, weeks, years)
  BY <1>1, <1>12, <1>14 DEF WeeklyFrom
<1>18. m <= Len(all)
  BY <1>1, <1>12, <1>13
<1>19. CutsLots(all, lots, weeks, years)
  BY <1>11, <1>15, <1>16 DEF CutsLots
<1> QED
  BY <1>11, <1>17, <1>18, <1>19 DEF m

-----------------------------------------------------------------------------
(* What the leveled yard ships, against the lots requested of it.          *)
ShipsInOrder(psi, lots) == IsPrefix(Flat(psi, "S"), lots)

ShipsAllThatFit(psi, lots) == Flat(psi, "S") # lots => psi[Weeks(psi) - 1].S # <<>>

ShipsAtRate(psi, lots, weeks, years, first) ==
  \A w \in DOMAIN psi :
    psi[w].S # <<>> =>
      w >= first /\ \E y \in 1 .. Len(weeks) : Len(psi[w].S) <= Ceil(year_lots(lots, years, y), weeks[y])

SameShipments(a, b, len) == \A w \in 0 .. len - 1 : a[w].S = b[w].S

(* They say nothing but of the shipments.                                  *)
LEMMA ShipsTheSame ==
  ASSUME NEW len \in Nat \ {0}, NEW X, NEW a \in Space(len, X), NEW b \in Space(len, X),
         SameShipments(a, b, len), NEW lots, NEW weeks, NEW years, NEW first
  PROVE  /\ Flat(a, "S") = Flat(b, "S")
         /\ ShipsInOrder(b, lots) => ShipsInOrder(a, lots)
         /\ ShipsAllThatFit(b, lots) => ShipsAllThatFit(a, lots)
         /\ ShipsAtRate(b, lots, weeks, years, first) => ShipsAtRate(a, lots, weeks, years, first)
<1>1. DOMAIN a = 0 .. len - 1 /\ Weeks(a) = len /\ DOMAIN b = 0 .. len - 1 /\ Weeks(b) = len
  BY SpaceParts
<1>2. \A w \in 0 .. len - 1 : a[w].S = b[w].S
  BY DEF SameShipments
<1>3. Flat(a, "S") = Flat(b, "S")
  <2>1. \A k \in 1 .. len : a[k - 1]["S"] = b[k - 1]["S"]
    <3> SUFFICES ASSUME NEW k \in 1 .. len PROVE a[k - 1]["S"] = b[k - 1]["S"]
      OBVIOUS
    <3>1. k - 1 \in 0 .. len - 1
      OBVIOUS
    <3> QED
      BY <1>2, <3>1
  <2>2. [k \in 1 .. len |-> a[k - 1]["S"]] = [k \in 1 .. len |-> b[k - 1]["S"]]
    BY <2>1
  <2> QED
    BY <1>1, <2>2 DEF Flat
<1>4. len - 1 \in 0 .. len - 1
  OBVIOUS
<1>5. ShipsInOrder(b, lots) => ShipsInOrder(a, lots)
  BY <1>3 DEF ShipsInOrder
<1>6. ShipsAllThatFit(b, lots) => ShipsAllThatFit(a, lots)
  <2>1. a[len - 1].S = b[len - 1].S
    BY <1>2, <1>4
  <2> QED
    BY <1>1, <1>3, <2>1 DEF ShipsAllThatFit
<1>7. ShipsAtRate(b, lots, weeks, years, first) => ShipsAtRate(a, lots, weeks, years, first)
  BY <1>1, <1>2 DEF ShipsAtRate
<1> QED
  BY <1>3, <1>5, <1>6, <1>7

(* Leveling ships the lots requested in their order, a year's average a    *)
(* week; some stay behind only if the plan is full to its last week.       *)
LEMMA YardIsLeveled ==
  ASSUME NEW len \in Nat \ {0}, NEW X, NEW demand \in Space(len, X), NEW supply \in Space(len, X),
         NEW weeks \in Seq(Nat \ {0}), weeks # <<>>, NEW years,
         NEW pre_prod \in Nat, pre_prod <= weeks[1], weeks[1] - pre_prod < len,
         NEW lots, lots = Flat(demand, "S"),
         \A i \in 1 .. Len(lots) : \E y \in 1 .. Len(weeks) : y \in years[lots[i]],
         NEW new, new = demand_leveling_on_ship(demand, supply, weeks, years, pre_prod)
  PROVE  /\ new \in Space(len, X)
         /\ ShipsInOrder(new, lots) /\ ShipsAllThatFit(new, lots)
         /\ ShipsAtRate(new, lots, weeks, years, weeks[1] - pre_prod)
<1> DEFINE first == weeks[1] - pre_prod
           A == Seq(X)
<1>1. lots \in A
  BY FlatLists
<1>2. PICK all : all = S_allocated(lots, weeks, years, pre_prod)
  OBVIOUS
<1>3. /\ all \in Seq(A) /\ first <= Len(all) /\ CutsLots(all, lots, weeks, years)
      /\ WeeklyFrom(first, all, lots, weeks, years)
  BY <1>1, <1>2, AllocationTiles
<1>4. first \in Nat /\ first < len /\ Len(all) \in Nat /\ Len(lots) \in Nat
  BY <1>1, <1>3
<1>5. new \in Space(len, X)
  BY LeveledLists
<1>6. new = [w \in DOMAIN supply |->
               [supply[w] EXCEPT !.S = IF w < Len(all) THEN all[w + 1] ELSE <<>>]]
  BY <1>2, Zenon DEF demand_leveling_on_ship, With
<1>7. DOMAIN supply = 0 .. len - 1 /\ DOMAIN new = 0 .. len - 1 /\ Weeks(new) = len
  BY <1>5, SpaceParts
<1> HIDE DEF first, A
<1>8. \A w \in 0 .. len - 1 : new[w].S = IF w < Len(all) THEN all[w + 1] ELSE <<>>
  <2> SUFFICES ASSUME NEW w \in 0 .. len - 1
               PROVE  new[w].S = IF w < Len(all) THEN all[w + 1] ELSE <<>>
    OBVIOUS
  <2>1. supply[w] = [S |-> supply[w].S, I |-> supply[w].I, P |-> supply[w].P]
    BY SpaceParts
  <2> DEFINE list == IF w < Len(all) THEN all[w + 1] ELSE <<>>
  <2>2. new[w] = [supply[w] EXCEPT !.S = list]
    BY <1>6, <1>7
  <2> HIDE DEF list
  <2>3. new[w].S = list
    BY <2>1, <2>2
  <2> QED
    BY <2>3 DEF list
<1> DEFINE weekly == [k \in 1 .. len |-> new[k - 1]["S"]]
<1>9. weekly \in Seq(A) /\ Len(weekly) = len
      /\ \A k \in 1 .. len : weekly[k] = IF k <= Len(all) THEN all[k] ELSE <<>>
  <2> DEFINE week(k) == new[k - 1]["S"]
  <2>1. \A k \in 1 .. len : week(k) \in A /\ week(k) = IF k <= Len(all) THEN all[k] ELSE <<>>
    <3> SUFFICES ASSUME NEW k \in 1 .. len
                 PROVE  week(k) \in A /\ week(k) = IF k <= Len(all) THEN all[k] ELSE <<>>
      OBVIOUS
    <3>1. k - 1 \in 0 .. len - 1 /\ k - 1 + 1 = k
      OBVIOUS
    <3>2. new[k - 1].S \in A
      BY <1>5, <3>1, SpaceParts DEF A
    <3> QED
      BY <1>4, <1>8, <3>1, <3>2
  <2>2. weekly = [k \in 1 .. len |-> week(k)]
    OBVIOUS
  <2> HIDE DEF week, weekly
  <2>3. weekly \in Seq(A) /\ Len(weekly) = len
    BY <2>1, <2>2
  <2> QED
    BY <2>1, <2>2, <2>3
<1>10. Flat(new, "S") = Concat(weekly)
  BY <1>7 DEF Flat
<1> HIDE DEF weekly
<1>11. PICK b \in 0 .. Len(lots) :
         /\ Tiles(all, lots, 0, b)
         /\ (\A i \in 1 .. Len(lots) : \E y \in 1 .. Len(weeks) : y \in years[lots[i]]) => b = Len(lots)
  BY <1>3 DEF CutsLots
<1>12. b = Len(lots)
  BY <1>11
<1>13. PICK c \in Nat : c <= b /\ Tiles(weekly, lots, 0, c) /\ (Len(all) <= len => c = b)
  <2>1. PICK u \in Seq(A), v \in Seq(A) : u = all /\ v = weekly
    BY <1>3, <1>9
  <2>2. u \in Seq(Seq(X)) /\ v \in Seq(Seq(X))
    BY DEF A
  <2>3. Tiles(u, lots, 0, b) /\ AreFirst(v, u, len)
    BY <1>9, <1>11, <2>1 DEF AreFirst
  <2>4. \E c \in Nat : c <= b /\ Tiles(v, lots, 0, c) /\ (Len(u) <= len => c = b)
    BY <2>2, <2>3, FirstTiles
  <2> QED
    BY <2>1, <2>4
<1>14. Flat(new, "S") \in Seq(X) /\ IsPart(Flat(new, "S"), lots, 0, c)
  BY <1>9, <1>10, <1>13, TilesJoin DEF A
<1>15. c \in 0 .. Len(lots)
  BY <1>4, <1>12, <1>13
<1>16. IsPrefix(Flat(new, "S"), lots) /\ (c = Len(lots) => Flat(new, "S") = lots)
  BY <1>1, <1>14, <1>15, WholePart DEF A
<1>17. ASSUME NEW k \in 1 .. Len(all), k > first
       PROVE  \E y \in 1 .. Len(weeks) : IsWeekly(all[k], lots, weeks, years, y)
  <2>1. ~(k <= first)
    BY <1>4, <1>17
  <2> QED
    BY <1>3, <2>1 DEF WeeklyFrom
<1>18. ShipsAllThatFit(new, lots)
  <2> SUFFICES ASSUME Flat(new, "S") # lots PROVE new[len - 1].S # <<>>
    BY <1>7 DEF ShipsAllThatFit
  <2>1. ~(Len(all) <= len)
    BY <1>12, <1>13, <1>16
  <2>2. len \in 1 .. Len(all) /\ len > first /\ len - 1 \in 0 .. len - 1 /\ len - 1 + 1 = len /\ len - 1 < Len(all)
    BY <1>4, <2>1
  <2>3. all[len] # <<>>
    BY <1>17, <2>2 DEF IsWeekly
  <2> QED
    BY <1>8, <2>2, <2>3
<1>19. ShipsAtRate(new, lots, weeks, years, first)
  <2> SUFFICES ASSUME NEW w \in 0 .. len - 1, new[w].S # <<>>
               PROVE  w >= first /\ \E y \in 1 .. Len(weeks) :
                                      Len(new[w].S) <= Ceil(year_lots(lots, years, y), weeks[y])
    BY <1>7 DEF ShipsAtRate
  <2>1. w < Len(all) /\ new[w].S = all[w + 1]
    BY <1>8
  <2>2. w + 1 \in 1 .. Len(all)
    BY <1>4, <2>1
  <2>3. all[w + 1] # <<>>
    BY <2>1
  <2>4. ~(w + 1 <= first)
    BY <1>3, <2>2, <2>3 DEF WeeklyFrom
  <2>5. w >= first /\ w + 1 > first
    BY <1>4, <2>4
  <2> DEFINE k == w + 1
  <2>6. PICK y \in 1 .. Len(weeks) : IsWeekly(all[k], lots, weeks, years, y)
    <3>1. k \in 1 .. Len(all) /\ k > first
      BY <2>2, <2>5
    <3> HIDE DEF k
    <3> QED
      BY <1>17, <3>1
  <2> QED
    BY <2>1, <2>5, <2>6 DEF IsWeekly
<1> QED
  BY <1>5, <1>16, <1>18, <1>19 DEF ShipsInOrder, first

-----------------------------------------------------------------------------
(* What a node ships, passed down to its children.                         *)

(* A list that reads, member by member, what f says of another's.          *)
ReadsAs(t, s, f) == Len(t) = Len(s) /\ \A i \in 1 .. Len(s) : t[i] = f[s[i]]

(* So do lists one after the other if each of them does.                   *)
LEMMA ConcatReads ==
  ASSUME NEW X, NEW Y, NEW f, NEW lists \in Seq(Seq(X)), NEW others \in Seq(Seq(Y)),
         Len(others) = Len(lists),
         \A k \in 1 .. Len(lists) : ReadsAs(others[k], lists[k], f)
  PROVE  ReadsAs(Concat(others), Concat(lists), f)
<1> DEFINE n == Len(lists)
<1>1. n \in Nat /\ Len(others) = n
      /\ \A k \in 1 .. n : lists[k] \in Seq(X) /\ others[k] \in Seq(Y) /\ ReadsAs(others[k], lists[k], f)
  OBVIOUS
<1>2. PICK joined : IsJoined(joined, lists) /\ Concat(lists) = joined[n]
  BY ConcatRuns
<1>3. PICK read : IsJoined(read, others) /\ Concat(others) = read[n]
  BY <1>1, ConcatRuns
<1>4. /\ joined[0] = <<>> /\ \A k \in 1 .. n : joined[k] = joined[k - 1] \o lists[k]
      /\ read[0] = <<>> /\ \A k \in 1 .. n : read[k] = read[k - 1] \o others[k]
  BY <1>1, <1>2, <1>3 DEF IsJoined
<1> HIDE DEF n
<1> DEFINE Good == {m \in 0 .. n : /\ joined[m] \in Seq(X) /\ read[m] \in Seq(Y)
                                   /\ ReadsAs(read[m], joined[m], f)}
<1>5. 0 \in Good
  <2>1. ReadsAs(<<>>, <<>>, f) /\ 0 \in 0 .. n
    BY <1>1 DEF ReadsAs
  <2>2. joined[0] \in Seq(X) /\ read[0] \in Seq(Y)
    BY <1>4
  <2> QED
    BY <1>4, <2>1, <2>2
<1>6. ASSUME NEW m \in 1 .. n, m - 1 \in Good PROVE m \in Good
  <2>1. PICK u \in Seq(X), v \in Seq(X) : u = joined[m - 1] /\ v = lists[m]
    BY <1>1, <1>6
  <2>2. PICK r \in Seq(Y), t \in Seq(Y) : r = read[m - 1] /\ t = others[m]
    BY <1>1, <1>6
  <2>3. ReadsAs(r, u, f) /\ ReadsAs(t, v, f)
    BY <1>1, <1>6, <2>1, <2>2
  <2>4. ReadsAs(r \o t, u \o v, f)
    <3>1. Len(r \o t) = Len(u \o v) /\ Len(u \o v) = Len(u) + Len(v)
      <4>1. Len(r) = Len(u) /\ Len(t) = Len(v)
        BY <2>3 DEF ReadsAs
      <4>2. Len(r \o t) = Len(r) + Len(t) /\ Len(u \o v) = Len(u) + Len(v)
        BY <2>1, <2>2
      <4> QED
        BY <4>1, <4>2
    <3>2. ASSUME NEW i \in 1 .. Len(u) + Len(v) PROVE (r \o t)[i] = f[(u \o v)[i]]
      <4>1. CASE i <= Len(u)
        <5>1. i \in 1 .. Len(u) /\ i \in 1 .. Len(r)
          BY <2>3, <3>2, <4>1 DEF ReadsAs
        <5>2. (r \o t)[i] = r[i] /\ (u \o v)[i] = u[i]
          BY <5>1
        <5> QED
          BY <2>3, <5>1, <5>2 DEF ReadsAs
      <4>2. CASE i > Len(u)
        <5>1. i - Len(u) \in 1 .. Len(v)
          BY <3>2, <4>2
        <5>2. (r \o t)[i] = t[i - Len(u)] /\ (u \o v)[i] = v[i - Len(u)]
          <6>1. Len(r) = Len(u) /\ Len(t) = Len(v)
            BY <2>3 DEF ReadsAs
          <6>2. i \in 1 .. Len(r) + Len(t) /\ i > Len(r)
            BY <3>2, <4>2, <6>1
          <6>3. (r \o t)[i] = t[i - Len(r)] /\ (u \o v)[i] = v[i - Len(u)]
            BY <3>2, <4>2, <6>2
          <6> QED
            BY <6>1, <6>3
        <5> QED
          BY <2>3, <5>1, <5>2 DEF ReadsAs
      <4>3. i <= Len(u) \/ i > Len(u)
        BY <3>2
      <4> QED
        BY <4>1, <4>2, <4>3, Zenon
    <3> QED
      BY <3>1, <3>2 DEF ReadsAs
  <2>5. joined[m] = u \o v /\ read[m] = r \o t
    BY <1>4, <2>1, <2>2
  <2>6. joined[m] \in Seq(X) /\ read[m] \in Seq(Y)
    BY <2>5
  <2>7. m \in 0 .. n
    OBVIOUS
  <2> QED
    BY <2>4, <2>5, <2>6, <2>7
<1>7. n \in Good
  <2>1. n \in Nat /\ n \in 0 .. n
    BY <1>1
  <2> HIDE DEF Good
  <2> QED
    BY <1>5, <1>6, <2>1, IntervalInduction
<1> HIDE DEF Good
<1> QED
  BY <1>2, <1>3, <1>7 DEF Good

(* The week at work at or after a week is not before it, and not closed.   *)
LEMMA WeekAtWorkFrom ==
  ASSUME NEW vacation \in SUBSET Nat, IsFiniteSet(vacation), NEW week \in Nat
  PROVE  /\ check_lv_week_fw(vacation, week) \in Nat
         /\ check_lv_week_fw(vacation, week) >= week
         /\ check_lv_week_fw(vacation, week) \notin vacation
<1> DEFINE n == Cardinality(vacation)
           open == {w \in week .. week + n : w \notin vacation}
<1>1. n \in Nat
  BY FS_CardinalityType
<1> HIDE DEF n
<1>2. open # {}
  <2> SUFFICES ASSUME open = {} PROVE FALSE
    OBVIOUS
  <2> DEFINE all == week .. week + n
  <2>1. all \in SUBSET vacation
    OBVIOUS
  <2>2. Cardinality(all) = n + 1
    <3>1. week \in Int /\ week + n \in Int /\ week <= week + n /\ week + n - week + 1 = n + 1
      BY <1>1
    <3> HIDE DEF n
    <3>2. PICK a \in Int, b \in Int : a = week /\ b = week + n
      BY <3>1
    <3>3. Cardinality(a .. b) = IF a > b THEN 0 ELSE b - a + 1
      BY FS_Interval
    <3>4. all = a .. b
      BY <3>2
    <3>5. ~(a > b) /\ b - a + 1 = n + 1
      BY <1>1, <3>1, <3>2
    <3> HIDE DEF all
    <3> QED
      BY <3>3, <3>4, <3>5
  <2> HIDE DEF all
  <2>3. Cardinality(all) <= n
    BY <2>1, SubsetOfFinite DEF n
  <2> QED
    BY <1>1, <2>2, <2>3
<1>3. open \in SUBSET Nat /\ \A w \in open : w >= week /\ w \notin vacation
  BY <1>1
<1> DEFINE min == CHOOSE x \in open : \A y \in open : x <= y
<1>4. check_lv_week_fw(vacation, week) = min
  BY Zenon DEF check_lv_week_fw, Min, n
<1> HIDE DEF open
<1>5. \E x \in open : \A y \in open : x <= y
  BY <1>2, <1>3, LeastMember
<1>6. min \in open
  BY <1>5
<1> QED
  BY <1>3, <1>4, <1>6

(* A lot is among all lots of a bucket if it is there in a week.           *)
LEMMA FlatHas ==
  ASSUME NEW len \in Nat \ {0}, NEW X, NEW psi \in Space(len, X), NEW x
  PROVE  Contains(Flat(psi, "S"), x) <=> \E w \in 0 .. len - 1 : Contains(psi[w].S, x)
<1> DEFINE lists == [k \in 1 .. len |-> psi[k - 1].S]
           A == Seq(X)
<1>1. Weeks(psi) = len /\ \A w \in 0 .. len - 1 : psi[w].S \in A
  BY SpaceParts
<1>2. Flat(psi, "S") = Concat(lists)
  BY <1>1 DEF Flat
<1>3. \A k \in 1 .. len : k - 1 \in 0 .. len - 1 /\ psi[k - 1].S \in A
  BY <1>1
<1> HIDE DEF A
<1>4. lists \in Seq(A) /\ Len(lists) = len /\ \A k \in 1 .. len : lists[k] = psi[k - 1].S
  BY <1>3
<1> HIDE DEF lists
<1>5. Contains(Flat(psi, "S"), x) <=> \E k \in 1 .. len : Contains(psi[k - 1].S, x)
  BY <1>2, <1>4, ConcatJoins DEF A
<1>6. ASSUME NEW w \in 0 .. len - 1, Contains(psi[w].S, x)
      PROVE  \E k \in 1 .. len : Contains(psi[k - 1].S, x)
  <2>1. w + 1 \in 1 .. len /\ (w + 1) - 1 = w
    OBVIOUS
  <2>2. PICK k \in 1 .. len : k - 1 = w
    BY <2>1
  <2> QED
    BY <1>6, <2>2
<1> QED
  BY <1>3, <1>5, <1>6

(* Lots each in one week only of a bucket, once there, are listed once.    *)
LEMMA FlatOnce ==
  ASSUME NEW len \in Nat \ {0}, NEW X, NEW psi \in Space(len, X),
         \A w \in 0 .. len - 1 : Distinct(psi[w].S),
         \A v, w \in 0 .. len - 1 : \A x \in X :
           Contains(psi[v].S, x) /\ Contains(psi[w].S, x) => v = w
  PROVE  Distinct(Flat(psi, "S"))
<1>1. \A w \in 0 .. len - 1 : psi[w].S \in Seq(X)
  BY SpaceParts
<1>2. ASSUME NEW x \in X PROVE Occ(Flat(psi, "S"), x) <= 1
  <2> DEFINE at == CHOOSE w \in 0 .. len - 1 : Contains(psi[w].S, x)
  <2>1. ASSUME NEW w \in 0 .. len - 1, w # at PROVE Occ(psi[w].S, x) = 0
    <3>1. ~Contains(psi[w].S, x)
      BY <2>1
    <3> QED
      BY <1>1, <3>1, CountsAre
  <2>2. PICK v, bucket : v = at /\ bucket = "S"
    OBVIOUS
  <2>3. OnlyIn(len, psi, bucket, x, v)
    BY <2>1, <2>2 DEF OnlyIn
  <2>4. Occ(Flat(psi, bucket), x) = CountIn(len, psi, bucket, x, v)
    BY <2>2, <2>3, FlatCounts
  <2>5. v \in 0 .. len - 1 => Occ(psi[v].S, x) <= 1
    <3>1. v \in 0 .. len - 1 => Occ(psi[v].S, x) \in {0, 1}
      BY <1>1, DistinctCounts
    <3> QED
      BY <3>1
  <2> HIDE DEF at
  <2> QED
    BY <2>2, <2>4, <2>5 DEF CountIn
<1>3. Flat(psi, "S") \in Seq(X)
  BY FlatLists
<1> QED
  BY <1>2, <1>3, CountedOnce

(* The first members of a list without repeats.                            *)
LEMMA PrefixKeeps ==
  ASSUME NEW X, NEW s \in Seq(X), NEW t \in Seq(X), IsPrefix(s, t)
  PROVE  /\ Distinct(t) => Distinct(s)
         /\ \A x : Contains(s, x) => Contains(t, x)
<1>1. Len(s) <= Len(t) /\ Len(s) \in Nat /\ Len(t) \in Nat /\ SubSeq(s, 1, Len(s)) = SubSeq(t, 1, Len(s))
  BY DEF IsPrefix
<1>2. \A i \in 1 .. Len(s) : i \in 1 .. Len(t) /\ s[i] = t[i]
  <2> SUFFICES ASSUME NEW i \in 1 .. Len(s) PROVE i \in 1 .. Len(t) /\ s[i] = t[i]
    OBVIOUS
  <2>1. SubSeq(s, 1, Len(s))[i] = s[i] /\ SubSeq(t, 1, Len(s))[i] = t[i]
    BY <1>1
  <2> QED
    BY <1>1, <2>1
<1>3. Distinct(t) => Distinct(s)
  BY <1>2 DEF Distinct
<1>4. \A x : Contains(s, x) => Contains(t, x)
  BY <1>2 DEF Contains
<1> QED
  BY <1>3, <1>4

(* Who picks the whole list picks every place of it.                       *)
LEMMA PickedAll ==
  ASSUME NEW X, NEW list \in Seq(X), NEW places \in SUBSET (1 .. Len(list)),
         Picked(list, places) = list
  PROVE  places = 1 .. Len(list)
<1> DEFINE S == 1 .. Len(list)
           order == Ascending(places)
<1>1. IsPicked(list, list, places, order)
  BY PickedInOrder
<1> HIDE DEF order
<1>2. Cardinality(places) = Len(list)
  BY <1>1 DEF IsPicked
<1>3. Len(list) \in Nat
  OBVIOUS
<1>4. IsFiniteSet(S) /\ Cardinality(S) = Len(list)
  <2>1. PICK b \in Int, a \in Int : b = Len(list) /\ a = 1
    BY <1>3
  <2>2. IsFiniteSet(a .. b) /\ Cardinality(a .. b) = IF a > b THEN 0 ELSE b - a + 1
    BY FS_Interval
  <2>3. (IF a > b THEN 0 ELSE b - a + 1) = Len(list)
    BY <1>3, <2>1
  <2>4. S = a .. b
    BY <2>1
  <2> HIDE DEF S
  <2> QED
    BY <2>2, <2>3, <2>4
<1> HIDE DEF S
<1>5. places \in SUBSET S
  BY DEF S
<1>6. places = S
  BY <1>2, <1>4, <1>5, FS_Subset
<1> QED
  BY <1>6 DEF S

=============================================================================
