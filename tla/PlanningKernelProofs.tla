------------------------ MODULE PlanningKernelProofs ------------------------
(***************************************************************************)
(* Proofs about PlanningKernel for every set of inputs.                    *)
(***************************************************************************)
EXTENDS PlanningKernel, OperatorLemmas

(* A sequence of whatever elements it has.                                 *)
IsSeq(s) == s \in Seq(Range(s))

Below(log, n) == \A e \in log : e.creation_sequence < n

LogUpTo(log, n) == {e \in log : e.creation_sequence < n}

(* The new events of a log lie in weeks and arrive after the lead time.    *)
OnTime(log, initial, lead_time) ==
  \A e, f \in log \ initial :
    /\ IsWeek(e.time_bucket)
    /\ e.creation_sequence = f.creation_sequence + 1 /\ e.event_type = "arrival"
         => WeekIndex(e.time_bucket) = WeekIndex(f.time_bucket) + Max({lead_time, 0})

(* The log from which the i-th state of the history was derived.           *)
LogAt(i) == LogUpTo(flow_events, next_seq + 3 * (i - 1))

Seen(log, in) ==
  LET state == run_flow(log, in.demands)
  IN  [state |-> state,
       trust_events |-> detect_trust_events(state, in.capacity_limit),
       evaluation |-> evaluate_state(state)]

Network(in) == infer_network(in.lots, in.production_nodes, in.upstream)

(* The i-th operator is the first candidate of the i-th iteration, and     *)
(* applying it gave the log of the next.                                   *)
Answered(i) ==
  LET candidates == generate_candidates(history[i].trust_events, Network(input))
  IN  /\ candidates # <<>>
      /\ LogAt(i + 1) = apply_operator(LogAt(i), candidates[1], input.lead_time)

(* The history tells how the log grew.                                     *)
HistoryTold ==
  /\ LogAt(Len(selected_operators) + 1) = flow_events
  /\ \A i \in 1 .. Len(history) : history[i] = Seen(LogAt(i), input)
  /\ \A i \in 1 .. Len(selected_operators) : Answered(i)

NothingLost ==
  input.initial = {} =>
    \A i \in 1 .. Len(selected_operators) + 1 : NoNetLoss(LogAt(i))

(* What is shipped arrives, if it does so in the opening log.              *)
AllArrive == ShipmentsArrive(input.initial) => ShipmentsArrive(flow_events)

(* The inductive invariant.                                                *)
IInv ==
  /\ input \in Inputs
  /\ phase \in {"loading", "planning", "returned", "raised"}
  /\ pending \subseteq input.lots
  /\ next_seq \in Nat
  /\ IsLog(flow_events)
  /\ EventOrderTotal
  /\ IsSeq(history)
  /\ IsSeq(selected_operators)
  /\ Len(history) - Len(selected_operators) \in {0, 1}
  /\ phase = "loading" => Len(history) = 0
  /\ phase \in {"loading", "planning"} => Len(history) = Len(selected_operators)
  /\ next_sequence(flow_events) = next_seq + 3 * Len(selected_operators)
  /\ HistoryTold
  /\ NothingLost
  /\ OnTime(flow_events, input.initial, input.lead_time)
  /\ AllArrive

-----------------------------------------------------------------------------

LEMMA AppendIsSeq ==
  ASSUME NEW s, NEW x, IsSeq(s)
  PROVE  /\ IsSeq(Append(s, x)) /\ Len(s) \in Nat /\ Len(Append(s, x)) = Len(s) + 1
         /\ Append(s, x)[Len(s) + 1] = x
         /\ \A i \in 1 .. Len(s) : Append(s, x)[i] = s[i]
<1> DEFINE S == Range(s) \cup {x}
           t == Append(s, x)
<1>1. s \in Seq(S)
  BY DEF IsSeq
<1>2. /\ t \in Seq(S) /\ Len(t) = Len(s) + 1 /\ Len(t) \in Nat /\ Len(s) \in Nat
      /\ t[Len(s) + 1] = x /\ \A i \in 1 .. Len(s) : t[i] = s[i]
  BY <1>1
<1> HIDE DEF t
<1>3. t \in [1 .. Len(t) -> S] /\ DOMAIN t = 1 .. Len(t)
  BY <1>2, LenProperties
<1>4. t \in [1 .. Len(t) -> Range(t)]
  BY <1>3 DEF Range
<1>5. t \in Seq(Range(t))
  BY <1>2, <1>4, SeqDef
<1> QED
  BY <1>2, <1>5 DEF IsSeq, t

LEMMA LatestExists ==
  ASSUME NEW log, IsLog(log), log # {}
  PROVE  \E e \in log : \A f \in log : f.creation_sequence <= e.creation_sequence
<1> DEFINE N == {e.creation_sequence : e \in log}
           h == [e \in log |-> e.creation_sequence]
           key == [n \in N |-> <<- n>>]
<1>1. \A e \in log : e.creation_sequence \in Nat
  BY DEF IsLog, IsFlowEvent
<1>2. IsFiniteSet(log) /\ h \in Surjection(log, N)
  BY DEF IsLog, Surjection
<1>3. N \subseteq Nat /\ N # {} /\ \A n \in N : \E e \in log : e.creation_sequence = n
  BY <1>1
<1>3a. \A e \in log : e.creation_sequence \in N
  OBVIOUS
<1> HIDE DEF h, N
<1>4. IsFiniteSet(N)
  BY <1>2, FS_Surjection
<1>5. \A n \in N : <<- n>> \in Tuples(1)
  BY <1>3 DEF Tuples
<1>6. KeyOf(key, 1) /\ DOMAIN key = N
  BY <1>3, <1>4, <1>5 DEF KeyOf
<1>7. \A n \in N : key[n] = <<- n>>
  OBVIOUS
<1> HIDE DEF key
<1>8. PICK n \in N : \A m \in N \ {n} : Lex(key[n], key[m])
  BY <1>3, <1>6, FirstKey
<1>9. \A m \in N : m <= n
  <2> SUFFICES ASSUME NEW m \in N \ {n} PROVE m <= n
    BY <1>3
  <2>1. Lex(<<- n>>, <<- m>>)
    BY <1>7, <1>8
  <2>2. - n < - m
    BY <2>1 DEF Lex
  <2> QED
    BY <1>3, <2>2
<1> QED
  BY <1>3, <1>3a, <1>9

(* The number the next event gets is above every number in the log, and    *)
(* next to the latest.                                                     *)
LEMMA NextSequenceIs ==
  ASSUME NEW log, IsLog(log)
  PROVE  /\ next_sequence(log) \in Nat
         /\ Below(log, next_sequence(log))
         /\ \A e \in log : (\A f \in log : f.creation_sequence <= e.creation_sequence)
                             => next_sequence(log) = e.creation_sequence + 1
<1>1. CASE log = {}
  BY <1>1 DEF next_sequence, Below
<1>2. CASE log # {}
  <2> DEFINE N == {e.creation_sequence : e \in log}
  <2>1. \A e \in log : e.creation_sequence \in N /\ e.creation_sequence \in Nat
    BY DEF IsLog, IsFlowEvent
  <2>2. \E m \in N : \A n \in N : m >= n
    <3>1. PICK e \in log : \A f \in log : f.creation_sequence <= e.creation_sequence
      BY <1>2, LatestExists
    <3> QED
      BY <3>1, <2>1
  <2>3. Max(N) \in N /\ \A n \in N : Max(N) >= n
    BY <2>2 DEF Max
  <2>4. next_sequence(log) = Max(N) + 1
    BY <1>2 DEF next_sequence
  <2>5. \A n \in N : n \in Nat
    BY <2>1
  <2>6. \A n \in N : \E e \in log : e.creation_sequence = n
    OBVIOUS
  <2> HIDE DEF N
  <2>7. Max(N) \in Nat
    BY <2>3, <2>5
  <2>8. \A e \in log : e.creation_sequence < Max(N) + 1
    BY <2>1, <2>3, <2>7
  <2>9. ASSUME NEW e \in log, \A f \in log : f.creation_sequence <= e.creation_sequence
        PROVE  Max(N) = e.creation_sequence
    <3>1. e.creation_sequence \in Nat /\ Max(N) >= e.creation_sequence
      BY <2>1, <2>3
    <3>2. PICK f \in log : f.creation_sequence = Max(N)
      BY <2>3, <2>6
    <3>3. Max(N) <= e.creation_sequence
      BY <2>9, <3>2
    <3> QED
      BY <2>7, <3>1, <3>3
  <2> QED
    BY <2>4, <2>7, <2>8, <2>9 DEF Below
<1> QED
  BY <1>1, <1>2

(* The log new is the log old with the three events of a chain, numbered   *)
(* from seq.                                                               *)
Grown(new, old, seq) ==
  /\ IsLog(new)
  /\ SequenceUnique(old) => SequenceUnique(new)
  /\ next_sequence(new) = seq + 3
  /\ LogUpTo(new, seq + 3) = new
  /\ \A n \in Int : n <= seq => LogUpTo(new, n) = LogUpTo(old, n)
  /\ NoNetLoss(old) => NoNetLoss(new)

LEMMA ChainGrows ==
  ASSUME NEW id, NEW product \in Nat, NEW source \in Nat, NEW dest \in Nat,
         NEW t \in Nat, NEW lead \in Int, NEW quantity \in Nat, NEW seq \in Nat,
         NEW log, IsLog(log), seq = next_sequence(log)
  PROVE  Grown(log \cup Chain(id, product, source, dest, t, lead, quantity, seq), log, seq)
<1> DEFINE C == Chain(id, product, source, dest, t, lead, quantity, seq)
           new == log \cup C
<1>1. PICK a, b, c : IsChain(C, a, b, c, product, source, dest, t, lead, quantity, seq)
  BY ChainIs
<1>2. \A e \in log : e.creation_sequence < seq /\ e.creation_sequence \in Nat
  BY NextSequenceIs DEF Below, IsLog, IsFlowEvent
<1>3. IsLog(new) /\ (NoNetLoss(log) => NoNetLoss(new))
  BY <1>2, ChainNoLoss
<1> HIDE DEF C
<1>4. /\ C = {a, b, c} /\ c \in new
      /\ a.creation_sequence = seq /\ b.creation_sequence = seq + 1 /\ c.creation_sequence = seq + 2
  BY <1>1 DEF IsChain
<1>5. SequenceUnique(log) => SequenceUnique(new)
  BY <1>2, <1>4 DEF SequenceUnique
<1>6. \A e \in new : e.creation_sequence <= c.creation_sequence
  BY <1>2, <1>4
<1>7. next_sequence(new) = seq + 3
  <2>1. next_sequence(new) = c.creation_sequence + 1
    <3> HIDE DEF new
    <3> QED
      BY <1>3, <1>4, <1>6, NextSequenceIs
  <2> QED
    BY <1>4, <2>1
<1>8. LogUpTo(new, seq + 3) = new
  BY <1>2, <1>4 DEF LogUpTo
<1>9. \A n \in Int : n <= seq => LogUpTo(new, n) = LogUpTo(log, n)
  BY <1>2, <1>4 DEF LogUpTo
<1> QED
  BY <1>3, <1>5, <1>7, <1>8, <1>9 DEF Grown, C

LEMMA ChainOnTime ==
  ASSUME NEW id, NEW product \in Nat, NEW source \in Nat, NEW dest \in Nat,
         NEW t \in Nat, NEW lead \in Int, NEW quantity \in Nat, NEW seq \in Nat,
         NEW log, IsLog(log), seq = next_sequence(log), IsWeek(t),
         NEW initial, OnTime(log, initial, lead)
  PROVE  OnTime(log \cup Chain(id, product, source, dest, t, lead, quantity, seq), initial, lead)
<1> DEFINE C == Chain(id, product, source, dest, t, lead, quantity, seq)
           delay == Max({lead, 0})
<1>1. PICK a, b, c : IsChain(C, a, b, c, product, source, dest, t, lead, quantity, seq)
  BY ChainIs
<1>2. \A e \in log : e.creation_sequence < seq /\ e.creation_sequence \in Nat
  BY NextSequenceIs DEF Below, IsLog, IsFlowEvent
<1> HIDE DEF C
<1>3. /\ C = {a, b, c}
      /\ a.event_type = "production" /\ b.event_type = "shipment"
      /\ a.time_bucket = t /\ b.time_bucket = t /\ c.time_bucket = advance_time_bucket(t, lead)
      /\ a.creation_sequence = seq /\ b.creation_sequence = seq + 1 /\ c.creation_sequence = seq + 2
  BY <1>1 DEF IsChain
<1>4. delay = IF lead > 0 THEN lead ELSE 0
  BY MaxMinOfTwo
<1>5. /\ IsWeek(c.time_bucket)
      /\ WeekIndex(c.time_bucket) = WeekIndex(t) + delay
  BY <1>3, <1>4, Advanced
<1>6. \A e \in (log \cup C) \ initial : IsWeek(e.time_bucket)
  BY <1>3, <1>5 DEF OnTime
<1>7. ASSUME NEW e \in (log \cup C) \ initial, NEW f \in (log \cup C) \ initial,
             e.creation_sequence = f.creation_sequence + 1, e.event_type = "arrival"
      PROVE  WeekIndex(e.time_bucket) = WeekIndex(f.time_bucket) + delay
  <2>1. CASE e \in log
    <3>1. f \in log
      BY <1>2, <1>3, <1>7, <2>1
    <3> QED
      BY <1>7, <2>1, <3>1 DEF OnTime
  <2>2. CASE e = c
    <3>1. f = b
      BY <1>2, <1>3, <1>7, <2>2
    <3> QED
      BY <1>3, <1>5, <2>2, <3>1
  <2> QED
    BY <1>3, <1>7, <2>1, <2>2
<1> HIDE DEF delay
<1> QED
  BY <1>6, <1>7 DEF OnTime, C, delay

-----------------------------------------------------------------------------
(* What a log moves.                                                       *)

(* Two logs that share no event move together what each of them moves.     *)
LEMMA QuantityAdds ==
  ASSUME NEW A, IsLog(A), NEW B, IsLog(B), A \cap B = {}, NEW p, NEW types
  PROVE  /\ Quantity(A, p, types) \in Int /\ Quantity(B, p, types) \in Int
         /\ Quantity(A \cup B, p, types) = Quantity(A, p, types) + Quantity(B, p, types)
<1> DEFINE U == A \cup B
           q(S) == [e \in S |-> e.quantity]
           Of(S) == {e \in S : e.product = p /\ e.event_type \in types}
<1>1. /\ IsFiniteSet(A) /\ IsFiniteSet(B) /\ IsFiniteSet(U)
      /\ (\A e \in U : q(U)[e] \in Int) /\ (\A e \in A : q(A)[e] \in Int)
      /\ (\A e \in B : q(B)[e] \in Int)
  BY FS_Union DEF IsLog, IsFlowEvent
<1>2. (\A e \in A : q(A)[e] = q(U)[e]) /\ (\A e \in B : q(B)[e] = q(U)[e])
  OBVIOUS
<1>3. /\ Of(U) = Of(A) \cup Of(B) /\ Of(A) \cap Of(B) = {}
      /\ Of(A) \in SUBSET U /\ Of(B) \in SUBSET U
      /\ Of(A) \in SUBSET A /\ Of(B) \in SUBSET B
      /\ A \subseteq U /\ B \subseteq U
  OBVIOUS
<1> HIDE DEF U, q, Of
<1>4. SumFunctionOnSet(q(U), Of(A) \cup Of(B))
        = SumFunctionOnSet(q(U), Of(A)) + SumFunctionOnSet(q(U), Of(B))
  BY <1>1, <1>3, SumUnion
<1>5. SumFunctionOnSet(q(U), Of(U)) = SumFunctionOnSet(q(U), Of(A) \cup Of(B))
  BY <1>3
<1>6. SumFunctionOnSet(q(A), Of(A)) = SumFunctionOnSet(q(U), Of(A))
  BY <1>1, <1>2, <1>3, SumSame
<1>7. SumFunctionOnSet(q(B), Of(B)) = SumFunctionOnSet(q(U), Of(B))
  BY <1>1, <1>2, <1>3, SumSame
<1>8. SumFunctionOnSet(q(A), Of(A)) \in Int /\ SumFunctionOnSet(q(B), Of(B)) \in Int
  BY <1>1, <1>3, SumTakesOut
<1>9. /\ Quantity(U, p, types) = SumFunctionOnSet(q(U), Of(U))
      /\ Quantity(A, p, types) = SumFunctionOnSet(q(A), Of(A))
      /\ Quantity(B, p, types) = SumFunctionOnSet(q(B), Of(B))
  BY DEF Quantity, q, Of
<1> QED
  BY <1>4, <1>5, <1>6, <1>7, <1>8, <1>9 DEF U

(* A log moves nothing of a product that it does not name.                 *)
LEMMA NothingMoved ==
  ASSUME NEW A, IsLog(A), NEW p, NEW types,
         \A e \in A : e.product = p => e.event_type \notin types
  PROVE  Quantity(A, p, types) = 0
<1> DEFINE q == [e \in A |-> e.quantity]
<1>1. IsFiniteSet(A) /\ \A e \in A : q[e] \in Int
  BY DEF IsLog, IsFlowEvent
<1>2. {e \in A : e.product = p /\ e.event_type \in types} = {}
  OBVIOUS
<1>3. Quantity(A, p, types) = SumFunctionOnSet(q, {})
  BY <1>2 DEF Quantity
<1> HIDE DEF q
<1> QED
  BY <1>1, <1>3, SumTakesOut

(* One event of a type moves its quantity.                                 *)
LEMMA OneMoved ==
  ASSUME NEW A, IsLog(A), NEW e \in A, NEW types, e.event_type \in types,
         \A f \in A \ {e} : f.event_type \notin types
  PROVE  Quantity(A, e.product, types) = e.quantity
<1> DEFINE q == [f \in A |-> f.quantity]
<1>1. IsFiniteSet(A) /\ \A f \in A : q[f] \in Int
  BY DEF IsLog, IsFlowEvent
<1>2. {f \in A : f.product = e.product /\ f.event_type \in types} = {e}
  OBVIOUS
<1>3. Quantity(A, e.product, types) = SumFunctionOnSet(q, {e})
  BY <1>2 DEF Quantity
<1>4. q[e] = e.quantity /\ {e} \in SUBSET A /\ {e} \ {e} = {}
  OBVIOUS
<1> HIDE DEF q
<1>5. SumFunctionOnSet(q, {e}) = q[e] + SumFunctionOnSet(q, {e} \ {e})
  BY <1>1, <1>4, SumTakesOut
<1>6. SumFunctionOnSet(q, {e} \ {e}) = 0
  BY <1>1, <1>4, SumTakesOut
<1> QED
  BY <1>1, <1>3, <1>4, <1>5, <1>6

(* What is shipped arrives, of the products the log does not name too.     *)
LEMMA ShippedArrives ==
  ASSUME NEW log, IsLog(log), ShipmentsArrive(log), NEW p
  PROVE  Quantity(log, p, {"shipment"}) = Quantity(log, p, {"arrival"})
<1>1. CASE \E e \in log : e.product = p
  BY <1>1 DEF ShipmentsArrive
<1>2. CASE \A e \in log : e.product # p
  <2>1. Quantity(log, p, {"shipment"}) = 0
    BY <1>2, NothingMoved
  <2>2. Quantity(log, p, {"arrival"}) = 0
    BY <1>2, NothingMoved
  <2> QED
    BY <2>1, <2>2
<1> QED
  BY <1>1, <1>2

(* The three events of a lot or an operator ship what arrives.             *)
LEMMA ChainArrives ==
  ASSUME NEW id, NEW product \in Nat, NEW source \in Nat \ {NoNode}, NEW dest \in Nat,
         NEW t \in Nat, NEW lead \in Int, NEW quantity \in Nat, NEW seq \in Nat,
         NEW log, IsLog(log), seq = next_sequence(log), ShipmentsArrive(log)
  PROVE  ShipmentsArrive(log \cup Chain(id, product, source, dest, t, lead, quantity, seq))
<1> DEFINE C == Chain(id, product, source, dest, t, lead, quantity, seq)
           new == log \cup C
<1>1. PICK a, b, c : IsChain(C, a, b, c, product, source, dest, t, lead, quantity, seq)
  BY ChainIs
<1>2. \A e \in log : e.creation_sequence < seq /\ e.creation_sequence \in Nat
  BY NextSequenceIs DEF Below, IsLog, IsFlowEvent
<1> HIDE DEF C
<1>3. /\ C = {a, b, c}
      /\ IsFlowEvent(a) /\ IsFlowEvent(b) /\ IsFlowEvent(c)
      /\ a.event_type = "production" /\ b.event_type = "shipment" /\ c.event_type = "arrival"
      /\ a.product = product /\ b.product = product /\ c.product = product
      /\ a.quantity = quantity /\ b.quantity = quantity /\ c.quantity = quantity
      /\ a.creation_sequence = seq /\ b.creation_sequence = seq + 1 /\ c.creation_sequence = seq + 2
      /\ a.from_node = source /\ b.from_node = source /\ c.from_node = source
      /\ a.to_node = source /\ b.to_node = dest /\ c.to_node = dest
  BY <1>1 DEF IsChain
<1>4. IsLog(C) /\ log \cap C = {}
  <2>1. IsFiniteSet({a, b, c})
    <3>1. IsFiniteSet({a})
      BY FS_Singleton
    <3>2. IsFiniteSet({a} \cup {b})
      BY <3>1, FS_AddElement
    <3>3. IsFiniteSet(({a} \cup {b}) \cup {c})
      BY <3>2, FS_AddElement
    <3>4. ({a} \cup {b}) \cup {c} = {a, b, c}
      OBVIOUS
    <3> QED
      BY <3>3, <3>4
  <2> QED
    BY <1>2, <1>3, <2>1 DEF IsLog
<1>5. \A e \in new : EventNode(e) # NoNode
  <2>1. \A e \in C : EventNode(e) # NoNode
    BY <1>3 DEF EventNode, First, NoNode
  <2> QED
    BY <2>1 DEF ShipmentsArrive
<1>6. \A p : Quantity(C, p, {"shipment"}) = Quantity(C, p, {"arrival"})
  <2> SUFFICES ASSUME NEW p PROVE Quantity(C, p, {"shipment"}) = Quantity(C, p, {"arrival"})
    OBVIOUS
  <2>1. CASE p = product
    <3>1. Quantity(C, b.product, {"shipment"}) = b.quantity
      <4>1. b \in C /\ b.event_type \in {"shipment"} /\ \A f \in C \ {b} : f.event_type \notin {"shipment"}
        BY <1>3
      <4> QED
        BY <1>4, <4>1, OneMoved
    <3>2. Quantity(C, c.product, {"arrival"}) = c.quantity
      <4>1. c \in C /\ c.event_type \in {"arrival"} /\ \A f \in C \ {c} : f.event_type \notin {"arrival"}
        BY <1>3
      <4> QED
        BY <1>4, <4>1, OneMoved
    <3> QED
      BY <1>3, <2>1, <3>1, <3>2
  <2>2. CASE p # product
    <3>1. \A e \in C : e.product # p
      BY <1>3, <2>2
    <3>2. Quantity(C, p, {"shipment"}) = 0
      BY <1>4, <3>1, NothingMoved
    <3>3. Quantity(C, p, {"arrival"}) = 0
      BY <1>4, <3>1, NothingMoved
    <3> QED
      BY <3>2, <3>3
  <2> QED
    BY <2>1, <2>2
<1>7. \A p : Quantity(log, p, {"shipment"}) = Quantity(log, p, {"arrival"})
  BY ShippedArrives
<1>8. \A p, types : Quantity(new, p, types) = Quantity(log, p, types) + Quantity(C, p, types)
  BY <1>4, QuantityAdds
<1> HIDE DEF new
<1>9. \A p : Quantity(new, p, {"shipment"}) = Quantity(new, p, {"arrival"})
  BY <1>6, <1>7, <1>8
<1> QED
  BY <1>5, <1>9 DEF ShipmentsArrive, new, C

-----------------------------------------------------------------------------

LEMMA InputsFacts ==
  ASSUME NEW in \in Inputs
  PROVE  /\ AreLots(in.lots)
         /\ \A lot \in in.lots : IsLot(lot) /\ IsWeek(lot.created)
         /\ IsDemands(in.demands)
         /\ \A d \in in.demands : IsWeek(d.time_bucket)
         /\ IsLog(in.initial) /\ SequenceUnique(in.initial)
         /\ in.lead_time \in Int
         /\ IsNetwork(Network(in))
<1>1. /\ AreLots(in.lots) /\ in.production_nodes \subseteq Nat \ {NoNode}
      /\ \A n \in DOMAIN in.upstream : in.upstream[n] \in Nat \ {NoNode}
  BY InputsAssumption DEF AreLots
<1>2. IsNetwork(Network(in))
  BY <1>1, NetworkInferred DEF Network
<1> QED
  BY <1>1, <1>2, InputsAssumption

LEMMA SeenIsObserved ==
  ASSUME NEW log
  PROVE  Observe(log) = Seen(log, input)
BY Zenon DEF Observe, Seen, With

LEMMA NetworkIs == network = Network(input)
BY DEF network, Network

(* A log that the kernel hands to run_flow.                                *)
IsKernelLog(log) == IsLog(log) /\ SequenceUnique(log)

(* What applying the first candidate does to the log.                      *)
LEMMA OperatorGrows ==
  ASSUME NEW in \in Inputs, NEW log, IsKernelLog(log),
         NEW candidates, candidates = generate_candidates(Seen(log, in).trust_events, Network(in)),
         candidates # <<>>
  PROVE  LET new == apply_operator(log, candidates[1], in.lead_time)
         IN  /\ Grown(new, log, next_sequence(log))
             /\ OnTime(log, in.initial, in.lead_time) => OnTime(new, in.initial, in.lead_time)
             /\ ShipmentsArrive(log) => ShipmentsArrive(new)
<1> DEFINE state == run_flow(log, in.demands)
           net == Network(in)
           op == candidates[1]
           seq == next_sequence(log)
           C == Chain(op.operator_id, op.product, op.source_node, op.destination_node,
                      op.time_bucket, in.lead_time, op.quantity, seq)
<1>1. /\ IsDemands(in.demands) /\ IsNetwork(net) /\ in.lead_time \in Int
      /\ \A d \in in.demands : IsWeek(d.time_bucket) /\ d.market # NoNode
  BY InputsFacts DEF IsDemands, IsDemand
<1>2. IsLog(log) /\ \A e, f \in log : e.creation_sequence = f.creation_sequence => e = f
  BY DEF IsKernelLog, SequenceUnique
<1>3. HasBacklogs(state) /\ DOMAIN state.backlog = DKeys(in.demands)
  BY <1>1, <1>2, StateHasBacklogs, StateFacts
<1>4. candidates = generate_candidates(detect_trust_events(state, in.capacity_limit), net)
  BY DEF Seen
<1>5. seq \in Nat
  BY <1>2, NextSequenceIs
<1> HIDE DEF state, net, seq
<1>6. PICK k \in Stockouts(state) : op = Answer(state, k, net)
  BY <1>3, <1>4, FirstCandidate
<1>7. k \in Triples /\ state.backlog[k] \in Nat
  BY <1>3, RiskKeys
<1>8. k[1] \in Nat /\ k[2] \in Nat /\ k[3] \in Nat
  BY <1>7 DEF Triples
<1>9. IsWeek(k[3]) /\ k[1] # NoNode
  <2>1. k \in DKeys(in.demands)
    BY <1>3 DEF Stockouts
  <2>2. PICK d \in in.demands : k = DKey(d)
    BY <2>1 DEF DKeys
  <2>3. k[3] = d.time_bucket /\ k[1] = d.market
    BY <2>2 DEF DKey
  <2> QED
    BY <1>1, <2>3
<1>10. SourceFor(Risk(state, k), net) \in Nat \ {NoNode}
  <2>1. Risk(state, k).node \in Nat \ {NoNode}
    BY <1>8, <1>9 DEF Risk
  <2> QED
    BY <1>1, <2>1, SourceType
<1>11. /\ op.product = k[2] /\ op.source_node = SourceFor(Risk(state, k), net)
       /\ op.destination_node = k[1] /\ op.time_bucket = k[3] /\ op.quantity = state.backlog[k]
  BY <1>6 DEF Answer
<1>12. /\ op.product \in Nat /\ op.source_node \in Nat \ {NoNode} /\ op.destination_node \in Nat
       /\ op.time_bucket \in Nat /\ op.quantity \in Nat /\ IsWeek(op.time_bucket)
  BY <1>7, <1>8, <1>9, <1>10, <1>11
<1>13. apply_operator(log, op, in.lead_time) = log \cup C
  BY DEF apply_operator, seq
<1> HIDE DEF op
<1>14. Grown(log \cup C, log, seq)
  BY <1>1, <1>2, <1>5, <1>12, ChainGrows DEF seq
<1>15. OnTime(log, in.initial, in.lead_time) => OnTime(log \cup C, in.initial, in.lead_time)
  BY <1>1, <1>2, <1>5, <1>12, ChainOnTime DEF seq
<1>16. ShipmentsArrive(log) => ShipmentsArrive(log \cup C)
  BY <1>1, <1>2, <1>5, <1>12, ChainArrives DEF seq
<1> QED
  BY <1>13, <1>14, <1>15, <1>16 DEF seq, op

-----------------------------------------------------------------------------

LEMMA WholeLog ==
  ASSUME NEW log, IsLog(log)
  PROVE  LogUpTo(log, next_sequence(log)) = log
BY NextSequenceIs DEF LogUpTo, Below

LEMMA NoMove ==
  ASSUME NEW k
  PROVE  NetMove({}, k) = 0
<1>1. EventsAt({}, k) = {}
  BY DEF EventsAt
<1> DEFINE f == MovesOf({})
<1>2. SumFunctionOnSet(f, {}) = 0
  <2>1. IsFiniteSet({}) /\ \A x \in {} : f[x] \in Int
    BY FS_EmptySet
  <2> HIDE DEF f
  <2> QED
    BY <2>1, SumTakesOut
<1> QED
  BY <1>1, <1>2 DEF NetMove

LEMMA InitIInv == Init => IInv
<1> SUFFICES ASSUME Init PROVE IInv
  OBVIOUS
<1>1. input \in Inputs /\ flow_events = input.initial /\ history = <<>> /\ selected_operators = <<>>
      /\ phase = "loading" /\ pending = input.lots
      /\ next_seq = next_sequence(flow_events)
  BY DEF Init
<1>2. IsLog(flow_events) /\ SequenceUnique(flow_events)
  BY <1>1, InputsFacts
<1>3. next_seq \in Nat /\ LogUpTo(flow_events, next_seq) = flow_events
  BY <1>1, <1>2, NextSequenceIs, WholeLog
<1>4. IsSeq(history) /\ IsSeq(selected_operators) /\ Len(history) = 0 /\ Len(selected_operators) = 0
  BY <1>1 DEF IsSeq
<1>5. next_sequence(flow_events) = next_seq + 3 * Len(selected_operators)
  BY <1>1, <1>3, <1>4
<1>6. LogAt(1) = flow_events
  BY <1>3 DEF LogAt
<1>7. HistoryTold
  BY <1>4, <1>6 DEF HistoryTold
<1>8. NothingLost
  <2> SUFFICES ASSUME input.initial = {} PROVE NoNetLoss(flow_events)
    BY <1>4, <1>6 DEF NothingLost
  <2>1. \A t : InBucket(flow_events, t) = {}
    BY <1>1 DEF InBucket
  <2> QED
    BY <2>1, NoMove DEF NoNetLoss
<1>9. OnTime(flow_events, input.initial, input.lead_time)
  BY <1>1 DEF OnTime
<1>10. pending \subseteq input.lots /\ EventOrderTotal /\ AllArrive
  BY <1>1, <1>2 DEF EventOrderTotal, AllArrive
<1> QED
  BY <1>1, <1>2, <1>3, <1>4, <1>5, <1>7, <1>8, <1>9, <1>10 DEF IInv

LEMMA LoadLotStep == IInv /\ LoadLot => IInv'
<1> SUFFICES ASSUME IInv, LoadLot PROVE IInv'
  OBVIOUS
<1> DEFINE log == flow_events
           seq == next_seq
<1>1. PICK lot \in pending :
        /\ flow_events' = flow_events \cup _lot_to_events(lot, next_seq, input.lead_time)
        /\ pending' = pending \ {lot}
  BY DEF LoadLot
<1>2. /\ phase = "loading" /\ next_seq' = next_seq + 3
      /\ UNCHANGED <<input, phase, history, selected_operators>>
  BY DEF LoadLot
<1>3. /\ input \in Inputs /\ IsLog(flow_events) /\ EventOrderTotal /\ next_seq \in Nat
      /\ Len(history) = 0 /\ Len(selected_operators) = 0
      /\ next_sequence(flow_events) = next_seq + 3 * Len(selected_operators)
      /\ lot \in input.lots /\ pending \subseteq input.lots
      /\ HistoryTold /\ NothingLost /\ OnTime(flow_events, input.initial, input.lead_time)
      /\ AllArrive
  BY <1>2 DEF IInv
<1>4. next_seq = next_sequence(flow_events)
  BY <1>3
<1>5. /\ lot.product \in Nat /\ lot.origin \in Nat \ {NoNode} /\ First(lot.destination, lot.origin) \in Nat
      /\ lot.created \in Nat /\ lot.quantity \in Nat /\ input.lead_time \in Int
      /\ IsWeek(lot.created)
  BY <1>3, InputsFacts DEF IsLot, First
<1> DEFINE C == Chain(lot.lot_id, lot.product, lot.origin, First(lot.destination, lot.origin),
                      lot.created, input.lead_time, lot.quantity, next_seq)
<1>6. flow_events' = flow_events \cup C
  BY <1>1 DEF _lot_to_events
<1>7. Grown(flow_events \cup C, flow_events, next_seq)
  BY <1>3, <1>4, <1>5, ChainGrows
<1>8. OnTime(flow_events \cup C, input.initial, input.lead_time)
  BY <1>3, <1>4, <1>5, ChainOnTime
<1>8a. ShipmentsArrive(flow_events) => ShipmentsArrive(flow_events \cup C)
  BY <1>3, <1>4, <1>5, ChainArrives
<1> HIDE DEF C
<1>9. /\ IsLog(flow_events') /\ SequenceUnique(flow_events')
      /\ next_sequence(flow_events') = next_seq'
      /\ LogUpTo(flow_events', next_seq') = flow_events'
      /\ NoNetLoss(flow_events) => NoNetLoss(flow_events')
  BY <1>2, <1>3, <1>6, <1>7 DEF Grown, EventOrderTotal
<1>10. next_seq' \in Nat
  BY <1>2, <1>3
<1>11. LogAt(1) = flow_events /\ LogAt(1)' = flow_events'
  <2>1. LogUpTo(flow_events, next_seq) = flow_events
    BY <1>3, <1>4, WholeLog
  <2> QED
    BY <1>3, <1>9, <1>10, <2>1 DEF LogAt
<1>12. HistoryTold'
  BY <1>2, <1>3, <1>11 DEF HistoryTold
<1>13. NothingLost'
  BY <1>2, <1>3, <1>9, <1>11 DEF NothingLost
<1>14. OnTime(flow_events, input.initial, input.lead_time)'
  BY <1>2, <1>6, <1>8
<1>15. pending' \subseteq input.lots
  BY <1>1, <1>3
<1>16. (next_sequence(flow_events) = next_seq + 3 * Len(selected_operators))'
  BY <1>2, <1>3, <1>9, <1>10
<1>17. AllArrive'
  BY <1>2, <1>3, <1>6, <1>8a DEF AllArrive
<1> QED
  BY <1>2, <1>9, <1>10, <1>12, <1>13, <1>14, <1>15, <1>16, <1>17 DEF IInv, EventOrderTotal

(* What an iteration sees, and that the history has it.                    *)
LEMMA IterateSees ==
  ASSUME IInv, Iterate
  PROVE  /\ phase = "planning" /\ UNCHANGED <<input, pending, next_seq>>
         /\ Len(history) \in Nat /\ Len(history) = Len(selected_operators)
         /\ history' = Append(history, Seen(flow_events, input))
         /\ Settle(Seen(flow_events, input)) \/ Select(Seen(flow_events, input))
         /\ IsSeq(history') /\ Len(history') = Len(history) + 1
         /\ \A i \in 1 .. Len(history) : history'[i] = history[i]
         /\ history'[Len(history) + 1] = Seen(flow_events, input)
         /\ next_sequence(flow_events) = next_seq + 3 * Len(history)
         /\ LogAt(Len(history) + 1) = flow_events
<1>1. PICK now : /\ now = Observe(flow_events)
                 /\ history' = Append(history, now) /\ (Settle(now) \/ Select(now))
  BY DEF Iterate
<1>2. now = Seen(flow_events, input)
  BY <1>1, SeenIsObserved
<1>3. phase = "planning" /\ UNCHANGED <<input, pending, next_seq>>
  BY DEF Iterate
<1>4. IsSeq(history) /\ Len(history) = Len(selected_operators)
      /\ next_sequence(flow_events) = next_seq + 3 * Len(selected_operators)
      /\ LogAt(Len(selected_operators) + 1) = flow_events
  BY <1>3 DEF IInv, HistoryTold
<1>5. /\ IsSeq(Append(history, now)) /\ Len(history) \in Nat
      /\ Len(Append(history, now)) = Len(history) + 1
      /\ Append(history, now)[Len(history) + 1] = now
      /\ \A i \in 1 .. Len(history) : Append(history, now)[i] = history[i]
  BY <1>4, AppendIsSeq
<1> QED
  BY <1>1, <1>2, <1>3, <1>4, <1>5

LEMMA SettleStep ==
  ASSUME IInv, Iterate, Settle(Seen(flow_events, input))
  PROVE  IInv'
<1>0. PICK n \in Nat : n = Len(history)
  BY IterateSees
<1> DEFINE now == Seen(flow_events, input)
<1>1. /\ phase' = "returned" /\ UNCHANGED <<flow_events, selected_operators>>
  BY DEF Settle
<1>2. /\ UNCHANGED <<input, pending, next_seq>>
      /\ n \in Nat /\ n = Len(selected_operators)
      /\ IsSeq(history') /\ Len(history') = n + 1
      /\ \A i \in 1 .. n : history'[i] = history[i]
      /\ history'[n + 1] = now /\ LogAt(n + 1) = flow_events
  BY <1>0, IterateSees
<1> HIDE DEF now
<1>3. \A i : LogAt(i)' = LogAt(i)
  BY <1>1, <1>2 DEF LogAt
<1>4. HistoryTold
  BY DEF IInv
<1>5. \A i \in 1 .. n + 1 : history'[i] = Seen(LogAt(i), input)
  <2>1. \A i \in 1 .. n : history[i] = Seen(LogAt(i), input)
    BY <1>0, <1>4 DEF HistoryTold
  <2> QED
    BY <1>2, <2>1 DEF now
<1>6. \A i \in 1 .. n : Answered(i)'
  <2> SUFFICES ASSUME NEW i \in 1 .. n PROVE Answered(i)'
    OBVIOUS
  <2>1. Answered(i) /\ history'[i] = history[i]
    BY <1>2, <1>4 DEF HistoryTold
  <2> QED
    BY <1>1, <1>2, <1>3, <2>1 DEF Answered
<1>7. HistoryTold'
  <2>1. LogAt(Len(selected_operators) + 1)' = flow_events'
    BY <1>1, <1>2, <1>3
  <2>2. (\A i \in 1 .. Len(history) : history[i] = Seen(LogAt(i), input))'
    BY <1>2, <1>3, <1>5
  <2>3. (\A i \in 1 .. Len(selected_operators) : Answered(i))'
    BY <1>1, <1>2, <1>6
  <2> QED
    BY <2>1, <2>2, <2>3 DEF HistoryTold
<1>8. NothingLost'
  BY <1>1, <1>2, <1>3 DEF IInv, NothingLost
<1>9. Len(history)' - Len(selected_operators)' \in {0, 1}
  BY <1>1, <1>2
<1>10. OnTime(flow_events, input.initial, input.lead_time)'
  BY <1>1, <1>2 DEF IInv
<1>11. (next_sequence(flow_events) = next_seq + 3 * Len(selected_operators))'
  BY <1>1, <1>2 DEF IInv
<1>12. IsSeq(selected_operators)' /\ IsLog(flow_events)' /\ EventOrderTotal'
  BY <1>1 DEF IInv, EventOrderTotal
<1>13. AllArrive'
  BY <1>1, <1>2 DEF IInv, AllArrive
<1> QED
  BY <1>1, <1>2, <1>7, <1>8, <1>9, <1>10, <1>11, <1>12, <1>13 DEF IInv

LEMMA SelectStep ==
  ASSUME IInv, Iterate, Select(Seen(flow_events, input))
  PROVE  IInv'
<1>0. PICK n \in Nat : n = Len(history)
  BY IterateSees
<1> DEFINE now == Seen(flow_events, input)
           seq == next_sequence(flow_events)
           candidates == generate_candidates(now.trust_events, network)
           op == candidates[1]
<1>1. /\ candidates # <<>>
      /\ selected_operators' = Append(selected_operators, op)
      /\ flow_events' = apply_operator(flow_events, op, input.lead_time)
      /\ phase' = phase
  BY DEF Select
<1>2. /\ UNCHANGED <<input, pending, next_seq>> /\ phase = "planning"
      /\ n \in Nat /\ n = Len(selected_operators)
      /\ IsSeq(history') /\ Len(history') = n + 1
      /\ \A i \in 1 .. n : history'[i] = history[i]
      /\ history'[n + 1] = now /\ LogAt(n + 1) = flow_events
      /\ seq = next_seq + 3 * n
  BY <1>0, IterateSees
<1>3. /\ input \in Inputs /\ IsLog(flow_events) /\ EventOrderTotal /\ HistoryTold /\ NothingLost
      /\ IsSeq(selected_operators) /\ next_seq \in Nat /\ pending \subseteq input.lots
      /\ OnTime(flow_events, input.initial, input.lead_time) /\ AllArrive
  BY DEF IInv
<1>4. candidates = generate_candidates(now.trust_events, Network(input))
  BY NetworkIs
<1>5. /\ Grown(flow_events', flow_events, seq)
      /\ OnTime(flow_events', input.initial, input.lead_time)
      /\ ShipmentsArrive(flow_events) => ShipmentsArrive(flow_events')
  <2>1. IsKernelLog(flow_events)
    BY <1>3 DEF IsKernelLog, EventOrderTotal
  <2> HIDE DEF candidates
  <2> QED
    BY <1>1, <1>3, <1>4, <2>1, OperatorGrows DEF now
<1> HIDE DEF now, candidates, seq
<1>6. /\ IsSeq(selected_operators') /\ Len(selected_operators') = n + 1
      /\ Len(selected_operators') \in Nat
  BY <1>1, <1>2, <1>3, AppendIsSeq
<1>7. /\ IsLog(flow_events') /\ SequenceUnique(flow_events')
      /\ next_sequence(flow_events') = seq + 3
      /\ LogUpTo(flow_events', seq + 3) = flow_events'
      /\ \A m \in Int : m <= seq => LogUpTo(flow_events', m) = LogUpTo(flow_events, m)
      /\ NoNetLoss(flow_events) => NoNetLoss(flow_events')
  BY <1>3, <1>5 DEF Grown, EventOrderTotal
<1>8. \A i \in 1 .. n + 1 : LogAt(i)' = LogAt(i)
  <2> SUFFICES ASSUME NEW i \in 1 .. n + 1 PROVE LogAt(i)' = LogAt(i)
    OBVIOUS
  <2>1. next_seq + 3 * (i - 1) \in Int /\ next_seq + 3 * (i - 1) <= seq
    BY <1>2, <1>3
  <2> QED
    BY <1>2, <1>7, <2>1 DEF LogAt
<1>9. LogAt(n + 2)' = flow_events'
  <2>1. seq + 3 = next_seq + 3 * ((n + 2) - 1)
    BY <1>2, <1>3
  <2> QED
    BY <1>2, <1>7, <2>1 DEF LogAt
<1>10. \A i \in 1 .. n + 1 : history'[i] = Seen(LogAt(i), input)
  <2>1. \A i \in 1 .. n : history[i] = Seen(LogAt(i), input)
    BY <1>0, <1>3 DEF HistoryTold
  <2> QED
    BY <1>2, <2>1 DEF now
<1>11. \A i \in 1 .. n + 1 : Answered(i)'
  <2> SUFFICES ASSUME NEW i \in 1 .. n + 1 PROVE Answered(i)'
    OBVIOUS
  <2>1. CASE i \in 1 .. n
    <3>1. Answered(i) /\ history'[i] = history[i] /\ i \in 1 .. n + 1 /\ i + 1 \in 1 .. n + 1
      BY <1>2, <1>3, <2>1 DEF HistoryTold
    <3> QED
      BY <1>2, <1>8, <3>1 DEF Answered
  <2>2. CASE i = n + 1
    <3>1. LogAt(i + 1)' = flow_events' /\ LogAt(i)' = flow_events
      BY <1>2, <1>8, <1>9, <2>2
    <3> QED
      BY <1>1, <1>2, <1>4, <2>2, <3>1 DEF Answered
  <2> QED
    BY <1>2, <2>1, <2>2
<1>12. HistoryTold'
  <2>1. LogAt(Len(selected_operators) + 1)' = flow_events'
    BY <1>2, <1>6, <1>9
  <2>2. (\A i \in 1 .. Len(history) : history[i] = Seen(LogAt(i), input))'
    BY <1>2, <1>8, <1>10
  <2>3. (\A i \in 1 .. Len(selected_operators) : Answered(i))'
    BY <1>2, <1>6, <1>11
  <2> QED
    BY <2>1, <2>2, <2>3 DEF HistoryTold
<1>13. NothingLost'
  <2> SUFFICES ASSUME input.initial = {} PROVE \A i \in 1 .. n + 2 : NoNetLoss(LogAt(i)')
    BY <1>2, <1>6 DEF NothingLost
  <2>1. \A i \in 1 .. n + 1 : NoNetLoss(LogAt(i))
    BY <1>2, <1>3 DEF NothingLost
  <2>2. NoNetLoss(flow_events) /\ n + 1 \in 1 .. n + 1
    BY <1>2, <2>1
  <2> QED
    BY <1>2, <1>7, <1>8, <1>9, <2>1, <2>2
<1>14. Len(history)' - Len(selected_operators)' \in {0, 1}
       /\ Len(history)' = Len(selected_operators)'
  BY <1>2, <1>6
<1>15. (next_sequence(flow_events) = next_seq + 3 * Len(selected_operators))'
  BY <1>2, <1>3, <1>6, <1>7
<1>16. OnTime(flow_events, input.initial, input.lead_time)'
  BY <1>2, <1>5
<1>17. AllArrive'
  BY <1>2, <1>3, <1>5 DEF AllArrive
<1> QED
  BY <1>1, <1>2, <1>3, <1>6, <1>7, <1>12, <1>13, <1>14, <1>15, <1>16, <1>17 DEF IInv, EventOrderTotal

(* A step that leaves the log, the history and the operators alone keeps   *)
(* what the invariant says of them.                                        *)
LEMMA TalesStay ==
  ASSUME IInv,
         UNCHANGED <<input, pending, next_seq, flow_events, history, selected_operators>>
  PROVE  /\ HistoryTold' /\ NothingLost' /\ EventOrderTotal' /\ AllArrive'
         /\ OnTime(flow_events, input.initial, input.lead_time)'
<1>1. HistoryTold /\ NothingLost /\ EventOrderTotal /\ AllArrive
      /\ OnTime(flow_events, input.initial, input.lead_time)
  BY DEF IInv
<1>2. HistoryTold'
  BY <1>1 DEF HistoryTold, Answered, LogAt
<1>3. NothingLost'
  BY <1>1 DEF NothingLost, LogAt
<1>4. EventOrderTotal'
  BY <1>1 DEF EventOrderTotal
<1>5. OnTime(flow_events, input.initial, input.lead_time)'
  BY <1>1 DEF OnTime
<1>6. AllArrive'
  BY <1>1 DEF AllArrive
<1> QED
  BY <1>2, <1>3, <1>4, <1>5, <1>6

LEMMA NextIInv == IInv /\ [Next]_vars => IInv'
<1> SUFFICES ASSUME IInv, [Next]_vars PROVE IInv'
  OBVIOUS
<1>1. CASE LoadLot
  BY <1>1, LoadLotStep
<1>2. CASE EnterLoop
  <2>1. /\ phase = "loading" /\ phase' = "planning"
        /\ UNCHANGED <<input, pending, next_seq, flow_events, history, selected_operators>>
    BY <1>2 DEF EnterLoop
  <2>2. /\ HistoryTold' /\ NothingLost' /\ EventOrderTotal' /\ AllArrive'
        /\ OnTime(flow_events, input.initial, input.lead_time)'
    BY <2>1, TalesStay
  <2> QED
    BY <2>1, <2>2 DEF IInv
<1>3. CASE Iterate
  BY <1>3, IterateSees, SettleStep, SelectStep
<1>4. CASE Exhaust
  <2>1. /\ phase = "planning" /\ phase' \in {"returned", "raised"}
        /\ UNCHANGED <<input, pending, next_seq, flow_events, history, selected_operators>>
    BY <1>4 DEF Exhaust
  <2>2. /\ HistoryTold' /\ NothingLost' /\ EventOrderTotal' /\ AllArrive'
        /\ OnTime(flow_events, input.initial, input.lead_time)'
    BY <2>1, TalesStay
  <2> QED
    BY <2>1, <2>2 DEF IInv
<1>5. CASE UNCHANGED vars
  <2>1. /\ phase' = phase
        /\ UNCHANGED <<input, pending, next_seq, flow_events, history, selected_operators>>
    BY <1>5 DEF vars
  <2>2. /\ HistoryTold' /\ NothingLost' /\ EventOrderTotal' /\ AllArrive'
        /\ OnTime(flow_events, input.initial, input.lead_time)'
    BY <2>1, TalesStay
  <2> QED
    BY <2>1, <2>2 DEF IInv
<1> QED
  BY <1>1, <1>2, <1>3, <1>4, <1>5 DEF Next, Terminated

(* The inductive invariant holds in every reachable state of the kernel.   *)
THEOREM Invariance == Spec => []IInv
BY InitIInv, NextIInv, PTL DEF Spec

-----------------------------------------------------------------------------
(* Every state of the history is derived from a log.                       *)
LEMMA HistoryStates ==
  ASSUME IInv
  PROVE  /\ Len(history) \in Nat /\ Len(selected_operators) \in Nat
         /\ input \in Inputs /\ IsDemands(input.demands)
         /\ \A i \in 1 .. Len(history) :
              /\ history[i].state = run_flow(LogAt(i), input.demands)
              /\ IsKernelLog(LogAt(i))
              /\ input.initial = {} => NoNetLoss(LogAt(i))
<1>1. /\ IsSeq(history) /\ IsSeq(selected_operators) /\ input \in Inputs
      /\ IsLog(flow_events) /\ EventOrderTotal /\ HistoryTold /\ NothingLost
      /\ Len(history) - Len(selected_operators) \in {0, 1}
  BY DEF IInv
<1>2. Len(history) \in Nat /\ Len(selected_operators) \in Nat
  BY <1>1 DEF IsSeq
<1>3. IsDemands(input.demands)
  BY <1>1, InputsFacts
<1>4. ASSUME NEW i \in 1 .. Len(history)
      PROVE  /\ history[i].state = run_flow(LogAt(i), input.demands)
             /\ IsKernelLog(LogAt(i))
             /\ input.initial = {} => NoNetLoss(LogAt(i))
  <2>1. history[i] = Seen(LogAt(i), input)
    BY <1>1 DEF HistoryTold
  <2>2. history[i].state = run_flow(LogAt(i), input.demands)
    BY <2>1 DEF Seen
  <2>3. LogAt(i) \in SUBSET flow_events
    BY DEF LogAt, LogUpTo
  <2>4. IsKernelLog(LogAt(i))
    BY <1>1, <2>3, FS_Subset DEF IsKernelLog, IsLog, EventOrderTotal, SequenceUnique
  <2>5. i \in 1 .. Len(selected_operators) + 1
    BY <1>1, <1>2
  <2> QED
    BY <1>1, <2>2, <2>4, <2>5 DEF NothingLost
<1> QED
  BY <1>1, <1>2, <1>3, <1>4

LEMMA NeverNegative == IInv => StockNeverNegative
<1> SUFFICES ASSUME IInv, input.initial = {}, NEW i \in 1 .. Len(history),
                    NEW k \in DOMAIN history[i].state.inventory
             PROVE  history[i].state.inventory[k] >= 0
  BY DEF StockNeverNegative
<1> DEFINE E == LogAt(i)
           D == input.demands
           n == Len(TimesOf(E, D))
<1>1. history[i].state = run_flow(E, D) /\ IsKernelLog(E) /\ NoNetLoss(E) /\ IsDemands(D)
  BY HistoryStates
<1> HIDE DEF E, D
<1>2. IsLog(E) /\ \A e, f \in E : e.creation_sequence = f.creation_sequence => e = f
  BY <1>1 DEF IsKernelLog, SequenceUnique
<1>3. PICK g : IsRun(g, E, D) /\ run_flow(E, D) = StateView(g[n])
  BY <1>1, <1>2, RunOfFlow
<1>4. n \in 0 .. n
  BY <1>1, <1>2, TimesFacts
<1>5. NotBelowZero(g[n])
  BY <1>1, <1>2, <1>3, <1>4, RunNotBelowZero
<1>6. history[i].state.inventory = g[n].inventory
  BY <1>1, <1>3 DEF StateView
<1> QED
  BY <1>5, <1>6 DEF NotBelowZero

-----------------------------------------------------------------------------
(* Conservation.                                                           *)

(* The stock of a state is what the ledger behind it holds.                *)
LEMMA OnHandIsHeld ==
  ASSUME NEW x \in Ledgers, NEW N, IsFiniteSet(N), Snapshot(x, N), NEW p
  PROVE  OnHand(StateView(x), p) = Held(x, p, N)
<1> DEFINE inv == x.inventory
           nodes == {k[1] : k \in {o \in DOMAIN inv : o[2] = p}}
           SnapWeeks(n) == {k[3] : k \in {o \in DOMAIN inv : o[1] = n /\ o[2] = p}}
           f == [n \in nodes |-> inv[<<n, p, Max(SnapWeeks(n))>>]]
           h == [n \in N |-> Get(x.current, <<n, p>>)]
<1>1. OnHand(StateView(x), p) = SumFunctionOnSet(f, nodes)
  BY DEF OnHand, StateView
<1>2. DOMAIN inv \subseteq Triples
  BY LedgerType, DictType
<1>3. \A k \in DOMAIN inv : k = <<k[1], k[2], k[3]>> /\ k[3] \in Nat
  BY <1>2 DEF Triples
<1>4. /\ \A k \in DOMAIN inv : <<k[1], k[2]>> \in DOMAIN x.current
      /\ \A s \in DOMAIN x.current :
           /\ s[1] \in N
           /\ \E k \in DOMAIN inv : IsLatest(k, inv) /\ <<k[1], k[2]>> = s /\ inv[k] = x.current[s]
  BY DEF Snapshot
<1> HIDE DEF inv
<1>5. nodes \subseteq N
  BY <1>4
<1>6. ASSUME NEW n \in nodes PROVE f[n] = h[n]
  <2>1. PICK o \in DOMAIN inv : o[2] = p /\ o[1] = n
    OBVIOUS
  <2>2. <<n, p>> \in DOMAIN x.current
    BY <1>4, <2>1
  <2>3. PICK k \in DOMAIN inv : IsLatest(k, inv) /\ <<k[1], k[2]>> = <<n, p>>
                                /\ inv[k] = x.current[<<n, p>>]
    BY <1>4, <2>2
  <2>4. k[1] = n /\ k[2] = p /\ k = <<n, p, k[3]>> /\ k[3] \in Nat
    BY <1>3, <2>3
  <2>5. \A w \in SnapWeeks(n) : w \in Nat /\ w <= k[3]
    BY <1>3, <2>3, <2>4 DEF IsLatest
  <2>6. k[3] \in SnapWeeks(n)
    BY <2>4
  <2> DEFINE W == SnapWeeks(n)
             c == k[3]
  <2>7. Max(W) = c
    <3>1. c \in W /\ c \in Nat /\ \A w \in W : w \in Nat /\ w <= c
      BY <2>4, <2>5, <2>6
    <3> HIDE DEF W, c
    <3> QED
      BY <3>1 DEF Max
  <2>8. f[n] = inv[<<n, p, c>>]
    <3>1. f[n] = inv[<<n, p, Max(W)>>]
      OBVIOUS
    <3> HIDE DEF f, W, c
    <3> QED
      BY <2>7, <3>1
  <2>9. h[n] = x.current[<<n, p>>]
    BY <1>5, <2>2 DEF Get
  <2> HIDE DEF f, h, W
  <2> QED
    BY <2>3, <2>4, <2>8, <2>9
<1>7. h \in [N -> Int] /\ Held(x, p, N) = SumFunctionOnSet(h, N)
  BY BalanceType DEF Held
<1>8. ASSUME NEW n \in N \ nodes PROVE h[n] = 0
  <2>1. <<n, p>> \notin DOMAIN x.current
    <3> SUFFICES ASSUME <<n, p>> \in DOMAIN x.current PROVE FALSE
      OBVIOUS
    <3>1. PICK k \in DOMAIN inv : <<k[1], k[2]>> = <<n, p>>
      BY <1>4
    <3>2. k[1] = n /\ k[2] = p
      BY <3>1
    <3> QED
      BY <3>2
  <2> QED
    BY <2>1 DEF Get
<1> HIDE DEF f, h, nodes
<1>9. SumFunctionOnSet(h, N) = SumFunctionOnSet(h, nodes)
  <2>1. \A n \in N : h[n] \in Int
    BY <1>7
  <2> QED
    BY <1>5, <1>8, <2>1, SumDrop
<1>10. SumFunctionOnSet(f, nodes) = SumFunctionOnSet(h, nodes)
  <2>1. IsFiniteSet(nodes) /\ nodes \in SUBSET nodes
    BY <1>5, FS_Subset
  <2>2. (\A n \in N : h[n] \in Int) /\ \A n \in nodes : f[n] \in Int /\ f[n] = h[n]
    BY <1>5, <1>6, <1>7
  <2> QED
    BY <1>5, <2>1, <2>2, SumSame
<1> QED
  BY <1>1, <1>7, <1>9, <1>10

(* So are the sales.                                                       *)
LEMMA SoldOnIsSales ==
  ASSUME NEW x \in Ledgers, IsFiniteSet(DOMAIN x.demand), DOMAIN x.backlog = DOMAIN x.demand, NEW p
  PROVE  SoldOn(StateView(x), p) = Sales(x, {k \in DOMAIN x.demand : k[2] = p})
<1> DEFINE K == DOMAIN x.demand
           M == {k \in K : k[2] = p}
           f == [k \in K |-> x.demand[k] - x.backlog[k]]
           h == [k \in M |-> Get(x.demand, k) - Get(x.backlog, k)]
<1>1. SoldOn(StateView(x), p) = SumFunctionOnSet(f, M)
  BY DEF SoldOn, StateView
<1>2. Sales(x, M) = SumFunctionOnSet(h, M)
  BY DEF Sales
<1>3. \A k \in K : x.demand[k] \in Int /\ x.backlog[k] \in Int
  BY LedgerType, DictType
<1>4. \A k \in K : f[k] \in Int
  BY <1>3
<1>5. \A k \in M : h[k] \in Int /\ h[k] = f[k]
  BY <1>3 DEF Get
<1>6. M \subseteq K /\ IsFiniteSet(M) /\ M \in SUBSET M /\ IsFiniteSet(K)
  BY FS_Subset
<1> HIDE DEF f, h, M, K
<1>7. SumFunctionOnSet(h, M) = SumFunctionOnSet(f, M)
  BY <1>4, <1>5, <1>6, SumSame
<1> QED
  BY <1>1, <1>2, <1>7 DEF M, K

(* What a log moves, by the types of its events.                           *)
LEMMA MovedByType ==
  ASSUME NEW E, IsLog(E), NEW p, \A e \in E : EventNode(e) # NoNode
  PROVE  /\ \A types : Quantity(E, p, types) \in Int
         /\ Moved(E, p) = Quantity(E, p, {"production", "inventory_adjustment"})
                            + Quantity(E, p, {"arrival"})
                            - Quantity(E, p, {"shipment"}) - Quantity(E, p, {"sale"})
<1> DEFINE m == MovesOf(E)
           q == [e \in E |-> e.quantity]
           Of(T, types) == {e \in T : e.product = p /\ e.event_type \in types}
           About(T) == {e \in T : e.product = p}
           S(T) == SumFunctionOnSet(m, About(T))
           Z(T, types) == SumFunctionOnSet(q, Of(T, types))
           In == {"production", "inventory_adjustment"}
           Arr == {"arrival"}
           Ship == {"shipment"}
           Sale == {"sale"}
           Good(T) == S(T) = Z(T, In) + Z(T, Arr) - Z(T, Ship) - Z(T, Sale)
           P == {T \in SUBSET E : Good(T)}
<1>1. IsFiniteSet(E) /\ \A e \in E : m[e] \in Int /\ q[e] \in Int /\ m[e] = Signed(e) /\ q[e] = e.quantity
  BY LogType DEF MovesOf, IsLog, IsFlowEvent
<1>2. \A e \in E : e.event_type \in {"production", "shipment", "arrival", "sale", "inventory_adjustment"}
  BY DEF IsLog, IsFlowEvent, EVENT_PRIORITY
<1>3. \A T \in SUBSET E : About(T) \in SUBSET E /\ \A types : Of(T, types) \in SUBSET E
  OBVIOUS
<1>4. SumFunctionOnSet(m, {}) = 0 /\ SumFunctionOnSet(q, {}) = 0
      /\ \A T \in SUBSET E : SumFunctionOnSet(m, T) \in Int /\ SumFunctionOnSet(q, T) \in Int
  <2> HIDE DEF m, q
  <2> QED
    BY <1>1, SumTakesOut
<1>5. \A T \in SUBSET E : S(T) \in Int /\ \A types : Z(T, types) \in Int
  <2> HIDE DEF m, q
  <2> QED
    BY <1>3, <1>4
<1>6. Good({})
  <2>1. About({}) = {} /\ \A types : Of({}, types) = {}
    OBVIOUS
  <2> HIDE DEF m, q, About, Of
  <2>2. S({}) = 0 /\ \A types : Z({}, types) = 0
    BY <1>4, <2>1
  <2> HIDE DEF S, Z
  <2> QED
    BY <2>2
<1>7. ASSUME NEW T \in SUBSET E, NEW e \in E \ T, Good(T) PROVE Good(T \cup {e})
  <2> DEFINE U == T \cup {e}
  <2>1. e.product # p => About(U) = About(T) /\ \A types : Of(U, types) = Of(T, types)
    OBVIOUS
  <2>2. e.product = p => About(U) = About(T) \cup {e} /\ e \notin About(T)
    OBVIOUS
  <2>3. \A types : e.product = p /\ e.event_type \in types
                     => Of(U, types) = Of(T, types) \cup {e} /\ e \notin Of(T, types)
    OBVIOUS
  <2>4. \A types : e.event_type \notin types => Of(U, types) = Of(T, types)
    OBVIOUS
  <2>5. U \in SUBSET E
    OBVIOUS
  <2> HIDE DEF m, q, U, About, Of
  <2>6. e.product # p => S(U) = S(T) /\ \A types : Z(U, types) = Z(T, types)
    BY <2>1
  <2>7. \A R \in SUBSET E : e \notin R => /\ SumFunctionOnSet(m, R \cup {e}) = SumFunctionOnSet(m, R) + m[e]
                                         /\ SumFunctionOnSet(q, R \cup {e}) = SumFunctionOnSet(q, R) + q[e]
    <3> SUFFICES ASSUME NEW R \in SUBSET E, e \notin R
                 PROVE  /\ SumFunctionOnSet(m, R \cup {e}) = SumFunctionOnSet(m, R) + m[e]
                        /\ SumFunctionOnSet(q, R \cup {e}) = SumFunctionOnSet(q, R) + q[e]
      OBVIOUS
    <3>1. e \in E \ R
      OBVIOUS
    <3>2. SumFunctionOnSet(m, R \cup {e}) = SumFunctionOnSet(m, R) + m[e]
      BY <1>1, <3>1, SumAddOne
    <3>3. SumFunctionOnSet(q, R \cup {e}) = SumFunctionOnSet(q, R) + q[e]
      BY <1>1, <3>1, SumAddOne
    <3> QED
      BY <3>2, <3>3
  <2>8. e.product = p => S(U) = S(T) + m[e]
    BY <1>3, <2>2, <2>7
  <2>9. \A types : e.product = p /\ e.event_type \in types => Z(U, types) = Z(T, types) + q[e]
    BY <1>3, <2>3, <2>7
  <2>10. \A types : e.event_type \notin types => Z(U, types) = Z(T, types)
    BY <2>4
  <2>11. S(T) \in Int /\ Z(T, In) \in Int /\ Z(T, Arr) \in Int /\ Z(T, Ship) \in Int /\ Z(T, Sale) \in Int
         /\ q[e] \in Int /\ m[e] \in Int
    BY <1>1, <1>5
  <2>12. m[e] = IF e.event_type \in {"shipment", "sale"} THEN - q[e] ELSE q[e]
    BY <1>1 DEF Signed
  <2> HIDE DEF S, Z
  <2>13. CASE e.product # p
    <3>1. S(U) = S(T) /\ Z(U, In) = Z(T, In) /\ Z(U, Arr) = Z(T, Arr) /\ Z(U, Ship) = Z(T, Ship)
          /\ Z(U, Sale) = Z(T, Sale)
      BY <2>6, <2>13
    <3> QED
      BY <1>7, <3>1 DEF U
  <2>14. CASE e.product = p /\ e.event_type \in In
    <3>1. S(U) = S(T) + q[e] /\ Z(U, In) = Z(T, In) + q[e] /\ Z(U, Arr) = Z(T, Arr)
          /\ Z(U, Ship) = Z(T, Ship) /\ Z(U, Sale) = Z(T, Sale)
      BY <2>8, <2>9, <2>10, <2>12, <2>14
    <3> QED
      BY <1>7, <2>11, <3>1 DEF U
  <2>15. CASE e.product = p /\ e.event_type \in Arr
    <3>1. S(U) = S(T) + q[e] /\ Z(U, In) = Z(T, In) /\ Z(U, Arr) = Z(T, Arr) + q[e]
          /\ Z(U, Ship) = Z(T, Ship) /\ Z(U, Sale) = Z(T, Sale)
      BY <2>8, <2>9, <2>10, <2>12, <2>15
    <3> QED
      BY <1>7, <2>11, <3>1 DEF U
  <2>16. CASE e.product = p /\ e.event_type \in Ship
    <3>1. S(U) = S(T) + (- q[e]) /\ Z(U, In) = Z(T, In) /\ Z(U, Arr) = Z(T, Arr)
          /\ Z(U, Ship) = Z(T, Ship) + q[e] /\ Z(U, Sale) = Z(T, Sale)
      BY <2>8, <2>9, <2>10, <2>12, <2>16
    <3> QED
      BY <1>7, <2>11, <3>1 DEF U
  <2>17. CASE e.product = p /\ e.event_type \in Sale
    <3>1. S(U) = S(T) + (- q[e]) /\ Z(U, In) = Z(T, In) /\ Z(U, Arr) = Z(T, Arr)
          /\ Z(U, Ship) = Z(T, Ship) /\ Z(U, Sale) = Z(T, Sale) + q[e]
      BY <2>8, <2>9, <2>10, <2>12, <2>17
    <3> QED
      BY <1>7, <2>11, <3>1 DEF U
  <2> QED
    BY <1>2, <2>13, <2>14, <2>15, <2>16, <2>17
<1>8. \A T \in SUBSET E : T \in P
  <2>1. {} \in P
    BY <1>6
  <2>2. ASSUME NEW T \in SUBSET E, NEW e \in E \ T, T \in P PROVE T \cup {e} \in P
    BY <1>7, <2>2
  <2> HIDE DEF P
  <2> QED
    BY <1>1, <2>1, <2>2, FiniteSetInduction
<1>9. Good(E)
  BY <1>8
<1>10. About(E) = AboutProduct(E, p)
  BY DEF AboutProduct
<1>11. S(E) = Moved(E, p)
  BY <1>10 DEF Moved
<1>12. \A types : Z(E, types) = Quantity(E, p, types)
  BY DEF Quantity
<1> HIDE DEF S, Z
<1> QED
  BY <1>5, <1>9, <1>11, <1>12

(* Finitely many things have finitely many values.                         *)
LEMMA FiniteValues ==
  ASSUME NEW S, IsFiniteSet(S), NEW f, DOMAIN f = S
  PROVE  IsFiniteSet({f[x] : x \in S})
<1> DEFINE T == {f[x] : x \in S}
<1>1. [x \in S |-> f[x]] \in Surjection(S, T)
  BY DEF Surjection
<1> QED
  BY <1>1, FS_Surjection

(* The stock of all nodes and what was sold are what the log brought: the  *)
(* balance of the run that derives the state, with the shipments           *)
(* cancelled by the arrivals.                                              *)
LEMMA Conserved == IInv => FlowConserved
<1> SUFFICES ASSUME IInv, DemandKeysUnique, ShipmentsArrive(input.initial), NEW p
             PROVE  OnHand(run_flow(flow_events, input.demands), p)
                      = Quantity(flow_events, p, {"production", "inventory_adjustment"})
                          - Quantity(flow_events, p, {"sale"})
                          - SoldOn(run_flow(flow_events, input.demands), p)
  BY Zenon DEF FlowConserved
<1> DEFINE E == flow_events
           D == input.demands
           n == Len(TimesOf(E, D))
           S == run_flow(E, D)
<1>1. /\ IsLog(E) /\ IsDemands(D) /\ OneDemandEach(D) /\ ShipmentsArrive(E)
      /\ \A e, f \in E : e.creation_sequence = f.creation_sequence => e = f
  <2>1. IsLog(E) /\ SequenceUnique(E) /\ ShipmentsArrive(E) /\ input \in Inputs
    BY DEF IInv, AllArrive, EventOrderTotal
  <2>2. IsDemands(D)
    BY <2>1, InputsFacts
  <2>3. OneDemandEach(D)
    BY DEF OneDemandEach, DemandKeysUnique, DKey
  <2> QED
    BY <2>1, <2>2, <2>3 DEF SequenceUnique
<1> HIDE DEF E, D
<1>2. PICK g : IsRun(g, E, D) /\ S = StateView(g[n])
  BY <1>1, RunOfFlow
<1>3. n \in 0 .. n
  BY <1>1, TimesFacts
<1>4. PICK x \in Ledgers : x = g[n]
  BY <1>2, <1>3 DEF IsRun
<1>5. DOMAIN x.demand = DKeys(D) /\ DOMAIN x.backlog = DKeys(D)
  <2>1. S.demand = x.demand /\ S.backlog = x.backlog
    BY <1>2, <1>4 DEF StateView
  <2> QED
    BY <1>1, <2>1, StateFacts
<1> DEFINE N == {EventNode(e) : e \in E} \cup {d.market : d \in D}
           M == {k \in DOMAIN x.demand : k[2] = p}
<1>6. IsFiniteSet(N) /\ IsFiniteSet(DOMAIN x.demand) /\ IsFiniteSet(M)
  <2> DEFINE node == [e \in E |-> EventNode(e)]
             market == [d \in D |-> d.market]
             key == [d \in D |-> DKey(d)]
  <2>1. IsFiniteSet(E) /\ IsFiniteSet(D)
    BY <1>1 DEF IsLog, IsDemands
  <2>2. /\ {EventNode(e) : e \in E} = {node[e] : e \in E} /\ DOMAIN node = E
        /\ {d.market : d \in D} = {market[d] : d \in D} /\ DOMAIN market = D
        /\ DKeys(D) = {key[d] : d \in D} /\ DOMAIN key = D
    BY DEF DKeys
  <2> HIDE DEF node, market, key
  <2>3. IsFiniteSet({node[e] : e \in E}) /\ IsFiniteSet({market[d] : d \in D})
        /\ IsFiniteSet({key[d] : d \in D})
    BY <2>1, <2>2, FiniteValues
  <2>4. IsFiniteSet({EventNode(e) : e \in E} \cup {d.market : d \in D})
    BY <2>2, <2>3, FS_Union
  <2>5. IsFiniteSet(DOMAIN x.demand)
    BY <1>5, <2>2, <2>3
  <2>6. M \subseteq DOMAIN x.demand
    OBVIOUS
  <2> QED
    BY <2>4, <2>5, <2>6, FS_Subset
<1>7. Ground(E, D, p, N, M)
  <2>1. \A e \in E : EventNode(e) \in N
    OBVIOUS
  <2>2. \A d \in D : d.market \in N /\ (DKey(d) \in M <=> d.product = p)
    BY <1>5 DEF DKeys, DKey
  <2> QED
    BY <1>1, <1>6, <2>1, <2>2 DEF Ground
<1> HIDE DEF n, S, N
<1>8. Balance(x, p, N, M) = Moved(E, p)
  BY <1>2, <1>4, <1>7, RunBalances DEF n
<1>9. OnHand(S, p) = Held(x, p, N)
  <2>1. \A e \in E : EventNode(e) # NoNode => EventNode(e) \in N
    BY DEF N
  <2>2. \A d \in D : d.market \in N
    BY DEF N
  <2>3. Snapshot(x, N)
    BY <1>1, <1>2, <1>3, <1>4, <2>1, <2>2, RunSnapshots DEF n
  <2> QED
    BY <1>2, <1>4, <1>6, <2>3, OnHandIsHeld
<1>10. SoldOn(S, p) = Sales(x, M)
  BY <1>2, <1>4, <1>5, <1>6, SoldOnIsSales
<1> HIDE DEF M
<1>11. Held(x, p, N) \in Int /\ Sales(x, M) \in Int
  BY <1>6, BalanceType
<1>12. /\ \A types : Quantity(E, p, types) \in Int
       /\ Moved(E, p) = Quantity(E, p, {"production", "inventory_adjustment"})
                          + Quantity(E, p, {"arrival"})
                          - Quantity(E, p, {"shipment"}) - Quantity(E, p, {"sale"})
  <2>1. \A e \in E : EventNode(e) # NoNode
    BY <1>1 DEF ShipmentsArrive
  <2> QED
    BY <1>1, <2>1, MovedByType
<1>13. Quantity(E, p, {"shipment"}) = Quantity(E, p, {"arrival"})
  BY <1>1, ShippedArrives
<1>14. OnHand(S, p) = Quantity(E, p, {"production", "inventory_adjustment"})
                        - Quantity(E, p, {"sale"}) - SoldOn(S, p)
  BY <1>8, <1>9, <1>10, <1>11, <1>12, <1>13 DEF Balance
<1> QED
  BY <1>14 DEF S, E, D

-----------------------------------------------------------------------------
(* The other invariants of the runs.                                       *)

LEMMA ReplayedAlike == IInv => ReplayDerivesSameState
<1> SUFFICES ASSUME IInv
             PROVE  LET stored == [e \in flow_events |-> <<e.time_bucket, e.creation_sequence>>]
                    IN  Derive(flow_events, stored, input.demands)
                          = run_flow(flow_events, input.demands)
  BY DEF ReplayDerivesSameState
<1> DEFINE stored == [e \in flow_events |-> <<e.time_bucket, e.creation_sequence>>]
           key == [e \in flow_events |-> EventKey(e)]
           D == input.demands
<1>1. IsLog(flow_events) /\ IsDemands(D)
      /\ \A e, f \in flow_events : e.creation_sequence = f.creation_sequence => e = f
  BY HistoryStates DEF IInv, EventOrderTotal, SequenceUnique
<1>2. KeyOf(key, 3) /\ KeyOf(stored, 2) /\ DOMAIN key = flow_events /\ DOMAIN stored = flow_events
      /\ 3 \in Nat /\ 2 \in Nat
  BY <1>1, KeysOfLog
<1>3. run_flow(flow_events, D) = Derive(flow_events, key, D)
  BY Zenon DEF run_flow, With
<1> HIDE DEF stored, key, D
<1>4. Derive(flow_events, stored, D) = Derive(flow_events, key, D)
  BY <1>1, <1>2, DeriveIgnoresOrder
<1> QED
  BY <1>3, <1>4 DEF stored, D

LEMMA BacklogUnmet == IInv => BacklogIsUnmetDemand
<1> SUFFICES ASSUME IInv, DemandKeysUnique, NEW i \in 1 .. Len(history),
                    NEW k \in DOMAIN history[i].state.demand
             PROVE  LET state == history[i].state
                    IN  /\ state.backlog[k] \in 0 .. state.demand[k]
                        /\ state.backlog[k] > 0 => state.inventory[k] <= 0
  BY DEF BacklogIsUnmetDemand
<1> DEFINE E == LogAt(i)
           D == input.demands
           n == Len(TimesOf(E, D))
           state == history[i].state
<1>1. state = run_flow(E, D) /\ IsKernelLog(E) /\ IsDemands(D)
  BY HistoryStates
<1>2. OneDemandEach(D)
  BY DEF OneDemandEach, DemandKeysUnique, DKey
<1>2a. k \in DOMAIN state.demand
  OBVIOUS
<1> HIDE DEF E, D, state
<1>3. IsLog(E) /\ \A e, f \in E : e.creation_sequence = f.creation_sequence => e = f
  BY <1>1 DEF IsKernelLog, SequenceUnique
<1>4. PICK g : IsRun(g, E, D) /\ run_flow(E, D) = StateView(g[n])
  BY <1>1, <1>3, RunOfFlow
<1>5. n \in 0 .. n
  BY <1>1, <1>3, TimesFacts
<1>6. /\ DOMAIN g[n].demand = {DKey(d) : d \in AskedBy(E, D, n)}
      /\ DOMAIN g[n].backlog = {DKey(d) : d \in AskedBy(E, D, n)}
  BY <1>1, <1>3, <1>4, <1>5, RunKeys
<1>7. state.demand = g[n].demand /\ state.backlog = g[n].backlog /\ state.inventory = g[n].inventory
  BY <1>1, <1>4 DEF StateView
<1>8. PICK d \in AskedBy(E, D, n) : k = DKey(d)
  BY <1>2a, <1>6, <1>7
<1>9. /\ Get(g[n].demand, DKey(d)) = d.quantity
      /\ Get(g[n].backlog, DKey(d)) \in 0 .. d.quantity
      /\ Get(g[n].backlog, DKey(d)) > 0 => g[n].inventory[DKey(d)] <= 0
  BY <1>1, <1>2, <1>3, <1>4, <1>5, RunOwes
<1>10. Get(g[n].demand, k) = state.demand[k] /\ Get(g[n].backlog, k) = state.backlog[k]
  BY <1>2a, <1>6, <1>7 DEF Get
<1> HIDE DEF n
<1>11. /\ state.backlog[k] \in 0 .. state.demand[k]
       /\ state.backlog[k] > 0 => state.inventory[k] <= 0
  BY <1>7, <1>8, <1>9, <1>10
<1> QED
  BY <1>11 DEF state

-----------------------------------------------------------------------------
(* What an operator without lead time does to the backlogs.                *)

(* The chain that brings q to the demand d takes away its backlog alone.   *)
ClearedBy(E, D, d, id, source, q) ==
  run_flow(E \cup Chain(id, d.product, source, d.market, d.time_bucket, 0, q,
                        next_sequence(E)), D).backlog
    = [run_flow(E, D).backlog EXCEPT ![DKey(d)] = 0]

(* A chain in the bucket of a demand, to its market and of what the demand *)
(* lacks, takes its backlog away and leaves the others.                    *)
LEMMA ChainClears ==
  ASSUME NEW E, IsKernelLog(E), NoNetLoss(E), NEW D, IsDemands(D), OneDemandEach(D),
         NEW d \in D, NEW id, NEW source \in Nat, NEW q \in Nat \ {0},
         q = run_flow(E, D).backlog[DKey(d)]
  PROVE  ClearedBy(E, D, d, id, source, q)
<1> DEFINE F == E \cup Chain(id, d.product, source, d.market, d.time_bucket, 0, q,
                             next_sequence(E))
           seq == next_sequence(E)
           t == d.time_bucket
           k == DKey(d)
           C == Chain(id, d.product, source, d.market, t, 0, q, seq)
           n == Len(TimesOf(E, D))
<1>1. /\ d.product \in Nat /\ d.market \in Nat /\ d.market # NoNode /\ t \in Nat /\ 0 \in Int
  BY DEF IsDemands, IsDemand
<1>2. IsLog(E) /\ \A e, f \in E : e.creation_sequence = f.creation_sequence => e = f
  BY DEF IsKernelLog, SequenceUnique
<1>3. seq \in Nat /\ \A e \in E : e.creation_sequence < seq
  BY <1>2, NextSequenceIs DEF Below
<1> HIDE DEF seq
<1>4. PICK a, b, c : IsChain(C, a, b, c, d.product, source, d.market, t, 0, q, seq)
  BY <1>1, <1>3, ChainIs
<1> HIDE DEF C
<1>5. \A u, x : MovesBy(E, C, u, x, Brought(d.product, source, d.market, t, 0, q, u, x))
  BY <1>1, <1>2, <1>3, <1>4, ChainMoves
<1>6. F = E \cup C
  BY DEF C, seq
<1> HIDE DEF F
<1>7. IsLog(F)
  BY <1>5, <1>6 DEF MovesBy
<1>8. advance_time_bucket(t, 0) = t
  BY DEF advance_time_bucket
<1>9. C = {a, b, c} /\ a.time_bucket = t /\ b.time_bucket = t /\ c.time_bucket = t
  BY <1>4, <1>8 DEF IsChain
<1>10. \A u : u # t => InBucket(F, u) = InBucket(E, u)
  BY <1>6, <1>9 DEF InBucket
<1>11. TimesOf(F, D) = TimesOf(E, D)
  <2>1. {x.time_bucket : x \in F \cup D} = {x.time_bucket : x \in E \cup D}
    BY <1>6, <1>9
  <2> QED
    BY <2>1 DEF TimesOf
<1>12. ASSUME NEW x
       PROVE  NetMove(InBucket(F, t), x)
                = NetMove(InBucket(E, t), x) + (IF x = DStock(d) THEN q ELSE 0)
  <2>1. MovesBy(E, C, t, x, Brought(d.product, source, d.market, t, 0, q, t, x))
    BY <1>5
  <2>2. First(d.market, source) = d.market
    BY <1>1 DEF First
  <2>3. Brought(d.product, source, d.market, t, 0, q, t, x) = IF x = DStock(d) THEN q ELSE 0
    BY <1>1, <1>8, <2>2 DEF Brought, DStock
  <2> QED
    BY <1>6, <2>1, <2>3 DEF MovesBy
<1>13. \A e, f \in F : e.creation_sequence = f.creation_sequence => e = f
  <2>1. /\ C = {a, b, c} /\ a.creation_sequence = seq /\ b.creation_sequence = seq + 1
        /\ c.creation_sequence = seq + 2
    BY <1>4 DEF IsChain
  <2>2. \A e \in E : e.creation_sequence \in Nat
    BY <1>2 DEF IsLog, IsFlowEvent
  <2> QED
    BY <1>2, <1>3, <1>6, <2>1, <2>2
<1>14. PICK g : IsRun(g, E, D) /\ run_flow(E, D) = StateView(g[n])
  BY <1>2, RunOfFlow
<1>15. PICK h : IsRun(h, F, D) /\ run_flow(F, D) = StateView(h[n])
  BY <1>7, <1>11, <1>13, RunOfFlow
<1>16. run_flow(E, D).backlog = g[n].backlog /\ run_flow(F, D).backlog = h[n].backlog
  BY <1>14, <1>15 DEF StateView
<1>17. /\ DOMAIN g[n].backlog = DKeys(D) /\ DOMAIN h[n].backlog = DKeys(D)
       /\ g[n].backlog \in Dicts(Triples) /\ h[n].backlog \in Dicts(Triples)
  BY <1>2, <1>7, <1>13, <1>16, StateFacts
<1>18. k \in DKeys(D) /\ q \in Int /\ q > 0 /\ q = Get(g[n].backlog, k)
  BY <1>16, <1>17 DEF DKeys, Get
<1>19. Cleared(g[n], h[n], k)
  <2>1. \A u : u # d.time_bucket => InBucket(F, u) = InBucket(E, u)
    BY <1>10
  <2>2. \A x : NetMove(InBucket(F, d.time_bucket), x)
                 = NetMove(InBucket(E, d.time_bucket), x) + (IF x = DStock(d) THEN q ELSE 0)
    BY <1>12
  <2> QED
    BY <1>2, <1>7, <1>11, <1>14, <1>15, <1>18, <2>1, <2>2, RunsClear
<1> HIDE DEF k, n
<1>20. ASSUME NEW x \in DKeys(D)
       PROVE  h[n].backlog[x] = IF x = k THEN 0 ELSE g[n].backlog[x]
  <2>1. Get(h[n].backlog, x) = IF x = k THEN 0 ELSE Get(g[n].backlog, x)
    BY <1>19 DEF Cleared
  <2> QED
    BY <1>17, <2>1 DEF Get
<1>21. /\ h[n].backlog = [x \in DKeys(D) |-> h[n].backlog[x]]
       /\ g[n].backlog = [x \in DKeys(D) |-> g[n].backlog[x]]
  BY <1>17 DEF Dicts
<1> QED
  BY <1>16, <1>17, <1>18, <1>20, <1>21 DEF k, F, ClearedBy

LEMMA EarliestCleared == IInv => EarliestStockoutCleared
<1> SUFFICES ASSUME IInv, input.lead_time = 0, input.initial = {}, DemandKeysUnique,
                    NEW i \in 1 .. Len(history) - 1
             PROVE  \E k \in Stockouts(history[i].state) :
                      /\ IsEarliest(k, Stockouts(history[i].state))
                      /\ history[i + 1].state.backlog
                           = [history[i].state.backlog EXCEPT ![k] = 0]
  BY DEF EarliestStockoutCleared
<1> DEFINE E == LogAt(i)
           F == LogAt(i + 1)
           D == input.demands
           net == Network(input)
           S == run_flow(E, D)
           candidates == generate_candidates(history[i].trust_events, net)
           op == candidates[1]
<1>1. Len(history) \in Nat /\ i \in 1 .. Len(history) /\ i + 1 \in 1 .. Len(history)
      /\ i \in 1 .. Len(selected_operators)
  <2>1. Len(history) \in Nat /\ Len(selected_operators) \in Nat
        /\ Len(history) - Len(selected_operators) \in {0, 1}
    BY HistoryStates DEF IInv
  <2> QED
    BY <2>1
<1>2. /\ history[i].state = S /\ IsKernelLog(E) /\ NoNetLoss(E) /\ IsDemands(D)
      /\ history[i + 1].state = run_flow(F, D)
      /\ input \in Inputs
  BY <1>1, HistoryStates
<1>3. IsLog(E) /\ \A e, f \in E : e.creation_sequence = f.creation_sequence => e = f
  BY <1>2 DEF IsKernelLog, SequenceUnique
<1>4. /\ candidates # <<>> /\ F = apply_operator(E, op, input.lead_time)
      /\ history[i].trust_events = detect_trust_events(S, input.capacity_limit)
  <2>1. Answered(i) /\ history[i] = Seen(E, input)
    BY <1>1 DEF IInv, HistoryTold
  <2> QED
    BY <2>1 DEF Answered, Seen
<1>5. OneDemandEach(D)
  BY DEF OneDemandEach, DemandKeysUnique, DKey
<1>6. HasBacklogs(S) /\ DOMAIN S.backlog = DKeys(D)
  BY <1>2, <1>3, StateHasBacklogs, StateFacts
<1>7. IsNetwork(net)
  BY <1>2, InputsFacts
<1>8. input.lead_time = 0
  OBVIOUS
<1> HIDE DEF E, F, D, S, net
<1>9. PICK k \in Stockouts(S) : Earliest(k, Stockouts(S)) /\ op = Answer(S, k, net)
  <2>1. candidates = generate_candidates(detect_trust_events(S, input.capacity_limit), net)
    BY <1>4
  <2> HIDE DEF candidates
  <2> QED
    BY <1>4, <1>6, <2>1, FirstCandidate
<1>10. PICK d \in D : k = DKey(d)
  BY <1>6 DEF Stockouts, DKeys
<1>11. k \in Triples /\ S.backlog[k] \in Nat \ {0}
  BY <1>6, RiskKeys
<1>12. SourceFor(Risk(S, k), net) \in Nat \ {NoNode}
  <2>1. Risk(S, k).node \in Nat \ {NoNode}
    <3>1. k[1] = d.market /\ d.market # NoNode
      BY <1>2, <1>10 DEF DKey, IsDemands, IsDemand
    <3> QED
      BY <1>11, <3>1 DEF Risk, Triples
  <2> QED
    BY <1>7, <2>1, SourceType
<1>13. F = E \cup Chain(<<"op", k[1], k[2], k[3]>>, d.product, SourceFor(Risk(S, k), net),
                        d.market, d.time_bucket, 0, S.backlog[k], next_sequence(E))
  <2>1. /\ op.operator_id = <<"op", k[1], k[2], k[3]>> /\ op.product = k[2]
        /\ op.source_node = SourceFor(Risk(S, k), net)
        /\ op.destination_node = k[1] /\ op.time_bucket = k[3] /\ op.quantity = S.backlog[k]
    BY <1>9 DEF Answer
  <2>2. k[1] = d.market /\ k[2] = d.product /\ k[3] = d.time_bucket
    BY <1>10 DEF DKey
  <2> HIDE DEF op
  <2> QED
    BY <1>4, <1>8, <2>1, <2>2 DEF apply_operator
<1>14. run_flow(F, D).backlog = [S.backlog EXCEPT ![k] = 0]
  <2>1. S.backlog[k] = run_flow(E, D).backlog[DKey(d)]
    BY <1>10 DEF S
  <2>2. run_flow(F, D).backlog = [run_flow(E, D).backlog EXCEPT ![DKey(d)] = 0]
    <3> DEFINE id == <<"op", k[1], k[2], k[3]>>
               source == SourceFor(Risk(S, k), net)
               q == S.backlog[k]
    <3>1. /\ source \in Nat /\ q \in Nat \ {0} /\ q = run_flow(E, D).backlog[DKey(d)]
          /\ F = E \cup Chain(id, d.product, source, d.market, d.time_bucket, 0, q,
                              next_sequence(E))
      BY <1>11, <1>12, <1>13, <2>1
    <3> HIDE DEF id, source, q
    <3>2. IsKernelLog(E) /\ NoNetLoss(E) /\ IsDemands(D) /\ OneDemandEach(D) /\ d \in D
      BY <1>2, <1>5
    <3>3. ClearedBy(E, D, d, id, source, q)
      BY <3>1, <3>2, ChainClears
    <3> QED
      BY <3>1, <3>3 DEF ClearedBy
  <2> QED
    BY <1>10, <2>2 DEF S
<1>15. IsEarliest(k, Stockouts(S))
  BY <1>9 DEF Earliest, IsEarliest
<1> QED
  BY <1>2, <1>9, <1>14, <1>15

(* A run that stopped because nothing was left to do returns the state of  *)
(* the log it returns; one stopped by its budget need not.                 *)
SettledStateIsOfFinalLog ==
  phase = "returned" /\ Len(selected_operators) < Len(history) =>
    final_state = run_flow(flow_events, input.demands)

LEMMA SettledState == IInv => SettledStateIsOfFinalLog
<1> SUFFICES ASSUME IInv, Len(selected_operators) < Len(history)
             PROVE  final_state = run_flow(flow_events, input.demands)
  BY DEF SettledStateIsOfFinalLog
<1> DEFINE n == Len(history)
<1>1. n \in Nat /\ n \in 1 .. n /\ n = Len(selected_operators) + 1
  <2>1. n \in Nat /\ Len(selected_operators) \in Nat /\ n - Len(selected_operators) \in {0, 1}
    BY HistoryStates DEF IInv
  <2> QED
    BY <2>1
<1>2. LogAt(n) = flow_events
  BY <1>1 DEF IInv, HistoryTold
<1>3. history[n].state = run_flow(LogAt(n), input.demands)
  BY <1>1, HistoryStates
<1> QED
  BY <1>2, <1>3 DEF final_state, Last

(* Every run of the kernel keeps its locals within what the code relies on *)
(* (in particular history[-1] and next_seq), for all inputs.               *)
THEOREM TypeCorrect == Spec => []TypeOK
<1>1. IInv => TypeOK
  BY DEF IInv, TypeOK, IsLog, IsFlowEvent
<1> QED
  BY Invariance, <1>1, PTL

(* run_flow's sort by (time_bucket, priority, creation_sequence) is total  *)
(* on every log the kernel builds, for all lots, initial logs, operators   *)
(* and budgets.                                                            *)
THEOREM OrderIsTotal == Spec => []EventOrderTotal
<1>1. IInv => EventOrderTotal
  BY DEF IInv
<1> QED
  BY Invariance, <1>1, PTL

(* Goods leave a node only after they are there: no stock of any derived   *)
(* state is negative, for all lots, demands, networks and lead times.      *)
THEOREM StocksStayNonNegative == Spec => []StockNeverNegative
  BY Invariance, NeverNegative, PTL

(* Goods are conserved: what all nodes hold of a product in the state      *)
(* derived from the log is what was made or adjusted in minus what was     *)
(* sold, for all lots, demands, networks, lead times and opening logs      *)
(* whose shipments have arrived.                                           *)
THEOREM GoodsAreConserved == Spec => []FlowConserved
  BY Invariance, Conserved, PTL

(* Replaying a log in the order in which it is stored derives the state    *)
(* that the kernel's own order derives, for every log.                     *)
THEOREM ReplayIsFaithful == Spec => []ReplayDerivesSameState
  BY Invariance, ReplayedAlike, PTL

(* A backlog lies between zero and the demand, and a stockout leaves no    *)
(* stock, for all logs and demands.                                        *)
THEOREM BacklogTellsUnmetDemand == Spec => []BacklogIsUnmetDemand
  BY Invariance, BacklogUnmet, PTL

(* With no lead time, the operator applied after an iteration clears       *)
(* exactly the earliest stockout seen in it and leaves every other backlog *)
(* as it was, for all lots, demands, networks and limits.                  *)
THEOREM OperatorClearsEarliest == Spec => []EarliestStockoutCleared
  BY Invariance, EarliestCleared, PTL

(* A run that ends for want of a candidate returns the state derived from  *)
(* the event log it returns: what the event store relies on when it        *)
(* replays the log of a completed call.                                    *)
THEOREM SettledRunsAreWhole == Spec => []SettledStateIsOfFinalLog
  BY Invariance, SettledState, PTL

(* Every new event lies in a canonical week, and arrives the lead time     *)
(* after its shipment, across year ends too, for all calendars.            *)
THEOREM ArrivalsKeepLeadTime == Spec => []ArrivalAfterLeadTime
<1>1. IInv => ArrivalAfterLeadTime
  BY DEF IInv, OnTime, ArrivalAfterLeadTime
<1> QED
  BY Invariance, <1>1, PTL
=============================================================================
