-------------------------- MODULE EventStoreProofs --------------------------
(***************************************************************************)
(* Proofs about EventStore for any number of processes, any calls and any  *)
(* initial store: the rows under a session are always those of its own     *)
(* run, a completed session is complete, and the store implements          *)
(* PublishedRuns.                                                          *)
(***************************************************************************)
EXTENDS EventStore, OperatorLemmas

AfterKernel == {"history", "trust", "operators", "flow", "complete", "end"}

(* Where a process stands agrees with its outcome, and past the kernel it  *)
(* has at least one iteration to save.                                     *)
Placed(p) ==
  /\ proc[p].stage = "start" <=> proc[p].outcome = "idle"
  /\ proc[p].stage = "end" <=> proc[p].outcome = "returned"
  /\ proc[p].outcome = "running" => proc[p].call.found
  /\ proc[p].stage \in AfterKernel => Len(Result(p).history) > 0

(* The inductive invariant.  That a process knows every row under its      *)
(* session needs all of it: no orphans waited for the session id, and no   *)
(* other process writes under it.                                          *)
IInv ==
  /\ TypeOK
  /\ NoOrphanRows
  /\ OneOwnerPerSession
  /\ SavedUpToStage
  /\ \A p \in Processes : Placed(p)

-----------------------------------------------------------------------------
(* Rows.                                                                   *)

LEMMA RowSessions ==
  ASSUME NEW call, NEW i
  PROVE  /\ HistoryRow(call, i).session = call.session
         /\ \A r \in TrustRows(call, i) : r.session = call.session
         /\ \A r \in OperatorRows(call) : r.session = call.session
         /\ \A r \in FlowRows(call) : r.session = call.session
BY DEF HistoryRow, TrustRows, OperatorRows, FlowRows

(* An image grows by one element at the end of its interval.               *)
LEMMA OneMoreIteration ==
  ASSUME NEW i \in Nat
  PROVE  0 .. (i + 1) - 1 = (0 .. i - 1) \cup {i}
OBVIOUS

-----------------------------------------------------------------------------
(* Processes.                                                              *)

(* A process that goes on keeps its call and its outcome.                  *)
LEMMA GotoFacts ==
  ASSUME proc \in [Processes -> {Idle} \cup Started],
         NEW p \in Processes, proc[p] \in Started,
         NEW stage \in Stages \ {"start"}, NEW i \in Nat, Goto(p, stage, i)
  PROVE  /\ proc' \in [Processes -> {Idle} \cup Started]
         /\ \A q \in Processes : q # p => proc'[q] = proc[q]
         /\ proc'[p].stage = stage /\ proc'[p].i = i
         /\ proc'[p].outcome = proc[p].outcome /\ proc'[p].call = proc[p].call
<1>1. proc' = [proc EXCEPT ![p] = [proc[p] EXCEPT !.stage = stage, !.i = i]]
  BY DEF Goto
<1>2. [proc[p] EXCEPT !.stage = stage, !.i = i] \in Started
  BY DEF Started
<1> QED
  BY <1>1, <1>2 DEF Started

LEMMA RunningIsStarted ==
  ASSUME TypeOK, NEW p \in Processes, proc[p].outcome = "running"
  PROVE  /\ proc[p] \in Started
         /\ proc[p].call \in Calls /\ proc[p].i \in Nat
         /\ Len(Result(p).history) \in Nat
<1>1. proc[p] \in Started
  BY DEF TypeOK, Idle
<1> QED
  BY <1>1, CallsAssumption DEF Started, Result

(* What Saved speaks of did not change.                                    *)
LEMMA StillSaved ==
  ASSUME NEW q, Saved(q),
         proc'[q].call = proc[q].call, proc'[q].stage = proc[q].stage,
         proc'[q].i = proc[q].i,
         Session(q) \in DOMAIN sessions',
         sessions'[Session(q)] = sessions[Session(q)],
         RowsOf(history', Session(q)) = RowsOf(history, Session(q)),
         RowsOf(trust', Session(q)) = RowsOf(trust, Session(q)),
         RowsOf(operators', Session(q)) = RowsOf(operators, Session(q)),
         RowsOf(flow', Session(q)) = RowsOf(flow, Session(q))
  PROVE  Saved(q)'
BY DEF Saved, Session, Result, HistorySaved, TrustSaved, RowsOf

(* What a step of p that writes under p's own session leaves intact.       *)
LEMMA OwnWrite ==
  ASSUME IInv, NEW p \in Processes, Owns(p), Owns(p)',
         proc'[p].call = proc[p].call,
         \A q \in Processes : q # p => proc'[q] = proc[q],
         history \subseteq history', \A r \in history' \ history : r.session = Session(p),
         trust \subseteq trust', \A r \in trust' \ trust : r.session = Session(p),
         operators \subseteq operators',
         \A r \in operators' \ operators : r.session = Session(p),
         flow \subseteq flow', \A r \in flow' \ flow : r.session = Session(p),
         DOMAIN sessions' = DOMAIN sessions,
         \A s \in DOMAIN sessions : s # Session(p) => sessions'[s] = sessions[s]
  PROVE  /\ NoOrphanRows'
         /\ OneOwnerPerSession'
         /\ \A q \in Processes : q # p /\ Owns(q)' => Saved(q)'
<1>1. Session(p) \in DOMAIN sessions
  BY DEF IInv, SavedUpToStage, Saved
<1>2. NoOrphanRows'
  BY <1>1 DEF IInv, NoOrphanRows
<1>3. OneOwnerPerSession'
  BY DEF IInv, OneOwnerPerSession, Owns, Session
<1>4. \A q \in Processes : q # p /\ Owns(q)' => Saved(q)'
  <2> SUFFICES ASSUME NEW q \in Processes, q # p, Owns(q)'
               PROVE  Saved(q)'
    OBVIOUS
  <2>1. proc'[q] = proc[q] /\ Owns(q)
    BY DEF Owns
  <2>2. Saved(q) /\ Session(q) # Session(p)
    BY <2>1 DEF IInv, SavedUpToStage, OneOwnerPerSession
  <2>3. /\ RowsOf(history', Session(q)) = RowsOf(history, Session(q))
        /\ RowsOf(trust', Session(q)) = RowsOf(trust, Session(q))
        /\ RowsOf(operators', Session(q)) = RowsOf(operators, Session(q))
        /\ RowsOf(flow', Session(q)) = RowsOf(flow, Session(q))
    BY <2>2 DEF RowsOf
  <2>4. Session(q) \in DOMAIN sessions' /\ sessions'[Session(q)] = sessions[Session(q)]
    BY <2>2 DEF Saved
  <2> QED
    BY <2>1, <2>2, <2>3, <2>4, StillSaved
<1> QED
  BY <1>2, <1>3, <1>4

(* The invariant after such a step, given what is particular to it.        *)
LEMMA AfterStep ==
  ASSUME IInv, NEW p \in Processes, TypeOK', NoOrphanRows', OneOwnerPerSession',
         \A q \in Processes : q # p /\ Owns(q)' => Saved(q)',
         \A q \in Processes : q # p => proc'[q] = proc[q],
         Owns(p)' => Saved(p)', Placed(p)'
  PROVE  IInv'
<1>1. \A q \in Processes : q # p => Placed(q)'
  BY DEF IInv, Placed, Result
<1>2. SavedUpToStage'
  BY DEF SavedUpToStage
<1> QED
  BY <1>1, <1>2 DEF IInv

-----------------------------------------------------------------------------

LEMMA InitIInv == Init => IInv
<1> SUFFICES ASSUME Init PROVE IInv
  OBVIOUS
<1>1. PICK store \in InitialStores :
        /\ sessions = store.sessions /\ history = store.history
        /\ trust = store.trust /\ operators = store.operators /\ flow = store.flow
  BY DEF Init
<1>2. \A p \in Processes : proc[p] = Idle
  BY DEF Init
<1>3. TypeOK
  BY <1>1, <1>2, InitialStoresAssumption DEF Init, TypeOK, Idle
<1>4. NoOrphanRows
  BY <1>1, InitialStoresAssumption DEF NoOrphanRows
<1>5. OneOwnerPerSession /\ SavedUpToStage
  BY <1>2 DEF OneOwnerPerSession, SavedUpToStage, Owns, Idle
<1>6. \A p \in Processes : Placed(p)
  BY <1>2 DEF Placed, Idle, AfterKernel
<1> QED
  BY <1>3, <1>4, <1>5, <1>6 DEF IInv

LEMMA StartIInv ==
  ASSUME IInv, NEW p \in Processes, Start(p)
  PROVE  IInv'
<1>1. PICK call \in Calls :
        proc' = [proc EXCEPT ![p] = [outcome |-> IF call.found THEN "running" ELSE "raised",
                                     stage |-> "create", i |-> 0, call |-> call]]
  BY DEF Start
<1>2. UNCHANGED tables /\ UNCHANGED <<sessions, history, trust, operators, flow>>
  BY DEF Start, tables
<1>3. /\ proc \in [Processes -> {Idle} \cup Started]
      /\ \A q \in Processes : q # p => proc'[q] = proc[q]
      /\ proc'[p].stage = "create" /\ proc'[p].call = call
      /\ proc'[p].outcome = IF call.found THEN "running" ELSE "raised"
  BY <1>1 DEF IInv, TypeOK
<1>4. TypeOK'
  BY <1>1, <1>2, <1>3 DEF IInv, TypeOK, Started, Outcomes, Stages, Iterations
<1>5. NoOrphanRows' /\ OneOwnerPerSession'
  BY <1>2, <1>3 DEF IInv, NoOrphanRows, OneOwnerPerSession, Owns, Session
<1>6. \A q \in Processes : q # p /\ Owns(q)' => Saved(q)'
  <2> SUFFICES ASSUME NEW q \in Processes, q # p, Owns(q)'
               PROVE  Saved(q)'
    OBVIOUS
  <2>1. Saved(q) /\ proc'[q] = proc[q]
    BY <1>3 DEF IInv, SavedUpToStage, Owns
  <2> QED
    BY <1>2, <2>1, StillSaved DEF Saved
<1>7. ~ Owns(p)' /\ Placed(p)'
  BY <1>3 DEF Owns, Placed, AfterKernel
<1> QED
  BY <1>3, <1>4, <1>5, <1>6, <1>7, AfterStep

LEMMA CreateSessionIInv ==
  ASSUME IInv, NEW p \in Processes, CreateSession(p)
  PROVE  IInv'
<1> DEFINE s == Session(p)
<1>1. /\ proc[p] \in Started /\ proc[p].call \in Calls /\ proc[p].call.found
      /\ proc[p].stage = "create" /\ proc[p].outcome = "running"
  BY RunningIsStarted DEF CreateSession, At, IInv, Placed
<1>2. s \notin DOMAIN sessions
  BY <1>1 DEF CreateSession, Refused, Session
<1>3. UNCHANGED <<history, trust, operators, flow>>
  BY DEF CreateSession
<1>4. /\ DOMAIN sessions' = DOMAIN sessions \cup {s}
      /\ sessions'[s] = [scenario |-> Scenario(p), status |-> "running"]
      /\ \A t \in DOMAIN sessions : sessions'[t] = sessions[t]
  BY <1>2 DEF CreateSession, Put
<1>5. /\ proc' \in [Processes -> {Idle} \cup Started]
      /\ \A q \in Processes : q # p => proc'[q] = proc[q]
      /\ proc'[p].stage = "kernel" /\ proc'[p].i = 0
      /\ proc'[p].outcome = proc[p].outcome /\ proc'[p].call = proc[p].call
  BY <1>1, GotoFacts DEF CreateSession, IInv, TypeOK, Stages
<1>6. TypeOK'
  <2>1. sessions' \in [DOMAIN sessions' -> [scenario : ScenarioTable, status : Statuses]]
    <3>1. Scenario(p) \in ScenarioTable
      BY <1>1, CallsAssumption DEF Scenario
    <3>2. sessions' = [t \in DOMAIN sessions' |-> sessions'[t]]
      BY DEF CreateSession, Put
    <3>3. \A t \in DOMAIN sessions' :
            sessions'[t] \in [scenario : ScenarioTable, status : Statuses]
      BY <1>4, <3>1, StatusesAssumption DEF IInv, TypeOK
    <3> QED
      BY <3>2, <3>3
  <2> QED
    BY <2>1, <1>5 DEF IInv, TypeOK, Iterations
<1>7. NoOrphanRows'
  BY <1>3, <1>4 DEF IInv, NoOrphanRows
<1>8. \A q \in Processes : Owns(q) => Saved(q) /\ Session(q) # s
  BY <1>2 DEF IInv, SavedUpToStage, Saved
<1>9. OneOwnerPerSession'
  BY <1>5, <1>8 DEF IInv, OneOwnerPerSession, Owns, Session
<1>10. \A q \in Processes : q # p /\ Owns(q)' => Saved(q)'
  <2> SUFFICES ASSUME NEW q \in Processes, q # p, Owns(q)'
               PROVE  Saved(q)'
    OBVIOUS
  <2>1. Saved(q) /\ proc'[q] = proc[q]
    BY <1>5, <1>8 DEF Owns
  <2>2. Session(q) \in DOMAIN sessions' /\ sessions'[Session(q)] = sessions[Session(q)]
    BY <1>4, <2>1 DEF Saved
  <2> QED
    BY <1>3, <2>1, <2>2, StillSaved
<1>11. Saved(p)'
  <2>1. Session(p)' = s
    BY <1>5 DEF Session
  <2>2. /\ RowsOf(history', s) = {} /\ RowsOf(trust', s) = {}
        /\ RowsOf(operators', s) = {} /\ RowsOf(flow', s) = {}
    BY <1>2, <1>3 DEF IInv, NoOrphanRows, RowsOf
  <2>3. HistorySaved(p)' = 0 /\ TrustSaved(p)' = 0
    BY <1>5 DEF HistorySaved, TrustSaved
  <2> QED
    BY <1>4, <1>5, <2>1, <2>2, <2>3 DEF Saved, RowsOf
<1>12. Placed(p)'
  BY <1>1, <1>5 DEF Placed, AfterKernel
<1> QED
  BY <1>5, <1>6, <1>7, <1>9, <1>10, <1>11, <1>12, AfterStep

LEMMA RunKernelIInv ==
  ASSUME IInv, NEW p \in Processes, RunKernel(p)
  PROVE  IInv'
<1>1. /\ proc[p] \in Started /\ proc[p].stage = "kernel"
      /\ proc[p].outcome = "running" /\ proc[p].call.found
      /\ Len(Result(p).history) \in Nat /\ Len(Result(p).history) > 0
  BY RunningIsStarted DEF RunKernel, Refused, At, IInv, Placed, Result
<1>2. UNCHANGED <<sessions, history, trust, operators, flow>>
  BY DEF RunKernel, tables
<1>3. /\ proc' \in [Processes -> {Idle} \cup Started]
      /\ \A q \in Processes : q # p => proc'[q] = proc[q]
      /\ proc'[p].stage = "history" /\ proc'[p].i = 0
      /\ proc'[p].outcome = proc[p].outcome /\ proc'[p].call = proc[p].call
  BY <1>1, GotoFacts DEF RunKernel, IInv, TypeOK, Stages
<1>4. TypeOK'
  BY <1>1, <1>2, <1>3 DEF IInv, TypeOK, Iterations, Result
<1>5. Owns(p) /\ Owns(p)' /\ Saved(p)
  BY <1>1, <1>3 DEF Owns, IInv, SavedUpToStage
<1>6. /\ NoOrphanRows' /\ OneOwnerPerSession'
      /\ \A q \in Processes : q # p /\ Owns(q)' => Saved(q)'
  BY <1>2, <1>3, <1>5, OwnWrite
<1>7. Saved(p)'
  BY <1>1, <1>2, <1>3, <1>5 DEF Saved, Session, HistorySaved, TrustSaved, RowsOf
<1>8. Placed(p)'
  BY <1>1, <1>3 DEF Placed, AfterKernel, Result
<1> QED
  BY <1>3, <1>4, <1>6, <1>7, <1>8, AfterStep

(* A process that is saving: what the steps of save_kernel_result and      *)
(* complete_session start from.                                            *)
LEMMA Saving ==
  ASSUME IInv, NEW p \in Processes, NEW stage \in AfterKernel, At(p, stage)
  PROVE  /\ proc \in [Processes -> {Idle} \cup Started] /\ proc[p] \in Started
         /\ proc[p].stage = stage /\ proc[p].outcome = "running" /\ proc[p].call.found
         /\ proc[p].i \in Nat
         /\ Len(Result(p).history) \in Nat /\ Len(Result(p).history) > 0
         /\ Owns(p) /\ Saved(p) /\ Session(p) \in DOMAIN sessions
<1>1. proc[p].stage = stage /\ proc[p].outcome = "running"
  BY DEF At
<1>2. Owns(p) /\ Saved(p)
  BY <1>1 DEF Owns, AfterKernel, IInv, SavedUpToStage
<1> QED
  BY <1>1, <1>2, RunningIsStarted DEF IInv, TypeOK, Placed, Saved

LEMMA SaveHistoryIInv ==
  ASSUME IInv, NEW p \in Processes, SaveHistory(p)
  PROVE  IInv'
<1> DEFINE rows == {HistoryRow(proc[p].call, proc[p].i)}
<1>1. /\ proc \in [Processes -> {Idle} \cup Started] /\ proc[p] \in Started
      /\ proc[p].stage = "history" /\ proc[p].outcome = "running" /\ proc[p].call.found
      /\ proc[p].i \in Nat
      /\ Len(Result(p).history) \in Nat /\ Len(Result(p).history) > 0
      /\ Owns(p) /\ Saved(p)
  BY Saving DEF SaveHistory, AfterKernel
<1>2. history' = history \cup rows /\ UNCHANGED <<sessions, trust, operators, flow>>
  BY DEF SaveHistory
<1>3. /\ proc' \in [Processes -> {Idle} \cup Started]
      /\ \A q \in Processes : q # p => proc'[q] = proc[q]
      /\ proc'[p].stage = "trust" /\ proc'[p].i = proc[p].i
      /\ proc'[p].outcome = proc[p].outcome /\ proc'[p].call = proc[p].call
  BY <1>1, GotoFacts DEF SaveHistory, Stages
<1>4. TypeOK'
  BY <1>1, <1>2, <1>3 DEF IInv, TypeOK, Iterations
<1>5. Owns(p)'
  BY <1>3 DEF Owns
<1>6. /\ NoOrphanRows' /\ OneOwnerPerSession'
      /\ \A q \in Processes : q # p /\ Owns(q)' => Saved(q)'
      /\ RowsOf(history', Session(p)) = RowsOf(history, Session(p)) \cup rows
  <2>1. \A r \in rows : r.session = Session(p)
    BY RowSessions DEF Session
  <2> HIDE DEF rows
  <2>2. history \subseteq history' /\ \A r \in history' \ history : r.session = Session(p)
    BY <1>2, <2>1
  <2>3. RowsOf(history', Session(p)) = RowsOf(history, Session(p)) \cup rows
    BY <1>2, <2>1 DEF RowsOf
  <2>4. Owns(p)
    BY <1>1
  <2>5. /\ NoOrphanRows' /\ OneOwnerPerSession'
        /\ \A q \in Processes : q # p /\ Owns(q)' => Saved(q)'
    BY <1>2, <1>3, <1>5, <2>2, <2>4, OwnWrite
  <2> QED
    BY <2>3, <2>5
<1>7. Saved(p)'
  <2>1. /\ HistorySaved(p) = proc[p].i /\ HistorySaved(p)' = proc[p].i + 1
        /\ TrustSaved(p) = proc[p].i /\ TrustSaved(p)' = proc[p].i
    BY <1>1, <1>3 DEF HistorySaved, TrustSaved
  <2>2. RowsOf(history', Session(p))
          = {HistoryRow(proc[p].call, i) : i \in 0 .. (proc[p].i + 1) - 1}
    BY <1>1, <1>6, <2>1, OneMoreIteration DEF Saved
  <2> QED
    BY <1>1, <1>2, <1>3, <2>1, <2>2 DEF Saved, Session, RowsOf
<1>8. Placed(p)'
  BY <1>1, <1>3 DEF Placed, AfterKernel, Result
<1> QED
  BY <1>3, <1>4, <1>6, <1>7, <1>8, AfterStep

LEMMA SaveTrustIInv ==
  ASSUME IInv, NEW p \in Processes, SaveTrust(p)
  PROVE  IInv'
<1> DEFINE rows == TrustRows(proc[p].call, proc[p].i)
           more == proc[p].i + 1 < Len(Result(p).history)
<1>1. /\ proc \in [Processes -> {Idle} \cup Started] /\ proc[p] \in Started
      /\ proc[p].stage = "trust" /\ proc[p].outcome = "running" /\ proc[p].call.found
      /\ proc[p].i \in Nat
      /\ Len(Result(p).history) \in Nat /\ Len(Result(p).history) > 0
      /\ Owns(p) /\ Saved(p)
  BY Saving DEF SaveTrust, AfterKernel
<1>2. trust' = trust \cup rows /\ UNCHANGED <<sessions, history, operators, flow>>
  BY DEF SaveTrust
<1>3. /\ proc' \in [Processes -> {Idle} \cup Started]
      /\ \A q \in Processes : q # p => proc'[q] = proc[q]
      /\ proc'[p].stage = IF more THEN "history" ELSE "operators"
      /\ proc'[p].i = IF more THEN proc[p].i + 1 ELSE proc[p].i
      /\ proc'[p].outcome = proc[p].outcome /\ proc'[p].call = proc[p].call
  <2>1. CASE more
    <3>1. Goto(p, "history", proc[p].i + 1)
      BY <2>1 DEF SaveTrust
    <3> QED
      BY <1>1, <2>1, <3>1, GotoFacts DEF Stages
  <2>2. CASE ~ more
    <3>1. Goto(p, "operators", proc[p].i)
      BY <2>2 DEF SaveTrust
    <3> QED
      BY <1>1, <2>2, <3>1, GotoFacts DEF Stages
  <2> QED
    BY <2>1, <2>2
<1>4. TypeOK'
  BY <1>1, <1>2, <1>3 DEF IInv, TypeOK, Iterations, Result
<1>5. Owns(p)'
  BY <1>3 DEF Owns
<1>6. /\ NoOrphanRows' /\ OneOwnerPerSession'
      /\ \A q \in Processes : q # p /\ Owns(q)' => Saved(q)'
      /\ RowsOf(trust', Session(p)) = RowsOf(trust, Session(p)) \cup rows
  <2>1. \A r \in rows : r.session = Session(p)
    BY RowSessions DEF Session
  <2> HIDE DEF rows
  <2>2. trust \subseteq trust' /\ \A r \in trust' \ trust : r.session = Session(p)
    BY <1>2, <2>1
  <2>3. RowsOf(trust', Session(p)) = RowsOf(trust, Session(p)) \cup rows
    BY <1>2, <2>1 DEF RowsOf
  <2>4. Owns(p)
    BY <1>1
  <2>5. /\ NoOrphanRows' /\ OneOwnerPerSession'
        /\ \A q \in Processes : q # p /\ Owns(q)' => Saved(q)'
    BY <1>2, <1>3, <1>5, <2>2, <2>4, OwnWrite
  <2> QED
    BY <2>3, <2>5
<1>7. Saved(p)'
  <2>1. /\ HistorySaved(p) = proc[p].i + 1 /\ HistorySaved(p)' = proc[p].i + 1
        /\ TrustSaved(p) = proc[p].i /\ TrustSaved(p)' = proc[p].i + 1
    <3>1. ~ more => Len(Result(p).history) = proc[p].i + 1
      BY <1>1 DEF IInv, TypeOK, Iterations, Result
    <3> QED
      BY <1>1, <1>3, <3>1 DEF HistorySaved, TrustSaved, Result
  <2>2. RowsOf(trust', Session(p))
          = UNION {TrustRows(proc[p].call, i) : i \in 0 .. (proc[p].i + 1) - 1}
    BY <1>1, <1>6, <2>1, OneMoreIteration DEF Saved
  <2> QED
    BY <1>1, <1>2, <1>3, <2>1, <2>2, SMTT(30) DEF Saved, Session, RowsOf
<1>8. Placed(p)'
  BY <1>1, <1>3 DEF Placed, AfterKernel, Result
<1> QED
  BY <1>3, <1>4, <1>6, <1>7, <1>8, AfterStep

LEMMA SaveOperatorsIInv ==
  ASSUME IInv, NEW p \in Processes, SaveOperators(p)
  PROVE  IInv'
<1> DEFINE rows == OperatorRows(proc[p].call)
<1>1. /\ proc \in [Processes -> {Idle} \cup Started] /\ proc[p] \in Started
      /\ proc[p].stage = "operators" /\ proc[p].outcome = "running" /\ proc[p].call.found
      /\ proc[p].i \in Nat
      /\ Len(Result(p).history) \in Nat /\ Len(Result(p).history) > 0
      /\ Owns(p) /\ Saved(p)
  BY Saving DEF SaveOperators, AfterKernel
<1>2. operators' = operators \cup rows /\ UNCHANGED <<sessions, history, trust, flow>>
  BY DEF SaveOperators
<1>3. /\ proc' \in [Processes -> {Idle} \cup Started]
      /\ \A q \in Processes : q # p => proc'[q] = proc[q]
      /\ proc'[p].stage = "flow" /\ proc'[p].i = proc[p].i
      /\ proc'[p].outcome = proc[p].outcome /\ proc'[p].call = proc[p].call
  BY <1>1, GotoFacts DEF SaveOperators, Stages
<1>4. TypeOK'
  BY <1>1, <1>2, <1>3 DEF IInv, TypeOK
<1>5. Owns(p)'
  BY <1>3 DEF Owns
<1>6. /\ NoOrphanRows' /\ OneOwnerPerSession'
      /\ \A q \in Processes : q # p /\ Owns(q)' => Saved(q)'
      /\ RowsOf(operators', Session(p)) = RowsOf(operators, Session(p)) \cup rows
  <2>1. \A r \in rows : r.session = Session(p)
    BY RowSessions DEF Session
  <2> HIDE DEF rows
  <2>2. /\ operators \subseteq operators'
        /\ \A r \in operators' \ operators : r.session = Session(p)
    BY <1>2, <2>1
  <2>3. RowsOf(operators', Session(p)) = RowsOf(operators, Session(p)) \cup rows
    BY <1>2, <2>1 DEF RowsOf
  <2>4. Owns(p)
    BY <1>1
  <2>5. /\ NoOrphanRows' /\ OneOwnerPerSession'
        /\ \A q \in Processes : q # p /\ Owns(q)' => Saved(q)'
    BY <1>2, <1>3, <1>5, <2>2, <2>4, OwnWrite
  <2> QED
    BY <2>3, <2>5
<1>7. Saved(p)'
  <2>1. /\ HistorySaved(p)' = HistorySaved(p) /\ TrustSaved(p)' = TrustSaved(p)
        /\ RowsOf(operators, Session(p)) = {}
    BY <1>1, <1>3 DEF HistorySaved, TrustSaved, Result, Saved
  <2> QED
    BY <1>1, <1>2, <1>3, <1>6, <2>1 DEF Saved, Session, RowsOf
<1>8. Placed(p)'
  BY <1>1, <1>3 DEF Placed, AfterKernel, Result
<1> QED
  BY <1>3, <1>4, <1>6, <1>7, <1>8, AfterStep

LEMMA SaveFlowIInv ==
  ASSUME IInv, NEW p \in Processes, SaveFlow(p)
  PROVE  IInv'
<1> DEFINE rows == FlowRows(proc[p].call)
<1>1. /\ proc \in [Processes -> {Idle} \cup Started] /\ proc[p] \in Started
      /\ proc[p].stage = "flow" /\ proc[p].outcome = "running" /\ proc[p].call.found
      /\ proc[p].i \in Nat
      /\ Len(Result(p).history) \in Nat /\ Len(Result(p).history) > 0
      /\ Owns(p) /\ Saved(p)
  BY Saving DEF SaveFlow, AfterKernel
<1>2. flow' = flow \cup rows /\ UNCHANGED <<sessions, history, trust, operators>>
  BY DEF SaveFlow
<1>3. /\ proc' \in [Processes -> {Idle} \cup Started]
      /\ \A q \in Processes : q # p => proc'[q] = proc[q]
      /\ proc'[p].stage = "complete" /\ proc'[p].i = proc[p].i
      /\ proc'[p].outcome = proc[p].outcome /\ proc'[p].call = proc[p].call
  BY <1>1, GotoFacts DEF SaveFlow, Stages
<1>4. TypeOK'
  BY <1>1, <1>2, <1>3 DEF IInv, TypeOK
<1>5. Owns(p)'
  BY <1>3 DEF Owns
<1>6. /\ NoOrphanRows' /\ OneOwnerPerSession'
      /\ \A q \in Processes : q # p /\ Owns(q)' => Saved(q)'
      /\ RowsOf(flow', Session(p)) = RowsOf(flow, Session(p)) \cup rows
  <2>1. \A r \in rows : r.session = Session(p)
    BY RowSessions DEF Session
  <2> HIDE DEF rows
  <2>2. flow \subseteq flow' /\ \A r \in flow' \ flow : r.session = Session(p)
    BY <1>2, <2>1
  <2>3. RowsOf(flow', Session(p)) = RowsOf(flow, Session(p)) \cup rows
    BY <1>2, <2>1 DEF RowsOf
  <2>4. Owns(p)
    BY <1>1
  <2>5. /\ NoOrphanRows' /\ OneOwnerPerSession'
        /\ \A q \in Processes : q # p /\ Owns(q)' => Saved(q)'
    BY <1>2, <1>3, <1>5, <2>2, <2>4, OwnWrite
  <2> QED
    BY <2>3, <2>5
<1>7. Saved(p)'
  <2>1. /\ HistorySaved(p)' = HistorySaved(p) /\ TrustSaved(p)' = TrustSaved(p)
        /\ RowsOf(flow, Session(p)) = {}
    BY <1>1, <1>3 DEF HistorySaved, TrustSaved, Result, Saved
  <2> QED
    BY <1>1, <1>2, <1>3, <1>6, <2>1 DEF Saved, Session, RowsOf
<1>8. Placed(p)'
  BY <1>1, <1>3 DEF Placed, AfterKernel, Result
<1> QED
  BY <1>3, <1>4, <1>6, <1>7, <1>8, AfterStep

LEMMA CompleteSessionIInv ==
  ASSUME IInv, NEW p \in Processes, CompleteSession(p)
  PROVE  IInv'
<1> DEFINE s == Session(p)
<1>1. /\ proc \in [Processes -> {Idle} \cup Started] /\ proc[p] \in Started
      /\ proc[p].stage = "complete" /\ proc[p].outcome = "running" /\ proc[p].call.found
      /\ proc[p].i \in Nat
      /\ Len(Result(p).history) \in Nat /\ Len(Result(p).history) > 0
      /\ Owns(p) /\ Saved(p) /\ s \in DOMAIN sessions
  BY Saving DEF CompleteSession, AfterKernel
<1>2. UNCHANGED <<history, trust, operators, flow>>
  BY DEF CompleteSession
<1>3. /\ proc' \in [Processes -> {Idle} \cup Started]
      /\ \A q \in Processes : q # p => proc'[q] = proc[q]
      /\ proc'[p].stage = "end" /\ proc'[p].i = proc[p].i
      /\ proc'[p].outcome = "returned" /\ proc'[p].call = proc[p].call
  <2>1. proc' = [proc EXCEPT ![p] = [proc[p] EXCEPT !.stage = "end", !.outcome = "returned"]]
    BY <1>1 DEF CompleteSession, Started
  <2>2. [proc[p] EXCEPT !.stage = "end", !.outcome = "returned"] \in Started
    BY <1>1 DEF Started, Stages, Outcomes
  <2> QED
    BY <1>1, <2>1, <2>2 DEF Started
<1>4. /\ DOMAIN sessions' = DOMAIN sessions
      /\ sessions' \in [DOMAIN sessions -> [scenario : ScenarioTable, status : Statuses]]
      /\ sessions'[s].status = "completed"
      /\ \A t \in DOMAIN sessions : t # s => sessions'[t] = sessions[t]
  BY <1>1, StatusesAssumption DEF CompleteSession, IInv, TypeOK
<1>5. TypeOK'
  BY <1>1, <1>3, <1>4 DEF IInv, TypeOK
<1>6. Owns(p) /\ Owns(p)'
  BY <1>1, <1>3 DEF Owns
<1>7. /\ NoOrphanRows' /\ OneOwnerPerSession'
      /\ \A q \in Processes : q # p /\ Owns(q)' => Saved(q)'
  BY <1>2, <1>3, <1>4, <1>6, OwnWrite
<1>8. Saved(p)'
  <2>1. HistorySaved(p)' = HistorySaved(p) /\ TrustSaved(p)' = TrustSaved(p)
    BY <1>1, <1>3 DEF HistorySaved, TrustSaved, Result
  <2> QED
    BY <1>1, <1>2, <1>3, <1>4, <2>1 DEF Saved, Session, RowsOf
<1>9. Placed(p)'
  BY <1>1, <1>3 DEF Placed, AfterKernel, Result
<1> QED
  BY <1>3, <1>5, <1>7, <1>8, <1>9, AfterStep

LEMMA StopIInv ==
  ASSUME IInv, NEW p \in Processes, Raise(p) \/ Crash(p)
  PROVE  IInv'
<1>1. PICK outcome \in {"raised", "crashed"} : proc' = [proc EXCEPT ![p].outcome = outcome]
  BY DEF Raise, Crash
<1>2. UNCHANGED <<sessions, history, trust, operators, flow>>
  BY DEF Raise, Crash, tables
<1>3. proc \in [Processes -> {Idle} \cup Started] /\ proc[p] \in Started /\ proc[p].outcome = "running"
  BY RunningIsStarted DEF IInv, TypeOK, Raise, Crash
<1>4. /\ proc' \in [Processes -> {Idle} \cup Started]
      /\ \A q \in Processes : q # p => proc'[q] = proc[q]
      /\ proc'[p].stage = proc[p].stage /\ proc'[p].i = proc[p].i
      /\ proc'[p].outcome = outcome /\ proc'[p].call = proc[p].call
  BY <1>1, <1>3 DEF Started, Outcomes
<1>5. \A q \in Processes : /\ proc'[q].stage = proc[q].stage /\ proc'[q].i = proc[q].i
                           /\ Owns(q)' => proc'[q].call = proc[q].call /\ Owns(q)
  BY <1>4 DEF Owns
<1>6. TypeOK'
  BY <1>2, <1>3, <1>4 DEF IInv, TypeOK, Iterations
<1>7. NoOrphanRows' /\ OneOwnerPerSession'
  BY <1>2, <1>5 DEF IInv, NoOrphanRows, OneOwnerPerSession, Session
<1>8. \A q \in Processes : Owns(q)' => Saved(q)'
  <2> SUFFICES ASSUME NEW q \in Processes, Owns(q)'
               PROVE  Saved(q)'
    OBVIOUS
  <2>1. Saved(q)
    BY <1>5 DEF IInv, SavedUpToStage
  <2> QED
    BY <1>2, <1>5, <2>1, StillSaved DEF Saved
<1>9. Placed(p)'
  BY <1>3, <1>4 DEF IInv, Placed, Result
<1> QED
  BY <1>4, <1>6, <1>7, <1>8, <1>9, AfterStep

LEMMA NextIInv == IInv /\ [Next]_vars => IInv'
<1> SUFFICES ASSUME IInv, [Next]_vars PROVE IInv'
  OBVIOUS
<1>1. CASE \E p \in Processes : Start(p) \/ Work(p) \/ Crash(p)
  BY <1>1, StartIInv, CreateSessionIInv, RunKernelIInv, SaveHistoryIInv, SaveTrustIInv,
     SaveOperatorsIInv, SaveFlowIInv, CompleteSessionIInv, StopIInv
  DEF Work
<1>2. CASE UNCHANGED vars
  BY <1>2 DEF vars, IInv, TypeOK, NoOrphanRows, OneOwnerPerSession, SavedUpToStage,
     Saved, Owns, Session, Result, HistorySaved, TrustSaved, RowsOf, Placed, Iterations
<1> QED
  BY <1>1, <1>2 DEF Next, AllEnded

(* The inductive invariant holds in every reachable state of the store.    *)
THEOREM Invariance == Spec => []IInv
BY InitIInv, NextIInv, PTL DEF Spec

-----------------------------------------------------------------------------

(* Each runner stays within the runner's code and its own iterations, for  *)
(* any calls.                                                              *)
THEOREM TypeCorrect == Spec => []TypeOK
<1>1. IInv => TypeOK
  BY DEF IInv
<1> QED
  BY Invariance, <1>1, PTL

(* At every moment, after any crashes and exceptions, the rows under a     *)
(* session are those of its own run up to the place its process reached.   *)
THEOREM SavedPrefix == Spec => [](NoOrphanRows /\ OneOwnerPerSession /\ SavedUpToStage)
<1>1. IInv => NoOrphanRows /\ OneOwnerPerSession /\ SavedUpToStage
  BY DEF IInv
<1> QED
  BY Invariance, <1>1, PTL

(* Two runners never write under one session id, whatever their calls: the *)
(* second one's session row is refused.                                    *)
THEOREM OneOwner == Spec => []OneOwnerPerSession
<1>1. IInv => OneOwnerPerSession
  BY DEF IInv
<1> QED
  BY Invariance, <1>1, PTL

LEMMA IInvCompleted == IInv => CompletedIsComplete
<1> SUFFICES ASSUME IInv, NEW p \in Processes, Owns(p),
                    sessions[Session(p)].status = "completed"
             PROVE  LET call == proc[p].call
                        s == Session(p)
                    IN  /\ proc[p].outcome = "returned"
                        /\ RowsOf(history, s) = {HistoryRow(call, i) : i \in Iterations(call)}
                        /\ RowsOf(trust, s) = UNION {TrustRows(call, i) : i \in Iterations(call)}
                        /\ RowsOf(operators, s) = OperatorRows(call)
                        /\ RowsOf(flow, s) = FlowRows(call)
  BY DEF CompletedIsComplete
<1>1. Saved(p) /\ Placed(p)
  BY DEF IInv, SavedUpToStage
<1>2. proc[p].stage = "end"
  BY <1>1 DEF Saved
<1>3. HistorySaved(p) = Len(Result(p).history) /\ TrustSaved(p) = Len(Result(p).history)
  BY <1>2 DEF HistorySaved, TrustSaved
<1> QED
  BY <1>1, <1>2, <1>3 DEF Saved, Placed, Iterations, Result

(* A session that reads completed holds every artifact of its run, and     *)
(* that run returned: for any interleaving, crashes included.              *)
THEOREM CompletedComplete == Spec => []CompletedIsComplete
BY Invariance, IInvCompleted, PTL

-----------------------------------------------------------------------------
(* Replaying a completed session.                                          *)

LEMMA IInvReplays == IInv => CompletedReplays
<1> SUFFICES ASSUME IInv, NEW p \in Processes, proc[p].outcome = "returned",
                    Len(Result(p).selected) < Len(Result(p).history)
             PROVE  Replayed(load_flow_events_for_replay(Scenario(p), Session(p)),
                             proc[p].call.demands) = Result(p).final_state
  BY DEF CompletedReplays
<1> DEFINE call == proc[p].call
           E == call.result.flow_events
           D == call.demands
           key == [e \in E |-> StoredKey(e)]
           list == InOrder(key)
           rows == {r \in flow : r.scenario = Scenario(p) /\ r.session = Session(p)}
<1>1. proc[p].stage = "end"
  BY DEF IInv, Placed
<1>2. call \in Calls
  <2>1. proc[p] \in {Idle} \cup Started
    BY DEF IInv, TypeOK
  <2> QED
    BY <1>1, <2>1 DEF Idle, Started
<1>3. /\ IsDemands(D) /\ IsLog(E) /\ SequenceUnique(E)
      /\ Result(p).final_state = run_flow(E, D)
  BY <1>2, CallsAssumption DEF Result
<1>4. RowsOf(flow, Session(p)) = FlowRows(call)
  BY <1>1 DEF IInv, SavedUpToStage, Owns, Saved
<1>5. {r.event : r \in rows} = E
  <2>1. \A r \in flow : r.session = Session(p) <=> r \in FlowRows(call)
    BY <1>4, RowSessions DEF RowsOf, Session
  <2>2. FlowRows(call) \subseteq flow
    BY <1>4 DEF RowsOf
  <2>3. \A r \in FlowRows(call) : r.scenario = Scenario(p) /\ r.event \in E
    BY DEF FlowRows, Scenario
  <2>4. \A e \in E : \E r \in FlowRows(call) : r.event = e
    <3> DEFINE Row(e) == [event |-> e, session |-> call.session, scenario |-> call.scenario,
                          iteration |-> Len(call.result.history) - 1]
    <3>1. FlowRows(call) = {Row(e) : e \in E}
      BY DEF FlowRows
    <3>2. \A e : Row(e).event = e
      OBVIOUS
    <3> HIDE DEF Row, E, call
    <3> QED
      BY <3>1, <3>2
  <2> HIDE DEF call, E
  <2> QED
    BY <2>1, <2>2, <2>3, <2>4
<1>6. load_flow_events_for_replay(Scenario(p), Session(p)) = list
  <2> HIDE DEF E
  <2> QED
    BY <1>5, Zenon DEF load_flow_events_for_replay
<1>7. KeyOf(key, 3) /\ DOMAIN key = E /\ 3 \in Nat
  <2> HIDE DEF E, D
  <2>1. \A e \in E : e.time_bucket \in Int /\ e.creation_sequence \in Int
    BY <1>3 DEF IsLog, IsFlowEvent
  <2>2. \A e \in E : StoredKey(e) \in Tuples(3)
    BY <2>1 DEF StoredKey, Tuples
  <2>3. \A e, f \in E : StoredKey(e) = StoredKey(f) => e.creation_sequence = f.creation_sequence
    BY DEF StoredKey
  <2> QED
    BY <1>3, <2>2, <2>3 DEF IsLog, SequenceUnique, KeyOf
<1> HIDE DEF key, E, D
<1>8. IsListing(list, E)
  BY <1>7, InOrderLists
<1> HIDE DEF list
<1>9. /\ Range(list) = E
      /\ Derive(E, [e \in E |-> <<CHOOSE i \in DOMAIN list : list[i] = e>>], D) = run_flow(E, D)
  BY <1>3, <1>8, ListDerives
<1>10. Replayed(list, D) = run_flow(E, D)
  BY <1>9 DEF Replayed
<1> QED
  BY <1>3, <1>6, <1>10 DEF D

(* Replaying a completed session from the store derives the final state of *)
(* its run, for any calls, processes and stores, although the stored order *)
(* leaves the priority of the event types out.                             *)
THEOREM ReplayRestores == Spec => []CompletedReplays
BY Invariance, IInvReplays, PTL

-----------------------------------------------------------------------------
(* EventStore implements PublishedRuns.                                    *)

LEMMA InitBoard == Init => Promised!Init
<1> SUFFICES ASSUME Init PROVE Board(Store) \in {Board(store) : store \in InitialStores}
  BY DEF Promised!Init
<1>1. PICK store \in InitialStores :
        /\ sessions = store.sessions /\ history = store.history
        /\ trust = store.trust /\ operators = store.operators /\ flow = store.flow
  BY DEF Init
<1>2. Board(Store) = Board(store)
  BY <1>1 DEF Board, Store
<1> QED
  BY <1>2

(* A session's entry on the board depends on its status and, once it is    *)
(* completed, on its rows.                                                 *)
LEMMA SameEntry ==
  ASSUME NEW s, s \in DOMAIN sessions, s \in DOMAIN sessions',
         sessions'[s] = sessions[s],
         sessions[s].status = "completed" =>
           /\ RowsOf(history', s) = RowsOf(history, s)
           /\ RowsOf(trust', s) = RowsOf(trust, s)
           /\ RowsOf(operators', s) = RowsOf(operators, s)
           /\ RowsOf(flow', s) = RowsOf(flow, s)
  PROVE  Board(Store)'[s] = Board(Store)[s]
BY DEF Board, Store, RowsOf

(* A step that writes under running sessions only shows nothing.           *)
LEMMA SameBoard ==
  ASSUME sessions' = sessions,
         \A s \in DOMAIN sessions : sessions[s].status = "completed" =>
           /\ RowsOf(history', s) = RowsOf(history, s)
           /\ RowsOf(trust', s) = RowsOf(trust, s)
           /\ RowsOf(operators', s) = RowsOf(operators, s)
           /\ RowsOf(flow', s) = RowsOf(flow, s)
  PROVE  Board(Store)' = Board(Store)
<1>1. \A s \in DOMAIN sessions : Board(Store)'[s] = Board(Store)[s]
  BY SameEntry
<1>2. /\ Board(Store) = [s \in DOMAIN sessions |-> Board(Store)[s]]
      /\ Board(Store)' = [s \in DOMAIN sessions |-> Board(Store)'[s]]
  BY DEF Board, Store
<1> QED
  BY <1>1, <1>2

LEMMA SaveShowsNothing ==
  ASSUME IInv, NEW p \in Processes, NEW stage \in {"history", "trust", "operators", "flow"},
         At(p, stage), sessions' = sessions,
         \A t : t # Session(p) =>
           /\ RowsOf(history', t) = RowsOf(history, t)
           /\ RowsOf(trust', t) = RowsOf(trust, t)
           /\ RowsOf(operators', t) = RowsOf(operators, t)
           /\ RowsOf(flow', t) = RowsOf(flow, t)
  PROVE  Board(Store)' = Board(Store)
<1>1. sessions[Session(p)].status = "running"
  <2>1. Saved(p) /\ proc[p].stage = stage
    BY Saving DEF AfterKernel
  <2> QED
    BY <2>1 DEF Saved
<1> QED
  BY <1>1, SameBoard

LEMMA CreateOpens ==
  ASSUME IInv, NEW p \in Processes, CreateSession(p)
  PROVE  Promised!Next
<1> DEFINE s == Session(p)
           run == [session |-> s, artifacts |-> Artifacts(proc[p].call)]
<1>1. proc[p].call \in Calls /\ proc[p].stage = "create"
  BY RunningIsStarted DEF CreateSession, At, IInv
<1>2. s \notin DOMAIN sessions
  BY <1>1 DEF CreateSession, Refused, Session
<1>3. /\ DOMAIN sessions' = DOMAIN sessions \cup {s}
      /\ sessions'[s].status = "running"
      /\ \A t \in DOMAIN sessions : sessions'[t] = sessions[t]
      /\ UNCHANGED <<history, trust, operators, flow>>
  BY <1>2 DEF CreateSession, Put
<1>4. DOMAIN Board(Store) = DOMAIN sessions /\ DOMAIN Board(Store)' = DOMAIN sessions'
  BY DEF Board, Store
<1>5. \A t \in DOMAIN sessions : Board(Store)'[t] = Board(Store)[t]
  BY <1>3, SameEntry
<1>6. Board(Store)'[s] = Promised!Open
  BY <1>3 DEF Board, Store, Promised!Open
<1>7. Board(Store)' = [t \in DOMAIN sessions' |-> Board(Store)'[t]]
  BY DEF Board, Store
<1>8. Promised!OpenSession(s)
  BY <1>2, <1>3, <1>4, <1>5, <1>6, <1>7 DEF Promised!OpenSession
<1>9. run \in {[session |-> call.session, artifacts |-> Artifacts(call)] : call \in Calls}
  BY <1>1 DEF Session
<1>10. run.session = s
  OBVIOUS
<1> HIDE DEF run
<1> QED
  BY <1>8, <1>9, <1>10 DEF Promised!Next

LEMMA CompletePublishes ==
  ASSUME IInv, NEW p \in Processes, CompleteSession(p)
  PROVE  Promised!Next
<1> DEFINE s == Session(p)
           artifacts == Artifacts(proc[p].call)
           run == [session |-> s, artifacts |-> artifacts]
<1>1. /\ proc[p].call \in Calls /\ proc[p].stage = "complete"
      /\ Saved(p) /\ s \in DOMAIN sessions
  BY Saving, RunningIsStarted DEF CompleteSession, AfterKernel, At, IInv
<1>2. UNCHANGED <<history, trust, operators, flow>>
  BY DEF CompleteSession
<1>3. /\ DOMAIN sessions' = DOMAIN sessions
      /\ sessions'[s].status = "completed"
      /\ \A t \in DOMAIN sessions : t # s => sessions'[t] = sessions[t]
  BY <1>1 DEF CompleteSession, IInv, TypeOK
<1>4. DOMAIN Board(Store) = DOMAIN sessions /\ DOMAIN Board(Store)' = DOMAIN sessions
  BY <1>3 DEF Board, Store
<1>5. Board(Store)[s] = Promised!Open
  BY <1>1 DEF Board, Store, Saved, Promised!Open
<1>6. \A t \in DOMAIN sessions : t # s => Board(Store)'[t] = Board(Store)[t]
  BY <1>2, <1>3, SameEntry
<1>7. Board(Store)'[s] = Promised!Published(artifacts)
  <2>1. /\ RowsOf(history', s) = artifacts.history
        /\ RowsOf(trust', s) = artifacts.trust
        /\ RowsOf(operators', s) = artifacts.operators
        /\ RowsOf(flow', s) = artifacts.flow
    BY <1>1, <1>2 DEF Saved, HistorySaved, TrustSaved, Artifacts, Iterations, Result, RowsOf
  <2>2. artifacts = [history   |-> RowsOf(history', s), trust |-> RowsOf(trust', s),
                     operators |-> RowsOf(operators', s), flow |-> RowsOf(flow', s)]
    BY <2>1 DEF Artifacts
  <2> HIDE DEF artifacts
  <2> QED
    BY <1>1, <1>3, <2>2 DEF Board, Store, RowsOf, Promised!Published
<1>8. Board(Store)' = [Board(Store) EXCEPT ![s] = Promised!Published(artifacts)]
  <2>1. /\ Board(Store) = [t \in DOMAIN sessions |-> Board(Store)[t]]
        /\ Board(Store)' = [t \in DOMAIN sessions |-> Board(Store)'[t]]
    BY <1>3 DEF Board, Store
  <2> QED
    BY <1>4, <1>6, <1>7, <2>1
<1>9. Promised!Publish(run)
  BY <1>1, <1>4, <1>5, <1>8 DEF Promised!Publish
<1> QED
  BY <1>1, <1>9 DEF Promised!Next, Session

LEMMA StepBoard == IInv /\ [Next]_vars => [Promised!Next]_(Board(Store))
<1> SUFFICES ASSUME IInv, [Next]_vars
             PROVE  Promised!Next \/ Board(Store)' = Board(Store)
  OBVIOUS
<1>1. CASE UNCHANGED tables
  BY <1>1 DEF tables, Board, Store, RowsOf
<1>2. ASSUME NEW p \in Processes, CreateSession(p) \/ CompleteSession(p)
      PROVE  Promised!Next
  BY <1>2, CreateOpens, CompletePublishes
<1>3. ASSUME NEW p \in Processes, SaveHistory(p)
      PROVE  Board(Store)' = Board(Store)
  <2> DEFINE rows == {HistoryRow(proc[p].call, proc[p].i)}
  <2>1. \A r \in rows : r.session = Session(p)
    BY RowSessions DEF Session
  <2>2. /\ At(p, "history") /\ history' = history \cup rows
        /\ UNCHANGED <<sessions, trust, operators, flow>>
    BY <1>3 DEF SaveHistory
  <2> HIDE DEF rows
  <2>3. \A t : t # Session(p) => RowsOf(history', t) = RowsOf(history, t)
    BY <2>1, <2>2 DEF RowsOf
  <2> QED
    BY <2>2, <2>3, SaveShowsNothing
<1>4. ASSUME NEW p \in Processes, SaveTrust(p)
      PROVE  Board(Store)' = Board(Store)
  <2> DEFINE rows == TrustRows(proc[p].call, proc[p].i)
  <2>1. \A r \in rows : r.session = Session(p)
    BY RowSessions DEF Session
  <2>2. /\ At(p, "trust") /\ trust' = trust \cup rows
        /\ UNCHANGED <<sessions, history, operators, flow>>
    BY <1>4 DEF SaveTrust
  <2> HIDE DEF rows
  <2>3. \A t : t # Session(p) => RowsOf(trust', t) = RowsOf(trust, t)
    BY <2>1, <2>2 DEF RowsOf
  <2> QED
    BY <2>2, <2>3, SaveShowsNothing
<1>5. ASSUME NEW p \in Processes, SaveOperators(p)
      PROVE  Board(Store)' = Board(Store)
  <2> DEFINE rows == OperatorRows(proc[p].call)
  <2>1. \A r \in rows : r.session = Session(p)
    BY RowSessions DEF Session
  <2>2. /\ At(p, "operators") /\ operators' = operators \cup rows
        /\ UNCHANGED <<sessions, history, trust, flow>>
    BY <1>5 DEF SaveOperators
  <2> HIDE DEF rows
  <2>3. \A t : t # Session(p) => RowsOf(operators', t) = RowsOf(operators, t)
    BY <2>1, <2>2 DEF RowsOf
  <2> QED
    BY <2>2, <2>3, SaveShowsNothing
<1>6. ASSUME NEW p \in Processes, SaveFlow(p)
      PROVE  Board(Store)' = Board(Store)
  <2> DEFINE rows == FlowRows(proc[p].call)
  <2>1. \A r \in rows : r.session = Session(p)
    BY RowSessions DEF Session
  <2>2. /\ At(p, "flow") /\ flow' = flow \cup rows
        /\ UNCHANGED <<sessions, history, trust, operators>>
    BY <1>6 DEF SaveFlow
  <2> HIDE DEF rows
  <2>3. \A t : t # Session(p) => RowsOf(flow', t) = RowsOf(flow, t)
    BY <2>1, <2>2 DEF RowsOf
  <2> QED
    BY <2>2, <2>3, SaveShowsNothing
<1>7. \/ UNCHANGED tables
      \/ \E p \in Processes : CreateSession(p) \/ CompleteSession(p)
      \/ \E p \in Processes : SaveHistory(p) \/ SaveTrust(p) \/ SaveOperators(p) \/ SaveFlow(p)
  BY DEF Next, AllEnded, Start, Work, RunKernel, Raise, Crash, vars, tables
<1> QED
  BY <1>1, <1>2, <1>3, <1>4, <1>5, <1>6, <1>7

(* A reader of the store sees sessions opened once, and published at once, *)
(* complete and for good: EventStore implements PublishedRuns, for any     *)
(* processes, calls and initial stores.                                    *)
THEOREM StorePublishesAtOnce == Spec => PublishedAtOnce
BY Invariance, InitBoard, StepBoard, PTL DEF Spec, PublishedAtOnce, Promised!Spec
=============================================================================
