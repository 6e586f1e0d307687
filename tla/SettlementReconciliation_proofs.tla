------------------- MODULE SettlementReconciliation_proofs -------------------
(***************************************************************************)
(* The settlement of the attempts, for any number of reconcilers beside    *)
(* any number of evaluations and any sequence of corrections by Kalshi.    *)
(***************************************************************************)
EXTENDS SettlementReconciliation, EvaluationRun_proofs

\* A row's ensemble, or None, is no younger than its decision.
RowsOrdered == \A a \in attempts : a.evidence.acquired <= a.at

\* What a market shows as final was published.
ShownIsPublished == \A t \in Tickers : market[t].final => <<t, market[t]>> \in published

\* A reconciler past its registration.
Holding == {"read", "append", "done", "raised", "dead"}

\* What makes a finalization the settlement of an attempt.
Settles(a, f, observed) ==
  /\ <<a.ticker, f>> \in published
  /\ f.final /\ f.flaw = "none"
  /\ a.at <= f.ts /\ f.ts <= observed
  /\ (f.result = "yes") <=> EvaluatePredicate(f.value, a.contract)

\* The locals of a reconciler: its attempt is a row of the other journal and
\* registered in its own, and what it judged as settled is.
TasksSound ==
  \A c \in Reconcilers :
    /\ rpc[c] \in Holding => /\ task[c].attempt \in attempts
                             /\ task[c].attempt.id \in registered
                             /\ task[c].observed \in Times
    /\ rpc[c] \in {"append", "done"} => task[c].state \in OutcomeStates
    /\ rpc[c] \in {"idle", "read"} => task[c].state = "none"
    /\ task[c].state = "SETTLED_MATCHED" =>
         Settles(task[c].attempt, task[c].result, task[c].observed)

\* Two reconcilers never hold the same attempt.
HeldOnce ==
  \A c, d \in Reconcilers :
    /\ rpc[c] \in Holding /\ rpc[d] \in Holding
    /\ task[c].attempt.id = task[d].attempt.id
    => c = d

\* The outcome of a reconciler.
OutcomeOf(c) ==
  [attempt |-> task[c].attempt, by |-> c, state |-> task[c].state,
   result |-> task[c].result, observed |-> task[c].observed]

\* An outcome was appended by a reconciler that is done with it.
OutcomesWritten ==
  \A o \in outcomes :
    o.by \in Reconcilers /\ rpc[o.by] = "done" /\ o = OutcomeOf(o.by)

LaneInv ==
  /\ LaneTypeOK /\ RowsOrdered /\ ShownIsPublished /\ TasksSound /\ HeldOnce
  /\ OutcomesWritten

-----------------------------------------------------------------------------
(* The evaluations inside the lane *)

\* Whatever Kalshi and the reconcilers do, the evaluations behave as before.
THEOREM LaneRuns == LaneSpec => Spec
<1>1. LaneInit => Init
  BY DEF LaneInit
<1>2. [LaneNext]_allVars => [Next]_vars
  BY DEF LaneNext, allVars, Finalize, Reconcile, ReconcileRefused, ReconcilerStep, ReadMarket,
         ReadInvalid, ReadUnavailable, Append, ReadRaises, ReconcilerDies
<1> QED
  BY <1>1, <1>2, PTL DEF LaneSpec, Spec

\* A step of the evaluations only adds rows, each after its evidence.
LEMMA RowsGrow ==
  ASSUME IInv, RowsOrdered, Next
  PROVE  attempts \subseteq attempts' /\ RowsOrdered'
<1>1. PICK i \in Invocations :
        \/ LocalStep(i)
        \/ \E r \in Runs : Register(i, r)
        \/ \E at \in Times : Evaluate(i, at)
        \/ Close(i)
  BY StepKinds
<1>2. CASE LocalStep(i)
  <2>1. attempts' = attempts
    BY <1>2, LocalKept DEF IInv, Local, journal
  <2> QED
    BY <2>1 DEF RowsOrdered
<1>3. CASE (\E r \in Runs : Register(i, r)) \/ Close(i)
  BY <1>3 DEF RowsOrdered, Register, Close
<1>4. ASSUME NEW at \in Times, Evaluate(i, at)
      PROVE  attempts \subseteq attempts' /\ RowsOrdered'
  <2> DEFINE a == Attempt(i, at)
  <2>1. a.evidence = work[i].evidence /\ a.at = at
    BY AttemptFields
  <2>2. a.evidence.acquired <= a.at /\ attempts' = attempts \union {a}
    BY <1>4, <2>1 DEF Evaluate, Chronology
  <2> HIDE DEF a
  <2> QED
    BY <2>2 DEF RowsOrdered
<1> QED
  BY <1>1, <1>2, <1>3, <1>4

-----------------------------------------------------------------------------
(* Steps *)

LEMMA LaneInitInv == LaneInit => LaneInv
<1> SUFFICES ASSUME LaneInit PROVE LaneInv
  OBVIOUS
<1>1. TypeOK /\ attempts = {}
  BY InitType DEF LaneInit, Init
<1>2. Open.final = FALSE /\ NoTask.state = "none" /\ NoTask.attempt = NoAttempt
      /\ NoTask.observed = None /\ NoTask.result = Open
  BY DEF Open, NoTask
<1>3. LaneTypeOK
  BY <1>1, <1>2 DEF LaneTypeOK, LaneInit, NoTask
<1>4. RowsOrdered /\ ShownIsPublished
  BY <1>1, <1>2 DEF RowsOrdered, ShownIsPublished, LaneInit
<1>5. TasksSound /\ HeldOnce /\ OutcomesWritten
  BY <1>2 DEF TasksSound, HeldOnce, OutcomesWritten, LaneInit, Holding
<1> QED
  BY <1>3, <1>4, <1>5 DEF LaneInv

\* Types of a task and of an outcome, over the rows there are.
Tasks ==
  [attempt : attempts \union {NoAttempt}, observed : Times \union {None},
   result : Final \union {Open}, state : OutcomeStates \union {"none"}]
OutcomeRows ==
  [attempt : attempts, by : Reconcilers, state : OutcomeStates,
   result : Final \union {Open}, observed : Times]

LEMMA RunPreserves ==
  ASSUME LaneInv, IInv, IInv', Next \/ UNCHANGED vars, UNCHANGED <<exchange, reconciliation>>
  PROVE  LaneInv'
<1>1. attempts \subseteq attempts' /\ RowsOrdered'
  <2>1. CASE Next
    BY <2>1, RowsGrow DEF LaneInv
  <2>2. CASE UNCHANGED vars
    BY <2>2 DEF LaneInv, RowsOrdered, vars
  <2> QED
    BY <2>1, <2>2
<1>2. /\ market' = market /\ published' = published /\ rpc' = rpc /\ task' = task
      /\ registered' = registered /\ outcomes' = outcomes
  BY DEF exchange, reconciliation
<1>3. LaneTypeOK'
  <2>1. Persisted \subseteq Persisted'
    BY <1>1 DEF Persisted
  <2>2. Tasks \subseteq Tasks' /\ OutcomeRows \subseteq OutcomeRows'
    BY <1>1 DEF Tasks, OutcomeRows
  <2>3. task' \in [Reconcilers -> Tasks'] /\ outcomes' \subseteq OutcomeRows'
    BY <1>2, <2>2 DEF LaneInv, LaneTypeOK, Tasks, OutcomeRows
  <2> QED
    BY <1>2, <2>1, <2>3 DEF LaneInv, LaneTypeOK, Tasks, OutcomeRows, IInv
<1>4. ShownIsPublished' /\ HeldOnce'
  BY <1>2 DEF LaneInv, ShownIsPublished, HeldOnce
<1>5. TasksSound'
  BY <1>1, <1>2 DEF LaneInv, TasksSound, Settles
<1>6. OutcomesWritten'
  BY <1>2 DEF LaneInv, OutcomesWritten, OutcomeOf
<1> QED
  BY <1>1, <1>3, <1>4, <1>5, <1>6 DEF LaneInv

LEMMA FinalizePreserves ==
  ASSUME LaneInv, IInv', NEW t \in Tickers, NEW f \in Final, Finalize(t, f)
  PROVE  LaneInv'
<1>1. /\ market' = [market EXCEPT ![t] = f] /\ published' = published \union {<<t, f>>}
      /\ attempts' = attempts /\ rpc' = rpc /\ task' = task
      /\ registered' = registered /\ outcomes' = outcomes
  BY DEF Finalize, vars, reconciliation
<1>2. LaneTypeOK'
  <2>1. Persisted' = Persisted /\ Tasks' = Tasks /\ OutcomeRows' = OutcomeRows
    BY <1>1 DEF Persisted, Tasks, OutcomeRows
  <2>2. market' \in [Tickers -> Final \union {Open}]
    BY <1>1 DEF LaneInv, LaneTypeOK
  <2> QED
    BY <1>1, <2>1, <2>2 DEF LaneInv, LaneTypeOK, Tasks, OutcomeRows, IInv
<1>3. RowsOrdered' /\ HeldOnce'
  BY <1>1 DEF LaneInv, RowsOrdered, HeldOnce
<1>4. ShownIsPublished'
  BY <1>1 DEF LaneInv, LaneTypeOK, ShownIsPublished
<1>5. TasksSound'
  BY <1>1 DEF LaneInv, TasksSound, Settles
<1>6. OutcomesWritten'
  BY <1>1 DEF LaneInv, OutcomesWritten, OutcomeOf
<1> QED
  BY <1>2, <1>3, <1>4, <1>5, <1>6 DEF LaneInv

\* One reconciler moves to a step with new locals and appends nothing.
Moves(c, step, w) ==
  /\ rpc' = [rpc EXCEPT ![c] = step]
  /\ task' = [task EXCEPT ![c] = w]
  /\ UNCHANGED <<vars, exchange, outcomes>>
  /\ registered \subseteq registered' /\ registered' \subseteq Persisted

LEMMA MovePreserves ==
  ASSUME LaneInv, IInv', NEW c \in Reconcilers, NEW step, NEW w \in Tasks, Moves(c, step, w),
         step \in {"read", "append", "refused", "raised", "dead"}, rpc[c] # "done",
         step \in Holding =>
           /\ w.attempt \in attempts /\ w.attempt.id \in registered' /\ w.observed \in Times
           /\ \A d \in Reconcilers \ {c} :
                rpc[d] \in Holding => task[d].attempt.id # w.attempt.id,
         step = "append" => w.state \in OutcomeStates,
         step = "read" => w.state = "none",
         w.state = "SETTLED_MATCHED" => Settles(w.attempt, w.result, w.observed)
  PROVE  LaneInv'
<1>1. /\ market' = market /\ published' = published /\ attempts' = attempts
      /\ outcomes' = outcomes /\ rpc'[c] = step /\ task'[c] = w
      /\ \A d \in Reconcilers \ {c} : rpc'[d] = rpc[d] /\ task'[d] = task[d]
  BY DEF Moves, vars, exchange, LaneInv, LaneTypeOK
<1>2. LaneTypeOK'
  <2>1. Persisted' = Persisted /\ Tasks' = Tasks /\ OutcomeRows' = OutcomeRows
    BY <1>1 DEF Persisted, Tasks, OutcomeRows
  <2>2. rpc' \in [Reconcilers -> {"idle", "read", "append", "done", "refused", "raised", "dead"}]
    BY DEF Moves, LaneInv, LaneTypeOK
  <2>3. task' \in [Reconcilers -> Tasks]
    BY DEF Moves, LaneInv, LaneTypeOK, Tasks
  <2>4. registered' \subseteq Persisted
    BY DEF Moves
  <2> QED
    BY <1>1, <2>1, <2>2, <2>3, <2>4 DEF LaneInv, LaneTypeOK, Tasks, OutcomeRows, IInv
<1>3. RowsOrdered' /\ ShownIsPublished'
  BY <1>1 DEF LaneInv, RowsOrdered, ShownIsPublished
<1>4. TasksSound'
  <2>1. registered \subseteq registered'
    BY DEF Moves
  <2>2. ASSUME NEW d \in Reconcilers
        PROVE  /\ rpc'[d] \in Holding => /\ task'[d].attempt \in attempts
                                         /\ task'[d].attempt.id \in registered'
                                         /\ task'[d].observed \in Times
               /\ rpc'[d] \in {"append", "done"} => task'[d].state \in OutcomeStates
               /\ rpc'[d] \in {"idle", "read"} => task'[d].state = "none"
               /\ task'[d].state = "SETTLED_MATCHED" =>
                    Settles(task'[d].attempt, task'[d].result, task'[d].observed)
    <3>1. CASE d = c
      BY <1>1, <3>1
    <3>2. CASE d # c
      BY <1>1, <2>1, <3>2 DEF LaneInv, TasksSound
    <3> QED
      BY <3>1, <3>2
  <2> QED
    BY <1>1, <2>2 DEF TasksSound, Settles
<1>5. HeldOnce'
  BY <1>1 DEF LaneInv, HeldOnce
<1>6. OutcomesWritten'
  <2>1. \A o \in outcomes : o.by # c /\ o.by \in Reconcilers
    BY DEF LaneInv, OutcomesWritten
  <2> QED
    BY <1>1, <2>1 DEF LaneInv, OutcomesWritten, OutcomeOf
<1> QED
  BY <1>2, <1>3, <1>4, <1>5, <1>6 DEF LaneInv

\* Registration is refused to an attempt that any reconciler holds.
LEMMA ReconcilePreserves ==
  ASSUME LaneInv, IInv', NEW c \in Reconcilers, NEW a \in attempts, NEW at \in Times,
         Reconcile(c, a, at)
  PROVE  LaneInv'
<1> DEFINE w == [NoTask EXCEPT !.attempt = a, !.observed = at]
<1>1. w \in Tasks /\ w.attempt = a /\ w.observed = at /\ w.state = "none"
  BY DEF Tasks, NoTask
<1> HIDE DEF w
<1>2. Moves(c, "read", w) /\ rpc[c] = "idle" /\ a.id \notin registered /\ a.id \in registered'
  <2>1. a.id \in Persisted /\ registered \subseteq Persisted
    BY DEF Persisted, LaneInv, LaneTypeOK
  <2> QED
    BY <2>1 DEF Reconcile, Moves, w
<1>3. \A d \in Reconcilers \ {c} : rpc[d] \in Holding => task[d].attempt.id # a.id
  BY <1>2 DEF LaneInv, TasksSound
<1> QED
  BY <1>1, <1>2, <1>3, MovePreserves DEF Holding

\* Refusals, exceptions and deaths keep the locals.
LEMMA StopPreserves ==
  ASSUME LaneInv, IInv', NEW c \in Reconcilers,
         ReadRaises(c) \/ ReconcilerDies(c) \/ \E a \in attempts : ReconcileRefused(c, a)
  PROVE  LaneInv'
<1> DEFINE w == task[c]
<1>1. PICK step \in {"refused", "raised", "dead"} :
        /\ rpc' = [rpc EXCEPT ![c] = step] /\ rpc[c] # "done"
        /\ step # "refused" => rpc[c] \in Holding
        /\ UNCHANGED <<vars, exchange, task, registered, outcomes>>
  BY DEF ReadRaises, ReconcilerDies, ReconcileRefused, Holding
<1>2. w \in Tasks
  BY DEF LaneInv, LaneTypeOK, Tasks
<1>3. Moves(c, step, w)
  <2>1. task' = [task EXCEPT ![c] = task[c]]
    BY <1>1 DEF LaneInv, LaneTypeOK
  <2> QED
    BY <1>1, <2>1 DEF Moves, LaneInv, LaneTypeOK
<1>4. step \in Holding =>
        /\ w.attempt \in attempts /\ w.attempt.id \in registered' /\ w.observed \in Times
        /\ \A d \in Reconcilers \ {c} : rpc[d] \in Holding => task[d].attempt.id # w.attempt.id
  BY <1>1 DEF LaneInv, TasksSound, HeldOnce, Holding
<1>5. w.state = "SETTLED_MATCHED" => Settles(w.attempt, w.result, w.observed)
  BY DEF LaneInv, TasksSound
<1> QED
  BY <1>1, <1>2, <1>3, <1>4, <1>5, MovePreserves

\* _check_market lets a market pass only as the settlement of the attempt.
LEMMA MatchSettles ==
  ASSUME LaneInv, NEW a \in attempts, NEW observed \in Times,
         CheckMarket(a, market[a.ticker], observed) = "SETTLED_MATCHED"
  PROVE  Settles(a, market[a.ticker], observed)
<1> DEFINE f == market[a.ticker]
<1>1. a.ticker \in Tickers /\ a.at \in Times
  BY DEF LaneInv, LaneTypeOK, TypeOK
<1>2. f \in Final \union {Open} /\ (f.final => <<a.ticker, f>> \in published)
  BY <1>1 DEF LaneInv, LaneTypeOK, ShownIsPublished
<1> HIDE DEF f
<1>3. f.ts \in Int /\ a.at \in Int /\ observed \in Int
  <2>1. Times \subseteq Int
    BY TimesAssumption DEF Times
  <2>2. f \in Final => f.ts \in Int
    BY <2>1 DEF Final
  <2>3. f = Open => f.ts \in Int
    BY DEF Open
  <2>4. a.at \in Int /\ observed \in Int
    BY <1>1, <2>1
  <2>5. f.ts \in Int
    <3>1. f \in Final \/ f = Open
      BY <1>2
    <3> QED
      BY <2>2, <2>3, <3>1
  <2> QED
    BY <2>4, <2>5
<1>4. f.final /\ f.flaw = "none" /\ ~(f.ts < a.at) /\ ~(f.ts > observed)
  <2>1. f.final /\ f.flaw \notin {"fields", "source"} /\ ~(f.ts < a.at) /\ ~(f.ts > observed)
    BY DEF CheckMarket, f
  <2>2. f.flaw \in {"none", "fields", "source"}
    <3>1. f \in Final => f.flaw \in {"none", "fields", "source"}
      BY DEF Final
    <3>2. f = Open => f.flaw \in {"none", "fields", "source"}
      BY DEF Open
    <3> QED
      BY <1>2, <3>1, <3>2
  <2> QED
    BY <2>1, <2>2
<1>5. (f.result = "yes") <=> ContainsFinalizedTemperature(f.value, a.contract)
  BY DEF CheckMarket, f
<1>6. EvaluatePredicate(f.value, a.contract)
        <=> ContainsFinalizedTemperature(f.value, a.contract)
  BY DEF EvaluatePredicate, ContainsFinalizedTemperature
<1> QED
  BY <1>2, <1>3, <1>4, <1>5, <1>6 DEF Settles, f

\* The three ways a read ends.
LEMMA ReadPreserves ==
  ASSUME LaneInv, IInv', NEW c \in Reconcilers,
         ReadMarket(c) \/ ReadInvalid(c) \/ ReadUnavailable(c)
  PROVE  LaneInv'
<1> DEFINE v == task[c]
           f == market[v.attempt.ticker]
           state == CheckMarket(v.attempt, f, v.observed)
<1>1. /\ rpc[c] = "read" /\ v \in Tasks /\ v.attempt \in attempts
      /\ v.attempt.id \in registered /\ v.observed \in Times /\ v.attempt.ticker \in Tickers
      /\ \A d \in Reconcilers \ {c} : rpc[d] \in Holding => task[d].attempt.id # v.attempt.id
  BY DEF ReadMarket, ReadInvalid, ReadUnavailable, LaneInv, LaneTypeOK, Tasks, TasksSound,
         HeldOnce, Holding, TypeOK
<1>2. f \in Final \union {Open} /\ state \in OutcomeStates
  BY <1>1 DEF LaneInv, LaneTypeOK, CheckMarket, OutcomeStates
<1>3. state = "SETTLED_MATCHED" => Settles(v.attempt, f, v.observed)
  BY <1>1, MatchSettles
<1> HIDE DEF f, state
<1>4. PICK s \in OutcomeStates, g \in Final \union {Open} :
        /\ Moves(c, "append", [v EXCEPT !.state = s, !.result = g])
        /\ s = "SETTLED_MATCHED" => Settles(v.attempt, g, v.observed)
  <2>1. registered \subseteq Persisted
    BY DEF LaneInv, LaneTypeOK
  <2>2. CASE ReadMarket(c)
    <3> DEFINE g == IF state = "SETTLED_MATCHED" THEN f ELSE Open
               w == [v EXCEPT !.state = state, !.result = g]
    <3>1. Moves(c, "append", w)
      BY <2>1, <2>2 DEF ReadMarket, Moves, f, state
    <3>2. g \in Final \union {Open} /\ (state = "SETTLED_MATCHED" => g = f)
      BY <1>2
    <3> QED
      BY <1>2, <1>3, <3>1, <3>2
  <2>3. CASE ReadInvalid(c) \/ ReadUnavailable(c)
    <3>1. PICK s \in {"EVIDENCE_INVALID", "SOURCE_UNAVAILABLE"} :
            Moves(c, "append", [v EXCEPT !.state = s])
      BY <2>1, <2>3 DEF ReadInvalid, ReadUnavailable, Moves
    <3>2. [v EXCEPT !.state = s] = [v EXCEPT !.state = s, !.result = v.result]
      BY <1>1 DEF Tasks
    <3>3. s \in OutcomeStates /\ s # "SETTLED_MATCHED" /\ v.result \in Final \union {Open}
      BY <1>1 DEF OutcomeStates, Tasks
    <3> QED
      BY <3>1, <3>2, <3>3
  <2> QED
    BY <2>2, <2>3
<1> DEFINE w == [v EXCEPT !.state = s, !.result = g]
<1>5. /\ w \in Tasks /\ w.attempt = v.attempt /\ w.observed = v.observed /\ w.state = s
      /\ w.result = g
  BY <1>1, <1>4 DEF Tasks
<1>6. Moves(c, "append", w) /\ registered \subseteq registered'
  BY <1>4 DEF Moves
<1> HIDE DEF w
<1> QED
  BY <1>1, <1>4, <1>5, <1>6, MovePreserves

LEMMA AppendPreserves ==
  ASSUME LaneInv, IInv', NEW c \in Reconcilers, Append(c)
  PROVE  LaneInv'
<1> DEFINE o == OutcomeOf(c)
<1>1. /\ market' = market /\ published' = published /\ attempts' = attempts
      /\ registered' = registered /\ task' = task /\ rpc' = [rpc EXCEPT ![c] = "done"]
      /\ rpc[c] = "append" /\ outcomes' = outcomes \union {o}
  BY DEF Append, OutcomeOf, vars, exchange
<1>2. /\ task[c] \in Tasks /\ task[c].attempt \in attempts /\ task[c].observed \in Times
      /\ task[c].state \in OutcomeStates
  BY <1>1 DEF LaneInv, LaneTypeOK, TasksSound, Holding, Tasks
<1>3. o \in OutcomeRows /\ o.by = c
  BY <1>2 DEF OutcomeOf, OutcomeRows, Tasks
<1>4. OutcomeOf(c)' = o /\ \A d \in Reconcilers : OutcomeOf(d)' = OutcomeOf(d)
  BY <1>1 DEF OutcomeOf
<1> HIDE DEF o
<1>5. /\ rpc' \in [Reconcilers -> {"idle", "read", "append", "done", "refused", "raised", "dead"}]
      /\ rpc'[c] = "done" /\ \A d \in Reconcilers \ {c} : rpc'[d] = rpc[d]
  BY <1>1 DEF LaneInv, LaneTypeOK
<1>6. LaneTypeOK'
  <2>1. Persisted' = Persisted /\ Tasks' = Tasks /\ OutcomeRows' = OutcomeRows
    BY <1>1 DEF Persisted, Tasks, OutcomeRows
  <2> QED
    BY <1>1, <1>3, <1>5, <2>1 DEF LaneInv, LaneTypeOK, Tasks, OutcomeRows, IInv
<1>7. RowsOrdered' /\ ShownIsPublished'
  BY <1>1 DEF LaneInv, RowsOrdered, ShownIsPublished
<1>8. TasksSound' /\ HeldOnce'
  <2>1. \A d \in Reconcilers : rpc'[d] \in Holding => rpc[d] \in Holding
    BY <1>1, <1>5 DEF Holding
  <2>2. HeldOnce'
    BY <1>1, <2>1 DEF LaneInv, HeldOnce
  <2>3. TasksSound'
    BY <1>1, <1>2, <1>5, <2>1 DEF LaneInv, TasksSound, Settles
  <2> QED
    BY <2>2, <2>3
<1>9. OutcomesWritten'
  <2>1. ASSUME NEW p \in outcomes'
        PROVE  p.by \in Reconcilers /\ rpc'[p.by] = "done" /\ p = OutcomeOf(p.by)'
    <3>1. CASE p = o
      <4>1. OutcomeOf(p.by)' = OutcomeOf(c)
        BY <1>3, <1>4, <3>1 DEF o
      <4> QED
        BY <1>3, <1>5, <3>1, <4>1 DEF o
    <3>2. CASE p \in outcomes
      BY <1>4, <1>5, <3>2 DEF LaneInv, OutcomesWritten
    <3> QED
      BY <1>1, <3>1, <3>2
  <2> QED
    BY <2>1 DEF OutcomesWritten, OutcomeOf
<1> QED
  BY <1>6, <1>7, <1>8, <1>9 DEF LaneInv

LEMMA LaneNextInv == LaneInv /\ IInv /\ IInv' /\ [LaneNext]_allVars => LaneInv'
<1>1. ASSUME LaneInv, IInv, IInv', LaneNext PROVE LaneInv'
  BY <1>1, RunPreserves, FinalizePreserves, ReconcilePreserves, StopPreserves, ReadPreserves,
     AppendPreserves DEF LaneNext, ReconcilerStep
<1>2. ASSUME LaneInv, IInv, IInv', UNCHANGED allVars PROVE LaneInv'
  <2>1. UNCHANGED vars /\ UNCHANGED <<exchange, reconciliation>>
    BY <1>2 DEF allVars, exchange, reconciliation
  <2> QED
    BY <1>2, <2>1, RunPreserves
<1> QED
  BY <1>1, <1>2

-----------------------------------------------------------------------------
(* Theorems *)

\* Both journals, the rows one reads from the other and every reconciler's
\* memory agree in every reachable state.
THEOREM LaneInductive == LaneSpec => []LaneInv
<1>1. LaneSpec => []IInv
  BY LaneRuns, Inductive
<1> QED
  BY <1>1, LaneInitInv, LaneNextInv, PTL DEF LaneSpec

\* The lane keeps its types.
THEOREM LaneTypeCorrect == LaneSpec => []LaneTypeOK
<1>1. LaneInv => LaneTypeOK
  BY DEF LaneInv
<1> QED
  BY <1>1, LaneInductive, PTL

\* What an outcome says is what its reconciler holds.
LEMMA OutcomeFacts ==
  ASSUME LaneInv, NEW o \in outcomes
  PROVE  /\ o.attempt \in attempts /\ o.attempt.id \in registered
         /\ o.by \in Reconcilers /\ rpc[o.by] \in Holding
         /\ o.attempt = task[o.by].attempt /\ o = OutcomeOf(o.by)
         /\ o.state = "SETTLED_MATCHED" => Settles(o.attempt, o.result, o.observed)
<1>1. o.by \in Reconcilers /\ rpc[o.by] = "done" /\ o = OutcomeOf(o.by)
  BY DEF LaneInv, OutcomesWritten
<1>2. /\ o.attempt = task[o.by].attempt /\ o.state = task[o.by].state
      /\ o.result = task[o.by].result /\ o.observed = task[o.by].observed
  BY <1>1 DEF OutcomeOf
<1> QED
  BY <1>1, <1>2 DEF LaneInv, TasksSound, Holding

\* A settled outcome scores a forecast made before the settlement.
THEOREM SettledInOrder == LaneSpec => []ForecastPrecedesSettlement
<1>1. LaneInv => ForecastPrecedesSettlement
  BY OutcomeFacts DEF LaneInv, RowsOrdered, Settles, ForecastPrecedesSettlement
<1> QED
  BY <1>1, LaneInductive, PTL

\* A settled outcome is what Kalshi published, read as the forecast read it.
THEOREM SettledFaithfully == LaneSpec => []SettledAsPublished
<1>1. LaneInv => SettledAsPublished
  BY OutcomeFacts DEF Settles, SettledAsPublished
<1> QED
  BY <1>1, LaneInductive, PTL

\* An attempt is settled at most once, whoever reconciles it.
THEOREM SettledOnce == LaneSpec => []OneOutcome
<1>1. ASSUME LaneInv PROVE OneOutcome
  <2>1. ASSUME NEW o \in outcomes, NEW p \in outcomes, o.attempt.id = p.attempt.id
        PROVE  o = p
    <3>1. o.by = p.by
      BY <1>1, <2>1, OutcomeFacts DEF LaneInv, HeldOnce
    <3> QED
      BY <1>1, <3>1, OutcomeFacts
  <2> QED
    BY <1>1, <2>1, OutcomeFacts DEF OneOutcome
<1> QED
  BY <1>1, LaneInductive, PTL
=============================================================================
