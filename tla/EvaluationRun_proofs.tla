------------------------ MODULE EvaluationRun_proofs ------------------------
(***************************************************************************)
(* The journal of the evaluation runs, for any number of processes, runs,  *)
(* markets and members and any clock.                                      *)
(***************************************************************************)
EXTENDS EvaluationRun, TLAPS

\* An invocation that got its run is the only one of it, registered it, and
\* has not closed it while it runs.
Owned ==
  \A i \in Invocations :
    /\ pc[i] = "idle" => work[i].run = NoRun
    /\ work[i].run # NoRun => work[i].run \in starts
    /\ pc[i] \in Running => work[i].run \in Runs /\ work[i].run \notin Closed

\* What an invocation remembers of its run is what the journal holds of it.
Remembered ==
  \A i \in Invocations : work[i].run # NoRun =>
    /\ work[i].ids = {a.id : a \in AttemptsOf(work[i].run)}
    /\ {o[1] : o \in {p \in work[i].outcomes : p[2] = "EVALUATED"}}
         = {a.ticker : a \in AttemptsOf(work[i].run)}

\* The routes are those discovered: done or still to do.
Routed ==
  \A i \in Invocations :
    /\ work[i].todo \subseteq work[i].found
    /\ {o[1] : o \in work[i].outcomes} = work[i].found \ work[i].todo
    /\ work[i].status = "COMPLETED" =>
         pc[i] \in {"close", "done", "dead"} /\ work[i].todo = {}
    /\ pc[i] = "discover" => work[i].outcomes = {}

\* An ensemble was initialized before it was acquired.
Acquired ==
  \A i \in Invocations : work[i].evidence.have =>
    /\ work[i].run # NoRun
    /\ InitTime[work[i].run] <= work[i].evidence.acquired

\* A run is closed at most once.
ClosedOnce == \A t, u \in terminals : t.run = u.run => t = u

IInv ==
  /\ TypeOK /\ ReadsOnce /\ Owned /\ Remembered /\ Routed /\ Acquired
  /\ ClosedOnce /\ TerminalTellsAll /\ EvidenceBeforeDecision /\ ReplayReproduces

-----------------------------------------------------------------------------
(* Outcomes *)

\* The markets of the outcomes after one more.
LEMMA OneMoreOutcome ==
  ASSUME NEW S, NEW x, NEW y
  PROVE  {o[1] : o \in S \union {<<x, y>>}} = {o[1] : o \in S} \union {x}
<1> DEFINE pair == <<x, y>>
<1>1. pair[1] = x
  OBVIOUS
<1> HIDE DEF pair
<1>2. {o[1] : o \in S \union {pair}} = {o[1] : o \in S} \union {pair[1]}
  BY Zenon
<1> QED
  BY <1>1, <1>2 DEF pair

\* The evaluated ones after one more that was evaluated.
LEMMA OneMoreEvaluated ==
  ASSUME NEW S, NEW x
  PROVE  {o[1] : o \in {p \in S \union {<<x, "EVALUATED">>} : p[2] = "EVALUATED"}}
           = {o[1] : o \in {p \in S : p[2] = "EVALUATED"}} \union {x}
<1> DEFINE pair == <<x, "EVALUATED">>
<1>1. pair[1] = x /\ pair[2] = "EVALUATED"
  OBVIOUS
<1> HIDE DEF pair
<1>2. {p \in S \union {pair} : p[2] = "EVALUATED"}
        = {p \in S : p[2] = "EVALUATED"} \union {pair}
  BY <1>1
<1>3. {o[1] : o \in {p \in S : p[2] = "EVALUATED"} \union {pair}}
        = {o[1] : o \in {p \in S : p[2] = "EVALUATED"}} \union {pair[1]}
  BY Zenon
<1> QED
  BY <1>1, <1>2, <1>3 DEF pair

-----------------------------------------------------------------------------
(* Types *)

LEMMA NoWorkType == NoWork \in Works
<1>1. NoEvidence \in [have : BOOLEAN, rows : [Members -> SUBSET Int],
                      acquired : Times \union {None}]
  BY DEF NoEvidence, NoRows
<1>2. NoSnapshot \in Snapshots
  BY DEF Snapshots
<1> QED
  BY <1>1, <1>2 DEF NoWork, Works

LEMMA InitType == Init => TypeOK
  BY NoWorkType DEF Init, TypeOK, Steps, NoWork

\* A local step keeps the types when its new locals have them.
LEMMA LocalType ==
  ASSUME TypeOK, NEW i \in Invocations, NEW step \in Steps, NEW w \in Works,
         Local(i, step, w), step = "decide" => w.ticker \in w.todo
  PROVE  TypeOK'
<1>1. /\ pc' \in [Invocations -> Steps] /\ work' \in [Invocations -> Works]
      /\ attempts' = attempts /\ starts' = starts /\ terminals' = terminals
      /\ pc'[i] = step /\ work'[i] = w
      /\ \A j \in Invocations \ {i} : pc'[j] = pc[j] /\ work'[j] = work[j]
  BY DEF TypeOK, Local, journal
<1>2. Works' = Works
  BY <1>1 DEF Works, Persisted
<1> QED
  BY <1>1, <1>2 DEF TypeOK

\* The row an invocation would persist.
LEMMA AttemptFields ==
  ASSUME NEW i, NEW at
  PROVE  /\ Attempt(i, at).run = work[i].run
         /\ Attempt(i, at).ticker = work[i].ticker
         /\ Attempt(i, at).at = at
         /\ Attempt(i, at).observed = work[i].snapshot.book
         /\ Attempt(i, at).evidence = work[i].evidence
  BY DEF Attempt, BuildAttempt

LEMMA RegisterType ==
  ASSUME TypeOK, NEW i \in Invocations, NEW r \in Runs, Register(i, r)
  PROVE  TypeOK'
<1> DEFINE w == [NoWork EXCEPT !.run = r]
<1>1. w \in Works
  BY NoWorkType DEF Works
<1> HIDE DEF w
<1>2. /\ pc' = [pc EXCEPT ![i] = "discover"] /\ work' = [work EXCEPT ![i] = w]
      /\ attempts' = attempts /\ starts' = starts \union {r} /\ terminals' = terminals
  BY DEF Register, w
<1>3. Works' = Works
  BY <1>2 DEF Works, Persisted
<1> QED
  BY <1>1, <1>2, <1>3 DEF TypeOK, Steps

LEMMA EvaluateType ==
  ASSUME TypeOK, Owned, NEW i \in Invocations, NEW at \in Times, Evaluate(i, at)
  PROVE  TypeOK'
<1> DEFINE a == Attempt(i, at)
           w == Recorded(work[i], a)
<1>1. /\ a.run \in starts /\ a.ticker \in Tickers /\ a.at \in Times
      /\ work[i].ticker \in work[i].todo
  <2>1. work[i].ticker \in work[i].todo /\ work[i] \in Works /\ pc[i] \in Running
    BY DEF TypeOK, Evaluate, Running, Steps
  <2>2. work[i].run \in starts
    BY <2>1, RunsAssumption DEF Owned
  <2>3. work[i].ticker \in Tickers
    BY <2>1 DEF Works
  <2> QED
    BY <2>1, <2>2, <2>3, AttemptFields
<1> HIDE DEF a
<1>2. /\ pc' = [pc EXCEPT ![i] = "routes"] /\ work' = [work EXCEPT ![i] = w]
      /\ attempts' = attempts \union {a} /\ starts' = starts /\ terminals' = terminals
  BY DEF Evaluate, a
<1>3. a.id \in Persisted' /\ Persisted \subseteq Persisted'
  BY <1>2 DEF Persisted
<1>4. \A v \in Works : v \in Works'
  BY <1>2, <1>3 DEF Works
<1>5. w \in Works'
  <2>1. work[i] \in Works /\ work[i] \in Works'
    BY <1>4 DEF TypeOK
  <2>2. /\ work[i].todo \ {work[i].ticker} \in SUBSET Tickers
        /\ work[i].outcomes \union {<<work[i].ticker, "EVALUATED">>}
             \in SUBSET (Tickers \X {"NOT_SUPPORTED", "EVALUATED"})
        /\ work[i].ids \union {a.id} \in SUBSET Persisted'
    BY <1>1, <1>3, <2>1 DEF Works
  <2> QED
    BY <2>1, <2>2 DEF Works, Recorded
<1> HIDE DEF w
<1>6. work' \in [Invocations -> Works']
  BY <1>2, <1>4, <1>5 DEF TypeOK
<1>7. pc' \in [Invocations -> Steps]
  BY <1>2 DEF TypeOK, Steps
<1> QED
  BY <1>1, <1>2, <1>6, <1>7 DEF TypeOK

LEMMA CloseType ==
  ASSUME TypeOK, Owned, NEW i \in Invocations, Close(i)
  PROVE  TypeOK'
<1>1. Works' = Works
  BY DEF Close, Works, Persisted
<1>2. work[i].run \in starts /\ work[i].status \in {"COMPLETED", "FAILED"}
  BY RunsAssumption DEF Owned, Close, Running, Steps, TypeOK, Works
<1>3. Terminal(work[i]).run = work[i].run /\ Terminal(work[i]).status = work[i].status
  BY DEF Terminal
<1> QED
  BY <1>1, <1>2, <1>3 DEF TypeOK, Close, Steps

-----------------------------------------------------------------------------
(* Steps that leave the journal alone *)

\* The steps that only change the locals of i.
LocalStep(i) ==
  \/ \E r \in Runs : RegisterRefused(i, r)
  \/ \E supported, others \in SUBSET Tickers : Discover(i, supported, others)
  \/ DiscoverRefused(i)
  \/ \E rows \in Ensembles \union {NoRows}, at \in Times : Acquire(i, rows, at)
  \/ \E weather \in {"ACQUISITION_FAILED", "INCOMPLETE"} : AcquireRefused(i, weather)
  \/ \E t \in Tickers : SkipRoute(i, t) \/ \E s \in Snapshots : Snapshot(i, t, s)
  \/ Raise(i) \/ EvaluateRefused(i) \/ Complete(i) \/ CloseRefused(i) \/ Die(i)

\* What such a step may do with them: the run and what was persisted stay,
\* the routes stay accounted for, the types are kept.
Kept(i, step, w) ==
  /\ step \in Steps \ {"idle", "discover"} /\ w \in Works
  /\ step = "decide" => w.ticker \in w.todo
  /\ step \in Running => pc[i] \in Running
  /\ w.run = work[i].run /\ w.ids = work[i].ids
  /\ {p \in w.outcomes : p[2] = "EVALUATED"} = {p \in work[i].outcomes : p[2] = "EVALUATED"}
  /\ w.todo \subseteq w.found
  /\ {o[1] : o \in w.outcomes} = w.found \ w.todo
  /\ w.status = "COMPLETED" => step \in {"close", "done", "dead"} /\ w.todo = {}
  /\ w.evidence.have => w.run # NoRun /\ InitTime[w.run] <= w.evidence.acquired
  /\ pc[i] \notin Running => w = work[i]

LEMMA LocalKept ==
  ASSUME TypeOK, Owned, Routed, Acquired, NEW i \in Invocations, LocalStep(i)
  PROVE  \E step, w : Local(i, step, w) /\ Kept(i, step, w)
<1> DEFINE v == work[i]
<1>1. v \in Works /\ pc[i] \in Steps /\ (pc[i] \in Running => v.run \in Runs)
  BY DEF TypeOK, Owned
<1>2. /\ v.todo \subseteq v.found /\ {o[1] : o \in v.outcomes} = v.found \ v.todo
      /\ v.status = "COMPLETED" => pc[i] \in {"close", "done", "dead"} /\ v.todo = {}
      /\ pc[i] = "discover" => v.outcomes = {}
  BY DEF Routed
<1>3. v.evidence.have => v.run # NoRun /\ InitTime[v.run] <= v.evidence.acquired
  BY DEF Acquired
<1>a. CASE \/ \E r \in Runs : RegisterRefused(i, r)
           \/ Raise(i) \/ EvaluateRefused(i) \/ CloseRefused(i) \/ Die(i)
  <2>1. PICK step \in {"done", "close", "dead"} :
          Local(i, step, v) /\ (step = "close" => pc[i] \in Running)
    BY <1>a DEF RegisterRefused, Raise, EvaluateRefused, CloseRefused, Die, Running, Steps
  <2>2. Kept(i, step, v)
    BY <1>1, <1>2, <1>3, <2>1 DEF Kept, Running, Steps
  <2> QED
    BY <2>1, <2>2
<1>b. ASSUME NEW supported \in SUBSET Tickers, NEW others \in SUBSET Tickers,
             Discover(i, supported, others)
      PROVE  \E step, w : Local(i, step, w) /\ Kept(i, step, w)
  <2> DEFINE w == [v EXCEPT !.found = supported \union others, !.siblings = supported,
                            !.todo = supported \union others]
  <2>1. Local(i, "acquire", w) /\ pc[i] = "discover"
    BY <1>b DEF Discover
  <2>2. w \in Works
    BY <1>1 DEF Works
  <2>3. /\ w.run = v.run /\ w.ids = v.ids /\ w.outcomes = v.outcomes
        /\ w.found = w.todo /\ w.status = v.status /\ w.evidence = v.evidence
    BY <1>1 DEF Works
  <2> HIDE DEF w
  <2>4. Kept(i, "acquire", w)
    BY <1>1, <1>2, <1>3, <2>1, <2>2, <2>3 DEF Kept, Running, Steps
  <2> QED
    BY <2>1, <2>4
<1>c. CASE DiscoverRefused(i)
  <2> DEFINE w == [v EXCEPT !.discovery = "DISCOVERY_FAILED"]
  <2>1. Local(i, "acquire", w) /\ pc[i] = "discover"
    BY <1>c DEF DiscoverRefused
  <2>2. w \in Works
    BY <1>1 DEF Works
  <2>3. /\ w.run = v.run /\ w.ids = v.ids /\ w.outcomes = v.outcomes /\ w.found = v.found
        /\ w.todo = v.todo /\ w.status = v.status /\ w.evidence = v.evidence
    BY <1>1 DEF Works
  <2> HIDE DEF w
  <2>4. Kept(i, "acquire", w)
    BY <1>1, <1>2, <1>3, <2>1, <2>2, <2>3 DEF Kept, Running, Steps
  <2> QED
    BY <2>1, <2>4
<1>d. ASSUME NEW rows \in Ensembles \union {NoRows}, NEW at \in Times, Acquire(i, rows, at)
      PROVE  \E step, w : Local(i, step, w) /\ Kept(i, step, w)
  <2> DEFINE e == [have |-> TRUE, rows |-> rows, acquired |-> at]
             w == [v EXCEPT !.evidence = e]
  <2>1. Local(i, "routes", w) /\ pc[i] = "acquire" /\ InitTime[v.run] <= at
    BY <1>1, <1>d, TimesAssumption DEF Acquire, Running, Steps, Times
  <2>2. e \in [have : BOOLEAN, rows : [Members -> SUBSET Int], acquired : Times \union {None}]
    BY EnsemblesAssumption DEF NoRows
  <2>3. e.acquired = at
    OBVIOUS
  <2> HIDE DEF e
  <2>4. w \in Works
    BY <1>1, <2>2 DEF Works
  <2>5. /\ w.run = v.run /\ w.ids = v.ids /\ w.outcomes = v.outcomes /\ w.found = v.found
        /\ w.todo = v.todo /\ w.status = v.status /\ w.evidence = e
    BY <1>1 DEF Works
  <2> HIDE DEF w
  <2>6. v.run # NoRun
    BY <1>1, <2>1, RunsAssumption DEF Running, Steps
  <2>7. Kept(i, "routes", w)
    BY <1>1, <1>2, <2>1, <2>3, <2>4, <2>5, <2>6 DEF Kept, Running, Steps
  <2> QED
    BY <2>1, <2>7
<1>e. ASSUME NEW weather \in {"ACQUISITION_FAILED", "INCOMPLETE"}, AcquireRefused(i, weather)
      PROVE  \E step, w : Local(i, step, w) /\ Kept(i, step, w)
  <2> DEFINE w == [v EXCEPT !.weather = weather]
  <2>1. Local(i, "routes", w) /\ pc[i] = "acquire"
    BY <1>e DEF AcquireRefused
  <2>2. w \in Works
    BY <1>1 DEF Works
  <2>3. /\ w.run = v.run /\ w.ids = v.ids /\ w.outcomes = v.outcomes /\ w.found = v.found
        /\ w.todo = v.todo /\ w.status = v.status /\ w.evidence = v.evidence
    BY <1>1 DEF Works
  <2> HIDE DEF w
  <2>4. Kept(i, "routes", w)
    BY <1>1, <1>2, <1>3, <2>1, <2>2, <2>3 DEF Kept, Running, Steps
  <2> QED
    BY <2>1, <2>4
<1>f. ASSUME NEW t \in Tickers, SkipRoute(i, t)
      PROVE  \E step, w : Local(i, step, w) /\ Kept(i, step, w)
  <2> DEFINE w == [v EXCEPT !.todo = v.todo \ {t},
                            !.outcomes = v.outcomes \union {<<t, "NOT_SUPPORTED">>}]
  <2>1. Local(i, "routes", w) /\ pc[i] = "routes" /\ t \in v.todo
    BY <1>f DEF SkipRoute
  <2>2. w \in Works
    <3>1. /\ v.todo \ {t} \in SUBSET Tickers
          /\ v.outcomes \union {<<t, "NOT_SUPPORTED">>}
               \in SUBSET (Tickers \X {"NOT_SUPPORTED", "EVALUATED"})
      BY <1>1 DEF Works
    <3> QED
      BY <1>1, <3>1 DEF Works
  <2>3. /\ w.run = v.run /\ w.ids = v.ids /\ w.found = v.found
        /\ w.outcomes = v.outcomes \union {<<t, "NOT_SUPPORTED">>}
        /\ w.todo = v.todo \ {t} /\ w.status = v.status /\ w.evidence = v.evidence
    BY <1>1 DEF Works
  <2> HIDE DEF w
  <2>4. {p \in w.outcomes : p[2] = "EVALUATED"} = {p \in v.outcomes : p[2] = "EVALUATED"}
    BY <2>3
  <2>5. {o[1] : o \in w.outcomes} = w.found \ w.todo
    <3>1. {o[1] : o \in v.outcomes \union {<<t, "NOT_SUPPORTED">>}}
            = {o[1] : o \in v.outcomes} \union {t}
      BY OneMoreOutcome, Zenon
    <3> QED
      BY <1>2, <2>1, <2>3, <3>1
  <2>6. w.todo \subseteq w.found /\ (w.status = "COMPLETED" => FALSE)
    BY <1>2, <2>1, <2>3
  <2>7. Kept(i, "routes", w)
    BY <1>1, <1>3, <2>1, <2>2, <2>3, <2>4, <2>5, <2>6 DEF Kept, Running, Steps
  <2> QED
    BY <2>1, <2>7
<1>g. ASSUME NEW t \in Tickers, NEW s \in Snapshots, Snapshot(i, t, s)
      PROVE  \E step, w : Local(i, step, w) /\ Kept(i, step, w)
  <2> DEFINE w == [v EXCEPT !.ticker = t, !.snapshot = s]
  <2>1. Local(i, "decide", w) /\ pc[i] = "routes" /\ t \in v.todo
    BY <1>g DEF Snapshot
  <2>2. w \in Works
    BY <1>1 DEF Works
  <2>3. /\ w.run = v.run /\ w.ids = v.ids /\ w.outcomes = v.outcomes /\ w.found = v.found
        /\ w.todo = v.todo /\ w.status = v.status /\ w.evidence = v.evidence
        /\ w.ticker = t
    BY <1>1 DEF Works
  <2> HIDE DEF w
  <2>4. Kept(i, "decide", w)
    BY <1>1, <1>2, <1>3, <2>1, <2>2, <2>3 DEF Kept, Running, Steps
  <2> QED
    BY <2>1, <2>4
<1>h. CASE Complete(i)
  <2> DEFINE w == [v EXCEPT !.status = "COMPLETED"]
  <2>1. Local(i, "close", w) /\ pc[i] = "routes" /\ v.todo = {}
    BY <1>h DEF Complete
  <2>2. w \in Works
    BY <1>1 DEF Works
  <2>3. /\ w.run = v.run /\ w.ids = v.ids /\ w.outcomes = v.outcomes /\ w.found = v.found
        /\ w.todo = v.todo /\ w.evidence = v.evidence
    BY <1>1 DEF Works
  <2> HIDE DEF w
  <2>4. Kept(i, "close", w)
    BY <1>1, <1>2, <1>3, <2>1, <2>2, <2>3 DEF Kept, Running, Steps
  <2> QED
    BY <2>1, <2>4
<1> QED
  BY <1>a, <1>b, <1>c, <1>d, <1>e, <1>f, <1>g, <1>h DEF LocalStep

-----------------------------------------------------------------------------
(* The inductive invariant, step by step *)

\* What a local step of i leaves as it was.
LEMMA LocalPreserves ==
  ASSUME IInv, NEW i \in Invocations, LocalStep(i)
  PROVE  IInv'
<1>1. PICK step, w : Local(i, step, w) /\ Kept(i, step, w)
  BY LocalKept DEF IInv
<1>2. /\ attempts' = attempts /\ starts' = starts /\ terminals' = terminals
      /\ pc'[i] = step /\ work'[i] = w
      /\ \A j \in Invocations \ {i} : pc'[j] = pc[j] /\ work'[j] = work[j]
  BY <1>1 DEF Local, journal, IInv, TypeOK
<1>4. Closed' = Closed
  BY <1>2 DEF Closed
<1>5. TypeOK'
  BY <1>1, LocalType DEF IInv, Kept, Steps
<1>6. ReadsOnce'
  BY <1>1, <1>2 DEF IInv, ReadsOnce, Kept
<1>7. Owned'
  <2>1. /\ step # "idle" /\ w.run = work[i].run
        /\ step \in Running => pc[i] \in Running
    BY <1>1 DEF Kept
  <2> QED
    BY <1>2, <1>4, <2>1 DEF IInv, Owned
<1>8. Remembered'
  <2>1. /\ w.run = work[i].run /\ w.ids = work[i].ids
        /\ {p \in w.outcomes : p[2] = "EVALUATED"} = {p \in work[i].outcomes : p[2] = "EVALUATED"}
    BY <1>1 DEF Kept
  <2>2. ASSUME NEW j \in Invocations, work'[j].run # NoRun
        PROVE  /\ work'[j].ids = {a.id : a \in AttemptsOf(work[j].run)}'
               /\ {o[1] : o \in {p \in work'[j].outcomes : p[2] = "EVALUATED"}}
                    = {a.ticker : a \in AttemptsOf(work[j].run)}'
    <3>1. /\ work'[j].run = work[j].run /\ work'[j].ids = work[j].ids
          /\ {p \in work'[j].outcomes : p[2] = "EVALUATED"}
               = {p \in work[j].outcomes : p[2] = "EVALUATED"}
      BY <1>2, <2>1
    <3>2. /\ work[j].ids = {a.id : a \in AttemptsOf(work[j].run)}
          /\ {o[1] : o \in {p \in work[j].outcomes : p[2] = "EVALUATED"}}
               = {a.ticker : a \in AttemptsOf(work[j].run)}
      BY <2>2, <3>1 DEF IInv, Remembered
    <3> QED
      BY <1>2, <3>1, <3>2 DEF AttemptsOf
  <2> QED
    BY <2>2 DEF Remembered
<1>9. Routed'
  BY <1>1, <1>2 DEF IInv, Routed, Kept
<1>10. Acquired'
  BY <1>1, <1>2 DEF IInv, Acquired, Kept
<1>11. ClosedOnce' /\ EvidenceBeforeDecision' /\ ReplayReproduces'
  BY <1>2 DEF IInv, ClosedOnce, EvidenceBeforeDecision, ReplayReproduces
<1>12. TerminalTellsAll'
  <2>1. ASSUME NEW t \in terminals, NEW j \in Invocations, work'[j].run = t.run
        PROVE  work'[j] = work[j]
    <3>1. t.run \in Runs /\ t.run \in Closed
      BY DEF IInv, TypeOK, Closed
    <3>2. CASE j = i
      <4>1. w.run = work[i].run /\ (pc[i] \notin Running => w = work[i])
        BY <1>1 DEF Kept
      <4>2. pc[i] \notin Running
        BY <1>2, <2>1, <3>1, <3>2, <4>1 DEF IInv, Owned
      <4> QED
        BY <1>2, <3>2, <4>1, <4>2
    <3> QED
      BY <1>2, <3>2
  <2> QED
    BY <1>2, <2>1 DEF IInv, TerminalTellsAll, AttemptsOf
<1> QED
  BY <1>5, <1>6, <1>7, <1>8, <1>9, <1>10, <1>11, <1>12 DEF IInv

\* A run that was not registered has no rows at all.
LEMMA RegisterPreserves ==
  ASSUME IInv, NEW i \in Invocations, NEW r \in Runs, Register(i, r)
  PROVE  IInv'
<1> DEFINE w == [NoWork EXCEPT !.run = r]
<1>1. /\ w.run = r /\ w.ids = {} /\ w.outcomes = {} /\ w.found = {} /\ w.todo = {}
      /\ w.status = "FAILED" /\ w.evidence.have = FALSE
  BY DEF NoWork, NoEvidence
<1>2. /\ attempts' = attempts /\ starts' = starts \union {r} /\ terminals' = terminals
      /\ pc'[i] = "discover" /\ work'[i] = w
      /\ \A j \in Invocations \ {i} : pc'[j] = pc[j] /\ work'[j] = work[j]
      /\ r \notin starts
  BY DEF Register, IInv, TypeOK
<1> HIDE DEF w
<1>3. /\ r # NoRun /\ Closed' = Closed /\ r \notin Closed
      /\ \A a \in attempts : a.run # r
      /\ \A t \in terminals : t.run # r
  BY <1>2, RunsAssumption DEF Closed, IInv, TypeOK
<1>4. TypeOK'
  BY RegisterType DEF IInv
<1>5. ReadsOnce'
  BY <1>1, <1>2 DEF IInv, ReadsOnce, Owned
<1>6. Owned'
  BY <1>1, <1>2, <1>3 DEF IInv, Owned
<1>7. Remembered'
  <2>1. ASSUME NEW j \in Invocations, work'[j].run # NoRun
        PROVE  /\ work'[j].ids = {a.id : a \in AttemptsOf(work[j].run)}'
               /\ {o[1] : o \in {p \in work'[j].outcomes : p[2] = "EVALUATED"}}
                    = {a.ticker : a \in AttemptsOf(work[j].run)}'
    <3>1. CASE j = i
      BY <1>1, <1>2, <1>3, <3>1 DEF AttemptsOf
    <3>2. CASE j # i
      BY <1>2, <2>1, <3>2 DEF IInv, Remembered, AttemptsOf
    <3> QED
      BY <3>1, <3>2
  <2> QED
    BY <2>1 DEF Remembered
<1>8. Routed'
  BY <1>1, <1>2 DEF IInv, Routed
<1>9. Acquired'
  BY <1>1, <1>2 DEF IInv, Acquired
<1>10. ClosedOnce' /\ EvidenceBeforeDecision' /\ ReplayReproduces'
  BY <1>2 DEF IInv, ClosedOnce, EvidenceBeforeDecision, ReplayReproduces
<1>11. TerminalTellsAll'
  BY <1>1, <1>2, <1>3 DEF IInv, TerminalTellsAll, AttemptsOf
<1> QED
  BY <1>4, <1>5, <1>6, <1>7, <1>8, <1>9, <1>10, <1>11 DEF IInv

\* The row replays to its own decision: every argument of the decision is in
\* the row, or computed from what is in it.
LEMMA AttemptReplays ==
  ASSUME NEW i, NEW at
  PROVE  ReplayDecision(Attempt(i, at)) = Attempt(i, at).decision
<1> DEFINE e == work[i].evidence
           s == work[i].snapshot
           a == Attempt(i, at)
<1>1. /\ a.evidence = e /\ a.observed = s.book /\ a.quote = s.quote /\ a.at = at
      /\ a.contract = Contract[work[i].ticker]
      /\ a.boundary = Boundary(e.rows, work[i].siblings)
      /\ a.decision = Decision(work[i].ticker, e, s, work[i].siblings, at)
  BY DEF Attempt, BuildAttempt
<1> HIDE DEF a
<1> QED
  BY <1>1 DEF ReplayDecision, Decision, a

LEMMA EvaluatePreserves ==
  ASSUME IInv, NEW i \in Invocations, NEW at \in Times, Evaluate(i, at)
  PROVE  IInv'
<1> DEFINE v == work[i]
           a == Attempt(i, at)
           w == Recorded(v, a)
<1>1. /\ v \in Works /\ pc[i] = "decide" /\ v.ticker \in v.todo
      /\ v.run \in starts /\ v.run \in Runs /\ v.run # NoRun /\ v.run \notin Closed
      /\ \A j \in Invocations : work[j].run = v.run => j = i
  BY RunsAssumption DEF IInv, TypeOK, Owned, ReadsOnce, Evaluate, Running, Steps
<1>2. /\ a.run = v.run /\ a.ticker = v.ticker /\ a.at = at /\ a.id \notin Persisted
      /\ a.observed = v.snapshot.book /\ a.evidence = v.evidence
      /\ ReplayDecision(a) = a.decision
  BY AttemptFields, AttemptReplays DEF Evaluate
<1>3. /\ attempts' = attempts \union {a} /\ starts' = starts /\ terminals' = terminals
      /\ pc'[i] = "routes" /\ work'[i] = w
      /\ \A j \in Invocations \ {i} : pc'[j] = pc[j] /\ work'[j] = work[j]
  BY DEF Evaluate, IInv, TypeOK
<1>c. Chronology(v.evidence, v.snapshot, at)
  BY DEF Evaluate
<1> HIDE DEF a
<1>4. /\ w.run = v.run /\ w.ids = v.ids \union {a.id} /\ w.found = v.found
      /\ w.outcomes = v.outcomes \union {<<v.ticker, "EVALUATED">>}
      /\ w.todo = v.todo \ {v.ticker} /\ w.status = v.status /\ w.evidence = v.evidence
  BY <1>1 DEF Recorded, Works
<1> HIDE DEF w
<1>5. Closed' = Closed
  BY <1>3 DEF Closed
<1>6. TypeOK'
  BY EvaluateType DEF IInv
<1>7. ReadsOnce' /\ Owned'
  BY <1>1, <1>3, <1>4, <1>5 DEF IInv, ReadsOnce, Owned, Running, Steps
<1>8. Remembered'
  <2>1. ASSUME NEW j \in Invocations, work'[j].run # NoRun
        PROVE  /\ work'[j].ids = {x.id : x \in AttemptsOf(work[j].run)}'
               /\ {o[1] : o \in {p \in work'[j].outcomes : p[2] = "EVALUATED"}}
                    = {x.ticker : x \in AttemptsOf(work[j].run)}'
    <3>1. CASE j = i
      <4>1. {x \in attempts' : x.run = v.run} = {x \in attempts : x.run = v.run} \union {a}
        BY <1>2, <1>3
      <4>2. /\ {x.id : x \in {y \in attempts : y.run = v.run} \union {a}}
                 = {x.id : x \in {y \in attempts : y.run = v.run}} \union {a.id}
            /\ {x.ticker : x \in {y \in attempts : y.run = v.run} \union {a}}
                 = {x.ticker : x \in {y \in attempts : y.run = v.run}} \union {a.ticker}
        BY Zenon
      <4>3. {o[1] : o \in {p \in v.outcomes \union {<<v.ticker, "EVALUATED">>} : p[2] = "EVALUATED"}}
              = {o[1] : o \in {p \in v.outcomes : p[2] = "EVALUATED"}} \union {v.ticker}
        BY OneMoreEvaluated, Zenon
      <4>4. /\ v.ids = {x.id : x \in {y \in attempts : y.run = v.run}}
            /\ {o[1] : o \in {p \in v.outcomes : p[2] = "EVALUATED"}}
                 = {x.ticker : x \in {y \in attempts : y.run = v.run}}
        BY <1>1 DEF IInv, Remembered, AttemptsOf
      <4>5. /\ w.ids = {x.id : x \in {y \in attempts' : y.run = v.run}}
            /\ {o[1] : o \in {p \in w.outcomes : p[2] = "EVALUATED"}}
                 = {x.ticker : x \in {y \in attempts' : y.run = v.run}}
        BY <1>2, <1>4, <4>1, <4>2, <4>3, <4>4
      <4> QED
        BY <1>3, <1>4, <3>1, <4>5 DEF AttemptsOf
    <3>2. CASE j # i
      <4>1. work[j].run # v.run /\ work'[j] = work[j]
        BY <1>1, <1>3, <3>2
      <4>2. {x \in attempts' : x.run = work[j].run} = {x \in attempts : x.run = work[j].run}
        BY <1>2, <1>3, <4>1
      <4> QED
        BY <2>1, <4>1, <4>2 DEF IInv, Remembered, AttemptsOf
    <3> QED
      BY <3>1, <3>2
  <2> QED
    BY <2>1 DEF Remembered
<1>9. Routed'
  <2>1. {o[1] : o \in v.outcomes \union {<<v.ticker, "EVALUATED">>}}
          = {o[1] : o \in v.outcomes} \union {v.ticker}
    BY OneMoreOutcome, Zenon
  <2>2. /\ v.todo \subseteq v.found /\ {o[1] : o \in v.outcomes} = v.found \ v.todo
        /\ v.status # "COMPLETED"
    BY <1>1 DEF IInv, Routed
  <2>3. {o[1] : o \in w.outcomes} = w.found \ w.todo
    BY <1>1, <1>4, <2>1, <2>2
  <2> QED
    BY <1>3, <1>4, <2>2, <2>3 DEF IInv, Routed
<1>10. Acquired'
  BY <1>3, <1>4 DEF IInv, Acquired
<1>11. ClosedOnce'
  BY <1>3 DEF IInv, ClosedOnce
<1>12. EvidenceBeforeDecision' /\ ReplayReproduces'
  <2>1. /\ a.observed <= a.at
        /\ a.evidence.have => /\ InitTime[a.run] <= a.evidence.acquired
                              /\ a.evidence.acquired <= a.at
    BY <1>1, <1>2, <1>c DEF IInv, Acquired, Chronology
  <2> QED
    BY <1>2, <1>3, <2>1 DEF IInv, EvidenceBeforeDecision, ReplayReproduces
<1>13. TerminalTellsAll'
  <2>1. ASSUME NEW t \in terminals
        PROVE  /\ {x \in attempts' : x.run = t.run} = {x \in attempts : x.run = t.run}
               /\ \A j \in Invocations : work'[j].run = t.run => work'[j] = work[j]
    BY <1>1, <1>2, <1>3, <1>4 DEF Closed
  <2>2. ASSUME NEW t \in terminals
        PROVE  /\ t.ids = {x.id : x \in {y \in attempts' : y.run = t.run}}
               /\ {o[1] : o \in {p \in t.outcomes : p[2] = "EVALUATED"}}
                    = {x.ticker : x \in {y \in attempts' : y.run = t.run}}
               /\ t.status = "COMPLETED" =>
                    \A j \in Invocations :
                      work'[j].run = t.run => {o[1] : o \in t.outcomes} = work'[j].found
    <3>1. /\ t.ids = {x.id : x \in {y \in attempts : y.run = t.run}}
          /\ {o[1] : o \in {p \in t.outcomes : p[2] = "EVALUATED"}}
               = {x.ticker : x \in {y \in attempts : y.run = t.run}}
          /\ t.status = "COMPLETED" =>
               \A j \in Invocations :
                 work[j].run = t.run => {o[1] : o \in t.outcomes} = work[j].found
      BY DEF IInv, TerminalTellsAll, AttemptsOf
    <3> QED
      BY <2>1, <3>1
  <2> QED
    BY <1>3, <2>2 DEF TerminalTellsAll, AttemptsOf
<1> QED
  BY <1>6, <1>7, <1>8, <1>9, <1>10, <1>11, <1>12, <1>13 DEF IInv

LEMMA ClosePreserves ==
  ASSUME IInv, NEW i \in Invocations, Close(i)
  PROVE  IInv'
<1> DEFINE v == work[i]
           new == Terminal(v)
<1>1. /\ v.run \in starts /\ v.run \in Runs /\ v.run # NoRun /\ v.run \notin Closed
      /\ \A j \in Invocations : work[j].run = v.run => j = i
  BY RunsAssumption DEF IInv, Owned, ReadsOnce, Close, Running, Steps
<1>2. /\ new.run = v.run /\ new.status = v.status /\ new.outcomes = v.outcomes
      /\ new.ids = v.ids
  BY DEF Terminal
<1> HIDE DEF new
<1>3. /\ terminals' = terminals \union {new} /\ attempts' = attempts /\ starts' = starts
      /\ work' = work /\ pc'[i] = "done" /\ \A j \in Invocations \ {i} : pc'[j] = pc[j]
  BY DEF Close, IInv, TypeOK, new
<1>4. Closed' = Closed \union {v.run}
  BY <1>2, <1>3 DEF Closed
<1>5. TypeOK'
  BY CloseType DEF IInv
<1>6. ReadsOnce' /\ Owned'
  BY <1>1, <1>3, <1>4 DEF IInv, ReadsOnce, Owned, Running, Steps
<1>7. Remembered' /\ Acquired' /\ EvidenceBeforeDecision' /\ ReplayReproduces'
  BY <1>3 DEF IInv, Remembered, AttemptsOf, Acquired, EvidenceBeforeDecision, ReplayReproduces
<1>8. Routed'
  BY <1>3 DEF IInv, Routed
<1>9. ClosedOnce'
  BY <1>1, <1>2, <1>3 DEF IInv, ClosedOnce, Closed
<1>10. TerminalTellsAll'
  <2>1. /\ new.ids = {a.id : a \in AttemptsOf(new.run)}
        /\ {o[1] : o \in {p \in new.outcomes : p[2] = "EVALUATED"}}
             = {a.ticker : a \in AttemptsOf(new.run)}
    BY <1>1, <1>2 DEF IInv, Remembered
  <2>2. new.status = "COMPLETED" =>
          \A j \in Invocations : work[j].run = new.run => {o[1] : o \in new.outcomes} = work[j].found
    <3>1. v.status = "COMPLETED" => {o[1] : o \in v.outcomes} = v.found
      BY DEF IInv, Routed
    <3> QED
      BY <1>1, <1>2, <3>1
  <2>3. ASSUME NEW t \in terminals'
        PROVE  /\ t.ids = {x.id : x \in {y \in attempts' : y.run = t.run}}
               /\ {o[1] : o \in {p \in t.outcomes : p[2] = "EVALUATED"}}
                    = {x.ticker : x \in {y \in attempts' : y.run = t.run}}
               /\ t.status = "COMPLETED" =>
                    \A j \in Invocations :
                      work'[j].run = t.run => {o[1] : o \in t.outcomes} = work'[j].found
    <3>1. CASE t = new
      BY <1>3, <2>1, <2>2, <3>1 DEF AttemptsOf
    <3>2. CASE t \in terminals
      BY <1>3, <3>2 DEF IInv, TerminalTellsAll, AttemptsOf
    <3> QED
      BY <1>3, <3>1, <3>2
  <2> QED
    BY <2>3 DEF TerminalTellsAll, AttemptsOf
<1> QED
  BY <1>5, <1>6, <1>7, <1>8, <1>9, <1>10 DEF IInv

-----------------------------------------------------------------------------
(* Theorems *)

LEMMA InitIInv == Init => IInv
<1> SUFFICES ASSUME Init PROVE IInv
  OBVIOUS
<1>1. /\ \A i \in Invocations : pc[i] = "idle" /\ work[i] = NoWork
      /\ starts = {} /\ attempts = {} /\ terminals = {}
  BY DEF Init
<1>2. /\ NoWork.run = NoRun /\ NoWork.todo = {} /\ NoWork.found = {} /\ NoWork.outcomes = {}
      /\ NoWork.status = "FAILED" /\ NoWork.evidence.have = FALSE
  BY DEF NoWork, NoEvidence
<1>3. Owned /\ ReadsOnce /\ Remembered
  BY <1>1, <1>2 DEF Owned, ReadsOnce, Remembered, Running, Steps
<1>4. Routed /\ Acquired
  BY <1>1, <1>2 DEF Routed, Acquired
<1>5. ClosedOnce /\ TerminalTellsAll /\ EvidenceBeforeDecision /\ ReplayReproduces
  BY <1>1 DEF ClosedOnce, TerminalTellsAll, EvidenceBeforeDecision, ReplayReproduces
<1> QED
  BY InitType, <1>3, <1>4, <1>5 DEF IInv

\* A step of the specification is one of the four kinds.
LEMMA StepKinds ==
  ASSUME Next
  PROVE  \E i \in Invocations :
           \/ LocalStep(i)
           \/ \E r \in Runs : Register(i, r)
           \/ \E at \in Times : Evaluate(i, at)
           \/ Close(i)
  BY DEF Next, Step, LocalStep

LEMMA NextIInv == IInv /\ [Next]_vars => IInv'
<1>1. ASSUME IInv, Next PROVE IInv'
  BY <1>1, StepKinds, LocalPreserves, RegisterPreserves, EvaluatePreserves, ClosePreserves
<1>2. ASSUME IInv, UNCHANGED vars PROVE IInv'
  <2>1. /\ pc' = pc /\ work' = work /\ starts' = starts /\ attempts' = attempts
        /\ terminals' = terminals
    BY <1>2 DEF vars
  <2>2. Works' = Works /\ Closed' = Closed
    BY <2>1 DEF Works, Persisted, Closed
  <2>3. TypeOK'
    BY <1>2, <2>1, <2>2 DEF IInv, TypeOK
  <2>4. ReadsOnce' /\ Owned' /\ Routed' /\ Acquired'
    BY <1>2, <2>1, <2>2 DEF IInv, ReadsOnce, Owned, Routed, Acquired
  <2>5. Remembered' /\ TerminalTellsAll'
    BY <1>2, <2>1 DEF IInv, Remembered, TerminalTellsAll, AttemptsOf
  <2>6. ClosedOnce' /\ EvidenceBeforeDecision' /\ ReplayReproduces'
    BY <1>2, <2>1 DEF IInv, ClosedOnce, EvidenceBeforeDecision, ReplayReproduces
  <2> QED
    BY <2>3, <2>4, <2>5, <2>6 DEF IInv
<1> QED
  BY <1>1, <1>2

\* The journal and the memory of every process agree in every reachable
\* state, whatever dies, fails or is refused.
THEOREM Inductive == Spec => []IInv
  BY InitIInv, NextIInv, PTL DEF Spec

\* Journal and locals keep their types.
THEOREM TypeCorrect == Spec => []TypeOK
<1>1. IInv => TypeOK
  BY DEF IInv
<1> QED
  BY <1>1, Inductive, PTL

\* A requested evaluation is read and decided by one process only.
THEOREM OneReader == Spec => []ReadsOnce
<1>1. IInv => ReadsOnce
  BY DEF IInv
<1> QED
  BY <1>1, Inductive, PTL

\* A terminal record lists exactly the attempts of its run.
THEOREM TerminalsComplete == Spec => []TerminalTellsAll
<1>1. IInv => TerminalTellsAll
  BY DEF IInv
<1> QED
  BY <1>1, Inductive, PTL

\* No decision postdates what it could not have seen.
THEOREM DecisionsProspective == Spec => []EvidenceBeforeDecision
<1>1. IInv => EvidenceBeforeDecision
  BY DEF IInv
<1> QED
  BY <1>1, Inductive, PTL

\* A row replays to the decision it holds, for any ensemble and contract.
THEOREM RowsReplay == Spec => []ReplayReproduces
<1>1. IInv => ReplayReproduces
  BY DEF IInv
<1> QED
  BY <1>1, Inductive, PTL

-----------------------------------------------------------------------------
(* The refinement *)

\* A closed run has the status its one terminal record has.
LEMMA StatusOfClosed ==
  ASSUME IInv, NEW t \in terminals
  PROVE  RunStatus(t.run) = t.status
<1>1. t.run \in starts /\ t.run \in Closed
  BY DEF IInv, TypeOK, Closed
<1>2. (CHOOSE u \in terminals : u.run = t.run) = t
  BY DEF IInv, ClosedOnce
<1> QED
  BY <1>1, <1>2 DEF RunStatus

LEMMA StatusOfOpen ==
  ASSUME NEW r, r \notin Closed
  PROVE  RunStatus(r) = IF r \in starts THEN "STARTED" ELSE "none"
  BY DEF RunStatus

\* The mapped variables.
Status == [r \in Runs |-> RunStatus(r)]
Entries == [r \in Runs |-> {a.id : a \in AttemptsOf(r)}]
ListedBy == [r \in Runs |-> UNION {t.ids : t \in {u \in terminals : u.run = r}}]

LEMMA InitRefines == Init => Journal!Init
<1> SUFFICES ASSUME Init PROVE Journal!Init
  OBVIOUS
<1>1. starts = {} /\ attempts = {} /\ terminals = {}
  BY DEF Init
<1>2. \A r \in Runs : RunStatus(r) = "none"
  BY <1>1 DEF RunStatus
<1>3. \A r \in Runs : {a.id : a \in AttemptsOf(r)} = {}
  BY <1>1 DEF AttemptsOf
<1>4. \A r \in Runs : UNION {t.ids : t \in {u \in terminals : u.run = r}} = {}
  BY <1>1
<1> QED
  BY <1>2, <1>3, <1>4 DEF Journal!Init

\* A step that leaves the tables alone leaves the abstract journal alone.
LEMMA SameJournal ==
  ASSUME UNCHANGED journal
  PROVE  UNCHANGED Journal!vars
<1>1. starts' = starts /\ attempts' = attempts /\ terminals' = terminals
  BY DEF journal
<1>2. \A r \in Runs : RunStatus(r)' = RunStatus(r)
  BY <1>1 DEF RunStatus, Closed
<1>3. \A r \in Runs : {a.id : a \in AttemptsOf(r)}' = {a.id : a \in AttemptsOf(r)}
  BY <1>1 DEF AttemptsOf
<1> QED
  BY <1>1, <1>2, <1>3 DEF Journal!vars

LEMMA RegisterRefines ==
  ASSUME IInv, NEW i \in Invocations, NEW r \in Runs, Register(i, r)
  PROVE  Journal!Start(r)
<1>1. attempts' = attempts /\ terminals' = terminals /\ starts' = starts \union {r}
      /\ r \notin starts
  BY DEF Register
<1>2. r \notin Closed /\ Closed' = Closed
  BY <1>1 DEF IInv, TypeOK, Closed
<1>3. RunStatus(r) = "none" /\ RunStatus(r)' = "STARTED"
  BY <1>1, <1>2 DEF RunStatus
<1>4. \A q \in Runs \ {r} : RunStatus(q)' = RunStatus(q)
  BY <1>1, <1>2 DEF RunStatus
<1>5. Status' = [Status EXCEPT ![r] = "STARTED"]
  BY <1>3, <1>4 DEF Status
<1>6. Entries' = Entries /\ ListedBy' = ListedBy
  BY <1>1 DEF Entries, ListedBy, AttemptsOf
<1>7. Status[r] = "none"
  BY <1>3 DEF Status
<1> QED
  BY <1>5, <1>6, <1>7 DEF Journal!Start, Status, Entries, ListedBy

LEMMA EvaluateRefines ==
  ASSUME IInv, NEW i \in Invocations, NEW at \in Times, Evaluate(i, at),
         NEW r, r = work[i].run
  PROVE  r \in Runs /\ Journal!Persist(r)
<1> DEFINE a == Attempt(i, at)
<1>1. r \in starts /\ r \in Runs /\ r \notin Closed
  BY RunsAssumption DEF IInv, TypeOK, Owned, Evaluate, Running, Steps
<1>2. /\ attempts' = attempts \union {a} /\ starts' = starts /\ terminals' = terminals
      /\ a.id \notin Persisted /\ a.run = r
  BY AttemptFields DEF Evaluate
<1> HIDE DEF a
<1>3. \A q \in Runs : RunStatus(q)' = RunStatus(q)
  BY <1>2 DEF RunStatus, Closed
<1>4. Status' = Status /\ ListedBy' = ListedBy /\ Status[r] = "STARTED"
  BY <1>1, <1>2, <1>3, StatusOfOpen DEF Status, ListedBy
<1>5. \A q \in Runs \ {r} : {x \in attempts' : x.run = q} = {x \in attempts : x.run = q}
  BY <1>2
<1>6. {x \in attempts' : x.run = r} = {x \in attempts : x.run = r} \union {a}
  BY <1>2
<1>7. {x.id : x \in {y \in attempts : y.run = r} \union {a}}
        = {x.id : x \in {y \in attempts : y.run = r}} \union {a.id}
  BY Zenon
<1>8. Entries' = [Entries EXCEPT ![r] = Entries[r] \union {a.id}]
  <2>1. /\ Entries = [q \in Runs |-> {x.id : x \in {y \in attempts : y.run = q}}]
        /\ Entries' = [q \in Runs |-> {x.id : x \in {y \in attempts' : y.run = q}}]
    BY DEF Entries, AttemptsOf
  <2>2. Entries'[r] = Entries[r] \union {a.id}
    BY <1>1, <1>6, <1>7, <2>1
  <2>3. \A q \in Runs \ {r} : Entries'[q] = Entries[q]
    BY <1>5, <2>1
  <2>4. DOMAIN Entries = Runs /\ Entries' = [q \in Runs |-> Entries'[q]]
        /\ Entries = [q \in Runs |-> Entries[q]]
    BY <2>1
  <2> QED
    BY <1>1, <2>2, <2>3, <2>4
<1>9. Entries'[r] = Entries[r] \union {a.id} /\ a.id \notin Entries[r]
  BY <1>1, <1>2, <1>8 DEF Entries, AttemptsOf, Persisted
<1>10. a.id \in Entries'[r] \ Entries[r]
  BY <1>9
<1> QED
  BY <1>1, <1>4, <1>8, <1>10 DEF Journal!Persist, Status, Entries, ListedBy

LEMMA CloseRefines ==
  ASSUME IInv, IInv', NEW i \in Invocations, Close(i), NEW r, r = work[i].run
  PROVE  r \in Runs /\ Journal!Close(r)
<1> DEFINE new == Terminal(work[i])
<1>1. /\ r \in starts /\ r \in Runs /\ r \notin Closed /\ r # NoRun
      /\ work[i].status \in {"COMPLETED", "FAILED"}
  BY RunsAssumption DEF IInv, TypeOK, Works, Owned, Close, Running, Steps
<1>2. new.run = r /\ new.status = work[i].status /\ new.ids = work[i].ids
  BY DEF Terminal
<1> HIDE DEF new
<1>3. /\ terminals' = terminals \union {new} /\ attempts' = attempts /\ starts' = starts
  BY DEF Close, new
<1>4. RunStatus(r)' = new.status
  <2>1. \A u \in terminals' : u.run = r => u = new
    BY <1>1, <1>2, <1>3 DEF Closed
  <2>2. (CHOOSE u \in terminals' : u.run = r) = new
    BY <1>2, <1>3, <2>1
  <2>3. r \in Closed' /\ r \in starts'
    BY <1>1, <1>2, <1>3 DEF Closed
  <2> QED
    BY <1>3, <2>2, <2>3 DEF RunStatus
<1>5. \A q \in Runs \ {r} : RunStatus(q)' = RunStatus(q)
  <2>1. ASSUME NEW q \in Runs \ {r}
        PROVE  RunStatus(q)' = RunStatus(q)
    <3>1. {u \in terminals' : u.run = q} = {u \in terminals : u.run = q}
      BY <1>2, <1>3
    <3>2. q \in Closed' <=> q \in Closed
      BY <1>2, <1>3 DEF Closed
    <3>3. CASE q \notin Closed
      BY <1>3, <3>2, <3>3, StatusOfOpen DEF RunStatus
    <3>4. CASE q \in Closed
      <4>1. PICK u \in terminals : u.run = q
        BY <3>4 DEF Closed
      <4>2. (CHOOSE t \in terminals : t.run = q) = u
        BY <4>1 DEF IInv, ClosedOnce
      <4>3. (CHOOSE t \in terminals' : t.run = q) = u
        BY <1>3, <4>1 DEF IInv, ClosedOnce
      <4> QED
        <5>1. q \in starts /\ q \in starts'
          BY <1>3, <4>1 DEF IInv, TypeOK
        <5>2. RunStatus(q) = u.status
          BY <3>4, <4>2, <5>1 DEF RunStatus
        <5>3. RunStatus(q)' = u.status
          BY <3>2, <3>4, <4>3, <5>1 DEF RunStatus
        <5> QED
          BY <5>2, <5>3
    <3> QED
      BY <3>3, <3>4
  <2> QED
    BY <2>1
<1>6. Status' = [Status EXCEPT ![r] = new.status]
  BY <1>1, <1>4, <1>5 DEF Status
<1>7. Entries' = Entries /\ Entries[r] = new.ids
  <2>1. {x.id : x \in AttemptsOf(r)} = new.ids
    BY <1>1, <1>2 DEF IInv, Remembered
  <2>2. Entries' = Entries
    BY <1>3 DEF Entries, AttemptsOf
  <2> QED
    BY <1>1, <2>1, <2>2 DEF Entries
<1>8. ListedBy' = [ListedBy EXCEPT ![r] = new.ids]
  <2>1. {u \in terminals' : u.run = r} = {new}
    BY <1>1, <1>2, <1>3 DEF Closed
  <2>2. UNION {t.ids : t \in {new}} = new.ids
    OBVIOUS
  <2>3. \A q \in Runs \ {r} : {u \in terminals' : u.run = q} = {u \in terminals : u.run = q}
    BY <1>2, <1>3
  <2>4. /\ ListedBy = [q \in Runs |-> UNION {t.ids : t \in {u \in terminals : u.run = q}}]
        /\ ListedBy' = [q \in Runs |-> UNION {t.ids : t \in {u \in terminals' : u.run = q}}]
    BY DEF ListedBy
  <2>5. ListedBy'[r] = new.ids
    BY <1>1, <2>1, <2>2, <2>4
  <2>6. \A q \in Runs \ {r} : ListedBy'[q] = ListedBy[q]
    BY <2>3, <2>4
  <2>7. DOMAIN ListedBy = Runs /\ ListedBy' = [q \in Runs |-> ListedBy'[q]]
        /\ ListedBy = [q \in Runs |-> ListedBy[q]]
    BY <2>4
  <2> QED
    BY <1>1, <2>5, <2>6, <2>7
<1>9. Status[r] = "STARTED"
  BY <1>1, StatusOfOpen DEF Status
<1>10. new.status \in {"COMPLETED", "FAILED"}
  BY <1>1, <1>2
<1> QED
  BY <1>1, <1>6, <1>7, <1>8, <1>9, <1>10 DEF Journal!Close, Status, Entries, ListedBy

LEMMA StepRefines ==
  ASSUME IInv, IInv', [Next]_vars
  PROVE  [Journal!Next]_Journal!vars
<1>1. CASE UNCHANGED vars
  BY <1>1, SameJournal DEF vars, journal
<1>2. CASE Next
  <2>1. PICK i \in Invocations :
          \/ LocalStep(i)
          \/ \E r \in Runs : Register(i, r)
          \/ \E at \in Times : Evaluate(i, at)
          \/ Close(i)
    BY <1>2, StepKinds
  <2>2. CASE LocalStep(i)
    <3>1. UNCHANGED journal
      BY <2>2, LocalKept DEF IInv, Local
    <3> QED
      BY <3>1, SameJournal
  <2>3. CASE \E r \in Runs : Register(i, r)
    BY <2>3, RegisterRefines DEF Journal!Next
  <2>4. CASE \E at \in Times : Evaluate(i, at)
    BY <2>4, EvaluateRefines DEF Journal!Next
  <2>5. CASE Close(i)
    BY <2>5, CloseRefines DEF Journal!Next
  <2> QED
    BY <2>1, <2>2, <2>3, <2>4, <2>5
<1> QED
  BY <1>1, <1>2

\* Processes that read, decide, fail and die side by side write a journal in
\* which a run starts once, collects rows only while it is open, and is
\* closed at most once by a record of exactly those rows.
THEOREM Refinement == Spec => ImplementsJournal
<1>1. IInv /\ IInv' /\ [Next]_vars => [Journal!Next]_Journal!vars
  BY StepRefines
<1> QED
  BY <1>1, InitRefines, Inductive, PTL DEF Spec, ImplementsJournal, Journal!Spec
=============================================================================
