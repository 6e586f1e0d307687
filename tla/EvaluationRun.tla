--------------------------- MODULE EvaluationRun ---------------------------
(***************************************************************************)
(* One WN-A1 evaluation (forecasting/wn_a1_runner.py, _run_evaluation) and *)
(* the append-only journal it writes (wn_a1_attempt_store.py).             *)
(*                                                                         *)
(* An invocation registers its run, discovers the markets of the event,    *)
(* reads the ensemble, and for every market takes a snapshot, decides and  *)
(* persists an attempt; a terminal record closes the run.  Invocations are *)
(* processes that share one SQLite file: each of its writes is a BEGIN     *)
(* IMMEDIATE transaction and one step here, or is refused.  A process may  *)
(* die before any step.  Every clock reading is any time up to MaxTime,    *)
(* so a clock that is set back between two readings is included.           *)
(***************************************************************************)
EXTENDS AlertDecision

CONSTANTS
  Invocations,  \* processes
  Runs,         \* run identities, the content hash of the requested inputs
  NoRun,        \* before an invocation has one
  InitTime,     \* weathernext_init_time of each run
  Listed,       \* bound: the markets discovery may return for a run
  Ensembles,    \* what a complete read of the ensemble may return
  Quotes,       \* the debits of the two sides an order book may give
  MaxTime       \* bound: clock readings

ASSUME RunsAssumption == NoRun \notin Runs
ASSUME TimesAssumption == MaxTime \in Nat /\ InitTime \in [Runs -> Nat]
ASSUME ListedAssumption == Listed \in [Runs -> SUBSET Tickers]
ASSUME EnsemblesAssumption == Ensembles \subseteq [Members -> SUBSET Int]
ASSUME QuotesAssumption ==
  Quotes \subseteq [yes : Nat \union {None}, no : Nat \union {None}]

VARIABLES
  pc,         \* where each invocation is
  work,       \* the local variables of each invocation
  starts,     \* the table wn_a1_run_starts
  attempts,   \* the table wn_a1_attempts
  terminals   \* the table wn_a1_run_terminals

vars == <<pc, work, starts, attempts, terminals>>
journal == <<starts, attempts, terminals>>

Times == 0 .. MaxTime

Steps == {"idle", "discover", "acquire", "routes", "decide", "close", "done", "dead"}
Running == Steps \ {"idle", "done", "dead"}

NoWork ==
  [run |-> NoRun, status |-> "FAILED", discovery |-> "OK", weather |-> "COMPLETE",
   found |-> {}, siblings |-> {}, todo |-> {}, evidence |-> NoEvidence,
   ticker |-> None, snapshot |-> NoSnapshot, outcomes |-> {}, ids |-> {}]

Init ==
  /\ pc = [i \in Invocations |-> "idle"]
  /\ work = [i \in Invocations |-> NoWork]
  /\ starts = {}
  /\ attempts = {}
  /\ terminals = {}

\* i moves on with new local variables and leaves the journal alone.
Local(i, step, w) ==
  /\ pc' = [pc EXCEPT ![i] = step]
  /\ work' = [work EXCEPT ![i] = w]
  /\ UNCHANGED journal

-----------------------------------------------------------------------------
(* Registration *)

BugRegister(i, r) ==
  /\ pc[i] = "idle"
  /\ starts' = starts \union {r}
  /\ pc' = [pc EXCEPT ![i] = "discover"]
  /\ work' = [work EXCEPT ![i] = [NoWork EXCEPT !.run = r]]
  /\ UNCHANGED <<attempts, terminals>>

\* register_run_start, before anything outside is read.
Register(i, r) ==
  /\ pc[i] = "idle"
  /\ r \notin starts
  /\ starts' = starts \union {r}
  /\ pc' = [pc EXCEPT ![i] = "discover"]
  /\ work' = [work EXCEPT ![i] = [NoWork EXCEPT !.run = r]]
  /\ UNCHANGED <<attempts, terminals>>

\* A duplicate, or the database refuses: outside the try, so no terminal.
RegisterRefused(i, r) ==
  /\ pc[i] = "idle"
  /\ Local(i, "done", work[i])

-----------------------------------------------------------------------------
(* What is read *)

\* discover_event: the supported markets and the others.
Discover(i, supported, others) ==
  /\ pc[i] = "discover"
  /\ supported \intersect others = {}
  /\ supported \union others \subseteq Listed[work[i].run]
  /\ Local(i, "acquire",
           [work[i] EXCEPT !.found = supported \union others, !.siblings = supported,
                           !.todo = supported \union others])

\* A malformed event is a WnA1Error: the run goes on without markets.
DiscoverRefused(i) ==
  /\ pc[i] = "discover"
  /\ Local(i, "acquire", [work[i] EXCEPT !.discovery = "DISCOVERY_FAILED"])

\* The reader returns rows and the clock is read after it.  A forecast from
\* after that moment is a WnA1Error.
Acquire(i, rows, at) ==
  /\ pc[i] = "acquire"
  /\ at >= InitTime[work[i].run]
  /\ Local(i, "routes",
           [work[i] EXCEPT !.evidence = [have |-> TRUE, rows |-> rows, acquired |-> at]])

\* No evidence: the read failed, or members are missing.
AcquireRefused(i, weather) ==
  /\ pc[i] = "acquire"
  /\ Local(i, "routes", [work[i] EXCEPT !.weather = weather])

\* A market that is not supported leaves an outcome and no attempt.
SkipRoute(i, t) ==
  /\ pc[i] = "routes"
  /\ t \in work[i].todo \ work[i].siblings
  /\ Local(i, "routes",
           [work[i] EXCEPT !.todo = work[i].todo \ {t},
                           !.outcomes = work[i].outcomes \union {<<t, "NOT_SUPPORTED">>}])

Snapshots == {NoSnapshot} \union [quote : Quotes, market : Times, book : Times]

BugSnapshot(i, t, s) ==
  /\ pc[i] = "routes"
  /\ t \in work[i].siblings
  /\ Local(i, "decide", [work[i] EXCEPT !.ticker = t, !.snapshot = s])

\* acquire_market_snapshot, or a WnA1Error and no snapshot.
Snapshot(i, t, s) ==
  /\ pc[i] = "routes"
  /\ t \in work[i].todo \intersect work[i].siblings
  /\ Local(i, "decide", [work[i] EXCEPT !.ticker = t, !.snapshot = s])

BugRaise(i) ==
  /\ pc[i] \in {"discover", "acquire", "routes"}
  /\ pc[i] = "routes" => work[i].todo \intersect work[i].siblings # {}
  /\ Local(i, "done", work[i])

\* Any other exception, a PublicReadFailure of the transport included,
\* leaves the try with the status it began with.
Raise(i) ==
  /\ pc[i] \in {"discover", "acquire", "routes"}
  /\ pc[i] = "routes" => work[i].todo \intersect work[i].siblings # {}
  /\ Local(i, "close", work[i])

-----------------------------------------------------------------------------
(* A decision and its attempt *)

BugChronology(evidence, snapshot, at) == snapshot.market <= at /\ snapshot.book <= at

\* No evidence is younger than the decision; None is older than any time.
Chronology(evidence, snapshot, at) ==
  /\ evidence.acquired <= at
  /\ snapshot.market <= at
  /\ snapshot.book <= at

Attempt(i, at) ==
  BuildAttempt(work[i].run, work[i].ticker, work[i].evidence, work[i].snapshot,
               work[i].siblings, at)

Persisted == {a.id : a \in attempts}

BugRecorded(w, a) ==
  [w EXCEPT !.todo = w.todo \ {w.ticker},
            !.outcomes = w.outcomes \union {<<w.ticker, "EVALUATED">>},
            !.ids = IF a.decision.state = "DATA_NOT_READY" THEN w.ids
                                                            ELSE w.ids \union {a.id}]

\* The locals after store.append.
Recorded(w, a) ==
  [w EXCEPT !.todo = w.todo \ {w.ticker},
            !.outcomes = w.outcomes \union {<<w.ticker, "EVALUATED">>},
            !.ids = w.ids \union {a.id}]

\* The clock is read after the snapshot; the attempt is decided and appended.
Evaluate(i, at) ==
  /\ pc[i] = "decide"
  /\ Chronology(work[i].evidence, work[i].snapshot, at)
  /\ Attempt(i, at).id \notin Persisted
  /\ attempts' = attempts \union {Attempt(i, at)}
  /\ work' = [work EXCEPT ![i] = Recorded(work[i], Attempt(i, at))]
  /\ pc' = [pc EXCEPT ![i] = "routes"]
  /\ UNCHANGED <<starts, terminals>>

\* The chronology is violated, the attempt is a duplicate, or the database
\* refuses it: the run fails.
EvaluateRefused(i) ==
  /\ pc[i] = "decide"
  /\ Local(i, "close", work[i])

\* Every route is done.
Complete(i) ==
  /\ pc[i] = "routes"
  /\ work[i].todo = {}
  /\ Local(i, "close", [work[i] EXCEPT !.status = "COMPLETED"])

-----------------------------------------------------------------------------
(* The terminal record *)

Closed == {t.run : t \in terminals}

Terminal(w) ==
  [run |-> w.run, status |-> w.status, discovery |-> w.discovery,
   weather |-> w.weather, acquired |-> w.evidence.acquired,
   outcomes |-> w.outcomes, ids |-> w.ids]

\* append_run_terminal, in the finally clause.
Close(i) ==
  /\ pc[i] = "close"
  /\ work[i].run \notin Closed
  /\ terminals' = terminals \union {Terminal(work[i])}
  /\ pc' = [pc EXCEPT ![i] = "done"]
  /\ UNCHANGED <<work, starts, attempts>>

\* The database refuses the record: the invocation ends without one.
CloseRefused(i) ==
  /\ pc[i] = "close"
  /\ Local(i, "dead", work[i])

\* The process dies.
Die(i) ==
  /\ pc[i] \in Running
  /\ Local(i, "dead", work[i])

BugRunStatus(r) ==
  IF r \notin starts THEN "none"
  ELSE IF \E a \in attempts : a.run = r THEN "COMPLETED"
  ELSE "STARTED"

\* attempts_for_run
AttemptsOf(r) == {a \in attempts : a.run = r}

\* run_status
RunStatus(r) ==
  IF r \notin starts THEN "none"
  ELSE IF r \notin Closed THEN "STARTED"
  ELSE (CHOOSE t \in terminals : t.run = r).status

-----------------------------------------------------------------------------
(* The specification *)

Step(i) ==
  \/ \E r \in Runs : Register(i, r) \/ RegisterRefused(i, r)
  \/ \E supported, others \in SUBSET Tickers : Discover(i, supported, others)
  \/ DiscoverRefused(i)
  \/ \E rows \in Ensembles \union {NoRows}, at \in Times : Acquire(i, rows, at)
  \/ \E weather \in {"ACQUISITION_FAILED", "INCOMPLETE"} : AcquireRefused(i, weather)
  \/ \E t \in Tickers : SkipRoute(i, t) \/ \E s \in Snapshots : Snapshot(i, t, s)
  \/ Raise(i)
  \/ \E at \in Times : Evaluate(i, at)
  \/ EvaluateRefused(i)
  \/ Complete(i)
  \/ Close(i)
  \/ CloseRefused(i)

Next == \E i \in Invocations : Step(i) \/ Die(i)

Spec == Init /\ [][Next]_vars

-----------------------------------------------------------------------------
(* Properties *)

Works ==
  [run : Runs \union {NoRun}, status : {"COMPLETED", "FAILED"},
   discovery : {"OK", "DISCOVERY_FAILED"},
   weather : {"COMPLETE", "ACQUISITION_FAILED", "INCOMPLETE"},
   found : SUBSET Tickers, siblings : SUBSET Tickers, todo : SUBSET Tickers,
   evidence : [have : BOOLEAN, rows : [Members -> SUBSET Int],
               acquired : Times \union {None}],
   ticker : Tickers \union {None}, snapshot : Snapshots,
   outcomes : SUBSET (Tickers \X {"NOT_SUPPORTED", "EVALUATED"}),
   ids : SUBSET Persisted]

TypeOK ==
  /\ pc \in [Invocations -> Steps]
  /\ work \in [Invocations -> Works]
  /\ \A i \in Invocations : pc[i] = "decide" => work[i].ticker \in work[i].todo
  /\ starts \subseteq Runs
  /\ \A a \in attempts : a.run \in starts /\ a.ticker \in Tickers /\ a.at \in Times
  /\ \A t \in terminals : t.run \in starts /\ t.status \in {"COMPLETED", "FAILED"}

\* The same requested evaluation is read and decided by one invocation only,
\* for ever: a retry, also of a run whose process died, is refused before it
\* reads anything.
ReadsOnce ==
  \A i, j \in Invocations :
    work[i].run = work[j].run /\ work[i].run # NoRun => i = j

\* The terminal record tells all: it lists exactly the attempts the journal
\* holds of its run, one for every market it says was evaluated, and a
\* COMPLETED one leaves out no market that discovery returned.
TerminalTellsAll ==
  \A t \in terminals :
    /\ t.ids = {a.id : a \in AttemptsOf(t.run)}
    /\ {o[1] : o \in {p \in t.outcomes : p[2] = "EVALUATED"}}
         = {a.ticker : a \in AttemptsOf(t.run)}
    /\ t.status = "COMPLETED" =>
         \A i \in Invocations :
           work[i].run = t.run => {o[1] : o \in t.outcomes} = work[i].found

\* No persisted decision claims to postdate evidence it could not have seen,
\* whatever the clock does between its readings.
EvidenceBeforeDecision ==
  \A a \in attempts :
    /\ a.observed <= a.at
    /\ a.evidence.have => /\ InitTime[a.run] <= a.evidence.acquired
                          /\ a.evidence.acquired <= a.at

\* A fresh process that has only the row reaches the decision in it, or
\* refuses when the ensemble was read without a single row.
ReplayReproduces ==
  \A a \in attempts : Replayable(a) => ReplayDecision(a) = a.decision

\* A run whose process neither dies nor is refused its last write is closed.
RunIsClosed ==
  \A i \in Invocations :
    pc[i] = "discover" ~> (pc[i] = "dead" \/ work[i].run \in Closed)

Journal == INSTANCE RunJournal WITH
  status <- [r \in Runs |-> RunStatus(r)],
  entries <- [r \in Runs |-> {a.id : a \in AttemptsOf(r)}],
  listed <- [r \in Runs |-> UNION {t.ids : t \in {u \in terminals : u.run = r}}]

\* The journal of all invocations together is a RunJournal.
ImplementsJournal == Journal!Spec
=============================================================================
