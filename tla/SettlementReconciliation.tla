---------------------- MODULE SettlementReconciliation ----------------------
(***************************************************************************)
(* WN-A2 (forecasting/wn_a2_settlement_reconciliation.py): the settlement  *)
(* of a persisted attempt, reconciled against the market Kalshi publishes. *)
(* It is composed with the evaluation runs whose attempts it reads; its    *)
(* own journal is a second SQLite file.                                    *)
(*                                                                         *)
(* A reconciler registers the attempt, reads its clock, reads the market   *)
(* and appends one outcome, with the evidence, in one transaction.  Every  *)
(* check of the payload that is not about the finalized value, its time or *)
(* its result is abstracted to the first flaw it would find: in the fields *)
(* before these are compared, or in the source of the rules after that.    *)
(***************************************************************************)
EXTENDS EvaluationRun

CONSTANTS
  Reconcilers,   \* processes
  NoAttempt,     \* before a reconciler has one
  Values         \* temperatures a market may be finalized with

ASSUME ValuesAssumption == Values \subseteq Int

VARIABLES
  market,       \* what Kalshi publishes of each market
  published,    \* history: every finalization it ever published
  rpc,          \* where each reconciler is
  task,         \* the local variables of each reconciler
  registered,   \* attempts in the table starts
  outcomes      \* the tables outcomes and evidence

reconciliation == <<rpc, task, registered, outcomes>>
exchange == <<market, published>>
allVars == <<vars, market, published, rpc, task, registered, outcomes>>

Open == [final |-> FALSE, value |-> 0, result |-> "none", ts |-> 0, flaw |-> "none"]
Final == [final : {TRUE}, value : Values, result : {"yes", "no"}, ts : Times,
          flaw : {"none", "fields", "source"}]

NoTask == [attempt |-> NoAttempt, observed |-> None, result |-> Open, state |-> "none"]

LaneInit ==
  /\ Init
  /\ market = [t \in Tickers |-> Open]
  /\ published = {}
  /\ rpc = [c \in Reconcilers |-> "idle"]
  /\ task = [c \in Reconcilers |-> NoTask]
  /\ registered = {}
  /\ outcomes = {}

-----------------------------------------------------------------------------
(* Kalshi *)

\* The market is finalized, or a finalization is corrected.
Finalize(t, f) ==
  /\ f # market[t]
  /\ market[t].final => f.ts > market[t].ts
  /\ market' = [market EXCEPT ![t] = f]
  /\ published' = published \union {<<t, f>>}
  /\ UNCHANGED <<vars, reconciliation>>

-----------------------------------------------------------------------------
(* Reconciliation *)

BugReconcile(c, a, at) ==
  /\ rpc[c] = "idle"
  /\ a.run \in starts
  /\ registered' = registered \union {a.id}
  /\ rpc' = [rpc EXCEPT ![c] = "read"]
  /\ task' = [task EXCEPT ![c] = [NoTask EXCEPT !.attempt = a, !.observed = at]]
  /\ UNCHANGED <<vars, exchange, outcomes>>

\* The attempt is loaded and registered, then the clock is read, before the
\* market is.
Reconcile(c, a, at) ==
  /\ rpc[c] = "idle"
  /\ a.run \in starts
  /\ a.id \notin registered
  /\ registered' = registered \union {a.id}
  /\ rpc' = [rpc EXCEPT ![c] = "read"]
  /\ task' = [task EXCEPT ![c] = [NoTask EXCEPT !.attempt = a, !.observed = at]]
  /\ UNCHANGED <<vars, exchange, outcomes>>

\* A second registration is refused, whatever became of the first, and so is
\* any when the database is locked.
ReconcileRefused(c, a) ==
  /\ rpc[c] = "idle"
  /\ rpc' = [rpc EXCEPT ![c] = "refused"]
  /\ UNCHANGED <<vars, exchange, task, registered, outcomes>>

BugContains(v, c) ==
  \/ c.comparator = "RANGE" /\ c.lower <= v /\ v < c.upper
  \/ c.comparator = "GT" /\ v > c.lower
  \/ c.comparator = "LT" /\ v < c.lower

\* contains_finalized_temperature, the settlement's own comparison; what it
\* refuses of a contract the router never supported.
ContainsFinalizedTemperature(v, c) ==
  \/ c.comparator = "RANGE" /\ c.lower <= v /\ v <= c.upper
  \/ c.comparator = "GT" /\ v > c.lower
  \/ c.comparator = "LT" /\ v < c.lower

BugCheckMarket(a, f, observed) ==
  IF ~f.final THEN "NOT_FINAL"
  ELSE IF f.flaw = "fields" \/ f.ts > observed THEN "EVIDENCE_INVALID"
  ELSE IF (f.result = "yes") # ContainsFinalizedTemperature(f.value, a.contract)
    THEN "CONFLICT"
  ELSE IF f.flaw = "source" THEN "EVIDENCE_INVALID"
  ELSE "SETTLED_MATCHED"

\* _check_market, in the order of its checks.
CheckMarket(a, f, observed) ==
  IF ~f.final THEN "NOT_FINAL"
  ELSE IF f.flaw = "fields" \/ f.ts < a.at \/ f.ts > observed THEN "EVIDENCE_INVALID"
  ELSE IF (f.result = "yes") # ContainsFinalizedTemperature(f.value, a.contract)
    THEN "CONFLICT"
  ELSE IF f.flaw = "source" THEN "EVIDENCE_INVALID"
  ELSE "SETTLED_MATCHED"

\* The market is read and judged.
ReadMarket(c) ==
  LET a == task[c].attempt
      f == market[a.ticker]
      state == CheckMarket(a, f, task[c].observed)
  IN  /\ rpc[c] = "read"
      /\ rpc' = [rpc EXCEPT ![c] = "append"]
      /\ task' = [task EXCEPT ![c] =
           [task[c] EXCEPT !.state = state,
                           !.result = IF state = "SETTLED_MATCHED" THEN f ELSE Open]]
      /\ UNCHANGED <<vars, exchange, registered, outcomes>>

BugReadInvalid(c) ==
  /\ rpc[c] = "read"
  /\ rpc' = [rpc EXCEPT ![c] = "done"]
  /\ UNCHANGED <<vars, exchange, task, registered, outcomes>>

\* The body fails its hash or names another market.
ReadInvalid(c) ==
  /\ rpc[c] = "read"
  /\ rpc' = [rpc EXCEPT ![c] = "append"]
  /\ task' = [task EXCEPT ![c] = [task[c] EXCEPT !.state = "EVIDENCE_INVALID"]]
  /\ UNCHANGED <<vars, exchange, registered, outcomes>>

\* PublicReadFailure
ReadUnavailable(c) ==
  /\ rpc[c] = "read"
  /\ rpc' = [rpc EXCEPT ![c] = "append"]
  /\ task' = [task EXCEPT ![c] = [task[c] EXCEPT !.state = "SOURCE_UNAVAILABLE"]]
  /\ UNCHANGED <<vars, exchange, registered, outcomes>>

\* The outcome and its evidence, in one transaction.
Append(c) ==
  /\ rpc[c] = "append"
  /\ outcomes' = outcomes \union
       {[attempt |-> task[c].attempt, by |-> c, state |-> task[c].state,
         result |-> task[c].result, observed |-> task[c].observed]}
  /\ rpc' = [rpc EXCEPT ![c] = "done"]
  /\ UNCHANGED <<vars, exchange, task, registered>>

\* A cutoff or a market that does not parse: its ValueError is neither of the
\* two exceptions _reconcile catches, and leaves it without an outcome.
ReadRaises(c) ==
  /\ rpc[c] = "read"
  /\ rpc' = [rpc EXCEPT ![c] = "raised"]
  /\ UNCHANGED <<vars, exchange, task, registered, outcomes>>

\* The process dies, or the database refuses the outcome.
ReconcilerDies(c) ==
  /\ rpc[c] \in {"read", "append"}
  /\ rpc' = [rpc EXCEPT ![c] = "dead"]
  /\ UNCHANGED <<vars, exchange, task, registered, outcomes>>

ReconcilerStep(c) == ReadMarket(c) \/ ReadInvalid(c) \/ ReadUnavailable(c) \/ Append(c)

-----------------------------------------------------------------------------
(* The lane: evaluation, market and reconciliation *)

LaneNext ==
  \/ Next /\ UNCHANGED <<exchange, reconciliation>>
  \/ \E t \in Tickers, f \in Final : Finalize(t, f)
  \/ \E c \in Reconcilers :
       \/ \E a \in attempts :
            \/ \E at \in Times : Reconcile(c, a, at)
            \/ ReconcileRefused(c, a)
       \/ ReconcilerStep(c)
       \/ ReadRaises(c)
       \/ ReconcilerDies(c)

LaneSpec == LaneInit /\ [][LaneNext]_allVars

\* What began runs on: the reads and the waits for a write lock have
\* timeouts.  A process may die all the same.
FairLane ==
  /\ LaneSpec
  /\ \A i \in Invocations :
       WF_allVars(pc[i] # "idle" /\ Step(i) /\ UNCHANGED <<exchange, reconciliation>>)
  /\ \A c \in Reconcilers : WF_allVars(ReconcilerStep(c))

-----------------------------------------------------------------------------
(* Properties *)

OutcomeStates ==
  {"SETTLED_MATCHED", "NOT_FINAL", "CONFLICT", "SOURCE_UNAVAILABLE", "EVIDENCE_INVALID"}

LaneTypeOK ==
  /\ TypeOK
  /\ market \in [Tickers -> Final \union {Open}]
  /\ rpc \in [Reconcilers -> {"idle", "read", "append", "done", "refused", "raised", "dead"}]
  /\ task \in [Reconcilers ->
       [attempt : attempts \union {NoAttempt}, observed : Times \union {None},
        result : Final \union {Open}, state : OutcomeStates \union {"none"}]]
  /\ registered \subseteq Persisted
  /\ outcomes \subseteq
       [attempt : attempts, by : Reconcilers, state : OutcomeStates,
        result : Final \union {Open}, observed : Times]

\* A settled outcome scores a forecast that was made before the settlement:
\* its ensemble was acquired and its decision taken no later than the market
\* settled, and the outcome was observed no earlier.
ForecastPrecedesSettlement ==
  \A o \in outcomes : o.state = "SETTLED_MATCHED" =>
    /\ o.attempt.evidence.acquired <= o.attempt.at
    /\ o.attempt.at <= o.result.ts
    /\ o.result.ts <= o.observed

\* What it says of the market is what Kalshi once published of it as final,
\* and the result is what the forecast's own predicate, the one its members
\* were counted with, gives for the value.
SettledAsPublished ==
  \A o \in outcomes : o.state = "SETTLED_MATCHED" =>
    /\ <<o.attempt.ticker, o.result>> \in published
    /\ o.result.final /\ o.result.flaw = "none"
    /\ (o.result.result = "yes") <=> EvaluatePredicate(o.result.value, o.attempt.contract)

\* load_result finds at most one outcome of an attempt, of a registered one.
OneOutcome ==
  \A o, p \in outcomes :
    /\ o.attempt.id \in registered
    /\ o.attempt.id = p.attempt.id => o = p

\* A registered reconciliation leaves an outcome, whatever it read, unless its
\* process dies, its outcome is refused or a ValueError leaves _reconcile.
ReconciliationEnds ==
  \A c \in Reconcilers :
    rpc[c] = "read" ~> (rpc[c] \in {"raised", "dead"} \/ \E o \in outcomes : o.by = c)
=============================================================================
