# A TLA+ verification of Kalshi Production v3

The repository is a safety-first prediction-market platform in Python. Most of
it observes, forecasts and ranks; a small part may move money, and that part is
built so that every restart is disarmed, every check fails closed, every token
is single-use and an order whose fate is unknown is never sent again. This
directory models that small part, and the two parts whose records the rest is
judged by: the order books kept as evidence and the forecasts scored against
their settlement. It models what is kept in their SQLite files, the steps that
change them, and what happens when processes race, wait for a lock, die between
two writes or lose an answer.

Files: `X.tla` is a component, `MCX.tla` an instance of it for TLC with its
`.cfg` files, `X_proofs.tla` the theorems about it. To check a run,
`tlc -config X.cfg MCX`; to check the proofs of a module, `tlapm X_proofs.tla`.
`PROJECT.json` lists runs, properties, mutated definitions that each property
must notice, the source lines of every definition, hazards and theorems.
Operators called `Bug...` are those mutated definitions: no specification uses
them.

## 1. Inventory

### Parts that hold or move risk

| Component | State | Operations | What is hard | What makes it correct |
|---|---|---|---|---|
| Risk authorization store, `risk_engine/authorization.py` | one SQLite file: `risk_authorizations`, `risk_reservations`, global halt, compliance, kills, loss holds | `issue`, `consume`, `safety_summary`, `activate_global_halt`, `reset_global_halt`, `set_compliance`, `set_kill_state`, `record_loss_state` | threads and processes share it; the clock is read before the wait for the write lock; the base risk comes from the caller's snapshot | reservations follow ISSUED rows, never exceed a cap together, none survive a halt, one grant per order |
| Risk evaluation, `risk_engine/engine.py` and its helpers | none (pure) | `evaluate_risk` | stale inputs; boundary comparisons; a risk-reducing intent passes where another is stopped | the decision that precedes an issue saw no control that stops its order |
| Canary release, `supervised_canary/m27o*.py`, `production_execution/m27o_*.py` | shared SQLite (approval, risk, session, budget) and a separate journal SQLite; a file lock | bind, commit, send, reconcile, recover | no transaction spans the two files and the request; crashes anywhere; operators repeat calls | at most one create request; what was possibly sent stays known until its true outcome is on record, once |
| Demo execution, `demo_execution/engine.py`, `store.py` | `execution_journals`, `mutation_attempts`, `local_orders` | `submit`, `mutate`, `recover` | one transaction per write; callers pass copies; answers are lost; fills race acknowledgements | no request twice; what was sent is recoverable; no outcome the exchange does not have |
| Private stream, `demo_execution/store.py` | `ws_state`, `order_state_events` | `ingest_ws_event`, `disconnect` | loss, repetition, reordering, renumbering on reconnect | what is passed over is noticed, as far as there is a number to compare with |
| Order-book evidence, `perps_shadow_research/runtime.py`, `pipeline.py`, `store.py` on `real_time_market_data/manager.py`, `orderbook.py` | connection, epoch, sequence number per subscription, pending recovery, books, the table `book_evidence` | `connect`, `process`, `check_freshness`, `disconnect`, `stop`; below them `sequence`, `install_snapshot`, `apply_delta` | frames are lost, repeated and reordered; one number serves several books; snapshots move it back; frames of an older connection | a CURRENT book and every evidence row are the exchange's book at their number |
| Evaluation runs, `forecasting/wn_a1_*.py` | one SQLite file: run starts, attempts, run terminals | `register_run_start`, discovery, ensemble read, snapshot, `evaluate_candidate`, `append`, `append_run_terminal`, `replay_decision` | several processes; reads that fail in different ways; a clock read four times; death between any two steps | a run is evaluated once; its terminal tells all of it; no decision claims evidence from its future; every row replays |
| Settlement reconciliation, `forecasting/wn_a2_*.py` | a second SQLite file: starts, outcomes, evidence | `register`, `_reconcile`, `append`, `load_result` | races for an attempt; Kalshi finalizes and corrects while it is read | one outcome per attempt, as published, of a forecast made before it |
| Canary store's older path, `supervised_canary/store.py` | as above | `consume_approval`, `open_session`, `record_submission_attempt`, `record_fill`, `resolve` | as above | as above; only tests call it |

### Parts around them

Account gateway (authenticated reads), request boundary and credentials
(canonical bytes, TLS, signing), evidence and preflight validation, bounded
autonomy (permanently OFF), operations (Postgres twins of the stores, backup,
queues, monitoring), execution simulation, market universe, the forecasting
models and their other journals, the trial ledger and other append-only records,
shadow research, the production strategies, opportunity engine, learning, breaking
signals, historical replay, document and contract intelligence, the dashboard.
`PROJECT.json` lists each with the reason it is not modelled: pure functions,
conversion, I/O, user interface, or offline research that never reaches an
exchange.

### How they interact

```
 evaluate_risk --decision--> AuthorizationStore.issue --ISSUED--+
     ^                          ^  halt, holds, kills, compliance|
     | account snapshot         |                               v
 account gateway            dashboard             consume (demo) / commit (canary)
     ^                                                          |
     |            reads only                                    v
     +---- reconciliation <---- journal <---- send one request ---> exchange
                                                                  |
                                     private stream <--- events --+

 ensemble, markets --> WN-A1 evaluation --attempts--> WN-A2 reconciliation <-- finalized market
 exchange feed --> subscription manager --books--> evidence rows
```

The demo engine calls `consume` of the authorization store, in another database
than its journal. The canary commit consumes the same tables inside its own
transaction. The exchange and the network are outside `src/`: their actions are
marked external in `PROJECT.json` and are as unhelpful as the code expects
(an answer may be lost at any moment, a request may arrive late or never, a
finalization may be corrected). The evaluations and the reconciliation share no
database: the second reads the rows of the first.

## 2. Plan

| # | Module | Composes or refines | State |
|---|---|---|---|
| 1 | `RiskAuthorization` | account snapshots as environment | modelled, checked, proved |
| 2 | `OneShotOrder`, `CanaryRelease` | the second implements the first; consumes the tokens of 1 | modelled, checked, proved with the refinement |
| 3 | `IntentOrders`, `DemoExecution` | the second implements the first; uses `consume` of 1 | modelled, checked, proved with the refinement |
| 4 | `PrivateStream` | - | modelled, checked, proved |
| 5 | `BookEvidence` | runtime, subscription manager, books and rows together, against the exchange's own book | modelled, checked, proved |
| 6 | `AlertDecision`, `RunJournal`, `EvaluationRun` | the last uses the first for its decisions and implements the second | modelled, checked, proved with the refinement |
| 7 | `SettlementReconciliation` | composed with 6, whose attempts it settles | modelled, checked, safety proved |
| 8 | `RiskEvaluation` | the evaluator's precedence and its cap comparisons as operators, against those of `issue` and `authorize_new_risk` | planned |
| 9 | `SharedRisk` | `RiskAuthorization` with two consumers, so that the tokens 2 and 3 take from their environment come from 1 | planned |
| 10 | older canary path, trial ledger, bounded queue | - | as far as they keep state worth it |

Abstract specifications: `OneShotOrder`, `IntentOrders` and `RunJournal`.

## 3. The modules

### RiskAuthorization

Every store operation is one `BEGIN IMMEDIATE` transaction, hence one action.
`issue`, `consume` and `safety_summary` read the clock (and get their arguments)
before they ask for the lock, so each is two actions: a call that captures the
values (`IssueCall`, `ConsumeCall`, `SummaryCall`) and the transaction that uses
them up to `BusyTimeout` later (`Issue` or `IssueRefused`, `Consume` or
`ConsumeRefused`, `Summary`). A refused issue rolls back, the expiry it ran
included; a refused consume commits it. `Abandon` is a lock that never came or a
dead caller. `_expire` is `Overdue` and `WithState`. `open` and `seen`
are the account: live orders, and the last snapshot of them.

The evaluator never reads the store: its caller builds a `SafetyState` from the
durable rows (`ReadSafety`) and evaluates an order on it at any time later, as often
as it likes (`Decide`, a clean decision). An order in `Reducing`, one that reduces
risk, passes under a weekly or monthly review but not under the experiment's halt
(`PassableHolds`); any other passes under no hold. Kills, compliance and the halt
stop both. A reducing order's projection is left open; `issue` adds its requested
risk up like any other. Hashes the caller presents are one Boolean. `held`, in a
safety state, a decision and a row, is history: the windows that had been held when
the safety state was read.

### CanaryRelease and OneShotOrder

Each operator process has a program counter over the steps of
`run_operator_canary`: prepare, commit (all tokens in one transaction), validate,
take the credential lock, validate again, claim the journal, sign, enter the
boundary, post, hear or not hear, mark the session, and the reconciliation: check
the durable state, read the account, finalize the session, close the journal.
Two guards of the reconciliation are left out since no step here writes what they
look for: the state RECONCILING, and a recorded fill above the one just read
(`m27o_reconciliation.py:511`; the exchange's fill of an order never falls).
`Crash` ends a process anywhere and frees its lock. `RecoverSessions` and
`RecoverJournal` are the `recover` methods of a restarted service, which may run
while an operator is at work. Preview, approval and client order id are one
(`Approvals`); releases may share approvals and authorizations (`approvalOf`,
`riskOf`). `Resolve` and `Settle` are the exchange: a fill-or-kill order resolves
whenever it arrives, and settlement removes its position.

`OneShotOrder` is what all of it promises: one candidate is authorized, sent at
most once, and what is recorded of it is what the exchange did. Sessions are
mapped to authorizations, terminal sessions to records.

### DemoExecution and IntentOrders

Each write of `ExecutionStore` is its own transaction, so a worker's `submit` or
`mutate` is a chain of actions: `SubmitCall` or `MutateCall`, `SavePending`,
`Consume`, `MarkStarted`, `Send`, an answer (`Acknowledge`, `Refused`, `NoAnswer`,
`ProvenUnsent`), `Settle` (the journal) and `Save` (the order row, an
unconditional upsert of what this worker computed). `held` is the copy a caller
passes to `mutate`, which is compared with nothing. `recover` reads on one
connection and writes on another (`RecoverRead`, `RecoverWrite`). No code in
`src/services` reconciles an order: `Reconcile` is the caller, as the tests do it.
One body per kind of mutation; an amendment asks for one contract more than the
intent. The exchange judges an order by the size it has there (`Live`, `TruthOf`),
the code by the quantity of the intent: `mutate` in `MutationResult`, and
`transition` in `QuantityAllows`, which therefore refuses to reconcile some orders
an amend or a decrease has changed. `Consume` may refuse an authorization that is
ISSUED, for the reasons `RiskAuthorization` has.

`IntentOrders` is the same without store, workers and restarts: an authorization is
spent for one execution (`Grant`), requests are sent once, a create by that
execution and a mutation for an order the exchange took (`Send`), the order moves at
the exchange (`Happen`), and what is shown is an outcome it has (`Show`, several
orders at once after a restart). A journaled execution whose authorization is CONSUMED
is granted; an order row is shown as working, filled, canceled or rejected.

### PrivateStream

`ingest_ws_event` for a sequenced event (`Deliver`, any sent event, any number of
times, in any order) and for one without (`DeliverUnsequenced`), and
`disconnect`. The state an event carries is stored and never read, so it is left
out. `noticed`, `source` and `unchecked` are history variables for the property:
what was sent before a gap or a disconnect was recorded, the connection
`last_sequence` was numbered on, and what lies below a number that was accepted
with none of its own connection to compare it with.

### BookEvidence

`feed` is what the exchange sent, numbered over all markets of the subscription;
`Process` takes any frame of it, any number of times, in any order. What `process`
does with one is one action per way it can end: `Unexpected`, `Snapshot` and
`Delta` (with the three ends of `_persist`), `InvalidSnapshot`, `ReplaySnapshot`,
`ReplayDelta` (a row that is stored is returned and nothing is applied),
`DeltaOnStale`, `DeltaRefused`. `sequence` is `InSequence` and `BooksAfter`,
`_request_snapshot_once` is `RequestSnapshotOnce`. The content of a book is the
connection its snapshot came from and how often it contains each numbered delta:
enough to tell a lost, repeated or foreign delta, and short of prices. Age is a
choice wherever the code asks for it, a replayed snapshot's included.

### AlertDecision, EvaluationRun and RunJournal

`AlertDecision` has the pure part: daily highs, the predicate of a contract, votes,
the preferred market as forecast and a degree warmer and colder, `decide_alert`,
the row `_build_attempt` makes of it, and `replay_decision`, which sees only the
row. Temperatures, debits and gaps are scaled to exact integers, where the code
has exact decimals.

In `EvaluationRun` each invocation of `_run_evaluation` is a process with a
program counter: `Register`, `Discover`, `Acquire`, for each market `SkipRoute` or
`Snapshot` and `Evaluate`, then `Complete` and `Close`. An expected failure
(`DiscoverRefused`, `AcquireRefused`, a `NoSnapshot`) goes on without the data, any
other leaves the `try` for the `finally` with the status it began with (`Raise`,
`EvaluateRefused`), and `Die` skips the `finally` too. The clock is any time at
each reading. The insert of an attempt and its id in the process's list are one
action: an asynchronous interrupt between the two statements (`wn_a1_runner.py:634`
and 636), which would close the run without the attempt, is not modelled.
`RunJournal` is the promise: a run starts once, collects rows while it
is open, and is closed at most once by a record that lists exactly them.

### SettlementReconciliation

Extends `EvaluationRun` with Kalshi (`Finalize`, corrections included), and
reconcilers that register an attempt and read the clock (`Reconcile`), read the
market (`ReadMarket`, `ReadInvalid`, `ReadUnavailable`) and append (`Append`).
`ReadRaises` is a ValueError that `_reconcile` does not catch (a cutoff or a market
that does not parse), `ReconcilerDies` a dead process or a refused insert.
`CheckMarket` keeps the order of the checks in `_check_market`; what is only
compared with a constant or the attempt is one `flaw`, found before or after the
comparisons. `published` is a
history variable.

## 4. The runs

| Run | Asks | Bounds |
|---|---|---|
| `risk_concurrency` | do two callers, racing on two orders of one market with halts, compliance and expiry in between, keep `ReservationIffIssued`, `ReservedWithinCaps`, `NothingIssuedInHalt`, `GrantedOnce`, `TerminalIsFinal`, `ConsumedWithinLockWait`, and does an account that was within its caps leave them only by a consume whose snapshot misses a live order (`OnlyStaleSnapshotOversubscribes`) | market cap 2 against risks 1 and 2, so the orders exclude each other; TTL and lock wait 1, clock to 2: a call can begin before and end after an expiry |
| `risk_controls` | does a loss hold bind what is decided on a safety state read after it, under kills, compliance and halt too (`HoldsBindAuthorizations`) | a new-risk and a reducing order, one kill category, a review and the experiment's halt; the clock stands still, since no hold depends on it |
| `risk_oversubscribed` | can consumed orders exceed a cap (they can) | as the first |
| `canary_release` | the nine safety properties and `ImplementsOneShot` | three releases, two approvals, two authorizations: every pair competes for the budget, some for an approval or an authorization; two operators, so one can be inside any step of the other |
| `canary_recovery` | is the outcome learned in the end (`OutcomeIsLearned`) | one release, two operators |
| `canary_stuck_failed` | can recovery become impossible (it can) | one release, one operator |
| `demo_submission` | one intent in two environments under one authorization, two workers, decreases, crashes and a recover: `RequestSentOnce`, `SentIsRecoverable`, `ImplementsIntentOrders` | the second environment gives the uniqueness constraints something to refuse |
| `demo_mutations` | cancels and amendments with stale copies: `SentIsNeverUnsent`, `NoPhantomOutcome` | quantity 2, so that none, part, all and more than all can be filled; workers do not die here, the first run has the crashes, of decreases too |
| `stream` | which events are lost in silence under loss, repetition, reordering (`OnlyUncheckedHidesLoss`) | two connections of four events: gap, return, an unsequenced event between two others, and a reconnect after which a number follows the old one by chance |
| `evidence` | `CurrentIsExact`, `EvidenceExact`, `HealthyIsRecovered` under loss, repetition, reordering, invalid frames, reconnects and staleness | two markets on one subscription, so a frame of one makes a gap of the other; four frames and a second connection of two: a gap, its recovery and a frame of the old connection after it |
| `evaluation` | two processes with any failures: `ReadsOnce`, `TerminalTellsAll`, `EvidenceBeforeDecision`, `ReplayReproduces`, `ImplementsJournal` | two runs on two markets, so the processes race for one run or write two side by side; two members who disagree; two clock times, one before the second forecast |
| `settlement` | two reconcilers beside an evaluation: `ForecastPrecedesSettlement`, `SettledAsPublished`, `OneOutcome`, and the liveness `RunIsClosed`, `ReconciliationEnds` | one market settled at the upper edge of its range, with both results, corrections, and two clock times |

The unbounded counters are bounded by `MaxTime` (clock), `Quantity` + 1 (fills),
`Connections` and `Events` (stream), `MaxEpoch`, `MaxSeq` and `Length` (frames),
`Mutations` (attempts) and `Listed` (markets); everything else is
finite because the code's identifiers are single-use. Symmetry is over callers,
operators, workers, invocations and the markets of `evidence`, never in a
liveness run. Deadlock is checked where the system always has a step; in the demo,
evaluation and settlement runs every identifier can be spent, and in `evidence`
every connection, after which nothing is left to do, and the check is off.

### What the code does not keep

Two runs are expected to violate what a document or a comment says.

* `NoCapOversubscription`: `consume` frees the reservation as it hands the
  authorization out; until a snapshot shows the order neither reservations nor
  base risk contain it, and a second order can pass the cap. What does hold, and
  for concurrent callers, is `ReservedWithinCaps`, and the gap is no wider than
  that: `OnlyStaleSnapshotOversubscribes` says that the live orders leave the caps
  only at a consume decided on a snapshot that misses one of them.
* `RecoveryStaysPossible`: a policy-violating fill is finalized in two
  transactions; after a death in between recovery rejects the session for ever.

The same models show, without a run of their own:

* after a death between commit and journal claim a release must be reconciled and
  cannot be;
* a consumption may come up to the lock wait after its expiry
  (`ConsumedWithinLockWait` is the bound that holds), and the one request may leave
  after a halt that became durable while the operator waited for the journal;
* the evaluator judges the safety state its caller read, and `issue` reads the halt
  and compliance again but neither holds nor kills: a hold recorded after that read
  does not stop the order. `HoldsBindAuthorizations` speaks of what was read after
  the hold;
* `mutate` saves what it computed from the copy it was passed and takes back a fill
  that another mutation recorded; a fill above the original quantity of an enlarged
  order raises before anything is written;
* `mutate` compares the fill with the quantity of the intent (`engine.py:245`), so an
  order an amend enlarged becomes FILLED when the answer reports the old quantity,
  although the exchange works the rest and `transition` says "FILLED requires exact
  complete quantity" (`domain.py:249`). FILLED is terminal: no transition
  leaves it, and only `recover`, or a worker that saves what it computed from an
  older copy, moves the row. `NoPhantomOutcome`
  says what is left: the row still asks for reconciliation, and a FILLED row that
  does not is final at the exchange. `IntentOrders` shows FILLED in the same sense,
  the quantity of the intent;
* the private stream loses events in silence: after an unsequenced event
  `last_sequence` is NULL (`store.py:275`) and any number is accepted, so of 1, an
  unsequenced event and 3, event 2 is lost with no gap recorded and the channel is
  trusted; so are those before the first number of all, and, since `disconnect`
  keeps `last_sequence` (`store.py:292`), those before a number of a new connection
  that follows the old one by chance. `OnlyUncheckedHidesLoss` says that there are
  no others;
* after a gap the next event in sequence restores trust with no REST recovery in
  between, where `docs/reviews/M14_demo_execution.md:13` says "Sequence gaps and
  disconnects degrade trust and require REST recovery";
* a second gap during a recovery sends no second `get_snapshot`, and a snapshot that
  then arrives can end the recovery, so the runtime is HEALTHY, while another book
  is still in GAP: `CurrentIsExact` holds because that book is not CURRENT;
* an evaluation whose ensemble read returned no row at all persists a row that
  replay refuses (`Replayable`); a public read that fails outside the expected
  errors ends the run as FAILED with discovery "OK", and the retry is refused since
  the run identity is spent;
* a market finalized between a reconciler's clock and its read is EVIDENCE_INVALID,
  and no later outcome of the attempt can be appended, although
  `docs/reviews/WN_A2_SETTLEMENT_OUTCOME_RECONCILIATION.md` says that a later
  controlling correction "must be appended as a new observation"; `OneOutcome` is
  what the code and its tests have instead, and the document is what would change;
* a cutoff or a market that does not parse leaves a reconciliation that began without
  an outcome for good, which `ReconciliationEnds` excepts by name;
* a policy-violating fill is marked RECONCILED although the module's docstring
  reserves that for complete canaries.

### Fairness

In `canary_recovery`: nothing in the code schedules recovery: it is a
call an operator repeats ("may later be re-run", says `run_operator_canary`). `FairSpec` therefore assumes that a service recovers its sessions (weak),
that a process in a call runs on unless it dies (weak, per operator), that
somebody calls recovery again and again and does not die at the same step for
ever, and that the reads eventually agree (strong, for the recovery steps). It
does not assume that no process crashes or that the exchange answers. The
property excludes a position that settlement removed before it was read.

In `settlement`: an invocation that registered and a reconciler that registered
run on (weak, one condition per process). Every read they make has a timeout, the
wait for the write lock is SQLite's busy timeout, and nothing in either loops or
waits for the other. Nobody has to start, and every process may die at any step;
the properties say so.

## 5. The proofs

For any numbers of orders, callers, workers, releases, operators, events, markets, frames,
runs and reconcilers, under the assumptions named in each module (types of the
constants, finitely many orders, a RANGE that is not empty).

* `RiskAuthorization_proofs`: `TypeCorrect`; then `IInv` = reservations are the
  ISSUED rows, a halt leaves none, granted rows are CONSUMED and caught ones
  REVOKED. The last two are what makes single use inductive: `grants` alone does
  not say why the next consume fails. `SingleUse`, `HaltLeavesNothingIssued`,
  `ReservationsFollowIssued` follow, and the action properties
  `TerminalRowsAreFinal` and `LatenessBounded` from the type invariant. For
  `HoldIsKept`, `HoldInv` follows what was held when the safety state was read, from
  the safety state over the decision and a waiting issue call to the row: a call
  that began before a hold may end after it, and a row outlives its decision. The caps are sums over sets of orders, computed by a fold; the lemmas
  from `SmallestSet` to `LoadMonotone` show that such a sum does not depend on the
  order of its terms, adds one term per order and never falls when orders are
  added, each as the absence of a smallest set of orders for which it fails
  (finite sets are well-founded under inclusion). `CapInv` adds to
  the property that every row was issued on a snapshot that left room for it (the
  row outlives its reservation, and a consume uses what its issue had checked);
  `ReservationsStayWithinCaps` and `OversubscriptionNeedsStaleSnapshot` follow.
* `CanaryRelease_proofs`: `IInv` = `Durable` and `Operating`. `Durable` is what
  the files say together: tokens spent together, rows that agree, requests only
  behind a journal that crossed the boundary, possible sends remembered, true
  verdicts. `Operating` ties each program counter to them: who is past the second
  validation holds the credential lock, before the request nothing was posted and
  while it is under way nobody is deciding its outcome, and who decides carries
  what the exchange did. Neither part is inductive alone,
  because between two transactions the truth is in a process's memory. From it:
  `OnePost`, `TokensTogether`, `JournalBeforePost`, `SendRemembered`,
  `TrueVerdict`, `FillOnce`, `ClosedLast`, `ReconciledForGood`, and `Refinement`,
  where every step is mapped to a step of `OneShotOrder` or a stutter.
* `DemoExecution_proofs`: `SendInv` = `Progress` ties each worker's step to what is
  durable of its request (unsent before the send, marked at it), `OwnsAlone` and
  `OneJournal` give a request one worker and an authorization one journal, and
  `SentMarked` says what stays of a sent one; `recover` may overwrite a row between
  two writes of its worker, so nothing may depend on the exact journal state.
  `SentOnce`, `SentCanBeRecovered` and `SentNeverUnsent` follow. `TruthInv` adds the
  exchange: a create is unknown to it until it arrives, an order's fill and end
  only grow, so replies, held copies and carried values stay true while they wait
  to be saved. `DoneInv` says that a reconciled FILLED row is done at the exchange,
  where nothing revives it. `NoPhantom` follows. `EngineImplementsIntentOrders` needs `MatchInv` too:
  a consumed authorization has a journaled execution (so a submission that journals
  is not thereby granted), and an order that callers hold as mutable, or that a
  worker mutates, was taken by the exchange. `Consume` maps to `Grant`, `Send` to `Send`,
  the writes of rows to `Show`, `Fill` and `Arrive` to `Happen`, all others to stutters.
* `PrivateStream_proofs`: while `last_sequence` is a number of the connection in
  use, everything up to it is recorded, noticed or unchecked (`BehindLast`); what an
  accepted event skips is then either below an unchecked number or was so already.
  `SilentLossIsUnchecked` follows.
* `BookEvidence_proofs`: exactness alone is not inductive, since it says nothing of
  a runtime that is about to serve again. `Wiring` says that what serves is
  connected on the manager's epoch and that a known subscription covers every
  market (so a gap reaches every book), `Numbered` that the numbers held were sent,
  `Installed` that a CURRENT book was installed after a number. The lemmas `Truth...`
  say how the exchange's book changes from one number to the next. `BooksExact`,
  `RowsExact` and `HealthRecovered` follow.
* `EvaluationRun_proofs`: `TerminalTellsAll` compares a record with the journal, but
  the record is made from a process's memory; so `Remembered` says that the memory
  and the journal agree, `Routed` that markets are done or to do, `Owned` that an
  unfinished run is open and its process's own (with `ReadsOnce`, nobody else adds
  rows), `Acquired` that the ensemble is older than its acquisition, `ClosedOnce`
  that a run has one record. `RowsReplay` needs no induction over time: the row
  holds every argument of the decision. `Refinement` maps `Register`, `Evaluate` and
  `Close` to the three actions of `RunJournal` and every other step to a stutter.
* `AlertDecision_proofs`, about operators alone: `AlertIsJustified` compares
  `decide_alert` with its gates (the buffered gate never decides, since the default
  raw threshold is the buffered one plus the buffer), `BothSidesNeedWideMarket` bounds
  when it has a side to choose, `PreferredIsTheLeader` and `ReversalIsALeadChange` say what
  the boundary diagnostic compares for any finite set of siblings, again by a smallest
  counterexample, and `WarmerFavoursAbove` that a shift moves open-ended contracts one way.
* `SettlementReconciliation_proofs`: `LaneRuns` shows that the lane implements the
  evaluations alone, so their invariant holds in it. `TasksSound`, `HeldOnce` and
  `OutcomesWritten` tie each outcome to the memory of the reconciler that appended
  it; `ShownIsPublished` and `RowsOrdered` connect it to Kalshi and to the rows.
  `SettledInOrder`, `SettledFaithfully` and `SettledOnce` follow.

Only model-checked: liveness (out of the prover's reach) and, of course, the
violations.

## 6. Not modelled

Formatting, hashing and signing (artifacts never change, so their hash checks
are left out; where a caller may present a wrong one, it is a Boolean), audit
rows, fees and prices, the fields of requests, the insert-only logs of the demo
store (fills, queue observations, lineage), step-up authentication (the guard of
an approval), the decoding of the ensemble and of JSON, the routing of a market's
rules, the bytes and hashes of settlement evidence, and every component
`PROJECT.json` marks `not_modelled`. The canary store's methods that only tests call,
and the manager's `enqueue`, `global_commands` and `invalidate_for_metadata`, which
only tests call too, are left out until the plan's last item.

Most of the repository's lines are in these parts: research pipelines, statistics,
document processing, the dashboard and their command lines, which compute or show
values. Those of them that keep state (queues and backups of operations, the trial
ledger, the prospective receipts, the other forecasting journals) are candidates
for the plan's last item.
