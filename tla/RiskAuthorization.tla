-------------------------- MODULE RiskAuthorization --------------------------
(***************************************************************************)
(* The M13 authorization store: short-lived, single-use risk               *)
(* authorizations with capacity reservations, kept in one SQLite file that *)
(* several threads and processes share.                                    *)
(*                                                                         *)
(* Every operation of the store is one BEGIN IMMEDIATE transaction, so it  *)
(* is one action here.  The operations that depend on the time read the    *)
(* clock BEFORE they ask for the write lock and may then wait for it up to *)
(* the SQLite busy timeout, so each of those is two actions: a call, which *)
(* captures the clock and the arguments, and a transaction, which uses     *)
(* the captured values.                                                    *)
(*                                                                         *)
(* A decision is taken from a SafetyState the caller read earlier, so the   *)
(* read and the decision are two actions as well.                          *)
(*                                                                         *)
(* The account side is external to the store: `open` is the set of orders  *)
(* whose risk may be live at the exchange and `seen` the last account      *)
(* snapshot that decisions and base risks are computed from.               *)
(*                                                                         *)
(* An operator named Bug... is a faulty variant of the definition that     *)
(* follows it; the mutation checks substitute it to show that a property   *)
(* notices the fault.  No specification uses one.                          *)
(***************************************************************************)
EXTENDS Integers, FiniteSets, FiniteSetsExt

CONSTANTS
  Orders,       \* client order ids
  Callers,      \* threads or processes holding a handle on the store
  Scopes,       \* what a cap applies to: markets, events, the aggregate
  Touched,      \* [Orders -> SUBSET Scopes]: the order's market, event, aggregate
  Risk,         \* [Orders -> [Scopes -> Nat]]: requested full-fill risk
  Cap,          \* [Scopes -> Nat]: the policy's hard caps
  Reducing,     \* the reduce-only orders whose projection is risk_reducing
  KillCategories,
  LossWindows,  \* the durable loss holds: weekly, monthly, experiment
  HaltWindows,  \* those that stop every order: experiment
  TTL,          \* life of a decision and of an authorization (5 s)
  BusyTimeout,  \* how long a caller waits for the write lock (10 s)
  MaxTime       \* bound: the clock stops here

ASSUME RiskAssumption ==
  /\ Touched \in [Orders -> SUBSET Scopes]
  /\ Risk \in [Orders -> [Scopes -> Nat]]
  /\ Cap \in [Scopes -> Nat]
  /\ Reducing \subseteq Orders /\ HaltWindows \subseteq LossWindows
  /\ TTL \in Nat \ {0} /\ BusyTimeout \in Nat /\ MaxTime \in Nat
  /\ IsFiniteSet(Orders)

VARIABLES
  now,         \* the wall clock
  halt,        \* global_halt_state.active
  compliance,  \* compliance_state.state
  kill,        \* durable_kill_states: the categories whose level is KILLED
  holds,       \* durable_loss_holds: the windows under review
  safety,      \* the SafetyStates that callers have built and may evaluate
  decision,    \* the evaluator's last clean decision for an order
  auth,        \* risk_authorizations, keyed by the UNIQUE client_order_id
  active,      \* risk_reservations with active = 1
  call,        \* what each caller is waiting to do
  open,        \* external: orders whose risk may be live at the exchange
  seen,        \* external: orders in the last account snapshot
  grants,      \* history: times consume returned True, per order
  caught,      \* history: orders whose authorization a global halt met ISSUED
  everHeld     \* history: the windows record_loss_state ever held

storeVars   == <<halt, compliance, kill, holds, auth, active>>
accountVars == <<open, seen>>
history     == <<grants, caught, everHeld>>
vars == <<now, storeVars, safety, decision, call, accountVars, history>>

Time == 0 .. MaxTime
ComplianceState == {"CLEAR", "HOLD", "UNKNOWN"}
AuthorizationState == {"ISSUED", "CONSUMED", "EXPIRED", "REVOKED"}

\* A SafetyState without halt, kill or compliance hold: another one passes no
\* order and is not kept.  `held` is history wherever it appears: the windows
\* that had ever been held when the safety state was read.
SafetyState == [holds: SUBSET LossWindows, held: SUBSET LossWindows]
Decision ==
  [expires: 0 .. MaxTime + TTL, portfolio: SUBSET Orders, held: SUBSET LossWindows]
Authorization ==
  [state: AuthorizationState, expires: 0 .. MaxTime + TTL, portfolio: SUBSET Orders,
   held: SUBSET LossWindows]
NoRow == [state |-> "NONE"]
NoDecision == [expires |-> 0, portfolio |-> {}, held |-> {}]
Idle == [op |-> "idle"]
Call ==
  [op: {"issue"}, at: Time, order: Orders, decision: Decision]
    \cup [op: {"consume"}, at: Time, order: Orders, portfolio: SUBSET Orders,
          match: BOOLEAN]
    \cup [op: {"summary"}, at: Time]
    \cup {Idle}

TypeOK ==
  /\ now \in Time
  /\ halt \in BOOLEAN
  /\ compliance \in ComplianceState
  /\ kill \subseteq KillCategories
  /\ holds \subseteq LossWindows
  /\ safety \subseteq SafetyState
  /\ decision \in [Orders -> Decision]
  /\ auth \in [Orders -> Authorization \cup {NoRow}]
  /\ active \subseteq Orders
  /\ call \in [Callers -> Call]
  /\ open \subseteq Orders
  /\ seen \subseteq Orders
  /\ grants \in [Orders -> Nat]
  /\ caught \subseteq Orders
  /\ everHeld \subseteq LossWindows
-----------------------------------------------------------------------------
Issued == {o \in Orders : auth[o].state = "ISSUED"}
LoadOf(S, s) == MapThenSumSet(LAMBDA o : Risk[o][s], {o \in S : s \in Touched[o]})

\* What _expire finds with the clock value `at`, and the two tables after it.
BugOverdueAnyState(at) == {o \in Orders : auth[o] # NoRow /\ auth[o].expires <= at}
BugOverdueLate(at) == {o \in Issued : auth[o].expires < at}
Overdue(at) == {o \in Issued : auth[o].expires <= at}
WithState(S, st) ==
  [o \in Orders |-> IF o \in S THEN [auth[o] EXCEPT !.state = st] ELSE auth[o]]

\* The order's risk fits under every cap it touches, on top of the base risk
\* the caller computed from its snapshot and of the reservations in R.
Fits(o, base, R) ==
  \A s \in Touched[o] : LoadOf(base, s) + LoadOf(R, s) + Risk[o][s] <= Cap[s]

Init ==
  /\ now = 0
  /\ halt = FALSE
  /\ compliance = "UNKNOWN"
  /\ kill = {}
  /\ holds = {}
  /\ safety = {}
  /\ decision = [o \in Orders |-> NoDecision]
  /\ auth = [o \in Orders |-> NoRow]
  /\ active = {}
  /\ call = [p \in Callers |-> Idle]
  /\ open = {} /\ seen = {}
  /\ grants = [o \in Orders |-> 0]
  /\ caught = {} /\ everHeld = {}

Tick ==
  /\ now < MaxTime
  /\ now' = now + 1
  /\ UNCHANGED <<storeVars, safety, decision, call, accountVars, history>>

(***************************************************************************)
(* evaluate_risk.  A caller builds a SafetyState from the durable rows and *)
(* evaluates it later; nothing checks how old it then is.                  *)
(***************************************************************************)
ReadSafety ==
  /\ ~halt /\ compliance = "CLEAR" /\ kill = {}
  /\ safety' = safety \cup {[holds |-> holds, held |-> everHeld]}
  /\ UNCHANGED <<now, storeVars, decision, call, accountVars, history>>

\* The holds an order passes under: a risk-reducing one under the weekly and
\* monthly reviews, but not under the experiment's halt; any other under none.
PassableHolds(o) == IF o \in Reducing THEN LossWindows \ HaltWindows ELSE {}

\* A clean PASS_NEXT_GATE decision.  By how much a reducing order lowers the
\* projection is left open, so its projection may be under any cap.
Decide(o, s) ==
  /\ s.holds \subseteq PassableHolds(o)
  /\ o \in Reducing \/ Fits(o, seen, {})
  /\ decision' = [decision EXCEPT ![o] =
       [expires |-> now + TTL, portfolio |-> seen, held |-> s.held]]
  /\ UNCHANGED <<now, storeVars, safety, call, accountVars, history>>

(***************************************************************************)
(* issue                                                                   *)
(***************************************************************************)
IssueCall(p, o) ==
  /\ call[p] = Idle
  /\ now < decision[o].expires
  /\ call' = [call EXCEPT ![p] = [op |-> "issue", at |-> now, order |-> o,
                                  decision |-> decision[o]]]
  /\ UNCHANGED <<now, storeVars, safety, decision, accountVars, history>>

HoldsLock(p, op) == call[p].op = op /\ now <= call[p].at + BusyTimeout
Return(p) == call' = [call EXCEPT ![p] = Idle]

BugIssuableIgnoresReserved(c) ==
  /\ ~halt /\ compliance = "CLEAR"
  /\ auth[c.order] = NoRow
  /\ Fits(c.order, c.decision.portfolio, {})
BugIssuableInHalt(c) ==
  /\ compliance = "CLEAR"
  /\ auth[c.order] = NoRow
  /\ Fits(c.order, c.decision.portfolio, active \ Overdue(c.at))
Issuable(c) ==
  /\ ~halt /\ compliance = "CLEAR"
  /\ auth[c.order] = NoRow
  /\ Fits(c.order, c.decision.portfolio, active \ Overdue(c.at))

Issue(p) ==
  /\ HoldsLock(p, "issue") /\ Return(p)
  /\ LET c == call[p] IN
       /\ Issuable(c)
       /\ auth' = [WithState(Overdue(c.at), "EXPIRED") EXCEPT ![c.order] =
            [state |-> "ISSUED",
             expires |-> Min({c.decision.expires, c.at + TTL}),
             portfolio |-> c.decision.portfolio, held |-> c.decision.held]]
       /\ active' = (active \ Overdue(c.at)) \cup {c.order}
  /\ UNCHANGED <<now, halt, compliance, kill, holds, safety, decision, accountVars, history>>

\* AuthorizationError inside the transaction rolls back, the expiry included.
IssueRefused(p) ==
  /\ HoldsLock(p, "issue") /\ Return(p)
  /\ ~Issuable(call[p])
  /\ UNCHANGED <<now, storeVars, safety, decision, accountVars, history>>

(***************************************************************************)
(* consume.  `match` stands for the intent and safety hashes the caller    *)
(* presents; the portfolio hash is the snapshot it holds.                  *)
(***************************************************************************)
ConsumeCall(p, o) ==
  /\ call[p] = Idle
  /\ auth[o] # NoRow
  /\ \E match \in BOOLEAN :
       call' = [call EXCEPT ![p] = [op |-> "consume", at |-> now, order |-> o,
                                    portfolio |-> seen, match |-> match]]
  /\ UNCHANGED <<now, storeVars, safety, decision, accountVars, history>>

BugConsumableAnySnapshot(c) ==
  /\ c.order \in Issued \ Overdue(c.at)
  /\ c.match
  /\ ~halt /\ compliance = "CLEAR"
BugConsumableAnyState(c) ==
  /\ auth[c.order] # NoRow /\ c.order \notin Overdue(c.at)
  /\ c.match /\ auth[c.order].portfolio = c.portfolio
  /\ ~halt /\ compliance = "CLEAR"
Consumable(c) ==
  /\ c.order \in Issued \ Overdue(c.at)
  /\ c.match /\ auth[c.order].portfolio = c.portfolio
  /\ ~halt /\ compliance = "CLEAR"

\* On success the caller goes on to send, so the order may be live from here.
Consume(p) ==
  /\ HoldsLock(p, "consume") /\ Return(p)
  /\ LET c == call[p] IN
       /\ Consumable(c)
       /\ auth' = [WithState(Overdue(c.at), "EXPIRED") EXCEPT ![c.order].state = "CONSUMED"]
       /\ active' = active \ (Overdue(c.at) \cup {c.order})
       /\ grants' = [grants EXCEPT ![c.order] = @ + 1]
       /\ open' = open \cup {c.order}
  /\ UNCHANGED <<now, halt, compliance, kill, holds, safety, decision, seen, caught, everHeld>>

BugExpireKeepsReservation(at) ==
  /\ auth' = WithState(Overdue(at), "EXPIRED")
  /\ UNCHANGED <<now, halt, compliance, kill, holds, active, safety, decision, accountVars, history>>
ExpireOverdue(at) ==
  /\ auth' = WithState(Overdue(at), "EXPIRED")
  /\ active' = active \ Overdue(at)
  /\ UNCHANGED <<now, halt, compliance, kill, holds, safety, decision, accountVars, history>>

\* A False return commits: what _expire wrote stays.
ConsumeRefused(p) ==
  /\ HoldsLock(p, "consume") /\ Return(p)
  /\ ~Consumable(call[p])
  /\ ExpireOverdue(call[p].at)

(***************************************************************************)
(* safety_summary, the dashboard's read, also runs _expire.                *)
(***************************************************************************)
SummaryCall(p) ==
  /\ call[p] = Idle
  /\ call' = [call EXCEPT ![p] = [op |-> "summary", at |-> now]]
  /\ UNCHANGED <<now, storeVars, safety, decision, accountVars, history>>

Summary(p) ==
  /\ HoldsLock(p, "summary") /\ Return(p)
  /\ ExpireOverdue(call[p].at)

\* The lock never came (database is locked), or the calling process died.
Abandon(p) ==
  /\ call[p] # Idle /\ Return(p)
  /\ UNCHANGED <<now, storeVars, safety, decision, accountVars, history>>

(***************************************************************************)
(* The durable safety controls.                                            *)
(***************************************************************************)
SetCompliance(c) ==
  /\ compliance' = c
  /\ UNCHANGED <<now, halt, kill, holds, auth, active, safety, decision, call, accountVars, history>>

ActivateGlobalHalt ==
  /\ halt' = TRUE
  /\ auth' = WithState(Issued, "REVOKED")
  /\ active' = {}
  /\ caught' = caught \cup Issued
  /\ UNCHANGED <<now, compliance, kill, holds, safety, decision, call, accountVars, grants, everHeld>>

ResetGlobalHalt ==
  /\ halt' = FALSE
  /\ UNCHANGED <<now, compliance, kill, holds, auth, active, safety, decision, call, accountVars, history>>

\* NORMAL and WARNING block nothing and are not told apart.
SetKillState(k, killed) ==
  /\ kill' = IF killed THEN kill \cup {k} ELSE kill \ {k}
  /\ UNCHANGED <<now, halt, compliance, holds, auth, active, safety, decision, call, accountVars, history>>

BugLossStateOverwrites(W) ==
  /\ holds' = W
  /\ everHeld' = everHeld \cup W
  /\ UNCHANGED <<now, halt, compliance, kill, auth, active, safety, decision, call, accountVars, grants, caught>>

\* The windows in W are under review in the evaluated loss state.
RecordLossState(W) ==
  /\ holds' = holds \cup W
  /\ everHeld' = everHeld \cup W
  /\ UNCHANGED <<now, halt, compliance, kill, auth, active, safety, decision, call, accountVars, grants, caught>>

\* External: a reconciled account read shows every order that is live.
RefreshSnapshot ==
  /\ seen' = open
  /\ UNCHANGED <<now, storeVars, safety, decision, call, open, history>>

Next ==
  \/ Tick
  \/ ReadSafety
  \/ \E o \in Orders, s \in safety : Decide(o, s)
  \/ \E p \in Callers, o \in Orders : IssueCall(p, o) \/ ConsumeCall(p, o)
  \/ \E p \in Callers :
       \/ Issue(p) \/ IssueRefused(p)
       \/ Consume(p) \/ ConsumeRefused(p)
       \/ SummaryCall(p) \/ Summary(p)
       \/ Abandon(p)
  \/ \E c \in ComplianceState : SetCompliance(c)
  \/ ActivateGlobalHalt
  \/ ResetGlobalHalt
  \/ \E k \in KillCategories, killed \in BOOLEAN : SetKillState(k, killed)
  \/ \E W \in SUBSET LossWindows : RecordLossState(W)
  \/ RefreshSnapshot

Spec == Init /\ [][Next]_vars
-----------------------------------------------------------------------------
(***************************************************************************)
(* Properties.                                                             *)
(***************************************************************************)

\* A reservation holds capacity exactly as long as its authorization is
\* ISSUED: issue, consume, _expire and the halt each change both tables.
ReservationIffIssued == active = Issued

\* The sum checked by issue under the write lock keeps concurrent callers
\* from reserving more than a cap between them, whatever snapshots they hold.
ReservedWithinCaps == \A s \in Scopes : LoadOf(active, s) <= Cap[s]

\* While the global halt is active nothing is ISSUED: the halt revokes what
\* it meets and issue, even one called before the halt, is refused.
NothingIssuedInHalt == halt => Issued = {}

\* consume answers True at most once for a client order id, however many
\* callers race, and an authorization a halt caught is never granted, not even
\* by a consume that began before the halt or after its reset.
GrantedOnce ==
  \A o \in Orders : grants[o] <= 1 /\ (o \in caught => grants[o] = 0)

\* A loss hold, once durable, binds every authorization whose safety state was
\* read after it, whatever milder loss states were recorded in between: under
\* the experiment's halt no order is authorized, under a weekly or monthly
\* review only one that reduces risk.
HoldsBindAuthorizations ==
  \A o \in Orders : auth[o] # NoRow => auth[o].held \subseteq PassableHolds(o)

\* CONSUMED, EXPIRED and REVOKED are final and a row is never deleted, so a
\* client order id is spent by its first authorization.
TerminalIsFinal ==
  [][\A o \in Orders : auth[o] # NoRow /\ o \notin Issued => auth'[o] = auth[o]]_vars

\* The clock an expiry check uses is read before the wait for the write
\* lock, so a consumption can be late, but never by more than that wait.
ConsumedWithinLockWait ==
  [][\A o \in Issued : auth'[o].state = "CONSUMED" =>
        now < auth[o].expires + BusyTimeout]_vars

\* What docs/reviews/M13_deterministic_risk.md promises (reservations and
\* single-use consumption prevent concurrent cap oversubscription): the orders
\* whose authorization was consumed stay under every cap.
NoCapOversubscription == \A s \in Scopes : LoadOf(open, s) <= Cap[s]

\* What the store does guarantee of that promise: the live orders pass a cap
\* only at a consume whose caller presents a snapshot that misses an order
\* already live.  A caller whose snapshot is complete never passes one,
\* however many others race it, because consume compares its snapshot with the
\* one the authorization was issued on.
OnlyStaleSnapshotOversubscribes ==
  [][open' # open /\ NoCapOversubscription =>
       \/ NoCapOversubscription'
       \/ \E p \in Callers : /\ call[p].op = "consume" /\ call'[p] = Idle
                             /\ ~(open \subseteq call[p].portfolio)]_vars
=============================================================================
