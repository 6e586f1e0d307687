---------------------------- MODULE CanaryRelease ----------------------------
(***************************************************************************)
(* M27O, the one supervised live order: bind a release, consume every      *)
(* one-shot token in one transaction, sign and send once, and reconcile    *)
(* against the exchange with reads only.                                   *)
(*                                                                         *)
(* Two SQLite files are involved and no transaction spans them: the shared *)
(* M16/M13 database (approval, risk, session, budget) and the production   *)
(* journal.  The POST itself belongs to neither.  An operator process can  *)
(* die between any two steps; the kernel then frees its credential lock    *)
(* and everything it held in memory is gone.                               *)
(*                                                                         *)
(* Preview, human approval and client order id are in one-to-one           *)
(* correspondence (all three columns are UNIQUE), so one set, Approvals,   *)
(* stands for them.  Hash and identity checks between artifacts that never *)
(* change are left out; expiry is a set that only grows.  An operator      *)
(* named Bug... is a faulty variant of the definition that follows it.     *)
(***************************************************************************)
EXTENDS Integers, FiniteSets

CONSTANTS
  Operators,   \* operator processes, also the ones restarted for recovery
  Releases,    \* release artifacts, one per run of the release binding
  Approvals,   \* preview + approval + client order id
  Risks,       \* M13 authorizations
  approvalOf,  \* [Releases -> Approvals]
  riskOf,      \* [Releases -> Risks]
  Nobody,      \* the credential lock is free
  NoRelease    \* an idle operator works on no release

ASSUME ReleaseAssumption ==
  /\ approvalOf \in [Releases -> Approvals]
  /\ riskOf \in [Releases -> Risks]
  /\ Nobody \notin Operators
  /\ NoRelease \notin Releases

VARIABLES
  approval,   \* canary_approvals.state
  risk,       \* risk_authorizations.state
  reserved,   \* risk_reservations with active = 1
  safe,       \* no halt, compliance CLEAR, kills NORMAL, no loss hold
  budget,     \* real_submission_count
  session,    \* canary_sessions, one row per release
  fillCount,  \* real_fill_count
  journal,    \* production_journal, one row per release
  expired,    \* releases past expires_at
  lock,       \* who holds the credential store's exclusive flock
  proc,       \* each operator's program counter, release and account view
  posts,      \* external: create requests put on the wire, per client order id
  order,      \* external: what became of them at the exchange
  settled     \* external: the market settled and its position row is gone

sharedVars   == <<approval, risk, reserved, safe, budget, session, fillCount>>
exchangeVars == <<posts, order, settled>>
vars == <<approval, risk, reserved, safe, budget, session, fillCount, journal,
          expired, lock, proc, posts, order, settled>>

-----------------------------------------------------------------------------
(* Types *)

Terminal   == {"CANARY_COMPLETE", "CANARY_FAILED"}
Unresolved == {"SUBMISSION_PENDING", "SUBMITTED_OR_UNKNOWN"}
Session    == [state: {"NONE"} \union Unresolved \union Terminal,
               possibly: 0..1, filled: 0..1]

JournalInputs == {"BOUNDARY_ENTERED", "ACKNOWLEDGED_RECONCILIATION_REQUIRED",
                  "UNKNOWN_RECONCILIATION_REQUIRED"}
Journal == [state: {"NONE", "PREPARED_NOT_SENT", "RECONCILED"} \union JournalInputs,
            sent: 0..1]

Verdicts == {"UNKNOWN", "FILLED", "FILLED_POLICY_VIOLATION", "NO_FILL"}
Steps == {"idle", "commit", "execute", "lock", "check", "claim", "sign", "send",
          "await", "mark", "reconcile", "read", "finalize", "close"}
Proc == [pc: Steps, rel: Releases \union {NoRelease}, view: Verdicts]
OrderStates == {"none", "wire", "lost", "rejected",
                "executed", "overpaid", "canceled"}

Idle == [pc |-> "idle", rel |-> NoRelease, view |-> "UNKNOWN"]
At(p, step) == proc[p].pc = step
Rel(p) == proc[p].rel
Begin(p, step, r) ==
  proc' = [proc EXCEPT ![p] = [pc |-> step, rel |-> r, view |-> "UNKNOWN"]]
Goto(p, step) == proc' = [proc EXCEPT ![p].pc = step]
Learn(p, step, facts) ==
  proc' = [proc EXCEPT ![p] = [pc |-> step, rel |-> Rel(p), view |-> facts]]
Return(p) == proc' = [proc EXCEPT ![p] = Idle]
Unlock(p) == lock' = IF lock = p THEN Nobody ELSE lock

Init ==
  /\ approval = [a \in Approvals |-> "NONE"]
  /\ risk = [k \in Risks |-> "NONE"]
  /\ reserved = {}
  /\ safe = TRUE
  /\ budget = 0
  /\ session = [r \in Releases |-> [state |-> "NONE", possibly |-> 0, filled |-> 0]]
  /\ fillCount = 0
  /\ journal = [r \in Releases |-> [state |-> "NONE", sent |-> 0]]
  /\ expired = {}
  /\ lock = Nobody
  /\ proc = [p \in Operators |-> Idle]
  /\ posts = [a \in Approvals |-> 0]
  /\ order = [a \in Approvals |-> "none"]
  /\ settled = {}

-----------------------------------------------------------------------------
(* The stores around the release *)

\* The owner approves a preview once: its hash is UNIQUE among the approvals.
IssueApproval(a) ==
  /\ approval[a] = "NONE"
  /\ approval' = [approval EXCEPT ![a] = "ISSUED"]
  /\ UNCHANGED <<risk, reserved, safe, budget, session, fillCount, journal,
                 expired, lock, proc, exchangeVars>>

\* The M13 store issues an authorization with its reservation, ...
IssueRisk(k) ==
  /\ risk[k] = "NONE"
  /\ risk' = [risk EXCEPT ![k] = "ISSUED"]
  /\ reserved' = reserved \union {k}
  /\ UNCHANGED <<approval, safe, budget, session, fillCount, journal, expired,
                 lock, proc, exchangeVars>>

\* ... and takes both back when it expires or a global halt revokes it.
LoseRisk(k) ==
  /\ risk[k] = "ISSUED"
  /\ risk' = [risk EXCEPT ![k] = "REVOKED"]
  /\ reserved' = reserved \ {k}
  /\ UNCHANGED <<approval, safe, budget, session, fillCount, journal, expired,
                 lock, proc, exchangeVars>>

\* A halt, hold or kill becomes durable, or the owner resets it.
ChangeSafety ==
  /\ safe' = ~safe
  /\ UNCHANGED <<approval, risk, reserved, budget, session, fillCount, journal,
                 expired, lock, proc, exchangeVars>>

\* Time passes expires_at, the earliest of every artifact's expiry.
Expire(r) ==
  /\ r \notin expired
  /\ expired' = expired \union {r}
  /\ UNCHANGED <<sharedVars, journal, lock, proc, exchangeVars>>

-----------------------------------------------------------------------------
(* Phases A and B: bind a release and consume every token at once *)

Bindable(r) ==
  /\ approval[approvalOf[r]] = "ISSUED"
  /\ risk[riskOf[r]] = "ISSUED"
  /\ r \notin expired

\* The binding validates its artifacts and the clock; no store is written.
PrepareRelease(p, r) ==
  /\ At(p, "idle")
  /\ Bindable(r)
  /\ Begin(p, "commit", r)
  /\ UNCHANGED <<sharedVars, journal, expired, lock, exchangeVars>>

BugTokensIgnoreBudget(r) ==
  /\ approval[approvalOf[r]] = "ISSUED"
  /\ risk[riskOf[r]] = "ISSUED"
  /\ riskOf[r] \in reserved
  /\ \A q \in Releases : session[q].state \notin Unresolved

TokensUnused(r) ==
  /\ approval[approvalOf[r]] = "ISSUED"
  /\ risk[riskOf[r]] = "ISSUED"
  /\ riskOf[r] \in reserved
  /\ \A q \in Releases : session[q].state \notin Unresolved
  /\ budget = 0

Committable(r) == safe /\ TokensUnused(r)

\* The expiry was compared with a clock read before BEGIN IMMEDIATE, so it is
\* not looked at again here.
CommitRelease(p) ==
  LET r == Rel(p) IN
  /\ At(p, "commit")
  /\ Committable(r)
  /\ approval' = [approval EXCEPT ![approvalOf[r]] = "CONSUMED"]
  /\ risk' = [risk EXCEPT ![riskOf[r]] = "CONSUMED"]
  /\ reserved' = reserved \ {riskOf[r]}
  /\ budget' = 1
  /\ session' = [session EXCEPT ![r] =
       [state |-> "SUBMISSION_PENDING", possibly |-> 1, filled |-> 0]]
  /\ Goto(p, "execute")
  /\ UNCHANGED <<safe, fillCount, journal, expired, lock, exchangeVars>>

\* Any failed check rolls the transaction back.
CommitRefused(p) ==
  /\ At(p, "commit")
  /\ ~Committable(Rel(p))
  /\ Return(p)
  /\ UNCHANGED <<sharedVars, journal, expired, lock, exchangeVars>>

-----------------------------------------------------------------------------
(* Phase C: one signed POST *)

\* The live call may be made again with the artifacts of an earlier commit.
ExecuteAgain(p, r) ==
  /\ At(p, "idle")
  /\ session[r].state # "NONE"
  /\ Begin(p, "execute", r)
  /\ UNCHANGED <<sharedVars, journal, expired, lock, exchangeVars>>

DurablePhaseB(r) ==
  /\ session[r].state = "SUBMISSION_PENDING"
  /\ session[r].possibly = 1
  /\ approval[approvalOf[r]] = "CONSUMED"
  /\ risk[riskOf[r]] = "CONSUMED"
  /\ riskOf[r] \notin reserved
  /\ budget = 1
  /\ safe

\* First validation, before the credential lock.
Validate(p) ==
  /\ At(p, "execute")
  /\ IF DurablePhaseB(Rel(p)) /\ Rel(p) \notin expired
       THEN Goto(p, "lock")
       ELSE Return(p)
  /\ UNCHANGED <<sharedVars, journal, expired, lock, exchangeVars>>

\* Under the lock the clock is read again and the artifacts' expiry checked.
AcquireLock(p) ==
  /\ At(p, "lock")
  /\ lock = Nobody
  /\ IF Rel(p) \notin expired
       THEN lock' = p /\ Goto(p, "check")
       ELSE UNCHANGED lock /\ Return(p)
  /\ UNCHANGED <<sharedVars, journal, expired, exchangeVars>>

\* Second validation of the durable state, then of the decoded credential.
Revalidate(p) ==
  /\ At(p, "check")
  /\ DurablePhaseB(Rel(p))
  /\ Goto(p, "claim")
  /\ UNCHANGED <<sharedVars, journal, expired, lock, exchangeVars>>

RevalidationFails(p) ==
  /\ At(p, "check")
  /\ Return(p)
  /\ Unlock(p)
  /\ UNCHANGED <<sharedVars, journal, expired, exchangeVars>>

BugUnclaimedUntilClosed(r) == journal[r].state # "RECONCILED"

\* execution_id, authorization_id and client_order_id are each UNIQUE.
Unclaimed(r) ==
  \A q \in Releases : journal[q].state # "NONE" =>
    /\ q # r
    /\ riskOf[q] # riskOf[r]
    /\ approvalOf[q] # approvalOf[r]

ClaimJournal(p) ==
  LET r == Rel(p) IN
  /\ At(p, "claim")
  /\ IF Unclaimed(r)
       THEN /\ journal' = [journal EXCEPT ![r] =
                             [state |-> "PREPARED_NOT_SENT", sent |-> 0]]
            /\ Goto(p, "sign")
            /\ UNCHANGED lock
       ELSE /\ Return(p)
            /\ Unlock(p)
            /\ UNCHANGED journal
  /\ UNCHANGED <<sharedVars, expired, exchangeVars>>

Transition(r, st) == journal' = [journal EXCEPT ![r] = [state |-> st, sent |-> 1]]

BugEnterBoundaryUnjournaled(p) ==
  /\ At(p, "sign")
  /\ Goto(p, "send")
  /\ UNCHANGED <<sharedVars, journal, expired, lock, exchangeVars>>

\* Signed: the journal crosses the boundary before the request does.
EnterBoundary(p) ==
  /\ At(p, "sign")
  /\ Transition(Rel(p), "BOUNDARY_ENTERED")
  /\ Goto(p, "send")
  /\ UNCHANGED <<sharedVars, expired, lock, exchangeVars>>

\* A signing failure is treated like a request that may have been sent.
SignFails(p) ==
  /\ At(p, "sign")
  /\ Transition(Rel(p), "UNKNOWN_RECONCILIATION_REQUIRED")
  /\ Goto(p, "mark")
  /\ UNCHANGED <<sharedVars, expired, lock, exchangeVars>>

Post(p) ==
  LET a == approvalOf[Rel(p)] IN
  /\ At(p, "send")
  /\ posts' = [posts EXCEPT ![a] = @ + 1]
  /\ order' = [order EXCEPT ![a] = IF @ = "none" THEN "wire" ELSE @]
  /\ Goto(p, "await")
  /\ UNCHANGED <<sharedVars, journal, expired, lock, settled>>

\* Any status but 429 and 5xx, a rejection included, is an acknowledgement.
Acknowledge(p) ==
  /\ At(p, "await")
  /\ order[approvalOf[Rel(p)]] \notin {"none", "wire", "lost"}
  /\ Transition(Rel(p), "ACKNOWLEDGED_RECONCILIATION_REQUIRED")
  /\ Goto(p, "mark")
  /\ UNCHANGED <<sharedVars, expired, lock, exchangeVars>>

\* Timeout, transport error, 429, 5xx or an oversized body: at any moment.
NoAnswer(p) ==
  /\ At(p, "await")
  /\ Transition(Rel(p), "UNKNOWN_RECONCILIATION_REQUIRED")
  /\ Goto(p, "mark")
  /\ UNCHANGED <<sharedVars, expired, lock, exchangeVars>>

\* The journal was written first; a session that someone else moved out of
\* SUBMISSION_PENDING raises, with the order possibly at the exchange.
MarkSubmitted(p) ==
  LET r == Rel(p) IN
  /\ At(p, "mark")
  /\ IF session[r].state = "SUBMISSION_PENDING"
       THEN /\ session' = [session EXCEPT ![r] =
                 [state |-> "SUBMITTED_OR_UNKNOWN", possibly |-> 1,
                  filled |-> session[r].filled]]
            /\ Goto(p, "reconcile")
       ELSE UNCHANGED session /\ Return(p)
  /\ Unlock(p)
  /\ UNCHANGED <<approval, risk, reserved, safe, budget, fillCount, journal,
                 expired, exchangeVars>>

-----------------------------------------------------------------------------
(* Phase D: reconciliation by reads only, also run on its own as recovery *)

RecoveryCall(p, r) ==
  /\ At(p, "idle")
  /\ session[r].state # "NONE"
  /\ Begin(p, "reconcile", r)
  /\ UNCHANGED <<sharedVars, journal, expired, lock, exchangeVars>>

Reconcilable(r) ==
  /\ session[r].state \in {"SUBMITTED_OR_UNKNOWN", "CANARY_COMPLETE"}
  /\ session[r].state # "CANARY_COMPLETE" => session[r].possibly = 1
  /\ approval[approvalOf[r]] = "CONSUMED"
  /\ risk[riskOf[r]] = "CONSUMED"
  /\ budget = 1
  /\ \/ journal[r].state = "RECONCILED"
     \/ journal[r].state \in JournalInputs /\ journal[r].sent = 1

ValidateRecovery(p) ==
  /\ At(p, "reconcile")
  /\ IF Reconcilable(Rel(p)) THEN Goto(p, "read") ELSE Return(p)
  /\ UNCHANGED <<sharedVars, journal, expired, lock, exchangeVars>>

BugExecutionFactsAbsentIsNoFill(a) ==
  CASE order[a] = "executed" /\ a \notin settled -> "FILLED"
    [] order[a] = "overpaid" /\ a \notin settled -> "FILLED_POLICY_VIOLATION"
    [] order[a] \in {"wire", "canceled"}         -> "NO_FILL"
    [] OTHER                                     -> "UNKNOWN"

\* What orders, fills and positions together prove about the client order id.
\* A full fill must still show as a position, so settlement hides it.
ExecutionFacts(a) ==
  CASE order[a] = "executed" /\ a \notin settled -> "FILLED"
    [] order[a] = "overpaid" /\ a \notin settled -> "FILLED_POLICY_VIOLATION"
    [] order[a] = "canceled"                     -> "NO_FILL"
    [] OTHER                                     -> "UNKNOWN"

BugReadAccountClosesFirst(p) ==
  LET facts == ExecutionFacts(approvalOf[Rel(p)]) IN
  /\ At(p, "read")
  /\ lock = Nobody
  /\ facts # "UNKNOWN"
  /\ Learn(p, "close", facts)
  /\ UNCHANGED <<sharedVars, journal, expired, lock, exchangeVars>>

\* The three reads happen under the credential lock, so never while a send is
\* in progress, and prove a terminal outcome.
ReadAccount(p) ==
  LET facts == ExecutionFacts(approvalOf[Rel(p)]) IN
  /\ At(p, "read")
  /\ lock = Nobody
  /\ facts # "UNKNOWN"
  /\ Learn(p, "finalize", facts)
  /\ UNCHANGED <<sharedVars, journal, expired, lock, exchangeVars>>

\* A read fails, lags or disagrees with another one: UNKNOWN, nothing written.
ReadsUnknown(p) ==
  /\ At(p, "read")
  /\ lock = Nobody
  /\ Return(p)
  /\ UNCHANGED <<sharedVars, journal, expired, lock, exchangeVars>>

FilledOf(view) == IF view = "NO_FILL" THEN 0 ELSE 1
TerminalOf(view) == IF view = "FILLED_POLICY_VIOLATION" THEN "CANARY_FAILED"
                                                        ELSE "CANARY_COMPLETE"

CountFill(previous, filled) ==
  IF filled > previous /\ fillCount < 50 THEN fillCount + 1 ELSE fillCount

BugFinalizeNotIdempotent(p) ==
  LET r == Rel(p)
      filled == FilledOf(proc[p].view) IN
  /\ At(p, "finalize")
  /\ session' = [session EXCEPT ![r] =
       [state |-> TerminalOf(proc[p].view), possibly |-> 0, filled |-> filled]]
  /\ fillCount' = CountFill(0, filled)
  /\ Goto(p, "close")
  /\ UNCHANGED <<approval, risk, reserved, safe, budget, journal, expired, lock,
                 exchangeVars>>

\* Shared database first; a repeat finds CANARY_COMPLETE and writes nothing.
FinalizeSession(p) ==
  LET r == Rel(p)
      filled == FilledOf(proc[p].view) IN
  /\ At(p, "finalize")
  /\ \/ /\ session[r].state = "CANARY_COMPLETE"
        /\ UNCHANGED <<session, fillCount>>
        /\ IF session[r].filled = filled THEN Goto(p, "close") ELSE Return(p)
     \/ /\ session[r].state = "SUBMITTED_OR_UNKNOWN"
        /\ session' = [session EXCEPT ![r] =
             [state |-> TerminalOf(proc[p].view), possibly |-> 0, filled |-> filled]]
        /\ fillCount' = CountFill(session[r].filled, filled)
        /\ Goto(p, "close")
     \/ /\ session[r].state \notin {"CANARY_COMPLETE", "SUBMITTED_OR_UNKNOWN"}
        /\ UNCHANGED <<session, fillCount>>
        /\ Return(p)
  /\ UNCHANGED <<approval, risk, reserved, safe, budget, journal, expired, lock,
                 exchangeVars>>

\* Then, in its own transaction, the journal.
CloseJournal(p) ==
  /\ At(p, "close")
  /\ Transition(Rel(p), "RECONCILED")
  /\ Return(p)
  /\ UNCHANGED <<sharedVars, expired, lock, exchangeVars>>

-----------------------------------------------------------------------------
(* Restart *)

\* A process dies, or an exception leaves it: the flock is freed with it.
Crash(p) ==
  /\ ~At(p, "idle")
  /\ Return(p)
  /\ Unlock(p)
  /\ UNCHANGED <<sharedVars, journal, expired, exchangeVars>>

BugRecoverSessionsAbandons ==
  /\ session' = [r \in Releases |->
       IF session[r].state = "SUBMISSION_PENDING"
         THEN [session[r] EXCEPT !.state = "CANARY_FAILED", !.possibly = 0]
         ELSE session[r]]
  /\ UNCHANGED <<approval, risk, reserved, safe, budget, fillCount, journal,
                 expired, lock, proc, exchangeVars>>

BugRecoverSessionsReconciling ==
  /\ session' = [r \in Releases |->
       IF session[r].possibly = 1
         THEN [session[r] EXCEPT !.state = "RECONCILING"]
         ELSE session[r]]
  /\ UNCHANGED <<approval, risk, reserved, safe, budget, fillCount, journal,
                 expired, lock, proc, exchangeVars>>

\* CanaryStore.recover of a restarted service, whatever another one is doing.
RecoverSessions ==
  /\ session' = [r \in Releases |->
       IF session[r].possibly = 1 /\ session[r].state \notin Terminal
         THEN [state |-> "SUBMITTED_OR_UNKNOWN", possibly |-> 1,
               filled |-> session[r].filled]
         ELSE session[r]]
  /\ UNCHANGED <<approval, risk, reserved, safe, budget, fillCount, journal,
                 expired, lock, proc, exchangeVars>>

BugRecoverJournalReopens ==
  /\ journal' = [r \in Releases |->
       IF journal[r].state = "NONE" THEN journal[r]
         ELSE [journal[r] EXCEPT !.state = "UNKNOWN_RECONCILIATION_REQUIRED"]]
  /\ UNCHANGED <<sharedVars, expired, lock, proc, exchangeVars>>

\* ProductionJournal.recover: possibly_sent keeps its value.
RecoverJournal ==
  /\ journal' = [r \in Releases |->
       IF journal[r].state \in {"NONE", "RECONCILED"} THEN journal[r]
         ELSE [state |-> "UNKNOWN_RECONCILIATION_REQUIRED", sent |-> journal[r].sent]]
  /\ UNCHANGED <<sharedVars, expired, lock, proc, exchangeVars>>

-----------------------------------------------------------------------------
(* The exchange, external: a fill-or-kill order resolves when it arrives, *)
(* which may be long after the client stopped waiting, or never.          *)

Resolve(a) ==
  /\ order[a] = "wire"
  /\ \E outcome \in {"lost", "rejected", "executed", "overpaid", "canceled"} :
       order' = [order EXCEPT ![a] = outcome]
  /\ UNCHANGED <<sharedVars, journal, expired, lock, proc, posts, settled>>

Settle(a) ==
  /\ order[a] \in {"executed", "overpaid"}
  /\ a \notin settled
  /\ settled' = settled \union {a}
  /\ UNCHANGED <<sharedVars, journal, expired, lock, proc, posts, order>>

-----------------------------------------------------------------------------
Environment ==
  \/ \E a \in Approvals : IssueApproval(a) \/ Resolve(a) \/ Settle(a)
  \/ \E k \in Risks : IssueRisk(k) \/ LoseRisk(k)
  \/ \E r \in Releases : Expire(r)
  \/ ChangeSafety
  \/ RecoverSessions
  \/ RecoverJournal

Calls(p) ==
  \E r \in Releases : PrepareRelease(p, r) \/ ExecuteAgain(p, r) \/ RecoveryCall(p, r)

\* The steps of an operator that is already in a call.
Advance(p) ==
  \/ CommitRelease(p) \/ CommitRefused(p)
  \/ Validate(p) \/ AcquireLock(p)
  \/ Revalidate(p) \/ RevalidationFails(p)
  \/ ClaimJournal(p) \/ EnterBoundary(p) \/ SignFails(p)
  \/ Post(p) \/ Acknowledge(p) \/ NoAnswer(p) \/ MarkSubmitted(p)
  \/ ValidateRecovery(p) \/ ReadAccount(p) \/ ReadsUnknown(p)
  \/ FinalizeSession(p) \/ CloseJournal(p)

Next == Environment \/ \E p \in Operators : Calls(p) \/ Advance(p) \/ Crash(p)

Spec == Init /\ [][Next]_vars

-----------------------------------------------------------------------------
(* Properties *)

TypeOK ==
  /\ approval \in [Approvals -> {"NONE", "ISSUED", "CONSUMED"}]
  /\ risk \in [Risks -> {"NONE", "ISSUED", "CONSUMED", "REVOKED"}]
  /\ reserved \subseteq Risks
  /\ safe \in BOOLEAN
  /\ budget \in 0..1
  /\ session \in [Releases -> Session]
  /\ fillCount \in 0..50
  /\ journal \in [Releases -> Journal]
  /\ expired \subseteq Releases
  /\ lock \in Operators \union {Nobody}
  /\ proc \in [Operators -> Proc]
  /\ posts \in [Approvals -> Nat]
  /\ order \in [Approvals -> OrderStates]
  /\ settled \subseteq Approvals

Opened(r) == session[r].state # "NONE"
Posted(r) == posts[approvalOf[r]] > 0

\* Across crashes, repeated calls, competing releases and restarts, at most
\* one create request ever leaves: one candidate's, and for it one.
AtMostOnePost ==
  /\ \A a \in Approvals : posts[a] <= 1
  /\ \A a, b \in Approvals : posts[a] > 0 /\ posts[b] > 0 => a = b

\* The tokens go together: a session exists exactly when the budget is burnt,
\* it is the only one, its approval and authorization are spent, and no other
\* release spent an approval.
TokensSpentTogether ==
  /\ \A a \in Approvals : approval[a] = "CONSUMED" =>
       \E r \in Releases : Opened(r) /\ approvalOf[r] = a
  /\ \A r \in Releases : Opened(r) =>
       /\ budget = 1
       /\ approval[approvalOf[r]] = "CONSUMED"
       /\ risk[riskOf[r]] = "CONSUMED"
       /\ riskOf[r] \notin reserved
  /\ \A q, r \in Releases : Opened(q) /\ Opened(r) => q = r

\* A request is on the wire only after the session and the journal durably
\* say that it may be, so a restart at any moment finds it.
PostIsJournaled ==
  \A a \in Approvals : posts[a] > 0 =>
    \E r \in Releases :
      /\ approvalOf[r] = a
      /\ Opened(r)
      /\ journal[r].state \in JournalInputs \union {"RECONCILED"}
      /\ journal[r].sent = 1

\* Until its outcome is on record a possibly sent order keeps the session
\* unresolved and possibly_submitted, which blocks every further release.
PossibleSendRemembered ==
  \A r \in Releases : Opened(r) =>
    \/ session[r].state \in Unresolved /\ session[r].possibly = 1
    \/ session[r].state \in Terminal /\ Posted(r)

\* A terminal session states what the exchange did, however old the reads it
\* was computed from, and the fill counter counted it once.
VerdictIsTrue ==
  \A r \in Releases :
    /\ session[r].state = "CANARY_COMPLETE" =>
         IF session[r].filled = 1 THEN order[approvalOf[r]] = "executed"
                                  ELSE order[approvalOf[r]] = "canceled"
    /\ session[r].state = "CANARY_FAILED" =>
         order[approvalOf[r]] = "overpaid" /\ session[r].filled = 1

FillCountedOnce ==
  fillCount = Cardinality({r \in Releases : session[r].filled = 1})

\* The journal is closed after the session, and neither a late answer, a
\* second reconciliation nor a restart opens it again.
JournalClosedLast ==
  \A r \in Releases : journal[r].state = "RECONCILED" => session[r].state \in Terminal

ReconciledIsFinal ==
  [][\A r \in Releases : journal[r].state = "RECONCILED" => journal'[r] = journal[r]]_vars

\* The release implements the one-shot order: sessions are authorizations,
\* terminal sessions are records of the outcome.
OutcomeOf(r) ==
  IF session[r].state = "CANARY_FAILED" THEN "overpaid"
  ELSE IF session[r].filled = 1 THEN "executed" ELSE "canceled"

OneShot == INSTANCE OneShotOrder WITH
  Candidates <- Approvals,
  authorized <- {approvalOf[r] : r \in {q \in Releases : Opened(q)}},
  sends      <- posts,
  fate       <- order,
  recorded   <- {<<approvalOf[r], OutcomeOf(r)>> :
                   r \in {q \in Releases : session[q].state \in Terminal}}

ImplementsOneShot == OneShot!Spec

\* What the recovery of r asks of the durable state, once the sessions of a
\* restarted process have been recovered.
Recoverable(r) ==
  \/ journal[r].state = "RECONCILED"
  \/ /\ journal[r].state \in JournalInputs /\ journal[r].sent = 1
     /\ \/ session[r].state = "CANARY_COMPLETE"
        \/ session[r].state \in Unresolved /\ session[r].possibly = 1

NobodyRuns == \A p \in Operators : At(p, "idle")

\* "once a POST may have occurred, recovery must remain possible forever"
\* (m27o_reconciliation.py): refuted, a crash between the two finalizing
\* transactions of a policy violation leaves a state recovery rejects.
RecoveryStaysPossible ==
  \A r \in Releases : Opened(r) /\ Posted(r) /\ NobodyRuns => Recoverable(r)

-----------------------------------------------------------------------------
(* Fairness.  Nothing in the code schedules recovery: these conditions say  *)
(* that somebody keeps running it, that calls in progress run on unless the *)
(* process dies, that it does not die at the same point for ever, and that  *)
(* the account reads eventually agree.                                      *)

FairSpec ==
  /\ Spec
  /\ WF_vars(RecoverSessions)
  /\ \A p \in Operators : WF_vars(Advance(p))
  /\ \A r \in Releases : SF_vars(\E p \in Operators : RecoveryCall(p, r))
  /\ SF_vars(\E p \in Operators : ValidateRecovery(p))
  /\ SF_vars(\E p \in Operators : ReadAccount(p))
  /\ SF_vars(\E p \in Operators : FinalizeSession(p))
  /\ SF_vars(\E p \in Operators : CloseJournal(p))

\* With recovery run again and again, whatever point a crash chose, an order
\* the exchange executed within its limits or canceled ends RECONCILED,
\* unless settlement removed the position first.
OutcomeIsLearned ==
  \A r \in Releases :
    Opened(r) /\ order[approvalOf[r]] \in {"executed", "canceled"}
      ~> journal[r].state = "RECONCILED" \/ approvalOf[r] \in settled
=============================================================================
