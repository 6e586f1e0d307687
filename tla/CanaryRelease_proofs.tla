------------------------ MODULE CanaryRelease_proofs ------------------------
(***************************************************************************)
(* Proofs about the canary release, for any operators, releases, approvals *)
(* and authorizations: one order is sent at most once, never forgotten,    *)
(* and recorded as what it became.                                         *)
(***************************************************************************)
EXTENDS CanaryRelease, FiniteSetTheorems, TLAPS

USE ReleaseAssumption

-----------------------------------------------------------------------------
(* The inductive invariant.  Its first half speaks of the durable rows and *)
(* the exchange, its second of what an operator at a given step knows.     *)

Sending  == {"sign", "send", "await", "mark"}
Locked   == {"check", "claim"} \union Sending
Deciding == {"finalize", "close"}
Working  == Steps \ {"idle", "commit"}

\* A row that does not exist has no contents, an unresolved one no fill.
RowsAgree ==
  \A r \in Releases :
    /\ ~Opened(r) => /\ session[r].possibly = 0
                     /\ session[r].filled = 0
                     /\ journal[r].state = "NONE"
    /\ session[r].state \in Unresolved => session[r].filled = 0
    /\ journal[r].state = "RECONCILED" =>
         journal[r].sent = 1 /\ session[r].state \in Terminal

PostsAgree ==
  \A a \in Approvals :
    /\ posts[a] <= 1
    /\ posts[a] = 0 <=> order[a] = "none"

Durable ==
  /\ TokensSpentTogether /\ RowsAgree /\ PostsAgree
  /\ PostIsJournaled /\ PossibleSendRemembered /\ VerdictIsTrue

\* An operator past the commit works on an open session, and holds the
\* credential lock from the second validation to the session's transition.
WorkAgrees ==
  \A p \in Operators :
    /\ proc[p].pc # "idle" => Rel(p) \in Releases
    /\ proc[p].pc \in Working => Opened(Rel(p))
    /\ proc[p].pc \in Locked => lock = p

\* Between the claim and the transition nobody can have decided the outcome.
SendAgrees ==
  \A p \in Operators : proc[p].pc \in Sending =>
    /\ session[Rel(p)].state \in Unresolved
    /\ journal[Rel(p)].state # "NONE"
    /\ proc[p].pc \in {"sign", "send"} => ~Posted(Rel(p))
    /\ proc[p].pc # "sign" =>
         journal[Rel(p)].sent = 1 /\ journal[Rel(p)].state \in JournalInputs
    /\ \A q \in Operators : proc[q].pc \notin Deciding

\* Whoever decides has read what the exchange did, which is final.
FateOf(view) ==
  CASE view = "FILLED"                  -> "executed"
    [] view = "FILLED_POLICY_VIOLATION" -> "overpaid"
    [] view = "NO_FILL"                 -> "canceled"
    [] OTHER                            -> "none"

DecideAgrees ==
  \A p \in Operators : proc[p].pc \in Deciding =>
    /\ proc[p].view # "UNKNOWN"
    /\ order[approvalOf[Rel(p)]] = FateOf(proc[p].view)
    /\ proc[p].pc = "close" => session[Rel(p)].state \in Terminal

Operating == WorkAgrees /\ SendAgrees /\ DecideAgrees

IInv == Durable /\ Operating

-----------------------------------------------------------------------------
(* How the program counter of one operator moves.                          *)

LEMMA GotoFields ==
  ASSUME TypeOK, NEW p \in Operators, NEW s \in Steps, Goto(p, s)
  PROVE  /\ proc' \in [Operators -> Proc]
         /\ proc'[p].pc = s /\ proc'[p].rel = proc[p].rel
         /\ proc'[p].view = proc[p].view
         /\ \A q \in Operators \ {p} : proc'[q] = proc[q]
BY DEF TypeOK, Goto, Proc

LEMMA ReturnFields ==
  ASSUME TypeOK, NEW p \in Operators, Return(p)
  PROVE  /\ proc' \in [Operators -> Proc]
         /\ proc'[p].pc = "idle"
         /\ \A q \in Operators \ {p} : proc'[q] = proc[q]
BY DEF TypeOK, Return, Proc, Idle, Steps, Verdicts

LEMMA BeginFields ==
  ASSUME TypeOK, NEW p \in Operators, NEW r \in Releases, NEW s \in Steps,
         Begin(p, s, r)
  PROVE  /\ proc' \in [Operators -> Proc]
         /\ proc'[p].pc = s /\ proc'[p].rel = r
         /\ \A q \in Operators \ {p} : proc'[q] = proc[q]
BY DEF TypeOK, Proc, Verdicts, Begin

LEMMA LearnFields ==
  ASSUME TypeOK, NEW p \in Operators, NEW v \in Verdicts,
         At(p, "read"), Rel(p) \in Releases, Learn(p, "finalize", v)
  PROVE  /\ proc' \in [Operators -> Proc]
         /\ proc'[p].pc = "finalize" /\ proc'[p].rel = proc[p].rel
         /\ proc'[p].view = v
         /\ \A q \in Operators \ {p} : proc'[q] = proc[q]
BY DEF TypeOK, Proc, Steps, Learn, Rel

\* An operator that is not idle has a release.
LEMMA RelType ==
  ASSUME TypeOK, Operating, NEW p \in Operators, ~At(p, "idle")
  PROVE  Rel(p) \in Releases /\ approvalOf[Rel(p)] \in Approvals
                             /\ riskOf[Rel(p)] \in Risks
BY DEF Operating, WorkAgrees, At

-----------------------------------------------------------------------------
(* Type correctness.  It needs Operating to know that a release is at hand. *)

LEMMA EnvironmentType ==
  ASSUME TypeOK, Environment
  PROVE  TypeOK'
<1>1. CASE \E a \in Approvals : IssueApproval(a) \/ Resolve(a) \/ Settle(a)
  BY <1>1 DEF TypeOK, IssueApproval, Resolve, Settle, sharedVars, exchangeVars, OrderStates
<1>2. CASE \E k \in Risks : IssueRisk(k) \/ LoseRisk(k)
  BY <1>2 DEF TypeOK, IssueRisk, LoseRisk, exchangeVars
<1>3. CASE \E r \in Releases : Expire(r)
  BY <1>3 DEF TypeOK, Expire, sharedVars, exchangeVars
<1>4. CASE ChangeSafety
  BY <1>4 DEF TypeOK, ChangeSafety, exchangeVars
<1>5. CASE RecoverSessions
  <2>1. session' \in [Releases -> Session]
    BY <1>5 DEF TypeOK, RecoverSessions, Session, Unresolved
  <2>2. QED BY <1>5, <2>1 DEF TypeOK, RecoverSessions, exchangeVars
<1>6. CASE RecoverJournal
  <2>1. journal' \in [Releases -> Journal]
    BY <1>6 DEF TypeOK, RecoverJournal, Journal, JournalInputs
  <2>2. QED BY <1>6, <2>1 DEF TypeOK, RecoverJournal, sharedVars, exchangeVars
<1>7. QED BY <1>1, <1>2, <1>3, <1>4, <1>5, <1>6 DEF Environment

\* Steps that move one operator and at most the lock.
Quiet(p) ==
  \/ \E r \in Releases : PrepareRelease(p, r) \/ ExecuteAgain(p, r) \/ RecoveryCall(p, r)
  \/ CommitRefused(p) \/ Validate(p) \/ AcquireLock(p) \/ Revalidate(p)
  \/ RevalidationFails(p) \/ ValidateRecovery(p) \/ ReadAccount(p) \/ ReadsUnknown(p)
  \/ Crash(p)

durableVars == <<approval, risk, reserved, safe, budget, session, fillCount,
                 journal, expired, posts, order, settled>>

LEMMA QuietFrame ==
  ASSUME NEW p \in Operators, Quiet(p)
  PROVE  UNCHANGED durableVars
BY DEF Quiet, durableVars, PrepareRelease, ExecuteAgain, RecoveryCall, CommitRefused,
       Validate, AcquireLock, Revalidate, RevalidationFails, ValidateRecovery,
       ReadAccount, ReadsUnknown, Crash, sharedVars, exchangeVars

LEMMA FactsType ==
  ASSUME NEW a \in Approvals
  PROVE  ExecutionFacts(a) \in Verdicts
BY DEF ExecutionFacts, Verdicts

LEMMA QuietType ==
  ASSUME TypeOK, Operating, NEW p \in Operators, Quiet(p)
  PROVE  TypeOK'
<1>1. proc' \in [Operators -> Proc]
  <2>1. CASE \E r \in Releases : PrepareRelease(p, r) \/ ExecuteAgain(p, r) \/ RecoveryCall(p, r)
    BY <2>1, BeginFields DEF PrepareRelease, ExecuteAgain, RecoveryCall, Steps
  <2>2. CASE CommitRefused(p) \/ RevalidationFails(p) \/ ReadsUnknown(p) \/ Crash(p)
    BY <2>2, ReturnFields DEF CommitRefused, RevalidationFails, ReadsUnknown, Crash
  <2>3. CASE Validate(p) \/ AcquireLock(p) \/ Revalidate(p) \/ ValidateRecovery(p)
    BY <2>3, ReturnFields, GotoFields
       DEF Validate, AcquireLock, Revalidate, ValidateRecovery, Steps
  <2>4. CASE ReadAccount(p)
    BY <2>4, LearnFields, FactsType, RelType DEF ReadAccount, At
  <2>5. QED BY <2>1, <2>2, <2>3, <2>4 DEF Quiet
<1>2. lock' \in Operators \union {Nobody}
  BY DEF TypeOK, Quiet, PrepareRelease, ExecuteAgain, RecoveryCall, CommitRefused,
       Validate, AcquireLock, Revalidate, RevalidationFails, ValidateRecovery,
       ReadAccount, ReadsUnknown, Crash, Unlock
<1>3. QED BY <1>1, <1>2, QuietFrame DEF TypeOK, durableVars

LEMMA TransitionFields ==
  ASSUME TypeOK, NEW r \in Releases,
         NEW st \in JournalInputs \union {"RECONCILED"}, Transition(r, st)
  PROVE  /\ journal' \in [Releases -> Journal]
         /\ journal'[r].state = st /\ journal'[r].sent = 1
         /\ \A q \in Releases \ {r} : journal'[q] = journal[q]
BY DEF TypeOK, Transition, Journal

LEMMA CommitType ==
  ASSUME TypeOK, Operating, NEW p \in Operators, CommitRelease(p)
  PROVE  TypeOK'
<1> DEFINE r == Rel(p)
<1>1. r \in Releases /\ approvalOf[r] \in Approvals /\ riskOf[r] \in Risks
  BY RelType DEF CommitRelease, At
<1>2. session' \in [Releases -> Session]
  BY <1>1 DEF TypeOK, CommitRelease, Session, Unresolved
<1>3. proc' \in [Operators -> Proc]
  BY GotoFields DEF CommitRelease, Steps
<1>4. QED BY <1>1, <1>2, <1>3 DEF TypeOK, CommitRelease, exchangeVars

LEMMA SendType ==
  ASSUME TypeOK, Operating, NEW p \in Operators,
         \/ ClaimJournal(p) \/ EnterBoundary(p) \/ SignFails(p) \/ Post(p)
         \/ Acknowledge(p) \/ NoAnswer(p) \/ MarkSubmitted(p)
  PROVE  TypeOK'
<1> DEFINE r == Rel(p)
<1>1. r \in Releases /\ approvalOf[r] \in Approvals
  BY RelType DEF ClaimJournal, EnterBoundary, SignFails, Post, Acknowledge, NoAnswer,
                 MarkSubmitted, At
<1>2. CASE ClaimJournal(p)
  <2>1. journal' \in [Releases -> Journal]
    BY <1>1, <1>2 DEF TypeOK, ClaimJournal, Journal
  <2>2. proc' \in [Operators -> Proc] /\ lock' \in Operators \union {Nobody}
    BY <1>2, GotoFields, ReturnFields DEF ClaimJournal, Steps, Unlock, TypeOK
  <2>3. QED BY <1>2, <2>1, <2>2 DEF TypeOK, ClaimJournal, sharedVars, exchangeVars
<1>3. CASE EnterBoundary(p) \/ SignFails(p) \/ Acknowledge(p) \/ NoAnswer(p)
  <2>1. journal' \in [Releases -> Journal]
    BY <1>1, <1>3, TransitionFields
       DEF EnterBoundary, SignFails, Acknowledge, NoAnswer, JournalInputs
  <2>2. proc' \in [Operators -> Proc]
    BY <1>3, GotoFields DEF EnterBoundary, SignFails, Acknowledge, NoAnswer, Steps
  <2>3. QED BY <1>3, <2>1, <2>2 DEF TypeOK, EnterBoundary, SignFails, Acknowledge,
                                   NoAnswer, sharedVars, exchangeVars
<1>4. CASE Post(p)
  <2>1. proc' \in [Operators -> Proc]
    BY <1>4, GotoFields DEF Post, Steps
  <2>2. order' \in [Approvals -> OrderStates] /\ posts' \in [Approvals -> Nat]
    BY <1>1, <1>4 DEF Post, TypeOK, OrderStates
  <2>3. QED BY <1>4, <2>1, <2>2 DEF TypeOK, Post, sharedVars
<1>5. CASE MarkSubmitted(p)
  <2>1. session' \in [Releases -> Session]
    BY <1>1, <1>5 DEF TypeOK, MarkSubmitted, Session, Unresolved
  <2>2. proc' \in [Operators -> Proc] /\ lock' \in Operators \union {Nobody}
    BY <1>5, GotoFields, ReturnFields DEF MarkSubmitted, Steps, Unlock, TypeOK
  <2>3. QED BY <1>5, <2>1, <2>2 DEF TypeOK, MarkSubmitted, exchangeVars
<1>6. QED BY <1>2, <1>3, <1>4, <1>5

LEMMA FinalizeType ==
  ASSUME TypeOK, Operating, NEW p \in Operators, FinalizeSession(p) \/ CloseJournal(p)
  PROVE  TypeOK'
<1> DEFINE r == Rel(p)
<1>1. r \in Releases /\ approvalOf[r] \in Approvals
  BY RelType DEF FinalizeSession, CloseJournal, At
<1>2. CASE FinalizeSession(p)
  <2>1. session' \in [Releases -> Session]
    BY <1>1, <1>2 DEF TypeOK, FinalizeSession, Session, Terminal, TerminalOf, FilledOf
  <2>2. fillCount' \in 0..50
    BY <1>2 DEF TypeOK, FinalizeSession, CountFill
  <2>3. proc' \in [Operators -> Proc]
    BY <1>2, GotoFields, ReturnFields DEF FinalizeSession, Steps
  <2>4. QED BY <1>2, <2>1, <2>2, <2>3 DEF TypeOK, FinalizeSession, exchangeVars
<1>3. CASE CloseJournal(p)
  <2>1. journal' \in [Releases -> Journal]
    BY <1>1, <1>3, TransitionFields DEF CloseJournal
  <2>2. proc' \in [Operators -> Proc]
    BY <1>3, ReturnFields DEF CloseJournal
  <2>3. QED BY <1>3, <2>1, <2>2 DEF TypeOK, CloseJournal, sharedVars, exchangeVars
<1>4. QED BY <1>2, <1>3

\* Every step is one of these.
LEMMA StepKinds ==
  ASSUME Next
  PROVE  \/ Environment
         \/ \E p \in Operators :
              \/ Quiet(p) \/ CommitRelease(p)
              \/ ClaimJournal(p) \/ EnterBoundary(p) \/ SignFails(p) \/ Post(p)
              \/ Acknowledge(p) \/ NoAnswer(p) \/ MarkSubmitted(p)
              \/ FinalizeSession(p) \/ CloseJournal(p)
BY DEF Next, Calls, Advance, Quiet

LEMMA TypeStep ==
  ASSUME TypeOK, Operating, [Next]_vars
  PROVE  TypeOK'
<1>1. CASE UNCHANGED vars
  BY <1>1 DEF TypeOK, vars
<1>2. CASE Next
  BY <1>2, StepKinds, EnvironmentType, QuietType, CommitType, SendType, FinalizeType
<1>3. QED BY <1>1, <1>2

-----------------------------------------------------------------------------
(* The invariant holds initially and across steps that write nothing.      *)

LEMMA InvInit ==
  ASSUME Init
  PROVE  TypeOK /\ IInv
<1>1. TypeOK
  BY DEF Init, TypeOK, Session, Journal, Proc, Idle, Steps, Verdicts, OrderStates
<1>2. Durable
  BY DEF Init, Durable, TokensSpentTogether, RowsAgree, PostsAgree, PostIsJournaled,
         PossibleSendRemembered, VerdictIsTrue, Opened, Posted, Unresolved
<1>3. Operating
  BY DEF Init, Operating, WorkAgrees, SendAgrees, DecideAgrees, Idle, Working, Steps,
         Locked, Sending, Deciding
<1>4. QED BY <1>1, <1>2, <1>3 DEF IInv

LEMMA FrameDurable ==
  ASSUME Durable,
         UNCHANGED <<approval, risk, reserved, budget, session, journal, posts, order>>
  PROVE  Durable'
BY DEF Durable, TokensSpentTogether, RowsAgree, PostsAgree, PostIsJournaled,
       PossibleSendRemembered, VerdictIsTrue, Opened, Posted

\* An operator may move anywhere but into the sending and deciding steps.
LEMMA MoveOperating ==
  ASSUME Operating, NEW p \in Operators,
         UNCHANGED <<session, journal, posts, order>>,
         \A q \in Operators \ {p} : proc'[q] = proc[q] /\ (lock = q => lock' = q),
         proc'[p].pc \notin Sending \union Deciding,
         proc'[p].pc # "idle" => proc'[p].rel \in Releases,
         proc'[p].pc \in Working => Opened(proc'[p].rel),
         proc'[p].pc \in Locked => lock' = p
  PROVE  Operating'
<1>1. WorkAgrees'
  BY DEF Operating, WorkAgrees, Rel, Opened
<1>2. SendAgrees'
  BY DEF Operating, SendAgrees, Rel, Posted
<1>3. DecideAgrees'
  BY DEF Operating, DecideAgrees, Rel
<1>4. QED BY <1>1, <1>2, <1>3 DEF Operating

LEMMA FrameOperating ==
  ASSUME Operating, UNCHANGED <<session, journal, posts, order, proc, lock>>
  PROVE  Operating'
BY DEF Operating, WorkAgrees, SendAgrees, DecideAgrees, Rel, Opened, Posted

\* What ReadAccount learns is what the exchange did.
LEMMA FactsAreFate ==
  ASSUME NEW a \in Approvals, ExecutionFacts(a) # "UNKNOWN"
  PROVE  order[a] = FateOf(ExecutionFacts(a))
BY DEF ExecutionFacts, FateOf

LEMMA ReadOperating ==
  ASSUME TypeOK, Durable, Operating, NEW p \in Operators, ReadAccount(p)
  PROVE  Operating'
<1>1. Rel(p) \in Releases /\ approvalOf[Rel(p)] \in Approvals
  BY RelType DEF ReadAccount, At
<1> DEFINE facts == ExecutionFacts(approvalOf[Rel(p)])
<1>2. /\ proc'[p].pc = "finalize" /\ proc'[p].rel = proc[p].rel
      /\ proc'[p].view = facts
      /\ \A q \in Operators \ {p} : proc'[q] = proc[q]
  BY <1>1, FactsType, LearnFields DEF ReadAccount
<1>3. UNCHANGED <<session, journal, posts, order, lock>>
  BY DEF ReadAccount, sharedVars, exchangeVars
<1>4. \A q \in Operators : proc[q].pc \notin Sending
  BY DEF ReadAccount, Operating, WorkAgrees, Locked
<1>5. WorkAgrees'
  BY <1>2, <1>3 DEF ReadAccount, Operating, WorkAgrees, Rel, Opened, At, Working,
                    Locked, Sending, Steps
<1>6. SendAgrees'
  BY <1>2, <1>4 DEF SendAgrees, Sending
<1>7. order[approvalOf[Rel(p)]] = FateOf(facts) /\ facts # "UNKNOWN"
  BY <1>1, FactsAreFate DEF ReadAccount
<1>8. DecideAgrees'
  BY <1>2, <1>3, <1>7 DEF Operating, DecideAgrees, Rel
<1>9. QED BY <1>5, <1>6, <1>8 DEF Operating

LEMMA QuietInv ==
  ASSUME TypeOK, IInv, NEW p \in Operators, Quiet(p)
  PROVE  IInv'
<1> USE DEF IInv
<1>1. UNCHANGED <<approval, risk, reserved, budget, session, journal, posts, order>>
  BY QuietFrame DEF durableVars
<1>2. Durable'
  BY <1>1, FrameDurable
<1>3. CASE \E r \in Releases : PrepareRelease(p, r) \/ ExecuteAgain(p, r) \/ RecoveryCall(p, r)
  <2>1. PICK r \in Releases : PrepareRelease(p, r) \/ ExecuteAgain(p, r) \/ RecoveryCall(p, r)
    BY <1>3
  <2>2. /\ proc'[p].pc \in {"commit", "execute", "reconcile"} /\ proc'[p].rel = r
        /\ \A q \in Operators \ {p} : proc'[q] = proc[q]
    BY <2>1, BeginFields DEF PrepareRelease, ExecuteAgain, RecoveryCall, Steps
  <2>3. proc'[p].pc # "commit" => Opened(r)
    BY <2>1, BeginFields DEF PrepareRelease, ExecuteAgain, RecoveryCall, Steps, Opened
  <2>4. UNCHANGED lock
    BY <2>1 DEF PrepareRelease, ExecuteAgain, RecoveryCall
  <2>5. QED BY <1>1, <1>2, <2>2, <2>3, <2>4, MoveOperating
               DEF Sending, Deciding, Working, Locked
<1>4. CASE CommitRefused(p) \/ RevalidationFails(p) \/ ReadsUnknown(p) \/ Crash(p)
  <2>1. /\ proc'[p].pc = "idle" /\ \A q \in Operators \ {p} : proc'[q] = proc[q]
    BY <1>4, ReturnFields DEF CommitRefused, RevalidationFails, ReadsUnknown, Crash
  <2>2. \A q \in Operators \ {p} : lock = q => lock' = q
    BY <1>4 DEF CommitRefused, RevalidationFails, ReadsUnknown, Crash, Unlock
  <2>3. QED BY <1>1, <1>2, <2>1, <2>2, MoveOperating
               DEF Sending, Deciding, Working, Locked
<1>5. CASE Validate(p) \/ AcquireLock(p) \/ Revalidate(p) \/ ValidateRecovery(p)
  <2>1. Rel(p) \in Releases /\ Opened(Rel(p))
    BY <1>5 DEF Validate, AcquireLock, Revalidate, ValidateRecovery, At, Operating,
                WorkAgrees, Working, Steps
  <2>2. /\ \/ proc'[p].pc = "idle"
           \/ proc'[p].pc \in {"lock", "read"} /\ proc'[p].rel = Rel(p)
           \/ proc'[p].pc \in {"check", "claim"} /\ proc'[p].rel = Rel(p) /\ lock' = p
        /\ \A q \in Operators \ {p} : proc'[q] = proc[q]
    BY <1>5, GotoFields, ReturnFields
       DEF Validate, AcquireLock, Revalidate, ValidateRecovery, At, Operating,
           WorkAgrees, Locked, Sending, Rel, Steps
  <2>3. \A q \in Operators \ {p} : lock = q => lock' = q
    BY <1>5 DEF Validate, AcquireLock, Revalidate, ValidateRecovery
  <2>4. QED BY <1>1, <1>2, <2>1, <2>2, <2>3, MoveOperating
               DEF Sending, Deciding, Working, Locked
<1>6. CASE ReadAccount(p)
  BY <1>2, <1>6, ReadOperating
<1>7. QED BY <1>3, <1>4, <1>5, <1>6 DEF Quiet

-----------------------------------------------------------------------------
(* The commit and the environment.                                         *)

LEMMA CommitInv ==
  ASSUME TypeOK, IInv, NEW p \in Operators, CommitRelease(p)
  PROVE  IInv'
<1> USE DEF IInv
<1> DEFINE r == Rel(p)
<1>1. r \in Releases /\ approvalOf[r] \in Approvals /\ riskOf[r] \in Risks
  BY RelType DEF CommitRelease, At
<1>2. \A q \in Releases : ~Opened(q)
  BY DEF CommitRelease, Committable, TokensUnused, Durable, TokensSpentTogether
<1>3. /\ session'[r].state = "SUBMISSION_PENDING"
      /\ session'[r].possibly = 1 /\ session'[r].filled = 0
      /\ \A q \in Releases \ {r} : session'[q] = session[q]
  BY <1>1 DEF CommitRelease, TypeOK
<1>4. UNCHANGED <<journal, posts, order, lock>>
  BY DEF CommitRelease, exchangeVars
<1>5. /\ proc'[p].pc = "execute" /\ proc'[p].rel = r
      /\ \A q \in Operators \ {p} : proc'[q] = proc[q]
  BY GotoFields DEF CommitRelease, Steps, Rel
<1>6. /\ approval'[approvalOf[r]] = "CONSUMED" /\ risk'[riskOf[r]] = "CONSUMED"
      /\ riskOf[r] \notin reserved' /\ budget' = 1
      /\ \A a \in Approvals \ {approvalOf[r]} : approval'[a] = approval[a]
  BY <1>1 DEF CommitRelease, TypeOK
<1>7. TokensSpentTogether'
  BY <1>1, <1>2, <1>3, <1>6 DEF Durable, TokensSpentTogether, Opened
<1>8. RowsAgree' /\ PostsAgree' /\ PossibleSendRemembered' /\ VerdictIsTrue'
  BY <1>1, <1>2, <1>3, <1>4 DEF Durable, RowsAgree, PostsAgree, VerdictIsTrue,
     PossibleSendRemembered, Opened, Posted, Unresolved, Terminal
<1>9. PostIsJournaled'
  BY <1>2, <1>4 DEF Durable, PostIsJournaled
<1>10. \A q \in Operators : proc[q].pc \notin Working
  BY <1>2 DEF Operating, WorkAgrees, Working
<1>11. \A q \in Operators : proc'[q].pc \notin Locked \union Deciding
  BY <1>5, <1>10 DEF Working, Locked, Sending, Deciding, Steps
<1>12. WorkAgrees'
  BY <1>1, <1>3, <1>5, <1>10, <1>11 DEF Operating, WorkAgrees, Rel, Opened
<1>13. SendAgrees' /\ DecideAgrees'
  BY <1>11 DEF SendAgrees, DecideAgrees, Locked
<1>14. QED BY <1>7, <1>8, <1>9, <1>12, <1>13 DEF Durable, Operating

LEMMA TokensInv ==
  ASSUME TypeOK, IInv,
         \/ \E a \in Approvals : IssueApproval(a)
         \/ \E k \in Risks : IssueRisk(k) \/ LoseRisk(k)
  PROVE  IInv'
<1> USE DEF IInv
<1>1. UNCHANGED <<budget, session, journal, posts, order, proc, lock>>
  BY DEF IssueApproval, IssueRisk, LoseRisk, exchangeVars
<1>2. Operating'
  BY <1>1, FrameOperating
<1>3. TokensSpentTogether'
  BY <1>1 DEF TypeOK, IssueApproval, IssueRisk, LoseRisk, Durable, TokensSpentTogether, Opened
<1>4. QED BY <1>1, <1>2, <1>3 DEF Durable, RowsAgree, PostsAgree, PostIsJournaled,
             PossibleSendRemembered, VerdictIsTrue, Opened, Posted

\* The exchange moves an order only while it travels.
LEMMA ResolveInv ==
  ASSUME TypeOK, IInv, NEW a \in Approvals, Resolve(a)
  PROVE  IInv'
<1> USE DEF IInv
<1>1. UNCHANGED <<approval, risk, reserved, budget, session, journal, posts, proc, lock>>
  BY DEF Resolve, sharedVars
<1>2. /\ order[a] = "wire" /\ order'[a] \notin {"none", "wire"}
      /\ \A b \in Approvals \ {a} : order'[b] = order[b]
  BY DEF Resolve, TypeOK
<1>3. PostsAgree' /\ VerdictIsTrue'
  BY <1>1, <1>2 DEF Durable, PostsAgree, VerdictIsTrue
<1>4. Durable'
  BY <1>1, <1>3 DEF Durable, TokensSpentTogether, RowsAgree, PostIsJournaled,
                    PossibleSendRemembered, Opened, Posted
<1>5. DecideAgrees'
  BY <1>1, <1>2 DEF Operating, WorkAgrees, DecideAgrees, FateOf, Rel, Working, Deciding, Steps
<1>6. WorkAgrees' /\ SendAgrees'
  BY <1>1 DEF Operating, WorkAgrees, SendAgrees, Rel, Opened, Posted
<1>7. QED BY <1>4, <1>5, <1>6 DEF Operating

LEMMA RecoverSessionsInv ==
  ASSUME TypeOK, IInv, RecoverSessions
  PROVE  IInv'
<1> USE DEF IInv
<1>1. UNCHANGED <<approval, risk, reserved, budget, journal, posts, order, proc, lock>>
  BY DEF RecoverSessions, exchangeVars
<1>2. \A r \in Releases :
        \/ session'[r] = session[r]
        \/ /\ session[r].state \in Unresolved
           /\ session'[r].state = "SUBMITTED_OR_UNKNOWN"
           /\ session'[r].possibly = 1 /\ session'[r].filled = session[r].filled
  BY DEF RecoverSessions, Durable, RowsAgree, TypeOK, Session, Opened
<1>3. Durable'
  BY <1>1, <1>2 DEF Durable, TokensSpentTogether, RowsAgree, PostsAgree, PostIsJournaled,
       PossibleSendRemembered, VerdictIsTrue, Opened, Posted, Unresolved, Terminal
<1>4. WorkAgrees'
  BY <1>1, <1>2 DEF Operating, WorkAgrees, Rel, Opened, Working, Steps, Unresolved
<1>5. SendAgrees' /\ DecideAgrees'
  BY <1>1, <1>2 DEF Operating, WorkAgrees, SendAgrees, DecideAgrees, Rel, Opened, Posted,
       Unresolved, Terminal, Working, Steps, Sending, Deciding
<1>6. QED BY <1>3, <1>4, <1>5 DEF Operating

LEMMA RecoverJournalInv ==
  ASSUME TypeOK, IInv, RecoverJournal
  PROVE  IInv'
<1> USE DEF IInv
<1>1. UNCHANGED <<approval, risk, reserved, budget, session, posts, order, proc, lock>>
  BY DEF RecoverJournal, sharedVars, exchangeVars
<1>2. \A r \in Releases :
        \/ journal'[r] = journal[r]
        \/ /\ journal[r].state \notin {"NONE", "RECONCILED"}
           /\ journal'[r].state = "UNKNOWN_RECONCILIATION_REQUIRED"
           /\ journal'[r].sent = journal[r].sent
  BY DEF RecoverJournal
<1>3. Durable'
  BY <1>1, <1>2 DEF Durable, TokensSpentTogether, RowsAgree, PostsAgree, PostIsJournaled,
       PossibleSendRemembered, VerdictIsTrue, Opened, Posted, JournalInputs
<1>4. WorkAgrees' /\ DecideAgrees'
  BY <1>1 DEF Operating, WorkAgrees, DecideAgrees, Rel, Opened
<1>5. SendAgrees'
  BY <1>1, <1>2 DEF Operating, WorkAgrees, SendAgrees, Rel, Posted, JournalInputs,
       Working, Steps, Sending
<1>6. QED BY <1>3, <1>4, <1>5 DEF Operating

LEMMA EnvironmentInv ==
  ASSUME TypeOK, IInv, Environment
  PROVE  IInv'
<1> USE DEF IInv
<1>1. CASE ChangeSafety \/ (\E r \in Releases : Expire(r)) \/ (\E a \in Approvals : Settle(a))
  <2>1. UNCHANGED <<approval, risk, reserved, budget, session, journal, posts, order, proc, lock>>
    BY <1>1 DEF ChangeSafety, Expire, Settle, sharedVars, exchangeVars
  <2>2. QED BY <2>1, FrameDurable, FrameOperating
<1>2. QED BY <1>1, TokensInv, ResolveInv, RecoverSessionsInv, RecoverJournalInv DEF Environment

-----------------------------------------------------------------------------
(* The send.  An operator that may claim is the only one that ever sends.  *)

\* Where a sending operator stands: it holds the lock alone.
LEMMA SenderFacts ==
  ASSUME TypeOK, IInv, NEW p \in Operators, proc[p].pc \in Sending \union {"claim"}
  PROVE  /\ Rel(p) \in Releases /\ approvalOf[Rel(p)] \in Approvals
         /\ Opened(Rel(p)) /\ lock = p
         /\ \A q \in Operators \ {p} : proc[q].pc \notin Locked
BY DEF IInv, Operating, WorkAgrees, Sending, Locked, Working, Steps

\* The open session is the only one, so an unclaimed release was never sent.
LEMMA UnclaimedUnsent ==
  ASSUME TypeOK, IInv, NEW r \in Releases, Opened(r), Unclaimed(r)
  PROVE  /\ ~Posted(r)
         /\ session[r].state \in Unresolved
         /\ journal[r].state = "NONE"
         /\ \A q \in Operators : proc[q].pc \notin Deciding
<1> USE DEF IInv
<1>1. journal[r].state = "NONE"
  BY DEF Unclaimed
<1>2. ~Posted(r)
  BY DEF Unclaimed, Posted, Durable, PostIsJournaled, JournalInputs
<1>3. session[r].state \in Unresolved
  BY <1>2 DEF Durable, PossibleSendRemembered
<1>4. ASSUME NEW q \in Operators, proc[q].pc \in Deciding
      PROVE FALSE
  <2>1. Rel(q) \in Releases /\ Opened(Rel(q))
    BY <1>4 DEF Operating, WorkAgrees, Deciding, Working, Steps
  <2>2. Rel(q) = r
    BY <2>1 DEF Durable, TokensSpentTogether
  <2>3. order[approvalOf[r]] # "none"
    BY <1>4, <2>2 DEF Operating, DecideAgrees, FateOf, TypeOK, Proc, Verdicts, Rel
  <2>4. posts[approvalOf[r]] # 0
    BY <2>3 DEF Durable, PostsAgree
  <2>5. QED BY <1>2, <2>4 DEF Posted, TypeOK
<1>5. QED BY <1>1, <1>2, <1>3, <1>4

LEMMA ClaimInv ==
  ASSUME TypeOK, IInv, NEW p \in Operators, ClaimJournal(p)
  PROVE  IInv'
<1> USE DEF IInv
<1> DEFINE r == Rel(p)
<1>1. /\ r \in Releases /\ approvalOf[r] \in Approvals /\ Opened(r) /\ lock = p
      /\ \A q \in Operators \ {p} : proc[q].pc \notin Locked
  BY SenderFacts DEF ClaimJournal, At
<1>2. UNCHANGED <<approval, risk, reserved, budget, session, posts, order>>
  BY DEF ClaimJournal, sharedVars, exchangeVars
<1>3. CASE ~Unclaimed(r)
  <2>1. /\ UNCHANGED journal /\ proc'[p].pc = "idle"
        /\ \A q \in Operators \ {p} : proc'[q] = proc[q]
    BY <1>3, ReturnFields DEF ClaimJournal
  <2>2. Durable'
    BY <1>2, <2>1, FrameDurable
  <2>3. \A q \in Operators \ {p} : lock # q
    BY <1>1
  <2>4. QED BY <1>2, <2>1, <2>2, <2>3, MoveOperating DEF Sending, Deciding, Working, Locked
<1>4. CASE Unclaimed(r)
  <2>1. /\ proc'[p].pc = "sign" /\ proc'[p].rel = r /\ lock' = lock
        /\ \A q \in Operators \ {p} : proc'[q] = proc[q]
    BY <1>4, GotoFields DEF ClaimJournal, Steps, Rel
  <2>2. /\ journal'[r].state = "PREPARED_NOT_SENT"
        /\ \A q \in Releases \ {r} : journal'[q] = journal[q]
    BY <1>1, <1>4 DEF ClaimJournal, TypeOK
  <2>3. /\ ~Posted(r) /\ session[r].state \in Unresolved /\ journal[r].state = "NONE"
        /\ \A q \in Operators : proc[q].pc \notin Deciding
    BY <1>1, <1>4, UnclaimedUnsent
  <2>4. RowsAgree' /\ PostIsJournaled'
    BY <1>1, <1>2, <2>2, <2>3 DEF Durable, RowsAgree, PostIsJournaled, JournalInputs, Opened
  <2>5. Durable'
    BY <1>2, <2>4 DEF Durable, TokensSpentTogether, PostsAgree, PossibleSendRemembered,
                      VerdictIsTrue, Opened, Posted
  <2>6. WorkAgrees'
    BY <1>1, <1>2, <2>1 DEF Operating, WorkAgrees, Rel, Opened
  <2>7. \A q \in Operators : proc'[q].pc \notin Deciding
    BY <2>1, <2>3 DEF Deciding
  <2>8. SendAgrees'
    BY <1>1, <1>2, <2>1, <2>2, <2>3, <2>7 DEF SendAgrees, Rel, Posted, Locked, Sending
  <2>9. QED BY <2>5, <2>6, <2>7, <2>8 DEF Operating, DecideAgrees
<1>5. QED BY <1>3, <1>4

\* Signing, acknowledging and giving up write the journal of an undecided
\* release and stay in the send.
LEMMA JournalInv ==
  ASSUME TypeOK, IInv, NEW p \in Operators,
         EnterBoundary(p) \/ SignFails(p) \/ Acknowledge(p) \/ NoAnswer(p)
  PROVE  IInv'
<1> USE DEF IInv
<1> DEFINE r == Rel(p)
<1>1. proc[p].pc \in {"sign", "await"}
  BY DEF EnterBoundary, SignFails, Acknowledge, NoAnswer, At
<1>2. /\ r \in Releases /\ approvalOf[r] \in Approvals /\ Opened(r) /\ lock = p
      /\ \A q \in Operators \ {p} : proc[q].pc \notin Locked
  BY <1>1, SenderFacts DEF Sending
<1>3. UNCHANGED <<approval, risk, reserved, budget, session, posts, order, lock>>
  BY DEF EnterBoundary, SignFails, Acknowledge, NoAnswer, sharedVars, exchangeVars
<1>4. /\ journal'[r].state \in JournalInputs /\ journal'[r].sent = 1
      /\ \A q \in Releases \ {r} : journal'[q] = journal[q]
  BY <1>2, TransitionFields
     DEF EnterBoundary, SignFails, Acknowledge, NoAnswer, JournalInputs
<1>5. /\ proc'[p].pc \in {"send", "mark"} /\ proc'[p].rel = r
      /\ proc'[p].pc = "send" => proc[p].pc = "sign"
      /\ \A q \in Operators \ {p} : proc'[q] = proc[q]
  BY GotoFields DEF EnterBoundary, SignFails, Acknowledge, NoAnswer, Steps, Rel, At
<1>6. /\ session[r].state \in Unresolved
      /\ proc[p].pc = "sign" => ~Posted(r)
      /\ \A q \in Operators : proc[q].pc \notin Deciding
  BY <1>1 DEF Operating, SendAgrees, Sending
<1>7. RowsAgree' /\ PostIsJournaled'
  BY <1>2, <1>3, <1>4 DEF Durable, RowsAgree, PostIsJournaled, JournalInputs, Opened
<1>8. Durable'
  BY <1>3, <1>7 DEF Durable, TokensSpentTogether, PostsAgree, PossibleSendRemembered,
                    VerdictIsTrue, Opened, Posted
<1>9. WorkAgrees'
  BY <1>2, <1>3, <1>5 DEF Operating, WorkAgrees, Rel, Opened
<1>10. \A q \in Operators : proc'[q].pc \notin Deciding
  BY <1>5, <1>6 DEF Deciding
<1>11. SendAgrees'
  BY <1>2, <1>3, <1>4, <1>5, <1>6, <1>10
     DEF SendAgrees, Rel, Posted, Locked, Sending, JournalInputs
<1>12. QED BY <1>8, <1>9, <1>10, <1>11 DEF Operating, DecideAgrees

LEMMA PostInv ==
  ASSUME TypeOK, IInv, NEW p \in Operators, Post(p)
  PROVE  IInv'
<1> USE DEF IInv
<1> DEFINE r == Rel(p)
           a == approvalOf[r]
<1>1. proc[p].pc = "send"
  BY DEF Post, At
<1>2. /\ r \in Releases /\ a \in Approvals /\ Opened(r) /\ lock = p
      /\ \A q \in Operators \ {p} : proc[q].pc \notin Locked
  BY <1>1, SenderFacts DEF Sending
<1>3. UNCHANGED <<approval, risk, reserved, budget, session, journal, lock>>
  BY DEF Post, sharedVars
<1>4. /\ session[r].state \in Unresolved /\ ~Posted(r)
      /\ journal[r].sent = 1 /\ journal[r].state \in JournalInputs
      /\ \A q \in Operators : proc[q].pc \notin Deciding
  BY <1>1 DEF Operating, SendAgrees, Sending
<1>5. posts[a] = 0 /\ order[a] = "none"
  BY <1>2, <1>4 DEF Posted, TypeOK, Durable, PostsAgree
<1>6. /\ posts'[a] = 1 /\ order'[a] = "wire"
      /\ \A b \in Approvals \ {a} : posts'[b] = posts[b] /\ order'[b] = order[b]
  BY <1>2, <1>5 DEF Post, TypeOK
<1>7. /\ proc'[p].pc = "await" /\ proc'[p].rel = r
      /\ \A q \in Operators \ {p} : proc'[q] = proc[q]
  BY GotoFields DEF Post, Steps, Rel
<1>8. TokensSpentTogether' /\ RowsAgree'
  BY <1>3 DEF Durable, TokensSpentTogether, RowsAgree, Opened
<1>9. PostsAgree'
  BY <1>6 DEF Durable, PostsAgree
<1>10. PostIsJournaled'
  BY <1>2, <1>3, <1>4, <1>6 DEF Durable, PostIsJournaled, Opened
<1>11. PossibleSendRemembered' /\ VerdictIsTrue'
  <2>1. \A q \in Releases : session[q].state \in Terminal => approvalOf[q] # a
    BY <1>2, <1>4 DEF Durable, PossibleSendRemembered, TokensSpentTogether, Posted, Opened,
                      Terminal, Unresolved
  <2>2. QED BY <1>3, <1>6, <2>1 DEF Durable, PossibleSendRemembered, VerdictIsTrue,
                                    Opened, Posted, Terminal
<1>12. WorkAgrees'
  BY <1>2, <1>3, <1>7 DEF Operating, WorkAgrees, Rel, Opened
<1>13. \A q \in Operators : proc'[q].pc \notin Deciding
  BY <1>4, <1>7 DEF Deciding
<1>14. SendAgrees'
  BY <1>2, <1>3, <1>4, <1>7, <1>13
     DEF SendAgrees, Rel, Posted, Locked, Sending, JournalInputs
<1>15. QED BY <1>8, <1>9, <1>10, <1>11, <1>12, <1>13, <1>14
              DEF Durable, Operating, DecideAgrees

LEMMA MarkInv ==
  ASSUME TypeOK, IInv, NEW p \in Operators, MarkSubmitted(p)
  PROVE  IInv'
<1> USE DEF IInv
<1> DEFINE r == Rel(p)
<1>1. /\ r \in Releases /\ approvalOf[r] \in Approvals /\ Opened(r) /\ lock = p
      /\ \A q \in Operators \ {p} : proc[q].pc \notin Locked
  BY SenderFacts DEF MarkSubmitted, At, Sending
<1>2. UNCHANGED <<approval, risk, reserved, budget, journal, posts, order>>
  BY DEF MarkSubmitted, exchangeVars
<1>3. /\ session[r].state \in Unresolved
      /\ \A q \in Operators : proc[q].pc \notin Deciding
  BY DEF MarkSubmitted, At, Operating, SendAgrees, Sending
<1>4. /\ session'[r].state \in Unresolved
      /\ session'[r].possibly = 1 /\ session'[r].filled = session[r].filled
      /\ \A q \in Releases \ {r} : session'[q] = session[q]
  BY <1>1, <1>3 DEF MarkSubmitted, TypeOK, Durable, PossibleSendRemembered, Unresolved, Terminal
<1>5. /\ proc'[p].pc \in {"idle", "reconcile"}
      /\ proc'[p].pc = "reconcile" => proc'[p].rel = r
      /\ \A q \in Operators \ {p} : proc'[q] = proc[q]
  BY GotoFields, ReturnFields DEF MarkSubmitted, Steps, Rel
<1>6. Durable'
  BY <1>1, <1>2, <1>3, <1>4 DEF Durable, TokensSpentTogether, RowsAgree, PostsAgree,
     PostIsJournaled, PossibleSendRemembered, VerdictIsTrue, Opened, Posted,
     Unresolved, Terminal
<1>7. WorkAgrees'
  BY <1>1, <1>4, <1>5 DEF Operating, WorkAgrees, Rel, Opened, Unresolved, Working,
                          Locked, Sending
<1>8. \A q \in Operators : proc'[q].pc \notin Sending \union Deciding
  BY <1>1, <1>3, <1>5 DEF Sending, Deciding, Locked
<1>9. QED BY <1>6, <1>7, <1>8 DEF Operating, SendAgrees, DecideAgrees

-----------------------------------------------------------------------------
(* The reconciliation's two transactions.                                  *)

\* What a deciding operator knows; nobody is sending meanwhile.
LEMMA DeciderFacts ==
  ASSUME TypeOK, IInv, NEW p \in Operators, proc[p].pc \in Deciding
  PROVE  /\ Rel(p) \in Releases /\ approvalOf[Rel(p)] \in Approvals
         /\ Opened(Rel(p)) /\ Posted(Rel(p))
         /\ proc[p].view \in Verdicts \ {"UNKNOWN"}
         /\ order[approvalOf[Rel(p)]] = FateOf(proc[p].view)
         /\ \A q \in Operators : proc[q].pc \notin Sending
<1> USE DEF IInv
<1>1. /\ Rel(p) \in Releases /\ approvalOf[Rel(p)] \in Approvals /\ Opened(Rel(p))
  BY DEF Operating, WorkAgrees, Deciding, Working, Steps
<1>2. /\ proc[p].view \in Verdicts \ {"UNKNOWN"}
      /\ order[approvalOf[Rel(p)]] = FateOf(proc[p].view)
  BY DEF Operating, DecideAgrees, TypeOK, Proc
<1>3. Posted(Rel(p))
  BY <1>1, <1>2 DEF FateOf, Verdicts, Durable, PostsAgree, Posted, TypeOK
<1>4. \A q \in Operators : proc[q].pc \notin Sending
  BY DEF Operating, SendAgrees
<1>5. QED BY <1>1, <1>2, <1>3, <1>4

\* The three ways the finalizing transaction can go.
LEMMA FinalizeCases ==
  ASSUME TypeOK, IInv, NEW p \in Operators, FinalizeSession(p)
  PROVE  \/ /\ UNCHANGED <<session, fillCount>> /\ proc'[p].pc = "idle"
            /\ \A q \in Operators \ {p} : proc'[q] = proc[q]
         \/ /\ UNCHANGED <<session, fillCount>>
            /\ session[Rel(p)].state = "CANARY_COMPLETE"
            /\ proc'[p].pc = "close" /\ proc'[p].rel = proc[p].rel
            /\ proc'[p].view = proc[p].view
            /\ \A q \in Operators \ {p} : proc'[q] = proc[q]
         \/ /\ session[Rel(p)].state = "SUBMITTED_OR_UNKNOWN"
            /\ session'[Rel(p)].state = TerminalOf(proc[p].view)
            /\ session'[Rel(p)].possibly = 0
            /\ session'[Rel(p)].filled = FilledOf(proc[p].view)
            /\ \A r \in Releases \ {Rel(p)} : session'[r] = session[r]
            /\ fillCount' = CountFill(session[Rel(p)].filled, FilledOf(proc[p].view))
            /\ proc'[p].pc = "close" /\ proc'[p].rel = proc[p].rel
            /\ proc'[p].view = proc[p].view
            /\ \A q \in Operators \ {p} : proc'[q] = proc[q]
<1>1. Rel(p) \in Releases
  BY DeciderFacts DEF FinalizeSession, At, Deciding
<1>2. CASE session[Rel(p)].state = "CANARY_COMPLETE"
  BY <1>2, GotoFields, ReturnFields DEF FinalizeSession, Steps
<1>3. CASE session[Rel(p)].state = "SUBMITTED_OR_UNKNOWN"
  BY <1>1, <1>3, GotoFields DEF FinalizeSession, Steps, TypeOK
<1>4. CASE session[Rel(p)].state \notin {"CANARY_COMPLETE", "SUBMITTED_OR_UNKNOWN"}
  BY <1>4, ReturnFields DEF FinalizeSession
<1>5. QED BY <1>2, <1>3, <1>4

LEMMA FinalizeInv ==
  ASSUME TypeOK, IInv, NEW p \in Operators, FinalizeSession(p)
  PROVE  IInv'
<1> USE DEF IInv
<1> DEFINE r == Rel(p)
           view == proc[p].view
<1>1. /\ r \in Releases /\ approvalOf[r] \in Approvals /\ Opened(r) /\ Posted(r)
      /\ view \in Verdicts \ {"UNKNOWN"} /\ order[approvalOf[r]] = FateOf(view)
      /\ \A q \in Operators : proc[q].pc \notin Sending
  BY DeciderFacts DEF FinalizeSession, At, Deciding
<1>2. UNCHANGED <<approval, risk, reserved, budget, journal, posts, order, lock>>
  BY DEF FinalizeSession, exchangeVars
<1>3. CASE UNCHANGED session /\ proc'[p].pc = "idle"
           /\ \A q \in Operators \ {p} : proc'[q] = proc[q]
  <2>1. Durable'
    BY <1>2, <1>3, FrameDurable
  <2>2. Operating'
    BY <1>2, <1>3, MoveOperating DEF Sending, Deciding, Working, Locked
  <2>3. QED BY <2>1, <2>2
<1>4. CASE /\ UNCHANGED session /\ session[r].state = "CANARY_COMPLETE"
           /\ proc'[p].pc = "close" /\ proc'[p].rel = r /\ proc'[p].view = view
           /\ \A q \in Operators \ {p} : proc'[q] = proc[q]
  <2>1. Durable'
    BY <1>2, <1>4, FrameDurable
  <2>2. WorkAgrees'
    BY <1>1, <1>2, <1>4 DEF Operating, WorkAgrees, Rel, Opened, Working, Locked, Sending
  <2>3. SendAgrees'
    BY <1>1, <1>4 DEF SendAgrees, Sending
  <2>4. DecideAgrees'
    BY <1>1, <1>2, <1>4 DEF Operating, DecideAgrees, Rel, Terminal
  <2>5. QED BY <2>1, <2>2, <2>3, <2>4 DEF Operating
<1>5. CASE /\ session[r].state = "SUBMITTED_OR_UNKNOWN"
           /\ session'[r].state = TerminalOf(view)
           /\ session'[r].possibly = 0 /\ session'[r].filled = FilledOf(view)
           /\ \A q \in Releases \ {r} : session'[q] = session[q]
           /\ proc'[p].pc = "close" /\ proc'[p].rel = r /\ proc'[p].view = view
           /\ \A q \in Operators \ {p} : proc'[q] = proc[q]
  <2>1. session'[r].state \in Terminal
    BY <1>5 DEF TerminalOf, Terminal
  <2>2. TokensSpentTogether' /\ PostIsJournaled' /\ PostsAgree'
    BY <1>2, <1>5, <2>1 DEF Durable, TokensSpentTogether, PostIsJournaled, PostsAgree,
                            Opened, Terminal
  <2>3. RowsAgree' /\ PossibleSendRemembered'
    BY <1>1, <1>2, <1>5, <2>1 DEF Durable, RowsAgree, PossibleSendRemembered, Opened, Posted,
                             Terminal, Unresolved
  <2>4. VerdictIsTrue'
    BY <1>1, <1>2, <1>5 DEF Durable, VerdictIsTrue, TerminalOf, FilledOf, FateOf, Verdicts
  <2>5. WorkAgrees'
    BY <1>1, <1>2, <1>5, <2>1 DEF Operating, WorkAgrees, Rel, Opened, Working, Locked,
                                  Sending, Terminal
  <2>6. SendAgrees'
    BY <1>1, <1>5 DEF SendAgrees, Sending
  <2>7. DecideAgrees'
    <3>1. ASSUME NEW q \in Operators, proc'[q].pc \in Deciding
          PROVE  /\ proc'[q].view # "UNKNOWN"
                 /\ order[approvalOf[proc'[q].rel]] = FateOf(proc'[q].view)
                 /\ proc'[q].pc = "close" => session'[proc'[q].rel].state \in Terminal
      <4>1. CASE q = p
        BY <1>1, <1>5, <2>1, <4>1
      <4>2. CASE q # p
        <5>1. proc'[q] = proc[q]
          BY <1>5, <4>2
        <5>2. proc[q].pc # "idle" /\ proc[q].rel \in Releases
          BY <3>1, <5>1 DEF Operating, WorkAgrees, Rel, Deciding
        <5>3. proc[q].rel = r \/ session'[proc[q].rel] = session[proc[q].rel]
          BY <1>5, <5>2
        <5>4. QED BY <2>1, <3>1, <5>1, <5>3 DEF Operating, DecideAgrees, Rel
      <4>3. QED BY <4>1, <4>2
    <3>2. QED BY <1>2, <3>1 DEF DecideAgrees, Rel
  <2>8. QED BY <2>2, <2>3, <2>4, <2>5, <2>6, <2>7 DEF Durable, Operating
<1>6. QED BY <1>3, <1>4, <1>5, FinalizeCases DEF Rel

LEMMA CloseInv ==
  ASSUME TypeOK, IInv, NEW p \in Operators, CloseJournal(p)
  PROVE  IInv'
<1> USE DEF IInv
<1> DEFINE r == Rel(p)
<1>1. /\ r \in Releases /\ approvalOf[r] \in Approvals /\ Opened(r) /\ Posted(r)
      /\ \A q \in Operators : proc[q].pc \notin Sending
  BY DeciderFacts DEF CloseJournal, At, Deciding
<1>2. UNCHANGED <<approval, risk, reserved, budget, session, posts, order, lock>>
  BY DEF CloseJournal, sharedVars, exchangeVars
<1>3. session[r].state \in Terminal
  BY DEF CloseJournal, At, Operating, DecideAgrees, Deciding
<1>4. /\ journal'[r].state = "RECONCILED" /\ journal'[r].sent = 1
      /\ \A q \in Releases \ {r} : journal'[q] = journal[q]
  BY <1>1, TransitionFields DEF CloseJournal
<1>5. /\ proc'[p].pc = "idle" /\ \A q \in Operators \ {p} : proc'[q] = proc[q]
  BY ReturnFields DEF CloseJournal
<1>6. Durable'
  BY <1>1, <1>2, <1>3, <1>4 DEF Durable, TokensSpentTogether, RowsAgree, PostsAgree,
     PostIsJournaled, PossibleSendRemembered, VerdictIsTrue, Opened, Posted
<1>7. WorkAgrees' /\ DecideAgrees'
  BY <1>2, <1>5 DEF Operating, WorkAgrees, DecideAgrees, Rel, Opened, Working, Locked,
                    Sending, Deciding
<1>8. SendAgrees'
  BY <1>1, <1>5 DEF SendAgrees, Sending
<1>9. QED BY <1>6, <1>7, <1>8 DEF Operating

-----------------------------------------------------------------------------
(* The fill counter.                                                       *)

FillInv ==
  \/ fillCount = 0 /\ \A r \in Releases : session[r].filled = 0
  \/ fillCount = 1 /\ \E r \in Releases : session[r].filled = 1

LEMMA FillStep ==
  ASSUME TypeOK, IInv, FillInv, [Next]_vars
  PROVE  FillInv'
<1> USE DEF IInv
<1>1. CASE /\ fillCount' = fillCount
           /\ \A r \in Releases : session'[r].filled = session[r].filled
  BY <1>1 DEF FillInv
<1>2. CASE UNCHANGED vars
  BY <1>1, <1>2 DEF vars
<1>3. CASE Environment
  <2>1. fillCount' = fillCount
    BY <1>3 DEF Environment, IssueApproval, Resolve, Settle, IssueRisk, LoseRisk, Expire,
       ChangeSafety, RecoverSessions, RecoverJournal, sharedVars
  <2>2. UNCHANGED session \/ RecoverSessions
    BY <1>3 DEF Environment, IssueApproval, Resolve, Settle, IssueRisk, LoseRisk, Expire,
       ChangeSafety, RecoverJournal, sharedVars
  <2>3. \A r \in Releases : session'[r].filled = session[r].filled
    BY <2>2 DEF RecoverSessions
  <2>4. QED BY <1>1, <2>1, <2>3
<1>4. ASSUME NEW p \in Operators,
             \/ Quiet(p) \/ ClaimJournal(p) \/ EnterBoundary(p) \/ SignFails(p) \/ Post(p)
             \/ Acknowledge(p) \/ NoAnswer(p) \/ CloseJournal(p)
      PROVE FillInv'
  BY <1>1, <1>4, QuietFrame DEF durableVars, ClaimJournal, EnterBoundary, SignFails, Post,
     Acknowledge, NoAnswer, CloseJournal, sharedVars
<1>5. ASSUME NEW p \in Operators, MarkSubmitted(p)
      PROVE FillInv'
  <2>1. Rel(p) \in Releases /\ fillCount' = fillCount
    BY <1>5, SenderFacts DEF MarkSubmitted, At, Sending
  <2>2. \A r \in Releases : session'[r].filled = session[r].filled
    BY <1>5, <2>1 DEF MarkSubmitted, TypeOK
  <2>3. QED BY <1>1, <2>1, <2>2
<1>6. ASSUME NEW p \in Operators, CommitRelease(p)
      PROVE FillInv'
  <2>1. Rel(p) \in Releases /\ fillCount' = fillCount
    BY <1>6, RelType DEF CommitRelease, At
  <2>2. ~Opened(Rel(p))
    BY <1>6, <2>1 DEF CommitRelease, Committable, TokensUnused, Durable, TokensSpentTogether
  <2>3. \A r \in Releases : session'[r].filled = session[r].filled
    BY <1>6, <2>1, <2>2 DEF CommitRelease, TypeOK, Durable, RowsAgree
  <2>4. QED BY <1>1, <2>1, <2>3
<1>7. ASSUME NEW p \in Operators, FinalizeSession(p)
      PROVE FillInv'
  <2>1. CASE UNCHANGED <<session, fillCount>>
    BY <1>1, <2>1
  <2>2. CASE /\ session[Rel(p)].state = "SUBMITTED_OR_UNKNOWN"
             /\ session'[Rel(p)].filled = FilledOf(proc[p].view)
             /\ \A r \in Releases \ {Rel(p)} : session'[r] = session[r]
             /\ fillCount' = CountFill(session[Rel(p)].filled, FilledOf(proc[p].view))
    <3>1. Rel(p) \in Releases /\ Opened(Rel(p))
      BY <1>7, DeciderFacts DEF FinalizeSession, At, Deciding
    <3>2. session[Rel(p)].filled = 0
      BY <2>2, <3>1 DEF Durable, RowsAgree, Unresolved
    <3>3. \A r \in Releases \ {Rel(p)} : session[r].filled = 0
      BY <3>1 DEF Durable, TokensSpentTogether, RowsAgree
    <3>4. fillCount = 0
      BY <3>1, <3>2, <3>3 DEF FillInv
    <3>5. QED BY <2>2, <3>1, <3>2, <3>3, <3>4 DEF FillInv, CountFill, FilledOf
  <2>3. QED BY <1>7, <2>1, <2>2, FinalizeCases
<1>8. QED BY <1>2, <1>3, <1>4, <1>5, <1>6, <1>7, StepKinds

\* At most one session is open, so at most one is filled.
LEMMA FillCardinality ==
  ASSUME TypeOK, IInv, FillInv
  PROVE  FillCountedOnce
<1> USE DEF IInv
<1> DEFINE F == {r \in Releases : session[r].filled = 1}
<1>1. \A r \in F : Opened(r)
  BY DEF Durable, RowsAgree
<1>2. CASE fillCount = 0 /\ \A r \in Releases : session[r].filled = 0
  <2>1. F = {}
    BY <1>2
  <2>2. QED BY <1>2, <2>1, FS_EmptySet DEF FillCountedOnce
<1>3. CASE fillCount = 1 /\ \E r \in Releases : session[r].filled = 1
  <2>1. PICK r \in Releases : session[r].filled = 1
    BY <1>3
  <2>2. F = {r}
    BY <1>1, <2>1 DEF Durable, TokensSpentTogether
  <2>3. QED BY <1>3, <2>2, FS_Singleton DEF FillCountedOnce
<1>4. QED BY <1>2, <1>3 DEF FillInv

-----------------------------------------------------------------------------
(* The invariant is inductive.                                             *)

LEMMA InvStep ==
  ASSUME TypeOK, IInv, [Next]_vars
  PROVE  IInv'
<1>1. CASE UNCHANGED vars
  BY <1>1, FrameDurable, FrameOperating DEF vars, IInv
<1>2. CASE Next
  BY <1>2, StepKinds, EnvironmentInv, QuietInv, CommitInv, ClaimInv, JournalInv, PostInv,
     MarkInv, FinalizeInv, CloseInv
<1>3. QED BY <1>1, <1>2

\* Every reachable state satisfies the inductive invariant, ...
THEOREM Inductive == Spec => [](TypeOK /\ IInv)
<1>1. Init => TypeOK /\ IInv
  BY InvInit
<1>2. TypeOK /\ IInv /\ [Next]_vars => (TypeOK /\ IInv)'
  BY TypeStep, InvStep DEF IInv
<1>3. QED BY <1>1, <1>2, PTL DEF Spec

\* ... every variable keeps its type, whatever crashes and restarts do, ...
THEOREM TypeCorrect == Spec => []TypeOK
BY Inductive, PTL

\* ... commit_atomic_release spends approval, authorization and budget
\* together and for one release only, ...
THEOREM TokensTogether == Spec => []TokensSpentTogether
<1>1. IInv => TokensSpentTogether
  BY DEF IInv, Durable
<1>2. QED BY <1>1, Inductive, PTL

\* ... a request is on the wire only when the journal says that it may be, ...
THEOREM JournalBeforePost == Spec => []PostIsJournaled
<1>1. IInv => PostIsJournaled
  BY DEF IInv, Durable
<1>2. QED BY <1>1, Inductive, PTL

\* ... and no second request ever is: a posted approval belongs to an open
\* session, of which there is one.
THEOREM OnePost == Spec => []AtMostOnePost
<1>1. IInv => AtMostOnePost
  BY DEF IInv, Durable, PostsAgree, PostIsJournaled, TokensSpentTogether, AtMostOnePost
<1>2. QED BY <1>1, Inductive, PTL

\* Recovery never drops an order that may have been sent.
THEOREM SendRemembered == Spec => []PossibleSendRemembered
<1>1. IInv => PossibleSendRemembered
  BY DEF IInv, Durable
<1>2. QED BY <1>1, Inductive, PTL

\* finalize_reconciliation writes into the session what the exchange did.
THEOREM TrueVerdict == Spec => []VerdictIsTrue
<1>1. IInv => VerdictIsTrue
  BY DEF IInv, Durable
<1>2. QED BY <1>1, Inductive, PTL

\* The journal is marked RECONCILED after the session is terminal.
THEOREM ClosedLast == Spec => []JournalClosedLast
<1>1. IInv => JournalClosedLast
  BY DEF IInv, Durable, RowsAgree, JournalClosedLast
<1>2. QED BY <1>1, Inductive, PTL

\* However often reconciliation repeats, real_fill_count counts a fill once.
THEOREM FillOnce == Spec => []FillCountedOnce
<1>1. Init => FillInv
  BY DEF Init, FillInv
<1>2. TypeOK /\ IInv /\ FillInv /\ [Next]_vars => FillInv'
  BY FillStep
<1>3. TypeOK /\ IInv /\ FillInv => FillCountedOnce
  BY FillCardinality
<1>4. QED BY <1>1, <1>2, <1>3, Inductive, PTL DEF Spec

-----------------------------------------------------------------------------
(* A reconciled journal row is final.                                      *)

LEMMA ReconciledStep ==
  ASSUME TypeOK, IInv, [Next]_vars, NEW r \in Releases, journal[r].state = "RECONCILED"
  PROVE  journal'[r] = journal[r]
<1> USE DEF IInv
<1>1. journal[r].sent = 1 /\ session[r].state \in Terminal
  BY DEF Durable, RowsAgree
<1>2. CASE UNCHANGED journal
  BY <1>2
<1>3. CASE UNCHANGED vars
  BY <1>3 DEF vars
<1>4. CASE Environment
  BY <1>4 DEF Environment, IssueApproval, Resolve, Settle, IssueRisk, LoseRisk, Expire,
              ChangeSafety, RecoverSessions, RecoverJournal
<1>5. ASSUME NEW p \in Operators,
             Quiet(p) \/ CommitRelease(p) \/ Post(p) \/ MarkSubmitted(p) \/ FinalizeSession(p)
      PROVE  journal'[r] = journal[r]
  BY <1>5, QuietFrame DEF durableVars, CommitRelease, Post, MarkSubmitted, FinalizeSession
<1>6. ASSUME NEW p \in Operators, ClaimJournal(p)
      PROVE  journal'[r] = journal[r]
  <2>1. Unclaimed(Rel(p)) => Rel(p) # r
    BY DEF Unclaimed
  <2>2. QED BY <1>6, <2>1 DEF ClaimJournal, TypeOK
<1>7. ASSUME NEW p \in Operators,
             EnterBoundary(p) \/ SignFails(p) \/ Acknowledge(p) \/ NoAnswer(p)
      PROVE  journal'[r] = journal[r]
  <2>1. /\ Rel(p) \in Releases /\ session[Rel(p)].state \in Unresolved
    BY <1>7, SenderFacts DEF EnterBoundary, SignFails, Acknowledge, NoAnswer, At, Sending,
                             Operating, SendAgrees
  <2>2. Rel(p) # r
    BY <1>1, <2>1 DEF Unresolved, Terminal
  <2>3. QED BY <1>7, <2>1, <2>2, TransitionFields
            DEF EnterBoundary, SignFails, Acknowledge, NoAnswer, JournalInputs
<1>8. ASSUME NEW p \in Operators, CloseJournal(p)
      PROVE  journal'[r] = journal[r]
  <2>1. Rel(p) \in Releases
    BY <1>8, DeciderFacts DEF CloseJournal, At, Deciding
  <2>2. CASE Rel(p) # r
    BY <1>8, <2>1, <2>2, TransitionFields DEF CloseJournal
  <2>3. CASE Rel(p) = r
    <3>1. journal[r] = [state |-> "RECONCILED", sent |-> 1]
      BY <1>1 DEF TypeOK, Journal
    <3>2. journal'[r] = [state |-> "RECONCILED", sent |-> 1]
      BY <1>8, <2>3 DEF CloseJournal, Transition, TypeOK
    <3>3. QED BY <3>1, <3>2
  <2>4. QED BY <2>2, <2>3
<1>9. QED BY <1>2, <1>3, <1>4, <1>5, <1>6, <1>7, <1>8, StepKinds

\* Neither a late answer, nor a second reconciliation, nor
\* ProductionJournal.recover moves a row out of RECONCILED.
THEOREM ReconciledForGood == Spec => ReconciledIsFinal
<1>1. TypeOK /\ IInv /\ [Next]_vars =>
        [\A r \in Releases : journal[r].state = "RECONCILED" => journal'[r] = journal[r]]_vars
  BY ReconciledStep
<1>2. QED BY <1>1, Inductive, PTL DEF Spec, ReconciledIsFinal

-----------------------------------------------------------------------------
(* The release implements the one-shot order.                              *)

OpenReleases   == {r \in Releases : Opened(r)}
ClosedReleases == {r \in Releases : session[r].state \in Terminal}
Authorized     == {approvalOf[r] : r \in OpenReleases}
Recorded       == {<<approvalOf[r], OutcomeOf(r)>> : r \in ClosedReleases}

\* Steps that open no session and finish none leave both sets alone.
LEMMA SameSessions ==
  ASSUME \A r \in Releases :
           /\ session'[r].state = "NONE" <=> session[r].state = "NONE"
           /\ session'[r].state \in Terminal <=> session[r].state \in Terminal
           /\ session[r].state \in Terminal => session'[r] = session[r]
  PROVE  Authorized' = Authorized /\ Recorded' = Recorded
<1>1. OpenReleases' = OpenReleases /\ ClosedReleases' = ClosedReleases
  BY DEF OpenReleases, ClosedReleases, Opened
<1>2. \A r \in ClosedReleases : (OutcomeOf(r))' = OutcomeOf(r)
  BY DEF ClosedReleases, OutcomeOf
<1>3. Authorized' = Authorized
  BY <1>1 DEF Authorized
<1>4. Recorded' = Recorded
  BY <1>1, <1>2 DEF Recorded
<1>5. QED BY <1>3, <1>4

AbstractStutter == UNCHANGED <<Authorized, posts, order, Recorded>>

LEMMA EnvironmentRefines ==
  ASSUME TypeOK, IInv, Environment
  PROVE  AbstractStutter \/ \E a \in Approvals : OneShot!Decide(a)
<1>1. CASE RecoverSessions
  <2>1. Authorized' = Authorized /\ Recorded' = Recorded
    BY <1>1, SameSessions DEF RecoverSessions, Terminal, IInv, Durable, RowsAgree, Opened
  <2>2. QED BY <1>1, <2>1 DEF AbstractStutter, RecoverSessions, exchangeVars
<1>2. CASE UNCHANGED session
  <2>1. Authorized' = Authorized /\ Recorded' = Recorded
    BY <1>2, SameSessions
  <2>2. CASE UNCHANGED <<posts, order>>
    BY <2>1, <2>2 DEF AbstractStutter
  <2>3. CASE \E a \in Approvals : Resolve(a)
    <3>1. PICK a \in Approvals : Resolve(a)
      BY <2>3
    <3>2. OneShot!Decide(a)
      BY <2>1, <3>1 DEF Resolve, OneShot!Decide, OneShot!Fates, OneShot!Outcomes,
                        Authorized, OpenReleases, Recorded, ClosedReleases
    <3>3. QED BY <3>2
  <2>4. QED BY <1>2, <2>2, <2>3 DEF Environment, IssueApproval, Settle, IssueRisk, LoseRisk,
                   Expire, ChangeSafety, RecoverSessions, RecoverJournal, exchangeVars
<1>3. QED BY <1>1, <1>2 DEF Environment, IssueApproval, Resolve, Settle, IssueRisk, LoseRisk,
                   Expire, ChangeSafety, RecoverJournal, sharedVars

\* The commit authorizes: no session is open before it, one after it.
LEMMA CommitRefines ==
  ASSUME TypeOK, IInv, NEW p \in Operators, CommitRelease(p),
         NEW a \in Approvals, a = approvalOf[Rel(p)]
  PROVE  OneShot!Authorize(a)
<1> DEFINE r == Rel(p)
<1>1. r \in Releases
  BY RelType DEF CommitRelease, At, IInv
<1>2. OpenReleases = {}
  BY DEF CommitRelease, Committable, TokensUnused, OpenReleases, IInv, Durable,
         TokensSpentTogether
<1>3. \A q \in Releases : session'[q].state =
        IF q = r THEN "SUBMISSION_PENDING" ELSE session[q].state
  BY <1>1 DEF CommitRelease, TypeOK
<1>4. OpenReleases' = {r} /\ ClosedReleases = {} /\ ClosedReleases' = {}
  BY <1>1, <1>2, <1>3 DEF OpenReleases, ClosedReleases, Opened, Terminal
<1>5. Authorized = {} /\ Authorized' = {a}
  BY <1>2, <1>4 DEF Authorized
<1>6. Recorded = {} /\ Recorded' = {}
  BY <1>4 DEF Recorded
<1>7. UNCHANGED <<posts, order>>
  BY DEF CommitRelease, exchangeVars
<1>8. QED BY <1>5, <1>6, <1>7 DEF OneShot!Authorize, Authorized, OpenReleases,
                                        Recorded, ClosedReleases

LEMMA PostRefines ==
  ASSUME TypeOK, IInv, NEW p \in Operators, Post(p),
         NEW a \in Approvals, a = approvalOf[Rel(p)]
  PROVE  OneShot!Send(a)
<1> USE DEF IInv
<1> DEFINE r == Rel(p)
<1>1. r \in Releases /\ Opened(r) /\ ~Posted(r)
  BY SenderFacts DEF Post, At, Sending, Operating, SendAgrees, WorkAgrees, Working, Steps
<1>2. \A b \in Approvals : posts[b] = 0
  BY <1>1 DEF Durable, PostIsJournaled, TokensSpentTogether, Posted, TypeOK
<1>3. order[a] = "none"
  BY <1>1, <1>2 DEF Durable, PostsAgree
<1>4. posts' = [posts EXCEPT ![a] = 1] /\ order' = [order EXCEPT ![a] = "wire"]
  <2>1. posts[a] + 1 = 1
    BY <1>2
  <2>2. QED BY <1>3, <2>1 DEF Post
<1>5. Authorized' = Authorized /\ Recorded' = Recorded
  BY SameSessions DEF Post, sharedVars
<1>6. a \in Authorized
  BY <1>1 DEF Authorized, OpenReleases
<1>7. QED BY <1>2, <1>4, <1>5, <1>6 DEF OneShot!Send, Authorized, OpenReleases,
                                             Recorded, ClosedReleases

\* The first finalization records; a repeated one stutters.
LEMMA FinalizeRefines ==
  ASSUME TypeOK, IInv, NEW p \in Operators, FinalizeSession(p),
         NEW r \in Releases, r = Rel(p), NEW a \in Approvals, a = approvalOf[r]
  PROVE  AbstractStutter \/ OneShot!Record(a)
<1> USE DEF IInv
<1> DEFINE view == proc[p].view
<1>1. /\ Opened(r)
      /\ view \in Verdicts \ {"UNKNOWN"} /\ order[a] = FateOf(view)
  BY DeciderFacts DEF FinalizeSession, At, Deciding
<1>2. UNCHANGED <<posts, order>>
  BY DEF FinalizeSession, exchangeVars
<1>3. CASE UNCHANGED session
  BY <1>2, <1>3, SameSessions DEF AbstractStutter
<1>4. CASE /\ session[r].state = "SUBMITTED_OR_UNKNOWN"
           /\ session'[r].state = TerminalOf(view)
           /\ session'[r].filled = FilledOf(view)
           /\ \A q \in Releases \ {r} : session'[q] = session[q]
  <2>1. \A q \in Releases \ {r} : session[q].state = "NONE"
    BY <1>1 DEF Durable, TokensSpentTogether, Opened
  <2>2. session'[r].state \in Terminal
    BY <1>4 DEF TerminalOf, Terminal
  <2>3. OpenReleases = {r} /\ OpenReleases' = {r}
    BY <1>1, <1>4, <2>1, <2>2 DEF OpenReleases, Opened, Terminal
  <2>4. ClosedReleases = {} /\ ClosedReleases' = {r}
    BY <1>1, <1>4, <2>1, <2>2 DEF ClosedReleases, Terminal
  <2>5. (OutcomeOf(r))' = order[a] /\ order[a] \in OneShot!Outcomes
    <3>1. CASE view = "FILLED"
      BY <1>1, <1>4, <3>1 DEF OutcomeOf, FateOf, TerminalOf, FilledOf, OneShot!Outcomes
    <3>2. CASE view = "FILLED_POLICY_VIOLATION"
      <4>1. session'[r].state = "CANARY_FAILED" /\ order[a] = "overpaid"
        BY <1>1, <1>4, <3>2 DEF FateOf, TerminalOf
      <4>2. (OutcomeOf(r))' = "overpaid"
        BY <4>1 DEF OutcomeOf
      <4>3. QED BY <4>1, <4>2 DEF OneShot!Outcomes
    <3>3. CASE view = "NO_FILL"
      BY <1>1, <1>4, <3>3 DEF OutcomeOf, FateOf, TerminalOf, FilledOf, OneShot!Outcomes
    <3>4. QED BY <1>1, <3>1, <3>2, <3>3 DEF Verdicts
  <2>6. Recorded = {} /\ Recorded' = {<<a, order[a]>>}
    <3>1. Recorded' = {<<approvalOf[q], (OutcomeOf(q))'>> : q \in ClosedReleases'}
      BY DEF Recorded
    <3>2. QED BY <2>4, <2>5, <3>1 DEF Recorded
  <2>7. Authorized' = Authorized
    BY <2>3 DEF Authorized
  <2>8. OneShot!Record(a)
    BY <1>2, <2>5, <2>6, <2>7 DEF OneShot!Record, Authorized, OpenReleases, Recorded,
                                  ClosedReleases
  <2>9. QED BY <2>8
<1>5. QED BY <1>3, <1>4, FinalizeCases

LEMMA OtherRefines ==
  ASSUME TypeOK, IInv, NEW p \in Operators,
         \/ Quiet(p) \/ ClaimJournal(p) \/ EnterBoundary(p) \/ SignFails(p)
         \/ Acknowledge(p) \/ NoAnswer(p) \/ MarkSubmitted(p) \/ CloseJournal(p)
  PROVE  AbstractStutter
<1>1. UNCHANGED <<posts, order>>
  BY QuietFrame DEF durableVars, ClaimJournal, EnterBoundary, SignFails, Acknowledge,
                    NoAnswer, MarkSubmitted, CloseJournal, exchangeVars
<1>2. CASE MarkSubmitted(p)
  <2>1. Rel(p) \in Releases
    BY <1>2, SenderFacts DEF MarkSubmitted, At, Sending
  <2>2. Authorized' = Authorized /\ Recorded' = Recorded
    BY <1>2, <2>1, SameSessions DEF MarkSubmitted, TypeOK, Terminal
  <2>3. QED BY <1>1, <2>2 DEF AbstractStutter
<1>3. CASE UNCHANGED session
  BY <1>1, <1>3, SameSessions DEF AbstractStutter
<1>4. QED BY <1>2, <1>3, QuietFrame DEF durableVars, ClaimJournal, EnterBoundary, SignFails,
                    Acknowledge, NoAnswer, CloseJournal, sharedVars

LEMMA StepRefines ==
  ASSUME TypeOK, IInv, [Next]_vars
  PROVE  [OneShot!Next]_OneShot!vars
<1>1. AbstractStutter => UNCHANGED OneShot!vars
  BY DEF AbstractStutter, OneShot!vars, Authorized, OpenReleases, Recorded, ClosedReleases
<1>2. CASE UNCHANGED vars
  BY <1>1, <1>2, SameSessions DEF vars, AbstractStutter
<1>3. CASE Next
  <2>1. CASE Environment
    BY <1>1, <2>1, EnvironmentRefines DEF OneShot!Next
  <2>2. ASSUME NEW p \in Operators, CommitRelease(p) \/ Post(p) \/ FinalizeSession(p)
        PROVE  [OneShot!Next]_OneShot!vars
    <3>1. PICK r \in Releases, a \in Approvals : r = Rel(p) /\ a = approvalOf[r]
      BY <2>2, RelType DEF CommitRelease, Post, FinalizeSession, At, IInv
    <3>2. AbstractStutter \/ OneShot!Authorize(a) \/ OneShot!Send(a) \/ OneShot!Record(a)
      BY <2>2, <3>1, CommitRefines, PostRefines, FinalizeRefines
    <3>3. QED BY <1>1, <3>2 DEF OneShot!Next
  <2>3. ASSUME NEW p \in Operators,
               \/ Quiet(p) \/ ClaimJournal(p) \/ EnterBoundary(p) \/ SignFails(p)
               \/ Acknowledge(p) \/ NoAnswer(p) \/ MarkSubmitted(p) \/ CloseJournal(p)
        PROVE  [OneShot!Next]_OneShot!vars
    BY <1>1, <2>3, OtherRefines
  <2>4. QED BY <1>3, <2>1, <2>2, <2>3, StepKinds
<1>4. QED BY <1>2, <1>3

\* Sessions, journal, crashes and recovery together are one authorized order,
\* sent at most once, decided by the exchange and recorded as it was decided.
THEOREM Refinement == Spec => ImplementsOneShot
<1>1. Init => OneShot!Init
  <2>1. ASSUME Init
        PROVE  OpenReleases = {} /\ ClosedReleases = {}
    BY <2>1 DEF Init, OpenReleases, ClosedReleases, Opened, Terminal
  <2>2. QED BY <2>1 DEF Init, OneShot!Init, OpenReleases, ClosedReleases
<1>2. TypeOK /\ IInv /\ [Next]_vars => [OneShot!Next]_OneShot!vars
  BY StepRefines
<1>3. QED BY <1>1, <1>2, Inductive, PTL DEF Spec, ImplementsOneShot, OneShot!Spec
=============================================================================
