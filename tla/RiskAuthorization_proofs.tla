----------------------- MODULE RiskAuthorization_proofs -----------------------
(***************************************************************************)
(* Proofs about the authorization store, for any number of orders and of   *)
(* callers, any caps and any clock bound.                                  *)
(***************************************************************************)
EXTENDS RiskAuthorization, FiniteSetTheorems, TLAPS

USE RiskAssumption

\* The earlier of two expiries is one of them.
LEMMA MinOfTwo ==
  ASSUME NEW a \in Nat, NEW b \in Nat
  PROVE  Min({a, b}) \in {a, b}
<1>1. \E x \in {a, b} : \A y \in {a, b} : x <= y
  BY a <= b \/ b <= a
<1>2. QED BY <1>1 DEF Min

\* An ISSUED row is a full row.
LEMMA IssuedRow ==
  ASSUME TypeOK, NEW o \in Issued
  PROVE  o \in Orders /\ auth[o] \in Authorization
BY DEF TypeOK, Issued, NoRow

\* _expire, the halt and the two transactions only ever relabel rows.
LEMMA WithStateType ==
  ASSUME TypeOK, NEW S \in SUBSET Issued, NEW st \in AuthorizationState
  PROVE  /\ WithState(S, st) \in [Orders -> Authorization \cup {NoRow}]
         /\ \A o \in S : WithState(S, st)[o].state = st
         /\ \A o \in Orders \ S : WithState(S, st)[o] = auth[o]
<1>1. ASSUME NEW o \in S
      PROVE  /\ [auth[o] EXCEPT !.state = st] \in Authorization
             /\ [auth[o] EXCEPT !.state = st].state = st
  <2>1. auth[o] \in Authorization
    BY <1>1, IssuedRow
  <2>2. QED BY <2>1 DEF Authorization
<1>2. QED BY <1>1 DEF WithState, TypeOK, Issued
-----------------------------------------------------------------------------
(***************************************************************************)
(* Type correctness.                                                       *)
(***************************************************************************)
\* _expire leaves every row alone that is not ISSUED.
LEMMA ExpiredRows ==
  ASSUME TypeOK, NEW at
  PROVE  /\ WithState(Overdue(at), "EXPIRED") \in [Orders -> Authorization \cup {NoRow}]
         /\ \A o \in Orders \ Issued : WithState(Overdue(at), "EXPIRED")[o] = auth[o]
<1>1. Overdue(at) \in SUBSET Issued
  BY DEF Overdue
<1>2. QED BY <1>1, WithStateType DEF AuthorizationState

LEMMA CallFields ==
  ASSUME TypeOK, NEW p \in Callers
  PROVE  /\ call[p].op = "issue" =>
              /\ call[p].at \in Time /\ call[p].order \in Orders
              /\ call[p].decision \in Decision
         /\ call[p].op = "consume" =>
              /\ call[p].at \in Time /\ call[p].order \in Orders
         /\ call[p].op = "summary" => call[p].at \in Time
BY DEF TypeOK, Call, Idle

LEMMA OverdueIssued ==
  ASSUME NEW at PROVE Overdue(at) \subseteq Issued
BY DEF Overdue

LEMMA ExpireType ==
  ASSUME TypeOK, NEW at, ExpireOverdue(at),
         call' \in [Callers -> Call]
  PROVE  TypeOK'
<1>1. auth' \in [Orders -> Authorization \cup {NoRow}]
  BY OverdueIssued, WithStateType DEF ExpireOverdue, AuthorizationState
<1>2. active' \subseteq Orders
  BY DEF ExpireOverdue, TypeOK
<1>3. QED BY <1>1, <1>2 DEF ExpireOverdue, TypeOK, accountVars, history

LEMMA ReturnType ==
  ASSUME TypeOK, NEW p \in Callers, Return(p)
  PROVE  call' \in [Callers -> Call]
BY DEF TypeOK, Return, Call

LEMMA TypeInit == Init => TypeOK
<1> SUFFICES ASSUME Init PROVE TypeOK
  OBVIOUS
<1>1. 0 \in Time /\ MaxTime + TTL \in Nat
  BY DEF Time
<1>2. decision \in [Orders -> Decision]
  BY <1>1 DEF Init, Decision, NoDecision
<1>3. call \in [Callers -> Call]
  BY DEF Init, Call
<1>4. QED BY <1>1, <1>2, <1>3 DEF Init, TypeOK, ComplianceState

LEMMA TypeStep == TypeOK /\ [Next]_vars => TypeOK'
<1> SUFFICES ASSUME TypeOK, [Next]_vars PROVE TypeOK'
  OBVIOUS
<1> USE DEF accountVars, history, storeVars
<1>1. CASE Tick
  BY <1>1 DEF Tick, TypeOK, Time
<1>2. ASSUME NEW o \in Orders, NEW s \in safety, Decide(o, s) PROVE TypeOK'
  <2>1. [expires |-> now + TTL, portfolio |-> seen, held |-> s.held] \in Decision
    BY DEF TypeOK, Time, Decision, SafetyState
  <2>2. decision' \in [Orders -> Decision]
    BY <1>2, <2>1 DEF Decide, TypeOK
  <2>3. QED BY <1>2, <2>2 DEF Decide, TypeOK
<1>3. ASSUME NEW p \in Callers, NEW o \in Orders, IssueCall(p, o) PROVE TypeOK'
  <2>1. call' \in [Callers -> Call]
    BY <1>3 DEF IssueCall, TypeOK, Call
  <2>2. QED BY <1>3, <2>1 DEF IssueCall, TypeOK
<1>4. ASSUME NEW p \in Callers, NEW o \in Orders, ConsumeCall(p, o) PROVE TypeOK'
  <2>1. call' \in [Callers -> Call]
    BY <1>4 DEF ConsumeCall, TypeOK, Call
  <2>2. QED BY <1>4, <2>1 DEF ConsumeCall, TypeOK
<1>5. ASSUME NEW p \in Callers, Issue(p) PROVE TypeOK'
  <2> DEFINE c == call[p]
  <2>1. /\ c.at \in Time /\ c.order \in Orders
        /\ c.decision \in Decision
    BY <1>5, CallFields DEF Issue, HoldsLock
  <2>2. Min({c.decision.expires, c.at + TTL}) \in 0 .. MaxTime + TTL
    <3>1. c.decision.expires \in Nat /\ c.at + TTL \in Nat
      BY <2>1 DEF Decision, Time
    <3>2. Min({c.decision.expires, c.at + TTL}) \in {c.decision.expires, c.at + TTL}
      BY <3>1, MinOfTwo
    <3>3. c.decision.expires \in 0 .. MaxTime + TTL /\ c.at + TTL \in 0 .. MaxTime + TTL
      BY <2>1 DEF Decision, Time
    <3>4. QED BY <3>2, <3>3
  <2> DEFINE row == [state |-> "ISSUED",
                     expires |-> Min({c.decision.expires, c.at + TTL}),
                     portfolio |-> c.decision.portfolio, held |-> c.decision.held]
  <2>3. row \in Authorization
    BY <2>1, <2>2 DEF Authorization, AuthorizationState, Decision
  <2>4. WithState(Overdue(c.at), "EXPIRED") \in [Orders -> Authorization \cup {NoRow}]
    BY OverdueIssued, WithStateType DEF AuthorizationState
  <2>5. auth' = [WithState(Overdue(c.at), "EXPIRED") EXCEPT ![c.order] = row]
    BY <1>5 DEF Issue
  <2>6. auth' \in [Orders -> Authorization \cup {NoRow}]
    BY <2>1, <2>3, <2>4, <2>5
  <2>7. active' \subseteq Orders
    BY <1>5, <2>1 DEF Issue, TypeOK
  <2>8. call' \in [Callers -> Call]
    BY <1>5, ReturnType DEF Issue
  <2>9. QED BY <1>5, <2>6, <2>7, <2>8 DEF Issue, TypeOK
<1>6. ASSUME NEW p \in Callers, IssueRefused(p) PROVE TypeOK'
  <2>1. call' \in [Callers -> Call]
    BY <1>6, ReturnType DEF IssueRefused
  <2>2. QED BY <1>6, <2>1 DEF IssueRefused, TypeOK
<1>7. ASSUME NEW p \in Callers, Consume(p) PROVE TypeOK'
  <2> DEFINE c == call[p]
  <2>1. c.at \in Time /\ c.order \in Issued \ Overdue(c.at)
    BY <1>7, CallFields DEF Consume, HoldsLock, Consumable
  <2>2. /\ WithState(Overdue(c.at), "EXPIRED") \in [Orders -> Authorization \cup {NoRow}]
        /\ WithState(Overdue(c.at), "EXPIRED")[c.order] = auth[c.order]
    BY <2>1, OverdueIssued, WithStateType DEF AuthorizationState, Issued
  <2>3. [auth[c.order] EXCEPT !.state = "CONSUMED"] \in Authorization
    <3>1. auth[c.order] \in Authorization
      BY <2>1, IssuedRow
    <3>2. QED BY <3>1 DEF Authorization, AuthorizationState
  <2>4. auth' = [WithState(Overdue(c.at), "EXPIRED") EXCEPT ![c.order].state = "CONSUMED"]
    BY <1>7 DEF Consume
  <2>5. auth' \in [Orders -> Authorization \cup {NoRow}]
    BY <2>2, <2>3, <2>4
  <2>6. active' \subseteq Orders /\ open' \subseteq Orders /\ grants' \in [Orders -> Nat]
    BY <1>7, <2>1 DEF Consume, TypeOK, Issued
  <2>7. call' \in [Callers -> Call]
    BY <1>7, ReturnType DEF Consume
  <2>8. QED BY <1>7, <2>5, <2>6, <2>7 DEF Consume, TypeOK
<1>8. ASSUME NEW p \in Callers, ConsumeRefused(p) PROVE TypeOK'
  BY <1>8, ReturnType, ExpireType DEF ConsumeRefused
<1>9. ASSUME NEW p \in Callers, SummaryCall(p) PROVE TypeOK'
  <2>1. call' \in [Callers -> Call]
    BY <1>9 DEF SummaryCall, TypeOK, Call
  <2>2. QED BY <1>9, <2>1 DEF SummaryCall, TypeOK
<1>10. ASSUME NEW p \in Callers, Summary(p) PROVE TypeOK'
  BY <1>10, ReturnType, ExpireType DEF Summary
<1>11. ASSUME NEW p \in Callers, Abandon(p) PROVE TypeOK'
  <2>1. call' \in [Callers -> Call]
    BY <1>11, ReturnType DEF Abandon
  <2>2. QED BY <1>11, <2>1 DEF Abandon, TypeOK
<1>12. ASSUME NEW s \in ComplianceState, SetCompliance(s) PROVE TypeOK'
  BY <1>12 DEF SetCompliance, TypeOK
<1>13. CASE ActivateGlobalHalt
  <2>1. auth' \in [Orders -> Authorization \cup {NoRow}]
    BY <1>13, WithStateType DEF ActivateGlobalHalt, AuthorizationState
  <2>2. QED BY <1>13, <2>1 DEF ActivateGlobalHalt, TypeOK, Issued
<1>14. CASE ResetGlobalHalt
  BY <1>14 DEF ResetGlobalHalt, TypeOK
<1>15. ASSUME NEW k \in KillCategories, NEW killed \in BOOLEAN, SetKillState(k, killed)
       PROVE TypeOK'
  <2>1. kill' \subseteq KillCategories
    BY <1>15 DEF SetKillState, TypeOK
  <2>2. QED BY <1>15, <2>1 DEF SetKillState, TypeOK
<1>16. ASSUME NEW W \in SUBSET LossWindows, RecordLossState(W) PROVE TypeOK'
  <2>1. everHeld' \subseteq LossWindows /\ holds' \subseteq LossWindows
    BY <1>16 DEF RecordLossState, TypeOK
  <2>2. QED BY <1>16, <2>1 DEF RecordLossState, TypeOK
<1>17. CASE RefreshSnapshot
  BY <1>17 DEF RefreshSnapshot, TypeOK
<1>18. CASE UNCHANGED vars
  BY <1>18 DEF vars, TypeOK
<1>19. CASE ReadSafety
  <2>1. safety' \subseteq SafetyState
    BY <1>19 DEF ReadSafety, TypeOK, SafetyState
  <2>2. QED BY <1>19, <2>1 DEF ReadSafety, TypeOK
<1>20. QED
  BY <1>1, <1>2, <1>3, <1>4, <1>5, <1>6, <1>7, <1>8, <1>9, <1>10, <1>11, <1>12,
     <1>13, <1>14, <1>15, <1>16, <1>17, <1>18, <1>19 DEF Next

\* Every reachable state of the store is well typed: states obey the schema's
\* CHECK constraints and a captured call only names known orders and times.
THEOREM TypeCorrect == Spec => []TypeOK
BY TypeInit, TypeStep, PTL DEF Spec
-----------------------------------------------------------------------------
(***************************************************************************)
(* Reservations, halts and grants.  GrantedOnce is not inductive: that a   *)
(* granted order is never granted again rests on its row being CONSUMED,   *)
(* and that a caught one is never granted on its row being REVOKED.        *)
(***************************************************************************)
GrantsFollowRows ==
  /\ \A o \in Orders : grants[o] = IF auth[o].state = "CONSUMED" THEN 1 ELSE 0
  /\ \A o \in caught : auth[o].state = "REVOKED"

IInv == ReservationIffIssued /\ NothingIssuedInHalt /\ GrantsFollowRows

\* What relabelling ISSUED rows as st does to the other rows and to Issued.
LEMMA Relabelled ==
  ASSUME TypeOK, NEW S \in SUBSET Issued, NEW st \in {"EXPIRED", "REVOKED"},
         auth' = WithState(S, st)
  PROVE  /\ Issued' = Issued \ S
         /\ \A o \in Orders \ S : auth'[o] = auth[o]
         /\ \A o \in S : auth[o].state = "ISSUED" /\ auth'[o].state = st
<1>1. \A o \in S : auth[o].state = "ISSUED"
  BY DEF Issued
<1>2. \A o \in S : auth'[o].state = st
  BY WithStateType DEF AuthorizationState
<1>3. \A o \in Orders \ S : auth'[o] = auth[o]
  BY WithStateType DEF AuthorizationState
<1>4. QED BY <1>1, <1>2, <1>3 DEF Issued

LEMMA ExpireKeepsIInv ==
  ASSUME TypeOK, IInv, NEW at, ExpireOverdue(at)
  PROVE  IInv'
<1>1. /\ Issued' = Issued \ Overdue(at)
      /\ \A o \in Orders \ Overdue(at) : auth'[o] = auth[o]
      /\ \A o \in Overdue(at) : auth[o].state = "ISSUED" /\ auth'[o].state = "EXPIRED"
  BY OverdueIssued, Relabelled DEF ExpireOverdue
<1>2. ReservationIffIssued'
  BY <1>1 DEF IInv, ReservationIffIssued, ExpireOverdue
<1>3. NothingIssuedInHalt'
  BY <1>1 DEF IInv, NothingIssuedInHalt, ExpireOverdue
<1>4. GrantsFollowRows'
  BY <1>1 DEF IInv, GrantsFollowRows, ExpireOverdue, history, TypeOK
<1>5. QED BY <1>2, <1>3, <1>4 DEF IInv

LEMMA IssueKeepsIInv ==
  ASSUME TypeOK, IInv, NEW p \in Callers, Issue(p)
  PROVE  IInv'
<1> DEFINE c == call[p]
           E == Overdue(c.at)
           W == WithState(E, "EXPIRED")
<1>1. c.order \in Orders /\ auth[c.order] = NoRow /\ ~halt /\ halt' = halt
  BY CallFields DEF Issue, HoldsLock, Issuable
<1>2. c.order \notin Issued /\ E \subseteq Issued
  BY <1>1, OverdueIssued DEF Issued, NoRow
<1>3. /\ W \in [Orders -> Authorization \cup {NoRow}]
      /\ \A o \in E : W[o].state = "EXPIRED"
      /\ \A o \in Orders \ E : W[o] = auth[o]
  BY <1>2, WithStateType DEF AuthorizationState
<1>4. /\ auth'[c.order].state = "ISSUED"
      /\ \A o \in Orders \ {c.order} : auth'[o] = W[o]
  BY <1>1, <1>3 DEF Issue
<1>5. \A o \in E : auth[o].state = "ISSUED" /\ W[o].state = "EXPIRED"
  BY <1>2, <1>3 DEF Issued
<1>6. Issued' = (Issued \ E) \cup {c.order}
  BY <1>1, <1>2, <1>3, <1>4, <1>5 DEF Issued
<1>7. ReservationIffIssued'
  BY <1>6 DEF IInv, ReservationIffIssued, Issue
<1>8. NothingIssuedInHalt'
  BY <1>1 DEF NothingIssuedInHalt
<1>9. auth[c.order].state # "CONSUMED" /\ auth[c.order].state # "REVOKED"
  BY <1>1 DEF NoRow
<1>10. caught' = caught /\ grants' = grants /\ caught \subseteq Orders
  BY DEF Issue, history, TypeOK
<1>11. \A o \in Orders : /\ auth'[o].state = "CONSUMED" <=> auth[o].state = "CONSUMED"
                         /\ auth[o].state = "REVOKED" => auth'[o].state = "REVOKED"
  BY <1>1, <1>3, <1>4, <1>5, <1>9
<1>12. GrantsFollowRows'
  BY <1>10, <1>11 DEF IInv, GrantsFollowRows
<1>13. QED BY <1>7, <1>8, <1>12 DEF IInv

LEMMA ConsumeKeepsIInv ==
  ASSUME TypeOK, IInv, NEW p \in Callers, Consume(p)
  PROVE  IInv'
<1> DEFINE c == call[p]
           E == Overdue(c.at)
           W == WithState(E, "EXPIRED")
<1>1. c.order \in Issued \ E /\ c.order \in Orders /\ halt' = halt
  BY DEF Consume, Consumable, Issued
<1>2. E \subseteq Issued
  BY OverdueIssued
<1>3. /\ W \in [Orders -> Authorization \cup {NoRow}]
      /\ \A o \in E : W[o].state = "EXPIRED"
      /\ \A o \in Orders \ E : W[o] = auth[o]
  BY <1>2, WithStateType DEF AuthorizationState
<1>4. /\ W[c.order] \in Authorization /\ auth[c.order].state = "ISSUED"
  BY <1>1, <1>3, IssuedRow DEF Issued
<1>5. /\ auth'[c.order].state = "CONSUMED"
      /\ \A o \in Orders \ {c.order} : auth'[o] = W[o]
  BY <1>1, <1>3, <1>4 DEF Consume, Authorization
<1>6. \A o \in E : auth[o].state = "ISSUED" /\ W[o].state = "EXPIRED"
  BY <1>2, <1>3 DEF Issued
<1>7. Issued' = Issued \ (E \cup {c.order})
  BY <1>1, <1>2, <1>3, <1>5, <1>6 DEF Issued
<1>8. ReservationIffIssued'
  BY <1>7 DEF IInv, ReservationIffIssued, Consume
<1>9. NothingIssuedInHalt'
  BY <1>1, <1>7 DEF IInv, NothingIssuedInHalt
<1>10. /\ caught' = caught /\ caught \subseteq Orders
       /\ grants \in [Orders -> Nat]
       /\ grants' = [grants EXCEPT ![c.order] = @ + 1]
  BY DEF Consume, TypeOK
<1>11. c.order \notin caught /\ grants[c.order] = 0
  BY <1>1, <1>4 DEF IInv, GrantsFollowRows
<1>12. \A o \in Orders : grants'[o] = IF auth'[o].state = "CONSUMED" THEN 1 ELSE 0
  BY <1>1, <1>3, <1>5, <1>6, <1>10, <1>11 DEF IInv, GrantsFollowRows
<1>13. \A o \in caught' : auth'[o].state = "REVOKED"
  BY <1>1, <1>2, <1>3, <1>5, <1>6, <1>10, <1>11 DEF IInv, GrantsFollowRows
<1>14. QED BY <1>8, <1>9, <1>12, <1>13 DEF IInv, GrantsFollowRows

LEMMA HaltKeepsIInv ==
  ASSUME TypeOK, IInv, ActivateGlobalHalt
  PROVE  IInv'
<1>1. /\ Issued' = {}
      /\ \A o \in Orders \ Issued : auth'[o] = auth[o]
      /\ \A o \in Issued : auth[o].state = "ISSUED" /\ auth'[o].state = "REVOKED"
  BY Relabelled DEF ActivateGlobalHalt
<1>2. ReservationIffIssued' /\ NothingIssuedInHalt'
  BY <1>1 DEF ReservationIffIssued, NothingIssuedInHalt, ActivateGlobalHalt
<1>3. GrantsFollowRows'
  BY <1>1 DEF IInv, GrantsFollowRows, ActivateGlobalHalt, TypeOK, Issued
<1>4. QED BY <1>2, <1>3 DEF IInv

LEMMA IInvStep == TypeOK /\ IInv /\ [Next]_vars => IInv'
<1> SUFFICES ASSUME TypeOK, IInv, [Next]_vars PROVE IInv'
  OBVIOUS
<1> DEFINE Unmoved == UNCHANGED <<halt, auth, active, grants, caught>>
<1>1. Unmoved \/ (UNCHANGED <<auth, active, grants, caught>> /\ ~halt') => IInv'
  BY DEF IInv, ReservationIffIssued, NothingIssuedInHalt, GrantsFollowRows, Issued
<1>2. ASSUME NEW p \in Callers, NEW o \in Orders, IssueCall(p, o) \/ ConsumeCall(p, o)
      PROVE  Unmoved
  BY <1>2 DEF IssueCall, ConsumeCall, storeVars, history
<1>3. ASSUME NEW p \in Callers, Issue(p) PROVE IInv'
  BY <1>3, IssueKeepsIInv
<1>4. ASSUME NEW p \in Callers, Consume(p) PROVE IInv'
  BY <1>4, ConsumeKeepsIInv
<1>5. ASSUME NEW p \in Callers, ConsumeRefused(p) \/ Summary(p) PROVE IInv'
  BY <1>5, ExpireKeepsIInv DEF ConsumeRefused, Summary
<1>6. ASSUME NEW p \in Callers, IssueRefused(p) \/ SummaryCall(p) \/ Abandon(p)
      PROVE  Unmoved
  BY <1>6 DEF IssueRefused, SummaryCall, Abandon, storeVars, history
<1>7. CASE ActivateGlobalHalt
  BY <1>7, HaltKeepsIInv
<1>8. CASE ResetGlobalHalt
  BY <1>1, <1>8 DEF ResetGlobalHalt, history
<1>9. CASE \/ Tick \/ RefreshSnapshot \/ ReadSafety
           \/ \E o \in Orders, s \in safety : Decide(o, s)
           \/ \E s \in ComplianceState : SetCompliance(s)
           \/ \E k \in KillCategories, killed \in BOOLEAN : SetKillState(k, killed)
           \/ \E W \in SUBSET LossWindows : RecordLossState(W)
           \/ UNCHANGED vars
  <2>1. Unmoved
    BY <1>9 DEF Tick, RefreshSnapshot, ReadSafety, Decide, SetCompliance, SetKillState,
       RecordLossState, vars, storeVars, history
  <2>2. QED BY <1>1, <2>1
<1>10. QED
  BY <1>1, <1>2, <1>3, <1>4, <1>5, <1>6, <1>7, <1>8, <1>9 DEF Next

LEMMA IInvInit == Init => IInv
BY DEF Init, IInv, ReservationIffIssued, NothingIssuedInHalt, GrantsFollowRows, Issued, NoRow

LEMMA Inductive == Spec => [](TypeOK /\ IInv)
<1>1. Init => TypeOK /\ IInv
  BY TypeInit, IInvInit
<1>2. TypeOK /\ IInv /\ [Next]_vars => (TypeOK /\ IInv)'
  BY TypeStep, IInvStep
<1>3. QED BY <1>1, <1>2, PTL DEF Spec

\* Whatever the callers do, capacity is reserved exactly for ISSUED rows.
THEOREM ReservationsFollowIssued == Spec => []ReservationIffIssued
BY Inductive, PTL DEF IInv

\* No authorization is outstanding during a global halt.
THEOREM HaltLeavesNothingIssued == Spec => []NothingIssuedInHalt
BY Inductive, PTL DEF IInv

\* An authorization is granted at most once, and never after a halt caught it,
\* for any number of racing callers.
THEOREM SingleUse == Spec => []GrantedOnce
<1>1. TypeOK /\ IInv => GrantedOnce
  BY DEF TypeOK, IInv, GrantsFollowRows, GrantedOnce
<1>2. QED BY <1>1, Inductive, PTL
-----------------------------------------------------------------------------
(***************************************************************************)
(* What a step may never do.                                               *)
(***************************************************************************)

\* CONSUMED, EXPIRED and REVOKED rows never change again.
THEOREM TerminalRowsAreFinal == Spec => TerminalIsFinal
<1> DEFINE Final == \A o \in Orders :
                      auth[o] # NoRow /\ o \notin Issued => auth'[o] = auth[o]
<1>1. TypeOK /\ [Next]_vars => Final
  <2> SUFFICES ASSUME TypeOK, [Next]_vars PROVE Final
    OBVIOUS
  <2>1. ASSUME NEW at, ExpireOverdue(at) PROVE Final
    BY <2>1, ExpiredRows DEF ExpireOverdue
  <2>2. ASSUME NEW p \in Callers, Issue(p) PROVE Final
    <3>1. call[p].order \in Orders /\ auth[call[p].order] = NoRow
      BY <2>2, CallFields DEF Issue, HoldsLock, Issuable
    <3>2. QED BY <2>2, <3>1, ExpiredRows DEF Issue
  <2>3. ASSUME NEW p \in Callers, Consume(p) PROVE Final
    <3>1. call[p].order \in Issued
      BY <2>3 DEF Consume, Consumable
    <3>2. QED BY <2>3, <3>1, ExpiredRows DEF Consume
  <2>4. CASE ActivateGlobalHalt
    BY <2>4, WithStateType DEF ActivateGlobalHalt, AuthorizationState
  <2>5. UNCHANGED auth => Final
    OBVIOUS
  <2>6. QED
    BY <2>1, <2>2, <2>3, <2>4, <2>5 DEF Next, vars, storeVars, Tick, ReadSafety, Decide, IssueCall,
       ConsumeCall, IssueRefused, ConsumeRefused, SummaryCall, Summary, Abandon,
       SetCompliance, ResetGlobalHalt, SetKillState, RecordLossState, RefreshSnapshot
<1>2. QED BY <1>1, TypeCorrect, PTL DEF TerminalIsFinal, Spec

\* A consumption is late by less than the wait for the write lock: the clock
\* read before the wait was still short of expires_at.
THEOREM LatenessBounded == Spec => ConsumedWithinLockWait
<1> DEFINE InTime == \A o \in Issued :
                       auth'[o].state = "CONSUMED" => now < auth[o].expires + BusyTimeout
<1>1. TypeOK /\ [Next]_vars => InTime
  <2> SUFFICES ASSUME TypeOK, [Next]_vars PROVE InTime
    OBVIOUS
  <2>1. UNCHANGED auth => InTime
    BY DEF Issued
  <2>2. ASSUME NEW at, ExpireOverdue(at) PROVE InTime
    BY <2>2, OverdueIssued, Relabelled DEF ExpireOverdue, Issued
  <2>3. ASSUME NEW p \in Callers, Issue(p) PROVE InTime
    <3> DEFINE c == call[p]
               W == WithState(Overdue(c.at), "EXPIRED")
    <3>1. c.order \in Orders /\ c.order \notin Issued
      BY <2>3, CallFields DEF Issue, HoldsLock, Issuable, Issued, NoRow
    <3>2. \A o \in Issued : auth'[o] = W[o]
      BY <2>3, <3>1, ExpiredRows DEF Issue, Issued
    <3>3. \A o \in Issued : W[o].state # "CONSUMED"
      BY OverdueIssued, WithStateType DEF AuthorizationState, Issued
    <3>4. QED BY <3>2, <3>3
  <2>4. ASSUME NEW p \in Callers, Consume(p) PROVE InTime
    <3> DEFINE c == call[p]
               W == WithState(Overdue(c.at), "EXPIRED")
    <3>1. /\ c.order \in Issued \ Overdue(c.at)
          /\ c.at \in Nat /\ now <= c.at + BusyTimeout
      BY <2>4, CallFields DEF Consume, Consumable, HoldsLock, Time
    <3>2. \A o \in Issued \ {c.order} : auth'[o] = W[o]
      BY <2>4, <3>1, ExpiredRows DEF Consume, Issued
    <3>3. \A o \in Issued : W[o].state # "CONSUMED"
      BY OverdueIssued, WithStateType DEF AuthorizationState, Issued
    <3>4. auth[c.order].expires \in Nat /\ now \in Nat
      BY <3>1, IssuedRow DEF Authorization, TypeOK, Time
    <3>5. c.at < auth[c.order].expires
      BY <3>1, <3>4 DEF Overdue
    <3>6. now < auth[c.order].expires + BusyTimeout
      BY <3>1, <3>4, <3>5
    <3>7. QED BY <3>2, <3>3, <3>6
  <2>5. CASE ActivateGlobalHalt
    BY <2>5, Relabelled DEF ActivateGlobalHalt, Issued
  <2>6. QED
    BY <2>1, <2>2, <2>3, <2>4, <2>5 DEF Next, vars, storeVars, Tick, ReadSafety, Decide, IssueCall,
       ConsumeCall, IssueRefused, ConsumeRefused, SummaryCall, Summary, Abandon,
       SetCompliance, ResetGlobalHalt, SetKillState, RecordLossState, RefreshSnapshot
<1>2. QED BY <1>1, TypeCorrect, PTL DEF ConsumedWithinLockWait, Spec
-----------------------------------------------------------------------------
(***************************************************************************)
(* Loss holds.                                                             *)
(***************************************************************************)

\* An authorization is bound because the decision it came from was, that one
\* because its safety state showed every hold there had ever been, and that one
\* because the durable holds only grow.
HoldInv ==
  /\ everHeld \subseteq holds
  /\ \A s \in safety : s.held \subseteq s.holds
  /\ \A o \in Orders : decision[o].held \subseteq PassableHolds(o)
  /\ \A p \in Callers : call[p].op = "issue" =>
       call[p].decision.held \subseteq PassableHolds(call[p].order)
  /\ HoldsBindAuthorizations

\* Relabelling a row leaves what was held when it was decided.
LEMMA RelabelledHeld ==
  ASSUME TypeOK, NEW S \in SUBSET Issued, NEW st
  PROVE  \A o \in Orders : IF auth[o] = NoRow THEN WithState(S, st)[o] = NoRow
                           ELSE WithState(S, st)[o].held = auth[o].held
<1>1. ASSUME NEW o \in S
      PROVE  auth[o] # NoRow /\ [auth[o] EXCEPT !.state = st].held = auth[o].held
  <2>1. auth[o] \in Authorization /\ auth[o].state = "ISSUED"
    BY <1>1, IssuedRow DEF Issued
  <2>2. auth[o] # NoRow
    BY <2>1 DEF NoRow
  <2>3. QED BY <2>1, <2>2 DEF Authorization
<1>2. QED BY <1>1 DEF WithState, Issued

LEMMA HoldStep == TypeOK /\ HoldInv /\ [Next]_vars => HoldInv'
<1> SUFFICES ASSUME TypeOK, HoldInv, [Next]_vars PROVE HoldInv'
  OBVIOUS
<1> DEFINE Still == UNCHANGED <<holds, everHeld, safety, decision>>
           Rows  == \A o \in Orders : \/ auth[o] # NoRow /\ auth'[o].held = auth[o].held
                                      \/ auth'[o] = NoRow
                                      \/ auth'[o].held \subseteq PassableHolds(o)
           Calls == \A p \in Callers :
                      \/ call'[p] = call[p] \/ call'[p].op # "issue"
                      \/ call'[p].decision.held \subseteq PassableHolds(call'[p].order)
<1>1. Rows => HoldsBindAuthorizations'
  BY DEF HoldInv, HoldsBindAuthorizations, PassableHolds
<1>2. Calls => \A p \in Callers : call'[p].op = "issue" =>
                 call'[p].decision.held \subseteq PassableHolds(call'[p].order)
  BY DEF HoldInv
<1>3. (Still /\ Rows /\ Calls) => HoldInv'
  BY <1>1, <1>2 DEF HoldInv, PassableHolds
<1>4. UNCHANGED auth => Rows
  OBVIOUS
<1>5. UNCHANGED call => Calls
  OBVIOUS
<1>6. ASSUME NEW p \in Callers, Return(p) PROVE Calls
  BY <1>6 DEF Return, Idle, TypeOK
<1>7. ASSUME NEW at, auth' = WithState(Overdue(at), "EXPIRED") PROVE Rows
  <2>1. Overdue(at) \in SUBSET Issued
    BY OverdueIssued
  <2>2. QED BY <1>7, <2>1, RelabelledHeld
<1>8. ASSUME NEW p \in Callers, NEW o \in Orders, IssueCall(p, o) PROVE HoldInv'
  <2> DEFINE c == [op |-> "issue", at |-> now, order |-> o, decision |-> decision[o]]
  <2>1. /\ call' = [call EXCEPT ![p] = c] /\ Still /\ UNCHANGED auth
        /\ c.decision = decision[o] /\ c.order = o
    BY <1>8 DEF IssueCall, storeVars, history
  <2> HIDE DEF c
  <2>2. \A q \in Callers : call'[q] = call[q] \/ call'[q] = c
    BY <2>1 DEF TypeOK
  <2>3. decision[o].held \subseteq PassableHolds(o)
    BY DEF HoldInv
  <2>4. Calls
    BY <2>1, <2>2, <2>3
  <2>5. QED BY <1>3, <1>4, <2>1, <2>4
<1>9. ASSUME NEW p \in Callers, NEW o \in Orders, ConsumeCall(p, o) PROVE HoldInv'
  <2>1. /\ Still /\ UNCHANGED auth
        /\ \E match \in BOOLEAN : call' = [call EXCEPT ![p] =
             [op |-> "consume", at |-> now, order |-> o, portfolio |-> seen, match |-> match]]
    BY <1>9 DEF ConsumeCall, storeVars, history
  <2>2. Calls
    BY <2>1 DEF TypeOK
  <2>3. QED BY <1>3, <1>4, <2>1, <2>2
<1>10. ASSUME NEW p \in Callers, SummaryCall(p) PROVE HoldInv'
  <2>1. /\ Still /\ UNCHANGED auth
        /\ call' = [call EXCEPT ![p] = [op |-> "summary", at |-> now]]
    BY <1>10 DEF SummaryCall, storeVars, history
  <2>2. Calls
    BY <2>1 DEF TypeOK
  <2>3. QED BY <1>3, <1>4, <2>1, <2>2
<1>11. ASSUME NEW p \in Callers, Issue(p) PROVE HoldInv'
  <2> DEFINE c == call[p]
             W == WithState(Overdue(c.at), "EXPIRED")
             r == [state |-> "ISSUED", expires |-> Min({c.decision.expires, c.at + TTL}),
                   portfolio |-> c.decision.portfolio, held |-> c.decision.held]
  <2>1. /\ c.op = "issue" /\ Return(p) /\ auth' = [W EXCEPT ![c.order] = r] /\ Still
    BY <1>11 DEF Issue, HoldsLock, history
  <2>2. c.order \in Orders /\ c.decision.held \subseteq PassableHolds(c.order)
    BY <2>1, CallFields DEF HoldInv
  <2>3. r.held = c.decision.held
    OBVIOUS
  <2> HIDE DEF r
  <2>4. auth'[c.order] = r /\ \A o \in Orders \ {c.order} : auth'[o] = W[o]
    BY <2>1, <2>2 DEF WithState
  <2>5. Rows
    <3>1. Overdue(c.at) \in SUBSET Issued
      BY OverdueIssued
    <3>2. \A o \in Orders : IF auth[o] = NoRow THEN W[o] = NoRow
                          ELSE W[o].held = auth[o].held
      BY <3>1, RelabelledHeld
    <3> HIDE DEF W
    <3>3. QED BY <2>2, <2>3, <2>4, <3>2
  <2>6. QED BY <1>3, <1>6, <2>1, <2>5
<1>12. ASSUME NEW p \in Callers, Consume(p) PROVE HoldInv'
  <2> DEFINE c == call[p]
             W == WithState(Overdue(c.at), "EXPIRED")
  <2>1. /\ c.order \in Issued \ Overdue(c.at) /\ Return(p)
        /\ auth' = [W EXCEPT ![c.order].state = "CONSUMED"] /\ Still
    BY <1>12 DEF Consume, Consumable
  <2>2. c.order \in Orders /\ auth[c.order] \in Authorization /\ W[c.order] = auth[c.order]
    <3>1. c.order \in Orders /\ auth[c.order] \in Authorization /\ c.order \in Orders \ Overdue(c.at)
      BY <2>1, IssuedRow
    <3>2. W[c.order] = auth[c.order]
      BY <3>1 DEF WithState
    <3>3. QED BY <3>1, <3>2
  <2>3. auth'[c.order].held = auth[c.order].held /\ auth[c.order] # NoRow
        /\ \A o \in Orders \ {c.order} : auth'[o] = W[o]
    BY <2>1, <2>2 DEF WithState, Authorization, Issued, NoRow
  <2>4. Rows
    <3>1. Overdue(c.at) \in SUBSET Issued
      BY OverdueIssued
    <3>2. \A o \in Orders : IF auth[o] = NoRow THEN W[o] = NoRow
                          ELSE W[o].held = auth[o].held
      BY <3>1, RelabelledHeld
    <3> HIDE DEF W
    <3>3. QED BY <2>3, <3>2
  <2>5. QED BY <1>3, <1>6, <2>1, <2>4
<1>13. ASSUME NEW p \in Callers, ConsumeRefused(p) \/ Summary(p) PROVE HoldInv'
  <2>1. /\ Return(p) /\ Still /\ auth' = WithState(Overdue(call[p].at), "EXPIRED")
    BY <1>13 DEF ConsumeRefused, Summary, ExpireOverdue, history
  <2>2. QED BY <1>3, <1>6, <1>7, <2>1
<1>14. ASSUME NEW p \in Callers, IssueRefused(p) \/ Abandon(p) PROVE HoldInv'
  BY <1>3, <1>4, <1>6, <1>14 DEF IssueRefused, Abandon, storeVars, history
<1>15. CASE ActivateGlobalHalt
  <2>1. Still /\ UNCHANGED call /\ auth' = WithState(Issued, "REVOKED")
    BY <1>15 DEF ActivateGlobalHalt
  <2>2. Rows
    <3>1. Issued \in SUBSET Issued
      OBVIOUS
    <3>2. QED BY <2>1, <3>1, RelabelledHeld
  <2>3. QED BY <1>3, <1>5, <2>1, <2>2
<1>16. ASSUME NEW o \in Orders, NEW s \in safety, Decide(o, s) PROVE HoldInv'
  <2> DEFINE d == [expires |-> now + TTL, portfolio |-> seen, held |-> s.held]
  <2>1. /\ s.holds \subseteq PassableHolds(o)
        /\ decision' = [decision EXCEPT ![o] = d] /\ d.held = s.held
        /\ UNCHANGED <<auth, holds, safety, call, everHeld>>
    BY <1>16 DEF Decide, storeVars, history
  <2> HIDE DEF d
  <2>2. d.held \subseteq PassableHolds(o)
    BY <2>1 DEF HoldInv
  <2>3. \A x \in Orders : decision'[x] = decision[x] \/ (x = o /\ decision'[x] = d)
    BY <2>1 DEF TypeOK
  <2>4. \A x \in Orders : decision'[x].held \subseteq PassableHolds(x)
    BY <2>2, <2>3 DEF HoldInv
  <2>5. QED BY <1>1, <1>2, <1>4, <1>5, <2>1, <2>4 DEF HoldInv, PassableHolds
<1>17. ASSUME NEW W \in SUBSET LossWindows, RecordLossState(W) PROVE HoldInv'
  <2>1. /\ UNCHANGED <<auth, safety, decision, call>>
        /\ holds' = holds \cup W /\ everHeld' = everHeld \cup W
    BY <1>17 DEF RecordLossState
  <2>2. QED BY <1>1, <1>2, <1>4, <1>5, <2>1 DEF HoldInv, PassableHolds
<1>18. CASE ReadSafety
  <2> DEFINE s == [holds |-> holds, held |-> everHeld]
  <2>1. /\ UNCHANGED <<auth, holds, everHeld, decision, call>> /\ safety' = safety \cup {s}
        /\ s.held = everHeld /\ s.holds = holds
    BY <1>18 DEF ReadSafety, storeVars, history
  <2> HIDE DEF s
  <2>2. \A x \in safety' : x.held \subseteq x.holds
    BY <2>1 DEF HoldInv
  <2>3. QED BY <1>1, <1>2, <1>4, <1>5, <2>1, <2>2 DEF HoldInv, PassableHolds
<1>19. CASE \/ Tick \/ RefreshSnapshot \/ ResetGlobalHalt
            \/ \E c \in ComplianceState : SetCompliance(c)
            \/ \E k \in KillCategories, killed \in BOOLEAN : SetKillState(k, killed)
            \/ UNCHANGED vars
  <2>1. Still /\ UNCHANGED <<auth, call>>
    BY <1>19 DEF Tick, RefreshSnapshot, ResetGlobalHalt, SetCompliance, SetKillState, vars,
       storeVars, history
  <2>2. QED BY <1>3, <1>4, <1>5, <2>1
<1>20. QED
  BY <1>8, <1>9, <1>10, <1>11, <1>12, <1>13, <1>14, <1>15, <1>16, <1>17, <1>18, <1>19
  DEF Next

LEMMA HoldInit == Init => HoldInv
BY DEF Init, HoldInv, HoldsBindAuthorizations, NoDecision, Idle

\* A durable loss hold binds every authorization decided from a safety state
\* read after it, for as long as the store exists: nothing record_loss_state
\* writes clears it, and evaluate_risk lets only a risk-reducing order through
\* a review, and none through the experiment's halt.
THEOREM HoldIsKept == Spec => []HoldsBindAuthorizations
<1>1. TypeOK /\ HoldInv /\ [Next]_vars => HoldInv'
  BY HoldStep
<1>2. HoldInv => HoldsBindAuthorizations
  BY DEF HoldInv
<1>3. QED BY <1>1, <1>2, HoldInit, TypeCorrect, PTL DEF Spec
-----------------------------------------------------------------------------
(***************************************************************************)
(* What the SUM over reservation rows computes.  The fold behind LoadOf    *)
(* takes the orders in an order of its own choosing; that it is defined,   *)
(* that the choice does not matter and that it grows with the set are each *)
(* shown by taking a smallest set of orders for which they fail.           *)
(***************************************************************************)

\* The risk of the orders in S, as issue's SUM adds it up for the scope s.
Total(s, S) == MapThenSumSet(LAMBDA o : Risk[o][s], S)

\* The order the fold takes next.
Pick(T) == CHOOSE o \in T : TRUE

\* h computes the total of every subset of S, one picked order at a time.
Totals(s, S, h) ==
  h = [T \in SUBSET S |-> IF T = {} THEN 0 ELSE Risk[Pick(T)][s] + h[T \ {Pick(T)}]]

LEMMA Picked ==
  ASSUME NEW T, T # {}
  PROVE  Pick(T) \in T
BY DEF Pick

LEMMA TotalUnfolds ==
  ASSUME NEW s, NEW S
  PROVE  Total(s, S) = (CHOOSE h : Totals(s, S, h))[S]
BY DEF Total, MapThenSumSet, MapThenFoldSet, Totals, Pick

\* A non-empty family of sets of orders has a member none other is inside of:
\* there are finitely many orders.
LEMMA SmallestSet ==
  ASSUME NEW F \in SUBSET (SUBSET Orders), F # {}
  PROVE  \E T \in F : \A U \in SUBSET T : U \in F => U = T
<1>1. IsWellFoundedOn(StrictSubsetOrdering(Orders), FiniteSubsetsOf(Orders))
  BY FS_StrictSubsetOrderingWellFounded
<1>2. F \subseteq FiniteSubsetsOf(Orders)
  BY FS_Subset DEF FiniteSubsetsOf
<1>3. \E T \in F : \A U \in F : <<U, T>> \notin StrictSubsetOrdering(Orders)
  BY <1>1, <1>2, WFMin
<1>4. PICK T \in F : \A U \in F : <<U, T>> \notin StrictSubsetOrdering(Orders)
  BY <1>3
<1>5. ASSUME NEW U \in SUBSET T, U \in F, U # T PROVE FALSE
  <2>1. U \in SUBSET Orders /\ T \in SUBSET Orders
    OBVIOUS
  <2>2. <<U, T>> \in StrictSubsetOrdering(Orders)
    BY <1>5, <2>1 DEF StrictSubsetOrdering
  <2>3. QED BY <1>4, <1>5, <2>2
<1>6. QED BY <1>5

\* The two equations of such a computation.
Steps(s, S, h) ==
  /\ h[{}] = 0
  /\ \A T \in SUBSET S : T # {} => h[T] = Risk[Pick(T)][s] + h[T \ {Pick(T)}]

LEMMA TotalsStep ==
  ASSUME NEW s, NEW S, NEW h, Totals(s, S, h)
  PROVE  Steps(s, S, h)
<1> DEFINE f == [T \in SUBSET S |-> IF T = {} THEN 0 ELSE Risk[Pick(T)][s] + h[T \ {Pick(T)}]]
<1>1. /\ f[{}] = 0
      /\ \A T \in SUBSET S : T # {} => f[T] = Risk[Pick(T)][s] + h[T \ {Pick(T)}]
  OBVIOUS
<1>2. h = f
  BY DEF Totals
<1> HIDE DEF f
<1>3. QED BY <1>1, <1>2 DEF Steps

Agree(S, g, h) == \A T \in SUBSET S : g[T] = h[T]

\* Two computations agree where both are defined.
LEMMA TotalsAgree ==
  ASSUME NEW s, NEW A \in SUBSET Orders, NEW B \in SUBSET Orders,
         NEW g, NEW h, Totals(s, A, g), Totals(s, B, h)
  PROVE  Agree(A \cap B, g, h)
<1> DEFINE Bad == {U \in SUBSET (A \cap B) : g[U] # h[U]}
<1> SUFFICES ASSUME Bad # {} PROVE FALSE
  BY DEF Agree
<1>1. PICK U \in Bad : \A V \in SUBSET U : V \in Bad => V = U
  <2>1. Bad \in SUBSET (SUBSET Orders)
    OBVIOUS
  <2> HIDE DEF Bad
  <2>2. QED BY <2>1, SmallestSet
<1>2. Steps(s, A, g) /\ Steps(s, B, h)
  BY TotalsStep
<1>3. U \in SUBSET A /\ U \in SUBSET B
  OBVIOUS
<1>4. CASE U = {}
  BY <1>1, <1>2, <1>4 DEF Steps
<1>5. CASE U # {}
  <2>1. Pick(U) \in U
    BY <1>5, Picked
  <2>2. g[U \ {Pick(U)}] = h[U \ {Pick(U)}]
    BY <1>1, <2>1
  <2>3. g[U] = Risk[Pick(U)][s] + g[U \ {Pick(U)}]
    BY <1>2, <1>3, <1>5 DEF Steps
  <2>4. h[U] = Risk[Pick(U)][s] + h[U \ {Pick(U)}]
    BY <1>2, <1>3, <1>5 DEF Steps
  <2>5. QED BY <1>1, <2>2, <2>3, <2>4
<1>6. QED BY <1>4, <1>5

\* Every set of orders has such a computation.
LEMMA TotalsExist ==
  ASSUME NEW s, NEW S \in SUBSET Orders
  PROVE  \E h : Totals(s, S, h)
<1> DEFINE Bad == {U \in SUBSET Orders : ~ \E h : Totals(s, U, h)}
<1> SUFFICES ASSUME Bad # {} PROVE FALSE
  OBVIOUS
<1>1. PICK U \in Bad : \A V \in SUBSET U : V \in Bad => V = U
  <2>1. Bad \in SUBSET (SUBSET Orders)
    OBVIOUS
  <2> HIDE DEF Bad
  <2>2. QED BY <2>1, SmallestSet
<1> DEFINE H(V) == CHOOSE h : Totals(s, V, h)
           g == [V \in SUBSET U |-> IF V = {} THEN 0
                   ELSE Risk[Pick(V)][s] + H(V \ {Pick(V)})[V \ {Pick(V)}]]
<1>2. ASSUME NEW V \in SUBSET U, V # U PROVE Totals(s, V, H(V))
  <2>1. V \notin Bad /\ V \in SUBSET Orders
    BY <1>1, <1>2
  <2>2. \E h : Totals(s, V, h)
    BY <2>1
  <2>3. QED BY <2>2
<1>3. ASSUME NEW V \in SUBSET U, V # U PROVE g[V] = H(V)[V]
  <2>1. Totals(s, V, H(V))
    BY <1>2, <1>3
  <2>2. CASE V = {}
    BY <2>1, <2>2 DEF Totals
  <2>3. CASE V # {}
    <3> DEFINE W == V \ {Pick(V)}
    <3>1. Pick(V) \in V /\ W \in SUBSET V /\ W \in SUBSET U /\ W # U
      BY <1>3, <2>3, Picked
    <3>2. Totals(s, W, H(W))
      BY <1>2, <3>1
    <3>3. H(V)[W] = H(W)[W]
      <4>1. V \in SUBSET Orders /\ W \in SUBSET Orders /\ W \in SUBSET (V \cap W)
        BY <1>1, <3>1
      <4>2. PICK a, b, Y : a = H(V) /\ b = H(W) /\ Y = W
        OBVIOUS
      <4>3. Totals(s, V, a) /\ Totals(s, Y, b) /\ Y \in SUBSET Orders /\ Y \in SUBSET (V \cap Y)
        BY <2>1, <3>2, <4>1, <4>2
      <4> HIDE DEF W, H, g, Bad
      <4>4. Agree(V \cap Y, a, b)
        BY <4>1, <4>3, TotalsAgree
      <4>5. QED BY <4>2, <4>3, <4>4 DEF Agree
    <3>4. H(V)[V] = Risk[Pick(V)][s] + H(V)[W]
      <4> HIDE DEF H
      <4>1. QED BY <2>1, <2>3 DEF Totals
    <3>5. g[V] = Risk[Pick(V)][s] + H(W)[W]
      <4> HIDE DEF H
      <4>1. QED BY <2>3
    <3>6. QED BY <3>3, <3>4, <3>5
  <2>4. QED BY <2>2, <2>3
<1>4. Totals(s, U, g)
  <2>1. ASSUME NEW V \in SUBSET U, V # {}
        PROVE  g[V] = Risk[Pick(V)][s] + g[V \ {Pick(V)}]
    <3>1. /\ V \ {Pick(V)} \in SUBSET U
          /\ V \ {Pick(V)} # U
      BY <2>1, Picked
    <3>2. g[V \ {Pick(V)}] = H(V \ {Pick(V)})[V \ {Pick(V)}]
      BY <1>3, <3>1
    <3> HIDE DEF H
    <3>3. QED BY <2>1, <3>2
  <2>2. g[{}] = 0
    OBVIOUS
  <2>3. g = [V \in SUBSET U |-> g[V]]
    OBVIOUS
  <2> HIDE DEF g
  <2>4. QED BY <2>1, <2>2, <2>3 DEF Totals
<1>5. QED BY <1>1, <1>4

\* The total of a set is the risk of the picked order and the total of the rest.
LEMMA TotalPicked ==
  ASSUME NEW s, NEW S \in SUBSET Orders
  PROVE  /\ Total(s, {}) = 0
         /\ S # {} => Total(s, S) = Risk[Pick(S)][s] + Total(s, S \ {Pick(S)})
<1>1. ASSUME NEW T \in SUBSET Orders
      PROVE  \E h : Totals(s, T, h) /\ Steps(s, T, h) /\ Total(s, T) = h[T]
  <2>1. PICK h : h = CHOOSE k : Totals(s, T, k)
    OBVIOUS
  <2>2. Totals(s, T, h)
    BY <2>1, TotalsExist
  <2>3. QED BY <2>1, <2>2, TotalsStep, TotalUnfolds
<1>2. Total(s, {}) = 0
  <2>1. {} \in SUBSET Orders
    OBVIOUS
  <2>2. QED BY <1>1, <2>1 DEF Steps
<1>3. ASSUME S # {} PROVE Total(s, S) = Risk[Pick(S)][s] + Total(s, S \ {Pick(S)})
  <2>1. PICK T : T = S \ {Pick(S)}
    OBVIOUS
  <2>2. T \in SUBSET Orders
    BY <2>1
  <2>3. PICK g : Totals(s, S, g) /\ Steps(s, S, g) /\ Total(s, S) = g[S]
    BY <1>1
  <2>4. PICK h : Totals(s, T, h) /\ Total(s, T) = h[T]
    BY <1>1, <2>2
  <2>5. Agree(S \cap T, g, h)
    BY <2>2, <2>3, <2>4, TotalsAgree
  <2>6. g[T] = h[T]
    BY <2>1, <2>5 DEF Agree
  <2>7. g[S] = Risk[Pick(S)][s] + g[T]
    BY <1>3, <2>1, <2>3 DEF Steps
  <2>8. QED BY <2>1, <2>3, <2>4, <2>6, <2>7
<1>4. QED BY <1>2, <1>3

\* A total is a natural number.
LEMMA TotalType ==
  ASSUME NEW s \in Scopes, NEW S \in SUBSET Orders
  PROVE  Total(s, S) \in Nat
<1> DEFINE Bad == {U \in SUBSET Orders : Total(s, U) \notin Nat}
<1> SUFFICES ASSUME Bad # {} PROVE FALSE
  OBVIOUS
<1>1. PICK U \in Bad : \A V \in SUBSET U : V \in Bad => V = U
  <2>1. Bad \in SUBSET (SUBSET Orders)
    OBVIOUS
  <2> HIDE DEF Bad
  <2>2. QED BY <2>1, SmallestSet
<1>2. U \in SUBSET Orders /\ Total(s, U) \notin Nat
  OBVIOUS
<1>3. U # {}
  <2>1. Total(s, {}) = 0
    BY <1>2, TotalPicked
  <2>2. 0 \in Nat
    OBVIOUS
  <2> HIDE DEF Bad
  <2>3. QED BY <1>2, <2>1, <2>2, Zenon
<1>4. Pick(U) \in U
  BY <1>3, Picked
<1>5. Total(s, U \ {Pick(U)}) \in Nat
  BY <1>1, <1>4
<1>6. Total(s, U) = Risk[Pick(U)][s] + Total(s, U \ {Pick(U)})
  BY <1>2, <1>3, TotalPicked
<1>7. Risk[Pick(U)][s] \in Nat
  BY <1>2, <1>4
<1> HIDE DEF Bad
<1>8. QED BY <1>2, <1>5, <1>6, <1>7

\* The total does not depend on the order that happens to be picked first.
LEMMA TotalWithout ==
  ASSUME NEW s \in Scopes, NEW S \in SUBSET Orders, NEW o \in S
  PROVE  Total(s, S) = Risk[o][s] + Total(s, S \ {o})
<1> DEFINE Bad == {U \in SUBSET Orders :
                     \E x \in U : Total(s, U) # Risk[x][s] + Total(s, U \ {x})}
<1> SUFFICES ASSUME Bad # {} PROVE FALSE
  OBVIOUS
<1>1. PICK U \in Bad : \A V \in SUBSET U : V \in Bad => V = U
  <2>1. Bad \in SUBSET (SUBSET Orders)
    OBVIOUS
  <2> HIDE DEF Bad
  <2>2. QED BY <2>1, SmallestSet
<1>2. PICK x \in U : Total(s, U) # Risk[x][s] + Total(s, U \ {x})
  BY <1>1
<1>3. PICK p : p = Pick(U)
  OBVIOUS
<1>4. p \in U /\ Total(s, U) = Risk[p][s] + Total(s, U \ {p})
  BY <1>1, <1>2, <1>3, Picked, TotalPicked
<1>5. p # x
  BY <1>2, <1>4
<1>6. ASSUME NEW a \in U, NEW b \in U, a # b
      PROVE  Total(s, U \ {a}) = Risk[b][s] + Total(s, U \ {a, b})
  <2>1. U \ {a} \in SUBSET U /\ U \ {a} # U /\ U \ {a} \in SUBSET Orders /\ b \in U \ {a}
    BY <1>1, <1>6
  <2>2. U \ {a} \notin Bad
    BY <1>1, <2>1
  <2>3. Total(s, U \ {a}) = Risk[b][s] + Total(s, (U \ {a}) \ {b})
    BY <2>1, <2>2
  <2>4. (U \ {a}) \ {b} = U \ {a, b}
    OBVIOUS
  <2>5. QED BY <2>3, <2>4
<1>7. /\ Total(s, U \ {p}) = Risk[x][s] + Total(s, U \ {p, x})
      /\ Total(s, U \ {x}) = Risk[p][s] + Total(s, U \ {x, p})
  BY <1>2, <1>4, <1>5, <1>6
<1>8. {p, x} = {x, p}
  OBVIOUS
<1>9. Risk[p][s] \in Nat /\ Risk[x][s] \in Nat /\ Total(s, U \ {p, x}) \in Nat
  <2>1. U \ {p, x} \in SUBSET Orders /\ p \in Orders /\ x \in Orders
    BY <1>1, <1>2, <1>4
  <2>2. QED BY <2>1, TotalType
<1>10. PICK i, j, t \in Nat : i = Risk[p][s] /\ j = Risk[x][s] /\ t = Total(s, U \ {p, x})
  BY <1>9
<1>11. Total(s, U) = i + (j + t) /\ Total(s, U) # j + (i + t)
  BY <1>2, <1>4, <1>7, <1>8, <1>10
<1>12. QED BY <1>11

-----------------------------------------------------------------------------
(***************************************************************************)
(* The same facts for the load of a scope.                                 *)
(***************************************************************************)
LEMMA LoadType ==
  ASSUME NEW s \in Scopes, NEW S \in SUBSET Orders
  PROVE  LoadOf(S, s) \in Nat
<1>1. PICK T : T = {o \in S : s \in Touched[o]}
  OBVIOUS
<1>2. T \in SUBSET Orders /\ LoadOf(S, s) = Total(s, T)
  BY <1>1 DEF LoadOf, Total
<1>3. QED BY <1>2, TotalType

LEMMA LoadEmpty ==
  ASSUME NEW s \in Scopes
  PROVE  LoadOf({}, s) = 0
<1>1. PICK T : T = {o \in {} : s \in Touched[o]}
  OBVIOUS
<1>2. T = {} /\ LoadOf({}, s) = Total(s, T)
  BY <1>1 DEF LoadOf, Total
<1>3. {} \in SUBSET Orders
  OBVIOUS
<1>4. Total(s, {}) = 0
  BY <1>3, TotalPicked
<1>5. QED BY <1>2, <1>4

\* One order more adds its risk to the scopes it touches and to no other.
LEMMA LoadWith ==
  ASSUME NEW s \in Scopes, NEW S \in SUBSET Orders, NEW o \in Orders, o \notin S
  PROVE  LoadOf(S \cup {o}, s) =
           IF s \in Touched[o] THEN LoadOf(S, s) + Risk[o][s] ELSE LoadOf(S, s)
<1>1. PICK T : T = {x \in S : s \in Touched[x]}
  OBVIOUS
<1>2. PICK U : U = {x \in S \cup {o} : s \in Touched[x]}
  OBVIOUS
<1>3. /\ T \in SUBSET Orders /\ LoadOf(S, s) = Total(s, T)
      /\ U \in SUBSET Orders /\ LoadOf(S \cup {o}, s) = Total(s, U)
  BY <1>1, <1>2 DEF LoadOf, Total
<1>4. CASE s \in Touched[o]
  <2>1. o \in U /\ U \ {o} = T
    BY <1>1, <1>2, <1>4
  <2>2. Total(s, U) = Risk[o][s] + Total(s, T)
    BY <1>3, <2>1, TotalWithout
  <2>3. Total(s, T) \in Nat /\ Risk[o][s] \in Nat
    BY <1>3, TotalType
  <2>4. QED BY <1>3, <1>4, <2>2, <2>3
<1>5. CASE s \notin Touched[o]
  <2>1. U = T
    BY <1>1, <1>2, <1>5
  <2>2. QED BY <1>3, <1>5, <2>1
<1>6. QED BY <1>4, <1>5

\* Fewer orders never load a scope more.
LEMMA LoadMonotone ==
  ASSUME NEW s \in Scopes, NEW S \in SUBSET Orders, NEW R \in SUBSET S
  PROVE  LoadOf(R, s) <= LoadOf(S, s)
<1> DEFINE Bad == {U \in SUBSET Orders :
                     \E V \in SUBSET U : ~(LoadOf(V, s) <= LoadOf(U, s))}
<1> SUFFICES ASSUME Bad # {} PROVE FALSE
  OBVIOUS
<1>1. PICK U \in Bad : \A V \in SUBSET U : V \in Bad => V = U
  <2>1. Bad \in SUBSET (SUBSET Orders)
    OBVIOUS
  <2> HIDE DEF Bad
  <2>2. QED BY <2>1, SmallestSet
<1>2. PICK V \in SUBSET U : ~(LoadOf(V, s) <= LoadOf(U, s))
  OBVIOUS
<1>3. U \in SUBSET Orders /\ V \in SUBSET Orders
  OBVIOUS
<1>4. LoadOf(U, s) \in Nat /\ LoadOf(V, s) \in Nat
  BY <1>3, LoadType
<1>5. PICK o \in U : o \notin V
  <2>1. V # U
    BY <1>2, <1>4
  <2>2. QED BY <2>1
<1>6. PICK W : W = U \ {o}
  OBVIOUS
<1>7. /\ W \in SUBSET U /\ W \in SUBSET Orders /\ W # U /\ V \in SUBSET W
      /\ o \in Orders /\ o \notin W /\ U = W \cup {o}
  BY <1>3, <1>5, <1>6
<1>8. LoadOf(V, s) <= LoadOf(W, s)
  BY <1>1, <1>7
<1> HIDE DEF Bad
<1>9. /\ LoadOf(W, s) \in Nat /\ Risk[o][s] \in Nat
      /\ LoadOf(U, s) = IF s \in Touched[o] THEN LoadOf(W, s) + Risk[o][s] ELSE LoadOf(W, s)
  BY <1>7, LoadType, LoadWith
<1>10. QED BY <1>2, <1>4, <1>8, <1>9
-----------------------------------------------------------------------------
(***************************************************************************)
(* Caps.                                                                   *)
(***************************************************************************)

\* The reservations fit under the caps, and every row was issued on a
\* snapshot that left room for it.
CapInv ==
  /\ ReservedWithinCaps
  /\ \A o \in Orders : auth[o] # NoRow =>
       \A s \in Touched[o] : LoadOf(auth[o].portfolio, s) + Risk[o][s] <= Cap[s]

\* Releasing reservations keeps what is left under the caps.
LEMMA ReleaseKeepsCaps ==
  ASSUME TypeOK, ReservedWithinCaps, NEW R \in SUBSET active, NEW s \in Scopes
  PROVE  LoadOf(R, s) <= Cap[s]
<1>1. active \in SUBSET Orders /\ R \in SUBSET Orders
  BY DEF TypeOK
<1>2. LoadOf(R, s) <= LoadOf(active, s)
  BY <1>1, LoadMonotone
<1>3. LoadOf(R, s) \in Nat /\ LoadOf(active, s) \in Nat /\ Cap[s] \in Nat
  BY <1>1, LoadType
<1>4. LoadOf(active, s) <= Cap[s]
  BY DEF ReservedWithinCaps
<1>5. QED BY <1>2, <1>3, <1>4

\* Relabelling a row leaves the snapshot it was issued on.
LEMMA RelabelledPortfolio ==
  ASSUME TypeOK, NEW S \in SUBSET Issued, NEW st
  PROVE  \A o \in Orders : IF auth[o] = NoRow THEN WithState(S, st)[o] = NoRow
                           ELSE WithState(S, st)[o].portfolio = auth[o].portfolio
<1>1. ASSUME NEW o \in S
      PROVE  auth[o] # NoRow /\ [auth[o] EXCEPT !.state = st].portfolio = auth[o].portfolio
  <2>1. auth[o] \in Authorization /\ auth[o].state = "ISSUED"
    BY <1>1, IssuedRow DEF Issued
  <2>2. auth[o] # NoRow
    BY <2>1 DEF NoRow
  <2>3. QED BY <2>1, <2>2 DEF Authorization
<1>2. QED BY <1>1 DEF WithState, Issued

\* A step that only releases reservations and relabels rows keeps CapInv.
LEMMA CapKeeps ==
  ASSUME TypeOK, CapInv, active' \in SUBSET active,
         \A o \in Orders : \/ auth'[o] = NoRow
                           \/ auth[o] # NoRow /\ auth'[o].portfolio = auth[o].portfolio
  PROVE  CapInv'
<1>1. ReservedWithinCaps'
  <2>1. ASSUME NEW s \in Scopes PROVE LoadOf(active', s) <= Cap[s]
    BY ReleaseKeepsCaps DEF CapInv
  <2>2. QED BY <2>1 DEF ReservedWithinCaps
<1>2. ASSUME NEW o \in Orders, auth'[o] # NoRow, NEW s \in Touched[o]
      PROVE  LoadOf(auth'[o].portfolio, s) + Risk[o][s] <= Cap[s]
  BY <1>2 DEF CapInv
<1>3. QED BY <1>1, <1>2 DEF CapInv

\* issue adds one order, after its sum under the write lock found room for it.
LEMMA IssueKeepsCaps ==
  ASSUME TypeOK, IInv, CapInv, NEW p \in Callers, Issue(p)
  PROVE  CapInv'
<1>1. PICK c : c = call[p]
  OBVIOUS
<1>2. PICK E : E = Overdue(c.at)
  OBVIOUS
<1>3. PICK R : R = active \ E
  OBVIOUS
<1>4. c.order \in Orders /\ c.decision \in Decision /\ auth[c.order] = NoRow
  BY <1>1, CallFields DEF Issue, HoldsLock, Issuable
<1>5. PICK o, B : o = c.order /\ B = c.decision.portfolio
  OBVIOUS
<1>6. /\ o \in Orders /\ B \in SUBSET Orders /\ R \in SUBSET Orders /\ R \in SUBSET active
      /\ o \notin R /\ active' = R \cup {o}
  <2>1. o \notin Issued
    BY <1>4, <1>5 DEF Issued, NoRow
  <2>2. active = Issued /\ active \in SUBSET Orders
    BY DEF IInv, ReservationIffIssued, TypeOK
  <2>3. active' = R \cup {o}
    BY <1>1, <1>2, <1>3, <1>5 DEF Issue
  <2>4. QED BY <1>3, <1>4, <1>5, <2>1, <2>2, <2>3 DEF Decision
<1>7. \A s \in Touched[o] : LoadOf(B, s) + LoadOf(R, s) + Risk[o][s] <= Cap[s]
  BY <1>1, <1>2, <1>3, <1>5 DEF Issue, Issuable, Fits
<1>8. ASSUME NEW s \in Scopes
      PROVE  /\ LoadOf(R, s) \in Nat /\ LoadOf(B, s) \in Nat
             /\ Risk[o][s] \in Nat /\ Cap[s] \in Nat
  BY <1>6, <1>8, LoadType
<1>9. ASSUME NEW s \in Scopes PROVE LoadOf(active', s) <= Cap[s]
  <2>1. LoadOf(R \cup {o}, s) =
          IF s \in Touched[o] THEN LoadOf(R, s) + Risk[o][s] ELSE LoadOf(R, s)
    BY <1>6, <1>9, LoadWith
  <2>2. CASE s \in Touched[o]
    BY <1>6, <1>7, <1>8, <2>1, <2>2
  <2>3. CASE s \notin Touched[o]
    <3>1. LoadOf(R, s) <= Cap[s]
      BY <1>6, <1>9, ReleaseKeepsCaps DEF CapInv
    <3>2. QED BY <1>6, <2>1, <2>3, <3>1
  <2>4. QED BY <2>2, <2>3
<1>10. ASSUME NEW s \in Touched[o] PROVE LoadOf(B, s) + Risk[o][s] <= Cap[s]
  <2>1. s \in Scopes
    BY <1>6
  <2>2. QED BY <1>7, <1>8, <2>1
<1>11. /\ auth'[o].portfolio = B
       /\ \A x \in Orders \ {o} : auth'[x] = WithState(E, "EXPIRED")[x]
  <2>1. \E row : row.portfolio = B /\ auth' = [WithState(E, "EXPIRED") EXCEPT ![o] = row]
    <3>1. auth' = [WithState(E, "EXPIRED") EXCEPT ![o] =
                     [state |-> "ISSUED", expires |-> Min({c.decision.expires, c.at + TTL}),
                      portfolio |-> B, held |-> c.decision.held]]
      BY <1>1, <1>2, <1>5 DEF Issue
    <3>2. QED BY <3>1
  <2>2. QED BY <1>6, <2>1 DEF WithState
<1>12. E \in SUBSET Issued
  BY <1>2, OverdueIssued
<1>13. \A x \in Orders : IF auth[x] = NoRow THEN WithState(E, "EXPIRED")[x] = NoRow
                         ELSE WithState(E, "EXPIRED")[x].portfolio = auth[x].portfolio
  BY <1>12, RelabelledPortfolio
<1>14. ASSUME NEW x \in Orders, auth'[x] # NoRow, NEW s \in Touched[x]
       PROVE  LoadOf(auth'[x].portfolio, s) + Risk[x][s] <= Cap[s]
  <2>1. CASE x = o
    BY <1>10, <1>11, <1>14, <2>1
  <2>2. CASE x # o
    BY <1>11, <1>13, <1>14, <2>2 DEF CapInv
  <2>3. QED BY <2>1, <2>2
<1>15. ReservedWithinCaps'
  BY <1>9 DEF ReservedWithinCaps
<1>16. QED BY <1>14, <1>15 DEF CapInv

LEMMA CapStep == TypeOK /\ IInv /\ CapInv /\ [Next]_vars => CapInv'
<1> SUFFICES ASSUME TypeOK, IInv, CapInv, [Next]_vars PROVE CapInv'
  OBVIOUS
<1> DEFINE Rows == \A o \in Orders :
                     \/ auth'[o] = NoRow
                     \/ auth[o] # NoRow /\ auth'[o].portfolio = auth[o].portfolio
<1>1. (active' \in SUBSET active /\ Rows) => CapInv'
  BY CapKeeps
<1>2. UNCHANGED auth => Rows
  OBVIOUS
<1>3. ASSUME NEW p \in Callers, Issue(p) PROVE CapInv'
  BY <1>3, IssueKeepsCaps
<1>4. ASSUME NEW S \in SUBSET Issued, NEW st, auth' = WithState(S, st) PROVE Rows
  BY <1>4, RelabelledPortfolio
<1>5. ASSUME NEW p \in Callers, Consume(p) PROVE CapInv'
  <2>1. PICK c : c = call[p]
    OBVIOUS
  <2>2. PICK W : W = WithState(Overdue(c.at), "EXPIRED")
    OBVIOUS
  <2>3. /\ c.order \in Orders /\ auth[c.order] \in Authorization /\ auth[c.order] # NoRow
        /\ c.order \notin Overdue(c.at)
    <3>1. c.order \in Issued \ Overdue(c.at)
      BY <1>5, <2>1 DEF Consume, Consumable
    <3>2. QED BY <3>1, IssuedRow DEF Issued, NoRow
  <2>4. \A o \in Orders : IF auth[o] = NoRow THEN W[o] = NoRow
                          ELSE W[o].portfolio = auth[o].portfolio
    <3>1. Overdue(c.at) \in SUBSET Issued
      BY OverdueIssued
    <3>2. QED BY <2>2, <3>1, RelabelledPortfolio
  <2>5. /\ auth' = [W EXCEPT ![c.order].state = "CONSUMED"]
        /\ active' \in SUBSET active
    BY <1>5, <2>1, <2>2 DEF Consume
  <2>6. W[c.order] = auth[c.order] /\ W = [o \in Orders |-> W[o]]
    BY <2>2, <2>3 DEF WithState
  <2>7. /\ auth'[c.order].portfolio = auth[c.order].portfolio
        /\ \A o \in Orders \ {c.order} : auth'[o] = W[o]
    BY <2>3, <2>5, <2>6 DEF Authorization
  <2>8. Rows
    BY <2>3, <2>4, <2>7
  <2>9. QED BY <1>1, <2>5, <2>8
<1>6. ASSUME NEW at, ExpireOverdue(at) PROVE CapInv'
  <2>1. Overdue(at) \in SUBSET Issued
    BY OverdueIssued
  <2>2. Rows
    BY <1>4, <1>6, <2>1 DEF ExpireOverdue
  <2>3. active' \in SUBSET active
    BY <1>6 DEF ExpireOverdue
  <2>4. QED BY <1>1, <2>2, <2>3
<1>7. CASE ActivateGlobalHalt
  <2>1. Issued \in SUBSET Issued
    OBVIOUS
  <2>2. Rows
    BY <1>4, <1>7, <2>1 DEF ActivateGlobalHalt
  <2>3. active' \in SUBSET active
    BY <1>7 DEF ActivateGlobalHalt
  <2>4. QED BY <1>1, <2>2, <2>3
<1>8. UNCHANGED <<auth, active>> => CapInv'
  BY <1>1, <1>2
<1>9. QED
  BY <1>3, <1>5, <1>6, <1>7, <1>8 DEF Next, vars, storeVars, Tick, ReadSafety, Decide, IssueCall,
     ConsumeCall, IssueRefused, ConsumeRefused, SummaryCall, Summary, Abandon,
     SetCompliance, ResetGlobalHalt, SetKillState, RecordLossState, RefreshSnapshot

LEMMA CapInit == Init => CapInv
<1> SUFFICES ASSUME Init PROVE CapInv
  OBVIOUS
<1>1. active = {} /\ \A o \in Orders : auth[o] = NoRow
  BY DEF Init
<1>2. \A s \in Scopes : LoadOf({}, s) = 0 /\ Cap[s] \in Nat
  BY LoadEmpty
<1>3. QED BY <1>1, <1>2 DEF CapInv, ReservedWithinCaps

LEMMA CapsHold == Spec => [](TypeOK /\ CapInv)
<1>1. TypeOK /\ IInv /\ CapInv /\ [Next]_vars => CapInv'
  BY CapStep
<1>2. QED BY <1>1, CapInit, Inductive, PTL DEF Spec

\* However many callers race issue on however stale snapshots, what they
\* reserve between them stays under every cap.
THEOREM ReservationsStayWithinCaps == Spec => []ReservedWithinCaps
BY CapsHold, PTL DEF CapInv

\* The live orders of a scope pass its cap only at a consume whose caller's
\* snapshot misses an order that is already live: consume compares that
\* snapshot with the one on which issue found room.
THEOREM OversubscriptionNeedsStaleSnapshot == Spec => OnlyStaleSnapshotOversubscribes
<1> DEFINE Stale == open' # open /\ NoCapOversubscription =>
                      \/ NoCapOversubscription'
                      \/ \E p \in Callers : /\ call[p].op = "consume" /\ call'[p] = Idle
                                            /\ ~(open \subseteq call[p].portfolio)
<1>1. TypeOK /\ CapInv /\ [Next]_vars => Stale
  <2> SUFFICES ASSUME TypeOK, CapInv, [Next]_vars, open' # open, NoCapOversubscription,
                      ~ \E p \in Callers : /\ call[p].op = "consume" /\ call'[p] = Idle
                                           /\ ~(open \subseteq call[p].portfolio)
               PROVE  NoCapOversubscription'
    OBVIOUS
  <2>1. PICK p \in Callers : Consume(p)
    BY DEF Next, vars, accountVars, Tick, ReadSafety, Decide, IssueCall, Issue, ConsumeCall, IssueRefused,
       ConsumeRefused, ExpireOverdue, SummaryCall, Summary, Abandon, SetCompliance,
       ActivateGlobalHalt, ResetGlobalHalt, SetKillState, RecordLossState, RefreshSnapshot
  <2>2. PICK c : c = call[p]
    OBVIOUS
  <2>3. PICK o, B : o = c.order /\ B = c.portfolio
    OBVIOUS
  <2>4. /\ o \in Issued /\ auth[o].portfolio = B /\ open' = open \cup {o}
        /\ c.op = "consume" /\ call'[p] = Idle
    BY <2>1, <2>2, <2>3 DEF Consume, Consumable, HoldsLock, Return, TypeOK
  <2>5. open \subseteq B
    BY <2>2, <2>3, <2>4
  <2>6. o \in Orders /\ auth[o] \in Authorization /\ auth[o] # NoRow
    BY <2>4, IssuedRow DEF Issued, NoRow
  <2>7. B \in SUBSET Orders /\ open \in SUBSET Orders /\ o \notin open
    BY <2>4, <2>6 DEF Authorization, TypeOK
  <2>8. ASSUME NEW s \in Scopes PROVE LoadOf(open \cup {o}, s) <= Cap[s]
    <3>1. /\ LoadOf(open, s) \in Nat /\ LoadOf(B, s) \in Nat
          /\ Risk[o][s] \in Nat /\ Cap[s] \in Nat
      BY <2>6, <2>7, <2>8, LoadType
    <3>2. LoadOf(open \cup {o}, s) =
            IF s \in Touched[o] THEN LoadOf(open, s) + Risk[o][s] ELSE LoadOf(open, s)
      BY <2>6, <2>7, <2>8, LoadWith
    <3>3. CASE s \in Touched[o]
      <4>1. LoadOf(B, s) + Risk[o][s] <= Cap[s]
        BY <2>4, <2>6, <3>3 DEF CapInv
      <4>2. LoadOf(open, s) <= LoadOf(B, s)
        BY <2>5, <2>7, <2>8, LoadMonotone
      <4>3. QED BY <3>1, <3>2, <3>3, <4>1, <4>2
    <3>4. CASE s \notin Touched[o]
      BY <3>2, <3>4 DEF NoCapOversubscription
    <3>5. QED BY <3>3, <3>4
  <2>9. QED BY <2>4, <2>8 DEF NoCapOversubscription
<1>2. QED BY <1>1, CapsHold, PTL DEF OnlyStaleSnapshotOversubscribes, Spec
=============================================================================
