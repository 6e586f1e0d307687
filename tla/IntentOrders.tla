---------------------------- MODULE IntentOrders ----------------------------
(***************************************************************************)
(* What the demo engine promises of the orders of an intent, without its   *)
(* store, workers and restarts: an authorization is spent for one of the   *)
(* executions that share it, only that one sends a create, each request is *)
(* sent once, a mutation is sent only for an order the exchange took, and  *)
(* what is shown of an order is an outcome the exchange has.               *)
(***************************************************************************)
EXTENDS Integers

CONSTANTS
  Executions,  \* one per intent and environment
  authOf,      \* the authorization of an execution
  Kinds,       \* the kinds of request, "CREATE" among them
  Quantity,    \* the quantity of the intent
  Fills        \* the fills an order can reach

VARIABLES
  granted,     \* the executions an authorization was spent for
  sends,       \* how often each request was sent
  order,       \* the order at the exchange
  shown        \* what the local order claims

vars == <<granted, sends, order, shown>>

OrderState == [status: {"none", "open", "canceled", "rejected"}, filled: Fills]
Claim == [claim: {"none", "working", "FILLED", "CANCELED", "REJECTED"}, filled: Fills]

Init ==
  /\ granted = {}
  /\ sends = [q \in Executions \X Kinds |-> 0]
  /\ order = [x \in Executions |-> [status |-> "none", filled |-> 0]]
  /\ shown = [x \in Executions |-> [claim |-> "none", filled |-> 0]]

Grant(x) ==
  /\ \A y \in granted : authOf[y] # authOf[x]
  /\ granted' = granted \union {x}
  /\ UNCHANGED <<sends, order, shown>>

Taken(x) == order[x].status \in {"open", "canceled"}

Send(x, k) ==
  /\ sends[<<x, k>>] = 0
  /\ IF k = "CREATE" THEN x \in granted ELSE Taken(x)
  /\ sends' = [sends EXCEPT ![<<x, k>>] = 1]
  /\ UNCHANGED <<granted, order, shown>>

\* The steps of a status at the exchange; only a cancel that was sent ends
\* an open order.
Moves(x) ==
  { <<"none", "open">>, <<"none", "rejected">>, <<"open", "open">> }
    \union IF "CANCEL" \in Kinds /\ sends[<<x, "CANCEL">>] = 1
             THEN {<<"open", "canceled">>} ELSE {}

Happen(x) ==
  /\ sends[<<x, "CREATE">>] = 1
  /\ \E o \in OrderState :
       /\ <<order[x].status, o.status>> \in Moves(x)
       /\ o.filled >= order[x].filled
       /\ order' = [order EXCEPT ![x] = o]
  /\ UNCHANGED <<granted, sends, shown>>

\* FILLED claims the quantity of the intent, not that an order enlarged since
\* has nothing left to fill.
BornOut(x, s) ==
  /\ s.claim # "none"
  /\ s.filled <= order[x].filled
  /\ s.claim = "FILLED" => order[x].filled >= Quantity
  /\ s.claim = "CANCELED" => order[x].status = "canceled"
  /\ s.claim = "REJECTED" => order[x].status = "rejected"

\* A restart may show several orders anew.
Show ==
  /\ shown' \in [Executions -> Claim]
  /\ \A x \in Executions : shown'[x] # shown[x] => BornOut(x, shown'[x])
  /\ UNCHANGED <<granted, sends, order>>

Next ==
  \/ \E x \in Executions : Grant(x) \/ Happen(x) \/ \E k \in Kinds : Send(x, k)
  \/ Show

Spec == Init /\ [][Next]_vars
=============================================================================
