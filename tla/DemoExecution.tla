---------------------------- MODULE DemoExecution ----------------------------
(***************************************************************************)
(* M14, the demo and paper execution engine: submit and mutate orders over *)
(* a durable journal, and recover after a restart without sending again.   *)
(*                                                                         *)
(* Every write of ExecutionStore is a transaction of its own, so a worker  *)
(* can die, and another one act, between any two of them.  The caller of   *)
(* mutate passes a LocalOrder it obtained earlier; nothing compares it     *)
(* with the stored row.  One request of each kind is considered per        *)
(* execution, which is what the UNIQUE(execution_id,kind,body_hash) of the *)
(* attempts allows for one body.  A Bug... operator is a faulty variant of *)
(* the definition that follows it.                                         *)
(***************************************************************************)
EXTENDS Integers

CONSTANTS
  Workers,     \* callers of the engine
  Executions,  \* one per intent and environment
  Auths,       \* M13 authorizations; one per intent, like the client order id
  authOf,      \* [Executions -> Auths]
  Mutations,   \* the kinds of mutation in use
  Quantity,    \* the quantity of the intent; an amended order asks for one more
  MayCrash,    \* whether workers die
  NoExecution

ASSUME DemoAssumption ==
  /\ authOf \in [Executions -> Auths]
  /\ Mutations \subseteq {"CANCEL", "AMEND", "DECREASE"}
  /\ Quantity \in Nat \ {0}
  /\ MayCrash \in BOOLEAN
  /\ NoExecution \notin Executions

VARIABLES
  auth,        \* risk_authorizations.state, seen through consume
  journal,     \* execution_journals
  attempts,    \* mutation_attempts
  rows,        \* local_orders
  recovering,  \* the rows recover read and has not written yet
  proc,        \* each worker's step and the values it carries
  held,        \* the reconciled LocalOrder callers hold of an execution
  sends,       \* external: how often each request was handed to the network
  wire,        \* external: requests travelling to the exchange
  reply,       \* external: the exchange's answer to each request
  exch         \* external: the order at the exchange

storeVars == <<journal, attempts, rows, recovering>>
exchangeVars == <<wire, reply, exch>>
vars == <<auth, storeVars, proc, held, sends, exchangeVars>>

-----------------------------------------------------------------------------
(* Types *)

Kinds    == {"CREATE"} \union Mutations
Requests == Executions \X Kinds
Fills    == 0..Quantity + 1

Entry == [state: {"NONE", "JOURNALED_NOT_SENT", "AUTHORIZATION_NOT_CONSUMED",
                  "SEND_STARTED", "PROVEN_UNSENT", "RESPONSE_UNKNOWN", "REJECTED",
                  "RESPONSE_PERSISTED_RECONCILE_REQUIRED", "ACK_RECONCILE_REQUIRED",
                  "RECOVERY_RECONCILIATION_REQUIRED"},
          may: BOOLEAN]
Pending  == {"CANCELLATION_PENDING", "AMENDMENT_PENDING", "DECREASE_PENDING"}
Settled  == {"ACCEPTED", "PARTIALLY_FILLED", "FILLED", "CANCELED", "REJECTED"}
Unknown  == "UNKNOWN_RECONCILIATION_REQUIRED"
OrderStates == {"NONE", "SUBMISSION_PENDING", Unknown} \union Pending \union Settled
Order    == [state: OrderStates, filled: 0..Quantity, recon: BOOLEAN]

Steps == {"idle", "pending", "consume", "started", "send", "answer", "settle", "save"}
Proc  == [pc: Steps, exec: Executions \union {NoExecution}, kind: Kinds,
          seen: 0..Quantity, result: {"NONE", "UNSENT", Unknown} \union Settled,
          filled: 0..Quantity]

Omitted == -1   \* a response without filled_quantity
Reply == [status: {"none", "accepted", "refused"}, reported: {Omitted} \union Fills]
Exchange == [status: {"none", "open", "canceled", "rejected"}, size: Fills, filled: Fills]

NoEntry == [state |-> "NONE", may |-> FALSE]
NoRow   == [state |-> "NONE", filled |-> 0, recon |-> TRUE]
NoReply == [status |-> "none", reported |-> Omitted]
Idle    == [pc |-> "idle", exec |-> NoExecution, kind |-> "CREATE", seen |-> 0,
            result |-> "NONE", filled |-> 0]

Init ==
  /\ auth = [k \in Auths |-> "ISSUED"]
  /\ journal = [x \in Executions |-> NoEntry]
  /\ attempts = [x \in Executions |-> [k \in Mutations |-> NoEntry]]
  /\ rows = [x \in Executions |-> NoRow]
  /\ recovering = {}
  /\ proc = [w \in Workers |-> Idle]
  /\ held = [x \in Executions |-> NoRow]
  /\ sends = [q \in Requests |-> 0]
  /\ wire = {}
  /\ reply = [q \in Requests |-> NoReply]
  /\ exch = [x \in Executions |-> [status |-> "none", size |-> 0, filled |-> 0]]

At(w, step) == proc[w].pc = step
Exec(w)     == proc[w].exec
Kind(w)     == proc[w].kind
Request(w)  == <<Exec(w), Kind(w)>>
Goto(w, step) == proc' = [proc EXCEPT ![w].pc = step]
Return(w)     == proc' = [proc EXCEPT ![w] = Idle]

\* One UPDATE of the journal row or of the attempt row of a request.
Note(x, k, st, may) ==
  IF k = "CREATE"
    THEN /\ journal' = [journal EXCEPT ![x] = [state |-> st, may |-> may]]
         /\ UNCHANGED attempts
    ELSE /\ attempts' = [attempts EXCEPT ![x][k] = [state |-> st, may |-> may]]
         /\ UNCHANGED journal

BugSaveOrderFilledSettled(x, st, filled) ==
  rows' = [rows EXCEPT ![x] = [state |-> st, filled |-> filled, recon |-> st # "FILLED"]]

\* The upsert of save_order, unconditional; every engine transition leaves
\* reconciliation_required set.
SaveOrder(x, st, filled) ==
  rows' = [rows EXCEPT ![x] = [state |-> st, filled |-> filled, recon |-> TRUE]]

\* _TRANSITIONS of a submitted order, as far as reconciliation uses them.
Reachable(from, to) ==
  \/ from = Unknown /\ to \in Settled
  \/ from \in {"ACCEPTED", "PARTIALLY_FILLED"} /\ to \in {"PARTIALLY_FILLED", "FILLED"}
  \/ from \in Pending /\ to \in {"PARTIALLY_FILLED", "FILLED"}
  \/ from \in Pending \ {"CANCELLATION_PENDING"} /\ to = "ACCEPTED"
  \/ from \in {"CANCELLATION_PENDING", "DECREASE_PENDING"} /\ to = "CANCELED"

-----------------------------------------------------------------------------
(* submit *)

\* execution_id, client_order_id and authorization_id are each UNIQUE; two
\* environments of one intent share the last two.
Unowned(x) ==
  \A y \in Executions : authOf[y] = authOf[x] => journal[y].state = "NONE"

SubmitCall(w, x) ==
  /\ At(w, "idle")
  /\ Unowned(x)
  /\ Note(x, "CREATE", "JOURNALED_NOT_SENT", FALSE)
  /\ proc' = [proc EXCEPT ![w] = [pc |-> "pending", exec |-> x, kind |-> "CREATE",
                                  seen |-> 0, result |-> "NONE", filled |-> 0]]
  /\ UNCHANGED <<auth, rows, recovering, held, sends, exchangeVars>>

PendingOf(k) ==
  CASE k = "CREATE"   -> "SUBMISSION_PENDING"
    [] k = "CANCEL"   -> "CANCELLATION_PENDING"
    [] k = "AMEND"    -> "AMENDMENT_PENDING"
    [] k = "DECREASE" -> "DECREASE_PENDING"

SavePending(w) ==
  /\ At(w, "pending")
  /\ SaveOrder(Exec(w), PendingOf(Kind(w)), proc[w].seen)
  /\ Goto(w, IF Kind(w) = "CREATE" THEN "consume" ELSE "started")
  /\ UNCHANGED <<auth, journal, attempts, recovering, held, sends, exchangeVars>>

\* The M13 store decides.  It may refuse an ISSUED authorization too (expiry, a
\* hash, compliance, the halt); a refusal is journaled and raised.
Consume(w) ==
  LET k == authOf[Exec(w)] IN
  /\ At(w, "consume")
  /\ \/ /\ auth[k] = "ISSUED"
        /\ auth' = [auth EXCEPT ![k] = "CONSUMED"]
        /\ Goto(w, "started")
        /\ UNCHANGED <<journal, attempts>>
     \/ /\ Note(Exec(w), "CREATE", "AUTHORIZATION_NOT_CONSUMED", FALSE)
        /\ Return(w)
        /\ UNCHANGED auth
  /\ UNCHANGED <<rows, recovering, held, sends, exchangeVars>>

-----------------------------------------------------------------------------
(* mutate *)

\* The copy the caller passes must be reconciled, and the attempt new.
Mutable(x, k) ==
  /\ held[x].state # "NONE" /\ ~held[x].recon
  /\ attempts[x][k].state = "NONE"

BugMutateTerminal(w, x, k) ==
  /\ At(w, "idle")
  /\ Mutable(x, k)
  /\ Note(x, k, "JOURNALED_NOT_SENT", FALSE)
  /\ proc' = [proc EXCEPT ![w] = [pc |-> "pending", exec |-> x, kind |-> k,
                seen |-> held[x].filled, result |-> "NONE", filled |-> 0]]
  /\ UNCHANGED <<auth, rows, recovering, held, sends, exchangeVars>>

\* A terminal order raises in transition, after its attempt was journaled.
MutateCall(w, x, k) ==
  /\ At(w, "idle")
  /\ Mutable(x, k)
  /\ Note(x, k, "JOURNALED_NOT_SENT", FALSE)
  /\ IF held[x].state \in {"ACCEPTED", "PARTIALLY_FILLED"}
       THEN proc' = [proc EXCEPT ![w] = [pc |-> "pending", exec |-> x, kind |-> k,
                       seen |-> held[x].filled, result |-> "NONE", filled |-> 0]]
       ELSE UNCHANGED proc
  /\ UNCHANGED <<auth, rows, recovering, held, sends, exchangeVars>>

-----------------------------------------------------------------------------
(* Sending, common to both *)

BugMarkStarted(w) ==
  /\ At(w, "started")
  /\ Goto(w, "send")
  /\ UNCHANGED <<auth, storeVars, held, sends, exchangeVars>>

MarkStarted(w) ==
  /\ At(w, "started")
  /\ Note(Exec(w), Kind(w), "SEND_STARTED", TRUE)
  /\ Goto(w, "send")
  /\ UNCHANGED <<auth, rows, recovering, held, sends, exchangeVars>>

Send(w) ==
  /\ At(w, "send")
  /\ sends' = [sends EXCEPT ![Request(w)] = @ + 1]
  /\ wire' = wire \union {Request(w)}
  /\ Goto(w, "answer")
  /\ UNCHANGED <<auth, storeVars, held, reply, exch>>

Learn(w, result, filled) ==
  proc' = [proc EXCEPT ![w] = [pc |-> "settle", exec |-> Exec(w), kind |-> Kind(w),
             seen |-> proc[w].seen, result |-> result, filled |-> filled]]

\* AmbiguousMutation with may_have_been_sent false.
ProvenUnsent(w) ==
  /\ At(w, "send")
  /\ Learn(w, "UNSENT", proc[w].seen)
  /\ UNCHANGED <<auth, storeVars, held, sends, exchangeVars>>

\* What mutate makes of the filled quantity of a 2xx response.
MutationResult(k, seen, filled) ==
  CASE filled = Quantity                                     -> "FILLED"
    [] filled # Quantity /\ filled > seen                    -> "PARTIALLY_FILLED"
    [] filled # Quantity /\ filled <= seen /\ k = "CANCEL"   -> "CANCELED"
    [] OTHER                                                 -> "ACCEPTED"

\* An acknowledged mutation whose fill is below the copy's or above the
\* original quantity raises out of transition, with nothing written.
Acknowledge(w) ==
  LET said   == reply[Request(w)].reported
      filled == IF said = Omitted THEN proc[w].seen ELSE said IN
  /\ At(w, "answer")
  /\ reply[Request(w)].status = "accepted"
  /\ IF Kind(w) = "CREATE"
       THEN Learn(w, "ACCEPTED", 0)
       ELSE IF filled \in proc[w].seen..Quantity
              THEN Learn(w, MutationResult(Kind(w), proc[w].seen, filled), filled)
              ELSE Return(w)
  /\ UNCHANGED <<auth, storeVars, held, sends, exchangeVars>>

\* A 4xx refuses a create; any other mutation answer than 2xx is unknown.
Refused(w) ==
  /\ At(w, "answer")
  /\ reply[Request(w)].status = "refused"
  /\ Learn(w, IF Kind(w) = "CREATE" THEN "REJECTED" ELSE Unknown, proc[w].seen)
  /\ UNCHANGED <<auth, storeVars, held, sends, exchangeVars>>

BugNoAnswerRetries(w) ==
  /\ At(w, "answer")
  /\ Goto(w, "send")
  /\ UNCHANGED <<auth, storeVars, held, sends, exchangeVars>>

BugNoAnswerUnsent(w) ==
  /\ At(w, "answer")
  /\ Learn(w, "UNSENT", proc[w].seen)
  /\ UNCHANGED <<auth, storeVars, held, sends, exchangeVars>>

\* Timeout after a possible send, 429, 5xx or a malformed answer.
NoAnswer(w) ==
  /\ At(w, "answer")
  /\ Learn(w, Unknown, proc[w].seen)
  /\ UNCHANGED <<auth, storeVars, held, sends, exchangeVars>>

Outcome(k, result) ==
  CASE result = "UNSENT"                        -> "PROVEN_UNSENT"
    [] result = Unknown                         -> "RESPONSE_UNKNOWN"
    [] result = "REJECTED"                      -> "REJECTED"
    [] result = "ACCEPTED" /\ k = "CREATE"      -> "RESPONSE_PERSISTED_RECONCILE_REQUIRED"
    [] OTHER                                    -> "ACK_RECONCILE_REQUIRED"

\* The journal first, ...
Settle(w) ==
  LET result == proc[w].result IN
  /\ At(w, "settle")
  /\ Note(Exec(w), Kind(w), Outcome(Kind(w), result), result # "UNSENT")
  /\ IF result = "UNSENT" THEN Return(w) ELSE Goto(w, "save")
  /\ UNCHANGED <<auth, rows, recovering, held, sends, exchangeVars>>

\* ... then the order as this worker computed it.
Save(w) ==
  /\ At(w, "save")
  /\ SaveOrder(Exec(w), proc[w].result, proc[w].filled)
  /\ Return(w)
  /\ UNCHANGED <<auth, journal, attempts, recovering, held, sends, exchangeVars>>

-----------------------------------------------------------------------------
(* Restart *)

\* A process dies, or an exception of the transport leaves it.
Crash(w) ==
  /\ MayCrash
  /\ ~At(w, "idle")
  /\ Return(w)
  /\ UNCHANGED <<auth, storeVars, held, sends, exchangeVars>>

Incomplete == {x \in Executions :
                 journal[x].state \notin {"NONE", "RECONCILED", "PROVEN_UNSENT"}}

\* recover reads the incomplete journals on one connection ...
RecoverRead ==
  /\ recovering = {}
  /\ Incomplete # {}
  /\ recovering' = Incomplete
  /\ UNCHANGED <<auth, journal, attempts, rows, proc, held, sends, exchangeVars>>

\* ... and marks what it read on another; may_have_been_sent stays.
RecoverWrite ==
  /\ recovering # {}
  /\ journal' = [x \in Executions |->
       IF x \in recovering
         THEN [state |-> "RECOVERY_RECONCILIATION_REQUIRED", may |-> journal[x].may]
         ELSE journal[x]]
  /\ rows' = [x \in Executions |->
       IF x \in recovering /\ rows[x].state # "NONE"
         THEN [state |-> Unknown, filled |-> rows[x].filled, recon |-> TRUE]
         ELSE rows[x]]
  /\ recovering' = {}
  /\ UNCHANGED <<auth, attempts, proc, held, sends, exchangeVars>>

-----------------------------------------------------------------------------
(* The authorization store, the reconciling caller and the exchange *)

\* Expiry or a halt takes an authorization back.
LoseAuth(k) ==
  /\ auth[k] = "ISSUED"
  /\ auth' = [auth EXCEPT ![k] = "REVOKED"]
  /\ UNCHANGED <<storeVars, proc, held, sends, exchangeVars>>

Live(x) == exch[x].status = "open" /\ exch[x].filled < exch[x].size

\* What REST reads show of an order: the exchange judges an open order by the
\* size it has there, which an amend or a decrease changed.
TruthOf(x) ==
  CASE exch[x].status = "rejected"              -> "REJECTED"
    [] exch[x].status = "canceled"              -> "CANCELED"
    [] exch[x].status = "open" /\ ~Live(x)      -> "FILLED"
    [] Live(x) /\ exch[x].filled > 0            -> "PARTIALLY_FILLED"
    [] OTHER                                    -> "ACCEPTED"

\* transition judges the fill of a state by the quantity of the intent.
QuantityAllows(st, filled) ==
  /\ st = "FILLED" => filled = Quantity
  /\ st = "PARTIALLY_FILLED" => filled \in 1..Quantity - 1

\* External: a caller found the order exactly once and transitions its row
\* with reconciled=True, which transition allows for a fill within bounds.
Reconcile(x) ==
  LET copy == [state |-> TruthOf(x), filled |-> exch[x].filled, recon |-> FALSE] IN
  /\ rows[x].state # "NONE"
  /\ exch[x].status # "none"
  /\ rows[x].state = TruthOf(x) \/ Reachable(rows[x].state, TruthOf(x))
  /\ exch[x].filled \in rows[x].filled..Quantity
  /\ QuantityAllows(TruthOf(x), exch[x].filled)
  /\ rows' = [rows EXCEPT ![x] = copy]
  /\ held' = [held EXCEPT ![x] = copy]
  /\ UNCHANGED <<auth, journal, attempts, recovering, proc, sends, exchangeVars>>

Fill(x) ==
  /\ Live(x)
  /\ exch' = [exch EXCEPT ![x].filled = @ + 1]
  /\ UNCHANGED <<auth, storeVars, proc, held, sends, wire, reply>>

\* The exchange accepts a request: a create or an amend may fill at once.
Execute(x, k) ==
  \/ /\ k = "CREATE"
     /\ exch[x].status = "none"
     /\ \E f \in 0..Quantity :
          exch' = [exch EXCEPT ![x] = [status |-> "open", size |-> Quantity, filled |-> f]]
  \/ /\ k = "CANCEL"
     /\ Live(x)
     /\ exch' = [exch EXCEPT ![x].status = "canceled"]
  \/ /\ k = "AMEND"
     /\ Live(x)
     /\ \E f \in exch[x].filled..Quantity + 1 :
          exch' = [exch EXCEPT ![x] =
                     [status |-> "open", size |-> Quantity + 1, filled |-> f]]
  \/ /\ k = "DECREASE"
     /\ Live(x)
     /\ \E s \in 1..exch[x].size - 1 :
          s >= exch[x].filled /\ exch' = [exch EXCEPT ![x].size = s]

Arrive(x, k) ==
  /\ <<x, k>> \in wire
  /\ wire' = wire \ {<<x, k>>}
  /\ \/ /\ Execute(x, k)
        /\ \E said \in {Omitted, exch'[x].filled} :
             reply' = [reply EXCEPT ![<<x, k>>] = [status |-> "accepted", reported |-> said]]
     \/ /\ reply' = [reply EXCEPT ![<<x, k>>] = [status |-> "refused", reported |-> Omitted]]
        /\ exch' = IF k = "CREATE" THEN [exch EXCEPT ![x].status = "rejected"] ELSE exch
  /\ UNCHANGED <<auth, storeVars, proc, held, sends>>

-----------------------------------------------------------------------------
Call(w) ==
  \E x \in Executions : SubmitCall(w, x) \/ \E k \in Mutations : MutateCall(w, x, k)

Advance(w) ==
  \/ SavePending(w) \/ Consume(w) \/ MarkStarted(w) \/ Send(w) \/ ProvenUnsent(w)
  \/ Acknowledge(w) \/ Refused(w) \/ NoAnswer(w) \/ Settle(w) \/ Save(w)

Environment ==
  \/ RecoverRead \/ RecoverWrite
  \/ \E k \in Auths : LoseAuth(k)
  \/ \E x \in Executions :
       Reconcile(x) \/ Fill(x) \/ \E k \in Kinds : Arrive(x, k)

Next == Environment \/ \E w \in Workers : Call(w) \/ Advance(w) \/ Crash(w)

Spec == Init /\ [][Next]_vars

-----------------------------------------------------------------------------
(* Properties *)

TypeOK ==
  /\ auth \in [Auths -> {"ISSUED", "CONSUMED", "REVOKED"}]
  /\ journal \in [Executions -> Entry]
  /\ attempts \in [Executions -> [Mutations -> Entry]]
  /\ rows \in [Executions -> Order]
  /\ recovering \subseteq Executions
  /\ proc \in [Workers -> Proc]
  /\ held \in [Executions -> Order]
  /\ sends \in [Requests -> Nat]
  /\ wire \subseteq Requests
  /\ reply \in [Requests -> Reply]
  /\ exch \in [Executions -> Exchange]

EntryOf(x, k) == IF k = "CREATE" THEN journal[x] ELSE attempts[x][k]

\* Whatever crashes, races and recoveries happen, no request is sent twice,
\* and of the environments of one intent only one sends a create.
RequestSentOnce ==
  /\ \A q \in Requests : sends[q] <= 1
  /\ \A x, y \in Executions :
       sends[<<x, "CREATE">>] > 0 /\ sends[<<y, "CREATE">>] > 0 /\ authOf[x] = authOf[y] => x = y

\* A create was authorized, and its journal and order row stay such that
\* recover finds and marks them, also when recover raced the worker.
SentIsRecoverable ==
  \A x \in Executions : sends[<<x, "CREATE">>] > 0 =>
    /\ auth[authOf[x]] = "CONSUMED"
    /\ journal[x].may
    /\ x \in Incomplete
    /\ rows[x].state # "NONE"

\* Nothing that was handed to the network is journaled as unsent.
SentIsNeverUnsent ==
  \A q \in Requests : sends[q] > 0 =>
    /\ EntryOf(q[1], q[2]).may
    /\ EntryOf(q[1], q[2]).state # "PROVEN_UNSENT"

\* The local order never shows a fill, a cancellation or a rejection the
\* exchange does not have, whatever stale copies were saved.  mutate takes the
\* quantity of the intent for the size of the order, so an order an amend
\* enlarged is shown FILLED, a terminal state, while the exchange works the
\* rest; what holds is that such a row still says reconciliation_required, and
\* that a reconciled FILLED is final at the exchange too.
NoPhantomOutcome ==
  \A x \in Executions :
    /\ rows[x].filled <= exch[x].filled
    /\ rows[x].state = "FILLED" =>
         exch[x].filled >= Quantity /\ (rows[x].recon \/ ~Live(x))
    /\ rows[x].state = "CANCELED" => exch[x].status = "canceled"
    /\ rows[x].state = "REJECTED" => exch[x].status = "rejected"

-----------------------------------------------------------------------------
(* The abstract specification this one implements *)

\* What the state of a local order claims of the order at the exchange.
ClaimOf(st) ==
  CASE st = "NONE"                               -> "none"
    [] st \in {"FILLED", "CANCELED", "REJECTED"} -> st
    [] OTHER                                     -> "working"

Granted == {x \in Executions : journal[x].state # "NONE" /\ auth[authOf[x]] = "CONSUMED"}
Placed  == [x \in Executions |-> [status |-> exch[x].status, filled |-> exch[x].filled]]
Shown   == [x \in Executions |-> [claim |-> ClaimOf(rows[x].state), filled |-> rows[x].filled]]

Intents == INSTANCE IntentOrders WITH granted <- Granted, order <- Placed, shown <- Shown

\* Seen from outside, every crash, race and recovery is a step of IntentOrders:
\* the journaled execution is the one its authorization is spent for, only it
\* sends a create, and a mutation goes out only for an order the exchange took.
ImplementsIntentOrders == Intents!Spec
=============================================================================
