------------------------ MODULE DemoExecution_proofs ------------------------
(***************************************************************************)
(* The demo engine for any number of workers, executions and any quantity: *)
(* no request leaves twice, what left can be recovered, and no local order *)
(* shows an outcome the exchange does not have.                            *)
(***************************************************************************)
EXTENDS DemoExecution, TLAPS

Busy(w) == proc[w].pc # "idle"

LEMMA Constants ==
  /\ Quantity \in Nat /\ Quantity >= 1 /\ Omitted = -1
  /\ "CREATE" \notin Mutations /\ "CREATE" \in Kinds /\ Mutations \subseteq Kinds
  /\ Kinds \subseteq {"CREATE", "CANCEL", "AMEND", "DECREASE"}
  /\ authOf \in [Executions -> Auths] /\ NoExecution \notin Executions
  BY DemoAssumption DEF Kinds, Omitted

-----------------------------------------------------------------------------
(* Types *)

LEMMA Fields ==
  ASSUME TypeOK, NEW w \in Workers
  PROVE  /\ proc[w] \in Proc /\ proc[w].pc \in Steps
         /\ proc[w].exec \in Executions \union {NoExecution} /\ proc[w].kind \in Kinds
         /\ proc[w].seen \in 0..Quantity /\ proc[w].filled \in 0..Quantity
         /\ proc[w].result \in {"NONE", "UNSENT", Unknown} \union Settled
  BY DEF TypeOK, Proc

LEMMA IdleType == Idle \in Proc
  BY Constants DEF Idle, Proc, Steps

\* A row of the journal or of the attempts is written, the others stay.
LEMMA NoteType ==
  ASSUME TypeOK, NEW x \in Executions, NEW k \in Kinds, NEW st, NEW may \in BOOLEAN,
         [state |-> st, may |-> may] \in Entry, Note(x, k, st, may)
  PROVE  /\ journal' \in [Executions -> Entry]
         /\ attempts' \in [Executions -> [Mutations -> Entry]]
<1>1. CASE k = "CREATE"
  BY <1>1 DEF Note, TypeOK
<1>2. CASE k # "CREATE"
  <2>1. k \in Mutations
    BY <1>2 DEF Kinds
  <2>2. attempts[x] \in [Mutations -> Entry]
    BY DEF TypeOK
  <2>3. attempts' = [attempts EXCEPT ![x] = [attempts[x] EXCEPT ![k] = [state |-> st, may |-> may]]]
    BY <1>2 DEF Note, TypeOK
  <2>4. [attempts[x] EXCEPT ![k] = [state |-> st, may |-> may]] \in [Mutations -> Entry]
    BY <2>1, <2>2
  <2>5. attempts' \in [Executions -> [Mutations -> Entry]]
    BY <2>3, <2>4 DEF TypeOK
  <2> QED
    BY <1>2, <2>5 DEF Note, TypeOK
<1> QED
  BY <1>1, <1>2

LEMMA NoteEffect ==
  ASSUME TypeOK, NEW x \in Executions, NEW k \in Kinds, NEW st, NEW may,
         Note(x, k, st, may)
  PROVE  /\ EntryOf(x, k)' = [state |-> st, may |-> may]
         /\ \A y \in Executions, j \in Kinds :
              ~(y = x /\ j = k) => EntryOf(y, j)' = EntryOf(y, j)
<1>1. CASE k = "CREATE"
  BY <1>1 DEF Note, TypeOK, EntryOf
<1>2. CASE k # "CREATE"
  <2>1. k \in Mutations /\ journal' = journal
    BY <1>2 DEF Kinds, Note
  <2>2. attempts[x] \in [Mutations -> Entry]
    BY DEF TypeOK
  <2>3. attempts' = [attempts EXCEPT ![x] = [attempts[x] EXCEPT ![k] = [state |-> st, may |-> may]]]
    BY <1>2 DEF Note, TypeOK
  <2>4. attempts'[x][k] = [state |-> st, may |-> may]
    BY <2>1, <2>2, <2>3 DEF TypeOK
  <2>5. \A y \in Executions, j \in Mutations :
          ~(y = x /\ j = k) => attempts'[y][j] = attempts[y][j]
    BY <2>1, <2>2, <2>3 DEF TypeOK
  <2> QED
    BY <1>2, <2>1, <2>4, <2>5 DEF EntryOf, Kinds
<1> QED
  BY <1>1, <1>2

\* A worker moves on to a step, or with new values.
LEMMA GotoType ==
  ASSUME TypeOK, NEW w \in Workers, NEW step \in Steps, Goto(w, step)
  PROVE  /\ proc' \in [Workers -> Proc]
         /\ proc'[w] = [proc[w] EXCEPT !.pc = step]
         /\ proc'[w].pc = step /\ proc'[w].exec = proc[w].exec /\ proc'[w].kind = proc[w].kind
         /\ proc'[w].seen = proc[w].seen /\ proc'[w].result = proc[w].result
         /\ proc'[w].filled = proc[w].filled
         /\ \A v \in Workers \ {w} : proc'[v] = proc[v]
<1>1. proc' = [proc EXCEPT ![w] = [proc[w] EXCEPT !.pc = step]]
  BY DEF Goto, TypeOK
<1>2. [proc[w] EXCEPT !.pc = step] \in Proc
  BY Fields DEF Proc
<1>3. proc'[w] = [proc[w] EXCEPT !.pc = step] /\ \A v \in Workers \ {w} : proc'[v] = proc[v]
  BY <1>1 DEF TypeOK
<1>4. proc' \in [Workers -> Proc]
  BY <1>1, <1>2 DEF TypeOK
<1> QED
  BY <1>3, <1>4, Fields DEF Proc

LEMMA BecomesType ==
  ASSUME TypeOK, NEW w \in Workers, NEW p \in Proc, proc' = [proc EXCEPT ![w] = p]
  PROVE  /\ proc' \in [Workers -> Proc] /\ proc'[w] = p
         /\ \A v \in Workers \ {w} : proc'[v] = proc[v]
  BY DEF TypeOK

\* The values a worker carries after an answer.
LEMMA LearnType ==
  ASSUME TypeOK, NEW w \in Workers, NEW result \in {"UNSENT", Unknown} \union Settled,
         NEW filled \in 0..Quantity, Learn(w, result, filled)
  PROVE  /\ proc' \in [Workers -> Proc]
         /\ proc'[w].pc = "settle" /\ proc'[w].exec = proc[w].exec
         /\ proc'[w].kind = proc[w].kind /\ proc'[w].seen = proc[w].seen
         /\ proc'[w].result = result /\ proc'[w].filled = filled
         /\ \A v \in Workers \ {w} : proc'[v] = proc[v]
<1> DEFINE p == [pc |-> "settle", exec |-> Exec(w), kind |-> Kind(w),
                 seen |-> proc[w].seen, result |-> result, filled |-> filled]
<1>1. p \in Proc
  BY Fields DEF Proc, Steps, Exec, Kind
<1>2. /\ p.pc = "settle" /\ p.exec = proc[w].exec /\ p.kind = proc[w].kind
      /\ p.seen = proc[w].seen /\ p.result = result /\ p.filled = filled
  BY DEF Exec, Kind
<1>3. proc' = [proc EXCEPT ![w] = p]
  BY DEF Learn
<1> HIDE DEF p
<1> QED
  BY <1>1, <1>2, <1>3, BecomesType

LEMMA ReturnType ==
  ASSUME TypeOK, NEW w \in Workers, Return(w)
  PROVE  /\ proc' \in [Workers -> Proc] /\ proc'[w] = Idle /\ proc'[w].pc = "idle"
         /\ \A v \in Workers \ {w} : proc'[v] = proc[v]
  BY IdleType, BecomesType DEF Return, Idle

LEMMA SaveType ==
  ASSUME TypeOK, NEW x \in Executions, NEW st \in OrderStates, NEW filled \in 0..Quantity,
         SaveOrder(x, st, filled)
  PROVE  /\ rows' \in [Executions -> Order]
         /\ rows'[x].state = st /\ rows'[x].filled = filled
         /\ \A y \in Executions \ {x} : rows'[y] = rows[y]
  BY DEF SaveOrder, TypeOK, Order

-----------------------------------------------------------------------------
(* Type correctness, action by action *)

LEMMA InitType == Init => TypeOK
<1> SUFFICES ASSUME Init PROVE TypeOK
  OBVIOUS
<1>1. NoEntry \in Entry /\ NoRow \in Order /\ NoReply \in Reply
      /\ [status |-> "none", size |-> 0, filled |-> 0] \in Exchange
  BY Constants DEF NoEntry, Entry, NoRow, Order, OrderStates, NoReply, Reply, Exchange, Fills
<1> QED
  BY <1>1, IdleType DEF Init, TypeOK

\* The outcome that is journaled has a state of the journal.
LEMMA OutcomeType ==
  ASSUME NEW k, NEW result, NEW may \in BOOLEAN
  PROVE  /\ [state |-> Outcome(k, result), may |-> may] \in Entry
         /\ Outcome(k, result) # "NONE"
         /\ result # "UNSENT" => Outcome(k, result) # "PROVEN_UNSENT"
<1>1. Outcome(k, result) \in {"PROVEN_UNSENT", "RESPONSE_UNKNOWN", "REJECTED",
                   "RESPONSE_PERSISTED_RECONCILE_REQUIRED", "ACK_RECONCILE_REQUIRED"}
  BY DEF Outcome
<1>2. result # "UNSENT" => Outcome(k, result) # "PROVEN_UNSENT"
  BY DEF Outcome
<1> QED
  BY <1>1, <1>2 DEF Entry

LEMMA CallType ==
  ASSUME TypeOK, NEW w \in Workers, NEW x \in Executions,
         SubmitCall(w, x) \/ \E k \in Mutations : MutateCall(w, x, k)
  PROVE  TypeOK'
<1>1. [state |-> "JOURNALED_NOT_SENT", may |-> FALSE] \in Entry
  BY DEF Entry
<1>2. CASE SubmitCall(w, x)
  <2> DEFINE p == [pc |-> "pending", exec |-> x, kind |-> "CREATE",
                   seen |-> 0, result |-> "NONE", filled |-> 0]
  <2>1. p \in Proc
    BY Constants DEF Proc, Steps
  <2>2. /\ Note(x, "CREATE", "JOURNALED_NOT_SENT", FALSE) /\ proc' = [proc EXCEPT ![w] = p]
        /\ UNCHANGED <<auth, rows, recovering, held, sends, exchangeVars>>
    BY <1>2 DEF SubmitCall
  <2> HIDE DEF p
  <2>3. proc' \in [Workers -> Proc]
    BY <2>1, <2>2, BecomesType
  <2>4. journal' \in [Executions -> Entry] /\ attempts' \in [Executions -> [Mutations -> Entry]]
    BY <1>1, <2>2, NoteType, Constants
  <2> QED
    BY <2>2, <2>3, <2>4 DEF TypeOK, exchangeVars
<1>3. ASSUME NEW k \in Mutations, MutateCall(w, x, k)
      PROVE  TypeOK'
  <2> DEFINE p == [pc |-> "pending", exec |-> x, kind |-> k,
                   seen |-> held[x].filled, result |-> "NONE", filled |-> 0]
  <2>1. p \in Proc
    BY Constants DEF Proc, Steps, TypeOK, Order
  <2>2. /\ Note(x, k, "JOURNALED_NOT_SENT", FALSE)
        /\ proc' = [proc EXCEPT ![w] = p] \/ proc' = proc
        /\ UNCHANGED <<auth, rows, recovering, held, sends, exchangeVars>>
    BY <1>3 DEF MutateCall
  <2> HIDE DEF p
  <2>3. proc' \in [Workers -> Proc]
    BY <2>1, <2>2, BecomesType DEF TypeOK
  <2>4. journal' \in [Executions -> Entry] /\ attempts' \in [Executions -> [Mutations -> Entry]]
    BY <1>1, <2>2, NoteType, Constants
  <2> QED
    BY <2>2, <2>3, <2>4 DEF TypeOK, exchangeVars
<1> QED
  BY <1>2, <1>3

\* What an acknowledged mutation becomes.
LEMMA MutationResultType ==
  ASSUME NEW k, NEW seen, NEW filled
  PROVE  /\ MutationResult(k, seen, filled) \in Settled \ {"REJECTED"}
         /\ MutationResult(k, seen, filled) = "FILLED" => filled = Quantity
         /\ MutationResult(k, seen, filled) = "CANCELED" => k = "CANCEL"
<1>1. MutationResult(k, seen, filled) \in {"FILLED", "PARTIALLY_FILLED", "CANCELED", "ACCEPTED"}
  BY DEF MutationResult
<1>2. MutationResult(k, seen, filled) = "FILLED" => filled = Quantity
  BY DEF MutationResult
<1>3. MutationResult(k, seen, filled) = "CANCELED" => k = "CANCEL"
  BY DEF MutationResult
<1> QED
  BY <1>1, <1>2, <1>3 DEF Settled

\* The four answers: unsent, accepted, refused, none.
LEMMA AnswerKinds ==
  ASSUME TypeOK, NEW w \in Workers,
         ProvenUnsent(w) \/ Acknowledge(w) \/ Refused(w) \/ NoAnswer(w)
  PROVE  /\ UNCHANGED <<auth, storeVars, held, sends, exchangeVars>>
         /\ \/ Return(w) /\ At(w, "answer")
            \/ /\ At(w, "send") /\ Learn(w, "UNSENT", proc[w].seen)
            \/ /\ At(w, "answer") /\ Learn(w, Unknown, proc[w].seen)
            \/ /\ At(w, "answer") /\ Kind(w) = "CREATE" /\ Learn(w, "ACCEPTED", 0)
            \/ /\ At(w, "answer") /\ Kind(w) = "CREATE" /\ Learn(w, "REJECTED", proc[w].seen)
               /\ reply[Request(w)].status = "refused"
            \/ \E filled \in proc[w].seen..Quantity :
                 /\ At(w, "answer") /\ Learn(w, MutationResult(Kind(w), proc[w].seen, filled), filled)
                 /\ reply[Request(w)].status = "accepted"
                 /\ filled = proc[w].seen \/ filled = reply[Request(w)].reported
<1>1. CASE Acknowledge(w)
  <2> DEFINE said == reply[Request(w)].reported
             filled == IF said = Omitted THEN proc[w].seen ELSE said
  <2>1. /\ At(w, "answer") /\ reply[Request(w)].status = "accepted"
        /\ UNCHANGED <<auth, storeVars, held, sends, exchangeVars>>
        /\ IF Kind(w) = "CREATE"
             THEN Learn(w, "ACCEPTED", 0)
             ELSE IF filled \in proc[w].seen..Quantity
                    THEN Learn(w, MutationResult(Kind(w), proc[w].seen, filled), filled)
                    ELSE Return(w)
    BY <1>1 DEF Acknowledge
  <2>2. filled = proc[w].seen \/ filled = reply[Request(w)].reported
    OBVIOUS
  <2> HIDE DEF filled
  <2> QED
    BY <2>1, <2>2
<1>2. CASE ProvenUnsent(w) \/ NoAnswer(w)
  BY <1>2 DEF ProvenUnsent, NoAnswer
<1>3. CASE Refused(w)
  BY <1>3 DEF Refused
<1> QED
  BY <1>1, <1>2, <1>3

LEMMA AnswerType ==
  ASSUME TypeOK, NEW w \in Workers,
         ProvenUnsent(w) \/ Acknowledge(w) \/ Refused(w) \/ NoAnswer(w)
  PROVE  TypeOK'
<1>1. CASE Return(w)
  BY <1>1, AnswerKinds, ReturnType DEF TypeOK, storeVars, exchangeVars
<1>2. ASSUME NEW result \in {"UNSENT", Unknown} \union Settled, NEW filled \in 0..Quantity,
             Learn(w, result, filled)
      PROVE  TypeOK'
  BY <1>2, AnswerKinds, LearnType DEF TypeOK, storeVars, exchangeVars
<1>3. proc[w].seen \in 0..Quantity /\ 0 \in 0..Quantity
      /\ proc[w].seen..Quantity \subseteq 0..Quantity
  BY Fields, Constants
<1>4. {"ACCEPTED", "REJECTED"} \subseteq Settled
  BY DEF Settled
<1> QED
  BY <1>1, <1>2, <1>3, <1>4, AnswerKinds, MutationResultType

-----------------------------------------------------------------------------
(* The inductive invariant of the sends *)

\* A request that recover finds and that nobody takes for unsent.
Marked(x, k) == EntryOf(x, k).may /\ EntryOf(x, k).state \notin {"NONE", "PROVEN_UNSENT"}

\* How far the worker of a request is, and what is durable by then.
Progress(w) == Busy(w) =>
  /\ Exec(w) \in Executions
  /\ EntryOf(Exec(w), Kind(w)).state # "NONE"
  /\ proc[w].pc \in {"pending", "consume", "started", "send"} => sends[Request(w)] = 0
  /\ proc[w].pc = "settle" /\ proc[w].result = "UNSENT" => sends[Request(w)] = 0
  /\ proc[w].pc = "send" => Marked(Exec(w), Kind(w))
  /\ proc[w].pc = "settle" => proc[w].result # "NONE"
  /\ proc[w].pc = "save" => proc[w].result \notin {"NONE", "UNSENT"}
  /\ proc[w].pc = "consume" => Kind(w) = "CREATE"
  /\ Kind(w) = "CREATE" /\ proc[w].pc # "pending" => rows[Exec(w)].state # "NONE"
  /\ Kind(w) = "CREATE" /\ proc[w].pc \notin {"pending", "consume"}
       => auth[authOf[Exec(w)]] = "CONSUMED"

\* What is durable of a request that was handed to the network.
SentMarked(x, k) ==
  /\ sends[<<x, k>>] <= 1
  /\ sends[<<x, k>>] > 0 =>
       /\ Marked(x, k)
       /\ k = "CREATE" => auth[authOf[x]] = "CONSUMED" /\ rows[x].state # "NONE"

OwnsAlone == \A v, w \in Workers : Busy(v) /\ Busy(w) /\ Request(v) = Request(w) => v = w
OneJournal ==
  \A x, y \in Executions :
    journal[x].state # "NONE" /\ journal[y].state # "NONE" /\ authOf[x] = authOf[y] => x = y

SendInv ==
  /\ \A w \in Workers : Progress(w)
  /\ \A x \in Executions, k \in Kinds : SentMarked(x, k)
  /\ OwnsAlone
  /\ OneJournal
  /\ \A x \in recovering : journal[x].state # "NONE"

-----------------------------------------------------------------------------
(* The inductive invariant of the outcomes *)

\* An order state and fill that the exchange bears out, now and later.
BornOut(x, st, filled) ==
  /\ filled <= exch[x].filled
  /\ st = "FILLED" => exch[x].filled >= Quantity
  /\ st = "CANCELED" => exch[x].status = "canceled"
  /\ st = "REJECTED" => exch[x].status = "rejected"

\* The exchange has a request only after it was sent, and answers it once.
Delivered(x, k) ==
  /\ <<x, k>> \in wire => sends[<<x, k>>] > 0 /\ reply[<<x, k>>].status = "none"
  /\ sends[<<x, k>>] = 0 => reply[<<x, k>>].status = "none"
  /\ k = "CREATE" /\ (sends[<<x, k>>] = 0 \/ <<x, k>> \in wire) => exch[x].status = "none"
  /\ reply[<<x, k>>].status = "accepted" => reply[<<x, k>>].reported <= exch[x].filled
  /\ reply[<<x, k>>].status = "accepted" /\ k = "CANCEL" => exch[x].status = "canceled"
  /\ reply[<<x, k>>].status = "refused" /\ k = "CREATE" => exch[x].status = "rejected"

Carried(w) == Busy(w) =>
  /\ proc[w].seen <= exch[Exec(w)].filled
  /\ BornOut(Exec(w), proc[w].result, proc[w].filled)

TruthInv ==
  /\ \A x \in Executions, k \in Kinds : Delivered(x, k)
  /\ \A x \in Executions :
       /\ exch[x].status = "none" => exch[x].filled = 0
       /\ BornOut(x, rows[x].state, rows[x].filled)
       /\ held[x].filled <= exch[x].filled
  /\ \A w \in Workers : Carried(w)

-----------------------------------------------------------------------------
(* Types of the remaining actions *)

LEMMA Working ==
  ASSUME TypeOK, SendInv, NEW w \in Workers, Busy(w)
  PROVE  /\ Progress(w) /\ Exec(w) \in Executions /\ Kind(w) \in Kinds
         /\ Request(w) = <<Exec(w), Kind(w)>> /\ Request(w) \in Requests
         /\ SentMarked(Exec(w), Kind(w))
         /\ EntryOf(Exec(w), Kind(w)).state # "NONE"
         /\ EntryOf(Exec(w), Kind(w)) \in Entry
<1>1. Progress(w) /\ Exec(w) \in Executions /\ EntryOf(Exec(w), Kind(w)).state # "NONE"
  BY DEF SendInv, Progress
<1>2. Kind(w) \in Kinds
  BY Fields DEF Kind
<1>3. EntryOf(Exec(w), Kind(w)) \in Entry
  BY <1>1, <1>2 DEF EntryOf, TypeOK, Kinds
<1> QED
  BY <1>1, <1>2, <1>3 DEF Request, Requests, SendInv

LEMMA PendingOfType ==
  ASSUME NEW k \in Kinds
  PROVE  PendingOf(k) \in OrderStates \ ({"NONE"} \union Settled)
<1>1. CASE k = "CREATE"
  BY <1>1 DEF PendingOf, OrderStates, Pending, Settled
<1>2. CASE k = "CANCEL"
  BY <1>2 DEF PendingOf, OrderStates, Pending, Settled
<1>3. CASE k = "AMEND"
  BY <1>3 DEF PendingOf, OrderStates, Pending, Settled
<1>4. CASE k = "DECREASE"
  BY <1>4 DEF PendingOf, OrderStates, Pending, Settled
<1> QED
  BY <1>1, <1>2, <1>3, <1>4, Constants

LEMMA SaveStepsType ==
  ASSUME TypeOK, SendInv, NEW w \in Workers, SavePending(w) \/ Save(w)
  PROVE  TypeOK'
<1>1. Busy(w)
  BY DEF SavePending, Save, At, Busy
<1>2. CASE SavePending(w)
  <2>1. /\ SaveOrder(Exec(w), PendingOf(Kind(w)), proc[w].seen)
        /\ \E step \in Steps : Goto(w, step)
        /\ UNCHANGED <<auth, journal, attempts, recovering, held, sends, exchangeVars>>
    BY <1>2 DEF SavePending, Steps
  <2>2. rows' \in [Executions -> Order]
    BY <1>1, <2>1, Working, Fields, PendingOfType, SaveType
  <2>3. proc' \in [Workers -> Proc]
    BY <2>1, GotoType
  <2> QED
    BY <2>1, <2>2, <2>3 DEF TypeOK, exchangeVars
<1>3. CASE Save(w)
  <2>1. /\ At(w, "save") /\ SaveOrder(Exec(w), proc[w].result, proc[w].filled) /\ Return(w)
        /\ UNCHANGED <<auth, journal, attempts, recovering, held, sends, exchangeVars>>
    BY <1>3 DEF Save
  <2>2. proc[w].result \in OrderStates
    BY <1>1, <2>1, Working, Fields DEF Progress, At, OrderStates
  <2>3. rows' \in [Executions -> Order]
    BY <1>1, <2>1, <2>2, Working, Fields, SaveType
  <2> QED
    BY <2>1, <2>3, ReturnType DEF TypeOK, exchangeVars
<1> QED
  BY <1>2, <1>3

LEMMA JournalStepsType ==
  ASSUME TypeOK, SendInv, NEW w \in Workers, Consume(w) \/ MarkStarted(w) \/ Settle(w)
  PROVE  TypeOK'
<1>1. Busy(w)
  BY DEF Consume, MarkStarted, Settle, At, Busy
<1>2. CASE MarkStarted(w)
  <2>1. /\ Note(Exec(w), Kind(w), "SEND_STARTED", TRUE) /\ Goto(w, "send")
        /\ UNCHANGED <<auth, rows, recovering, held, sends, exchangeVars>>
    BY <1>2 DEF MarkStarted
  <2>2. [state |-> "SEND_STARTED", may |-> TRUE] \in Entry /\ "send" \in Steps
    BY DEF Entry, Steps
  <2>3. journal' \in [Executions -> Entry] /\ attempts' \in [Executions -> [Mutations -> Entry]]
    BY <1>1, <2>1, <2>2, NoteType, Working
  <2> QED
    BY <2>1, <2>2, <2>3, GotoType DEF TypeOK, exchangeVars
<1>3. CASE Settle(w)
  <2> DEFINE out == Outcome(Kind(w), proc[w].result)
             may == proc[w].result # "UNSENT"
  <2>1. /\ Note(Exec(w), Kind(w), out, may)
        /\ Return(w) \/ Goto(w, "save")
        /\ UNCHANGED <<auth, rows, recovering, held, sends, exchangeVars>>
    BY <1>3 DEF Settle
  <2>2. [state |-> out, may |-> may] \in Entry /\ may \in BOOLEAN /\ "save" \in Steps
    BY OutcomeType DEF Steps
  <2> HIDE DEF out, may
  <2>3. journal' \in [Executions -> Entry] /\ attempts' \in [Executions -> [Mutations -> Entry]]
    BY <1>1, <2>1, <2>2, NoteType, Working
  <2> QED
    BY <2>1, <2>2, <2>3, GotoType, ReturnType DEF TypeOK, exchangeVars
<1>4. CASE Consume(w)
  <2>1. UNCHANGED <<rows, recovering, held, sends, exchangeVars>>
    BY <1>4 DEF Consume
  <2>2. CASE /\ auth' = [auth EXCEPT ![authOf[Exec(w)]] = "CONSUMED"] /\ Goto(w, "started")
             /\ UNCHANGED <<journal, attempts>>
    <3>1. auth' \in [Auths -> {"ISSUED", "CONSUMED", "REVOKED"}] /\ "started" \in Steps
      BY <2>2 DEF TypeOK, Steps
    <3> QED
      BY <2>1, <2>2, <3>1, GotoType DEF TypeOK, exchangeVars
  <2>3. CASE /\ Note(Exec(w), "CREATE", "AUTHORIZATION_NOT_CONSUMED", FALSE)
             /\ Return(w) /\ auth' = auth
    <3>2. [state |-> "AUTHORIZATION_NOT_CONSUMED", may |-> FALSE] \in Entry
      BY DEF Entry
    <3>3. journal' \in [Executions -> Entry] /\ attempts' \in [Executions -> [Mutations -> Entry]]
      BY <1>1, <2>3, <3>2, NoteType, Working, Constants
    <3> QED
      BY <2>1, <2>3, <3>3, ReturnType DEF TypeOK, exchangeVars
  <2> QED
    BY <1>4, <2>2, <2>3 DEF Consume
<1> QED
  BY <1>2, <1>3, <1>4

LEMMA SendCrashType ==
  ASSUME TypeOK, SendInv, NEW w \in Workers, Send(w) \/ Crash(w)
  PROVE  TypeOK'
<1>1. CASE Send(w)
  <2>1. Request(w) \in Requests
    BY <1>1, Working DEF Send, At, Busy
  <2>2. /\ sends' = [sends EXCEPT ![Request(w)] = sends[Request(w)] + 1]
        /\ wire' = wire \union {Request(w)} /\ Goto(w, "answer")
        /\ UNCHANGED <<auth, storeVars, held, reply, exch>>
    BY <1>1 DEF Send
  <2>3. "answer" \in Steps
    BY DEF Steps
  <2>4. sends' \in [Requests -> Nat] /\ wire' \subseteq Requests
    BY <2>1, <2>2 DEF TypeOK
  <2> QED
    BY <2>2, <2>3, <2>4, GotoType DEF TypeOK, storeVars
<1>2. CASE Crash(w)
  BY <1>2, ReturnType DEF Crash, TypeOK, storeVars, exchangeVars
<1> QED
  BY <1>1, <1>2

LEMMA TruthOfType ==
  ASSUME NEW x
  PROVE  /\ TruthOf(x) \in Settled
         /\ TruthOf(x) = "FILLED" => exch[x].status = "open" /\ ~Live(x)
         /\ TruthOf(x) = "CANCELED" => exch[x].status = "canceled"
         /\ TruthOf(x) = "REJECTED" => exch[x].status = "rejected"
<1>1. TruthOf(x) \in {"ACCEPTED", "PARTIALLY_FILLED", "FILLED", "CANCELED", "REJECTED"}
  BY DEF TruthOf
<1>2. TruthOf(x) = "FILLED" => exch[x].status = "open" /\ ~Live(x)
  BY DEF TruthOf
<1>3. TruthOf(x) = "CANCELED" => exch[x].status = "canceled"
  BY DEF TruthOf
<1>4. TruthOf(x) = "REJECTED" => exch[x].status = "rejected"
  BY DEF TruthOf
<1> QED
  BY <1>1, <1>2, <1>3, <1>4 DEF Settled

LEMMA ReconcileType ==
  ASSUME TypeOK, NEW x \in Executions, Reconcile(x)
  PROVE  TypeOK'
<1> DEFINE copy == [state |-> TruthOf(x), filled |-> exch[x].filled, recon |-> FALSE]
<1>1. /\ exch[x].filled \in rows[x].filled..Quantity
      /\ rows' = [rows EXCEPT ![x] = copy] /\ held' = [held EXCEPT ![x] = copy]
      /\ UNCHANGED <<auth, journal, attempts, recovering, proc, sends, exchangeVars>>
  BY DEF Reconcile
<1>2. exch[x].filled \in 0..Quantity
  BY <1>1, Constants DEF TypeOK, Order
<1>3. TruthOf(x) \in OrderStates
  BY TruthOfType DEF OrderStates
<1>4. copy \in Order
  BY <1>2, <1>3 DEF Order
<1> HIDE DEF copy
<1>5. rows' \in [Executions -> Order] /\ held' \in [Executions -> Order]
  BY <1>1, <1>4 DEF TypeOK
<1> QED
  BY <1>1, <1>5 DEF TypeOK, exchangeVars

LEMMA RecoverType ==
  ASSUME TypeOK, RecoverRead \/ RecoverWrite
  PROVE  TypeOK'
<1>1. CASE RecoverRead
  <2>1. recovering' \subseteq Executions
    BY <1>1 DEF RecoverRead, Incomplete
  <2> QED
    BY <1>1, <2>1 DEF RecoverRead, TypeOK, exchangeVars
<1>2. CASE RecoverWrite
  <2>1. ASSUME NEW x \in Executions
        PROVE  /\ [state |-> "RECOVERY_RECONCILIATION_REQUIRED", may |-> journal[x].may] \in Entry
               /\ [state |-> Unknown, filled |-> rows[x].filled, recon |-> TRUE] \in Order
    BY DEF TypeOK, Entry, Order, OrderStates
  <2>2. journal' \in [Executions -> Entry]
    BY <1>2, <2>1 DEF RecoverWrite, TypeOK
  <2>3. rows' \in [Executions -> Order]
    BY <1>2, <2>1 DEF RecoverWrite, TypeOK
  <2>4. recovering' = {} /\ UNCHANGED <<auth, attempts, proc, held, sends, exchangeVars>>
    BY <1>2 DEF RecoverWrite
  <2> QED
    BY <2>2, <2>3, <2>4 DEF TypeOK, exchangeVars
<1> QED
  BY <1>1, <1>2

\* The exchange only adds to what it has done, and answers from it.
LEMMA ExecuteEffect ==
  ASSUME TypeOK, NEW x \in Executions, NEW k \in Kinds, Execute(x, k)
  PROVE  /\ exch' \in [Executions -> Exchange]
         /\ \A y \in Executions \ {x} : exch'[y] = exch[y]
         /\ exch'[x].filled >= IF k = "CREATE" THEN 0 ELSE exch[x].filled
         /\ exch[x].status = IF k = "CREATE" THEN "none" ELSE "open"
         /\ exch'[x].status = IF k = "CANCEL" THEN "canceled" ELSE "open"
<1>0. /\ exch[x] \in Exchange /\ exch[x].filled \in Fills /\ exch[x].size \in Fills
      /\ exch[x].status \in {"none", "open", "canceled", "rejected"}
  BY DEF TypeOK, Exchange
<1>1. ASSUME NEW e \in Exchange, exch' = [exch EXCEPT ![x] = e]
      PROVE  /\ exch' \in [Executions -> Exchange] /\ exch'[x] = e
             /\ \A y \in Executions \ {x} : exch'[y] = exch[y]
  BY <1>1 DEF TypeOK
<1>2. CASE k = "CREATE"
  <2>1. exch[x].status = "none"
    BY <1>2 DEF Execute
  <2>2. PICK f \in 0..Quantity :
          exch' = [exch EXCEPT ![x] = [status |-> "open", size |-> Quantity, filled |-> f]]
    BY <1>2 DEF Execute
  <2> DEFINE e == [status |-> "open", size |-> Quantity, filled |-> f]
  <2>3. e \in Exchange /\ e.status = "open" /\ e.filled = f /\ f >= 0
    BY Constants DEF Exchange, Fills
  <2> HIDE DEF e
  <2>4. /\ exch' \in [Executions -> Exchange] /\ exch'[x] = e
        /\ \A y \in Executions \ {x} : exch'[y] = exch[y]
    BY <1>1, <2>2, <2>3 DEF e
  <2> QED
    BY <1>2, <2>1, <2>3, <2>4
<1>3. CASE k = "CANCEL"
  <2>1. exch[x].status = "open" /\ exch' = [exch EXCEPT ![x] = [exch[x] EXCEPT !.status = "canceled"]]
    BY <1>3 DEF Execute, Live, TypeOK
  <2>2. [exch[x] EXCEPT !.status = "canceled"] \in Exchange
        /\ [exch[x] EXCEPT !.status = "canceled"].filled = exch[x].filled
        /\ [exch[x] EXCEPT !.status = "canceled"].status = "canceled"
    BY <1>0 DEF Exchange
  <2>3. exch[x].filled >= exch[x].filled
    BY <1>0, Constants DEF Fills
  <2> QED
    BY <1>1, <1>3, <2>1, <2>2, <2>3
<1>4. CASE k = "AMEND"
  <2>1. exch[x].status = "open"
    BY <1>4 DEF Execute, Live
  <2>2. PICK f \in exch[x].filled..Quantity + 1 :
          exch' = [exch EXCEPT ![x] = [status |-> "open", size |-> Quantity + 1, filled |-> f]]
    BY <1>4 DEF Execute
  <2>3. [status |-> "open", size |-> Quantity + 1, filled |-> f] \in Exchange
        /\ f >= exch[x].filled
    BY <1>0, Constants DEF Exchange, Fills
  <2> QED
    BY <1>1, <1>4, <2>1, <2>2, <2>3
<1>5. CASE k = "DECREASE"
  <2>1. exch[x].status = "open"
    BY <1>5 DEF Execute, Live
  <2>2. PICK s \in 1..exch[x].size - 1 : exch' = [exch EXCEPT ![x] = [exch[x] EXCEPT !.size = s]]
    BY <1>5 DEF Execute, TypeOK
  <2>3. [exch[x] EXCEPT !.size = s] \in Exchange
        /\ [exch[x] EXCEPT !.size = s].filled = exch[x].filled
        /\ [exch[x] EXCEPT !.size = s].status = exch[x].status
    BY <1>0, Constants DEF Exchange, Fills
  <2>4. exch[x].filled >= exch[x].filled
    BY <1>0, Constants DEF Fills
  <2> QED
    BY <1>1, <1>5, <2>1, <2>2, <2>3, <2>4
<1> QED
  BY <1>2, <1>3, <1>4, <1>5, Constants

LEMMA FillEffect ==
  ASSUME TypeOK, NEW x \in Executions, Fill(x)
  PROVE  /\ exch' \in [Executions -> Exchange]
         /\ \A y \in Executions \ {x} : exch'[y] = exch[y]
         /\ exch'[x].filled = exch[x].filled + 1 /\ exch'[x].status = exch[x].status
         /\ exch[x].status = "open"
<1>1. exch[x] \in Exchange /\ exch[x].filled \in Fills /\ exch[x].size \in Fills
  BY DEF TypeOK, Exchange
<1>2. /\ exch[x].status = "open" /\ exch[x].filled < exch[x].size
      /\ exch' = [exch EXCEPT ![x] = [exch[x] EXCEPT !.filled = exch[x].filled + 1]]
  BY DEF Fill, Live, TypeOK
<1>3. [exch[x] EXCEPT !.filled = exch[x].filled + 1] \in Exchange
      /\ [exch[x] EXCEPT !.filled = exch[x].filled + 1].filled = exch[x].filled + 1
      /\ [exch[x] EXCEPT !.filled = exch[x].filled + 1].status = exch[x].status
  BY <1>1, <1>2, Constants DEF Exchange, Fills
<1> QED
  BY <1>2, <1>3 DEF TypeOK

\* A request is answered: accepted and carried out, or refused.
LEMMA ArriveEffect ==
  ASSUME TypeOK, NEW x \in Executions, NEW k \in Kinds, Arrive(x, k)
  PROVE  /\ exch' \in [Executions -> Exchange] /\ reply' \in [Requests -> Reply]
         /\ wire' = wire \ {<<x, k>>} /\ <<x, k>> \in wire
         /\ UNCHANGED <<auth, storeVars, proc, held, sends>>
         /\ \A y \in Executions \ {x} : exch'[y] = exch[y]
         /\ \A q \in Requests \ {<<x, k>>} : reply'[q] = reply[q]
         /\ \/ /\ Execute(x, k) /\ reply'[<<x, k>>].status = "accepted"
               /\ reply'[<<x, k>>].reported \in {Omitted, exch'[x].filled}
            \/ /\ reply'[<<x, k>>].status = "refused" /\ exch'[x].filled = exch[x].filled
               /\ exch'[x].status = IF k = "CREATE" THEN "rejected" ELSE exch[x].status
<1>0. <<x, k>> \in Requests
  BY DEF Requests
<1>1. /\ wire' = wire \ {<<x, k>>} /\ <<x, k>> \in wire
      /\ UNCHANGED <<auth, storeVars, proc, held, sends>>
  BY DEF Arrive
<1>2. ASSUME NEW r \in Reply, reply' = [reply EXCEPT ![<<x, k>>] = r]
      PROVE  /\ reply' \in [Requests -> Reply] /\ reply'[<<x, k>>] = r
             /\ \A q \in Requests \ {<<x, k>>} : reply'[q] = reply[q]
  BY <1>0, <1>2 DEF TypeOK
<1>3. CASE /\ Execute(x, k)
           /\ \E said \in {Omitted, exch'[x].filled} :
                reply' = [reply EXCEPT ![<<x, k>>] = [status |-> "accepted", reported |-> said]]
  <2>1. PICK said \in {Omitted, exch'[x].filled} :
          reply' = [reply EXCEPT ![<<x, k>>] = [status |-> "accepted", reported |-> said]]
    BY <1>3
  <2>2. exch' \in [Executions -> Exchange] /\ \A y \in Executions \ {x} : exch'[y] = exch[y]
    BY <1>3, ExecuteEffect
  <2> DEFINE r == [status |-> "accepted", reported |-> said]
  <2>3. r \in Reply /\ r.status = "accepted" /\ r.reported = said
    BY <2>2 DEF Reply, Exchange
  <2>4. reply' = [reply EXCEPT ![<<x, k>>] = r]
    BY <2>1
  <2> HIDE DEF r
  <2>5. /\ reply' \in [Requests -> Reply] /\ reply'[<<x, k>>] = r
        /\ \A q \in Requests \ {<<x, k>>} : reply'[q] = reply[q]
    BY <1>2, <2>3, <2>4
  <2> QED
    BY <1>1, <1>3, <2>2, <2>3, <2>5
<1>4. CASE /\ reply' = [reply EXCEPT ![<<x, k>>] = [status |-> "refused", reported |-> Omitted]]
           /\ exch' = IF k = "CREATE" THEN [exch EXCEPT ![x].status = "rejected"] ELSE exch
  <2> DEFINE r == [status |-> "refused", reported |-> Omitted]
  <2>1. r \in Reply /\ r.status = "refused" /\ reply' = [reply EXCEPT ![<<x, k>>] = r]
    BY <1>4 DEF Reply
  <2>2. /\ [exch[x] EXCEPT !.status = "rejected"] \in Exchange
        /\ [exch[x] EXCEPT !.status = "rejected"].filled = exch[x].filled
        /\ [exch[x] EXCEPT !.status = "rejected"].status = "rejected"
    BY DEF TypeOK, Exchange
  <2>3. exch' = IF k = "CREATE" THEN [exch EXCEPT ![x] = [exch[x] EXCEPT !.status = "rejected"]]
                ELSE exch
    BY <1>4 DEF TypeOK
  <2>4. /\ exch' \in [Executions -> Exchange]
        /\ \A y \in Executions \ {x} : exch'[y] = exch[y]
        /\ exch'[x].filled = exch[x].filled
        /\ exch'[x].status = IF k = "CREATE" THEN "rejected" ELSE exch[x].status
    BY <2>2, <2>3 DEF TypeOK
  <2> HIDE DEF r
  <2>5. /\ reply' \in [Requests -> Reply] /\ reply'[<<x, k>>] = r
        /\ \A q \in Requests \ {<<x, k>>} : reply'[q] = reply[q]
    BY <1>2, <2>1
  <2> QED
    BY <1>1, <2>1, <2>4, <2>5
<1> QED
  BY <1>3, <1>4 DEF Arrive

LEMMA EnvironmentType ==
  ASSUME TypeOK, Environment
  PROVE  TypeOK'
<1>1. ASSUME NEW k \in Auths, LoseAuth(k)
      PROVE  TypeOK'
  <2>1. auth' = [auth EXCEPT ![k] = "REVOKED"] /\ UNCHANGED <<storeVars, proc, held, sends, exchangeVars>>
    BY <1>1 DEF LoseAuth
  <2>2. auth' \in [Auths -> {"ISSUED", "CONSUMED", "REVOKED"}]
    BY <2>1 DEF TypeOK
  <2> QED
    BY <2>1, <2>2 DEF TypeOK, storeVars, exchangeVars
<1>2. ASSUME NEW x \in Executions, Fill(x)
      PROVE  TypeOK'
  <2>1. exch' \in [Executions -> Exchange] /\ UNCHANGED <<auth, storeVars, proc, held, sends, wire, reply>>
    BY <1>2, FillEffect DEF Fill
  <2> QED
    BY <2>1 DEF TypeOK, storeVars
<1>3. ASSUME NEW x \in Executions, NEW k \in Kinds, Arrive(x, k)
      PROVE  TypeOK'
  <2>1. /\ exch' \in [Executions -> Exchange] /\ reply' \in [Requests -> Reply]
        /\ wire' \subseteq wire /\ UNCHANGED <<auth, storeVars, proc, held, sends>>
    BY <1>3, ArriveEffect
  <2> QED
    BY <2>1 DEF TypeOK, storeVars
<1> QED
  BY <1>1, <1>2, <1>3, RecoverType, ReconcileType DEF Environment

-----------------------------------------------------------------------------
(* A step of one request, and a step of nobody's, keep the send invariant *)

LEMMA OwnStep ==
  ASSUME TypeOK, SendInv, NEW w \in Workers, NEW x \in Executions, NEW k \in Kinds,
         \A v \in Workers \ {w} : proc'[v] = proc[v] /\ (Busy(v) => Request(v) # <<x, k>>),
         \A y \in Executions, j \in Kinds : ~(y = x /\ j = k) =>
           EntryOf(y, j)' = EntryOf(y, j) /\ sends'[<<y, j>>] = sends[<<y, j>>],
         \A y \in Executions : rows[y].state # "NONE" => rows'[y].state # "NONE",
         \A a \in Auths : auth[a] = "CONSUMED" => auth'[a] = "CONSUMED",
         recovering' = recovering,
         EntryOf(x, k)'.state # "NONE",
         Busy(w)' => Request(w)' = <<x, k>>,
         Progress(w)', SentMarked(x, k)',
         k = "CREATE" =>
           \A y \in Executions : authOf[y] = authOf[x] /\ journal[y].state # "NONE" => y = x
  PROVE  SendInv'
<1>1. ASSUME NEW v \in Workers
      PROVE  Progress(v)'
  <2>1. CASE v = w
    BY <2>1
  <2>2. CASE v # w
    <3>1. proc'[v] = proc[v] /\ Progress(v)
      BY <2>2 DEF SendInv
    <3>2. CASE ~Busy(v)
      BY <3>1, <3>2 DEF Progress, Busy
    <3>3. CASE Busy(v)
      <4>1. PICK y \in Executions, j \in Kinds : y = Exec(v) /\ j = Kind(v) /\ Request(v) = <<y, j>>
        BY <3>3, Working
      <4>2. ~(y = x /\ j = k)
        BY <2>2, <3>3, <4>1
      <4>3. EntryOf(y, j)' = EntryOf(y, j) /\ sends'[<<y, j>>] = sends[<<y, j>>]
        BY <4>1, <4>2
      <4>4. Exec(v)' = y /\ Kind(v)' = j /\ Request(v)' = Request(v)
            /\ EntryOf(Exec(v), Kind(v))' = EntryOf(y, j)
        BY <3>1, <4>1, <4>3 DEF Exec, Kind, Request, EntryOf
      <4>5. authOf[y] \in Auths
        BY <4>1, Constants
      <4>6. Marked(Exec(v), Kind(v))' <=> Marked(Exec(v), Kind(v))
        BY <4>1, <4>4 DEF Marked
      <4> QED
        BY <3>1, <3>3, <4>1, <4>3, <4>4, <4>5, <4>6 DEF Progress, Busy
    <3> QED
      BY <3>2, <3>3
  <2> QED
    BY <2>1, <2>2
<1>2. ASSUME NEW y \in Executions, NEW j \in Kinds
      PROVE  SentMarked(y, j)'
  <2>1. CASE y = x /\ j = k
    BY <2>1
  <2>2. CASE ~(y = x /\ j = k)
    <3>1. EntryOf(y, j)' = EntryOf(y, j) /\ sends'[<<y, j>>] = sends[<<y, j>>]
      BY <2>2
    <3>2. SentMarked(y, j) /\ authOf[y] \in Auths
      BY Constants DEF SendInv
    <3> QED
      BY <3>1, <3>2 DEF SentMarked, Marked
  <2> QED
    BY <2>1, <2>2
<1>3. OwnsAlone'
  <2> SUFFICES ASSUME NEW u \in Workers, NEW v \in Workers, Busy(u)', Busy(v)',
                      Request(u)' = Request(v)', u # v
               PROVE  FALSE
    BY DEF OwnsAlone
  <2>1. \A z \in Workers \ {w} : (Busy(z)' <=> Busy(z)) /\ Request(z)' = Request(z)
    BY DEF Busy, Request, Exec, Kind
  <2>2. CASE u # w /\ v # w
    BY <2>1, <2>2 DEF SendInv, OwnsAlone
  <2>3. CASE u = w \/ v = w
    BY <2>1, <2>3
  <2> QED
    BY <2>2, <2>3
<1>4. \A y \in Executions : ~(y = x /\ k = "CREATE") => journal'[y] = journal[y]
  <2>1. \A y \in Executions : EntryOf(y, "CREATE")' = journal'[y] /\ EntryOf(y, "CREATE") = journal[y]
    BY DEF EntryOf
  <2> QED
    BY <2>1, Constants
<1>5. k = "CREATE" => journal'[x].state # "NONE"
  BY DEF EntryOf
<1>6. OneJournal'
  BY <1>4, <1>5 DEF SendInv, OneJournal
<1>7. \A y \in recovering' : journal'[y].state # "NONE"
  BY <1>4, <1>5 DEF SendInv, TypeOK
<1> QED
  BY <1>1, <1>2, <1>3, <1>6, <1>7 DEF SendInv

LEMMA NobodysStep ==
  ASSUME TypeOK, SendInv, proc' = proc, sends' = sends,
         \A y \in Executions, j \in Kinds :
           \/ EntryOf(y, j)' = EntryOf(y, j)
           \/ /\ EntryOf(y, j).state # "NONE" /\ EntryOf(y, j)'.may = EntryOf(y, j).may
              /\ EntryOf(y, j)'.state \notin {"NONE", "PROVEN_UNSENT"},
         \A y \in Executions : rows[y].state # "NONE" => rows'[y].state # "NONE",
         \A a \in Auths : auth[a] = "CONSUMED" => auth'[a] = "CONSUMED",
         \A y \in recovering' : journal'[y].state # "NONE"
  PROVE  SendInv'
<1>1. ASSUME NEW v \in Workers
      PROVE  Progress(v)'
  <2>1. Progress(v)
    BY DEF SendInv
  <2>2. CASE ~Busy(v)
    BY <2>2 DEF Progress, Busy
  <2>3. CASE Busy(v)
    <3>1. PICK y \in Executions, j \in Kinds :
            y = Exec(v) /\ j = Kind(v) /\ authOf[y] \in Auths
      BY <2>3, Working, Constants
    <3>2. Exec(v)' = y /\ Kind(v)' = j /\ Request(v)' = Request(v)
          /\ EntryOf(Exec(v), Kind(v))' = EntryOf(y, j)'
      BY <3>1 DEF Exec, Kind, Request, EntryOf
    <3>3. EntryOf(y, j)'.state # "NONE"
      BY <2>1, <2>3, <3>1 DEF Progress
    <3>4. Marked(y, j) => Marked(Exec(v), Kind(v))'
      BY <3>1, <3>2 DEF Marked
    <3> QED
      BY <2>1, <2>3, <3>1, <3>2, <3>3, <3>4 DEF Progress, Busy
  <2> QED
    BY <2>2, <2>3
<1>2. ASSUME NEW y \in Executions, NEW j \in Kinds
      PROVE  SentMarked(y, j)'
  <2>1. Marked(y, j) => Marked(y, j)'
    BY DEF Marked
  <2>2. SentMarked(y, j) /\ authOf[y] \in Auths
    BY Constants DEF SendInv
  <2> QED
    BY <2>1, <2>2 DEF SentMarked
<1>3. OwnsAlone'
  BY DEF SendInv, OwnsAlone, Busy, Request, Exec, Kind
<1>4. \A y \in Executions : journal'[y].state # "NONE" => journal[y].state # "NONE"
  <2>1. \A y \in Executions : EntryOf(y, "CREATE")' = journal'[y] /\ EntryOf(y, "CREATE") = journal[y]
    BY DEF EntryOf
  <2> QED
    BY <2>1, Constants
<1>5. OneJournal'
  BY <1>4 DEF SendInv, OneJournal
<1> QED
  BY <1>1, <1>2, <1>3, <1>5 DEF SendInv

-----------------------------------------------------------------------------
(* The send invariant, action by action *)

LEMMA InitSend == Init => SendInv
<1> SUFFICES ASSUME Init PROVE SendInv
  OBVIOUS
<1>1. \A w \in Workers : ~Busy(w)
  BY DEF Init, Idle, Busy
<1>2. \A x \in Executions : journal[x].state = "NONE"
  BY DEF Init, NoEntry
<1>3. \A x \in Executions, k \in Kinds : sends[<<x, k>>] = 0
  BY DEF Init, Requests
<1>4. recovering = {}
  BY DEF Init
<1> QED
  BY <1>1, <1>2, <1>3, <1>4 DEF SendInv, Progress, SentMarked, OwnsAlone, OneJournal

\* A request without a row has no worker and was never sent.
LEMMA Fresh ==
  ASSUME TypeOK, SendInv, NEW x \in Executions, NEW k \in Kinds, EntryOf(x, k).state = "NONE"
  PROVE  /\ sends[<<x, k>>] = 0
         /\ \A v \in Workers : Busy(v) => Request(v) # <<x, k>>
<1>1. SentMarked(x, k) /\ sends[<<x, k>>] \in Nat
  BY DEF SendInv, TypeOK, Requests
<1>2. ~Marked(x, k)
  BY DEF Marked
<1>3. sends[<<x, k>>] = 0
  BY <1>1, <1>2 DEF SentMarked
<1>4. ASSUME NEW v \in Workers, Busy(v), Request(v) = <<x, k>>
      PROVE  FALSE
  BY <1>4, Working
<1> QED
  BY <1>3, <1>4

LEMMA SubmitSend ==
  ASSUME TypeOK, SendInv, NEW w \in Workers, NEW x \in Executions, SubmitCall(w, x)
  PROVE  SendInv'
<1> DEFINE p == [pc |-> "pending", exec |-> x, kind |-> "CREATE",
                 seen |-> 0, result |-> "NONE", filled |-> 0]
<1>1. /\ At(w, "idle") /\ Unowned(x) /\ Note(x, "CREATE", "JOURNALED_NOT_SENT", FALSE)
      /\ proc' = [proc EXCEPT ![w] = p]
      /\ UNCHANGED <<auth, rows, recovering, held, sends, exchangeVars>>
  BY DEF SubmitCall
<1>2. p \in Proc /\ p.pc = "pending" /\ p.exec = x /\ p.kind = "CREATE"
  BY Constants DEF Proc, Steps
<1> HIDE DEF p
<1>3. proc'[w] = p /\ \A v \in Workers \ {w} : proc'[v] = proc[v]
  BY <1>1, <1>2, BecomesType
<1>4. EntryOf(x, "CREATE").state = "NONE"
  BY <1>1 DEF Unowned, EntryOf
<1>5. /\ EntryOf(x, "CREATE")' = [state |-> "JOURNALED_NOT_SENT", may |-> FALSE]
      /\ \A y \in Executions, j \in Kinds :
           ~(y = x /\ j = "CREATE") => EntryOf(y, j)' = EntryOf(y, j)
  BY <1>1, NoteEffect, Constants
<1>6. sends[<<x, "CREATE">>] = 0 /\ \A v \in Workers : Busy(v) => Request(v) # <<x, "CREATE">>
  BY <1>4, Fresh, Constants
<1>7. Exec(w)' = x /\ Kind(w)' = "CREATE" /\ Request(w)' = <<x, "CREATE">>
  BY <1>2, <1>3 DEF Exec, Kind, Request
<1>8. Progress(w)'
  <2>1. EntryOf(Exec(w), Kind(w))'.state # "NONE"
    BY <1>5, <1>7 DEF EntryOf
  <2> QED
    BY <1>1, <1>2, <1>3, <1>6, <1>7, <2>1 DEF Progress
<1>9. SentMarked(x, "CREATE")'
  BY <1>1, <1>6 DEF SentMarked
<1>10. \A y \in Executions : authOf[y] = authOf[x] /\ journal[y].state # "NONE" => y = x
  BY <1>1 DEF Unowned
<1> QED
  BY <1>1, <1>3, <1>5, <1>6, <1>7, <1>8, <1>9, <1>10, OwnStep, Constants

LEMMA MutateSend ==
  ASSUME TypeOK, SendInv, NEW w \in Workers, NEW x \in Executions, NEW k \in Mutations,
         MutateCall(w, x, k)
  PROVE  SendInv'
<1> DEFINE p == [pc |-> "pending", exec |-> x, kind |-> k,
                 seen |-> held[x].filled, result |-> "NONE", filled |-> 0]
<1>1. /\ At(w, "idle") /\ Mutable(x, k) /\ Note(x, k, "JOURNALED_NOT_SENT", FALSE)
      /\ proc' = [proc EXCEPT ![w] = p] \/ proc' = proc
      /\ UNCHANGED <<auth, rows, recovering, held, sends, exchangeVars>>
  BY DEF MutateCall
<1>2. p \in Proc /\ p.pc = "pending" /\ p.exec = x /\ p.kind = k
  BY Constants DEF Proc, Steps, TypeOK, Order
<1> HIDE DEF p
<1>3. proc'[w] = p \/ ~Busy(w)'
  BY <1>1, <1>2, BecomesType DEF At, Busy
<1>4. \A v \in Workers \ {w} : proc'[v] = proc[v]
  BY <1>1, <1>2, BecomesType
<1>5. k \in Kinds /\ k # "CREATE"
  BY Constants
<1>6. EntryOf(x, k).state = "NONE"
  BY <1>1, <1>5 DEF Mutable, EntryOf
<1>7. /\ EntryOf(x, k)' = [state |-> "JOURNALED_NOT_SENT", may |-> FALSE]
      /\ \A y \in Executions, j \in Kinds :
           ~(y = x /\ j = k) => EntryOf(y, j)' = EntryOf(y, j)
  BY <1>1, <1>5, NoteEffect
<1>8. sends[<<x, k>>] = 0 /\ \A v \in Workers : Busy(v) => Request(v) # <<x, k>>
  BY <1>5, <1>6, Fresh
<1>9. Busy(w)' => Exec(w)' = x /\ Kind(w)' = k /\ Request(w)' = <<x, k>> /\ proc'[w].pc = "pending"
  BY <1>2, <1>3 DEF Exec, Kind, Request
<1>10. Progress(w)'
  <2> SUFFICES ASSUME Busy(w)' PROVE Progress(w)'
    BY DEF Progress
  <2>1. EntryOf(Exec(w), Kind(w))'.state # "NONE"
    BY <1>7, <1>9 DEF EntryOf
  <2> QED
    BY <1>1, <1>5, <1>8, <1>9, <2>1 DEF Progress
<1>11. SentMarked(x, k)'
  BY <1>1, <1>8 DEF SentMarked
<1>12. EntryOf(x, k)'.state # "NONE"
  BY <1>7
<1> QED
  BY <1>1, <1>4, <1>5, <1>7, <1>8, <1>9, <1>10, <1>11, <1>12, OwnStep

\* What a busy worker's step has to show; the rest follows from ownership.
LEMMA WorkerStep ==
  ASSUME TypeOK, SendInv, NEW w \in Workers, NEW x \in Executions, NEW k \in Kinds,
         Busy(w), x = Exec(w), k = Kind(w),
         \A v \in Workers \ {w} : proc'[v] = proc[v],
         \A y \in Executions, j \in Kinds : ~(y = x /\ j = k) =>
           EntryOf(y, j)' = EntryOf(y, j) /\ sends'[<<y, j>>] = sends[<<y, j>>],
         \A y \in Executions : rows[y].state # "NONE" => rows'[y].state # "NONE",
         \A a \in Auths : auth[a] = "CONSUMED" => auth'[a] = "CONSUMED",
         recovering' = recovering,
         EntryOf(x, k)'.state # "NONE",
         Busy(w)' => proc'[w].exec = x /\ proc'[w].kind = k,
         Busy(w)' => Progress(w)',
         SentMarked(x, k)'
  PROVE  SendInv'
<1>1. Request(w) = <<x, k>>
  BY DEF Request
<1>2. \A v \in Workers \ {w} : Busy(v) => Request(v) # <<x, k>>
  BY <1>1 DEF SendInv, OwnsAlone
<1>3. k = "CREATE" =>
        \A y \in Executions : authOf[y] = authOf[x] /\ journal[y].state # "NONE" => y = x
  <2>1. EntryOf(x, k).state # "NONE"
    BY Working
  <2> QED
    BY <2>1 DEF EntryOf, SendInv, OneJournal
<1>4. Busy(w)' => Request(w)' = <<x, k>>
  BY DEF Request, Exec, Kind
<1>5. Progress(w)'
  BY DEF Progress
<1> QED
  BY <1>2, <1>3, <1>4, <1>5, OwnStep

\* A step that leaves the journal, the attempts and the sends alone.
LEMMA QuietStep ==
  ASSUME TypeOK, SendInv, NEW w \in Workers, Busy(w), UNCHANGED <<journal, attempts, sends, recovering>>,
         \A v \in Workers \ {w} : proc'[v] = proc[v],
         \A y \in Executions : rows[y].state # "NONE" => rows'[y].state # "NONE",
         \A a \in Auths : auth[a] = "CONSUMED" => auth'[a] = "CONSUMED",
         Busy(w)' => /\ proc'[w].exec = proc[w].exec /\ proc'[w].kind = proc[w].kind
                     /\ Progress(w)'
  PROVE  SendInv'
<1>1. PICK x \in Executions, k \in Kinds : x = Exec(w) /\ k = Kind(w)
  BY Working
<1>2. \A y \in Executions, j \in Kinds : EntryOf(y, j)' = EntryOf(y, j)
  BY DEF EntryOf
<1>3. EntryOf(x, k).state # "NONE" /\ SentMarked(x, k) /\ authOf[x] \in Auths
  BY <1>1, Working, Constants
<1>4. SentMarked(x, k)'
  BY <1>2, <1>3 DEF SentMarked, Marked
<1>5. Busy(w)' => proc'[w].exec = x /\ proc'[w].kind = k
  BY <1>1 DEF Exec, Kind
<1> QED
  BY <1>1, <1>2, <1>3, <1>4, <1>5, WorkerStep

\* What such a step keeps of a worker that goes on with its request.
LEMMA QuietProgress ==
  ASSUME TypeOK, SendInv, NEW w \in Workers, Busy(w), UNCHANGED <<journal, attempts>>,
         proc'[w].exec = proc[w].exec, proc'[w].kind = proc[w].kind
  PROVE  /\ Exec(w)' = Exec(w) /\ Kind(w)' = Kind(w) /\ Request(w)' = Request(w)
         /\ EntryOf(Exec(w), Kind(w))' = EntryOf(Exec(w), Kind(w))
         /\ EntryOf(Exec(w), Kind(w))'.state # "NONE"
         /\ Exec(w)' \in Executions
         /\ Marked(Exec(w), Kind(w))' <=> Marked(Exec(w), Kind(w))
<1>1. Exec(w)' = Exec(w) /\ Kind(w)' = Kind(w) /\ Request(w)' = Request(w)
  BY DEF Exec, Kind, Request
<1>2. EntryOf(Exec(w), Kind(w))' = EntryOf(Exec(w), Kind(w))
  BY <1>1 DEF EntryOf
<1> QED
  BY <1>1, <1>2, Working DEF Marked

LEMMA SavePendingSend ==
  ASSUME TypeOK, SendInv, NEW w \in Workers, SavePending(w)
  PROVE  SendInv'
<1>1. Busy(w) /\ proc[w].pc = "pending"
  BY DEF SavePending, At, Busy
<1>2. /\ SaveOrder(Exec(w), PendingOf(Kind(w)), proc[w].seen)
      /\ Goto(w, IF Kind(w) = "CREATE" THEN "consume" ELSE "started")
      /\ UNCHANGED <<auth, journal, attempts, recovering, held, sends, exchangeVars>>
  BY DEF SavePending
<1>3. /\ rows'[Exec(w)].state # "NONE"
      /\ \A y \in Executions : rows[y].state # "NONE" => rows'[y].state # "NONE"
  BY <1>1, <1>2, Working, Fields, PendingOfType, SaveType
<1>4. (IF Kind(w) = "CREATE" THEN "consume" ELSE "started") \in Steps
  BY DEF Steps
<1>5. /\ proc'[w].pc = IF Kind(w) = "CREATE" THEN "consume" ELSE "started"
      /\ proc'[w].exec = proc[w].exec /\ proc'[w].kind = proc[w].kind
      /\ \A v \in Workers \ {w} : proc'[v] = proc[v]
  BY <1>2, <1>4, GotoType
<1>6. Progress(w)'
  BY <1>1, <1>2, <1>3, <1>5, QuietProgress, Working DEF Progress
<1> QED
  BY <1>1, <1>2, <1>3, <1>5, <1>6, QuietStep

LEMMA SaveCrashSend ==
  ASSUME TypeOK, SendInv, NEW w \in Workers, Save(w) \/ Crash(w)
  PROVE  SendInv'
<1>1. Busy(w) /\ Return(w) /\ UNCHANGED <<auth, journal, attempts, recovering, sends>>
  BY DEF Save, Crash, At, Busy, storeVars
<1>2. ~Busy(w)' /\ \A v \in Workers \ {w} : proc'[v] = proc[v]
  BY <1>1, ReturnType DEF Busy
<1>3. \A y \in Executions : rows[y].state # "NONE" => rows'[y].state # "NONE"
  <2>1. CASE Crash(w)
    BY <2>1 DEF Crash, storeVars
  <2>2. CASE Save(w)
    <3>1. At(w, "save") /\ SaveOrder(Exec(w), proc[w].result, proc[w].filled)
      BY <2>2 DEF Save
    <3>2. proc[w].result \in OrderStates \ {"NONE"}
      BY <1>1, <3>1, Working, Fields DEF Progress, At, OrderStates
    <3> QED
      BY <1>1, <3>1, <3>2, Working, Fields, SaveType
  <2> QED
    BY <2>1, <2>2
<1> QED
  BY <1>1, <1>2, <1>3, QuietStep

LEMMA AnswerSend ==
  ASSUME TypeOK, SendInv, NEW w \in Workers,
         ProvenUnsent(w) \/ Acknowledge(w) \/ Refused(w) \/ NoAnswer(w)
  PROVE  SendInv'
<1>1. Busy(w) /\ (At(w, "send") \/ At(w, "answer"))
  BY DEF ProvenUnsent, Acknowledge, Refused, NoAnswer, At, Busy
<1>2. UNCHANGED <<auth, journal, attempts, rows, recovering, sends>>
  BY AnswerKinds DEF storeVars
<1>3. CASE Return(w)
  <2>1. ~Busy(w)' /\ \A v \in Workers \ {w} : proc'[v] = proc[v]
    BY <1>3, ReturnType DEF Busy
  <2> QED
    BY <1>1, <1>2, <2>1, QuietStep
<1>4. ASSUME NEW result \in {"UNSENT", Unknown} \union Settled, NEW filled \in 0..Quantity,
             Learn(w, result, filled), result = "UNSENT" => At(w, "send")
      PROVE  SendInv'
  <2>1. /\ proc'[w].pc = "settle" /\ proc'[w].exec = proc[w].exec
        /\ proc'[w].kind = proc[w].kind /\ proc'[w].result = result
        /\ \A v \in Workers \ {w} : proc'[v] = proc[v]
    BY <1>4, LearnType
  <2>2. result # "NONE"
    BY DEF Unknown, Settled
  <2>3. Progress(w)'
    BY <1>1, <1>2, <1>4, <2>1, <2>2, QuietProgress, Working DEF Progress, At
  <2> QED
    BY <1>1, <1>2, <2>1, <2>3, QuietStep
<1>5. proc[w].seen \in 0..Quantity /\ 0 \in 0..Quantity
      /\ proc[w].seen..Quantity \subseteq 0..Quantity
  BY Fields, Constants
<1>6. {"ACCEPTED", "REJECTED"} \subseteq Settled /\ "UNSENT" \notin Settled /\ Unknown # "UNSENT"
  BY DEF Settled, Unknown
<1>7. ASSUME NEW filled \in proc[w].seen..Quantity, At(w, "answer"),
             Learn(w, MutationResult(Kind(w), proc[w].seen, filled), filled)
      PROVE  SendInv'
  <2>1. PICK result \in Settled : result = MutationResult(Kind(w), proc[w].seen, filled)
    BY MutationResultType
  <2>2. filled \in 0..Quantity /\ result # "UNSENT" /\ Learn(w, result, filled)
    BY <1>5, <1>6, <1>7, <2>1
  <2> QED
    BY <1>4, <2>2
<1>8. CASE At(w, "send") /\ Learn(w, "UNSENT", proc[w].seen)
  BY <1>4, <1>5, <1>8
<1>9. CASE Learn(w, Unknown, proc[w].seen)
  BY <1>4, <1>5, <1>6, <1>9
<1>10. CASE Learn(w, "ACCEPTED", 0) \/ Learn(w, "REJECTED", proc[w].seen)
  BY <1>4, <1>5, <1>6, <1>10
<1> QED
  BY <1>3, <1>7, <1>8, <1>9, <1>10, AnswerKinds

\* A step that writes the row of the worker's own request.
LEMMA NotedStep ==
  ASSUME TypeOK, SendInv, NEW w \in Workers, NEW st, NEW may, Busy(w),
         Note(Exec(w), Kind(w), st, may), st # "NONE",
         UNCHANGED <<auth, rows, recovering, sends>>,
         \A v \in Workers \ {w} : proc'[v] = proc[v],
         sends[Request(w)] > 0 => may = TRUE /\ st # "PROVEN_UNSENT",
         Busy(w)' => /\ proc'[w].exec = proc[w].exec /\ proc'[w].kind = proc[w].kind
                     /\ proc'[w].pc = "send" => sends[Request(w)] = 0 /\ may = TRUE /\ st # "PROVEN_UNSENT"
                     /\ proc'[w].pc \in {"send", "save"}
                     /\ proc'[w].pc = "save" => proc'[w].result \notin {"NONE", "UNSENT"}
                     /\ proc[w].pc \notin {"pending", "consume"}
  PROVE  SendInv'
<1>1. PICK x \in Executions, k \in Kinds :
        /\ x = Exec(w) /\ k = Kind(w) /\ Request(w) = <<x, k>> /\ SentMarked(x, k)
        /\ Progress(w)
  BY Working
<1>2. /\ EntryOf(x, k)' = [state |-> st, may |-> may]
      /\ \A y \in Executions, j \in Kinds :
           ~(y = x /\ j = k) => EntryOf(y, j)' = EntryOf(y, j)
  BY <1>1, NoteEffect
<1>3. EntryOf(x, k)'.state = st /\ EntryOf(x, k)'.may = may
  BY <1>2
<1>4. SentMarked(x, k)'
  BY <1>1, <1>3 DEF SentMarked, Marked
<1>5. Busy(w)' => Progress(w)'
  <2> SUFFICES ASSUME Busy(w)' PROVE Progress(w)'
    OBVIOUS
  <2>1. Exec(w)' = x /\ Kind(w)' = k /\ Request(w)' = <<x, k>>
        /\ EntryOf(Exec(w), Kind(w))' = EntryOf(x, k)'
    BY <1>1 DEF Exec, Kind, Request, EntryOf
  <2>2. proc'[w].pc = "send" => Marked(Exec(w), Kind(w))'
    BY <1>3, <2>1 DEF Marked
  <2> QED
    BY <1>1, <1>3, <2>1, <2>2 DEF Progress
<1>6. Busy(w)' => proc'[w].exec = x /\ proc'[w].kind = k
  BY <1>1 DEF Exec, Kind
<1> QED
  BY <1>1, <1>2, <1>3, <1>4, <1>5, <1>6, WorkerStep

LEMMA MarkStartedSend ==
  ASSUME TypeOK, SendInv, NEW w \in Workers, MarkStarted(w)
  PROVE  SendInv'
<1>1. /\ Busy(w) /\ proc[w].pc = "started" /\ Note(Exec(w), Kind(w), "SEND_STARTED", TRUE)
      /\ Goto(w, "send") /\ UNCHANGED <<auth, rows, recovering, sends>>
  BY DEF MarkStarted, At, Busy
<1>2. sends[Request(w)] = 0
  BY <1>1, Working DEF Progress
<1>3. /\ proc'[w].pc = "send" /\ proc'[w].exec = proc[w].exec /\ proc'[w].kind = proc[w].kind
      /\ \A v \in Workers \ {w} : proc'[v] = proc[v]
  BY <1>1, GotoType DEF Steps
<1> QED
  BY <1>1, <1>2, <1>3, NotedStep

LEMMA SettleSend ==
  ASSUME TypeOK, SendInv, NEW w \in Workers, Settle(w)
  PROVE  SendInv'
<1> DEFINE out == Outcome(Kind(w), proc[w].result)
           may == proc[w].result # "UNSENT"
<1>1. /\ Busy(w) /\ proc[w].pc = "settle" /\ Note(Exec(w), Kind(w), out, may)
      /\ UNCHANGED <<auth, rows, recovering, sends>>
      /\ IF proc[w].result = "UNSENT" THEN Return(w) ELSE Goto(w, "save")
  BY DEF Settle, At, Busy
<1>2. /\ proc[w].result = "UNSENT" => sends[Request(w)] = 0
      /\ proc[w].result # "NONE" /\ sends[Request(w)] \in Nat
  BY <1>1, Working DEF Progress, TypeOK
<1>3. out # "NONE" /\ (proc[w].result # "UNSENT" => out # "PROVEN_UNSENT" /\ may = TRUE)
  BY OutcomeType
<1> HIDE DEF out, may
<1>4. sends[Request(w)] > 0 => may = TRUE /\ out # "PROVEN_UNSENT"
  BY <1>2, <1>3
<1>5. CASE proc[w].result = "UNSENT"
  <2>1. ~Busy(w)' /\ \A v \in Workers \ {w} : proc'[v] = proc[v]
    BY <1>1, <1>5, ReturnType DEF Busy
  <2> QED
    BY <1>1, <1>3, <1>4, <2>1, NotedStep
<1>6. CASE proc[w].result # "UNSENT"
  <2>1. /\ proc'[w].pc = "save" /\ proc'[w].exec = proc[w].exec /\ proc'[w].kind = proc[w].kind
        /\ proc'[w].result = proc[w].result /\ \A v \in Workers \ {w} : proc'[v] = proc[v]
    BY <1>1, <1>6, GotoType DEF Steps
  <2> QED
    BY <1>1, <1>2, <1>3, <1>4, <1>6, <2>1, NotedStep
<1> QED
  BY <1>5, <1>6

LEMMA ConsumeSend ==
  ASSUME TypeOK, SendInv, NEW w \in Workers, Consume(w)
  PROVE  SendInv'
<1>1. /\ Busy(w) /\ proc[w].pc = "consume" /\ UNCHANGED <<rows, recovering, sends>>
      /\ Kind(w) = "CREATE" /\ Progress(w) /\ Exec(w) \in Executions
      /\ sends[Request(w)] = 0
  BY Working DEF Consume, At, Busy, Progress
<1>2. CASE /\ auth' = [auth EXCEPT ![authOf[Exec(w)]] = "CONSUMED"] /\ Goto(w, "started")
           /\ UNCHANGED <<journal, attempts>>
  <2>2. /\ proc'[w].pc = "started" /\ proc'[w].exec = proc[w].exec /\ proc'[w].kind = proc[w].kind
        /\ \A v \in Workers \ {w} : proc'[v] = proc[v]
    BY <1>2, GotoType DEF Steps
  <2>3. authOf[Exec(w)] \in Auths
    BY <1>1, Constants
  <2>4. /\ auth'[authOf[Exec(w)]] = "CONSUMED"
        /\ \A a \in Auths : auth[a] = "CONSUMED" => auth'[a] = "CONSUMED"
    BY <1>2, <2>3 DEF TypeOK
  <2>5. Progress(w)'
    BY <1>1, <1>2, <2>2, <2>4, QuietProgress DEF Progress
  <2> QED
    BY <1>1, <1>2, <2>2, <2>4, <2>5, QuietStep
<1>3. CASE /\ Note(Exec(w), "CREATE", "AUTHORIZATION_NOT_CONSUMED", FALSE)
           /\ Return(w) /\ auth' = auth
  <2>1. /\ Note(Exec(w), Kind(w), "AUTHORIZATION_NOT_CONSUMED", FALSE)
        /\ Return(w) /\ auth' = auth
    BY <1>1, <1>3
  <2>2. ~Busy(w)' /\ \A v \in Workers \ {w} : proc'[v] = proc[v]
    BY <2>1, ReturnType DEF Busy
  <2>3. ~(sends[Request(w)] > 0)
    BY <1>1
  <2> QED
    BY <1>1, <2>1, <2>2, <2>3, NotedStep
<1> QED
  BY <1>2, <1>3 DEF Consume

\* The only step that hands a request over; its worker never did before.
LEMMA SendSend ==
  ASSUME TypeOK, SendInv, NEW w \in Workers, Send(w)
  PROVE  SendInv'
<1>1. /\ Busy(w) /\ proc[w].pc = "send" /\ Goto(w, "answer")
      /\ sends' = [sends EXCEPT ![Request(w)] = sends[Request(w)] + 1]
      /\ UNCHANGED <<auth, journal, attempts, rows, recovering>>
  BY DEF Send, At, Busy, storeVars
<1>2. PICK x \in Executions, k \in Kinds :
        /\ x = Exec(w) /\ k = Kind(w) /\ Request(w) = <<x, k>> /\ SentMarked(x, k)
        /\ Progress(w) /\ <<x, k>> \in Requests
  BY <1>1, Working
<1>3. /\ proc'[w].pc = "answer" /\ proc'[w].exec = proc[w].exec /\ proc'[w].kind = proc[w].kind
      /\ \A v \in Workers \ {w} : proc'[v] = proc[v]
  BY <1>1, GotoType DEF Steps
<1>4. /\ sends[<<x, k>>] = 0 /\ Marked(x, k)
      /\ k = "CREATE" => auth[authOf[x]] = "CONSUMED" /\ rows[x].state # "NONE"
  BY <1>1, <1>2 DEF Progress
<1>5. sends'[<<x, k>>] = 1
  BY <1>1, <1>2, <1>4 DEF TypeOK
<1>6. \A y \in Executions, j \in Kinds : ~(y = x /\ j = k) =>
        EntryOf(y, j)' = EntryOf(y, j) /\ sends'[<<y, j>>] = sends[<<y, j>>]
  BY <1>1, <1>2 DEF EntryOf, TypeOK, Requests
<1>7. EntryOf(x, k)' = EntryOf(x, k) /\ EntryOf(x, k).state # "NONE"
  BY <1>1, <1>2, Working DEF EntryOf
<1>8. SentMarked(x, k)'
  BY <1>1, <1>4, <1>5, <1>7 DEF SentMarked, Marked
<1>9. Progress(w)'
  BY <1>1, <1>2, <1>3, QuietProgress DEF Progress
<1>10. proc'[w].exec = x /\ proc'[w].kind = k
  BY <1>2, <1>3 DEF Exec, Kind
<1> QED
  BY <1>1, <1>2, <1>3, <1>6, <1>7, <1>8, <1>9, <1>10, WorkerStep

LEMMA EnvironmentSend ==
  ASSUME TypeOK, SendInv, Environment
  PROVE  SendInv'
<1>1. CASE UNCHANGED <<auth, journal, attempts, rows, recovering, proc, sends>>
  <2>1. \A y \in Executions, j \in Kinds : EntryOf(y, j)' = EntryOf(y, j)
    BY <1>1 DEF EntryOf
  <2>2. \A y \in recovering' : journal'[y].state # "NONE"
    BY <1>1 DEF SendInv
  <2> QED
    BY <1>1, <2>1, <2>2, NobodysStep
<1>2. CASE RecoverRead
  <2>1. UNCHANGED <<auth, journal, attempts, rows, proc, sends>>
    BY <1>2 DEF RecoverRead
  <2>2. \A y \in Executions, j \in Kinds : EntryOf(y, j)' = EntryOf(y, j)
    BY <2>1 DEF EntryOf
  <2>3. \A y \in recovering' : journal'[y].state # "NONE"
    BY <1>2, <2>1 DEF RecoverRead, Incomplete
  <2> QED
    BY <2>1, <2>2, <2>3, NobodysStep
<1>3. CASE RecoverWrite
  <2>1. recovering' = {} /\ UNCHANGED <<auth, attempts, proc, sends>>
    BY <1>3 DEF RecoverWrite
  <2>2. \A y \in Executions : rows[y].state # "NONE" => rows'[y].state # "NONE"
    BY <1>3 DEF RecoverWrite, Unknown
  <2>3. ASSUME NEW y \in Executions
        PROVE  \/ journal'[y] = journal[y]
               \/ /\ journal[y].state # "NONE" /\ journal'[y].may = journal[y].may
                  /\ journal'[y].state \notin {"NONE", "PROVEN_UNSENT"}
    BY <1>3 DEF RecoverWrite, SendInv
  <2>4. \A y \in Executions, j \in Kinds :
           \/ EntryOf(y, j)' = EntryOf(y, j)
           \/ /\ EntryOf(y, j).state # "NONE" /\ EntryOf(y, j)'.may = EntryOf(y, j).may
              /\ EntryOf(y, j)'.state \notin {"NONE", "PROVEN_UNSENT"}
    BY <2>1, <2>3 DEF EntryOf
  <2> QED
    BY <2>1, <2>2, <2>4, NobodysStep
<1>4. ASSUME NEW k \in Auths, LoseAuth(k)
      PROVE  SendInv'
  <2>1. /\ auth[k] = "ISSUED" /\ auth' = [auth EXCEPT ![k] = "REVOKED"]
        /\ UNCHANGED <<journal, attempts, rows, recovering, proc, sends>>
    BY <1>4 DEF LoseAuth, storeVars
  <2>2. \A y \in Executions, j \in Kinds : EntryOf(y, j)' = EntryOf(y, j)
    BY <2>1 DEF EntryOf
  <2>3. \A a \in Auths : auth[a] = "CONSUMED" => auth'[a] = "CONSUMED"
    BY <2>1 DEF TypeOK
  <2>4. \A y \in recovering' : journal'[y].state # "NONE"
    BY <2>1 DEF SendInv
  <2> QED
    BY <2>1, <2>2, <2>3, <2>4, NobodysStep
<1>5. ASSUME NEW x \in Executions, Reconcile(x)
      PROVE  SendInv'
  <2> DEFINE copy == [state |-> TruthOf(x), filled |-> exch[x].filled, recon |-> FALSE]
  <2>1. /\ rows' = [rows EXCEPT ![x] = copy]
        /\ UNCHANGED <<auth, journal, attempts, recovering, proc, sends>>
    BY <1>5 DEF Reconcile
  <2>2. copy.state # "NONE"
    BY TruthOfType DEF Settled
  <2> HIDE DEF copy
  <2>3. \A y \in Executions : rows[y].state # "NONE" => rows'[y].state # "NONE"
    BY <2>1, <2>2 DEF TypeOK
  <2>4. \A y \in Executions, j \in Kinds : EntryOf(y, j)' = EntryOf(y, j)
    BY <2>1 DEF EntryOf
  <2>5. \A y \in recovering' : journal'[y].state # "NONE"
    BY <2>1 DEF SendInv
  <2> QED
    BY <2>1, <2>3, <2>4, <2>5, NobodysStep
<1>6. ASSUME NEW x \in Executions, Fill(x) \/ \E k \in Kinds : Arrive(x, k)
      PROVE  SendInv'
  BY <1>1, <1>6 DEF Fill, Arrive, storeVars
<1> QED
  BY <1>2, <1>3, <1>4, <1>5, <1>6 DEF Environment

LEMMA SendStep ==
  ASSUME TypeOK, SendInv, [Next]_vars
  PROVE  TypeOK' /\ SendInv'
<1>1. CASE Environment
  BY <1>1, EnvironmentType, EnvironmentSend
<1>2. ASSUME NEW w \in Workers, Call(w)
      PROVE  TypeOK' /\ SendInv'
  BY <1>2, CallType, SubmitSend, MutateSend DEF Call
<1>3. ASSUME NEW w \in Workers, Advance(w) \/ Crash(w)
      PROVE  TypeOK' /\ SendInv'
  BY <1>3, SaveStepsType, SavePendingSend, SaveCrashSend, JournalStepsType, ConsumeSend,
     MarkStartedSend, SettleSend, SendCrashType, SendSend, AnswerType, AnswerSend DEF Advance
<1>4. CASE UNCHANGED vars
  <2>1. TypeOK'
    BY <1>4 DEF vars, storeVars, exchangeVars, TypeOK
  <2>2. /\ UNCHANGED <<auth, journal, attempts, rows, recovering, proc, sends>>
        /\ \A y \in Executions, j \in Kinds : EntryOf(y, j)' = EntryOf(y, j)
    BY <1>4 DEF vars, storeVars, EntryOf
  <2>3. \A y \in recovering' : journal'[y].state # "NONE"
    BY <2>2 DEF SendInv
  <2> QED
    BY <2>1, <2>2, <2>3, NobodysStep
<1> QED
  BY <1>1, <1>2, <1>3, <1>4 DEF Next

\* The strengthening the three properties of the sends rest on: who owns a
\* request, how far it is, and what is durable of it, hold together along
\* every step of submit, mutate, recover and the exchange.
THEOREM SendsInductive == Spec => [](TypeOK /\ SendInv)
<1>1. Init => TypeOK /\ SendInv
  BY InitType, InitSend
<1>2. TypeOK /\ SendInv /\ [Next]_vars => TypeOK' /\ SendInv'
  BY SendStep
<1> QED
  BY <1>1, <1>2, PTL DEF Spec

\* Every row, attempt, reply and carried value of the engine has its type; a
\* saved fill stays within the quantity of the intent.
THEOREM DemoTypeCorrect == Spec => []TypeOK
  BY SendsInductive, PTL

\* The journal admits one worker per request, and a worker sends once: no
\* crash, race or recover sends a request again or a create in a second
\* environment of the intent.
THEOREM SentOnce == Spec => []RequestSentOnce
<1>1. ASSUME TypeOK, SendInv
      PROVE  RequestSentOnce
  <2>1. ASSUME NEW q \in Requests
        PROVE  sends[q] <= 1
    <3>1. PICK x \in Executions, k \in Kinds : q = <<x, k>>
      BY <2>1 DEF Requests
    <3> QED
      BY <3>1, <1>1 DEF SendInv, SentMarked
  <2>2. ASSUME NEW x \in Executions, NEW y \in Executions, sends[<<x, "CREATE">>] > 0,
               sends[<<y, "CREATE">>] > 0, authOf[x] = authOf[y]
        PROVE  x = y
    <3>1. Marked(x, "CREATE") /\ Marked(y, "CREATE")
      BY <1>1, <2>2, Constants DEF SendInv, SentMarked
    <3>2. journal[x].state # "NONE" /\ journal[y].state # "NONE"
      BY <3>1 DEF Marked, EntryOf
    <3> QED
      BY <1>1, <2>2, <3>2 DEF SendInv, OneJournal
  <2> QED
    BY <2>1, <2>2 DEF RequestSentOnce
<1> QED
  BY <1>1, SendsInductive, PTL

\* What submit handed to the network had its authorization consumed and is
\* found by every later recover, also by one whose write raced the worker's.
THEOREM SentCanBeRecovered == Spec => []SentIsRecoverable
<1>1. ASSUME TypeOK, SendInv
      PROVE  SentIsRecoverable
  <2> SUFFICES ASSUME NEW x \in Executions, sends[<<x, "CREATE">>] > 0
               PROVE  /\ auth[authOf[x]] = "CONSUMED" /\ journal[x].may
                      /\ x \in Incomplete /\ rows[x].state # "NONE"
    BY DEF SentIsRecoverable
  <2>1. Marked(x, "CREATE") /\ auth[authOf[x]] = "CONSUMED" /\ rows[x].state # "NONE"
    BY <1>1, Constants DEF SendInv, SentMarked
  <2>2. journal[x].may /\ journal[x].state \notin {"NONE", "PROVEN_UNSENT"}
    BY <2>1 DEF Marked, EntryOf
  <2>3. journal[x].state # "RECONCILED"
    BY <1>1 DEF TypeOK, Entry
  <2> QED
    BY <2>1, <2>2, <2>3 DEF Incomplete
<1> QED
  BY <1>1, SendsInductive, PTL

\* mark_send_started precedes every send, and no later write of the engine or
\* of recover takes a sent request for unsent.
THEOREM SentNeverUnsent == Spec => []SentIsNeverUnsent
<1>1. ASSUME TypeOK, SendInv
      PROVE  SentIsNeverUnsent
  <2> SUFFICES ASSUME NEW q \in Requests, sends[q] > 0
               PROVE  EntryOf(q[1], q[2]).may /\ EntryOf(q[1], q[2]).state # "PROVEN_UNSENT"
    BY DEF SentIsNeverUnsent
  <2>1. PICK x \in Executions, k \in Kinds : q = <<x, k>>
    BY DEF Requests
  <2>2. Marked(x, k)
    BY <1>1, <2>1 DEF SendInv, SentMarked
  <2>3. q[1] = x /\ q[2] = k
    BY <2>1
  <2> QED
    BY <2>2, <2>3 DEF Marked
<1> QED
  BY <1>1, SendsInductive, PTL

-----------------------------------------------------------------------------
(* The outcomes: what the exchange has done stays done *)

Grows(x) ==
  /\ exch'[x].filled >= exch[x].filled
  /\ exch[x].status = "canceled" => exch'[x].status = "canceled"
  /\ exch[x].status = "rejected" => exch'[x].status = "rejected"

LEMMA Numbers ==
  ASSUME TypeOK, NEW x \in Executions
  PROVE  /\ exch[x].filled \in Nat /\ rows[x].filled \in Nat /\ held[x].filled \in Nat
         /\ exch[x].status \in {"none", "open", "canceled", "rejected"}
         /\ \A k \in Kinds : reply[<<x, k>>].reported \in Int /\ sends[<<x, k>>] \in Nat
<1>1. exch[x].filled \in Fills /\ exch[x].status \in {"none", "open", "canceled", "rejected"}
  BY DEF TypeOK, Exchange
<1>2. rows[x].filled \in 0..Quantity /\ held[x].filled \in 0..Quantity
  BY DEF TypeOK, Order
<1>3. \A k \in Kinds : reply[<<x, k>>].reported \in {Omitted} \union Fills
                      /\ sends[<<x, k>>] \in Nat
  BY DEF TypeOK, Requests, Reply
<1> QED
  BY <1>1, <1>2, <1>3, Constants DEF Fills

LEMMA TruthKeeps ==
  ASSUME TypeOK, TypeOK', SendInv, TruthInv,
         \A x \in Executions : Grows(x) /\ (exch'[x].status = "none" => exch'[x].filled = 0),
         \A x \in Executions, k \in Kinds : Delivered(x, k)',
         \A x \in Executions :
           rows'[x] = rows[x] \/ BornOut(x, rows[x].state, rows[x].filled)',
         \A x \in Executions : held'[x] = held[x] \/ held'[x].filled <= exch'[x].filled,
         \A w \in Workers : proc'[w] = proc[w] \/ Carried(w)'
  PROVE  TruthInv'
<1>1. ASSUME NEW x \in Executions, NEW st, NEW filled \in Nat, BornOut(x, st, filled)
      PROVE  BornOut(x, st, filled)'
  <2>1. exch[x].filled \in Nat /\ exch'[x].filled \in Nat /\ Grows(x) /\ Quantity \in Nat
    BY Numbers, Constants DEF TypeOK, Exchange, Fills
  <2> QED
    BY <1>1, <2>1 DEF BornOut, Grows
<1>2. ASSUME NEW x \in Executions
      PROVE  BornOut(x, rows[x].state, rows[x].filled)'
  <2>1. CASE rows'[x] = rows[x]
    <3>1. BornOut(x, rows[x].state, rows[x].filled) /\ rows[x].filled \in Nat
      BY Numbers DEF TruthInv
    <3>2. PICK st, filled : st = rows[x].state /\ filled = rows[x].filled
      OBVIOUS
    <3>3. BornOut(x, st, filled)'
      BY <1>1, <3>1, <3>2
    <3> QED
      BY <2>1, <3>2, <3>3 DEF BornOut
  <2> QED
    BY <2>1
<1>3. ASSUME NEW x \in Executions
      PROVE  held'[x].filled <= exch'[x].filled
  <2>1. /\ held[x].filled <= exch[x].filled /\ Grows(x) /\ held[x].filled \in Nat
        /\ exch[x].filled \in Nat /\ exch'[x].filled \in Nat
    BY Numbers, Constants DEF TruthInv, TypeOK, Exchange, Fills
  <2> QED
    BY <2>1 DEF Grows
<1>4. ASSUME NEW w \in Workers
      PROVE  Carried(w)'
  <2>1. CASE proc'[w] = proc[w] /\ Busy(w)
    <3>1. PICK x \in Executions : x = Exec(w)
      BY <2>1, Working
    <3>2. PICK st, filled, seen : st = proc[w].result /\ filled = proc[w].filled /\ seen = proc[w].seen
      OBVIOUS
    <3>3. filled \in Nat /\ seen \in Nat
      BY <3>2, Fields, Constants
    <3>4. BornOut(x, st, filled) /\ BornOut(x, "NONE", seen)
      BY <2>1, <3>1, <3>2 DEF TruthInv, Carried, BornOut
    <3>5. BornOut(x, st, filled)' /\ BornOut(x, "NONE", seen)'
      BY <1>1, <3>3, <3>4
    <3>6. Exec(w)' = x
      BY <2>1, <3>1 DEF Exec
    <3> QED
      BY <2>1, <3>2, <3>5, <3>6 DEF Carried, BornOut
  <2>2. CASE proc'[w] = proc[w] /\ ~Busy(w)
    BY <2>2 DEF Carried, Busy
  <2> QED
    BY <2>1, <2>2
<1> QED
  BY <1>2, <1>3, <1>4 DEF TruthInv

\* A step of the engine or of its callers does nothing at the exchange.
LEMMA LocalTruth ==
  ASSUME TypeOK, TypeOK', SendInv, TruthInv, UNCHANGED <<sends, exchangeVars>>,
         \A x \in Executions :
           rows'[x] = rows[x] \/ BornOut(x, rows[x].state, rows[x].filled)',
         \A x \in Executions : held'[x] = held[x] \/ held'[x].filled <= exch'[x].filled,
         \A w \in Workers : proc'[w] = proc[w] \/ Carried(w)'
  PROVE  TruthInv'
<1>1. \A x \in Executions : Grows(x) /\ (exch'[x].status = "none" => exch'[x].filled = 0)
  BY Numbers DEF exchangeVars, Grows, TruthInv
<1>2. \A x \in Executions, k \in Kinds : Delivered(x, k)'
  BY DEF exchangeVars, TruthInv, Delivered
<1> QED
  BY <1>1, <1>2, TruthKeeps

LEMMA InitTruth == Init => TruthInv
<1> SUFFICES ASSUME Init PROVE TruthInv
  OBVIOUS
<1>1. \A w \in Workers : Carried(w)
  BY DEF Init, Idle, Carried, Busy
<1>2. \A x \in Executions :
        /\ exch[x].status = "none" /\ exch[x].filled = 0 /\ held[x].filled = 0
        /\ rows[x].state = "NONE" /\ rows[x].filled = 0
  BY DEF Init, NoRow
<1>3. wire = {} /\ \A x \in Executions, k \in Kinds : reply[<<x, k>>].status = "none"
  BY DEF Init, Requests, NoReply
<1> QED
  BY <1>1, <1>2, <1>3 DEF TruthInv, BornOut, Delivered

LEMMA CallTruth ==
  ASSUME TypeOK, TypeOK', SendInv, TruthInv, NEW w \in Workers, NEW x \in Executions,
         SubmitCall(w, x) \/ \E k \in Mutations : MutateCall(w, x, k)
  PROVE  TruthInv'
<1>1. UNCHANGED <<rows, held, sends, exchangeVars>>
  BY DEF SubmitCall, MutateCall
<1>2. ASSUME NEW k \in Kinds, NEW seen \in 0..Quantity, seen <= exch[x].filled,
             proc' = [proc EXCEPT ![w] = [pc |-> "pending", exec |-> x, kind |-> k,
                                          seen |-> seen, result |-> "NONE", filled |-> 0]]
      PROVE  TruthInv'
  <2> DEFINE p == [pc |-> "pending", exec |-> x, kind |-> k,
                   seen |-> seen, result |-> "NONE", filled |-> 0]
  <2>1. /\ p \in Proc /\ p.exec = x /\ p.seen = seen /\ p.result = "NONE" /\ p.filled = 0
        /\ proc' = [proc EXCEPT ![w] = p]
    BY <1>2, Constants DEF Proc, Steps
  <2> HIDE DEF p
  <2>2. proc'[w] = p /\ \A v \in Workers \ {w} : proc'[v] = proc[v]
    BY <2>1, BecomesType
  <2>3. exch' = exch /\ exch[x].filled \in Nat
    BY <1>1, Numbers DEF exchangeVars
  <2>4. Carried(w)'
    BY <1>2, <2>1, <2>2, <2>3 DEF Carried, BornOut, Exec
  <2> QED
    BY <1>1, <2>2, <2>4, LocalTruth
<1>3. CASE SubmitCall(w, x)
  <2>1. 0 \in 0..Quantity /\ 0 <= exch[x].filled
    BY Constants, Numbers
  <2> QED
    BY <1>2, <1>3, <2>1, Constants DEF SubmitCall
<1>4. ASSUME NEW k \in Mutations, MutateCall(w, x, k)
      PROVE  TruthInv'
  <2>1. held[x].filled \in 0..Quantity /\ held[x].filled <= exch[x].filled /\ k \in Kinds
    BY Constants DEF TypeOK, Order, TruthInv
  <2>2. CASE proc' = proc
    BY <1>1, <2>2, LocalTruth
  <2>3. CASE proc' # proc
    BY <1>2, <1>4, <2>1, <2>3 DEF MutateCall
  <2> QED
    BY <2>2, <2>3
<1> QED
  BY <1>3, <1>4

\* A worker that moves on, or is done, carries what it carried.
LEMMA GoesOn ==
  ASSUME TypeOK, SendInv, TruthInv, NEW w \in Workers, Busy(w), exch' = exch,
         \/ Return(w)
         \/ \E step \in Steps : Goto(w, step)
  PROVE  /\ Carried(w)'
         /\ \A v \in Workers \ {w} : proc'[v] = proc[v]
<1>1. CASE Return(w)
  BY <1>1, ReturnType DEF Carried, Busy
<1>2. ASSUME NEW step \in Steps, Goto(w, step)
      PROVE  /\ Carried(w)' /\ \A v \in Workers \ {w} : proc'[v] = proc[v]
  <2>1. /\ proc'[w].exec = proc[w].exec /\ proc'[w].seen = proc[w].seen
        /\ proc'[w].result = proc[w].result /\ proc'[w].filled = proc[w].filled
        /\ \A v \in Workers \ {w} : proc'[v] = proc[v]
    BY <1>2, GotoType
  <2>2. Carried(w)
    BY DEF TruthInv
  <2> QED
    BY <2>1, <2>2 DEF Carried, BornOut, Exec
<1> QED
  BY <1>1, <1>2

LEMMA JournalStepsTruth ==
  ASSUME TypeOK, TypeOK', SendInv, TruthInv, NEW w \in Workers,
         Consume(w) \/ MarkStarted(w) \/ Settle(w) \/ Crash(w)
  PROVE  TruthInv'
<1>1. Busy(w) /\ UNCHANGED <<rows, held, sends, exchangeVars>>
  BY DEF Consume, MarkStarted, Settle, Crash, At, Busy, storeVars
<1>2. Return(w) \/ \E step \in Steps : Goto(w, step)
  BY DEF Consume, MarkStarted, Settle, Crash, Steps
<1>3. Carried(w)' /\ \A v \in Workers \ {w} : proc'[v] = proc[v]
  BY <1>1, <1>2, GoesOn DEF exchangeVars
<1> QED
  BY <1>1, <1>3, LocalTruth

LEMMA SaveStepsTruth ==
  ASSUME TypeOK, TypeOK', SendInv, TruthInv, NEW w \in Workers, SavePending(w) \/ Save(w)
  PROVE  TruthInv'
<1>1. Busy(w) /\ UNCHANGED <<held, sends, exchangeVars>> /\ exch' = exch
  BY DEF SavePending, Save, At, Busy, exchangeVars
<1>2. Return(w) \/ \E step \in Steps : Goto(w, step)
  BY DEF SavePending, Save, Steps
<1>3. Carried(w)' /\ \A v \in Workers \ {w} : proc'[v] = proc[v]
  BY <1>1, <1>2, GoesOn
<1>4. PICK x \in Executions : x = Exec(w)
  BY <1>1, Working
<1>5. /\ proc[w].seen <= exch[x].filled /\ BornOut(x, proc[w].result, proc[w].filled)
      /\ proc[w].seen \in 0..Quantity /\ proc[w].filled \in 0..Quantity
  BY <1>1, <1>4, Fields DEF TruthInv, Carried
<1>6. ASSUME NEW st \in OrderStates, NEW filled \in 0..Quantity, SaveOrder(x, st, filled),
             BornOut(x, st, filled)
      PROVE  TruthInv'
  <2>1. /\ rows'[x].state = st /\ rows'[x].filled = filled
        /\ \A y \in Executions \ {x} : rows'[y] = rows[y]
    BY <1>6, SaveType
  <2>2. BornOut(x, rows[x].state, rows[x].filled)'
    BY <1>1, <1>6, <2>1 DEF BornOut
  <2> QED
    BY <1>1, <1>3, <2>1, <2>2, LocalTruth
<1>7. CASE SavePending(w)
  <2>1. /\ PendingOf(Kind(w)) \in OrderStates
        /\ PendingOf(Kind(w)) \notin {"FILLED", "CANCELED", "REJECTED"}
    BY <1>1, Working, PendingOfType DEF Settled
  <2>2. BornOut(x, PendingOf(Kind(w)), proc[w].seen)
    BY <1>5, <2>1 DEF BornOut
  <2> QED
    BY <1>4, <1>5, <1>6, <1>7, <2>1, <2>2 DEF SavePending
<1>8. CASE Save(w)
  <2>1. proc[w].result \in OrderStates
    BY <1>1, <1>8, Working, Fields DEF Save, Progress, At, OrderStates
  <2> QED
    BY <1>4, <1>5, <1>6, <1>8, <2>1 DEF Save
<1> QED
  BY <1>7, <1>8

\* What a worker makes of an answer is what the exchange said and did.
LEMMA AnswerTruth ==
  ASSUME TypeOK, TypeOK', SendInv, TruthInv, NEW w \in Workers,
         ProvenUnsent(w) \/ Acknowledge(w) \/ Refused(w) \/ NoAnswer(w)
  PROVE  TruthInv'
<1>1. /\ Busy(w) /\ UNCHANGED <<rows, held, sends, exchangeVars>> /\ exch' = exch
  BY AnswerKinds DEF ProvenUnsent, Acknowledge, Refused, NoAnswer, At, Busy, storeVars, exchangeVars
<1>2. PICK x \in Executions, k \in Kinds :
        /\ x = Exec(w) /\ k = Kind(w) /\ Request(w) = <<x, k>>
  BY <1>1, Working
<1>3. /\ Delivered(x, k) /\ proc[w].seen <= exch[x].filled /\ proc[w].seen \in 0..Quantity
      /\ exch[x].filled \in Nat /\ reply[<<x, k>>].reported \in Int
  BY <1>1, <1>2, Fields, Numbers DEF TruthInv, Carried
<1>4. CASE Return(w)
  BY <1>1, <1>4, GoesOn, LocalTruth
<1>5. ASSUME NEW result \in {"UNSENT", Unknown} \union Settled, NEW filled \in 0..Quantity,
             Learn(w, result, filled), BornOut(x, result, filled)
      PROVE  TruthInv'
  <2>1. /\ proc'[w].exec = proc[w].exec /\ proc'[w].seen = proc[w].seen
        /\ proc'[w].result = result /\ proc'[w].filled = filled
        /\ \A v \in Workers \ {w} : proc'[v] = proc[v]
    BY <1>5, LearnType
  <2>2. Exec(w)' = x
    BY <1>2, <2>1 DEF Exec
  <2>3. Carried(w)'
    BY <1>1, <1>3, <1>5, <2>1, <2>2 DEF Carried, BornOut
  <2> QED
    BY <1>1, <2>1, <2>3, LocalTruth
<1>6. 0 \in 0..Quantity /\ {"ACCEPTED", "REJECTED"} \subseteq Settled
  BY Constants DEF Settled
<1>7. CASE Learn(w, "UNSENT", proc[w].seen) \/ Learn(w, Unknown, proc[w].seen)
  <2>1. BornOut(x, "UNSENT", proc[w].seen) /\ BornOut(x, Unknown, proc[w].seen)
    BY <1>3 DEF BornOut, Unknown
  <2> QED
    BY <1>3, <1>5, <1>7, <2>1
<1>8. CASE Learn(w, "ACCEPTED", 0)
  <2>1. BornOut(x, "ACCEPTED", 0)
    BY <1>3 DEF BornOut
  <2> QED
    BY <1>5, <1>6, <1>8, <2>1
<1>9. CASE /\ Kind(w) = "CREATE" /\ Learn(w, "REJECTED", proc[w].seen)
           /\ reply[Request(w)].status = "refused"
  <2>1. BornOut(x, "REJECTED", proc[w].seen)
    BY <1>2, <1>3, <1>9 DEF BornOut, Delivered
  <2> QED
    BY <1>3, <1>5, <1>6, <1>9, <2>1
<1>10. ASSUME NEW filled \in proc[w].seen..Quantity,
              Learn(w, MutationResult(Kind(w), proc[w].seen, filled), filled),
              reply[Request(w)].status = "accepted",
              filled = proc[w].seen \/ filled = reply[Request(w)].reported
       PROVE  TruthInv'
  <2>1. PICK result \in Settled : result = MutationResult(Kind(w), proc[w].seen, filled)
    BY MutationResultType
  <2>2. /\ result # "REJECTED"
        /\ result = "FILLED" => filled = Quantity
        /\ result = "CANCELED" => k = "CANCEL"
    BY <1>2, <2>1, MutationResultType
  <2>3. filled \in 0..Quantity /\ filled <= exch[x].filled
    BY <1>2, <1>3, <1>10, Constants DEF Delivered
  <2>4. BornOut(x, result, filled)
    BY <1>2, <1>3, <1>10, <2>2, <2>3, Constants DEF BornOut, Delivered
  <2> QED
    BY <1>5, <1>10, <2>1, <2>3, <2>4
<1> QED
  BY <1>4, <1>7, <1>8, <1>9, <1>10, AnswerKinds

\* A request goes out: the exchange has not seen it, nor any create of it.
LEMMA SendTruth ==
  ASSUME TypeOK, TypeOK', SendInv, TruthInv, NEW w \in Workers, Send(w)
  PROVE  TruthInv'
<1>1. /\ Busy(w) /\ proc[w].pc = "send" /\ \E step \in Steps : Goto(w, step)
      /\ sends' = [sends EXCEPT ![Request(w)] = sends[Request(w)] + 1]
      /\ wire' = wire \union {Request(w)}
      /\ UNCHANGED <<rows, held, reply, exch>>
  BY DEF Send, At, Busy, storeVars, Steps
<1>2. PICK x \in Executions, k \in Kinds :
        Request(w) = <<x, k>> /\ <<x, k>> \in Requests /\ sends[<<x, k>>] = 0
  BY <1>1, Working DEF Progress
<1>3. Carried(w)' /\ \A v \in Workers \ {w} : proc'[v] = proc[v]
  BY <1>1, GoesOn
<1>4. sends'[<<x, k>>] = 1 /\ <<x, k>> \in wire'
  BY <1>1, <1>2 DEF TypeOK
<1>5. ASSUME NEW y \in Executions, NEW j \in Kinds
      PROVE  Delivered(y, j)'
  <2>1. Delivered(y, j)
    BY DEF TruthInv
  <2>2. CASE y = x /\ j = k
    BY <1>1, <1>2, <1>4, <2>1, <2>2 DEF Delivered
  <2>3. CASE ~(y = x /\ j = k)
    <3>1. sends'[<<y, j>>] = sends[<<y, j>>] /\ (<<y, j>> \in wire' <=> <<y, j>> \in wire)
      BY <1>1, <1>2, <2>3 DEF TypeOK, Requests
    <3> QED
      BY <1>1, <2>1, <3>1 DEF Delivered
  <2> QED
    BY <2>2, <2>3
<1>6. \A y \in Executions : Grows(y) /\ (exch'[y].status = "none" => exch'[y].filled = 0)
  BY <1>1, Numbers DEF Grows, TruthInv
<1> QED
  BY <1>1, <1>3, <1>5, <1>6, TruthKeeps

LEMMA FillTruth ==
  ASSUME TypeOK, TypeOK', SendInv, TruthInv, NEW x \in Executions, Fill(x)
  PROVE  TruthInv'
<1>1. UNCHANGED <<rows, proc, held, sends, wire, reply>>
  BY DEF Fill, storeVars
<1>2. /\ \A y \in Executions \ {x} : exch'[y] = exch[y]
      /\ exch'[x].filled = exch[x].filled + 1 /\ exch'[x].status = exch[x].status
      /\ exch[x].status = "open"
  BY FillEffect
<1>3. \A y \in Executions : Grows(y) /\ (exch'[y].status = "none" => exch'[y].filled = 0)
  BY <1>2, Numbers DEF Grows, TruthInv
<1>4. ASSUME NEW y \in Executions, NEW j \in Kinds
      PROVE  Delivered(y, j)'
  <2>1. /\ Delivered(y, j) /\ exch'[y].status = exch[y].status
        /\ exch[y].filled \in Nat /\ exch'[y].filled >= exch[y].filled
        /\ exch'[y].filled \in Nat /\ reply[<<y, j>>].reported \in Int
    BY <1>2, Numbers DEF TruthInv
  <2> QED
    BY <1>1, <2>1 DEF Delivered
<1> QED
  BY <1>1, <1>3, <1>4, TruthKeeps

LEMMA ArriveTruth ==
  ASSUME TypeOK, TypeOK', SendInv, TruthInv, NEW x \in Executions, NEW k \in Kinds, Arrive(x, k)
  PROVE  TruthInv'
<1>1. /\ wire' = wire \ {<<x, k>>} /\ <<x, k>> \in wire
      /\ UNCHANGED <<rows, proc, held, sends>>
      /\ \A y \in Executions \ {x} : exch'[y] = exch[y]
      /\ \A q \in Requests \ {<<x, k>>} : reply'[q] = reply[q]
  BY ArriveEffect DEF storeVars
<1>2. /\ Delivered(x, k) /\ exch[x].filled \in Nat /\ exch'[x].filled \in Nat
      /\ exch[x].status = "none" => exch[x].filled = 0
  BY Numbers, Constants DEF TruthInv, TypeOK, Exchange, Fills
<1>3. sends[<<x, k>>] > 0 /\ (k = "CREATE" => exch[x].status = "none")
  BY <1>1, <1>2 DEF Delivered
<1>4. CASE /\ Execute(x, k) /\ reply'[<<x, k>>].status = "accepted"
           /\ reply'[<<x, k>>].reported \in {Omitted, exch'[x].filled}
  <2>1. /\ exch'[x].filled >= IF k = "CREATE" THEN 0 ELSE exch[x].filled
        /\ exch[x].status = IF k = "CREATE" THEN "none" ELSE "open"
        /\ exch'[x].status = IF k = "CANCEL" THEN "canceled" ELSE "open"
    BY <1>4, ExecuteEffect
  <2>2. exch'[x].filled >= exch[x].filled
    BY <1>2, <2>1
  <2>3. Delivered(x, k)'
    BY <1>1, <1>2, <1>3, <1>4, <2>1, Constants DEF Delivered
  <2>4. Grows(x) /\ exch'[x].status # "none"
    BY <2>1, <2>2 DEF Grows
  <2>5. k # "CREATE" => exch[x].status = "open"
    BY <2>1
  <2> QED
    <3>1. ASSUME NEW y \in Executions, NEW j \in Kinds
          PROVE  Delivered(y, j)'
      <4>1. Delivered(y, j) /\ <<y, j>> \in Requests
        BY DEF TruthInv, Requests
      <4>2. CASE y = x /\ j = k
        BY <2>3, <4>2
      <4>3. CASE y # x
        <5>1. reply'[<<y, j>>] = reply[<<y, j>>] /\ exch'[y] = exch[y]
              /\ (<<y, j>> \in wire' <=> <<y, j>> \in wire)
          BY <1>1, <4>1, <4>3
        <5> QED
          BY <1>1, <4>1, <5>1 DEF Delivered
      <4>4. CASE y = x /\ j # k
        <5>1. reply'[<<y, j>>] = reply[<<y, j>>] /\ (<<y, j>> \in wire' <=> <<y, j>> \in wire)
          BY <1>1, <4>1, <4>4
        <5>2. reply[<<y, j>>].reported \in Int
          BY Numbers
        <5>3. k # "CREATE" \/ j # "CREATE"
          BY <4>4
        <5> QED
          BY <1>1, <1>2, <2>2, <2>4, <2>5, <4>1, <4>4, <5>1, <5>2, <5>3 DEF Delivered, Grows
      <4> QED
        BY <4>2, <4>3, <4>4
    <3>2. \A y \in Executions : Grows(y) /\ (exch'[y].status = "none" => exch'[y].filled = 0)
      BY <1>1, <2>4, Numbers DEF Grows, TruthInv
    <3> QED
      BY <1>1, <3>1, <3>2, TruthKeeps
<1>5. CASE /\ reply'[<<x, k>>].status = "refused" /\ exch'[x].filled = exch[x].filled
           /\ exch'[x].status = IF k = "CREATE" THEN "rejected" ELSE exch[x].status
  <2>1. ASSUME NEW y \in Executions, NEW j \in Kinds
        PROVE  Delivered(y, j)'
    <3>1. Delivered(y, j) /\ <<y, j>> \in Requests
      BY DEF TruthInv, Requests
    <3>2. CASE y = x /\ j = k
      BY <1>1, <1>3, <1>5, <3>2 DEF Delivered
    <3>3. CASE y # x
      <4>1. reply'[<<y, j>>] = reply[<<y, j>>] /\ exch'[y] = exch[y]
            /\ (<<y, j>> \in wire' <=> <<y, j>> \in wire)
        BY <1>1, <3>1, <3>3
      <4> QED
        BY <1>1, <3>1, <4>1 DEF Delivered
    <3>4. CASE y = x /\ j # k
      <4>1. reply'[<<y, j>>] = reply[<<y, j>>] /\ (<<y, j>> \in wire' <=> <<y, j>> \in wire)
        BY <1>1, <3>1, <3>4
      <4> QED
        BY <1>1, <1>3, <1>5, <3>1, <3>4, <4>1 DEF Delivered
    <3> QED
      BY <3>2, <3>3, <3>4
  <2>2. Grows(x) /\ (exch'[x].status = "none" => exch'[x].filled = 0)
    BY <1>2, <1>3, <1>5 DEF Grows
  <2>3. \A y \in Executions : Grows(y) /\ (exch'[y].status = "none" => exch'[y].filled = 0)
    BY <1>1, <2>2, Numbers DEF Grows, TruthInv
  <2> QED
    BY <1>1, <2>1, <2>3, TruthKeeps
<1> QED
  BY <1>4, <1>5, ArriveEffect

LEMMA RecoverTruth ==
  ASSUME TypeOK, TypeOK', SendInv, TruthInv,
         \/ RecoverRead \/ RecoverWrite
         \/ \E k \in Auths : LoseAuth(k)
  PROVE  TruthInv'
<1>1. UNCHANGED <<proc, held, sends, exchangeVars>> /\ exch' = exch
  BY DEF RecoverRead, RecoverWrite, LoseAuth, exchangeVars
<1>2. ASSUME NEW x \in Executions, rows'[x] # rows[x]
      PROVE  BornOut(x, rows[x].state, rows[x].filled)'
  <2>1. rows'[x].state = Unknown /\ rows'[x].filled = rows[x].filled
    BY <1>2 DEF RecoverRead, RecoverWrite, LoseAuth, storeVars
  <2>2. rows[x].filled <= exch[x].filled
    BY DEF TruthInv, BornOut
  <2> QED
    BY <1>1, <2>1, <2>2 DEF BornOut, Unknown
<1> QED
  BY <1>1, <1>2, LocalTruth

LEMMA ReconcileTruth ==
  ASSUME TypeOK, TypeOK', SendInv, TruthInv, NEW x \in Executions, Reconcile(x)
  PROVE  TruthInv'
<1> DEFINE copy == [state |-> TruthOf(x), filled |-> exch[x].filled, recon |-> FALSE]
<1>1. /\ rows' = [rows EXCEPT ![x] = copy] /\ held' = [held EXCEPT ![x] = copy]
      /\ UNCHANGED <<proc, sends, exchangeVars>> /\ exch' = exch
      /\ TruthOf(x) = "FILLED" => exch[x].filled = Quantity
  BY DEF Reconcile, QuantityAllows, exchangeVars
<1>2. copy.state = TruthOf(x) /\ copy.filled = exch[x].filled
  OBVIOUS
<1> HIDE DEF copy
<1>3. /\ rows'[x] = copy /\ held'[x] = copy
      /\ \A y \in Executions \ {x} : rows'[y] = rows[y] /\ held'[y] = held[y]
  BY <1>1 DEF TypeOK
<1>4. exch[x].filled \in Nat /\ Quantity \in Nat
  BY Numbers, Constants
<1>5. BornOut(x, rows[x].state, rows[x].filled)'
  BY <1>1, <1>2, <1>3, <1>4, TruthOfType DEF BornOut
<1>6. held'[x].filled <= exch'[x].filled
  BY <1>1, <1>2, <1>3, <1>4
<1> QED
  BY <1>1, <1>3, <1>5, <1>6, LocalTruth

LEMMA TruthStep ==
  ASSUME TypeOK, TypeOK', SendInv, TruthInv, [Next]_vars
  PROVE  TruthInv'
<1>1. CASE Environment
  BY <1>1, RecoverTruth, ReconcileTruth, FillTruth, ArriveTruth DEF Environment
<1>2. ASSUME NEW w \in Workers, Call(w)
      PROVE  TruthInv'
  BY <1>2, CallTruth DEF Call
<1>3. ASSUME NEW w \in Workers, Advance(w) \/ Crash(w)
      PROVE  TruthInv'
  BY <1>3, SaveStepsTruth, JournalStepsTruth, SendTruth, AnswerTruth DEF Advance
<1>4. CASE UNCHANGED vars
  BY <1>4, LocalTruth DEF vars, storeVars
<1> QED
  BY <1>1, <1>2, <1>3, <1>4 DEF Next

\* A reconciled FILLED row is an order the exchange has ended.
DoneInv ==
  \A x \in Executions : rows[x].state = "FILLED" /\ ~rows[x].recon =>
    exch[x].status = "open" /\ ~Live(x)

\* Nothing brings an order the exchange has filled back to life.
LEMMA DoneStays ==
  ASSUME TypeOK, NEW x \in Executions,
         exch' = exch \/ \E y \in Executions : Fill(y) \/ \E k \in Kinds : Arrive(y, k),
         \A y \in Executions, k \in Kinds :
           Arrive(y, k) /\ k = "CREATE" => exch[y].status = "none",
         exch[x].status = "open", ~Live(x)
  PROVE  exch'[x] = exch[x]
<1>1. ASSUME NEW y \in Executions, Fill(y)
      PROVE  exch'[x] = exch[x]
  BY <1>1, FillEffect DEF Fill
<1>2. ASSUME NEW y \in Executions, NEW k \in Kinds, Arrive(y, k)
      PROVE  exch'[x] = exch[x]
  <2>1. CASE y # x
    <3>1. \A z \in Executions \ {y} : exch'[z] = exch[z]
      BY <1>2, ArriveEffect
    <3> QED
      BY <2>1, <3>1
  <2>2. CASE y = x
    <3>1. k # "CREATE"
      BY <1>2, <2>2
    <3>2. ~Execute(x, k)
      BY <3>1 DEF Execute
    <3>3. exch' = exch
      BY <1>2, <2>2, <3>1, <3>2 DEF Arrive
    <3> QED
      BY <3>3
  <2> QED
    BY <2>1, <2>2
<1> QED
  BY <1>1, <1>2

\* Every save raises the flag; only a caller that reconciles lowers it.
LEMMA DoneStep ==
  ASSUME TypeOK, SendInv, TruthInv, DoneInv, [Next]_vars
  PROVE  DoneInv'
<1>1. ASSUME NEW x \in Executions, exch[x].status = "open", ~Live(x)
      PROVE  exch'[x] = exch[x]
  <2>1. exch' = exch \/ \E y \in Executions : Fill(y) \/ \E k \in Kinds : Arrive(y, k)
    BY DEF Next, Environment, Call, Advance, SubmitCall, MutateCall, SavePending, Consume,
           MarkStarted, Send, ProvenUnsent, Acknowledge, Learn, Refused, NoAnswer, Settle,
           Save, Crash, RecoverRead, RecoverWrite, LoseAuth, Reconcile, exchangeVars, vars
  <2>2. \A y \in Executions, k \in Kinds :
          Arrive(y, k) /\ k = "CREATE" => exch[y].status = "none"
    BY DEF Arrive, TruthInv, Delivered
  <2> QED
    BY <1>1, <2>1, <2>2, DoneStays
<1>2. ASSUME NEW x \in Executions
      PROVE  \/ rows'[x] = rows[x] \/ rows'[x].recon
             \/ Reconcile(x) /\ rows'[x].state = TruthOf(x)
  <2>1. ASSUME NEW y \in Executions, NEW st, NEW filled, SaveOrder(y, st, filled)
        PROVE  rows'[x] = rows[x] \/ rows'[x].recon
    BY <2>1 DEF SaveOrder, TypeOK
  <2>2. ASSUME NEW w \in Workers, SavePending(w) \/ Save(w)
        PROVE  rows'[x] = rows[x] \/ rows'[x].recon
    <3>1. PICK y \in Executions : y = Exec(w)
      BY <2>2, Working DEF SavePending, Save, At, Busy
    <3> QED
      BY <2>1, <2>2, <3>1 DEF SavePending, Save
  <2>3. CASE RecoverWrite
    BY <2>3 DEF RecoverWrite
  <2>4. ASSUME NEW y \in Executions, Reconcile(y)
        PROVE  rows'[x] = rows[x] \/ (Reconcile(x) /\ rows'[x].state = TruthOf(x))
    BY <2>4 DEF Reconcile, TypeOK
  <2>5. CASE UNCHANGED rows
    BY <2>5
  <2> QED
    BY <2>2, <2>3, <2>4, <2>5
       DEF Next, Environment, Call, Advance, SubmitCall, MutateCall, Consume, MarkStarted,
           Send, ProvenUnsent, Acknowledge, Refused, NoAnswer, Settle, Crash, RecoverRead,
           LoseAuth, Fill, Arrive, storeVars, vars
<1>3. ASSUME NEW x \in Executions, rows'[x].state = "FILLED", ~rows'[x].recon
      PROVE  exch'[x].status = "open" /\ ~Live(x)'
  <2>1. exch[x].status = "open" /\ ~Live(x)
    BY <1>2, <1>3, TruthOfType DEF DoneInv
  <2>2. exch'[x] = exch[x]
    BY <1>1, <2>1
  <2> QED
    BY <2>1, <2>2 DEF Live
<1> QED
  BY <1>3 DEF DoneInv

\* No stale copy, late answer or restart makes the saved order show a fill,
\* a cancellation or a rejection the exchange does not have: the answer a
\* worker read, and the copy it started from, stay true until it saves.  A row
\* that is FILLED while the exchange works the order still asks to be reconciled.
THEOREM NoPhantom == Spec => []NoPhantomOutcome
<1>1. Init => TruthInv
  BY InitTruth
<1>2. Init => DoneInv
  BY DEF Init, NoRow, DoneInv
<1>3. TypeOK /\ SendInv /\ TruthInv /\ TypeOK' /\ [Next]_vars => TruthInv'
  BY TruthStep
<1>4. TypeOK /\ SendInv /\ TruthInv /\ DoneInv /\ [Next]_vars => DoneInv'
  BY DoneStep
<1>5. TypeOK /\ TruthInv /\ DoneInv => NoPhantomOutcome
  <2> SUFFICES ASSUME TypeOK, TruthInv, DoneInv, NEW x \in Executions
               PROVE  /\ rows[x].filled <= exch[x].filled
                      /\ rows[x].state = "FILLED" =>
                           exch[x].filled >= Quantity /\ (rows[x].recon \/ ~Live(x))
                      /\ rows[x].state = "CANCELED" => exch[x].status = "canceled"
                      /\ rows[x].state = "REJECTED" => exch[x].status = "rejected"
    BY DEF NoPhantomOutcome
  <2>1. BornOut(x, rows[x].state, rows[x].filled)
    BY DEF TruthInv
  <2>2. rows[x].state = "FILLED" /\ ~rows[x].recon => ~Live(x)
    BY DEF DoneInv
  <2> QED
    BY <2>1, <2>2 DEF BornOut
<1> QED
  BY <1>1, <1>2, <1>3, <1>4, <1>5, SendsInductive, PTL DEF Spec

-----------------------------------------------------------------------------
(* The engine implements IntentOrders *)

Took(x) == exch[x].status \in {"open", "canceled"}

\* A consumed authorization was spent for a journaled execution, and an order
\* that callers may mutate, or that a worker mutates, was taken by the exchange.
MatchInv ==
  /\ \A a \in Auths : auth[a] = "CONSUMED" =>
       \E x \in Executions : authOf[x] = a /\ journal[x].state # "NONE"
  /\ \A x \in Executions : held[x].state \in {"ACCEPTED", "PARTIALLY_FILLED"} => Took(x)
  /\ \A w \in Workers : Busy(w) /\ Kind(w) # "CREATE" => Took(Exec(w))

Journaled(x) == journal[x].state # "NONE"
KeepsRequest(w) ==
  Busy(w)' => Busy(w) /\ proc'[w].exec = proc[w].exec /\ proc'[w].kind = proc[w].kind
JournalKept  == \A y \in Executions : Journaled(y) => Journaled(y)'

LEMMA MatchKeeps ==
  ASSUME TypeOK, SendInv, MatchInv, JournalKept,
         \A a \in Auths : auth'[a] = "CONSUMED" =>
           auth[a] = "CONSUMED" \/ \E x \in Executions : authOf[x] = a /\ Journaled(x)',
         \A x \in Executions : Took(x) => Took(x)',
         \A x \in Executions :
           held'[x].state \in {"ACCEPTED", "PARTIALLY_FILLED"} => held'[x] = held[x] \/ Took(x)',
         \A w \in Workers :
           \/ KeepsRequest(w)
           \/ proc'[w].kind = "CREATE"
           \/ \E x \in Executions : proc'[w].exec = x /\ Took(x)'
  PROVE  MatchInv'
<1>1. ASSUME NEW a \in Auths, auth'[a] = "CONSUMED"
      PROVE  \E x \in Executions : authOf[x] = a /\ journal'[x].state # "NONE"
  BY <1>1 DEF MatchInv, JournalKept, Journaled
<1>2. ASSUME NEW x \in Executions, held'[x].state \in {"ACCEPTED", "PARTIALLY_FILLED"}
      PROVE  Took(x)'
  BY <1>2 DEF MatchInv
<1>3. ASSUME NEW w \in Workers, Busy(w)', Kind(w)' # "CREATE"
      PROVE  Took(Exec(w))'
  <2>1. ASSUME NEW x \in Executions, proc'[w].exec = x, Took(x)'
        PROVE  Took(Exec(w))'
    BY <2>1 DEF Took, Exec
  <2>2. CASE KeepsRequest(w)
    <3>1. Busy(w) /\ Exec(w) \in Executions /\ Kind(w) # "CREATE"
      BY <1>3, <2>2 DEF KeepsRequest, SendInv, Progress, Kind
    <3>2. Took(Exec(w))
      BY <3>1 DEF MatchInv
    <3> QED
      BY <1>3, <2>1, <2>2, <3>1, <3>2 DEF KeepsRequest, Exec
  <2> QED
    BY <1>3, <2>1, <2>2 DEF Kind
<1> QED
  BY <1>1, <1>2, <1>3 DEF MatchInv

LEMMA NoteKeeps ==
  ASSUME TypeOK, NEW x \in Executions, NEW k \in Kinds, NEW st, NEW may,
         Note(x, k, st, may), st # "NONE"
  PROVE  /\ JournalKept
         /\ EntryOf(x, k).state # "NONE" =>
              \A y \in Executions : Journaled(y)' => Journaled(y)
         /\ k = "CREATE" => \A y \in Executions \ {x} : journal'[y] = journal[y]
         /\ k # "CREATE" => journal' = journal
<1>1. CASE k = "CREATE"
  <2>1. journal'[x].state = st /\ \A y \in Executions \ {x} : journal'[y] = journal[y]
    BY <1>1 DEF Note, TypeOK
  <2> QED
    BY <1>1, <2>1 DEF JournalKept, Journaled, EntryOf
<1>2. CASE k # "CREATE"
  BY <1>2 DEF Note, JournalKept, Journaled
<1> QED
  BY <1>1, <1>2

\* What a step of a busy worker leaves alone: the other workers, the callers'
\* copies, the exchange and its own request.
LEMMA AdvanceFrame ==
  ASSUME TypeOK, SendInv, NEW w \in Workers, Advance(w) \/ Crash(w)
  PROVE  /\ Busy(w) /\ held' = held /\ exch' = exch
         /\ \A v \in Workers \ {w} : proc'[v] = proc[v]
         /\ KeepsRequest(w)
<1> USE DEF KeepsRequest
<1>1. Busy(w) /\ held' = held /\ exch' = exch
  BY DEF Advance, SavePending, Consume, MarkStarted, Send, ProvenUnsent, Acknowledge,
         Refused, NoAnswer, Settle, Save, Crash, At, Busy, exchangeVars
<1>2. \/ Return(w) \/ \E step \in Steps : Goto(w, step)
      \/ \E result \in {"UNSENT", Unknown} \union Settled, filled \in 0..Quantity :
           Learn(w, result, filled)
  <2>1. CASE SavePending(w) \/ Consume(w) \/ MarkStarted(w) \/ Send(w) \/ Settle(w) \/ Save(w)
             \/ Crash(w)
    BY <2>1 DEF SavePending, Consume, MarkStarted, Send, Settle, Save, Crash, Steps
  <2>2. CASE ProvenUnsent(w) \/ Acknowledge(w) \/ Refused(w) \/ NoAnswer(w)
    <3>1. proc[w].seen \in 0..Quantity /\ 0 \in 0..Quantity
          /\ proc[w].seen..Quantity \subseteq 0..Quantity
      BY Fields, Constants
    <3>2. {"ACCEPTED", "REJECTED"} \subseteq Settled
      BY DEF Settled
    <3> QED
      BY <2>2, <3>1, <3>2, AnswerKinds, MutationResultType
  <2> QED
    BY <2>1, <2>2 DEF Advance
<1>3. CASE Return(w)
  BY <1>1, <1>3, ReturnType DEF Busy
<1>4. CASE \E step \in Steps : Goto(w, step)
  BY <1>1, <1>4, GotoType
<1>5. CASE \E result \in {"UNSENT", Unknown} \union Settled, filled \in 0..Quantity :
             Learn(w, result, filled)
  BY <1>1, <1>5, LearnType
<1> QED
  BY <1>2, <1>3, <1>4, <1>5

\* A worker's step keeps or makes journal rows, and only Consume consumes.
LEMMA AdvanceJournal ==
  ASSUME TypeOK, SendInv, NEW w \in Workers, Advance(w) \/ Crash(w)
  PROVE  /\ \A y \in Executions : Journaled(y)' <=> Journaled(y)
         /\ \/ auth' = auth
            \/ /\ Consume(w) /\ Kind(w) = "CREATE" /\ Journaled(Exec(w))
               /\ auth[authOf[Exec(w)]] = "ISSUED"
               /\ auth' = [auth EXCEPT ![authOf[Exec(w)]] = "CONSUMED"]
               /\ journal' = journal
<1>1. Busy(w)
  BY AdvanceFrame
<1>2. Exec(w) \in Executions /\ Kind(w) \in Kinds /\ EntryOf(Exec(w), Kind(w)).state # "NONE"
  BY <1>1, Working
<1>3. CASE Consume(w)
  <2>1. Kind(w) = "CREATE"
    BY <1>1, <1>3, Working DEF Progress, Consume, At
  <2>2. Journaled(Exec(w))
    BY <1>2, <2>1 DEF EntryOf, Journaled
  <2>3. CASE journal' = journal
    BY <1>3, <2>1, <2>2, <2>3 DEF Consume, Journaled
  <2>4. CASE Note(Exec(w), "CREATE", "AUTHORIZATION_NOT_CONSUMED", FALSE) /\ auth' = auth
    BY <1>2, <2>1, <2>4, NoteKeeps DEF JournalKept
  <2> QED
    BY <1>3, <2>3, <2>4 DEF Consume
<1>4. CASE MarkStarted(w) \/ Settle(w)
  <2>1. Outcome(Kind(w), proc[w].result) # "NONE"
    BY OutcomeType
  <2>2. /\ auth' = auth
        /\ \/ Note(Exec(w), Kind(w), "SEND_STARTED", TRUE)
           \/ Note(Exec(w), Kind(w), Outcome(Kind(w), proc[w].result), proc[w].result # "UNSENT")
    BY <1>4 DEF MarkStarted, Settle
  <2> QED
    BY <1>2, <2>1, <2>2, NoteKeeps DEF JournalKept
<1>5. CASE journal' = journal /\ auth' = auth
  BY <1>5 DEF Journaled
<1> QED
  BY <1>3, <1>4, <1>5 DEF Advance, SavePending, Send, ProvenUnsent, Acknowledge, Refused,
                          NoAnswer, Save, Crash, storeVars

\* What happens at the exchange: one order moves on, and only if its create
\* was sent; an end takes a cancel that was sent.
ExchangeMove(x) ==
  /\ \A y \in Executions \ {x} : exch'[y] = exch[y]
  /\ sends[<<x, "CREATE">>] = 1
  /\ exch'[x].filled >= exch[x].filled
  /\ \/ exch[x].status = "none" /\ exch'[x].status \in {"open", "rejected"}
     \/ exch[x].status = "open" /\ exch'[x].status = "open"
     \/ /\ exch[x].status = "open" /\ exch'[x].status = "canceled"
        /\ "CANCEL" \in Kinds /\ sends[<<x, "CANCEL">>] = 1

LEMMA ExchangeMoves ==
  ASSUME TypeOK, SendInv, TruthInv, NEW x \in Executions,
         Fill(x) \/ \E k \in Kinds : Arrive(x, k)
  PROVE  /\ UNCHANGED <<auth, storeVars, proc, held, sends>>
         /\ ExchangeMove(x) \/ (\A y \in Executions :
              exch'[y].status = exch[y].status /\ exch'[y].filled = exch[y].filled)
<1>1. UNCHANGED <<auth, storeVars, proc, held, sends>>
  BY ArriveEffect DEF Fill
<1>2. \A k \in Kinds : sends[<<x, k>>] \in Nat /\ (sends[<<x, k>>] > 0 => sends[<<x, k>>] = 1)
  BY Numbers DEF SendInv, SentMarked
<1>3. "CREATE" \in Kinds /\ Delivered(x, "CREATE")
  BY Constants DEF TruthInv
<1>4. exch[x].status # "none" => sends[<<x, "CREATE">>] = 1
  <2>1. exch[x].status # "none" => ~(sends[<<x, "CREATE">>] = 0)
    BY <1>3 DEF Delivered
  <2> QED
    BY <1>2, <1>3, <2>1
<1>5. exch[x].filled \in Nat /\ (exch[x].status = "none" => exch[x].filled = 0)
  BY Numbers DEF TruthInv
<1>6. CASE Fill(x)
  BY <1>1, <1>4, <1>5, <1>6, FillEffect DEF ExchangeMove
<1>7. ASSUME NEW k \in Kinds, Arrive(x, k)
      PROVE  ExchangeMove(x) \/ (\A y \in Executions :
               exch'[y].status = exch[y].status /\ exch'[y].filled = exch[y].filled)
  <2>1. Delivered(x, k) /\ <<x, k>> \in wire /\ \A y \in Executions \ {x} : exch'[y] = exch[y]
    BY <1>7, ArriveEffect DEF TruthInv
  <2>2. sends[<<x, k>>] = 1 /\ (k = "CREATE" => exch[x].status = "none")
    BY <1>2, <2>1 DEF Delivered
  <2>3. CASE Execute(x, k)
    <3>1. /\ exch'[x].filled >= IF k = "CREATE" THEN 0 ELSE exch[x].filled
          /\ exch[x].status = IF k = "CREATE" THEN "none" ELSE "open"
          /\ exch'[x].status = IF k = "CANCEL" THEN "canceled" ELSE "open"
      BY <2>3, ExecuteEffect
    <3>2. sends[<<x, "CREATE">>] = 1
      BY <1>4, <2>2, <3>1
    <3>3. exch'[x].filled >= exch[x].filled
      BY <1>5, <3>1
    <3> QED
      BY <2>1, <2>2, <3>1, <3>2, <3>3 DEF ExchangeMove
  <2>4. CASE /\ exch'[x].filled = exch[x].filled
             /\ exch'[x].status = IF k = "CREATE" THEN "rejected" ELSE exch[x].status
    <3>1. CASE k = "CREATE"
      BY <1>5, <2>1, <2>2, <2>4, <3>1 DEF ExchangeMove
    <3>2. CASE k # "CREATE"
      BY <2>1, <2>4, <3>2
    <3> QED
      BY <3>1, <3>2
  <2>5. \/ Execute(x, k)
        \/ /\ exch'[x].filled = exch[x].filled
           /\ exch'[x].status = IF k = "CREATE" THEN "rejected" ELSE exch[x].status
    BY <1>7, ArriveEffect
  <2> QED
    BY <2>3, <2>4, <2>5
<1> QED
  BY <1>1, <1>6, <1>7

LEMMA InitMatch == Init => MatchInv
<1> SUFFICES ASSUME Init PROVE MatchInv
  OBVIOUS
<1>1. \A a \in Auths : auth[a] # "CONSUMED"
  BY DEF Init
<1>2. \A x \in Executions : held[x].state \notin {"ACCEPTED", "PARTIALLY_FILLED"}
  BY DEF Init, NoRow
<1>3. \A w \in Workers : ~Busy(w)
  BY DEF Init, Idle, Busy
<1> QED
  BY <1>1, <1>2, <1>3 DEF MatchInv

LEMMA CallMatch ==
  ASSUME TypeOK, SendInv, MatchInv, NEW w \in Workers, NEW x \in Executions,
         SubmitCall(w, x) \/ \E k \in Mutations : MutateCall(w, x, k)
  PROVE  MatchInv'
<1>1. UNCHANGED <<auth, held, exch>>
  BY DEF SubmitCall, MutateCall, exchangeVars
<1>2. JournalKept
  BY NoteKeeps, Constants DEF SubmitCall, MutateCall
<1>3. \A v \in Workers : \/ proc'[v] = proc[v]
                         \/ proc'[v].kind = "CREATE"
                         \/ proc'[v].exec = x /\ Took(x)
  <2>1. CASE SubmitCall(w, x)
    BY <2>1 DEF SubmitCall, TypeOK
  <2>2. ASSUME NEW k \in Mutations, MutateCall(w, x, k), proc' # proc
        PROVE  Took(x) /\ \A v \in Workers : proc'[v] = proc[v] \/ proc'[v].exec = x
    <3>1. held[x].state \in {"ACCEPTED", "PARTIALLY_FILLED"}
      BY <2>2 DEF MutateCall
    <3>2. Took(x)
      BY <3>1 DEF MatchInv
    <3>3. \A v \in Workers : proc'[v] = proc[v] \/ proc'[v].exec = x
      BY <2>2, <3>1 DEF MutateCall, TypeOK
    <3> QED
      BY <3>2, <3>3
  <2> QED
    BY <2>1, <2>2
<1>4. \A y \in Executions : Took(y)' <=> Took(y)
  BY <1>1 DEF Took
<1>5. \A v \in Workers : \/ KeepsRequest(v)
                         \/ proc'[v].kind = "CREATE"
                         \/ \E y \in Executions : proc'[v].exec = y /\ Took(y)'
  BY <1>3, <1>4 DEF KeepsRequest, Busy
<1> QED
  BY <1>1, <1>2, <1>4, <1>5, MatchKeeps

LEMMA AdvanceMatch ==
  ASSUME TypeOK, SendInv, MatchInv, NEW w \in Workers, Advance(w) \/ Crash(w)
  PROVE  MatchInv'
<1>1. /\ held' = held /\ exch' = exch /\ KeepsRequest(w) /\ Busy(w)
      /\ \A v \in Workers \ {w} : proc'[v] = proc[v]
  BY AdvanceFrame
<1>2. \A v \in Workers : KeepsRequest(v)
  BY <1>1 DEF KeepsRequest, Busy
<1>3. JournalKept
  BY AdvanceJournal DEF JournalKept
<1>4. ASSUME NEW a \in Auths, auth'[a] = "CONSUMED", auth[a] # "CONSUMED"
      PROVE  \E x \in Executions : authOf[x] = a /\ Journaled(x)'
  <2>1. /\ Journaled(Exec(w)) /\ auth' = [auth EXCEPT ![authOf[Exec(w)]] = "CONSUMED"]
    BY <1>4, AdvanceJournal
  <2>2. Exec(w) \in Executions /\ authOf[Exec(w)] = a
    BY <1>1, <1>4, <2>1, Working DEF TypeOK
  <2>3. PICK x \in Executions : x = Exec(w)
    BY <2>2
  <2> QED
    BY <1>3, <2>1, <2>2, <2>3 DEF JournalKept
<1>5. \A y \in Executions : Took(y)' <=> Took(y)
  BY <1>1 DEF Took
<1> QED
  BY <1>1, <1>2, <1>3, <1>4, <1>5, MatchKeeps

LEMMA EnvironmentMatch ==
  ASSUME TypeOK, SendInv, TruthInv, MatchInv, Environment
  PROVE  MatchInv'
<1>1. \A w \in Workers : proc' = proc => KeepsRequest(w)
  BY DEF KeepsRequest, Busy
<1>2. CASE RecoverRead \/ RecoverWrite \/ \E k \in Auths : LoseAuth(k)
  <2>1. /\ UNCHANGED <<proc, held, exch>>
        /\ \A a \in Auths : auth'[a] = "CONSUMED" => auth[a] = "CONSUMED"
    BY <1>2 DEF RecoverRead, RecoverWrite, LoseAuth, TypeOK, exchangeVars
  <2>2. JournalKept
    BY <1>2 DEF RecoverRead, RecoverWrite, LoseAuth, storeVars, JournalKept, Journaled
  <2>3. \A y \in Executions : Took(y)' <=> Took(y)
    BY <2>1 DEF Took
  <2> QED
    BY <1>1, <2>1, <2>2, <2>3, MatchKeeps
<1>3. ASSUME NEW x \in Executions, Reconcile(x)
      PROVE  MatchInv'
  <2>1. UNCHANGED <<auth, journal, proc, exch>> /\ exch[x].status # "none"
    BY <1>3 DEF Reconcile, exchangeVars
  <2>2. \A y \in Executions : (Took(y)' <=> Took(y)) /\ (Journaled(y)' <=> Journaled(y))
    BY <2>1 DEF Took, Journaled
  <2>3. held'[x].state = TruthOf(x) /\ \A y \in Executions \ {x} : held'[y] = held[y]
    BY <1>3 DEF Reconcile, TypeOK
  <2>4. TruthOf(x) \in {"ACCEPTED", "PARTIALLY_FILLED"} => exch[x].status = "open"
    BY <2>1, Numbers DEF TruthOf, Live
  <2>5. held'[x].state \in {"ACCEPTED", "PARTIALLY_FILLED"} => Took(x)'
    BY <2>2, <2>3, <2>4 DEF Took
  <2> QED
    BY <1>1, <2>1, <2>2, <2>3, <2>5, MatchKeeps DEF JournalKept
<1>4. ASSUME NEW x \in Executions, Fill(x) \/ \E k \in Kinds : Arrive(x, k)
      PROVE  MatchInv'
  <2>1. UNCHANGED <<auth, journal, proc, held>>
    BY <1>4, ExchangeMoves DEF storeVars
  <2>2. \A y \in Executions : Took(y) => Took(y)'
    BY <1>4, ExchangeMoves DEF Took, ExchangeMove
  <2>3. JournalKept
    BY <2>1 DEF JournalKept, Journaled
  <2> QED
    BY <1>1, <2>1, <2>2, <2>3, MatchKeeps
<1> QED
  BY <1>2, <1>3, <1>4 DEF Environment

LEMMA MatchStep ==
  ASSUME TypeOK, SendInv, TruthInv, MatchInv, [Next]_vars
  PROVE  MatchInv'
<1>1. CASE UNCHANGED vars
  <2>1. UNCHANGED <<auth, journal, proc, held, exch>>
    BY <1>1 DEF vars, storeVars, exchangeVars
  <2>2. \A y \in Executions : (Took(y)' <=> Took(y)) /\ (Journaled(y)' <=> Journaled(y))
    BY <2>1 DEF Took, Journaled
  <2>3. \A w \in Workers : KeepsRequest(w)
    BY <2>1 DEF KeepsRequest, Busy
  <2> QED
    BY <2>1, <2>2, <2>3, MatchKeeps DEF JournalKept
<1> QED
  BY <1>1, CallMatch, AdvanceMatch, EnvironmentMatch DEF Next, Call

-----------------------------------------------------------------------------
(* Every step is a step of IntentOrders or a stutter *)

SameIntents == UNCHANGED <<Granted, sends, Placed, Shown>>

LEMMA SameGranted ==
  ASSUME TypeOK, \A y \in Executions : Journaled(y)' <=> Journaled(y),
         \A a \in Auths : auth'[a] = "CONSUMED" <=> auth[a] = "CONSUMED"
  PROVE  Granted' = Granted
  BY Constants DEF Granted, Journaled

LEMMA SamePlaced ==
  ASSUME \A y \in Executions : exch'[y].status = exch[y].status /\ exch'[y].filled = exch[y].filled
  PROVE  Placed' = Placed
  BY DEF Placed

LEMMA SameShown ==
  ASSUME rows' = rows
  PROVE  Shown' = Shown
  BY DEF Shown

LEMMA ClaimOfType ==
  ASSUME NEW st
  PROVE  /\ ClaimOf(st) \in {"none", "working", "FILLED", "CANCELED", "REJECTED"}
         /\ ClaimOf(st) = "none" => st = "NONE"
         /\ ClaimOf(st) = "FILLED" => st = "FILLED"
         /\ ClaimOf(st) = "CANCELED" => st = "CANCELED"
         /\ ClaimOf(st) = "REJECTED" => st = "REJECTED"
  BY DEF ClaimOf

\* Rows that are written show an outcome the exchange has.
LEMMA ShowRefines ==
  ASSUME TypeOK', TruthInv', UNCHANGED <<Granted, sends, exch>>,
         \A x \in Executions : rows'[x] = rows[x] \/ rows'[x].state # "NONE"
  PROVE  Intents!Show
<1>1. Placed' = Placed
  BY SamePlaced
<1>2. ASSUME NEW x \in Executions
      PROVE  /\ Shown'[x] = [claim |-> ClaimOf(rows'[x].state), filled |-> rows'[x].filled]
             /\ Shown[x] = [claim |-> ClaimOf(rows[x].state), filled |-> rows[x].filled]
             /\ Placed[x] = [status |-> exch[x].status, filled |-> exch[x].filled]
             /\ rows'[x].filled \in Fills
  <2>1. rows'[x].filled \in 0..Quantity
    BY DEF TypeOK, Order
  <2> QED
    BY <2>1, Constants DEF Shown, Placed, Fills
<1>3. ASSUME NEW x \in Executions
      PROVE  Shown'[x] \in Intents!Claim
  <2>1. PICK st, f : st = rows'[x].state /\ f = rows'[x].filled
    OBVIOUS
  <2>2. [claim |-> ClaimOf(st), filled |-> f] \in Intents!Claim
    BY <1>2, <2>1, ClaimOfType DEF Intents!Claim
  <2> QED
    BY <1>2, <2>1, <2>2
<1>4. Shown' \in [Executions -> Intents!Claim]
  <2>1. Shown' = [x \in Executions |-> Shown'[x]]
    BY DEF Shown
  <2> QED
    BY <1>3, <2>1
<1>5. ASSUME NEW x \in Executions, Shown'[x] # Shown[x]
      PROVE  Intents!BornOut(x, Shown'[x])
  <2>1. rows'[x].state # "NONE"
    BY <1>2, <1>5
  <2>2. BornOut(x, rows[x].state, rows[x].filled)'
    BY DEF TruthInv
  <2>3. /\ rows'[x].filled <= exch[x].filled
        /\ rows'[x].state = "FILLED" => exch[x].filled >= Quantity
        /\ rows'[x].state = "CANCELED" => exch[x].status = "canceled"
        /\ rows'[x].state = "REJECTED" => exch[x].status = "rejected"
    BY <2>2 DEF BornOut
  <2>4. PICK st, f : st = rows'[x].state /\ f = rows'[x].filled
    OBVIOUS
  <2>5. Placed[x].status = exch[x].status /\ Placed[x].filled = exch[x].filled
    BY DEF Placed
  <2>6. Intents!BornOut(x, [claim |-> ClaimOf(st), filled |-> f])
    BY <2>1, <2>3, <2>4, <2>5, ClaimOfType DEF Intents!BornOut
  <2> QED
    BY <1>2, <2>4, <2>6
<1> QED
  BY <1>1, <1>4, <1>5 DEF Intents!Show

LEMMA CallRefines ==
  ASSUME TypeOK, SendInv, MatchInv, NEW w \in Workers, NEW x \in Executions,
         SubmitCall(w, x) \/ \E k \in Mutations : MutateCall(w, x, k)
  PROVE  SameIntents
<1>1. UNCHANGED <<auth, rows, sends, exch>>
  BY DEF SubmitCall, MutateCall, exchangeVars
<1>2. CASE SubmitCall(w, x)
  <2>1. auth[authOf[x]] # "CONSUMED" /\ \A y \in Executions \ {x} : journal'[y] = journal[y]
    BY <1>2, Constants, NoteKeeps DEF SubmitCall, Unowned, MatchInv
  <2>2. Granted' = Granted
    BY <1>1, <2>1 DEF Granted
  <2> QED
    BY <1>1, <2>2, SamePlaced, SameShown DEF SameIntents
<1>3. CASE journal' = journal
  BY <1>1, <1>3, SameGranted, SamePlaced, SameShown DEF SameIntents, Journaled
<1>4. ASSUME NEW k \in Mutations, MutateCall(w, x, k)
      PROVE  journal' = journal
  BY <1>4, Constants, NoteKeeps DEF MutateCall
<1> QED
  BY <1>2, <1>3, <1>4

\* The refusal journals and returns; the acceptance spends the authorization
\* for the one execution that is journaled under it.
LEMMA ConsumeRefines ==
  ASSUME TypeOK, SendInv, MatchInv, NEW w \in Workers, Consume(w)
  PROVE  SameIntents \/ \E x \in Executions : Intents!Grant(x)
<1>1. UNCHANGED <<rows, sends, exch>>
  BY DEF Consume, exchangeVars
<1>2. Placed' = Placed /\ Shown' = Shown
  BY <1>1, SamePlaced, SameShown
<1>3. CASE auth' = auth
  BY <1>1, <1>2, <1>3, SameGranted, AdvanceJournal DEF SameIntents, Advance
<1>4. CASE auth' # auth
  <2>1. /\ Journaled(Exec(w)) /\ auth[authOf[Exec(w)]] = "ISSUED" /\ journal' = journal
        /\ auth' = [auth EXCEPT ![authOf[Exec(w)]] = "CONSUMED"]
    BY <1>4, AdvanceJournal DEF Advance
  <2>2. PICK x \in Executions : x = Exec(w)
    BY Working DEF Consume, At, Busy
  <2>3. \A y \in Executions : Journaled(y) /\ authOf[y] = authOf[x] => y = x
    BY <2>1, <2>2 DEF SendInv, OneJournal, Journaled
  <2>4. \A y \in Granted : authOf[y] # authOf[x]
    BY <2>1, <2>2 DEF Granted
  <2>5. \A y \in Executions : auth'[authOf[y]] =
          IF authOf[y] = authOf[x] THEN "CONSUMED" ELSE auth[authOf[y]]
    BY <2>1, <2>2, Constants DEF TypeOK
  <2>6. Granted' = Granted \union {x}
    BY <2>1, <2>2, <2>3, <2>5 DEF Granted, Journaled
  <2>7. Intents!Grant(x)
    BY <1>1, <1>2, <2>4, <2>6 DEF Intents!Grant
  <2> QED
    BY <2>7
<1> QED
  BY <1>3, <1>4

LEMMA SendRefines ==
  ASSUME TypeOK, SendInv, MatchInv, NEW w \in Workers, Send(w)
  PROVE  \E x \in Executions, k \in Kinds : Intents!Send(x, k)
<1>1. /\ Busy(w) /\ proc[w].pc = "send" /\ UNCHANGED <<auth, journal, rows, exch>>
      /\ sends' = [sends EXCEPT ![Request(w)] = sends[Request(w)] + 1]
  BY DEF Send, At, Busy, storeVars
<1>2. PICK x \in Executions, k \in Kinds :
        x = Exec(w) /\ k = Kind(w) /\ Request(w) = <<x, k>> /\ sends[<<x, k>>] = 0
  BY <1>1, Working DEF Progress
<1>3. sends' = [sends EXCEPT ![<<x, k>>] = 1]
  <2>1. sends[<<x, k>>] + 1 = 1
    BY <1>2
  <2> QED
    BY <1>1, <1>2, <2>1
<1>4. UNCHANGED <<Granted, Placed, Shown>>
  BY <1>1, SameGranted, SamePlaced, SameShown DEF Journaled
<1>5. k = "CREATE" => x \in Granted
  BY <1>1, <1>2, Working DEF Progress, EntryOf, Granted
<1>6. k # "CREATE" => Took(x)
  BY <1>1, <1>2 DEF MatchInv
<1>7. Placed[x].status = exch[x].status
  BY DEF Placed
<1>8. Intents!Send(x, k)
  BY <1>2, <1>3, <1>4, <1>5, <1>6, <1>7 DEF Intents!Send, Intents!Taken, Took
<1> QED
  BY <1>8

LEMMA OtherStepsRefine ==
  ASSUME TypeOK, TypeOK', SendInv, TruthInv', MatchInv, NEW w \in Workers,
         Advance(w) \/ Crash(w), ~Consume(w), ~Send(w)
  PROVE  SameIntents \/ Intents!Show
<1>1. exch' = exch /\ auth' = auth /\ \A y \in Executions : Journaled(y)' <=> Journaled(y)
  BY AdvanceFrame, AdvanceJournal
<1>2. Granted' = Granted /\ Placed' = Placed
  BY <1>1, SameGranted, SamePlaced
<1>3. sends' = sends
  BY DEF Advance, SavePending, MarkStarted, ProvenUnsent, Acknowledge,
         Refused, NoAnswer, Settle, Save, Crash
<1>4. CASE rows' = rows
  BY <1>2, <1>3, <1>4, SameShown DEF SameIntents
<1>5. CASE SavePending(w) \/ Save(w)
  <2>1. Busy(w) /\ Exec(w) \in Executions /\ Kind(w) \in Kinds
    BY <1>5, Working DEF SavePending, Save, At, Busy
  <2>2. CASE SavePending(w)
    <3>1. SaveOrder(Exec(w), PendingOf(Kind(w)), proc[w].seen)
      BY <2>2 DEF SavePending
    <3>2. PendingOf(Kind(w)) \in OrderStates \ {"NONE"} /\ proc[w].seen \in 0..Quantity
      BY <2>1, PendingOfType, Fields
    <3> QED
      BY <2>1, <3>1, <3>2, SaveType, <1>1, <1>2, <1>3, ShowRefines
  <2>3. CASE Save(w)
    <3>1. SaveOrder(Exec(w), proc[w].result, proc[w].filled)
      BY <2>3 DEF Save
    <3>2. proc[w].result \in OrderStates \ {"NONE"} /\ proc[w].filled \in 0..Quantity
      BY <2>1, <2>3, Fields, Working DEF Progress, Save, At, OrderStates
    <3> QED
      BY <2>1, <3>1, <3>2, SaveType, <1>1, <1>2, <1>3, ShowRefines
  <2> QED
    BY <1>5, <2>2, <2>3
<1> QED
  BY <1>4, <1>5 DEF Advance, MarkStarted, ProvenUnsent, Acknowledge, Refused, NoAnswer,
                    Settle, Crash, storeVars

LEMMA EnvironmentRefines ==
  ASSUME TypeOK, TypeOK', SendInv, TruthInv, TruthInv', Environment
  PROVE  SameIntents \/ Intents!Show \/ \E x \in Executions : Intents!Happen(x)
<1>1. CASE RecoverRead \/ RecoverWrite \/ \E k \in Auths : LoseAuth(k)
  <2>1. /\ UNCHANGED <<sends, exch>>
        /\ \A a \in Auths : auth'[a] = "CONSUMED" <=> auth[a] = "CONSUMED"
    BY <1>1 DEF RecoverRead, RecoverWrite, LoseAuth, TypeOK, exchangeVars
  <2>2. \A y \in Executions : Journaled(y)' <=> Journaled(y)
    BY <1>1 DEF RecoverRead, RecoverWrite, LoseAuth, storeVars, Journaled, SendInv
  <2>3. \A x \in Executions : rows'[x] = rows[x] \/ rows'[x].state # "NONE"
    BY <1>1 DEF RecoverRead, RecoverWrite, LoseAuth, storeVars, Unknown
  <2> QED
    BY <2>1, <2>2, <2>3, SameGranted, ShowRefines
<1>2. ASSUME NEW x \in Executions, Reconcile(x)
      PROVE  Intents!Show
  <2>1. UNCHANGED <<auth, journal, sends, exch>>
    BY <1>2 DEF Reconcile, exchangeVars
  <2>2. \A y \in Executions : rows'[y] = rows[y] \/ rows'[y].state = TruthOf(x)
    BY <1>2 DEF Reconcile, TypeOK
  <2>3. TruthOf(x) # "NONE"
    BY TruthOfType DEF Settled
  <2>4. Granted' = Granted
    BY <2>1, SameGranted DEF Journaled
  <2> QED
    BY <2>1, <2>2, <2>3, <2>4, ShowRefines
<1>3. ASSUME NEW x \in Executions, Fill(x) \/ \E k \in Kinds : Arrive(x, k)
      PROVE  SameIntents \/ Intents!Happen(x)
  <2>1. UNCHANGED <<auth, journal, rows, sends>>
    BY <1>3, ExchangeMoves DEF storeVars
  <2>2. Granted' = Granted /\ Shown' = Shown
    BY <2>1, SameGranted, SameShown DEF Journaled
  <2>3. CASE ExchangeMove(x)
    <3>1. PICK o : o = [status |-> exch'[x].status, filled |-> exch'[x].filled]
      OBVIOUS
    <3>2. o \in Intents!OrderState
      BY <3>1 DEF Intents!OrderState, TypeOK, Exchange
    <3>3. Placed' = [Placed EXCEPT ![x] = o]
      BY <2>3, <3>1 DEF Placed, ExchangeMove
    <3>4. Placed[x].status = exch[x].status /\ Placed[x].filled = exch[x].filled
      BY DEF Placed
    <3>5. <<Placed[x].status, o.status>> \in Intents!Moves(x) /\ o.filled >= Placed[x].filled
      BY <2>3, <3>1, <3>4 DEF Intents!Moves, ExchangeMove
    <3> QED
      BY <2>1, <2>2, <2>3, <3>2, <3>3, <3>5 DEF Intents!Happen, ExchangeMove
  <2> QED
    BY <1>3, <2>1, <2>2, <2>3, ExchangeMoves, SamePlaced DEF SameIntents
<1> QED
  BY <1>1, <1>2, <1>3 DEF Environment

LEMMA StepRefines ==
  ASSUME TypeOK, TypeOK', SendInv, TruthInv, TruthInv', MatchInv, [Next]_vars
  PROVE  [Intents!Next]_Intents!vars
<1>1. SameIntents => UNCHANGED Intents!vars
  BY DEF SameIntents, Intents!vars
<1>2. CASE UNCHANGED vars
  <2>1. UNCHANGED <<auth, journal, rows, sends, exch>>
    BY <1>2 DEF vars, storeVars, exchangeVars
  <2>2. SameIntents
    BY <2>1, SameGranted, SamePlaced, SameShown DEF SameIntents, Journaled
  <2> QED
    BY <1>1, <2>2
<1>3. CASE Environment
  BY <1>1, <1>3, EnvironmentRefines DEF Intents!Next
<1>4. ASSUME NEW w \in Workers, Call(w)
      PROVE  SameIntents
  BY <1>4, CallRefines DEF Call
<1>5. ASSUME NEW w \in Workers, Advance(w) \/ Crash(w)
      PROVE  [Intents!Next]_Intents!vars
  BY <1>1, <1>5, ConsumeRefines, SendRefines, OtherStepsRefine DEF Intents!Next
<1> QED
  BY <1>1, <1>2, <1>3, <1>4, <1>5 DEF Next

LEMMA InitRefines == Init => Intents!Init
<1> SUFFICES ASSUME Init PROVE Intents!Init
  OBVIOUS
<1>1. Granted = {}
  BY DEF Init, NoEntry, Granted
<1>2. ClaimOf("NONE") = "none"
  BY DEF ClaimOf
<1>3. Placed = [x \in Executions |-> [status |-> "none", filled |-> 0]]
  BY DEF Init, Placed
<1>4. Shown = [x \in Executions |-> [claim |-> "none", filled |-> 0]]
  BY <1>2 DEF Init, NoRow, Shown
<1> QED
  BY <1>1, <1>3, <1>4 DEF Init, Intents!Init, Requests

\* Whatever its workers, crashes and recoveries do, the engine is seen from
\* outside as IntentOrders: one journaled execution per authorization spent,
\* a create sent only by it, every request once, a mutation only of an order
\* the exchange took, and no outcome shown that the exchange does not have.
THEOREM EngineImplementsIntentOrders == Spec => ImplementsIntentOrders
<1>1. Init => TruthInv /\ MatchInv
  BY InitTruth, InitMatch
<1>2. TypeOK /\ SendInv /\ TruthInv /\ MatchInv /\ TypeOK' /\ [Next]_vars => TruthInv' /\ MatchInv'
  BY TruthStep, MatchStep
<1>3. TypeOK /\ TypeOK' /\ SendInv /\ TruthInv /\ TruthInv' /\ MatchInv /\ [Next]_vars
        => [Intents!Next]_Intents!vars
  BY StepRefines
<1> QED
  BY <1>1, <1>2, <1>3, InitRefines, SendsInductive, PTL
     DEF Spec, ImplementsIntentOrders, Intents!Spec
=============================================================================
