---------------------------- MODULE BookEvidence ----------------------------
(***************************************************************************)
(* Order-book evidence: perps_shadow_research/runtime.py drives the        *)
(* connection, real_time_market_data/manager.py and orderbook.py keep the  *)
(* sequenced books, pipeline.py and store.py append the evidence rows.     *)
(*                                                                         *)
(* The exchange numbers the frames of one subscription 1, 2, ... over all  *)
(* its markets.  Frames reach the runtime in any order, any number of      *)
(* times, or never: Process may take any frame that was ever sent.         *)
(*                                                                         *)
(* The content of a book is abstracted to the connection whose snapshot it *)
(* started from and how often each numbered delta is contained in it, so   *)
(* a lost, repeated or foreign delta shows.  Time is abstracted to the     *)
(* choice, wherever the code asks view(), whether a CURRENT book is        *)
(* already older than 30 seconds.                                          *)
(***************************************************************************)
EXTENDS Naturals, FiniteSets

CONSTANTS
  Tickers,      \* the configured market specs
  MaxEpoch,     \* bound: connections
  MaxSeq,       \* bound: frames sent on one connection
  Length,       \* bound: frames sent on each connection, at most MaxSeq
  InvalidAt     \* bound: numbers whose frame may carry invalid levels

ASSUME TickersAssumption == Tickers # {}
ASSUME BoundsAssumption ==
  /\ MaxEpoch \in Nat /\ MaxSeq \in Nat
  /\ Length \in [1 .. MaxEpoch -> 0 .. MaxSeq]

VARIABLES
  feed,         \* the frames the exchange sent, by connection and number
  sent,         \* how many frames it sent on each connection
  owed,         \* tickers whose snapshot the exchange still has to send
  state,        \* OfflineReadOnlyEvidenceRuntime._state
  up,           \* ScriptedTransport.connected
  epochs,       \* SubscriptionManager.epoch, the number of connections so far
  conn,         \* _connection_epoch, 0 for None
  sid,          \* whether _orderbook_sid is known
  pending,      \* _recovery_pending of the subscription, {} when absent
  lastSeq,      \* SubscriptionManager.last_seq of the subscription, 0 absent
  sidMarkets,   \* SubscriptionManager.sid_markets of the subscription
  book,         \* SubscriptionManager.books
  rows          \* the table book_evidence

exchange == <<feed, sent, owed>>
manager == <<epochs, lastSeq, sidMarkets, book>>
vars == <<feed, sent, owed, state, up, epochs, conn, sid, pending, lastSeq,
          sidMarkets, book, rows>>

Epochs == 1 .. MaxEpoch
Seqs == 1 .. MaxSeq

\* A frame: a snapshot or a delta of a ticker.  An invalid one parses but
\* carries levels the book refuses.
Frames == [kind : {"snapshot", "delta"}, ticker : Tickers, valid : BOOLEAN]
NoFrame == [kind |-> "none"]

RuntimeState == {"DISCONNECTED", "SUBSCRIBING", "HEALTHY", "QUARANTINED",
                 "FAILED", "STOPPED"}
BookState == {"NONE", "EMPTY", "CURRENT", "GAP", "STALE"}

Contents == [base : 0 .. MaxEpoch, applied : [Seqs -> {0, 1}]]

\* What the exchange's own book of t contains at frame n of connection e.
Truth(e, t, n) ==
  [base |-> e,
   applied |-> [k \in Seqs |->
     IF k <= n /\ feed[e][k].kind = "delta" /\ feed[e][k].ticker = t
       THEN 1 ELSE 0]]

NoContent == [base |-> 0, applied |-> [k \in Seqs |-> 0]]

Init ==
  /\ feed = [e \in Epochs |-> [k \in Seqs |-> NoFrame]]
  /\ sent = [e \in Epochs |-> 0]
  /\ owed = {}
  /\ state = "DISCONNECTED"
  /\ up = FALSE
  /\ epochs = 0
  /\ conn = 0
  /\ sid = FALSE
  /\ pending = {}
  /\ lastSeq = 0
  /\ sidMarkets = {}
  /\ book = [t \in Tickers |-> [state |-> "NONE", content |-> NoContent]]
  /\ rows = {}

-----------------------------------------------------------------------------
(* The exchange *)

\* The exchange numbers and sends a frame: a snapshot it owes, or a delta of
\* a market whose first snapshot it has sent.  A malformed market sends an
\* invalid frame.
Send(f) ==
  /\ up /\ conn # 0
  /\ sent[conn] < Length[conn]
  /\ f.valid \/ sent[conn] + 1 \in InvalidAt
  /\ IF f.kind = "snapshot"
       THEN f.ticker \in owed
       ELSE \E k \in 1 .. sent[conn] : /\ feed[conn][k].kind = "snapshot"
                                       /\ feed[conn][k].ticker = f.ticker
  /\ sent' = [sent EXCEPT ![conn] = @ + 1]
  /\ feed' = [feed EXCEPT ![conn][sent[conn] + 1] = f]
  /\ owed' = IF f.kind = "snapshot" THEN owed \ {f.ticker} ELSE owed
  /\ UNCHANGED <<state, up, conn, sid, pending, rows, manager>>

-----------------------------------------------------------------------------
(* The connection *)

StaleBooks ==
  [t \in Tickers |-> IF book[t].state = "NONE" THEN book[t]
                       ELSE [book[t] EXCEPT !.state = "STALE"]]

\* new_epoch forgets the sequence number and the subscription and makes every
\* book STALE.
new_epoch ==
  /\ epochs' = epochs + 1
  /\ lastSeq' = 0
  /\ sidMarkets' = {}
  /\ book' = StaleBooks

\* connect: the subscribe command asks for all tickers.
Connect ==
  /\ epochs < MaxEpoch
  /\ new_epoch
  /\ up' = TRUE
  /\ conn' = epochs + 1
  /\ sid' = FALSE
  /\ pending' = {}
  /\ owed' = Tickers
  /\ state' = "SUBSCRIBING"
  /\ UNCHANGED <<feed, sent, rows>>

\* The transport refuses: the old epoch and its books stay as they were.
ConnectFails ==
  /\ up' = FALSE
  /\ state' = "FAILED"
  /\ UNCHANGED <<conn, sid, pending, rows, exchange, manager>>

disconnect ==
  /\ book' = IF conn # 0 THEN StaleBooks ELSE book
  /\ up' = FALSE
  /\ conn' = 0
  /\ sid' = FALSE
  /\ pending' = {}
  /\ state' = "DISCONNECTED"
  /\ UNCHANGED <<rows, epochs, lastSeq, sidMarkets, exchange>>

stop ==
  /\ up' = FALSE
  /\ state' = "STOPPED"
  /\ UNCHANGED <<conn, sid, pending, rows, exchange, manager>>

\* check_freshness: a book that is not CURRENT, or CURRENT and too old,
\* quarantines the runtime whatever state it is in.
check_freshness ==
  /\ \E t \in Tickers : book[t].state # "NONE"
  /\ state' = "QUARANTINED"
  /\ UNCHANGED <<up, conn, sid, pending, rows, exchange, manager>>

-----------------------------------------------------------------------------
(* Frames *)

\* process drops a frame in the closed states and one of another connection.
Listening(e) ==
  /\ state \notin {"QUARANTINED", "FAILED", "STOPPED"}
  /\ conn # 0 /\ e = conn

\* The response to the subscribe command names the subscription.
Subscribed ==
  /\ Listening(conn) /\ ~sid
  /\ sid' = TRUE
  /\ sidMarkets' = Tickers
  /\ state' = "HEALTHY"
  /\ UNCHANGED <<up, conn, pending, rows, epochs, lastSeq, book, exchange>>

\* A malformed frame, an unknown type, an error response or a frame that
\* collides with a stored one.
Malformed ==
  /\ Listening(conn)
  /\ state' = "QUARANTINED"
  /\ UNCHANGED <<up, conn, sid, pending, rows, exchange, manager>>

\* A frame of a subscription that is not (yet) the runtime's.
Unexpected(e, n) ==
  /\ Listening(e) /\ n <= sent[e] /\ ~sid
  /\ state' = "QUARANTINED"
  /\ UNCHANGED <<up, conn, sid, pending, rows, exchange, manager>>

\* Bug: a number at or below the last one is let through as a repeat.
BugInSequence(n) == lastSeq = 0 \/ n <= lastSeq + 1

\* SubscriptionManager.sequence: the first number is accepted whatever it is.
InSequence(n) == lastSeq = 0 \/ n = lastSeq + 1

\* Bug: a gap is recorded and the books stay as they are.
BugBooksAfter(n) == book

\* A gap distrusts every book of the subscription.
BooksAfter(n) ==
  IF InSequence(n) THEN book
  ELSE [t \in Tickers |->
          IF t \in sidMarkets /\ book[t].state # "NONE"
            THEN [book[t] EXCEPT !.state = "GAP"] ELSE book[t]]

\* _request_snapshot_once: one get_snapshot while a recovery is pending.  It
\* names the markets the manager has for the subscription, never none.
RequestSnapshotOnce(markets) ==
  /\ state' = "SUBSCRIBING"
  /\ IF pending = {}
       THEN pending' = markets /\ owed' = markets
       ELSE UNCHANGED <<pending, owed>>

\* get_by_source_identity: the key is the manager's epoch, the number and the
\* ticker, which the number determines.
Stored(n) == \E r \in rows : r.epoch = epochs /\ r.seq = n

\* Bug: an accepted frame makes the runtime healthy at once.
BugAccepted(rest) ==
  /\ pending' = rest
  /\ state' = "HEALTHY"
  /\ UNCHANGED owed

\* After an accepted frame the tickers in rest still wait for a snapshot; the
\* runtime is healthy when there are none.
Accepted(rest) ==
  /\ pending' = rest
  /\ state' = IF rest = {} THEN "HEALTHY" ELSE "SUBSCRIBING"
  /\ UNCHANGED owed

\* Bug: the row is made from the book as it was before the frame.
BugAppend(n, t, content) ==
  rows' = rows \cup {[epoch |-> epochs, seq |-> n, ticker |-> t,
                      content |-> book[t].content]}

\* BookEvidenceStore.append: rows are keyed by epoch, number and ticker.
Append(n, t, content) ==
  rows' = rows \cup {[epoch |-> epochs, seq |-> n, ticker |-> t,
                      content |-> content]}

\* _persist on a book that is CURRENT: the row is appended, the book turns out
\* too old by now and the frame counts for nothing (a snapshot is requested),
\* or the row is refused (no usable side, a database error).
Persist(n, t, rest, outcome) ==
  \/ /\ outcome = "stored"
     /\ Append(n, t, book'[t].content)
     /\ Accepted(rest)
  \/ /\ outcome = "stale"
     /\ RequestSnapshotOnce(sidMarkets')
     /\ UNCHANGED rows
  \/ /\ outcome = "refused"
     /\ state' = "QUARANTINED"
     /\ UNCHANGED <<pending, owed, rows>>

\* install_snapshot resets the subscription's number to the snapshot's, also
\* backwards, and makes its book CURRENT.
install_snapshot(e, n, t) ==
  /\ lastSeq' = n
  /\ sidMarkets' = sidMarkets \cup {t}
  /\ book' = [BooksAfter(n) EXCEPT ![t] = [state |-> "CURRENT",
                                           content |-> Truth(e, t, n)]]

\* A snapshot that is not stored yet; it ends its ticker's recovery.
Snapshot(e, n, outcome) ==
  LET t == feed[e][n].ticker IN
  /\ Listening(e) /\ n <= sent[e] /\ sid
  /\ feed[e][n].kind = "snapshot" /\ feed[e][n].valid
  /\ ~Stored(n)
  /\ install_snapshot(e, n, t)
  /\ Persist(n, t, pending \ {t}, outcome)
  /\ UNCHANGED <<feed, sent, up, epochs, conn, sid>>

\* Levels the book refuses: the sequence number has moved, and the first side
\* may have been replaced, when the exception quarantines the runtime.
InvalidSnapshot(e, n, torn) ==
  LET t == feed[e][n].ticker IN
  /\ Listening(e) /\ n <= sent[e] /\ sid
  /\ feed[e][n].kind = "snapshot" /\ ~feed[e][n].valid
  /\ lastSeq' = n
  /\ sidMarkets' = sidMarkets \cup {t}
  /\ book' = [BooksAfter(n) EXCEPT
       ![t].state = IF @ = "NONE" THEN "EMPTY" ELSE @,
       ![t].content = IF torn THEN NoContent ELSE @]
  /\ state' = "QUARANTINED"
  /\ UNCHANGED <<up, epochs, conn, sid, pending, rows, exchange>>

\* A snapshot whose row is stored returns that row and leaves the manager
\* alone: it ends the ticker's recovery only if the book is CURRENT and, by the
\* row's time, not too old.
ReplaySnapshot(e, n) ==
  LET t == feed[e][n].ticker IN
  /\ Listening(e) /\ n <= sent[e] /\ sid
  /\ feed[e][n].kind = "snapshot" /\ Stored(n)
  /\ \/ book[t].state = "CURRENT" /\ Accepted(pending \ {t})
     \/ RequestSnapshotOnce(sidMarkets)
  /\ UNCHANGED <<feed, sent, up, conn, sid, rows, manager>>

\* A delta on a STALE book, or on a CURRENT one that is too old.
DeltaOnStale(e, n) ==
  LET t == feed[e][n].ticker IN
  /\ Listening(e) /\ n <= sent[e] /\ sid
  /\ feed[e][n].kind = "delta"
  /\ book[t].state \in {"STALE", "CURRENT"}
  /\ state' = "QUARANTINED"
  /\ UNCHANGED <<up, conn, sid, pending, rows, exchange, manager>>

\* apply_delta refuses: out of sequence, or the book is not CURRENT, or it
\* rejects the level.  The number advances in the last two cases.
DeltaRefused(e, n) ==
  LET t == feed[e][n].ticker IN
  /\ Listening(e) /\ n <= sent[e] /\ sid
  /\ feed[e][n].kind = "delta" /\ ~Stored(n)
  /\ book[t].state # "STALE"
  /\ InSequence(n) => book[t].state # "CURRENT" \/ ~feed[e][n].valid
  /\ lastSeq' = IF InSequence(n) THEN n ELSE lastSeq
  /\ book' = [BooksAfter(n) EXCEPT
       ![t].state = IF @ = "CURRENT" THEN "GAP" ELSE @]
  /\ UNCHANGED sidMarkets
  /\ RequestSnapshotOnce(sidMarkets)
  /\ UNCHANGED <<feed, sent, up, epochs, conn, sid, rows>>

\* SequencedBook.delta on a CURRENT book, whose own number apply_delta has
\* just set to the one before n.
ApplyLevel(c, n) ==
  [base |-> c.base, applied |-> [c.applied EXCEPT ![n] = c.applied[n] + 1]]

\* apply_delta: the next number on a CURRENT book.
Delta(e, n, outcome) ==
  LET t == feed[e][n].ticker IN
  /\ Listening(e) /\ n <= sent[e] /\ sid
  /\ feed[e][n].kind = "delta" /\ feed[e][n].valid /\ ~Stored(n)
  /\ InSequence(n) /\ book[t].state = "CURRENT"
  /\ lastSeq' = n
  /\ book' = [book EXCEPT ![t].content = ApplyLevel(book[t].content, n)]
  /\ UNCHANGED sidMarkets
  /\ Persist(n, t, pending, outcome)
  /\ UNCHANGED <<feed, sent, up, epochs, conn, sid>>

\* A delta whose row is stored is not applied again.
ReplayDelta(e, n) ==
  LET t == feed[e][n].ticker IN
  /\ Listening(e) /\ n <= sent[e] /\ sid
  /\ feed[e][n].kind = "delta" /\ Stored(n)
  /\ book[t].state # "STALE"
  /\ Accepted(pending)
  /\ UNCHANGED <<feed, sent, up, conn, sid, rows, manager>>

Process(e, n) ==
  \/ Unexpected(e, n)
  \/ \E outcome \in {"stored", "stale", "refused"} :
       Snapshot(e, n, outcome) \/ Delta(e, n, outcome)
  \/ \E torn \in BOOLEAN : InvalidSnapshot(e, n, torn)
  \/ ReplaySnapshot(e, n)
  \/ DeltaOnStale(e, n)
  \/ DeltaRefused(e, n)
  \/ ReplayDelta(e, n)

Next ==
  \/ \E f \in Frames : Send(f)
  \/ Connect \/ ConnectFails \/ disconnect \/ stop \/ check_freshness
  \/ Subscribed \/ Malformed
  \/ \E e \in Epochs, n \in Seqs : Process(e, n)

Spec == Init /\ [][Next]_vars

-----------------------------------------------------------------------------
(* Properties *)

Rows == [epoch : Epochs, seq : Seqs, ticker : Tickers, content : Contents]

\* The variables of the runtime, the manager and the table have their types;
\* no book, served or not, ever contains a delta twice.
TypeOK ==
  /\ feed \in [Epochs -> [Seqs -> Frames \cup {NoFrame}]]
  /\ sent \in [Epochs -> 0 .. MaxSeq]
  /\ owed \subseteq Tickers
  /\ state \in RuntimeState
  /\ up \in BOOLEAN /\ sid \in BOOLEAN
  /\ epochs \in 0 .. MaxEpoch /\ conn \in 0 .. MaxEpoch
  /\ pending \subseteq Tickers
  /\ lastSeq \in 0 .. MaxSeq
  /\ sidMarkets \subseteq Tickers
  /\ book \in [Tickers -> [state : BookState, content : Contents]]
  /\ rows \subseteq Rows

\* The states in which process hands frames to the manager.
Serving == state \in {"SUBSCRIBING", "HEALTHY"}

\* While the runtime serves, a CURRENT book contains exactly the exchange's
\* deltas up to the last number the subscription accepted, whatever was lost,
\* repeated or reordered and although a snapshot may move that number back.
CurrentIsExact ==
  Serving => \A t \in Tickers :
    book[t].state = "CURRENT" => book[t].content = Truth(conn, t, lastSeq)

\* Every evidence row is the exchange's book at the row's own number, on the
\* connection the row names: a gap persists no delta evidence, and no row
\* mixes two connections.
EvidenceExact ==
  \A r \in rows : r.content = Truth(r.epoch, r.ticker, r.seq)

\* A get_snapshot is only sent over an open transport, so
\* _request_snapshot_once cannot raise; and a healthy runtime has no recovery
\* open.
HealthyIsRecovered ==
  /\ Serving => up /\ conn = epochs /\ conn # 0
  /\ state = "HEALTHY" => pending = {}
=============================================================================
