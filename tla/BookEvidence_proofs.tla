------------------------- MODULE BookEvidence_proofs -------------------------
(***************************************************************************)
(* A CURRENT book is the exchange's book and every evidence row is exact,  *)
(* for any number of markets, connections and frames.                      *)
(***************************************************************************)
EXTENDS BookEvidence, TLAPS

\* The flags of the runtime agree with one another: what serves is connected
\* on the manager's epoch, a known subscription covers every ticker, and a
\* recovery is only open on a known subscription.
Wiring ==
  /\ conn \in {0, epochs}
  /\ state = "DISCONNECTED" => conn = 0
  /\ Serving => up /\ conn = epochs /\ conn # 0
  /\ sid => sidMarkets = Tickers
  /\ ~sid => pending = {}
  /\ state = "HEALTHY" => pending = {}

\* Numbers the runtime holds were sent.
Numbered ==
  /\ \A r \in rows : r.seq <= sent[r.epoch]
  /\ epochs # 0 => lastSeq <= sent[epochs]

\* A served book that is CURRENT was installed after a number was accepted.
Installed ==
  Serving => \A t \in Tickers : book[t].state = "CURRENT" => lastSeq # 0

IInv == TypeOK /\ Wiring /\ Numbered /\ Installed /\ CurrentIsExact /\ EvidenceExact

-----------------------------------------------------------------------------
(* The exchange's book *)

\* The exchange's book at a number it has sent is a content.
LEMMA TruthType ==
  ASSUME TypeOK, NEW e \in Epochs, NEW t \in Tickers, NEW n \in 0 .. MaxSeq
  PROVE  Truth(e, t, n) \in Contents
  BY BoundsAssumption DEF Truth, Contents, Epochs, Seqs

\* Sending a frame does not change the book at the numbers before it.
LEMMA TruthStable ==
  ASSUME TypeOK, NEW f \in Frames, Send(f),
         NEW e \in Epochs, NEW t \in Tickers, NEW n \in 0 .. MaxSeq,
         n <= sent[e]
  PROVE  Truth(e, t, n)' = Truth(e, t, n)
<1>1. conn \in Epochs /\ sent[conn] \in 0 .. MaxSeq
  BY BoundsAssumption DEF TypeOK, Send, Epochs
<1>2. \A k \in Seqs : k <= n => feed'[e][k] = feed[e][k]
  BY <1>1, BoundsAssumption DEF TypeOK, Send, Epochs, Seqs
<1> QED
  BY <1>2 DEF Truth

\* A frame that is not a delta of t leaves its book as it was one number
\* earlier.
LEMMA TruthSkips ==
  ASSUME NEW e, NEW t, NEW n \in Seqs, NEW p \in 0 .. MaxSeq, n = p + 1,
         ~(feed[e][n].kind = "delta" /\ feed[e][n].ticker = t)
  PROVE  Truth(e, t, n) = Truth(e, t, p)
<1>1. \A k \in Seqs : (k <= n /\ feed[e][k].kind = "delta" /\ feed[e][k].ticker = t)
                       <=> (k <= p /\ feed[e][k].kind = "delta" /\ feed[e][k].ticker = t)
  BY BoundsAssumption DEF Seqs
<1> QED
  BY <1>1 DEF Truth

\* A delta of t adds itself to the book one number earlier.
LEMMA TruthAdds ==
  ASSUME NEW e, NEW t, NEW n \in Seqs, NEW p \in 0 .. MaxSeq, n = p + 1,
         feed[e][n].kind = "delta", feed[e][n].ticker = t
  PROVE  /\ Truth(e, t, p).applied[n] = 0
         /\ Truth(e, t, n).applied[n] = 1
         /\ \A k \in Seqs \ {n} : Truth(e, t, n).applied[k] = Truth(e, t, p).applied[k]
         /\ Truth(e, t, n).base = Truth(e, t, p).base
<1>1. \A k \in Seqs : k # n => (k <= n <=> k <= p)
  BY BoundsAssumption DEF Seqs
<1>2. ~(n <= p) /\ n <= n
  BY BoundsAssumption DEF Seqs
<1> QED
  BY <1>1, <1>2 DEF Truth

\* Contents are equal when their parts are.
LEMMA ContentsEqual ==
  ASSUME NEW c \in Contents, NEW d \in Contents, c.base = d.base,
         \A k \in Seqs : c.applied[k] = d.applied[k]
  PROVE  c = d
<1>1. c.applied = d.applied
  BY DEF Contents
<1> QED
  BY <1>1 DEF Contents

\* Applying a delta that is not contained yet adds it and nothing else.
LEMMA LevelApplied ==
  ASSUME NEW c \in Contents, NEW n \in Seqs, c.applied[n] = 0
  PROVE  /\ ApplyLevel(c, n) \in Contents
         /\ ApplyLevel(c, n).base = c.base
         /\ ApplyLevel(c, n).applied \in [Seqs -> {0, 1}]
         /\ ApplyLevel(c, n).applied[n] = 1
         /\ \A k \in Seqs \ {n} : ApplyLevel(c, n).applied[k] = c.applied[k]
<1> DEFINE a == [c.applied EXCEPT ![n] = c.applied[n] + 1]
<1>1. c.applied \in [Seqs -> {0, 1}] /\ c.base \in 0 .. MaxEpoch
  BY DEF Contents
<1>2. a \in [Seqs -> {0, 1}] /\ a[n] = 1 /\ \A k \in Seqs \ {n} : a[k] = c.applied[k]
  BY <1>1
<1>3. ApplyLevel(c, n) = [base |-> c.base, applied |-> a]
  BY DEF ApplyLevel
<1> HIDE DEF a
<1> QED
  BY <1>1, <1>2, <1>3 DEF Contents

-----------------------------------------------------------------------------
(* The books after sequence() *)

LEMMA BooksAfterType ==
  ASSUME TypeOK, NEW n
  PROVE  /\ BooksAfter(n) \in [Tickers -> [state : BookState, content : Contents]]
         /\ \A t \in Tickers : /\ BooksAfter(n)[t].content = book[t].content
                               /\ BooksAfter(n)[t].state \in {book[t].state, "GAP"}
                               /\ sidMarkets = Tickers /\ ~InSequence(n) =>
                                     BooksAfter(n)[t].state # "CURRENT"
                               /\ InSequence(n) => BooksAfter(n)[t] = book[t]
  BY DEF TypeOK, BooksAfter, BookState

-----------------------------------------------------------------------------
(* The inductive invariant *)

LEMMA InitInv == Init => IInv
<1> SUFFICES ASSUME Init PROVE IInv
  OBVIOUS
<1>1. NoContent \in Contents
  BY BoundsAssumption DEF NoContent, Contents, Seqs
<1>2. book \in [Tickers -> [state : BookState, content : Contents]]
  BY <1>1 DEF Init, BookState
<1>3. sent \in [Epochs -> 0 .. MaxSeq] /\ lastSeq \in 0 .. MaxSeq /\ epochs \in 0 .. MaxEpoch
  BY BoundsAssumption DEF Init
<1>4. TypeOK
  BY <1>2, <1>3 DEF Init, TypeOK, RuntimeState
<1> QED
  BY <1>4 DEF IInv, Init, Wiring, Numbered, Installed, CurrentIsExact, EvidenceExact, Serving

\* Steps that leave the exchange, the manager and the rows alone only need
\* the runtime's flags to stay consistent.
LEMMA FlagsOnly ==
  ASSUME IInv, TypeOK', Wiring', UNCHANGED <<feed, sent, rows, manager>>,
         UNCHANGED conn, Serving' => Serving
  PROVE  IInv'
  BY DEF IInv, Numbered, Installed, CurrentIsExact, EvidenceExact, Truth, manager

LEMMA SendInv ==
  ASSUME IInv, NEW f \in Frames, Send(f)
  PROVE  IInv'
<1> USE DEF IInv
<1>0. conn \in Epochs /\ sent[conn] \in 0 .. MaxSeq /\ conn = epochs
  BY BoundsAssumption DEF TypeOK, Send, Epochs, Wiring
<1>1. sent[conn] + 1 \in Seqs /\ sent' \in [Epochs -> 0 .. MaxSeq]
  BY <1>0, BoundsAssumption DEF TypeOK, Send, Seqs, Epochs
<1>2. \A e \in Epochs : sent[e] \in 0 .. MaxSeq /\ sent'[e] \in 0 .. MaxSeq /\ sent[e] <= sent'[e]
  BY <1>0, <1>1, BoundsAssumption DEF TypeOK, Send
<1>3. TypeOK'
  <2>1. feed' \in [Epochs -> [Seqs -> Frames \cup {NoFrame}]]
    BY <1>0, <1>1 DEF TypeOK, Send
  <2>2. owed' \subseteq Tickers
    BY DEF TypeOK, Send
  <2> QED
    BY <2>1, <2>2, <1>1 DEF TypeOK, Send, manager
<1>4. Wiring'
  BY DEF Wiring, Send, Serving, manager
<1>5. Numbered'
  <2>1. \A r \in rows : r.epoch \in Epochs /\ r.seq \in Seqs
    BY DEF TypeOK, Rows
  <2> QED
    BY <2>1, <1>0, <1>2, BoundsAssumption DEF Numbered, Send, manager, TypeOK, Seqs
<1>6. Installed'
  BY DEF Installed, Send, Serving, manager
<1>7. CurrentIsExact'
  <2> SUFFICES ASSUME Serving, NEW t \in Tickers, book[t].state = "CURRENT"
               PROVE  book[t].content = Truth(conn, t, lastSeq)'
    BY DEF CurrentIsExact, Send, Serving, manager
  <2>1. lastSeq \in 0 .. MaxSeq /\ lastSeq <= sent[conn]
    BY <1>0, BoundsAssumption DEF TypeOK, Numbered, Epochs
  <2>3. \A e \in Epochs, n \in 0 .. MaxSeq : n <= sent[e] => Truth(e, t, n)' = Truth(e, t, n)
    BY TruthStable
  <2> QED
    BY <2>1, <2>3, <1>0 DEF CurrentIsExact, Send, Truth, manager
<1>8. EvidenceExact'
  <2> SUFFICES ASSUME NEW r \in rows
               PROVE  r.content = Truth(r.epoch, r.ticker, r.seq)'
    BY DEF EvidenceExact, Send
  <2>1. r.epoch \in Epochs /\ r.seq \in 0 .. MaxSeq /\ r.ticker \in Tickers
    BY BoundsAssumption DEF TypeOK, Rows, Seqs
  <2> QED
    BY <2>1, TruthStable DEF EvidenceExact, Numbered
<1> QED
  BY <1>3, <1>4, <1>5, <1>6, <1>7, <1>8

-----------------------------------------------------------------------------
(* The connection *)

LEMMA StaleBooksType ==
  ASSUME TypeOK
  PROVE  /\ StaleBooks \in [Tickers -> [state : BookState, content : Contents]]
         /\ \A t \in Tickers : StaleBooks[t].state # "CURRENT"
  BY DEF TypeOK, StaleBooks, BookState

LEMMA ConnectInv ==
  ASSUME IInv, Connect
  PROVE  IInv'
<1> USE DEF IInv
<1>1. TypeOK'
  <2>1. epochs' \in 0 .. MaxEpoch /\ conn' \in 0 .. MaxEpoch /\ lastSeq' \in 0 .. MaxSeq
    BY BoundsAssumption DEF TypeOK, Connect, new_epoch
  <2> QED
    BY <2>1, StaleBooksType DEF TypeOK, Connect, new_epoch, RuntimeState
<1>2. Wiring'
  BY <1>1, BoundsAssumption DEF TypeOK, Wiring, Connect, new_epoch, Serving
<1>3. Numbered'
  <2>1. epochs' \in Epochs /\ sent[epochs'] \in 0 .. MaxSeq
    BY BoundsAssumption DEF TypeOK, Connect, new_epoch, Epochs
  <2> QED
    BY <2>1, BoundsAssumption DEF Numbered, Connect, new_epoch
<1>4. Installed' /\ CurrentIsExact'
  BY StaleBooksType DEF Installed, CurrentIsExact, Connect, new_epoch
<1>5. EvidenceExact'
  BY DEF EvidenceExact, Connect, Truth
<1> QED
  BY <1>1, <1>2, <1>3, <1>4, <1>5

LEMMA DisconnectInv ==
  ASSUME IInv, disconnect
  PROVE  IInv'
<1> USE DEF IInv
<1>1. TypeOK'
  <2>1. book' \in [Tickers -> [state : BookState, content : Contents]]
    BY StaleBooksType DEF TypeOK, disconnect
  <2>2. conn' \in 0 .. MaxEpoch
    BY BoundsAssumption DEF disconnect
  <2> QED
    BY <2>1, <2>2 DEF TypeOK, disconnect, RuntimeState, exchange
<1>2. Wiring'
  BY DEF Wiring, disconnect, Serving
<1>3. Numbered'
  BY DEF Numbered, disconnect, exchange
<1>4. Installed' /\ CurrentIsExact'
  BY DEF Installed, CurrentIsExact, disconnect, Serving
<1>5. EvidenceExact'
  BY DEF EvidenceExact, disconnect, Truth, exchange
<1> QED
  BY <1>1, <1>2, <1>3, <1>4, <1>5

\* The steps that only close the runtime.
LEMMA CloseInv ==
  ASSUME IInv, ConnectFails \/ stop \/ check_freshness \/ Malformed
               \/ \E e \in Epochs, n \in Seqs : Unexpected(e, n) \/ DeltaOnStale(e, n)
  PROVE  IInv'
<1>1. /\ state' \in {"FAILED", "STOPPED", "QUARANTINED"}
      /\ up' \in {up, FALSE}
      /\ UNCHANGED <<conn, sid, pending, rows, exchange, manager>>
  BY DEF ConnectFails, stop, check_freshness, Malformed, Unexpected, DeltaOnStale
<1>2. ~Serving'
  BY <1>1 DEF Serving
<1>3. TypeOK'
  BY <1>1 DEF IInv, TypeOK, RuntimeState, exchange, manager
<1>4. Wiring'
  BY <1>1, <1>2 DEF IInv, Wiring, manager
<1> QED
  BY <1>1, <1>2, <1>3, <1>4, FlagsOnly DEF exchange

LEMMA SubscribedInv ==
  ASSUME IInv, Subscribed
  PROVE  IInv'
<1> USE DEF IInv
<1>0. Serving
  BY DEF Wiring, Subscribed, Listening, Serving, TypeOK, RuntimeState
<1>1. TypeOK'
  BY DEF TypeOK, Subscribed, RuntimeState, exchange
<1>2. Wiring'
  BY <1>0 DEF Wiring, Subscribed, Serving
<1>3. Numbered' /\ EvidenceExact'
  BY DEF Numbered, EvidenceExact, Subscribed, Truth, exchange
<1>4. Installed' /\ CurrentIsExact'
  BY <1>0 DEF Installed, CurrentIsExact, Subscribed, Truth, exchange
<1> QED
  BY <1>1, <1>2, <1>3, <1>4

-----------------------------------------------------------------------------
(* Frames *)

\* What holds when a book frame reaches the manager.
LEMMA FrameFacts ==
  ASSUME IInv, NEW e \in Epochs, NEW n \in Seqs, Listening(e), n <= sent[e], sid,
         feed[e][n].kind \in {"snapshot", "delta"}
  PROVE  /\ e = conn /\ e = epochs /\ e # 0 /\ Serving /\ up
         /\ sidMarkets = Tickers
         /\ feed[e][n].ticker \in Tickers
         /\ lastSeq \in 0 .. MaxSeq
<1>1. feed[e][n] \in Frames
  BY DEF IInv, TypeOK, NoFrame
<1> QED
  BY <1>1 DEF IInv, TypeOK, Wiring, Listening, Serving, RuntimeState, Frames

\* A step that hands a frame to the manager keeps the invariant when the
\* books it leaves CURRENT and the row it adds are exact.
LEMMA FrameStep ==
  ASSUME IInv, NEW e \in Epochs, NEW n \in Seqs, Listening(e), n <= sent[e], sid,
         feed[e][n].kind \in {"snapshot", "delta"},
         UNCHANGED <<feed, sent, up, epochs, conn, sid>>,
         sidMarkets' = Tickers, lastSeq' \in {lastSeq, n},
         book' \in [Tickers -> [state : BookState, content : Contents]],
         state' \in {"SUBSCRIBING", "HEALTHY", "QUARANTINED"},
         state' = "HEALTHY" => pending' = {},
         pending' \subseteq Tickers, owed' \subseteq Tickers,
         state' # "QUARANTINED" => \A t \in Tickers : book'[t].state = "CURRENT" =>
           lastSeq' # 0 /\ book'[t].content = Truth(e, t, lastSeq'),
         rows' \subseteq Rows,
         \A r \in rows' : \/ r \in rows
                          \/ r.epoch = e /\ r.seq = n /\ r.content = Truth(e, r.ticker, n)
  PROVE  IInv'
<1>1. e = conn /\ e = epochs /\ e # 0 /\ Serving /\ up
  BY FrameFacts
<1>2. TypeOK'
  BY BoundsAssumption DEF IInv, TypeOK, RuntimeState, Seqs
<1>3. Wiring'
  BY <1>1 DEF IInv, Wiring, Serving
<1>4. Numbered'
  BY <1>1 DEF IInv, Numbered
<1>5. Installed'
  BY <1>1 DEF Installed, Serving
<1>6. \A a, t, k : Truth(a, t, k)' = Truth(a, t, k)
  BY DEF Truth
<1>7. CurrentIsExact'
  <2> SUFFICES ASSUME Serving', NEW t \in Tickers, book'[t].state = "CURRENT"
               PROVE  book'[t].content = Truth(conn, t, lastSeq)'
    BY DEF CurrentIsExact
  <2>1. book'[t].content = Truth(e, t, lastSeq')
    BY DEF Serving
  <2>2. Truth(conn, t, lastSeq)' = Truth(e, t, lastSeq')
    BY <1>1 DEF Truth
  <2> QED
    BY <2>1, <2>2
<1>8. EvidenceExact'
  <2> SUFFICES ASSUME NEW r \in rows'
               PROVE  r.content = Truth(r.epoch, r.ticker, r.seq)'
    BY DEF EvidenceExact
  <2>1. r.content = Truth(r.epoch, r.ticker, r.seq)
    BY DEF IInv, EvidenceExact
  <2> QED
    BY <2>1, <1>6
<1> QED
  BY <1>2, <1>3, <1>4, <1>5, <1>7, <1>8 DEF IInv

\* What RequestSnapshotOnce, Accepted and Persist leave behind.
LEMMA PersistFacts ==
  ASSUME IInv, NEW n \in Seqs, NEW t \in Tickers, NEW rest \in SUBSET Tickers,
         NEW outcome, Persist(n, t, rest, outcome),
         sidMarkets' = Tickers, epochs \in Epochs, book'[t].content \in Contents
  PROVE  /\ state' \in {"SUBSCRIBING", "HEALTHY", "QUARANTINED"}
         /\ state' = "HEALTHY" => pending' = {}
         /\ pending' \subseteq Tickers /\ owed' \subseteq Tickers
         /\ rows' \subseteq Rows
         /\ \A r \in rows' : \/ r \in rows
                             \/ /\ r.epoch = epochs /\ r.seq = n /\ r.ticker = t
                                /\ r.content = book'[t].content
<1>1. rows \subseteq Rows /\ pending \subseteq Tickers /\ owed \subseteq Tickers
  BY DEF IInv, TypeOK
<1>2. CASE outcome = "stored" /\ Append(n, t, book'[t].content) /\ Accepted(rest)
  BY <1>1, <1>2 DEF Append, Accepted, Rows
<1>3. CASE RequestSnapshotOnce(sidMarkets') /\ UNCHANGED rows
  BY <1>1, <1>3 DEF RequestSnapshotOnce
<1>4. CASE state' = "QUARANTINED" /\ UNCHANGED <<pending, owed, rows>>
  BY <1>1, <1>4
<1> QED
  BY <1>2, <1>3, <1>4 DEF Persist

LEMMA SnapshotInv ==
  ASSUME IInv, NEW e \in Epochs, NEW n \in Seqs, NEW outcome, Snapshot(e, n, outcome)
  PROVE  IInv'
<1> DEFINE t == feed[e][n].ticker
<1>1. /\ e = conn /\ e = epochs /\ Serving /\ sidMarkets = Tickers
      /\ t \in Tickers /\ lastSeq \in 0 .. MaxSeq
  BY FrameFacts DEF Snapshot
<1>2. n \in 0 .. MaxSeq /\ n # 0
  BY BoundsAssumption DEF Seqs
<1>3. Truth(e, t, n) \in Contents
  BY <1>1, <1>2, TruthType DEF IInv
<1>4. /\ BooksAfter(n) \in [Tickers -> [state : BookState, content : Contents]]
      /\ \A u \in Tickers : /\ ~InSequence(n) => BooksAfter(n)[u].state # "CURRENT"
                            /\ InSequence(n) => BooksAfter(n)[u] = book[u]
  BY <1>1, BooksAfterType DEF IInv
<1>5. /\ book' \in [Tickers -> [state : BookState, content : Contents]]
      /\ book'[t] = [state |-> "CURRENT", content |-> Truth(e, t, n)]
      /\ \A u \in Tickers \ {t} : book'[u] = BooksAfter(n)[u]
      /\ lastSeq' = n /\ sidMarkets' = Tickers
  BY <1>1, <1>3, <1>4 DEF Snapshot, install_snapshot, BookState
<1>6. \A u \in Tickers : book'[u].state = "CURRENT" => book'[u].content = Truth(e, u, n)
  <2> SUFFICES ASSUME NEW u \in Tickers \ {t}, book'[u].state = "CURRENT"
               PROVE  book'[u].content = Truth(e, u, n)
    BY <1>5
  <2>1. InSequence(n) /\ book'[u] = book[u]
    BY <1>4, <1>5
  <2>2. lastSeq # 0 /\ book[u].content = Truth(e, u, lastSeq)
    BY <2>1, <1>1 DEF IInv, Installed, CurrentIsExact
  <2>3. n = lastSeq + 1
    BY <2>1, <2>2 DEF InSequence
  <2>4. ~(feed[e][n].kind = "delta" /\ feed[e][n].ticker = u)
    BY DEF Snapshot
  <2>5. Truth(e, u, n) = Truth(e, u, lastSeq)
    BY <1>1, <2>3, <2>4, TruthSkips
  <2> QED
    BY <2>1, <2>2, <2>5
<1>7. pending \ {t} \in SUBSET Tickers
  BY DEF IInv, TypeOK
<1>8. Persist(n, t, pending \ {t}, outcome)
  BY DEF Snapshot
<1>9. /\ state' \in {"SUBSCRIBING", "HEALTHY", "QUARANTINED"}
      /\ state' = "HEALTHY" => pending' = {}
      /\ pending' \subseteq Tickers /\ owed' \subseteq Tickers
      /\ rows' \subseteq Rows
      /\ \A r \in rows' : \/ r \in rows
                          \/ /\ r.epoch = epochs /\ r.seq = n /\ r.ticker = t
                             /\ r.content = book'[t].content
  <2>1. book'[t].content \in Contents
    BY <1>1, <1>5
  <2>2. epochs \in Epochs
    BY <1>1
  <2> HIDE DEF t
  <2> QED
    BY <1>1, <1>5, <1>7, <1>8, <2>1, <2>2, PersistFacts
<1>10. \A r \in rows' : \/ r \in rows
                        \/ r.epoch = e /\ r.seq = n /\ r.content = Truth(e, r.ticker, n)
  BY <1>1, <1>5, <1>9
<1>11. /\ Listening(e) /\ n <= sent[e] /\ sid /\ feed[e][n].kind \in {"snapshot", "delta"}
       /\ UNCHANGED <<feed, sent, up, epochs, conn, sid>>
  BY DEF Snapshot
<1> HIDE DEF t
<1> QED
  BY <1>2, <1>5, <1>6, <1>9, <1>10, <1>11, FrameStep

LEMMA InvalidSnapshotInv ==
  ASSUME IInv, NEW e \in Epochs, NEW n \in Seqs, NEW torn \in BOOLEAN,
         InvalidSnapshot(e, n, torn)
  PROVE  IInv'
<1> DEFINE t == feed[e][n].ticker
<1>1. sidMarkets = Tickers /\ t \in Tickers
  BY FrameFacts DEF InvalidSnapshot
<1>2. BooksAfter(n) \in [Tickers -> [state : BookState, content : Contents]]
  BY BooksAfterType DEF IInv
<1>3. NoContent \in Contents
  BY BoundsAssumption DEF NoContent, Contents, Seqs
<1>4. book' \in [Tickers -> [state : BookState, content : Contents]]
  BY <1>1, <1>2, <1>3 DEF InvalidSnapshot, BookState
<1>5. sidMarkets' = Tickers /\ lastSeq' = n /\ state' = "QUARANTINED"
  BY <1>1 DEF InvalidSnapshot
<1>6. pending' \subseteq Tickers /\ owed' \subseteq Tickers /\ rows' = rows /\ rows \subseteq Rows
  BY DEF InvalidSnapshot, IInv, TypeOK, exchange
<1>7. /\ Listening(e) /\ n <= sent[e] /\ sid /\ feed[e][n].kind \in {"snapshot", "delta"}
      /\ UNCHANGED <<feed, sent, up, epochs, conn, sid>>
  BY DEF InvalidSnapshot, exchange
<1> QED
  BY <1>4, <1>5, <1>6, <1>7, FrameStep

\* A replayed frame leaves the manager and the rows alone.
LEMMA ReplayInv ==
  ASSUME IInv, NEW e \in Epochs, NEW n \in Seqs,
         ReplaySnapshot(e, n) \/ ReplayDelta(e, n)
  PROVE  IInv'
<1>1. /\ e = conn /\ e = epochs /\ Serving /\ sidMarkets = Tickers
  BY FrameFacts DEF ReplaySnapshot, ReplayDelta
<1>2. /\ Listening(e) /\ n <= sent[e] /\ sid /\ feed[e][n].kind \in {"snapshot", "delta"}
      /\ UNCHANGED <<feed, sent, up, epochs, conn, sid, rows, lastSeq, sidMarkets, book>>
  BY DEF ReplaySnapshot, ReplayDelta, manager
<1>3. /\ pending \subseteq Tickers /\ owed \subseteq Tickers /\ rows \subseteq Rows
      /\ book \in [Tickers -> [state : BookState, content : Contents]]
  BY DEF IInv, TypeOK
<1>4. PICK rest \in SUBSET Tickers : Accepted(rest) \/ RequestSnapshotOnce(sidMarkets)
  BY <1>3 DEF ReplaySnapshot, ReplayDelta
<1>5. /\ state' \in {"SUBSCRIBING", "HEALTHY", "QUARANTINED"}
      /\ state' = "HEALTHY" => pending' = {}
      /\ pending' \subseteq Tickers /\ owed' \subseteq Tickers
  BY <1>1, <1>3, <1>4 DEF Accepted, RequestSnapshotOnce
<1>6. \A t \in Tickers : book'[t].state = "CURRENT" =>
        lastSeq' # 0 /\ book'[t].content = Truth(e, t, lastSeq')
  BY <1>1, <1>2 DEF IInv, Installed, CurrentIsExact
<1> QED
  BY <1>1, <1>2, <1>3, <1>5, <1>6, FrameStep

LEMMA DeltaRefusedInv ==
  ASSUME IInv, NEW e \in Epochs, NEW n \in Seqs, DeltaRefused(e, n)
  PROVE  IInv'
<1> DEFINE t == feed[e][n].ticker
<1>1. /\ e = conn /\ e = epochs /\ Serving /\ sidMarkets = Tickers
      /\ t \in Tickers /\ lastSeq \in 0 .. MaxSeq
  BY FrameFacts DEF DeltaRefused
<1>2. /\ BooksAfter(n) \in [Tickers -> [state : BookState, content : Contents]]
      /\ \A u \in Tickers : /\ ~InSequence(n) => BooksAfter(n)[u].state # "CURRENT"
                            /\ InSequence(n) => BooksAfter(n)[u] = book[u]
  BY <1>1, BooksAfterType DEF IInv
<1>3. /\ book' \in [Tickers -> [state : BookState, content : Contents]]
      /\ book'[t].state # "CURRENT"
      /\ \A u \in Tickers \ {t} : book'[u] = BooksAfter(n)[u]
      /\ sidMarkets' = Tickers
  BY <1>1, <1>2 DEF DeltaRefused, BookState
<1>4. lastSeq' = IF InSequence(n) THEN n ELSE lastSeq
  BY DEF DeltaRefused
<1>5. \A u \in Tickers : book'[u].state = "CURRENT" =>
        lastSeq' # 0 /\ book'[u].content = Truth(e, u, lastSeq')
  <2> SUFFICES ASSUME NEW u \in Tickers \ {t}, book'[u].state = "CURRENT"
               PROVE  lastSeq' # 0 /\ book'[u].content = Truth(e, u, lastSeq')
    BY <1>3
  <2>1. InSequence(n) /\ book'[u] = book[u] /\ lastSeq' = n
    BY <1>2, <1>3, <1>4
  <2>2. lastSeq # 0 /\ book[u].content = Truth(e, u, lastSeq)
    BY <2>1, <1>1 DEF IInv, Installed, CurrentIsExact
  <2>3. n = lastSeq + 1 /\ n # 0
    BY <2>1, <2>2, <1>1, BoundsAssumption DEF InSequence, Seqs
  <2>4. ~(feed[e][n].kind = "delta" /\ feed[e][n].ticker = u)
    OBVIOUS
  <2>5. Truth(e, u, n) = Truth(e, u, lastSeq)
    BY <1>1, <2>3, <2>4, TruthSkips
  <2> QED
    BY <2>1, <2>2, <2>3, <2>5
<1>6. /\ state' \in {"SUBSCRIBING", "HEALTHY", "QUARANTINED"}
      /\ state' # "HEALTHY"
      /\ pending' \subseteq Tickers /\ owed' \subseteq Tickers
      /\ rows' = rows /\ rows \subseteq Rows
  BY DEF DeltaRefused, RequestSnapshotOnce, IInv, TypeOK
<1>7. /\ Listening(e) /\ n <= sent[e] /\ sid /\ feed[e][n].kind \in {"snapshot", "delta"}
      /\ UNCHANGED <<feed, sent, up, epochs, conn, sid>>
  BY DEF DeltaRefused
<1> HIDE DEF t
<1> QED
  BY <1>3, <1>4, <1>5, <1>6, <1>7, FrameStep

LEMMA DeltaInv ==
  ASSUME IInv, NEW e \in Epochs, NEW n \in Seqs, NEW outcome, Delta(e, n, outcome)
  PROVE  IInv'
<1> DEFINE t == feed[e][n].ticker
<1>1. /\ e = conn /\ e = epochs /\ Serving /\ sidMarkets = Tickers
      /\ t \in Tickers /\ lastSeq \in 0 .. MaxSeq
  BY FrameFacts DEF Delta
<1>2. /\ InSequence(n) /\ book[t].state = "CURRENT" /\ lastSeq' = n
      /\ feed[e][n].kind = "delta"
      /\ sidMarkets' = Tickers
  BY <1>1 DEF Delta
<1>3. lastSeq # 0 /\ n = lastSeq + 1 /\ n # 0 /\ n \in 0 .. MaxSeq
  BY <1>1, <1>2, BoundsAssumption DEF IInv, Installed, InSequence, Seqs
<1>4. \A u \in Tickers : book[u].state = "CURRENT" => book[u].content = Truth(e, u, lastSeq)
  BY <1>1 DEF IInv, CurrentIsExact
<1>5. book \in [Tickers -> [state : BookState, content : Contents]]
  BY DEF IInv, TypeOK
<1>6. /\ book[t].content.applied[n] = 0
      /\ Truth(e, t, n).applied[n] = 1
      /\ \A k \in Seqs \ {n} : Truth(e, t, n).applied[k] = book[t].content.applied[k]
      /\ Truth(e, t, n).base = book[t].content.base
  BY <1>1, <1>2, <1>3, <1>4, TruthAdds
<1>7. /\ \A u \in Tickers \ {t} : book'[u] = book[u]
      /\ book'[t].state = "CURRENT"
      /\ book'[t].content.base = book[t].content.base
      /\ book'[t].content.applied \in [Seqs -> {0, 1}]
      /\ book'[t].content.applied[n] = 1
      /\ \A k \in Seqs \ {n} : book'[t].content.applied[k] = book[t].content.applied[k]
      /\ book' \in [Tickers -> [state : BookState, content : Contents]]
  <2> DEFINE old == book[t].content
             new == ApplyLevel(old, n)
  <2>1. old \in Contents
    BY <1>1, <1>5
  <2>2. old.applied[n] = 0
    BY <1>6
  <2>3. /\ new \in Contents
        /\ new.base = old.base
        /\ new.applied \in [Seqs -> {0, 1}]
        /\ new.applied[n] = 1
        /\ \A k \in Seqs \ {n} : new.applied[k] = old.applied[k]
    <3> HIDE DEF old, t
    <3> QED
      BY <2>1, <2>2, LevelApplied
  <2>4. book' = [book EXCEPT ![t].content = new]
    BY DEF Delta
  <2>5. /\ book'[t] = [book[t] EXCEPT !.content = new]
        /\ \A u \in Tickers \ {t} : book'[u] = book[u]
    BY <2>4, <1>1, <1>5
  <2>6. book'[t].content = new /\ book'[t].state = "CURRENT"
    BY <2>5, <1>1, <1>2, <1>5
  <2>7. book' \in [Tickers -> [state : BookState, content : Contents]]
    BY <2>3, <2>4, <1>1, <1>5
  <2> HIDE DEF new, t
  <2> QED
    BY <2>3, <2>5, <2>6, <2>7
<1>8. book'[t].content = Truth(e, t, n)
  <2>1. Truth(e, t, n) \in Contents
    BY <1>1, <1>3, TruthType DEF IInv
  <2>2. book'[t].content \in Contents
    BY <1>1, <1>7
  <2>3. \A k \in Seqs : book'[t].content.applied[k] = Truth(e, t, n).applied[k]
    BY <1>6, <1>7
  <2> HIDE DEF t
  <2> QED
    BY <1>6, <1>7, <2>1, <2>2, <2>3, ContentsEqual
<1>9. \A u \in Tickers : book'[u].state = "CURRENT" => book'[u].content = Truth(e, u, n)
  <2> SUFFICES ASSUME NEW u \in Tickers \ {t}, book'[u].state = "CURRENT"
               PROVE  book'[u].content = Truth(e, u, n)
    BY <1>8
  <2>1. Truth(e, u, n) = Truth(e, u, lastSeq)
    BY <1>1, <1>3, TruthSkips
  <2> QED
    BY <2>1, <1>4, <1>7
<1>10. pending \in SUBSET Tickers
  BY DEF IInv, TypeOK
<1>11. Persist(n, t, pending, outcome)
  BY DEF Delta
<1>12. /\ state' \in {"SUBSCRIBING", "HEALTHY", "QUARANTINED"}
       /\ state' = "HEALTHY" => pending' = {}
       /\ pending' \subseteq Tickers /\ owed' \subseteq Tickers
       /\ rows' \subseteq Rows
       /\ \A r \in rows' : \/ r \in rows
                           \/ /\ r.epoch = epochs /\ r.seq = n /\ r.ticker = t
                              /\ r.content = book'[t].content
  <2>1. book'[t].content \in Contents /\ epochs \in Epochs
    BY <1>1, <1>7
  <2> HIDE DEF t
  <2> QED
    BY <1>1, <1>2, <1>10, <1>11, <2>1, PersistFacts
<1>13. \A r \in rows' : \/ r \in rows
                        \/ r.epoch = e /\ r.seq = n /\ r.content = Truth(e, r.ticker, n)
  BY <1>1, <1>8, <1>12
<1>14. /\ Listening(e) /\ n <= sent[e] /\ sid /\ feed[e][n].kind \in {"snapshot", "delta"}
       /\ UNCHANGED <<feed, sent, up, epochs, conn, sid>>
  BY DEF Delta
<1> HIDE DEF t
<1> QED
  BY <1>2, <1>3, <1>7, <1>9, <1>12, <1>13, <1>14, FrameStep

LEMMA NextInv == IInv /\ [Next]_vars => IInv'
<1> SUFFICES ASSUME IInv, [Next]_vars PROVE IInv'
  OBVIOUS
<1>1. CASE UNCHANGED vars
  BY <1>1 DEF vars, IInv, TypeOK, Wiring, Numbered, Installed, CurrentIsExact,
              EvidenceExact, Serving, Truth
<1>2. CASE \E f \in Frames : Send(f)
  BY <1>2, SendInv
<1>3. CASE Connect
  BY <1>3, ConnectInv
<1>4. CASE disconnect
  BY <1>4, DisconnectInv
<1>5. CASE ConnectFails \/ stop \/ check_freshness \/ Malformed
  BY <1>5, CloseInv
<1>6. CASE Subscribed
  BY <1>6, SubscribedInv
<1>7. ASSUME NEW e \in Epochs, NEW n \in Seqs, Process(e, n)
      PROVE  IInv'
  BY <1>7, CloseInv, SnapshotInv, DeltaInv, InvalidSnapshotInv, ReplayInv, DeltaRefusedInv
     DEF Process
<1> QED
  BY <1>1, <1>2, <1>3, <1>4, <1>5, <1>6, <1>7 DEF Next

-----------------------------------------------------------------------------
(* Theorems *)

\* The inductive invariant holds in every reachable state.
THEOREM Inductive == Spec => []IInv
  BY InitInv, NextInv, PTL DEF Spec

\* The variables of the evidence runtime, manager and table keep their types,
\* and no book ever contains a delta twice (SequencedBook.delta).
THEOREM TypeCorrect == Spec => []TypeOK
<1>1. IInv => TypeOK
  BY DEF IInv
<1> QED
  BY <1>1, Inductive, PTL

\* A CURRENT book of a serving runtime is the exchange's book at the last
\* accepted number, for every loss, repetition and reordering of frames
\* (SubscriptionManager.sequence, install_snapshot, apply_delta).
THEOREM BooksExact == Spec => []CurrentIsExact
<1>1. IInv => CurrentIsExact
  BY DEF IInv
<1> QED
  BY <1>1, Inductive, PTL

\* Every row of book_evidence is the exchange's book at the row's number on
\* the row's connection (ReadOnlyBookEvidencePipeline._persist).
THEOREM RowsExact == Spec => []EvidenceExact
<1>1. IInv => EvidenceExact
  BY DEF IInv
<1> QED
  BY <1>1, Inductive, PTL

\* A serving runtime has an open transport on the manager's epoch, and a
\* healthy one has no recovery open (OfflineReadOnlyEvidenceRuntime).
THEOREM HealthRecovered == Spec => []HealthyIsRecovered
<1>1. IInv => HealthyIsRecovered
  BY DEF IInv, Wiring, HealthyIsRecovered
<1> QED
  BY <1>1, Inductive, PTL
=============================================================================
