---------------------------- MODULE PrivateStream ----------------------------
(***************************************************************************)
(* The private stream of M14: ExecutionStore records the order events of   *)
(* one channel and says whether the channel can be trusted.  The transport *)
(* loses, repeats and reorders messages, and numbers them anew on every    *)
(* connection; the store keeps its last sequence across connections.  An   *)
(* event_key stands for one connection and number.                         *)
(***************************************************************************)
EXTENDS Integers

CONSTANTS
  Connections,  \* how often the stream is connected, a bound
  Events        \* sequenced events of one connection, a bound

ASSUME StreamAssumption == Connections \in Nat \ {0} /\ Events \in Nat

VARIABLES
  last,        \* last_sequence in ws_state, Null without one or without a row
  trustworthy, \* its trustworthy flag, FALSE without a row
  stored,      \* order_state_events: sequenced events, by connection and number
  connection,  \* external: the connection in use
  emitted,     \* external: events the exchange sent on it
  noticed,     \* history: events sent before a gap or a disconnect was recorded
  source,      \* history: the connection last_sequence was numbered on, or none
  unchecked    \* history: events sent before one that was accepted unchecked

history == <<noticed, source, unchecked>>
vars == <<last, trustworthy, stored, connection, emitted, history>>

Null == 0

Init ==
  /\ last = Null
  /\ trustworthy = FALSE
  /\ stored = {}
  /\ connection = 1
  /\ emitted = 0
  /\ noticed = {}
  /\ source = 0
  /\ unchecked = {}

UpTo(n) == {<<connection, m>> : m \in 1..n}

Emit ==
  /\ emitted < Events
  /\ emitted' = emitted + 1
  /\ UNCHANGED <<last, trustworthy, stored, connection, history>>

BugInSequence(n) == last = Null \/ n > last

\* Without a last sequence any number is accepted.
InSequence(n) == last = Null \/ n = last + 1

\* The row holds a number of this connection to compare the next one with.
Anchored == last # Null /\ source = connection

\* An event out of sequence is dropped but moves last_sequence; any event in
\* sequence makes the channel CURRENT again.  Without a number of its own
\* connection to compare with, what an accepted event skips goes unchecked.
ingest_ws_event(n) ==
  /\ last' = n
  /\ trustworthy' = InSequence(n)
  /\ source' = connection
  /\ IF InSequence(n)
       THEN /\ stored' = stored \union {<<connection, n>>}
            /\ unchecked' = IF Anchored THEN unchecked ELSE unchecked \union UpTo(n - 1)
            /\ UNCHANGED noticed
       ELSE /\ noticed' = noticed \union UpTo(emitted)
            /\ UNCHANGED <<stored, unchecked>>

\* Any event of this connection arrives, in any order and any number of times.
Deliver(n) ==
  /\ n \in 1..emitted
  /\ ingest_ws_event(n)
  /\ UNCHANGED <<connection, emitted>>

\* An event without a sequence clears last_sequence.
DeliverUnsequenced ==
  /\ last' = Null
  /\ trustworthy' = TRUE
  /\ UNCHANGED <<stored, connection, emitted, history>>

\* last_sequence stays what it was.
disconnect ==
  /\ connection < Connections
  /\ trustworthy' = FALSE
  /\ noticed' = noticed \union UpTo(emitted)
  /\ connection' = connection + 1
  /\ emitted' = 0
  /\ UNCHANGED <<last, stored, source, unchecked>>

Next == Emit \/ (\E n \in 1..Events : Deliver(n)) \/ DeliverUnsequenced \/ disconnect

Spec == Init /\ [][Next]_vars

-----------------------------------------------------------------------------
(* Properties *)

Sequenced == (1..Connections) \X (1..Events)

\* The flags, counters and sets of events have their types.
TypeOK ==
  /\ trustworthy \in BOOLEAN
  /\ last \in 0..Events
  /\ emitted \in 0..Events
  /\ connection \in 1..Connections
  /\ source \in 0..connection
  /\ stored \subseteq Sequenced
  /\ noticed \subseteq Sequenced
  /\ unchecked \subseteq Sequenced

\* Events that were passed over: a later one of their connection was recorded.
Missing ==
  {e \in Sequenced \ stored : \E k \in e[2] + 1..Events : <<e[1], k>> \in stored}

\* However messages are lost, repeated and reordered, an event is passed over
\* in silence (no gap and no disconnect recorded after it was sent) only by one
\* that ingest_ws_event accepted with no number of its own connection to compare
\* with: the first of all, the first after an unsequenced event, or one that
\* follows the number of an earlier connection by chance.
OnlyUncheckedHidesLoss == Missing \subseteq noticed \union unchecked
=============================================================================
