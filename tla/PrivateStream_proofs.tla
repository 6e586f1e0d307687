------------------------- MODULE PrivateStream_proofs -------------------------
(***************************************************************************)
(* Proofs about the private stream, for any number of connections and of   *)
(* events, lost, repeated and reordered in any way.                        *)
(***************************************************************************)
EXTENDS PrivateStream, TLAPS

USE StreamAssumption

\* Up to a last_sequence of this connection, every event was sent and is
\* recorded, noticed as lost or unchecked.
BehindLast ==
  Anchored => /\ last <= emitted
              /\ \A n \in 1..last : <<connection, n>> \in stored \cup noticed \cup unchecked

\* All a step needs to know next to the property itself.
IInv ==
  /\ TypeOK
  /\ BehindLast
  /\ OnlyUncheckedHidesLoss

LEMMA InitHolds == Init => IInv
<1> SUFFICES ASSUME Init
             PROVE  IInv
  OBVIOUS
<1>1. TypeOK
  <2>1. 0 \in 0..Events /\ 1 \in 1..Connections /\ 0 \in 0..1
    OBVIOUS
  <2>2. {} \subseteq Sequenced
    OBVIOUS
  <2>3. QED BY <2>1, <2>2 DEF Init, TypeOK, Null
<1>2. BehindLast
  BY DEF Init, BehindLast, Anchored
<1>3. OnlyUncheckedHidesLoss
  BY DEF Init, OnlyUncheckedHidesLoss, Missing
<1>4. QED BY <1>1, <1>2, <1>3 DEF IInv

\* What was sent on a connection is among the events it can carry.
LEMMA UpToType ==
  ASSUME TypeOK, NEW n \in 0..Events
  PROVE  UpTo(n) \subseteq Sequenced
<1>1. \A m \in 1..n : connection \in 1..Connections /\ m \in 1..Events
  BY DEF TypeOK
<1>2. QED BY <1>1 DEF UpTo, Sequenced

\* An event moves last_sequence and is recorded, or notices all sent so far.
LEMMA DeliverKeeps ==
  ASSUME IInv, NEW n \in 1..Events, Deliver(n)
  PROVE  IInv'
<1> USE DEF Null
<1>1. /\ n \in 1..emitted /\ connection' = connection /\ emitted' = emitted
      /\ last' = n /\ source' = connection /\ trustworthy' = InSequence(n)
  BY DEF Deliver, ingest_ws_event
<1>2. /\ InSequence(n) \in BOOLEAN /\ connection \in 1..Connections
      /\ emitted \in 0..Events /\ last \in 0..Events
  BY DEF IInv, TypeOK, InSequence
<1>3. CASE InSequence(n)
  <2>1. /\ stored' = stored \cup {<<connection, n>>} /\ noticed' = noticed
        /\ unchecked' = IF Anchored THEN unchecked ELSE unchecked \cup UpTo(n - 1)
    BY <1>3 DEF Deliver, ingest_ws_event
  <2>2. UpTo(n - 1) \subseteq Sequenced /\ <<connection, n>> \in Sequenced
    BY <1>2, UpToType DEF IInv, Sequenced
  <2>3. TypeOK'
    BY <1>1, <1>2, <2>1, <2>2 DEF IInv, TypeOK
  <2>4. \A m \in 1..n : <<connection, m>> \in stored' \cup noticed' \cup unchecked'
    <3>1. CASE Anchored
      <4>1. n = last + 1
        BY <1>3, <3>1 DEF InSequence, Anchored
      <4>2. \A m \in 1..n - 1 : <<connection, m>> \in stored \cup noticed \cup unchecked
        BY <1>2, <3>1, <4>1 DEF IInv, BehindLast
      <4>3. QED BY <2>1, <4>2
    <3>2. CASE ~Anchored
      <4>1. \A m \in 1..n - 1 : <<connection, m>> \in UpTo(n - 1)
        BY DEF UpTo
      <4>2. QED BY <2>1, <3>2, <4>1
    <3>3. QED BY <3>1, <3>2
  <2>5. BehindLast'
    BY <1>1, <2>4 DEF BehindLast
  <2>6. OnlyUncheckedHidesLoss'
    <3> SUFFICES ASSUME NEW e \in Missing'
                 PROVE  e \in noticed' \cup unchecked'
      BY DEF OnlyUncheckedHidesLoss
    <3>1. e \in Sequenced \ stored'
      BY DEF Missing
    <3>2. PICK k \in e[2] + 1..Events : <<e[1], k>> \in stored'
      BY DEF Missing
    <3>3. e = <<e[1], e[2]>> /\ e[2] \in 1..Events
      BY <3>1 DEF Sequenced
    <3>4. CASE <<e[1], k>> \in stored
      <4>1. e \in Missing
        BY <2>1, <3>1, <3>4 DEF Missing
      <4>2. QED BY <2>1, <4>1 DEF IInv, OnlyUncheckedHidesLoss
    <3>5. CASE <<e[1], k>> \notin stored
      <4>1. e[1] = connection /\ k = n
        BY <2>1, <3>2, <3>5
      <4>2. e[2] \in 1..n
        BY <3>2, <3>3, <4>1
      <4>3. QED BY <2>4, <3>1, <3>3, <4>1, <4>2
    <3>6. QED BY <3>4, <3>5
  <2>7. QED BY <2>3, <2>5, <2>6 DEF IInv
<1>4. CASE ~InSequence(n)
  <2>1. UNCHANGED <<stored, unchecked>> /\ noticed' = noticed \cup UpTo(emitted)
    BY <1>4 DEF Deliver, ingest_ws_event
  <2>2. UpTo(emitted) \subseteq Sequenced
    BY <1>2, UpToType DEF IInv
  <2>3. TypeOK'
    BY <1>1, <1>2, <2>1, <2>2 DEF IInv, TypeOK
  <2>4. \A m \in 1..n : <<connection, m>> \in UpTo(emitted)
    BY <1>1, <1>2 DEF UpTo
  <2>5. BehindLast'
    BY <1>1, <2>1, <2>4 DEF BehindLast
  <2>6. OnlyUncheckedHidesLoss'
    BY <2>1 DEF IInv, OnlyUncheckedHidesLoss, Missing
  <2>7. QED BY <2>3, <2>5, <2>6 DEF IInv
<1>5. QED BY <1>3, <1>4

LEMMA StepKeeps == IInv /\ [Next]_vars => IInv'
<1> SUFFICES ASSUME IInv, [Next]_vars
             PROVE  IInv'
  OBVIOUS
<1> USE DEF Null
<1>1. CASE Emit
  <2>1. /\ emitted < Events /\ emitted' = emitted + 1
        /\ UNCHANGED <<last, trustworthy, stored, connection, noticed, source, unchecked>>
    BY <1>1 DEF Emit, history
  <2>2. TypeOK'
    BY <2>1 DEF IInv, TypeOK
  <2>3. BehindLast' /\ OnlyUncheckedHidesLoss'
    BY <2>1 DEF IInv, TypeOK, BehindLast, Anchored, OnlyUncheckedHidesLoss, Missing
  <2>4. QED BY <2>2, <2>3 DEF IInv
<1>2. CASE \E n \in 1..Events : Deliver(n)
  BY <1>2, DeliverKeeps
<1>3. CASE DeliverUnsequenced
  <2>1. last' = 0 /\ trustworthy' = TRUE
        /\ UNCHANGED <<stored, connection, emitted, noticed, source, unchecked>>
    BY <1>3 DEF DeliverUnsequenced, history
  <2>2. QED
    BY <2>1 DEF IInv, TypeOK, BehindLast, Anchored, OnlyUncheckedHidesLoss, Missing
<1>4. CASE disconnect
  <2>1. /\ connection < Connections /\ connection' = connection + 1 /\ emitted' = 0
        /\ noticed' = noticed \cup UpTo(emitted) /\ trustworthy' = FALSE
        /\ UNCHANGED <<last, stored, source, unchecked>>
    BY <1>4 DEF disconnect
  <2>2. UpTo(emitted) \subseteq Sequenced
    BY UpToType DEF IInv, TypeOK
  <2>3. TypeOK'
    <3>1. connection' \in 1..Connections /\ emitted' \in 0..Events /\ source' \in 0..connection'
      BY <2>1 DEF IInv, TypeOK
    <3>2. noticed' \subseteq Sequenced
      BY <2>1, <2>2 DEF IInv, TypeOK
    <3>3. QED BY <2>1, <3>1, <3>2 DEF IInv, TypeOK
  <2>4. ~Anchored'
    BY <2>1 DEF IInv, TypeOK, Anchored
  <2>5. BehindLast' /\ OnlyUncheckedHidesLoss'
    BY <2>1, <2>4 DEF IInv, BehindLast, OnlyUncheckedHidesLoss, Missing
  <2>6. QED BY <2>3, <2>5 DEF IInv
<1>5. CASE UNCHANGED vars
  BY <1>5 DEF vars, history, IInv, TypeOK, BehindLast, Anchored, OnlyUncheckedHidesLoss, Missing
<1>6. QED BY <1>1, <1>2, <1>3, <1>4, <1>5 DEF Next

\* The inductive invariant holds in every reachable state.
THEOREM Inductive == Spec => []IInv
BY InitHolds, StepKeeps, PTL DEF Spec

\* The channel's row and the recorded events have their types.
THEOREM TypeCorrect == Spec => []TypeOK
BY Inductive, PTL DEF IInv

\* Of the events ingest_ws_event passes over, every one either precedes a gap or
\* a disconnect that was recorded, or was skipped by an event accepted with no
\* number of its own connection to compare with.
THEOREM SilentLossIsUnchecked == Spec => []OnlyUncheckedHidesLoss
BY Inductive, PTL DEF IInv
=============================================================================
