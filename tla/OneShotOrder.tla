---------------------------- MODULE OneShotOrder ----------------------------
(***************************************************************************)
(* What the canary release promises, with nothing of how it keeps it: one  *)
(* candidate is authorized, its order is sent at most once, and what is    *)
(* recorded of it is what the exchange did, once and for good.             *)
(***************************************************************************)
EXTENDS Integers

CONSTANT Candidates

VARIABLES
  authorized,  \* candidates ever released for sending, at most one
  sends,       \* create requests per candidate
  fate,        \* what became of the candidate's order
  recorded     \* candidate outcomes on record, at most one

vars == <<authorized, sends, fate, recorded>>

Outcomes == {"executed", "overpaid", "canceled"}
Fates == {"none", "wire", "lost", "rejected"} \union Outcomes

Init ==
  /\ authorized = {}
  /\ sends = [c \in Candidates |-> 0]
  /\ fate = [c \in Candidates |-> "none"]
  /\ recorded = {}

Authorize(c) ==
  /\ authorized = {}
  /\ authorized' = {c}
  /\ UNCHANGED <<sends, fate, recorded>>

Send(c) ==
  /\ c \in authorized
  /\ \A d \in Candidates : sends[d] = 0
  /\ sends' = [sends EXCEPT ![c] = 1]
  /\ fate' = [fate EXCEPT ![c] = "wire"]
  /\ UNCHANGED <<authorized, recorded>>

Decide(c) ==
  /\ fate[c] = "wire"
  /\ \E f \in Fates \ {"none", "wire"} : fate' = [fate EXCEPT ![c] = f]
  /\ UNCHANGED <<authorized, sends, recorded>>

Record(c) ==
  /\ recorded = {}
  /\ fate[c] \in Outcomes
  /\ recorded' = {<<c, fate[c]>>}
  /\ UNCHANGED <<authorized, sends, fate>>

Next == \E c \in Candidates : Authorize(c) \/ Send(c) \/ Decide(c) \/ Record(c)

Spec == Init /\ [][Next]_vars
=============================================================================
