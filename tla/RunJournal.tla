----------------------------- MODULE RunJournal -----------------------------
(***************************************************************************)
(* What the run journal of the forecasting lane promises: a run is started *)
(* once, collects attempts only while it is started, and is closed at most *)
(* once, by a record that lists exactly the attempts it collected.         *)
(***************************************************************************)
CONSTANT Runs

VARIABLES
  status,    \* run_status of every run, "none" before its registration
  entries,   \* the attempts persisted under each run
  listed     \* the attempts its closing record lists

vars == <<status, entries, listed>>

Init ==
  /\ status = [r \in Runs |-> "none"]
  /\ entries = [r \in Runs |-> {}]
  /\ listed = [r \in Runs |-> {}]

Start(r) ==
  /\ status[r] = "none"
  /\ status' = [status EXCEPT ![r] = "STARTED"]
  /\ UNCHANGED <<entries, listed>>

Persist(r) ==
  /\ status[r] = "STARTED"
  /\ \E new \in entries'[r] \ entries[r] :
       entries' = [entries EXCEPT ![r] = entries[r] \union {new}]
  /\ UNCHANGED <<status, listed>>

Close(r) ==
  /\ status[r] = "STARTED"
  /\ \E s \in {"COMPLETED", "FAILED"} : status' = [status EXCEPT ![r] = s]
  /\ listed' = [listed EXCEPT ![r] = entries[r]]
  /\ UNCHANGED entries

Next == \E r \in Runs : Start(r) \/ Persist(r) \/ Close(r)

Spec == Init /\ [][Next]_vars
=============================================================================
