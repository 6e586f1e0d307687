\* A new-risk order and a risk-reducing one against every durable safety
\* control: kills, loss holds of both kinds, compliance and the global halt.
\* No hold depends on the time, so the clock stands still; the weekly review is
\* treated as the monthly one.
SPECIFICATION Spec
CONSTANTS
  o1 = o1
  o2 = o2
  o3 = o3
  Orders = {o1, o3}
  Callers = {p1}
  Scopes = {"market", "event", "aggregate"}
  Touched <- MCTouched
  Risk <- MCRisk
  Cap <- MCCap
  Reducing = {o3}
  KillCategories = {"STRATEGY"}
  LossWindows = {"monthly", "experiment"}
  HaltWindows = {"experiment"}
  TTL = 1
  BusyTimeout = 1
  MaxTime = 0
INVARIANTS
  HoldsBindAuthorizations
