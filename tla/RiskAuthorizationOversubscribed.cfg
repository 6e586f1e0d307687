\* Whether consumed orders can exceed the cap of their market together.
SPECIFICATION Spec
CONSTANTS
  o1 = o1
  o2 = o2
  o3 = o3
  Orders = {o1, o2}
  Callers = {p1, p2}
  Scopes = {"market", "event", "aggregate"}
  Touched <- MCTouched
  Risk <- MCRisk
  Cap <- MCCap
  Reducing = {}
  KillCategories = {}
  LossWindows = {}
  HaltWindows = {}
  TTL = 1
  BusyTimeout = 1
  MaxTime = 2
SYMMETRY CallerSymmetry
INVARIANTS
  NoCapOversubscription
