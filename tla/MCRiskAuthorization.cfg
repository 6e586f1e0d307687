\* Two orders of one market racing for its cap, two callers, a clock that
\* outlives both an authorization and the wait for the write lock.
SPECIFICATION Spec
CONSTANTS
  o1 = o1
  o2 = o2
  o3 = o3
  Orders = {o1, o2}
  Callers = {p1, p2}
  Scopes = {"market", "event", "aggregate"}
  Touched <- MCTouched
  Risk <- MCRisk
  Cap <- MCCap
  Reducing = {}
  KillCategories = {}
  LossWindows = {}
  HaltWindows = {}
  TTL = 1
  BusyTimeout = 1
  MaxTime = 2
SYMMETRY CallerSymmetry
INVARIANTS
  ReservationIffIssued
  ReservedWithinCaps
  NothingIssuedInHalt
  GrantedOnce
PROPERTIES
  TerminalIsFinal
  ConsumedWithinLockWait
  OnlyStaleSnapshotOversubscribes
