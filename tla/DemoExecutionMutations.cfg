\* Two workers mutate one order with copies that may be stale.
SPECIFICATION Spec
CONSTANTS
  w1 = w1
  w2 = w2
  e1 = e1
  e2 = e2
  k1 = k1
  NoExecution = NoExecution
  Workers = {w1, w2}
  Executions = {e1}
  Auths = {k1}
  authOf <- MCOneAuthOf
  Mutations = {"CANCEL", "AMEND"}
  Quantity = 2
  MayCrash = FALSE
SYMMETRY WorkerSymmetry
INVARIANTS
  SentIsNeverUnsent
  NoPhantomOutcome
\* Every identifier is single-use: when all are spent nothing is left to do.
CHECK_DEADLOCK FALSE
