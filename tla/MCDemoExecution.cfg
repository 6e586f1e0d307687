\* Two workers race the submission of two environments of one intent.
SPECIFICATION Spec
CONSTANTS
  w1 = w1
  w2 = w2
  e1 = e1
  e2 = e2
  k1 = k1
  NoExecution = NoExecution
  Workers = {w1, w2}
  Executions = {e1, e2}
  Auths = {k1}
  authOf <- MCAuthOf
  Mutations = {"DECREASE"}
  Quantity = 2
  MayCrash = TRUE
SYMMETRY WorkerSymmetry
INVARIANTS
  RequestSentOnce
  SentIsRecoverable
PROPERTY
  ImplementsIntentOrders
\* Every identifier is single-use: when all are spent nothing is left to do.
CHECK_DEADLOCK FALSE
