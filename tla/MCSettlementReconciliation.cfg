\* One evaluation of one market without an order book, two reconcilers.
SPECIFICATION FairLane
CONSTANTS
  m1 = m1
  m2 = m2
  r1 = r1
  Members = {m1, m2}
  Tickers = {1}
  Contract <- MCContract
  MaxAge = 0
  Invocations = {i1}
  Runs = {r1}
  NoRun = NoRun
  InitTime <- MCInitTime
  Listed <- MCListed
  Ensembles <- MCEnsembles
  Quotes = {}
  MaxTime = 1
  Reconcilers = {c1, c2}
  NoAttempt = NoAttempt
  Values = {69000}
INVARIANTS
  ForecastPrecedesSettlement
  SettledAsPublished
  OneOutcome
PROPERTIES
  RunIsClosed
  ReconciliationEnds
\* Every attempt is reconciled once: in the end nothing is left to do.
CHECK_DEADLOCK FALSE
