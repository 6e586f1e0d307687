\* Two invocations of two runs: the same one, or two for one event.
SPECIFICATION Spec
CONSTANTS
  m1 = m1
  m2 = m2
  r1 = r1
  r2 = r2
  Members = {m1, m2}
  Tickers = {1, 2}
  Contract <- MCContract
  MaxAge = 0
  Invocations = {i1, i2}
  Runs = {r1, r2}
  NoRun = NoRun
  InitTime <- MCInitTime
  Listed <- MCListed
  Ensembles <- MCEnsembles
  Quotes <- MCQuotes
  MaxTime = 1
SYMMETRY InvocationSymmetry
INVARIANTS
  TypeOK
  ReadsOnce
  TerminalTellsAll
  EvidenceBeforeDecision
  ReplayReproduces
PROPERTY ImplementsJournal
\* Every run is evaluated once: in the end nothing is left to do.
CHECK_DEADLOCK FALSE
