\* Two connections, of four and of two frames.
SPECIFICATION Spec
CONSTANTS
  Tickers = {t1, t2}
  MaxEpoch <- MCEpochs
  MaxSeq <- MCSeqs
  Length <- MCLength
  InvalidAt <- MCInvalidAt
SYMMETRY MCSymmetry
INVARIANTS
  TypeOK
  CurrentIsExact
  EvidenceExact
  HealthyIsRecovered
CHECK_DEADLOCK FALSE
