--------------------------- MODULE MCBookEvidence ---------------------------
(* Two markets on two connections.                                         *)
EXTENDS BookEvidence, TLC

MCEpochs == 2
MCSeqs == 4
MCLength == <<4, 2>>
MCInvalidAt == {2}
MCSymmetry == Permutations(Tickers)
=============================================================================
