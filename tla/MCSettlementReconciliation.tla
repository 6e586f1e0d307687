--------------------- MODULE MCSettlementReconciliation ---------------------
(***************************************************************************)
(* One evaluation of one market, 68 to 69 degrees, and two reconcilers.    *)
(***************************************************************************)
EXTENDS SettlementReconciliation, TLC

CONSTANTS m1, m2, r1

MCContract ==
  1 :> [comparator |-> "RANGE", lower |-> 68000, upper |-> 69000, established |-> FALSE]
MCListed == r1 :> Tickers
MCInitTime == r1 :> 0
MCEnsembles == {(m1 :> {29343}) @@ (m2 :> {29343, 29455})}
=============================================================================
