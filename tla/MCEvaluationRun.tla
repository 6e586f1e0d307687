-------------------------- MODULE MCEvaluationRun --------------------------
(***************************************************************************)
(* Two members and two markets: 68 to 69 degrees, and above 69.            *)
(***************************************************************************)
EXTENDS EvaluationRun, TLC

CONSTANTS m1, m2, r1, r2

MCContract ==
  (1 :> [comparator |-> "RANGE", lower |-> 68000, upper |-> 69000, established |-> FALSE])
  @@ (2 :> [comparator |-> "GT", lower |-> 69000, upper |-> 0, established |-> FALSE])
MCListed == (r1 :> {1, 2}) @@ (r2 :> {1})
MCInitTime == (r1 :> 0) @@ (r2 :> 1)
\* Hourly values of 68.504 degrees, and a second one of 70.52 for m2.
MCEnsembles == {(m1 :> {29343}) @@ (m2 :> {29343, 29455})}
MCQuotes == {[yes |-> 35, no |-> None]}
InvocationSymmetry == Permutations(Invocations)
=============================================================================
