------------------------- MODULE MCRiskAuthorization -------------------------
(***************************************************************************)
(* Instances of RiskAuthorization for TLC.  The scopes are one market, the *)
(* event it shares with another market, and the aggregate, with caps in    *)
(* units of risk small enough that two of the orders exhaust one of them.  *)
(***************************************************************************)
EXTENDS RiskAuthorization, TLC

CONSTANTS o1, o2, o3

\* o1 and o2 share a market, o3 only their event.
MCTouched ==
  [o \in Orders |-> IF o = o3 THEN {"event", "aggregate"}
                              ELSE {"market", "event", "aggregate"}]
MCRisk == [o \in Orders |-> [s \in Scopes |-> IF o = o2 THEN 2 ELSE 1]]
MCCap == ("market" :> 2) @@ ("event" :> 3) @@ ("aggregate" :> 3)

CallerSymmetry == Permutations(Callers)
=============================================================================
