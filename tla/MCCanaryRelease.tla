--------------------------- MODULE MCCanaryRelease ---------------------------
(***************************************************************************)
(* Instances of CanaryRelease for TLC: one approved preview bound twice,   *)
(* to two risk authorizations, and a second preview that reuses the first  *)
(* authorization, so that any two releases compete for the budget and some *)
(* also for an approval or an authorization.                               *)
(***************************************************************************)
EXTENDS CanaryRelease, TLC

CONSTANTS r1, r2, r3, a1, a2, k1, k2

MCApprovalOf == [r \in Releases |-> IF r = r3 THEN a2 ELSE a1]
MCRiskOf     == [r \in Releases |-> IF r = r2 THEN k2 ELSE k1]

OperatorSymmetry == Permutations(Operators)
=============================================================================
