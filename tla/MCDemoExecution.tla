-------------------------- MODULE MCDemoExecution --------------------------
(* Two environments of one intent, under one authorization.                *)
EXTENDS DemoExecution, TLC

CONSTANTS w1, w2, e1, e2, k1

MCAuthOf == (e1 :> k1) @@ (e2 :> k1)
MCOneAuthOf == e1 :> k1
WorkerSymmetry == Permutations(Workers)
=============================================================================
