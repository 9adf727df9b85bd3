------------------------------ MODULE MCExitNodes ------------------------------
(* Instances of ExitNodes for TLC: two networks that use the same first address. *)
EXTENDS ExitNodes, TLC

CONSTANTS x1, x2, y1, A, B

SlotsDef == {x1, x2, y1}
NetOfDef == x1 :> A @@ x2 :> A @@ y1 :> B
WorkerSymmetry == Permutations(Workers)
IpOfDef == x1 :> 1 @@ x2 :> 2 @@ y1 :> 1
================================================================================
