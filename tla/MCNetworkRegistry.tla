-------------------------- MODULE MCNetworkRegistry ----------------------------
(***************************************************************************)
(* Model checking instances of NetworkRegistry: the networks of one auth   *)
(* group, with an address pool that the devices can exhaust.               *)
(***************************************************************************)
EXTENDS NetworkRegistry, TLC

CONSTANTS group

OneGroup == [n \in Networks |-> group]
Symmetry == Permutations(Devices) \cup Permutations(Addrs) \cup Permutations(Networks)
================================================================================
