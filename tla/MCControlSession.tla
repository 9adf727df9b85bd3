--------------------------- MODULE MCControlSession ----------------------------
(***************************************************************************)
(* Model checking instances of ControlSession.                             *)
(***************************************************************************)
EXTENDS ControlSession

CONSTANTS group

OneGroup == [n \in Networks |-> group]
================================================================================
