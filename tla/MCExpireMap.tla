------------------------------ MODULE MCExpireMap ------------------------------
(* Instances of ExpireMap for TLC. *)
EXTENDS ExpireMap
================================================================================
