-------------------------- MODULE MCPunchCoordination --------------------------
(* Instances of PunchCoordination for TLC. *)
EXTENDS PunchCoordination, TLC

Report(trigger, target, direct) ==
    [trigger |-> trigger, target |-> target, direct |-> direct,
     relay |-> FALSE, endpoints |-> TRUE]

\* Reports that start nothing, and one that may.
QuietReports ==
    {Report("route", None, {}), Report("status", None, Addrs),
     [Report("route", None, {}) EXCEPT !.endpoints = FALSE]}

\* Periodic reports without a direct path.
StatusOnly == {Report("status", None, {})}

\* Recovery reports, to one client and to all.
RecoveryReports ==
    {Report("manual", None, {})} \cup {Report("manual", a, {}) : a \in Addrs}

AnyReports == StatusOnly \cup RecoveryReports

AddrSymmetry == Permutations(Addrs)
================================================================================
