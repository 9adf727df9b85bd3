---------------------------- MODULE MCDebugRequests ----------------------------
(* Instances of DebugRequests for TLC: two devices, each with one control stream, *)
(* and one device whose watch ids pass from one digit to two.                     *)
EXTENDS DebugRequests, TLC

CONSTANTS c1, c2, s1, s2, d1, d2

ClientsDef == {c1, c2}
StreamsDef == {s1, s2}
IpOfDef == c1 :> 1 @@ c2 :> 2
DevOfDef == c1 :> d1 @@ c2 :> d2
ClientOfDef == s1 :> c1 @@ s2 :> c2
QueriesDef == {{c1}, {c1, c2}}
RankInOrder == 0 :> 0 @@ 9 :> 1
MoversDef == {c1}
OneClient == {c1}
OneStream == {s1}
OneIp == c1 :> 1
OneDev == c1 :> d1
OneClientOf == s1 :> c1
OneQuery == {{c1}}
\* The names "watch-0" < "watch-10" < "watch-9".
NameRankDef == 0 :> 0 @@ 10 :> 1 @@ 9 :> 2
================================================================================
