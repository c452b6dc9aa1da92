---------------------------- MODULE MCA2AClients ----------------------------
(* Instances of A2AClients for TLC. *)
EXTENDS A2AClients

CONSTANTS p1, p2, a1, c1

ProcessesMC == {p1, p2}
JournaledMC == {p1}
ArtsMC == {a1}
MaxCallsMC == [tasks |-> 4, bridge |-> 4, feed |-> 3, pages |-> 4]
LimitsMC == {None, 0}
ClientsMC == {c1}
FiltersMC == {None, "submitted"}
=============================================================================
