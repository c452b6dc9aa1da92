-------------------------- MODULE MCDurableThread --------------------------
(* Instances of DurableThread for TLC. *)
EXTENDS DurableThread

CONSTANTS t1, t2, u1, u2, begun, c1, c2

OneThread == {t1}
TwoThreads == {t1, t2}
OneTurn == {u1}
TwoTurns == {u1, u2}
OneClient == {c1}
TwoClients == {c1, c2}
CheckpointsMC == {begun}

\* Thread and turn ids are only compared.
Symmetry == Permutations(TwoThreads) \cup Permutations(TwoTurns)
=============================================================================
