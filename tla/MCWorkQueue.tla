---------------------------- MODULE MCWorkQueue ----------------------------
(* Instances of WorkQueue for TLC. *)
EXTENDS WorkQueue, TLC

CONSTANTS w1, w2, p1, p2, t1, t2, turn, other

WorkersMC == {w1, w2}
OneProcess == {p1}
TwoProcesses == {p1, p2}
OneThread == {t1}
TwoThreads == {t1, t2}
OneKind == {turn}
TwoKinds == {turn, other}
ItemsMC == 1..2

WorkerSymmetry == Permutations(WorkersMC)
=============================================================================
