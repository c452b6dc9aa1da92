-------------------------- MODULE MCParallelAgents --------------------------
(* Instances of ParallelAgents for TLC. *)
EXTENDS ParallelAgents

CONSTANTS boss, ann, bob, w1, w2, p1, p2, work

AgentsMC == {boss, ann, bob}
TeamMC == <<ann, bob>>
TargetsMC == {ann}
WorkersMC == {w1, w2}
LeaseOfMC == [a \in {ann, bob} |-> IF a = ann THEN w1 ELSE w2]
ProcessesMC == {p1, p2}
MessagesMC == 1..3
TasksMC == {1, 2}
TaskListsMC == {<<1, 2>>, <<2>>}
LettersMC == {2, 3}
ReportsMC == {"busy", "completed"}
KindsMC == {work}
=============================================================================
