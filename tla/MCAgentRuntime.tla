--------------------------- MODULE MCAgentRuntime ---------------------------
(* Instances of AgentRuntime for TLC. *)
EXTENDS AgentRuntime, TLC

CONSTANTS w1, w2, t1, t2

WorkersMC == {w1, w2}
ThreadsMC == {t1, t2}
ItemsMC == {1, 2}

\* Two submissions of one thread, and of two threads.
OneThread == (1 :> t1) @@ (2 :> t1)
ThreadEach == (1 :> t1) @@ (2 :> t2)

Solo(w) == [team |-> {w}, threadOf |-> OneThread, beats |-> TRUE,
            userOps |-> {"pause", "resume", "cancel"}, crashes |-> 2]
Pool == [team |-> {w1, w2}, threadOf |-> ThreadEach, beats |-> TRUE,
         userOps |-> {"cancel"}, crashes |-> 1]
Lapsing == [team |-> {w1, w2}, threadOf |-> 1 :> t1, beats |-> FALSE,
            userOps |-> {"cancel"}, crashes |-> 1]
Crowd == [team |-> {w1, w2}, threadOf |-> OneThread, beats |-> TRUE,
          userOps |-> {}, crashes |-> 1]

SafeDeployments == {Solo(w1), Solo(w2), Pool, Lapsing, Crowd}
\* The workers are interchangeable in every one of these, taken together.
Symmetry == Permutations(WorkersMC)

PoolOnly == {Pool}
CrowdOnly == {Crowd}
=============================================================================
