------------------------- MODULE AgentRuntimeProofs -------------------------
(***************************************************************************)
(* Proofs about AgentRuntime.tla for any set of items, workers and         *)
(* threads, any step limit and any deployments.                            *)
(***************************************************************************)
EXTENDS AgentRuntime, TLAPS

\* Only the workers of the deployment are ever busy, each with an item that was
\* submitted.
BusyWithItem ==
    \A w \in Workers :
        IF at[w] = "idle" THEN item[w] = None
        ELSE w \in deployment.team /\ item[w] \in Submitted

\* A running thread has a turn.
RunningHasTurn == \A t \in Threads : status[t] = "running" => turn[t] \in TurnIds

TypeInv == TypeOK /\ BusyWithItem /\ RunningHasTurn

LEMMA DeploymentFacts ==
    ASSUME TypeInv
    PROVE  /\ deployment.team \subseteq Workers
           /\ Submitted \subseteq Items
           /\ \A i \in Submitted : ThreadOf[i] \in Threads
           /\ deployment.crashes \in Nat
  BY RuntimeAssumption DEF TypeInv, TypeOK, Submitted, ThreadOf

\* What a worker does by going to a place, by returning, and by doing no more
\* than either, keeps the types.
LEMMA MoveTypes ==
    ASSUME TypeInv, UNCHANGED deployment,
           NEW w \in deployment.team, w \in Workers
    PROVE  /\ \A place \in Locations \ {"idle"} :
                GoTo(w, place) => at' \in [Workers -> Locations]
           /\ \A place \in Locations \ {"idle"} :
                (at[w] # "idle" /\ GoTo(w, place) /\ UNCHANGED item) => BusyWithItem'
           /\ Leave(w) => /\ at' \in [Workers -> Locations]
                          /\ item' \in [Workers -> Items \cup {None}]
                          /\ myTurn' \in [Workers -> TurnIds \cup {None}]
                          /\ steps' \in [Workers -> 0..MaxSteps]
                          /\ limit' \in [Workers -> BOOLEAN]
                          /\ BusyWithItem'
  <1> USE DEF TypeInv, Submitted, ThreadOf
  <1>1. ASSUME NEW place \in Locations \ {"idle"}, GoTo(w, place)
        PROVE  /\ at' \in [Workers -> Locations]
               /\ (at[w] # "idle" /\ UNCHANGED item) => BusyWithItem'
    BY <1>1 DEF TypeOK, BusyWithItem, GoTo
  <1>2. ASSUME Leave(w)
        PROVE  /\ at' \in [Workers -> Locations]
               /\ item' \in [Workers -> Items \cup {None}]
               /\ myTurn' \in [Workers -> TurnIds \cup {None}]
               /\ steps' \in [Workers -> 0..MaxSteps]
               /\ limit' \in [Workers -> BOOLEAN]
    BY <1>2, RuntimeAssumption DEF TypeOK, GoTo, Leave, Locations
  <1>3. Leave(w) => BusyWithItem'
    BY DEF TypeOK, BusyWithItem, GoTo, Leave
  <1>4. QED
    BY <1>1, <1>2, <1>3

LEMMA BranchTypes ==
    ASSUME TypeInv, UNCHANGED deployment,
           NEW w \in deployment.team, w \in Workers, at[w] # "idle",
           NEW place \in Locations \ {"idle"}, Branch(w, place)
    PROVE  TypeInv'
  BY MoveTypes DEF Branch, TypeInv, RunningHasTurn, TypeOK, queueVars, ledgerVars, threadVars, journalVars, localVars,
     history, Queue!TypeOK, Store!TypeOK

LEMMA GiveUpTypes ==
    ASSUME TypeInv, UNCHANGED deployment,
           NEW w \in deployment.team, w \in Workers, GiveUp(w)
    PROVE  TypeInv'
  BY MoveTypes DEF GiveUp, TypeInv, RunningHasTurn, TypeOK, queueVars, ledgerVars, threadVars, journalVars, localVars,
     history, Queue!TypeOK, Store!TypeOK

\* TypeOK holds in every reachable state of every instance.
THEOREM TypeCorrect == Spec => []TypeInv
  <1> USE DEF TypeInv, Queue!TypeOK, Store!TypeOK, Store!Ended
  <1>1. Init => TypeInv
    BY RuntimeAssumption
       DEF Init, TypeOK, BusyWithItem, RunningHasTurn, Queue!Init, Store!Init, Locations, Indices
  <1>2. TypeInv /\ [Next]_vars => TypeInv'
    <2> SUFFICES ASSUME TypeInv, Next, UNCHANGED deployment
                 PROVE  TypeInv'
      BY DEF Next, vars, TypeOK, BusyWithItem, queueVars, ledgerVars, threadVars, journalVars,
             localVars, history, Submitted, ThreadOf, RunningHasTurn
    <2> USE DEF queueVars, ledgerVars, threadVars, journalVars, localVars, history, RunningHasTurn
    <2>1. ASSUME NEW t \in Threads, UserStep(t)
          PROVE  TypeInv'
      BY <2>1 DEF UserStep, TypeOK, BusyWithItem, Submitted, ThreadOf,
                  Store!Create, Store!Pause, Store!Resume, Store!End, Store!SetStatus
    <2>2. ASSUME NEW i \in Items, LogSubmission(i) \/ Enqueue(i) \/ Lapse(i)
          PROVE  TypeInv'
      BY <2>2 DEF LogSubmission, Enqueue, Lapse, Queue!Open, TypeOK, BusyWithItem,
                  Submitted, ThreadOf
    <2>3. ASSUME NEW w \in deployment.team, NEW scope \in SUBSET Threads, Claim(w, scope)
          PROVE  TypeInv'
      BY <2>3, DeploymentFacts DEF Claim, GoTo, Queue!Grant, TypeOK, BusyWithItem, Locations,
                  Submitted, ThreadOf
    <2> SUFFICES ASSUME NEW w \in deployment.team, w \in Workers, WorkerStep(w) \/ Crash(w)
                 PROVE  TypeInv'
      BY <2>1, <2>2, <2>3, DeploymentFacts DEF Next
    <2>0. at[w] # "idle" => /\ MyItem(w) \in Items /\ item[w] = MyItem(w)
                            /\ MyThread(w) \in Threads
      BY DeploymentFacts DEF MyItem, MyThread, BusyWithItem
    <2>4. CASE Inspect(w)
      <3>2. at[w] = "inspect" /\ MyThread(w) \in Threads
        BY <2>0, <2>4 DEF Inspect
      <3>3. \A place \in {"drop", "defer", "open"} : Branch(w, place) => TypeInv'
        BY <3>2, BranchTypes DEF Locations
      <3>4. CASE /\ Recovers(w)
                 /\ \E place \in {"finalize", "run"} : GoTo(w, place)
                 /\ myTurn' = [myTurn EXCEPT ![w] = turn[MyThread(w)]]
                 /\ limit' = [limit EXCEPT ![w] = saved[MyThread(w)].phase = "turn_finished"
                                                    /\ saved[MyThread(w)].limit]
                 /\ UNCHANGED <<queueVars, threadVars, logged, journalVars, item, steps,
                         history, crashes>>
        <4>1. saved[MyThread(w)] \in Checkpoints
          BY <3>2, <3>4 DEF Recovers, TypeOK
        <4>2. limit' \in [Workers -> BOOLEAN]
          BY <3>4, <4>1 DEF TypeOK, Checkpoints
        <4>3. at' \in [Workers -> Locations] /\ BusyWithItem'
          BY <3>2, <3>4, MoveTypes DEF Locations, Running
        <4>4. myTurn' \in [Workers -> TurnIds \cup {None}]
          BY <3>2, <3>4 DEF TypeOK
        <4>5. QED
          BY <3>4, <4>2, <4>3, <4>4 DEF TypeOK
      <3>5. QED
        BY <2>4, <3>3, <3>4 DEF Inspect
    <2>5. CASE Drop(w) \/ Defer(w) \/ Settle(w) \/ Fail(w)
      <3>1. at[w] # "idle" /\ {"fail"} \cup Updating \subseteq Locations \ {"idle"}
        BY <2>5 DEF Drop, Defer, Settle, Fail, Locations, Updating
      <3>2. QED
        BY <2>5, <3>1, BranchTypes, GiveUpTypes DEF Drop, Defer, Settle, Fail, Updating
    <2>6. CASE Update(w)
      <3>0. at[w] # "idle" /\ MyItem(w) \in Items /\ "endThread" \in Locations \ {"idle"}
        BY <2>0, <2>6 DEF Update, Locations
      <3>1. ASSUME NEW p \in {"free", "closed"}, NEW v \in {None, "acked", "failed", "cancelled"},
                   Overwrite(w, p, v)
            PROVE  /\ phase' \in [Items -> {"unknown", "free", "held", "closed"}]
                   /\ holder' \in [Items -> Workers \cup {None}] /\ lapsed' \in SUBSET Items
                   /\ verdict' \in [Items -> {None, "acked", "failed", "cancelled"}]
                   /\ UNCHANGED <<threadVars, logged, journalVars, opened, completed, answered, crashes>>
        BY <3>0, <3>1 DEF Overwrite, TypeOK
      <3>2. CASE Leave(w) /\ UNCHANGED failures
        <4>1. /\ \E p \in {"free", "closed"}, v \in {None, "acked", "failed", "cancelled"} : Overwrite(w, p, v)
          BY <2>6 DEF Update
        <4>2. QED
          BY <3>1, <3>2, <4>1, MoveTypes DEF TypeOK
      <3>3. CASE /\ Overwrite(w, "closed", "failed")
                 /\ failures' = failures \cup {MyItem(w)}
                 /\ GoTo(w, "endThread") /\ UNCHANGED localVars
        <4>1. at' \in [Workers -> Locations] /\ BusyWithItem'
          BY <3>0, <3>3, MoveTypes
        <4>2. failures' \subseteq Items
          BY <3>0, <3>3 DEF TypeOK
        <4>3. QED
          BY <3>1, <3>3, <4>1, <4>2 DEF TypeOK
      <3>4. QED
        BY <2>6, <3>2, <3>3 DEF Update
    <2>7. ASSUME NEW p \in Phases, SaveCheckpoint(w, p), at[w] # "idle",
                 \E place \in Locations \ {"idle"} : GoTo(w, place),
                 UNCHANGED <<queueVars, logged, journalVars, localVars, opened, completed, failures, crashes>>,
                 answered' \subseteq Items
          PROVE  TypeInv'
      <3>1. [phase |-> p, item |-> MyItem(w), limit |-> limit[w]] \in Checkpoints
        BY <2>0, <2>7 DEF TypeOK, Checkpoints
      <3>2. /\ saved' \in [Threads -> Checkpoints \cup {None}]
            /\ UNCHANGED <<status, turn>>
        BY <2>0, <2>7, <3>1 DEF SaveCheckpoint, Store!Checkpoint, TypeOK
      <3>3. at' \in [Workers -> Locations] /\ BusyWithItem'
        BY <2>7, MoveTypes
      <3>4. QED
        BY <2>7, <3>2, <3>3 DEF TypeOK
    <2>8. CASE OpenTurn(w)
      BY <2>7, <2>8, GiveUpTypes DEF OpenTurn, Phases, Locations, TypeOK
    <2>9. CASE MarkStarted(w)
      BY <2>7, <2>9, GiveUpTypes DEF MarkStarted, Phases, Locations, Running, TypeOK
    <2>10. CASE Finish(w)
      <3>1. at[w] = "finish" /\ "complete" \in Locations \ {"idle"} /\ "fail" \in Locations \ {"idle"}
        BY <2>10 DEF Finish, Locations, Running
      <3>2. SaveCheckpoint(w, "turn_finished") /\ answered' = answered \cup {MyItem(w)}
               => answered' \subseteq Items
        BY <2>0, <3>1 DEF TypeOK
      <3>3. QED
        BY <2>7, <2>10, <3>1, <3>2, BranchTypes DEF Finish, Phases
    <2>11. CASE StartTurn(w)
      <3>1. at[w] = "start" /\ MyItem(w) \in Items /\ "mark" \in Locations \ {"idle"}
        BY <2>0, <2>11 DEF StartTurn, Locations
      <3>2. CASE GiveUp(w)
        BY <3>2, GiveUpTypes
      <3>3. CASE ~GiveUp(w)
        <4> DEFINE u == Len(opened) + 1
        <4>1. /\ u \in TurnIds /\ opened' = Append(opened, MyItem(w))
              /\ Store!StartTurn(MyThread(w), u) /\ myTurn' = [myTurn EXCEPT ![w] = u]
              /\ GoTo(w, "mark")
              /\ UNCHANGED <<queueVars, logged, journalVars, item, steps, limit,
                             completed, answered, failures, crashes>>
          BY <2>11, <3>3 DEF StartTurn
        <4>2. opened' \in Seq(Items) /\ Len(opened') <= MaxTurns
          BY <3>1, <4>1, RuntimeAssumption DEF TypeOK, TurnIds
        <4> HIDE DEF u
        <4>3. /\ status' \in [Threads -> {"absent", "ready", "running", "paused"} \cup Store!Ended]
              /\ turn' \in [Threads -> TurnIds \cup {None}] /\ UNCHANGED saved
              /\ RunningHasTurn'
          BY <4>1 DEF Store!StartTurn, Store!SetStatus, TypeOK, RunningHasTurn
        <4>4. myTurn' \in [Workers -> TurnIds \cup {None}]
          BY <4>1 DEF TypeOK
        <4>5. at' \in [Workers -> Locations] /\ BusyWithItem'
          BY <3>1, <4>1, MoveTypes
        <4>6. QED
          BY <4>1, <4>2, <4>3, <4>4, <4>5 DEF TypeOK
      <3>4. QED
        BY <3>2, <3>3
    <2>12. CASE Sample(w)
      <3>1. at' \in [Workers -> Locations] /\ BusyWithItem'
        BY <2>12, MoveTypes DEF Sample, Locations, Running
      <3>2. QED
        <4>1. steps' \in [Workers -> 0..MaxSteps]
          BY <2>12, RuntimeAssumption DEF Sample, MoreSteps, TypeOK
        <4>2. QED
          BY <2>12, <3>1, <4>1 DEF Sample, Queue!Extend, TypeOK, RunningHasTurn
    <2>13. CASE LoseLease(w)
      BY <2>13, BranchTypes DEF LoseLease, Locations
    <2>14. CASE ReachLimit(w)
      <3>1. at' \in [Workers -> Locations] /\ BusyWithItem'
        BY <2>14, MoveTypes DEF ReachLimit, Locations, Running
      <3>2. QED
        BY <2>14, <3>1 DEF ReachLimit, TypeOK
    <2>15. CASE CallTool(w)
      BY <2>15, BranchTypes DEF CallTool, Locations, Running
    <2>16. ASSUME at[w] # "idle", \E place \in Locations \ {"idle"} : GoTo(w, place),
                  UNCHANGED <<queueVars, threadVars, logged, localVars, history, crashes>>,
                  row' \in [Items -> [Indices -> {"absent", "started", "completed"}]],
                  effects' \in [Items -> [Indices -> Nat]]
           PROVE  TypeInv'
      <3>1. at' \in [Workers -> Locations] /\ BusyWithItem'
        BY <2>16, MoveTypes
      <3>2. QED
        BY <2>16, <3>1 DEF TypeOK
    <2>17. CASE Intend(w)
      <3>1. "effect" \in Locations \ {"idle"} /\ "fail" \in Locations \ {"idle"}
        BY DEF Locations, Running
      <3>2. CASE row' = [row EXCEPT ![MyItem(w)][steps[w] - 1] = "started"]
        <4>1. row' \in [Items -> [Indices -> {"absent", "started", "completed"}]]
          BY <3>2 DEF TypeOK
        <4>2. QED
          BY <2>16, <2>17, <3>1, <4>1, BranchTypes DEF Intend, TypeOK
      <3>3. QED
        BY <2>17, <3>1, <3>2, BranchTypes DEF Intend
    <2>18. CASE Effect(w)
      <3>1. effects' \in [Items -> [Indices -> Nat]]
        <4> DEFINE i == MyItem(w)
                   n == steps[w] - 1
        <4>1. effects' = [effects EXCEPT ![i] = [effects[i] EXCEPT ![n] = @ + 1]]
          BY <2>18 DEF Effect
        <4> HIDE DEF i, n
        <4>2. CASE i \in Items /\ n \in Indices
          <5>1. effects[i] \in [Indices -> Nat] /\ effects[i][n] + 1 \in Nat
            BY <4>2 DEF TypeOK
          <5>2. QED
            BY <4>1, <4>2, <5>1 DEF TypeOK
        <4>3. CASE ~(i \in Items /\ n \in Indices)
          BY <4>1, <4>3 DEF TypeOK
        <4>4. QED
          BY <4>2, <4>3
      <3>2. QED
        BY <2>16, <2>18, <3>1 DEF Effect, TypeOK, Locations, Running
    <2>19. CASE Record(w)
      <3>1. "run" \in Locations \ {"idle"} /\ "fail" \in Locations \ {"idle"}
        BY DEF Locations, Running
      <3>2. CASE row' = [row EXCEPT ![MyItem(w)][steps[w] - 1] = "completed"]
        <4>1. row' \in [Items -> [Indices -> {"absent", "started", "completed"}]]
          BY <3>2 DEF TypeOK
        <4>2. QED
          BY <2>16, <2>19, <3>1, <4>1, BranchTypes DEF Record, TypeOK
      <3>3. QED
        BY <2>19, <3>1, <3>2, BranchTypes DEF Record
    <2>20. CASE CompleteTurn(w)
      <3>1. at[w] # "idle" /\ {"fail", "settle", "resettle"} \subseteq Locations \ {"idle"}
        BY <2>20 DEF CompleteTurn, Locations, Running
      <3>2. CASE Store!CompleteTurn(MyThread(w), myTurn[w])
        <4>1. /\ status' \in [Threads -> {"absent", "ready", "running", "paused"} \cup Store!Ended]
              /\ turn' \in [Threads -> TurnIds \cup {None}] /\ UNCHANGED saved
              /\ RunningHasTurn'
          BY <3>2 DEF Store!CompleteTurn, Store!SetStatus, TypeOK, RunningHasTurn
        <4>2. myTurn[w] \in TurnIds
          BY <2>0, <3>1, <3>2 DEF Store!CompleteTurn, RunningHasTurn
        <4>3. CASE Branch(w, "fail") \/ GiveUp(w)
          BY <3>1, <4>3, BranchTypes, GiveUpTypes
        <4>4. CASE /\ completed' = completed \cup {myTurn[w]}
                   /\ \E place \in {"settle", "resettle"} : GoTo(w, place)
                   /\ UNCHANGED <<queueVars, logged, journalVars, localVars, opened, answered,
                                  failures, crashes>>
          <5>1. at' \in [Workers -> Locations] /\ BusyWithItem'
            BY <3>1, <4>4, MoveTypes
          <5>2. QED
            BY <4>1, <4>2, <4>4, <5>1 DEF TypeOK
        <4>5. QED
          BY <2>20, <4>3, <4>4 DEF CompleteTurn
      <3>3. QED
        BY <2>20, <3>1, <3>2, BranchTypes, GiveUpTypes DEF CompleteTurn
    <2>23. CASE EndThread(w)
      BY <2>23, MoveTypes, GiveUpTypes DEF EndThread, Store!End, Store!SetStatus, TypeOK
    <2>24. CASE Crash(w)
      BY <2>24, MoveTypes, DeploymentFacts DEF Crash, TypeOK
    <2>25. QED
      BY <2>4, <2>5, <2>6, <2>8, <2>9, <2>10, <2>11, <2>12, <2>13, <2>14, <2>15, <2>17, <2>18,
         <2>19, <2>20, <2>23, <2>24 DEF WorkerStep
  <1>3. QED
    BY <1>1, <1>2, PTL DEF Spec

(* The turns of a thread belong to the items it was checkpointed for *)

InTurn == Running \cup {"mark", "finalize", "resettle", "markAcked"}
Writing == Running \cup {"open", "start", "mark"}

\* The last checkpoint of a running thread names the item of its turn; whoever
\* is about to write a checkpoint on a running thread writes the same name.
TurnInv ==
    /\ \A t \in Threads : status[t] = "running" =>
        /\ turn[t] \in 1..Len(opened)
        /\ saved[t] \in Checkpoints /\ saved[t].item = opened[turn[t]]
    /\ \A w \in Workers :
        /\ (at[w] \in Writing /\ status[MyThread(w)] = "running") =>
               opened[turn[MyThread(w)]] = item[w]
        /\ at[w] = "start" =>
               saved[MyThread(w)] \in Checkpoints /\ saved[MyThread(w)].item = item[w]
        /\ at[w] \in InTurn =>
               myTurn[w] \in 1..Len(opened) /\ opened[myTurn[w]] = item[w]

LEMMA SameItem ==
    ASSUME TypeInv, Orderly, NEW v \in Workers, NEW w \in Workers,
           at[v] # "idle", at[w] # "idle", MyThread(v) = MyThread(w)
    PROVE  item[v] = item[w]
  BY DEF TypeInv, BusyWithItem, Orderly, MyThread

LEMMA TurnInvInvariant == Spec => [](Orderly => TurnInv)
  <1>1. Init => TurnInv
    BY DEF Init, TurnInv, Store!Init, Running, InTurn, Writing
  <1>2. TypeInv /\ (Orderly => TurnInv) /\ [Next]_vars => (Orderly => TurnInv)'
    <2> USE DEF queueVars, ledgerVars, threadVars, journalVars, localVars, history
    <2> SUFFICES ASSUME TypeInv, TurnInv, Orderly, Next, UNCHANGED deployment
                 PROVE  TurnInv'
      BY DEF Next, vars, TurnInv, Submitted, ThreadOf, Orderly, MyThread
    <2> USE DEF TypeInv, TypeOK, Store!TypeOK, Submitted, ThreadOf
    <2>0. \A w \in Workers : at[w] # "idle" =>
              /\ item[w] \in Items /\ item[w] \in Submitted /\ MyThread(w) \in Threads
              /\ MyThread(w) = ThreadOf[item[w]] /\ MyItem(w) = item[w]
      BY DeploymentFacts DEF BusyWithItem, MyThread, MyItem
    <2>frame. ASSUME UNCHANGED <<opened, saved>>,
                     \A t \in Threads : status'[t] = "running" =>
                         status[t] = "running" /\ turn'[t] = turn[t],
                     \A v \in Workers : at'[v] \in Writing \cup InTurn =>
                         /\ item'[v] = item[v] /\ myTurn'[v] = myTurn[v] /\ at[v] # "idle"
                         /\ at'[v] \in Writing =>
                                at[v] \in Writing \/ status[MyThread(v)] # "running"
                         /\ at'[v] = "start" => at[v] = "start"
                         /\ at'[v] \in InTurn => at[v] \in InTurn
              PROVE  TurnInv'
      <3>1. \A t \in Threads : status'[t] = "running" =>
               /\ turn'[t] \in 1..Len(opened')
               /\ saved'[t] \in Checkpoints /\ saved'[t].item = opened'[turn'[t]]
        BY <2>frame DEF TurnInv
      <3>2. ASSUME NEW v \in Workers, at'[v] \in Writing \cup InTurn
            PROVE  /\ (at'[v] \in Writing /\ status'[ThreadOf[item'[v]]] = "running") =>
                         opened'[turn'[ThreadOf[item'[v]]]] = item'[v]
                   /\ at'[v] = "start" => /\ saved'[ThreadOf[item'[v]]] \in Checkpoints
                                          /\ saved'[ThreadOf[item'[v]]].item = item'[v]
                   /\ at'[v] \in InTurn =>
                         myTurn'[v] \in 1..Len(opened') /\ opened'[myTurn'[v]] = item'[v]
        BY <2>0, <2>frame, <3>2 DEF TurnInv, MyThread
      <3>3. QED
        BY <3>1, <3>2 DEF TurnInv, MyThread, Writing
    <2>1. ASSUME NEW t \in Threads, UserStep(t)
          PROVE  TurnInv'
      <3>1. /\ \A u \in Threads : status'[u] = "running" =>
                  status[u] = "running" /\ turn'[u] = turn[u]
            /\ UNCHANGED saved
        BY <2>1 DEF UserStep, Store!Create, Store!Pause, Store!Resume, Store!End, Store!SetStatus
      <3>2. QED
        BY <2>1, <2>frame, <3>1 DEF UserStep, Writing, InTurn, Running
    <2>2. ASSUME NEW i \in Items, LogSubmission(i) \/ Enqueue(i) \/ Lapse(i)
          PROVE  TurnInv'
      BY <2>2, <2>frame DEF LogSubmission, Enqueue, Lapse, Writing, InTurn, Running
    <2>3. ASSUME NEW w \in deployment.team, NEW scope \in SUBSET Threads, Claim(w, scope)
          PROVE  TurnInv'
      <3>1. \A v \in Workers : at'[v] \in Writing \cup InTurn => v # w
        BY <2>3 DEF Claim, GoTo, Writing, InTurn, Running
      <3>2. \A v \in Workers : v # w => item'[v] = item[v] /\ at'[v] = at[v]
        BY <2>3 DEF Claim, GoTo
      <3>3. QED
        BY <2>3, <2>frame, <3>1, <3>2 DEF Claim, Writing, InTurn, Running
    <2> SUFFICES ASSUME NEW w \in deployment.team, w \in Workers, WorkerStep(w) \/ Crash(w)
                 PROVE  TurnInv'
      BY <2>1, <2>2, <2>3, DeploymentFacts DEF Next
    <2>go. ASSUME NEW place \in Locations, GoTo(w, place), at[w] # "idle",
                  place \in Writing =>
                      at[w] \in Writing \/ status[MyThread(w)] # "running",
                  place \in InTurn => at[w] \in InTurn, place # "start",
                  \A t \in Threads : status'[t] = "running" =>
                      status[t] = "running" /\ turn'[t] = turn[t],
                  UNCHANGED <<opened, saved, item, myTurn>>
           PROVE  TurnInv'
      BY <2>frame, <2>go DEF GoTo, Writing, InTurn, Running
    <2>leave. ASSUME Leave(w), UNCHANGED <<opened, saved>>,
                     \A t \in Threads : status'[t] = "running" =>
                         status[t] = "running" /\ turn'[t] = turn[t]
              PROVE  TurnInv'
      BY <2>frame, <2>leave DEF Leave, GoTo, Writing, InTurn, Running
    <2>give. GiveUp(w) => TurnInv'
      BY <2>leave DEF GiveUp
    <2>fail. (at[w] # "idle" /\ Branch(w, "fail")) => TurnInv'
      BY <2>go DEF Branch, Locations, Writing, InTurn, Running
    <2>4. CASE Inspect(w)
      <3>1. CASE \E place \in {"drop", "defer"} : Branch(w, place)
        BY <2>4, <2>go, <3>1 DEF Inspect, Branch, Locations, Writing, InTurn, Running
      <3>2. CASE status[MyThread(w)] = "ready" /\ Branch(w, "open")
        BY <2>4, <2>go, <3>2 DEF Inspect, Branch, Locations, Writing, InTurn, Running
      <3>3. CASE /\ status[MyThread(w)] = "running" /\ Recovers(w)
                 /\ \E place \in {"finalize", "run"} : GoTo(w, place)
                 /\ myTurn' = [myTurn EXCEPT ![w] = turn[MyThread(w)]]
                 /\ UNCHANGED <<threadVars, item, opened>>
        <4>1. /\ MyThread(w) \in Threads /\ MyThread(w) = ThreadOf[item[w]]
              /\ saved[MyThread(w)] \in Checkpoints /\ saved[MyThread(w)].item = item[w]
          BY <2>0, <2>4, <3>3 DEF Inspect, Recovers, MyItem
        <4>2. /\ turn[MyThread(w)] \in 1..Len(opened)
              /\ opened[turn[MyThread(w)]] = item[w]
          BY <3>3, <4>1 DEF TurnInv
        <4>3. /\ at'[w] \in {"finalize", "run"} /\ item'[w] = item[w]
              /\ myTurn'[w] = turn[MyThread(w)]
              /\ \A v \in Workers \ {w} : at'[v] = at[v] /\ item'[v] = item[v] /\ myTurn'[v] = myTurn[v]
          BY <3>3 DEF GoTo
        <4>4. QED
          BY <3>3, <4>1, <4>2, <4>3, ZenonT(30) DEF TurnInv, MyThread
      <3>4. QED
        BY <2>4, <3>1, <3>2, <3>3 DEF Inspect
    <2>5. CASE Drop(w) \/ Defer(w)
      BY <2>5, <2>go, <2>give DEF Drop, Defer, Branch, Locations, Updating, Writing, InTurn, Running
    <2>6. ASSUME NEW p \in Phases, NEW place \in Locations, SaveCheckpoint(w, p),
                 at[w] \in Writing, GoTo(w, place), place \in Writing,
                 place \in InTurn => at[w] \in InTurn,
                 UNCHANGED <<item, myTurn, opened>>
          PROVE  TurnInv'
      <3> DEFINE t == MyThread(w)
                 c == [phase |-> p, item |-> MyItem(w), limit |-> limit[w]]
      <3>1. at[w] # "idle" /\ t \in Threads /\ item[w] \in Items /\ MyItem(w) = item[w]
        BY <2>0, <2>6 DEF Writing, Running
      <3>2. c \in Checkpoints /\ c.item = item[w]
        BY <3>1 DEF Checkpoints
      <3>3. saved' = [saved EXCEPT ![t] = c] /\ UNCHANGED <<status, turn>>
        BY <2>6 DEF SaveCheckpoint, Store!Checkpoint
      <3>4. ASSUME NEW v \in Workers, at[v] # "idle", MyThread(v) = t
            PROVE  item[v] = item[w]
        BY <3>1, <3>4, SameItem
      <3> HIDE DEF c, t
      <3>5. ASSUME NEW u \in Threads, status[u] = "running"
            PROVE  saved'[u] \in Checkpoints /\ saved'[u].item = opened[turn[u]]
        <4>1. CASE u = t
          BY <2>6, <3>1, <3>2, <3>3, <3>5, <4>1 DEF TurnInv, t
        <4>2. CASE u # t
          BY <3>3, <3>5, <4>2 DEF TurnInv
        <4>3. QED
          BY <4>1, <4>2
      <3>6. ASSUME NEW v \in Workers, at'[v] = "start"
            PROVE  saved'[MyThread(v)] \in Checkpoints /\ saved'[MyThread(v)].item = item[v]
        <4>1. at[v] # "idle" /\ (v = w \/ at[v] = "start")
          BY <2>6, <3>1, <3>6 DEF GoTo
        <4>2. CASE MyThread(v) = t
          BY <3>1, <3>2, <3>3, <3>4, <4>1, <4>2
        <4>3. CASE MyThread(v) # t
          BY <3>3, <4>1, <4>3 DEF TurnInv, t
        <4>4. QED
          BY <4>2, <4>3
      <3>7. \A v \in Workers : at'[v] = at[v] \/ (v = w /\ at'[v] = place)
        BY <2>6 DEF GoTo
      <3>8. QED
        BY <2>6, <3>3, <3>5, <3>6, <3>7 DEF TurnInv, MyThread
    <2>7. CASE OpenTurn(w) \/ MarkStarted(w)
      BY <2>6, <2>7, <2>give
         DEF OpenTurn, MarkStarted, Phases, Locations, Writing, InTurn, Running
    <2>8. CASE Finish(w)
      BY <2>6, <2>8, <2>fail DEF Finish, Phases, Locations, Writing, InTurn, Running
    <2>9. CASE StartTurn(w)
      <3>1. CASE GiveUp(w)
        BY <2>give, <3>1
      <3>2. CASE ~GiveUp(w)
        <4> DEFINE u == Len(opened) + 1
                   t == MyThread(w)
        <4>1. /\ at[w] = "start" /\ Store!StartTurn(t, u) /\ opened' = Append(opened, MyItem(w))
              /\ myTurn' = [myTurn EXCEPT ![w] = u] /\ GoTo(w, "mark") /\ UNCHANGED item
          BY <2>9, <3>2 DEF StartTurn
        <4>2. /\ item[w] \in Items /\ t \in Threads /\ MyItem(w) = item[w]
              /\ saved[t] \in Checkpoints /\ saved[t].item = item[w]
          BY <2>0, <4>1 DEF TurnInv
        <4>3. /\ \A n \in 1..Len(opened) : n \in 1..Len(opened') /\ opened'[n] = opened[n]
              /\ u \in 1..Len(opened') /\ opened'[u] = item[w]
          BY <4>1, <4>2
        <4> HIDE DEF u, t
        <4>4. /\ status' = [status EXCEPT ![t] = "running"] /\ turn' = [turn EXCEPT ![t] = u]
              /\ UNCHANGED saved
          BY <4>1 DEF Store!StartTurn, Store!SetStatus
        <4>5. ASSUME NEW v \in Workers, at[v] # "idle", MyThread(v) = t
              PROVE  item[v] = item[w]
          BY <4>1, <4>5, SameItem DEF t
        <4>6. \A s \in Threads : status'[s] = "running" =>
                /\ turn'[s] \in 1..Len(opened')
                /\ saved'[s] \in Checkpoints /\ saved'[s].item = opened'[turn'[s]]
          BY <4>2, <4>3, <4>4 DEF TurnInv
        <4>7. \A v \in Workers : /\ at'[v] = at[v] \/ (v = w /\ at'[v] = "mark")
                                 /\ myTurn'[v] = myTurn[v] \/ (v = w /\ myTurn'[v] = u)
                                 /\ v = w => at'[v] = "mark" /\ myTurn'[v] = u
          BY <4>1 DEF GoTo
        <4>8. ASSUME NEW v \in Workers, at'[v] \in Writing, status'[MyThread(v)] = "running"
              PROVE  opened'[turn'[MyThread(v)]] = item[v]
          <5>1. at[v] # "idle" /\ MyThread(v) \in Threads
            BY <2>0, <4>1, <4>7, <4>8 DEF Writing, Running
          <5>2. CASE MyThread(v) = t
            BY <4>2, <4>3, <4>4, <4>5, <5>1, <5>2
          <5>3. CASE MyThread(v) # t
            <6>1. at[v] \in Writing /\ status[MyThread(v)] = "running" /\ turn'[MyThread(v)] = turn[MyThread(v)]
              BY <4>4, <4>7, <4>8, <5>1, <5>3 DEF t
            <6>2. QED
              BY <4>3, <5>1, <6>1 DEF TurnInv
          <5>4. QED
            BY <5>2, <5>3
        <4>9. ASSUME NEW v \in Workers, at'[v] \in InTurn
              PROVE  myTurn'[v] \in 1..Len(opened') /\ opened'[myTurn'[v]] = item[v]
          BY <4>3, <4>7, <4>9 DEF TurnInv
        <4>10. \A v \in Workers : at'[v] = "start" =>
                  saved'[MyThread(v)] \in Checkpoints /\ saved'[MyThread(v)].item = item[v]
          BY <4>4, <4>7 DEF TurnInv
        <4>11. QED
          BY <4>1, <4>6, <4>8, <4>9, <4>10 DEF TurnInv, MyThread
      <3>3. QED
        BY <3>1, <3>2
    <2>10. CASE Sample(w) \/ ReachLimit(w) \/ Effect(w)
      BY <2>10, <2>go DEF Sample, ReachLimit, Effect, Locations, Writing, InTurn, Running
    <2>11. CASE LoseLease(w) \/ CallTool(w)
      BY <2>11, <2>go DEF LoseLease, CallTool, Branch, Locations, Writing, InTurn, Running
    <2>12. CASE Intend(w) \/ Record(w)
      BY <2>12, <2>go DEF Intend, Record, Branch, Locations, Writing, InTurn, Running
    <2>13. CASE CompleteTurn(w)
      <3>1. CASE Branch(w, "fail") \/ GiveUp(w)
        BY <2>13, <2>fail, <2>give, <3>1 DEF CompleteTurn
      <3>2. CASE Store!CompleteTurn(MyThread(w), myTurn[w]) /\ ~Branch(w, "fail") /\ ~GiveUp(w)
        <4>1. /\ \A t \in Threads : status'[t] = "running" =>
                    status[t] = "running" /\ turn'[t] = turn[t]
              /\ UNCHANGED saved
          BY <3>2 DEF Store!CompleteTurn, Store!SetStatus
        <4>2. QED
          BY <2>13, <2>go, <3>2, <4>1 DEF CompleteTurn, Locations, Writing, InTurn, Running
      <3>3. QED
        BY <2>13, <3>1, <3>2 DEF CompleteTurn
    <2>14. CASE Settle(w) \/ Fail(w)
      BY <2>14, <2>go, <2>give
         DEF Settle, Fail, Branch, Locations, Updating, Writing, InTurn, Running
    <2>18. CASE Update(w)
      <3>1. UNCHANGED <<opened, threadVars>> /\ at[w] # "idle"
        BY <2>18 DEF Update, Overwrite
      <3>2. CASE Leave(w)
        BY <2>leave, <3>1, <3>2
      <3>3. CASE GoTo(w, "endThread") /\ UNCHANGED localVars
        BY <2>go, <3>1, <3>3 DEF Locations, Writing, InTurn, Running
      <3>4. QED
        BY <2>18, <3>2, <3>3 DEF Update
    <2>15. CASE EndThread(w)
      <3>1. CASE Store!End(MyThread(w), "failed")
        <4>1. /\ \A t \in Threads : status'[t] = "running" =>
                    status[t] = "running" /\ turn'[t] = turn[t]
              /\ UNCHANGED saved
          BY <3>1 DEF Store!End, Store!SetStatus
        <4>2. QED
          BY <2>15, <2>leave, <2>give, <4>1 DEF EndThread
      <3>2. QED
        BY <2>15, <2>give, <3>1 DEF EndThread
    <2>16. CASE Crash(w)
      BY <2>16, <2>leave DEF Crash
    <2>17. QED
      BY <2>4, <2>5, <2>7, <2>8, <2>9, <2>10, <2>11, <2>12, <2>13, <2>14, <2>15, <2>16, <2>18
         DEF WorkerStep
  <1>3. QED
    BY <1>1, <1>2, TypeCorrect, PTL DEF Spec

\* A worker inside a turn runs the turn of its own item: a recovered turn is never
\* continued on behalf of another submission, in any orderly deployment.
THEOREM TurnsAnswerTheirItems == Spec => []TurnAnswersItsItem
  <1>1. (Orderly => TurnInv) => TurnAnswersItsItem
    BY DEF TurnInv, TurnAnswersItsItem, InTurn
  <1>2. QED
    BY <1>1, TurnInvInvariant, PTL

Closing == {"complete", "settle", "finalize", "resettle", "markAcked"}

\* Who is about to close an item has checkpointed its answer, or found that
\* checkpoint, and completed the turn before.
AnswerInv ==
    /\ \A t \in Threads : (saved[t] # None /\ saved[t].phase = "turn_finished") =>
        saved[t].item \in answered
    /\ \A w \in Workers :
        /\ at[w] \in Closing => item[w] \in answered
        /\ at[w] \in {"settle", "resettle", "markAcked"} => myTurn[w] \in completed
    /\ completed \subseteq 1..Len(opened)
    /\ AckedMeansAnswered

\* An acknowledged item has a completed turn of its own, whose outcome was
\* checkpointed first, in any orderly deployment: whatever crashes, run_one never
\* lets the queue run ahead of the thread.
THEOREM AcksFollowAnswers == Spec => []AckedMeansAnswered
  <1>1. Init => AnswerInv
    BY RuntimeAssumption
       DEF Init, AnswerInv, AckedMeansAnswered, Queue!Init, Store!Init, Closing, Checkpoints
  <1>2. TypeInv /\ (Orderly => TurnInv) /\ (Orderly => AnswerInv) /\ [Next]_vars
        => (Orderly => AnswerInv)'
    <2> USE DEF queueVars, ledgerVars, threadVars, journalVars, localVars, history
    <2> SUFFICES ASSUME TypeInv, Orderly, TurnInv, AnswerInv, Next, UNCHANGED deployment
                 PROVE  AnswerInv'
      BY DEF Next, vars, AnswerInv, AckedMeansAnswered, Submitted, ThreadOf, Orderly
    <2> USE DEF TypeInv, TypeOK, Store!TypeOK
    <2>0. \A w \in Workers : at[w] # "idle" =>
              item[w] \in Items /\ MyThread(w) \in Threads /\ MyItem(w) = item[w]
      BY DeploymentFacts DEF BusyWithItem, MyThread, MyItem
    <2>frame. ASSUME answered \subseteq answered', completed \subseteq completed',
                     completed' \subseteq 1..Len(opened'),
                     \A n \in 1..Len(opened) : opened'[n] = opened[n],
                     \A t \in Threads : \/ saved'[t] = saved[t]
                                        \/ saved'[t].phase = "turn_finished" =>
                                               saved'[t].item \in answered',
                     \A v \in Workers : at'[v] \in Closing => item'[v] \in answered',
                     \A v \in Workers : at'[v] \in {"settle", "resettle", "markAcked"} => myTurn'[v] \in completed',
                     \A i \in Items : verdict'[i] = "acked" =>
                        \/ verdict[i] = "acked"
                        \/ i \in answered' /\ \E u \in completed' : opened'[u] = i
              PROVE  AnswerInv'
      <3>1. \A t \in Threads : (saved'[t] # None /\ saved'[t].phase = "turn_finished") =>
                saved'[t].item \in answered'
        BY <2>frame DEF AnswerInv
      <3>2. AckedMeansAnswered'
        <4> SUFFICES ASSUME NEW i \in Items, verdict'[i] = "acked"
                     PROVE  i \in answered' /\ \E u \in completed' : opened'[u] = i
          BY DEF AckedMeansAnswered, Submitted, ThreadOf
        <4>1. CASE i \in answered' /\ \E u \in completed' : opened'[u] = i
          BY <4>1
        <4>2. CASE verdict[i] = "acked"
          <5>1. PICK u \in completed : opened[u] = i
            BY <4>2 DEF AnswerInv, AckedMeansAnswered
          <5>2. i \in answered
            BY <4>2 DEF AnswerInv, AckedMeansAnswered
          <5>3. u \in completed' /\ opened'[u] = i /\ i \in answered'
            BY <2>frame, <5>1, <5>2 DEF AnswerInv
          <5>4. QED
            BY <5>3
        <4>3. QED
          BY <2>frame, <4>1, <4>2
      <3>3. QED
        BY <2>frame, <3>1, <3>2 DEF AnswerInv
    <2>still. ASSUME UNCHANGED <<saved, history>>,
                     \A v \in Workers : at'[v] \in Closing =>
                        at'[v] = at[v] /\ item'[v] = item[v] /\ myTurn'[v] = myTurn[v],
                     \A i \in Items : verdict'[i] = "acked" => verdict[i] = "acked"
              PROVE  AnswerInv'
      BY <2>frame, <2>still DEF AnswerInv, Closing
    <2>1. ASSUME NEW t \in Threads, UserStep(t)
          PROVE  AnswerInv'
      <3>1. UNCHANGED saved
        BY <2>1 DEF UserStep, Store!Create, Store!Pause, Store!Resume, Store!End
      <3>2. QED
        BY <2>1, <2>still, <3>1 DEF UserStep
    <2>2. ASSUME NEW i \in Items, LogSubmission(i) \/ Enqueue(i) \/ Lapse(i)
          PROVE  AnswerInv'
      BY <2>2, <2>still DEF LogSubmission, Enqueue, Lapse
    <2>3. ASSUME NEW w \in deployment.team, NEW scope \in SUBSET Threads, Claim(w, scope)
          PROVE  AnswerInv'
      <3>1. \A v \in Workers : at'[v] \in Closing =>
               at'[v] = at[v] /\ item'[v] = item[v]
        BY <2>3 DEF Claim, GoTo, Closing
      <3>2. QED
        BY <2>3, <2>still, <3>1 DEF Claim
    <2> SUFFICES ASSUME NEW w \in deployment.team, w \in Workers, WorkerStep(w) \/ Crash(w)
                 PROVE  AnswerInv'
      BY <2>1, <2>2, <2>3, DeploymentFacts DEF Next
    <2>go. ASSUME NEW place \in Locations \ Closing, GoTo(w, place),
                  UNCHANGED <<saved, history, item, verdict>>,
                  \A v \in Workers : v # w => myTurn'[v] = myTurn[v]
           PROVE  AnswerInv'
      BY <2>still, <2>go DEF GoTo, Closing
    <2>leave. ASSUME Leave(w), UNCHANGED <<saved, history>>,
                     \A i \in Items : verdict'[i] = "acked" => verdict[i] = "acked"
              PROVE  AnswerInv'
      BY <2>still, <2>leave DEF Leave, GoTo, Closing
    <2>give. GiveUp(w) => AnswerInv'
      BY <2>leave DEF GiveUp
    <2>fail. Branch(w, "fail") => AnswerInv'
      BY <2>go DEF Branch, Locations, Closing
    <2>4. CASE Inspect(w)
      <3>1. CASE \E place \in {"drop", "defer", "open"} : Branch(w, place)
        BY <2>go, <3>1 DEF Branch, Locations, Closing
      <3>2. CASE /\ status[MyThread(w)] = "running" /\ Recovers(w)
                 /\ GoTo(w, IF saved[MyThread(w)].phase = "turn_finished" THEN "finalize" ELSE "run")
                 /\ myTurn' = [myTurn EXCEPT ![w] = turn[MyThread(w)]]
                 /\ UNCHANGED <<saved, history, item, verdict>>
        <4>1. CASE saved[MyThread(w)].phase # "turn_finished"
          BY <2>go, <3>2, <4>1 DEF Locations, Running, Closing
        <4>2. CASE saved[MyThread(w)].phase = "turn_finished"
          <5>1. item[w] \in answered
            BY <2>0, <2>4, <3>2, <4>2 DEF Inspect, Recovers, AnswerInv
          <5>2. \A v \in Workers : at'[v] \in Closing => item'[v] \in answered'
            BY <3>2, <5>1 DEF GoTo, AnswerInv
          <5>3. \A v \in Workers : at'[v] \in {"settle", "resettle", "markAcked"} => myTurn'[v] \in completed'
            BY <3>2, <4>2 DEF GoTo, AnswerInv
          <5>4. QED
            BY <2>frame, <3>2, <5>2, <5>3 DEF AnswerInv
        <4>3. QED
          BY <4>1, <4>2
      <3>3. QED
        BY <2>4, <3>1, <3>2 DEF Inspect
    <2>5. CASE Drop(w) \/ Defer(w) \/ Fail(w)
      BY <2>5, <2>go, <2>give DEF Drop, Defer, Fail, Branch, Locations, Updating, Closing
    <2>7. CASE OpenTurn(w) \/ MarkStarted(w) \/ Finish(w)
      <3>1. CASE GiveUp(w) \/ Branch(w, "fail")
        BY <2>give, <2>fail, <3>1
      <3>2. CASE \E p \in Phases : /\ SaveCheckpoint(w, p)
                                   /\ \/ /\ p # "turn_finished" /\ UNCHANGED answered
                                         /\ \E place \in Locations \ Closing : GoTo(w, place)
                                      \/ /\ answered' = answered \cup {MyItem(w)}
                                         /\ GoTo(w, "complete")
                                   /\ UNCHANGED <<queueVars, localVars, opened, completed, failures>>
        <4>1. PICK p \in Phases : /\ SaveCheckpoint(w, p)
                                  /\ \/ /\ p # "turn_finished" /\ UNCHANGED answered
                                        /\ \E place \in Locations \ Closing : GoTo(w, place)
                                     \/ /\ answered' = answered \cup {MyItem(w)}
                                        /\ GoTo(w, "complete")
                                  /\ UNCHANGED <<queueVars, localVars, opened, completed, failures>>
          BY <3>2
        <4>2. \A t \in Threads : \/ saved'[t] = saved[t]
                                 \/ saved'[t].phase = p /\ saved'[t].item = MyItem(w)
          BY <4>1 DEF SaveCheckpoint, Store!Checkpoint
        <4>3. /\ \A v \in Workers : at'[v] \in Closing => at'[v] = at[v] \/ (v = w /\ at'[v] = "complete")
              /\ at'[w] \in Closing => answered' = answered \cup {MyItem(w)}
          BY <4>1 DEF GoTo
        <4>4. at[w] # "idle" /\ MyItem(w) = item[w]
          BY <2>0, <2>7 DEF OpenTurn, MarkStarted, Finish
        <4>5. QED
          <5>1. \A t \in Threads : \/ saved'[t] = saved[t]
                                   \/ saved'[t].phase = "turn_finished" => saved'[t].item \in answered'
            BY <4>1, <4>2
          <5>2. /\ answered \subseteq answered' /\ completed' \subseteq 1..Len(opened')
                /\ UNCHANGED <<completed, opened, verdict, item, myTurn>>
            BY <4>1 DEF AnswerInv
          <5>3. \A v \in Workers : at'[v] \in Closing => item'[v] \in answered'
            BY <4>3, <4>4, <5>2 DEF AnswerInv
          <5>4. \A v \in Workers : at'[v] \in {"settle", "resettle", "markAcked"} => myTurn'[v] \in completed'
            BY <4>3, <5>2 DEF AnswerInv, Closing
          <5>5. QED
            BY <2>frame, <5>1, <5>2, <5>3, <5>4
      <3>3. QED
        BY <2>7, <3>1, <3>2
           DEF OpenTurn, MarkStarted, Finish, Phases, Locations, Running, Closing
    <2>8. CASE StartTurn(w)
      <3>1. CASE GiveUp(w)
        BY <2>give, <3>1
      <3>2. CASE ~GiveUp(w)
        <4>1. /\ opened' = Append(opened, MyItem(w)) /\ GoTo(w, "mark") /\ MyItem(w) \in Items
              /\ UNCHANGED <<saved, answered, completed, verdict, item>>
              /\ \A v \in Workers : v # w => myTurn'[v] = myTurn[v]
          BY <2>0, <2>8, <3>2 DEF StartTurn, Store!StartTurn
        <4>2. /\ 1..Len(opened) \subseteq 1..Len(opened')
              /\ \A n \in 1..Len(opened) : opened'[n] = opened[n]
          BY <4>1
        <4>3. \A v \in Workers : at'[v] \in Closing => at'[v] = at[v] /\ v # w
          BY <4>1 DEF GoTo, Closing
        <4>4. QED
          BY <2>frame, <4>1, <4>2, <4>3 DEF AnswerInv, Closing
      <3>3. QED
        BY <3>1, <3>2
    <2>9. CASE Sample(w) \/ ReachLimit(w) \/ Effect(w)
      BY <2>9, <2>go DEF Sample, ReachLimit, Effect, Locations, Running, Closing
    <2>10. CASE LoseLease(w) \/ CallTool(w)
      BY <2>10, <2>go DEF LoseLease, CallTool, Branch, Locations, Running, Closing
    <2>11. CASE Intend(w) \/ Record(w)
      BY <2>11, <2>go DEF Intend, Record, Branch, Locations, Running, Closing
    <2>12. CASE CompleteTurn(w)
      <3>1. CASE Branch(w, "fail") \/ GiveUp(w)
        BY <2>fail, <2>give, <3>1
      <3>2. CASE ~Branch(w, "fail") /\ ~GiveUp(w)
        <4>1. /\ at[w] \in {"complete", "finalize"} /\ UNCHANGED <<saved, opened, answered, verdict, item, myTurn>>
              /\ completed' = completed \cup {myTurn[w]}
              /\ \A v \in Workers : at'[v] = at[v] \/ v = w
          BY <2>12, <3>2 DEF CompleteTurn, Store!CompleteTurn, GoTo
        <4>2. myTurn[w] \in 1..Len(opened)
          BY <4>1 DEF TurnInv, InTurn, Running
        <4>3. \A v \in Workers : at'[v] \in Closing => item'[v] \in answered'
          BY <4>1 DEF AnswerInv, Closing
        <4>4. QED
          BY <2>frame, <4>1, <4>2, <4>3 DEF AnswerInv
      <3>3. QED
        BY <3>1, <3>2
    <2>13. CASE Settle(w)
      <3>1. CASE Branch(w, "fail") \/ GiveUp(w) \/ Branch(w, "markFailed")
        BY <2>go, <2>fail, <2>give, <3>1 DEF Branch, Locations, Updating, Closing
      <3>2. CASE Branch(w, "markAcked")
        <4>1. at[w] \in {"settle", "resettle"} /\ UNCHANGED <<saved, history, item, myTurn, verdict>>
          BY <2>13, <3>2 DEF Settle, Branch
        <4>2. \A v \in Workers : at'[v] = at[v] \/ v = w
          BY <3>2 DEF Branch, GoTo
        <4>3. \A v \in Workers : at'[v] \in Closing => item'[v] \in answered'
          BY <4>1, <4>2 DEF AnswerInv, Closing
        <4>4. \A v \in Workers : at'[v] \in {"settle", "resettle", "markAcked"} => myTurn'[v] \in completed'
          BY <4>1, <4>2 DEF AnswerInv
        <4>5. QED
          BY <2>frame, <4>1, <4>3, <4>4 DEF AnswerInv
      <3>3. QED
        BY <2>13, <3>1, <3>2 DEF Settle
    <2>14. CASE Update(w)
      <3>0. MyItem(w) = item[w] /\ UNCHANGED <<saved, opened, completed, answered>>
        BY <2>0, <2>14 DEF Update, Overwrite
      <3>1. CASE Overwrite(w, "closed", "acked") /\ at[w] = "markAcked" /\ Leave(w)
        <4>1. item[w] \in answered /\ myTurn[w] \in completed /\ opened[myTurn[w]] = item[w]
          BY <3>1 DEF AnswerInv, TurnInv, InTurn, Closing
        <4>2. \A i \in Items : verdict'[i] = "acked" => verdict[i] = "acked" \/ i = item[w]
          BY <3>0, <3>1 DEF Overwrite
        <4>3. \A v \in Workers : at'[v] \in Closing =>
                 at'[v] = at[v] /\ item'[v] = item[v] /\ myTurn'[v] = myTurn[v]
          BY <3>1 DEF Leave, GoTo, Closing
        <4>4. QED
          BY <2>frame, <3>0, <4>1, <4>2, <4>3 DEF AnswerInv, Closing
      <3>2. CASE ~(Overwrite(w, "closed", "acked") /\ at[w] = "markAcked" /\ Leave(w))
        <4>1. \A i \in Items : verdict'[i] = "acked" => verdict[i] = "acked"
          BY <2>14, <3>2, RuntimeAssumption DEF Update, Overwrite
        <4>2. \A v \in Workers : at'[v] \in Closing =>
                 at'[v] = at[v] /\ item'[v] = item[v] /\ myTurn'[v] = myTurn[v]
          BY <2>14 DEF Update, Leave, GoTo, Closing
        <4>3. QED
          BY <2>frame, <3>0, <4>1, <4>2 DEF AnswerInv, Closing
      <3>3. QED
        BY <3>1, <3>2
    <2>15. CASE EndThread(w)
      BY <2>15, <2>leave, <2>give DEF EndThread, Store!End
    <2>16. CASE Crash(w)
      BY <2>16, <2>leave DEF Crash
    <2>17. QED
      BY <2>4, <2>5, <2>7, <2>8, <2>9, <2>10, <2>11, <2>12, <2>13, <2>14, <2>15, <2>16
         DEF WorkerStep
  <1>3. (Orderly => AnswerInv) => AckedMeansAnswered
    BY DEF AnswerInv, AckedMeansAnswered
  <1>4. QED
    BY <1>1, <1>2, <1>3, TypeCorrect, TurnInvInvariant, PTL DEF Spec

-----------------------------------------------------------------------------
(* While heartbeats work *)

\* A live worker keeps its lease until it gives the item up, and then only its
\* last step, failing the thread, is left; no other worker has the item meanwhile.
LeaseInv ==
    deployment.beats =>
        /\ \A w \in Workers : at[w] \notin {"idle", "endThread"} =>
            Holds(w) /\ item[w] \notin lapsed
        /\ \A w \in Workers : at[w] = "endThread" => phase[item[w]] = "closed"
        /\ \A v, w \in Workers : (v # w /\ at[v] # "idle" /\ at[w] # "idle") => item[v] # item[w]

LEMMA LeaseInvInvariant == Spec => []LeaseInv
  <1>1. Init => LeaseInv
    BY DEF Init, LeaseInv
  <1>2. TypeInv /\ LeaseInv /\ [Next]_vars => LeaseInv'
    <2> USE DEF queueVars, ledgerVars, threadVars, journalVars, localVars, history
    <2> SUFFICES ASSUME TypeInv, LeaseInv, deployment.beats, Next, UNCHANGED deployment
                 PROVE  LeaseInv'
      BY DEF Next, vars, LeaseInv, Holds
    <2> USE DEF TypeInv, TypeOK, Queue!TypeOK, LeaseInv, Holds
    <2>0. \A w \in Workers : at[w] # "idle" => item[w] \in Items /\ MyItem(w) = item[w]
      BY DeploymentFacts DEF BusyWithItem, MyItem
    <2>own. ASSUME NEW v \in Workers, at[v] # "idle"
            PROVE  /\ at[v] = "endThread" => phase[item[v]] = "closed"
                   /\ at[v] # "endThread" =>
                        phase[item[v]] = "held" /\ holder[item[v]] = v /\ item[v] \notin lapsed
      BY <2>own
    <2>still. ASSUME \A v \in Workers : at'[v] # "idle" => at[v] # "idle" /\ item'[v] = item[v],
                     \A v \in Workers : at'[v] \notin {"idle", "endThread"} =>
                        /\ at[v] # "endThread"
                        /\ phase'[item[v]] = "held" /\ holder'[item[v]] = holder[item[v]]
                        /\ item[v] \notin lapsed',
                     \A v \in Workers : at'[v] = "endThread" => phase'[item[v]] = "closed"
              PROVE  LeaseInv'
      <3>1. ASSUME NEW v \in Workers, at'[v] \notin {"idle", "endThread"}
            PROVE  Holds(v)' /\ item'[v] \notin lapsed'
        <4>1. at[v] # "idle" /\ at[v] # "endThread" /\ item'[v] = item[v]
          BY <2>still, <3>1
        <4>2. /\ phase'[item[v]] = "held" /\ holder'[item[v]] = holder[item[v]]
              /\ item[v] \notin lapsed'
          BY <2>still, <3>1
        <4>3. holder[item[v]] = v
          BY <2>own, <4>1
        <4>4. QED
          BY <4>1, <4>2, <4>3
      <3>2. ASSUME NEW v \in Workers, at'[v] = "endThread"
            PROVE  phase'[item'[v]] = "closed"
        <4>1. item'[v] = item[v]
          BY <2>still, <3>2
        <4>2. phase'[item[v]] = "closed"
          BY <2>still, <3>2
        <4>3. QED
          BY <4>1, <4>2
      <3>3. \A v, w \in Workers : (v # w /\ at'[v] # "idle" /\ at'[w] # "idle") => item'[v] # item'[w]
        <4> SUFFICES ASSUME NEW v \in Workers, NEW w \in Workers, v # w,
                            at'[v] # "idle", at'[w] # "idle"
                     PROVE  item'[v] # item'[w]
          OBVIOUS
        <4>1. /\ at[v] # "idle" /\ item'[v] = item[v]
              /\ at[w] # "idle" /\ item'[w] = item[w]
          BY <2>still
        <4>2. item[v] # item[w]
          BY <4>1
        <4>3. QED
          BY <4>1, <4>2
      <3>4. QED
        BY <3>1, <3>2, <3>3
    <2>1. ASSUME NEW t \in Threads, UserStep(t)
          PROVE  LeaseInv'
      BY <2>1, <2>still DEF UserStep
    <2>2. ASSUME NEW i \in Items, LogSubmission(i) \/ Enqueue(i)
          PROVE  LeaseInv'
      BY <2>0, <2>2, <2>still DEF LogSubmission, Enqueue, Queue!Open
    <2>3. ASSUME NEW i \in Items, Lapse(i)
          PROVE  LeaseInv'
      BY <2>0, <2>3, <2>still DEF Lapse
    <2>4. ASSUME NEW w \in deployment.team, w \in Workers, NEW scope \in SUBSET Threads,
                 Claim(w, scope)
          PROVE  LeaseInv'
      <3>1. PICK i \in Items : Queue!Grant(i, w) /\ item' = [item EXCEPT ![w] = i]
        BY <2>4, DeploymentFacts DEF Claim
      <3>2. \A v \in Workers : at[v] # "idle" => item[v] # i
        <4>1. phase[i] = "free" \/ (phase[i] = "held" /\ i \in lapsed)
          BY <3>1 DEF Queue!Grant
        <4>2. QED
          <5> SUFFICES ASSUME NEW v \in Workers, at[v] # "idle", item[v] = i
                       PROVE  FALSE
            OBVIOUS
          <5>1. CASE at[v] = "endThread"
            BY <2>own, <4>1, <5>1
          <5>2. CASE at[v] # "endThread"
            BY <2>own, <4>1, <5>2
          <5>3. QED
            BY <5>1, <5>2
      <3>3. /\ at'[w] = "inspect" /\ item'[w] = i
            /\ \A v \in Workers : v # w => at'[v] = at[v] /\ item'[v] = item[v]
        BY <2>4, <3>1 DEF Claim, GoTo
      <3>4. /\ phase'[i] = "held" /\ holder'[i] = w /\ i \notin lapsed'
            /\ \A j \in Items \ {i} : phase'[j] = phase[j] /\ holder'[j] = holder[j]
                                      /\ (j \in lapsed' => j \in lapsed)
        BY <3>1 DEF Queue!Grant
      <3>5. ASSUME NEW v \in Workers, at'[v] # "idle", v # w
            PROVE  /\ item'[v] # i
                   /\ at'[v] = "endThread" => phase'[item'[v]] = "closed"
                   /\ at'[v] # "endThread" =>
                        phase'[item'[v]] = "held" /\ holder'[item'[v]] = v /\ item'[v] \notin lapsed'
        <4>1. at[v] # "idle" /\ at'[v] = at[v] /\ item'[v] = item[v] /\ item[v] \in Items \ {i}
          BY <2>0, <3>2, <3>3, <3>5
        <4>2. QED
          BY <2>own, <3>4, <4>1
      <3>6. \A v \in Workers : at'[v] \notin {"idle", "endThread"} =>
               phase'[item'[v]] = "held" /\ holder'[item'[v]] = v /\ item'[v] \notin lapsed'
        BY <3>3, <3>4, <3>5
      <3>7. \A v \in Workers : at'[v] = "endThread" => phase'[item'[v]] = "closed"
        BY <3>3, <3>5
      <3>8. ASSUME NEW u \in Workers, NEW v \in Workers, u # v, at'[u] # "idle", at'[v] # "idle"
            PROVE  item'[u] # item'[v]
        <4>1. CASE u = w \/ v = w
          BY <3>3, <3>5, <3>8, <4>1
        <4>2. CASE u # w /\ v # w
          BY <3>3, <3>8, <4>2
        <4>3. QED
          BY <4>1, <4>2
      <3>9. QED
        BY <3>6, <3>7, <3>8
    <2> SUFFICES ASSUME NEW w \in deployment.team, w \in Workers, WorkerStep(w) \/ Crash(w)
                 PROVE  LeaseInv'
      BY <2>1, <2>2, <2>3, <2>4, DeploymentFacts DEF Next
    <2>go. ASSUME at[w] \notin {"idle", "endThread"}, NEW place \in Locations \ {"idle", "endThread"},
                  GoTo(w, place), UNCHANGED <<phase, holder, item>>, lapsed' \subseteq lapsed
           PROVE  LeaseInv'
      BY <2>still, <2>go DEF GoTo
    <2>leave. ASSUME at[w] # "idle", Leave(w),
                     \A j \in Items \ {item[w]} :
                        phase'[j] = phase[j] /\ holder'[j] = holder[j] /\ (j \in lapsed' => j \in lapsed)
              PROVE  LeaseInv'
      <3>1. \A v \in Workers : at'[v] # "idle" => at'[v] = at[v] /\ item'[v] = item[v] /\ v # w
        BY <2>leave DEF Leave, GoTo
      <3>2. \A v \in Workers : at'[v] # "idle" => item[v] \in Items \ {item[w]}
        BY <2>0, <2>leave, <3>1
      <3>3. QED
        BY <2>leave, <2>still, <3>1, <3>2
    <2>give. ASSUME at[w] # "idle", GiveUp(w)
             PROVE  LeaseInv'
      BY <2>leave, <2>give DEF GiveUp
    <2>5. CASE Inspect(w) \/ LoseLease(w) \/ CallTool(w)
      BY <2>5, <2>go DEF Inspect, LoseLease, CallTool, Branch, Locations, Running
    <2>6. CASE Drop(w) \/ Defer(w) \/ Settle(w) \/ Fail(w)
      BY <2>6, <2>go, <2>give DEF Drop, Defer, Settle, Fail, Branch, Locations, Updating
    <2>8. CASE OpenTurn(w) \/ MarkStarted(w) \/ Finish(w) \/ StartTurn(w)
      BY <2>8, <2>go, <2>give
         DEF OpenTurn, MarkStarted, Finish, StartTurn, Branch, Locations, Running
    <2>9. CASE Sample(w)
      BY <2>9, <2>go DEF Sample, Queue!Extend, Locations, Running
    <2>10. CASE ReachLimit(w) \/ Effect(w) \/ Intend(w) \/ Record(w)
      BY <2>10, <2>go DEF ReachLimit, Effect, Intend, Record, Branch, Locations, Running
    <2>11. CASE CompleteTurn(w)
      BY <2>11, <2>go, <2>give DEF CompleteTurn, Branch, Locations, Running
    <2>12. ASSUME at[w] # "idle", NEW p, NEW x, Overwrite(w, p, x),
                  Leave(w) \/ (p = "closed" /\ GoTo(w, "endThread") /\ UNCHANGED item)
           PROVE  LeaseInv'
      <3>1. item[w] \in Items /\ MyItem(w) = item[w]
        BY <2>0, <2>12
      <3>2. /\ phase'[item[w]] = p
            /\ \A j \in Items \ {item[w]} :
                  phase'[j] = phase[j] /\ holder'[j] = holder[j] /\ (j \in lapsed' => j \in lapsed)
        BY <2>12, <3>1 DEF Overwrite
      <3>3. CASE p = "closed" /\ GoTo(w, "endThread") /\ UNCHANGED item
        <4>1. \A v \in Workers : v # w => at'[v] = at[v] /\ (at[v] # "idle" => item[v] \in Items \ {item[w]})
          BY <2>0, <2>12, <3>3 DEF GoTo
        <4>2. at'[w] = "endThread"
          BY <3>3 DEF GoTo
        <4>3. ASSUME NEW v \in Workers, at'[v] # "idle", v # w
              PROVE  /\ at'[v] = "endThread" => at[v] = "endThread" /\ phase'[item[v]] = "closed"
                     /\ at'[v] # "endThread" =>
                          /\ at[v] # "endThread" /\ phase'[item[v]] = "held"
                          /\ holder'[item[v]] = holder[item[v]] /\ item[v] \notin lapsed'
          <5>1. at[v] # "idle" /\ at'[v] = at[v] /\ item[v] \in Items \ {item[w]}
            BY <4>1, <4>3
          <5>2. QED
            BY <2>own, <3>2, <5>1
        <4>4. \A v \in Workers : at'[v] = "endThread" => phase'[item[v]] = "closed"
          BY <3>2, <3>3, <4>3
        <4>5. QED
          BY <2>12, <2>still, <3>3, <4>1, <4>2, <4>3, <4>4
      <3>4. QED
        BY <2>12, <2>leave, <3>2, <3>3
    <2>13. CASE Update(w)
      BY <2>13, <2>12 DEF Update
    <2>14. CASE EndThread(w)
      <3>1. at[w] # "idle" /\ Leave(w) /\ UNCHANGED queueVars
        BY <2>14 DEF EndThread, GiveUp
      <3>2. QED
        BY <2>leave, <3>1
    <2>15. CASE Crash(w)
      BY <2>15, <2>leave DEF Crash
    <2>16. QED
      BY <2>5, <2>6, <2>8, <2>9, <2>10, <2>11, <2>13, <2>14, <2>15 DEF WorkerStep
  <1>3. QED
    BY <1>1, <1>2, TypeCorrect, PTL DEF Spec

\* While heartbeats work, no two workers run turns of one thread, in any orderly
\* deployment: they would have one item, and thus one lease.
THEOREM OneRunner == Spec => []OneRunnerPerThread
  <1>1. TypeInv /\ LeaseInv => OneRunnerPerThread
    BY SameItem DEF LeaseInv, OneRunnerPerThread, Running
  <1>2. QED
    BY <1>1, TypeCorrect, LeaseInvInvariant, PTL

\* What queue.fail marked is failed as long as nobody else may write to it, and a
\* thread is failed by those who marked an item of it.
FailingInv ==
    /\ deployment.beats => \A i \in Items : verdict[i] = "failed" => phase[i] = "closed"
    /\ \A w \in Workers : at[w] = "endThread" =>
        item[w] \in failures /\ (deployment.beats => verdict[item[w]] = "failed")
    /\ ThreadFailsAfterItem

\* A thread is failed only after queue.fail marked one of its items, in every
\* deployment: the except block of a stale worker whose queue.fail raises stops before
\* fail_thread.  The item stays failed while heartbeats work, although the UPDATEs of
\* the queue check nothing: no two workers have one item to write to.
THEOREM ThreadsFailAfterItems == Spec => []ThreadFailsAfterItem
  <1>1. Init => FailingInv
    BY RuntimeAssumption DEF Init, FailingInv, ThreadFailsAfterItem, Queue!Init, Store!Init
  <1>2. TypeInv /\ LeaseInv /\ FailingInv /\ [Next]_vars => FailingInv'
    <2> USE DEF queueVars, ledgerVars, threadVars, journalVars, localVars, history
    <2> SUFFICES ASSUME TypeInv, LeaseInv, FailingInv, Next, UNCHANGED deployment
                 PROVE  FailingInv'
      BY DEF Next, vars, FailingInv, ThreadFailsAfterItem, Submitted, ThreadOf
    <2> USE DEF FailingInv, ThreadFailsAfterItem, TypeInv, TypeOK, Submitted, ThreadOf,
                Queue!TypeOK, Store!TypeOK
    <2>0. \A w \in Workers : at[w] # "idle" => item[w] \in Items /\ item[w] \in Submitted /\ MyItem(w) = item[w]
      BY DeploymentFacts DEF BusyWithItem, MyItem
    <2>frame. ASSUME failures \subseteq failures',
                 deployment.beats => \A i \in Items :
                    /\ phase[i] = "closed" => phase'[i] = "closed"
                    /\ verdict'[i] = "failed" => verdict[i] = "failed"
                    /\ verdict[i] = "failed" => verdict'[i] = "failed",
                 \A t \in Threads : status'[t] = "failed" => status[t] = "failed",
                 \A v \in Workers : at'[v] = "endThread" => at[v] = "endThread" /\ item'[v] = item[v]
          PROVE  FailingInv'
      <3>1. \A i \in failures : i \in Items
        OBVIOUS
      <3>2. ThreadFailsAfterItem'
        BY <2>frame, <3>1
      <3>3. \A v \in Workers : at'[v] = "endThread" =>
               item'[v] \in failures' /\ (deployment.beats => verdict'[item'[v]] = "failed")
        BY <2>0, <2>frame
      <3>4. deployment.beats => \A i \in Items : verdict'[i] = "failed" => phase'[i] = "closed"
        BY <2>frame
      <3>5. QED
        BY <3>2, <3>3, <3>4
    <2>still. ASSUME UNCHANGED <<verdict, failures>>,
                 \A i \in Items : phase[i] = "closed" => phase'[i] = "closed",
                 \A t \in Threads : status'[t] = "failed" => status[t] = "failed",
                 \A v \in Workers : at'[v] = "endThread" => at[v] = "endThread" /\ item'[v] = item[v]
          PROVE  FailingInv'
      BY <2>frame, <2>still
    <2>1. ASSUME NEW t \in Threads, UserStep(t)
          PROVE  FailingInv'
      <3>1. \A u \in Threads : status'[u] = "failed" => status[u] = "failed"
        BY <2>1 DEF UserStep, Store!Create, Store!Pause, Store!Resume, Store!End, Store!SetStatus
      <3>2. QED
        BY <2>1, <2>still, <3>1 DEF UserStep
    <2>2. ASSUME NEW i \in Items, LogSubmission(i) \/ Enqueue(i) \/ Lapse(i)
          PROVE  FailingInv'
      <3>1. \A j \in Items : phase[j] = "closed" => phase'[j] = "closed"
        BY <2>2 DEF LogSubmission, Enqueue, Lapse, Queue!Open
      <3>2. QED
        BY <2>2, <2>still, <3>1 DEF LogSubmission, Enqueue, Lapse
    <2>3. ASSUME NEW w \in deployment.team, NEW scope \in SUBSET Threads, Claim(w, scope)
          PROVE  FailingInv'
      <3>1. \A v \in Workers : at'[v] = "endThread" => at[v] = "endThread" /\ v # w
        BY <2>3 DEF Claim, GoTo
      <3>2. \A v \in Workers : v # w => item'[v] = item[v]
        BY <2>3 DEF Claim
      <3>3. \A i \in Items : phase[i] = "closed" => phase'[i] = "closed"
        BY <2>3 DEF Claim, Queue!Grant
      <3>4. UNCHANGED <<verdict, threadVars, failures>>
        BY <2>3 DEF Claim
      <3>5. QED
        BY <2>still, <3>1, <3>2, <3>3, <3>4
    <2> SUFFICES ASSUME NEW w \in deployment.team, w \in Workers, WorkerStep(w) \/ Crash(w)
                 PROVE  FailingInv'
      BY <2>1, <2>2, <2>3, DeploymentFacts DEF Next
    <2>5. ASSUME NEW place \in Locations \ {"endThread"}, GoTo(w, place),
                 UNCHANGED <<phase, verdict, failures, status, item>>
          PROVE  FailingInv'
      BY <2>still, <2>5 DEF GoTo
    <2>6. ASSUME Leave(w), UNCHANGED <<phase, verdict, failures, status>>
          PROVE  FailingInv'
      BY <2>still, <2>6 DEF Leave, GoTo
    <2>7. CASE Inspect(w) \/ LoseLease(w) \/ CallTool(w)
      BY <2>5, <2>7 DEF Inspect, LoseLease, CallTool, Branch, Locations, Running
    <2>8. CASE Sample(w) \/ ReachLimit(w) \/ Effect(w)
      BY <2>5, <2>8 DEF Sample, ReachLimit, Effect, Queue!Extend, Locations, Running
    <2>9. CASE Intend(w) \/ Record(w)
      BY <2>5, <2>9 DEF Intend, Record, Branch, Locations, Running
    <2>10. CASE OpenTurn(w) \/ MarkStarted(w) \/ Finish(w)
      BY <2>5, <2>6, <2>10
         DEF OpenTurn, MarkStarted, Finish, SaveCheckpoint, Store!Checkpoint, Branch, GiveUp,
             Locations, Running
    <2>11. CASE Crash(w)
      BY <2>6, <2>11 DEF Crash
    <2>12. CASE Drop(w) \/ Defer(w) \/ Settle(w) \/ Fail(w)
      BY <2>5, <2>6, <2>12 DEF Drop, Defer, Settle, Fail, Branch, GiveUp, Locations, Updating
    <2>14. CASE StartTurn(w)
      <3>1. CASE GiveUp(w)
        BY <2>6, <3>1 DEF GiveUp
      <3>2. CASE ~GiveUp(w)
        <4>1. \A t \in Threads : status'[t] = "failed" => status[t] = "failed"
          BY <2>14, <3>2 DEF StartTurn, Store!StartTurn, Store!SetStatus
        <4>2. QED
          BY <2>still, <2>14, <3>2, <4>1 DEF StartTurn, GoTo
      <3>3. QED
        BY <3>1, <3>2
    <2>15. CASE CompleteTurn(w)
      <3>1. CASE Branch(w, "fail") \/ GiveUp(w)
        BY <2>5, <2>6, <3>1 DEF Branch, GiveUp, Locations
      <3>2. CASE Store!CompleteTurn(MyThread(w), myTurn[w]) /\ ~Branch(w, "fail") /\ ~GiveUp(w)
        <4>1. \A t \in Threads : status'[t] = "failed" => status[t] = "failed"
          BY <3>2 DEF Store!CompleteTurn, Store!SetStatus
        <4>2. QED
          BY <2>still, <2>15, <3>2, <4>1 DEF CompleteTurn, GoTo
      <3>3. QED
        BY <2>15, <3>1, <3>2 DEF CompleteTurn
    \* While heartbeats work, whoever writes holds the item, which is not closed then.
    <2>16. CASE Update(w)
      <3>1. /\ at[w] \notin {"idle", "endThread"} /\ item[w] \in Items /\ item[w] \in Submitted
            /\ MyItem(w) = item[w]
        BY <2>0, <2>16 DEF Update
      <3>2. deployment.beats => phase[item[w]] = "held" /\ verdict[item[w]] # "failed"
        BY <3>1 DEF LeaseInv, Holds
      <3>3. UNCHANGED threadVars /\ \A j \in Items \ {item[w]} : phase'[j] = phase[j] /\ verdict'[j] = verdict[j]
        BY <2>16, <3>1 DEF Update, Overwrite
      <3>4. CASE Leave(w) /\ UNCHANGED failures /\ verdict'[item[w]] # "failed"
        <4>1. \A v \in Workers : at'[v] = "endThread" => at[v] = "endThread" /\ item'[v] = item[v]
          BY <3>4 DEF Leave, GoTo
        <4>2. deployment.beats => \A i \in Items :
                /\ phase[i] = "closed" => phase'[i] = "closed"
                /\ verdict'[i] = "failed" => verdict[i] = "failed"
                /\ verdict[i] = "failed" => verdict'[i] = "failed"
          BY <3>1, <3>2, <3>3, <3>4
        <4>3. QED
          BY <2>frame, <3>3, <3>4, <4>1, <4>2
      <3>5. CASE /\ Overwrite(w, "closed", "failed")
                 /\ failures' = failures \cup {MyItem(w)}
                 /\ GoTo(w, "endThread") /\ UNCHANGED localVars
        <4>1. phase'[item[w]] = "closed" /\ verdict'[item[w]] = "failed" /\ failures' = failures \cup {item[w]}
          BY <3>1, <3>5 DEF Overwrite
        <4>2. \A v \in Workers : at'[v] = "endThread" => v = w \/ at[v] = "endThread"
          BY <3>5 DEF GoTo
        <4>3. \A i \in failures : (deployment.beats /\ verdict[i] = "failed") => verdict'[i] = "failed"
          BY <3>3, <4>1
        <4>4. ThreadFailsAfterItem'
          BY <3>3, <4>1, <4>3
        <4>5. ASSUME NEW v \in Workers, at'[v] = "endThread"
              PROVE  item[v] \in failures' /\ (deployment.beats => verdict'[item[v]] = "failed")
          <5>1. CASE v = w
            BY <4>1, <5>1
          <5>2. CASE v # w
            <6>1. at[v] = "endThread"
              BY <4>2, <4>5, <5>2
            <6>2. item[v] \in failures /\ (deployment.beats => verdict[item[v]] = "failed")
              BY <6>1
            <6>3. QED
              BY <4>1, <4>3, <6>2
          <5>3. QED
            BY <5>1, <5>2
        <4>6. deployment.beats => \A i \in Items : verdict'[i] = "failed" => phase'[i] = "closed"
          BY <3>3, <4>1
        <4>7. QED
          BY <3>5, <4>4, <4>5, <4>6
      <3>6. QED
        <4>1. CASE \E p \in {"free", "closed"}, x \in {None, "acked", "cancelled"} :
                      Overwrite(w, p, x) /\ Leave(w) /\ UNCHANGED failures
          <5>1. verdict'[item[w]] # "failed"
            BY <3>1, <4>1, RuntimeAssumption DEF Overwrite
          <5>2. QED
            BY <3>4, <4>1, <5>1
        <4>2. QED
          BY <2>16, <3>5, <4>1 DEF Update
    <2>19. CASE EndThread(w)
      <3>1. CASE GiveUp(w)
        BY <2>6, <3>1 DEF GiveUp
      <3>2. CASE Store!End(MyThread(w), "failed") /\ Leave(w) /\ UNCHANGED <<queueVars, history>>
        <4>1. /\ item[w] \in Submitted /\ MyThread(w) = ThreadOf[item[w]] /\ item[w] \in failures
              /\ deployment.beats => verdict[item[w]] = "failed"
          BY <2>0, <2>19 DEF EndThread, MyThread
        <4>2. \A t \in Threads : status'[t] = "failed" => status[t] = "failed" \/ t = MyThread(w)
          BY <3>2 DEF Store!End, Store!SetStatus
        <4>3. ThreadFailsAfterItem'
          BY <3>2, <4>1, <4>2
        <4>4. QED
          BY <3>2, <4>3 DEF Leave, GoTo
      <3>3. QED
        BY <2>19, <3>1, <3>2 DEF EndThread
    <2>20. QED
      BY <2>7, <2>8, <2>9, <2>10, <2>11, <2>12, <2>14, <2>15, <2>16, <2>19 DEF WorkerStep
  <1>3. QED
    BY <1>1, <1>2, TypeCorrect, LeaseInvInvariant, PTL DEF Spec, FailingInv

Call(w) == effects[item[w]][steps[w] - 1]
CallRow(w) == row[item[w]][steps[w] - 1]

\* A call that has not run has no effect, and the worker about to run one is the
\* only one that looks at its row of the journal.
EffectInv ==
    /\ \A w \in Workers :
        at[w] \in {"tool", "intend", "effect", "record"} => steps[w] \in 1..MaxSteps
    /\ (deployment.beats /\ ~Retryable) =>
        /\ \A i \in Items, n \in Indices : row[i][n] = "absent" => effects[i][n] = 0
        /\ \A w \in Workers :
            /\ at[w] = "intend" => CallRow(w) = "absent"
            /\ at[w] = "effect" => CallRow(w) = "started" /\ Call(w) = 0
        /\ EffectOnce

LEMMA CallPlace ==
    ASSUME TypeInv, EffectInv, NEW w \in Workers,
           at[w] \in {"tool", "intend", "effect", "record"}
    PROVE  /\ item[w] \in Items /\ MyItem(w) = item[w]
           /\ steps[w] - 1 \in Indices
  BY DeploymentFacts, RuntimeAssumption DEF TypeInv, BusyWithItem, EffectInv, MyItem, Indices

\* While heartbeats work, a tool call that is not declared retryable runs at most
\* once for its work item, whatever crashes, takeovers and reruns of the turn there
\* are, in every deployment.
THEOREM EffectsHappenOnce == Spec => []EffectOnce
  <1>1. Init => EffectInv
    BY RuntimeAssumption DEF Init, EffectInv, EffectOnce
  <1>2. TypeInv /\ LeaseInv /\ EffectInv /\ [Next]_vars => EffectInv'
    <2> USE DEF queueVars, ledgerVars, threadVars, journalVars, localVars, history
    <2> SUFFICES ASSUME TypeInv, LeaseInv, EffectInv, Next, UNCHANGED deployment
                 PROVE  EffectInv'
      BY DEF Next, vars, EffectInv, EffectOnce, Call, CallRow
    <2> DEFINE Calling == {"tool", "intend", "effect", "record"}
    <2>0. \A w \in Workers : at[w] # "idle" => item[w] \in Items /\ MyItem(w) = item[w]
      BY DeploymentFacts DEF TypeInv, BusyWithItem, MyItem
    <2>still. ASSUME UNCHANGED <<row, effects>>,
                     \A v \in Workers : at'[v] \in Calling =>
                        /\ item'[v] = item[v] /\ steps'[v] = steps[v]
                        /\ at[v] \in Calling
                        /\ at'[v] \in {"intend", "effect"} => at'[v] = at[v]
              PROVE  EffectInv'
      BY <2>still DEF EffectInv, EffectOnce, Call, CallRow
    <2>1. ASSUME NEW t \in Threads, UserStep(t)
          PROVE  EffectInv'
      BY <2>1, <2>still DEF UserStep
    <2>2. ASSUME NEW i \in Items, LogSubmission(i) \/ Enqueue(i) \/ Lapse(i)
          PROVE  EffectInv'
      BY <2>2, <2>still DEF LogSubmission, Enqueue, Lapse
    <2>3. ASSUME NEW w \in deployment.team, w \in Workers, NEW scope \in SUBSET Threads,
                 Claim(w, scope)
          PROVE  EffectInv'
      <3>1. \A v \in Workers : at'[v] \in Calling => at'[v] = at[v] /\ item'[v] = item[v]
        BY <2>3 DEF Claim, GoTo, TypeInv, TypeOK
      <3>2. QED
        BY <2>3, <2>still, <3>1 DEF Claim
    <2> SUFFICES ASSUME NEW w \in deployment.team, w \in Workers, WorkerStep(w) \/ Crash(w)
                 PROVE  EffectInv'
      BY <2>1, <2>2, <2>3, DeploymentFacts DEF Next
    <2>go. ASSUME NEW place \in Locations \ Calling, GoTo(w, place),
                  UNCHANGED <<row, effects, item, steps>>
           PROVE  EffectInv'
      BY <2>still, <2>go DEF GoTo, TypeInv, TypeOK
    <2>leave. ASSUME Leave(w), UNCHANGED <<row, effects>>
              PROVE  EffectInv'
      BY <2>still, <2>leave DEF Leave, GoTo, TypeInv, TypeOK
    <2>4. CASE Inspect(w) \/ LoseLease(w) \/ ReachLimit(w)
      BY <2>4, <2>go DEF Inspect, LoseLease, ReachLimit, Branch, Locations, Running
    <2>5. CASE Drop(w) \/ Defer(w) \/ Update(w) \/ EndThread(w) \/ Crash(w)
      BY <2>5, <2>go, <2>leave
         DEF Drop, Defer, Update, Overwrite, EndThread, Crash, Branch, GiveUp, Locations, Updating
    <2>6. CASE OpenTurn(w) \/ MarkStarted(w) \/ Finish(w) \/ StartTurn(w)
      BY <2>6, <2>go, <2>leave
         DEF OpenTurn, MarkStarted, Finish, StartTurn, Branch, GiveUp, Locations, Running
    <2>7. CASE CompleteTurn(w) \/ Settle(w) \/ Fail(w)
      BY <2>7, <2>go, <2>leave
         DEF CompleteTurn, Settle, Fail, Branch, GiveUp, Locations, Running, Updating
    <2>8. CASE Sample(w)
      <3>1. steps'[w] \in 1..MaxSteps /\ \A v \in Workers : v # w => steps'[v] = steps[v]
        BY <2>8, RuntimeAssumption DEF Sample, MoreSteps, TypeInv, TypeOK
      <3>2. /\ at'[w] \in {"finish", "tool", "fail"} /\ UNCHANGED <<row, effects, item>>
            /\ \A v \in Workers : v # w => at'[v] = at[v]
        BY <2>8 DEF Sample, GoTo, TypeInv, TypeOK
      <3>3. QED
        BY <3>1, <3>2 DEF EffectInv, EffectOnce, Call, CallRow
    <2> DEFINE i == item[w]
               n == steps[w] - 1
    <2>9. ASSUME at[w] \in Calling
          PROVE  i \in Items /\ n \in Indices /\ MyItem(w) = i
      BY <2>9, CallPlace
    <2>10. ASSUME deployment.beats, at[w] \in Calling,
                  NEW v \in Workers, v # w, at[v] \in Calling
           PROVE  item[v] \in Items /\ steps[v] - 1 \in Indices /\ item[v] # i
      BY <2>10, CallPlace DEF LeaseInv
    <2>change. ASSUME at[w] \in Calling, NEW place \in Locations, GoTo(w, place),
                      UNCHANGED <<item, steps>>,
                      NEW r, NEW e,
                      row' = [row EXCEPT ![i][n] = r], effects' = [effects EXCEPT ![i][n] = e],
                      (deployment.beats /\ ~Retryable) =>
                         /\ r = "absent" => e = 0
                         /\ e <= 1
                         /\ place = "intend" => r = "absent"
                         /\ place = "effect" => r = "started" /\ e = 0
               PROVE  EffectInv'
      <3>1. i \in Items /\ n \in Indices
        BY <2>9, <2>change
      <3>2. /\ row'[i][n] = r /\ effects'[i][n] = e
            /\ \A j \in Items, k \in Indices : <<j, k>> # <<i, n>> =>
                  row'[j][k] = row[j][k] /\ effects'[j][k] = effects[j][k]
        BY <2>change, <3>1 DEF TypeInv, TypeOK
      <3>3. /\ at'[w] = place
            /\ \A v \in Workers : v # w => at'[v] = at[v]
        BY <2>change DEF GoTo, TypeInv, TypeOK
      <3>4. \A v \in Workers : at'[v] \in Calling => at[v] \in Calling
        BY <2>change, <3>3
      <3>5. ASSUME deployment.beats, ~Retryable
            PROVE  /\ \A j \in Items, k \in Indices :
                         /\ row'[j][k] = "absent" => effects'[j][k] = 0
                         /\ effects'[j][k] <= 1
        BY <2>change, <3>2, <3>5 DEF EffectInv, EffectOnce
      <3>6. ASSUME deployment.beats, ~Retryable, NEW v \in Workers, at'[v] \in {"intend", "effect"}
            PROVE  /\ at'[v] = "intend" => row'[item[v]][steps[v] - 1] = "absent"
                   /\ at'[v] = "effect" => /\ row'[item[v]][steps[v] - 1] = "started"
                                           /\ effects'[item[v]][steps[v] - 1] = 0
        <4>1. CASE v = w
          BY <2>change, <3>2, <3>3, <3>6, <4>1
        <4>2. CASE v # w
          <5>1. at[v] = at'[v] /\ item[v] \in Items /\ steps[v] - 1 \in Indices /\ item[v] # i
            BY <2>10, <2>change, <3>3, <3>6, <4>2
          <5>2. /\ row'[item[v]][steps[v] - 1] = row[item[v]][steps[v] - 1]
                /\ effects'[item[v]][steps[v] - 1] = effects[item[v]][steps[v] - 1]
            BY <3>2, <5>1
          <5>3. QED
            BY <3>6, <5>1, <5>2 DEF EffectInv, Call, CallRow
        <4>3. QED
          BY <4>1, <4>2
      <3>7. QED
        BY <2>change, <3>4, <3>5, <3>6 DEF EffectInv, EffectOnce, Call, CallRow
    <2>same. ASSUME at[w] \in Calling
             PROVE  /\ row = [row EXCEPT ![i][n] = row[i][n]]
                    /\ effects = [effects EXCEPT ![i][n] = effects[i][n]]
      <3>1. /\ i \in Items /\ n \in Indices
            /\ row[i] \in [Indices -> {"absent", "started", "completed"}]
            /\ effects[i] \in [Indices -> Nat]
        BY <2>9, <2>same DEF TypeInv, TypeOK
      <3> HIDE DEF i, n
      <3>2. QED
        BY <3>1 DEF TypeInv, TypeOK
    <2>known. ASSUME at[w] \in Calling, deployment.beats, ~Retryable
              PROVE  /\ row[i][n] = "absent" => effects[i][n] = 0
                     /\ effects[i][n] <= 1
                     /\ at[w] = "intend" => row[i][n] = "absent"
                     /\ at[w] = "effect" => row[i][n] = "started" /\ effects[i][n] = 0
      BY <2>9, <2>known DEF EffectInv, EffectOnce, Call, CallRow
    <2>11. CASE CallTool(w)
      <3>1. at[w] = "tool" /\ UNCHANGED <<row, effects, item, steps>> /\ MyItem(w) = i
        BY <2>9, <2>11 DEF CallTool, Branch
      <3>2. CASE \E place \in {"run", "fail"} : GoTo(w, place)
        BY <2>go, <3>1, <3>2 DEF Locations, Running
      <3>3. CASE row[i][n] = "absent" /\ GoTo(w, "intend")
        <4>1. "intend" \in Locations
          BY DEF Locations, Running
        <4>2. QED
          BY <2>change, <2>same, <2>known, <3>1, <3>3, <4>1
      <3>4. CASE Retryable /\ GoTo(w, "effect")
        <4>1. "effect" \in Locations
          BY DEF Locations, Running
        <4>2. QED
          BY <2>change, <2>same, <3>1, <3>4, <4>1
      <3>5. QED
        BY <2>11, <3>1, <3>2, <3>3, <3>4 DEF CallTool, Branch, MayRetry
    <2>12. CASE Intend(w)
      <3>1. at[w] = "intend" /\ UNCHANGED <<effects, item, steps>> /\ MyItem(w) = i
        BY <2>9, <2>12 DEF Intend, Branch
      <3>2. "effect" \in Locations /\ "fail" \in Locations \ Calling
        BY DEF Locations, Running
      <3>3. CASE UNCHANGED row /\ GoTo(w, "fail")
        BY <2>go, <3>1, <3>2, <3>3
      <3>4. CASE UNCHANGED row /\ row[i][n] # "absent" /\ GoTo(w, "effect")
        BY <2>change, <2>same, <2>known, <3>1, <3>2, <3>4
      <3>5. CASE row' = [row EXCEPT ![i][n] = "started"] /\ GoTo(w, "effect")
        BY <2>change, <2>same, <2>known, <3>1, <3>2, <3>5
      <3>6. QED
        BY <2>12, <3>1, <3>3, <3>4, <3>5 DEF Intend, Branch
    <2>13. CASE Effect(w)
      <3>1. /\ at[w] = "effect" /\ UNCHANGED <<row, item, steps>> /\ MyItem(w) = i
            /\ GoTo(w, "record") /\ "record" \in Locations
        BY <2>9, <2>13 DEF Effect, Locations, Running
      <3>2. effects' = [effects EXCEPT ![i][n] = effects[i][n] + 1]
        BY <2>13, <3>1 DEF Effect
      <3>3. (deployment.beats /\ ~Retryable) =>
               row[i][n] = "started" /\ effects[i][n] + 1 <= 1
        BY <2>known, <3>1
      <3>4. QED
        BY <2>change, <2>same, <3>1, <3>2, <3>3
    <2>14. CASE Record(w)
      <3>1. at[w] = "record" /\ UNCHANGED <<effects, item, steps>> /\ MyItem(w) = i
        BY <2>9, <2>14 DEF Record, Branch
      <3>2. {"run", "fail"} \subseteq Locations \ Calling
        BY DEF Locations, Running
      <3>3. CASE UNCHANGED row /\ GoTo(w, "fail")
        BY <2>go, <3>1, <3>2, <3>3
      <3>4. CASE row' = [row EXCEPT ![i][n] = "completed"] /\ GoTo(w, "run")
        BY <2>change, <2>same, <2>known, <3>1, <3>2, <3>4
      <3>5. QED
        BY <2>14, <3>1, <3>3, <3>4 DEF Record, Branch
    <2>15. QED
      BY <2>4, <2>5, <2>6, <2>7, <2>8, <2>11, <2>12, <2>13, <2>14 DEF WorkerStep
  <1>3. EffectInv => EffectOnce
    BY DEF EffectInv, EffectOnce
  <1>4. QED
    BY <1>1, <1>2, <1>3, TypeCorrect, LeaseInvInvariant, PTL DEF Spec
=============================================================================
