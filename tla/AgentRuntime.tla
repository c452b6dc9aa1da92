---------------------------- MODULE AgentRuntime ----------------------------
(***************************************************************************)
(* DurableAgentRuntime of runtime.py: workers claim work items and run     *)
(* turns of the items' threads, over four stores that share no             *)
(* transaction.  One step is one call of a store, so a worker can die, and *)
(* another client can act, between any two of them:                        *)
(*                                                                         *)
(*    work queue    the ledger of LeaseLedger.tla (see WorkQueue.tla)      *)
(*    thread store  the threads of ThreadLifecycle.tla (DurableThread.tla) *)
(*    tool journal  row and effects, as in ToolJournal.tla                 *)
(*                                                                         *)
(* The turn itself is codex_harness.run_turn: a loop of at most MaxSteps   *)
(* model samplings, each of which answers or calls a tool, so that the     *)
(* number of the sampling is also that of the tool call in the journal.    *)
(***************************************************************************)
EXTENDS Naturals, Sequences

CONSTANTS
    Items,        \* work items; naturals, in the order they are enqueued
    Workers,
    Threads,
    MaxSteps,     \* max_model_steps
    Retryable,    \* whether in-doubt tool calls are declared retryable
    MaxTurns,     \* bound on the turns started
    Deployments,  \* the ways of running the system that are considered
    None

\* A deployment says which workers there are, which items are submitted to
\* which threads, which operations users call, whether the heartbeat keeps the
\* lease of a live worker, and (a bound) how often workers crash.
ASSUME RuntimeAssumption ==
    /\ Items \subseteq Nat
    /\ MaxSteps \in Nat \ {0} /\ MaxTurns \in Nat
    /\ Retryable \in BOOLEAN
    /\ None \notin Workers /\ None \notin Items /\ None \notin {"acked", "failed"}
    /\ \A d \in Deployments :
        /\ d.team \subseteq Workers
        /\ DOMAIN d.threadOf \subseteq Items
        /\ \A i \in DOMAIN d.threadOf : d.threadOf[i] \in Threads
        /\ d.userOps \subseteq {"pause", "resume", "cancel"}
        /\ d.beats \in BOOLEAN
        /\ d.crashes \in Nat

VARIABLES
    deployment,                        \* never changes
    phase, holder, lapsed,             \* the work queue's ledger
    verdict,                           \* final status of a closed item
    status, turn, saved,               \* the thread store's projections
    logged,                            \* items whose USER_SUBMISSION is logged
    row, effects,                      \* the tool journal, and the tools' runs
    at,                                \* where each worker is in run_one
    item, myTurn, steps, limit,        \* run_one's local variables
    opened,                            \* history: the item each turn was started for
    completed,                         \* history: the turns completed
    answered,                          \* history: items with a turn_finished checkpoint
    failures,                          \* history: items a queue.fail was written for
    crashes

ledgerVars == <<phase, holder, lapsed>>
queueVars == <<ledgerVars, verdict>>
threadVars == <<status, turn, saved>>
journalVars == <<row, effects>>
localVars == <<item, myTurn, steps, limit>>
history == <<opened, completed, answered, failures>>
vars == <<deployment, queueVars, threadVars, logged, journalVars, at, localVars, history, crashes>>

ThreadOf == deployment.threadOf
Submitted == DOMAIN ThreadOf

Indices == 0..(MaxSteps - 1)
TurnIds == 1..MaxTurns
Phases == {"claimed", "turn_started", "turn_finished"}
Checkpoints == [phase : Phases, item : Items, limit : BOOLEAN]

\* Whose result a closed item has does not matter here.
Queue == INSTANCE LeaseLedger WITH closedBy <- [i \in Items |-> None]
Store == INSTANCE ThreadLifecycle WITH Turns <- TurnIds

Running == {"run", "tool", "intend", "effect", "record", "finish", "complete", "settle"}
Updating == {"markAcked", "markFailed", "markCancelled", "markFree"}
Locations ==
    Running \cup Updating
      \cup {"idle", "inspect", "drop", "defer", "open", "start", "mark",
            "finalize", "resettle", "fail", "endThread"}

TypeOK ==
    /\ deployment \in Deployments
    /\ Queue!TypeOK
    /\ verdict \in [Items -> {None, "acked", "failed", "cancelled"}]
    /\ Store!TypeOK
    /\ logged \subseteq Items
    /\ row \in [Items -> [Indices -> {"absent", "started", "completed"}]]
    /\ effects \in [Items -> [Indices -> Nat]]
    /\ at \in [Workers -> Locations]
    /\ item \in [Workers -> Items \cup {None}]
    /\ myTurn \in [Workers -> TurnIds \cup {None}]
    /\ steps \in [Workers -> 0..MaxSteps]
    /\ limit \in [Workers -> BOOLEAN]
    /\ opened \in Seq(Items) /\ Len(opened) <= MaxTurns
    /\ completed \subseteq TurnIds
    /\ answered \subseteq Items
    /\ failures \subseteq Items
    /\ crashes \in 0..deployment.crashes

Init ==
    /\ deployment \in Deployments
    /\ Queue!Init
    /\ verdict = [i \in Items |-> None]
    /\ Store!Init
    /\ logged = {}
    /\ row = [i \in Items |-> [n \in Indices |-> "absent"]]
    /\ effects = [i \in Items |-> [n \in Indices |-> 0]]
    /\ at = [w \in Workers |-> "idle"]
    /\ item = [w \in Workers |-> None]
    /\ myTurn = [w \in Workers |-> None]
    /\ steps = [w \in Workers |-> 0]
    /\ limit = [w \in Workers |-> FALSE]
    /\ opened = <<>>
    /\ completed = {}
    /\ answered = {}
    /\ failures = {}
    /\ crashes = 0

-----------------------------------------------------------------------------
(* Users: create_thread, submit, and the app server's pause, resume, cancel *)

UserStep(t) ==
    /\ t \in {ThreadOf[i] : i \in Submitted}
    /\ \/ Store!Create(t)
       \/ "pause" \in deployment.userOps /\ Store!Pause(t)
       \/ "resume" \in deployment.userOps /\ Store!Resume(t)
       \/ "cancel" \in deployment.userOps /\ Store!End(t, "cancelled")
    /\ UNCHANGED <<queueVars, logged, journalVars, at, localVars, history, crashes>>

\* submit logs the submission in the thread, and enqueues the item next.
LogSubmission(i) ==
    /\ i \in Submitted \ logged
    /\ Store!Live(ThreadOf[i])
    /\ logged' = logged \cup {i}
    /\ UNCHANGED <<queueVars, threadVars, journalVars, at, localVars, history, crashes>>

\* The items are numbered in the order of their enqueue, which is the order
\* of created_at in the queue.
Enqueue(i) ==
    /\ i \in logged
    /\ \A j \in Submitted : j < i => phase[j] # "unknown"
    /\ Queue!Open(i)
    /\ UNCHANGED <<verdict, threadVars, logged, journalVars, at, localVars, history, crashes>>

-----------------------------------------------------------------------------
(* Workers: run_one *)

MyItem(w) == item[w]
MyThread(w) == ThreadOf[item[w]]
Holds(w) == phase[item[w]] = "held" /\ holder[item[w]] = w

GoTo(w, place) == at' = [at EXCEPT ![w] = place]

\* run_one returns or raises; what it knew is gone.
Leave(w) ==
    /\ GoTo(w, "idle")
    /\ item' = [item EXCEPT ![w] = None]
    /\ myTurn' = [myTurn EXCEPT ![w] = None]
    /\ steps' = [steps EXCEPT ![w] = 0]
    /\ limit' = [limit EXCEPT ![w] = FALSE]

\* A worker's step that changes nothing but its own place.
Branch(w, place) ==
    /\ GoTo(w, place)
    /\ UNCHANGED <<queueVars, threadVars, logged, journalVars, localVars, history, crashes>>
GiveUp(w) ==
    /\ Leave(w)
    /\ UNCHANGED <<queueVars, threadVars, logged, journalVars, history, crashes>>

Claimable(i) == phase[i] = "free" \/ (phase[i] = "held" /\ i \in lapsed)

\* claim: the oldest eligible item.
Claim(w, scope) ==
    /\ at[w] = "idle"
    /\ \E i \in Submitted :
        /\ ThreadOf[i] \in scope
        /\ \A j \in Submitted : j < i /\ ThreadOf[j] \in scope => ~Claimable(j)
        /\ Queue!Grant(i, w)
        /\ item' = [item EXCEPT ![w] = i]
    /\ GoTo(w, "inspect")
    /\ UNCHANGED <<verdict, threadVars, logged, journalVars, myTurn, steps, limit,
                   history, crashes>>

\* A recovery that does not look whose checkpoint it found, for the mutants.
RecoversAny(w) == saved[MyThread(w)] # None

\* A running thread is recovered by the item its last checkpoint names.
Recovers(w) ==
    saved[MyThread(w)] # None /\ saved[MyThread(w)].item = MyItem(w)

\* run_one projects the thread and decides.
Inspect(w) ==
    LET s == status[MyThread(w)]
        c == saved[MyThread(w)]
    IN
    /\ at[w] = "inspect"
    /\ \/ s \in Store!Ended /\ Branch(w, "drop")
       \/ s = "running" /\ ~Recovers(w) /\ Branch(w, "defer")
       \/ s = "paused" /\ Branch(w, "defer")
       \/ s = "ready" /\ Branch(w, "open")
       \/ /\ s = "running" /\ Recovers(w)
          /\ GoTo(w, IF c.phase = "turn_finished" THEN "finalize" ELSE "run")
          /\ myTurn' = [myTurn EXCEPT ![w] = turn[MyThread(w)]]
          /\ limit' = [limit EXCEPT ![w] = c.phase = "turn_finished" /\ c.limit]
          /\ UNCHANGED <<queueVars, threadVars, logged, journalVars, item, steps,
                         history, crashes>>

\* A Drop that gives the item back instead, for the mutants.
DropByRelease(w) ==
    /\ at[w] = "drop"
    /\ \/ phase[MyItem(w)] # "closed" /\ Branch(w, "markFree")
       \/ phase[MyItem(w)] = "closed" /\ GiveUp(w)

\* queue.cancel: the thread has ended.
Drop(w) ==
    /\ at[w] = "drop"
    /\ \/ phase[MyItem(w)] # "closed" /\ Branch(w, "markCancelled")
       \/ phase[MyItem(w)] = "closed" /\ GiveUp(w)

\* queue.release: the thread is paused or runs a turn of another item.
Defer(w) ==
    /\ at[w] = "defer"
    /\ \/ Holds(w) /\ Branch(w, "markFree")
       \/ ~Holds(w) /\ GiveUp(w)

Overwrite(w, p, v) ==
    /\ phase' = [phase EXCEPT ![MyItem(w)] = p]
    /\ holder' = [holder EXCEPT ![MyItem(w)] = None]
    /\ lapsed' = lapsed \ {MyItem(w)}
    /\ verdict' = [verdict EXCEPT ![MyItem(w)] = v]
    /\ UNCHANGED <<threadVars, logged, journalVars, opened, completed, answered, crashes>>

\* The UPDATE of cancel, release, ack and fail comes after their check of the row
\* and names the item alone: it overwrites whatever has become of it meanwhile.
Update(w) ==
    \/ /\ at[w] = "markCancelled"
       /\ Overwrite(w, "closed", "cancelled") /\ Leave(w) /\ UNCHANGED failures
    \/ /\ at[w] = "markFree"
       /\ Overwrite(w, "free", None) /\ Leave(w) /\ UNCHANGED failures
    \/ /\ at[w] = "markAcked"
       /\ Overwrite(w, "closed", "acked") /\ Leave(w) /\ UNCHANGED failures
    \/ /\ at[w] = "markFailed"
       /\ Overwrite(w, "closed", "failed")
       /\ failures' = failures \cup {MyItem(w)}
       /\ GoTo(w, "endThread") /\ UNCHANGED localVars

\* A checkpoint of the worker's item; a thread that has ended rejects it.
SaveCheckpoint(w, p) ==
    Store!Checkpoint(MyThread(w), [phase |-> p, item |-> MyItem(w), limit |-> limit[w]])

\* checkpoint("claimed").  The exceptions of these three calls escape run_one:
\* its try block has not begun.
OpenTurn(w) ==
    /\ at[w] = "open"
    /\ \/ /\ SaveCheckpoint(w, "claimed")
          /\ GoTo(w, "start")
          /\ UNCHANGED <<queueVars, logged, journalVars, localVars, history, crashes>>
       \/ ~Store!Live(MyThread(w)) /\ GiveUp(w)

\* start_turn, under a fresh id.
StartTurn(w) ==
    LET u == Len(opened) + 1 IN
    /\ at[w] = "start"
    /\ \/ /\ u \in TurnIds
          /\ Store!StartTurn(MyThread(w), u)
          /\ opened' = Append(opened, MyItem(w))
          /\ myTurn' = [myTurn EXCEPT ![w] = u]
          /\ GoTo(w, "mark")
          /\ UNCHANGED <<queueVars, logged, journalVars, item, steps, limit,
                         completed, answered, failures, crashes>>
       \/ status[MyThread(w)] # "ready" /\ GiveUp(w)

\* checkpoint("turn_started")
MarkStarted(w) ==
    /\ at[w] = "mark"
    /\ \/ /\ SaveCheckpoint(w, "turn_started")
          /\ GoTo(w, "run")
          /\ UNCHANGED <<queueVars, logged, journalVars, localVars, history, crashes>>
       \/ ~Store!Live(MyThread(w)) /\ GiveUp(w)

\* The loop of run_turn.
MoreSteps(w) == steps[w] < MaxSteps

\* ControlledBackend.generate: renew the lease, then sample the model, which
\* answers, calls a tool, or raises.
Sample(w) ==
    /\ at[w] = "run"
    /\ MoreSteps(w)
    /\ Holds(w) /\ MyItem(w) \notin lapsed
    /\ Queue!Extend(MyItem(w))
    /\ \E place \in {"finish", "tool", "fail"} : GoTo(w, place)
    /\ steps' = [steps EXCEPT ![w] = @ + 1]
    /\ UNCHANGED <<verdict, threadVars, logged, journalVars, item, myTurn, limit,
                   history, crashes>>

\* renew_lease raises when the lease has run out or belongs to another.
LoseLease(w) ==
    /\ at[w] = "run"
    /\ MoreSteps(w)
    /\ ~Holds(w) \/ MyItem(w) \in lapsed
    /\ Branch(w, "fail")

\* The loop ends after max_model_steps samplings.
ReachLimit(w) ==
    /\ at[w] = "run"
    /\ steps[w] = MaxSteps
    /\ limit' = [limit EXCEPT ![w] = TRUE]
    /\ GoTo(w, "finish")
    /\ UNCHANGED <<queueVars, threadVars, logged, journalVars, item, myTurn, steps,
                   history, crashes>>

\* Whether an in-doubt call may run again, and for the mutants always.
RetriesAlways == TRUE
MayRetry == Retryable

\* The journal is looked up: a completed call is replayed, one in doubt refused,
\* and a call other than the recorded one is a ValueError that ends the turn.
CallTool(w) ==
    LET r == row[MyItem(w)][steps[w] - 1] IN
    /\ at[w] = "tool"
    /\ \/ r = "absent" /\ Branch(w, "intend")
       \/ r = "completed" /\ Branch(w, "run")
       \/ r = "started" /\ ~MayRetry /\ Branch(w, "run")
       \/ r = "started" /\ MayRetry /\ Branch(w, "effect")
       \/ r # "absent" /\ Branch(w, "fail")

\* begin records the intent.  A row of the same call that appeared meanwhile is
\* taken for its own; one of another call, or a clash of the INSERTs, raises.
Intend(w) ==
    LET r == row[MyItem(w)][steps[w] - 1] IN
    /\ at[w] = "intend"
    /\ \/ /\ r = "absent"
          /\ row' = [row EXCEPT ![MyItem(w)][steps[w] - 1] = "started"]
          /\ GoTo(w, "effect")
          /\ UNCHANGED <<queueVars, threadVars, logged, effects, localVars, history, crashes>>
       \/ r # "absent" /\ \E place \in {"effect", "fail"} : Branch(w, place)

Effect(w) ==
    /\ at[w] = "effect"
    /\ effects' = [effects EXCEPT ![MyItem(w)][steps[w] - 1] = @ + 1]
    /\ GoTo(w, "record")
    /\ UNCHANGED <<queueVars, threadVars, logged, row, localVars, history, crashes>>

\* journal.complete raises on a row that is completed already.
Record(w) ==
    LET r == row[MyItem(w)][steps[w] - 1] IN
    /\ at[w] = "record"
    /\ \/ /\ r = "started"
          /\ row' = [row EXCEPT ![MyItem(w)][steps[w] - 1] = "completed"]
          /\ GoTo(w, "run")
          /\ UNCHANGED <<queueVars, threadVars, logged, effects, localVars, history, crashes>>
       \/ r = "completed" /\ Branch(w, "fail")

\* checkpoint("turn_finished").  A background heartbeat that found the lease
\* lost makes the turn fail here; it need not have looked yet.
Finish(w) ==
    /\ at[w] = "finish"
    /\ \/ /\ SaveCheckpoint(w, "turn_finished")
          /\ answered' = answered \cup {MyItem(w)}
          /\ GoTo(w, "complete")
          /\ UNCHANGED <<queueVars, logged, journalVars, localVars, opened, completed, failures, crashes>>
       \/ ~Store!Live(MyThread(w)) /\ Branch(w, "fail")
       \/ (~Holds(w) \/ MyItem(w) \in lapsed) /\ Branch(w, "fail")

MayComplete(w) == status[MyThread(w)] = "running" /\ turn[MyThread(w)] = myTurn[w]

\* A complete_turn whose errors are ignored, for the mutants.
CompleteTurnLeniently(w) ==
    /\ at[w] \in {"complete", "finalize"}
    /\ \/ /\ Store!CompleteTurn(MyThread(w), myTurn[w])
          /\ completed' = completed \cup {myTurn[w]}
          /\ GoTo(w, IF at[w] = "complete" THEN "settle" ELSE "resettle")
          /\ UNCHANGED <<queueVars, logged, journalVars, localVars, opened, answered, failures, crashes>>
       \/ ~MayComplete(w) /\ Branch(w, IF at[w] = "complete" THEN "settle" ELSE "resettle")

\* complete_turn, at the end of the turn or when a finished turn is recovered
\* from its checkpoint; only the former is inside the try block.
CompleteTurn(w) ==
    /\ at[w] \in {"complete", "finalize"}
    /\ \/ /\ Store!CompleteTurn(MyThread(w), myTurn[w])
          /\ completed' = completed \cup {myTurn[w]}
          /\ GoTo(w, IF at[w] = "complete" THEN "settle" ELSE "resettle")
          /\ UNCHANGED <<queueVars, logged, journalVars, localVars, opened, answered, failures, crashes>>
       \/ at[w] = "complete" /\ ~MayComplete(w) /\ Branch(w, "fail")
       \/ at[w] = "finalize" /\ ~MayComplete(w) /\ GiveUp(w)

\* queue.ack, or queue.fail for a turn stopped by the limit.
Settle(w) ==
    /\ at[w] \in {"settle", "resettle"}
    /\ \/ Holds(w) /\ Branch(w, IF limit[w] THEN "markFailed" ELSE "markAcked")
       \/ at[w] = "settle" /\ ~Holds(w) /\ Branch(w, "fail")
       \/ at[w] = "resettle" /\ ~Holds(w) /\ GiveUp(w)

\* An except block that fails the thread first, for the mutants.
FailThreadFirst(w) == at[w] = "fail" /\ Branch(w, "endThread")

\* The except block: queue.fail, and then fail_thread.
Fail(w) ==
    /\ at[w] = "fail"
    /\ \/ Holds(w) /\ Branch(w, "markFailed")
       \/ ~Holds(w) /\ GiveUp(w)

\* fail_thread raises when the thread has ended.  Inside the try block that
\* leads to the except block, whose queue.fail then raises: the item is not the
\* worker's any more.
EndThread(w) ==
    /\ at[w] = "endThread"
    /\ \/ /\ Store!End(MyThread(w), "failed")
          /\ Leave(w)
          /\ UNCHANGED <<queueVars, logged, journalVars, history, crashes>>
       \/ ~Store!Live(MyThread(w)) /\ GiveUp(w)

-----------------------------------------------------------------------------
(* The environment of the workers *)

\* The process of a worker dies, and is started again.
Crash(w) ==
    /\ at[w] # "idle"
    /\ crashes < deployment.crashes
    /\ crashes' = crashes + 1
    /\ Leave(w)
    /\ UNCHANGED <<queueVars, threadVars, logged, journalVars, history>>

\* A lease that runs out under its worker, for the mutants.
LapseUnderWorker(i) ==
    /\ phase[i] = "held" /\ i \notin lapsed
    /\ lapsed' = lapsed \cup {i}
    /\ UNCHANGED <<phase, holder, verdict, threadVars, logged, journalVars,
                   at, localVars, history, crashes>>

\* A lease runs out; that of a worker at work only without a working heartbeat.
Lapse(i) ==
    /\ phase[i] = "held" /\ i \notin lapsed
    /\ deployment.beats => \A w \in Workers : ~(item[w] = i /\ holder[i] = w)
    /\ lapsed' = lapsed \cup {i}
    /\ UNCHANGED <<phase, holder, verdict, threadVars, logged, journalVars,
                   at, localVars, history, crashes>>

WorkerStep(w) ==
    \/ Inspect(w) \/ Drop(w) \/ Defer(w) \/ Update(w)
    \/ OpenTurn(w) \/ StartTurn(w) \/ MarkStarted(w)
    \/ Sample(w) \/ LoseLease(w) \/ ReachLimit(w)
    \/ CallTool(w) \/ Intend(w) \/ Effect(w) \/ Record(w)
    \/ Finish(w) \/ CompleteTurn(w) \/ Settle(w) \/ Fail(w) \/ EndThread(w)

Next ==
    /\ \/ \E t \in Threads : UserStep(t)
       \/ \E i \in Items : LogSubmission(i) \/ Enqueue(i) \/ Lapse(i)
       \/ \E w \in deployment.team :
           \/ \E scope \in SUBSET Threads : Claim(w, scope)
           \/ WorkerStep(w) \/ Crash(w)
    /\ UNCHANGED deployment

Spec == Init /\ [][Next]_vars

\* A worker that has begun goes on, somebody keeps calling run_one, and leases
\* run out.  Users owe nothing, and nobody has to crash.
Fairness ==
    /\ \A w \in Workers :
        /\ WF_vars(WorkerStep(w) /\ UNCHANGED deployment)
        /\ WF_vars(w \in deployment.team /\ Claim(w, Threads) /\ UNCHANGED deployment)
    /\ \A i \in Items : WF_vars(Lapse(i) /\ UNCHANGED deployment)

FairSpec == Spec /\ Fairness

-----------------------------------------------------------------------------
(* Properties *)

\* While heartbeats work, a tool call that is not retryable runs at most once
\* for its work item, through any number of crashes, reclaims and reruns of the
\* turn.
EffectOnce ==
    (deployment.beats /\ ~Retryable) => \A i \in Items, n \in Indices : effects[i][n] <= 1

\* A thread has one submission, or one worker does all the work.  Otherwise two
\* workers may overwrite each other's checkpoints on a thread, and a turn may then
\* be recovered for the wrong item, while another worker still runs it.
Orderly ==
    \/ \A i, j \in Submitted : ThreadOf[i] = ThreadOf[j] => i = j
    \/ \A v, w \in deployment.team : v = w

\* A worker inside a turn of an orderly deployment runs it for the item the turn
\* was started for: a recovered turn is never continued on behalf of another
\* submission.
TurnAnswersItsItem ==
    Orderly => \A w \in Workers :
        at[w] \in Running \cup {"finalize", "resettle"} => opened[myTurn[w]] = item[w]

\* An acknowledged item of an orderly deployment has a completed turn of its own,
\* whose outcome was checkpointed first; no crash makes the queue run ahead of the
\* thread.
AckedMeansAnswered ==
    Orderly => \A i \in Items : verdict[i] = "acked" =>
        i \in answered /\ \E u \in completed : opened[u] = i

\* A thread is failed only after queue.fail has marked one of its items so, which
\* takes the lease; while heartbeats work it stays marked.  Without them another
\* worker that passed the check of its own ack earlier may still overwrite that: the
\* thread is then failed and its item completed.
ThreadFailsAfterItem ==
    \A t \in Threads : status[t] = "failed" =>
        \E i \in failures : ThreadOf[i] = t /\ (deployment.beats => verdict[i] = "failed")

\* While heartbeats work, no two workers run turns of one thread of an orderly
\* deployment.
OneRunnerPerThread ==
    (deployment.beats /\ Orderly) => \A v, w \in Workers :
        (v # w /\ at[v] \in Running /\ at[w] \in Running) => MyThread(v) # MyThread(w)

\* An enqueued item is eventually acknowledged, failed or cancelled, although
\* the workers crash (lesson 06, section 7: "rather than stuck forever").
ItemsSettle ==
    \A i \in Items : phase[i] # "unknown" ~> phase[i] = "closed"
=============================================================================
