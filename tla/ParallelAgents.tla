--------------------------- MODULE ParallelAgents ---------------------------
(***************************************************************************)
(* ParallelAgentCoordinator (parallel_agents.py) over the agent graph and  *)
(* the mailbox.  One thread of one process hands tasks to worker agents:   *)
(* it sends the task as a message, claims that message for the worker,     *)
(* marks the worker BUSY and starts the callback in a thread pool; when    *)
(* callbacks are done it acks the message and marks the worker ACTIVE, or  *)
(* FAILED if the callback raised.  co.at is where the coordinator stands;  *)
(* each of its steps issues one statement, between which the process may   *)
(* die and other processes use the store.  Task i has the message id i.    *)
(*                                                                         *)
(* The run starts in one of three scenes: an empty tree of agents, two     *)
(* agents and an empty mailbox, or a team with its coordinator.            *)
(***************************************************************************)
EXTENDS AgentMailbox, Ordering

CONSTANTS
    Home,        \* the process the coordinator runs in
    Boss,        \* the coordinator agent
    Team,        \* the worker agents, a sequence
    Tasks,       \* the task ids, among Messages
    TaskLists,   \* the lists of distinct tasks callers pass to run
    TaskKind,    \* ParallelTask.kind
    Targets,     \* the workers another process writes to or cancels
    LeaseOf,     \* claim_owner of each worker agent
    MaxWorkers,  \* size of the thread pool
    MaxRuns      \* bound on the calls of run

Distinct(s) == \A i, j \in DOMAIN s : s[i] = s[j] => i = j

ASSUME TeamAssumption ==
    /\ Home \in Processes /\ Boss \in Agents /\ Targets \subseteq Agents
    /\ Team \in Seq(Agents \ {Boss}) /\ Distinct(Team)
    /\ Tasks \subseteq Messages /\ TaskKind \in Kinds
    /\ \A ts \in TaskLists : ts \in Seq(Tasks) /\ Distinct(ts)
    /\ MaxWorkers \in Nat \ {0} /\ MaxRuns \in Nat
    /\ LeaseOf \in [Range(Team) -> Workers]

VARIABLES
    co,      \* the state of the coordinator and of the call of run it is in
    known,   \* the workers that were live when the coordinator was built
    runs,    \* calls of run
    job,     \* the task whose future each worker has, or None
    future,  \* state of that future
    ran      \* how often the callback was started on each message

storeVars == <<parent, status, op, mailVars>>
poolVars == <<job, future, ran>>
vars == <<graphVars, mailVars, co, known, runs, poolVars>>

Workforce == Range(Team)
Place == [a \in Workforce |-> CHOOSE i \in DOMAIN Team : Team[i] = a]

Outcomes == {"none", "running", "returned", "raised"}
Result == [task : Tasks, agent : Workforce, outcome : Outcomes]
Steps == {"unbuilt", "ready", "loop", "look", "send", "lookup", "claim", "hire", "busy", "submit",
          "reap", "ack", "report", "verdict", "collect", "returned", "aborting"}

TypeOK ==
    /\ TreeTypeOK /\ MailTypeOK
    /\ scene \in {"tree", "mail", "team"} /\ users \in {{Home}, Processes}
    /\ op \in [Processes -> {NoCall} \cup TreeCalls \cup MailCalls]
    /\ co \in [at : Steps, task : Messages \cup {None}, agent : Workforce \cup {None},
               asked : SUBSET Tasks, todo : Seq(Tasks), avail : Seq(Workforce),
               batch : SUBSET Workforce, results : SUBSET Result]
    /\ known \in SUBSET Workforce
    /\ runs \in Nat
    /\ job \in [Agents -> Messages \cup {None}]
    /\ future \in [Agents -> Outcomes]
    /\ ran \in [Messages -> Nat]

NoFutures ==
    /\ job' = [a \in Agents |-> None]
    /\ future' = [a \in Agents |-> "none"]
    /\ UNCHANGED ran

Init ==
    /\ \/ scene = "tree" /\ users \in {{Home}, Processes}
       \/ scene = "mail" /\ users = {Home}
       \/ scene = "team" /\ users \in {{Home}, Processes}
    /\ parent = [a \in Agents |->
         IF scene # "tree" /\ a \in Workforce THEN Boss ELSE None]
    /\ status = [a \in Agents |->
         IF scene # "tree" /\ a \in Workforce \cup {Boss} THEN "active" ELSE "absent"]
    /\ op = [p \in Processes |-> NoCall]
    /\ clock = 1
    /\ mail = [m \in Messages |-> "absent"]
    /\ to = [m \in Messages |-> None]
    /\ kind = [m \in Messages |-> None]
    /\ sent = [m \in Messages |-> 0]
    /\ owner = [m \in Messages |-> None]
    /\ until = [m \in Messages |-> 0]
    /\ acker = [m \in Messages |-> None]
    /\ co = [at |-> "unbuilt", task |-> None, agent |-> None, asked |-> {}, todo |-> <<>>,
             avail |-> <<>>, batch |-> {}, results |-> {}]
    /\ known = {} /\ runs = 0
    /\ job = [a \in Agents |-> None]
    /\ future = [a \in Agents |-> "none"]
    /\ ran = [m \in Messages |-> 0]

At(step) == co.at = step
Go(step) == co' = [co EXCEPT !.at = step]

-----------------------------------------------------------------------------
(* run *)

\* The constructor reads the workers once; run looks at that snapshot.
Build ==
    /\ At("unbuilt") /\ runs < MaxRuns
    /\ Go("ready")
    /\ known' = {a \in Workforce : ~Terminated(a)}
    /\ UNCHANGED runs

\* co keeps the tasks of the run (asked), the queues pending (todo) and
\* available (avail), the workers whose futures wait returned (batch), and
\* the worker and the task it is launching or answering.
Start(ts) ==
    /\ At("ready") \/ At("returned")
    /\ runs < MaxRuns /\ known # {}
    /\ co' = [co EXCEPT !.at = "loop", !.asked = Range(ts), !.todo = ts, !.results = {},
                        !.avail = Ordered(known, Place), !.batch = {}]
    /\ runs' = runs + 1
    /\ UNCHANGED known

\* Faulty variants the checks must notice (see the mutants in PROJECT.json).
TakesAnyMessage(m) == TRUE
ActiveAfterAll(a) == "active"

Running == {a \in Workforce : future[a] # "none"}
CanLaunch == co.todo # <<>> /\ co.avail # <<>> /\ Cardinality(Running) < MaxWorkers

Launch ==
    /\ At("loop") /\ CanLaunch
    /\ co' = [co EXCEPT !.at = "look",
                        !.task = Head(co.todo), !.todo = Tail(co.todo),
                        !.agent = Head(co.avail), !.avail = Tail(co.avail)]

\* launch reads the worker, and send reads the coordinator and the worker: no
\* write lies between these reads, and they are one step.  What any of the
\* calls raises leaves run through the executor's exit.
LookUp ==
    /\ At("look")
    /\ Go(IF Live(Boss) /\ Live(co.agent) THEN "send" ELSE "aborting")

SendTask ==
    /\ At("send")
    /\ IF mail[co.task] = "absent"
       THEN InsertMail(co.task, co.agent, TaskKind) /\ Go("lookup")
       ELSE UNCHANGED mailVars /\ Go("aborting")

ClaimLook ==
    /\ At("lookup")
    /\ Go(IF Live(co.agent) THEN "claim" ELSE "aborting")

\* Older mail of the same kind is claimed instead of the task just sent, and
\* stays leased when launch raises for it.
IsTheTask(m) == m = co.task

ClaimTask ==
    /\ At("claim")
    /\ IF Waiting(co.agent, {TaskKind}) = {}
       THEN UNCHANGED mailVars /\ Go("aborting")
       ELSE \E m \in Messages :
              /\ IsNext(m, co.agent, {TaskKind})
              /\ LeaseTo(m, LeaseOf[co.agent])
              /\ co' = [co EXCEPT !.task = m, !.at = IF IsTheTask(m) THEN "hire" ELSE "aborting"]

\* set_status reads the row; the status it has already is not written again.
SetTo(s, checked, skipped) ==
    Go(CASE MayBecome(co.agent, s) -> checked
         [] status[co.agent] = s   -> skipped
         [] OTHER                  -> "aborting")

Write(s, next) ==
    /\ status' = [status EXCEPT ![co.agent] = s]
    /\ Go(next)

Hire == At("hire") /\ SetTo("busy", "busy", "submit")
WriteBusy == At("busy") /\ Write("busy", "submit")

Submit ==
    /\ At("submit")
    /\ job' = [job EXCEPT ![co.agent] = co.task]
    /\ future' = [future EXCEPT ![co.agent] = "running"]
    /\ ran' = [ran EXCEPT ![co.task] = @ + 1]
    /\ Go("loop")

\* The callback of a worker ends in its thread.
WorkerEnds(a, outcome) ==
    /\ future[a] = "running"
    /\ future' = [future EXCEPT ![a] = outcome]
    /\ UNCHANGED <<co, job, ran>>

Done == {a \in Workforce : future[a] \in {"returned", "raised"}}

Wait ==
    /\ At("loop") /\ ~CanLaunch
    /\ Done # {}
    /\ co' = [co EXCEPT !.at = "reap", !.batch = Done]

\* The futures of the batch, in any order: the message must be leased still.
Reap ==
    /\ At("reap")
    /\ \E a \in co.batch :
         co' = [co EXCEPT !.agent = a, !.task = job[a], !.batch = @ \ {a},
                          !.at = IF HeldBy(job[a], LeaseOf[a]) THEN "ack" ELSE "aborting"]

AckTask == At("ack") /\ AckMail(co.task, LeaseOf[co.agent]) /\ Go("report")

Verdict(a) == IF future[a] = "raised" THEN "failed" ELSE "active"

Report == At("report") /\ SetTo(Verdict(co.agent), "verdict", "collect")
WriteVerdict == At("verdict") /\ Write(Verdict(co.agent), "collect")

\* _normalize_result: whatever ids the callback put in it, the result is for
\* the task and the agent it was started with.
ResultOf(a) == [task |-> co.task, agent |-> a, outcome |-> future[a]]

\* Only a worker that did not raise is available again.
CollectResult ==
    LET a == co.agent
    IN  /\ At("collect")
        /\ co' = [co EXCEPT
             !.results = @ \cup {ResultOf(a)},
             !.avail = IF future[a] = "returned" THEN Append(@, a) ELSE @,
             !.at = IF co.batch = {} THEN "loop" ELSE "reap"]
        /\ future' = [future EXCEPT ![a] = "none"]
        /\ job' = [job EXCEPT ![a] = None]
        /\ UNCHANGED ran

\* Every task is answered, or tasks are left and no worker is.
Finish ==
    /\ At("loop") /\ Running = {} /\ ~CanLaunch
    /\ Go(IF co.todo = <<>> THEN "returned" ELSE "aborting")

\* Leaving the executor waits for the callbacks that run; what they return is
\* dropped.  The caller may use the coordinator again.
Abort ==
    /\ At("aborting")
    /\ \A a \in Workforce : future[a] # "running"
    /\ Go("ready")
    /\ NoFutures

\* The process dies with its threads; what is stored stays.
Die ==
    /\ co.at \notin {"unbuilt", "ready", "returned"}
    /\ Go("unbuilt")
    /\ NoFutures

-----------------------------------------------------------------------------
TeamStep ==
    \/ (Build \/ \E ts \in TaskLists : Start(ts)) /\ UNCHANGED <<storeVars, poolVars>>
    \/ /\ UNCHANGED <<known, runs>>
       /\ \/ /\ Launch \/ LookUp \/ ClaimLook \/ Hire \/ Wait \/ Reap \/ Report \/ Finish
             /\ UNCHANGED <<storeVars, poolVars>>
          \/ /\ SendTask \/ ClaimTask \/ AckTask
             /\ UNCHANGED <<parent, status, op, poolVars>>
          \/ /\ WriteBusy \/ WriteVerdict
             /\ UNCHANGED <<parent, op, mailVars, poolVars>>
          \/ /\ \/ Submit \/ CollectResult \/ Abort \/ Die
                \/ \E a \in Workforce, o \in {"returned", "raised"} : WorkerEnds(a, o)
             /\ UNCHANGED storeVars

\* What another process does to a team: it sends a worker mail that is not a
\* task, withdraws a message, or cancels an agent with all below it.
Meddle(p) ==
    \/ /\ \/ \E a \in Targets, m \in Letters \ Tasks : BeginSend(p, Boss, a, m, TaskKind)
          \/ \E m \in Messages : BeginCancelMessage(p, m)
          \/ Send(p) \/ CancelMessage(p)
       /\ UNCHANGED <<parent, status>>
    \/ /\ \/ \E a \in Targets : BeginCancelSubtree(p, a)
          \/ Collect(p) \/ LookAgain(p) \/ CheckAgain(p) \/ WriteCancelled(p)
       /\ UNCHANGED mailVars

Next ==
    /\ \/ /\ scene = "tree"
          /\ \E p \in users : TreeStep(p)
          /\ UNCHANGED <<mailVars, co, known, runs, poolVars>>
       \/ /\ scene = "mail"
          /\ \/ \E p \in users : MailStep(p) /\ UNCHANGED <<parent, status>>
             \/ \E p \in users : Crash(p) /\ UNCHANGED mailVars
             \/ Tick /\ UNCHANGED <<parent, status, op>>
          /\ UNCHANGED <<co, known, runs, poolVars>>
       \/ /\ scene = "team"
          /\ \/ TeamStep
             \/ /\ \/ \E p \in users \ {Home} : Meddle(p)
                   \/ Tick /\ UNCHANGED <<parent, status, op>>
                /\ UNCHANGED <<co, known, runs, poolVars>>
    /\ UNCHANGED <<scene, users>>

Spec == Init /\ [][Next]_vars

-----------------------------------------------------------------------------
(* Properties *)

\* A callback is started at most once for a task, on the agent the task was
\* sent to, whatever older mail waits, whoever meddles, and however often the
\* coordinator dies and is run again with the same tasks.
TaskRunsOnce ==
    /\ \A m \in Messages : ran[m] <= IF m \in Tasks THEN 1 ELSE 0
    /\ \A a \in Workforce : job[a] # None => to[job[a]] = a

\* A run that returns with nobody meddling has one result for every task it
\* was asked, from the agent the task was sent to; the mailbox has every one
\* acked by that agent's lease; and a worker is failed if its callback raised.
ReturnedMeansAnswered ==
    At("returned") /\ Alone =>
        /\ {r.task : r \in co.results} = co.asked
        /\ Cardinality(co.results) = Cardinality(co.asked)
        /\ \A r \in co.results :
             /\ to[r.task] = r.agent
             /\ mail[r.task] = "acked" /\ acker[r.task] = LeaseOf[r.agent]
             /\ r.outcome = "raised" => status[r.agent] = "failed"
=============================================================================
