------------------------------ MODULE A2ATasks ------------------------------
(***************************************************************************)
(* The A2A task service (a2a.py) over its SQLite store, and the journal of *)
(* task snapshots that JournaledA2AService adds (a2a_subscription.py).     *)
(* A process runs one call at a time; each step of a call issues one       *)
(* statement, and what it read before lives in call[p].snap.  Between two  *)
(* steps other processes use the store, or the process dies.               *)
(*                                                                         *)
(* A task is the record that task_json encodes: its status (state, and the *)
(* timestamp `at`), the history and its artifacts, of which only the set   *)
(* of ids is kept: the code appends, so that an id may come again with     *)
(* other content.  Message ids stand for the user messages, and a reply    *)
(* names the message it replies to and the one whose work its text answers.*)
(***************************************************************************)
EXTENDS Naturals, Sequences, SequencesExt

CONSTANTS
    Processes,  \* the processes that open the store
    Journaled,  \* those whose service is a JournaledA2AService
    MaxTasks,   \* bound on the tasks created
    MaxMessages,\* bound on the user messages sent
    Arts,       \* artifact ids a plain handler may return
    None

ASSUME A2AAssumption ==
    /\ Journaled \subseteq Processes
    /\ {MaxTasks, MaxMessages} \subseteq Nat /\ None \notin Nat

\* Messages are numbered as they are sent.  The number of a task is its place
\* among all tasks by created_at and task_id: put stamps the row before it
\* inserts it, another process may insert in between, the clock may step back,
\* equal stamps are ordered by random ids.  So a new task may get any place.
Tasks == 1..MaxTasks
Messages == 1..MaxMessages

VARIABLES
    users,    \* the processes that take part
    calm,     \* no process dies in this behaviour
    store,    \* table a2a_tasks
    journal,  \* table a2a_task_updates: update i is journal[i]
    call,     \* the call each process is in
    sent,     \* messages that were sent
    calls,    \* calls that were begun
    now       \* timestamps given to statuses

taskVars == <<store, journal, call, sent, calls, now>>

NoTask == [state |-> "absent", at |-> 0, history |-> <<>>, arts |-> {}]
NoCall == [step |-> "idle", verb |-> None, task |-> None, msg |-> None,
           snap |-> NoTask, next |-> None, old |-> {}, work |-> None]

TerminalStates == {"completed", "failed", "canceled", "rejected"}
Terminal(task) == task.state \in TerminalStates
Existing == {t \in Tasks : store[t] # NoTask}
Processable == {"submitted", "input_required"}

InitTasks ==
    /\ store = [t \in Tasks |-> NoTask]
    /\ journal = <<>>
    /\ call = [p \in Processes |-> NoCall]
    /\ sent = 0 /\ calls = 0 /\ now = 0

\* What stands in a history.
UserSays(m) == [from |-> "user", msg |-> m, answer |-> None]
AgentSays(m, answer) == [from |-> "agent", msg |-> m, answer |-> answer]
Entries == {UserSays(m) : m \in Messages}
    \cup {AgentSays(m, answer) : m \in Messages \cup {None}, answer \in Messages \cup {None}}
TaskRecords ==
    [state : {"absent", "submitted", "working", "input_required"} \cup TerminalStates,
     at : Nat, history : Seq(Entries), arts : SUBSET (Arts \cup Messages)]

Steps ==
    {"idle", "put", "respond", "note", "insert", "stream", "enter", "check", "working",
     "handle", "run", "turn", "final", "emit", "streamed"}
Calls ==
    [step : Steps, verb : {"post", "send", "stream", "process", "cancel", None},
     task : Tasks \cup {None}, msg : Messages \cup {None}, snap : TaskRecords,
     next : Steps \cup {None}, old : SUBSET (Arts \cup Messages), work : Messages \cup {None}]

TasksTypeOK ==
    /\ users \subseteq Processes /\ calm \in BOOLEAN
    /\ store \in [Tasks -> TaskRecords]
    /\ journal \in Seq([task : Tasks, snap : TaskRecords])
    /\ call \in [Processes -> Calls]
    /\ sent \in 0..MaxMessages /\ calls \in Nat /\ now \in Nat

At(p, step) == call[p].step = step
Goto(p, step) == call' = [call EXCEPT ![p].step = step]
Hold(p, step, task) == call' = [call EXCEPT ![p].step = step, ![p].snap = task]
Return(p) == call' = [call EXCEPT ![p] = NoCall]

\* A new status carries its own timestamp.
WithStatus(task, s) == [task EXCEPT !.state = s, !.at = now + 1]
Said(task, entry) == [task EXCEPT !.history = Append(@, entry)]

\* _history_limited: the last n entries.
Limited(task, n) ==
    IF n = None \/ n >= Len(task.history) THEN task
    ELSE [task EXCEPT !.history = SubSeq(@, Len(@) - n + 1, Len(@))]

-----------------------------------------------------------------------------
(* SendMessage *)

\* A call begins; what it reads first is in snap.
Begin(p, step, verb, t, task) ==
    /\ calls' = calls + 1
    /\ call' = [call EXCEPT ![p] = [NoCall EXCEPT !.step = step, !.verb = verb, !.task = t, !.snap = task]]

Submitted(task, m) == Said(WithStatus(task, "submitted"), UserSays(m))
Sent ==
    /\ sent < MaxMessages
    /\ sent' = sent + 1
    /\ now' = now + 1

\* "post" returns immediately, "stream" does in its first half.
AfterPut(verb) == IF verb \in {"post", "stream"} THEN "respond" ELSE "enter"

\* The id of a new task is fresh, and put inserts it at its place in the order.
SendNew(p, verb, t) ==
    LET task == Submitted(NoTask, sent + 1)
    IN  /\ At(p, "idle") /\ t \notin Existing
        /\ Sent
        /\ Begin(p, AfterPut(verb), verb, t, task)
        /\ store' = [store EXCEPT ![t] = task]
        /\ UNCHANGED journal

\* Faulty variant the checks must notice (see the mutants in PROJECT.json).
AnyTask(task) == task # NoTask

MayContinue(task) == task # NoTask /\ ~Terminal(task)

SendMore(p, verb, t) ==
    /\ At(p, "idle") /\ MayContinue(store[t])
    /\ Sent
    /\ Begin(p, "put", verb, t, Submitted(store[t], sent + 1))
    /\ UNCHANGED <<store, journal>>

Put(p, step) ==
    /\ store' = [store EXCEPT ![call[p].task] = call[p].snap]
    /\ Goto(p, step)
    /\ UNCHANGED <<journal, sent, calls, now>>

PutMore(p) == At(p, "put") /\ Put(p, AfterPut(call[p].verb))

\* What send_message returns, and journals once more.
Answered(p, limit) == Limited(call[p].snap, limit)

\* limits: the values of history_length, None for no limit.
Respond(p, limits) ==
    LET c == call[p]
        first == c.verb = "stream" /\ c.next = None
    IN  /\ At(p, "respond")
        /\ \E limit \in limits :
             call' = [call EXCEPT ![p].step = "note", ![p].snap = Answered(p, limit),
                                  ![p].next = IF first THEN "stream" ELSE "idle",
                                  ![p].old = IF first THEN c.snap.arts ELSE @]

\* stream_send_message: the client has the first frame and keeps reading, or
\* closes the stream and the task stays submitted.
Stream(p) ==
    /\ At(p, "stream")
    /\ Goto(p, "enter") \/ Return(p)

-----------------------------------------------------------------------------
(* The journal: append reads the task's latest row, then inserts. *)

RowsOf(t) == {i \in 1..Len(journal) : journal[i].task = t}
SameAsLatest(t, task) == RowsOf(t) # {} /\ journal[Max(RowsOf(t))].snap = task

AfterNote(p) == IF call[p].next = "idle" THEN Return(p) ELSE Goto(p, call[p].next)

\* Faulty variant the checks must notice (see the mutants in PROJECT.json).
NotTheCancelled(p) == p \in Journaled /\ call[p].verb # "cancel"

\* Each override of JournaledA2AService appends what the call returns.
Journals(p) == p \in Journaled

Note(p) ==
    /\ At(p, "note")
    /\ IF ~Journals(p) \/ SameAsLatest(call[p].task, call[p].snap)
       THEN AfterNote(p) ELSE Goto(p, "insert")

InsertRow(p) ==
    /\ At(p, "insert")
    /\ journal' = Append(journal, [task |-> call[p].task, snap |-> call[p].snap])
    /\ AfterNote(p)
    /\ UNCHANGED <<store, sent, calls, now>>

-----------------------------------------------------------------------------
(* process_task *)

\* A runner processes a task that somebody posted.
BeginProcess(p, t) ==
    /\ At(p, "idle") /\ store[t] # NoTask
    /\ Begin(p, "enter", "process", t, NoTask)
    /\ UNCHANGED <<sent, now>>

Enter(p) ==
    /\ At(p, "enter")
    /\ call' = [call EXCEPT ![p].step = "note", ![p].snap = store[call[p].task], ![p].next = "check"]

\* What is left to do when process_task returns.
AfterProcess(verb) == CASE verb = "send" -> "respond" [] verb = "stream" -> "emit" [] OTHER -> "idle"

LatestUser(task) == task.history[Max({i \in DOMAIN task.history : task.history[i].from = "user"})].msg

Check(p) ==
    LET task == store[call[p].task]
    IN  /\ At(p, "check")
        /\ IF Terminal(task)
           THEN /\ call' = [call EXCEPT ![p].step = "note", ![p].snap = task,
                                        ![p].next = AfterProcess(call[p].verb)]
                /\ UNCHANGED now
           ELSE IF task.state \in Processable
           THEN /\ call' = [call EXCEPT ![p].step = "working", ![p].msg = LatestUser(task),
                                        ![p].snap = WithStatus(task, "working")]
                /\ now' = now + 1
           ELSE Return(p) /\ UNCHANGED now
        /\ UNCHANGED <<store, journal, sent, calls>>

PutWorking(p) == At(p, "working") /\ Put(p, "handle")

\* The snapshot to store is built from the one the handler was given.  Of the
\* artifacts, which are appended, the ids remain.
Result(p, s, replies, arts) ==
    LET task == WithStatus([call[p].snap EXCEPT !.arts = @ \cup arts], s)
    IN  /\ Hold(p, "final", [task EXCEPT !.history = @ \o replies])
        /\ now' = now + 1

\* A handler of another kind: it returns a state (failed and rejected are
\* stored as completed is) and one of results, which says whether it replies
\* and the artifacts; or raises; or returns a state the service refuses, and
\* the task stays working.
PlainHandler(p, results) ==
    /\ At(p, "handle")
    /\ \/ \E s \in {"completed", "input_required"}, r \in results :
            Result(p, s, IF r.replies THEN <<AgentSays(call[p].msg, call[p].msg)>> ELSE <<>>, r.arts)
       \/ Result(p, "failed", <<AgentSays(call[p].msg, None)>>, {})
       \/ Return(p) /\ UNCHANGED now
    /\ UNCHANGED <<store, journal, sent, calls>>

PutFinal(p) ==
    /\ At(p, "final")
    /\ store' = [store EXCEPT ![call[p].task] = call[p].snap]
    /\ call' = [call EXCEPT ![p].step = "note", ![p].next = AfterProcess(call[p].verb)]
    /\ UNCHANGED <<journal, sent, calls, now>>

\* Faulty variant the checks must notice (see the mutants in PROJECT.json).
OwedNothing(p) == {}

\* The frames a stream still owes its reader: the artifacts under ids that the
\* first frame did not show, and the final status.
Owed(p) == call[p].snap.arts \ call[p].old

Emit(p) ==
    /\ At(p, "emit")
    /\ call' = [call EXCEPT ![p].step = "streamed", ![p].old = @ \cup Owed(p)]

CloseStream(p) ==
    /\ At(p, "streamed")
    /\ Return(p)

-----------------------------------------------------------------------------
(* CancelTask *)

MayCancel(task) == task # NoTask /\ ~Terminal(task)

BeginCancel(p, t) ==
    /\ At(p, "idle") /\ MayCancel(store[t])
    /\ Begin(p, "final", "cancel", t, Said(WithStatus(store[t], "canceled"), AgentSays(None, None)))
    /\ now' = now + 1
    /\ UNCHANGED sent

Crash(p) ==
    /\ ~calm /\ ~At(p, "idle")
    /\ Return(p)
    /\ UNCHANGED <<store, journal, sent, calls, now>>

TaskStep(p, limits) ==
    \/ PutMore(p) \/ InsertRow(p) \/ Check(p) \/ PutWorking(p) \/ PutFinal(p)
    \/ /\ Respond(p, limits) \/ Stream(p) \/ Note(p) \/ Enter(p) \/ Emit(p) \/ CloseStream(p)
       /\ UNCHANGED <<store, journal, sent, calls, now>>
=============================================================================
