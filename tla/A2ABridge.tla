----------------------------- MODULE A2ABridge -----------------------------
(***************************************************************************)
(* DurableRuntimeA2AHandler (a2a_runtime_bridge.py): the handler that runs *)
(* each user message of an A2A task as one work item of the task's own     *)
(* thread in the durable runtime.  The runtime is seen as the handler sees *)
(* it: a queue of items, oldest first, the item whose turn the thread is   *)
(* in, and whether the thread has failed; AgentRuntime.tla has the rest.   *)
(* The item of message m has the id m, and Foreign is an item of a thread  *)
(* that is no task's.                                                      *)
(***************************************************************************)
EXTENDS A2ATasks

CONSTANT Foreign

ASSUME BridgeAssumption == Foreign \notin Nat \cup {None}

VARIABLES
    line,    \* table work_items by created_at: message and task of each
    item,    \* status of each work item
    turn,    \* the item whose turn each task's thread is in, or None
    failed   \* the tasks whose thread has failed

bridgeVars == <<line, item, turn, failed>>

InitBridge ==
    /\ line = <<[msg |-> Foreign, task |-> None]>>
    /\ item = [m \in Messages \cup {Foreign} |-> IF m = Foreign THEN "pending" ELSE "absent"]
    /\ turn = [t \in Tasks |-> None]
    /\ failed = {}

BridgeTypeOK ==
    /\ line \in Seq([msg : Messages \cup {Foreign}, task : Tasks \cup {None}])
    /\ item \in [Messages \cup {Foreign} ->
         {"absent", "pending", "leased", "lapsed", "completed", "failed", "cancelled"}]
    /\ turn \in [Tasks -> Messages \cup {None}] /\ failed \subseteq Tasks

Reply(p, s, answer, arts) == Result(p, s, <<AgentSays(call[p].msg, answer)>>, arts)

\* The message has a part the bridge refuses; or its work item is submitted,
\* unless the thread is over or the item exists; both raise and fail the task.
Submit(p) ==
    LET c == call[p]
    IN  /\ At(p, "handle")
        /\ \/ Reply(p, "rejected", None, {}) /\ UNCHANGED bridgeVars
           \/ IF c.task \in failed \/ item[c.msg] # "absent"
              THEN Reply(p, "failed", None, {}) /\ UNCHANGED bridgeVars
              ELSE /\ line' = Append(line, [msg |-> c.msg, task |-> c.task])
                   /\ item' = [item EXCEPT ![c.msg] = "pending"]
                   /\ Goto(p, "run")
                   /\ UNCHANGED <<turn, failed, now>>

\* Faulty variant the checks must notice (see the mutants in PROJECT.json).
AnyThread(p, e) == TRUE

\* run_one is fenced to the threads of the task.
Allowed(p, e) == e.task = call[p].task
Claimable(p) ==
    {i \in 1..Len(line) : Allowed(p, line[i]) /\ item[line[i].msg] \in {"pending", "lapsed"}}

\* The artifacts of the thread.  runtime.snapshot_artifact stores them, which
\* run_one does not call: one for each completed turn stands for whatever the
\* embedding program stores while a turn runs.
Produced(t) == {e.msg : e \in {x \in Range(line) : x.task = t /\ item[x.msg] = "completed"}}

\* The item is put back or cancelled, and the task fails.
Defer(p, m, status) ==
    /\ Reply(p, "failed", None, Produced(call[p].task))
    /\ item' = [item EXCEPT ![m] = status]
    /\ UNCHANGED turn

\* The oldest item is claimed; it may be an older one than the message's.
\* A failed thread cancels it, a thread in another item's turn defers it.  The
\* claim and the calls up to start_turn are one step here, AgentRuntime has them
\* one by one.
Claim(p) ==
    LET m == line[Min(Claimable(p))].msg
        t == call[p].task
    IN  /\ At(p, "run")
        /\ IF Claimable(p) = {} THEN Reply(p, "failed", None, {}) /\ UNCHANGED <<item, turn>>
           ELSE IF t \in failed
           THEN Defer(p, m, "cancelled")
           ELSE IF turn[t] \notin {None, m}
           THEN Defer(p, m, "pending")
           ELSE /\ item' = [item EXCEPT ![m] = "leased"]
                /\ turn' = [turn EXCEPT ![t] = m]
                /\ call' = [call EXCEPT ![p].step = "turn", ![p].work = m]
                /\ UNCHANGED now
        /\ UNCHANGED <<line, failed>>

\* The turn ends: its answer is the reply, and every artifact of the thread
\* that the task lacks is projected; or it fails and the thread with it, by an
\* exception, or by the step limit, which is returned and projects them too.
FinishTurn(p) ==
    LET m == call[p].work
        t == call[p].task
    IN  /\ At(p, "turn")
        /\ turn' = [turn EXCEPT ![t] = None]
        /\ \/ /\ Reply(p, "completed", m, Produced(t) \cup {m})
              /\ item' = [item EXCEPT ![m] = "completed"]
              /\ UNCHANGED failed
           \/ /\ \E projected \in {{}, Produced(t)} : Reply(p, "failed", None, projected)
              /\ item' = [item EXCEPT ![m] = "failed"]
              /\ failed' = failed \cup {t}
        /\ UNCHANGED line

\* The lease of a process that died runs out.
Lapse(m) ==
    /\ item[m] = "leased"
    /\ \A p \in Processes : ~(At(p, "turn") /\ call[p].work = m)
    /\ item' = [item EXCEPT ![m] = "lapsed"]
    /\ UNCHANGED <<line, turn, failed>>

BridgeStep(p) == (Submit(p) \/ Claim(p) \/ FinishTurn(p)) /\ UNCHANGED <<store, journal, sent, calls>>
=============================================================================
