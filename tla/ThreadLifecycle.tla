-------------------------- MODULE ThreadLifecycle --------------------------
(***************************************************************************)
(* What the event log of an agent thread promises to those who read its    *)
(* projection: a thread is ready, runs one turn at a time, may be paused   *)
(* and resumed, keeps the last checkpoint written, and once it is          *)
(* completed, failed or cancelled never changes again.                     *)
(*                                                                         *)
(* DurableThread.tla (durable.py) implements this module as long as one    *)
(* client uses the log at a time; AgentRuntime.tla is built on it.         *)
(***************************************************************************)

CONSTANTS Threads, Turns, Checkpoints, None

VARIABLES
    status,   \* projected status; "absent" for a thread without events
    turn,     \* projected active_turn_id
    saved     \* projected last_checkpoint

threadVars == <<status, turn, saved>>

Ended == {"completed", "failed", "cancelled"}
Live(t) == status[t] \notin Ended \cup {"absent"}

TypeOK ==
    /\ status \in [Threads -> {"absent", "ready", "running", "paused"} \cup Ended]
    /\ turn \in [Threads -> Turns \cup {None}]
    /\ saved \in [Threads -> Checkpoints \cup {None}]

Init ==
    /\ status = [t \in Threads |-> "absent"]
    /\ turn = [t \in Threads |-> None]
    /\ saved = [t \in Threads |-> None]

SetStatus(t, s) == status' = [status EXCEPT ![t] = s]

Create(t) ==
    /\ status[t] = "absent"
    /\ SetStatus(t, "ready")
    /\ UNCHANGED <<turn, saved>>

StartTurn(t, u) ==
    /\ status[t] = "ready"
    /\ SetStatus(t, "running")
    /\ turn' = [turn EXCEPT ![t] = u]
    /\ UNCHANGED saved

CompleteTurn(t, u) ==
    /\ status[t] = "running" /\ turn[t] = u
    /\ SetStatus(t, "ready")
    /\ turn' = [turn EXCEPT ![t] = None]
    /\ UNCHANGED saved

Checkpoint(t, s) ==
    /\ Live(t)
    /\ saved' = [saved EXCEPT ![t] = s]
    /\ UNCHANGED <<status, turn>>

\* Pausing does not end the turn that was running, and resuming forgets it:
\* the thread is ready again although turn still names it.
Pause(t) ==
    /\ status[t] \in {"ready", "running"}
    /\ SetStatus(t, "paused")
    /\ UNCHANGED <<turn, saved>>

Resume(t) ==
    /\ status[t] = "paused"
    /\ SetStatus(t, "ready")
    /\ UNCHANGED <<turn, saved>>

\* The thread is completed (not while it runs), failed or cancelled.
End(t, s) ==
    /\ Live(t)
    /\ s = "completed" => status[t] # "running"
    /\ SetStatus(t, s)
    /\ turn' = [turn EXCEPT ![t] = None]
    /\ UNCHANGED saved

Next ==
    \E t \in Threads :
        \/ Create(t) \/ Pause(t) \/ Resume(t)
        \/ \E u \in Turns : StartTurn(t, u) \/ CompleteTurn(t, u)
        \/ \E s \in Checkpoints : Checkpoint(t, s)
        \/ \E s \in Ended : End(t, s)

Spec == Init /\ [][Next]_threadVars
=============================================================================
