--------------------------- MODULE DurableThread ---------------------------
(***************************************************************************)
(* DurableThreadStore of durable.py: agent threads as one append-only      *)
(* SQLite table of events.  The state of a thread is not stored: project   *)
(* folds its events, and every operation projects the thread, checks the   *)
(* result and then appends.  The read and the append are two steps, since  *)
(* no transaction spans them; create_thread commits the row of the thread  *)
(* before its creation event, and fork_thread copies events one by one.    *)
(***************************************************************************)
EXTENDS Naturals, Sequences, SequencesExt

CONSTANTS
    Threads,      \* thread ids
    Turns,        \* turn ids
    Checkpoints,  \* checkpoint states
    Clients,      \* users of the table, each with its own connection
    MaxEvents,    \* bound on the length of the log
    None

ASSUME ThreadAssumption ==
    /\ MaxEvents \in Nat
    /\ None \notin Threads /\ None \notin Turns /\ None \notin Checkpoints

VARIABLES
    threads,   \* table threads: the ids it holds
    log,       \* table thread_events: the position of an event is its id
    todo       \* what each client has checked and not yet appended

vars == <<threads, log, todo>>

EventTypes ==
    {"thread_created", "user_submission", "turn_started", "turn_completed",
     "checkpoint_created", "thread_paused", "thread_resumed", "thread_completed",
     "thread_failed", "thread_cancelled"}

\* An event; from is the _forked_from_event_id of a copy, or the
\* parent_event_id of the creation of a fork, and 0 otherwise.
Event(t, type, turn, state, from) ==
    [thread |-> t, type |-> type, turn |-> turn, state |-> state, from |-> from]

Events ==
    [thread : Threads, type : EventTypes, turn : Turns \cup {None},
     state : Checkpoints \cup {None}, from : 0..MaxEvents]

TypeOK ==
    /\ threads \subseteq Threads
    /\ log \in Seq(Events) /\ Len(log) <= MaxEvents
    /\ todo \in [Clients -> Seq(Events)]
    /\ \A c \in Clients : Len(todo[c]) <= MaxEvents

Init ==
    /\ threads = {}
    /\ log = <<>>
    /\ todo = [c \in Clients |-> <<>>]

-----------------------------------------------------------------------------
\* The body of project's loop: what one event does to the projection.
StatusAfter(e, p) ==
    CASE e.type = "turn_started"     -> "running"
      [] e.type = "turn_completed"   -> "ready"
      [] e.type = "thread_paused"    -> "paused"
      [] e.type = "thread_resumed"   -> "ready"
      [] e.type = "thread_completed" -> "completed"
      [] e.type = "thread_failed"    -> "failed"
      [] e.type = "thread_cancelled" -> "cancelled"
      [] p.status = "absent"         -> "ready"
      [] OTHER                       -> p.status

TurnAfter(e, p) ==
    CASE e.type = "turn_started" -> e.turn
      [] e.type \in {"turn_completed", "thread_completed", "thread_failed",
                     "thread_cancelled"} -> None
      [] OTHER -> p.turn

Apply(p, e) ==
    [status |-> StatusAfter(e, p),
     turn   |-> TurnAfter(e, p),
     saved  |-> IF e.type = "checkpoint_created" THEN e.state ELSE p.saved]

\* project over the events of t up to the id n; a thread that has none has no
\* projection (project raises), and any first event makes it ready.
ProjectUpTo(t, n) ==
    LET p[j \in 0..n] ==
          IF j = 0 THEN [status |-> "absent", turn |-> None, saved |-> None]
          ELSE IF log[j].thread = t THEN Apply(p[j - 1], log[j])
          ELSE p[j - 1]
    IN p[n]

Project(t) == ProjectUpTo(t, Len(log))

Terminal == {"completed", "failed", "cancelled"}
IsUnfinished(t) == Project(t).status \notin {"completed", "cancelled", "absent"}
IsLive(t) == Project(t).status \notin Terminal \cup {"absent"}

-----------------------------------------------------------------------------
Ready(c) == todo[c] = <<>>

\* The operations append one event if the projection they read allows it.
Decide(c, e) ==
    /\ Ready(c)
    /\ todo' = [todo EXCEPT ![c] = <<e>>]
    /\ UNCHANGED <<threads, log>>

Submit(c, t) ==
    IsLive(t) /\ Decide(c, Event(t, "user_submission", None, None, 0))

StartTurn(c, t, u) ==
    /\ Project(t).status = "ready"
    /\ Decide(c, Event(t, "turn_started", u, None, 0))

\* Faulty variants the checks must notice (see the mutants in PROJECT.json):
\* a failed thread taken for a live one (IsUnfinished above), a fork that drops
\* the turn ids.
CopyWithoutTurn(t, ids) ==
    [j \in 1..Len(ids) |-> [log[ids[j]] EXCEPT !.thread = t, !.from = ids[j], !.turn = None]]

CompleteTurn(c, t, u) ==
    /\ Project(t).status = "running" /\ Project(t).turn = u
    /\ Decide(c, Event(t, "turn_completed", u, None, 0))

Checkpoint(c, t, s) ==
    IsLive(t) /\ Decide(c, Event(t, "checkpoint_created", Project(t).turn, s, 0))

Pause(c, t) ==
    /\ Project(t).status \in {"ready", "running"}
    /\ Decide(c, Event(t, "thread_paused", Project(t).turn, None, 0))

Resume(c, t) ==
    /\ Project(t).status = "paused"
    /\ Decide(c, Event(t, "thread_resumed", None, None, 0))

CompleteThread(c, t) ==
    /\ IsLive(t) /\ Project(t).status # "running"
    /\ Decide(c, Event(t, "thread_completed", None, None, 0))

FailThread(c, t) ==
    IsLive(t) /\ Decide(c, Event(t, "thread_failed", Project(t).turn, None, 0))

CancelThread(c, t) ==
    IsLive(t) /\ Decide(c, Event(t, "thread_cancelled", Project(t).turn, None, 0))

\* create_thread commits the row, and appends the creation event next.
CreateThread(c, t) ==
    /\ Ready(c)
    /\ t \notin threads
    /\ threads' = threads \cup {t}
    /\ todo' = [todo EXCEPT ![c] = <<Event(t, "thread_created", None, None, 0)>>]
    /\ UNCHANGED log

\* The copies of the events ids, for thread t.
CopyOf(t, ids) ==
    [j \in 1..Len(ids) |-> [log[ids[j]] EXCEPT !.thread = t, !.from = ids[j]]]

\* The parent_event_id of a fork that starts from the events ids.
ForkPoint(ids) == Last(ids)

\* fork_thread(source, through_event_id = n): everything up to n but the
\* creation event is going to be copied to the new thread t.
ForkThread(c, source, t, n) ==
    LET ids == SelectSeq([j \in 1..n |-> j], LAMBDA j : log[j].thread = source)
        copied == SelectSeq(ids, LAMBDA j : log[j].type # "thread_created")
    IN
    /\ Ready(c)
    /\ ids # <<>>
    /\ t \notin threads
    /\ threads' = threads \cup {t}
    /\ todo' = [todo EXCEPT ![c] =
                  <<Event(t, "thread_created", None, None, ForkPoint(ids))>> \o CopyOf(t, copied)]
    /\ UNCHANGED log

\* The next INSERT INTO thread_events.
AppendEvent(c) ==
    /\ todo[c] # <<>>
    /\ Len(log) < MaxEvents
    /\ log' = Append(log, Head(todo[c]))
    /\ todo' = [todo EXCEPT ![c] = Tail(@)]
    /\ UNCHANGED threads

\* The client dies before it appended what it had decided, and comes back.
Crash(c) ==
    /\ todo[c] # <<>>
    /\ todo' = [todo EXCEPT ![c] = <<>>]
    /\ UNCHANGED <<threads, log>>

Next ==
    \E c \in Clients :
        \/ AppendEvent(c) \/ Crash(c)
        \/ \E t \in Threads :
            \/ CreateThread(c, t) \/ Submit(c, t)
            \/ Pause(c, t) \/ Resume(c, t)
            \/ CompleteThread(c, t) \/ FailThread(c, t) \/ CancelThread(c, t)
            \/ \E u \in Turns : StartTurn(c, t, u) \/ CompleteTurn(c, t, u)
            \/ \E s \in Checkpoints : Checkpoint(c, t, s)
            \/ \E source \in Threads, n \in 1..Len(log) : ForkThread(c, source, t, n)

Spec == Init /\ [][Next]_vars

-----------------------------------------------------------------------------
(* Properties *)

\* A completed, failed or cancelled thread stays so: nothing revives it
\* (lesson 06, section 6).
TerminalIsFinal ==
    [][\A t \in Threads :
         Project(t).status \in Terminal => Project(t)'.status = Project(t).status]_vars

\* A fork whose copying has finished, and that was not used since, projects to
\* what its source was at the fork point, down to the turn in progress.
ForkReproduces ==
    \A i \in 1..Len(log) :
        LET point == log[i].from
            EventsUpTo(t, n) == {j \in 1..n : log[j].thread = t}
            own == EventsUpTo(log[i].thread, Len(log)) \ {i}
            shared == {j \in EventsUpTo(log[point].thread, point) :
                         log[j].type # "thread_created"}
        IN (/\ log[i].type = "thread_created" /\ point # 0
            /\ {log[j].from : j \in own} = shared)
              => Project(log[i].thread) = ProjectUpTo(log[point].thread, point)

\* With one client the projections, which only change with the log, evolve as
\* ThreadLifecycle says.
Lifecycle == INSTANCE ThreadLifecycle WITH
    status <- [t \in Threads |-> Project(t).status],
    turn   <- [t \in Threads |-> Project(t).turn],
    saved  <- [t \in Threads |-> Project(t).saved]

ImplementsLifecycle ==
    Lifecycle!Init /\ [][log' # log => Lifecycle!Next]_(Lifecycle!threadVars)
=============================================================================
