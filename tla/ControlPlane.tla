---------------------------- MODULE ControlPlane ----------------------------
(***************************************************************************)
(* The control plane of a running agent: app servers (app_server.py, and   *)
(* http_app_server.py with a runtime handle of its own) admit calls and    *)
(* change the stores, workers pick up the steering messages before each    *)
(* model call (runtime_control.py), both write the event feed after the    *)
(* stores, and readers follow the feed by polls or streams.                *)
(*                                                                         *)
(* Every store is a database of its own, so a call is several steps, any   *)
(* of which may be the last one of a process that dies.  The scene says    *)
(* what is looked at: in "steer" two servers take steering messages and    *)
(* two workers may both run one thread, in "cancel" two servers steer and  *)
(* cancel threads that a worker runs, "stream" has readers and changing    *)
(* credentials.                                                            *)
(***************************************************************************)
EXTENDS EventFeed

CONSTANTS
    Servers,
    Asked,     \* the methods and threads callers ask for, a bound on the calls
    Workers,
    TokensOf,  \* the bearer tokens a reader has
    WorkOf,    \* the threads whose work items a worker is given, a bound
    Cast,      \* the servers and workers that take part in a scene
    MaxFeed,   \* bound on the events of a scene
    MaxCancels,  \* bound on the cancellations of threads
    FirstTokens  \* the credentials the servers start with

ASSUME ControlAssumption ==
    /\ FirstTokens \in [BearerTokens -> Credential \cup {None}]
    /\ WorkOf \in [Workers -> SUBSET Threads]
    /\ Managed \subseteq BearerTokens
    /\ MaxEvents \in Nat

VARIABLES
    scene,  \* "steer", "cancel" or "stream", fixed at the start
    ended,  \* threads in a terminal status, by the last event of their log
    cancelled,  \* the thread_cancelled events in those logs: the thread of each
    call,   \* the call a server is in, None when it has none
    turn,   \* the turn a worker runs, None when it runs none
    shown   \* ids in the order in which they entered some turn's messages

vars == <<accessVars, steeringVars, feedVars, scene, ended, cancelled, call, turn, shown>>

Room == Len(feed) < MaxFeed[scene]

Init ==
    /\ now = 0 /\ creds = FirstTokens /\ rotating = None
    /\ SteeringInit /\ FeedInit
    /\ scene \in {"steer", "cancel", "stream"}
    /\ ended = {} /\ cancelled = <<>> /\ shown = <<>>
    /\ call = [s \in Servers |-> None]
    /\ turn = [w \in Workers |-> None]

-----------------------------------------------------------------------------
(* The app servers *)

\* handle: a call is admitted, and dispatched.  Both methods refuse a thread in a
\* terminal status, and what they do to the stores comes after that check.
MayBegin(s, t, method, thread) ==
    /\ call[s] = None /\ Room /\ <<method, thread>> \in Asked[scene]
    /\ Admitted(t, method, {thread})
    /\ thread \notin ended

Begins(s, t, method, thread, i, at) ==
    call' = [call EXCEPT ![s] =
        [method |-> method, thread |-> thread, id |-> i, by |-> creds[t].who, at |-> at]]

Returns(s) == call' = [call EXCEPT ![s] = None]

\* thread/cancel: the status is read, then the cancellation is appended to the
\* log of the thread, then the event is written.
CheckCancel(s, t, thread) ==
    /\ MayBegin(s, t, "thread/cancel", thread)
    /\ Begins(s, t, "thread/cancel", thread, None, "append")
    /\ UNCHANGED <<accessVars, steeringVars, feedVars, scene, ended, cancelled, turn, shown>>

\* Another server may have cancelled the thread since.
AppendCancel(s) ==
    /\ call[s] # None /\ call[s].at = "append" /\ Len(cancelled) < MaxCancels
    /\ cancelled' = Append(cancelled, call[s].thread)
    /\ ended' = ended \cup {call[s].thread}
    /\ call' = [call EXCEPT ![s].at = "emit", ![s].id = Len(cancelled) + 1]
    /\ UNCHANGED <<accessVars, steeringVars, feedVars, scene, turn, shown>>

\* thread/steer: the status is read, then the message is inserted, then the event
\* is written.
CheckSteer(s, t, thread, i) ==
    /\ MayBegin(s, t, "thread/steer", thread)
    /\ Begins(s, t, "thread/steer", thread, i, "insert")
    /\ UNCHANGED <<accessVars, steeringVars, feedVars, scene, ended, cancelled, turn, shown>>

\* An id that is taken raises, whoever took it.
InsertSteer(s) ==
    /\ call[s] # None /\ call[s].at = "insert"
    /\ IF call[s].id \in Known
       THEN Returns(s) /\ UNCHANGED messages
       ELSE /\ \E at \in Places : InsertMessage(call[s].id, call[s].thread, call[s].by, at)
            /\ call' = [call EXCEPT ![s].at = "emit"]
    /\ UNCHANGED <<accessVars, cancelling, feedVars, scene, ended, cancelled, turn, shown>>

\* A faulty variant: the event of a call written before what it tells of.
EmitEarly(s) ==
    /\ call[s] # None
    /\ Emits(NewEvent(call[s].method, call[s].thread, call[s].id))
    /\ Returns(s)
    /\ UNCHANGED <<accessVars, steeringVars, got, conn, drops, scene, ended, cancelled, turn, shown>>

EmitCall(s) ==
    /\ call[s] # None /\ call[s].at = "emit"
    /\ Emits(NewEvent(call[s].method, call[s].thread, call[s].id))
    /\ Returns(s)
    /\ UNCHANGED <<accessVars, steeringVars, got, conn, drops, scene, ended, cancelled, turn, shown>>

\* The process dies and is started again.
CrashServer(s) ==
    /\ call[s] # None
    /\ Returns(s)
    /\ UNCHANGED <<accessVars, steeringVars, feedVars, scene, ended, cancelled, turn, shown>>

Call(s) ==
    \/ \E t \in BearerTokens, thread \in Threads :
         \/ CheckCancel(s, t, thread)
         \/ \E i \in Ids : CheckSteer(s, t, thread, i)
    \/ AppendCancel(s) \/ InsertSteer(s) \/ EmitCall(s) \/ CrashServer(s)

-----------------------------------------------------------------------------
(* The workers *)

At(w, at) == turn[w] # None /\ turn[w].at = at

\* run_one looks at the thread when it takes the work item, and start_turn just
\* before it opens a turn; a turn that was open goes on.  The worker whose lease
\* ran out and the one that took the item over may both be at it.
StartTurn(w, thread) ==
    /\ turn[w] = None /\ thread \notin ended
    /\ \E at \in {"open", "beat"} :
         turn' = [turn EXCEPT ![w] = [thread |-> thread, at |-> at, batch |-> <<>>, seen |-> <<>>]]
    /\ UNCHANGED <<accessVars, steeringVars, feedVars, scene, ended, cancelled, call, shown>>

\* The event of the start makes a thread live that was cancelled meanwhile.
OpenTurn(w) ==
    /\ At(w, "open")
    /\ ended' = ended \ {turn[w].thread}
    /\ turn' = [turn EXCEPT ![w].at = "beat"]
    /\ UNCHANGED <<accessVars, steeringVars, feedVars, scene, cancelled, call, shown>>

\* ControlledBackend.generate: renew the lease, which the feed is told of,
Beat(w) ==
    /\ At(w, "beat") /\ Room
    /\ Emits(NewEvent("work.heartbeat", turn[w].thread, None))
    /\ turn' = [turn EXCEPT ![w].at = "consume"]
    /\ UNCHANGED <<accessVars, steeringVars, got, conn, drops, scene, ended, cancelled, call, shown>>

\* consume what is pending for the thread,
Consume(w) ==
    /\ At(w, "consume")
    /\ MarkConsumed(Pending(turn[w].thread))
    /\ turn' = [turn EXCEPT ![w].batch = InOrder(Pending(turn[w].thread)), ![w].at = "inject"]
    /\ UNCHANGED <<accessVars, cancelling, feedVars, scene, ended, cancelled, call, shown>>

\* and let the model see it, in memory only.
Inject(w) ==
    /\ At(w, "inject")
    /\ turn' = [turn EXCEPT ![w].seen = @ \o turn[w].batch, ![w].batch = <<>>, ![w].at = "beat"]
    /\ shown' = shown \o turn[w].batch
    /\ UNCHANGED <<accessVars, steeringVars, feedVars, scene, ended, cancelled, call>>

\* After the last model call the status is read again, then the event is
\* appended: of the completed turn, or of the failed thread.
CheckTurn(w) ==
    /\ At(w, "beat") /\ turn[w].thread \notin ended
    /\ turn' = [turn EXCEPT ![w].at = "close"]
    /\ UNCHANGED <<accessVars, steeringVars, feedVars, scene, ended, cancelled, call, shown>>

CloseTurn(w) ==
    /\ At(w, "close")
    /\ ended' \in {ended \ {turn[w].thread}, ended \cup {turn[w].thread}}
    /\ turn' = [turn EXCEPT ![w] = None]
    /\ UNCHANGED <<accessVars, steeringVars, feedVars, scene, cancelled, call, shown>>

\* The worker dies, or is refused.
LeaveTurn(w) ==
    /\ turn[w] # None
    /\ turn' = [turn EXCEPT ![w] = None]
    /\ UNCHANGED <<accessVars, steeringVars, feedVars, scene, ended, cancelled, call, shown>>

Work(w) ==
    \/ \E thread \in WorkOf[w] : StartTurn(w, thread)
    \/ OpenTurn(w) \/ Beat(w) \/ Consume(w) \/ Inject(w)
    \/ CheckTurn(w) \/ CloseTurn(w) \/ LeaveTurn(w)

CancelMessage ==
    /\ CancelWrite \/ (\E i \in Ids : CancelRead(i))
    /\ UNCHANGED <<accessVars, feedVars, scene, ended, cancelled, call, turn, shown>>

-----------------------------------------------------------------------------
(* The readers *)

Named(r) == {FilterOf[r]} \ {None}
MayRead(r) == \E t \in TokensOf[r] : Admitted(t, "event/poll", Named(r))

\* A stream is admitted when it is opened, and not again while it lasts.
Follow(r) ==
    /\ \/ MayRead(r) /\ (Poll(r) \/ Open(r))
       \/ Serve(r)
    /\ UNCHANGED <<accessVars, steeringVars, scene, ended, cancelled, call, turn, shown>>

Stream(r) ==
    /\ (MayRead(r) /\ Open(r)) \/ Serve(r)
    /\ UNCHANGED <<accessVars, steeringVars, scene, ended, cancelled, call, turn, shown>>

Disconnect(r) ==
    /\ Drop(r)
    /\ UNCHANGED <<accessVars, steeringVars, scene, ended, cancelled, call, turn, shown>>

ChangeCredentials ==
    /\ Administer
    /\ UNCHANGED <<steeringVars, feedVars, scene, ended, cancelled, call, turn, shown>>

Next ==
    \/ \E s \in Servers \cap Cast[scene] : Call(s)
    \/ \E w \in Workers \cap Cast[scene] : Work(w)
    \/ scene = "steer" /\ CancelMessage
    \/ scene = "stream" /\ ChangeCredentials
    \/ \E r \in Readers : scene = "stream" /\ (Follow(r) \/ Disconnect(r))

\* A reader keeps coming back, and the server thread of its stream runs.
Fairness == \A r \in Readers : WF_vars(scene = "stream" /\ Stream(r))

Spec == Init /\ [][Next]_vars /\ Fairness

-----------------------------------------------------------------------------
(* Properties *)

TypeOK ==
    /\ AccessTypeOK
    /\ messages \in [Ids -> Message \cup {None}]
    /\ cancelling \in Known \cup {None}
    /\ feed \in Seq([topic : Methods \cup {"work.heartbeat"}, thread : Threads, about : Ids \cup Nat \cup {None}])
    /\ ended \subseteq Threads /\ cancelled \in Seq(Threads)
    /\ call \in [Servers -> {None} \cup
         [method : Methods, thread : Threads, by : Principals, id : Ids \cup Nat \cup {None},
          at : {"insert", "append", "emit"}]]
    /\ turn \in [Workers -> {None} \cup
         [thread : Threads, at : {"open", "beat", "consume", "inject", "close"}, batch : Seq(Ids), seen : Seq(Ids)]]
    /\ shown \in Seq(Ids)
    /\ got \in [Readers -> Seq(Nat)]
    /\ conn \in [Readers -> {None} \cup
         [cursor : Nat, rows : Seq(Nat), sent : Seq(Nat), polled : BOOLEAN]]

\* However many workers run turns of a thread, a steering message enters the
\* messages of at most one of them, once, and only of its thread; a turn sees a
\* message that was stamped and inserted before another one first; and none is
\* left pending behind one that was inserted after it.
SteeringOnce ==
    /\ IsInjective(shown)
    /\ \A w \in Workers : turn[w] # None =>
        LET mine == turn[w].seen \o turn[w].batch IN
        /\ Range(mine) \subseteq {i \in Known : messages[i].thread = turn[w].thread}
        /\ \A k, l \in DOMAIN mine : k < l =>
             messages[mine[k]].at < messages[mine[l]].at \/ messages[mine[k]].row < messages[mine[l]].row
        /\ \A i \in Range(mine) : messages[i].status # "pending"
    /\ \A i, j \in Known :
        (messages[i].thread = messages[j].thread /\ messages[i].row < messages[j].row
            /\ messages[j].status = "consumed") => messages[i].status # "pending"

\* What the feed tells of happened before: a message was inserted by a principal
\* that may steer its thread, a cancellation was appended to the thread's log;
\* and each is told once.  (A thread can be cancelled twice, and live again
\* after it; durable.py:261.)
FeedTellsTruth ==
    /\ \A i \in Known : MayCall(messages[i].by, "thread/steer", {messages[i].thread})
    /\ \A n \in DOMAIN feed :
        LET e == feed[n] IN
        /\ e.topic = "thread/steer" => e.about \in Known /\ messages[e.about].thread = e.thread
        /\ e.topic = "thread/cancel" => e.about \in DOMAIN cancelled /\ cancelled[e.about] = e.thread
        /\ e.topic # "work.heartbeat" => \A m \in DOMAIN feed : feed[m] = e => m = n

\* A reader has been given every event it asks for up to its cursor, in order,
\* none twice, whatever connections it lost, and none of another thread.
Replays(r, ids) == Sorts(ids, Owed(r, CursorOf(ids)), [i \in 1..CursorOf(ids) |-> i])
FeedIsReplayed ==
    \A r \in Readers :
        /\ Replays(r, got[r])
        /\ conn[r] # None => Replays(r, got[r] \o conn[r].sent \o conn[r].rows)

\* A reader that holds on to an admitted token is in the end given everything.
ReadersCatchUp ==
    \A r \in Readers :
        (scene = "stream" /\ <>[]MayRead(r)) => <>[](Range(got[r]) = Owed(r, Len(feed)))
=============================================================================
