----------------------------- MODULE A2AClients -----------------------------
(***************************************************************************)
(* The clients of the A2A services: SubscribeToTask over SSE, with         *)
(* Last-Event-ID after a lost connection (a2a_subscription.py), and        *)
(* ListTasks page by page (a2a_http.py).                                   *)
(*                                                                         *)
(* The subscription server has one thread: it takes one connection at a    *)
(* time and keeps it until a terminal snapshot was sent or a write fails.  *)
(* A connection is a number; what was written to it and not read yet is    *)
(* lost when the client drops it.                                          *)
(***************************************************************************)
EXTENDS A2ABridge, Ordering

CONSTANTS
    Limits,    \* values of history_length, None for no limit
    Clients,   \* the subscribers
    Watched,   \* the task they subscribe to
    MaxCalls,  \* bound on the calls of the services in each scene
    MaxDrops,  \* bound on lost connections
    Filters,   \* the status a pager asks for, or None
    PageSize

ASSUME ClientAssumption ==
    /\ Watched \in Tasks /\ PageSize \in Nat \ {0} /\ MaxDrops \in Nat
    /\ Limits \subseteq Nat \cup {None} /\ None \notin Clients

VARIABLES
    scene,   \* "tasks", "bridge", "feed" or "pages": see Init
    client,  \* each subscriber: its connection, what it received
    inbox,   \* the updates written to its connection and not read
    backlog, \* connections the server has not accepted: client, Last-Event-ID
    serving, \* the connection the server thread is in, with its cursor
    drops,   \* connections lost
    pager    \* the call of ListTasks in progress

feedVars == <<client, inbox, backlog, serving, drops>>
vars == <<users, calm, taskVars, bridgeVars, scene, feedVars, pager>>

NoConn == [conn |-> 0, who |-> None, cursor |-> 0]
NoPager == [at |-> "idle", filter |-> None, offset |-> 0, seen |-> <<>>, start |-> {}]

-----------------------------------------------------------------------------
(* SubscribeToTask *)

Cursor(c) == IF client[c].got = <<>> THEN 0 ELSE Last(client[c].got)

\* Faulty variants the checks must notice (see the mutants in PROJECT.json).
FromTheStart(c) == 0
ByLastUpdate(filter) ==
    Ordered({t \in Existing : filter = None \/ store[t].state = filter}, [t \in Tasks |-> store[t].at])

\* The id of the last event goes into the header.
LastEventId(c) == Cursor(c)

Subscribe(c) ==
    /\ client[c].at \in {"idle", "dropped"}
    /\ LET conn == drops + 1
       IN  /\ client' = [client EXCEPT ![c].at = "open", ![c].conn = conn]
           /\ backlog' = Append(backlog, [conn |-> conn, who |-> c, cursor |-> LastEventId(c)])
    /\ UNCHANGED <<inbox, serving, drops>>

Live(k) == client[k.who].conn = k.conn /\ client[k.who].at = "open"

\* Before the stream starts, the task is looked up: it may be unknown (404),
\* or over although the client has nothing yet (409).
Refused(k) == store[Watched] = NoTask \/ (k.cursor = 0 /\ Terminal(store[Watched]))

Accept ==
    LET k == Head(backlog)
    IN  /\ serving = NoConn /\ backlog # <<>>
        /\ backlog' = Tail(backlog)
        /\ IF Refused(k)
           THEN /\ client' = IF Live(k) THEN [client EXCEPT ![k.who].at = "refused"] ELSE client
                /\ UNCHANGED serving
           ELSE serving' = k /\ UNCHANGED client
        /\ UNCHANGED <<inbox, drops>>

\* journal.read: the rows of the task after the cursor.
Newer(k) == {i \in RowsOf(Watched) : i > k.cursor}
EndOfStream == 0

\* The next row is written; a terminal one ends the stream.  A write to a
\* connection that was lost fails and ends it too.
Push ==
    /\ serving # NoConn /\ Newer(serving) # {}
    /\ LET i == Min(Newer(serving))
           over == Terminal(journal[i].snap)
           c == serving.who
       IN  IF Live(serving)
           THEN /\ inbox' = [inbox EXCEPT ![c] = @ \o IF over THEN <<i, EndOfStream>> ELSE <<i>>]
                /\ serving' = IF over THEN NoConn ELSE [serving EXCEPT !.cursor = i]
           ELSE serving' = NoConn /\ UNCHANGED inbox
    /\ UNCHANGED <<client, backlog, drops>>

Receive(c) ==
    /\ client[c].at = "open" /\ inbox[c] # <<>>
    /\ client' = IF Head(inbox[c]) = EndOfStream THEN [client EXCEPT ![c].at = "ended"]
                 ELSE [client EXCEPT ![c].got = Append(@, Head(inbox[c]))]
    /\ inbox' = [inbox EXCEPT ![c] = Tail(@)]
    /\ UNCHANGED <<backlog, serving, drops>>

\* The connection is lost with what was not read; the client may come back.
Drop(c) ==
    /\ client[c].at = "open" /\ drops < MaxDrops
    /\ client' = [client EXCEPT ![c].at = "dropped"]
    /\ inbox' = [inbox EXCEPT ![c] = <<>>]
    /\ drops' = drops + 1
    /\ UNCHANGED <<backlog, serving>>

FeedStep == Accept \/ Push \/ \E c \in Clients : Subscribe(c) \/ Receive(c) \/ Drop(c)

-----------------------------------------------------------------------------
(* ListTasks: the page token is an offset into the list. *)

\* By created_at and task_id, that is by the numbers of the tasks.
Listed(filter) ==
    Ordered({t \in Existing : filter = None \/ store[t].state = filter}, [t \in Tasks |-> t])

StartPaging(filter) ==
    /\ pager.at = "idle" /\ Existing # {}
    /\ pager' = [NoPager EXCEPT !.at = "reading", !.filter = filter, !.start = Existing]

\* A token beyond the list is refused; the last page has no next token.
NextPage ==
    LET list == Listed(pager.filter)
        end == IF pager.offset + PageSize > Len(list) THEN Len(list) ELSE pager.offset + PageSize
    IN  /\ pager.at = "reading"
        /\ pager' = IF pager.offset > Len(list) THEN [pager EXCEPT !.at = "refused"]
                    ELSE [pager EXCEPT !.seen = @ \o SubSeq(list, pager.offset + 1, end),
                                       !.offset = end,
                                       !.at = IF end < Len(list) THEN "reading" ELSE "done"]

-----------------------------------------------------------------------------
\* "tasks": one process and any handler.  "bridge": the bridge, one or two
\* processes.  "feed": subscribers of one process's task.  "pages": a client
\* lists tasks while two processes create, continue and cancel others.
Init ==
    /\ \/ scene = "tasks" /\ users = Journaled /\ calm = FALSE
       \/ scene = "bridge" /\ users = Journaled /\ calm \in BOOLEAN
       \/ scene = "bridge" /\ users = Processes /\ calm = FALSE
       \/ scene = "feed" /\ users = Journaled /\ calm = TRUE
       \/ scene = "pages" /\ users = Processes /\ calm = TRUE
    /\ InitTasks /\ InitBridge
    /\ client = [c \in Clients |-> [at |-> "idle", conn |-> 0, got |-> <<>>]]
    /\ inbox = [c \in Clients |-> <<>>]
    /\ backlog = <<>> /\ serving = NoConn /\ drops = 0
    /\ pager = NoPager

\* What a caller may ask of a service.
Verbs == [tasks |-> {"post", "send", "stream"}, bridge |-> {"post"},
          feed |-> {"post", "send"}, pages |-> {"post"}][scene]
Known == IF scene = "pages" THEN Tasks ELSE {Watched}

Request(p) ==
    /\ calls < MaxCalls[scene]
    /\ \/ \E verb \in Verbs, t \in Known : SendNew(p, verb, t) \/ SendMore(p, verb, t)
       \/ /\ \E t \in Known : BeginCancel(p, t) \/ (scene # "pages" /\ BeginProcess(p, t))
          /\ UNCHANGED <<store, journal>>

\* What a plain handler returns, in each scene that has one.
Results ==
    IF scene = "tasks" THEN [replies : BOOLEAN, arts : SUBSET Arts]
    ELSE {[replies |-> TRUE, arts |-> {}]}

Serve(p) ==
    \/ TaskStep(p, IF scene = "feed" THEN Limits ELSE {None}) /\ UNCHANGED bridgeVars
    \/ IF scene = "bridge" THEN BridgeStep(p)
       ELSE PlainHandler(p, Results) /\ UNCHANGED bridgeVars

Service ==
    \/ \E p \in users : Serve(p) \/ ((Request(p) \/ Crash(p)) /\ UNCHANGED bridgeVars)
    \/ \E m \in Messages : Lapse(m) /\ UNCHANGED taskVars

Next ==
    /\ \/ Service /\ UNCHANGED <<feedVars, pager>>
       \/ scene = "feed" /\ FeedStep /\ UNCHANGED <<taskVars, bridgeVars, pager>>
       \/ /\ scene = "pages"
          /\ (\E f \in Filters : StartPaging(f)) \/ NextPage
          /\ UNCHANGED <<taskVars, bridgeVars, feedVars>>
    /\ UNCHANGED <<users, calm, scene>>

\* A process that is in a call goes on; the server thread and the client read.
\* Nobody has to send, cancel, subscribe or drop anything.
Others == UNCHANGED <<users, calm, scene, pager>>
Fairness ==
    /\ \A p \in Processes : WF_vars(scene = "feed" /\ Serve(p) /\ UNCHANGED feedVars /\ Others)
    /\ WF_vars(scene = "feed" /\ (Accept \/ Push) /\ UNCHANGED <<taskVars, bridgeVars>> /\ Others)
    /\ \A c \in Clients :
         WF_vars(scene = "feed" /\ Receive(c) /\ UNCHANGED <<taskVars, bridgeVars>> /\ Others)

Spec == Init /\ [][Next]_vars /\ Fairness

-----------------------------------------------------------------------------
(* Properties *)

Conns == [conn : Nat \ {0}, who : Clients, cursor : Nat]

TypeOK ==
    /\ scene \in {"tasks", "bridge", "feed", "pages"}
    /\ TasksTypeOK /\ BridgeTypeOK
    /\ client \in [Clients ->
         [at : {"idle", "open", "dropped", "refused", "ended"}, conn : Nat, got : Seq(Nat \ {0})]]
    /\ inbox \in [Clients -> Seq(Nat)]
    /\ backlog \in Seq(Conns) /\ serving \in Conns \cup {NoConn} /\ drops \in 0..MaxDrops
    /\ pager \in [at : {"idle", "reading", "done", "refused"}, filter : Filters \cup {None},
                   offset : Nat, seen : Seq(Tasks), start : SUBSET Tasks]

Alone == \E p \in Processes : users = {p}

\* With one process, whatever call it dies in, the history of a task only
\* grows, no artifact is lost, and a terminal task is never touched again.
TaskEvolves ==
    [][Alone => \A t \in Tasks :
         /\ IsPrefix(store[t].history, store'[t].history)
         /\ store[t].arts \subseteq store'[t].arts
         /\ Terminal(store[t]) => store'[t] = store[t]]_vars

\* However often the connection is lost, what a subscriber received is the
\* beginning of the task's journal: nothing missing, nothing twice.
FeedIsExact ==
    \A c \in Clients : LET got == client[c].got IN
        /\ \A k, l \in DOMAIN got : k < l => got[k] < got[l]
        /\ Range(got) = {i \in RowsOf(Watched) : i <= Cursor(c)}

\* A subscriber that the server serves does not wait for ever when the task
\* is over: with journaling processes that do not die, the terminal snapshot
\* reaches the journal and ends the stream.  A client that comes back after
\* it received the terminal snapshot is served for ever (a2a_subscription.py:262).
HasTheEnd(c) == \E i \in Range(client[c].got) : Terminal(journal[i].snap)
SubscriptionEnds ==
    \A c \in Clients :
        (calm /\ Alone /\ serving.who = c /\ Live(serving) /\ ~HasTheEnd(c) /\ Terminal(store[Watched]))
            ~> (HasTheEnd(c) \/ client[c].at = "dropped")

\* A stream that was read to its end has shown every artifact id of the task,
\* those of earlier turns in its first frame and the new ones after it.  It is
\* about ids: content that comes again under an id already shown is skipped
\* (a2a_streaming.py:189-193).
StreamNamesAll ==
    \A p \in users : At(p, "streamed") /\ Alone => call[p].old = store[call[p].task].arts

\* The bridge's replies: an answer is given once, and comes from an item of
\* the task itself; alone, from a message that the history has; and when no
\* process dies, from the very message replied to.  (After a crash it may be
\* an older item that the dead process left in the queue.)
Replies(t) == {i \in 1..Len(store[t].history) : store[t].history[i].answer # None}
ReplyAnswersItsMessage ==
    scene = "bridge" =>
        \A t \in Tasks : LET h == store[t].history IN
            /\ \A i, j \in Replies(t) : h[i].answer = h[j].answer => i = j
            /\ \A i \in Replies(t) : [msg |-> h[i].answer, task |-> t] \in Range(line)
            /\ Alone => \A i \in Replies(t) : \E j \in 1..(i - 1) : h[j] = UserSays(h[i].answer)
            /\ Alone /\ calm => \A i \in Replies(t) : h[i].answer = h[i].msg

\* A client that reads ListTasks to its last page without a filter has seen
\* every task that existed when it began, whatever other processes create,
\* continue and cancel meanwhile.  It may see a task twice: one that gets an
\* earlier place moves those behind it to the next page.
PagesMissNothing ==
    pager.at = "done" /\ pager.filter = None => pager.start \subseteq Range(pager.seen)
=============================================================================
