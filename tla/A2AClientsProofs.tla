--------------------------- MODULE A2AClientsProofs ---------------------------
(***************************************************************************)
(* Proofs about A2AClients.tla, and with it about A2ABridge.tla and        *)
(* A2ATasks.tla, for any processes, tasks, messages and clients.           *)
(***************************************************************************)
EXTENDS A2AClients, OrderingProofs, SequenceTheorems, TLAPS

-----------------------------------------------------------------------------
(* Types, and what a call in progress holds *)

\* A task that was created begins with a message of its user.
Begun(task) == task.history # <<>> /\ task.history[1].from = "user"

StoreOK ==
    \A t \in Tasks : store[t] = NoTask \/ Begun(store[t])

\* The steps in which a call holds a snapshot that it is going to store, and
\* those in which it holds the message it works on.
Writing == {"put", "working", "handle", "run", "turn", "final"}
OnMessage == {"working", "handle", "run", "turn"}

CallOK(p, c) ==
    /\ c.step # "idle" => p \in users /\ c.task \in Existing
    /\ c.step \in Writing => Begun(c.snap)
    /\ c.step \in OnMessage =>
         c.msg \in Messages /\ \E i \in DOMAIN c.snap.history : c.snap.history[i] = UserSays(c.msg)
    /\ c.step = "turn" => c.work \in Messages
    /\ c.step \in {"note", "insert"} => c.next \in {"idle", "stream", "check", "respond", "emit"}
CallsOK == \A p \in Processes : CallOK(p, call[p])

LineOK == \A i \in DOMAIN line : line[i].task \in Tasks => line[i].msg \in Messages

TypeInv == TypeOK /\ StoreOK /\ CallsOK /\ LineOK

-----------------------------------------------------------------------------
(* One process *)

\* Alone, a process that is going to store a snapshot has one that goes on
\* from what the store holds, and the task was not over when it looked.
SoloOK(c, s) ==
    /\ c.step \in Writing =>
         ~Terminal(s) /\ IsPrefix(s.history, c.snap.history) /\ s.arts \subseteq c.snap.arts
    /\ c.step = "working" => ~Terminal(c.snap)
    /\ c.step \in {"handle", "run", "turn"} => c.snap = s
    /\ c.step # "idle" => c.old \subseteq s.arts
    /\ c.step \in {"respond", "emit"} \/ (c.step \in {"note", "insert"} /\ c.next \in {"respond", "emit"}) =>
         c.snap.arts = s.arts
    /\ c.step = "streamed" => c.old = s.arts
SoloInv == Alone => \A p \in users : SoloOK(call[p], store[call[p].task])

-----------------------------------------------------------------------------
(* The bridge *)

Answers(h) == {i \in DOMAIN h : h[i].answer # None}
OnLine(m, t) == \E i \in DOMAIN line : line[i] = [msg |-> m, task |-> t]

\* A history whose answers each come from a completed item of the task.
Earned(h, t) ==
    /\ \A i, j \in Answers(h) : h[i].answer = h[j].answer => i = j
    /\ \A i \in Answers(h) : item[h[i].answer] = "completed" /\ OnLine(h[i].answer, t)

\* Alone, an answer stands after the message it answers; without crashes,
\* the reply that gives it replies to that message.
Prompted(h) == \A i \in Answers(h) : \E j \in 1..(i - 1) : h[j] = UserSays(h[i].answer)
OwnAnswers(h) == \A i \in Answers(h) : h[i].answer = h[i].msg
HistOK(h, t) ==
    /\ Earned(h, t)
    /\ Alone => Prompted(h)
    /\ Alone /\ calm => OwnAnswers(h)
HistsOK ==
    /\ \A t \in Tasks : HistOK(store[t].history, t)
    /\ \A p \in Processes : HistOK(call[p].snap.history, call[p].task)

\* The item of a turn is an item of the task, leased by that process alone.
TurnOK(p) ==
    At(p, "turn") =>
        /\ item[call[p].work] = "leased" /\ OnLine(call[p].work, call[p].task)
        /\ \A q \in Processes : At(q, "turn") /\ call[q].work = call[p].work => q = p
TurnsOK == \A p \in Processes : TurnOK(p)

\* Alone, an item stands for a message that is in the history.
LinePrompted ==
    \A i \in DOMAIN line : line[i].task \in Tasks =>
        \E j \in DOMAIN store[line[i].task].history :
            store[line[i].task].history[j] = UserSays(line[i].msg)

\* Alone and without crashes, the only item that can be run is that of the
\* message in hand.
OneItem(p) ==
    /\ \A m \in Messages : item[m] \in {"pending", "lapsed"} => At(p, "run") /\ call[p].msg = m
    /\ \A m \in Messages : item[m] = "leased" => At(p, "turn") /\ call[p].work = m
    /\ At(p, "run") => item[call[p].msg] = "pending" /\ OnLine(call[p].msg, call[p].task)
    /\ At(p, "turn") => call[p].work = call[p].msg
    /\ \A t \in Tasks : turn[t] # None => At(p, "turn") /\ call[p].task = t

BridgeInv ==
    scene = "bridge" =>
        /\ HistsOK /\ TurnsOK
        /\ Alone => LinePrompted
        /\ \A p \in Processes : users = {p} /\ calm => OneItem(p)

-----------------------------------------------------------------------------
(* The subscribers *)

Increasing(s) == \A k, l \in DOMAIN s : k < l => s[k] < s[l]
CursorOf(got) == IF got = <<>> THEN 0 ELSE Last(got)

\* What a client has is the beginning of the rows.
Received(got, rows) == Increasing(got) /\ Range(got) = {i \in rows : i <= CursorOf(got)}

\* What is on its way is in order, and the end of the stream comes last.
Arriving(s) ==
    /\ \A k \in DOMAIN s : s[k] = EndOfStream => k = Len(s)
    /\ \A k, l \in DOMAIN s : k < l /\ s[l] # EndOfStream => s[k] < s[l]

\* The rows that a client with got lacks, up to n.
Lacks(got, rows, n) == {i \in rows : CursorOf(got) < i /\ i <= n}

ClientOK(cl, in, rows, d) ==
    /\ Received(cl.got, rows) /\ Arriving(in)
    /\ \E n \in rows \cup {0} : Range(in) \ {EndOfStream} = Lacks(cl.got, rows, n)
    /\ cl.at # "open" => in = <<>>
    /\ cl.conn <= d + 1
    /\ cl.at \in {"idle", "dropped"} => cl.conn <= d

\* A connection in the backlog starts where its client is, if that still
\* holds it; the one being served has been sent the rows up to the cursor.
Holds(cl, k) == cl.conn = k.conn /\ cl.at = "open"
WaitsOK(k, cl, in) ==
    k.conn <= cl.conn /\ (Holds(cl, k) => in = <<>> /\ k.cursor = CursorOf(cl.got))
ServedOK(k, cl, in, rows) ==
    /\ k.conn <= cl.conn
    /\ Holds(cl, k) =>
         /\ k.cursor \in rows \cup {0} /\ CursorOf(cl.got) <= k.cursor
         /\ Range(in) = Lacks(cl.got, rows, k.cursor)

\* A client has the beginning of the journal, and the rest is on its way or
\* will be read from the cursor of its connection, of which there is one.
FeedInv ==
    /\ \A c \in Clients : ClientOK(client[c], inbox[c], RowsOf(Watched), drops)
    /\ \A i \in DOMAIN backlog : WaitsOK(backlog[i], client[backlog[i].who], inbox[backlog[i].who])
    /\ serving # NoConn => ServedOK(serving, client[serving.who], inbox[serving.who], RowsOf(Watched))
    /\ \A i, j \in DOMAIN backlog :
         Live(backlog[i]) /\ Live(backlog[j]) /\ backlog[i].who = backlog[j].who => i = j
    /\ \A i \in DOMAIN backlog :
         Live(backlog[i]) /\ serving # NoConn /\ Live(serving) => backlog[i].who # serving.who

-----------------------------------------------------------------------------
(* The pages *)

\* Without a filter, a task that was there at the start and was not seen yet
\* stands behind the offset: its place only moves back.
UpTo(t) == {u \in Existing : u <= t}
Behind(t) == pager.at = "reading" /\ pager.offset < Cardinality(UpTo(t))
PagesInv ==
    /\ scene # "pages" => pager.at = "idle"
    /\ pager.at \in {"reading", "done"} /\ pager.filter = None =>
         /\ pager.start \subseteq Existing
         /\ \A t \in pager.start \ Range(pager.seen) : Behind(t)


-----------------------------------------------------------------------------
(* What a step does to a call *)

LEMMA RecordFacts ==
    /\ NoTask \in TaskRecords /\ NoCall \in Calls
    /\ \A m \in Messages : UserSays(m) \in Entries
    /\ \A m \in Messages \cup {None}, a \in Messages \cup {None} : AgentSays(m, a) \in Entries
  <1>1. <<>> \in Seq(Entries)
    OBVIOUS
  <1>2. NoTask \in TaskRecords
    BY <1>1 DEF NoTask, TaskRecords
  <1>3. NoCall \in Calls
    BY <1>2 DEF NoCall, Calls, Steps
  <1>4. QED
    BY <1>2, <1>3 DEF Entries

LEMMA SaidTypes ==
    ASSUME NEW task \in TaskRecords, NEW e \in Entries
    PROVE  Said(task, e) \in TaskRecords /\ Said(task, e).history = Append(task.history, e)
  <1>1. Append(task.history, e) \in Seq(Entries)
    BY DEF TaskRecords
  <1>2. QED
    BY <1>1 DEF TaskRecords, Said

LEMMA StatusTypes ==
    ASSUME now \in Nat, NEW task \in TaskRecords,
           NEW s \in {"submitted", "working", "input_required"} \cup TerminalStates
    PROVE  /\ WithStatus(task, s) \in TaskRecords
           /\ WithStatus(task, s).history = task.history /\ WithStatus(task, s).arts = task.arts
           /\ WithStatus(task, s).state = s
  <1>1. /\ task = [state |-> task.state, at |-> task.at, history |-> task.history, arts |-> task.arts]
        /\ task.history \in Seq(Entries) /\ task.arts \in SUBSET (Arts \cup Messages)
    BY DEF TaskRecords
  <1>2. now + 1 \in Nat
    OBVIOUS
  <1> DEFINE n == now + 1
  <1> HIDE DEF n
  <1>3. [task EXCEPT !.state = s, !.at = n] \in TaskRecords
    BY <1>2 DEF TaskRecords, n
  <1>4. QED
    BY <1>1, <1>3 DEF WithStatus, n

\* Another process's call is not moved.
Moved(p, c) == call'[p] = c /\ \A q \in Processes \ {p} : call'[q] = call[q]

LEMMA MoveTypes ==
    ASSUME call \in [Processes -> Calls], NEW p \in Processes, NEW c \in Calls,
           call' = [call EXCEPT ![p] = c]
    PROVE  call' \in [Processes -> Calls] /\ Moved(p, c)
  BY DEF Moved

LEMMA GotoDoes ==
    ASSUME call \in [Processes -> Calls], NEW p \in Processes, NEW step \in Steps, Goto(p, step)
    PROVE  /\ call' \in [Processes -> Calls]
           /\ Moved(p, [call[p] EXCEPT !.step = step])
  <1>1. call[p] \in Calls
    OBVIOUS
  <1>2. [call[p] EXCEPT !.step = step] \in Calls
    BY <1>1 DEF Calls
  <1>3. call' = [call EXCEPT ![p] = [call[p] EXCEPT !.step = step]]
    BY DEF Goto
  <1>4. QED
    BY <1>2, <1>3, MoveTypes

LEMMA HoldDoes ==
    ASSUME call \in [Processes -> Calls], NEW p \in Processes, NEW step \in Steps,
           NEW task \in TaskRecords, Hold(p, step, task)
    PROVE  /\ call' \in [Processes -> Calls]
           /\ Moved(p, [call[p] EXCEPT !.step = step, !.snap = task])
  <1>1. call[p] \in Calls
    OBVIOUS
  <1>2. [call[p] EXCEPT !.step = step, !.snap = task] \in Calls
    BY <1>1 DEF Calls
  <1>3. call' = [call EXCEPT ![p] = [call[p] EXCEPT !.step = step, !.snap = task]]
    BY DEF Hold
  <1>4. QED
    BY <1>2, <1>3, MoveTypes

LEMMA ReturnDoes ==
    ASSUME call \in [Processes -> Calls], NEW p \in Processes, Return(p)
    PROVE  call' \in [Processes -> Calls] /\ Moved(p, NoCall)
  BY RecordFacts, MoveTypes DEF Return

LEMMA BeginDoes ==
    ASSUME call \in [Processes -> Calls], NEW p \in Processes, NEW step \in Steps,
           NEW verb \in {"post", "send", "stream", "process", "cancel"},
           NEW t \in Tasks, NEW task \in TaskRecords, calls \in Nat,
           Begin(p, step, verb, t, task)
    PROVE  /\ call' \in [Processes -> Calls] /\ calls' \in Nat
           /\ Moved(p, [NoCall EXCEPT !.step = step, !.verb = verb, !.task = t, !.snap = task])
  <1> DEFINE c == [NoCall EXCEPT !.step = step, !.verb = verb, !.task = t, !.snap = task]
  <1>1. c \in Calls
    BY RecordFacts DEF Calls
  <1>2. calls' = calls + 1 /\ call' = [call EXCEPT ![p] = c]
    BY DEF Begin
  <1> HIDE DEF c
  <1>3. call' \in [Processes -> Calls] /\ Moved(p, c)
    BY <1>1, <1>2, MoveTypes
  <1>4. QED
    BY <1>2, <1>3 DEF c

-----------------------------------------------------------------------------
(* Types *)

LEMMA MinFacts ==
    ASSUME NEW S \in SUBSET Nat, S # {}
    PROVE  Min(S) \in S /\ \A y \in S : Min(S) <= y
  <1>1. \E x \in S : \A y \in S : x <= y
    BY LeastNat
  <1>2. QED
    BY <1>1 DEF Min

LEMMA MaxFacts ==
    ASSUME NEW n \in Nat, NEW S \in SUBSET (1..n), S # {}
    PROVE  Max(S) \in S /\ \A y \in S : y <= Max(S)
  <1> DEFINE T == {n - y : y \in S}
  <1>1. T \in SUBSET Nat /\ T # {}
    <2>1. \A y \in S : n - y \in Nat
      OBVIOUS
    <2>2. PICK x \in S : TRUE
      OBVIOUS
    <2>3. n - x \in T
      OBVIOUS
    <2>4. QED
      BY <2>1, <2>3
  <1>2. PICK k \in T : \A l \in T : k <= l
    <2> HIDE DEF T
    <2>1. QED
      BY <1>1, LeastNat
  <1>3. PICK x \in S : k = n - x
    BY <1>2
  <1>4. ASSUME NEW y \in S
        PROVE  x >= y
    <2>1. k <= n - y
      BY <1>2
    <2>2. QED
      BY <1>3, <2>1
  <1>5. QED
    BY <1>4 DEF Max

LEMMA SubmittedFacts ==
    ASSUME now \in Nat, NEW task \in TaskRecords, NEW m \in Messages,
           Begun(task) \/ task.history = <<>>
    PROVE  /\ Submitted(task, m) \in TaskRecords /\ Begun(Submitted(task, m))
           /\ Submitted(task, m).history = Append(task.history, UserSays(m))
           /\ Submitted(task, m).arts = task.arts
  <1> DEFINE s == WithStatus(task, "submitted")
  <1>1. s \in TaskRecords /\ s.history = task.history /\ s.arts = task.arts
    BY StatusTypes
  <1>2. UserSays(m) \in Entries /\ UserSays(m).from = "user"
    BY RecordFacts DEF UserSays
  <1> HIDE DEF s
  <1>3. /\ Said(s, UserSays(m)) \in TaskRecords
        /\ Said(s, UserSays(m)).history = Append(task.history, UserSays(m))
    BY <1>1, <1>2, SaidTypes
  <1>4. Said(s, UserSays(m)).arts = s.arts
    BY <1>1 DEF Said, TaskRecords
  <1>5. Submitted(task, m) = Said(s, UserSays(m))
    BY DEF Submitted, s
  <1>6. task.history \in Seq(Entries)
    BY DEF TaskRecords
  <1>7. Append(task.history, UserSays(m)) # <<>> /\ Append(task.history, UserSays(m))[1].from = "user"
    <2>1. CASE task.history = <<>>
      BY <2>1, <1>2, <1>6
    <2>2. CASE Begun(task)
      BY <2>2, <1>2, <1>6 DEF Begun
    <2>3. QED
      BY <2>1, <2>2
  <1>8. QED
    BY <1>1, <1>3, <1>4, <1>5, <1>7 DEF Begun

LEMMA LimitedFacts ==
    ASSUME NEW task \in TaskRecords, NEW n \in Nat \cup {None}
    PROVE  /\ Limited(task, n) \in TaskRecords
           /\ Limited(task, n).arts = task.arts
           /\ n = None => Limited(task, n) = task
  <1>1. CASE n = None \/ n >= Len(task.history)
    BY <1>1 DEF Limited
  <1>2. CASE ~(n = None \/ n >= Len(task.history))
    <2> DEFINE h == SubSeq(task.history, Len(task.history) - n + 1, Len(task.history))
    <2>1. task.history \in Seq(Entries) /\ n \in Nat /\ n < Len(task.history)
      BY <1>2, A2AAssumption DEF TaskRecords
    <2>2. h \in Seq(Entries)
      BY <2>1
    <2>3. Limited(task, n) = [task EXCEPT !.history = h]
      BY <1>2 DEF Limited
    <2> HIDE DEF h
    <2>4. QED
      BY <1>2, <2>2, <2>3 DEF TaskRecords
  <1>3. QED
    BY <1>1, <1>2

LEMMA LatestUserFacts ==
    ASSUME NEW task \in TaskRecords, Begun(task)
    PROVE  /\ LatestUser(task) \in Messages
           /\ \E i \in DOMAIN task.history : task.history[i] = UserSays(LatestUser(task))
  <1> DEFINE h == task.history
             S == {i \in DOMAIN h : h[i].from = "user"}
  <1>1. h \in Seq(Entries) /\ h # <<>> /\ h[1].from = "user"
    BY DEF Begun, TaskRecords
  <1>2. Len(h) \in Nat /\ S \in SUBSET (1..Len(h)) /\ 1 \in S
    BY <1>1
  <1> DEFINE i == Max(S)
  <1>3. i \in S
    <2> HIDE DEF S, h
    <2>1. QED
      BY <1>2, MaxFacts
  <1> HIDE DEF i
  <1>4. i \in 1..Len(h) /\ h[i] \in Entries /\ h[i].from = "user"
    <2>1. i \in DOMAIN h /\ h[i].from = "user"
      BY <1>3
    <2> HIDE DEF h
    <2>2. QED
      BY <1>1, <2>1
  <1>5. PICK m \in Messages : h[i] = UserSays(m)
    <2> HIDE DEF h
    <2> DEFINE e == h[i]
    <2>1. e \in Entries /\ e.from = "user"
      BY <1>4
    <2> HIDE DEF e
    <2>2. ASSUME NEW m \in Messages \cup {None}, NEW a \in Messages \cup {None}, e = AgentSays(m, a)
          PROVE  FALSE
      BY <2>1, <2>2 DEF AgentSays
    <2>3. \E m \in Messages : e = UserSays(m)
      BY <2>1, <2>2 DEF Entries
    <2>4. QED
      BY <2>3 DEF e
  <1>6. LatestUser(task) = m
    BY <1>5 DEF LatestUser, UserSays, i
  <1>7. QED
    BY <1>3, <1>5, <1>6
-----------------------------------------------------------------------------
(* What each operation does: the fields of the call, the store and the rest *)

\* The call of p is the only one that changes.
Alters(p) == call' \in [Processes -> Calls] /\ \A q \in Processes \ {p} : call'[q] = call[q]

\* It is still the same job.
SameJob(p) == call'[p].verb = call[p].verb /\ call'[p].task = call[p].task

LEMMA AlterTypes ==
    ASSUME call \in [Processes -> Calls], NEW p \in Processes, NEW c \in Calls,
           call' = [call EXCEPT ![p] = c]
    PROVE  Alters(p) /\ call'[p] = c
  BY DEF Alters

LEMMA GotoFields ==
    ASSUME call \in [Processes -> Calls], NEW p \in Processes, NEW step \in Steps, Goto(p, step)
    PROVE  /\ Alters(p) /\ SameJob(p) /\ call'[p].step = step
           /\ call'[p].msg = call[p].msg /\ call'[p].snap = call[p].snap /\ call'[p].next = call[p].next
           /\ call'[p].old = call[p].old /\ call'[p].work = call[p].work
  <1>1. call[p] \in Calls
    OBVIOUS
  <1>2. call' \in [Processes -> Calls] /\ Moved(p, [call[p] EXCEPT !.step = step])
    BY GotoDoes
  <1>3. QED
    BY <1>1, <1>2 DEF Moved, Alters, SameJob, Calls

LEMMA HoldFields ==
    ASSUME call \in [Processes -> Calls], NEW p \in Processes, NEW step \in Steps,
           NEW task \in TaskRecords, Hold(p, step, task)
    PROVE  /\ Alters(p) /\ SameJob(p) /\ call'[p].step = step /\ call'[p].snap = task
           /\ call'[p].msg = call[p].msg /\ call'[p].next = call[p].next
           /\ call'[p].old = call[p].old /\ call'[p].work = call[p].work
  <1>1. call[p] \in Calls
    OBVIOUS
  <1>2. call' \in [Processes -> Calls] /\ Moved(p, [call[p] EXCEPT !.step = step, !.snap = task])
    BY HoldDoes
  <1>3. QED
    BY <1>1, <1>2 DEF Moved, Alters, SameJob, Calls

LEMMA ReturnFields ==
    ASSUME call \in [Processes -> Calls], NEW p \in Processes, Return(p)
    PROVE  Alters(p) /\ call'[p] = NoCall
  BY ReturnDoes DEF Moved, Alters

LEMMA BeginFields ==
    ASSUME call \in [Processes -> Calls], NEW p \in Processes, NEW step \in Steps,
           NEW verb \in {"post", "send", "stream", "process", "cancel"},
           NEW t \in Tasks, NEW task \in TaskRecords, calls \in Nat,
           Begin(p, step, verb, t, task)
    PROVE  /\ Alters(p) /\ calls' \in Nat
           /\ call'[p].step = step /\ call'[p].verb = verb /\ call'[p].task = t /\ call'[p].snap = task
           /\ call'[p].old = {}
  <1>1. /\ call' \in [Processes -> Calls] /\ calls' \in Nat
        /\ Moved(p, [NoCall EXCEPT !.step = step, !.verb = verb, !.task = t, !.snap = task])
    BY BeginDoes
  <1>2. QED
    BY <1>1 DEF Moved, Alters, NoCall

LEMMA PutFacts ==
    ASSUME TasksTypeOK, NEW p \in Processes, call[p].task \in Tasks,
           store' = [store EXCEPT ![call[p].task] = call[p].snap]
    PROVE  /\ store' \in [Tasks -> TaskRecords] /\ store'[call[p].task] = call[p].snap
           /\ \A t \in Tasks \ {call[p].task} : store'[t] = store[t]
  <1>1. call[p] \in Calls /\ call[p].snap \in TaskRecords
    BY DEF TasksTypeOK, Calls
  <1>2. QED
    BY <1>1 DEF TasksTypeOK

\* What a handler hands back: its snapshot, with its reply if there is one.
LEMMA ResultDoes ==
    ASSUME TasksTypeOK, NEW p \in Processes,
           NEW s \in {"submitted", "working", "input_required"} \cup TerminalStates,
           NEW replies \in Seq(Entries), NEW arts \in SUBSET (Arts \cup Messages),
           Result(p, s, replies, arts)
    PROVE  /\ Alters(p) /\ SameJob(p) /\ call'[p].step = "final" /\ now' \in Nat
           /\ call'[p].old = call[p].old
           /\ call'[p].snap.history = call[p].snap.history \o replies
           /\ call'[p].snap.arts = call[p].snap.arts \cup arts
  <1> DEFINE a == [call[p].snap EXCEPT !.arts = @ \cup arts]
             w == WithStatus(a, s)
             r == [w EXCEPT !.history = @ \o replies]
  <1>1. call \in [Processes -> Calls] /\ call[p] \in Calls /\ call[p].snap \in TaskRecords /\ now \in Nat
    BY DEF TasksTypeOK, Calls
  <1>2. a \in TaskRecords /\ a.history = call[p].snap.history /\ a.arts = call[p].snap.arts \cup arts
    BY <1>1 DEF TaskRecords
  <1>3. w \in TaskRecords /\ w.history = a.history /\ w.arts = a.arts
    <2> HIDE DEF a
    <2>1. QED
      BY <1>1, <1>2, StatusTypes
  <1>4. r \in TaskRecords /\ r.history = w.history \o replies /\ r.arts = w.arts
    <2> HIDE DEF w
    <2>1. w.history \in Seq(Entries)
      BY <1>3 DEF TaskRecords
    <2>2. w.history \o replies \in Seq(Entries)
      BY <2>1
    <2>3. QED
      BY <1>3, <2>2 DEF TaskRecords
  <1>5. Hold(p, "final", r) /\ now' = now + 1
    BY DEF Result
  <1> HIDE DEF a, w, r
  <1>6. Alters(p) /\ SameJob(p) /\ call'[p].step = "final" /\ call'[p].snap = r /\ call'[p].old = call[p].old
    BY <1>1, <1>4, <1>5, HoldFields DEF Steps
  <1>7. now' \in Nat
    BY <1>1, <1>5
  <1>8. QED
    BY <1>2, <1>3, <1>4, <1>6, <1>7

LEMMA SendNewDoes ==
    ASSUME TasksTypeOK, NEW p \in Processes, NEW verb \in {"post", "send", "stream"},
           NEW t \in Tasks, SendNew(p, verb, t)
    PROVE  LET m == sent + 1 task == Submitted(NoTask, m) IN
           /\ At(p, "idle") /\ Alters(p) /\ calls' \in Nat /\ now' \in Nat /\ sent' \in 0..MaxMessages
           /\ store[t] = NoTask /\ journal' = journal
           /\ task \in TaskRecords /\ Begun(task) /\ task.history = <<UserSays(m)>> /\ task.arts = {}
           /\ m \in Messages
           /\ store' = [store EXCEPT ![t] = task]
           /\ call'[p].step \in {"respond", "enter"} /\ call'[p].verb = verb
           /\ call'[p].task = t /\ call'[p].snap = task /\ call'[p].old = {}
  <1> DEFINE m == sent + 1
             task == Submitted(NoTask, m)
  <1>1. /\ call \in [Processes -> Calls] /\ now \in Nat /\ calls \in Nat /\ sent \in 0..MaxMessages
        /\ MaxMessages \in Nat
    BY A2AAssumption DEF TasksTypeOK
  <1>2. /\ store[t] = NoTask /\ sent < MaxMessages /\ sent' = sent + 1 /\ now' = now + 1
        /\ Begin(p, AfterPut(verb), verb, t, task)
        /\ At(p, "idle") /\ store' = [store EXCEPT ![t] = task]
        /\ journal' = journal
    BY DEF SendNew, Sent, Existing
  <1>3. m \in Messages /\ sent' \in 0..MaxMessages
    BY <1>1, <1>2 DEF Messages
  <1>4. /\ NoTask \in TaskRecords /\ NoTask.history = <<>> /\ NoTask.arts = {}
    BY RecordFacts DEF NoTask
  <1> HIDE DEF m
  <1>5. task \in TaskRecords /\ Begun(task) /\ task.history = Append(<<>>, UserSays(m)) /\ task.arts = {}
    BY <1>1, <1>3, <1>4, SubmittedFacts
  <1>6. AfterPut(verb) \in {"respond", "enter"} /\ AfterPut(verb) \in Steps
    BY DEF AfterPut, Steps
  <1> HIDE DEF task
  <1>7. /\ Alters(p) /\ calls' \in Nat
        /\ call'[p].step = AfterPut(verb) /\ call'[p].verb = verb /\ call'[p].task = t
        /\ call'[p].snap = task /\ call'[p].old = {}
    BY <1>1, <1>2, <1>3, <1>5, <1>6, BeginFields
  <1>8. Append(<<>>, UserSays(m)) = <<UserSays(m)>>
    OBVIOUS
  <1>9. QED
    BY <1>1, <1>2, <1>3, <1>5, <1>6, <1>7, <1>8 DEF task, m

LEMMA SendMoreDoes ==
    ASSUME TasksTypeOK, StoreOK, NEW p \in Processes, NEW verb \in {"post", "send", "stream"}, NEW t \in Tasks,
           SendMore(p, verb, t)
    PROVE  LET m == sent + 1 IN
           /\ At(p, "idle") /\ Alters(p) /\ calls' \in Nat /\ now' \in Nat /\ sent' \in 0..MaxMessages
           /\ t \in Existing /\ m \in Messages /\ ~Terminal(store[t])
           /\ call'[p].step = "put" /\ call'[p].verb = verb /\ call'[p].task = t /\ call'[p].old = {}
           /\ Begun(call'[p].snap) /\ call'[p].snap.history = Append(store[t].history, UserSays(m))
           /\ call'[p].snap.arts = store[t].arts
           /\ UNCHANGED <<store, journal>>
  <1> DEFINE m == sent + 1
             task == Submitted(store[t], m)
  <1>1. /\ call \in [Processes -> Calls] /\ now \in Nat /\ calls \in Nat /\ sent \in 0..MaxMessages
        /\ MaxMessages \in Nat /\ store[t] \in TaskRecords
    BY A2AAssumption DEF TasksTypeOK, Tasks
  <1>2. /\ sent < MaxMessages /\ sent' = sent + 1 /\ now' = now + 1
        /\ Begin(p, "put", verb, t, task) /\ At(p, "idle") /\ UNCHANGED <<store, journal>>
        /\ store[t] # NoTask /\ ~Terminal(store[t])
    BY DEF SendMore, Sent, MayContinue
  <1>3. m \in Messages /\ sent' \in 0..MaxMessages
    BY <1>1, <1>2 DEF Messages
  <1>4. t \in Existing /\ Begun(store[t])
    BY <1>1, <1>2 DEF StoreOK, Existing
  <1> HIDE DEF m
  <1>5. /\ task \in TaskRecords /\ Begun(task) /\ task.history = Append(store[t].history, UserSays(m))
        /\ task.arts = store[t].arts
    BY <1>1, <1>3, <1>4, SubmittedFacts
  <1> HIDE DEF task
  <1>6. /\ Alters(p) /\ calls' \in Nat
        /\ call'[p].step = "put" /\ call'[p].verb = verb /\ call'[p].task = t
        /\ call'[p].snap = task /\ call'[p].old = {}
    BY <1>1, <1>2, <1>5, BeginFields DEF Steps
  <1>7. QED
    BY <1>1, <1>2, <1>3, <1>4, <1>5, <1>6 DEF m

LEMMA BeginProcessDoes ==
    ASSUME TasksTypeOK, StoreOK, NEW p \in Processes, NEW t \in Tasks, BeginProcess(p, t)
    PROVE  /\ At(p, "idle") /\ Alters(p) /\ calls' \in Nat /\ t \in Existing
           /\ call'[p].step = "enter" /\ call'[p].verb = "process" /\ call'[p].task = t
           /\ call'[p].snap = NoTask /\ call'[p].old = {}
           /\ UNCHANGED <<sent, now>>
  <1>1. /\ call \in [Processes -> Calls] /\ calls \in Nat
    BY A2AAssumption DEF TasksTypeOK, Tasks
  <1>2. t \in Existing
    BY <1>1 DEF StoreOK, BeginProcess, Existing
  <1>3. QED
    BY <1>1, <1>2, RecordFacts, BeginFields DEF BeginProcess, Steps

LEMMA BeginCancelDoes ==
    ASSUME TasksTypeOK, StoreOK, NEW p \in Processes, NEW t \in Tasks, BeginCancel(p, t)
    PROVE  /\ At(p, "idle") /\ Alters(p) /\ calls' \in Nat /\ t \in Existing /\ ~Terminal(store[t])
           /\ call'[p].step = "final" /\ call'[p].verb = "cancel" /\ call'[p].task = t
           /\ call'[p].snap.history = Append(store[t].history, AgentSays(None, None))
           /\ call'[p].snap.arts = store[t].arts
           /\ call'[p].old = {} /\ now' \in Nat /\ sent' = sent
  <1> DEFINE w == WithStatus(store[t], "canceled")
             s == Said(w, AgentSays(None, None))
  <1>1. /\ call \in [Processes -> Calls] /\ calls \in Nat /\ now \in Nat
        /\ store[t] \in TaskRecords
    BY A2AAssumption DEF TasksTypeOK, Tasks
  <1>2. t \in Existing
    BY <1>1 DEF StoreOK, BeginCancel, MayCancel, Existing
  <1>3. w \in TaskRecords /\ w.history = store[t].history /\ w.arts = store[t].arts
    BY <1>1, StatusTypes DEF TerminalStates
  <1> HIDE DEF w
  <1>4. s \in TaskRecords /\ s.history = Append(w.history, AgentSays(None, None))
    BY <1>3, RecordFacts, SaidTypes
  <1>5. s.arts = w.arts
    BY <1>3 DEF Said, TaskRecords
  <1>6. /\ Begin(p, "final", "cancel", t, s) /\ now' = now + 1 /\ sent' = sent
        /\ At(p, "idle") /\ ~Terminal(store[t])
    BY DEF BeginCancel, MayCancel, w
  <1> HIDE DEF s
  <1>7. /\ Alters(p) /\ calls' \in Nat /\ call'[p].step = "final" /\ call'[p].verb = "cancel"
        /\ call'[p].task = t /\ call'[p].snap = s /\ call'[p].old = {}
    BY <1>1, <1>4, <1>6, BeginFields DEF Steps
  <1>8. QED
    BY <1>1, <1>2, <1>3, <1>4, <1>5, <1>6, <1>7

LEMMA PutMoreDoes ==
    ASSUME TasksTypeOK, NEW p \in Processes, PutMore(p)
    PROVE  /\ At(p, "put") /\ Alters(p) /\ SameJob(p) /\ call'[p].step \in {"respond", "enter"}
           /\ call'[p].snap = call[p].snap /\ call'[p].old = call[p].old
           /\ store' = [store EXCEPT ![call[p].task] = call[p].snap]
           /\ UNCHANGED <<journal, sent, calls, now>>
  <1>1. AfterPut(call[p].verb) \in {"respond", "enter"} /\ AfterPut(call[p].verb) \in Steps
    BY DEF AfterPut, Steps
  <1>2. QED
    BY <1>1, GotoFields DEF PutMore, Put, TasksTypeOK

LEMMA PutWorkingDoes ==
    ASSUME TasksTypeOK, NEW p \in Processes, PutWorking(p)
    PROVE  /\ At(p, "working") /\ Alters(p) /\ SameJob(p) /\ call'[p].step = "handle"
           /\ call'[p].snap = call[p].snap /\ call'[p].old = call[p].old /\ call'[p].msg = call[p].msg
           /\ store' = [store EXCEPT ![call[p].task] = call[p].snap]
           /\ UNCHANGED <<journal, sent, calls, now>>
  BY GotoFields DEF PutWorking, Put, TasksTypeOK, Steps

LEMMA RespondDoes ==
    ASSUME TasksTypeOK, NEW p \in Processes, NEW limits \in SUBSET (Nat \cup {None}), Respond(p, limits)
    PROVE  LET first == call[p].verb = "stream" /\ call[p].next = None IN
           /\ At(p, "respond") /\ Alters(p) /\ SameJob(p) /\ call'[p].step = "note"
           /\ call'[p].snap.arts = call[p].snap.arts
           /\ limits = {None} => call'[p].snap = call[p].snap
           /\ call'[p].next \in {"idle", "stream"}
           /\ call'[p].old = IF first THEN call[p].snap.arts ELSE call[p].old
  <1> DEFINE first == call[p].verb = "stream" /\ call[p].next = None
             next == IF first THEN "stream" ELSE "idle"
             old == IF first THEN call[p].snap.arts ELSE call[p].old
  <1>1. call \in [Processes -> Calls] /\ call[p] \in Calls /\ call[p].snap \in TaskRecords
    BY DEF TasksTypeOK, Calls
  <1>2. PICK limit \in limits :
          call' = [call EXCEPT ![p].step = "note", ![p].snap = Answered(p, limit), ![p].next = next, ![p].old = old]
    BY DEF Respond
  <1>3. /\ Answered(p, limit) \in TaskRecords /\ Answered(p, limit).arts = call[p].snap.arts
        /\ limit = None => Answered(p, limit) = call[p].snap
    BY <1>1, LimitedFacts DEF Answered
  <1>4. next \in {"idle", "stream"} /\ old \in SUBSET (Arts \cup Messages)
    BY <1>1 DEF Calls, TaskRecords
  <1> DEFINE a == Answered(p, limit)
  <1> HIDE DEF next, old, a, first
  <1> DEFINE d == [call[p] EXCEPT !.step = "note", !.snap = a, !.next = next, !.old = old]
  <1>5. /\ d \in Calls /\ d.step = "note" /\ d.snap = a /\ d.next = next /\ d.old = old
        /\ d.verb = call[p].verb /\ d.task = call[p].task
    BY <1>1, <1>3, <1>4 DEF Calls, Steps, a
  <1>6. call' = [call EXCEPT ![p] = d]
    BY <1>1, <1>2 DEF a
  <1> HIDE DEF d
  <1>7. Alters(p) /\ call'[p] = d
    BY <1>1, <1>5, <1>6, AlterTypes
  <1>8. limits = {None} => limit = None
    OBVIOUS
  <1>9. At(p, "respond")
    BY DEF Respond
  <1>10. QED
    BY <1>3, <1>4, <1>5, <1>7, <1>8, <1>9 DEF SameJob, a, old, first

LEMMA StreamDoes ==
    ASSUME TasksTypeOK, NEW p \in Processes, Stream(p)
    PROVE  /\ At(p, "stream") /\ Alters(p)
           /\ \/ /\ SameJob(p) /\ call'[p].step = "enter"
                 /\ call'[p].snap = call[p].snap /\ call'[p].old = call[p].old
              \/ call'[p] = NoCall
  BY GotoFields, ReturnFields DEF Stream, TasksTypeOK, Steps

\* A call goes on where it was to go on, or returns.
GoesOn(p) ==
    \/ /\ call'[p] = NoCall
    \/ /\ SameJob(p) /\ call'[p].step = call[p].next
       /\ call'[p].snap = call[p].snap /\ call'[p].old = call[p].old

LEMMA AfterNoteDoes ==
    ASSUME TasksTypeOK, NEW p \in Processes, call[p].next \in Steps, AfterNote(p)
    PROVE  Alters(p) /\ GoesOn(p)
  BY GotoFields, ReturnFields DEF AfterNote, TasksTypeOK, GoesOn

LEMMA NoteDoes ==
    ASSUME TasksTypeOK, CallsOK, NEW p \in Processes, Note(p)
    PROVE  /\ At(p, "note") /\ Alters(p)
           /\ \/ GoesOn(p)
              \/ /\ SameJob(p) /\ call'[p].step = "insert" /\ call'[p].next = call[p].next
                 /\ call'[p].snap = call[p].snap /\ call'[p].old = call[p].old
  <1>1. At(p, "note") /\ call[p].next \in Steps /\ call \in [Processes -> Calls]
    BY DEF Note, CallsOK, CallOK, At, Steps, TasksTypeOK
  <1>2. CASE AfterNote(p)
    BY <1>1, <1>2, AfterNoteDoes
  <1>3. CASE Goto(p, "insert")
    BY <1>1, <1>3, GotoFields DEF Steps
  <1>4. QED
    BY <1>2, <1>3 DEF Note

LEMMA InsertRowDoes ==
    ASSUME TasksTypeOK, CallsOK, NEW p \in Processes, InsertRow(p)
    PROVE  /\ At(p, "insert") /\ Alters(p) /\ GoesOn(p)
           /\ journal' = Append(journal, [task |-> call[p].task, snap |-> call[p].snap])
           /\ UNCHANGED <<store, sent, calls, now>>
  <1>1. At(p, "insert") /\ call[p].next \in Steps
    BY DEF InsertRow, CallsOK, CallOK, At, Steps
  <1>2. QED
    BY <1>1, AfterNoteDoes DEF InsertRow

LEMMA EnterDoes ==
    ASSUME TasksTypeOK, NEW p \in Processes, call[p].task \in Tasks, Enter(p)
    PROVE  /\ At(p, "enter") /\ Alters(p) /\ SameJob(p) /\ call'[p].step = "note"
           /\ call'[p].snap = store[call[p].task] /\ call'[p].next = "check" /\ call'[p].old = call[p].old
  <1> DEFINE s == store[call[p].task]
             d == [call[p] EXCEPT !.step = "note", !.snap = s, !.next = "check"]
  <1>1. call \in [Processes -> Calls] /\ call[p] \in Calls /\ s \in TaskRecords
    BY DEF TasksTypeOK
  <1>2. At(p, "enter") /\ call' = [call EXCEPT ![p] = d]
    BY <1>1 DEF Enter
  <1> HIDE DEF s
  <1>3. /\ d \in Calls /\ d.step = "note" /\ d.snap = s /\ d.next = "check" /\ d.old = call[p].old
        /\ d.verb = call[p].verb /\ d.task = call[p].task
    BY <1>1 DEF Calls, Steps
  <1> HIDE DEF d
  <1>4. QED
    BY <1>1, <1>2, <1>3, AlterTypes DEF SameJob, s

LEMMA CheckDoes ==
    ASSUME TasksTypeOK, NEW p \in Processes, call[p].task \in Tasks, Begun(store[call[p].task]), Check(p)
    PROVE  LET s == store[call[p].task] IN
           /\ At(p, "check") /\ Alters(p) /\ now' \in Nat
           /\ \/ /\ SameJob(p) /\ call'[p].step = "note" /\ call'[p].snap = s
                 /\ call'[p].next \in {"respond", "emit", "idle"} /\ call'[p].old = call[p].old
              \/ /\ SameJob(p) /\ call'[p].step = "working" /\ call'[p].old = call[p].old /\ ~Terminal(s)
                 /\ call'[p].msg \in Messages
                 /\ \E i \in DOMAIN s.history : s.history[i] = UserSays(call'[p].msg)
                 /\ call'[p].snap.history = s.history /\ call'[p].snap.arts = s.arts
                 /\ ~Terminal(call'[p].snap)
              \/ call'[p] = NoCall
           /\ UNCHANGED <<store, journal, sent, calls>>
  <1> DEFINE s == store[call[p].task]
  <1>1. call \in [Processes -> Calls] /\ call[p] \in Calls /\ s \in TaskRecords /\ now \in Nat /\ Begun(s)
    BY DEF TasksTypeOK
  <1>2. At(p, "check") /\ UNCHANGED <<store, journal, sent, calls>>
    BY DEF Check
  <1>3. CASE Terminal(s)
    <2> DEFINE next == AfterProcess(call[p].verb)
               d == [call[p] EXCEPT !.step = "note", !.snap = s, !.next = next]
    <2>1. next \in {"respond", "emit", "idle"}
      BY DEF AfterProcess
    <2>2. call' = [call EXCEPT ![p] = d] /\ now' = now
      BY <1>1, <1>3 DEF Check
    <2> HIDE DEF s, next
    <2>3. /\ d \in Calls /\ d.step = "note" /\ d.snap = s /\ d.next = next /\ d.old = call[p].old
          /\ d.verb = call[p].verb /\ d.task = call[p].task
      BY <1>1, <2>1 DEF Calls, Steps
    <2> HIDE DEF d
    <2>4. QED
      BY <1>1, <1>2, <2>1, <2>2, <2>3, AlterTypes DEF SameJob, s
  <1>4. CASE ~Terminal(s) /\ s.state \in Processable
    <2> DEFINE m == LatestUser(s)
               w == WithStatus(s, "working")
               d == [call[p] EXCEPT !.step = "working", !.msg = m, !.snap = w]
    <2>1. m \in Messages /\ \E i \in DOMAIN s.history : s.history[i] = UserSays(m)
      <3> HIDE DEF s
      <3>1. QED
        BY <1>1, LatestUserFacts
    <2>2. w \in TaskRecords /\ w.history = s.history /\ w.arts = s.arts /\ ~Terminal(w)
      <3> HIDE DEF s
      <3>1. QED
        BY <1>1, StatusTypes DEF Terminal, TerminalStates
    <2>3. call' = [call EXCEPT ![p] = d] /\ now' = now + 1
      BY <1>1, <1>4 DEF Check
    <2> HIDE DEF s, m, w
    <2>4. /\ d \in Calls /\ d.step = "working" /\ d.snap = w /\ d.msg = m /\ d.old = call[p].old
          /\ d.verb = call[p].verb /\ d.task = call[p].task
      BY <1>1, <2>1, <2>2 DEF Calls, Steps
    <2> HIDE DEF d
    <2>5. Alters(p) /\ call'[p] = d
      BY <1>1, <2>3, <2>4, AlterTypes
    <2>6. QED
      BY <1>1, <1>2, <1>4, <2>1, <2>2, <2>3, <2>4, <2>5 DEF SameJob, s
  <1>5. CASE ~Terminal(s) /\ s.state \notin Processable
    <2>1. Return(p) /\ now' = now
      BY <1>5 DEF Check
    <2>2. QED
      BY <1>1, <1>2, <2>1, ReturnFields
  <1>6. QED
    BY <1>3, <1>4, <1>5

LEMMA PutFinalDoes ==
    ASSUME TasksTypeOK, NEW p \in Processes, PutFinal(p)
    PROVE  /\ At(p, "final") /\ Alters(p) /\ SameJob(p) /\ call'[p].step = "note"
           /\ call'[p].snap = call[p].snap /\ call'[p].old = call[p].old
           /\ call'[p].next \in {"respond", "emit", "idle"}
           /\ store' = [store EXCEPT ![call[p].task] = call[p].snap]
           /\ UNCHANGED <<journal, sent, calls, now>>
  <1> DEFINE next == AfterProcess(call[p].verb)
             d == [call[p] EXCEPT !.step = "note", !.next = next]
  <1>1. call \in [Processes -> Calls] /\ call[p] \in Calls
    BY DEF TasksTypeOK
  <1>2. next \in {"respond", "emit", "idle"}
    BY DEF AfterProcess
  <1>3. call' = [call EXCEPT ![p] = d]
    BY <1>1 DEF PutFinal
  <1> HIDE DEF next
  <1>4. /\ d \in Calls /\ d.step = "note" /\ d.snap = call[p].snap /\ d.next = next /\ d.old = call[p].old
        /\ d.verb = call[p].verb /\ d.task = call[p].task
    BY <1>1, <1>2 DEF Calls, Steps
  <1> HIDE DEF d
  <1>5. QED
    BY <1>1, <1>2, <1>3, <1>4, AlterTypes DEF SameJob, PutFinal

LEMMA EmitDoes ==
    ASSUME TasksTypeOK, NEW p \in Processes, Emit(p)
    PROVE  /\ At(p, "emit") /\ Alters(p) /\ SameJob(p) /\ call'[p].step = "streamed"
           /\ call'[p].snap = call[p].snap
           /\ call'[p].old = call[p].old \cup call[p].snap.arts
  <1> DEFINE old == call[p].old \cup Owed(p)
             d == [call[p] EXCEPT !.step = "streamed", !.old = old]
  <1>1. call \in [Processes -> Calls] /\ call[p] \in Calls /\ call[p].snap \in TaskRecords
    BY DEF TasksTypeOK, Calls
  <1>2. old \in SUBSET (Arts \cup Messages) /\ old = call[p].old \cup call[p].snap.arts
    BY <1>1 DEF Calls, TaskRecords, Owed
  <1>3. call' = [call EXCEPT ![p] = d] /\ At(p, "emit")
    BY <1>1 DEF Emit
  <1> HIDE DEF old
  <1>4. /\ d \in Calls /\ d.step = "streamed" /\ d.snap = call[p].snap /\ d.old = old
        /\ d.verb = call[p].verb /\ d.task = call[p].task
    BY <1>1, <1>2 DEF Calls, Steps
  <1> HIDE DEF d
  <1>5. QED
    BY <1>1, <1>2, <1>3, <1>4, AlterTypes DEF SameJob

LEMMA CloseStreamDoes ==
    ASSUME TasksTypeOK, NEW p \in Processes, CloseStream(p) \/ Crash(p)
    PROVE  Alters(p) /\ call'[p] = NoCall
  BY ReturnFields DEF CloseStream, Crash, TasksTypeOK

LEMMA BusyTask ==
    ASSUME TasksTypeOK, CallsOK, StoreOK, NEW p \in Processes, call[p].step # "idle"
    PROVE  call[p].task \in Existing /\ call[p].task \in Tasks /\ Begun(store[call[p].task])
  <1>1. call[p].task \in Existing
    BY DEF CallsOK, CallOK
  <1>2. QED
    BY <1>1 DEF StoreOK, Existing

LEMMA PlainHandlerDoes ==
    ASSUME TypeOK, NEW p \in Processes, PlainHandler(p, Results)
    PROVE  /\ At(p, "handle") /\ Alters(p) /\ now' \in Nat
           /\ \/ /\ SameJob(p) /\ call'[p].step = "final" /\ call'[p].old = call[p].old
                 /\ \E replies \in Seq(Entries) : call'[p].snap.history = call[p].snap.history \o replies
                 /\ call[p].snap.arts \subseteq call'[p].snap.arts
              \/ call'[p] = NoCall
           /\ UNCHANGED <<store, journal, sent, calls>>
  <1>1. /\ TasksTypeOK /\ call \in [Processes -> Calls] /\ now \in Nat
        /\ call[p].msg \in Messages \cup {None}
    BY DEF TypeOK, TasksTypeOK, Calls
  <1>2. /\ <<>> \in Seq(Entries)
        /\ \A a \in Messages \cup {None} : <<AgentSays(call[p].msg, a)>> \in Seq(Entries)
    BY <1>1, RecordFacts
  <1>3. \A r \in Results : r.arts \in SUBSET (Arts \cup Messages)
    BY DEF Results
  <1>4. ASSUME NEW s \in {"completed", "input_required", "failed"}, NEW replies \in Seq(Entries),
               NEW arts \in SUBSET (Arts \cup Messages), Result(p, s, replies, arts)
        PROVE  /\ Alters(p) /\ now' \in Nat
               /\ SameJob(p) /\ call'[p].step = "final" /\ call'[p].old = call[p].old
               /\ \E rs \in Seq(Entries) : call'[p].snap.history = call[p].snap.history \o rs
               /\ call[p].snap.arts \subseteq call'[p].snap.arts
    <2>1. s \in {"submitted", "working", "input_required"} \cup TerminalStates
      BY DEF TerminalStates
    <2>2. /\ Alters(p) /\ SameJob(p) /\ call'[p].step = "final" /\ now' \in Nat
          /\ call'[p].old = call[p].old
          /\ call'[p].snap.history = call[p].snap.history \o replies
          /\ call'[p].snap.arts = call[p].snap.arts \cup arts
      BY <1>1, <1>4, <2>1, ResultDoes
    <2>3. QED
      BY <2>2
  <1>5. ASSUME NEW s \in {"completed", "input_required"}, NEW r \in Results,
               Result(p, s, IF r.replies THEN <<AgentSays(call[p].msg, call[p].msg)>> ELSE <<>>, r.arts)
        PROVE  \E replies \in Seq(Entries), arts \in SUBSET (Arts \cup Messages) : Result(p, s, replies, arts)
    <2>1. (IF r.replies THEN <<AgentSays(call[p].msg, call[p].msg)>> ELSE <<>>) \in Seq(Entries)
      BY <1>1, <1>2
    <2>2. QED
      BY <1>3, <1>5, <2>1
  <1>6. \/ \E s \in {"completed", "input_required", "failed"}, replies \in Seq(Entries),
              arts \in SUBSET (Arts \cup Messages) : Result(p, s, replies, arts)
        \/ Return(p) /\ UNCHANGED now
    <2>1. CASE \E s \in {"completed", "input_required"}, r \in Results :
                 Result(p, s, IF r.replies THEN <<AgentSays(call[p].msg, call[p].msg)>> ELSE <<>>, r.arts)
      BY <2>1, <1>5
    <2>2. CASE Result(p, "failed", <<AgentSays(call[p].msg, None)>>, {})
      BY <2>2, <1>2
    <2>3. CASE Return(p) /\ UNCHANGED now
      BY <2>3
    <2>4. QED
      BY <2>1, <2>2, <2>3 DEF PlainHandler
  <1>7. At(p, "handle") /\ UNCHANGED <<store, journal, sent, calls>>
    BY DEF PlainHandler
  <1>8. QED
    BY <1>1, <1>4, <1>6, <1>7, ReturnFields

\* The handler is done: its snapshot goes on with one entry.
Ends(p, e) ==
    /\ Alters(p) /\ SameJob(p) /\ now' \in Nat
    /\ call'[p].step = "final" /\ call'[p].old = call[p].old
    /\ call'[p].snap.history = Append(call[p].snap.history, e)
    /\ call[p].snap.arts \subseteq call'[p].snap.arts

LEMMA ReplyDoes ==
    ASSUME TasksTypeOK, NEW p \in Processes, NEW s \in TerminalStates,
           NEW answer \in Messages \cup {None}, NEW arts \in SUBSET (Arts \cup Messages),
           Reply(p, s, answer, arts)
    PROVE  Ends(p, AgentSays(call[p].msg, answer))
  <1> DEFINE e == AgentSays(call[p].msg, answer)
  <1>1. e \in Entries /\ call[p].snap.history \in Seq(Entries)
    BY RecordFacts DEF TasksTypeOK, Calls, TaskRecords
  <1>2. Result(p, s, <<e>>, arts)
    BY DEF Reply
  <1> HIDE DEF e
  <1>3. <<e>> \in Seq(Entries) /\ call[p].snap.history \o <<e>> = Append(call[p].snap.history, e)
    BY <1>1
  <1>4. /\ Alters(p) /\ SameJob(p) /\ call'[p].step = "final" /\ now' \in Nat
        /\ call'[p].old = call[p].old
        /\ call'[p].snap.history = call[p].snap.history \o <<e>>
        /\ call'[p].snap.arts = call[p].snap.arts \cup arts
    BY <1>2, <1>3, ResultDoes
  <1>5. QED
    BY <1>3, <1>4 DEF Ends, e

LEMMA SubmitDoes ==
    ASSUME TypeInv, NEW p \in Processes, Submit(p)
    PROVE  LET c == call[p] IN
           /\ At(p, "handle") /\ Alters(p) /\ c.msg \in Messages /\ UNCHANGED <<turn, failed>>
           /\ \/ Ends(p, AgentSays(c.msg, None)) /\ UNCHANGED <<line, item>>
              \/ /\ SameJob(p) /\ now' = now /\ call'[p].step = "run" /\ call'[p].snap = c.snap
                 /\ call'[p].old = c.old /\ call'[p].msg = c.msg
                 /\ item[c.msg] = "absent" /\ item' = [item EXCEPT ![c.msg] = "pending"]
                 /\ line' = Append(line, [msg |-> c.msg, task |-> c.task])
  <1>1. TasksTypeOK /\ call \in [Processes -> Calls] /\ At(p, "handle")
    BY DEF TypeInv, TypeOK, TasksTypeOK, Submit
  <1>2. call[p].msg \in Messages
    BY <1>1 DEF TypeInv, CallsOK, CallOK, OnMessage, At
  <1>3. ASSUME NEW s \in {"rejected", "failed"}, Reply(p, s, None, {})
        PROVE  Ends(p, AgentSays(call[p].msg, None))
    <2>1. s \in TerminalStates
      BY DEF TerminalStates
    <2>2. QED
      BY <1>1, <1>3, <2>1, ReplyDoes
  <1>4. CASE Reply(p, "rejected", None, {}) /\ UNCHANGED bridgeVars
    BY <1>1, <1>2, <1>3, <1>4 DEF bridgeVars, Ends
  <1>5. CASE Reply(p, "failed", None, {}) /\ UNCHANGED bridgeVars
    BY <1>1, <1>2, <1>3, <1>5 DEF bridgeVars, Ends
  <1>6. CASE /\ item[call[p].msg] = "absent"
             /\ line' = Append(line, [msg |-> call[p].msg, task |-> call[p].task])
             /\ item' = [item EXCEPT ![call[p].msg] = "pending"]
             /\ Goto(p, "run")
             /\ UNCHANGED <<turn, failed, now>>
    BY <1>1, <1>2, <1>6, GotoFields DEF Steps
  <1>7. QED
    BY <1>4, <1>5, <1>6 DEF Submit

LEMMA ProducedTypes ==
    ASSUME TypeInv, NEW t \in Tasks
    PROVE  Produced(t) \in SUBSET (Arts \cup Messages)
  <1>1. ASSUME NEW x \in Range(line), x.task = t
        PROVE  x.msg \in Messages
    BY <1>1 DEF TypeInv, LineOK, Range
  <1>2. QED
    BY <1>1 DEF Produced

\* The next item of the task's thread, when there is one.
Next1(p) == Min(Claimable(p))

LEMMA ClaimableFacts ==
    ASSUME TypeInv, NEW p \in Processes, call[p].task \in Tasks, Claimable(p) # {}
    PROVE  LET i == Next1(p) IN
           /\ i \in DOMAIN line /\ line[i].task = call[p].task /\ line[i].msg \in Messages
           /\ item[line[i].msg] \in {"pending", "lapsed"}
  <1>1. line \in Seq([msg : Messages \cup {Foreign}, task : Tasks \cup {None}])
    BY DEF TypeInv, TypeOK, BridgeTypeOK
  <1>2. Claimable(p) \in SUBSET Nat
    BY DEF Claimable
  <1>3. Next1(p) \in Claimable(p)
    BY <1>2, MinFacts DEF Next1
  <1>4. /\ Next1(p) \in DOMAIN line /\ line[Next1(p)].task = call[p].task
        /\ item[line[Next1(p)].msg] \in {"pending", "lapsed"}
    BY <1>1, <1>3 DEF Claimable, Allowed
  <1>5. QED
    BY <1>4 DEF TypeInv, LineOK

LEMMA ClaimDoes ==
    ASSUME TypeInv, NEW p \in Processes, Claim(p)
    PROVE  LET c == call[p]
               m == line[Next1(p)].msg IN
           /\ At(p, "run") /\ Alters(p) /\ c.msg \in Messages /\ c.task \in Tasks /\ UNCHANGED <<line, failed>>
           /\ \/ Ends(p, AgentSays(c.msg, None)) /\ Claimable(p) = {} /\ UNCHANGED <<item, turn>>
              \/ /\ Ends(p, AgentSays(c.msg, None)) /\ Claimable(p) # {} /\ turn' = turn
                 /\ \/ item' = [item EXCEPT ![m] = "cancelled"]
                    \/ turn[c.task] \notin {None, m} /\ item' = [item EXCEPT ![m] = "pending"]
              \/ /\ SameJob(p) /\ now' = now /\ call'[p].step = "turn" /\ call'[p].snap = c.snap
                 /\ call'[p].old = c.old /\ call'[p].msg = c.msg /\ call'[p].work = m
                 /\ Claimable(p) # {} /\ item' = [item EXCEPT ![m] = "leased"]
                 /\ turn' = [turn EXCEPT ![c.task] = m]
  <1> DEFINE m == line[Next1(p)].msg
             t == call[p].task
  <1>1. /\ TasksTypeOK /\ call \in [Processes -> Calls] /\ call[p] \in Calls /\ At(p, "run")
        /\ UNCHANGED <<line, failed>>
    BY DEF TypeInv, TypeOK, TasksTypeOK, Claim
  <1>2. call[p].msg \in Messages /\ t \in Tasks
    BY <1>1, BusyTask DEF TypeInv, CallsOK, CallOK, OnMessage, At
  <1>3. {} \in SUBSET (Arts \cup Messages) /\ Produced(t) \in SUBSET (Arts \cup Messages)
    BY <1>2, ProducedTypes
  <1>4. ASSUME NEW arts \in SUBSET (Arts \cup Messages), Reply(p, "failed", None, arts)
        PROVE  Ends(p, AgentSays(call[p].msg, None))
    <2>1. "failed" \in TerminalStates
      BY DEF TerminalStates
    <2>2. QED
      BY <1>1, <1>4, <2>1, ReplyDoes
  <1>5. CASE Claimable(p) = {}
    <2>1. Reply(p, "failed", None, {}) /\ UNCHANGED <<item, turn>>
      BY <1>5 DEF Claim
    <2>2. QED
      BY <1>1, <1>2, <1>3, <1>4, <1>5, <2>1 DEF Ends
  <1>6. CASE Claimable(p) # {} /\ t \in failed
    <2>1. Defer(p, m, "cancelled")
      BY <1>6 DEF Claim, Next1
    <2>2. Ends(p, AgentSays(call[p].msg, None)) /\ item' = [item EXCEPT ![m] = "cancelled"] /\ turn' = turn
      BY <1>3, <1>4, <2>1 DEF Defer
    <2>3. QED
      BY <1>1, <1>2, <1>6, <2>2 DEF Ends
  <1>7. CASE Claimable(p) # {} /\ t \notin failed /\ turn[t] \notin {None, m}
    <2>1. Defer(p, m, "pending")
      BY <1>7 DEF Claim, Next1
    <2>2. Ends(p, AgentSays(call[p].msg, None)) /\ item' = [item EXCEPT ![m] = "pending"] /\ turn' = turn
      BY <1>3, <1>4, <2>1 DEF Defer
    <2>3. QED
      BY <1>1, <1>2, <1>7, <2>2 DEF Ends
  <1>8. CASE Claimable(p) # {} /\ t \notin failed /\ turn[t] \in {None, m}
    <2> DEFINE d == [call[p] EXCEPT !.step = "turn", !.work = m]
    <2>1. /\ item' = [item EXCEPT ![m] = "leased"] /\ turn' = [turn EXCEPT ![t] = m] /\ now' = now
          /\ call' = [call EXCEPT ![p].step = "turn", ![p].work = m]
      BY <1>8 DEF Claim, Next1
    <2>2. m \in Messages
      BY <1>2, <1>8, ClaimableFacts
    <2> HIDE DEF m
    <2>3. /\ d \in Calls /\ d.step = "turn" /\ d.work = m /\ d.snap = call[p].snap /\ d.old = call[p].old
          /\ d.verb = call[p].verb /\ d.task = call[p].task /\ d.msg = call[p].msg
      BY <1>1, <2>2 DEF Calls, Steps
    <2>4. call' = [call EXCEPT ![p] = d]
      BY <1>1, <2>1
    <2> HIDE DEF d
    <2>5. Alters(p) /\ call'[p] = d
      BY <1>1, <2>3, <2>4, AlterTypes
    <2>6. QED
      BY <1>1, <1>2, <1>8, <2>1, <2>3, <2>5 DEF SameJob, m
  <1>9. QED
    BY <1>5, <1>6, <1>7, <1>8

LEMMA FinishTurnDoes ==
    ASSUME TypeInv, NEW p \in Processes, FinishTurn(p)
    PROVE  LET c == call[p] IN
           /\ At(p, "turn") /\ Alters(p) /\ c.msg \in Messages /\ c.work \in Messages /\ c.task \in Tasks
           /\ line' = line /\ turn' = [turn EXCEPT ![c.task] = None]
           /\ \/ /\ Ends(p, AgentSays(c.msg, c.work)) /\ failed' = failed
                 /\ item' = [item EXCEPT ![c.work] = "completed"]
              \/ /\ Ends(p, AgentSays(c.msg, None)) /\ failed' = failed \cup {c.task}
                 /\ item' = [item EXCEPT ![c.work] = "failed"]
  <1> DEFINE m == call[p].work
             t == call[p].task
  <1>1. /\ TasksTypeOK /\ call \in [Processes -> Calls] /\ At(p, "turn") /\ line' = line
        /\ turn' = [turn EXCEPT ![t] = None]
    BY DEF TypeInv, TypeOK, TasksTypeOK, FinishTurn
  <1>2. call[p].msg \in Messages /\ t \in Tasks /\ m \in Messages
    BY <1>1, BusyTask DEF TypeInv, CallsOK, CallOK, OnMessage, At
  <1>3. /\ {} \in SUBSET (Arts \cup Messages) /\ Produced(t) \cup {m} \in SUBSET (Arts \cup Messages)
        /\ Produced(t) \in SUBSET (Arts \cup Messages)
        /\ {"completed", "failed"} \subseteq TerminalStates
    BY <1>2, ProducedTypes DEF TerminalStates
  <1>4. CASE /\ Reply(p, "completed", m, Produced(t) \cup {m})
             /\ item' = [item EXCEPT ![m] = "completed"] /\ UNCHANGED failed
    <2>1. Ends(p, AgentSays(call[p].msg, m))
      BY <1>1, <1>2, <1>3, <1>4, ReplyDoes
    <2>2. QED
      BY <1>1, <1>2, <1>4, <2>1 DEF Ends
  <1>5. CASE /\ \E projected \in {{}, Produced(t)} : Reply(p, "failed", None, projected)
             /\ item' = [item EXCEPT ![m] = "failed"] /\ failed' = failed \cup {t}
    <2>0. PICK projected \in {{}, Produced(t)} : Reply(p, "failed", None, projected)
      BY <1>5
    <2>1. Ends(p, AgentSays(call[p].msg, None))
      BY <1>1, <1>2, <1>3, <2>0, ReplyDoes
    <2>2. QED
      BY <1>1, <1>2, <1>5, <2>1 DEF Ends
  <1>6. QED
    BY <1>4, <1>5 DEF FinishTurn

-----------------------------------------------------------------------------
(* The steps of a service, one disjunct for each operation *)

Quiet == UNCHANGED <<store, journal, sent, calls, now>>
Sends == {"post", "send", "stream"}

RequestStep(p) ==
    \/ \E verb \in Sends, t \in Tasks : SendNew(p, verb, t)
    \/ \E verb \in Sends, t \in Tasks : SendMore(p, verb, t)
    \/ \E t \in Tasks : BeginProcess(p, t) /\ UNCHANGED <<store, journal>>
    \/ \E t \in Tasks : BeginCancel(p, t) /\ UNCHANGED <<store, journal>>
    \/ Crash(p)

WriteStep(p) == PutMore(p) \/ PutWorking(p) \/ PutFinal(p)

ReadStep(p) ==
    \/ \E limits \in SUBSET (Nat \cup {None}) :
         (scene = "bridge" => limits = {None}) /\ Respond(p, limits) /\ Quiet
    \/ Stream(p) /\ Quiet
    \/ Note(p) /\ Quiet
    \/ InsertRow(p)
    \/ Enter(p) /\ Quiet
    \/ Check(p)
    \/ Emit(p) /\ Quiet
    \/ CloseStream(p) /\ Quiet
    \/ scene # "bridge" /\ PlainHandler(p, Results)

RunStep(p) == scene = "bridge" /\ (Submit(p) \/ Claim(p) \/ FinishTurn(p)) /\ UNCHANGED <<store, journal, sent, calls>>

LEMMA ServiceSteps ==
    ASSUME TypeOK, Service
    PROVE  \/ \E p \in users : RequestStep(p) /\ UNCHANGED bridgeVars
           \/ \E p \in users : WriteStep(p) /\ UNCHANGED bridgeVars
           \/ \E p \in users : ReadStep(p) /\ UNCHANGED bridgeVars
           \/ \E p \in users : RunStep(p)
           \/ \E m \in Messages : Lapse(m) /\ UNCHANGED taskVars
  <1>1. scene \in {"tasks", "bridge", "feed", "pages"}
    BY DEF TypeOK
  <1>2. Verbs \subseteq Sends
    BY <1>1 DEF Verbs, Sends
  <1>3. Known \subseteq Tasks
    BY ClientAssumption DEF Known
  <1>4. ASSUME NEW p \in users, Request(p)
        PROVE  RequestStep(p)
    <2>1. CASE \E verb \in Verbs, t \in Known : SendNew(p, verb, t)
      BY <1>2, <1>3, <2>1 DEF RequestStep
    <2>2. CASE \E verb \in Verbs, t \in Known : SendMore(p, verb, t)
      BY <1>2, <1>3, <2>2 DEF RequestStep
    <2>3. CASE \E t \in Known : BeginProcess(p, t) /\ UNCHANGED <<store, journal>>
      BY <1>3, <2>3 DEF RequestStep
    <2>4. CASE \E t \in Known : BeginCancel(p, t) /\ UNCHANGED <<store, journal>>
      BY <1>3, <2>4 DEF RequestStep
    <2>5. QED
      BY <1>4, <2>1, <2>2, <2>3, <2>4 DEF Request
  <1>5. ASSUME NEW p \in users, NEW limits \in SUBSET (Nat \cup {None}),
               scene = "bridge" => limits = {None}, TaskStep(p, limits)
        PROVE  WriteStep(p) \/ ReadStep(p)
    BY <1>5 DEF TaskStep, WriteStep, ReadStep, Quiet
  <1>6. ASSUME NEW p \in users, Serve(p)
        PROVE  (WriteStep(p) /\ UNCHANGED bridgeVars) \/ (ReadStep(p) /\ UNCHANGED bridgeVars) \/ RunStep(p)
    <2> DEFINE limits == IF scene = "feed" THEN Limits ELSE {None}
    <2>1. CASE TaskStep(p, limits) /\ UNCHANGED bridgeVars
      <3>1. limits \in SUBSET (Nat \cup {None}) /\ (scene = "bridge" => limits = {None})
        BY ClientAssumption
      <3> HIDE DEF limits
      <3>2. QED
        BY <1>5, <2>1, <3>1
    <2>2. CASE scene = "bridge" /\ BridgeStep(p)
      BY <2>2 DEF BridgeStep, RunStep
    <2>3. CASE scene # "bridge" /\ PlainHandler(p, Results) /\ UNCHANGED bridgeVars
      BY <2>3 DEF ReadStep
    <2>4. QED
      BY <1>6, <2>1, <2>2, <2>3 DEF Serve
  <1>7. QED
    BY <1>4, <1>6 DEF Service, RequestStep

-----------------------------------------------------------------------------
(* The type invariant *)

\* The types hold when they hold of the process that moved and of the store.
LEMMA SettleTypes ==
    ASSUME TypeInv, NEW p \in users, Alters(p), UNCHANGED <<users, calm>>,
           Existing \subseteq Existing',
           store' \in [Tasks -> TaskRecords], StoreOK', CallOK(p, call[p])',
           journal' \in Seq([task : Tasks, snap : TaskRecords]),
           sent' \in 0..MaxMessages, calls' \in Nat, now' \in Nat
    PROVE  TasksTypeOK' /\ StoreOK' /\ CallsOK'
  <1>1. TasksTypeOK /\ p \in Processes
    BY DEF TypeInv, TypeOK, TasksTypeOK
  <1>2. ASSUME NEW q \in Processes \ {p}
        PROVE  CallOK(q, call[q])'
    <2>1. CallOK(q, call[q]) /\ call'[q] = call[q]
      BY DEF TypeInv, CallsOK, Alters
    <2>2. QED
      BY <2>1 DEF CallOK
  <1>3. CallsOK'
    BY <1>2 DEF CallsOK
  <1>4. QED
    BY <1>1, <1>3 DEF TasksTypeOK, Alters

LEMMA QuietStore ==
    ASSUME TypeInv, UNCHANGED <<store, journal, sent, calls>>, now' \in Nat
    PROVE  /\ Existing \subseteq Existing'
           /\ store' \in [Tasks -> TaskRecords] /\ StoreOK'
           /\ journal' \in Seq([task : Tasks, snap : TaskRecords])
           /\ sent' \in 0..MaxMessages /\ calls' \in Nat /\ now' \in Nat
  BY DEF TypeInv, TypeOK, TasksTypeOK, StoreOK, Existing

LEMMA PutStore ==
    ASSUME TypeInv, NEW p \in Processes, call[p].step \in Writing,
           store' = [store EXCEPT ![call[p].task] = call[p].snap],
           UNCHANGED <<journal, sent, calls, now>>
    PROVE  /\ Existing \subseteq Existing'
           /\ store' \in [Tasks -> TaskRecords] /\ StoreOK'
           /\ journal' \in Seq([task : Tasks, snap : TaskRecords])
           /\ sent' \in 0..MaxMessages /\ calls' \in Nat /\ now' \in Nat
  <1>1. TasksTypeOK /\ CallsOK /\ StoreOK /\ call[p].step # "idle"
    BY DEF TypeInv, TypeOK, Writing
  <1>2. call[p].task \in Existing /\ call[p].task \in Tasks /\ Begun(call[p].snap)
    BY <1>1, BusyTask DEF CallsOK, CallOK
  <1>3. /\ store' \in [Tasks -> TaskRecords] /\ store'[call[p].task] = call[p].snap
        /\ \A t \in Tasks \ {call[p].task} : store'[t] = store[t]
    BY <1>1, <1>2, PutFacts
  <1>4. StoreOK'
    <2>1. ASSUME NEW t \in Tasks
          PROVE  (store[t] = NoTask \/ Begun(store[t]))'
      BY <1>1, <1>2, <1>3 DEF StoreOK, Begun
    <2>2. QED
      BY <2>1 DEF StoreOK
  <1>5. Existing \subseteq Existing'
    <2>1. call[p].snap # NoTask
      BY <1>2 DEF Begun, NoTask
    <2>2. QED
      BY <1>3, <2>1 DEF Existing
  <1>6. QED
    BY <1>1, <1>3, <1>4, <1>5 DEF TasksTypeOK

LEMMA RequestTypes ==
    ASSUME TypeInv, NEW p \in users, RequestStep(p), UNCHANGED <<users, calm>>
    PROVE  TasksTypeOK' /\ StoreOK' /\ CallsOK'
  <1>1. /\ TypeOK /\ TasksTypeOK /\ StoreOK /\ CallsOK /\ p \in Processes
        /\ journal \in Seq([task : Tasks, snap : TaskRecords]) /\ sent \in 0..MaxMessages
        /\ store \in [Tasks -> TaskRecords] /\ now \in Nat
        /\ calls \in Nat
    BY A2AAssumption DEF TypeInv, TypeOK, TasksTypeOK
  <1>2. ASSUME NEW verb \in Sends, NEW t \in Tasks, SendNew(p, verb, t)
        PROVE  TasksTypeOK' /\ StoreOK' /\ CallsOK'
    <2> DEFINE task == Submitted(NoTask, sent + 1)
    <2>1. /\ Alters(p) /\ calls' \in Nat /\ now' \in Nat /\ sent' \in 0..MaxMessages
          /\ store[t] = NoTask /\ journal' = journal
          /\ task \in TaskRecords /\ Begun(task)
          /\ store' = [store EXCEPT ![t] = task]
          /\ call'[p].step \in {"respond", "enter"} /\ call'[p].task = t /\ call'[p].snap = task
      BY <1>1, <1>2, SendNewDoes DEF Sends
    <2> HIDE DEF task
    <2>2. /\ store' \in [Tasks -> TaskRecords] /\ store'[t] = task
          /\ \A u \in Tasks \ {t} : store'[u] = store[u]
      BY <1>1, <2>1
    <2>a. task # NoTask
      BY <2>1 DEF Begun, NoTask
    <2>3. StoreOK' /\ Existing \subseteq Existing' /\ t \in Existing'
      BY <1>1, <2>1, <2>2, <2>a DEF StoreOK, Existing, Begun
    <2>4. CallOK(p, call[p])'
      BY <2>1, <2>3 DEF CallOK, Writing, OnMessage
    <2>5. QED
      BY <1>1, <2>1, <2>2, <2>3, <2>4, SettleTypes

  <1>3. ASSUME NEW verb \in Sends, NEW t \in Tasks, SendMore(p, verb, t)
        PROVE  TasksTypeOK' /\ StoreOK' /\ CallsOK'
    <2>1. /\ Alters(p) /\ calls' \in Nat /\ now' \in Nat /\ sent' \in 0..MaxMessages
          /\ t \in Existing /\ call'[p].step = "put" /\ call'[p].task = t /\ Begun(call'[p].snap)
          /\ UNCHANGED <<store, journal>>
      BY <1>1, <1>3, SendMoreDoes DEF Sends
    <2>2. CallOK(p, call[p])' /\ StoreOK'
      BY <1>1, <2>1 DEF CallOK, Writing, OnMessage, StoreOK, Begun, Existing
    <2>3. QED
      BY <1>1, <2>1, <2>2, SettleTypes DEF Existing
  <1>4. ASSUME NEW t \in Tasks, BeginProcess(p, t), UNCHANGED <<store, journal>>
        PROVE  TasksTypeOK' /\ StoreOK' /\ CallsOK'
    <2>1. /\ Alters(p) /\ calls' \in Nat /\ t \in Existing /\ call'[p].step = "enter" /\ call'[p].task = t
          /\ UNCHANGED <<sent, now>>
      BY <1>1, <1>4, BeginProcessDoes
    <2>2. CallOK(p, call[p])' /\ StoreOK'
      BY <1>1, <1>4, <2>1 DEF CallOK, Writing, OnMessage, StoreOK, Begun, Existing
    <2>3. QED
      BY <1>1, <1>4, <2>1, <2>2, SettleTypes DEF Existing
  <1>5. ASSUME NEW t \in Tasks, BeginCancel(p, t), UNCHANGED <<store, journal>>
        PROVE  TasksTypeOK' /\ StoreOK' /\ CallsOK'
    <2>1. /\ Alters(p) /\ calls' \in Nat /\ t \in Existing /\ call'[p].step = "final" /\ call'[p].task = t
          /\ sent' = sent /\ now' \in Nat
          /\ call'[p].snap.history = Append(store[t].history, AgentSays(None, None))
      BY <1>1, <1>5, BeginCancelDoes
    <2>2. store[t].history \in Seq(Entries) /\ Begun(store[t])
      <3>1. store[t] # NoTask /\ store[t] \in TaskRecords
        BY <1>1, <2>1 DEF Existing
      <3>2. QED
        BY <1>1, <3>1 DEF StoreOK, TaskRecords
    <2>3. Begun(call'[p].snap)
      BY <2>1, <2>2 DEF Begun
    <2>4. CallOK(p, call[p])' /\ StoreOK'
      BY <1>1, <1>5, <2>1, <2>3 DEF CallOK, Writing, OnMessage, StoreOK, Begun, Existing
    <2>5. QED
      BY <1>1, <1>5, <2>1, <2>4, SettleTypes DEF Existing
  <1>6. ASSUME Crash(p)
        PROVE  TasksTypeOK' /\ StoreOK' /\ CallsOK'
    <2>1. Alters(p) /\ call'[p] = NoCall /\ UNCHANGED <<store, journal, sent, calls, now>>
      BY <1>1, <1>6, CloseStreamDoes DEF Crash
    <2>2. CallOK(p, call[p])'
      BY <2>1 DEF CallOK, NoCall, Writing, OnMessage
    <2>3. QED
      BY <1>1, <2>1, <2>2, QuietStore, SettleTypes
  <1>7. QED
    BY <1>2, <1>3, <1>4, <1>5, <1>6 DEF RequestStep

LEMMA WriteTypes ==
    ASSUME TypeInv, NEW p \in users, WriteStep(p), UNCHANGED <<users, calm>>
    PROVE  TasksTypeOK' /\ StoreOK' /\ CallsOK'
  <1>1. /\ TypeOK /\ TasksTypeOK /\ StoreOK /\ CallsOK /\ p \in Processes /\ CallOK(p, call[p])
    BY DEF TypeInv, TypeOK, TasksTypeOK, CallsOK
  <1>2. CASE PutMore(p)
    <2>1. /\ At(p, "put") /\ Alters(p) /\ SameJob(p) /\ call'[p].step \in {"respond", "enter"}
          /\ store' = [store EXCEPT ![call[p].task] = call[p].snap]
          /\ UNCHANGED <<journal, sent, calls, now>>
      BY <1>1, <1>2, PutMoreDoes
    <2>2. CallOK(p, call[p])'
      BY <1>1, <2>1, PutStore DEF CallOK, Writing, OnMessage, SameJob, At
    <2>3. call[p].step \in Writing
      BY <2>1 DEF At, Writing
    <2>4. QED
      BY <1>1, <2>1, <2>2, <2>3, PutStore, SettleTypes
  <1>3. CASE PutWorking(p)
    <2>1. /\ At(p, "working") /\ Alters(p) /\ SameJob(p) /\ call'[p].step = "handle"
          /\ call'[p].snap = call[p].snap /\ call'[p].msg = call[p].msg
          /\ store' = [store EXCEPT ![call[p].task] = call[p].snap]
          /\ UNCHANGED <<journal, sent, calls, now>>
      BY <1>1, <1>3, PutWorkingDoes
    <2>2. CallOK(p, call[p])'
      BY <1>1, <2>1, PutStore DEF CallOK, Writing, OnMessage, SameJob, At, Begun
    <2>3. call[p].step \in Writing
      BY <2>1 DEF At, Writing
    <2>4. QED
      BY <1>1, <2>1, <2>2, <2>3, PutStore, SettleTypes
  <1>4. CASE PutFinal(p)
    <2>1. /\ At(p, "final") /\ Alters(p) /\ SameJob(p) /\ call'[p].step = "note"
          /\ call'[p].next \in {"respond", "emit", "idle"}
          /\ store' = [store EXCEPT ![call[p].task] = call[p].snap]
          /\ UNCHANGED <<journal, sent, calls, now>>
      BY <1>1, <1>4, PutFinalDoes
    <2>2. CallOK(p, call[p])'
      BY <1>1, <2>1, PutStore DEF CallOK, Writing, OnMessage, SameJob, At
    <2>3. call[p].step \in Writing
      BY <2>1 DEF At, Writing
    <2>4. QED
      BY <1>1, <2>1, <2>2, <2>3, PutStore, SettleTypes
  <1>5. QED
    BY <1>2, <1>3, <1>4 DEF WriteStep

\* A call that goes on after a note is still well formed.
LEMMA GoesOnTypes ==
    ASSUME NEW p \in users, CallOK(p, call[p]), call[p].step \in {"note", "insert"}, GoesOn(p),
           UNCHANGED users, Existing \subseteq Existing'
    PROVE  CallOK(p, call[p])'
  <1>1. CASE call'[p] = NoCall
    BY <1>1 DEF CallOK, NoCall, Writing, OnMessage
  <1>2. CASE SameJob(p) /\ call'[p].step = call[p].next
    BY <1>2 DEF CallOK, SameJob, Writing, OnMessage
  <1>3. QED
    BY <1>1, <1>2 DEF GoesOn

LEMMA ReadTypes ==
    ASSUME TypeInv, NEW p \in users, ReadStep(p), UNCHANGED <<users, calm>>
    PROVE  TasksTypeOK' /\ StoreOK' /\ CallsOK'
  <1>1. /\ TypeOK /\ TasksTypeOK /\ StoreOK /\ CallsOK /\ p \in Processes /\ CallOK(p, call[p])
        /\ now \in Nat /\ p \in users
    BY DEF TypeInv, TypeOK, TasksTypeOK, CallsOK
  <1>2. ASSUME Alters(p), CallOK(p, call[p])', UNCHANGED <<store, journal, sent, calls>>, now' \in Nat
        PROVE  TasksTypeOK' /\ StoreOK' /\ CallsOK'
    BY <1>1, <1>2, QuietStore, SettleTypes
  <1>3. ASSUME NEW limits \in SUBSET (Nat \cup {None}), Respond(p, limits), Quiet
        PROVE  TasksTypeOK' /\ StoreOK' /\ CallsOK'
    <2>1. /\ At(p, "respond") /\ Alters(p) /\ SameJob(p) /\ call'[p].step = "note"
          /\ call'[p].next \in {"idle", "stream"}
      BY <1>1, <1>3, RespondDoes
    <2>2. CallOK(p, call[p])'
      BY <1>1, <1>3, <2>1 DEF CallOK, Writing, OnMessage, SameJob, At, Quiet, Existing
    <2>3. QED
      BY <1>1, <1>2, <1>3, <2>1, <2>2 DEF Quiet
  <1>4. ASSUME Stream(p), Quiet
        PROVE  TasksTypeOK' /\ StoreOK' /\ CallsOK'
    <2>1. /\ At(p, "stream") /\ Alters(p)
          /\ (SameJob(p) /\ call'[p].step = "enter") \/ call'[p] = NoCall
      BY <1>1, <1>4, StreamDoes
    <2>2. CallOK(p, call[p])'
      BY <1>1, <1>4, <2>1 DEF CallOK, Writing, OnMessage, SameJob, At, Quiet, NoCall, Existing
    <2>3. QED
      BY <1>1, <1>2, <1>4, <2>1, <2>2 DEF Quiet
  <1>5. ASSUME Note(p), Quiet
        PROVE  TasksTypeOK' /\ StoreOK' /\ CallsOK'
    <2>1. /\ At(p, "note") /\ Alters(p)
          /\ GoesOn(p) \/ (SameJob(p) /\ call'[p].step = "insert" /\ call'[p].next = call[p].next)
      BY <1>1, <1>5, NoteDoes
    <2>2. CASE GoesOn(p)
      BY <1>1, <1>2, <1>5, <2>1, <2>2, GoesOnTypes DEF Quiet, At, Existing
    <2>3. CASE SameJob(p) /\ call'[p].step = "insert" /\ call'[p].next = call[p].next
      <3>1. CallOK(p, call[p])'
        BY <1>1, <1>5, <2>1, <2>3 DEF CallOK, Writing, OnMessage, SameJob, At, Quiet, Existing
      <3>2. QED
        BY <1>1, <1>2, <1>5, <2>1, <3>1 DEF Quiet
    <2>4. QED
      BY <2>1, <2>2, <2>3
  <1>6. ASSUME InsertRow(p)
        PROVE  TasksTypeOK' /\ StoreOK' /\ CallsOK'
    <2> DEFINE row == [task |-> call[p].task, snap |-> call[p].snap]
    <2>1. /\ At(p, "insert") /\ Alters(p) /\ GoesOn(p) /\ journal' = Append(journal, row)
          /\ UNCHANGED <<store, sent, calls, now>>
      BY <1>1, <1>6, InsertRowDoes
    <2>2. call[p].task \in Tasks /\ call[p].snap \in TaskRecords
      BY <1>1, <2>1, BusyTask DEF At, TasksTypeOK, Calls
    <2>3. row \in [task : Tasks, snap : TaskRecords] /\ journal \in Seq([task : Tasks, snap : TaskRecords])
      BY <1>1, <2>2 DEF TasksTypeOK
    <2> HIDE DEF row
    <2>4. journal' \in Seq([task : Tasks, snap : TaskRecords])
      BY <2>1, <2>3
    <2>5. CallOK(p, call[p])'
      BY <1>1, <2>1, GoesOnTypes DEF At, Existing
    <2>6. /\ Existing \subseteq Existing'
          /\ store' \in [Tasks -> TaskRecords] /\ StoreOK'
          /\ sent' \in 0..MaxMessages /\ calls' \in Nat /\ now' \in Nat
      BY <1>1, <2>1 DEF TasksTypeOK, StoreOK, Existing
    <2>7. QED
      BY <2>1, <2>4, <2>5, <2>6, SettleTypes
  <1>7. ASSUME Enter(p), Quiet
        PROVE  TasksTypeOK' /\ StoreOK' /\ CallsOK'
    <2>1. At(p, "enter")
      BY <1>7 DEF Enter
    <2>2. /\ Alters(p) /\ SameJob(p) /\ call'[p].step = "note" /\ call'[p].next = "check"
      BY <1>1, <1>7, <2>1, BusyTask, EnterDoes DEF At
    <2>3. CallOK(p, call[p])'
      BY <1>1, <1>7, <2>1, <2>2 DEF CallOK, Writing, OnMessage, SameJob, At, Quiet, Existing
    <2>4. QED
      BY <1>1, <1>2, <1>7, <2>2, <2>3 DEF Quiet
  <1>8. ASSUME Check(p)
        PROVE  TasksTypeOK' /\ StoreOK' /\ CallsOK'
    <2> DEFINE s == store[call[p].task]
    <2>1. At(p, "check")
      BY <1>8 DEF Check
    <2>2. Begun(s) /\ call[p].task \in Tasks
      BY <1>1, <2>1, BusyTask DEF At
    <2>3. /\ Alters(p) /\ now' \in Nat /\ UNCHANGED <<store, journal, sent, calls>>
          /\ \/ /\ SameJob(p) /\ call'[p].step = "note" /\ call'[p].next \in {"respond", "emit", "idle"}
             \/ /\ SameJob(p) /\ call'[p].step = "working" /\ call'[p].msg \in Messages
                /\ \E i \in DOMAIN s.history : s.history[i] = UserSays(call'[p].msg)
                /\ call'[p].snap.history = s.history
             \/ call'[p] = NoCall
      BY <1>1, <1>8, <2>2, CheckDoes
    <2> HIDE DEF s
    <2>4. CallOK(p, call[p])'
      <3>1. CASE SameJob(p) /\ call'[p].step = "note" /\ call'[p].next \in {"respond", "emit", "idle"}
        BY <1>1, <2>1, <2>3, <3>1 DEF CallOK, Writing, OnMessage, SameJob, At, Existing
      <3>2. CASE /\ SameJob(p) /\ call'[p].step = "working" /\ call'[p].msg \in Messages
                 /\ \E i \in DOMAIN s.history : s.history[i] = UserSays(call'[p].msg)
                 /\ call'[p].snap.history = s.history
        <4>1. Begun(call'[p].snap)
          BY <2>2, <3>2 DEF Begun
        <4>2. call'[p].task \in Existing' /\ p \in users'
          BY <1>1, <2>1, <2>3, <3>2 DEF CallOK, SameJob, At, Existing
        <4>3. \E i \in DOMAIN call'[p].snap.history : call'[p].snap.history[i] = UserSays(call'[p].msg)
          BY <3>2
        <4>4. QED
          BY <3>2, <4>1, <4>2, <4>3 DEF CallOK
      <3>3. CASE call'[p] = NoCall
        BY <3>3 DEF CallOK, NoCall, Writing, OnMessage
      <3>4. QED
        BY <2>3, <3>1, <3>2, <3>3
    <2>5. QED
      BY <1>2, <2>3, <2>4
  <1>9. ASSUME Emit(p), Quiet
        PROVE  TasksTypeOK' /\ StoreOK' /\ CallsOK'
    <2>1. At(p, "emit") /\ Alters(p) /\ SameJob(p) /\ call'[p].step = "streamed"
      BY <1>1, <1>9, EmitDoes
    <2>2. CallOK(p, call[p])'
      BY <1>1, <1>9, <2>1 DEF CallOK, Writing, OnMessage, SameJob, At, Quiet, Existing
    <2>3. QED
      BY <1>1, <1>2, <1>9, <2>1, <2>2 DEF Quiet
  <1>10. ASSUME CloseStream(p), Quiet
         PROVE  TasksTypeOK' /\ StoreOK' /\ CallsOK'
    <2>1. Alters(p) /\ call'[p] = NoCall
      BY <1>1, <1>10, CloseStreamDoes
    <2>2. CallOK(p, call[p])'
      BY <2>1 DEF CallOK, NoCall, Writing, OnMessage
    <2>3. QED
      BY <1>1, <1>2, <1>10, <2>1, <2>2 DEF Quiet
  <1>11. ASSUME PlainHandler(p, Results)
         PROVE  TasksTypeOK' /\ StoreOK' /\ CallsOK'
    <2>1. /\ At(p, "handle") /\ Alters(p) /\ now' \in Nat /\ UNCHANGED <<store, journal, sent, calls>>
          /\ \/ /\ SameJob(p) /\ call'[p].step = "final"
                /\ \E replies \in Seq(Entries) : call'[p].snap.history = call[p].snap.history \o replies
             \/ call'[p] = NoCall
      BY <1>1, <1>11, PlainHandlerDoes
    <2>2. CallOK(p, call[p])'
      <3>1. CASE call'[p] = NoCall
        BY <3>1 DEF CallOK, NoCall, Writing, OnMessage
      <3>2. ASSUME SameJob(p), call'[p].step = "final", NEW replies \in Seq(Entries),
                   call'[p].snap.history = call[p].snap.history \o replies
            PROVE  CallOK(p, call[p])'
        <4>1. Begun(call[p].snap) /\ call[p].snap.history \in Seq(Entries)
          BY <1>1, <2>1 DEF CallOK, At, Writing, TasksTypeOK, Calls, TaskRecords
        <4>2. Begun(call'[p].snap)
          BY <3>2, <4>1 DEF Begun
        <4>3. QED
          BY <1>1, <2>1, <3>2, <4>2 DEF CallOK, Writing, OnMessage, SameJob, At, Existing
      <3>3. QED
        BY <2>1, <3>1, <3>2
    <2>3. QED
      BY <1>2, <2>1, <2>2
  <1>12. QED
    BY <1>3, <1>4, <1>5, <1>6, <1>7, <1>8, <1>9, <1>10, <1>11 DEF ReadStep

LEMMA EndsTypes ==
    ASSUME TypeInv, NEW p \in users, call[p].step \in Writing, NEW e, Ends(p, e),
           UNCHANGED users, Existing \subseteq Existing'
    PROVE  CallOK(p, call[p])'
  <1>1. CallOK(p, call[p]) /\ Begun(call[p].snap) /\ call[p].snap.history \in Seq(Entries)
    BY DEF TypeInv, TypeOK, TasksTypeOK, CallsOK, CallOK, Calls, TaskRecords
  <1>2. Begun(call'[p].snap)
    BY <1>1 DEF Begun, Ends
  <1>3. QED
    BY <1>1, <1>2 DEF CallOK, Writing, OnMessage, SameJob, Ends

LEMMA RunTypes ==
    ASSUME TypeInv, NEW p \in users, RunStep(p), UNCHANGED <<users, calm>>
    PROVE  TasksTypeOK' /\ StoreOK' /\ CallsOK' /\ BridgeTypeOK' /\ LineOK'
  <1>1. /\ TypeOK /\ TasksTypeOK /\ StoreOK /\ CallsOK /\ p \in Processes /\ CallOK(p, call[p])
        /\ BridgeTypeOK /\ now \in Nat /\ LineOK
    BY DEF TypeInv, TypeOK, TasksTypeOK, CallsOK
  <1>2. UNCHANGED <<store, journal, sent, calls>>
    BY DEF RunStep
  <1>3. ASSUME Alters(p), CallOK(p, call[p])', now' \in Nat
        PROVE  TasksTypeOK' /\ StoreOK' /\ CallsOK'
    BY <1>1, <1>2, <1>3, QuietStore, SettleTypes
  <1>4. ASSUME UNCHANGED line
        PROVE  LineOK'
    BY <1>1, <1>4 DEF LineOK
  <1>5. /\ line \in Seq([msg : Messages \cup {Foreign}, task : Tasks \cup {None}])
        /\ item \in [Messages \cup {Foreign} ->
             {"absent", "pending", "leased", "lapsed", "completed", "failed", "cancelled"}]
        /\ turn \in [Tasks -> Messages \cup {None}] /\ failed \subseteq Tasks
    BY <1>1 DEF BridgeTypeOK
  <1>6. CASE Submit(p)
    <2>1. At(p, "handle") /\ Alters(p) /\ call[p].msg \in Messages /\ UNCHANGED <<turn, failed>>
      BY <1>1, <1>6, SubmitDoes
    <2>2. call[p].task \in Tasks
      BY <1>1, <2>1, BusyTask DEF At
    <2>3. CASE Ends(p, AgentSays(call[p].msg, None)) /\ UNCHANGED <<line, item>>
      <3>1. CallOK(p, call[p])' /\ now' \in Nat
        BY <1>2, <2>1, <2>3, EndsTypes DEF At, Writing, Ends, Existing
      <3>2. BridgeTypeOK'
        BY <1>1, <2>1, <2>3 DEF BridgeTypeOK
      <3>3. QED
        BY <1>3, <1>4, <2>1, <2>3, <3>1, <3>2
    <2>4. CASE /\ SameJob(p) /\ now' = now /\ call'[p].step = "run" /\ call'[p].snap = call[p].snap
               /\ call'[p].msg = call[p].msg
               /\ item' = [item EXCEPT ![call[p].msg] = "pending"]
               /\ line' = Append(line, [msg |-> call[p].msg, task |-> call[p].task])
      <3>1. CallOK(p, call[p])'
        BY <1>1, <1>2, <2>1, <2>4 DEF CallOK, Writing, OnMessage, SameJob, At, Begun, Existing
      <3> DEFINE e == [msg |-> call[p].msg, task |-> call[p].task]
      <3>2. e \in [msg : Messages \cup {Foreign}, task : Tasks \cup {None}] /\ e.msg \in Messages
        BY <2>1, <2>2
      <3>3. line' = Append(line, e)
        BY <2>4
      <3> HIDE DEF e
      <3>4. line' \in Seq([msg : Messages \cup {Foreign}, task : Tasks \cup {None}]) /\ LineOK'
        BY <1>1, <1>5, <3>2, <3>3 DEF LineOK
      <3>5. BridgeTypeOK'
        BY <1>5, <2>1, <2>4, <3>4 DEF BridgeTypeOK
      <3>6. QED
        BY <1>1, <1>3, <2>1, <2>4, <3>1, <3>4, <3>5
    <2>5. QED
      BY <1>1, <1>6, <2>3, <2>4, SubmitDoes
  <1>7. CASE Claim(p)
    <2> DEFINE m == line[Next1(p)].msg
    <2>1. /\ At(p, "run") /\ Alters(p) /\ call[p].msg \in Messages /\ call[p].task \in Tasks
          /\ UNCHANGED <<line, failed>>
      BY <1>1, <1>7, ClaimDoes
    <2>2. Claimable(p) # {} => m \in Messages
      BY <1>1, <2>1, ClaimableFacts
    <2>3. \/ Ends(p, AgentSays(call[p].msg, None)) /\ UNCHANGED <<item, turn>>
          \/ /\ Ends(p, AgentSays(call[p].msg, None)) /\ Claimable(p) # {} /\ turn' = turn
             /\ \E s \in {"cancelled", "pending"} : item' = [item EXCEPT ![m] = s]
          \/ /\ SameJob(p) /\ now' = now /\ call'[p].step = "turn" /\ call'[p].snap = call[p].snap
             /\ call'[p].msg = call[p].msg /\ call'[p].work = m
             /\ Claimable(p) # {} /\ item' = [item EXCEPT ![m] = "leased"]
             /\ turn' = [turn EXCEPT ![call[p].task] = m]
      BY <1>1, <1>7, ClaimDoes
    <2> HIDE DEF m
    <2>4. BridgeTypeOK'
      BY <1>5, <2>1, <2>2, <2>3 DEF BridgeTypeOK
    <2>5. CASE Ends(p, AgentSays(call[p].msg, None))
      <3>1. CallOK(p, call[p])' /\ now' \in Nat
        BY <1>2, <2>1, <2>5, EndsTypes DEF At, Writing, Ends, Existing
      <3>2. QED
        BY <1>3, <1>4, <2>1, <2>4, <3>1
    <2>6. CASE /\ SameJob(p) /\ now' = now /\ call'[p].step = "turn" /\ call'[p].snap = call[p].snap
               /\ call'[p].msg = call[p].msg /\ call'[p].work = m /\ Claimable(p) # {}
      <3>1. CallOK(p, call[p])'
        BY <1>1, <1>2, <2>1, <2>2, <2>6 DEF CallOK, Writing, OnMessage, SameJob, At, Begun, Existing
      <3>2. QED
        BY <1>1, <1>3, <1>4, <2>1, <2>4, <2>6, <3>1
    <2>7. QED
      BY <2>3, <2>5, <2>6
  <1>8. CASE FinishTurn(p)
    <2>1. /\ At(p, "turn") /\ Alters(p) /\ call[p].work \in Messages /\ call[p].task \in Tasks
          /\ line' = line /\ turn' = [turn EXCEPT ![call[p].task] = None]
          /\ \E e : Ends(p, e)
          /\ \E s \in {"completed", "failed"} : item' = [item EXCEPT ![call[p].work] = s]
          /\ failed' \in {failed, failed \cup {call[p].task}}
      BY <1>1, <1>8, FinishTurnDoes
    <2>2. BridgeTypeOK'
      BY <1>5, <2>1 DEF BridgeTypeOK
    <2>3. CallOK(p, call[p])' /\ now' \in Nat
      BY <1>2, <2>1, EndsTypes DEF At, Writing, Ends, Existing
    <2>4. QED
      BY <1>3, <1>4, <2>1, <2>2, <2>3
  <1>9. QED
    BY <1>6, <1>7, <1>8 DEF RunStep

LEMMA ServiceTypes ==
    ASSUME TypeInv, Service, UNCHANGED <<users, calm>>
    PROVE  TasksTypeOK' /\ StoreOK' /\ CallsOK' /\ BridgeTypeOK' /\ LineOK'
  <1>1. TypeOK /\ BridgeTypeOK /\ LineOK /\ TasksTypeOK /\ StoreOK /\ CallsOK
    BY DEF TypeInv, TypeOK
  <1>2. ASSUME UNCHANGED bridgeVars
        PROVE  BridgeTypeOK' /\ LineOK'
    BY <1>1, <1>2 DEF BridgeTypeOK, LineOK, bridgeVars
  <1>3. ASSUME NEW p \in users, RequestStep(p) \/ WriteStep(p) \/ ReadStep(p), UNCHANGED bridgeVars
        PROVE  TasksTypeOK' /\ StoreOK' /\ CallsOK' /\ BridgeTypeOK' /\ LineOK'
    BY <1>2, <1>3, RequestTypes, WriteTypes, ReadTypes
  <1>4. ASSUME NEW m \in Messages, Lapse(m), UNCHANGED taskVars
        PROVE  TasksTypeOK' /\ StoreOK' /\ CallsOK' /\ BridgeTypeOK' /\ LineOK'
    <2>1. TasksTypeOK' /\ StoreOK' /\ CallsOK'
      BY <1>1, <1>4 DEF taskVars, TasksTypeOK, StoreOK, CallsOK, CallOK, Begun, Existing
    <2>2. BridgeTypeOK' /\ LineOK'
      BY <1>1, <1>4 DEF Lapse, BridgeTypeOK, LineOK
    <2>3. QED
      BY <2>1, <2>2
  <1>5. QED
    BY <1>1, <1>3, <1>4, RunTypes, ServiceSteps

\* The list of tasks.
LEMMA ListedTypes ==
    ASSUME NEW filter
    PROVE  /\ Listed(filter) \in Seq(Tasks) /\ Len(Listed(filter)) \in Nat
           /\ Sorts(Listed(filter), {t \in Existing : filter = None \/ store[t].state = filter},
                    [t \in Tasks |-> t])
  <1> DEFINE S == {t \in Existing : filter = None \/ store[t].state = filter}
             key == [t \in Tasks |-> t]
  <1>1. MaxTasks \in Nat /\ IsFiniteSet(Tasks)
    BY A2AAssumption, FS_Interval DEF Tasks
  <1>2. S \subseteq Tasks
    BY DEF Existing
  <1>3. IsFiniteSet(S)
    BY <1>1, <1>2, FS_Subset
  <1>4. \A t \in S : key[t] = t /\ t \in Nat
    BY <1>2 DEF Tasks
  <1>5. Listed(filter) = Ordered(S, key)
    BY DEF Listed
  <1> HIDE DEF S, key
  <1>6. Ordered(S, key) \in [1..Cardinality(S) -> S] /\ Sorts(Ordered(S, key), S, key)
    BY <1>3, <1>4, OrderedSorts
  <1>7. Cardinality(S) \in Nat
    BY <1>3, FS_CardinalityType
  <1>8. Listed(filter) \in [1..Cardinality(S) -> Tasks]
    BY <1>2, <1>5, <1>6
  <1>9. Listed(filter) \in Seq(Tasks)
    BY <1>7, <1>8, SeqDef
  <1>10. Len(Listed(filter)) \in Nat
    BY <1>9
  <1>11. QED
    BY <1>5, <1>6, <1>9, <1>10 DEF S, key

PagerTypes == [at : {"idle", "reading", "done", "refused"}, filter : Filters \cup {None},
               offset : Nat, seen : Seq(Tasks), start : SUBSET Tasks]

LEMMA PagerTypeOK ==
    ASSUME TypeOK, (\E f \in Filters : StartPaging(f)) \/ NextPage
    PROVE  pager' \in PagerTypes
  <1>1. pager \in PagerTypes
    BY DEF TypeOK, PagerTypes
  <1>2. ASSUME NEW f \in Filters, StartPaging(f)
        PROVE  pager' \in PagerTypes
    <2>1. Existing \in SUBSET Tasks
      BY DEF Existing
    <2>2. <<>> \in Seq(Tasks)
      OBVIOUS
    <2>3. pager' = [at |-> "reading", filter |-> f, offset |-> 0, seen |-> <<>>, start |-> Existing]
      BY <1>2 DEF StartPaging, NoPager
    <2>4. QED
      BY <2>1, <2>2, <2>3 DEF PagerTypes
  <1>3. ASSUME NextPage
        PROVE  pager' \in PagerTypes
    <2> DEFINE list == Listed(pager.filter)
               end == IF pager.offset + PageSize > Len(list) THEN Len(list) ELSE pager.offset + PageSize
               page == SubSeq(list, pager.offset + 1, end)
               at == IF end < Len(list) THEN "reading" ELSE "done"
    <2>1. pager' = IF pager.offset > Len(list) THEN [pager EXCEPT !.at = "refused"]
                   ELSE [pager EXCEPT !.seen = @ \o page, !.offset = end, !.at = at]
      BY <1>3 DEF NextPage
    <2>2. list \in Seq(Tasks) /\ Len(list) \in Nat /\ pager.offset \in Nat /\ PageSize \in Nat
      BY <1>1, ListedTypes, ClientAssumption DEF PagerTypes
    <2>3. at \in {"reading", "done"}
      OBVIOUS
    <2> HIDE DEF list, at
    <2>4. end \in Nat /\ end <= Len(list)
      BY <2>2
    <2> HIDE DEF end
    <2>5. page \in Seq(Tasks)
      BY <2>2, <2>4
    <2> HIDE DEF page
    <2>6. CASE pager.offset > Len(list)
      BY <1>1, <2>1, <2>6 DEF PagerTypes
    <2>7. CASE ~(pager.offset > Len(list))
      <3>1. pager.seen \o page \in Seq(Tasks)
        BY <1>1, <2>5 DEF PagerTypes
      <3> DEFINE seen == pager.seen \o page
      <3>2. pager' = [pager EXCEPT !.seen = seen, !.offset = end, !.at = at]
        BY <1>1, <2>1, <2>7 DEF PagerTypes
      <3> HIDE DEF seen
      <3>3. seen \in Seq(Tasks)
        BY <3>1 DEF seen
      <3>4. QED
        BY <1>1, <2>3, <2>4, <3>2, <3>3 DEF PagerTypes
    <2>8. QED
      BY <2>6, <2>7
  <1>4. QED
    BY <1>2, <1>3

Subscribers == [at : {"idle", "open", "dropped", "refused", "ended"}, conn : Nat, got : Seq(Nat \ {0})]
FeedTypeOK ==
    /\ client \in [Clients -> Subscribers] /\ inbox \in [Clients -> Seq(Nat)]
    /\ backlog \in Seq(Conns) /\ serving \in Conns \cup {NoConn} /\ drops \in 0..MaxDrops

LEMMA SubscribeTypes ==
    ASSUME FeedTypeOK, NEW c \in Clients, Subscribe(c)
    PROVE  FeedTypeOK'
  <1> DEFINE k == [conn |-> drops + 1, who |-> c, cursor |-> LastEventId(c)]
             d == [client[c] EXCEPT !.at = "open", !.conn = drops + 1]
  <1>1. client[c] \in Subscribers /\ drops \in Nat
    BY ClientAssumption DEF FeedTypeOK
  <1>2. LastEventId(c) \in Nat
    <2>1. client[c].got \in Seq(Nat \ {0})
      BY <1>1 DEF Subscribers
    <2> DEFINE g == client[c].got
    <2> HIDE DEF g
    <2>2. g \in Seq(Nat \ {0}) => (g = <<>> \/ g[Len(g)] \in Nat)
      OBVIOUS
    <2>3. QED
      BY <2>1, <2>2 DEF LastEventId, Cursor, Last, g
  <1>3. client' = [client EXCEPT ![c] = d] /\ backlog' = Append(backlog, k) /\ UNCHANGED <<inbox, serving, drops>>
    BY <1>1 DEF Subscribe, FeedTypeOK
  <1>4. k \in Conns
    BY <1>1, <1>2 DEF Conns
  <1>5. d \in Subscribers
    <2> DEFINE n == drops + 1
    <2>1. n \in Nat
      BY <1>1
    <2> HIDE DEF n
    <2>2. [client[c] EXCEPT !.at = "open", !.conn = n] \in Subscribers
      BY <1>1, <2>1 DEF Subscribers
    <2>3. QED
      BY <2>2 DEF n
  <1> HIDE DEF k, d
  <1>6. QED
    BY <1>3, <1>4, <1>5 DEF FeedTypeOK

LEMMA AcceptTypes ==
    ASSUME FeedTypeOK, Accept
    PROVE  FeedTypeOK'
  <1> DEFINE k == Head(backlog)
  <1>1. k \in Conns /\ Tail(backlog) \in Seq(Conns)
    BY DEF FeedTypeOK, Accept
  <1>2. [client[k.who] EXCEPT !.at = "refused"] \in Subscribers /\ k.who \in Clients
    BY <1>1 DEF FeedTypeOK, Subscribers, Conns
  <1> HIDE DEF k
  <1>3. [client EXCEPT ![k.who].at = "refused"] \in [Clients -> Subscribers]
    BY <1>2 DEF FeedTypeOK
  <1>4. client' \in {client, [client EXCEPT ![k.who].at = "refused"]} /\ serving' \in {serving, k}
        /\ backlog' = Tail(backlog) /\ UNCHANGED <<inbox, drops>>
    BY DEF Accept, k
  <1>5. QED
    BY <1>1, <1>3, <1>4 DEF FeedTypeOK

LEMMA NewerFacts ==
    ASSUME NEW k \in Conns, Newer(k) # {}
    PROVE  LET i == Min(Newer(k)) IN
           i \in Nat \ {0} /\ i \in RowsOf(Watched) /\ i > k.cursor
           /\ \A j \in RowsOf(Watched) : j > k.cursor => i <= j
  <1>1. Newer(k) \in SUBSET Nat
    BY DEF Newer, RowsOf
  <1> DEFINE i == Min(Newer(k))
  <1>2. i \in Newer(k) /\ \A j \in Newer(k) : i <= j
    BY <1>1, MinFacts
  <1> HIDE DEF i
  <1>3. RowsOf(Watched) \subseteq Nat \ {0}
    BY DEF RowsOf
  <1>4. i \in RowsOf(Watched) /\ i > k.cursor
    BY <1>2 DEF Newer
  <1>5. \A j \in RowsOf(Watched) : j > k.cursor => i <= j
    BY <1>2 DEF Newer
  <1>6. QED
    BY <1>3, <1>4, <1>5 DEF i

LEMMA PushTypes ==
    ASSUME FeedTypeOK, Push
    PROVE  FeedTypeOK'
  <1> DEFINE i == Min(Newer(serving))
             over == Terminal(journal[i].snap)
             c == serving.who
             news == IF over THEN <<i, EndOfStream>> ELSE <<i>>
  <1>1. serving \in Conns /\ c \in Clients
    BY DEF FeedTypeOK, Push, Conns
  <1>2. i \in Nat
    BY <1>1, NewerFacts DEF Push
  <1>3. /\ inbox' = inbox \/ inbox' = [inbox EXCEPT ![c] = @ \o news]
        /\ serving' \in {NoConn, [serving EXCEPT !.cursor = i]}
        /\ UNCHANGED <<client, backlog, drops>>
    BY DEF Push
  <1> HIDE DEF i, over
  <1>4. news \in Seq(Nat)
    BY <1>2 DEF EndOfStream
  <1> HIDE DEF news
  <1>5. inbox[c] \o news \in Seq(Nat)
    BY <1>1, <1>4 DEF FeedTypeOK
  <1> HIDE DEF c
  <1>6. inbox' \in [Clients -> Seq(Nat)]
    BY <1>1, <1>3, <1>5 DEF FeedTypeOK
  <1>7. [serving EXCEPT !.cursor = i] \in Conns
    BY <1>1, <1>2 DEF Conns
  <1>8. QED
    BY <1>3, <1>6, <1>7 DEF FeedTypeOK

LEMMA ReceiveTypes ==
    ASSUME FeedTypeOK, NEW c \in Clients, Receive(c)
    PROVE  FeedTypeOK'
  <1> DEFINE i == Head(inbox[c])
             a == [client[c] EXCEPT !.at = "ended"]
             b == [client[c] EXCEPT !.got = Append(@, i)]
  <1>1. client[c] \in Subscribers /\ i \in Nat /\ Tail(inbox[c]) \in Seq(Nat)
    BY DEF FeedTypeOK, Receive
  <1>2. IF i = EndOfStream THEN client' = [client EXCEPT ![c] = a] ELSE client' = [client EXCEPT ![c] = b]
    BY <1>1 DEF Receive, FeedTypeOK
  <1>3. a \in Subscribers
    BY <1>1 DEF Subscribers
  <1>4. ASSUME i # EndOfStream
        PROVE  b \in Subscribers
    <2> DEFINE g == Append(client[c].got, i)
    <2>1. g \in Seq(Nat \ {0})
      BY <1>1, <1>4 DEF Subscribers, EndOfStream
    <2>2. b = [client[c] EXCEPT !.got = g]
      BY <1>1 DEF Subscribers
    <2> HIDE DEF g, b
    <2>3. QED
      BY <1>1, <2>1, <2>2 DEF Subscribers
  <1> HIDE DEF a, b
  <1>5. client' \in [Clients -> Subscribers]
    BY <1>2, <1>3, <1>4 DEF FeedTypeOK
  <1>6. inbox' \in [Clients -> Seq(Nat)] /\ UNCHANGED <<backlog, serving, drops>>
    BY <1>1 DEF Receive, FeedTypeOK
  <1>7. QED
    BY <1>5, <1>6 DEF FeedTypeOK

LEMMA DropTypes ==
    ASSUME FeedTypeOK, NEW c \in Clients, Drop(c)
    PROVE  FeedTypeOK'
  <1>1. [client[c] EXCEPT !.at = "dropped"] \in Subscribers
    BY DEF FeedTypeOK, Subscribers
  <1>2. client' \in [Clients -> Subscribers]
    BY <1>1 DEF FeedTypeOK, Drop
  <1>3. <<>> \in Seq(Nat)
    OBVIOUS
  <1>4. inbox' \in [Clients -> Seq(Nat)]
    BY <1>3 DEF FeedTypeOK, Drop
  <1>5. drops' \in 0..MaxDrops
    BY ClientAssumption DEF FeedTypeOK, Drop
  <1>6. QED
    BY <1>2, <1>4, <1>5 DEF FeedTypeOK, Drop

LEMMA FeedTypes ==
    ASSUME FeedTypeOK, FeedStep
    PROVE  FeedTypeOK'
  BY SubscribeTypes, AcceptTypes, PushTypes, ReceiveTypes, DropTypes DEF FeedStep

LEMMA TypesInit ==
    ASSUME Init
    PROVE  TypeInv
  <1>1. /\ users \subseteq Processes /\ calm \in BOOLEAN
        /\ scene \in {"tasks", "bridge", "feed", "pages"}
    BY A2AAssumption DEF Init
  <1>2. TasksTypeOK
    <2>1. <<>> \in Seq([task : Tasks, snap : TaskRecords])
      OBVIOUS
    <2>2. 0 \in 0..MaxTasks /\ 0 \in 0..MaxMessages
      BY A2AAssumption
    <2>3. QED
      BY <1>1, <2>1, <2>2, RecordFacts DEF Init, InitTasks, TasksTypeOK
  <1>3. BridgeTypeOK /\ LineOK
    <2> DEFINE e == [msg |-> Foreign, task |-> None]
    <2>1. e \in [msg : Messages \cup {Foreign}, task : Tasks \cup {None}] /\ e.task \notin Tasks
      BY A2AAssumption DEF Tasks
    <2>2. line = <<e>>
      BY DEF Init, InitBridge
    <2> HIDE DEF e
    <2>3. line \in Seq([msg : Messages \cup {Foreign}, task : Tasks \cup {None}]) /\ LineOK
      BY <2>1, <2>2 DEF LineOK
    <2>4. QED
      BY <2>3 DEF Init, InitBridge, BridgeTypeOK
  <1>4. StoreOK /\ CallsOK
    <2>1. \A t \in Tasks : ~(t <= 0)
      BY A2AAssumption DEF Tasks
    <2>2. StoreOK
      BY <2>1 DEF Init, InitTasks, StoreOK
    <2>3. CallsOK
      BY DEF Init, InitTasks, CallsOK, CallOK, NoCall, Writing, OnMessage
    <2>4. QED
      BY <2>2, <2>3
  <1>5. FeedTypeOK
    <2>1. <<>> \in Seq(Nat) /\ <<>> \in Seq(Nat \ {0}) /\ <<>> \in Seq(Conns)
      OBVIOUS
    <2>2. 0 \in 0..MaxDrops
      BY ClientAssumption
    <2>3. QED
      BY <2>1, <2>2 DEF Init, FeedTypeOK, Subscribers
  <1>6. pager \in PagerTypes
    <2>1. <<>> \in Seq(Tasks)
      OBVIOUS
    <2>2. QED
      BY <2>1 DEF Init, NoPager, PagerTypes
  <1>7. QED
    BY <1>1, <1>2, <1>3, <1>4, <1>5, <1>6 DEF TypeInv, TypeOK, FeedTypeOK, PagerTypes, Subscribers

LEMMA TypesStep ==
    ASSUME TypeInv, [Next]_vars
    PROVE  TypeInv'
  <1>1. /\ TypeOK /\ StoreOK /\ CallsOK /\ LineOK /\ TasksTypeOK /\ BridgeTypeOK /\ FeedTypeOK
        /\ pager \in PagerTypes
    BY DEF TypeInv, TypeOK, FeedTypeOK, PagerTypes, Subscribers
  <1>2. ASSUME TasksTypeOK', StoreOK', CallsOK', BridgeTypeOK', LineOK', FeedTypeOK', pager' \in PagerTypes,
               scene' = scene
        PROVE  TypeInv'
    BY <1>1, <1>2 DEF TypeInv, TypeOK, FeedTypeOK, PagerTypes, Subscribers
  <1>3. ASSUME UNCHANGED <<users, calm, taskVars>>
        PROVE  TasksTypeOK' /\ StoreOK' /\ CallsOK'
    BY <1>1, <1>3 DEF taskVars, TasksTypeOK, StoreOK, CallsOK, CallOK, Begun, Existing
  <1>4. ASSUME UNCHANGED bridgeVars
        PROVE  BridgeTypeOK' /\ LineOK'
    BY <1>1, <1>4 DEF bridgeVars, BridgeTypeOK, LineOK
  <1>5. ASSUME UNCHANGED feedVars
        PROVE  FeedTypeOK'
    BY <1>1, <1>5 DEF feedVars, FeedTypeOK
  <1>6. CASE Service /\ UNCHANGED <<feedVars, pager>> /\ UNCHANGED <<users, calm, scene>>
    BY <1>1, <1>2, <1>5, <1>6, ServiceTypes
  <1>7. CASE FeedStep /\ UNCHANGED <<taskVars, bridgeVars, pager>> /\ UNCHANGED <<users, calm, scene>>
    BY <1>1, <1>2, <1>3, <1>4, <1>7, FeedTypes
  <1>8. CASE /\ (\E f \in Filters : StartPaging(f)) \/ NextPage
             /\ UNCHANGED <<taskVars, bridgeVars, feedVars>> /\ UNCHANGED <<users, calm, scene>>
    BY <1>1, <1>2, <1>3, <1>4, <1>5, <1>8, PagerTypeOK
  <1>9. CASE UNCHANGED vars
    BY <1>1, <1>2, <1>3, <1>4, <1>5, <1>9 DEF vars
  <1>10. QED
    BY <1>6, <1>7, <1>8, <1>9 DEF Next

LEMMA TypesHold == Spec => []TypeInv
  <1>1. Init => TypeInv
    BY TypesInit
  <1>2. TypeInv /\ [Next]_vars => TypeInv'
    BY TypesStep
  <1>3. QED
    BY <1>1, <1>2, PTL DEF Spec

\* Every variable keeps its type: the store and the journal hold well-formed
\* tasks, whatever call a process dies in.
THEOREM TypeCorrect == Spec => []TypeOK
  <1>1. TypeInv => TypeOK
    BY DEF TypeInv
  <1>2. QED
    BY <1>1, TypesHold, PTL

-----------------------------------------------------------------------------
(* One process: histories grow, artifacts stay, what is over stays as it is *)

LEMMA PrefixFacts ==
    ASSUME NEW S, NEW s \in Seq(S), NEW r \in Seq(S)
    PROVE  IsPrefix(s, s) /\ IsPrefix(s, s \o r)
  <1> DEFINE t == s \o r
  <1>1. /\ t \in Seq(S) /\ Len(t) = Len(s) + Len(r) /\ Len(r) \in Nat /\ Len(s) \in Nat
        /\ \A i \in 1..Len(s) : t[i] = s[i]
    OBVIOUS
  <1> HIDE DEF t
  <1>2. Len(s) <= Len(t) /\ SubSeq(s, 1, Len(s)) = s
    BY <1>1
  <1>3. SubSeq(t, 1, Len(s)) = s
    <2>1. /\ SubSeq(t, 1, Len(s)) \in Seq(S) /\ Len(SubSeq(t, 1, Len(s))) = Len(s)
          /\ \A i \in 1..Len(s) : SubSeq(t, 1, Len(s))[i] = t[i]
      BY <1>1, <1>2
    <2>2. QED
      BY <1>1, <2>1, SeqEqual
  <1>4. QED
    BY <1>2, <1>3 DEF IsPrefix, t

LEMMA PrefixAppend ==
    ASSUME NEW S, NEW s \in Seq(S), NEW e \in S
    PROVE  IsPrefix(s, Append(s, e))
  <1>1. <<e>> \in Seq(S) /\ Append(s, e) = s \o <<e>>
    OBVIOUS
  <1>2. QED
    BY <1>1, PrefixFacts

LEMMA PrefixMeans ==
    ASSUME NEW S, NEW s \in Seq(S), NEW t \in Seq(S), IsPrefix(s, t)
    PROVE  Len(s) <= Len(t) /\ \A i \in 1..Len(s) : t[i] = s[i]
  <1>1. Len(s) <= Len(t) /\ SubSeq(s, 1, Len(s)) = SubSeq(t, 1, Len(s)) /\ Len(s) \in Nat /\ Len(t) \in Nat
    BY DEF IsPrefix
  <1>2. \A i \in 1..Len(s) : SubSeq(s, 1, Len(s))[i] = s[i] /\ SubSeq(t, 1, Len(s))[i] = t[i]
    BY <1>1
  <1>3. QED
    BY <1>1, <1>2

Evolved ==
    \A t \in Tasks :
        /\ IsPrefix(store[t].history, store'[t].history)
        /\ store[t].arts \subseteq store'[t].arts
        /\ Terminal(store[t]) => store'[t] = store[t]

LEMMA StillEvolves ==
    ASSUME TypeInv, UNCHANGED store
    PROVE  Evolved
  <1>1. ASSUME NEW t \in Tasks
        PROVE  IsPrefix(store[t].history, store'[t].history)
    <2>1. store[t].history \in Seq(Entries)
      BY DEF TypeInv, TypeOK, TasksTypeOK, TaskRecords
    <2>2. QED
      BY <2>1, PrefixFacts
  <1>2. QED
    BY <1>1 DEF Evolved

\* Solo facts of the process that is alone.
Solo(p) == SoloOK(call[p], store[call[p].task])

LEMMA NoCallSolo ==
    ASSUME NEW s
    PROVE  SoloOK(NoCall, s)
  BY DEF SoloOK, NoCall, Writing

LEMMA SoloRequest ==
    ASSUME TypeInv, NEW p \in users, Solo(p), RequestStep(p)
    PROVE  Solo(p)' /\ Evolved
  <1>1. /\ TypeOK /\ TasksTypeOK /\ StoreOK /\ p \in Processes /\ store \in [Tasks -> TaskRecords]
        /\ \A t \in Tasks : store[t].history \in Seq(Entries)
    BY DEF TypeInv, TypeOK, TasksTypeOK, TaskRecords
  <1>2. ASSUME NEW verb \in Sends, NEW t \in Tasks, SendNew(p, verb, t)
        PROVE  Solo(p)' /\ Evolved
    <2> DEFINE task == Submitted(NoTask, sent + 1)
    <2>1. /\ store[t] = NoTask /\ task \in TaskRecords /\ task.history \in Seq(Entries)
          /\ store' = [store EXCEPT ![t] = task]
          /\ call'[p].step \in {"respond", "enter"} /\ call'[p].task = t /\ call'[p].snap = task
          /\ call'[p].old = {}
      BY <1>1, <1>2, SendNewDoes DEF Sends, TaskRecords
    <2>2. store[t] = NoTask
      BY <2>1
    <2> HIDE DEF task
    <2>3. store'[t] = task /\ \A u \in Tasks \ {t} : store'[u] = store[u]
      BY <1>1, <2>1
    <2>4. Solo(p)'
      BY <2>1, <2>3 DEF Solo, SoloOK, Writing
    <2>5. <<>> \o task.history = task.history /\ <<>> \in Seq(Entries)
      BY <2>1
    <2>6. IsPrefix(<<>>, task.history)
      BY <2>1, <2>5, PrefixFacts
    <2>7. Evolved
      <3>1. ASSUME NEW u \in Tasks
            PROVE  /\ IsPrefix(store[u].history, store'[u].history)
                   /\ store[u].arts \subseteq store'[u].arts
                   /\ Terminal(store[u]) => store'[u] = store[u]
        <4>1. CASE u = t
          BY <2>2, <2>3, <2>6, <4>1 DEF NoTask, Terminal, TerminalStates
        <4>2. CASE u # t
          BY <1>1, <2>3, <4>2, PrefixFacts
        <4>3. QED
          BY <4>1, <4>2
      <3>2. QED
        BY <3>1 DEF Evolved
    <2>8. QED
      BY <2>4, <2>7
  <1>3. ASSUME NEW verb \in Sends, NEW t \in Tasks, SendMore(p, verb, t)
        PROVE  Solo(p)' /\ Evolved
    <2>1. /\ ~Terminal(store[t]) /\ sent + 1 \in Messages
          /\ call'[p].step = "put" /\ call'[p].task = t /\ call'[p].old = {}
          /\ call'[p].snap.history = Append(store[t].history, UserSays(sent + 1))
          /\ call'[p].snap.arts = store[t].arts
          /\ store' = store
      BY <1>1, <1>3, SendMoreDoes DEF Sends
    <2>2. IsPrefix(store[t].history, call'[p].snap.history)
      BY <1>1, <2>1, RecordFacts, PrefixAppend
    <2>3. Solo(p)'
      BY <2>1, <2>2 DEF Solo, SoloOK
    <2>4. QED
      BY <2>1, <2>3, StillEvolves
  <1>4. ASSUME NEW t \in Tasks, BeginProcess(p, t), UNCHANGED <<store, journal>>
        PROVE  Solo(p)' /\ Evolved
    <2>1. call'[p].step = "enter" /\ call'[p].old = {}
      BY <1>1, <1>4, BeginProcessDoes
    <2>2. Solo(p)'
      BY <2>1 DEF Solo, SoloOK, Writing
    <2>3. QED
      BY <1>4, <2>2, StillEvolves
  <1>5. ASSUME NEW t \in Tasks, BeginCancel(p, t), UNCHANGED <<store, journal>>
        PROVE  Solo(p)' /\ Evolved
    <2>1. /\ ~Terminal(store[t])
          /\ call'[p].step = "final" /\ call'[p].task = t /\ call'[p].old = {}
          /\ call'[p].snap.history = Append(store[t].history, AgentSays(None, None))
          /\ call'[p].snap.arts = store[t].arts
      BY <1>1, <1>5, BeginCancelDoes
    <2>2. IsPrefix(store[t].history, call'[p].snap.history)
      <3>1. AgentSays(None, None) \in Entries /\ store[t].history \in Seq(Entries)
        BY <1>1, RecordFacts
      <3>2. QED
        BY <2>1, <3>1, PrefixAppend
    <2>3. Solo(p)'
      BY <1>5, <2>1, <2>2 DEF Solo, SoloOK
    <2>4. QED
      BY <1>5, <2>3, StillEvolves
  <1>6. ASSUME Crash(p)
        PROVE  Solo(p)' /\ Evolved
    <2>1. call'[p] = NoCall /\ store' = store
      BY <1>1, <1>6, CloseStreamDoes DEF Crash
    <2>2. QED
      BY <2>1, NoCallSolo, StillEvolves DEF Solo
  <1>7. QED
    BY <1>2, <1>3, <1>4, <1>5, <1>6 DEF RequestStep

LEMMA SoloWrite ==
    ASSUME TypeInv, NEW p \in users, Solo(p), WriteStep(p)
    PROVE  Solo(p)' /\ Evolved
  <1>1. /\ TypeOK /\ TasksTypeOK /\ StoreOK /\ CallsOK /\ p \in Processes /\ store \in [Tasks -> TaskRecords]
        /\ \A t \in Tasks : store[t].history \in Seq(Entries)
        /\ call[p].snap.history \in Seq(Entries)
    BY DEF TypeInv, TypeOK, TasksTypeOK, TaskRecords, Calls
  <1> DEFINE t1 == call[p].task
  <1>2. /\ call[p].step \in {"put", "working", "final"}
        /\ store' = [store EXCEPT ![t1] = call[p].snap]
    BY DEF WriteStep, PutMore, PutWorking, PutFinal, Put, At
  <1>3. t1 \in Tasks
    BY <1>1, <1>2, BusyTask
  <1>4. store'[t1] = call[p].snap /\ \A t \in Tasks \ {t1} : store'[t] = store[t]
    BY <1>1, <1>2, <1>3
  <1>5. /\ ~Terminal(store[t1]) /\ IsPrefix(store[t1].history, call[p].snap.history)
        /\ store[t1].arts \subseteq call[p].snap.arts /\ call[p].old \subseteq store[t1].arts
        /\ call[p].step = "working" => ~Terminal(call[p].snap)
    BY <1>2 DEF Solo, SoloOK, Writing
  <1> HIDE DEF t1
  <1>6. Evolved
    <2>1. ASSUME NEW t \in Tasks
          PROVE  /\ IsPrefix(store[t].history, store'[t].history)
                 /\ store[t].arts \subseteq store'[t].arts
                 /\ Terminal(store[t]) => store'[t] = store[t]
      <3>1. CASE t = t1
        BY <1>4, <1>5, <3>1
      <3>2. CASE t # t1
        BY <1>1, <1>4, <3>2, PrefixFacts
      <3>3. QED
        BY <3>1, <3>2
    <2>2. QED
      BY <2>1 DEF Evolved
  <1>7. IsPrefix(call[p].snap.history, call[p].snap.history)
    BY <1>1, PrefixFacts
  <1>8. /\ call'[p].task = t1 /\ call'[p].snap = call[p].snap /\ call'[p].old = call[p].old
        /\ call'[p].step \in {"respond", "enter", "handle", "note"}
        /\ call'[p].step = "handle" => call[p].step = "working"
    <2>1. CASE PutMore(p)
      BY <1>1, <2>1, PutMoreDoes DEF SameJob, t1
    <2>2. CASE PutWorking(p)
      BY <1>1, <2>2, PutWorkingDoes DEF SameJob, t1, At
    <2>3. CASE PutFinal(p)
      BY <1>1, <2>3, PutFinalDoes DEF SameJob, t1
    <2>4. QED
      BY <2>1, <2>2, <2>3 DEF WriteStep
  <1>9. Solo(p)'
    BY <1>4, <1>5, <1>7, <1>8 DEF Solo, SoloOK, Writing
  <1>10. QED
    BY <1>6, <1>9

LEMMA SoloGoesOn ==
    ASSUME TypeInv, NEW p \in users, Solo(p), call[p].step \in {"note", "insert"}, GoesOn(p), UNCHANGED store
    PROVE  Solo(p)'
  <1>1. call[p].next \in {"idle", "stream", "check", "respond", "emit"}
    BY DEF TypeInv, CallsOK, CallOK, TypeOK, TasksTypeOK
  <1>2. CASE call'[p] = NoCall
    BY <1>2, NoCallSolo DEF Solo
  <1>3. CASE /\ SameJob(p) /\ call'[p].step = call[p].next
             /\ call'[p].snap = call[p].snap /\ call'[p].old = call[p].old
    BY <1>1, <1>3 DEF Solo, SoloOK, SameJob, Writing
  <1>4. QED
    BY <1>2, <1>3 DEF GoesOn

LEMMA SoloRead ==
    ASSUME TypeInv, NEW p \in users, Solo(p), ReadStep(p)
    PROVE  Solo(p)' /\ Evolved
  <1>1. /\ TypeOK /\ TasksTypeOK /\ StoreOK /\ CallsOK /\ p \in Processes /\ store \in [Tasks -> TaskRecords]
        /\ call[p].snap.history \in Seq(Entries)
    BY DEF TypeInv, TypeOK, TasksTypeOK, TaskRecords, Calls
  <1>2. store' = store
    BY DEF ReadStep, Quiet, InsertRow, Check, PlainHandler
  <1> DEFINE s == store[call[p].task]
  <1>3. Solo(p)'
    <2>1. ASSUME NEW limits \in SUBSET (Nat \cup {None}), Respond(p, limits)
          PROVE  Solo(p)'
      <3>1. /\ At(p, "respond") /\ SameJob(p) /\ call'[p].step = "note"
            /\ call'[p].next \in {"idle", "stream"}
            /\ call'[p].old \in {call[p].snap.arts, call[p].old}
        BY <1>1, <2>1, RespondDoes
      <3>2. QED
        BY <1>2, <3>1 DEF Solo, SoloOK, SameJob, Writing, At
    <2>2. ASSUME Stream(p)
          PROVE  Solo(p)'
      <3>1. /\ At(p, "stream")
            /\ (SameJob(p) /\ call'[p].step = "enter" /\ call'[p].old = call[p].old) \/ call'[p] = NoCall
        BY <1>1, <2>2, StreamDoes
      <3>2. QED
        BY <1>2, <3>1, NoCallSolo DEF Solo, SoloOK, SameJob, Writing, At
    <2>3. ASSUME Note(p)
          PROVE  Solo(p)'
      <3>1. /\ At(p, "note")
            /\ \/ GoesOn(p)
               \/ /\ SameJob(p) /\ call'[p].step = "insert" /\ call'[p].next = call[p].next
                  /\ call'[p].snap = call[p].snap /\ call'[p].old = call[p].old
        BY <1>1, <2>3, NoteDoes
      <3>2. CASE GoesOn(p)
        BY <1>2, <3>1, <3>2, SoloGoesOn DEF At
      <3>3. CASE ~GoesOn(p)
        BY <1>2, <3>1, <3>3 DEF Solo, SoloOK, SameJob, Writing, At
      <3>4. QED
        BY <3>2, <3>3
    <2>4. ASSUME InsertRow(p)
          PROVE  Solo(p)'
      BY <1>1, <1>2, <2>4, InsertRowDoes, SoloGoesOn DEF At
    <2>5. ASSUME Enter(p)
          PROVE  Solo(p)'
      <3>1. At(p, "enter")
        BY <2>5 DEF Enter
      <3>2. /\ SameJob(p) /\ call'[p].step = "note" /\ call'[p].next = "check" /\ call'[p].old = call[p].old
        BY <1>1, <2>5, <3>1, BusyTask, EnterDoes DEF At
      <3>3. QED
        BY <1>2, <3>1, <3>2 DEF Solo, SoloOK, SameJob, Writing, At
    <2>6. ASSUME Check(p)
          PROVE  Solo(p)'
      <3>1. At(p, "check")
        BY <2>6 DEF Check
      <3>2. call[p].task \in Tasks /\ Begun(s)
        BY <1>1, <3>1, BusyTask DEF At
      <3>3. \/ SameJob(p) /\ call'[p].step = "note" /\ call'[p].snap = s /\ call'[p].old = call[p].old
            \/ /\ SameJob(p) /\ call'[p].step = "working" /\ call'[p].old = call[p].old /\ ~Terminal(s)
               /\ call'[p].snap.history = s.history /\ call'[p].snap.arts = s.arts
               /\ ~Terminal(call'[p].snap)
            \/ call'[p] = NoCall
        BY <1>1, <2>6, <3>2, CheckDoes
      <3>4. IsPrefix(s.history, s.history)
        <4>1. s.history \in Seq(Entries)
          BY <1>1, <3>2 DEF TaskRecords
        <4>2. QED
          BY <4>1, PrefixFacts
      <3>5. QED
        BY <1>2, <3>1, <3>3, <3>4, NoCallSolo DEF Solo, SoloOK, SameJob, Writing, At
    <2>7. ASSUME Emit(p)
          PROVE  Solo(p)'
      <3>1. /\ At(p, "emit") /\ SameJob(p) /\ call'[p].step = "streamed"
            /\ call'[p].old = call[p].old \cup call[p].snap.arts
        BY <1>1, <2>7, EmitDoes
      <3>2. QED
        BY <1>2, <3>1 DEF Solo, SoloOK, SameJob, Writing, At
    <2>8. ASSUME CloseStream(p)
          PROVE  Solo(p)'
      BY <1>1, <2>8, CloseStreamDoes, NoCallSolo DEF Solo
    <2>9. ASSUME PlainHandler(p, Results)
          PROVE  Solo(p)'
      <3>1. /\ At(p, "handle")
            /\ \/ /\ SameJob(p) /\ call'[p].step = "final" /\ call'[p].old = call[p].old
                  /\ \E replies \in Seq(Entries) : call'[p].snap.history = call[p].snap.history \o replies
                  /\ call[p].snap.arts \subseteq call'[p].snap.arts
               \/ call'[p] = NoCall
        BY <1>1, <2>9, PlainHandlerDoes
      <3>2. CASE call'[p] = NoCall
        BY <3>2, NoCallSolo DEF Solo
      <3>3. CASE call'[p] # NoCall
        <4>1. IsPrefix(call[p].snap.history, call'[p].snap.history)
          BY <1>1, <3>1, <3>3, PrefixFacts
        <4>2. QED
          BY <1>2, <3>1, <3>3, <4>1 DEF Solo, SoloOK, SameJob, Writing, At
      <3>4. QED
        BY <3>2, <3>3
    <2>10. QED
      BY <2>1, <2>2, <2>3, <2>4, <2>5, <2>6, <2>7, <2>8, <2>9 DEF ReadStep
  <1>4. QED
    BY <1>2, <1>3, StillEvolves

\* The handler hands back what goes on from what it was given.
LEMMA SoloEnds ==
    ASSUME TypeInv, NEW p \in users, Solo(p), call[p].step \in {"handle", "run", "turn"},
           NEW e \in Entries, Ends(p, e), UNCHANGED store
    PROVE  Solo(p)'
  <1>1. call[p].snap.history \in Seq(Entries)
    BY DEF TypeInv, TypeOK, TasksTypeOK, TaskRecords, Calls
  <1>2. IsPrefix(call[p].snap.history, call'[p].snap.history)
    BY <1>1, PrefixAppend DEF Ends
  <1>3. QED
    BY <1>2 DEF Solo, SoloOK, SameJob, Ends, Writing

LEMMA SoloRun ==
    ASSUME TypeInv, NEW p \in users, Solo(p), RunStep(p)
    PROVE  Solo(p)' /\ Evolved
  <1>1. p \in Processes /\ store' = store
    BY DEF TypeInv, TypeOK, TasksTypeOK, RunStep
  <1>2. ASSUME call[p].step \in {"handle", "run"}, call'[p].step \in {"run", "turn"}, SameJob(p),
               call'[p].snap = call[p].snap, call'[p].old = call[p].old
        PROVE  Solo(p)'
    BY <1>1, <1>2 DEF Solo, SoloOK, SameJob, Writing
  <1>3. ASSUME NEW m \in Messages, NEW a \in Messages \cup {None}, Ends(p, AgentSays(m, a)),
               call[p].step \in {"handle", "run", "turn"}
        PROVE  Solo(p)'
    <2>1. AgentSays(m, a) \in Entries
      BY RecordFacts
    <2>2. QED
      BY <1>1, <1>3, <2>1, SoloEnds
  <1>4. ASSUME Submit(p)
        PROVE  Solo(p)'
    <2>1. /\ At(p, "handle") /\ call[p].msg \in Messages
          /\ \/ Ends(p, AgentSays(call[p].msg, None))
             \/ /\ SameJob(p) /\ call'[p].step = "run" /\ call'[p].snap = call[p].snap
                /\ call'[p].old = call[p].old
      BY <1>1, <1>4, SubmitDoes
    <2>2. CASE Ends(p, AgentSays(call[p].msg, None))
      <3>1. None \in Messages \cup {None} /\ call[p].step \in {"handle", "run", "turn"}
        BY <2>1 DEF At
      <3>2. QED
        BY <1>3, <2>1, <2>2, <3>1
    <2>3. QED
      BY <1>2, <2>1, <2>2 DEF At
  <1>5. ASSUME Claim(p)
        PROVE  Solo(p)'
    <2>1. /\ At(p, "run") /\ call[p].msg \in Messages
          /\ \/ Ends(p, AgentSays(call[p].msg, None))
             \/ /\ SameJob(p) /\ call'[p].step = "turn" /\ call'[p].snap = call[p].snap
                /\ call'[p].old = call[p].old
      BY <1>1, <1>5, ClaimDoes
    <2>2. CASE Ends(p, AgentSays(call[p].msg, None))
      <3>1. None \in Messages \cup {None} /\ call[p].step \in {"handle", "run", "turn"}
        BY <2>1 DEF At
      <3>2. QED
        BY <1>3, <2>1, <2>2, <3>1
    <2>3. QED
      BY <1>2, <2>1, <2>2 DEF At
  <1>6. ASSUME FinishTurn(p)
        PROVE  Solo(p)'
    <2>1. /\ At(p, "turn") /\ call[p].msg \in Messages /\ call[p].work \in Messages
          /\ Ends(p, AgentSays(call[p].msg, call[p].work)) \/ Ends(p, AgentSays(call[p].msg, None))
      BY <1>1, <1>6, FinishTurnDoes
    <2>2. /\ None \in Messages \cup {None} /\ call[p].work \in Messages \cup {None}
          /\ call[p].step \in {"handle", "run", "turn"}
      BY <2>1 DEF At
    <2>3. CASE Ends(p, AgentSays(call[p].msg, None))
      BY <1>3, <2>1, <2>2, <2>3
    <2>4. CASE Ends(p, AgentSays(call[p].msg, call[p].work))
      BY <1>3, <2>1, <2>2, <2>4
    <2>5. QED
      BY <2>1, <2>3, <2>4
  <1>7. Solo(p)'
    BY <1>4, <1>5, <1>6 DEF RunStep
  <1>8. QED
    BY <1>1, <1>7, StillEvolves

LEMMA SoloStep ==
    ASSUME TypeInv, SoloInv, [Next]_vars
    PROVE  SoloInv' /\ (Alone => Evolved)
  <1>1. TypeOK /\ users' = users
    BY DEF TypeInv, Next, vars
  <1>2. SUFFICES ASSUME Alone PROVE SoloInv' /\ Evolved
    BY <1>1 DEF SoloInv, Alone
  <1>3. PICK p \in Processes : users = {p}
    BY <1>2 DEF Alone
  <1>4. Solo(p) /\ p \in users
    BY <1>2, <1>3 DEF SoloInv, Solo
  <1>5. SUFFICES Solo(p)' /\ Evolved
    BY <1>1, <1>3 DEF SoloInv, Solo
  <1>6. CASE Service
    <2>1. CASE RequestStep(p) \/ WriteStep(p) \/ ReadStep(p) \/ RunStep(p)
      BY <1>4, <2>1, SoloRequest, SoloWrite, SoloRead, SoloRun
    <2>2. CASE UNCHANGED taskVars
      BY <1>4, <2>2, StillEvolves DEF taskVars, Solo
    <2>3. QED
      BY <1>1, <1>3, <1>6, <2>1, <2>2, ServiceSteps
  <1>7. CASE UNCHANGED taskVars
    BY <1>4, <1>7, StillEvolves DEF taskVars, Solo
  <1>8. QED
    BY <1>6, <1>7 DEF Next, vars

LEMMA SoloInit ==
    ASSUME Init
    PROVE  SoloInv
  <1>1. \A p \in users : call[p] = NoCall
    BY A2AAssumption DEF Init, InitTasks
  <1>2. QED
    BY <1>1, NoCallSolo DEF SoloInv

LEMMA SoloHolds == Spec => []SoloInv
  <1>1. Init => SoloInv
    BY SoloInit
  <1>2. TypeInv /\ SoloInv /\ [Next]_vars => SoloInv'
    BY SoloStep
  <1>3. QED
    BY <1>1, <1>2, TypesHold, PTL DEF Spec

\* With one process, whatever call it dies in, the history of a task only
\* grows, no artifact is lost, and a terminal task is never touched again.
THEOREM TasksEvolve == Spec => TaskEvolves
  <1>1. TypeInv /\ SoloInv /\ [Next]_vars => [Alone => Evolved]_vars
    BY SoloStep
  <1>2. TaskEvolves <=> [][Alone => Evolved]_vars
    BY DEF TaskEvolves, Evolved
  <1>3. Spec => [][Alone => Evolved]_vars
    BY <1>1, SoloHolds, TypesHold, PTL DEF Spec
  <1>4. QED
    BY <1>2, <1>3

\* A stream that was read to its end has shown every artifact id of the task.
THEOREM StreamsNameAll == Spec => []StreamNamesAll
  <1>1. SoloInv => StreamNamesAll
    BY DEF SoloInv, SoloOK, StreamNamesAll, At
  <1>2. QED
    BY <1>1, SoloHolds, PTL

-----------------------------------------------------------------------------
(* The bridge: what stands in a history *)

\* Items that are done stay done, and the line only grows.
LineStays ==
    /\ \A m \in Messages : item[m] = "completed" => item'[m] = "completed"
    /\ \A m, t : OnLine(m, t) => OnLine(m, t)'

LEMMA HistStays ==
    ASSUME UNCHANGED <<users, calm>>, LineStays, NEW h \in Seq(Entries), NEW t, HistOK(h, t)
    PROVE  HistOK(h, t)'
  <1>1. ASSUME NEW i \in Answers(h)
        PROVE  h[i].answer \in Messages
    <2>1. h[i] \in Entries /\ h[i].answer # None
      BY DEF Answers
    <2>2. QED
      BY <2>1 DEF Entries, UserSays, AgentSays
  <1>2. Earned(h, t)'
    BY <1>1 DEF HistOK, Earned, LineStays
  <1>3. QED
    BY <1>2 DEF HistOK, Alone

LEMMA EmptyHist ==
    ASSUME NEW t
    PROVE  HistOK(<<>>, t) /\ HistOK(<<>>, t)'
  BY DEF HistOK, Earned, Prompted, OwnAnswers, Answers

\* An entry that gives no answer changes nothing.
LEMMA AppendHist ==
    ASSUME NEW h \in Seq(Entries), NEW e \in Entries, e.answer = None, NEW t, HistOK(h, t)
    PROVE  HistOK(Append(h, e), t)
  <1> DEFINE g == Append(h, e)
  <1>1. /\ Len(h) \in Nat /\ DOMAIN h = 1..Len(h) /\ DOMAIN g = 1..(Len(h) + 1)
        /\ \A i \in 1..Len(h) : g[i] = h[i] /\ g[Len(h) + 1] = e
    OBVIOUS
  <1>2. g[Len(h) + 1] = e
    OBVIOUS
  <1> HIDE DEF g
  <1>3. Answers(g) = Answers(h) /\ \A i \in Answers(h) : i \in 1..Len(h) /\ g[i] = h[i]
    BY <1>1, <1>2 DEF Answers
  <1>4. Earned(g, t)
    BY <1>3 DEF HistOK, Earned
  <1>5. Prompted(h) => Prompted(g)
    <2>1. ASSUME NEW i \in Answers(h), NEW j \in 1..(i - 1)
          PROVE  g[j] = h[j]
      BY <1>1, <1>3
    <2>2. QED
      BY <1>3, <2>1 DEF Prompted
  <1>6. OwnAnswers(h) => OwnAnswers(g)
    BY <1>3 DEF OwnAnswers
  <1>7. QED
    BY <1>4, <1>5, <1>6 DEF HistOK, g

\* An answer of an item that had given none, of a message that is there.
LEMMA AnswerHist ==
    ASSUME UNCHANGED <<users, calm>>, NEW h \in Seq(Entries), NEW m \in Messages, NEW msg \in Messages, NEW t,
           HistOK(h, t), LineStays, item[m] # "completed", item'[m] = "completed", OnLine(m, t),
           Alone => \E j \in DOMAIN h : h[j] = UserSays(m),
           Alone /\ calm => msg = m
    PROVE  HistOK(Append(h, AgentSays(msg, m)), t)'
  <1> DEFINE e == AgentSays(msg, m)
             g == Append(h, e)
             n == Len(h) + 1
  <1>1. e.answer = m /\ e.msg = msg /\ m # None
    BY A2AAssumption DEF AgentSays, Messages
  <1>2. e \in Entries
    BY RecordFacts
  <1> HIDE DEF e
  <1>3. /\ Len(h) \in Nat /\ DOMAIN h = 1..Len(h) /\ DOMAIN g = 1..n /\ g[n] = e
        /\ \A i \in 1..Len(h) : g[i] = h[i]
    OBVIOUS
  <1> HIDE DEF g
  <1>4. n \in Nat /\ n \notin 1..Len(h) /\ 1..n = 1..Len(h) \cup {n} /\ 1..(n - 1) = 1..Len(h)
    BY <1>3
  <1> HIDE DEF n
  <1>5. Answers(g) = Answers(h) \cup {n} /\ \A i \in Answers(h) : i \in 1..Len(h) /\ g[i] = h[i]
    BY <1>1, <1>3, <1>4 DEF Answers
  <1>6. HistOK(h, t)'
    BY HistStays
  <1>7. \A i \in Answers(h) : h[i].answer # m
    BY DEF HistOK, Earned
  <1>8. Earned(g, t)'
    <2>1. OnLine(m, t)'
      BY DEF LineStays
    <2>2. \A i, j \in Answers(g) : g[i].answer = g[j].answer => i = j
      BY <1>1, <1>3, <1>5, <1>7 DEF HistOK, Earned
    <2>3. \A i \in Answers(g) : item'[g[i].answer] = "completed" /\ OnLine(g[i].answer, t)'
      BY <1>1, <1>3, <1>5, <1>6, <2>1 DEF HistOK, Earned
    <2>4. QED
      BY <2>2, <2>3 DEF Earned
  <1>9. Alone => Prompted(g)
    <2>1. ASSUME Alone
          PROVE  Prompted(g)
      <3>1. Prompted(h) /\ \E j \in 1..Len(h) : h[j] = UserSays(m)
        BY <1>3, <2>1 DEF HistOK
      <3>2. ASSUME NEW i \in Answers(h)
            PROVE  \E j \in 1..(i - 1) : g[j] = UserSays(g[i].answer)
        <4>1. PICK j \in 1..(i - 1) : h[j] = UserSays(h[i].answer)
          BY <3>1 DEF Prompted
        <4>2. i \in 1..Len(h) /\ g[i] = h[i]
          BY <1>5
        <4>3. j \in 1..Len(h)
          BY <1>3, <4>2
        <4>4. QED
          BY <1>3, <4>1, <4>2, <4>3
      <3>3. \E j \in 1..(n - 1) : g[j] = UserSays(g[n].answer)
        BY <1>1, <1>3, <1>4, <3>1
      <3>4. QED
        BY <1>5, <3>2, <3>3 DEF Prompted
    <2>2. QED
      BY <2>1
  <1>10. Alone /\ calm => OwnAnswers(g)
    BY <1>1, <1>3, <1>5 DEF HistOK, OwnAnswers
  <1>11. QED
    BY <1>8, <1>9, <1>10 DEF HistOK, Alone, g, e

\* The history in the new snapshot is one that was there, or goes on from one
\* by an entry that gives no answer.
Base(p, h) ==
    \/ h = <<>>
    \/ call'[p].task = call[p].task /\ h = call[p].snap.history
    \/ call'[p].task \in Tasks /\ h = store[call'[p].task].history
Plain(p) ==
    \E h \in Seq(Entries) :
        /\ Base(p, h)
        /\ \/ call'[p].snap.history = h
           \/ \E e \in Entries : e.answer = None /\ call'[p].snap.history = Append(h, e)

\* A stored history is an old one or that of the snapshot.
Stored(p) ==
    \A t \in Tasks :
        \/ store'[t].history = store[t].history
        \/ t = call[p].task /\ store'[t].history = call[p].snap.history
        \/ t = call'[p].task /\ store'[t].history = call'[p].snap.history

LEMMA HistTypes ==
    ASSUME TypeInv
    PROVE  /\ \A t \in Tasks : store[t].history \in Seq(Entries)
           /\ \A p \in Processes : call[p].snap.history \in Seq(Entries)
  BY DEF TypeInv, TypeOK, TasksTypeOK, TaskRecords, Calls

\* The histories are right when that of the snapshot is.
LEMMA HistsStep ==
    ASSUME TypeInv, HistsOK, UNCHANGED <<users, calm>>, LineStays, NEW p \in Processes, Alters(p), Stored(p),
           HistOK(call[p].snap.history, call[p].task)'
    PROVE  HistsOK'
  <1>1. ASSUME NEW q \in Processes
        PROVE  HistOK(call[q].snap.history, call[q].task)'
    <2>1. CASE q = p
      BY <2>1
    <2>2. CASE q # p
      <3>1. call'[q] = call[q]
        BY <2>2 DEF Alters
      <3> DEFINE h == call[q].snap.history
                 t == call[q].task
      <3>2. h \in Seq(Entries) /\ HistOK(h, t)
        BY HistTypes DEF HistsOK
      <3>3. call'[q].snap.history = h /\ call'[q].task = t
        BY <3>1
      <3> HIDE DEF h, t
      <3>4. QED
        BY <3>2, <3>3, HistStays
    <2>3. QED
      BY <2>1, <2>2
  <1>2. ASSUME NEW t \in Tasks
        PROVE  HistOK(store[t].history, t)'
    <2> DEFINE h == store[t].history
    <2>1. h \in Seq(Entries) /\ HistOK(h, t)
      BY HistTypes DEF HistsOK
    <2>2. CASE store'[t].history = store[t].history
      <3>1. store'[t].history = h
        BY <2>2
      <3> HIDE DEF h
      <3>2. QED
        BY <2>1, <3>1, HistStays
    <2>3. CASE t = call[p].task /\ store'[t].history = call[p].snap.history
      <3> DEFINE g == call[p].snap.history
      <3>1. g \in Seq(Entries) /\ HistOK(g, t) /\ store'[t].history = g
        BY <2>3, HistTypes DEF HistsOK
      <3> HIDE DEF g
      <3>2. QED
        BY <3>1, HistStays
    <2>4. CASE t = call'[p].task /\ store'[t].history = call'[p].snap.history
      BY <2>4
    <2>5. QED
      BY <2>2, <2>3, <2>4 DEF Stored
  <1>3. QED
    BY <1>1, <1>2 DEF HistsOK

\* What the base of a history and an entry without an answer make.
LEMMA PlainHist ==
    ASSUME TypeInv, HistsOK, UNCHANGED <<users, calm>>, LineStays, NEW p \in Processes, Plain(p)
    PROVE  HistOK(call[p].snap.history, call[p].task)'
  <1> DEFINE t == call'[p].task
  <1>1. PICK h \in Seq(Entries) :
          /\ Base(p, h)
          /\ \/ call'[p].snap.history = h
             \/ \E e \in Entries : e.answer = None /\ call'[p].snap.history = Append(h, e)
    BY DEF Plain
  <1>2. HistOK(h, t)
    <2>1. CASE h = <<>>
      BY <2>1, EmptyHist
    <2>2. CASE call'[p].task = call[p].task /\ h = call[p].snap.history
      BY <2>2 DEF HistsOK
    <2>3. CASE call'[p].task \in Tasks /\ h = store[call'[p].task].history
      BY <2>3 DEF HistsOK
    <2>4. QED
      BY <1>1, <2>1, <2>2, <2>3 DEF Base
  <1> DEFINE g == call'[p].snap.history
  <1>3. g \in Seq(Entries) /\ HistOK(g, t)
    <2> HIDE DEF t
    <2>1. CASE call'[p].snap.history = h
      BY <1>2, <2>1
    <2>2. CASE \E e \in Entries : e.answer = None /\ call'[p].snap.history = Append(h, e)
      BY <1>2, <2>2, AppendHist
    <2>3. QED
      BY <1>1, <2>1, <2>2
  <1>4. g = call'[p].snap.history /\ t = call'[p].task
    OBVIOUS
  <1> HIDE DEF g, t
  <1>5. QED
    BY <1>3, <1>4, HistStays

LEMMA EntryFacts ==
    /\ \A m \in Messages : UserSays(m) \in Entries /\ UserSays(m).answer = None
    /\ \A m \in Messages \cup {None} : AgentSays(m, None) \in Entries /\ AgentSays(m, None).answer = None
  BY RecordFacts DEF UserSays, AgentSays

LEMMA NoHist ==
    ASSUME NEW p \in Processes, call'[p].snap = NoTask
    PROVE  Plain(p)
  <1>1. call'[p].snap.history = <<>> /\ <<>> \in Seq(Entries)
    BY DEF NoTask
  <1>2. QED
    BY <1>1 DEF Plain, Base

\* A step of a process that leaves the items alone.
LEMMA RequestHists ==
    ASSUME TypeInv, NEW p \in users, RequestStep(p)
    PROVE  /\ Alters(p) /\ Plain(p) /\ Stored(p)
           /\ ~At(p, "turn")' /\ ~At(p, "run")'
           /\ calm => ~At(p, "turn") /\ ~At(p, "run")
  <1>1. /\ TypeOK /\ TasksTypeOK /\ StoreOK /\ p \in Processes /\ store \in [Tasks -> TaskRecords]
        /\ <<>> \in Seq(Entries)
    BY DEF TypeInv, TypeOK, TasksTypeOK
  <1>2. ASSUME NEW verb \in Sends, NEW t \in Tasks, SendNew(p, verb, t)
        PROVE  /\ Alters(p) /\ Plain(p) /\ Stored(p) /\ ~At(p, "turn")' /\ ~At(p, "run")'
               /\ ~At(p, "turn") /\ ~At(p, "run")
    <2> DEFINE m == sent + 1
               task == Submitted(NoTask, m)
    <2>1. /\ At(p, "idle") /\ Alters(p) /\ m \in Messages /\ t \in Tasks /\ task.history = <<UserSays(m)>>
          /\ store' = [store EXCEPT ![t] = task]
          /\ call'[p].step \in {"respond", "enter"} /\ call'[p].task = t /\ call'[p].snap = task
      BY <1>1, <1>2, SendNewDoes DEF Sends
    <2>2. Append(<<>>, UserSays(m)) = <<UserSays(m)>>
      OBVIOUS
    <2> HIDE DEF m, task
    <2>3. Plain(p)
      BY <1>1, <2>1, <2>2, EntryFacts DEF Plain, Base
    <2>4. Stored(p)
      BY <1>1, <2>1 DEF Stored
    <2>5. QED
      BY <2>1, <2>3, <2>4 DEF At
  <1>3. ASSUME NEW verb \in Sends, NEW t \in Tasks, SendMore(p, verb, t)
        PROVE  /\ Alters(p) /\ Plain(p) /\ Stored(p) /\ ~At(p, "turn")' /\ ~At(p, "run")'
               /\ ~At(p, "turn") /\ ~At(p, "run")
    <2> DEFINE m == sent + 1
    <2>1. /\ At(p, "idle") /\ Alters(p) /\ m \in Messages
          /\ call'[p].step = "put" /\ call'[p].task = t
          /\ call'[p].snap.history = Append(store[t].history, UserSays(m)) /\ store' = store
      BY <1>1, <1>3, SendMoreDoes DEF Sends
    <2> HIDE DEF m
    <2>2. Plain(p)
      BY <2>1, EntryFacts, HistTypes DEF Plain, Base
    <2>3. QED
      BY <2>1, <2>2 DEF At, Stored
  <1>4. ASSUME NEW t \in Tasks, BeginProcess(p, t), UNCHANGED <<store, journal>>
        PROVE  /\ Alters(p) /\ Plain(p) /\ Stored(p) /\ ~At(p, "turn")' /\ ~At(p, "run")'
               /\ ~At(p, "turn") /\ ~At(p, "run")
    <2>1. /\ At(p, "idle") /\ Alters(p) /\ call'[p].step = "enter" /\ call'[p].snap = NoTask
      BY <1>1, <1>4, BeginProcessDoes
    <2>2. QED
      BY <1>1, <1>4, <2>1, NoHist DEF At, Stored
  <1>5. ASSUME NEW t \in Tasks, BeginCancel(p, t), UNCHANGED <<store, journal>>
        PROVE  /\ Alters(p) /\ Plain(p) /\ Stored(p) /\ ~At(p, "turn")' /\ ~At(p, "run")'
               /\ ~At(p, "turn") /\ ~At(p, "run")
    <2>1. /\ At(p, "idle") /\ Alters(p) /\ call'[p].step = "final" /\ call'[p].task = t
          /\ call'[p].snap.history = Append(store[t].history, AgentSays(None, None))
      BY <1>1, <1>5, BeginCancelDoes
    <2>2. Plain(p)
      BY <2>1, EntryFacts, HistTypes DEF Plain, Base
    <2>3. QED
      BY <1>5, <2>1, <2>2 DEF At, Stored
  <1>6. ASSUME Crash(p)
        PROVE  /\ Alters(p) /\ Plain(p) /\ Stored(p) /\ ~At(p, "turn")' /\ ~At(p, "run")' /\ ~calm
    <2>1. Alters(p) /\ call'[p] = NoCall /\ store' = store /\ ~calm
      BY <1>1, <1>6, CloseStreamDoes DEF Crash
    <2>2. call'[p].snap = NoTask /\ call'[p].step = "idle"
      BY <2>1 DEF NoCall
    <2>3. QED
      BY <1>1, <2>1, <2>2, NoHist DEF At, Stored
  <1>7. QED
    BY <1>2, <1>3, <1>4, <1>5, <1>6 DEF RequestStep

LEMMA WriteHists ==
    ASSUME TypeInv, NEW p \in users, WriteStep(p)
    PROVE  /\ Alters(p) /\ Plain(p) /\ Stored(p)
           /\ ~At(p, "turn")' /\ ~At(p, "run")' /\ ~At(p, "turn") /\ ~At(p, "run")
  <1>1. /\ TypeOK /\ TasksTypeOK /\ p \in Processes /\ store \in [Tasks -> TaskRecords]
    BY DEF TypeInv, TypeOK, TasksTypeOK
  <1>2. /\ Alters(p) /\ SameJob(p) /\ call'[p].snap = call[p].snap
        /\ call[p].step \in {"put", "working", "final"}
        /\ call'[p].step \in {"respond", "enter", "handle", "note"}
        /\ store' = [store EXCEPT ![call[p].task] = call[p].snap]
    <2>1. CASE PutMore(p)
      BY <1>1, <2>1, PutMoreDoes DEF At
    <2>2. CASE PutWorking(p)
      BY <1>1, <2>2, PutWorkingDoes DEF At
    <2>3. CASE PutFinal(p)
      BY <1>1, <2>3, PutFinalDoes DEF At
    <2>4. QED
      BY <2>1, <2>2, <2>3 DEF WriteStep
  <1>3. Plain(p)
    BY <1>1, <1>2, HistTypes DEF Plain, Base, SameJob
  <1>4. Stored(p)
    BY <1>1, <1>2 DEF Stored
  <1>5. QED
    BY <1>2, <1>3, <1>4 DEF At

LEMMA ReadHists ==
    ASSUME TypeInv, scene = "bridge", NEW p \in users, ReadStep(p)
    PROVE  /\ Alters(p) /\ Plain(p) /\ Stored(p)
           /\ ~At(p, "turn")' /\ ~At(p, "run")' /\ ~At(p, "turn") /\ ~At(p, "run")
  <1>1. /\ TypeOK /\ TasksTypeOK /\ StoreOK /\ CallsOK /\ p \in Processes
        /\ call[p].snap.history \in Seq(Entries) /\ <<>> \in Seq(Entries)
    BY HistTypes DEF TypeInv, TypeOK, TasksTypeOK
  <1>2. store' = store
    BY DEF ReadStep, Quiet, InsertRow, Check, PlainHandler
  <1>3. Stored(p)
    BY <1>2 DEF Stored
  <1>4. ASSUME call'[p] = NoCall
        PROVE  Plain(p) /\ ~At(p, "turn")' /\ ~At(p, "run")'
    <2>1. call'[p].snap = NoTask /\ call'[p].step = "idle"
      BY <1>4 DEF NoCall
    <2>2. QED
      BY <1>1, <2>1, NoHist DEF At
  <1>5. ASSUME SameJob(p), call'[p].snap = call[p].snap
        PROVE  Plain(p)
    BY <1>1, <1>5 DEF Plain, Base, SameJob
  <1>6. ASSUME call[p].task \in Tasks, SameJob(p), call'[p].snap.history = store[call[p].task].history
        PROVE  Plain(p)
    BY <1>6, HistTypes DEF Plain, Base, SameJob
  <1>7. ASSUME call[p].step \in {"note", "insert"}, GoesOn(p)
        PROVE  Plain(p) /\ ~At(p, "turn")' /\ ~At(p, "run")'
    <2>1. call[p].next \in {"idle", "stream", "check", "respond", "emit"}
      BY <1>1, <1>7 DEF CallsOK, CallOK
    <2>2. QED
      BY <1>4, <1>5, <1>7, <2>1 DEF GoesOn, At
  <1>8. ASSUME NEW limits \in SUBSET (Nat \cup {None}), limits = {None}, Respond(p, limits)
        PROVE  Alters(p) /\ Plain(p) /\ ~At(p, "turn")' /\ ~At(p, "run")' /\ ~At(p, "turn") /\ ~At(p, "run")
    <2>1. /\ At(p, "respond") /\ Alters(p) /\ SameJob(p) /\ call'[p].step = "note" /\ call'[p].snap = call[p].snap
      BY <1>1, <1>8, RespondDoes
    <2>2. QED
      BY <1>5, <2>1 DEF At
  <1>9. ASSUME Stream(p)
        PROVE  Alters(p) /\ Plain(p) /\ ~At(p, "turn")' /\ ~At(p, "run")' /\ ~At(p, "turn") /\ ~At(p, "run")
    <2>1. /\ At(p, "stream") /\ Alters(p)
          /\ \/ SameJob(p) /\ call'[p].step = "enter" /\ call'[p].snap = call[p].snap
             \/ call'[p] = NoCall
      BY <1>1, <1>9, StreamDoes
    <2>2. QED
      BY <1>4, <1>5, <2>1 DEF At
  <1>10. ASSUME Note(p)
         PROVE  Alters(p) /\ Plain(p) /\ ~At(p, "turn")' /\ ~At(p, "run")' /\ ~At(p, "turn") /\ ~At(p, "run")
    <2>1. /\ At(p, "note") /\ Alters(p)
          /\ \/ GoesOn(p)
             \/ SameJob(p) /\ call'[p].step = "insert" /\ call'[p].snap = call[p].snap
      BY <1>1, <1>10, NoteDoes
    <2>2. QED
      BY <1>5, <1>7, <2>1 DEF At
  <1>11. ASSUME InsertRow(p)
         PROVE  Alters(p) /\ Plain(p) /\ ~At(p, "turn")' /\ ~At(p, "run")' /\ ~At(p, "turn") /\ ~At(p, "run")
    <2>1. At(p, "insert") /\ Alters(p) /\ GoesOn(p)
      BY <1>1, <1>11, InsertRowDoes
    <2>2. QED
      BY <1>7, <2>1 DEF At
  <1>12. ASSUME Enter(p)
         PROVE  Alters(p) /\ Plain(p) /\ ~At(p, "turn")' /\ ~At(p, "run")' /\ ~At(p, "turn") /\ ~At(p, "run")
    <2>1. At(p, "enter")
      BY <1>12 DEF Enter
    <2>2. call[p].task \in Tasks
      BY <1>1, <2>1, BusyTask DEF At
    <2>3. /\ Alters(p) /\ SameJob(p) /\ call'[p].step = "note" /\ call'[p].snap = store[call[p].task]
      BY <1>1, <1>12, <2>2, EnterDoes
    <2>4. QED
      BY <1>6, <2>1, <2>2, <2>3 DEF At
  <1>13. ASSUME Check(p)
         PROVE  Alters(p) /\ Plain(p) /\ ~At(p, "turn")' /\ ~At(p, "run")' /\ ~At(p, "turn") /\ ~At(p, "run")
    <2>1. At(p, "check")
      BY <1>13 DEF Check
    <2>2. call[p].task \in Tasks /\ Begun(store[call[p].task])
      BY <1>1, <2>1, BusyTask DEF At
    <2>3. /\ Alters(p)
          /\ \/ /\ SameJob(p) /\ call'[p].step \in {"note", "working"}
                /\ call'[p].snap.history = store[call[p].task].history
             \/ call'[p] = NoCall
      BY <1>1, <1>13, <2>2, CheckDoes
    <2>4. QED
      BY <1>4, <1>6, <2>1, <2>2, <2>3 DEF At
  <1>14. ASSUME Emit(p)
         PROVE  Alters(p) /\ Plain(p) /\ ~At(p, "turn")' /\ ~At(p, "run")' /\ ~At(p, "turn") /\ ~At(p, "run")
    <2>1. At(p, "emit") /\ Alters(p) /\ SameJob(p) /\ call'[p].step = "streamed" /\ call'[p].snap = call[p].snap
      BY <1>1, <1>14, EmitDoes
    <2>2. QED
      BY <1>5, <2>1 DEF At
  <1>15. ASSUME CloseStream(p)
         PROVE  Alters(p) /\ Plain(p) /\ ~At(p, "turn")' /\ ~At(p, "run")' /\ ~At(p, "turn") /\ ~At(p, "run")
    <2>1. At(p, "streamed") /\ Alters(p) /\ call'[p] = NoCall
      BY <1>1, <1>15, CloseStreamDoes DEF CloseStream
    <2>2. QED
      BY <1>4, <2>1 DEF At
  <1>16. QED
    BY <1>3, <1>8, <1>9, <1>10, <1>11, <1>12, <1>13, <1>14, <1>15 DEF ReadStep

-----------------------------------------------------------------------------
(* The bridge: items and turns *)

\* What BridgeInv says, but for the histories.
Lines ==
    /\ TurnsOK
    /\ Alone => LinePrompted
    /\ \A p \in Processes : users = {p} /\ calm => OneItem(p)

LEMMA OnLineStays ==
    ASSUME TypeInv, NEW e \in [msg : Messages \cup {Foreign}, task : Tasks \cup {None}], line' = Append(line, e)
    PROVE  /\ \A m, t : OnLine(m, t) => OnLine(m, t)'
           /\ OnLine(e.msg, e.task)'
           /\ DOMAIN line' = DOMAIN line \cup {Len(line) + 1} /\ line'[Len(line) + 1] = e
           /\ \A i \in DOMAIN line : line'[i] = line[i]
  <1>1. line \in Seq([msg : Messages \cup {Foreign}, task : Tasks \cup {None}])
    BY DEF TypeInv, TypeOK, BridgeTypeOK
  <1>2. /\ DOMAIN line' = DOMAIN line \cup {Len(line) + 1} /\ line'[Len(line) + 1] = e
        /\ \A i \in DOMAIN line : line'[i] = line[i]
    BY <1>1
  <1>3. e = [msg |-> e.msg, task |-> e.task]
    OBVIOUS
  <1>4. QED
    BY <1>2, <1>3 DEF OnLine

LEMMA PromptedStays ==
    ASSUME TypeInv, Evolved, NEW t \in Tasks, NEW x, \E j \in DOMAIN store[t].history : store[t].history[j] = x,
           store'[t].history \in Seq(Entries)
    PROVE  \E j \in DOMAIN store'[t].history : store'[t].history[j] = x
  <1> DEFINE g == store[t].history
             h == store'[t].history
  <1>1. g \in Seq(Entries) /\ h \in Seq(Entries) /\ IsPrefix(g, h) /\ \E j \in DOMAIN g : g[j] = x
    BY HistTypes DEF Evolved
  <1> HIDE DEF g, h
  <1>2. Len(g) <= Len(h) /\ \A i \in 1..Len(g) : h[i] = g[i]
    BY <1>1, PrefixMeans
  <1>3. \E j \in DOMAIN h : h[j] = x
    BY <1>1, <1>2
  <1>4. QED
    BY <1>3 DEF h

LEMMA LinePromptedStays ==
    ASSUME TypeInv, TypeInv', Evolved, UNCHANGED line, LinePrompted
    PROVE  LinePrompted'
  <1>1. ASSUME NEW i \in DOMAIN line, line[i].task \in Tasks
        PROVE  \E j \in DOMAIN store'[line[i].task].history :
                 store'[line[i].task].history[j] = UserSays(line[i].msg)
    <2>1. store'[line[i].task].history \in Seq(Entries)
      BY <1>1 DEF TypeInv, TypeOK, TasksTypeOK, TaskRecords
    <2>2. QED
      BY <1>1, <2>1, PromptedStays DEF LinePrompted
  <1>2. QED
    BY <1>1 DEF LinePrompted

LEMMA LinesQuiet ==
    ASSUME TypeInv, TypeInv', Lines, Alone => Evolved, NEW p \in users, Alters(p),
           UNCHANGED <<users, calm>>, UNCHANGED bridgeVars,
           ~At(p, "turn")', ~At(p, "run")', users = {p} /\ calm => ~At(p, "turn") /\ ~At(p, "run")
    PROVE  Lines'
  <1>1. UNCHANGED <<line, item, turn, failed>> /\ p \in Processes
    BY DEF bridgeVars, TypeInv, TypeOK, TasksTypeOK
  <1>2. TurnsOK'
    BY <1>1 DEF Lines, TurnsOK, TurnOK, At, Alters, OnLine
  <1>3. Alone' => LinePrompted'
    BY <1>1, LinePromptedStays DEF Lines, Alone
  <1>4. ASSUME NEW q \in Processes, users = {q}, calm
        PROVE  OneItem(q)'
    <2>1. q = p /\ OneItem(p) /\ ~At(p, "turn") /\ ~At(p, "run")
      BY <1>4 DEF Lines
    <2>2. QED
      BY <1>1, <2>1 DEF OneItem, At
  <1>5. QED
    BY <1>2, <1>3, <1>4 DEF Lines

LEMMA LapseLines ==
    ASSUME TypeInv, TypeInv', Lines, NEW m \in Messages, Lapse(m), UNCHANGED taskVars, UNCHANGED <<users, calm>>
    PROVE  Lines' /\ LineStays
  <1>1. /\ item \in [Messages \cup {Foreign} ->
             {"absent", "pending", "leased", "lapsed", "completed", "failed", "cancelled"}]
        /\ item[m] = "leased" /\ item' = [item EXCEPT ![m] = "lapsed"]
        /\ \A p \in Processes : ~(At(p, "turn") /\ call[p].work = m)
        /\ UNCHANGED <<line, turn, failed, call, store>>
    BY DEF TypeInv, TypeOK, BridgeTypeOK, Lapse, taskVars
  <1>2. \A n \in Messages : item'[n] = IF n = m THEN "lapsed" ELSE item[n]
    BY <1>1
  <1>3. LineStays
    BY <1>1, <1>2 DEF LineStays, OnLine
  <1>4. TurnsOK'
    <2>1. ASSUME NEW p \in Processes, At(p, "turn")
          PROVE  item'[call[p].work] = "leased"
      BY <1>1, <2>1 DEF Lines, TurnsOK, TurnOK
    <2>2. QED
      BY <1>1, <2>1 DEF Lines, TurnsOK, TurnOK, At, OnLine
  <1>5. Alone' => LinePrompted'
    BY <1>1 DEF Lines, Alone, LinePrompted
  <1>6. ASSUME NEW q \in Processes, users = {q}, calm
        PROVE  OneItem(q)'
    BY <1>1, <1>6 DEF Lines, OneItem
  <1>7. QED
    BY <1>3, <1>4, <1>5, <1>6 DEF Lines

LEMMA EndsPlain ==
    ASSUME TypeInv, NEW p \in Processes, NEW m \in Messages, Ends(p, AgentSays(m, None))
    PROVE  Alters(p) /\ Plain(p) /\ ~At(p, "turn")' /\ ~At(p, "run")'
  <1>1. AgentSays(m, None) \in Entries /\ AgentSays(m, None).answer = None
    BY EntryFacts
  <1>2. call[p].snap.history \in Seq(Entries)
    BY HistTypes
  <1>3. QED
    BY <1>1, <1>2 DEF Ends, Plain, Base, SameJob, At

\* What TypeInv says of the items.
LEMMA ItemTypes ==
    ASSUME TypeInv
    PROVE  /\ item \in [Messages \cup {Foreign} ->
                {"absent", "pending", "leased", "lapsed", "completed", "failed", "cancelled"}]
           /\ line \in Seq([msg : Messages \cup {Foreign}, task : Tasks \cup {None}])
           /\ turn \in [Tasks -> Messages \cup {None}] /\ None \notin Messages
  BY A2AAssumption DEF TypeInv, TypeOK, BridgeTypeOK, Messages

LEMMA SubmitLines ==
    ASSUME TypeInv, TypeInv', SoloInv, HistsOK, Lines, NEW p \in users, Submit(p),
           UNCHANGED <<store, users, calm>>
    PROVE  Lines' /\ HistsOK'
  <1> DEFINE c == call[p]
  <1>1. p \in Processes
    BY DEF TypeInv, TypeOK, TasksTypeOK
  <1>2. At(p, "handle") /\ Alters(p) /\ c.msg \in Messages /\ UNCHANGED <<turn, failed>>
    BY <1>1, SubmitDoes
  <1>3. Stored(p) /\ Evolved
    BY StillEvolves DEF Stored
  <1>4. CASE Ends(p, AgentSays(c.msg, None)) /\ UNCHANGED <<line, item>>
    <2>1. Plain(p) /\ ~At(p, "turn")' /\ ~At(p, "run")'
      BY <1>1, <1>2, <1>4, EndsPlain
    <2>2. LineStays
      BY <1>4 DEF LineStays, OnLine
    <2>3. HistsOK'
      BY <1>1, <1>2, <1>3, <2>1, <2>2, PlainHist, HistsStep
    <2>4. Lines'
      BY <1>2, <1>3, <1>4, <2>1, LinesQuiet DEF bridgeVars, At
    <2>5. QED
      BY <2>3, <2>4
  <1>5. CASE /\ SameJob(p) /\ call'[p].step = "run" /\ call'[p].snap = c.snap /\ call'[p].msg = c.msg
             /\ item[c.msg] = "absent" /\ item' = [item EXCEPT ![c.msg] = "pending"]
             /\ line' = Append(line, [msg |-> c.msg, task |-> c.task])
    <2>1. c.task \in Tasks /\ c.task \in Existing
      BY <1>1, <1>2, BusyTask DEF TypeInv, TypeOK, At
    <2>2. PICK e \in [msg : Messages \cup {Foreign}, task : Tasks \cup {None}] :
            e = [msg |-> c.msg, task |-> c.task] /\ e.msg = c.msg /\ e.task = c.task
      <3> DEFINE r == [msg |-> c.msg, task |-> c.task]
      <3>1. r \in [msg : Messages \cup {Foreign}, task : Tasks \cup {None}]
        BY <1>2, <2>1
      <3>2. r.msg = c.msg /\ r.task = c.task
        OBVIOUS
      <3>3. QED
        BY <3>1, <3>2
    <2>3. line' = Append(line, e)
      BY <1>5, <2>2
    <2>4. /\ \A m, t : OnLine(m, t) => OnLine(m, t)'
          /\ OnLine(e.msg, e.task)'
          /\ DOMAIN line' = DOMAIN line \cup {Len(line) + 1} /\ line'[Len(line) + 1] = e
          /\ \A i \in DOMAIN line : line'[i] = line[i]
      BY <2>2, <2>3, OnLineStays
    <2>5. \A m \in Messages : item'[m] = IF m = c.msg THEN "pending" ELSE item[m]
      BY <1>2, <1>5, ItemTypes
    <2>6. LineStays
      BY <1>5, <2>4, <2>5 DEF LineStays
    <2>7. Plain(p)
      <3>1. call[p].snap.history \in Seq(Entries)
        BY <1>1, HistTypes
      <3>2. QED
        BY <1>5, <3>1 DEF Plain, Base, SameJob
    <2>8. HistsOK'
      BY <1>1, <1>2, <1>3, <2>6, <2>7, PlainHist, HistsStep
    <2>9. TurnsOK'
      <3>1. ASSUME NEW q \in Processes, At(q, "turn")'
            PROVE  TurnOK(q)'
        <4>1. q # p /\ call'[q] = call[q] /\ At(q, "turn")
          BY <1>2, <1>5, <3>1 DEF At, Alters
        <4>2. item[call[q].work] = "leased" /\ OnLine(call[q].work, call[q].task) /\ call[q].work \in Messages
          BY <4>1 DEF Lines, TurnsOK, TurnOK, TypeInv, CallsOK, CallOK, At
        <4>3. item'[call[q].work] = "leased"
          BY <1>5, <2>5, <4>2
        <4>4. \A r \in Processes : At(r, "turn")' => r # p /\ call'[r] = call[r] /\ At(r, "turn")
          BY <1>2, <1>5 DEF At, Alters
        <4>5. QED
          BY <2>4, <4>1, <4>2, <4>3, <4>4 DEF Lines, TurnsOK, TurnOK
      <3>2. QED
        BY <3>1 DEF TurnsOK, TurnOK
    <2>10. ASSUME Alone
           PROVE  LinePrompted'
      <3>1. users = {p}
        BY <2>10 DEF Alone
      <3>2. c.snap = store[c.task]
        BY <1>2, <2>10 DEF SoloInv, SoloOK, At
      <3>3. \E j \in DOMAIN c.snap.history : c.snap.history[j] = UserSays(c.msg)
        BY <1>1, <1>2 DEF TypeInv, CallsOK, CallOK, OnMessage, At
      <3>4. \E j \in DOMAIN store[e.task].history : store[e.task].history[j] = UserSays(e.msg)
        BY <2>2, <3>2, <3>3
      <3>5. LinePrompted
        BY <2>10 DEF Lines
      <3>6. QED
        BY <2>4, <3>4, <3>5 DEF LinePrompted
    <2>11. ASSUME users = {p}, calm
           PROVE  OneItem(p)'
      <3>1. OneItem(p) /\ ~At(p, "run") /\ ~At(p, "turn")
        BY <1>1, <1>2, <2>11 DEF Lines, At
      <3>2. At(p, "run")' /\ ~At(p, "turn")'
        BY <1>5 DEF At
      <3>3. \A m \in Messages : item[m] \notin {"pending", "lapsed", "leased"}
        BY <3>1 DEF OneItem
      <3>4. \A m \in Messages : item'[m] \in {"pending", "lapsed"} => m = c.msg
        BY <2>5, <3>3
      <3>5. \A m \in Messages : item'[m] # "leased"
        BY <2>5, <3>3
      <3>6. call'[p].task = e.task /\ call'[p].msg = e.msg /\ item'[e.msg] = "pending" /\ e.msg = c.msg
        BY <1>2, <1>5, <2>2, <2>5 DEF SameJob
      <3>7. \A t \in Tasks : turn'[t] = None
        BY <1>2, <3>1 DEF OneItem
      <3>8. QED
        BY <2>4, <3>2, <3>4, <3>5, <3>6, <3>7 DEF OneItem
    <2>12. Lines'
      BY <1>1, <2>9, <2>10, <2>11 DEF Lines, Alone
    <2>13. QED
      BY <2>8, <2>12
  <1>6. QED
    BY <1>1, <1>4, <1>5, SubmitDoes

LEMMA ClaimLines ==
    ASSUME TypeInv, TypeInv', HistsOK, Lines, NEW p \in users, Claim(p), UNCHANGED <<store, users, calm>>
    PROVE  Lines' /\ HistsOK'
  <1> DEFINE c == call[p]
             i == Next1(p)
             m == line[i].msg
  <1>1. p \in Processes
    BY DEF TypeInv, TypeOK, TasksTypeOK
  <1>2. /\ At(p, "run") /\ Alters(p) /\ c.msg \in Messages /\ c.task \in Tasks /\ UNCHANGED <<line, failed>>
        /\ ~At(p, "turn")
    BY <1>1, ClaimDoes DEF At
  <1>3. Stored(p) /\ Evolved
    BY StillEvolves DEF Stored
  <1>4. Claimable(p) # {} =>
          /\ i \in DOMAIN line /\ line[i].task = c.task /\ m \in Messages
          /\ item[m] \in {"pending", "lapsed"}
    BY <1>1, <1>2, ClaimableFacts
  <1>5. ASSUME users = {p}, calm
        PROVE  /\ OneItem(p) /\ Claimable(p) # {} /\ m = c.msg
               /\ \A n \in Messages : item[n] # "leased" /\ (item[n] \in {"pending", "lapsed"} => n = m)
               /\ \A t \in Tasks : turn[t] = None
    <2>1. OneItem(p)
      BY <1>1, <1>5 DEF Lines
    <2>2. item[c.msg] = "pending" /\ OnLine(c.msg, c.task)
      BY <1>2, <2>1 DEF OneItem
    <2>3. PICK k \in DOMAIN line : line[k].msg = c.msg /\ line[k].task = c.task
      BY <2>2 DEF OnLine
    <2>4. k \in 1..Len(line)
      BY <2>3, ItemTypes
    <2>5. Claimable(p) # {}
      BY <2>2, <2>3, <2>4 DEF Claimable, Allowed
    <2>6. m = c.msg
      BY <1>4, <2>1, <2>5 DEF OneItem
    <2>7. QED
      BY <1>2, <2>1, <2>5, <2>6 DEF OneItem
  <1> HIDE DEF c, i, m
  <1>6. CASE Ends(p, AgentSays(c.msg, None)) /\ Claimable(p) = {} /\ UNCHANGED <<item, turn>>
    <2>1. Plain(p) /\ ~At(p, "turn")' /\ ~At(p, "run")'
      BY <1>1, <1>2, <1>6, EndsPlain
    <2>2. LineStays
      BY <1>2, <1>6 DEF LineStays, OnLine
    <2>3. HistsOK'
      BY <1>1, <1>2, <1>3, <2>1, <2>2, PlainHist, HistsStep
    <2>4. ~(users = {p} /\ calm)
      BY <1>5, <1>6
    <2>5. Lines'
      BY <1>2, <1>3, <1>6, <2>1, <2>4, LinesQuiet DEF bridgeVars
    <2>6. QED
      BY <2>3, <2>5
  <1>7. CASE /\ Ends(p, AgentSays(c.msg, None)) /\ Claimable(p) # {} /\ turn' = turn
             /\ \/ item' = [item EXCEPT ![m] = "cancelled"]
                \/ turn[c.task] \notin {None, m} /\ item' = [item EXCEPT ![m] = "pending"]
    <2>1. Plain(p) /\ ~At(p, "turn")' /\ ~At(p, "run")'
      BY <1>1, <1>2, <1>7, EndsPlain
    <2>2. PICK s \in {"cancelled", "pending"} : /\ item' = [item EXCEPT ![m] = s]
                                                /\ s = "pending" => turn[c.task] \notin {None, m}
      BY <1>7
    <2>3. \A n \in Messages : item'[n] = IF n = m THEN s ELSE item[n]
      BY <1>4, <1>7, <2>2, ItemTypes
    <2>4. LineStays
      BY <1>2, <1>4, <1>7, <2>3 DEF LineStays, OnLine
    <2>5. HistsOK'
      BY <1>1, <1>2, <1>3, <2>1, <2>4, PlainHist, HistsStep
    <2>6. TurnsOK'
      <3>1. ASSUME NEW q \in Processes, At(q, "turn")'
            PROVE  TurnOK(q)'
        <4>1. q # p /\ call'[q] = call[q] /\ At(q, "turn")
          BY <1>2, <2>1, <3>1 DEF At, Alters
        <4>2. item[call[q].work] = "leased" /\ OnLine(call[q].work, call[q].task) /\ call[q].work \in Messages
          BY <4>1 DEF Lines, TurnsOK, TurnOK, TypeInv, CallsOK, CallOK, At
        <4>3. item'[call[q].work] = "leased" /\ OnLine(call[q].work, call[q].task)'
          BY <1>4, <1>7, <2>3, <2>4, <4>1, <4>2 DEF LineStays
        <4>4. \A r \in Processes : At(r, "turn")' => r # p /\ call'[r] = call[r] /\ At(r, "turn")
          BY <1>2, <2>1 DEF At, Alters
        <4>5. QED
          BY <4>1, <4>2, <4>3, <4>4 DEF Lines, TurnsOK, TurnOK
      <3>2. QED
        BY <3>1 DEF TurnsOK, TurnOK
    <2>7. Alone => LinePrompted'
      BY <1>2, <1>3, LinePromptedStays DEF Lines
    <2>8. ASSUME users = {p}, calm
          PROVE  OneItem(p)'
      <3>1. s = "cancelled"
        BY <1>2, <1>5, <2>2, <2>8
      <3>2. \A n \in Messages : item'[n] \notin {"pending", "lapsed", "leased"}
        BY <1>5, <2>3, <2>8, <3>1
      <3>3. \A t \in Tasks : turn'[t] = None
        BY <1>5, <1>7, <2>8
      <3>4. QED
        BY <2>1, <3>2, <3>3 DEF OneItem
    <2>9. Lines'
      BY <1>1, <2>6, <2>7, <2>8 DEF Lines, Alone
    <2>10. QED
      BY <2>5, <2>9
  <1>8. CASE /\ SameJob(p) /\ call'[p].step = "turn" /\ call'[p].snap = call[p].snap
             /\ call'[p].msg = c.msg /\ call'[p].work = m
             /\ Claimable(p) # {} /\ item' = [item EXCEPT ![m] = "leased"]
             /\ turn' = [turn EXCEPT ![c.task] = m]
    <2>1. \A n \in Messages : item'[n] = IF n = m THEN "leased" ELSE item[n]
      BY <1>4, <1>8, ItemTypes
    <2>2. LineStays
      BY <1>2, <1>4, <1>8, <2>1 DEF LineStays, OnLine
    <2>3. Plain(p)
      <3>1. call[p].snap.history \in Seq(Entries)
        BY <1>1, HistTypes
      <3>2. QED
        BY <1>8, <3>1 DEF Plain, Base, SameJob
    <2>4. HistsOK'
      BY <1>1, <1>2, <1>3, <2>2, <2>3, PlainHist, HistsStep
    <2>5. /\ OnLine(call[p].work, call[p].task)' /\ call'[p].task = c.task
          /\ item'[m] = "leased" /\ m \in Messages
      <3>1. i \in DOMAIN line /\ line[i].task = c.task /\ line[i].msg = m /\ m \in Messages
        BY <1>4, <1>8 DEF m
      <3>2. line[i] \in [msg : Messages \cup {Foreign}, task : Tasks \cup {None}]
        <4> DEFINE R == [msg : Messages \cup {Foreign}, task : Tasks \cup {None}]
        <4>1. line \in Seq(R)
          BY ItemTypes
        <4> HIDE DEF R
        <4>2. line[i] \in R
          BY <3>1, <4>1
        <4>3. QED
          BY <4>2 DEF R
      <3>3. line[i] = [msg |-> m, task |-> c.task]
        BY <3>1, <3>2
      <3>4. call'[p].task = c.task /\ call'[p].work = m /\ line' = line
        BY <1>2, <1>8 DEF SameJob, c
      <3>5. OnLine(call[p].work, call[p].task)'
        BY <3>1, <3>3, <3>4 DEF OnLine
      <3>6. QED
        BY <2>1, <3>1, <3>4, <3>5
    <2>6. TurnsOK'
      <3>1. \A q \in Processes : q # p /\ At(q, "turn")' =>
               /\ call'[q] = call[q] /\ At(q, "turn") /\ call[q].work \in Messages
               /\ item[call[q].work] = "leased" /\ OnLine(call[q].work, call[q].task)
        BY <1>2 DEF Lines, TurnsOK, TurnOK, TypeInv, CallsOK, CallOK, At, Alters
      <3>2. \A q \in Processes : q # p /\ At(q, "turn")' => call'[q].work # m
        BY <1>4, <1>8, <3>1
      <3>3. TurnOK(p)'
        BY <1>8, <2>5, <3>2 DEF TurnOK
      <3>4. ASSUME NEW q \in Processes, q # p, At(q, "turn")'
            PROVE  TurnOK(q)'
        <4>1. item'[call[q].work] = "leased" /\ OnLine(call[q].work, call[q].task)'
          BY <2>1, <2>2, <3>1, <3>2, <3>4 DEF LineStays
        <4>2. ASSUME NEW r \in Processes, At(r, "turn")', call'[r].work = call'[q].work
              PROVE  r = q
          <5>1. r # p
            BY <1>8, <3>2, <3>4, <4>2
          <5>2. QED
            BY <3>1, <3>4, <4>2, <5>1 DEF Lines, TurnsOK, TurnOK
        <4>3. QED
          BY <3>1, <3>4, <4>1, <4>2 DEF TurnOK
      <3>5. QED
        BY <3>3, <3>4 DEF TurnsOK, TurnOK
    <2>7. Alone => LinePrompted'
      BY <1>2, <1>3, LinePromptedStays DEF Lines
    <2>8. ASSUME users = {p}, calm
          PROVE  OneItem(p)'
      <3>1. \A n \in Messages : item'[n] \notin {"pending", "lapsed"} /\ (item'[n] = "leased" => n = m)
        BY <1>5, <2>1, <2>8
      <3>2. \A t \in Tasks : turn'[t] # None => t = c.task
        BY <1>2, <1>5, <1>8, <2>8, ItemTypes
      <3>3. m = c.msg
        BY <1>5, <2>8
      <3>4. At(p, "turn")' /\ ~At(p, "run")'
        BY <1>8 DEF At
      <3>5. QED
        BY <1>8, <2>5, <3>1, <3>2, <3>3, <3>4 DEF OneItem
    <2>9. Lines'
      BY <1>1, <2>6, <2>7, <2>8 DEF Lines, Alone
    <2>10. QED
      BY <2>4, <2>9
  <1>9. QED
    BY <1>1, <1>6, <1>7, <1>8, ClaimDoes DEF c, i, m

LEMMA FinishLines ==
    ASSUME TypeInv, TypeInv', SoloInv, HistsOK, Lines, NEW p \in users, FinishTurn(p),
           UNCHANGED <<store, users, calm>>
    PROVE  Lines' /\ HistsOK'
  <1> DEFINE c == call[p]
             m == c.work
             t == c.task
             h == c.snap.history
  <1>1. p \in Processes
    BY DEF TypeInv, TypeOK, TasksTypeOK
  <1>2. /\ At(p, "turn") /\ Alters(p) /\ c.msg \in Messages /\ m \in Messages /\ t \in Tasks
        /\ line' = line /\ turn' = [turn EXCEPT ![t] = None]
        /\ \/ Ends(p, AgentSays(c.msg, m)) /\ item' = [item EXCEPT ![m] = "completed"]
           \/ Ends(p, AgentSays(c.msg, None)) /\ item' = [item EXCEPT ![m] = "failed"]
    BY <1>1, FinishTurnDoes
  <1>3. Stored(p) /\ Evolved
    BY StillEvolves DEF Stored
  <1>4. /\ item[m] = "leased" /\ OnLine(m, t)
        /\ \A q \in Processes : At(q, "turn") /\ call[q].work = m => q = p
    BY <1>1, <1>2 DEF Lines, TurnsOK, TurnOK
  <1>5. ~At(p, "turn")' /\ ~At(p, "run")' /\ SameJob(p)
    BY <1>2 DEF Ends, At
  <1>6. ASSUME Alone
        PROVE  \E j \in DOMAIN h : h[j] = UserSays(m)
    <2>1. c.snap = store[t]
      BY <1>2, <1>6 DEF SoloInv, SoloOK, At
    <2>2. PICK k \in DOMAIN line : line[k] = [msg |-> m, task |-> t]
      BY <1>4 DEF OnLine
    <2>3. \E j \in DOMAIN store[t].history : store[t].history[j] = UserSays(m)
      BY <1>2, <1>6, <2>2 DEF Lines, LinePrompted
    <2>4. QED
      BY <2>1, <2>3
  <1>7. ASSUME Alone, calm
        PROVE  c.msg = m /\ OneItem(p) /\ users = {p}
    BY <1>1, <1>2, <1>7 DEF Lines, OneItem, Alone
  <1>8. h \in Seq(Entries) /\ HistOK(h, t)
    BY <1>1, HistTypes DEF HistsOK
  <1>9. /\ Ends(p, AgentSays(c.msg, m)) => call'[p].snap.history = Append(h, AgentSays(c.msg, m))
        /\ call'[p].task = t
    BY <1>5 DEF Ends, SameJob
  <1> HIDE DEF c, m, t, h
  <1>10. PICK s \in {"completed", "failed"} : item' = [item EXCEPT ![m] = s]
    BY <1>2
  <1>11. \A n \in Messages : item'[n] = IF n = m THEN s ELSE item[n]
    BY <1>2, <1>10, ItemTypes
  <1>12. LineStays
    BY <1>2, <1>4, <1>11 DEF LineStays, OnLine
  <1>13. HistOK(call[p].snap.history, call[p].task)'
    <2>1. CASE Ends(p, AgentSays(c.msg, m)) /\ item' = [item EXCEPT ![m] = "completed"]
      <3>1. item[m] # "completed" /\ item'[m] = "completed"
        BY <1>2, <1>4, <2>1, ItemTypes
      <3>2. /\ Alone => \E j \in DOMAIN h : h[j] = UserSays(m)
            /\ Alone /\ calm => c.msg = m
        BY <1>6, <1>7
      <3>3. call'[p].snap.history = Append(h, AgentSays(c.msg, m)) /\ call'[p].task = t
        BY <1>9, <2>1
      <3>4. c.msg \in Messages /\ m \in Messages /\ OnLine(m, t)
        BY <1>2, <1>4
      <3>5. QED
        BY <1>8, <1>12, <3>1, <3>2, <3>3, <3>4, AnswerHist
    <2>2. CASE Ends(p, AgentSays(c.msg, None))
      <3>1. Plain(p)
        BY <1>1, <1>2, <2>2, EndsPlain
      <3>2. QED
        BY <1>1, <1>12, <3>1, PlainHist
    <2>3. QED
      BY <1>2, <2>1, <2>2
  <1>14. HistsOK'
    BY <1>1, <1>2, <1>3, <1>12, <1>13, HistsStep
  <1>15. TurnsOK'
    <2>1. ASSUME NEW q \in Processes, At(q, "turn")'
          PROVE  TurnOK(q)'
      <3>1. q # p /\ call'[q] = call[q] /\ At(q, "turn")
        BY <1>2, <1>5, <2>1 DEF At, Alters
      <3>2. item[call[q].work] = "leased" /\ OnLine(call[q].work, call[q].task) /\ call[q].work \in Messages
        BY <3>1 DEF Lines, TurnsOK, TurnOK, TypeInv, CallsOK, CallOK, At
      <3>3. item'[call[q].work] = "leased" /\ OnLine(call[q].work, call[q].task)'
        BY <1>4, <1>11, <1>12, <3>1, <3>2 DEF LineStays
      <3>4. \A r \in Processes : At(r, "turn")' => r # p /\ call'[r] = call[r] /\ At(r, "turn")
        BY <1>2, <1>5 DEF At, Alters
      <3>5. QED
        BY <3>1, <3>2, <3>3, <3>4 DEF Lines, TurnsOK, TurnOK
    <2>2. QED
      BY <2>1 DEF TurnsOK, TurnOK
  <1>16. Alone => LinePrompted'
    BY <1>2, <1>3, LinePromptedStays DEF Lines
  <1>17. ASSUME users = {p}, calm
         PROVE  OneItem(p)'
    <2>1. OneItem(p) /\ ~At(p, "run")
      BY <1>1, <1>2, <1>17 DEF Lines, At
    <2>2. \A n \in Messages : item[n] \notin {"pending", "lapsed"} /\ (item[n] = "leased" => n = m)
      BY <2>1 DEF OneItem, m, c
    <2>3. \A n \in Messages : item'[n] \notin {"pending", "lapsed", "leased"}
      BY <1>11, <2>2
    <2>4. \A k \in Tasks : turn'[k] = None
      <3>1. \A k \in Tasks : turn[k] # None => k = t
        BY <2>1 DEF OneItem, t, c
      <3>2. QED
        BY <1>2, <3>1, ItemTypes
    <2>5. QED
      BY <1>5, <2>3, <2>4 DEF OneItem
  <1>18. Lines'
    BY <1>1, <1>15, <1>16, <1>17 DEF Lines, Alone
  <1>19. QED
    BY <1>14, <1>18

LEMMA BridgeStepHolds ==
    ASSUME TypeInv, TypeInv', SoloInv, BridgeInv, [Next]_vars
    PROVE  BridgeInv'
  <1>1. UNCHANGED <<users, calm, scene>> /\ TypeOK
    BY DEF Next, vars, TypeInv
  <1>2. CASE scene # "bridge"
    BY <1>1, <1>2 DEF BridgeInv
  <1>3. CASE scene = "bridge"
    <2>1. HistsOK /\ Lines
      BY <1>3 DEF BridgeInv, Lines
    <2>2. SUFFICES HistsOK' /\ Lines'
      BY DEF BridgeInv, Lines
    <2>3. Alone => Evolved
      BY SoloStep
    <2>4. ASSUME NEW p \in users, Alters(p), Plain(p), Stored(p), ~At(p, "turn")', ~At(p, "run")',
                 users = {p} /\ calm => ~At(p, "turn") /\ ~At(p, "run"), UNCHANGED bridgeVars
          PROVE  HistsOK' /\ Lines'
      <3>1. LineStays /\ p \in Processes
        BY <1>1, <2>4 DEF LineStays, OnLine, bridgeVars, TypeOK, TasksTypeOK
      <3>2. HistsOK'
        BY <1>1, <2>1, <2>4, <3>1, PlainHist, HistsStep
      <3>3. Lines'
        BY <1>1, <2>1, <2>3, <2>4, LinesQuiet
      <3>4. QED
        BY <3>2, <3>3
    <2>5. ASSUME NEW p \in users, RequestStep(p) \/ WriteStep(p) \/ ReadStep(p), UNCHANGED bridgeVars
          PROVE  HistsOK' /\ Lines'
      BY <1>3, <2>4, <2>5, RequestHists, WriteHists, ReadHists
    <2>6. ASSUME NEW p \in users, RunStep(p)
          PROVE  HistsOK' /\ Lines'
      BY <1>1, <2>1, <2>6, SubmitLines, ClaimLines, FinishLines DEF RunStep
    <2>7. ASSUME NEW m \in Messages, Lapse(m), UNCHANGED taskVars
          PROVE  HistsOK' /\ Lines'
      <3>1. Lines' /\ LineStays
        BY <1>1, <2>1, <2>7, LapseLines
      <3>2. UNCHANGED <<store, call>>
        BY <2>7 DEF taskVars
      <3>3. ASSUME NEW t \in Tasks
            PROVE  HistOK(store[t].history, t)'
        BY <1>1, <2>1, <3>1, <3>2, HistTypes, HistStays DEF HistsOK
      <3>4. ASSUME NEW q \in Processes
            PROVE  HistOK(call[q].snap.history, call[q].task)'
        BY <1>1, <2>1, <3>1, <3>2, HistTypes, HistStays DEF HistsOK
      <3>5. QED
        BY <3>1, <3>3, <3>4 DEF HistsOK
    <2>8. CASE Service
      BY <1>1, <2>5, <2>6, <2>7, <2>8, ServiceSteps
    <2>9. CASE UNCHANGED <<taskVars, bridgeVars>>
      <3>1. UNCHANGED <<users, calm, store, call, line, item, turn, failed>>
        BY <1>1, <2>9 DEF taskVars, bridgeVars
      <3>2. HistsOK'
        BY <2>1, <3>1 DEF HistsOK, HistOK, Earned, OnLine, Alone
      <3>3. Lines'
        BY <2>1, <3>1 DEF Lines, TurnsOK, TurnOK, At, OnLine, Alone, LinePrompted, OneItem
      <3>4. QED
        BY <3>2, <3>3
    <2>10. QED
      BY <1>3, <2>8, <2>9 DEF Next, vars
  <1>4. QED
    BY <1>2, <1>3

LEMMA BridgeInit ==
    ASSUME Init
    PROVE  BridgeInv
  <1>1. /\ store = [t \in Tasks |-> NoTask] /\ call = [p \in Processes |-> NoCall]
        /\ line = <<[msg |-> Foreign, task |-> None]>>
        /\ item = [m \in Messages \cup {Foreign} |-> IF m = Foreign THEN "pending" ELSE "absent"]
        /\ turn = [t \in Tasks |-> None]
    BY DEF Init, InitTasks, InitBridge
  <1>2. Foreign \notin Messages /\ None \notin Tasks
    BY A2AAssumption, BridgeAssumption DEF Messages, Tasks
  <1>3. \A t : HistOK(<<>>, t)
    BY EmptyHist
  <1>4. HistsOK
    BY <1>1, <1>3 DEF HistsOK, NoTask, NoCall
  <1>5. \A p \in Processes : call[p].step = "idle"
    BY <1>1 DEF NoCall
  <1>6. TurnsOK
    BY <1>5 DEF TurnsOK, TurnOK, At
  <1>7. LinePrompted
    <2> DEFINE e == [msg |-> Foreign, task |-> None]
    <2>1. e.task = None
      OBVIOUS
    <2> HIDE DEF e
    <2>2. line = <<e>> => \A i \in DOMAIN line : line[i].task = None
      BY <2>1
    <2>3. line = <<e>>
      BY <1>1 DEF e
    <2>4. QED
      BY <1>2, <2>2, <2>3 DEF LinePrompted
  <1>8. \A p \in Processes : OneItem(p)
    BY <1>1, <1>2, <1>5 DEF OneItem, At
  <1>9. QED
    BY <1>4, <1>6, <1>7, <1>8 DEF BridgeInv

LEMMA BridgeHolds == Spec => []BridgeInv
  <1>1. Init => BridgeInv
    BY BridgeInit
  <1>2. TypeInv /\ TypeInv' /\ SoloInv /\ BridgeInv /\ [Next]_vars => BridgeInv'
    BY BridgeStepHolds
  <1>3. QED
    BY <1>1, <1>2, TypesHold, SoloHolds, PTL DEF Spec

\* The bridge's replies: an answer is given once, and comes from an item of
\* the task itself; alone, from a message that stands before it; and when no
\* process dies, from the very message replied to.
THEOREM RepliesAnswerTheirMessages == Spec => []ReplyAnswersItsMessage
  <1>1. ASSUME TypeInv, BridgeInv, scene = "bridge", NEW t \in Tasks
        PROVE  LET h == store[t].history IN
               /\ \A i, j \in Replies(t) : h[i].answer = h[j].answer => i = j
               /\ \A i \in Replies(t) : [msg |-> h[i].answer, task |-> t] \in Range(line)
               /\ Alone => \A i \in Replies(t) : \E j \in 1..(i - 1) : h[j] = UserSays(h[i].answer)
               /\ Alone /\ calm => \A i \in Replies(t) : h[i].answer = h[i].msg
    <2> DEFINE h == store[t].history
    <2>1. h \in Seq(Entries) /\ HistOK(h, t)
      BY <1>1, HistTypes DEF BridgeInv, HistsOK
    <2>2. Replies(t) = Answers(h)
      BY <2>1 DEF Replies, Answers
    <2> HIDE DEF h
    <2>3. \A i \in Answers(h) : [msg |-> h[i].answer, task |-> t] \in Range(line)
      BY <2>1 DEF HistOK, Earned, OnLine, Range
    <2>4. QED
      BY <2>1, <2>2, <2>3 DEF HistOK, Earned, Prompted, OwnAnswers, h
  <1>2. TypeInv /\ BridgeInv => ReplyAnswersItsMessage
    BY <1>1 DEF ReplyAnswersItsMessage
  <1>3. QED
    BY <1>2, TypesHold, BridgeHolds, PTL

-----------------------------------------------------------------------------
(* The pages *)

\* The first k elements of an increasing list are k elements.
LEMMA FirstCount ==
    ASSUME NEW S \in SUBSET Nat, NEW s \in Seq(S), \A k, l \in DOMAIN s : k < l => s[k] < s[l]
    PROVE  \A k \in 0..Len(s) :
             LET first == {s[j] : j \in 1..k} IN IsFiniteSet(first) /\ Cardinality(first) = k
  <1> DEFINE First(k) == {s[j] : j \in 1..k}
             P == {k \in Nat : k <= Len(s) => IsFiniteSet(First(k)) /\ Cardinality(First(k)) = k}
  <1>1. PICK n \in Nat : n = Len(s)
    OBVIOUS
  <1>2. DOMAIN s = 1..n /\ \A k \in 1..n : s[k] \in Nat
    <2>1. DOMAIN s = 1..Len(s) /\ \A k \in 1..Len(s) : s[k] \in S
      OBVIOUS
    <2>2. QED
      BY <1>1, <2>1
  <1> HIDE DEF P
  <1>a. \A k \in Nat : k \in P <=> (k <= n => IsFiniteSet(First(k)) /\ Cardinality(First(k)) = k)
    <2> HIDE DEF First
    <2>1. QED
      BY <1>1 DEF P
  <1>3. 0 \in P
    <2>1. First(0) = {}
      OBVIOUS
    <2> HIDE DEF First
    <2>2. IsFiniteSet(First(0)) /\ Cardinality(First(0)) = 0
      BY <2>1, FS_EmptySet
    <2>3. QED
      BY <1>a, <2>2
  <1>4. ASSUME NEW k \in Nat, k \in P
        PROVE  k + 1 \in P
    <2> SUFFICES ASSUME k + 1 <= n
                 PROVE  IsFiniteSet(First(k + 1)) /\ Cardinality(First(k + 1)) = k + 1
      <3> HIDE DEF First
      <3>1. QED
        BY <1>a
    <2>1. IsFiniteSet(First(k)) /\ Cardinality(First(k)) = k
      <3> HIDE DEF First
      <3>1. QED
        BY <1>a, <1>4
    <2>2. First(k + 1) = First(k) \cup {s[k + 1]}
      <3>1. 1..(k + 1) = 1..k \cup {k + 1}
        OBVIOUS
      <3>2. QED
        BY <3>1
    <2>3. s[k + 1] \notin First(k)
      <3> SUFFICES ASSUME NEW j \in 1..k, s[j] = s[k + 1]
                   PROVE  FALSE
        OBVIOUS
      <3>1. j \in 1..n /\ k + 1 \in 1..n /\ j < k + 1
        OBVIOUS
      <3>2. s[j] < s[k + 1]
        BY <1>2, <3>1
      <3>3. QED
        BY <1>2, <3>1, <3>2
    <2> HIDE DEF First
    <2>4. /\ IsFiniteSet(First(k) \cup {s[k + 1]})
          /\ Cardinality(First(k) \cup {s[k + 1]}) = Cardinality(First(k)) + 1
      BY <2>1, <2>3, FS_AddElement
    <2>5. QED
      BY <2>1, <2>2, <2>4
  <1>5. P = Nat
    <2>1. P \in SUBSET Nat
      BY DEF P
    <2>2. QED
      BY <1>3, <1>4, <2>1, NatSetInduction
  <1>6. \A k \in 0..n : IsFiniteSet(First(k)) /\ Cardinality(First(k)) = k
    <2> HIDE DEF First
    <2>1. QED
      BY <1>a, <1>5
  <1>7. QED
    BY <1>1, <1>6

\* The place of a task in the list counts the tasks up to it.
LEMMA PlaceInList ==
    ASSUME TypeInv, NEW i \in 1..Len(Listed(None))
    PROVE  Listed(None)[i] \in Tasks /\ Cardinality(UpTo(Listed(None)[i])) = i
  <1> DEFINE list == Listed(None)
             key == [t \in Tasks |-> t]
             S == {t \in Existing : None = None \/ store[t].state = None}
  <1>1. list \in Seq(Tasks) /\ Sorts(list, S, key)
    BY ListedTypes
  <1>2. S = Existing
    OBVIOUS
  <1>3. PICK n \in Nat : n = Len(list)
    BY <1>1
  <1> HIDE DEF list, S
  <1>4. DOMAIN list = 1..n /\ \A k \in 1..n : list[k] \in Tasks
    BY <1>1, <1>3
  <1>5. Tasks \subseteq Nat
    BY DEF Tasks
  <1>6. Range(list) = Existing /\ \A k, l \in DOMAIN list : k < l => list[k] < list[l]
    BY <1>1, <1>2, <1>4 DEF Sorts
  <1>7. i \in 1..n
    BY <1>3 DEF list
  <1>8. UpTo(list[i]) = {list[j] : j \in 1..i}
    <2>1. ASSUME NEW j \in 1..i
          PROVE  list[j] \in UpTo(list[i])
      <3>1. j \in 1..n /\ (j = i \/ j < i)
        BY <1>7
      <3>2. list[j] \in Existing
        BY <1>4, <1>6, <3>1 DEF Range
      <3>3. list[j] <= list[i]
        <4>1. list[j] \in Nat /\ list[i] \in Nat
          BY <1>4, <1>5, <1>7, <3>1
        <4>2. j < i => list[j] < list[i]
          BY <1>4, <1>6, <1>7, <3>1
        <4>3. QED
          BY <3>1, <4>1, <4>2
      <3>4. QED
        BY <3>2, <3>3 DEF UpTo
    <2>2. ASSUME NEW u \in UpTo(list[i])
          PROVE  \E j \in 1..i : u = list[j]
      <3>1. u \in Existing /\ u <= list[i]
        BY DEF UpTo
      <3>2. PICK j \in 1..n : list[j] = u
        BY <1>4, <1>6, <3>1 DEF Range
      <3>3. list[j] \in Nat /\ list[i] \in Nat
        BY <1>4, <1>5, <1>7
      <3>4. ~(i < j)
        <4> SUFFICES ASSUME i < j
                     PROVE  FALSE
          OBVIOUS
        <4>1. list[i] < list[j]
          BY <1>4, <1>6, <1>7
        <4>2. QED
          BY <3>1, <3>2, <3>3, <4>1
      <3>5. j \in 1..i
        BY <1>7, <3>4
      <3>6. QED
        BY <3>2, <3>5
    <2>3. QED
      BY <2>1, <2>2
  <1>9. list \in Seq(Tasks) /\ Tasks \in SUBSET Nat /\ i \in 0..Len(list)
    BY <1>1, <1>3, <1>5, <1>7
  <1>10. Cardinality({list[j] : j \in 1..i}) = i
    BY <1>6, <1>9, FirstCount
  <1>11. QED
    BY <1>4, <1>7, <1>8, <1>10 DEF list

\* No task ever goes away.
LEMMA ExistingGrows ==
    ASSUME TypeInv, Service
    PROVE  Existing \subseteq Existing'
  <1>1. TypeOK /\ TasksTypeOK /\ CallsOK /\ store \in [Tasks -> TaskRecords] /\ ~Begun(NoTask)
    BY DEF TypeInv, TypeOK, TasksTypeOK, Begun, NoTask
  <1>2. ASSUME UNCHANGED store
        PROVE  Existing \subseteq Existing'
    BY <1>2 DEF Existing
  <1>3. ASSUME NEW t \in Tasks, NEW snap, Begun(snap), store' = [store EXCEPT ![t] = snap]
        PROVE  Existing \subseteq Existing'
    <2>1. snap # NoTask
      BY <1>1, <1>3
    <2>2. \A u \in Tasks : store'[u] = IF u = t THEN snap ELSE store[u]
      BY <1>1, <1>3
    <2>3. QED
      BY <2>1, <2>2 DEF Existing
  <1>4. ASSUME NEW p \in users, RequestStep(p)
        PROVE  Existing \subseteq Existing'
    <2>1. ASSUME NEW verb \in Sends, NEW t \in Tasks, SendNew(p, verb, t)
          PROVE  Existing \subseteq Existing'
      <3>1. store[t] = NoTask /\ store' = [store EXCEPT ![t] = Submitted(NoTask, sent + 1)]
        BY <2>1 DEF SendNew, Existing
      <3>2. \A u \in Tasks \ {t} : store'[u] = store[u]
        BY <1>1, <3>1
      <3>3. QED
        BY <2>1, <3>2 DEF SendNew, Existing
    <2>2. QED
      BY <1>2, <1>4, <2>1 DEF RequestStep, SendMore, Crash
  <1>5. ASSUME NEW p \in users, WriteStep(p)
        PROVE  Existing \subseteq Existing'
    <2>1. /\ call[p].step \in {"put", "working", "final"}
          /\ store' = [store EXCEPT ![call[p].task] = call[p].snap]
      BY <1>5 DEF WriteStep, PutMore, PutWorking, PutFinal, Put, At
    <2>2. p \in Processes /\ call[p].task \in Tasks
      BY <1>1, <1>5, <2>1, BusyTask DEF TypeInv, TasksTypeOK
    <2>3. Begun(call[p].snap)
      BY <1>1, <2>1, <2>2 DEF CallsOK, CallOK, Writing
    <2>4. QED
      BY <1>3, <2>1, <2>2, <2>3
  <1>6. ASSUME NEW p \in users, ReadStep(p) \/ RunStep(p)
        PROVE  Existing \subseteq Existing'
    BY <1>2, <1>6 DEF ReadStep, RunStep, Quiet, InsertRow, Check, PlainHandler
  <1>7. QED
    BY <1>1, <1>2, <1>4, <1>5, <1>6, ServiceSteps DEF taskVars

LEMMA RangeOfConcat ==
    ASSUME NEW S, NEW s \in Seq(S), NEW r \in Seq(S)
    PROVE  Range(s \o r) = Range(s) \cup Range(r)
  <1> DEFINE t == s \o r
  <1>1. PICK m \in Nat, n \in Nat : m = Len(s) /\ n = Len(r)
    OBVIOUS
  <1>2. /\ DOMAIN s = 1..m /\ DOMAIN r = 1..n /\ DOMAIN t = 1..(m + n)
        /\ \A i \in 1..m : t[i] = s[i]
        /\ \A i \in (m + 1)..(m + n) : t[i] = r[i - m]
    <2>1. t \in Seq(S) /\ Len(t) = m + n
      BY <1>1
    <2>2. QED
      BY <1>1, <2>1, ConcatProperties
  <1> HIDE DEF t
  <1>3. ASSUME NEW i \in 1..(m + n)
        PROVE  t[i] \in Range(s) \cup Range(r)
    <2>1. CASE i \in 1..m
      BY <1>2, <2>1 DEF Range
    <2>2. CASE i \notin 1..m
      <3>1. i \in (m + 1)..(m + n) /\ i - m \in 1..n
        BY <2>2
      <3>2. QED
        BY <1>2, <3>1 DEF Range
    <2>3. QED
      BY <2>1, <2>2
  <1>4. ASSUME NEW i \in 1..m
        PROVE  s[i] \in Range(t)
    <2>1. i \in 1..(m + n)
      OBVIOUS
    <2>2. QED
      BY <1>2, <2>1 DEF Range
  <1>5. ASSUME NEW i \in 1..n
        PROVE  r[i] \in Range(t)
    <2>1. m + i \in 1..(m + n) /\ m + i \in (m + 1)..(m + n) /\ (m + i) - m = i
      OBVIOUS
    <2>2. t[m + i] = r[i]
      BY <1>2, <2>1
    <2>3. QED
      BY <1>2, <2>1, <2>2 DEF Range
  <1>6. Range(t) = Range(s) \cup Range(r)
    BY <1>2, <1>3, <1>4, <1>5 DEF Range
  <1>7. QED
    BY <1>6 DEF t

LEMMA PageStep ==
    ASSUME TypeInv, PagesInv, NextPage
    PROVE  pager'.at \in {"reading", "done"} /\ pager'.filter = None =>
             /\ pager'.start \subseteq Existing
             /\ \A t \in pager'.start \ Range(pager'.seen) :
                  pager'.at = "reading" /\ pager'.offset < Cardinality(UpTo(t))
  <1> DEFINE list == Listed(pager.filter)
             o == pager.offset
             end == IF o + PageSize > Len(list) THEN Len(list) ELSE o + PageSize
             page == SubSeq(list, o + 1, end)
             at == IF end < Len(list) THEN "reading" ELSE "done"
             seen == pager.seen \o page
  <1>1. pager \in PagerTypes /\ o \in Nat /\ PageSize \in Nat \ {0}
    BY ClientAssumption DEF TypeInv, TypeOK, PagerTypes
  <1>2. pager.at = "reading"
    BY DEF NextPage
  <1>3. CASE o > Len(list)
    <2>1. pager' = [pager EXCEPT !.at = "refused"]
      BY <1>3 DEF NextPage
    <2>2. QED
      BY <1>1, <2>1 DEF PagerTypes
  <1>4. CASE ~(o > Len(list)) /\ pager.filter # None
    <2>1. pager' = [pager EXCEPT !.seen = seen, !.offset = end, !.at = at]
      BY <1>1, <1>4 DEF NextPage, PagerTypes
    <2> HIDE DEF seen, end, at
    <2>2. QED
      BY <1>1, <1>4, <2>1 DEF PagerTypes
  <1>5. CASE ~(o > Len(list)) /\ pager.filter = None
    <2>1. pager' = [pager EXCEPT !.seen = seen, !.offset = end, !.at = at]
      BY <1>1, <1>5 DEF NextPage, PagerTypes
    <2>2. list \in Seq(Tasks) /\ Sorts(list, Existing, [t \in Tasks |-> t])
      BY <1>5, ListedTypes
    <2>3. PICK n \in Nat : n = Len(list)
      BY <2>2
    <2>4. /\ pager.start \subseteq Existing
          /\ \A t \in pager.start \ Range(pager.seen) : o < Cardinality(UpTo(t))
      BY <1>2, <1>5 DEF PagesInv, Behind
    <2>5. \A i \in 1..n : list[i] \in Tasks /\ Cardinality(UpTo(list[i])) = i
      BY <1>5, <2>3, PlaceInList
    <2> HIDE DEF list, o
    <2>6. end \in Nat /\ o <= end /\ end <= n /\ (end < n => at = "reading")
      BY <1>1, <1>5, <2>3
    <2>7. \A i \in (o + 1)..end : list[i] \in Range(page)
      <3>1. \A i \in (o + 1)..end : list[i] \in Tasks
        BY <1>1, <2>5, <2>6
      <3> HIDE DEF end
      <3>2. /\ page \in Seq(Tasks)
            /\ Len(page) = IF o + 1 <= end THEN end - (o + 1) + 1 ELSE 0
            /\ \A i \in 1..(end - (o + 1) + 1) : page[i] = list[o + 1 + i - 1]
        BY <1>1, <2>6, <3>1, SubSeqProperties
      <3> HIDE DEF page
      <3>3. ASSUME NEW i \in (o + 1)..end
            PROVE  list[i] \in Range(page)
        <4>1. i - o \in 1..(end - (o + 1) + 1) /\ o + 1 + (i - o) - 1 = i /\ Len(page) = end - o
          BY <1>1, <2>6, <3>2
        <4>2. page[i - o] = list[i] /\ i - o \in DOMAIN page
          BY <1>1, <2>6, <3>2, <4>1
        <4>3. QED
          BY <4>2 DEF Range
      <3>4. QED
        BY <3>3
    <2>8. Range(seen) = Range(pager.seen) \cup Range(page)
      <3>1. pager.seen \in Seq(Tasks)
        BY <1>1 DEF PagerTypes
      <3>2. page \in Seq(Tasks)
        <4>1. \A i \in (o + 1)..end : list[i] \in Tasks
          BY <1>1, <2>5, <2>6
        <4> HIDE DEF end
        <4>2. QED
          BY <1>1, <2>6, <4>1, SubSeqProperties
      <3> HIDE DEF page
      <3>3. QED
        BY <3>1, <3>2, RangeOfConcat DEF seen
    <2>9. ASSUME NEW t \in pager.start \ Range(seen)
          PROVE  at = "reading" /\ end < Cardinality(UpTo(t))
      <3>1. PICK i \in 1..n : list[i] = t
        <4>1. t \in Range(list) /\ DOMAIN list = 1..n
          BY <2>2, <2>3, <2>4 DEF Sorts
        <4>2. QED
          BY <4>1 DEF Range
      <3>2. Cardinality(UpTo(t)) = i
        BY <2>5, <3>1
      <3>3. t \in pager.start \ Range(pager.seen) /\ t \notin Range(page)
        BY <2>8
      <3>4. o < i
        BY <2>4, <3>2, <3>3
      <3> HIDE DEF page, seen, end, at
      <3>5. ~(i <= end)
        <4> SUFFICES ASSUME i <= end
                     PROVE  FALSE
          OBVIOUS
        <4>1. i \in (o + 1)..end
          BY <1>1, <2>6, <3>4
        <4>2. QED
          BY <2>7, <3>1, <3>3, <4>1
      <3>6. end < i /\ end < n
        BY <2>6, <3>5
      <3>7. QED
        BY <2>6, <3>2, <3>6
    <2> HIDE DEF seen, end, at
    <2>10. pager'.seen = seen /\ pager'.offset = end /\ pager'.at = at /\ pager'.start = pager.start
      BY <1>1, <2>1 DEF PagerTypes
    <2>11. QED
      BY <2>4, <2>9, <2>10
  <1>6. QED
    BY <1>3, <1>4, <1>5

\* A task's place only moves back as others are created.
LEMMA StaysBehind ==
    ASSUME TypeInv, PagesInv, pager' = pager, scene' = scene, Existing \subseteq Existing'
    PROVE  PagesInv'
  <1>1. CASE pager.at \in {"reading", "done"} /\ pager.filter = None
    <2>1. pager.start \subseteq Existing'
      BY <1>1 DEF PagesInv
    <2>2. ASSUME NEW t \in pager.start \ Range(pager.seen)
          PROVE  pager.at = "reading" /\ pager.offset < Cardinality(UpTo(t)')
      <3> DEFINE U == UpTo(t)
                 V == UpTo(t)'
      <3>1. pager.at = "reading" /\ pager.offset < Cardinality(U) /\ pager.offset \in Nat
        BY <1>1 DEF PagesInv, Behind, TypeInv, TypeOK
      <3>2. IsFiniteSet(Tasks)
        BY A2AAssumption, FS_Interval DEF Tasks
      <3>3. V \in SUBSET Tasks /\ U \in SUBSET V
        BY DEF UpTo, Existing
      <3> HIDE DEF U, V
      <3>4. IsFiniteSet(V) /\ IsFiniteSet(U) /\ Cardinality(U) <= Cardinality(V)
        <4>1. IsFiniteSet(V)
          BY <3>2, <3>3, FS_Subset
        <4>2. QED
          BY <3>3, <4>1, FS_Subset
      <3>5. Cardinality(U) \in Nat /\ Cardinality(V) \in Nat
        BY <3>4, FS_CardinalityType
      <3>6. QED
        BY <3>1, <3>4, <3>5 DEF U, V
    <2>3. QED
      BY <1>1, <2>1, <2>2 DEF PagesInv, Behind
  <1>2. CASE ~(pager.at \in {"reading", "done"} /\ pager.filter = None)
    BY <1>2 DEF PagesInv
  <1>3. QED
    BY <1>1, <1>2

LEMMA PagesStep ==
    ASSUME TypeInv, PagesInv, [Next]_vars
    PROVE  PagesInv'
  <1>1. scene' = scene
    BY DEF Next, vars
  <1>2. CASE Service /\ UNCHANGED pager
    BY <1>1, <1>2, ExistingGrows, StaysBehind
  <1>3. CASE UNCHANGED <<taskVars, pager>>
    BY <1>1, <1>3, StaysBehind DEF taskVars, Existing
  <1>4. ASSUME scene = "pages", UNCHANGED taskVars, NEW f \in Filters, StartPaging(f)
        PROVE  PagesInv'
    <2>1. pager' = [at |-> "reading", filter |-> f, offset |-> 0, seen |-> <<>>, start |-> Existing]
      BY <1>4 DEF StartPaging, NoPager
    <2>2. Existing' = Existing
      BY <1>4 DEF taskVars, Existing
    <2>3. ASSUME NEW t \in Existing
          PROVE  0 < Cardinality(UpTo(t)')
      <3> DEFINE U == UpTo(t)'
      <3>1. t \in U /\ U \in SUBSET Tasks
        BY <2>2 DEF UpTo, Existing, Tasks
      <3> HIDE DEF U
      <3>2. IsFiniteSet(U)
        <4>1. IsFiniteSet(Tasks)
          BY A2AAssumption, FS_Interval DEF Tasks
        <4>2. QED
          BY <3>1, <4>1, FS_Subset
      <3>3. Cardinality(U) # 0 /\ Cardinality(U) \in Nat
        BY <3>1, <3>2, FS_EmptySet, FS_CardinalityType
      <3>4. QED
        BY <3>3 DEF U
    <2>4. QED
      BY <1>1, <1>4, <2>1, <2>2, <2>3 DEF PagesInv, Behind
  <1>5. ASSUME scene = "pages", UNCHANGED taskVars, NextPage
        PROVE  PagesInv'
    <2>1. UNCHANGED Existing /\ \A t : UpTo(t)' = UpTo(t)
      BY <1>5 DEF taskVars, Existing, UpTo
    <2>2. QED
      BY <1>1, <1>5, <2>1, PageStep DEF PagesInv, Behind
  <1>6. QED
    BY <1>2, <1>3, <1>4, <1>5 DEF Next, vars

LEMMA PagesHold == Spec => []PagesInv
  <1>1. Init => PagesInv
    BY DEF Init, PagesInv, NoPager
  <1>2. TypeInv /\ PagesInv /\ [Next]_vars => PagesInv'
    BY PagesStep
  <1>3. QED
    BY <1>1, <1>2, TypesHold, PTL DEF Spec

\* A client that reads ListTasks to its last page without a filter has seen
\* every task that existed when it began.
THEOREM PagesAreComplete == Spec => []PagesMissNothing
  <1>1. PagesInv => PagesMissNothing
    BY DEF PagesInv, Behind, PagesMissNothing
  <1>2. QED
    BY <1>1, PagesHold, PTL

-----------------------------------------------------------------------------
(* The subscribers: what one receives *)

LEMMA RangeOfAppend ==
    ASSUME NEW S, NEW s \in Seq(S), NEW x \in S
    PROVE  Range(Append(s, x)) = Range(s) \cup {x}
  <1>1. DOMAIN Append(s, x) = 1..(Len(s) + 1) /\ DOMAIN s = 1..Len(s) /\ Len(s) \in Nat
    OBVIOUS
  <1>2. \A i \in 1..Len(s) : Append(s, x)[i] = s[i]
    OBVIOUS
  <1>3. Append(s, x)[Len(s) + 1] = x
    OBVIOUS
  <1>4. ASSUME NEW y \in Range(Append(s, x)) PROVE y \in Range(s) \cup {x}
    <2>1. PICK i \in 1..(Len(s) + 1) : Append(s, x)[i] = y
      BY <1>1, <1>4 DEF Range
    <2>2. CASE i = Len(s) + 1
      BY <1>3, <2>1, <2>2
    <2>3. CASE i # Len(s) + 1
      <3>1. i \in DOMAIN s
        BY <1>1, <2>1, <2>3
      <3>2. s[i] = y
        BY <1>1, <1>2, <2>1, <3>1
      <3>3. QED
        BY <3>1, <3>2 DEF Range
    <2>4. QED
      BY <2>2, <2>3
  <1>5. ASSUME NEW y \in Range(s) PROVE y \in Range(Append(s, x))
    <2>1. PICK i \in DOMAIN s : s[i] = y
      BY <1>5 DEF Range
    <2>2. i \in DOMAIN Append(s, x) /\ Append(s, x)[i] = y
      BY <1>1, <1>2, <2>1
    <2>3. QED
      BY <2>2 DEF Range
  <1>6. x \in Range(Append(s, x))
    <2>1. Len(s) + 1 \in DOMAIN Append(s, x)
      BY <1>1
    <2>2. QED
      BY <1>3, <2>1 DEF Range
  <1>7. QED
    BY <1>4, <1>5, <1>6

LEMMA RangeOfTail ==
    ASSUME NEW S, NEW s \in Seq(S), s # <<>>
    PROVE  Range(s) = Range(Tail(s)) \cup {Head(s)}
  <1>1. PICK n \in Nat : n + 1 = Len(s) /\ DOMAIN s = 1..(n + 1) /\ DOMAIN Tail(s) = 1..n
    <2>1. PICK m \in Nat : m = Len(s)
      OBVIOUS
    <2>2. m # 0 /\ DOMAIN s = 1..m
      BY <2>1
    <2>3. DOMAIN Tail(s) = 1..(m - 1)
      BY <2>1
    <2>4. m - 1 \in Nat /\ (m - 1) + 1 = m
      BY <2>2
    <2>5. QED
      BY <2>1, <2>2, <2>3, <2>4
  <1>2. \A i \in 1..n : Tail(s)[i] = s[i + 1]
    BY <1>1
  <1>3. Head(s) = s[1]
    OBVIOUS
  <1>4. ASSUME NEW y \in Range(s) PROVE y \in Range(Tail(s)) \cup {Head(s)}
    <2>1. PICK i \in 1..(n + 1) : s[i] = y
      BY <1>1, <1>4 DEF Range
    <2>2. CASE i = 1
      BY <1>3, <2>1, <2>2
    <2>3. CASE i # 1
      <3>1. i - 1 \in 1..n /\ (i - 1) + 1 = i
        BY <2>3
      <3>2. Tail(s)[i - 1] = y
        BY <1>2, <2>1, <3>1
      <3>3. QED
        BY <1>1, <3>1, <3>2 DEF Range
    <2>4. QED
      BY <2>2, <2>3
  <1>5. ASSUME NEW y \in Range(Tail(s)) PROVE y \in Range(s)
    <2>1. PICK i \in 1..n : Tail(s)[i] = y
      BY <1>1, <1>5 DEF Range
    <2>2. i + 1 \in 1..(n + 1)
      OBVIOUS
    <2>3. s[i + 1] = y
      BY <1>2, <2>1
    <2>4. QED
      BY <1>1, <2>2, <2>3 DEF Range
  <1>6. Head(s) \in Range(s)
    <2>1. 1 \in 1..(n + 1)
      OBVIOUS
    <2>2. QED
      BY <1>1, <1>3, <2>1 DEF Range
  <1>7. QED
    BY <1>4, <1>5, <1>6

LEMMA CursorIsLast ==
    ASSUME NEW got \in Seq(Nat \ {0}), NEW rows, Received(got, rows)
    PROVE  /\ CursorOf(got) \in Nat /\ CursorOf(got) \in rows \cup {0}
           /\ \A i \in Range(got) : i <= CursorOf(got)
  <1>1. CASE got = <<>>
    BY <1>1 DEF CursorOf, Received
  <1>2. CASE got # <<>>
    <2>1. Len(got) \in DOMAIN got /\ CursorOf(got) = got[Len(got)]
      BY <1>2 DEF CursorOf, Last
    <2>2. CursorOf(got) \in Range(got) /\ CursorOf(got) \in Nat
      BY <2>1 DEF Range
    <2>3. QED
      BY <2>2 DEF Received
  <1>3. QED
    BY <1>1, <1>2

\* The next row is received.
LEMMA ReceiveRow ==
    ASSUME NEW got \in Seq(Nat \ {0}), NEW rows \in SUBSET (Nat \ {0}), NEW h \in rows,
           Received(got, rows), CursorOf(got) < h,
           \A i \in rows : CursorOf(got) < i => h <= i
    PROVE  Received(Append(got, h), rows) /\ CursorOf(Append(got, h)) = h
  <1> DEFINE new == Append(got, h)
  <1>1. new \in Seq(Nat \ {0}) /\ Len(got) \in Nat /\ DOMAIN got = 1..Len(got)
    OBVIOUS
  <1>2. Len(new) = Len(got) + 1 /\ DOMAIN new = 1..(Len(got) + 1)
    OBVIOUS
  <1>3. /\ new[Len(got) + 1] = h
        /\ \A i \in 1..Len(got) : new[i] = got[i]
    OBVIOUS
  <1>4. Range(new) = Range(got) \cup {h}
    BY RangeOfAppend
  <1>5. new # <<>>
    OBVIOUS
  <1>6. CursorOf(got) \in Nat /\ h \in Nat /\ \A i \in Range(got) : i <= CursorOf(got)
    BY CursorIsLast
  <1> HIDE DEF new
  <1>7. CursorOf(new) = h
    BY <1>2, <1>3, <1>5 DEF CursorOf, Last
  <1>8. Increasing(new)
    <2>1. SUFFICES ASSUME NEW k \in 1..(Len(got) + 1), NEW l \in 1..(Len(got) + 1), k < l
                   PROVE  new[k] < new[l]
      BY <1>2 DEF Increasing
    <2>2. k \in 1..Len(got) /\ new[k] = got[k] /\ got[k] \in Range(got)
      <3>1. k \in 1..Len(got)
        BY <1>1, <2>1
      <3>2. QED
        BY <1>1, <1>3, <3>1 DEF Range
    <2>3. CASE l = Len(got) + 1
      <3>1. got[k] <= CursorOf(got) /\ got[k] \in Nat
        BY <1>1, <1>6, <2>2
      <3>2. got[k] < h
        BY <1>6, <3>1
      <3>3. QED
        BY <1>3, <2>2, <2>3, <3>2
    <2>4. CASE l # Len(got) + 1
      <3>1. l \in 1..Len(got)
        BY <1>1, <2>4
      <3>2. got[k] < got[l]
        BY <1>1, <2>1, <2>2, <3>1 DEF Received, Increasing
      <3>3. QED
        BY <1>3, <2>2, <3>1, <3>2
    <2>5. QED
      BY <2>3, <2>4
  <1>9. {i \in rows : i <= h} = {i \in rows : i <= CursorOf(got)} \cup {h}
    <2>1. \A i \in rows : i <= h <=> (i <= CursorOf(got) \/ i = h)
      BY <1>6
    <2>2. QED
      BY <2>1
  <1>10. QED
    BY <1>4, <1>7, <1>8, <1>9 DEF Received, new

-----------------------------------------------------------------------------
(* The subscribers: what is on its way *)

\* New rows come after the old ones.
LEMMA RowsGrow ==
    ASSUME NEW more \in SUBSET (Nat \ {0}), NEW rows \in SUBSET more,
           \A r \in more \ rows, i \in rows : i < r,
           NEW cl \in Subscribers, NEW in, NEW d
    PROVE  /\ ClientOK(cl, in, rows, d) => ClientOK(cl, in, more, d)
           /\ \A k : ClientOK(cl, in, rows, d) /\ ServedOK(k, cl, in, rows) => ServedOK(k, cl, in, more)
  <1> SUFFICES ASSUME ClientOK(cl, in, rows, d)
               PROVE  /\ ClientOK(cl, in, more, d)
                      /\ \A k : ServedOK(k, cl, in, rows) => ServedOK(k, cl, in, more)
    OBVIOUS
  <1>1. cl.got \in Seq(Nat \ {0}) /\ Received(cl.got, rows)
    BY DEF Subscribers, ClientOK
  <1>2. CursorOf(cl.got) \in rows \cup {0}
    BY <1>1, CursorIsLast
  <1>3. ASSUME NEW n \in rows \cup {0}
        PROVE  \A r \in more : r <= n => r \in rows
    BY <1>3
  <1>4. Received(cl.got, more)
    BY <1>1, <1>2, <1>3 DEF Received
  <1>5. \A n \in rows \cup {0} : Lacks(cl.got, more, n) = Lacks(cl.got, rows, n)
    BY <1>3 DEF Lacks
  <1>6. ClientOK(cl, in, more, d)
    <2>1. PICK n \in rows \cup {0} : Range(in) \ {EndOfStream} = Lacks(cl.got, rows, n)
      BY DEF ClientOK
    <2>2. n \in more \cup {0} /\ Range(in) \ {EndOfStream} = Lacks(cl.got, more, n)
      BY <1>5, <2>1
    <2>3. QED
      BY <1>4, <2>2 DEF ClientOK
  <1>7. ASSUME NEW k, ServedOK(k, cl, in, rows)
        PROVE  ServedOK(k, cl, in, more)
    BY <1>5, <1>7 DEF ServedOK
  <1>8. QED
    BY <1>6, <1>7

LEMMA ArrivesNext ==
    ASSUME NEW s \in Seq(Nat), Arriving(s), EndOfStream \notin Range(s), NEW x \in Nat,
           x = EndOfStream \/ \A y \in Range(s) : y < x
    PROVE  Arriving(Append(s, x))
  <1> DEFINE new == Append(s, x)
  <1>1. PICK n \in Nat : n = Len(s)
    OBVIOUS
  <1>2. /\ DOMAIN s = 1..n /\ DOMAIN new = 1..(n + 1) /\ Len(new) = n + 1
        /\ new[n + 1] = x /\ \A i \in 1..n : new[i] = s[i]
    BY <1>1
  <1> HIDE DEF new
  <1>3. \A i \in 1..n : s[i] \in Range(s)
    BY <1>2 DEF Range
  <1>4. ASSUME NEW k \in 1..(n + 1), new[k] = EndOfStream
        PROVE  k = n + 1
    <2>1. CASE k \in 1..n
      BY <1>2, <1>3, <1>4, <2>1
    <2>2. QED
      BY <2>1
  <1>5. ASSUME NEW k \in 1..(n + 1), NEW l \in 1..(n + 1), k < l, new[l] # EndOfStream
        PROVE  new[k] < new[l]
    <2>1. k \in 1..n
      BY <1>5
    <2>2. CASE l = n + 1
      BY <1>2, <1>3, <1>5, <2>1, <2>2
    <2>3. CASE l # n + 1
      <3>1. l \in 1..n
        BY <2>3
      <3>2. QED
        BY <1>2, <1>5, <2>1, <3>1 DEF Arriving
    <2>4. QED
      BY <2>2, <2>3
  <1>6. Arriving(new)
    BY <1>2, <1>4, <1>5 DEF Arriving
  <1>7. QED
    BY <1>6 DEF new

\* The server writes the next row to a connection that its client holds.
LEMMA PushRow ==
    ASSUME NEW cl \in Subscribers, NEW in \in Seq(Nat), NEW rows \in SUBSET (Nat \ {0}), NEW d,
           NEW k \in Conns, ClientOK(cl, in, rows, d), ServedOK(k, cl, in, rows), Holds(cl, k),
           NEW i \in rows, k.cursor < i, \A j \in rows : j > k.cursor => i <= j
    PROVE  /\ ClientOK(cl, in \o <<i>>, rows, d) /\ ClientOK(cl, in \o <<i, EndOfStream>>, rows, d)
           /\ ServedOK([k EXCEPT !.cursor = i], cl, in \o <<i>>, rows)
  <1> DEFINE one == Append(in, i)
             two == Append(one, EndOfStream)
  <1>1. in \o <<i>> = one /\ in \o <<i, EndOfStream>> = two
    BY DEF EndOfStream
  <1>2. CursorOf(cl.got) \in Nat /\ Received(cl.got, rows)
    BY CursorIsLast DEF Subscribers, ClientOK
  <1>3. /\ k.cursor \in Nat /\ CursorOf(cl.got) <= k.cursor
        /\ Range(in) = Lacks(cl.got, rows, k.cursor)
    BY DEF ServedOK, Conns
  <1>4. EndOfStream \notin Range(in) /\ \A j \in Range(in) : j < i
    <2>1. \A j \in Range(in) : j \in Nat \ {0} /\ j <= k.cursor
      BY <1>3 DEF Lacks
    <2>2. QED
      BY <1>3, <2>1 DEF EndOfStream
  <1>5. one \in Seq(Nat) /\ two \in Seq(Nat)
    BY DEF EndOfStream
  <1>6. Range(one) = Range(in) \cup {i} /\ Range(two) = Range(one) \cup {EndOfStream}
    <2>1. Range(one) = Range(in) \cup {i}
      BY RangeOfAppend
    <2> HIDE DEF one
    <2>2. 0 \in Nat
      OBVIOUS
    <2>3. Range(two) = Range(one) \cup {EndOfStream}
      BY <1>5, <2>2, RangeOfAppend DEF EndOfStream
    <2>4. QED
      BY <2>1, <2>3
  <1>7. Arriving(one) /\ Arriving(two)
    <2>1. Arriving(one)
      BY <1>4, ArrivesNext DEF ClientOK
    <2> HIDE DEF one
    <2>2. EndOfStream \notin Range(one)
      BY <1>4, <1>6 DEF EndOfStream
    <2>3. Arriving(two)
      BY <1>5, <2>1, <2>2, ArrivesNext DEF EndOfStream
    <2>4. QED
      BY <2>1, <2>3
  <1> HIDE DEF one, two
  <1>8. Range(one) = Lacks(cl.got, rows, i)
    <2>1. \A j \in rows : j <= i <=> (j <= k.cursor \/ j = i)
      BY <1>3
    <2>2. CursorOf(cl.got) < i
      BY <1>2, <1>3
    <2>3. QED
      BY <1>3, <1>6, <2>1, <2>2 DEF Lacks
  <1>9. EndOfStream \notin Range(one)
    BY <1>4, <1>6 DEF EndOfStream
  <1>10. Range(one) \ {EndOfStream} = Lacks(cl.got, rows, i) /\ Range(two) \ {EndOfStream} = Lacks(cl.got, rows, i)
    BY <1>6, <1>8, <1>9
  <1>11. cl.at = "open"
    BY DEF Holds
  <1>12. ClientOK(cl, one, rows, d) /\ ClientOK(cl, two, rows, d)
    BY <1>7, <1>10, <1>11 DEF ClientOK
  <1>13. ServedOK([k EXCEPT !.cursor = i], cl, one, rows)
    <2> DEFINE new == [k EXCEPT !.cursor = i]
    <2>1. new.cursor = i /\ new.conn = k.conn
      BY DEF Conns
    <2> HIDE DEF new
    <2>2. i \in Nat /\ CursorOf(cl.got) <= i
      BY <1>2, <1>3
    <2>3. ServedOK(new, cl, one, rows)
      BY <1>8, <2>1, <2>2 DEF ServedOK
    <2>4. QED
      BY <2>3 DEF new
  <1>14. QED
    BY <1>1, <1>12, <1>13

\* What arrives first comes before the rest, which is in order too.
LEMMA ArrivesFirst ==
    ASSUME NEW s \in Seq(Nat), s # <<>>, Arriving(s)
    PROVE  /\ Arriving(Tail(s))
           /\ Head(s) = EndOfStream => Tail(s) = <<>>
           /\ \A y \in Range(Tail(s)) : y # EndOfStream => Head(s) < y
  <1>1. PICK m \in Nat : m = Len(s)
    OBVIOUS
  <1>2. m # 0 /\ DOMAIN s = 1..m
    BY <1>1
  <1>3. DOMAIN Tail(s) = 1..(m - 1) /\ Len(Tail(s)) = m - 1 /\ Tail(s) \in Seq(Nat)
    BY <1>1
  <1>4. \A i \in 1..(m - 1) : Tail(s)[i] = s[i + 1]
    BY <1>1
  <1>5. Head(s) = s[1]
    OBVIOUS
  <1>6. m - 1 \in Nat /\ \A i \in 1..(m - 1) : i + 1 \in 1..m
    BY <1>2
  <1>7. /\ \A k \in 1..m : s[k] = EndOfStream => k = m
        /\ \A k, l \in 1..m : k < l /\ s[l] # EndOfStream => s[k] < s[l]
    BY <1>1, <1>2 DEF Arriving
  <1>8. Arriving(Tail(s))
    <2>1. ASSUME NEW k \in 1..(m - 1), Tail(s)[k] = EndOfStream
          PROVE  k = m - 1
      <3>1. k + 1 = m
        BY <1>4, <1>6, <1>7, <2>1
      <3>2. QED
        BY <1>2, <3>1
    <2>2. ASSUME NEW k \in 1..(m - 1), NEW l \in 1..(m - 1), k < l, Tail(s)[l] # EndOfStream
          PROVE  Tail(s)[k] < Tail(s)[l]
      <3>1. k + 1 \in 1..m /\ l + 1 \in 1..m /\ k + 1 < l + 1
        BY <1>6, <2>2
      <3>2. QED
        BY <1>4, <1>7, <2>2, <3>1
    <2>3. QED
      BY <1>3, <2>1, <2>2 DEF Arriving
  <1>9. ASSUME Head(s) = EndOfStream
        PROVE  Tail(s) = <<>>
    <2>1. 1 \in 1..m
      BY <1>2
    <2>2. 1 = m
      BY <1>5, <1>7, <1>9, <2>1
    <2>3. Len(Tail(s)) = 0
      BY <1>3, <2>2
    <2>4. QED
      BY <1>3, <2>3, EmptySeq
  <1>10. ASSUME NEW y \in Range(Tail(s)), y # EndOfStream
         PROVE  Head(s) < y
    <2>1. PICK i \in 1..(m - 1) : Tail(s)[i] = y
      BY <1>3, <1>10 DEF Range
    <2>2. 1 \in 1..m /\ i + 1 \in 1..m /\ 1 < i + 1 /\ s[i + 1] = y
      BY <1>2, <1>4, <1>6, <2>1
    <2>3. QED
      BY <1>5, <1>7, <1>10, <2>2
  <1>11. QED
    BY <1>8, <1>9, <1>10

\* A client reads the next row of its connection.
LEMMA ReadRow ==
    ASSUME NEW cl \in Subscribers, NEW in \in Seq(Nat), NEW rows \in SUBSET (Nat \ {0}), NEW d,
           ClientOK(cl, in, rows, d), in # <<>>, Head(in) # EndOfStream, cl.at = "open"
    PROVE  /\ ClientOK([cl EXCEPT !.got = Append(@, Head(in))], Tail(in), rows, d)
           /\ \A k \in Conns : ServedOK(k, cl, in, rows) =>
                ServedOK(k, [cl EXCEPT !.got = Append(@, Head(in))], Tail(in), rows)
  <1> DEFINE h == Head(in)
             rest == Tail(in)
             got == Append(cl.got, h)
             new == [cl EXCEPT !.got = got]
  <1>1. cl.got \in Seq(Nat \ {0}) /\ Received(cl.got, rows) /\ Arriving(in)
    BY DEF Subscribers, ClientOK
  <1>2. PICK n \in rows \cup {0} : Range(in) \ {EndOfStream} = Lacks(cl.got, rows, n)
    BY DEF ClientOK
  <1>3. Range(in) = Range(rest) \cup {h}
    BY RangeOfTail
  <1>4. /\ Arriving(rest) /\ h # EndOfStream
        /\ \A y \in Range(rest) : y # EndOfStream => h < y
    BY <1>1, ArrivesFirst
  <1> HIDE DEF h, rest
  <1>5. CursorOf(cl.got) \in Nat
    BY <1>1, CursorIsLast
  <1>6. h \in Lacks(cl.got, rows, n)
    BY <1>2, <1>3, <1>4
  <1>7. h \in rows /\ h \in Nat /\ CursorOf(cl.got) < h /\ h <= n /\ n \in Nat
    BY <1>6 DEF Lacks
  <1>8. ASSUME NEW j \in rows, CursorOf(cl.got) < j
        PROVE  h <= j
    <2>1. CASE j <= n
      <3>1. j \in Range(in) \ {EndOfStream}
        BY <1>2, <1>8, <2>1 DEF Lacks
      <3>2. j = h \/ h < j
        BY <1>3, <1>4, <3>1
      <3>3. QED
        BY <1>7, <3>2
    <2>2. CASE ~(j <= n)
      BY <1>7, <2>2
    <2>3. QED
      BY <2>1, <2>2
  <1>9. Received(got, rows) /\ CursorOf(got) = h
    BY <1>1, <1>7, <1>8, ReceiveRow
  <1>10. ASSUME NEW e \in Nat, h <= e
         PROVE  Lacks(got, rows, e) = Lacks(cl.got, rows, e) \ {h}
    <2>1. \A j \in rows : h < j <=> CursorOf(cl.got) < j /\ j # h
      BY <1>5, <1>7, <1>8
    <2>2. QED
      BY <1>9, <2>1 DEF Lacks
  <1>11. h \notin Range(rest)
    BY <1>4, <1>7
  <1>12. Range(rest) = Range(in) \ {h} /\ h # EndOfStream
    BY <1>3, <1>4, <1>11
  <1>13. Range(rest) \ {EndOfStream} = Lacks(got, rows, n)
    BY <1>2, <1>7, <1>10, <1>12
  <1>14. new.got = got /\ new.at = cl.at /\ new.conn = cl.conn
    BY DEF Subscribers
  <1>15. new = [cl EXCEPT !.got = Append(@, h)]
    BY DEF Subscribers
  <1> HIDE DEF got, new
  <1>16. ClientOK(new, rest, rows, d)
    BY <1>4, <1>9, <1>13, <1>14 DEF ClientOK
  <1>17. ASSUME NEW k \in Conns, ServedOK(k, cl, in, rows)
         PROVE  ServedOK(k, new, rest, rows)
    <2>1. CASE ~Holds(cl, k)
      BY <1>14, <1>17, <2>1 DEF ServedOK, Holds
    <2>2. CASE Holds(cl, k)
      <3>1. k.cursor \in rows \cup {0} /\ Range(in) = Lacks(cl.got, rows, k.cursor) /\ k.cursor \in Nat
        BY <1>17, <2>2 DEF ServedOK, Conns
      <3>2. h <= k.cursor
        BY <1>3, <3>1 DEF Lacks
      <3>3. Range(rest) = Lacks(got, rows, k.cursor)
        BY <1>10, <1>12, <3>1, <3>2
      <3>4. QED
        BY <1>9, <1>14, <1>17, <3>1, <3>2, <3>3 DEF ServedOK
    <2>3. QED
      BY <2>1, <2>2
  <1>18. QED
    BY <1>15, <1>16, <1>17 DEF h, rest

-----------------------------------------------------------------------------
(* The subscribers: the steps *)

LEMMA SubscribeFeed ==
    ASSUME FeedTypeOK, FeedInv, UNCHANGED journal, NEW c \in Clients, Subscribe(c)
    PROVE  FeedInv'
  <1> DEFINE k == [conn |-> drops + 1, who |-> c, cursor |-> LastEventId(c)]
             new == [client[c] EXCEPT !.at = "open", !.conn = drops + 1]
             W == RowsOf(Watched)
  <1>1. client[c] \in Subscribers /\ drops \in Nat
    BY ClientAssumption DEF FeedTypeOK
  <1>2. client' = [client EXCEPT ![c] = new] /\ backlog' = Append(backlog, k) /\ UNCHANGED <<inbox, serving, drops>>
    BY <1>1 DEF Subscribe, FeedTypeOK
  <1>3. client[c].at \in {"idle", "dropped"} /\ ClientOK(client[c], inbox[c], W, drops)
    BY DEF Subscribe, FeedInv
  <1>4. inbox[c] = <<>> /\ client[c].conn <= drops /\ client[c].conn \in Nat
    BY <1>1, <1>3 DEF ClientOK, Subscribers
  <1>5. new.at = "open" /\ new.conn = drops + 1 /\ new.got = client[c].got
    BY <1>1 DEF Subscribers
  <1>6. k.conn = drops + 1 /\ k.who = c /\ k.cursor = CursorOf(client[c].got)
    BY DEF LastEventId, Cursor, CursorOf
  <1>7. /\ DOMAIN backlog = 1..Len(backlog) /\ DOMAIN backlog' = 1..(Len(backlog) + 1)
        /\ \A i \in 1..Len(backlog) : backlog'[i] = backlog[i] /\ backlog[i] \in Conns
        /\ backlog'[Len(backlog) + 1] = k /\ Len(backlog) \in Nat
    <2> HIDE DEF k
    <2>1. backlog \in Seq(Conns)
      BY DEF FeedTypeOK
    <2>2. QED
      BY <1>2, <2>1
  <1> HIDE DEF k, new
  <1>8. RowsOf(Watched)' = W
    BY DEF RowsOf
  <1>9. client'[c] = new /\ \A e \in Clients \ {c} : client'[e] = client[e]
    BY <1>2 DEF FeedTypeOK
  <1>10. ClientOK(new, <<>>, W, drops)
    <2>1. drops + 1 <= drops + 1
      BY <1>1
    <2>2. QED
      BY <1>3, <1>4, <1>5, <2>1 DEF ClientOK
  \* An earlier connection of the client is not the one it holds now.
  <1>11. ASSUME NEW x \in Conns, x.conn <= client[x.who].conn
         PROVE  /\ x.conn <= client'[x.who].conn
                /\ Holds(client'[x.who], x) => x.who # c /\ client'[x.who] = client[x.who]
    <2>1. CASE x.who # c
      <3>1. client'[x.who] = client[x.who]
        BY <1>9, <2>1 DEF Conns
      <3>2. QED
        BY <1>11, <2>1, <3>1
    <2>2. CASE x.who = c
      <3>1. x.conn \in Nat /\ x.conn <= drops /\ x.conn # drops + 1 /\ x.conn <= drops + 1
        BY <1>1, <1>4, <1>11, <2>2 DEF Conns
      <3>2. QED
        BY <1>5, <1>9, <2>2, <3>1 DEF Holds
    <2>3. QED
      BY <2>1, <2>2
  <1>12. \A i \in 1..Len(backlog) : WaitsOK(backlog[i], client[backlog[i].who], inbox[backlog[i].who])
    BY <1>7 DEF FeedInv
  <1>13. ASSUME NEW i \in 1..Len(backlog)
         PROVE  /\ WaitsOK(backlog[i], client'[backlog[i].who], inbox[backlog[i].who])
                /\ Holds(client'[backlog[i].who], backlog[i]) =>
                     backlog[i].who # c /\ Holds(client[backlog[i].who], backlog[i])
    BY <1>7, <1>11, <1>12 DEF WaitsOK
  <1>14. WaitsOK(k, client'[c], inbox[c])
    <2>1. drops + 1 <= drops + 1
      BY <1>1
    <2>2. QED
      BY <1>4, <1>5, <1>6, <1>9, <2>1 DEF WaitsOK
  <1>15. ASSUME serving # NoConn
         PROVE  /\ ServedOK(serving, client'[serving.who], inbox[serving.who], W)
                /\ Holds(client'[serving.who], serving) =>
                     serving.who # c /\ Holds(client[serving.who], serving)
    <2>1. serving \in Conns /\ ServedOK(serving, client[serving.who], inbox[serving.who], W)
      BY <1>15 DEF FeedInv, FeedTypeOK
    <2>2. QED
      BY <1>11, <2>1 DEF ServedOK
  <1>16. \A e \in Clients : ClientOK(client'[e], inbox[e], W, drops)
    BY <1>4, <1>9, <1>10 DEF FeedInv
  <1>17. ASSUME NEW i \in 1..(Len(backlog) + 1)
         PROVE  WaitsOK(backlog'[i], client'[backlog'[i].who], inbox[backlog'[i].who])
    <2>1. CASE i \in 1..Len(backlog)
      BY <1>7, <1>13, <2>1
    <2>2. CASE i = Len(backlog) + 1
      BY <1>6, <1>7, <1>14, <2>2
    <2>3. QED
      BY <1>7, <2>1, <2>2
  <1>18. ASSUME NEW i \in 1..(Len(backlog) + 1), NEW j \in 1..(Len(backlog) + 1),
                Holds(client'[backlog'[i].who], backlog'[i]), Holds(client'[backlog'[j].who], backlog'[j]),
                backlog'[i].who = backlog'[j].who
         PROVE  i = j
    <2>1. CASE i \in 1..Len(backlog) /\ j \in 1..Len(backlog)
      BY <1>7, <1>13, <1>18, <2>1 DEF FeedInv, Live, Holds
    <2>2. CASE i \in 1..Len(backlog) /\ j = Len(backlog) + 1
      BY <1>6, <1>7, <1>13, <1>18, <2>2
    <2>3. CASE i = Len(backlog) + 1 /\ j \in 1..Len(backlog)
      BY <1>6, <1>7, <1>13, <1>18, <2>3
    <2>4. QED
      BY <1>7, <2>1, <2>2, <2>3
  <1>19. ASSUME NEW i \in 1..(Len(backlog) + 1), serving # NoConn,
                Holds(client'[backlog'[i].who], backlog'[i]), Holds(client'[serving.who], serving)
         PROVE  backlog'[i].who # serving.who
    <2>1. CASE i \in 1..Len(backlog)
      BY <1>7, <1>13, <1>15, <1>19, <2>1 DEF FeedInv, Live, Holds
    <2>2. CASE i = Len(backlog) + 1
      BY <1>6, <1>7, <1>15, <1>19, <2>2
    <2>3. QED
      BY <1>7, <2>1, <2>2
  <1> HIDE DEF W
  <1>20. QED
    BY <1>2, <1>7, <1>8, <1>15, <1>16, <1>17, <1>18, <1>19 DEF FeedInv, Live, Holds

LEMMA AcceptFeed ==
    ASSUME FeedTypeOK, FeedInv, UNCHANGED journal, Accept
    PROVE  FeedInv'
  <1> DEFINE k == Head(backlog)
             new == [client[k.who] EXCEPT !.at = "refused"]
             W == RowsOf(Watched)
  <1>1. PICK m \in Nat : /\ m + 1 = Len(backlog) /\ DOMAIN backlog = 1..(m + 1)
                         /\ DOMAIN backlog' = 1..m
                         /\ \A i \in 1..m : backlog'[i] = backlog[i + 1]
    <2>1. backlog \in Seq(Conns) /\ backlog # <<>> /\ backlog' = Tail(backlog)
      BY DEF FeedTypeOK, Accept
    <2>2. PICK n \in Nat : n = Len(backlog)
      BY <2>1
    <2>3. n # 0 /\ DOMAIN backlog = 1..n
      BY <2>1, <2>2
    <2>4. DOMAIN backlog' = 1..(n - 1) /\ \A i \in 1..(n - 1) : backlog'[i] = backlog[i + 1]
      BY <2>1, <2>2
    <2>5. n - 1 \in Nat /\ (n - 1) + 1 = n
      BY <2>3
    <2>6. QED
      BY <2>2, <2>3, <2>4, <2>5
  <1>2. k = backlog[1] /\ 1 \in 1..(m + 1) /\ \A i \in 1..(m + 1) : backlog[i] \in Conns
    <2>1. backlog \in Seq(Conns) /\ backlog # <<>>
      BY DEF FeedTypeOK, Accept
    <2>2. k = backlog[1] /\ 1 \in 1..(m + 1)
      BY <2>1
    <2>3. \A i \in 1..(m + 1) : backlog[i] \in Conns
      BY <1>1, <2>1
    <2>4. QED
      BY <2>2, <2>3
  <1>3. serving = NoConn /\ UNCHANGED <<inbox, drops>>
        /\ \/ UNCHANGED serving /\ client' = IF Live(k) THEN [client EXCEPT ![k.who].at = "refused"] ELSE client
           \/ serving' = k /\ UNCHANGED client
    BY DEF Accept
  <1> HIDE DEF k
  <1>4. k \in Conns /\ k.who \in Clients /\ client[k.who] \in Subscribers
    BY <1>2 DEF Conns, FeedTypeOK
  <1>5. RowsOf(Watched)' = W
    BY DEF RowsOf
  <1>6. /\ \A i \in 1..(m + 1) : WaitsOK(backlog[i], client[backlog[i].who], inbox[backlog[i].who])
        /\ \A i, j \in 1..(m + 1) :
             Holds(client[backlog[i].who], backlog[i]) /\ Holds(client[backlog[j].who], backlog[j])
             /\ backlog[i].who = backlog[j].who => i = j
        /\ \A c \in Clients : ClientOK(client[c], inbox[c], W, drops)
    BY <1>1 DEF FeedInv, Live, Holds
  <1>7. \A i \in 1..m : i + 1 \in 1..(m + 1) /\ i + 1 # 1
    OBVIOUS
  <1> HIDE DEF W
  <1>8. \A i \in 1..m : backlog'[i] = backlog[i + 1] /\ i + 1 \in 1..(m + 1) /\ backlog'[i] \in Conns
    BY <1>1, <1>2, <1>7
  \* What holds of the rest of the backlog when only the accepted one is over.
  <1>9. ASSUME NEW i \in 1..m, NEW j \in 1..m, i + 1 = j + 1
        PROVE  i = j
    BY <1>9
  <1>10. CASE client' = client
    <2>1. \A i \in 1..m : WaitsOK(backlog'[i], client[backlog'[i].who], inbox[backlog'[i].who])
      BY <1>6, <1>8
    <2>2. \A i, j \in 1..m :
             Holds(client[backlog'[i].who], backlog'[i]) /\ Holds(client[backlog'[j].who], backlog'[j])
             /\ backlog'[i].who = backlog'[j].who => i = j
      BY <1>6, <1>8, <1>9
    <2>3. serving' # NoConn => serving' = k
      BY <1>3
    <2>4. ServedOK(k, client[k.who], inbox[k.who], W)
      <3>1. WaitsOK(k, client[k.who], inbox[k.who])
        BY <1>2, <1>6
      <3>2. ASSUME Holds(client[k.who], k)
            PROVE  /\ k.cursor \in W \cup {0} /\ CursorOf(client[k.who].got) <= k.cursor
                   /\ Range(inbox[k.who]) = Lacks(client[k.who].got, W, k.cursor)
        <4>1. k.cursor = CursorOf(client[k.who].got) /\ inbox[k.who] = <<>>
          BY <3>1, <3>2 DEF WaitsOK
        <4>2. k.cursor \in Nat /\ k.cursor \in W \cup {0}
          BY <1>4, <1>6, <4>1, CursorIsLast DEF ClientOK, Subscribers
        <4>3. Range(inbox[k.who]) = {}
          BY <4>1 DEF Range
        <4>4. W \subseteq Nat
          BY DEF W, RowsOf
        <4>5. Lacks(client[k.who].got, W, k.cursor) = {}
          <5>1. \A i \in W : ~(k.cursor < i /\ i <= k.cursor)
            BY <4>2, <4>4
          <5>2. QED
            BY <4>1, <5>1 DEF Lacks
        <4>6. QED
          BY <4>1, <4>2, <4>3, <4>5
      <3>3. QED
        BY <3>1, <3>2 DEF ServedOK, WaitsOK
    <2>5. ASSUME NEW i \in 1..m, Holds(client[backlog'[i].who], backlog'[i]), Holds(client[k.who], k)
          PROVE  backlog'[i].who # k.who
      BY <1>2, <1>6, <1>8, <2>5
    <2>6. QED
      BY <1>1, <1>3, <1>5, <1>6, <1>10, <2>1, <2>2, <2>3, <2>4, <2>5 DEF FeedInv, Live, Holds
  <1>11. CASE UNCHANGED serving /\ client' = [client EXCEPT ![k.who].at = "refused"] /\ Live(k)
    <2>1. client' = [client EXCEPT ![k.who] = new]
      BY <1>4, <1>11
    <2>2. new.at = "refused" /\ new.conn = client[k.who].conn /\ new.got = client[k.who].got
      BY <1>4 DEF Subscribers
    <2> HIDE DEF new
    <2>3. client'[k.who] = new /\ \A c \in Clients \ {k.who} : client'[c] = client[c]
      BY <1>4, <2>1 DEF FeedTypeOK
    <2>4. inbox[k.who] = <<>>
      BY <1>2, <1>6, <1>11 DEF WaitsOK, Live, Holds
    <2>5. \A c \in Clients : ClientOK(client'[c], inbox[c], W, drops)
      <3>1. ClientOK(client[k.who], inbox[k.who], W, drops)
        BY <1>4, <1>6
      <3>2. ClientOK(new, inbox[k.who], W, drops)
        BY <2>2, <2>4, <3>1 DEF ClientOK
      <3>3. QED
        BY <1>6, <2>3, <3>2
    <2>6. ASSUME NEW x \in Conns, WaitsOK(x, client[x.who], inbox[x.who])
          PROVE  /\ WaitsOK(x, client'[x.who], inbox[x.who])
                 /\ Holds(client'[x.who], x) => Holds(client[x.who], x)
      <3>1. CASE x.who = k.who
        BY <2>2, <2>3, <2>6, <3>1 DEF WaitsOK, Holds
      <3>2. CASE x.who # k.who
        BY <2>3, <2>6, <3>2 DEF Conns
      <3>3. QED
        BY <3>1, <3>2
    <2>7. \A i \in 1..m : /\ WaitsOK(backlog'[i], client'[backlog'[i].who], inbox[backlog'[i].who])
                          /\ Holds(client'[backlog'[i].who], backlog'[i]) => Holds(client[backlog'[i].who], backlog'[i])
      BY <1>6, <1>8, <2>6
    <2>8. \A i, j \in 1..m :
             Holds(client'[backlog'[i].who], backlog'[i]) /\ Holds(client'[backlog'[j].who], backlog'[j])
             /\ backlog'[i].who = backlog'[j].who => i = j
      BY <1>6, <1>8, <1>9, <2>7
    <2>9. serving' = NoConn
      BY <1>3, <1>11
    <2>10. QED
      BY <1>1, <1>3, <1>5, <2>5, <2>7, <2>8, <2>9 DEF FeedInv, Live, Holds
  <1>12. QED
    BY <1>3, <1>10, <1>11

\* A step that changes one client and its connection keeps the rest, when no
\* connection of another client changes and none is held anew.
LEMMA OneClient ==
    ASSUME FeedTypeOK, FeedInv, UNCHANGED <<journal, backlog>>, NEW c \in Clients,
           \A e \in Clients \ {c} : client'[e] = client[e] /\ inbox'[e] = inbox[e],
           ClientOK(client'[c], inbox'[c], RowsOf(Watched), drops'), drops' \in Nat, drops' >= drops,
           client'[c].conn = client[c].conn,
           \A k \in Conns : k.who = c /\ Holds(client'[c], k) => Holds(client[c], k),
           \A i \in DOMAIN backlog : backlog[i].who = c =>
               WaitsOK(backlog[i], client'[c], inbox'[c]),
           serving' = serving \/ serving' = NoConn \/ (serving'.who = c /\ serving.who = c /\ serving # NoConn
             /\ (Holds(client'[c], serving') => Holds(client[c], serving))),
           serving' # NoConn /\ serving'.who = c => ServedOK(serving', client'[c], inbox'[c], RowsOf(Watched))
    PROVE  FeedInv'
  <1> DEFINE W == RowsOf(Watched)
  <1>1. RowsOf(Watched)' = W
    BY DEF RowsOf
  <1> HIDE DEF W
  <1>2. /\ \A e \in Clients : ClientOK(client[e], inbox[e], W, drops) /\ client[e] \in Subscribers
        /\ \A i \in DOMAIN backlog : WaitsOK(backlog[i], client[backlog[i].who], inbox[backlog[i].who])
        /\ serving # NoConn => ServedOK(serving, client[serving.who], inbox[serving.who], W)
        /\ \A i \in DOMAIN backlog : backlog[i] \in Conns
        /\ serving # NoConn => serving \in Conns
        /\ drops \in Nat
    BY ClientAssumption DEF FeedInv, FeedTypeOK, W
  <1>3. ASSUME NEW e \in Clients
        PROVE  ClientOK(client'[e], inbox'[e], W, drops')
    <2>1. CASE e = c
      BY <2>1 DEF W
    <2>2. CASE e # c
      <3>1. client[e].conn \in Nat
        BY <1>2 DEF Subscribers
      <3>2. ClientOK(client[e], inbox[e], W, drops')
        <4>1. PICK n \in Nat : n = drops'
          OBVIOUS
        <4>2. /\ client[e].conn <= drops + 1 => client[e].conn <= n + 1
              /\ client[e].conn <= drops => client[e].conn <= n
          BY <1>2, <3>1, <4>1
        <4>3. ClientOK(client[e], inbox[e], W, n)
          BY <1>2, <4>2 DEF ClientOK
        <4>4. QED
          BY <4>1, <4>3
      <3>3. QED
        BY <2>2, <3>2
    <2>3. QED
      BY <2>1, <2>2
  <1>4. ASSUME NEW k \in Conns
        PROVE  Holds(client'[k.who], k) => Holds(client[k.who], k)
    <2>1. k.who \in Clients
      BY DEF Conns
    <2>2. QED
      BY <2>1
  <1>5. ASSUME NEW i \in DOMAIN backlog
        PROVE  WaitsOK(backlog[i], client'[backlog[i].who], inbox'[backlog[i].who])
    <2>1. backlog[i].who \in Clients
      BY <1>2 DEF Conns
    <2>2. QED
      BY <1>2, <2>1
  <1>6. ASSUME serving' # NoConn
        PROVE  /\ ServedOK(serving', client'[serving'.who], inbox'[serving'.who], W)
               /\ serving # NoConn /\ serving'.who = serving.who
               /\ Holds(client'[serving'.who], serving') => Holds(client[serving'.who], serving)
    <2>1. CASE serving' = serving
      <3>1. serving \in Conns /\ serving.who \in Clients
        BY <1>2, <1>6, <2>1 DEF Conns
      <3>2. QED
        BY <1>2, <1>4, <1>6, <2>1, <3>1 DEF W
    <2>2. CASE serving' # serving
      BY <1>6, <2>2 DEF W
    <2>3. QED
      BY <2>1, <2>2
  <1>7. \A i, j \in DOMAIN backlog :
          Holds(client'[backlog[i].who], backlog[i]) /\ Holds(client'[backlog[j].who], backlog[j])
          /\ backlog[i].who = backlog[j].who => i = j
    BY <1>2, <1>4 DEF FeedInv, Live, Holds
  <1>8. ASSUME NEW i \in DOMAIN backlog, serving' # NoConn,
               Holds(client'[backlog[i].who], backlog[i]), Holds(client'[serving'.who], serving')
        PROVE  backlog[i].who # serving'.who
    <2>1. Holds(client[backlog[i].who], backlog[i]) /\ Holds(client[serving.who], serving)
          /\ serving # NoConn /\ serving'.who = serving.who
      BY <1>2, <1>4, <1>6, <1>8
    <2>2. QED
      BY <2>1 DEF FeedInv, Live, Holds
  <1>9. QED
    BY <1>1, <1>3, <1>5, <1>6, <1>7, <1>8 DEF FeedInv, Live, Holds

LEMMA DropFeed ==
    ASSUME FeedTypeOK, FeedInv, UNCHANGED journal, NEW c \in Clients, Drop(c)
    PROVE  FeedInv'
  <1> DEFINE new == [client[c] EXCEPT !.at = "dropped"]
             W == RowsOf(Watched)
  <1>1. client[c] \in Subscribers /\ drops \in Nat /\ ClientOK(client[c], inbox[c], W, drops)
    BY ClientAssumption DEF FeedTypeOK, FeedInv
  <1>2. /\ client' = [client EXCEPT ![c] = new] /\ inbox' = [inbox EXCEPT ![c] = <<>>]
        /\ drops' = drops + 1 /\ UNCHANGED <<backlog, serving>>
    BY DEF Drop, FeedTypeOK
  <1>3. new.at = "dropped" /\ new.conn = client[c].conn /\ new.got = client[c].got
    BY <1>1 DEF Subscribers
  <1> HIDE DEF new, W
  <1>4. /\ client'[c] = new /\ inbox'[c] = <<>>
        /\ \A e \in Clients \ {c} : client'[e] = client[e] /\ inbox'[e] = inbox[e]
    BY <1>2 DEF FeedTypeOK
  <1>5. drops' \in Nat /\ drops' >= drops
    BY <1>1, <1>2
  <1>6. ClientOK(new, <<>>, W, drops')
    <2>1. Arriving(<<>>)
      BY DEF Arriving
    <2>2. Range(<<>>) = {}
      BY DEF Range
    <2>3. Lacks(new.got, W, 0) = {}
      <3>1. \A i \in W : ~(i <= 0)
        BY DEF W, RowsOf
      <3>2. QED
        BY <3>1 DEF Lacks
    <2>4. client[c].conn <= drops + 1 /\ client[c].conn <= drops + 1 + 1
      BY <1>1 DEF ClientOK, Subscribers
    <2>5. QED
      BY <1>1, <1>2, <1>3, <2>1, <2>2, <2>3, <2>4 DEF ClientOK
  <1>7. \A k \in Conns : ~Holds(new, k)
    BY <1>3 DEF Holds
  <1>8. \A i \in DOMAIN backlog : backlog[i].who = c => WaitsOK(backlog[i], new, <<>>)
    BY <1>3, <1>7 DEF FeedInv, FeedTypeOK, WaitsOK, Holds
  <1>9. serving # NoConn /\ serving.who = c => ServedOK(serving, new, <<>>, W)
    BY <1>3, <1>7 DEF FeedInv, FeedTypeOK, ServedOK, Holds
  <1>10. QED
    BY <1>2, <1>3, <1>4, <1>5, <1>6, <1>7, <1>8, <1>9, OneClient DEF W

LEMMA ReceiveFeed ==
    ASSUME FeedTypeOK, FeedInv, UNCHANGED journal, NEW c \in Clients, Receive(c)
    PROVE  FeedInv'
  <1> DEFINE h == Head(inbox[c])
             rest == Tail(inbox[c])
             ended == [client[c] EXCEPT !.at = "ended"]
             new == [client[c] EXCEPT !.got = Append(@, h)]
             W == RowsOf(Watched)
  <1>1. client[c] \in Subscribers /\ drops \in Nat /\ ClientOK(client[c], inbox[c], W, drops)
    BY ClientAssumption DEF FeedTypeOK, FeedInv
  <1>2. client[c].at = "open" /\ inbox[c] # <<>> /\ inbox[c] \in Seq(Nat)
    BY DEF Receive, FeedTypeOK
  <1>3. /\ client' = IF h = EndOfStream THEN [client EXCEPT ![c] = ended] ELSE [client EXCEPT ![c] = new]
        /\ inbox' = [inbox EXCEPT ![c] = rest] /\ UNCHANGED <<backlog, serving, drops>>
    BY DEF Receive, FeedTypeOK
  <1>4. W \in SUBSET (Nat \ {0})
    BY DEF RowsOf
  <1>5. inbox'[c] = rest /\ \A e \in Clients \ {c} : client'[e] = client[e] /\ inbox'[e] = inbox[e]
    <2> HIDE DEF h, rest, ended, new
    <2>1. QED
      BY <1>3 DEF FeedTypeOK
  \* Nothing is on its way to a client whose connection waits in the backlog.
  <1>6. ASSUME NEW i \in DOMAIN backlog, backlog[i].who = c
        PROVE  backlog[i].conn <= client[c].conn /\ ~Holds(client[c], backlog[i])
    BY <1>2, <1>6 DEF FeedInv, WaitsOK
  <1>7. CASE h = EndOfStream
    <2>1. rest = <<>>
      BY <1>1, <1>2, <1>7, ArrivesFirst DEF ClientOK
    <2>2. ended.at = "ended" /\ ended.conn = client[c].conn /\ ended.got = client[c].got
      BY <1>1 DEF Subscribers
    <2> HIDE DEF h, rest, ended, new, W
    <2>3. client'[c] = ended
      BY <1>3, <1>7 DEF FeedTypeOK
    <2>4. ClientOK(ended, <<>>, W, drops')
      <3>1. Arriving(<<>>)
        BY DEF Arriving
      <3>2. Range(<<>>) = {}
        BY DEF Range
      <3>3. Lacks(ended.got, W, 0) = {}
        <4>1. \A i \in W : ~(i <= 0)
          BY <1>4
        <4>2. QED
          BY <4>1 DEF Lacks
      <3>4. QED
        BY <1>1, <1>3, <2>2, <3>1, <3>2, <3>3 DEF ClientOK
    <2>5. \A k \in Conns : ~Holds(ended, k)
      BY <2>2 DEF Holds
    <2>6. \A i \in DOMAIN backlog : backlog[i].who = c => WaitsOK(backlog[i], ended, <<>>)
      BY <1>6, <2>2 DEF WaitsOK, Holds
    <2>7. serving # NoConn /\ serving.who = c => ServedOK(serving, ended, <<>>, W)
      BY <2>2 DEF FeedInv, ServedOK, Holds
    <2>8. drops' \in Nat /\ drops' >= drops
      BY <1>1, <1>3
    <2>9. QED
      BY <1>3, <1>5, <2>1, <2>2, <2>3, <2>4, <2>5, <2>6, <2>7, <2>8, OneClient DEF W
  <1>8. CASE h # EndOfStream
    <2>1. /\ ClientOK(new, rest, W, drops)
          /\ \A k \in Conns : ServedOK(k, client[c], inbox[c], W) => ServedOK(k, new, rest, W)
      <3> HIDE DEF W
      <3>1. QED
        BY <1>1, <1>2, <1>4, <1>8, ReadRow
    <2>2. new.at = "open" /\ new.conn = client[c].conn
      BY <1>1, <1>2 DEF Subscribers
    <2> HIDE DEF h, rest, ended, new, W
    <2>3. client'[c] = new
      BY <1>3, <1>8 DEF FeedTypeOK
    <2>4. \A k \in Conns : Holds(new, k) => Holds(client[c], k)
      BY <1>2, <2>2 DEF Holds
    <2>5. \A i \in DOMAIN backlog : backlog[i].who = c => WaitsOK(backlog[i], new, rest)
      BY <1>2, <1>6, <2>2 DEF WaitsOK, Holds
    <2>6. serving # NoConn /\ serving.who = c => ServedOK(serving, new, rest, W)
      BY <2>1 DEF FeedInv, FeedTypeOK, W
    <2>7. drops' \in Nat /\ drops' >= drops
      BY <1>1, <1>3
    <2>8. QED
      BY <1>3, <1>5, <2>1, <2>2, <2>3, <2>4, <2>5, <2>6, <2>7, OneClient DEF W
  <1>9. QED
    BY <1>7, <1>8

LEMMA PushFeed ==
    ASSUME FeedTypeOK, FeedInv, UNCHANGED journal, Push
    PROVE  FeedInv'
  <1> DEFINE i == Min(Newer(serving))
             over == Terminal(journal[i].snap)
             c == serving.who
             W == RowsOf(Watched)
             k == [serving EXCEPT !.cursor = i]
             news == IF over THEN <<i, EndOfStream>> ELSE <<i>>
  <1>1. serving # NoConn /\ serving \in Conns /\ c \in Clients
    BY DEF FeedTypeOK, Push, Conns
  <1>2. i \in Nat \ {0} /\ i \in W /\ i > serving.cursor /\ \A j \in W : j > serving.cursor => i <= j
    BY <1>1, NewerFacts DEF Push
  <1>3. /\ IF Live(serving)
           THEN inbox' = [inbox EXCEPT ![c] = @ \o news] /\ serving' = IF over THEN NoConn ELSE k
           ELSE serving' = NoConn /\ UNCHANGED inbox
        /\ UNCHANGED <<client, backlog, drops>>
    BY DEF Push
  <1>4. /\ client[c] \in Subscribers /\ inbox[c] \in Seq(Nat) /\ drops \in Nat
        /\ ClientOK(client[c], inbox[c], W, drops) /\ ServedOK(serving, client[c], inbox[c], W)
    BY <1>1, ClientAssumption DEF FeedTypeOK, FeedInv
  <1> HIDE DEF i, over
  <1>5. k.who = c /\ k.conn = serving.conn
    BY <1>1 DEF Conns
  <1>6. NoConn.who = None
    BY DEF NoConn
  <1>7. drops' \in Nat /\ drops' >= drops
    BY <1>3, <1>4
  <1>8. CASE ~Live(serving)
    <2> HIDE DEF c, W, k, news
    <2>1. client' = client /\ inbox' = inbox /\ backlog' = backlog /\ serving' = NoConn /\ drops' = drops
      BY <1>3, <1>8
    <2>2. RowsOf(Watched)' = RowsOf(Watched)
      BY DEF RowsOf
    <2>3. QED
      BY <2>1, <2>2 DEF FeedInv, Live
  <1>9. CASE Live(serving)
    <2>1. Holds(client[c], serving)
      BY <1>9 DEF Live, Holds
    <2>2. W \in SUBSET (Nat \ {0})
      BY DEF RowsOf
    <2>3. /\ ClientOK(client[c], inbox[c] \o <<i>>, W, drops)
          /\ ClientOK(client[c], inbox[c] \o <<i, EndOfStream>>, W, drops)
          /\ ServedOK(k, client[c], inbox[c] \o <<i>>, W)
      <3> HIDE DEF W, c
      <3>1. serving.cursor < i
        BY <1>1, <1>2 DEF Conns
      <3>2. QED
        BY <1>1, <1>2, <1>4, <2>1, <2>2, <3>1, PushRow
    <2>4. ASSUME NEW n \in DOMAIN backlog, backlog[n].who = c
          PROVE  ~Holds(client[c], backlog[n]) /\ backlog[n].conn <= client[c].conn
      BY <1>1, <2>1, <2>4 DEF FeedInv, Live, Holds, WaitsOK
    <2> HIDE DEF c, W, k
    <2>5. inbox'[c] = inbox[c] \o news /\ \A e \in Clients \ {c} : inbox'[e] = inbox[e]
      <3> HIDE DEF news
      <3>1. QED
        BY <1>1, <1>3, <1>9 DEF FeedTypeOK
    <2>6. ClientOK(client'[c], inbox'[c], W, drops')
      BY <1>3, <2>3, <2>5
    <2>7. \A n \in DOMAIN backlog : backlog[n].who = c => WaitsOK(backlog[n], client'[c], inbox'[c])
      BY <1>3, <2>4 DEF WaitsOK
    <2>8. serving' = NoConn \/ (serving' = k /\ inbox'[c] = inbox[c] \o <<i>>)
      BY <1>3, <1>9, <2>5
    <2>9. Holds(client'[c], k) => Holds(client[c], serving)
      BY <2>1
    <2>10. /\ serving' = serving \/ serving' = NoConn \/ (serving'.who = c /\ serving.who = c /\ serving # NoConn
                /\ (Holds(client'[c], serving') => Holds(client[c], serving)))
           /\ serving' # NoConn /\ serving'.who = c => ServedOK(serving', client'[c], inbox'[c], W)
      BY <1>1, <1>3, <1>5, <2>3, <2>8, <2>9 DEF c
    <2>11. QED
      BY <1>1, <1>3, <1>7, <2>5, <2>6, <2>7, <2>10, OneClient DEF W
  <1>10. QED
    BY <1>8, <1>9

\* The calls of the services only add rows to the journal, at its end.
LEMMA JournalGrows ==
    ASSUME TypeInv, Service
    PROVE  /\ RowsOf(Watched)' \in SUBSET (Nat \ {0}) /\ RowsOf(Watched) \subseteq RowsOf(Watched)'
           /\ \A r \in RowsOf(Watched)' \ RowsOf(Watched), i \in RowsOf(Watched) : i < r
  <1>1. TypeOK /\ journal \in Seq([task : Tasks, snap : TaskRecords])
    BY DEF TypeInv, TypeOK, TasksTypeOK
  <1>2. ASSUME NEW p \in users, RequestStep(p) \/ WriteStep(p) \/ ReadStep(p) \/ RunStep(p)
        PROVE  journal' = journal \/ journal' = Append(journal, [task |-> call[p].task, snap |-> call[p].snap])
    BY <1>2 DEF RequestStep, WriteStep, ReadStep, RunStep, SendNew, SendMore, Crash, Quiet, PutMore,
               PutWorking, PutFinal, Put, InsertRow, Check, PlainHandler
  <1>3. journal' = journal \/ \E e : journal' = Append(journal, e)
    BY <1>1, <1>2, ServiceSteps DEF taskVars
  <1>4. PICK n \in Nat : n = Len(journal)
    BY <1>1
  <1>5. RowsOf(Watched) = {i \in 1..n : journal[i].task = Watched}
    BY <1>4 DEF RowsOf
  <1>6. CASE journal' = journal
    <2>1. RowsOf(Watched)' = RowsOf(Watched)
      BY <1>6 DEF RowsOf
    <2>2. QED
      BY <1>5, <2>1
  <1>7. ASSUME NEW e, journal' = Append(journal, e)
        PROVE  RowsOf(Watched)' \in {RowsOf(Watched), RowsOf(Watched) \cup {n + 1}}
    <2>1. Len(journal') = n + 1 /\ \A i \in 1..n : journal'[i] = journal[i]
      BY <1>1, <1>4, <1>7
    <2>2. RowsOf(Watched)' = {i \in 1..(n + 1) : journal'[i].task = Watched}
      BY <2>1 DEF RowsOf
    <2>3. 1..(n + 1) = 1..n \cup {n + 1}
      OBVIOUS
    <2>4. QED
      BY <1>5, <2>1, <2>2, <2>3
  <1>8. \A i \in RowsOf(Watched) : i \in Nat \ {0} /\ i < n + 1
    BY <1>5
  <1>9. n + 1 \in Nat \ {0}
    OBVIOUS
  <1>10. QED
    BY <1>3, <1>6, <1>7, <1>8, <1>9

LEMMA FeedInvStep ==
    ASSUME TypeInv, FeedInv, [Next]_vars
    PROVE  FeedInv'
  <1>1. FeedTypeOK
    BY DEF TypeInv, TypeOK, FeedTypeOK, Subscribers
  <1>2. CASE UNCHANGED <<journal, feedVars>>
    BY <1>2 DEF FeedInv, feedVars, RowsOf, Live
  <1>3. CASE Service /\ UNCHANGED feedVars
    <2>1. PICK more \in SUBSET (Nat \ {0}) : more = RowsOf(Watched)'
      BY <1>3, JournalGrows
    <2>2. RowsOf(Watched) \in SUBSET more /\ \A r \in more \ RowsOf(Watched), i \in RowsOf(Watched) : i < r
      BY <1>3, <2>1, JournalGrows
    <2>3. \A c \in Clients : ClientOK(client[c], inbox[c], more, drops)
      BY <1>1, <2>2, RowsGrow DEF FeedInv, FeedTypeOK
    <2>4. serving # NoConn => ServedOK(serving, client[serving.who], inbox[serving.who], more)
      <3>1. SUFFICES ASSUME serving # NoConn
                     PROVE  ServedOK(serving, client[serving.who], inbox[serving.who], more)
        OBVIOUS
      <3>2. serving.who \in Clients /\ client[serving.who] \in Subscribers
        BY <1>1, <3>1 DEF FeedTypeOK, Conns
      <3>3. QED
        BY <2>2, <3>1, <3>2, RowsGrow DEF FeedInv
    <2>5. QED
      BY <1>3, <2>1, <2>3, <2>4 DEF FeedInv, feedVars, Live
  <1>4. CASE FeedStep /\ UNCHANGED journal
    BY <1>1, <1>4, SubscribeFeed, AcceptFeed, PushFeed, ReceiveFeed, DropFeed DEF FeedStep
  <1>5. QED
    BY <1>2, <1>3, <1>4 DEF Next, vars, taskVars

LEMMA FeedInit ==
    ASSUME Init
    PROVE  FeedInv
  <1>1. RowsOf(Watched) = {}
    BY DEF Init, InitTasks, RowsOf
  <1>2. Received(<<>>, {}) /\ Arriving(<<>>) /\ Range(<<>>) = {} /\ Lacks(<<>>, {}, 0) = {}
    BY DEF Received, Increasing, Arriving, Range, Lacks
  <1>3. 0 <= 0 + 1 /\ 0 <= 0
    OBVIOUS
  <1>4. ASSUME NEW c \in Clients
        PROVE  ClientOK(client[c], inbox[c], RowsOf(Watched), drops)
    <2>1. /\ client[c] = [at |-> "idle", conn |-> 0, got |-> <<>>]
          /\ inbox[c] = <<>> /\ drops = 0
      BY DEF Init
    <2>2. QED
      BY <1>1, <1>2, <1>3, <2>1 DEF ClientOK
  <1>5. QED
    BY <1>4 DEF Init, FeedInv

LEMMA FeedHolds == Spec => []FeedInv
  <1>1. Init => FeedInv
    BY FeedInit
  <1>2. TypeInv /\ FeedInv /\ [Next]_vars => FeedInv'
    BY FeedInvStep
  <1>3. QED
    BY <1>1, <1>2, TypesHold, PTL DEF Spec

\* However often a subscriber's connection is lost, what it received is the
\* beginning of the journal of its task, each row once and in order.
THEOREM FeedsAreExact == Spec => []FeedIsExact
  <1>1. FeedInv => FeedIsExact
    BY DEF FeedInv, ClientOK, Received, Increasing, FeedIsExact, Cursor, CursorOf
  <1>2. QED
    BY <1>1, FeedHolds, PTL
=============================================================================
