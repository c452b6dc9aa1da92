------------------------ MODULE ParallelAgentsProofs ------------------------
(***************************************************************************)
(* Proofs about ParallelAgents.tla, and with it about AgentMailbox.tla and *)
(* AgentGraph.tla, for any agents, team, tasks, messages and processes.    *)
(***************************************************************************)
EXTENDS ParallelAgents, OrderingProofs, SequenceTheorems, TLAPS

LEMMA FunctionIsSeq ==
    ASSUME NEW S, NEW n \in Nat, NEW f \in [1..n -> S]
    PROVE  f \in Seq(S) /\ Len(f) = n
  OBVIOUS

LEMMA AppendedSeq ==
    ASSUME NEW S, NEW s \in Seq(S), NEW e \in S
    PROVE  /\ Append(s, e) \in Seq(S) /\ Append(s, e) # <<>>
           /\ Range(Append(s, e)) = Range(s) \cup {e}
  <1>1. Append(s, e) \in Seq(S) /\ Len(Append(s, e)) = Len(s) + 1
    OBVIOUS
  <1>2. /\ \A i \in 1..Len(s) : Append(s, e)[i] = s[i]
        /\ Append(s, e)[Len(s) + 1] = e
        /\ DOMAIN Append(s, e) = 1..Len(s) + 1
    OBVIOUS
  <1>3. QED
    BY <1>1, <1>2 DEF Range

\* The elements of a sequence are its head and those of its tail.
LEMMA HeadAndTail ==
    ASSUME NEW S, NEW s \in Seq(S), s # <<>>
    PROVE  /\ Head(s) \in S /\ Tail(s) \in Seq(S)
           /\ Range(s) = {Head(s)} \cup Range(Tail(s))
           /\ Distinct(s) => Distinct(Tail(s)) /\ Head(s) \notin Range(Tail(s))
  <1>1. Len(s) \in Nat \ {0} /\ DOMAIN s = 1..Len(s) /\ Head(s) = s[1] /\ 1 \in 1..Len(s)
    OBVIOUS
  <1>2. Head(s) \in S /\ Tail(s) \in Seq(S)
    OBVIOUS
  <1>3. DOMAIN Tail(s) = 1..Len(s) - 1 /\ \A i \in 1..Len(s) - 1 : Tail(s)[i] = s[i + 1]
    BY <1>1
  <1> DEFINE t == Tail(s)
  <1> HIDE DEF t
  <1>4. DOMAIN t = 1..Len(s) - 1 /\ \A i \in 1..Len(s) - 1 : t[i] = s[i + 1]
    BY <1>3 DEF t
  <1>5. Range(s) = {s[1]} \cup Range(t)
    <2>1. ASSUME NEW i \in 1..Len(s), i # 1
          PROVE  s[i] \in Range(t)
      <3>1. i - 1 \in 1..Len(s) - 1 /\ t[i - 1] = s[i]
        BY <1>1, <1>4, <2>1
      <3>2. QED
        BY <1>4, <3>1 DEF Range
    <2>2. ASSUME NEW i \in 1..Len(s) - 1
          PROVE  t[i] \in Range(s)
      <3>1. i + 1 \in 1..Len(s) /\ t[i] = s[i + 1]
        BY <1>1, <1>4
      <3>2. QED
        BY <1>1, <3>1 DEF Range
    <2>3. QED
      BY <1>1, <1>4, <2>1, <2>2 DEF Range
  <1>6. Distinct(s) => Distinct(t) /\ s[1] \notin Range(t)
    <2> SUFFICES ASSUME Distinct(s)
                 PROVE  Distinct(t) /\ s[1] \notin Range(t)
      OBVIOUS
    <2>1. \A i \in 1..Len(s) - 1 : i + 1 \in 1..Len(s) /\ i + 1 # 1
      BY <1>1
    <2>2. ASSUME NEW i \in DOMAIN t
          PROVE  s[1] # t[i] /\ \A j \in DOMAIN t : t[i] = t[j] => i = j
      BY <1>1, <1>4, <2>1, SMTT(30) DEF Distinct
    <2>3. QED
      BY <2>2 DEF Distinct, Range
  <1>7. QED
    BY <1>1, <1>2, <1>5, <1>6 DEF t

teamVars == <<co, known, runs, poolVars>>

-----------------------------------------------------------------------------
(* Types *)

Launching == {"look", "send", "lookup", "claim", "hire", "busy", "submit"}
Answering == {"ack", "report", "verdict", "collect"}

\* Who is launched has a task, who is answered has a future that is done, and
\* nobody has one outside of a run.
PoolOK ==
    /\ \A a \in Agents : job[a] # None => a \in Workforce /\ job[a] \in Tasks
    /\ \A a \in Agents : job[a] # None <=> future[a] # "none"
    /\ co.at \in Launching => co.agent \in Workforce /\ co.task \in Tasks
    /\ co.at \in Answering =>
         /\ co.agent \in Done \ co.batch
         /\ co.task = job[co.agent]
    /\ co.at \in Answering \cup {"reap"} => co.batch \subseteq Done
    /\ co.at \in {"unbuilt", "ready", "returned"} => \A a \in Agents : job[a] = None

TypeInv == TypeOK /\ PoolOK

\* The kinds of calls are told apart by their names.
LEMMA CallShape ==
    ASSUME TypeOK, NEW p \in Processes
    PROVE  /\ op[p].call = "create" => op[p] \in [call : {"create"}, agent : Agents, above : Agents]
           /\ op[p].call = "status" => op[p] \in [call : {"status"}, agent : Agents, to : Reports]
           /\ op[p].call = "collect" =>
                op[p] \in [call : {"collect"}, queue : Seq(Agents) \ {<<>>}, nodes : Seq(Agents)]
           /\ op[p].call = "cancel" =>
                op[p] \in [call : {"cancel"}, todo : Seq(Agents) \ {<<>>}, at : {"look", "check", "write"}]
           /\ op[p].call = "send" =>
                op[p] \in [call : {"send"}, mail : Messages, to : Agents, kind : Kinds]
           /\ op[p].call = "claim" =>
                op[p] \in [call : {"claim"}, to : Agents, worker : Workers, kinds : SUBSET Kinds]
           /\ op[p].call \in {"ack", "release"} =>
                op[p] \in [call : {"ack", "release"}, mail : Messages, worker : Workers]
           /\ op[p].call = "cancel_message" =>
                op[p] \in [call : {"cancel_message"}, mail : Messages]
           /\ op[p].call \in {"idle", "create", "status", "collect", "cancel", "send", "claim", "ack",
                              "release", "cancel_message"}
  BY DEF TypeOK, TreeCalls, MailCalls, NoCall

\* A call entered or left leaves the calls of the right shapes.
LEMMA EnterTypes ==
    ASSUME TypeOK, NEW p \in Processes, NEW c \in {NoCall} \cup TreeCalls \cup MailCalls, Enter(p, c)
    PROVE  op' \in [Processes -> {NoCall} \cup TreeCalls \cup MailCalls]
  BY DEF TypeOK, Enter

LEMMA TeamFacts ==
    /\ Workforce \subseteq Agents \ {Boss} /\ IsFiniteSet(Workforce)
    /\ Place \in [Workforce -> Nat]
    /\ \A a, b \in Workforce : Place[a] = Place[b] => a = b
  <1>1. Team \in [1..Len(Team) -> Agents \ {Boss}] /\ Workforce = {Team[i] : i \in 1..Len(Team)}
    BY TeamAssumption DEF Workforce, Range
  <1>2. IsFiniteSet(Workforce)
    BY <1>1, GraphAssumption, FS_Subset
  <1>3. ASSUME NEW a \in Workforce
        PROVE  Place[a] \in 1..Len(Team) /\ Team[Place[a]] = a
    BY <1>1 DEF Place
  <1>4. Place \in [Workforce -> Nat]
    <2>1. \A a \in Workforce : Place[a] \in Nat
      BY <1>1, <1>3
    <2>2. QED
      BY <2>1 DEF Place
  <1>5. QED
    BY <1>1, <1>2, <1>3, <1>4

\* The workers a run may use: the known ones, each once.
LEMMA KnownInOrder ==
    ASSUME NEW S \in SUBSET Workforce
    PROVE  /\ Ordered(S, Place) \in Seq(S)
           /\ Range(Ordered(S, Place)) = S
           /\ Distinct(Ordered(S, Place))
  <1> DEFINE s == Ordered(S, Place)
  <1>1. IsFiniteSet(S)
    BY TeamFacts, FS_Subset
  <1>2. s \in [1..Cardinality(S) -> S] /\ Sorts(s, S, Place)
    BY <1>1, TeamFacts, OrderedSorts
  <1>3. Cardinality(S) \in Nat
    BY <1>1, FS_CardinalityType
  <1> HIDE DEF s
  <1>4. s \in Seq(S)
    BY <1>2, <1>3
  <1>5. ASSUME NEW i \in DOMAIN s, NEW j \in DOMAIN s, i < j
        PROVE  s[i] # s[j]
    <2>1. Place[s[i]] < Place[s[j]] /\ s[i] \in S /\ s[j] \in S
      BY <1>2, <1>5 DEF Sorts
    <2>2. Place[s[i]] \in Nat
      BY <2>1, TeamFacts
    <2>3. QED
      BY <2>1, <2>2
  <1>6. Distinct(s)
    <2>1. DOMAIN s \subseteq Nat
      BY <1>2, <1>3
    <2>2. QED
      BY <1>5, <2>1 DEF Distinct
  <1>7. QED
    BY <1>2, <1>4, <1>6 DEF Sorts, s

LEMMA TreeTypes ==
    ASSUME TypeOK, NEW p \in Processes, TreeStep(p)
    PROVE  TreeTypeOK' /\ op' \in [Processes -> {NoCall} \cup TreeCalls \cup MailCalls]
  <1> DEFINE OpOK == op' \in [Processes -> {NoCall} \cup TreeCalls \cup MailCalls]
             Entered == \E c \in {NoCall} \cup TreeCalls : Enter(p, c)
  <1> USE DEF TypeOK, TreeTypeOK
  <1>a. Entered => OpOK
    BY EnterTypes
  <1>b. NoCall \in {NoCall} \cup TreeCalls
    OBVIOUS
  <1>1. ASSUME NEW a \in Agents, CreateRoot(p, a)
        PROVE  TreeTypeOK' /\ OpOK
    BY <1>1 DEF CreateRoot, LiveStatuses
  <1>2. ASSUME NEW a \in Agents, NEW b \in Agents, BeginCreate(p, a, b)
        PROVE  TreeTypeOK' /\ OpOK
    <2>1. [call |-> "create", agent |-> a, above |-> b] \in TreeCalls
      BY DEF TreeCalls
    <2>2. Entered
      BY <1>2, <2>1 DEF BeginCreate
    <2>3. QED
      BY <1>2, <1>a, <2>2 DEF BeginCreate
  <1>3. ASSUME NEW a \in Agents, NEW s \in Reports, BeginSetStatus(p, a, s)
        PROVE  TreeTypeOK' /\ OpOK
    <2>1. [call |-> "status", agent |-> a, to |-> s] \in TreeCalls
      BY DEF TreeCalls
    <2>2. Entered
      BY <1>3, <2>1 DEF BeginSetStatus
    <2>3. QED
      BY <1>3, <1>a, <2>2 DEF BeginSetStatus
  <1>4. ASSUME InsertAgent(p)
        PROVE  TreeTypeOK' /\ OpOK
    <2>1. op[p].agent \in Agents /\ op[p].above \in Agents
      BY <1>4, CallShape DEF InsertAgent
    <2>2. OpOK
      BY <1>4, <1>a, <1>b DEF InsertAgent, Leave
    <2>3. QED
      BY <1>4, <2>1, <2>2 DEF InsertAgent, LiveStatuses
  <1>5. ASSUME WriteStatus(p)
        PROVE  TreeTypeOK' /\ OpOK
    <2>1. op[p].to \in LiveStatuses \cup TerminalStatuses
      BY <1>5, CallShape, GraphAssumption DEF WriteStatus, TerminalStatuses
    <2>2. OpOK
      BY <1>5, <1>a, <1>b DEF WriteStatus, Leave
    <2>3. QED
      BY <1>5, <2>1, <2>2 DEF WriteStatus
  <1>6. ASSUME NEW a \in Agents, BeginCancelSubtree(p, a)
        PROVE  TreeTypeOK' /\ OpOK
    <2>1. <<a>> \in Seq(Agents) \ {<<>>} /\ <<>> \in Seq(Agents)
      OBVIOUS
    <2>2. [call |-> "collect", queue |-> <<a>>, nodes |-> <<>>] \in TreeCalls
      BY <2>1 DEF TreeCalls
    <2>3. Entered
      BY <1>6, <2>2 DEF BeginCancelSubtree
    <2>4. QED
      BY <1>6, <1>a, <2>3 DEF BeginCancelSubtree
  <1>7. ASSUME Collect(p)
        PROVE  TreeTypeOK' /\ OpOK
    <2>1. PICK kids \in SetToSeqs(Children(Head(op[p].queue))) :
            LET queue == Tail(op[p].queue) \o kids
                nodes == Append(op[p].nodes, Head(op[p].queue))
            IN  Enter(p, IF queue = <<>>
                         THEN [call |-> "cancel", todo |-> CancelOrder(nodes), at |-> "look"]
                         ELSE [call |-> "collect", queue |-> queue, nodes |-> nodes])
      BY <1>7 DEF Collect
    <2> DEFINE queue == Tail(op[p].queue) \o kids
               nodes == Append(op[p].nodes, Head(op[p].queue))
    <2>2. op[p].queue \in Seq(Agents) \ {<<>>} /\ op[p].nodes \in Seq(Agents)
      BY <1>7, CallShape DEF Collect
    <2>3. kids \in Seq(Agents)
      <3>1. Children(Head(op[p].queue)) \subseteq Agents
        BY DEF Children
      <3>2. IsFiniteSet(Children(Head(op[p].queue)))
        BY <3>1, GraphAssumption, FS_Subset
      <3>3. kids \in [1..Cardinality(Children(Head(op[p].queue))) -> Agents]
        BY <2>1, <3>1 DEF SetToSeqs
      <3>4. QED
        BY <3>2, <3>3, FS_CardinalityType, FunctionIsSeq
    <2>4. queue \in Seq(Agents) /\ nodes \in Seq(Agents) /\ nodes # <<>>
      <3> DEFINE q == op[p].queue
                 n == op[p].nodes
      <3>1. q \in Seq(Agents) /\ q # <<>> /\ n \in Seq(Agents)
        BY <2>2
      <3> HIDE DEF q, n
      <3>2. Head(q) \in Agents /\ Tail(q) \in Seq(Agents)
        BY <3>1
      <3>3. Tail(q) \o kids \in Seq(Agents)
        BY <2>3, <3>2
      <3>4. Append(n, Head(q)) \in Seq(Agents) /\ Append(n, Head(q)) # <<>>
        BY <3>1, <3>2, AppendedSeq
      <3>5. QED
        BY <3>3, <3>4 DEF q, n
    <2>5. CancelOrder(nodes) \in Seq(Agents) /\ CancelOrder(nodes) # <<>>
      <3> HIDE DEF nodes
      <3>1. Len(nodes) \in Nat \ {0} /\ nodes \in [1..Len(nodes) -> Agents]
        BY <2>4
      <3>2. Reverse(nodes) \in [1..Len(nodes) -> Agents]
        BY <3>1 DEF Reverse
      <3>3. Reverse(nodes) \in Seq(Agents) /\ Len(Reverse(nodes)) = Len(nodes)
        BY <3>1, <3>2, FunctionIsSeq
      <3>4. QED
        BY <3>1, <3>3 DEF CancelOrder
    <2> HIDE DEF queue, nodes
    <2>6. Entered
      <3>1. CASE queue = <<>>
        <4>1. [call |-> "cancel", todo |-> CancelOrder(nodes), at |-> "look"] \in TreeCalls
          BY <2>5 DEF TreeCalls
        <4>2. QED
          BY <2>1, <3>1, <4>1 DEF queue, nodes
      <3>2. CASE queue # <<>>
        <4>1. [call |-> "collect", queue |-> queue, nodes |-> nodes] \in TreeCalls
          BY <2>4, <3>2 DEF TreeCalls
        <4>2. QED
          BY <2>1, <3>2, <4>1 DEF queue, nodes
      <3>3. QED
        BY <3>1, <3>2
    <2>7. QED
      BY <1>7, <1>a, <2>6 DEF Collect
  <1>8. ASSUME op[p].call = "cancel", CancelNext(p)
        PROVE  OpOK
    <2>1. op[p].todo \in Seq(Agents) \ {<<>>}
      BY <1>8, CallShape
    <2> DEFINE rest == Tail(op[p].todo)
    <2>2. rest \in Seq(Agents)
      BY <2>1
    <2> HIDE DEF rest
    <2>3. rest # <<>> => [call |-> "cancel", todo |-> rest, at |-> "look"] \in TreeCalls
      BY <2>2 DEF TreeCalls
    <2>4. Entered
      BY <1>8, <1>b, <2>3 DEF CancelNext, rest
    <2>5. QED
      BY <1>a, <2>4
  <1>9. ASSUME op[p].call = "cancel", NEW s \in {"check", "write"},
               Enter(p, [op[p] EXCEPT !.at = s])
        PROVE  OpOK
    <2>1. [op[p] EXCEPT !.at = s] \in TreeCalls
      BY <1>9, CallShape, ZenonT(30) DEF TreeCalls
    <2>2. Entered
      BY <1>9, <2>1
    <2>3. QED
      BY <1>a, <2>2
  <1>10. ASSUME LookAgain(p)
         PROVE  TreeTypeOK' /\ OpOK
    BY <1>10, <1>8, <1>9 DEF LookAgain
  <1>11. ASSUME CheckAgain(p)
         PROVE  TreeTypeOK' /\ OpOK
    <2>1. Leave(p) => OpOK
      BY <1>a, <1>b DEF Leave
    <2>2. QED
      BY <1>11, <1>8, <1>9, <2>1 DEF CheckAgain
  <1>12. ASSUME WriteCancelled(p)
         PROVE  TreeTypeOK' /\ OpOK
    BY <1>12, <1>8 DEF WriteCancelled, TerminalStatuses
  <1>13. ASSUME Crash(p)
         PROVE  TreeTypeOK' /\ OpOK
    <2>1. OpOK
      BY <1>13, <1>a, <1>b DEF Crash, Leave
    <2>2. QED
      BY <1>13, <2>1 DEF Crash
  <1>14. QED
    BY <1>1, <1>2, <1>3, <1>4, <1>5, <1>6, <1>7, <1>10, <1>11, <1>12, <1>13 DEF TreeStep

\* The statements on the mailbox keep its columns typed.
LEMMA MailTypes ==
    ASSUME MailTypeOK, NEW m \in Messages
    PROVE  /\ \A a \in Agents, k \in Kinds : InsertMail(m, a, k) => MailTypeOK'
           /\ \A w \in Workers : LeaseTo(m, w) => MailTypeOK'
           /\ \A w \in Workers : AckMail(m, w) => MailTypeOK'
           /\ \A s \in {"pending", "cancelled"} : Overwrite(m, s) /\ UNCHANGED acker => MailTypeOK'
  BY MailboxAssumption DEF MailTypeOK, InsertMail, LeaseTo, AckMail, Overwrite

\* So do the calls on it, which keep the columns of agents as they are.
LEMMA MailCallTypes ==
    ASSUME TypeOK, NEW p \in Processes,
           MailStep(p) \/ \E a \in Agents, m \in Messages, k \in Kinds : BeginSend(p, Boss, a, m, k)
    PROVE  MailTypeOK' /\ op' \in [Processes -> {NoCall} \cup TreeCalls \cup MailCalls]
  <1> DEFINE OpOK == op' \in [Processes -> {NoCall} \cup TreeCalls \cup MailCalls]
             Entered == \E c \in {NoCall} \cup MailCalls : Enter(p, c)
  <1>a. Entered => OpOK
    BY EnterTypes
  <1>b. Leave(p) => OpOK
    BY <1>a DEF Leave
  <1>c. UNCHANGED mailVars => MailTypeOK'
    BY DEF TypeOK, MailTypeOK, mailVars, leaseVars
  <1>1. ASSUME NEW a \in Agents, NEW b \in Agents, NEW m \in Messages, NEW k \in Kinds,
               BeginSend(p, a, b, m, k)
        PROVE  MailTypeOK' /\ OpOK
    <2>1. [call |-> "send", mail |-> m, to |-> b, kind |-> k] \in MailCalls
      BY DEF MailCalls
    <2>2. Entered
      BY <1>1, <2>1 DEF BeginSend
    <2>3. QED
      BY <1>1, <1>a, <1>c, <2>2 DEF BeginSend
  <1>2. ASSUME NEW a \in Agents, NEW w \in Workers, NEW ks \in SUBSET Kinds, BeginClaim(p, a, w, ks)
        PROVE  MailTypeOK' /\ OpOK
    <2>1. [call |-> "claim", to |-> a, worker |-> w, kinds |-> ks] \in MailCalls
      BY DEF MailCalls
    <2>2. Entered
      BY <1>2, <2>1 DEF BeginClaim
    <2>3. QED
      BY <1>2, <1>a, <1>c, <2>2 DEF BeginClaim
  <1>3. ASSUME NEW m \in Messages, NEW w \in Workers, NEW c \in {"ack", "release"}, BeginHeld(p, c, m, w)
        PROVE  MailTypeOK' /\ OpOK
    <2>1. [call |-> c, mail |-> m, worker |-> w] \in MailCalls
      BY DEF MailCalls
    <2>2. Entered
      BY <1>3, <2>1 DEF BeginHeld
    <2>3. QED
      BY <1>3, <1>a, <1>c, <2>2 DEF BeginHeld
  <1>4. ASSUME NEW m \in Messages, BeginCancelMessage(p, m)
        PROVE  MailTypeOK' /\ OpOK
    <2>1. [call |-> "cancel_message", mail |-> m] \in MailCalls
      BY DEF MailCalls
    <2>2. Entered
      BY <1>4, <2>1 DEF BeginCancelMessage
    <2>3. QED
      BY <1>4, <1>a, <1>c, <2>2 DEF BeginCancelMessage
  <1>5. ASSUME Send(p)
        PROVE  MailTypeOK' /\ OpOK
    <2>1. op[p].mail \in Messages /\ op[p].to \in Agents /\ op[p].kind \in Kinds
      BY <1>5, CallShape DEF Send
    <2>2. QED
      BY <1>5, <1>b, <1>c, <2>1, MailTypes DEF Send, TypeOK
  <1>6. ASSUME Claim(p)
        PROVE  MailTypeOK' /\ OpOK
    <2>1. op[p].worker \in Workers
      BY <1>6, CallShape DEF Claim
    <2>2. QED
      BY <1>6, <1>b, <1>c, <2>1, MailTypes DEF Claim, TypeOK
  <1>7. ASSUME Ack(p) \/ Release(p) \/ CancelMessage(p)
        PROVE  MailTypeOK' /\ OpOK
    <2>1. op[p].mail \in Messages /\ (op[p].call = "ack" => op[p].worker \in Workers)
      BY <1>7, CallShape DEF Ack, Release, CancelMessage
    <2>2. QED
      BY <1>7, <1>b, <2>1, MailTypes DEF Ack, Release, CancelMessage, TypeOK
  <1>8. QED
    BY <1>1, <1>2, <1>3, <1>4, <1>5, <1>6, <1>7, MailboxAssumption, TeamAssumption DEF MailStep

LEMMA TickTypes == MailTypeOK /\ Tick => MailTypeOK'
  BY DEF MailTypeOK, Tick, leaseVars

\* What another process does to a team is a call on the tree or on the mailbox.
LEMMA MeddleTypes ==
    ASSUME TypeOK, NEW p \in Processes, Meddle(p)
    PROVE  TreeTypeOK' /\ MailTypeOK' /\ op' \in [Processes -> {NoCall} \cup TreeCalls \cup MailCalls]
  <1>1. CASE /\ \/ \E a \in Targets, m \in Letters \ Tasks : BeginSend(p, Boss, a, m, TaskKind)
                \/ \E m \in Messages : BeginCancelMessage(p, m)
                \/ Send(p) \/ CancelMessage(p)
             /\ UNCHANGED <<parent, status>>
    <2>1. MailTypeOK' /\ op' \in [Processes -> {NoCall} \cup TreeCalls \cup MailCalls]
      <3>1. CASE \E a \in Targets, m \in Letters \ Tasks : BeginSend(p, Boss, a, m, TaskKind)
        BY <3>1, MailCallTypes, TeamAssumption, MailboxAssumption
      <3>2. CASE (\E m \in Messages : BeginCancelMessage(p, m)) \/ Send(p) \/ CancelMessage(p)
        <4>1. MailStep(p)
          BY <3>2 DEF MailStep
        <4>2. QED
          BY <4>1, MailCallTypes
      <3>3. QED
        BY <1>1, <3>1, <3>2
    <2>2. QED
      BY <1>1, <2>1 DEF TypeOK, TreeTypeOK
  <1>2. CASE /\ \/ \E a \in Targets : BeginCancelSubtree(p, a)
                \/ Collect(p) \/ LookAgain(p) \/ CheckAgain(p) \/ WriteCancelled(p)
             /\ UNCHANGED mailVars
    <2>1. TreeStep(p)
      BY <1>2, TeamAssumption DEF TreeStep
    <2>2. QED
      BY <1>2, <2>1, TreeTypes DEF TypeOK, MailTypeOK, mailVars, leaseVars
  <1>3. QED
    BY <1>1, <1>2 DEF Meddle

CoType == [at : Steps, task : Messages \cup {None}, agent : Workforce \cup {None},
           asked : SUBSET Tasks, todo : Seq(Tasks), avail : Seq(Workforce),
           batch : SUBSET Workforce, results : SUBSET Result]
PoolTypeOK ==
    /\ co \in CoType
    /\ known \in SUBSET Workforce
    /\ runs \in Nat
    /\ job \in [Agents -> Messages \cup {None}]
    /\ future \in [Agents -> Outcomes]
    /\ ran \in [Messages -> Nat]

\* The step that only moves the coordinator keeps everything else of its state.
LEMMA GoTypes ==
    ASSUME PoolTypeOK, NEW step \in Steps, Go(step)
    PROVE  /\ co' \in CoType /\ co'.at = step
           /\ co'.task = co.task /\ co'.agent = co.agent /\ co'.asked = co.asked
           /\ co'.todo = co.todo /\ co'.avail = co.avail /\ co'.batch = co.batch
           /\ co'.results = co.results
  BY DEF PoolTypeOK, CoType, Go

\* The coordinator keeps its own state typed, and its futures in step with it.
LEMMA TeamTypes ==
    ASSUME TypeInv, TeamStep
    PROVE  PoolTypeOK' /\ PoolOK'
  <1>0. PoolTypeOK
    BY DEF TypeInv, TypeOK, PoolTypeOK, CoType
  <1> USE DEF Launching, Answering, At
  <1>f. Workforce \subseteq Agents /\ Tasks \subseteq Messages /\ None \notin Messages
    BY TeamFacts, TeamAssumption, MailboxAssumption
  <1>p. PoolOK
    BY DEF TypeInv
  <1>1. ASSUME NEW step \in Steps, Go(step), UNCHANGED <<known, runs, poolVars>>,
               step \in Launching => co.at \in Launching,
               step \in Answering => co.at \in Answering,
               step # "reap", step \in {"unbuilt", "ready", "returned"} => \A a \in Agents : job[a] = None
        PROVE  PoolTypeOK' /\ PoolOK'
    <2>1. PoolTypeOK'
      BY <1>0, <1>1, GoTypes DEF PoolTypeOK, poolVars
    <2>2. PoolOK'
      BY <1>0, <1>1, <1>p, GoTypes DEF PoolOK, poolVars, Done
    <2>3. QED
      BY <2>1, <2>2
  <1>2. ASSUME Build, UNCHANGED poolVars
        PROVE  PoolTypeOK' /\ PoolOK'
    <2>1. Go("ready") /\ "ready" \in Steps
      BY <1>2 DEF Build, Steps
    <2>2. PoolTypeOK'
      BY <1>0, <1>2, <2>1, GoTypes DEF PoolTypeOK, poolVars, Build
    <2>3. PoolOK'
      BY <1>0, <1>2, <1>p, <2>1, GoTypes DEF PoolOK, poolVars, Build
    <2>4. QED
      BY <2>2, <2>3
  <1>3. ASSUME NEW ts \in TaskLists, Start(ts), UNCHANGED poolVars
        PROVE  PoolTypeOK' /\ PoolOK'
    <2>1. ts \in Seq(Tasks) /\ Range(ts) \subseteq Tasks
      BY TeamAssumption DEF Range
    <2>2. Ordered(known, Place) \in Seq(Workforce)
      <3>1. known \in SUBSET Workforce /\ Ordered(known, Place) \in Seq(known)
        BY <1>0, KnownInOrder DEF PoolTypeOK
      <3>2. QED
        BY <3>1
    <2>3. co' \in CoType /\ co'.at = "loop"
      BY <1>0, <1>3, <2>1, <2>2 DEF PoolTypeOK, CoType, Start, Steps
    <2>4. PoolTypeOK'
      BY <1>0, <1>3, <2>3 DEF PoolTypeOK, poolVars, Start
    <2>5. PoolOK'
      BY <1>3, <1>p, <2>3 DEF PoolOK, poolVars
    <2>6. QED
      BY <2>4, <2>5
  <1>4. ASSUME Launch, UNCHANGED <<known, runs, poolVars>>
        PROVE  PoolTypeOK' /\ PoolOK'
    <2>1. /\ co.todo \in Seq(Tasks) /\ co.todo # <<>>
          /\ co.avail \in Seq(Workforce) /\ co.avail # <<>>
      BY <1>0, <1>4 DEF Launch, CanLaunch, PoolTypeOK, CoType
    <2>2. /\ Head(co.todo) \in Tasks /\ Tail(co.todo) \in Seq(Tasks)
          /\ Head(co.avail) \in Workforce /\ Tail(co.avail) \in Seq(Workforce)
      BY <2>1, HeadAndTail
    <2>3. /\ co' \in CoType /\ co'.at = "look" /\ co'.task \in Tasks /\ co'.agent \in Workforce
      BY <1>0, <1>4, <1>f, <2>2 DEF Launch, PoolTypeOK, CoType, Steps
    <2>4. PoolTypeOK'
      BY <1>0, <1>4, <2>3 DEF PoolTypeOK, poolVars
    <2>5. PoolOK'
      BY <1>4, <1>p, <2>3 DEF PoolOK, poolVars
    <2>6. QED
      BY <2>4, <2>5
  <1>5. ASSUME ClaimTask, UNCHANGED <<known, runs, poolVars>>
        PROVE  PoolTypeOK' /\ PoolOK'
    <2>1. CASE Go("aborting")
      BY <1>1, <1>5, <2>1 DEF Steps
    <2>2. CASE \E m \in Messages : co' = [co EXCEPT !.task = m, !.at = IF IsTheTask(m) THEN "hire" ELSE "aborting"]
      <3>1. PICK m \in Messages :
              co' = [co EXCEPT !.task = m, !.at = IF IsTheTask(m) THEN "hire" ELSE "aborting"]
        BY <2>2
      <3>2. /\ co' \in CoType /\ co'.agent = co.agent /\ co'.task = m /\ co'.batch = co.batch
            /\ co'.at = "aborting" \/ (co'.at = "hire" /\ m = co.task)
        BY <1>0, <3>1 DEF PoolTypeOK, CoType, Steps, IsTheTask
      <3>3. PoolTypeOK'
        BY <1>0, <1>5, <3>2 DEF PoolTypeOK, poolVars
      <3>4. PoolOK'
        BY <1>5, <1>p, <3>2 DEF PoolOK, poolVars, ClaimTask
      <3>5. QED
        BY <3>3, <3>4
    <2>3. QED
      BY <1>5, <2>1, <2>2 DEF ClaimTask
  <1>6. ASSUME Submit, UNCHANGED <<known, runs>>
        PROVE  PoolTypeOK' /\ PoolOK'
    <2>1. Go("loop") /\ "loop" \in Steps /\ co.agent \in Workforce /\ co.task \in Tasks
      BY <1>6, <1>p DEF Submit, Steps, PoolOK
    <2>2. PoolTypeOK'
      BY <1>0, <1>6, <1>f, <2>1, GoTypes DEF PoolTypeOK, Submit, Outcomes
    <2>3. PoolOK'
      <3>1. co'.at = "loop"
        BY <1>0, <2>1, GoTypes
      <3>2. \A a \in Agents : /\ job'[a] = IF a = co.agent THEN co.task ELSE job[a]
                              /\ future'[a] = IF a = co.agent THEN "running" ELSE future[a]
        BY <1>0, <1>6 DEF Submit, PoolTypeOK
      <3>3. QED
        BY <1>p, <1>f, <2>1, <3>1, <3>2 DEF PoolOK
    <2>4. QED
      BY <2>2, <2>3
  <1>7. ASSUME NEW a \in Workforce, NEW o \in {"returned", "raised"}, WorkerEnds(a, o), UNCHANGED <<known, runs>>
        PROVE  PoolTypeOK' /\ PoolOK'
    <2>1. PoolTypeOK'
      BY <1>0, <1>7, <1>f DEF PoolTypeOK, WorkerEnds, Outcomes
    <2>2. \A b \in Agents : future'[b] = IF b = a THEN o ELSE future[b]
      BY <1>0, <1>7 DEF WorkerEnds, PoolTypeOK
    <2>3. Done \subseteq Done' /\ (future[a] # "none")
      BY <1>7, <1>f, <2>2 DEF Done, WorkerEnds
    <2>4. PoolOK'
      BY <1>7, <1>p, <1>f, <2>2, <2>3 DEF PoolOK, WorkerEnds
    <2>5. QED
      BY <2>1, <2>4
  <1>8. ASSUME Wait, UNCHANGED <<known, runs, poolVars>>
        PROVE  PoolTypeOK' /\ PoolOK'
    <2>1. co' \in CoType /\ co'.at = "reap" /\ co'.batch = Done
      BY <1>0, <1>8 DEF Wait, PoolTypeOK, CoType, Steps, Done
    <2>2. PoolTypeOK'
      BY <1>0, <1>8, <2>1 DEF PoolTypeOK, poolVars
    <2>3. PoolOK'
      BY <1>8, <1>p, <2>1 DEF PoolOK, poolVars, Done
    <2>4. QED
      BY <2>2, <2>3
  <1>9. ASSUME Reap, UNCHANGED <<known, runs, poolVars>>
        PROVE  PoolTypeOK' /\ PoolOK'
    <2>1. PICK a \in co.batch :
            co' = [co EXCEPT !.agent = a, !.task = job[a], !.batch = @ \ {a},
                             !.at = IF HeldBy(job[a], LeaseOf[a]) THEN "ack" ELSE "aborting"]
      BY <1>9 DEF Reap
    <2>2. co.batch \subseteq Done /\ a \in Workforce /\ a \in Agents /\ job[a] \in Messages \cup {None}
      BY <1>0, <1>9, <1>p, <1>f DEF Reap, PoolOK, Done, PoolTypeOK
    <2>3. /\ co' \in CoType /\ co'.agent = a /\ co'.task = job[a] /\ co'.batch = co.batch \ {a}
          /\ co'.at \in {"ack", "aborting"}
      BY <1>0, <2>1, <2>2 DEF PoolTypeOK, CoType, Steps
    <2>4. PoolTypeOK'
      BY <1>0, <1>9, <2>3 DEF PoolTypeOK, poolVars
    <2>5. PoolOK'
      BY <1>9, <1>p, <2>2, <2>3 DEF PoolOK, poolVars, Done
    <2>6. QED
      BY <2>4, <2>5
  <1>10. ASSUME CollectResult, UNCHANGED <<known, runs>>
         PROVE  PoolTypeOK' /\ PoolOK'
    <2> DEFINE a == co.agent
    <2>1. a \in Done \ co.batch /\ co.task = job[a] /\ co.batch \subseteq Done
      BY <1>10, <1>p DEF CollectResult, PoolOK
    <2>2. a \in Workforce /\ a \in Agents /\ job[a] \in Tasks /\ future[a] \in {"returned", "raised"}
      BY <1>f, <1>p, <2>1 DEF Done, PoolOK
    <2>3. ResultOf(a) \in Result
      BY <2>1, <2>2 DEF ResultOf, Result, Outcomes
    <2>4. Append(co.avail, a) \in Seq(Workforce)
      BY <1>0, <2>2, AppendedSeq DEF PoolTypeOK, CoType
    <2>5. co' \in CoType /\ co'.batch = co.batch /\ co'.at = IF co.batch = {} THEN "loop" ELSE "reap"
      BY <1>0, <1>10, <2>3, <2>4 DEF CollectResult, PoolTypeOK, CoType, Steps
    <2>6. \A b \in Agents : /\ future'[b] = IF b = a THEN "none" ELSE future[b]
                            /\ job'[b] = IF b = a THEN None ELSE job[b]
      BY <1>0, <1>10 DEF CollectResult, PoolTypeOK
    <2>7. PoolTypeOK'
      BY <1>0, <1>10, <2>5 DEF PoolTypeOK, CollectResult, Outcomes
    <2>8. PoolOK'
      BY <1>p, <1>f, <2>1, <2>2, <2>5, <2>6 DEF PoolOK, Done
    <2>9. QED
      BY <2>7, <2>8
  <1>11. ASSUME NEW step \in {"ready", "unbuilt"}, Go(step), NoFutures, UNCHANGED <<known, runs>>
         PROVE  PoolTypeOK' /\ PoolOK'
    <2>1. step \in Steps
      BY DEF Steps
    <2>2. PoolTypeOK'
      BY <1>0, <1>11, <2>1, GoTypes DEF PoolTypeOK, NoFutures, Outcomes
    <2>3. PoolOK'
      BY <1>0, <1>11, <2>1, GoTypes DEF PoolOK, NoFutures
    <2>4. QED
      BY <2>2, <2>3
  <1>12. ASSUME LookUp \/ ClaimLook \/ SendTask \/ AckTask \/ Hire \/ Report \/ WriteBusy \/ WriteVerdict,
                UNCHANGED <<known, runs, poolVars>>
         PROVE  PoolTypeOK' /\ PoolOK'
    <2>1. PICK step \in Steps : /\ Go(step)
                                /\ step \in Launching => co.at \in Launching
                                /\ step \in Answering => co.at \in Answering
                                /\ step \notin {"reap", "unbuilt", "ready", "returned"}
      BY <1>12 DEF LookUp, ClaimLook, SendTask, AckTask, Hire, Report, WriteBusy, WriteVerdict,
                   SetTo, Write, Steps
    <2>2. QED
      BY <1>1, <1>12, <2>1
  <1>13. ASSUME Finish, UNCHANGED <<known, runs, poolVars>>
         PROVE  PoolTypeOK' /\ PoolOK'
    <2>1. \A a \in Agents : job[a] = None
      BY <1>13, <1>p, <1>f DEF Finish, PoolOK, Running
    <2>2. PICK step \in {"returned", "aborting"} : Go(step)
      BY <1>13 DEF Finish
    <2>3. QED
      BY <1>1, <1>13, <2>1, <2>2 DEF Steps
  <1>14. QED
    BY <1>2, <1>3, <1>4, <1>5, <1>6, <1>7, <1>8, <1>9, <1>10, <1>11, <1>12, <1>13
       DEF TeamStep, Abort, Die

\* The statements the coordinator issues on the store keep it typed.
LEMMA TeamStoreTypes ==
    ASSUME TypeInv, TeamStep
    PROVE  TreeTypeOK' /\ MailTypeOK' /\ UNCHANGED op
  <1> USE DEF TypeInv, TypeOK
  <1>1. CASE UNCHANGED storeVars
    BY <1>1 DEF storeVars, TreeTypeOK, MailTypeOK, mailVars, leaseVars
  <1>2. CASE SendTask \/ ClaimTask \/ AckTask
    <2>1. co.agent \in Workforce /\ co.agent \in Agents /\ co.task \in Messages
      BY <1>2, TeamFacts, TeamAssumption
         DEF SendTask, ClaimTask, AckTask, At, PoolOK, Launching, Answering, Done
    <2>2. LeaseOf[co.agent] \in Workers /\ TaskKind \in Kinds
      BY <2>1, TeamAssumption DEF Workforce
    <2>3. MailTypeOK'
      <3>1. CASE UNCHANGED mailVars
        BY <3>1 DEF MailTypeOK, mailVars, leaseVars
      <3>2. CASE ~UNCHANGED mailVars
        BY <1>2, <2>1, <2>2, <3>2, MailTypes DEF SendTask, ClaimTask, AckTask
      <3>3. QED
        BY <3>1, <3>2
    <2>4. UNCHANGED <<parent, status, op>>
      BY <1>2 DEF TeamStep, storeVars, SendTask, ClaimTask, AckTask, Build, Start, Launch, LookUp,
                  ClaimLook, Hire, Wait, Reap, Report, Finish, WriteBusy, WriteVerdict, Submit,
                  CollectResult, Abort, Die, At
    <2>5. QED
      BY <2>3, <2>4 DEF TreeTypeOK
  <1>3. CASE (WriteBusy \/ WriteVerdict) /\ UNCHANGED <<parent, op, mailVars>>
    BY <1>3 DEF WriteBusy, WriteVerdict, Write, Verdict, TreeTypeOK, LiveStatuses, TerminalStatuses,
                MailTypeOK, mailVars, leaseVars
  <1>4. QED
    BY <1>1, <1>2, <1>3 DEF TeamStep

\* What a step does to each part of the state, by the scene and by who takes it.
TreeMove == scene = "tree" /\ \E p \in users : TreeStep(p) /\ UNCHANGED <<mailVars, teamVars>>
MailMove ==
    /\ scene = "mail" /\ UNCHANGED <<parent, status, teamVars>>
    /\ \E p \in users : MailStep(p) \/ (Crash(p) /\ UNCHANGED mailVars)
TickMove == scene # "tree" /\ Tick /\ UNCHANGED <<parent, status, op, teamVars>>
TeamMove == scene = "team" /\ TeamStep
MeddleMove == scene = "team" /\ \E p \in users \ {Home} : Meddle(p) /\ UNCHANGED teamVars

LEMMA Moves ==
    [Next]_vars =>
        /\ UNCHANGED <<scene, users>>
        /\ TreeMove \/ MailMove \/ TickMove \/ TeamMove \/ MeddleMove \/ UNCHANGED vars
  <1>1. CASE UNCHANGED vars
    BY <1>1 DEF vars, graphVars
  <1>2. CASE Next
    <2>1. UNCHANGED <<co, known, runs, poolVars>> => UNCHANGED teamVars
      BY DEF teamVars
    <2>2. CASE scene = "tree"
      BY <1>2, <2>1, <2>2, Zenon DEF Next, TreeMove, teamVars
    <2>3. CASE scene = "mail"
      <3>1. /\ \/ \E p \in users : MailStep(p) /\ UNCHANGED <<parent, status>>
               \/ \E p \in users : Crash(p) /\ UNCHANGED mailVars
               \/ Tick /\ UNCHANGED <<parent, status, op>>
            /\ UNCHANGED teamVars /\ UNCHANGED <<scene, users>>
        BY <1>2, <2>1, <2>3 DEF Next
      <3>2. \A p \in users : Crash(p) => UNCHANGED <<parent, status>>
        BY DEF Crash
      <3>3. QED
        BY <2>3, <3>1, <3>2 DEF MailMove, TickMove
    <2>4. CASE scene = "team"
      BY <1>2, <2>1, <2>4 DEF Next, TeamMove, TickMove, MeddleMove
    <2>5. QED
      BY <1>2, <2>2, <2>3, <2>4 DEF Next
  <1>3. QED
    BY <1>1, <1>2

\* The tables, the calls and the coordinator have the states the code gives them.
THEOREM TypeCorrect == Spec => []TypeInv
  <1>1. Init => TypeInv
    <2> SUFFICES ASSUME Init PROVE TypeInv
      OBVIOUS
    <2>1. TreeTypeOK
      BY TeamAssumption DEF Init, TreeTypeOK, LiveStatuses
    <2>2. MailTypeOK
      BY DEF Init, MailTypeOK
    <2>3. PoolTypeOK
      BY DEF Init, PoolTypeOK, CoType, Steps, Outcomes
    <2>4. PoolOK
      BY DEF Init, PoolOK, Launching, Answering
    <2>5. QED
      BY <2>1, <2>2, <2>3, <2>4 DEF Init, TypeInv, TypeOK, PoolTypeOK, CoType
  <1>2. TypeInv /\ [Next]_vars => TypeInv'
    <2> SUFFICES ASSUME TypeInv, [Next]_vars
                 PROVE  TypeInv'
      OBVIOUS
    <2> DEFINE OpOK == op' \in [Processes -> {NoCall} \cup TreeCalls \cup MailCalls]
    <2>1. scene' = scene /\ users' = users /\ users \subseteq Processes
      BY Moves, TeamAssumption DEF TypeInv, TypeOK
    <2>2. SUFFICES TreeTypeOK' /\ MailTypeOK' /\ OpOK /\ PoolTypeOK' /\ PoolOK'
      BY <2>1 DEF TypeInv, TypeOK, PoolTypeOK, CoType
    <2>3. UNCHANGED teamVars => PoolTypeOK' /\ PoolOK'
      BY DEF TypeInv, TypeOK, PoolTypeOK, CoType, PoolOK, teamVars, poolVars, Done
    <2>4. UNCHANGED mailVars => MailTypeOK'
      BY DEF TypeInv, TypeOK, MailTypeOK, mailVars, leaseVars
    <2>5. UNCHANGED <<parent, status>> => TreeTypeOK'
      BY DEF TypeInv, TypeOK, TreeTypeOK
    <2>6. CASE TreeMove
      BY <2>1, <2>3, <2>4, <2>6, TreeTypes DEF TreeMove, TypeInv
    <2>7. CASE MailMove
      <3>1. PICK p \in users : MailStep(p) \/ (Crash(p) /\ UNCHANGED mailVars)
        BY <2>7 DEF MailMove
      <3>2. MailTypeOK' /\ OpOK
        <4>1. CASE MailStep(p)
          BY <2>1, <4>1, MailCallTypes DEF TypeInv
        <4>2. CASE Crash(p) /\ UNCHANGED mailVars
          BY <2>1, <2>4, <4>2, EnterTypes DEF Crash, Leave, TypeInv
        <4>3. QED
          BY <3>1, <4>1, <4>2
      <3>3. QED
        BY <2>3, <2>5, <2>7, <3>2 DEF MailMove
    <2>8. CASE TickMove
      BY <2>3, <2>5, <2>8, TickTypes DEF TickMove, TypeInv, TypeOK
    <2>9. CASE TeamMove
      BY <2>9, TeamTypes, TeamStoreTypes DEF TeamMove, TypeInv, TypeOK
    <2>10. CASE MeddleMove
      BY <2>1, <2>3, <2>10, MeddleTypes DEF MeddleMove, TypeInv
    <2>11. CASE UNCHANGED vars
      BY <2>3, <2>4, <2>5, <2>11 DEF vars, graphVars, teamVars, TypeInv, TypeOK
    <2>12. QED
      BY <2>6, <2>7, <2>8, <2>9, <2>10, <2>11, Moves
  <1>3. QED
    BY <1>1, <1>2, PTL DEF Spec

-----------------------------------------------------------------------------
(* Tasks run once *)

\* A message that exists stays, with its recipient.
MailKept ==
    \A m \in Messages : mail[m] # "absent" => mail'[m] # "absent" /\ to'[m] = to[m]

LEMMA StatementsKeepMail ==
    ASSUME MailTypeOK, NEW m \in Messages
    PROVE  /\ \A a \in Agents, k \in Kinds : InsertMail(m, a, k) => MailKept
           /\ \A w \in Workers : LeaseTo(m, w) => MailKept
           /\ \A w \in Workers : AckMail(m, w) => MailKept
           /\ \A s \in {"pending", "cancelled"} : Overwrite(m, s) => MailKept
           /\ UNCHANGED mailVars => MailKept
  BY DEF MailTypeOK, MailKept, InsertMail, LeaseTo, AckMail, Overwrite, mailVars, leaseVars

LEMMA CallsKeepMail ==
    ASSUME TypeOK, NEW p \in Processes,
           \/ MailStep(p)
           \/ \E a \in Agents, m \in Messages, k \in Kinds : BeginSend(p, Boss, a, m, k)
    PROVE  MailKept
  <1>1. ASSUME UNCHANGED mailVars
        PROVE  MailKept
    BY <1>1 DEF mailVars, leaseVars, MailKept
  <1>2. CASE Send(p)
    <2>1. op[p].mail \in Messages /\ op[p].to \in Agents /\ op[p].kind \in Kinds
      BY <1>2, CallShape DEF Send
    <2>2. QED
      BY <1>1, <1>2, <2>1, StatementsKeepMail DEF Send, TypeOK
  <1>3. CASE Claim(p)
    <2>1. op[p].worker \in Workers
      BY <1>3, CallShape DEF Claim
    <2>2. QED
      BY <1>1, <1>3, <2>1, StatementsKeepMail DEF Claim, TypeOK
  <1>4. CASE Ack(p) \/ Release(p) \/ CancelMessage(p)
    <2>1. op[p].mail \in Messages /\ (op[p].call = "ack" => op[p].worker \in Workers)
      BY <1>4, CallShape DEF Ack, Release, CancelMessage
    <2>2. QED
      BY <1>4, <2>1, StatementsKeepMail DEF Ack, Release, CancelMessage, TypeOK
  <1>5. QED
    BY <1>1, <1>2, <1>3, <1>4 DEF MailStep, BeginSend, BeginClaim, BeginHeld, BeginCancelMessage

LEMMA StepsKeepMail ==
    ASSUME TypeInv, [Next]_vars
    PROVE  MailKept
  <1>0. users \subseteq Processes /\ TypeOK /\ MailTypeOK
    BY TeamAssumption DEF TypeInv, TypeOK
  <1>1. ASSUME UNCHANGED <<mail, to>>
        PROVE  MailKept
    BY <1>1 DEF MailKept
  <1>2. CASE TreeMove
    BY <1>1, <1>2 DEF TreeMove, mailVars, leaseVars
  <1>3. CASE MailMove
    BY <1>0, <1>1, <1>3, CallsKeepMail DEF MailMove, mailVars, leaseVars
  <1>4. CASE TickMove
    BY <1>1, <1>4 DEF TickMove, Tick, leaseVars
  <1>5. CASE TeamMove
    <2>1. CASE UNCHANGED mailVars
      BY <1>1, <2>1 DEF mailVars, leaseVars
    <2>2. CASE SendTask \/ ClaimTask \/ AckTask
      <3>1. co.agent \in Workforce /\ co.agent \in Agents /\ co.task \in Messages
        BY <2>2, TeamFacts, TeamAssumption
           DEF TypeInv, TypeOK, SendTask, ClaimTask, AckTask, At, PoolOK, Launching, Answering, Done
      <3>2. LeaseOf[co.agent] \in Workers /\ TaskKind \in Kinds
        BY <3>1, TeamAssumption DEF Workforce
      <3>3. QED
        BY <1>0, <1>1, <2>2, <3>1, <3>2, StatementsKeepMail DEF SendTask, ClaimTask, AckTask
    <2>3. QED
      BY <1>5, <2>1, <2>2 DEF TeamMove, TeamStep, storeVars
  <1>6. CASE MeddleMove
    <2>1. PICK p \in users \ {Home} : Meddle(p)
      BY <1>6 DEF MeddleMove
    <2>2. CASE \E a \in Targets, m \in Letters \ Tasks : BeginSend(p, Boss, a, m, TaskKind)
      BY <1>0, <2>2, CallsKeepMail, TeamAssumption, MailboxAssumption
    <2>3. CASE (\E m \in Messages : BeginCancelMessage(p, m)) \/ Send(p) \/ CancelMessage(p)
      BY <1>0, <2>3, CallsKeepMail DEF MailStep
    <2>4. CASE UNCHANGED mailVars
      BY <1>1, <2>4 DEF mailVars, leaseVars
    <2>5. QED
      BY <2>1, <2>2, <2>3, <2>4 DEF Meddle
  <1>7. CASE UNCHANGED vars
    BY <1>1, <1>7 DEF vars, mailVars, leaseVars
  <1>8. QED
    BY <1>2, <1>3, <1>4, <1>5, <1>6, <1>7, Moves

\* What launch has sent: the message of the task, to the worker it is launching.
Sent == {"lookup", "claim", "hire", "busy", "submit"}

RunInv ==
    /\ \A m \in Messages : mail[m] = "absent" => ran[m] = 0
    /\ \A m \in Messages : ran[m] <= IF m \in Tasks THEN 1 ELSE 0
    /\ co.at \in Sent =>
         mail[co.task] # "absent" /\ to[co.task] = co.agent /\ ran[co.task] = 0
    /\ \A a \in Agents : job[a] # None => mail[job[a]] # "absent" /\ to[job[a]] = a

LEMMA RunsHold == Spec => []RunInv
  <1>1. Init => RunInv
    BY DEF Init, RunInv, Sent
  <1>2. TypeInv /\ RunInv /\ [Next]_vars => RunInv'
    <2> SUFFICES ASSUME TypeInv, RunInv, [Next]_vars
                 PROVE  RunInv'
      OBVIOUS
    <2> USE DEF At
    <2>0. MailKept /\ PoolTypeOK /\ PoolOK /\ Workforce \subseteq Agents /\ Tasks \subseteq Messages
      BY StepsKeepMail, TeamFacts, TeamAssumption DEF TypeInv, TypeOK, PoolTypeOK, CoType
    <2>j. \A a \in Agents : job[a] # None => job[a] \in Messages
      BY <2>0 DEF PoolOK
    <2>s. co.at \in Sent => co.task \in Messages /\ co.agent \in Agents
      BY <2>0 DEF PoolOK, Sent, Launching
    <2> DEFINE StillSent == co'.at \in Sent => co.at \in Sent /\ co'.task = co.task /\ co'.agent = co.agent
    <2>1. ASSUME UNCHANGED ran, StillSent,
                 \A a \in Agents : job'[a] # None => job'[a] = job[a]
          PROVE  RunInv'
      BY <2>0, <2>j, <2>s, <2>1 DEF RunInv, MailKept
    <2>2. ASSUME UNCHANGED teamVars
          PROVE  RunInv'
      BY <2>1, <2>2 DEF teamVars, poolVars
    <2>3. ASSUME NEW step \in Steps, Go(step), step \in Sent => co.at \in Sent
          PROVE  StillSent
      BY <2>0, <2>3, GoTypes
    <2>4. CASE TeamMove
      <3>1. CASE Submit
        <4>1. co.agent \in Agents /\ co.task \in Tasks /\ co.at = "submit"
          BY <2>0, <3>1 DEF Submit, PoolOK, Launching
        <4>2. /\ \A a \in Agents : job'[a] = IF a = co.agent THEN co.task ELSE job[a]
              /\ \A m \in Messages : ran'[m] = IF m = co.task THEN ran[m] + 1 ELSE ran[m]
          BY <2>0, <3>1 DEF Submit, PoolTypeOK
        <4>3. co'.at = "loop"
          BY <2>0, <3>1, GoTypes DEF Submit, Steps
        <4>4. mail[co.task] # "absent" /\ to[co.task] = co.agent /\ ran[co.task] = 0
          BY <4>1 DEF RunInv, Sent
        <4>5. QED
          BY <2>0, <2>j, <4>1, <4>2, <4>3, <4>4 DEF RunInv, MailKept, Sent
      <3>2. CASE SendTask /\ UNCHANGED poolVars
        <4>1. co.agent \in Agents /\ co.task \in Messages /\ co.at = "send" /\ UNCHANGED poolVars
          BY <2>0, <3>2 DEF SendTask, PoolOK, Launching
        <4>2. CASE Go("aborting")
          BY <2>1, <2>3, <4>1, <4>2 DEF Sent, Steps, poolVars
        <4>3. CASE InsertMail(co.task, co.agent, TaskKind) /\ Go("lookup")
          <5>1. /\ mail[co.task] = "absent" /\ mail'[co.task] = "pending" /\ to'[co.task] = co.agent
            BY <4>1, <4>3 DEF InsertMail, TypeInv, TypeOK, MailTypeOK
          <5>2. co'.task = co.task /\ co'.agent = co.agent
            BY <2>0, <4>3, GoTypes DEF Steps
          <5>3. QED
            BY <2>0, <2>j, <4>1, <5>1, <5>2 DEF RunInv, MailKept, poolVars
        <4>4. QED
          BY <3>2, <4>2, <4>3 DEF SendTask
      <3>3. CASE UNCHANGED poolVars /\ ~SendTask
        <4>1. StillSent
          <5>1. CASE Launch \/ Wait \/ Reap \/ \E ts \in TaskLists : Start(ts)
            BY <2>0, <5>1, ZenonT(30) DEF Launch, Wait, Reap, Start, Sent, PoolTypeOK, CoType
          <5>2. CASE ClaimTask
            <6>1. CASE Go("aborting")
              BY <2>3, <6>1 DEF Sent, Steps
            <6>2. CASE \E m \in Messages : co' = [co EXCEPT !.task = m, !.at = IF IsTheTask(m) THEN "hire" ELSE "aborting"]
              <7>1. co'.at = "aborting" \/ (co'.at = "hire" /\ co'.task = co.task /\ co'.agent = co.agent)
                BY <2>0, <6>2 DEF PoolTypeOK, CoType, IsTheTask
              <7>2. QED
                BY <5>2, <7>1 DEF ClaimTask, Sent
            <6>3. QED
              BY <5>2, <6>1, <6>2 DEF ClaimTask
          <5>3. CASE \/ Build \/ LookUp \/ ClaimLook \/ Hire \/ Report \/ Finish \/ AckTask
                     \/ WriteBusy \/ WriteVerdict
            <6>1. \E step \in Steps : Go(step) /\ (step \in Sent => co.at \in Sent)
              BY <5>3 DEF Build, LookUp, ClaimLook, Hire, Report, Finish, AckTask, WriteBusy, WriteVerdict,
                          SetTo, Write, Sent, Steps
            <6>2. QED
              BY <2>3, <6>1
          <5>4. CASE Abort \/ Die
            BY <2>3, <5>4 DEF Abort, Die, Sent, Steps
          <5>5. CASE \E a \in Workforce, o \in {"returned", "raised"} : WorkerEnds(a, o)
            BY <5>5 DEF WorkerEnds
          <5>6. CASE CollectResult \/ Submit
            BY <2>0, <5>6 DEF CollectResult, Submit, Go, Sent, PoolTypeOK, CoType
          <5>7. QED
            BY <2>4, <3>3, <5>1, <5>2, <5>3, <5>4, <5>5, <5>6 DEF TeamMove, TeamStep
        <4>2. QED
          BY <2>1, <3>3, <4>1 DEF poolVars
      <3>4. CASE CollectResult
        <4>1. co'.at \notin Sent /\ UNCHANGED ran
          BY <2>0, <3>4 DEF CollectResult, PoolTypeOK, CoType, Sent
        <4>2. \A a \in Agents : job'[a] \in {None, job[a]}
          BY <2>0, <3>4 DEF CollectResult, PoolTypeOK
        <4>3. QED
          BY <2>1, <4>1, <4>2
      <3>5. CASE Abort \/ Die
        <4>1. StillSent
          BY <2>3, <3>5 DEF Abort, Die, Sent, Steps
        <4>2. QED
          BY <2>1, <3>5, <4>1 DEF Abort, Die, NoFutures
      <3>6. CASE \E a \in Workforce, o \in {"returned", "raised"} : WorkerEnds(a, o)
        BY <2>1, <3>6 DEF WorkerEnds
      <3>7. QED
        BY <2>4, <3>1, <3>2, <3>3, <3>4, <3>5, <3>6 DEF TeamMove, TeamStep, SendTask
    <2>5. CASE UNCHANGED vars
      BY <2>2, <2>5 DEF vars, teamVars
    <2>6. QED
      BY <2>2, <2>4, <2>5, Moves DEF TreeMove, MailMove, TickMove, MeddleMove
  <1>3. QED
    BY <1>1, <1>2, TypeCorrect, PTL DEF Spec

\* A task's callback is started once, on the agent the task was sent to: a second
\* run of the same task fails at the key of the message, whatever happened to the
\* message or to the process in between.
THEOREM TasksRunOnce == Spec => []TaskRunsOnce
  <1>1. TypeInv /\ RunInv => TaskRunsOnce
    BY TeamFacts DEF RunInv, TaskRunsOnce
  <1>2. QED
    BY <1>1, TypeCorrect, RunsHold, PTL

-----------------------------------------------------------------------------
(* The mailbox implements the lease ledger *)

LEMMA Alone1 ==
    ASSUME TypeOK, Alone
    PROVE  users = {Home} /\ Home \in Processes
  BY TeamAssumption DEF TypeOK, Alone

\* Nothing happens in the mailbox between the check of a call and its statement.
CheckInv ==
    /\ scene # "team" => co.at = "unbuilt"
    /\ Alone =>
         /\ \A p \in users :
              /\ op[p].call \in {"ack", "release"} => HeldBy(op[p].mail, op[p].worker)
              /\ op[p].call = "cancel_message" => mail[op[p].mail] \in {"pending", "leased"}
              /\ scene = "team" => op[p] = NoCall
         /\ At("ack") => HeldBy(co.task, LeaseOf[co.agent])

LEMMA ChecksHold == Spec => []CheckInv
  <1>1. Init => CheckInv
    <2> SUFFICES ASSUME Init PROVE CheckInv
      OBVIOUS
    <2>1. users \subseteq Processes /\ \A p \in Processes : op[p] = NoCall
      BY TeamAssumption DEF Init
    <2>2. QED
      BY <2>1 DEF Init, CheckInv, NoCall, At
  <1>2. TypeInv /\ CheckInv /\ [Next]_vars => CheckInv'
    <2> SUFFICES ASSUME TypeInv, CheckInv, [Next]_vars
                 PROVE  CheckInv'
      OBVIOUS
    <2> USE DEF TypeInv, TypeOK
    <2> DEFINE CallsHold(p) ==
                 /\ op[p].call \in {"ack", "release"} => HeldBy(op[p].mail, op[p].worker)
                 /\ op[p].call = "cancel_message" => mail[op[p].mail] \in {"pending", "leased"}
    <2>0. scene' = scene /\ users' = users /\ (Alone' <=> Alone)
      BY Moves DEF Alone
    <2>1. CASE TreeMove
      <3>1. co'.at = "unbuilt" /\ UNCHANGED mail /\ UNCHANGED owner
        BY <2>1 DEF TreeMove, CheckInv, teamVars, mailVars, leaseVars
      <3>2. ASSUME Alone
            PROVE  op'[Home].call \notin {"ack", "release", "cancel_message"} \/ UNCHANGED op
        <4>1. TreeStep(Home)
          BY <2>1, <3>2, Alone1 DEF TreeMove
        <4>2. \A c : Enter(Home, c) => op'[Home] = c
          BY <3>2, Alone1 DEF Enter
        <4>3. op[Home].call = "cancel" => \A s : [op[Home] EXCEPT !.at = s].call = "cancel"
          BY <3>2, Alone1, CallShape
        <4>4. op'[Home].call = "idle" => op'[Home].call \notin {"ack", "release", "cancel_message"}
          OBVIOUS
        <4>5. Leave(Home) => op'[Home].call = "idle"
          BY <4>2 DEF Leave, NoCall
        <4>6. CancelNext(Home) => op'[Home].call \in {"idle", "cancel"}
          BY <4>2 DEF CancelNext, NoCall
        <4>7. ASSUME \/ \E a \in Agents : BeginCancelSubtree(Home, a)
                     \/ \E a, b \in Agents : BeginCreate(Home, a, b)
                     \/ \E a \in Agents, s \in Reports : BeginSetStatus(Home, a, s)
              PROVE  op'[Home].call \in {"create", "status", "collect"}
          <5>1. \A a \in Agents : BeginCancelSubtree(Home, a) => op'[Home].call = "collect"
            BY <4>2 DEF BeginCancelSubtree
          <5>2. \A a, b \in Agents : BeginCreate(Home, a, b) => op'[Home].call = "create"
            BY <4>2 DEF BeginCreate
          <5>3. \A a \in Agents, t \in Reports : BeginSetStatus(Home, a, t) => op'[Home].call = "status"
            BY <4>2 DEF BeginSetStatus
          <5>4. QED
            BY <4>7, <5>1, <5>2, <5>3
        <4>8. Collect(Home) => op'[Home].call \in {"collect", "cancel"}
          BY <4>2 DEF Collect
        <4>9. LookAgain(Home) \/ CheckAgain(Home) \/ WriteCancelled(Home) => op'[Home].call \in {"idle", "cancel"}
          BY <4>2, <4>3, <4>5, <4>6 DEF LookAgain, CheckAgain, WriteCancelled
        <4>10. InsertAgent(Home) \/ WriteStatus(Home) \/ Crash(Home) => op'[Home].call = "idle"
          BY <4>5 DEF InsertAgent, WriteStatus, Crash
        <4>11. \A a \in Agents : CreateRoot(Home, a) => UNCHANGED op
          BY DEF CreateRoot
        <4>12. QED
          BY <4>1, <4>7, <4>8, <4>9, <4>10, <4>11 DEF TreeStep
      <3>3. QED
        BY <2>0, <2>1, <3>1, <3>2, Alone1 DEF CheckInv, HeldBy, At, TreeMove
    <2>2. CASE MailMove
      <3>1. UNCHANGED co /\ co'.at = "unbuilt"
        BY <2>2 DEF MailMove, CheckInv, teamVars
      <3>2. ASSUME Alone
            PROVE  CallsHold(Home)'
        <4> DEFINE p == Home
        <4>1. MailStep(p) \/ (Crash(p) /\ UNCHANGED mailVars)
          BY <2>2, <3>2, Alone1 DEF MailMove
        <4>2. \A c : Enter(p, c) => op'[p] = c
          BY <3>2, Alone1 DEF Enter
        <4>3. Leave(p) => CallsHold(p)'
          BY <4>2 DEF Leave, NoCall
        <4>4. ASSUME NEW m \in Messages, NEW w \in Workers, NEW c \in {"ack", "release"}, BeginHeld(p, c, m, w)
              PROVE  CallsHold(p)'
          BY <4>2, <4>4 DEF BeginHeld, HeldBy, mailVars, leaseVars
        <4>5. ASSUME NEW m \in Messages, BeginCancelMessage(p, m)
              PROVE  CallsHold(p)'
          BY <4>2, <4>5 DEF BeginCancelMessage, mailVars, leaseVars
        <4>6. ASSUME \/ \E a, b \in Agents, m \in Letters, k \in Kinds : BeginSend(p, a, b, m, k)
                     \/ \E a \in Agents, w \in Workers, ks \in SUBSET Kinds : BeginClaim(p, a, w, ks)
              PROVE  CallsHold(p)'
          <5>1. ASSUME NEW a \in Agents, NEW b \in Agents, NEW m \in Messages, NEW k \in Kinds,
                       BeginSend(p, a, b, m, k)
                PROVE  op'[p].call = "send"
            BY <4>2, <5>1 DEF BeginSend
          <5>2. ASSUME NEW a \in Agents, NEW w \in Workers, NEW ks \in SUBSET Kinds,
                       BeginClaim(p, a, w, ks)
                PROVE  op'[p].call = "claim"
            BY <4>2, <5>2 DEF BeginClaim
          <5>3. op'[p].call \in {"send", "claim"}
            BY <4>6, <5>1, <5>2, MailboxAssumption
          <5>4. QED
            BY <5>3
        <4>7. ASSUME Send(p) \/ Claim(p) \/ Ack(p) \/ Release(p) \/ CancelMessage(p) \/ Crash(p)
              PROVE  CallsHold(p)'
          BY <4>3, <4>7 DEF Send, Claim, Ack, Release, CancelMessage, Crash
        <4>8. QED
          BY <4>1, <4>4, <4>5, <4>6, <4>7 DEF MailStep
      <3>3. QED
        BY <2>0, <2>2, <3>1, <3>2, Alone1 DEF CheckInv, At, MailMove
    <2>3. CASE TickMove
      BY <2>0, <2>3 DEF TickMove, Tick, leaseVars, teamVars, CheckInv, HeldBy, At
    <2>4. CASE TeamMove
      <3>1. scene = "team" /\ UNCHANGED op
        BY <2>4, TeamStoreTypes DEF TeamMove
      <3>2. PoolTypeOK
        BY DEF PoolTypeOK, CoType
      <3>3. ASSUME At("ack")'
            PROVE  \/ HeldBy(co'.task, LeaseOf[co'.agent]) /\ UNCHANGED mailVars
                   \/ UNCHANGED <<co, mailVars>>
        <4> USE DEF At
        <4>1. CASE Reap /\ UNCHANGED storeVars
          <5>1. PICK a \in co.batch :
                  co' = [co EXCEPT !.agent = a, !.task = job[a], !.batch = @ \ {a},
                                   !.at = IF HeldBy(job[a], LeaseOf[a]) THEN "ack" ELSE "aborting"]
            BY <4>1 DEF Reap
          <5>2. /\ co'.agent = a /\ co'.task = job[a]
                /\ co'.at = IF HeldBy(job[a], LeaseOf[a]) THEN "ack" ELSE "aborting"
            BY <3>2, <5>1 DEF PoolTypeOK, CoType
          <5>3. QED
            BY <3>3, <4>1, <5>2 DEF storeVars
        <4>2. CASE (\E a \in Workforce, o \in {"returned", "raised"} : WorkerEnds(a, o)) /\ UNCHANGED storeVars
          BY <4>2 DEF WorkerEnds, storeVars
        <4>3. ASSUME ~Reap, ~UNCHANGED co
              PROVE  FALSE
          <5>1. CASE Launch \/ Wait \/ ClaimTask \/ CollectResult \/ \E ts \in TaskLists : Start(ts)
            BY <3>2, <3>3, <5>1 DEF Launch, Wait, ClaimTask, CollectResult, Start, Go, PoolTypeOK, CoType, IsTheTask
          <5>2. CASE \/ Build \/ LookUp \/ ClaimLook \/ Hire \/ Report \/ Finish \/ AckTask \/ SendTask
                     \/ WriteBusy \/ WriteVerdict \/ Submit \/ Abort \/ Die
            <6>1. \E step \in Steps \ {"ack"} : Go(step)
              BY <5>2 DEF Build, LookUp, ClaimLook, Hire, Report, Finish, AckTask, SendTask, WriteBusy,
                          WriteVerdict, Submit, Abort, Die, SetTo, Write, Steps
            <6>2. QED
              BY <3>2, <3>3, <6>1, GoTypes
          <5>3. QED
            BY <2>4, <4>3, <5>1, <5>2 DEF TeamMove, TeamStep, WorkerEnds
        <4>4. UNCHANGED co => UNCHANGED storeVars
          <5>1. CASE SendTask \/ ClaimTask \/ AckTask \/ WriteBusy \/ WriteVerdict
            <6>1. co'.at # co.at
              <7>1. CASE ClaimTask
                BY <3>2, <7>1 DEF ClaimTask, Go, PoolTypeOK, CoType
              <7>2. CASE SendTask \/ AckTask \/ WriteBusy \/ WriteVerdict
                <8>1. \E step \in Steps \ {co.at} : Go(step)
                  BY <7>2 DEF SendTask, AckTask, WriteBusy, WriteVerdict, Write, Steps
                <8>2. QED
                  BY <3>2, <8>1, GoTypes
              <7>3. QED
                BY <5>1, <7>1, <7>2
            <6>2. QED
              BY <6>1
          <5>2. QED
            BY <2>4, <5>1 DEF TeamMove, TeamStep
        <4>5. Reap => UNCHANGED storeVars
          <5>1. Reap => co.at = "reap"
            BY DEF Reap
          <5>2. QED
            BY <2>4, <4>4, <5>1 DEF TeamMove, TeamStep, SendTask, ClaimTask, AckTask, WriteBusy, WriteVerdict
        <4>6. QED
          BY <4>1, <4>3, <4>4, <4>5 DEF storeVars
      <3>4. ASSUME Alone
            PROVE  CallsHold(Home)' /\ op'[Home] = NoCall
        <4>1. op[Home] = NoCall
          BY <3>1, <3>4, Alone1 DEF CheckInv
        <4>2. QED
          BY <3>1, <4>1 DEF NoCall
      <3>5. Alone /\ At("ack")' => HeldBy(co.task, LeaseOf[co.agent])'
        <4>1. CASE HeldBy(co'.task, LeaseOf[co'.agent]) /\ UNCHANGED mailVars
          BY <4>1 DEF HeldBy, mailVars, leaseVars
        <4>2. CASE UNCHANGED <<co, mailVars>>
          BY <4>2 DEF CheckInv, At, HeldBy, mailVars, leaseVars
        <4>3. QED
          BY <3>3, <4>1, <4>2
      <3>6. QED
        BY <2>0, <3>1, <3>4, <3>5, Alone1 DEF CheckInv
    <2>5. CASE MeddleMove
      <3>1. ~Alone
        BY <2>5, Alone1 DEF MeddleMove
      <3>2. QED
        BY <2>0, <2>5, <3>1 DEF CheckInv, MeddleMove
    <2>6. CASE UNCHANGED vars
      BY <2>0, <2>6 DEF CheckInv, vars, graphVars, mailVars, leaseVars, HeldBy, At
    <2>7. QED
      BY <2>1, <2>2, <2>3, <2>4, <2>5, <2>6, Moves
  <1>3. QED
    BY <1>1, <1>2, TypeCorrect, PTL DEF Spec

LedgerPhase == [m \in Messages |-> PhaseOf(mail[m])]
LedgerLapsed == {m \in Messages : mail[m] = "leased" /\ until[m] <= clock}

LEMMA PhaseAt ==
    ASSUME MailTypeOK, NEW m \in Messages
    PROVE  /\ LedgerPhase[m] = PhaseOf(mail[m])
           /\ LedgerPhase[m] = "unknown" <=> mail[m] = "absent"
           /\ LedgerPhase[m] = "free" <=> mail[m] = "pending"
           /\ LedgerPhase[m] = "held" <=> mail[m] = "leased"
  BY DEF MailTypeOK, LedgerPhase, PhaseOf

LEMMA PhaseStep ==
    ASSUME MailTypeOK, NEW m \in Messages, NEW s, mail' = [mail EXCEPT ![m] = s]
    PROVE  LedgerPhase' = [LedgerPhase EXCEPT ![m] = PhaseOf(s)]
  BY DEF MailTypeOK, LedgerPhase

LEMMA PhaseValues ==
    /\ PhaseOf("pending") = "free" /\ PhaseOf("leased") = "held"
    /\ PhaseOf("acked") = "closed" /\ PhaseOf("cancelled") = "closed"
  BY DEF PhaseOf

LEMMA OverwriteLapsed ==
    ASSUME MailTypeOK, NEW m \in Messages, NEW s \in {"pending", "acked", "cancelled"}, Overwrite(m, s)
    PROVE  /\ LedgerLapsed' = LedgerLapsed \ {m}
           /\ LedgerPhase' = [LedgerPhase EXCEPT ![m] = PhaseOf(s)]
           /\ owner' = [owner EXCEPT ![m] = None]
  BY PhaseStep DEF MailTypeOK, LedgerLapsed, Overwrite

\* Each statement on a message is a step of the ledger, given what was checked.
LEMMA SendOpens ==
    ASSUME MailTypeOK, NEW m \in Messages, NEW a, NEW k, InsertMail(m, a, k)
    PROVE  Ledger!Next
  <1>1. mail[m] = "absent" /\ mail' = [mail EXCEPT ![m] = "pending"]
    BY DEF InsertMail
  <1>2. LedgerPhase[m] = "unknown" /\ LedgerPhase' = [LedgerPhase EXCEPT ![m] = "free"]
    <2>1. LedgerPhase' = [LedgerPhase EXCEPT ![m] = PhaseOf("pending")]
      BY <1>1, PhaseStep
    <2>2. QED
      BY <1>1, <2>1, PhaseAt, PhaseValues
  <1>3. UNCHANGED LedgerLapsed
    BY DEF InsertMail, LedgerLapsed, MailTypeOK
  <1>4. Ledger!Open(m)
    BY <1>2, <1>3 DEF Ledger!Open, InsertMail, LedgerPhase, LedgerLapsed
  <1>5. QED
    BY <1>4 DEF Ledger!Next

LEMMA ClaimGrants ==
    ASSUME MailTypeOK, NEW m \in Messages, NEW w \in Workers, Available(m), LeaseTo(m, w)
    PROVE  Ledger!Next
  <1>1. LedgerPhase' = [LedgerPhase EXCEPT ![m] = "held"]
    BY PhaseStep, PhaseValues DEF LeaseTo
  <1>2. LedgerPhase[m] = "free" \/ (LedgerPhase[m] = "held" /\ m \in LedgerLapsed)
    BY PhaseAt DEF Available, LedgerLapsed
  <1>3. ~(clock + LeaseSeconds <= clock)
    BY MailboxAssumption DEF MailTypeOK
  <1>4. LedgerLapsed' = LedgerLapsed \ {m}
    BY <1>3 DEF LedgerLapsed, MailTypeOK, LeaseTo
  <1>5. Ledger!Grant(m, w)
    BY <1>1, <1>2, <1>4 DEF Ledger!Grant, LeaseTo, LedgerPhase, LedgerLapsed
  <1>6. QED
    BY <1>5 DEF Ledger!Next

LEMMA AckCloses ==
    ASSUME MailTypeOK, NEW m \in Messages, NEW w \in Workers, HeldBy(m, w), AckMail(m, w)
    PROVE  Ledger!Next
  <1>1. LedgerPhase[m] = "held"
    BY PhaseAt DEF HeldBy
  <1>2. /\ LedgerLapsed' = LedgerLapsed \ {m}
        /\ LedgerPhase' = [LedgerPhase EXCEPT ![m] = "closed"]
        /\ owner' = [owner EXCEPT ![m] = None]
    BY OverwriteLapsed, PhaseValues DEF AckMail
  <1>3. Ledger!Close(m, w)
    BY <1>1, <1>2 DEF Ledger!Close, AckMail, HeldBy, LedgerPhase, LedgerLapsed
  <1>4. QED
    BY <1>3 DEF Ledger!Next

LEMMA ReleaseReturns ==
    ASSUME MailTypeOK, NEW m \in Messages, NEW w \in Workers, HeldBy(m, w),
           Overwrite(m, "pending"), UNCHANGED acker
    PROVE  Ledger!Next
  <1>1. LedgerPhase[m] = "held"
    BY PhaseAt DEF HeldBy
  <1>2. /\ LedgerLapsed' = LedgerLapsed \ {m}
        /\ LedgerPhase' = [LedgerPhase EXCEPT ![m] = "free"]
        /\ owner' = [owner EXCEPT ![m] = None]
    BY OverwriteLapsed, PhaseValues
  <1>3. Ledger!Return(m, w)
    BY <1>1, <1>2 DEF Ledger!Return, HeldBy, LedgerPhase, LedgerLapsed
  <1>4. QED
    BY <1>3 DEF Ledger!Next

LEMMA CancelWithdraws ==
    ASSUME MailTypeOK, NEW m \in Messages, mail[m] \in {"pending", "leased"},
           Overwrite(m, "cancelled"), UNCHANGED acker
    PROVE  Ledger!Next
  <1>1. LedgerPhase[m] \in {"free", "held"}
    BY PhaseAt
  <1>2. /\ LedgerLapsed' = LedgerLapsed \ {m}
        /\ LedgerPhase' = [LedgerPhase EXCEPT ![m] = "closed"]
        /\ owner' = [owner EXCEPT ![m] = None]
    BY OverwriteLapsed, PhaseValues
  <1>3. Ledger!Withdraw(m)
    BY <1>1, <1>2 DEF Ledger!Withdraw, LedgerPhase, LedgerLapsed
  <1>4. QED
    BY <1>3 DEF Ledger!Next

LEMMA TickLapses ==
    ASSUME MailTypeOK, Tick
    PROVE  Ledger!Next
  <1>1. UNCHANGED LedgerPhase
    BY DEF Tick, leaseVars, LedgerPhase
  <1>2. LedgerLapsed' = LedgerLapsed \cup LedgerLapsed'
    BY DEF Tick, leaseVars, LedgerLapsed, MailTypeOK
  <1>3. LedgerLapsed' \in SUBSET {m \in Messages : LedgerPhase[m] = "held"}
    BY PhaseAt DEF Tick, leaseVars, LedgerLapsed
  <1>4. Ledger!Lapse
    BY <1>1, <1>2, <1>3 DEF Ledger!Lapse, Tick, leaseVars, LedgerPhase, LedgerLapsed
  <1>5. QED
    BY <1>4 DEF Ledger!Next

\* Used by one process, be it by itself or through a coordinator, the mailbox is
\* the lease ledger: a message is held by one worker at a time, acked only by the
\* worker that holds it, and never delivered again once acked or cancelled.
THEOREM MailboxIsLedger == Spec => MailboxImplementsLedger
  <1> USE DEF Ledger!ledgerVars
  <1>1. Init => Ledger!Init
    BY DEF Init, Ledger!Init, PhaseOf
  <1>2. TypeInv /\ CheckInv /\ [Next]_vars => [Alone => Ledger!Next]_(Ledger!ledgerVars)
    <2> SUFFICES ASSUME TypeInv, CheckInv, [Next]_vars, Alone
                 PROVE  Ledger!Next \/ UNCHANGED Ledger!ledgerVars
      OBVIOUS
    <2>0. TypeOK /\ MailTypeOK /\ users = {Home} /\ Home \in Processes
      BY Alone1 DEF TypeInv, TypeOK
    <2>1. ASSUME UNCHANGED mailVars
          PROVE  UNCHANGED Ledger!ledgerVars
      BY <2>1 DEF mailVars, leaseVars
    <2>2. CASE MailMove
      <3> DEFINE p == Home
      <3>1. MailStep(p) \/ (Crash(p) /\ UNCHANGED mailVars)
        BY <2>0, <2>2 DEF MailMove
      <3>2. CASE Send(p)
        <4>1. op[p].mail \in Messages
          BY <2>0, <3>2, CallShape DEF Send
        <4>2. QED
          BY <2>0, <2>1, <3>2, <4>1, SendOpens DEF Send
      <3>3. CASE Claim(p)
        <4>1. op[p].worker \in Workers
          BY <2>0, <3>3, CallShape DEF Claim
        <4>2. QED
          BY <2>0, <2>1, <3>3, <4>1, ClaimGrants DEF Claim, IsNext, Waiting
      <3>4. CASE Ack(p)
        <4>1. op[p].mail \in Messages /\ op[p].worker \in Workers /\ HeldBy(op[p].mail, op[p].worker)
          BY <2>0, <3>4, CallShape DEF Ack, CheckInv
        <4>2. QED
          BY <2>0, <3>4, <4>1, AckCloses DEF Ack
      <3>5. CASE Release(p)
        <4>1. op[p].mail \in Messages /\ op[p].worker \in Workers /\ HeldBy(op[p].mail, op[p].worker)
          BY <2>0, <3>5, CallShape DEF Release, CheckInv
        <4>2. QED
          BY <2>0, <3>5, <4>1, ReleaseReturns DEF Release
      <3>6. CASE CancelMessage(p)
        <4>1. op[p].mail \in Messages /\ mail[op[p].mail] \in {"pending", "leased"}
          BY <2>0, <3>6, CallShape DEF CancelMessage, CheckInv
        <4>2. QED
          BY <2>0, <3>6, <4>1, CancelWithdraws DEF CancelMessage
      <3>7. QED
        BY <2>1, <3>1, <3>2, <3>3, <3>4, <3>5, <3>6
           DEF MailStep, BeginSend, BeginClaim, BeginHeld, BeginCancelMessage
    <2>3. CASE TickMove
      BY <2>0, <2>3, TickLapses DEF TickMove
    <2>4. CASE TeamMove /\ (SendTask \/ ClaimTask \/ AckTask)
      <3>1. co.agent \in Workforce /\ co.task \in Messages
        BY <2>4, TeamFacts, TeamAssumption
           DEF TypeInv, TypeOK, SendTask, ClaimTask, AckTask, At, PoolOK, Launching, Answering, Done
      <3>2. LeaseOf[co.agent] \in Workers
        BY <3>1, TeamAssumption DEF Workforce
      <3>3. SendTask => Ledger!Next \/ UNCHANGED mailVars
        BY <2>0, <3>1, SendOpens DEF SendTask
      <3>4. ClaimTask => Ledger!Next \/ UNCHANGED mailVars
        BY <2>0, <3>2, ClaimGrants DEF ClaimTask, IsNext, Waiting
      <3>5. AckTask => Ledger!Next
        BY <2>0, <3>1, <3>2, AckCloses DEF AckTask, CheckInv
      <3>6. QED
        BY <2>1, <2>4, <3>3, <3>4, <3>5
    <2>5. CASE ~MailMove /\ ~TickMove /\ ~(TeamMove /\ (SendTask \/ ClaimTask \/ AckTask))
      <3>1. UNCHANGED mailVars
        BY <2>0, <2>5, Moves DEF TreeMove, TeamMove, TeamStep, MeddleMove, storeVars, vars
      <3>2. QED
        BY <2>1, <3>1
    <2>6. QED
      BY <2>2, <2>3, <2>4, <2>5
  <1>3. QED
    BY <1>1, <1>2, TypeCorrect, ChecksHold, PTL DEF Spec, MailboxImplementsLedger

-----------------------------------------------------------------------------
(* Cancellation takes down a whole subtree *)

\* Children and Under, of any table of parents.
Kids(par, a) == {c \in Agents : par[c] = a}
Below(par, a) ==
    {d \in Agents : \A S \in SUBSET Agents : (\A c \in S \cup {a} : Kids(par, c) \subseteq S) => d \in S}

LEMMA TreeDefs == \A a : Children(a) = Kids(parent, a) /\ Under(a) = Below(parent, a)
  BY DEF Children, Under, Kids, Below

LEMMA BelowLeast ==
    ASSUME NEW par, NEW a, NEW S \in SUBSET Agents, \A c \in S \cup {a} : Kids(par, c) \subseteq S
    PROVE  Below(par, a) \subseteq S
  BY DEF Below

LEMMA BelowClosed ==
    ASSUME NEW par, NEW a, NEW c \in Below(par, a) \cup {a}
    PROVE  Kids(par, c) \subseteq Below(par, a)
  BY DEF Below, Kids

\* The sweep of the tree: the children of a node come after it in nodes \o queue.
Swept(par, n, q) ==
    \A i \in 1..Len(n) : \A c \in Kids(par, n[i]) :
        \E j \in 1..Len(n) + Len(q) : j > i /\ (n \o q)[j] = c

LEMMA ConcatAt ==
    ASSUME NEW S, NEW s \in Seq(S), NEW t \in Seq(S)
    PROVE  /\ s \o t \in Seq(S) /\ Len(s \o t) = Len(s) + Len(t)
           /\ Len(s) \in Nat /\ Len(t) \in Nat
           /\ \A i \in 1..Len(s) + Len(t) : (s \o t)[i] = IF i <= Len(s) THEN s[i] ELSE t[i - Len(s)]
  BY ConcatProperties, LenProperties

LEMMA SweepGoesOn ==
    ASSUME NEW n \in Seq(Agents), NEW q \in Seq(Agents), q # <<>>, NEW par,
           NEW kids \in Seq(Agents), Kids(par, Head(q)) \subseteq Range(kids), Swept(par, n, q)
    PROVE  Swept(par, Append(n, Head(q)), Tail(q) \o kids)
  <1> DEFINE m == Append(n, Head(q))
             t == Tail(q)
             r == t \o kids
             z == n \o q
             y == m \o r
  <1>1. /\ Len(n) \in Nat /\ Len(q) \in Nat \ {0} /\ Len(kids) \in Nat /\ Head(q) \in Agents
        /\ m \in Seq(Agents) /\ Len(m) = Len(n) + 1
        /\ \A i \in 1..Len(n) : m[i] = n[i]
        /\ m[Len(n) + 1] = Head(q) /\ Head(q) = q[1]
    OBVIOUS
  <1>2. t \in Seq(Agents) /\ Len(t) = Len(q) - 1 /\ \A i \in 1..Len(q) - 1 : t[i] = q[i + 1]
    OBVIOUS
  <1> HIDE DEF m, t
  <1>3. /\ r \in Seq(Agents) /\ Len(r) = Len(q) - 1 + Len(kids)
        /\ \A i \in 1..Len(q) - 1 + Len(kids) : r[i] = IF i <= Len(q) - 1 THEN t[i] ELSE kids[i - (Len(q) - 1)]
    <2>1. /\ r \in Seq(Agents) /\ Len(r) = Len(t) + Len(kids)
          /\ \A i \in 1..Len(t) + Len(kids) : r[i] = IF i <= Len(t) THEN t[i] ELSE kids[i - Len(t)]
      BY <1>2, ConcatAt
    <2>2. QED
      BY <1>2, <2>1
  <1>4. \A i \in 1..Len(n) + Len(q) : z[i] = IF i <= Len(n) THEN n[i] ELSE q[i - Len(n)]
    BY ConcatAt
  <1> HIDE DEF r
  <1>5. \A i \in 1..Len(m) + Len(r) : y[i] = IF i <= Len(m) THEN m[i] ELSE r[i - Len(m)]
    BY <1>1, <1>3, ConcatAt
  <1> HIDE DEF y, z
  <1>6. Len(m) + Len(r) = Len(n) + Len(q) + Len(kids)
    BY <1>1, <1>3
  <1>7. ASSUME NEW i \in 1..Len(n) + Len(q)
        PROVE  y[i] = z[i]
    <2>1. CASE i <= Len(n)
      <3>1. y[i] = m[i] /\ m[i] = n[i]
        BY <1>1, <1>5, <1>6, <2>1
      <3>2. z[i] = n[i]
        BY <1>1, <1>4, <2>1
      <3>3. QED
        BY <3>1, <3>2
    <2>2. CASE i = Len(n) + 1
      <3>1. y[i] = Head(q)
        BY <1>1, <1>5, <1>6, <2>2, SMTT(30)
      <3>2. z[i] = q[1]
        BY <1>1, <1>4, <2>2, SMTT(30)
      <3>3. QED
        BY <1>1, <3>1, <3>2
    <2>3. CASE i > Len(n) + 1
      <3>1. i - Len(m) \in 1..Len(q) - 1 /\ i - Len(m) + 1 = i - Len(n)
        BY <1>1, <2>3
      <3>2. y[i] = r[i - Len(m)] /\ r[i - Len(m)] = t[i - Len(m)] /\ t[i - Len(m)] = q[i - Len(n)]
        <4>1. y[i] = r[i - Len(m)]
          <5>1. i \in 1..Len(m) + Len(r) /\ ~(i <= Len(m))
            BY <1>1, <1>6, <2>3
          <5>2. QED
            BY <1>5, <5>1
        <4>2. r[i - Len(m)] = t[i - Len(m)]
          <5> DEFINE k == i - Len(m)
          <5>1. k \in 1..Len(q) - 1 + Len(kids) /\ k <= Len(q) - 1
            BY <1>1, <3>1
          <5> HIDE DEF k
          <5>2. r[k] = t[k]
            BY <1>3, <5>1
          <5>3. QED
            BY <5>2 DEF k
        <4>3. t[i - Len(m)] = q[i - Len(n)]
          BY <1>2, <3>1
        <4>4. QED
          BY <4>1, <4>2, <4>3
      <3>3. z[i] = q[i - Len(n)]
        BY <1>1, <1>4, <2>3
      <3>4. QED
        BY <3>2, <3>3
    <2>4. QED
      BY <1>1, <2>1, <2>2, <2>3
  <1>8. ASSUME NEW k \in 1..Len(kids)
        PROVE  /\ Len(n) + Len(q) + k \in 1..Len(m) + Len(r)
               /\ y[Len(n) + Len(q) + k] = kids[k]
    <2>1. Len(n) + Len(q) + k \in 1..Len(m) + Len(r) /\ Len(n) + Len(q) + k > Len(m)
      BY <1>1, <1>6
    <2>2. y[Len(n) + Len(q) + k] = r[Len(n) + Len(q) + k - Len(m)]
      BY <1>1, <1>5, <2>1
    <2>3. Len(n) + Len(q) + k - Len(m) = Len(q) - 1 + k
      BY <1>1
    <2>4. r[Len(q) - 1 + k] = kids[k]
      BY <1>1, <1>3, SMTT(30)
    <2>5. QED
      BY <2>1, <2>2, <2>3, <2>4
  <1>9. ASSUME NEW i \in 1..Len(m), NEW c \in Kids(par, m[i])
        PROVE  \E j \in 1..Len(m) + Len(r) : j > i /\ y[j] = c
    <2>1. CASE i <= Len(n)
      <3>1. i \in 1..Len(n) /\ c \in Kids(par, n[i])
        BY <1>1, <1>9, <2>1
      <3>2. PICK j \in 1..Len(n) + Len(q) : j > i /\ z[j] = c
        BY <3>1 DEF Swept, z
      <3>3. j \in 1..Len(m) + Len(r) /\ y[j] = c
        BY <1>1, <1>6, <1>7, <3>2
      <3>4. QED
        BY <3>2, <3>3
    <2>2. CASE i > Len(n)
      <3>1. i = Len(n) + 1 /\ c \in Kids(par, Head(q))
        BY <1>1, <1>9, <2>2
      <3>2. PICK k \in 1..Len(kids) : kids[k] = c
        BY <3>1, SMTT(30) DEF Range
      <3>3. Len(n) + Len(q) + k > i
        BY <1>1, <3>1
      <3>4. QED
        BY <1>8, <3>2, <3>3
    <2>3. QED
      BY <1>1, <2>1, <2>2
  <1>10. QED
    BY <1>9 DEF Swept, m, t, r, y

\* What is left of a cancellation: the children of a node come before it or are
\* in P, the nodes it is done with.
Remaining(par, todo, P) ==
    \A i \in 1..Len(todo) : \A c \in Kids(par, todo[i]) :
        c \in P \/ \E j \in 1..i - 1 : todo[j] = c

\* Reversed, a sweep that is over has every node's children before it.
LEMMA SweepReversed ==
    ASSUME NEW n \in Seq(Agents), NEW par, Swept(par, n, <<>>)
    PROVE  Remaining(par, Reverse(n), {})
  <1> DEFINE z == Reverse(n)
  <1>1. Len(n) \in Nat /\ n \in [1..Len(n) -> Agents]
    OBVIOUS
  <1>2. z \in [1..Len(n) -> Agents]
    BY <1>1 DEF Reverse
  <1>3. Len(z) = Len(n)
    BY <1>1, <1>2, FunctionIsSeq
  <1>4. \A i \in 1..Len(n) : z[i] = n[Len(n) - i + 1]
    BY DEF Reverse
  <1>5. n \o <<>> = n
    OBVIOUS
  <1> HIDE DEF z
  <1>6. ASSUME NEW i \in 1..Len(n), NEW c \in Kids(par, z[i])
        PROVE  \E j \in 1..i - 1 : z[j] = c
    <2>1. Len(n) - i + 1 \in 1..Len(n) /\ c \in Kids(par, n[Len(n) - i + 1])
      BY <1>1, <1>4, <1>6
    <2>2. PICK k \in 1..Len(n) + Len(<<>>) : k > Len(n) - i + 1 /\ (n \o <<>>)[k] = c
      BY <2>1 DEF Swept
    <2>3. k \in 1..Len(n) /\ k > Len(n) - i + 1 /\ n[k] = c
      BY <1>1, <1>5, <2>2
    <2>4. Len(n) - k + 1 \in 1..i - 1 /\ Len(n) - k + 1 \in 1..Len(n)
      BY <1>1, <2>3
    <2>5. z[Len(n) - k + 1] = n[Len(n) - (Len(n) - k + 1) + 1] /\ Len(n) - (Len(n) - k + 1) + 1 = k
      BY <1>1, <1>4, <2>3, <2>4
    <2>6. QED
      BY <2>3, <2>4, <2>5
  <1>7. QED
    BY <1>3, <1>6 DEF Remaining, z

LEMMA RemainingNext ==
    ASSUME NEW todo \in Seq(Agents), todo # <<>>, NEW par, NEW P \in SUBSET Agents, Remaining(par, todo, P)
    PROVE  /\ Kids(par, Head(todo)) \subseteq P
           /\ Remaining(par, Tail(todo), P \cup {Head(todo)})
  <1> DEFINE t == Tail(todo)
  <1>1. Len(todo) \in Nat \ {0} /\ Head(todo) = todo[1]
    OBVIOUS
  <1>2. Len(t) = Len(todo) - 1 /\ \A i \in 1..Len(todo) - 1 : t[i] = todo[i + 1]
    OBVIOUS
  <1> HIDE DEF t
  <1>3. ASSUME NEW c \in Kids(par, todo[1])
        PROVE  c \in P
    <2>1. c \in P \/ \E j \in 1..1 - 1 : todo[j] = c
      BY <1>1, <1>3 DEF Remaining
    <2>2. QED
      BY <2>1
  <1>4. ASSUME NEW i \in 1..Len(t), NEW c \in Kids(par, t[i]), c \notin P \cup {todo[1]}
        PROVE  \E j \in 1..i - 1 : t[j] = c
    <2>1. i + 1 \in 1..Len(todo) /\ c \in Kids(par, todo[i + 1])
      BY <1>1, <1>2, <1>4
    <2>2. PICK j \in 1..(i + 1) - 1 : todo[j] = c
      BY <1>4, <2>1 DEF Remaining
    <2>3. j # 1
      BY <1>4, <2>2
    <2>4. j - 1 \in 1..i - 1 /\ t[j - 1] = todo[(j - 1) + 1] /\ (j - 1) + 1 = j
      BY <1>1, <1>2, <2>2, <2>3
    <2>5. QED
      BY <2>2, <2>4
  <1>5. Remaining(par, t, P \cup {todo[1]})
    BY <1>4 DEF Remaining
  <1>6. QED
    BY <1>1, <1>3, <1>5 DEF t

\* The nodes a cancellation is done with: terminal, and so is what is below them.
Cleared(par, done, P) == P \subseteq done /\ \A c \in P : Kids(par, c) \subseteq P

\* Where a call stands: what it has read still holds, a sweep has seen the
\* children of the nodes it passed, and a cancellation comes to no node before
\* it is done with what is below it.
CallInv(c, par, stat) ==
    /\ c.call = "create" => stat[c.above] \in LiveStatuses
    /\ c.call = "status" => stat[c.agent] \in LiveStatuses
    /\ c.call = "collect" => Swept(par, c.nodes, c.queue)
    /\ c.call = "cancel" =>
         \E P \in SUBSET Agents : /\ Cleared(par, {a \in Agents : stat[a] \in TerminalStatuses}, P)
                                  /\ Remaining(par, c.todo, P)
TreeInv(par, stat) ==
    \A a \in Agents : stat[a] = "cancelled" =>
        Below(par, a) \subseteq {d \in Agents : stat[d] \in TerminalStatuses}

SweepInv ==
    Alone => /\ TreeInv(parent, status)
             /\ scene # "tree" => \A a \in Agents : status[a] # "cancelled"
             /\ CallInv(op[Home], parent, status)

\* Writing statuses other than "cancelled" over ones that are not terminal.
LEMMA TreeInvKept ==
    ASSUME NEW par, NEW stat, NEW stat2, TreeInv(par, stat),
           \A a \in Agents : stat[a] \in TerminalStatuses => stat2[a] \in TerminalStatuses,
           \A a \in Agents : stat2[a] = "cancelled" => stat[a] = "cancelled"
    PROVE  TreeInv(par, stat2)
  BY DEF TreeInv

\* A step of the only process on the tree.
LEMMA TreeStepSweeps ==
    ASSUME TypeInv, TreeInv(parent, status), CallInv(op[Home], parent, status), TreeStep(Home)
    PROVE  TreeInv(parent', status') /\ CallInv(op'[Home], parent', status')
  <1> DEFINE down == {d \in Agents : status[d] \in TerminalStatuses}
  <1>0. TypeOK /\ Home \in Processes /\ TreeTypeOK /\ op \in [Processes -> {NoCall} \cup TreeCalls \cup MailCalls]
    BY TeamAssumption DEF TypeInv, TypeOK
  <1>s. status \in [Agents -> LiveStatuses \cup TerminalStatuses \cup {"absent"}] /\ parent \in [Agents -> Agents \cup {None}]
    BY <1>0 DEF TreeTypeOK
  <1>e. \A c : Enter(Home, c) => op'[Home] = c
    BY <1>0 DEF Enter
  <1>n. \A par, stat : CallInv(NoCall, par, stat)
    BY DEF CallInv, NoCall
  <1>l. Leave(Home) => op'[Home] = NoCall
    BY <1>e DEF Leave
  <1>d. LiveStatuses \cap TerminalStatuses = {} /\ "absent" \notin TerminalStatuses /\ "cancelled" \in TerminalStatuses
        /\ "cancelled" \notin LiveStatuses /\ "cancelled" \notin Reports
    BY GraphAssumption DEF LiveStatuses, TerminalStatuses
  <1>1. ASSUME NEW a \in Agents, CreateRoot(Home, a)
        PROVE  TreeInv(parent', status') /\ CallInv(op'[Home], parent', status')
    <2>1. op'[Home] = NoCall /\ UNCHANGED parent
      BY <1>1 DEF CreateRoot, Idle
    <2>2. \A b \in Agents : status'[b] = status[b] \/ (status[b] = "absent" /\ status'[b] = "active")
      BY <1>1, <1>s DEF CreateRoot, Exists
    <2>3. TreeInv(parent, status')
      <3>1. \A b \in Agents : status[b] \in TerminalStatuses => status'[b] \in TerminalStatuses
        BY <2>2, <1>d
      <3>2. \A b \in Agents : status'[b] = "cancelled" => status[b] = "cancelled"
        BY <2>2
      <3>3. QED
        BY <3>1, <3>2, TreeInvKept
    <2>4. QED
      BY <2>1, <2>3, <1>n
  <1>2. ASSUME NEW a \in Agents, NEW b \in Agents, BeginCreate(Home, a, b)
        PROVE  TreeInv(parent', status') /\ CallInv(op'[Home], parent', status')
    <2>1. op'[Home] = [call |-> "create", agent |-> a, above |-> b]
      BY <1>2, <1>e DEF BeginCreate
    <2>2. UNCHANGED <<parent, status>> /\ status[b] \in LiveStatuses
      BY <1>2 DEF BeginCreate, Live
    <2>3. CallInv(op'[Home], parent, status)
      BY <2>1, <2>2 DEF CallInv
    <2>4. QED
      BY <2>2, <2>3
  <1>3. ASSUME NEW a \in Agents, NEW s \in Reports, BeginSetStatus(Home, a, s)
        PROVE  TreeInv(parent', status') /\ CallInv(op'[Home], parent', status')
    <2>1. op'[Home] = [call |-> "status", agent |-> a, to |-> s]
      BY <1>3, <1>e DEF BeginSetStatus
    <2>2. UNCHANGED <<parent, status>> /\ status[a] \in LiveStatuses
      BY <1>3 DEF BeginSetStatus, MayBecome, Live
    <2>3. CallInv(op'[Home], parent, status)
      BY <2>1, <2>2 DEF CallInv
    <2>4. QED
      BY <2>2, <2>3
  <1>4. ASSUME NEW a \in Agents, BeginCancelSubtree(Home, a)
        PROVE  TreeInv(parent', status') /\ CallInv(op'[Home], parent', status')
    <2>1. op'[Home] = [call |-> "collect", queue |-> <<a>>, nodes |-> <<>>] /\ UNCHANGED <<parent, status>>
      BY <1>4, <1>e DEF BeginCancelSubtree
    <2>2. Swept(parent, <<>>, <<a>>)
      BY DEF Swept
    <2>3. CallInv(op'[Home], parent, status)
      BY <2>1, <2>2 DEF CallInv
    <2>4. QED
      BY <2>1, <2>3
  <1>5. ASSUME InsertAgent(Home)
        PROVE  TreeInv(parent', status') /\ CallInv(op'[Home], parent', status')
    <2> DEFINE a == op[Home].agent
               b == op[Home].above
    <2>1. op'[Home] = NoCall /\ a \in Agents /\ b \in Agents /\ status[b] \in LiveStatuses
      BY <1>0, <1>5, <1>l, CallShape DEF InsertAgent, CallInv
    <2>2. CASE status[a] # "absent"
      <3>1. UNCHANGED <<parent, status>>
        BY <1>5, <2>2 DEF InsertAgent, Exists
      <3>2. QED
        BY <2>1, <3>1, <1>n
    <2>3. CASE status[a] = "absent"
      <3>1. status' = [status EXCEPT ![a] = "active"] /\ parent' = [parent EXCEPT ![a] = b]
        BY <1>5, <2>3 DEF InsertAgent, Exists
      <3> HIDE DEF a, b
      <3>2. /\ \A c \in Agents : status'[c] = IF c = a THEN "active" ELSE status[c]
            /\ \A c \in Agents : parent'[c] = IF c = a THEN b ELSE parent[c]
        BY <1>s, <2>1, <3>1
      <3>3. ASSUME NEW c \in Agents, status'[c] = "cancelled"
            PROVE  Below(parent', c) \subseteq {d \in Agents : status'[d] \in TerminalStatuses}
        <4>1. status[c] = "cancelled" /\ c # a
          BY <3>2, <3>3
        <4>2. Below(parent, c) \subseteq down
          BY <4>1 DEF TreeInv
        <4>3. b \notin Below(parent, c) \cup {c}
          BY <1>d, <2>1, <4>1, <4>2
        <4>4. ASSUME NEW e \in Below(parent, c) \cup {c}
              PROVE  Kids(parent', e) \subseteq Below(parent, c)
          <5>1. Kids(parent', e) \subseteq Kids(parent, e)
            BY <3>2, <4>3 DEF Kids
          <5>2. QED
            BY <5>1, BelowClosed
        <4>5. Below(parent', c) \subseteq Below(parent, c)
          <5>1. Below(parent, c) \in SUBSET Agents
            BY DEF Below
          <5>2. QED
            BY <4>4, <5>1, BelowLeast
        <4>6. a \notin Below(parent, c)
          BY <1>d, <2>3, <4>2
        <4>7. QED
          BY <3>2, <4>2, <4>5, <4>6
      <3>4. TreeInv(parent', status')
        BY <3>3 DEF TreeInv
      <3>5. QED
        BY <2>1, <3>4, <1>n
    <2>4. QED
      BY <2>2, <2>3
  <1>6. ASSUME WriteStatus(Home)
        PROVE  TreeInv(parent', status') /\ CallInv(op'[Home], parent', status')
    <2> DEFINE a == op[Home].agent
               s == op[Home].to
    <2>1. op'[Home] = NoCall /\ a \in Agents /\ s \in Reports /\ status[a] \in LiveStatuses
      BY <1>0, <1>6, <1>l, CallShape DEF WriteStatus, CallInv
    <2>2. UNCHANGED parent /\ status' = [status EXCEPT ![a] = s]
      BY <1>6 DEF WriteStatus
    <2> HIDE DEF a, s
    <2>3. \A b \in Agents : status'[b] = IF b = a THEN s ELSE status[b]
      BY <1>s, <2>2
    <2>4. /\ \A b \in Agents : status[b] \in TerminalStatuses => status'[b] \in TerminalStatuses
          /\ \A b \in Agents : status'[b] = "cancelled" => status[b] = "cancelled"
      BY <1>d, <2>1, <2>3
    <2>5. TreeInv(parent, status')
      BY <2>4, TreeInvKept
    <2>6. QED
      BY <2>1, <2>2, <2>5, <1>n
  <1>7. ASSUME Collect(Home)
        PROVE  TreeInv(parent', status') /\ CallInv(op'[Home], parent', status')
    <2> DEFINE q == op[Home].queue
               n == op[Home].nodes
    <2>1. q \in Seq(Agents) /\ q # <<>> /\ n \in Seq(Agents) /\ Swept(parent, n, q)
      BY <1>0, <1>7, CallShape DEF Collect, CallInv
    <2>2. PICK kids \in SetToSeqs(Children(Head(q))) :
            LET queue == Tail(q) \o kids
                nodes == Append(n, Head(q))
            IN  Enter(Home, IF queue = <<>>
                         THEN [call |-> "cancel", todo |-> CancelOrder(nodes), at |-> "look"]
                         ELSE [call |-> "collect", queue |-> queue, nodes |-> nodes])
      BY <1>7 DEF Collect
    <2>3. UNCHANGED <<parent, status>>
      BY <1>7 DEF Collect
    <2> HIDE DEF q, n
    <2> DEFINE K == Kids(parent, Head(q))
               queue == Tail(q) \o kids
               nodes == Append(n, Head(q))
    <2>4. IsFiniteSet(K) /\ K \subseteq Agents /\ Cardinality(K) \in Nat
      <3>1. K \subseteq Agents
        BY DEF Kids
      <3>2. IsFiniteSet(K)
        BY <3>1, GraphAssumption, FS_Subset
      <3>3. QED
        BY <3>1, <3>2, FS_CardinalityType
    <2>5. /\ kids \in [1..Cardinality(K) -> K]
          /\ \A i, j \in 1..Cardinality(K) : i # j => kids[i] # kids[j]
      BY <2>2, TreeDefs DEF SetToSeqs
    <2>6. Range(kids) = K
      <3> HIDE DEF K
      <3>1. kids \in Injection(1..Cardinality(K), K)
        BY <2>5 DEF Injection, IsInjective
      <3>2. Cardinality(1..Cardinality(K)) = Cardinality(K)
        BY <2>4, FS_Interval
      <3>3. kids \in Surjection(1..Cardinality(K), K)
        BY <2>4, <3>1, <3>2, FS_Injection
      <3>4. QED
        BY <3>3 DEF Surjection, Range
    <2>7. kids \in Seq(Agents)
      <3>1. kids \in [1..Cardinality(K) -> Agents]
        BY <2>4, <2>5
      <3>2. QED
        BY <2>4, <3>1, FunctionIsSeq
    <2>8. Swept(parent, nodes, queue) /\ nodes \in Seq(Agents)
      BY <2>1, <2>6, <2>7, SweepGoesOn, HeadAndTail, AppendedSeq
    <2> HIDE DEF queue, nodes
    <2>9. CASE queue = <<>>
      <3>1. op'[Home] = [call |-> "cancel", todo |-> Reverse(nodes), at |-> "look"]
        BY <1>e, <2>2, <2>9 DEF CancelOrder, queue, nodes
      <3>2. Remaining(parent, Reverse(nodes), {})
        BY <2>8, <2>9, SweepReversed
      <3>3. Cleared(parent, down, {})
        BY DEF Cleared
      <3>4. CallInv(op'[Home], parent, status)
        BY <3>1, <3>2, <3>3 DEF CallInv
      <3>5. QED
        BY <2>3, <3>4
    <2>10. CASE queue # <<>>
      <3>1. op'[Home] = [call |-> "collect", queue |-> queue, nodes |-> nodes]
        BY <1>e, <2>2, <2>10 DEF queue, nodes
      <3>2. CallInv(op'[Home], parent, status)
        BY <2>8, <3>1 DEF CallInv
      <3>3. QED
        BY <2>3, <3>2
    <2>11. QED
      BY <2>9, <2>10
  <1>8. ASSUME op[Home].call = "cancel"
        PROVE  LookAgain(Home) \/ CheckAgain(Home) \/ WriteCancelled(Home)
                 => TreeInv(parent', status') /\ CallInv(op'[Home], parent', status')
    <2> DEFINE todo == op[Home].todo
               h == Head(todo)
               rest == Tail(todo)
    <2>1. todo \in Seq(Agents) /\ todo # <<>>
      BY <1>0, <1>8, CallShape
    <2>2. PICK P \in SUBSET Agents : Cleared(parent, down, P) /\ Remaining(parent, todo, P)
      BY <1>8 DEF CallInv
    <2>3. h \in Agents /\ Kids(parent, h) \subseteq P /\ Remaining(parent, rest, P \cup {h})
      BY <2>1, <2>2, RemainingNext, HeadAndTail
    <2>4. Below(parent, h) \subseteq down
      <3>1. \A c \in P \cup {h} : Kids(parent, c) \subseteq P
        BY <2>2, <2>3 DEF Cleared
      <3>2. QED
        BY <2>2, <3>1, BelowLeast DEF Cleared
    <2>5. CancelNext(Home) =>
            op'[Home] = NoCall \/ op'[Home] = [call |-> "cancel", todo |-> rest, at |-> "look"]
      BY <1>e DEF CancelNext
    <2>6. \A t : Enter(Home, [op[Home] EXCEPT !.at = t])
            => op'[Home].call = "cancel" /\ op'[Home].todo = todo
      BY <1>0, <1>8, <1>e, CallShape
    <2> HIDE DEF todo, h, rest
    <2>7. ASSUME NEW stat, h \in {d \in Agents : stat[d] \in TerminalStatuses},
                 down \subseteq {d \in Agents : stat[d] \in TerminalStatuses}, CancelNext(Home)
          PROVE  CallInv(op'[Home], parent, stat)
      <3>1. Cleared(parent, {d \in Agents : stat[d] \in TerminalStatuses}, P \cup {h})
        BY <2>2, <2>3, <2>7 DEF Cleared
      <3>2. P \cup {h} \in SUBSET Agents
        BY <2>2, <2>3
      <3>3. CASE op'[Home] = [call |-> "cancel", todo |-> rest, at |-> "look"]
        <4>1. op'[Home].call = "cancel" /\ op'[Home].todo = rest
          BY <3>3
        <4>2. \E Q \in SUBSET Agents : /\ Cleared(parent, {d \in Agents : stat[d] \in TerminalStatuses}, Q)
                                       /\ Remaining(parent, rest, Q)
          BY <2>3, <3>1, <3>2
        <4>3. QED
          BY <4>1, <4>2 DEF CallInv
      <3>4. QED
        BY <1>n, <2>5, <2>7, <3>3
    <2>8. ASSUME NEW t, Enter(Home, [op[Home] EXCEPT !.at = t])
          PROVE  CallInv(op'[Home], parent, status)
      BY <2>2, <2>6, <2>8 DEF CallInv
    <2>9. ASSUME LookAgain(Home)
          PROVE  TreeInv(parent', status') /\ CallInv(op'[Home], parent', status')
      <3>1. UNCHANGED <<parent, status>>
        BY <2>9 DEF LookAgain
      <3>2. CASE Terminated(h) /\ CancelNext(Home)
        BY <2>3, <2>7, <3>1, <3>2 DEF Terminated
      <3>3. QED
        BY <2>8, <2>9, <3>1, <3>2 DEF LookAgain, h, todo
    <2>10. ASSUME CheckAgain(Home)
           PROVE  TreeInv(parent', status') /\ CallInv(op'[Home], parent', status')
      <3>1. UNCHANGED <<parent, status>>
        BY <2>10 DEF CheckAgain
      <3>2. CASE status[h] = "cancelled" /\ CancelNext(Home)
        BY <1>d, <2>3, <2>7, <3>1, <3>2
      <3>3. CASE Leave(Home)
        BY <1>l, <1>n, <3>1, <3>3
      <3>4. QED
        BY <2>8, <2>10, <3>1, <3>2, <3>3 DEF CheckAgain, h, todo
    <2>11. ASSUME WriteCancelled(Home)
           PROVE  TreeInv(parent', status') /\ CallInv(op'[Home], parent', status')
      <3>1. status' = [status EXCEPT ![h] = "cancelled"] /\ CancelNext(Home) /\ UNCHANGED parent
        BY <2>11 DEF WriteCancelled, h, todo
      <3>2. \A a \in Agents : status'[a] = IF a = h THEN "cancelled" ELSE status[a]
        BY <1>s, <3>1
      <3>3. h \in {d \in Agents : status'[d] \in TerminalStatuses}
            /\ down \subseteq {d \in Agents : status'[d] \in TerminalStatuses}
        BY <1>d, <2>3, <3>2
      <3>4. TreeInv(parent, status')
        <4>1. ASSUME NEW a \in Agents, status'[a] = "cancelled"
              PROVE  Below(parent, a) \subseteq down
          BY <2>4, <3>2, <4>1 DEF TreeInv
        <4>2. QED
          BY <3>3, <4>1 DEF TreeInv
      <3>5. QED
        BY <2>7, <3>1, <3>3, <3>4
    <2>12. QED
      BY <2>9, <2>10, <2>11
  <1>9. ASSUME Crash(Home)
        PROVE  TreeInv(parent', status') /\ CallInv(op'[Home], parent', status')
    BY <1>9, <1>l, <1>n DEF Crash
  <1>10. QED
    BY <1>1, <1>2, <1>3, <1>4, <1>5, <1>6, <1>7, <1>8, <1>9
       DEF TreeStep, LookAgain, CheckAgain, WriteCancelled

\* Used by one process, a cancellation leaves no live agent below a cancelled one,
\* in whatever shape the tree is, at any point of the cancellation, after a crash
\* in the middle of it, and whatever agents are created or set afterwards.
THEOREM CancellationSweeps == Spec => []CancelledSubtreeIsDown
  <1>1. Init => SweepInv
    <2> SUFFICES ASSUME Init PROVE SweepInv
      OBVIOUS
    <2>1. \A a \in Agents : status[a] # "cancelled"
      BY DEF Init
    <2>2. op[Home] = NoCall
      BY TeamAssumption DEF Init
    <2>3. QED
      BY <2>1, <2>2 DEF SweepInv, TreeInv, CallInv, NoCall
  <1>2. TypeInv /\ CheckInv /\ SweepInv /\ [Next]_vars => SweepInv'
    <2> SUFFICES ASSUME TypeInv, CheckInv, SweepInv, [Next]_vars, Alone
                 PROVE  /\ TreeInv(parent', status')
                        /\ scene' # "tree" => \A a \in Agents : status'[a] # "cancelled"
                        /\ CallInv(op'[Home], parent', status')
      BY Moves DEF SweepInv, Alone
    <2>0. /\ scene' = scene /\ users = {Home} /\ Home \in Processes
          /\ TreeInv(parent, status) /\ CallInv(op[Home], parent, status)
          /\ scene # "tree" => \A a \in Agents : status[a] # "cancelled"
      BY Moves, Alone1 DEF SweepInv, TypeInv
    <2>1. CASE TreeMove
      BY <2>0, <2>1, TreeStepSweeps DEF TreeMove
    <2>2. ASSUME scene # "tree", \A a \in Agents : status'[a] # "cancelled"
          PROVE  TreeInv(parent', status')
      BY <2>2 DEF TreeInv
    <2>3. CASE MailMove
      <3>1. UNCHANGED <<parent, status>> /\ scene # "tree"
        BY <2>3 DEF MailMove
      <3>2. MailStep(Home) \/ Crash(Home)
        BY <2>0, <2>3 DEF MailMove
      <3>3. op'[Home].call \in {"idle", "send", "claim", "ack", "release", "cancel_message"}
        <4>1. \A c : Enter(Home, c) => op'[Home] = c
          BY <2>0 DEF Enter, TypeInv, TypeOK
        <4>2. Leave(Home) => op'[Home].call = "idle"
          BY <4>1 DEF Leave, NoCall
        <4>3. \A a, b \in Agents, m \in Letters, k \in Kinds : BeginSend(Home, a, b, m, k) => op'[Home].call = "send"
          BY <4>1 DEF BeginSend
        <4>4. \A a \in Agents, w \in Workers, ks \in SUBSET Kinds :
                BeginClaim(Home, a, w, ks) => op'[Home].call = "claim"
          BY <4>1 DEF BeginClaim
        <4>5. \A m \in Messages, w \in Workers, c \in {"ack", "release"} :
                BeginHeld(Home, c, m, w) => op'[Home].call = c
          BY <4>1 DEF BeginHeld
        <4>6. \A m \in Messages : BeginCancelMessage(Home, m) => op'[Home].call = "cancel_message"
          BY <4>1 DEF BeginCancelMessage
        <4>7. Send(Home) \/ Claim(Home) \/ Ack(Home) \/ Release(Home) \/ CancelMessage(Home) \/ Crash(Home)
                => op'[Home].call = "idle"
          BY <4>2 DEF Send, Claim, Ack, Release, CancelMessage, Crash
        <4>8. QED
          BY <3>2, <4>3, <4>4, <4>5, <4>6, <4>7 DEF MailStep
      <3>4. CallInv(op'[Home], parent', status')
        BY <3>3 DEF CallInv
      <3>5. QED
        BY <2>0, <2>2, <3>1, <3>4
    <2>4. CASE UNCHANGED <<parent, status, op>>
      BY <2>0, <2>4
    <2>5. CASE TeamMove
      <3>1. UNCHANGED op /\ scene = "team" /\ op[Home] = NoCall
        BY <2>0, <2>5, TeamStoreTypes DEF TeamMove, CheckInv
      <3>2. CallInv(op'[Home], parent', status')
        BY <3>1 DEF CallInv, NoCall
      <3>3. \A a \in Agents : status'[a] # "cancelled"
        <4>1. CASE UNCHANGED status
          BY <2>0, <3>1, <4>1
        <4>2. CASE WriteBusy \/ WriteVerdict
          <5>1. PICK s \in {"busy", "failed", "active"} : status' = [status EXCEPT ![co.agent] = s]
            BY <4>2 DEF WriteBusy, WriteVerdict, Write, Verdict
          <5>2. QED
            BY <2>0, <3>1, <5>1 DEF TypeInv, TypeOK, TreeTypeOK
        <4>3. QED
          BY <2>5, <4>1, <4>2 DEF TeamMove, TeamStep, storeVars
      <3>4. QED
        BY <2>0, <2>2, <3>1, <3>2, <3>3
    <2>6. CASE MeddleMove
      BY <2>0, <2>6 DEF MeddleMove
    <2>7. QED
      BY <2>1, <2>3, <2>4, <2>5, <2>6, Moves DEF TickMove, vars, graphVars
  <1>3. SweepInv => CancelledSubtreeIsDown
    BY TreeDefs DEF SweepInv, TreeInv, CancelledSubtreeIsDown, Terminated
  <1>4. QED
    BY <1>1, <1>2, <1>3, TypeCorrect, ChecksHold, PTL DEF Spec

-----------------------------------------------------------------------------
(* A run that returns has answered its tasks *)

\* The tasks a run has launched and not submitted, has submitted, has answered.
Launched(c) == IF c.at \in Launching THEN {c.task} ELSE {}
Jobs(j) == {j[a] : a \in {b \in Agents : j[b] # None}}
Told(c) == {r.task : r \in c.results}

InRun == Steps \ {"unbuilt", "ready", "aborting"}

\* Every task of the run is in one place, and in one result; a worker is launched
\* only when it has no task.
Books(c, j) ==
    /\ c.asked = Told(c) \cup Range(c.todo) \cup Launched(c) \cup Jobs(j)
    /\ Told(c) \cap (Range(c.todo) \cup Launched(c) \cup Jobs(j)) = {}
    /\ Range(c.todo) \cap (Launched(c) \cup Jobs(j)) = {}
    /\ \A r, s \in c.results : r.task = s.task => r = s
    /\ Distinct(c.todo) /\ Distinct(c.avail)
    /\ \A a \in Range(c.avail) : j[a] = None
    /\ c.at \in Launching => c.agent \notin Range(c.avail) /\ j[c.agent] = None
    /\ IsFiniteSet(c.asked)
    /\ c.at = "returned" => c.todo = <<>> /\ Jobs(j) = {}

BooksInv == co.at \in InRun => Books(co, job)

LEMMA DistinctAppend ==
    ASSUME NEW S, NEW s \in Seq(S), NEW e \in S, Distinct(s), e \notin Range(s)
    PROVE  Distinct(Append(s, e))
  <1>1. /\ \A i \in 1..Len(s) : Append(s, e)[i] = s[i]
        /\ Append(s, e)[Len(s) + 1] = e
        /\ DOMAIN Append(s, e) = 1..Len(s) + 1 /\ DOMAIN s = 1..Len(s) /\ Len(s) \in Nat
    OBVIOUS
  <1>2. QED
    BY <1>1 DEF Distinct, Range

LEMMA RangeFinite ==
    ASSUME NEW S, NEW s \in Seq(S)
    PROVE  IsFiniteSet(Range(s))
  <1>1. s \in Surjection(1..Len(s), Range(s)) /\ Len(s) \in Nat
    BY DEF Surjection, Range
  <1>2. QED
    BY <1>1, FS_Interval, FS_Surjection

LEMMA BooksHold == Spec => []BooksInv
  <1>1. Init => BooksInv
    BY DEF Init, BooksInv, InRun
  <1>2. TypeInv /\ RunInv /\ BooksInv /\ [Next]_vars => BooksInv'
    <2> SUFFICES ASSUME TypeInv, RunInv, BooksInv, [Next]_vars
                 PROVE  BooksInv'
      OBVIOUS
    <2>0. PoolTypeOK /\ PoolOK /\ co \in CoType /\ job \in [Agents -> Messages \cup {None}]
      BY DEF TypeInv, TypeOK, PoolTypeOK, CoType
    <2>f. Workforce \subseteq Agents /\ Tasks \subseteq Messages /\ None \notin Messages
      BY TeamFacts, TeamAssumption, MailboxAssumption
    <2> USE DEF At
    <2>1. ASSUME UNCHANGED <<co, job>>
          PROVE  BooksInv'
      BY <2>1 DEF BooksInv
    <2>2. ASSUME NEW step \in Steps, Go(step), UNCHANGED job,
                 step \in InRun => /\ co.at \in InRun
                                   /\ step \in Launching <=> co.at \in Launching
                                   /\ step # "returned"
          PROVE  BooksInv'
      BY <2>0, <2>2, GoTypes DEF BooksInv, Books, Told, Launched
    <2>3. ASSUME NEW ts \in TaskLists, Start(ts), UNCHANGED job
          PROVE  BooksInv'
      <3>1. ts \in Seq(Tasks) /\ Distinct(ts) /\ known \in SUBSET Workforce
        BY <2>0, TeamAssumption DEF PoolTypeOK
      <3>2. /\ co'.at = "loop" /\ co'.asked = Range(ts) /\ co'.todo = ts /\ co'.results = {}
            /\ co'.avail = Ordered(known, Place)
        BY <2>0, <2>3 DEF Start, CoType
      <3>3. \A a \in Agents : job[a] = None
        BY <2>0, <2>3 DEF Start, PoolOK
      <3>4. Distinct(co'.avail) /\ Range(co'.avail) \subseteq Agents
        BY <2>f, <3>1, <3>2, KnownInOrder
      <3>5. Told(co') = {} /\ Launched(co') = {} /\ Jobs(job') = {}
        BY <2>3, <3>2, <3>3 DEF Told, Launched, Jobs, Launching
      <3>6. IsFiniteSet(Range(ts))
        BY <3>1, RangeFinite
      <3>7. Books(co', job')
        BY <2>3, <3>1, <3>2, <3>3, <3>4, <3>5, <3>6 DEF Books, Launching
      <3>8. QED
        BY <3>7 DEF BooksInv
    <2>4. ASSUME Launch, UNCHANGED job
          PROVE  BooksInv'
      <3>1. /\ co.todo \in Seq(Tasks) /\ co.todo # <<>>
            /\ co.avail \in Seq(Workforce) /\ co.avail # <<>>
            /\ co.at = "loop" /\ Books(co, job)
        BY <2>0, <2>4 DEF Launch, CanLaunch, CoType, BooksInv, InRun, Steps
      <3>2. /\ co'.at = "look" /\ co'.task = Head(co.todo) /\ co'.todo = Tail(co.todo)
            /\ co'.agent = Head(co.avail) /\ co'.avail = Tail(co.avail)
            /\ co'.asked = co.asked /\ co'.results = co.results
        BY <2>0, <2>4 DEF Launch, CoType
      <3>3. /\ Range(co.todo) = {co'.task} \cup Range(co'.todo) /\ co'.task \notin Range(co'.todo)
            /\ Range(co.avail) = {co'.agent} \cup Range(co'.avail) /\ co'.agent \notin Range(co'.avail)
            /\ Distinct(co'.todo) /\ Distinct(co'.avail)
        BY <3>1, <3>2, HeadAndTail DEF Books
      <3>4. Launched(co') = {co'.task} /\ Launched(co) = {} /\ Told(co') = Told(co)
        BY <3>1, <3>2 DEF Launched, Launching, Told
      <3>5. Books(co', job')
        BY <2>4, <3>1, <3>2, <3>3, <3>4 DEF Books
      <3>6. QED
        BY <3>5 DEF BooksInv
    <2>5. ASSUME ClaimTask, UNCHANGED job
          PROVE  BooksInv'
      <3>1. CASE Go("aborting")
        BY <2>2, <2>5, <3>1 DEF InRun, Steps
      <3>2. CASE \E m \in Messages : co' = [co EXCEPT !.task = m, !.at = IF IsTheTask(m) THEN "hire" ELSE "aborting"]
        <4>1. PICK m \in Messages :
                co' = [co EXCEPT !.task = m, !.at = IF IsTheTask(m) THEN "hire" ELSE "aborting"]
          BY <3>2
        <4>2. CASE m # co.task
          <5>1. co'.at = "aborting"
            BY <2>0, <4>1, <4>2 DEF CoType, IsTheTask
          <5>2. QED
            BY <5>1 DEF BooksInv, InRun
        <4>3. CASE m = co.task
          <5>1. /\ co'.at = "hire" /\ co'.task = co.task /\ co'.agent = co.agent /\ co'.todo = co.todo
                /\ co'.avail = co.avail /\ co'.asked = co.asked /\ co'.results = co.results
            BY <2>0, <4>1, <4>3 DEF CoType, IsTheTask
          <5>2. co.at = "claim" /\ Books(co, job)
            BY <2>5 DEF ClaimTask, BooksInv, InRun, Steps
          <5>3. Launched(co') = Launched(co) /\ Told(co') = Told(co)
            BY <5>1, <5>2 DEF Launched, Told, Launching
          <5>4. Books(co', job')
            BY <2>5, <5>1, <5>2, <5>3 DEF Books, Launching
          <5>5. QED
            BY <5>4 DEF BooksInv
        <4>4. QED
          BY <4>2, <4>3
      <3>3. QED
        BY <2>5, <3>1, <3>2 DEF ClaimTask
    <2>6. ASSUME Submit
          PROVE  BooksInv'
      <3>1. /\ co.at = "submit" /\ Books(co, job)
            /\ co.agent \in Agents /\ co.task \in Tasks /\ co.task # None
        BY <2>0, <2>f, <2>6 DEF Submit, BooksInv, InRun, Steps, PoolOK, Launching
      <3>2. /\ co'.at = "loop" /\ co'.todo = co.todo /\ co'.avail = co.avail /\ co'.asked = co.asked
            /\ co'.results = co.results
        BY <2>0, <2>6, GoTypes DEF Submit, Steps
      <3>3. \A a \in Agents : job'[a] = IF a = co.agent THEN co.task ELSE job[a]
        BY <2>0, <2>6 DEF Submit
      <3>4. Launched(co) = {co.task} /\ Launched(co') = {} /\ Told(co') = Told(co)
        BY <3>1, <3>2 DEF Launched, Told, Launching
      <3>5. job[co.agent] = None /\ co.agent \notin Range(co.avail)
        BY <3>1 DEF Books, Launching
      <3>6. Jobs(job') = Jobs(job) \cup {co.task}
        BY <3>1, <3>3, <3>5 DEF Jobs
      <3>7. \A a \in Range(co.avail) : a \in Agents
        BY <2>0, <2>f DEF CoType, Range
      <3>8. Books(co', job')
        BY <3>1, <3>2, <3>3, <3>4, <3>5, <3>6, <3>7 DEF Books, Launching
      <3>9. QED
        BY <3>8 DEF BooksInv
    <2>7. ASSUME Wait \/ Reap, UNCHANGED job
          PROVE  BooksInv'
      <3>1. /\ co.at \in {"loop", "reap"} /\ Books(co, job)
        BY <2>7 DEF Wait, Reap, BooksInv, InRun, Steps
      <3>2. /\ co'.at \in {"reap", "ack", "aborting"} /\ co'.todo = co.todo /\ co'.avail = co.avail
            /\ co'.asked = co.asked /\ co'.results = co.results
        BY <2>0, <2>7 DEF Wait, Reap, CoType
      <3>3. Launched(co') = Launched(co) /\ Told(co') = Told(co)
        BY <3>1, <3>2 DEF Launched, Told, Launching
      <3>4. Books(co', job')
        BY <2>7, <3>1, <3>2, <3>3 DEF Books, Launching
      <3>5. QED
        BY <3>4 DEF BooksInv
    <2>8. ASSUME CollectResult
          PROVE  BooksInv'
      <3> DEFINE a == co.agent
                 r0 == ResultOf(a)
      <3>1. /\ co.at = "collect" /\ Books(co, job) /\ a \in Agents /\ a \in Workforce
            /\ job[a] = co.task /\ job[a] # None
        BY <2>0, <2>f, <2>8 DEF CollectResult, BooksInv, InRun, Steps, PoolOK, Answering, Done
      <3>2. /\ co'.at \in {"loop", "reap"} /\ co'.todo = co.todo
            /\ co'.avail = IF future[a] = "returned" THEN Append(co.avail, a) ELSE co.avail
            /\ co'.asked = co.asked /\ co'.results = co.results \cup {r0}
        BY <2>0, <2>8 DEF CollectResult, CoType
      <3>3. \A b \in Agents : job'[b] = IF b = a THEN None ELSE job[b]
        BY <2>0, <2>8 DEF CollectResult
      <3>4. r0.task = co.task
        BY DEF ResultOf
      <3> HIDE DEF r0, a
      <3>5. Told(co') = Told(co) \cup {co.task} /\ Launched(co) = {} /\ Launched(co') = {}
        BY <3>1, <3>2, <3>4 DEF Told, Launched, Launching
      <3>6. Jobs(job') = Jobs(job) \ {co.task} /\ co.task \in Jobs(job)
        <4>1. \A b \in Agents : job[b] # None /\ job[b] = job[a] => b = a
          BY <3>1 DEF RunInv
        <4>2. QED
          BY <3>1, <3>3, <4>1 DEF Jobs
      <3>7. a \notin Range(co.avail) /\ Range(co.avail) \subseteq Agents /\ co.avail \in Seq(Workforce)
        BY <2>0, <2>f, <3>1 DEF Books, CoType, Range
      <3>8. Distinct(co'.avail) /\ Range(co'.avail) \subseteq Range(co.avail) \cup {a}
        BY <3>1, <3>2, <3>7, DistinctAppend, AppendedSeq DEF Books
      <3>9. \A b \in Range(co'.avail) : job'[b] = None
        BY <3>1, <3>3, <3>7, <3>8 DEF Books
      <3>10. co.task \notin Told(co)
        BY <3>1, <3>6 DEF Books
      <3>11. \A r, s \in co'.results : r.task = s.task => r = s
        BY <3>1, <3>2, <3>4, <3>10 DEF Books, Told
      <3>12. Books(co', job')
        BY <3>1, <3>2, <3>5, <3>6, <3>8, <3>9, <3>10, <3>11 DEF Books, Launching
      <3>13. QED
        BY <3>12 DEF BooksInv
    <2>9. ASSUME Finish, UNCHANGED job
          PROVE  BooksInv'
      <3>1. CASE Go("aborting")
        BY <2>2, <2>9, <3>1 DEF InRun, Steps
      <3>2. CASE Go("returned") /\ co.todo = <<>>
        <4>1. Jobs(job) = {}
          BY <2>0, <2>9 DEF Finish, Running, Jobs, PoolOK
        <4>2. co.at = "loop" /\ Books(co, job)
          BY <2>9 DEF Finish, BooksInv, InRun, Steps
        <4>3. /\ co'.at = "returned" /\ co'.todo = co.todo /\ co'.avail = co.avail
              /\ co'.asked = co.asked /\ co'.results = co.results
          BY <2>0, <3>2, GoTypes DEF Steps
        <4>4. Launched(co') = Launched(co) /\ Told(co') = Told(co)
          BY <4>2, <4>3 DEF Launched, Told, Launching
        <4>5. Books(co', job')
          BY <2>9, <3>2, <4>1, <4>2, <4>3, <4>4 DEF Books, Launching
        <4>6. QED
          BY <4>5 DEF BooksInv
      <3>3. QED
        BY <2>9, <3>1, <3>2 DEF Finish
    <2>10. CASE Build \/ Abort \/ Die
      <3>1. PICK step \in {"ready", "unbuilt"} : Go(step)
        BY <2>10 DEF Build, Abort, Die
      <3>2. co'.at = step
        BY <2>0, <3>1, GoTypes DEF Steps
      <3>3. QED
        BY <3>2 DEF BooksInv, InRun
    <2>11. ASSUME LookUp \/ ClaimLook \/ SendTask \/ AckTask \/ Hire \/ Report \/ WriteBusy \/ WriteVerdict,
                  UNCHANGED job
           PROVE  BooksInv'
      <3>1. PICK step \in Steps : /\ Go(step)
                                  /\ step \in InRun => /\ co.at \in InRun
                                                       /\ step \in Launching <=> co.at \in Launching
                                                       /\ step # "returned"
        BY <2>11 DEF LookUp, ClaimLook, SendTask, AckTask, Hire, Report, WriteBusy, WriteVerdict,
                     SetTo, Write, Steps, InRun, Launching
      <3>2. QED
        BY <2>2, <2>11, <3>1
    <2>12. CASE TeamMove
      BY <2>1, <2>3, <2>4, <2>5, <2>6, <2>7, <2>8, <2>9, <2>10, <2>11, <2>12
         DEF TeamMove, TeamStep, poolVars, WorkerEnds
    <2>13. CASE UNCHANGED teamVars
      BY <2>1, <2>13 DEF teamVars, poolVars
    <2>14. QED
      BY <2>12, <2>13, Moves DEF TreeMove, MailMove, TickMove, MeddleMove, vars, teamVars
  <1>3. QED
    BY <1>1, <1>2, TypeCorrect, RunsHold, PTL DEF Spec

\* What the store says of a result, and of the one that is being written.
StoredInv ==
    Alone =>
        /\ co.at \in InRun =>
             \A r \in co.results :
               /\ to[r.task] = r.agent
               /\ mail[r.task] = "acked" /\ acker[r.task] = LeaseOf[r.agent]
               /\ r.outcome = "raised" => status[r.agent] = "failed"
        /\ co.at \in {"report", "verdict", "collect"} =>
             mail[co.task] = "acked" /\ acker[co.task] = LeaseOf[co.agent]
        /\ co.at = "collect" /\ future[co.agent] = "raised" => status[co.agent] = "failed"
        /\ co.at \in {"busy", "verdict"} => Live(co.agent)

\* A result once stored stays as it is.
Settled ==
    /\ \A m \in Messages : mail[m] = "acked" =>
         mail'[m] = "acked" /\ to'[m] = to[m] /\ (acker'[m] = acker[m] \/ (AckTask /\ m = co.task))
    /\ \A a \in Agents : status[a] = "failed" => status'[a] = "failed"

LEMMA StoreSettles ==
    ASSUME TypeInv, RunInv, BooksInv, StoredInv, Alone, TeamMove
    PROVE  Settled
  <1>0. MailTypeOK /\ TreeTypeOK /\ Home \in Processes
    BY TeamAssumption DEF TypeInv, TypeOK
  <1>1. CASE UNCHANGED storeVars
    BY <1>1 DEF Settled, storeVars, mailVars, leaseVars
  <1>2. CASE SendTask \/ ClaimTask \/ AckTask
    <2>1. co.agent \in Workforce /\ co.task \in Messages
      BY <1>2, TeamFacts, TeamAssumption
         DEF TypeInv, TypeOK, SendTask, ClaimTask, AckTask, At, PoolOK, Launching, Answering, Done
    <2>2. UNCHANGED status
      BY <1>2 DEF TeamMove, TeamStep, storeVars, SendTask, ClaimTask, AckTask, Build, Start, Launch, LookUp,
                  ClaimLook, Hire, Wait, Reap, Report, Finish, WriteBusy, WriteVerdict, Submit,
                  CollectResult, Abort, Die, At
    <2>3. SendTask => Settled
      BY <1>0, <2>1, <2>2 DEF SendTask, InsertMail, Settled, MailTypeOK, mailVars, leaseVars
    <2>4. ASSUME ClaimTask
          PROVE  Settled
      <3>1. CASE UNCHANGED mailVars
        BY <2>2, <3>1 DEF Settled, mailVars, leaseVars
      <3>2. ASSUME NEW m \in Messages, Available(m), LeaseTo(m, LeaseOf[co.agent])
            PROVE  Settled
        BY <1>0, <2>2, <3>2 DEF LeaseTo, Available, Settled, MailTypeOK
      <3>3. QED
        BY <2>4, <3>1, <3>2 DEF ClaimTask, IsNext, Waiting
    <2>5. AckTask => Settled
      BY <1>0, <2>1, <2>2 DEF AckTask, AckMail, Overwrite, Settled, MailTypeOK
    <2>6. QED
      BY <1>2, <2>3, <2>4, <2>5
  <1>3. CASE (WriteBusy \/ WriteVerdict) /\ UNCHANGED <<parent, op, mailVars>>
    <2>1. PICK s : status' = [status EXCEPT ![co.agent] = s]
      BY <1>3 DEF WriteBusy, WriteVerdict, Write
    <2>2. status[co.agent] # "failed"
      BY <1>3 DEF WriteBusy, WriteVerdict, At, StoredInv, Live, LiveStatuses
    <2>3. QED
      BY <1>0, <1>3, <2>1, <2>2 DEF Settled, TreeTypeOK, mailVars, leaseVars
  <1>4. QED
    BY <1>1, <1>2, <1>3 DEF TeamMove, TeamStep

LEMMA StoredHolds == Spec => []StoredInv
  <1>1. Init => StoredInv
    BY DEF Init, StoredInv, InRun
  <1>2. TypeInv /\ CheckInv /\ RunInv /\ BooksInv /\ StoredInv /\ [Next]_vars => StoredInv'
    <2> SUFFICES ASSUME TypeInv, CheckInv, RunInv, BooksInv, StoredInv, [Next]_vars, Alone
                 PROVE  /\ co'.at \in InRun =>
                             \A r \in co'.results :
                               /\ to'[r.task] = r.agent
                               /\ mail'[r.task] = "acked" /\ acker'[r.task] = LeaseOf[r.agent]
                               /\ r.outcome = "raised" => status'[r.agent] = "failed"
                        /\ co'.at \in {"report", "verdict", "collect"} =>
                             mail'[co'.task] = "acked" /\ acker'[co'.task] = LeaseOf[co'.agent]
                        /\ co'.at = "collect" /\ future'[co'.agent] = "raised" => status'[co'.agent] = "failed"
                        /\ co'.at \in {"busy", "verdict"} => status'[co'.agent] \in LiveStatuses
      BY Moves DEF StoredInv, Alone, Live
    <2>0. /\ PoolTypeOK /\ PoolOK /\ co \in CoType /\ MailTypeOK /\ TreeTypeOK
          /\ scene # "team" => co.at = "unbuilt"
          /\ users = {Home}
      BY Alone1 DEF TypeInv, TypeOK, PoolTypeOK, CoType, CheckInv
    <2>f. Workforce \subseteq Agents /\ Tasks \subseteq Messages /\ None \notin Messages
      BY TeamFacts, TeamAssumption, MailboxAssumption
    <2>1. CASE UNCHANGED co /\ co.at = "unbuilt"
      BY <2>1 DEF InRun
    <2>2. CASE UNCHANGED <<co, mailVars, status, future>>
      BY <2>2 DEF StoredInv, mailVars, leaseVars, Live
    <2>3. CASE TickMove
      BY <2>3 DEF TickMove, Tick, leaseVars, teamVars, poolVars, StoredInv, Live
    <2>4. CASE TeamMove
      <3>0. Settled
        BY <2>4, StoreSettles
      <3> DEFINE Kept == co'.at \in InRun =>
                           \A r \in co'.results :
                             /\ to'[r.task] = r.agent
                             /\ mail'[r.task] = "acked" /\ acker'[r.task] = LeaseOf[r.agent]
                             /\ r.outcome = "raised" => status'[r.agent] = "failed"
      <3>r. \A r \in co.results : r.task \in Messages /\ r.agent \in Agents
        BY <2>0, <2>f DEF CoType, Result
      <3>1. ASSUME co'.results = co.results \/ co'.results = {}, co'.at \in InRun => co.at \in InRun \/ co'.results = {},
                   ~AckTask
            PROVE  Kept
        BY <3>0, <3>1, <3>r DEF Settled, StoredInv
      <3>2. ASSUME NEW step \in Steps, Go(step), step \in InRun => co.at \in InRun, ~AckTask
            PROVE  Kept
        BY <2>0, <3>1, <3>2, GoTypes
      <3> USE DEF At
      <3> DEFINE Tail4 ==
                   /\ co'.at \in {"report", "verdict", "collect"} =>
                        mail'[co'.task] = "acked" /\ acker'[co'.task] = LeaseOf[co'.agent]
                   /\ co'.at = "collect" /\ future'[co'.agent] = "raised" => status'[co'.agent] = "failed"
                   /\ co'.at \in {"busy", "verdict"} => status'[co'.agent] \in LiveStatuses
      <3>3. CASE \E ts \in TaskLists : Start(ts)
        <4>1. co'.at = "loop" /\ co'.results = {}
          BY <2>0, <3>3 DEF Start, CoType
        <4>2. QED
          BY <4>1
      <3>4. CASE Build \/ Abort \/ Die
        <4>1. PICK step \in {"ready", "unbuilt"} : Go(step)
          BY <3>4 DEF Build, Abort, Die
        <4>2. co'.at = step
          BY <2>0, <4>1, GoTypes DEF Steps
        <4>3. QED
          BY <4>2 DEF InRun
      <3>5. CASE Launch \/ Wait \/ Reap \/ ClaimTask
        <4>1. /\ co'.results = co.results
              /\ co'.at \in {"look", "reap", "ack", "hire", "aborting"}
              /\ co.at \in {"loop", "reap", "claim"}
          <5>1. CASE Launch \/ Wait \/ Reap
            BY <2>0, <5>1 DEF Launch, Wait, Reap, CoType
          <5>2. CASE ClaimTask
            BY <2>0, <5>2 DEF ClaimTask, Go, IsTheTask, CoType
          <5>3. QED
            BY <3>5, <5>1, <5>2
        <4>2. Kept
          BY <3>1, <4>1 DEF InRun, Steps, AckTask
        <4>3. QED
          BY <4>1, <4>2
      <3>6. CASE LookUp \/ ClaimLook \/ SendTask \/ Finish \/ Submit \/ WriteBusy
        <4>1. PICK step \in Steps \ {"report", "verdict", "collect", "busy"} :
                Go(step) /\ (step \in InRun => co.at \in InRun)
          BY <3>6 DEF LookUp, ClaimLook, SendTask, Finish, Submit, WriteBusy, Write, Steps, InRun
        <4>2. co'.at = step
          BY <2>0, <4>1, GoTypes
        <4>3. ~AckTask
          BY <3>6 DEF LookUp, ClaimLook, SendTask, Finish, Submit, WriteBusy, AckTask
        <4>4. Kept
          BY <3>2, <4>1, <4>3
        <4>5. QED
          BY <4>1, <4>2, <4>4
      <3>7. CASE Hire /\ UNCHANGED status
        <4>1. Go("aborting") \/ Go("submit") \/ (Go("busy") /\ MayBecome(co.agent, "busy"))
          BY <3>7 DEF Hire, SetTo
        <4>2. Kept
          BY <3>2, <3>7, <4>1 DEF Hire, AckTask, InRun, Steps
        <4>3. co'.agent = co.agent /\ co'.at \in {"aborting", "submit", "busy"}
              /\ (co'.at = "busy" => MayBecome(co.agent, "busy"))
          <5>1. CASE Go("aborting") \/ Go("submit")
            BY <2>0, <5>1, GoTypes DEF Steps
          <5>2. CASE Go("busy") /\ MayBecome(co.agent, "busy")
            BY <2>0, <5>2, GoTypes DEF Steps
          <5>3. QED
            BY <4>1, <5>1, <5>2
        <4>4. QED
          BY <3>7, <4>2, <4>3 DEF MayBecome, Live
      <3>8. CASE Report /\ UNCHANGED <<mailVars, status, future>>
        <4>1. \/ Go("aborting")
              \/ Go("verdict") /\ MayBecome(co.agent, Verdict(co.agent))
              \/ Go("collect") /\ status[co.agent] = Verdict(co.agent)
          BY <3>8 DEF Report, SetTo
        <4>2. Kept
          BY <3>2, <3>8, <4>1 DEF Report, AckTask, InRun, Steps
        <4>3. co'.agent = co.agent /\ co'.task = co.task
              /\ \/ co'.at = "aborting"
                 \/ co'.at = "verdict" /\ MayBecome(co.agent, Verdict(co.agent))
                 \/ co'.at = "collect" /\ status[co.agent] = Verdict(co.agent)
          <5>1. CASE Go("aborting")
            BY <2>0, <5>1, GoTypes DEF Steps
          <5>2. CASE Go("verdict") /\ MayBecome(co.agent, Verdict(co.agent))
            BY <2>0, <5>2, GoTypes DEF Steps
          <5>3. CASE Go("collect") /\ status[co.agent] = Verdict(co.agent)
            BY <2>0, <5>3, GoTypes DEF Steps
          <5>4. QED
            BY <4>1, <5>1, <5>2, <5>3
        <4>4. mail[co.task] = "acked" /\ acker[co.task] = LeaseOf[co.agent]
          BY <3>8 DEF Report, StoredInv
        <4>5. QED
          BY <3>8, <4>2, <4>3, <4>4 DEF MayBecome, Live, Verdict, mailVars, leaseVars
      <3>9. CASE WriteVerdict /\ UNCHANGED <<mailVars, future>>
        <4>1. /\ co'.at = "collect" /\ co'.agent = co.agent /\ co'.task = co.task
              /\ status' = [status EXCEPT ![co.agent] = Verdict(co.agent)]
          BY <2>0, <3>9, GoTypes DEF WriteVerdict, Write, Steps
        <4>2. co.agent \in Agents /\ mail[co.task] = "acked" /\ acker[co.task] = LeaseOf[co.agent]
          BY <2>0, <2>f, <3>9 DEF WriteVerdict, StoredInv, PoolOK, Answering, Done
        <4>3. status'[co.agent] = Verdict(co.agent)
          BY <2>0, <4>1, <4>2 DEF TreeTypeOK
        <4>4. Kept
          BY <3>2, <3>9 DEF WriteVerdict, Write, AckTask, InRun, Steps
        <4>5. QED
          BY <3>9, <4>1, <4>2, <4>3, <4>4 DEF Verdict, mailVars, leaseVars
      <3>10. CASE AckTask
        <4>1. /\ co'.at = "report" /\ co'.agent = co.agent /\ co'.task = co.task
              /\ co'.results = co.results /\ co.at = "ack"
          BY <2>0, <3>10, GoTypes DEF AckTask, Steps
        <4>2. co.task = job[co.agent] /\ job[co.agent] # None /\ co.agent \in Agents
          BY <2>0, <2>f, <4>1 DEF PoolOK, Answering, Done
        <4>3. co.task \in Messages
          BY <2>0, <2>f, <4>2 DEF PoolOK
        <4>4. mail'[co.task] = "acked" /\ acker'[co.task] = LeaseOf[co.agent]
          BY <2>0, <3>10, <4>3 DEF AckTask, AckMail, Overwrite, MailTypeOK
        <4>5. \A r \in co.results : r.task # co.task
          <5>1. Told(co) \cap Jobs(job) = {}
            BY <4>1 DEF BooksInv, Books, InRun, Steps
          <5>2. QED
            BY <4>2, <5>1 DEF Told, Jobs
        <4>6. Kept
          BY <3>0, <3>r, <4>1, <4>5 DEF Settled, StoredInv, InRun, Steps
        <4>7. QED
          BY <4>1, <4>4, <4>6
      <3>11. ASSUME NEW a \in Workforce, NEW o \in {"returned", "raised"}, WorkerEnds(a, o), UNCHANGED storeVars
             PROVE  Kept /\ Tail4
        <4>1. UNCHANGED co /\ future[a] = "running"
          BY <3>11 DEF WorkerEnds
        <4>2. co.at = "collect" => co.agent # a /\ co.agent \in Agents
          BY <2>0, <2>f, <4>1 DEF PoolOK, Answering, Done
        <4>3. co.at = "collect" => future'[co.agent] = future[co.agent]
          BY <2>0, <3>11, <4>2 DEF WorkerEnds, PoolTypeOK
        <4>4. QED
          BY <3>11, <4>1, <4>3 DEF StoredInv, storeVars, mailVars, leaseVars, Live
      <3>12. CASE CollectResult /\ UNCHANGED storeVars
        <4> DEFINE r0 == ResultOf(co.agent)
        <4>1. /\ co'.at \in {"loop", "reap"} /\ co'.results = co.results \cup {r0} /\ co.at = "collect"
          BY <2>0, <3>12 DEF CollectResult, CoType
        <4>2. r0.task = co.task /\ r0.agent = co.agent /\ r0.outcome = future[co.agent]
          BY DEF ResultOf
        <4> HIDE DEF r0
        <4>3. co.task = job[co.agent] /\ job[co.agent] # None /\ co.agent \in Agents
          BY <2>0, <2>f, <4>1 DEF PoolOK, Answering, Done
        <4>4. to[co.task] = co.agent
          BY <4>3 DEF RunInv
        <4>5. mail[co.task] = "acked" /\ acker[co.task] = LeaseOf[co.agent]
              /\ (future[co.agent] = "raised" => status[co.agent] = "failed")
          BY <4>1 DEF StoredInv
        <4>6. \A r \in co.results :
               /\ to[r.task] = r.agent
               /\ mail[r.task] = "acked" /\ acker[r.task] = LeaseOf[r.agent]
               /\ r.outcome = "raised" => status[r.agent] = "failed"
          BY <4>1 DEF StoredInv, InRun, Steps
        <4>7. UNCHANGED <<to, mail, acker, status>>
          BY <3>12 DEF storeVars, mailVars, leaseVars
        <4>8. Kept
          BY <4>1, <4>2, <4>4, <4>5, <4>6, <4>7
        <4>9. QED
          BY <4>1, <4>8
      <3>13. TeamStep
        BY <2>4 DEF TeamMove
      <3>14. QED
        BY <3>3, <3>4, <3>5, <3>6, <3>7, <3>8, <3>9, <3>10, <3>11, <3>12, <3>13
           DEF TeamStep, storeVars, poolVars
    <2>5. CASE MeddleMove
      BY <2>0, <2>5 DEF MeddleMove
    <2>6. CASE TreeMove \/ MailMove
      BY <2>0, <2>1, <2>6 DEF TreeMove, MailMove, teamVars
    <2>7. QED
      BY <2>2, <2>3, <2>4, <2>5, <2>6, Moves DEF vars, graphVars, poolVars
  <1>3. QED
    BY <1>1, <1>2, TypeCorrect, ChecksHold, RunsHold, BooksHold, PTL DEF Spec

\* A run that returns with nobody meddling has answered every task it was asked
\* once, from the agent it was sent to; the store has what the results say.
THEOREM ReturnAnswers == Spec => []ReturnedMeansAnswered
  <1>1. TypeInv /\ BooksInv /\ StoredInv => ReturnedMeansAnswered
    <2> SUFFICES ASSUME TypeInv, BooksInv, StoredInv, At("returned"), Alone
                 PROVE  /\ Told(co) = co.asked
                        /\ Cardinality(co.results) = Cardinality(co.asked)
                        /\ \A r \in co.results :
                             /\ to[r.task] = r.agent
                             /\ mail[r.task] = "acked" /\ acker[r.task] = LeaseOf[r.agent]
                             /\ r.outcome = "raised" => status[r.agent] = "failed"
      BY DEF ReturnedMeansAnswered, Told
    <2>1. Books(co, job) /\ co.at = "returned" /\ co.at \in InRun
      BY DEF BooksInv, At, InRun, Steps
    <2>2. Told(co) = co.asked
      <3>1. Launched(co) = {} /\ Range(co.todo) = {}
        BY <2>1 DEF Launched, Launching, Books, Range
      <3>2. QED
        BY <2>1, <3>1 DEF Books
    <2>3. Cardinality(co.results) = Cardinality(co.asked)
      <3> DEFINE f == [t \in co.asked |-> CHOOSE r \in co.results : r.task = t]
      <3>1. \A t \in co.asked : f[t] \in co.results /\ f[t].task = t
        BY <2>2 DEF Told
      <3>2. \A r \in co.results : r.task \in co.asked /\ f[r.task] = r
        BY <2>1, <2>2, <3>1 DEF Told, Books
      <3> HIDE DEF f
      <3>3. f \in [co.asked -> co.results]
        BY <3>1 DEF f
      <3>4. f \in Bijection(co.asked, co.results)
        BY <3>1, <3>2, <3>3 DEF Bijection, Injection, Surjection, IsInjective
      <3>5. QED
        BY <2>1, <3>4, FS_Bijection DEF Books, ExistsBijection
    <2>4. QED
      BY <2>1, <2>2, <2>3 DEF StoredInv
  <1>2. QED
    BY <1>1, TypeCorrect, BooksHold, StoredHolds, PTL
=============================================================================
