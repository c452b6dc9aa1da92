----------------------------- MODULE AgentGraph -----------------------------
(***************************************************************************)
(* The agents of PersistentAgentGraph (agent_graph.py): a tree of agents   *)
(* kept in a SQLite table, one row per agent with its parent and status.   *)
(* The connection is in autocommit mode, so every SELECT and UPDATE is a   *)
(* step of its own: create_agent reads the parent and then inserts,        *)
(* set_status reads the row and then overwrites it, cancel_subtree reads   *)
(* the tree level by level and cancels it row by row.  op holds the part   *)
(* of a call a process has done so far.  All agents belong to one thread,  *)
(* and rows of agent_events, which nothing reads back, are left out.       *)
(***************************************************************************)
EXTENDS Naturals, FiniteSets, SequencesExt

CONSTANTS
    Agents,     \* agent ids
    Processes,  \* OS processes that may use the tables
    Reports,    \* the statuses callers pass to set_status
    None        \* SQL NULL

VARIABLES
    scene,   \* which tables the run starts from and who uses them; never changes
    users,   \* the processes that call the store; never changes
    parent,  \* column parent_agent_id
    status,  \* column status; "absent" before the INSERT
    op       \* the call each process is in the middle of

graphVars == <<scene, users, parent, status, op>>

LiveStatuses == {"active", "busy", "waiting"}
TerminalStatuses == {"completed", "failed", "cancelled"}

\* "cancelled" is only written by cancel_subtree: no other code of the
\* repository passes it to set_status.
ASSUME GraphAssumption ==
    /\ IsFiniteSet(Agents) /\ None \notin Agents
    /\ Reports \subseteq LiveStatuses \cup {"completed", "failed"}

Live(a) == status[a] \in LiveStatuses
Terminated(a) == status[a] \in TerminalStatuses
Exists(a) == status[a] # "absent"

NoCall == [call |-> "idle"]
TreeCalls ==
    [call : {"create"}, agent : Agents, above : Agents]
        \cup [call : {"status"}, agent : Agents, to : Reports]
        \cup [call : {"collect"}, queue : Seq(Agents) \ {<<>>}, nodes : Seq(Agents)]
        \cup [call : {"cancel"}, todo : Seq(Agents) \ {<<>>}, at : {"look", "check", "write"}]

TreeTypeOK ==
    /\ parent \in [Agents -> Agents \cup {None}]
    /\ status \in [Agents -> LiveStatuses \cup TerminalStatuses \cup {"absent"}]

Idle(p) == op[p] = NoCall
Enter(p, c) == op' = [op EXCEPT ![p] = c]
Leave(p) == Enter(p, NoCall)

-----------------------------------------------------------------------------
\* create_agent without a parent: one INSERT, refused if the id is taken.
CreateRoot(p, a) ==
    /\ Idle(p) /\ ~Exists(a)
    /\ status' = [status EXCEPT ![a] = "active"]
    /\ UNCHANGED <<parent, op>>

\* create_agent under a parent: the parent's row is read and must be live ...
BeginCreate(p, a, above) ==
    /\ Idle(p) /\ a # above
    /\ Live(above)
    /\ Enter(p, [call |-> "create", agent |-> a, above |-> above])
    /\ UNCHANGED <<parent, status>>

\* ... and the child inserted, whatever the parent has become.  An existing
\* id raises ValueError.
InsertAgent(p) ==
    /\ op[p].call = "create"
    /\ LET a == op[p].agent
       IN  IF Exists(a)
           THEN UNCHANGED <<parent, status>>
           ELSE /\ status' = [status EXCEPT ![a] = "active"]
                /\ parent' = [parent EXCEPT ![a] = op[p].above]
    /\ Leave(p)

\* set_status: every live status may become any other one.  The status the
\* row has already is a return, a terminal row an error; neither writes.
MayBecome(a, s) == Live(a) /\ s # status[a]

BeginSetStatus(p, a, s) ==
    /\ Idle(p)
    /\ MayBecome(a, s)
    /\ Enter(p, [call |-> "status", agent |-> a, to |-> s])
    /\ UNCHANGED <<parent, status>>

WriteStatus(p) ==
    /\ op[p].call = "status"
    /\ status' = [status EXCEPT ![op[p].agent] = op[p].to]
    /\ Leave(p)
    /\ UNCHANGED parent

-----------------------------------------------------------------------------
(* cancel_subtree *)

Children(a) == {c \in Agents : parent[c] = a}

\* Faulty variants the checks must notice (see the mutants in PROJECT.json).
RootFirst(nodes) == nodes

\* Leaves before parents: the reverse of the breadth-first order.
CancelOrder(nodes) == Reverse(nodes)

BeginCancelSubtree(p, a) ==
    /\ Idle(p)
    /\ Exists(a)
    /\ Enter(p, [call |-> "collect", queue |-> <<a>>, nodes |-> <<>>])
    /\ UNCHANGED <<parent, status>>

\* descendants: the children of the node at the head of the queue are read.
\* Siblings come in the order they were created in, here in any order.
Collect(p) ==
    /\ op[p].call = "collect"
    /\ \E kids \in SetToSeqs(Children(Head(op[p].queue))) :
         LET queue == Tail(op[p].queue) \o kids
             nodes == Append(op[p].nodes, Head(op[p].queue))
         IN  Enter(p, IF queue = <<>>
                      THEN [call |-> "cancel", todo |-> CancelOrder(nodes), at |-> "look"]
                      ELSE [call |-> "collect", queue |-> queue, nodes |-> nodes])
    /\ UNCHANGED <<parent, status>>

CancelNext(p) ==
    LET rest == Tail(op[p].todo)
    IN  Enter(p, IF rest = <<>> THEN NoCall ELSE [call |-> "cancel", todo |-> rest, at |-> "look"])

\* The row is read again: a terminal node is passed over.
LookAgain(p) ==
    /\ op[p].call = "cancel" /\ op[p].at = "look"
    /\ IF Terminated(Head(op[p].todo))
       THEN CancelNext(p)
       ELSE Enter(p, [op[p] EXCEPT !.at = "check"])
    /\ UNCHANGED <<parent, status>>

\* set_status reads it once more; a node that finished meanwhile raises
\* RuntimeError, which ends the whole call with its ancestors still live.
CheckAgain(p) ==
    /\ op[p].call = "cancel" /\ op[p].at = "check"
    /\ LET a == Head(op[p].todo)
       IN  CASE Live(a)                 -> Enter(p, [op[p] EXCEPT !.at = "write"])
             [] status[a] = "cancelled" -> CancelNext(p)
             [] OTHER                   -> Leave(p)
    /\ UNCHANGED <<parent, status>>

WriteCancelled(p) ==
    /\ op[p].call = "cancel" /\ op[p].at = "write"
    /\ status' = [status EXCEPT ![Head(op[p].todo)] = "cancelled"]
    /\ CancelNext(p)
    /\ UNCHANGED parent

\* The process dies between two statements of a call and is started again.
Crash(p) ==
    /\ ~Idle(p)
    /\ Leave(p)
    /\ UNCHANGED <<parent, status>>

\* A call on the tree that process p begins, or goes on with.
TreeStep(p) ==
    \/ \E a \in Agents : CreateRoot(p, a) \/ BeginCancelSubtree(p, a)
    \/ \E a, b \in Agents : BeginCreate(p, a, b)
    \/ \E a \in Agents, s \in Reports : BeginSetStatus(p, a, s)
    \/ InsertAgent(p) \/ WriteStatus(p)
    \/ Collect(p) \/ LookAgain(p) \/ CheckAgain(p) \/ WriteCancelled(p)
    \/ Crash(p)

-----------------------------------------------------------------------------
(* Properties *)

Alone == \A p, q \in users : p = q

\* The agents below a: the least set that holds the children of a and of its
\* own members.
Under(a) ==
    {d \in Agents : \A S \in SUBSET Agents :
        (\A c \in S \cup {a} : Children(c) \subseteq S) => d \in S}

\* A cancelled agent has no live agent anywhere below it, at any point of a
\* cancellation and after a crash in the middle of one: what the comment in
\* cancel_subtree says its order is for.  It needs the calls to come from one
\* process, so that no child is created while the tree is being read.
CancelledSubtreeIsDown ==
    Alone => \A a \in Agents :
        status[a] = "cancelled" => \A d \in Under(a) : Terminated(d)
=============================================================================
