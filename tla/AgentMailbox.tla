---------------------------- MODULE AgentMailbox ----------------------------
(***************************************************************************)
(* The durable mailbox of PersistentAgentGraph (agent_graph.py): messages  *)
(* from agent to agent, delivered in order of their sending to whoever     *)
(* works for the recipient, under a lease that is reclaimed when it runs   *)
(* out.  As in WorkQueue.tla only the choice and the lease of claim_message*)
(* are one transaction; the status of the agents is read before it, and    *)
(* ack_message, release_message and cancel_message read a row, check it    *)
(* and then overwrite it by its id.                                        *)
(***************************************************************************)
EXTENDS AgentGraph

CONSTANTS
    Messages,      \* message ids; naturals, because a claim orders by id
    Letters,       \* the ids clients choose when they send by themselves
    Workers,       \* worker ids that own leases
    Kinds,         \* message kinds
    LeaseSeconds,  \* duration of a lease
    MaxTime        \* bound on the clock

ASSUME MailboxAssumption ==
    /\ Messages \subseteq Nat /\ Letters \subseteq Messages
    /\ None \notin Workers \cup Messages
    /\ LeaseSeconds \in Nat \ {0} /\ MaxTime \in Nat

VARIABLES
    clock,  \* time.time()
    mail,   \* the message's status; "absent" before send
    to,     \* column recipient_agent_id
    kind,   \* column kind
    sent,   \* column created_at
    owner,  \* column lease_owner
    until,  \* column lease_until; 0 stands for NULL
    acker   \* the worker whose result_json is stored

leaseVars == <<mail, owner, until, acker>>
mailVars == <<clock, to, kind, sent, leaseVars>>

MailCalls ==
    [call : {"send"}, mail : Messages, to : Agents, kind : Kinds]
        \cup [call : {"claim"}, to : Agents, worker : Workers, kinds : SUBSET Kinds]
        \cup [call : {"ack", "release"}, mail : Messages, worker : Workers]
        \cup [call : {"cancel_message"}, mail : Messages]

MailTypeOK ==
    /\ clock \in Nat
    /\ mail \in [Messages -> {"absent", "pending", "leased", "acked", "cancelled"}]
    /\ to \in [Messages -> Agents \cup {None}]
    /\ kind \in [Messages -> Kinds \cup {None}]
    /\ sent \in [Messages -> Nat]
    /\ owner \in [Messages -> Workers \cup {None}]
    /\ until \in [Messages -> Nat]
    /\ acker \in [Messages -> Workers \cup {None}]

-----------------------------------------------------------------------------
(* The statements of the store, as the coordinator issues them too *)

\* The INSERT of send; the guard is the primary key.
InsertMail(m, a, k) ==
    /\ mail[m] = "absent"
    /\ mail' = [mail EXCEPT ![m] = "pending"]
    /\ to' = [to EXCEPT ![m] = a]
    /\ kind' = [kind EXCEPT ![m] = k]
    /\ sent' = [sent EXCEPT ![m] = clock]
    /\ UNCHANGED <<clock, owner, until, acker>>

\* Faulty variants the checks must notice (see the mutants in PROJECT.json).
UnleasedAnyhow(m) == mail[m] \in {"pending", "leased"}
OwnerIgnored(m, w) == mail[m] = "leased"

\* The WHERE and the ORDER BY of claim_message.
Available(m) == mail[m] = "pending" \/ (mail[m] = "leased" /\ until[m] <= clock)
Waiting(a, kinds) ==
    {m \in Messages : /\ to[m] = a
                      /\ Available(m)
                      /\ kinds = {} \/ kind[m] \in kinds}
Before(m, n) == sent[m] < sent[n] \/ (sent[m] = sent[n] /\ m <= n)
IsNext(m, a, kinds) == m \in Waiting(a, kinds) /\ \A n \in Waiting(a, kinds) : Before(m, n)

LeaseTo(m, w) ==
    /\ mail' = [mail EXCEPT ![m] = "leased"]
    /\ owner' = [owner EXCEPT ![m] = w]
    /\ until' = [until EXCEPT ![m] = clock + LeaseSeconds]
    /\ UNCHANGED <<clock, to, kind, sent, acker>>

\* The check of ack_message and release_message; the expiry is not looked at.
HeldBy(m, w) == mail[m] = "leased" /\ owner[m] = w

Overwrite(m, s) ==
    /\ mail' = [mail EXCEPT ![m] = s]
    /\ owner' = [owner EXCEPT ![m] = None]
    /\ until' = [until EXCEPT ![m] = 0]
    /\ UNCHANGED <<clock, to, kind, sent>>

AckMail(m, w) ==
    /\ Overwrite(m, "acked")
    /\ acker' = [acker EXCEPT ![m] = w]

-----------------------------------------------------------------------------
(* The calls *)

\* send: both agents are read and must be live.  The two reads are one step:
\* what decides is that an agent read as live may be terminal at the INSERT.
BeginSend(p, a, b, m, k) ==
    /\ Idle(p)
    /\ Live(a) /\ Live(b)
    /\ Enter(p, [call |-> "send", mail |-> m, to |-> b, kind |-> k])
    /\ UNCHANGED mailVars

Send(p) ==
    /\ op[p].call = "send"
    /\ LET c == op[p]
       IN  IF mail[c.mail] = "absent" THEN InsertMail(c.mail, c.to, c.kind) ELSE UNCHANGED mailVars
    /\ Leave(p)

\* claim_message: a terminal recipient has no mail to claim ...
BeginClaim(p, a, w, kinds) ==
    /\ Idle(p)
    /\ Live(a)
    /\ Enter(p, [call |-> "claim", to |-> a, worker |-> w, kinds |-> kinds])
    /\ UNCHANGED mailVars

\* ... and inside BEGIN IMMEDIATE the oldest message that waits is leased.
Claim(p) ==
    /\ op[p].call = "claim"
    /\ LET c == op[p]
       IN  IF Waiting(c.to, c.kinds) = {}
           THEN UNCHANGED mailVars
           ELSE \E m \in Messages : IsNext(m, c.to, c.kinds) /\ LeaseTo(m, c.worker)
    /\ Leave(p)

BeginHeld(p, c, m, w) ==
    /\ Idle(p)
    /\ HeldBy(m, w)
    /\ Enter(p, [call |-> c, mail |-> m, worker |-> w])
    /\ UNCHANGED mailVars

BeginCancelMessage(p, m) ==
    /\ Idle(p)
    /\ mail[m] \in {"pending", "leased"}
    /\ Enter(p, [call |-> "cancel_message", mail |-> m])
    /\ UNCHANGED mailVars

Ack(p) ==
    /\ op[p].call = "ack"
    /\ AckMail(op[p].mail, op[p].worker)
    /\ Leave(p)

Release(p) ==
    /\ op[p].call = "release"
    /\ Overwrite(op[p].mail, "pending")
    /\ Leave(p)
    /\ UNCHANGED acker

CancelMessage(p) ==
    /\ op[p].call = "cancel_message"
    /\ Overwrite(op[p].mail, "cancelled")
    /\ Leave(p)
    /\ UNCHANGED acker

Tick ==
    /\ clock < MaxTime
    /\ clock' = clock + 1
    /\ UNCHANGED <<to, kind, sent, leaseVars>>

\* A call on the mailbox that process p begins, or goes on with.
MailStep(p) ==
    \/ \E a, b \in Agents, m \in Letters, k \in Kinds : BeginSend(p, a, b, m, k)
    \/ \E a \in Agents, w \in Workers, ks \in SUBSET Kinds : BeginClaim(p, a, w, ks)
    \/ \E m \in Messages, w \in Workers, c \in {"ack", "release"} : BeginHeld(p, c, m, w)
    \/ \E m \in Messages : BeginCancelMessage(p, m)
    \/ Send(p) \/ Claim(p) \/ Ack(p) \/ Release(p) \/ CancelMessage(p)

-----------------------------------------------------------------------------
(* Properties *)

PhaseOf(s) ==
    CASE s = "absent"  -> "unknown"
      [] s = "pending" -> "free"
      [] s = "leased"  -> "held"
      [] OTHER         -> "closed"

Ledger == INSTANCE LeaseLedger WITH
    Items <- Messages,
    phase <- [m \in Messages |-> PhaseOf(mail[m])],
    holder <- owner,
    lapsed <- {m \in Messages : mail[m] = "leased" /\ until[m] <= clock},
    closedBy <- acker

\* Used by one process, the mailbox is the lease ledger the work queue is: no
\* message is delivered to two workers at once, acked by a worker that does
\* not hold it, or delivered again once it is acked or cancelled.
MailboxImplementsLedger ==
    Ledger!Init /\ [][Alone => Ledger!Next]_(Ledger!ledgerVars)
=============================================================================
