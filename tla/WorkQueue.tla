----------------------------- MODULE WorkQueue -----------------------------
(***************************************************************************)
(* DurableWorkQueue of runtime_queue.py: a SQLite table of work items with *)
(* leases.  The table is shared by operating-system processes, each with   *)
(* its own autocommit connection, so one SQL statement is one step and     *)
(* only claim and renew_lease, which run inside BEGIN IMMEDIATE, read and  *)
(* write in one step.  _finish, release and cancel read the row, check it  *)
(* in Python and then UPDATE it by item_id alone: two steps, between which *)
(* another process may run.                                                *)
(*                                                                         *)
(* The columns are functions of the item; until = 0 stands for NULL.       *)
(***************************************************************************)
EXTENDS Naturals

CONSTANTS
    Items,         \* work item ids; naturals, because claim orders by id
    Workers,       \* worker ids passed to claim, renew_lease, ack, ...
    Threads,       \* agent threads the items belong to
    Kinds,         \* item kinds
    Processes,     \* OS processes that may use the table
    LeaseSeconds,  \* duration of every lease
    MaxTime,       \* bound on the clock
    None           \* SQL NULL

ASSUME QueueAssumption ==
    /\ Items \subseteq Nat
    /\ None \notin Workers
    /\ LeaseSeconds \in Nat \ {0}
    /\ MaxTime \in Nat

VARIABLES
    users,     \* the processes that do use it; never changes
    clock,     \* time.time(), the same for every process of the machine
    status,    \* the item's status; "absent" before enqueue
    thread,    \* column thread_id
    kind,      \* column kind
    created,   \* column created_at
    owner,     \* column lease_owner
    until,     \* column lease_until
    result,    \* the worker whose result_json is stored
    op         \* the call each process has checked and not yet written

rowVars == <<status, thread, kind, created, owner, until, result>>
vars == <<users, clock, status, thread, kind, created, owner, until, result, op>>

Terminal == {"completed", "failed", "cancelled"}
Statuses == {"absent", "pending", "leased"} \cup Terminal
HeldCalls == {"ack", "fail", "release"}

NoCall == [call |-> "idle"]
Calls ==
    {NoCall}
      \cup [call : HeldCalls, item : Items, worker : Workers]
      \cup [call : {"cancel"}, item : Items]

Idle(p) == op[p] = NoCall

TypeOK ==
    /\ users \subseteq Processes
    /\ clock \in Nat
    /\ status \in [Items -> Statuses]
    /\ thread \in [Items -> Threads \cup {None}]
    /\ kind \in [Items -> Kinds \cup {None}]
    /\ created \in [Items -> Nat]
    /\ owner \in [Items -> Workers \cup {None}]
    /\ until \in [Items -> Nat]
    /\ result \in [Items -> Workers \cup {None}]
    /\ op \in [Processes -> Calls]

Init ==
    /\ users \in SUBSET Processes
    /\ clock = 1
    /\ status = [i \in Items |-> "absent"]
    /\ thread = [i \in Items |-> None]
    /\ kind = [i \in Items |-> None]
    /\ created = [i \in Items |-> 0]
    /\ owner = [i \in Items |-> None]
    /\ until = [i \in Items |-> 0]
    /\ result = [i \in Items |-> None]
    /\ op = [p \in Processes |-> NoCall]

-----------------------------------------------------------------------------
\* enqueue: the primary key rejects an id that is already there.
Enqueue(p, i, t, k) ==
    /\ Idle(p)
    /\ status[i] = "absent"
    /\ status' = [status EXCEPT ![i] = "pending"]
    /\ thread' = [thread EXCEPT ![i] = t]
    /\ kind' = [kind EXCEPT ![i] = k]
    /\ created' = [created EXCEPT ![i] = clock]
    /\ UNCHANGED <<clock, owner, until, result, op>>

\* Faulty variants the checks must notice (see the mutants in PROJECT.json).
ExpirySubtracted == clock - LeaseSeconds
ClaimableIgnoringExpiry(i) == status[i] \in {"pending", "leased"}
HeldBySomebody(i, w) == status[i] = "leased"
OpenUnlessCancelled(i) == status[i] \notin {"absent", "cancelled"}
UnleaseKeepingExpiry(i, s) ==
    /\ status' = [status EXCEPT ![i] = s]
    /\ owner' = [owner EXCEPT ![i] = None]
    /\ UNCHANGED until

\* The lease_until that claim and renew_lease write.
Expiry == clock + LeaseSeconds

\* The WHERE clause of claim.  An empty set of kinds is no filter, as in the
\* code; thread_ids = None, no filter either, is the scope Threads.
Claimable(i) == status[i] = "pending" \/ (status[i] = "leased" /\ until[i] <= clock)
Eligible(kinds, scope) ==
    {i \in Items : /\ Claimable(i)
                   /\ kinds = {} \/ kind[i] \in kinds
                   /\ thread[i] \in scope}

\* ORDER BY created_at ASC, item_id ASC LIMIT 1
Older(i, j) == created[i] < created[j] \/ (created[i] = created[j] /\ i <= j)

Claim(p, w, kinds, scope) ==
    /\ Idle(p)
    /\ \E i \in Eligible(kinds, scope) :
        /\ \A j \in Eligible(kinds, scope) : Older(i, j)
        /\ status' = [status EXCEPT ![i] = "leased"]
        /\ owner' = [owner EXCEPT ![i] = w]
        /\ until' = [until EXCEPT ![i] = Expiry]
    /\ UNCHANGED <<clock, thread, kind, created, result, op>>

HeldBy(i, w) == status[i] = "leased" /\ owner[i] = w

\* renew_lease: refused once the lease has expired, even if nobody reclaimed it.
RenewLease(p, i, w) ==
    /\ Idle(p)
    /\ HeldBy(i, w)
    /\ until[i] >= clock
    /\ until' = [until EXCEPT ![i] = Expiry]
    /\ UNCHANGED <<clock, status, thread, kind, created, owner, result, op>>

\* ack, fail and release: the row is read and the caller's ownership checked.
\* The expiry of the lease is not.
BeginHeld(p, c, i, w) ==
    /\ Idle(p)
    /\ HeldBy(i, w)
    /\ op' = [op EXCEPT ![p] = [call |-> c, item |-> i, worker |-> w]]
    /\ UNCHANGED <<clock, rowVars>>

\* cancel: the row is read and must not be terminal.
NotTerminal(i) == status[i] \in {"pending", "leased"}

BeginCancel(p, i) ==
    /\ Idle(p)
    /\ NotTerminal(i)
    /\ op' = [op EXCEPT ![p] = [call |-> "cancel", item |-> i]]
    /\ UNCHANGED <<clock, rowVars>>

\* UPDATE ... SET status = ?, lease_owner = NULL, lease_until = NULL
\* WHERE item_id = ?, whatever the row has become since it was read.
Unlease(i, s) ==
    /\ status' = [status EXCEPT ![i] = s]
    /\ owner' = [owner EXCEPT ![i] = None]
    /\ until' = [until EXCEPT ![i] = 0]

Finish(p) ==
    /\ op[p].call \in {"ack", "fail"}
    /\ Unlease(op[p].item, IF op[p].call = "ack" THEN "completed" ELSE "failed")
    /\ result' = [result EXCEPT ![op[p].item] = op[p].worker]
    /\ op' = [op EXCEPT ![p] = NoCall]
    /\ UNCHANGED <<clock, thread, kind, created>>

Release(p) ==
    /\ op[p].call = "release"
    /\ Unlease(op[p].item, "pending")
    /\ op' = [op EXCEPT ![p] = NoCall]
    /\ UNCHANGED <<clock, thread, kind, created, result>>

Cancel(p) ==
    /\ op[p].call = "cancel"
    /\ Unlease(op[p].item, "cancelled")
    /\ op' = [op EXCEPT ![p] = NoCall]
    /\ UNCHANGED <<clock, thread, kind, created, result>>

\* The process dies between the check and the UPDATE and is started again.
Crash(p) ==
    /\ ~Idle(p)
    /\ op' = [op EXCEPT ![p] = NoCall]
    /\ UNCHANGED <<clock, rowVars>>

Tick ==
    /\ clock < MaxTime
    /\ clock' = clock + 1
    /\ UNCHANGED <<rowVars, op>>

Call(p) ==
    \/ \E i \in Items, t \in Threads, k \in Kinds : Enqueue(p, i, t, k)
    \/ \E w \in Workers, ks \in SUBSET Kinds, ts \in SUBSET Threads : Claim(p, w, ks, ts)
    \/ \E i \in Items, w \in Workers :
          RenewLease(p, i, w) \/ \E c \in HeldCalls : BeginHeld(p, c, i, w)
    \/ \E i \in Items : BeginCancel(p, i)
    \/ Finish(p) \/ Release(p) \/ Cancel(p) \/ Crash(p)

Next ==
    /\ Tick \/ \E p \in users : Call(p)
    /\ UNCHANGED users

Spec == Init /\ [][Next]_vars

-----------------------------------------------------------------------------
(* Properties *)

\* A row is leased exactly when it names an owner and an expiry: no writer,
\* however stale the row it read, leaves a lease that nobody owns or an owner
\* on an item nobody may work on (claim, _finish, release and cancel each set
\* the three columns together).
LeaseShape ==
    \A i \in Items :
        /\ (status[i] = "leased") <=> (owner[i] # None)
        /\ (status[i] = "leased") <=> (until[i] # 0)

\* A lease passes from one worker straight to another only after it expired:
\* claim's transaction is what stops two workers running one item.
NoLeaseStealing ==
    [][\A i \in Items :
         (owner[i] # None /\ owner'[i] \notin {None, owner[i]}) => until[i] <= clock]_vars

\* A single process uses the table, so its calls run one after the other.
Alone == \A p, q \in users : p = q

\* With one process, a completed, failed or cancelled item is never changed
\* again, although its calls check a row and write it in two steps.
TerminalIsFinal ==
    [][\A i \in Items :
         (Alone /\ status[i] \in Terminal) => status'[i] = status[i]]_vars

\* With one process, the row a pending UPDATE is about to overwrite is still
\* the row its call checked: the strengthening that makes TerminalIsFinal and
\* the refinement below inductive.
ChecksStillHold ==
    Alone => \A p \in users :
        /\ op[p].call \in HeldCalls => HeldBy(op[p].item, op[p].worker)
        /\ op[p].call = "cancel" => NotTerminal(op[p].item)

\* The abstract queue: the lease columns as a ledger of who may act on what.
PhaseOf(s) ==
    CASE s = "absent"  -> "unknown"
      [] s = "pending" -> "free"
      [] s = "leased"  -> "held"
      [] OTHER         -> "closed"
LedgerPhase == [i \in Items |-> PhaseOf(status[i])]
LedgerLapsed == {i \in Items : status[i] = "leased" /\ until[i] <= clock}

Ledger == INSTANCE LeaseLedger WITH
    phase <- LedgerPhase, holder <- owner, lapsed <- LedgerLapsed, closedBy <- result

\* With one process the queue implements the ledger: every result was written
\* by the worker holding the lease at that moment, and nothing closed reopens.
ImplementsLedger ==
    Ledger!Init /\ [][Alone => Ledger!Next]_(Ledger!ledgerVars)
=============================================================================
