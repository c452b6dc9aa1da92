---------------------------- MODULE LeaseLedger ----------------------------
(***************************************************************************)
(* What a lease-based queue promises to the code that works on its items,  *)
(* whatever table it is kept in: an item is opened once, is held by at     *)
(* most one worker, changes hands only when its lease has lapsed or was    *)
(* given back, is closed only by the worker holding it or by a withdrawal, *)
(* and is never touched again once closed.                                 *)
(*                                                                         *)
(* WorkQueue.tla (runtime_queue.py) implements this module as long as the  *)
(* table is used by one process at a time.                                 *)
(***************************************************************************)

CONSTANTS Items, Workers, None

VARIABLES
    phase,     \* "unknown", "free", "held" or "closed", for each item
    holder,    \* the worker an item is leased to, or None
    lapsed,    \* the held items whose lease has run out
    closedBy   \* the worker whose outcome closed an item, or None

ledgerVars == <<phase, holder, lapsed, closedBy>>

TypeOK ==
    /\ phase \in [Items -> {"unknown", "free", "held", "closed"}]
    /\ holder \in [Items -> Workers \cup {None}]
    /\ lapsed \in SUBSET Items
    /\ closedBy \in [Items -> Workers \cup {None}]

Init ==
    /\ phase = [i \in Items |-> "unknown"]
    /\ holder = [i \in Items |-> None]
    /\ lapsed = {}
    /\ closedBy = [i \in Items |-> None]

\* A new item is free.
Open(i) ==
    /\ phase[i] = "unknown"
    /\ phase' = [phase EXCEPT ![i] = "free"]
    /\ UNCHANGED <<holder, lapsed, closedBy>>

\* A free item, or one whose lease has lapsed, is leased to w.
Grant(i, w) ==
    /\ phase[i] = "free" \/ (phase[i] = "held" /\ i \in lapsed)
    /\ phase' = [phase EXCEPT ![i] = "held"]
    /\ holder' = [holder EXCEPT ![i] = w]
    /\ lapsed' = lapsed \ {i}
    /\ UNCHANGED closedBy

\* The holder extends its lease.
Extend(i) ==
    /\ phase[i] = "held"
    /\ lapsed' = lapsed \ {i}
    /\ UNCHANGED <<phase, holder, closedBy>>

\* Time passes and the leases of some held items run out.
Lapse ==
    /\ \E S \in SUBSET {i \in Items : phase[i] = "held"} : lapsed' = lapsed \cup S
    /\ UNCHANGED <<phase, holder, closedBy>>

\* The holder gives the item back.
Return(i, w) ==
    /\ phase[i] = "held" /\ holder[i] = w
    /\ phase' = [phase EXCEPT ![i] = "free"]
    /\ holder' = [holder EXCEPT ![i] = None]
    /\ lapsed' = lapsed \ {i}
    /\ UNCHANGED closedBy

\* The holder closes the item with its outcome.
Close(i, w) ==
    /\ phase[i] = "held" /\ holder[i] = w
    /\ phase' = [phase EXCEPT ![i] = "closed"]
    /\ holder' = [holder EXCEPT ![i] = None]
    /\ lapsed' = lapsed \ {i}
    /\ closedBy' = [closedBy EXCEPT ![i] = w]

\* Anybody withdraws an item that is not closed yet.
Withdraw(i) ==
    /\ phase[i] \in {"free", "held"}
    /\ phase' = [phase EXCEPT ![i] = "closed"]
    /\ holder' = [holder EXCEPT ![i] = None]
    /\ lapsed' = lapsed \ {i}
    /\ UNCHANGED closedBy

Next ==
    \/ \E i \in Items : Open(i) \/ Extend(i) \/ Withdraw(i)
    \/ \E i \in Items, w \in Workers : Grant(i, w) \/ Return(i, w) \/ Close(i, w)
    \/ Lapse

Spec == Init /\ [][Next]_ledgerVars
=============================================================================
