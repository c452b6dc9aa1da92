--------------------------- MODULE SteeringQueue ---------------------------
(***************************************************************************)
(* steering.py: messages that users send to a thread while it works.  They *)
(* are consumed together, in one transaction, by whoever runs a turn of    *)
(* the thread; a message may be cancelled, which reads its status first    *)
(* and then updates the row by its id.                                     *)
(***************************************************************************)
EXTENDS AccessControl, Ordering

CONSTANTS
    Ids,    \* steering ids, chosen by the caller or at random
    Places  \* places in the order of created_at and steering_id

\* row numbers the inserts; no query reads it.
Message ==
    [thread : Threads, by : Principals, at : Places, row : Nat, status : {"pending", "consumed", "cancelled"}]

ASSUME SteeringAssumption == Places \subseteq Nat /\ None \notin Message

VARIABLES
    messages,   \* the row of an id, None when there is none
    cancelling  \* the id whose cancellation has read "pending"

steeringVars == <<messages, cancelling>>

SteeringInit ==
    /\ messages = [i \in Ids |-> None]
    /\ cancelling = None

Known == {i \in Ids : messages[i] # None}

\* submit: the time is taken before the insert, another process may insert in
\* between, the clock may step back, equal times are ordered by the ids.  So
\* the new row may get any place among the others.
InsertMessage(i, thread, by, at) ==
    /\ \A j \in Known : messages[j].at # at
    /\ messages' = [messages EXCEPT ![i] =
         [thread |-> thread, by |-> by, status |-> "pending", at |-> at, row |-> Cardinality(Known) + 1]]

\* A faulty variant: the status left out of the selection.
OfThread(thread) == {i \in Known : messages[i].thread = thread}

Pending(thread) == {i \in Known : messages[i].thread = thread /\ messages[i].status = "pending"}

\* ORDER BY created_at, steering_id.
InOrder(S) == Ordered(S, [i \in S |-> messages[i].at])

\* consume_pending: the selection and the update are one transaction.
MarkConsumed(S) ==
    messages' = [i \in Ids |-> IF i \in S THEN [messages[i] EXCEPT !.status = "consumed"] ELSE messages[i]]

CancelRead(i) ==
    /\ cancelling = None
    /\ i \in Known /\ messages[i].status = "pending"
    /\ cancelling' = i
    /\ UNCHANGED messages

CancelWrite ==
    /\ cancelling # None
    /\ messages' = [messages EXCEPT ![cancelling].status = "cancelled"]
    /\ cancelling' = None
=============================================================================
