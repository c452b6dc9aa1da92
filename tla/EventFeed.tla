----------------------------- MODULE EventFeed -----------------------------
(***************************************************************************)
(* event_stream.py and the SSE projection of sse_events.py: an append-only *)
(* feed whose readers resume from the id of the last event they have.  An  *)
(* SSE handler reads rows and writes them to the client one by one; the    *)
(* connection may be lost at any point, with what is still on the wire.    *)
(***************************************************************************)
EXTENDS SteeringQueue

CONSTANTS
    Readers,
    FilterOf,   \* the thread a reader asks for, None for all
    MaxEvents,  \* maxEvents of a stream, limit of a poll
    MaxDrops    \* bound on lost connections

VARIABLES
    feed,   \* the events; the id of an event is its place
    got,    \* ids of the events a reader has been given
    conn,   \* its open stream, None when it has none
    drops

feedVars == <<feed, got, conn, drops>>

FeedInit ==
    /\ feed = <<>> /\ drops = 0
    /\ got = [r \in Readers |-> <<>>]
    /\ conn = [r \in Readers |-> None]

\* about: the message or the cancellation that the event tells of.
NewEvent(topic, thread, about) == [topic |-> topic, thread |-> thread, about |-> about]

\* append: the new row gets the next id.
Emits(e) == feed' = Append(feed, e)

Matches(r, i) == FilterOf[r] = None \/ feed[i].thread = FilterOf[r]

\* read: the first rows after a cursor that match.
ReadAfter(r, cursor, limit) ==
    LET found == {i \in DOMAIN feed : i > cursor /\ Matches(r, i)}
        rows == Ordered(found, [i \in found |-> i])
    IN IF Len(rows) <= limit THEN rows ELSE SubSeq(rows, 1, limit)

\* The cursor a client resumes from: the last event it has.
CursorOf(ids) == IF ids = <<>> THEN 0 ELSE ids[Len(ids)]

Given(r, ids) == got' = [got EXCEPT ![r] = @ \o ids]

Poll(r) ==
    /\ conn[r] = None
    /\ Given(r, ReadAfter(r, CursorOf(got[r]), MaxEvents))
    /\ UNCHANGED <<feed, conn, drops>>

Open(r) ==
    /\ conn[r] = None
    /\ conn' = [conn EXCEPT ![r] =
         [cursor |-> CursorOf(got[r]), rows |-> <<>>, sent |-> <<>>, polled |-> FALSE]]
    /\ UNCHANGED <<feed, got, drops>>

Reading(r) == conn[r] # None /\ conn[r].rows = <<>> /\ Len(conn[r].sent) < MaxEvents
TakeRows(r, rows) ==
    /\ conn' = [conn EXCEPT ![r].rows = rows, ![r].polled = TRUE]
    /\ UNCHANGED <<feed, got, drops>>

\* A faulty variant the checks must notice (see the mutants in PROJECT.json): the
\* handler does not remember what it sent in this stream.
ReadRowsAgain(r) == Reading(r) /\ TakeRows(r, ReadAfter(r, CursorOf(got[r]), MaxEvents))

\* One turn of the handler's loop, which runs at least once.
ReadRows(r) ==
    Reading(r) /\ TakeRows(r, ReadAfter(r, conn[r].cursor, MaxEvents - Len(conn[r].sent)))

WriteRow(r) ==
    /\ conn[r] # None /\ conn[r].rows # <<>>
    /\ LET row == Head(conn[r].rows) IN
       conn' = [conn EXCEPT ![r].rows = Tail(@), ![r].cursor = row, ![r].sent = Append(@, row)]
    /\ UNCHANGED <<feed, got, drops>>

\* A faulty variant: a stream that ends only when it is full.
EndFullStream(r) ==
    /\ conn[r] # None /\ conn[r].rows = <<>> /\ Len(conn[r].sent) >= MaxEvents
    /\ Given(r, conn[r].sent)
    /\ conn' = [conn EXCEPT ![r] = None]
    /\ UNCHANGED <<feed, drops>>

\* Enough was sent, or the deadline passed: the client returns what it read.
EndStream(r) ==
    /\ conn[r] # None /\ conn[r].polled /\ conn[r].rows = <<>>
    /\ Given(r, conn[r].sent)
    /\ conn' = [conn EXCEPT ![r] = None]
    /\ UNCHANGED <<feed, drops>>

\* The connection is lost: the client has read some of what was sent, all of it
\* is gone when the loss is an error to it.
Drop(r) ==
    /\ conn[r] # None /\ drops < MaxDrops
    /\ \E n \in 0..Len(conn[r].sent) : Given(r, SubSeq(conn[r].sent, 1, n))
    /\ conn' = [conn EXCEPT ![r] = None]
    /\ drops' = drops + 1
    /\ UNCHANGED feed

Serve(r) == ReadRows(r) \/ WriteRow(r) \/ EndStream(r)

\* All that a reader is owed up to its cursor, or of the whole feed.
Owed(r, last) == {i \in 1..last : Matches(r, i)}
=============================================================================
