------------------------- MODULE ControlPlaneProofs -------------------------
(***************************************************************************)
(* Proofs about ControlPlane.tla for any principals, threads, ids, servers,*)
(* workers and readers, and any bounds on a stream and on the feed.        *)
(***************************************************************************)
EXTENDS ControlPlane, OrderingProofs, SequenceTheorems, TLAPS

-----------------------------------------------------------------------------
(* Ordered rows *)

\* The rows of a read: those after the cursor that match, in order, with none left
\* out before the last of them.
LEMMA ReadAfterRows ==
    ASSUME NEW E, feed \in Seq(E), NEW r, NEW cursor \in Nat, NEW limit \in Nat,
           NEW rows, rows = ReadAfter(r, cursor, limit)
    PROVE  /\ rows \in Seq(Nat)
           /\ \A k \in DOMAIN rows :
                rows[k] \in DOMAIN feed /\ rows[k] > cursor /\ Matches(r, rows[k])
           /\ \A k, l \in DOMAIN rows : k < l => rows[k] < rows[l]
           /\ \A i \in DOMAIN feed : \A k \in DOMAIN rows :
                (i > cursor /\ Matches(r, i) /\ i <= rows[k]) => \E l \in DOMAIN rows : rows[l] = i
  <1> DEFINE found == {i \in DOMAIN feed : i > cursor /\ Matches(r, i)}
             all == Ordered(found, [i \in found |-> i])
             n == IF Len(all) <= limit THEN Len(all) ELSE limit
  <1>1. IsFiniteSet(found) /\ found \subseteq Nat
    <2>1. IsFiniteSet(1..Len(feed)) /\ DOMAIN feed = 1..Len(feed) /\ Len(feed) \in Nat
      BY FS_Interval
    <2>2. found \in SUBSET (1..Len(feed))
      BY <2>1
    <2>3. IsFiniteSet(found)
      <3> HIDE DEF found
      <3>1. QED
        BY <2>1, <2>2, FS_Subset
    <2>4. QED
      BY <2>2, <2>3
  <1>2. /\ all \in [1..Cardinality(found) -> found]
        /\ Sorts(all, found, [i \in found |-> i])
    <2> HIDE DEF found
    <2>1. QED
      BY <1>1, OrderedSorts
  <1>3. Cardinality(found) \in Nat
    BY <1>1, FS_CardinalityType
  <1>4. /\ all \in Seq(Nat) /\ Len(all) = Cardinality(found) /\ DOMAIN all = 1..Len(all)
        /\ \A k \in DOMAIN all : all[k] \in found
        /\ \A k, l \in DOMAIN all : k < l => all[k] < all[l]
        /\ \A i \in found : \E k \in DOMAIN all : all[k] = i
    <2> HIDE DEF all, found
    <2>1. all \in Seq(found) /\ DOMAIN all = 1..Cardinality(found)
      BY <1>2, <1>3
    <2>2. all \in Seq(Nat) /\ Len(all) = Cardinality(found)
      <3>1. all \in [1..Cardinality(found) -> Nat]
        BY <1>1, <1>2
      <3>2. QED
        BY <3>1, <1>3
    <2>3. \A k \in DOMAIN all : all[k] \in found
      BY <1>2
    <2>4. \A k, l \in DOMAIN all : k < l => all[k] < all[l]
      BY <1>2, <2>3 DEF Sorts
    <2>5. \A i \in found : \E k \in DOMAIN all : all[k] = i
      BY <1>2 DEF Sorts, Range
    <2>6. QED
      BY <2>1, <2>2, <2>3, <2>4, <2>5
  <1>5. /\ n \in 0..Len(all)
        /\ ReadAfter(r, cursor, limit) = SubSeq(all, 1, n)
    <2>1. ReadAfter(r, cursor, limit) = IF Len(all) <= limit THEN all ELSE SubSeq(all, 1, limit)
      BY DEF ReadAfter
    <2> HIDE DEF all
    <2>2. QED
      BY <2>1, <1>4
  <1> HIDE DEF all, n
  <1>6. rows \in Seq(Nat) /\ DOMAIN rows = 1..n /\ \A k \in 1..n : rows[k] = all[k]
    BY <1>4, <1>5
  <1>7. \A k \in DOMAIN rows : rows[k] \in found
    BY <1>4, <1>5, <1>6
  <1>8. \A k, l \in DOMAIN rows : k < l => rows[k] < rows[l]
    <2> SUFFICES ASSUME NEW k \in 1..n, NEW l \in 1..n, k < l
                 PROVE  rows[k] < rows[l]
      BY <1>6
    <2>1. k \in DOMAIN all /\ l \in DOMAIN all
      BY <1>4, <1>5
    <2>2. QED
      BY <2>1, <1>4, <1>6
  <1>9. ASSUME NEW i \in found, NEW k \in DOMAIN rows, i <= rows[k]
        PROVE  \E l \in DOMAIN rows : rows[l] = i
    <2>1. PICK l \in DOMAIN all : all[l] = i
      BY <1>4
    <2>2. k \in DOMAIN all /\ rows[k] = all[k] /\ all[k] \in Nat /\ all[l] \in Nat
      BY <1>4, <1>5, <1>6, SMTT(30)
    <2>3. l <= k
      <3> SUFFICES ASSUME k < l PROVE FALSE
        BY <2>1, <2>2, <1>4
      <3>1. all[k] < all[l]
        BY <1>4, <2>1, <2>2
      <3>2. QED
        BY <3>1, <2>1, <2>2, <1>9
    <2>4. l \in 1..n
      BY <2>1, <2>2, <2>3, <1>4, <1>5, <1>6
    <2>5. QED
      BY <2>1, <2>4, <1>6
  <1>10. QED
    BY <1>6, <1>7, <1>8, <1>9
-----------------------------------------------------------------------------
(* Types *)

\* The rows of the steering messages are numbered in the order of their inserts,
\* and each has a place of its own.
RowsNumbered ==
    /\ IsFiniteSet(Known)
    /\ \A i \in Known : messages[i].row <= Cardinality(Known)
    /\ \A i, j \in Known : messages[i].at = messages[j].at => i = j

\* Only a steering call has an insert to make, and only a cancelling one a
\* cancellation to append.
CallShapes ==
    \A s \in Servers : call[s] # None =>
        \/ call[s].method = "thread/steer" /\ call[s].id \in Ids /\ call[s].at \in {"insert", "emit"}
        \/ call[s].method = "thread/cancel" /\ call[s].at \in {"append", "emit"}

TypeInv == TypeOK /\ RowsNumbered /\ CallShapes

LEMMA RowFacts ==
    ASSUME TypeInv
    PROVE  /\ Known \subseteq Ids
           /\ \A i \in Known : messages[i] \in Message
           /\ Cardinality(Known) \in Nat
  BY FS_CardinalityType DEF TypeInv, TypeOK, RowsNumbered, Known

\* A new row is numbered after all others, which it leaves as they are.
LEMMA InsertedRow ==
    ASSUME TypeInv, NEW i \in Ids \ Known, NEW thread \in Threads, NEW by \in Principals,
           NEW at \in Places, InsertMessage(i, thread, by, at)
    PROVE  /\ messages' \in [Ids -> Message \cup {None}]
           /\ Known' = Known \cup {i}
           /\ messages'[i] = [thread |-> thread, by |-> by, status |-> "pending",
                              at |-> at, row |-> Cardinality(Known) + 1]
           /\ \A j \in Known : messages'[j] = messages[j]
           /\ RowsNumbered'
  <1> DEFINE row == [thread |-> thread, by |-> by, status |-> "pending", at |-> at,
                     row |-> Cardinality(Known) + 1]
  <1>1. row \in Message /\ row # None
    BY RowFacts, SteeringAssumption DEF Message
  <1>2. /\ messages' \in [Ids -> Message \cup {None}]
        /\ messages'[i] = row /\ \A j \in Ids \ {i} : messages'[j] = messages[j]
    <2> HIDE DEF row
    <2>1. messages' = [messages EXCEPT ![i] = row]
      BY DEF InsertMessage, row
    <2>2. QED
      BY <2>1, <1>1 DEF TypeInv, TypeOK
  <1>3. Known' = Known \cup {i}
    BY <1>1, <1>2 DEF Known
  <1>4. IsFiniteSet(Known') /\ Cardinality(Known') = Cardinality(Known) + 1
    BY <1>3, FS_AddElement DEF TypeInv, RowsNumbered
  <1>5. \A j \in Known : messages'[j] = messages[j] /\ messages[j].row \in Nat /\ messages[j].at # at
    BY <1>2, RowFacts DEF Message, InsertMessage
  <1>6. RowsNumbered'
    <2>1. messages'[i].row = Cardinality(Known) + 1 /\ Cardinality(Known) \in Nat /\ messages'[i].at = at
      BY <1>2, RowFacts
    <2>2. \A j \in Known : /\ messages'[j].row \in Nat /\ messages'[j].row <= Cardinality(Known)
                           /\ messages'[j].at # at
      BY <1>5 DEF RowsNumbered, TypeInv
    <2>3. \A j, l \in Known : messages'[j].at = messages'[l].at => j = l
      BY <1>5 DEF RowsNumbered, TypeInv
    <2>4. \A j \in Known' : messages'[j].row <= Cardinality(Known')
      BY <1>3, <1>4, <2>1, <2>2
    <2>5. ASSUME NEW j \in Known', NEW l \in Known', messages'[j].at = messages'[l].at
          PROVE  j = l
      <3>1. j \in Known \/ j = i
        BY <1>3
      <3>2. l \in Known \/ l = i
        BY <1>3
      <3>3. QED
        BY <2>1, <2>2, <2>3, <2>5, <3>1, <3>2
    <2>6. QED
      BY <1>4, <2>4, <2>5 DEF RowsNumbered
  <1>7. QED
    BY <1>2, <1>3, <1>5, <1>6

\* A change of statuses leaves the rest of the rows as it is.
LEMMA ChangedStatuses ==
    ASSUME TypeInv, NEW S \in SUBSET Known, NEW status \in {"consumed", "cancelled"},
           messages' = [i \in Ids |-> IF i \in S THEN [messages[i] EXCEPT !.status = status] ELSE messages[i]]
    PROVE  /\ messages' \in [Ids -> Message \cup {None}]
           /\ Known' = Known
           /\ \A i \in Known : /\ messages'[i].thread = messages[i].thread
                               /\ messages'[i].by = messages[i].by
                               /\ messages'[i].at = messages[i].at /\ messages'[i].row = messages[i].row
                               /\ messages'[i].status = IF i \in S THEN status ELSE messages[i].status
           /\ RowsNumbered'
  <1>1. \A i \in Ids \ S : messages'[i] = messages[i]
    OBVIOUS
  <1>2. \A i \in S : /\ messages'[i] \in Message /\ messages'[i] # None
                     /\ messages'[i].thread = messages[i].thread
                     /\ messages'[i].by = messages[i].by
                     /\ messages'[i].at = messages[i].at /\ messages'[i].row = messages[i].row
                     /\ messages'[i].status = status
    BY RowFacts, SteeringAssumption DEF Message
  <1>3. messages' \in [Ids -> Message \cup {None}] /\ Known' = Known
    BY <1>1, <1>2, RowFacts DEF TypeInv, TypeOK, Known
  <1>4. \A i \in Known : /\ messages'[i].thread = messages[i].thread
                         /\ messages'[i].by = messages[i].by
                         /\ messages'[i].at = messages[i].at /\ messages'[i].row = messages[i].row
                         /\ messages'[i].status = IF i \in S THEN status ELSE messages[i].status
    BY <1>1, <1>2, RowFacts
  <1>5. RowsNumbered'
    BY <1>3, <1>4 DEF RowsNumbered, TypeInv
  <1>6. QED
    BY <1>3, <1>4, <1>5

LEMMA ConsumedRows ==
    ASSUME TypeInv, NEW S \in SUBSET Known, MarkConsumed(S)
    PROVE  /\ messages' \in [Ids -> Message \cup {None}]
           /\ Known' = Known
           /\ \A i \in Known : /\ messages'[i].thread = messages[i].thread
                               /\ messages'[i].by = messages[i].by
                               /\ messages'[i].at = messages[i].at /\ messages'[i].row = messages[i].row
                               /\ messages'[i].status = IF i \in S THEN "consumed" ELSE messages[i].status
           /\ RowsNumbered'
  BY ChangedStatuses DEF MarkConsumed

LEMMA CancelledRow ==
    ASSUME TypeInv, CancelWrite
    PROVE  /\ messages' \in [Ids -> Message \cup {None}]
           /\ Known' = Known
           /\ \A i \in Known : /\ messages'[i].thread = messages[i].thread
                               /\ messages'[i].by = messages[i].by
                               /\ messages'[i].at = messages[i].at /\ messages'[i].row = messages[i].row
                               /\ messages'[i].status = IF i = cancelling THEN "cancelled" ELSE messages[i].status
           /\ RowsNumbered'
  <1>1. cancelling \in Known
    BY DEF CancelWrite, TypeInv, TypeOK
  <1> DEFINE S == {cancelling}
  <1>2. messages' = [i \in Ids |-> IF i \in S THEN [messages[i] EXCEPT !.status = "cancelled"]
                                   ELSE messages[i]]
    BY <1>1 DEF CancelWrite, TypeInv, TypeOK
  <1>3. S \in SUBSET Known /\ \A i : i \in S <=> i = cancelling
    BY <1>1
  <1> HIDE DEF S
  <1>4. QED
    BY <1>2, <1>3, ChangedStatuses

\* What a worker consumes, by its places.
LEMMA InOrderSorts ==
    ASSUME TypeInv, NEW S \in SUBSET Known
    PROVE  /\ InOrder(S) \in Seq(Ids)
           /\ Range(InOrder(S)) = S
           /\ \A k, l \in DOMAIN InOrder(S) :
                k < l => messages[InOrder(S)[k]].at < messages[InOrder(S)[l]].at
  <1> DEFINE key == [i \in S |-> messages[i].at]
             s == InOrder(S)
  <1>1. IsFiniteSet(S)
    BY FS_Subset DEF TypeInv, RowsNumbered
  <1>2. \A i \in S : key[i] \in Nat
    BY RowFacts, SteeringAssumption DEF Message
  <1>3. \A i, j \in S : key[i] = key[j] => i = j
    BY DEF TypeInv, RowsNumbered
  <1>4. s \in [1..Cardinality(S) -> S] /\ Sorts(s, S, key)
    <2> HIDE DEF key
    <2>1. QED
      BY <1>1, <1>2, <1>3, OrderedSorts DEF InOrder, key
  <1>5. Cardinality(S) \in Nat
    BY <1>1, FS_CardinalityType
  <1> HIDE DEF s
  <1>6. s \in Seq(Ids)
    <2>1. s \in [1..Cardinality(S) -> Ids]
      BY <1>4, RowFacts
    <2>2. QED
      BY <2>1, <1>5
  <1>7. \A k \in DOMAIN s : s[k] \in S
    BY <1>4
  <1>8. QED
    BY <1>4, <1>6, <1>7 DEF Sorts, s

\* TypeOK holds in every reachable state of every instance, the rows of the steering
\* messages are numbered in the order of their inserts and their places differ.
THEOREM TypeCorrect == Spec => []TypeInv
  <1>1. Init => TypeInv
    <2> SUFFICES ASSUME Init PROVE TypeInv
      OBVIOUS
    <2>1. Known = {} /\ IsFiniteSet(Known)
      BY FS_EmptySet DEF Init, SteeringInit, Known
    <2>2. RowsNumbered
      BY <2>1 DEF RowsNumbered
    <2>3. TypeOK
      BY AccessAssumption, ControlAssumption
         DEF Init, TypeOK, AccessTypeOK, SteeringInit, FeedInit
    <2>4. CallShapes
      BY DEF Init, CallShapes
    <2>5. QED
      BY <2>2, <2>3, <2>4 DEF TypeInv
  <1>2. TypeInv /\ [Next]_vars => TypeInv'
    <2> USE DEF accessVars, steeringVars, feedVars
    <2> SUFFICES ASSUME TypeInv, Next
                 PROVE  TypeInv'
      <3>1. ASSUME TypeInv, UNCHANGED vars
            PROVE  TypeInv'
        <4>1. AccessTypeOK'
          BY <3>1 DEF vars, TypeInv, TypeOK, AccessTypeOK
        <4>2. Known' = Known
          BY <3>1 DEF vars, Known
        <4>3. RowsNumbered' /\ CallShapes'
          BY <3>1, <4>2 DEF vars, TypeInv, RowsNumbered, CallShapes
        <4>4. QED
          BY <3>1, <4>1, <4>2, <4>3 DEF vars, TypeInv, TypeOK
      <3>2. QED
        BY <3>1
    <2> DEFINE Event == [topic : Methods \cup {"work.heartbeat"}, thread : Threads, about : Ids \cup Nat \cup {None}]
               Conn == [cursor : Nat, rows : Seq(Nat), sent : Seq(Nat), polled : BOOLEAN]
               Turn == [thread : Threads, at : {"open", "beat", "consume", "inject", "close"},
                         batch : Seq(Ids), seen : Seq(Ids)]
    <2>rows. ASSUME UNCHANGED <<messages, cancelling>>
             PROVE  /\ messages' \in [Ids -> Message \cup {None}]
                    /\ RowsNumbered' /\ cancelling' \in Known' \cup {None}
      BY <2>rows DEF TypeInv, TypeOK, RowsNumbered, Known
    <2>access. UNCHANGED accessVars => AccessTypeOK'
      BY DEF TypeInv, TypeOK, AccessTypeOK
    <2>emit. ASSUME NEW e \in Event, Emits(e)
             PROVE  feed' \in Seq(Event)
      BY <2>emit DEF Emits, TypeInv, TypeOK
    <2>calls. UNCHANGED call => CallShapes'
      BY DEF TypeInv, CallShapes
    <2>1. ASSUME NEW s \in Servers, Call(s)
          PROVE  TypeInv'
      <3> DEFINE CallOf == [method : Methods, thread : Threads, by : Principals,
                            id : Ids \cup Nat \cup {None}, at : {"insert", "append", "emit"}]
      <3>return. Returns(s) => call' \in [Servers -> {None} \cup CallOf] /\ CallShapes'
        BY DEF Returns, TypeInv, TypeOK, CallShapes
      <3>1. ASSUME NEW t \in BearerTokens, NEW thread \in Threads,
                   CheckCancel(s, t, thread) \/ \E i \in Ids : CheckSteer(s, t, thread, i)
            PROVE  TypeInv'
        <4>1. creds[t].who \in Principals
          BY <3>1 DEF CheckCancel, CheckSteer, MayBegin, Admitted, Active, TypeInv, TypeOK, AccessTypeOK, Credential
        <4>2. CASE CheckCancel(s, t, thread)
          <5>1. "thread/cancel" \in Methods
            BY <4>1, <4>2, AccessAssumption DEF CheckCancel, MayBegin, Admitted, MayCall
          <5>2. call' \in [Servers -> {None} \cup CallOf] /\ CallShapes'
            BY <4>1, <4>2, <5>1 DEF CheckCancel, Begins, TypeInv, TypeOK, CallShapes
          <5>3. QED
            BY <4>2, <5>2, <2>rows, <2>access DEF CheckCancel, TypeInv, TypeOK
        <4>3. ASSUME NEW i \in Ids, CheckSteer(s, t, thread, i)
              PROVE  TypeInv'
          <5>1. "thread/steer" \in Methods
            BY <4>1, <4>3, AccessAssumption DEF CheckSteer, MayBegin, Admitted, MayCall
          <5>2. call' \in [Servers -> {None} \cup CallOf] /\ CallShapes'
            BY <4>1, <4>3, <5>1 DEF CheckSteer, Begins, TypeInv, TypeOK, CallShapes
          <5>3. QED
            BY <4>3, <5>2, <2>rows, <2>access DEF CheckSteer, TypeInv, TypeOK
        <4>4. QED
          BY <3>1, <4>2, <4>3
      <3>2. CASE InsertSteer(s)
        <4>1. call[s] \in CallOf /\ call[s].id \in Ids /\ call[s].method = "thread/steer"
          BY <3>2 DEF InsertSteer, TypeInv, TypeOK, CallShapes
        <4>2. CASE call[s].id \in Known
          BY <3>2, <3>return, <4>2, <2>rows, <2>access DEF InsertSteer, TypeInv, TypeOK
        <4>3. CASE call[s].id \notin Known
          <5>1. /\ messages' \in [Ids -> Message \cup {None}] /\ RowsNumbered'
                /\ cancelling' \in Known' \cup {None}
            <6>1. PICK at \in Places : InsertMessage(call[s].id, call[s].thread, call[s].by, at)
              BY <3>2, <4>3 DEF InsertSteer
            <6>2. /\ messages' \in [Ids -> Message \cup {None}] /\ RowsNumbered'
                  /\ Known' = Known \cup {call[s].id}
              BY <4>1, <4>3, <6>1, InsertedRow
            <6>3. cancelling' = cancelling /\ cancelling \in Known \cup {None}
              BY <3>2 DEF InsertSteer, TypeInv, TypeOK
            <6>4. QED
              BY <6>2, <6>3
          <5>2. call' \in [Servers -> {None} \cup CallOf] /\ CallShapes'
            <6>1. [call[s] EXCEPT !.at = "emit"] \in CallOf
              BY <4>1
            <6>2. call' = [call EXCEPT ![s] = [call[s] EXCEPT !.at = "emit"]]
              BY <3>2, <4>3 DEF InsertSteer
            <6>3. call[s] # None /\ call[s].at = "insert"
              BY <3>2 DEF InsertSteer
            <6>4. call'[s] = [call[s] EXCEPT !.at = "emit"] /\ \A z \in Servers \ {s} : call'[z] = call[z]
              BY <6>2 DEF TypeInv, TypeOK
            <6>5. CallShapes'
              BY <4>1, <6>3, <6>4 DEF TypeInv, CallShapes
            <6>6. QED
              BY <6>1, <6>2, <6>5 DEF TypeInv, TypeOK
          <5>3. QED
            BY <3>2, <4>3, <5>1, <5>2, <2>access DEF InsertSteer, TypeInv, TypeOK
        <4>4. QED
          BY <4>2, <4>3
      <3>3. CASE EmitCall(s)
        <4>1. call[s] \in CallOf
          BY <3>3 DEF EmitCall, TypeInv, TypeOK
        <4>2. NewEvent(call[s].method, call[s].thread, call[s].id) \in Event
          BY <4>1 DEF NewEvent
        <4>3. QED
          BY <3>3, <3>return, <4>2, <2>emit, <2>rows, <2>access DEF EmitCall, TypeInv, TypeOK
      <3>4. CASE CrashServer(s)
        BY <3>4, <3>return, <2>rows, <2>access DEF CrashServer, TypeInv, TypeOK
      <3>5. CASE AppendCancel(s)
        <4> DEFINE new == [call[s] EXCEPT !.at = "emit", !.id = Len(cancelled) + 1]
        <4>1. /\ call[s] \in CallOf /\ call[s].method = "thread/cancel"
              /\ cancelled \in Seq(Threads) /\ Len(cancelled) + 1 \in Nat
          BY <3>5 DEF AppendCancel, TypeInv, TypeOK, CallShapes
        <4>2. /\ new \in CallOf /\ new.method = "thread/cancel" /\ new.at = "emit"
              /\ cancelled' \in Seq(Threads) /\ ended' \subseteq Threads
          <5>1. new \in CallOf /\ new.method = "thread/cancel" /\ new.at = "emit"
            <6> DEFINE n == Len(cancelled) + 1
            <6>1. n \in Nat
              BY <4>1
            <6> HIDE DEF n
            <6>2. QED
              BY <4>1, <6>1 DEF n
          <5>2. call[s].thread \in Threads /\ ended \subseteq Threads
            BY <4>1 DEF TypeInv, TypeOK
          <5>3. cancelled' = Append(cancelled, call[s].thread) /\ ended' = ended \cup {call[s].thread}
            BY <3>5 DEF AppendCancel
          <5> HIDE DEF new, CallOf
          <5>4. cancelled' \in Seq(Threads)
            BY <4>1, <5>2, <5>3, AppendProperties
          <5>5. QED
            BY <5>1, <5>2, <5>3, <5>4
        <4>3. call' = [call EXCEPT ![s] = new]
          BY <3>5 DEF AppendCancel
        <4> HIDE DEF new
        <4>4. call' \in [Servers -> {None} \cup CallOf] /\ CallShapes'
          BY <4>2, <4>3 DEF TypeInv, TypeOK, CallShapes
        <4>5. QED
          BY <3>5, <4>2, <4>4, <2>rows, <2>access DEF AppendCancel, TypeInv, TypeOK
      <3>6. QED
        BY <2>1, <3>1, <3>2, <3>3, <3>4, <3>5 DEF Call
    <2>2. ASSUME NEW w \in Workers, Work(w)
          PROVE  TypeInv'
      <3>0. turn[w] # None => turn[w] \in Turn
        BY DEF TypeInv, TypeOK
      <3>1. ASSUME NEW thread \in WorkOf[w], StartTurn(w, thread)
            PROVE  TypeInv'
        <4>1. thread \in Threads
          BY ControlAssumption
        <4>2. turn' \in [Workers -> {None} \cup Turn]
          BY <3>1, <4>1 DEF StartTurn, TypeInv, TypeOK
        <4>3. QED
          BY <3>1, <4>2, <2>rows, <2>access, <2>calls DEF StartTurn, TypeInv, TypeOK
      <3>2. CASE Beat(w)
        <4>1. NewEvent("work.heartbeat", turn[w].thread, None) \in Event
          BY <3>0, <3>2 DEF Beat, At, NewEvent
        <4>2. turn' \in [Workers -> {None} \cup Turn]
          BY <3>0, <3>2 DEF Beat, At, TypeInv, TypeOK
        <4>3. QED
          BY <3>2, <4>1, <4>2, <2>emit, <2>rows, <2>access, <2>calls DEF Beat, TypeInv, TypeOK
      <3>3. CASE Consume(w)
        <4> DEFINE S == Pending(turn[w].thread)
        <4>1. S \in SUBSET Known
          BY DEF Pending
        <4>2. InOrder(S) \in Seq(Ids)
          BY <4>1, InOrderSorts
        <4>3. /\ messages' \in [Ids -> Message \cup {None}] /\ RowsNumbered' /\ Known' = Known
          BY <3>3, <4>1, ConsumedRows DEF Consume
        <4>4. turn' \in [Workers -> {None} \cup Turn]
          BY <3>0, <3>3, <4>2 DEF Consume, At, TypeInv, TypeOK
        <4>5. QED
          BY <3>3, <4>3, <4>4, <2>access, <2>calls DEF Consume, TypeInv, TypeOK
      <3>4. CASE Inject(w)
        <4>1. /\ turn[w] \in Turn /\ turn[w].seen \o turn[w].batch \in Seq(Ids)
              /\ shown \o turn[w].batch \in Seq(Ids)
          BY <3>0, <3>4 DEF Inject, At, TypeInv, TypeOK
        <4>2. turn' \in [Workers -> {None} \cup Turn]
          <5> DEFINE new == [turn[w] EXCEPT !.seen = @ \o turn[w].batch, !.batch = <<>>, !.at = "beat"]
          <5>1. new \in Turn
            BY <4>1, <<>> \in Seq(Ids)
          <5>2. turn' = [turn EXCEPT ![w] = new]
            BY <3>4 DEF Inject
          <5> HIDE DEF new
          <5>3. QED
            BY <5>1, <5>2 DEF TypeInv, TypeOK
        <4>3. QED
          BY <3>4, <4>1, <4>2, <2>rows, <2>access, <2>calls DEF Inject, TypeInv, TypeOK
      <3>5. CASE OpenTurn(w) \/ CheckTurn(w)
        <4>1. /\ turn[w] \in Turn /\ ended' \subseteq Threads
              /\ UNCHANGED <<accessVars, steeringVars, feedVars, cancelled, call, shown>>
          BY <3>0, <3>5 DEF OpenTurn, CheckTurn, At, TypeInv, TypeOK
        <4>2. turn' \in [Workers -> {None} \cup Turn]
          <5>1. \A at \in {"beat", "close"} : [turn[w] EXCEPT !.at = at] \in Turn
            BY <4>1
          <5>2. \E at \in {"beat", "close"} : turn' = [turn EXCEPT ![w] = [turn[w] EXCEPT !.at = at]]
            BY <3>5 DEF OpenTurn, CheckTurn
          <5> HIDE DEF Turn
          <5>3. turn \in [Workers -> {None} \cup Turn]
            BY DEF TypeInv, TypeOK, Turn
          <5>4. QED
            BY <5>1, <5>2, <5>3
        <4>3. QED
          BY <4>1, <4>2, <2>rows, <2>access, <2>calls DEF TypeInv, TypeOK
      <3>6. CASE CloseTurn(w) \/ LeaveTurn(w)
        <4>1. /\ ended' \subseteq Threads /\ turn' = [turn EXCEPT ![w] = None]
              /\ UNCHANGED <<accessVars, steeringVars, feedVars, cancelled, call, shown>>
          <5>1. CASE CloseTurn(w)
            <6>1. turn[w] \in Turn /\ ended \subseteq Threads
              BY <3>0, <5>1 DEF CloseTurn, At, TypeInv, TypeOK
            <6>2. QED
              BY <5>1, <6>1 DEF CloseTurn
          <5>2. CASE LeaveTurn(w)
            BY <5>2 DEF LeaveTurn, TypeInv, TypeOK
          <5>3. QED
            BY <3>6, <5>1, <5>2
        <4>2. turn' \in [Workers -> {None} \cup Turn]
          BY <4>1 DEF TypeInv, TypeOK
        <4>3. QED
          BY <4>1, <4>2, <2>rows, <2>access, <2>calls DEF TypeInv, TypeOK
      <3>7. QED
        BY <2>2, <3>1, <3>2, <3>3, <3>4, <3>5, <3>6 DEF Work
    <2>3. CASE CancelMessage
      <3>1. CASE CancelWrite
        BY <2>3, <3>1, CancelledRow, <2>access, <2>calls DEF CancelMessage, CancelWrite, TypeInv, TypeOK
      <3>2. ASSUME NEW i \in Ids, CancelRead(i)
            PROVE  TypeInv'
        BY <2>3, <3>2, <2>access, <2>calls DEF CancelMessage, CancelRead, TypeInv, TypeOK, RowsNumbered, Known
      <3>3. QED
        BY <2>3, <3>1, <3>2 DEF CancelMessage
    <2>4. CASE ChangeCredentials
      <3>1. AccessTypeOK'
        <4> USE AccessAssumption, ControlAssumption DEF TypeInv, TypeOK, AccessTypeOK, Credential
        <4>1. ASSUME NEW t \in Managed, Revoke(t)
              PROVE  AccessTypeOK'
          <5>1. creds[t] \in Credential
            BY <4>1 DEF Revoke
          <5>4. [creds[t] EXCEPT !.revoked = TRUE] \in Credential
            BY <5>1
          <5>2. creds' = [creds EXCEPT ![t] = [creds[t] EXCEPT !.revoked = TRUE]]
            BY <4>1 DEF Revoke
          <5>5. /\ creds' \in [BearerTokens -> Credential \cup {None}]
                /\ \A u \in BearerTokens : creds[u] # None => creds'[u] # None
            <6> HIDE DEF Credential
            <6>1. QED
              BY <5>2, <5>4
          <5>6. QED
            BY <4>1, <5>5 DEF Revoke
        <4>2. ASSUME NEW old \in Managed, NEW new \in Managed, NEW e \in Expiries, RotateIn(old, new, e)
              PROVE  AccessTypeOK'
          BY <4>2 DEF RotateIn, Active, Expiries
        <4>3. CASE RotateOut
          <5>1. creds' = [creds EXCEPT ![rotating] = [creds[rotating] EXCEPT !.revoked = TRUE]]
            BY <4>3 DEF RotateOut
          <5>2. creds[rotating] \in Credential
            BY <4>3 DEF RotateOut
          <5>3. [creds[rotating] EXCEPT !.revoked = TRUE] \in Credential
            BY <5>2
          <5>4. QED
            BY <4>3, <5>1, <5>3 DEF RotateOut
        <4>4. CASE Tick
          BY <4>4 DEF Tick
        <4>5. QED
          BY <2>4, <4>1, <4>2, <4>3, <4>4 DEF ChangeCredentials, Administer
      <3>2. QED
        BY <2>4, <3>1, <2>rows, <2>calls DEF ChangeCredentials, TypeInv, TypeOK
    <2>5. ASSUME NEW r \in Readers, Follow(r) \/ Disconnect(r)
          PROVE  TypeInv'
      <3>0. /\ conn[r] # None => conn[r] \in Conn
            /\ \A ids \in Seq(Nat) : CursorOf(ids) \in Nat
            /\ got[r] \in Seq(Nat)
        BY DEF TypeInv, TypeOK, CursorOf
      <3>given. ASSUME NEW ids \in Seq(Nat), Given(r, ids)
                PROVE  got' \in [Readers -> Seq(Nat)]
        BY <3>given, <3>0 DEF Given, TypeInv, TypeOK
      <3>read. ASSUME NEW cursor \in Nat, NEW limit \in Nat
               PROVE  ReadAfter(r, cursor, limit) \in Seq(Nat)
        BY ReadAfterRows DEF TypeInv, TypeOK
      <3>1. /\ got' \in [Readers -> Seq(Nat)]
            /\ conn' \in [Readers -> {None} \cup Conn]
            /\ UNCHANGED feed
        <4>1. CASE Poll(r)
          BY <4>1, <3>0, <3>given, <3>read, ControlAssumption DEF Poll, TypeInv, TypeOK
        <4>2. CASE Open(r)
          BY <4>2, <3>0 DEF Open, TypeInv, TypeOK
        <4>3. CASE ReadRows(r)
          <5>1. conn[r].cursor \in Nat /\ MaxEvents - Len(conn[r].sent) \in Nat
            BY <4>3, <3>0, ControlAssumption DEF ReadRows, Reading
          <5>2. QED
            BY <4>3, <5>1, <3>0, <3>read DEF ReadRows, Reading, TakeRows, TypeInv, TypeOK
        <4>4. CASE WriteRow(r)
          <5>1. conn[r] \in Conn /\ conn[r].rows \in Seq(Nat) /\ conn[r].rows # <<>> /\ conn[r].sent \in Seq(Nat)
            BY <4>4, <3>0 DEF WriteRow
          <5> DEFINE row == Head(conn[r].rows)
                     new == [conn[r] EXCEPT !.rows = Tail(@), !.cursor = row, !.sent = Append(@, row)]
          <5>2. row \in Nat /\ Tail(conn[r].rows) \in Seq(Nat)
            BY <5>1
          <5>3. Append(conn[r].sent, row) \in Seq(Nat)
            BY <5>1, <5>2
          <5>4. new \in Conn
            BY <5>1, <5>2, <5>3
          <5>5. conn' = [conn EXCEPT ![r] = new]
            BY <4>4 DEF WriteRow
          <5> HIDE DEF new
          <5>6. conn' \in [Readers -> {None} \cup Conn]
            BY <5>4, <5>5 DEF TypeInv, TypeOK
          <5>7. UNCHANGED <<feed, got>>
            BY <4>4 DEF WriteRow
          <5>8. QED
            BY <5>6, <5>7 DEF TypeInv, TypeOK
        <4>5. CASE EndStream(r)
          BY <4>5, <3>0, <3>given DEF EndStream, TypeInv, TypeOK
        <4>6. CASE Drop(r)
          <5>1. \A n \in 0..Len(conn[r].sent) : SubSeq(conn[r].sent, 1, n) \in Seq(Nat)
            <6>1. conn[r].sent \in Seq(Nat)
              BY <4>6, <3>0 DEF Drop
            <6>2. QED
              BY <6>1
          <5>2. QED
            BY <4>6, <5>1, <3>given DEF Drop, TypeInv, TypeOK
        <4>7. QED
          BY <2>5, <4>1, <4>2, <4>3, <4>4, <4>5, <4>6 DEF Follow, Disconnect, Serve
      <3>2. UNCHANGED <<accessVars, steeringVars, ended, cancelled, call, turn, shown>>
        BY <2>5 DEF Follow, Disconnect
      <3>3. QED
        BY <3>1, <3>2, <2>rows, <2>access, <2>calls DEF TypeInv, TypeOK
    <2>6. QED
      BY <2>1, <2>2, <2>3, <2>4, <2>5 DEF Next
  <1>3. QED
    BY <1>1, <1>2, PTL DEF Spec
-----------------------------------------------------------------------------
(* The feed tells the truth *)

Telling(s) == call[s] # None /\ call[s].at = "emit"
CallEvent(s) == NewEvent(call[s].method, call[s].thread, call[s].id)

\* What a call is about to tell of has happened, was not told before, and is told
\* by no other call.
FeedInv ==
    /\ \A s \in Servers : (call[s] # None /\ call[s].method = "thread/steer") =>
            MayCall(call[s].by, "thread/steer", {call[s].thread})
    /\ \A s \in Servers : Telling(s) =>
        /\ call[s].method = "thread/steer" =>
            call[s].id \in Known /\ messages[call[s].id].thread = call[s].thread
        /\ call[s].method = "thread/cancel" =>
            call[s].id \in DOMAIN cancelled /\ cancelled[call[s].id] = call[s].thread
        /\ \A n \in DOMAIN feed : feed[n] # CallEvent(s)
        /\ \A z \in Servers \ {s} : Telling(z) => CallEvent(z) # CallEvent(s)
    /\ FeedTellsTruth

\* Whatever calls of several servers and their crashes are interleaved, a thread
\* cancelled twice or made live again among them, an event of the feed is about a
\* message inserted by a principal who may steer its thread, or about a cancellation
\* appended to the log of its thread, and it is the only one about it.
THEOREM FeedIsTrue == Spec => []FeedTellsTruth
  <1>1. Init => FeedInv
    BY DEF Init, FeedInv, FeedTellsTruth, SteeringInit, FeedInit, Known, Telling
  <1>2. TypeInv /\ FeedInv /\ [Next]_vars => FeedInv'
    <2> USE DEF accessVars, steeringVars, feedVars
    \* A step that takes no message away and neither begins nor ends a call.
    <2>still. ASSUME TypeInv, FeedInv, UNCHANGED <<feed, cancelled, call>>, Known' = Known,
                     \A i \in Known : /\ messages'[i].thread = messages[i].thread
                                      /\ messages'[i].by = messages[i].by
              PROVE  FeedInv'
      BY <2>still DEF FeedInv, FeedTellsTruth, Telling, CallEvent, MayCall
    <2> SUFFICES ASSUME TypeInv, FeedInv, Next
                 PROVE  FeedInv'
      <3>1. UNCHANGED vars => Known' = Known
        BY DEF vars, Known
      <3>2. QED
        BY <3>1, <2>still DEF vars
    <2>0. feed \in Seq([topic : Methods \cup {"work.heartbeat"}, thread : Threads, about : Ids \cup Nat \cup {None}])
      BY DEF TypeInv, TypeOK
    \* The messages a call leaves alone.
    <2>same. ASSUME UNCHANGED messages
             PROVE  Known' = Known
      BY <2>same DEF Known
    \* A call that returns without an event.
    <2>return. ASSUME NEW s \in Servers, Returns(s), UNCHANGED <<feed, cancelled, messages>>
               PROVE  FeedInv'
      <3>1. call'[s] = None /\ \A z \in Servers \ {s} : call'[z] = call[z]
        BY <2>return DEF Returns, TypeInv, TypeOK
      <3>2. QED
        BY <2>return, <2>same, <3>1 DEF FeedInv, FeedTellsTruth, Telling, CallEvent, MayCall
    <2>1. ASSUME NEW s \in Servers, Call(s)
          PROVE  FeedInv'
      <3>1. ASSUME NEW t \in BearerTokens, NEW thread \in Threads, CheckCancel(s, t, thread)
            PROVE  FeedInv'
        <4>1. /\ call'[s] = [method |-> "thread/cancel", thread |-> thread, id |-> None,
                             by |-> creds[t].who, at |-> "append"]
              /\ \A z \in Servers \ {s} : call'[z] = call[z]
              /\ UNCHANGED <<feed, messages, cancelled>> /\ Known' = Known
          BY <3>1, <2>same DEF CheckCancel, Begins, TypeInv, TypeOK
        <4>2. FeedTellsTruth'
          BY <4>1 DEF FeedInv, FeedTellsTruth, MayCall
        <4>3. QED
          BY <4>1, <4>2 DEF FeedInv, Telling, CallEvent, MayCall
      <3>2. ASSUME NEW t \in BearerTokens, NEW thread \in Threads, NEW i \in Ids, CheckSteer(s, t, thread, i)
            PROVE  FeedInv'
        <4>1. /\ call'[s] = [method |-> "thread/steer", thread |-> thread, id |-> i,
                             by |-> creds[t].who, at |-> "insert"]
              /\ \A z \in Servers \ {s} : call'[z] = call[z]
              /\ UNCHANGED <<feed, messages, cancelled>> /\ Known' = Known
              /\ MayCall(creds[t].who, "thread/steer", {thread})
          BY <3>2, <2>same DEF CheckSteer, Begins, MayBegin, Admitted, TypeInv, TypeOK
        <4>2. FeedTellsTruth'
          BY <4>1 DEF FeedInv, FeedTellsTruth, MayCall
        <4>3. QED
          BY <4>1, <4>2 DEF FeedInv, Telling, CallEvent, MayCall
      <3>3. CASE InsertSteer(s)
        <4>1. CASE call[s].id \in Known
          BY <3>3, <4>1, <2>return DEF InsertSteer
        <4>2. CASE call[s].id \notin Known
          <5> DEFINE i == call[s].id
          <5>1. /\ call[s] # None /\ call[s].at = "insert" /\ call[s].method = "thread/steer"
                /\ i \in Ids \ Known /\ call[s].thread \in Threads /\ call[s].by \in Principals
            BY <3>3, <4>2 DEF InsertSteer, TypeInv, TypeOK, CallShapes
          <5>2. /\ Known' = Known \cup {i} /\ i \notin Known
                /\ messages'[i].thread = call[s].thread /\ messages'[i].by = call[s].by
                /\ \A j \in Known : messages'[j] = messages[j]
                /\ UNCHANGED <<feed, cancelled>>
            <6>0. UNCHANGED <<feed, cancelled>>
              BY <3>3 DEF InsertSteer
            <6>1. PICK at \in Places : InsertMessage(i, call[s].thread, call[s].by, at)
              BY <3>3, <4>2 DEF InsertSteer
            <6> HIDE DEF i
            <6>2. /\ Known' = Known \cup {i}
                  /\ messages'[i] = [thread |-> call[s].thread, by |-> call[s].by, status |-> "pending",
                                     at |-> at, row |-> Cardinality(Known) + 1]
                  /\ \A j \in Known : messages'[j] = messages[j]
              BY <5>1, <6>1, InsertedRow
            <6>3. QED
              BY <5>1, <6>0, <6>2
          <5>3. /\ call'[s] # None => /\ call'[s].method = "thread/steer" /\ call'[s].thread = call[s].thread
                                      /\ call'[s].id = i /\ call'[s].by = call[s].by
                /\ \A z \in Servers \ {s} : call'[z] = call[z]
            BY <3>3, <4>2, <5>1 DEF InsertSteer, TypeInv, TypeOK
          <5> HIDE DEF i
          <5>4. call'[s] # None => \A n \in DOMAIN feed : feed[n] # CallEvent(s)'
            BY <5>2, <5>3 DEF FeedInv, FeedTellsTruth, CallEvent, NewEvent
          <5>5. call'[s] # None => \A z \in Servers \ {s} : Telling(z) => CallEvent(z) # CallEvent(s)'
            BY <5>2, <5>3 DEF FeedInv, Telling, CallEvent, NewEvent, TypeInv, CallShapes
          <5>6. MayCall(call[s].by, "thread/steer", {call[s].thread})
            BY <5>1 DEF FeedInv
          <5>7. FeedTellsTruth'
            BY <5>2, <5>6 DEF FeedInv, FeedTellsTruth, MayCall
          <5>8. QED
            BY <5>2, <5>3, <5>4, <5>5, <5>6, <5>7 DEF FeedInv, Telling, CallEvent, MayCall
        <4>3. QED
          BY <4>1, <4>2
      <3>4. CASE EmitCall(s)
        <4> DEFINE e == CallEvent(s)
        <4>1. /\ Telling(s) /\ feed' = Append(feed, e)
              /\ UNCHANGED <<messages, cancelled>> /\ Known' = Known
              /\ call'[s] = None /\ \A z \in Servers \ {s} : call'[z] = call[z]
          BY <3>4, <2>same DEF EmitCall, Emits, Returns, Telling, CallEvent, TypeInv, TypeOK
        <4>2. /\ Len(feed) \in Nat /\ DOMAIN feed = 1..Len(feed) /\ DOMAIN feed' = 1..Len(feed) + 1
              /\ feed'[Len(feed) + 1] = e /\ \A n \in 1..Len(feed) : feed'[n] = feed[n]
          <5> HIDE DEF e
          <5>1. QED
            BY <2>0, <4>1
        <4>3. /\ e.topic = "thread/steer" => e.about \in Known /\ messages[e.about].thread = e.thread
              /\ e.topic = "thread/cancel" => e.about \in DOMAIN cancelled /\ cancelled[e.about] = e.thread
              /\ \A n \in 1..Len(feed) : feed[n] # e
              /\ \A z \in Servers \ {s} : Telling(z) => CallEvent(z) # e
          BY <4>1, <4>2 DEF FeedInv, CallEvent, NewEvent
        <4> HIDE DEF e
        <4>4. FeedTellsTruth'
          <5>1. \A i \in Known' : MayCall(messages'[i].by, "thread/steer", {messages'[i].thread})
            BY <4>1 DEF FeedInv, FeedTellsTruth
          <5>2. ASSUME NEW n \in DOMAIN feed'
                PROVE  /\ feed'[n].topic = "thread/steer" =>
                            feed'[n].about \in Known /\ messages[feed'[n].about].thread = feed'[n].thread
                       /\ feed'[n].topic = "thread/cancel" =>
                            feed'[n].about \in DOMAIN cancelled /\ cancelled[feed'[n].about] = feed'[n].thread
                       /\ feed'[n].topic # "work.heartbeat" => \A m \in DOMAIN feed' : feed'[m] = feed'[n] => m = n
            BY <4>2, <4>3 DEF FeedInv, FeedTellsTruth
          <5>3. QED
            BY <4>1, <5>1, <5>2 DEF FeedTellsTruth, MayCall
        <4>5. QED
          BY <4>1, <4>2, <4>3, <4>4 DEF FeedInv, Telling, CallEvent, MayCall
      <3>5. CASE CrashServer(s)
        BY <3>5, <2>return DEF CrashServer
      \* The cancellation gets an index that no event and no other call has.
      <3>6. CASE AppendCancel(s)
        <4> DEFINE n0 == Len(cancelled) + 1
        <4>1. /\ call[s] # None /\ call[s].method = "thread/cancel"
              /\ cancelled' = Append(cancelled, call[s].thread)
              /\ call' = [call EXCEPT ![s] = [call[s] EXCEPT !.at = "emit", !.id = n0]]
              /\ UNCHANGED <<feed, messages>> /\ Known' = Known
          BY <3>6, <2>same DEF AppendCancel, TypeInv, CallShapes
        <4>2. /\ DOMAIN cancelled' = DOMAIN cancelled \cup {n0} /\ n0 \notin DOMAIN cancelled
              /\ cancelled'[n0] = call[s].thread
              /\ \A k \in DOMAIN cancelled : cancelled'[k] = cancelled[k]
          <5>1. PICK log \in Seq(Threads), x \in Threads :
                    log = cancelled /\ x = call[s].thread /\ cancelled' = Append(log, x)
            BY <4>1 DEF TypeInv, TypeOK
          <5>2. /\ DOMAIN Append(log, x) = DOMAIN log \cup {Len(log) + 1} /\ Len(log) + 1 \notin DOMAIN log
                /\ Append(log, x)[Len(log) + 1] = x
                /\ \A k \in DOMAIN log : Append(log, x)[k] = log[k]
            OBVIOUS
          <5>3. QED
            BY <5>1, <5>2
        <4> HIDE DEF n0
        <4>3. /\ call'[s] # None => /\ call'[s].method = "thread/cancel" /\ call'[s].thread = call[s].thread
                                    /\ call'[s].id = n0
              /\ \A z \in Servers \ {s} : call'[z] = call[z]
          <5>1. /\ call'[s] = [call[s] EXCEPT !.at = "emit", !.id = n0]
                /\ \A z \in Servers \ {s} : call'[z] = call[z]
            BY <4>1 DEF TypeInv, TypeOK
          <5>2. QED
            BY <4>1, <5>1 DEF TypeInv, TypeOK
        <4>4. call'[s] # None => \A n \in DOMAIN feed : feed[n] # CallEvent(s)'
          BY <4>2, <4>3 DEF FeedInv, FeedTellsTruth, CallEvent, NewEvent
        <4>5. call'[s] # None => \A z \in Servers \ {s} : Telling(z) => CallEvent(z) # CallEvent(s)'
          BY <4>2, <4>3 DEF FeedInv, Telling, CallEvent, NewEvent, TypeInv, CallShapes
        <4>6. FeedTellsTruth'
          BY <4>1, <4>2 DEF FeedInv, FeedTellsTruth, MayCall
        <4>7. ASSUME NEW z \in Servers, Telling(z)'
              PROVE  /\ call'[z].method = "thread/steer" =>
                            call'[z].id \in Known' /\ messages'[call'[z].id].thread = call'[z].thread
                     /\ call'[z].method = "thread/cancel" =>
                            call'[z].id \in DOMAIN cancelled' /\ cancelled'[call'[z].id] = call'[z].thread
                     /\ \A n \in DOMAIN feed' : feed'[n] # CallEvent(z)'
                     /\ \A y \in Servers \ {z} : Telling(y)' => CallEvent(y)' # CallEvent(z)'
          <5>1. CASE z = s
            <6>1. \A y \in Servers \ {s} : Telling(y)' => Telling(y) /\ CallEvent(y)' = CallEvent(y)
              BY <4>3 DEF Telling, CallEvent
            <6>2. call'[s] # None
              BY <4>7, <5>1 DEF Telling
            <6>3. QED
              BY <4>1, <4>2, <4>3, <4>4, <4>5, <5>1, <6>1, <6>2
          <5>2. CASE z # s
            <6>1. Telling(z) /\ CallEvent(z)' = CallEvent(z) /\ call'[z] = call[z]
              BY <4>3, <4>7, <5>2 DEF Telling, CallEvent
            <6>2. \A y \in Servers \ {z} : Telling(y)' => CallEvent(y)' # CallEvent(z)
              <7>1. \A y \in Servers \ {z, s} : Telling(y)' => Telling(y) /\ CallEvent(y)' = CallEvent(y)
                BY <4>3 DEF Telling, CallEvent
              <7>2. Telling(s)' => CallEvent(z) # CallEvent(s)'
                BY <4>5, <5>2, <6>1 DEF Telling
              <7>3. QED
                BY <6>1, <7>1, <7>2 DEF FeedInv
            <6>3. QED
              BY <4>1, <4>2, <6>1, <6>2 DEF FeedInv
          <5>3. QED
            BY <5>1, <5>2
        <4>8. \A z \in Servers : (call'[z] # None /\ call'[z].method = "thread/steer") =>
                MayCall(call'[z].by, "thread/steer", {call'[z].thread})
          BY <4>3 DEF FeedInv
        <4>9. QED
          BY <4>6, <4>7, <4>8 DEF FeedInv, MayCall
      <3>7. QED
        BY <2>1, <3>1, <3>2, <3>3, <3>4, <3>5, <3>6 DEF Call
    <2>2. ASSUME NEW w \in Workers, Work(w)
          PROVE  FeedInv'
      <3>1. CASE Beat(w)
        <4> DEFINE e == NewEvent("work.heartbeat", turn[w].thread, None)
        <4>1. feed' = Append(feed, e) /\ UNCHANGED <<messages, cancelled, call>> /\ Known' = Known
          BY <3>1, <2>same DEF Beat, Emits
        <4>2. /\ Len(feed) \in Nat /\ DOMAIN feed = 1..Len(feed) /\ DOMAIN feed' = 1..Len(feed) + 1
              /\ feed'[Len(feed) + 1] = e /\ \A n \in 1..Len(feed) : feed'[n] = feed[n]
          <5> HIDE DEF e
          <5>1. QED
            BY <2>0, <4>1
        <4>3. e.topic = "work.heartbeat" /\ \A s \in Servers : Telling(s) => CallEvent(s).topic # "work.heartbeat"
          BY DEF NewEvent, CallEvent, Telling, TypeInv, CallShapes
        <4> HIDE DEF e
        <4>4. FeedTellsTruth'
          <5>1. ASSUME NEW n \in DOMAIN feed'
                PROVE  /\ feed'[n].topic = "thread/steer" =>
                            feed'[n].about \in Known /\ messages[feed'[n].about].thread = feed'[n].thread
                       /\ feed'[n].topic = "thread/cancel" =>
                            feed'[n].about \in DOMAIN cancelled /\ cancelled[feed'[n].about] = feed'[n].thread
                       /\ feed'[n].topic # "work.heartbeat" => \A m \in DOMAIN feed' : feed'[m] = feed'[n] => m = n
            BY <4>2, <4>3 DEF FeedInv, FeedTellsTruth
          <5>2. QED
            BY <4>1, <5>1 DEF FeedInv, FeedTellsTruth, MayCall
        <4>5. QED
          BY <4>1, <4>2, <4>3, <4>4 DEF FeedInv, Telling, CallEvent, MayCall
      <3>2. CASE Consume(w)
        BY <3>2, <2>still, ConsumedRows DEF Consume, Pending
      <3>3. CASE \/ \E thread \in WorkOf[w] : StartTurn(w, thread)
                 \/ Inject(w) \/ OpenTurn(w) \/ CheckTurn(w) \/ CloseTurn(w) \/ LeaveTurn(w)
        BY <3>3, <2>still, <2>same DEF StartTurn, Inject, OpenTurn, CheckTurn, CloseTurn, LeaveTurn
      <3>4. QED
        BY <2>2, <3>1, <3>2, <3>3 DEF Work
    <2>3. CASE CancelMessage
      BY <2>3, <2>still, <2>same, CancelledRow DEF CancelMessage, CancelRead
    <2>4. CASE ChangeCredentials
      BY <2>4, <2>still, <2>same DEF ChangeCredentials
    <2>5. ASSUME NEW r \in Readers, Follow(r) \/ Disconnect(r)
          PROVE  FeedInv'
      <3>1. UNCHANGED <<feed, cancelled, call, messages>>
        BY <2>5 DEF Follow, Disconnect, Poll, Open, Serve, ReadRows, TakeRows, WriteRow, EndStream, Drop
      <3>2. QED
        BY <3>1, <2>still, <2>same
    <2>6. QED
      BY <2>1, <2>2, <2>3, <2>4, <2>5 DEF Next
  <1>3. FeedInv => FeedTellsTruth
    BY DEF FeedInv
  <1>4. QED
    BY <1>1, <1>2, <1>3, TypeCorrect, PTL DEF Spec
-----------------------------------------------------------------------------
(* A steering message is shown once *)

LEMMA RangeOfConcat ==
    ASSUME NEW S, NEW s \in Seq(S), NEW u \in Seq(S)
    PROVE  Range(s \o u) = Range(s) \cup Range(u)
  <1>1. /\ DOMAIN (s \o u) = 1..Len(s) + Len(u) /\ DOMAIN s = 1..Len(s) /\ DOMAIN u = 1..Len(u)
        /\ Len(s) \in Nat /\ Len(u) \in Nat
        /\ \A k \in 1..Len(s) + Len(u) : (s \o u)[k] = IF k <= Len(s) THEN s[k] ELSE u[k - Len(s)]
    BY ConcatProperties, LenProperties
  <1>2. ASSUME NEW k \in 1..Len(s) + Len(u)
        PROVE  (s \o u)[k] \in Range(s) \cup Range(u)
    <2>1. CASE k <= Len(s)
      BY <1>1, <2>1 DEF Range
    <2>2. CASE k > Len(s)
      <3>1. k - Len(s) \in 1..Len(u)
        BY <1>1, <2>2
      <3>2. QED
        BY <1>1, <2>2, <3>1 DEF Range
    <2>3. QED
      BY <1>1, <2>1, <2>2
  <1>3. ASSUME NEW k \in 1..Len(s)
        PROVE  s[k] \in Range(s \o u)
    <2>1. k \in 1..Len(s) + Len(u) /\ (s \o u)[k] = s[k]
      BY <1>1
    <2>2. QED
      BY <1>1, <2>1 DEF Range
  <1>4. ASSUME NEW k \in 1..Len(u)
        PROVE  u[k] \in Range(s \o u)
    <2>1. Len(s) + k \in 1..Len(s) + Len(u) /\ (s \o u)[Len(s) + k] = u[k]
      BY <1>1
    <2>2. QED
      BY <1>1, <2>1 DEF Range
  <1>5. QED
    BY <1>1, <1>2, <1>3, <1>4 DEF Range

\* Two sequences in order, the first before the second, are in order together.
LEMMA ConcatInOrder ==
    ASSUME NEW S, NEW s \in Seq(S), NEW u \in Seq(S), NEW R,
           \A k, l \in DOMAIN s : k < l => <<s[k], s[l]>> \in R,
           \A k, l \in DOMAIN u : k < l => <<u[k], u[l]>> \in R,
           \A i \in Range(s), j \in Range(u) : <<i, j>> \in R
    PROVE  \A k, l \in DOMAIN (s \o u) : k < l => <<(s \o u)[k], (s \o u)[l]>> \in R
  <1> DEFINE z == s \o u
  <1>1. /\ DOMAIN z = 1..Len(s) + Len(u) /\ DOMAIN s = 1..Len(s) /\ DOMAIN u = 1..Len(u)
        /\ Len(s) \in Nat /\ Len(u) \in Nat
        /\ \A k \in 1..Len(s) + Len(u) : z[k] = IF k <= Len(s) THEN s[k] ELSE u[k - Len(s)]
    BY ConcatProperties, LenProperties
  <1> HIDE DEF z
  <1>2. SUFFICES ASSUME NEW k \in 1..Len(s) + Len(u), NEW l \in 1..Len(s) + Len(u), k < l
                 PROVE  <<z[k], z[l]>> \in R
    BY <1>1 DEF z
  <1>3. CASE l <= Len(s)
    <2>1. k \in DOMAIN s /\ l \in DOMAIN s /\ z[k] = s[k] /\ z[l] = s[l]
      BY <1>1, <1>2, <1>3
    <2>2. QED
      BY <1>2, <2>1
  <1>4. CASE k <= Len(s) /\ l > Len(s)
    <2>1. s[k] \in Range(s) /\ u[l - Len(s)] \in Range(u)
      BY <1>1, <1>4, k \in 1..Len(s), l - Len(s) \in 1..Len(u) DEF Range
    <2>2. z[k] = s[k] /\ z[l] = u[l - Len(s)]
      BY <1>1, <1>4
    <2>3. QED
      BY <2>1, <2>2
  <1>5. CASE k > Len(s)
    <2>1. k - Len(s) \in 1..Len(u) /\ l - Len(s) \in 1..Len(u) /\ k - Len(s) < l - Len(s)
      BY <1>1, <1>2, <1>5
    <2>2. z[k] = u[k - Len(s)] /\ z[l] = u[l - Len(s)]
      BY <1>1, <1>2, <1>5
    <2>3. QED
      BY <1>1, <2>1, <2>2
  <1>6. QED
    BY <1>1, <1>3, <1>4, <1>5

LEMMA ConcatInjective ==
    ASSUME NEW S, NEW s \in Seq(S), NEW u \in Seq(S),
           IsInjective(s), IsInjective(u), Range(s) \cap Range(u) = {}
    PROVE  IsInjective(s \o u)
  <1>1. /\ DOMAIN (s \o u) = 1..Len(s) + Len(u) /\ DOMAIN s = 1..Len(s) /\ DOMAIN u = 1..Len(u)
        /\ Len(s) \in Nat /\ Len(u) \in Nat
        /\ \A k \in 1..Len(s) + Len(u) : (s \o u)[k] = IF k <= Len(s) THEN s[k] ELSE u[k - Len(s)]
    BY ConcatProperties, LenProperties
  <1>2. SUFFICES ASSUME NEW k \in 1..Len(s) + Len(u), NEW l \in 1..Len(s) + Len(u),
                        (s \o u)[k] = (s \o u)[l]
                 PROVE  k = l
    BY <1>1 DEF IsInjective
  <1>3. \A m \in 1..Len(s) + Len(u) :
            \/ m <= Len(s) /\ (s \o u)[m] = s[m] /\ m \in DOMAIN s /\ s[m] \in Range(s)
            \/ m > Len(s) /\ (s \o u)[m] = u[m - Len(s)] /\ m - Len(s) \in DOMAIN u /\ u[m - Len(s)] \in Range(u)
    <2>1. \A m \in 1..Len(s) + Len(u) :
            \/ m <= Len(s) /\ (s \o u)[m] = s[m] /\ m \in DOMAIN s
            \/ m > Len(s) /\ (s \o u)[m] = u[m - Len(s)] /\ m - Len(s) \in DOMAIN u
      BY <1>1
    <2>2. QED
      BY <2>1 DEF Range
  <1>4. CASE k <= Len(s) /\ l <= Len(s)
    BY <1>2, <1>3, <1>4, <1>1 DEF IsInjective
  <1>5. CASE k > Len(s) /\ l > Len(s)
    <2>1. k - Len(s) = l - Len(s)
      BY <1>2, <1>3, <1>5, <1>1 DEF IsInjective
    <2>2. QED
      BY <2>1, <1>1
  <1>6. QED
    BY <1>1, <1>2, <1>3, <1>4, <1>5

Mine(w) == turn[w].seen \o turn[w].batch

\* What is shown or about to be shown was consumed, and by one turn, so it is no
\* longer pending; it was inserted before whatever is still pending for the thread.
SteerInv ==
    /\ \A i \in Range(shown) : i \in Known /\ messages[i].status # "pending"
    /\ \A w \in Workers : turn[w] # None =>
        /\ turn[w].at # "inject" => turn[w].batch = <<>>
        /\ IsInjective(turn[w].batch)
        /\ Range(turn[w].batch) \cap Range(shown) = {}
        /\ \A v \in Workers \ {w} : turn[v] # None => Range(turn[w].batch) \cap Range(turn[v].batch) = {}
        /\ \A i \in Range(Mine(w)), j \in Pending(turn[w].thread) : messages[i].row < messages[j].row
    /\ SteeringOnce

\* However workers of one thread, submissions, cancellations and crashes are
\* interleaved, and whatever places the clocks give the messages, one is shown to at
\* most one turn, once, before those stamped and inserted after it, and none stays
\* pending behind one that was inserted later.
THEOREM SteeredOnce == Spec => []SteeringOnce
  <1>1. Init => SteerInv
    BY DEF Init, SteerInv, SteeringOnce, SteeringInit, Known, Range, IsInjective
  <1>2. TypeInv /\ SteerInv /\ [Next]_vars => SteerInv'
    <2> USE DEF accessVars, steeringVars, feedVars
    <2> DEFINE Turn == [thread : Threads, at : {"open", "beat", "consume", "inject", "close"},
                         batch : Seq(Ids), seen : Seq(Ids)]
    <2>none. /\ \A s : s = <<>> => DOMAIN s = {} /\ Range(s) = {} /\ IsInjective(s)
             /\ <<>> \o <<>> = <<>>
      BY DEF Range, IsInjective
    <2>mine. ASSUME TypeInv, NEW w \in Workers, turn[w] # None
             PROVE  /\ turn[w] \in Turn
                    /\ Range(Mine(w)) = Range(turn[w].seen) \cup Range(turn[w].batch)
                    /\ Range(Mine(w)) \subseteq Ids
      <3>1. turn[w] \in Turn
        BY <2>mine DEF TypeInv, TypeOK
      <3>2. Mine(w) \in Seq(Ids)
        BY <3>1 DEF Mine
      <3>3. Range(Mine(w)) = Range(turn[w].seen) \cup Range(turn[w].batch)
        <4>1. turn[w].seen \in Seq(Ids) /\ turn[w].batch \in Seq(Ids)
          BY <3>1
        <4>2. QED
          BY <4>1, RangeOfConcat DEF Mine
      <3>4. Range(Mine(w)) \subseteq Ids
        BY <3>2 DEF Range
      <3>5. QED
        BY <3>1, <3>3, <3>4
    \* A step after which every row is as it was but for its status, or new, and
    \* every turn has what it had, or nothing.
    <2>frame. ASSUME TypeInv, SteerInv, UNCHANGED shown, Known \subseteq Known',
                     \A i \in Known : /\ messages'[i].thread = messages[i].thread
                                      /\ messages'[i].at = messages[i].at /\ messages'[i].row = messages[i].row
                                      /\ messages[i].status # "pending" => messages'[i].status # "pending"
                                      /\ messages'[i].status = "consumed" => messages[i].status = "consumed",
                     \A i \in Known' \ Known : /\ messages'[i].status = "pending" /\ messages'[i].row \in Nat
                                               /\ \A j \in Known : messages'[j].row < messages'[i].row,
                     \A i, j \in Known' \ Known : i = j,
                     \A w \in Workers : turn'[w] # None =>
                        \/ /\ turn[w] # None /\ turn'[w].thread = turn[w].thread
                           /\ turn'[w].seen = turn[w].seen /\ turn'[w].batch = turn[w].batch
                           /\ turn'[w].at # "inject" => turn[w].at # "inject"
                        \/ turn'[w].seen = <<>> /\ turn'[w].batch = <<>>
              PROVE  SteerInv'
      <3>0. \A i \in Known : messages[i].row \in Nat
        BY <2>frame, RowFacts DEF Message
      <3>1. \A i \in Range(shown) : i \in Known' /\ messages'[i].status # "pending"
        BY <2>frame DEF SteerInv
      <3>3. ASSUME NEW w \in Workers, turn'[w] # None
            PROVE  \/ Mine(w)' = <<>> /\ turn'[w].batch = <<>>
                   \/ /\ turn[w] # None /\ Mine(w)' = Mine(w) /\ turn'[w].thread = turn[w].thread
                      /\ turn'[w].batch = turn[w].batch
                      /\ turn'[w].at # "inject" => turn[w].at # "inject"
        BY <2>frame, <3>3, <2>none DEF Mine
      <3>4. ASSUME NEW w \in Workers, turn'[w] # None
            PROVE  /\ turn'[w].at # "inject" => turn'[w].batch = <<>>
                   /\ IsInjective(turn'[w].batch)
                   /\ Range(turn'[w].batch) \cap Range(shown) = {}
                   /\ \A v \in Workers \ {w} : turn'[v] # None =>
                        Range(turn'[w].batch) \cap Range(turn'[v].batch) = {}
        BY <2>frame, <3>3, <3>4, <2>none DEF SteerInv
      <3>5. ASSUME NEW w \in Workers, turn'[w] # None,
                   NEW i \in Range(Mine(w)')
            PROVE  /\ i \in Known /\ messages'[i].thread = turn'[w].thread
                   /\ messages'[i].status # "pending"
                   /\ \A j \in Known' : (messages'[j].thread = turn'[w].thread /\ messages'[j].status = "pending")
                        => messages'[i].row < messages'[j].row
        <4>1. /\ turn[w] # None /\ Mine(w)' = Mine(w) /\ turn'[w].thread = turn[w].thread
              /\ turn[w].thread \in Threads
          BY <3>3, <3>5, <2>none, <2>mine, <2>frame
        <4>2. i \in Known /\ messages[i].thread = turn[w].thread /\ messages[i].status # "pending"
          <5>1. i \in Range(Mine(w))
            BY <3>5, <4>1
          <5>2. Range(Mine(w)) \subseteq {j \in Known : messages[j].thread = turn[w].thread}
            BY <4>1, <2>frame DEF SteerInv, SteeringOnce, Mine
          <5>3. \A j \in Range(Mine(w)) : messages[j].status # "pending"
            BY <4>1, <2>frame DEF SteerInv, SteeringOnce, Mine
          <5>4. QED
            BY <5>1, <5>2, <5>3
        <4>3. ASSUME NEW j \in Known', messages'[j].thread = turn'[w].thread, messages'[j].status = "pending"
              PROVE  messages'[i].row < messages'[j].row
          <5>1. CASE j \in Known
            <6>1. j \in Pending(turn[w].thread)
              BY <4>1, <4>3, <5>1, <2>frame DEF Pending
            <6>2. messages[i].row < messages[j].row
              BY <3>5, <4>1, <6>1, <2>frame DEF SteerInv
            <6>3. QED
              BY <4>2, <5>1, <6>2, <2>frame
          <5>2. CASE j \notin Known
            BY <4>2, <5>2, <2>frame
          <5>3. QED
            BY <5>1, <5>2
        <4>4. QED
          BY <4>1, <4>2, <4>3, <2>frame
      <3>6. ASSUME NEW w \in Workers, turn'[w] # None,
                   NEW k \in DOMAIN (Mine(w)'), NEW l \in DOMAIN (Mine(w)'), k < l
            PROVE  \/ messages'[Mine(w)'[k]].at < messages'[Mine(w)'[l]].at
                   \/ messages'[Mine(w)'[k]].row < messages'[Mine(w)'[l]].row
        <4>1. turn[w] # None /\ Mine(w)' = Mine(w)
          BY <3>3, <3>6, <2>none
        <4>2. Mine(w)[k] \in Known /\ Mine(w)[l] \in Known
          BY <3>5, <3>6, <4>1 DEF Range
        <4>3. \/ messages[Mine(w)[k]].at < messages[Mine(w)[l]].at
              \/ messages[Mine(w)[k]].row < messages[Mine(w)[l]].row
          BY <3>6, <4>1, <2>frame DEF SteerInv, SteeringOnce, Mine
        <4>4. QED
          BY <4>1, <4>2, <4>3, <2>frame
      <3>7. ASSUME NEW i \in Known', NEW j \in Known', messages'[i].thread = messages'[j].thread,
                   messages'[i].row < messages'[j].row, messages'[j].status = "consumed"
            PROVE  messages'[i].status # "pending"
        <4>1. j \in Known
          BY <3>7, <2>frame
        <4>2. i \in Known
          <5> SUFFICES ASSUME i \notin Known PROVE FALSE
            OBVIOUS
          <5>1. messages'[j].row < messages'[i].row /\ messages'[j].row \in Nat
            BY <4>1, <3>0, <2>frame
          <5>2. messages'[i].row \in Nat
            BY <2>frame
          <5>3. QED
            BY <3>7, <5>1, <5>2
        <4>3. QED
          BY <3>7, <4>1, <4>2, <2>frame DEF SteerInv, SteeringOnce
      <3>8. SteeringOnce'
        <4>1. IsInjective(shown')
          BY <2>frame DEF SteerInv, SteeringOnce
        <4>2. QED
          BY <4>1, <3>5, <3>6, <3>7, <2>frame, ZenonT(30) DEF SteeringOnce, Mine
      <3>9. QED
        <4>1. \A w \in Workers : turn'[w] # None =>
                \A i \in Range(Mine(w)'), j \in Pending(turn[w].thread)' : messages'[i].row < messages'[j].row
          BY <3>5 DEF Pending
        <4>2. QED
          BY <2>frame, <3>1, <3>4, <3>8, <4>1 DEF SteerInv
    <2> SUFFICES ASSUME TypeInv, SteerInv, Next
                 PROVE  SteerInv'
      <3>1. UNCHANGED vars => Known' = Known
        BY DEF vars, Known
      <3>2. QED
        BY <3>1, <2>frame DEF vars
    <2>turns. \A w \in Workers : turn[w] # None => turn[w] \in Turn
      BY <2>mine
    <2>same. UNCHANGED messages => Known' = Known
      BY DEF Known
    <2>1. ASSUME NEW s \in Servers, Call(s)
          PROVE  SteerInv'
      <3>1. CASE InsertSteer(s) /\ call[s].id \notin Known
        <4> DEFINE i == call[s].id
        <4>1. /\ i \in Ids \ Known /\ call[s].thread \in Threads /\ call[s].by \in Principals
              /\ UNCHANGED <<turn, shown>>
              /\ \E at \in Places : InsertMessage(i, call[s].thread, call[s].by, at)
          BY <3>1 DEF InsertSteer, TypeInv, TypeOK, CallShapes
        <4> HIDE DEF i
        <4>2. /\ Known' = Known \cup {i}
              /\ messages'[i].status = "pending" /\ messages'[i].row = Cardinality(Known) + 1
              /\ \A j \in Known : messages'[j] = messages[j]
          <5>1. PICK at \in Places : InsertMessage(i, call[s].thread, call[s].by, at)
            BY <4>1
          <5>2. /\ Known' = Known \cup {i}
                /\ messages'[i] = [thread |-> call[s].thread, by |-> call[s].by, status |-> "pending",
                                   at |-> at, row |-> Cardinality(Known) + 1]
                /\ \A j \in Known : messages'[j] = messages[j]
            BY <4>1, <5>1, InsertedRow
          <5>3. QED
            BY <5>2
        <4>3. Cardinality(Known) \in Nat /\ \A j \in Known : messages[j].row \in Nat /\ messages[j].row <= Cardinality(Known)
          BY RowFacts DEF TypeInv, RowsNumbered, Message
        <4>4. QED
          BY <4>1, <4>2, <4>3, <2>frame
      <3>2. CASE ~(InsertSteer(s) /\ call[s].id \notin Known)
        <4>1. UNCHANGED <<messages, turn, shown>>
          BY <2>1, <3>2 DEF Call, CheckCancel, AppendCancel, CheckSteer, InsertSteer, EmitCall, CrashServer
        <4>2. QED
          BY <4>1, <2>same, <2>frame
      <3>3. QED
        BY <3>1, <3>2
    <2>2. ASSUME NEW w \in Workers, Work(w)
          PROVE  SteerInv'
      <3>1. CASE \E thread \in WorkOf[w] : StartTurn(w, thread)
        <4>1. /\ turn'[w].seen = <<>> /\ turn'[w].batch = <<>>
              /\ \A v \in Workers \ {w} : turn'[v] = turn[v]
              /\ UNCHANGED <<messages, shown>>
          BY <3>1 DEF StartTurn, TypeInv, TypeOK
        <4>2. QED
          BY <4>1, <2>same, <2>frame
      <3>2. CASE Beat(w) \/ OpenTurn(w) \/ CheckTurn(w)
        <4>1. /\ turn[w] # None /\ turn'[w].seen = turn[w].seen /\ turn'[w].batch = turn[w].batch
              /\ turn'[w].thread = turn[w].thread /\ turn[w].at # "inject"
              /\ \A v \in Workers \ {w} : turn'[v] = turn[v]
              /\ UNCHANGED <<messages, shown>>
          BY <3>2, <2>turns DEF Beat, OpenTurn, CheckTurn, At, TypeInv, TypeOK
        <4>2. QED
          BY <4>1, <2>same, <2>frame
      <3>3. CASE CloseTurn(w) \/ LeaveTurn(w)
        <4>1. /\ turn'[w] = None /\ \A v \in Workers \ {w} : turn'[v] = turn[v]
              /\ UNCHANGED <<messages, shown>>
          BY <3>3 DEF CloseTurn, LeaveTurn, TypeInv, TypeOK
        <4>2. QED
          BY <4>1, <2>same, <2>frame
      <3>4. CASE Consume(w)
        <4> DEFINE t == turn[w].thread
                   S == Pending(t)
                   b == InOrder(S)
        <4>1. /\ turn[w] # None /\ turn[w] \in Turn /\ t \in Threads /\ turn[w].batch = <<>>
              /\ turn'[w].seen = turn[w].seen /\ turn'[w].batch = b /\ turn'[w].thread = t
              /\ turn'[w] # None => turn'[w].at = "inject"
              /\ \A v \in Workers \ {w} : turn'[v] = turn[v]
              /\ UNCHANGED shown
          BY <3>4, <2>turns DEF Consume, At, SteerInv, TypeInv, TypeOK
        <4>2. /\ Known' = Known /\ S \in SUBSET Known
              /\ \A i \in Known : /\ messages'[i].thread = messages[i].thread
                                  /\ messages'[i].at = messages[i].at /\ messages'[i].row = messages[i].row
                                  /\ messages'[i].status = IF i \in S THEN "consumed" ELSE messages[i].status
          BY <3>4, ConsumedRows DEF Consume, Pending
        <4>3. /\ b \in Seq(Ids) /\ Range(b) = S
              /\ \A k, l \in DOMAIN b : k < l => messages[b[k]].at < messages[b[l]].at
          BY <4>2, InOrderSorts
        <4>4. \A i \in S : i \in Known /\ messages[i].thread = t /\ messages[i].status = "pending"
          BY DEF Pending
        <4>5. \A i \in Known : messages[i].at \in Nat /\ messages[i].row \in Nat
          BY RowFacts, SteeringAssumption DEF Message
        <4>6. turn[w].seen \in Seq(Ids) /\ Range(Mine(w)) = Range(turn[w].seen)
              /\ Mine(w) = turn[w].seen
          BY <4>1, <2>mine DEF Mine
        <4> HIDE DEF b, S, t
        <4>7. IsInjective(b)
          <5> SUFFICES ASSUME NEW k \in DOMAIN b, NEW l \in DOMAIN b, b[k] = b[l], k # l
                       PROVE  FALSE
            BY DEF IsInjective
          <5>1. k \in Int /\ l \in Int /\ b[k] \in Known
            BY <4>2, <4>3 DEF Range
          <5>2. QED
            BY <5>1, <4>3, <4>5
        <4>8. \A v \in Workers : turn[v] # None => \A i \in Range(Mine(v)) :
                i \in Known /\ messages[i].thread = turn[v].thread /\ messages[i].status # "pending" /\ i \notin S
          <5>1. \A v \in Workers : turn[v] # None =>
                    /\ Range(Mine(v)) \subseteq {i \in Known : messages[i].thread = turn[v].thread}
                    /\ \A i \in Range(Mine(v)) : messages[i].status # "pending"
            BY DEF SteerInv, SteeringOnce, Mine
          <5>2. QED
            BY <5>1, <4>4
        <4>9. Mine(w)' = turn[w].seen \o b /\ Range(turn[w].seen \o b) = Range(turn[w].seen) \cup S
          BY <4>1, <4>3, <4>6, RangeOfConcat DEF Mine
        <4>10. \A v \in Workers \ {w} : Mine(v)' = Mine(v)
          BY <4>1 DEF Mine
        <4>11. \A i \in Range(turn[w].seen) : \A j \in S : messages[i].row < messages[j].row
          BY <4>1, <4>6 DEF SteerInv, S, t
        <4>12. \A j \in Known : ~(messages'[j].thread = t /\ messages'[j].status = "pending")
          BY <4>2 DEF S, Pending
        <4>13. \A x \in Threads : Pending(x)' \subseteq Pending(x)
          BY <4>2 DEF Pending
        <4>14. SteeringOnce'
          <5>1. IsInjective(shown')
            BY <4>1 DEF SteerInv, SteeringOnce
          <5>2. ASSUME NEW v \in Workers, turn'[v] # None
                PROVE  /\ Range(Mine(v)') \subseteq {i \in Known' : messages'[i].thread = turn'[v].thread}
                       /\ \A k, l \in DOMAIN (Mine(v)') : k < l =>
                            \/ messages'[Mine(v)'[k]].at < messages'[Mine(v)'[l]].at
                            \/ messages'[Mine(v)'[k]].row < messages'[Mine(v)'[l]].row
                       /\ \A i \in Range(Mine(v)') : messages'[i].status # "pending"
            <6>1. CASE v # w
              <7>1. turn[v] # None /\ Mine(v)' = Mine(v) /\ turn'[v] = turn[v]
                BY <4>1, <4>10, <5>2, <6>1
              <7>2. \A k \in DOMAIN Mine(v) : Mine(v)[k] \in Known
                BY <4>8, <7>1 DEF Range
              <7>3. \A k, l \in DOMAIN Mine(v) : k < l =>
                        \/ messages[Mine(v)[k]].at < messages[Mine(v)[l]].at
                        \/ messages[Mine(v)[k]].row < messages[Mine(v)[l]].row
                BY <7>1 DEF SteerInv, SteeringOnce, Mine
              <7>4. QED
                BY <4>2, <4>8, <7>1, <7>2, <7>3
            <6>2. CASE v = w
              <7> DEFINE mine == turn[w].seen \o b
              <7>1. \A i \in Range(mine) : i \in Known /\ messages[i].thread = t /\ messages'[i].status # "pending"
                BY <4>1, <4>2, <4>4, <4>6, <4>8, <4>9 DEF t
              <7>2. \A k, l \in DOMAIN mine : k < l =>
                        \/ messages[mine[k]].at < messages[mine[l]].at
                        \/ messages[mine[k]].row < messages[mine[l]].row
                <8> DEFINE R == {p \in Known \X Known : \/ messages[p[1]].at < messages[p[2]].at
                                                        \/ messages[p[1]].row < messages[p[2]].row}
                <8>1. \A k \in DOMAIN turn[w].seen : turn[w].seen[k] \in Known
                  BY <4>1, <4>6, <4>8 DEF Range
                <8>2. \A k \in DOMAIN b : b[k] \in Known
                  BY <4>2, <4>3 DEF Range
                <8>3. \A k, l \in DOMAIN turn[w].seen : k < l => <<turn[w].seen[k], turn[w].seen[l]>> \in R
                  <9>1. \A k, l \in DOMAIN Mine(w) : k < l =>
                            \/ messages[Mine(w)[k]].at < messages[Mine(w)[l]].at
                            \/ messages[Mine(w)[k]].row < messages[Mine(w)[l]].row
                    BY <4>1 DEF SteerInv, SteeringOnce, Mine
                  <9>2. QED
                    BY <9>1, <4>6, <8>1
                <8>4. \A k, l \in DOMAIN b : k < l => <<b[k], b[l]>> \in R
                  BY <4>3, <8>2
                <8>5. \A i \in Range(turn[w].seen), j \in Range(b) : <<i, j>> \in R
                  BY <4>1, <4>2, <4>3, <4>6, <4>8, <4>11
                <8> HIDE DEF R
                <8>6. \A k, l \in DOMAIN mine : k < l => <<mine[k], mine[l]>> \in R
                  BY <4>3, <4>6, <8>3, <8>4, <8>5, ConcatInOrder
                <8> HIDE DEF mine
                <8>7. QED
                  BY <8>6 DEF R
              <7>3. Mine(v)' = mine /\ turn'[v].thread = t
                BY <4>1, <4>9, <6>2
              <7>4. \A k \in DOMAIN mine : mine[k] \in Known
                BY <7>1 DEF Range
              <7> HIDE DEF mine
              <7>5. QED
                BY <7>1, <7>2, <7>3, <7>4, <4>2
            <6>3. QED
              BY <6>1, <6>2
          <5>3. ASSUME NEW i \in Known, NEW j \in Known, messages'[i].thread = messages'[j].thread,
                       messages'[i].row < messages'[j].row, messages'[j].status = "consumed"
                PROVE  messages'[i].status # "pending"
            <6>1. CASE j \in S
              BY <4>2, <4>4, <4>12, <5>3, <6>1
            <6>2. CASE j \notin S
              BY <4>2, <5>3, <6>2 DEF SteerInv, SteeringOnce
            <6>3. QED
              BY <6>1, <6>2
          <5>4. QED
            BY <4>2, <5>1, <5>2, <5>3 DEF SteeringOnce, Mine
        <4>15. \A i \in Range(shown)' : i \in Known' /\ messages'[i].status # "pending"
          BY <4>1, <4>2 DEF SteerInv
        <4>16. Range(b) \cap Range(shown) = {}
          BY <4>3, <4>4 DEF SteerInv
        <4>17. \A v \in Workers : turn[v] # None => Range(turn[v].batch) \cap S = {}
          BY <4>8, <2>mine
        <4>18. ASSUME NEW v \in Workers, turn'[v] # None
               PROVE  /\ turn'[v].at # "inject" => turn'[v].batch = <<>>
                      /\ IsInjective(turn'[v].batch)
                      /\ Range(turn'[v].batch) \cap Range(shown) = {}
                      /\ \A u \in Workers \ {v} : turn'[u] # None => Range(turn'[v].batch) \cap Range(turn'[u].batch) = {}
          BY <4>1, <4>3, <4>7, <4>16, <4>17, <4>18 DEF SteerInv
        <4>19. ASSUME NEW v \in Workers, turn'[v] # None, NEW i \in Range(Mine(v)'), NEW j \in Known,
                      messages'[j].thread = turn'[v].thread, messages'[j].status = "pending"
               PROVE  messages'[i].row < messages'[j].row
          <5>1. v # w
            BY <4>1, <4>12, <4>19
          <5>2. turn[v] # None /\ Mine(v)' = Mine(v) /\ turn'[v] = turn[v]
            BY <4>1, <4>10, <4>19, <5>1
          <5>3. j \in Pending(turn[v].thread)
            BY <4>2, <4>19, <5>2 DEF Pending
          <5>4. messages[i].row < messages[j].row /\ i \in Known
            BY <4>8, <4>19, <5>2, <5>3 DEF SteerInv
          <5>5. QED
            BY <4>2, <5>4
        <4>20. \A v \in Workers : turn'[v] # None =>
                \A i \in Range(Mine(v)'), j \in Pending(turn[v].thread)' : messages'[i].row < messages'[j].row
          BY <4>2, <4>19 DEF Pending
        <4>21. QED
          BY <4>1, <4>14, <4>15, <4>18, <4>20 DEF SteerInv
      <3>5. CASE Inject(w)
        <4> DEFINE b == turn[w].batch
        <4>1. /\ turn[w] # None /\ turn[w] \in Turn /\ b \in Seq(Ids)
              /\ turn'[w].seen = turn[w].seen \o b /\ turn'[w].batch = <<>> /\ turn'[w].thread = turn[w].thread
              /\ \A v \in Workers \ {w} : turn'[v] = turn[v]
              /\ shown' = shown \o b /\ UNCHANGED messages /\ Known' = Known
          BY <3>5, <2>turns, <2>same DEF Inject, At, TypeInv, TypeOK
        <4>2. \A v \in Workers : turn'[v] # None =>
                turn[v] # None /\ Mine(v)' = Mine(v) /\ turn'[v].thread = turn[v].thread
          <5>1. turn[w].seen \o b \in Seq(Ids)
            BY <4>1
          <5>2. Mine(w)' = Mine(w)
            BY <4>1, <5>1, ConcatEmptySeq DEF Mine
          <5>3. QED
            BY <4>1, <5>2 DEF Mine
        <4>3. shown \in Seq(Ids) /\ Range(shown \o b) = Range(shown) \cup Range(b)
          BY <4>1, RangeOfConcat DEF TypeInv, TypeOK
        <4>4. IsInjective(shown \o b)
          BY <4>1, <4>3, ConcatInjective DEF SteerInv, SteeringOnce
        <4>5. \A i \in Range(b) : i \in Known /\ messages[i].status # "pending"
          <5>1. Range(b) \subseteq Range(Mine(w))
            BY <4>1, <2>mine
          <5>2. /\ Range(Mine(w)) \subseteq {i \in Known : messages[i].thread = turn[w].thread}
                /\ \A i \in Range(Mine(w)) : messages[i].status # "pending"
            BY <4>1 DEF SteerInv, SteeringOnce, Mine
          <5>3. QED
            BY <5>1, <5>2
        <4>6. ASSUME NEW v \in Workers, turn'[v] # None
              PROVE  /\ turn'[v].at # "inject" => turn'[v].batch = <<>>
                     /\ IsInjective(turn'[v].batch)
                     /\ Range(turn'[v].batch) \cap Range(shown') = {}
                     /\ \A u \in Workers \ {v} : turn'[u] # None => Range(turn'[v].batch) \cap Range(turn'[u].batch) = {}
          <5>1. CASE v = w
            BY <4>1, <5>1, <2>none
          <5>2. CASE v # w
            BY <4>1, <4>3, <4>6, <5>2, <2>none DEF SteerInv
          <5>3. QED
            BY <5>1, <5>2
        <4>7. SteeringOnce'
          <5>1. ASSUME NEW v \in Workers, turn'[v] # None
                PROVE  /\ Range(Mine(v)') \subseteq {i \in Known : messages[i].thread = turn'[v].thread}
                       /\ \A k, l \in DOMAIN (Mine(v)') : k < l =>
                            \/ messages[Mine(v)'[k]].at < messages[Mine(v)'[l]].at
                            \/ messages[Mine(v)'[k]].row < messages[Mine(v)'[l]].row
                       /\ \A i \in Range(Mine(v)') : messages[i].status # "pending"
            <6>1. /\ Range(Mine(v)) \subseteq {i \in Known : messages[i].thread = turn[v].thread}
                  /\ \A k, l \in DOMAIN Mine(v) : k < l =>
                        \/ messages[Mine(v)[k]].at < messages[Mine(v)[l]].at
                        \/ messages[Mine(v)[k]].row < messages[Mine(v)[l]].row
                  /\ \A i \in Range(Mine(v)) : messages[i].status # "pending"
              BY <4>2, <5>1 DEF SteerInv, SteeringOnce, Mine
            <6>2. QED
              BY <4>2, <5>1, <6>1
          <5>2. \A i, j \in Known :
                  (messages[i].thread = messages[j].thread /\ messages[i].row < messages[j].row
                      /\ messages[j].status = "consumed") => messages[i].status # "pending"
            BY DEF SteerInv, SteeringOnce
          <5>3. IsInjective(shown') /\ UNCHANGED messages /\ Known' = Known
            BY <4>1, <4>4
          <5>4. QED
            BY <5>1, <5>2, <5>3, ZenonT(30) DEF SteeringOnce, Mine
        <4>8. \A v \in Workers : turn'[v] # None =>
                \A i \in Range(Mine(v)'), j \in Pending(turn[v].thread)' : messages'[i].row < messages'[j].row
          <5>1. \A v \in Workers : turn'[v] # None => Pending(turn[v].thread)' = Pending(turn[v].thread)
            BY <4>1, <4>2 DEF Pending
          <5>2. \A v \in Workers : turn[v] # None =>
                  \A i \in Range(Mine(v)), j \in Pending(turn[v].thread) : messages[i].row < messages[j].row
            BY DEF SteerInv
          <5>3. \A v \in Workers : turn'[v] # None => turn[v] # None /\ Mine(v)' = Mine(v)
            BY <4>2
          <5> HIDE DEF b
          <5>4. QED
            BY <4>1, <5>1, <5>2, <5>3
        <4>9. \A i \in Range(shown') : i \in Known' /\ messages'[i].status # "pending"
          BY <4>1, <4>3, <4>5 DEF SteerInv
        <4>10. QED
          BY <4>6, <4>7, <4>8, <4>9 DEF SteerInv
      <3>6. QED
        BY <2>2, <3>1, <3>2, <3>3, <3>4, <3>5 DEF Work
    <2>3. CASE CancelMessage
      <3>1. CASE CancelWrite
        <4>1. UNCHANGED <<turn, shown>>
          BY <2>3 DEF CancelMessage
        <4>2. QED
          BY <3>1, <4>1, CancelledRow, <2>frame
      <3>2. CASE UNCHANGED messages
        BY <2>3, <3>2, <2>same, <2>frame DEF CancelMessage
      <3>3. QED
        BY <2>3, <3>1, <3>2 DEF CancelMessage, CancelRead
    <2>4. CASE ChangeCredentials
      BY <2>4, <2>same, <2>frame DEF ChangeCredentials
    <2>5. ASSUME NEW r \in Readers, Follow(r) \/ Disconnect(r)
          PROVE  SteerInv'
      BY <2>5, <2>same, <2>frame DEF Follow, Disconnect
    <2>6. QED
      BY <2>1, <2>2, <2>3, <2>4, <2>5 DEF Next
  <1>3. SteerInv => SteeringOnce
    BY DEF SteerInv
  <1>4. QED
    BY <1>1, <1>2, <1>3, TypeCorrect, PTL DEF Spec
-----------------------------------------------------------------------------
(* The feed is replayed without gaps *)

Event == [topic : Methods \cup {"work.heartbeat"}, thread : Threads, about : Ids \cup Nat \cup {None}]

Fits(f, r, i) == FilterOf[r] = None \/ f[i].thread = FilterOf[r]

\* A replay of the feed f, element by element.
IsReplay(f, r, ids) ==
    /\ \A k \in DOMAIN ids : ids[k] \in 1..CursorOf(ids) /\ Fits(f, r, ids[k])
    /\ \A i \in 1..CursorOf(ids) : Fits(f, r, i) => \E k \in DOMAIN ids : ids[k] = i
    /\ \A k, l \in DOMAIN ids : k < l => ids[k] < ids[l]

LEMMA CursorFacts ==
    ASSUME NEW ids \in Seq(Nat)
    PROVE  /\ CursorOf(ids) \in Nat
           /\ Len(ids) # 0 => CursorOf(ids) = ids[Len(ids)]
           /\ Len(ids) = 0 => CursorOf(ids) = 0
  BY DEF CursorOf

LEMMA ReplaysIsReplay ==
    ASSUME NEW r, NEW ids \in Seq(Nat)
    PROVE  Replays(r, ids) <=> IsReplay(feed, r, ids)
  <1> DEFINE c == CursorOf(ids)
             key == [i \in 1..c |-> i]
  <1>1. c \in Nat
    BY CursorFacts
  <1> HIDE DEF c
  <1>2. Range(ids) = Owed(r, c) <=>
            /\ \A k \in DOMAIN ids : ids[k] \in 1..c /\ Fits(feed, r, ids[k])
            /\ \A i \in 1..c : Fits(feed, r, i) => \E k \in DOMAIN ids : ids[k] = i
    BY DEF Range, Owed, Matches, Fits
  <1>3. (\A k \in DOMAIN ids : ids[k] \in 1..c) =>
            ((\A k, l \in DOMAIN ids : k < l => key[ids[k]] < key[ids[l]])
                <=> (\A k, l \in DOMAIN ids : k < l => ids[k] < ids[l]))
    OBVIOUS
  <1>4. Replays(r, ids) <=> Range(ids) = Owed(r, c) /\ \A k, l \in DOMAIN ids : k < l => key[ids[k]] < key[ids[l]]
    BY DEF Replays, Sorts, c
  <1>5. QED
    BY <1>1, <1>2, <1>3, <1>4 DEF IsReplay, c

LEMMA SubSeqFacts ==
    ASSUME NEW ids \in Seq(Nat), NEW n \in 0..Len(ids)
    PROVE  /\ SubSeq(ids, 1, n) \in Seq(Nat) /\ Len(SubSeq(ids, 1, n)) = n
           /\ DOMAIN SubSeq(ids, 1, n) = 1..n
           /\ \A k \in 1..n : SubSeq(ids, 1, n)[k] = ids[k]
  OBVIOUS

\* What a reader has of a replay when the connection is lost is one too.
LEMMA ReplayPrefix ==
    ASSUME NEW f, NEW r, NEW ids \in Seq(Nat), IsReplay(f, r, ids), NEW n \in 0..Len(ids)
    PROVE  IsReplay(f, r, SubSeq(ids, 1, n))
  <1> DEFINE s == SubSeq(ids, 1, n)
             c == CursorOf(s)
  <1>1. s \in Seq(Nat) /\ Len(s) = n /\ DOMAIN s = 1..n /\ \A k \in 1..n : s[k] = ids[k]
    BY SubSeqFacts
  <1> HIDE DEF s
  <1>2. c \in Nat /\ (n # 0 => c = s[n]) /\ (n = 0 => c = 0)
    BY <1>1, CursorFacts
  <1>3. /\ DOMAIN ids = 1..Len(ids) /\ Len(ids) \in Nat
        /\ \A k \in DOMAIN ids : ids[k] \in 1..CursorOf(ids) /\ Fits(f, r, ids[k])
        /\ \A i \in 1..CursorOf(ids) : Fits(f, r, i) => \E k \in DOMAIN ids : ids[k] = i
        /\ \A k, l \in DOMAIN ids : k < l => ids[k] < ids[l]
        /\ CursorOf(ids) \in Nat
    BY CursorFacts DEF IsReplay
  <1> HIDE DEF c
  <1>4. \A k, l \in DOMAIN s : k < l => s[k] < s[l]
    BY <1>1, <1>3
  <1>5. ASSUME NEW k \in DOMAIN s
        PROVE  s[k] \in 1..c /\ Fits(f, r, s[k])
    <2>1. k \in DOMAIN ids /\ s[k] = ids[k] /\ ids[k] \in 1..CursorOf(ids) /\ k <= n /\ n # 0
      BY <1>1, <1>3
    <2>2. k = n \/ s[k] < s[n]
      BY <1>1, <1>4, <2>1
    <2>3. QED
      BY <1>2, <1>3, <2>1, <2>2
  <1>6. ASSUME NEW i \in 1..c, Fits(f, r, i)
        PROVE  \E k \in DOMAIN s : s[k] = i
    <2>1. n # 0 /\ c = ids[n] /\ n \in DOMAIN ids
      BY <1>1, <1>2, <1>3
    <2>2. PICK k \in DOMAIN ids : ids[k] = i
      BY <1>3, <1>6, <2>1, SMTT(30)
    <2>3. k <= n
      <3> SUFFICES ASSUME n < k PROVE FALSE
        BY <1>3, <2>1
      <3>1. ids[n] < ids[k]
        BY <1>3, <2>1
      <3>2. QED
        BY <2>1, <2>2, <3>1, <1>2
    <2>4. k \in 1..n
      BY <2>3, <1>3
    <2>5. QED
      BY <1>1, <2>2, <2>4
  <1>7. QED
    BY <1>1, <1>4, <1>5, <1>6 DEF IsReplay, s, c

\* Reading on from the cursor extends a replay.
LEMMA ReplayExtended ==
    ASSUME feed \in Seq(Event), NEW r, NEW limit \in Nat,
           NEW ids \in Seq(Nat), IsReplay(feed, r, ids), CursorOf(ids) <= Len(feed)
    PROVE  LET more == ids \o ReadAfter(r, CursorOf(ids), limit) IN
           more \in Seq(Nat) /\ IsReplay(feed, r, more) /\ CursorOf(more) <= Len(feed)
  <1> DEFINE c == CursorOf(ids)
             rows == ReadAfter(r, c, limit)
             more == ids \o rows
             d == CursorOf(more)
  <1>0. c \in Nat /\ Len(feed) \in Nat
    BY CursorFacts
  <1>1. /\ rows \in Seq(Nat) /\ Len(rows) \in Nat /\ DOMAIN rows = 1..Len(rows)
        /\ \A k \in DOMAIN rows : rows[k] \in 1..Len(feed) /\ rows[k] > c /\ Fits(feed, r, rows[k])
        /\ \A k, l \in DOMAIN rows : k < l => rows[k] < rows[l]
        /\ \A i \in 1..Len(feed) : \A k \in DOMAIN rows :
                (i > c /\ Fits(feed, r, i) /\ i <= rows[k]) => \E l \in DOMAIN rows : rows[l] = i
    <2>1. DOMAIN feed = 1..Len(feed)
      OBVIOUS
    <2> HIDE DEF c
    <2>2. /\ rows \in Seq(Nat)
          /\ \A k \in DOMAIN rows : rows[k] \in DOMAIN feed /\ rows[k] > c /\ Fits(feed, r, rows[k])
          /\ \A k, l \in DOMAIN rows : k < l => rows[k] < rows[l]
          /\ \A i \in DOMAIN feed : \A k \in DOMAIN rows :
                (i > c /\ Fits(feed, r, i) /\ i <= rows[k]) => \E l \in DOMAIN rows : rows[l] = i
      <3>1. \A i : Matches(r, i) <=> Fits(feed, r, i)
        BY DEF Matches, Fits
      <3>2. rows = ReadAfter(r, c, limit)
        OBVIOUS
      <3> HIDE DEF rows
      <3>3. /\ rows \in Seq(Nat)
            /\ \A k \in DOMAIN rows : rows[k] \in DOMAIN feed /\ rows[k] > c /\ Matches(r, rows[k])
        BY <1>0, <3>2, ReadAfterRows
      <3>4. \A k, l \in DOMAIN rows : k < l => rows[k] < rows[l]
        BY <1>0, <3>2, ReadAfterRows
      <3>5. \A i \in DOMAIN feed : \A k \in DOMAIN rows :
                (i > c /\ Matches(r, i) /\ i <= rows[k]) => \E l \in DOMAIN rows : rows[l] = i
        <4>1. \A i \in DOMAIN feed : \A k \in DOMAIN ReadAfter(r, c, limit) :
                (i > c /\ Matches(r, i) /\ i <= ReadAfter(r, c, limit)[k]) =>
                    \E l \in DOMAIN ReadAfter(r, c, limit) : ReadAfter(r, c, limit)[l] = i
          BY <1>0, ReadAfterRows, ZenonT(30)
        <4>2. QED
          BY <3>2, <4>1
      <3>6. QED
        BY <3>1, <3>3, <3>4, <3>5
    <2> HIDE DEF rows
    <2>3. Len(rows) \in Nat /\ DOMAIN rows = 1..Len(rows)
      BY <2>2
    <2>4. QED
      BY <2>1, <2>2, <2>3
  <1>2. /\ DOMAIN ids = 1..Len(ids) /\ Len(ids) \in Nat
        /\ \A k \in DOMAIN ids : ids[k] \in 1..c /\ Fits(feed, r, ids[k])
        /\ \A i \in 1..c : Fits(feed, r, i) => \E k \in DOMAIN ids : ids[k] = i
        /\ \A k, l \in DOMAIN ids : k < l => ids[k] < ids[l]
    BY DEF IsReplay
  <1> HIDE DEF rows, c
  <1>3. /\ more \in Seq(Nat) /\ Len(more) = Len(ids) + Len(rows) /\ DOMAIN more = 1..Len(ids) + Len(rows)
        /\ \A k \in 1..Len(ids) + Len(rows) : more[k] = IF k <= Len(ids) THEN ids[k] ELSE rows[k - Len(ids)]
    BY <1>1
  <1> HIDE DEF more
  <1>4. /\ d \in Nat /\ (Len(more) # 0 => d = more[Len(more)]) /\ (Len(more) = 0 => d = 0)
        /\ (Len(ids) # 0 => c = ids[Len(ids)]) /\ (Len(ids) = 0 => c = 0)
    BY <1>3, CursorFacts DEF c
  <1> HIDE DEF d
  <1>5. /\ Len(rows) = 0 => d = c
        /\ Len(rows) # 0 => d = rows[Len(rows)] /\ d > c /\ Len(rows) \in DOMAIN rows
    <2>1. CASE Len(rows) = 0
      BY <1>1, <1>2, <1>3, <1>4, <2>1
    <2>2. CASE Len(rows) # 0
      <3>1. Len(more) # 0 /\ Len(more) \in 1..Len(ids) + Len(rows) /\ ~(Len(more) <= Len(ids))
            /\ Len(more) - Len(ids) = Len(rows) /\ Len(rows) \in DOMAIN rows
        BY <1>1, <1>2, <1>3, <2>2
      <3>2. QED
        BY <1>1, <1>3, <1>4, <3>1, <2>2
    <2>3. QED
      BY <2>1, <2>2
  <1>6. d <= Len(feed) /\ c <= d
    <2>1. c <= Len(feed)
      BY DEF c
    <2>2. CASE Len(rows) = 0
      BY <1>0, <1>5, <2>1, <2>2
    <2>3. CASE Len(rows) # 0
      BY <1>0, <1>1, <1>4, <1>5, <2>3, SMTT(30)
    <2>4. QED
      BY <2>2, <2>3
  <1>7. \A k \in DOMAIN more : more[k] \in 1..d /\ Fits(feed, r, more[k])
    <2> SUFFICES ASSUME NEW k \in DOMAIN more
                 PROVE  more[k] \in 1..d /\ Fits(feed, r, more[k])
      OBVIOUS
    <2>1. CASE k <= Len(ids)
      BY <1>0, <1>2, <1>3, <1>4, <1>6, <2>1
    <2>2. CASE k > Len(ids)
      <3>1. k - Len(ids) \in DOMAIN rows /\ more[k] = rows[k - Len(ids)] /\ Len(rows) # 0
        BY <1>1, <1>2, <1>3, <2>2, SMTT(30)
      <3>2. k - Len(ids) = Len(rows) \/ rows[k - Len(ids)] < rows[Len(rows)]
        BY <1>1, <1>5, <3>1
      <3>3. QED
        BY <1>1, <1>4, <1>5, <3>1, <3>2
    <2>3. QED
      BY <1>2, <1>3, <2>1, <2>2
  <1>8. ASSUME NEW i \in 1..d, Fits(feed, r, i)
        PROVE  \E k \in DOMAIN more : more[k] = i
    <2>1. CASE i <= c
      <3>1. PICK k \in DOMAIN ids : ids[k] = i
        BY <1>0, <1>2, <1>8, <2>1
      <3>2. k \in DOMAIN more /\ more[k] = i
        <4>1. k \in 1..Len(ids)
          BY <1>2, <3>1
        <4>2. k \in 1..Len(ids) + Len(rows) /\ k <= Len(ids)
          BY <1>1, <1>2, <4>1
        <4>3. QED
          BY <1>3, <3>1, <4>2
      <3>3. QED
        BY <3>2
    <2>2. CASE i > c
      <3>1. Len(rows) # 0 /\ Len(rows) \in DOMAIN rows /\ i <= rows[Len(rows)] /\ i \in 1..Len(feed)
        BY <1>0, <1>4, <1>5, <1>6, <2>2
      <3>2. PICK l \in DOMAIN rows : rows[l] = i
        BY <1>1, <1>8, <2>2, <3>1
      <3>3. Len(ids) + l \in DOMAIN more /\ more[Len(ids) + l] = i
        <4>1. l \in 1..Len(rows)
          BY <1>1, <3>2
        <4>2. /\ Len(ids) + l \in 1..Len(ids) + Len(rows) /\ ~(Len(ids) + l <= Len(ids))
              /\ (Len(ids) + l) - Len(ids) = l
          BY <1>1, <1>2, <4>1
        <4>3. QED
          BY <1>3, <3>2, <4>2
      <3>4. QED
        BY <3>3
    <2>3. QED
      BY <1>0, <2>1, <2>2
  <1>9. ASSUME NEW k \in DOMAIN more, NEW l \in DOMAIN more, k < l
        PROVE  more[k] < more[l]
    <2>1. CASE l <= Len(ids)
      BY <1>2, <1>3, <1>9, <2>1
    <2>2. CASE k <= Len(ids) /\ l > Len(ids)
      <3>1. more[k] \in 1..c /\ more[l] > c /\ more[l] \in Nat
        <4>1. k \in 1..Len(ids) /\ l - Len(ids) \in 1..Len(rows)
          <5>1. k \in Int /\ l \in Int /\ 1 <= k /\ l <= Len(ids) + Len(rows)
            BY <1>1, <1>2, <1>3
          <5>2. QED
            BY <1>1, <1>2, <2>2, <5>1
        <4>2. more[k] = ids[k] /\ more[l] = rows[l - Len(ids)]
          <5>1. l \in Int /\ ~(l <= Len(ids))
            BY <1>1, <1>2, <1>3, <2>2
          <5>2. QED
            BY <1>3, <2>2, <5>1
        <4>3. QED
          BY <1>0, <1>1, <1>2, <4>1, <4>2
      <3>2. QED
        BY <3>1, <1>0
    <2>3. CASE k > Len(ids)
      <3>1. k - Len(ids) \in DOMAIN rows /\ l - Len(ids) \in DOMAIN rows /\ k - Len(ids) < l - Len(ids)
            /\ more[k] = rows[k - Len(ids)] /\ more[l] = rows[l - Len(ids)]
        <4>1. /\ k - Len(ids) \in 1..Len(rows) /\ l - Len(ids) \in 1..Len(rows)
              /\ k - Len(ids) < l - Len(ids) /\ ~(k <= Len(ids)) /\ ~(l <= Len(ids))
          <5>1. k \in Int /\ l \in Int /\ 1 <= k /\ l <= Len(ids) + Len(rows) /\ k <= Len(ids) + Len(rows)
            BY <1>1, <1>2, <1>3
          <5>2. QED
            BY <1>1, <1>2, <1>9, <2>3, <5>1
        <4>2. QED
          BY <1>1, <1>3, <4>1
      <3>2. QED
        BY <1>1, <3>1
    <2>4. QED
      BY <1>2, <1>3, <2>1, <2>2, <2>3
  <1>10. IsReplay(feed, r, more)
    BY <1>3, <1>7, <1>8, <1>9 DEF IsReplay, d
  <1>11. more = ids \o ReadAfter(r, CursorOf(ids), limit)
    BY DEF more, rows, c
  <1>12. QED
    BY <1>3, <1>6, <1>10, <1>11 DEF d

\* Only the events up to its cursor matter to a replay.
LEMMA ReplayGrown ==
    ASSUME NEW f, NEW g, NEW r, NEW ids \in Seq(Nat), IsReplay(f, r, ids),
           Len(f) \in Nat, CursorOf(ids) <= Len(f), \A i \in 1..Len(f) : g[i] = f[i]
    PROVE  IsReplay(g, r, ids)
  <1> DEFINE c == CursorOf(ids)
  <1>1. c \in Nat
    BY CursorFacts
  <1>2. \A i \in 1..c : Fits(g, r, i) <=> Fits(f, r, i)
    <2>1. 1..c \subseteq 1..Len(f)
      BY <1>1
    <2>2. QED
      BY <2>1 DEF Fits
  <1>3. QED
    BY <1>2 DEF IsReplay

LEMMA Associates ==
    ASSUME NEW a \in Seq(Nat), NEW b \in Seq(Nat), NEW c \in Seq(Nat)
    PROVE  (a \o b) \o c = a \o (b \o c)
  BY ConcatAssociative, SMTT(30)

LEMMA CursorOfAppend ==
    ASSUME NEW a \in Seq(Nat), NEW i \in Nat
    PROVE  CursorOf(Append(a, i)) = i
  <1>1. Append(a, i) # <<>> /\ Len(Append(a, i)) = Len(a) + 1 /\ Append(a, i)[Len(a) + 1] = i
    OBVIOUS
  <1>2. QED
    BY <1>1 DEF CursorOf

\* A row that is written moves from what is read to what is sent, and is the new
\* cursor.
LEMMA RowWritten ==
    ASSUME NEW had \in Seq(Nat), NEW sent \in Seq(Nat), NEW rows \in Seq(Nat), rows # <<>>
    PROVE  /\ had \o Append(sent, Head(rows)) \o Tail(rows) = had \o sent \o rows
           /\ CursorOf(had \o Append(sent, Head(rows))) = Head(rows)
  <1> DEFINE row == Head(rows)
             rest == Tail(rows)
             given == had \o sent
             one == <<row>>
  <1>1. row \in Nat /\ rest \in Seq(Nat) /\ one \in Seq(Nat) /\ given \in Seq(Nat)
    OBVIOUS
  <1>2. rows = one \o rest
    <2>1. Len(rows) \in Nat \ {0} /\ row = rows[1]
      OBVIOUS
    <2>2. 1 \in 1..Len(rows) /\ Len(rows) \in 1..Len(rows)
      BY <2>1
    <2>3. SubSeq(rows, 1, Len(rows)) = <<rows[1]>> \o SubSeq(rows, 1 + 1, Len(rows))
      BY <2>2, SubSeqRecursiveFirst
    <2>4. SubSeq(rows, 1, Len(rows)) = rows /\ rest = SubSeq(rows, 2, Len(rows))
      BY SubSeqFull, TailIsSubSeq
    <2>5. QED
      BY <2>1, <2>3, <2>4
  <1> HIDE DEF row, rest, given, one
  <1>3. had \o Append(sent, row) = Append(given, row)
    <2>1. Append(sent, row) = sent \o one /\ Append(given, row) = given \o one
      BY <1>1, AppendIsConcat DEF one
    <2>2. (had \o sent) \o one = had \o (sent \o one)
      BY <1>1, Associates, ZenonT(30)
    <2>3. QED
      BY <2>1, <2>2 DEF given
  <1>4. Append(given, row) \o rest = given \o rows
    <2>1. Append(given, row) = given \o one
      BY <1>1, AppendIsConcat DEF one
    <2>2. (given \o one) \o rest = given \o (one \o rest)
      BY <1>1, Associates, ZenonT(30)
    <2>3. QED
      BY <1>2, <2>1, <2>2
  <1>5. CursorOf(Append(given, row)) = row
    BY <1>1, CursorOfAppend
  <1>6. QED
    BY <1>3, <1>4, <1>5 DEF row, rest, given

\* What a lost connection leaves is the beginning of what the stream was giving.
LEMMA StreamCut ==
    ASSUME NEW had \in Seq(Nat), NEW sent \in Seq(Nat), NEW rows \in Seq(Nat), NEW n \in 0..Len(sent)
    PROVE  /\ had \o SubSeq(sent, 1, n) = SubSeq(had \o sent \o rows, 1, Len(had) + n)
           /\ Len(had) + n \in 0..Len(had \o sent \o rows)
  <1> DEFINE cut == SubSeq(sent, 1, n)
             all == (had \o sent) \o rows
             p == Len(had)
  <1>1. p \in Nat /\ Len(sent) \in Nat /\ Len(rows) \in Nat /\ n \in Nat /\ n <= Len(sent)
    OBVIOUS
  <1>2. cut \in Seq(Nat) /\ Len(cut) = n /\ \A k \in 1..n : cut[k] = sent[k]
    BY SubSeqFacts
  <1> HIDE DEF cut
  <1>3. /\ had \o cut \in Seq(Nat) /\ Len(had \o cut) = p + n
        /\ \A k \in 1..p + n : (had \o cut)[k] = IF k <= p THEN had[k] ELSE cut[k - p]
    BY <1>2, ConcatProperties
  <1>4. /\ had \o sent \in Seq(Nat) /\ Len(had \o sent) = p + Len(sent)
        /\ \A k \in 1..p + Len(sent) : (had \o sent)[k] = IF k <= p THEN had[k] ELSE sent[k - p]
    BY ConcatProperties
  <1>5. /\ all \in Seq(Nat) /\ Len(all) = p + Len(sent) + Len(rows)
        /\ \A k \in 1..p + Len(sent) + Len(rows) :
                all[k] = IF k <= p + Len(sent) THEN (had \o sent)[k] ELSE rows[k - (p + Len(sent))]
    BY <1>4, ConcatProperties
  <1> HIDE DEF all, p
  <1>6. p + n \in 0..Len(all)
    BY <1>1, <1>5
  <1>7. /\ SubSeq(all, 1, p + n) \in Seq(Nat) /\ Len(SubSeq(all, 1, p + n)) = p + n
        /\ \A k \in 1..p + n : SubSeq(all, 1, p + n)[k] = all[k]
    BY <1>5, <1>6, SubSeqFacts
  <1>8. ASSUME NEW k \in 1..p + n
        PROVE  (had \o cut)[k] = all[k]
    <2>1. k \in 1..p + Len(sent) /\ k \in 1..p + Len(sent) + Len(rows) /\ k <= p + Len(sent)
      BY <1>1
    <2>2. ~(k <= p) => k - p \in 1..n
      BY <1>1
    <2>3. QED
      BY <1>2, <1>3, <1>4, <1>5, <2>1, <2>2
  <1>9. had \o cut = SubSeq(all, 1, p + n)
    BY <1>3, <1>7, <1>8, SeqEqual
  <1>10. QED
    BY <1>6, <1>9 DEF all, cut, p

\* A reader and its open stream together have a replay, whose cursor is the one the
\* next read starts from.
ReplayInv ==
    \A r \in Readers :
        /\ IsReplay(feed, r, got[r]) /\ CursorOf(got[r]) <= Len(feed)
        /\ conn[r] # None =>
            LET given == got[r] \o conn[r].sent IN
            /\ conn[r].cursor = CursorOf(given)
            /\ IsReplay(feed, r, given \o conn[r].rows) /\ CursorOf(given \o conn[r].rows) <= Len(feed)

\* Whatever polls, streams and lost connections a reader had, it has been given all
\* that it asks for up to its cursor, once and in order.
THEOREM Replayed == Spec => []FeedIsReplayed
  <1>1. Init => ReplayInv
    <2> SUFFICES ASSUME Init, NEW r \in Readers
                 PROVE  /\ IsReplay(feed, r, got[r]) /\ CursorOf(got[r]) <= Len(feed)
                        /\ conn[r] = None
      BY DEF ReplayInv
    <2>1. got[r] = <<>> /\ feed = <<>> /\ conn[r] = None
      BY DEF Init, FeedInit
    <2>2. <<>> \in Seq(Nat) /\ Len(<<>>) = 0 /\ DOMAIN <<>> = {} /\ CursorOf(<<>>) = 0
      BY DEF CursorOf
    <2>3. IsReplay(feed, r, <<>>)
      <3>1. 1..0 = {}
        OBVIOUS
      <3>2. QED
        BY <2>2, <3>1 DEF IsReplay
    <2>4. QED
      BY <2>1, <2>2, <2>3
  <1>2. TypeInv /\ ReplayInv /\ [Next]_vars => ReplayInv'
    <2> USE DEF accessVars, steeringVars, feedVars
    <2> DEFINE Conn == [cursor : Nat, rows : Seq(Nat), sent : Seq(Nat), polled : BOOLEAN]
    \* Only the rows up to its cursor matter to a replay.
    <2>cursor. ASSUME TypeInv, NEW r \in Readers, conn[r] # None
               PROVE  /\ conn[r] \in Conn
                      /\ got[r] \o conn[r].sent \in Seq(Nat)
                      /\ got[r] \o conn[r].sent \o conn[r].rows \in Seq(Nat)
      <3>1. conn[r] \in Conn /\ got[r] \in Seq(Nat)
        BY <2>cursor DEF TypeInv, TypeOK
      <3>2. conn[r].sent \in Seq(Nat) /\ conn[r].rows \in Seq(Nat)
        BY <3>1
      <3>3. QED
        BY <3>1, <3>2
    <2>grow. ASSUME TypeInv, ReplayInv, UNCHANGED <<got, conn>>,
                    Len(feed) <= Len(feed'), Len(feed') \in Nat, \A i \in 1..Len(feed) : feed'[i] = feed[i]
             PROVE  ReplayInv'
      <3>1. Len(feed) \in Nat
        BY <2>grow DEF TypeInv, TypeOK
      <3>2. ASSUME NEW r \in Readers, NEW ids \in Seq(Nat), IsReplay(feed, r, ids), CursorOf(ids) <= Len(feed)
            PROVE  IsReplay(feed', r, ids) /\ CursorOf(ids) <= Len(feed')
        <4>1. IsReplay(feed', r, ids)
          BY <2>grow, <3>1, <3>2, ReplayGrown
        <4>2. CursorOf(ids) \in Nat
          BY CursorFacts
        <4>3. QED
          BY <2>grow, <3>1, <3>2, <4>1, <4>2
      <3>3. \A r \in Readers : got[r] \in Seq(Nat)
        BY <2>grow DEF TypeInv, TypeOK
      <3>4. \A r \in Readers : IsReplay(feed', r, got[r]) /\ CursorOf(got[r]) <= Len(feed')
        BY <2>grow, <3>2, <3>3 DEF ReplayInv
      <3>5. \A r \in Readers : conn[r] # None =>
                LET given == got[r] \o conn[r].sent IN
                /\ conn[r].cursor = CursorOf(given)
                /\ IsReplay(feed', r, given \o conn[r].rows) /\ CursorOf(given \o conn[r].rows) <= Len(feed')
        BY <2>grow, <2>cursor, <3>2 DEF ReplayInv
      <3>6. QED
        BY <2>grow, <3>4, <3>5 DEF ReplayInv
    <2>emit. ASSUME TypeInv, ReplayInv, NEW e \in Event, feed' = Append(feed, e), UNCHANGED <<got, conn>>
             PROVE  ReplayInv'
      <3>1. feed \in Seq(Event)
        BY <2>emit DEF TypeInv, TypeOK, Event
      <3>2. Len(feed) <= Len(feed') /\ Len(feed') \in Nat /\ \A i \in 1..Len(feed) : feed'[i] = feed[i]
        BY <2>emit, <3>1
      <3>3. QED
        BY <2>emit, <2>grow, <3>2
    <2>still. ASSUME ReplayInv, UNCHANGED <<feed, got, conn>>
              PROVE  ReplayInv'
      BY <2>still DEF ReplayInv
    <2> SUFFICES ASSUME TypeInv, ReplayInv, Next
                 PROVE  ReplayInv'
      BY <2>still DEF vars
    <2>1. ASSUME NEW s \in Servers, Call(s)
          PROVE  ReplayInv'
      <3>1. CASE EmitCall(s)
        <4>1. NewEvent(call[s].method, call[s].thread, call[s].id) \in Event
          BY <3>1 DEF EmitCall, NewEvent, Event, TypeInv, TypeOK
        <4>2. QED
          BY <3>1, <4>1, <2>emit DEF EmitCall, Emits
      <3>2. CASE ~EmitCall(s)
        BY <2>1, <3>2, <2>still DEF Call, CheckCancel, AppendCancel, CheckSteer, InsertSteer, CrashServer
      <3>3. QED
        BY <3>1, <3>2
    <2>2. ASSUME NEW w \in Workers, Work(w)
          PROVE  ReplayInv'
      <3>1. CASE Beat(w)
        <4>1. NewEvent("work.heartbeat", turn[w].thread, None) \in Event
          BY <3>1 DEF Beat, At, NewEvent, Event, TypeInv, TypeOK
        <4>2. QED
          BY <3>1, <4>1, <2>emit DEF Beat, Emits
      <3>2. CASE ~Beat(w)
        BY <2>2, <3>2, <2>still DEF Work, StartTurn, OpenTurn, Consume, Inject, CheckTurn, CloseTurn, LeaveTurn
      <3>3. QED
        BY <3>1, <3>2
    <2>3. CASE CancelMessage \/ ChangeCredentials
      BY <2>3, <2>still DEF CancelMessage, ChangeCredentials
    <2>4. ASSUME NEW r \in Readers, Follow(r) \/ Disconnect(r)
          PROVE  ReplayInv'
      <3>0. /\ feed \in Seq(Event) /\ got[r] \in Seq(Nat)
            /\ conn[r] # None => conn[r] \in Conn
        BY DEF TypeInv, TypeOK, Event
      <3>feed. UNCHANGED feed
        BY <2>4 DEF Follow, Disconnect, Poll, Open, Serve, ReadRows, TakeRows, WriteRow, EndStream, Drop
      <3>inv. /\ IsReplay(feed, r, got[r]) /\ CursorOf(got[r]) <= Len(feed)
              /\ conn[r] # None =>
                    /\ conn[r].cursor = CursorOf(got[r] \o conn[r].sent)
                    /\ IsReplay(feed, r, got[r] \o conn[r].sent \o conn[r].rows)
                    /\ CursorOf(got[r] \o conn[r].sent \o conn[r].rows) <= Len(feed)
        BY DEF ReplayInv
      \* What must hold of the reader that takes the step.
      <3>own. ASSUME \A p \in Readers \ {r} : got'[p] = got[p] /\ conn'[p] = conn[p],
                     IsReplay(feed, r, got'[r]), CursorOf(got'[r]) <= Len(feed),
                     conn'[r] # None =>
                        /\ conn'[r].cursor = CursorOf(got'[r] \o conn'[r].sent)
                        /\ IsReplay(feed, r, got'[r] \o conn'[r].sent \o conn'[r].rows)
                        /\ CursorOf(got'[r] \o conn'[r].sent \o conn'[r].rows) <= Len(feed)
              PROVE  ReplayInv'
        <4> SUFFICES ASSUME NEW p \in Readers
                     PROVE  /\ IsReplay(feed, p, got'[p]) /\ CursorOf(got'[p]) <= Len(feed)
                            /\ conn'[p] # None =>
                                /\ conn'[p].cursor = CursorOf(got'[p] \o conn'[p].sent)
                                /\ IsReplay(feed, p, got'[p] \o conn'[p].sent \o conn'[p].rows)
                                /\ CursorOf(got'[p] \o conn'[p].sent \o conn'[p].rows) <= Len(feed)
          BY <3>feed DEF ReplayInv
        <4>1. CASE p = r
          BY <3>own, <4>1
        <4>2. CASE p # r
          BY <3>own, <4>2 DEF ReplayInv
        <4>3. QED
          BY <4>1, <4>2
      \* A reader's replays can be cut short,
      <3>cut. ASSUME NEW ids \in Seq(Nat), IsReplay(feed, r, ids), CursorOf(ids) <= Len(feed),
                     NEW n \in 0..Len(ids)
              PROVE  IsReplay(feed, r, SubSeq(ids, 1, n)) /\ CursorOf(SubSeq(ids, 1, n)) <= Len(feed)
        <4> DEFINE s == SubSeq(ids, 1, n)
        <4>1. IsReplay(feed, r, s)
          BY <3>cut, ReplayPrefix
        <4>2. s \in Seq(Nat) /\ Len(s) = n /\ \A k \in 1..n : s[k] = ids[k]
          BY SubSeqFacts
        <4>3. n \in Nat /\ Len(ids) \in Nat /\ Len(feed) \in Nat /\ DOMAIN ids = 1..Len(ids) /\ CursorOf(ids) \in Nat
          BY <3>0, CursorFacts
        <4> HIDE DEF s
        <4>4. CASE n = 0
          <5>1. CursorOf(s) = 0
            BY <4>2, <4>4, CursorFacts
          <5>2. QED
            BY <4>1, <4>3, <5>1 DEF s
        <4>5. CASE n # 0
          <5>1. n \in 1..n /\ n \in DOMAIN ids
            BY <4>3, <4>5
          <5>2. CursorOf(s) = s[n] /\ s[n] = ids[n]
            BY <4>2, <4>5, <5>1, CursorFacts
          <5>3. ids[n] \in 1..CursorOf(ids)
            BY <3>cut, <5>1 DEF IsReplay
          <5>4. CursorOf(s) <= Len(feed)
            BY <3>cut, <4>3, <5>2, <5>3
          <5>5. QED
            BY <4>1, <5>4 DEF s
        <4>6. QED
          BY <4>4, <4>5
      \* and read on.
      <3>on. ASSUME NEW ids \in Seq(Nat), IsReplay(feed, r, ids), CursorOf(ids) <= Len(feed), NEW limit \in Nat
             PROVE  LET more == ids \o ReadAfter(r, CursorOf(ids), limit) IN
                    IsReplay(feed, r, more) /\ CursorOf(more) <= Len(feed)
        BY <3>on, <3>0, ReplayExtended
      <3>seqs. conn[r] # None =>
                /\ conn[r].sent \in Seq(Nat) /\ conn[r].rows \in Seq(Nat) /\ conn[r].cursor \in Nat
                /\ got[r] \o conn[r].sent \in Seq(Nat)
                /\ got[r] \o conn[r].sent \o conn[r].rows \in Seq(Nat)
        BY <3>0, <2>cursor
      <3>typed. got \in [Readers -> Seq(Nat)] /\ conn \in [Readers -> {None} \cup Conn]
        BY DEF TypeInv, TypeOK
      <3>1. CASE Poll(r)
        <4>1. got' = [got EXCEPT ![r] = @ \o ReadAfter(r, CursorOf(got[r]), MaxEvents)]
              /\ UNCHANGED conn /\ conn[r] = None
          BY <3>1 DEF Poll, Given
        <4>2. got'[r] = got[r] \o ReadAfter(r, CursorOf(got[r]), MaxEvents)
              /\ \A p \in Readers \ {r} : got'[p] = got[p]
          BY <4>1, <3>typed
        <4>3. IsReplay(feed, r, got'[r]) /\ CursorOf(got'[r]) <= Len(feed)
          BY <4>2, <3>0, <3>inv, <3>on, ControlAssumption
        <4>4. QED
          BY <4>1, <4>2, <4>3, <3>own
      <3>2. CASE Open(r)
        <4>1. /\ conn'[r] = [cursor |-> CursorOf(got[r]), rows |-> <<>>, sent |-> <<>>, polled |-> FALSE]
              /\ \A p \in Readers \ {r} : conn'[p] = conn[p]
              /\ UNCHANGED got
          BY <3>2, <3>typed DEF Open
        <4>2. got[r] \o <<>> = got[r]
          BY <3>0, ConcatEmptySeq
        <4>3. QED
          BY <4>1, <4>2, <3>inv, <3>own
      <3>3. CASE ReadRows(r)
        <4> DEFINE rows == ReadAfter(r, conn[r].cursor, MaxEvents - Len(conn[r].sent))
        <4>1. /\ conn[r] # None /\ MaxEvents - Len(conn[r].sent) \in Nat
              /\ conn' = [conn EXCEPT ![r].rows = rows, ![r].polled = TRUE]
              /\ UNCHANGED got
          BY <3>3, <3>seqs, ControlAssumption DEF ReadRows, Reading, TakeRows
        <4>2. /\ conn'[r].rows = rows /\ conn'[r].sent = conn[r].sent /\ conn'[r].cursor = conn[r].cursor
              /\ \A p \in Readers \ {r} : conn'[p] = conn[p]
          <5> HIDE DEF rows
          <5>1. QED
            BY <3>0, <4>1, <3>typed
        <4>3. conn[r].rows = <<>>
          BY <3>3 DEF ReadRows, Reading
        <4>4. got[r] \o conn[r].sent \o conn[r].rows = got[r] \o conn[r].sent
          BY <4>1, <4>3, <3>seqs, ConcatEmptySeq
        <4>5. IsReplay(feed, r, got[r] \o conn[r].sent) /\ CursorOf(got[r] \o conn[r].sent) <= Len(feed)
          BY <4>1, <4>4, <3>inv
        <4>6. /\ IsReplay(feed, r, got[r] \o conn[r].sent \o rows)
              /\ CursorOf(got[r] \o conn[r].sent \o rows) <= Len(feed)
          BY <4>1, <4>5, <3>inv, <3>seqs, <3>on
        <4> HIDE DEF rows
        <4>7. QED
          BY <4>1, <4>2, <4>6, <3>inv, <3>own
      <3>4. CASE WriteRow(r)
        <4> DEFINE row == Head(conn[r].rows)
                   rest == Tail(conn[r].rows)
        <4>1. /\ conn[r] # None /\ conn[r].rows # <<>>
              /\ conn' = [conn EXCEPT ![r].rows = Tail(@), ![r].cursor = row, ![r].sent = Append(@, row)]
              /\ UNCHANGED got
          BY <3>4 DEF WriteRow
        <4>2. /\ conn'[r].rows = rest /\ conn'[r].sent = Append(conn[r].sent, row) /\ conn'[r].cursor = row
              /\ \A p \in Readers \ {r} : conn'[p] = conn[p]
          BY <3>0, <4>1, <3>typed
        <4>3. /\ row \in Nat /\ rest \in Seq(Nat) /\ Append(conn[r].sent, row) \in Seq(Nat)
              /\ got[r] \o Append(conn[r].sent, row) \in Seq(Nat)
          BY <3>0, <4>1, <3>seqs, SMTT(30)
        <4>4. got[r] \o Append(conn[r].sent, row) \o rest = got[r] \o conn[r].sent \o conn[r].rows
          BY <3>0, <4>1, <3>seqs, RowWritten
        <4>5. CursorOf(got[r] \o Append(conn[r].sent, row)) = row
          BY <3>0, <4>1, <3>seqs, RowWritten
        <4> HIDE DEF row, rest
        <4>6. QED
          BY <4>1, <4>2, <4>4, <4>5, <3>inv, <3>own
      <3>5. CASE EndStream(r)
        <4>1. /\ conn[r] # None /\ conn[r].rows = <<>>
              /\ got'[r] = got[r] \o conn[r].sent /\ conn'[r] = None
              /\ \A p \in Readers \ {r} : got'[p] = got[p] /\ conn'[p] = conn[p]
          BY <3>5, <3>typed DEF EndStream, Given
        <4>2. got[r] \o conn[r].sent \o conn[r].rows = got[r] \o conn[r].sent
          BY <4>1, <3>seqs, ConcatEmptySeq
        <4>3. QED
          BY <4>1, <4>2, <3>inv, <3>own
      <3>6. CASE Drop(r)
        <4>1. PICK n \in 0..Len(conn[r].sent) : Given(r, SubSeq(conn[r].sent, 1, n))
          BY <3>6 DEF Drop
        <4>2. /\ conn[r] # None
              /\ got'[r] = got[r] \o SubSeq(conn[r].sent, 1, n) /\ conn'[r] = None
              /\ \A p \in Readers \ {r} : got'[p] = got[p] /\ conn'[p] = conn[p]
          BY <3>6, <4>1, <3>typed DEF Drop, Given
        <4>3. /\ got[r] \o SubSeq(conn[r].sent, 1, n)
                    = SubSeq(got[r] \o conn[r].sent \o conn[r].rows, 1, Len(got[r]) + n)
              /\ Len(got[r]) + n \in 0..Len(got[r] \o conn[r].sent \o conn[r].rows)
          BY <3>0, <4>2, <3>seqs, StreamCut
        <4>4. QED
          BY <4>2, <4>3, <3>cut, <3>inv, <3>own, <3>seqs
      <3>7. QED
        BY <2>4, <3>1, <3>2, <3>3, <3>4, <3>5, <3>6 DEF Follow, Disconnect, Serve
    <2>5. QED
      BY <2>1, <2>2, <2>3, <2>4 DEF Next
  <1>3. TypeInv /\ ReplayInv => FeedIsReplayed
    <2> SUFFICES ASSUME TypeInv, ReplayInv, NEW r \in Readers
                 PROVE  /\ Replays(r, got[r])
                        /\ conn[r] # None => Replays(r, got[r] \o conn[r].sent \o conn[r].rows)
      BY DEF FeedIsReplayed
    <2>1. got[r] \in Seq(Nat)
      BY DEF TypeInv, TypeOK
    <2>2. conn[r] # None => got[r] \o conn[r].sent \o conn[r].rows \in Seq(Nat)
      <3>1. conn[r] # None => conn[r].sent \in Seq(Nat) /\ conn[r].rows \in Seq(Nat)
        BY DEF TypeInv, TypeOK
      <3>2. QED
        BY <2>1, <3>1
    <2>3. QED
      BY <2>1, <2>2, ReplaysIsReplay DEF ReplayInv
  <1>4. QED
    BY <1>1, <1>2, <1>3, TypeCorrect, PTL DEF Spec
=============================================================================
