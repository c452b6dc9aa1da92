-------------------------- MODULE WorkQueueProofs --------------------------
(***************************************************************************)
(* Proofs about WorkQueue.tla for any number of items, workers, threads    *)
(* and processes, any lease length and any bound on the clock.             *)
(***************************************************************************)
EXTENDS WorkQueue, TLAPS

\* The pending call of a process has the shape its kind says.
LEMMA CallShape ==
    ASSUME TypeOK, NEW p \in Processes
    PROVE  /\ op[p].call \in HeldCalls => op[p].item \in Items /\ op[p].worker \in Workers
           /\ op[p].call = "cancel" => op[p].item \in Items
  BY DEF TypeOK, Calls, NoCall, HeldCalls

\* TypeOK holds in every reachable state of every instance.
THEOREM TypeCorrect == Spec => []TypeOK
  <1>1. Init => TypeOK
    BY DEF Init, TypeOK, Statuses, Calls
  <1>2. TypeOK /\ [Next]_vars => TypeOK'
    <2> SUFFICES ASSUME TypeOK, [Next]_vars, users' \subseteq Processes PROVE TypeOK'
      BY DEF Next, vars, TypeOK
    <2>1. CASE Tick
      BY <2>1 DEF Tick, TypeOK, rowVars
    <2>2. ASSUME NEW p \in Processes, NEW i \in Items, NEW t \in Threads,
                 NEW k \in Kinds, Enqueue(p, i, t, k)
          PROVE  TypeOK'
      BY <2>2 DEF Enqueue, TypeOK, Statuses
    <2>3. ASSUME NEW p \in Processes, NEW w \in Workers, NEW ks \in SUBSET Kinds,
                 NEW ts \in SUBSET Threads, Claim(p, w, ks, ts)
          PROVE  TypeOK'
      BY <2>3, QueueAssumption DEF Claim, Eligible, Expiry, TypeOK, Statuses
    <2>4. ASSUME NEW p \in Processes, NEW i \in Items, NEW w \in Workers,
                 RenewLease(p, i, w)
          PROVE  TypeOK'
      BY <2>4, QueueAssumption DEF RenewLease, Expiry, TypeOK
    <2>5. ASSUME NEW p \in Processes, NEW i \in Items, NEW w \in Workers,
                 NEW c \in HeldCalls, BeginHeld(p, c, i, w)
          PROVE  TypeOK'
      <3>1. [call |-> c, item |-> i, worker |-> w] \in Calls
        BY DEF Calls
      <3>2. QED
        BY <2>5, <3>1 DEF BeginHeld, TypeOK, rowVars
    <2>6. ASSUME NEW p \in Processes, NEW i \in Items, BeginCancel(p, i)
          PROVE  TypeOK'
      <3>1. [call |-> "cancel", item |-> i] \in Calls
        BY DEF Calls
      <3>2. QED
        BY <2>6, <3>1 DEF BeginCancel, TypeOK, rowVars
    <2>7. ASSUME NEW p \in Processes, Finish(p) \/ Release(p) \/ Cancel(p)
          PROVE  TypeOK'
      <3>1. op[p].item \in Items
        BY <2>7, CallShape DEF Finish, Release, Cancel, HeldCalls
      <3>2. NoCall \in Calls
        BY DEF Calls
      <3>3. CASE Finish(p)
        BY <3>1, <3>2, <3>3, CallShape
           DEF Finish, Unlease, TypeOK, Statuses, Terminal, HeldCalls
      <3>4. CASE Release(p)
        BY <3>1, <3>2, <3>4 DEF Release, Unlease, TypeOK, Statuses
      <3>5. CASE Cancel(p)
        BY <3>1, <3>2, <3>5 DEF Cancel, Unlease, TypeOK, Statuses, Terminal
      <3>6. QED
        BY <2>7, <3>3, <3>4, <3>5
    <2>8. ASSUME NEW p \in Processes, Crash(p)
          PROVE  TypeOK'
      BY <2>8 DEF Crash, TypeOK, rowVars, Calls
    <2>9. CASE UNCHANGED vars
      BY <2>9 DEF vars, TypeOK
    <2>10. QED
      BY <2>1, <2>2, <2>3, <2>4, <2>5, <2>6, <2>7, <2>8, <2>9 DEF Next, Call, TypeOK
  <1>3. QED
    BY <1>1, <1>2, PTL DEF Spec

\* Even when processes overwrite rows they read long ago, a lease never loses
\* its owner or its expiry and an item nobody may work on never keeps one.
THEOREM LeaseShapeInvariant == Spec => []LeaseShape
  <1>1. Init => LeaseShape
    BY QueueAssumption DEF Init, LeaseShape
  <1>2. TypeOK /\ LeaseShape /\ [Next]_vars => LeaseShape'
    <2> SUFFICES ASSUME TypeOK, LeaseShape, [Next]_vars PROVE LeaseShape'
      OBVIOUS
    <2>1. ASSUME NEW p \in Processes, NEW i \in Items, NEW t \in Threads,
                 NEW k \in Kinds, Enqueue(p, i, t, k)
          PROVE  LeaseShape'
      BY <2>1 DEF Enqueue, TypeOK, LeaseShape
    <2>2. ASSUME NEW p \in Processes, NEW w \in Workers, NEW ks \in SUBSET Kinds,
                 NEW ts \in SUBSET Threads, Claim(p, w, ks, ts)
          PROVE  LeaseShape'
      <3>1. PICK i \in Items : /\ status' = [status EXCEPT ![i] = "leased"]
                               /\ owner' = [owner EXCEPT ![i] = w]
                               /\ until' = [until EXCEPT ![i] = Expiry]
        BY <2>2 DEF Claim, Eligible
      <3>2. Expiry # 0 /\ w # None
        BY QueueAssumption DEF Expiry, TypeOK
      <3>3. QED
        BY <3>1, <3>2 DEF TypeOK, LeaseShape
    <2>3. ASSUME NEW p \in Processes, NEW i \in Items, NEW w \in Workers,
                 RenewLease(p, i, w)
          PROVE  LeaseShape'
      BY <2>3, QueueAssumption DEF RenewLease, Expiry, HeldBy, TypeOK, LeaseShape
    <2>4. ASSUME NEW p \in Processes, Finish(p) \/ Release(p) \/ Cancel(p)
          PROVE  LeaseShape'
      <3>1. op[p].item \in Items
        BY <2>4, CallShape DEF Finish, Release, Cancel, HeldCalls
      <3>2. \E s \in Statuses \ {"leased"} : Unlease(op[p].item, s)
        BY <2>4 DEF Finish, Release, Cancel, Statuses, Terminal
      <3>3. QED
        BY <3>1, <3>2 DEF Unlease, TypeOK, LeaseShape
    <2>5. ASSUME UNCHANGED rowVars
          PROVE  LeaseShape'
      BY <2>5 DEF rowVars, LeaseShape
    <2>6. QED
      BY <2>1, <2>2, <2>3, <2>4, <2>5
         DEF Next, Call, TypeOK, vars, rowVars, Tick, BeginHeld, BeginCancel, Crash
  <1>3. QED
    BY <1>1, <1>2, TypeCorrect, PTL DEF Spec

\* The work on an item cannot be taken over while its lease is running.
THEOREM LeasesAreNotStolen == Spec => NoLeaseStealing
  <1> DEFINE Step == \A i \in Items :
        (owner[i] # None /\ owner'[i] \notin {None, owner[i]}) => until[i] <= clock
  <1>1. TypeOK /\ LeaseShape /\ [Next]_vars => [Step]_vars
    <2> SUFFICES ASSUME TypeOK, LeaseShape, Next PROVE Step
      OBVIOUS
    <2>1. ASSUME NEW p \in Processes, NEW w \in Workers, NEW ks \in SUBSET Kinds,
                 NEW ts \in SUBSET Threads, Claim(p, w, ks, ts)
          PROVE  Step
      BY <2>1 DEF Claim, Eligible, Claimable, TypeOK, LeaseShape
    <2>2. ASSUME NEW p \in Processes, Finish(p) \/ Release(p) \/ Cancel(p)
          PROVE  Step
      <3>1. op[p].item \in Items
        BY <2>2, CallShape DEF Finish, Release, Cancel, HeldCalls
      <3>2. QED
        BY <2>2, <3>1 DEF Finish, Release, Cancel, Unlease, TypeOK
    <2>3. ASSUME UNCHANGED owner
          PROVE  Step
      BY <2>3
    <2>4. QED
      BY <2>1, <2>2, <2>3
         DEF Next, Call, TypeOK, rowVars, Tick, Enqueue, RenewLease, BeginHeld, BeginCancel, Crash
  <1>2. QED
    BY <1>1, TypeCorrect, LeaseShapeInvariant, PTL DEF Spec, NoLeaseStealing

-----------------------------------------------------------------------------
\* What follows holds when a single process uses the table: its calls run one
\* after the other, so nothing happens between the check and the UPDATE of a
\* call but the passing of time or the death of the process.
\* The row a pending call is about to overwrite is the row it checked.
LEMMA ChecksHold == Spec => []ChecksStillHold
  <1>1. Init => ChecksStillHold
    BY DEF Init, ChecksStillHold, NoCall, HeldCalls
  <1>2. TypeOK /\ ChecksStillHold /\ [Next]_vars => ChecksStillHold'
    <2> SUFFICES ASSUME TypeOK, ChecksStillHold, [Next]_vars, Alone, users' = users
                 PROVE  ChecksStillHold'
      BY DEF Next, vars, Alone, ChecksStillHold
    <2>1. CASE Tick
      BY <2>1 DEF Tick, rowVars, Alone, ChecksStillHold, HeldBy, NotTerminal
    <2>2. CASE UNCHANGED vars
      BY <2>2 DEF vars, Alone, ChecksStillHold, HeldBy, NotTerminal
    <2>3. ASSUME NEW p \in users, op[p]' = NoCall
          PROVE  ChecksStillHold'
      BY <2>3 DEF Alone, ChecksStillHold, NoCall, HeldCalls
    <2>4. ASSUME NEW p \in users, NEW i \in Items, NEW w \in Workers,
                 NEW c \in HeldCalls, BeginHeld(p, c, i, w)
          PROVE  ChecksStillHold'
      <3>1. op'[p] = [call |-> c, item |-> i, worker |-> w]
        BY <2>4 DEF BeginHeld, TypeOK
      <3>2. (op'[p].call = c /\ op'[p].item = i /\ op'[p].worker = w) /\ c # "cancel"
        BY <3>1 DEF HeldCalls
      <3>3. HeldBy(i, w)'
        BY <2>4 DEF BeginHeld, HeldBy, rowVars
      <3>4. QED
        BY <3>2, <3>3 DEF Alone, ChecksStillHold, HeldBy
    <2>5. ASSUME NEW p \in users, NEW i \in Items, BeginCancel(p, i)
          PROVE  ChecksStillHold'
      <3>1. op'[p] = [call |-> "cancel", item |-> i]
        BY <2>5 DEF BeginCancel, TypeOK
      <3>2. op'[p].call = "cancel" /\ op'[p].item = i /\ op'[p].call \notin HeldCalls
        BY <3>1 DEF HeldCalls
      <3>3. NotTerminal(i)'
        BY <2>5 DEF BeginCancel, NotTerminal, rowVars
      <3>4. QED
        BY <3>2, <3>3 DEF Alone, ChecksStillHold, NotTerminal
    <2>6. ASSUME NEW p \in users,
                 \/ \E i \in Items, t \in Threads, k \in Kinds : Enqueue(p, i, t, k)
                 \/ \E w \in Workers, ks \in SUBSET Kinds, ts \in SUBSET Threads :
                       Claim(p, w, ks, ts)
                 \/ \E i \in Items, w \in Workers : RenewLease(p, i, w)
          PROVE  op[p]' = NoCall
      BY <2>6 DEF Enqueue, Claim, RenewLease, Idle
    <2>7. ASSUME NEW p \in users, Finish(p) \/ Release(p) \/ Cancel(p) \/ Crash(p)
          PROVE  op[p]' = NoCall
      BY <2>7 DEF Finish, Release, Cancel, Crash, TypeOK
    <2>8. QED
      BY <2>1, <2>2, <2>3, <2>4, <2>5, <2>6, <2>7 DEF Next, Call
  <1>3. QED
    BY <1>1, <1>2, TypeCorrect, PTL DEF Spec

\* With one process, an item that was completed, failed or cancelled is never
\* leased, released or finished again.
THEOREM FinishedItemsStay == Spec => TerminalIsFinal
  <1> DEFINE Step == \A i \in Items :
        (Alone /\ status[i] \in Terminal) => status'[i] = status[i]
  <1>1. TypeOK /\ ChecksStillHold /\ [Next]_vars => [Step]_vars
    <2> SUFFICES ASSUME TypeOK, ChecksStillHold, Next, Alone PROVE Step
      OBVIOUS
    <2>1. ASSUME NEW p \in Processes, NEW i \in Items, NEW t \in Threads,
                 NEW k \in Kinds, Enqueue(p, i, t, k)
          PROVE  Step
      BY <2>1 DEF Enqueue, TypeOK, Terminal
    <2>2. ASSUME NEW p \in Processes, NEW w \in Workers, NEW ks \in SUBSET Kinds,
                 NEW ts \in SUBSET Threads, Claim(p, w, ks, ts)
          PROVE  Step
      BY <2>2 DEF Claim, Eligible, Claimable, TypeOK, Terminal
    <2>3. ASSUME NEW p \in users, Finish(p) \/ Release(p) \/ Cancel(p)
          PROVE  Step
      <3>1. op[p].item \in Items /\ status[op[p].item] \notin Terminal
        BY <2>3, CallShape
           DEF TypeOK, Finish, Release, Cancel, HeldCalls, ChecksStillHold, HeldBy,
               NotTerminal, Terminal
      <3>2. QED
        BY <2>3, <3>1 DEF Finish, Release, Cancel, Unlease, TypeOK
    <2>4. ASSUME UNCHANGED status
          PROVE  Step
      BY <2>4
    <2>5. QED
      BY <2>1, <2>2, <2>3, <2>4
         DEF Next, Call, TypeOK, rowVars, Tick, RenewLease, BeginHeld, BeginCancel, Crash
  <1>2. QED
    BY <1>1, TypeCorrect, ChecksHold, PTL DEF Spec, TerminalIsFinal

\* How an assignment to one row's status shows in the ledger.
LEMMA PhaseStep ==
    ASSUME TypeOK, NEW i \in Items, NEW s, status' = [status EXCEPT ![i] = s]
    PROVE  LedgerPhase' = [LedgerPhase EXCEPT ![i] = PhaseOf(s)]
  BY DEF TypeOK, LedgerPhase

LEMMA PhaseValues ==
    /\ PhaseOf("absent") = "unknown"
    /\ PhaseOf("pending") = "free"
    /\ PhaseOf("leased") = "held"
    /\ PhaseOf("completed") = "closed"
    /\ PhaseOf("failed") = "closed"
    /\ PhaseOf("cancelled") = "closed"
  BY DEF PhaseOf, Terminal

LEMMA PhaseAt ==
    ASSUME TypeOK, NEW i \in Items
    PROVE  /\ LedgerPhase[i] = PhaseOf(status[i])
           /\ LedgerPhase[i] = "unknown" <=> status[i] = "absent"
           /\ LedgerPhase[i] = "free" <=> status[i] = "pending"
           /\ LedgerPhase[i] = "held" <=> status[i] = "leased"
  BY DEF TypeOK, LedgerPhase, PhaseOf, Statuses, Terminal

\* Giving up a lease removes the item from the lapsed ones, and touches no other.
LEMMA UnleaseLapsed ==
    ASSUME TypeOK, NEW i \in Items, NEW s \in Statuses \ {"leased"}, Unlease(i, s),
           UNCHANGED clock
    PROVE  LedgerLapsed' = LedgerLapsed \ {i}
  BY DEF TypeOK, LedgerLapsed, Unlease

\* With one process, whatever sequence of calls, crashes and expiries happens,
\* the table behaves as the ledger: only the holder of a lease closes its item
\* with an outcome, leases move only after they lapsed, nothing closed reopens.
THEOREM QueueImplementsLedger == Spec => ImplementsLedger
  <1> USE DEF Ledger!ledgerVars
  <1>1. Init => Ledger!Init
    BY DEF Init, Ledger!Init, LedgerPhase, LedgerLapsed, PhaseOf
  <1>2. TypeOK /\ ChecksStillHold /\ [Next]_vars
        => [Alone => Ledger!Next]_(Ledger!ledgerVars)
    <2> SUFFICES ASSUME TypeOK, ChecksStillHold, [Next]_vars, Alone
                 PROVE  [Ledger!Next]_(Ledger!ledgerVars)
      OBVIOUS
    <2>1. CASE Tick
      <3>1. UNCHANGED LedgerPhase
        BY <2>1 DEF Tick, rowVars, LedgerPhase
      <3>2. LedgerLapsed' = LedgerLapsed \cup LedgerLapsed'
        BY <2>1 DEF Tick, rowVars, LedgerLapsed, TypeOK
      <3>3. LedgerLapsed' \in SUBSET {i \in Items : LedgerPhase[i] = "held"}
        BY <2>1, PhaseAt DEF Tick, rowVars, LedgerLapsed
      <3>4. Ledger!Lapse
        BY <2>1, <3>1, <3>2, <3>3 DEF Ledger!Lapse, Tick, rowVars
      <3>5. QED
        BY <3>4 DEF Ledger!Next
    <2>2. ASSUME NEW p \in Processes, NEW i \in Items, NEW t \in Threads,
                 NEW k \in Kinds, Enqueue(p, i, t, k)
          PROVE  Ledger!Next
      <3>0. status[i] = "absent" /\ status' = [status EXCEPT ![i] = "pending"]
        BY <2>2 DEF Enqueue
      <3>1. LedgerPhase[i] = "unknown"
        BY <3>0, PhaseAt
      <3>1b. LedgerPhase' = [LedgerPhase EXCEPT ![i] = "free"]
        BY <3>0, PhaseStep, PhaseValues
      <3>2. UNCHANGED LedgerLapsed
        BY <2>2 DEF Enqueue, LedgerLapsed, TypeOK
      <3>3. Ledger!Open(i)
        BY <2>2, <3>1, <3>1b, <3>2 DEF Ledger!Open, Enqueue
      <3>4. QED
        BY <3>3 DEF Ledger!Next
    <2>3. ASSUME NEW p \in Processes, NEW w \in Workers, NEW ks \in SUBSET Kinds,
                 NEW ts \in SUBSET Threads, Claim(p, w, ks, ts)
          PROVE  Ledger!Next
      <3>1. PICK i \in Items : /\ Claimable(i)
                               /\ status' = [status EXCEPT ![i] = "leased"]
                               /\ owner' = [owner EXCEPT ![i] = w]
                               /\ until' = [until EXCEPT ![i] = Expiry]
        BY <2>3 DEF Claim, Eligible
      <3>2. LedgerPhase' = [LedgerPhase EXCEPT ![i] = "held"]
        BY <3>1, PhaseStep, PhaseValues
      <3>3. LedgerPhase[i] = "free" \/ (LedgerPhase[i] = "held" /\ i \in LedgerLapsed)
        BY <3>1, PhaseAt DEF Claimable, LedgerLapsed
      <3>4. UNCHANGED clock /\ UNCHANGED result /\ ~(Expiry <= clock)
        BY <2>3, QueueAssumption DEF Claim, Expiry, TypeOK
      <3>5. LedgerLapsed' = LedgerLapsed \ {i}
        BY <3>1, <3>4 DEF LedgerLapsed, TypeOK
      <3>6. Ledger!Grant(i, w)
        BY <3>1, <3>2, <3>3, <3>4, <3>5 DEF Ledger!Grant
      <3>7. QED
        BY <3>6 DEF Ledger!Next
    <2>4. ASSUME NEW p \in Processes, NEW i \in Items, NEW w \in Workers,
                 RenewLease(p, i, w)
          PROVE  Ledger!Next
      <3>1. LedgerPhase[i] = "held" /\ UNCHANGED LedgerPhase
        BY <2>4, PhaseAt DEF RenewLease, HeldBy, LedgerPhase
      <3>2. ~(Expiry <= clock)
        BY QueueAssumption DEF Expiry, TypeOK
      <3>3. LedgerLapsed' = LedgerLapsed \ {i}
        BY <2>4, <3>2 DEF RenewLease, LedgerLapsed, TypeOK
      <3>4. Ledger!Extend(i)
        BY <2>4, <3>1, <3>3 DEF Ledger!Extend, RenewLease
      <3>5. QED
        BY <3>4 DEF Ledger!Next
    <2>5. ASSUME NEW p \in users, p \in Processes, Finish(p)
          PROVE  Ledger!Next
      <3> DEFINE i == op[p].item
                 w == op[p].worker
                 s == IF op[p].call = "ack" THEN "completed" ELSE "failed"
      <3>1. i \in Items /\ w \in Workers /\ HeldBy(i, w)
        BY <2>5, CallShape DEF Finish, HeldCalls, ChecksStillHold
      <3>2. Unlease(i, s) /\ UNCHANGED clock /\ result' = [result EXCEPT ![i] = w]
        BY <2>5 DEF Finish
      <3>3. s \in Terminal /\ s \in Statuses \ {"leased"}
        BY DEF Terminal, Statuses
      <3> HIDE DEF i, w, s
      <3>4. LedgerPhase[i] = "held" /\ PhaseOf(s) = "closed"
        BY <3>1, <3>3, PhaseAt, PhaseValues DEF HeldBy, Terminal
      <3>4b. LedgerPhase' = [LedgerPhase EXCEPT ![i] = "closed"]
        BY <3>1, <3>2, <3>4, PhaseStep DEF Unlease
      <3>5. LedgerLapsed' = LedgerLapsed \ {i}
        BY <3>1, <3>2, <3>3, UnleaseLapsed
      <3>6. Ledger!Close(i, w)
        BY <3>1, <3>2, <3>4, <3>4b, <3>5 DEF Ledger!Close, Unlease, HeldBy
      <3>7. QED
        BY <3>1, <3>6 DEF Ledger!Next
    <2>6. ASSUME NEW p \in users, p \in Processes, Release(p)
          PROVE  Ledger!Next
      <3> DEFINE i == op[p].item
                 w == op[p].worker
      <3>1. i \in Items /\ w \in Workers /\ HeldBy(i, w)
        BY <2>6, CallShape DEF Release, HeldCalls, ChecksStillHold
      <3>2. Unlease(i, "pending") /\ UNCHANGED clock /\ UNCHANGED result
        BY <2>6 DEF Release
      <3> HIDE DEF i, w
      <3>3. LedgerPhase[i] = "held"
        BY <3>1, PhaseAt DEF HeldBy
      <3>3b. LedgerPhase' = [LedgerPhase EXCEPT ![i] = "free"]
        BY <3>1, <3>2, PhaseStep, PhaseValues DEF Unlease
      <3>4. LedgerLapsed' = LedgerLapsed \ {i}
        BY <3>1, <3>2, UnleaseLapsed DEF Statuses
      <3>5. Ledger!Return(i, w)
        BY <3>1, <3>2, <3>3, <3>3b, <3>4 DEF Ledger!Return, Unlease, HeldBy
      <3>6. QED
        BY <3>1, <3>5 DEF Ledger!Next
    <2>7. ASSUME NEW p \in users, p \in Processes, Cancel(p)
          PROVE  Ledger!Next
      <3> DEFINE i == op[p].item
      <3>1. i \in Items /\ NotTerminal(i)
        BY <2>7, CallShape DEF Cancel, ChecksStillHold
      <3>2. Unlease(i, "cancelled") /\ UNCHANGED clock /\ UNCHANGED result
        BY <2>7 DEF Cancel
      <3> HIDE DEF i
      <3>3. LedgerPhase[i] \in {"free", "held"}
        BY <3>1, PhaseAt DEF NotTerminal
      <3>4. LedgerPhase' = [LedgerPhase EXCEPT ![i] = "closed"]
        BY <3>1, <3>2, PhaseStep, PhaseValues, ZenonT(30) DEF Unlease
      <3>5. LedgerLapsed' = LedgerLapsed \ {i}
        BY <3>1, <3>2, UnleaseLapsed DEF Statuses, Terminal
      <3>6. Ledger!Withdraw(i)
        BY <3>2, <3>3, <3>4, <3>5 DEF Ledger!Withdraw, Unlease
      <3>7. QED
        BY <3>1, <3>6 DEF Ledger!Next
    <2>8. ASSUME UNCHANGED <<clock, rowVars>>
          PROVE  UNCHANGED Ledger!ledgerVars
      BY <2>8 DEF rowVars, LedgerPhase, LedgerLapsed
    <2>9. QED
      BY <2>1, <2>2, <2>3, <2>4, <2>5, <2>6, <2>7, <2>8
         DEF Next, Call, TypeOK, vars, rowVars, BeginHeld, BeginCancel, Crash
  <1>3. QED
    BY <1>1, <1>2, TypeCorrect, ChecksHold, PTL
       DEF Spec, ImplementsLedger, Ledger!Spec

\* In particular, a queue used by one process is a ledger.
THEOREM AloneQueueIsLedger == Spec /\ Alone => Ledger!Spec
  <1>1. Alone /\ [Next]_vars => Alone'
    BY DEF Alone, Next, vars
  <1>2. Alone /\ [Alone => Ledger!Next]_(Ledger!ledgerVars)
        => [Ledger!Next]_(Ledger!ledgerVars)
    OBVIOUS
  <1>3. QED
    BY <1>1, <1>2, QueueImplementsLedger, PTL DEF Spec, ImplementsLedger, Ledger!Spec
=============================================================================
