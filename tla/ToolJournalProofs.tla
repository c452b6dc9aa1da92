-------------------------- MODULE ToolJournalProofs --------------------------
(***************************************************************************)
(* Proofs about the tool journal, for every number of scopes, processes,   *)
(* calls and retries: what its primary key guarantees to any number of     *)
(* processes, and what it guarantees when leases keep a scope to one.      *)
(***************************************************************************)
EXTENDS ToolJournal, TLAPS

Active == {"lookup", "begin", "insert", "run", "check", "write"}

\* A process inside execute has a turn, a key of it and a call.
InTurn ==
    \A p \in Processes :
        at[p] \in Active => /\ scope[p] \in Scopes
                            /\ index[p] \in 1..MaxCalls
                            /\ call[p] \in Calls

\* What the row of a key says about the effects under it.
RowTells ==
    \A k \in Keys :
        /\ status[k] = "absent" => stored[k] = None /\ \A c \in Calls : effects[k][c] = 0
        /\ status[k] # "absent" => bound[k] \in Calls

\* A process allowed to run its tool has a row that binds its call, and one
\* past the tool has run it.
Knows(p) ==
    /\ at[p] \in {"run", "check", "write"} =>
          status[KeyOf(p)] # "absent" /\ bound[KeyOf(p)] = call[p]
    /\ at[p] \in {"check", "write"} =>
          effects[KeyOf(p)][call[p]] > 0 /\ outcome[p] \in Outcomes

RunIsBound == \A p \in Processes : Knows(p)

RowFacts == RowTells /\ KeyBindsOneCall /\ CompletedMeansRan

-----------------------------------------------------------------------------
\* The key of a process inside execute is one of the journal's.
LEMMA KeyInRange ==
    ASSUME InTurn, NEW p \in Processes, at[p] \in Active
    PROVE  KeyOf(p) \in Keys /\ call[p] \in Calls /\ call[p] # None
  BY JournalAssumption DEF InTurn, KeyOf, Keys, Indices

\* Types and turns, one action at a time.
LEMMA TypesAndTurns == Spec => [](TypeOK /\ InTurn)
  <1>1. Init => TypeOK /\ InTurn
    BY JournalAssumption DEF Init, TypeOK, InTurn, Steps, Active, Indices, Keys
  <1>2. TypeOK /\ InTurn /\ [Next]_vars => (TypeOK /\ InTurn)'
    <2> SUFFICES ASSUME TypeOK, InTurn, [Next]_vars, exclusive' = exclusive
                 PROVE  TypeOK' /\ InTurn'
      BY DEF Next, vars
    <2> USE JournalAssumption
    <2>1. CASE UNCHANGED vars
      BY <2>1 DEF vars, TypeOK, InTurn
    <2>3. ASSUME NEW p \in Processes, Abandon(p), UNCHANGED effects,
                 status' \in [Keys -> {"absent", "started", "completed"}],
                 bound' \in [Keys -> Calls \cup {None}],
                 stored' \in [Keys -> Outcomes \cup {None}]
          PROVE  TypeOK' /\ InTurn'
      BY <2>3 DEF Abandon, TypeOK, InTurn, Steps, Active
    <2>4. ASSUME NEW p \in Processes, Return(p), UNCHANGED effects,
                 status' \in [Keys -> {"absent", "started", "completed"}],
                 bound' \in [Keys -> Calls \cup {None}],
                 stored' \in [Keys -> Outcomes \cup {None}]
          PROVE  TypeOK' /\ InTurn'
      BY <2>4 DEF Return, TypeOK, InTurn, Steps, Active, turnVars
    <2>5. ASSUME NEW p \in Processes, at[p] \in Active, NEW step \in Active, Goto(p, step),
                 UNCHANGED effects,
                 status' \in [Keys -> {"absent", "started", "completed"}],
                 bound' \in [Keys -> Calls \cup {None}],
                 stored' \in [Keys -> Outcomes \cup {None}]
          PROVE  TypeOK' /\ InTurn'
      BY <2>5 DEF Goto, TypeOK, InTurn, Steps, Active
    <2>6. ASSUME NEW p \in Processes, NEW s \in Scopes, BeginTurn(p, s)
          PROVE  TypeOK' /\ InTurn'
      BY <2>6 DEF BeginTurn, TypeOK, InTurn, rowVars
    <2>7. ASSUME NEW p \in Processes, NEW c \in Calls, TakeKey(p, c)
          PROVE  TypeOK' /\ InTurn'
      BY <2>7 DEF TakeKey, TypeOK, InTurn, Steps, Active, rowVars
    <2>8. ASSUME NEW p \in Processes, Lookup(p)
          PROVE  TypeOK' /\ InTurn'
      BY <2>3, <2>4, <2>5, <2>8 DEF Lookup, TypeOK, Active, rowVars
    <2>9. ASSUME NEW p \in Processes, Begin(p)
          PROVE  TypeOK' /\ InTurn'
      BY <2>3, <2>5, <2>9 DEF Begin, TypeOK, Active, rowVars
    <2>10. ASSUME NEW p \in Processes, Insert(p)
           PROVE  TypeOK' /\ InTurn'
      <3>1. at[p] \in Active /\ call[p] \in Calls
        BY <2>10 DEF Insert, Active, InTurn
      <3>2. /\ status' \in [Keys -> {"absent", "started", "completed"}]
            /\ bound' \in [Keys -> Calls \cup {None}]
            /\ stored' \in [Keys -> Outcomes \cup {None}]
        BY <2>10, <3>1 DEF Insert, TypeOK
      <3> QED
        BY <2>3, <2>5, <2>10, <3>1, <3>2 DEF Insert, Active
    <2>11. ASSUME NEW p \in Processes, Run(p)
           PROVE  TypeOK' /\ InTurn'
      <3>1. at[p] \in Active
        BY <2>11 DEF Run, Active
      <3>2. KeyOf(p) \in Keys /\ call[p] \in Calls
        BY <3>1, KeyInRange
      <3>3. effects' \in [Keys -> [Calls -> Nat]]
        BY <2>11, <3>2 DEF Run, TypeOK
      <3> QED
        BY <2>11, <3>1, <3>3 DEF Run, TypeOK, InTurn, Steps, Active, rowVars, turnVars
    <2>12. ASSUME NEW p \in Processes, CompleteCheck(p)
           PROVE  TypeOK' /\ InTurn'
      BY <2>3, <2>5, <2>12 DEF CompleteCheck, TypeOK, Active, rowVars
    <2>13. ASSUME NEW p \in Processes, CompleteWrite(p)
           PROVE  TypeOK' /\ InTurn'
      <3>1. /\ status' \in [Keys -> {"absent", "started", "completed"}]
            /\ bound' \in [Keys -> Calls \cup {None}]
            /\ stored' \in [Keys -> Outcomes \cup {None}]
        BY <2>13 DEF CompleteWrite, TypeOK
      <3> QED
        BY <2>4, <2>13, <3>1 DEF CompleteWrite
    <2>14. ASSUME NEW p \in Processes, EndTurn(p)
           PROVE  TypeOK' /\ InTurn'
      BY <2>3, <2>14 DEF EndTurn, TypeOK, rowVars
    <2> QED
      BY <2>1, <2>6, <2>7, <2>8, <2>9, <2>10, <2>11, <2>12, <2>13, <2>14
         DEF Next, Step
  <1> QED
    BY <1>1, <1>2, PTL DEF Spec

\* Types: every column, counter and position keeps its range.
THEOREM TypeCorrect == Spec => []TypeOK
  BY TypesAndTurns, PTL

\* Rows are never removed nor bound again, and effects are never taken back.
RowsGrow ==
    \A k \in Keys :
        /\ status[k] # "absent" => status'[k] # "absent" /\ bound'[k] = bound[k]
        /\ \A c \in Calls : effects'[k][c] >= effects[k][c]

LEMMA RowsOnlyGrow ==
    ASSUME TypeOK, InTurn, [Next]_vars
    PROVE  RowsGrow
  <1>1. CASE UNCHANGED vars
    BY <1>1 DEF vars, TypeOK, RowsGrow
  <1>2. ASSUME NEW p \in Processes, Insert(p)
        PROVE  RowsGrow
    BY <1>2 DEF Insert, TypeOK, RowsGrow
  <1>3. ASSUME NEW p \in Processes, Run(p)
        PROVE  RowsGrow
    <2>1. KeyOf(p) \in Keys /\ call[p] \in Calls
      BY <1>3, KeyInRange DEF Run, Active
    <2>2. \A k \in Keys, c \in Calls : effects'[k][c] >= effects[k][c]
      BY <1>3, <2>1 DEF Run, TypeOK
    <2> QED
      BY <1>3, <2>2 DEF Run, RowsGrow, rowVars
  <1>4. ASSUME NEW p \in Processes, CompleteWrite(p)
        PROVE  RowsGrow
    BY <1>4 DEF CompleteWrite, TypeOK, RowsGrow
  <1>5. ASSUME UNCHANGED <<rowVars, effects>>
        PROVE  RowsGrow
    BY <1>5 DEF rowVars, TypeOK, RowsGrow
  <1> QED
    BY <1>1, <1>2, <1>3, <1>4, <1>5
       DEF Next, Step, BeginTurn, TakeKey, Lookup, Begin, CompleteCheck, EndTurn

\* What a process not taking the step knows stays true.
Stays(p) ==
    /\ at'[p] = at[p] /\ scope'[p] = scope[p] /\ index'[p] = index[p]
    /\ call'[p] = call[p] /\ outcome'[p] = outcome[p]

LEMMA KnowledgeStays ==
    ASSUME TypeOK, TypeOK', InTurn, RowsGrow, NEW p \in Processes, Stays(p), Knows(p)
    PROVE  Knows(p)'
  <1>1. KeyOf(p)' = KeyOf(p)
    BY DEF Stays, KeyOf
  <1>2. CASE at[p] \in {"run", "check", "write"}
    <2>1. KeyOf(p) \in Keys /\ call[p] \in Calls
      BY <1>2, KeyInRange DEF Active
    <2>2. /\ effects[KeyOf(p)][call[p]] \in Nat
          /\ effects'[KeyOf(p)][call[p]] \in Nat
      BY <2>1 DEF TypeOK
    <2> QED
      BY <1>1, <1>2, <2>1, <2>2 DEF Stays, Knows, RowsGrow
  <1>3. CASE at[p] \notin {"run", "check", "write"}
    BY <1>3 DEF Stays, Knows
  <1> QED
    BY <1>2, <1>3

LEMMA OthersStay ==
    ASSUME TypeOK, NEW p \in Processes, NEW q \in Processes \ {p},
           Step(p)
    PROVE  Stays(q)
  <1>1. (Return(p) \/ Abandon(p) \/ \E step \in Steps : Goto(p, step)) => Stays(q)
    BY DEF Return, Abandon, Goto, Stays, TypeOK, turnVars
  <1>2. "begin" \in Steps /\ "insert" \in Steps /\ "run" \in Steps /\ "write" \in Steps
    BY DEF Steps
  <1> QED
    BY <1>1, <1>2 DEF Step, BeginTurn, TakeKey, Lookup, Begin, Insert, Run, CompleteCheck,
       CompleteWrite, EndTurn, Stays, TypeOK, turnVars

\* The process that moves knows what its new position needs.
LEMMA MoverKnows ==
    ASSUME TypeOK, InTurn, RowFacts, NEW p \in Processes, Knows(p),
           Step(p)
    PROVE  Knows(p)'
  <1>1. Return(p) \/ Abandon(p) => Knows(p)'
    BY DEF Return, Abandon, TypeOK, Knows
  <1>2. ASSUME NEW step \in Steps, Goto(p, step)
        PROVE  /\ at'[p] = step /\ KeyOf(p)' = KeyOf(p)
               /\ call'[p] = call[p] /\ outcome'[p] = outcome[p]
    BY <1>2 DEF Goto, KeyOf, TypeOK
  <1>3. {"begin", "insert", "run", "write"} \subseteq Steps
    BY DEF Steps
  <1>4. ASSUME NEW s \in Scopes, BeginTurn(p, s)
        PROVE  Knows(p)'
    <2>1. CASE at[p] \in Active
      BY <1>4, <2>1, JournalAssumption DEF BeginTurn, InTurn
    <2>2. CASE at[p] \notin Active
      BY <1>4, <2>2 DEF BeginTurn, Knows, Active
    <2> QED
      BY <2>1, <2>2
  <1>5. ASSUME NEW c \in Calls, TakeKey(p, c)
        PROVE  Knows(p)'
    BY <1>5 DEF TakeKey, Knows, TypeOK
  <1>6. CASE Lookup(p)
    BY <1>1, <1>2, <1>3, <1>6 DEF Lookup, Knows, Matches, rowVars
  <1>7. CASE Begin(p)
    BY <1>1, <1>2, <1>3, <1>7 DEF Begin, Knows, Matches, rowVars
  <1>8. CASE Insert(p)
    <2>1. KeyOf(p) \in Keys
      BY <1>8, KeyInRange DEF Insert, Active
    <2> QED
      BY <1>1, <1>2, <1>3, <1>8, <2>1 DEF Insert, Knows, TypeOK
  <1>9. CASE Run(p)
    <2>1. KeyOf(p) \in Keys /\ call[p] \in Calls
      BY <1>9, KeyInRange DEF Run, Active
    <2>2. KeyOf(p)' = KeyOf(p) /\ call'[p] = call[p] /\ outcome'[p] \in Outcomes
      BY <1>9 DEF Run, KeyOf, turnVars, TypeOK
    <2>3. effects'[KeyOf(p)][call[p]] > 0
      BY <1>9, <2>1 DEF Run, TypeOK
    <2> QED
      BY <1>9, <2>2, <2>3 DEF Run, Knows, rowVars
  <1>10. CASE CompleteCheck(p)
    BY <1>1, <1>2, <1>3, <1>10 DEF CompleteCheck, Knows, rowVars
  <1>11. CASE CompleteWrite(p)
    BY <1>1, <1>11 DEF CompleteWrite
  <1>12. CASE EndTurn(p)
    BY <1>1, <1>12 DEF EndTurn
  <1> QED
    BY <1>4, <1>5, <1>6, <1>7, <1>8, <1>9, <1>10, <1>11, <1>12
       DEF Step

\* The rows keep telling the truth about the effects.
LEMMA RowFactsStay ==
    ASSUME TypeOK, TypeOK', InTurn, RunIsBound, RowFacts, [Next]_vars
    PROVE  RowFacts'
  <1> USE JournalAssumption
  <1>1. CASE UNCHANGED vars
    BY <1>1 DEF vars, RowFacts, RowTells, KeyBindsOneCall, CompletedMeansRan
  <1>2. ASSUME NEW p \in Processes, Insert(p)
        PROVE  RowFacts'
    <2>1. KeyOf(p) \in Keys /\ call[p] \in Calls
      BY <1>2, KeyInRange DEF Insert, Active
    <2>2. RowTells'
      BY <1>2, <2>1 DEF Insert, RowFacts, RowTells, TypeOK
    <2>3. KeyBindsOneCall'
      BY <1>2, <2>1 DEF Insert, RowFacts, RowTells, KeyBindsOneCall, TypeOK
    <2>4. CompletedMeansRan'
      BY <1>2, <2>1 DEF Insert, RowFacts, CompletedMeansRan, TypeOK
    <2> QED
      BY <2>2, <2>3, <2>4 DEF RowFacts
  <1>3. ASSUME NEW p \in Processes, Run(p)
        PROVE  RowFacts'
    <2>1. KeyOf(p) \in Keys /\ call[p] \in Calls
      BY <1>3, KeyInRange DEF Run, Active
    <2>2. status[KeyOf(p)] # "absent" /\ bound[KeyOf(p)] = call[p]
      BY <1>3 DEF Run, RunIsBound, Knows
    <2>3. \A k \in Keys, c \in Calls :
             (k # KeyOf(p) \/ c # call[p]) => effects'[k][c] = effects[k][c]
      BY <1>3, <2>1 DEF Run, TypeOK
    <2>4. effects'[KeyOf(p)][call[p]] > 0
      BY <1>3, <2>1 DEF Run, TypeOK
    <2>5. UNCHANGED rowVars
      BY <1>3 DEF Run
    <2>6. RowTells'
      BY <2>2, <2>3, <2>5 DEF RowFacts, RowTells, rowVars
    <2>7. KeyBindsOneCall'
      BY <2>2, <2>3, <2>5 DEF RowFacts, KeyBindsOneCall, rowVars
    <2>8. CompletedMeansRan'
      BY <2>1, <2>3, <2>4, <2>5 DEF RowFacts, CompletedMeansRan, rowVars
    <2> QED
      BY <2>6, <2>7, <2>8 DEF RowFacts
  <1>4. ASSUME NEW p \in Processes, CompleteWrite(p)
        PROVE  RowFacts'
    <2>1. KeyOf(p) \in Keys /\ call[p] \in Calls
      BY <1>4, KeyInRange DEF CompleteWrite, Active
    <2>2. /\ status[KeyOf(p)] # "absent" /\ bound[KeyOf(p)] = call[p]
          /\ effects[KeyOf(p)][call[p]] > 0 /\ outcome[p] \in Outcomes
      BY <1>4 DEF CompleteWrite, RunIsBound, Knows
    <2>3. RowTells'
      BY <1>4, <2>1, <2>2 DEF CompleteWrite, RowFacts, RowTells, TypeOK
    <2>4. KeyBindsOneCall'
      BY <1>4 DEF CompleteWrite, RowFacts, KeyBindsOneCall
    <2>5. CompletedMeansRan'
      BY <1>4, <2>1, <2>2 DEF CompleteWrite, RowFacts, CompletedMeansRan, TypeOK
    <2> QED
      BY <2>3, <2>4, <2>5 DEF RowFacts
  <1>5. ASSUME UNCHANGED <<rowVars, effects>>
        PROVE  RowFacts'
    BY <1>5 DEF rowVars, RowFacts, RowTells, KeyBindsOneCall, CompletedMeansRan
  <1> QED
    BY <1>1, <1>2, <1>3, <1>4, <1>5
       DEF Next, Step, BeginTurn, TakeKey, Lookup, Begin, CompleteCheck, EndTurn

\* The inductive invariant for any number of processes sharing the journal.
LEMMA RowsAndRunners == Spec => [](RunIsBound /\ RowFacts)
  <1>1. Init => RunIsBound /\ RowFacts
    BY JournalAssumption DEF Init, RunIsBound, Knows, RowFacts, RowTells,
       KeyBindsOneCall, CompletedMeansRan
  <1>2. /\ TypeOK /\ TypeOK' /\ InTurn
        /\ RunIsBound /\ RowFacts /\ [Next]_vars
        => (RunIsBound /\ RowFacts)'
    <2> SUFFICES ASSUME TypeOK, TypeOK', InTurn, RunIsBound, RowFacts, [Next]_vars
                 PROVE  RunIsBound'
      BY RowFactsStay
    <2>1. CASE UNCHANGED vars
      BY <2>1 DEF vars, RunIsBound, Knows, KeyOf
    <2>2. CASE Next
      <3>1. PICK p \in Processes : Step(p)
        BY <2>2 DEF Next
      <3>2. Knows(p)'
        BY <3>1, MoverKnows DEF RunIsBound
      <3>3. ASSUME NEW q \in Processes \ {p}
            PROVE  Knows(q)'
        BY <3>1, OthersStay, RowsOnlyGrow, KnowledgeStays DEF RunIsBound
      <3> QED
        BY <3>2, <3>3 DEF RunIsBound
    <2> QED
      BY <2>1, <2>2
  <1> QED
    BY <1>1, <1>2, TypesAndTurns, PTL DEF Spec

\* Whatever a rerun model asks for and however many processes share the
\* journal, one key is bound to one side effect.
THEOREM OneKeyOneCall == Spec => []KeyBindsOneCall
  BY RowsAndRunners, PTL DEF RowFacts

\* A result is stored exactly for the completed rows, and only of calls that ran.
THEOREM ResultsWereProduced == Spec => []CompletedMeansRan
  BY RowsAndRunners, PTL DEF RowFacts

-----------------------------------------------------------------------------
\* With a scope kept to one process at a time.

\* No two processes are in turns over the same work item.
Leased == \A p, q \in Processes : p # q => scope[p] = None \/ scope[p] # scope[q]

\* What the process saw of its key's row is still so when it acts on it.
SeesItsRow(p) ==
    /\ at[p] \in {"begin", "insert"} => status[KeyOf(p)] = "absent"
    /\ at[p] \in {"run", "check", "write"} => status[KeyOf(p)] = "started"
    /\ at[p] = "run" /\ call[p] \notin Retryable => effects[KeyOf(p)][call[p]] = 0

Alone == exclusive => Leased /\ (\A p \in Processes : SeesItsRow(p)) /\ EffectOnce

\* A process inside execute is the only one with its key.
LEMMA KeysAreApart ==
    ASSUME InTurn, Leased, NEW p \in Processes, NEW q \in Processes, p # q,
           at[p] \in Active, at[q] \in Active
    PROVE  KeyOf(p) # KeyOf(q)
  BY JournalAssumption DEF InTurn, Leased, KeyOf

LEMMA LeasesStay ==
    ASSUME exclusive, TypeOK, Leased, [Next]_vars
    PROVE  Leased'
  <1>1. CASE UNCHANGED vars
    BY <1>1 DEF vars, Leased
  <1>2. ASSUME NEW p \in Processes, NEW s \in Scopes, BeginTurn(p, s)
        PROVE  Leased'
    BY <1>2, JournalAssumption DEF BeginTurn, Leased, TypeOK
  <1>3. ASSUME NEW p \in Processes, UNCHANGED scope \/ Abandon(p)
        PROVE  Leased'
    BY <1>3, JournalAssumption DEF Abandon, Leased, TypeOK
  <1> QED
    BY <1>1, <1>2, <1>3 DEF Next, Step, TakeKey, Lookup, Begin, Insert, Run, CompleteCheck,
       CompleteWrite, EndTurn, Return, Goto, turnVars

\* A step leaves the rows and the effects of the other keys alone.
LEMMA OneKeyChanges ==
    ASSUME TypeOK, InTurn, NEW p \in Processes,
           Step(p)
    PROVE  \A k \in Keys : (at[p] \notin Active \/ k # KeyOf(p)) =>
               status'[k] = status[k] /\ effects'[k] = effects[k]
  BY KeyInRange DEF Step, BeginTurn, TakeKey, Lookup, Begin, Insert, Run, CompleteCheck,
     CompleteWrite, EndTurn, TypeOK, rowVars, Active

LEMMA MoverSees ==
    ASSUME TypeOK, InTurn, RowFacts, RunIsBound, EffectOnce, NEW p \in Processes, SeesItsRow(p),
           Step(p)
    PROVE  SeesItsRow(p)'
  <1>1. Return(p) \/ Abandon(p) => SeesItsRow(p)'
    BY DEF Return, Abandon, TypeOK, SeesItsRow
  <1>2. ASSUME NEW step \in Steps, Goto(p, step)
        PROVE  at'[p] = step /\ KeyOf(p)' = KeyOf(p) /\ call'[p] = call[p]
    BY <1>2 DEF Goto, KeyOf, TypeOK
  <1>3. {"begin", "insert", "run", "write"} \subseteq Steps
    BY DEF Steps
  <1>4. ASSUME NEW s \in Scopes, BeginTurn(p, s)
        PROVE  SeesItsRow(p)'
    <2>1. at[p] \notin Active
      BY <1>4, JournalAssumption DEF BeginTurn, InTurn
    <2> QED
      BY <1>4, <2>1 DEF BeginTurn, SeesItsRow, Active
  <1>5. ASSUME NEW c \in Calls, TakeKey(p, c)
        PROVE  SeesItsRow(p)'
    BY <1>5 DEF TakeKey, SeesItsRow, TypeOK
  <1>6. CASE Lookup(p)
    BY <1>1, <1>2, <1>3, <1>6 DEF Lookup, SeesItsRow, MayRetry, rowVars
  <1>7. CASE Begin(p)
    BY <1>1, <1>2, <1>3, <1>7 DEF Begin, SeesItsRow, rowVars
  <1>8. CASE Insert(p)
    <2>1. KeyOf(p) \in Keys /\ call[p] \in Calls
      BY <1>8, KeyInRange DEF Insert, Active
    <2>2. status[KeyOf(p)] = "absent" /\ effects[KeyOf(p)][call[p]] = 0
      BY <1>8, <2>1 DEF Insert, SeesItsRow, RowFacts, RowTells
    <2> QED
      BY <1>2, <1>3, <1>8, <2>1, <2>2 DEF Insert, SeesItsRow, TypeOK
  <1>9. CASE Run(p)
    <2>1. KeyOf(p)' = KeyOf(p) /\ at'[p] = "check"
      BY <1>9 DEF Run, KeyOf, turnVars, TypeOK
    <2> QED
      BY <1>9, <2>1 DEF Run, SeesItsRow, rowVars
  <1>10. CASE CompleteCheck(p)
    BY <1>1, <1>2, <1>3, <1>10 DEF CompleteCheck, SeesItsRow, rowVars
  <1>11. CASE CompleteWrite(p)
    BY <1>1, <1>11 DEF CompleteWrite
  <1>12. CASE EndTurn(p)
    BY <1>1, <1>12 DEF EndTurn
  <1> QED
    BY <1>4, <1>5, <1>6, <1>7, <1>8, <1>9, <1>10, <1>11, <1>12
       DEF Step

LEMMA EffectStaysOnce ==
    ASSUME exclusive, TypeOK, InTurn, \A p \in Processes : SeesItsRow(p), EffectOnce, [Next]_vars
    PROVE  EffectOnce'
  <1>1. ASSUME NEW p \in Processes, Run(p)
        PROVE  EffectOnce'
    <2>1. KeyOf(p) \in Keys /\ call[p] \in Calls
      BY <1>1, KeyInRange DEF Run, Active
    <2>2. call[p] \notin Retryable => effects[KeyOf(p)][call[p]] = 0
      BY <1>1 DEF Run, SeesItsRow
    <2>3. \A k \in Keys, c \in Calls :
             effects'[k][c] = IF k = KeyOf(p) /\ c = call[p] THEN effects[k][c] + 1
                                                           ELSE effects[k][c]
      BY <1>1, <2>1 DEF Run, TypeOK
    <2> QED
      BY <2>1, <2>2, <2>3 DEF EffectOnce
  <1>2. ASSUME UNCHANGED effects
        PROVE  EffectOnce'
    BY <1>2 DEF EffectOnce
  <1> QED
    BY <1>1, <1>2 DEF Next, Step, vars, BeginTurn, TakeKey, Lookup, Begin, Insert, CompleteCheck,
       CompleteWrite, EndTurn

\* The inductive invariant of exclusive use.
LEMMA ActsAlone == Spec => []Alone
  <1>1. Init => Alone
    BY DEF Init, Alone, Leased, SeesItsRow, EffectOnce
  <1>2. /\ TypeOK /\ InTurn /\ RunIsBound /\ RowFacts
        /\ Alone /\ [Next]_vars
        => Alone'
    <2> SUFFICES ASSUME TypeOK, InTurn, RunIsBound, RowFacts, Alone, [Next]_vars, exclusive'
                 PROVE  Leased' /\ (\A p \in Processes : SeesItsRow(p)') /\ EffectOnce'
      BY DEF Alone
    <2>0. exclusive /\ Leased /\ (\A p \in Processes : SeesItsRow(p)) /\ EffectOnce
      BY DEF Next, vars, Alone
    <2>4. Leased' /\ EffectOnce'
      BY <2>0, LeasesStay, EffectStaysOnce
    <2>1. CASE UNCHANGED vars
      BY <2>0, <2>1, <2>4 DEF vars, SeesItsRow, KeyOf
    <2>2. CASE Next
      <3>1. PICK p \in Processes : Step(p)
        BY <2>2 DEF Next
      <3>2. SeesItsRow(p)'
        BY <2>0, <3>1, MoverSees
      <3>3. ASSUME NEW q \in Processes \ {p}
            PROVE  SeesItsRow(q)'
        <4>1. Stays(q) /\ KeyOf(q)' = KeyOf(q)
          BY <3>1, OthersStay DEF Stays, KeyOf
        <4>2. CASE at[q] \in Active
          <5>1. KeyOf(q) \in Keys /\ (at[p] \notin Active \/ KeyOf(q) # KeyOf(p))
            BY <2>0, <4>2, KeyInRange, KeysAreApart
          <5>2. /\ status'[KeyOf(q)] = status[KeyOf(q)]
                /\ effects'[KeyOf(q)] = effects[KeyOf(q)]
            BY <3>1, <5>1, OneKeyChanges
          <5> QED
            BY <2>0, <4>1, <5>2 DEF Stays, SeesItsRow
        <4>3. CASE at[q] \notin Active
          BY <4>1, <4>3 DEF Stays, SeesItsRow, Active
        <4> QED
          BY <4>2, <4>3
      <3> QED
        BY <2>4, <3>2, <3>3
    <2> QED
      BY <2>1, <2>2
  <1> QED
    BY <1>1, <1>2, TypesAndTurns, RowsAndRunners, PTL DEF Spec

\* A call that may not be repeated is executed at most once under its key,
\* through any number of crashes and reruns.
THEOREM EffectsAreNotRepeated == Spec => []EffectOnce
  <1>1. Alone => EffectOnce
    BY DEF Alone, EffectOnce
  <1> QED
    BY <1>1, ActsAlone, PTL

\* A completed call is replayed, never executed again.
THEOREM CompletedCallsAreReplayed == Spec => LeasedCallsAreReplayed
  <1>1. /\ TypeOK /\ InTurn /\ Alone /\ [Next]_vars
        => (exclusive => NothingRunsCompleted)
    <2> SUFFICES ASSUME TypeOK, InTurn, Alone, exclusive, [Next]_vars,
                        NEW k \in Keys, NEW c \in Calls, status[k] = "completed"
                 PROVE  effects'[k][c] = effects[k][c]
      BY DEF NothingRunsCompleted
    <2>1. ASSUME NEW p \in Processes, Run(p)
          PROVE  effects'[k][c] = effects[k][c]
      <3>1. KeyOf(p) # k
        BY <2>1 DEF Run, Alone, SeesItsRow
      <3> QED
        BY <2>1, <3>1 DEF Run, TypeOK
    <2>2. CASE UNCHANGED effects
      BY <2>2
    <2> QED
      BY <2>1, <2>2 DEF Next, Step, vars, BeginTurn, TakeKey, Lookup, Begin, Insert,
         CompleteCheck, CompleteWrite, EndTurn
  <1> QED
    BY <1>1, TypesAndTurns, ActsAlone, PTL DEF Spec, LeasedCallsAreReplayed

\* The result replayed for a key never changes.
THEOREM StoredResultsAreFinal == Spec => ResultIsFinal
  <1>1. /\ TypeOK /\ InTurn /\ CompletedMeansRan /\ Alone /\ [Next]_vars
        => \A k \in Keys : (exclusive /\ stored[k] # None) => stored'[k] = stored[k]
    <2> SUFFICES ASSUME TypeOK, InTurn, CompletedMeansRan, Alone, exclusive, [Next]_vars,
                        NEW k \in Keys, stored[k] # None
                 PROVE  stored'[k] = stored[k]
      OBVIOUS
    <2>1. ASSUME NEW p \in Processes, CompleteWrite(p)
          PROVE  stored'[k] = stored[k]
      <3>1. KeyOf(p) # k
        BY <2>1 DEF CompleteWrite, Alone, SeesItsRow, CompletedMeansRan
      <3> QED
        BY <2>1, <3>1 DEF CompleteWrite, TypeOK
    <2>2. CASE UNCHANGED stored
      BY <2>2
    <2> QED
      BY <2>1, <2>2 DEF Next, Step, vars, BeginTurn, TakeKey, Lookup, Begin, Insert, Run,
         CompleteCheck, EndTurn, rowVars
  <1> QED
    BY <1>1, TypesAndTurns, RowsAndRunners, ActsAlone, PTL
       DEF Spec, ResultIsFinal, RowFacts
=============================================================================
