---------------------------- MODULE ToolJournal ----------------------------
(***************************************************************************)
(* tool_journal.py: the tool calls of a turn, keyed by the turn's work     *)
(* item and the number of the call, pass through a SQLite journal that     *)
(* decides whether the tool runs, its stored result is replayed, or the    *)
(* call is refused as in doubt.  Each process has its own connection, so   *)
(* each SQL statement is a step; a process may die between two of them.    *)
(*                                                                         *)
(* A call (tool name and arguments) is one value: _validate_match compares *)
(* both parts and a hash stands for its preimage.  The model may ask for   *)
(* any call at any index, also when a turn is run again.                   *)
(***************************************************************************)
EXTENDS Naturals

CONSTANTS
    Scopes,      \* the work item ids that scope the keys
    MaxCalls,    \* bound on the tool calls of a turn
    Processes,
    Calls,       \* tool name and arguments
    Retryable,   \* calls of retryable_in_doubt_tools
    Outcomes,    \* the results of tools
    MaxEffects,  \* bound on how often one call is executed under one key
    None

Indices == 0..(MaxCalls - 1)
Keys == Scopes \X Indices

ASSUME JournalAssumption ==
    /\ MaxCalls \in Nat
    /\ MaxEffects \in Nat
    /\ Retryable \subseteq Calls
    /\ None \notin Scopes /\ None \notin Calls /\ None \notin Outcomes

VARIABLES
    exclusive, \* whether leases keep a scope to one process; never changes
    status,    \* column status of a key; "absent" when there is no row
    bound,     \* columns tool_name and arguments_hash
    stored,    \* columns result_ok, result_output, result_metadata_json
    effects,   \* how often the tool was executed for a key and a call
    at,        \* where each process is in JournaledToolExecutor.execute
    scope,     \* TurnScopedJournaledTools.scope, None outside a turn
    index,     \* TurnScopedJournaledTools.call_index
    call,      \* the call being executed
    outcome    \* what the tool returned to the process

rowVars == <<status, bound, stored>>
turnVars == <<scope, index>>
vars == <<exclusive, status, bound, stored, effects, at, scope, index, call, outcome>>

Steps == {"idle", "lookup", "begin", "insert", "run", "check", "write"}

TypeOK ==
    /\ exclusive \in BOOLEAN
    /\ status \in [Keys -> {"absent", "started", "completed"}]
    /\ bound \in [Keys -> Calls \cup {None}]
    /\ stored \in [Keys -> Outcomes \cup {None}]
    /\ effects \in [Keys -> [Calls -> Nat]]
    /\ at \in [Processes -> Steps]
    /\ scope \in [Processes -> Scopes \cup {None}]
    /\ index \in [Processes -> 0..MaxCalls]
    /\ call \in [Processes -> Calls \cup {None}]
    /\ outcome \in [Processes -> Outcomes \cup {None}]

Init ==
    /\ exclusive \in BOOLEAN
    /\ status = [k \in Keys |-> "absent"]
    /\ bound = [k \in Keys |-> None]
    /\ stored = [k \in Keys |-> None]
    /\ effects = [k \in Keys |-> [c \in Calls |-> 0]]
    /\ at = [p \in Processes |-> "idle"]
    /\ scope = [p \in Processes |-> None]
    /\ index = [p \in Processes |-> 0]
    /\ call = [p \in Processes |-> None]
    /\ outcome = [p \in Processes |-> None]

-----------------------------------------------------------------------------
\* The key of the call in progress: call_index was advanced when it was taken.
KeyOf(p) == <<scope[p], index[p] - 1>>


\* Faulty variants the checks must notice (see the mutants in PROJECT.json):
\* keys that match any call, retries of anything.
MatchesAnything(p) == TRUE
RetryAnything(p) == TRUE

Matches(p) == bound[KeyOf(p)] = call[p]
MayRetry(p) == call[p] \in Retryable

\* execute returns to the harness, which goes on with the turn.
Return(p) ==
    /\ at' = [at EXCEPT ![p] = "idle"]
    /\ call' = [call EXCEPT ![p] = None]
    /\ outcome' = [outcome EXCEPT ![p] = None]
    /\ UNCHANGED turnVars

\* An exception, like a crash or the end of the turn, drops the whole turn.
Abandon(p) ==
    /\ at' = [at EXCEPT ![p] = "idle"]
    /\ call' = [call EXCEPT ![p] = None]
    /\ outcome' = [outcome EXCEPT ![p] = None]
    /\ scope' = [scope EXCEPT ![p] = None]
    /\ index' = [index EXCEPT ![p] = 0]

Goto(p, step) ==
    /\ at' = [at EXCEPT ![p] = step]
    /\ UNCHANGED <<scope, index, call, outcome>>

\* A turn that never claimed the work item, for the mutants.
BeginTurnUnclaimed(p, s) ==
    /\ scope[p] = None
    /\ scope' = [scope EXCEPT ![p] = s]
    /\ UNCHANGED <<rowVars, effects, at, index, call, outcome>>

\* A turn starts over the work item s.
BeginTurn(p, s) ==
    /\ scope[p] = None
    /\ exclusive => \A q \in Processes : scope[q] # s
    /\ scope' = [scope EXCEPT ![p] = s]
    /\ UNCHANGED <<rowVars, effects, at, index, call, outcome>>

\* The turn ends, or its process dies at whatever step it is.
EndTurn(p) ==
    /\ scope[p] # None
    /\ Abandon(p)
    /\ UNCHANGED <<rowVars, effects>>

\* TurnScopedJournaledTools.execute: take the next key for the call c.
TakeKey(p, c) ==
    /\ at[p] = "idle" /\ scope[p] # None /\ index[p] < MaxCalls
    /\ at' = [at EXCEPT ![p] = "lookup"]
    /\ index' = [index EXCEPT ![p] = @ + 1]
    /\ call' = [call EXCEPT ![p] = c]
    /\ UNCHANGED <<rowVars, effects, scope, outcome>>

\* A Lookup that considers the retry before the stored result, for the mutants.
LookupRetryFirst(p) ==
    LET k == KeyOf(p) IN
    /\ at[p] = "lookup"
    /\ \/ status[k] = "absent" /\ Goto(p, "begin")
       \/ status[k] # "absent" /\ ~Matches(p) /\ Abandon(p)
       \/ status[k] # "absent" /\ Matches(p) /\ ~MayRetry(p) /\ Return(p)
       \/ status[k] # "absent" /\ Matches(p) /\ MayRetry(p) /\ Goto(p, "run")
    /\ UNCHANGED <<rowVars, effects>>

\* JournaledToolExecutor.execute reads the row and decides.
Lookup(p) ==
    LET k == KeyOf(p) IN
    /\ at[p] = "lookup"
    /\ \/ status[k] = "absent" /\ Goto(p, "begin")
       \/ status[k] # "absent" /\ ~Matches(p) /\ Abandon(p)
       \/ status[k] = "completed" /\ Matches(p) /\ Return(p)
       \/ status[k] = "started" /\ Matches(p) /\ ~MayRetry(p) /\ Return(p)
       \/ status[k] = "started" /\ Matches(p) /\ MayRetry(p) /\ Goto(p, "run")
    /\ UNCHANGED <<rowVars, effects>>

\* begin reads the row again.  A row that matches is returned, and execute,
\* which ignores what begin returns, goes on to run the tool.
Begin(p) ==
    LET k == KeyOf(p) IN
    /\ at[p] = "begin"
    /\ \/ status[k] = "absent" /\ Goto(p, "insert")
       \/ status[k] # "absent" /\ Matches(p) /\ Goto(p, "run")
       \/ status[k] # "absent" /\ ~Matches(p) /\ Abandon(p)
    /\ UNCHANGED <<rowVars, effects>>

\* An Insert that records the intent as if it were done, for the mutants.
InsertAsCompleted(p) ==
    LET k == KeyOf(p) IN
    /\ at[p] = "insert" /\ status[k] = "absent"
    /\ status' = [status EXCEPT ![k] = "completed"]
    /\ bound' = [bound EXCEPT ![k] = call[p]]
    /\ Goto(p, "run")
    /\ UNCHANGED <<stored, effects>>

\* The INSERT of begin; a row that appeared meanwhile violates the primary key.
Insert(p) ==
    LET k == KeyOf(p) IN
    /\ at[p] = "insert"
    /\ \/ /\ status[k] = "absent"
          /\ status' = [status EXCEPT ![k] = "started"]
          /\ bound' = [bound EXCEPT ![k] = call[p]]
          /\ Goto(p, "run")
       \/ /\ status[k] # "absent"
          /\ Abandon(p)
          /\ UNCHANGED <<status, bound>>
    /\ UNCHANGED <<stored, effects>>

\* The tool runs; ToolRegistry.execute turns its exceptions into results.
Run(p) ==
    LET k == KeyOf(p) IN
    /\ at[p] = "run"
    /\ effects[k][call[p]] < MaxEffects
    /\ effects' = [effects EXCEPT ![k][call[p]] = @ + 1]
    /\ \E o \in Outcomes : outcome' = [outcome EXCEPT ![p] = o]
    /\ at' = [at EXCEPT ![p] = "check"]
    /\ UNCHANGED <<rowVars, turnVars, call>>

\* complete reads the row, and raises unless it is there and not completed.
CompleteCheck(p) ==
    LET k == KeyOf(p) IN
    /\ at[p] = "check"
    /\ \/ status[k] = "started" /\ Goto(p, "write")
       \/ status[k] # "started" /\ Abandon(p)
    /\ UNCHANGED <<rowVars, effects>>

CompleteWrite(p) ==
    LET k == KeyOf(p) IN
    /\ at[p] = "write"
    /\ status' = [status EXCEPT ![k] = "completed"]
    /\ stored' = [stored EXCEPT ![k] = outcome[p]]
    /\ Return(p)
    /\ UNCHANGED <<bound, effects>>

Step(p) ==
    \/ \E s \in Scopes : BeginTurn(p, s)
    \/ \E c \in Calls : TakeKey(p, c)
    \/ Lookup(p) \/ Begin(p) \/ Insert(p) \/ Run(p)
    \/ CompleteCheck(p) \/ CompleteWrite(p) \/ EndTurn(p)

Next == (\E p \in Processes : Step(p)) /\ UNCHANGED exclusive

Spec == Init /\ [][Next]_vars

-----------------------------------------------------------------------------
(* Properties *)

\* One idempotency key is never bound to two side effects: whatever a rerun
\* model asks for at the same index, every tool executed under a key is the
\* call its row names (tool_journal.py:246-249).
KeyBindsOneCall ==
    \A k \in Keys, c \in Calls : effects[k][c] > 0 => bound[k] = c

\* A result is only ever stored for a call that was executed, and a stored
\* result is what the row's status says is there to be replayed.
CompletedMeansRan ==
    \A k \in Keys :
        /\ status[k] = "completed" <=> stored[k] # None
        /\ status[k] = "completed" => \E c \in Calls : effects[k][c] > 0

\* As long as leases keep a scope to one process at a time, a call that is not
\* declared safe to repeat is executed at most once under its key, however
\* often processes die and turns are run again (tool_journal.py:44-46).
EffectOnce ==
    exclusive => \A k \in Keys, c \in Calls \ Retryable : effects[k][c] <= 1

\* Under the same condition, the result a key replays never changes.
ResultIsFinal ==
    [][\A k \in Keys : (exclusive /\ stored[k] # None) => stored'[k] = stored[k]]_vars

\* "COMPLETED + same key/tool/args -> replay stored result, do not execute"
\* (tool_journal.py:44): no call is executed under a completed key.
NothingRunsCompleted ==
    \A k \in Keys, c \in Calls : status[k] = "completed" => effects'[k][c] = effects[k][c]

\* So it is as long as leases keep a scope to one process.  (Two processes at
\* once can break it: execute ignores what begin returns, tool_journal.py:228.)
LeasedCallsAreReplayed == [][exclusive => NothingRunsCompleted]_vars
=============================================================================
