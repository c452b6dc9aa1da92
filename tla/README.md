# TLA+ models of the Astra/Codex agent runtime

The repository teaches how a Codex-like agent system is built; its program is the
Python package `astra_codex` (68 files under
`src/代码-code/从零构建Astra与Codex级系统/src/astra_codex`, lessons beside it in
`教程-lessons`, tests in `tests`). This directory models the parts of it that keep
state and hand work between processes: the queue with leases, the journal of tool
calls, the event-sourced threads and the runtime that drives them; the control
plane through which clients steer and follow it; the tree of agents with its
mailbox and the coordinator that runs tasks on it; the A2A task service; and, from
the inference side, the pool of shared KV blocks, the prefix caches and the
continuous batching over them. TLC checks small instances of every module, and TLAPS
proves for all instances theorems about the queue, the journal, the runtime, the
control plane, the agents with their mailbox and coordinator, the A2A service with its
clients, and the pool of K/V blocks.

File names below are those of the package; line numbers are given in
`PROJECT.json` (`map`) for every definition.

## The system

| part | state | operations | talks to |
|---|---|---|---|
| work queue (`runtime_queue.py`) | SQLite table of items with status, lease owner and expiry | enqueue, claim, renew_lease, ack, fail, release, cancel | runtime, background heartbeat, app server |
| tool journal (`tool_journal.py`) | SQLite table: key, call, STARTED or COMPLETED, result | get, begin, complete; `execute` decides run, replay or refuse | runtime, tool registry |
| durable threads (`durable.py`) | SQLite log of thread events; status is a fold over it | create, submit, start/complete turn, checkpoint, pause, resume, end, fork | runtime, app server |
| agent runtime (`runtime.py`, `runtime_control.py`, `codex_harness.py`) | none of its own beside the stores | submit, steer, run_one (claim, recover or open a turn, run it, settle) | all stores, the model, the tools |
| steering (`steering.py`) | SQLite table of messages to a running turn | submit, consume_pending, cancel | runtime, app server |
| event feed (`event_stream.py`, `sse_events.py`, `http_app_server.py`) | append-only SQLite feed; cursors of clients | append, read after a cursor, poll, SSE replay | runtime, clients |
| app server and access control (`app_server.py`, `control_auth.py`) | principals, bearer tokens that expire, are revoked and rotated | JSON-RPC requests on threads, register, revoke, rotate | runtime |
| agent graph and mailbox (`agent_graph.py`) | SQLite tree of agents, messages with leases | create, status changes, cancel_subtree, send, claim, ack, release | parallel agents |
| parallel agents (`parallel_agents.py`) | futures of a thread pool, results | run: send, claim, execute, ack | agent graph, mailbox |
| coding team, worktrees (`coding_team.py`, `worktree.py`) | git worktrees, reviews | run, review, merge | parallel agents, git |
| A2A (`a2a*.py`) | tasks, messages, update journal, subscriptions | send, get, cancel, subscribe, stream; bridge to the runtime | remote clients, runtime |
| KV blocks (`kv_block_allocator.py`, `kv_tensor_pool.py`) | free list, reference counts, block tables, reservations | reserve, append, fork, truncate, release | scheduler, prefix cache |
| prefix caches (`physical_prefix_cache.py`, `prefix_cache.py`) | token sequences of live requests, their blocks and last logits; a store of past prompts | longest match, prefill, decode, release | allocator |
| scheduling (`scheduler.py`, `continuous_batching.py`) | waiting and decoding requests | submit, step (decode lane, prefill lane), cancel | prefix cache, allocator |
| traces (`rollout_trace*.py`) | hash-chained records | append, verify, collect | runtime |
| artifacts, memory, context, instructions, planning, verification, MCP, tools | files and in-memory tables | | harness |
| model, tokenizer, training, sampling | tensors | | engine |

What is hard in this system, and what the properties are therefore about:

* Every store is its own SQLite file, so no transaction spans two of them: a
  worker may die between any two store calls, and another client may act there.
* Within a store most operations read a row, check it in Python and write in a
  second statement; only `claim` and `renew_lease` use one transaction.
* Leases expire. A worker whose lease ran out does not know it until it asks.
* A turn that is run again asks the model again, which may answer otherwise; the
  journal must neither repeat an effect nor give one call another's result.
* A thread's status is whatever the last event says, and an event may be decided
  on before another client's event and appended after it.
* A call is cut off between its stores: a steering message is inserted in one
  database and announced in another; a task is put into one table and journaled in
  a second; a coordinator dies between sending a task and leasing it.
* Clients come back: a stream is cut between two rows, and the cursor the client
  resumes from is all the server knows about it.
* Requests of an inference batch share each other's K/V blocks and logits while
  their owners decode, are cancelled and give them back.

What makes each part correct:

* *queue*: an item is worked on by the holder of its lease only, a lease changes
  hands only after its expiry, a finished item stays finished;
* *journal*: one key, one call; no call repeated that may not be; results final;
* *threads*: terminal states final, turns properly bracketed, forks faithful;
* *runtime*: an acknowledged item was answered; a turn answers the item it was
  started for; threads fail only after an item; every item is settled in the end;
* *steering*: a message enters at most one turn, once, and none is left behind;
* *event feed*: what it tells of happened, and a client that resumes from its cursor
  sees each event once, in order, and none of another's threads;
* *agent graph*: no live agent under a cancelled one;
* *mailbox*: a message is processed by the holder of its lease, and a task is
  started at most once however often its coordinator is run again;
* *KV blocks*: a block is free or counted by exactly its references; writers
  never write a shared block; reservations are honoured;
* *prefix caches and batching*: sharing and scheduling never show in a request's
  output, and the engine runs idle;
* *A2A*: finished tasks stay as they are, replies answer their own message, a
  subscriber sees every update until the final one.

## Modules

| module | models | notes |
|---|---|---|
| `LeaseLedger` | what a queue with leases promises | abstract |
| `WorkQueue` | `DurableWorkQueue` | implements `LeaseLedger` when one process uses the table |
| `WorkQueueProofs` | | theorems about `WorkQueue` |
| `ToolJournal` | `DurableToolJournal`, `JournaledToolExecutor`, `TurnScopedJournaledTools` | |
| `ToolJournalProofs` | | theorems about `ToolJournal` |
| `ThreadLifecycle` | what a thread's projection promises | abstract |
| `DurableThread` | `DurableThreadStore` | implements `ThreadLifecycle` when one client uses the log |
| `AgentRuntime` | `DurableAgentRuntime` | built on instances of `LeaseLedger` and `ThreadLifecycle` |
| `AgentRuntimeProofs` | | theorems about `AgentRuntime` |
| `KVStore` | what the paged KV cache promises its requests | abstract |
| `KVTensorPool` | `KVBlockAllocator`, `PhysicalKVTensorPool`, the reservation of `decode_batch` | implements `KVStore` |
| `KVTensorPoolProofs` | | theorems about `KVTensorPool` |
| `AgentGraph` | `PersistentAgentGraph`: agents, `set_status`, `cancel_subtree` | |
| `AgentMailbox` | `PersistentAgentGraph`: messages with leases | extends `AgentGraph`; its messages implement `LeaseLedger` |
| `ParallelAgents` | `ParallelAgentCoordinator` | extends both |
| `ParallelAgentsProofs` | | theorems about the three |
| `A2ATasks` | `A2AService`, `A2ATaskStore`, `JournaledA2AService`, `stream_send_message` | |
| `A2ABridge` | `DurableRuntimeA2AHandler` | extends `A2ATasks` |
| `A2AClients` | the subscription server and its client, `ListTasks` over HTTP | composes all of A2A |
| `A2AClientsProofs` | | theorems about the three |
| `PrefixCache` | `TokenPrefixIndex`, `PhysicalPrefixCacheEngine`, `ReferencePrefixKVStore` and its engine | uses the pool as `KVStore` describes it |
| `ContinuousBatching` | `ReferenceRequestScheduler`, `ContinuousBatchingReferenceEngine` | extends `PrefixCache` |
| `AccessControl` | `BearerTokenAuthorizer` | |
| `SteeringQueue` | `DurableSteeringQueue` | |
| `EventFeed` | `DurableEventStream`, `LocalSSEEventServer`, `SSEEventClient`, polling | |
| `ControlPlane` | `AgentAppServer`'s calls with their stores, `ControlledBackend.generate` | composes the three above |
| `ControlPlaneProofs` | | theorems about `ControlPlane` |
| `Ordering`, `OrderingProofs` | a finite set listed by a key, as `ORDER BY` does, and why that list exists | used by `SteeringQueue`, `ParallelAgents`, `A2AClients` |
| `MC*` | | the sets TLC uses |

**WorkQueue.** One variable per column. `claim` and `renew_lease` are one step
(BEGIN IMMEDIATE). `ack`, `fail`, `release` and `cancel` are two: `BeginHeld` or
`BeginCancel` reads and checks the row, and `Finish`, `Release` or `Cancel` is the
UPDATE by item id; `op` is what lies between them and `Crash` forgets it. `users`
is the set of processes that opened the table, chosen at the start. The clock
ticks at any time, so a lease may expire between any two steps. Payloads and
results are left out, but for `result`, the worker whose outcome was stored.

**ToolJournal.** A process is inside a turn over a scope (the work item) and
counts its tool calls. `Lookup`, `Begin`, `Insert`, `Run`, `CompleteCheck` and
`CompleteWrite` are the statements of `execute`; `EndTurn` is the normal end and
a crash at any step. `Run` counts the effects of every call under every key,
which the code cannot see and the properties are about. The model may ask for any
call at any index. `exclusive`, chosen at the start, says whether leases keep a
scope to one process at a time.

**DurableThread.** The log is the state; `ProjectUpTo` is `project`. An operation
is a step that projects and decides (`Decide`, `CreateThread`, `ForkThread`) and
one `AppendEvent` step per event it appends, so that others may append between
them and a crash cuts a fork short.

**AgentRuntime.** The queue is the ledger, the threads are the lifecycle, and the
journal is a row and an effect count per item and call. A worker's place in
`run_one` is `at`, and every step between two places is one call of one store,
in the order of the code, the exceptional paths included: an exception before the
`try` block of `run_one` escapes with the item leased (`GiveUp`), one inside it
leads to `Fail` and `EndThread`. Users create, pause, resume and cancel threads at
any time, workers crash at any place, and leases lapse: under a live worker only
if `deployment.beats` is FALSE, that is if the background heartbeat does not get
to renew. The `deployment` variable, chosen at the start, says which workers run
and which threads the items belong to. The turn is `run_turn`: at most `MaxSteps`
samplings, each an answer, a tool call or an exception.

The ledger stands for what is one transaction or one statement of the queue: enqueue,
claim and renew. `ack`, `fail`, `release` and `cancel` are two steps as in `WorkQueue`: a
check of the row (`Settle`, `Fail`, `Defer`, `Drop`), and an `Update` that names the item
alone and overwrites whatever another worker made of it meanwhile, which no ledger
promises. So two workers whose leases lapse can both close an item. `failures` remembers the
items a `queue.fail` was written for, whatever was written over it.

**KVTensorPool.** A block has a reference count, `used` tokens and contents (`slab`,
one value per token for its keys and values in all layers); a request has a table of
entries and a length. Operations are synchronous and so are one action each: `Extend` is
`append_tokens` with the tensor copy and writes of `append_delta`, in closed form instead
of the code's loop; `Fork`, `Truncate` and `Release` likewise. A call that raises changes
nothing and is no step. `decode_batch` is the exception: between its reservation and its
commit the model runs, and others may use the pool (the allocator's docstring and the tests
say so), so `Reserve`, `Commit`, `CommitOne` for each request, in any order, and `EndBatch`
are steps; while it commits nobody else acts. The free list is a set. `Demand` adds up
what each request of a batch needs by itself, as `_batch_required_blocks` does, by counting
pairs of a request and a number (`Needs`). The refinement mapping is `Materialize`, the
sequence a request reads through its table. The code concatenates the used slots of the
entries; the module reads position `p` at `EntryAt(p)`, `SlotAt(p)`, where `append_delta`
writes it. That is the same because every entry but the last is full, which is part of
`ViewsAreBacked`. `ImplementsStore` says that every step is one of `KVStore`, and
(`CallsDoAsTheySay`) which: an append adds exactly the tokens it was given, a fork copies the
prefix it was asked for from the source it names, and so on.

**AgentGraph, AgentMailbox, ParallelAgents.** The connection is in autocommit mode, so
every SELECT and UPDATE is a step: `create_agent` reads the parent and then inserts
(`BeginCreate`, `InsertAgent`), `set_status` reads and overwrites, `cancel_subtree`
collects the tree level by level and then cancels it row by row, leaves first
(`Collect`, `LookAgain`, `CheckAgain`, `WriteCancelled`); only the choice and the lease
of `claim_message` are one transaction. `op` is the part of a call a process has
done, and `Crash` forgets it. The coordinator is a program counter `co.at` with one
step per statement of `run`, and one `future` per worker agent; `Die` ends it
anywhere, `Start` runs it again over the tables it left. `Meddle` is what another
process does to a team meanwhile. The run starts in one of three scenes: an empty tree,
a mailbox, a team.

**A2ATasks, A2ABridge, A2AClients.** A task is the record that `task_json` encodes, with
the ids of its artifacts only. Its number is its place by `created_at` and `task_id`, the
order of `ListTasks`; a new task may get any free number, since the stamp is taken before the
insert, by clocks of several processes, and equal stamps are ordered by random ids.
A call of the service is a sequence of steps, one per statement, over the snapshot it
read first (`call[p].snap`), and the journal's `append` is again a read and an insert.
The bridge runs each user message as a work item of the task's thread; the runtime
is seen as the bridge sees it (items by age, the thread's turn, whether it failed), with the
statements up to `start_turn` in one step, those of its end in another, and one artifact for
each completed turn.
The subscription server is single-threaded: `backlog` are the connections it has not
accepted, `serving` the one it has. Two kinds of clients: a subscriber that
reconnects with the last event id it received, and one that pages through
`ListTasks` with offsets as tokens.

**PrefixCache, ContinuousBatching.** A cache holds the tokens its index knows, the
states (which tokens' K/V it holds, block structure being `KVTensorPool`'s concern) and
what its last logits say (`greedy`); `Model` is any function from token sequences
to tokens. A prefill reuses the longest prefix another live request owns and computes
the rest. A step of the engine is `DecodeLane` or `AdmitLane` and then `PrefillNext`
for each admitted prompt, in order, since an earlier prefill may finish and release
what a later one would share; `submit` and `cancel` come between steps only. Whether
the pool is `ample` is chosen at the start; in one that is not, any prefill may raise
(`PrefillRaises`) and the rest of its step is left undone; a decode that raises changes nothing.

**AccessControl, SteeringQueue, EventFeed, ControlPlane.** Each store is its own
database, so a call of the app server is its admission, its store's write and the
event it emits, in steps between which it may be cut off. `ControlledBackend.generate`
marks the pending messages consumed in one transaction (`Consume`) and adds them to the
turn's messages later (`Inject`). A message gets an arbitrary place in the order
`consume_pending` sorts by (`at`), for the reasons given for tasks above; `row` counts the
inserts. `cancel_thread` reads the status (`CheckCancel`) and appends (`AppendCancel`), and so
do `start_turn`, `complete_turn` and `fail_thread` of the workers: their late events make a
cancelled thread live again, and a thread can be cancelled twice. A stream reads a batch of rows and writes them one
by one; the connection may be lost between any two (`Drop`), and the client comes back
with the id of the last event it parsed. Topic filters are left out.

## Runs

| run | question | instance |
|---|---|---|
| `WorkQueue` | which promises survive stale reads, and is the table a ledger for one process? | 2 items, 2 worker ids, 0 to 2 processes, leases of 2 ticks, clock 1 to 3 |
| `ToolJournal` | what do the keys guarantee, with and without leases? | 2 processes, 1 scope, 2 calls (one retryable), 3 indices, 2 results, 2 effects |
| `DurableThread` | do projections behave, forks included? | 1 client, 2 threads, 2 turns, 6 events |
| `DurableThread_revived` | is a terminal status final with several clients? (no) | 2 clients, 1 thread, 5 events |
| `AgentRuntime` | do queue, threads, journal and effects stay consistent? | deployments Solo, Pool, Lapsing and Crowd, 2 samplings |
| `AgentRuntime_settles` | is every item settled? | deployment Pool, 1 sampling |
| `AgentRuntime_stuck` | is every item settled when a thread has two? (no) | deployment Crowd, 1 sampling |
| `KVTensorPool` | are blocks counted right and requests isolated? | 2 requests, 3 blocks of 2 slots, appends of up to 3 tokens, lengths up to 4 (5 through a batch), 2 token values |
| `ParallelAgents` | are subtrees cancelled whole, leases kept, tasks run once across crashes? | 3 agents, 3 messages, 2 tasks, 1 or 2 processes, 2 runs, clock up to 2 |
| `A2AClients` | do tasks, their journal, their replies and their readers agree? | 3 tasks, 3 messages, 1 or 2 processes, 3 or 4 calls per scene, 1 lost connection, pages of 1; two processes in the scenes of the bridge and of the pages |
| `ContinuousBatching` | does sharing or scheduling show in outputs, and does the engine run idle? | 3 requests, 4 prompts with shared prefixes (one too long), up to 3 new tokens, a batch of 2, prefills of 3 |
| `ControlPlane` | is steering delivered once, and the feed true and replayed exactly? | scene *steer*: 2 app servers steer, 2 workers on one thread, 2 messages with stamps in any order; scene *cancel*: 2 servers cancel one thread and steer another, 1 worker, 2 cancellations; scene *stream*: 1 reader, 3 events, 2 lost connections, 4 tokens, clock up to 1 |

Deployments of `MCAgentRuntime`: *Solo* is one worker, two items of one thread,
all user operations and two crashes (either worker: the two are interchangeable); *Pool* is two workers, two threads with one
item each, cancellations and one crash; *Lapsing* is two workers on one item
without heartbeats, with cancellations and one crash; *Crowd* is two workers and
one thread with two items, one crash.

Why these bounds are enough to be interesting: with leases of two ticks and a
clock of three, a lease expires, is renewed at the very tick it expires (both
`claim` and `renew_lease` accept it there) and is taken over. Two effects are what it takes to see one repeated. Six events
are a creation, a turn, a pause, a resume and another turn with its completion,
or a thread with a turn and its whole fork. Two crashes let the recovery itself
crash. Three blocks of two slots hold a shared full block and two different partial tails,
and run out; a length of five needs three blocks; two token values tell whose write a
request reads. Three agents are a tree of two levels under its root, or a coordinator with two workers;
two runs are what it takes to find a dead run's messages. Three A2A messages are two tasks, one of them
continued, or three pages. Three requests over four prompts share a prefix of a prefix, and a batch of
two makes the third wait; the model's answer depends on all tokens of a prefix and the order of its last two,
so a wrong cache shows. Two steering messages can arrive in either order of a turn's beats; three events
let a connection be lost before, between and after the rows of one read. All bounds are guards
(`MaxTime`, `MaxEffects`, `MaxEvents`, `MaxTurns`, `MaxRuns`, `MaxCalls`, `MaxDrops`, `MaxFeed`,
`deployment.crashes`) or the sizes of sets; a system stopped by a bound is not
deadlocked, which is why those runs do not check deadlock, and a work queue or a
thread store that nobody calls is at rest anyway. The journal is always able to
end a turn, so its runs check deadlock.

Fairness. `FairSpec` of `AgentRuntime`: a worker that is inside `run_one` goes on
or crashes, somebody keeps calling `run_one` without a restriction of threads, and the
lease of an item nobody works on expires as time passes. Users owe nothing. This is
what a process supervisor and a clock give; the code itself loops nowhere.
`ContinuousBatching`: `run_until_idle` calls `step` while there is work, with an ample
pool. `ControlPlane`: a reader whose connection is gone comes back, and the server
thread of an open stream runs its loop; `ReadersCatchUp` asks it only of a reader whose
token stays admitted. `A2AClients`: calls that were begun go on, and the server accepts
and serves; the connection may be lost.

Scope of the properties. Some hold for one process and are stated so (`Alone`):
with two, `ack` or `set_status` of one process may overwrite what the other wrote since it
was checked. Those that hold however many processes run are stated without it
(`LeaseShape`, `NoLeaseStealing`, `KeyBindsOneCall`, `TaskRunsOnce`, `FeedIsExact`,
`PagesMissNothing`, the four of `ControlPlane`), and then promise what the code keeps and no
more:
* `SteeringOnce`: a message is never seen after one that was both stamped and inserted later.
  Messages of two servers may be seen against the order of their stamps, when one is
  stamped first and inserted after the other was consumed. None stays pending behind a
  consumed one that was inserted after it.
* `FeedTellsTruth`: an event is about one insert or one appended cancellation, and the only one
  about it. It is not said that a thread is cancelled once, nor that everything is told.
* `ThreadFailsAfterItem`: `queue.fail` marked an item before its thread failed. The item
  stays failed while heartbeats work; without them another worker's `ack`, checked earlier,
  may overwrite it.
* `PagesMissNothing`: no task is missed. One may be shown twice, when another gets an earlier
  place than the offset already read.

Two are stated for one process or for orderly deployments and with a further limit:
`StreamNamesAll` is about the ids of artifacts, not their content; `OneRunnerPerThread` is for
working heartbeats and for threads with one submission or one worker.

### What the violated runs show

* `DurableThread_revived` (`durable.py:260` and every other operation): a
  projection read before a cancellation lets an event be appended after it, and
  the fold lets that event replace the terminal status. Lesson 06 calls the
  status terminal and threads shared by several processes.
* `AgentRuntime_stuck` (`runtime.py:319`): an item deferred because the thread
  runs another one's turn keeps its age, so `claim` returns it before the younger item
  whose turn has to be recovered. With one thread and two items, both starve.

### Behaviour worth knowing that no property forbids

Met while modelling. No doc or test promises otherwise unless quoted.

* Two processes in one scope can execute a completed call again: `execute` ignores the record
  that `begin` returns (`tool_journal.py:228`), so the comment at 44 holds only while leases
  keep a work item to one worker (`LeasedCallsAreReplayed`).
* The `turn_finished` checkpoint is honoured only while the thread is RUNNING; after a crash between
  `complete_turn` and `ack` the item's turn is sampled again (`runtime.py:480`), its
  effects not. With two workers on a thread, `checkpoint("claimed")` of one replaces the other's
  before `start_turn` refuses it (348), so the wrong item may recover the running turn. Without
  heartbeats a thread can be FAILED with its only item COMPLETED (`runtime_queue.py:253`).
* Two servers can cancel a thread twice, each with its event (`durable.py:352`), and a worker's
  late event makes a cancelled thread live.
* `create_agent` against `cancel_subtree` of another process leaves a live child under a
  cancelled parent (`agent_graph.py:243`).
* The HTTP servers of A2A build a plain `A2AService` even from a journaled one, so a task
  served over HTTP is never journaled and its subscribers wait. A client that returns
  after the terminal snapshot is served for ever by the single-threaded server
  (`a2a_subscription.py:262`). A crash after WORKING was put leaves the task WORKING; one
  between `put` and `append` hides the terminal snapshot from subscribers. The comment at 166-168
  ("append() de-duplicates the returned final snapshot") does not hold when `history_length`
  is given. After a crash the bridge may run an older left-over item and reply with its answer.
  Paging with a status filter can skip tasks, and without one can show a task twice
  (`a2a.py:483`). An artifact id sent again with new content is not streamed.
* A prompt longer than the prefill budget waits for ever while `run_until_idle` returns; after `submit`
  with `max_new_tokens` of 0 the id is taken although the request was refused
  (`continuous_batching.py:93`); admission does not look at blocks, so a decode that finds none
  may raise on every step.
* Steering messages of two servers may reach the model against the order of `created_at`
  (`steering.py:80`). A steering message is CONSUMED before the model is sampled and lost if the worker dies then
  (`runtime_control.py:190`); a cancellation that races with it leaves the row CANCELLED though the model saw it
  (`steering.py:173`). A retry of a steer that died after its insert is refused by its id. A stream is
  authorized when it is opened only, and outlives a revocation.

Operators named for a faulty variant (`...Ignoring...`, `...Unclaimed`, and so on, each
under a comment that says so) are not part of any specification: `PROJECT.json`
lists under `mutants` which definition each replaces and which property notices.

## Proofs

The theorems hold for every value of the constants under the assumptions named in the
modules. These say what the code enforces or what a value is: ids that a query orders by
are naturals, leases last at least one tick, `None` is no worker, item, message or
credential, teams and task lists have no duplicates and the boss is not in his team (the
constructor and `run` refuse others), agents are finitely many, a task's kind is a kind,
the pool has finitely many blocks of at least one slot and appends of at least one token, a zeroed slot holds no token, a page
has at least one task, the watched task is one of the tasks.

| module | theorems |
|---|---|
| `WorkQueueProofs` | `TypeCorrect`, `LeaseShapeInvariant`, `LeasesAreNotStolen`, `FinishedItemsStay`, `QueueImplementsLedger`, `AloneQueueIsLedger` |
| `ToolJournalProofs` | `TypeCorrect`, `OneKeyOneCall`, `ResultsWereProduced`, `EffectsAreNotRepeated`, `CompletedCallsAreReplayed`, `StoredResultsAreFinal` |
| `AgentRuntimeProofs` | `TypeCorrect`, `ThreadsFailAfterItems`, `TurnsAnswerTheirItems`, `AcksFollowAnswers`, `OneRunner`, `EffectsHappenOnce` |
| `ControlPlaneProofs` | `TypeCorrect`, `FeedIsTrue`, `SteeredOnce`, `Replayed` |
| `ParallelAgentsProofs` | `TypeCorrect`, `TasksRunOnce`, `MailboxIsLedger`, `CancellationSweeps`, `ReturnAnswers` |
| `KVTensorPoolProofs` | `TypeCorrect`, `BlocksAccounted`, `ViewsBacked`, `FencesHold`, `CommitsNeverRunDry`, `PoolImplementsStore` |
| `A2AClientsProofs` | `TypeCorrect`, `TasksEvolve`, `StreamsNameAll`, `RepliesAnswerTheirMessages`, `FeedsAreExact`, `PagesAreComplete` |
| `OrderingProofs` | lemmas only: `OrderedSorts`, a finite set with an injective key has its list |

**The queue.** `TypeCorrect` and `LeaseShapeInvariant` are inductive as they stand; every
writer sets the three lease columns together, so what a process read before does not
matter. `LeasesAreNotStolen` follows from them: only `claim` writes an owner, and its WHERE
clause is in its transaction. `FinishedItemsStay` and `QueueImplementsLedger` need
`ChecksStillHold`: with one process, the row that a pending UPDATE is about to overwrite is
the row that was checked. The refinement maps the five statuses to four phases and the
expired leases to `lapsed`; a tick is `Lapse`, or nothing.

**The journal.** For any number of processes, `RunIsBound` (a process allowed to run its
tool has a row that binds its call) with `RowFacts` is inductive and gives `OneKeyOneCall`
and `ResultsWereProduced`. Under `exclusive`, the strengthening is that what a process saw
of its row is still so when it acts on it (`SeesItsRow`), because nobody else has a key of
the same scope (`Leased`); from it follow the other three.

**The runtime.** None of its invariants is inductive: each relates the queue, the threads
and the journal at the end of `run_one` to what was read at its start.
* `FailingInv`: who is about to fail a thread has had `queue.fail` write to an item of it, and
  while heartbeats work nobody writes to that item again, since only its worker could
  (`LeaseInv`). Gives `ThreadsFailAfterItems`, in every deployment.
* `TurnInv`: the last checkpoint of a running thread names the item of its turn, and so does
  any worker that is about to write one there. Gives `TurnsAnswerTheirItems`.
* `AnswerInv`, on top of it: who is about to close an item has checkpointed its answer, or
  found that checkpoint, and completed the turn. Gives `AcksFollowAnswers`.
* `LeaseInv`, while heartbeats work: a live worker keeps its lease until it gives the item
  up, so no two have one item. Gives `OneRunner`.
* `EffectInv`, on top of it: a call that has not run has no effect, and the worker about
  to run one is the only one that looks at its row. Gives `EffectsHappenOnce`.

The properties of `TurnsAnswerTheirItems`, `AcksFollowAnswers` and `OneRunner` are stated for
`Orderly` deployments: a thread has one submission, or one worker does all the work. Without it they
are false, and the code is why: two workers on one thread overwrite each other's
checkpoints (see *Behaviour worth knowing*). Of the deployments TLC runs, Solo, Pool and
Lapsing are orderly and Crowd is not; the other theorems hold in all.

**The control plane.**
* `FeedInv`: what a call is about to announce, an inserted message or one appended cancellation,
  was done by it, is unannounced, and belongs to no other call. Gives `FeedIsTrue`, with any
  number of servers cut off anywhere.
* `SteerInv`: what a turn has seen or is about to see is consumed, by no other turn, and
  was inserted before everything still pending for the thread. It needs `InOrderSorts`, and so
  `OrderedSorts`: the batch of `consume_pending` is the pending rows, each once, in their order.
* `ReplayInv`: what a reader was given, what is on its way and what the server still holds of
  its last read are together the matching events of the feed up to a cursor, in order. The
  lemmas about it (`ReplayExtended`, `RowWritten`, `StreamCut`) are about sequences that grow at one
  end and are eaten at the other. Gives `Replayed` for any loss of a connection.

**Agents, mailbox, coordinator.**
* `RunInv`: the messages of tasks a callback was started on exist, went to the worker that
  has the future, and the coordinator between `send` and `submit` is at a message whose count
  is zero. A second run of a task fails at the primary key of `send`. Gives `TasksRunOnce`
  with any meddling and any crashes.
* `CheckInv`: with one process, a call between its check and its statement still has what it
  checked. One lemma per statement (`SendOpens`, `ClaimGrants`, `AckCloses`, `ReleaseReturns`,
  `CancelWithdraws`, `TickLapses`) gives the step of the ledger, and `MailboxIsLedger` follows, the
  coordinator's own statements included.
* `SweepInv`: the cancelled agents have only terminal ones below them (`TreeInv`), and the call
  in progress has a list in which every node's children stand before it or are already
  terminal (`CallInv`). While the tree is collected the children of the nodes taken are among
  the nodes or the queue (`SweepGoesOn`); reversed, that is the order of the sweep (`SweepReversed`).
  `Below` is the least set closed under children, so an invariant about all depths needs
  no induction (`BelowLeast`). Gives `CancellationSweeps` for trees of every shape.
* `BooksInv`: what `run` was asked is what waits, is launched, has a future or has a result,
  each task in one of these places, and a worker that is available or being launched has no
  future. `StoredInv`:
  the message of every result is acked by that worker's lease. Together `ReturnAnswers`.

**The A2A service.** Every call is a chain of statements that carries a snapshot of a task, so
what is said of the store has to be said of each snapshot that will be stored. The lemmas
`...Does` state once what each of the twenty statements does to the call, the store and the
journal; `ServiceSteps` sorts them into requests, writes, reads and turns of the bridge.
* `TypeInv` adds to the types that a task begins with a message of its user and that a call
  working on a message has it in its snapshot; without that the latest user message would not
  exist. Gives `TypeCorrect`.
* `SoloInv`, for one process: what it is about to store goes on from what the store holds
  (`IsPrefix` of the history, more artifacts), the task was not over when it looked, and a
  stream's frames so far and those it owes are the artifacts of the store. A crash forgets the
  call, so nothing has to be said of it. Gives `TasksEvolve` and `StreamsNameAll`.
* `BridgeInv`: every answer in a history, stored or in a snapshot, comes from a completed item
  of the task (`Earned`), and a turn in progress holds its item leased and alone (`TurnsOK`);
  with one process every item stands for a message of the history (`LinePrompted`), and without
  crashes the only item that can be claimed is that of the message in hand (`OneItem`). Gives
  `RepliesAnswerTheirMessages`.
* `FeedInv`: what a subscriber has is the journal up to its cursor, what is on its way is what
  it lacks up to some row, and for the one connection it holds, if it waits in the backlog
  nothing was sent, if it is served everything up to the server's cursor was. Connections of
  the past are in the backlog or are served too, and are told from it by their number
  (`Holds`). `RowsGrow`, `PushRow` and `ReadRow` are about sequences and sets of rows alone.
  Gives `FeedsAreExact`, with several subscribers and any number of lost connections.
* `PagesInv`: without a filter a task that was there at the start and was not seen yet stands
  behind the offset; a task inserted meanwhile can only move it further back, and a page shows
  what it steps over. Gives `PagesAreComplete`, for any number of processes.

**The K/V pool.** `PoolInv` is what the operations keep, for any number of requests, blocks
and slots, and nothing weaker is inductive: tables have the shape of their lengths and lie
within what was written (`TablesHold`), a block is referenced once by each request that
holds it and only blocks nobody holds are free, fenced or unused (`BlocksHold`).
* Each operation edits one table, and `Edit` shows once that such a step keeps both parts
  when the references follow; counting holders is `Recount`, which adds or removes one request.
* What an append does in closed form is a chain of lemmas about tables alone: where entries
  start (`PositionsCovered`, `PositionUnique`), the grown table (`GrownFacts`), the entries
  it writes to (`TableGrows`), which are fresh blocks or a partial tail that only the request
  holds. Cutting a table is `ShortenedFacts`, used by fork and truncation.
* `BlocksAccounted`, `ViewsBacked` and `FencesHold` follow from `PoolInv`. For
  `CommitsNeverRunDry` one needs that an append makes no other request need more
  (`OthersNeedNoMore`): it only lowers the count of a shared tail that others may hold.
* `PoolImplementsStore`: the blocks an operation writes to are held by nobody else
  (`ExtendElsewhere`), so other requests read what they did (`CacheKept`); what the request
  itself reads is compared position by position (`AppendStores`, `ForkStores`,
  `TruncateStores`). The same lemmas give `CallsDoAsTheySay`.

What the provers here cannot do. Liveness (`ItemsSettle`, `SubscriptionEnds`, `RunsIdle`,
`ReadersCatchUp`) is model-checked only. So is what is computed by a fold or a recursive
function over data, whose facts need an induction rule that takes an operator: the projection
of `DurableThread` (`ForkReproduces`, `ImplementsLifecycle`) and the outputs of greedy decoding
(`OutputIsModels`). Where an
induction over the naturals was needed for a fact about sets (`OrderedSorts`) it is
stated with the set of the naturals that have the property (`NatSetInduction`), which the
provers take. Not proved although within reach: `CachesAreTrue` of
`ContinuousBatching`.

`TypeOK` of `WorkQueue` is a run's invariant; the runs of the other modules spend their checks
on deeper ones, and the proofs establish `TypeOK`.

## Not modelled

Payloads, summaries, titles and timestamps other than lease times; approvals
(the runtime configures none); the artifacts of the runtime, whose object files are
written in place before their row, so a crash can leave a torn file that
`get` then rejects by its hash and a later `put` of the same bytes refuses; the
transaction that Python's sqlite3 module leaves open after an
`IntegrityError` in `begin`; tensor writes that fail half way (the source says they have no
rollback, `kv_tensor_pool.py:213`); wire encodings, agent cards and HTTP error mapping; topic
filters. Tensor arithmetic, tokenization, training and
sampling are numeric. Sandboxes and tools are operating-system I/O. The coding team drives git.
Plans, the sequential coordinator, traces and `paged_cache.py` are small sequential parts of one
process and were left out in favour of the concurrent ones.

## Plan

What is left, in this order:

1. A proof of `CachesAreTrue`, that what the prefix caches share is what the model would compute.
2. Plans with transitive blocking, and the crash window of the artifact store.
