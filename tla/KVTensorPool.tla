---------------------------- MODULE KVTensorPool ----------------------------
(***************************************************************************)
(* kv_block_allocator.py and kv_tensor_pool.py: the K/V states of requests *)
(* live in fixed-size physical blocks.  Forked requests share blocks under *)
(* reference counts, a shared partial tail is copied before it is written, *)
(* and a decode batch fences the blocks it will need before the model runs.*)
(*                                                                         *)
(* Operations are synchronous, one action each, except the decode batch of *)
(* page_aware_decode.py: other callers may use the pool while the model    *)
(* runs, and its commit appends one request at a time.  A call that raises *)
(* leaves the pool as it was and is not a step.  The free list and the     *)
(* blocks of a reservation are sets: which of them is taken is a choice.   *)
(***************************************************************************)
EXTENDS Naturals, FiniteSets, Sequences, SequencesExt

CONSTANTS
    Requests,
    Blocks,
    BlockSize,
    MaxLength,  \* max_seq_len of the model, also the bound of append_delta
    MaxDelta,   \* bound on the tokens of one append
    Tokens,     \* the K/V state of one token, over all layers
    Zero,       \* the content of a slot that was zeroed
    None

ASSUME PoolAssumption ==
    /\ IsFiniteSet(Blocks) /\ IsFiniteSet(Requests)
    /\ BlockSize \in Nat \ {0} /\ MaxLength \in Nat /\ MaxDelta \in Nat \ {0}
    /\ Zero \notin Tokens /\ None \notin Tokens
    /\ None \notin Seq([block : Blocks, tokens : 1..BlockSize])
    /\ None \notin Seq(Tokens \cup {Zero})

VARIABLES
    free,    \* _free
    refs,    \* refcount of a block
    used,    \* used_tokens of a block
    table,   \* entries of a request's block table, None when it is unknown
    length,  \* sequence_length
    slab,    \* the contents of the slots of a block (keys and values)
    phase,   \* of decode_batch: "idle", "model" or "commit"
    batch,   \* requests of the batch that are still to be appended
    pending  \* blocks of its reservation that are not yet consumed

batchVars == <<phase, batch, pending>>
vars == <<free, refs, used, table, length, slab, batchVars>>

Slots == 1..BlockSize
Entry == [block : Blocks, tokens : Slots]
Live == {r \in Requests : table[r] # None}

TypeOK ==
    /\ free \subseteq Blocks /\ pending \subseteq Blocks /\ batch \subseteq Requests
    /\ refs \in [Blocks -> Nat]
    /\ used \in [Blocks -> 0..BlockSize]
    /\ table \in [Requests -> Seq(Entry) \cup {None}]
    /\ length \in [Requests -> Nat]
    /\ slab \in [Blocks -> [Slots -> Tokens \cup {Zero}]]
    /\ phase \in {"idle", "model", "commit"}

Init ==
    /\ free = Blocks /\ pending = {} /\ batch = {} /\ phase = "idle"
    /\ refs = [b \in Blocks |-> 0]
    /\ used = [b \in Blocks |-> 0]
    /\ table = [r \in Requests |-> None]
    /\ length = [r \in Requests |-> 0]
    /\ slab = [b \in Blocks |-> [s \in Slots |-> Zero]]

-----------------------------------------------------------------------------
(* Block tables *)

BlocksOf(entries) == {entries[i].block : i \in DOMAIN entries}
Lesser(a, b) == IF a < b THEN a ELSE b
Greater(a, b) == IF a > b THEN a ELSE b
BlocksFor(n) == (n + BlockSize - 1) \div BlockSize

\* The entries of a table before its last are full, so entry i starts here.
Start(i) == (i - 1) * BlockSize

\* Faulty variants the checks must notice (see the mutants in PROJECT.json): a
\* shared tail written in place, sharing not asked for, references to shared
\* blocks not given back.
NeverShared(entries) == FALSE
SharingIgnored(b) == TRUE
SharedKept(S) == [b \in Blocks |-> IF b \in S /\ refs[b] = 1 THEN 0 ELSE refs[b]]

PartialTail(entries) == entries # <<>> /\ Last(entries).tokens < BlockSize
SharedTail(entries) == PartialTail(entries) /\ refs[Last(entries).block] > 1

\* How many of n tokens go into the partial tail.
Fill(entries, n) ==
    IF PartialTail(entries) THEN Lesser(BlockSize - Last(entries).tokens, n) ELSE 0

\* _required_blocks_for_append: a copy of a shared tail, and blocks for the rest.
Copies(entries) == IF SharedTail(entries) THEN 1 ELSE 0
Required(r, n) == Copies(table[r]) + BlocksFor(n - Fill(table[r], n))

\* How many entries lie wholly within the first n tokens, and what remains of
\* the next one.
Whole(entries, n) == Cardinality({i \in DOMAIN entries : Start(i) + entries[i].tokens <= n})
Remainder(entries, n) ==
    IF Whole(entries, n) < Len(entries) THEN n - Start(Whole(entries, n) + 1) ELSE 0

\* What becomes of blocks that lose a reference.
Unshared(b) == refs[b] = 1
Freed(S) == {b \in S : Unshared(b)}
Dropped(S) == [b \in Blocks |-> IF b \in S THEN refs[b] - 1 ELSE refs[b]]

-----------------------------------------------------------------------------
(* Operations of the pool *)

Create(r) ==
    /\ phase # "commit" /\ r \notin Live
    /\ table' = [table EXCEPT ![r] = <<>>]
    /\ UNCHANGED <<free, refs, used, length, slab, batchVars>>

\* append_tokens: the partial tail is filled, in a copy if it is shared, and new
\* entries take what remains.  fresh are the blocks taken, first that of the copy.
Untouched(entries) == IF PartialTail(entries) THEN Front(entries) ELSE entries
Filled(entries, n, fresh) ==
    IF ~PartialTail(entries) THEN <<>>
    ELSE <<[block |-> IF SharedTail(entries) THEN fresh[1] ELSE Last(entries).block,
            tokens |-> Last(entries).tokens + Fill(entries, n)]>>
Added(entries, n, fresh) ==
    LET rest == n - Fill(entries, n)
    IN  [j \in 1..BlocksFor(rest) |->
           [block |-> fresh[Copies(entries) + j],
            tokens |-> Lesser(BlockSize, rest - Start(j))]]
Written(entries, n, fresh) == Filled(entries, n, fresh) \o Added(entries, n, fresh)
Grown(entries, n, fresh) == Untouched(entries) \o Written(entries, n, fresh)

\* append_delta: the table grows, the shared tail is copied and the new token
\* states are written at their logical positions.
Extend(r, delta, fresh) ==
    LET entries == table[r]
        n == Len(delta)
        after == Grown(entries, n, fresh)
        written == BlocksOf(Written(entries, n, fresh))
        Place(b) == CHOOSE i \in DOMAIN after : after[i].block = b
        \* the content of slot s of the block at entry i
        Content(i, s) ==
            IF Start(i) + s - length[r] \in 1..n THEN delta[Start(i) + s - length[r]]
            ELSE IF SharedTail(entries) /\ i = Len(entries) /\ s <= Last(entries).tokens
                 THEN slab[Last(entries).block][s]
            ELSE slab[after[i].block][s]
    IN
    /\ length' = [length EXCEPT ![r] = @ + n]
    /\ table' = [table EXCEPT ![r] = after]
    /\ refs' = [b \in Blocks |->
                  IF b \in ToSet(fresh) THEN 1
                  ELSE IF SharedTail(entries) /\ b = Last(entries).block THEN refs[b] - 1
                  ELSE refs[b]]
    /\ used' = [b \in Blocks |->
                  IF b \in written THEN Greater(used[b], after[Place(b)].tokens)
                  ELSE used[b]]
    /\ slab' = [b \in Blocks |->
                  IF b \in written THEN [s \in Slots |-> Content(Place(b), s)]
                  ELSE slab[b]]

\* The ways to take n blocks, in some order, from a set of unallocated ones.
Picks(S, n) == {fresh \in [1..n -> S] : IsInjective(fresh)}

\* append_delta without a reservation; too few free blocks raise MemoryError.
AppendDelta(r, delta) ==
    /\ phase # "commit" /\ r \in Live
    /\ length[r] + Len(delta) <= MaxLength
    /\ \E fresh \in Picks(free, Required(r, Len(delta))) :
          /\ Extend(r, delta, fresh)
          /\ free' = free \ ToSet(fresh)
    /\ UNCHANGED batchVars

\* fork_request of the first n tokens: whole entries are shared, the rest of the
\* next one is copied into a block of its own.
Fork(source, target, n) ==
    LET entries == table[source]
        rest == Remainder(entries, n)
        shared == SubSeq(entries, 1, Whole(entries, n))
    IN
    /\ phase # "commit" /\ source \in Live /\ target \notin Live /\ n <= length[source]
    /\ length' = [length EXCEPT ![target] = n]
    /\ \E clones \in kSubset(IF rest > 0 THEN 1 ELSE 0, free) :
          /\ free' = free \ clones
          /\ table' = [table EXCEPT ![target] =
                shared \o SetToSeq({[block |-> b, tokens |-> rest] : b \in clones})]
          /\ refs' = [b \in Blocks |->
                IF b \in clones THEN 1
                ELSE IF b \in BlocksOf(shared) THEN refs[b] + 1 ELSE refs[b]]
          /\ used' = [b \in Blocks |-> IF b \in clones THEN rest ELSE used[b]]
          /\ slab' = [b \in Blocks |-> [s \in Slots |->
                IF b \in clones /\ s <= rest
                THEN slab[entries[Len(shared) + 1].block][s] ELSE slab[b][s]]]
    /\ UNCHANGED batchVars

\* The blocks of S lose a reference, and those without one become free.
ReleaseRefs(S) ==
    /\ refs' = Dropped(S)
    /\ free' = free \cup Freed(S)

\* truncate: a tail that is cut short stays in its block, whose used_tokens only
\* shrink when nobody shares it.  Freed blocks keep their contents.
Truncate(r, n) ==
    LET entries == table[r]
        whole == Whole(entries, n)
        rest == Remainder(entries, n)
        cut == IF rest > 0 THEN {entries[whole + 1].block} ELSE {}
        dropped == BlocksOf(entries) \ (BlocksOf(SubSeq(entries, 1, whole)) \cup cut)
    IN
    /\ phase # "commit" /\ r \in Live /\ n < length[r]
    /\ length' = [length EXCEPT ![r] = n]
    /\ ReleaseRefs(dropped)
    /\ used' = [b \in Blocks |-> IF b \in Freed(dropped) THEN 0
                                ELSE IF b \in cut /\ Unshared(b) THEN rest ELSE used[b]]
    /\ table' = [table EXCEPT ![r] =
          SubSeq(entries, 1, whole) \o SetToSeq({[block |-> b, tokens |-> rest] : b \in cut})]
    /\ UNCHANGED <<slab, batchVars>>

\* release_request zeroes the contents of the blocks it frees.
Release(r) ==
    LET blocks == BlocksOf(table[r]) IN
    /\ phase # "commit" /\ r \in Live
    /\ ReleaseRefs(blocks)
    /\ used' = [b \in Blocks |-> IF b \in Freed(blocks) THEN 0 ELSE used[b]]
    /\ slab' = [b \in Blocks |-> IF b \in Freed(blocks) THEN [s \in Slots |-> Zero]
                                ELSE slab[b]]
    /\ table' = [table EXCEPT ![r] = None]
    /\ length' = [length EXCEPT ![r] = 0]
    /\ UNCHANGED batchVars

-----------------------------------------------------------------------------
(* A decode batch: one more token for each of its requests *)

\* _batch_required_blocks adds up what each request needs by itself: the blocks
\* needed are told apart by the request and a number.
Needs(S) == UNION {{r} \X (1..Required(r, 1)) : r \in S}
Demand(S) == Cardinality(Needs(S))

\* Variants that fence nothing and that trust the reservation, for the mutants.
ReserveUnfenced(S) ==
    /\ phase = "idle" /\ S # {} /\ S \subseteq Live
    /\ \A r \in S : length[r] < MaxLength
    /\ pending' \in kSubset(Demand(S), free)
    /\ batch' = S /\ phase' = "model"
    /\ UNCHANGED <<free, refs, used, table, length, slab>>
CommitUnchecked ==
    /\ phase = "model" /\ batch \subseteq Live
    /\ phase' = "commit"
    /\ UNCHANGED <<free, refs, used, table, length, slab, batch, pending>>

\* A reservation takes n blocks from the free list, and gives back what is left.
ReserveBlocks(n) ==
    \E fenced \in kSubset(n, free) : pending' = fenced /\ free' = free \ fenced
ReleaseReservation == free' = free \cup pending /\ pending' = {}

\* decode_batch checks the lengths and fences the blocks; then the model runs.
Reserve(S) ==
    /\ phase = "idle" /\ S # {} /\ S \subseteq Live
    /\ \A r \in S : length[r] < MaxLength
    /\ ReserveBlocks(Demand(S))
    /\ batch' = S /\ phase' = "model"
    /\ UNCHANGED <<refs, used, table, length, slab>>

\* append_batch_delta finds every request known and the reservation large enough.
Commit ==
    /\ phase = "model" /\ batch \subseteq Live
    /\ Demand(batch) <= Cardinality(pending)
    /\ phase' = "commit"
    /\ UNCHANGED <<free, refs, used, table, length, slab, batch, pending>>

CommitOne(r, token) ==
    /\ phase = "commit" /\ r \in batch
    /\ \E fresh \in Picks(pending, Required(r, 1)) :
          /\ Extend(r, <<token>>, fresh)
          /\ pending' = pending \ ToSet(fresh)
    /\ batch' = batch \ {r}
    /\ UNCHANGED <<free, phase>>

\* The finally of decode_batch: after the commit, or after the model or the
\* checks of append_batch_delta raised.
EndBatch ==
    /\ phase = "model" \/ (phase = "commit" /\ batch = {})
    /\ ReleaseReservation
    /\ batch' = {} /\ phase' = "idle"
    /\ UNCHANGED <<refs, used, table, length, slab>>

Deltas == UNION {[1..n -> Tokens] : n \in 1..MaxDelta}

Next ==
    \/ \E r \in Requests : Create(r) \/ Release(r)
    \/ \E r \in Requests, delta \in Deltas : AppendDelta(r, delta)
    \/ \E s, t \in Requests : \E n \in 0..length[s] : Fork(s, t, n)
    \/ \E r \in Requests : \E n \in 0..length[r] : Truncate(r, n)
    \/ \E S \in SUBSET Requests : Reserve(S)
    \/ Commit \/ EndBatch
    \/ \E r \in Requests, token \in Tokens : CommitOne(r, token)

Spec == Init /\ [][Next]_vars

-----------------------------------------------------------------------------
(* Properties *)

\* A block is referenced exactly as often as tables name it
\* (kv_block_allocator.py:428-431), twice by a table that names it twice; it is
\* free, or fenced by the reservation, or referenced, and only a referenced
\* block counts as used (kv_block_allocator.py:433-444).
Mentions(b) == UNION {{r} \X {i \in DOMAIN table[r] : table[r][i].block = b} : r \in Live}
BlocksAreAccounted ==
    /\ free \cap pending = {}
    /\ \A b \in Blocks : /\ refs[b] = Cardinality(Mentions(b))
                         /\ refs[b] = 0 <=> b \in free \cup pending
                         /\ refs[b] = 0 <=> used[b] = 0

\* The view a request has of a block is within what was written to it, only the
\* last block of a table is partly filled, and the tokens of the blocks add up
\* to the sequence, whatever its sharers do (kv_block_allocator.py:404-424).
ViewsAreBacked ==
    \A r \in Live :
        LET entries == table[r] IN
        /\ \A i \in DOMAIN entries : entries[i].tokens <= used[entries[i].block]
        /\ \A i \in DOMAIN entries : i < Len(entries) => entries[i].tokens = BlockSize
        /\ length[r] = IF entries = <<>> THEN 0 ELSE Start(Len(entries)) + Last(entries).tokens

\* Once append_batch_delta has started to commit, the reservation covers every
\* request that is left, so capacity never stops it half way
\* (kv_tensor_pool.py:220-223).
CommitNeverRunsDry ==
    phase = "commit" => Demand(batch) <= Cardinality(pending)

\* While the model runs over a batch, no other caller of the allocator gets one
\* of its fenced blocks (kv_block_allocator.py:57-60).
FencedBlocksStay ==
    [][phase = "model" => \A b \in pending : refs'[b] = 0]_vars

\* materialize: the contents a request reads through its table.  The entries
\* before the last are full (ViewsAreBacked), so the states concatenated there
\* lie where append_delta puts them.
EntryAt(p) == ((p - 1) \div BlockSize) + 1
SlotAt(p) == ((p - 1) % BlockSize) + 1
Materialize(r) ==
    IF r \notin Live THEN None
    ELSE [p \in 1..length[r] |-> slab[table[r][EntryAt(p)].block][SlotAt(p)]]

\* Behind shared blocks, copies and stale contents, each request has a cache of
\* its own.  Each call does to it what its arguments say, tokens, source and
\* length, and no call changes what another request reads.
Store == INSTANCE KVStore
    WITH cache <- [r \in Requests |-> Materialize(r)], Appends <- Deltas

CallsDoAsTheySay ==
    /\ \A r \in Requests : (Create(r) => Store!Create(r)) /\ (Release(r) => Store!Release(r))
    /\ \A r \in Requests, delta \in Deltas : AppendDelta(r, delta) => Store!Extend(r, delta)
    /\ \A s, t \in Requests : \A n \in 0..length[s] : Fork(s, t, n) => Store!Fork(s, t, n)
    /\ \A r \in Requests : \A n \in 0..length[r] : Truncate(r, n) => Store!Truncate(r, n)
    /\ \A r \in Requests, token \in Tokens : CommitOne(r, token) => Store!Extend(r, <<token>>)

ImplementsStore == Store!Spec /\ [][CallsDoAsTheySay]_vars
=============================================================================
