---------------------------- MODULE PrefixCache ----------------------------
(***************************************************************************)
(* physical_prefix_cache.py and prefix_cache.py: a prompt is not forwarded *)
(* through the model again where its prefix already was.  The physical     *)
(* engine forks the K/V blocks of a live request whose tokens start the    *)
(* same way; the reference store keeps entries of its own.                 *)
(*                                                                         *)
(* The pool below is taken as the store of sequences that KVTensorPool     *)
(* implements (KVStore): a K/V state is the token it was computed from,    *)
(* and the logits of a position are the token that is greedily sampled     *)
(* from them.  The model is a function of the whole token sequence, so     *)
(* states or logits shared from the wrong place show in what comes next.   *)
(***************************************************************************)
EXTENDS Naturals, SequencesExt, FiniteSetsExt

CONSTANTS
    Requests,   \* the request ids, numbers in the order of the ids
    Tokens,
    Prompts,
    Model(_),   \* the token the model samples greedily after a sequence
    MaxLength,  \* max_seq_len of the model
    Callers,    \* the ids that direct callers of the cache use
    MaxDirect,  \* bound on the sequences that direct callers decode
    None

ASSUME PrefixAssumption ==
    /\ Requests \subseteq Nat /\ MaxLength \in Nat
    /\ Callers \subseteq Requests /\ MaxDirect \in 0..MaxLength
    /\ Prompts \subseteq Seq(Tokens) \ {<<>>}
    /\ \A s \in Prompts : Len(s) <= MaxLength /\ Model(s) \in Tokens

VARIABLES
    ample,  \* whether the pool has blocks for every request, fixed at the start
    held,   \* of a request: its K/V states, its tokens in the index, its logits
    stored  \* the entries of ReferencePrefixKVStore

cacheVars == <<ample, held, stored>>

Held == {r \in Requests : held[r] # None}

CacheTypeOK ==
    /\ ample \in BOOLEAN
    /\ held \in [Requests ->
         [states : Seq(Tokens), tokens : Seq(Tokens), greedy : Seq(Tokens)] \cup {None}]
    /\ \A e \in stored : DOMAIN e = {"tokens", "states", "greedy"}

CacheInit ==
    /\ ample \in BOOLEAN
    /\ held = [r \in Requests |-> None]
    /\ stored = {}

UpTo(s, n) == SubSeq(s, 1, n)
Beyond(s, n) == SubSeq(s, n + 1, Len(s))

\* One forward of a suffix over cached states: a token for each position.
Forward(states, suffix) == [i \in DOMAIN suffix |-> Model(states \o UpTo(suffix, i))]

-----------------------------------------------------------------------------
(* The physical prefix cache *)

\* The live requests whose registered tokens start with these.
Owners(s) == {r \in Held : IsPrefix(s, held[r].tokens)}

\* longest_match: how many tokens some live request shares.
Matched(tokens) == Max({n \in 0..Len(tokens) : n = 0 \/ Owners(UpTo(tokens, n)) # {}})

\* prefill: what a request holds after it, with n tokens of a source reused.
Reuse(source, tokens, n) ==
    LET shared == UpTo(held[source].states, n) IN
    [states |-> shared \o Beyond(tokens, n),
     tokens |-> tokens,
     greedy |-> UpTo(held[source].greedy, n) \o Forward(shared, Beyond(tokens, n))]

Computed(tokens) == [states |-> tokens, tokens |-> tokens, greedy |-> Forward(<<>>, tokens)]

\* A faulty variant the checks must notice (see the mutants in PROJECT.json): the
\* first token of any live request taken for a match.
PrefilledFromAny(tokens) ==
    IF Held = {} THEN Computed(tokens) ELSE Reuse(Min(Held), tokens, Min({1, Len(tokens)}))

Prefilled(tokens) ==
    LET n == Matched(tokens) IN
    IF n = 0 THEN Computed(tokens) ELSE Reuse(Min(Owners(UpTo(tokens, n))), tokens, n)

\* A call that finds no blocks raises and takes back what it had created, so
\* it is not a step of the cache.
Prefill(r, tokens) ==
    /\ r \notin Held
    /\ held' = [held EXCEPT ![r] = Prefilled(tokens)]
    /\ UNCHANGED <<ample, stored>>

Decoded(h, token) ==
    [states |-> Append(h.states, token),
     tokens |-> Append(h.tokens, token),
     greedy |-> Append(h.greedy, Model(Append(h.states, token)))]

DecodeOne(r, token) ==
    /\ r \in Held /\ Len(held[r].states) < MaxDirect
    /\ held' = [held EXCEPT ![r] = Decoded(@, token)]
    /\ UNCHANGED <<ample, stored>>

Release(r) ==
    /\ r \in Held
    /\ held' = [held EXCEPT ![r] = None]
    /\ UNCHANGED <<ample, stored>>

-----------------------------------------------------------------------------
(* The reference prefix store *)

\* longest_prefix: the longest entry that the prompt starts with.
Entries(tokens) == {e \in stored : IsPrefix(e.tokens, tokens)}
Longest(E) == CHOOSE e \in E : \A f \in E : Len(f.tokens) <= Len(e.tokens)

Put(tokens, states) ==
    stored' = {e \in stored : e.tokens # tokens}
        \cup {[tokens |-> tokens, states |-> states, greedy |-> Model(states)]}

StorePrefill(tokens) ==
    LET E == Entries(tokens)
        past == IF E = {} THEN <<>> ELSE Longest(E).states
    IN
    /\ \A e \in E : e.tokens # tokens  \* an exact hit changes nothing
    /\ Put(tokens, past \o Beyond(tokens, Len(past)))
    /\ UNCHANGED <<ample, held>>

\* The engine's own callers: each of its operations, and the store's.
CacheNext ==
    \/ \E r \in Callers, s \in Prompts : Prefill(r, s)
    \/ \E r \in Callers, t \in Tokens : DecodeOne(r, t)
    \/ \E r \in Callers : Release(r)
    \/ \E s \in Prompts : StorePrefill(s)
=============================================================================
