------------------------- MODULE ContinuousBatching -------------------------
(***************************************************************************)
(* continuous_batching.py over scheduler.py and the prefix cache: requests *)
(* join and leave a running batch.  One call of step decodes a token for   *)
(* the oldest decoding requests, then prefills the waiting prompts that    *)
(* fit, one after the other; a call that finds the pool dry raises in the  *)
(* middle of that.  The engine is driven by one thread.                    *)
(*                                                                         *)
(* Beside it, the scene "cache" lets callers use the two prefix caches     *)
(* directly, as their tests do.                                            *)
(***************************************************************************)
EXTENDS PrefixCache

CONSTANTS
    MaxNews,     \* values of max_new_tokens
    Times,       \* values of arrival_time
    Eos,
    MaxBatch,    \* max_batch_size
    MaxPrefill   \* max_prefill_tokens

ASSUME BatchingAssumption ==
    /\ MaxNews \subseteq Nat /\ Times \subseteq Nat
    /\ MaxBatch \in Nat \ {0} /\ MaxPrefill \in Nat \ {0}

VARIABLES
    scene,      \* "serve" or "cache", fixed at the start
    prompt,     \* of a request of the engine, None before it was submitted
    maxNew,
    arrived,    \* arrival_time
    status,     \* of the scheduler, "unknown" to it at first
    generated,  \* generated_tokens
    pending,    \* pending_token
    todo        \* the prefill batch of the running step, what is left of it

requestVars == <<prompt, maxNew, arrived, status, generated, pending>>
vars == <<cacheVars, scene, requestVars, todo>>

Waiting == {r \in Requests : status[r] = "waiting"}
Decoding == {r \in Requests : status[r] = "decode"}
Terminal == {r \in Requests : status[r] \in {"finished", "cancelled"}}

TypeOK ==
    /\ CacheTypeOK
    /\ scene \in {"serve", "cache"}
    /\ prompt \in [Requests -> Prompts \cup {None}]
    /\ maxNew \in [Requests -> MaxNews] /\ arrived \in [Requests -> Times]
    /\ status \in [Requests -> {"unknown", "waiting", "decode", "finished", "cancelled"}]
    /\ generated \in [Requests -> Seq(Tokens)]
    /\ pending \in [Requests -> Tokens \cup {None}]
    /\ todo \in Seq(Requests)

Init ==
    /\ CacheInit
    /\ scene \in {"serve", "cache"} /\ (scene = "cache" => ample)
    /\ prompt = [r \in Requests |-> None]
    /\ maxNew = [r \in Requests |-> Max(MaxNews)]
    /\ arrived = [r \in Requests |-> Max(Times)]
    /\ status = [r \in Requests |-> "unknown"]
    /\ generated = [r \in Requests |-> <<>>]
    /\ pending = [r \in Requests |-> None]
    /\ todo = <<>>

Before(q, r) == arrived[q] < arrived[r] \/ (arrived[q] = arrived[r] /\ q < r)
Oldest(S) == SetToSortSeq(S, Before)

-----------------------------------------------------------------------------
(* What callers do between steps *)

\* The scheduler takes a request in, unless it has no tokens to generate.
Enqueue(r, n, time) ==
    IF n = 0
    THEN UNCHANGED <<maxNew, arrived, status>>
    ELSE /\ maxNew' = [maxNew EXCEPT ![r] = n]
         /\ arrived' = [arrived EXCEPT ![r] = time]
         /\ status' = [status EXCEPT ![r] = "waiting"]

\* submit: the engine notes the request before the scheduler looks at it, so
\* one that is refused there stays known to the engine.
Submit(r, s, n, time) ==
    /\ todo = <<>> /\ prompt[r] = None /\ Len(s) + n <= MaxLength
    /\ prompt' = [prompt EXCEPT ![r] = s]
    /\ Enqueue(r, n, time)
    /\ UNCHANGED <<cacheVars, scene, generated, pending, todo>>

\* A faulty variant: the cache of a cancelled request kept.
CancelHolding(r) ==
    /\ todo = <<>> /\ r \in Waiting \cup Decoding
    /\ status' = [status EXCEPT ![r] = "cancelled"]
    /\ pending' = [pending EXCEPT ![r] = None]
    /\ UNCHANGED <<cacheVars, scene, prompt, maxNew, arrived, generated, todo>>

Cancel(r) ==
    /\ todo = <<>> /\ r \in Waiting \cup Decoding
    /\ status' = [status EXCEPT ![r] = "cancelled"]
    /\ pending' = [pending EXCEPT ![r] = None]
    /\ held' = [held EXCEPT ![r] = None]
    /\ UNCHANGED <<ample, stored, scene, prompt, maxNew, arrived, generated, todo>>

-----------------------------------------------------------------------------
(* One step *)

\* next_decode_batch: the oldest, at most MaxBatch of them.
DecodeBatch == Range(UpTo(Oldest(Decoding), Min({MaxBatch, Cardinality(Decoding)})))

\* next_prefill_batch: in order of arrival, those that still fit; a prompt that
\* does not is passed over.  A faulty variant: admission ends at the first prompt
\* that does not fit.
AdmittedInOrder(w) ==
    LET tokens[i \in 0..Len(w)] == IF i = 0 THEN 0 ELSE tokens[i - 1] + Len(prompt[w[i]])
    IN UpTo(w, Max({i \in 0..Min({MaxBatch, Len(w)}) : tokens[i] <= MaxPrefill}))

Admitted(w) ==
    LET chosen[i \in 0..Len(w)] ==
            IF i = 0 THEN [ids |-> <<>>, tokens |-> 0]
            ELSE LET c == chosen[i - 1]
                     n == c.tokens + Len(prompt[w[i]])
                 IN IF Len(c.ids) < MaxBatch /\ n <= MaxPrefill
                    THEN [ids |-> Append(c.ids, w[i]), tokens |-> n] ELSE c
    IN chosen[Len(w)].ids

PrefillBatch == Admitted(Oldest(Waiting))

\* mark_token: whether this token is a request's last.
IsLast(r, token) == token = Eos \/ Len(generated[r]) + 1 >= maxNew[r]

\* _record_emitted_token for requests that sampled these tokens and hold this:
\* one that ends releases its cache at once.
Record(S, token, holds) ==
    /\ generated' = [r \in Requests |-> IF r \in S THEN Append(generated[r], token[r]) ELSE generated[r]]
    /\ status' = [r \in Requests |->
         IF r \notin S THEN status[r] ELSE IF IsLast(r, token[r]) THEN "finished" ELSE "decode"]
    /\ pending' = [r \in Requests |->
         IF r \notin S THEN pending[r] ELSE IF IsLast(r, token[r]) THEN None ELSE token[r]]
    /\ held' = [r \in Requests |->
         IF r \notin S THEN held[r] ELSE IF IsLast(r, token[r]) THEN None ELSE holds[r]]
    /\ UNCHANGED <<ample, stored, scene, prompt, maxNew, arrived>>

\* The decode lane, at once for the batch.  decode_batch fences the blocks it
\* needs before the model runs: without them the step raises and changes
\* nothing.  It extends the K/V states and neither the index nor the logits.
Extended(r) == [held[r] EXCEPT !.states = Append(@, pending[r])]

DecodeLane ==
    /\ todo = <<>> /\ Decoding # {}
    /\ LET holds == [r \in DecodeBatch |-> Extended(r)]
       IN Record(DecodeBatch, [r \in DecodeBatch |-> Model(holds[r].states)], holds)
    /\ todo' = PrefillBatch

\* The prefill lane of a step that had nothing to decode.
AdmitLane ==
    /\ todo = <<>> /\ Decoding = {} /\ PrefillBatch # <<>>
    /\ todo' = PrefillBatch
    /\ UNCHANGED <<cacheVars, scene, requestVars>>

\* The next prompt of the prefill lane: the last position's logits give its
\* first token.
PrefillNext ==
    /\ todo # <<>>
    /\ LET r == Head(todo)
           h == Prefilled(prompt[r])
       IN Record({r}, [q \in {r} |-> Last(h.greedy)], [q \in {r} |-> h])
    /\ todo' = Tail(todo)

\* The prefill finds the pool dry: the rest of the lane waits for another step.
PrefillRaises ==
    /\ todo # <<>> /\ ~ample
    /\ todo' = <<>>
    /\ UNCHANGED <<cacheVars, scene, requestVars>>

Serve ==
    \/ \E r \in Requests, s \in Prompts, n \in MaxNews, time \in Times : Submit(r, s, n, time)
    \/ \E r \in Requests : Cancel(r)
    \/ DecodeLane \/ AdmitLane \/ PrefillNext \/ PrefillRaises

UseCaches == CacheNext /\ UNCHANGED <<scene, requestVars, todo>>

Next ==
    \/ scene = "serve" /\ Serve
    \/ scene = "cache" /\ UseCaches

\* run_until_idle calls step for as long as it has something to do.  Requests
\* come and go as they like, and nothing is promised of a pool that may run dry.
Fairness == WF_vars(ample /\ scene = "serve" /\ (DecodeLane \/ AdmitLane \/ PrefillNext))

Spec == Init /\ [][Next]_vars /\ Fairness

-----------------------------------------------------------------------------
(* Properties *)

\* What generation by itself gives (GenerationEngine.stream_generate): each
\* token is the model's for the prompt and the tokens before it.
Greedy(s, out) ==
    \A i \in DOMAIN out : out[i] = Model(s \o UpTo(out, i - 1)) /\ (out[i] = Eos => i = Len(out))

\* Prefix reuse, batching, admission order, other requests' ends and refused
\* prefills never show in a request's output: it is the output of generating it
\* alone, no longer than asked for, and complete when the request is finished.
OutputIsModels ==
    \A r \in Requests :
        LET out == generated[r] IN
        /\ out # <<>> => Greedy(prompt[r], out) /\ Len(out) <= maxNew[r]
        /\ status[r] = "finished" => Len(out) = maxNew[r] \/ Last(out) = Eos
        /\ status[r] = "decode" => Len(out) < maxNew[r] /\ Last(out) # Eos

\* Every cache holds the states of its own request's tokens, whoever they were
\* shared from, its logits are those of its registered tokens, and only
\* requests that still decode hold one.
CachesAreTrue ==
    /\ \A r \in Held :
        LET h == held[r] IN
        /\ IsPrefix(h.tokens, h.states)
        /\ h.greedy = Forward(<<>>, h.tokens)
        /\ scene = "serve" => h.states = prompt[r] \o Front(generated[r])
        /\ scene = "cache" => h.states = h.tokens
    /\ \A e \in stored : e.states = e.tokens /\ e.greedy = Model(e.tokens)
    /\ scene = "serve" => Held = Decoding

\* The engine runs idle: every request ends, however many came before it, unless
\* its prompt exceeds what a prefill batch may hold.  Such a request waits for
\* ever, and run_until_idle returns without it.
RunsIdle ==
    (ample /\ scene = "serve") =>
        <>[](/\ todo = <<>> /\ Decoding = {}
             /\ \A r \in Waiting : Len(prompt[r]) > MaxPrefill)
=============================================================================
