------------------------------ MODULE KVStore ------------------------------
(***************************************************************************)
(* What the paged KV cache promises: every live request has a cache of its *)
(* own, a sequence of token states.  Each operation says exactly what that *)
(* sequence becomes and leaves every other one alone.  Blocks, sharing and *)
(* copies are invisible here.                                              *)
(***************************************************************************)
EXTENDS Naturals, Sequences

CONSTANTS
    Requests,
    Appends,  \* the token states one call may append
    None

VARIABLES cache  \* the token states of a request, None when it is not live

Live(r) == cache[r] # None

Init == cache = [r \in Requests |-> None]

Create(r) == ~Live(r) /\ cache' = [cache EXCEPT ![r] = <<>>]

\* The target starts from the first n token states of the source.
Fork(source, target, n) ==
    /\ Live(source) /\ ~Live(target) /\ n <= Len(cache[source])
    /\ cache' = [cache EXCEPT ![target] = SubSeq(cache[source], 1, n)]

Extend(r, delta) == Live(r) /\ cache' = [cache EXCEPT ![r] = @ \o delta]

Truncate(r, n) ==
    Live(r) /\ n < Len(cache[r]) /\ cache' = [cache EXCEPT ![r] = SubSeq(@, 1, n)]

Release(r) == Live(r) /\ cache' = [cache EXCEPT ![r] = None]

Next ==
    \E r \in Requests :
        \/ Create(r) \/ Release(r)
        \/ \E delta \in Appends : Extend(r, delta)
        \/ Live(r) /\ \E n \in 0..Len(cache[r]) : Truncate(r, n) \/ \E t \in Requests : Fork(r, t, n)

Spec == Init /\ [][Next]_cache
=============================================================================
