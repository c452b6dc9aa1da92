------------------------------ MODULE Ordering ------------------------------
(***************************************************************************)
(* A finite set listed by a numeric key: SELECT ... ORDER BY, and a filter *)
(* that keeps the order of the list it filters.                            *)
(***************************************************************************)
EXTENDS Naturals, FiniteSets, Sequences, Functions

\* s has the elements of S, each once, by their key.
Sorts(s, S, key) ==
    /\ Range(s) = S
    /\ \A k, l \in DOMAIN s : k < l => key[s[k]] < key[s[l]]
Ordered(S, key) == CHOOSE s \in [1..Cardinality(S) -> S] : Sorts(s, S, key)
=============================================================================
