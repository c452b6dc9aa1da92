--------------------------- MODULE MCKVTensorPool ---------------------------
(* An instance of KVTensorPool for TLC. *)
EXTENDS KVTensorPool, TLC

CONSTANTS r1, r2, b1, b2, b3, x, y

RequestsMC == {r1, r2}
BlocksMC == {b1, b2, b3}
TokensMC == {x, y}

\* Requests, blocks and the states of tokens are interchangeable.
Symmetry ==
    Permutations(Requests) \cup Permutations(Blocks) \cup Permutations(TokensMC)
=============================================================================
