------------------------ MODULE MCContinuousBatching ------------------------
(* An instance of ContinuousBatching for TLC. *)
EXTENDS ContinuousBatching, TLC

\* The last is longer than a prefill batch.
PromptsMC == {<<1>>, <<2, 1>>, <<1, 2, 2>>, <<1, 2, 2, 1>>}

\* A model whose answer depends on all tokens and on the order of the last two.
ModelMC(s) ==
    LET sum[i \in 0..Len(s)] == IF i = 0 THEN 2 * Len(s) + 1 ELSE sum[i - 1] + s[i]
    IN (sum[Len(s)] + (IF Len(s) > 1 THEN s[Len(s) - 1] ELSE 0)) % 3
=============================================================================
