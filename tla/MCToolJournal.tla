--------------------------- MODULE MCToolJournal ---------------------------
(* Instances of ToolJournal for TLC. *)
EXTENDS ToolJournal, TLC

CONSTANTS s1, s2, p1, p2, charge, readFile, ok, bad

OneScope == {s1}
TwoScopes == {s1, s2}
OneProcess == {p1}
TwoProcesses == {p1, p2}
CallsMC == {charge, readFile}
RetryableMC == {readFile}
OutcomesMC == {ok, bad}

\* The processes are interchangeable, and so are the outcomes of tools.
Symmetry == Permutations(TwoProcesses) \cup Permutations(OutcomesMC)
=============================================================================
