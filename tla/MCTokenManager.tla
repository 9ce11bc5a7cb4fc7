--------------------------- MODULE MCTokenManager ---------------------------
(* TokenManager for TLC: model values for coroutines, locks and keys, and what providers answer. *)
EXTENDS TokenManager, TLC

\* A provider that never gives a token twice, one that has only one to give, and one that gives
\* its first token twice.
FreshTokens == [k \in Keys |-> [n \in 1..MaxIssued |-> n]]
StaticTokens == [k \in Keys |-> [n \in 1..MaxIssued |-> 1]]
RepeatedTokens == [k \in Keys |-> <<1, 1, 2>>]

Symmetry == Permutations(Callers) \cup Permutations(Tasks) \cup Permutations(Locks)
=============================================================================
