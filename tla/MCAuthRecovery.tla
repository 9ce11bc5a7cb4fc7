--------------------------- MODULE MCAuthRecovery ---------------------------
(* AuthRecovery for TLC: an Authorization binding and an API key, alone and together. *)
EXTENDS AuthRecovery, TLC

CONSTANT ApiKey

SampleAlternatives == {<<>>, <<ApiKey, Bearer>>, <<ApiKey, ApiKey>>}

SampleBounds == [k \in Keys |-> IF k = Bearer THEN 3 ELSE 1]

\* The provider of the Authorization header gives its first access token twice.
SampleTokens == [k \in Keys |-> IF k = Bearer THEN <<1, 1, 2>> ELSE <<1>>]

Symmetry == Permutations(Callers)
=============================================================================
