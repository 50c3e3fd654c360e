--------------------------- MODULE MCInferenceProxy --------------------------
(* An instance of InferenceProxy for TLC.                                  *)
EXTENDS InferenceProxy, TLC
CONSTANTS r1, r2, u1, u2, s1, s2
OneUser  == [r \in Requests |-> u1]
OneToken == [s \in Sessions |-> s1]       \* s2 is the token of s1 with a forged signature
Genuine  == [s \in Sessions |-> s = s1]
Symmetry == Permutations(Requests)
EarlyExpiry == [s \in Sessions |-> 0]
==============================================================================
