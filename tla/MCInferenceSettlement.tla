------------------------ MODULE MCInferenceSettlement ------------------------
(* Instances of InferenceSettlement for TLC.                               *)
EXTENDS InferenceSettlement, TLC
CONSTANTS r1, r2, r3, Purse
Symmetry      == Permutations(Settlers)
ThreeRequests == <<r1, r2, r3>>
TwoRequests   == <<r1, r2>>
MCUserOf  == [r \in Requests |-> IF r = r3 THEN "bob" ELSE "alice"]
MCFee     == [r \in Requests |-> 1]
MCDeposit == [u \in Users |-> IF u = "alice" THEN Purse ELSE Purse - 2]
==============================================================================
