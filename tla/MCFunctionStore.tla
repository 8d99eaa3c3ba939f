-------------------------- MODULE MCFunctionStore --------------------------
(* Instances of FunctionStore for TLC. *)
EXTENDS FunctionStore, TLC

CONSTANTS n1, n2, r1, r2, r3

OneName    == {n1}
TwoNames   == {n1, n2}
TwoReqs    == {r1, r2}
ThreeReqs  == {r1, r2, r3}
RestApi    == {"save", "delete", "settings"}
TwoGiven   == {"deployed", "undeployed"}
FourGiven  == TwoGiven \cup {"none", "nil"}
SaveAndSet == {"saveDraft", "settings"}

Symmetry == Permutations(Name) \cup Permutations(Req)
=============================================================================
