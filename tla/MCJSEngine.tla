---------------------------- MODULE MCJSEngine ----------------------------
(* Model values and bounds for checking JSEngine with TLC. *)
EXTENDS JSEngine, TLC

CONSTANTS e1, e2, f1, f2, s1, s2, bad, r1, r2, r3, r4

TwoEvals   == {e1, e2}
TwoFiles   == {f1, f2}
TwoGood    == {s1, s2}
GoodAndBad == {s1, s2, bad}
FourRuns   == {r1, r2, r3, r4}

(* Two runs among two evaluators, or four runs of a single evaluator:      *)
(* behaviours are followed no further than that.                           *)
Started  == {r \in Run : run[r].pc # "idle"}
Made     == {v \in Eval : ev[v].pc # "idle"}
FewRuns  == Cardinality(Started) <= 2 \/ Cardinality(Made) = 1

(* Runs are interchangeable, and so are evaluators, files and good code. *)
Symmetry == Permutations(FourRuns) \cup Permutations(TwoEvals)
              \cup Permutations(TwoFiles) \cup Permutations(TwoGood)
===========================================================================
