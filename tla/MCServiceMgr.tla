---------------------------- MODULE MCServiceMgr ----------------------------
(* Model values and bounds for checking ServiceMgr with TLC. *)
EXTENDS ServiceMgr, TLC

CONSTANTS c1, c2, p1, p2

TwoChanges == {c1, c2}
TwoPolls   == {p1, p2}
OnePoll    == {p1}

(* Polls are interchangeable, changes too; safety runs only. *)
Symmetry == Permutations(TwoChanges) \cup Permutations(TwoPolls)
=============================================================================
