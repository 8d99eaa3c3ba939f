----------------------------- MODULE MCKVSender -----------------------------
(* Model values and bounds for checking KVSender with TLC. *)
EXTENDS KVSender, TLC

CONSTANTS n1, n2, v1, v2, r1, r2

TwoNodes    == {n1, n2}
TwoVbs      == {v1, v2}
OneVb       == {v1}
OneNode     == {n1}
OneVbConfig == {1}
OneRequest  == {r1}
TwoRequests == {r1, r2}

StreamCommands == Kinds
RacyCommands   == Kinds \cup {"config"}
EveryCommand   == Kinds \cup {"config", "unknown", "shutdown"}

FullConfig  == {2}
RacyConfig  == {1, 2}

(* Nodes and vbuckets are interchangeable; safety runs only. *)
Symmetry == Permutations(TwoNodes) \cup Permutations(TwoVbs)
=============================================================================
