----------------------------- MODULE MCViewChange -----------------------------
(* Node 2, the first candidate, in a committee of four.  For sequence 1 the     *)
(* others reach the quorum, and are ahead of node 2 with their ledgers; for      *)
(* sequence 2 its own VIEW-CHANGE is needed, or comes on top of theirs.          *)
EXTENDS ViewChange

MCWatched == {<<2, 2>>}

MCSent(s, N, c) == {[NodeID |-> k, SequenceID |-> s, StableCheckPoint |-> c] : k \in N}

MCOthersSent == {MCSent(1, {0, 1, 3}, 2), MCSent(2, {0, 1}, 0), MCSent(2, {0, 1, 3}, 2)}
===============================================================================
