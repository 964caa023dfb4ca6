--------------------------- MODULE MCTimedConsensus ---------------------------
(* Instances of TimedConsensus for TLC: four replicas, one of them followed.  *)
EXTENDS TimedConsensus, TLC

CONSTANTS n1, n2, n3, n4

\* At least 2F+1 members vote VOTE, or would if their Prepare timer had not raced
\* the PREPARE: two of the others do, the third does so too or is silent.
EnoughVotes == {W \in SUBSET OKVotes(VoterVotes) : Cardinality(W) >= 2}
OnlyVotes   == {OKVotes(VoterVotes)}

LateTimers  == {"Vote", "Collate"}

AnyTimer == Learners \X Phase
===============================================================================
