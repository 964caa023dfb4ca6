----------------------------- MODULE MCConsensus ------------------------------
(* Instances of Consensus, and of what is claimed of it, for TLC: four        *)
(* replicas, the least with F = 1, one or two of them followed.               *)
EXTENDS Claims, TLC

CONSTANTS n1, n2, n3, n4

\* What the replicas that are not followed may have sent.
FreshVotes    == {v \in VoterVotes : v.ViewID = View}
OnlyVotes     == {OKVotes(VoterVotes)}
OneVote       == {{v \in OKVotes(VoterVotes) : v.NodeID = n3}}
StaleVotes    == {v \in VoterVotes : v.ViewID = StaleView}
FewFresh      == {W \in SUBSET FreshVotes : Cardinality(OKVotes(W)) <= 1}
FewAndStale   == {W \cup {v} : W \in {X \in FewFresh : Cardinality(X) = 2}, v \in StaleVotes}
FewVotes      == {W \in FewFresh \cup FewAndStale :
                    \A v, w \in W : v.NodeID = w.NodeID => v.ViewID = w.ViewID}
AllOrFewVotes == FewVotes \cup {FreshVotes}

\* Which timers may expire.
AnyTimer      == Learners \X Phase
PrepareTimer1 == {<<n1, "Prepare">>}
VoteTimer1    == {<<n1, "Vote">>}

VoterSymmetry == Permutations(Nodes \ Learners)
===============================================================================
