------------------------------ MODULE PBFTState ------------------------------
(***************************************************************************)
(* The consensus State of one replica for one sequence number, and the     *)
(* pure decision rules the network layer calls on it                        *)
(* (pbft/consensus/pbft_impl.go).                                           *)
(*                                                                          *)
(* Everything here is about ONE sequence number, so SequenceID is left out; *)
(* an operator that returns an empty message (SequenceID 0) in the code     *)
(* answers "NONE" here.  Digests, request payloads and SentVoteMsg are      *)
(* never compared or branched on by the code (the digest test of verifyMsg  *)
(* has an empty body) and are left out as well.                             *)
(***************************************************************************)
EXTENDS Integers, FiniteSets

CONSTANTS Nodes,        \* the committee (NodeTable)
          View,         \* the view ID the proposal of this sequence carries
          StaleView     \* any other view ID a State may have captured

ASSUME NodesAssumption == IsFiniteSet(Nodes) /\ Nodes # {}
ASSUME ViewAssumption  == View # StaleView

N == Cardinality(Nodes)
F == (N - 1) \div 3
Quorum == 2 * F + 1

VoteType    == {"VOTE", "REJECT", "NULLMSG"}
CollateType == {"COMMITTED", "UNCOMMITTED"}

\* The two PREPARE messages of a sequence: the primary's, and the empty one a
\* replica makes up when its Prepare timer fires.  Nil is a nil pointer.
Proposal    == "Proposal"
NullPrepare == "NullPrepare"
Nil         == "Nil"
PrepareMsg  == {Proposal, NullPrepare}

VoteMsg == [NodeID : Nodes, ViewID : {View, StaleView},
            MsgType : VoteType, PrepareMsg : PrepareMsg]

\* VoteMsgs is a map keyed by NodeID: here the set of the votes it holds.  Of
\* the collates kept only the senders are ever looked at again.
State == [ViewID : {View, StaleView}, PrepareMsg : PrepareMsg \cup {Nil},
          VoteMsgs : SUBSET VoteMsg, CollateMsgs : SUBSET Nodes,
          TotalVoteMsg : Nat, TotalVoteOKMsg : Nat, TotalCollateMsg : Nat]

CreateState(viewID) ==
  [ViewID |-> viewID, PrepareMsg |-> Nil, VoteMsgs |-> {}, CollateMsgs |-> {},
   TotalVoteMsg |-> 0, TotalVoteOKMsg |-> 0, TotalCollateMsg |-> 0]

Senders(ms) == {m.NodeID : m \in ms}
OKVotes(ms) == {m \in ms : m.MsgType = "VOTE"}

\* The sequence numbers agree by construction, the digest test is empty.
verifyMsg(s, viewID) == s.ViewID = viewID

------------------------------------------------------------------------------
(* Prepare: the State remembers the PREPARE and answers with a vote.        *)

Prepare(s, p) == [s EXCEPT !.PrepareMsg = p]

\* The proposal's view must be the one the State captured, else the vote rejects.
PrepareVote(s, i, p) ==
  [NodeID |-> i, ViewID |-> s.ViewID, PrepareMsg |-> p,
   MsgType |-> IF p = NullPrepare THEN "NULLMSG"
               ELSE IF verifyMsg(s, View) THEN "VOTE" ELSE "REJECT"]

------------------------------------------------------------------------------
(* Vote: the first vote of a sender is kept and counted, and only then      *)
(* verified; the answer is the collate to broadcast.                        *)

\* Mutant of Vote: the test for a second vote of the sender is dropped.
VoteCountedTwice(s, v) ==
  [s EXCEPT !.VoteMsgs = @ \cup {v}, !.TotalVoteMsg = @ + 1,
            !.TotalVoteOKMsg = IF v.MsgType = "VOTE" THEN @ + 1 ELSE @]

Vote(s, v) ==
  IF v.NodeID \in Senders(s.VoteMsgs) THEN s
  ELSE [s EXCEPT !.VoteMsgs = @ \cup {v},
                 !.TotalVoteMsg = @ + 1,
                 !.TotalVoteOKMsg = IF v.MsgType = "VOTE" THEN @ + 1 ELSE @]

\* What the local newTotalVoteOKMsg holds: it stays 0 unless this vote is a VOTE.
NewTotalVoteOKMsg(s, v) ==
  IF v.MsgType = "VOTE" THEN s.TotalVoteOKMsg + 1 ELSE 0

\* Mutant of VoteCommits: at least, not exactly, a quorum.
VoteCommitsAgain(s, v) == NewTotalVoteOKMsg(s, v) >= Quorum

VoteCommits(s, v)   == NewTotalVoteOKMsg(s, v) = Quorum
VoteUncommits(s, v) == s.TotalVoteMsg + 1 = N /\ NewTotalVoteOKMsg(s, v) < Quorum

VoteAnswer(s, v) ==
  CASE v.NodeID \in Senders(s.VoteMsgs) \/ ~verifyMsg(s, v.ViewID) -> "NONE"
    [] OTHER -> IF VoteCommits(s, v) THEN "COMMITTED"
                ELSE IF VoteUncommits(s, v) THEN "UNCOMMITTED" ELSE "NONE"

------------------------------------------------------------------------------
(* The adaptive quorum: every replica not heard of counts as Byzantine and  *)
(* lowers the quorum by one, down to a single vote.                         *)

\* Mutant of AdaptiveQuorum: off by one.
AdaptiveQuorumTooLow(heard) == 2 * F - (N - heard)

AdaptiveQuorum(heard) == 2 * F - (N - heard) + 1

\* Mutant of AdaptiveQuorumMet: the floor of one vote is dropped.
AdaptiveQuorumNoFloor(ok, heard) == ok >= AdaptiveQuorum(heard)

AdaptiveQuorumMet(ok, heard) ==
  ok >= AdaptiveQuorum(heard) /\ AdaptiveQuorum(heard) >= 1

AdaptiveAnswer(ok, heard) ==
  IF AdaptiveQuorumMet(ok, heard) THEN "COMMITTED" ELSE "UNCOMMITTED"

\* Each reads two counters, one after the other, while other goroutines raise them:
\* the first argument is what was read before, the second is read in s.
VoteAQ(ok, s)       == AdaptiveAnswer(ok, s.TotalVoteMsg)
CollateAQ(heard, s) == AdaptiveAnswer(s.TotalVoteOKMsg, heard)

------------------------------------------------------------------------------
(* A collate c is [NodeID, ViewID, MsgType, ReceivedVoteMsg, at].           *)

\* FillHoleVoteMsgs runs over the votes the State ALREADY holds and writes into
\* a copy of the map: no hole is filled, and every VOTE of the collate whose
\* sender is known is counted once more.
RecountedVotes(s, c) ==
  {w \in OKVotes(c.ReceivedVoteMsg) : w.NodeID \in Senders(s.VoteMsgs)}

\* Mutant of FillHoleVoteMsgs: the counter is set, not raised.
FillHoleResets(s, c) == [s EXCEPT !.TotalVoteOKMsg = Cardinality(RecountedVotes(s, c))]

FillHoleVoteMsgs(s, c) ==
  [s EXCEPT !.TotalVoteOKMsg = @ + Cardinality(RecountedVotes(s, c))]

Collate(s, c) ==
  IF c.NodeID \in s.CollateMsgs THEN s
  ELSE [s EXCEPT !.CollateMsgs = @ \cup {c.NodeID}, !.TotalCollateMsg = @ + 1]

CollateAnswer(s, c) ==
  CASE c.NodeID \in s.CollateMsgs \/ ~verifyMsg(s, c.ViewID) -> "NONE"
    [] OTHER -> IF c.MsgType = "COMMITTED" \/ s.TotalVoteOKMsg >= Quorum
                THEN "COMMITTED" ELSE "UNCOMMITTED"
==============================================================================
