--------------------------- MODULE PBFTStateProofs ---------------------------
(***************************************************************************)
(* Lemmas about the decision rules of PBFTState: what each rule preserves   *)
(* of the types and of the counters.                                        *)
(***************************************************************************)
EXTENDS PBFTState, FiniteSetTheorems, TLAPS

\* The fault bound and the quorum are what the code computes from n.
LEMMA QuorumFacts ==
  /\ N \in Nat \ {0} /\ F \in Nat /\ Quorum \in Nat /\ Quorum >= 1
  /\ 3 * F + 1 <= N
<1>1. N \in Nat /\ N # 0
  BY NodesAssumption, FS_CardinalityType, FS_EmptySet DEF N
<1>2. F \in Nat /\ 3 * F <= N - 1
  BY <1>1 DEF F
<1> QED  BY <1>1, <1>2 DEF Quorum

LEMMA CreateStateType ==
  ASSUME NEW v \in {View, StaleView}
  PROVE  CreateState(v) \in State
BY DEF CreateState, State, PrepareMsg

LEMMA PrepareType ==
  ASSUME NEW s \in State, NEW p \in PrepareMsg
  PROVE  Prepare(s, p) \in State
BY DEF Prepare, State

LEMMA PrepareVoteType ==
  ASSUME NEW s \in State, NEW i \in Nodes, NEW p \in PrepareMsg
  PROVE  /\ PrepareVote(s, i, p) \in VoteMsg
         /\ PrepareVote(s, i, p).PrepareMsg = p
BY DEF PrepareVote, State, VoteMsg, VoteType

------------------------------------------------------------------------------
(* The maps are finite and the counters agree with them.                    *)

Finite(s) == IsFiniteSet(s.VoteMsgs) /\ IsFiniteSet(s.CollateMsgs)

Counted(s) ==
  /\ Finite(s)
  /\ s.TotalVoteMsg = Cardinality(s.VoteMsgs)
  /\ s.TotalVoteMsg = Cardinality(Senders(s.VoteMsgs))
  /\ s.TotalCollateMsg = Cardinality(s.CollateMsgs)
  /\ s.TotalVoteOKMsg >= Cardinality(OKVotes(s.VoteMsgs))

Exact(s) == s.TotalVoteOKMsg = Cardinality(OKVotes(s.VoteMsgs))

LEMMA CreateStateCounted ==
  ASSUME NEW v
  PROVE  Counted(CreateState(v)) /\ Exact(CreateState(v))
<1>1. Senders({}) = {} /\ OKVotes({}) = {}
  BY DEF Senders, OKVotes
<1> QED
  BY <1>1, FS_EmptySet DEF CreateState, Counted, Exact, Finite

\* Adding a vote of a new sender adds one vote, one sender and at most one VOTE.
LEMMA AddVote ==
  ASSUME NEW ms, IsFiniteSet(ms), NEW v \in VoteMsg, v.NodeID \notin Senders(ms)
  PROVE  /\ IsFiniteSet(ms \cup {v})
         /\ Cardinality(ms \cup {v}) = Cardinality(ms) + 1
         /\ IsFiniteSet(Senders(ms))
            => Cardinality(Senders(ms \cup {v})) = Cardinality(Senders(ms)) + 1
         /\ Cardinality(OKVotes(ms)) \in Nat
         /\ Cardinality(OKVotes(ms \cup {v})) =
              Cardinality(OKVotes(ms)) + (IF v.MsgType = "VOTE" THEN 1 ELSE 0)
<1>1. v \notin ms
  BY DEF Senders
<1>2. Senders(ms \cup {v}) = Senders(ms) \cup {v.NodeID}
  BY DEF Senders
<1>3. IsFiniteSet(OKVotes(ms)) /\ v \notin OKVotes(ms)
  BY <1>1, FS_Subset DEF OKVotes
<1>4. OKVotes(ms \cup {v}) =
        IF v.MsgType = "VOTE" THEN OKVotes(ms) \cup {v} ELSE OKVotes(ms)
  BY DEF OKVotes
<1>5. IsFiniteSet(ms \cup {v}) /\ Cardinality(ms \cup {v}) = Cardinality(ms) + 1
  BY <1>1, FS_AddElement
<1>6. IsFiniteSet(Senders(ms)) =>
        Cardinality(Senders(ms \cup {v})) = Cardinality(Senders(ms)) + 1
  BY <1>2, FS_AddElement
<1>7. Cardinality(OKVotes(ms)) \in Nat
  BY <1>3, FS_CardinalityType
<1>8. Cardinality(OKVotes(ms) \cup {v}) = Cardinality(OKVotes(ms)) + 1
  BY <1>3, FS_AddElement
<1> QED  BY <1>4, <1>5, <1>6, <1>7, <1>8

LEMMA NewVote ==
  ASSUME NEW s \in State, NEW v \in VoteMsg, v.NodeID \notin Senders(s.VoteMsgs)
  PROVE  /\ Vote(s, v) \in State
         /\ Vote(s, v).ViewID = s.ViewID
         /\ Vote(s, v).PrepareMsg = s.PrepareMsg
         /\ Vote(s, v).CollateMsgs = s.CollateMsgs
         /\ Vote(s, v).TotalCollateMsg = s.TotalCollateMsg
         /\ Vote(s, v).VoteMsgs = s.VoteMsgs \cup {v}
         /\ Vote(s, v).TotalVoteMsg = s.TotalVoteMsg + 1
         /\ Vote(s, v).TotalVoteOKMsg =
              s.TotalVoteOKMsg + (IF v.MsgType = "VOTE" THEN 1 ELSE 0)
<1> DEFINE t == Vote(s, v)
           ok == s.TotalVoteOKMsg + (IF v.MsgType = "VOTE" THEN 1 ELSE 0)
<1>1. s.VoteMsgs \cup {v} \in SUBSET VoteMsg /\ s.TotalVoteMsg + 1 \in Nat /\ ok \in Nat
  BY DEF State
<1>2. t = [s EXCEPT !.VoteMsgs = s.VoteMsgs \cup {v},
                    !.TotalVoteMsg = s.TotalVoteMsg + 1,
                    !.TotalVoteOKMsg = ok]
  <2>1. CASE v.MsgType = "VOTE"
    BY <2>1 DEF Vote
  <2>2. CASE v.MsgType # "VOTE"
    BY <2>2, s.TotalVoteOKMsg + 0 = s.TotalVoteOKMsg DEF Vote, State
  <2> QED  BY <2>1, <2>2
<1> HIDE DEF t, ok
<1>3. t \in State
  BY <1>1, <1>2 DEF State
<1>4. /\ t.ViewID = s.ViewID /\ t.PrepareMsg = s.PrepareMsg
      /\ t.CollateMsgs = s.CollateMsgs /\ t.TotalCollateMsg = s.TotalCollateMsg
      /\ t.VoteMsgs = s.VoteMsgs \cup {v} /\ t.TotalVoteMsg = s.TotalVoteMsg + 1
      /\ t.TotalVoteOKMsg = ok
  BY <1>2 DEF State
<1> QED  BY <1>3, <1>4 DEF t, ok

\* Vote keeps the types and, for a vote of a new sender, all counters in step.
LEMMA VoteKeeps ==
  ASSUME NEW s \in State, NEW v \in VoteMsg
  PROVE  /\ Vote(s, v) \in State
         /\ Vote(s, v).ViewID = s.ViewID
         /\ Vote(s, v).PrepareMsg = s.PrepareMsg
         /\ Vote(s, v).CollateMsgs = s.CollateMsgs
         /\ Vote(s, v).VoteMsgs \in {s.VoteMsgs, s.VoteMsgs \cup {v}}
         /\ Vote(s, v).TotalVoteOKMsg >= s.TotalVoteOKMsg
         /\ Vote(s, v).TotalVoteOKMsg > s.TotalVoteOKMsg =>
              v.MsgType = "VOTE" /\ v \in Vote(s, v).VoteMsgs
<1>0. s.TotalVoteOKMsg \in Nat /\ s.TotalVoteMsg \in Nat
  BY DEF State
<1>1. CASE v.NodeID \in Senders(s.VoteMsgs)
  BY <1>0, <1>1 DEF Vote
<1>2. CASE v.NodeID \notin Senders(s.VoteMsgs)
  BY <1>0, <1>2, NewVote
<1> QED  BY <1>1, <1>2

LEMMA VoteCounted ==
  ASSUME NEW s \in State, NEW v \in VoteMsg, Counted(s)
  PROVE  Counted(Vote(s, v)) /\ (Exact(s) => Exact(Vote(s, v)))
<1>1. CASE v.NodeID \in Senders(s.VoteMsgs)
  BY <1>1 DEF Vote
<1>2. CASE v.NodeID \notin Senders(s.VoteMsgs)
  <2> DEFINE t == Vote(s, v)
  <2>1. /\ t.VoteMsgs = s.VoteMsgs \cup {v} /\ t.CollateMsgs = s.CollateMsgs
        /\ t.TotalVoteMsg = s.TotalVoteMsg + 1
        /\ t.TotalVoteOKMsg = s.TotalVoteOKMsg + (IF v.MsgType = "VOTE" THEN 1 ELSE 0)
        /\ t.TotalCollateMsg = s.TotalCollateMsg
    BY <1>2, NewVote
  <2>2. /\ s.TotalVoteMsg \in Nat /\ s.TotalVoteOKMsg \in Nat
        /\ Senders(s.VoteMsgs) \subseteq Nodes
    BY DEF State, Senders, VoteMsg
  <2>3. IsFiniteSet(Senders(s.VoteMsgs))
    BY <2>2, NodesAssumption, FS_Subset
  <2>4. IsFiniteSet(s.VoteMsgs)
    BY DEF Counted, Finite
  <2>5. /\ IsFiniteSet(t.VoteMsgs)
        /\ Cardinality(t.VoteMsgs) = Cardinality(s.VoteMsgs) + 1
        /\ Cardinality(Senders(t.VoteMsgs)) = Cardinality(Senders(s.VoteMsgs)) + 1
        /\ Cardinality(OKVotes(s.VoteMsgs)) \in Nat
        /\ Cardinality(OKVotes(t.VoteMsgs)) =
             Cardinality(OKVotes(s.VoteMsgs)) + (IF v.MsgType = "VOTE" THEN 1 ELSE 0)
    BY <1>2, <2>1, <2>3, <2>4, AddVote
  <2> HIDE DEF t
  <2>6. Counted(t) /\ (Exact(s) => Exact(t))
    BY <2>1, <2>2, <2>5 DEF Counted, Finite, Exact
  <2> QED  BY <2>6 DEF t
<1> QED  BY <1>1, <1>2

\* Filling holes only raises the VOTE counter, and only for a VOTE of the collate.
LEMMA FillHoleKeeps ==
  ASSUME NEW s \in State, NEW c, IsFiniteSet(c.ReceivedVoteMsg)
  PROVE  /\ FillHoleVoteMsgs(s, c) \in State
         /\ FillHoleVoteMsgs(s, c).ViewID = s.ViewID
         /\ FillHoleVoteMsgs(s, c).PrepareMsg = s.PrepareMsg
         /\ FillHoleVoteMsgs(s, c).VoteMsgs = s.VoteMsgs
         /\ FillHoleVoteMsgs(s, c).CollateMsgs = s.CollateMsgs
         /\ FillHoleVoteMsgs(s, c).TotalVoteOKMsg >= s.TotalVoteOKMsg
         /\ FillHoleVoteMsgs(s, c).TotalVoteOKMsg > s.TotalVoteOKMsg =>
              OKVotes(c.ReceivedVoteMsg) # {}
         /\ Counted(s) => Counted(FillHoleVoteMsgs(s, c))
<1> DEFINE r == RecountedVotes(s, c)
           t == FillHoleVoteMsgs(s, c)
<1>1. r \subseteq OKVotes(c.ReceivedVoteMsg) /\ r \subseteq c.ReceivedVoteMsg
  BY DEF RecountedVotes, OKVotes
<1>2. IsFiniteSet(r) /\ Cardinality(r) \in Nat
  BY <1>1, FS_Subset, FS_CardinalityType
<1>3. Cardinality(r) > 0 => r # {}
  BY <1>2, FS_EmptySet
<1> HIDE DEF r
<1>4. t = [s EXCEPT !.TotalVoteOKMsg = @ + Cardinality(r)]
  BY DEF FillHoleVoteMsgs, r
<1> HIDE DEF t
<1>5. /\ t \in State /\ t.ViewID = s.ViewID /\ t.PrepareMsg = s.PrepareMsg
      /\ t.VoteMsgs = s.VoteMsgs /\ t.CollateMsgs = s.CollateMsgs
      /\ t.TotalVoteMsg = s.TotalVoteMsg /\ t.TotalCollateMsg = s.TotalCollateMsg
      /\ t.TotalVoteOKMsg = s.TotalVoteOKMsg + Cardinality(r)
      /\ s.TotalVoteOKMsg \in Nat
  BY <1>2, <1>4 DEF State
<1>6. Counted(s) => Counted(t)
  <2> SUFFICES ASSUME Counted(s) PROVE Counted(t)
    OBVIOUS
  <2>1. IsFiniteSet(OKVotes(s.VoteMsgs))
    BY FS_Subset DEF Counted, Finite, OKVotes
  <2>2. Cardinality(OKVotes(s.VoteMsgs)) \in Nat
    BY <2>1, FS_CardinalityType
  <2>3. s.TotalVoteOKMsg >= Cardinality(OKVotes(s.VoteMsgs))
    BY DEF Counted
  <2>4. t.TotalVoteOKMsg >= Cardinality(OKVotes(s.VoteMsgs))
    BY <1>2, <1>5, <2>2, <2>3
  <2> QED  BY <1>5, <2>4 DEF Counted, Finite
<1> QED  BY <1>1, <1>2, <1>3, <1>5, <1>6 DEF t

\* Collate keeps the sender of a collate and touches no vote.
LEMMA CollateKeeps ==
  ASSUME NEW s \in State, NEW c, c.NodeID \in Nodes
  PROVE  /\ Collate(s, c) \in State
         /\ Collate(s, c).PrepareMsg = s.PrepareMsg
         /\ Collate(s, c).ViewID = s.ViewID
         /\ Collate(s, c).VoteMsgs = s.VoteMsgs
         /\ Collate(s, c).TotalVoteOKMsg = s.TotalVoteOKMsg
         /\ Counted(s) => Counted(Collate(s, c))
<1>1. CASE c.NodeID \in s.CollateMsgs
  BY <1>1 DEF Collate
<1>2. CASE c.NodeID \notin s.CollateMsgs
  <2> DEFINE t == Collate(s, c)
  <2>1. t = [s EXCEPT !.CollateMsgs = s.CollateMsgs \cup {c.NodeID},
                      !.TotalCollateMsg = s.TotalCollateMsg + 1]
    BY <1>2 DEF Collate
  <2> HIDE DEF t
  <2>2. /\ t.ViewID = s.ViewID /\ t.PrepareMsg = s.PrepareMsg
        /\ t.VoteMsgs = s.VoteMsgs /\ t.TotalVoteMsg = s.TotalVoteMsg
        /\ t.TotalVoteOKMsg = s.TotalVoteOKMsg
        /\ t.CollateMsgs = s.CollateMsgs \cup {c.NodeID}
        /\ t.TotalCollateMsg = s.TotalCollateMsg + 1
    BY <2>1 DEF State
  <2>3. t \in State
    <3>1. s.CollateMsgs \cup {c.NodeID} \in SUBSET Nodes
      BY DEF State
    <3>2. s.TotalCollateMsg + 1 \in Nat
      BY DEF State
    <3> QED  BY <2>1, <3>1, <3>2 DEF State
  <2>4. IsFiniteSet(s.CollateMsgs) =>
          /\ IsFiniteSet(t.CollateMsgs)
          /\ Cardinality(t.CollateMsgs) = Cardinality(s.CollateMsgs) + 1
    BY <1>2, <2>2, FS_AddElement
  <2>5. Counted(s) => Counted(t)
    BY <2>2, <2>4 DEF Counted, Finite
  <2> QED  BY <2>2, <2>3, <2>5 DEF t
<1> QED  BY <1>1, <1>2

------------------------------------------------------------------------------
\* A COMMITTED answer always rests on a counted VOTE or on a COMMITTED collate.
LEMMA AnswersRestOnVotes ==
  ASSUME NEW s \in State
  PROVE  /\ \A ok \in Nat : VoteAQ(ok, s) = "COMMITTED" => ok > 0
         /\ \A heard \in Nat : CollateAQ(heard, s) = "COMMITTED" => s.TotalVoteOKMsg > 0
         /\ \A v \in VoteMsg : VoteAnswer(s, v) = "COMMITTED" =>
              /\ v.MsgType = "VOTE" /\ v.NodeID \notin Senders(s.VoteMsgs)
              /\ s.TotalVoteOKMsg + 1 = Quorum
         /\ \A c : CollateAnswer(s, c) = "COMMITTED" =>
              c.MsgType = "COMMITTED" \/ s.TotalVoteOKMsg > 0
<1>1. s.TotalVoteOKMsg \in Nat /\ s.TotalVoteMsg \in Nat /\ s.TotalCollateMsg \in Nat
  BY DEF State
<1>2. \A ok, heard \in Nat : AdaptiveAnswer(ok, heard) = "COMMITTED" => ok > 0
  BY QuorumFacts DEF AdaptiveAnswer, AdaptiveQuorumMet, AdaptiveQuorum
<1>3. \A ok \in Nat : VoteAQ(ok, s) = "COMMITTED" => ok > 0
  BY <1>1, <1>2 DEF VoteAQ
<1>4. \A heard \in Nat : CollateAQ(heard, s) = "COMMITTED" => s.TotalVoteOKMsg > 0
  BY <1>1, <1>2 DEF CollateAQ
<1>5. ASSUME NEW v \in VoteMsg, VoteAnswer(s, v) = "COMMITTED"
      PROVE  /\ v.MsgType = "VOTE" /\ v.NodeID \notin Senders(s.VoteMsgs)
             /\ s.TotalVoteOKMsg + 1 = Quorum
  BY <1>1, <1>5, QuorumFacts DEF VoteAnswer, VoteCommits, NewTotalVoteOKMsg
<1>6. ASSUME NEW c, CollateAnswer(s, c) = "COMMITTED"
      PROVE  c.MsgType = "COMMITTED" \/ s.TotalVoteOKMsg > 0
  BY <1>1, <1>6, QuorumFacts DEF CollateAnswer
<1> QED  BY <1>3, <1>4, <1>5, <1>6
==============================================================================
