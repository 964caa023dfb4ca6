--------------------------- MODULE ConsensusProofs ----------------------------
(***************************************************************************)
(* Type correctness of Consensus, and the safety properties its runs check, *)
(* for every committee, every set of followed replicas, every choice of     *)
(* votes in flight and of timers that expire.                               *)
(***************************************************************************)
EXTENDS Consensus, PBFTStateProofs

\* The counters of every State agree with its maps, exactly so before the first
\* collate is handled.
Counters ==
  \A i \in Learners :
    /\ Counted(st[i])
    /\ got[i] = {} => Exact(st[i]) /\ st[i].CollateMsgs = {}

\* Whatever a State or a collate holds was broadcast.
FromVotes ==
  /\ \A i \in Learners : st[i].VoteMsgs \subseteq votes
  /\ \A c \in collates : c.ReceivedVoteMsg \subseteq votes
                         /\ IsFiniteSet(c.ReceivedVoteMsg)

SomeVote == OKVotes(votes) # {}

\* The waiter of a timer has been told COMMITTED.
Answered == {"COMMITTED", "pushed"}

\* Counters, certificates and decisions all go back to some VOTE.
OnVotes ==
  /\ \A i \in Learners : st[i].TotalVoteOKMsg > 0 => SomeVote
  /\ \A c \in collates : c.MsgType = "COMMITTED" => SomeVote
  /\ \A i \in Learners : pushed[i] # {} => SomeVote
  /\ \A i \in Learners : Committed(i) => pushed[i] # {}
  /\ \A i \in Learners : read[i]["Vote"] > 0 => SomeVote
  /\ \A i \in Learners : \A p \in AQPhase : timer[i][p] \in Answered => SomeVote

\* A PREPARE was voted on, or a goroutine that has it is about to vote.
Sent(i, p) == \/ \E v \in votes : v.PrepareMsg = p
              \/ p = NullPrepare /\ timer[i]["Prepare"] = "firing"
              \/ p = Proposal /\ handler[i] # "free"

\* Who raises Prepared has given the State a PREPARE.
HasPrepare(i) ==
  Prepared[i] > 0 \/ handler[i] # "free" \/ timer[i]["Prepare"] = "firing" =>
    st[i].PrepareMsg # Nil

PreparesSent ==
  \A i \in Learners :
    /\ HasPrepare(i)
    /\ st[i].PrepareMsg # Nil => Sent(i, st[i].PrepareMsg)
    /\ \A p \in pushed[i] : Sent(i, p)

\* A replica that announced a vote quorum has counted one.
QuorumReached ==
  \A c \in collates : c.MsgType = "COMMITTED" /\ c.at = "GetVote" =>
    c.NodeID \in Learners /\ st[c.NodeID].TotalVoteOKMsg >= Quorum

IInv == /\ TypeOK /\ Counters /\ FromVotes
        /\ OnVotes /\ PreparesSent
        /\ QuorumReached /\ VoteQuorumOnce

------------------------------------------------------------------------------
LEMMA InitIInv == Init => IInv
<1> SUFFICES ASSUME Init PROVE IInv
  OBVIOUS
<1>1. PICK stale \in SUBSET Learners :
        st = [i \in Learners |-> CreateState(IF i \in stale THEN StaleView ELSE View)]
  BY DEF Init
<1>2. \A i \in Learners :
        /\ st[i] \in State /\ Counted(st[i]) /\ Exact(st[i])
        /\ st[i].CollateMsgs = {} /\ st[i].VoteMsgs = {}
        /\ st[i].TotalVoteOKMsg = 0 /\ st[i].PrepareMsg = Nil
  <2> SUFFICES ASSUME NEW i \in Learners, NEW v \in {View, StaleView},
                      st[i] = CreateState(v)
               PROVE  /\ st[i] \in State /\ Counted(st[i]) /\ Exact(st[i])
                      /\ st[i].CollateMsgs = {} /\ st[i].VoteMsgs = {}
                      /\ st[i].TotalVoteOKMsg = 0 /\ st[i].PrepareMsg = Nil
    BY <1>1
  <2>1. st[i].CollateMsgs = {} /\ st[i].VoteMsgs = {} /\ st[i].TotalVoteOKMsg = 0
        /\ st[i].PrepareMsg = Nil
    BY DEF CreateState
  <2> QED  BY <2>1, CreateStateType, CreateStateCounted
<1>3. votes \subseteq VoteMsg
  <2>1. \A v \in {View, StaleView}, j \in Nodes, p \in PrepareMsg :
          PrepareVote(CreateState(v), j, p) \in VoteMsg
    BY CreateStateType, PrepareVoteType
  <2>2. VoterVotes \subseteq VoteMsg
    BY <2>1 DEF VoterVotes
  <2> QED  BY <2>2, LearnersAssumption DEF Init
<1>4. TypeOK
  BY <1>1, <1>2, <1>3 DEF Init, TypeOK, TimerState, HandlerState, Phase
<1>5. Counters /\ FromVotes
  BY <1>2 DEF Init, Counters, FromVotes
<1>6. OnVotes /\ PreparesSent
  BY <1>2 DEF Init, OnVotes, PreparesSent, HasPrepare, Committed, Answered, AQPhase, Phase
<1>7. QuorumReached /\ VoteQuorumOnce
  BY DEF Init, QuorumReached, VoteQuorumOnce
<1> QED  BY <1>4, <1>5, <1>6, <1>7 DEF IInv

------------------------------------------------------------------------------
(* What several actions share.                                              *)

LEMMA StartTimerType ==
  ASSUME TypeOK, NEW i \in Learners, NEW p \in Phase
  PROVE  /\ StartTimer(i, p) \in [Learners -> [Phase -> TimerState]]
         /\ p # "Prepare" => \A j \in Learners :
              StartTimer(i, p)[j]["Prepare"] = timer[j]["Prepare"]
         /\ \A j \in Learners : \A q \in AQPhase :
              StartTimer(i, p)[j][q] \in Answered => timer[j][q] \in Answered
BY DEF TypeOK, StartTimer, TimerState, Phase, AQPhase, Answered

\* A decision pushes a PREPARE that was sent, and at most one.
LEMMA PushSent ==
  ASSUME IInv, NEW i \in Learners, NEW s \in State, s.VoteMsgs \subseteq votes,
         s.PrepareMsg = st[i].PrepareMsg, Push(i, s)
  PROVE  /\ pushed' \in [Learners -> SUBSET PrepareMsg]
         /\ \A j \in Learners : pushed[j] \subseteq pushed'[j]
         /\ \A j \in Learners \ {i} : pushed'[j] = pushed[j]
         /\ \A p \in pushed'[i] : Sent(i, p)
<1> PICK d \in Decisions(s) : pushed' = [pushed EXCEPT ![i] = @ \cup d]
  BY DEF Push
<1>1. d \subseteq PrepareMsg /\ \A p \in d : Sent(i, p)
  <2>1. CASE s.PrepareMsg # Nil
    BY <2>1 DEF Decisions, IInv, PreparesSent, State
  <2>2. CASE s.PrepareMsg = Nil
    BY <2>2 DEF Decisions, State, VoteMsg, Sent
  <2> QED  BY <2>1, <2>2
<1>2. pushed \in [Learners -> SUBSET PrepareMsg] /\ \A p \in pushed[i] : Sent(i, p)
  BY DEF IInv, TypeOK, PreparesSent
<1> QED  BY <1>1, <1>2

\* The collate a replica broadcasts is well typed and carries votes that were sent.
LEMMA BroadcastSent ==
  ASSUME IInv, NEW i \in Learners, NEW s \in State, s.VoteMsgs \subseteq votes,
         IsFiniteSet(s.VoteMsgs),
         NEW type \in CollateType, NEW origin \in Origin, Broadcast(i, s, type, origin)
  PROVE  /\ collates' \subseteq CollateMsg
         /\ collates \subseteq collates'
         /\ \A c \in collates' : c \in collates \/
              /\ c.NodeID = i /\ c.MsgType = type /\ c.at = origin
              /\ c.ReceivedVoteMsg = s.VoteMsgs
         /\ \A c \in collates' : c.ReceivedVoteMsg \subseteq votes
                                 /\ IsFiniteSet(c.ReceivedVoteMsg)
<1> DEFINE m == [NodeID |-> i, ViewID |-> s.ViewID, MsgType |-> type,
                 ReceivedVoteMsg |-> s.VoteMsgs, at |-> origin]
<1>1. collates' = collates \cup {m}
  BY DEF Broadcast
<1>2. m \in CollateMsg
  BY LearnersAssumption DEF CollateMsg, State
<1> QED  BY <1>1, <1>2 DEF IInv, TypeOK, FromVotes

------------------------------------------------------------------------------
(* One lemma per action.                                                    *)

LEMMA GetPrepareIInv ==
  ASSUME IInv, NEW i \in Learners, GetPrepare(i) \/ TestPrepared(i) \/ RaisePrepared(i)
  PROVE  IInv'
<1> USE DEF IInv
<1>1. st[i] \in State /\ i \in Nodes /\ Prepare(st[i], Proposal) \in State
  BY LearnersAssumption, PrepareType DEF TypeOK, PrepareMsg
<1>2. UNCHANGED <<votes, collates, got, block, pushed, timer, read, counted>>
  BY DEF GetPrepare, TestPrepared, RaisePrepared
<1>3. \A j \in Learners :
        /\ st'[j] \in State /\ st'[j].VoteMsgs = st[j].VoteMsgs
        /\ st'[j].TotalVoteOKMsg = st[j].TotalVoteOKMsg
        /\ st'[j].CollateMsgs = st[j].CollateMsgs
        /\ st'[j].TotalVoteMsg = st[j].TotalVoteMsg
        /\ st'[j].TotalCollateMsg = st[j].TotalCollateMsg
        /\ \/ ~(GetPrepare(i) /\ j = i) /\ st'[j].PrepareMsg = st[j].PrepareMsg
           \/ GetPrepare(i) /\ j = i /\ st'[i].PrepareMsg = Proposal
  <2>1. CASE GetPrepare(i)
    <3>1. st' = [st EXCEPT ![i] = Prepare(st[i], Proposal)]
      BY <2>1 DEF GetPrepare
    <3> QED  BY <1>1, <2>1, <3>1 DEF Prepare, TypeOK, State
  <2>2. CASE ~GetPrepare(i)
    BY <2>2 DEF TestPrepared, RaisePrepared, TypeOK
  <2> QED  BY <2>1, <2>2
<1>4. /\ handler' \in [Learners -> HandlerState] /\ handler'[i] # "free"
      /\ \A j \in Learners \ {i} : handler'[j] = handler[j] /\ Prepared'[j] = Prepared[j]
      /\ handler[i] # "free" \/ GetPrepare(i)
      /\ Prepared' \in [Learners -> Nat]
  <2>1. CASE GetPrepare(i)
    BY <2>1 DEF GetPrepare, TypeOK, HandlerState
  <2>2. CASE TestPrepared(i)
    BY <2>2 DEF TestPrepared, TypeOK, HandlerState
  <2>3. CASE RaisePrepared(i)
    BY <2>3 DEF RaisePrepared, TypeOK, HandlerState
  <2> QED  BY <2>1, <2>2, <2>3
<1>5. TypeOK'
  <2>1. st' \in [Learners -> State] /\ toPrepare' \subseteq Learners
    BY <1>1 DEF GetPrepare, TestPrepared, RaisePrepared, TypeOK
  <2> QED  BY <1>2, <1>4, <2>1 DEF TypeOK
<1>6. Counters'
  BY <1>2, <1>3 DEF Counters, Counted, Exact, Finite
<1>7. FromVotes'
  BY <1>2, <1>3 DEF FromVotes
<1>8. OnVotes'
  BY <1>2, <1>3 DEF OnVotes, Committed, SomeVote
<1>9. PreparesSent'
  <2>1. \A j \in Learners : \A p \in PrepareMsg : Sent(j, p) => Sent(j, p)'
    BY <1>2, <1>4 DEF Sent
  <2>2. Sent(i, Proposal)'
    BY <1>4 DEF Sent
  <2>3. \A j \in Learners : HasPrepare(j)'
    <3>1. handler[i] # "free" => st[i].PrepareMsg # Nil
      BY DEF PreparesSent, HasPrepare
    <3>2. st'[i].PrepareMsg # Nil
      BY <1>3, <1>4, <3>1 DEF Nil, Proposal
    <3>3. \A j \in Learners \ {i} : st'[j].PrepareMsg = st[j].PrepareMsg
      BY <1>3
    <3> QED  BY <1>2, <1>4, <3>2, <3>3 DEF PreparesSent, HasPrepare
  <2> QED  BY <1>2, <1>3, <2>1, <2>2, <2>3 DEF PreparesSent, TypeOK, State
<1>10. QuorumReached' /\ VoteQuorumOnce'
  BY <1>2, <1>3 DEF QuorumReached, VoteQuorumOnce
<1> QED  BY <1>5, <1>6, <1>7, <1>8, <1>9, <1>10

LEMMA PrepareVotesIInv ==
  ASSUME IInv, NEW i \in Learners, PrepareVotes(i)
  PROVE  IInv'
<1> DEFINE v == PrepareVote(st[i], i, Proposal)
<1> USE DEF IInv
<1>1. /\ st[i] \in State /\ i \in Nodes
      /\ v \in VoteMsg /\ v.PrepareMsg = Proposal
  BY LearnersAssumption, PrepareVoteType DEF TypeOK, PrepareMsg
<1>2. /\ votes' = votes \cup {v}
      /\ UNCHANGED <<st, read, Prepared, collates, toPrepare, got, block, counted>>
  BY DEF PrepareVotes
<1>3. pushed' \in [Learners -> SUBSET PrepareMsg]
      /\ \A j \in Learners :
           \/ pushed'[j] = pushed[j]
           \/ j = i /\ Committed(i) /\ pushed'[i] = pushed[i] \cup {Proposal}
  BY DEF PrepareVotes, TypeOK, PrepareMsg
<1>4. /\ timer' \in [Learners -> [Phase -> TimerState]]
      /\ \A j \in Learners : timer'[j]["Prepare"] = timer[j]["Prepare"]
      /\ \A j \in Learners : \A q \in AQPhase :
           timer'[j][q] \in Answered => timer[j][q] \in Answered
  BY StartTimerType DEF PrepareVotes, TypeOK, Phase
<1>5. handler' \in [Learners -> HandlerState] /\ handler'[i] = "free"
      /\ \A j \in Learners \ {i} : handler'[j] = handler[j]
  BY DEF PrepareVotes, TypeOK, HandlerState
<1>6. TypeOK'
  BY <1>1, <1>2, <1>3, <1>4, <1>5 DEF TypeOK
<1>7. Counters' /\ FromVotes'
  BY <1>2 DEF Counters, FromVotes
<1>8. OnVotes'
  <2>1. SomeVote => SomeVote'
    BY <1>2 DEF SomeVote, OKVotes
  <2> QED  BY <1>2, <1>3, <1>4, <2>1 DEF OnVotes, Committed
<1>9. PreparesSent'
  <2>1. \A j \in Learners : \A p \in PrepareMsg : Sent(j, p) => Sent(j, p)'
    BY <1>1, <1>2, <1>4, <1>5 DEF Sent
  <2>2. \A j \in Learners : Sent(j, Proposal)'
    BY <1>1, <1>2 DEF Sent
  <2>3. \A j \in Learners : HasPrepare(j)'
    BY <1>2, <1>4, <1>5 DEF PreparesSent, HasPrepare
  <2> QED  BY <1>2, <1>3, <2>1, <2>2, <2>3 DEF PreparesSent, TypeOK, State
<1>10. QuorumReached' /\ VoteQuorumOnce'
  BY <1>2 DEF QuorumReached, VoteQuorumOnce
<1> QED  BY <1>6, <1>7, <1>8, <1>9, <1>10

LEMMA PrepareTimeoutIInv ==
  ASSUME IInv, NEW i \in Learners, PrepareTimeout(i) \/ PrepareTimeoutVotes(i)
  PROVE  IInv'
<1> DEFINE v == PrepareVote(st[i], i, NullPrepare)
<1> USE DEF IInv
<1>1. /\ st[i] \in State /\ i \in Nodes
      /\ v \in VoteMsg /\ v.PrepareMsg = NullPrepare
      /\ Prepare(st[i], NullPrepare) \in State
  BY LearnersAssumption, PrepareVoteType, PrepareType DEF TypeOK, PrepareMsg
<1>2. UNCHANGED <<collates, got, block, pushed, toPrepare, read, handler, counted>>
  BY DEF PrepareTimeout, PrepareTimeoutVotes
<1>3. \A j \in Learners :
        /\ st'[j] \in State /\ st'[j].VoteMsgs = st[j].VoteMsgs
        /\ st'[j].TotalVoteOKMsg = st[j].TotalVoteOKMsg
        /\ st'[j].CollateMsgs = st[j].CollateMsgs
        /\ st'[j].TotalVoteMsg = st[j].TotalVoteMsg
        /\ st'[j].TotalCollateMsg = st[j].TotalCollateMsg
        /\ \/ st'[j].PrepareMsg = st[j].PrepareMsg
           \/ j = i /\ PrepareTimeout(i) /\ st'[i].PrepareMsg = NullPrepare
  <2>1. CASE PrepareTimeout(i)
    <3>1. st' = [st EXCEPT ![i] = Prepare(st[i], NullPrepare)]
      BY <2>1 DEF PrepareTimeout
    <3> QED  BY <1>1, <2>1, <3>1 DEF Prepare, TypeOK, State
  <2>2. CASE PrepareTimeoutVotes(i)
    BY <2>2 DEF PrepareTimeoutVotes, TypeOK
  <2> QED  BY <2>1, <2>2
<1>t. /\ StartTimer(i, "Vote") \in [Learners -> [Phase -> TimerState]]
      /\ \A j \in Learners : StartTimer(i, "Vote")[j]["Prepare"] = timer[j]["Prepare"]
      /\ \A j \in Learners : \A q \in AQPhase :
           StartTimer(i, "Vote")[j][q] \in Answered => timer[j][q] \in Answered
  BY StartTimerType DEF Phase
<1>4. \/ votes' = votes \cup {v}
      \/ PrepareTimeout(i) /\ votes' = votes /\ timer'[i]["Prepare"] = "firing"
  BY <1>t DEF PrepareTimeout, PrepareTimeoutVotes, Phase
<1>5. /\ timer' \in [Learners -> [Phase -> TimerState]]
      /\ \A j \in Learners \ {i} : timer'[j]["Prepare"] = timer[j]["Prepare"]
      /\ \A j \in Learners : \A q \in AQPhase :
           timer'[j][q] \in Answered => timer[j][q] \in Answered
  <2>1. CASE PrepareTimeout(i)
    BY <2>1, <1>t DEF PrepareTimeout, Phase, AQPhase, TimerState
  <2>2. CASE PrepareTimeoutVotes(i)
    BY <2>2 DEF PrepareTimeoutVotes, TypeOK, Phase, AQPhase, TimerState
  <2> QED  BY <2>1, <2>2
<1>6. TypeOK'
  <2>1. st' \in [Learners -> State] /\ Prepared' \in [Learners -> Nat]
    <3>1. CASE PrepareTimeout(i)
      BY <1>1, <3>1 DEF PrepareTimeout, TypeOK
    <3>2. CASE PrepareTimeoutVotes(i)
      BY <3>2 DEF PrepareTimeoutVotes, TypeOK
    <3> QED  BY <3>1, <3>2
  <2> QED  BY <1>1, <1>2, <1>4, <1>5, <2>1 DEF TypeOK
<1>7. Counters'
  BY <1>2, <1>3 DEF Counters, Counted, Exact, Finite
<1>8. votes \subseteq votes'
  BY <1>4
<1>9. FromVotes'
  BY <1>2, <1>3, <1>8 DEF FromVotes
<1>10. OnVotes'
  <2>1. SomeVote => SomeVote'
    BY <1>8 DEF SomeVote, OKVotes
  <2>2. \A j \in Learners : st'[j].TotalVoteOKMsg = st[j].TotalVoteOKMsg
    BY <1>3
  <2>3. \A j \in Learners : \A q \in AQPhase : timer'[j][q] \in Answered => SomeVote
    BY <1>5 DEF OnVotes
  <2> QED  BY <1>2, <2>1, <2>2, <2>3 DEF OnVotes, Committed
<1>11. PreparesSent'
  <2>1. \A j \in Learners, p \in PrepareMsg : Sent(j, p) => Sent(j, p)'
    BY <1>1, <1>2, <1>4, <1>5, <1>8 DEF Sent
  <2>2. PrepareTimeout(i) => Sent(i, NullPrepare)'
    BY <1>1, <1>4 DEF Sent
  <2>3. \A j \in Learners : HasPrepare(j)'
    <3>1. PrepareTimeout(i) => st'[i].PrepareMsg = NullPrepare
      BY <1>1 DEF PrepareTimeout, Prepare, TypeOK, State
    <3>2. PrepareTimeoutVotes(i) =>
            /\ timer[i]["Prepare"] = "firing" /\ st' = st
            /\ \A j \in Learners \ {i} : Prepared'[j] = Prepared[j]
      BY DEF PrepareTimeoutVotes, TypeOK
    <3>3. PrepareTimeout(i) => Prepared' = Prepared
      BY DEF PrepareTimeout
    <3> QED  BY <1>2, <1>3, <1>5, <3>1, <3>2, <3>3 DEF PreparesSent, HasPrepare, Nil, NullPrepare
  <2> QED  BY <1>2, <1>3, <2>1, <2>2, <2>3 DEF PreparesSent, TypeOK, State
<1>12. QuorumReached' /\ VoteQuorumOnce'
  BY <1>2, <1>3 DEF QuorumReached, VoteQuorumOnce
<1> QED  BY <1>6, <1>7, <1>9, <1>10, <1>11, <1>12

\* Pushing and broadcasting, on a State reached by handling votes.
LEMMA DecideIInv ==
  ASSUME IInv, NEW i \in Learners, NEW s \in State,
         \* the State after the handler, and what it inherits from the one before
         st' = [st EXCEPT ![i] = s], Counted(s),
         got[i] = {} => Exact(s) /\ s.CollateMsgs = {},
         s.VoteMsgs \subseteq votes, s.PrepareMsg = st[i].PrepareMsg,
         s.TotalVoteOKMsg >= st[i].TotalVoteOKMsg,
         s.TotalVoteOKMsg > 0 => SomeVote,
         \* what it pushes and broadcasts
         \/ pushed' = pushed
         \/ Push(i, s) /\ SomeVote,
         \/ collates' = collates
         \/ \E type \in CollateType, origin \in Origin :
              /\ Broadcast(i, s, type, origin)
              /\ type = "COMMITTED" => SomeVote
              /\ type = "COMMITTED" /\ origin = "GetVote" =>
                   s.TotalVoteOKMsg >= Quorum /\ st[i].TotalVoteOKMsg < Quorum,
         timer' \in [Learners -> [Phase -> TimerState]],
         \A j \in Learners : timer'[j]["Prepare"] = timer[j]["Prepare"],
         \A j \in Learners : \A q \in AQPhase :
           timer'[j][q] \in Answered => timer[j][q] \in Answered,
         UNCHANGED <<read, handler, Prepared, votes, toPrepare, got, block, counted>>
  PROVE  IInv'
<1> USE DEF IInv
<1>1. pushed' \in [Learners -> SUBSET PrepareMsg]
      /\ (\A j \in Learners : pushed[j] \subseteq pushed'[j])
      /\ (\A j \in Learners : \A p \in pushed'[j] : Sent(j, p))
      /\ (\A j \in Learners : pushed'[j] # {} => SomeVote)
  BY PushSent DEF TypeOK, PreparesSent, OnVotes
<1>2. /\ collates' \subseteq CollateMsg
      /\ collates \subseteq collates'
      /\ \A c \in collates' : c.ReceivedVoteMsg \subseteq votes
                              /\ IsFiniteSet(c.ReceivedVoteMsg)
      /\ \A c \in collates' : c.MsgType = "COMMITTED" => SomeVote
  <2>1. CASE collates' = collates
    BY <2>1 DEF TypeOK, FromVotes, OnVotes
  <2>2. CASE collates' # collates
    <3> PICK type \in CollateType, origin \in Origin :
          Broadcast(i, s, type, origin) /\ (type = "COMMITTED" => SomeVote)
      BY <2>2
    <3> QED  BY BroadcastSent DEF OnVotes, Counted, Finite
  <2> QED  BY <2>1, <2>2
<1>3. \A j \in Learners : st'[j] = IF j = i THEN s ELSE st[j]
  BY DEF TypeOK
<1>4. TypeOK'
  BY <1>1, <1>2 DEF TypeOK
<1>5. Counters' /\ FromVotes'
  BY <1>2, <1>3 DEF Counters, FromVotes
<1>6. OnVotes'
  <2>1. SomeVote' <=> SomeVote
    BY DEF SomeVote
  <2> QED  BY <1>1, <1>2, <1>3, <2>1 DEF OnVotes, Committed
<1>7. PreparesSent'
  <2>1. \A j \in Learners : st'[j].PrepareMsg # Nil => Sent(j, st'[j].PrepareMsg)
    BY <1>3 DEF PreparesSent
  <2>2. \A j \in Learners : HasPrepare(j)'
    BY <1>3 DEF PreparesSent, HasPrepare
  <2> QED  BY <1>1, <2>1, <2>2 DEF PreparesSent, Sent
<1>8. QuorumReached' /\ VoteQuorumOnce'
  <2>1. \A j \in Learners : st[j].TotalVoteOKMsg \in Nat /\ s.TotalVoteOKMsg \in Nat
                            /\ Quorum \in Nat
    BY QuorumFacts DEF TypeOK, State
  <2>2. \A c \in collates : c.MsgType = "COMMITTED" /\ c.at = "GetVote" =>
          c.NodeID \in Learners /\ st'[c.NodeID].TotalVoteOKMsg >= Quorum
    BY <1>3, <2>1 DEF QuorumReached
  <2>3. CASE collates' = collates
    BY <2>2, <2>3 DEF QuorumReached, VoteQuorumOnce
  <2>4. CASE collates' # collates
    <3> PICK type \in CollateType, origin \in Origin :
          /\ Broadcast(i, s, type, origin)
          /\ type = "COMMITTED" /\ origin = "GetVote" =>
               s.TotalVoteOKMsg >= Quorum /\ st[i].TotalVoteOKMsg < Quorum
      BY <2>4
    <3> DEFINE m == [NodeID |-> i, ViewID |-> s.ViewID, MsgType |-> type,
                     ReceivedVoteMsg |-> s.VoteMsgs, at |-> origin]
    <3>1. collates' = collates \cup {m} /\ m.NodeID = i
          /\ m.MsgType = type /\ m.at = origin
      BY DEF Broadcast
    <3> HIDE DEF m
    <3>2. QuorumReached'
      BY <1>3, <2>2, <3>1 DEF QuorumReached
    <3>3. m.MsgType = "COMMITTED" /\ m.at = "GetVote" =>
            ~\E c \in collates : c.MsgType = "COMMITTED" /\ c.at = "GetVote" /\ c.NodeID = i
      BY <2>1, <3>1 DEF QuorumReached
    <3>4. VoteQuorumOnce'
      BY <3>1, <3>3 DEF VoteQuorumOnce
    <3> QED  BY <3>2, <3>4
  <2> QED  BY <2>3, <2>4
<1> QED  BY <1>4, <1>5, <1>6, <1>7, <1>8

LEMMA GetVoteIInv ==
  ASSUME IInv, NEW i \in Learners, NEW v \in votes, GetVote(i, v)
  PROVE  IInv'
<1> DEFINE s == Vote(st[i], v)
<1> USE DEF IInv
<1>1. st[i] \in State /\ v \in VoteMsg /\ Counted(st[i]) /\ st[i].VoteMsgs \subseteq votes
  BY DEF TypeOK, Counters, FromVotes
<1>2. /\ s \in State
      /\ s.PrepareMsg = st[i].PrepareMsg /\ s.CollateMsgs = st[i].CollateMsgs
      /\ s.VoteMsgs \subseteq votes
      /\ s.TotalVoteOKMsg >= st[i].TotalVoteOKMsg
      /\ s.TotalVoteOKMsg > st[i].TotalVoteOKMsg => v.MsgType = "VOTE"
  BY <1>1, VoteKeeps
<1>3. Counted(s) /\ (Exact(st[i]) => Exact(s))
  BY <1>1, VoteCounted
<1>4. v.MsgType = "VOTE" => SomeVote
  BY DEF SomeVote, OKVotes
<1>5. s.TotalVoteOKMsg > 0 => SomeVote
  BY <1>1, <1>2, <1>4 DEF OnVotes, State
<1>6. VoteAnswer(st[i], v) = "COMMITTED" =>
        /\ SomeVote
        /\ s.TotalVoteOKMsg >= Quorum /\ st[i].TotalVoteOKMsg < Quorum
  <2> SUFFICES ASSUME VoteAnswer(st[i], v) = "COMMITTED"
               PROVE  /\ SomeVote
                      /\ s.TotalVoteOKMsg >= Quorum /\ st[i].TotalVoteOKMsg < Quorum
    OBVIOUS
  <2>1. /\ v.MsgType = "VOTE" /\ v.NodeID \notin Senders(st[i].VoteMsgs)
        /\ st[i].TotalVoteOKMsg + 1 = Quorum
    BY <1>1, AnswersRestOnVotes
  <2>2. s.TotalVoteOKMsg = st[i].TotalVoteOKMsg + 1
    BY <1>1, <2>1, NewVote
  <2>3. st[i].TotalVoteOKMsg \in Nat
    BY <1>1 DEF State
  <2> QED  BY <1>4, <2>1, <2>2, <2>3
<1>7. /\ timer' \in [Learners -> [Phase -> TimerState]]
      /\ \A j \in Learners : timer'[j]["Prepare"] = timer[j]["Prepare"]
      /\ \A j \in Learners : \A q \in AQPhase :
           timer'[j][q] \in Answered => timer[j][q] \in Answered
  BY StartTimerType DEF GetVote, TypeOK, Phase
<1>8. /\ st' = [st EXCEPT ![i] = s]
      /\ UNCHANGED <<read, handler, Prepared, votes, toPrepare, got, block, counted>>
  BY DEF GetVote
<1>9. got[i] = {} => Exact(s) /\ s.CollateMsgs = {}
  BY <1>2, <1>3 DEF Counters
<1>10. (pushed' = pushed) \/ (Push(i, s) /\ SomeVote)
  BY <1>6 DEF GetVote
<1>11. \/ collates' = collates
       \/ \E type \in CollateType, origin \in Origin :
            /\ Broadcast(i, s, type, origin)
            /\ type = "COMMITTED" => SomeVote
            /\ type = "COMMITTED" /\ origin = "GetVote" =>
                 s.TotalVoteOKMsg >= Quorum /\ st[i].TotalVoteOKMsg < Quorum
  <2>1. CASE VoteAnswer(st[i], v) = "COMMITTED"
    <3>1. Broadcast(i, s, "COMMITTED", "GetVote")
      BY <2>1 DEF GetVote
    <3> QED  BY <1>6, <2>1, <3>1 DEF CollateType, Origin
  <2>2. CASE VoteAnswer(st[i], v) = "UNCOMMITTED"
    <3>1. Broadcast(i, s, "UNCOMMITTED", "GetVote")
      BY <2>2 DEF GetVote
    <3> QED  BY <3>1 DEF CollateType, Origin
  <2> QED  BY <2>1, <2>2 DEF GetVote
<1> HIDE DEF s, IInv
<1> QED  BY <1>2, <1>3, <1>5, <1>7, <1>8, <1>9, <1>10, <1>11, DecideIInv

\* A waiter reads a counter and is given an answer: it changes nothing else.
LEMMA AnswerIInv ==
  ASSUME IInv, NEW i \in Learners,
         (\E p \in AQPhase : Timeout(i, p)) \/ VoteTimeout(i) \/ CollateTimeout(i)
  PROVE  IInv'
<1> USE DEF IInv
<1>1. UNCHANGED <<st, handler, Prepared, votes, collates, toPrepare, got, pushed, block>>
  BY DEF Timeout, VoteTimeout, CollateTimeout
<1>2. /\ st[i] \in State /\ st[i].VoteMsgs \subseteq VoteMsg
      /\ st[i].TotalVoteOKMsg \in Nat /\ st[i].TotalCollateMsg \in Nat
      /\ st[i].TotalVoteOKMsg > 0 => SomeVote
      /\ read[i]["Vote"] \in Nat /\ read[i]["Collate"] \in Nat
      /\ read[i]["Vote"] > 0 => SomeVote
  BY DEF TypeOK, State, OnVotes, Phase
<1>3. /\ VoteAQ(read[i]["Vote"], st[i]) \in CollateType
      /\ VoteAQ(read[i]["Vote"], st[i]) = "COMMITTED" => SomeVote
      /\ CollateAQ(read[i]["Collate"], st[i]) = "COMMITTED" => SomeVote
  BY <1>2, AnswersRestOnVotes DEF VoteAQ, AdaptiveAnswer, CollateType
<1>4. PICK p \in AQPhase, new \in TimerState :
        /\ timer' = [timer EXCEPT ![i][p] = new]
        /\ new \in Answered => SomeVote
  <2>1. CASE \E p \in AQPhase : Timeout(i, p)
    BY <2>1 DEF Timeout, SetTimer, TimerState, Answered
  <2>2. CASE VoteTimeout(i)
    BY <1>3, <2>2 DEF VoteTimeout, SetTimer, TimerState, AQPhase, CollateType, Answered
  <2>3. CASE CollateTimeout(i)
    BY <1>3, <2>3 DEF CollateTimeout, SetTimer, TimerState, AQPhase, Answered
  <2> QED  BY <2>1, <2>2, <2>3
<1>5. /\ timer' \in [Learners -> [Phase -> TimerState]]
      /\ \A j \in Learners : timer'[j]["Prepare"] = timer[j]["Prepare"]
      /\ \A j \in Learners : \A q \in AQPhase :
           timer'[j][q] \in Answered => timer[j][q] \in Answered \/ SomeVote
  BY <1>4 DEF TypeOK, Phase, AQPhase
<1>6. /\ read' \in [Learners -> [Phase -> Nat]]
      /\ \A j \in Learners : read'[j]["Vote"] > 0 => SomeVote
  <2>1. /\ read \in [Learners -> [Phase -> Nat]]
        /\ \A j \in Learners : read[j]["Vote"] > 0 => SomeVote
    BY DEF TypeOK, OnVotes
  <2>2. CASE \E q \in AQPhase : Timeout(i, q)
    BY <1>2, <2>1, <2>2 DEF Timeout, Phase, AQPhase
  <2>3. CASE VoteTimeout(i) \/ CollateTimeout(i)
    BY <2>1, <2>3 DEF VoteTimeout, CollateTimeout, Phase
  <2> QED  BY <2>2, <2>3
<1>7. counted' \in [Learners -> SUBSET VoteMsg]
  BY <1>2 DEF Timeout, VoteTimeout, CollateTimeout, TypeOK
<1>8. TypeOK'
  BY <1>1, <1>5, <1>6, <1>7 DEF TypeOK
<1>9. Counters' /\ FromVotes' /\ QuorumReached' /\ VoteQuorumOnce'
  BY <1>1 DEF Counters, FromVotes, QuorumReached, VoteQuorumOnce
<1>10. OnVotes'
  <2>1. SomeVote' <=> SomeVote
    BY <1>1 DEF SomeVote
  <2> QED  BY <1>1, <1>5, <1>6, <2>1 DEF OnVotes, Committed
<1>11. PreparesSent'
  BY <1>1, <1>5 DEF PreparesSent, HasPrepare, Sent
<1> QED  BY <1>8, <1>9, <1>10, <1>11

LEMMA TimeoutIInv ==
  ASSUME IInv, NEW i \in Learners,
         \E p \in AQPhase : TimeoutDecides(i, p) \/ TimeoutBroadcasts(i, p)
  PROVE  IInv'
<1> DEFINE s == st[i]
<1>0. PICK p \in AQPhase : TimeoutDecides(i, p) \/ TimeoutBroadcasts(i, p)
  OBVIOUS
<1>1. /\ s \in State /\ Counted(s) /\ s.VoteMsgs \subseteq votes
      /\ s.TotalVoteOKMsg >= s.TotalVoteOKMsg
      /\ s.TotalVoteOKMsg > 0 => SomeVote
      /\ got[i] = {} => Exact(s) /\ s.CollateMsgs = {}
  BY DEF IInv, TypeOK, Counters, FromVotes, OnVotes, State
<1>2. timer[i][p] \in Answered => SomeVote
  BY DEF IInv, OnVotes
<1>3. st' = [st EXCEPT ![i] = s]
      /\ UNCHANGED <<read, handler, Prepared, votes, toPrepare, got, block, counted>>
  BY <1>0 DEF TimeoutDecides, TimeoutBroadcasts, IInv, TypeOK
<1>4. \/ timer[i][p] \in Answered /\ timer' = [timer EXCEPT ![i][p] = "pushed"]
      \/ timer' = [timer EXCEPT ![i][p] = "done"]
  BY <1>0 DEF TimeoutDecides, TimeoutBroadcasts, SetTimer, Answered
<1>5. /\ timer' \in [Learners -> [Phase -> TimerState]]
      /\ \A j \in Learners : timer'[j]["Prepare"] = timer[j]["Prepare"]
      /\ \A j \in Learners : \A q \in AQPhase :
           timer'[j][q] \in Answered => timer[j][q] \in Answered
  <2>1. PICK new \in TimerState :
          timer' = [timer EXCEPT ![i][p] = new] /\ (new \in Answered => timer[i][p] \in Answered)
    BY <1>4 DEF TimerState, Answered
  <2>2. timer \in [Learners -> [Phase -> TimerState]]
    BY DEF IInv, TypeOK
  <2> QED  BY <2>1, <2>2 DEF Phase, AQPhase
<1>6. (pushed' = pushed) \/ (Push(i, s) /\ SomeVote)
  BY <1>0, <1>2 DEF TimeoutDecides, TimeoutBroadcasts, Answered
<1>7. \/ collates' = collates
      \/ \E type \in CollateType, origin \in Origin :
           /\ Broadcast(i, s, type, origin)
           /\ type = "COMMITTED" => SomeVote
           /\ type = "COMMITTED" /\ origin = "GetVote" =>
                s.TotalVoteOKMsg >= Quorum /\ st[i].TotalVoteOKMsg < Quorum
  <2>1. TimerOrigin[p] \in Origin /\ TimerOrigin[p] # "GetVote"
        /\ {"COMMITTED", "UNCOMMITTED"} \subseteq CollateType
        /\ "UNCOMMITTED" # "COMMITTED"
    BY DEF TimerOrigin, Origin, CollateType, AQPhase
  <2>2. \/ collates' = collates
        \/ Broadcast(i, s, "UNCOMMITTED", TimerOrigin[p])
        \/ Broadcast(i, s, "COMMITTED", TimerOrigin[p]) /\ SomeVote
    BY <1>0, <1>2 DEF TimeoutDecides, TimeoutBroadcasts, Answered
  <2> HIDE DEF s
  <2> QED  BY <2>1, <2>2
<1>8. s.PrepareMsg = st[i].PrepareMsg /\ st[i].TotalVoteOKMsg = s.TotalVoteOKMsg
  OBVIOUS
<1> HIDE DEF s
<1> QED  BY <1>1, <1>3, <1>5, <1>6, <1>7, <1>8, DecideIInv

LEMMA GetCollateIInv ==
  ASSUME IInv, NEW i \in Learners, NEW c \in collates, GetCollate(i, c)
  PROVE  IInv'
<1> DEFINE f == FillHoleVoteMsgs(st[i], c)
           s == Collate(f, c)
<1> USE DEF IInv
<1>1. /\ st[i] \in State /\ Counted(st[i]) /\ c \in CollateMsg /\ c.NodeID \in Nodes
      /\ IsFiniteSet(c.ReceivedVoteMsg) /\ c.ReceivedVoteMsg \subseteq votes
  BY DEF TypeOK, Counters, FromVotes, CollateMsg
<1>2. /\ f \in State /\ Counted(f)
      /\ f.PrepareMsg = st[i].PrepareMsg /\ f.VoteMsgs = st[i].VoteMsgs
      /\ f.TotalVoteOKMsg >= st[i].TotalVoteOKMsg
      /\ f.TotalVoteOKMsg > st[i].TotalVoteOKMsg => OKVotes(c.ReceivedVoteMsg) # {}
  BY <1>1, FillHoleKeeps
<1>3. OKVotes(c.ReceivedVoteMsg) # {} => SomeVote
  BY <1>1 DEF SomeVote, OKVotes
<1> HIDE DEF f
<1>4. /\ s \in State /\ Counted(s)
      /\ s.PrepareMsg = st[i].PrepareMsg /\ s.VoteMsgs = st[i].VoteMsgs
      /\ s.TotalVoteOKMsg = f.TotalVoteOKMsg
  BY <1>1, <1>2, CollateKeeps
<1> HIDE DEF s
<1>5. f.TotalVoteOKMsg > 0 => SomeVote
  BY <1>1, <1>2, <1>3 DEF OnVotes, State
<1>6. /\ st' = [st EXCEPT ![i] = s] /\ got' = [got EXCEPT ![i] = @ \cup {c}]
      /\ UNCHANGED <<timer, read, handler, Prepared, votes, collates, toPrepare, block,
                     counted>>
  BY DEF GetCollate, f, s
<1>7. (pushed' = pushed) \/ (Push(i, st[i]) /\ SomeVote)
  <2>1. CASE AdoptsCollate(i, c)
    <3>1. CollateAnswer(f, c) = "COMMITTED"
      BY <2>1 DEF AdoptsCollate, f
    <3>2. c.MsgType = "COMMITTED" \/ f.TotalVoteOKMsg > 0
      BY <1>2, <3>1, AnswersRestOnVotes
    <3> QED  BY <1>5, <2>1, <3>2 DEF GetCollate, OnVotes
  <2> QED  BY <2>1 DEF GetCollate
<1>8. /\ pushed' \in [Learners -> SUBSET PrepareMsg]
      /\ \A j \in Learners : pushed[j] \subseteq pushed'[j]
      /\ \A j \in Learners : \A p \in pushed'[j] : Sent(j, p)
      /\ \A j \in Learners : pushed'[j] # {} => SomeVote
  <2>1. CASE pushed' = pushed
    BY <2>1 DEF TypeOK, PreparesSent, OnVotes
  <2>2. CASE Push(i, st[i]) /\ SomeVote
    <3>1. st[i].VoteMsgs \subseteq votes
      BY DEF FromVotes
    <3> QED  BY <1>1, <2>2, <3>1, PushSent DEF PreparesSent
  <2> QED  BY <1>7, <2>1, <2>2
<1>9. \A j \in Learners : st'[j] = IF j = i THEN s ELSE st[j]
  BY <1>6 DEF TypeOK
<1>10. \A j \in Learners : got'[j] = IF j = i THEN got[i] \cup {c} ELSE got[j]
  BY <1>6 DEF TypeOK
<1>11. TypeOK'
  <2>1. got' \in [Learners -> SUBSET CollateMsg]
    BY <1>1, <1>6 DEF TypeOK
  <2> QED  BY <1>4, <1>6, <1>8, <2>1 DEF TypeOK
<1>12. Counters' /\ FromVotes'
  BY <1>4, <1>6, <1>9, <1>10 DEF Counters, FromVotes
<1>13. OnVotes'
  <2>1. SomeVote' <=> SomeVote
    BY <1>6 DEF SomeVote
  <2>2. \A j \in Learners : Committed(j)' <=> Committed(j)
    BY <1>6 DEF Committed
  <2>3. \A j \in Learners : Committed(j) => pushed'[j] # {}
    BY <1>8 DEF OnVotes
  <2> QED  BY <1>4, <1>5, <1>6, <1>8, <1>9, <2>1, <2>2, <2>3 DEF OnVotes
<1>14. PreparesSent'
  <2>1. \A j \in Learners : st'[j].PrepareMsg # Nil => Sent(j, st'[j].PrepareMsg)
    BY <1>4, <1>9 DEF PreparesSent
  <2>2. \A j \in Learners : HasPrepare(j)'
    BY <1>4, <1>6, <1>9 DEF PreparesSent, HasPrepare
  <2> QED  BY <1>6, <1>8, <2>1, <2>2 DEF PreparesSent, Sent
<1>15. QuorumReached' /\ VoteQuorumOnce'
  <2>1. /\ st[i].TotalVoteOKMsg \in Nat /\ f.TotalVoteOKMsg \in Nat
        /\ Quorum \in Nat
    BY <1>1, <1>2, QuorumFacts DEF State
  <2>2. st[i].TotalVoteOKMsg >= Quorum => s.TotalVoteOKMsg >= Quorum
    BY <1>2, <1>4, <2>1
  <2> QED  BY <1>6, <1>9, <2>2 DEF QuorumReached, VoteQuorumOnce
<1> QED  BY <1>11, <1>12, <1>13, <1>14, <1>15

LEMMA ExecuteIInv ==
  ASSUME IInv, NEW i \in Learners, Execute(i)
  PROVE  IInv'
<1> USE DEF IInv
<1>1. PICK p \in pushed[i] : block' = [block EXCEPT ![i] = p]
  BY DEF Execute
<1>2. UNCHANGED <<st, timer, read, handler, Prepared, votes, collates, toPrepare, got,
                  pushed, counted>>
  BY DEF Execute
<1>3. p \in PrepareMsg
  BY DEF TypeOK
<1>4. TypeOK'
  BY <1>1, <1>2, <1>3 DEF TypeOK
<1>5. Counters' /\ FromVotes'
  BY <1>2 DEF Counters, FromVotes
<1>6. OnVotes'
  <2>1. SomeVote' <=> SomeVote
    BY <1>2 DEF SomeVote
  <2>2. \A j \in Learners : block'[j] = IF j = i THEN p ELSE block[j]
    BY <1>1 DEF TypeOK
  <2> QED  BY <1>1, <1>2, <2>1, <2>2 DEF OnVotes, Committed
<1>7. PreparesSent' /\ QuorumReached' /\ VoteQuorumOnce'
  BY <1>2 DEF PreparesSent, HasPrepare, Sent, QuorumReached, VoteQuorumOnce
<1> QED  BY <1>4, <1>5, <1>6, <1>7

LEMMA NextIInv == IInv /\ [Next]_vars => IInv'
<1> SUFFICES ASSUME IInv, [Next]_vars PROVE IInv'
  OBVIOUS
<1>1. CASE Next
  <2> PICK i \in Learners : \/ GetPrepare(i) \/ HandlePrepare(i) \/ Receive(i)
                            \/ Expire(i) \/ Waiter(i)
                            \/ Execute(i)
    BY <1>1 DEF Next
  <2>1. CASE GetPrepare(i) \/ HandlePrepare(i)
    BY <2>1, GetPrepareIInv, PrepareVotesIInv DEF HandlePrepare
  <2>2. CASE Receive(i)
    BY <2>2, GetVoteIInv, GetCollateIInv DEF Receive
  <2>3. CASE Expire(i)
    BY <2>3, PrepareTimeoutIInv, AnswerIInv DEF Expire
  <2>4. CASE Waiter(i)
    BY <2>4, PrepareTimeoutIInv, AnswerIInv, TimeoutIInv DEF Waiter
  <2>5. CASE Execute(i)
    BY <2>5, ExecuteIInv
  <2> QED  BY <2>1, <2>2, <2>3, <2>4, <2>5
<1>2. CASE UNCHANGED vars
  BY <1>2 DEF vars, IInv, TypeOK, Counters, FromVotes, OnVotes, SomeVote, Committed,
             PreparesSent, HasPrepare, Sent, QuorumReached, VoteQuorumOnce
<1> QED  BY <1>1, <1>2

------------------------------------------------------------------------------
\* The invariant holds in every reachable state.
THEOREM ConsensusInvariant == Spec => []IInv
<1>1. Init => IInv
  BY InitIInv
<1>2. IInv /\ [Next]_vars => IInv'
  BY NextIInv
<1> QED  BY <1>1, <1>2, PTL DEF Spec

\* Every variable keeps its type, so the executor is never handed a nil PREPARE
\* (resolveMsg's MsgExecution holds only PREPAREs).
THEOREM ConsensusTypeCorrect == Spec => []TypeOK
<1>1. IInv => TypeOK
  BY DEF IInv
<1> QED  BY <1>1, ConsensusInvariant, PTL

\* The counters of Vote, Collate and FillHoleVoteMsgs agree with the maps.
THEOREM CountersMatchTheMaps == Spec => []VoteCounting
<1>1. IInv => VoteCounting
  BY DEF IInv, Counters, Counted, Exact, VoteCounting
<1> QED  BY <1>1, ConsensusInvariant, PTL

\* No decision of GetVote, GetCollate or a timer is taken without some VOTE, and
\* it pushes a PREPARE some replica voted on.
THEOREM DecisionsAreValid == Spec => []Validity
<1>1. IInv => Validity
  BY DEF IInv, OnVotes, SomeVote, PreparesSent, Sent, Validity
<1> QED  BY <1>1, ConsensusInvariant, PTL

\* GetVote announces one vote quorum per replica, whatever the message order.
THEOREM OneVoteQuorum == Spec => []VoteQuorumOnce
<1>1. IInv => VoteQuorumOnce
  BY DEF IInv
<1> QED  BY <1>1, ConsensusInvariant, PTL

------------------------------------------------------------------------------
(* The adaptive quorum: who says COMMITTED has the votes for it.            *)

\* What the waiter of a Vote or Collate timer carries from one step to the next
\* while the handlers of its replica go on: the counter it has read, the votes that
\* were held when it was answered, and the answer.
Waiters ==
  \A i \in Learners :
    /\ read[i]["Vote"] <= st[i].TotalVoteOKMsg
    /\ counted[i] \subseteq st[i].VoteMsgs
    /\ got[i] = {} =>
         /\ read[i]["Collate"] = 0
         /\ timer[i]["Collate"] \notin Answered
         /\ timer[i]["Vote"] \in Answered => Backs(counted[i])

\* The votes of an exact State back what its counters were found to hold, also when
\* the VOTE counter was read earlier.
LEMMA CountedCertificate ==
  ASSUME NEW s \in State, Counted(s), Exact(s), NEW ok \in Nat,
         ok <= s.TotalVoteOKMsg, ok >= 1,
         ok >= Quorum \/ ok >= Quorum - (N - s.TotalVoteMsg)
  PROVE  Backs(s.VoteMsgs)
<1>1. Senders(s.VoteMsgs) \subseteq Nodes
  BY DEF State, Senders, VoteMsg
<1>2. Cardinality(Senders(s.VoteMsgs)) <= N
  BY <1>1, NodesAssumption, FS_Subset DEF N
<1>3. /\ s.TotalVoteMsg \in Nat /\ s.TotalVoteOKMsg \in Nat
      /\ s.TotalVoteMsg <= N
      /\ Cardinality(s.VoteMsgs) = s.TotalVoteMsg
      /\ Cardinality(OKVotes(s.VoteMsgs)) = s.TotalVoteOKMsg
  BY <1>2 DEF State, Counted, Exact
<1>4. N \in Nat /\ Quorum \in Nat
  BY QuorumFacts
<1> QED  BY <1>3, <1>4 DEF Backs

\* A handler only adds: votes and VOTEs to its State, collates to those it handled.
LEMMA WaitersKept ==
  ASSUME IInv, Waiters, UNCHANGED <<read, counted>>,
         \A j \in Learners :
           /\ st'[j].TotalVoteOKMsg \in Nat
           /\ st'[j].TotalVoteOKMsg >= st[j].TotalVoteOKMsg
           /\ st[j].VoteMsgs \subseteq st'[j].VoteMsgs
           /\ got[j] \subseteq got'[j],
         \A j \in Learners : \A q \in AQPhase :
           timer'[j][q] \in Answered => timer[j][q] \in Answered
  PROVE  Waiters'
<1>1. \A j \in Learners : st[j].TotalVoteOKMsg \in Nat /\ read[j]["Vote"] \in Nat
  BY DEF IInv, TypeOK, State, Phase
<1> SUFFICES ASSUME NEW j \in Learners
             PROVE  /\ read'[j]["Vote"] <= st'[j].TotalVoteOKMsg
                    /\ counted'[j] \subseteq st'[j].VoteMsgs
                    /\ got'[j] = {} =>
                         /\ read'[j]["Collate"] = 0
                         /\ timer'[j]["Collate"] \notin Answered
                         /\ timer'[j]["Vote"] \in Answered => Backs(counted'[j])
  BY DEF Waiters, Backs
<1>2. read'[j]["Vote"] <= st'[j].TotalVoteOKMsg
  BY <1>1 DEF Waiters
<1>3. counted'[j] \subseteq st'[j].VoteMsgs
  BY DEF Waiters
<1>4. ASSUME got'[j] = {}
      PROVE  /\ read'[j]["Collate"] = 0
             /\ timer'[j]["Collate"] \notin Answered
             /\ timer'[j]["Vote"] \in Answered => Backs(counted'[j])
  BY <1>4 DEF Waiters, AQPhase
<1> QED  BY <1>2, <1>3, <1>4

LEMMA HandlerWaiters ==
  ASSUME IInv, Waiters, NEW i \in Learners,
         \/ GetPrepare(i) \/ HandlePrepare(i) \/ Receive(i)
         \/ PrepareTimeout(i) \/ PrepareTimeoutVotes(i)
         \/ \E p \in AQPhase : TimeoutDecides(i, p) \/ TimeoutBroadcasts(i, p)
         \/ Execute(i)
  PROVE  Waiters'
<1>1. UNCHANGED <<read, counted>>
  BY DEF GetPrepare, HandlePrepare, TestPrepared, RaisePrepared, PrepareVotes, Receive,
         GetVote, GetCollate, PrepareTimeout, PrepareTimeoutVotes, TimeoutDecides,
         TimeoutBroadcasts, Execute
<1>2. \A j \in Learners : st[j] \in State /\ st[j].TotalVoteOKMsg \in Nat
  BY DEF IInv, TypeOK, State
<1> DEFINE Grown == \A j \in Learners :
                      /\ st'[j].TotalVoteOKMsg \in Nat
                      /\ st'[j].TotalVoteOKMsg >= st[j].TotalVoteOKMsg
                      /\ st[j].VoteMsgs \subseteq st'[j].VoteMsgs
<1>3. Grown
  <2>1. CASE st' = st
    BY <1>2, <2>1
  <2>2. ASSUME NEW s \in State, st' = [st EXCEPT ![i] = s],
               s.TotalVoteOKMsg >= st[i].TotalVoteOKMsg, st[i].VoteMsgs \subseteq s.VoteMsgs
        PROVE  Grown
    <3>1. s.TotalVoteOKMsg \in Nat
      BY DEF State
    <3> QED  BY <1>2, <2>2, <3>1 DEF IInv, TypeOK
  <2>3. ASSUME NEW p \in PrepareMsg, st' = [st EXCEPT ![i] = Prepare(@, p)] PROVE Grown
    <3>1. Prepare(st[i], p) \in State
      BY <1>2, PrepareType
    <3>2. /\ Prepare(st[i], p).TotalVoteOKMsg = st[i].TotalVoteOKMsg
          /\ Prepare(st[i], p).VoteMsgs = st[i].VoteMsgs
      BY <1>2 DEF Prepare, State
    <3> QED  BY <1>2, <2>2, <2>3, <3>1, <3>2
  <2>4. ASSUME NEW v \in votes, GetVote(i, v) PROVE Grown
    <3>1. v \in VoteMsg
      BY DEF IInv, TypeOK
    <3>2. /\ Vote(st[i], v) \in State
          /\ Vote(st[i], v).TotalVoteOKMsg >= st[i].TotalVoteOKMsg
          /\ st[i].VoteMsgs \subseteq Vote(st[i], v).VoteMsgs
      BY <1>2, <3>1, VoteKeeps
    <3> QED  BY <2>2, <2>4, <3>2 DEF GetVote
  <2>5. ASSUME NEW c \in collates, GetCollate(i, c) PROVE Grown
    <3> DEFINE f == FillHoleVoteMsgs(st[i], c)
               s == Collate(f, c)
    <3>1. c.NodeID \in Nodes /\ IsFiniteSet(c.ReceivedVoteMsg) /\ Counted(st[i])
      BY DEF IInv, TypeOK, Counters, FromVotes, CollateMsg
    <3>2. /\ f \in State /\ Counted(f) /\ f.VoteMsgs = st[i].VoteMsgs
          /\ f.TotalVoteOKMsg >= st[i].TotalVoteOKMsg
      BY <1>2, <3>1, FillHoleKeeps
    <3>3. st' = [st EXCEPT ![i] = s]
      BY <2>5 DEF GetCollate
    <3> HIDE DEF f
    <3>4. s \in State /\ s.VoteMsgs = f.VoteMsgs /\ s.TotalVoteOKMsg = f.TotalVoteOKMsg
      BY <3>1, <3>2, CollateKeeps
    <3> HIDE DEF s
    <3> QED  BY <2>2, <3>2, <3>3, <3>4
  <2>6. Proposal \in PrepareMsg /\ NullPrepare \in PrepareMsg
    BY DEF PrepareMsg
  <2> QED
    BY <2>1, <2>3, <2>4, <2>5, <2>6
       DEF GetPrepare, HandlePrepare, TestPrepared, RaisePrepared, PrepareVotes, Receive,
           PrepareTimeout, PrepareTimeoutVotes, TimeoutDecides, TimeoutBroadcasts, Execute
<1>4. \A j \in Learners : got[j] \subseteq got'[j]
  BY DEF GetPrepare, HandlePrepare, TestPrepared, RaisePrepared, PrepareVotes, Receive,
         GetVote, GetCollate, PrepareTimeout, PrepareTimeoutVotes, TimeoutDecides,
         TimeoutBroadcasts, Execute, IInv, TypeOK
<1>5. \A j \in Learners : \A q \in AQPhase :
        timer'[j][q] \in Answered => timer[j][q] \in Answered
  <2>1. \A p \in Phase : \A j \in Learners : \A q \in AQPhase :
          StartTimer(i, p)[j][q] \in Answered => timer[j][q] \in Answered
    BY StartTimerType DEF IInv
  <2>2. CASE timer' = timer \/ \E p \in Phase : timer' = StartTimer(i, p)
    BY <2>1, <2>2
  <2>3. CASE PrepareTimeout(i)
    <3>1. /\ StartTimer(i, "Vote") \in [Learners -> [Phase -> TimerState]]
          /\ \A j \in Learners : \A q \in AQPhase :
               StartTimer(i, "Vote")[j][q] \in Answered => timer[j][q] \in Answered
      BY StartTimerType DEF IInv, Phase
    <3> QED  BY <2>3, <3>1 DEF PrepareTimeout, Phase, AQPhase
  <2>4. CASE PrepareTimeoutVotes(i)
    BY <2>4 DEF PrepareTimeoutVotes, IInv, TypeOK, Phase, AQPhase
  <2>5. CASE \E p \in AQPhase : TimeoutDecides(i, p) \/ TimeoutBroadcasts(i, p)
    BY <2>5 DEF TimeoutDecides, TimeoutBroadcasts, SetTimer, IInv, TypeOK, Phase, AQPhase,
                Answered
  <2> QED
    BY <2>2, <2>3, <2>4, <2>5
       DEF GetPrepare, HandlePrepare, TestPrepared, RaisePrepared, PrepareVotes, Receive,
           GetVote, GetCollate, Execute, Phase
<1> QED  BY <1>1, <1>3, <1>4, <1>5, WaitersKept

LEMMA AnswerWaiters ==
  ASSUME IInv, Waiters, NEW i \in Learners,
         (\E p \in AQPhase : Timeout(i, p)) \/ VoteTimeout(i) \/ CollateTimeout(i)
  PROVE  Waiters'
<1>1. UNCHANGED <<st, got>>
  BY DEF Timeout, VoteTimeout, CollateTimeout
<1>2. /\ st[i] \in State /\ Counted(st[i])
      /\ got[i] = {} => Exact(st[i]) /\ st[i].CollateMsgs = {}
      /\ read \in [Learners -> [Phase -> Nat]]
      /\ timer \in [Learners -> [Phase -> TimerState]]
      /\ counted \in [Learners -> SUBSET VoteMsg]
  BY DEF IInv, TypeOK, Counters
<1>3. /\ st[i].TotalVoteMsg \in Nat /\ st[i].TotalVoteOKMsg \in Nat
      /\ got[i] = {} => st[i].TotalCollateMsg = 0
      /\ N \in Nat /\ F \in Nat /\ Quorum = 2 * F + 1 /\ 3 * F + 1 <= N
  BY <1>2, QuorumFacts, FS_EmptySet DEF State, Quorum, Counted
<1>4. \A j \in Learners \ {i} :
        read'[j] = read[j] /\ counted'[j] = counted[j] /\ timer'[j] = timer[j]
  BY <1>2 DEF Timeout, VoteTimeout, CollateTimeout, SetTimer
<1>5. SUFFICES /\ read'[i]["Vote"] <= st[i].TotalVoteOKMsg
               /\ counted'[i] \subseteq st[i].VoteMsgs
               /\ got[i] = {} =>
                    /\ read'[i]["Collate"] = 0
                    /\ timer'[i]["Collate"] \notin Answered
                    /\ timer'[i]["Vote"] \in Answered => Backs(counted'[i])
  BY <1>1, <1>4 DEF Waiters, Backs
<1>6. CASE Timeout(i, "Vote")
  BY <1>2, <1>3, <1>6 DEF Timeout, SetTimer, Waiters, Phase, Answered
<1>7. CASE Timeout(i, "Collate")
  BY <1>2, <1>3, <1>7 DEF Timeout, SetTimer, Waiters, Phase, Answered
<1>8. CASE VoteTimeout(i)
  <2>1. /\ read'[i]["Vote"] = 0 /\ read'[i]["Collate"] = read[i]["Collate"]
        /\ counted'[i] = st[i].VoteMsgs
        /\ timer'[i]["Collate"] = timer[i]["Collate"]
        /\ timer'[i]["Vote"] = VoteAQ(read[i]["Vote"], st[i])
    BY <1>2, <1>8 DEF VoteTimeout, SetTimer, Phase
  <2>2. VoteAQ(read[i]["Vote"], st[i]) \in Answered /\ got[i] = {} => Backs(st[i].VoteMsgs)
    <3> SUFFICES ASSUME VoteAQ(read[i]["Vote"], st[i]) \in Answered, got[i] = {}
                 PROVE  Backs(st[i].VoteMsgs)
      OBVIOUS
    <3> DEFINE ok == read[i]["Vote"]
    <3>1. ok \in Nat /\ ok <= st[i].TotalVoteOKMsg
      BY <1>2 DEF Waiters, Phase
    <3> HIDE DEF ok
    <3>2. ok >= Quorum - (N - st[i].TotalVoteMsg) /\ ok >= 1
      <4>1. AdaptiveQuorumMet(ok, st[i].TotalVoteMsg)
        BY DEF VoteAQ, AdaptiveAnswer, Answered, ok
      <4> QED  BY <1>3, <3>1, <4>1 DEF AdaptiveQuorumMet, AdaptiveQuorum
    <3> QED  BY <1>2, <3>1, <3>2, CountedCertificate
  <2> QED  BY <1>3, <2>1, <2>2 DEF Waiters
<1>9. CASE CollateTimeout(i)
  <2>1. /\ read'[i]["Vote"] = read[i]["Vote"] /\ read'[i]["Collate"] = 0
        /\ counted'[i] = counted[i]
        /\ timer'[i]["Vote"] = timer[i]["Vote"]
        /\ timer'[i]["Collate"] \in Answered =>
             CollateAQ(read[i]["Collate"], st[i]) = "COMMITTED"
    BY <1>2, <1>9 DEF CollateTimeout, SetTimer, Phase, Answered
  <2>2. CollateAQ(0, st[i]) # "COMMITTED"
    <3>1. ~(AdaptiveQuorum(0) >= 1)
      BY <1>3 DEF AdaptiveQuorum   \* 2F - N + 1 is never positive
    <3> QED  BY <3>1 DEF CollateAQ, AdaptiveAnswer, AdaptiveQuorumMet
  <2> QED  BY <2>1, <2>2 DEF Waiters
<1> QED  BY <1>6, <1>7, <1>8, <1>9 DEF AQPhase

LEMMA WaitersInvariant == Spec => []Waiters
<1>1. Init => Waiters
  <2> SUFFICES ASSUME Init PROVE Waiters
    OBVIOUS
  <2>1. IInv
    BY InitIInv
  <2>2. \A i \in Learners : st[i].TotalVoteOKMsg \in Nat
    BY <2>1 DEF IInv, TypeOK, State
  <2> QED  BY <2>2 DEF Init, Waiters, Phase, Answered
<1>2. IInv /\ Waiters /\ [Next]_vars => Waiters'
  <2> SUFFICES ASSUME IInv, Waiters, [Next]_vars PROVE Waiters'
    OBVIOUS
  <2>1. CASE Next
    BY <2>1, HandlerWaiters, AnswerWaiters DEF Next, Expire, Waiter
  <2>2. CASE UNCHANGED vars
    BY <2>2 DEF vars, Waiters, Backs
  <2> QED  BY <2>1, <2>2
<1> QED  BY <1>1, <1>2, ConsensusInvariant, PTL DEF Spec

\* What AdaptiveProof says of a collate that has just been broadcast.
Proven(c) == \/ c.at = "GetVote" /\ Backs(c.ReceivedVoteMsg)
             \/ /\ c.at = "VoteTimer"
                /\ counted[c.NodeID] \subseteq c.ReceivedVoteMsg
                /\ Backs(counted[c.NodeID])

LEMMA AdaptiveStep ==
  ASSUME IInv, Waiters, Next, NEW c \in collates' \ collates,
         c.MsgType = "COMMITTED", got[c.NodeID] = {}
  PROVE  Proven(c)
<1> PICK i \in Learners : \/ GetPrepare(i) \/ HandlePrepare(i) \/ Receive(i)
                          \/ Expire(i) \/ Waiter(i)
                          \/ Execute(i)
  BY DEF Next
<1>1. ASSUME NEW s, NEW type, NEW origin, Broadcast(i, s, type, origin)
      PROVE  /\ c.NodeID = i /\ c.MsgType = type /\ c.at = origin
             /\ c.ReceivedVoteMsg = s.VoteMsgs
  BY <1>1 DEF Broadcast
<1>2. /\ st[i] \in State /\ Counted(st[i])
      /\ got[i] = {} => Exact(st[i])
  BY DEF IInv, TypeOK, Counters
<1>3. CASE \E v \in votes : GetVote(i, v)
  <2> PICK v \in votes : GetVote(i, v)
    BY <1>3
  <2> DEFINE s == Vote(st[i], v)
  <2>1. v \in VoteMsg
    BY DEF IInv, TypeOK
  <2>2. VoteAnswer(st[i], v) = "COMMITTED" /\ Broadcast(i, s, "COMMITTED", "GetVote")
    <3>1. VoteAnswer(st[i], v) # "UNCOMMITTED"
      <4> SUFFICES ASSUME VoteAnswer(st[i], v) = "UNCOMMITTED" PROVE FALSE
        OBVIOUS
      <4>1. Broadcast(i, s, "UNCOMMITTED", "GetVote")
        BY DEF GetVote
      <4> QED  BY <1>1, <4>1
    <3> QED  BY <3>1 DEF GetVote
  <2>3. got[i] = {} /\ c.at = "GetVote" /\ c.ReceivedVoteMsg = s.VoteMsgs
    BY <1>1, <2>2
  <2>4. v.MsgType = "VOTE" /\ v.NodeID \notin Senders(st[i].VoteMsgs)
        /\ st[i].TotalVoteOKMsg + 1 = Quorum
    BY <1>2, <2>1, <2>2, AnswersRestOnVotes
  <2>5. s \in State /\ s.TotalVoteOKMsg = Quorum
    BY <1>2, <2>1, <2>4, NewVote
  <2>6. Counted(s) /\ Exact(s)
    BY <1>2, <2>1, <2>3, VoteCounted
  <2>7. Quorum \in Nat /\ Quorum >= 1 /\ s.TotalVoteOKMsg \in Nat
    BY <2>5, QuorumFacts DEF State
  <2> HIDE DEF s
  <2>8. Backs(s.VoteMsgs)
    BY <2>5, <2>6, <2>7, CountedCertificate
  <2> QED  BY <2>3, <2>8 DEF Proven
<1>4. CASE \E p \in AQPhase : TimeoutBroadcasts(i, p)
  <2> PICK p \in AQPhase : TimeoutBroadcasts(i, p)
    BY <1>4
  <2>1. timer[i][p] = "pushed" /\ Broadcast(i, st[i], "COMMITTED", TimerOrigin[p])
    BY <1>1 DEF TimeoutBroadcasts
  <2>2. /\ c.NodeID = i /\ got[i] = {} /\ c.at = TimerOrigin[p]
        /\ c.ReceivedVoteMsg = st[i].VoteMsgs
    BY <1>1, <2>1
  <2>3. p = "Vote"
    BY <2>1, <2>2 DEF Waiters, Answered, AQPhase
  <2> QED  BY <2>1, <2>2, <2>3 DEF Waiters, Answered, TimerOrigin, Proven
<1>5. CASE UNCHANGED collates
  BY <1>5
<1> QED
  BY <1>3, <1>4, <1>5
     DEF GetPrepare, HandlePrepare, TestPrepared, RaisePrepared, PrepareVotes, Receive,
         GetCollate, Expire, PrepareTimeout, Timeout, Waiter, PrepareTimeoutVotes,
         VoteTimeout, CollateTimeout, TimeoutDecides, Execute

\* A replica that has handled no collate says COMMITTED only with 2F+1 VOTEs, less
\* one for every replica not heard of, and at least one: VoteAQ and CollateAQ lower
\* the quorum by no more than that, although they read two counters while GetVote
\* raises them, and the certificate sent later has at least the votes counted.
THEOREM AdaptiveQuorumIsProven == Spec => AdaptiveProof
<1> DEFINE New(c) == c.MsgType = "COMMITTED" /\ got[c.NodeID] = {} => Proven(c)
<1>1. IInv /\ Waiters /\ [Next]_vars => [\A c \in collates' \ collates : New(c)]_vars
  BY AdaptiveStep
<1>2. [][\A c \in collates' \ collates : New(c)]_vars => AdaptiveProof
  BY PTL DEF AdaptiveProof, Proven
<1> QED  BY <1>1, <1>2, ConsensusInvariant, WaitersInvariant, PTL DEF Spec
==============================================================================
