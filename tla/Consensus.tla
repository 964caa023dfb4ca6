------------------------------ MODULE Consensus -------------------------------
(***************************************************************************)
(* One sequence number of the consensus, at every replica: the handlers     *)
(* GetPrepare, GetVote and GetCollate, the three phase timers and the       *)
(* execution of the block (pbft/network/node.go over PBFTState.tla).        *)
(*                                                                          *)
(* Messages may be delayed, reordered or lost and replicas may be slow or   *)
(* crashed (they simply take no step); no replica sends what its code does  *)
(* not send.  What a handler does for the NEXT sequence (its thread, its    *)
(* proposal) belongs to another instance of this module; the order between  *)
(* sequences is Executor.tla's.                                              *)
(*                                                                          *)
(* Timers are asynchronous here: once a phase is started its timer fires at *)
(* most once, at any later time or never.  Stopping a timer races with its  *)
(* expiry (the stop goes through a channel, the waiter selects at random),  *)
(* so a Stop excludes nothing; TimedConsensus.tla adds the timer thread     *)
(* that decides which timers still can fire.                                 *)
(***************************************************************************)
EXTENDS PBFTState

Phase == {"Prepare", "Vote", "Collate"}

\* Not started, started, fired; and where the waiter of a timer that fired may be
\* in between: it has read one counter (or Prepared), holds the answer of VoteAQ or
\* CollateAQ, has pushed the decision but not broadcast it.
TimerState == {"off", "on", "firing", "COMMITTED", "UNCOMMITTED", "pushed", "done"}

\* Where the handler goroutine of a replica is: between messages, or in GetPrepare
\* before it tests Prepared, before it raises it, before it votes.
HandlerState == {"free", "proposing", "raising", "voting"}

CONSTANTS Learners,     \* the replicas followed through every phase; of the
                        \* others only the votes they sent are modelled
          VoterSent,    \* the sets of votes those others may have sent
          MaxStale,     \* how many States captured a stale View.ID
          Expiring,     \* which timers may expire: a set of <<replica, phase>>
          Proposed      \* did the primary broadcast its PREPARE?

ASSUME SwitchAssumption   == /\ MaxStale \in Nat
                             /\ Proposed \in BOOLEAN
                             /\ Expiring \subseteq Learners \X Phase

\* A replica that is not followed sends, with its Prepare timer and the PREPARE
\* racing, a vote on the proposal, a null vote, both or none.
VoterVotes == {PrepareVote(CreateState(v), j, p) : v \in {View, StaleView},
                                                   j \in Nodes \ Learners,
                                                   p \in PrepareMsg}

ASSUME LearnersAssumption == /\ Learners \subseteq Nodes
                             /\ VoterSent \subseteq SUBSET VoterVotes

VARIABLES st,           \* st[i]: States[seq] of replica i
          timer,        \* timer[i][phase]: see TimerState
          read,         \* read[i][phase]: the counter its waiter has read
          handler,      \* handler[i]: see HandlerState
          Prepared,     \* Prepared[i]: node.Prepared[seq]
          votes,        \* every vote broadcast so far
          collates,     \* every collate broadcast so far
          toPrepare,    \* the replicas the PREPARE is still in flight to
          got,          \* got[i]: the collates i has handled
          pushed,       \* pushed[i]: what i put on MsgExecution
          block,        \* block[i]: CommittedMsgs[seq], Nil until executed
          counted       \* counted[i]: history, the votes held when VoteAQ answered

vars == <<st, timer, read, handler, Prepared, votes, collates, toPrepare, got,
          pushed, block, counted>>

TimerOrigin == [Vote |-> "VoteTimer", Collate |-> "CollateTimer"]
Origin == {"GetVote", "VoteTimer", "CollateTimer"}

CollateMsg == [NodeID : Nodes, ViewID : {View, StaleView}, MsgType : CollateType,
               ReceivedVoteMsg : SUBSET VoteMsg, at : Origin]

Committed(i) == block[i] # Nil      \* node.Committed[seq] == 1

Init ==
  /\ \E stale \in SUBSET Learners :
       /\ Cardinality(stale) <= MaxStale
       /\ st = [i \in Learners |->
                  CreateState(IF i \in stale THEN StaleView ELSE View)]
  /\ timer     = [i \in Learners |->
                    [p \in Phase |-> IF p = "Prepare" THEN "on" ELSE "off"]]
  /\ read      = [i \in Learners |-> [p \in Phase |-> 0]]
  /\ handler   = [i \in Learners |-> "free"]
  /\ Prepared  = [i \in Learners |-> 0]
  /\ votes     \in VoterSent
  /\ collates  = {}
  /\ toPrepare = IF Proposed THEN Learners ELSE {}
  /\ got       = [i \in Learners |-> {}]
  /\ pushed    = [i \in Learners |-> {}]
  /\ block     = [i \in Learners |-> Nil]
  /\ counted   = [i \in Learners |-> {}]

\* Mutant of Decisions: the test for a nil PREPARE is dropped.
DecisionsNoNilTest(s) == {{s.PrepareMsg}}

\* What a decision puts on MsgExecution: the State's own PREPARE, else that of
\* whichever vote the map iteration meets first.
Decisions(s) == IF s.PrepareMsg # Nil THEN {{s.PrepareMsg}}
                ELSE IF s.VoteMsgs = {} THEN {{}}
                ELSE {{w.PrepareMsg} : w \in s.VoteMsgs}

Push(i, s) == \E d \in Decisions(s) : pushed' = [pushed EXCEPT ![i] = @ \cup d]

Broadcast(i, s, type, origin) ==
  collates' = collates \cup {[NodeID |-> i, ViewID |-> s.ViewID, MsgType |-> type,
                              ReceivedVoteMsg |-> s.VoteMsgs, at |-> origin]}

\* TimerStartCh: a phase already started is not started again.
StartTimer(i, p) == IF timer[i][p] = "off"
                    THEN [timer EXCEPT ![i][p] = "on"] ELSE timer

MayExpire(i, p) == timer[i][p] = "on" /\ <<i, p>> \in Expiring

------------------------------------------------------------------------------
(* GetPrepare sleeps while it proposes the next sequence, then tests        *)
(* Prepared, raises it, and votes: the waiters of the timers run in between.*)

GetPrepare(i) ==
  /\ handler[i] = "free" /\ i \in toPrepare
  /\ handler'   = [handler EXCEPT ![i] = "proposing"]
  /\ toPrepare' = toPrepare \ {i}
  /\ st'        = [st EXCEPT ![i] = Prepare(@, Proposal)]
  /\ UNCHANGED <<timer, read, Prepared, votes, collates, got, pushed, block, counted>>

TestPrepared(i) ==
  /\ handler[i] = "proposing"
  /\ handler' = [handler EXCEPT ![i] = IF Prepared[i] = 0 THEN "raising" ELSE "voting"]
  /\ UNCHANGED <<st, timer, read, Prepared, votes, collates, toPrepare, got, pushed,
                 block, counted>>

RaisePrepared(i) ==
  /\ handler[i] = "raising"
  /\ handler'  = [handler EXCEPT ![i] = "voting"]
  /\ Prepared' = [Prepared EXCEPT ![i] = @ + 1]
  /\ UNCHANGED <<st, timer, read, votes, collates, toPrepare, got, pushed, block, counted>>

\* The branch is taken on Committed before MsgExecution is written.
PrepareVotes(i) ==
  /\ handler[i] = "voting"
  /\ handler' = [handler EXCEPT ![i] = "free"]
  /\ votes'   = votes \cup {PrepareVote(st[i], i, Proposal)}
  /\ \/ /\ Committed(i)
        /\ pushed' = [pushed EXCEPT ![i] = @ \cup {Proposal}]
        /\ timer'  = timer
     \/ /\ ~Committed(i)
        /\ pushed' = pushed
        /\ timer'  = StartTimer(i, "Vote")
  /\ UNCHANGED <<st, read, Prepared, collates, toPrepare, got, block, counted>>

\* The waiter of the Prepare timer: it starts the Vote phase, overwrites the
\* PREPARE with a null one, and reads Prepared ...
PrepareTimeout(i) ==
  /\ MayExpire(i, "Prepare")
  /\ st' = [st EXCEPT ![i] = Prepare(@, NullPrepare)]
  /\ \/ /\ Prepared[i] = 0
        /\ timer' = [StartTimer(i, "Vote") EXCEPT ![i]["Prepare"] = "firing"]
        /\ votes' = votes
     \/ /\ Prepared[i] # 0
        /\ timer' = [StartTimer(i, "Vote") EXCEPT ![i]["Prepare"] = "done"]
        /\ votes' = votes \cup {PrepareVote(st[i], i, NullPrepare)}
  /\ UNCHANGED <<read, handler, Prepared, collates, toPrepare, got, pushed, block, counted>>

\* ... and adds to it in a separate step, GetPrepare possibly in between.
PrepareTimeoutVotes(i) ==
  /\ timer[i]["Prepare"] = "firing"
  /\ timer'    = [timer EXCEPT ![i]["Prepare"] = "done"]
  /\ Prepared' = [Prepared EXCEPT ![i] = @ + 1]
  /\ votes'    = votes \cup {PrepareVote(st[i], i, NullPrepare)}
  /\ UNCHANGED <<st, read, handler, collates, toPrepare, got, pushed, block, counted>>

------------------------------------------------------------------------------
\* A vote handled twice is dropped by Vote, so votes stay in the set.  A vote
\* decision does not look at Committed.
GetVote(i, v) ==
  /\ handler[i] = "free" /\ v \in votes
  /\ st' = [st EXCEPT ![i] = Vote(@, v)]
  /\ \/ /\ VoteAnswer(st[i], v) = "COMMITTED"
        /\ Push(i, Vote(st[i], v))
        /\ Broadcast(i, Vote(st[i], v), "COMMITTED", "GetVote")
        /\ timer' = StartTimer(i, "Collate")
     \/ /\ VoteAnswer(st[i], v) = "UNCOMMITTED"
        /\ pushed' = pushed
        /\ Broadcast(i, Vote(st[i], v), "UNCOMMITTED", "GetVote")
        /\ timer' = StartTimer(i, "Collate")
     \/ /\ VoteAnswer(st[i], v) = "NONE"
        /\ UNCHANGED <<pushed, collates, timer>>
  /\ UNCHANGED <<read, handler, Prepared, votes, toPrepare, got, block, counted>>

------------------------------------------------------------------------------
(* The waiters of the Vote and the Collate timer run beside the handlers:   *)
(* two reads, the answer, the decision, the broadcast.                      *)

SetTimer(i, p, s) == timer' = [timer EXCEPT ![i][p] = s]

\* VoteAQ reads the VOTE counter first, CollateAQ the collate counter.
Timeout(i, p) ==
  /\ MayExpire(i, p)
  /\ SetTimer(i, p, "firing")
  /\ read' = [read EXCEPT ![i][p] = IF p = "Vote" THEN st[i].TotalVoteOKMsg
                                                  ELSE st[i].TotalCollateMsg]
  /\ UNCHANGED <<st, handler, Prepared, votes, collates, toPrepare, got, pushed,
                 block, counted>>

\* VoteAQ: the message it makes holds the map VoteMsgs itself, not the votes of now.
VoteTimeout(i) ==
  /\ timer[i]["Vote"] = "firing"
  /\ SetTimer(i, "Vote", VoteAQ(read[i]["Vote"], st[i]))
  /\ read'    = [read EXCEPT ![i]["Vote"] = 0]
  /\ counted' = [counted EXCEPT ![i] = st[i].VoteMsgs]
  /\ UNCHANGED <<st, handler, Prepared, votes, collates, toPrepare, got, pushed,
                 block>>

\* CollateAQ: an UNCOMMITTED answer ends the waiter.
CollateTimeout(i) ==
  /\ timer[i]["Collate"] = "firing"
  /\ SetTimer(i, "Collate",
       IF CollateAQ(read[i]["Collate"], st[i]) = "COMMITTED" THEN "COMMITTED" ELSE "done")
  /\ read' = [read EXCEPT ![i]["Collate"] = 0]
  /\ UNCHANGED <<st, handler, Prepared, votes, collates, toPrepare, got, pushed,
                 block, counted>>

\* A COMMITTED answer is acted upon unless the sequence is executed.
TimeoutDecides(i, p) ==
  /\ timer[i][p] = "COMMITTED"
  /\ \/ ~Committed(i) /\ Push(i, st[i]) /\ SetTimer(i, p, "pushed")
     \/ Committed(i) /\ pushed' = pushed /\ SetTimer(i, p, "done")
  /\ UNCHANGED <<st, read, handler, Prepared, votes, collates, toPrepare, got, block,
                 counted>>

\* The collate is marshalled: it carries the votes held by then.
TimeoutBroadcasts(i, p) ==
  /\ \/ timer[i][p] = "pushed"      /\ Broadcast(i, st[i], "COMMITTED", TimerOrigin[p])
     \/ timer[i][p] = "UNCOMMITTED" /\ Broadcast(i, st[i], "UNCOMMITTED", TimerOrigin[p])
  /\ SetTimer(i, p, "done")
  /\ UNCHANGED <<st, read, handler, Prepared, votes, toPrepare, got, pushed, block,
                 counted>>

------------------------------------------------------------------------------
\* Does replica i take over the decision once it has filled in and kept c?
AdoptsCollate(i, c) == /\ CollateAnswer(FillHoleVoteMsgs(st[i], c), c) = "COMMITTED"
                       /\ Prepared[i] = 1 /\ ~Committed(i)

\* FillHoleVoteMsgs runs before Collate looks for a duplicate.
GetCollate(i, c) ==
  /\ handler[i] = "free" /\ c \in collates \ got[i]
  /\ got' = [got EXCEPT ![i] = @ \cup {c}]
  /\ st'  = [st EXCEPT ![i] = Collate(FillHoleVoteMsgs(@, c), c)]
  /\ \/ /\ AdoptsCollate(i, c)
        /\ Push(i, st[i])
     \/ /\ ~AdoptsCollate(i, c)
        /\ pushed' = pushed
  /\ UNCHANGED <<timer, read, handler, Prepared, votes, collates, toPrepare, block,
                 counted>>

\* executeMsg: the executor has read one or more of the pushed messages, the last
\* of which it keeps, and the predecessor is executed.
Execute(i) ==
  /\ ~Committed(i)
  /\ \E p \in pushed[i] : block' = [block EXCEPT ![i] = p]
  /\ UNCHANGED <<st, timer, read, handler, Prepared, votes, collates, toPrepare, got,
                 pushed, counted>>

Receive(i) == \/ \E v \in votes    : GetVote(i, v)
              \/ \E c \in collates : GetCollate(i, c)

HandlePrepare(i) == TestPrepared(i) \/ RaisePrepared(i) \/ PrepareVotes(i)

\* The phases that end in an adaptive decision.
AQPhase == {"Vote", "Collate"}

Expire(i) == PrepareTimeout(i) \/ \E p \in AQPhase : Timeout(i, p)

Waiter(i) == \/ PrepareTimeoutVotes(i) \/ VoteTimeout(i) \/ CollateTimeout(i)
             \/ \E p \in AQPhase : TimeoutDecides(i, p) \/ TimeoutBroadcasts(i, p)

Next == \E i \in Learners :
          \/ GetPrepare(i) \/ HandlePrepare(i) \/ Receive(i)
          \/ Expire(i) \/ Waiter(i)
          \/ Execute(i)

Spec == Init /\ [][Next]_vars

------------------------------------------------------------------------------
\* Types of the variables.
TypeOK ==
  /\ st \in [Learners -> State]
  /\ timer \in [Learners -> [Phase -> TimerState]]
  /\ read \in [Learners -> [Phase -> Nat]]
  /\ handler \in [Learners -> HandlerState]
  /\ Prepared \in [Learners -> Nat]
  /\ votes \subseteq VoteMsg
  /\ collates \subseteq CollateMsg
  /\ toPrepare \subseteq Learners
  /\ got \in [Learners -> SUBSET CollateMsg]
  /\ pushed \in [Learners -> SUBSET PrepareMsg]
  /\ block \in [Learners -> PrepareMsg \cup {Nil}]
  /\ counted \in [Learners -> SUBSET VoteMsg]

\* The counters agree with the maps: one vote and one collate is counted per
\* sender.  The VOTE counter is never below the VOTEs held, and it is exact as
\* long as no collate has been handled: only FillHoleVoteMsgs inflates it.
VoteCounting ==
  \A i \in Learners :
    /\ st[i].TotalVoteMsg = Cardinality(st[i].VoteMsgs)
    /\ st[i].TotalVoteMsg = Cardinality(Senders(st[i].VoteMsgs))
    /\ st[i].TotalCollateMsg = Cardinality(st[i].CollateMsgs)
    /\ st[i].TotalVoteOKMsg >= Cardinality(OKVotes(st[i].VoteMsgs))
    /\ got[i] = {} =>
         st[i].TotalVoteOKMsg = Cardinality(OKVotes(st[i].VoteMsgs))

\* What reaches the executor comes from a vote that was sent (so it is never a
\* nil PREPARE, on which executeMsg would panic, and the null block needs a null
\* vote), and no decision is taken on null and reject votes alone: some replica
\* voted VOTE, however many timers fired and however low the adaptive quorum fell.
Validity ==
  \A i \in Learners : pushed[i] # {} =>
    /\ OKVotes(votes) # {}
    /\ \A p \in pushed[i] :
         \/ \E v \in votes : v.PrepareMsg = p
         \/ p = NullPrepare /\ timer[i]["Prepare"] = "firing"
         \/ p = Proposal /\ handler[i] # "free"

\* GetVote announces a vote quorum at most once per replica, whatever order the
\* votes and the collates that bump the same counter arrive in.
VoteQuorumOnce ==
  \A c, d \in collates :
    /\ c.NodeID = d.NodeID
    /\ c.MsgType = "COMMITTED" /\ d.MsgType = "COMMITTED"
    /\ c.at = "GetVote" /\ d.at = "GetVote"
    => c = d

\* 2F+1 VOTEs, less one for every replica that is not heard of, and never none.
Backs(ms) == LET ok == Cardinality(OKVotes(ms))
                 b  == N - Cardinality(ms)
             IN  ok >= 1 /\ ok >= Quorum - b

\* A replica that has handled no collate announces COMMITTED only with votes behind
\* it: a vote quorum with those it holds, the Vote timer with those that were held
\* when VoteAQ answered, the Collate timer never.  The collate carries all of them;
\* but the map has grown until it is marshalled (node.go:247 to 152), and by votes
\* that are no VOTE the certificate as a whole may fall below its own quorum.
AdaptiveProof ==
  [][\A c \in collates' \ collates :
       c.MsgType = "COMMITTED" /\ got[c.NodeID] = {} =>
         \/ c.at = "GetVote" /\ Backs(c.ReceivedVoteMsg)
         \/ /\ c.at = "VoteTimer"
            /\ counted[c.NodeID] \subseteq c.ReceivedVoteMsg
            /\ Backs(counted[c.NodeID])]_vars
==============================================================================
