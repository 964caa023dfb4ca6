------------------------------- MODULE Pipeline -------------------------------
(***************************************************************************)
(* How the sequences overlap (network/node.go, proxy_server.go, view.go):   *)
(* the primary of sequence s + 1 proposes it while it handles the PREPARE   *)
(* of s, threads are started by that handler or by the first message that   *)
(* arrives, and every step goes through the one View.ID of the node, which  *)
(* the handlers of all sequences and the executor write with no lock.       *)
(* What a sequence decides is Consensus.tla; here it is executed some time  *)
(* after it was proposed.                                                    *)
(***************************************************************************)
EXTENDS Integers, FiniteSets

CONSTANTS Size,         \* number of nodes; nodes are places in the NodeTable
          participant,  \* views per round, one node each (10)
          MaxSeq        \* bound on the sequence numbers

ASSUME PipelineAssumption == /\ Size \in Nat /\ participant \in 1..Size
                             /\ MaxSeq \in Nat \ {0}

Nodes == 0..(Size - 1)
Seqs  == 1..MaxSeq
Views == 0..(participant - 1)

\* The sequences whose PREPARE makes a node look for the next primary, and 0.
Callers == 0..MaxSeq
Nil   == -1

PrepareMsg == [SequenceID : Seqs, ViewID : Views, NodeID : Nodes]

VARIABLES ViewID,       \* ViewID[i]: node i's View.ID
          prepares,     \* the PREPAREs broadcast so far
          inbox,        \* inbox[i]: those delivered to i's threads, not handled
          handled,      \* handled[i]: those handled
          States,       \* States[i][s]: the view its State captured, Nil if none
          pc,           \* pc[i][s]: where GetPrepare of sequence s is; the node's
                        \* sendGenesisMsgIfPrimary is pc[i][0]
          voted,        \* the sequences some node has sent a VOTE of
          StableCheckPoint,
          advancing     \* the nodes whose executor is about to set the view

vars == <<ViewID, prepares, inbox, handled, States, pc, voted, StableCheckPoint,
          advancing>>

Init ==
  /\ ViewID   = [i \in Nodes |-> 0]
  /\ prepares = {}
  /\ inbox    = [i \in Nodes |-> {}]
  /\ handled  = [i \in Nodes |-> {}]
  /\ States   = [i \in Nodes |-> [s \in Seqs |-> Nil]]
  /\ pc       = [i \in Nodes |-> [s \in Callers |-> IF s = 0 THEN "genesis" ELSE "idle"]]
  /\ voted = {}
  /\ StableCheckPoint = [i \in Nodes |-> 0]
  /\ advancing = {}

\* Mutant of updateViewID: the view is the sequence.
updateViewIDNoModulo(i, v) == ViewID' = [ViewID EXCEPT ![i] = v]

\* View.ID = sequence % participant
updateViewID(i, v) == ViewID' = [ViewID EXCEPT ![i] = v % participant]

\* The test and the insertion are under StatesMutex; createState reads View.ID.
StartThreadIfNotExists(i, s) ==
  IF s \in Seqs /\ States[i][s] = Nil THEN [States EXCEPT ![i][s] = ViewID[i]] ELSE States

\* Mutant of Message: the sequence, one more already, is incremented again.
MessageOfNextSequence(i, s) == [SequenceID |-> s + 1, ViewID |-> ViewID[i], NodeID |-> i]

\* PrepareMsgMaking reads View.ID once more.
Message(i, s) == [SequenceID |-> s, ViewID |-> ViewID[i], NodeID |-> i]

\* sendGenesisMsgIfPrimary, some time after the start, perhaps after the PREPARE of
\* another node: the same three reads of the view as for every later sequence.
Genesis(i) ==
  /\ pc[i][0] = "genesis"
  /\ updateViewID(i, 0)
  /\ pc' = [pc EXCEPT ![i][0] = "primary"]
  /\ UNCHANGED <<prepares, inbox, handled, States, voted, StableCheckPoint, advancing>>

\* resolveMsg: a PREPARE starts the thread of its sequence and is handed to it.
DeliverPrepare(i, m) ==
  /\ m \in prepares \ (inbox[i] \cup handled[i])
  /\ inbox'  = [inbox EXCEPT ![i] = @ \cup {m}]
  /\ States' = StartThreadIfNotExists(i, m.SequenceID)
  /\ UNCHANGED <<ViewID, prepares, handled, pc, voted, StableCheckPoint, advancing>>

\* resolveMsg: so does a vote or a collate, but of no executed sequence and not of
\* the first.  Its sender has a thread of the sequence (its timer may have voted).
DeliverVote(i, s) ==
  /\ \E j \in Nodes \ {i} : States[j][s] # Nil
  /\ States[i][s] = Nil /\ s # 1 /\ s > StableCheckPoint[i]
  /\ States' = StartThreadIfNotExists(i, s)
  /\ UNCHANGED <<ViewID, prepares, inbox, handled, pc, voted, StableCheckPoint, advancing>>

\* What follows once the proposal is settled: a thread for the next sequence, but
\* none for the first.
Settled(s) == IF s = 0 THEN "exited" ELSE "thread"

\* Mutant of UpdateView: the PREPARE of an executed sequence is ignored, as
\* resolveMsg ignores its votes.
UpdateViewUnlessCommitted(i, m) ==
  /\ m \in inbox[i]
  /\ m.SequenceID > StableCheckPoint[i]
  /\ pc[i][m.SequenceID] = "idle"
  /\ inbox'   = [inbox EXCEPT ![i] = @ \ {m}]
  /\ handled' = [handled EXCEPT ![i] = @ \cup {m}]
  /\ updateViewID(i, m.SequenceID)
  /\ pc' = [pc EXCEPT ![i][m.SequenceID] = "primary"]
  /\ UNCHANGED <<prepares, States, voted, StableCheckPoint, advancing>>

\* GetPrepare of sequence s calls BroadCastNextPrepareMsgIfPrimary(s + 1): it sets
\* the view ...
UpdateView(i, m) ==
  /\ m \in inbox[i]
  /\ pc[i][m.SequenceID] = "idle"
  /\ inbox'   = [inbox EXCEPT ![i] = @ \ {m}]
  /\ handled' = [handled EXCEPT ![i] = @ \cup {m}]
  /\ updateViewID(i, m.SequenceID)
  /\ pc' = [pc EXCEPT ![i][m.SequenceID] = "primary"]
  /\ UNCHANGED <<prepares, States, voted, StableCheckPoint, advancing>>

\* ... reads it again to see whose turn it is ...
CheckPrimary(i, s) ==
  /\ pc[i][s] = "primary"
  /\ pc' = [pc EXCEPT ![i][s] = IF ViewID[i] = i THEN "propose" ELSE Settled(s)]
  /\ UNCHANGED <<ViewID, prepares, inbox, handled, States, voted, StableCheckPoint,
                 advancing>>

\* ... and once more for the message ...
Propose(i, s) ==
  /\ pc[i][s] = "propose"
  /\ pc' = [pc EXCEPT ![i][s] = Settled(s)]
  /\ prepares' = IF s + 1 \in Seqs THEN prepares \cup {Message(i, s + 1)} ELSE prepares
  /\ UNCHANGED <<ViewID, inbox, handled, States, voted, StableCheckPoint, advancing>>

\* ... and GetPrepare starts the next thread and votes.
StartNext(i, s) ==
  /\ pc[i][s] = "thread"
  /\ pc' = [pc EXCEPT ![i][s] = "idle"]
  /\ States' = StartThreadIfNotExists(i, s + 1)
  /\ voted'  = voted \cup {s}
  /\ UNCHANGED <<ViewID, prepares, inbox, handled, StableCheckPoint, advancing>>

\* executeMsg: the next sequence was decided, on the votes of the others perhaps,
\* but not without any VOTE (Validity of Consensus).
Execute(i) ==
  LET s == StableCheckPoint[i] + 1
  IN  /\ s \in Seqs /\ States[i][s] # Nil /\ i \notin advancing
      /\ s \in voted
      /\ StableCheckPoint' = [StableCheckPoint EXCEPT ![i] = s]
      /\ advancing' = advancing \cup {i}
      /\ UNCHANGED <<ViewID, prepares, inbox, handled, States, pc, voted>>

\* The executor sets the view of the sequence after the one it executed.
Advance(i) ==
  /\ i \in advancing
  /\ advancing' = advancing \ {i}
  /\ updateViewID(i, StableCheckPoint[i])
  /\ UNCHANGED <<prepares, inbox, handled, States, pc, voted, StableCheckPoint>>

\* The thread of an executed sequence was told to exit.  Its select may prefer what
\* waits in its channel; once it has exited nothing more is handled.
Exit(i, s) ==
  /\ s <= StableCheckPoint[i]
  /\ pc[i][s] = "idle"
  /\ pc' = [pc EXCEPT ![i][s] = "exited"]
  /\ UNCHANGED <<ViewID, prepares, inbox, handled, States, voted, StableCheckPoint,
                 advancing>>

GetPrepare(i) == \/ \E m \in inbox[i] : UpdateView(i, m)
                 \/ \E s \in Callers : CheckPrimary(i, s) \/ Propose(i, s) \/ StartNext(i, s)

Next == \E i \in Nodes :
          \/ Genesis(i) \/ GetPrepare(i)
          \/ \E m \in prepares : DeliverPrepare(i, m)
          \/ \E s \in Seqs : DeliverVote(i, s) \/ Exit(i, s)
          \/ Execute(i) \/ Advance(i)

Spec == Init /\ [][Next]_vars

\* Nodes start, the transport delivers the PREPAREs, goroutines keep running.
\* Nothing is assumed of votes and decisions.
FairSpec == /\ Spec
            /\ \A i \in Nodes :
                 /\ WF_vars(Genesis(i)) /\ WF_vars(GetPrepare(i)) /\ WF_vars(Advance(i))
                 /\ WF_vars(\E m \in prepares : DeliverPrepare(i, m))

------------------------------------------------------------------------------
TypeOK ==
  /\ ViewID \in [Nodes -> Views]        \* getPrimaryInfoByID finds a node
  /\ advancing \subseteq Nodes
  /\ prepares \subseteq PrepareMsg /\ voted \subseteq Seqs
  /\ inbox \in [Nodes -> SUBSET PrepareMsg] /\ handled \in [Nodes -> SUBSET PrepareMsg]
  /\ States \in [Nodes -> [Seqs -> Views \cup {Nil}]]
  /\ pc \in [Nodes -> [Callers -> {"genesis", "idle", "primary", "propose", "thread",
                                   "exited"}]]
  /\ StableCheckPoint \in [Nodes -> 0..MaxSeq]

ProposedSeqs == {m.SequenceID : m \in prepares}

\* Speculation is bounded, in whatever order PREPAREs, votes and decisions arrive:
\* proposals leave no gap, and nobody works more than one sequence ahead of them.
OneAhead ==
  /\ \A s \in ProposedSeqs \ {1} : s - 1 \in ProposedSeqs
  /\ \A i \in Nodes, s \in Seqs \ {1} : States[i][s] # Nil => s - 1 \in ProposedSeqs

\* The primary of the view after q did not propose q + 1: its handler set the view
\* and found another one there, or its thread exited before the PREPARE of q.
Missed(q) ==
  LET i == q % participant
  IN  /\ q + 1 \notin ProposedSeqs
      /\ \/ pc[i][q] = Settled(q) /\ ViewID[i] # i
         \/ q # 0 /\ pc[i][q] = "exited" /\ \A m \in handled[i] : m.SequenceID # q

\* The pipeline stops only by these two races: with nothing decided or everything
\* executed early, each proposal is followed by the next.
FollowedUnlessMissed ==
  \A q \in 0..(MaxSeq - 1) :
    <>(q = 0 \/ q \in ProposedSeqs) => <>(q + 1 \in ProposedSeqs \/ Missed(q))

\* README.md:35, PPE: new rounds are opened before the current one completes.  (Of
\* BroadCastNextPrepareMsgIfPrimary: all of them, even if nothing is ever decided.)
Pipelined == \A s \in Seqs : <>(s \in ProposedSeqs)
===============================================================================
