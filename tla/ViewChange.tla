------------------------------ MODULE ViewChange ------------------------------
(***************************************************************************)
(* The view change (network/view.go, consensus/pbft_view_impl.go) and what  *)
(* it meets in a node: the threads of the sequences, whose handlers run it, *)
(* and the executor, whose ledger it rolls back and fills.                  *)
(*                                                                          *)
(* The start of the ViewChange timer is commented out (node.go:661), so as  *)
(* the code stands no view change begins.  Watched says for which threads   *)
(* the timer is taken to be started; everything else is the code.  The      *)
(* nodes that are not followed are represented by the VIEW-CHANGEs they may *)
(* have sent.  Left out: SetP and the epoch, which nobody reads, Prepared,  *)
(* and the decisions of a sequence, of which only the arrival is kept.      *)
(***************************************************************************)
EXTENDS Integers, FiniteSets, FiniteSetsExt

CONSTANTS Size,         \* number of nodes; nodes are places in the NodeTable
          participant,  \* views per epoch; the first candidate is the next place (10)
          LateReset,    \* the candidate set by the new view that ends an epoch (7)
          Learners,     \* the nodes that are followed
          MaxSeq,       \* bound on the sequence numbers
          Watched,      \* the threads <<node, sequence>> whose ViewChange timer starts
          OthersSent,   \* the VIEW-CHANGEs the other nodes may have sent
          MaxNewViews   \* bound on the NEW-VIEWs

Nodes  == 0..(Size - 1)
Seqs   == 1..MaxSeq
F      == (Size - 1) \div 3
Quorum == 2 * F + 1
Nil    == -1

ViewChangeMsg == [NodeID : Nodes, SequenceID : Seqs, StableCheckPoint : 0..MaxSeq]

ASSUME ViewChangeAssumption ==
  /\ Size \in Nat /\ participant \in 1..(Size - 1) /\ LateReset \in 1..participant
  /\ MaxSeq \in Nat \ {0} /\ MaxNewViews \in Nat
  /\ Learners \subseteq Nodes /\ Watched \subseteq Learners \X Seqs
  /\ \A W \in OthersSent : W \subseteq {m \in ViewChangeMsg : m.NodeID \notin Learners}

VARIABLES node,         \* node[i]: the Node of i, see Start
          viewchanges,  \* the VIEW-CHANGEs broadcast so far
          newviews,     \* the NEW-VIEWs
          proposals     \* the PREPAREs of new primaries

vars == <<node, viewchanges, newviews, proposals>>

NoVCState == [NextCandidateIdx |-> Nil, ViewChangeMsgs |-> {}, msgSent |-> FALSE]

Start ==
  [States    |-> [s \in Seqs |-> Nil],     \* the view its State captured, Nil if none
   handler   |-> [s \in Seqs |-> "none"],  \* its handler: run, told to exit, blocked
   watch     |-> [s \in Seqs |-> "none"],  \* its ViewChange timer: running, done
   TotalConsensus   |-> 0,
   CommittedMsgs    |-> <<>>,              \* sequence -> "block" or "hole"
   Committed        |-> {},
   StableCheckPoint |-> 0,
   ViewID           |-> 0,
   NextCandidateIdx |-> participant,
   IsViewChanging   |-> FALSE,
   VCStates  |-> [s \in Seqs |-> NoVCState],
   pairs     |-> {},                       \* decisions the executor waits to use
   executing |-> FALSE,                    \* the executor is in its inner loop
   got       |-> {},                       \* messages handled
   late      |-> [s \in Seqs |-> {}],      \* messages for handlers of deleted States
   asleep    |-> {},                       \* handlers in their 200 ms of sleep
   down      |-> FALSE]                    \* the process has panicked

Init == /\ node = [i \in Learners |-> Start]
        /\ viewchanges \in OthersSent
        /\ newviews = {} /\ proposals = {}

Put(i, n)  == node' = [node EXCEPT ![i] = n]
Up(i)      == ~node[i].down
Senders(V) == {m.NodeID : m \in V}

\* What a thread's channel may hold.
Sent(s) == {m \in viewchanges : m.SequenceID = s} \cup {m \in newviews : m.SequenceID = s}

------------------------------------------------------------------------------
(* The parts of the handlers, on one node n.                                *)

StartThreadIfNotExists(n, s) ==
  IF n.States[s] # Nil THEN n
  ELSE [n EXCEPT !.States[s] = n.ViewID, !.handler[s] = "run", !.watch[s] = "running",
                 !.TotalConsensus = @ + 1]

\* Mutant of updateViewID: the view is not reduced modulo the participants.
updateViewIDUnbounded(n, v) == [n EXCEPT !.ViewID = v]

updateViewID(n, v) == [n EXCEPT !.ViewID = v % participant]

\* Mutant of Rollback: it starts one sequence early.
RollbackOneMore(n, s) ==
  LET gone == (s - 1)..n.TotalConsensus
  IN [n EXCEPT !.CommittedMsgs = [k \in DOMAIN @ \ gone |-> @[k]],
               !.Committed = @ \ gone, !.TotalConsensus = IF s <= @ THEN s - 2 ELSE @]

\* The loop over s..TotalConsensus of GetViewChange and GetNewView: States, blocks
\* and Committed go, and the count with them, whether there was a State or not.
\* The handler of a deleted State runs on with what its channel holds.
Rollback(n, s) ==
  LET gone == s..n.TotalConsensus
  IN [n EXCEPT
        !.States    = [k \in Seqs |-> IF k \in gone THEN Nil ELSE @[k]],
        !.handler   = [k \in Seqs |-> IF k \in gone THEN "none" ELSE @[k]],
        !.late      = [k \in Seqs |->
                         IF k \in gone /\ n.handler[k] \in {"run", "told"}
                         THEN @[k] \cup (Sent(k) \ n.got) ELSE @[k]],
        !.asleep    = {[w EXCEPT !.orphan = @ \/ w.m.SequenceID \in gone] : w \in @},
        !.CommittedMsgs  = [k \in DOMAIN @ \ gone |-> @[k]],
        !.Committed      = @ \ gone,
        !.TotalConsensus = IF s <= @ THEN s - 1 ELSE @]

\* The ledger with a message v stored at every place in K.
Stored(ledger, K, v) == [k \in DOMAIN ledger \cup K |-> IF k \in K THEN v ELSE ledger[k]]

\* Mutant of FillHole: it goes one too far.
FillHoleTooFar(n, min) ==
  LET committedMax == Max(DOMAIN n.CommittedMsgs \cup {0})
  IN [n EXCEPT !.CommittedMsgs  = Stored(@, committedMax..(min + 1), "hole"),
               !.TotalConsensus = Max({@, min + 1})]

\* It starts at the last committed message, or at 0, and not behind it.
FillHole(n, min) ==
  LET committedMax == Max(DOMAIN n.CommittedMsgs \cup {0})
  IN [n EXCEPT
        !.CommittedMsgs  = Stored(@, committedMax..min, "hole"),
        !.TotalConsensus = Max({@, min})]

\* Mutant of FindStableCheckpoint: the lowest one.
FindLowestCheckpoint(m) ==
  Min({c.StableCheckPoint : c \in m.SetViewChangeMsgs})

FindStableCheckpoint(m) ==
  Max({c.StableCheckPoint : c \in m.SetViewChangeMsgs} \cup {0})

\* GetViewChange, GetNewView: a VCState is made if there is none.  The compare-and-swap
\* that follows hits NextCandidateIdx, the first word, which is never 0, and does nothing.
\* Test and store are one step here: see Contended for what that leaves out.
CreateVCState(n, s) ==
  IF n.VCStates[s] # NoVCState THEN n
  ELSE [n EXCEPT !.VCStates[s].NextCandidateIdx = n.NextCandidateIdx]

\* An index past the NodeTable is logged and then used.
getPrimaryInfoByID(n, idx) == IF idx \in Nodes THEN n ELSE [n EXCEPT !.down = TRUE]

------------------------------------------------------------------------------
(* Threads.                                                                 *)

\* A PREPARE or a vote of the sequence, or the PREPARE before it.  While the node is
\* deaf these are messages that dispatchMsg has already let through.
StartThread(i, s) ==
  /\ Up(i) /\ node[i].States[s] = Nil
  /\ Put(i, StartThreadIfNotExists(node[i], s))
  /\ UNCHANGED <<viewchanges, newviews, proposals>>

\* The waiter of the ViewChange timer; it outlives the State and its loop.
StartViewChange(i, s) ==
  /\ Up(i) /\ <<i, s>> \in Watched /\ node[i].watch[s] = "running"
  /\ Put(i, [node[i] EXCEPT !.watch[s] = "done"])
  /\ viewchanges' = viewchanges \cup
       {[NodeID |-> i, SequenceID |-> s, StableCheckPoint |-> node[i].StableCheckPoint]}
  /\ UNCHANGED <<newviews, proposals>>

\* Who handles a message: the thread of its sequence, made for it if need be, or the
\* handler of a State deleted while the message was in its channel.
Busy(n, s, orphan) == \E w \in n.asleep : w.m.SequenceID = s /\ w.orphan = orphan

\* Mutant of InChannel: a deaf node drops the messages of the view change, too.
InChannelUnlessDeaf(n, m, orphan) ==
  /\ ~n.IsViewChanging
  /\ IF orphan THEN m \in n.late[m.SequenceID] ELSE n.handler[m.SequenceID] # "blocked"

InChannel(n, m, orphan) ==
  IF orphan THEN m \in n.late[m.SequenceID] ELSE n.handler[m.SequenceID] # "blocked"

MayHandle(i, m, orphan) ==
  /\ Up(i) /\ m \notin node[i].got /\ ~Busy(node[i], m.SequenceID, orphan)
  /\ InChannel(node[i], m, orphan)

Handler(i, m, orphan) ==
  LET n == IF orphan THEN node[i] ELSE StartThreadIfNotExists(node[i], m.SequenceID)
  IN [n EXCEPT !.got = @ \cup {m}]

Sleep(n, kind, m, orphan) ==
  [n EXCEPT !.IsViewChanging = TRUE,
            !.asleep = @ \cup {[kind |-> kind, m |-> m, orphan |-> orphan]}]

Awake(i, w) == [node[i] EXCEPT !.asleep = @ \ {w}]

------------------------------------------------------------------------------
(* View change.                                                             *)

\* VCState.ViewChange: the first message of a sender is kept ...
ViewChange(vcs, m) ==
  IF m.NodeID \in Senders(vcs.ViewChangeMsgs) THEN vcs
  ELSE [vcs EXCEPT !.ViewChangeMsgs = @ \cup {m}]

\* Mutant of Answers: whether it has answered is not looked up.
AnswersAgain(vcs, m) ==
  /\ m.NodeID \notin Senders(vcs.ViewChangeMsgs)
  /\ Cardinality(ViewChange(vcs, m).ViewChangeMsgs) >= Quorum

\* Mutant of Answers: one message less is enough.
AnswersEarly(vcs, m) ==
  /\ m.NodeID \notin Senders(vcs.ViewChangeMsgs)
  /\ Cardinality(ViewChange(vcs, m).ViewChangeMsgs) >= Quorum - 1
  /\ ~vcs.msgSent

\* Mutant of Answers: one message more is needed.
AnswersLate(vcs, m) ==
  /\ m.NodeID \notin Senders(vcs.ViewChangeMsgs)
  /\ Cardinality(ViewChange(vcs, m).ViewChangeMsgs) > Quorum
  /\ ~vcs.msgSent

\* ... and with 2f+1 of them, once, it answers a NEW-VIEW.
Answers(vcs, m) ==
  /\ m.NodeID \notin Senders(vcs.ViewChangeMsgs)
  /\ Cardinality(ViewChange(vcs, m).ViewChangeMsgs) >= Quorum
  /\ ~vcs.msgSent

NewViewMsg(i, s, vcs) ==
  [NodeID |-> i, SequenceID |-> s, NextCandidateIdx |-> vcs.NextCandidateIdx,
   SetViewChangeMsgs |-> vcs.ViewChangeMsgs, Min_S |-> 0]

GetViewChange(i, m, orphan) ==
  LET s   == m.SequenceID
      n   == CreateVCState(Handler(i, m, orphan), s)
      old == n.VCStates[s]
      vcs == [ViewChange(old, m) EXCEPT !.msgSent = @ \/ Answers(old, m)]
      nn  == [n EXCEPT !.VCStates[s] = vcs]
  IN /\ MayHandle(i, m, orphan)
     /\ \/ Answers(old, m) /\ Put(i, Sleep(nn, "viewchange", NewViewMsg(i, s, vcs), orphan))
        \/ ~Answers(old, m) /\ Put(i, getPrimaryInfoByID(nn, nn.NextCandidateIdx))
     /\ UNCHANGED <<viewchanges, newviews, proposals>>

\* The rest of GetViewChange after the sleep.
RollbackForQuorum(i, w) ==
  LET n == Rollback(Awake(i, w), w.m.SequenceID)
  IN /\ Up(i) /\ w \in node[i].asleep /\ w.kind = "viewchange"
     /\ Put(i, getPrimaryInfoByID(n, n.NextCandidateIdx))
     /\ newviews' = IF n.NextCandidateIdx = i
                    THEN newviews \cup {[w.m EXCEPT !.Min_S = FindStableCheckpoint(w.m)]}
                    ELSE newviews
     /\ UNCHANGED <<viewchanges, proposals>>

GetNewView(i, m, orphan) ==
  /\ MayHandle(i, m, orphan)
  /\ Put(i, Sleep(Handler(i, m, orphan), "newview", m, orphan))
  /\ UNCHANGED <<viewchanges, newviews, proposals>>

\* The candidate moves on; the end of an epoch sets it back, but not to the first.
AfterNewView(s, idx) == IF s % participant = 0 THEN LateReset ELSE idx + 1

\* The new primary waits on a channel nobody writes to: its handler ends there, be it
\* the one of the State, or of a State deleted before or just now.
Blocked(n, old, w) ==
  LET s == w.m.SequenceID
  IN IF w.orphan THEN [n EXCEPT !.late[s] = @ \ old.late[s]]
     ELSE IF s <= old.TotalConsensus THEN [n EXCEPT !.late[s] = old.late[s]]
     ELSE [n EXCEPT !.handler[s] = "blocked"]

\* The rest of GetNewView after the sleep.
InstallNewView(i, w) ==
  LET s   == w.m.SequenceID
      idx == w.m.NextCandidateIdx
      n1  == [Rollback(Awake(i, w), s) EXCEPT !.NextCandidateIdx = idx]
      n2  == FillHole(CreateVCState(n1, s), w.m.Min_S)
      n3  == updateViewID([n2 EXCEPT !.StableCheckPoint = w.m.Min_S], s - 1)
      n4  == [getPrimaryInfoByID(n3, idx) EXCEPT !.NextCandidateIdx = AfterNewView(s, @)]
      n5  == [StartThreadIfNotExists(n4, s) EXCEPT !.IsViewChanging = FALSE]
  IN /\ Up(i) /\ w \in node[i].asleep /\ w.kind = "newview"
     /\ Put(i, IF idx = i THEN Blocked(n5, node[i], w) ELSE n5)
     /\ proposals' = IF idx = i THEN proposals \cup {[SequenceID |-> s, ViewID |-> n5.ViewID]}
                     ELSE proposals
     /\ UNCHANGED <<viewchanges, newviews>>

------------------------------------------------------------------------------
(* The executor, as far as the view change meets it.                        *)

\* A handler, of a deleted State perhaps, has pushed a decision.
Decide(i, s) ==
  /\ Up(i) /\ node[i].watch[s] # "none"
  /\ ~node[i].executing /\ s \notin node[i].pairs
  /\ Put(i, [node[i] EXCEPT !.pairs = @ \cup {s}, !.executing = TRUE])
  /\ UNCHANGED <<viewchanges, newviews, proposals>>

\* The length of the map is used as its last key: another key is a nil pointer.
LastSequenceID(n) == Cardinality(DOMAIN n.CommittedMsgs)
LastIsMissing(n)  == LastSequenceID(n) > 0 /\ LastSequenceID(n) \notin DOMAIN n.CommittedMsgs

Executed(n, s, watch) ==
  updateViewID([n EXCEPT !.CommittedMsgs = Stored(@, {s}, "block"),
                         !.Committed = @ \cup {s},
                         !.StableCheckPoint = s,
                         !.pairs = @ \ {s},
                         !.handler[s] = IF @ = "run" THEN "told" ELSE @,
                         !.watch[s] = watch,
                         !.NextCandidateIdx = IF s % participant = 0 THEN participant ELSE @],
               s)

\* One turn of the inner loop, as one step: a rollback between two of its statements
\* is left out.  The stop of the timer may come too late for it.
ExecuteNext(i) ==
  LET n == node[i]
      s == LastSequenceID(n) + 1
  IN /\ Up(i) /\ n.executing
     /\ \/ /\ LastIsMissing(n) \/ (s \in n.pairs /\ n.States[s] = Nil)
           /\ Put(i, [n EXCEPT !.down = TRUE])
        \/ /\ ~LastIsMissing(n) /\ s \notin n.pairs
           /\ Put(i, [n EXCEPT !.executing = FALSE])
        \/ /\ ~LastIsMissing(n) /\ s \in n.pairs /\ n.States[s] # Nil
           /\ \E watch \in {n.watch[s], "done"} : Put(i, Executed(n, s, watch))
     /\ UNCHANGED <<viewchanges, newviews, proposals>>

------------------------------------------------------------------------------
Handle(i, orphan) == \/ \E m \in viewchanges : GetViewChange(i, m, orphan)
                     \/ \E m \in newviews : GetNewView(i, m, orphan)

Wake(i) == \E w \in node[i].asleep : RollbackForQuorum(i, w) \/ InstallNewView(i, w)

\* What the NextCandidateIdx of a node that is not followed may be: the one it starts
\* with, or what a NEW-VIEW made of it.
Candidates ==
  {participant} \cup UNION {{m.NextCandidateIdx, AfterNewView(m.SequenceID, m.NextCandidateIdx)}
                            : m \in newviews}

\* A node that is not followed reaches the quorum and is the candidate.  Of the
\* VIEW-CHANGEs it has, only their highest stable checkpoint is ever used.
OtherNewView ==
  /\ Cardinality(newviews) < MaxNewViews
  /\ \E s \in Seqs, j \in (Nodes \ Learners) \cap Candidates, idx \in Nodes \cap Candidates :
     LET All  == {NewViewMsg(j, s, [NextCandidateIdx |-> idx, ViewChangeMsgs |-> V]) :
                   V \in kSubset(Quorum, {m \in viewchanges : m.SequenceID = s})}
         Ready == {[m EXCEPT !.Min_S = FindStableCheckpoint(m)] :
                    m \in {o \in All : Cardinality(Senders(o.SetViewChangeMsgs)) = Quorum}}
     IN /\ \A o \in newviews : ~(o.NodeID = j /\ o.SequenceID = s)
        /\ \E cp \in {m.Min_S : m \in Ready} :
             newviews' = newviews \cup {CHOOSE m \in Ready : m.Min_S = cp}
  /\ UNCHANGED <<node, viewchanges, proposals>>

Next == \/ \E i \in Learners :
             \/ \E s \in Seqs : \/ StartThread(i, s) \/ StartViewChange(i, s) \/ Decide(i, s)
             \/ \E orphan \in BOOLEAN : Handle(i, orphan)
             \/ Wake(i) \/ ExecuteNext(i)
        \/ OtherNewView

Spec == Init /\ [][Next]_vars

\* A message is delivered, and its handler, unless told to exit, takes it, and wakes up
\* again.  The messages are finitely many, so weak fairness of these steps amounts to
\* this: time and again none of them is left to do.  (TLC is far quicker with it.)
Pending(i) ==
  \/ Up(i) /\ node[i].asleep # {}
  \/ \E orphan \in BOOLEAN, m \in viewchanges \cup newviews :
       /\ orphan \/ node[i].handler[m.SequenceID] \in {"none", "run"}
       /\ MayHandle(i, m, orphan)

FairSpec == Spec /\ \A i \in Learners : []<>~Pending(i)

------------------------------------------------------------------------------
(* Properties.                                                              *)

\* The state of every followed node keeps its shape; votes held were sent.
TypeOK ==
  /\ \A i \in Learners : LET n == node[i] IN
       /\ n.States \in [Seqs -> {Nil} \cup 0..(participant - 1)]
       /\ n.handler \in [Seqs -> {"none", "run", "told", "blocked"}]
       /\ n.watch \in [Seqs -> {"none", "running", "done"}]
       /\ n.TotalConsensus \in Nat /\ n.StableCheckPoint \in 0..MaxSeq
       /\ DOMAIN n.CommittedMsgs \subseteq 0..MaxSeq
       /\ \A k \in DOMAIN n.CommittedMsgs : n.CommittedMsgs[k] \in {"block", "hole"}
       /\ n.Committed \subseteq Seqs /\ n.pairs \subseteq Seqs
       /\ n.ViewID \in 0..(participant - 1) /\ n.NextCandidateIdx \in Nat
       /\ \A s \in Seqs : /\ n.VCStates[s].ViewChangeMsgs \subseteq viewchanges
                          /\ n.late[s] \subseteq viewchanges \cup newviews
       /\ n.got \subseteq viewchanges \cup newviews
       /\ \A w \in n.asleep : w.kind \in {"viewchange", "newview"} /\ w.orphan \in BOOLEAN
  /\ viewchanges \subseteq ViewChangeMsg

Voters(s) == Senders({m \in viewchanges : m.SequenceID = s})

Holes(n)  == {k \in DOMAIN n.CommittedMsgs : n.CommittedMsgs[k] = "hole"}
Blocks(n) == DOMAIN n.CommittedMsgs \ Holes(n)

\* pbft_view_impl.go:83: a node sends one NEW-VIEW for a sequence, however many threads
\* of the sequence, deleted ones too, handle VIEW-CHANGEs that come late.
NewViewOnce ==
  \A a, b \in newviews : a.NodeID \in Learners /\ a.NodeID = b.NodeID
                           /\ a.SequenceID = b.SequenceID => a = b

\* A NEW-VIEW rests on VIEW-CHANGEs for its sequence that 2f+1 different members have
\* sent, and no stable checkpoint among them lies above its own.  (VCState.ViewChange,
\* FindStableCheckpoint.)
NewViewJustified ==
  \A m \in newviews :
    /\ Cardinality(Senders(m.SetViewChangeMsgs)) >= Quorum
    /\ m.SetViewChangeMsgs \subseteq {c \in viewchanges : c.SequenceID = m.SequenceID}
    /\ \A c \in m.SetViewChangeMsgs : c.StableCheckPoint <= m.Min_S

\* As long as no sequence has the VIEW-CHANGEs of 2f+1 members, they disturb nobody: no
\* node is deaf (dispatchMsg drops consensus messages then), has panicked, or has
\* another candidate, and ledgers are without gaps up to the stable checkpoint.
MinorityHarmless ==
  (\A s \in Seqs : Cardinality(Voters(s)) < Quorum) =>
     \A i \in Learners :
       /\ ~node[i].down /\ ~node[i].IsViewChanging
       /\ node[i].NextCandidateIdx = participant
       /\ DOMAIN node[i].CommittedMsgs = 1..node[i].StableCheckPoint

\* FillHole writes a null block only where some member has claimed a stable checkpoint
\* at or above it; but for place 0, which it also fills in an empty ledger.
HolesAreClaimed ==
  \A i \in Learners : \A k \in Holes(node[i]) \ {0} :
    \E m \in viewchanges : m.StableCheckPoint >= k

\* An executed block is lost only to a handler of a view change that wakes up: for its
\* own or an earlier sequence, or one that fills holes past it when it is the last.
LossIsOrdered ==
  [][\A i \in Learners : \A k \in Blocks(node[i]) \ Blocks(node'[i]) :
       \E w \in node[i].asleep \ node'[i].asleep :
         \/ w.m.SequenceID <= k
         \/ w.kind = "newview" /\ w.m.Min_S >= k /\ \A b \in Blocks(node'[i]) : b < k]_vars

\* What a handler of sequence s owes nothing for: executed, blocked, or the node down.
Excused(i, s) == node[i].down \/ node[i].handler[s] \in {"told", "blocked"}

\* Two handlers of sequence s, the thread's and that of a deleted State, may both find
\* no VCState and both make one (view.go:38-52 tests and stores without a lock around
\* the two): what was put into the first is lost.
Contended(i, s) ==
  /\ node[i].VCStates[s] = NoVCState
  /\ \/ node[i].late[s] \ node[i].got # {}
     \/ \E w \in node[i].asleep : w.orphan /\ w.kind = "newview" /\ w.m.SequenceID = s

\* README.md:16, the half of it that holds: once 2f+1 members have asked for the view
\* change of a sequence, a followed node that stays the candidate announces the new
\* view, unless two handlers of the sequence have met before it had a VCState.
CandidateAnswers ==
  \A i \in Learners, s \in Seqs :
    []~Contended(i, s) =>
      (Cardinality(Voters(s)) >= Quorum ~>
         \/ \E m \in newviews : m.SequenceID = s /\ m.NodeID = i
         \/ Excused(i, s) \/ node[i].NextCandidateIdx # i)

\* And a deaf node to which a NEW-VIEW is on its way listens again, even if it has
\* reached the quorum itself in the meantime, or lost the State of the sequence.
DeafUntilNewView ==
  \A i \in Learners, s \in Seqs :
    (node[i].IsViewChanging /\ \E m \in newviews \ node[i].got : m.SequenceID = s) ~>
      ~node[i].IsViewChanging \/ Excused(i, s)
==============================================================================
