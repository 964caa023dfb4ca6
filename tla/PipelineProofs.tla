---------------------------- MODULE PipelineProofs ----------------------------
(***************************************************************************)
(* However the handlers of the sequences and the executor interleave,       *)
(* nobody works more than one sequence ahead of the proposals.              *)
(***************************************************************************)
EXTENDS Pipeline, TLAPS

\* GetPrepare is between the update of the view and the vote.
Working(i, s) == pc[i][s] \in {"primary", "propose", "thread"}

\* The inboxes hold what was broadcast, and only a proposed sequence is worked on;
\* the first proposal is made on behalf of no sequence, and starts no thread.
FromProposals ==
  /\ \A i \in Nodes : inbox[i] \subseteq prepares /\ handled[i] \subseteq prepares
  /\ \A i \in Nodes, s \in Callers : Working(i, s) => s = 0 \/ s \in ProposedSeqs
  /\ \A i \in Nodes : pc[i][0] # "thread"

IInv == TypeOK /\ FromProposals /\ OneAhead

------------------------------------------------------------------------------
LEMMA Constants ==
  /\ Size \in Nat /\ participant \in Nat /\ 1 <= participant /\ participant <= Size
  /\ MaxSeq \in Nat /\ 1 <= MaxSeq
  /\ Views \subseteq Nodes /\ Seqs \subseteq Callers /\ 0 \in Callers
  /\ Nil \notin Views
  /\ \A v \in Nat : v % participant \in Views
BY PipelineAssumption DEF Views, Nodes, Seqs, Callers, Nil

LEMMA InitIInv == Init => IInv
<1> SUFFICES ASSUME Init PROVE IInv
  OBVIOUS
<1>1. TypeOK
  BY Constants DEF Init, TypeOK, Views
<1>2. FromProposals /\ OneAhead
  BY Constants DEF Init, FromProposals, OneAhead, Working, ProposedSeqs, Callers
<1> QED  BY <1>1, <1>2 DEF IInv

\* A thread is started for a sequence that has none, with the view of the node.
LEMMA ThreadStarts ==
  ASSUME TypeOK, NEW i \in Nodes, NEW s \in Int
  PROVE  /\ StartThreadIfNotExists(i, s) \in [Nodes -> [Seqs -> Views \cup {Nil}]]
         /\ \A j \in Nodes, q \in Seqs :
              \/ StartThreadIfNotExists(i, s)[j][q] = States[j][q]
              \/ j = i /\ q = s /\ States[j][q] = Nil
<1>1. States \in [Nodes -> [Seqs -> Views \cup {Nil}]] /\ ViewID[i] \in Views
  BY DEF TypeOK
<1> QED  BY <1>1 DEF StartThreadIfNotExists

\* A step that proposes nothing and starts at most the thread of s.
LEMMA SpeculationKept ==
  ASSUME IInv, prepares' = prepares, NEW i \in Nodes, NEW s \in Int,
         States' = StartThreadIfNotExists(i, s) \/ States' = States,
         s # 1 => s - 1 \in ProposedSeqs
  PROVE  OneAhead'
<1>1. ProposedSeqs' = ProposedSeqs
  BY DEF ProposedSeqs
<1>2. \A j \in Nodes, q \in Seqs : States'[j][q] = States[j][q] \/ q = s
  BY ThreadStarts DEF IInv
<1> QED  BY <1>1, <1>2 DEF IInv, OneAhead

LEMMA NextIInv == IInv /\ [Next]_vars => IInv'
<1> SUFFICES ASSUME IInv, [Next]_vars PROVE IInv'
  OBVIOUS
<1>1. CASE UNCHANGED vars
  BY <1>1 DEF vars, IInv, TypeOK, FromProposals, OneAhead, Working, ProposedSeqs
<1>2. CASE Next
  <2> PICK i \in Nodes :
         \/ Genesis(i) \/ GetPrepare(i)
         \/ \E m \in prepares : DeliverPrepare(i, m)
         \/ \E s \in Seqs : DeliverVote(i, s) \/ Exit(i, s)
         \/ Execute(i) \/ Advance(i)
    BY <1>2 DEF Next
  <2>1. /\ TypeOK /\ FromProposals /\ OneAhead
        /\ ViewID \in [Nodes -> Views] /\ inbox \in [Nodes -> SUBSET PrepareMsg]
        /\ handled \in [Nodes -> SUBSET PrepareMsg] /\ prepares \subseteq PrepareMsg
        /\ pc \in [Nodes -> [Callers -> {"genesis", "idle", "primary", "propose", "thread",
                                         "exited"}]]
        /\ StableCheckPoint \in [Nodes -> 0..MaxSeq]
        /\ \A m \in PrepareMsg : m.SequenceID \in Seqs
        /\ Seqs \subseteq Int /\ Callers \subseteq Nat
    <3>1. Seqs \subseteq Int /\ Callers \subseteq Nat
      BY Constants DEF Seqs, Callers
    <3>2. \A m \in PrepareMsg : m.SequenceID \in Seqs
      BY DEF PrepareMsg
    <3> QED  BY <3>1, <3>2 DEF IInv, TypeOK
  <2>2. CASE Genesis(i)
    <3>1. /\ ViewID' = [ViewID EXCEPT ![i] = 0 % participant]
          /\ pc' = [pc EXCEPT ![i][0] = "primary"]
          /\ UNCHANGED <<prepares, inbox, handled, States, voted, StableCheckPoint, advancing>>
      BY <2>2 DEF Genesis, updateViewID
    <3>2. TypeOK'
      BY <2>1, <3>1, Constants DEF TypeOK
    <3>3. FromProposals'
      BY <2>1, <3>1, Constants DEF FromProposals, Working, ProposedSeqs
    <3> QED  BY <2>1, <3>1, <3>2, <3>3 DEF IInv, OneAhead, ProposedSeqs
  <2>3. ASSUME NEW m \in inbox[i], UpdateView(i, m) PROVE IInv'
    <3>1. /\ inbox'   = [inbox EXCEPT ![i] = inbox[i] \ {m}]
          /\ handled' = [handled EXCEPT ![i] = handled[i] \cup {m}]
          /\ ViewID' = [ViewID EXCEPT ![i] = m.SequenceID % participant]
          /\ pc' = [pc EXCEPT ![i][m.SequenceID] = "primary"]
          /\ UNCHANGED <<prepares, States, voted, StableCheckPoint, advancing>>
      BY <2>3 DEF UpdateView, updateViewID
    <3>2. m \in prepares /\ m \in PrepareMsg /\ m.SequenceID \in Seqs
          /\ m.SequenceID \in Callers /\ m.SequenceID # 0 /\ m.SequenceID \in ProposedSeqs
      BY <2>1, Constants DEF FromProposals, ProposedSeqs, Seqs
    <3>3. TypeOK'
      BY <2>1, <3>1, <3>2, Constants DEF TypeOK
    <3>4. FromProposals'
      BY <2>1, <3>1, <3>2, Constants DEF FromProposals, Working, ProposedSeqs
    <3> QED  BY <2>1, <3>1, <3>3, <3>4 DEF IInv, OneAhead, ProposedSeqs
  <2>4. ASSUME NEW s \in Callers, CheckPrimary(i, s) PROVE IInv'
    <3>1. /\ pc[i][s] = "primary"
          /\ pc' = [pc EXCEPT ![i][s] = IF ViewID[i] = i THEN "propose" ELSE Settled(s)]
          /\ UNCHANGED <<ViewID, prepares, inbox, handled, States, voted, StableCheckPoint,
                         advancing>>
      BY <2>4 DEF CheckPrimary
    <3>2. TypeOK'
      BY <2>1, <3>1 DEF TypeOK, Settled
    <3>3. FromProposals'
      BY <2>1, <3>1 DEF FromProposals, Working, ProposedSeqs, Settled
    <3> QED  BY <2>1, <3>1, <3>2, <3>3 DEF IInv, OneAhead, ProposedSeqs
  <2>5. ASSUME NEW s \in Callers, Propose(i, s) PROVE IInv'
    <3>1. /\ pc[i][s] = "propose"
          /\ pc' = [pc EXCEPT ![i][s] = Settled(s)]
          /\ prepares' = IF s + 1 \in Seqs THEN prepares \cup {Message(i, s + 1)} ELSE prepares
          /\ UNCHANGED <<ViewID, inbox, handled, States, voted, StableCheckPoint, advancing>>
      BY <2>5 DEF Propose
    <3>2. /\ s + 1 \in Seqs => Message(i, s + 1) \in PrepareMsg
          /\ Message(i, s + 1).SequenceID = s + 1
      BY <2>1 DEF Message, PrepareMsg
    <3>3. prepares \subseteq prepares' /\ prepares' \subseteq PrepareMsg
      BY <2>1, <3>1, <3>2
    <3>4. /\ ProposedSeqs \subseteq ProposedSeqs'
          /\ \A q \in ProposedSeqs' : q \in ProposedSeqs \/ q = s + 1
      BY <3>1, <3>2, <3>3 DEF ProposedSeqs
    <3>5. TypeOK'
      BY <2>1, <3>1, <3>3 DEF TypeOK, Settled
    <3>6. FromProposals'
      BY <2>1, <3>1, <3>3, <3>4 DEF FromProposals, Working, Settled
    <3>7. s = 0 \/ s \in ProposedSeqs
      BY <2>1, <3>1 DEF FromProposals, Working
    <3>8. OneAhead'
      <4>1. \A q \in ProposedSeqs' \ {1} : q - 1 \in ProposedSeqs'
        BY <2>1, <3>4, <3>7 DEF OneAhead
      <4> QED  BY <2>1, <3>1, <3>4, <4>1 DEF OneAhead
    <3> QED  BY <3>5, <3>6, <3>8 DEF IInv
  <2>6. ASSUME NEW s \in Callers, StartNext(i, s) PROVE IInv'
    <3>1. /\ pc[i][s] = "thread"
          /\ pc' = [pc EXCEPT ![i][s] = "idle"]
          /\ States' = StartThreadIfNotExists(i, s + 1)
          /\ voted'  = voted \cup {s}
          /\ UNCHANGED <<ViewID, prepares, inbox, handled, StableCheckPoint, advancing>>
      BY <2>6 DEF StartNext
    <3>2. s # 0 /\ s \in ProposedSeqs /\ s \in Seqs /\ s + 1 \in Int
      BY <2>1, <3>1 DEF FromProposals, Working, Callers, Seqs
    <3>3. TypeOK'
      BY <2>1, <3>1, <3>2, ThreadStarts DEF TypeOK
    <3>4. FromProposals'
      BY <2>1, <3>1 DEF FromProposals, Working, ProposedSeqs
    <3>5. OneAhead'
      BY <2>1, <3>1, <3>2, SpeculationKept
    <3> QED  BY <3>3, <3>4, <3>5 DEF IInv
  <2>7. ASSUME NEW m \in prepares, DeliverPrepare(i, m) PROVE IInv'
    <3>1. /\ inbox' = [inbox EXCEPT ![i] = inbox[i] \cup {m}]
          /\ States' = StartThreadIfNotExists(i, m.SequenceID)
          /\ UNCHANGED <<ViewID, prepares, handled, pc, voted, StableCheckPoint, advancing>>
      BY <2>7 DEF DeliverPrepare
    <3>2. m \in PrepareMsg /\ m.SequenceID \in Int /\ m.SequenceID \in ProposedSeqs
      BY <2>1 DEF ProposedSeqs
    <3>3. TypeOK'
      BY <2>1, <3>1, <3>2, ThreadStarts DEF TypeOK
    <3>4. FromProposals'
      BY <2>1, <3>1 DEF FromProposals, Working, ProposedSeqs
    <3>5. OneAhead'
      BY <2>1, <3>1, <3>2, SpeculationKept DEF OneAhead
    <3> QED  BY <3>3, <3>4, <3>5 DEF IInv
  <2>8. ASSUME NEW s \in Seqs, DeliverVote(i, s) PROVE IInv'
    <3>1. /\ \E j \in Nodes : States[j][s] # Nil
          /\ s # 1 /\ States' = StartThreadIfNotExists(i, s)
          /\ UNCHANGED <<ViewID, prepares, inbox, handled, pc, voted, StableCheckPoint,
                         advancing>>
      BY <2>8 DEF DeliverVote
    <3>2. s - 1 \in ProposedSeqs /\ s \in Int
      BY <2>1, <3>1 DEF OneAhead
    <3>3. TypeOK'
      BY <2>1, <3>1, <3>2, ThreadStarts DEF TypeOK
    <3>4. FromProposals'
      BY <2>1, <3>1 DEF FromProposals, Working, ProposedSeqs
    <3>5. OneAhead'
      BY <2>1, <3>1, <3>2, SpeculationKept
    <3> QED  BY <3>3, <3>4, <3>5 DEF IInv
  <2>9. ASSUME NEW s \in Seqs, Exit(i, s) PROVE IInv'
    <3>1. /\ pc[i][s] = "idle" /\ pc' = [pc EXCEPT ![i][s] = "exited"]
          /\ UNCHANGED <<ViewID, prepares, inbox, handled, States, voted, StableCheckPoint,
                         advancing>>
      BY <2>9 DEF Exit
    <3>2. TypeOK'
      BY <2>1, <3>1 DEF TypeOK
    <3>3. FromProposals'
      BY <2>1, <3>1, Constants DEF FromProposals, Working, ProposedSeqs
    <3> QED  BY <2>1, <3>1, <3>2, <3>3 DEF IInv, OneAhead, ProposedSeqs
  <2>10. CASE Execute(i)
    <3>1. /\ StableCheckPoint[i] + 1 \in Seqs
          /\ StableCheckPoint' = [StableCheckPoint EXCEPT ![i] = StableCheckPoint[i] + 1]
          /\ advancing' = advancing \cup {i}
          /\ UNCHANGED <<ViewID, prepares, inbox, handled, States, pc, voted>>
      BY <2>10 DEF Execute
    <3>2. TypeOK'
      BY <2>1, <3>1 DEF TypeOK, Seqs
    <3> QED  BY <2>1, <3>1, <3>2 DEF IInv, FromProposals, Working, OneAhead, ProposedSeqs
  <2>11. CASE Advance(i)
    <3>1. /\ advancing' = advancing \ {i}
          /\ ViewID' = [ViewID EXCEPT ![i] = StableCheckPoint[i] % participant]
          /\ UNCHANGED <<prepares, inbox, handled, States, pc, voted, StableCheckPoint>>
      BY <2>11 DEF Advance, updateViewID
    <3>2. StableCheckPoint[i] % participant \in Views
      BY <2>1, Constants
    <3>3. TypeOK'
      BY <2>1, <3>1, <3>2 DEF TypeOK
    <3> QED  BY <2>1, <3>1, <3>3 DEF IInv, FromProposals, Working, OneAhead, ProposedSeqs
  <2> QED
    BY <2>2, <2>3, <2>4, <2>5, <2>6, <2>7, <2>8, <2>9, <2>10, <2>11 DEF GetPrepare
<1> QED  BY <1>1, <1>2

\* In every reachable state nodes work only on sequences that were proposed, and start
\* the thread of at most the next one.
THEOREM PipelineInvariant == Spec => []IInv
BY InitIInv, NextIInv, PTL DEF Spec

\* Every view a node ever has is a place of the NodeTable, so getPrimaryInfoByID
\* finds the primary.
THEOREM PipelineTypeCorrect == Spec => []TypeOK
<1>1. IInv => TypeOK
  BY DEF IInv
<1> QED  BY <1>1, PipelineInvariant, PTL

\* Proposals leave no gap, and no thread runs more than one sequence ahead of them,
\* in whatever order resolveMsg, GetPrepare and the executor take their steps.
THEOREM SpeculationIsBounded == Spec => []OneAhead
<1>1. IInv => OneAhead
  BY DEF IInv
<1> QED  BY <1>1, PipelineInvariant, PTL
===============================================================================
