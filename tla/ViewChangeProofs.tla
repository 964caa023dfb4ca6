--------------------------- MODULE ViewChangeProofs ---------------------------
(***************************************************************************)
(* The safety of the view change, however many nodes there are and          *)
(* whatever the others have sent.  IInv says who has answered a sequence    *)
(* and with what; Sound, what nodes and NEW-VIEWs rest on; Peace, that      *)
(* without a quorum nothing happens.                                        *)
(***************************************************************************)
EXTENDS ViewChange, FiniteSetTheorems, WellFoundedInduction, TLAPS

\* The fields that records of each kind have; their values do not matter here.
NodeFields == {"States", "handler", "watch", "TotalConsensus", "CommittedMsgs",
               "Committed", "StableCheckPoint", "ViewID", "NextCandidateIdx",
               "IsViewChanging", "VCStates", "pairs", "executing", "got", "late",
               "asleep", "down"}

Shape(n) ==
  /\ DOMAIN n = NodeFields
  /\ DOMAIN n.VCStates = Seqs
  /\ \A s \in Seqs : "msgSent" \in DOMAIN n.VCStates[s]
  /\ \A w \in n.asleep : {"kind", "m"} \subseteq DOMAIN w

\* The NEW-VIEWs that sleeping handlers are going to announce.
Held(n) == {w.m : w \in {v \in n.asleep : v.kind = "viewchange"}}

\* Nothing is forgotten of what was answered, and no answer is added.
Keeps(n, o) ==
  /\ Shape(o)
  /\ \A s \in Seqs : n.VCStates[s].msgSent => o.VCStates[s].msgSent
  /\ Held(o) \subseteq Held(n)

LEMMA KeepsTransitive ==
  ASSUME NEW n, NEW o, NEW p, Keeps(n, o), Keeps(o, p)
  PROVE  Keeps(n, p)
BY DEF Keeps

LEMMA StartThreadKeeps ==
  ASSUME NEW n, NEW s, Shape(n)
  PROVE  Keeps(n, StartThreadIfNotExists(n, s))
BY DEF StartThreadIfNotExists, Keeps, Shape, Held, NodeFields

LEMMA RollbackKeeps ==
  ASSUME NEW n, NEW s, Shape(n)
  PROVE  Keeps(n, Rollback(n, s))
<1> DEFINE o == Rollback(n, s)
<1>1. DOMAIN o = NodeFields /\ o.VCStates = n.VCStates
  BY DEF Rollback, Shape, NodeFields
<1>2. o.asleep = {[w EXCEPT !.orphan = @ \/ w.m.SequenceID \in s..n.TotalConsensus] :
                    w \in n.asleep}
  BY DEF Rollback, Shape, NodeFields
<1>3. \A v \in o.asleep : {"kind", "m"} \subseteq DOMAIN v
                           /\ \E w \in n.asleep : v.kind = w.kind /\ v.m = w.m
  BY <1>2 DEF Shape
<1>4. Held(o) \subseteq Held(n)
  BY <1>3 DEF Held
<1> QED
  BY <1>1, <1>3, <1>4 DEF Keeps, Shape

LEMMA FillHoleKeeps ==
  ASSUME NEW n, NEW min, Shape(n)
  PROVE  Keeps(n, FillHole(n, min))
BY DEF FillHole, Keeps, Shape, Held, NodeFields

LEMMA updateViewIDKeeps ==
  ASSUME NEW n, NEW v, Shape(n)
  PROVE  Keeps(n, updateViewID(n, v))
BY DEF updateViewID, Keeps, Shape, Held, NodeFields

LEMMA CreateVCStateKeeps ==
  ASSUME NEW n, NEW s, Shape(n)
  PROVE  Keeps(n, CreateVCState(n, s))
BY DEF CreateVCState, Keeps, Shape, Held, NodeFields

LEMMA getPrimaryKeeps ==
  ASSUME NEW n, NEW idx, Shape(n)
  PROVE  Keeps(n, getPrimaryInfoByID(n, idx))
BY DEF getPrimaryInfoByID, Keeps, Shape, Held, NodeFields

\* Of the record of node i, beside the NEW-VIEWs in V: what it announced or is going to
\* announce it has marked as answered, and per sequence that is one message.
Announced(a) == [a EXCEPT !.Min_S = FindStableCheckpoint(a)]

NodeInv(n, i, V) ==
  /\ Shape(n)
  /\ \A m \in V : m.NodeID = i => n.VCStates[m.SequenceID].msgSent
  /\ \A a \in Held(n) : /\ {"NodeID", "SequenceID"} \subseteq DOMAIN a
                        /\ a.NodeID = i /\ a.SequenceID \in Seqs
                        /\ n.VCStates[a.SequenceID].msgSent
  /\ \A a, b \in Held(n) : a.SequenceID = b.SequenceID => a = b
  /\ \A a \in Held(n) : \A m \in V :
       m.NodeID = i /\ m.SequenceID = a.SequenceID => m = Announced(a)

IInv ==
  /\ DOMAIN node = Learners
  /\ \A m \in viewchanges \cup newviews : m.SequenceID \in Seqs
  /\ \A i \in Learners : NodeInv(node[i], i, newviews)
  /\ NewViewOnce

LEMMA KeepsNodeInv ==
  ASSUME NEW n, NEW o, NEW i, NEW V, NodeInv(n, i, V), Keeps(n, o),
         \A m \in V : m.SequenceID \in Seqs
  PROVE  NodeInv(o, i, V)
<1>1. \A m \in V : m.NodeID = i => o.VCStates[m.SequenceID].msgSent
  BY DEF NodeInv, Keeps
<1>2. \A a \in Held(o) : a \in Held(n) /\ o.VCStates[a.SequenceID].msgSent
  BY DEF NodeInv, Keeps
<1> QED
  BY <1>1, <1>2 DEF NodeInv, Keeps

\* A step of one node.
LEMMA StepOfOne ==
  ASSUME NEW i \in Learners, NEW o, Put(i, o), DOMAIN node = Learners,
         \A m \in viewchanges' \cup newviews' : m.SequenceID \in Seqs,
         NodeInv(o, i, newviews'), NewViewOnce',
         \A j \in Learners \ {i} : NodeInv(node[j], j, newviews')
  PROVE  IInv'
<1>1. DOMAIN node' = Learners /\ node'[i] = o
       /\ \A j \in Learners \ {i} : node'[j] = node[j]
  BY DEF Put
<1>2. \A j \in Learners : NodeInv(node[j], j, newviews)'
  <2> SUFFICES ASSUME NEW j \in Learners PROVE NodeInv(node'[j], j, newviews')
    BY DEF NodeInv, Shape, Held, Announced, FindStableCheckpoint
  <2> QED
    BY <1>1
<1> QED
  BY <1>1, <1>2 DEF IInv

\* A step of one node that keeps its record and announces nothing.
LEMMA KeepingStep ==
  ASSUME IInv, NEW i \in Learners, NEW o, Keeps(node[i], o), Put(i, o),
         \A m \in viewchanges' : m.SequenceID \in Seqs, newviews' = newviews
  PROVE  IInv'
<1>1. NodeInv(o, i, newviews')
  BY KeepsNodeInv DEF IInv
<1>2. \A j \in Learners \ {i} : NodeInv(node[j], j, newviews')
  BY DEF IInv
<1>3. NewViewOnce'
  BY DEF IInv, NewViewOnce
<1> QED
  BY <1>1, <1>2, <1>3, StepOfOne DEF IInv

LEMMA HandlerKeeps ==
  ASSUME NEW i, NEW m, NEW orphan, Shape(node[i])
  PROVE  Keeps(node[i], Handler(i, m, orphan))
<1> DEFINE n == IF orphan THEN node[i] ELSE StartThreadIfNotExists(node[i], m.SequenceID)
           h == [n EXCEPT !.got = @ \cup {m}]
<1>1. Keeps(node[i], n)
  <2>1. CASE orphan
    BY <2>1 DEF Keeps
  <2>2. CASE ~orphan
    BY <2>2, StartThreadKeeps
  <2> QED
    BY <2>1, <2>2
<1>2. Keeps(n, h)
  <2>1. Shape(n)
    BY <1>1 DEF Keeps
  <2> HIDE DEF n
  <2> QED
    BY <2>1 DEF Keeps, Shape, Held, NodeFields
<1>3. Keeps(node[i], h)
  <2> HIDE DEF n, h
  <2> QED
    BY <1>1, <1>2, KeepsTransitive
<1> QED
  BY <1>3 DEF Handler

LEMMA AwakeKeeps ==
  ASSUME NEW i, NEW w, Shape(node[i])
  PROVE  Keeps(node[i], Awake(i, w))
BY DEF Awake, Keeps, Shape, Held, NodeFields

\* The quorum is answered by a handler that goes to sleep, and marked as answered.
LEMMA GetViewChangeKeepsIInv ==
  ASSUME IInv, NEW i \in Learners, NEW m \in viewchanges, NEW orphan \in BOOLEAN,
         GetViewChange(i, m, orphan)
  PROVE  IInv'
<1> DEFINE s   == m.SequenceID
           h   == Handler(i, m, orphan)
           n   == CreateVCState(h, s)
           old == n.VCStates[s]
           vcs == [ViewChange(old, m) EXCEPT !.msgSent = @ \/ Answers(old, m)]
           nn  == [n EXCEPT !.VCStates[s] = vcs]
           M   == NewViewMsg(i, s, vcs)
           z   == Sleep(nn, "viewchange", M, orphan)
           p   == getPrimaryInfoByID(nn, nn.NextCandidateIdx)
<1>1. s \in Seqs /\ NodeInv(node[i], i, newviews)
  BY DEF IInv
<1>2. Keeps(node[i], n)
  <2>1. Keeps(node[i], h)
    BY <1>1, HandlerKeeps DEF NodeInv
  <2>2. Keeps(h, n)
    BY <2>1, CreateVCStateKeeps DEF Keeps
  <2> QED
    BY <2>1, <2>2, KeepsTransitive
<1>3. NodeInv(n, i, newviews)
  BY <1>1, <1>2, KeepsNodeInv DEF IInv
<1>4. "msgSent" \in DOMAIN vcs /\ (old.msgSent => vcs.msgSent)
       /\ (Answers(old, m) => vcs.msgSent)
  <2>1. "msgSent" \in DOMAIN old
    BY <1>1, <1>2 DEF Keeps, Shape
  <2>2. "msgSent" \in DOMAIN ViewChange(old, m) /\ ViewChange(old, m).msgSent = old.msgSent
    <3> HIDE DEF old
    <3> QED
      BY <2>1 DEF ViewChange
  <2> HIDE DEF old
  <2> QED
    BY <2>2
<1>5. Keeps(n, nn)
  <2>1. Shape(n)
    BY <1>2 DEF Keeps
  <2> HIDE DEF n, vcs
  <2> QED
    BY <1>4, <2>1 DEF Keeps, Shape, Held, NodeFields
<1>6. CASE ~Answers(old, m) /\ Put(i, p)
  <2>1. Keeps(nn, p)
    <3>1. Shape(nn)
      BY <1>5 DEF Keeps
    <3> HIDE DEF nn
    <3> QED
      BY <3>1, getPrimaryKeeps
  <2>2. Keeps(node[i], p)
    <3> HIDE DEF n, nn, p
    <3> QED
      BY <1>2, <1>5, <2>1, KeepsTransitive
  <2> HIDE DEF p
  <2> QED
    BY <1>6, <2>2, KeepingStep DEF GetViewChange, IInv
<1>7. CASE Answers(old, m) /\ Put(i, z)
  <2>1. NodeInv(nn, i, newviews)
    <3> HIDE DEF n, nn
    <3> QED
      BY <1>3, <1>5, KeepsNodeInv DEF IInv
  <2>2. ~old.msgSent
    BY <1>7 DEF Answers
  <2>3. /\ \A a \in Held(nn) : a.SequenceID # s
        /\ \A o \in newviews : ~(o.NodeID = i /\ o.SequenceID = s)
    <3> HIDE DEF n, nn
    <3>1. Held(nn) \subseteq Held(n)
      BY <1>5 DEF Keeps
    <3> QED
      BY <1>3, <2>2, <3>1 DEF NodeInv
  <2>4. Shape(z) /\ z.VCStates = nn.VCStates /\ Held(z) = Held(nn) \cup {M}
    <3>1. Shape(nn)
      BY <2>1 DEF NodeInv
    <3> DEFINE w0 == [kind |-> "viewchange", m |-> M, orphan |-> orphan]
    <3> HIDE DEF nn, M
    <3>2. /\ DOMAIN z = NodeFields /\ z.VCStates = nn.VCStates
          /\ z.asleep = nn.asleep \cup {w0}
      BY <3>1 DEF Sleep, Shape, NodeFields
    <3>3. /\ DOMAIN w0 = {"kind", "m", "orphan"} /\ w0.kind = "viewchange" /\ w0.m = M
      OBVIOUS
    <3> HIDE DEF z, w0
    <3>4. Shape(z)
      BY <3>1, <3>2, <3>3 DEF Shape
    <3>5. Held(z) = Held(nn) \cup {M}
      BY <3>2, <3>3 DEF Held
    <3> QED
      BY <3>2, <3>4, <3>5
  <2>5. /\ DOMAIN M = {"NodeID", "SequenceID", "NextCandidateIdx", "SetViewChangeMsgs", "Min_S"}
        /\ M.NodeID = i /\ M.SequenceID = s
    <3> HIDE DEF vcs
    <3> QED
      BY DEF NewViewMsg
  <2>6. nn.VCStates[s].msgSent
    <3>1. Shape(n)
      BY <1>3 DEF NodeInv
    <3> HIDE DEF n, vcs
    <3> QED
      BY <1>1, <1>4, <1>7, <3>1 DEF Shape, NodeFields
  <2>7. NodeInv(z, i, newviews)
    <3> HIDE DEF nn, z, M
    <3> QED
      BY <1>1, <2>1, <2>3, <2>4, <2>5, <2>6 DEF NodeInv
  <2>8. viewchanges' = viewchanges /\ newviews' = newviews
    BY DEF GetViewChange
  <2>9. NewViewOnce'
    BY <2>8 DEF IInv, NewViewOnce
  <2> HIDE DEF z
  <2> QED
    BY <1>7, <2>7, <2>8, <2>9, StepOfOne DEF IInv
<1> HIDE DEF p, z
<1>8. \/ Answers(old, m) /\ Put(i, z)
      \/ ~Answers(old, m) /\ Put(i, p)
  BY DEF GetViewChange, p, z
<1> QED
  BY <1>6, <1>7, <1>8

\* The NEW-VIEW announced is the one the handler went to sleep with.
LEMMA RollbackForQuorumKeepsIInv ==
  ASSUME IInv, NEW i \in Learners, NEW w \in node[i].asleep, RollbackForQuorum(i, w)
  PROVE  IInv'
<1> DEFINE a == Awake(i, w)
           n == Rollback(a, w.m.SequenceID)
           p == getPrimaryInfoByID(n, n.NextCandidateIdx)
<1>1. NodeInv(node[i], i, newviews)
  BY DEF IInv
<1>2. Keeps(node[i], p)
  <2>1. Keeps(node[i], a)
    BY <1>1, AwakeKeeps DEF NodeInv
  <2>2. Keeps(a, n)
    BY <2>1, RollbackKeeps DEF Keeps
  <2>3. Keeps(n, p)
    BY <2>2, getPrimaryKeeps DEF Keeps
  <2> HIDE DEF a, n, p
  <2> QED
    BY <2>1, <2>2, <2>3, KeepsTransitive
<1> HIDE DEF p
<1>3. Put(i, p) /\ viewchanges' = viewchanges /\ w.kind = "viewchange"
  BY DEF RollbackForQuorum, p
<1>4. CASE newviews' = newviews
  BY <1>2, <1>3, <1>4, KeepingStep DEF IInv
<1>5. CASE newviews' = newviews \cup {Announced(w.m)}
  <2> DEFINE M == Announced(w.m)
  <2>1. w.m \in Held(node[i])
    BY <1>3 DEF Held
  <2>2. M.NodeID = i /\ M.SequenceID = w.m.SequenceID /\ M.SequenceID \in Seqs
    BY <1>1, <2>1 DEF NodeInv, Announced
  <2>3. \A o \in newviews : o.NodeID = i /\ o.SequenceID = M.SequenceID => o = M
    BY <1>1, <2>1, <2>2 DEF NodeInv
  <2>4. \A b \in Held(node[i]) : b.SequenceID = M.SequenceID => M = Announced(b)
    BY <1>1, <2>1, <2>2 DEF NodeInv
  <2>5. node[i].VCStates[M.SequenceID].msgSent
    BY <1>1, <2>1, <2>2 DEF NodeInv
  <2> HIDE DEF M
  <2>6. newviews' = newviews \cup {M}
    BY <1>5 DEF M
  <2>7. NodeInv(node[i], i, newviews')
    BY <1>1, <2>2, <2>4, <2>5, <2>6 DEF NodeInv
  <2>8. NodeInv(p, i, newviews')
    BY <1>2, <2>2, <2>6, <2>7, KeepsNodeInv DEF IInv
  <2>9. \A j \in Learners \ {i} : NodeInv(node[j], j, newviews')
    BY <2>2, <2>6 DEF IInv, NodeInv
  <2>10. NewViewOnce'
    BY <2>2, <2>3, <2>6 DEF IInv, NewViewOnce
  <2> QED
    BY <1>3, <2>2, <2>6, <2>8, <2>9, <2>10, StepOfOne DEF IInv
<1> QED
  BY <1>4, <1>5 DEF RollbackForQuorum, Announced

LEMMA InstallNewViewKeepsIInv ==
  ASSUME IInv, NEW i \in Learners, NEW w \in node[i].asleep, InstallNewView(i, w)
  PROVE  IInv'
<1> DEFINE s   == w.m.SequenceID
           idx == w.m.NextCandidateIdx
           n0  == Rollback(Awake(i, w), s)
           n1  == [n0 EXCEPT !.NextCandidateIdx = idx]
           n2  == FillHole(CreateVCState(n1, s), w.m.Min_S)
           c2  == [n2 EXCEPT !.StableCheckPoint = w.m.Min_S]
           n3  == updateViewID(c2, s - 1)
           g4  == getPrimaryInfoByID(n3, idx)
           n4  == [g4 EXCEPT !.NextCandidateIdx = AfterNewView(s, @)]
           t5  == StartThreadIfNotExists(n4, s)
           n5  == [t5 EXCEPT !.IsViewChanging = FALSE]
<1>1. Shape(node[i])
  BY DEF IInv, NodeInv
<1>2. Keeps(node[i], n0)
  <2>1. Keeps(node[i], Awake(i, w))
    BY <1>1, AwakeKeeps
  <2>2. Keeps(Awake(i, w), n0)
    BY <2>1, RollbackKeeps DEF Keeps
  <2> QED
    BY <2>1, <2>2, KeepsTransitive
<1>3. Keeps(n0, n1)
  <2>1. Shape(n0)
    BY <1>2 DEF Keeps
  <2> HIDE DEF n0
  <2> QED
    BY <2>1 DEF Keeps, Shape, Held, NodeFields
<1>4. Keeps(n1, n2)
  <2>1. Keeps(n1, CreateVCState(n1, s))
    BY <1>3, CreateVCStateKeeps DEF Keeps
  <2>2. Keeps(CreateVCState(n1, s), n2)
    BY <2>1, FillHoleKeeps DEF Keeps
  <2> QED
    BY <2>1, <2>2, KeepsTransitive
<1>5. Keeps(n2, c2)
  <2>1. Shape(n2)
    BY <1>4 DEF Keeps
  <2> HIDE DEF n2
  <2> QED
    BY <2>1 DEF Keeps, Shape, Held, NodeFields
<1>6. Keeps(c2, n3)
  BY <1>5, updateViewIDKeeps DEF Keeps
<1>7. Keeps(n3, g4)
  BY <1>6, getPrimaryKeeps DEF Keeps
<1>8. Keeps(g4, n4)
  <2>1. Shape(g4)
    BY <1>7 DEF Keeps
  <2> HIDE DEF g4
  <2> QED
    BY <2>1 DEF Keeps, Shape, Held, NodeFields
<1>9. Keeps(n4, t5)
  BY <1>8, StartThreadKeeps DEF Keeps
<1>10. Keeps(t5, n5)
  <2>1. Shape(t5)
    BY <1>9 DEF Keeps
  <2> HIDE DEF t5
  <2> QED
    BY <2>1 DEF Keeps, Shape, Held, NodeFields
<1>11. Keeps(node[i], n5)
  <2> HIDE DEF n0, n1, n2, c2, n3, g4, n4, t5, n5
  <2>1. Keeps(node[i], n2)
    BY <1>2, <1>3, <1>4, KeepsTransitive
  <2>2. Keeps(node[i], g4)
    BY <2>1, <1>5, <1>6, <1>7, KeepsTransitive
  <2> QED
    BY <2>2, <1>8, <1>9, <1>10, KeepsTransitive
<1>12. Put(i, IF idx = i THEN Blocked(n5, node[i], w) ELSE n5)
  BY DEF InstallNewView
<1>13. viewchanges' = viewchanges /\ newviews' = newviews
  BY DEF InstallNewView
<1> HIDE DEF n5
<1>14. Keeps(n5, Blocked(n5, node[i], w))
  <2>1. Shape(n5)
    BY <1>11 DEF Keeps
  <2> QED
    BY <2>1 DEF Blocked, Keeps, Shape, Held, NodeFields
<1>15. Keeps(node[i], Blocked(n5, node[i], w))
  BY <1>11, <1>14, KeepsTransitive
<1> QED
  BY <1>11, <1>12, <1>13, <1>15, KeepingStep DEF IInv

\* What a node that is not followed announces concerns no followed one.
LEMMA OtherNewViewKeepsIInv ==
  ASSUME IInv, OtherNewView
  PROVE  IInv'
<1>1. \E M : newviews' = newviews \cup {M} /\ M.NodeID \notin Learners /\ M.SequenceID \in Seqs
  <2>1. PICK s \in Seqs, j \in (Nodes \ Learners) \cap Candidates, idx \in Nodes \cap Candidates :
          LET All  == {NewViewMsg(j, s, [NextCandidateIdx |-> idx, ViewChangeMsgs |-> V]) :
                        V \in kSubset(Quorum, {m \in viewchanges : m.SequenceID = s})}
              Ready == {[m EXCEPT !.Min_S = FindStableCheckpoint(m)] :
                         m \in {o \in All : Cardinality(Senders(o.SetViewChangeMsgs)) = Quorum}}
          IN /\ \A o \in newviews : ~(o.NodeID = j /\ o.SequenceID = s)
             /\ \E cp \in {m.Min_S : m \in Ready} :
                  newviews' = newviews \cup {CHOOSE m \in Ready : m.Min_S = cp}
    BY Zenon DEF OtherNewView
  <2> DEFINE All   == {NewViewMsg(j, s, [NextCandidateIdx |-> idx, ViewChangeMsgs |-> V]) :
                        V \in kSubset(Quorum, {m \in viewchanges : m.SequenceID = s})}
             Ready == {[m EXCEPT !.Min_S = FindStableCheckpoint(m)] :
                        m \in {o \in All : Cardinality(Senders(o.SetViewChangeMsgs)) = Quorum}}
             OfOther(m) == /\ DOMAIN m = {"NodeID", "SequenceID", "NextCandidateIdx",
                                          "SetViewChangeMsgs", "Min_S"}
                           /\ m.NodeID = j /\ m.SequenceID = s
  <2>2. \A m \in Ready : m.NodeID = j /\ m.SequenceID = s
    <3> HIDE DEF Ready
    <3>1. \A v : OfOther(NewViewMsg(j, s, v))
      BY DEF NewViewMsg
    <3>2. \A m \in All : OfOther(m)
      <4> HIDE DEF OfOther
      <4> QED
        BY <3>1
    <3> HIDE DEF All
    <3> QED
      BY <3>2 DEF Ready
  <2>3. PICK cp \in {m.Min_S : m \in Ready} :
          newviews' = newviews \cup {CHOOSE m \in Ready : m.Min_S = cp}
    BY <2>1
  <2> HIDE DEF Ready
  <2> QED
    BY <2>2, <2>3
<1>2. PICK M : newviews' = newviews \cup {M} /\ M.NodeID \notin Learners /\ M.SequenceID \in Seqs
  BY <1>1
<1>3. UNCHANGED <<node, viewchanges>>
  BY DEF OtherNewView
<1>4. \A j \in Learners : NodeInv(node[j], j, newviews')
  BY <1>2 DEF IInv, NodeInv
<1>5. NewViewOnce'
  BY <1>2 DEF IInv, NewViewOnce
<1>6. \A j \in Learners : NodeInv(node[j], j, newviews)'
  <2> SUFFICES ASSUME NEW j \in Learners PROVE NodeInv(node'[j], j, newviews')
    BY DEF NodeInv, Shape, Held, Announced, FindStableCheckpoint
  <2> QED
    BY <1>3, <1>4
<1> QED
  BY <1>2, <1>3, <1>5, <1>6 DEF IInv

LEMMA NextKeepsIInv ==
  ASSUME IInv, [Next]_vars
  PROVE  IInv'
<1> USE DEF IInv
<1>0. CASE UNCHANGED vars
  <2>1. UNCHANGED <<node, viewchanges, newviews>>
    BY <1>0 DEF vars
  <2>2. \A j \in Learners : NodeInv(node[j], j, newviews)'
    <3> SUFFICES ASSUME NEW j \in Learners PROVE NodeInv(node'[j], j, newviews')
      BY DEF NodeInv, Shape, Held, Announced, FindStableCheckpoint
    <3> QED
      BY <2>1
  <2> QED
    BY <2>1, <2>2 DEF NewViewOnce
<1>1. ASSUME NEW i \in Learners, NEW s \in Seqs, StartThread(i, s) PROVE IInv'
  <2>1. Shape(node[i])
    BY DEF NodeInv
  <2> QED
    BY <1>1, <2>1, StartThreadKeeps, KeepingStep DEF StartThread
<1>2. ASSUME NEW i \in Learners, NEW s \in Seqs, StartViewChange(i, s) PROVE IInv'
  <2> DEFINE o == [node[i] EXCEPT !.watch[s] = "done"]
  <2>1. Keeps(node[i], o)
    BY DEF NodeInv, Keeps, Shape, Held, NodeFields
  <2>2. \A m \in viewchanges' : m.SequenceID \in Seqs
    BY <1>2 DEF StartViewChange
  <2> QED
    BY <1>2, <2>1, <2>2, KeepingStep DEF StartViewChange
<1>3. ASSUME NEW i \in Learners, NEW s \in Seqs, Decide(i, s) PROVE IInv'
  <2> DEFINE o == [node[i] EXCEPT !.pairs = @ \cup {s}, !.executing = TRUE]
  <2>1. Keeps(node[i], o)
    BY DEF NodeInv, Keeps, Shape, Held, NodeFields
  <2> QED
    BY <1>3, <2>1, KeepingStep DEF Decide
<1>4. ASSUME NEW i \in Learners, ExecuteNext(i) PROVE IInv'
  <2> DEFINE n == node[i]
             s == LastSequenceID(n) + 1
  <2>1. Shape(n)
    BY DEF NodeInv
  <2>2. CASE Put(i, [n EXCEPT !.down = TRUE])
    <3>1. Keeps(n, [n EXCEPT !.down = TRUE])
      BY <2>1 DEF Keeps, Shape, Held, NodeFields
    <3> QED
      BY <1>4, <2>2, <3>1, KeepingStep DEF ExecuteNext
  <2>3. CASE Put(i, [n EXCEPT !.executing = FALSE])
    <3>1. Keeps(n, [n EXCEPT !.executing = FALSE])
      BY <2>1 DEF Keeps, Shape, Held, NodeFields
    <3> QED
      BY <1>4, <2>3, <3>1, KeepingStep DEF ExecuteNext
  <2>4. CASE \E watch \in {n.watch[s], "done"} : Put(i, Executed(n, s, watch))
    <3>1. PICK watch : Put(i, Executed(n, s, watch))
      BY <2>4
    <3>2. Keeps(n, Executed(n, s, watch))
      BY <2>1 DEF Executed, updateViewID, Keeps, Shape, Held, NodeFields
    <3> QED
      BY <1>4, <3>1, <3>2, KeepingStep DEF ExecuteNext
  <2> QED
    BY <1>4, <2>2, <2>3, <2>4 DEF ExecuteNext
<1>5. ASSUME NEW i \in Learners, NEW m \in viewchanges, NEW orphan \in BOOLEAN,
             GetViewChange(i, m, orphan)
      PROVE  IInv'
  BY <1>5, GetViewChangeKeepsIInv
<1>6. ASSUME NEW i \in Learners, NEW m \in newviews, NEW orphan \in BOOLEAN,
             GetNewView(i, m, orphan)
      PROVE  IInv'
  <2> DEFINE h == Handler(i, m, orphan)
  <2>1. Keeps(node[i], h)
    BY HandlerKeeps DEF NodeInv
  <2>2. Keeps(h, Sleep(h, "newview", m, orphan))
    BY <2>1 DEF Sleep, Keeps, Shape, Held, NodeFields
  <2>3. Keeps(node[i], Sleep(h, "newview", m, orphan))
    BY <2>1, <2>2, KeepsTransitive
  <2> QED
    BY <1>6, <2>3, KeepingStep DEF GetNewView
<1>7. ASSUME NEW i \in Learners, NEW w \in node[i].asleep, RollbackForQuorum(i, w)
      PROVE  IInv'
  BY <1>7, RollbackForQuorumKeepsIInv
<1>8. ASSUME NEW i \in Learners, NEW w \in node[i].asleep, InstallNewView(i, w)
      PROVE  IInv'
  BY <1>8, InstallNewViewKeepsIInv
<1>9. ASSUME OtherNewView PROVE IInv'
  BY <1>9, OtherNewViewKeepsIInv
<1> QED
  BY <1>0, <1>1, <1>2, <1>3, <1>4, <1>5, <1>6, <1>7, <1>8, <1>9 DEF Next, Handle, Wake

LEMMA InitIInv == Init => IInv
<1> SUFFICES ASSUME Init PROVE IInv
  OBVIOUS
<1>1. \A i \in Learners : node[i] = Start
  BY DEF Init
<1>2. Shape(Start) /\ Held(Start) = {}
  BY DEF Start, Shape, NodeFields, NoVCState, Held
<1>3. \A m \in viewchanges : m.SequenceID \in Seqs
  BY ViewChangeAssumption DEF Init, ViewChangeMsg
<1> QED
  BY <1>1, <1>2, <1>3 DEF Init, IInv, NodeInv, NewViewOnce

\* pbft_view_impl.go:83: a followed node announces at most one NEW-VIEW for a sequence,
\* whichever of its handlers, sleeping or of deleted States, reach the quorum.
THEOREM OneNewViewPerSequence == Spec => []NewViewOnce
<1>1. Init => IInv
  BY InitIInv
<1>2. IInv /\ [Next]_vars => IInv'
  BY NextKeepsIInv
<1>3. IInv => NewViewOnce
  BY DEF IInv
<1> QED
  BY <1>1, <1>2, <1>3, PTL DEF Spec

------------------------------------------------------------------------------
(* The largest of finitely many numbers.                                    *)

LEMMA HasLeast ==
  ASSUME NEW T, T \subseteq Nat, T # {}
  PROVE  \E x \in T : \A y \in T : x <= y
<1>1. PICK x \in T : \A y \in T : ~ (<<y, x>> \in OpToRel(<, Nat))
  BY NatLessThanWellFounded, WFMin
<1>2. \A y \in T : ~ (y < x)
  BY <1>1 DEF OpToRel
<1> QED  BY <1>2

LEMMA HasMax ==
  ASSUME NEW b \in Nat, NEW S, S \subseteq 0..b, S # {}
  PROVE  Max(S) \in S /\ \A y \in S : y <= Max(S)
<1> DEFINE T == {b - x : x \in S}
<1>1. T \subseteq Nat /\ T # {}
  <2>1. \A x \in S : b - x \in Nat
    OBVIOUS
  <2>2. PICK x : x \in S
    OBVIOUS
  <2>3. b - x \in T
    BY <2>2
  <2> QED  BY <2>1, <2>3
<1>2. PICK t \in T : \A y \in T : t <= y
  BY <1>1, HasLeast
<1>3. PICK x \in S : t = b - x
  BY <1>2
<1>4. \A y \in S : x >= y
  <2> SUFFICES ASSUME NEW y \in S PROVE x >= y
    OBVIOUS
  <2>1. b - y \in T /\ x \in 0..b /\ y \in 0..b
    OBVIOUS
  <2>2. b - x <= b - y
    BY <1>2, <1>3, <2>1
  <2> QED  BY <2>1, <2>2
<1> HIDE DEF T
<1>5. \E z \in S : \A y \in S : z >= y
  BY <1>4
<1>6. Max(S) \in S /\ \A y \in S : Max(S) >= y
  BY <1>5 DEF Max
<1> QED  BY <1>6

------------------------------------------------------------------------------
(* What the parts of the handlers touch of a node.                          *)

\* Nothing changes but fields.
Touches(n, o, fields) == /\ DOMAIN o = NodeFields
                         /\ \A f \in NodeFields \ fields : o[f] = n[f]

LEMMA StartThreadTouches ==
  ASSUME NEW n, DOMAIN n = NodeFields, NEW s, NEW o, o = StartThreadIfNotExists(n, s)
  PROVE  /\ Touches(n, o, {"States", "handler", "watch", "TotalConsensus"})
         /\ n.States[s] # Nil => o = n
         /\ n.States[s] = Nil =>
              /\ o.States = [n.States EXCEPT ![s] = n.ViewID]
              /\ o.handler = [n.handler EXCEPT ![s] = "run"]
              /\ o.watch = [n.watch EXCEPT ![s] = "running"]
              /\ o.TotalConsensus = n.TotalConsensus + 1
BY DEF StartThreadIfNotExists, Touches, NodeFields

LEMMA updateViewIDTouches ==
  ASSUME NEW n, DOMAIN n = NodeFields, NEW v, NEW o, o = updateViewID(n, v)
  PROVE  Touches(n, o, {"ViewID"}) /\ o.ViewID = v % participant
BY DEF updateViewID, Touches, NodeFields

LEMMA CreateVCStateTouches ==
  ASSUME NEW n, DOMAIN n = NodeFields, NEW s, NEW o, o = CreateVCState(n, s)
  PROVE  /\ Touches(n, o, {"VCStates"})
         /\ n.VCStates[s] # NoVCState => o = n
         /\ n.VCStates[s] = NoVCState =>
              o.VCStates = [n.VCStates EXCEPT ![s].NextCandidateIdx = n.NextCandidateIdx]
BY DEF CreateVCState, Touches, NodeFields

LEMMA getPrimaryTouches ==
  ASSUME NEW n, DOMAIN n = NodeFields, NEW idx, NEW o, o = getPrimaryInfoByID(n, idx)
  PROVE  /\ Touches(n, o, {"down"})
         /\ idx \in Nodes => o = n
BY DEF getPrimaryInfoByID, Touches, NodeFields

------------------------------------------------------------------------------
(* What the nodes and the NEW-VIEWs are made of, beside the VIEW-CHANGEs VC *)
(* and the NEW-VIEWs NV that have been sent.                                *)

Threads(n) ==
  /\ n.States \in [Seqs -> {Nil} \cup 0..(participant - 1)]
  /\ n.handler \in [Seqs -> {"none", "run", "told", "blocked"}]
  /\ n.watch \in [Seqs -> {"none", "running", "done"}]
  /\ n.TotalConsensus \in Nat

\* A hole, but for place 0, was claimed by a VIEW-CHANGE.
Ledger(n, VC) ==
  /\ DOMAIN n.CommittedMsgs \subseteq 0..MaxSeq
  /\ \A k \in DOMAIN n.CommittedMsgs :
       \/ n.CommittedMsgs[k] = "block"
       \/ n.CommittedMsgs[k] = "hole" /\ (k # 0 => \E m \in VC : m.StableCheckPoint >= k)
  /\ n.StableCheckPoint \in 0..MaxSeq
  /\ n.Committed \subseteq Seqs /\ n.pairs \subseteq Seqs

View(n) == n.ViewID \in 0..(participant - 1) /\ n.NextCandidateIdx \in Nat

\* Counting messages counts senders.
OnePerSender(V) == /\ IsFiniteSet(V) /\ IsFiniteSet(Senders(V))
                   /\ Cardinality(Senders(V)) = Cardinality(V)

VCStateOK(v, s, VC) ==
  /\ DOMAIN v = {"NextCandidateIdx", "ViewChangeMsgs", "msgSent"}
  /\ v # NoVCState => v.NextCandidateIdx \in Nat
  /\ v.ViewChangeMsgs \subseteq {c \in VC : c.SequenceID = s}
  /\ OnePerSender(v.ViewChangeMsgs)

Collected(n, VC) == /\ DOMAIN n.VCStates = Seqs
                    /\ \A s \in Seqs : VCStateOK(n.VCStates[s], s, VC)

\* A NEW-VIEW, or what is going to be one, rests on a quorum.
Draft(m, VC) ==
  /\ DOMAIN m = {"NodeID", "SequenceID", "NextCandidateIdx", "SetViewChangeMsgs", "Min_S"}
  /\ m.SequenceID \in Seqs /\ m.NextCandidateIdx \in Nat
  /\ m.SetViewChangeMsgs \subseteq {c \in VC : c.SequenceID = m.SequenceID}
  /\ Cardinality(Senders(m.SetViewChangeMsgs)) >= Quorum

\* Its stable checkpoint is the highest claimed.
Claimed(m) ==
  /\ m.Min_S \in 0..MaxSeq
  /\ \A c \in m.SetViewChangeMsgs : c.StableCheckPoint <= m.Min_S
  /\ m.Min_S = 0 \/ \E c \in m.SetViewChangeMsgs : c.StableCheckPoint = m.Min_S

Sleeper(w, got, VC, NV) ==
  /\ DOMAIN w = {"kind", "m", "orphan"}
  /\ w.kind \in {"viewchange", "newview"} /\ w.orphan \in BOOLEAN
  /\ Draft(w.m, VC)
  /\ w.kind = "newview" => w.m \in NV /\ w.m \in got

\* No message puts two handlers to sleep.
Mail(n, VC, NV) ==
  /\ n.late \in [Seqs -> SUBSET (VC \cup NV)]
  /\ n.got \subseteq VC \cup NV
  /\ \A w \in n.asleep : Sleeper(w, n.got, VC, NV)
  /\ \A v, w \in n.asleep : v.kind = w.kind /\ v.m = w.m => v = w

NodeOK(n, VC, NV) ==
  /\ DOMAIN n = NodeFields
  /\ Threads(n) /\ Ledger(n, VC) /\ View(n) /\ Collected(n, VC) /\ Mail(n, VC, NV)

Sound ==
  /\ viewchanges \subseteq ViewChangeMsg
  /\ \A m \in newviews : Draft(m, viewchanges) /\ Claimed(m)
  /\ \A i \in Learners : NodeOK(node[i], viewchanges, newviews)

------------------------------------------------------------------------------
\* More messages change nothing.
LEMMA NodeOKGrows ==
  ASSUME NEW n, NEW VC, NEW NV, NEW VC2, NEW NV2, VC \subseteq VC2, NV \subseteq NV2,
         NodeOK(n, VC, NV)
  PROVE  NodeOK(n, VC2, NV2)
<1>1. \A m : Draft(m, VC) => Draft(m, VC2)
  BY DEF Draft
<1>2. Ledger(n, VC2)
  BY DEF NodeOK, Ledger
<1>3. Collected(n, VC2)
  BY DEF NodeOK, Collected, VCStateOK
<1>4. \A w \in n.asleep : Sleeper(w, n.got, VC2, NV2)
  BY <1>1 DEF NodeOK, Mail, Sleeper
<1>5. n.late \in [Seqs -> SUBSET (VC2 \cup NV2)] /\ n.got \subseteq VC2 \cup NV2
  BY DEF NodeOK, Mail
<1>6. Mail(n, VC2, NV2)
  BY <1>4, <1>5 DEF NodeOK, Mail
<1> QED  BY <1>2, <1>3, <1>6 DEF NodeOK

\* The fields a part does not touch keep their parts of the invariant.
LEMMA TouchedParts ==
  ASSUME NEW n, NEW o, NEW fields, NEW VC, NEW NV, NodeOK(n, VC, NV), Touches(n, o, fields)
  PROVE  /\ fields \cap {"States", "handler", "watch", "TotalConsensus"} = {} => Threads(o)
         /\ fields \cap {"CommittedMsgs", "StableCheckPoint", "Committed", "pairs"} = {} =>
              Ledger(o, VC)
         /\ fields \cap {"ViewID", "NextCandidateIdx"} = {} => View(o)
         /\ "VCStates" \notin fields => Collected(o, VC)
         /\ fields \cap {"late", "got", "asleep"} = {} => Mail(o, VC, NV)
<1>1. fields \cap {"States", "handler", "watch", "TotalConsensus"} = {} => Threads(o)
  BY DEF NodeOK, Threads, Touches, NodeFields
<1>2. fields \cap {"CommittedMsgs", "StableCheckPoint", "Committed", "pairs"} = {} => Ledger(o, VC)
  BY DEF NodeOK, Ledger, Touches, NodeFields
<1>3. fields \cap {"ViewID", "NextCandidateIdx"} = {} => View(o)
  BY DEF NodeOK, View, Touches, NodeFields
<1>4. "VCStates" \notin fields => Collected(o, VC)
  BY DEF NodeOK, Collected, Touches, NodeFields
<1>5. fields \cap {"late", "got", "asleep"} = {} => Mail(o, VC, NV)
  BY DEF NodeOK, Mail, Touches, NodeFields
<1> QED  BY <1>1, <1>2, <1>3, <1>4, <1>5

LEMMA StartThreadOK ==
  ASSUME NEW VC, NEW NV, NEW n, NodeOK(n, VC, NV), NEW s \in Seqs,
         NEW o, o = StartThreadIfNotExists(n, s)
  PROVE  NodeOK(o, VC, NV)
<1>1. DOMAIN n = NodeFields
  BY DEF NodeOK
<1>2. /\ Touches(n, o, {"States", "handler", "watch", "TotalConsensus"})
      /\ n.States[s] # Nil => o = n
      /\ n.States[s] = Nil =>
              /\ o.States = [n.States EXCEPT ![s] = n.ViewID]
              /\ o.handler = [n.handler EXCEPT ![s] = "run"]
              /\ o.watch = [n.watch EXCEPT ![s] = "running"]
              /\ o.TotalConsensus = n.TotalConsensus + 1
  BY <1>1, StartThreadTouches
<1>3. Ledger(o, VC) /\ View(o) /\ Collected(o, VC) /\ Mail(o, VC, NV)
  BY <1>2, TouchedParts
<1>4. Threads(o)
  <2>1. CASE n.States[s] # Nil
    BY <1>2, <2>1 DEF NodeOK
  <2>2. CASE n.States[s] = Nil
    <3>1. n.ViewID \in {Nil} \cup 0..(participant - 1)
      BY DEF NodeOK, View
    <3> QED  BY <1>2, <2>2, <3>1 DEF NodeOK, Threads
  <2> QED  BY <2>1, <2>2
<1>5. DOMAIN o = NodeFields
  BY <1>2 DEF Touches
<1> QED  BY <1>3, <1>4, <1>5 DEF NodeOK

LEMMA CreateVCStateOK ==
  ASSUME NEW VC, NEW NV, NEW n, NodeOK(n, VC, NV), NEW s \in Seqs,
         NEW o, o = CreateVCState(n, s)
  PROVE  NodeOK(o, VC, NV) /\ o.VCStates[s].NextCandidateIdx \in Nat
<1>1. DOMAIN n = NodeFields /\ n.NextCandidateIdx \in Nat
  BY DEF NodeOK, View
<1>2. /\ Touches(n, o, {"VCStates"})
      /\ n.VCStates[s] # NoVCState => o = n
      /\ n.VCStates[s] = NoVCState =>
              o.VCStates = [n.VCStates EXCEPT ![s].NextCandidateIdx = n.NextCandidateIdx]
  BY <1>1, CreateVCStateTouches
<1>3. Threads(o) /\ Ledger(o, VC) /\ View(o) /\ Mail(o, VC, NV)
  BY <1>2, TouchedParts
<1>4. DOMAIN o = NodeFields
  BY <1>2 DEF Touches
<1>5. CASE n.VCStates[s] # NoVCState
  BY <1>2, <1>5 DEF NodeOK, Collected, VCStateOK
<1>6. CASE n.VCStates[s] = NoVCState
  <2> DEFINE old == n.VCStates[s]
             new == [old EXCEPT !.NextCandidateIdx = n.NextCandidateIdx]
  <2>1. DOMAIN n.VCStates = Seqs /\ \A k \in Seqs : VCStateOK(n.VCStates[k], k, VC)
    BY DEF NodeOK, Collected
  <2>2. VCStateOK(old, s, VC)
    BY <2>1
  <2>3. /\ DOMAIN new = DOMAIN old /\ new.NextCandidateIdx = n.NextCandidateIdx
        /\ new.ViewChangeMsgs = old.ViewChangeMsgs
    <3> HIDE DEF old
    <3> QED  BY <2>2 DEF VCStateOK
  <2>4. VCStateOK(new, s, VC) /\ new.NextCandidateIdx \in Nat
    <3> HIDE DEF old, new
    <3> QED  BY <1>1, <2>2, <2>3 DEF VCStateOK
  <2>5. o.VCStates = [n.VCStates EXCEPT ![s] = new]
    BY <1>2, <1>6
  <2> HIDE DEF new
  <2>6. DOMAIN o.VCStates = Seqs /\ o.VCStates[s] = new
        /\ \A k \in Seqs \ {s} : o.VCStates[k] = n.VCStates[k]
    BY <2>1, <2>5
  <2>7. Collected(o, VC)
    BY <2>1, <2>4, <2>6 DEF Collected
  <2> QED  BY <1>3, <1>4, <2>4, <2>6, <2>7 DEF NodeOK
<1> QED  BY <1>5, <1>6

LEMMA getPrimaryOK ==
  ASSUME NEW VC, NEW NV, NEW n, NodeOK(n, VC, NV), NEW idx,
         NEW o, o = getPrimaryInfoByID(n, idx)
  PROVE  NodeOK(o, VC, NV)
<1>1. Touches(n, o, {"down"})
  BY getPrimaryTouches DEF NodeOK
<1>2. Threads(o) /\ Ledger(o, VC) /\ View(o) /\ Collected(o, VC) /\ Mail(o, VC, NV)
  BY <1>1, TouchedParts
<1>3. DOMAIN o = NodeFields
  BY <1>1 DEF Touches
<1> QED  BY <1>2, <1>3 DEF NodeOK

LEMMA updateViewIDOK ==
  ASSUME NEW VC, NEW NV, NEW n, NodeOK(n, VC, NV), NEW v \in Nat,
         NEW o, o = updateViewID(n, v)
  PROVE  NodeOK(o, VC, NV)
<1>1. Touches(n, o, {"ViewID"}) /\ o.ViewID = v % participant
  BY updateViewIDTouches DEF NodeOK
<1>2. Threads(o) /\ Ledger(o, VC) /\ Collected(o, VC) /\ Mail(o, VC, NV)
  BY <1>1, TouchedParts
<1>3. DOMAIN o = NodeFields /\ o.NextCandidateIdx = n.NextCandidateIdx
  BY <1>1 DEF Touches, NodeFields
<1>4. participant \in Nat \ {0}
  BY ViewChangeAssumption
<1>5. v % participant \in 0..(participant - 1)
  BY <1>4
<1>6. View(o)
  BY <1>1, <1>3, <1>5 DEF NodeOK, View
<1> QED  BY <1>2, <1>3, <1>6 DEF NodeOK

LEMMA HandlerOK ==
  ASSUME NEW VC, NEW NV, NEW i, NodeOK(node[i], VC, NV), NEW m \in VC \cup NV,
         m.SequenceID \in Seqs, NEW orphan \in BOOLEAN,
         NEW o, o = Handler(i, m, orphan)
  PROVE  /\ NodeOK(o, VC, NV)
         /\ o.asleep = node[i].asleep /\ o.VCStates = node[i].VCStates
         /\ o.got = node[i].got \cup {m}
<1> DEFINE n == IF orphan THEN node[i] ELSE StartThreadIfNotExists(node[i], m.SequenceID)
<1>1. NodeOK(n, VC, NV) /\ n.asleep = node[i].asleep /\ n.VCStates = node[i].VCStates
      /\ n.got = node[i].got
  <2>1. CASE orphan
    BY <2>1
  <2>2. CASE ~orphan
    <3>1. n = StartThreadIfNotExists(node[i], m.SequenceID)
      BY <2>2
    <3> HIDE DEF n
    <3>2. NodeOK(n, VC, NV)
      BY <3>1, StartThreadOK
    <3>3. Touches(node[i], n, {"States", "handler", "watch", "TotalConsensus"})
      BY <3>1, StartThreadTouches DEF NodeOK
    <3> QED  BY <3>2, <3>3 DEF Touches, NodeFields
  <2> QED  BY <2>1, <2>2
<1>2. o = [n EXCEPT !.got = @ \cup {m}]
  BY DEF Handler
<1> HIDE DEF n
<1>3. Touches(n, o, {"got"}) /\ o.got = n.got \cup {m} /\ o.asleep = n.asleep
      /\ o.late = n.late /\ o.VCStates = n.VCStates
  BY <1>1, <1>2 DEF NodeOK, Touches, NodeFields
<1>4. Threads(o) /\ Ledger(o, VC) /\ View(o) /\ Collected(o, VC)
  BY <1>1, <1>3, TouchedParts
<1>5. Mail(o, VC, NV)
  BY <1>1, <1>3 DEF NodeOK, Mail, Sleeper
<1>6. DOMAIN o = NodeFields
  BY <1>3 DEF Touches
<1> QED  BY <1>1, <1>3, <1>4, <1>5, <1>6 DEF NodeOK

LEMMA SleepOK ==
  ASSUME NEW VC, NEW NV, NEW n, NodeOK(n, VC, NV), NEW kind \in {"viewchange", "newview"},
         NEW m, Draft(m, VC), NEW orphan \in BOOLEAN,
         kind = "newview" => m \in NV /\ m \in n.got,
         \A v \in n.asleep : ~(v.kind = kind /\ v.m = m),
         NEW o, o = Sleep(n, kind, m, orphan)
  PROVE  NodeOK(o, VC, NV)
<1> DEFINE w == [kind |-> kind, m |-> m, orphan |-> orphan]
<1>1. /\ Touches(n, o, {"IsViewChanging", "asleep"}) /\ o.asleep = n.asleep \cup {w}
      /\ o.got = n.got /\ o.late = n.late
  <2> HIDE DEF w
  <2>1. o = [n EXCEPT !.IsViewChanging = TRUE, !.asleep = @ \cup {w}]
    BY DEF Sleep, w
  <2> QED  BY <2>1 DEF NodeOK, Touches, NodeFields
<1>2. Threads(o) /\ Ledger(o, VC) /\ View(o) /\ Collected(o, VC)
  BY <1>1, TouchedParts
<1>3. /\ DOMAIN w = {"kind", "m", "orphan"} /\ w.kind = kind /\ w.m = m
      /\ w.orphan \in BOOLEAN
  OBVIOUS
<1> HIDE DEF w
<1>4. Sleeper(w, n.got, VC, NV)
  BY <1>3 DEF Sleeper
<1>5. Mail(o, VC, NV)
  BY <1>1, <1>3, <1>4 DEF NodeOK, Mail
<1>6. DOMAIN o = NodeFields
  BY <1>1 DEF Touches
<1> QED  BY <1>2, <1>5, <1>6 DEF NodeOK

LEMMA AwakeOK ==
  ASSUME NEW VC, NEW NV, NEW i, NodeOK(node[i], VC, NV), NEW w, NEW o, o = Awake(i, w)
  PROVE  /\ NodeOK(o, VC, NV) /\ Touches(node[i], o, {"asleep"})
         /\ o.asleep = node[i].asleep \ {w}
<1>1. /\ Touches(node[i], o, {"asleep"}) /\ o.asleep = node[i].asleep \ {w}
      /\ o.got = node[i].got /\ o.late = node[i].late
  BY DEF Awake, NodeOK, Touches, NodeFields
<1>2. Threads(o) /\ Ledger(o, VC) /\ View(o) /\ Collected(o, VC)
  BY <1>1, TouchedParts
<1>3. Mail(o, VC, NV)
  BY <1>1 DEF NodeOK, Mail
<1>4. DOMAIN o = NodeFields
  BY <1>1 DEF Touches
<1> QED  BY <1>1, <1>2, <1>3, <1>4 DEF NodeOK

LEMMA RollbackOK ==
  ASSUME NEW n, NodeOK(n, viewchanges, newviews), NEW s \in Seqs, NEW o, o = Rollback(n, s)
  PROVE  NodeOK(o, viewchanges, newviews)
<1> DEFINE gone == s..n.TotalConsensus
<1>0. DOMAIN n = NodeFields
  BY DEF NodeOK
<1>1. /\ Touches(n, o, {"States", "handler", "late", "asleep", "CommittedMsgs", "Committed",
                        "TotalConsensus"})
      /\ o.States = [k \in Seqs |-> IF k \in gone THEN Nil ELSE n.States[k]]
      /\ o.handler = [k \in Seqs |-> IF k \in gone THEN "none" ELSE n.handler[k]]
      /\ o.late = [k \in Seqs |-> IF k \in gone /\ n.handler[k] \in {"run", "told"}
                                  THEN n.late[k] \cup (Sent(k) \ n.got) ELSE n.late[k]]
      /\ o.asleep = {[w EXCEPT !.orphan = @ \/ w.m.SequenceID \in gone] : w \in n.asleep}
      /\ o.CommittedMsgs = [k \in DOMAIN n.CommittedMsgs \ gone |-> n.CommittedMsgs[k]]
      /\ o.Committed = n.Committed \ gone
      /\ o.TotalConsensus = IF s <= n.TotalConsensus THEN s - 1 ELSE n.TotalConsensus
  <2>1. Touches(n, o, {"States", "handler", "late", "asleep", "CommittedMsgs", "Committed",
                             "TotalConsensus"})
    BY <1>0 DEF Rollback, Touches, NodeFields
  <2>2. /\ o.States = [k \in Seqs |-> IF k \in s..n.TotalConsensus THEN Nil ELSE n.States[k]]
        /\ o.handler = [k \in Seqs |-> IF k \in s..n.TotalConsensus THEN "none"
                                          ELSE n.handler[k]]
        /\ o.Committed = n.Committed \ (s..n.TotalConsensus)
        /\ o.TotalConsensus = IF s <= n.TotalConsensus THEN s - 1 ELSE n.TotalConsensus
    BY <1>0 DEF Rollback, NodeFields
  <2>3. o.late = [k \in Seqs |->
                IF k \in s..n.TotalConsensus /\ n.handler[k] \in {"run", "told"}
                THEN n.late[k] \cup (Sent(k) \ n.got) ELSE n.late[k]]
    BY <1>0 DEF Rollback, NodeFields
  <2>4. o.CommittedMsgs = [k \in DOMAIN n.CommittedMsgs \ (s..n.TotalConsensus)
                                   |-> n.CommittedMsgs[k]]
    BY <1>0 DEF Rollback, NodeFields
  <2>5. o.asleep = {[w EXCEPT !.orphan = @ \/ w.m.SequenceID \in s..n.TotalConsensus]
                            : w \in n.asleep}
    BY <1>0 DEF Rollback, NodeFields
  <2> QED  BY <2>1, <2>2, <2>3, <2>4, <2>5
<1> HIDE DEF gone
<1>2. View(o) /\ Collected(o, viewchanges)
  BY <1>1, TouchedParts
<1>3. /\ o.watch = n.watch /\ o.got = n.got /\ o.pairs = n.pairs
      /\ o.StableCheckPoint = n.StableCheckPoint /\ DOMAIN o = NodeFields
  BY <1>1 DEF Touches, NodeFields
<1>4. Threads(o)
  <2>1. o.TotalConsensus \in Nat
    BY <1>1 DEF NodeOK, Threads, Seqs
  <2>2. /\ o.States \in [Seqs -> {Nil} \cup 0..(participant - 1)]
        /\ o.handler \in [Seqs -> {"none", "run", "told", "blocked"}]
    BY <1>1 DEF NodeOK, Threads
  <2> QED  BY <1>3, <2>1, <2>2 DEF NodeOK, Threads
<1>5. Ledger(o, viewchanges)
  BY <1>1, <1>3 DEF NodeOK, Ledger
<1>6. o.late \in [Seqs -> SUBSET (viewchanges \cup newviews)]
  <2>1. \A k \in Seqs : /\ n.late[k] \subseteq viewchanges \cup newviews
                        /\ Sent(k) \subseteq viewchanges \cup newviews
    BY DEF NodeOK, Mail, Sent
  <2> QED  BY <1>1, <2>1
<1>7. \A v \in o.asleep : /\ Sleeper(v, n.got, viewchanges, newviews)
                          /\ \E w \in n.asleep :
                               /\ v.kind = w.kind /\ v.m = w.m
                               /\ v = [w EXCEPT !.orphan = @ \/ w.m.SequenceID \in gone]
  <2> SUFFICES ASSUME NEW w \in n.asleep, NEW v,
                      v = [w EXCEPT !.orphan = @ \/ w.m.SequenceID \in gone]
               PROVE  /\ Sleeper(v, n.got, viewchanges, newviews)
                      /\ v.kind = w.kind /\ v.m = w.m
    BY <1>1
  <2>1. Sleeper(w, n.got, viewchanges, newviews)
    BY DEF NodeOK, Mail
  <2>2. /\ DOMAIN v = {"kind", "m", "orphan"} /\ v.kind = w.kind /\ v.m = w.m
        /\ v.orphan = (w.orphan \/ w.m.SequenceID \in gone)
    BY <2>1 DEF Sleeper
  <2>3. v.orphan \in BOOLEAN
    BY Zenon, <2>2
  <2> QED  BY <2>1, <2>2, <2>3 DEF Sleeper
<1>8. \A v, w \in o.asleep : v.kind = w.kind /\ v.m = w.m => v = w
  <2> SUFFICES ASSUME NEW v \in o.asleep, NEW w \in o.asleep, v.kind = w.kind, v.m = w.m
               PROVE  v = w
    OBVIOUS
  <2>1. PICK a \in n.asleep : /\ v.kind = a.kind /\ v.m = a.m
                              /\ v = [a EXCEPT !.orphan = @ \/ a.m.SequenceID \in gone]
    BY <1>7
  <2>2. PICK b \in n.asleep : /\ w.kind = b.kind /\ w.m = b.m
                              /\ w = [b EXCEPT !.orphan = @ \/ b.m.SequenceID \in gone]
    BY <1>7
  <2>3. a = b
    BY <2>1, <2>2 DEF NodeOK, Mail
  <2> QED  BY <2>1, <2>2, <2>3
<1>9. Mail(o, viewchanges, newviews)
  BY <1>3, <1>6, <1>7, <1>8 DEF NodeOK, Mail
<1> QED  BY <1>2, <1>3, <1>4, <1>5, <1>9 DEF NodeOK

\* Holes reach no further than the stable checkpoint of the NEW-VIEW.
LEMMA FillHoleOK ==
  ASSUME NEW VC, NEW NV, NEW n, NodeOK(n, VC, NV), NEW min \in 0..MaxSeq,
         min = 0 \/ \E m \in VC : m.StableCheckPoint = min,
         \A m \in VC : m.StableCheckPoint \in 0..MaxSeq,
         NEW o, o = FillHole(n, min)
  PROVE  NodeOK(o, VC, NV)
<1> DEFINE first == Max(DOMAIN n.CommittedMsgs \cup {0})
           t == Max({n.TotalConsensus, min})
<1>1. MaxSeq \in Nat /\ min \in Nat
  BY ViewChangeAssumption
<1>2. /\ Touches(n, o, {"CommittedMsgs", "TotalConsensus"})
      /\ o.TotalConsensus = t
      /\ o.CommittedMsgs = Stored(n.CommittedMsgs, first..min, "hole")
  <2> HIDE DEF first, t
  <2>1. o = [n EXCEPT !.CommittedMsgs = Stored(@, first..min, "hole"), !.TotalConsensus = t]
    BY DEF FillHole, first, t
  <2> QED  BY <2>1 DEF NodeOK, Touches, NodeFields
<1>3. first \in 0..MaxSeq
  <2>1. DOMAIN n.CommittedMsgs \cup {0} \subseteq 0..MaxSeq
    BY <1>1 DEF NodeOK, Ledger
  <2> QED  BY <1>1, <2>1, HasMax
<1>4. t \in Nat
  <2>1. n.TotalConsensus \in Nat
    BY DEF NodeOK, Threads
  <2>2. {n.TotalConsensus, min} \subseteq 0..(n.TotalConsensus + min)
    BY <1>1, <2>1
  <2>3. n.TotalConsensus + min \in Nat
    BY <1>1, <2>1
  <2>4. t \in {n.TotalConsensus, min}
    BY <2>2, <2>3, HasMax
  <2> QED  BY <1>1, <2>1, <2>4
<1> HIDE DEF first, t
<1>5. /\ DOMAIN o.CommittedMsgs = DOMAIN n.CommittedMsgs \cup (first..min)
      /\ \A k \in first..min : o.CommittedMsgs[k] = "hole"
      /\ \A k \in DOMAIN n.CommittedMsgs \ (first..min) :
           o.CommittedMsgs[k] = n.CommittedMsgs[k]
  BY <1>2 DEF Stored
<1>6. View(o) /\ Collected(o, VC) /\ Mail(o, VC, NV)
  BY <1>2, TouchedParts
<1>7. /\ o.States = n.States /\ o.handler = n.handler /\ o.watch = n.watch
      /\ o.StableCheckPoint = n.StableCheckPoint /\ o.Committed = n.Committed
      /\ o.pairs = n.pairs /\ DOMAIN o = NodeFields
  BY <1>2 DEF Touches, NodeFields
<1>8. Threads(o)
  BY <1>2, <1>4, <1>7 DEF NodeOK, Threads
<1>9. \A k \in first..min : k \in 0..MaxSeq /\ (k # 0 => \E m \in VC : m.StableCheckPoint >= k)
  <2> SUFFICES ASSUME NEW k \in first..min
               PROVE  k \in 0..MaxSeq /\ (k # 0 => \E m \in VC : m.StableCheckPoint >= k)
    OBVIOUS
  <2>1. k \in 0..MaxSeq /\ k <= min /\ (min = 0 => k = 0)
    BY <1>1, <1>3
  <2> QED  BY <1>1, <2>1
<1>10. Ledger(o, VC)
  <2>1. DOMAIN o.CommittedMsgs \subseteq 0..MaxSeq
    BY <1>5, <1>9 DEF NodeOK, Ledger
  <2>2. ASSUME NEW k \in DOMAIN o.CommittedMsgs
        PROVE  \/ o.CommittedMsgs[k] = "block"
               \/ o.CommittedMsgs[k] = "hole"
                    /\ (k # 0 => \E m \in VC : m.StableCheckPoint >= k)
    <3>1. CASE k \in first..min
      BY <1>5, <1>9, <3>1
    <3>2. CASE k \notin first..min
      <4>1. k \in DOMAIN n.CommittedMsgs /\ o.CommittedMsgs[k] = n.CommittedMsgs[k]
        BY <1>5, <3>2
      <4> QED  BY <4>1 DEF NodeOK, Ledger
    <3> QED  BY <3>1, <3>2
  <2> QED  BY <1>7, <2>1, <2>2 DEF NodeOK, Ledger
<1> QED  BY <1>6, <1>7, <1>8, <1>10 DEF NodeOK

LEMMA ExecutedOK ==
  ASSUME NEW VC, NEW NV, NEW n, NodeOK(n, VC, NV), NEW s \in Seqs,
         NEW watch \in {"none", "running", "done"}, NEW o, o = Executed(n, s, watch)
  PROVE  NodeOK(o, VC, NV)
<1>0. DOMAIN n = NodeFields
  BY DEF NodeOK
<1>1. /\ Touches(n, o, {"CommittedMsgs", "Committed", "StableCheckPoint", "pairs", "handler",
                        "watch", "NextCandidateIdx", "ViewID"})
      /\ o.CommittedMsgs = Stored(n.CommittedMsgs, {s}, "block")
      /\ o.Committed = n.Committed \cup {s} /\ o.StableCheckPoint = s
      /\ o.pairs = n.pairs \ {s}
      /\ o.handler = [n.handler EXCEPT ![s] = IF @ = "run" THEN "told" ELSE @]
      /\ o.watch = [n.watch EXCEPT ![s] = watch]
      /\ o.NextCandidateIdx = IF s % participant = 0 THEN participant
                              ELSE n.NextCandidateIdx
      /\ o.ViewID = s % participant
  BY <1>0 DEF Executed, updateViewID, Touches, NodeFields
<1>2. Collected(o, VC) /\ Mail(o, VC, NV)
  BY <1>1, TouchedParts
<1>3. /\ o.States = n.States /\ o.TotalConsensus = n.TotalConsensus /\ DOMAIN o = NodeFields
  BY <1>1 DEF Touches, NodeFields
<1>4. Threads(o)
  BY <1>1, <1>3 DEF NodeOK, Threads
<1>5. participant \in Nat \ {0} /\ MaxSeq \in Nat /\ s \in Nat /\ s \in 0..MaxSeq
  BY ViewChangeAssumption DEF Seqs
<1>6. View(o)
  <2>1. s % participant \in 0..(participant - 1)
    BY <1>5
  <2> QED  BY <1>1, <1>5, <2>1 DEF NodeOK, View
<1>7. Ledger(o, VC)
  <2>1. /\ DOMAIN o.CommittedMsgs = DOMAIN n.CommittedMsgs \cup {s}
        /\ o.CommittedMsgs[s] = "block"
        /\ \A k \in DOMAIN n.CommittedMsgs \ {s} : o.CommittedMsgs[k] = n.CommittedMsgs[k]
    BY <1>1 DEF Stored
  <2> QED  BY <1>1, <1>5, <2>1 DEF NodeOK, Ledger
<1> QED  BY <1>2, <1>3, <1>4, <1>6, <1>7 DEF NodeOK

\* Old is what the handler has found before its sleep's end.
LEMMA BlockedOK ==
  ASSUME NEW VC, NEW NV, NEW n, NodeOK(n, VC, NV), NEW old, NodeOK(old, VC, NV), NEW w,
         w.m.SequenceID \in Seqs, NEW o, o = Blocked(n, old, w)
  PROVE  NodeOK(o, VC, NV)
<1> DEFINE s == w.m.SequenceID
<1>1. CASE \E l \in SUBSET (VC \cup NV) : o = [n EXCEPT !.late[s] = l]
  <2>1. PICK l \in SUBSET (VC \cup NV) : o = [n EXCEPT !.late[s] = l]
    BY <1>1
  <2>2. Touches(n, o, {"late"}) /\ o.late = [n.late EXCEPT ![s] = l]
    BY <2>1 DEF NodeOK, Touches, NodeFields
  <2>3. Threads(o) /\ Ledger(o, VC) /\ View(o) /\ Collected(o, VC)
    BY <2>2, TouchedParts
  <2>4. o.got = n.got /\ o.asleep = n.asleep /\ DOMAIN o = NodeFields
    BY <2>2 DEF Touches, NodeFields
  <2>5. Mail(o, VC, NV)
    BY <2>2, <2>4 DEF NodeOK, Mail
  <2> QED  BY <2>3, <2>4, <2>5 DEF NodeOK
<1>2. CASE o = [n EXCEPT !.handler[s] = "blocked"]
  <2>1. Touches(n, o, {"handler"}) /\ o.handler = [n.handler EXCEPT ![s] = "blocked"]
    BY <1>2 DEF NodeOK, Touches, NodeFields
  <2>2. Ledger(o, VC) /\ View(o) /\ Collected(o, VC) /\ Mail(o, VC, NV)
    BY <2>1, TouchedParts
  <2>3. /\ o.States = n.States /\ o.watch = n.watch /\ o.TotalConsensus = n.TotalConsensus
        /\ DOMAIN o = NodeFields
    BY <2>1 DEF Touches, NodeFields
  <2>4. Threads(o)
    BY <2>1, <2>3 DEF NodeOK, Threads
  <2> QED  BY <2>2, <2>3, <2>4 DEF NodeOK
<1>3. \/ \E l \in SUBSET (VC \cup NV) : o = [n EXCEPT !.late[s] = l]
      \/ o = [n EXCEPT !.handler[s] = "blocked"]
  <2>1. DOMAIN n = NodeFields /\ n.late[s] \subseteq VC \cup NV /\ old.late[s] \subseteq VC \cup NV
    BY DEF NodeOK, Mail
  <2>2. CASE w.orphan
    <3>1. o = [n EXCEPT !.late[s] = n.late[s] \ old.late[s]]
      BY <2>1, <2>2 DEF Blocked, NodeFields
    <3> QED  BY <2>1, <3>1
  <2>3. CASE ~w.orphan /\ s <= old.TotalConsensus
    BY <2>1, <2>3 DEF Blocked
  <2>4. CASE ~w.orphan /\ ~(s <= old.TotalConsensus)
    BY <2>4 DEF Blocked
  <2> QED  BY <2>2, <2>3, <2>4
<1> QED  BY <1>1, <1>2, <1>3

\* Fields that no part of the invariant is about.
LEMMA FlagsOK ==
  ASSUME NEW VC, NEW NV, NEW n, NodeOK(n, VC, NV), NEW o,
         Touches(n, o, {"IsViewChanging", "executing", "down"})
  PROVE  NodeOK(o, VC, NV)
<1>1. Threads(o) /\ Ledger(o, VC) /\ View(o) /\ Collected(o, VC) /\ Mail(o, VC, NV)
  BY TouchedParts
<1> QED  BY <1>1 DEF NodeOK, Touches

LEMMA CandidateOK ==
  ASSUME NEW VC, NEW NV, NEW n, NodeOK(n, VC, NV), NEW idx \in Nat,
         NEW o, o = [n EXCEPT !.NextCandidateIdx = idx]
  PROVE  NodeOK(o, VC, NV)
<1>1. /\ Touches(n, o, {"NextCandidateIdx"}) /\ o.NextCandidateIdx = idx
      /\ o.ViewID = n.ViewID /\ DOMAIN o = NodeFields
  BY DEF NodeOK, Touches, NodeFields
<1>2. Threads(o) /\ Ledger(o, VC) /\ Collected(o, VC) /\ Mail(o, VC, NV)
  BY <1>1, TouchedParts
<1> QED  BY <1>1, <1>2 DEF NodeOK, View

LEMMA CheckpointOK ==
  ASSUME NEW VC, NEW NV, NEW n, NodeOK(n, VC, NV), NEW c \in 0..MaxSeq,
         NEW o, o = [n EXCEPT !.StableCheckPoint = c]
  PROVE  NodeOK(o, VC, NV)
<1>1. /\ Touches(n, o, {"StableCheckPoint"}) /\ o.StableCheckPoint = c
      /\ o.CommittedMsgs = n.CommittedMsgs /\ o.Committed = n.Committed
      /\ o.pairs = n.pairs /\ DOMAIN o = NodeFields
  BY DEF NodeOK, Touches, NodeFields
<1>2. Threads(o) /\ View(o) /\ Collected(o, VC) /\ Mail(o, VC, NV)
  BY <1>1, TouchedParts
<1>3. Ledger(o, VC)
  BY <1>1 DEF NodeOK, Ledger
<1> QED  BY <1>1, <1>2, <1>3 DEF NodeOK

LEMMA VCStatesOK ==
  ASSUME NEW VC, NEW NV, NEW n, NodeOK(n, VC, NV), NEW s \in Seqs, NEW v,
         VCStateOK(v, s, VC), NEW o, o = [n EXCEPT !.VCStates[s] = v]
  PROVE  NodeOK(o, VC, NV) /\ o.asleep = n.asleep /\ o.got = n.got
<1>1. /\ Touches(n, o, {"VCStates"}) /\ o.VCStates = [n.VCStates EXCEPT ![s] = v]
      /\ o.asleep = n.asleep /\ o.got = n.got /\ DOMAIN o = NodeFields
  BY DEF NodeOK, Touches, NodeFields
<1>2. Threads(o) /\ Ledger(o, VC) /\ View(o) /\ Mail(o, VC, NV)
  BY <1>1, TouchedParts
<1>3. Collected(o, VC)
  BY <1>1 DEF NodeOK, Collected
<1> QED  BY <1>1, <1>2, <1>3 DEF NodeOK

\* The first message of a sender is one sender more.
LEMMA ViewChangeOK ==
  ASSUME NEW VC, NEW s \in Seqs, NEW old, VCStateOK(old, s, VC), old.NextCandidateIdx \in Nat,
         NEW m \in VC, m.SequenceID = s,
         NEW v, v = [ViewChange(old, m) EXCEPT !.msgSent = @ \/ Answers(old, m)]
  PROVE  /\ VCStateOK(v, s, VC) /\ v.NextCandidateIdx \in Nat
         /\ Answers(old, m) => Cardinality(Senders(v.ViewChangeMsgs)) >= Quorum
<1> DEFINE V == old.ViewChangeMsgs
           W == ViewChange(old, m).ViewChangeMsgs
<1>1. /\ DOMAIN v = {"NextCandidateIdx", "ViewChangeMsgs", "msgSent"}
      /\ v.NextCandidateIdx = old.NextCandidateIdx /\ v.ViewChangeMsgs = W
      /\ W = IF m.NodeID \in Senders(V) THEN V ELSE V \cup {m}
  BY DEF ViewChange, VCStateOK
<1>2. OnePerSender(V) /\ V \subseteq {c \in VC : c.SequenceID = s}
  BY DEF VCStateOK
<1> HIDE DEF V, W
<1>3. OnePerSender(W) /\ W \subseteq {c \in VC : c.SequenceID = s}
  <2>1. CASE m.NodeID \in Senders(V)
    BY <1>1, <1>2, <2>1
  <2>2. CASE m.NodeID \notin Senders(V)
    <3>1. W = V \cup {m} /\ m \notin V /\ Senders(W) = Senders(V) \cup {m.NodeID}
      BY <1>1, <2>2 DEF Senders
    <3>2. IsFiniteSet(W) /\ Cardinality(W) = Cardinality(V) + 1
      BY <1>2, <3>1, FS_AddElement DEF OnePerSender
    <3>3. IsFiniteSet(Senders(W)) /\ Cardinality(Senders(W)) = Cardinality(Senders(V)) + 1
      <4> DEFINE T == Senders(V)
                 x == m.NodeID
      <4>1. IsFiniteSet(T) /\ x \notin T /\ Senders(W) = T \cup {x}
        BY <1>2, <2>2, <3>1 DEF OnePerSender
      <4> HIDE DEF T, x
      <4>2. IsFiniteSet(T \cup {x}) /\ Cardinality(T \cup {x}) = Cardinality(T) + 1
        BY <4>1, FS_AddElement
      <4> QED  BY <4>1, <4>2 DEF T
    <3> QED  BY <1>2, <3>1, <3>2, <3>3 DEF OnePerSender
  <2> QED  BY <2>1, <2>2
<1>4. VCStateOK(v, s, VC)
  BY <1>1, <1>3 DEF VCStateOK
<1>5. Answers(old, m) => Cardinality(Senders(v.ViewChangeMsgs)) >= Quorum
  <2> SUFFICES ASSUME Answers(old, m) PROVE Cardinality(Senders(W)) >= Quorum
    BY <1>1
  <2>1. Cardinality(W) >= Quorum
    BY DEF Answers, W
  <2> QED  BY <1>3, <2>1 DEF OnePerSender
<1> QED  BY <1>1, <1>4, <1>5

\* FindStableCheckpoint finds the highest.
LEMMA AnnouncedOK ==
  ASSUME NEW VC, VC \subseteq ViewChangeMsg, NEW m, Draft(m, VC), NEW a, a = Announced(m)
  PROVE  Draft(a, VC) /\ Claimed(a)
<1> DEFINE S == {c.StableCheckPoint : c \in m.SetViewChangeMsgs} \cup {0}
<1>1. MaxSeq \in Nat
  BY ViewChangeAssumption
<1>2. \A c \in m.SetViewChangeMsgs : c.StableCheckPoint \in 0..MaxSeq
  BY DEF Draft, ViewChangeMsg
<1>3. S \subseteq 0..MaxSeq /\ S # {}
  BY <1>1, <1>2
<1>4. Max(S) \in S /\ \A y \in S : y <= Max(S)
  <2> HIDE DEF S
  <2> QED  BY <1>1, <1>3, HasMax
<1>5. FindStableCheckpoint(m) = Max(S)
  BY DEF FindStableCheckpoint
<1>6. /\ DOMAIN a = DOMAIN m /\ a.SequenceID = m.SequenceID
      /\ a.NextCandidateIdx = m.NextCandidateIdx
      /\ a.SetViewChangeMsgs = m.SetViewChangeMsgs /\ a.Min_S = Max(S)
  <2> HIDE DEF S
  <2> QED  BY <1>5 DEF Announced, Draft
<1>7. Draft(a, VC)
  BY <1>6 DEF Draft
<1>8. Claimed(a)
  <2>1. \A c \in m.SetViewChangeMsgs : c.StableCheckPoint <= Max(S)
    BY <1>4
  <2>2. Max(S) = 0 \/ \E c \in m.SetViewChangeMsgs : c.StableCheckPoint = Max(S)
    <3>1. \A y \in S : y = 0 \/ \E c \in m.SetViewChangeMsgs : c.StableCheckPoint = y
      OBVIOUS
    <3> HIDE DEF S
    <3> QED  BY <1>4, <3>1
  <2>3. Max(S) \in 0..MaxSeq
    <3> HIDE DEF S
    <3> QED  BY <1>3, <1>4
  <2> HIDE DEF S
  <2> QED  BY <1>6, <2>1, <2>2, <2>3 DEF Claimed
<1> QED  BY <1>7, <1>8

------------------------------------------------------------------------------
(* Every step keeps the nodes and the NEW-VIEWs sound.                      *)

LEMMA StepSound ==
  ASSUME IInv, Sound, NEW i \in Learners, NEW o, Put(i, o),
         viewchanges \subseteq viewchanges', viewchanges' \subseteq ViewChangeMsg,
         newviews \subseteq newviews',
         \A m \in newviews' : Draft(m, viewchanges') /\ Claimed(m),
         NodeOK(o, viewchanges', newviews')
  PROVE  Sound'
<1>1. \A j \in Learners : NodeOK(node'[j], viewchanges', newviews')
  <2>1. /\ node'[i] = o /\ \A j \in Learners \ {i} : node'[j] = node[j]
    BY DEF IInv, Put
  <2>2. \A j \in Learners : NodeOK(node[j], viewchanges', newviews')
    BY NodeOKGrows DEF Sound
  <2> QED  BY <2>1, <2>2
<1>2. \A j \in Learners : NodeOK(node[j], viewchanges, newviews)'
  <2> SUFFICES ASSUME NEW j \in Learners PROVE NodeOK(node[j], viewchanges, newviews)'
    OBVIOUS
  <2>1. NodeOK(node'[j], viewchanges', newviews')
    BY <1>1
  <2> QED
    BY <2>1 DEF NodeOK, Threads, Ledger, View, Collected, VCStateOK, OnePerSender, Senders,
                Mail, Sleeper, Draft
<1>3. \A m \in newviews' : (Draft(m, viewchanges) /\ Claimed(m))'
  BY DEF Draft, Claimed, Senders
<1> QED  BY <1>2, <1>3 DEF Sound

LEMMA QuietStepSound ==
  ASSUME IInv, Sound, NEW i \in Learners, NEW o, Put(i, o),
         UNCHANGED <<viewchanges, newviews>>, NodeOK(o, viewchanges, newviews)
  PROVE  Sound'
<1>1. /\ viewchanges' = viewchanges /\ newviews' = newviews
      /\ viewchanges \subseteq ViewChangeMsg
      /\ \A m \in newviews : Draft(m, viewchanges) /\ Claimed(m)
  BY DEF Sound
<1> QED  BY <1>1, StepSound

LEMMA GetViewChangeSound ==
  ASSUME IInv, Sound, NEW i \in Learners, NEW m \in viewchanges, NEW orphan \in BOOLEAN,
         GetViewChange(i, m, orphan)
  PROVE  Sound'
<1> DEFINE s   == m.SequenceID
           h   == Handler(i, m, orphan)
           n   == CreateVCState(h, s)
           old == n.VCStates[s]
           vcs == [ViewChange(old, m) EXCEPT !.msgSent = @ \/ Answers(old, m)]
           nn  == [n EXCEPT !.VCStates[s] = vcs]
           M   == NewViewMsg(i, s, vcs)
           z   == Sleep(nn, "viewchange", M, orphan)
           p   == getPrimaryInfoByID(nn, nn.NextCandidateIdx)
<1>1. s \in Seqs /\ NodeOK(node[i], viewchanges, newviews) /\ NodeInv(node[i], i, newviews)
  BY DEF IInv, Sound
<1>2. /\ NodeOK(h, viewchanges, newviews)
      /\ h.asleep = node[i].asleep /\ h.VCStates = node[i].VCStates
  <2>1. m \in viewchanges \cup newviews
    OBVIOUS
  <2> QED  BY <1>1, <2>1, HandlerOK
<1>3. /\ NodeOK(n, viewchanges, newviews) /\ old.NextCandidateIdx \in Nat
      /\ n.asleep = h.asleep /\ old.msgSent = h.VCStates[s].msgSent
  <2> HIDE DEF h
  <2>1. NodeOK(n, viewchanges, newviews) /\ old.NextCandidateIdx \in Nat
    BY <1>1, <1>2, CreateVCStateOK
  <2>2. Touches(h, n, {"VCStates"})
    BY <1>2, CreateVCStateTouches DEF NodeOK
  <2>3. n.asleep = h.asleep
    BY <2>2 DEF Touches, NodeFields
  <2>4. old.msgSent = h.VCStates[s].msgSent
    BY <1>1, <1>2 DEF CreateVCState, NodeOK, Collected, VCStateOK, NodeFields
  <2> QED  BY <2>1, <2>3, <2>4
<1>4. /\ VCStateOK(vcs, s, viewchanges) /\ vcs.NextCandidateIdx \in Nat
      /\ Answers(old, m) => Cardinality(Senders(vcs.ViewChangeMsgs)) >= Quorum
  <2>1. VCStateOK(old, s, viewchanges)
    BY <1>1, <1>3 DEF NodeOK, Collected
  <2> HIDE DEF old
  <2> QED  BY <1>1, <1>3, <2>1, ViewChangeOK
<1>5. NodeOK(nn, viewchanges, newviews) /\ nn.asleep = n.asleep
  <2> HIDE DEF n, vcs
  <2> QED  BY <1>1, <1>3, <1>4, VCStatesOK
<1>6. CASE Put(i, p)
  <2>1. NodeOK(p, viewchanges, newviews)
    <3> HIDE DEF nn
    <3> QED  BY <1>5, getPrimaryOK
  <2>2. UNCHANGED <<viewchanges, newviews>>
    BY DEF GetViewChange
  <2> HIDE DEF p
  <2> QED  BY <1>6, <2>1, <2>2, QuietStepSound
<1>7. CASE Answers(old, m) /\ Put(i, z)
  <2>1. Draft(M, viewchanges) /\ M.SequenceID = s
    <3>1. /\ DOMAIN M = {"NodeID", "SequenceID", "NextCandidateIdx", "SetViewChangeMsgs",
                         "Min_S"}
          /\ M.SequenceID = s /\ M.NextCandidateIdx = vcs.NextCandidateIdx
          /\ M.SetViewChangeMsgs = vcs.ViewChangeMsgs
      <4> HIDE DEF vcs
      <4> QED  BY DEF NewViewMsg
    <3> HIDE DEF M, vcs
    <3> QED  BY <1>1, <1>4, <1>7, <3>1 DEF Draft, VCStateOK
  <2>2. \A v \in nn.asleep : ~(v.kind = "viewchange" /\ v.m = M)
    <3> SUFFICES ASSUME NEW v \in node[i].asleep, v.kind = "viewchange", v.m = M
                 PROVE  FALSE
      BY <1>2, <1>3, <1>5
    <3>1. v.m \in Held(node[i])
      BY DEF Held
    <3>2. node[i].VCStates[s].msgSent
      <4> HIDE DEF M
      <4> QED  BY <1>1, <2>1, <3>1 DEF NodeInv
    <3>3. ~old.msgSent
      BY <1>7 DEF Answers
    <3> QED  BY <1>2, <1>3, <3>2, <3>3
  <2>3. NodeOK(z, viewchanges, newviews)
    <3> HIDE DEF nn, M
    <3> QED  BY <1>5, <2>1, <2>2, SleepOK
  <2>4. UNCHANGED <<viewchanges, newviews>>
    BY DEF GetViewChange
  <2> HIDE DEF z
  <2> QED  BY <1>7, <2>3, <2>4, QuietStepSound
<1> HIDE DEF p, z
<1>8. \/ Answers(old, m) /\ Put(i, z)
      \/ ~Answers(old, m) /\ Put(i, p)
  BY DEF GetViewChange, p, z
<1> QED  BY <1>6, <1>7, <1>8

LEMMA GetNewViewSound ==
  ASSUME IInv, Sound, NEW i \in Learners, NEW m \in newviews, NEW orphan \in BOOLEAN,
         GetNewView(i, m, orphan)
  PROVE  Sound'
<1> DEFINE h == Handler(i, m, orphan)
           z == Sleep(h, "newview", m, orphan)
<1>1. /\ m.SequenceID \in Seqs /\ NodeOK(node[i], viewchanges, newviews)
      /\ Draft(m, viewchanges)
  BY DEF IInv, Sound
<1>2. /\ NodeOK(h, viewchanges, newviews)
      /\ h.asleep = node[i].asleep /\ h.got = node[i].got \cup {m}
  <2>1. m \in viewchanges \cup newviews
    OBVIOUS
  <2> QED  BY <1>1, <2>1, HandlerOK
<1>3. \A v \in h.asleep : ~(v.kind = "newview" /\ v.m = m)
  <2>1. m \notin node[i].got
    BY DEF GetNewView, MayHandle
  <2> QED  BY <1>1, <1>2, <2>1 DEF NodeOK, Mail, Sleeper
<1>4. NodeOK(z, viewchanges, newviews)
  <2> HIDE DEF h
  <2> QED  BY <1>1, <1>2, <1>3, SleepOK
<1>5. Put(i, z) /\ UNCHANGED <<viewchanges, newviews>>
  BY DEF GetNewView
<1> HIDE DEF z
<1> QED  BY <1>4, <1>5, QuietStepSound

LEMMA RollbackForQuorumSound ==
  ASSUME IInv, Sound, NEW i \in Learners, NEW w \in node[i].asleep, RollbackForQuorum(i, w)
  PROVE  Sound'
<1> DEFINE a == Awake(i, w)
           n == Rollback(a, w.m.SequenceID)
           p == getPrimaryInfoByID(n, n.NextCandidateIdx)
<1>1. NodeOK(node[i], viewchanges, newviews) /\ Draft(w.m, viewchanges)
      /\ w.m.SequenceID \in Seqs
  BY DEF Sound, NodeOK, Mail, Sleeper, Draft
<1>2. NodeOK(p, viewchanges, newviews)
  <2>1. NodeOK(a, viewchanges, newviews)
    BY <1>1, AwakeOK
  <2>2. NodeOK(n, viewchanges, newviews)
    <3> HIDE DEF a
    <3> QED  BY <1>1, <2>1, RollbackOK
  <2> HIDE DEF n
  <2> QED  BY <2>2, getPrimaryOK
<1> HIDE DEF p
<1>3. Put(i, p) /\ viewchanges' = viewchanges
  BY DEF RollbackForQuorum, p
<1>4. CASE newviews' = newviews
  BY <1>2, <1>3, <1>4, QuietStepSound
<1>5. CASE newviews' = newviews \cup {Announced(w.m)}
  <2>1. Draft(Announced(w.m), viewchanges) /\ Claimed(Announced(w.m))
    BY <1>1, AnnouncedOK DEF Sound
  <2>2. \A m \in newviews' : Draft(m, viewchanges') /\ Claimed(m)
    BY <1>3, <1>5, <2>1 DEF Sound
  <2>3. newviews \subseteq newviews' /\ viewchanges \subseteq viewchanges'
        /\ viewchanges' \subseteq ViewChangeMsg
    BY <1>3, <1>5 DEF Sound
  <2>4. NodeOK(p, viewchanges', newviews')
    BY <1>2, <2>3, NodeOKGrows
  <2> QED  BY <1>3, <2>2, <2>3, <2>4, StepSound
<1> QED
  BY <1>4, <1>5 DEF RollbackForQuorum, Announced

LEMMA InstallNewViewSound ==
  ASSUME IInv, Sound, NEW i \in Learners, NEW w \in node[i].asleep, InstallNewView(i, w)
  PROVE  Sound'
<1> DEFINE s   == w.m.SequenceID
           idx == w.m.NextCandidateIdx
           a   == Awake(i, w)
           n0  == Rollback(a, s)
           n1  == [n0 EXCEPT !.NextCandidateIdx = idx]
           k1  == CreateVCState(n1, s)
           n2  == FillHole(k1, w.m.Min_S)
           c2  == [n2 EXCEPT !.StableCheckPoint = w.m.Min_S]
           n3  == updateViewID(c2, s - 1)
           g4  == getPrimaryInfoByID(n3, idx)
           n4  == [g4 EXCEPT !.NextCandidateIdx = AfterNewView(s, @)]
           t5  == StartThreadIfNotExists(n4, s)
           n5  == [t5 EXCEPT !.IsViewChanging = FALSE]
           b   == Blocked(n5, node[i], w)
           OK(n) == NodeOK(n, viewchanges, newviews)
<1>1. OK(node[i]) /\ s \in Seqs /\ idx \in Nat /\ Claimed(w.m)
      /\ w.m.SetViewChangeMsgs \subseteq viewchanges
  <2>1. w.kind = "newview"
    BY DEF InstallNewView
  <2> QED  BY <2>1 DEF Sound, NodeOK, Mail, Sleeper, Draft
<1>2. /\ w.m.Min_S \in 0..MaxSeq
      /\ w.m.Min_S = 0 \/ \E m \in viewchanges : m.StableCheckPoint = w.m.Min_S
      /\ \A m \in viewchanges : m.StableCheckPoint \in 0..MaxSeq
  BY <1>1 DEF Claimed, Sound, ViewChangeMsg
<1>3. OK(n0)
  <2>1. OK(a)
    BY <1>1, AwakeOK
  <2> HIDE DEF a
  <2> QED  BY <1>1, <2>1, RollbackOK
<1>4. OK(k1)
  <2> HIDE DEF n0, idx
  <2>1. OK(n1)
    BY <1>1, <1>3, CandidateOK
  <2> HIDE DEF n1
  <2> QED  BY <1>1, <2>1, CreateVCStateOK
<1>5. OK(c2)
  <2> HIDE DEF k1
  <2>1. OK(n2)
    BY <1>2, <1>4, FillHoleOK
  <2> HIDE DEF n2
  <2> QED  BY <1>2, <2>1, CheckpointOK
<1>6. OK(g4)
  <2> HIDE DEF c2, s
  <2>1. s - 1 \in Nat
    BY <1>1 DEF Seqs
  <2>2. OK(n3)
    BY <1>5, <2>1, updateViewIDOK
  <2> HIDE DEF n3
  <2> QED  BY <2>2, getPrimaryOK
<1>7. OK(n4)
  <2> HIDE DEF g4, s
  <2>1. g4.NextCandidateIdx \in Nat
    BY <1>6 DEF NodeOK, View
  <2>2. AfterNewView(s, g4.NextCandidateIdx) \in Nat
    BY <2>1, ViewChangeAssumption DEF AfterNewView
  <2> QED  BY <1>6, <2>2, CandidateOK
<1>8. OK(n5)
  <2> HIDE DEF n4
  <2>1. OK(t5)
    BY <1>1, <1>7, StartThreadOK
  <2> HIDE DEF t5
  <2>2. Touches(t5, n5, {"IsViewChanging", "executing", "down"})
    BY <2>1 DEF NodeOK, Touches, NodeFields
  <2> QED  BY <2>1, <2>2, FlagsOK
<1>9. OK(b)
  <2> HIDE DEF n5
  <2> QED  BY <1>1, <1>8, BlockedOK
<1>10. Put(i, IF idx = i THEN b ELSE n5) /\ UNCHANGED <<viewchanges, newviews>>
  BY DEF InstallNewView
<1> HIDE DEF b, n5
<1>11. OK(IF idx = i THEN b ELSE n5)
  BY <1>8, <1>9
<1> QED
  BY <1>10, <1>11, QuietStepSound

\* The other nodes, too, announce what rests on a quorum.
LEMMA OtherNewViewSound ==
  ASSUME IInv, Sound, OtherNewView
  PROVE  Sound'
<1>1. \E M : newviews' = newviews \cup {M} /\ Draft(M, viewchanges) /\ Claimed(M)
  <2>1. PICK s \in Seqs, j \in (Nodes \ Learners) \cap Candidates, idx \in Nodes \cap Candidates :
          LET All  == {NewViewMsg(j, s, [NextCandidateIdx |-> idx, ViewChangeMsgs |-> V]) :
                        V \in kSubset(Quorum, {m \in viewchanges : m.SequenceID = s})}
              Ready == {[m EXCEPT !.Min_S = FindStableCheckpoint(m)] :
                         m \in {o \in All : Cardinality(Senders(o.SetViewChangeMsgs)) = Quorum}}
          IN /\ \A o \in newviews : ~(o.NodeID = j /\ o.SequenceID = s)
             /\ \E cp \in {m.Min_S : m \in Ready} :
                  newviews' = newviews \cup {CHOOSE m \in Ready : m.Min_S = cp}
    BY Zenon DEF OtherNewView
  <2> DEFINE All   == {NewViewMsg(j, s, [NextCandidateIdx |-> idx, ViewChangeMsgs |-> V]) :
                        V \in kSubset(Quorum, {m \in viewchanges : m.SequenceID = s})}
             Ready == {[m EXCEPT !.Min_S = FindStableCheckpoint(m)] :
                        m \in {o \in All : Cardinality(Senders(o.SetViewChangeMsgs)) = Quorum}}
  <2>2. idx \in Nat /\ Quorum \in Nat
    BY ViewChangeAssumption DEF Nodes, Quorum, F
  <2>3. \A m \in All : Cardinality(Senders(m.SetViewChangeMsgs)) = Quorum =>
                         Draft(m, viewchanges)
    <3> SUFFICES ASSUME NEW V \in kSubset(Quorum, {m \in viewchanges : m.SequenceID = s}),
                        NEW m,
                        m = NewViewMsg(j, s, [NextCandidateIdx |-> idx, ViewChangeMsgs |-> V]),
                        Cardinality(Senders(m.SetViewChangeMsgs)) = Quorum
                 PROVE  Draft(m, viewchanges)
      OBVIOUS
    <3>1. V \subseteq {c \in viewchanges : c.SequenceID = s}
      BY DEF kSubset
    <3>2. /\ DOMAIN m = {"NodeID", "SequenceID", "NextCandidateIdx", "SetViewChangeMsgs",
                         "Min_S"}
          /\ m.SequenceID = s /\ m.NextCandidateIdx = idx /\ m.SetViewChangeMsgs = V
      BY DEF NewViewMsg
    <3> QED  BY <2>2, <3>1, <3>2 DEF Draft
  <2>4. \A a \in Ready : Draft(a, viewchanges) /\ Claimed(a)
    <3> HIDE DEF All
    <3> SUFFICES ASSUME NEW m \in All, Cardinality(Senders(m.SetViewChangeMsgs)) = Quorum,
                        NEW a, a = [m EXCEPT !.Min_S = FindStableCheckpoint(m)]
                 PROVE  Draft(a, viewchanges) /\ Claimed(a)
      OBVIOUS
    <3>1. Draft(m, viewchanges) /\ viewchanges \subseteq ViewChangeMsg /\ a = Announced(m)
      BY <2>3 DEF Sound, Announced
    <3> QED  BY <3>1, AnnouncedOK
  <2>5. PICK cp \in {m.Min_S : m \in Ready} :
          newviews' = newviews \cup {CHOOSE m \in Ready : m.Min_S = cp}
    BY <2>1
  <2> HIDE DEF Ready
  <2> QED  BY <2>4, <2>5
<1>2. PICK M : newviews' = newviews \cup {M} /\ Draft(M, viewchanges) /\ Claimed(M)
  BY <1>1
<1>3. UNCHANGED <<node, viewchanges>>
  BY DEF OtherNewView
<1>4. \A j \in Learners : NodeOK(node[j], viewchanges, newviews')
  <2>1. newviews \subseteq newviews'
    BY <1>2
  <2> QED  BY <2>1, NodeOKGrows DEF Sound
<1>5. \A j \in Learners : NodeOK(node[j], viewchanges, newviews)'
  <2> SUFFICES ASSUME NEW j \in Learners PROVE NodeOK(node[j], viewchanges, newviews)'
    OBVIOUS
  <2>1. NodeOK(node'[j], viewchanges', newviews')
    BY <1>3, <1>4
  <2> QED
    BY <2>1 DEF NodeOK, Threads, Ledger, View, Collected, VCStateOK, OnePerSender, Senders,
                Mail, Sleeper, Draft
<1>6. \A m \in newviews' : (Draft(m, viewchanges) /\ Claimed(m))'
  <2>1. \A m \in newviews' : Draft(m, viewchanges') /\ Claimed(m)
    BY <1>2, <1>3 DEF Sound
  <2> QED  BY <2>1 DEF Draft, Claimed, Senders
<1> QED  BY <1>3, <1>5, <1>6 DEF Sound

LEMMA NextSound ==
  ASSUME IInv, Sound, [Next]_vars
  PROVE  Sound'
<1>0. CASE UNCHANGED vars
  <2>1. UNCHANGED <<node, viewchanges, newviews>>
    BY <1>0 DEF vars
  <2>2. \A j \in Learners : NodeOK(node[j], viewchanges, newviews)'
    <3> SUFFICES ASSUME NEW j \in Learners PROVE NodeOK(node[j], viewchanges, newviews)'
      OBVIOUS
    <3>1. NodeOK(node'[j], viewchanges', newviews')
      BY <2>1 DEF Sound
    <3> QED
      BY <3>1 DEF NodeOK, Threads, Ledger, View, Collected, VCStateOK, OnePerSender, Senders,
                  Mail, Sleeper, Draft
  <2>3. \A m \in newviews' : (Draft(m, viewchanges) /\ Claimed(m))'
    BY <2>1 DEF Sound, Draft, Claimed, Senders
  <2> QED  BY <2>1, <2>2, <2>3 DEF Sound
<1>n. \A i \in Learners : NodeOK(node[i], viewchanges, newviews)
  BY DEF Sound
<1>1. ASSUME NEW i \in Learners, NEW s \in Seqs, StartThread(i, s) PROVE Sound'
  <2> DEFINE o == StartThreadIfNotExists(node[i], s)
  <2>1. NodeOK(o, viewchanges, newviews)
    BY <1>n, StartThreadOK
  <2>2. Put(i, o) /\ UNCHANGED <<viewchanges, newviews>>
    BY <1>1 DEF StartThread
  <2> HIDE DEF o
  <2> QED  BY <2>1, <2>2, QuietStepSound
<1>2. ASSUME NEW i \in Learners, NEW s \in Seqs, StartViewChange(i, s) PROVE Sound'
  <2> DEFINE n == node[i]
             o == [n EXCEPT !.watch[s] = "done"]
             m == [NodeID |-> i, SequenceID |-> s, StableCheckPoint |-> n.StableCheckPoint]
  <2>1. Touches(n, o, {"watch"}) /\ o.watch = [n.watch EXCEPT ![s] = "done"]
    BY <1>n DEF NodeOK, Touches, NodeFields
  <2>2. NodeOK(o, viewchanges, newviews)
    <3>1. Ledger(o, viewchanges) /\ View(o) /\ Collected(o, viewchanges)
          /\ Mail(o, viewchanges, newviews)
      BY <1>n, <2>1, TouchedParts
    <3>2. /\ o.States = n.States /\ o.handler = n.handler
          /\ o.TotalConsensus = n.TotalConsensus /\ DOMAIN o = NodeFields
      BY <2>1 DEF Touches, NodeFields
    <3>3. Threads(o)
      BY <1>n, <2>1, <3>2 DEF NodeOK, Threads
    <3> QED  BY <3>1, <3>2, <3>3 DEF NodeOK
  <2>3. m \in ViewChangeMsg
    BY <1>n, ViewChangeAssumption DEF NodeOK, Ledger, ViewChangeMsg
  <2>4. Put(i, o) /\ viewchanges' = viewchanges \cup {m} /\ newviews' = newviews
    BY <1>2 DEF StartViewChange
  <2> HIDE DEF o, m
  <2>5. viewchanges' \subseteq ViewChangeMsg /\ newviews \subseteq newviews'
        /\ viewchanges \subseteq viewchanges'
    BY <2>3, <2>4 DEF Sound
  <2>6. \A a \in newviews' : Draft(a, viewchanges') /\ Claimed(a)
    BY <2>4, <2>5 DEF Sound, Draft
  <2>7. NodeOK(o, viewchanges', newviews')
    BY <2>2, <2>5, NodeOKGrows
  <2> QED  BY <2>4, <2>5, <2>6, <2>7, StepSound
<1>3. ASSUME NEW i \in Learners, NEW s \in Seqs, Decide(i, s) PROVE Sound'
  <2> DEFINE n == node[i]
             o == [n EXCEPT !.pairs = @ \cup {s}, !.executing = TRUE]
  <2>1. Touches(n, o, {"pairs", "executing"}) /\ o.pairs = n.pairs \cup {s}
    BY <1>n DEF NodeOK, Touches, NodeFields
  <2>2. NodeOK(o, viewchanges, newviews)
    <3>1. Threads(o) /\ View(o) /\ Collected(o, viewchanges) /\ Mail(o, viewchanges, newviews)
      BY <1>n, <2>1, TouchedParts
    <3>2. /\ o.CommittedMsgs = n.CommittedMsgs /\ o.Committed = n.Committed
          /\ o.StableCheckPoint = n.StableCheckPoint /\ DOMAIN o = NodeFields
      BY <2>1 DEF Touches, NodeFields
    <3>3. Ledger(o, viewchanges)
      BY <1>n, <2>1, <3>2 DEF NodeOK, Ledger
    <3> QED  BY <3>1, <3>2, <3>3 DEF NodeOK
  <2>3. Put(i, o) /\ UNCHANGED <<viewchanges, newviews>>
    BY <1>3 DEF Decide
  <2> HIDE DEF o
  <2> QED  BY <2>2, <2>3, QuietStepSound
<1>4. ASSUME NEW i \in Learners, ExecuteNext(i) PROVE Sound'
  <2> DEFINE n == node[i]
             s == LastSequenceID(n) + 1
  <2>1. NodeOK(n, viewchanges, newviews)
    BY <1>n
  <2>2. UNCHANGED <<viewchanges, newviews>>
    BY <1>4 DEF ExecuteNext
  <2>3. CASE \E yes \in BOOLEAN : Put(i, [n EXCEPT !.down = yes])
    <3>1. PICK yes : Put(i, [n EXCEPT !.down = yes])
      BY <2>3
    <3>2. Touches(n, [n EXCEPT !.down = yes], {"IsViewChanging", "executing", "down"})
      BY <2>1 DEF NodeOK, Touches, NodeFields
    <3>3. NodeOK([n EXCEPT !.down = yes], viewchanges, newviews)
      BY <2>1, <3>2, FlagsOK
    <3> QED  BY <2>2, <3>1, <3>3, QuietStepSound
  <2>4. CASE \E no \in BOOLEAN : Put(i, [n EXCEPT !.executing = no])
    <3>1. PICK no : Put(i, [n EXCEPT !.executing = no])
      BY <2>4
    <3>2. Touches(n, [n EXCEPT !.executing = no], {"IsViewChanging", "executing", "down"})
      BY <2>1 DEF NodeOK, Touches, NodeFields
    <3>3. NodeOK([n EXCEPT !.executing = no], viewchanges, newviews)
      BY <2>1, <3>2, FlagsOK
    <3> QED  BY <2>2, <3>1, <3>3, QuietStepSound
  <2>5. CASE s \in n.pairs /\ \E watch \in {n.watch[s], "done"} : Put(i, Executed(n, s, watch))
    <3>1. PICK watch \in {n.watch[s], "done"} : Put(i, Executed(n, s, watch))
      BY <2>5
    <3> HIDE DEF s
    <3>2. s \in Seqs
      BY <2>1, <2>5 DEF NodeOK, Ledger
    <3>3. watch \in {"none", "running", "done"}
      BY <2>1, <3>2 DEF NodeOK, Threads
    <3>4. NodeOK(Executed(n, s, watch), viewchanges, newviews)
      BY <2>1, <3>2, <3>3, ExecutedOK
    <3> QED  BY <2>2, <3>1, <3>4, QuietStepSound
  <2> QED
    BY <1>4, <2>3, <2>4, <2>5 DEF ExecuteNext
<1>5. ASSUME NEW i \in Learners, NEW m \in viewchanges, NEW orphan \in BOOLEAN,
             GetViewChange(i, m, orphan)
      PROVE  Sound'
  BY <1>5, GetViewChangeSound
<1>6. ASSUME NEW i \in Learners, NEW m \in newviews, NEW orphan \in BOOLEAN,
             GetNewView(i, m, orphan)
      PROVE  Sound'
  BY <1>6, GetNewViewSound
<1>7. ASSUME NEW i \in Learners, NEW w \in node[i].asleep, RollbackForQuorum(i, w)
      PROVE  Sound'
  BY <1>7, RollbackForQuorumSound
<1>8. ASSUME NEW i \in Learners, NEW w \in node[i].asleep, InstallNewView(i, w)
      PROVE  Sound'
  BY <1>8, InstallNewViewSound
<1>9. ASSUME OtherNewView PROVE Sound'
  BY <1>9, OtherNewViewSound
<1> QED
  BY <1>0, <1>1, <1>2, <1>3, <1>4, <1>5, <1>6, <1>7, <1>8, <1>9 DEF Next, Handle, Wake

LEMMA InitSound == Init => Sound
<1> SUFFICES ASSUME Init PROVE Sound
  OBVIOUS
<1>1. viewchanges \subseteq ViewChangeMsg /\ newviews = {}
      /\ \A i \in Learners : node[i] = Start
  BY ViewChangeAssumption DEF Init
<1>2. DOMAIN Start = NodeFields
  BY DEF Start, NodeFields
<1>3. Threads(Start)
  BY ViewChangeAssumption DEF Start, Threads
<1>4. Ledger(Start, viewchanges)
  <2>1. /\ Start.CommittedMsgs = <<>> /\ Start.StableCheckPoint = 0
        /\ Start.Committed = {} /\ Start.pairs = {}
    BY DEF Start
  <2>2. DOMAIN Start.CommittedMsgs = {}
    BY <2>1
  <2> QED  BY <2>1, <2>2, ViewChangeAssumption DEF Ledger
<1>5. View(Start)
  BY ViewChangeAssumption DEF Start, View
<1>6. Collected(Start, viewchanges)
  <2>1. /\ Start.VCStates = [s \in Seqs |-> NoVCState]
        /\ DOMAIN NoVCState = {"NextCandidateIdx", "ViewChangeMsgs", "msgSent"}
        /\ NoVCState.ViewChangeMsgs = {}
    BY DEF Start, NoVCState
  <2>2. OnePerSender({})
    BY FS_EmptySet DEF OnePerSender, Senders
  <2> QED  BY <2>1, <2>2 DEF Collected, VCStateOK
<1>7. Mail(Start, viewchanges, newviews)
  BY DEF Start, Mail
<1>8. NodeOK(Start, viewchanges, newviews)
  BY <1>2, <1>3, <1>4, <1>5, <1>6, <1>7 DEF NodeOK
<1> QED  BY <1>1, <1>8 DEF Sound

\* view.go: what the nodes keep, and what NEW-VIEWs and their handlers rest on, in every
\* reachable state.
THEOREM ViewChangeInvariant == Spec => [](IInv /\ Sound)
<1>1. Init => IInv /\ Sound
  BY InitIInv, InitSound
<1>2. IInv /\ Sound /\ [Next]_vars => (IInv /\ Sound)'
  BY NextKeepsIInv, NextSound
<1> QED  BY <1>1, <1>2, PTL DEF Spec

\* The state of every followed node keeps its shape, and votes held were sent.
THEOREM ViewChangeTypeCorrect == Spec => []TypeOK
<1>1. Sound => TypeOK
  <2> SUFFICES ASSUME Sound PROVE TypeOK
    OBVIOUS
  <2>1. ASSUME NEW i \in Learners
        PROVE  LET n == node[i] IN
                 /\ n.States \in [Seqs -> {Nil} \cup 0..(participant - 1)]
                 /\ n.handler \in [Seqs -> {"none", "run", "told", "blocked"}]
                 /\ n.watch \in [Seqs -> {"none", "running", "done"}]
                 /\ n.TotalConsensus \in Nat /\ n.StableCheckPoint \in 0..MaxSeq
                 /\ DOMAIN n.CommittedMsgs \subseteq 0..MaxSeq
                 /\ \A k \in DOMAIN n.CommittedMsgs : n.CommittedMsgs[k] \in {"block", "hole"}
                 /\ n.Committed \subseteq Seqs /\ n.pairs \subseteq Seqs
                 /\ n.ViewID \in 0..(participant - 1) /\ n.NextCandidateIdx \in Nat
                 /\ \A s \in Seqs : /\ n.VCStates[s].ViewChangeMsgs \subseteq viewchanges
                                    /\ n.late[s] \subseteq viewchanges \cup newviews
                 /\ n.got \subseteq viewchanges \cup newviews
                 /\ \A w \in n.asleep :
                      w.kind \in {"viewchange", "newview"} /\ w.orphan \in BOOLEAN
    <3>1. NodeOK(node[i], viewchanges, newviews)
      BY DEF Sound
    <3>2. \A s \in Seqs : node[i].VCStates[s].ViewChangeMsgs \subseteq viewchanges
      BY <3>1 DEF NodeOK, Collected, VCStateOK
    <3>3. /\ \A s \in Seqs : node[i].late[s] \subseteq viewchanges \cup newviews
          /\ node[i].got \subseteq viewchanges \cup newviews
          /\ \A w \in node[i].asleep :
               w.kind \in {"viewchange", "newview"} /\ w.orphan \in BOOLEAN
      BY <3>1 DEF NodeOK, Mail, Sleeper
    <3> QED  BY <3>1, <3>2, <3>3 DEF NodeOK, Threads, Ledger, View
  <2> QED  BY <2>1 DEF Sound, TypeOK
<1> QED  BY <1>1, ViewChangeInvariant, PTL

\* VCState.ViewChange, FindStableCheckpoint: a NEW-VIEW rests on the VIEW-CHANGEs of
\* 2f+1 members, and its stable checkpoint is not below any of theirs.
THEOREM NewViewsRestOnQuorums == Spec => []NewViewJustified
<1>1. Sound => NewViewJustified
  BY DEF Sound, Draft, Claimed, NewViewJustified
<1> QED  BY <1>1, ViewChangeInvariant, PTL

Overlap ==
  \A a, b \in newviews :
    Cardinality(Senders(a.SetViewChangeMsgs) \cap Senders(b.SetViewChangeMsgs)) > F

\* VCState.ViewChange, f = (totNodes - 1) / 3: in a committee of 3f+1, as all shipped node
\* lists have it, any two NEW-VIEWs, whoever sent them, rest on VIEW-CHANGEs of more than
\* f common members, so of one without a fault.  In a committee of six there may be none.
THEOREM NewViewsOverlap == Size = 3 * F + 1 /\ Spec => []Overlap
<1>1. ASSUME Size = 3 * F + 1, Sound, NEW a \in newviews, NEW b \in newviews
      PROVE  Cardinality(Senders(a.SetViewChangeMsgs) \cap Senders(b.SetViewChangeMsgs)) > F
  <2> DEFINE A == Senders(a.SetViewChangeMsgs)
             B == Senders(b.SetViewChangeMsgs)
  <2>1. /\ A \subseteq Nodes /\ Cardinality(A) >= Quorum
        /\ B \subseteq Nodes /\ Cardinality(B) >= Quorum
    BY <1>1 DEF Sound, Draft, Senders, ViewChangeMsg
  <2>2. Size \in Nat /\ F \in Nat /\ Quorum = 2 * F + 1
    BY ViewChangeAssumption DEF F, Quorum
  <2>3. IsFiniteSet(Nodes) /\ Cardinality(Nodes) = Size
    <3>1. 0 \in Int /\ Size - 1 \in Int
      BY <2>2
    <3>2. IsFiniteSet(0..(Size - 1))
          /\ Cardinality(0..(Size - 1)) = IF 0 > Size - 1 THEN 0 ELSE (Size - 1) - 0 + 1
      BY <3>1, FS_Interval
    <3>3. Size >= 1
      BY <1>1, <2>2
    <3> QED  BY <2>2, <3>2, <3>3 DEF Nodes
  <2> HIDE DEF A, B
  <2>4. IsFiniteSet(A) /\ IsFiniteSet(B)
    BY <2>1, <2>3, FS_Subset
  <2>5. Cardinality(A \cup B) = Cardinality(A) + Cardinality(B) - Cardinality(A \cap B)
    BY <2>4, FS_Union
  <2>6. Cardinality(A \cup B) <= Cardinality(Nodes)
    BY <2>1, <2>3, FS_Subset
  <2>7. IsFiniteSet(A \cap B) /\ IsFiniteSet(A \cup B)
    BY <2>4, FS_Intersection, FS_Union
  <2>8. /\ Cardinality(A) \in Nat /\ Cardinality(B) \in Nat
        /\ Cardinality(A \cap B) \in Nat /\ Cardinality(A \cup B) \in Nat
    BY <2>4, <2>7, FS_CardinalityType
  <2>9. Cardinality(A \cap B) > F
    BY <1>1, <2>1, <2>2, <2>3, <2>5, <2>6, <2>8
  <2> QED  BY <2>9 DEF A, B
<1>2. CASE Size = 3 * F + 1
  <2>1. Sound => Overlap
    BY <1>1, <1>2 DEF Overlap
  <2> QED  BY <1>2, <2>1, ViewChangeInvariant, PTL
<1> QED  BY <1>2

\* FillHole: every null block lies at or below a stable checkpoint that was claimed.
THEOREM HolesLieBelowClaims == Spec => []HolesAreClaimed
<1>1. Sound => HolesAreClaimed
  BY DEF Sound, NodeOK, Ledger, HolesAreClaimed, Holes
<1> QED  BY <1>1, ViewChangeInvariant, PTL

------------------------------------------------------------------------------
(* Without a quorum for any sequence nothing happens to a node.             *)

Minority == \A s \in Seqs : Cardinality(Voters(s)) < Quorum

Calm(n) ==
  /\ ~n.down /\ ~n.IsViewChanging /\ n.NextCandidateIdx = participant
  /\ DOMAIN n.CommittedMsgs = 1..n.StableCheckPoint
  /\ \A s \in Seqs : n.watch[s] # "none" \/ s \in n.pairs => n.States[s] # Nil

Peace == Minority => \A i \in Learners : Calm(node[i])

LEMMA VotersFinite ==
  ASSUME NEW V, V \subseteq ViewChangeMsg, NEW s
  PROVE  /\ IsFiniteSet(Senders({m \in V : m.SequenceID = s}))
         /\ \A T \in SUBSET Senders({m \in V : m.SequenceID = s}) :
              IsFiniteSet(T)
              /\ Cardinality(T) <= Cardinality(Senders({m \in V : m.SequenceID = s}))
              /\ Cardinality(T) \in Nat
<1> DEFINE S == Senders({m \in V : m.SequenceID = s})
<1>1. IsFiniteSet(Nodes)
  <2>1. 0 \in Int /\ Size - 1 \in Int
    BY ViewChangeAssumption
  <2> QED  BY <2>1, FS_Interval DEF Nodes
<1>2. S \subseteq Nodes
  BY DEF Senders, ViewChangeMsg
<1> HIDE DEF S
<1>3. IsFiniteSet(S)
  BY <1>1, <1>2, FS_Subset
<1>4. \A T \in SUBSET S : IsFiniteSet(T) /\ Cardinality(T) <= Cardinality(S)
                           /\ Cardinality(T) \in Nat
  BY <1>3, FS_Subset, FS_CardinalityType
<1> QED  BY <1>3, <1>4 DEF S

LEMMA MinorityQuiet ==
  ASSUME Sound, Minority
  PROVE  newviews = {} /\ \A i \in Learners : node[i].asleep = {}
<1>1. ASSUME NEW m, Draft(m, viewchanges) PROVE FALSE
  <2> DEFINE s == m.SequenceID
             T == Senders(m.SetViewChangeMsgs)
  <2>1. s \in Seqs /\ T \subseteq Voters(s) /\ Cardinality(T) >= Quorum
    BY <1>1 DEF Draft, Senders, Voters
  <2>2. viewchanges \subseteq ViewChangeMsg
    BY DEF Sound
  <2> HIDE DEF T, s
  <2>3. Cardinality(T) <= Cardinality(Voters(s)) /\ Cardinality(T) \in Nat
        /\ Cardinality(Voters(s)) \in Nat
    BY <2>1, <2>2, VotersFinite DEF Voters
  <2>4. Quorum \in Int /\ Cardinality(Voters(s)) < Quorum
    BY <2>1, ViewChangeAssumption DEF Minority, Quorum, F
  <2> QED  BY <2>1, <2>3, <2>4
<1>2. newviews = {}
  BY <1>1 DEF Sound
<1>3. \A i \in Learners : \A w \in node[i].asleep : Draft(w.m, viewchanges)
  BY DEF Sound, NodeOK, Mail, Sleeper
<1> QED  BY <1>1, <1>2, <1>3

LEMMA MinorityQuietNext ==
  (Sound /\ Minority => newviews = {} /\ \A i \in Learners : node[i].asleep = {})'
<1>1. Sound /\ Minority => newviews = {} /\ \A i \in Learners : node[i].asleep = {}
  BY MinorityQuiet
<1> QED  BY <1>1, PTL

\* VIEW-CHANGEs stay sent.
LEMMA MinorityWasMinority ==
  ASSUME Sound, Sound', [Next]_vars, Minority'
  PROVE  Minority
<1>1. viewchanges \subseteq viewchanges'
  <2>1. \A i \in Learners :
          /\ \A s \in Seqs : StartThread(i, s) \/ StartViewChange(i, s) \/ Decide(i, s) =>
               viewchanges \subseteq viewchanges'
          /\ \A orphan \in BOOLEAN : Handle(i, orphan) => viewchanges' = viewchanges
          /\ Wake(i) \/ ExecuteNext(i) => viewchanges' = viewchanges
    <3>1. \A i \in Learners, s \in Seqs :
            StartThread(i, s) \/ StartViewChange(i, s) \/ Decide(i, s) =>
              viewchanges \subseteq viewchanges'
      BY DEF StartThread, StartViewChange, Decide
    <3>2. \A i, m, orphan : GetViewChange(i, m, orphan) \/ GetNewView(i, m, orphan) =>
            viewchanges' = viewchanges
      BY DEF GetViewChange, GetNewView
    <3>3. \A i, w : RollbackForQuorum(i, w) \/ InstallNewView(i, w) =>
            viewchanges' = viewchanges
      BY DEF RollbackForQuorum, InstallNewView
    <3>4. \A i : ExecuteNext(i) => viewchanges' = viewchanges
      BY DEF ExecuteNext
    <3> QED  BY <3>1, <3>2, <3>3, <3>4 DEF Handle, Wake
  <2>2. OtherNewView \/ UNCHANGED vars => viewchanges' = viewchanges
    BY DEF OtherNewView, vars
  <2> QED  BY <2>1, <2>2 DEF Next
<1>2. ASSUME NEW s \in Seqs PROVE Cardinality(Voters(s)) < Quorum
  <2> DEFINE S == Senders({m \in viewchanges' : m.SequenceID = s})
             T == Voters(s)
  <2>1. T \subseteq S /\ viewchanges' \subseteq ViewChangeMsg
    BY <1>1 DEF Voters, Senders, Sound
  <2>2. Cardinality(T) <= Cardinality(S) /\ Cardinality(T) \in Nat /\ Cardinality(S) \in Nat
    <3> HIDE DEF T
    <3> QED  BY <2>1, VotersFinite
  <2>3. Cardinality(S) < Quorum /\ Quorum \in Int
    BY ViewChangeAssumption DEF Minority, Voters, Senders, Quorum, F
  <2> HIDE DEF S, T
  <2>4. Cardinality(T) < Quorum
    BY <2>2, <2>3
  <2> QED  BY <2>4 DEF T
<1> QED  BY <1>2 DEF Minority

LEMMA StartThreadCalm ==
  ASSUME NEW VC, NEW NV, NEW n, NodeOK(n, VC, NV), Calm(n), NEW s \in Seqs,
         NEW o, o = StartThreadIfNotExists(n, s)
  PROVE  Calm(o)
<1>1. DOMAIN n = NodeFields /\ n.States \in [Seqs -> {Nil} \cup 0..(participant - 1)]
      /\ n.watch \in [Seqs -> {"none", "running", "done"}] /\ n.ViewID \in 0..(participant - 1)
  BY DEF NodeOK, Threads, View
<1>2. /\ Touches(n, o, {"States", "handler", "watch", "TotalConsensus"})
      /\ n.States[s] # Nil => o = n
      /\ n.States[s] = Nil =>
              /\ o.States = [n.States EXCEPT ![s] = n.ViewID]
              /\ o.handler = [n.handler EXCEPT ![s] = "run"]
              /\ o.watch = [n.watch EXCEPT ![s] = "running"]
              /\ o.TotalConsensus = n.TotalConsensus + 1
  BY <1>1, StartThreadTouches
<1>3. CASE n.States[s] # Nil
  BY <1>2, <1>3
<1>4. CASE n.States[s] = Nil
  <2>1. n.ViewID # Nil
    BY <1>1, ViewChangeAssumption DEF Nil
  <2>2. \A k \in Seqs : /\ k # s => o.States[k] = n.States[k] /\ o.watch[k] = n.watch[k]
                        /\ k = s => o.States[k] # Nil
    BY <1>1, <1>2, <1>4, <2>1
  <2>3. /\ o.down = n.down /\ o.IsViewChanging = n.IsViewChanging
        /\ o.NextCandidateIdx = n.NextCandidateIdx /\ o.CommittedMsgs = n.CommittedMsgs
        /\ o.StableCheckPoint = n.StableCheckPoint /\ o.pairs = n.pairs
    BY <1>2 DEF Touches, NodeFields
  <2> QED  BY <2>2, <2>3 DEF Calm
<1> QED  BY <1>3, <1>4

\* The fields that Calm is about.
CalmFields == {"States", "watch", "pairs", "CommittedMsgs", "StableCheckPoint", "down",
               "IsViewChanging", "NextCandidateIdx"}

LEMMA TouchedCalm ==
  ASSUME NEW n, NEW o, NEW fields, Calm(n), Touches(n, o, fields), fields \cap CalmFields = {}
  PROVE  Calm(o)
BY DEF Calm, Touches, NodeFields, CalmFields

\* The executor finds the last block, and the State of what it executes.
LEMMA ExecuteNextCalm ==
  ASSUME NEW VC, NEW NV, NEW i, NodeOK(node[i], VC, NV), Calm(node[i]), ExecuteNext(i)
  PROVE  \E o : Put(i, o) /\ Calm(o)
<1> DEFINE n == node[i]
           s == LastSequenceID(n) + 1
<1>1. n.StableCheckPoint \in Nat
  BY ViewChangeAssumption DEF NodeOK, Ledger
<1>2. LastSequenceID(n) = n.StableCheckPoint
  <2> DEFINE c == n.StableCheckPoint
  <2>1. DOMAIN n.CommittedMsgs = 1..c
    BY DEF Calm
  <2> HIDE DEF c
  <2>2. Cardinality(1..c) = c
    BY <1>1, FS_Interval DEF c
  <2> QED  BY <2>1, <2>2 DEF LastSequenceID, c
<1>3. ~LastIsMissing(n) /\ s = n.StableCheckPoint + 1
  BY <1>1, <1>2 DEF LastIsMissing, Calm
<1> HIDE DEF s
<1>4. ~(s \in n.pairs /\ n.States[s] = Nil)
  BY DEF NodeOK, Ledger, Calm
<1>5. CASE Put(i, [n EXCEPT !.executing = FALSE])
  <2> DEFINE o == [n EXCEPT !.executing = FALSE]
  <2>1. Touches(n, o, {"executing"})
    BY DEF NodeOK, Touches, NodeFields
  <2>2. Calm(o)
    BY <2>1, TouchedCalm DEF CalmFields
  <2> QED  BY <1>5, <2>2
<1>6. CASE s \in n.pairs /\ \E watch \in {n.watch[s], "done"} : Put(i, Executed(n, s, watch))
  <2>1. PICK watch : Put(i, Executed(n, s, watch))
    BY <1>6
  <2> DEFINE o == Executed(n, s, watch)
  <2>2. /\ Touches(n, o, {"CommittedMsgs", "Committed", "StableCheckPoint", "pairs", "handler",
                          "watch", "NextCandidateIdx", "ViewID"})
        /\ DOMAIN o.CommittedMsgs = DOMAIN n.CommittedMsgs \cup {s}
        /\ o.StableCheckPoint = s /\ o.pairs = n.pairs \ {s}
        /\ o.watch = [n.watch EXCEPT ![s] = watch]
    BY DEF Executed, updateViewID, Stored, NodeOK, Touches, NodeFields
  <2>3. o.NextCandidateIdx = participant
    BY DEF Executed, updateViewID, NodeOK, NodeFields, Calm
  <2> HIDE DEF o
  <2>4. DOMAIN o.CommittedMsgs = 1..o.StableCheckPoint
    <3>1. DOMAIN n.CommittedMsgs = 1..n.StableCheckPoint
      BY DEF Calm
    <3> QED  BY <1>1, <1>3, <2>2, <3>1
  <2>5. ~o.down /\ ~o.IsViewChanging /\ o.States = n.States
    BY <2>2 DEF Touches, NodeFields, Calm
  <2>6. \A k \in Seqs : o.watch[k] # "none" \/ k \in o.pairs => o.States[k] # Nil
    BY <1>4, <1>6, <2>2, <2>5 DEF NodeOK, Threads, Calm
  <2>7. Calm(o)
    BY <2>3, <2>4, <2>5, <2>6 DEF Calm
  <2> QED  BY <2>1, <2>7 DEF o
<1> QED
  BY <1>3, <1>4, <1>5, <1>6 DEF ExecuteNext, s

LEMMA GetViewChangeCalm ==
  ASSUME IInv, Sound, NEW i \in Learners, NEW m \in viewchanges, NEW orphan \in BOOLEAN,
         GetViewChange(i, m, orphan), Calm(node[i]), node'[i].asleep = {}
  PROVE  Calm(node'[i])
<1> DEFINE s   == m.SequenceID
           h   == Handler(i, m, orphan)
           n   == CreateVCState(h, s)
           old == n.VCStates[s]
           vcs == [ViewChange(old, m) EXCEPT !.msgSent = @ \/ Answers(old, m)]
           nn  == [n EXCEPT !.VCStates[s] = vcs]
           M   == NewViewMsg(i, s, vcs)
           z   == Sleep(nn, "viewchange", M, orphan)
           p   == getPrimaryInfoByID(nn, nn.NextCandidateIdx)
<1>1. s \in Seqs /\ NodeOK(node[i], viewchanges, newviews) /\ DOMAIN node = Learners
  BY DEF IInv, Sound
<1>2. Calm(h) /\ DOMAIN h = NodeFields
  <2> DEFINE k == IF orphan THEN node[i] ELSE StartThreadIfNotExists(node[i], s)
  <2>1. Calm(k) /\ DOMAIN k = NodeFields
    <3>1. CASE orphan
      BY <1>1, <3>1 DEF NodeOK
    <3>2. CASE ~orphan
      <4>1. k = StartThreadIfNotExists(node[i], s)
        BY <3>2
      <4> HIDE DEF k
      <4>2. Calm(k)
        BY <1>1, <4>1, StartThreadCalm
      <4>3. NodeOK(k, viewchanges, newviews)
        BY <1>1, <4>1, StartThreadOK
      <4> QED  BY <4>2, <4>3 DEF NodeOK
    <3> QED  BY <3>1, <3>2
  <2>2. h = [k EXCEPT !.got = @ \cup {m}]
    BY DEF Handler
  <2> HIDE DEF k, h
  <2>3. Touches(k, h, {"got"})
    BY <2>1, <2>2 DEF Touches, NodeFields
  <2>4. {"got"} \cap CalmFields = {}
    BY DEF CalmFields
  <2>5. Calm(h)
    BY <2>1, <2>3, <2>4, TouchedCalm
  <2> QED  BY <2>3, <2>5 DEF Touches
<1>3. Calm(n) /\ DOMAIN n = NodeFields
  <2> HIDE DEF h
  <2>1. Touches(h, n, {"VCStates"})
    BY <1>2, CreateVCStateTouches
  <2> HIDE DEF n
  <2>2. {"VCStates"} \cap CalmFields = {}
    BY DEF CalmFields
  <2>3. Calm(n)
    BY <1>2, <2>1, <2>2, TouchedCalm
  <2> QED  BY <2>1, <2>3 DEF Touches
<1>4. Calm(nn) /\ DOMAIN nn = NodeFields
  <2> HIDE DEF n, vcs
  <2>1. Touches(n, nn, {"VCStates"})
    BY <1>3 DEF Touches, NodeFields
  <2> HIDE DEF nn
  <2>2. {"VCStates"} \cap CalmFields = {}
    BY DEF CalmFields
  <2>3. Calm(nn)
    BY <1>3, <2>1, <2>2, TouchedCalm
  <2> QED  BY <2>1, <2>3 DEF Touches
<1>5. CASE Put(i, p)
  <2> HIDE DEF nn
  <2>1. nn.NextCandidateIdx \in Nodes
    BY <1>4, ViewChangeAssumption DEF Calm, Nodes
  <2>2. p = nn
    BY <2>1 DEF getPrimaryInfoByID
  <2>3. node'[i] = p
    <3> HIDE DEF p
    <3> QED  BY <1>1, <1>5 DEF Put
  <2> QED  BY <1>4, <2>2, <2>3
<1>6. CASE Put(i, z)
  <2>1. z.asleep # {}
    <3> HIDE DEF nn, M
    <3> QED  BY <1>4 DEF Sleep, NodeFields
  <2>2. node'[i] = z
    <3> HIDE DEF z
    <3> QED  BY <1>1, <1>6 DEF Put
  <2> HIDE DEF z
  <2> QED  BY <2>1, <2>2
<1> HIDE DEF p, z
<1>7. Put(i, z) \/ Put(i, p)
  BY DEF GetViewChange, p, z
<1> QED  BY <1>5, <1>6, <1>7

LEMMA NextPeace ==
  ASSUME IInv, Sound, Sound', Peace, [Next]_vars
  PROVE  Peace'
<1> SUFFICES ASSUME Minority' PROVE \A j \in Learners : Calm(node'[j])
  BY DEF Peace, Calm
<1>1. Minority
  BY MinorityWasMinority
<1>2. newviews = {} /\ \A j \in Learners : node[j].asleep = {} /\ Calm(node[j])
  BY <1>1, MinorityQuiet DEF Peace
<1>3. \A j \in Learners : node'[j].asleep = {}
  BY MinorityQuietNext
<1>4. \A j \in Learners : NodeOK(node[j], viewchanges, newviews)
  BY DEF Sound
<1>5. ASSUME NEW i \in Learners, NEW o, Put(i, o), Calm(o)
      PROVE  \A j \in Learners : Calm(node'[j])
  <2>1. node'[i] = o /\ \A j \in Learners \ {i} : node'[j] = node[j]
    BY <1>5 DEF IInv, Put
  <2> QED  BY <1>2, <1>5, <2>1
<1>6. CASE UNCHANGED vars \/ OtherNewView
  BY <1>2, <1>6 DEF vars, OtherNewView
<1>7. ASSUME NEW i \in Learners, NEW s \in Seqs, StartThread(i, s)
      PROVE  \A j \in Learners : Calm(node'[j])
  <2> DEFINE o == StartThreadIfNotExists(node[i], s)
  <2>1. Calm(o)
    BY <1>2, <1>4, StartThreadCalm
  <2>2. Put(i, o)
    BY <1>7 DEF StartThread
  <2> HIDE DEF o
  <2> QED  BY <1>5, <2>1, <2>2
<1>8. ASSUME NEW i \in Learners, NEW s \in Seqs, StartViewChange(i, s)
      PROVE  \A j \in Learners : Calm(node'[j])
  <2> DEFINE n == node[i]
             o == [n EXCEPT !.watch[s] = "done"]
  <2>1. Touches(n, o, {"watch"}) /\ o.watch = [n.watch EXCEPT ![s] = "done"]
    BY <1>4 DEF NodeOK, Touches, NodeFields
  <2>2. n.watch[s] = "running" /\ Put(i, o)
    BY <1>8 DEF StartViewChange
  <2> HIDE DEF o
  <2>3. Calm(o)
    BY <1>2, <1>4, <2>1, <2>2 DEF NodeOK, Threads, Calm, Touches, NodeFields
  <2> QED  BY <1>5, <2>2, <2>3
<1>9. ASSUME NEW i \in Learners, NEW s \in Seqs, Decide(i, s)
      PROVE  \A j \in Learners : Calm(node'[j])
  <2> DEFINE n == node[i]
             o == [n EXCEPT !.pairs = @ \cup {s}, !.executing = TRUE]
  <2>1. Touches(n, o, {"pairs", "executing"}) /\ o.pairs = n.pairs \cup {s}
    BY <1>4 DEF NodeOK, Touches, NodeFields
  <2>2. n.watch[s] # "none" /\ Put(i, o)
    BY <1>9 DEF Decide
  <2> HIDE DEF o
  <2>3. Calm(o)
    BY <1>2, <2>1, <2>2 DEF Calm, Touches, NodeFields
  <2> QED  BY <1>5, <2>2, <2>3
<1>10. ASSUME NEW i \in Learners, ExecuteNext(i)
       PROVE  \A j \in Learners : Calm(node'[j])
  <2>1. PICK o : Put(i, o) /\ Calm(o)
    BY <1>2, <1>4, <1>10, ExecuteNextCalm
  <2> QED  BY <1>5, <2>1
<1>11. ASSUME NEW i \in Learners, NEW m \in viewchanges, NEW orphan \in BOOLEAN,
              GetViewChange(i, m, orphan)
       PROVE  \A j \in Learners : Calm(node'[j])
  <2>1. Calm(node'[i])
    BY <1>2, <1>3, <1>11, GetViewChangeCalm
  <2>2. \A j \in Learners \ {i} : node'[j] = node[j]
    BY <1>11 DEF GetViewChange, Put, IInv
  <2> QED  BY <1>2, <2>1, <2>2
<1> QED
  BY <1>2, <1>6, <1>7, <1>8, <1>9, <1>10, <1>11 DEF Next, Handle, Wake

\* dispatchMsg, view.go: while no sequence has the VIEW-CHANGEs of 2f+1 members, no
\* followed node is deaf, has panicked or has another candidate, and its ledger has no
\* gaps up to its stable checkpoint.
THEOREM MinoritiesAreHarmless == Spec => []MinorityHarmless
<1>1. Init => Peace
  <2> SUFFICES ASSUME Init, NEW i \in Learners PROVE Calm(node[i])
    BY DEF Peace
  <2>1. /\ ~Start.down /\ ~Start.IsViewChanging /\ Start.NextCandidateIdx = participant
        /\ Start.CommittedMsgs = <<>> /\ Start.StableCheckPoint = 0
        /\ Start.pairs = {} /\ \A s \in Seqs : Start.watch[s] = "none"
    BY DEF Start
  <2>2. DOMAIN Start.CommittedMsgs = 1..Start.StableCheckPoint
    BY <2>1
  <2> QED  BY <2>1, <2>2 DEF Init, Calm
<1>2. IInv /\ Sound /\ (IInv /\ Sound)' /\ Peace /\ [Next]_vars => Peace'
  BY NextPeace
<1>3. Peace => MinorityHarmless
  BY DEF Peace, Minority, Calm, MinorityHarmless
<1> QED  BY <1>1, <1>2, <1>3, ViewChangeInvariant, PTL DEF Spec

------------------------------------------------------------------------------
(* Blocks are lost only to the handlers that wake up.                       *)

\* The ledger and the sleeping handlers stay as they are.
Same(n, o) == DOMAIN o = NodeFields /\ o.CommittedMsgs = n.CommittedMsgs /\ o.asleep = n.asleep

LEMMA TouchedSame ==
  ASSUME NEW n, NEW o, NEW fields, Touches(n, o, fields),
         "CommittedMsgs" \notin fields, "asleep" \notin fields
  PROVE  Same(n, o)
BY DEF Same, Touches, NodeFields

LEMMA SameBlocks ==
  ASSUME NEW n, NEW o, o.CommittedMsgs = n.CommittedMsgs
  PROVE  Blocks(o) = Blocks(n)
BY DEF Blocks, Holes

\* Rollback takes what is at or above its sequence, and renames no handler.
LEMMA RollbackLoses ==
  ASSUME NEW n, DOMAIN n = NodeFields, \A v \in n.asleep : DOMAIN v = {"kind", "m", "orphan"},
         n.TotalConsensus \in Nat, NEW s \in Seqs, NEW o, o = Rollback(n, s)
  PROVE  /\ DOMAIN o = NodeFields
         /\ \A k \in Blocks(n) \ Blocks(o) : s <= k
         /\ \A v \in o.asleep : \E u \in n.asleep : v.kind = u.kind /\ v.m = u.m
<1> DEFINE gone == s..n.TotalConsensus
<1>1. /\ DOMAIN o = NodeFields
      /\ o.CommittedMsgs = [k \in DOMAIN n.CommittedMsgs \ gone |-> n.CommittedMsgs[k]]
  BY DEF Rollback, NodeFields
<1>2. o.asleep = {[v EXCEPT !.orphan = @ \/ v.m.SequenceID \in gone] : v \in n.asleep}
  BY DEF Rollback, NodeFields
<1>3. \A k \in gone : s <= k
  BY DEF Seqs
<1> HIDE DEF gone
<1>4. \A k \in Blocks(n) \ Blocks(o) : k \in gone
  BY <1>1 DEF Blocks, Holes
<1>5. \A v \in o.asleep : \E u \in n.asleep : v.kind = u.kind /\ v.m = u.m
  BY <1>2
<1> QED  BY <1>1, <1>3, <1>4, <1>5

\* FillHole takes one block at most, the last one.
LEMMA FillHoleLoses ==
  ASSUME NEW n, DOMAIN n = NodeFields, DOMAIN n.CommittedMsgs \subseteq 0..MaxSeq,
         NEW min \in Nat, NEW o, o = FillHole(n, min)
  PROVE  /\ DOMAIN o = NodeFields /\ o.asleep = n.asleep
         /\ \A k \in Blocks(n) \ Blocks(o) : min >= k /\ \A b \in Blocks(o) : b < k
<1> DEFINE last == Max(DOMAIN n.CommittedMsgs \cup {0})
           t == Max({n.TotalConsensus, min})
<1>1. /\ DOMAIN o = NodeFields /\ o.asleep = n.asleep
      /\ o.CommittedMsgs = Stored(n.CommittedMsgs, last..min, "hole")
  <2> HIDE DEF last, t
  <2>1. o = [n EXCEPT !.CommittedMsgs = Stored(@, last..min, "hole"), !.TotalConsensus = t]
    BY DEF FillHole, last, t
  <2> QED  BY <2>1 DEF NodeFields
<1>2. last \in 0..MaxSeq /\ \A k \in DOMAIN n.CommittedMsgs : k <= last
  <2>1. MaxSeq \in Nat
    BY ViewChangeAssumption
  <2>2. DOMAIN n.CommittedMsgs \cup {0} \subseteq 0..MaxSeq
    BY <2>1
  <2> QED  BY <2>1, <2>2, HasMax
<1> HIDE DEF last
<1>3. \A k \in Blocks(n) \ Blocks(o) : k \in last..min
  BY <1>1 DEF Blocks, Holes, Stored
<1>4. \A b \in Blocks(o) : b \in DOMAIN n.CommittedMsgs /\ b \notin last..min
  BY <1>1 DEF Blocks, Holes, Stored
<1>5. ASSUME NEW k \in Blocks(n) \ Blocks(o)
      PROVE  min >= k /\ \A b \in Blocks(o) : b < k
  <2>1. k \in DOMAIN n.CommittedMsgs /\ k \in last..min
    BY <1>3 DEF Blocks
  <2>2. k = last /\ min >= k /\ last \in 0..MaxSeq
    BY <1>2, <2>1
  <2>3. ASSUME NEW b \in Blocks(o) PROVE b < k
    <3>1. b \in 0..MaxSeq /\ b <= last /\ b \notin last..min
      BY <1>2, <1>4
    <3> QED  BY <2>2, <3>1
  <2> QED  BY <2>2, <2>3
<1> QED  BY <1>1, <1>5

\* The handler that wakes up is gone.
LEMMA AwakeIsGone ==
  ASSUME Sound, NEW i \in Learners, NEW w \in node[i].asleep, NEW A,
         \A v \in A : \E u \in node[i].asleep \ {w} : v.kind = u.kind /\ v.m = u.m
  PROVE  w \notin A
BY DEF Sound, NodeOK, Mail

\* What a step of one node may lose.
Loss(i, o) ==
  \A k \in Blocks(node[i]) \ Blocks(o) :
    \E w \in node[i].asleep \ o.asleep :
      \/ w.m.SequenceID <= k
      \/ w.kind = "newview" /\ w.m.Min_S >= k /\ \A b \in Blocks(o) : b < k

LEMMA RollbackForQuorumLoss ==
  ASSUME Sound, NEW i \in Learners, NEW w \in node[i].asleep, RollbackForQuorum(i, w)
  PROVE  \E o : Put(i, o) /\ Loss(i, o)
<1> DEFINE a == Awake(i, w)
           n == Rollback(a, w.m.SequenceID)
           p == getPrimaryInfoByID(n, n.NextCandidateIdx)
<1>1. NodeOK(node[i], viewchanges, newviews) /\ w.m.SequenceID \in Seqs
  BY DEF Sound, NodeOK, Mail, Sleeper, Draft
<1>2. /\ NodeOK(a, viewchanges, newviews) /\ Touches(node[i], a, {"asleep"})
      /\ a.asleep = node[i].asleep \ {w}
  <2>1. NodeOK(a, viewchanges, newviews)
    BY <1>1, AwakeOK
  <2> QED  BY <1>1, <2>1 DEF Awake, NodeOK, Touches, NodeFields
<1>3. a.CommittedMsgs = node[i].CommittedMsgs
  BY <1>2 DEF Touches, NodeFields
<1>4. /\ DOMAIN n = NodeFields
      /\ \A k \in Blocks(a) \ Blocks(n) : w.m.SequenceID <= k
      /\ \A v \in n.asleep : \E u \in a.asleep : v.kind = u.kind /\ v.m = u.m
  <2> HIDE DEF a
  <2>1. /\ DOMAIN a = NodeFields /\ a.TotalConsensus \in Nat
        /\ \A v \in a.asleep : DOMAIN v = {"kind", "m", "orphan"}
    BY <1>2 DEF NodeOK, Threads, Mail, Sleeper
  <2> QED  BY <1>1, <2>1, RollbackLoses
<1> HIDE DEF a, n
<1>5. Same(n, p)
  <2>1. Touches(n, p, {"down"})
    BY <1>4, getPrimaryTouches
  <2> HIDE DEF p
  <2> QED  BY <2>1, TouchedSame
<1>6. Put(i, p)
  BY DEF RollbackForQuorum, p, n, a
<1> HIDE DEF p
<1>7. w \notin p.asleep
  BY <1>2, <1>4, <1>5, AwakeIsGone DEF Same
<1>8. Blocks(a) = Blocks(node[i]) /\ Blocks(p) = Blocks(n)
  BY <1>3, <1>5, SameBlocks DEF Same
<1>9. Loss(i, p)
  BY <1>4, <1>7, <1>8 DEF Loss
<1> QED  BY <1>6, <1>9

LEMMA InstallNewViewLoss ==
  ASSUME Sound, NEW i \in Learners, NEW w \in node[i].asleep, InstallNewView(i, w)
  PROVE  \E o : Put(i, o) /\ Loss(i, o)
<1> DEFINE s   == w.m.SequenceID
           idx == w.m.NextCandidateIdx
           a   == Awake(i, w)
           n0  == Rollback(a, s)
           n1  == [n0 EXCEPT !.NextCandidateIdx = idx]
           k1  == CreateVCState(n1, s)
           n2  == FillHole(k1, w.m.Min_S)
           c2  == [n2 EXCEPT !.StableCheckPoint = w.m.Min_S]
           n3  == updateViewID(c2, s - 1)
           g4  == getPrimaryInfoByID(n3, idx)
           n4  == [g4 EXCEPT !.NextCandidateIdx = AfterNewView(s, @)]
           t5  == StartThreadIfNotExists(n4, s)
           n5  == [t5 EXCEPT !.IsViewChanging = FALSE]
           b   == Blocked(n5, node[i], w)
<1>1. /\ NodeOK(node[i], viewchanges, newviews) /\ s \in Seqs
      /\ w.kind = "newview" /\ w.m.Min_S \in Nat
  <2>1. w.kind = "newview"
    BY DEF InstallNewView
  <2> QED
    BY <2>1, ViewChangeAssumption DEF Sound, NodeOK, Mail, Sleeper, Draft, Claimed
<1>2. /\ NodeOK(a, viewchanges, newviews) /\ Touches(node[i], a, {"asleep"})
      /\ a.asleep = node[i].asleep \ {w}
  <2>1. NodeOK(a, viewchanges, newviews)
    BY <1>1, AwakeOK
  <2> QED  BY <1>1, <2>1 DEF Awake, NodeOK, Touches, NodeFields
<1>3. a.CommittedMsgs = node[i].CommittedMsgs
  BY <1>2 DEF Touches, NodeFields
<1>4. /\ NodeOK(n0, viewchanges, newviews)
      /\ \A k \in Blocks(a) \ Blocks(n0) : s <= k
      /\ \A v \in n0.asleep : \E u \in a.asleep : v.kind = u.kind /\ v.m = u.m
  <2> HIDE DEF a
  <2>1. /\ DOMAIN a = NodeFields /\ a.TotalConsensus \in Nat
        /\ \A v \in a.asleep : DOMAIN v = {"kind", "m", "orphan"}
    BY <1>2 DEF NodeOK, Threads, Mail, Sleeper
  <2>2. NodeOK(n0, viewchanges, newviews)
    BY <1>1, <1>2, RollbackOK
  <2> QED  BY <1>1, <2>1, <2>2, RollbackLoses
<1>5. Same(n0, k1) /\ DOMAIN k1.CommittedMsgs \subseteq 0..MaxSeq
  <2> HIDE DEF n0
  <2>1. DOMAIN n0 = NodeFields /\ DOMAIN n0.CommittedMsgs \subseteq 0..MaxSeq
    BY <1>4 DEF NodeOK, Ledger
  <2>2. Same(n0, n1)
    BY <2>1 DEF Same, NodeFields
  <2> HIDE DEF n1
  <2>3. Touches(n1, k1, {"VCStates"})
    BY <2>2, CreateVCStateTouches DEF Same
  <2> HIDE DEF k1
  <2>4. Same(n1, k1)
    BY <2>3, TouchedSame
  <2> QED  BY <2>1, <2>2, <2>4 DEF Same
<1>6. /\ DOMAIN n2 = NodeFields /\ n2.asleep = k1.asleep
      /\ \A k \in Blocks(k1) \ Blocks(n2) : w.m.Min_S >= k /\ \A c \in Blocks(n2) : c < k
  <2> HIDE DEF k1
  <2> QED  BY <1>1, <1>5, FillHoleLoses DEF Same
<1>7. Same(n2, g4)
  <2> HIDE DEF n2
  <2>1. Same(n2, c2)
    BY <1>6 DEF Same, NodeFields
  <2> HIDE DEF c2
  <2>2. Touches(c2, n3, {"ViewID"})
    BY <2>1, updateViewIDTouches DEF Same
  <2> HIDE DEF n3
  <2>3. Same(c2, n3)
    BY <2>2, TouchedSame
  <2>4. Touches(n3, g4, {"down"})
    BY <2>3, getPrimaryTouches DEF Same
  <2> HIDE DEF g4
  <2>5. Same(n3, g4)
    BY <2>4, TouchedSame
  <2> QED  BY <2>1, <2>3, <2>5 DEF Same
<1>8. Same(g4, n5)
  <2> HIDE DEF g4
  <2>1. Same(g4, n4)
    BY <1>7 DEF Same, NodeFields
  <2> HIDE DEF n4
  <2>2. Touches(n4, t5, {"States", "handler", "watch", "TotalConsensus"})
    BY <2>1, StartThreadTouches DEF Same
  <2> HIDE DEF t5
  <2>3. Same(n4, t5)
    BY <2>2, TouchedSame
  <2>4. Same(t5, n5)
    BY <2>3 DEF Same, NodeFields
  <2> QED  BY <2>1, <2>3, <2>4 DEF Same
<1>9. Same(n5, b)
  <2> HIDE DEF n5
  <2> QED  BY <1>8 DEF Blocked, Same, NodeFields
<1> DEFINE o == IF idx = i THEN b ELSE n5
<1>10. Put(i, o)
  BY DEF InstallNewView
<1> HIDE DEF b, n5
<1>11. Same(n5, o)
  <2>1. CASE idx = i
    BY <1>9, <2>1
  <2>2. CASE idx # i
    BY <1>8, <2>2 DEF Same
  <2> QED  BY <2>1, <2>2
<1> HIDE DEF o, a, n0, k1, n2, g4
<1>12. o.asleep = n0.asleep /\ o.CommittedMsgs = n2.CommittedMsgs
  BY <1>5, <1>6, <1>7, <1>8, <1>11 DEF Same
<1>13. Blocks(a) = Blocks(node[i]) /\ Blocks(k1) = Blocks(n0) /\ Blocks(o) = Blocks(n2)
  BY <1>3, <1>5, <1>12, SameBlocks DEF Same
<1>14. w \notin o.asleep
  BY <1>2, <1>4, <1>12, AwakeIsGone
<1>15. Loss(i, o)
  BY <1>1, <1>4, <1>6, <1>13, <1>14 DEF Loss
<1> QED  BY <1>10, <1>15

LEMMA StepLoss ==
  ASSUME IInv, Sound, [Next]_vars, NEW j \in Learners
  PROVE  Loss(j, node'[j])
<1>1. ASSUME NEW i \in Learners, NEW o, Put(i, o), Loss(i, o) PROVE Loss(j, node'[j])
  <2>1. node'[i] = o /\ \A k \in Learners \ {i} : node'[k] = node[k]
    BY <1>1 DEF IInv, Put
  <2>2. CASE j = i
    BY <1>1, <2>1, <2>2
  <2>3. CASE j # i
    BY <2>1, <2>3 DEF Loss
  <2> QED  BY <2>2, <2>3
\* Most steps leave the ledger alone.
<1>2. ASSUME NEW i \in Learners, NEW o, Put(i, o), o.CommittedMsgs = node[i].CommittedMsgs
      PROVE  Loss(j, node'[j])
  <2>1. Blocks(o) = Blocks(node[i])
    BY <1>2, SameBlocks
  <2>2. Loss(i, o)
    BY <2>1 DEF Loss
  <2> QED  BY <1>1, <1>2, <2>2
<1>3. \A i \in Learners : NodeOK(node[i], viewchanges, newviews) /\ DOMAIN node[i] = NodeFields
  BY DEF Sound, NodeOK
<1>4. CASE UNCHANGED vars \/ OtherNewView
  BY <1>4 DEF vars, OtherNewView, Loss
<1>5. ASSUME NEW i \in Learners, NEW s \in Seqs, StartThread(i, s) PROVE Loss(j, node'[j])
  <2> DEFINE o == StartThreadIfNotExists(node[i], s)
  <2>1. Touches(node[i], o, {"States", "handler", "watch", "TotalConsensus"})
    BY <1>3, StartThreadTouches
  <2>2. Put(i, o)
    BY <1>5 DEF StartThread
  <2> HIDE DEF o
  <2> QED  BY <1>2, <2>1, <2>2 DEF Touches, NodeFields
<1>6. ASSUME NEW i \in Learners, NEW s \in Seqs, StartViewChange(i, s) PROVE Loss(j, node'[j])
  <2> DEFINE o == [node[i] EXCEPT !.watch[s] = "done"]
  <2>1. o.CommittedMsgs = node[i].CommittedMsgs
    BY <1>3 DEF NodeFields
  <2>2. Put(i, o)
    BY <1>6 DEF StartViewChange
  <2> HIDE DEF o
  <2> QED  BY <1>2, <2>1, <2>2
<1>7. ASSUME NEW i \in Learners, NEW s \in Seqs, Decide(i, s) PROVE Loss(j, node'[j])
  <2> DEFINE o == [node[i] EXCEPT !.pairs = @ \cup {s}, !.executing = TRUE]
  <2>1. o.CommittedMsgs = node[i].CommittedMsgs
    BY <1>3 DEF NodeFields
  <2>2. Put(i, o)
    BY <1>7 DEF Decide
  <2> HIDE DEF o
  <2> QED  BY <1>2, <2>1, <2>2
<1>8. ASSUME NEW i \in Learners, ExecuteNext(i) PROVE Loss(j, node'[j])
  <2> DEFINE n == node[i]
             s == LastSequenceID(n) + 1
  <2>1. CASE Put(i, [n EXCEPT !.down = TRUE]) \/ Put(i, [n EXCEPT !.executing = FALSE])
    <3>1. /\ [n EXCEPT !.down = TRUE].CommittedMsgs = n.CommittedMsgs
          /\ [n EXCEPT !.executing = FALSE].CommittedMsgs = n.CommittedMsgs
      BY <1>3 DEF NodeFields
    <3> QED  BY <1>2, <2>1, <3>1
  <2>2. CASE \E watch \in {n.watch[s], "done"} : Put(i, Executed(n, s, watch))
    <3>1. PICK watch : Put(i, Executed(n, s, watch))
      BY <2>2
    <3> DEFINE o == Executed(n, s, watch)
    <3>2. o.CommittedMsgs = Stored(n.CommittedMsgs, {s}, "block")
      BY <1>3 DEF Executed, updateViewID, NodeFields
    <3> HIDE DEF o, s
    <3>3. Blocks(n) \subseteq Blocks(o)
      BY <3>2 DEF Blocks, Holes, Stored
    <3>4. Loss(i, o)
      BY <3>3 DEF Loss
    <3> QED  BY <1>1, <3>1, <3>4 DEF o
  <2> QED  BY <1>8, <2>1, <2>2 DEF ExecuteNext
<1>9. ASSUME NEW i \in Learners, NEW m \in viewchanges, NEW orphan \in BOOLEAN,
             GetViewChange(i, m, orphan)
      PROVE  Loss(j, node'[j])
  <2> DEFINE s   == m.SequenceID
             h   == Handler(i, m, orphan)
             n   == CreateVCState(h, s)
             old == n.VCStates[s]
             vcs == [ViewChange(old, m) EXCEPT !.msgSent = @ \/ Answers(old, m)]
             nn  == [n EXCEPT !.VCStates[s] = vcs]
             M   == NewViewMsg(i, s, vcs)
             z   == Sleep(nn, "viewchange", M, orphan)
             p   == getPrimaryInfoByID(nn, nn.NextCandidateIdx)
  <2>1. s \in Seqs /\ m \in viewchanges \cup newviews
    BY DEF IInv
  <2>2. DOMAIN h = NodeFields /\ h.CommittedMsgs = node[i].CommittedMsgs
    BY <1>3 DEF Handler, StartThreadIfNotExists, NodeFields
  <2>3. DOMAIN n = NodeFields /\ n.CommittedMsgs = h.CommittedMsgs
    <3> HIDE DEF h
    <3> QED  BY <2>2 DEF CreateVCState, NodeFields
  <2>4. DOMAIN nn = NodeFields /\ nn.CommittedMsgs = n.CommittedMsgs
    <3> HIDE DEF n, vcs
    <3> QED  BY <2>3 DEF NodeFields
  <2>5. z.CommittedMsgs = nn.CommittedMsgs /\ p.CommittedMsgs = nn.CommittedMsgs
    <3> HIDE DEF nn, M
    <3> QED  BY <2>4 DEF Sleep, getPrimaryInfoByID, NodeFields
  <2> HIDE DEF z, p
  <2>6. Put(i, z) \/ Put(i, p)
    BY <1>9 DEF GetViewChange, z, p
  <2> HIDE DEF nn, n, h
  <2> QED  BY <1>2, <2>2, <2>3, <2>4, <2>5, <2>6
<1>10. ASSUME NEW i \in Learners, NEW m \in newviews, NEW orphan \in BOOLEAN,
              GetNewView(i, m, orphan)
       PROVE  Loss(j, node'[j])
  <2> DEFINE h == Handler(i, m, orphan)
             z == Sleep(h, "newview", m, orphan)
  <2>1. DOMAIN h = NodeFields /\ h.CommittedMsgs = node[i].CommittedMsgs
    BY <1>3 DEF Handler, StartThreadIfNotExists, NodeFields
  <2>2. z.CommittedMsgs = h.CommittedMsgs
    <3> HIDE DEF h
    <3> QED  BY <2>1 DEF Sleep, NodeFields
  <2>3. Put(i, z)
    BY <1>10 DEF GetNewView
  <2> HIDE DEF h, z
  <2> QED  BY <1>2, <2>1, <2>2, <2>3
<1>11. ASSUME NEW i \in Learners, NEW w \in node[i].asleep,
              RollbackForQuorum(i, w) \/ InstallNewView(i, w)
       PROVE  Loss(j, node'[j])
  <2>1. PICK o : Put(i, o) /\ Loss(i, o)
    BY <1>11, RollbackForQuorumLoss, InstallNewViewLoss
  <2> QED  BY <1>1, <2>1
<1> QED
  BY <1>4, <1>5, <1>6, <1>7, <1>8, <1>9, <1>10, <1>11 DEF Next, Handle, Wake

\* view.go: an executed block is lost only to a handler that wakes up, for its own or an
\* earlier sequence, or when FillHole starts at the last block.
THEOREM OnlyWakingHandlersRollBack == Spec => LossIsOrdered
<1>1. IInv /\ Sound /\ [Next]_vars =>
        [\A i \in Learners : \A k \in Blocks(node[i]) \ Blocks(node'[i]) :
           \E w \in node[i].asleep \ node'[i].asleep :
             \/ w.m.SequenceID <= k
             \/ w.kind = "newview" /\ w.m.Min_S >= k /\ \A b \in Blocks(node'[i]) : b < k]_vars
  BY StepLoss DEF Loss
<1> QED  BY <1>1, ViewChangeInvariant, PTL DEF Spec, LossIsOrdered
===============================================================================
