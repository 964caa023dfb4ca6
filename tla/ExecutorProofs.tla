---------------------------- MODULE ExecutorProofs ----------------------------
(***************************************************************************)
(* The executor keeps its ledger contiguous, published in order and         *)
(* immutable, and implements Ledger, for any number of sequences, any       *)
(* channel capacity and any order of decisions.                             *)
(***************************************************************************)
EXTENDS Executor, FiniteSetTheorems, SequenceTheorems, TLAPS

\* Every decision the executor holds was handed over, for the place it is kept at.
HeldWereOffered ==
  /\ \A k \in 1..Len(MsgExecution) :
       <<MsgExecution[k].SequenceID, MsgExecution[k].block>> \in offered
  /\ \A s \in DOMAIN pairs :
       pairs[s].SequenceID = s /\ <<s, pairs[s].block>> \in offered

\* Between storing a block and moving on, the ledger has a last block.
MidRound == pc \in {"publish", "exit", "advance"} => msgTotalCnt # 0

IInv == /\ TypeOK /\ Contiguous /\ PublishedInOrder /\ NothingLeftBehind
        /\ HeldWereOffered /\ MidRound

------------------------------------------------------------------------------
\* Under the invariant the length of the ledger is its last key (executeMsg
\* indexes the map with it).
LEMMA CountIsLast ==
  ASSUME TypeOK, Contiguous
  PROVE  /\ msgTotalCnt \in 0..MaxSeq
         /\ lastSequenceID = msgTotalCnt
<1>1. IsFiniteSet(Seqs) /\ Cardinality(Seqs) = MaxSeq
  BY FS_Interval, ExecutorAssumption DEF Seqs
<1>2. /\ IsFiniteSet(DOMAIN CommittedMsgs)
      /\ Cardinality(DOMAIN CommittedMsgs) <= MaxSeq
  BY <1>1, FS_Subset DEF TypeOK
<1>3. msgTotalCnt \in 0..MaxSeq
  BY <1>2, FS_CardinalityType, ExecutorAssumption DEF msgTotalCnt
<1>4. lastSequenceID = msgTotalCnt
  BY <1>3 DEF lastSequenceID, Contiguous
<1> QED  BY <1>3, <1>4

\* The length of a map depends on its keys only.
LEMMA CountOfInterval ==
  ASSUME NEW n \in Nat, DOMAIN CommittedMsgs' = 1..n
  PROVE  msgTotalCnt' = n
<1>1. Cardinality(1..n) = n
  BY FS_Interval
<1> QED  BY <1>1 DEF msgTotalCnt

LEMMA InitIInv == Init => IInv
<1> SUFFICES ASSUME Init PROVE IInv
  OBVIOUS
<1>1. DOMAIN CommittedMsgs = {} /\ DOMAIN pairs = {} /\ Len(MsgExecution) = 0
  BY DEF Init
<1>2. msgTotalCnt = 0
  BY <1>1, FS_EmptySet DEF msgTotalCnt
<1>3. TypeOK
  BY <1>1, ExecutorAssumption DEF Init, TypeOK, Seqs
<1>4. Contiguous /\ PublishedInOrder /\ NothingLeftBehind
  BY <1>1, <1>2 DEF Init, Contiguous, PublishedInOrder, NothingLeftBehind
<1>5. HeldWereOffered /\ MidRound
  BY <1>1, <1>2 DEF Init, HeldWereOffered, MidRound
<1> QED  BY <1>3, <1>4, <1>5 DEF IInv

------------------------------------------------------------------------------
(* One lemma per action that changes what the invariant speaks of.          *)

LEMMA PushIInv ==
  ASSUME IInv, NEW s \in Seqs, NEW b \in Blocks, Push(s, b)
  PROVE  IInv'
<1> DEFINE m == [SequenceID |-> s, block |-> b]
<1> USE DEF IInv
<1>1. m \in PrepareMsg
  BY DEF PrepareMsg
<1>2. /\ MsgExecution' \in Seq(PrepareMsg)
      /\ Len(MsgExecution') = Len(MsgExecution) + 1
      /\ \A k \in 1..Len(MsgExecution) : MsgExecution'[k] = MsgExecution[k]
      /\ MsgExecution'[Len(MsgExecution) + 1] = m
  BY <1>1, AppendProperties DEF Push, TypeOK
<1>3. Len(MsgExecution) \in Nat
  BY LenProperties DEF TypeOK
<1>4. TypeOK'
  BY <1>2, <1>3, ExecutorAssumption DEF TypeOK, Push, ledger, round
<1>5. msgTotalCnt' = msgTotalCnt
  BY DEF Push, ledger, msgTotalCnt
<1>6. Contiguous' /\ PublishedInOrder' /\ NothingLeftBehind' /\ MidRound'
  BY <1>5 DEF Push, ledger, Contiguous, PublishedInOrder, NothingLeftBehind, MidRound
<1>7. HeldWereOffered'
  BY <1>2, <1>3 DEF HeldWereOffered, Push
<1> QED  BY <1>4, <1>6, <1>7

LEMMA ReceiveIInv ==
  ASSUME IInv, Receive
  PROVE  IInv'
<1> DEFINE m == Head(MsgExecution)
<1> USE DEF IInv
<1>1. /\ m \in PrepareMsg /\ m = MsgExecution[1]
      /\ MsgExecution' \in Seq(PrepareMsg)
      /\ Len(MsgExecution') = Len(MsgExecution) - 1
      /\ \A k \in 1..Len(MsgExecution') : MsgExecution'[k] = MsgExecution[k + 1]
      /\ Len(MsgExecution) \in Nat \ {0}
  BY HeadTailProperties, LenProperties, EmptySeq DEF Receive, TypeOK
<1>2. /\ DOMAIN pairs' = DOMAIN pairs \cup {m.SequenceID}
      /\ \A s \in DOMAIN pairs' :
           pairs'[s] = IF s = m.SequenceID THEN m ELSE pairs[s]
  BY DEF Receive, Put
<1>3. TypeOK'
  <2>1. DOMAIN pairs' \subseteq Seqs /\ \A s \in DOMAIN pairs' : pairs'[s] \in PrepareMsg
    BY <1>1, <1>2 DEF TypeOK, PrepareMsg
  <2> QED  BY <1>1, <2>1, ExecutorAssumption DEF TypeOK, Receive, ledger, round
<1>4. msgTotalCnt' = msgTotalCnt
  BY DEF Receive, ledger, msgTotalCnt
<1>5. Contiguous' /\ PublishedInOrder' /\ NothingLeftBehind' /\ MidRound'
  BY <1>4 DEF Receive, ledger, Contiguous, PublishedInOrder, NothingLeftBehind, MidRound
<1>6. HeldWereOffered'
  BY <1>1, <1>2 DEF HeldWereOffered, Receive
<1> QED  BY <1>3, <1>5, <1>6

LEMMA StoreIInv ==
  ASSUME IInv, Store
  PROVE  IInv' /\ msgTotalCnt' = msgTotalCnt + 1
<1> DEFINE n == msgTotalCnt + 1
<1> USE DEF IInv
<1>1. msgTotalCnt \in 0..MaxSeq /\ lastSequenceID = msgTotalCnt
  BY CountIsLast
<1>2. n \in DOMAIN pairs /\ n \in Seqs
  BY <1>1 DEF Store, TypeOK
<1>3. /\ DOMAIN CommittedMsgs' = DOMAIN CommittedMsgs \cup {n}
      /\ \A s \in DOMAIN CommittedMsgs' :
           CommittedMsgs'[s] = IF s = n THEN pairs[n] ELSE CommittedMsgs[s]
  BY <1>1 DEF Store, Put
<1>4. DOMAIN CommittedMsgs' = 1..n
  BY <1>1, <1>3 DEF Contiguous
<1>5. msgTotalCnt' = n
  BY <1>1, <1>4, CountOfInterval
<1>6. TypeOK'
  BY <1>2, <1>3 DEF TypeOK, Store, round
<1>7. Contiguous'
  BY <1>2, <1>3, <1>4, <1>5 DEF Contiguous, HeldWereOffered
<1>8. PublishedInOrder'
  BY <1>1, <1>3, <1>4, <1>5 DEF PublishedInOrder, Store, Contiguous
<1>9. NothingLeftBehind' /\ HeldWereOffered' /\ MidRound'
  BY <1>1, <1>5 DEF NothingLeftBehind, HeldWereOffered, MidRound, Store
<1> QED  BY <1>5, <1>6, <1>7, <1>8, <1>9

LEMMA PublishIInv ==
  ASSUME IInv, Publish
  PROVE  IInv'
<1> USE DEF IInv
<1>1. msgTotalCnt \in 0..MaxSeq /\ lastSequenceID = msgTotalCnt /\ msgTotalCnt # 0
  BY CountIsLast DEF Publish, MidRound
<1>2. msgTotalCnt' = msgTotalCnt
  BY DEF Publish, msgTotalCnt
<1>3. TypeOK'
  BY <1>1 DEF TypeOK, Publish, round, Seqs
<1>4. PublishedInOrder'
  BY <1>1, <1>2 DEF PublishedInOrder, Publish, TypeOK, Contiguous, Seqs
<1>5. Contiguous' /\ NothingLeftBehind' /\ HeldWereOffered' /\ MidRound'
  BY <1>2 DEF Contiguous, NothingLeftBehind, HeldWereOffered, MidRound, Publish
<1> QED  BY <1>3, <1>4, <1>5

LEMMA ExitIInv ==
  ASSUME IInv, Exit
  PROVE  IInv'
<1> USE DEF IInv
<1>1. msgTotalCnt \in 0..MaxSeq /\ lastSequenceID = msgTotalCnt /\ msgTotalCnt # 0
  BY CountIsLast DEF Exit, MidRound
<1>2. msgTotalCnt' = msgTotalCnt
  BY DEF Exit, ledger, msgTotalCnt
<1>3. /\ DOMAIN pairs' = DOMAIN pairs \ {msgTotalCnt}
      /\ \A s \in DOMAIN pairs' : pairs'[s] = pairs[s]
  BY <1>1 DEF Exit, Delete
<1>4. StableCheckPoint' = msgTotalCnt /\ exited' = exited \cup {msgTotalCnt}
  BY <1>1 DEF Exit
<1>5. TypeOK'
  BY <1>1, <1>3, <1>4 DEF TypeOK, Exit, ledger, round, Seqs
<1>6. PublishedInOrder'
  BY <1>1, <1>2, <1>4 DEF PublishedInOrder, Exit, ledger, Contiguous
<1>7. HeldWereOffered'
  BY <1>3 DEF HeldWereOffered, Exit
<1>8. Contiguous' /\ NothingLeftBehind' /\ MidRound'
  BY <1>1, <1>2 DEF Contiguous, NothingLeftBehind, MidRound, Exit, ledger
<1> QED  BY <1>5, <1>6, <1>7, <1>8

\* The steps that leave pairs, the ledger and the channel alone.
LEMMA ControlIInv ==
  ASSUME IInv, \/ ScanEmpty \/ Advance \/ UNCHANGED vars
               \/ \E s \in Seqs : NextPrepare(s)
  PROVE  IInv'
<1> USE DEF IInv
<1>1. msgTotalCnt \in 0..MaxSeq /\ lastSequenceID = msgTotalCnt
  BY CountIsLast
<1>2. CASE ScanEmpty
  <2>1. msgTotalCnt' = msgTotalCnt
    BY <1>2 DEF ScanEmpty, ledger, msgTotalCnt
  <2>2. TypeOK' /\ Contiguous' /\ HeldWereOffered'
    BY <1>2, <2>1 DEF ScanEmpty, ledger, round, TypeOK, Contiguous, HeldWereOffered
  <2>3. PublishedInOrder' /\ NothingLeftBehind' /\ MidRound'
    BY <1>1, <1>2, <2>1
    DEF ScanEmpty, ledger, PublishedInOrder, NothingLeftBehind, MidRound
  <2> QED  BY <2>2, <2>3
<1>3. CASE Advance
  <2>1. msgTotalCnt' = msgTotalCnt
    BY <1>3 DEF Advance, ledger, msgTotalCnt
  <2>2. /\ StableCheckPoint % EpochLength \in 0..(EpochLength - 1)
        /\ StableCheckPoint \div EpochLength \in Nat
    <3>1. StableCheckPoint \in Nat
      BY DEF TypeOK
    <3> HIDE DEF IInv
    <3> QED  BY <3>1, ExecutorAssumption
  <2>3. TypeOK'
    BY <1>3, <2>2, ExecutorAssumption
    DEF Advance, ledger, TypeOK, updateViewID, updateEpochID
  <2>4. Contiguous' /\ PublishedInOrder' /\ NothingLeftBehind'
    BY <1>3, <2>1 DEF Advance, ledger, Contiguous, PublishedInOrder, NothingLeftBehind
  <2>5. HeldWereOffered' /\ MidRound'
    BY <1>3, <2>1 DEF Advance, HeldWereOffered, MidRound
  <2> QED  BY <2>3, <2>4, <2>5
<1>4. CASE \E s \in Seqs : NextPrepare(s)
  <2> PICK s \in Seqs : NextPrepare(s)
    BY <1>4
  <2>1. msgTotalCnt' = msgTotalCnt
    BY DEF NextPrepare, ledger, msgTotalCnt
  <2>2. (s - 1) % EpochLength \in 0..(EpochLength - 1) /\ (s - 1) \div EpochLength \in Nat
    BY ExecutorAssumption DEF Seqs
  <2>3. TypeOK'
    BY <2>2 DEF NextPrepare, ledger, TypeOK, updateViewID, updateEpochID
  <2>4. Contiguous' /\ PublishedInOrder' /\ NothingLeftBehind'
    BY <2>1 DEF NextPrepare, ledger, Contiguous, PublishedInOrder, NothingLeftBehind
  <2>5. HeldWereOffered' /\ MidRound'
    BY <2>1 DEF NextPrepare, HeldWereOffered, MidRound
  <2> QED  BY <2>3, <2>4, <2>5
<1>5. CASE UNCHANGED vars
  <2>1. msgTotalCnt' = msgTotalCnt
    BY <1>5 DEF vars, ledger, msgTotalCnt
  <2> QED
    BY <1>5, <2>1 DEF vars, ledger, round, TypeOK, Contiguous, PublishedInOrder,
                      NothingLeftBehind, HeldWereOffered, MidRound
<1> QED  BY <1>2, <1>3, <1>4, <1>5

LEMMA NextIInv ==
  ASSUME IInv, [Next]_vars
  PROVE  IInv'
<1>1. CASE \E s \in Seqs, b \in Blocks : Push(s, b)
  BY <1>1, PushIInv
<1>2. CASE Receive
  BY <1>2, ReceiveIInv
<1>3. CASE Store
  BY <1>3, StoreIInv
<1>4. CASE Publish
  BY <1>4, PublishIInv
<1>5. CASE Exit
  BY <1>5, ExitIInv
<1>6. CASE \/ ScanEmpty \/ Advance \/ UNCHANGED vars \/ \E s \in Seqs : NextPrepare(s)
  BY <1>6, ControlIInv
<1> QED  BY <1>1, <1>2, <1>3, <1>4, <1>5, <1>6 DEF Next, executeMsg

\* The inductive invariant holds of every behaviour of the executor.
THEOREM ExecutorInvariant == Spec => []IInv
<1> QED  BY InitIInv, NextIInv, PTL DEF Spec

\* The maps, channels and counters of the executor keep their types.
THEOREM ExecutorTypeCorrect == Spec => []TypeOK
<1> QED  BY ExecutorInvariant, PTL DEF IInv

\* CommittedMsgs has no gap and every block sits at its own sequence number.
THEOREM LedgerContiguous == Spec => []Contiguous
<1> QED  BY ExecutorInvariant, PTL DEF IInv

\* Committed, StableCheckPoint and the exits follow the ledger in order.
THEOREM LedgerPublishedInOrder == Spec => []PublishedInOrder
<1> QED  BY ExecutorInvariant, PTL DEF IInv

\* An idle executor has no executable decision left in pairs.
THEOREM ExecutorDrains == Spec => []NothingLeftBehind
<1> QED  BY ExecutorInvariant, PTL DEF IInv

------------------------------------------------------------------------------
(* A stored block is never replaced.                                        *)

LEMMA StepImmutable ==
  ASSUME IInv, [Next]_vars
  PROVE  \A s \in DOMAIN CommittedMsgs :
           s \in DOMAIN CommittedMsgs' /\ CommittedMsgs'[s] = CommittedMsgs[s]
<1>1. CASE Store
  <2>1. msgTotalCnt \in 0..MaxSeq /\ lastSequenceID = msgTotalCnt
    BY CountIsLast DEF IInv
  <2>2. lastSequenceID + 1 \notin DOMAIN CommittedMsgs
    BY <2>1 DEF IInv, Contiguous
  <2> QED  BY <1>1, <2>2 DEF Store, Put
<1>2. CASE ~Store
  BY <1>2 DEF Next, executeMsg, Push, NextPrepare, Receive, ScanEmpty, Publish, Exit,
              Advance, vars, ledger
<1> QED  BY <1>1, <1>2

\* No decision, however late or repeated, replaces a block of the ledger.
THEOREM LedgerImmutable == Spec => Immutable
<1> QED  BY ExecutorInvariant, StepImmutable, PTL DEF Spec, Immutable

------------------------------------------------------------------------------
(* Refinement: Store is Ledger's Extend, Push its Offer, the rest stutters. *)

\* The ledger the executor stands for.
Log == [s \in 1..msgTotalCnt |-> CommittedMsgs[s].block]

LogOK == Log \in Seq(Blocks) /\ Len(Log) = msgTotalCnt

LEMMA LogIsSeq == IInv => LogOK
<1> SUFFICES ASSUME IInv PROVE Log \in Seq(Blocks) /\ Len(Log) = msgTotalCnt
  BY DEF LogOK
<1>1. msgTotalCnt \in Nat
  BY CountIsLast DEF IInv
<1>2. \A s \in 1..msgTotalCnt : CommittedMsgs[s].block \in Blocks
  BY DEF IInv, TypeOK, Contiguous, PrepareMsg
<1>3. Log \in [1..msgTotalCnt -> Blocks]
  BY <1>2 DEF Log
<1> QED  BY <1>1, <1>3

LEMMA StoreExtends ==
  ASSUME IInv, Store
  PROVE  \E b \in Blocks : L!Extend(b)
<1> DEFINE n == msgTotalCnt + 1
           b == pairs[n].block
<1>1. msgTotalCnt \in 0..MaxSeq /\ lastSequenceID = msgTotalCnt
  BY CountIsLast DEF IInv
<1>2. IInv' /\ msgTotalCnt' = n
  BY StoreIInv
<1>3. b \in Blocks /\ <<n, b>> \in offered
  BY <1>1 DEF IInv, Store, TypeOK, PrepareMsg, HeldWereOffered
<1>4. /\ Log \in Seq(Blocks) /\ Len(Log) = msgTotalCnt
      /\ Log' \in Seq(Blocks) /\ Len(Log') = n
  <2>1. LogOK /\ LogOK'
    BY <1>2, LogIsSeq, PTL
  <2> QED  BY <1>2, <2>1 DEF LogOK
<1>5. \A s \in 1..n : Log'[s] = IF s = n THEN b ELSE Log[s]
  BY <1>1, <1>2 DEF Log, Store, Put, IInv, Contiguous
<1>6. Log' = Append(Log, b)
  <2>1. /\ Append(Log, b) \in Seq(Blocks) /\ Len(Append(Log, b)) = n
        /\ \A s \in 1..msgTotalCnt : Append(Log, b)[s] = Log[s]
        /\ Append(Log, b)[n] = b
    BY <1>3, <1>4, AppendProperties
  <2>2. \A s \in 1..n : Log'[s] = Append(Log, b)[s]
    BY <1>1, <1>5, <2>1
  <2> QED  BY <1>4, <2>1, <2>2, SeqEqual
<1>7. offered' = offered
  BY DEF Store
<1> QED  BY <1>3, <1>4, <1>6, <1>7 DEF L!Extend, Log

LEMMA StepRefines ==
  ASSUME IInv, [Next]_vars
  PROVE  [L!Next]_<<Log, offered>>
<1>1. CASE Store
  BY <1>1, StoreExtends DEF L!Next
<1>2. CASE \E s \in Seqs, b \in Blocks : Push(s, b)
  <2> PICK s \in Seqs, b \in Blocks : Push(s, b)
    BY <1>2
  <2>1. Log' = Log
    BY DEF Push, ledger, Log, msgTotalCnt
  <2>2. offered' = offered \cup {<<s, b>>}
    BY DEF Push
  <2> QED  BY <2>1, <2>2 DEF L!Next, L!Offer, Log
<1>3. CASE ~Store /\ ~\E s \in Seqs, b \in Blocks : Push(s, b)
  <2>1. CommittedMsgs' = CommittedMsgs /\ offered' = offered
    BY <1>3 DEF Next, executeMsg, NextPrepare, Receive, ScanEmpty, Publish, Exit,
                Advance, vars, ledger
  <2> QED  BY <2>1 DEF Log, msgTotalCnt
<1> QED  BY <1>1, <1>2, <1>3

\* The executor implements the append-only ledger.
THEOREM ExecutorImplementsLedger == Spec => ImplementsLedger
<1>1. Init => L!Init
  <2> SUFFICES ASSUME Init PROVE L!Init
    OBVIOUS
  <2>1. DOMAIN CommittedMsgs = {}
    BY DEF Init
  <2>2. msgTotalCnt = 0
    BY <2>1, FS_EmptySet DEF msgTotalCnt
  <2>3. Log = <<>>
    BY <2>2 DEF Log
  <2> QED  BY <2>3 DEF Init, L!Init, Log
<1>2. IInv /\ [Next]_vars => [L!Next]_<<Log, offered>>
  BY StepRefines
<1> QED  BY <1>1, <1>2, ExecutorInvariant, PTL DEF Spec, ImplementsLedger, L!Spec, Log
===============================================================================
