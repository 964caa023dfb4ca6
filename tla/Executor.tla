------------------------------- MODULE Executor -------------------------------
(***************************************************************************)
(* executeMsg of pbft/network/node.go: the one goroutine that turns the     *)
(* decisions of all sequences, which the handlers and timers put on         *)
(* MsgExecution in any order and possibly more than once, into the ordered  *)
(* CommittedMsgs, and that moves the view, the epoch and the threads along. *)
(* Its statements are separate steps where another goroutine reads what     *)
(* they write (Committed, StableCheckPoint, View.ID, EpochID).              *)
(***************************************************************************)
EXTENDS Integers, Sequences, FiniteSets

CONSTANTS MaxSeq,       \* bound on the sequence numbers
          QueueCap,     \* capacity of MsgExecution
          Blocks,       \* what a block may contain
          EpochLength   \* sequences per epoch, and views per epoch (10)

ASSUME ExecutorAssumption == /\ MaxSeq \in Nat \ {0}
                             /\ QueueCap \in Nat \ {0}
                             /\ EpochLength \in Nat \ {0}
                             /\ Blocks # {}

Seqs == 1..MaxSeq
PrepareMsg == [SequenceID : Seqs, block : Blocks]

VARIABLES MsgExecution, \* channel of the decisions
          pairs,        \* map: the decisions not executed yet
          CommittedMsgs,\* map: the ledger
          Committed,    \* Committed[s]: what the other goroutines look at
          StableCheckPoint,
          ViewID, EpochID, NextCandidateIdx,
          exited,       \* the sequences whose threads were told to exit
          pc,           \* the next statement of the executor
          offered       \* history: every <<sequence, block>> ever pushed

vars == <<MsgExecution, pairs, CommittedMsgs, Committed, StableCheckPoint,
          ViewID, EpochID, NextCandidateIdx, exited, pc, offered>>

ledger == <<CommittedMsgs, Committed>>
round  == <<ViewID, EpochID, NextCandidateIdx>>

Put(map, k, v) == [x \in DOMAIN map \cup {k} |-> IF x = k THEN v ELSE map[x]]
Delete(map, k) == [x \in DOMAIN map \ {k} |-> map[x]]

\* Mutant of updateViewID: the modulo is dropped.
updateViewIDNoModulo(s) == ViewID' = s

updateViewID(s)  == ViewID'  = s % EpochLength
updateEpochID(s) == EpochID' = s \div EpochLength

\* The length of the map is used as its last key.
msgTotalCnt    == Cardinality(DOMAIN CommittedMsgs)
lastSequenceID == IF msgTotalCnt > 0 THEN CommittedMsgs[msgTotalCnt].SequenceID ELSE 0

Init ==
  /\ MsgExecution = <<>>
  /\ pairs = <<>> /\ CommittedMsgs = <<>>
  /\ Committed = [s \in Seqs |-> 0]
  /\ StableCheckPoint = 0
  /\ ViewID = 0 /\ EpochID = 0 /\ NextCandidateIdx = EpochLength
  /\ exited = {}
  /\ pc = "receive"
  /\ offered = {}

\* A handler or a timer of sequence s hands over its decision: it looked at
\* Committed some time ago, or not at all, so it may come late and twice.
Push(s, b) ==
  /\ Len(MsgExecution) < QueueCap
  /\ MsgExecution' = Append(MsgExecution, [SequenceID |-> s, block |-> b])
  /\ offered' = offered \cup {<<s, b>>}
  /\ UNCHANGED <<pairs, ledger, StableCheckPoint, round, exited, pc>>

\* BroadCastNextPrepareMsgIfPrimary, called by the handlers of other sequences:
\* the other writer of the view and the epoch.
NextPrepare(s) ==
  /\ updateViewID(s - 1)
  /\ IF (s - 1) % EpochLength = 0 THEN updateEpochID(s - 1) ELSE EpochID' = EpochID
  /\ UNCHANGED <<MsgExecution, pairs, ledger, StableCheckPoint, NextCandidateIdx,
                 exited, pc, offered>>

\* Mutants of Receive: a late decision also replaces the block executed for its
\* sequence; a decision is filed as the next one whatever its sequence.
ReceivePatchesLedger ==
  /\ pc = "receive"
  /\ MsgExecution # <<>>
  /\ MsgExecution' = Tail(MsgExecution)
  /\ LET m == Head(MsgExecution)
     IN  /\ pairs' = Put(pairs, m.SequenceID, m)
         /\ CommittedMsgs' = IF m.SequenceID \in DOMAIN CommittedMsgs
                             THEN Put(CommittedMsgs, m.SequenceID, m) ELSE CommittedMsgs
  /\ pc' = "scan"
  /\ UNCHANGED <<Committed, StableCheckPoint, round, exited, offered>>

ReceiveAsNext ==
  /\ pc = "receive"
  /\ MsgExecution # <<>>
  /\ MsgExecution' = Tail(MsgExecution)
  /\ pairs' = Put(pairs, lastSequenceID + 1, Head(MsgExecution))
  /\ pc' = "scan"
  /\ UNCHANGED <<ledger, StableCheckPoint, round, exited, offered>>

Receive ==
  /\ pc = "receive"
  /\ MsgExecution # <<>>
  /\ MsgExecution' = Tail(MsgExecution)
  /\ pairs' = Put(pairs, Head(MsgExecution).SequenceID, Head(MsgExecution))
  /\ pc' = "scan"
  /\ UNCHANGED <<ledger, StableCheckPoint, round, exited, offered>>

\* Mutant of ScanEmpty: the map is made anew for every decision read.
ScanEmptyForgets ==
  /\ pc = "scan"
  /\ lastSequenceID + 1 \notin DOMAIN pairs
  /\ pc' = "receive"
  /\ pairs' = <<>>
  /\ UNCHANGED <<MsgExecution, ledger, StableCheckPoint, round, exited, offered>>

\* Nothing to execute: back to the channel.
ScanEmpty ==
  /\ pc = "scan"
  /\ lastSequenceID + 1 \notin DOMAIN pairs
  /\ pc' = "receive"
  /\ UNCHANGED <<MsgExecution, pairs, ledger, StableCheckPoint, round, exited, offered>>

\* Mutant of Store: whatever was decided is executed, its predecessor or not.
StoreAnyDecided ==
  /\ pc = "scan"
  /\ \E s \in DOMAIN pairs : CommittedMsgs' = Put(CommittedMsgs, s, pairs[s])
  /\ pc' = "publish"
  /\ UNCHANGED <<MsgExecution, pairs, Committed, StableCheckPoint, round, exited, offered>>

Store ==
  /\ pc = "scan"
  /\ lastSequenceID + 1 \in DOMAIN pairs
  /\ CommittedMsgs' = Put(CommittedMsgs, lastSequenceID + 1, pairs[lastSequenceID + 1])
  /\ pc' = "publish"
  /\ UNCHANGED <<MsgExecution, pairs, Committed, StableCheckPoint, round, exited, offered>>

\* Mutant of Publish: lastSequenceID is read again after Store.
PublishNext ==
  /\ pc = "publish"
  /\ Committed' = [Committed EXCEPT ![lastSequenceID + 1] = @ + 1]
  /\ pc' = "exit"
  /\ UNCHANGED <<MsgExecution, pairs, CommittedMsgs, StableCheckPoint, round, exited,
                 offered>>

\* The local lastSequenceID was read before Store: it is one less now.
Publish ==
  /\ pc = "publish"
  /\ Committed' = [Committed EXCEPT ![lastSequenceID] = @ + 1]
  /\ pc' = "exit"
  /\ UNCHANGED <<MsgExecution, pairs, CommittedMsgs, StableCheckPoint, round, exited,
                 offered>>

\* StableCheckPoint first, then the two exit channels of its thread.
Exit ==
  /\ pc = "exit"
  /\ StableCheckPoint' = lastSequenceID
  /\ exited' = exited \cup {StableCheckPoint'}
  /\ pairs' = Delete(pairs, lastSequenceID)
  /\ pc' = "advance"
  /\ UNCHANGED <<MsgExecution, ledger, round, offered>>

\* Mutant of Advance: one block per decision read, the inner loop is dropped.
AdvanceAndWait ==
  /\ pc = "advance"
  /\ updateViewID(StableCheckPoint)
  /\ updateEpochID(StableCheckPoint)
  /\ NextCandidateIdx' = IF StableCheckPoint % EpochLength = 0 THEN EpochLength
                         ELSE NextCandidateIdx
  /\ pc' = "receive"
  /\ UNCHANGED <<MsgExecution, pairs, ledger, StableCheckPoint, exited, offered>>

Advance ==
  /\ pc = "advance"
  /\ updateViewID(StableCheckPoint)
  /\ updateEpochID(StableCheckPoint)
  /\ NextCandidateIdx' = IF StableCheckPoint % EpochLength = 0 THEN EpochLength
                         ELSE NextCandidateIdx
  /\ pc' = "scan"
  /\ UNCHANGED <<MsgExecution, pairs, ledger, StableCheckPoint, exited, offered>>

executeMsg == Receive \/ ScanEmpty \/ Store \/ Publish \/ Exit \/ Advance

Next == \/ \E s \in Seqs, b \in Blocks : Push(s, b)
        \/ \E s \in Seqs : NextPrepare(s)
        \/ executeMsg

Spec == Init /\ [][Next]_vars

\* The executor goroutine is always scheduled again.
FairSpec == Spec /\ WF_vars(executeMsg)

------------------------------------------------------------------------------
\* Types: the maps are functions over the keys present.
TypeOK ==
  /\ MsgExecution \in Seq(PrepareMsg) /\ Len(MsgExecution) <= QueueCap
  /\ DOMAIN pairs \subseteq Seqs
  /\ \A s \in DOMAIN pairs : pairs[s] \in PrepareMsg
  /\ DOMAIN CommittedMsgs \subseteq Seqs
  /\ \A s \in DOMAIN CommittedMsgs : CommittedMsgs[s] \in PrepareMsg
  /\ Committed \in [Seqs -> Nat]
  /\ StableCheckPoint \in 0..MaxSeq
  /\ ViewID \in 0..(EpochLength - 1) /\ EpochID \in Nat
  /\ NextCandidateIdx \in Nat
  /\ exited \subseteq Seqs
  /\ pc \in {"receive", "scan", "publish", "exit", "advance"}
  /\ offered \subseteq Seqs \X Blocks

\* The ledger has no gap, so its length names its last block, and every block
\* sits at the place it was decided for.
Contiguous ==
  /\ DOMAIN CommittedMsgs = 1..msgTotalCnt
  /\ \A s \in DOMAIN CommittedMsgs : CommittedMsgs[s].SequenceID = s

\* What the other goroutines look at follows the ledger: a sequence is reported
\* committed once, only after its block is stored, and its thread is told to
\* exit only after that; and never is more than one sequence half-way.
PublishedInOrder ==
  /\ \A s \in Seqs : Committed[s] =
       IF s \in DOMAIN CommittedMsgs /\ ~(pc = "publish" /\ s = msgTotalCnt) THEN 1 ELSE 0
  /\ exited = 1..StableCheckPoint
  /\ StableCheckPoint = IF pc \in {"publish", "exit"} THEN msgTotalCnt - 1 ELSE msgTotalCnt

\* The executor waits for the channel only when the next sequence is undecided:
\* no executable block is left behind, in whatever order the decisions came.
NothingLeftBehind ==
  pc = "receive" => msgTotalCnt + 1 \notin DOMAIN pairs

\* A block once stored is never replaced, though decisions for its sequence may
\* still arrive (two handlers may both have seen Committed = 0).
Immutable ==
  [][\A s \in DOMAIN CommittedMsgs :
       s \in DOMAIN CommittedMsgs' /\ CommittedMsgs'[s] = CommittedMsgs[s]]_vars

\* The ledger the executor implements.
L == INSTANCE Ledger WITH
       log <- [s \in 1..msgTotalCnt |-> CommittedMsgs[s].block]

ImplementsLedger == L!Spec

\* Once every sequence up to s is decided, s is executed and reported.
EventuallyExecuted ==
  \A s \in Seqs : (\A k \in 1..s : \E b \in Blocks : <<k, b>> \in offered)
                    ~> Committed[s] = 1
===============================================================================
