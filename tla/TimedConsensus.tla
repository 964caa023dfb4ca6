---------------------------- MODULE TimedConsensus ----------------------------
(***************************************************************************)
(* Consensus with the timer thread of every followed replica: a timer fires *)
(* only if the thread armed it and did not stop it first, and a thread whose*)
(* loop is blocked arms nothing any more.  Every step is a step of Consensus*)
(* or one of the thread alone, so what holds of Consensus holds here; the   *)
(* thread matters for what must eventually happen.                           *)
(***************************************************************************)
EXTENDS Claims, Timers

CONSTANT Timely         \* the phases that time out only when nothing is in flight

ASSUME TimelyAssumption == Timely \subseteq Phase

VARIABLES thread,       \* thread[i]: the timer thread of replica i
          toStart       \* the replicas that have not started the Prepare timer

timedVars == <<vars, thread, toStart>>

TInit == Init /\ thread = [i \in Learners |-> NewThread] /\ toStart = Learners

\* Nothing is in flight to a replica that still works on the sequence.
Quiet == /\ toPrepare = {}
         /\ \A i \in Learners : ~Committed(i) =>
              /\ Senders(votes) \subseteq Senders(st[i].VoteMsgs)
              /\ collates \subseteq got[i]

Expires(i, p) == thread[i].timer[p] = "armed" /\ (p \in Timely => Quiet)

Threaded(i, t) == thread' = [thread EXCEPT ![i] = t] /\ toStart' = toStart

\* StartThreadIfNotExists publishes the State before it starts the timer, so the
\* handlers may run in between.
StartThread(i) == /\ i \in toStart
                  /\ toStart' = toStart \ {i}
                  /\ thread'  = [thread EXCEPT ![i] = SendStart(@, "Prepare")]
                  /\ UNCHANGED vars

TimerThread(i) == /\ \E t \in LoopOutcomes(thread[i]) : Threaded(i, t)
                  /\ UNCHANGED vars

TGetPrepare(i) == GetPrepare(i) /\ Threaded(i, thread[i])

\* Mutant of TPrepareVotes: the Vote phase is left to the Prepare timer.
TPrepareVotesNoVoteTimer(i) ==
  PrepareVotes(i) /\ Threaded(i, SendStop(thread[i], "Prepare"))

\* Mutant of TPrepareVotes: the wrong phase is stopped.
TPrepareVotesStopsVote(i) ==
  /\ PrepareVotes(i)
  /\ LET t == SendStop(thread[i], "Vote")
     IN  Threaded(i, IF Committed(i) THEN t ELSE SendStart(t, "Vote"))

TPrepareVotes(i) ==
  /\ PrepareVotes(i)
  /\ LET t == SendStop(thread[i], "Prepare")
     IN  Threaded(i, IF Committed(i) THEN t ELSE SendStart(t, "Vote"))

THandlePrepare(i) == \/ (TestPrepared(i) \/ RaisePrepared(i)) /\ Threaded(i, thread[i])
                     \/ TPrepareVotes(i)

TPrepareTimeout(i) ==
  /\ Expires(i, "Prepare")
  /\ PrepareTimeout(i)
  /\ Threaded(i, SendStart(SpendTimer(thread[i], "Prepare"), "Vote"))

\* The Vote and the Collate timer.
TTimeout(i, p) == /\ Expires(i, p)
                  /\ Timeout(i, p)
                  /\ Threaded(i, SpendTimer(thread[i], p))

\* What a waiter does after its timer fired sends no start and no stop.
TWaiter(i) == Waiter(i) /\ Threaded(i, thread[i])

TGetVote(i, v) ==
  /\ GetVote(i, v)
  /\ Threaded(i, IF VoteAnswer(st[i], v) = "NONE" THEN thread[i]
                 ELSE SendStart(SendStop(thread[i], "Vote"), "Collate"))

TGetCollate(i, c) ==
  /\ GetCollate(i, c)
  /\ Threaded(i, IF AdoptsCollate(i, c) THEN SendStop(thread[i], "Collate")
                 ELSE thread[i])

\* executeMsg stops a ViewChange timer that StartThreadIfNotExists never starts.
TExecute(i) == Execute(i) /\ Threaded(i, SendStop(thread[i], "ViewChange"))

TReceive(i) == \/ \E v \in votes    : TGetVote(i, v)
               \/ \E c \in collates : TGetCollate(i, c)

TExpire(i) == TPrepareTimeout(i) \/ \E p \in AQPhase : TTimeout(i, p)

TNext == \E i \in Learners :
           \/ StartThread(i) \/ TimerThread(i)
           \/ TGetPrepare(i) \/ THandlePrepare(i) \/ TReceive(i)
           \/ TExpire(i) \/ TWaiter(i)
           \/ TExecute(i)

TSpec == TInit /\ [][TNext]_timedVars

\* Every goroutine of a replica that has not executed the sequence keeps running,
\* the transport delivers, and a timer that is armed expires.  Once the sequence
\* is executed its goroutines exit and nothing more is owed.
Fairness ==
  \A i \in Learners :
    /\ WF_timedVars(StartThread(i))
    /\ WF_timedVars(~Committed(i) /\ TimerThread(i))
    /\ WF_timedVars(~Committed(i) /\ TGetPrepare(i))
    /\ WF_timedVars(~Committed(i) /\ THandlePrepare(i))
    /\ WF_timedVars(~Committed(i) /\ TReceive(i))
    /\ WF_timedVars(~Committed(i) /\ TExpire(i))
    /\ WF_timedVars(~Committed(i) /\ TWaiter(i))
    /\ WF_timedVars(TExecute(i))

FairSpec == TSpec /\ Fairness

------------------------------------------------------------------------------
\* The thread and the phases agree: a timer waits to expire only in a phase that
\* was started and whose timer has not fired, so no phase is timed out twice and
\* no expiry is lost on a phase that looks finished.
TimersAgree ==
  \A i \in Learners, p \in Phase :
    thread[i].timer[p] = "armed" => timer[i][p] = "on"

\* A loop that hangs although its replica has decided nothing hangs on a stop that
\* overtook its start: GetPrepare's "Prepare", sent before the thread's own start
\* was read, or the "Vote" of a full vote without quorum.  No other stop is sent
\* before there is a decision.
HangsBeforeDecision ==
  \A i \in Learners : thread[i].blocked /\ pushed[i] = {} =>
    \/ thread[i].timer["Prepare"] = "none" /\ st[i].PrepareMsg # Nil
    \/ thread[i].timer["Vote"] = "none" /\ st[i].TotalVoteMsg = N

\* With enough votes on their way a replica executes the sequence, even if its
\* Prepare timer is early, but for two accidents: the loop of its timer thread got
\* blocked, or both goroutines found Prepared at 0 and raised it to 2, at which no
\* collate is adopted.  Nothing else makes it miss the vote quorum, the vote timer,
\* the collates and the collate timer.
DecidesOrBlocks ==
  \A i \in Learners : <>(Committed(i) \/ thread[i].blocked \/ Prepared[i] > 1)

\* README.md:17: the correct members alone always reach a decision, though up to f
\* members do not take part (case B).
Decides == \A i \in Learners : <>Committed(i)
===============================================================================
