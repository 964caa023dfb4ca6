------------------------- MODULE TimedConsensusProofs -------------------------
(***************************************************************************)
(* A sequence with the timer threads of its replicas is a sequence, so what *)
(* is proved of Consensus holds with them, too; the threads agree with the  *)
(* phases; and a loop that hangs early hangs on a stop that overtook its     *)
(* start.                                                                    *)
(***************************************************************************)
EXTENDS TimedConsensus, ConsensusProofs, SequenceTheorems

\* A phase that was never started is unknown to the thread and is not about to be
\* known; a phase whose timer has fired is spent.
PhaseOf(p, state, t) ==
  /\ state = "off" => t.timer[p] = "none" /\ \A k \in 1..Len(t.startCh) : t.startCh[k] # p
  /\ state \notin {"off", "on"} => t.timer[p] = "spent"

Agree(timers, t) ==
  /\ timers["Prepare"] # "off"
  /\ \A p \in Phase : PhaseOf(p, timers[p], t)

TIInv == /\ TypeOK
         /\ thread \in [Learners -> Thread] /\ toStart \subseteq Learners
         /\ \A i \in Learners : Agree(timer[i], thread[i])

------------------------------------------------------------------------------
\* Every step is a step of Consensus, or one of a thread alone.
LEMMA TStepRefines == [TNext]_timedVars => [Next]_vars
<1> SUFFICES ASSUME TNext PROVE [Next]_vars
  BY DEF timedVars
<1> PICK i \in Learners :
       \/ StartThread(i) \/ TimerThread(i)
       \/ TGetPrepare(i) \/ THandlePrepare(i) \/ TReceive(i)
       \/ TExpire(i) \/ TWaiter(i)
       \/ TExecute(i)
  BY DEF TNext
<1>1. CASE StartThread(i) \/ TimerThread(i)
  BY <1>1 DEF StartThread, TimerThread
<1>2. CASE TGetPrepare(i) \/ THandlePrepare(i) \/ TWaiter(i) \/ TExecute(i)
  BY <1>2 DEF Next, TGetPrepare, THandlePrepare, HandlePrepare, TPrepareVotes, TWaiter,
              TExecute
<1>3. CASE TReceive(i)
  BY <1>3 DEF Next, TReceive, Receive, TGetVote, TGetCollate
<1>4. CASE TExpire(i)
  BY <1>4 DEF Next, TExpire, Expire, TPrepareTimeout, TTimeout
<1> QED  BY <1>1, <1>2, <1>3, <1>4

\* The timer thread only takes steps away: replicas whose timers expire through
\* startTransitionWithDeadline behave as those whose timers expire at any time.
THEOREM TimedImplementsConsensus == TSpec => Spec
<1>1. TInit => Init
  BY DEF TInit
<1> QED  BY <1>1, TStepRefines, PTL DEF TSpec, Spec

\* Hence, with the timer threads, no decision is taken on null and reject votes
\* alone, and none on a nil PREPARE.
THEOREM TimedDecisionsAreValid == TSpec => []Validity
BY TimedImplementsConsensus, DecisionsAreValid, PTL

\* And a replica announces a vote quorum at most once.
THEOREM TimedOneVoteQuorum == TSpec => []VoteQuorumOnce
BY TimedImplementsConsensus, OneVoteQuorum, PTL

------------------------------------------------------------------------------
(* The operations on a thread.                                              *)

LEMMA SendStartAgrees ==
  ASSUME NEW t \in Thread, NEW q \in LoopPhase
  PROVE  /\ SendStart(t, q) \in Thread
         /\ \A p \in Phase, s \in TimerState :
              PhaseOf(p, s, t) /\ (s = "off" => p # q) => PhaseOf(p, s, SendStart(t, q))
<1> DEFINE u == [t EXCEPT !.startCh = Append(@, q)]
<1>1. SendStart(t, q) = u
  BY DEF SendStart
<1>2. t.startCh \in Seq(LoopPhase)
  BY DEF Thread
<1>3. /\ Append(t.startCh, q) \in Seq(LoopPhase)
      /\ \A k \in 1..Len(Append(t.startCh, q)) :
           \/ k \in 1..Len(t.startCh) /\ Append(t.startCh, q)[k] = t.startCh[k]
           \/ Append(t.startCh, q)[k] = q
  BY <1>2, AppendProperties
<1>4. u \in Thread /\ u.timer = t.timer /\ u.startCh = Append(t.startCh, q)
  BY <1>3 DEF Thread
<1> HIDE DEF u
<1>5. ASSUME NEW p \in Phase, NEW s \in TimerState, PhaseOf(p, s, t), s = "off" => p # q
      PROVE  PhaseOf(p, s, u)
  BY <1>3, <1>4, <1>5 DEF PhaseOf
<1> QED  BY <1>1, <1>4, <1>5

LEMMA SendStopAgrees ==
  ASSUME NEW t \in Thread, NEW q \in LoopPhase
  PROVE  /\ SendStop(t, q) \in Thread
         /\ \A p \in Phase, s \in TimerState :
              PhaseOf(p, s, t) => PhaseOf(p, s, SendStop(t, q))
<1> DEFINE u == [t EXCEPT !.stopCh = Append(@, q)]
<1>1. SendStop(t, q) = u
  BY DEF SendStop
<1>2. Append(t.stopCh, q) \in Seq(LoopPhase)
  BY AppendProperties DEF Thread
<1>3. u \in Thread /\ u.timer = t.timer /\ u.startCh = t.startCh
  BY <1>2 DEF Thread
<1> HIDE DEF u
<1> QED  BY <1>1, <1>3 DEF PhaseOf

LEMMA SpendTimerAgrees ==
  ASSUME NEW t \in Thread, NEW q \in LoopPhase
  PROVE  /\ SpendTimer(t, q) \in Thread
         /\ SpendTimer(t, q).timer[q] = "spent"
         /\ \A p \in Phase, s \in TimerState :
              PhaseOf(p, s, t) /\ (s = "off" => p # q) => PhaseOf(p, s, SpendTimer(t, q))
<1> DEFINE u == [t EXCEPT !.timer[q] = "spent"]
<1>1. /\ u \in Thread /\ u.startCh = t.startCh /\ u.stopCh = t.stopCh
      /\ u.blocked = t.blocked
      /\ \A p \in LoopPhase : u.timer[p] = IF p = q THEN "spent" ELSE t.timer[p]
  BY DEF Thread, LoopTimer
<1> HIDE DEF u
<1>2. Phase \subseteq LoopPhase
  BY DEF Phase, LoopPhase
<1>3. SpendTimer(t, q) = u
  BY DEF SpendTimer, u
<1> QED  BY <1>1, <1>2, <1>3 DEF PhaseOf

\* One turn of the loop arms only what was waiting in TimerStartCh.
LEMMA LoopAgrees ==
  ASSUME NEW t \in Thread, NEW u \in LoopOutcomes(t)
  PROVE  /\ u \in Thread
         /\ \A p \in Phase, s \in TimerState : PhaseOf(p, s, t) => PhaseOf(p, s, u)
<1>1. Phase \subseteq LoopPhase /\ t.startCh \in Seq(LoopPhase) /\ t.stopCh \in Seq(LoopPhase)
  BY DEF Phase, LoopPhase, Thread
<1>2. CASE t.startCh # <<>> /\ u = LoopStart(t)
  <2> DEFINE q == Head(t.startCh)
             w == [t EXCEPT !.startCh = Tail(@)]
             a == [w EXCEPT !.timer[q] = "armed"]
  <2>1. /\ q \in LoopPhase /\ Len(t.startCh) \in Nat \ {0} /\ q = t.startCh[1]
        /\ Tail(t.startCh) \in Seq(LoopPhase)
        /\ \A k \in 1..Len(Tail(t.startCh)) :
             k + 1 \in 1..Len(t.startCh) /\ Tail(t.startCh)[k] = t.startCh[k + 1]
    BY <1>1, <1>2, HeadTailProperties, EmptySeq, LenProperties
  <2>2. /\ w \in Thread /\ w.timer = t.timer /\ w.startCh = Tail(t.startCh)
        /\ w.stopCh = t.stopCh /\ w.blocked = t.blocked
    BY <2>1 DEF Thread
  <2>4. u = IF w.timer[q] = "none" THEN a ELSE w
    BY <1>2 DEF LoopStart, ArmTimer
  <2> HIDE DEF w, q
  <2>5. /\ a \in Thread /\ a.startCh = w.startCh /\ a.stopCh = w.stopCh
        /\ a.blocked = w.blocked
        /\ \A p \in LoopPhase : a.timer[p] = IF p = q THEN "armed" ELSE w.timer[p]
    BY <2>1, <2>2 DEF Thread, LoopTimer
  <2> HIDE DEF a
  <2>6. u \in Thread /\ u.startCh = Tail(t.startCh)
    BY <2>2, <2>4, <2>5
  <2>7. \A p \in LoopPhase :
          u.timer[p] = t.timer[p] \/ (p = q /\ t.timer[p] = "none")
    BY <2>2, <2>4, <2>5
  <2>8. ASSUME NEW p \in Phase, NEW s \in TimerState, PhaseOf(p, s, t)
        PROVE  PhaseOf(p, s, u)
    <3>1. CASE s = "off"
      <4>1. t.timer[p] = "none" /\ \A k \in 1..Len(t.startCh) : t.startCh[k] # p
        BY <2>8, <3>1 DEF PhaseOf
      <4>2. p # q
        BY <2>1, <4>1
      <4> QED  BY <1>1, <2>1, <2>6, <2>7, <3>1, <4>1, <4>2 DEF PhaseOf
    <3>2. CASE s # "off"
      BY <1>1, <2>7, <2>8, <3>2 DEF PhaseOf
    <3> QED  BY <3>1, <3>2
  <2> QED  BY <2>6, <2>8
<1>3. CASE t.stopCh # <<>> /\ u \in LoopStop(t)
  <2> DEFINE q == Head(t.stopCh)
             w == [t EXCEPT !.stopCh = Tail(@)]
             b == [w EXCEPT !.blocked = TRUE]
  <2>1. q \in LoopPhase /\ Tail(t.stopCh) \in Seq(LoopPhase)
    BY <1>1, <1>3, HeadTailProperties
  <2>2. w \in Thread /\ w.timer = t.timer /\ w.startCh = t.startCh
    BY <2>1 DEF Thread
  <2>4. \/ w.timer[q] = "none" /\ u = b
        \/ w.timer[q] = "armed" /\ u = SpendTimer(w, q)
        \/ u = w
    BY <1>3, <2>1 DEF LoopStop, StopTimer
  <2> HIDE DEF w, q
  <2>5. \A p \in Phase, s \in TimerState : PhaseOf(p, s, t) => PhaseOf(p, s, w)
    BY <2>2 DEF PhaseOf
  <2>6. CASE u = b
    <3>1. b.timer = w.timer /\ b.startCh = w.startCh /\ b \in Thread
      BY <2>2 DEF Thread
    <3> HIDE DEF b
    <3>2. \A p \in Phase, s \in TimerState : PhaseOf(p, s, w) => PhaseOf(p, s, b)
      BY <3>1 DEF PhaseOf
    <3> QED  BY <2>5, <2>6, <3>1, <3>2
  <2>7. CASE w.timer[q] = "armed" /\ u = SpendTimer(w, q)
    <3>1. \A p \in Phase, s \in TimerState : PhaseOf(p, s, w) => (s = "off" => p # q)
      BY <2>7 DEF PhaseOf
    <3> QED  BY <2>1, <2>2, <2>5, <2>7, <3>1, SpendTimerAgrees
  <2>8. CASE u = w
    BY <2>2, <2>5, <2>8
  <2> QED  BY <2>4, <2>6, <2>7, <2>8
<1> QED  BY <1>2, <1>3 DEF LoopOutcomes

------------------------------------------------------------------------------
(* The phases and the threads step by step.                                 *)

\* The thread of one replica changes, and its timers with it.
LEMMA ThreadStep ==
  ASSUME TIInv, TypeOK', toStart' \subseteq Learners,
         NEW i \in Learners, NEW t \in Thread,
         thread' = [thread EXCEPT ![i] = t],
         Agree(timer'[i], t),
         \A j \in Learners \ {i} : timer'[j] = timer[j]
  PROVE  TIInv'
<1>1. thread \in [Learners -> Thread]
  BY DEF TIInv
<1>2. thread' \in [Learners -> Thread] /\ thread'[i] = t
      /\ \A j \in Learners \ {i} : thread'[j] = thread[j]
  BY <1>1
<1>3. \A j \in Learners : Agree(timer'[j], thread'[j])
  <2> SUFFICES ASSUME NEW j \in Learners
               PROVE  Agree(timer'[j], thread'[j])
    OBVIOUS
  <2>1. CASE j = i
    BY <1>2, <2>1
  <2>2. CASE j # i
    BY <1>2, <2>2 DEF TIInv
  <2> QED  BY <2>1, <2>2
<1> QED  BY <1>2, <1>3 DEF TIInv

LEMMA PhaseNames ==
  /\ Phase \subseteq LoopPhase /\ "ViewChange" \in LoopPhase
  /\ {"Prepare", "Vote", "Collate"} \subseteq Phase
BY DEF Phase, LoopPhase

\* A phase that is started: its thread is told after its timer is set.
LEMMA StartAgrees ==
  ASSUME NEW t \in Thread, NEW q \in Phase, q # "Prepare",
         NEW old \in [Phase -> TimerState], Agree(old, t),
         NEW new, new \in [Phase -> TimerState], new[q] # "off",
         \A p \in Phase \ {q} : new[p] = old[p],
         new[q] = old[q] \/ new[q] = "on"
  PROVE  /\ SendStart(t, q) \in Thread
         /\ Agree(new, SendStart(t, q))
<1>1. q \in LoopPhase
  BY PhaseNames
<1>2. new["Prepare"] # "off"
  BY PhaseNames DEF Agree
<1>3. \A p \in Phase : PhaseOf(p, new[p], t)
  BY DEF Agree, PhaseOf
<1>4. \A p \in Phase : PhaseOf(p, new[p], SendStart(t, q))
  BY <1>1, <1>3, SendStartAgrees
<1> QED  BY <1>1, <1>2, <1>4, SendStartAgrees DEF Agree

\* What StartTimer does to the timers of the phases.
LEMMA StartTimerSets ==
  ASSUME TypeOK, NEW i \in Learners, NEW p \in Phase
  PROVE  /\ StartTimer(i, p) \in [Learners -> [Phase -> TimerState]]
         /\ \A j \in Learners \ {i} : StartTimer(i, p)[j] = timer[j]
         /\ \A q \in Phase \ {p} : StartTimer(i, p)[i][q] = timer[i][q]
         /\ StartTimer(i, p)[i][p] # "off"
         /\ StartTimer(i, p)[i][p] \in {timer[i][p], "on"}
<1>1. timer \in [Learners -> [Phase -> TimerState]]
  BY DEF TypeOK
<1> QED  BY <1>1 DEF StartTimer, TimerState

LEMMA StopAgrees ==
  ASSUME NEW t \in Thread, NEW q \in LoopPhase,
         NEW timers \in [Phase -> TimerState], Agree(timers, t)
  PROVE  /\ SendStop(t, q) \in Thread
         /\ Agree(timers, SendStop(t, q))
BY SendStopAgrees DEF Agree

\* A timer that expires is spent, and its phase was started.
LEMMA SpendAgrees ==
  ASSUME NEW t \in Thread, NEW q \in Phase,
         NEW old \in [Phase -> TimerState], Agree(old, t), old[q] = "on",
         NEW new \in [Phase -> TimerState], new[q] # "off",
         \A p \in Phase \ {q} : new[p] = old[p]
  PROVE  /\ SpendTimer(t, q) \in Thread
         /\ Agree(new, SpendTimer(t, q))
<1>1. q \in LoopPhase
  BY PhaseNames
<1>2. new["Prepare"] # "off"
  BY PhaseNames DEF Agree
<1>3. PhaseOf(q, new[q], SpendTimer(t, q))
  BY <1>1, SpendTimerAgrees DEF PhaseOf
<1>4. \A p \in Phase \ {q} : PhaseOf(p, new[p], SpendTimer(t, q))
  BY <1>1, SpendTimerAgrees DEF Agree
<1> QED  BY <1>1, <1>2, <1>3, <1>4, SpendTimerAgrees DEF Agree

LEMMA TIStep == TIInv /\ TypeOK' /\ [TNext]_timedVars => TIInv'
<1> SUFFICES ASSUME TIInv, TypeOK', [TNext]_timedVars PROVE TIInv'
  OBVIOUS
<1>1. TypeOK /\ timer \in [Learners -> [Phase -> TimerState]]
      /\ timer' \in [Learners -> [Phase -> TimerState]]
  BY DEF TIInv, TypeOK
<1>2. CASE UNCHANGED timedVars
  BY <1>2 DEF TIInv, timedVars, vars
<1>3. CASE TNext
  <2> PICK i \in Learners :
         \/ StartThread(i) \/ TimerThread(i)
         \/ TGetPrepare(i) \/ THandlePrepare(i) \/ TReceive(i)
         \/ TExpire(i) \/ TWaiter(i)
         \/ TExecute(i)
    BY <1>3 DEF TNext
  <2> DEFINE th == thread[i]
             tm == timer[i]
  <2>1. /\ th \in Thread /\ Agree(tm, th)
        /\ tm \in [Phase -> TimerState] /\ timer'[i] \in [Phase -> TimerState]
        /\ toStart \subseteq Learners
    BY <1>1 DEF TIInv
  <2>2. CASE StartThread(i)
    <3>1. /\ thread' = [thread EXCEPT ![i] = SendStart(th, "Prepare")]
          /\ toStart' \subseteq Learners /\ timer' = timer
      BY <2>1, <2>2 DEF StartThread, vars
    <3>2. \A p \in Phase : tm[p] = "off" => p # "Prepare"
      BY <2>1 DEF Agree
    <3>3. /\ SendStart(th, "Prepare") \in Thread
          /\ Agree(tm, SendStart(th, "Prepare"))
      BY <2>1, <3>2, PhaseNames, SendStartAgrees DEF Agree
    <3> QED  BY <3>1, <3>3, ThreadStep
  <2>3. CASE TimerThread(i)
    <3> PICK u \in LoopOutcomes(th) : Threaded(i, u)
      BY <2>3 DEF TimerThread
    <3>1. thread' = [thread EXCEPT ![i] = u] /\ toStart' \subseteq Learners /\ timer' = timer
      BY <2>1, <2>3 DEF TimerThread, Threaded, vars
    <3>2. u \in Thread /\ Agree(tm, u)
      BY <2>1, LoopAgrees DEF Agree
    <3> QED  BY <3>1, <3>2, ThreadStep
  <2>4. CASE TPrepareVotes(i)
    <3> DEFINE s == SendStop(th, "Prepare")
               u == IF Committed(i) THEN s ELSE SendStart(s, "Vote")
    <3>1. thread' = [thread EXCEPT ![i] = u] /\ toStart' \subseteq Learners
      BY <2>1, <2>4 DEF TPrepareVotes, Threaded
    <3>2. s \in Thread /\ Agree(tm, s)
      BY <2>1, PhaseNames, StopAgrees
    <3> HIDE DEF s
    <3>3. CASE Committed(i)
      <4>1. timer' = timer
        BY <2>4, <3>3 DEF TPrepareVotes, PrepareVotes
      <4>2. u = s
        BY <3>3
      <4> QED  BY <3>1, <3>2, <4>1, <4>2, ThreadStep
    <3>4. CASE ~Committed(i)
      <4>1. timer' = StartTimer(i, "Vote")
        BY <2>4, <3>4 DEF TPrepareVotes, PrepareVotes
      <4>2. /\ \A j \in Learners \ {i} : timer'[j] = timer[j]
            /\ \A p \in Phase \ {"Vote"} : timer'[i][p] = tm[p]
            /\ timer'[i]["Vote"] # "off"
            /\ timer'[i]["Vote"] = tm["Vote"] \/ timer'[i]["Vote"] = "on"
        BY <1>1, <4>1, PhaseNames, StartTimerSets
      <4>3. u = SendStart(s, "Vote")
        BY <3>4
      <4> HIDE DEF u
      <4>4. u \in Thread /\ Agree(timer'[i], u)
        BY <2>1, <3>2, <4>2, <4>3, PhaseNames, StartAgrees
      <4> QED  BY <3>1, <4>2, <4>4, ThreadStep
    <3> QED  BY <3>3, <3>4
  <2>5. ASSUME NEW v \in votes, TGetVote(i, v) PROVE TIInv'
    <3> DEFINE s == SendStop(th, "Vote")
               u == SendStart(s, "Collate")
    <3>1. s \in Thread /\ Agree(tm, s)
      BY <2>1, PhaseNames, StopAgrees
    <3>2. toStart' \subseteq Learners
      BY <2>1, <2>5 DEF TGetVote, Threaded
    <3>3. CASE VoteAnswer(st[i], v) = "NONE"
      <4>1. thread' = [thread EXCEPT ![i] = th] /\ timer' = timer
        BY <2>5, <3>3 DEF TGetVote, Threaded, GetVote
      <4> QED  BY <2>1, <3>2, <4>1, ThreadStep
    <3>4. CASE VoteAnswer(st[i], v) # "NONE"
      <4>1. thread' = [thread EXCEPT ![i] = u] /\ timer' = StartTimer(i, "Collate")
        BY <2>5, <3>4 DEF TGetVote, Threaded, GetVote
      <4> HIDE DEF s
      <4>2. /\ \A j \in Learners \ {i} : timer'[j] = timer[j]
            /\ \A p \in Phase \ {"Collate"} : timer'[i][p] = tm[p]
            /\ timer'[i]["Collate"] # "off"
            /\ timer'[i]["Collate"] = tm["Collate"] \/ timer'[i]["Collate"] = "on"
        BY <1>1, <4>1, PhaseNames, StartTimerSets
      <4>3. u \in Thread /\ Agree(timer'[i], u)
        BY <2>1, <3>1, <4>2, PhaseNames, StartAgrees
      <4> HIDE DEF u
      <4> QED  BY <3>2, <4>1, <4>2, <4>3, ThreadStep
    <3> QED  BY <3>3, <3>4
  <2>6. ASSUME NEW c \in collates, TGetCollate(i, c) PROVE TIInv'
    <3> DEFINE s == SendStop(th, "Collate")
    <3>1. s \in Thread /\ Agree(tm, s)
      BY <2>1, PhaseNames, StopAgrees
    <3>2. /\ toStart' \subseteq Learners /\ timer' = timer
          /\ thread' = [thread EXCEPT ![i] = IF AdoptsCollate(i, c) THEN s ELSE th]
      BY <2>1, <2>6 DEF TGetCollate, Threaded, GetCollate
    <3> HIDE DEF s
    <3> QED  BY <2>1, <3>1, <3>2, ThreadStep
  <2>7. CASE TPrepareTimeout(i)
    <3> DEFINE s == SpendTimer(th, "Prepare")
               u == SendStart(s, "Vote")
               started == StartTimer(i, "Vote")
    <3>1. /\ tm["Prepare"] = "on" /\ toStart' \subseteq Learners
          /\ thread' = [thread EXCEPT ![i] = u]
          /\ \E state \in {"firing", "done"} :
               timer' = [started EXCEPT ![i]["Prepare"] = state]
      BY <2>1, <2>7 DEF TPrepareTimeout, PrepareTimeout, MayExpire, Threaded
    <3>2. PICK state \in {"firing", "done"} :
               timer' = [started EXCEPT ![i]["Prepare"] = state]
      BY <3>1
    <3> DEFINE mid == [tm EXCEPT !["Prepare"] = state]
    <3>3. /\ mid \in [Phase -> TimerState] /\ mid["Prepare"] = state
          /\ \A p \in Phase \ {"Prepare"} : mid[p] = tm[p]
      BY <2>1, PhaseNames DEF TimerState
    <3>4. /\ started \in [Learners -> [Phase -> TimerState]]
          /\ \A j \in Learners \ {i} : started[j] = timer[j]
          /\ \A q \in Phase \ {"Vote"} : started[i][q] = tm[q]
          /\ started[i]["Vote"] # "off" /\ started[i]["Vote"] \in {tm["Vote"], "on"}
      BY <1>1, PhaseNames, StartTimerSets
    <3> HIDE DEF mid, started
    <3>5. s \in Thread /\ Agree(mid, s)
      BY <2>1, <3>1, <3>3, PhaseNames, SpendAgrees
    <3> HIDE DEF s
    <3>6. /\ \A j \in Learners \ {i} : timer'[j] = timer[j]
          /\ timer'[i]["Prepare"] = state
          /\ \A p \in Phase \ {"Prepare"} : timer'[i][p] = started[i][p]
      BY <3>2, <3>4, PhaseNames
    <3>7. /\ \A p \in Phase \ {"Vote"} : timer'[i][p] = mid[p]
          /\ timer'[i]["Vote"] # "off"
          /\ timer'[i]["Vote"] = mid["Vote"] \/ timer'[i]["Vote"] = "on"
      BY <3>3, <3>4, <3>6, PhaseNames
    <3>8. u \in Thread /\ Agree(timer'[i], u)
      BY <2>1, <3>3, <3>5, <3>7, PhaseNames, StartAgrees
    <3> HIDE DEF u
    <3> QED  BY <3>1, <3>6, <3>8, ThreadStep
  <2>8. ASSUME NEW q \in AQPhase, TTimeout(i, q) PROVE TIInv'
    <3> DEFINE u == SpendTimer(th, q)
    <3>1. /\ tm[q] = "on" /\ toStart' \subseteq Learners
          /\ thread' = [thread EXCEPT ![i] = u]
          /\ timer' = [timer EXCEPT ![i][q] = "firing"]
          /\ q \in Phase
      BY <2>1, <2>8, PhaseNames DEF TTimeout, Timeout, SetTimer, MayExpire, Threaded, AQPhase
    <3>2. /\ \A j \in Learners \ {i} : timer'[j] = timer[j]
          /\ timer'[i][q] = "firing"
          /\ \A p \in Phase \ {q} : timer'[i][p] = tm[p]
      BY <1>1, <3>1
    <3>3. u \in Thread /\ Agree(timer'[i], u)
      BY <2>1, <3>1, <3>2, SpendAgrees
    <3> HIDE DEF u
    <3> QED  BY <3>1, <3>2, <3>3, ThreadStep
  <2>9. ASSUME thread' = [thread EXCEPT ![i] = th], toStart' = toStart,
               timer' = timer \/ \E q \in Phase, new \in TimerState \ {"off", "on"} :
                                  /\ timer' = [timer EXCEPT ![i][q] = new]
                                  /\ tm[q] \notin {"off", "on"}
        PROVE  TIInv'
    <3>1. CASE timer' = timer
      BY <2>1, <2>9, <3>1, ThreadStep
    <3>2. CASE timer' # timer
      <4> PICK q \in Phase, new \in TimerState \ {"off", "on"} :
            timer' = [timer EXCEPT ![i][q] = new] /\ tm[q] \notin {"off", "on"}
        BY <2>9, <3>2
      <4>1. /\ \A j \in Learners \ {i} : timer'[j] = timer[j]
            /\ timer'[i][q] = new
            /\ \A p \in Phase \ {q} : timer'[i][p] = tm[p]
        BY <1>1
      <4>2. Agree(timer'[i], th)
        BY <2>1, <4>1, PhaseNames DEF Agree, PhaseOf
      <4> QED  BY <2>1, <2>9, <4>1, <4>2, ThreadStep
    <3> QED  BY <3>1, <3>2
  <2>10. CASE TExecute(i)
    <3> DEFINE u == SendStop(th, "ViewChange")
    <3>1. /\ toStart' \subseteq Learners /\ timer' = timer
          /\ thread' = [thread EXCEPT ![i] = u]
      BY <2>1, <2>10 DEF TExecute, Execute, Threaded
    <3>2. u \in Thread /\ Agree(tm, u)
      BY <2>1, PhaseNames, StopAgrees
    <3> HIDE DEF u
    <3> QED  BY <3>1, <3>2, ThreadStep
  <2>11. CASE TGetPrepare(i)
    BY <2>9, <2>11 DEF TGetPrepare, GetPrepare, Threaded
  <2>12. CASE (TestPrepared(i) \/ RaisePrepared(i)) /\ Threaded(i, th)
    BY <2>9, <2>12 DEF TestPrepared, RaisePrepared, Threaded
  <2>13. CASE TWaiter(i)
    <3>1. \E q \in Phase, new \in TimerState \ {"off", "on"} :
            /\ timer' = [timer EXCEPT ![i][q] = new]
            /\ tm[q] \notin {"off", "on"}
      <4>1. VoteAQ(read[i]["Vote"], st[i]) \in {"COMMITTED", "UNCOMMITTED"}
        BY DEF VoteAQ, AdaptiveAnswer
      <4> QED
        BY <2>13, <4>1, PhaseNames
           DEF TWaiter, Waiter, PrepareTimeoutVotes, VoteTimeout, CollateTimeout,
               TimeoutDecides, TimeoutBroadcasts, SetTimer, AQPhase, TimerState
    <3> QED  BY <2>9, <2>13, <3>1 DEF TWaiter, Threaded
  <2> QED
    BY <2>2, <2>3, <2>4, <2>5, <2>6, <2>7, <2>8, <2>10, <2>11, <2>12, <2>13
    DEF TReceive, TExpire, THandlePrepare
<1> QED  BY <1>2, <1>3

LEMMA TInitTIInv == TInit /\ TypeOK => TIInv
<1> SUFFICES ASSUME TInit, TypeOK PROVE TIInv
  OBVIOUS
<1>1. /\ NewThread \in Thread /\ NewThread.startCh = <<>>
      /\ \A p \in Phase : NewThread.timer[p] = "none"
  BY PhaseNames, EmptySeq DEF NewThread, Thread, LoopTimer
<1>2. ASSUME NEW i \in Learners PROVE Agree(timer[i], NewThread)
  <2>1. timer[i] = [p \in Phase |-> IF p = "Prepare" THEN "on" ELSE "off"]
    BY DEF TInit, Init
  <2>2. timer[i]["Prepare"] = "on" /\ \A p \in Phase : timer[i][p] \in {"on", "off"}
    BY <2>1, PhaseNames
  <2>3. Len(NewThread.startCh) = 0
    BY <1>1, EmptySeq
  <2> QED  BY <1>1, <2>2, <2>3 DEF Agree, PhaseOf
<1> HIDE DEF NewThread
<1> QED  BY <1>1, <1>2 DEF TInit, TIInv

\* What the phases of the States and the timers of their threads know of each other, in
\* every reachable state.
THEOREM TimedInvariant == TSpec => []TIInv
<1>1. TSpec => []TypeOK
  BY TimedImplementsConsensus, ConsensusTypeCorrect, PTL
<1> QED  BY <1>1, TInitTIInv, TIStep, PTL DEF TSpec

\* A timer that is armed belongs to a phase that was started and has not been timed
\* out: the order of the sends in GetPrepare, GetVote and the waiters of
\* startTransitionWithDeadline times no phase out twice.
THEOREM ThreadsAgreeWithPhases == TSpec => []TimersAgree
<1>1. TIInv => TimersAgree
  <2> SUFFICES ASSUME TIInv, NEW i \in Learners, NEW p \in Phase,
                      thread[i].timer[p] = "armed"
               PROVE  timer[i][p] = "on"
    BY DEF TimersAgree
  <2>1. PhaseOf(p, timer[i][p], thread[i]) /\ timer[i][p] \in TimerState
    BY DEF TIInv, Agree, TypeOK
  <2> QED  BY <2>1 DEF PhaseOf, TimerState
<1> QED  BY <1>1, TimedInvariant, PTL
------------------------------------------------------------------------------
(* What a loop that hangs hangs on.                                          *)

\* The phases whose stop replica i may have sent.
Stops(i) ==
  {q \in LoopPhase :
     \/ pushed[i] # {}
     \/ q = "Prepare" /\ st[i].PrepareMsg # Nil
     \/ q = "Vote" /\ st[i].TotalVoteMsg >= N}

\* A thread that was sent stops of the phases R only.
StoppedBy(t, R) ==
  /\ \A k \in 1..Len(t.stopCh) : t.stopCh[k] \in R
  /\ t.blocked => \E q \in R : t.timer[q] = "none"

Reasoned == \A i \in Learners : StoppedBy(thread[i], Stops(i))

LEMMA SendStopStoppedBy ==
  ASSUME NEW t \in Thread, NEW R, StoppedBy(t, R), NEW q \in R, q \in LoopPhase
  PROVE  StoppedBy(SendStop(t, q), R)
<1>1. t.stopCh \in Seq(LoopPhase)
  BY DEF Thread
<1>2. \A k \in 1..Len(Append(t.stopCh, q)) :
        \/ k \in 1..Len(t.stopCh) /\ Append(t.stopCh, q)[k] = t.stopCh[k]
        \/ Append(t.stopCh, q)[k] = q
  BY <1>1, AppendProperties
<1>3. /\ SendStop(t, q).stopCh = Append(t.stopCh, q)
      /\ SendStop(t, q).timer = t.timer /\ SendStop(t, q).blocked = t.blocked
  BY DEF SendStop, Thread
<1> QED  BY <1>2, <1>3 DEF StoppedBy

LEMMA SendStartStoppedBy ==
  ASSUME NEW t \in Thread, NEW R, StoppedBy(t, R), NEW q
  PROVE  StoppedBy(SendStart(t, q), R)
BY DEF StoppedBy, SendStart, Thread

\* A timer that is spent existed: no loop hangs on it.
LEMMA SpendTimerStoppedBy ==
  ASSUME NEW t \in Thread, NEW R, R \subseteq LoopPhase, StoppedBy(t, R),
         NEW q \in LoopPhase, t.timer[q] # "none"
  PROVE  StoppedBy(SpendTimer(t, q), R)
<1>1. /\ SpendTimer(t, q).stopCh = t.stopCh /\ SpendTimer(t, q).blocked = t.blocked
      /\ \A p \in LoopPhase : t.timer[p] = "none" => SpendTimer(t, q).timer[p] = "none"
  BY DEF SpendTimer, Thread
<1> QED  BY <1>1 DEF StoppedBy

LEMMA LoopStoppedBy ==
  ASSUME NEW t \in Thread, NEW R, R \subseteq LoopPhase, StoppedBy(t, R),
         NEW u \in LoopOutcomes(t)
  PROVE  StoppedBy(u, R)
<1>1. t.startCh \in Seq(LoopPhase) /\ t.stopCh \in Seq(LoopPhase) /\ ~t.blocked
  BY DEF Thread, LoopOutcomes
<1>2. CASE t.startCh # <<>> /\ u = LoopStart(t)
  <2>1. u.stopCh = t.stopCh /\ u.blocked = t.blocked
    BY <1>2 DEF LoopStart, ArmTimer, Thread
  <2> QED  BY <1>1, <2>1 DEF StoppedBy
<1>3. CASE t.stopCh # <<>> /\ u \in LoopStop(t)
  <2> DEFINE q == Head(t.stopCh)
             w == [t EXCEPT !.stopCh = Tail(@)]
             b == [w EXCEPT !.blocked = TRUE]
  <2>1. /\ q = t.stopCh[1] /\ Len(t.stopCh) \in Nat \ {0}
        /\ Tail(t.stopCh) \in Seq(LoopPhase)
        /\ \A k \in 1..Len(Tail(t.stopCh)) :
             k + 1 \in 1..Len(t.stopCh) /\ Tail(t.stopCh)[k] = t.stopCh[k + 1]
    BY <1>1, <1>3, HeadTailProperties, EmptySeq, LenProperties
  <2>2. q \in R
    BY <2>1 DEF StoppedBy
  <2>3. /\ w \in Thread /\ w.stopCh = Tail(t.stopCh) /\ w.timer = t.timer
        /\ w.blocked = t.blocked
    BY <2>1 DEF Thread
  <2>4. \/ w.timer[q] = "none" /\ u = b
        \/ w.timer[q] = "armed" /\ u = SpendTimer(w, q)
        \/ u = w
    BY <1>3 DEF LoopStop, StopTimer
  <2> HIDE DEF w, q
  <2>5. StoppedBy(w, R)
    BY <1>1, <2>1, <2>3 DEF StoppedBy
  <2>6. CASE w.timer[q] = "none" /\ u = b
    <3>1. u.stopCh = w.stopCh /\ u.timer = w.timer
      BY <2>3, <2>6 DEF Thread
    <3> HIDE DEF b
    <3> QED  BY <2>2, <2>5, <2>6, <3>1 DEF StoppedBy
  <2>7. CASE w.timer[q] = "armed" /\ u = SpendTimer(w, q)
    BY <2>2, <2>3, <2>5, <2>7, SpendTimerStoppedBy
  <2> QED  BY <2>4, <2>5, <2>6, <2>7
<1> QED  BY <1>2, <1>3 DEF LoopOutcomes

\* A State never loses its PREPARE or a vote, and a decision is never taken back.
LEMMA StopsGrow ==
  ASSUME IInv, [Next]_vars, NEW j \in Learners
  PROVE  Stops(j) \subseteq Stops(j)'
<1>1. /\ st[j] \in State /\ N \in Nat /\ st[j].TotalVoteMsg \in Nat
      /\ pushed \in [Learners -> SUBSET PrepareMsg]
      /\ st \in [Learners -> State]
  BY QuorumFacts DEF IInv, TypeOK, State
<1>2. SUFFICES ASSUME NEW i \in Learners, \/ GetPrepare(i) \/ HandlePrepare(i) \/ Receive(i)
                                          \/ Expire(i) \/ Waiter(i)
                                          \/ Execute(i)
               PROVE  /\ pushed[j] # {} => pushed'[j] # {}
                      /\ st[j].PrepareMsg # Nil => st'[j].PrepareMsg # Nil
                      /\ st'[j].TotalVoteMsg \in Nat
                      /\ st'[j].TotalVoteMsg >= st[j].TotalVoteMsg
  <2>1. CASE UNCHANGED vars
    BY <2>1 DEF vars, Stops
  <2>2. CASE Next
    BY <1>1, <1>2, <2>2 DEF Next, Stops
  <2> QED  BY <2>1, <2>2
<1>3. pushed[j] # {} => pushed'[j] # {}
  BY <1>1, <1>2
     DEF GetPrepare, HandlePrepare, TestPrepared, RaisePrepared, PrepareVotes, Receive,
         GetVote, GetCollate, Expire, PrepareTimeout, Timeout, Waiter, PrepareTimeoutVotes,
         VoteTimeout, CollateTimeout, TimeoutDecides, TimeoutBroadcasts, Execute, Push
<1> DEFINE Kept == /\ st[j].PrepareMsg # Nil => st'[j].PrepareMsg # Nil
                   /\ st'[j].TotalVoteMsg \in Nat
                   /\ st'[j].TotalVoteMsg >= st[j].TotalVoteMsg
<1>4. ASSUME NEW s \in State, st' = [st EXCEPT ![i] = s],
             st[i].PrepareMsg # Nil => s.PrepareMsg # Nil,
             s.TotalVoteMsg >= st[i].TotalVoteMsg
      PROVE  Kept
  <2>1. s.TotalVoteMsg \in Nat
    BY DEF State
  <2> QED  BY <1>1, <1>4, <2>1
<1>5. ASSUME st' = st PROVE Kept
  BY <1>1, <1>5
<1>6. ASSUME NEW p \in PrepareMsg, st' = [st EXCEPT ![i] = Prepare(@, p)] PROVE Kept
  <2>1. st[i] \in State /\ Prepare(st[i], p) = [st[i] EXCEPT !.PrepareMsg = p]
    BY <1>1 DEF Prepare
  <2>2. /\ Prepare(st[i], p).PrepareMsg # Nil
        /\ Prepare(st[i], p).TotalVoteMsg = st[i].TotalVoteMsg /\ st[i].TotalVoteMsg \in Nat
    BY <2>1 DEF State, PrepareMsg, Nil, Proposal, NullPrepare
  <2>3. Prepare(st[i], p) \in State
    BY <2>1, PrepareType
  <2>4. Prepare(st[i], p).TotalVoteMsg >= st[i].TotalVoteMsg
    BY <2>2
  <2> HIDE DEF Kept
  <2> QED  BY <1>4, <1>6, <2>2, <2>3, <2>4
<1>7. ASSUME NEW v \in votes, GetVote(i, v) PROVE Kept
  <2>1. st[i] \in State /\ v \in VoteMsg
    BY <1>1 DEF IInv, TypeOK
  <2>2. /\ Vote(st[i], v).PrepareMsg = st[i].PrepareMsg
        /\ Vote(st[i], v).TotalVoteMsg \in {st[i].TotalVoteMsg, st[i].TotalVoteMsg + 1}
        /\ st[i].TotalVoteMsg \in Nat
    BY <2>1 DEF Vote, State
  <2>3. st' = [st EXCEPT ![i] = Vote(st[i], v)] /\ Vote(st[i], v) \in State
    BY <1>7, <2>1, VoteKeeps DEF GetVote
  <2>4. Vote(st[i], v).TotalVoteMsg >= st[i].TotalVoteMsg
    BY <2>2
  <2> HIDE DEF Kept
  <2> QED  BY <1>4, <2>2, <2>3, <2>4
<1>8. ASSUME NEW c \in collates, GetCollate(i, c) PROVE Kept
  <2> DEFINE f == FillHoleVoteMsgs(st[i], c)
             s == Collate(f, c)
  <2>1. st[i] \in State /\ c.NodeID \in Nodes /\ IsFiniteSet(c.ReceivedVoteMsg)
    BY <1>1 DEF IInv, TypeOK, FromVotes, CollateMsg
  <2>2. /\ s.PrepareMsg = st[i].PrepareMsg
        /\ s.TotalVoteMsg = st[i].TotalVoteMsg /\ st[i].TotalVoteMsg \in Nat
    BY <2>1 DEF Collate, FillHoleVoteMsgs, State
  <2>3. f \in State
    BY <2>1, FillHoleKeeps
  <2>4. st' = [st EXCEPT ![i] = s]
    BY <1>8 DEF GetCollate
  <2> HIDE DEF f
  <2>5. s \in State
    BY <2>1, <2>3, CollateKeeps
  <2> HIDE DEF Kept, s
  <2>6. s.TotalVoteMsg >= st[i].TotalVoteMsg
    BY <2>2
  <2> QED  BY <1>4, <2>2, <2>4, <2>5, <2>6
<1>9. Proposal \in PrepareMsg /\ NullPrepare \in PrepareMsg
  BY DEF PrepareMsg
<1>10. Kept
  BY <1>2, <1>5, <1>6, <1>7, <1>8, <1>9
     DEF GetPrepare, HandlePrepare, TestPrepared, RaisePrepared, PrepareVotes, Receive,
         Expire, PrepareTimeout, Timeout, Waiter, PrepareTimeoutVotes,
         VoteTimeout, CollateTimeout, TimeoutDecides, TimeoutBroadcasts, Execute
<1> QED  BY <1>3, <1>10

LEMMA Decided ==
  ASSUME NEW i \in Learners, NEW s, Push(i, s), s.PrepareMsg # Nil \/ s.VoteMsgs # {},
         pushed \in [Learners -> SUBSET PrepareMsg]
  PROVE  pushed'[i] # {}
<1>1. PICK d \in Decisions(s) : pushed' = [pushed EXCEPT ![i] = @ \cup d]
  BY DEF Push
<1>2. d # {}
  BY DEF Decisions
<1> QED  BY <1>1, <1>2

\* Who stops a phase has its reason.
LEMMA StopsHaveReason ==
  ASSUME IInv, NEW i \in Learners
  PROVE  /\ PrepareVotes(i) => "Prepare" \in Stops(i)'
         /\ \A v \in votes : GetVote(i, v) /\ VoteAnswer(st[i], v) # "NONE" =>
              "Vote" \in Stops(i)'
         /\ \A c \in collates : GetCollate(i, c) /\ AdoptsCollate(i, c) =>
              "Collate" \in Stops(i)'
         /\ Execute(i) => "ViewChange" \in Stops(i)'
<1>1. /\ st[i] \in State /\ N \in Nat /\ st[i].TotalVoteMsg \in Nat
      /\ pushed \in [Learners -> SUBSET PrepareMsg] /\ HasPrepare(i)
      /\ st \in [Learners -> State]
  BY QuorumFacts DEF IInv, TypeOK, State, PreparesSent
<1>2. PrepareVotes(i) => "Prepare" \in Stops(i)'
  BY <1>1 DEF PrepareVotes, HasPrepare, Stops, LoopPhase
<1>3. ASSUME NEW v \in votes, GetVote(i, v), VoteAnswer(st[i], v) # "NONE"
      PROVE  "Vote" \in Stops(i)'
  <2> DEFINE s == Vote(st[i], v)
  <2>1. v \in VoteMsg /\ v.NodeID \notin Senders(st[i].VoteMsgs)
    BY <1>3 DEF VoteAnswer, IInv, TypeOK
  <2>2. s.VoteMsgs = st[i].VoteMsgs \cup {v} /\ s.TotalVoteMsg = st[i].TotalVoteMsg + 1
    BY <1>1, <2>1, NewVote
  <2>3. st' = [st EXCEPT ![i] = s]
    BY <1>3 DEF GetVote
  <2>4. CASE VoteAnswer(st[i], v) = "COMMITTED"
    <3>1. Push(i, s)
      BY <1>3, <2>4 DEF GetVote
    <3> HIDE DEF s
    <3>2. pushed'[i] # {}
      BY <1>1, <2>2, <3>1, Decided
    <3> QED  BY <3>2 DEF Stops, LoopPhase
  <2>5. CASE VoteAnswer(st[i], v) # "COMMITTED"
    <3>1. st[i].TotalVoteMsg + 1 = N
      BY <1>3, <2>5 DEF VoteAnswer, VoteUncommits
    <3> HIDE DEF s
    <3>2. st'[i].TotalVoteMsg = N
      BY <1>1, <2>2, <2>3, <3>1
    <3> QED  BY <1>1, <3>2 DEF Stops, LoopPhase
  <2> QED  BY <2>4, <2>5
<1>4. ASSUME NEW c \in collates, GetCollate(i, c), AdoptsCollate(i, c)
      PROVE  "Collate" \in Stops(i)'
  <2>1. Push(i, st[i])
    BY <1>4 DEF GetCollate
  <2>2. st[i].PrepareMsg # Nil
    BY <1>1, <1>4 DEF AdoptsCollate, HasPrepare
  <2>3. pushed'[i] # {}
    BY <1>1, <2>1, <2>2, Decided
  <2> QED  BY <2>3 DEF Stops, LoopPhase
<1>5. Execute(i) => "ViewChange" \in Stops(i)'
  BY DEF Execute, Stops, LoopPhase
<1> QED  BY <1>2, <1>3, <1>4, <1>5

LEMMA ReasonedStep == IInv /\ TIInv /\ Reasoned /\ [TNext]_timedVars => Reasoned'
<1> SUFFICES ASSUME IInv, TIInv, Reasoned, [TNext]_timedVars PROVE Reasoned'
  OBVIOUS
<1>1. \A j \in Learners : /\ thread[j] \in Thread
                          /\ Stops(j) \subseteq LoopPhase /\ Stops(j)' \subseteq LoopPhase
                          /\ StoppedBy(thread[j], Stops(j)')
  <2>1. \A j \in Learners : Stops(j) \subseteq Stops(j)'
    BY StopsGrow, TStepRefines
  <2>2. \A j \in Learners : StoppedBy(thread[j], Stops(j)) => StoppedBy(thread[j], Stops(j)')
    BY <2>1 DEF StoppedBy
  <2> QED  BY <2>2 DEF TIInv, Reasoned, Stops
<1>2. CASE UNCHANGED timedVars
  BY <1>1, <1>2 DEF Reasoned, timedVars
<1>3. CASE TNext
  <2> PICK i \in Learners :
         \/ StartThread(i) \/ TimerThread(i)
         \/ TGetPrepare(i) \/ THandlePrepare(i) \/ TReceive(i)
         \/ TExpire(i) \/ TWaiter(i)
         \/ TExecute(i)
    BY <1>3 DEF TNext
  <2> DEFINE th == thread[i]
             R  == Stops(i)'
  <2>1. ASSUME NEW t, thread' = [thread EXCEPT ![i] = t], StoppedBy(t, R) PROVE Reasoned'
    <3>1. \A j \in Learners : thread'[j] = IF j = i THEN t ELSE thread[j]
      BY <2>1 DEF TIInv
    <3>2. \A j \in Learners : StoppedBy(thread'[j], Stops(j)')
      BY <1>1, <2>1, <3>1
    <3> QED  BY <3>2 DEF Reasoned, StoppedBy
  <2>2. th \in Thread /\ R \subseteq LoopPhase /\ StoppedBy(th, R)
    BY <1>1
  <2> HIDE DEF R
  <2>3. \A q \in R : SendStop(th, q) \in Thread /\ StoppedBy(SendStop(th, q), R)
    BY <2>2, SendStopAgrees, SendStopStoppedBy
  <2>4. CASE StartThread(i)
    BY <2>1, <2>2, <2>4, SendStartStoppedBy DEF StartThread
  <2>5. CASE TimerThread(i)
    BY <2>1, <2>2, <2>5, LoopStoppedBy DEF TimerThread, Threaded
  <2>6. CASE TPrepareVotes(i)
    <3>1. "Prepare" \in R
      BY <2>6, StopsHaveReason DEF TPrepareVotes, R
    <3> DEFINE t == SendStop(th, "Prepare")
    <3>2. t \in Thread /\ StoppedBy(t, R)
      BY <2>3, <3>1
    <3>3. thread' = [thread EXCEPT ![i] = IF Committed(i) THEN t ELSE SendStart(t, "Vote")]
      BY <2>6 DEF TPrepareVotes, Threaded
    <3> HIDE DEF t
    <3> QED  BY <2>1, <3>2, <3>3, SendStartStoppedBy
  <2>7. ASSUME NEW v \in votes, TGetVote(i, v) PROVE Reasoned'
    <3>1. CASE VoteAnswer(st[i], v) = "NONE"
      BY <2>1, <2>2, <2>7, <3>1 DEF TGetVote, Threaded
    <3>2. CASE VoteAnswer(st[i], v) # "NONE"
      <4>1. "Vote" \in R
        BY <2>7, <3>2, StopsHaveReason DEF TGetVote, R
      <4> DEFINE t == SendStop(th, "Vote")
      <4>2. t \in Thread /\ StoppedBy(t, R)
        BY <2>3, <4>1
      <4>3. thread' = [thread EXCEPT ![i] = SendStart(t, "Collate")]
        BY <2>7, <3>2 DEF TGetVote, Threaded
      <4> HIDE DEF t
      <4> QED  BY <2>1, <4>2, <4>3, SendStartStoppedBy
    <3> QED  BY <3>1, <3>2
  <2>8. ASSUME NEW c \in collates, TGetCollate(i, c) PROVE Reasoned'
    <3>1. AdoptsCollate(i, c) => "Collate" \in R
      BY <2>8, StopsHaveReason DEF TGetCollate, R
    <3> QED  BY <2>1, <2>2, <2>3, <2>8, <3>1 DEF TGetCollate, Threaded
  <2>9. CASE TPrepareTimeout(i)
    <3> DEFINE t == SpendTimer(th, "Prepare")
    <3>1. th.timer["Prepare"] # "none"
      BY <2>9 DEF TPrepareTimeout, Expires
    <3>2. t \in Thread /\ StoppedBy(t, R)
      BY <2>2, <3>1, PhaseNames, SpendTimerAgrees, SpendTimerStoppedBy
    <3>3. thread' = [thread EXCEPT ![i] = SendStart(t, "Vote")]
      BY <2>9 DEF TPrepareTimeout, Threaded
    <3> HIDE DEF t
    <3> QED  BY <2>1, <3>2, <3>3, SendStartStoppedBy
  <2>10. ASSUME NEW q \in AQPhase, TTimeout(i, q) PROVE Reasoned'
    <3>1. th.timer[q] # "none" /\ q \in LoopPhase
      BY <2>10, PhaseNames DEF TTimeout, Expires, AQPhase
    <3> QED  BY <2>1, <2>2, <2>10, <3>1, SpendTimerStoppedBy DEF TTimeout, Threaded
  <2>11. CASE TExecute(i)
    <3>1. "ViewChange" \in R
      BY <2>11, StopsHaveReason DEF TExecute, R
    <3> QED  BY <2>1, <2>3, <2>11, <3>1 DEF TExecute, Threaded
  <2>12. CASE Threaded(i, th)
    BY <2>1, <2>2, <2>12 DEF Threaded
  <2> QED
    BY <2>4, <2>5, <2>6, <2>7, <2>8, <2>9, <2>10, <2>11, <2>12
    DEF TGetPrepare, THandlePrepare, TReceive, TExpire, TWaiter
<1> QED  BY <1>2, <1>3

LEMMA ReasonedInit == TInit => Reasoned
<1> SUFFICES ASSUME TInit PROVE Reasoned
  OBVIOUS
<1>1. NewThread.stopCh = <<>> /\ ~NewThread.blocked
  BY DEF NewThread
<1>2. Len(NewThread.stopCh) = 0
  BY <1>1, EmptySeq
<1> HIDE DEF NewThread
<1> QED  BY <1>1, <1>2 DEF TInit, Reasoned, StoppedBy

\* A loop that hangs on a replica that has decided nothing hangs on a stop that
\* overtook its start, "Prepare" after the PREPARE came or "Vote" after the last vote
\* did: GetVote, GetCollate and executeMsg send no other before a decision.
THEOREM LoopsHangOnOvertakenStops == TSpec => []HangsBeforeDecision
<1>1. IInv /\ Reasoned => HangsBeforeDecision
  <2> SUFFICES ASSUME IInv, Reasoned, NEW i \in Learners,
                      thread[i].blocked, pushed[i] = {}
               PROVE  \/ thread[i].timer["Prepare"] = "none" /\ st[i].PrepareMsg # Nil
                      \/ thread[i].timer["Vote"] = "none" /\ st[i].TotalVoteMsg = N
    BY DEF HangsBeforeDecision
  <2>1. PICK q \in Stops(i) : thread[i].timer[q] = "none"
    BY DEF Reasoned, StoppedBy
  <2>2. st[i].TotalVoteMsg <= N
    <3>1. Senders(st[i].VoteMsgs) \subseteq Nodes
      BY DEF IInv, TypeOK, State, Senders, VoteMsg
    <3>2. Cardinality(Senders(st[i].VoteMsgs)) <= N
      BY <3>1, NodesAssumption, FS_Subset DEF N
    <3> QED  BY <3>2 DEF IInv, Counters, Counted
  <2>3. st[i].TotalVoteMsg \in Nat /\ N \in Nat
    BY QuorumFacts DEF IInv, TypeOK, State
  <2> QED  BY <2>1, <2>2, <2>3 DEF Stops
<1>2. TSpec => []IInv
  BY TimedImplementsConsensus, ConsensusInvariant, PTL
<1> QED  BY <1>1, <1>2, ReasonedInit, ReasonedStep, TimedInvariant, PTL DEF TSpec
==============================================================================
