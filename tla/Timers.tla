-------------------------------- MODULE Timers --------------------------------
(***************************************************************************)
(* The timer thread of one sequence (startTransitionWithDeadline in         *)
(* pbft/network/node.go), as a value: the names waiting in TimerStartCh and *)
(* TimerStopCh, what became of the timer of each phase, and whether the     *)
(* loop that reads the two channels is blocked for ever.                     *)
(*                                                                          *)
(*   "none"    timerArr[phase] is nil: the phase was never started           *)
(*   "armed"   the timer exists and its value has not been consumed          *)
(*   "spent"   stopped or fired: timerArr[phase] stays non-nil, so the phase *)
(*             is never armed again                                          *)
(*                                                                          *)
(* TimerLoop.tla has the waiters, the cancel channels and the timer         *)
(* channels themselves.                                                      *)
(***************************************************************************)
EXTENDS Sequences

LoopPhase  == {"Prepare", "Vote", "Collate", "ViewChange"}
LoopTimer  == {"none", "armed", "spent"}

Thread == [startCh : Seq(LoopPhase), stopCh : Seq(LoopPhase),
           timer : [LoopPhase -> LoopTimer], blocked : BOOLEAN]

NewThread == [startCh |-> <<>>, stopCh |-> <<>>,
              timer |-> [p \in LoopPhase |-> "none"], blocked |-> FALSE]

\* Both channels are buffered: names pile up in them when the loop is blocked.
SendStart(t, p) == [t EXCEPT !.startCh = Append(@, p)]
SendStop(t, p)  == [t EXCEPT !.stopCh  = Append(@, p)]

SpendTimer(t, p) == [t EXCEPT !.timer[p] = "spent"]

\* Mutant of ArmTimer: the nil test is forgotten.
ArmTimerAlways(t, p) == [t EXCEPT !.timer[p] = "armed"]

\* case phaseName := <-TimerStartCh
ArmTimer(t, p) == IF t.timer[p] = "none" THEN [t EXCEPT !.timer[p] = "armed"] ELSE t

LoopStart(t) == ArmTimer([t EXCEPT !.startCh = Tail(@)], Head(t.startCh))

\* case phaseName := <-TimerStopCh: what can become of the thread.  For a phase
\* never started cancelCh[phase] is a nil channel and the send blocks for ever;
\* an armed timer may have expired before Stop, and its waiter may still see it.
StopTimer(t, p) ==
  CASE t.timer[p] = "none"  -> {[t EXCEPT !.blocked = TRUE]}
    [] t.timer[p] = "armed" -> {SpendTimer(t, p), t}
    [] OTHER                -> {t}

LoopStop(t) == StopTimer([t EXCEPT !.stopCh = Tail(@)], Head(t.stopCh))

\* select: one of the channels that have something to read.  A blocked loop reads
\* neither.
LoopOutcomes(t) ==
  (IF ~t.blocked /\ t.startCh # <<>> THEN {LoopStart(t)} ELSE {}) \cup
  (IF ~t.blocked /\ t.stopCh  # <<>> THEN LoopStop(t)    ELSE {})
===============================================================================
