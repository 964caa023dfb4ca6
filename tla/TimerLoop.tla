------------------------------- MODULE TimerLoop ------------------------------
(***************************************************************************)
(* The timer goroutines of one sequence, step by step: the loop that reads  *)
(* TimerStartCh, TimerStopCh and ExitCh, the timers of the phases, and the  *)
(* waiters, one goroutine per start, that select between a timer and the    *)
(* cancel channel of its phase (startTransitionWithDeadline,                *)
(* pbft/network/node.go).  What a waiter does once its timer is done is in  *)
(* Consensus.tla; here it only counts.                                      *)
(***************************************************************************)
EXTENDS Timers, Naturals

CONSTANTS Sent,         \* the phases that are started and stopped
          MaxStarts,    \* bound: how often a phase is started ...
          MaxStops,     \* ... and stopped
          CancelCap     \* capacity of a cancel channel (10)

ASSUME TimerLoopAssumption == /\ Sent \subseteq LoopPhase
                              /\ MaxStarts \in Nat /\ MaxStops \in Nat
                              /\ CancelCap \in Nat \ {0}

\* timerArr[phase]: nil; running; its value waits in C; stopped or received.
TimerArr == {"nil", "running", "ready", "idle"}

VARIABLES startCh, stopCh,      \* TimerStartCh, TimerStopCh
          timerArr,             \* timerArr[phase]: see TimerArr
          cancelCh,             \* values in cancelCh[phase], made with timerArr[phase]
          waiters,              \* waiters[phase]: goroutines in their select
          fired,                \* fired[phase]: how often a waiter saw the timer
          loop,                 \* "select", "cancel" (sending to cancelCh) or "exit"
          stopping,             \* the phase whose stop the loop is working on
          starts, stops         \* how often each phase was started, stopped

vars == <<startCh, stopCh, timerArr, cancelCh, waiters, fired, loop, stopping,
          starts, stops>>

Init ==
  /\ startCh = <<>> /\ stopCh = <<>>
  /\ timerArr = [p \in LoopPhase |-> "nil"]
  /\ cancelCh = [p \in LoopPhase |-> 0]
  /\ waiters  = [p \in LoopPhase |-> 0]
  /\ fired    = [p \in LoopPhase |-> 0]
  /\ loop = "select"
  /\ stopping = "Prepare"
  /\ starts = [p \in LoopPhase |-> 0]
  /\ stops  = [p \in LoopPhase |-> 0]

\* The handlers, the executor and the waiters start and stop phases as they like.
Start(p) ==
  /\ starts[p] < MaxStarts
  /\ starts'  = [starts EXCEPT ![p] = @ + 1]
  /\ startCh' = Append(startCh, p)
  /\ UNCHANGED <<stopCh, timerArr, cancelCh, waiters, fired, loop, stopping, stops>>

Stop(p) ==
  /\ stops[p] < MaxStops
  /\ stops'  = [stops EXCEPT ![p] = @ + 1]
  /\ stopCh' = Append(stopCh, p)
  /\ UNCHANGED <<startCh, timerArr, cancelCh, waiters, fired, loop, stopping, starts>>

\* Mutants of LoopReadStart: a timer is made whether there is one or not; only a
\* start that makes no timer makes a waiter; a start waits for the timer to be nil.
LoopReadStartAlways ==
  /\ loop = "select" /\ startCh # <<>>
  /\ LET p == Head(startCh)
     IN  /\ timerArr' = [timerArr EXCEPT ![p] = "running"]
         /\ waiters'  = [waiters EXCEPT ![p] = @ + 1]
  /\ startCh' = Tail(startCh)
  /\ UNCHANGED <<stopCh, cancelCh, fired, loop, stopping, starts, stops>>

LoopReadStartUnwatched ==
  /\ loop = "select" /\ startCh # <<>>
  /\ LET p == Head(startCh)
     IN  /\ timerArr' = [timerArr EXCEPT ![p] = IF @ = "nil" THEN "running" ELSE @]
         /\ waiters'  = [waiters EXCEPT ![p] = IF timerArr[p] = "nil" THEN @ ELSE @ + 1]
  /\ startCh' = Tail(startCh)
  /\ UNCHANGED <<stopCh, cancelCh, fired, loop, stopping, starts, stops>>

LoopReadStartOnce ==
  /\ loop = "select" /\ startCh # <<>>
  /\ LET p == Head(startCh)
     IN  /\ timerArr[p] = "nil"
         /\ timerArr' = [timerArr EXCEPT ![p] = "running"]
         /\ waiters'  = [waiters EXCEPT ![p] = @ + 1]
  /\ startCh' = Tail(startCh)
  /\ UNCHANGED <<stopCh, cancelCh, fired, loop, stopping, starts, stops>>

\* case phaseName := <-TimerStartCh: a waiter for every start, a timer for the first.
LoopReadStart ==
  /\ loop = "select" /\ startCh # <<>>
  /\ LET p == Head(startCh)
     IN  /\ timerArr' = [timerArr EXCEPT ![p] = IF @ = "nil" THEN "running" ELSE @]
         /\ waiters'  = [waiters EXCEPT ![p] = @ + 1]
  /\ startCh' = Tail(startCh)
  /\ UNCHANGED <<stopCh, cancelCh, fired, loop, stopping, starts, stops>>

\* case phaseName := <-TimerStopCh: Stop does not take back a value already in C.
LoopReadStop ==
  /\ loop = "select" /\ stopCh # <<>>
  /\ stopping' = Head(stopCh)
  /\ timerArr' = [timerArr EXCEPT ![stopping'] = IF @ = "running" THEN "idle" ELSE @]
  /\ stopCh'   = Tail(stopCh)
  /\ loop'     = "cancel"
  /\ UNCHANGED <<startCh, cancelCh, waiters, fired, starts, stops>>

\* Mutants of LoopCancel: every waiter gets a cancel; nothing is sent for a phase
\* without a timer; the capacity of the channel is forgotten.
LoopCancelUnbounded ==
  /\ loop = "cancel" /\ timerArr[stopping] # "nil"
  /\ cancelCh' = [cancelCh EXCEPT ![stopping] = @ + 1]
  /\ loop'     = "select"
  /\ UNCHANGED <<startCh, stopCh, timerArr, waiters, fired, stopping, starts, stops>>

LoopCancelEach ==
  /\ loop = "cancel"
  /\ timerArr[stopping] # "nil" /\ cancelCh[stopping] + waiters[stopping] <= CancelCap
  /\ cancelCh' = [cancelCh EXCEPT ![stopping] = @ + waiters[stopping]]
  /\ loop'     = "select"
  /\ UNCHANGED <<startCh, stopCh, timerArr, waiters, fired, stopping, starts, stops>>

LoopCancelIfTimer ==
  /\ loop = "cancel"
  /\ cancelCh[stopping] < CancelCap
  /\ cancelCh' = [cancelCh EXCEPT ![stopping] = IF timerArr[stopping] = "nil" THEN @ ELSE @ + 1]
  /\ loop'     = "select"
  /\ UNCHANGED <<startCh, stopCh, timerArr, waiters, fired, stopping, starts, stops>>

\* cancelCh[phase] <- struct{}{}: blocks on a nil channel, and on a full one.
LoopCancel ==
  /\ loop = "cancel"
  /\ timerArr[stopping] # "nil" /\ cancelCh[stopping] < CancelCap
  /\ cancelCh' = [cancelCh EXCEPT ![stopping] = @ + 1]
  /\ loop'     = "select"
  /\ UNCHANGED <<startCh, stopCh, timerArr, waiters, fired, stopping, starts, stops>>

\* case <-ExitCh: the executor is done with the sequence; the waiters live on.
LoopExit ==
  /\ loop = "select"
  /\ loop' = "exit"
  /\ UNCHANGED <<startCh, stopCh, timerArr, cancelCh, waiters, fired, stopping,
                 starts, stops>>

\* The runtime puts the time into C.
TimerExpires(p) ==
  /\ timerArr[p] = "running"
  /\ timerArr' = [timerArr EXCEPT ![p] = "ready"]
  /\ UNCHANGED <<startCh, stopCh, cancelCh, waiters, fired, loop, stopping, starts, stops>>

\* Mutant of WaiterFires: the loop itself looks at the timer.
WaiterFiresInLoop(p) ==
  /\ loop = "select" /\ waiters[p] > 0 /\ timerArr[p] = "ready"
  /\ timerArr' = [timerArr EXCEPT ![p] = "idle"]
  /\ waiters'  = [waiters EXCEPT ![p] = @ - 1]
  /\ fired'    = [fired EXCEPT ![p] = @ + 1]
  /\ UNCHANGED <<startCh, stopCh, cancelCh, loop, stopping, starts, stops>>

\* case <-timerArr[phase].C
WaiterFires(p) ==
  /\ waiters[p] > 0 /\ timerArr[p] = "ready"
  /\ timerArr' = [timerArr EXCEPT ![p] = "idle"]
  /\ waiters'  = [waiters EXCEPT ![p] = @ - 1]
  /\ fired'    = [fired EXCEPT ![p] = @ + 1]
  /\ UNCHANGED <<startCh, stopCh, cancelCh, loop, stopping, starts, stops>>

\* case <-cancelCh[phase]
WaiterCancelled(p) ==
  /\ waiters[p] > 0 /\ cancelCh[p] > 0
  /\ cancelCh' = [cancelCh EXCEPT ![p] = @ - 1]
  /\ waiters'  = [waiters EXCEPT ![p] = @ - 1]
  /\ UNCHANGED <<startCh, stopCh, timerArr, fired, loop, stopping, starts, stops>>

Loop      == LoopReadStart \/ LoopReadStop \/ LoopCancel
Waiter(p) == WaiterFires(p) \/ WaiterCancelled(p)

Next == \/ \E p \in Sent : Start(p) \/ Stop(p)
        \/ \E p \in LoopPhase : TimerExpires(p) \/ Waiter(p)
        \/ Loop \/ LoopExit

Spec == Init /\ [][Next]_vars

\* Time passes and every goroutine that can run does, one at a time.
FairSpec == /\ Spec
            /\ WF_vars(Loop)
            /\ \A p \in LoopPhase : WF_vars(TimerExpires(p)) /\ WF_vars(Waiter(p))

------------------------------------------------------------------------------
TypeOK ==
  /\ startCh \in Seq(LoopPhase) /\ stopCh \in Seq(LoopPhase)
  /\ timerArr \in [LoopPhase -> TimerArr]
  /\ cancelCh \in [LoopPhase -> 0..CancelCap]
  /\ waiters \in [LoopPhase -> Nat] /\ fired \in [LoopPhase -> Nat]
  /\ loop \in {"select", "cancel", "exit"} /\ stopping \in LoopPhase
  /\ starts \in [LoopPhase -> Nat] /\ stops \in [LoopPhase -> Nat]

\* A running timer is watched: it has a waiter, and no cancel left over from an
\* earlier stop that could take the waiter away before the timer is done.
RunningIsWatched ==
  \A p \in LoopPhase : timerArr[p] = "running" => waiters[p] > 0 /\ cancelCh[p] = 0

\* A phase times out at most once, however often it is started: timerArr[phase]
\* never goes back to nil and the one value in C goes to one waiter.
FiresOnce == \A p \in LoopPhase :
  fired[p] + (IF timerArr[p] \in {"running", "ready"} THEN 1 ELSE 0) <= 1

\* The loop hangs on the cancel channel of a phase that was started only after
\* more stops of that phase than the channel holds.
HangsOnlyWhenFull ==
  loop = "cancel" /\ timerArr[stopping] # "nil" /\ cancelCh[stopping] = CancelCap
    => stops[stopping] > CancelCap

\* For the other goroutines this is the thread of Timers: its loop is blocked for
\* ever once it stops a phase that was never started.
blocked == loop = "cancel" /\ timerArr[stopping] = "nil"

timersOf == [p \in LoopPhase |-> CASE timerArr[p] = "nil"  -> "none"
                                   [] timerArr[p] = "idle" -> "spent"
                                   [] OTHER                -> "armed"]

ThreadOf == [startCh |-> startCh, stopCh |-> stopCh,
             timer |-> timersOf, blocked |-> blocked]

T == INSTANCE TimerThread WITH thread <- ThreadOf

ImplementsTimerThread == T!Spec

\* A running timer is stopped, seen by a waiter, or its last waiter is cancelled:
\* no phase waits for ever with its timer done.
RunningIsServed ==
  \A p \in LoopPhase :
    timerArr[p] = "running" ~> timerArr[p] = "idle" \/ waiters[p] = 0

\* Nobody is left to read the full channel the loop sends to.
hangs == /\ loop = "cancel" /\ cancelCh[stopping] = CancelCap
         /\ waiters[stopping] = 0

\* A start that was sent is served unless the loop is blocked, hangs or has exited:
\* a full cancel channel alone holds it up only until a waiter reads it.
StartsAreServed ==
  startCh # <<>> ~> startCh = <<>> \/ blocked \/ hangs \/ loop = "exit"
===============================================================================
