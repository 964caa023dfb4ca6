---------------------------- MODULE TimerLoopProofs ----------------------------
(***************************************************************************)
(* The timer loop: a running timer is watched, a phase times out at most    *)
(* once, the loop hangs on a full cancel channel only, and for the other    *)
(* goroutines it is the thread of Timers, for any number of starts and      *)
(* stops and any capacity of the cancel channels.                           *)
(***************************************************************************)
EXTENDS TimerLoop, FiniteSetTheorems, SequenceTheorems, TLAPS

\* How often a phase waits in a channel.
Places(s, p) == {k \in 1..Len(s) : s[k] = p}
Occurs(s, p) == Cardinality(Places(s, p))

\* A cancel is left over only where the timer was stopped or has expired, and the loop
\* sends one only after it has stopped the timer.
NoCancelAhead ==
  /\ \A p \in LoopPhase : timerArr[p] \in {"nil", "running"} => cancelCh[p] = 0
  /\ loop = "cancel" => timerArr[stopping] # "running"

Watched == \A p \in LoopPhase : timerArr[p] = "running" => waiters[p] > 0

\* Before its first start a phase has not fired.
NotYetFired == \A p \in LoopPhase : timerArr[p] = "nil" => fired[p] = 0

\* Every cancel, sent or about to be, and every name in TimerStopCh is a stop.
Owed(p) == IF loop = "cancel" /\ stopping = p THEN 1 ELSE 0

CancelsAreStops ==
  \A p \in LoopPhase : cancelCh[p] + Occurs(stopCh, p) + Owed(p) <= stops[p]

IInv == /\ TypeOK /\ NoCancelAhead /\ Watched /\ NotYetFired /\ FiresOnce
        /\ CancelsAreStops

------------------------------------------------------------------------------
(* Occurrences in a channel.                                                *)

LEMMA OccursIsNat ==
  ASSUME NEW s \in Seq(LoopPhase), NEW p
  PROVE  IsFiniteSet(Places(s, p)) /\ Occurs(s, p) \in Nat
<1>1. IsFiniteSet(1..Len(s))
  BY FS_Interval, LenProperties
<1>2. Places(s, p) \in SUBSET (1..Len(s))
  BY DEF Places
<1> QED  BY <1>1, <1>2, FS_Subset, FS_CardinalityType DEF Occurs

LEMMA OccursAppend ==
  ASSUME NEW s \in Seq(LoopPhase), NEW e \in LoopPhase, NEW p
  PROVE  Occurs(Append(s, e), p) = Occurs(s, p) + (IF e = p THEN 1 ELSE 0)
<1> DEFINE n == Len(s) + 1
<1>1. /\ Len(s) \in Nat /\ Len(Append(s, e)) = n
      /\ \A k \in 1..Len(s) : Append(s, e)[k] = s[k]
      /\ Append(s, e)[n] = e
  BY AppendProperties, LenProperties
<1>2. IsFiniteSet(Places(s, p)) /\ n \notin Places(s, p) /\ Occurs(s, p) \in Nat
  BY <1>1, OccursIsNat DEF Places
<1>3. CASE e = p
  <2>1. Places(Append(s, e), p) = Places(s, p) \cup {n}
    BY <1>1, <1>3 DEF Places
  <2> QED  BY <1>2, <1>3, <2>1, FS_AddElement DEF Occurs
<1>4. CASE e # p
  <2>1. Places(Append(s, e), p) = Places(s, p)
    BY <1>1, <1>4 DEF Places
  <2> QED  BY <1>2, <1>3, <1>4, <2>1 DEF Occurs
<1> QED  BY <1>3, <1>4

LEMMA OccursTail ==
  ASSUME NEW s \in Seq(LoopPhase), s # <<>>, NEW p
  PROVE  Occurs(s, p) = Occurs(Tail(s), p) + (IF Head(s) = p THEN 1 ELSE 0)
<1> DEFINE A == Places(Tail(s), p)
           B == Places(s, p) \ {1}
           f == [k \in A |-> k + 1]
<1>1. /\ Len(s) \in Nat \ {0} /\ Len(Tail(s)) = Len(s) - 1 /\ Tail(s) \in Seq(LoopPhase)
      /\ \A k \in 1..Len(Tail(s)) : Tail(s)[k] = s[k + 1]
      /\ Head(s) = s[1]
  BY HeadTailProperties, LenProperties, EmptySeq
<1>2. \A k \in A : k \in Nat /\ k + 1 \in B
  BY <1>1 DEF Places
<1>3. \A k \in B : k - 1 \in A /\ k = (k - 1) + 1
  BY <1>1 DEF Places
<1>4. f \in Bijection(A, B)
  <2> HIDE DEF A, B
  <2>1. f \in Injection(A, B)
    BY <1>2 DEF Injection, IsInjective
  <2>2. f \in Surjection(A, B)
    BY <1>2, <1>3 DEF Surjection
  <2> QED  BY <2>1, <2>2 DEF Bijection
<1>5. IsFiniteSet(A) /\ IsFiniteSet(Places(s, p)) /\ Cardinality(A) \in Nat
  BY <1>1, OccursIsNat DEF Occurs
<1>6. ExistsBijection(A, B)
  BY <1>4 DEF ExistsBijection
<1>7. Cardinality(B) = Cardinality(A)
  BY <1>5, <1>6, FS_Bijection
<1>8. 1 \in Places(s, p) <=> Head(s) = p
  BY <1>1 DEF Places
<1>9. Occurs(s, p) = Cardinality(B) + (IF 1 \in Places(s, p) THEN 1 ELSE 0)
  <2>1. Cardinality(Places(s, p)) \in Nat
    BY OccursIsNat DEF Occurs
  <2>2. Cardinality(B) = IF 1 \in Places(s, p) THEN Cardinality(Places(s, p)) - 1
                         ELSE Cardinality(Places(s, p))
    BY <1>5, FS_RemoveElement
  <2> QED  BY <2>1, <2>2 DEF Occurs
<1> QED  BY <1>7, <1>8, <1>9 DEF Occurs

LEMMA OccursEmpty == \A p : Occurs(<<>>, p) = 0
<1>1. \A p : Places(<<>>, p) = {}
  BY DEF Places
<1> QED  BY <1>1, FS_EmptySet DEF Occurs

------------------------------------------------------------------------------
LEMMA InitIInv == Init => IInv
<1> SUFFICES ASSUME Init PROVE IInv
  OBVIOUS
<1>1. TypeOK
  BY TimerLoopAssumption DEF Init, TypeOK, LoopPhase, TimerArr
<1>2. CancelsAreStops
  <2>1. \A p : Occurs(stopCh, p) = 0
    BY OccursEmpty DEF Init
  <2> SUFFICES ASSUME NEW p \in LoopPhase
               PROVE  cancelCh[p] + Occurs(stopCh, p) + Owed(p) <= stops[p]
    BY DEF CancelsAreStops
  <2>2. cancelCh[p] = 0 /\ Owed(p) = 0 /\ stops[p] = 0
    BY DEF Init, Owed
  <2> QED  BY <2>1, <2>2
<1> QED  BY <1>1, <1>2 DEF Init, IInv, NoCancelAhead, Watched, NotYetFired, FiresOnce


\* What a step that leaves TimerStopCh, the cancels and the stops alone keeps.
LEMMA CancelsKept ==
  ASSUME CancelsAreStops, UNCHANGED <<cancelCh, stopCh, stops>>,
         \A p \in LoopPhase : Owed(p)' = Owed(p)
  PROVE  CancelsAreStops'
BY DEF CancelsAreStops, Occurs, Places

LEMMA StartIInv ==
  ASSUME IInv, NEW p \in LoopPhase, Start(p)
  PROVE  IInv'
<1>1. startCh' \in Seq(LoopPhase)
  BY AppendProperties DEF IInv, TypeOK, Start
<1>2. TypeOK'
  <2>1. starts' \in [LoopPhase -> Nat]
    BY DEF IInv, TypeOK, Start
  <2>2. UNCHANGED <<stopCh, timerArr, cancelCh, waiters, fired, loop, stopping, stops>>
    BY DEF Start
  <2> QED  BY <1>1, <2>1, <2>2 DEF IInv, TypeOK
<1>3. CancelsAreStops'
  BY CancelsKept DEF IInv, Start, Owed
<1> QED  BY <1>2, <1>3 DEF IInv, NoCancelAhead, Watched, NotYetFired, FiresOnce, Start

LEMMA StopIInv ==
  ASSUME IInv, NEW p \in LoopPhase, Stop(p)
  PROVE  IInv'
<1>1. stopCh' \in Seq(LoopPhase)
  BY AppendProperties DEF IInv, TypeOK, Stop
<1>2. TypeOK'
  <2>1. stops' \in [LoopPhase -> Nat]
    BY DEF IInv, TypeOK, Stop
  <2>2. UNCHANGED <<startCh, timerArr, cancelCh, waiters, fired, loop, stopping, starts>>
    BY DEF Stop
  <2> QED  BY <1>1, <2>1, <2>2 DEF IInv, TypeOK
<1>3. CancelsAreStops'
  <2> SUFFICES ASSUME NEW q \in LoopPhase
               PROVE  cancelCh'[q] + Occurs(stopCh', q) + Owed(q)' <= stops'[q]
    BY DEF CancelsAreStops, Occurs, Places
  <2>1. Occurs(stopCh', q) = Occurs(stopCh, q) + (IF p = q THEN 1 ELSE 0)
    BY OccursAppend DEF Stop, IInv, TypeOK
  <2>2. stops'[q] = IF p = q THEN stops[q] + 1 ELSE stops[q]
    BY DEF Stop, IInv, TypeOK
  <2>3. cancelCh'[q] = cancelCh[q] /\ Owed(q)' = Owed(q)
    BY DEF Stop, Owed
  <2>4. /\ cancelCh[q] \in Nat /\ Owed(q) \in Nat /\ stops[q] \in Nat
        /\ Occurs(stopCh, q) \in Nat
    BY TimerLoopAssumption, OccursIsNat DEF IInv, TypeOK, Owed
  <2>5. cancelCh[q] + Occurs(stopCh, q) + Owed(q) <= stops[q]
    BY DEF IInv, CancelsAreStops
  <2> QED  BY <2>1, <2>2, <2>3, <2>4, <2>5
<1> QED  BY <1>2, <1>3 DEF IInv, NoCancelAhead, Watched, NotYetFired, FiresOnce, Stop

\* A timer is made only where there was none, and then nothing is left in its channel.
LEMMA LoopReadStartIInv ==
  ASSUME IInv, LoopReadStart
  PROVE  IInv'
<1> DEFINE p == Head(startCh)
<1>1. p \in LoopPhase /\ startCh' \in Seq(LoopPhase)
  BY HeadTailProperties DEF IInv, TypeOK, LoopReadStart
<1>2. /\ timerArr' = [timerArr EXCEPT ![p] = IF @ = "nil" THEN "running" ELSE @]
      /\ waiters' = [waiters EXCEPT ![p] = @ + 1] /\ loop = "select"
      /\ UNCHANGED <<stopCh, cancelCh, fired, loop, stopping, starts, stops>>
  BY DEF LoopReadStart
<1>3. /\ timerArr \in [LoopPhase -> TimerArr] /\ waiters \in [LoopPhase -> Nat]
      /\ fired \in [LoopPhase -> Nat]
  BY DEF IInv, TypeOK
<1> HIDE DEF p
<1>4. TypeOK'
  <2>1. timerArr' \in [LoopPhase -> TimerArr]
    BY <1>1, <1>2, <1>3 DEF TimerArr
  <2>2. waiters' \in [LoopPhase -> Nat]
    BY <1>1, <1>2, <1>3
  <2> QED  BY <1>1, <1>2, <2>1, <2>2 DEF IInv, TypeOK
<1>5. NoCancelAhead'
  BY <1>1, <1>2, <1>3 DEF IInv, NoCancelAhead
<1>6. Watched'
  BY <1>1, <1>2, <1>3 DEF IInv, Watched
<1>7. NotYetFired' /\ FiresOnce'
  BY <1>1, <1>2, <1>3 DEF IInv, NotYetFired, FiresOnce
<1>8. CancelsAreStops'
  BY <1>2, CancelsKept DEF IInv, Owed
<1> QED  BY <1>4, <1>5, <1>6, <1>7, <1>8 DEF IInv

LEMMA LoopReadStopIInv ==
  ASSUME IInv, LoopReadStop
  PROVE  IInv'
<1> DEFINE p == Head(stopCh)
<1>1. p \in LoopPhase /\ stopCh' \in Seq(LoopPhase)
  BY HeadTailProperties DEF IInv, TypeOK, LoopReadStop
<1>2. /\ timerArr' = [timerArr EXCEPT ![p] = IF @ = "running" THEN "idle" ELSE @]
      /\ stopping' = p /\ loop = "select" /\ loop' = "cancel"
      /\ UNCHANGED <<startCh, cancelCh, waiters, fired, starts, stops>>
  BY DEF LoopReadStop
<1>3. timerArr \in [LoopPhase -> TimerArr] /\ fired \in [LoopPhase -> Nat]
  BY DEF IInv, TypeOK
<1>4. CancelsAreStops'
  <2> SUFFICES ASSUME NEW q \in LoopPhase
               PROVE  cancelCh'[q] + Occurs(stopCh', q) + Owed(q)' <= stops'[q]
    BY DEF CancelsAreStops, Occurs, Places
  <2>1. Occurs(stopCh, q) = Occurs(stopCh', q) + (IF p = q THEN 1 ELSE 0)
    BY OccursTail DEF LoopReadStop, IInv, TypeOK
  <2>2. Owed(q) = 0 /\ Owed(q)' = IF p = q THEN 1 ELSE 0
    BY <1>2 DEF Owed
  <2>3. Occurs(stopCh', q) \in Nat
    BY <1>1, OccursIsNat
  <2>4. cancelCh[q] \in Nat /\ cancelCh'[q] = cancelCh[q] /\ stops'[q] = stops[q]
    BY <1>2, TimerLoopAssumption DEF IInv, TypeOK
  <2>5. cancelCh[q] + Occurs(stopCh, q) + Owed(q) <= stops[q]
    BY DEF IInv, CancelsAreStops
  <2> QED  BY <2>1, <2>2, <2>3, <2>4, <2>5
<1> HIDE DEF p
<1>5. timerArr' \in [LoopPhase -> TimerArr]
  BY <1>1, <1>2, <1>3 DEF TimerArr
<1>6. TypeOK'
  BY <1>1, <1>2, <1>5 DEF IInv, TypeOK
<1>7. NoCancelAhead' /\ Watched'
  BY <1>1, <1>2, <1>3 DEF IInv, NoCancelAhead, Watched
<1>8. NotYetFired' /\ FiresOnce'
  BY <1>1, <1>2, <1>3 DEF IInv, NotYetFired, FiresOnce
<1> QED  BY <1>4, <1>6, <1>7, <1>8 DEF IInv

LEMMA LoopCancelIInv ==
  ASSUME IInv, LoopCancel
  PROVE  IInv'
<1>1. /\ cancelCh \in [LoopPhase -> 0..CancelCap] /\ stopping \in LoopPhase
      /\ cancelCh[stopping] < CancelCap /\ timerArr[stopping] \notin {"nil", "running"}
      /\ cancelCh' = [cancelCh EXCEPT ![stopping] = @ + 1]
      /\ loop = "cancel" /\ loop' = "select"
  BY DEF IInv, TypeOK, NoCancelAhead, LoopCancel
<1>2. cancelCh' \in [LoopPhase -> 0..CancelCap]
  BY <1>1, TimerLoopAssumption
<1>3. TypeOK'
  BY <1>2 DEF IInv, TypeOK, LoopCancel
<1>4. NoCancelAhead' /\ Watched' /\ NotYetFired' /\ FiresOnce'
  BY <1>1 DEF IInv, NoCancelAhead, Watched, NotYetFired, FiresOnce, LoopCancel
<1>5. CancelsAreStops'
  <2> SUFFICES ASSUME NEW q \in LoopPhase
               PROVE  cancelCh'[q] + Occurs(stopCh', q) + Owed(q)' <= stops'[q]
    BY DEF CancelsAreStops, Occurs, Places
  <2>1. Owed(q)' = 0 /\ cancelCh'[q] = cancelCh[q] + Owed(q)
    BY <1>1, TimerLoopAssumption DEF Owed
  <2>2. stopCh' = stopCh /\ stops'[q] = stops[q]
    BY DEF LoopCancel
  <2>3. cancelCh[q] \in Nat /\ Owed(q) \in Nat /\ Occurs(stopCh, q) \in Nat
    BY OccursIsNat, TimerLoopAssumption DEF IInv, TypeOK, Owed
  <2>4. cancelCh[q] + Occurs(stopCh, q) + Owed(q) <= stops[q]
    BY DEF IInv, CancelsAreStops
  <2> QED  BY <2>1, <2>2, <2>3, <2>4
<1> QED  BY <1>3, <1>4, <1>5 DEF IInv

LEMMA TimerExpiresIInv ==
  ASSUME IInv, NEW p \in LoopPhase, TimerExpires(p)
  PROVE  IInv'
<1>1. TypeOK'
  BY DEF IInv, TypeOK, TimerArr, TimerExpires
<1>2. NoCancelAhead' /\ Watched' /\ NotYetFired' /\ FiresOnce'
  BY DEF IInv, TypeOK, NoCancelAhead, Watched, NotYetFired, FiresOnce, TimerExpires
<1>3. CancelsAreStops'
  BY CancelsKept DEF IInv, TimerExpires, Owed
<1> QED  BY <1>1, <1>2, <1>3 DEF IInv

LEMMA WaiterFiresIInv ==
  ASSUME IInv, NEW p \in LoopPhase, WaiterFires(p)
  PROVE  IInv'
<1>1. /\ timerArr \in [LoopPhase -> TimerArr] /\ waiters \in [LoopPhase -> Nat]
      /\ fired \in [LoopPhase -> Nat] /\ waiters[p] > 0 /\ timerArr[p] = "ready"
      /\ timerArr' = [timerArr EXCEPT ![p] = "idle"]
      /\ waiters'  = [waiters EXCEPT ![p] = @ - 1]
      /\ fired'    = [fired EXCEPT ![p] = @ + 1]
      /\ UNCHANGED <<cancelCh, loop, stopping>>
  BY DEF IInv, TypeOK, WaiterFires
<1>2. /\ timerArr' \in [LoopPhase -> TimerArr] /\ waiters' \in [LoopPhase -> Nat]
      /\ fired' \in [LoopPhase -> Nat]
  BY <1>1 DEF TimerArr
<1>3. TypeOK'
  BY <1>2 DEF IInv, TypeOK, WaiterFires
<1>4. NoCancelAhead' /\ Watched'
  BY <1>1 DEF IInv, NoCancelAhead, Watched
<1>5. NotYetFired' /\ FiresOnce'
  BY <1>1 DEF IInv, NotYetFired, FiresOnce
<1>6. CancelsAreStops'
  BY CancelsKept DEF IInv, WaiterFires, Owed
<1> QED  BY <1>3, <1>4, <1>5, <1>6 DEF IInv

\* A waiter goes without its timer only if a cancel waits, so the timer is not running.
LEMMA WaiterCancelledIInv ==
  ASSUME IInv, NEW p \in LoopPhase, WaiterCancelled(p)
  PROVE  IInv'
<1>1. /\ cancelCh \in [LoopPhase -> 0..CancelCap] /\ waiters \in [LoopPhase -> Nat]
      /\ waiters[p] > 0 /\ cancelCh[p] > 0 /\ timerArr[p] \notin {"nil", "running"}
      /\ cancelCh' = [cancelCh EXCEPT ![p] = @ - 1]
      /\ waiters'  = [waiters EXCEPT ![p] = @ - 1]
      /\ UNCHANGED <<timerArr, fired, loop, stopping, stopCh, stops>>
  BY DEF IInv, TypeOK, WaiterCancelled, NoCancelAhead
<1>2. cancelCh' \in [LoopPhase -> 0..CancelCap] /\ waiters' \in [LoopPhase -> Nat]
  BY <1>1, TimerLoopAssumption
<1>3. TypeOK'
  BY <1>2 DEF IInv, TypeOK, WaiterCancelled
<1>4. NoCancelAhead' /\ Watched' /\ NotYetFired' /\ FiresOnce'
  BY <1>1 DEF IInv, NoCancelAhead, Watched, NotYetFired, FiresOnce
<1>5. CancelsAreStops'
  <2> SUFFICES ASSUME NEW q \in LoopPhase
               PROVE  cancelCh'[q] + Occurs(stopCh', q) + Owed(q)' <= stops'[q]
    BY DEF CancelsAreStops, Occurs, Places
  <2>1. Owed(q)' = Owed(q) /\ stopCh' = stopCh /\ stops'[q] = stops[q]
    BY <1>1 DEF Owed
  <2>2. cancelCh[q] \in Nat /\ cancelCh'[q] \in Nat /\ cancelCh'[q] <= cancelCh[q]
    BY <1>1, <1>2, TimerLoopAssumption
  <2>3. Owed(q) \in Nat /\ Occurs(stopCh, q) \in Nat /\ stops[q] \in Nat
    BY OccursIsNat DEF IInv, TypeOK, Owed
  <2>4. cancelCh[q] + Occurs(stopCh, q) + Owed(q) <= stops[q]
    BY DEF IInv, CancelsAreStops
  <2> QED  BY <2>1, <2>2, <2>3, <2>4
<1> QED  BY <1>3, <1>4, <1>5 DEF IInv

LEMMA NextIInv == IInv /\ [Next]_vars => IInv'
<1> SUFFICES ASSUME IInv, [Next]_vars PROVE IInv'
  OBVIOUS
<1>1. CASE \E p \in Sent : Start(p) \/ Stop(p)
  BY <1>1, TimerLoopAssumption, StartIInv, StopIInv
<1>2. CASE \E p \in LoopPhase : TimerExpires(p) \/ Waiter(p)
  BY <1>2, TimerExpiresIInv, WaiterFiresIInv, WaiterCancelledIInv DEF Waiter
<1>3. CASE Loop
  BY <1>3, LoopReadStartIInv, LoopReadStopIInv, LoopCancelIInv DEF Loop
<1>4. CASE LoopExit
  BY <1>4 DEF LoopExit, IInv, TypeOK, NoCancelAhead, Watched, NotYetFired, FiresOnce,
              CancelsAreStops, Occurs, Places, Owed
<1>5. CASE UNCHANGED vars
  BY <1>5 DEF vars, IInv, TypeOK, NoCancelAhead, Watched, NotYetFired, FiresOnce,
              CancelsAreStops, Occurs, Places, Owed
<1> QED  BY <1>1, <1>2, <1>3, <1>4, <1>5 DEF Next

\* The inductive invariant holds in every reachable state.
THEOREM TimerLoopInvariant == Spec => []IInv
<1> QED  BY InitIInv, NextIInv, PTL DEF Spec

\* Every reachable state is well typed; no cancel channel holds more than its capacity.
THEOREM TimerLoopTypeCorrect == Spec => []TypeOK
<1>1. IInv => TypeOK
  BY DEF IInv
<1> QED  BY <1>1, TimerLoopInvariant, PTL

\* node.go, startTransitionWithDeadline: a running timer has a waiter and no cancel of
\* an earlier stop waits for it.
THEOREM RunningTimersAreWatched == Spec => []RunningIsWatched
<1>1. IInv => RunningIsWatched
  BY DEF IInv, NoCancelAhead, Watched, RunningIsWatched
<1> QED  BY <1>1, TimerLoopInvariant, PTL

\* A phase times out at most once, however often it is started and by however many
\* goroutines.
THEOREM PhasesFireOnce == Spec => []FiresOnce
<1>1. IInv => FiresOnce
  BY DEF IInv
<1> QED  BY <1>1, TimerLoopInvariant, PTL

\* The loop hangs on the cancel channel of a started phase only after more stops than
\* the channel holds.
THEOREM LoopHangsOnlyWhenFull == Spec => []HangsOnlyWhenFull
<1>1. IInv => HangsOnlyWhenFull
  <2> SUFFICES ASSUME IInv, loop = "cancel", cancelCh[stopping] = CancelCap
               PROVE  stops[stopping] > CancelCap
    BY DEF HangsOnlyWhenFull
  <2>1. stopping \in LoopPhase /\ Owed(stopping) = 1
    BY DEF IInv, TypeOK, Owed
  <2>2. Occurs(stopCh, stopping) \in Nat /\ stops[stopping] \in Nat
    BY <2>1, OccursIsNat DEF IInv, TypeOK
  <2>3. cancelCh[stopping] + Occurs(stopCh, stopping) + Owed(stopping) <= stops[stopping]
    BY <2>1 DEF IInv, CancelsAreStops
  <2> QED  BY <2>1, <2>2, <2>3, TimerLoopAssumption
<1> QED  BY <1>1, TimerLoopInvariant, PTL

------------------------------------------------------------------------------
(* Refinement: what the loop does with its channels is what the loop of     *)
(* Timers does, and a waiter that sees its timer is an armed timer that     *)
(* expires; waiters, cancels and the exit are not seen from outside.        *)

LEMMA InitRefines == Init => ThreadOf = T!NewThread
BY DEF Init, ThreadOf, timersOf, T!NewThread, blocked, LoopPhase, T!LoopPhase

LEMMA SendRefines ==
  ASSUME TypeOK, NEW p \in LoopPhase, Start(p) \/ Stop(p)
  PROVE  T!Send(p)
<1>1. (blocked' <=> blocked) /\ timerArr' = timerArr
  BY DEF Start, Stop, blocked
<1>2. PICK no \in BOOLEAN : no = blocked
  BY DEF blocked
<1>3. no = blocked'
  BY <1>1, <1>2 DEF blocked
<1>4. /\ ThreadOf = [startCh |-> startCh, stopCh |-> stopCh, timer |-> timersOf, blocked |-> no]
      /\ ThreadOf' = [startCh |-> startCh', stopCh |-> stopCh', timer |-> timersOf, blocked |-> no]
  BY <1>1, <1>2, <1>3 DEF ThreadOf, timersOf
<1>5. CASE Start(p)
  <2>1. ThreadOf' = T!SendStart(ThreadOf, p)
    <3>1. startCh' = Append(startCh, p) /\ stopCh' = stopCh
      BY <1>5 DEF Start
    <3>2. [[startCh |-> startCh, stopCh |-> stopCh, timer |-> timersOf, blocked |-> no]
             EXCEPT !.startCh = Append(@, p)]
          = [startCh |-> Append(startCh, p), stopCh |-> stopCh, timer |-> timersOf, blocked |-> no]
      OBVIOUS
    <3> QED  BY <1>4, <3>1, <3>2 DEF T!SendStart
  <2> QED  BY <2>1 DEF T!Send
<1>6. CASE Stop(p)
  <2>1. ThreadOf' = T!SendStop(ThreadOf, p)
    <3>1. stopCh' = Append(stopCh, p) /\ startCh' = startCh
      BY <1>6 DEF Stop
    <3>2. [[startCh |-> startCh, stopCh |-> stopCh, timer |-> timersOf, blocked |-> no]
             EXCEPT !.stopCh = Append(@, p)]
          = [startCh |-> startCh, stopCh |-> Append(stopCh, p), timer |-> timersOf, blocked |-> no]
      OBVIOUS
    <3> QED  BY <1>4, <3>1, <3>2 DEF T!SendStop
  <2> QED  BY <2>1 DEF T!Send
<1> QED  BY <1>5, <1>6

LEMMA ReadStartRefines ==
  ASSUME TypeOK, LoopReadStart
  PROVE  T!Loop
<1> DEFINE p == Head(startCh)
<1>1. p \in LoopPhase
  BY HeadTailProperties DEF TypeOK, LoopReadStart
<1>2. blocked = FALSE /\ blocked' = FALSE
  BY DEF blocked, LoopReadStart
<1>3. /\ timerArr \in [LoopPhase -> TimerArr]
      /\ timerArr' = [timerArr EXCEPT ![p] = IF @ = "nil" THEN "running" ELSE @]
      /\ startCh # <<>> /\ startCh' = Tail(startCh) /\ stopCh' = stopCh
  BY DEF TypeOK, LoopReadStart
<1>4. ThreadOf' = T!LoopStart(ThreadOf)
  <2>1. /\ ThreadOf = [startCh |-> startCh, stopCh |-> stopCh, timer |-> timersOf, blocked |-> FALSE]
        /\ ThreadOf' = [startCh |-> Tail(startCh), stopCh |-> stopCh, timer |-> timersOf',
                        blocked |-> FALSE]
    BY <1>2, <1>3 DEF ThreadOf
  <2>2. timersOf' = IF timersOf[p] = "none" THEN [timersOf EXCEPT ![p] = "armed"] ELSE timersOf
    BY <1>1, <1>3 DEF timersOf
  <2> QED  BY <2>1, <2>2 DEF T!LoopStart, T!ArmTimer
<1>5. ThreadOf.startCh # <<>> /\ ~ThreadOf.blocked
  BY <1>2, <1>3 DEF ThreadOf
<1>6. ThreadOf' \in T!LoopOutcomes(ThreadOf)
  BY <1>4, <1>5 DEF T!LoopOutcomes
<1> QED  BY <1>6 DEF T!Loop

LEMMA ReadStopRefines ==
  ASSUME TypeOK, LoopReadStop
  PROVE  T!Loop
<1> DEFINE p == Head(stopCh)
           t == [ThreadOf EXCEPT !.stopCh = Tail(stopCh)]
<1>1. p \in LoopPhase
  BY HeadTailProperties DEF TypeOK, LoopReadStop
<1>2. blocked = FALSE /\ blocked' = (timerArr[p] = "nil")
  BY <1>1 DEF blocked, LoopReadStop, TypeOK
<1>31. PICK no \in BOOLEAN : no = FALSE
  OBVIOUS
<1>32. PICK yes \in BOOLEAN : yes = TRUE
  OBVIOUS
<1>33. PICK a, b, c, d : a = startCh /\ b = stopCh /\ c = timersOf /\ d = Tail(stopCh)
  OBVIOUS
<1>3. no = FALSE /\ yes = TRUE /\ a = startCh /\ b = stopCh /\ c = timersOf /\ d = Tail(stopCh)
  BY <1>31, <1>32, <1>33
<1>4. /\ timerArr \in [LoopPhase -> TimerArr]
      /\ timerArr' = [timerArr EXCEPT ![p] = IF @ = "running" THEN "idle" ELSE @]
      /\ stopCh # <<>> /\ stopCh' = Tail(stopCh) /\ startCh' = startCh
  BY DEF TypeOK, LoopReadStop
<1>5. ThreadOf = [startCh |-> a, stopCh |-> b, timer |-> c, blocked |-> no]
  BY <1>2, <1>3 DEF ThreadOf
<1>6. t = [startCh |-> a, stopCh |-> d, timer |-> c, blocked |-> no]
  <2>1. [ThreadOf EXCEPT !.stopCh = d] = [startCh |-> a, stopCh |-> d, timer |-> c, blocked |-> no]
    BY <1>5
  <2> QED  BY <1>3, <2>1
<1>7. ThreadOf' \in T!StopTimer(t, p)
  <2> HIDE DEF p, t
  <2>1. CASE timerArr[p] = "nil"
    <3>1. t.timer[p] = "none" /\ timersOf' = timersOf
      BY <1>1, <1>3, <1>4, <1>6, <2>1 DEF timersOf
    <3>2. ThreadOf' = [startCh |-> a, stopCh |-> d, timer |-> c, blocked |-> yes]
      BY <1>2, <1>3, <1>4, <2>1, <3>1 DEF ThreadOf
    <3>3. [t EXCEPT !.blocked = yes] = [startCh |-> a, stopCh |-> d, timer |-> c, blocked |-> yes]
      BY <1>6
    <3>4. ThreadOf' = [t EXCEPT !.blocked = TRUE]
      BY <1>3, <3>2, <3>3
    <3> QED  BY <3>1, <3>4 DEF T!StopTimer
  <2>2. CASE timerArr[p] = "running"
    <3>1. t.timer[p] = "armed" /\ timersOf' = [timersOf EXCEPT ![p] = "spent"]
      BY <1>1, <1>3, <1>4, <1>6, <2>2 DEF timersOf
    <3>2. ThreadOf' = [startCh |-> a, stopCh |-> d,
                       timer |-> [c EXCEPT ![p] = "spent"], blocked |-> no]
      BY <1>2, <1>3, <1>4, <2>2, <3>1 DEF ThreadOf
    <3>3. ThreadOf' = T!SpendTimer(t, p)
      <4>1. [t EXCEPT !.timer[p] = "spent"]
            = [startCh |-> a, stopCh |-> d,
               timer |-> [c EXCEPT ![p] = "spent"], blocked |-> no]
        BY <1>6
      <4> QED  BY <3>2, <4>1 DEF T!SpendTimer
    <3> QED  BY <3>1, <3>3 DEF T!StopTimer
  <2>3. CASE timerArr[p] \in {"ready", "idle"}
    <3>1. t.timer[p] \in {"armed", "spent"} /\ timersOf' = timersOf
      BY <1>1, <1>3, <1>4, <1>6, <2>3 DEF timersOf
    <3>2. ThreadOf' = t
      BY <1>2, <1>3, <1>4, <1>6, <2>3, <3>1 DEF ThreadOf
    <3> QED  BY <3>1, <3>2 DEF T!StopTimer
  <2> QED  BY <1>1, <1>4, <2>1, <2>2, <2>3 DEF TimerArr
<1>8. ThreadOf.stopCh = stopCh /\ ~ThreadOf.blocked
  BY <1>2, <1>3, <1>5 DEF ThreadOf
<1>9. ThreadOf' \in T!LoopOutcomes(ThreadOf)
  BY <1>4, <1>7, <1>8 DEF T!LoopOutcomes, T!LoopStop
<1> QED  BY <1>9 DEF T!Loop

LEMMA FiresRefines ==
  ASSUME TypeOK, NEW p \in LoopPhase, WaiterFires(p)
  PROVE  T!Expire(p)
<1>1. /\ timerArr \in [LoopPhase -> TimerArr] /\ timerArr[p] = "ready"
      /\ timerArr' = [timerArr EXCEPT ![p] = "idle"]
      /\ UNCHANGED <<startCh, stopCh>>
  BY DEF TypeOK, WaiterFires
<1>2. blocked' = blocked
  BY <1>1 DEF blocked, WaiterFires, TypeOK
<1>3. timersOf[p] = "armed" /\ timersOf' = [timersOf EXCEPT ![p] = "spent"]
  BY <1>1 DEF timersOf
<1>4. ThreadOf.timer[p] = "armed" /\ ThreadOf' = T!SpendTimer(ThreadOf, p)
  BY <1>1, <1>2, <1>3 DEF ThreadOf, T!SpendTimer
<1> QED  BY <1>4 DEF T!Expire

LEMMA HiddenStutters ==
  ASSUME TypeOK,
         \/ \E p \in LoopPhase : TimerExpires(p) \/ WaiterCancelled(p)
         \/ LoopCancel \/ LoopExit \/ UNCHANGED vars
  PROVE  ThreadOf' = ThreadOf
<1>1. CASE \E p \in LoopPhase : TimerExpires(p)
  <2> PICK p \in LoopPhase : TimerExpires(p)
    BY <1>1
  <2>1. /\ timerArr \in [LoopPhase -> TimerArr] /\ timerArr[p] = "running"
        /\ timerArr' = [timerArr EXCEPT ![p] = "ready"]
        /\ UNCHANGED <<startCh, stopCh, loop, stopping>>
    BY DEF TypeOK, TimerExpires
  <2>2. blocked' = blocked
    BY <2>1 DEF blocked, TypeOK
  <2>3. timersOf' = timersOf
    BY <2>1 DEF timersOf
  <2> QED  BY <2>1, <2>2, <2>3 DEF ThreadOf
<1>2. CASE ~\E p \in LoopPhase : TimerExpires(p)
  <2>1. UNCHANGED <<startCh, stopCh, timerArr>> /\ blocked' = blocked
    BY <1>2 DEF WaiterCancelled, LoopCancel, LoopExit, vars, blocked
  <2> QED  BY <2>1 DEF ThreadOf, timersOf
<1> QED  BY <1>1, <1>2

LEMMA StepRefines ==
  ASSUME TypeOK, [Next]_vars
  PROVE  [T!Next]_ThreadOf
<1>1. CASE \E p \in Sent : Start(p) \/ Stop(p)
  BY <1>1, SendRefines, TimerLoopAssumption DEF T!Next, T!LoopPhase, LoopPhase
<1>2. CASE LoopReadStart \/ LoopReadStop
  BY <1>2, ReadStartRefines, ReadStopRefines DEF T!Next, T!LoopPhase, LoopPhase
<1>3. CASE \E p \in LoopPhase : WaiterFires(p)
  BY <1>3, FiresRefines DEF T!Next, T!LoopPhase, LoopPhase
<1>4. CASE \/ \E p \in LoopPhase : TimerExpires(p) \/ WaiterCancelled(p)
           \/ LoopCancel \/ LoopExit \/ UNCHANGED vars
  BY <1>4, HiddenStutters
<1> QED  BY <1>1, <1>2, <1>3, <1>4 DEF Next, Loop, Waiter

\* The goroutines and channels of startTransitionWithDeadline implement the thread of
\* Timers, on which TimedConsensus rests.
THEOREM TimerLoopImplementsThread == Spec => ImplementsTimerThread
<1>1. Init => T!Init
  BY InitRefines DEF T!Init
<1>2. TypeOK /\ [Next]_vars => [T!Next]_ThreadOf
  BY StepRefines
<1> QED  BY <1>1, <1>2, TimerLoopTypeCorrect, PTL DEF Spec, ImplementsTimerThread, T!Spec
===============================================================================
