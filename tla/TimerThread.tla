------------------------------ MODULE TimerThread -----------------------------
(***************************************************************************)
(* What the other goroutines see of a timer thread: the Thread of Timers,   *)
(* moved by what is sent to it, by its loop, and by armed timers expiring.  *)
(***************************************************************************)
EXTENDS Timers

VARIABLE thread

Init == thread = NewThread

Send(p) == thread' = SendStart(thread, p) \/ thread' = SendStop(thread, p)

Loop == thread' \in LoopOutcomes(thread)

Expire(p) == thread.timer[p] = "armed" /\ thread' = SpendTimer(thread, p)

Next == Loop \/ \E p \in LoopPhase : Send(p) \/ Expire(p)

Spec == Init /\ [][Next]_thread
===============================================================================
