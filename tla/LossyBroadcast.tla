---------------------------- MODULE LossyBroadcast ----------------------------
(***************************************************************************)
(* What one node's transport promises to the nodes that listen to it: each  *)
(* receives some of the messages, in the order the node's hub handled them, *)
(* and none of them twice.                                                   *)
(***************************************************************************)
EXTENDS Naturals, Sequences

CONSTANTS Msgs, Receivers

VARIABLES hubLog,       \* the messages of the node, in the order of its hub
          last,         \* last[r]: place in hubLog of the last one r received
          entrance      \* entrance[r]: what r received

Init == /\ hubLog = <<>>
        /\ last = [r \in Receivers |-> 0]
        /\ entrance = [r \in Receivers |-> <<>>]

Publish(m) == hubLog' = Append(hubLog, m) /\ UNCHANGED <<last, entrance>>

Deliver(r) == /\ \E k \in last[r] + 1 .. Len(hubLog) :
                   /\ last'     = [last EXCEPT ![r] = k]
                   /\ entrance' = [entrance EXCEPT ![r] = Append(@, hubLog[k])]
              /\ hubLog' = hubLog

Next == \/ \E m \in Msgs : Publish(m)
        \/ \E r \in Receivers : Deliver(r)

Spec == Init /\ [][Next]_<<hubLog, last, entrance>>
===============================================================================
