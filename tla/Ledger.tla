-------------------------------- MODULE Ledger --------------------------------
(***************************************************************************)
(* What the executor of a replica promises: a ledger that only grows at its *)
(* end, in sequence order, each block one that was offered for its place.   *)
(***************************************************************************)
EXTENDS Naturals, Sequences

CONSTANTS Seqs,         \* the sequence numbers in use
          Blocks        \* what a block may contain

VARIABLES log,          \* log[s] is the block executed as the s-th
          offered       \* the pairs <<s, b>> handed over so far

Init == log = <<>> /\ offered = {}

Offer(s, b) == offered' = offered \cup {<<s, b>>} /\ log' = log

Extend(b) == /\ <<Len(log) + 1, b>> \in offered
             /\ log' = Append(log, b)
             /\ offered' = offered

Next == \/ \E s \in Seqs, b \in Blocks : Offer(s, b)
        \/ \E b \in Blocks : Extend(b)

Spec == Init /\ [][Next]_<<log, offered>>
===============================================================================
