-------------------------------- MODULE Claims --------------------------------
(***************************************************************************)
(* What the README and the comments say of one consensus instance, stated   *)
(* over Consensus.  The code does otherwise: each is refuted by a run.       *)
(***************************************************************************)
EXTENDS Consensus

\* README.md:11, safety: whatever block replica i decides as the n-th, every
\* other replica decides the same one.  (Decision of GetVote, GetCollate and the
\* timers, through executeMsg.)
Agreement ==
  \A i, j \in Learners : Committed(i) /\ Committed(j) => block[i] = block[j]

\* node.go:588: a COMMITTED collate stops the phase and the sequence is executed.
\* (GetCollate, with the first valid collate of its sender.)
CommittedCollateExecuted ==
  \A i \in Learners : \A c \in got[i] :
    c.MsgType = "COMMITTED" /\ c.ViewID = st[i].ViewID => pushed[i] # {}
===============================================================================
