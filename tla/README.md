# PA-BFT in TLA+

A verification development of the Go program under `src/pbft`: a committee of
nodes that agrees on a sequence of blocks with three phases (Prepare, Vote,
Collate), an adaptive quorum, and one goroutine pair per sequence so that
sequences overlap. The modules are translated from the code, not from the paper
or `src/README.md`; where the two disagree a run shows it (see *Findings*).

## 1. The system

| component | state | operations | code |
|---|---|---|---|
| consensus State (one sequence) | PREPARE, `VoteMsgs`, `CollateMsgs`, three counters, captured view | `Prepare`, `Vote`, `VoteAQ`, `Collate`, `CollateAQ`, `FillHoleVoteMsgs` | `consensus/pbft_impl.go` |
| handlers of a sequence | `Prepared`, `Committed`, what was broadcast and pushed | `GetPrepare`, `GetVote`, `GetCollate`, three time-outs | `network/node.go` |
| timer thread of a sequence | start and stop channels, four timers, cancel channels | loop, waiters | `startTransitionWithDeadline` |
| executor | `pairs`, `CommittedMsgs`, `Committed`, `StableCheckPoint`, view, epoch | `executeMsg` | `network/node.go` |
| pipeline | `States`, `View.ID`, threads | `sendGenesisMsgIfPrimary`, `BroadCastNextPrepareMsgIfPrimary`, `StartThreadIfNotExists`, `resolveMsg` | `network/node.go`, `proxy_server.go`, `view.go` |
| transport | hub, one client per listener, connections | `Broadcast`, `Hub.run`, `writePump`, `readPump`, `receiveLoop` | `network/hub.go`, `client.go`, `proxy_server.go` |
| view change | `VCStates`, `NextCandidateIdx`, `IsViewChanging` | `StartViewChange`, `GetViewChange`, `GetNewView`, `FillHole` | `network/view.go`, `pbft_view_impl.go` |

How they interact. A node dials its own hub once for each message it
broadcasts, and every node (itself too) listens to every hub. `receiveLoop` puts
messages into `MsgEntrance`; nineteen dispatchers and nineteen resolvers move
them into the channel of their sequence, creating its thread if there is none.
Each thread is one handler goroutine and one timer loop with a waiter per start;
both share the State without a lock around a whole handler. Decisions of all
threads go to the executor through `MsgExecution`; it writes the ledger and
`Committed`, tells threads to exit, and sets the view. The view is also set by
the handlers of every PREPARE. VIEW-CHANGE and NEW-VIEW have an entrance of their
own that a deaf node (`IsViewChanging`) still serves; their handlers are run by the
thread of the sequence, sleep for 200 ms, and then delete States, blocks and
`Committed` of that sequence and all later ones beside the executor.

What is hard here: two goroutines on one State; starts and stops in two channels
that `select` reads in any order; checks released before they are acted upon;
handlers that sleep between two halves; a global view written by all sequences; decisions that arrive late, twice and out
of order; a transport that drops a client that is behind. The list, line by
line, is `hazards` in `PROJECT.json`, each with the properties that watch it.
The program persists nothing, so there is no recovery from a crash to model: a
crashed replica is one that takes no further step.

## 2. The modules

```
PBFTState <- Consensus <- Claims <- MCConsensus
     ^            ^
PBFTStateProofs <-+-ConsensusProofs <- TimedConsensusProofs (also EXTENDS TimedConsensus)
Timers <- TimedConsensus (also EXTENDS Claims) <- MCTimedConsensus
Timers <- TimerThread <~ TimerLoop <- MCTimerLoop ; TimerLoop <- TimerLoopProofs
Ledger <~ Executor <- MCExecutor ; Executor <- ExecutorProofs
LossyBroadcast <~ Transport <- MCTransport ; Transport <- TransportProofs
Pipeline <- MCPipeline ; Pipeline <- PipelineProofs
ViewChange <- MCViewChange ; ViewChange <- ViewChangeProofs
          (<- extends, <~ is implemented by)
```

- **PBFTState**: the State as a record and each rule of `pbft_impl.go` as an
  operator. `VoteMsgs` is the set of votes it holds, at most one per sender; of
  collates only the senders are ever read again. Digests and payloads are never
  branched upon and are left out. Three oddities of the code are kept as they
  are: a vote is counted before it is verified, `Vote` compares a counter that
  stays 0 for any message but VOTE, and `FillHoleVoteMsgs` fills nothing and
  counts again.
- **Consensus**: one sequence at the replicas in `Learners`, one action per
  handler and time-out. The other replicas are represented by the votes they may
  have sent (`VoterSent`): for a replica whose Prepare timer races the PREPARE
  that is a VOTE, a null vote, both or none. Messages are sets, so they are
  reordered and delayed freely and lost by never being received; the code drops
  a second vote or collate of a sender itself. `GetPrepare` is four steps (it sleeps
  while it proposes, then tests `Prepared`, raises it, votes), and the waiters of the
  timers run beside the handlers statement by statement: the Prepare waiter reads
  `Prepared` before it raises it; the Vote and Collate waiters read one counter, take
  the answer of `VoteAQ` or `CollateAQ`, push the decision, and broadcast a collate that
  holds the live `VoteMsgs` map, with the votes that have come in the meantime.
  `GetVote` and `GetCollate` are one step each: one goroutine runs them, and a waiter
  that reads a counter in the middle of one is taken to read it before or after. Timers
  fire at any time once started. There is one PREPARE per sequence; that the races on
  the view may produce two is `Pipeline`'s subject.
- **Timers, TimedConsensus**: the same steps, with the timer thread deciding
  which timers are armed: only now a blocked loop has consequences, and only now
  liveness makes sense.
- **TimerLoop, TimerThread**: the thread again with loop, waiters, cancel
  channels and timer channels as separate goroutines. It implements
  `TimerThread`, which moves the `Thread` record of `Timers`; this justifies the
  coarse thread of `TimedConsensus`.
- **Executor, Ledger**: `executeMsg` with one action for each statement whose
  effect another goroutine reads. It implements a ledger that grows only at its
  end, from what was offered.
- **Transport, LossyBroadcast**: one node's messages to its listeners, through
  the hub, bounded send channels, frames and redials. It implements a broadcast
  that may lose messages but never reorders or repeats them. A connection that ends,
  the readPump that notices, and the hub that unregisters the client are three steps,
  with the hub's own overflow and the receiver's redial between them. At a redial the
  variables of a listener pass to its new client: the old one, until its readPump is
  through, can only be sent messages that nobody reads, and the hub closes each
  client's channel for itself.
- **Pipeline**: which sequences have threads, which view a State captures, who
  proposes the next sequence. `BroadCastNextPrepareMsgIfPrimary` reads the view
  three times, so it is three steps; the same steps serve the genesis message,
  as caller 0. A decision is abstracted to "some node voted" (justified by
  `Validity`). Handlers of all sequences and the executor interleave freely, as they
  do in the code.
- **ViewChange**: one record `Node` per followed node: the views captured by its
  States, its handlers, `VCStates`, the ledger, the executor's `pairs`. A handler is
  two steps, before and after its sleep (`asleep`). The creation of a `VCState`, the
  loop that rolls back and one turn of the executor are one step each: abstractions,
  see section 6. The handler of a deleted State goes on with what its channel holds
  (`late`, `orphan`): it is the reason why a NEW-VIEW or a VIEW-CHANGE may be handled
  after its sequence was rolled back. A ledger entry is a `block` or a `hole`. The
  timer that starts it all is commented out (node.go:661): `Watched` names the
  threads for which it is taken to be started. The nodes that are not followed may
  have sent `OthersSent`, and a NEW-VIEW whenever they may be the candidate.
- **Claims**: what the README and the comments promise, over Consensus.

Definitions named "Mutant of X" are altered forms of the definition below them.
No specification uses them; they show that a property fails if the code had that
bug. `map` in `PROJECT.json` gives the lines behind every definition.

## 3. Runs

Runs that pass:

| run | shows | distinct states |
|---|---|---|
| `consensus_one` | one replica, every order of all votes or of a few: counters agree with the maps, the vote quorum is announced once, an announced decision is backed by votes, no decision on null and reject votes alone | 826,720 |
| `timed_decides` | with enough votes a replica decides, or one of two accidents of its timers has happened; before a decision its loop hangs only on a stop that overtook its start | 279,871 |
| `executor` | implements `Ledger`; contiguous and immutable ledger, order of publication, nothing left behind, every decided prefix executed | 428,556 |
| `timer_loop` | implements `TimerThread`; hangs only on a full cancel channel; no running timer or start is forgotten | 175,024 |
| `transport` | implements `LossyBroadcast`; no send on a closed channel and no second close, whether overflow or readPump comes first; a dropped receiver comes back | 225,650 |
| `pipeline` | one sequence ahead under all races; a proposal is followed by the next, or its primary has missed it in one of two ways | 361,260 |
| `view_change` | one justified NEW-VIEW per sequence; a minority changes nothing; what a view change may lose and fill; a candidate answers, and a deaf node that a NEW-VIEW reaches listens again | 272,170 |

Bounds, and why they are enough. Four nodes are the least with F = 1: the quorum
(3), the adaptive quorum (3 down to 1) and the silent majority all occur. In
`consensus_one` the other three replicas are free in what they vote: either all
possible votes of the current view exist, in any order, or at most one VOTE with null
ones, and then one of them may come from a State with another view (symmetry is over
these replicas, which only votes mention, and no liveness is checked there); `MaxStale`
bounds the followed replicas whose State captured another view. The replicas that are
not followed send no collates, and more stale votes of theirs than one are left out:
the theorems have no such bound, as every replica may be a learner there. Three sequences and a
queue of two let decisions arrive at the executor in both wrong orders, late and
again, with an epoch of two so that the view wraps. Cancel channels of two
places with three stops reach the full channel (the code has ten). Send channels
of one place with three messages and one failure overflow while a frame is
written and while a node redials (the code has 512). In `pipeline` two nodes and
two sequences are explored with at most `MaxPrepares` = 2 proposals (a state with
a third is checked but not continued): each race adds proposals of the same
sequence, which the two already show. What happens after a third proposal is
examined by no run, for liveness either; `claim_pipelining` has no such bound.
In `view_change` the followed node is the first of two candidates among four
members (`participant` = 2). Three sets of VIEW-CHANGEs: for sequence 1 the three
others reach the quorum and claim sequence 2, so that rollback and holes go beyond
it; for sequence 2, where an epoch ends, its own timer is needed for the quorum, or
it comes as a fourth message. Two NEW-VIEWs of others on top of its own reach a second
candidate and the end of the table. What two sequences do not show is an executed
block above `TotalConsensus`, which a rollback would leave.
`participant` (10 in the code) is less than `Size`, as the shipped node lists of 13
and more nodes guarantee.

Fairness. `timed_decides`: every goroutine of a replica that has not executed the
sequence keeps running, an armed timer expires, messages sent are delivered.
`Timely` is the set of phases that time out only when nothing is in flight: Vote
and Collate there, so that the Prepare timer may be early. `executor`: weak
fairness of the executor goroutine, nothing of its producers. `timer_loop`: weak
fairness of the loop and of each phase's waiters, and time passes; the Go
scheduler gives this and no fair choice between ready channels is needed.
`transport`: hub (a client that dialled is registered, one whose readPump ended is
unregistered), pumps and receivers. `pipeline`: nodes start, PREPAREs arrive, handlers
run; decisions and votes owe nothing.

Three liveness properties are the positive halves of findings below, with exact
exceptions. `DecidesOrBlocks`: a replica decides, or its loop is blocked, or `Prepared`
is 2, at which no collate is adopted; nothing else loses the decision while the Vote
and Collate timers are patient and enough votes exist. `HangsBeforeDecision` narrows the
first exception: as long as nothing is decided it takes a stop of `Prepare` or `Vote`
that was read before its start. `FollowedUnlessMissed`: the sequence after a proposed one is
proposed, or its primary found another view when it looked, or exited before it
handled the PREPARE.

`CandidateAnswers` has a premise (`Contended` never holds): two handlers of one sequence,
the thread's and that of its deleted State, do not meet before the node has a `VCState`.
If they do, the code may make two and lose a VIEW-CHANGE with the first.

`view_change`: messages are delivered and handlers run, unless their thread was told
to exit; nothing of timers and executor. As messages are finitely many this is said
without ENABLED: time and again nothing is pending. `CandidateAnswers` and
`DeafUntilNewView` are as much of README.md:16 as holds once the timer runs. Not
covered, because the code does not give it: a node whose own quorum comes after the
NEW-VIEW was installed rolls the new view back and stays deaf, for a sequence has one
view change ever (the `VCState` stays); and the node that is the candidate when it
wakes up need not be the one that the others expect.

Deadlock is checked in the consensus and executor runs, where every message may
be received again or the executor waits with producers alive. It is off for the
timer loop, the transport, the pipeline and the view change, whose bounded inputs
run out.

## 4. Findings

Runs that must fail, each on one statement of the repository:

| run | statement | what the code does |
|---|---|---|
| `claim_agreement` | README.md:11 | the Prepare timer overwrites the PREPARE: one replica executes the null block, another the proposal |
| `claim_collate_executed` | node.go:588 | a COMMITTED collate before the PREPARE is never acted upon |
| `claim_liveness_b` | README.md:17 | the timer loop blocks on a nil channel and the replica never decides |
| `claim_pipelining` | README.md:35 | the next primary exits before handling the PREPARE: nobody proposes |

None of them needs a Byzantine member; all nodes run this code.

Other places where the models follow the code and not its comments, without a run
of their own: the adaptive quorum falls with the number of silent replicas without
the bound f of README.md:24; the votes of a collate are written into a copy of the
map, and `FillHoleVoteMsgs` counts only those already known (pbft_impl.go:261,
421); the collate of a time-out is marshalled after its votes were counted
(pbft_impl.go:221, node.go:152), so a null vote that comes in between lowers the
number of silent replicas and the certificate, read as a whole, may miss its own quorum; the Vote time-out starts no Collate timer (node.go:252); no view change is
ever started (README.md:16); queued messages share a frame that the receiver
cannot parse (client.go:103), so not every message reaches every client
(hub.go:7); and a State compares views with the one it captured when its thread
was made, whatever View.ID is now (pbft_impl.go:438).

In the view change, behaviours TLC shows when the properties are sharpened: `FillHole`
says it fills what is missing (view.go:180) and overwrites the last block when the
new checkpoint is not below it, and place 0 of an empty ledger, after which the
executor, which takes the length for the last key, panics on a nil block
(node.go:776); it also panics on a decision whose State was rolled back (790).
`TotalConsensus` counts States and is decremented for States that are not there
(86, 148), so a State above it is not rolled back and keeps its old view, whose
PREPARE it then rejects. VIEW-CHANGEs are never ignored (view.go:36). The end of an
epoch sets the next candidate to 7, one of the participants, here and to 10 in the
executor (view.go:208, node.go:821). And `StableCheckPoint` is the highest value any
of 2f+1 members claims, not one they agreed on (node.go:57).

## 5. Proofs

`tlapm` checks every theorem to its leaves, for every committee, every set of
followed replicas and votes, every number of sequences and every capacity, from
the named assumptions of the modules alone (a non-empty finite committee, two
different views, followed replicas in the committee, positive bounds). Every safety
property of a passing run is the conclusion of a theorem; the runs were first used to
check the inductive invariants, too.

- **PBFTStateProofs**: lemmas about the rules: a vote of a new sender adds one
  element and one count, `FillHoleVoteMsgs` only raises the counter,
  an answer COMMITTED rests on a counted VOTE, and so on.
- **ConsensusProofs**: `IInv` is inductive. The properties are not: that a
  counter above zero means that somebody voted VOTE needs that votes held were
  sent (`FromVotes`) and that certificates and decisions go back to them
  (`OnVotes`, `PreparesSent`); that the quorum is announced once needs that after
  it the counter stays at or above the quorum (`QuorumReached`). The proof has
  one lemma per action. From it: `ConsensusTypeCorrect`, `CountersMatchTheMaps`,
  `DecisionsAreValid`, `OneVoteQuorum`, and the action property
  `AdaptiveQuorumIsProven`: a replica that has handled no collate announces a decision
  only if the votes it held when it took the answer (`counted`) back it, and its
  certificate carries all of these. It does not say that the certificate as a whole
  meets its quorum, which is false (section 4). It needs `Waiters`: a counter read
  earlier is not above the present one, the counted votes stay in the map, and no
  Collate waiter decides before a collate was handled.
- **ExecutorProofs**: `IInv` adds to the checked invariants that what is held
  was offered for its place, and that a round has a block. From it the four
  invariants, `LedgerImmutable`, and the refinement `ExecutorImplementsLedger`
  (safety; `Store` extends the log, `Push` offers, the rest stutters).
- **TimedConsensusProofs**: a replica with its timer thread takes only steps of
  `Consensus`, or steps of the thread that `Consensus` does not see
  (`TimedImplementsConsensus`), so `DecisionsAreValid` and `OneVoteQuorum` hold with
  the thread as well. `TimersAgree` relates a thread to the phases of its replica and
  needs `TIInv`: a phase never started is neither known to the thread nor waiting in
  its start channel, and a phase that fired is spent. `LoopsHangOnOvertakenStops`
  needs `Reasoned`: as long as nothing is pushed, each name that waits in the stop
  channel has the reason for which the code sends it.
- **TimerLoopProofs**: `TimerLoopImplementsThread` (the mapping `ThreadOf` is named in
  `TimerLoop`) justifies the coarse thread of `Timers`: each step of the loop, of a
  waiter or of a cancel is one of its steps or a stutter. `IInv` adds to the checked
  invariants that no cancel is left over where a timer runs or was never made
  (`NoCancelAhead`: otherwise a waiter would leave a running timer), and that
  cancels sent, cancel about to be sent and names still in `TimerStopCh` together are
  at most the stops (`CancelsAreStops`: hence a full channel means more stops than it
  holds). Counting names in a channel has its own lemmas (`OccursAppend`,
  `OccursTail`).
- **TransportProofs**: `TransportKeepsOrder`, the refinement of `LossyBroadcast`.
  `Piped` is the invariant: what a listener received, the frames on its
  connection, the batch `writePump` holds and the send channel are four stretches of
  the hub's log, one behind the other. Order within a batch is not
  claimed, since a frame of several messages is never parsed. `RegisteredClientsAreOpen`
  needs no help: the hub closes a channel only in the step in which it forgets the
  client, and `Unregister` asks first.
- **PipelineProofs**: `SpeculationIsBounded` needs that inboxes and working
  handlers go back to proposals (`FromProposals`). That a sequence has one proposer is
  not claimed: with the races on the view it may have two, or none.
- **ViewChangeProofs**: two invariants and a third for one property.
  `NewViewOnce` is not inductive: a handler decides before its 200 ms of sleep and
  announces after them. `IInv` adds
  that a node holds at most one unannounced NEW-VIEW for a sequence, that it is
  the one announced if any is, and that both are marked in `msgSent`, which no
  roll-back forgets (`Keeps`: every part of every handler preserves it).
  `Sound` says what nodes and NEW-VIEWs rest on: a `VCState` holds one VIEW-CHANGE per
  sender, so the code, which counts messages, counts senders (`Collected`); no message
  puts two handlers to sleep (`Mail`); a hole of the ledger lies at or below
  a checkpoint somebody claimed (`Ledger`); and every NEW-VIEW, or what a sleeper will
  announce, has a quorum behind it, and its `Min_S` is the highest they claim
  (`Draft`, `Claimed`). From these: `NewViewsRestOnQuorums`, `HolesLieBelowClaims`,
  `ViewChangeTypeCorrect`, and `OnlyWakingHandlersRollBack`: a block leaves the ledger
  only in the step of a handler that wakes up.
  `MinoritiesAreHarmless` needs `Peace`: while no sequence has a quorum of VIEW-CHANGEs
  every node is `Calm`, with a ledger without gaps up to its checkpoint and a
  State under every timer and every pair, so that no panic can happen either. The set of VIEW-CHANGEs
  sent only grows, so a minority now was one before.
  `NewViewsOverlap` has no run: any two NEW-VIEWs have more than F common voters, if
  `Size = 3F + 1`. The code computes F as (n-1)/3 and the shipped node lists (13, 19, 25
  and 31 nodes) satisfy the equation; for other sizes, such as 3F + 3, the
  quorums of the code need not overlap in more than F.

Only model-checked: liveness, because fairness and ENABLED are out of the prover's
reach (`DecidesOrBlocks`, `EventuallyExecuted`,
`RunningIsServed`, `StartsAreServed`, `Reconnects`, `FollowedUnlessMissed`,
`CandidateAnswers`, `DeafUntilNewView`), and the four claims of section 4, which are refuted.

## 6. Not modelled

In the view change: `SetP`, the epoch number and `Prepared` (no receiver reads the
first two; the third is tested for votes only), and messages of one sequence waiting
for two deleted States, which are kept together. Two `VCState`s made at once
(view.go:38-52, 154-168: test, make and store are not under one lock): what the first
had collected is lost with it. `CandidateAnswers` leaves these behaviours out;
`NewViewOnce` and its theorem do not speak of them, since the second
`VCState` has a `msgSent` of its own (in a committee of 3F + 1 the members left over
are too few for a second quorum). An executor's turn (node.go:790-822) with a whole
rollback between two of its statements: no property here was found to depend on
it. Old clients after a redial (section 2). Elsewhere: signatures and digests (a failed verification is only logged); `checkpoint.go`
(commented out); `pbft/node.go` (a stale copy); `main.go`, `gen_nodelist.go` and
scripts; logging. Crashes by concurrent map access and by the 1000-entry arrays
end a process; a stopped replica is covered, the abort itself is not. Members
that send what the code does not send are not modelled.

## 7. Plan

Done, in the order of importance: one sequence, its timers, the executor, the
transport, the pipeline, the view change, and the proofs of the safety properties of
all of them.

Next:
1. **Pipeline with Consensus**: two overlapping sequences with real votes, so that a
   stale view reaches the quorum and a sequence may have two PREPAREs; the executor composed with its producers, so
   that what it is offered is what Consensus pushes.
2. **Proofs**: for votes what `NewViewsOverlap` is for VIEW-CHANGEs (two certificates of
   2F + 1 votes have more than F common voters, adaptive ones need not), and for the
   composition above, that what is in `offered` was decided.
3. **ViewChange** with `CreateVCState` in two steps and the executor's turn statement by
   statement, as in `Executor`.
4. Larger instances: three sequences for ViewChange, seven nodes (F = 2) for Consensus, three nodes for Pipeline.
