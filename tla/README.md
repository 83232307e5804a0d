# TLA+ development of the TIP node

This directory models and verifies the core of the node under `src/node/src`:
how transactions get into certificates, how certificates form a DAG, how the
DAG becomes one ordered log, how the committee that does this is replaced,
how a dispute is ruled on by nodes that all propose the ruling, and how a flagged content
is reviewed; and what
happens to all of this when messages are lost or reordered, the store is busy,
or a node restarts.
Everything is translated from the code; `PROJECT.json` has, for every
definition that models code, the file and the lines it stands for.

1. [The system](#1-the-system)
2. [Modules, and how they correspond to the code](#2-modules)
3. [What the runs check](#3-runs)
4. [Fairness](#4-fairness)
5. [What is proved](#5-proofs)
6. [Disagreements between the code and what is said of it](#6-findings)
7. [Abstractions](#7-abstractions)
8. [Plan, and what is not modelled](#8-plan)

## 1. The system

A TIP node is one Node.js process: an HTTP interface, services that build
transactions, and a BFT consensus of the Narwhal/Bullshark kind among the
registered nodes. Concurrency is that of an event loop: a handler runs
undisturbed up to an `await`, and timers, gossip handlers, the signature worker
pool, sync sessions and commits interleave at those points. Between nodes,
messages are lost, repeated and reordered, and a node may stop at any point
and come back with what its store kept.

| Component | State it keeps | Operations | Talks to |
|---|---|---|---|
| Mempool (`consensus/mempool.js`) | pending transactions in insertion order, tombstones, disk rows | `add`, `addFront`, `drain`, `remove`, `tombstone`, expiry, restore | Narwhal drains and refills it, commits remove from it |
| Narwhal (`consensus/narwhal.js`) | round, own batch, collected acks and certificates, timers, parked certificates; in the store `certificates`, `votes_seen` | begin round, batch, ack, certificate, retry, advance, fast-forward, reconcile, join states, halt | Bullshark (`onRoundComplete`, `onCertSaved`), sync, store, gossip |
| Certificate arithmetic (`consensus/certificate.js`) | none | quorum, halt threshold, creation and verification of batches, acks, certificates | Narwhal, Bullshark, anti-entropy |
| Bullshark (`consensus/bullshark.js`) | committed frontier, ordered hashes, consensus index, clock floor, one parked commit | anchor check, walk, commit, park, time out, `driveCommit`, collection | commit handler, store, rotation |
| Commit handler (`consensus/commit-handler.js`) | the domain tables, rejections | validate, resolve conflicts, apply in one store transaction | store, mempool, triggers |
| Rotation (`consensus/rotation-coordinator.js`, `participants.js`) | proposals in flight, signatures | propose, sign, collect, submit, expire | Bullshark, gossip, mempool |
| Triggers (`consensus/*-trigger.js`) | none, they scan tables | submit verdicts, clean records, prescan completions | mempool |
| Anti-entropy (`consensus/anti-entropy.js`) | roots heard from peers, halt state, recoveries under way | compare roots, halt, pull certificates, resync | sync, snapshot, Narwhal |
| Sync and snapshot (`sync/`, `consensus/peer-sync.js`) | sessions, install marker | page certificates, replay, install a snapshot | store, Bullshark, Narwhal |
| Store (`dag.js`, `db/`) | tables; an in-memory mirror over a write-behind queue in the Knex adapter | save, transaction, prune | everyone |
| Services, routes, validators | domain rows | registration, content, disputes, reviews, uploads, scores | mempool, store |

What is hard here, and is what the properties are about:

* **Voting across crashes.** A node must not acknowledge two batches of one
  author and round, though `votes_seen` is pruned, the node can jump rounds on
  a peer's batch, and it can stop between recording, signing and sending.
* **The gap between two rounds.** `_tryAdvanceRound` moves the round on but
  batch, acks and collected certificates stay until a timer fires.
* **Arrival order.** Certificates arrive before their parents; copies of one are
  verified side by side; the sync path writes to the store beside the handlers.
* **Commits that cannot be made yet**, that fail half way, that are retried
  after later ones, and what a restart remembers of them.
* **Agreement on order.** Nodes see the same DAG grow in different orders.
* **Changing the committee in flight.** A rotation is proposed from a state, signed
  later, committed later still, and takes effect for rounds other nodes have not reached.
* **Everybody proposes.** Each node that leads after a deadline submits the ruling of a
  dispute, built from what it has committed; the commit handler sorts the rivals out.
* **Validated first, applied later.** A commit validates all of its transactions against the
  state before it and applies them afterwards, so one may meet a state it was not
  validated against.
* **Liveness.** Every wait (acks, certificates, parents, a parked commit) has to
  end by a retry of somebody.

The properties that make each component correct: Narwhal, one vote per slot
(author and round), one certificate per slot, and rounds that go on;
the certificate waiter, a DAG that is causally closed and does not depend on
the order of arrival, with nothing parked for ever; Bullshark, a log without
repetitions, causal, with a clock that advances, the same on every node, and
containing every supported anchor; mempool and commit, no
transaction lost without a record of it, none committed next to one that excludes
it, and a queue that keeps its order; rotation, committees that the committee before
has signed for, of which no two nodes ever disagree for a round they use; the verdict
trigger, rulings that come, once, and a label that is the ruled one; reviews, one open at a
time, decided once, and an end to each though nobody answers; snapshot and
recovery, that a node that adopted a state continues exactly as one that computed it. `PROJECT.json` lists
the hazards line by line with the properties that watch them.

## 2. Modules

| Module | Models | Instantiated by |
|---|---|---|
| `QuorumMath` | `computeQuorum`, `bftHaltThreshold` | extended by `Narwhal`, `Bullshark`, `Rotation` |
| `Narwhal` | the round loop of `narwhal.js` on every node, and faulty nodes | `MCNarwhal` |
| `CausalStore` | abstract: a set that grows by complete sets and by imports of a second writer, and is cut from below | `CertWaiter` (refinement) |
| `CertWaiter` | parking and flushing of certificates on one node | `MCCertWaiter` |
| `Bullshark` | ordering on every node over one certificate graph | `MCBullshark` |
| `Transactions` | mempool, batch and commit on one node | `MCTransactions` |
| `Rotation` | replacement of the committee, on every node over one order of anchors | `MCRotation` |
| `Disputes` | one content in dispute, with the rulings of every node | `MCDisputes` |
| `ReviewCases` | abstract: cases opened, handed over, confirmed and closed, one open at a time | `Reviews` (refinement) |
| `Reviews` | one flagged content, from the prescan to the end of its review | `MCReviews` |
| `NarwhalProofs`, `CertificateProofs`, `CertWaiterProofs`, `BullsharkProofs`, `TransactionsProofs`, `RotationProofs`, `DisputesProofs`, `ReviewsProofs` | the theorems | |

### Narwhal

`local[n]` is a record of what a process holds: `round` (`_currentRound`),
`batch` (`_myBatch`), `acked` (the acknowledgers of it), `roundCerts`
(`_roundCertificates`, by author), `created` (`_certCreated`), `due` (the timer of
`_scheduleNextRound` is running), `timer` (`_roundTimer`: off, round or retry)
and `leaked` (a round timer overwritten by a fast-forward that still fires),
`peers` (`_peerBatches`), and the two tables it reads, `dag` and `votes`. `disk[n]` is what a
write-behind store made durable. `unrecorded` remembers the acks whose vote no store has kept: `handleIncomingBatch`
signs an ack whether or not its vote could be saved. `batches`, `acks` and `certs` are all messages
ever published: a handler may read any of them at any time, repeatedly or never.

| Action | Code |
|---|---|
| `BeginRound` | `_beginRound` with `_resetRoundState` |
| `ReceiveBatch`, `FastForward` | `handleIncomingBatch`, for a batch not ahead and one ahead of the node |
| `ReceiveAck` | `handleIncomingAck`, `_recordAck`, `_tryCreateCertificate`, `_tryAdvanceRound` |
| `ReceiveCertificate` | `_processVerifiedCertificate` |
| `RoundTimeout`, `RetryTick` | the timer of `_beginRound`, `_scheduleRetry` |
| `SyncFrom` | a pull by `syncFromPeer` with `reconcileCurrentRound` |
| `Flush`, `Restart` | the write-behind queue; `createNarwhal` over the store |
| `Equivocate`, `AckAnything`, `CertifyAnything` | a faulty member of the committee |

### CausalStore and CertWaiter

`waiting` is `_pendingCerts` with the missing parents of each parked
certificate; `_pendingByParent` is its inverse and needs no variable.
`verifying[c]` counts the handlers of `c` that are between the call of the
signature pool and its answer, so copies of a certificate race. The mutual
recursion of `_processVerifiedCertificate`, `_saveCertAndNotify` and
`_flushPendingForParent` stores `c` and everything it unblocks: `Unblocked(c)` is the
least such set, written without recursion so that it can be proved about.
`imported` is what the sync path has written to the store beside the handlers, and
`pulled` counts its writes.
`CausalStore` says what the waiter promises: each step delivers a set whose
parents are in the store or in the set or too old, or imports what another writer
brings, which is remembered as such, or collects, or changes nothing.

### Bullshark

`bs[n]` is a record per node; its fields name the variables of `bullshark.js`
they stand for. The certificate graph of the network is a constant (`Cert`,
`Round`, `Author`, `Parents`, `Stamp`): nodes differ in what they hold of it. One
call of `_saveCertAndNotify` stores a certificate, then flushes what was parked
on it, then lets Narwhal count it; `storing` is the stack of certificates
stored and not yet counted, so the order of these calls is the code's, for the nodes in
`Reordering`. Two fields are history: `jumped` (the anchors a node had votes for when it jumped over their
vote round) and `boots` (how long the log was at each restart).

| Action | Code |
|---|---|
| `Save`, `Flush`, `Finish` | a certificate by gossip, the parked ones it releases, the rest of `_processVerifiedCertificate` with `_tryAdvanceRound` and `onRoundComplete` |
| `Reconcile` | the retry tick and `reconcileCurrentRound`: the certificates of the round are counted again from the store |
| `FastForward` | the jump on a peer's batch, which drops collected certificates and asks Bullshark nothing |
| `Pull`, `StartDrive`, `Drive` | `syncFromPeer`, then, after an await, `driveCommit` round by round |
| `TimerFires` | the timer of a parked commit |
| `Restart` | `createBullshark` with `_initFromDAG` |

`Check` is `_checkAnchorCommit`: support, clock gate, tick of the index, walk,
completeness gate, commit. `ApplyOutcomes` says whether `onOrderedTxs` may throw. `PersistedFloor` is the
clock floor a restart reads back: the stamp in the commit row of the latest round (`getLatestCommit`), where
only commits with transactions have rows (`HasRow`). `Reach` is the walk: where every certificate is reached,
which is the case unless sync left a gap, its first branch says so without the search for the least closed set.

### Transactions

`pool` is the state `mempool.js` keeps, with the rows it writes: `pending` (`_pending`, a
sequence because `drain` takes the oldest), `disk` (the mempool table), `dead`
(`_tombstones`) and `rows` (`tx_rejections`). `batch` is what was drained and is not in a
certificate, `certs` the certificates in the store that are not ordered yet, `away` those of
peers that have not arrived, `committed` the transactions of the DAG.

| Action | Code |
|---|---|
| `Submit`, `SubmitBatch` | `submitTx`, and `submitBatch` when it is rolled back |
| `BeginRound` | `_resetRoundState`, which puts an uncertified batch back, then `drain` with `_evictStale` |
| `Seal` | `_tryCreateCertificate` |
| `PeerCertifies`, `Receive`, `Pull` | a certificate of a peer, by gossip or by sync |
| `Commit` | `commitOrderedTxs`: validation in order, one store transaction, duplicates held back |
| `Restart` | `createMempool` over its table |

A commit takes its transactions by position, so copies of one in several certificates
are told apart, as they are in the code. `Key` is what two transactions must agree on
for the rules of `_dedupCheck` to exclude one of them; `Holding` are the types whose
duplicates come with a `duplicateOf`; `Refused` fail validation or signature.

### Rotation

`walked` is the order of anchors that Bullshark provides, each with the nodes whose
certificates and acks it credits; `rows` is `committee_history` as that order gives it.
`done[n]` is how far node `n` has come in it, so that what `n` has of the history is
`Known(n)`, a prefix. `flights[n]` is `_inFlight`, `proposals` and `signatures` are the
messages ever sent, `pool` the rotation transactions in mempools and batches.

| Action | Code |
|---|---|
| `Order` | an anchor is decided with the transactions that will be applied with it: `canCommitteeRotation`, then the new row |
| `CommitAnchor` | a node commits its next anchor: the boundary check of `_checkAnchorCommit` and, on the leader, `_maybeProposeCommitteeRotation` with `computeNextRotationCommittee` and `proposeRotation` |
| `OnProposal`, `OnSignature` | the gossip handlers, with `_maybeSubmit` |
| `Rebroadcast`, `Expire` | `_rebroadcastTick`, `pruneExpired` |
| `PullSignature`, `FetchTx` | `requestTxRepair`: a peer's signatures, or its finished transaction |
| `Install` | a snapshot install, which ends in `resetInflight` |

### Disputes

One content. What has been committed is one state for all nodes: `disputes`, `panel` (the
summoned, by stage), `votes`, `rulings`, `appeals`, `results`, the content's `status` and
`origin`, and `settled`, the reasons for which the disputer's score was changed. `queue[n]` is
what the mempool of `n` holds, `pending[n]` the heap of its verdict trigger, `closed` the stages
whose deadline has passed, `cast` the votes sent in time and not committed yet. `pool` are the
experts there are.

| Action | Code |
|---|---|
| `FileDispute`, `FileAppeal`, `Reveal` | the services behind the API, with their checks against the committed state |
| `LandReveal`, `Commit` | `_statefulCheck` with `_dedupCheck`, `applyDerivedState` and `onTxCommitted`, for one transaction |
| `DeadlinePasses`, `CheckPending` | `checkPending` on the leader of a round: `buildAdjudicationBatch`, `buildAppealBatch`, `submitBatch` |
| `Restart` | `_rehydrateOnce` over the chain |

### ReviewCases and Reviews

One content, registered as original human work and classified otherwise. `status`, `verdict`, `corrected`,
`verified`, `disputes`, `ruled` are what has been committed about it, `reviews` the rows of
`prescan_reviews` in the order they were opened; `by` says whether a leader triggered the
review, the desk claimed it, or the network confirmed the flag since nobody came (`"cap"`).
`queue[n]` is the mempool of `n`; `batch` the batch a commit is made of, `applying` its phase.
`passed` and `late` are the deadlines behind us, of the content and of its reviews.
`ReviewCases` says what the rows promise, whoever races with whom.

| Action | Code |
|---|---|
| `ClaimJob`, `FinishJob` | the worker of `prescan-worker.js` with its job row; a retry is a job still claimed |
| `EmitFailOpen` | `_emitFailOpenCompletions` on a leader |
| `CheckReviews` | `checkPending` of the review trigger: due reviews or the cap, escalations, recusals, in one `submitBatch` |
| `Decide`, `Claim` | `dismiss`, `confirm`, `recuse` and `claim` of `review-service.js` |
| `CorrectOrigin`, `Others` | `acceptCorrection` and `updateOrigin`; `retract`, `dispute`, `verify` |
| `Validate` | phase 1 of `commitOrderedTxs` for one transaction: `_dedupCheck`, `_statefulCheck` |
| `BeginApplying`, `Apply` | phase 2: `_applyDerivedState`, in order |
| `Pass`, `PassWindow`, `Rule` | time; the ruling of a dispute, which is `Disputes` |

## 3. Runs

Bounds are constants of the modules (`MaxRound`, `MaxCrashes`, `MaxCopies`,
`MaxDeferrals`, `MaxPulled`, `MaxIndex`, `MaxCerts`, `MaxAnchor`, `MaxRefusals`, `MaxRestarts`, `MaxBatch`,
`MaxQueue`, `MaxReviews`)
or of the MC modules (`MaxBatches`, `FewFaults`, `MaxRows`, `MaxProposals`, `MaxPool`, `MaxLag`, `OneDispute`, as state
constraints), or the given graph; deadlock is not checked, since the bounds end
every behaviour. The configurations replace constants only.

| Run | Checks | Instance and why it is enough |
|---|---|---|
| `narwhal_safe` | `TypeOK`, `AttestsOnce`, `SealsOncePerRound` | two nodes, two contents, window 1, three batches; each save of a certificate may find the store busy, and either one node crashes or one vote is acknowledged and not saved (`FewFaults`): a slot can be voted, pruned, revisited after a restart or a jump, and a round be begun again with other contents. Longer combinations are the theorem's |
| `narwhal_byzantine` | `CertifiedOnce` | four nodes, one faulty, two crashes: the smallest committee that tolerates a fault |
| `narwhal_live` | `RoundsGoOn` | two nodes, where every message matters since the quorum is everybody |
| `waiter` | `TypeOK`, `ReprocessedWhenParentsLand`, `HoldsAllItCan`, `StoresCausally`, `EveryCertificateLands` | a chain of three rounds with a node that cites less; two copies in verification, one deferral, one write by sync, pruning; as a refinement of `CausalStore` with its second writer |
| `bullshark_gossip` | `TypeOK`, `CausalOrder`, `SameAnchorsSameOutput`, `NoCommitParks`, `AnchorsAreOrdered` | three anchors over six rounds, one of them not cited by all, two nodes, which do commit different anchors in it; one node deals with parked certificates before their parent, both jump rounds. `OneAtATime` only saves interleavings: while a node is between two calls of a stack the other one has not started, and nodes share nothing |
| `bullshark_sync` | `OrderedOnce`, `TimeAdvances`, `EachAnchorOnce` | two anchors over five rounds, the first stamped far ahead of the second (`Ahead`), so that the clock gate, the retry of a parked commit behind the frontier and the floor forgotten at a restart all show; pulls that leave a gap, parked commits, timers, restarts, failing applications; jumps are in `bullshark_gossip` (with them here the run takes over five minutes) |
| `transactions_loss` | `TypeOK`, `NoSilentLoss`, `OnePerKey`, `DuplicatesHaveAWinner`, `DeadStaysOut`, `DiskFollowsMemory`, `KeepsOrder` | three transactions, two with one key, one of them of a held type, one refused; room for two in mempool and batch, so that both fill up; two certificates under way, one of them of a peer with copies; failing commits and one crash |
| `rotation` | `TypeOK`, `Endorsed`, `SigsMatch`, `NextAnchorAgreed`, `OnePerEpoch`, `PastFixed` | three nodes, the genesis committee of one: two rotations fit, the first of which enlarges the committee, so that the second needs signatures of several; seven anchors, epochs of three, a node one anchor behind, three proposals, two transactions under way, a mempool that refuses |
| `disputes` | `TypeOK`, `LabelIsRuled`, `ParkedAwaitsRuling`, `RulingsCome` | two nodes that seat different experts, one juror with each kind of vote, no expert or either one; the content is disputed by one who gets a jury or by one for whose dispute no juror is found; one refused submission and one restart. Two leaders are what the race needs: a third adds batches of the same kinds |
| `reviews` | `TypeOK`, `OneCaseAtATime`, `ReviewEnds` | two leaders, one of them with the job and an API; a cap of one no-show, so that it is reached; batches of two, cut freely, since a race needs a transaction and the sibling that spoils it; one submission per mempool at a time, which a leader's own batch may exceed; three reviews: one that ends in a no-show, the network's, and one beside it |

Violation runs show where the code does other than its documents say, see
section 6: `bullshark_agree`, `disputes_effects`.

A run checks several properties where they are asked of the same instance. Every
property of a passing run has a mutant in `PROJECT.json`: a definition that stands for a
plausible slip (a name ending in `Broken`, or one that says what it does, such as
`WalkByRound`, `CanRotateLate` or `SupersededByAppeal`), replacing the definition
it is named for, under which that property fails in that very run.

## 4. Fairness

* `Narwhal!Fairness`: timers fire; and a batch, ack or certificate that would still
  change something at a correct node is handled in the end. The retry loop
  (`_scheduleRetry`) publishes the node's batch and certificate again while the round
  is stuck and asks for missing acks, and anti-entropy pulls certificates at an
  interval, so losing a message does not lose it for good. No fairness is
  given to crashes, busy stores or faulty nodes.
* `CertWaiter!Fairness`: a certificate the node lacks is received again, or the
  worker pool answers for a copy it already has in hand; no fairness for sync, for
  deferred saves or for pruning.
* `Disputes!LiveSpec`: deadlines pass, each mempool is drained (Narwhal's rounds go on and
  Bullshark commits), and every node leads a round again and again after a deadline (leaders
  take turns), so that its trigger looks. A node tries each deadline once; a ruling comes for
  certain only while fewer submissions are refused than there are nodes.
* `Rotation` has none: that a rotation is committed depends on signatures of one anchor
  coming in before the next is committed, which nothing in the code ensures.

* `Reviews!LiveSpec`: deadlines pass, commits go on, mempools are drained. Some leader submits
  what is due again and again: the fairness is strong, since a full mempool or a
  commit in progress takes the chance away for a moment, and leaders look every few seconds and
  at each turn. Nothing is asked of the worker, reviewers, desk or creator.

Everywhere else fairness is weak: no action that is only now and then possible is forced.

## 5. Proofs

All proofs are checked by TLAPS for every value of the constants that satisfies
the assumptions, which are named in the modules and evaluated by TLC.

* **`NarwhalProofs`.** `TypeCorrect` is by induction on its own. `NeverAttestsTwice`
  (`AttestsOnce`) is not inductive: that a node never signs twice follows only from
  what its `votes` table still holds. `AttestInv` adds `Recorded` (every ack a correct
  node ever signed for another's batch has its row, unless it is `unrecorded` or the retention window
  of the highest round the node was ever in has passed it), `OneVotePerSlot` (the
  table has one batch per author and round) and `HighIsReached`. It holds for every store, the
  write-behind one included: what the property sets aside is exactly the acks without a row, and
  section 6 shows that it has to.
* **`CertificateProofs`.** First the arithmetic: for every committee size `n > 0` two quorums of
  `ComputeQuorum(n)` overlap in more than `MaxFaulty(n)` nodes, `ComputeQuorum(n)` is the least
  number with that property and at most `n`, and so two quorums share a node outside any set
  of at most `MaxFaulty(n)`. Then certificates: a node looks for a certificate of its own in its DAG before it
  makes one, so `SignsOneCertificate` (`SealsOncePerRound`) needs `Held`: every certificate a
  correct node signed is in its DAG. For a correct author, `CertifiesOnce` (`CertifiedOnce`)
  needs to know in which round a batch can still be sealed (`BatchInv`): a batch's round has been
  left whenever the next one is due, and a restart begins above every certificate in the DAG. For
  a faulty author it is the argument of the protocol: two quorums share a correct acknowledger,
  which by `AttestsOnce` signed one batch. It assumes a store that is durable before it answers and never busy:
  a round begun again with other contents after a busy save is not covered by it, and a busy store at a vote
  breaks it. `SignsOneCertificate` assumes the first of these only.
* **`CertWaiterProofs`.** The inductive invariant is the types and, until sync writes
  something, `AwaitsTheMissing`: what is parked waits for parents of its own, and for every
  parent it lacks that is not too old to be kept. `TypeCorrect` and `ImplementsCausalStore` (the
  refinement, step by step, sync being the abstract store's second writer) hold with sync in
  the model; `NothingIsForgotten` and, with a second invariant about what was accepted,
  `OrderDoesNotMatter` are about the waiter as long as sync has written nothing. All rest on
  `UnblockedIsClosed`: the set a save stores is closed, and holds nothing that is
  not complete with the rest of it.
* **`BullsharkProofs`.** `Sound` is inductive with the types for everything the module has: sync with gaps, parked
  commits, timers, failing applications and restarts. Its part `Marked` (what is ordered is in the store, what is in the log
  is ordered, entries are disjoint) gives `NothingOrderedTwice`. `Clocked` says that the floor is no
  earlier than any anchor committed since the last restart, nor than any a restart reads back, which
  gives `ClockAdvances`. For `CommitsAnAnchorOnce` the clock is not enough: the frontier may go back, because a
  parked commit is retried without a look at it, and a restart may lose the floor. What saves it is that the restart
  that loses the floor also moves the frontier to the latest round of the store. `Based` says so: there is
  a round, the frontier of the last restart, at or below which no check is ever made again and
  above which every commit still counts for the floor. None of these has a hypothesis on stamps.
  With certificates by gossip only (`GossipOnly`: no pulls, no restarts, applications succeed), `Gossiped`
  adds `Whole`: the store is closed under parents, nothing is parked, what is ordered is what is in
  the log, and each entry is its anchor with its ancestry less what earlier
  entries hold. From it: `GossipNeverParks`, `OrdersCausally` and `AnchorsDetermineTheLog`. The lemmas about ancestry are by well-founded
  induction on rounds. `NoAnchorIsMissed` (`AnchorsAreOrdered`) needs `Dealt`: every supported anchor of a round the node has left is
  ordered or passed over, unless a certificate that supports it is still in the stack of those not yet dealt
  with (`Heeded`), and the frontier is the vote round of the last anchor (`FrontierIsOrdered`). It holds for any order of arrival and of
  flushing (`Reordering`), any stamps, and certificates with any number of parents. Where it does not
  reach: sync tells nobody of a vote, and a failed application marks what it does not hand on.
* **`TransactionsProofs`.** `OneCommittedPerKey` (`OnePerKey`) is inductive: of two positions
  of a commit that phase 1 lets through, neither has a rival before it, and neither is
  late. `DuplicatesLostToACommit` (`DuplicatesHaveAWinner`) needs the shape of the record of
  the mempool next to it, and that no operation of the mempool writes such a row
  (`MempoolRejectsNoDuplicate`); the commit is then the only step to look at.
  The others rest on `TransactionsInv`: `GoodPool` (no copies in the mempool or its table, nothing
  pending that has a tombstone, nothing in the table that is not pending), that what has a tombstone has a
  rejection row, that what is pending is in the table or committed, and a batch without copies. From it: `TransactionsTyped`,
  `DeadOnesStayOut`, `DiskHasTheMempool`. `NothingIsLost` (`NoSilentLoss`) and `OrderIsKept` (`KeepsOrder`) are about
  steps. Each operation of the mempool gets a lemma about what it keeps, loses and records; `PutBack` is
  the hard one, since `addFront` takes from the end first, refuses when full and skips what is
  there. `Without` is a recursive function here, and what it computes is shown by induction with
  the formula written out: for a fixed formula the least counterexample of a set of lengths does what
  the library's induction theorem, which takes an operator, cannot.
* **`RotationProofs`.** `RotationInv` adds to the types `RowsInOrder` (each rotation was
  committed before it comes into force, and rotations in the order of their numbers) and
  `CarriedAll`: wherever signatures are, in a flight or in a transaction, each is over the payload
  it travels with and was sent by its owner, and nothing is about a rotation beyond the next one.
  From it: `SignaturesMatch`, `EveryRowEndorsed`, `NextAnchorIsAgreed` (a row that a lagging node
  lacks was committed after the anchors it has, so it is in force only after its next one) and
  `PastIsFixed`. `RotationsKeepToEpochs` needs `ProposalsAreDue` as well: whatever was
  ever proposed was proposed at an anchor of a later epoch. No assumption on the number of nodes,
  the walks, or how far nodes lag.
* **`DisputesProofs`.** `LabelIsTheRuledOne` is not inductive: a result is applied by what it
  says of the ruling it was built under, so it has to be shown that this is the ruling the chain
  kept. `RulingFirst` says it of all that is under way: an appeal is summoned, in the chain or
  ahead in the same mempool, only after a ruling; a trigger that waits for experts has seen one;
  and a result carries the verdict of the first. First-wins rules then keep it.
  `Summoned` (votes under way are of summoned persons) carries the types.
  `ResultsFollowRulings` states `RulingFirst` itself.
  `ParkedContentHasAPanel` (`ParkedAwaitsRuling`) looks the other way, from a transaction to what
  comes behind it. `PanelsComing` says of each mempool that a dispute is followed by its jury, a
  ruling that decides nothing by experts, and that neither a ruling nor a jury is there without a dispute
  ahead or on the chain; what leaves a mempool is on the panel, so a call is never lost.
  `StillUndecided` says when a content is still disputed after its ruling, and `DisputeFirst` that the first dispute
  comes before all else, so that a dispute after a ruling is a second one. There is no hypothesis on the selection:
  for the experts the escalation counts them, and for a jury the property sets aside the dispute for which
  nobody was found (`NoJuror`), see section 6.
* **`ReviewsProofs`.** `TypeCorrect` holds with `Busy` (what is being applied is not empty); its part about
  the status needs to know that a transaction which ends a review also sets the status.
  `ImplementsCases` (`OneCaseAtATime`) is the refinement. The rows are touched in phase 2, the rules were
  checked in phase 1, so `CaseInv` says of the batch that it is `Ready`: a decision still to be applied
  finds its review undecided, an opening finds none in hand, and of two siblings the
  second remains valid after the first (`Follows`). The hard case is a correction beside the network's own
  case: it closes that one and spares the assigned review (`Spared`), because of the order in which the
  query returns open reviews.

Every invariant, action property and refinement that a passing run checks is stated by one of these theorems.
Those about certificates and gossip, `NothingIsForgotten` and `OrderDoesNotMatter` have hypotheses that the runs' instances satisfy; what goes wrong
without them is at the theorem or above. Only model-checked: the liveness properties `RoundsGoOn`, `EveryCertificateLands`,
`RulingsCome` and `ReviewEnds`, since TLAPS has no ENABLED and no fairness rules.

## 6. Findings

Each is a run that ends in a violation, of a property that restates what a
comment, a document or a test of the repository says; `PROJECT.json` quotes it.

* Two nodes with the same certificates can order them differently, because an
  anchor without support at the moment its round completes is skipped for good by
  one node and committed by another (`AgreeOnOrder`).
* A reveal committed between two leaders' looks makes their verdict batches differ. The first
  ruling wins, but score updates are deduplicated by reason only, so both batches settle the
  disputer (`SettledOnce`).

Met while modelling, and part of the models, but not made into runs:

* `_tryAdvanceRound` leaves the collected certificates in place until the next round
  begins, so that one quorum can pay for two rounds, and an ack that arrives then seals
  the old batch into the new round (`narwhal.js:1195`, `narwhal.js:844`).
* One deferred save at a seal makes a node begin its round again with a batch its peers
  refuse; a committee that needs the node completes no further round (`narwhal.js:936`).
* Sync stores parents without releasing what waits for them (`sync-handler.js:463`). The
  properties of `CertWaiter` that need it are checked and proved without sync.
* The index ticks before it is known that a commit will be made (`bullshark.js:304`), so it does not
  count the commits. A second incomplete commit is made as it is while a first one is parked
  (`bullshark.js:341`). A failed application has its certificates marked as ordered already and is retried with nothing to apply
  (`bullshark.js:388`), although "we don't advance — will retry next round" (`bullshark.js:480`).
* The frontier may go back. `onCertSaved` checks a parked commit again without asking whether
  later rounds were committed (`bullshark.js:1053`), and stamps, medians of the acknowledgers' clocks, are not compared
  across rounds: with `b3` stamped 9 as in `MCBullshark_sync.cfg`, a node goes from 6 back to 4. Rounds
  already committed are then checked again; the clock gate is what stops them.
* The clock floor read back at a restart is the one of the commit row of the latest round (`bullshark.js:127`). Commits
  without transactions have none, and after the frontier went back the last commit is not the latest round's. The comment at
  `bullshark.js:119-120` has the floor read back "so the bound survives restart": `TimeAdvances` says how
  much of it does. (That a commit behind the frontier has a row and the later round's stamp is lower takes a third
  anchor, which the run's graph does not have; the theorem covers it.)
* A jump on a peer's batch (`narwhal.js:563`) does not ask Bullshark about the rounds it skips: an anchor
  whose votes are in the store by then is not committed, unless another certificate of its wave comes
  late (`jumped` in `AnchorsAreOrdered`).
* A vote flushed before its parent is counted is, if the parent completes the round, of a round ahead of
  the node's, and is counted only when the retry timer looks at the store (`narwhal.js:1072`). No anchor
  is lost by it.
* A batch put back gets a new reception time (`narwhal.js:475`), although `addFront` takes
  the original one; a batch of `submitBatch` may be split over certificates; the order of a
  restored mempool is that of its rows, not of the queue.
* An ack may leave without its vote. When `recordSeenVote` throws, `handleIncomingBatch` goes on ("Proceed anyway —
  in-memory dedup is fallback for this message", `narwhal.js:700`), although a different batch of the same author
  passes that dedup by design (`narwhal.js:676`) and the table is what it is refused by. With the write-behind store
  (`knex-adapter.js:748`) a vote is only queued when the ack leaves, although `narwhal.js:690` persists it "BEFORE signing".
  Without the exception for `unrecorded` TLC has a node sign two batches of a slot within six
  states of `MCNarwhal_safe.cfg`. Pruning `votes_seen` may fail as well; it then keeps more than it
  needs, and the model lets it succeed.
* `drain` deletes the transactions of a batch from disk before a certificate carries them
  (`mempool.js:189`): a crash in between loses them without a record. `NoSilentLoss` excuses that.
* The payload hash of a rotation covers its effective round, which moves with every anchor, so
  "preserve accumulated sigs across bullshark's per-anchor retries"
  (`rotation-coordinator.js:218`) preserves them only while the boundary fires for one anchor. A
  leader that is not in the latest committee counts its own signature towards the quorum: it may
  submit a transaction that no commit accepts, and its flight stays marked as submitted until
  its deadline.
* Disputes. `fileDispute` warns of too few jurors (`dispute-service.js:188`) and submits the dispute all
  the same: with an empty jury there is no summons, so no deadline, and the content stays `DISPUTED` for good
  (`NoJuror`). An appeal of a jury without a quorum that ends in the conservative label matches no
  branch of `applyDerivedState`, so the content stays `DISPUTED` (`LabelAfterNoQuorum`), although
  `commit-handler.js:1962-1964` leaves the content alone because its result will finalise it. A
  second dispute after a ruling is accepted and never ruled on, since rulings are first-wins per
  content (`DisputedAgain`). `JURY_SUMMONS` are not deduplicated, so rival appeals seat the
  experts of both. `fileAppeal` does not count the experts, as the escalation does: an appeal by a
  party with no eligible expert is never resolved. A defaulted appeal after an upheld dispute
  puts the status back although the ruling stands. A refused verdict batch is not
  tried again by that node, although `verdict-trigger.js:268-270` expects the next round to.
* Two open reviews of one content. `PRESCAN_REVIEW_CONFIRMED` is not among the
  `CONTENT_STATUS_MUTATORS` (`commit-handler.js:146`), and while it waits in a batch no review is open yet, so
  that after the network's own confirmation a pickup, a trigger, or a second leader's
  confirmation in the same batch pass as well; `dag.js:1586` says "Only one open review per CTID at a time". In
  `ReviewCases` these are cases `by = "cap"`, beside which another may be opened.
* A review without an end. `_emitAutoEscalations` (`prescan-review-trigger.js:172`) skips a confirmed review if
  any `CONTENT_DISPUTED` was ever committed for the content; one that was disputed before
  remains `PENDING_REVIEW` unless its creator acts, although `commit-handler.js:1623-1624` has escalation as the
  other of two ends. `ReviewEnds` excepts it (`NotEscalated`).
* A content that is retracted, while its prescan is pending, is `REGISTERED` again when the verdict is committed.
  A `PRESCAN_REVIEW_TRIGGERED` proposed before and committed after a correction, a retraction or a
  dispute opens a review all the same. An escalation proposed as the window closes is
  committed after the creator has accepted the correction. The comment in `canUpdateOrigin` that
  retracting still works under review (`business-rules.js:440`) is not what `canRetract` does.
* Recovery, read but not modelled. A node whose state differs is sent to a resync in place of leaving sync
  mode ("a node without matching state must not go ready", `anti-entropy.js:1141`), and the resync leaves it by
  itself before it has installed anything (`anti-entropy.js:1783`), as it does when no peer is ahead. An
  install aborted before its first row clears the marker even when an earlier one left mixed rows
  (`snapshot-handler.js:1170-1178`). While a node syncs Bullshark goes on committing, with a state root of
  its own, and such a commit lets `resolveStaleInstallMarker` drop the marker of a half install
  (`snapshot-handler.js:170-199`). After an install `cancelPendingCommit` has already moved the
  frontier, so the `markOrderedUpTo` of `peer-sync.js:124-130`, which starts there, marks nothing.

## 7. Abstractions

* The committee is a constant, and all registered nodes sit on it. Signatures are
  what they prove: a correct node's batch or ack is only ever its own.
* Batches of `Narwhal` carry a member of `Content`, certificates of `CertWaiter` and
  `Bullshark` nothing. Inside one commit the code sorts by round and author, the same on every
  node, so an entry of the log is a set of certificates.
* An ack that arrives when it no longer matters and one that is lost are the same.
* `Narwhal` receives certificates whose parents are there; the wait for them is
  `CertWaiter`. Join states and the fork halt are not part of it.
* `CertWaiter` and `Bullshark` work on a fixed graph of certificates: what Narwhal may
  build is not fed to them.
* In `Bullshark`, Narwhal's collected certificates are dropped when the round
  moves, not when the next begins: within that time the round can only move on
  earlier, which `FastForward` allows at any time.
* `Pull` reads a peer's store as any causally complete set of certificates.
* In `Bullshark` a commit with transactions is taken to have its row. One of whose transactions none is
  accepted, or whose row could not be saved (`bullshark.js:514`, `bullshark.js:551`), is like one of a certificate that is not `Loaded`.
* The timer of a parked commit asks for a snapshot; the model drops the commit and
  installs none.
* `Transactions` has no clocks: any entry or tombstone may expire at any drain. The rules of a
  type are one exclusion key, and every type has one; the code lets some types into a
  commit twice, which then write the same row. Failures of the mempool table and of a
  rejection row, which are only logged, do not happen. Which certificates are ordered
  together and in which order is left open, as Bullshark leaves it.
* A restart of `Transactions` drops the certificates that were in the store: `_initFromDAG` marks them
  as ordered, and the node takes their outcome from a peer's state, which is not modelled.
* `Rotation` takes one order of anchors from Bullshark, each wave with its anchor. Rounds and
  epochs are counted in anchors; credits are given at the anchor, to a set chosen freely. All nodes
  are registered and active, so the fallback of `getActiveCommittee` is left out, as are
  forced proposals, which nothing in the source calls. Deadlines pass at any time; the pacing
  and the peers of repair are left open. A payload hash is the payload.
* `Disputes` is one content. All nodes have committed the same; a node that lags proposes what
  it would have proposed earlier, since a batch lies in its mempool as long as it likes. Items of a
  batch are committed one by one, in an order with those of other nodes that is left open, each
  as a wave of its own. A stage has one deadline. Vote commitments, the scores of jurors, experts, author
  and appellant, stakes, review overlays, retraction and the appeal window are left out. Of
  origins named equally often any may be confirmed: the code takes the first in an order of
  votes that is not modelled. Any node may lead any round. Drained transactions are not lost.
* `Reviews` is one content, committed alike everywhere, as in `Disputes`. Who reviews is left out: a review has an
  assignee, who answers, and a desk that may take it. Nothing else happens between the first validation and the
  last application of a batch, since a commit does not await. Ages are replaced by deadlines that pass; the review
  that the query finds among several is the one the code's order by round can return. Scores, notes, strikes, and the
  count of a reviewer's load are left out; so are contents registered with another origin, which no review concerns.

## 8. Plan

Done: `QuorumMath`, `Narwhal`, `CertWaiter` over `CausalStore`, `Bullshark`, `Transactions`,
`Rotation`, `Disputes`, `Reviews` over `ReviewCases`, and their proofs.

What is left to prove: nothing that a run checks but liveness. Worth weakening is the hypothesis
`SaveOutcomes = {TRUE}` of `CertifiesOnce`, for committees in which two quorums share a correct node
besides the author.

Not modelled, and why:

* **Anti-entropy, join states, fork halt, snapshots, replay** (`anti-entropy.js`, `peer-sync.js`,
  `snapshot-handler.js`, the join part of `narwhal.js`, the frontier adoption of
  `bullshark.js`). They compare and copy the whole state of a node, every table of it. A model
  would need several nodes with a state machine on top of the log, and says little
  before that state machine has more than the rows modelled here. What an install does to the
  modules that are here is in them where it is more than a reset (`Rotation!Install`).
* **Several nodes of `Transactions`** over one log: the commit is a function of the log and
  the state before it, and where the code lets nodes differ (a store that fails on one
  of them) it is anti-entropy that would have to find it.
* **Leases and retries of prescan jobs, uploads, the clean-record trigger**: each on one node and without
  an effect on consensus but the transactions they submit.
* **Scores, selection by seed, Merkle trees, perceptual matching**: arithmetic and hashing over long
  inputs, which bounded inputs would not say much about.
* **Services, validation, HTTP, network, schema, start-up, clients and deployment**: they
  keep no state the properties are about; their checks are in the models where a commit
  depends on them.
