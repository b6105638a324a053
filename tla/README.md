# A TLA+ verification of MRK

MRK is a relay network with its own settlement ledger (MSL). Relay Nodes
forward opaque bytes between the members of private networks and are paid from
an escrow against receipts signed by both ends. The ledger holds accounts,
Nodes, bonds, emission, escrow and governance. Node 1 produces blocks alone
while the network is small; a committee of Validators finalizes them afterwards.

This directory holds TLA+ models of that code, TLC configurations, and proofs
checked by TLAPS. `PROJECT.json` lists components, runs, mutants, findings,
hazards and theorems, and maps every definition to the lines it models.

    tlc -workers 2 -config consensus.cfg MCConsensus
    tlapm ConsensusProofs.tla

## 1. The system

| Part | State | Operations that change it | Meets |
| --- | --- | --- | --- |
| Finality (`service.rs` 7036-8315) | round, proposal, valid value, votes, locks, evidence, tip | propose, submit proposal, submit vote, cast vote, advance round, finalize, catch up, reset to Node 1 mode | driver, gossip, operation pool, committee |
| Driver and gossip (`mrk-node/lib.rs` 4262-4435, `relay_client.rs` 549-787) | none of its own; timers | one pass per second, one session per peer every two seconds | finality |
| Operation pool (`service.rs` 2402-2764, 8049-8201, 11413-11629) | pending operations, nonces, fees | submit, stage, reject, replay | finality, every ledger operation |
| Node 1 blocks (`service.rs` 8467-8585, 8587-8921) | blocks, checkpoint | produce, verify | pool, epochs |
| Catch-up, bootstrap, pruning (`service.rs` 606-777, 4826-5190) | finalized checkpoint, retained blocks | apply chunk, install snapshot, prune, backup, restore | finality, storage |
| Storage (`storage.rs`, `store/`) | redb tables; sparse state overlay | write transaction, commit, crash | everything |
| Traffic payment (`service.rs` 1984-2268, 3678-4393) | network escrow, authorizations, node rewards, burned fees | reserve, settle, refund, abandon | relay hub, settlement worker |
| Relay hub (`mrk-node/lib.rs` 641-2043) | routes, directions, interrupted routes, sessions | open, accept, data, checkpoint, receipt, close, disconnect, tick | payment, SDK, storage |
| Settlement worker (`mrk-node/lib.rs` 4043-4142, `storage.rs` 531-610) | durable pending settlements | store, flush, remove | relay hub, payment |
| SDK stream (`mrk-sdk/lib.rs`) | channel, cipher counters, cumulative state | open, write, checkpoint, receipt, close, recover | relay hub |
| Accounts and transfer (`service.rs` 1296-1612, `fee.rs`, `amount.rs`) | balances, nonces, supply | transfer, fees | pool |
| Networks and members (`service.rs` 1652-1735, 1825-2347, 4412-4763) | networks, members, policies | create, fund, issue, revoke, policy | payment |
| Node lifecycle and IP slots (`service.rs` 2826-3416, 5191-5770, 11713-12090) | nodes, bonds, IP slots | register, update, drain, withdraw, exit | availability, epochs |
| Availability (`service.rs` 3418-3669, 5799-6302, 12092-12215) | epoch contexts, slots, attestations | attest, credit, close epoch | lifecycle, committee |
| Emission and vesting (`service.rs` 12142-12470) | emission pool, rewards, vesting | settle epoch, vest, claim | lifecycle, availability |
| Committee (`service.rs` 6750-7149) | active validators, candidates | join, exit, withdraw, refresh | finality, lifecycle |
| Governance (`service.rs` 8937-11401) | proposals, ballots, settings | create, vote, veto, finalize, execute, cancel | treasury, settings |
| RPC, CLI, FFI, explorer | none in the ledger | requests | all |

What makes it hard: gossip without order, loss or duplication limits; round
timeouts that race votes; validators that stop or lag; a ledger replaced by a
post-state computed from an older checkpoint; relay disconnects between a
checkpoint and its receipt; a settlement worker that retries across crashes;
money that must be neither lost nor counted twice.

## 2. The modules

| Modules | What they model | Run |
| --- | --- | --- |
| `Consensus`, `ConsensusDriver` | finality at one height; driver, gossip, timeouts | `consensus` |
| `TrafficPayment`, `PaymentPromise` | sessions paid from a fund; what an authorization promises | `payment` |
| `RelayState`, `RelayHub`, `RelayStream`, `RelaySession` | one paid session: the Node, the SDK, both with the ledger | `relay` |
| `Settings`, `Governance` | governed parameters; proposals, votes, treasury | `governance` |
| `Registry`, `Stake`, `Availability`, `Emission`, `NodeLedger` | nodes and addresses; bonds and committee; attestations; epochs and rewards; all of them on a daemon | `nodes` |
| `Store`, `Chain` | tables, views, the finalized overlay; pool, blocks, catch-up, bootstrap, pruning | `chain` |

`MC*` modules instantiate them. `ConsensusInvariant`, `ConsensusProofs`,
`TrafficPaymentProofs`, `RelayProofs`, `GovernanceLedger`, `GovernanceProofs`
and `StoreProofs` hold the proofs; `FiniteSums` has what they need of finite
sets and sums (section 10).

How the parts meet. `Consensus` decides on a value and leaves open what is in
it; `Chain` executes values and leaves open who decides (Node 1). `Chain` has
the pool, nonces, fees and replay for transfers; `Governance` and `NodeLedger`
have the operations of their own on the same pair of ledgers, one with the
pending operations executed and one as of the last block. `TrafficPayment` is
what the settlement worker of `RelaySession` submits to. What `Governance` takes
from the registry (who is eligible, who sits on the committee) is an input that
changes freely.

Several `MC` modules have *plays*: a behaviour chooses one in its first state
and takes only that play's steps. One run then covers several scenarios, which
together are far smaller than their union. `left` or a scenario's counters
bound the commands of a behaviour.

## 3. The finality protocol

### `Consensus`

One height. Each variable is one field of `ConsensusState`, as a function of
the validator that holds it; `proposed` and `signed` collect what was ever
signed, and gossip may deliver any of it to anyone at any time or never. A
handler is one redb transaction, so it is one action, and a crash of the
process loses nothing.

| Action | Code |
| --- | --- |
| `ProposeConsensusBlock` | `propose_consensus_block`, with its own verification |
| `SubmitConsensusProposal` | `submit_consensus_proposal` |
| `CastPrevote`, `CastPrecommit` | `cast_consensus_vote`; `MayVote` is the lock rule |
| `SubmitPrevotes`, `SubmitPrecommits` | `submit_consensus_vote`, for the votes of one gossip message |
| `SubmitConflictingVote` | its double-sign branch |
| `AdvanceConsensusRound` | `advance_consensus_round` |
| `ApplyConsensusCatchUp` | `apply_consensus_catch_up`, for the height at hand |
| `ResetToNode1Mode` | `reset_multi_validator_consensus_if_node1_mode` |
| `DoubleSign` | external: a key used by two processes |

A block is its round, time stamp and operations. `StateRoot` depends on the
time stamp if something in `Stamped` is among the operations, which is what
re-execution at a new time stamp makes of it. An element of `Stamped` is an
operation that records the time, or what the time itself does to the state, with
or without operations: an epoch begins, is settled, a node has drained
(`service.rs` 8137, 8196-8198).

Left out: the pool behind a proposal (a refused proposal is one not delivered),
the due time of a block, and signature and freshness checks. The committee of a
height is fixed. In the code a bond or exit operation that is executed on the
working ledger refreshes it (`service.rs` 3288, 6852), and then clears round,
proposal, votes and locks in the middle of the height (7138-7146). If the same
validators are selected, this is what `ResetToNode1Mode` does; a different
selection within a height is not modelled.

### `ConsensusDriver`

The driver decides which of these steps are tried. A pass ends at its first
error, so a validator that fails to vote never reaches its timeout. One gossip
session takes over the peer's proposal and votes at once. Before `SyncRound`
timeouts fire at any moment; from it on, only when there is nothing to deliver
and nobody has a vote to cast, since a round lasts at least 5 s, gossip runs
every 2 s and a pass every second. `Crash` stops a validator for good.

Fairness is weak fairness of `Progress`: as long as some running daemon has a
pass or session that changes something, one happens. The daemons run on timers,
so this is the least the code guarantees. No fairness is assumed of crashes.

### Runs

| Run | Result | Bounds |
| --- | --- | --- |
| `consensus` | holds | 4 validators, 2 values; handlers called at any time: all honest in rounds 0-1, or round 0 with one double-signer, one nil voter, one that resets; driven by the daemons in rounds 0-3: one crash at any point, or one validator deaf in round 0 |
| `consensus_block_agreement` | violated | 4 honest validators, rounds 0-1 |
| `driver_stall` | violated | rounds 0-1, one crash |

`consensus` checks `ValueAgreement` (finalized values agree), `LockRespected`
(a lock is left only for a newer prevote quorum), `Certified` (a finalized block
has both quorums), `EvidenceIsTrue` (nobody is slashed who did not sign twice)
and `HeightFinalized`: every running validator finalizes. The last one is about
the plays in which daemons run; in the others `alive` is empty, and it says
nothing.

Four validators are the smallest committee of the multi-Validator mode and the
smallest that tolerates one fault. Two rounds are the fewest in which a lock
can be broken; the proofs cover the others. `MCConsensus` narrows the
interleavings: receiving and advancing change only a validator's own records, so
they are delayed until just before its next signature, and the steps of a round
are made before the next one begins. The module says why nothing observable is
lost. The passes of the daemons are made in the order of validators; with a
crash they gossip in any order, otherwise, from round 1, in turn.

### What the violations show

- Two validators can finalize one value under two block hashes, from two
  rounds. Values agree, tips do not.
- Locked validators that hold another value of a stopped proposer are stuck
  until an operator changes the round.

Three more effects of the code are in the model and in the list of hazards,
without a run: a retained value with an operation that records the time cannot
be proposed again; evidence against one validator makes honest ones forget what
they signed in the round; evidence is lost at finalization.

### Proofs (`ConsensusInvariant`, `ConsensusProofs`)

`TypeCorrect` needs only the assumptions on the constants.
`ValueAgreementHolds`, `VotingRulesHold` and `LockRespectedHolds` also assume
`NoFaults` (nobody double-signs, nobody falls back to Node 1 mode): either makes
validators forget their votes. They hold for every committee size and number of
rounds.

Agreement is not inductive. `IInv` adds: boxes hold only signed votes; nobody
signs twice; what is precommitted had a prevote quorum; a validator that
precommitted remembers it as lock or has seen a newer quorum; and `Justified`,
the heart of it: a vote against an earlier precommit of the same voter rests on
a prevote quorum for its value in a round in between. If a value is decided in
round r, take the least later round with a prevote quorum for another value: a
member of both quorums voted there against its precommit, so there is a still
smaller such round. What the argument needs of numbers (a superset of a quorum
is a quorum, two quorums meet, a set of rounds has a least one) is the hypothesis
`Counting` of the lemmas; `CountingHolds` derives it from the library's theorems
on cardinality before the theorems use it.

`EvidenceIsTrueHolds` is about faults and assumes nothing of them: any number
of validators may double-sign or fall back. Its invariant needs only that boxes
hold signed votes under the voter's name; a conflict between a vote received and
the one in the box is then a conflict of two signatures.

Only model-checked: `HeightFinalized` (liveness under fairness) and the driver.

## 4. Traffic payment

### `TrafficPayment`

One Network, its fund (`escrow`), its spending policy, one serving Node, and an
authorization per session. All times are stamps: an operation is judged by the
time its signer put into it and executes up to `Validity` later, so operations
execute out of stamp order. A failing operation changes nothing.

| Action | Code |
| --- | --- |
| `ReserveSession` | the reclaim of expired authorizations, the checks, `max_amount`, the record, the fee paid by the fund |
| `Settle` | `apply_traffic_settlement`; `ReceiptInTime`, `StrictlyNewer`, `Amount`, `SettledAuthorization` are its parts |
| `RefundByOwner`, `RefundByNode` | `Refund`, by the payer after the claim window or by the Node Owner |
| `FundNetwork`, `SetSpendingPolicy`, `RevokeMember`, `UpdatePrice`, `DrainNode` | the operations payments depend on |

A receipt is its direction, sequence, bytes and final flag: both ends signed
the same prefix. Signatures are taken as valid. The fee settings an
authorization copies are constants. Nonces, the pool limit and the refusal
during a proposal belong to the operation pool.

`PaymentPromise` is what an authorization promises, as a specification of its
own: a deposit is locked once, payments come out of it and are never taken
back, and when the session ends the rest is released and nothing moves again.
The mapping reads the phase off `refunded` and `closed`.

### Run

`payment` has two plays: two sessions of two members under two policies with one
short transcript at price 3, and one session under three policies with two
frames one way and one the other at prices 1 and 3. The policy in force at first
is the most generous one. Times are 0-3.

| Property | Says |
| --- | --- |
| `Conservation` | funds, reserves, rewards, treasury and burned fees always add up |
| `AuthorizationAccounted` | reserved and settled make up `max_amount` while open; nothing stays reserved afterwards |
| `PaidForTraffic` | what was paid for a direction is the fixed price of its largest settled prefix, rounded up once |
| `MemberWithinLimit` | a reservation leaves its member within the policy in force |
| `SettledPrefixStands` | no step undoes a settled prefix or changes the terms |
| `KeepsPromise` | `TrafficPayment` implements `PaymentPromise` |

Sessions last one time unit and claim windows one more, so reservations,
expiry, reclaim and late settlements all happen by time 3. Traffic is priced
per 2 bytes, so most prefixes are rounded. The owner can pay for one operation
besides funding. Sessions and members are symmetric.

### Proofs (`TrafficPaymentProofs`)

From `PaymentAssumption` alone (finite sets, a positive unit of traffic, rates
of at most one), every safety property of the run, for all sessions, receipts,
prices, policies and fees: `AuthorizationsHold` (and by itself its part `AuthorizationAccountedHolds`),
`SettledPrefixStandsHolds`, `PaymentTypeOKHolds`, `ConservationHolds`,
`MemberWithinLimitHolds`, and the refinement `PromiseKept`.

`StepForms` reduces an operation to what it does to one authorization: nothing,
issue it, take its reserve back, or settle one receipt. `Sound` is the
inductive invariant of one authorization; it needs the exact price of each
direction, because the amount of a settlement is a difference.

Conservation adds the sums. `MoneyInv` is `Sound` for all sessions, the types of
the balances and the sum itself: a balance stays a natural number because the
checks of the code come before the subtraction, and the sum stays because a
settlement divides exactly what it takes from the reserve. Reclaiming several
expired authorizations at once moves a sum over a set of sessions, which
`FiniteSums` takes apart. For the policy, a reservation is the only step that
raises what a member has reserved, and it checks that sum after the reclaim.

## 5. Relay session

### The modules

One paid session: two members, the serving Node, one payment authorization.
`RelayState` holds the variables, `RelayHub` the Node's steps, `RelayStream`
the SDK's, `RelaySession` the composition and the properties. Frames travel in
order in `toHub` and `toPeer`; the second is bounded by the hub's outbound
queue. A direction's position is its byte count, since sequence and transcript
hash are functions of the frames counted.

| Action | Code |
| --- | --- |
| `HubOpen` ... `HubClose` | the branches of `handle_frame`, each under the hub's lock |
| `Unregister`, inside every failing handler | `unregister`: the tail is kept in memory, a hold on disk |
| `HubWindowTick` | `tick_payment_windows`, one direction at a time; its error ends the Node |
| `TickStart` ... `TickAbandonLost` | `tick_interrupted_routes`, cut where it lets go of the lock or of the database |
| `WorkerTake`, `WorkerFlush` | `flush_pending_traffic_settlements`, one row: removed when settled or out of time, left while its operation is pending, else submitted, again if a block did not take it |
| `FinalizeBlock` | the next block, as far as it concerns the session (`replay_block_operations`) |
| `Drain`, `Restart` | graceful shutdown; the end of the process and `RelayHub::production` |
| `OpenSession`, `AnswerIncoming`, `OpenAnswered` | `open_auto`, `recover_existing`, `IncomingStream` |
| `SendData`, `SendFin`, `SendClose`, `AppClose`, `Get*` | `run_stream_loop`; its checks before `select!` come first |
| `Recover`, `RecoveryTimeout` | `run_recovery_channel` |
| `Unexpected` | the connection driver's handling of frames nobody waits for |

Abstractions. The key exchange is left out: its frames are counted like data
and are far smaller than a window. A broken connection loses what is in flight
both ways; delivering it first is another order of the same steps. Time is
`valid`, `claim` (after `valid_until`) or `over` (after `claim_until`), and
checkpoints and receipts carry the time they were signed at. The ledger the hub
and the worker read has the pending operations applied (`chain.settled`); beside
it are the finalized one (`chain.finalized`) and the settlements in the pool.
Submitting a settlement changes the first. A block makes any of the pending
settlements final and drops the others: one that no longer executes is rejected
with its fee or omitted. A refund or abandonment is taken as final when it is
submitted; submitting one may fail for reasons of nonce or fee, so it is a
choice. `TickAbandon` is the submission and the removal of the rows on disk and
in memory as one step (`lib.rs` 940-956, `service.rs` 4388-4389).

Not modelled: several sessions on one Node (`RECOVERY_REQUIRED`, the channel
limit), the running price check of `Data` (`lib.rs` 1393-1414), the limit of 30
seconds between a checkpoint and its receipt (1678), backpressure of the
application's reader.

### Runs

A behaviour takes one scenario from `Scenarios` in its first state: how much
traffic, how many opens and breaks, who closes, how long the queues are, whether
ticks, timeouts, shutdown, blocks and expiry happen.

| Run | Result | Scenarios |
| --- | --- | --- |
| `relay` | holds | both sets |
| `relay_clean_close` | violated | nothing breaks: two windows one way; one window with timeouts; one window each way; a shutdown; one window with blocks |
| `relay_abandon` | violated | one break or restart, one recovery: both ends close; ticks and nobody closes; with traffic; after `valid_until`; with blocks. One break, no recovery, until `claim_until`. Two windows with timeouts |

A window is two bytes, a data record two and a FIN one, so one record fills a
window, two exhaust the allowance and a FIN alone does not. The session may
stop, so deadlock is not checked. In the second set the queues have room for 3
frames and overflow; in the first they have the 8 of the code. Each scenario
adds one of the behaviours to a session that is otherwise quiet: together in one
session they have millions of states.

| Property | Says |
| --- | --- |
| `TwoWindows` | forwarded without a persisted receipt: at most two windows, live or interrupted |
| `CountsAgree` | the counts of sender, hub and receiver agree up to what is in flight |
| `BilledAsDelivered` | no receipt covers more than was delivered and allowed |
| `PaidInFull` | a direction that is final on the ledger is paid as far as it was delivered |
| `TailOnDisk` | a route not final on both sides has a row from which a restarted Node learns of it |
| `ReceiptsKept` | a receipt on disk goes only when the ledger with its pending operations has it or can no longer take it, or for a newer one |
| `StreamEnds` | a stream both sides want to end does end |

`StreamEnds` assumes weak fairness of what threads and tasks always service:
the hub reads its sockets, the SDK its queue, the stream loop checks for FIN and
Close. For an end it is one condition for all its steps: its loop always goes on,
with one or the other. Nothing is assumed of the application, of timeouts or of
ticks. With a queue that overflows the property does not hold, since the Close
that reports a broken route is sent with `try_send` and its failure is ignored;
it is stated for the queues of 8.

`ReceiptsKept` does not wait for finality, because the code does not: section 9.

`relay_clean_close`: a window timeout at the Node crosses the FIN. The sender's
stream takes the receipt of the periodic checkpoint for the FIN's receipt, and
the initiator closes before the final receipt. The session's row stays in the
table of active sessions, and its reserve is not released.

`relay_abandon`: the tick finds no receipt, a recovery channel persists one, the
tick abandons the session.

### Proofs (`RelayProofs`)

`TwoWindowsHold` and `TailOnDiskHolds`, for every window, overhead, recovery
limit and scenario, queue lengths and blocks included. The second is proved as
long as `chain.reopened` is false. A block that rejects the settlements which
closed an authorization opens it again; that a route of it has a row even then
rests on what the two ends can still send, and TLC checks it. A frame handler ends in one of two ways: it
replies, or it fails and unregisters the connection; `Outcome` says so, and one
lemma per handler shows that the hub it computed is good. `GoodHub` is the
invariant of that record. The check in `Data` bounds what is added, but a
receipt sets the paid position to that of the bill it answers, and recovery to
what the ledger has; so the invariant also says that an outstanding bill was
issued within one window of the position and, on a stream, marks the start of
the payment window. On a recovery route every bill is the final one, so no data
follows it. For the tail, a live route keeps its active row and a recovery route
the hold that `unregister` wrote, as long as the ledger is open. Of the ends and
queues only the length of a `Data` frame matters.

Only model-checked: the properties that compare hub and ends (`CountsAgree`,
`BilledAsDelivered`, `PaidInFull`, `ReceiptsKept`) and `StreamEnds`.

## 6. Governance

### `Settings`, `Governance`

A daemon holds two ledgers: `fin`, as of the last block, and `mem`, on which the
pending operations are already executed. Every operation has two
implementations in the code, and both are modelled: the command of the daemon's
own operator (`CommandAllowed`, `CommandEffect`) and the replicated one
(`ReplicatedAllowed`, `ReplicatedEffect`), which executes what arrives by gossip
on `mem` and what a block contains on `fin`. `ProduceBlock` enters the epochs
that have begun, applies the batches due, and replays the pending operations
from `fin` in canonical order. The cancellation of open proposals when too few
nodes are eligible ends every operation, as in the code.

An operation of another daemon arrives with the time its signer put into it, up
to `Validity` late or with a clock that runs ahead, and carries the times of the
proposal it creates; the code compares these with nothing. If it cannot be
executed on `mem` yet it is staged: it waits in the pool, unexecuted, until the
block tries it. A signer's operations are taken to arrive in the order of their
nonces. The replicated validator vote has no deadline, as in the code.

Six parameters stand for the thirty-seven: one that needs no CRITICAL proposal,
a pair bound by a rule, and the fee policy, which changes only as a whole.
`CapSearch` is the binary search of the power cap, as a recursive definition.
Nonces, signatures and fees other than the proposal fee are left to `Chain`.

### Run

`governance`: 4 nodes, 2 of them on this daemon, one proposal voted on, 2 pending
operations, times 0-4, epochs of 2. Plays: a treasury spend with validator votes
and vetoes; two spends that have passed and together exceed the limit of a
window; operations of other daemons that arrive late or are staged; a parameter
change while nodes gain and lose eligibility; direct governance by Node 1 with
queued batches. `governance_veto` is the same instance with the one property
that fails: `VetoNeedsThird`, vetoes reject a spend only with more than a third
of the power. In the replay a tenth is enough.

| Property | Says |
| --- | --- |
| `GovernanceConserves` | balances, treasury, bonds of proposals and burned fees add up, on both ledgers |
| `ExecutedWithMandate` | what was executed had the majority of its kind by the snapshot, waited, and was not vetoed by more than a third of the power, which is what the documents promise and less than what the replay does; spends are within the treasury's limits, alone and in each window |
| `QueueStaysApplicable` | every queued batch can be applied when its epoch begins; one that could not would stop block production |
| `SnapshotCapped` | no node has more than its share, and the cap found is the greatest that achieves it |
| `OutcomeStands` | a final outcome, its votes, snapshot and times never change |

One proposal is enough in the plays that vote: proposals meet only in the
treasury, for which there is a play of its own, and in the settings, which
direct governance changes as well. Four nodes give a majority, a veto minority
and a capped node.

### Proofs (`GovernanceLedger`, `GovernanceProofs`)

Every property of the run, for every number of nodes, proposals, pending
operations, parameters, actions and limits, from `ValuesAssumption` and
`GovernanceAssumption` (positive units and epoch length, natural limits,
a first settings record that obeys the rules), and with them
`EpochsCanBeginHolds`: the guard of `ProduceBlock`, which stands for the errors of
`advance_epochs_for_block`, always holds, so no batch can stop the chain.

`GovernanceLedger` is about one operation on one ledger, in three parts.

- The snapshot. `CapSearch` is a recursive function on intervals; that it exists
  and what it returns is shown by induction on the width of the interval. The
  caps that fit are downward closed, so the binary search ends at the greatest,
  and with that cap no node has more than its share.
- The plan. `QueueApplies` says that the queued batches apply one after another.
  It survives an accepted batch, immediate or for any epoch, because the code
  checks the whole queue again, and it survives the beginning of an epoch,
  because applying the batches due is a prefix of applying them all.
- The operations. `Keeps` relates a ledger to the next: types, the sum of all
  money (`Worth`), the plan, and `Follows` for each proposal. One lemma per
  operation, for the command and the replicated form, and one for the
  cancellation that ends each of them.

`GovernanceProofs` adds what only the finalized ledger promises: what passed or
was executed had its majority, and each spend, with the earlier ones the code
counts in its window, was within the limits of what the treasury held then. That
can still be read off the ledger later, since a spend takes from the treasury
what it adds to the list. It does not need that spends are recorded in the order
of their times, which the stamps of other daemons do not guarantee. Replay is a recursive function over the pending operations;
`Carries` is what one operation keeps, and induction over their number gives the
block. `GovernanceInv` is the conjunction.

## 7. Nodes, availability, rewards and the committee

### `Registry`, `Stake`, `Availability`, `Emission`, `NodeLedger`

A ledger is a record; an operation is a guard and a function on it, in the
module of its part. `NodeLedger` runs them: commands on `mem`, their replay on
`fin` in blocks, which come at any time. A block enters the epochs that have
begun, replays, settles the epochs whose grace period is over, vests, ends the
nodes that drain or were offline, and refreshes the committee, in the order of
the code.

| Part | Code |
| --- | --- |
| `Registry` | registration and rejoining, address, price and capability updates, draining, the Service Bond, claims; binding, release and reuse of IP slots |
| `Stake` | Governance and Validator Bonds with exits and withdrawals; eligibility; selection and rotation (`refresh_validator_committee`) |
| `Availability` | who attests a slot, the quorums of its record, the seconds credited |
| `Emission` | epoch contexts, largest-remainder shares, vesting tranches, exits at the end of a block |

A probe is one step, and the stamp of an attestation is both the time of the
probe and of its execution, which the code lets lie 30 seconds apart. The hash that orders verifiers is a fixed permutation, and
the sampled slots are a constant. Epoch lengths, budget and bonds are those of
the instance.

### Run

`nodes`: up to 4 nodes, times 0-6, epochs of 4, slots of 2, 3-4 commands. Plays:
attesting and draining; two nodes sharing an address; bonds and exits; the
multi-Validator mode with a committee of 3. Shares and tranches do not divide
evenly, and the pool can run dry. The reuse cooldown of an address is 0, the
default of the code. `nodes_address` is the same instance with the property that
fails under this default.

| Property | Says |
| --- | --- |
| `SupplyConserved` | rewards, vesting, bonds, slashing and withdrawals never make or lose money |
| `CommitteeBacked` | whoever is seated serves and has its bond at stake; the committee decides on availability only while it is large enough |
| `SecondsWithinEpoch` | seconds are those of the credited slots, each once, and fit the epoch; more would make settlement, and every later block, fail |
| `ExitIsFinal` | an exited node never serves, earns, sits or holds an address again, whatever was pending |
| `OneNodePerAddress` | violated: in one slot an address earns for one node only. A node that was credited moves away, another binds the address it left, and the slot pays both. With a cooldown that covers a slot TLC finds no violation |

## 8. Chain and storage

### `Store`

The tables of one daemon, `T`: a row per account, block, operation and history
link, the small row `meta`, the bootstrap checkpoints, and the finalized ledger
as an overlay on the account rows (`over`, `committed`). A command runs on a
*view* of the tables and its result is written back as differences. `FullView`
is that of `with_ledger_mut`, `ActiveView` that of block production: no history,
and a chain pruned up to its tip. `Persistable` are the conditions under which
the transaction fails. A transaction is atomic (redb), so a crash falls between
two of them.

### `Chain`

Node 1 and its peers, each with its tables in `db[d]`. Transfers stand for all
operations; they have nonces, fees, expiry and an order.

| Action | Code |
| --- | --- |
| `Transfer`, `Sign`, `Submit`, `Forward` | the local command; a wallet's signature; execution or staging of a signed operation; gossip |
| `ProduceBlock` | `produce_node1_block_if_due`: replay on the finalized ledger, rejection with its fee, the block, the checkpoint |
| `FetchChunk`, `ApplyCatchUp`, `Crash` | chunked download, all conditions of `apply_consensus_catch_up`, a download lost |
| `Bootstrap`, `Backup`, `Restore`, `Prune` | installing a snapshot with its rollback; backup, and restoring any verified backup, one's own or that of another daemon; `prune_history` of LITE |

A block, a catch-up or an installed snapshot also stores a bootstrap checkpoint,
which may fail and leaves the ledger as it is. `rewound` remembers that Node 1
was restored from a backup that lacks its last blocks. A download has no limit
of blocks (4,096 in the code, `relay_client.rs` 121), and the fee policy has one
version; governance changes it in `Governance`.

### Run

`chain`: Node 1, a LITE and a FULL peer, up to 3 blocks, times 0-3, chunks of
one block, LITE keeps one block. Plays: wallets sign ahead of each other and of
a transfer of Node 1, with tight fees and to themselves, while epochs pass; a
peer transfers, forwards, syncs and prunes; an empty peer installs while it and
Node 1 are backed up and restored, each also from the other's backup. One block
per chunk and one retained block are the smallest sizes at which a download
spans blocks and pruning removes something another step needs.

| Property | Says |
| --- | --- |
| `CheckpointFaithful` | the finalized ledger read from rows and overlay has the state root of the daemon's tip |
| `ChainVerifies` | every retained chain passes `verify_blockchain_inner` at any time |
| `LedgerMatchesHistory` | final accounts are the result of the finished operations: balances, fees, gapless nonces, links (Node 1, while it has all of its history) |
| `CatchUpAccepted` | blocks that continue a peer's chain are refused only for a pool operation they leave out |
| `FinalityAgrees` | blocks, outcomes and fees a peer holds as final are those of Node 1, until Node 1 is set back to an older backup |

### Proofs (`StoreProofs`)

About the operators of `Store`, for every table, ledger and number of accounts
and blocks:

- `FinalizedReadsBack`: after a transaction on either view the finalized ledger
  read back has the state root and the small row of the one that was written.
- `CheckpointReadsBack`: if the command took a checkpoint, that is the state
  root, height and tip of the ledger itself.
- `BlocksStand`: a transaction that does not fail changes no block on disk, and
  one on the active view removes none.
- `FullReadsBack`: the full view of the tables written is the ledger the command
  left, in accounts with histories, operations, blocks and small row.

The overlay is exact on the accounts it was computed from (`OverlayReadsBack`).
The rows it is laid on differ from them: a row is rewritten only if the command
changed the account, and rows have no histories. `Shows` relates the two, and
`RowsShow` and `OverlayOnRows` carry it through a write. Assumed: accounts are
not `None`; the block table has no gaps (`History`); links belong to accounts
(`Links`); ledgers are well formed (`Written`). `FullReadsBack` shows that
`History` and `Links` are kept.

`CheckpointFaithful` itself and the other properties of `chain` need what a
replay, a fold over the pool, does to types and sums; TLC checks them.

## 9. Where code and documents differ

Findings, each with a run that violates what the document says: section 3 (block
hashes, stall), section 5 (close before the final receipt, abandoned receipt),
section 6 (a tenth of the power vetoes) and section 7 (an address earns twice in
a slot). Met while modelling, in the models as the code has it, without a run:

- The settlement worker removes a receipt as soon as the ledger with its pending
  operations has it (`mrk-node/lib.rs` 4089-4103). `README.md` 167 says receipts
  "remain persisted [...] until settlement reaches finality", and
  `docs/blockchain.md` 392 that no receipt may be deleted before that
  (结算操作最终确认前不得删除本地回执). If the worker looks between submission
  and block and the block rejects the settlement, the receipt is lost;
  `FinalizeBlock` reaches this, and `ReceiptsKept` says what the code does.
- A pool operation that the fetched blocks leave out makes catch-up fail
  (`service.rs` 649-659), every time until it is gone from the pool.
  `docs/blockchain.md` 474 says candidates that were not taken are dropped when
  the block is final (未收录或无效候选在该 Block 终局时丢弃); a block of Node 1
  does that on Node 1, not on a peer that catches up.
- Node 1 restored from an older backup, as `docs/blockchain.md` 274 prescribes,
  makes second blocks at heights its peers have as final. They refuse to follow,
  and nothing brings them together again.
- The forfeited fifth of a proposal bond goes to the treasury in the command
  (`service.rs` 9426) and is burned in the replay (10171).
- The replicated validator vote does not look at `voting_ends_at`.
- A reward that arrives after a node with an empty Service Bond began to drain
  forms a bond that nothing returns (`service.rs` 12005).
- A committee larger than a lowered maximum shrinks only by exits.
- Nothing raises `validator_signature_rate_bps`, so no epoch pays the bonus.
- Catch-up drops history links of a FULL peer's accounts for the blocks it
  applies; `LedgerMatchesHistory` is therefore stated for Node 1.
- A value whose state root depends on the block time can never be proposed again,
  so no liveness is claimed for it.

## 10. Proved, checked, not modelled

Every theorem is checked by TLAPS from the named assumptions of the modules.

Induction over data is done with sets. `FiniteSums` states it once, as the
hypothesis `Induction`: a set of natural numbers with 0 and the successors of its
elements has all of them. From it follow, by applying it to the set of numbers
for which a formula holds, induction over finite sets (`SubsetInduction`), that
recursive functions on finite sets exist, and that `SumFunctionOnSet` is what its
name says: it takes an element more, a changed value, two disjoint sets, or a
regrouping by key. The modules with the theorems derive `Induction` from the
library's theorem on well-founded relations (`NaturalInduction`) at their end.
The recursive functions of `Governance` (search, plan, replay) are treated the
same way.

What stays with TLC:

- liveness under fairness (`HeightFinalized`, `StreamEnds`), which the prover
  does not support;
- the driver, whose passes are checked for that property alone;
- `TailOnDisk` after a block has rejected the settlements that closed a session;
- the properties of `RelaySession` that compare the hub with its two ends
  (`CountsAgree`, `BilledAsDelivered`, `PaidInFull`, `ReceiptsKept`): an inductive
  invariant has to describe the content of both queues in every phase of open,
  close and recovery;
- the properties of `nodes`: settlement, vesting and committee selection are
  folds over nodes, slots and tranches nested in each other, and a proof of
  `SupplyConserved` needs what each of them computes;
- the properties of `chain`, which need what replay, a fold over the pool, does to
  accounts and histories; of them the part that is about one transaction is
  proved in `StoreProofs`.

Partly modelled:

- Networks and members: funding, spending policy and revocation, on which
  payments depend. Creating a Network and issuing credentials add records that
  no modelled step reads.
- SDK stream: the key exchange and cipher counters are sequential and checked by
  the peer; the reservation is in `TrafficPayment`.
- Storage: accounts stand for all maps of the state, which are written by the
  same code. Row encodings, read-only queries and the account ranking are out.

Not modelled: RPC and relay client requests, CLI and member pipe, FFI and
explorer UI, which hold no protocol state; cryptography, whose signatures and
hashes are taken as unforgeable and collision-free; several sessions on one
Node; a connection whose frame does not decode, after which the code leaves the
route registered.
