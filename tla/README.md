# A formal model of EvaporChain

EvaporChain is a blockchain node in Rust: a Tendermint-style consensus engine
decides one block per height, blocks are executed against a state whose objects
lose energy and evaporate, and a set of side systems (data availability,
sharding, bridges, oracles, encrypted mempool) hangs off the block pipeline.
This directory holds TLA+ modules that follow the code, TLC configurations that
check them on small instances, and theorems checked by TLAPS.

Paths below are relative to `src/crates/`; T stands for
`evaporchain-consensus/src/tendermint.rs`, M for `evaporchain-node/src/main.rs`.

## 1. Inventory

| Component | State it keeps | Operations | What makes it correct |
|---|---|---|---|
| Consensus engine (T) | round state (round, phase, held block, votes), lock, seen proposals, missed-proposal and missed-vote counters, DA attestations, drain flag | `tick`, `on_message`, `on_block_committed`, `apply_block`, `restore_state` | agreement, one vote per round, slashing only for cause, the DA gate, progress |
| Validator set (`evaporchain-consensus-types/src/lib.rs`) | stakes, jailed flags, health | leader election, slashing, key rotation | quorums meet, leaders are active and the same everywhere |
| Epoch transitions (`evaporchain-consensus/src/validator_set.rs`) | queued joins, leaves, stake updates | `queue_change`, `apply_epoch_transition` | churn bounds, minimum size, nothing lost |
| Finality tracker (`evaporchain-consensus/src/finality.rs`) | records, watermark, observed proposals | `observe_proposal`, `on_block_finalized`, pruning | a height is finalized once, with more than 2/3 |
| Node loop (M) | the channels between network, engine, executor and disk | 100 ms tick, message dispatch, sync application, restart | every action the engine returns is carried out |
| Block and state sync (M, `evaporchain-network/src/service.rs`, `evaporchain-consensus/src/state_sync.rs`, `evaporchain-node/src/sync.rs`) | pending blocks, `sync_in_flight`, requested ranges, snapshot download | request, serve, apply | only certified blocks, whole snapshots, the node keeps up |
| Write-ahead log (`evaporchain-state/src/wal.rs`) | file of begun and committed blocks | begin, commit, recover, compact | after a crash, exactly the begun and uncommitted blocks are found |
| Future block buffer (`evaporchain-network/src/future_block_buffer.rs`) | waiting blocks and their missing parents | offer, mark_seen, evict | released once, when the last parent is there |
| Cross-shard router (`evaporchain-sharding/src/cross_shard.rs`) | queues per shard, pending receipts | send, drain, acknowledge | every message is delivered or reported |
| Mempools (`evaporchain-consensus/src/*mempool.rs`) | queued transactions and their indices | submit, draw, give back, expire | the indices fit the queue, no transaction is lost |
| Evaporation (`evaporchain-state/src/evaporation.rs`, `refresh.rs`) | energy, grace periods, ghosts, MMR | create, refresh, sweep, resurrect | an object lives exactly as long as paid for, nodes agree |
| Parallel execution (`evaporchain-execution/src/parallel.rs`) | overlays, gas shares, stakes | partition, execute, merge, serial phase | equals the sequential order, creates nothing |
| DA certificates (`evaporchain-da/src`) | attestations, shards, retention | attest, certify, prune | certified data can be had |
| Oracle, bridges, light clients, paymaster, folding | see `PROJECT.json` | | |

The engine is a passive object behind a mutex. The node calls `tick` every
100 ms and `on_message` for every gossip message; both return actions
(broadcast, commit, request sync) that the node carries out. The hard parts are
the orders in which proposals, votes, attestations, timeouts, synced blocks and
restarts meet in one round state; the hazards are listed in `PROJECT.json`, each
at its line with the properties that would notice it.

## 2. Modules

* `Tendermint` is one height of the engine at all validators, with the parts of
  the node loop that belong to the same handler. It extends nothing of the
  project.
* `Decision` is what a height promises: every node decides at most once and all
  decide the same. `Tendermint` instantiates it as `D`; `ImplementsDecision`
  states the refinement.
* `TendermintSync` extends `Tendermint` with the scheduling of a good network,
  for liveness.
* `TendermintInvariant` states the inductive invariants of a height: `FaultInv`,
  with faulty validators, and `AgreementInv`, without.
* `EpochTransition` is the manager of validator-set changes, `FinalityTracker`
  the window of finality records; `CommitPipeline` extends both and is
  `on_block_committed` over several heights, with slashes, reinstatements and
  restarts in between.
* `StateSync` is the snapshot manager with its server; `BlockSync` extends it
  with the node's main loop and the network task for block requests.
* `FutureBlockBuffer` (which implements `CausalDelivery`), `CrossShard`, `Wal`,
  `Evaporation`, `ParallelExecutor` and `Mempool` are components on their own.
  `Collections` has the maps, sums and filters that they share.
* `SetLemmas`, `TendermintProofs`, `AgreementProofs`, `ByzantineProofs`,
  `PipelineProofs`, `DeliveryProofs`, `StateProofs` and `ExecutionProofs` hold
  the proofs (section 4).
* `MCTendermint`, `MCTendermintSync`, `MCPipeline` and `MCComponents` give
  stakes, draws, requests, transactions and bounds for TLC.

### State and actions of `Tendermint`

`rs[v]` is the `RoundState` of T:324; `lockedBlock`, `lockedRound`,
`proposalsSeen`, `missedProposals`, `missedVotes`, `daAttestations`,
`daProposer` and `draining` are the fields of `TendermintConsensus` of the same
names, as far as the current height goes. `jailed[v]` is the jailed flags of
v's *own* validator set: slashing is a local decision in this code. `committed`
and `cert` stand for the block store. `made`, `wraps` and `restarts` count what
the bounds limit. Messages of correct validators are kept in four sets forever,
so that loss, repetition and reordering need no actions of their own; messages
of faulty validators are always available.

`valid_block` and `valid_round` are written together with the lock and only
read for re-proposals of the locked block, so that the lock stands for them.

One call of `tick` is one of the `Tick...` actions, by phase and by the branch
taken; one delivery is one of the `On...` actions. What a handler does further
down is part of its action: a commit includes `on_block_committed` with its
reset of round state and locks, a proposal includes the node's eager attestation
(M:5533), whose result the node discards. Two branches that one tick may take in
a row are two actions where the second could as well come with the next tick
(dropping a mismatched block, then timing out).

Abstractions:

* A block is a producer and a serial number. Its contents are checked by the
  code before and after the equivocation check; blocks of correct validators
  pass (`OnProposal`), those of faulty ones may fail either check at any
  receiver (`OnProposalRejected`, `OnProposalInvalid`).
* Signatures hold: nobody speaks for a correct validator.
* Time is not modelled: a timeout may strike whenever its phase is on
  (`Tendermint`), or only when nothing else can happen (`TendermintSync`).
* No stake is delegated, so that the weights of votes and of leader election
  agree. `StakeOf` is an additive measure on sets of validators, which keeps
  recursion out of the module.
* A slash takes the whole stake of a validator and jails it, so that it drops
  out of every total.
* Execution of a committed block succeeds.
* A synced block comes from a correct peer with the certificate that peer stored,
  or from a faulty peer as any known block with any set of signers: the code
  checks the signatures over the height, round and hash that the certificate
  names (T:8005) and compares none of them with the block (T:6625 only warns), so
  that a certificate of an earlier height will do; and the drain of the queue
  (M:7034) passes a block without a certificate or with signers whose keys are
  unknown (`{}` in `SyncBlocks`).
* One height. What one height leaves to the next (jailings, counters,
  attestations) enters through `PriorMisses` only; the passage itself is
  `CommitPipeline`.

### The other modules

**`EpochTransition`, `CommitPipeline`.** `validators` is the validator set,
`pending` the three queues of the manager (each change carries its position and
a tag), `work` the locals of `apply_epoch_transition`. A call of
`on_block_committed` is a sequence of actions, one per loop iteration of the
transition (`BeginTransition`, `ApplyStakeUpdate`, `ApplyJoin`, `ApplyLeave`,
`NextStage`, `EndTransition`), between `OnBlockCommitted` and `FinishCommit`;
nothing else is enabled meanwhile, since the engine is locked. `enforce` is the
governance parameter of the churn mode. The churn count is ceil(0.33 n), the
stake budget a sixteenth of the stake of *all* members, jailed ones included, as
in the code. `replica` is the validator set of a node that never restarted. A
slash is `sanov_slash_equivocation` or `sanov_slash_downtime` with
`slash_with_amount`: the stake times a rate in millibits, capped at the stake.
The rate (a KL divergence) is a constant, 6643 for equivocation in a window of
100, which takes everything; an operator's downtime slash may take a part. A
block may come with any set of signers: those of a quorum of the node's own set
if the node decided it, anything for a synced block. BLS keys, delegation and
the emission of events are left out.

**`FinalityTracker`.** `records`, `latest_finalized`, `total_finalized`,
`seen_proposals` and `superseded_floor` are the fields of the code; `ever`
remembers what was ever recorded. The timestamp and the counts in a record are
left out.

**`StateSync`, `BlockSync`.** The peers share one chain of height `tip`. A block
is its height: what is valid is Tendermint's matter. The network task handles one
request at a time, clamps it to `MAX_SYNC_BATCH` and serves `[from, to)`;
`requests`, `sync_blocks` and `tips` are the channels. The main loop's branches
are `GossipAhead`, `GossipNext`, `ReceiveSyncBlocks` with the drain of
`pending_blocks`, `ReceiveTip`, `ReceiveConsensusMessage` and
`StateSyncMessage`. Peers keep their last three snapshots; a snapshot contains
the time, so that its first chunk differs from peer to peer (`Divergent`). A snapshot that
is put together is applied or refused (it does not deserialize or apply), and the
manager is dropped either way.

**`FutureBlockBuffer`.** `offer`, `mark_seen` and `evict_expired`; `mark_seen`
goes through hash sets, so that its frontier and its waiters are visited in any
order, one action per visit.

**`CrossShard`.** Messages carry an id, an energy and a destination. Both callers
are modelled: the executor, which drains and acknowledges its own shard in one
step, and the node's bridge, which does so in two.

**`Wal`.** The file is a sequence of entries, the last ones not yet synced. A
crash keeps the synced ones and any prefix of the rest, a last entry without its
marker byte or torn elsewhere included. The log is not wired into the node; its
caller (begin, commit, compact up to the last committed block, recover and
truncate after a crash) is external and follows the comments of the file.

**`Evaporation`.** `db[n]` is the state of node n. All nodes execute the same
block per epoch and then sweep, each in an order of its own, since
`all_object_ids` is the key order of a hash map. Energy is the integer formula
of `energy_at_epoch` with halving and a linear part, in `EnergyBits` bits (64 in
the code, 3 in the runs); a refresh saturates at the largest one.

**`ParallelExecutor`.** A block of transactions of ten kinds is split by
access keys, partitions run one step at a time in any order against overlays,
are merged, and the serial kinds follow. A transaction is a record of what the
checks look at; a signature holds or not. A `Blob` carries a nonce that no check
looks at (`NonceUnchecked`).

**`Mempool`.** `pool` is the queue with its four indices; `held` is the proposal
the round holds. `CreateProposal` draws by priority, filters by gas, trims by
size and gives back the rest, `ReturnProposal` is the part of `advance_round`
that gives the block's transactions back, `RoundSkip` and `CommitProposal`
replace the round state. `owed` and `discarded` are history.

## 3. Runs

All runs are exhaustive within their bounds, which are named in the MC modules
and the configurations. `CHECK_DEADLOCK FALSE` is right throughout: a height is
over when everybody has committed, and the other runs end at a bound.

| Run | Instance | Shows |
|---|---|---|
| `honest` | 3 correct validators, stakes 1, 3, 1, two rounds, leaders 1 then 3 | `TypeOK`, `DecisionIsFinal`, the inductive `AgreementInv`, refinement of `Decision` |
| `byzantine` | stakes 2, 3, 2; validator 3 faulty and leader of round 0, two rounds | `JailedForCause`, `NoSplitQuorum`, `PrecommitsGrounded`, `CertificatesAccepted` |
| `availability` | 3 validators, DA enforcement | `AttestedBeforeCommit` |
| `small_cluster` | 3 validators, small-cluster DA mode | `CommitPhaseDecided` |
| `operations` | restart and drain at any moment | `NoDoubleVote`, and the inductive `FaultInv`, with `JailedForCause`, for those that did not restart |
| `liveness` | 4 validators, one crashed and leader of rounds 0 and 1 | `EventuallyCommitted` |
| `epochs` | `CommitPipeline`: 4 validators, 5 heights, boundaries every 2, three changes, one fault | `NothingLost`, `BoundaryLimits`, `BoundaryQuorumsMeet`, `FinalIsBacked` |
| `sync` | `BlockSync`: peers at height 3 going to 4, batches of 2, a queue of 1, keys unknown at first | `FlagHasCause`, `KeepsUp` |
| `components` | `MCComponents`: each of eight components | the properties below |

`components` is a sum: the initial state chooses a component, and only its
actions are enabled, so that the state graph is the disjoint union of eight
graphs and an invariant is checked on its own component's part.

| Component | Instance | Properties |
|---|---|---|
| `FinalityTracker` | heights 1 to 5, two blocks each, a window of 2 | `RecordedOnce`, `WindowIsNewest`, `FinalityIsStable` |
| `FutureBlockBuffer` | 5 blocks that fork and join, capacity 3, expiry after a round | `IndexIsInverse`, `WaitsForUnseen`, `ImplementsCausalDelivery` |
| `CrossShard` | 2 shards, 4 messages, caps of 3 receipts and 2 queued | `MessagesAccounted`, `FreshestSurvive` |
| `StateSync` | 2 peers, 3 chunks of which 2 differ, two syncs | `SnapshotWhole` |
| `Wal` | 3 blocks, 2 crashes | `RecoveryExact` |
| `Evaporation` | 2 nodes, 2 objects, 8 epochs | `LifeIsExact`, `GhostsProvable`, `StateRootsAgree` |
| `ParallelExecutor` | blocks of up to 3 of 15 transactions, limit of 3 gas | `ParallelIsSequential`, `GasWithinLimit`, `SupplyNeverGrows`, `NonceUsedOnce` |
| `Mempool` | caps of 3, 4 heights, drawn, foreign and failed blocks | `PoolConsistent`, `NothingStranded` |

Bounds. Two rounds are the least in which a lock matters; three validators with
unequal stakes have quorums of two that differ, as four equal ones have, at a
fraction of the states; where a faulty validator or the exclusion of the
proposer matters, the stakes are chosen so that a quorum without it exists.
`NilVotes` bounds how often timeouts strike. `LeanDelivery` leaves a vote
undelivered unless it completes a quorum or causes a round-skip: a vote that
makes no quorum changes nothing else but the missing-vote counter, which is out
of play at its real limit. The limits of 500 and 1000 misses are the code's own.
In `byzantine`, `FaultyInFirst` keeps the faulty validator to round 0, the one it
leads and in which it may equivocate in every message, and `FewForged` has the
blocks that a faulty peer serves with a certificate of something else come to
validator 1 only: such a commit ends the height there, and what the properties
say concerns those that go on. The stakes let the faulty validator make a quorum
with validator 2, and make a quorum of 1 and 2 necessary once it is jailed.
`availability` and `small_cluster` have one round: the gate of a later round is
the subject of `MCAttested`. The epoch run has the least validators for which
the minimum of 3 and the churn limit both bind, and one stake within a sixteenth
of the total; `WideUntilFourth` lets everybody sign but for the block of the
second boundary, which may have no certificate, one of five eighths or one
without validator 1, and `OneOfTwins` lets validator 2 stand for
3, which has the same stake and is named by no request.
The caps of the other components are the smallest at which two evictions of
different kinds can meet. Five heights against a window of two reach a pruned
height, a back-fill above and one below the watermark; eight epochs at a
half-life and a grace of two hold a whole life with a refresh and a
resurrection; three transactions make two partitions and a serial phase.
`BeforeFailure` ends a run of `sync` at the first failed request, after which
nothing is promised (`MCSyncStuck`).

Fairness (`TendermintSync`). Weak fairness of each live validator's step: the
tick loop of M:4313 never stops and gossip reaches everyone that is up. Timeouts
strike only when no message is left to act on, and first at the validators
furthest behind: phases last equally long everywhere and seconds against a
gossip delay of milliseconds, and `set_timeouts_for_round` lengthens them round
by round. Without this assumption no protocol of this kind terminates.

Fairness (`BlockSync`). Weak fairness of the receipt of responses and tips (the
main loop selects among its channels for ever) and of `Respond` (libp2p answers
a request or reports a failure). Strong fairness of
`ReceiveConsensusMessage`: validators send votes at every height, so that a node
that is behind hears of it again and again, also if it was busy in between. The
growth of the chain, gossip, connections and keys have no fairness.

### Where code and documents disagree

Three runs end in a violation; `PROJECT.json` quotes the line each contradicts.

* `unlocked`: a prevote quorum for a block the validator does not hold makes it
  precommit without a lock (T:4653, T:5914). With one faulty validator of four,
  two blocks are committed, each with the precommits of a quorum
  (`CertifiedAgreement` looks at such commits only).
* `unverified`: synced blocks whose signers' keys are unknown are queued and then
  applied in the same turn by the drain loop, which does not verify them (M:7034).
* `unreachable`: a block with a `DeployTemplate` transaction reaches the
  `unreachable!` arm of the serial loop (`parallel.rs:2103`).

Further configurations are kept beside the runs. Each checks a property that a
line of the repository claims and ends in its violation
(`tlc -config MCWrap.cfg MCTendermint`). `MCClaims` checks six, each of which is
violated (`tlc -continue -workers 1 -config MCClaims.cfg MCComponents`, which
reports all six within minutes and may be stopped then).

| Configuration | Module | Property | What the line says, what the code does |
|---|---|---|---|
| `MCRestart` | `MCTendermint` | `Agreement` | "No two honest validators commit different blocks" (`research/tla/EvaporChainBFT.tla:13`); locks and votes are not persisted (T:3856) |
| `MCWrap` | `MCTendermint` | `JailedForCause` | the wrap to round 0 lets "the next proposer" propose "through normal Propose" (T:7620); `proposals_seen` still holds round 0, so its new block is equivocation (T:5550) |
| `MCLostCommit` | `MCTendermint` | `NoLostCommit` | "waiting for commit to be applied externally" (T:4893); the actions of the eager attestation are dropped (M:5543) |
| `MCAttested` | `MCTendermint` | `CommittedBlockAttested` | "2/3 supermajority of non-proposer stake is required" (T:1192); attestations count by height, not by data root (T:8136) |
| `MCStall` | `MCTendermintSync` | `EventuallyCommitted` | "tolerates f = (n-1)/3 failures" (T:7); the early return of the gate skips the timeout (T:4827) |
| `MCForgedSync` | `MCTendermint` | `CommittedBlockVoted` | "Require valid certificate — never apply unverified blocks" (M:6780), "no single isolated key can forge a cert through this path" (T:7974); a certificate's hash is never compared with the block (T:6625 only warns), and the queue drain applies a block without one (M:7034), so that a faulty peer has a block committed that nobody voted for |
| `MCReplica` | `MCPipeline` | `ReplicasAgree` | the validator state is "persisted from the last committed block" (M:3307); validators that joined or left are not restored |
| `MCSilentGap` | `MCPipeline` | `NoSilentGap` | "a stalled height stays in `committed_at`" (T:6709); it is popped whether or not the tracker accepted it, which it does not for a certificate below two thirds of the set after the transition |
| `MCOneShort` | `BlockSync` | `CatchesUp` | "`to` is exclusive" (`service.rs:1907`); the loop sends inclusive bounds (M:6652) |
| `MCSnapshotHeight` | `BlockSync` | `StateSyncEnds` | snapshots are "called every 100 blocks" (`sync.rs:52`); the manager asks for one at the tip and waits |
| `MCRollback` | `BlockSync` | `HeightNeverFalls` | "Height never decreases" (`audit_tests.rs:561`); a finished snapshot sets the height it was started for (M:5402) |
| `MCSyncStuck` | `BlockSync` | `FlagCleared` | "Always notify main task so sync_in_flight is cleared" (`service.rs:1976`); a failed request does not (`service.rs:1993`) |
| `MCWalTail` | `Wal` | `RecoveryExact` | the log recovers what was begun and not committed; without a truncation after every crash, entries behind a torn one are misread |
| `MCClaims` | `MCComponents` | `StakeBacked` | "the same transaction execution logic as `SimpleExecutor`" (`parallel.rs:569`); the partition executor debits a stake without a stake record |
| `MCClaims` | `MCComponents` | `NothingDiscarded` | "Return transactions from the uncommitted proposal back to the mempool" (T:7596); a round-skip and the commit of another block do not |
| `MCClaims` | `MCComponents` | `DrawnInNonceOrder` | "nonce-aware tie-break preserves per-sender sequencing" (`mempool.rs:464`); ranks differ by submission epoch, the newest first |
| `MCClaims` | `MCComponents` | `MmrAgrees` | evaporation proofs are global; positions follow the order of a hash map (`db.rs:593`) |
| `MCClaims` | `MCComponents` | `StorageAccounted` | the credit "mirrors the increment on CreateObject" (`evaporation.rs:205`); creation charges more than is credited |
| `MCClaims` | `MCComponents` | `DuplicateNoncesRejected` | "transactions with stale or duplicate nonces are rejected" (`research/whitepaper.md:1070`); a blob runs without a look at its nonce (`parallel.rs:1218`), so that the same signed one executes again |
| `MCRefreshEnergy` | `MCComponents` | `RefreshAddsToCurrent` | a refresh adds "to the NFT's current energy level" (`docs/nft-guide.md:105`); it adds to the energy of the last refresh |
| `MCScanLimit` | `MCComponents` | `LifeIsExact` | "Process all objects for the given epoch" (`evaporation.rs:48`); the list is truncated at a limit (line 83) |

Further observations without a configuration: the Proposal arm does not consult
the drain flag (T:5767); checkpoints are written and never reloaded; the comment
at M:3935 starts a state sync ">1000 blocks behind", the tip path at 50,000; a
chunk that is lost, or tips that disagree, are never asked for again; `set_height` leaves
parent hash, epoch and validator set as they were; an object may be created over
a ghost of the same id; a resurrected object loses its decay curve;
`Governance` and `MultiSig` transactions are said to execute in the serial phase
and do not; the fee of a `Refresh` is counted though nobody pays it; a committed
transaction stays in the pools of the other validators until it expires.

## 4. Proofs

TLAPS checks everything below for every value of the constants that the named
assumptions allow. Eight modules hold proofs; each theorem that states a
property of a run is listed in `PROJECT.json` with it.

| Module | About | Invariants and properties proved |
|---|---|---|
| `SetLemmas` | least elements, `Max` and `Min`, sums over finite sets, filters, maps | lemmas only |
| `TendermintProofs` | one height, anybody faulty | `TypeOK`; quorums meet; leaders are active |
| `AgreementProofs` | an undisturbed height | `AgreementInv`, `DecisionIsFinal`, `Agreement`, `ImplementsDecision`, `AttestedBeforeCommit` |
| `ByzantineProofs` | a height with faulty validators and restarts | `FaultInv`, `NoDoubleVote`, `JailedForCause`, `NoSplitQuorum`, `CommitPhaseDecided`, `PrecommitsGrounded`, `CertificatesAccepted` |
| `PipelineProofs` | finality tracker, epoch transitions, commits | `RecordedOnce`, `WindowIsNewest`, `FinalityIsStable`, `TypeOK`, `NothingLost`, `BoundaryLimits`, `BoundaryQuorumsMeet`, `FinalIsBacked` |
| `DeliveryProofs` | future block buffer, cross-shard router, block sync and state sync | `IndexIsInverse`, `WaitsForUnseen`, `ImplementsCausalDelivery`, `MessagesAccounted`, `FreshestSurvive`, `TypeOK`, `FlagHasCause`, `SnapshotWhole` |
| `StateProofs` | evaporation, write-ahead log | `GhostsProvable`, `StateRootsAgree`, `LifeIsExact`, `RecoveryExact` |
| `ExecutionProofs` | transaction pool, block executor | `PoolConsistent`, `NothingStranded`, `ParallelIsSequential`, `GasWithinLimit`, `SupplyNeverGrows`, `NonceUsedOnce` |

### One height

`TendermintProofs` works from `StakeAssumption` (stake is additive, everybody
has some). `ThreeQuorumsMeet` shows that any three quorums by the code's
threshold `floor(2T/3) + 1` have a validator in common; `LeaderIsActive` that
the draw of `leader_for_epoch` always falls into the share of some active
validator, so that its final fallback is never used. `TypeCorrect` proves
`TypeOK`, which is inductive by itself, with one lemma per shared step
(`SkipTo`, `EnterPrecommit`, `Commit`, `AdvanceRound`, `EagerAttestation`,
slashing) and one step per action.

`AgreementProofs` proves agreement of a height that nothing disturbs, with
draining and sync and in every DA setting. `Undisturbed` is the hypothesis of
its theorems: no faulty validator, no restart, no wrap to round 0, and counters
that start low enough for nobody to be jailed for absence within the height
(0 + 10 rounds against 500 and 1000 in the code). These are not conveniences:
the run `unlocked` and the configurations `MCRestart` and `MCWrap` show what
happens without the first three, and the last one keeps all validators counting
the same stake. In particular agreement with a faulty validator is not a theorem
of this code: `unlocked` refutes it even for commits that a quorum certifies, and
`MCForgedSync` shows a faulty peer serve what nobody voted for.

The usual invariant of Tendermint ("whoever precommits a block is locked on it")
does not hold here: a validator that sees a prevote quorum for a block it does
not hold precommits without a lock, and a draining one may even prevote the
block afterwards. `AgreementInv` therefore says less about single validators and
more about quorums:

* `RoundInv`: what a validator recorded was sent, what it sent in its round is on
  record, the block it holds was proposed in the round, in the prevote phase it
  holds what it prevoted, and its lock is older than the round or of a round in
  which it has prevoted;
* one vote per validator and round, one proposal per round, prevotes only for
  proposals, locks only on prevote quorums, nobody jailed;
* `PrecommitsSticky`: every precommit for a block is backed by a quorum of
  validators that prevoted the block in that round and that, once they have
  precommitted it, are bound by it (`Bound`): locked on it or on a later quorum,
  and never prevoting another block unless a later quorum came in between;
* `CommitsDecided`: a committed block has a precommit quorum.

There are four kinds of steps (`LocalStep`, `PrevoteStep`, `PrecommitStep`,
`CommitStep`), one lemma each; every action is reduced to them, and the
equivocation arms are shown to be unreachable. `QuorumIsFinal` then takes the
least later round with a prevote quorum for another block: the sticky quorum,
the precommit quorum and that prevote quorum meet in one validator, which is
bound, so that there was an earlier such round. `AttestedHolds` adds
`AttestationInv`: what validators stored as attestations was sent, and whom they
take for the proposer has proposed.

`ByzantineProofs` keeps what survives faulty validators. Its invariant
`FaultInv` is checked by the run `operations`, and passes on the instance of
`byzantine` too, in a longer run; it is inductive as long as nobody wraps to round 0 (`MaxWraps = 0`; `MCWrap` shows a correct leader slashed after
one). A correct validator that has not restarted knows what it sent
(`OwnVotesKnown`), which gives `NoDoubleVote` and one proposal per round;
whatever a correct validator has seen or recorded of another was sent, so that
equivocation is found only where there is some, which gives `JailedForCause`
once the counters of missed duties are out of reach (`LimitsAway`). Both hold
with any number of faulty validators and restarts. With less than a third of the
stake faulty and no restart (`FewFaulty`), only faulty validators are jailed, so
that two quorums share a correct validator although each observer counts the
stake by its own jailings (`CorrectOverlap`): `NoSplitQuorum` and
`CommitPhaseDecided` follow. So does `PrecommitsGrounded`: a quorum holds a correct
validator, and what is recorded of it was sent. For `CertificatesAccepted` let V be
all stake, F the faulty stake and c that of the correct signers of a certificate.
Whoever the validator that stored it has jailed is faulty, so that the quorum it
counted gives `3c > 2V - 3F` (`CorrectShare`), and `FewFaulty` makes that more
than V: the correct signers have over a third of all stake. Nobody jails them, so
that each counts them in full and its fallback accepts the certificate, even if
its own threshold does not. None of the four says anything of blocks that faulty
peers serve (`MCForgedSync`).

### Commits, epochs and finality

`TrackerInv` adds to `RecordedOnce` and `WindowIsNewest` that everything recorded
lies at or below `latest_finalized`. The two need each other: a height above the
watermark that is not in the window was never recorded, which is why the code's
two guards suffice. Heights start at 1 (`TrackerAssumption`); the guards of the
code do leave height 0 out.

`PipelineInv` is the invariant of `on_block_committed`: every change is in one
place and its tag is its own (`ChangesInv`), where the call is (`BlockInv`), the
number of members moved is at most what the transition counted (`LimitsInv`),
and nothing above the last block is on record (`WindowInv`). `ChurnInv` is about
stake: the set after a transition differs from the set before by some `up` and
`down` with `up + down` within the budget of a sixteenth, such that no subset
gained more than `up`. For a quorum Q of the old total T and a quorum R of the
new one, the common stake X (measured before) then satisfies
`3X > T - up - 2 down >= 7T/8`, which gives the quarter of
`BoundaryQuorumsMeet`. Its guards (churn enforced, nobody jailed) are part of
the property. `FinalIsBacked` is read off the same `ChurnInv`: signers with more
than two thirds of the new total `T + up - down` have, measured before, at least
their new stake less `up`, which comes to more than `5T/8` at every split of the
sixteenth.

### Delivery and sync

`BufferInv` describes the buffer in the middle of a cascade: what a block is
missing are its parents that were not delivered or whose delivery `mark_seen` has
not yet told it, and the reverse index is exact but for the entry that is being
visited. With it every step delivers nothing or one new block whose parents are
there, which is the refinement of `CausalDelivery`. `RouterInv` adds to the two
properties that a message is in one place and its id its own: a receipt names a
message by its id only.

`SyncInv` says that nobody reports a height the peers do not have, that ranges
are not inverted, and that a download has one snapshot at a time whose chunks all
have the origin of its metadata. `SyncAssumption` says that the bounds are
numbers.

### State and log

`GhostInv` says that every ghost points at the last leaf of its object; it needs
no hypothesis. `AgreeInv` and `LifeInv` need `ScanCoversAll`, that a sweep may
visit all objects (`DEFAULT_MAX_EVAP_SCAN` is 50,000); `MCScanLimit` shows that
`LifeIsExact` fails without it. `LifeInv` rests on `EnergyGone`: by the integer
formula of `energy_at_epoch`, with its halvings and linear part, energy is zero
exactly from `epochs_until_zero` on, for every energy of `EnergyBits` bits (64
in the code) and every half-life. `EnergyAssumption` says that deposits are
positive and of that width, as the transactions' checks demand, and
`EvaporationAssumption` that there are finitely many objects.

`LogInv` describes the log while the node is up (whole entries; the block begun is
the only one without a commit; what is being written is one entry, or the
rewritten file of `compact`) and after a crash (what `read_all_entries` finds in
any cut of the unsynced writes). `RecoveryExact` follows if the caller truncates
after every recovery (`AlwaysTruncates`); `MCWalTail` shows that it is needed.

### Pool and executor

`PoolInv` says that the pool is sound (`Sound`: no transaction twice in the queue;
`seen`, the byte count, the counts per account and the submission epochs are those
of the queue; the caps hold), that the round holds at most one proposal, and
`NothingStranded`. Each way into and out of the queue keeps it sound
(`FrontSound`, `BackSound`, `WithoutSound`, `GiveBackSound`, `AtEpochSound`).
`NothingStranded` rests on `Parted`: the projection, the gas filter and the size
limit of `create_proposal` each keep or drop every transaction. What was drawn
leaves room for itself (`LessAdmits`, `RoomAdmits`), so that `submit_priority`
admits all that `create_proposal` gives back, at every cap (`GiveBackAll`); the
draw by priority exists because the comparison is a strict order of distinct
hashes (`RankOrders`, `SortedExists`). `MempoolAssumption` says that hashes are
distinct and sizes, nonces and gas are natural numbers.

`ParallelIsSequential` compares the merged state with a fold over the block. The
proof describes the fold as a run `G`, the states after 0, 1, ... transactions
(`IsRun`, `RunExists`), and then shows

* that partitions split the block and use disjoint keys: `JoinedGroups` is one
  step of the union-find, `PartitionsAre` and `SplitOf` the result;
* that a turn reads and writes its declared keys only: an overlay that holds
  them takes the turn as the whole state would (`TurnLocal`), one that holds none
  of them is not concerned (`TurnFrame`). These two, kind by kind, are where
  `extract_access_keys` has to be right;
* that an overlay is at any time the state `G[n]` seen through the keys of its
  partition, for every `n` up to which the partition has been executed
  (`OnTrack`, a part of the invariant `Running` of the parallel stage);
* that of all overlays the one that holds a key has its last value, and that
  keys no overlay holds never change (`MergedRun`, `Untouched`).

The order of the threads does not occur in `OnTrack`, which is why it holds for
all of them. `GasWithinLimit` adds up the budgets (`SumBounded`: n shares of
`limit / n`); `SupplyNeverGrows` follows `Supply` through each effect
(`TurnSupply`) and each arm of the serial loop (`ExitArm`, `ClaimArm`,
`RefundArm`); `NonceUsedOnce` needs that what has executed has a nonce below its
sender's (`Finishing`), in the run and then in the serial stage, of every kind
that checks its nonce, which is all of those that have one but `Blob`. The gas schedule,
the fees, the deposit and the limits are arbitrary natural numbers, the state
before the first block is an arbitrary one (`ExecutorAssumption`).

### Techniques and limits

Recursive functions (`Selected`, `PowerOf2`, the folds over sets and sequences) are proved to
exist and to be unique by a least counterexample among the natural numbers, since
the induction theorems of the library take an operator. Actions that share a
shape share a lemma; the facts of data structures are separated from the
facts of steps.

Only model-checked: liveness (`EventuallyCommitted`, `KeepsUp`), since fairness
and `ENABLED` are out of the prover's reach. All other properties of the passing
runs are theorems.

## 5. Plan

1. What holds across restarts: `NoSplitQuorum` and `CommitPhaseDecided` are proved
   for heights without one.
2. The transaction kinds that `ParallelExecutor` leaves out (contracts, key
   rotation, deferred transactions), with the access keys they declare: the
   proof of `ParallelIsSequential` needs of a kind only that a turn reads and
   writes its keys (`EffectLocal`, `EffectFrame`).
3. The encrypted mempool, and the worker thread of the proof folding.

## 6. Not modelled

The repository has some 470,000 lines of Rust, most of them outside the parts
that can go wrong in ways a model checker finds. Left out, and why:

* request handling, formatting and queries: the HTTP APIs of node and consensus,
  the command line, the wallet, dashboards (over 70,000 lines);
* an uncompiled copy of the engine in `evaporchain-consensus-types`, and the
  in-file tests, about half of the large files;
* cryptography (signatures, accumulators, proofs, circuits, encryption): a
  signature holds or does not;
* numeric models: decay curves, caliber and entropy scores, oracle averages,
  fee controllers, auction formulas, which are floating-point or wide-integer
  computations without concurrency;
* interpreters of contracts and scripts, and the libraries of single formulas
  under `crates/` that the node does not call or calls as pure functions;
* inside modelled components: key rotation, health scores, delegated stake,
  Block-STM (the node runs `parallel.rs`), the follower mode, privacy
  transactions, rent and rewards.
