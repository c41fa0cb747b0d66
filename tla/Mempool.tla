-------------------------------- MODULE Mempool --------------------------------
(***************************************************************************)
(* The transaction pool of one validator, and what the engine does with it:*)
(* transactions are submitted by the API (to the front) and the network (to*)
(* the back), the proposer drains the pool into a block, and the block of a*)
(* round that fails gives its transactions back.  The transactions are ones*)
(* that pass the checks of their kind, size and signature.  Which proposal *)
(* a height ends with is Tendermint's matter: here it may be any.          *)
(***************************************************************************)
EXTENDS Integers, Sequences, FiniteSets, SequencesExt, Collections

CONSTANTS
  PoolTxs,              \* records [hash, sender, nonce, size, gas]; sender 0: none
  MAX_MEMPOOL_SIZE,
  MAX_MEMPOOL_BYTES,
  MAX_TXS_PER_ACCOUNT,
  MAX_TX_AGE_EPOCHS,
  MAX_TXS_PER_BLOCK,
  GasLimit,             \* block_gas_limit of the executor
  MAX_BLOCK_SIZE_BYTES,
  AntichainModes,       \* governance may set block_source_mode to "antichain" or not
  ForeignBlocks,        \* blocks other validators may propose
  MaxPoolHeight         \* bound on the heights of a run

ASSUME MempoolAssumption ==
  /\ \A tx \in PoolTxs : {tx.hash, tx.sender, tx.nonce, tx.size, tx.gas} \subseteq Nat
  /\ \A tx, other \in PoolTxs : tx.hash = other.hash => tx = other
  /\ {MAX_MEMPOOL_SIZE, MAX_MEMPOOL_BYTES, MAX_TXS_PER_ACCOUNT, MAX_TXS_PER_BLOCK} \subseteq Nat
  /\ AntichainModes \subseteq BOOLEAN
  /\ ForeignBlocks \subseteq Seq(PoolTxs)

VARIABLES
  pool,        \* [pending, seen, total_bytes, account_tx_count, tx_submit_epoch, current_epoch]
  held,        \* {} or the proposed_block of the round
  poolHeight,
  owed,        \* history: admitted, and since then neither included nor expired
  discarded    \* history: owed, but dropped with a block or refused at a cap

poolVars == <<pool, held, poolHeight, owed, discarded>>

None == [x \in {} |-> 0]

MempoolInit ==
  /\ pool = [pending |-> <<>>, seen |-> {}, total_bytes |-> 0, account_tx_count |-> None,
             tx_submit_epoch |-> None, current_epoch |-> 0]
  /\ held = {} /\ poolHeight = 1 /\ owed = {} /\ discarded = {}

-----------------------------------------------------------------------------
CountOf(p, a) == IF a \in DOMAIN p.account_tx_count THEN p.account_tx_count[a] ELSE 0

\* validate_submission
Admits(p, tx) ==
  /\ tx \notin p.seen
  /\ Len(p.pending) < MAX_MEMPOOL_SIZE
  /\ p.total_bytes + tx.size <= MAX_MEMPOOL_BYTES
  /\ tx.sender # 0 => CountOf(p, tx.sender) < MAX_TXS_PER_ACCOUNT

\* submit and submit_priority, once the transaction is admitted.
Admitted(p, tx, pending) ==
  [p EXCEPT !.pending = pending, !.seen = @ \cup {tx}, !.total_bytes = @ + tx.size,
            !.account_tx_count = IF tx.sender = 0 THEN @
                                 ELSE With(@, tx.sender, CountOf(p, tx.sender) + 1),
            !.tx_submit_epoch = With(@, tx, p.current_epoch)]

AtFront(p, tx) == IF Admits(p, tx) THEN Admitted(p, tx, <<tx>> \o p.pending) ELSE p
AtBack(p, tx) == IF Admits(p, tx) THEN Admitted(p, tx, Append(p.pending, tx)) ELSE p

Bytes(pending) == SumOver([tx \in Range(pending) |-> tx.size], Range(pending))

\* track_account_remove and the other indices, for a set of transactions.
CountsKept(p, gone, a) == CountOf(p, a)
CountsLeft(p, gone, a) == CountOf(p, a) - Cardinality({tx \in gone : tx.sender = a})

WithoutTxs(p, gone, pending) ==
  [p EXCEPT !.pending = pending, !.seen = @ \ gone, !.total_bytes = Bytes(pending),
            !.tx_submit_epoch = Less(@, gone),
            !.account_tx_count =
              [a \in {b \in DOMAIN @ : CountsLeft(p, gone, b) > 0} |-> CountsLeft(p, gone, a)]]

\* set_epoch and evict_expired
Expired(p, epoch) ==
  {tx \in p.seen : epoch >= MAX_TX_AGE_EPOCHS
                   /\ p.tx_submit_epoch[tx] < epoch - MAX_TX_AGE_EPOCHS}
AtEpoch(p, epoch) ==
  LET gone == Expired(p, epoch)
  IN [WithoutTxs(p, gone, Selected(p.pending, {i \in DOMAIN p.pending : p.pending[i] \notin gone}))
      EXCEPT !.current_epoch = epoch]

-----------------------------------------------------------------------------
\* take_with_priority_sum_and_hints: the inclusion priority falls with every
\* block since the submission; ties by sender, nonce, hash.
Elapsed(p, tx, height) ==
  LET submit == p.tx_submit_epoch[tx] IN IF submit < height THEN height - submit ELSE 0
Rank(p, tx, height) ==
  <<Elapsed(p, tx, height), IF tx.sender = 0 THEN 255 ELSE tx.sender, tx.nonce, tx.hash>>
Before(r, s) == \E i \in DOMAIN r : r[i] < s[i] /\ \A j \in 1..(i - 1) : r[j] = s[j]

ByPriority(p, height) ==
  CHOOSE order \in SetToSeqs(Range(p.pending)) :
    \A i, j \in DOMAIN order :
      i < j => Before(Rank(p, order[i], height), Rank(p, order[j], height))

\* antichain_project: of each sender only the first.
Projected(txs) ==
  LET first == {i \in DOMAIN txs :
                  \A j \in 1..(i - 1) : txs[i].sender = 0 \/ txs[j].sender # txs[i].sender}
  IN [kept |-> Selected(txs, first), dropped |-> Selected(txs, DOMAIN txs \ first)]

\* The gas filter of create_proposal.
Filtered(txs) ==
  FoldLeft(LAMBDA acc, tx :
             IF acc.gas + tx.gas > GasLimit
             THEN [acc EXCEPT !.dropped = Append(@, tx)]
             ELSE [acc EXCEPT !.kept = Append(@, tx), !.gas = @ + tx.gas],
           [kept |-> <<>>, dropped |-> <<>>, gas |-> 0], txs)

\* The size limit: transactions are cut off the end, down to one.
Trimmed(txs) ==
  LET fits == {n \in 1..Len(txs) : Bytes(SubSeq(txs, 1, n)) <= MAX_BLOCK_SIZE_BYTES}
      n    == IF txs = <<>> THEN 0 ELSE Max(fits \cup {1})
  IN [kept |-> SubSeq(txs, 1, n), dropped |-> Reverse(SubSeq(txs, n + 1, Len(txs)))]

\* Transactions go back one by one through submit_priority.
GiveUp(p, txs) == p
GiveBack(p, txs) == FoldLeft(AtFront, p, txs)

-----------------------------------------------------------------------------
Submit(tx, submitted) ==
  /\ Admits(pool, tx)
  /\ pool' = submitted
  /\ owed' = owed \cup {tx} /\ discarded' = discarded \ {tx}
  /\ UNCHANGED <<held, poolHeight>>

\* create_proposal: drain, project, filter by gas, trim, and give
\* back what is left out.
CreateProposal(antichain) ==
  /\ held = {}
  /\ LET order    == ByPriority(pool, poolHeight)
         count    == IF Len(order) < MAX_TXS_PER_BLOCK THEN Len(order) ELSE MAX_TXS_PER_BLOCK
         drawn    == SubSeq(order, 1, count)
         drained  == WithoutTxs(pool, Range(drawn), SubSeq(order, count + 1, Len(order)))
         project  == IF antichain THEN Projected(drawn) ELSE [kept |-> drawn, dropped |-> <<>>]
         filter   == Filtered(project.kept)
         trim     == Trimmed(filter.kept)
     IN /\ pool' = GiveBack(drained, project.dropped \o filter.dropped \o trim.dropped)
        /\ held' = {trim.kept}
  /\ UNCHANGED <<poolHeight, owed, discarded>>

\* A valid proposal replaces the block of the round.
ReceiveProposal(block) ==
  /\ held = {} /\ held' = {block}
  /\ UNCHANGED <<pool, poolHeight, owed, discarded>>

Held == UNION {Range(block) : block \in held}

\* advance_round, and a precommit quorum for another block: the transactions
\* return in their order; at a cap they are refused.
ReturnProposal ==
  /\ \E block \in held : pool' = GiveBack(pool, Reverse(block))
  /\ held' = {}
  /\ discarded' = discarded \cup {tx \in (Held \cap owed) \ pool'.seen : ~Admits(pool', tx)}
  /\ UNCHANGED <<poolHeight, owed>>

\* Round-skip: a message of a later round replaces the round state as it is.
RoundSkip ==
  /\ held # {} /\ held' = {}
  /\ discarded' = discarded \cup ((Held \cap owed) \ pool.seen)
  /\ UNCHANGED <<pool, poolHeight, owed>>

\* on_block_committed, for the block held or for one that was synced.
CommitProposal(block) ==
  /\ poolHeight < MaxPoolHeight
  /\ pool' = AtEpoch(pool, poolHeight)
  /\ poolHeight' = poolHeight + 1
  /\ owed' = (owed \ Range(block)) \ Expired(pool, poolHeight)
  /\ discarded' = (discarded \cup (Held \ pool'.seen)) \cap owed'
  /\ held' = {}

MempoolNext ==
  \/ \E tx \in PoolTxs : Submit(tx, AtFront(pool, tx)) \/ Submit(tx, AtBack(pool, tx))
  \/ \E antichain \in AntichainModes : CreateProposal(antichain)
  \/ \E block \in ForeignBlocks : ReceiveProposal(block)
  \/ ReturnProposal
  \/ RoundSkip
  \/ \E block \in held \cup ForeignBlocks : CommitProposal(block)

MempoolSpec == MempoolInit /\ [][MempoolNext]_poolVars

-----------------------------------------------------------------------------
\* The indices agree with the queue they describe and the caps hold, whatever
\* was submitted, drained, given back and evicted in between.
PoolConsistent ==
  /\ pool.seen = Range(pool.pending) /\ Cardinality(pool.seen) = Len(pool.pending)
  /\ DOMAIN pool.tx_submit_epoch = pool.seen
  /\ pool.total_bytes = Bytes(pool.pending)
  /\ \A a \in {tx.sender : tx \in PoolTxs} \ {0} :
       CountOf(pool, a) = Cardinality({tx \in pool.seen : tx.sender = a})
  /\ Len(pool.pending) <= MAX_MEMPOOL_SIZE /\ pool.total_bytes <= MAX_MEMPOOL_BYTES

\* A transaction that was admitted, and is neither included nor expired, is in
\* the pool or in the block of the round: what a proposal draws and leaves out,
\* and what the block of a failed round held, is given back.  Exceptions are a
\* round-skip, the commit of another block, and a pool that filled meanwhile.
NothingStranded == owed \subseteq pool.seen \cup Held \cup discarded

\* ... and there is no exception ("Return transactions from the uncommitted
\* proposal back to the mempool so they can be included in a future proposal",
\* tendermint.rs lines 7596-7597).
NothingDiscarded == discarded = {}

\* A sender's transactions are drawn in the order of their nonces ("nonce-aware
\* tie-break preserves per-sender sequencing", mempool.rs lines 463-464).
DrawnInNonceOrder ==
  LET order == ByPriority(pool, poolHeight) IN
  \A i, j \in DOMAIN order :
    i < j /\ order[i].sender = order[j].sender /\ order[i].sender # 0
      => order[i].nonce <= order[j].nonce
=============================================================================
