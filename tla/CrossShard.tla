------------------------------ MODULE CrossShard ------------------------------
(***************************************************************************)
(* The cross-shard router: messages queued per destination shard, and the  *)
(* messages whose receipt is outstanding.  Both are capped and evicted     *)
(* independently of each other, the oldest first.  The executor of a shard *)
(* drains and acknowledges the messages for its own shard in one step; the *)
(* node's bridge drains and acknowledges in separate calls, so a receipt   *)
(* may come late, twice or never.                                          *)
(***************************************************************************)
EXTENDS Integers, Sequences, FiniteSets, FiniteSetsExt

CONSTANTS
  Shards, OwnShard,       \* shard ids; the shard of the executor
  MessageEnergies,        \* target_energy of a message
  MAX_PENDING_RECEIPTS,
  MAX_PER_SHARD_QUEUE,
  MaxId                   \* bound on the ids, far below the saturation of u64

ASSUME RouterAssumption ==
  /\ OwnShard \in Shards
  /\ MAX_PENDING_RECEIPTS \in Nat \ {0} /\ MAX_PER_SHARD_QUEUE \in Nat \ {0}

VARIABLES
  queues,            \* shard -> the messages queued for it
  pending_receipts,  \* ids of the messages whose receipt is outstanding
  next_id,
  delivered,         \* history: the messages drained, in order
  dropped            \* history: the messages evicted from a queue

routerVars == <<queues, pending_receipts, next_id, delivered, dropped>>

RouterInit ==
  /\ queues = [s \in Shards |-> <<>>]
  /\ pending_receipts = {}
  /\ next_id = 0
  /\ delivered = <<>>
  /\ dropped = {}

\* At its cap the queue gives way at the front, pending_receipts at the least id.
EvictNewest(queue) == SubSeq(queue, 1, Len(queue) - 1)
EvictFront(queue) == Tail(queue)
OutstandingKept(outstanding) ==
  IF Cardinality(outstanding) >= MAX_PENDING_RECEIPTS
  THEN outstanding \ {Min(outstanding)} ELSE outstanding

Send(to, energy) ==
  /\ next_id < MaxId
  /\ LET msg  == [id |-> next_id, to_shard |-> to, target_energy |-> energy]
         full == Len(queues[to]) >= MAX_PER_SHARD_QUEUE
         kept == IF full THEN EvictFront(queues[to]) ELSE queues[to]
     IN /\ pending_receipts' = OutstandingKept(pending_receipts) \cup {msg.id}
        /\ queues' = [queues EXCEPT ![to] = Append(kept, msg)]
        /\ dropped' = dropped \cup (Range(queues[to]) \ Range(kept))
  /\ next_id' = next_id + 1
  /\ UNCHANGED delivered

\* drain_for_shard: a stable sort by energy, the highest first.
Drained(shard) ==
  LET queue == queues[shard]
      before(m, n) == \/ m.target_energy > n.target_energy
                      \/ m.target_energy = n.target_energy /\ m.id < n.id
  IN {order \in [DOMAIN queue -> Range(queue)] :
        /\ Range(order) = Range(queue)
        /\ \A i, j \in DOMAIN queue : i < j => before(order[i], order[j])}

DrainForShardCopy(shard) ==
  /\ queues[shard] # <<>> /\ next_id < MaxId
  /\ \E order \in Drained(shard) : delivered' = delivered \o order
  /\ UNCHANGED <<queues, next_id, dropped>>
DrainForShard(shard) ==
  /\ queues[shard] # <<>>
  /\ \E order \in Drained(shard) : delivered' = delivered \o order
  /\ queues' = [queues EXCEPT ![shard] = <<>>]
  /\ UNCHANGED <<next_id, dropped>>

\* The end of execute_block: drain the own shard and acknowledge each message.
ExecuteBlockEnd ==
  /\ DrainForShard(OwnShard)
  /\ pending_receipts' = pending_receipts \ {m.id : m \in Range(queues[OwnShard])}

\* The bridge's drain_shard and acknowledge.
DrainShard(shard) == DrainForShard(shard) /\ UNCHANGED pending_receipts

Acknowledge(id) ==
  /\ id \in {m.id : m \in Range(delivered)}
  /\ pending_receipts' = pending_receipts \ {id}
  /\ UNCHANGED <<queues, next_id, delivered, dropped>>

RouterNext ==
  \/ \E to \in Shards, energy \in MessageEnergies : Send(to, energy)
  \/ ExecuteBlockEnd
  \/ \E shard \in Shards : DrainShard(shard)
  \/ \E id \in 0..(MaxId - 1) : Acknowledge(id)

RouterSpec == RouterInit /\ [][RouterNext]_routerVars

-----------------------------------------------------------------------------
Queued == UNION {Range(queues[s]) : s \in Shards}

\* Every message sent is in one place and there once: still queued, drained, or
\* dropped at the cap of its queue; and each queue is in the order of sending.
MessagesAccounted ==
  /\ {m.id : m \in Queued \cup Range(delivered) \cup dropped} = 0..(next_id - 1)
  /\ Cardinality(Queued) + Len(delivered) + Cardinality(dropped) = next_id
  /\ \A s \in Shards : \A i, j \in DOMAIN queues[s] :
       i < j => queues[s][i].id < queues[s][j].id

\* At the caps the freshest survive, as the comments of send say: a queued
\* message is younger than every message dropped for its shard, and an
\* outstanding receipt than every undelivered message that is not tracked.
FreshestSurvive ==
  /\ \A m \in Queued, d \in dropped : m.to_shard = d.to_shard => d.id < m.id
  /\ \A m \in Queued \cup dropped :
       m.id \notin pending_receipts => \A id \in pending_receipts : m.id < id
  /\ Cardinality(pending_receipts) <= MAX_PENDING_RECEIPTS
=============================================================================
