---------------------------- MODULE MCComponents ----------------------------
(***************************************************************************)
(* The components that are used on their own, each a small instance of its *)
(* module: a run exercises the one its initial state chooses and leaves    *)
(* the others as they are, so the state graph is the sum of theirs.        *)
(***************************************************************************)
EXTENDS FinalityTracker, FutureBlockBuffer, CrossShard, StateSync, Wal,
        Evaporation, ParallelExecutor, Mempool

CONSTANTS SnapshotTip, SnapshotStarts   \* bounds on the chain and the state syncs

VARIABLES
  component,
  starts       \* state syncs started

\* Two layers of forks that join: 4 waits for 2 and 3, 5 for 1 and 4.
ForkAndJoin == <<{}, {1}, {1}, {2, 3}, {1, 4}>>

-----------------------------------------------------------------------------
\* Blocks for the executor.
Tx(kind, from, to, amount, nonce, id) ==
  [kind |-> kind, from |-> from, to |-> to, amount |-> amount, nonce |-> nonce,
   id |-> id, signed |-> TRUE]

\* Transfers in a chain, two with one nonce, both kinds of refresh, a sender
\* that does not exist yet, a transaction that is not signed, and the stakes.
MixedTxs ==
  {Tx("Transfer", "a1", "a2", 2, 0, "-"), Tx("Transfer", "a1", "a3", 3, 1, "-"),
   Tx("Transfer", "a2", "a3", 1, 0, "-"), Tx("Transfer", "a3", "a1", 1, 0, "-"),
   [Tx("Transfer", "a2", "a1", 1, 0, "-") EXCEPT !.signed = FALSE],
   Tx("CreateObject", "a2", "-", 1, 0, "o1"), Tx("Refresh", "-", "-", 2, 0, "o1"),
   Tx("Refresh", "-", "-", 2, 0, "o2"), Tx("ValidatorStake", "a1", "-", 2, 0, "v1"),
   Tx("ValidatorExit", "a1", "-", 0, 0, "v1"), Tx("ValidatorClaimStake", "a2", "-", 0, 0, "v2"),
   Tx("Refund", "a1", "a2", 1, 0, "-"), Tx("Blob", "a2", "-", 1, 0, "-"),
   Tx("Governance", "a2", "-", 0, 0, "-"), Tx("DeployTemplate", "a1", "-", 0, 0, "-")}

Holder(balance) == [balance |-> balance, nonce |-> 0, deposit |-> 0]
Stake(owner, unbonding) == [owner |-> owner, amount |-> 2, unbonding |-> unbonding]

SmallLedger ==
  [accounts |-> "a1" :> Holder(6) @@ "a2" :> Holder(3),
   objects  |-> [id \in {} |-> 0],
   ghosts   |-> "o2" :> TRUE,
   stakes   |-> "v1" :> Stake("a1", 0) @@ "v2" :> Stake("a2", 1)]

UnitGas == [k \in Kinds |-> IF k = "ValidatorStake" THEN 2 ELSE 1]
ObjectFees == [k \in Kinds |-> IF k \in {"CreateObject", "Refresh"} THEN 1 ELSE 0]

-----------------------------------------------------------------------------
\* Transactions for the pool: a sender with two, another, and one without a
\* sender; and a block of somebody else, with one the pool may hold too.
PoolTx(hash, sender, nonce, size, gas) ==
  [hash |-> hash, sender |-> sender, nonce |-> nonce, size |-> size, gas |-> gas]
FewTxs ==
  {PoolTx(1, 1, 0, 1, 1), PoolTx(2, 1, 1, 1, 2), PoolTx(3, 2, 0, 2, 1), PoolTx(4, 0, 0, 1, 1)}
OthersBlock == {<<PoolTx(3, 2, 0, 2, 1)>>}

-----------------------------------------------------------------------------
\* A node that starts state syncs while its peers' chain grows.
StateSyncInit == height = 0 /\ tip = SNAPSHOT_INTERVAL /\ ManagerInit

PeersGrow ==
  /\ tip < SnapshotTip /\ tip' = tip + 1
  /\ UNCHANGED <<height, managerVars, asks, answers, applied, starts>>

Start ==
  /\ phase = "none" /\ height < tip /\ starts < SnapshotStarts
  /\ StartStateSync /\ starts' = starts + 1
  /\ UNCHANGED <<height, tip>>

StateSyncNext ==
  \/ PeersGrow \/ Start
  \/ (\E ask \in asks : PeerAnswers(ask)) /\ UNCHANGED starts
  \/ (\E answer \in answers :
        \/ OnTipResponse(answer) \/ OnSnapshotMetadata(answer)
        \/ OnChunkMismatch(answer) \/ OnChunk(answer) \/ OnLastChunk(answer)) /\ UNCHANGED starts

-----------------------------------------------------------------------------
syncVars == <<stateSyncVars, starts>>
vars == <<trackerVars, bufferVars, routerVars, syncVars, walVars, evaporationVars,
          executorVars, poolVars, component>>

Init ==
  /\ component \in {"finality", "buffer", "router", "state sync", "wal",
                    "evaporation", "executor", "mempool"}
  /\ TrackerInit /\ BufferInit /\ RouterInit /\ StateSyncInit /\ starts = 0
  /\ WalInit /\ EvaporationInit /\ ExecutorInit /\ MempoolInit

Next ==
  \/ /\ component = "finality" /\ TrackerNext
     /\ UNCHANGED <<component, bufferVars, routerVars, syncVars, walVars, evaporationVars, executorVars, poolVars>>
  \/ /\ component = "buffer" /\ BufferNext
     /\ UNCHANGED <<component, trackerVars, routerVars, syncVars, walVars, evaporationVars, executorVars, poolVars>>
  \/ /\ component = "router" /\ RouterNext
     /\ UNCHANGED <<component, trackerVars, bufferVars, syncVars, walVars, evaporationVars, executorVars, poolVars>>
  \/ /\ component = "state sync" /\ StateSyncNext
     /\ UNCHANGED <<component, trackerVars, bufferVars, routerVars, walVars, evaporationVars, executorVars, poolVars>>
  \/ /\ component = "wal" /\ WalNext
     /\ UNCHANGED <<component, trackerVars, bufferVars, routerVars, syncVars, evaporationVars, executorVars, poolVars>>
  \/ /\ component = "evaporation" /\ EvaporationNext
     /\ UNCHANGED <<component, trackerVars, bufferVars, routerVars, syncVars, walVars, executorVars, poolVars>>
  \/ /\ component = "executor" /\ ExecutorNext
     /\ UNCHANGED <<component, trackerVars, bufferVars, routerVars, syncVars, walVars, evaporationVars, poolVars>>
  \/ /\ component = "mempool" /\ MempoolNext
     /\ UNCHANGED <<component, trackerVars, bufferVars, routerVars, syncVars, walVars, evaporationVars, executorVars>>

Spec == Init /\ [][Next]_vars
=============================================================================
