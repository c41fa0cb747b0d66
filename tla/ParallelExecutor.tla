--------------------------- MODULE ParallelExecutor ---------------------------
(***************************************************************************)
(* The block executor of a validator.  Transactions that touch common      *)
(* state are put into one partition; each partition runs on a thread of    *)
(* its own against an overlay, a copy of the state its transactions        *)
(* declare.  The overlays are merged back, and then the transactions of    *)
(* the serial kinds run against the state itself.                          *)
(* Fees are on.  Contract, script, privacy, deferred and key-rotation      *)
(* transactions, the mint of the all-zero sender, slashed stakes, and what *)
(* follows the transactions of a block (rewards, rent, demurrage) are left *)
(* out; the evaporation sweep is in Evaporation.                           *)
(***************************************************************************)
EXTENDS Integers, Sequences, FiniteSets, SequencesExt, Collections

CONSTANTS
  Txs,                       \* records [kind, from, to, amount, nonce, id, signed]
  Accounts,
  ObjIds,
  StakeIds,
  GenesisDb,                 \* [accounts, objects, ghosts, stakes]
  Gas,                       \* kind -> gas
  ExtraFee,                  \* kind -> creation deposit or refresh fee
  base_fee,
  block_gas_limit,
  MIN_STORAGE_DEPOSIT,
  UNBONDING_EPOCHS,
  MaxBlockTxs,               \* bound on the transactions of a block
  MaxBlocks                  \* bound on the blocks of a run

\* Kinds the parallel stage admits but never executes: they pay and fail.
NeverExecuted == {"Governance"}
SerialKinds == {"ValidatorExit", "ValidatorClaimStake", "Refund", "DeployTemplate"}
Kinds == {"Transfer", "CreateObject", "Refresh", "ValidatorStake", "Blob"} \cup NeverExecuted \cup SerialKinds

\* Transaction::nonce: the kinds that carry one, and those of them that the
\* executor runs without looking at it.
NonceKinds == Kinds \ {"CreateObject", "Refresh", "Refund"}
NonceUnchecked == {"Blob"}

\* The StateDB: maps of accounts, objects with their energy, ghosts and stakes.
IsMap(f, K, V) == DOMAIN f \subseteq K /\ f \in [DOMAIN f -> V]
IsStateDb(d) ==
  /\ d = [accounts |-> d.accounts, objects |-> d.objects, ghosts |-> d.ghosts, stakes |-> d.stakes]
  /\ IsMap(d.accounts, Accounts, [balance : Nat, nonce : Nat, deposit : Nat])
  /\ IsMap(d.objects, ObjIds, Nat) /\ IsMap(d.ghosts, ObjIds, BOOLEAN)
  /\ IsMap(d.stakes, StakeIds, [owner : Accounts, amount : Nat, unbonding : Nat])

ASSUME ExecutorAssumption ==
  /\ Accounts \cap ObjIds = {} /\ IsFiniteSet(Accounts) /\ IsFiniteSet(StakeIds)
  /\ IsStateDb(GenesisDb) /\ block_gas_limit \in Nat \ {0}
  /\ {base_fee, MIN_STORAGE_DEPOSIT, UNBONDING_EPOCHS, MaxBlockTxs} \subseteq Nat
  /\ Gas \in [Kinds -> Nat] /\ ExtraFee \in [Kinds -> Nat]
  /\ \A tx \in Txs :
       /\ tx.kind \in Kinds /\ {tx.amount, tx.nonce} \subseteq Nat /\ tx.signed \in BOOLEAN
       /\ tx.kind # "Refresh" => tx.from \in Accounts
       /\ tx.kind \in {"Transfer", "Refund"} => tx.to \in Accounts
       /\ tx.kind \in {"CreateObject", "Refresh"} => tx.id \in ObjIds

VARIABLES
  state,       \* the StateDB
  block,       \* the transactions of the block being executed
  stage,       \* "idle", "parallel", "serial", "panic"
  parts,       \* first index of a partition -> [group, todo, overlay, budget, gas_used, fees]
  serial,      \* block indices the serial stage still has to execute
  outcomes,    \* block index -> whether the transaction succeeded
  totals,      \* [gas, fees] of the block
  number,      \* blocks executed, the block's epoch
  parent       \* history: the state before the block

executorVars == <<state, block, stage, parts, serial, outcomes, totals, number, parent>>

ExecutorInit ==
  /\ state = GenesisDb /\ parent = GenesisDb
  /\ block = <<>> /\ stage = "idle" /\ parts = <<>> /\ serial = {}
  /\ outcomes = <<>> /\ totals = [gas |-> 0, fees |-> 0] /\ number = 0

-----------------------------------------------------------------------------
\* Transaction::sender: a refresh has none.
Sender(tx) == IF tx.kind = "Refresh" THEN {} ELSE {tx.from}

SenderKeys(tx) == Sender(tx) \cup (IF tx.kind \in {"CreateObject", "Refresh"} THEN {tx.id} ELSE {})

\* extract_access_keys
AccessKeys(tx) ==
  CASE tx.kind \in {"Transfer", "Refund"} -> {tx.from, tx.to}
    [] tx.kind = "CreateObject" -> {tx.from, tx.id}
    [] tx.kind = "Refresh" -> {tx.id}
    [] OTHER -> {tx.from}

\* partition_transactions: one after the other, a transaction joins the
\* partitions that use one of its keys.
Joined(groups, txs, i) ==
  LET shared == {g \in groups : \E j \in g : AccessKeys(txs[j]) \cap AccessKeys(txs[i]) # {}}
  IN (groups \ shared) \cup {(UNION shared) \cup {i}}

Partitions(txs) ==
  FoldLeftDomain(LAMBDA groups, i : IF txs[i].kind \in SerialKinds THEN groups
                                    ELSE Joined(groups, txs, i), {}, txs)

KeysOf(txs, g) == UNION {AccessKeys(txs[i]) : i \in g}

\* OverlayStateDB::populate_from.  A ghost maps to TRUE; to FALSE once removed.
Populated(d, keys) ==
  LET only(f) == [x \in DOMAIN f \cap keys |-> f[x]]
  IN [accounts |-> only(d.accounts), objects |-> only(d.objects), ghosts |-> only(d.ghosts)]

\* Gas budget: divided evenly, so that the total cannot exceed the limit.
WholeLimit(partitions) == block_gas_limit
PerPartitionGas(partitions) ==
  block_gas_limit \div (IF partitions = 0 THEN 1 ELSE partitions)

-----------------------------------------------------------------------------
\* get_or_create_account
Account(s, a) ==
  IF a \in DOMAIN s.accounts THEN s.accounts[a] ELSE [balance |-> 0, nonce |-> 0, deposit |-> 0]

Store(s, a, acct) == [s EXCEPT !.accounts = With(@, a, acct)]

Fee(tx) == base_fee * Gas[tx.kind] + ExtraFee[tx.kind]

\* What the sender is left with once the fee is taken.
Charged(s, tx) ==
  IF Sender(tx) = {} THEN s
  ELSE Store(s, tx.from, [Account(s, tx.from) EXCEPT !.balance = @ - Fee(tx)])

CanPay(s, tx) == Sender(tx) = {} \/ Account(s, tx.from).balance >= Fee(tx)

\* The checks of exec_transfer, exec_create_object, exec_refresh and
\* exec_validator_stake; none of them fails after a change it has made.
Executes(s, tx) ==
  LET sender == Account(s, tx.from) IN
  CASE tx.kind = "Transfer" ->
         tx.from # tx.to /\ tx.amount > 0 /\ sender.nonce = tx.nonce /\ sender.balance >= tx.amount
    [] tx.kind = "CreateObject" ->
         tx.id \notin DOMAIN s.objects /\ sender.balance >= MIN_STORAGE_DEPOSIT
    [] tx.kind = "Refresh" ->
         /\ tx.amount > 0
         /\ tx.id \in DOMAIN s.objects \/ (tx.id \in DOMAIN s.ghosts /\ s.ghosts[tx.id])
    [] tx.kind = "ValidatorStake" ->
         tx.amount > 0 /\ sender.nonce = tx.nonce /\ sender.balance >= tx.amount
    [] tx.kind = "Blob" -> tx.amount > 0
    [] tx.kind \in NeverExecuted -> FALSE

StakeKeepsNonce(acct, tx) == [acct EXCEPT !.balance = @ - tx.amount]
Debited(acct, tx) == [acct EXCEPT !.balance = @ - tx.amount, !.nonce = @ + 1]

Effect(s, tx) ==
  LET sender == Account(s, tx.from)
      receiver == Account(s, tx.to)
  IN CASE tx.kind = "Transfer" ->
            Store(Store(s, tx.from, Debited(sender, tx)),
                  tx.to, [receiver EXCEPT !.balance = @ + tx.amount])
       [] tx.kind = "CreateObject" ->
            [Store(s, tx.from, [sender EXCEPT !.balance = @ - MIN_STORAGE_DEPOSIT,
                                              !.deposit = @ + MIN_STORAGE_DEPOSIT])
             EXCEPT !.objects = With(@, tx.id, tx.amount)]
       [] tx.kind = "Refresh" /\ tx.id \in DOMAIN s.objects ->
            [s EXCEPT !.objects[tx.id] = @ + tx.amount]
       [] tx.kind = "Refresh" /\ tx.id \notin DOMAIN s.objects ->
            [s EXCEPT !.objects = With(@, tx.id, tx.amount), !.ghosts[tx.id] = FALSE]
       [] tx.kind = "ValidatorStake" -> Store(s, tx.from, Debited(sender, tx))
       [] tx.kind = "Blob" -> s

\* One turn of the loop of execute_partition.
Turn(s, tx, budget) ==
  LET gas == Gas[tx.kind]
      result(st, left, ok, used, fee) ==
        [overlay |-> st, budget |-> left, ok |-> ok, gas |-> used, fee |-> fee]
  IN CASE ~tx.signed \/ budget < gas -> result(s, budget, FALSE, 0, 0)
       [] tx.signed /\ budget >= gas /\ ~CanPay(s, tx) ->
            result(Store(s, tx.from, Account(s, tx.from)), budget, FALSE, 0, 0)
       [] OTHER ->
            LET paid == Charged(s, tx) IN
            IF Executes(paid, tx)
            THEN result(Effect(paid, tx), budget - gas, TRUE, gas, Fee(tx))
            ELSE result(paid, budget, FALSE, 0, Fee(tx))

-----------------------------------------------------------------------------
\* execute_block, phases 1 to 3.
StartBlock(txs) ==
  /\ stage = "idle" /\ number < MaxBlocks
  /\ LET groups == Partitions(txs)
         part(g) == [group |-> g, todo |-> g, overlay |-> Populated(state, KeysOf(txs, g)),
                     budget |-> PerPartitionGas(Cardinality(groups)), gas_used |-> 0, fees |-> 0]
     IN /\ parts' = [p \in {Min(g) : g \in groups} |-> part(CHOOSE g \in groups : p \in g)]
        /\ serial' = DOMAIN txs \ UNION groups
  /\ block' = txs /\ stage' = "parallel" /\ parent' = state
  /\ outcomes' = <<>> /\ totals' = [gas |-> 0, fees |-> 0] /\ number' = number + 1
  /\ UNCHANGED state

\* The partition after the turn of its transaction i.
Taken(part, i, r) ==
  [part EXCEPT !.todo = @ \ {i}, !.overlay = r.overlay, !.budget = r.budget,
               !.gas_used = @ + r.gas, !.fees = @ + r.fee]

\* Phase 4: the thread of a partition takes its next transaction.
ExecutePartition(p) ==
  /\ stage = "parallel" /\ p \in DOMAIN parts /\ parts[p].todo # {}
  /\ LET part == parts[p]
         i == Min(part.todo)
         r == Turn(part.overlay, block[i], part.budget)
     IN /\ parts' = [parts EXCEPT ![p] = Taken(part, i, r)]
        /\ outcomes' = With(outcomes, i, r.ok)
  /\ UNCHANGED <<state, block, stage, serial, totals, number, parent>>

\* merge_overlay, for the partitions in the order of their first transactions:
\* of two overlays that hold a key the later one stays.
Merged(map, overlays) ==
  LET holders(x) == {p \in DOMAIN overlays : x \in DOMAIN overlays[p]}
  IN [x \in DOMAIN map \cup UNION {DOMAIN overlays[p] : p \in DOMAIN overlays} |->
        IF holders(x) = {} THEN map[x] ELSE overlays[Max(holders(x))][x]]

\* Phase 5, when every thread has ended.
MergeOverlays ==
  /\ stage = "parallel" /\ \A p \in DOMAIN parts : parts[p].todo = {}
  /\ state' = [state EXCEPT
       !.accounts = Merged(@, [p \in DOMAIN parts |-> parts[p].overlay.accounts]),
       !.objects = Merged(@, [p \in DOMAIN parts |-> parts[p].overlay.objects]),
       !.ghosts = Merged(@, [p \in DOMAIN parts |-> parts[p].overlay.ghosts])]
  /\ totals' = [gas |-> totals.gas + SumOver([p \in DOMAIN parts |-> parts[p].gas_used], DOMAIN parts),
                fees |-> totals.fees + SumOver([p \in DOMAIN parts |-> parts[p].fees], DOMAIN parts)]
  /\ stage' = "serial"
  /\ UNCHANGED <<block, parts, serial, outcomes, number, parent>>

-----------------------------------------------------------------------------
\* Phase 6: the arms of the serial loop, on the state after the fee.
Outcome(ok, d) == [ok |-> ok, state |-> d]

\* The nonce is used up even when the stake record is refused.
ValidatorExit(d, tx) ==
  LET acct == Account(d, tx.from)
      next == Store(d, tx.from, [acct EXCEPT !.nonce = @ + 1])
      exits == /\ tx.id \in DOMAIN d.stakes /\ d.stakes[tx.id].owner = tx.from
               /\ d.stakes[tx.id].unbonding = 0
  IN IF acct.nonce # tx.nonce THEN Outcome(FALSE, d)
     ELSE IF ~exits THEN Outcome(FALSE, next)
     ELSE Outcome(TRUE, [next EXCEPT !.stakes[tx.id].unbonding = number + UNBONDING_EPOCHS])

AllStakes(stakes, id) == stakes
WithoutStake(stakes, id) == Less(stakes, {id})

ValidatorClaimStake(d, tx) ==
  LET acct == Account(d, tx.from)
      claims == /\ tx.id \in DOMAIN d.stakes /\ d.stakes[tx.id].owner = tx.from
                /\ d.stakes[tx.id].unbonding \in 1..number
                /\ acct.nonce = tx.nonce
  IN IF ~claims THEN Outcome(FALSE, d)
     ELSE Outcome(TRUE, [Store(d, tx.from, [acct EXCEPT !.balance = @ + d.stakes[tx.id].amount,
                                                        !.nonce = @ + 1])
                         EXCEPT !.stakes = WithoutStake(@, tx.id)])

Refund(d, tx) ==
  LET acct == Account(d, tx.from)
      victim == Account(d, tx.to)
  IN IF tx.from = tx.to \/ tx.amount = 0 \/ acct.balance < tx.amount THEN Outcome(FALSE, d)
     ELSE Outcome(TRUE, Store(Store(d, tx.from, [acct EXCEPT !.balance = @ - tx.amount]),
                              tx.to, [victim EXCEPT !.balance = @ + tx.amount]))

SerialArm(d, tx) ==
  CASE tx.kind = "ValidatorExit" -> ValidatorExit(d, tx)
    [] tx.kind = "ValidatorClaimStake" -> ValidatorClaimStake(d, tx)
    [] tx.kind = "Refund" -> Refund(d, tx)

SerialDone(ok) ==
  /\ serial' = serial \ {Min(serial)} /\ outcomes' = With(outcomes, Min(serial), ok)
  /\ UNCHANGED <<block, stage, parts, number, parent>>

OverLimit(tx) == totals.gas + Gas[tx.kind] > block_gas_limit

SerialRefused ==
  /\ stage = "serial" /\ serial # {}
  /\ LET tx == block[Min(serial)] IN
       \/ (~tx.signed \/ OverLimit(tx)) /\ UNCHANGED <<state, totals>>
       \/ /\ tx.signed /\ ~OverLimit(tx) /\ ~CanPay(state, tx)
          /\ state' = Store(state, tx.from, Account(state, tx.from)) /\ UNCHANGED totals
  /\ SerialDone(FALSE)

\* No revert when an arm fails: the sender still pays.
SerialExecuted ==
  /\ stage = "serial" /\ serial # {}
  /\ LET tx == block[Min(serial)] IN
       /\ tx.signed /\ ~OverLimit(tx) /\ CanPay(state, tx) /\ tx.kind # "DeployTemplate"
       /\ LET r == SerialArm(Charged(state, tx), tx) IN
            /\ state' = r.state
            /\ totals' = [gas |-> totals.gas + (IF r.ok THEN Gas[tx.kind] ELSE 0),
                          fees |-> totals.fees + Fee(tx)]
            /\ SerialDone(r.ok)

\* The serial pool takes this kind in but the loop has no arm for it.
SerialUnreachable ==
  /\ stage = "serial" /\ serial # {}
  /\ LET tx == block[Min(serial)] IN
       /\ tx.signed /\ ~OverLimit(tx) /\ CanPay(state, tx) /\ tx.kind = "DeployTemplate"
       /\ state' = Charged(state, tx)
  /\ stage' = "panic"
  /\ UNCHANGED <<block, parts, serial, outcomes, totals, number, parent>>

EndBlock ==
  /\ stage = "serial" /\ serial = {}
  /\ stage' = "idle"
  /\ UNCHANGED <<state, block, parts, serial, outcomes, totals, number, parent>>

ExecutorNext ==
  \/ \E txs \in BoundedSeq(Txs, MaxBlockTxs) : StartBlock(txs)
  \/ \E p \in 1..MaxBlockTxs : ExecutePartition(p)
  \/ MergeOverlays
  \/ SerialRefused \/ SerialExecuted \/ SerialUnreachable
  \/ EndBlock

ExecutorSpec == ExecutorInit /\ [][ExecutorNext]_executorVars

-----------------------------------------------------------------------------
\* The reference: the transactions of the parallel pool one after the other,
\* in block order, on the whole state.  The budget is the partition's.
Sequentially(txs, d, groups) ==
  LET home(i) == CHOOSE p \in DOMAIN groups : i \in groups[p]
      step(acc, i) ==
        LET r == Turn(acc.state, txs[i], acc.budget[home(i)])
        IN IF txs[i].kind \in SerialKinds THEN acc
           ELSE [state |-> r.overlay, budget |-> [acc.budget EXCEPT ![home(i)] = r.budget],
                 ok |-> With(acc.ok, i, r.ok)]
  IN FoldLeftDomain(step, [state |-> d, ok |-> <<>>,
                           budget |-> [p \in DOMAIN groups |->
                                         PerPartitionGas(Cardinality(DOMAIN groups))]], txs)

Sequential == Sequentially(block, parent, [p \in DOMAIN parts |-> parts[p].group])

\* Whatever order the threads of the partitions ran in, the merged state and
\* the outcomes are those of executing the transactions one by one in block
\* order: the declared access keys cover everything a transaction touches.
ParallelIsSequential ==
  (stage = "serial" /\ DOMAIN outcomes = UNION {parts[p].group : p \in DOMAIN parts})
    => /\ state = Sequential.state
       /\ outcomes = Sequential.ok

\* Gas of the block: the budgets of the partitions and the serial stage
\* together never use more than the limit of a block.
GasWithinLimit == stage # "parallel" => totals.gas <= block_gas_limit

Supply(d) ==
  SumOver([a \in DOMAIN d.accounts |-> d.accounts[a].balance + d.accounts[a].deposit],
          DOMAIN d.accounts)
    + SumOver([v \in DOMAIN d.stakes |-> d.stakes[v].amount], DOMAIN d.stakes)

\* Executing transactions creates no token: what accounts hold, have on
\* deposit and have staked never exceeds what was there before the block.
SupplyNeverGrows == Supply(state) <= Supply(parent)

\* No two transactions of these kinds, of one sender and with one nonce, succeed
\* in a block.
OncePerNonce(kinds) ==
  \A i, j \in DOMAIN outcomes :
    /\ outcomes[i] /\ outcomes[j] /\ i # j
    /\ {block[i].kind, block[j].kind} \subseteq kinds
    => <<block[i].from, block[i].nonce>> # <<block[j].from, block[j].nonce>>

\* A nonce of a sender serves at most one executed transaction in a block,
\* whether the kinds run on partitions or in the serial stage.  Blobs are not
\* covered: they carry a nonce that nothing checks (see DuplicateNoncesRejected).
NonceUsedOnce == OncePerNonce(NonceKinds \ NonceUnchecked)

\* The claim of the whitepaper for every kind that carries a nonce
\* ("transactions with stale or duplicate nonces are rejected",
\* research/whitepaper.md line 1070).
DuplicateNoncesRejected == OncePerNonce(NonceKinds)

\* The assertion of the serial loop: only kinds it has an arm for get there.
NoPanic == stage # "panic"

\* What a stake transaction takes from the sender's balance is held by a
\* stake record, as in the sequential executor, so that it can be claimed.
StakeBacked ==
  stage = "idle" =>
    MapThenSumSet(LAMBDA v : state.stakes[v].amount, DOMAIN state.stakes)
      >= MapThenSumSet(LAMBDA i : block[i].amount,
                       {i \in DOMAIN outcomes : outcomes[i] /\ block[i].kind = "ValidatorStake"})
           + MapThenSumSet(LAMBDA v : parent.stakes[v].amount, DOMAIN parent.stakes)
           - MapThenSumSet(LAMBDA i : parent.stakes[block[i].id].amount,
                           {i \in DOMAIN outcomes : outcomes[i] /\ block[i].kind = "ValidatorClaimStake"})
=============================================================================
