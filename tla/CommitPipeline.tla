---------------------------- MODULE CommitPipeline ----------------------------
(***************************************************************************)
(* From one height to the next: on_block_committed of a node.  It composes *)
(* the epoch transition manager, the validator set and the engine's        *)
(* finality tracker, and adds what happens between commits: slashing,      *)
(* the operator's reinstatement of a validator, and restarts, of which the *)
(* validator set survives only in part and the queues not at all.          *)
(*                                                                         *)
(* on_block_committed is a sequence of steps (the transition has one per   *)
(* change); while block.step is not "none" nothing else is enabled.        *)
(***************************************************************************)
EXTENDS EpochTransition, FinalityTracker

CONSTANTS
  EPOCH_LENGTH,  \* blocks from one boundary to the next
  Requests,      \* the changes that transactions may ask for
  EquivocationRate, \* KL rate of an equivocator, in millibits (6643)
  DowntimeRates,    \* KL rates an operator's downtime slash may come to
  MaxHeight,     \* bound: blocks committed
  MaxChanges,    \* bound: changes queued since the last restart
  MaxFaults      \* bound: slashes, reinstatements and restarts

ASSUME PipelineAssumption ==
  /\ EPOCH_LENGTH \in Nat \ {0}
  /\ \A r \in Requests : r.kind \in Kinds /\ r.id \in Ids /\ r.stake \in Nat
  /\ EquivocationRate \in Nat /\ DowntimeRates \subseteq Nat

VARIABLES
  height,        \* the height the engine decides next
  epoch,         \* epoch of the last committed block
  committed_at,  \* committed heights whose finality is outstanding
  block,         \* the block on_block_committed is working on
  snapshot,      \* validator state saved after the last block
  enforce,       \* cross_epoch_churn_mode is "enforce"
  faults,
  replica        \* history: the validator set of a node that never restarted

nodeVars == <<height, epoch, committed_at, snapshot, enforce, faults>>
vars == <<epochVars, trackerVars, nodeVars, block, replica>>

\* set is history: the validator set the node had when the block came.
NoBlock == [step |-> "none", number |-> 0, epoch |-> 0, signers |-> {}, set |-> {}]

IsQuorum(vs, S) == S \subseteq ActiveIds(vs)
                   /\ SumStake(vs, S) * 3 > ActiveStake(vs) * 2

Quorums(vs) == {S \in SUBSET ActiveIds(vs) : IsQuorum(vs, S)}

IsEpochBoundary(h) == h > 0 /\ h % EPOCH_LENGTH = 0

Init ==
  /\ EpochInit /\ TrackerInit
  /\ height = 1 /\ epoch = 0
  /\ committed_at = {}
  /\ block = NoBlock
  /\ snapshot = validators
  /\ enforce \in BOOLEAN
  /\ faults = 0
  /\ replica = validators

-----------------------------------------------------------------------------
\* The head of on_block_committed, for a block that create_proposal built: its
\* epoch is the one after the last block's.  signers are those of its
\* certificate, {} if it has none; change is the stake or exit transaction of
\* the block, if it has one.
OnBlockCommitted(signers, hasChange, change) ==
  /\ block.step = "none"
  /\ height <= MaxHeight
  /\ committed_at' = committed_at \cup {height}
  /\ epoch' = epoch + 1
  /\ height' = height + 1
  /\ \/ hasChange /\ tags < MaxChanges
        /\ QueueChange(change.kind, change.id, change.stake, epoch + 1)
     \/ ~hasChange /\ UNCHANGED epochVars
  /\ block' = [step |-> IF IsEpochBoundary(height) THEN "boundary" ELSE "finality",
               number |-> height, epoch |-> epoch + 1, signers |-> signers,
               set |-> validators]
  /\ UNCHANGED <<trackerVars, snapshot, enforce, faults, replica>>

StartTransition ==
  /\ block.step = "boundary"
  /\ BeginTransition(block.epoch, enforce)
  /\ block' = [block EXCEPT !.step = "transition"]
  /\ UNCHANGED <<trackerVars, nodeVars, replica>>

RunTransition ==
  /\ block.step = "transition"
  /\ TransitionStep
  /\ block' = [block EXCEPT !.step = IF stage' = "idle" THEN "finality" ELSE @]
  /\ UNCHANGED <<trackerVars, nodeVars, replica>>

\* Certificate signers that are still in the set, jailed or not, against the
\* active stake of the set as it is after the transition.
SigningStake(signers) == SumStake(validators, signers \cap DOMAIN validators)

\* The tail: finality is recorded, the height leaves committed_at as soon as
\* the block has a certificate, and the node saves the validator state.
FinishCommit ==
  /\ block.step = "finality"
  /\ \/ /\ block.signers # {}
        /\ OnBlockFinalized(block.number, block.number, block.signers, Ids,
                            SigningStake(block.signers), ActiveStake(validators))
        /\ committed_at' = committed_at \ {block.number}
     \/ /\ block.signers = {}
        /\ UNCHANGED <<trackerVars, committed_at>>
  /\ snapshot' = validators
  /\ replica' = validators
  /\ block' = NoBlock
  /\ UNCHANGED <<epochVars, height, epoch, enforce, faults>>

-----------------------------------------------------------------------------
\* Mutant: the product of stake and rate is not capped.
SanovUncapped(stake, rate) == (stake * rate) \div 1000

\* sanov_slash: stake times the KL rate, capped at the stake (slash_with_amount
\* caps it once more).
SanovSlash(stake, rate) == Min({stake, (stake * rate) \div 1000})

Fault == block.step = "none" /\ faults < MaxFaults /\ faults' = faults + 1

\* slash_with_amount: who is left with less than MIN_STAKE is jailed, too.
SlashWithAmount(v, amount, jail) ==
  LET left == validators[v].stake - amount IN
  /\ validators' = [validators EXCEPT ![v] =
       [stake |-> left, jailed |-> @.jailed \/ jail \/ left < MIN_STAKE]]
  /\ replica' = validators'
  /\ UNCHANGED <<pending, result, tags, stage, work, trackerVars, height, epoch,
                 committed_at, snapshot, enforce, block>>

\* sanov_slash_equivocation, on evidence or by the operator: nothing happens to
\* a validator without stake.
SlashEquivocation(v) ==
  /\ Fault
  /\ v \in DOMAIN validators /\ validators[v].stake # 0
  /\ SlashWithAmount(v, SanovSlash(validators[v].stake, EquivocationRate), TRUE)

\* sanov_slash_downtime, by the operator for a number of missed blocks, three of
\* which jail; the engine's own limits of 500 and 1000 misses cost everything,
\* as equivocation does.
SlashDowntime(v, rate, jail) ==
  /\ Fault
  /\ v \in DOMAIN validators /\ SanovSlash(validators[v].stake, rate) # 0
  /\ SlashWithAmount(v, SanovSlash(validators[v].stake, rate), jail)

\* reinstate_validator: an absent validator is added, a jailed one freed.
Reinstate(v, stake) ==
  /\ Fault
  /\ v \in DOMAIN validators => validators[v].jailed
  /\ validators' = [u \in DOMAIN validators \cup {v} |->
                      IF u = v THEN [stake |-> stake, jailed |-> FALSE]
                      ELSE validators[u]]
  /\ replica' = validators'
  /\ UNCHANGED <<pending, result, tags, stage, work, trackerVars, height, epoch,
                 committed_at, snapshot, enforce, block>>

\* unjail_validator: frees a jailed validator that still has the minimum stake.
Unjail(v) ==
  /\ block.step = "none"
  /\ v \in DOMAIN validators /\ validators[v].jailed
  /\ validators[v].stake >= MIN_STAKE
  /\ validators' = [validators EXCEPT ![v].jailed = FALSE]
  /\ replica' = validators'
  /\ UNCHANGED <<pending, result, tags, stage, work, trackerVars, height, epoch,
                 committed_at, snapshot, enforce, block, faults>>

\* A restart rebuilds the set of genesis, then restore_validator_state copies
\* the saved stake and jail flag of each validator found in it.  Queues,
\* finality records and commit stamps are gone.
Restart ==
  /\ Fault
  /\ validators' = [v \in DOMAIN Genesis |->
                      IF v \in DOMAIN snapshot THEN snapshot[v]
                      ELSE [stake |-> Genesis[v], jailed |-> FALSE]]
  /\ pending' = {} /\ result' = [t \in {} |-> "applied"] /\ tags' = 0
  /\ stage' = "idle" /\ work' = NoWork
  /\ records' = [h \in {} |-> 0] /\ latest_finalized' = 0 /\ total_finalized' = 0
  /\ seen_proposals' = {} /\ superseded_floor' = 0 /\ ever' = {}
  /\ committed_at' = {}
  /\ UNCHANGED <<height, epoch, snapshot, enforce, block, replica>>

\* Governance switches cross_epoch_churn_mode.
SwitchChurnMode ==
  /\ Fault
  /\ enforce' = ~enforce
  /\ UNCHANGED <<epochVars, trackerVars, height, epoch, committed_at, snapshot,
                 block, replica>>

\* The certificate of a block the node decided itself is a quorum of its set; of
\* a synced block it may be less than that (the third of the sync fallback), one
\* of another set (this node restarted with a stale one), unverified (drained
\* from the queue while keys are unknown) or missing: any set of signers.
Next ==
  \/ \E S \in SUBSET Ids :
       \/ OnBlockCommitted(S, FALSE, NoBlock)
       \/ \E r \in Requests : OnBlockCommitted(S, TRUE, r)
  \/ StartTransition
  \/ RunTransition
  \/ FinishCommit
  \/ \E v \in Ids :
       \/ SlashEquivocation(v)
       \/ \E rate \in DowntimeRates, jail \in BOOLEAN : SlashDowntime(v, rate, jail)
       \/ Unjail(v)
  \/ \E v \in DOMAIN Genesis : Reinstate(v, Genesis[v])
  \/ Restart
  \/ SwitchChurnMode

Spec == Init /\ [][Next]_vars

-----------------------------------------------------------------------------
Changes == work.todo \cup pending

TypeOK ==
  /\ DOMAIN validators \subseteq Ids
  /\ \A v \in DOMAIN validators : validators[v].stake \in Nat
                                  /\ validators[v].jailed \in BOOLEAN
  /\ \A c \in Changes : c.kind \in Kinds /\ c.tag \in 1..tags
  /\ stage \in Kinds \cup {"idle"}
  /\ (stage = "idle") = (block.step # "transition")
  /\ committed_at \subseteq 1..(height - 1)

\* No change is lost and none is settled twice: what queue_change accepted
\* is waiting, at work or settled, and in one of these places only, however
\* often the churn limits sent it back to its queue (queue_change and
\* apply_epoch_transition).
NothingLost ==
  LET open == {c.tag : c \in Changes} IN
  /\ open \cup DOMAIN result = 1..tags
  /\ open \cap DOMAIN result = {}
  /\ Cardinality(open) = Cardinality(Changes)
  /\ work.todo \cap pending = {}

AfterTransition == block.step = "finality" /\ IsEpochBoundary(block.number)

\* A boundary changes no more members than a third, rounded up, of the
\* active validators it found, and takes the active validators to MIN_VALIDATORS at the lowest,
\* if they were not fewer before (apply_epoch_transition).
BoundaryLimits ==
  AfterTransition =>
    LET before == DOMAIN block.set
        after  == DOMAIN validators
        moved  == (before \ after) \cup (after \ before)
        limit  == Max({1, (ActiveCount(block.set) + 2) \div 3})
    IN /\ Cardinality(moved) <= limit
       /\ ActiveCount(validators) >=
            Min({MIN_VALIDATORS, ActiveCount(block.set)})

\* Cross-epoch agreement (rule C5): when the stake churn is enforced and
\* nobody is jailed, a quorum of the set before the boundary and a quorum of
\* the set after it share more than a quarter of the old stake, so that they
\* share a correct validator while less than a quarter is faulty.
BoundaryQuorumsMeet ==
  (AfterTransition /\ enforce /\ ActiveIds(block.set) = DOMAIN block.set) =>
    \A Q \in Quorums(block.set), R \in Quorums(validators) :
      4 * SumStake(block.set, Q \cap R) > ActiveStake(block.set)

\* A block is recorded as final only if more than five eighths of the stake of
\* the set it met signed it, whatever certificate it came with: the record is
\* made after the transition the block triggers, by the stake of the set that
\* comes out of it, but leaves, joins and stake updates of one boundary cannot
\* turn a smaller certificate into two thirds.  With the stake churn enforced,
\* nobody jailed and some stake (on_block_committed).
FinalIsBacked ==
  [][(/\ block.step = "finality" /\ block.number \in DOMAIN records'
      /\ enforce /\ ActiveIds(block.set) = DOMAIN block.set
      /\ ActiveStake(block.set) # 0)
     => 8 * SumStake(block.set, block.signers \cap DOMAIN block.set)
          > 5 * ActiveStake(block.set)]_vars

\* A committed height is either recorded as final or reported by
\* unfinalised_tail (committed_at); none disappears from both.
NoSilentGap ==
  [][(block.step = "finality")
     => block.number \in DOMAIN records' \cup committed_at']_vars

\* Every node that committed the same blocks and saw the same slashes has the
\* same validator set, whether it restarted in between or not.
ReplicasAgree == block.step = "none" => validators = replica
=============================================================================
