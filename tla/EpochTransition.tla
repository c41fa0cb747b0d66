--------------------------- MODULE EpochTransition ---------------------------
(***************************************************************************)
(* The epoch transition manager: validators ask to join, to leave or to    *)
(* change their stake, and the changes that are due are applied to the     *)
(* validator set when a block at an epoch boundary is committed, as far as *)
(* the churn limits of that boundary allow.                                *)
(*                                                                         *)
(* A Rust Vec of pending changes is a set of changes that carry their      *)
(* position.  apply_epoch_transition is a sequence of steps, one per       *)
(* change: from BeginTransition until the last stage is over nothing else  *)
(* is enabled, because the engine is locked.                               *)
(***************************************************************************)
EXTENDS Integers, FiniteSets, FiniteSetsExt

CONSTANTS
  Ids,               \* validator ids
  Genesis,           \* stake of each validator of the first set
  MIN_STAKE,
  MIN_VALIDATORS,
  BONDING_PERIOD_EPOCHS,
  UNBONDING_PERIOD_EPOCHS,
  STAKE_UPDATE_DELAY_EPOCHS

ASSUME GenesisAssumption ==
  /\ DOMAIN Genesis \subseteq Ids /\ IsFiniteSet(DOMAIN Genesis)
  /\ Genesis \in [DOMAIN Genesis -> Nat]
ASSUME LimitsAssumption ==
  /\ MIN_STAKE \in Nat /\ MIN_VALIDATORS \in Nat \ {0}
  /\ {BONDING_PERIOD_EPOCHS, UNBONDING_PERIOD_EPOCHS,
      STAKE_UPDATE_DELAY_EPOCHS} \subseteq Nat

VARIABLES
  validators,  \* the validator set: id -> [stake, jailed]
  pending,     \* the three queues of the manager
  result,      \* outcome of every change that is settled, by its tag
  tags,        \* number of changes queued so far
  stage,       \* "idle", or the loop of apply_epoch_transition that runs
  work         \* the locals of apply_epoch_transition

epochVars == <<validators, pending, result, tags, stage, work>>

Kinds == {"update", "join", "leave"}

\* The drained, due changes of the running loop are work.todo.
NoWork == [epoch |-> 0, enforce |-> FALSE, maxChurn |-> 0, changes |-> 0,
           budget |-> 0, churned |-> 0, todo |-> {}]

Member(vs) == DOMAIN vs
ActiveIds(vs) == {v \in DOMAIN vs : ~vs[v].jailed}
ActiveCount(vs) == Cardinality(ActiveIds(vs))
StakeOfId(vs, v) == IF v \in DOMAIN vs THEN vs[v].stake ELSE 0
SumStake(vs, S) == MapThenSumSet(LAMBDA v : vs[v].stake, S)

\* total_stake of the set: validators that are not jailed.
ActiveStake(vs) == SumStake(vs, ActiveIds(vs))

\* ceil(0.33 * n), and at least one change.
MaxChurn(n) == LET c == (33 * n + 99) \div 100 IN IF c < 1 THEN 1 ELSE c

\* One sixteenth of the stake of the whole set, jailed validators included.
StakeBudget(vs) == SumStake(vs, DOMAIN vs) \div 16

AbsDiff(a, b) == IF a < b THEN b - a ELSE a - b

-----------------------------------------------------------------------------
Delay(kind) == CASE kind = "join"   -> BONDING_PERIOD_EPOCHS
                 [] kind = "leave"  -> UNBONDING_PERIOD_EPOCHS
                 [] kind = "update" -> STAKE_UPDATE_DELAY_EPOCHS

Behind(queue) == 1 + Max({c.pos : c \in queue} \cup {0})

EpochInit ==
  /\ validators = [v \in DOMAIN Genesis |-> [stake |-> Genesis[v], jailed |-> FALSE]]
  /\ pending = {}
  /\ result = [t \in {} |-> "applied"]
  /\ tags = 0
  /\ stage = "idle"
  /\ work = NoWork

\* queue_change: at the end of its queue, due after the delay of its kind.
QueueChange(kind, v, stake, epoch) ==
  /\ pending' = pending \cup
       {[kind |-> kind, tag |-> tags + 1, id |-> v, stake |-> stake,
         due |-> epoch + Delay(kind), pos |-> Behind(pending)]}
  /\ tags' = tags + 1
  /\ UNCHANGED <<validators, result, stage, work>>

RequeueDropped(c) ==
  /\ work' = [work EXCEPT !.todo = @ \ {c}]
  /\ UNCHANGED <<validators, pending, result, tags, stage>>

\* A change the churn limits do not admit goes back to the end of its queue
\* and is due at the next boundary.
Requeue(c) ==
  /\ pending' = pending \cup
       {[c EXCEPT !.due = work.epoch + 1, !.pos = Behind(pending)]}
  /\ work' = [work EXCEPT !.todo = @ \ {c}]
  /\ UNCHANGED <<validators, result, tags, stage>>

Settle(c, outcome) ==
  result' = [t \in DOMAIN result \cup {c.tag} |->
               IF t = c.tag THEN outcome ELSE result[t]]

Reject(c) ==
  /\ Settle(c, "rejected")
  /\ work' = [work EXCEPT !.todo = @ \ {c}]
  /\ UNCHANGED <<validators, pending, tags, stage>>

Apply(c, vs, changes, churn) ==
  /\ validators' = vs
  /\ Settle(c, "applied")
  /\ work' = [work EXCEPT !.todo = @ \ {c}, !.changes = @ + changes,
                          !.churned = @ + churn]
  /\ UNCHANGED <<pending, tags, stage>>

First(c) == c \in work.todo /\ \A d \in work.todo : c.pos <= d.pos

OverBudget(churn) == work.enforce /\ work.churned + churn > work.budget

-----------------------------------------------------------------------------
\* The changes of a kind that are due: drained, the others stay queued.
\* Stake updates wait only under enforcement.
Due(kind, w) ==
  {c \in pending : c.kind = kind
                   /\ (c.due <= w.epoch \/ (kind = "update" /\ ~w.enforce))}

EnterStage(s, w) ==
  /\ stage' = s
  /\ pending' = pending \ Due(s, w)
  /\ work' = [w EXCEPT !.todo = Due(s, w)]
  /\ UNCHANGED <<validators, result, tags>>

BeginTransitionObserve(epoch, enforce) ==
  /\ stage = "idle"
  /\ EnterStage("update",
       [NoWork EXCEPT !.epoch = epoch,
                      !.maxChurn = MaxChurn(ActiveCount(validators)),
                      !.budget = StakeBudget(validators)])

\* The head of apply_epoch_transition: the limits of this boundary, taken
\* from the set as it is before any change.  enforce is the governance
\* parameter cross_epoch_churn_mode at this moment.
BeginTransition(epoch, enforce) ==
  /\ stage = "idle"
  /\ EnterStage("update",
       [NoWork EXCEPT !.epoch = epoch, !.enforce = enforce,
                      !.maxChurn = MaxChurn(ActiveCount(validators)),
                      !.budget = StakeBudget(validators)])

ApplyStakeUpdate(c) ==
  LET churn == AbsDiff(StakeOfId(validators, c.id), c.stake) IN
  /\ stage = "update" /\ First(c)
  /\ \/ (c.stake < MIN_STAKE \/ c.id \notin Member(validators)) /\ Reject(c)
     \/ /\ c.stake >= MIN_STAKE /\ c.id \in Member(validators)
        /\ \/ OverBudget(churn) /\ Requeue(c)
           \/ /\ ~OverBudget(churn)
              /\ Apply(c, [validators EXCEPT ![c.id].stake = c.stake], 0, churn)

ApplyJoin(c) ==
  LET over == work.changes >= work.maxChurn \/ OverBudget(c.stake) IN
  /\ stage = "join" /\ First(c)
  /\ \/ over /\ Requeue(c)
     \/ ~over /\ c.id \in Member(validators) /\ Reject(c)
     \/ /\ ~over /\ c.id \notin Member(validators)
        /\ Apply(c, [v \in DOMAIN validators \cup {c.id} |->
                       IF v = c.id THEN [stake |-> c.stake, jailed |-> FALSE]
                       ELSE validators[v]], 1, c.stake)

\* The floor is compared with the active count even when the leaving
\* validator is jailed or not a member.
AtFloorOffByOne(vs) == ActiveCount(vs) < MIN_VALIDATORS
AtFloor(vs) == ActiveCount(vs) <= MIN_VALIDATORS

ApplyLeave(c) ==
  LET churn == StakeOfId(validators, c.id)
      over  == work.changes >= work.maxChurn \/ OverBudget(churn)
      floor == AtFloor(validators) IN
  /\ stage = "leave" /\ First(c)
  /\ \/ over /\ Requeue(c)
     \/ ~over /\ (floor \/ c.id \notin Member(validators)) /\ Reject(c)
     \/ /\ ~over /\ ~floor /\ c.id \in Member(validators)
        /\ Apply(c, [v \in DOMAIN validators \ {c.id} |-> validators[v]], 1, churn)

\* The end of a loop: the next one, or the end of the transition.
NextStage ==
  /\ work.todo = {}
  /\ \/ stage = "update" /\ EnterStage("join", work)
     \/ stage = "join" /\ EnterStage("leave", work)

EndTransition ==
  /\ stage = "leave" /\ work.todo = {}
  /\ stage' = "idle" /\ work' = NoWork
  /\ UNCHANGED <<validators, pending, result, tags>>

TransitionStep ==
  \/ \E c \in work.todo : ApplyStakeUpdate(c) \/ ApplyJoin(c) \/ ApplyLeave(c)
  \/ NextStage
  \/ EndTransition
=============================================================================
