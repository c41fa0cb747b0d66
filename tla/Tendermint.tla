----------------------------- MODULE Tendermint -----------------------------
(***************************************************************************)
(* One height of the EvaporChain consensus engine, as the validators run   *)
(* it: crates/evaporchain-consensus/src/tendermint.rs (tick, on_message    *)
(* and what they call) together with the part of the node's message loop   *)
(* (crates/evaporchain-node/src/main.rs) that belongs to the same handler. *)
(*                                                                         *)
(* Every action is one call of tick or one delivery to on_message at one   *)
(* validator.  Messages stay in the sets below once sent: a lost message   *)
(* is one that is never delivered, a duplicate one that is delivered       *)
(* twice, and deliveries happen in any order.  Committing a block ends the *)
(* height for that validator.                                              *)
(***************************************************************************)
EXTENDS Integers, FiniteSets

CONSTANTS
  \* The validator ids; the list of the code is ordered by id.
  Validators,
  \* The validators that do not run the code and may send anything.
  Faulty,
  \* StakeOf[S]: the summed effective_stake of the validators in S (no stake is
  \* delegated, so that it is also the stake leader_for_epoch weighs by).
  StakeOf,
  \* EpochHash[r]: epoch_hash(height * 100 + r), the draw that picks the leader.
  EpochHash,
  \* MAX_ROUNDS_PER_HEIGHT (10 in the code).
  MaxRounds,
  \* advance_round slashes at 500 missed proposals and at 1000 missed votes.
  ProposalMissLimit,
  VoteMissLimit,
  \* Blocks carry a data_root, so that they are attested and sampled.
  DataRoot,
  \* The height is at or above da_enforcement_height.
  EnforceDA,
  \* small_cluster_da_mode: the proposer's own attestation counts.
  SmallClusterDA,
  \* The validators an operator may drain.
  Drainable,
  \* Bounds: wraps to round 0 and restarts of a validator in this height,
  \* blocks each faulty validator can make, misses counted before this height.
  MaxWraps,
  MaxRestarts,
  FaultyBlocks,
  PriorMisses,
  \* A vote for no block, and the absence of a vote or of a block.
  Nil,
  None

Correct == Validators \ Faulty

Rounds == 0 .. (MaxRounds - 1)

\* A block is named by its producer and a serial number: each new block of
\* create_proposal has a hash of its own.
Blocks == Validators \X Nat

Votes == Blocks \cup {Nil}

Phases == {"Propose", "Prevote", "Precommit", "Commit"}

ASSUME ValidatorAssumption ==
  /\ Validators \subseteq Nat
  /\ IsFiniteSet(Validators)
  /\ Faulty \subseteq Validators
  /\ Drainable \subseteq Validators

\* Stake is additive, as any sum of per-validator stakes is, and everybody has
\* some: slashing takes all of it and jails in the same step.
ASSUME StakeAssumption ==
  /\ StakeOf \in [SUBSET Validators -> Nat]
  /\ StakeOf[{}] = 0
  /\ \A S, T \in SUBSET Validators :
       StakeOf[S \cup T] + StakeOf[S \cap T] = StakeOf[S] + StakeOf[T]
  /\ \A v \in Validators : StakeOf[{v}] > 0

ASSUME BoundAssumption ==
  /\ MaxRounds \in Nat \ {0}
  /\ EpochHash \in [Rounds -> Nat]
  /\ ProposalMissLimit \in Nat \ {0}
  /\ VoteMissLimit \in Nat \ {0}
  /\ {MaxWraps, MaxRestarts, FaultyBlocks, PriorMisses} \subseteq Nat
  /\ {DataRoot, EnforceDA, SmallClusterDA} \subseteq BOOLEAN

ASSUME SentinelAssumption ==
  /\ Nil # None
  /\ Nil \notin Blocks
  /\ None \notin Blocks
  /\ None \notin Validators

VARIABLES
  rs,              \* rs[v]: the RoundState of v
  lockedBlock,     \* the block v is locked on, or None
  lockedRound,     \* the round of that lock, or -1
  proposalsSeen,   \* the first proposal v saw of each (round, proposer)
  jailed,          \* the validators that are jailed in v's own validator set
  missedProposals, \* missedProposals[v][u], as counted by v
  missedVotes,     \* missedVotes[v][u], as counted by v
  daAttestations,  \* the validators whose attestation of this height v stored
  daProposer,      \* da_block_proposers of this height at v, or None
  draining,        \* the drain flag of v
  committed,       \* the block v committed at this height, or None
  cert,            \* the signers of the commit certificate v stored with it
  made,            \* how many blocks v created at this height
  wraps,           \* how often v wrapped to round 0
  restarts,        \* how often v restarted
  proposalMsgs,    \* every Proposal, Prevote, Precommit and DAAttestation
  prevoteMsgs,     \*   a correct validator has broadcast
  precommitMsgs,
  attestationMsgs

engineVars  == <<rs, lockedBlock, lockedRound>>
slashVars   == <<jailed, missedProposals, missedVotes>>
daVars      == <<daAttestations, daProposer>>
heightVars  == <<committed, cert>>
boundVars   == <<made, wraps, restarts>>
msgVars     == <<proposalMsgs, prevoteMsgs, precommitMsgs, attestationMsgs>>
vars == <<engineVars, proposalsSeen, slashVars, daVars, draining, heightVars,
          boundVars, msgVars>>

\* RoundState::new: nothing received, nothing voted.
NewRoundState(r) ==
  [round |-> r, phase |-> "Propose", proposed |-> None,
   prevotes |-> [u \in Validators |-> None],
   precommits |-> [u \in Validators |-> None],
   prevoted |-> FALSE, precommitted |-> FALSE]

RoundStates ==
  [round : Rounds, phase : Phases, proposed : Blocks \cup {None},
   prevotes : [Validators -> Votes \cup {None}],
   precommits : [Validators -> Votes \cup {None}],
   prevoted : BOOLEAN, precommitted : BOOLEAN]

Init ==
  /\ rs = [v \in Validators |-> NewRoundState(0)]
  /\ lockedBlock = [v \in Validators |-> None]
  /\ lockedRound = [v \in Validators |-> -1]
  /\ proposalsSeen = [v \in Validators |-> {}]
  /\ jailed = [v \in Validators |-> {}]
  /\ missedProposals = [v \in Validators |-> [u \in Validators |-> PriorMisses]]
  /\ missedVotes = [v \in Validators |-> [u \in Validators |-> PriorMisses]]
  /\ daAttestations = [v \in Validators |-> {}]
  /\ daProposer = [v \in Validators |-> None]
  /\ draining = [v \in Validators |-> FALSE]
  /\ committed = [v \in Validators |-> None]
  /\ cert = [v \in Validators |-> {}]
  /\ made = [v \in Validators |-> 0]
  /\ wraps = [v \in Validators |-> 0]
  /\ restarts = [v \in Validators |-> 0]
  /\ proposalMsgs = {}
  /\ prevoteMsgs = {}
  /\ precommitMsgs = {}
  /\ attestationMsgs = {}

-----------------------------------------------------------------------------
(* Stake, quorums and leaders, each as one validator sees its own set.     *)

Active(v) == Validators \ jailed[v]

\* Mutant: a simple majority of the stake.
HalfThreshold(active) == StakeOf[active] \div 2 + 1

\* Mutant: a third of the stake.
ThirdThreshold(active) == StakeOf[active] \div 3

\* stake_quorum_threshold: floor(2T/3) + 1 of the stake that is not jailed.
Threshold(active) == (2 * StakeOf[active]) \div 3 + 1

\* Whether the validators in S, jailed ones not counted, reach the threshold.
IsQuorum(S, active) ==
  /\ StakeOf[active] # 0
  /\ StakeOf[S \cap active] >= Threshold(active)

VotersFor(votes, x) == {u \in Validators : votes[u] = x}

\* check_prevote_quorum and check_precommit_quorum: the value (a block or
\* Nil) that a quorum of the received votes names, if there is one.
QuorumValues(active, votes) ==
  {x \in {votes[u] : u \in Validators} \ {None} :
     IsQuorum(VotersFor(votes, x), active)}

\* leader_for_epoch: the first active validator, in id order, whose running
\* stake exceeds the draw.
LeaderForEpoch(r, active) ==
  LET upTo(u) == {w \in active : w <= u}
      draw == EpochHash[r] % StakeOf[active]
  IN  IF active = {} THEN None
      ELSE CHOOSE u \in active : /\ StakeOf[upTo(u)] > draw
                                 /\ StakeOf[upTo(u) \ {u}] <= draw

ProposerForRound(v, r) == LeaderForEpoch(r, Active(v))

\* Mutant: the proposer's own attestation always counts.
WithProposer(active, attesters, proposer) == IsQuorum(attesters, active)

\* has_da_supermajority: the stored attesters, without the proposer unless
\* small_cluster_da_mode is on, reach the consensus threshold.
HasDASupermajority(active, attesters, proposer) ==
  /\ SmallClusterDA \/ proposer # None
  /\ IsQuorum(IF SmallClusterDA THEN attesters ELSE attesters \ {proposer},
              active)

\* The P2-04 gate every commit path passes through.
DAGateOpen(active, attesters, proposer) ==
  EnforceDA /\ DataRoot => HasDASupermajority(active, attesters, proposer)

-----------------------------------------------------------------------------
(* Messages.  A faulty validator may send any message at any time, so its  *)
(* messages are always there to be delivered.                              *)

Proposal(r, v, b) == [round |-> r, from |-> v, block |-> b]
Vote(r, v, x) == [round |-> r, from |-> v, vote |-> x]
Attestation(v, b) == [from |-> v, block |-> b]

KnownBlocks ==
  {m.block : m \in proposalMsgs} \cup (Faulty \X (0 .. (FaultyBlocks - 1)))

Proposals ==
  proposalMsgs \cup [round : Rounds, from : Faulty, block : KnownBlocks]

FaultyVotes == [round : Rounds, from : Faulty, vote : KnownBlocks \cup {Nil}]

Prevotes == prevoteMsgs \cup FaultyVotes

Precommits == precommitMsgs \cup FaultyVotes

\* Attestations name a data_root; without one there is nothing to attest.
Attesters ==
  IF DataRoot THEN {m.from : m \in attestationMsgs} \cup Faulty ELSE {}

\* v takes a message of round r at its height: not committed, round not over.
Accepts(v, r) == committed[v] = None /\ r >= rs[v].round

\* Mutant: a message of the current round starts it afresh, too.
SkipToSame(s, r) == IF r >= s.round THEN NewRoundState(r) ELSE s

\* Round-skip: any message of a later round starts that round afresh, before
\* the message itself is looked at.
SkipTo(s, r) == IF r > s.round THEN NewRoundState(r) ELSE s

-----------------------------------------------------------------------------
(* Steps that several handlers share.                                      *)

\* Mutant: precommit without locking.
EnterPrecommitUnlocked(v, s, x) ==
  /\ rs' = [rs EXCEPT ![v] =
       [s EXCEPT !.phase = "Precommit", !.precommitted = TRUE,
                 !.precommits[v] = IF s.precommitted THEN @ ELSE x]]
  /\ precommitMsgs' = IF s.precommitted THEN precommitMsgs
                      ELSE precommitMsgs \cup {Vote(s.round, v, x)}
  /\ UNCHANGED <<lockedBlock, lockedRound>>

\* A prevote quorum for x was seen in round state s: precommit x once per
\* round, locking on the block only when it is the proposal v holds.
EnterPrecommit(v, s, x) ==
  /\ rs' = [rs EXCEPT ![v] =
       [s EXCEPT !.phase = "Precommit", !.precommitted = TRUE,
                 !.precommits[v] = IF s.precommitted THEN @ ELSE x]]
  /\ precommitMsgs' = IF s.precommitted THEN precommitMsgs
                      ELSE precommitMsgs \cup {Vote(s.round, v, x)}
  /\ IF ~s.precommitted /\ x # Nil /\ s.proposed = x
     THEN /\ lockedBlock' = [lockedBlock EXCEPT ![v] = x]
          /\ lockedRound' = [lockedRound EXCEPT ![v] = s.round]
     ELSE UNCHANGED <<lockedBlock, lockedRound>>

\* CommitBlock, executed and applied by on_block_committed: the certificate
\* keeps the precommits for b, the round state and the locks are reset.
Commit(v, b, signers) ==
  /\ committed' = [committed EXCEPT ![v] = b]
  /\ cert' = [cert EXCEPT ![v] = signers]
  /\ rs' = [rs EXCEPT ![v] = NewRoundState(0)]
  /\ lockedBlock' = [lockedBlock EXCEPT ![v] = None]
  /\ lockedRound' = [lockedRound EXCEPT ![v] = -1]

\* Mutant: a single precommit for the block held is enough.
CommittableByAny(active, s) ==
  {b \in {s.precommits[u] : u \in Validators} \ {None} : b = s.proposed}

\* The blocks with a precommit quorum in s that s holds as its proposal.
Committable(active, s) ==
  {b \in QuorumValues(active, s.precommits) : b = s.proposed}

\* There is a precommit quorum for another block than the one s holds.
QuorumMismatch(active, s) ==
  /\ s.proposed # None
  /\ \E x \in QuorumValues(active, s.precommits) : x \notin {Nil, s.proposed}

\* sanov_slash_equivocation: the whole stake is slashed and u is jailed, in
\* v's own validator set only.
SlashEquivocation(v, u) ==
  /\ jailed' = [jailed EXCEPT ![v] = @ \cup {u}]
  /\ UNCHANGED <<missedProposals, missedVotes>>

\* Mutant: no return to round 0 after the last round.
AdvanceRoundUnbounded(v) ==
  /\ rs' = [rs EXCEPT ![v] = NewRoundState(rs[v].round + 1)]
  /\ UNCHANGED <<slashVars, wraps>>

\* advance_round: count the missed proposal and the missing votes of the
\* round, slash and jail at the limits, and start the next round (round 0
\* after the last one).
AdvanceRound(v) ==
  LET s == rs[v]
      leader == ProposerForRound(v, s.round)
      missed == s.proposed = None /\ leader # None
      lateProposer == missed /\ missedProposals[v][leader] + 1 >= ProposalMissLimit
      jailed1 == IF lateProposer THEN jailed[v] \cup {leader} ELSE jailed[v]
      silent == {u \in Validators \ jailed1 :
                   s.prevotes[u] = None /\ s.precommits[u] = None}
      absent == {u \in silent : missedVotes[v][u] + 1 >= VoteMissLimit}
      wrap == s.round + 1 >= MaxRounds
  IN  /\ wrap => wraps[v] < MaxWraps
      /\ wraps' = IF wrap THEN [wraps EXCEPT ![v] = @ + 1] ELSE wraps
      /\ rs' = [rs EXCEPT ![v] = NewRoundState(IF wrap THEN 0 ELSE s.round + 1)]
      /\ missedProposals' = IF missed
           THEN [missedProposals EXCEPT ![v][leader] = IF lateProposer THEN 0 ELSE @ + 1]
           ELSE missedProposals
      /\ missedVotes' = [missedVotes EXCEPT ![v] =
           [u \in Validators |->
              IF u \in jailed1 THEN missedVotes[v][u]
              ELSE IF u \in silent \ absent THEN missedVotes[v][u] + 1 ELSE 0]]
      /\ jailed' = [jailed EXCEPT ![v] = jailed1 \cup absent]

-----------------------------------------------------------------------------
(* tick                                                                    *)

CanPropose(v) ==
  /\ ~draining[v]
  /\ ProposerForRound(v, rs[v].round) = v
  /\ rs[v].proposed = None

\* create_proposal: the locked block again, or else a new one.
CreateProposal(v) ==
  IF lockedBlock[v] = None THEN <<v, made[v]>> ELSE lockedBlock[v]

\* Phase::Propose at the leader: propose a block, prevote it, and attest its
\* data.
TickPropose(v) ==
  LET r == rs[v].round
      b == CreateProposal(v)
  IN  /\ committed[v] = None
      /\ rs[v].phase = "Propose"
      /\ CanPropose(v)
      /\ made' = IF lockedBlock[v] = None THEN [made EXCEPT ![v] = @ + 1] ELSE made
      /\ rs' = [rs EXCEPT ![v] = [@ EXCEPT !.phase = "Prevote", !.proposed = b,
                                           !.prevoted = TRUE, !.prevotes[v] = b]]
      /\ proposalMsgs' = proposalMsgs \cup {Proposal(r, v, b)}
      /\ prevoteMsgs' = prevoteMsgs \cup {Vote(r, v, b)}
      /\ daProposer' = [daProposer EXCEPT ![v] = v]
      /\ attestationMsgs' = attestationMsgs \cup
                              (IF DataRoot THEN {Attestation(v, b)} ELSE {})
      /\ UNCHANGED <<lockedBlock, lockedRound, proposalsSeen, slashVars,
                     daAttestations, draining, heightVars, wraps, restarts,
                     precommitMsgs>>

\* Mutant: the propose timeout only counts once a proposal is there.
TickProposeTimeoutHeld(v) ==
  /\ committed[v] = None
  /\ rs[v].phase = "Propose"
  /\ rs[v].proposed # None
  /\ rs' = [rs EXCEPT ![v] = [@ EXCEPT !.phase = "Prevote"]]
  /\ UNCHANGED <<lockedBlock, lockedRound, proposalsSeen, slashVars, daVars,
                 draining, heightVars, boundVars, msgVars>>

\* Phase::Propose, propose_timeout elapsed: prevote nil unless draining.
TickProposeTimeout(v) ==
  /\ committed[v] = None
  /\ rs[v].phase = "Propose"
  /\ ~CanPropose(v)
  /\ IF draining[v] \/ rs[v].prevoted
     THEN /\ rs' = [rs EXCEPT ![v] = [@ EXCEPT !.phase = "Prevote"]]
          /\ UNCHANGED prevoteMsgs
     ELSE /\ rs' = [rs EXCEPT ![v] = [@ EXCEPT !.phase = "Prevote",
                                        !.prevoted = TRUE, !.prevotes[v] = Nil]]
          /\ prevoteMsgs' = prevoteMsgs \cup {Vote(rs[v].round, v, Nil)}
  /\ UNCHANGED <<lockedBlock, lockedRound, proposalsSeen, slashVars, daVars,
                 draining, heightVars, boundVars, proposalMsgs, precommitMsgs,
                 attestationMsgs>>

\* Phase::Prevote with a prevote quorum.
TickPrevoteQuorum(v) ==
  /\ committed[v] = None
  /\ rs[v].phase = "Prevote"
  /\ \E x \in QuorumValues(Active(v), rs[v].prevotes) : EnterPrecommit(v, rs[v], x)
  /\ UNCHANGED <<proposalsSeen, slashVars, daVars, draining, heightVars,
                 boundVars, proposalMsgs, prevoteMsgs, attestationMsgs>>

\* Phase::Prevote, prevote_timeout elapsed without a quorum: precommit nil.
TickPrevoteTimeout(v) ==
  /\ committed[v] = None
  /\ rs[v].phase = "Prevote"
  /\ QuorumValues(Active(v), rs[v].prevotes) = {}
  /\ EnterPrecommit(v, rs[v], Nil)
  /\ UNCHANGED <<proposalsSeen, slashVars, daVars, draining, heightVars,
                 boundVars, proposalMsgs, prevoteMsgs, attestationMsgs>>

\* Phase::Precommit with a precommit quorum for the block v holds, and the
\* data-availability gate open.  A timeout that elapsed in the same tick also
\* calls advance_round, whose effects on_block_committed discards.
TickCommit(v) ==
  /\ committed[v] = None
  /\ rs[v].phase = "Precommit"
  /\ DAGateOpen(Active(v), daAttestations[v], daProposer[v])
  /\ \E b \in Committable(Active(v), rs[v]) :
       Commit(v, b, VotersFor(rs[v].precommits, b))
  /\ UNCHANGED <<proposalsSeen, slashVars, daVars, draining, boundVars, msgVars>>

\* Phase::Precommit with a precommit quorum for a block v does not hold: the
\* local copy is dropped and the block is asked for (see SyncApply).
TickMismatch(v) ==
  /\ committed[v] = None
  /\ rs[v].phase = "Precommit"
  /\ QuorumMismatch(Active(v), rs[v])
  /\ rs' = [rs EXCEPT ![v] = [@ EXCEPT !.proposed = None]]
  /\ UNCHANGED <<lockedBlock, lockedRound, proposalsSeen, slashVars, daVars,
                 draining, heightVars, boundVars, msgVars>>

\* Phase::Precommit with a nil quorum: next round.
TickNilQuorum(v) ==
  /\ committed[v] = None
  /\ rs[v].phase = "Precommit"
  /\ Nil \in QuorumValues(Active(v), rs[v].precommits)
  /\ AdvanceRound(v)
  /\ UNCHANGED <<lockedBlock, lockedRound, proposalsSeen, daVars, draining,
                 heightVars, made, restarts, msgVars>>

\* Phase::Precommit, precommit_timeout elapsed: next round.  A committable
\* block excludes it, even when the gate keeps the block waiting.
TickPrecommitTimeout(v) ==
  /\ committed[v] = None
  /\ rs[v].phase = "Precommit"
  /\ Committable(Active(v), rs[v]) = {}
  /\ ~QuorumMismatch(Active(v), rs[v])
  /\ AdvanceRound(v)
  /\ UNCHANGED <<lockedBlock, lockedRound, proposalsSeen, daVars, draining,
                 heightVars, made, restarts, msgVars>>

\* Phase::Commit: a block left behind is dropped, nothing else happens.
TickCommitPhase(v) ==
  /\ committed[v] = None
  /\ rs[v].phase = "Commit"
  /\ rs[v].proposed # None
  /\ rs' = [rs EXCEPT ![v] = [@ EXCEPT !.proposed = None]]
  /\ UNCHANGED <<lockedBlock, lockedRound, proposalsSeen, slashVars, daVars,
                 draining, heightVars, boundVars, msgVars>>

-----------------------------------------------------------------------------
(* on_message                                                              *)

\* Mutant: vote for any block, locked or not.
VoteOnAny(v, b) == b

\* The lock rule of the Proposal arm: vote for the block, or nil when locked
\* on another one.
VoteOn(v, b) == IF lockedBlock[v] \in {None, b} THEN b ELSE Nil

\* The node attests the block of every proposal of another validator by
\* itself (main.rs, proposal-receipt path), after the engine left round state
\* s: the attestation is broadcast and stored through on_message, whose
\* returned actions are discarded.  A commit that it triggers takes the block
\* and enters Phase::Commit, but the CommitBlock is lost.
EagerAttestation(v, b, s, active, proposer) ==
  LET stored == daAttestations[v] \cup {v}
      lost == /\ v \notin daAttestations[v]
              /\ s.phase = "Precommit"
              /\ Committable(active, s) # {}
              /\ DAGateOpen(active, stored, proposer)
  IN  IF DataRoot
      THEN /\ rs' = [rs EXCEPT ![v] =
                IF lost THEN [s EXCEPT !.phase = "Commit", !.proposed = None]
                ELSE s]
           /\ daAttestations' = [daAttestations EXCEPT ![v] = stored]
           /\ attestationMsgs' = attestationMsgs \cup {Attestation(v, b)}
      ELSE /\ rs' = [rs EXCEPT ![v] = s]
           /\ UNCHANGED <<daAttestations, attestationMsgs>>

\* A Proposal of an old round, not from the leader v expects, or whose block
\* fails a check of its header (size, gas, chain, parent, timestamp, version,
\* signature), as a faulty producer's may: only the round-skip and the node's
\* own attestation happen, if either does.
OnProposalRejected(v, m) ==
  /\ committed[v] = None
  /\ m.from # v
  /\ m.round > rs[v].round \/ DataRoot
  /\ \/ m.round < rs[v].round
     \/ ProposerForRound(v, m.round) # m.from
     \/ m.block[1] \in Faulty
  /\ EagerAttestation(v, m.block, SkipTo(rs[v], m.round), Active(v),
                      daProposer[v])
  /\ UNCHANGED <<lockedBlock, lockedRound, proposalsSeen, slashVars, daProposer,
                 draining, heightVars, boundVars, proposalMsgs, prevoteMsgs,
                 precommitMsgs>>

\* The first block of this proposer in this round, as v saw it, was another.
Equivocates(v, m) ==
  \E p \in proposalsSeen[v] :
    p.round = m.round /\ p.from = m.from /\ p.block # m.block

\* A second, different block of the leader in the same round: the leader is
\* slashed and the proposal rejected.
OnProposalEquivocation(v, m) ==
  /\ Accepts(v, m.round)
  /\ m.from # v
  /\ ProposerForRound(v, m.round) = m.from
  /\ Equivocates(v, m)
  /\ SlashEquivocation(v, m.from)
  /\ EagerAttestation(v, m.block, SkipTo(rs[v], m.round), Active(v) \ {m.from},
                      daProposer[v])
  /\ UNCHANGED <<lockedBlock, lockedRound, proposalsSeen, daProposer, draining,
                 heightVars, boundVars, proposalMsgs, prevoteMsgs, precommitMsgs>>

\* A Proposal of the leader whose block, made by a faulty validator, fails a
\* check of its contents (proof, state root, VRF, weak subjectivity, DA
\* certificate, refunds, DA roots): it counts as seen and is rejected.
OnProposalInvalid(v, m) ==
  /\ Accepts(v, m.round)
  /\ m.from # v
  /\ ProposerForRound(v, m.round) = m.from
  /\ ~Equivocates(v, m)
  /\ m.block[1] \in Faulty
  /\ proposalsSeen' = [proposalsSeen EXCEPT ![v] = @ \cup {m}]
  /\ EagerAttestation(v, m.block, SkipTo(rs[v], m.round), Active(v),
                      daProposer[v])
  /\ UNCHANGED <<lockedBlock, lockedRound, slashVars, daProposer, draining,
                 heightVars, boundVars, proposalMsgs, prevoteMsgs, precommitMsgs>>

\* A Proposal of the leader that passes: hold the block and, once per round,
\* prevote by the lock rule.
OnProposal(v, m) ==
  LET s == SkipTo(rs[v], m.round)
      x == VoteOn(v, m.block)
      held == [s EXCEPT !.proposed = m.block]
      voted == [held EXCEPT !.phase = "Prevote", !.prevoted = TRUE,
                            !.prevotes[v] = x]
      proposer == IF s.prevoted \/ x = Nil THEN daProposer[v] ELSE m.block[1]
  IN  /\ Accepts(v, m.round)
      /\ m.from # v
      /\ ProposerForRound(v, m.round) = m.from
      /\ ~Equivocates(v, m)
      /\ proposalsSeen' = [proposalsSeen EXCEPT ![v] = @ \cup {m}]
      /\ daProposer' = [daProposer EXCEPT ![v] = proposer]
      /\ prevoteMsgs' = IF s.prevoted THEN prevoteMsgs
                        ELSE prevoteMsgs \cup {Vote(m.round, v, x)}
      /\ EagerAttestation(v, m.block, IF s.prevoted THEN held ELSE voted,
                          Active(v), proposer)
      /\ UNCHANGED <<lockedBlock, lockedRound, slashVars, draining, heightVars,
                     boundVars, proposalMsgs, precommitMsgs>>

\* Mutant: votes of different rounds count as equivocation.
OnPrevoteEquivocationAnyRound(v, m) ==
  /\ Accepts(v, m.round)
  /\ m.from # v
  /\ rs[v].prevotes[m.from] \notin {None, m.vote}
  /\ SlashEquivocation(v, m.from)
  /\ UNCHANGED <<engineVars, proposalsSeen, daVars, draining, heightVars,
                 boundVars, msgVars>>

\* A Prevote that contradicts the one v holds of the same sender.
OnPrevoteEquivocation(v, m) ==
  /\ committed[v] = None
  /\ m.round = rs[v].round
  /\ m.from # v
  /\ rs[v].prevotes[m.from] \notin {None, m.vote}
  /\ SlashEquivocation(v, m.from)
  /\ UNCHANGED <<engineVars, proposalsSeen, daVars, draining, heightVars,
                 boundVars, msgVars>>

\* A Prevote: record it and, in Phase::Prevote, precommit on a quorum.
OnPrevote(v, m) ==
  LET s == SkipTo(rs[v], m.round)
      t == [s EXCEPT !.prevotes[m.from] = m.vote]
      quorum == IF t.phase = "Prevote" THEN QuorumValues(Active(v), t.prevotes)
                ELSE {}
  IN  /\ Accepts(v, m.round)
      /\ m.from # v
      /\ s.prevotes[m.from] \in {None, m.vote}
      /\ IF quorum = {}
         THEN /\ rs' = [rs EXCEPT ![v] = t]
              /\ UNCHANGED <<lockedBlock, lockedRound, precommitMsgs>>
         ELSE \E x \in quorum : EnterPrecommit(v, t, x)
      /\ UNCHANGED <<proposalsSeen, slashVars, daVars, draining, heightVars,
                     boundVars, proposalMsgs, prevoteMsgs, attestationMsgs>>

\* Mutant: the precommit is compared with the prevote of the sender.
OnPrecommitEquivocationMixed(v, m) ==
  /\ committed[v] = None
  /\ m.round = rs[v].round
  /\ m.from # v
  /\ rs[v].prevotes[m.from] \notin {None, m.vote}
  /\ SlashEquivocation(v, m.from)
  /\ UNCHANGED <<engineVars, proposalsSeen, daVars, draining, heightVars,
                 boundVars, msgVars>>

\* A Precommit that contradicts the one v holds of the same sender.
OnPrecommitEquivocation(v, m) ==
  /\ committed[v] = None
  /\ m.round = rs[v].round
  /\ m.from # v
  /\ rs[v].precommits[m.from] \notin {None, m.vote}
  /\ SlashEquivocation(v, m.from)
  /\ UNCHANGED <<engineVars, proposalsSeen, daVars, draining, heightVars,
                 boundVars, msgVars>>

\* A Precommit: record it in any phase and, on a quorum for a block, commit
\* the block held, wait at the gate, or drop a block that is another one.
OnPrecommit(v, m) ==
  LET s == SkipTo(rs[v], m.round)
      t == [s EXCEPT !.precommits[m.from] = m.vote]
      committable == Committable(Active(v), t)
      open == DAGateOpen(Active(v), daAttestations[v], daProposer[v])
  IN  /\ Accepts(v, m.round)
      /\ m.from # v
      /\ s.precommits[m.from] \in {None, m.vote}
      /\ IF committable # {} /\ open
         THEN \E b \in committable : Commit(v, b, VotersFor(t.precommits, b))
         ELSE /\ rs' = [rs EXCEPT ![v] =
                   IF QuorumMismatch(Active(v), t)
                   THEN [t EXCEPT !.proposed = None] ELSE t]
              /\ UNCHANGED <<lockedBlock, lockedRound, heightVars>>
      /\ UNCHANGED <<proposalsSeen, slashVars, daVars, draining, boundVars,
                     msgVars>>

\* A DAAttestation: store the first one of each validator; in
\* Phase::Precommit a new one may open the gate and commit.
OnDAAttestation(v, u) ==
  LET stored == daAttestations[v] \cup {u}
      committable == IF rs[v].phase = "Precommit"
                     THEN Committable(Active(v), rs[v]) ELSE {}
  IN  /\ committed[v] = None
      /\ u \notin daAttestations[v] \cup {v}
      /\ daAttestations' = [daAttestations EXCEPT ![v] = stored]
      /\ IF committable # {} /\ DAGateOpen(Active(v), stored, daProposer[v])
         THEN \E b \in committable :
                Commit(v, b, VotersFor(rs[v].precommits, b))
         ELSE UNCHANGED <<engineVars, heightVars>>
      /\ UNCHANGED <<proposalsSeen, slashVars, daProposer, draining, boundVars,
                     msgVars>>

-----------------------------------------------------------------------------
(* Block sync, restarts and the drain switch.                              *)

\* Mutant: no fallback, the threshold of v's own set decides.
SyncCertStrict(v, signers) ==
  StakeOf[signers \cap Active(v)] >= Threshold(Active(v))

\* verify_commit_certificate_for_sync: the signers reach v's threshold or,
\* failing that, a third of the stake in v's set.
SyncCertValid(v, signers) ==
  \/ StakeOf[signers \cap Active(v)] >= Threshold(Active(v))
  \/ StakeOf[signers \cap Active(v)] >= StakeOf[Active(v)] \div 3

\* The blocks peers can serve v, with the signers of their certificates ({} if
\* there is none): what a correct peer committed, or, from a faulty peer, any
\* block with a certificate of any signers, for it need not be one of this
\* block.  The signatures are checked over the height, round and hash that the
\* certificate names, and nobody compares those with the block.
SyncBlocks ==
  {<<committed[u], cert[u]>> : u \in {w \in Correct : committed[w] # None}}
  \cup (IF Faulty = {} THEN {} ELSE KnownBlocks \X SUBSET Validators)

\* apply_block on a synced block: at once if its certificate verifies, or out of
\* the queue (pending_blocks), where a block passes without a certificate, too,
\* or with one that v lacks a key to check (both {}).  The drain asks for v's
\* threshold of a certificate it can check.
SyncApply(v) ==
  /\ committed[v] = None
  /\ \E p \in SyncBlocks :
       /\ p[2] = {} \/ SyncCertValid(v, p[2])
       /\ Commit(v, p[1], p[2])
  /\ UNCHANGED <<proposalsSeen, slashVars, daVars, draining, boundVars, msgVars>>

\* Process restart: restore_state resets the round state and the locks; the
\* seen proposals, the counters and the attestations are memory; the jailed
\* set is the one saved with the last block.
Restart(v) ==
  /\ committed[v] = None
  /\ restarts[v] < MaxRestarts
  /\ restarts' = [restarts EXCEPT ![v] = @ + 1]
  /\ rs' = [rs EXCEPT ![v] = NewRoundState(0)]
  /\ lockedBlock' = [lockedBlock EXCEPT ![v] = None]
  /\ lockedRound' = [lockedRound EXCEPT ![v] = -1]
  /\ proposalsSeen' = [proposalsSeen EXCEPT ![v] = {}]
  /\ jailed' = [jailed EXCEPT ![v] = {}]
  /\ missedProposals' = [missedProposals EXCEPT ![v] = [u \in Validators |-> 0]]
  /\ missedVotes' = [missedVotes EXCEPT ![v] = [u \in Validators |-> 0]]
  /\ daAttestations' = [daAttestations EXCEPT ![v] = {}]
  /\ daProposer' = [daProposer EXCEPT ![v] = None]
  /\ draining' = [draining EXCEPT ![v] = FALSE]
  /\ UNCHANGED <<heightVars, made, wraps, msgVars>>

\* set_draining and clear_draining, from the admin API.
SetDraining(v) ==
  /\ v \in Drainable
  /\ committed[v] = None
  /\ draining' = [draining EXCEPT ![v] = ~@]
  /\ UNCHANGED <<engineVars, proposalsSeen, slashVars, daVars, heightVars,
                 boundVars, msgVars>>

-----------------------------------------------------------------------------

Tick(v) ==
  \/ TickPropose(v)
  \/ TickProposeTimeout(v)
  \/ TickPrevoteQuorum(v)
  \/ TickPrevoteTimeout(v)
  \/ TickCommit(v)
  \/ TickMismatch(v)
  \/ TickNilQuorum(v)
  \/ TickPrecommitTimeout(v)
  \/ TickCommitPhase(v)

OnMessage(v) ==
  \/ \E m \in Proposals : \/ OnProposalRejected(v, m)
                          \/ OnProposalEquivocation(v, m)
                          \/ OnProposalInvalid(v, m)
                          \/ OnProposal(v, m)
  \/ \E m \in Prevotes : OnPrevoteEquivocation(v, m) \/ OnPrevote(v, m)
  \/ \E m \in Precommits : OnPrecommitEquivocation(v, m) \/ OnPrecommit(v, m)
  \/ \E u \in Attesters : OnDAAttestation(v, u)

Next ==
  \E v \in Correct :
    Tick(v) \/ OnMessage(v) \/ SyncApply(v) \/ Restart(v) \/ SetDraining(v)

Spec == Init /\ [][Next]_vars

-----------------------------------------------------------------------------
(* Properties                                                              *)

\* Every part of the engine's state has its type.
TypeOK ==
  /\ rs \in [Validators -> RoundStates]
  /\ lockedBlock \in [Validators -> Blocks \cup {None}]
  /\ lockedRound \in [Validators -> Rounds \cup {-1}]
  /\ proposalsSeen \in
       [Validators -> SUBSET [round : Rounds, from : Validators, block : Blocks]]
  /\ jailed \in [Validators -> SUBSET Validators]
  /\ missedProposals \in [Validators -> [Validators -> Nat]]
  /\ missedVotes \in [Validators -> [Validators -> Nat]]
  /\ daAttestations \in [Validators -> SUBSET Validators]
  /\ daProposer \in [Validators -> Validators \cup {None}]
  /\ draining \in [Validators -> BOOLEAN]
  /\ committed \in [Validators -> Blocks \cup {None}]
  /\ cert \in [Validators -> SUBSET Validators]
  /\ made \in [Validators -> Nat]
  /\ wraps \in [Validators -> 0 .. MaxWraps]
  /\ restarts \in [Validators -> 0 .. MaxRestarts]
  /\ proposalMsgs \subseteq [round : Rounds, from : Validators, block : Blocks]
  /\ prevoteMsgs \subseteq [round : Rounds, from : Validators, vote : Votes]
  /\ precommitMsgs \subseteq [round : Rounds, from : Validators, vote : Votes]
  /\ attestationMsgs \subseteq [from : Validators, block : Blocks]

\* No two correct validators commit different blocks at the height (the safety
\* claim of research/tla/EvaporChainBFT.tla, line 13).
Agreement ==
  \A u, v \in Correct :
    committed[u] # None /\ committed[v] # None => committed[u] = committed[v]

\* The commits of the height, as decisions.
Decided == [v \in Correct |-> committed[v]]

D == INSTANCE Decision
       WITH Nodes <- Correct, Values <- Blocks, Undecided <- None,
            decided <- Decided

\* One height implements a single decision: a validator commits once, by votes
\* or by sync, and only what no other correct validator has contradicted.
ImplementsDecision == D!Spec

\* A correct validator never broadcasts two different prevotes, or two
\* different precommits, for one round of a height, unless it has restarted:
\* the prevoted and precommitted flags survive all that happens in a round.
NoDoubleVote ==
  \A M \in {prevoteMsgs, precommitMsgs} : \A m, n \in M :
    m.from = n.from /\ m.round = n.round => m = n \/ restarts[m.from] > 0

\* Nobody slashes and jails a correct validator that has not restarted: what it
\* sends never looks like equivocation, in whatever order it arrives.
JailedForCause ==
  \A v \in Correct : jailed[v] \subseteq Faulty \cup {u \in Correct : restarts[u] > 0}

\* The correct senders of a vote for x in round r.
Senders(msgs, r, x) == {m.from : m \in {p \in msgs : p.round = r /\ p.vote = x}}

\* A correct or a faulty quorum of the whole set could have voted x in r.
VotedByQuorum(msgs, r, x) ==
  IsQuorum(Senders(msgs, r, x) \cup Faulty, Validators)

\* v committed a block that a quorum signed, the correct signers in one round.
Certified(v) ==
  /\ IsQuorum(cert[v], Validators)
  /\ \E r \in Rounds : cert[v] \cap Correct
                          \subseteq Senders(precommitMsgs, r, committed[v])

\* The safety claim again, for commits that are backed by a quorum (not for
\* blocks that a faulty peer served with a certificate of something else).
CertifiedAgreement ==
  \A u, v \in Correct :
    /\ committed[u] # None /\ committed[v] # None
    /\ Certified(u) /\ Certified(v)
    => committed[u] = committed[v]

\* Once a quorum has precommitted a block, no later round gathers a prevote
\* quorum for another one: the locks carry a decision through round changes.
DecisionIsFinal ==
  \A m \in precommitMsgs, n \in prevoteMsgs :
    /\ m.vote # Nil
    /\ n.vote \notin {Nil, m.vote}
    /\ n.round >= m.round
    /\ VotedByQuorum(precommitMsgs, m.round, m.vote)
    => ~VotedByQuorum(prevoteMsgs, n.round, n.vote)

\* Two validators in the same round never see prevote quorums for different
\* values, nor precommit quorums, whatever faulty validators sent to each and
\* whomever each of them has jailed.
NoSplitQuorum ==
  \A u, v \in Correct :
    /\ committed[u] = None /\ committed[v] = None
    /\ rs[u].round = rs[v].round
    /\ wraps[u] = wraps[v]
    => /\ \A x \in QuorumValues(Active(u), rs[u].prevotes),
            y \in QuorumValues(Active(v), rs[v].prevotes) : x = y
       /\ \A x \in QuorumValues(Active(u), rs[u].precommits),
            y \in QuorumValues(Active(v), rs[v].precommits) : x = y

\* A correct validator precommits a block only if a correct one prevoted it in
\* the same round: what faulty validators prevote, and whom they get jailed,
\* never makes a quorum in somebody's set without the others.
PrecommitsGrounded ==
  \A m \in precommitMsgs : m.vote \in Blocks =>
    \E n \in prevoteMsgs : n.round = m.round /\ n.vote = m.vote

\* A certificate that is a quorum to the correct validator that stored it lets
\* every other one catch up on its block by sync, whomever each of them has
\* jailed meanwhile (verify_commit_certificate_for_sync and its fallback).
CertificatesAccepted ==
  \A u, v \in Correct :
    /\ committed[u] = None /\ committed[v] # None
    /\ IsQuorum(cert[v], Active(v))
    => SyncCertValid(u, cert[v])

\* A block is committed only after a correct validator prevoted it ("Require
\* valid certificate - never apply unverified blocks", main.rs line 6780).
CommittedBlockVoted ==
  \A v \in Correct :
    committed[v] # None => \E m \in prevoteMsgs : m.vote = committed[v]

\* The attesters of the blocks in B, as far as they are correct.
AttestersOf(B) == {m.from : m \in {a \in attestationMsgs : a.block \in B}}

\* Under DA enforcement no block is committed, by votes or by sync, before a
\* quorum has attested data of this height, a quorum without the sender of some
\* proposal outside small-cluster mode.
AttestedBeforeCommit ==
  EnforceDA /\ DataRoot => \A v \in Correct : committed[v] # None =>
    \E m \in Proposals :
      IsQuorum(AttestersOf(Blocks) \ (IF SmallClusterDA THEN {} ELSE {m.from}),
               Validators)

\* Under DA enforcement the data of a committed block is attested by a quorum
\* of others than its producer ("standard 2/3 supermajority of non-proposer
\* stake is required", tendermint.rs lines 1193-1194).
CommittedBlockAttested ==
  EnforceDA /\ DataRoot /\ ~SmallClusterDA => \A v \in Correct :
    committed[v] # None =>
      IsQuorum(AttestersOf({committed[v]}) \ {committed[v][1]}, Validators)

\* A validator in Phase::Commit is one whose CommitBlock the node is applying
\* ("waiting for commit to be applied externally", tendermint.rs line 4893).
\* Applying it is part of the committing step, so no state shows the phase.
NoLostCommit == \A v \in Correct : rs[v].phase # "Commit"

\* A validator whose CommitBlock was lost sits in the round in which a quorum
\* precommitted its block: its peers can serve the block to it.
CommitPhaseDecided ==
  \A v \in Correct : rs[v].phase = "Commit" =>
    \E m \in precommitMsgs : /\ m.round = rs[v].round
                             /\ m.vote # Nil
                             /\ VotedByQuorum(precommitMsgs, m.round, m.vote)
=============================================================================
