------------------------ MODULE TendermintInvariant ------------------------
(***************************************************************************)
(* The inductive invariants of one height: what holds whatever faulty      *)
(* validators send and whoever restarts, and why a height that nothing     *)
(* disturbs agrees.                                                        *)
(***************************************************************************)
EXTENDS Tendermint

-----------------------------------------------------------------------------
(* Faulty validators and restarts.                                         *)

\* The height is too short for anybody to be jailed for missing its duties.
LimitsAway ==
  /\ PriorMisses + MaxRounds <= ProposalMissLimit
  /\ PriorMisses + MaxRounds <= VoteMissLimit

\* The votes of correct validators in s were sent in its round.
CorrectVotesSent(s) ==
  \A u \in Correct :
    /\ s.prevotes[u] # None => Vote(s.round, u, s.prevotes[u]) \in prevoteMsgs
    /\ s.precommits[u] # None => Vote(s.round, u, s.precommits[u]) \in precommitMsgs

\* What v sent is of no later round than s, and the flags and the phase of s
\* know of what it sent in that round.
OwnVotesKnown(v, s) ==
  /\ \A m \in prevoteMsgs : m.from = v =>
       m.round <= s.round /\ (m.round = s.round => s.prevoted)
  /\ \A m \in precommitMsgs : m.from = v =>
       m.round <= s.round /\ (m.round = s.round => s.precommitted)
  /\ \A m \in proposalMsgs : m.from = v =>
       m.round <= s.round /\ (m.round = s.round => s.phase # "Propose")

\* The round state s of a correct validator v.
CorrectRound(v, s) ==
  /\ CorrectVotesSent(s)
  /\ s.phase = "Propose" => ~s.prevoted
  /\ restarts[v] = 0 => OwnVotesKnown(v, s)

\* Messages on record as sent are those of correct validators.
SentByCorrect ==
  \A m \in proposalMsgs \cup prevoteMsgs \cup precommitMsgs : m.from \in Correct

\* Nobody that has not restarted proposes twice in a round.
OneProposalEach ==
  \A m, n \in proposalMsgs :
    m.from = n.from /\ m.round = n.round => m = n \/ restarts[m.from] > 0

\* The proposals of correct validators that v has seen were sent.
SeenSent(v) == \A p \in proposalsSeen[v] : p.from \in Correct => p \in proposalMsgs

\* The counters of v grow by at most one a round.
CountersLow(v) ==
  committed[v] = None => \A u \in Validators :
    /\ missedProposals[v][u] <= PriorMisses + rs[v].round
    /\ missedVotes[v][u] <= PriorMisses + rs[v].round

\* A height without a wrap and without restarts, in which the faulty validators
\* have less than a third of the stake.
FewFaulty ==
  /\ MaxRestarts = 0 /\ LimitsAway
  /\ 3 * StakeOf[Faulty] < StakeOf[Validators]

\* Why nobody votes twice and nobody is jailed without cause, with any number of
\* faulty validators and of restarts, in a height without a wrap to round 0; and
\* what a quorum is worth as long as few validators are faulty.
FaultInv ==
  /\ SentByCorrect
  /\ \A v \in Correct : committed[v] = None => CorrectRound(v, rs[v])
  /\ NoDoubleVote
  /\ OneProposalEach
  /\ \A v \in Correct : SeenSent(v)
  /\ \A v \in Correct : CountersLow(v)
  /\ LimitsAway => JailedForCause
  /\ FewFaulty => PrecommitsGrounded /\ CommitPhaseDecided

-----------------------------------------------------------------------------
(* Agreement.                                                              *)

\* A height without faulty validators, without a wrap to round 0, without a
\* restart, and too short for anybody to be jailed for missing its duties.
Undisturbed ==
  /\ Faulty = {}
  /\ MaxWraps = 0
  /\ MaxRestarts = 0
  /\ PriorMisses + MaxRounds <= ProposalMissLimit
  /\ PriorMisses + MaxRounds <= VoteMissLimit

\* Nobody is jailed, and the counters grow by at most one a round.
NobodyJailed ==
  \A v \in Validators :
    /\ jailed[v] = {}
    /\ committed[v] = None => \A u \in Validators :
         /\ missedProposals[v][u] <= PriorMisses + rs[v].round
         /\ missedVotes[v][u] <= PriorMisses + rs[v].round

\* The votes v recorded in its round were sent in that round.
RecordedSent(s) ==
  \A u \in Validators :
    /\ s.prevotes[u] # None => Vote(s.round, u, s.prevotes[u]) \in prevoteMsgs
    /\ s.precommits[u] # None => Vote(s.round, u, s.precommits[u]) \in precommitMsgs

\* The block v holds was proposed in its round, and v has prevoted.
HeldProposed(s) ==
  s.proposed # None =>
    /\ s.prevoted
    /\ \E m \in proposalMsgs : m.round = s.round /\ m.block = s.proposed

\* What v itself sent is of no later round than the one it is in, and what it
\* sent in this one is on record.
OwnRecorded(v, s) ==
  /\ \A m \in prevoteMsgs : m.from = v =>
       /\ m.round <= s.round
       /\ m.round = s.round => s.prevoted /\ s.prevotes[v] = m.vote
  /\ \A m \in precommitMsgs : m.from = v =>
       /\ m.round <= s.round
       /\ m.round = s.round => s.precommitted
  /\ \A m \in proposalMsgs : m.from = v =>
       /\ m.round <= s.round
       /\ m.round = s.round => s.phase # "Propose"

\* The phases follow the flags, and v precommits only holding what it prevoted.
PhaseConsistent(v, s) ==
  /\ s.phase = "Propose" => ~s.prevoted
  /\ s.phase = "Prevote" /\ s.prevotes[v] \in Blocks => s.proposed = s.prevotes[v]

\* The lock of v is older than its round, or of a round it has prevoted in.
LockOlder(v, s) ==
  /\ lockedRound[v] <= s.round
  /\ lockedRound[v] = s.round => s.prevoted

\* All of that, for the round state s of v.
RoundInv(v, s) ==
  /\ RecordedSent(s)
  /\ HeldProposed(s)
  /\ OwnRecorded(v, s)
  /\ PhaseConsistent(v, s)
  /\ LockOlder(v, s)

\* Nobody has sent two prevotes, or two precommits, in one round.
OneVoteEach ==
  \A M \in {prevoteMsgs, precommitMsgs} : \A m, n \in M :
    m.from = n.from /\ m.round = n.round => m = n

\* Only the leader of a round proposes in it, and only one block.
OneBlockPerRound ==
  /\ \A m \in proposalMsgs : m.from = LeaderForEpoch(m.round, Validators)
  /\ \A m, n \in proposalMsgs : m.round = n.round => m.block = n.block

\* A block is prevoted, and counted as seen, only if it was proposed.
VotesGrounded ==
  /\ \A m \in prevoteMsgs : m.vote \in Blocks =>
       \E p \in proposalMsgs : p.round = m.round /\ p.block = m.vote
  /\ \A v \in Validators : proposalsSeen[v] \subseteq proposalMsgs

\* A lock names a block that a quorum prevoted in the round of the lock.
LocksGrounded ==
  \A v \in Validators :
    /\ lockedBlock[v] = None <=> lockedRound[v] = -1
    /\ lockedBlock[v] # None =>
         VotedByQuorum(prevoteMsgs, lockedRound[v], lockedBlock[v])

\* A later round than r, but before k, has a prevote quorum for another block.
Superseded(r, b, k) ==
  \E n \in prevoteMsgs :
    /\ r < n.round /\ n.round < k
    /\ n.vote \in Blocks \ {b}
    /\ VotedByQuorum(prevoteMsgs, n.round, n.vote)

\* u, which precommitted b in round r, is bound by it: it is still locked on b
\* or on something later, and prevoted another block only once superseded.
Bound(u, r, b) ==
  /\ committed[u] = None =>
       /\ lockedRound[u] >= r
       /\ lockedBlock[u] = b \/ lockedRound[u] > r
  /\ \A n \in prevoteMsgs :
       n.from = u /\ n.round > r /\ n.vote \in Blocks \ {b} =>
         Superseded(r, b, n.round)

\* The validators that prevoted b in round r and are bound by it as soon as they
\* have precommitted it (one that precommits before it prevotes is not).
Sticky(r, b) ==
  {u \in Validators : /\ Vote(r, u, b) \in prevoteMsgs
                      /\ Vote(r, u, b) \in precommitMsgs => Bound(u, r, b)}

\* Every precommit for a block is backed by a sticky quorum.
PrecommitsSticky ==
  \A m \in precommitMsgs : m.vote \in Blocks =>
    IsQuorum(Sticky(m.round, m.vote), Validators)

\* Every committed block has a precommit quorum in some round.
CommitsDecided ==
  \A v \in Validators : committed[v] # None =>
    \E r \in Rounds : VotedByQuorum(precommitMsgs, r, committed[v])

\* Why an undisturbed height agrees: the round state of each validator, its lock
\* and all votes sent fit together so that a precommitted block stays locked by
\* a quorum, through every order of timeouts, deliveries, syncs and drains.
AgreementInv ==
  /\ NobodyJailed
  /\ \A v \in Validators : committed[v] = None => RoundInv(v, rs[v])
  /\ OneVoteEach
  /\ OneBlockPerRound
  /\ VotesGrounded
  /\ LocksGrounded
  /\ PrecommitsSticky
  /\ CommitsDecided

-----------------------------------------------------------------------------
(* Attestations.                                                           *)

\* u has proposed something.
HasProposed(u) == \E m \in proposalMsgs : m.from = u

\* A quorum attested data of this height, without the sender of some proposal
\* outside small-cluster mode.
DataAttested ==
  \E m \in proposalMsgs :
    IsQuorum(AttestersOf(Blocks) \ (IF SmallClusterDA THEN {} ELSE {m.from}),
             Validators)

\* Why the gate holds in an undisturbed height: what validators stored was sent,
\* whom they take for the proposer has proposed, be it that its block is locked
\* and proposed again by others, and nothing passes the gate before its time.
AttestationInv ==
  /\ \A v \in Validators :
       /\ daAttestations[v] \subseteq AttestersOf(Blocks)
       /\ daProposer[v] # None => HasProposed(daProposer[v])
       /\ committed[v] # None => DataAttested
  /\ \A m \in proposalMsgs : HasProposed(m.block[1])
  /\ attestationMsgs # {} => proposalMsgs # {}
=============================================================================
