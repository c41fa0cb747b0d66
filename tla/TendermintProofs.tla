-------------------------- MODULE TendermintProofs --------------------------
(***************************************************************************)
(* Theorems about one height of the consensus engine, for every validator  *)
(* set, stake distribution and bound: what stake_quorum_threshold and      *)
(* leader_for_epoch owe the rest of the engine, and the types of its state. *)
(***************************************************************************)
EXTENDS Tendermint, SetLemmas

-----------------------------------------------------------------------------
(* Stake quorums and leaders.                                              *)

\* Stake grows with the set.
LEMMA StakeMonotone ==
  ASSUME NEW S \in SUBSET Validators, NEW T \in SUBSET S
  PROVE  /\ StakeOf[T] \in Nat /\ StakeOf[S] \in Nat
         /\ StakeOf[T] <= StakeOf[S]
<1>1. T \cup (S \ T) = S /\ T \cap (S \ T) = {}
  OBVIOUS
<1>2. T \in SUBSET Validators /\ (S \ T) \in SUBSET Validators
  OBVIOUS
<1>3. StakeOf[T] \in Nat /\ StakeOf[S] \in Nat /\ StakeOf[S \ T] \in Nat
  BY <1>2, StakeAssumption
<1>4. StakeOf[T \cup (S \ T)] + StakeOf[T \cap (S \ T)]
        = StakeOf[T] + StakeOf[S \ T]
  BY <1>2, StakeAssumption
<1>5. StakeOf[S] + StakeOf[{}] = StakeOf[T] + StakeOf[S \ T]
  BY <1>1, <1>4
<1>6. StakeOf[{}] = 0
  BY StakeAssumption
<1> QED BY <1>3, <1>5, <1>6

\* A non-empty set of validators has stake.
LEMMA StakePositive ==
  ASSUME NEW S \in SUBSET Validators, S # {}
  PROVE  StakeOf[S] > 0
<1>1. PICK v \in S : TRUE
  OBVIOUS
<1>2. StakeOf[{v}] <= StakeOf[S] /\ StakeOf[{v}] \in Nat /\ StakeOf[S] \in Nat
  BY StakeMonotone
<1>3. StakeOf[{v}] > 0
  BY StakeAssumption
<1> QED BY <1>2, <1>3

\* The intersection of two sets keeps what their stakes exceed the total by.
LEMMA StakeOverlap ==
  ASSUME NEW S \in SUBSET Validators, NEW T \in SUBSET Validators
  PROVE  /\ StakeOf[S \cap T] \in Nat
         /\ StakeOf[S \cap T] >= StakeOf[S] + StakeOf[T] - StakeOf[Validators]
<1>1. StakeOf[S \cup T] + StakeOf[S \cap T] = StakeOf[S] + StakeOf[T]
  BY StakeAssumption
<1>2. StakeOf[S \cup T] <= StakeOf[Validators] /\ StakeOf[S \cup T] \in Nat
      /\ StakeOf[Validators] \in Nat
  BY StakeMonotone
<1>3. StakeOf[S \cap T] \in Nat /\ StakeOf[S] \in Nat /\ StakeOf[T] \in Nat
  BY StakeMonotone
<1> QED BY <1>1, <1>2, <1>3

\* Any three quorums of the whole set have a validator in common: the threshold
\* floor(2T/3) + 1 of stake_quorum_threshold is strictly above two thirds.
THEOREM ThreeQuorumsMeet ==
  ASSUME NEW A \in SUBSET Validators, NEW B \in SUBSET Validators,
         NEW C \in SUBSET Validators,
         IsQuorum(A, Validators), IsQuorum(B, Validators), IsQuorum(C, Validators)
  PROVE  A \cap B \cap C # {}
<1> DEFINE q == Threshold(Validators)
           t == StakeOf[Validators]
<1>1. A \cap Validators = A /\ B \cap Validators = B /\ C \cap Validators = C
  OBVIOUS
<1>2. StakeOf[A] >= q /\ StakeOf[B] >= q /\ StakeOf[C] >= q
  BY <1>1 DEF IsQuorum
<1>3. t \in Nat /\ StakeOf[A] \in Nat /\ StakeOf[B] \in Nat /\ StakeOf[C] \in Nat
  BY StakeMonotone
<1>4. q \in Nat /\ 3 * q > 2 * t
  BY <1>3 DEF Threshold
<1>5. StakeOf[A \cap B] \in Nat /\ StakeOf[A \cap B] >= StakeOf[A] + StakeOf[B] - t
  BY StakeOverlap
<1>6. /\ StakeOf[(A \cap B) \cap C] \in Nat
      /\ StakeOf[(A \cap B) \cap C] >= StakeOf[A \cap B] + StakeOf[C] - t
  BY StakeOverlap
<1>7. StakeOf[(A \cap B) \cap C] > 0
  <2> HIDE DEF q, t
  <2> QED BY <1>2, <1>3, <1>4, <1>5, <1>6
<1>8. StakeOf[{}] = 0
  BY StakeAssumption
<1> QED BY <1>7, <1>8

\* A set that contains a quorum is one.
LEMMA LargerQuorum ==
  ASSUME NEW S \in SUBSET Validators, NEW T \in SUBSET S,
         IsQuorum(T, Validators)
  PROVE  IsQuorum(S, Validators)
<1>1. StakeOf[T] <= StakeOf[S] /\ StakeOf[T] \in Nat /\ StakeOf[S] \in Nat
      /\ StakeOf[Validators] \in Nat
  BY StakeMonotone
<1>2. T \cap Validators = T /\ S \cap Validators = S
  OBVIOUS
<1>3. Threshold(Validators) \in Nat
  BY <1>1 DEF Threshold
<1> QED BY <1>1, <1>2, <1>3 DEF IsQuorum

-----------------------------------------------------------------------------

\* leader_for_epoch picks an active validator whenever there is one: the draw
\* always falls into somebody's share of the stake.
THEOREM LeaderIsActive ==
  ASSUME NEW r \in Rounds, NEW active \in SUBSET Validators
  PROVE  LeaderForEpoch(r, active) \in active \cup {None}
<1> DEFINE upTo(u) == {w \in active : w <= u}
           draw == EpochHash[r] % StakeOf[active]
           Above == {u \in active : StakeOf[upTo(u)] > draw}
<1>1. SUFFICES ASSUME active # {}
               PROVE  LeaderForEpoch(r, active) \in active
  BY DEF LeaderForEpoch
<1>2. active \in SUBSET Nat /\ IsFiniteSet(active)
  BY ValidatorAssumption, FS_Subset
<1>3. draw \in Nat /\ draw < StakeOf[active]
  <2>1. EpochHash[r] \in Nat
    BY BoundAssumption
  <2>2. StakeOf[active] \in Nat /\ StakeOf[active] > 0
    BY <1>1, StakePositive, StakeMonotone
  <2> QED BY <2>1, <2>2
<1>4. Above # {}
  <2>1. PICK m \in active : \A x \in active : x <= m
    BY <1>1, <1>2, GreatestNatural
  <2>2. upTo(m) = active
    BY <2>1
  <2>3. StakeOf[active] \in Nat
    BY StakeMonotone
  <2> HIDE DEF draw
  <2> QED BY <1>3, <2>1, <2>2, <2>3
<1>5. PICK u \in Above : \A w \in Above : u <= w
  BY <1>2, <1>4, LeastNatural
<1>6. StakeOf[upTo(u) \ {u}] <= draw
  <2> DEFINE below == upTo(u) \ {u}
  <2>1. CASE below = {}
    <3>1. StakeOf[below] = 0
      BY <2>1, StakeAssumption
    <3> HIDE DEF draw
    <3> QED BY <1>3, <3>1
  <2>2. CASE below # {}
    <3>1. below \in SUBSET Nat /\ IsFiniteSet(below)
      BY <1>2, FS_Subset
    <3>2. PICK m \in below : \A x \in below : x <= m
      BY <2>2, <3>1, GreatestNatural
    <3>3. u \in Nat /\ m \in Nat /\ m < u
      BY <1>2, <3>2
    <3>4. m \in active /\ m \notin Above
      BY <1>2, <1>5, <3>2, <3>3
    <3>5. upTo(m) = below
      <4>1. ASSUME NEW w \in active PROVE w <= m <=> w <= u /\ w # u
        <5>1. w \in Nat
          BY <1>2
        <5>2. w <= u /\ w # u => w \in below
          OBVIOUS
        <5> HIDE DEF below
        <5> QED BY <3>2, <3>3, <5>1, <5>2
      <4> QED BY <4>1
    <3>6. StakeOf[upTo(m)] \in Nat
      BY StakeMonotone
    <3>7. ~(StakeOf[upTo(m)] > draw)
      BY <3>4
    <3> HIDE DEF draw
    <3> QED BY <1>3, <3>5, <3>6, <3>7
  <2> QED BY <2>1, <2>2
<1>7. \E w \in active : StakeOf[upTo(w)] > draw /\ StakeOf[upTo(w) \ {w}] <= draw
  BY <1>5, <1>6
<1>8. LeaderForEpoch(r, active)
        = CHOOSE w \in active : /\ StakeOf[upTo(w)] > draw
                                /\ StakeOf[upTo(w) \ {w}] <= draw
  BY <1>1 DEF LeaderForEpoch
<1> QED BY <1>7, <1>8

-----------------------------------------------------------------------------
(* The types of the engine's state.                                        *)

ProposalRecords == [round : Rounds, from : Validators, block : Blocks]
VoteRecords == [round : Rounds, from : Validators, vote : Votes]

-----------------------------------------------------------------------------
(* Types of the operators the actions are made of.                         *)

\* A fresh round state has its type, and round 0 exists.
LEMMA FreshRound ==
  /\ 0 \in Rounds
  /\ \A r \in Rounds : NewRoundState(r) \in RoundStates
BY BoundAssumption DEF Rounds, NewRoundState, RoundStates, Phases

\* The round-skip of on_message keeps the type of the round state.
LEMMA SkipToType ==
  ASSUME NEW s \in RoundStates, NEW r \in Rounds
  PROVE  SkipTo(s, r) \in RoundStates
BY FreshRound DEF SkipTo

\* What can be delivered has its type, from faulty validators too.
LEMMA MessageTypes ==
  ASSUME TypeOK
  PROVE  /\ KnownBlocks \subseteq Blocks
         /\ Proposals \subseteq ProposalRecords
         /\ Prevotes \subseteq VoteRecords
         /\ Precommits \subseteq VoteRecords
         /\ Attesters \subseteq Validators
<1>1. KnownBlocks \subseteq Blocks
  <2>1. \A m \in proposalMsgs : m.block \in Blocks
    BY DEF TypeOK
  <2>2. Faulty \X (0 .. (FaultyBlocks - 1)) \subseteq Blocks
    <3>1. 0 .. (FaultyBlocks - 1) \subseteq Nat
      BY BoundAssumption
    <3>2. Faulty \subseteq Validators
      BY ValidatorAssumption
    <3> QED BY <3>1, <3>2, Zenon DEF Blocks
  <2> QED BY <2>1, <2>2 DEF KnownBlocks
<1>2. Proposals \subseteq ProposalRecords
  BY <1>1, ValidatorAssumption DEF TypeOK, Proposals, ProposalRecords
<1>3. FaultyVotes \subseteq VoteRecords
  BY <1>1, ValidatorAssumption DEF FaultyVotes, VoteRecords, Votes
<1>4. Prevotes \subseteq VoteRecords /\ Precommits \subseteq VoteRecords
  BY <1>3 DEF TypeOK, Prevotes, Precommits, VoteRecords
<1>5. Attesters \subseteq Validators
  <2>1. \A m \in attestationMsgs : m.from \in Validators
    BY DEF TypeOK
  <2> QED BY <2>1, ValidatorAssumption DEF Attesters
<1> QED BY <1>1, <1>2, <1>4, <1>5

\* The value of a quorum is a vote, never the absence of one.
LEMMA QuorumValuesType ==
  ASSUME NEW active, NEW votes \in [Validators -> Votes \cup {None}]
  PROVE  QuorumValues(active, votes) \subseteq Votes
BY DEF QuorumValues

\* A committable block is a block.
LEMMA CommittableType ==
  ASSUME NEW active, NEW s \in RoundStates
  PROVE  Committable(active, s) \subseteq Blocks
<1>1. s.precommits \in [Validators -> Votes \cup {None}]
  BY DEF RoundStates
<1>2. s.proposed \in Blocks \cup {None}
  BY DEF RoundStates
<1> QED BY <1>1, <1>2, QuorumValuesType, SentinelAssumption DEF Committable, Votes

\* Precommitting keeps the types of all it assigns.
LEMMA EnterPrecommitType ==
  ASSUME TypeOK, NEW v \in Validators, NEW s \in RoundStates, NEW x \in Votes,
         EnterPrecommit(v, s, x)
  PROVE  /\ rs' \in [Validators -> RoundStates]
         /\ lockedBlock' \in [Validators -> Blocks \cup {None}]
         /\ lockedRound' \in [Validators -> Rounds \cup {-1}]
         /\ precommitMsgs' \subseteq VoteRecords
<1>1. s.round \in Rounds
  BY DEF RoundStates
<1>2. [s EXCEPT !.phase = "Precommit", !.precommitted = TRUE,
                !.precommits[v] = IF s.precommitted THEN @ ELSE x] \in RoundStates
  BY DEF RoundStates, Phases
<1>3. rs' \in [Validators -> RoundStates]
  BY <1>2 DEF EnterPrecommit, TypeOK
<1>4. precommitMsgs' \subseteq VoteRecords
  BY <1>1 DEF EnterPrecommit, TypeOK, Vote, VoteRecords
<1>5. x # Nil => x \in Blocks
  BY DEF Votes
<1>6. /\ lockedBlock' \in [Validators -> Blocks \cup {None}]
      /\ lockedRound' \in [Validators -> Rounds \cup {-1}]
  <2>1. CASE ~s.precommitted /\ x # Nil /\ s.proposed = x
    BY <2>1, <1>1, <1>5 DEF EnterPrecommit, TypeOK
  <2>2. CASE ~(~s.precommitted /\ x # Nil /\ s.proposed = x)
    BY <2>2 DEF EnterPrecommit, TypeOK
  <2> QED BY <2>1, <2>2
<1> QED BY <1>3, <1>4, <1>6

\* Committing keeps the types of all it assigns.
LEMMA CommitType ==
  ASSUME TypeOK, NEW v \in Validators, NEW b \in Blocks,
         NEW S \in SUBSET Validators, Commit(v, b, S)
  PROVE  /\ rs' \in [Validators -> RoundStates]
         /\ lockedBlock' \in [Validators -> Blocks \cup {None}]
         /\ lockedRound' \in [Validators -> Rounds \cup {-1}]
         /\ committed' \in [Validators -> Blocks \cup {None}]
         /\ cert' \in [Validators -> SUBSET Validators]
BY FreshRound DEF TypeOK, Commit

\* advance_round keeps the types of all it assigns.
LEMMA AdvanceRoundType ==
  ASSUME TypeOK, NEW v \in Validators, AdvanceRound(v)
  PROVE  /\ rs' \in [Validators -> RoundStates]
         /\ jailed' \in [Validators -> SUBSET Validators]
         /\ missedProposals' \in [Validators -> [Validators -> Nat]]
         /\ missedVotes' \in [Validators -> [Validators -> Nat]]
         /\ wraps' \in [Validators -> 0 .. MaxWraps]
<1> DEFINE s == rs[v]
           leader == ProposerForRound(v, s.round)
           missed == s.proposed = None /\ leader # None
           lateProposer == missed /\ missedProposals[v][leader] + 1 >= ProposalMissLimit
           jailed1 == IF lateProposer THEN jailed[v] \cup {leader} ELSE jailed[v]
           silent == {u \in Validators \ jailed1 :
                        s.prevotes[u] = None /\ s.precommits[u] = None}
           absent == {u \in silent : missedVotes[v][u] + 1 >= VoteMissLimit}
           wrap == s.round + 1 >= MaxRounds
<1>1. s.round \in Rounds
  BY DEF TypeOK, RoundStates
<1>2. leader \in Validators \cup {None}
  <2>1. Active(v) \in SUBSET Validators
    BY DEF Active
  <2> QED BY <1>1, <2>1, LeaderIsActive DEF ProposerForRound
<1>3. /\ wrap => wraps[v] < MaxWraps
      /\ wraps' = IF wrap THEN [wraps EXCEPT ![v] = @ + 1] ELSE wraps
      /\ rs' = [rs EXCEPT ![v] = NewRoundState(IF wrap THEN 0 ELSE s.round + 1)]
      /\ missedProposals' = IF missed
           THEN [missedProposals EXCEPT ![v][leader] = IF lateProposer THEN 0 ELSE @ + 1]
           ELSE missedProposals
      /\ missedVotes' = [missedVotes EXCEPT ![v] =
           [u \in Validators |->
              IF u \in jailed1 THEN missedVotes[v][u]
              ELSE IF u \in silent \ absent THEN missedVotes[v][u] + 1 ELSE 0]]
      /\ jailed' = [jailed EXCEPT ![v] = jailed1 \cup absent]
  BY Zenon DEF AdvanceRound
<1>4. rs' \in [Validators -> RoundStates]
  <2>1. (IF wrap THEN 0 ELSE s.round + 1) \in Rounds
    BY <1>1, BoundAssumption, SMTT(30) DEF Rounds
  <2> HIDE DEF s, wrap
  <2> QED BY <1>3, <2>1, FreshRound DEF TypeOK
<1>5. wraps' \in [Validators -> 0 .. MaxWraps]
  <2> MaxWraps \in Nat
    BY BoundAssumption
  <2> HIDE DEF wrap
  <2>1. CASE wrap
    BY <1>3, <2>1 DEF TypeOK
  <2>2. CASE ~wrap
    BY <1>3, <2>2 DEF TypeOK
  <2> QED BY <2>1, <2>2
<1>6. missedProposals' \in [Validators -> [Validators -> Nat]]
  <2>0. missed => leader \in Validators
    BY <1>2
  <2> HIDE DEF missed, lateProposer, leader
  <2>1. CASE ~missed
    BY <1>3, <2>1 DEF TypeOK
  <2>2. CASE missed
    <3> DEFINE misses == IF lateProposer THEN 0 ELSE missedProposals[v][leader] + 1
    <3>1. misses \in Nat /\ missedProposals[v] \in [Validators -> Nat]
      BY <2>0, <2>2 DEF TypeOK
    <3>2. missedProposals' = [missedProposals EXCEPT ![v] =
                                [missedProposals[v] EXCEPT ![leader] = misses]]
      BY <1>3, <2>2 DEF TypeOK
    <3> HIDE DEF misses
    <3> QED BY <3>1, <3>2 DEF TypeOK
  <2> QED BY <2>1, <2>2
<1>7. missedVotes' \in [Validators -> [Validators -> Nat]]
  <2> HIDE DEF jailed1, silent, absent
  <2>1. missedVotes[v] \in [Validators -> Nat]
    BY DEF TypeOK
  <2>2. [u \in Validators |->
           IF u \in jailed1 THEN missedVotes[v][u]
           ELSE IF u \in silent \ absent THEN missedVotes[v][u] + 1 ELSE 0]
          \in [Validators -> Nat]
    BY <2>1
  <2> QED BY <1>3, <2>2 DEF TypeOK
<1>8. jailed' \in [Validators -> SUBSET Validators]
  <2>1. jailed1 \cup absent \subseteq Validators
    <3>1. jailed[v] \subseteq Validators
      BY DEF TypeOK
    <3>2. lateProposer => leader \in Validators
      BY <1>2
    <3> HIDE DEF leader, lateProposer
    <3> QED BY <3>1, <3>2
  <2> HIDE DEF jailed1, absent
  <2> QED BY <1>3, <2>1 DEF TypeOK
<1> QED BY <1>4, <1>5, <1>6, <1>7, <1>8

\* The eager attestation of the node keeps the types of all it assigns.
LEMMA EagerAttestationType ==
  ASSUME TypeOK, NEW v \in Validators, NEW b \in Blocks, NEW s \in RoundStates,
         NEW active, NEW proposer, EagerAttestation(v, b, s, active, proposer)
  PROVE  /\ rs' \in [Validators -> RoundStates]
         /\ daAttestations' \in [Validators -> SUBSET Validators]
         /\ attestationMsgs' \subseteq [from : Validators, block : Blocks]
<1>1. [s EXCEPT !.phase = "Commit", !.proposed = None] \in RoundStates
  BY DEF RoundStates, Phases
<1>2. rs' \in [Validators -> RoundStates]
  <2>1. \E t \in RoundStates : rs' = [rs EXCEPT ![v] = t]
    BY <1>1, Zenon DEF EagerAttestation
  <2> QED BY <2>1 DEF TypeOK
<1>3. daAttestations' \in [Validators -> SUBSET Validators]
  <2>1. \/ daAttestations' = [daAttestations EXCEPT ![v] = daAttestations[v] \cup {v}]
        \/ daAttestations' = daAttestations
    BY Zenon DEF EagerAttestation
  <2> QED BY <2>1 DEF TypeOK
<1>4. attestationMsgs' \subseteq [from : Validators, block : Blocks]
  <2>1. \/ attestationMsgs' = attestationMsgs \cup {Attestation(v, b)}
        \/ attestationMsgs' = attestationMsgs
    BY Zenon DEF EagerAttestation
  <2> QED BY <2>1 DEF TypeOK, Attestation
<1> QED BY <1>2, <1>3, <1>4

\* Slashing keeps the types of all it assigns.
LEMMA SlashType ==
  ASSUME TypeOK, NEW v \in Validators, NEW u \in Validators,
         SlashEquivocation(v, u)
  PROVE  /\ jailed' \in [Validators -> SUBSET Validators]
         /\ missedProposals' \in [Validators -> [Validators -> Nat]]
         /\ missedVotes' \in [Validators -> [Validators -> Nat]]
BY DEF TypeOK, SlashEquivocation

\* Each tick keeps the types.
LEMMA TickType ==
  ASSUME TypeOK, NEW v \in Correct, Tick(v)
  PROVE  TypeOK'
<1>0. v \in Validators /\ rs[v] \in RoundStates
  BY DEF Correct, TypeOK
<1> USE DEF engineVars, slashVars, daVars, heightVars, boundVars, msgVars
<1>1. CASE TickPropose(v)
  <2> DEFINE b == CreateProposal(v)
  <2>0. /\ rs' = [rs EXCEPT ![v] = [rs[v] EXCEPT !.phase = "Prevote",
                     !.proposed = b, !.prevoted = TRUE, !.prevotes[v] = b]]
        /\ proposalMsgs' = proposalMsgs \cup {Proposal(rs[v].round, v, b)}
        /\ prevoteMsgs' = prevoteMsgs \cup {Vote(rs[v].round, v, b)}
    BY <1>1, Zenon DEF TickPropose
  <2>1. b \in Blocks
    BY <1>0 DEF TypeOK, Blocks, CreateProposal
  <2>2. made' \in [Validators -> Nat]
    <3>1. made' = [made EXCEPT ![v] = @ + 1] \/ made' = made
      BY <1>1, Zenon DEF TickPropose
    <3> QED BY <1>0, <3>1 DEF TypeOK
  <2> HIDE DEF b
  <2>3. rs' \in [Validators -> RoundStates]
    <3>2. [rs[v] EXCEPT !.phase = "Prevote", !.proposed = b, !.prevoted = TRUE,
                        !.prevotes[v] = b] \in RoundStates
      BY <1>0, <2>1 DEF RoundStates, Phases, Votes
    <3> QED BY <2>0, <3>2 DEF TypeOK
  <2>4. rs[v].round \in Rounds
    BY <1>0 DEF RoundStates
  <2>5. proposalMsgs' \subseteq ProposalRecords
    BY <1>0, <2>0, <2>1, <2>4 DEF TypeOK, Proposal, ProposalRecords
  <2>6. prevoteMsgs' \subseteq VoteRecords
    BY <1>0, <2>0, <2>1, <2>4 DEF TypeOK, Vote, VoteRecords, Votes
  <2>7. attestationMsgs' \subseteq [from : Validators, block : Blocks]
    <3>1. \/ attestationMsgs' = attestationMsgs \cup {Attestation(v, b)}
          \/ attestationMsgs' = attestationMsgs \cup {}
      BY <1>1, Zenon DEF TickPropose, b
    <3> QED BY <1>0, <2>1, <3>1 DEF TypeOK, Attestation
  <2>8. daProposer' \in [Validators -> Validators \cup {None}]
    BY <1>0, <1>1 DEF TickPropose, TypeOK
  <2> QED BY <1>1, <2>2, <2>3, <2>5, <2>6, <2>7, <2>8
          DEF TickPropose, TypeOK, ProposalRecords, VoteRecords
<1>2. CASE TickProposeTimeout(v)
  <2>1. \/ /\ rs' = [rs EXCEPT ![v] = [rs[v] EXCEPT !.phase = "Prevote"]]
           /\ prevoteMsgs' = prevoteMsgs
        \/ /\ rs' = [rs EXCEPT ![v] = [rs[v] EXCEPT !.phase = "Prevote",
                                         !.prevoted = TRUE, !.prevotes[v] = Nil]]
           /\ prevoteMsgs' = prevoteMsgs \cup {Vote(rs[v].round, v, Nil)}
    BY <1>2, Zenon DEF TickProposeTimeout
  <2>2. rs' \in [Validators -> RoundStates]
    <3>1. /\ [rs[v] EXCEPT !.phase = "Prevote"] \in RoundStates
          /\ [rs[v] EXCEPT !.phase = "Prevote", !.prevoted = TRUE,
                           !.prevotes[v] = Nil] \in RoundStates
      BY <1>0 DEF RoundStates, Phases, Votes
    <3> QED BY <2>1, <3>1 DEF TypeOK
  <2>3. prevoteMsgs' \subseteq VoteRecords
    BY <1>0, <2>1 DEF TypeOK, Vote, VoteRecords, RoundStates, Votes
  <2> QED BY <1>2, <2>2, <2>3 DEF TickProposeTimeout, TypeOK, VoteRecords
<1>3. CASE TickPrevoteQuorum(v)
  <2>1. PICK x \in QuorumValues(Active(v), rs[v].prevotes) :
          EnterPrecommit(v, rs[v], x)
    BY <1>3 DEF TickPrevoteQuorum
  <2>2. x \in Votes
    BY <1>0, QuorumValuesType DEF RoundStates
  <2> QED BY <1>0, <1>3, <2>1, <2>2, EnterPrecommitType
          DEF TickPrevoteQuorum, TypeOK, VoteRecords
<1>4. CASE TickPrevoteTimeout(v)
  BY <1>0, <1>4, EnterPrecommitType DEF TickPrevoteTimeout, TypeOK, VoteRecords, Votes
<1>5. CASE TickCommit(v)
  <2>1. PICK b \in Committable(Active(v), rs[v]) :
          Commit(v, b, VotersFor(rs[v].precommits, b))
    BY <1>5 DEF TickCommit
  <2>2. b \in Blocks /\ VotersFor(rs[v].precommits, b) \in SUBSET Validators
    BY <1>0, CommittableType DEF VotersFor
  <2> QED BY <1>0, <1>5, <2>1, <2>2, CommitType DEF TickCommit, TypeOK
<1>6. CASE TickMismatch(v) \/ TickCommitPhase(v)
  <2>1. rs' \in [Validators -> RoundStates]
    <3>1. [rs[v] EXCEPT !.proposed = None] \in RoundStates
      BY <1>0 DEF RoundStates
    <3>2. rs' = [rs EXCEPT ![v] = [rs[v] EXCEPT !.proposed = None]]
      BY <1>6, Zenon DEF TickMismatch, TickCommitPhase
    <3> QED BY <3>1, <3>2 DEF TypeOK
  <2> QED BY <1>6, <2>1 DEF TickMismatch, TickCommitPhase, TypeOK
<1>7. CASE TickNilQuorum(v) \/ TickPrecommitTimeout(v)
  BY <1>0, <1>7, AdvanceRoundType DEF TickNilQuorum, TickPrecommitTimeout, TypeOK
<1> QED BY <1>1, <1>2, <1>3, <1>4, <1>5, <1>6, <1>7 DEF Tick

\* Each delivery keeps the types.
LEMMA OnMessageType ==
  ASSUME TypeOK, NEW v \in Correct, OnMessage(v)
  PROVE  TypeOK'
<1>0. v \in Validators /\ rs[v] \in RoundStates
  BY DEF Correct, TypeOK
<1> USE DEF engineVars, slashVars, daVars, heightVars, boundVars, msgVars
<1>1. ASSUME NEW m \in Proposals, OnProposalRejected(v, m)
      PROVE  TypeOK'
  <2>1. m.block \in Blocks /\ m.round \in Rounds
    BY MessageTypes DEF ProposalRecords
  <2>2. SkipTo(rs[v], m.round) \in RoundStates
    BY <1>0, <2>1, SkipToType
  <2>3. EagerAttestation(v, m.block, SkipTo(rs[v], m.round), Active(v), daProposer[v])
    BY <1>1 DEF OnProposalRejected
  <2> QED BY <1>0, <1>1, <2>1, <2>2, <2>3, EagerAttestationType
          DEF OnProposalRejected, TypeOK
<1>8. ASSUME NEW m \in Proposals, OnProposalInvalid(v, m)
      PROVE  TypeOK'
  <2>1. /\ m.block \in Blocks /\ m.round \in Rounds
        /\ m \in ProposalRecords
    BY MessageTypes DEF ProposalRecords
  <2>2. SkipTo(rs[v], m.round) \in RoundStates
    BY <1>0, <2>1, SkipToType
  <2>3. EagerAttestation(v, m.block, SkipTo(rs[v], m.round), Active(v), daProposer[v])
    BY <1>8 DEF OnProposalInvalid
  <2>4. proposalsSeen' \in [Validators -> SUBSET ProposalRecords]
    BY <1>0, <1>8, <2>1 DEF OnProposalInvalid, TypeOK, ProposalRecords
  <2> QED BY <1>0, <1>8, <2>1, <2>2, <2>3, <2>4, EagerAttestationType
          DEF OnProposalInvalid, TypeOK, ProposalRecords
<1>2. ASSUME NEW m \in Proposals, OnProposalEquivocation(v, m)
      PROVE  TypeOK'
  <2>1. m.block \in Blocks /\ m.round \in Rounds /\ m.from \in Validators
    BY MessageTypes DEF ProposalRecords
  <2>2. SkipTo(rs[v], m.round) \in RoundStates
    BY <1>0, <2>1, SkipToType
  <2>3. /\ EagerAttestation(v, m.block, SkipTo(rs[v], m.round),
                            Active(v) \ {m.from}, daProposer[v])
        /\ SlashEquivocation(v, m.from)
    BY <1>2 DEF OnProposalEquivocation
  <2>4. /\ jailed' \in [Validators -> SUBSET Validators]
        /\ missedProposals' \in [Validators -> [Validators -> Nat]]
        /\ missedVotes' \in [Validators -> [Validators -> Nat]]
    BY <1>0, <2>1, <2>3, SlashType
  <2>5. /\ rs' \in [Validators -> RoundStates]
        /\ daAttestations' \in [Validators -> SUBSET Validators]
        /\ attestationMsgs' \subseteq [from : Validators, block : Blocks]
    BY <1>0, <2>1, <2>2, <2>3, EagerAttestationType
  <2> QED BY <1>2, <2>4, <2>5 DEF OnProposalEquivocation, TypeOK
<1>3. ASSUME NEW m \in Proposals, OnProposal(v, m)
      PROVE  TypeOK'
  <2> DEFINE s == SkipTo(rs[v], m.round)
             x == VoteOn(v, m.block)
             held == [s EXCEPT !.proposed = m.block]
             voted == [held EXCEPT !.phase = "Prevote", !.prevoted = TRUE,
                                   !.prevotes[v] = x]
             proposer == IF s.prevoted \/ x = Nil THEN daProposer[v] ELSE m.block[1]
  <2>1. /\ m.block \in Blocks /\ m.round \in Rounds /\ m.from \in Validators
        /\ m \in ProposalRecords
    BY MessageTypes DEF ProposalRecords
  <2>2. s \in RoundStates
    BY <1>0, <2>1, SkipToType
  <2>3. x \in Votes
    BY <2>1 DEF VoteOn, Votes
  <2> HIDE DEF s, x
  <2>4. held \in RoundStates /\ voted \in RoundStates
    BY <1>0, <2>1, <2>2, <2>3 DEF RoundStates, Phases
  <2>5. proposer \in Validators \cup {None}
    BY <1>0, <2>1 DEF TypeOK, Blocks
  <2>6. /\ proposalsSeen' = [proposalsSeen EXCEPT ![v] = @ \cup {m}]
        /\ daProposer' = [daProposer EXCEPT ![v] = proposer]
        /\ prevoteMsgs' = IF s.prevoted THEN prevoteMsgs
                          ELSE prevoteMsgs \cup {Vote(m.round, v, x)}
        /\ EagerAttestation(v, m.block, IF s.prevoted THEN held ELSE voted,
                            Active(v), proposer)
    BY <1>3, Zenon DEF OnProposal, s, x
  <2> HIDE DEF held, voted, proposer
  <2>7. (IF s.prevoted THEN held ELSE voted) \in RoundStates
    BY <2>4
  <2>8. /\ rs' \in [Validators -> RoundStates]
        /\ daAttestations' \in [Validators -> SUBSET Validators]
        /\ attestationMsgs' \subseteq [from : Validators, block : Blocks]
    BY <1>0, <2>1, <2>6, <2>7, EagerAttestationType, Zenon
  <2>9. prevoteMsgs' \subseteq VoteRecords
    BY <1>0, <2>1, <2>3, <2>6 DEF TypeOK, Vote, VoteRecords
  <2>10. /\ proposalsSeen' \in [Validators -> SUBSET ProposalRecords]
         /\ daProposer' \in [Validators -> Validators \cup {None}]
    BY <1>0, <2>1, <2>5, <2>6 DEF TypeOK, ProposalRecords
  <2> QED BY <1>3, <2>8, <2>9, <2>10 DEF OnProposal, TypeOK, VoteRecords, ProposalRecords
<1>4. ASSUME NEW m \in Prevotes \cup Precommits,
             OnPrevoteEquivocation(v, m) \/ OnPrecommitEquivocation(v, m)
      PROVE  TypeOK'
  <2>1. m.from \in Validators
    BY MessageTypes DEF VoteRecords
  <2>2. SlashEquivocation(v, m.from)
    BY <1>4 DEF OnPrevoteEquivocation, OnPrecommitEquivocation
  <2> QED BY <1>0, <1>4, <2>1, <2>2, SlashType
          DEF OnPrevoteEquivocation, OnPrecommitEquivocation, TypeOK
<1>5. ASSUME NEW m \in Prevotes, OnPrevote(v, m)
      PROVE  TypeOK'
  <2> DEFINE s == SkipTo(rs[v], m.round)
             t == [s EXCEPT !.prevotes[m.from] = m.vote]
  <2>1. m.round \in Rounds /\ m.from \in Validators /\ m.vote \in Votes
    BY MessageTypes DEF VoteRecords
  <2>2. s \in RoundStates
    BY <1>0, <2>1, SkipToType
  <2> HIDE DEF s
  <2>3. t \in RoundStates
    BY <2>1, <2>2 DEF RoundStates
  <2>4. QuorumValues(Active(v), t.prevotes) \subseteq Votes
    BY <2>3, QuorumValuesType DEF RoundStates
  <2> HIDE DEF t
  <2>5. \/ /\ rs' = [rs EXCEPT ![v] = t]
           /\ UNCHANGED <<lockedBlock, lockedRound, precommitMsgs>>
        \/ \E x \in QuorumValues(Active(v), t.prevotes) : EnterPrecommit(v, t, x)
    BY <1>5, Zenon DEF OnPrevote, s, t
  <2>6. /\ rs' \in [Validators -> RoundStates]
        /\ lockedBlock' \in [Validators -> Blocks \cup {None}]
        /\ lockedRound' \in [Validators -> Rounds \cup {-1}]
        /\ precommitMsgs' \subseteq VoteRecords
    <3>1. CASE /\ rs' = [rs EXCEPT ![v] = t]
               /\ UNCHANGED <<lockedBlock, lockedRound, precommitMsgs>>
      BY <2>3, <3>1 DEF TypeOK, VoteRecords
    <3>2. CASE \E x \in QuorumValues(Active(v), t.prevotes) : EnterPrecommit(v, t, x)
      BY <1>0, <2>3, <2>4, <3>2, EnterPrecommitType
    <3> QED BY <2>5, <3>1, <3>2
  <2> QED BY <1>5, <2>6 DEF OnPrevote, TypeOK, VoteRecords
<1>6. ASSUME NEW m \in Precommits, OnPrecommit(v, m)
      PROVE  TypeOK'
  <2> DEFINE s == SkipTo(rs[v], m.round)
             t == [s EXCEPT !.precommits[m.from] = m.vote]
             committable == Committable(Active(v), t)
  <2>1. m.round \in Rounds /\ m.from \in Validators /\ m.vote \in Votes
    BY MessageTypes DEF VoteRecords
  <2>2. s \in RoundStates
    BY <1>0, <2>1, SkipToType
  <2> HIDE DEF s
  <2>3. t \in RoundStates /\ [t EXCEPT !.proposed = None] \in RoundStates
    BY <2>1, <2>2 DEF RoundStates
  <2> HIDE DEF t
  <2>4. committable \subseteq Blocks
    BY <2>3, CommittableType
  <2> HIDE DEF committable
  <2>5. \/ \E b \in committable : Commit(v, b, VotersFor(t.precommits, b))
        \/ /\ \/ rs' = [rs EXCEPT ![v] = t]
              \/ rs' = [rs EXCEPT ![v] = [t EXCEPT !.proposed = None]]
           /\ UNCHANGED <<lockedBlock, lockedRound, heightVars>>
    BY <1>6, Zenon DEF OnPrecommit, s, t, committable
  <2>6. /\ rs' \in [Validators -> RoundStates]
        /\ lockedBlock' \in [Validators -> Blocks \cup {None}]
        /\ lockedRound' \in [Validators -> Rounds \cup {-1}]
        /\ committed' \in [Validators -> Blocks \cup {None}]
        /\ cert' \in [Validators -> SUBSET Validators]
    <3>1. CASE \E b \in committable : Commit(v, b, VotersFor(t.precommits, b))
      <4>1. PICK b \in committable : Commit(v, b, VotersFor(t.precommits, b))
        BY <3>1
      <4>2. VotersFor(t.precommits, b) \in SUBSET Validators
        BY DEF VotersFor
      <4> QED BY <1>0, <2>4, <4>1, <4>2, CommitType
    <3>2. CASE ~\E b \in committable : Commit(v, b, VotersFor(t.precommits, b))
      BY <2>3, <2>5, <3>2, ZenonT(30) DEF TypeOK
    <3> QED BY <3>1, <3>2
  <2> QED BY <1>6, <2>6 DEF OnPrecommit, TypeOK
<1>7. ASSUME NEW u \in Attesters, OnDAAttestation(v, u)
      PROVE  TypeOK'
  <2>1. u \in Validators
    BY MessageTypes
  <2>2. daAttestations' \in [Validators -> SUBSET Validators]
    BY <1>0, <1>7, <2>1 DEF OnDAAttestation, TypeOK
  <2>3. \/ \E b \in Committable(Active(v), rs[v]) :
             Commit(v, b, VotersFor(rs[v].precommits, b))
        \/ UNCHANGED <<engineVars, heightVars>>
    <3> DEFINE committable == IF rs[v].phase = "Precommit"
                              THEN Committable(Active(v), rs[v]) ELSE {}
    <3>1. \/ \E b \in committable : Commit(v, b, VotersFor(rs[v].precommits, b))
          \/ UNCHANGED <<engineVars, heightVars>>
      BY <1>7, Zenon DEF OnDAAttestation
    <3> QED BY <3>1
  <2>4. /\ rs' \in [Validators -> RoundStates]
        /\ lockedBlock' \in [Validators -> Blocks \cup {None}]
        /\ lockedRound' \in [Validators -> Rounds \cup {-1}]
        /\ committed' \in [Validators -> Blocks \cup {None}]
        /\ cert' \in [Validators -> SUBSET Validators]
    <3>1. CASE \E b \in Committable(Active(v), rs[v]) :
                 Commit(v, b, VotersFor(rs[v].precommits, b))
      <4>1. PICK b \in Committable(Active(v), rs[v]) :
              Commit(v, b, VotersFor(rs[v].precommits, b))
        BY <3>1
      <4>2. b \in Blocks /\ VotersFor(rs[v].precommits, b) \in SUBSET Validators
        BY <1>0, CommittableType DEF VotersFor
      <4> QED BY <1>0, <4>1, <4>2, CommitType
    <3>2. CASE UNCHANGED <<engineVars, heightVars>>
      BY <3>2 DEF TypeOK
    <3> QED BY <2>3, <3>1, <3>2
  <2> QED BY <1>7, <2>2, <2>4 DEF OnDAAttestation, TypeOK
<1> QED BY <1>1, <1>2, <1>3, <1>4, <1>5, <1>6, <1>7, <1>8 DEF OnMessage

\* Every state of the engine has its type, whatever faulty validators send and
\* however often validators restart.
THEOREM TypeCorrect == Spec => []TypeOK
<1>1. Init => TypeOK
  BY FreshRound, BoundAssumption DEF Init, TypeOK
<1>2. TypeOK /\ [Next]_vars => TypeOK'
  <2> USE DEF engineVars, slashVars, daVars, heightVars, boundVars, msgVars
  <2>1. SUFFICES ASSUME TypeOK, [Next]_vars PROVE TypeOK'
    OBVIOUS
  <2>2. CASE UNCHANGED vars
    BY <2>1, <2>2 DEF TypeOK, vars
  <2>3. ASSUME NEW v \in Correct, SyncApply(v) PROVE TypeOK'
    <3>1. PICK p \in SyncBlocks : Commit(v, p[1], p[2])
      BY <2>3 DEF SyncApply
    <3>2. p[1] \in Blocks /\ p[2] \in SUBSET Validators
      <4>1. ASSUME NEW u \in Correct, committed[u] # None,
                   p = <<committed[u], cert[u]>>
            PROVE  p[1] \in Blocks /\ p[2] \in SUBSET Validators
        BY <2>1, <4>1 DEF TypeOK, Correct
      <4>2. ASSUME p \in KnownBlocks \X SUBSET Validators
            PROVE  p[1] \in Blocks /\ p[2] \in SUBSET Validators
        BY <2>1, <4>2, MessageTypes
      <4>3. \/ \E u \in Correct : committed[u] # None /\ p = <<committed[u], cert[u]>>
            \/ p \in KnownBlocks \X SUBSET Validators
        BY <3>1 DEF SyncBlocks
      <4> QED BY <4>1, <4>2, <4>3
    <3>3. v \in Validators
      BY DEF Correct
    <3> QED BY <2>1, <2>3, <3>1, <3>2, <3>3, CommitType DEF SyncApply, TypeOK
  <2>4. ASSUME NEW v \in Correct, Restart(v) PROVE TypeOK'
    <3>1. v \in Validators /\ MaxRestarts \in Nat
      BY BoundAssumption DEF Correct
    <3> QED BY <2>1, <2>4, <3>1, FreshRound DEF Restart, TypeOK
  <2>5. ASSUME NEW v \in Correct, SetDraining(v) PROVE TypeOK'
    <3>1. draining' \in [Validators -> BOOLEAN]
      BY <2>1, <2>5 DEF SetDraining, TypeOK
    <3> QED BY <2>1, <2>5, <3>1 DEF SetDraining, TypeOK
  <2> QED BY <2>1, <2>2, <2>3, <2>4, <2>5, TickType, OnMessageType DEF Next
<1> QED BY <1>1, <1>2, PTL DEF Spec
=============================================================================
