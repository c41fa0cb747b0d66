-------------------------- MODULE AgreementProofs --------------------------
(***************************************************************************)
(* A height that nothing disturbs agrees, for every validator set, stake   *)
(* distribution, draw of leaders and number of rounds.                     *)
(***************************************************************************)
EXTENDS TendermintProofs, TendermintInvariant

-----------------------------------------------------------------------------
(* Quorums of messages.                                                    *)

\* A quorum has a member.
LEMMA QuorumMember ==
  ASSUME NEW S \in SUBSET Validators, IsQuorum(S, Validators)
  PROVE  \E u \in S : TRUE
<1>1. S \cap S \cap S # {}
  BY ThreeQuorumsMeet
<1> QED BY <1>1

\* A sender of a vote is one whose vote is among the messages.
LEMMA SendersVoted ==
  ASSUME NEW M \in SUBSET VoteRecords, NEW r \in Rounds, NEW x \in Votes
  PROVE  /\ Senders(M, r, x) \in SUBSET Validators
         /\ \A u \in Validators : u \in Senders(M, r, x) <=> Vote(r, u, x) \in M
<1>1. \A m \in M : m = Vote(m.round, m.from, m.vote) /\ m.from \in Validators
  BY DEF VoteRecords, Vote
<1>2. \A u \in Validators : Vote(r, u, x).from = u /\ Vote(r, u, x).round = r
                            /\ Vote(r, u, x).vote = x
  BY DEF Vote
<1> QED BY <1>1, <1>2 DEF Senders

\* More messages keep a quorum.
LEMMA QuorumsGrow ==
  ASSUME NEW N \in SUBSET VoteRecords, NEW M \in SUBSET N,
         NEW r, NEW x, VotedByQuorum(M, r, x)
  PROVE  VotedByQuorum(N, r, x)
<1> DEFINE S == Senders(N, r, x) \cup Faulty
           T == Senders(M, r, x) \cup Faulty
<1>1. \A m \in N : m.from \in Validators
  BY DEF VoteRecords
<1>2. S \in SUBSET Validators /\ T \in SUBSET S
  BY <1>1, ValidatorAssumption DEF Senders
<1>3. IsQuorum(T, Validators)
  BY DEF VotedByQuorum
<1> HIDE DEF S, T
<1>4. IsQuorum(S, Validators)
  BY <1>2, <1>3, LargerQuorum
<1> QED BY <1>4 DEF VotedByQuorum, S

\* Without faulty validators a quorum of votes is a quorum of senders, and one
\* of them sent its vote.
LEMMA VotesOfQuorum ==
  ASSUME Undisturbed, NEW M \in SUBSET VoteRecords, NEW r \in Rounds,
         NEW x \in Votes, VotedByQuorum(M, r, x)
  PROVE  /\ IsQuorum(Senders(M, r, x), Validators)
         /\ \E m \in M : m.round = r /\ m.vote = x
<1>1. IsQuorum(Senders(M, r, x), Validators)
  <2>1. Senders(M, r, x) \cup Faulty = Senders(M, r, x)
    BY DEF Undisturbed
  <2> QED BY <2>1 DEF VotedByQuorum
<1>2. Senders(M, r, x) \in SUBSET Validators
  BY SendersVoted
<1>3. PICK u \in Senders(M, r, x) : TRUE
  BY <1>1, <1>2, QuorumMember
<1>4. \E m \in M : m.round = r /\ m.vote = x
  BY <1>3 DEF Senders
<1> QED BY <1>1, <1>4

\* A quorum among the votes a validator recorded is one among those sent.
LEMMA RecordedQuorum ==
  ASSUME Undisturbed, TypeOK, NEW s \in RoundStates, RecordedSent(s)
  PROVE  /\ \A x \in QuorumValues(Validators, s.prevotes) :
              x \in Votes /\ VotedByQuorum(prevoteMsgs, s.round, x)
         /\ \A x \in QuorumValues(Validators, s.precommits) :
              x \in Votes /\ VotedByQuorum(precommitMsgs, s.round, x)
<1>0. s.round \in Rounds
  BY DEF RoundStates
<1>1. ASSUME NEW votes \in [Validators -> Votes \cup {None}],
             NEW M \in SUBSET VoteRecords,
             \A u \in Validators : votes[u] # None => Vote(s.round, u, votes[u]) \in M,
             NEW x \in QuorumValues(Validators, votes)
      PROVE  x \in Votes /\ VotedByQuorum(M, s.round, x)
  <2>1. x \in Votes
    BY QuorumValuesType
  <2>2. x # None /\ IsQuorum(VotersFor(votes, x), Validators)
    BY DEF QuorumValues
  <2>3. Senders(M, s.round, x) \in SUBSET Validators
    BY <1>0, <2>1, SendersVoted
  <2>4. VotersFor(votes, x) \in SUBSET Senders(M, s.round, x)
    <3>1. \A u \in VotersFor(votes, x) : u \in Validators /\ Vote(s.round, u, x) \in M
      BY <1>1, <2>2 DEF VotersFor
    <3> QED BY <1>0, <2>1, <3>1, SendersVoted
  <2>5. IsQuorum(Senders(M, s.round, x), Validators)
    BY <2>2, <2>3, <2>4, LargerQuorum
  <2>6. Senders(M, s.round, x) \cup Faulty = Senders(M, s.round, x)
    BY DEF Undisturbed
  <2> QED BY <2>1, <2>5, <2>6 DEF VotedByQuorum
<1>2. /\ s.prevotes \in [Validators -> Votes \cup {None}]
      /\ s.precommits \in [Validators -> Votes \cup {None}]
  BY DEF RoundStates
<1>3. prevoteMsgs \in SUBSET VoteRecords /\ precommitMsgs \in SUBSET VoteRecords
  BY DEF TypeOK, VoteRecords
<1>4. /\ \A u \in Validators : s.prevotes[u] # None =>
           Vote(s.round, u, s.prevotes[u]) \in prevoteMsgs
      /\ \A u \in Validators : s.precommits[u] # None =>
           Vote(s.round, u, s.precommits[u]) \in precommitMsgs
  BY DEF RecordedSent
<1> QED BY <1>1, <1>2, <1>3, <1>4
-----------------------------------------------------------------------------
(* The round state of one validator.                                       *)

\* Moving to a later round, by a round-skip or by advance_round, leaves nothing
\* of the old round behind and keeps the lock older than the round.
LEMMA LaterRound ==
  ASSUME TypeOK, NEW v \in Validators, NEW s \in RoundStates, RoundInv(v, s),
         NEW r \in Rounds, r > s.round
  PROVE  RoundInv(v, NewRoundState(r))
<1> DEFINE t == NewRoundState(r)
<1>1. /\ t.round = r /\ t.phase = "Propose" /\ t.proposed = None
      /\ ~t.prevoted /\ ~t.precommitted
      /\ \A u \in Validators : t.prevotes[u] = None /\ t.precommits[u] = None
  BY DEF NewRoundState
<1>2. s.round \in Nat /\ r \in Nat /\ lockedRound[v] \in Int
  BY BoundAssumption DEF RoundStates, Rounds, TypeOK
<1>3. /\ \A m \in prevoteMsgs : m.round \in Nat
      /\ \A m \in precommitMsgs : m.round \in Nat
      /\ \A m \in proposalMsgs : m.round \in Nat
  BY BoundAssumption DEF TypeOK, Rounds
<1> HIDE DEF t
<1>4. RecordedSent(t) /\ HeldProposed(t)
  BY <1>1 DEF RecordedSent, HeldProposed
<1>5. OwnRecorded(v, t)
  BY <1>1, <1>2, <1>3 DEF OwnRecorded, RoundInv
<1>6. PhaseConsistent(v, t)
  BY <1>1 DEF PhaseConsistent
<1>7. LockOlder(v, t)
  BY <1>1, <1>2 DEF LockOlder, RoundInv
<1>8. RoundInv(v, t)
  BY <1>4, <1>5, <1>6, <1>7 DEF RoundInv
<1> QED BY <1>8 DEF t

\* The round-skip of on_message; the message is then one of the current round.
LEMMA SkipToRound ==
  ASSUME TypeOK, NEW v \in Validators, RoundInv(v, rs[v]), NEW r \in Rounds
  PROVE  /\ RoundInv(v, SkipTo(rs[v], r))
         /\ SkipTo(rs[v], r) \in RoundStates
         /\ r >= rs[v].round => SkipTo(rs[v], r).round = r
         /\ SkipTo(rs[v], r).round >= rs[v].round
<1>1. rs[v] \in RoundStates /\ rs[v].round \in Nat /\ r \in Nat
  BY BoundAssumption DEF TypeOK, RoundStates, Rounds
<1>2. SkipTo(rs[v], r) \in RoundStates
  BY <1>1, SkipToType
<1>3. CASE r > rs[v].round
  <2>1. SkipTo(rs[v], r) = NewRoundState(r)
    BY <1>3 DEF SkipTo
  <2>2. NewRoundState(r).round = r
    BY DEF NewRoundState
  <2> QED BY <1>1, <1>2, <1>3, <2>1, <2>2, LaterRound
<1>4. CASE ~(r > rs[v].round)
  <2>1. SkipTo(rs[v], r) = rs[v]
    BY <1>4 DEF SkipTo
  <2> QED BY <1>1, <1>2, <1>4, <2>1
<1> QED BY <1>3, <1>4

\* Recording a prevote of another validator.
LEMMA RecordPrevote ==
  ASSUME TypeOK, NEW v \in Validators, NEW s \in RoundStates, RoundInv(v, s),
         NEW m \in prevoteMsgs, m.round = s.round, m.from # v,
         NEW t, t = [s EXCEPT !.prevotes[m.from] = m.vote]
  PROVE  t \in RoundStates /\ RoundInv(v, t)
<1>1. /\ m.from \in Validators /\ m.vote \in Votes
      /\ m = Vote(m.round, m.from, m.vote)
  BY DEF TypeOK, Vote
<1>2. t \in RoundStates
  BY <1>1 DEF RoundStates
<1>3. /\ t.round = s.round /\ t.phase = s.phase /\ t.proposed = s.proposed
      /\ t.prevoted = s.prevoted /\ t.precommitted = s.precommitted
      /\ t.precommits = s.precommits
      /\ \A u \in Validators : t.prevotes[u] =
           IF u = m.from THEN m.vote ELSE s.prevotes[u]
  BY <1>1 DEF RoundStates
<1>4. RecordedSent(t)
  BY <1>1, <1>3 DEF RecordedSent, RoundInv
<1>5. HeldProposed(t) /\ LockOlder(v, t)
  BY <1>3 DEF HeldProposed, LockOlder, RoundInv
<1>6. OwnRecorded(v, t)
  BY <1>3 DEF OwnRecorded, RoundInv
<1>7. PhaseConsistent(v, t)
  BY <1>3 DEF PhaseConsistent, RoundInv
<1> QED BY <1>2, <1>4, <1>5, <1>6, <1>7 DEF RoundInv

\* Recording a precommit of another validator.
LEMMA RecordPrecommit ==
  ASSUME TypeOK, NEW v \in Validators, NEW s \in RoundStates, RoundInv(v, s),
         NEW m \in precommitMsgs, m.round = s.round, m.from # v,
         NEW t, t = [s EXCEPT !.precommits[m.from] = m.vote]
  PROVE  t \in RoundStates /\ RoundInv(v, t)
<1>1. /\ m.from \in Validators /\ m.vote \in Votes
      /\ m = Vote(m.round, m.from, m.vote)
  BY DEF TypeOK, Vote
<1>2. t \in RoundStates
  BY <1>1 DEF RoundStates
<1>3. /\ t.round = s.round /\ t.phase = s.phase /\ t.proposed = s.proposed
      /\ t.prevoted = s.prevoted /\ t.precommitted = s.precommitted
      /\ t.prevotes = s.prevotes
      /\ \A u \in Validators : t.precommits[u] =
           IF u = m.from THEN m.vote ELSE s.precommits[u]
  BY <1>1 DEF RoundStates
<1>4. RecordedSent(t)
  BY <1>1, <1>3 DEF RecordedSent, RoundInv
<1>5. HeldProposed(t) /\ LockOlder(v, t) /\ PhaseConsistent(v, t)
  BY <1>3 DEF HeldProposed, LockOlder, PhaseConsistent, RoundInv
<1>6. OwnRecorded(v, t)
  BY <1>3 DEF OwnRecorded, RoundInv
<1> QED BY <1>2, <1>4, <1>5, <1>6 DEF RoundInv

\* A phase after Phase::Prevote, with the block held or dropped.
LEMMA LaterPhase ==
  ASSUME NEW v \in Validators, NEW s \in RoundStates, RoundInv(v, s),
         NEW p \in {"Precommit", "Commit"}, NEW b \in {s.proposed, None},
         NEW t, t = [s EXCEPT !.phase = p, !.proposed = b]
  PROVE  t \in RoundStates /\ RoundInv(v, t)
<1>1. t \in RoundStates
  BY DEF RoundStates, Phases
<1>2. /\ t.round = s.round /\ t.phase = p /\ t.proposed = b
      /\ t.prevoted = s.prevoted /\ t.precommitted = s.precommitted
      /\ t.prevotes = s.prevotes /\ t.precommits = s.precommits
  BY DEF RoundStates
<1>3. RecordedSent(t)
  BY <1>2 DEF RecordedSent, RoundInv
<1>4. HeldProposed(t) /\ LockOlder(v, t) /\ PhaseConsistent(v, t)
  BY <1>2 DEF HeldProposed, LockOlder, PhaseConsistent, RoundInv
<1>5. OwnRecorded(v, t)
  BY <1>2 DEF OwnRecorded, RoundInv
<1> QED BY <1>1, <1>3, <1>4, <1>5 DEF RoundInv

\* A precommit quorum never names another block than the one held: the arm that
\* drops the local copy is for heights that are disturbed.
LEMMA NoMismatch ==
  ASSUME Undisturbed, TypeOK, AgreementInv, NEW v \in Validators,
         NEW s \in RoundStates, RoundInv(v, s)
  PROVE  ~QuorumMismatch(Validators, s)
<1>1. SUFFICES ASSUME s.proposed # None,
                      NEW x \in QuorumValues(Validators, s.precommits),
                      x \notin {Nil, s.proposed}
               PROVE  FALSE
  BY DEF QuorumMismatch
<1>2. RecordedSent(s) /\ s.round \in Rounds
  BY DEF RoundInv, RoundStates
<1>3. x \in Votes /\ VotedByQuorum(precommitMsgs, s.round, x)
  BY <1>2, RecordedQuorum
<1>4. prevoteMsgs \in SUBSET VoteRecords /\ precommitMsgs \in SUBSET VoteRecords
  BY DEF TypeOK, VoteRecords
<1>5. PICK m \in precommitMsgs : m.round = s.round /\ m.vote = x
  BY <1>2, <1>3, <1>4, VotesOfQuorum
<1>6. x \in Blocks
  BY <1>1, <1>3 DEF Votes
<1>7. IsQuorum(Sticky(s.round, x), Validators)
  BY <1>5, <1>6 DEF AgreementInv, PrecommitsSticky
<1>8. PICK u \in Sticky(s.round, x) : TRUE
  BY <1>7, QuorumMember DEF Sticky
<1>9. Vote(s.round, u, x) \in prevoteMsgs
  BY <1>8 DEF Sticky
<1>10. \E p \in proposalMsgs : p.round = s.round /\ p.block = x
  BY <1>6, <1>9 DEF AgreementInv, VotesGrounded, Vote
<1>11. \E p \in proposalMsgs : p.round = s.round /\ p.block = s.proposed
  BY <1>1 DEF RoundInv, HeldProposed
<1> QED BY <1>1, <1>10, <1>11 DEF AgreementInv, OneBlockPerRound
-----------------------------------------------------------------------------
(* What the step of one validator leaves alone.                            *)

\* A step of v sends messages of its own only, and leaves the round states, the
\* locks and the commits of the others alone.
StepOf(v) ==
  /\ proposalMsgs \subseteq proposalMsgs'
  /\ prevoteMsgs \subseteq prevoteMsgs'
  /\ precommitMsgs \subseteq precommitMsgs'
  /\ \A m \in proposalMsgs' \ proposalMsgs : m.from = v
  /\ \A m \in prevoteMsgs' \ prevoteMsgs : m.from = v
  /\ \A m \in precommitMsgs' \ precommitMsgs : m.from = v
  /\ \A u \in Validators \ {v} :
       /\ rs'[u] = rs[u]
       /\ lockedBlock'[u] = lockedBlock[u]
       /\ lockedRound'[u] = lockedRound[u]
       /\ committed'[u] = committed[u]

\* The round states of the others keep their invariant.
LEMMA OthersKeepRound ==
  ASSUME AgreementInv, NEW v \in Validators, StepOf(v),
         NEW u \in Validators \ {v}, committed'[u] = None
  PROVE  RoundInv(u, rs[u])'
<1>1. RoundInv(u, rs[u]) /\ rs'[u] = rs[u] /\ lockedRound'[u] = lockedRound[u]
  BY DEF AgreementInv, StepOf
<1>2. RecordedSent(rs[u])'
  BY <1>1 DEF RoundInv, RecordedSent, StepOf
<1>3. HeldProposed(rs[u])'
  BY <1>1 DEF RoundInv, HeldProposed, StepOf
<1>4. OwnRecorded(u, rs[u])'
  BY <1>1 DEF RoundInv, OwnRecorded, StepOf
<1>5. PhaseConsistent(u, rs[u])' /\ LockOlder(u, rs[u])'
  BY <1>1 DEF RoundInv, PhaseConsistent, LockOlder
<1> QED BY <1>2, <1>3, <1>4, <1>5 DEF RoundInv

\* A superseded round stays so.
LEMMA SupersededStays ==
  ASSUME TypeOK', prevoteMsgs \subseteq prevoteMsgs', NEW r, NEW b, NEW k,
         Superseded(r, b, k)
  PROVE  Superseded(r, b, k)'
<1>1. PICK n \in prevoteMsgs : /\ r < n.round /\ n.round < k
                               /\ n.vote \in Blocks \ {b}
                               /\ VotedByQuorum(prevoteMsgs, n.round, n.vote)
  BY DEF Superseded
<1>2. prevoteMsgs' \in SUBSET VoteRecords
  BY DEF TypeOK, VoteRecords
<1>3. VotedByQuorum(prevoteMsgs', n.round, n.vote)
  BY <1>1, <1>2, QuorumsGrow
<1>4. VotedByQuorum(prevoteMsgs, n.round, n.vote)'
  BY <1>3 DEF VotedByQuorum, Senders, IsQuorum, Threshold
<1> QED BY <1>1, <1>4 DEF Superseded

\* The others stay sticky, so a sticky quorum is kept by a step that keeps the
\* validator that takes it sticky.
LEMMA StickyQuorumStays ==
  ASSUME TypeOK', NEW v \in Validators, StepOf(v), NEW r, NEW b,
         v \in Sticky(r, b) => v \in Sticky(r, b)',
         IsQuorum(Sticky(r, b), Validators)
  PROVE  IsQuorum(Sticky(r, b)', Validators)
<1>1. ASSUME NEW u \in Sticky(r, b), u # v PROVE u \in Sticky(r, b)'
  <2>1. u \in Validators \ {v} /\ Vote(r, u, b) \in prevoteMsgs
    BY <1>1 DEF Sticky
  <2>2. Vote(r, u, b).from = u
    BY DEF Vote
  <2>3. Vote(r, u, b) \in prevoteMsgs'
    BY <2>1 DEF StepOf
  <2>4. ASSUME Vote(r, u, b) \in precommitMsgs' PROVE Bound(u, r, b)'
    <3>1. Bound(u, r, b)
      BY <1>1, <2>1, <2>2, <2>4 DEF Sticky, StepOf
    <3>2. \A n \in prevoteMsgs' : n.from = u => n \in prevoteMsgs
      BY <2>1 DEF StepOf
    <3>3. ASSUME NEW n \in prevoteMsgs',
                 n.from = u, n.round > r, n.vote \in Blocks \ {b}
          PROVE  Superseded(r, b, n.round)'
      <4>1. Superseded(r, b, n.round)
        BY <3>1, <3>2, <3>3 DEF Bound
      <4>2. prevoteMsgs \subseteq prevoteMsgs'
        BY DEF StepOf
      <4>3. PICK k : k = n.round
        OBVIOUS
      <4>4. Superseded(r, b, k)'
        BY <4>1, <4>2, <4>3, SupersededStays
      <4> QED BY <4>3, <4>4
    <3>4. /\ committed'[u] = committed[u]
          /\ lockedBlock'[u] = lockedBlock[u] /\ lockedRound'[u] = lockedRound[u]
      BY <2>1 DEF StepOf
    <3> QED BY <3>1, <3>3, <3>4 DEF Bound
  <2> QED BY <2>1, <2>3, <2>4 DEF Sticky
<1>2. Sticky(r, b) \in SUBSET Sticky(r, b)' /\ Sticky(r, b)' \in SUBSET Validators
  BY <1>1 DEF Sticky
<1> QED BY <1>2, LargerQuorum
-----------------------------------------------------------------------------
(* The four kinds of steps: a step that only changes the round state of a  *)
(* validator, a prevote, a precommit and a commit.                         *)

\* The counters of v may lag behind its round, never the other way round.
LEMMA JailKept ==
  ASSUME TypeOK, AgreementInv, NEW v \in Validators, NEW t \in RoundStates,
         rs' = [rs EXCEPT ![v] = t], UNCHANGED <<slashVars, committed>>,
         t.round >= rs[v].round
  PROVE  NobodyJailed'
<1>1. /\ rs[v].round \in Nat /\ t.round \in Nat /\ PriorMisses \in Nat
      /\ \A w \in Validators : rs'[w] = IF w = v THEN t ELSE rs[w]
  BY BoundAssumption DEF TypeOK, RoundStates, Rounds
<1>2. /\ jailed' = jailed /\ missedProposals' = missedProposals
      /\ missedVotes' = missedVotes /\ committed' = committed
  BY DEF slashVars
<1>3. \A u, w \in Validators : missedProposals[w][u] \in Nat /\ missedVotes[w][u] \in Nat
  BY DEF TypeOK
<1>4. NobodyJailed
  BY DEF AgreementInv
<1> QED BY <1>1, <1>2, <1>3, <1>4 DEF NobodyJailed

\* A step that changes nothing but the round state of v.
LEMMA LocalStep ==
  ASSUME Undisturbed, TypeOK, TypeOK', AgreementInv, NEW v \in Validators,
         NEW t \in RoundStates, RoundInv(v, t),
         rs' = [rs EXCEPT ![v] = t],
         UNCHANGED <<lockedBlock, lockedRound, committed,
                     proposalMsgs, prevoteMsgs, precommitMsgs>>,
         \A u \in Validators : proposalsSeen'[u] \subseteq proposalMsgs,
         NobodyJailed'
  PROVE  AgreementInv'
<1>0. /\ lockedBlock' = lockedBlock /\ lockedRound' = lockedRound
      /\ committed' = committed /\ proposalMsgs' = proposalMsgs
      /\ prevoteMsgs' = prevoteMsgs /\ precommitMsgs' = precommitMsgs
      /\ \A u \in Validators : rs'[u] = IF u = v THEN t ELSE rs[u]
  BY DEF TypeOK
<1>1. StepOf(v)
  BY <1>0 DEF StepOf
<1>2. ASSUME NEW u \in Validators, committed'[u] = None PROVE RoundInv(u, rs[u])'
  <2>1. CASE u = v
    <3>1. rs'[u] = t
      BY <1>0, <2>1
    <3>2. RoundInv(v, t)'
      BY <1>0 DEF RoundInv, RecordedSent, HeldProposed, OwnRecorded,
                  PhaseConsistent, LockOlder
    <3> QED BY <2>1, <3>1, <3>2 DEF RoundInv, RecordedSent, HeldProposed,
                  OwnRecorded, PhaseConsistent, LockOlder
  <2> QED BY <1>1, <1>2, <2>1, OthersKeepRound
<1>3. OneVoteEach' /\ OneBlockPerRound'
  BY <1>0 DEF AgreementInv, OneVoteEach, OneBlockPerRound, LeaderForEpoch
<1>4. VotesGrounded'
  BY <1>0 DEF AgreementInv, VotesGrounded
<1>5. LocksGrounded'
  BY <1>0 DEF AgreementInv, LocksGrounded
<1>6. PrecommitsSticky'
  <2>1. SUFFICES ASSUME NEW m \in precommitMsgs', m.vote \in Blocks
                 PROVE  IsQuorum(Sticky(m.round, m.vote)', Validators)
    BY DEF PrecommitsSticky
  <2>2. PICK r \in Rounds, x \in Blocks : r = m.round /\ x = m.vote
    BY <2>1 DEF TypeOK
  <2>3. IsQuorum(Sticky(r, x), Validators)
    BY <1>0, <2>1, <2>2 DEF AgreementInv, PrecommitsSticky
  <2>4. v \in Sticky(r, x) => v \in Sticky(r, x)'
    BY <1>0 DEF Sticky, Bound, Superseded
  <2>5. IsQuorum(Sticky(r, x)', Validators)
    BY <1>1, <2>3, <2>4, StickyQuorumStays
  <2> QED BY <2>2, <2>5
<1>7. CommitsDecided'
  BY <1>0 DEF AgreementInv, CommitsDecided
<1> QED BY <1>2, <1>3, <1>4, <1>5, <1>6, <1>7 DEF AgreementInv

\* A commit of a block with a precommit quorum.
LEMMA CommitStep ==
  ASSUME Undisturbed, TypeOK, TypeOK', AgreementInv, NEW v \in Validators,
         NEW b \in Blocks, NEW S, Commit(v, b, S),
         \E r \in Rounds : VotedByQuorum(precommitMsgs, r, b),
         UNCHANGED <<proposalsSeen, slashVars, msgVars>>
  PROVE  AgreementInv'
<1>0. /\ proposalMsgs' = proposalMsgs /\ prevoteMsgs' = prevoteMsgs
      /\ precommitMsgs' = precommitMsgs /\ proposalsSeen' = proposalsSeen
      /\ jailed' = jailed /\ missedProposals' = missedProposals
      /\ missedVotes' = missedVotes
      /\ committed'[v] = b /\ lockedBlock'[v] = None /\ lockedRound'[v] = -1
      /\ \A u \in Validators \ {v} :
           /\ rs'[u] = rs[u] /\ committed'[u] = committed[u]
           /\ lockedBlock'[u] = lockedBlock[u] /\ lockedRound'[u] = lockedRound[u]
  BY DEF Commit, TypeOK, slashVars, msgVars
<1>1. StepOf(v)
  BY <1>0 DEF StepOf
<1>2. committed'[v] # None
  BY <1>0, SentinelAssumption
<1>3. ASSUME NEW u \in Validators, committed'[u] = None PROVE RoundInv(u, rs[u])'
  BY <1>1, <1>2, <1>3, OthersKeepRound
<1>4. OneVoteEach' /\ OneBlockPerRound' /\ VotesGrounded'
  BY <1>0 DEF AgreementInv, OneVoteEach, OneBlockPerRound, VotesGrounded, LeaderForEpoch
<1>5. LocksGrounded'
  BY <1>0 DEF AgreementInv, LocksGrounded
<1>6. PrecommitsSticky'
  <2>1. SUFFICES ASSUME NEW m \in precommitMsgs', m.vote \in Blocks
                 PROVE  IsQuorum(Sticky(m.round, m.vote)', Validators)
    BY DEF PrecommitsSticky
  <2>2. PICK r \in Rounds, x \in Blocks : r = m.round /\ x = m.vote
    BY <2>1 DEF TypeOK
  <2>3. IsQuorum(Sticky(r, x), Validators)
    BY <1>0, <2>1, <2>2 DEF AgreementInv, PrecommitsSticky
  <2>4. v \in Sticky(r, x) => v \in Sticky(r, x)'
    BY <1>0, <1>2 DEF Sticky, Bound, Superseded
  <2>5. IsQuorum(Sticky(r, x)', Validators)
    BY <1>1, <2>3, <2>4, StickyQuorumStays
  <2> QED BY <2>2, <2>5
<1>7. CommitsDecided'
  BY <1>0 DEF AgreementInv, CommitsDecided
<1>8. NobodyJailed'
  BY <1>0, <1>2 DEF AgreementInv, NobodyJailed
<1> QED BY <1>3, <1>4, <1>5, <1>6, <1>7, <1>8 DEF AgreementInv
\* A prevote of v, for the block p it now holds or for Nil, by the lock rule;
\* the leader sends its proposal in the same step.
LEMMA PrevoteStep ==
  ASSUME Undisturbed, TypeOK, TypeOK', AgreementInv, NEW v \in Validators,
         NEW s \in RoundStates, RoundInv(v, s), ~s.prevoted,
         NEW p \in Blocks \cup {None}, NEW x \in {p, Nil}, x # None,
         NEW t, t = [s EXCEPT !.phase = "Prevote", !.proposed = p,
                              !.prevoted = TRUE, !.prevotes[v] = x],
         rs' = [rs EXCEPT ![v] = t],
         prevoteMsgs' = prevoteMsgs \cup {Vote(s.round, v, x)},
         \/ proposalMsgs' = proposalMsgs
         \/ /\ s.phase = "Propose"
            /\ LeaderForEpoch(s.round, Validators) = v
            /\ p # None
            /\ proposalMsgs' = proposalMsgs \cup {Proposal(s.round, v, p)},
         p # None => \E m \in proposalMsgs' : m.round = s.round /\ m.block = p,
         x # Nil => lockedBlock[v] \in {None, x},
         committed[v] = None,
         UNCHANGED <<lockedBlock, lockedRound, committed, precommitMsgs>>,
         \A u \in Validators : proposalsSeen'[u] \subseteq proposalMsgs',
         NobodyJailed'
  PROVE  AgreementInv'
<1>0. /\ lockedBlock' = lockedBlock /\ lockedRound' = lockedRound
      /\ committed' = committed /\ precommitMsgs' = precommitMsgs
      /\ \A u \in Validators : rs'[u] = IF u = v THEN t ELSE rs[u]
  BY DEF TypeOK
<1>1. x \in Votes /\ s.round \in Rounds /\ s.round \in Nat
  BY BoundAssumption DEF Votes, RoundStates, Rounds
<1>2. /\ t.round = s.round /\ t.phase = "Prevote" /\ t.proposed = p
      /\ t.prevoted /\ t.precommitted = s.precommitted
      /\ t.precommits = s.precommits
      /\ \A u \in Validators : t.prevotes[u] = IF u = v THEN x ELSE s.prevotes[u]
  BY DEF RoundStates
<1>3. /\ Vote(s.round, v, x).from = v /\ Vote(s.round, v, x).round = s.round
      /\ Vote(s.round, v, x).vote = x
      /\ p # None => /\ Proposal(s.round, v, p).from = v
                     /\ Proposal(s.round, v, p).round = s.round
                     /\ Proposal(s.round, v, p).block = p
  BY DEF Vote, Proposal
<1>4. proposalMsgs \subseteq proposalMsgs'
  OBVIOUS
<1>5. StepOf(v)
  BY <1>0, <1>3, <1>4 DEF StepOf
<1>6. \A m \in prevoteMsgs : m.from = v => m.round < s.round
  <2>1. \A m \in prevoteMsgs : m.round \in Nat
    BY BoundAssumption DEF TypeOK, Rounds
  <2> QED BY <1>1, <2>1 DEF RoundInv, OwnRecorded
<1>7. ASSUME NEW u \in Validators, committed'[u] = None PROVE RoundInv(u, rs[u])'
  <2>1. CASE u = v
    <3>1. rs'[v] = t
      BY <1>0
    <3>2. RecordedSent(rs[v])'
      <4>1. \A w \in Validators : t.prevotes[w] # None =>
              Vote(t.round, w, t.prevotes[w]) \in prevoteMsgs'
        BY <1>2 DEF RoundInv, RecordedSent
      <4>2. \A w \in Validators : t.precommits[w] # None =>
              Vote(t.round, w, t.precommits[w]) \in precommitMsgs'
        BY <1>0, <1>2 DEF RoundInv, RecordedSent
      <4> QED BY <3>1, <4>1, <4>2 DEF RecordedSent, Vote
    <3>3. HeldProposed(rs[v])'
      BY <1>2, <3>1 DEF HeldProposed
    <3>4. OwnRecorded(v, rs[v])'
      <4>1. \A m \in prevoteMsgs' : m.from = v =>
              /\ m.round <= t.round
              /\ m.round = t.round => t.prevoted /\ t.prevotes[v] = m.vote
        <5>1. \A m \in prevoteMsgs : m.round \in Nat
          BY BoundAssumption DEF TypeOK, Rounds
        <5> QED BY <1>1, <1>2, <1>3, <1>6, <5>1
      <4>2. \A m \in precommitMsgs' : m.from = v =>
              /\ m.round <= t.round
              /\ m.round = t.round => t.precommitted
        BY <1>0, <1>2 DEF RoundInv, OwnRecorded
      <4>3. \A m \in proposalMsgs' : m.from = v =>
              /\ m.round <= t.round
              /\ m.round = t.round => t.phase # "Propose"
        BY <1>1, <1>2, <1>3 DEF RoundInv, OwnRecorded
      <4> QED BY <3>1, <4>1, <4>2, <4>3 DEF OwnRecorded
    <3>5. PhaseConsistent(v, rs[v])'
      <4>1. t.prevotes[v] = x /\ (x \in Blocks => x = p)
        BY <1>2, SentinelAssumption
      <4> QED BY <1>2, <3>1, <4>1, ZenonT(30) DEF PhaseConsistent
    <3>6. LockOlder(v, rs[v])'
      BY <1>0, <1>2, <3>1 DEF RoundInv, LockOlder
    <3> QED BY <2>1, <3>2, <3>3, <3>4, <3>5, <3>6 DEF RoundInv
  <2> QED BY <1>5, <1>7, <2>1, OthersKeepRound
<1>8. OneVoteEach'
  <2>1. \A m, n \in prevoteMsgs' : m.from = n.from /\ m.round = n.round => m = n
    <3>1. \A m \in prevoteMsgs : m.round \in Nat
      BY BoundAssumption DEF TypeOK, Rounds
    <3> QED BY <1>1, <1>3, <1>6, <3>1 DEF AgreementInv, OneVoteEach
  <2>2. \A m, n \in precommitMsgs' : m.from = n.from /\ m.round = n.round => m = n
    BY <1>0 DEF AgreementInv, OneVoteEach
  <2> QED BY <2>1, <2>2 DEF OneVoteEach
<1>9. OneBlockPerRound'
  <2>1. CASE proposalMsgs' = proposalMsgs
    BY <2>1 DEF AgreementInv, OneBlockPerRound
  <2>2. CASE /\ s.phase = "Propose"
             /\ LeaderForEpoch(s.round, Validators) = v
             /\ p # None
             /\ proposalMsgs' = proposalMsgs \cup {Proposal(s.round, v, p)}
    <3>1. \A m \in proposalMsgs' : m.from = LeaderForEpoch(m.round, Validators)
      BY <1>3, <2>2 DEF AgreementInv, OneBlockPerRound
    <3>2. \A m \in proposalMsgs : m.from = v => m.round # s.round
      BY <2>2 DEF RoundInv, OwnRecorded
    <3>3. \A m \in proposalMsgs : m.round # s.round
      BY <2>2, <3>2 DEF AgreementInv, OneBlockPerRound
    <3>4. \A m, n \in proposalMsgs' : m.round = n.round => m.block = n.block
      BY <1>3, <2>2, <3>3 DEF AgreementInv, OneBlockPerRound
    <3> QED BY <3>1, <3>4 DEF OneBlockPerRound
  <2> QED BY <2>1, <2>2
<1>10. VotesGrounded'
  <2>1. \A m \in prevoteMsgs' : m.vote \in Blocks =>
          \E q \in proposalMsgs' : q.round = m.round /\ q.block = m.vote
    BY <1>3, <1>4, SentinelAssumption DEF AgreementInv, VotesGrounded
  <2> QED BY <2>1 DEF VotesGrounded
<1>11. prevoteMsgs' \in SUBSET VoteRecords /\ prevoteMsgs \in SUBSET prevoteMsgs'
  BY DEF TypeOK, VoteRecords
<1>12. LocksGrounded'
  BY <1>0, <1>11, QuorumsGrow DEF AgreementInv, LocksGrounded
<1>13. PrecommitsSticky'
  <2>1. SUFFICES ASSUME NEW m \in precommitMsgs', m.vote \in Blocks
                 PROVE  IsQuorum(Sticky(m.round, m.vote)', Validators)
    BY DEF PrecommitsSticky
  <2>2. PICK r \in Rounds, b \in Blocks : r = m.round /\ b = m.vote
    BY <2>1 DEF TypeOK
  <2>3. IsQuorum(Sticky(r, b), Validators)
    BY <1>0, <2>1, <2>2 DEF AgreementInv, PrecommitsSticky
  <2>4. ASSUME v \in Sticky(r, b) PROVE v \in Sticky(r, b)'
    <3>1. Vote(r, v, b) \in prevoteMsgs'
      BY <1>11, <2>4 DEF Sticky
    <3>2. ASSUME Vote(r, v, b) \in precommitMsgs' PROVE Bound(v, r, b)'
      <4>1. Bound(v, r, b)
        BY <1>0, <2>4, <3>2 DEF Sticky
      <4>2. ASSUME NEW n \in prevoteMsgs',
                   n.from = v, n.round > r, n.vote \in Blocks \ {b}
            PROVE  Superseded(r, b, n.round)'
        <5>1. CASE n \in prevoteMsgs
          <6>1. Superseded(r, b, n.round)
            BY <4>1, <4>2, <5>1 DEF Bound
          <6>2. PICK k : k = n.round
            OBVIOUS
          <6>3. Superseded(r, b, k)'
            BY <1>11, <6>1, <6>2, SupersededStays
          <6> QED BY <6>2, <6>3
        <5>2. CASE n = Vote(s.round, v, x)
          <6>1. x \in Blocks \ {b} /\ n.round = s.round /\ s.round > r
            BY <1>3, <4>2, <5>2
          <6>2. lockedBlock[v] \in {None, x}
            BY <6>1, SentinelAssumption
          <6>3. PICK k \in prevoteMsgs :
                  /\ k.round = lockedRound[v] /\ k.vote = x
                  /\ r < lockedRound[v] /\ lockedRound[v] < s.round
                  /\ VotedByQuorum(prevoteMsgs, lockedRound[v], x)
            <7>1. /\ lockedRound[v] >= r
                  /\ lockedBlock[v] = b \/ lockedRound[v] > r
              BY <4>1 DEF Bound
            <7>2. r \in Nat /\ lockedRound[v] \in Rounds \cup {-1}
              BY BoundAssumption DEF Rounds, TypeOK
            <7>3. lockedRound[v] # -1
              BY <7>1, <7>2
            <7>4. lockedBlock[v] # None
              BY <7>3 DEF AgreementInv, LocksGrounded
            <7>5. lockedBlock[v] = x
              BY <6>2, <7>4
            <7>6. VotedByQuorum(prevoteMsgs, lockedRound[v], x)
              BY <7>4, <7>5 DEF AgreementInv, LocksGrounded
            <7>7. r < lockedRound[v]
              BY <6>1, <7>1, <7>2, <7>3, <7>5 DEF Rounds
            <7>8. lockedRound[v] < s.round
              BY <1>1, <7>2 DEF RoundInv, LockOlder, Rounds
            <7>9. \E k \in prevoteMsgs : k.round = lockedRound[v] /\ k.vote = x
              BY <1>1, <1>11, <7>2, <7>3, <7>6, VotesOfQuorum
            <7> QED BY <7>6, <7>7, <7>8, <7>9
          <6>4. VotedByQuorum(prevoteMsgs', k.round, k.vote)
            BY <1>11, <6>3, QuorumsGrow
          <6> QED BY <1>11, <6>1, <6>3, <6>4 DEF Superseded
        <5> QED BY <5>1, <5>2
      <4> QED BY <1>0, <4>1, <4>2 DEF Bound
    <3> QED BY <3>1, <3>2 DEF Sticky
  <2>5. IsQuorum(Sticky(r, b)', Validators)
    BY <1>5, <2>3, <2>4, StickyQuorumStays
  <2> QED BY <2>2, <2>5
<1>14. CommitsDecided'
  BY <1>0 DEF AgreementInv, CommitsDecided
<1> QED BY <1>7, <1>8, <1>9, <1>10, <1>12, <1>13, <1>14 DEF AgreementInv
\* The first precommit of v in a round, in Phase::Prevote, for Nil or for what
\* a quorum prevoted: whoever prevoted the block is locked by it.
LEMMA PrecommitStep ==
  ASSUME Undisturbed, TypeOK, TypeOK', AgreementInv, NEW v \in Validators,
         NEW s \in RoundStates, RoundInv(v, s), ~s.precommitted,
         s.phase = "Prevote",
         NEW x \in Votes, x # Nil => x \in QuorumValues(Validators, s.prevotes),
         EnterPrecommit(v, s, x),
         UNCHANGED <<proposalsSeen, committed, proposalMsgs, prevoteMsgs>>,
         NobodyJailed'
  PROVE  AgreementInv'
<1>0. s.round \in Rounds /\ s.round \in Nat
  BY BoundAssumption DEF RoundStates, Rounds
<1>1. PICK t : t = [s EXCEPT !.phase = "Precommit", !.precommitted = TRUE,
                             !.precommits[v] = x]
  OBVIOUS
<1>2. /\ t.round = s.round /\ t.phase = "Precommit" /\ t.proposed = s.proposed
      /\ t.prevoted = s.prevoted /\ t.precommitted
      /\ t.prevotes = s.prevotes
      /\ \A u \in Validators : t.precommits[u] = IF u = v THEN x ELSE s.precommits[u]
  BY <1>1 DEF RoundStates
<1>3. /\ rs' = [rs EXCEPT ![v] = t]
      /\ precommitMsgs' = precommitMsgs \cup {Vote(s.round, v, x)}
  BY <1>1 DEF EnterPrecommit, RoundStates
<1>4. \/ /\ x # Nil /\ s.proposed = x
         /\ lockedBlock' = [lockedBlock EXCEPT ![v] = x]
         /\ lockedRound' = [lockedRound EXCEPT ![v] = s.round]
      \/ /\ x = Nil \/ s.proposed # x
         /\ lockedBlock' = lockedBlock /\ lockedRound' = lockedRound
  BY DEF EnterPrecommit
<1>5. /\ committed' = committed /\ proposalMsgs' = proposalMsgs
      /\ prevoteMsgs' = prevoteMsgs /\ proposalsSeen' = proposalsSeen
      /\ \A u \in Validators : rs'[u] = IF u = v THEN t ELSE rs[u]
      /\ \A u \in Validators \ {v} : /\ lockedBlock'[u] = lockedBlock[u]
                                     /\ lockedRound'[u] = lockedRound[u]
  BY <1>3, <1>4 DEF TypeOK
<1>6. /\ Vote(s.round, v, x).from = v /\ Vote(s.round, v, x).round = s.round
      /\ Vote(s.round, v, x).vote = x
  BY DEF Vote
<1>7. StepOf(v)
  BY <1>3, <1>5, <1>6 DEF StepOf
<1>8. \A m \in precommitMsgs : m.from = v => m.round < s.round
  <2>1. \A m \in precommitMsgs : m.round \in Nat
    BY BoundAssumption DEF TypeOK, Rounds
  <2> QED BY <1>0, <2>1 DEF RoundInv, OwnRecorded
<1>9. lockedRound'[v] = lockedRound[v] \/ (lockedRound'[v] = s.round /\ s.prevoted)
  <2>1. x # Nil /\ s.proposed = x => s.prevoted
    BY SentinelAssumption DEF RoundInv, HeldProposed, Votes
  <2> QED BY <1>4, <2>1 DEF TypeOK
<1>10. ASSUME NEW u \in Validators, committed'[u] = None PROVE RoundInv(u, rs[u])'
  <2>1. CASE u = v
    <3>1. rs'[v] = t
      BY <1>5
    <3>2. RecordedSent(rs[v])'
      <4>1. \A w \in Validators : t.prevotes[w] # None =>
              Vote(t.round, w, t.prevotes[w]) \in prevoteMsgs'
        BY <1>2, <1>5 DEF RoundInv, RecordedSent
      <4>2. \A w \in Validators : t.precommits[w] # None =>
              Vote(t.round, w, t.precommits[w]) \in precommitMsgs'
        BY <1>2, <1>3 DEF RoundInv, RecordedSent
      <4> QED BY <3>1, <4>1, <4>2 DEF RecordedSent, Vote
    <3>3. HeldProposed(rs[v])'
      BY <1>2, <1>5, <3>1 DEF HeldProposed, RoundInv
    <3>4. OwnRecorded(v, rs[v])'
      <4>1. \A m \in prevoteMsgs' : m.from = v =>
              /\ m.round <= t.round
              /\ m.round = t.round => t.prevoted /\ t.prevotes[v] = m.vote
        BY <1>2, <1>5 DEF RoundInv, OwnRecorded
      <4>2. \A m \in precommitMsgs' : m.from = v =>
              /\ m.round <= t.round
              /\ m.round = t.round => t.precommitted
        BY <1>0, <1>2, <1>3, <1>6 DEF RoundInv, OwnRecorded
      <4>3. \A m \in proposalMsgs' : m.from = v =>
              /\ m.round <= t.round
              /\ m.round = t.round => t.phase # "Propose"
        BY <1>2, <1>5 DEF RoundInv, OwnRecorded
      <4> QED BY <3>1, <4>1, <4>2, <4>3 DEF OwnRecorded
    <3>5. PhaseConsistent(v, rs[v])'
      BY <1>2, <3>1 DEF PhaseConsistent
    <3>6. LockOlder(v, rs[v])'
      BY <1>0, <1>2, <1>9, <3>1 DEF RoundInv, LockOlder
    <3> QED BY <2>1, <3>2, <3>3, <3>4, <3>5, <3>6 DEF RoundInv
  <2> QED BY <1>7, <1>10, <2>1, OthersKeepRound
<1>11. OneVoteEach'
  <2>1. \A m, n \in prevoteMsgs' : m.from = n.from /\ m.round = n.round => m = n
    BY <1>5 DEF AgreementInv, OneVoteEach
  <2>2. \A m, n \in precommitMsgs' : m.from = n.from /\ m.round = n.round => m = n
    <3>1. \A m \in precommitMsgs : m.round \in Nat
      BY BoundAssumption DEF TypeOK, Rounds
    <3> QED BY <1>0, <1>3, <1>6, <1>8, <3>1 DEF AgreementInv, OneVoteEach
  <2> QED BY <2>1, <2>2 DEF OneVoteEach
<1>12. OneBlockPerRound' /\ VotesGrounded'
  BY <1>5 DEF AgreementInv, OneBlockPerRound, VotesGrounded
<1>13. prevoteMsgs \in SUBSET VoteRecords
  BY DEF TypeOK, VoteRecords
<1>14. x # Nil => x \in Blocks /\ VotedByQuorum(prevoteMsgs, s.round, x)
  BY RecordedQuorum DEF RoundInv, Votes
<1>15. LocksGrounded'
  <2>1. CASE lockedBlock' = lockedBlock /\ lockedRound' = lockedRound
    BY <1>5, <2>1 DEF AgreementInv, LocksGrounded
  <2>2. CASE /\ x # Nil
             /\ lockedBlock' = [lockedBlock EXCEPT ![v] = x]
             /\ lockedRound' = [lockedRound EXCEPT ![v] = s.round]
    <3>1. lockedBlock'[v] = x /\ lockedRound'[v] = s.round
      BY <2>2 DEF TypeOK
    <3>2. x # None /\ s.round # -1
      BY <1>0, <1>14, <2>2, SentinelAssumption
    <3> QED BY <1>5, <1>14, <2>2, <3>1, <3>2 DEF AgreementInv, LocksGrounded
  <2> QED BY <1>4, <2>1, <2>2
<1>16. ASSUME NEW r \in Rounds, NEW b \in Blocks, Vote(r, v, b) \in prevoteMsgs,
              Vote(r, v, b) \in precommitMsgs => Bound(v, r, b)
       PROVE  v \in Sticky(r, b)'
  <2>1. ASSUME Vote(r, v, b) \in precommitMsgs' PROVE Bound(v, r, b)'
    <3>1. CASE Vote(r, v, b) \in precommitMsgs
      <4>1. Bound(v, r, b)
        BY <1>16, <3>1
      <4>2. r < s.round
        BY <1>8, <3>1 DEF Vote
      <4>3. committed'[v] = None =>
              /\ lockedRound'[v] >= r
              /\ lockedBlock'[v] = b \/ lockedRound'[v] > r
        <5>1. r \in Nat
          BY BoundAssumption DEF Rounds
        <5>2. CASE lockedBlock' = lockedBlock /\ lockedRound' = lockedRound
          BY <1>5, <4>1, <5>2 DEF Bound
        <5>3. CASE lockedRound' = [lockedRound EXCEPT ![v] = s.round]
          <6>1. lockedRound'[v] = s.round
            BY <5>3 DEF TypeOK
          <6> QED BY <1>0, <4>2, <5>1, <6>1
        <5> QED BY <1>4, <5>2, <5>3
      <4>4. \A n \in prevoteMsgs' :
              n.from = v /\ n.round > r /\ n.vote \in Blocks \ {b} =>
                Superseded(r, b, n.round)'
        BY <1>5, <4>1 DEF Bound, Superseded
      <4> QED BY <4>3, <4>4 DEF Bound
    <3>2. CASE Vote(r, v, b) = Vote(s.round, v, x)
      <4>1. r = s.round /\ b = x
        BY <3>2 DEF Vote
      <4>2. s.prevotes[v] = b
        BY <1>16, <4>1 DEF RoundInv, OwnRecorded, Vote
      <4>3. s.proposed = x /\ x # Nil
        BY <4>1, <4>2, SentinelAssumption DEF RoundInv, PhaseConsistent
      <4>4. lockedBlock'[v] = b /\ lockedRound'[v] = r
        BY <1>4, <4>1, <4>3 DEF TypeOK
      <4>5. \A n \in prevoteMsgs' : n.from = v => ~(n.round > r)
        <5>1. \A n \in prevoteMsgs : n.round \in Nat
          BY BoundAssumption DEF TypeOK, Rounds
        <5> QED BY <1>0, <1>5, <4>1, <5>1 DEF RoundInv, OwnRecorded
      <4>6. lockedRound'[v] >= r
        BY <1>0, <4>1, <4>4
      <4> QED BY <4>4, <4>5, <4>6 DEF Bound
    <3> QED BY <1>3, <2>1, <3>1, <3>2
  <2> QED BY <1>5, <1>16, <2>1 DEF Sticky
<1>17. PrecommitsSticky'
  <2>1. SUFFICES ASSUME NEW m \in precommitMsgs', m.vote \in Blocks
                 PROVE  IsQuorum(Sticky(m.round, m.vote)', Validators)
    BY DEF PrecommitsSticky
  <2>2. PICK r \in Rounds, b \in Blocks : r = m.round /\ b = m.vote
    BY <2>1 DEF TypeOK
  <2>3. CASE \E n \in precommitMsgs : n.round = r /\ n.vote = b
    <3>1. IsQuorum(Sticky(r, b), Validators)
      BY <2>3 DEF AgreementInv, PrecommitsSticky
    <3>2. v \in Sticky(r, b) => v \in Sticky(r, b)'
      BY <1>16 DEF Sticky
    <3>3. IsQuorum(Sticky(r, b)', Validators)
      BY <1>7, <3>1, <3>2, StickyQuorumStays
    <3> QED BY <2>2, <3>3
  <2>4. CASE ~\E n \in precommitMsgs : n.round = r /\ n.vote = b
    <3>1. r = s.round /\ b = x
      BY <1>3, <1>6, <2>2, <2>4
    <3>2. x # Nil
      BY <3>1, SentinelAssumption
    <3>3. IsQuorum(Senders(prevoteMsgs, r, b), Validators)
      BY <1>13, <1>14, <3>1, <3>2, VotesOfQuorum
    <3>4. ASSUME NEW u \in Senders(prevoteMsgs, r, b) PROVE u \in Sticky(r, b)'
      <4>1. u \in Validators /\ Vote(r, u, b) \in prevoteMsgs
        BY <1>13, <3>4, SendersVoted DEF Votes
      <4>2. Vote(r, u, b).round = r /\ Vote(r, u, b).vote = b /\ Vote(r, u, b).from = u
        BY DEF Vote
      <4>3. Vote(r, u, b) \notin precommitMsgs
        BY <2>4, <4>2
      <4>4. CASE u = v
        BY <1>16, <4>1, <4>3, <4>4
      <4>5. CASE u # v
        <5>1. Vote(r, u, b) \notin precommitMsgs'
          BY <1>3, <1>6, <4>2, <4>3, <4>5
        <5> QED BY <1>5, <4>1, <5>1 DEF Sticky
      <4> QED BY <4>4, <4>5
    <3>5. /\ Senders(prevoteMsgs, r, b) \in SUBSET Sticky(r, b)'
          /\ Sticky(r, b)' \in SUBSET Validators
      BY <3>4 DEF Sticky
    <3>6. IsQuorum(Sticky(r, b)', Validators)
      BY <3>3, <3>5, LargerQuorum
    <3> QED BY <2>2, <3>6
  <2> QED BY <2>3, <2>4
<1>18. CommitsDecided'
  <2>1. precommitMsgs' \in SUBSET VoteRecords /\ precommitMsgs \in SUBSET precommitMsgs'
    BY <1>3 DEF TypeOK, VoteRecords
  <2> QED BY <1>5, <2>1, QuorumsGrow DEF AgreementInv, CommitsDecided
<1> QED BY <1>10, <1>11, <1>12, <1>15, <1>17, <1>18 DEF AgreementInv
\* Entering Phase::Precommit, for the first time in the round or again.
LEMMA EnterPrecommitStep ==
  ASSUME Undisturbed, TypeOK, TypeOK', AgreementInv, NEW v \in Validators,
         NEW s \in RoundStates, RoundInv(v, s), s.phase = "Prevote",
         s.round >= rs[v].round,
         NEW x \in Votes, x # Nil => x \in QuorumValues(Validators, s.prevotes),
         EnterPrecommit(v, s, x),
         UNCHANGED <<proposalsSeen, slashVars, committed, proposalMsgs, prevoteMsgs>>
  PROVE  AgreementInv'
<1>1. PICK t : t = [s EXCEPT !.phase = "Precommit", !.precommitted = TRUE,
                             !.precommits[v] = IF s.precommitted THEN s.precommits[v] ELSE x]
  OBVIOUS
<1>2. rs' = [rs EXCEPT ![v] = t]
  BY <1>1 DEF EnterPrecommit, RoundStates
<1>3. t \in RoundStates /\ t.round = s.round
  BY <1>1 DEF RoundStates, Phases
<1>4. NobodyJailed'
  BY <1>2, <1>3, JailKept
<1>5. CASE ~s.precommitted
  BY <1>4, <1>5, PrecommitStep
<1>6. CASE s.precommitted
  <2>1. t = [s EXCEPT !.phase = "Precommit", !.proposed = s.proposed]
    BY <1>1, <1>6 DEF RoundStates
  <2>2. RoundInv(v, t)
    BY <2>1, LaterPhase
  <2>3. UNCHANGED <<lockedBlock, lockedRound, committed,
                    proposalMsgs, prevoteMsgs, precommitMsgs>>
    BY <1>6 DEF EnterPrecommit
  <2>4. \A u \in Validators : proposalsSeen'[u] \subseteq proposalMsgs
    BY DEF AgreementInv, VotesGrounded
  <2> QED BY <1>2, <1>3, <1>4, <2>2, <2>3, <2>4, LocalStep
<1> QED BY <1>5, <1>6

\* advance_round: nobody reaches a limit within the rounds of one height.
LEMMA AdvanceRoundStep ==
  ASSUME Undisturbed, TypeOK, TypeOK', AgreementInv, NEW v \in Validators,
         committed[v] = None, AdvanceRound(v),
         UNCHANGED <<lockedBlock, lockedRound, committed, proposalsSeen, msgVars>>
  PROVE  AgreementInv'
<1> DEFINE s == rs[v]
           leader == ProposerForRound(v, s.round)
           missed == s.proposed = None /\ leader # None
           lateProposer == missed /\ missedProposals[v][leader] + 1 >= ProposalMissLimit
           jailed1 == IF lateProposer THEN jailed[v] \cup {leader} ELSE jailed[v]
           silent == {u \in Validators \ jailed1 :
                        s.prevotes[u] = None /\ s.precommits[u] = None}
           absent == {u \in silent : missedVotes[v][u] + 1 >= VoteMissLimit}
           wrap == s.round + 1 >= MaxRounds
<1>1. /\ wrap => wraps[v] < MaxWraps
      /\ rs' = [rs EXCEPT ![v] = NewRoundState(IF wrap THEN 0 ELSE s.round + 1)]
      /\ missedProposals' = IF missed
           THEN [missedProposals EXCEPT ![v][leader] = IF lateProposer THEN 0 ELSE @ + 1]
           ELSE missedProposals
      /\ missedVotes' = [missedVotes EXCEPT ![v] =
           [u \in Validators |->
              IF u \in jailed1 THEN missedVotes[v][u]
              ELSE IF u \in silent \ absent THEN missedVotes[v][u] + 1 ELSE 0]]
      /\ jailed' = [jailed EXCEPT ![v] = jailed1 \cup absent]
  BY Zenon DEF AdvanceRound
<1>2. /\ s \in RoundStates /\ s.round \in Rounds /\ s.round \in Nat
      /\ MaxRounds \in Nat /\ PriorMisses \in Nat
      /\ ProposalMissLimit \in Nat /\ VoteMissLimit \in Nat
  <2>1. s \in RoundStates
    BY Zenon DEF TypeOK
  <2>2. s.round \in Rounds
    BY <2>1 DEF RoundStates
  <2>3. s.round \in Nat
    BY <2>2, BoundAssumption DEF Rounds
  <2>4. /\ MaxRounds \in Nat /\ PriorMisses \in Nat
        /\ ProposalMissLimit \in Nat /\ VoteMissLimit \in Nat
    BY BoundAssumption
  <2> QED BY <2>1, <2>2, <2>3, <2>4
<1>3. ~wrap
  <2>1. wraps[v] \in 0 .. 0
    BY DEF TypeOK, Undisturbed
  <2>2. ~(wraps[v] < MaxWraps)
    BY <2>1 DEF Undisturbed
  <2> QED BY <1>1, <2>2
<1>4. /\ s.round + 1 \in Rounds /\ s.round + 1 < MaxRounds
      /\ rs' = [rs EXCEPT ![v] = NewRoundState(s.round + 1)]
  <2>1. s.round + 1 \in Rounds /\ s.round + 1 < MaxRounds
    BY <1>2, <1>3 DEF Rounds
  <2>2. rs' = [rs EXCEPT ![v] = NewRoundState(s.round + 1)]
    <3> HIDE DEF wrap
    <3> QED BY <1>1, <1>3, Zenon
  <2> QED BY <2>1, <2>2
<1>5. NewRoundState(s.round + 1).round = s.round + 1
  BY DEF NewRoundState
<1>6. jailed[v] = {} /\ \A u \in Validators :
        /\ missedProposals[v][u] \in Nat /\ missedVotes[v][u] \in Nat
        /\ missedProposals[v][u] <= PriorMisses + s.round
        /\ missedVotes[v][u] <= PriorMisses + s.round
  BY DEF AgreementInv, NobodyJailed, TypeOK
<1>7. \A u \in Validators : /\ missedProposals[v][u] + 1 < ProposalMissLimit
                            /\ missedVotes[v][u] + 1 < VoteMissLimit
  BY <1>2, <1>4, <1>6 DEF Undisturbed
<1>8. leader \in Validators \cup {None}
  <2>1. Active(v) \in SUBSET Validators
    BY DEF Active
  <2> QED BY <1>2, <2>1, LeaderIsActive DEF ProposerForRound
<1>9. ~lateProposer /\ absent = {}
  <2>1. ~lateProposer
    <3> HIDE DEF leader
    <3> QED BY <1>2, <1>6, <1>7, <1>8
  <2>2. absent = {}
    <3> HIDE DEF jailed1
    <3> QED BY <1>2, <1>6, <1>7
  <2> QED BY <2>1, <2>2
<1> HIDE DEF wrap, leader
<1>10. jailed' = [jailed EXCEPT ![v] = {}]
  BY <1>1, <1>6, <1>9
<1>11. ASSUME NEW u \in Validators
       PROVE  /\ missedProposals'[v][u] <= missedProposals[v][u] + 1
              /\ missedVotes'[v][u] <= missedVotes[v][u] + 1
  <2>1. missedVotes'[v][u] <= missedVotes[v][u] + 1
    <3> HIDE DEF jailed1, silent, absent
    <3>1. missedVotes'[v][u] = IF u \in jailed1 THEN missedVotes[v][u]
            ELSE IF u \in silent \ absent THEN missedVotes[v][u] + 1 ELSE 0
      BY <1>1 DEF TypeOK
    <3> QED BY <1>6, <3>1
  <2>2. missedProposals'[v][u] <= missedProposals[v][u] + 1
    <3>1. missed => leader \in Validators
      BY <1>8
    <3> HIDE DEF missed, lateProposer
    <3>2. CASE ~missed
      BY <1>1, <1>6, <3>2
    <3>3. CASE missed
      <4>1. missedProposals'[v][u] = IF u = leader THEN missedProposals[v][u] + 1
                                     ELSE missedProposals[v][u]
        BY <1>1, <1>9, <3>1, <3>3 DEF TypeOK
      <4> QED BY <1>6, <4>1
    <3> QED BY <3>2, <3>3
  <2> QED BY <2>1, <2>2
<1>12. ASSUME NEW w \in Validators \ {v}
       PROVE  /\ missedProposals'[w] = missedProposals[w]
              /\ missedVotes'[w] = missedVotes[w]
  <2> HIDE DEF missed, lateProposer, jailed1, silent, absent
  <2>1. missedVotes'[w] = missedVotes[w]
    BY <1>1 DEF TypeOK
  <2>2. missedProposals'[w] = missedProposals[w]
    <3>1. CASE missed
      BY <1>1, <3>1 DEF TypeOK
    <3>2. CASE ~missed
      BY <1>1, <3>2
    <3> QED BY <3>1, <3>2
  <2> QED BY <2>1, <2>2
<1> PICK t \in RoundStates : t = NewRoundState(s.round + 1)
  BY <1>4, FreshRound
<1>13. NobodyJailed'
  <2>1. committed' = committed
    OBVIOUS
  <2>2. \A w \in Validators : rs'[w] = IF w = v THEN t ELSE rs[w]
    BY <1>4 DEF TypeOK
  <2>3. \A w \in Validators : jailed'[w] = {}
    BY <1>10 DEF AgreementInv, NobodyJailed, TypeOK
  <2>4. ASSUME NEW w \in Validators, committed'[w] = None, NEW u \in Validators
        PROVE  /\ missedProposals'[w][u] <= PriorMisses + rs'[w].round
               /\ missedVotes'[w][u] <= PriorMisses + rs'[w].round
    <3>1. CASE w = v
      <4>1. missedProposals'[v][u] \in Nat /\ missedVotes'[v][u] \in Nat
        BY DEF TypeOK
      <4>2. rs'[v].round = s.round + 1
        BY <1>5, <2>2
      <4> HIDE DEF s
      <4> QED BY <1>2, <1>6, <1>11, <3>1, <4>1, <4>2
    <3>2. CASE w # v
      BY <1>12, <2>1, <2>2, <2>4, <3>2 DEF AgreementInv, NobodyJailed
    <3> QED BY <3>1, <3>2
  <2> QED BY <2>3, <2>4 DEF NobodyJailed
<1>14. RoundInv(v, t)
  <2>1. s.round + 1 > s.round
    BY <1>2
  <2>2. RoundInv(v, s)
    BY DEF AgreementInv
  <2> HIDE DEF s
  <2> QED BY <1>2, <1>4, <2>1, <2>2, LaterRound
<1>15. rs' = [rs EXCEPT ![v] = t]
  BY <1>4
<1>16. UNCHANGED <<lockedBlock, lockedRound, committed,
                   proposalMsgs, prevoteMsgs, precommitMsgs>>
  BY DEF msgVars
<1>17. \A u \in Validators : proposalsSeen'[u] \subseteq proposalMsgs
  BY DEF AgreementInv, VotesGrounded
<1> QED BY <1>13, <1>14, <1>15, <1>16, <1>17, LocalStep
-----------------------------------------------------------------------------
(* The actions.                                                            *)

\* Only what a correct validator has sent can be delivered, and everybody
\* counts in the quorums of everybody.
LEMMA NobodyFaulty ==
  ASSUME Undisturbed, AgreementInv
  PROVE  /\ Correct = Validators
         /\ Proposals = proposalMsgs
         /\ Prevotes = prevoteMsgs
         /\ Precommits = precommitMsgs
         /\ \A v \in Validators : Active(v) = Validators
         /\ \A p \in SyncBlocks : \E u \in Validators :
              committed[u] # None /\ p = <<committed[u], cert[u]>>
<1>1. Faulty = {}
  BY DEF Undisturbed
<1>2. Correct = Validators
  BY <1>1 DEF Correct
<1>3. Proposals = proposalMsgs
  BY <1>1 DEF Proposals
<1>4. Prevotes = prevoteMsgs /\ Precommits = precommitMsgs
  BY <1>1 DEF Prevotes, Precommits, FaultyVotes
<1>5. \A v \in Validators : Active(v) = Validators
  BY DEF AgreementInv, NobodyJailed, Active
<1>6. \A p \in SyncBlocks : \E u \in Validators :
        committed[u] # None /\ p = <<committed[u], cert[u]>>
  BY <1>1, <1>2 DEF SyncBlocks
<1> QED BY <1>2, <1>3, <1>4, <1>5, <1>6

\* The node's own attestation, after the engine left round state s.
LEMMA AttestStep ==
  ASSUME Undisturbed, TypeOK, TypeOK', AgreementInv, NEW v \in Validators,
         NEW s \in RoundStates, RoundInv(v, s), s.round >= rs[v].round,
         NEW b, NEW active, NEW proposer, EagerAttestation(v, b, s, active, proposer),
         UNCHANGED <<lockedBlock, lockedRound, slashVars, committed,
                     proposalMsgs, prevoteMsgs, precommitMsgs>>,
         \A u \in Validators : proposalsSeen'[u] \subseteq proposalMsgs
  PROVE  AgreementInv'
<1>1. PICK c : c = [s EXCEPT !.phase = "Commit", !.proposed = None]
  OBVIOUS
<1>2. c \in RoundStates /\ RoundInv(v, c)
  BY <1>1, LaterPhase
<1>3. c.round = s.round
  BY <1>1 DEF RoundStates
<1>4. rs' = [rs EXCEPT ![v] = s] \/ rs' = [rs EXCEPT ![v] = c]
  BY <1>1, Zenon DEF EagerAttestation
<1>5. NobodyJailed'
  BY <1>2, <1>3, <1>4, JailKept
<1> QED BY <1>2, <1>4, <1>5, LocalStep

\* Committing what the recorded precommits of a round allow.
LEMMA VotedCommitStep ==
  ASSUME Undisturbed, TypeOK, TypeOK', AgreementInv, NEW v \in Validators,
         NEW s \in RoundStates, RoundInv(v, s),
         NEW b \in Committable(Validators, s), NEW S, Commit(v, b, S),
         UNCHANGED <<proposalsSeen, slashVars, msgVars>>
  PROVE  AgreementInv'
<1>1. b \in Blocks
  BY CommittableType
<1>2. b \in QuorumValues(Validators, s.precommits) /\ s.round \in Rounds
  BY DEF Committable, RoundStates
<1>3. VotedByQuorum(precommitMsgs, s.round, b)
  BY <1>2, RecordedQuorum DEF RoundInv
<1> QED BY <1>1, <1>2, <1>3, CommitStep

\* Every tick of an undisturbed height keeps the invariant.
LEMMA TickKeeps ==
  ASSUME Undisturbed, TypeOK, TypeOK', AgreementInv, NEW v \in Validators, Tick(v)
  PROVE  AgreementInv'
<1>0. /\ rs[v] \in RoundStates /\ committed[v] = None /\ Active(v) = Validators
      /\ rs[v].round \in Nat /\ rs[v].round \in Rounds
  <2>1. committed[v] = None
    BY DEF Tick, TickPropose, TickProposeTimeout, TickPrevoteQuorum,
           TickPrevoteTimeout, TickCommit, TickMismatch, TickNilQuorum,
           TickPrecommitTimeout, TickCommitPhase
  <2> QED BY <2>1, NobodyFaulty, BoundAssumption, SMTT(30) DEF TypeOK, RoundStates, Rounds
<1> PICK s \in RoundStates : s = rs[v]
  BY <1>0
<1>r. RoundInv(v, s) /\ s.round >= rs[v].round
  BY <1>0 DEF AgreementInv
<1>p. \A u \in Validators : proposalsSeen[u] \subseteq proposalMsgs
  BY DEF AgreementInv, VotesGrounded
<1> USE DEF engineVars, slashVars, daVars, heightVars, boundVars, msgVars
<1>1. CASE TickPropose(v)
  <2> PICK b : b = CreateProposal(v)
    OBVIOUS
  <2>1. /\ s.phase = "Propose" /\ CanPropose(v)
        /\ rs' = [rs EXCEPT ![v] = [rs[v] EXCEPT !.phase = "Prevote",
                     !.proposed = b, !.prevoted = TRUE, !.prevotes[v] = b]]
        /\ proposalMsgs' = proposalMsgs \cup {Proposal(s.round, v, b)}
        /\ prevoteMsgs' = prevoteMsgs \cup {Vote(s.round, v, b)}
        /\ UNCHANGED <<lockedBlock, lockedRound, committed, precommitMsgs>>
        /\ UNCHANGED <<slashVars, committed>> /\ proposalsSeen' = proposalsSeen
    BY <1>1, Zenon DEF TickPropose
  <2>2. b \in Blocks /\ b # None /\ b # Nil /\ lockedBlock[v] \in {None, b}
    BY SentinelAssumption DEF TypeOK, Blocks, CreateProposal
  <2>3. LeaderForEpoch(s.round, Validators) = v
    BY <1>0, <2>1 DEF CanPropose, ProposerForRound
  <2>4. ~s.prevoted
    BY <1>r, <2>1 DEF RoundInv, PhaseConsistent
  <2> PICK t : t = [s EXCEPT !.phase = "Prevote", !.proposed = b,
                             !.prevoted = TRUE, !.prevotes[v] = b]
    OBVIOUS
  <2>5. rs' = [rs EXCEPT ![v] = t]
    BY <2>1
  <2>6. t \in RoundStates /\ t.round = s.round
    BY <2>2 DEF RoundStates, Phases, Votes
  <2>7. NobodyJailed'
    BY <1>r, <2>1, <2>5, <2>6, JailKept
  <2>8. \E m \in proposalMsgs' : m.round = s.round /\ m.block = b
    <3>1. Proposal(s.round, v, b) \in proposalMsgs'
      BY <2>1
    <3>2. Proposal(s.round, v, b).round = s.round /\ Proposal(s.round, v, b).block = b
      BY DEF Proposal
    <3> QED BY <3>1, <3>2
  <2>9. \A u \in Validators : proposalsSeen'[u] \subseteq proposalMsgs'
    BY <1>p, <2>1
  <2>10. /\ s.phase = "Propose"
         /\ proposalMsgs' = proposalMsgs \cup {Proposal(s.round, v, b)}
         /\ prevoteMsgs' = prevoteMsgs \cup {Vote(s.round, v, b)}
         /\ UNCHANGED <<lockedBlock, lockedRound, committed, precommitMsgs>>
    BY <2>1
  <2>11. b \in Blocks \cup {None} /\ b \in {b, Nil}
    BY <2>2
  <2> QED BY ZenonT(30), <1>0, <1>r, <2>2, <2>3, <2>4, <2>5, <2>7, <2>8, <2>9, <2>10, <2>11,
             PrevoteStep
<1>2. CASE TickProposeTimeout(v)
  <2>1. /\ s.phase = "Propose"
        /\ UNCHANGED <<lockedBlock, lockedRound, committed, proposalMsgs, precommitMsgs>>
        /\ UNCHANGED <<slashVars, committed>> /\ proposalsSeen' = proposalsSeen
    BY <1>2, Zenon DEF TickProposeTimeout
  <2>2. ~s.prevoted /\ s.proposed = None
    BY <1>r, <2>1 DEF RoundInv, PhaseConsistent, HeldProposed
  <2>3. CASE /\ rs' = [rs EXCEPT ![v] = [rs[v] EXCEPT !.phase = "Prevote"]]
             /\ prevoteMsgs' = prevoteMsgs
    <3> PICK t : t = [s EXCEPT !.phase = "Prevote"]
      OBVIOUS
    <3>1. t \in RoundStates
      BY DEF RoundStates, Phases
    <3>2. /\ t.round = s.round /\ t.phase = "Prevote" /\ t.proposed = s.proposed
          /\ t.prevoted = s.prevoted /\ t.precommitted = s.precommitted
          /\ t.prevotes = s.prevotes /\ t.precommits = s.precommits
      BY DEF RoundStates
    <3>3. s.prevotes[v] \notin Blocks
      <4>1. ASSUME s.prevotes[v] \in Blocks PROVE FALSE
        <5>1. Vote(s.round, v, s.prevotes[v]) \in prevoteMsgs
          BY <1>r, <4>1, SentinelAssumption DEF RoundInv, RecordedSent
        <5> QED BY <1>r, <2>2, <5>1 DEF RoundInv, OwnRecorded, Vote
      <4> QED BY <4>1
    <3>4. RoundInv(v, t)
      <4>1. RecordedSent(t) /\ HeldProposed(t)
        BY <1>r, <3>2 DEF RoundInv, RecordedSent, HeldProposed
      <4>2. OwnRecorded(v, t)
        BY <1>r, <3>2 DEF RoundInv, OwnRecorded
      <4>3. PhaseConsistent(v, t) /\ LockOlder(v, t)
        BY <1>r, <3>2, <3>3 DEF RoundInv, PhaseConsistent, LockOlder
      <4> QED BY <4>1, <4>2, <4>3 DEF RoundInv
    <3>5. rs' = [rs EXCEPT ![v] = t]
      BY <2>3
    <3>6. NobodyJailed'
      BY <1>r, <2>1, <3>1, <3>2, <3>5, JailKept
    <3> QED BY <1>p, <2>1, <2>3, <3>1, <3>4, <3>5, <3>6, LocalStep
  <2>4. CASE /\ rs' = [rs EXCEPT ![v] = [rs[v] EXCEPT !.phase = "Prevote",
                                          !.prevoted = TRUE, !.prevotes[v] = Nil]]
             /\ prevoteMsgs' = prevoteMsgs \cup {Vote(rs[v].round, v, Nil)}
    <3> PICK t : t = [s EXCEPT !.phase = "Prevote", !.proposed = None,
                               !.prevoted = TRUE, !.prevotes[v] = Nil]
      OBVIOUS
    <3>1. t \in RoundStates /\ t.round = s.round
      BY DEF RoundStates, Phases, Votes
    <3>2. t = [s EXCEPT !.phase = "Prevote", !.prevoted = TRUE, !.prevotes[v] = Nil]
      BY <2>2 DEF RoundStates
    <3>3. rs' = [rs EXCEPT ![v] = t]
      BY <2>4, <3>2
    <3>4. NobodyJailed'
      BY <1>r, <2>1, <3>1, <3>3, JailKept
    <3>5. \A u \in Validators : proposalsSeen'[u] \subseteq proposalMsgs'
      BY <1>p, <2>1
    <3>6. prevoteMsgs' = prevoteMsgs \cup {Vote(s.round, v, Nil)}
      BY <2>4
    <3> QED BY <1>0, <1>r, <2>1, <2>2, <3>3, <3>4, <3>5, <3>6,
               SentinelAssumption, PrevoteStep
  <2> QED BY <1>2, <2>3, <2>4, Zenon DEF TickProposeTimeout
<1>3. CASE TickPrevoteQuorum(v)
  <2>1. PICK x \in QuorumValues(Validators, s.prevotes) : EnterPrecommit(v, s, x)
    BY <1>0, <1>3 DEF TickPrevoteQuorum
  <2>2. x \in Votes
    BY QuorumValuesType DEF RoundStates
  <2>3. s.phase = "Prevote" /\ UNCHANGED <<proposalsSeen, slashVars, committed,
                                           proposalMsgs, prevoteMsgs>>
    BY <1>3 DEF TickPrevoteQuorum
  <2> QED BY <1>r, <2>1, <2>2, <2>3, EnterPrecommitStep
<1>4. CASE TickPrevoteTimeout(v)
  <2>1. /\ s.phase = "Prevote" /\ EnterPrecommit(v, s, Nil)
        /\ UNCHANGED <<proposalsSeen, slashVars, committed, proposalMsgs, prevoteMsgs>>
    BY <1>4 DEF TickPrevoteTimeout
  <2> QED BY <1>r, <2>1, EnterPrecommitStep DEF Votes
<1>5. CASE TickCommit(v)
  <2>1. PICK b \in Committable(Validators, s) :
          Commit(v, b, VotersFor(s.precommits, b))
    BY <1>0, <1>5 DEF TickCommit
  <2>2. UNCHANGED <<proposalsSeen, slashVars, msgVars>>
    BY <1>5 DEF TickCommit
  <2> QED BY <1>r, <2>1, <2>2, VotedCommitStep
<1>6. CASE TickMismatch(v)
  BY <1>0, <1>6, <1>r, NoMismatch DEF TickMismatch
<1>7. CASE TickCommitPhase(v)
  <2> PICK t : t = [s EXCEPT !.phase = "Commit", !.proposed = None]
    OBVIOUS
  <2>1. s.phase = "Commit" /\ rs' = [rs EXCEPT ![v] = [rs[v] EXCEPT !.proposed = None]]
    BY <1>7, Zenon DEF TickCommitPhase
  <2>2. t = [s EXCEPT !.proposed = None]
    BY <2>1 DEF RoundStates
  <2>3. rs' = [rs EXCEPT ![v] = t]
    BY <2>1, <2>2
  <2>4. t \in RoundStates /\ RoundInv(v, t)
    BY <1>r, LaterPhase
  <2>5. t.round = s.round
    BY DEF RoundStates
  <2>6. /\ UNCHANGED <<lockedBlock, lockedRound, committed,
                       proposalMsgs, prevoteMsgs, precommitMsgs>>
        /\ UNCHANGED <<slashVars, committed>> /\ proposalsSeen' = proposalsSeen
    BY <1>7 DEF TickCommitPhase
  <2>7. NobodyJailed'
    BY <1>r, <2>3, <2>4, <2>5, <2>6, JailKept
  <2> QED BY <1>p, <2>3, <2>4, <2>6, <2>7, LocalStep
<1>8. CASE TickNilQuorum(v) \/ TickPrecommitTimeout(v)
  <2>1. /\ AdvanceRound(v)
        /\ UNCHANGED <<lockedBlock, lockedRound, committed, proposalsSeen, msgVars>>
    BY <1>8 DEF TickNilQuorum, TickPrecommitTimeout
  <2> QED BY <1>0, <2>1, AdvanceRoundStep
<1> QED BY <1>1, <1>2, <1>3, <1>4, <1>5, <1>6, <1>7, <1>8 DEF Tick
\* Every delivery to a validator of an undisturbed height keeps the invariant:
\* nothing looks like equivocation, and nothing fails a check.
LEMMA OnMessageKeeps ==
  ASSUME Undisturbed, TypeOK, TypeOK', AgreementInv, NEW v \in Validators, OnMessage(v)
  PROVE  AgreementInv'
<1>0. /\ rs[v] \in RoundStates /\ Active(v) = Validators /\ rs[v].round \in Nat
      /\ Proposals = proposalMsgs /\ Prevotes = prevoteMsgs
      /\ Precommits = precommitMsgs
  <2>1. rs[v] \in RoundStates
    BY DEF TypeOK
  <2>2. rs[v].round \in Nat
    BY <2>1, BoundAssumption DEF RoundStates, Rounds
  <2> QED BY <2>1, <2>2, NobodyFaulty
<1>r. committed[v] = None => RoundInv(v, rs[v])
  BY DEF AgreementInv
<1>p. \A u \in Validators : proposalsSeen[u] \subseteq proposalMsgs
  BY DEF AgreementInv, VotesGrounded
<1>q. prevoteMsgs \in SUBSET VoteRecords /\ precommitMsgs \in SUBSET VoteRecords
      /\ proposalMsgs \in SUBSET ProposalRecords
  BY DEF TypeOK, VoteRecords, ProposalRecords
<1> USE DEF engineVars, slashVars, daVars, heightVars, boundVars, msgVars
<1>1. ASSUME NEW m \in proposalMsgs, OnProposalRejected(v, m) PROVE AgreementInv'
  <2>1. committed[v] = None /\ m.round \in Rounds
    BY <1>1, <1>q DEF OnProposalRejected, ProposalRecords
  <2> PICK s : s = SkipTo(rs[v], m.round)
    OBVIOUS
  <2>2. s \in RoundStates /\ RoundInv(v, s) /\ s.round >= rs[v].round
    BY <1>r, <2>1, SkipToRound
  <2>3. EagerAttestation(v, m.block, s, Active(v), daProposer[v])
    BY <1>1 DEF OnProposalRejected
  <2>4. /\ UNCHANGED <<lockedBlock, lockedRound, slashVars, committed,
                       proposalMsgs, prevoteMsgs, precommitMsgs>>
        /\ proposalsSeen' = proposalsSeen
    BY <1>1 DEF OnProposalRejected
  <2> QED BY <1>p, <2>2, <2>3, <2>4, AttestStep
<1>2. ASSUME NEW m \in proposalMsgs, OnProposalEquivocation(v, m) PROVE AgreementInv'
  <2>1. PICK n \in proposalMsgs : n.round = m.round /\ n.block # m.block
    BY <1>2, <1>p DEF OnProposalEquivocation, Equivocates
  <2> QED BY <2>1 DEF AgreementInv, OneBlockPerRound
<1>3. ASSUME NEW m \in proposalMsgs, OnProposalInvalid(v, m) PROVE AgreementInv'
  BY <1>3 DEF OnProposalInvalid, Undisturbed
<1>4. ASSUME NEW m \in proposalMsgs, OnProposal(v, m) PROVE AgreementInv'
  <2>1. /\ committed[v] = None /\ m.round \in Rounds /\ m.round >= rs[v].round
        /\ m.block \in Blocks
    BY <1>4, <1>q DEF OnProposal, Accepts, ProposalRecords
  <2> PICK s : s = SkipTo(rs[v], m.round)
    OBVIOUS
  <2>2. /\ s \in RoundStates /\ RoundInv(v, s) /\ s.round >= rs[v].round
        /\ s.round = m.round
    BY <1>r, <2>1, SkipToRound
  <2> PICK x : x = VoteOn(v, m.block)
    OBVIOUS
  <2>3. /\ x \in {m.block, Nil} /\ x # None
        /\ x # Nil => lockedBlock[v] \in {None, x}
    BY <2>1, SentinelAssumption DEF VoteOn
  <2>h. PICK held : held = [s EXCEPT !.proposed = m.block]
    OBVIOUS
  <2>v. PICK voted : voted = [held EXCEPT !.phase = "Prevote", !.prevoted = TRUE,
                                        !.prevotes[v] = x]
    OBVIOUS
  <2> DEFINE proposer == IF s.prevoted \/ x = Nil THEN daProposer[v] ELSE m.block[1]
  <2>4. /\ prevoteMsgs' = IF s.prevoted THEN prevoteMsgs
                          ELSE prevoteMsgs \cup {Vote(m.round, v, x)}
        /\ EagerAttestation(v, m.block, IF s.prevoted THEN held ELSE voted,
                            Active(v), proposer)
        /\ proposalsSeen' = [proposalsSeen EXCEPT ![v] = @ \cup {m}]
        /\ UNCHANGED <<lockedBlock, lockedRound, slashVars, heightVars,
                       proposalMsgs, precommitMsgs>>
    BY <1>4, <2>h, <2>v, Zenon DEF OnProposal
  <2> HIDE DEF proposer
  <2>5. \A u \in Validators : proposalsSeen'[u] \subseteq proposalMsgs
    BY <1>p, <2>4 DEF TypeOK
  <2>6. CASE s.prevoted
    <3>1. /\ held.round = s.round /\ held.phase = s.phase /\ held.proposed = m.block
          /\ held.prevoted = s.prevoted /\ held.precommitted = s.precommitted
          /\ held.prevotes = s.prevotes /\ held.precommits = s.precommits
          /\ held \in RoundStates
      BY <2>1, <2>2, <2>h DEF RoundStates
    <3>2. s.prevotes[v] \in Blocks => s.prevotes[v] = m.block
      <4>1. ASSUME s.prevotes[v] \in Blocks PROVE s.prevotes[v] = m.block
        <5>1. Vote(s.round, v, s.prevotes[v]) \in prevoteMsgs
          BY <2>2, <4>1, SentinelAssumption DEF RoundInv, RecordedSent
        <5>2. \E n \in proposalMsgs : n.round = s.round /\ n.block = s.prevotes[v]
          BY <4>1, <5>1 DEF AgreementInv, VotesGrounded, Vote
        <5> QED BY <2>2, <5>2 DEF AgreementInv, OneBlockPerRound
      <4> QED BY <4>1
    <3>3. RoundInv(v, held)
      <4>1. RecordedSent(held)
        BY <2>2, <3>1 DEF RoundInv, RecordedSent
      <4>2. HeldProposed(held)
        BY <2>2, <2>6, <3>1 DEF HeldProposed
      <4>3. OwnRecorded(v, held)
        BY <2>2, <3>1 DEF RoundInv, OwnRecorded
      <4>4. PhaseConsistent(v, held) /\ LockOlder(v, held)
        BY <2>2, <3>1, <3>2 DEF RoundInv, PhaseConsistent, LockOlder
      <4> QED BY <4>1, <4>2, <4>3, <4>4 DEF RoundInv
    <3>4. EagerAttestation(v, m.block, held, Active(v), proposer)
      BY <2>4, <2>6
    <3>5. UNCHANGED <<lockedBlock, lockedRound, slashVars, committed,
                      proposalMsgs, prevoteMsgs, precommitMsgs>>
      BY <2>4, <2>6
    <3> QED BY <2>2, <2>5, <3>1, <3>3, <3>4, <3>5, AttestStep
  <2>7. CASE ~s.prevoted
    <3>1. voted = [s EXCEPT !.phase = "Prevote", !.proposed = m.block,
                            !.prevoted = TRUE, !.prevotes[v] = x]
      BY <2>2, <2>h, <2>v DEF RoundStates
    <3>2. voted \in RoundStates /\ voted.round = s.round /\ voted.phase = "Prevote"
      <4>1. x \in Votes
        BY <2>1, <2>3 DEF Votes
      <4> QED BY <2>1, <2>2, <3>1, <4>1 DEF RoundStates, Phases
    <3>3. EagerAttestation(v, m.block, voted, Active(v), proposer)
      BY <2>4, <2>7
    <3>4. rs' = [rs EXCEPT ![v] = voted]
      BY <3>2, <3>3, Zenon DEF EagerAttestation
    <3>5. NobodyJailed'
      BY <2>2, <2>4, <3>2, <3>4, JailKept
    <3>6. /\ prevoteMsgs' = prevoteMsgs \cup {Vote(s.round, v, x)}
          /\ proposalMsgs' = proposalMsgs
          /\ UNCHANGED <<lockedBlock, lockedRound, committed, precommitMsgs>>
      BY <2>2, <2>4, <2>7
    <3>7. /\ \E n \in proposalMsgs' : n.round = s.round /\ n.block = m.block
          /\ \A u \in Validators : proposalsSeen'[u] \subseteq proposalMsgs'
      BY <2>2, <2>5, <3>6
    <3>8. PICK b \in Blocks \cup {None} : b = m.block
      BY <2>1
    <3> QED BY <2>1, <2>2, <2>3, <2>7, <3>1, <3>4, <3>5, <3>6, <3>7, <3>8, PrevoteStep
  <2> QED BY <2>6, <2>7
<1>5. ASSUME NEW m \in prevoteMsgs, OnPrevoteEquivocation(v, m) PROVE AgreementInv'
  <2>1. /\ committed[v] = None /\ m.round = rs[v].round
        /\ rs[v].prevotes[m.from] \notin {None, m.vote} /\ m.from \in Validators
    BY <1>5, <1>q DEF OnPrevoteEquivocation, VoteRecords
  <2>2. Vote(m.round, m.from, rs[v].prevotes[m.from]) \in prevoteMsgs
    BY <1>r, <2>1 DEF RoundInv, RecordedSent
  <2> QED BY <2>1, <2>2 DEF AgreementInv, OneVoteEach, Vote
<1>6. ASSUME NEW m \in prevoteMsgs, OnPrevote(v, m) PROVE AgreementInv'
  <2>1. /\ committed[v] = None /\ m.round \in Rounds /\ m.round >= rs[v].round
        /\ m.from # v
    BY <1>6, <1>q DEF OnPrevote, Accepts, VoteRecords
  <2> PICK s : s = SkipTo(rs[v], m.round)
    OBVIOUS
  <2>2. /\ s \in RoundStates /\ RoundInv(v, s) /\ s.round >= rs[v].round
        /\ s.round = m.round
    BY <1>r, <2>1, SkipToRound
  <2> PICK t : t = [s EXCEPT !.prevotes[m.from] = m.vote]
    OBVIOUS
  <2>3. t \in RoundStates /\ RoundInv(v, t)
    BY <2>1, <2>2, RecordPrevote
  <2>4. t.round = s.round
    BY <2>2 DEF RoundStates
  <2> DEFINE quorum == IF t.phase = "Prevote" THEN QuorumValues(Active(v), t.prevotes)
                       ELSE {}
  <2>5. /\ IF quorum = {}
           THEN /\ rs' = [rs EXCEPT ![v] = t]
                /\ UNCHANGED <<lockedBlock, lockedRound, precommitMsgs>>
           ELSE \E x \in quorum : EnterPrecommit(v, t, x)
        /\ UNCHANGED <<proposalsSeen, slashVars, heightVars, proposalMsgs, prevoteMsgs>>
    BY <1>6, Zenon DEF OnPrevote
  <2>6. CASE quorum = {}
    <3> HIDE DEF quorum
    <3>1. /\ rs' = [rs EXCEPT ![v] = t]
          /\ UNCHANGED <<lockedBlock, lockedRound, committed,
                         proposalMsgs, prevoteMsgs, precommitMsgs>>
          /\ UNCHANGED <<slashVars, committed>> /\ proposalsSeen' = proposalsSeen
      BY <2>5, <2>6
    <3>2. NobodyJailed'
      BY <2>2, <2>3, <2>4, <3>1, JailKept
    <3> QED BY <1>p, <2>3, <3>1, <3>2, LocalStep
  <2>7. CASE quorum # {}
    <3>1. PICK x \in quorum : EnterPrecommit(v, t, x)
      BY <2>5, <2>7
    <3>2. t.phase = "Prevote" /\ x \in QuorumValues(Validators, t.prevotes)
      BY <1>0, <3>1
    <3>3. x \in Votes
      BY <2>3, <3>2, QuorumValuesType DEF RoundStates
    <3>4. UNCHANGED <<proposalsSeen, slashVars, committed, proposalMsgs, prevoteMsgs>>
      BY <2>5
    <3> QED BY <2>2, <2>3, <2>4, <3>1, <3>2, <3>3, <3>4, EnterPrecommitStep
  <2> QED BY <2>6, <2>7
<1>7. ASSUME NEW m \in precommitMsgs, OnPrecommitEquivocation(v, m) PROVE AgreementInv'
  <2>1. /\ committed[v] = None /\ m.round = rs[v].round
        /\ rs[v].precommits[m.from] \notin {None, m.vote} /\ m.from \in Validators
    BY <1>7, <1>q DEF OnPrecommitEquivocation, VoteRecords
  <2>2. Vote(m.round, m.from, rs[v].precommits[m.from]) \in precommitMsgs
    BY <1>r, <2>1 DEF RoundInv, RecordedSent
  <2> QED BY <2>1, <2>2 DEF AgreementInv, OneVoteEach, Vote
<1>8. ASSUME NEW m \in precommitMsgs, OnPrecommit(v, m) PROVE AgreementInv'
  <2>1. /\ committed[v] = None /\ m.round \in Rounds /\ m.round >= rs[v].round
        /\ m.from # v
    BY <1>8, <1>q DEF OnPrecommit, Accepts, VoteRecords
  <2> PICK s : s = SkipTo(rs[v], m.round)
    OBVIOUS
  <2>2. /\ s \in RoundStates /\ RoundInv(v, s) /\ s.round >= rs[v].round
        /\ s.round = m.round
    BY <1>r, <2>1, SkipToRound
  <2> PICK t : t = [s EXCEPT !.precommits[m.from] = m.vote]
    OBVIOUS
  <2>3. t \in RoundStates /\ RoundInv(v, t)
    BY <2>1, <2>2, RecordPrecommit
  <2>4. t.round = s.round
    BY <2>2 DEF RoundStates
  <2>5. ~QuorumMismatch(Active(v), t)
    BY <1>0, <2>3, NoMismatch
  <2>6. /\ \/ \E b \in Committable(Active(v), t) : Commit(v, b, VotersFor(t.precommits, b))
           \/ /\ rs' = [rs EXCEPT ![v] = t]
              /\ UNCHANGED <<lockedBlock, lockedRound, heightVars>>
        /\ UNCHANGED <<proposalsSeen, slashVars, msgVars>>
    BY <1>8, <2>5, Zenon DEF OnPrecommit
  <2>7. CASE \E b \in Committable(Active(v), t) : Commit(v, b, VotersFor(t.precommits, b))
    BY <1>0, <2>3, <2>6, <2>7, VotedCommitStep
  <2>8. CASE /\ rs' = [rs EXCEPT ![v] = t]
             /\ UNCHANGED <<lockedBlock, lockedRound, heightVars>>
    <3>1. /\ UNCHANGED <<lockedBlock, lockedRound, committed,
                         proposalMsgs, prevoteMsgs, precommitMsgs>>
          /\ UNCHANGED <<slashVars, committed>> /\ proposalsSeen' = proposalsSeen
      BY <2>6, <2>8
    <3>2. NobodyJailed'
      BY <2>2, <2>3, <2>4, <2>8, <3>1, JailKept
    <3> QED BY <1>p, <2>3, <2>8, <3>1, <3>2, LocalStep
  <2> QED BY <2>6, <2>7, <2>8
<1>9. ASSUME NEW u \in Attesters, OnDAAttestation(v, u) PROVE AgreementInv'
  <2>1. committed[v] = None /\ UNCHANGED <<proposalsSeen, slashVars, msgVars>>
    BY <1>9 DEF OnDAAttestation
  <2>2. \/ \E b \in Committable(Active(v), rs[v]) :
             Commit(v, b, VotersFor(rs[v].precommits, b))
        \/ UNCHANGED <<engineVars, heightVars>>
    <3> DEFINE committable == IF rs[v].phase = "Precommit"
                              THEN Committable(Active(v), rs[v]) ELSE {}
    <3>1. \/ \E b \in committable : Commit(v, b, VotersFor(rs[v].precommits, b))
          \/ UNCHANGED <<engineVars, heightVars>>
      BY <1>9, Zenon DEF OnDAAttestation
    <3> QED BY <3>1
  <2>3. CASE \E b \in Committable(Active(v), rs[v]) :
               Commit(v, b, VotersFor(rs[v].precommits, b))
    BY <1>0, <1>r, <2>1, <2>3, VotedCommitStep
  <2>4. CASE UNCHANGED <<engineVars, heightVars>>
    <3> PICK s \in RoundStates : s = rs[v]
      BY <1>0
    <3>1. rs' = [rs EXCEPT ![v] = s]
      BY <2>4 DEF TypeOK
    <3>2. NobodyJailed'
      <4>1. s.round >= rs[v].round /\ UNCHANGED <<slashVars, committed>>
        BY <1>0, <2>1, <2>4
      <4> QED BY <3>1, <4>1, JailKept
    <3>3. /\ UNCHANGED <<lockedBlock, lockedRound, committed,
                         proposalMsgs, prevoteMsgs, precommitMsgs>>
          /\ proposalsSeen' = proposalsSeen
      BY <2>1, <2>4
    <3> QED BY <1>p, <1>r, <2>1, <3>1, <3>2, <3>3, LocalStep
  <2> QED BY <2>2, <2>3, <2>4
<1> QED BY <1>0, <1>1, <1>2, <1>3, <1>4, <1>5, <1>6, <1>7, <1>8, <1>9 DEF OnMessage
\* A synced block is one that a peer has committed.
LEMMA SyncKeeps ==
  ASSUME Undisturbed, TypeOK, TypeOK', AgreementInv, NEW v \in Validators, SyncApply(v)
  PROVE  AgreementInv'
<1>1. PICK p \in SyncBlocks : Commit(v, p[1], p[2])
  BY DEF SyncApply
<1>2. PICK u \in Validators : committed[u] # None /\ p = <<committed[u], cert[u]>>
  BY NobodyFaulty
<1>3. p[1] \in Blocks /\ \E r \in Rounds : VotedByQuorum(precommitMsgs, r, p[1])
  BY <1>2 DEF TypeOK, AgreementInv, CommitsDecided
<1>4. UNCHANGED <<proposalsSeen, slashVars, msgVars>>
  BY DEF SyncApply
<1> QED BY <1>1, <1>3, <1>4, CommitStep

-----------------------------------------------------------------------------
(* The theorems.                                                           *)

\* The invariant behind agreement is inductive: locks, votes and certificates
\* stay in step through every tick, delivery, sync and drain.
THEOREM AgreementInvariant ==
  ASSUME Undisturbed
  PROVE  Spec => [](TypeOK /\ AgreementInv)
<1>1. Init => AgreementInv
  <2> SUFFICES ASSUME Init PROVE AgreementInv
    OBVIOUS
  <2>1. PriorMisses \in Nat
    BY BoundAssumption
  <2>2. NobodyJailed
    BY <2>1 DEF Init, NobodyJailed, NewRoundState
  <2>3. \A v \in Validators : RoundInv(v, rs[v])
    BY DEF Init, NewRoundState, RoundInv, RecordedSent, HeldProposed, OwnRecorded,
           PhaseConsistent, LockOlder
  <2>4. /\ OneVoteEach /\ OneBlockPerRound /\ VotesGrounded
        /\ LocksGrounded /\ PrecommitsSticky /\ CommitsDecided
    BY DEF Init, OneVoteEach, OneBlockPerRound, VotesGrounded, LocksGrounded,
           PrecommitsSticky, CommitsDecided
  <2> QED BY <2>2, <2>3, <2>4 DEF AgreementInv
<1>2. TypeOK /\ TypeOK' /\ AgreementInv /\ [Next]_vars => AgreementInv'
  <2> SUFFICES ASSUME TypeOK, TypeOK', AgreementInv, [Next]_vars PROVE AgreementInv'
    OBVIOUS
  <2> USE DEF engineVars, slashVars, daVars, heightVars, boundVars, msgVars
  <2>1. Correct = Validators
    BY NobodyFaulty
  <2>2. ASSUME UNCHANGED <<engineVars, proposalsSeen, slashVars, heightVars, msgVars>>
        PROVE  AgreementInv'
    <3>2. NobodyJailed'
      BY <2>2 DEF AgreementInv, NobodyJailed
    <3>3. \A u \in Validators : committed'[u] = None => RoundInv(u, rs[u])'
      BY <2>2 DEF AgreementInv, RoundInv, RecordedSent, HeldProposed, OwnRecorded,
                  PhaseConsistent, LockOlder
    <3>4. OneVoteEach' /\ OneBlockPerRound' /\ VotesGrounded'
      BY <2>2 DEF AgreementInv, OneVoteEach, OneBlockPerRound, VotesGrounded
    <3>5. LocksGrounded' /\ CommitsDecided'
      BY <2>2 DEF AgreementInv, LocksGrounded, CommitsDecided
    <3>6. PrecommitsSticky'
      BY <2>2 DEF AgreementInv, PrecommitsSticky, Sticky, Bound, Superseded
    <3> QED BY <3>2, <3>3, <3>4, <3>5, <3>6 DEF AgreementInv
  <2>3. CASE UNCHANGED vars
    BY <2>2, <2>3 DEF vars
  <2>4. ASSUME NEW v \in Validators, SetDraining(v) PROVE AgreementInv'
    BY <2>2, <2>4 DEF SetDraining
  <2>5. ASSUME NEW v \in Validators, Restart(v) PROVE AgreementInv'
    <3>1. restarts[v] \in 0 .. 0
      BY DEF TypeOK, Undisturbed
    <3>2. ~(restarts[v] < MaxRestarts)
      BY <3>1 DEF Undisturbed
    <3> QED BY <2>5, <3>2 DEF Restart
  <2> QED BY <2>1, <2>3, <2>4, <2>5, TickKeeps, OnMessageKeeps, SyncKeeps DEF Next
<1> QED BY <1>1, <1>2, TypeCorrect, PTL DEF Spec

\* The state predicate the invariant is for: a precommit quorum for b in round r
\* leaves no room for a prevote quorum for another block in r or later.
LEMMA QuorumIsFinal ==
  ASSUME Undisturbed, TypeOK, AgreementInv,
         NEW r \in Rounds, NEW b \in Blocks, VotedByQuorum(precommitMsgs, r, b),
         NEW k \in Rounds, k >= r, NEW c \in Blocks,
         VotedByQuorum(prevoteMsgs, k, c)
  PROVE  b = c
<1>0. /\ prevoteMsgs \in SUBSET VoteRecords /\ precommitMsgs \in SUBSET VoteRecords
      /\ Rounds \in SUBSET Nat
  BY BoundAssumption DEF TypeOK, VoteRecords, Rounds
<1>1. IsQuorum(Sticky(r, b), Validators)
  <2>1. \E m \in precommitMsgs : m.round = r /\ m.vote = b
    BY <1>0, VotesOfQuorum DEF Votes
  <2> QED BY <2>1 DEF AgreementInv, PrecommitsSticky
<1>2. ASSUME NEW j \in Rounds, j >= r, NEW d \in Blocks, d # b,
             VotedByQuorum(prevoteMsgs, j, d)
      PROVE  \E i \in Rounds : /\ r < i /\ i < j
                               /\ \E e \in Blocks \ {b} : VotedByQuorum(prevoteMsgs, i, e)
  <2>1. /\ IsQuorum(Senders(prevoteMsgs, j, d), Validators)
        /\ IsQuorum(Senders(precommitMsgs, r, b), Validators)
    BY <1>0, <1>2, VotesOfQuorum DEF Votes
  <2>2. /\ Senders(prevoteMsgs, j, d) \in SUBSET Validators
        /\ Senders(precommitMsgs, r, b) \in SUBSET Validators
    BY <1>0, SendersVoted DEF Votes
  <2>3. Sticky(r, b) \in SUBSET Validators
    BY DEF Sticky
  <2>4. PICK u \in Validators : /\ u \in Sticky(r, b)
                                /\ u \in Senders(precommitMsgs, r, b)
                                /\ u \in Senders(prevoteMsgs, j, d)
    BY <1>1, <2>1, <2>2, <2>3, ThreeQuorumsMeet
  <2>5. Vote(r, u, b) \in precommitMsgs /\ Vote(j, u, d) \in prevoteMsgs
    BY <1>0, <2>4, SendersVoted DEF Votes
  <2>6. Vote(r, u, b) \in prevoteMsgs /\ Bound(u, r, b)
    BY <2>4, <2>5 DEF Sticky
  <2>7. /\ Vote(j, u, d).from = u /\ Vote(j, u, d).round = j /\ Vote(j, u, d).vote = d
        /\ Vote(r, u, b).from = u /\ Vote(r, u, b).round = r /\ Vote(r, u, b).vote = b
    BY DEF Vote
  <2>8. j # r
    BY <1>2, <2>5, <2>6, <2>7 DEF AgreementInv, OneVoteEach
  <2>9. j > r
    BY <1>0, <1>2, <2>8
  <2>10. Superseded(r, b, j)
    BY <1>2, <2>5, <2>6, <2>7, <2>9 DEF Bound
  <2> QED BY <1>0, <2>10 DEF Superseded, VoteRecords
<1>3. SUFFICES ASSUME b # c PROVE FALSE
  OBVIOUS
<1> DEFINE Late == {j \in Rounds : /\ j >= r
                                   /\ \E d \in Blocks \ {b} : VotedByQuorum(prevoteMsgs, j, d)}
<1>4. Late # {} /\ Late \in SUBSET Nat
  BY <1>0, <1>3
<1>5. PICK j \in Late : \A i \in Late : j <= i
  BY <1>4, LeastNatural
<1>6. PICK i \in Rounds : /\ r < i /\ i < j
                          /\ \E e \in Blocks \ {b} : VotedByQuorum(prevoteMsgs, i, e)
  BY <1>2, <1>5
<1>7. i \in Late
  BY <1>0, <1>6
<1> QED BY <1>0, <1>5, <1>6, <1>7

\* Once a quorum has precommitted a block, no later round of an undisturbed
\* height gathers a prevote quorum for another one.
THEOREM DecisionsAreFinal ==
  ASSUME Undisturbed
  PROVE  Spec => []DecisionIsFinal
<1>1. TypeOK /\ AgreementInv => DecisionIsFinal
  <2> SUFFICES ASSUME TypeOK, AgreementInv,
                      NEW m \in precommitMsgs, NEW n \in prevoteMsgs,
                      m.vote # Nil, n.vote \notin {Nil, m.vote}, n.round >= m.round,
                      VotedByQuorum(precommitMsgs, m.round, m.vote),
                      VotedByQuorum(prevoteMsgs, n.round, n.vote)
               PROVE  FALSE
    BY DEF DecisionIsFinal
  <2>1. /\ m.round \in Rounds /\ m.vote \in Blocks
        /\ n.round \in Rounds /\ n.vote \in Blocks
    BY DEF TypeOK, Votes
  <2> QED BY <2>1, QuorumIsFinal
<1> QED BY <1>1, AgreementInvariant, PTL

\* No two validators of an undisturbed height commit different blocks, by votes
\* or by sync.
THEOREM AgreementHolds ==
  ASSUME Undisturbed
  PROVE  Spec => []Agreement
<1>1. TypeOK /\ AgreementInv => Agreement
  <2> SUFFICES ASSUME TypeOK, AgreementInv, NEW u \in Correct, NEW v \in Correct,
                      committed[u] # None, committed[v] # None
               PROVE  committed[u] = committed[v]
    BY DEF Agreement
  <2>1. committed[u] \in Blocks /\ committed[v] \in Blocks
    BY DEF TypeOK, Correct
  <2>2. PICK r \in Rounds : VotedByQuorum(precommitMsgs, r, committed[u])
    BY DEF AgreementInv, CommitsDecided, Correct
  <2>3. PICK k \in Rounds : VotedByQuorum(precommitMsgs, k, committed[v])
    BY DEF AgreementInv, CommitsDecided, Correct
  <2>4. ASSUME NEW i \in Rounds, NEW b \in Blocks, VotedByQuorum(precommitMsgs, i, b)
        PROVE  VotedByQuorum(prevoteMsgs, i, b)
    <3>1. /\ precommitMsgs \in SUBSET VoteRecords /\ prevoteMsgs \in SUBSET VoteRecords
          /\ b \in Votes
      BY DEF TypeOK, VoteRecords, Votes
    <3>2. \E m \in precommitMsgs : m.round = i /\ m.vote = b
      BY <2>4, <3>1, VotesOfQuorum
    <3>3. IsQuorum(Sticky(i, b), Validators)
      BY <3>2 DEF AgreementInv, PrecommitsSticky
    <3>4. /\ Sticky(i, b) \in SUBSET Senders(prevoteMsgs, i, b)
          /\ Senders(prevoteMsgs, i, b) \in SUBSET Validators
      BY <3>1, SendersVoted DEF Sticky
    <3>5. IsQuorum(Senders(prevoteMsgs, i, b), Validators)
      BY <3>3, <3>4, LargerQuorum
    <3>6. Senders(prevoteMsgs, i, b) \cup Faulty = Senders(prevoteMsgs, i, b)
      BY DEF Undisturbed
    <3> QED BY <3>5, <3>6 DEF VotedByQuorum
  <2>5. k >= r \/ r >= k
    BY BoundAssumption DEF Rounds
  <2> QED BY <2>1, <2>2, <2>3, <2>4, <2>5, QuorumIsFinal
<1> QED BY <1>1, AgreementInvariant, PTL

\* A step commits for at most one validator, which had not committed before.
LEMMA CommitsOnce ==
  ASSUME TypeOK, Next
  PROVE  \/ committed' = committed
         \/ \E v \in Correct : /\ committed[v] = None
                               /\ \E b : committed' = [committed EXCEPT ![v] = b]
<1> USE DEF engineVars, slashVars, daVars, heightVars, boundVars, msgVars
<1>1. PICK v \in Correct : Tick(v) \/ OnMessage(v) \/ SyncApply(v) \/ Restart(v)
                           \/ SetDraining(v)
  BY DEF Next
<1>2. CASE Tick(v)
  BY <1>2 DEF Tick, TickPropose, TickProposeTimeout, TickPrevoteQuorum,
              TickPrevoteTimeout, TickCommit, TickMismatch, TickNilQuorum,
              TickPrecommitTimeout, TickCommitPhase, Commit
<1>3. CASE OnMessage(v)
  <2>1. CASE \E m \in Proposals : \/ OnProposalRejected(v, m)
                                  \/ OnProposalEquivocation(v, m)
                                  \/ OnProposalInvalid(v, m)
                                  \/ OnProposal(v, m)
    BY <2>1 DEF OnProposalRejected, OnProposalEquivocation, OnProposalInvalid, OnProposal
  <2>2. CASE \E m \in Prevotes : OnPrevoteEquivocation(v, m) \/ OnPrevote(v, m)
    BY <2>2 DEF OnPrevoteEquivocation, OnPrevote
  <2>3. CASE \E m \in Precommits : OnPrecommitEquivocation(v, m) \/ OnPrecommit(v, m)
    BY <2>3, Zenon DEF OnPrecommitEquivocation, OnPrecommit, Commit, Accepts
  <2>4. CASE \E u \in Attesters : OnDAAttestation(v, u)
    BY <2>4, Zenon DEF OnDAAttestation, Commit
  <2> QED BY <1>3, <2>1, <2>2, <2>3, <2>4 DEF OnMessage
<1>4. CASE SyncApply(v)
  BY <1>4 DEF SyncApply, Commit
<1>5. CASE Restart(v) \/ SetDraining(v)
  BY <1>5 DEF Restart, SetDraining
<1> QED BY <1>1, <1>2, <1>3, <1>4, <1>5

\* An undisturbed height implements a single decision.
THEOREM DecisionRefined ==
  ASSUME Undisturbed
  PROVE  Spec => ImplementsDecision
<1>1. Init => D!Init
  BY DEF Init, D!Init, Decided, Correct
<1>2. TypeOK /\ TypeOK' /\ Agreement' /\ [Next]_vars => [D!Next]_Decided
  <2> SUFFICES ASSUME TypeOK, TypeOK', Agreement', [Next]_vars,
                      Decided' # Decided
               PROVE  D!Next
    OBVIOUS
  <2>1. committed' # committed
    BY DEF Decided
  <2>2. Next
    BY <2>1 DEF vars, heightVars
  <2>3. PICK v \in Correct : /\ committed[v] = None
                             /\ \E b : committed' = [committed EXCEPT ![v] = b]
    BY <2>1, <2>2, CommitsOnce
  <2>b. PICK b : committed' = [committed EXCEPT ![v] = b]
    BY <2>3
  <2>4. v \in Validators /\ committed'[v] = b
    BY <2>3, <2>b DEF TypeOK, Correct
  <2>5. b \in Blocks
    BY <2>1, <2>3, <2>b, <2>4 DEF TypeOK
  <2>6. Decided' = [Decided EXCEPT ![v] = b] /\ Decided[v] = None /\ Decided'[v] = b
    BY <2>3, <2>b, <2>4 DEF Decided, TypeOK, Correct
  <2>7. \A w \in Correct : Decided[w] \in {None, b}
    <3>1. \A w \in Correct \ {v} : committed'[w] = committed[w]
      BY <2>3, <2>b DEF TypeOK, Correct
    <3>2. \A w \in Correct : committed'[w] # None => committed'[w] = b
      BY <2>4, <2>5, SentinelAssumption DEF Agreement
    <3> QED BY <2>3, <2>b, <3>1, <3>2 DEF Decided
  <2> QED BY <2>5, <2>6, <2>7 DEF D!Next, D!Decide
<1>3. Spec => []TypeOK /\ []Agreement
  BY TypeCorrect, AgreementHolds, PTL
<1> QED BY <1>1, <1>2, <1>3, PTL DEF Spec, ImplementsDecision, D!Spec

-----------------------------------------------------------------------------
(* The data-availability gate.                                             *)

\* What a step may add: attestations that were sent, a proposer that proposed,
\* a proposal whose producer proposed, and a commit behind the gate.
LEMMA AttestationFrame ==
  ASSUME TypeOK', AttestationInv,
         proposalMsgs \subseteq proposalMsgs', attestationMsgs \subseteq attestationMsgs',
         \A v \in Validators : daAttestations'[v] \subseteq daAttestations[v] \cup AttestersOf(Blocks)',
         \A v \in Validators : daProposer'[v] \in {None, daProposer[v]} \/ HasProposed(daProposer[v])',
         \A m \in proposalMsgs' \ proposalMsgs : HasProposed(m.block[1])',
         attestationMsgs' # attestationMsgs => proposalMsgs' # {},
         \A v \in Validators : committed'[v] # None => committed[v] # None \/ DataAttested
  PROVE  AttestationInv'
<1>1. AttestersOf(Blocks) \subseteq AttestersOf(Blocks)'
  BY DEF AttestersOf
<1>2. \A u : HasProposed(u) => HasProposed(u)'
  BY DEF HasProposed
<1>3. ASSUME DataAttested PROVE DataAttested'
  <2>1. PICK m \in proposalMsgs :
          IsQuorum(AttestersOf(Blocks) \ (IF SmallClusterDA THEN {} ELSE {m.from}), Validators)
    BY <1>3 DEF DataAttested
  <2> DEFINE X == IF SmallClusterDA THEN {} ELSE {m.from}
             S == AttestersOf(Blocks) \ X
             T == AttestersOf(Blocks)' \ X
  <2>2. AttestersOf(Blocks)' \in SUBSET Validators
    BY DEF AttestersOf, TypeOK
  <2>3. S \in SUBSET T /\ T \in SUBSET Validators
    BY <1>1, <2>2
  <2>4. IsQuorum(S, Validators)
    BY <2>1
  <2> HIDE DEF S, T
  <2>5. IsQuorum(T, Validators)
    BY <2>3, <2>4, LargerQuorum
  <2>6. m \in proposalMsgs'
    OBVIOUS
  <2> QED BY <2>5, <2>6 DEF DataAttested, IsQuorum, Threshold, T, X
<1>4. ASSUME NEW v \in Validators
      PROVE  /\ daAttestations'[v] \subseteq AttestersOf(Blocks)'
             /\ daProposer'[v] # None => HasProposed(daProposer[v])'
             /\ committed'[v] # None => DataAttested'
  <2>1. daAttestations'[v] \subseteq AttestersOf(Blocks)'
    BY <1>1 DEF AttestationInv
  <2>2. daProposer'[v] # None => HasProposed(daProposer[v])'
    <3>1. daProposer[v] # None => HasProposed(daProposer[v])
      BY DEF AttestationInv
    <3> QED BY <1>2, <3>1 DEF HasProposed
  <2>3. committed'[v] # None => DataAttested'
    BY <1>3 DEF AttestationInv
  <2> QED BY <2>1, <2>2, <2>3
<1>5. \A m \in proposalMsgs' : HasProposed(m.block[1])'
  BY <1>2 DEF AttestationInv, HasProposed
<1>6. attestationMsgs' # {} => proposalMsgs' # {}
  BY DEF AttestationInv
<1> QED BY <1>4, <1>5, <1>6 DEF AttestationInv

\* A gate that is open shows that the data is attested.
LEMMA GateShows ==
  ASSUME EnforceDA, DataRoot, TypeOK, AttestationInv, NEW v \in Validators,
         NEW A \in SUBSET AttestersOf(Blocks),
         DAGateOpen(Validators, A, daProposer[v])
  PROVE  DataAttested
<1>1. HasDASupermajority(Validators, A, daProposer[v])
  BY DEF DAGateOpen
<1>2. AttestersOf(Blocks) \in SUBSET Validators
  BY DEF AttestersOf, TypeOK
<1>3. CASE ~SmallClusterDA
  <2>1. /\ daProposer[v] # None
        /\ IsQuorum(A \ {daProposer[v]}, Validators)
    BY <1>1, <1>3 DEF HasDASupermajority
  <2>2. PICK m \in proposalMsgs : m.from = daProposer[v]
    BY <2>1 DEF AttestationInv, HasProposed
  <2>3. PICK S \in SUBSET Validators : S = AttestersOf(Blocks) \ {m.from}
    BY <1>2
  <2>4. A \ {daProposer[v]} \in SUBSET S
    BY <2>2, <2>3
  <2>5. IsQuorum(S, Validators)
    BY <2>1, <2>4, LargerQuorum
  <2> QED BY <1>3, <2>3, <2>5 DEF DataAttested
<1>4. CASE SmallClusterDA
  <2>1. IsQuorum(A, Validators)
    BY <1>1, <1>4 DEF HasDASupermajority
  <2>2. PICK S \in SUBSET Validators : S = AttestersOf(Blocks) \ {}
    BY <1>2
  <2>3. A \in SUBSET S
    BY <2>2
  <2>4. IsQuorum(S, Validators)
    BY <2>1, <2>3, LargerQuorum
  <2>5. PICK u \in S : TRUE
    BY <2>4, QuorumMember
  <2>6. proposalMsgs # {}
    BY <2>2, <2>5 DEF AttestersOf, AttestationInv
  <2> QED BY <1>4, <2>2, <2>4, <2>6 DEF DataAttested
<1> QED BY <1>3, <1>4

\* What a validator proposes again was proposed by its producer.
LEMMA LockedWasProposed ==
  ASSUME Undisturbed, TypeOK, AgreementInv, AttestationInv, NEW v \in Validators,
         lockedBlock[v] # None
  PROVE  HasProposed(lockedBlock[v][1])
<1>1. /\ lockedBlock[v] \in Blocks /\ lockedRound[v] # -1
      /\ VotedByQuorum(prevoteMsgs, lockedRound[v], lockedBlock[v])
  BY DEF AgreementInv, LocksGrounded, TypeOK
<1>2. lockedRound[v] \in Rounds
  BY <1>1 DEF TypeOK
<1>3. PICK m \in prevoteMsgs : m.vote = lockedBlock[v]
  BY <1>1, <1>2, VotesOfQuorum DEF TypeOK, VoteRecords, Votes
<1>4. PICK p \in proposalMsgs : p.block = lockedBlock[v]
  BY <1>1, <1>3 DEF AgreementInv, VotesGrounded
<1> QED BY <1>4 DEF AttestationInv

\* A commit behind the gate, with the attesters A.
LEMMA CommitAttested ==
  ASSUME EnforceDA, DataRoot, TypeOK, TypeOK', AttestationInv, NEW v \in Validators,
         NEW A \in SUBSET AttestersOf(Blocks), jailed[v] = {},
         DAGateOpen(Active(v), A, daProposer[v]),
         NEW b, NEW S, Commit(v, b, S),
         daAttestations' = [daAttestations EXCEPT ![v] = A],
         UNCHANGED <<daProposer, msgVars>>
  PROVE  AttestationInv'
<1>1. Active(v) = Validators
  BY DEF Active
<1>2. DataAttested
  BY <1>1, GateShows
<1>3. UNCHANGED <<daProposer, proposalMsgs, attestationMsgs>>
  BY DEF msgVars
<1>4. AttestersOf(Blocks)' = AttestersOf(Blocks)
  BY <1>3 DEF AttestersOf
<1>5. \A u \in Validators : daAttestations'[u] \subseteq daAttestations[u] \cup AttestersOf(Blocks)'
  BY <1>4 DEF TypeOK
<1> QED BY <1>2, <1>3, <1>5, AttestationFrame

\* A step that attests nothing, proposes nothing and commits nothing.
LEMMA QuietAttested ==
  ASSUME TypeOK', AttestationInv,
         UNCHANGED <<daAttestations, daProposer, committed, proposalMsgs, attestationMsgs>>
  PROVE  AttestationInv'
<1>1. \A v \in Validators : committed'[v] # None => committed[v] # None \/ DataAttested
  OBVIOUS
<1>2. \A v \in Validators : daProposer'[v] \in {None, daProposer[v]} \/ HasProposed(daProposer[v])'
  OBVIOUS
<1>3. \A v \in Validators : daAttestations'[v] \subseteq daAttestations[v] \cup AttestersOf(Blocks)'
  OBVIOUS
<1> QED BY <1>1, <1>2, <1>3, AttestationFrame

\* The node's own attestation of a proposed block, with the proposer that v
\* takes down.
LEMMA EagerAttested ==
  ASSUME DataRoot, TypeOK, TypeOK', AttestationInv, NEW v \in Validators,
         NEW m \in proposalMsgs, NEW s, NEW active, NEW proposer,
         EagerAttestation(v, m.block, s, active, proposer),
         NEW q \in {daProposer[v], m.block[1]},
         daProposer' = [daProposer EXCEPT ![v] = q],
         UNCHANGED <<committed, proposalMsgs>>
  PROVE  AttestationInv'
<1>1. /\ daAttestations' = [daAttestations EXCEPT ![v] = daAttestations[v] \cup {v}]
      /\ attestationMsgs' = attestationMsgs \cup {Attestation(v, m.block)}
  BY DEF EagerAttestation
<1>2. m.block \in Blocks
  BY DEF TypeOK
<1>3. v \in AttestersOf(Blocks)'
  <2>1. Attestation(v, m.block).from = v /\ Attestation(v, m.block).block = m.block
    BY DEF Attestation
  <2>2. Attestation(v, m.block) \in {a \in attestationMsgs' : a.block \in Blocks}
    BY <1>1, <1>2, <2>1
  <2> QED BY <2>1, <2>2 DEF AttestersOf
<1>4. \A u \in Validators : daAttestations'[u] \subseteq daAttestations[u] \cup AttestersOf(Blocks)'
  BY <1>1, <1>3 DEF TypeOK
<1>5. HasProposed(m.block[1])'
  BY DEF AttestationInv, HasProposed
<1>6. \A u \in Validators : daProposer'[u] \in {None, daProposer[u]} \/ HasProposed(daProposer[u])'
  <2>1. \A u \in Validators : daProposer'[u] \in {daProposer[u], m.block[1]}
    BY DEF TypeOK
  <2> QED BY <1>5, <2>1 DEF HasProposed
<1>7. proposalMsgs' # {}
  OBVIOUS
<1> QED BY <1>1, <1>4, <1>6, <1>7, AttestationFrame

\* Proposing: the leader takes itself for the proposer and attests the data.
LEMMA ProposeAttested ==
  ASSUME Undisturbed, DataRoot, TypeOK, TypeOK', AgreementInv, AttestationInv,
         NEW v \in Validators, TickPropose(v)
  PROVE  AttestationInv'
<1>1. PICK b : b = CreateProposal(v)
  OBVIOUS
<1>2. PICK p : p = Proposal(rs[v].round, v, b)
  OBVIOUS
<1>3. /\ proposalMsgs' = proposalMsgs \cup {p}
      /\ attestationMsgs' = attestationMsgs \cup {Attestation(v, b)}
      /\ daProposer' = [daProposer EXCEPT ![v] = v]
      /\ UNCHANGED <<daAttestations, committed>>
  BY <1>1, <1>2 DEF TickPropose, heightVars
<1>4. p.from = v /\ p.block = b
  BY <1>2 DEF Proposal
<1>5. HasProposed(v)'
  BY <1>3, <1>4 DEF HasProposed
<1>6. HasProposed(b[1])'
  <2>1. CASE lockedBlock[v] = None
    <3>1. b[1] = v
      BY <1>1, <2>1 DEF CreateProposal
    <3> QED BY <1>5, <3>1
  <2>2. CASE lockedBlock[v] # None
    <3>1. b = lockedBlock[v]
      BY <1>1, <2>2 DEF CreateProposal
    <3>2. HasProposed(b[1])
      BY <2>2, <3>1, LockedWasProposed
    <3> QED BY <1>3, <3>2 DEF HasProposed
  <2> QED BY <2>1, <2>2
<1>7. \A m \in proposalMsgs' \ proposalMsgs : HasProposed(m.block[1])'
  <2>1. \A m \in proposalMsgs' \ proposalMsgs : m.block[1] = b[1]
    BY <1>3, <1>4
  <2> QED BY <1>6, <2>1 DEF HasProposed
<1>8. \A u \in Validators : daProposer'[u] \in {None, daProposer[u]} \/ HasProposed(daProposer[u])'
  <2>1. \A u \in Validators : daProposer'[u] \in {daProposer[u], v}
    BY <1>3 DEF TypeOK
  <2> QED BY <1>5, <2>1 DEF HasProposed
<1>9. proposalMsgs' # {}
  BY <1>3
<1> QED BY <1>3, <1>7, <1>8, <1>9, AttestationFrame

\* Every step of an undisturbed height under enforcement keeps the gate.
LEMMA AttestationKept ==
  ASSUME Undisturbed, EnforceDA, DataRoot, TypeOK, TypeOK', AgreementInv,
         AttestationInv, [Next]_vars
  PROVE  AttestationInv'
<1> USE DEF engineVars, slashVars, daVars, heightVars, boundVars, msgVars
<1>1. /\ Correct = Validators /\ Proposals = proposalMsgs
      /\ \A v \in Validators : jailed[v] = {} /\ Active(v) = Validators
  BY NobodyFaulty DEF AgreementInv, NobodyJailed
<1>2. CASE UNCHANGED vars
  BY <1>2, QuietAttested DEF vars
<1>3. ASSUME NEW v \in Validators, Tick(v) PROVE AttestationInv'
  <2>1. CASE TickPropose(v)
    BY <2>1, ProposeAttested
  <2>2. CASE TickProposeTimeout(v) \/ TickPrevoteQuorum(v) \/ TickPrevoteTimeout(v)
    <3>1. UNCHANGED <<daAttestations, daProposer, committed, proposalMsgs, attestationMsgs>>
      BY <2>2, Zenon DEF TickProposeTimeout, TickPrevoteQuorum, TickPrevoteTimeout
    <3> QED BY <3>1, QuietAttested
  <2>3. CASE TickMismatch(v) \/ TickNilQuorum(v) \/ TickPrecommitTimeout(v) \/ TickCommitPhase(v)
    <3>1. UNCHANGED <<daAttestations, daProposer, committed, proposalMsgs, attestationMsgs>>
      BY <2>3, Zenon DEF TickMismatch, TickNilQuorum, TickPrecommitTimeout, TickCommitPhase
    <3> QED BY <3>1, QuietAttested
  <2>4. CASE TickCommit(v)
    <3>1. PICK b, S : Commit(v, b, S)
      BY <2>4 DEF TickCommit
    <3>2. PICK A : A = daAttestations[v]
      OBVIOUS
    <3>3. A \in SUBSET AttestersOf(Blocks)
      BY <3>2 DEF AttestationInv
    <3>4. /\ DAGateOpen(Active(v), A, daProposer[v])
          /\ UNCHANGED <<daAttestations, daProposer, msgVars>>
      BY <2>4, <3>2 DEF TickCommit
    <3>5. daAttestations' = [daAttestations EXCEPT ![v] = A]
      BY <3>2, <3>4 DEF TypeOK
    <3> QED BY <1>1, <3>1, <3>3, <3>4, <3>5, CommitAttested
  <2> QED BY <1>3, <2>1, <2>2, <2>3, <2>4 DEF Tick
<1>4. ASSUME NEW v \in Validators, NEW m \in proposalMsgs,
             \/ OnProposalRejected(v, m) \/ OnProposalEquivocation(v, m)
             \/ OnProposalInvalid(v, m) \/ OnProposal(v, m)
      PROVE  AttestationInv'
  <2>1. UNCHANGED <<committed, proposalMsgs>>
    BY <1>4, Zenon DEF OnProposalRejected, OnProposalEquivocation, OnProposalInvalid,
                       OnProposal
  <2>2. PICK s, active, proposer : EagerAttestation(v, m.block, s, active, proposer)
    <3>1. CASE OnProposalRejected(v, m)
      BY <3>1 DEF OnProposalRejected
    <3>2. CASE OnProposalEquivocation(v, m)
      BY <3>2 DEF OnProposalEquivocation
    <3>3. CASE OnProposalInvalid(v, m)
      BY <3>3 DEF OnProposalInvalid
    <3>4. CASE OnProposal(v, m)
      BY <3>4 DEF OnProposal
    <3> QED BY <1>4, <3>1, <3>2, <3>3, <3>4
  <2>3. \E q \in {daProposer[v], m.block[1]} : daProposer' = [daProposer EXCEPT ![v] = q]
    <3>1. CASE OnProposal(v, m)
      BY <3>1 DEF OnProposal
    <3>2. CASE ~OnProposal(v, m)
      <4>1. daProposer' = daProposer
        BY <1>4, <3>2 DEF OnProposalRejected, OnProposalEquivocation, OnProposalInvalid
      <4>2. daProposer' = [daProposer EXCEPT ![v] = daProposer[v]]
        BY <4>1 DEF TypeOK
      <4> QED BY <4>2
    <3> QED BY <3>1, <3>2
  <2>4. PICK q \in {daProposer[v], m.block[1]} : daProposer' = [daProposer EXCEPT ![v] = q]
    BY <2>3
  <2> QED BY <2>1, <2>2, <2>4, EagerAttested
<1>5. ASSUME NEW v \in Validators, NEW m,
             \/ OnPrevoteEquivocation(v, m) \/ OnPrevote(v, m)
             \/ OnPrecommitEquivocation(v, m)
      PROVE  AttestationInv'
  <2>1. UNCHANGED <<daAttestations, daProposer, committed, proposalMsgs, attestationMsgs>>
    BY <1>5, Zenon DEF OnPrevoteEquivocation, OnPrevote, OnPrecommitEquivocation
  <2> QED BY <2>1, QuietAttested
<1>6. ASSUME NEW v \in Validators, NEW m, OnPrecommit(v, m) PROVE AttestationInv'
  <2>1. UNCHANGED <<daAttestations, daProposer, msgVars>>
    BY <1>6, Zenon DEF OnPrecommit
  <2>2. \/ UNCHANGED committed
        \/ /\ DAGateOpen(Active(v), daAttestations[v], daProposer[v])
           /\ \E b, S : Commit(v, b, S)
    BY <1>6, Zenon DEF OnPrecommit
  <2>3. CASE UNCHANGED committed
    BY <2>1, <2>3, QuietAttested
  <2>4. CASE /\ DAGateOpen(Active(v), daAttestations[v], daProposer[v])
             /\ \E b, S : Commit(v, b, S)
    <3>1. PICK b, S : Commit(v, b, S)
      BY <2>4
    <3>2. PICK A : A = daAttestations[v]
      OBVIOUS
    <3>3. A \in SUBSET AttestersOf(Blocks)
      BY <3>2 DEF AttestationInv
    <3>4. DAGateOpen(Active(v), A, daProposer[v])
      BY <2>4, <3>2
    <3>5. daAttestations' = [daAttestations EXCEPT ![v] = A]
      BY <2>1, <3>2 DEF TypeOK
    <3> QED BY <1>1, <2>1, <3>1, <3>3, <3>4, <3>5, CommitAttested
  <2> QED BY <2>2, <2>3, <2>4
<1>7. ASSUME NEW v \in Validators, NEW u \in Attesters, OnDAAttestation(v, u)
      PROVE  AttestationInv'
  <2>1. u \in AttestersOf(Blocks)
    BY <1>7 DEF Attesters, AttestersOf, Undisturbed, TypeOK
  <2>2. PICK A : A = daAttestations[v] \cup {u}
    OBVIOUS
  <2>3. A \in SUBSET AttestersOf(Blocks)
    BY <2>1, <2>2 DEF AttestationInv
  <2>4. daAttestations' = [daAttestations EXCEPT ![v] = A] /\ UNCHANGED <<daProposer, msgVars>>
    BY <1>7, <2>2 DEF OnDAAttestation
  <2>5. \/ UNCHANGED committed
        \/ DAGateOpen(Active(v), A, daProposer[v]) /\ \E b, S : Commit(v, b, S)
    BY <1>7, <2>2, Zenon DEF OnDAAttestation
  <2>6. CASE UNCHANGED committed
    <3>1. AttestersOf(Blocks)' = AttestersOf(Blocks)
      BY <2>4 DEF AttestersOf
    <3>2. \A w \in Validators : daAttestations'[w] \subseteq daAttestations[w] \cup AttestersOf(Blocks)'
      BY <2>3, <2>4, <3>1 DEF TypeOK
    <3>3. UNCHANGED <<daProposer, proposalMsgs, attestationMsgs>>
      BY <2>4
    <3> QED BY <2>6, <3>2, <3>3, AttestationFrame
  <2>7. CASE DAGateOpen(Active(v), A, daProposer[v]) /\ \E b, S : Commit(v, b, S)
    <3>1. PICK b, S : Commit(v, b, S)
      BY <2>7
    <3> QED BY <1>1, <2>3, <2>4, <2>7, <3>1, CommitAttested
  <2> QED BY <2>5, <2>6, <2>7
<1>8. ASSUME NEW v \in Validators, SyncApply(v) PROVE AttestationInv'
  <2>1. PICK p \in SyncBlocks : Commit(v, p[1], p[2])
    BY <1>8 DEF SyncApply
  <2>2. PICK u \in Validators : committed[u] # None
    BY <2>1, NobodyFaulty
  <2>3. DataAttested
    BY <2>2 DEF AttestationInv
  <2>4. UNCHANGED <<daAttestations, daProposer, proposalMsgs, attestationMsgs>>
    BY <1>8 DEF SyncApply
  <2>5. \A w \in Validators : daAttestations'[w] \subseteq daAttestations[w] \cup AttestersOf(Blocks)'
    BY <2>4
  <2> QED BY <2>3, <2>4, <2>5, AttestationFrame
<1>9. ASSUME NEW v \in Validators, SetDraining(v) PROVE AttestationInv'
  BY <1>9, QuietAttested DEF SetDraining
<1>10. ASSUME NEW v \in Validators PROVE ~Restart(v)
  <2>1. restarts[v] \in 0 .. 0
    BY DEF TypeOK, Undisturbed
  <2>2. ~(restarts[v] < MaxRestarts)
    BY <2>1 DEF Undisturbed
  <2> QED BY <2>2 DEF Restart
<1>11. ASSUME NEW v \in Validators, OnMessage(v) PROVE AttestationInv'
  BY <1>1, <1>4, <1>5, <1>6, <1>7, <1>11 DEF OnMessage
<1> QED BY <1>1, <1>2, <1>3, <1>8, <1>9, <1>10, <1>11 DEF Next

\* Under enforcement no block of an undisturbed height is committed, by votes or
\* by sync, before a quorum attested data of the height: every path to a commit
\* passes the gate of has_da_supermajority, and what the gate counts was sent.
THEOREM AttestedHolds ==
  ASSUME Undisturbed
  PROVE  Spec => []AttestedBeforeCommit
<1>1. CASE ~(EnforceDA /\ DataRoot)
  <2>1. AttestedBeforeCommit
    BY <1>1 DEF AttestedBeforeCommit
  <2> QED BY <2>1, PTL
<1>2. CASE EnforceDA /\ DataRoot
  <2>1. Init => AttestationInv
    BY DEF Init, AttestationInv, HasProposed
  <2>2. /\ TypeOK /\ TypeOK' /\ AgreementInv /\ AttestationInv /\ [Next]_vars
        => AttestationInv'
    BY <1>2, AttestationKept
  <2>3. AttestationInv => AttestedBeforeCommit
    BY DEF AttestationInv, DataAttested, AttestedBeforeCommit, Proposals, Correct
  <2> QED BY <2>1, <2>2, <2>3, AgreementInvariant, PTL DEF Spec
<1> QED BY <1>1, <1>2
=============================================================================
