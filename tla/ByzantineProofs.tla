--------------------------- MODULE ByzantineProofs ---------------------------
(***************************************************************************)
(* What one height guarantees in the presence of faulty validators and     *)
(* restarts, for every validator set, stake distribution and bound.        *)
(***************************************************************************)
EXTENDS TendermintProofs, TendermintInvariant

-----------------------------------------------------------------------------
(* Quorums of validators that have jailed some faulty ones each.           *)

\* The threshold floor(2T/3) + 1 is what exceeds two thirds.
LEMMA AboveTwoThirds ==
  ASSUME NEW t \in Nat, NEW x \in Nat
  PROVE  x >= (2 * t) \div 3 + 1 <=> 3 * x > 2 * t
OBVIOUS

\* The stake of two disjoint sets adds up.
LEMMA StakeOfParts ==
  ASSUME NEW S \in SUBSET Validators, NEW T \in SUBSET Validators, S \cap T = {},
         NEW U, U = S \cup T
  PROVE  /\ StakeOf[U] \in Nat /\ StakeOf[S] \in Nat /\ StakeOf[T] \in Nat
         /\ StakeOf[U] = StakeOf[S] + StakeOf[T]
<1>1. StakeOf[S \cup T] + StakeOf[S \cap T] = StakeOf[S] + StakeOf[T]
  BY StakeAssumption
<1>2. StakeOf[U] + StakeOf[{}] = StakeOf[S] + StakeOf[T]
  BY <1>1
<1>3. StakeOf[{}] = 0
  BY StakeAssumption
<1>4. U \in SUBSET Validators
  OBVIOUS
<1>5. StakeOf[U] \in Nat /\ StakeOf[S] \in Nat /\ StakeOf[T] \in Nat
  BY <1>4, StakeAssumption
<1> QED BY <1>2, <1>3, <1>5

\* A quorum of the stake outside J has more than two thirds of it, and what of
\* it is correct has all but the faulty stake outside J.
LEMMA QuorumStake ==
  ASSUME NEW J \in SUBSET Faulty, NEW S \in SUBSET Validators,
         IsQuorum(S, Validators \ J)
  PROVE  /\ StakeOf[S \cap (Validators \ J)] \in Nat /\ StakeOf[S \cap Correct] \in Nat
         /\ StakeOf[J] \in Nat /\ StakeOf[Faulty] \in Nat /\ StakeOf[Validators] \in Nat
         /\ StakeOf[J] <= StakeOf[Faulty] /\ StakeOf[Faulty] <= StakeOf[Validators]
         /\ 3 * StakeOf[S \cap (Validators \ J)]
              > 2 * (StakeOf[Validators] - StakeOf[J])
         /\ StakeOf[S \cap (Validators \ J)]
              <= StakeOf[S \cap Correct] + StakeOf[Faulty] - StakeOf[J]
<1> DEFINE A == Validators \ J
           C == S \cap Correct
           F == Faulty \ J
<1>0. /\ Faulty \in SUBSET Validators /\ J \in SUBSET Validators
      /\ A \in SUBSET Validators /\ C \in SUBSET Validators /\ F \in SUBSET Validators
      /\ S \cap A \in SUBSET (C \cup F) /\ C \cup F \in SUBSET Validators
      /\ C \cap F = {} /\ J \cup A = Validators /\ J \cap A = {}
      /\ J \cup F = Faulty /\ J \cap F = {}
  BY ValidatorAssumption DEF Correct
<1> HIDE DEF A, C, F
<1>1. /\ StakeOf[S \cap A] \in Nat /\ StakeOf[C] \in Nat /\ StakeOf[J] \in Nat
      /\ StakeOf[Faulty] \in Nat /\ StakeOf[Validators] \in Nat /\ StakeOf[A] \in Nat
      /\ StakeOf[F] \in Nat /\ StakeOf[C \cup F] \in Nat
      /\ StakeOf[S \cap A] <= StakeOf[C \cup F]
      /\ StakeOf[J] <= StakeOf[Faulty] /\ StakeOf[Faulty] <= StakeOf[Validators]
  BY <1>0, StakeMonotone
<1>3. StakeOf[S \cap A] >= (2 * StakeOf[A]) \div 3 + 1
  BY DEF IsQuorum, Threshold, A
<1>4. 3 * StakeOf[S \cap A] > 2 * StakeOf[A]
  BY <1>1, <1>3, AboveTwoThirds
<1>5. /\ StakeOf[C \cup F] = StakeOf[C] + StakeOf[F]
      /\ StakeOf[Validators] = StakeOf[J] + StakeOf[A]
      /\ StakeOf[Faulty] = StakeOf[J] + StakeOf[F]
  BY <1>0, StakeOfParts
<1>6. /\ 3 * StakeOf[S \cap A] > 2 * (StakeOf[Validators] - StakeOf[J])
      /\ StakeOf[S \cap A] <= StakeOf[C] + StakeOf[Faulty] - StakeOf[J]
  BY <1>1, <1>4, <1>5
<1> QED BY <1>1, <1>6 DEF A, C

\* The correct part of a quorum.
LEMMA CorrectShare ==
  ASSUME NEW J \in SUBSET Faulty, NEW S \in SUBSET Validators,
         IsQuorum(S, Validators \ J)
  PROVE  /\ StakeOf[S \cap Correct] \in Nat
         /\ 3 * StakeOf[S \cap Correct] > 2 * StakeOf[Validators] - 3 * StakeOf[Faulty]
<1> DEFINE X == StakeOf[S \cap (Validators \ J)]
           C == StakeOf[S \cap Correct]
<1>1. /\ X \in Nat /\ C \in Nat
      /\ StakeOf[J] \in Nat /\ StakeOf[Faulty] \in Nat /\ StakeOf[Validators] \in Nat
      /\ 3 * X > 2 * (StakeOf[Validators] - StakeOf[J])
      /\ X <= C + StakeOf[Faulty] - StakeOf[J]
  BY QuorumStake
<1> HIDE DEF X, C
<1>2. 3 * C > 2 * StakeOf[Validators] - 3 * StakeOf[Faulty]
  BY <1>1
<1> QED BY <1>1, <1>2 DEF C

\* A quorum has a correct member.
LEMMA CorrectInQuorum ==
  ASSUME FewFaulty, NEW J \in SUBSET Faulty, NEW S \in SUBSET Validators,
         IsQuorum(S, Validators \ J)
  PROVE  \E u \in S : u \in Correct
<1>0. /\ StakeOf[Faulty] \in Nat /\ StakeOf[Validators] \in Nat
      /\ 3 * StakeOf[Faulty] < StakeOf[Validators]
  BY StakeMonotone, ValidatorAssumption DEF FewFaulty
<1>1. StakeOf[S \cap Correct] > 0
  <2>1. /\ StakeOf[S \cap Correct] \in Nat
        /\ 3 * StakeOf[S \cap Correct]
             > 2 * StakeOf[Validators] - 3 * StakeOf[Faulty]
    BY CorrectShare
  <2> QED BY <1>0, <2>1
<1>2. StakeOf[{}] = 0
  BY StakeAssumption
<1>3. S \cap Correct # {}
  BY <1>1, <1>2
<1> QED BY <1>3

\* Two quorums have a correct member in common, whoever is jailed by each side.
THEOREM CorrectOverlap ==
  ASSUME FewFaulty, NEW J \in SUBSET Faulty, NEW K \in SUBSET Faulty,
         NEW S \in SUBSET Validators, NEW T \in SUBSET Validators,
         IsQuorum(S, Validators \ J), IsQuorum(T, Validators \ K)
  PROVE  \E u \in Correct : u \in S /\ u \in T
<1> DEFINE C == S \cap Correct
           D2 == T \cap Correct
<1>1. /\ C \in SUBSET Validators /\ D2 \in SUBSET Validators
      /\ Correct \in SUBSET Validators /\ C \cup D2 \in SUBSET Correct
      /\ Faulty \in SUBSET Validators
      /\ Correct \cup Faulty = Validators /\ Correct \cap Faulty = {}
  BY ValidatorAssumption DEF Correct
<1>2. /\ 3 * StakeOf[C] > 2 * StakeOf[Validators] - 3 * StakeOf[Faulty]
      /\ StakeOf[C] \in Nat
  BY CorrectShare
<1>3. /\ 3 * StakeOf[D2] > 2 * StakeOf[Validators] - 3 * StakeOf[Faulty]
      /\ StakeOf[D2] \in Nat
  BY CorrectShare
<1>4. /\ StakeOf[C \cup D2] + StakeOf[C \cap D2] = StakeOf[C] + StakeOf[D2]
      /\ StakeOf[{}] = 0
  BY <1>1, StakeAssumption
<1>5. /\ StakeOf[C \cup D2] <= StakeOf[Correct] /\ StakeOf[C \cup D2] \in Nat
      /\ StakeOf[Correct] \in Nat
      /\ StakeOf[Faulty] \in Nat /\ StakeOf[Validators] \in Nat
  BY <1>1, StakeMonotone
<1>5a. StakeOf[C \cap D2] \in Nat
  BY <1>1, StakeMonotone
<1>6. StakeOf[Validators] = StakeOf[Correct] + StakeOf[Faulty]
  BY <1>1, StakeOfParts
<1> HIDE DEF C, D2
<1>7. StakeOf[C \cap D2] > 0
  BY <1>2, <1>3, <1>4, <1>5, <1>5a, <1>6 DEF FewFaulty
<1>8. C \cap D2 # {}
  BY <1>4, <1>7
<1> QED BY <1>8 DEF C, D2

\* With the faulty validators a quorum of any view is one of the whole set.
LEMMA QuorumOfWhole ==
  ASSUME NEW J \in SUBSET Faulty, NEW S \in SUBSET Validators,
         IsQuorum(S, Validators \ J)
  PROVE  IsQuorum(S \cup Faulty, Validators)
<1> DEFINE A == S \cap (Validators \ J)
           W == S \cup Faulty
<1>1. /\ A \in SUBSET Validators /\ J \in SUBSET Validators /\ W \in SUBSET Validators
      /\ A \cap J = {} /\ A \cup J \in SUBSET W /\ W \cap Validators = W
  BY ValidatorAssumption
<1>2. /\ StakeOf[A] \in Nat /\ StakeOf[J] \in Nat /\ StakeOf[Validators] \in Nat
      /\ 3 * StakeOf[A] > 2 * (StakeOf[Validators] - StakeOf[J])
  BY QuorumStake
<1> HIDE DEF A, W
<1>4. StakeOf[A \cup J] <= StakeOf[W] /\ StakeOf[W] \in Nat /\ StakeOf[A \cup J] \in Nat
  BY <1>1, StakeMonotone
<1>5. StakeOf[A \cup J] = StakeOf[A] + StakeOf[J]
  BY <1>1, StakeOfParts
<1>6. 3 * StakeOf[W] > 2 * StakeOf[Validators]
  BY <1>2, <1>4, <1>5
<1>7. StakeOf[W] >= (2 * StakeOf[Validators]) \div 3 + 1
  BY <1>2, <1>4, <1>6, AboveTwoThirds
<1>8. StakeOf[Validators] # 0
  <2>1. StakeOf[Validators \ J] # 0 /\ Validators \ J \in SUBSET Validators
    BY DEF IsQuorum
  <2>2. /\ StakeOf[Validators \ J] <= StakeOf[Validators]
        /\ StakeOf[Validators \ J] \in Nat
    BY <2>1, StakeMonotone
  <2> QED BY <1>2, <2>1, <2>2
<1>9. StakeOf[W \cap Validators] >= Threshold(Validators)
  BY <1>1, <1>7 DEF Threshold
<1> QED BY <1>8, <1>9 DEF IsQuorum, W

-----------------------------------------------------------------------------
(* What the step of one correct validator leaves alone.                    *)

\* A step of v sends messages of its own only and leaves the others alone.
StepBy(v) ==
  /\ proposalMsgs \subseteq proposalMsgs'
  /\ prevoteMsgs \subseteq prevoteMsgs'
  /\ precommitMsgs \subseteq precommitMsgs'
  /\ \A m \in proposalMsgs' \ proposalMsgs : m.from = v
  /\ \A m \in prevoteMsgs' \ prevoteMsgs : m.from = v
  /\ \A m \in precommitMsgs' \ precommitMsgs : m.from = v
  /\ \A u \in Validators \ {v} :
       /\ rs'[u] = rs[u] /\ committed'[u] = committed[u]
       /\ proposalsSeen'[u] = proposalsSeen[u] /\ jailed'[u] = jailed[u]
       /\ missedProposals'[u] = missedProposals[u] /\ missedVotes'[u] = missedVotes[u]
       /\ restarts'[u] = restarts[u]
  /\ restarts[v] <= restarts'[v]

\* v sends one message of each kind in a round.
SendsOnce(v) ==
  \A M \in {proposalMsgs, prevoteMsgs, precommitMsgs} : \A m, n \in M :
    m.from = v /\ n.from = v /\ m.round = n.round => m = n \/ restarts[v] > 0

JailsForCause(v) == jailed[v] \subseteq Faulty \cup {u \in Correct : restarts[u] > 0}

\* The quorum behind a lost commit.
DecidedRound(s) ==
  s.phase = "Commit" =>
    \E m \in precommitMsgs : /\ m.round = s.round /\ m.vote # Nil
                             /\ VotedByQuorum(precommitMsgs, m.round, m.vote)

\* More messages keep a quorum.
LEMMA VotesGrow ==
  ASSUME NEW N \in SUBSET VoteRecords, NEW M \in SUBSET N,
         NEW r, NEW x, VotedByQuorum(M, r, x)
  PROVE  VotedByQuorum(N, r, x)
<1> DEFINE S == Senders(N, r, x) \cup Faulty
           T == Senders(M, r, x) \cup Faulty
<1>1. \A m \in N : m.from \in Validators
  BY DEF VoteRecords
<1>2. S \in SUBSET Validators /\ T \in SUBSET S
  BY <1>1, ValidatorAssumption DEF Senders
<1>3. IsQuorum(T, Validators)
  BY DEF VotedByQuorum
<1> HIDE DEF S, T
<1>4. IsQuorum(S, Validators)
  BY <1>2, <1>3, LargerQuorum
<1> QED BY <1>4 DEF VotedByQuorum, S

\* A step keeps the invariant if it keeps what it says of the validator that
\* takes it and of the messages it sends.
LEMMA FaultFrame ==
  ASSUME TypeOK, TypeOK', FaultInv, NEW v \in Correct, StepBy(v),
         committed'[v] = None => CorrectRound(v, rs[v])',
         SendsOnce(v)', SeenSent(v)', CountersLow(v)',
         LimitsAway => JailsForCause(v)',
         FewFaulty => DecidedRound(rs[v])',
         FewFaulty => \A m \in precommitMsgs' \ precommitMsgs : m.vote \in Blocks =>
                        \E n \in prevoteMsgs' : n.round = m.round /\ n.vote = m.vote
  PROVE  FaultInv'
<1>0. /\ \A u \in Correct : u \in Validators
      /\ \A u \in Validators : restarts[u] \in Nat /\ restarts'[u] \in Nat
      /\ \A u \in Validators : restarts[u] <= restarts'[u]
  <2>1. \A u \in Validators : restarts[u] \in Nat /\ restarts'[u] \in Nat
    BY BoundAssumption DEF TypeOK
  <2> QED BY <2>1 DEF Correct, StepBy
<1>1. SentByCorrect'
  BY DEF FaultInv, SentByCorrect, StepBy
<1>2. ASSUME NEW u \in Correct, committed'[u] = None PROVE CorrectRound(u, rs[u])'
  <2>1. CASE u # v
    <3>1. /\ rs'[u] = rs[u] /\ committed[u] = None /\ restarts'[u] = restarts[u]
          /\ CorrectRound(u, rs[u])
      BY <1>0, <1>2, <2>1 DEF StepBy, FaultInv
    <3>2. CorrectVotesSent(rs[u])'
      BY <3>1 DEF StepBy, CorrectRound, CorrectVotesSent
    <3>3. OwnVotesKnown(u, rs[u]) => OwnVotesKnown(u, rs[u])'
      BY <2>1, <3>1 DEF StepBy, OwnVotesKnown
    <3> QED BY <3>1, <3>2, <3>3 DEF CorrectRound
  <2> QED BY <1>2, <2>1
<1>3. NoDoubleVote' /\ OneProposalEach'
  <2>1. ASSUME NEW M, NEW N, M \subseteq N, \A m \in N \ M : m.from = v,
               \A m \in N : m.from \in Correct,
               \A m, n \in N : m.from = v /\ n.from = v /\ m.round = n.round
                                 => m = n \/ restarts'[v] > 0,
               \A m, n \in M : m.from = n.from /\ m.round = n.round
                                 => m = n \/ restarts[m.from] > 0,
               NEW m \in N, NEW n \in N, m.from = n.from, m.round = n.round
        PROVE  m = n \/ restarts'[m.from] > 0
    <3>1. CASE m.from = v
      BY <2>1, <3>1
    <3>2. CASE m.from # v
      <4>1. m \in M /\ n \in M /\ m.from \in Validators
        BY <1>0, <2>1, <3>2
      <4> QED BY <1>0, <2>1, <4>1
    <3> QED BY <3>1, <3>2
  <2>2. /\ \A m, n \in proposalMsgs' : m.from = n.from /\ m.round = n.round
                => m = n \/ restarts'[m.from] > 0
    <3>1. \A m, n \in proposalMsgs : m.from = n.from /\ m.round = n.round
                                 => m = n \/ restarts[m.from] > 0
      BY DEF FaultInv, OneProposalEach
    <3>2. \A m, n \in proposalMsgs' : m.from = v /\ n.from = v /\ m.round = n.round
                                  => m = n \/ restarts'[v] > 0
      BY DEF SendsOnce
    <3>3. /\ \A m \in proposalMsgs' \ proposalMsgs : m.from = v
          /\ \A m \in proposalMsgs' : m.from \in Correct
          /\ proposalMsgs \subseteq proposalMsgs'
      BY <1>1 DEF StepBy, SentByCorrect
    <3> QED BY <2>1, <3>1, <3>2, <3>3
  <2>3. /\ \A m, n \in prevoteMsgs' : m.from = n.from /\ m.round = n.round
                => m = n \/ restarts'[m.from] > 0
    <3>1. \A m, n \in prevoteMsgs : m.from = n.from /\ m.round = n.round
                                 => m = n \/ restarts[m.from] > 0
      BY DEF FaultInv, NoDoubleVote
    <3>2. \A m, n \in prevoteMsgs' : m.from = v /\ n.from = v /\ m.round = n.round
                                  => m = n \/ restarts'[v] > 0
      BY DEF SendsOnce
    <3>3. /\ \A m \in prevoteMsgs' \ prevoteMsgs : m.from = v
          /\ \A m \in prevoteMsgs' : m.from \in Correct
          /\ prevoteMsgs \subseteq prevoteMsgs'
      BY <1>1 DEF StepBy, SentByCorrect
    <3> QED BY <2>1, <3>1, <3>2, <3>3
  <2>4. /\ \A m, n \in precommitMsgs' : m.from = n.from /\ m.round = n.round
                => m = n \/ restarts'[m.from] > 0
    <3>1. \A m, n \in precommitMsgs : m.from = n.from /\ m.round = n.round
                                 => m = n \/ restarts[m.from] > 0
      BY DEF FaultInv, NoDoubleVote
    <3>2. \A m, n \in precommitMsgs' : m.from = v /\ n.from = v /\ m.round = n.round
                                  => m = n \/ restarts'[v] > 0
      BY DEF SendsOnce
    <3>3. /\ \A m \in precommitMsgs' \ precommitMsgs : m.from = v
          /\ \A m \in precommitMsgs' : m.from \in Correct
          /\ precommitMsgs \subseteq precommitMsgs'
      BY <1>1 DEF StepBy, SentByCorrect
    <3> QED BY <2>1, <3>1, <3>2, <3>3
  <2> QED BY <2>2, <2>3, <2>4 DEF NoDoubleVote, OneProposalEach
<1>4. ASSUME NEW u \in Correct PROVE SeenSent(u)' /\ CountersLow(u)'
  BY <1>0 DEF StepBy, FaultInv, SeenSent, CountersLow
<1>5. LimitsAway => JailedForCause'
  BY <1>0 DEF StepBy, FaultInv, JailsForCause, JailedForCause
<1>6. ASSUME FewFaulty PROVE PrecommitsGrounded' /\ CommitPhaseDecided'
  <2>1. PrecommitsGrounded'
    BY <1>6 DEF StepBy, FaultInv, PrecommitsGrounded
  <2>2. ASSUME NEW u \in Correct, rs'[u].phase = "Commit"
        PROVE  \E m \in precommitMsgs' : /\ m.round = rs'[u].round
                                         /\ m.vote # Nil
                                         /\ VotedByQuorum(precommitMsgs', m.round, m.vote)
    <3>1. CASE u = v
      BY <1>6, <2>2, <3>1 DEF DecidedRound, VotedByQuorum, Senders, IsQuorum, Threshold
    <3>2. CASE u # v
      <4>1. rs'[u] = rs[u]
        BY <1>0, <3>2 DEF StepBy
      <4>2. PICK m \in precommitMsgs : /\ m.round = rs[u].round /\ m.vote # Nil
                                       /\ VotedByQuorum(precommitMsgs, m.round, m.vote)
        BY <1>6, <2>2, <4>1 DEF FaultInv, CommitPhaseDecided
      <4>3. VotedByQuorum(precommitMsgs', m.round, m.vote)
        BY <4>2, VotesGrow DEF StepBy, TypeOK, VoteRecords
      <4> QED BY <4>1, <4>2, <4>3 DEF StepBy
    <3> QED BY <3>1, <3>2
  <2>3. CommitPhaseDecided'
    BY <2>2 DEF CommitPhaseDecided, VotedByQuorum, Senders, IsQuorum, Threshold
  <2> QED BY <2>1, <2>3
<1> QED BY <1>1, <1>2, <1>3, <1>4, <1>5, <1>6 DEF FaultInv

-----------------------------------------------------------------------------
(* A step within a round, from round state s to t.                         *)

\* What v may send in it, and then only once.
ProposesOnce(v, s, t, b) ==
  \/ proposalMsgs' = proposalMsgs
  \/ /\ proposalMsgs' = proposalMsgs \cup {Proposal(s.round, v, b)}
     /\ s.phase = "Propose" /\ t.phase # "Propose"

PrevotesOnce(v, s, t, x) ==
  \/ prevoteMsgs' = prevoteMsgs
  \/ /\ prevoteMsgs' = prevoteMsgs \cup {Vote(s.round, v, x)}
     /\ ~s.prevoted /\ t.prevoted

PrecommitsOnce(v, s, t, y) ==
  \/ precommitMsgs' = precommitMsgs
  \/ /\ precommitMsgs' = precommitMsgs \cup {Vote(s.round, v, y)}
     /\ ~s.precommitted /\ t.precommitted

\* t is no less than s.
Later(s, t) ==
  /\ t.round = s.round
  /\ s.prevoted => t.prevoted
  /\ s.precommitted => t.precommitted
  /\ s.phase # "Propose" => t.phase # "Propose"
  /\ t.phase = "Propose" => ~t.prevoted

\* A validator that goes from round state s to a later one t keeps its invariant if
\* all it sends meanwhile is of the round and known to t.
LEMMA RoundStep ==
  ASSUME TypeOK, TypeOK', FaultInv, NEW v \in Correct, StepBy(v),
         NEW s \in RoundStates, CorrectRound(v, s),
         NEW t \in RoundStates, rs'[v] = t, Later(s, t),
         restarts'[v] = restarts[v], committed'[v] = committed[v],
         NEW b, ProposesOnce(v, s, t, b),
         NEW x, PrevotesOnce(v, s, t, x),
         NEW y, PrecommitsOnce(v, s, t, y),
         CorrectVotesSent(t)', SeenSent(v)', CountersLow(v)',
         LimitsAway => JailsForCause(v)',
         FewFaulty => DecidedRound(t)',
         FewFaulty /\ y \in Blocks /\ precommitMsgs' # precommitMsgs =>
           \E n \in prevoteMsgs : n.round = s.round /\ n.vote = y
  PROVE  FaultInv'
<1>0. /\ s.round \in Nat /\ t.round = s.round
      /\ restarts[v] \in Nat
  BY BoundAssumption DEF RoundStates, Rounds, Correct, TypeOK, Later
<1>1. /\ Proposal(s.round, v, b).from = v /\ Proposal(s.round, v, b).round = s.round
      /\ Vote(s.round, v, x).from = v /\ Vote(s.round, v, x).round = s.round
      /\ Vote(s.round, v, y).from = v /\ Vote(s.round, v, y).round = s.round
      /\ Vote(s.round, v, y).vote = y
  BY DEF Proposal, Vote
<1>2. OwnVotesKnown(v, s) => OwnVotesKnown(v, t)'
  <2>1. \A m \in proposalMsgs' : \/ m \in proposalMsgs
                                 \/ /\ m.from = v /\ m.round = s.round
                                    /\ t.phase # "Propose"
    BY <1>1 DEF ProposesOnce
  <2>2. \A m \in prevoteMsgs' : \/ m \in prevoteMsgs
                                \/ m.from = v /\ m.round = s.round /\ t.prevoted
    BY <1>1 DEF PrevotesOnce
  <2>3. \A m \in precommitMsgs' : \/ m \in precommitMsgs
                                  \/ m.from = v /\ m.round = s.round /\ t.precommitted
    BY <1>1 DEF PrecommitsOnce
  <2> QED BY <1>0, <2>1, <2>2, <2>3 DEF OwnVotesKnown, Later
<1>3. CorrectRound(v, rs[v])'
  <2>1. CorrectVotesSent(rs[v])'
    BY DEF CorrectVotesSent
  <2>2. OwnVotesKnown(v, t)' => OwnVotesKnown(v, rs[v])'
    BY DEF OwnVotesKnown
  <2> QED BY <1>2, <2>1, <2>2 DEF CorrectRound, Later
<1>4. SendsOnce(v)'
  <2>1. CASE restarts[v] = 0
    <3>0. OwnVotesKnown(v, s)
      BY <2>1 DEF CorrectRound
    <3>1. \A m, n \in proposalMsgs' : m.from = v /\ n.from = v /\ m.round = n.round => m = n
      <4>1. \A m, n \in proposalMsgs : m.from = v /\ n.from = v /\ m.round = n.round => m = n
        BY <2>1 DEF FaultInv, OneProposalEach
      <4>2. s.phase = "Propose" =>
              \A m \in proposalMsgs : m.from = v => m.round # s.round
        BY <3>0 DEF OwnVotesKnown
      <4> QED BY <1>1, <4>1, <4>2 DEF ProposesOnce
    <3>2. \A m, n \in prevoteMsgs' : m.from = v /\ n.from = v /\ m.round = n.round => m = n
      <4>1. \A m, n \in prevoteMsgs : m.from = v /\ n.from = v /\ m.round = n.round => m = n
        BY <2>1 DEF FaultInv, NoDoubleVote
      <4>2. ~s.prevoted => \A m \in prevoteMsgs : m.from = v => m.round # s.round
        BY <3>0 DEF OwnVotesKnown
      <4> QED BY <1>1, <4>1, <4>2 DEF PrevotesOnce
    <3>3. \A m, n \in precommitMsgs' : m.from = v /\ n.from = v /\ m.round = n.round => m = n
      <4>1. \A m, n \in precommitMsgs : m.from = v /\ n.from = v /\ m.round = n.round => m = n
        BY <2>1 DEF FaultInv, NoDoubleVote
      <4>2. ~s.precommitted => \A m \in precommitMsgs : m.from = v => m.round # s.round
        BY <3>0 DEF OwnVotesKnown
      <4> QED BY <1>1, <4>1, <4>2 DEF PrecommitsOnce
    <3> QED BY <3>1, <3>2, <3>3 DEF SendsOnce
  <2>2. CASE restarts[v] > 0
    BY <2>2 DEF SendsOnce
  <2> QED BY <1>0, <2>1, <2>2
<1>5. FewFaulty => DecidedRound(rs[v])'
  BY DEF DecidedRound
<1>6. FewFaulty => \A m \in precommitMsgs' \ precommitMsgs : m.vote \in Blocks =>
                     \E n \in prevoteMsgs' : n.round = m.round /\ n.vote = m.vote
  BY <1>1 DEF PrecommitsOnce, StepBy
<1> QED BY <1>3, <1>4, <1>5, <1>6, FaultFrame

-----------------------------------------------------------------------------
(* Round states and recorded quorums.                                      *)

\* A later round starts without anything of the old one.
LEMMA FreshCorrectRound ==
  ASSUME TypeOK, NEW v \in Correct, NEW s \in RoundStates, CorrectRound(v, s),
         NEW r \in Rounds, r > s.round
  PROVE  CorrectRound(v, NewRoundState(r))
<1> DEFINE t == NewRoundState(r)
<1>1. /\ t.round = r /\ t.phase = "Propose" /\ ~t.prevoted /\ ~t.precommitted
      /\ \A u \in Validators : t.prevotes[u] = None /\ t.precommits[u] = None
  BY DEF NewRoundState
<1>2. s.round \in Nat /\ r \in Nat
  BY BoundAssumption DEF RoundStates, Rounds
<1>3. /\ \A m \in prevoteMsgs : m.round \in Nat
      /\ \A m \in precommitMsgs : m.round \in Nat
      /\ \A m \in proposalMsgs : m.round \in Nat
  BY BoundAssumption DEF TypeOK, Rounds
<1> HIDE DEF t
<1>4. CorrectVotesSent(t)
  BY <1>1 DEF CorrectVotesSent, Correct
<1>5. OwnVotesKnown(v, s) => OwnVotesKnown(v, t)
  BY <1>1, <1>2, <1>3 DEF OwnVotesKnown
<1>6. CorrectRound(v, t)
  BY <1>1, <1>4, <1>5 DEF CorrectRound
<1> QED BY <1>6 DEF t

\* The round-skip of on_message; the message is then one of the current round.
LEMMA SkipToCorrectRound ==
  ASSUME TypeOK, FaultInv, NEW v \in Correct, committed[v] = None, NEW r \in Rounds,
         NEW s, s = SkipTo(rs[v], r)
  PROVE  /\ s \in RoundStates /\ CorrectRound(v, s) /\ s.round >= rs[v].round
         /\ r >= rs[v].round => s.round = r
         /\ FewFaulty => DecidedRound(s)
<1>1. /\ rs[v] \in RoundStates /\ rs[v].round \in Nat /\ r \in Nat
      /\ CorrectRound(v, rs[v])
  BY BoundAssumption DEF TypeOK, RoundStates, Rounds, Correct, FaultInv
<1>2. s \in RoundStates
  BY <1>1, SkipToType
<1>3. CASE r > rs[v].round
  <2>1. s = NewRoundState(r)
    BY <1>3 DEF SkipTo
  <2>2. NewRoundState(r).round = r /\ NewRoundState(r).phase = "Propose"
    BY DEF NewRoundState
  <2>3. CorrectRound(v, s)
    BY <1>1, <1>3, <2>1, FreshCorrectRound
  <2>4. DecidedRound(s)
    BY <2>1, <2>2 DEF DecidedRound
  <2> QED BY <1>1, <1>2, <1>3, <2>1, <2>2, <2>3, <2>4
<1>4. CASE ~(r > rs[v].round)
  <2>1. s = rs[v]
    BY <1>4 DEF SkipTo
  <2>2. FewFaulty => DecidedRound(rs[v])
    BY DEF FaultInv, CommitPhaseDecided, DecidedRound
  <2> QED BY <1>1, <1>2, <1>4, <2>1, <2>2
<1> QED BY <1>3, <1>4

\* A is all validators but some faulty ones.
IsView(A) == \E J \in SUBSET Faulty : A = Validators \ J

\* Only faulty validators are jailed as long as nobody restarts.
LEMMA JailedAreFaulty ==
  ASSUME FewFaulty, TypeOK, FaultInv, NEW v \in Correct
  PROVE  jailed[v] \in SUBSET Faulty /\ IsView(Active(v))
<1>1. \A u \in Correct : ~(restarts[u] > 0)
  BY DEF FewFaulty, TypeOK, Correct
<1>2. jailed[v] \in SUBSET Faulty
  BY <1>1 DEF FewFaulty, FaultInv, JailedForCause
<1> QED BY <1>2 DEF IsView, Active

\* The votes of correct validators were sent in round r.
SentIn(M, r, votes) ==
  \A u \in Correct : votes[u] # None => Vote(r, u, votes[u]) \in M

\* A quorum among the votes v recorded has a correct sender, and is one of the
\* whole set together with the faulty validators.
LEMMA RecordedByCorrect ==
  ASSUME FewFaulty, NEW A, IsView(A),
         NEW r \in Rounds, NEW M \in SUBSET VoteRecords,
         NEW votes \in [Validators -> Votes \cup {None}], SentIn(M, r, votes),
         NEW x \in QuorumValues(A, votes)
  PROVE  /\ x \in Votes /\ VotedByQuorum(M, r, x)
         /\ \E m \in M : m.round = r /\ m.vote = x
<1> PICK J \in SUBSET Faulty : A = Validators \ J
  BY DEF IsView
<1> DEFINE S == VotersFor(votes, x)
           W == Senders(M, r, x) \cup Faulty
<1>1. x \in Votes /\ x # None /\ IsQuorum(S, Validators \ J) /\ S \in SUBSET Validators
  BY QuorumValuesType DEF QuorumValues, VotersFor
<1>2. \A u \in S \cap Correct : Vote(r, u, x) \in M
  BY <1>1 DEF VotersFor, SentIn
<1>3. \A u : Vote(r, u, x).from = u /\ Vote(r, u, x).round = r /\ Vote(r, u, x).vote = x
  BY DEF Vote
<1>4. PICK u \in S : u \in Correct
  BY <1>1, CorrectInQuorum
<1>5. \E m \in M : m.round = r /\ m.vote = x
  BY <1>2, <1>3, <1>4
<1>6. S \cup Faulty \in SUBSET W /\ W \in SUBSET Validators
  <2>1. \A m \in M : m.from \in Validators
    BY DEF VoteRecords
  <2>2. W \in SUBSET Validators
    BY <2>1, ValidatorAssumption DEF Senders
  <2>3. S \cap Correct \subseteq Senders(M, r, x)
    BY <1>2, <1>3 DEF Senders
  <2>4. S \cup Faulty \subseteq W
    BY <1>1, <2>3 DEF Correct
  <2> QED BY <2>2, <2>4
<1>7. IsQuorum(S \cup Faulty, Validators)
  BY <1>1, QuorumOfWhole
<1> HIDE DEF S, W
<1>8. IsQuorum(W, Validators)
  BY <1>6, <1>7, LargerQuorum
<1> QED BY <1>1, <1>5, <1>8 DEF VotedByQuorum, W

\* The same for the prevotes and the precommits of a round state.
LEMMA QuorumSent ==
  ASSUME FewFaulty, TypeOK, NEW A, IsView(A),
         NEW s \in RoundStates, CorrectVotesSent(s)
  PROVE  /\ \A x \in QuorumValues(A, s.prevotes) :
              \E m \in prevoteMsgs : m.round = s.round /\ m.vote = x
         /\ \A x \in QuorumValues(A, s.precommits) :
              /\ VotedByQuorum(precommitMsgs, s.round, x)
              /\ \E m \in precommitMsgs : m.round = s.round /\ m.vote = x
<1>1. /\ s.round \in Rounds
      /\ s.prevotes \in [Validators -> Votes \cup {None}]
      /\ s.precommits \in [Validators -> Votes \cup {None}]
      /\ prevoteMsgs \in SUBSET VoteRecords /\ precommitMsgs \in SUBSET VoteRecords
  BY DEF RoundStates, TypeOK, VoteRecords
<1>2. /\ SentIn(prevoteMsgs, s.round, s.prevotes)
      /\ SentIn(precommitMsgs, s.round, s.precommits)
  BY DEF CorrectVotesSent, SentIn
<1>3. ASSUME NEW x \in QuorumValues(A, s.prevotes)
      PROVE  /\ VotedByQuorum(prevoteMsgs, s.round, x)
             /\ \E m \in prevoteMsgs : m.round = s.round /\ m.vote = x
  BY <1>1, <1>2, RecordedByCorrect
<1>4. ASSUME NEW x \in QuorumValues(A, s.precommits)
      PROVE  /\ VotedByQuorum(precommitMsgs, s.round, x)
             /\ \E m \in precommitMsgs : m.round = s.round /\ m.vote = x
  BY <1>1, <1>2, RecordedByCorrect
<1> QED BY <1>3, <1>4

\* The counters and the jailed set stay as they are, in this or a later round.
LEMMA SlashesKept ==
  ASSUME TypeOK, TypeOK', FaultInv, NEW v \in Correct, UNCHANGED slashVars,
         committed'[v] = committed[v], restarts' = restarts,
         rs'[v].round >= rs[v].round
  PROVE  CountersLow(v)' /\ (LimitsAway => JailsForCause(v)')
<1>1. /\ v \in Validators /\ rs[v].round \in Nat /\ rs'[v].round \in Nat
      /\ PriorMisses \in Nat
  BY BoundAssumption DEF Correct, TypeOK, RoundStates, Rounds
<1>2. /\ jailed' = jailed /\ missedProposals' = missedProposals
      /\ missedVotes' = missedVotes
  BY DEF slashVars
<1>3. \A u \in Validators : missedProposals[v][u] \in Nat /\ missedVotes[v][u] \in Nat
  BY <1>1 DEF TypeOK
<1>4. CountersLow(v)
  BY DEF FaultInv
<1> QED BY <1>1, <1>2, <1>3, <1>4 DEF CountersLow, FaultInv, JailedForCause, JailsForCause

-----------------------------------------------------------------------------
(* What the steps of one validator have in common.                         *)

\* What a correct validator is said to have sent, it has sent.
LEMMA DeliveredSent ==
  ASSUME TypeOK
  PROVE  /\ \A m \in Proposals : m \in ProposalRecords /\ (m.from \in Correct => m \in proposalMsgs)
         /\ \A m \in Prevotes : m \in VoteRecords /\ (m.from \in Correct => m \in prevoteMsgs)
         /\ \A m \in Precommits : m \in VoteRecords /\ (m.from \in Correct => m \in precommitMsgs)
<1>1. /\ \A m \in Proposals : m.from \in Correct => m \in proposalMsgs
      /\ \A m \in Prevotes : m.from \in Correct => m \in prevoteMsgs
      /\ \A m \in Precommits : m.from \in Correct => m \in precommitMsgs
  BY DEF Proposals, Prevotes, Precommits, FaultyVotes, Correct
<1> QED BY <1>1, MessageTypes

\* The counters and the jailed sets after a step of v.
SlashKeeps(v) ==
  /\ \A u \in Validators \ {v} :
       /\ jailed'[u] = jailed[u] /\ missedProposals'[u] = missedProposals[u]
       /\ missedVotes'[u] = missedVotes[u]
  /\ CountersLow(v)'
  /\ LimitsAway => JailsForCause(v)'

\* The seen proposals after a step of v.
SeenKeeps(v) ==
  /\ \A u \in Validators \ {v} : proposalsSeen'[u] = proposalsSeen[u]
  /\ SeenSent(v)'

\* A step that slashes nobody keeps the counters and the jailings.
LEMMA SlashUnchanged ==
  ASSUME TypeOK, TypeOK', FaultInv, NEW v \in Correct, UNCHANGED slashVars,
         committed' = committed, restarts' = restarts,
         rs'[v].round >= rs[v].round
  PROVE  SlashKeeps(v)
<1>1. CountersLow(v)' /\ (LimitsAway => JailsForCause(v)')
  BY SlashesKept
<1> QED BY <1>1 DEF SlashKeeps, slashVars

\* A validator is slashed for equivocation with cause.
LEMMA SlashWithCause ==
  ASSUME TypeOK, TypeOK', FaultInv, NEW v \in Correct, NEW u \in Validators,
         u \in Faulty \/ restarts[u] > 0, SlashEquivocation(v, u),
         committed' = committed, restarts' = restarts,
         rs'[v].round >= rs[v].round
  PROVE  SlashKeeps(v)
<1>1. /\ v \in Validators /\ rs[v].round \in Nat /\ rs'[v].round \in Nat
      /\ PriorMisses \in Nat
  BY BoundAssumption DEF Correct, TypeOK, RoundStates, Rounds
<1>2. /\ missedProposals' = missedProposals /\ missedVotes' = missedVotes
      /\ \A w \in Validators : jailed'[w] = IF w = v THEN jailed[v] \cup {u} ELSE jailed[w]
  BY <1>1 DEF SlashEquivocation, TypeOK
<1>3. \A w \in Validators : missedProposals[v][w] \in Nat /\ missedVotes[v][w] \in Nat
  BY <1>1 DEF TypeOK
<1>4. CountersLow(v)
  BY DEF FaultInv
<1>5. CountersLow(v)'
  BY <1>1, <1>2, <1>3, <1>4 DEF CountersLow
<1>6. LimitsAway => JailsForCause(v)'
  BY <1>1, <1>2 DEF FaultInv, JailedForCause, JailsForCause, Correct
<1> QED BY <1>1, <1>2, <1>5, <1>6 DEF SlashKeeps

\* A step that leaves proposals_seen alone keeps it grounded in what was sent.
LEMMA SeenUnchanged ==
  ASSUME FaultInv, NEW v \in Correct, proposalsSeen' = proposalsSeen,
         proposalMsgs \subseteq proposalMsgs'
  PROVE  SeenKeeps(v)
BY DEF SeenKeeps, FaultInv, SeenSent

\* A delivered proposal counts as seen.
LEMMA SeenOneMore ==
  ASSUME TypeOK, FaultInv, NEW v \in Correct, NEW m \in Proposals,
         proposalsSeen' = [proposalsSeen EXCEPT ![v] = @ \cup {m}],
         proposalMsgs' = proposalMsgs
  PROVE  SeenKeeps(v)
<1>1. /\ v \in Validators
      /\ \A u \in Validators : proposalsSeen'[u] = IF u = v THEN proposalsSeen[v] \cup {m}
                                                  ELSE proposalsSeen[u]
  BY DEF Correct, TypeOK
<1>2. m.from \in Correct => m \in proposalMsgs
  BY DeliveredSent
<1> QED BY <1>1, <1>2 DEF SeenKeeps, FaultInv, SeenSent

\* A step of v that starts or goes on with the round of s.
LEMMA RoundAction ==
  ASSUME TypeOK, TypeOK', FaultInv, NEW v \in Correct,
         NEW s \in RoundStates, CorrectRound(v, s),
         NEW t \in RoundStates, rs' = [rs EXCEPT ![v] = t], Later(s, t),
         restarts' = restarts, committed' = committed,
         NEW b, ProposesOnce(v, s, t, b),
         NEW x, PrevotesOnce(v, s, t, x),
         NEW y, PrecommitsOnce(v, s, t, y),
         CorrectVotesSent(t)', SlashKeeps(v), SeenKeeps(v),
         FewFaulty => DecidedRound(t)',
         FewFaulty /\ y \in Blocks /\ precommitMsgs' # precommitMsgs =>
           \E n \in prevoteMsgs : n.round = s.round /\ n.vote = y
  PROVE  FaultInv'
<1>1. /\ v \in Validators
      /\ rs'[v] = t /\ \A u \in Validators \ {v} : rs'[u] = rs[u]
      /\ restarts[v] \in Nat
  BY BoundAssumption DEF TypeOK, Correct
<1>2. /\ Proposal(s.round, v, b).from = v
      /\ Vote(s.round, v, x).from = v /\ Vote(s.round, v, y).from = v
  BY DEF Proposal, Vote
<1>3. /\ proposalMsgs \subseteq proposalMsgs'
      /\ \A m \in proposalMsgs' \ proposalMsgs : m.from = v
  BY <1>2 DEF ProposesOnce
<1>4. /\ prevoteMsgs \subseteq prevoteMsgs'
      /\ \A m \in prevoteMsgs' \ prevoteMsgs : m.from = v
  BY <1>2 DEF PrevotesOnce
<1>5. /\ precommitMsgs \subseteq precommitMsgs'
      /\ \A m \in precommitMsgs' \ precommitMsgs : m.from = v
  BY <1>2 DEF PrecommitsOnce
<1>6. StepBy(v)
  BY <1>1, <1>3, <1>4, <1>5 DEF StepBy, SlashKeeps, SeenKeeps
<1>7. SeenSent(v)' /\ CountersLow(v)' /\ (LimitsAway => JailsForCause(v)')
  BY DEF SlashKeeps, SeenKeeps
<1> QED BY <1>1, <1>6, <1>7, RoundStep

\* A decided round stays decided as long as nobody precommits.
LEMMA StaysDecided ==
  ASSUME NEW t, DecidedRound(t), precommitMsgs' = precommitMsgs
  PROVE  DecidedRound(t)'
BY DEF DecidedRound, VotedByQuorum, Senders, IsQuorum, Threshold

\* A step in which v sends nothing.
LEMMA SilentAction ==
  ASSUME TypeOK, TypeOK', FaultInv, NEW v \in Correct,
         NEW s \in RoundStates, CorrectRound(v, s),
         NEW t \in RoundStates, rs' = [rs EXCEPT ![v] = t], Later(s, t),
         UNCHANGED <<restarts, committed, proposalMsgs, prevoteMsgs, precommitMsgs>>,
         CorrectVotesSent(t), SlashKeeps(v), SeenKeeps(v),
         FewFaulty => DecidedRound(t)
  PROVE  FaultInv'
<1>1. /\ ProposesOnce(v, s, t, None) /\ PrevotesOnce(v, s, t, None)
      /\ PrecommitsOnce(v, s, t, None)
  BY DEF ProposesOnce, PrevotesOnce, PrecommitsOnce
<1>2. CorrectVotesSent(t)'
  BY DEF CorrectVotesSent
<1>3. FewFaulty => DecidedRound(t)'
  BY StaysDecided
<1> QED BY <1>1, <1>2, <1>3, RoundAction

\* A precommit, for what a prevote quorum named or for nil.
LEMMA PrecommitAction ==
  ASSUME TypeOK, TypeOK', FaultInv, NEW v \in Correct,
         NEW s \in RoundStates, CorrectRound(v, s), s.round >= rs[v].round,
         NEW x \in Votes, x = Nil \/ x \in QuorumValues(Active(v), s.prevotes),
         EnterPrecommit(v, s, x),
         UNCHANGED <<proposalsSeen, slashVars, restarts, committed, proposalMsgs,
                     prevoteMsgs>>
  PROVE  FaultInv'
<1>0. v \in Validators
  BY DEF Correct
<1> PICK t : t = [s EXCEPT !.phase = "Precommit", !.precommitted = TRUE,
                           !.precommits[v] = IF s.precommitted THEN @ ELSE x]
  OBVIOUS
<1>1. t \in RoundStates
  BY <1>0 DEF RoundStates, Phases
<1>2. /\ t.round = s.round /\ t.phase = "Precommit" /\ t.precommitted
      /\ t.prevoted = s.prevoted /\ t.prevotes = s.prevotes
      /\ \A u \in Validators : t.precommits[u] =
           IF u = v /\ ~s.precommitted THEN x ELSE s.precommits[u]
  BY <1>0 DEF RoundStates
<1>3. rs' = [rs EXCEPT ![v] = t]
  BY DEF EnterPrecommit
<1>4. precommitMsgs' = IF s.precommitted THEN precommitMsgs
                       ELSE precommitMsgs \cup {Vote(s.round, v, x)}
  BY DEF EnterPrecommit
<1>5. Later(s, t)
  BY <1>2 DEF Later
<1>6. /\ ProposesOnce(v, s, t, None) /\ PrevotesOnce(v, s, t, None)
      /\ PrecommitsOnce(v, s, t, x)
  BY <1>2, <1>4 DEF ProposesOnce, PrevotesOnce, PrecommitsOnce
<1>7. CorrectVotesSent(t)'
  <2>1. \A u \in Correct : s.precommits[u] # None =>
                             Vote(s.round, u, s.precommits[u]) \in precommitMsgs'
    BY <1>4 DEF CorrectRound, CorrectVotesSent
  <2>2. ~s.precommitted => Vote(s.round, v, x) \in precommitMsgs'
    BY <1>4
  <2>3. \A u \in Correct : u \in Validators
    BY DEF Correct
  <2>4. \A u \in Correct : t.precommits[u] # None =>
                             Vote(t.round, u, t.precommits[u]) \in precommitMsgs'
    BY <1>2, <2>1, <2>2, <2>3
  <2>5. \A u \in Correct : t.prevotes[u] # None =>
                             Vote(t.round, u, t.prevotes[u]) \in prevoteMsgs'
    BY <1>2 DEF CorrectRound, CorrectVotesSent
  <2> QED BY <2>4, <2>5 DEF CorrectVotesSent
<1>8. SlashKeeps(v) /\ SeenKeeps(v)
  <2>1. rs'[v].round >= rs[v].round
    BY <1>0, <1>2, <1>3 DEF TypeOK
  <2>2. SlashKeeps(v)
    BY <2>1, SlashUnchanged
  <2>3. SeenKeeps(v)
    BY SeenUnchanged
  <2> QED BY <2>2, <2>3
<1>9. FewFaulty => DecidedRound(t)'
  BY <1>2 DEF DecidedRound
<1>10. ASSUME FewFaulty, x \in Blocks
       PROVE  \E n \in prevoteMsgs : n.round = s.round /\ n.vote = x
  <2>1. x \in QuorumValues(Active(v), s.prevotes)
    BY <1>10, SentinelAssumption
  <2>2. IsView(Active(v)) /\ CorrectVotesSent(s)
    BY <1>10, JailedAreFaulty DEF CorrectRound
  <2> QED BY <1>10, <2>1, <2>2, QuorumSent
<1> QED BY <1>1, <1>3, <1>5, <1>6, <1>7, <1>8, <1>9, <1>10, RoundAction

\* A commit, of any block.
LEMMA CommitAction ==
  ASSUME TypeOK, TypeOK', FaultInv, NEW v \in Correct, NEW b \in Blocks, NEW S,
         Commit(v, b, S),
         UNCHANGED <<proposalsSeen, slashVars, restarts, proposalMsgs,
                     prevoteMsgs, precommitMsgs>>
  PROVE  FaultInv'
<1>1. /\ v \in Validators /\ rs'[v] = NewRoundState(0)
      /\ committed'[v] = b /\ b # None
      /\ \A u \in Validators \ {v} : rs'[u] = rs[u] /\ committed'[u] = committed[u]
      /\ restarts[v] \in Nat
  BY BoundAssumption, SentinelAssumption DEF Commit, TypeOK, Correct
<1>2. rs'[v].phase = "Propose"
  BY <1>1 DEF NewRoundState
<1>3. StepBy(v)
  BY <1>1 DEF StepBy, slashVars
<1>4. SendsOnce(v)'
  BY DEF SendsOnce, FaultInv, NoDoubleVote, OneProposalEach
<1>5. SeenSent(v)' /\ CountersLow(v)' /\ (LimitsAway => JailsForCause(v)')
  BY <1>1 DEF FaultInv, SeenSent, CountersLow, JailedForCause, JailsForCause, slashVars
<1>6. FewFaulty => DecidedRound(rs[v])'
  BY <1>2 DEF DecidedRound
<1> QED BY <1>1, <1>3, <1>4, <1>5, <1>6, FaultFrame

\* Committing what the recorded precommits allow.
LEMMA VotedCommitAction ==
  ASSUME TypeOK, TypeOK', FaultInv, NEW v \in Correct, NEW s \in RoundStates,
         NEW b \in Committable(Active(v), s), NEW S, Commit(v, b, S),
         UNCHANGED <<proposalsSeen, slashVars, restarts, proposalMsgs,
                     prevoteMsgs, precommitMsgs>>
  PROVE  FaultInv'
<1>1. b \in Blocks
  BY CommittableType
<1> QED BY <1>1, CommitAction

\* A synced block, whatever it is.
LEMMA SyncKeepsFaultInv ==
  ASSUME TypeOK, TypeOK', FaultInv, NEW v \in Correct, SyncApply(v)
  PROVE  FaultInv'
<1>1. PICK p \in SyncBlocks : Commit(v, p[1], p[2])
  BY DEF SyncApply
<1>2. UNCHANGED <<proposalsSeen, slashVars, restarts, proposalMsgs, prevoteMsgs,
                  precommitMsgs>>
  BY DEF SyncApply, boundVars, msgVars
<1>3. p[1] \in Blocks
  <2>1. CASE \E u \in Correct : committed[u] # None /\ p = <<committed[u], cert[u]>>
    BY <2>1 DEF TypeOK, Correct
  <2>2. CASE p \in KnownBlocks \X SUBSET Validators
    BY <2>2, MessageTypes
  <2> QED BY <2>1, <2>2 DEF SyncBlocks
<1> QED BY <1>1, <1>2, <1>3, CommitAction

\* A restart forgets everything, and says so.
LEMMA RestartKeepsFaultInv ==
  ASSUME TypeOK, TypeOK', FaultInv, NEW v \in Correct, Restart(v)
  PROVE  FaultInv'
<1>1. /\ v \in Validators /\ rs'[v] = NewRoundState(0) /\ restarts'[v] = restarts[v] + 1
      /\ jailed'[v] = {} /\ proposalsSeen'[v] = {}
      /\ \A u \in Validators : missedProposals'[v][u] = 0 /\ missedVotes'[v][u] = 0
      /\ committed' = committed
  BY DEF Restart, TypeOK, Correct, heightVars
<1>2. restarts[v] \in Nat /\ PriorMisses \in Nat
  BY <1>1, BoundAssumption DEF TypeOK
<1>3. /\ NewRoundState(0).round = 0 /\ NewRoundState(0).phase = "Propose"
      /\ ~NewRoundState(0).prevoted
      /\ \A u \in Validators : /\ NewRoundState(0).prevotes[u] = None
                               /\ NewRoundState(0).precommits[u] = None
  BY DEF NewRoundState
<1>4. /\ proposalMsgs' = proposalMsgs /\ prevoteMsgs' = prevoteMsgs
      /\ precommitMsgs' = precommitMsgs
  BY DEF Restart, msgVars
<1>5. StepBy(v)
  <2>1. \A u \in Validators \ {v} :
          /\ rs'[u] = rs[u] /\ jailed'[u] = jailed[u]
          /\ proposalsSeen'[u] = proposalsSeen[u] /\ restarts'[u] = restarts[u]
          /\ missedProposals'[u] = missedProposals[u] /\ missedVotes'[u] = missedVotes[u]
    BY DEF Restart, TypeOK
  <2> QED BY <1>1, <1>2, <1>4, <2>1 DEF StepBy
<1>6. CorrectRound(v, rs[v])'
  BY <1>1, <1>2, <1>3 DEF CorrectRound, CorrectVotesSent, Correct
<1>7. SendsOnce(v)'
  BY <1>1, <1>2 DEF SendsOnce
<1>8. SeenSent(v)' /\ CountersLow(v)' /\ (LimitsAway => JailsForCause(v)')
  BY <1>1, <1>2, <1>3 DEF SeenSent, CountersLow, JailsForCause
<1>9. FewFaulty => DecidedRound(rs[v])'
  BY <1>1, <1>3 DEF DecidedRound
<1> QED BY <1>4, <1>5, <1>6, <1>7, <1>8, <1>9, FaultFrame

\* advance_round: the counters grow by one, and nobody is at a limit yet.
LEMMA AdvanceKeeps ==
  ASSUME MaxWraps = 0, TypeOK, TypeOK', FaultInv, NEW v \in Correct,
         committed[v] = None, AdvanceRound(v), committed' = committed,
         restarts' = restarts
  PROVE  /\ SlashKeeps(v)
         /\ \E r \in Rounds : /\ r > rs[v].round
                              /\ rs' = [rs EXCEPT ![v] = NewRoundState(r)]
<1> DEFINE s == rs[v]
           leader == ProposerForRound(v, s.round)
           missed == s.proposed = None /\ leader # None
           lateProposer == missed /\ missedProposals[v][leader] + 1 >= ProposalMissLimit
           jailed1 == IF lateProposer THEN jailed[v] \cup {leader} ELSE jailed[v]
           silent == {u \in Validators \ jailed1 :
                        s.prevotes[u] = None /\ s.precommits[u] = None}
           absent == {u \in silent : missedVotes[v][u] + 1 >= VoteMissLimit}
           wrap == s.round + 1 >= MaxRounds
<1>0. v \in Validators
  BY DEF Correct
<1>1. /\ wrap => wraps[v] < MaxWraps
      /\ rs' = [rs EXCEPT ![v] = NewRoundState(IF wrap THEN 0 ELSE s.round + 1)]
      /\ missedProposals' = IF missed
           THEN [missedProposals EXCEPT ![v][leader] = IF lateProposer THEN 0 ELSE @ + 1]
           ELSE missedProposals
      /\ missedVotes' = [missedVotes EXCEPT ![v] =
           [u \in Validators |->
              IF u \in jailed1 THEN missedVotes[v][u]
              ELSE IF u \in silent \ absent THEN missedVotes[v][u] + 1 ELSE 0]]
      /\ jailed' = [jailed EXCEPT ![v] = jailed1 \cup absent]
  BY Zenon DEF AdvanceRound
<1>2. /\ s \in RoundStates /\ s.round \in Rounds /\ s.round \in Nat
      /\ MaxRounds \in Nat /\ PriorMisses \in Nat
      /\ ProposalMissLimit \in Nat /\ VoteMissLimit \in Nat
  BY <1>0, BoundAssumption DEF TypeOK, RoundStates, Rounds
<1>3. ~wrap
  <2>1. wraps[v] \in 0 .. 0
    BY <1>0 DEF TypeOK
  <2>2. ~(wraps[v] < MaxWraps)
    BY <2>1
  <2> QED BY <1>1, <2>2
<1>4. /\ s.round + 1 \in Rounds /\ s.round + 1 < MaxRounds
      /\ rs' = [rs EXCEPT ![v] = NewRoundState(s.round + 1)]
  <2>1. s.round + 1 \in Rounds /\ s.round + 1 < MaxRounds
    BY <1>2, <1>3 DEF Rounds
  <2>2. rs' = [rs EXCEPT ![v] = NewRoundState(s.round + 1)]
    <3> HIDE DEF wrap
    <3> QED BY <1>1, <1>3, Zenon
  <2> QED BY <2>1, <2>2
<1>5. rs'[v].round = s.round + 1
  <2>1. NewRoundState(s.round + 1).round = s.round + 1
    BY DEF NewRoundState
  <2>2. rs'[v] = NewRoundState(s.round + 1)
    BY <1>0, <1>4 DEF TypeOK
  <2> QED BY <2>1, <2>2
<1>6. \A u \in Validators :
        /\ missedProposals[v][u] \in Nat /\ missedVotes[v][u] \in Nat
        /\ missedProposals[v][u] <= PriorMisses + s.round
        /\ missedVotes[v][u] <= PriorMisses + s.round
  BY <1>0 DEF FaultInv, CountersLow, TypeOK
<1>7. leader \in Validators \cup {None}
  <2>1. Active(v) \in SUBSET Validators
    BY DEF Active
  <2> QED BY <1>2, <2>1, LeaderIsActive DEF ProposerForRound
<1>8. ASSUME LimitsAway PROVE ~lateProposer /\ absent = {}
  <2>1. \A u \in Validators : /\ missedProposals[v][u] + 1 < ProposalMissLimit
                              /\ missedVotes[v][u] + 1 < VoteMissLimit
    BY <1>2, <1>4, <1>6, <1>8 DEF LimitsAway
  <2>2. ~lateProposer
    <3> HIDE DEF leader
    <3> QED BY <1>2, <1>6, <1>7, <2>1
  <2>3. absent = {}
    <3> HIDE DEF jailed1
    <3> QED BY <1>2, <1>6, <2>1
  <2> QED BY <2>2, <2>3
<1> HIDE DEF wrap, leader
<1>9. LimitsAway => JailsForCause(v)'
  <2>1. SUFFICES ASSUME LimitsAway PROVE JailsForCause(v)'
    OBVIOUS
  <2>2. jailed' = [jailed EXCEPT ![v] = jailed[v]]
    BY <1>1, <1>8, <2>1
  <2>3. jailed'[v] = jailed[v]
    BY <1>0, <2>2 DEF TypeOK
  <2> QED BY <2>1, <2>3 DEF FaultInv, JailedForCause, JailsForCause
<1>10. ASSUME NEW u \in Validators
       PROVE  /\ missedProposals'[v][u] <= missedProposals[v][u] + 1
              /\ missedVotes'[v][u] <= missedVotes[v][u] + 1
  <2>1. missedVotes'[v][u] <= missedVotes[v][u] + 1
    <3> HIDE DEF jailed1, silent, absent
    <3>1. missedVotes'[v][u] = IF u \in jailed1 THEN missedVotes[v][u]
            ELSE IF u \in silent \ absent THEN missedVotes[v][u] + 1 ELSE 0
      BY <1>0, <1>1 DEF TypeOK
    <3> QED BY <1>6, <3>1
  <2>2. missedProposals'[v][u] <= missedProposals[v][u] + 1
    <3>1. missed => leader \in Validators
      BY <1>7
    <3> HIDE DEF missed, lateProposer
    <3>2. CASE ~missed
      BY <1>1, <1>6, <3>2
    <3>3. CASE missed
      <4>1. missedProposals'[v][u] = IF u = leader
              THEN (IF lateProposer THEN 0 ELSE missedProposals[v][u] + 1)
              ELSE missedProposals[v][u]
        BY <1>0, <1>1, <3>1, <3>3 DEF TypeOK
      <4> QED BY <1>6, <4>1
    <3> QED BY <3>2, <3>3
  <2> QED BY <2>1, <2>2
<1>11. CountersLow(v)'
  <2>1. ASSUME NEW u \in Validators
        PROVE  /\ missedProposals'[v][u] <= PriorMisses + rs'[v].round
               /\ missedVotes'[v][u] <= PriorMisses + rs'[v].round
    <3>1. missedProposals'[v][u] \in Nat /\ missedVotes'[v][u] \in Nat
      BY <1>0 DEF TypeOK
    <3> HIDE DEF s
    <3> QED BY <1>2, <1>5, <1>6, <1>10, <3>1
  <2> QED BY <2>1 DEF CountersLow
<1>12. ASSUME NEW w \in Validators \ {v}
       PROVE  /\ jailed'[w] = jailed[w]
              /\ missedProposals'[w] = missedProposals[w]
              /\ missedVotes'[w] = missedVotes[w]
  <2> HIDE DEF missed, lateProposer, jailed1, silent, absent
  <2>1. missedVotes'[w] = missedVotes[w] /\ jailed'[w] = jailed[w]
    BY <1>1 DEF TypeOK
  <2>2. missedProposals'[w] = missedProposals[w]
    <3>1. CASE missed
      BY <1>1, <3>1 DEF TypeOK
    <3>2. CASE ~missed
      BY <1>1, <3>2
    <3> QED BY <3>1, <3>2
  <2> QED BY <2>1, <2>2
<1>13. SlashKeeps(v)
  BY <1>9, <1>11, <1>12 DEF SlashKeeps
<1>14. s.round + 1 > s.round
  BY <1>2
<1> QED BY <1>4, <1>13, <1>14

\* The round state that the node's own attestation leaves, after the engine
\* left s: a commit that is lost is one of a decided round.
LEMMA AttestationLeaves ==
  ASSUME TypeOK, NEW v \in Correct, NEW s \in RoundStates, NEW b, NEW active,
         NEW proposer, EagerAttestation(v, b, s, active, proposer),
         FewFaulty => IsView(active) /\ DecidedRound(s),
         s.phase = "Precommit" => CorrectVotesSent(s)
  PROVE  \E t \in RoundStates :
           /\ rs' = [rs EXCEPT ![v] = t]
           /\ t.prevotes = s.prevotes /\ t.precommits = s.precommits
           /\ Later(s, t) \/ (s.phase = "Propose" /\ t = s)
           /\ FewFaulty => DecidedRound(t)
<1> DEFINE lost == /\ s.phase = "Precommit"
                   /\ Committable(active, s) # {}
<1> PICK c : c = [s EXCEPT !.phase = "Commit", !.proposed = None]
  OBVIOUS
<1>1. \/ rs' = [rs EXCEPT ![v] = s]
      \/ lost /\ rs' = [rs EXCEPT ![v] = c]
  BY Zenon DEF EagerAttestation
<1>2. /\ c \in RoundStates
      /\ c.round = s.round /\ c.phase = "Commit" /\ c.prevoted = s.prevoted
      /\ c.precommitted = s.precommitted /\ c.prevotes = s.prevotes
      /\ c.precommits = s.precommits
  BY DEF RoundStates, Phases
<1>3. CASE rs' = [rs EXCEPT ![v] = s]
  <2>1. Later(s, s) \/ s.phase = "Propose"
    BY DEF Later
  <2> QED BY <1>3, <2>1
<1>4. CASE lost /\ rs' = [rs EXCEPT ![v] = c]
  <2>1. Later(s, c)
    BY <1>2 DEF Later
  <2>2. ASSUME FewFaulty PROVE DecidedRound(c)
    <3>1. PICK x \in Committable(active, s) : TRUE
      BY <1>4
    <3>2. x \in Blocks /\ x \in QuorumValues(active, s.precommits)
      BY CommittableType DEF Committable
    <3>3. IsView(active) /\ CorrectVotesSent(s)
      BY <1>4, <2>2
    <3>4. /\ VotedByQuorum(precommitMsgs, s.round, x)
          /\ \E m \in precommitMsgs : m.round = s.round /\ m.vote = x
      BY <2>2, <3>2, <3>3, QuorumSent
    <3>5. x # Nil
      BY <3>2, SentinelAssumption
    <3> QED BY <1>2, <3>4, <3>5 DEF DecidedRound
  <2> QED BY <1>2, <1>4, <2>1, <2>2
<1> QED BY <1>1, <1>3, <1>4

\* A delivery after which the engine is in round state h and the node attests.
LEMMA AttestAction ==
  ASSUME TypeOK, TypeOK', FaultInv, NEW v \in Correct,
         NEW s \in RoundStates, CorrectRound(v, s), s.round >= rs[v].round,
         NEW h \in RoundStates, Later(s, h), CorrectVotesSent(h),
         FewFaulty => DecidedRound(h),
         NEW b, NEW active, NEW proposer, EagerAttestation(v, b, h, active, proposer),
         FewFaulty => IsView(active),
         UNCHANGED <<restarts, committed, proposalMsgs, prevoteMsgs, precommitMsgs>>,
         rs'[v].round >= rs[v].round => SlashKeeps(v), SeenKeeps(v)
  PROVE  FaultInv'
<1>1. PICK t \in RoundStates :
        /\ rs' = [rs EXCEPT ![v] = t]
        /\ t.prevotes = h.prevotes /\ t.precommits = h.precommits
        /\ Later(h, t) \/ (h.phase = "Propose" /\ t = h)
        /\ FewFaulty => DecidedRound(t)
  BY AttestationLeaves
<1>2. Later(s, t)
  BY <1>1 DEF Later
<1>3. CorrectVotesSent(t)
  <2>1. t.round = h.round
    BY <1>2 DEF Later
  <2> QED BY <1>1, <2>1 DEF CorrectVotesSent
<1>4. rs'[v] = t
  BY <1>1 DEF TypeOK, Correct
<1>5. SlashKeeps(v)
  BY <1>2, <1>4 DEF Later
<1> QED BY <1>1, <1>2, <1>3, <1>5, SilentAction

\* Every tick of a correct validator keeps the invariant.
LEMMA TickKeepsFaultInv ==
  ASSUME MaxWraps = 0, TypeOK, TypeOK', FaultInv, NEW v \in Correct, Tick(v)
  PROVE  FaultInv'
<1>0. /\ v \in Validators /\ rs[v] \in RoundStates /\ committed[v] = None
      /\ rs[v].round \in Nat
  <2>1. committed[v] = None
    BY DEF Tick, TickPropose, TickProposeTimeout, TickPrevoteQuorum,
           TickPrevoteTimeout, TickCommit, TickMismatch, TickNilQuorum,
           TickPrecommitTimeout, TickCommitPhase
  <2> QED BY <2>1, BoundAssumption DEF TypeOK, RoundStates, Rounds, Correct
<1> PICK s \in RoundStates : s = rs[v]
  BY <1>0
<1>r. /\ CorrectRound(v, s) /\ s.round >= rs[v].round
      /\ FewFaulty => DecidedRound(s)
  BY <1>0 DEF FaultInv, CommitPhaseDecided, DecidedRound
<1> USE DEF engineVars, slashVars, daVars, heightVars, boundVars, msgVars
<1>l. ASSUME NEW t \in RoundStates, t.round = s.round, rs' = [rs EXCEPT ![v] = t],
             UNCHANGED <<proposalsSeen, slashVars, restarts, committed>>,
             proposalMsgs \subseteq proposalMsgs'
      PROVE  SlashKeeps(v) /\ SeenKeeps(v)
  <2>1. rs'[v].round >= rs[v].round
    BY <1>0, <1>r, <1>l DEF TypeOK
  <2>2. SlashKeeps(v)
    BY <1>l, <2>1, SlashUnchanged
  <2>3. SeenKeeps(v)
    BY <1>l, SeenUnchanged
  <2> QED BY <2>2, <2>3
<1>1. CASE TickPropose(v)
  <2> PICK b : b = CreateProposal(v)
    OBVIOUS
  <2>1. /\ s.phase = "Propose"
        /\ rs' = [rs EXCEPT ![v] = [rs[v] EXCEPT !.phase = "Prevote",
                     !.proposed = b, !.prevoted = TRUE, !.prevotes[v] = b]]
        /\ proposalMsgs' = proposalMsgs \cup {Proposal(s.round, v, b)}
        /\ prevoteMsgs' = prevoteMsgs \cup {Vote(s.round, v, b)}
        /\ precommitMsgs' = precommitMsgs
        /\ UNCHANGED <<proposalsSeen, slashVars, restarts, committed>>
    BY <1>1, Zenon DEF TickPropose
  <2>2. b \in Blocks
    BY <1>0 DEF TypeOK, Blocks, CreateProposal
  <2>3. ~s.prevoted
    BY <1>r, <2>1 DEF CorrectRound
  <2> PICK t : t = [s EXCEPT !.phase = "Prevote", !.proposed = b,
                             !.prevoted = TRUE, !.prevotes[v] = b]
    OBVIOUS
  <2>4. rs' = [rs EXCEPT ![v] = t]
    BY <2>1
  <2>5. /\ t \in RoundStates /\ t.round = s.round /\ t.phase = "Prevote" /\ t.prevoted
        /\ t.precommitted = s.precommitted /\ t.precommits = s.precommits
        /\ \A u \in Validators : t.prevotes[u] = IF u = v THEN b ELSE s.prevotes[u]
    BY <1>0, <2>2 DEF RoundStates, Phases, Votes
  <2>6. Later(s, t)
    BY <2>5 DEF Later
  <2>7. /\ ProposesOnce(v, s, t, b) /\ PrevotesOnce(v, s, t, b)
        /\ PrecommitsOnce(v, s, t, None)
    BY <2>1, <2>3, <2>5 DEF ProposesOnce, PrevotesOnce, PrecommitsOnce
  <2>8. CorrectVotesSent(t)'
    BY <1>0, <1>r, <2>1, <2>5 DEF CorrectRound, CorrectVotesSent, Correct
  <2>9. SlashKeeps(v) /\ SeenKeeps(v)
    BY <1>l, <2>1, <2>4, <2>5
  <2>10. DecidedRound(t)'
    BY <2>5 DEF DecidedRound
  <2> QED BY <1>r, <2>1, <2>4, <2>5, <2>6, <2>7, <2>8, <2>9, <2>10, RoundAction
<1>2. CASE TickProposeTimeout(v)
  <2>1. /\ s.phase = "Propose"
        /\ UNCHANGED <<proposalMsgs, precommitMsgs>>
        /\ UNCHANGED <<proposalsSeen, slashVars, restarts, committed>>
    BY <1>2, Zenon DEF TickProposeTimeout
  <2>2. ~s.prevoted
    BY <1>r, <2>1 DEF CorrectRound
  <2>3. CASE /\ rs' = [rs EXCEPT ![v] = [rs[v] EXCEPT !.phase = "Prevote"]]
             /\ prevoteMsgs' = prevoteMsgs
    <3> PICK t : t = [s EXCEPT !.phase = "Prevote"]
      OBVIOUS
    <3>1. rs' = [rs EXCEPT ![v] = t]
      BY <2>3
    <3>2. /\ t \in RoundStates /\ t.round = s.round /\ t.phase = "Prevote"
          /\ t.prevoted = s.prevoted /\ t.precommitted = s.precommitted
          /\ t.prevotes = s.prevotes /\ t.precommits = s.precommits
      BY DEF RoundStates, Phases
    <3>3. Later(s, t) /\ CorrectVotesSent(t)
      BY <1>r, <3>2 DEF Later, CorrectRound, CorrectVotesSent
    <3>4. SlashKeeps(v) /\ SeenKeeps(v)
      BY <1>l, <2>1, <3>1, <3>2
    <3>5. DecidedRound(t)
      BY <3>2 DEF DecidedRound
    <3> QED BY <1>r, <2>1, <2>3, <3>1, <3>2, <3>3, <3>4, <3>5, SilentAction
  <2>4. CASE /\ rs' = [rs EXCEPT ![v] = [rs[v] EXCEPT !.phase = "Prevote",
                                          !.prevoted = TRUE, !.prevotes[v] = Nil]]
             /\ prevoteMsgs' = prevoteMsgs \cup {Vote(rs[v].round, v, Nil)}
    <3> PICK t : t = [s EXCEPT !.phase = "Prevote", !.prevoted = TRUE, !.prevotes[v] = Nil]
      OBVIOUS
    <3>1. rs' = [rs EXCEPT ![v] = t] /\ prevoteMsgs' = prevoteMsgs \cup {Vote(s.round, v, Nil)}
      BY <2>4
    <3>2. /\ t \in RoundStates /\ t.round = s.round /\ t.phase = "Prevote" /\ t.prevoted
          /\ t.precommitted = s.precommitted /\ t.precommits = s.precommits
          /\ \A u \in Validators : t.prevotes[u] = IF u = v THEN Nil ELSE s.prevotes[u]
      BY <1>0 DEF RoundStates, Phases, Votes
    <3>3. Later(s, t)
      BY <3>2 DEF Later
    <3>4. /\ ProposesOnce(v, s, t, None) /\ PrevotesOnce(v, s, t, Nil)
          /\ PrecommitsOnce(v, s, t, None)
      BY <2>1, <2>2, <3>1, <3>2 DEF ProposesOnce, PrevotesOnce, PrecommitsOnce
    <3>5. CorrectVotesSent(t)'
      BY <1>0, <1>r, <2>1, <3>1, <3>2 DEF CorrectRound, CorrectVotesSent, Correct
    <3>6. SlashKeeps(v) /\ SeenKeeps(v)
      BY <1>l, <2>1, <3>1, <3>2
    <3>7. DecidedRound(t)'
      BY <3>2 DEF DecidedRound
    <3> QED BY <1>r, <2>1, <3>1, <3>2, <3>3, <3>4, <3>5, <3>6, <3>7, RoundAction
  <2> QED BY <1>2, <2>3, <2>4, Zenon DEF TickProposeTimeout
<1>3. CASE TickPrevoteQuorum(v)
  <2>1. PICK x \in QuorumValues(Active(v), s.prevotes) : EnterPrecommit(v, s, x)
    BY <1>3 DEF TickPrevoteQuorum
  <2>2. x \in Votes
    BY QuorumValuesType DEF RoundStates
  <2>3. UNCHANGED <<proposalsSeen, slashVars, restarts, committed, proposalMsgs, prevoteMsgs>>
    BY <1>3 DEF TickPrevoteQuorum
  <2> QED BY <1>r, <2>1, <2>2, <2>3, PrecommitAction
<1>4. CASE TickPrevoteTimeout(v)
  <2>1. /\ EnterPrecommit(v, s, Nil)
        /\ UNCHANGED <<proposalsSeen, slashVars, restarts, committed, proposalMsgs, prevoteMsgs>>
    BY <1>4 DEF TickPrevoteTimeout
  <2> QED BY <1>r, <2>1, PrecommitAction DEF Votes
<1>5. CASE TickCommit(v)
  <2>1. PICK b \in Committable(Active(v), s) : Commit(v, b, VotersFor(s.precommits, b))
    BY <1>5 DEF TickCommit
  <2>2. UNCHANGED <<proposalsSeen, slashVars, restarts, proposalMsgs, prevoteMsgs,
                    precommitMsgs>>
    BY <1>5 DEF TickCommit
  <2> QED BY <1>r, <2>1, <2>2, VotedCommitAction
<1>6. CASE TickMismatch(v) \/ TickCommitPhase(v)
  <2> PICK t : t = [s EXCEPT !.proposed = None]
    OBVIOUS
  <2>1. /\ rs' = [rs EXCEPT ![v] = [rs[v] EXCEPT !.proposed = None]]
        /\ s.phase # "Propose"
    BY <1>6, Zenon DEF TickMismatch, TickCommitPhase
  <2>2. /\ UNCHANGED <<restarts, committed, proposalMsgs, prevoteMsgs, precommitMsgs>>
        /\ UNCHANGED <<proposalsSeen, slashVars, restarts, committed>>
    BY <1>6 DEF TickMismatch, TickCommitPhase
  <2>3. rs' = [rs EXCEPT ![v] = t]
    BY <2>1
  <2>4. /\ t \in RoundStates /\ t.round = s.round /\ t.phase = s.phase
        /\ t.prevoted = s.prevoted /\ t.precommitted = s.precommitted
        /\ t.prevotes = s.prevotes /\ t.precommits = s.precommits
    BY DEF RoundStates
  <2>5. Later(s, t) /\ CorrectVotesSent(t)
    BY <1>r, <2>1, <2>4 DEF Later, CorrectRound, CorrectVotesSent
  <2>6. SlashKeeps(v) /\ SeenKeeps(v)
    BY <1>l, <2>2, <2>3, <2>4
  <2>7. FewFaulty => DecidedRound(t)
    BY <1>r, <2>4 DEF DecidedRound
  <2> QED BY <1>r, <2>2, <2>3, <2>4, <2>5, <2>6, <2>7, SilentAction
<1>7. CASE TickNilQuorum(v) \/ TickPrecommitTimeout(v)
  <2>1. /\ AdvanceRound(v)
        /\ UNCHANGED <<proposalsSeen, restarts, committed, proposalMsgs, prevoteMsgs,
                       precommitMsgs>>
    BY <1>7 DEF TickNilQuorum, TickPrecommitTimeout
  <2>2. /\ SlashKeeps(v)
        /\ \E r \in Rounds : r > s.round /\ rs' = [rs EXCEPT ![v] = NewRoundState(r)]
    BY <1>0, <2>1, AdvanceKeeps
  <2>3. PICK r \in Rounds : r > s.round /\ rs' = [rs EXCEPT ![v] = NewRoundState(r)]
    BY <2>2
  <2> PICK t \in RoundStates : t = NewRoundState(r)
    BY FreshRound
  <2>4. CorrectRound(v, t)
    BY <1>r, <2>3, FreshCorrectRound
  <2>5. t.phase = "Propose"
    BY DEF NewRoundState
  <2>6. Later(t, t) /\ CorrectVotesSent(t) /\ DecidedRound(t)
    BY <2>4, <2>5 DEF Later, CorrectRound, DecidedRound
  <2>7. SeenKeeps(v)
    BY <2>1, SeenUnchanged
  <2> QED BY <2>1, <2>2, <2>3, <2>4, <2>6, <2>7, SilentAction
<1> QED BY <1>1, <1>2, <1>3, <1>4, <1>5, <1>6, <1>7 DEF Tick

\* Recording a delivered vote of the round.
LEMMA RecordVote ==
  ASSUME TypeOK, NEW v \in Correct, NEW s \in RoundStates, CorrectRound(v, s),
         FewFaulty => DecidedRound(s), NEW m, m.round = s.round, NEW t,
         \/ m \in Prevotes /\ t = [s EXCEPT !.prevotes[m.from] = m.vote]
         \/ m \in Precommits /\ t = [s EXCEPT !.precommits[m.from] = m.vote]
  PROVE  /\ t \in RoundStates /\ t.round = s.round /\ t.phase = s.phase
         /\ CorrectRound(v, t)
         /\ FewFaulty => DecidedRound(t)
<1>1. /\ m \in VoteRecords
      /\ m \in Prevotes /\ m.from \in Correct => m \in prevoteMsgs
      /\ m \in Precommits /\ m.from \in Correct => m \in precommitMsgs
  BY DeliveredSent
<1>2. m.from \in Validators /\ m.vote \in Votes /\ Vote(m.round, m.from, m.vote) = m
  BY <1>1 DEF VoteRecords, Vote
<1>3. /\ t \in RoundStates /\ t.round = s.round /\ t.phase = s.phase
      /\ t.prevoted = s.prevoted /\ t.precommitted = s.precommitted
  BY <1>2 DEF RoundStates
<1>4. \/ /\ m \in Prevotes /\ t.precommits = s.precommits
         /\ \A u \in Validators : t.prevotes[u] = IF u = m.from THEN m.vote ELSE s.prevotes[u]
      \/ /\ m \in Precommits /\ t.prevotes = s.prevotes
         /\ \A u \in Validators : t.precommits[u] = IF u = m.from THEN m.vote ELSE s.precommits[u]
  BY <1>2 DEF RoundStates
<1>5. CorrectVotesSent(t)
  <2>1. CorrectVotesSent(s)
    BY DEF CorrectRound
  <2> QED BY <1>1, <1>2, <1>3, <1>4, <2>1 DEF CorrectVotesSent, Correct
<1>6. CorrectRound(v, t)
  BY <1>3, <1>5 DEF CorrectRound, OwnVotesKnown
<1>7. FewFaulty => DecidedRound(t)
  BY <1>3 DEF DecidedRound
<1> QED BY <1>3, <1>6, <1>7

\* A correct validator that seems to equivocate has restarted.
LEMMA EquivocationHasCause ==
  ASSUME TypeOK, FaultInv, NEW v \in Correct, committed[v] = None,
         NEW m, m.round = rs[v].round,
         \/ m \in Prevotes /\ rs[v].prevotes[m.from] \notin {None, m.vote}
         \/ m \in Precommits /\ rs[v].precommits[m.from] \notin {None, m.vote}
  PROVE  m.from \in Validators /\ (m.from \in Faulty \/ restarts[m.from] > 0)
<1>1. /\ m \in VoteRecords
      /\ m \in Prevotes /\ m.from \in Correct => m \in prevoteMsgs
      /\ m \in Precommits /\ m.from \in Correct => m \in precommitMsgs
  BY DeliveredSent
<1>2. m.from \in Validators
  BY <1>1 DEF VoteRecords
<1>3. SUFFICES ASSUME m.from \in Correct PROVE restarts[m.from] > 0
  BY <1>2 DEF Correct
<1>4. CorrectVotesSent(rs[v])
  BY DEF FaultInv, CorrectRound
<1>5. CASE m \in Prevotes /\ rs[v].prevotes[m.from] \notin {None, m.vote}
  <2> PICK n : n = Vote(m.round, m.from, rs[v].prevotes[m.from])
    OBVIOUS
  <2>1. n \in prevoteMsgs /\ m \in prevoteMsgs
    BY <1>1, <1>3, <1>4, <1>5 DEF CorrectVotesSent
  <2>2. n.from = m.from /\ n.round = m.round /\ n.vote # m.vote
    BY <1>5 DEF Vote
  <2>3. \A k, l \in prevoteMsgs : k.from = l.from /\ k.round = l.round
                                    => k = l \/ restarts[k.from] > 0
    BY DEF FaultInv, NoDoubleVote
  <2> QED BY <2>1, <2>2, <2>3
<1>6. CASE m \in Precommits /\ rs[v].precommits[m.from] \notin {None, m.vote}
  <2> PICK n : n = Vote(m.round, m.from, rs[v].precommits[m.from])
    OBVIOUS
  <2>1. n \in precommitMsgs /\ m \in precommitMsgs
    BY <1>1, <1>3, <1>4, <1>6 DEF CorrectVotesSent
  <2>2. n.from = m.from /\ n.round = m.round /\ n.vote # m.vote
    BY <1>6 DEF Vote
  <2>3. \A k, l \in precommitMsgs : k.from = l.from /\ k.round = l.round
                                    => k = l \/ restarts[k.from] > 0
    BY DEF FaultInv, NoDoubleVote
  <2> QED BY <2>1, <2>2, <2>3
<1> QED BY <1>5, <1>6

\* Slashing for a vote that contradicts a recorded one.
LEMMA VoteSlashAction ==
  ASSUME TypeOK, TypeOK', FaultInv, NEW v \in Correct, committed[v] = None,
         NEW u \in Validators, u \in Faulty \/ restarts[u] > 0,
         SlashEquivocation(v, u),
         UNCHANGED <<rs, proposalsSeen, restarts, committed, proposalMsgs, prevoteMsgs,
                     precommitMsgs>>
  PROVE  FaultInv'
<1>1. rs[v] \in RoundStates /\ rs[v].round \in Nat
  <2>1. rs[v] \in RoundStates
    BY DEF TypeOK, Correct
  <2>2. rs[v].round \in Rounds
    BY <2>1 DEF RoundStates
  <2> QED BY <2>1, <2>2, BoundAssumption DEF Rounds
<1> PICK s \in RoundStates : s = rs[v]
  BY <1>1
<1>2. /\ CorrectRound(v, s) /\ CorrectVotesSent(s)
      /\ FewFaulty => DecidedRound(s)
  BY DEF FaultInv, CorrectRound, CommitPhaseDecided, DecidedRound
<1>3. rs' = [rs EXCEPT ![v] = s] /\ Later(s, s)
  <2>1. rs' = [rs EXCEPT ![v] = s]
    BY DEF TypeOK
  <2>2. Later(s, s)
    BY <1>2 DEF CorrectRound, Later
  <2> QED BY <2>1, <2>2
<1>4. SlashKeeps(v)
  <2>1. rs'[v].round >= rs[v].round
    BY <1>1
  <2> QED BY <2>1, SlashWithCause
<1>5. SeenKeeps(v)
  BY SeenUnchanged
<1> QED BY <1>2, <1>3, <1>4, <1>5, SilentAction

\* Every delivery to a correct validator keeps the invariant.
LEMMA OnMessageKeepsFaultInv ==
  ASSUME TypeOK, TypeOK', FaultInv, NEW v \in Correct, OnMessage(v)
  PROVE  FaultInv'
<1>0. /\ v \in Validators /\ rs[v] \in RoundStates /\ rs[v].round \in Nat
      /\ FewFaulty => IsView(Active(v))
  <2>1. v \in Validators /\ rs[v] \in RoundStates
    BY DEF TypeOK, Correct
  <2>2. rs[v].round \in Rounds
    BY <2>1 DEF RoundStates
  <2>3. rs[v].round \in Nat
    BY <2>2, BoundAssumption DEF Rounds
  <2> QED BY <2>1, <2>3, JailedAreFaulty
<1>l. /\ \A h \in RoundStates : CorrectRound(v, h) => Later(h, h) /\ CorrectVotesSent(h)
  BY DEF Later, CorrectRound
<1> USE DEF engineVars, slashVars, daVars, heightVars, boundVars, msgVars
<1>1. ASSUME NEW m \in Proposals,
             OnProposalRejected(v, m) \/ OnProposalInvalid(v, m)
      PROVE  FaultInv'
  <2>1. committed[v] = None /\ m.round \in Rounds
    BY <1>1, DeliveredSent DEF OnProposalRejected, OnProposalInvalid, Accepts, ProposalRecords
  <2> PICK s : s = SkipTo(rs[v], m.round)
    OBVIOUS
  <2>2. /\ s \in RoundStates /\ CorrectRound(v, s) /\ s.round >= rs[v].round
        /\ FewFaulty => DecidedRound(s)
    BY <2>1, SkipToCorrectRound
  <2>3. EagerAttestation(v, m.block, s, Active(v), daProposer[v])
    BY <1>1 DEF OnProposalRejected, OnProposalInvalid
  <2>4. /\ UNCHANGED <<restarts, committed, proposalMsgs, prevoteMsgs, precommitMsgs>>
        /\ UNCHANGED <<jailed, missedProposals, missedVotes>>
        /\ \/ proposalsSeen' = proposalsSeen
           \/ proposalsSeen' = [proposalsSeen EXCEPT ![v] = @ \cup {m}]
    BY <1>1 DEF OnProposalRejected, OnProposalInvalid
  <2>5. rs'[v].round >= rs[v].round => SlashKeeps(v)
    BY <2>4, SlashUnchanged
  <2>6. SeenKeeps(v)
    BY <2>4, SeenUnchanged, SeenOneMore
  <2> QED BY <1>0, <1>l, <2>2, <2>3, <2>4, <2>5, <2>6, AttestAction
<1>2. ASSUME NEW m \in Proposals, OnProposalEquivocation(v, m) PROVE FaultInv'
  <2>1. committed[v] = None /\ m.round \in Rounds /\ m.from \in Validators
    BY <1>2, DeliveredSent DEF OnProposalEquivocation, Accepts, ProposalRecords
  <2>2. m.from \in Faulty \/ restarts[m.from] > 0
    <3>1. SUFFICES ASSUME m.from \in Correct PROVE restarts[m.from] > 0
      BY <2>1 DEF Correct
    <3>2. PICK p \in proposalsSeen[v] : p.round = m.round /\ p.from = m.from /\ p.block # m.block
      BY <1>2 DEF OnProposalEquivocation, Equivocates
    <3>3. p \in proposalMsgs /\ m \in proposalMsgs
      BY <3>1, <3>2, DeliveredSent DEF FaultInv, SeenSent
    <3> QED BY <3>2, <3>3 DEF FaultInv, OneProposalEach
  <2> PICK s : s = SkipTo(rs[v], m.round)
    OBVIOUS
  <2>3. /\ s \in RoundStates /\ CorrectRound(v, s) /\ s.round >= rs[v].round
        /\ FewFaulty => DecidedRound(s)
    BY <2>1, SkipToCorrectRound
  <2>4. EagerAttestation(v, m.block, s, Active(v) \ {m.from}, daProposer[v])
    BY <1>2 DEF OnProposalEquivocation
  <2>5. /\ UNCHANGED <<restarts, committed, proposalMsgs, prevoteMsgs, precommitMsgs>>
        /\ proposalsSeen' = proposalsSeen /\ SlashEquivocation(v, m.from)
    BY <1>2 DEF OnProposalEquivocation
  <2>6. FewFaulty => IsView(Active(v) \ {m.from})
    <3>1. SUFFICES ASSUME FewFaulty PROVE IsView(Active(v) \ {m.from})
      OBVIOUS
    <3>2. ~(restarts[m.from] > 0)
      BY <2>1, <3>1 DEF FewFaulty, TypeOK
    <3>3. PICK J \in SUBSET Faulty : Active(v) = Validators \ J
      BY <1>0, <3>1 DEF IsView
    <3>4. Active(v) \ {m.from} = Validators \ (J \cup {m.from})
      BY <3>3
    <3>5. J \cup {m.from} \in SUBSET Faulty
      BY <2>2, <3>2
    <3> QED BY <3>4, <3>5 DEF IsView
  <2>7. rs'[v].round >= rs[v].round => SlashKeeps(v)
    BY <2>1, <2>2, <2>5, SlashWithCause
  <2>8. SeenKeeps(v)
    BY <2>5, SeenUnchanged
  <2> QED BY <1>l, <2>3, <2>4, <2>5, <2>6, <2>7, <2>8, AttestAction
<1>3. ASSUME NEW m \in Proposals, OnProposal(v, m) PROVE FaultInv'
  <2>1. /\ committed[v] = None /\ m.round \in Rounds /\ m.round >= rs[v].round
        /\ m.block \in Blocks
    BY <1>3, DeliveredSent DEF OnProposal, Accepts, ProposalRecords
  <2> PICK s : s = SkipTo(rs[v], m.round)
    OBVIOUS
  <2>2. /\ s \in RoundStates /\ CorrectRound(v, s) /\ s.round >= rs[v].round
        /\ s.round = m.round
        /\ FewFaulty => DecidedRound(s)
    BY <2>1, SkipToCorrectRound
  <2> PICK x : x = VoteOn(v, m.block)
    OBVIOUS
  <2>3. x \in Votes
    BY <2>1 DEF VoteOn, Votes
  <2>h. PICK held : held = [s EXCEPT !.proposed = m.block]
    OBVIOUS
  <2>v. PICK voted : voted = [held EXCEPT !.phase = "Prevote", !.prevoted = TRUE,
                                        !.prevotes[v] = x]
    OBVIOUS
  <2> DEFINE proposer == IF s.prevoted \/ x = Nil THEN daProposer[v] ELSE m.block[1]
  <2>4. /\ prevoteMsgs' = IF s.prevoted THEN prevoteMsgs
                          ELSE prevoteMsgs \cup {Vote(m.round, v, x)}
        /\ EagerAttestation(v, m.block, IF s.prevoted THEN held ELSE voted,
                            Active(v), proposer)
        /\ proposalsSeen' = [proposalsSeen EXCEPT ![v] = @ \cup {m}]
        /\ UNCHANGED <<slashVars, restarts, committed, proposalMsgs, precommitMsgs>>
    BY <1>3, <2>h, <2>v, Zenon DEF OnProposal
  <2> HIDE DEF proposer
  <2>5. SeenKeeps(v)
    BY <2>4, SeenOneMore
  <2>s. rs'[v].round >= rs[v].round => SlashKeeps(v)
    BY <2>4, SlashUnchanged
  <2>6. /\ held.round = s.round /\ held.phase = s.phase
        /\ held.prevoted = s.prevoted /\ held.precommitted = s.precommitted
        /\ held.prevotes = s.prevotes /\ held.precommits = s.precommits
        /\ held \in RoundStates
    BY <2>1, <2>2, <2>h DEF RoundStates
  <2>7. CASE s.prevoted
    <3>1. Later(s, held) /\ CorrectVotesSent(held)
      BY <2>2, <2>6 DEF Later, CorrectRound, CorrectVotesSent
    <3>2. FewFaulty => DecidedRound(held)
      BY <2>2, <2>6 DEF DecidedRound
    <3>3. EagerAttestation(v, m.block, held, Active(v), proposer)
      BY <2>4, <2>7
    <3>4. UNCHANGED <<restarts, committed, proposalMsgs, prevoteMsgs, precommitMsgs>>
      BY <2>4, <2>7
    <3> QED BY <1>0, <2>2, <2>5, <2>6, <2>s, <3>1, <3>2, <3>3, <3>4, AttestAction
  <2>8. CASE ~s.prevoted
    <3>1. /\ voted \in RoundStates /\ voted.round = s.round /\ voted.phase = "Prevote"
          /\ voted.prevoted /\ voted.precommitted = s.precommitted
          /\ voted.precommits = s.precommits
          /\ \A u \in Validators : voted.prevotes[u] = IF u = v THEN x ELSE s.prevotes[u]
      BY <1>0, <2>3, <2>6, <2>v DEF RoundStates, Phases
    <3>2. EagerAttestation(v, m.block, voted, Active(v), proposer)
      BY <2>4, <2>8
    <3>3. rs' = [rs EXCEPT ![v] = voted]
      BY <3>1, <3>2, Zenon DEF EagerAttestation
    <3>4. prevoteMsgs' = prevoteMsgs \cup {Vote(s.round, v, x)}
      BY <2>2, <2>4, <2>8
    <3>5. Later(s, voted)
      BY <3>1 DEF Later
    <3>6. /\ ProposesOnce(v, s, voted, None) /\ PrevotesOnce(v, s, voted, x)
          /\ PrecommitsOnce(v, s, voted, None)
      BY <2>4, <2>8, <3>1, <3>4 DEF ProposesOnce, PrevotesOnce, PrecommitsOnce
    <3>7. CorrectVotesSent(voted)'
      BY <1>0, <2>2, <2>4, <3>1, <3>4 DEF CorrectRound, CorrectVotesSent, Correct
    <3>8. DecidedRound(voted)'
      BY <3>1 DEF DecidedRound
    <3>9. rs'[v] = voted
      BY <1>0, <3>3 DEF TypeOK
    <3>10. SlashKeeps(v)
      BY <2>2, <2>s, <3>1, <3>9
    <3> QED BY <2>2, <2>4, <2>5, <3>1, <3>3, <3>5, <3>6, <3>7, <3>8, <3>10, RoundAction
  <2> QED BY <2>7, <2>8
<1>4. ASSUME NEW m, \/ m \in Prevotes /\ OnPrevoteEquivocation(v, m)
                    \/ m \in Precommits /\ OnPrecommitEquivocation(v, m)
      PROVE  FaultInv'
  <2>1. /\ committed[v] = None /\ m.round = rs[v].round
        /\ \/ m \in Prevotes /\ rs[v].prevotes[m.from] \notin {None, m.vote}
           \/ m \in Precommits /\ rs[v].precommits[m.from] \notin {None, m.vote}
    BY <1>4 DEF OnPrevoteEquivocation, OnPrecommitEquivocation
  <2>2. m.from \in Validators /\ (m.from \in Faulty \/ restarts[m.from] > 0)
    BY <2>1, EquivocationHasCause
  <2>3. /\ SlashEquivocation(v, m.from)
        /\ UNCHANGED <<rs, proposalsSeen, restarts, committed, proposalMsgs, prevoteMsgs,
                       precommitMsgs>>
    BY <1>4 DEF OnPrevoteEquivocation, OnPrecommitEquivocation
  <2> QED BY <2>1, <2>2, <2>3, VoteSlashAction
<1>5. ASSUME NEW m \in Prevotes, OnPrevote(v, m) PROVE FaultInv'
  <2>1. /\ committed[v] = None /\ m.round \in Rounds /\ m.round >= rs[v].round
    BY <1>5, DeliveredSent DEF OnPrevote, Accepts, VoteRecords
  <2> PICK s : s = SkipTo(rs[v], m.round)
    OBVIOUS
  <2>2. /\ s \in RoundStates /\ CorrectRound(v, s) /\ s.round >= rs[v].round
        /\ s.round = m.round
        /\ FewFaulty => DecidedRound(s)
    BY <2>1, SkipToCorrectRound
  <2> PICK t : t = [s EXCEPT !.prevotes[m.from] = m.vote]
    OBVIOUS
  <2>3. /\ t \in RoundStates /\ t.round = s.round /\ CorrectRound(v, t)
        /\ FewFaulty => DecidedRound(t)
    BY <2>2, RecordVote
  <2>5. /\ \/ rs' = [rs EXCEPT ![v] = t] /\ precommitMsgs' = precommitMsgs
           \/ \E x \in QuorumValues(Active(v), t.prevotes) : EnterPrecommit(v, t, x)
        /\ UNCHANGED <<proposalsSeen, slashVars, restarts, committed, proposalMsgs,
                       prevoteMsgs>>
    BY <1>5, Zenon DEF OnPrevote
  <2>6. CASE rs' = [rs EXCEPT ![v] = t] /\ precommitMsgs' = precommitMsgs
    <3>1. rs'[v] = t
      BY <1>0, <2>6 DEF TypeOK
    <3>2. SlashKeeps(v)
      BY <2>2, <2>3, <2>5, <3>1, SlashUnchanged
    <3>3. SeenKeeps(v)
      BY <2>5, SeenUnchanged
    <3> QED BY <1>l, <2>3, <2>5, <2>6, <3>2, <3>3, SilentAction
  <2>7. CASE \E x \in QuorumValues(Active(v), t.prevotes) : EnterPrecommit(v, t, x)
    <3>1. PICK x \in QuorumValues(Active(v), t.prevotes) : EnterPrecommit(v, t, x)
      BY <2>7
    <3>2. x \in Votes
      BY <2>3, QuorumValuesType DEF RoundStates
    <3>3. t.round >= rs[v].round
      BY <2>2, <2>3
    <3> QED BY <2>3, <2>5, <3>1, <3>2, <3>3, PrecommitAction
  <2> QED BY <2>5, <2>6, <2>7
<1>6. ASSUME NEW m \in Precommits, OnPrecommit(v, m) PROVE FaultInv'
  <2>1. /\ committed[v] = None /\ m.round \in Rounds /\ m.round >= rs[v].round
    BY <1>6, DeliveredSent DEF OnPrecommit, Accepts, VoteRecords
  <2> PICK s : s = SkipTo(rs[v], m.round)
    OBVIOUS
  <2>2. /\ s \in RoundStates /\ CorrectRound(v, s) /\ s.round >= rs[v].round
        /\ s.round = m.round
        /\ FewFaulty => DecidedRound(s)
    BY <2>1, SkipToCorrectRound
  <2> PICK t : t = [s EXCEPT !.precommits[m.from] = m.vote]
    OBVIOUS
  <2>3. /\ t \in RoundStates /\ t.round = s.round /\ CorrectRound(v, t)
        /\ FewFaulty => DecidedRound(t)
    BY <2>2, RecordVote
  <2> PICK d : d = [t EXCEPT !.proposed = None]
    OBVIOUS
  <2>4. /\ d \in RoundStates /\ d.round = t.round /\ d.phase = t.phase
        /\ d.prevoted = t.prevoted /\ d.precommitted = t.precommitted
        /\ d.prevotes = t.prevotes /\ d.precommits = t.precommits
    BY <2>3 DEF RoundStates
  <2>5. /\ \/ \E b \in Committable(Active(v), t) : Commit(v, b, VotersFor(t.precommits, b))
           \/ /\ rs' = [rs EXCEPT ![v] = t] \/ rs' = [rs EXCEPT ![v] = d]
              /\ committed' = committed
        /\ UNCHANGED <<proposalsSeen, slashVars, restarts, proposalMsgs, prevoteMsgs,
                       precommitMsgs>>
    BY <1>6, Zenon DEF OnPrecommit
  <2>6. CASE \E b \in Committable(Active(v), t) : Commit(v, b, VotersFor(t.precommits, b))
    BY <2>3, <2>5, <2>6, VotedCommitAction
  <2>7. CASE /\ rs' = [rs EXCEPT ![v] = t] \/ rs' = [rs EXCEPT ![v] = d]
             /\ committed' = committed
    <3>1. PICK e \in {t, d} : rs' = [rs EXCEPT ![v] = e]
      BY <2>7
    <3>2. e \in RoundStates /\ e.round = t.round /\ Later(t, e) /\ CorrectVotesSent(e)
      <4>1. Later(t, t) /\ CorrectVotesSent(t)
        BY <1>l, <2>3
      <4>2. Later(t, d) /\ CorrectVotesSent(d)
        BY <2>4, <4>1 DEF Later, CorrectVotesSent
      <4> QED BY <2>3, <2>4, <3>1, <4>1, <4>2
    <3>3. FewFaulty => DecidedRound(e)
      BY <2>3, <2>4, <3>1 DEF DecidedRound
    <3>4. rs'[v] = e
      BY <1>0, <3>1, <3>2 DEF TypeOK
    <3>5. SlashKeeps(v)
      BY <2>2, <2>3, <2>5, <2>7, <3>2, <3>4, SlashUnchanged
    <3>6. SeenKeeps(v)
      BY <2>5, SeenUnchanged
    <3> QED BY <2>3, <2>5, <2>7, <3>1, <3>2, <3>3, <3>5, <3>6, SilentAction
  <2> QED BY <2>5, <2>6, <2>7
<1>7. ASSUME NEW u \in Attesters, OnDAAttestation(v, u) PROVE FaultInv'
  <2>1. /\ committed[v] = None
        /\ UNCHANGED <<proposalsSeen, slashVars, restarts, proposalMsgs, prevoteMsgs,
                       precommitMsgs>>
    BY <1>7 DEF OnDAAttestation
  <2> PICK s \in RoundStates : s = rs[v]
    BY <1>0
  <2>2. CorrectRound(v, s) /\ (FewFaulty => DecidedRound(s))
    BY <2>1 DEF FaultInv, CommitPhaseDecided, DecidedRound
  <2>3. \/ \E b \in Committable(Active(v), s) : Commit(v, b, VotersFor(s.precommits, b))
        \/ UNCHANGED <<rs, committed>>
    <3> DEFINE committable == IF rs[v].phase = "Precommit"
                              THEN Committable(Active(v), rs[v]) ELSE {}
    <3>1. \/ \E b \in committable : Commit(v, b, VotersFor(rs[v].precommits, b))
          \/ UNCHANGED <<engineVars, heightVars>>
      BY <1>7, Zenon DEF OnDAAttestation
    <3> QED BY <3>1
  <2>4. CASE \E b \in Committable(Active(v), s) : Commit(v, b, VotersFor(s.precommits, b))
    BY <2>1, <2>2, <2>4, VotedCommitAction
  <2>5. CASE UNCHANGED <<rs, committed>>
    <3>1. rs' = [rs EXCEPT ![v] = s]
      BY <2>5 DEF TypeOK
    <3>2. SlashKeeps(v)
      <4>1. rs'[v].round >= rs[v].round
        BY <1>0, <2>5
      <4> QED BY <2>1, <2>5, <4>1, SlashUnchanged
    <3>3. SeenKeeps(v)
      BY <2>1, SeenUnchanged
    <3> QED BY <1>l, <2>1, <2>2, <2>5, <3>1, <3>2, <3>3, SilentAction
  <2> QED BY <2>3, <2>4, <2>5
<1> QED BY <1>1, <1>2, <1>3, <1>4, <1>5, <1>6, <1>7 DEF OnMessage

-----------------------------------------------------------------------------
(* The theorems.                                                           *)

\* As long as nobody wraps to round 0, the invariant is inductive with any
\* number of faulty validators and of restarts: each correct validator knows
\* what it has sent, and what is recorded as sent by a correct one was sent.
THEOREM FaultInvariant ==
  ASSUME MaxWraps = 0
  PROVE  Spec => [](TypeOK /\ FaultInv)
<1>1. ASSUME Init PROVE FaultInv
  <2>1. /\ proposalMsgs = {} /\ prevoteMsgs = {} /\ precommitMsgs = {}
        /\ \A v \in Validators :
             /\ rs[v] = NewRoundState(0) /\ committed[v] = None /\ jailed[v] = {}
             /\ proposalsSeen[v] = {}
             /\ \A u \in Validators : /\ missedProposals[v][u] = PriorMisses
                                      /\ missedVotes[v][u] = PriorMisses
    BY <1>1 DEF Init
  <2>2. /\ NewRoundState(0).round = 0 /\ NewRoundState(0).phase = "Propose"
        /\ ~NewRoundState(0).prevoted
        /\ \A u \in Validators : /\ NewRoundState(0).prevotes[u] = None
                                 /\ NewRoundState(0).precommits[u] = None
    BY DEF NewRoundState
  <2>3. \A v \in Correct : v \in Validators
    BY DEF Correct
  <2>4. SentByCorrect /\ NoDoubleVote /\ OneProposalEach /\ PrecommitsGrounded
    BY <2>1 DEF SentByCorrect, NoDoubleVote, OneProposalEach, PrecommitsGrounded
  <2>5. \A v \in Correct : CorrectRound(v, rs[v])
    BY <2>1, <2>2, <2>3 DEF CorrectRound, CorrectVotesSent, OwnVotesKnown
  <2>6. \A v \in Correct : SeenSent(v) /\ CountersLow(v)
    BY <2>1, <2>2, <2>3, BoundAssumption DEF SeenSent, CountersLow
  <2>7. JailedForCause /\ CommitPhaseDecided
    BY <2>1, <2>2, <2>3 DEF JailedForCause, CommitPhaseDecided
  <2> QED BY <2>4, <2>5, <2>6, <2>7 DEF FaultInv
<1>2. ASSUME TypeOK, TypeOK', FaultInv, [Next]_vars PROVE FaultInv'
  <2>1. CASE Next
    <3>1. PICK v \in Correct :
            Tick(v) \/ OnMessage(v) \/ SyncApply(v) \/ Restart(v) \/ SetDraining(v)
      BY <2>1 DEF Next
    <3>2. CASE SetDraining(v)
      <4>1. UNCHANGED <<rs, proposalsSeen, jailed, missedProposals, missedVotes,
                        restarts, committed, proposalMsgs, prevoteMsgs, precommitMsgs>>
        BY <3>2 DEF SetDraining, engineVars, slashVars, heightVars, boundVars, msgVars
      <4> QED BY <1>2, <4>1 DEF FaultInv, SentByCorrect, CorrectRound, CorrectVotesSent,
                 OwnVotesKnown, NoDoubleVote, OneProposalEach, SeenSent, CountersLow,
                 JailedForCause, PrecommitsGrounded, CommitPhaseDecided,
                 VotedByQuorum, Senders, IsQuorum, Threshold
    <3> QED BY <1>2, <3>1, <3>2, TickKeepsFaultInv, OnMessageKeepsFaultInv,
               SyncKeepsFaultInv, RestartKeepsFaultInv
  <2>2. CASE UNCHANGED vars
    <3>1. UNCHANGED <<rs, proposalsSeen, jailed, missedProposals, missedVotes,
                      restarts, committed, proposalMsgs, prevoteMsgs, precommitMsgs>>
      BY <2>2 DEF vars, engineVars, slashVars, heightVars, boundVars, msgVars
    <3> QED BY <1>2, <3>1 DEF FaultInv, SentByCorrect, CorrectRound, CorrectVotesSent,
               OwnVotesKnown, NoDoubleVote, OneProposalEach, SeenSent, CountersLow,
               JailedForCause, PrecommitsGrounded, CommitPhaseDecided,
               VotedByQuorum, Senders, IsQuorum, Threshold
  <2> QED BY <1>2, <2>1, <2>2
<1> QED BY <1>1, <1>2, TypeCorrect, PTL DEF Spec

\* No correct validator that has not restarted ever sends two prevotes or two
\* precommits in a round, whatever the faulty ones send.
THEOREM VotesOnce ==
  ASSUME MaxWraps = 0
  PROVE  Spec => []NoDoubleVote
<1>1. FaultInv => NoDoubleVote
  BY DEF FaultInv
<1> QED BY <1>1, FaultInvariant, PTL

\* No correct validator that has not restarted is ever slashed or jailed by a
\* correct one, unless the miss counters reach their limits.
THEOREM NobodySlashed ==
  ASSUME MaxWraps = 0, LimitsAway
  PROVE  Spec => []JailedForCause
<1>1. FaultInv => JailedForCause
  BY DEF FaultInv
<1> QED BY <1>1, FaultInvariant, PTL

\* With less than a third of the stake faulty, two validators of a round never
\* see quorums for different values, whomever each has jailed.
THEOREM QuorumsNeverSplit ==
  ASSUME MaxWraps = 0, FewFaulty
  PROVE  Spec => []NoSplitQuorum
<1>1. ASSUME TypeOK, FaultInv PROVE NoSplitQuorum
  <2>1. SUFFICES ASSUME NEW u \in Correct, NEW v \in Correct,
                        committed[u] = None, committed[v] = None,
                        rs[u].round = rs[v].round
                 PROVE  /\ \A x \in QuorumValues(Active(u), rs[u].prevotes),
                             y \in QuorumValues(Active(v), rs[v].prevotes) : x = y
                        /\ \A x \in QuorumValues(Active(u), rs[u].precommits),
                             y \in QuorumValues(Active(v), rs[v].precommits) : x = y
    BY DEF NoSplitQuorum
  <2>2. /\ jailed[u] \in SUBSET Faulty /\ Active(u) = Validators \ jailed[u]
        /\ jailed[v] \in SUBSET Faulty /\ Active(v) = Validators \ jailed[v]
    BY <1>1, JailedAreFaulty DEF Active
  <2>3. CorrectVotesSent(rs[u]) /\ CorrectVotesSent(rs[v])
    BY <1>1, <2>1 DEF FaultInv, CorrectRound
  <2>4. \A w \in Correct : ~(restarts[w] > 0)
    BY <1>1 DEF FewFaulty, TypeOK, Correct
  <2>5. ASSUME NEW f, NEW g, NEW M, NEW r,
               SentIn(M, r, f), SentIn(M, r, g),
               \A m, n \in M : m.from = n.from /\ m.round = n.round
                                 => m = n \/ restarts[m.from] > 0,
               NEW x \in QuorumValues(Active(u), f),
               NEW y \in QuorumValues(Active(v), g)
        PROVE  x = y
    <3>1. /\ x # None /\ IsQuorum(VotersFor(f, x), Validators \ jailed[u])
          /\ y # None /\ IsQuorum(VotersFor(g, y), Validators \ jailed[v])
          /\ VotersFor(f, x) \in SUBSET Validators /\ VotersFor(g, y) \in SUBSET Validators
      BY <2>2 DEF QuorumValues, VotersFor
    <3>2. PICK w \in Correct : w \in VotersFor(f, x) /\ w \in VotersFor(g, y)
      BY <2>2, <3>1, CorrectOverlap
    <3>3. f[w] = x /\ g[w] = y
      BY <3>2 DEF VotersFor
    <3>4. Vote(r, w, x) \in M /\ Vote(r, w, y) \in M
      BY <2>5, <3>1, <3>2, <3>3 DEF SentIn
    <3>5. /\ Vote(r, w, x).from = w /\ Vote(r, w, x).round = r /\ Vote(r, w, x).vote = x
          /\ Vote(r, w, y).from = w /\ Vote(r, w, y).round = r /\ Vote(r, w, y).vote = y
      BY DEF Vote
    <3> QED BY <2>4, <2>5, <3>2, <3>4, <3>5
  <2>6. /\ \A m, n \in prevoteMsgs : m.from = n.from /\ m.round = n.round
                                       => m = n \/ restarts[m.from] > 0
        /\ \A m, n \in precommitMsgs : m.from = n.from /\ m.round = n.round
                                       => m = n \/ restarts[m.from] > 0
    BY <1>1 DEF FaultInv, NoDoubleVote
  <2>7. /\ SentIn(prevoteMsgs, rs[u].round, rs[u].prevotes)
        /\ SentIn(prevoteMsgs, rs[u].round, rs[v].prevotes)
        /\ SentIn(precommitMsgs, rs[u].round, rs[u].precommits)
        /\ SentIn(precommitMsgs, rs[u].round, rs[v].precommits)
    BY <2>1, <2>3 DEF CorrectVotesSent, SentIn
  <2>8. \A x \in QuorumValues(Active(u), rs[u].prevotes),
           y \in QuorumValues(Active(v), rs[v].prevotes) : x = y
    BY <2>5, <2>6, <2>7
  <2>9. \A x \in QuorumValues(Active(u), rs[u].precommits),
           y \in QuorumValues(Active(v), rs[v].precommits) : x = y
    BY <2>5, <2>6, <2>7
  <2> QED BY <2>8, <2>9
<1> QED BY <1>1, FaultInvariant, PTL

\* A validator whose commit was lost is in a round that a quorum decided.
THEOREM LostCommitsDecided ==
  ASSUME MaxWraps = 0, FewFaulty
  PROVE  Spec => []CommitPhaseDecided
<1>1. FaultInv => CommitPhaseDecided
  BY DEF FaultInv
<1> QED BY <1>1, FaultInvariant, PTL

\* With less than a third of the stake faulty, no correct validator precommits a
\* block that no correct one prevoted in the round, whomever it has jailed and
\* whatever prevotes the faulty ones sent it.
THEOREM PrecommitsHaveGround ==
  ASSUME MaxWraps = 0, FewFaulty
  PROVE  Spec => []PrecommitsGrounded
<1>1. FaultInv => PrecommitsGrounded
  BY DEF FaultInv
<1> QED BY <1>1, FaultInvariant, PTL

\* A third of the stake suffices for the fallback of sync.
LEMMA AboveThird ==
  ASSUME NEW t \in Nat, NEW x \in Nat, 3 * x > t
  PROVE  x >= t \div 3
OBVIOUS

\* A certificate that is a quorum in the set of the validator that stored it
\* passes verify_commit_certificate_for_sync at every other one, whomever each of
\* the two has jailed: its correct signers have a third of all stake.
THEOREM SyncAcceptsCertificates ==
  ASSUME MaxWraps = 0, FewFaulty
  PROVE  Spec => []CertificatesAccepted
<1>1. ASSUME TypeOK, FaultInv PROVE CertificatesAccepted
  <2>1. SUFFICES ASSUME NEW u \in Correct, NEW v \in Correct,
                        IsQuorum(cert[v], Active(v))
                 PROVE  SyncCertValid(u, cert[v])
    BY DEF CertificatesAccepted
  <2> DEFINE S == cert[v]
             A == Active(u)
  <2>2. /\ jailed[u] \in SUBSET Faulty /\ A = Validators \ jailed[u]
        /\ jailed[v] \in SUBSET Faulty /\ Active(v) = Validators \ jailed[v]
    BY <1>1, JailedAreFaulty DEF Active
  <2>3. /\ S \in SUBSET Validators /\ A \in SUBSET Validators
        /\ S \cap Correct \in SUBSET (S \cap A) /\ S \cap A \in SUBSET Validators
        /\ Faulty \in SUBSET Validators
    BY <1>1, <2>2, ValidatorAssumption DEF TypeOK, Correct
  <2> HIDE DEF S, A
  <2>4. /\ StakeOf[S \cap Correct] \in Nat
        /\ 3 * StakeOf[S \cap Correct] > 2 * StakeOf[Validators] - 3 * StakeOf[Faulty]
    BY <2>1, <2>2, <2>3, CorrectShare DEF S
  <2>5. /\ StakeOf[A] \in Nat /\ StakeOf[Validators] \in Nat /\ StakeOf[Faulty] \in Nat
        /\ StakeOf[S \cap A] \in Nat
        /\ StakeOf[A] <= StakeOf[Validators]
        /\ StakeOf[S \cap Correct] <= StakeOf[S \cap A]
    BY <2>3, StakeMonotone
  <2>6. 3 * StakeOf[S \cap A] > StakeOf[A]
    BY <2>4, <2>5 DEF FewFaulty
  <2>7. StakeOf[S \cap A] >= StakeOf[A] \div 3
    BY <2>5, <2>6, AboveThird
  <2> QED BY <2>7 DEF SyncCertValid, S, A
<1> QED BY <1>1, FaultInvariant, PTL
=============================================================================
