---------------------------- MODULE MCTendermint ----------------------------
(***************************************************************************)
(* Small instances of Tendermint for TLC: stakes and leader draws.         *)
(***************************************************************************)
EXTENDS TendermintInvariant

\* The stake measure of validators 1, 2, 3 and 4 with the given stakes.
Stakes(s1, s2, s3, s4) ==
  [S \in SUBSET Validators |->
     (IF 1 \in S THEN s1 ELSE 0) + (IF 2 \in S THEN s2 ELSE 0) +
     (IF 3 \in S THEN s3 ELSE 0) + (IF 4 \in S THEN s4 ELSE 0)]

EqualStakes == Stakes(3, 3, 3, 3)

\* Validator 2 with either of the others is a quorum.
PivotStakes == Stakes(1, 3, 1, 0)

\* Validator 2 with either of the others is a quorum, and 1 with 3 has just a
\* majority; without 3 the quorum is 1 and 2 together.
TripleStakes == Stakes(2, 3, 2, 0)

\* Validator 2 with 1 or with 3 is a quorum; validator 4 is of no consequence.
QuadStakes == Stakes(2, 6, 2, 1)

\* With QuadStakes: validator 1 leads round 0, validator 3 the others.
QuadHash == [r \in Rounds |-> IF r = 0 THEN 0 ELSE 8]

\* Leaders in id order, round by round, when stakes are equal.
RotatingHash == [r \in Rounds |-> 3 * r]

\* With PivotStakes: validator 1 leads round 0, validator 3 the others.
EndsHash == [r \in Rounds |-> IF r = 0 THEN 0 ELSE 4]

\* With TripleStakes: validator 3 leads round 0, validator 1 the others.
FaultyFirstHash == [r \in Rounds |-> IF r = 0 THEN 6 ELSE 0]

\* The votes v holds of others that are not part of a quorum v sees.
IdleVotes(v) ==
  LET idle(votes) == LET quorum == QuorumValues(Active(v), votes) IN
        {u \in Validators \ {v} : votes[u] \notin quorum \cup {None}}
  IN  Cardinality(idle(rs[v].prevotes)) + Cardinality(idle(rs[v].precommits))

\* Bound: votes that have not (yet) made a quorum are left undelivered, but
\* for the one that made v skip to its round.
LeanDelivery ==
  \A v \in Correct : IdleVotes(v) <= IF rs[v].phase = "Propose" THEN 1 ELSE 0

\* Bound: how many nil votes are cast, that is how often timeouts strike.
NilVotes(n) ==
  Cardinality({m \in prevoteMsgs : m.vote = Nil})
  + Cardinality({m \in precommitMsgs : m.vote = Nil}) <= n

\* Bound: a certificate of something else comes to validator 1 with one faulty
\* block, and it is missing or one of 2 and 3.
FewForged ==
  \A v \in Correct : committed[v] # None /\ ~Certified(v) =>
    v = 1 /\ committed[v] = <<3, 0>> /\ cert[v] \in {{}, {2, 3}}

Lean == NilVotes(2) /\ LeanDelivery

\* Bound: validator 3 is active in round 0 only.
FaultyInFirst ==
  \A v \in Correct : rs[v].round > 0 =>
    rs[v].prevotes[3] = None /\ rs[v].precommits[3] = None

LeanByzantine == NilVotes(1) /\ LeanDelivery /\ FewForged /\ FaultyInFirst

\* The deliveries <<receiver, round, sender>> of votes of others so far.
Delivered ==
  UNION {{<<v, rs[v].round, u>> : u \in {w \in Validators \ {v} :
            rs[v].prevotes[w] # None \/ rs[v].precommits[w] # None}} :
         v \in Correct}

\* Schedule: 2 sees the proposal of round 0 and 3 that of round 1; validator 1
\* hears all votes of round 0 and commits before round 1, 3 hears its prevotes;
\* in round 1 only 2 and 3 hear the votes of each other and of 4, who votes for
\* one block per round.  Nobody applies a block with a certificate of another.
LatePrecommit ==
  /\ \A v \in Correct : committed[v] # None => Certified(v)
  /\ NilVotes(2)
  /\ \A v \in Correct :
       /\ jailed[v] = {}
       /\ committed[1] = None => rs[v].round = 0
       /\ rs[v].prevotes[4] # Nil /\ rs[v].precommits[4] # Nil
       /\ \A p \in proposalsSeen[v] : v = p.round + 2
  /\ Delivered \subseteq
       ({1} \X {0} \X {2, 3, 4}) \cup ({3} \X {0} \X {1, 2, 4})
       \cup ({2} \X {1} \X {3, 4}) \cup ({3} \X {1} \X {2, 4})

\* Schedule: only validator 2 restarts, after validator 1 has committed.
RestartAfterCommit ==
  /\ Lean
  /\ \A v \in Correct : restarts[v] > 0 => v = 2 /\ committed[1] # None

\* Bound: validator 4 is down.
WithoutFour == Lean /\ rs[4] = NewRoundState(0) /\ committed[4] = None

\* Bound: in addition, no vote is nil.
PromptWithoutFour == WithoutFour /\ NilVotes(0)

\* Bound: one restart in all.
OneRestart ==
  Lean /\ \A u, v \in Correct : restarts[u] > 0 /\ restarts[v] > 0 => u = v
=============================================================================
