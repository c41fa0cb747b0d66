--------------------------- MODULE TendermintSync ---------------------------
(***************************************************************************)
(* One height of the engine when the network is good: the messages of the  *)
(* validators that are up arrive before anybody times out, and everything  *)
(* that can happen at them does.  The other validators have crashed.  The  *)
(* timeouts of the code are constants of the node (set_timeouts_for_round  *)
(* lengthens them round by round), far above the delay of the gossip layer *)
(* in this regime, and the node calls tick every 100 ms.                   *)
(***************************************************************************)
EXTENDS Tendermint

CONSTANT
  Live   \* the validators that are up

ASSUME LiveAssumption == Live \subseteq Correct

\* What v does without waiting for a timeout.
Prompt(v) ==
  \/ TickPropose(v)
  \/ TickPrevoteQuorum(v)
  \/ TickCommit(v)
  \/ TickMismatch(v)
  \/ TickNilQuorum(v)
  \/ TickCommitPhase(v)
  \/ OnMessage(v)
  \/ SyncApply(v)

\* What v does when a phase has lasted too long.
TimedOut(v) ==
  \/ TickProposeTimeout(v)
  \/ TickPrevoteTimeout(v)
  \/ TickPrecommitTimeout(v)

\* Nothing is left to deliver or to do for the validators that are up.
Settled == \A v \in Live : ~ENABLED <<Prompt(v)>>_vars

\* u has come no further than v.
Behind(u, v) ==
  LET rank(w) == 3 * rs[w].round + (CASE rs[w].phase = "Propose"   -> 0
                                      [] rs[w].phase = "Prevote"   -> 1
                                      [] rs[w].phase = "Precommit" -> 2
                                      [] rs[w].phase = "Commit"    -> 2)
  IN  rank(u) <= rank(v)

\* Timeouts strike when messages no longer help, and the last ones first: the
\* phases last equally long everywhere.
Overdue(v) ==
  Settled /\ \A u \in Live : committed[u] # None \/ Behind(v, u)

Step(v) == Prompt(v) \/ (Overdue(v) /\ TimedOut(v))

SyncNext == \E v \in Live : Step(v)

\* tick and the message loop of a validator that is up never stop.
SyncSpec == Init /\ [][SyncNext]_vars /\ \A v \in Live : WF_vars(Step(v))

-----------------------------------------------------------------------------

\* Every validator that is up commits a block at the height, whatever the
\* others do not send: rounds of crashed leaders end, a round of a live leader
\* ends in a commit everywhere ("tolerates f = (n-1)/3 failures",
\* tendermint.rs line 7).
EventuallyCommitted == <>(\A v \in Live : committed[v] # None)
=============================================================================
