------------------------------ MODULE MCPipeline ------------------------------
(***************************************************************************)
(* Small instances of CommitPipeline for TLC.                              *)
(***************************************************************************)
EXTENDS CommitPipeline, TLC

\* Validator 4 is within one sixteenth of the stake, the others are not.
SmallFourth == 1 :> 20 @@ 2 :> 20 @@ 3 :> 20 @@ 4 :> 4

Request(kind, v, stake) == [kind |-> kind, id |-> v, stake |-> stake]

\* A join within the stake budget and one beyond it, leaves of either size,
\* and a stake update.
MixedRequests ==
  {Request("join", 5, 4), Request("join", 6, 20), Request("leave", 4, 0),
   Request("leave", 1, 0), Request("update", 4, 6)}

\* Bound: certificates are signed by everybody active, but for the first
\* blocks, which may lack one or have the barest one, without validator 1.
WideCertificates ==
  \/ block.step = "none"
  \/ block.signers = ActiveIds(block.set)
  \/ block.number <= 2 /\ block.signers \in {{}, ActiveIds(block.set) \ {1}}

\* Bound: the same, but for the block of the second boundary, which may have
\* none, one with five eighths of the stake or one without validator 1.
WideUntilFourth ==
  \/ block.step = "none"
  \/ block.signers = ActiveIds(block.set)
  \/ block.number = 4 /\ block.signers \in {{}, {1, 2}, ActiveIds(block.set) \ {1}}

\* Bound: no request tells 2 from 3, so that a slash of 2 stands for either.
OneOfTwins ==
  3 \in DOMAIN validators =>
    validators[3] = [stake |-> Genesis[3], jailed |-> FALSE]
=============================================================================
