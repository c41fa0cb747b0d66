-------------------------- MODULE MCTendermintSync --------------------------
(***************************************************************************)
(* Small instances of TendermintSync for TLC.                              *)
(***************************************************************************)
EXTENDS TendermintSync

\* Four validators of equal stake.
EqualStakes == [S \in SUBSET Validators |-> 3 * Cardinality(S)]

\* Validator 4 leads rounds 0 and 1, the others follow in id order.
CrashedFirstHash == [r \in Rounds |-> IF r < 2 THEN 9 ELSE 3 * (r - 2)]

\* Leaders in id order.
RotatingHash == [r \in Rounds |-> 3 * r]
=============================================================================
