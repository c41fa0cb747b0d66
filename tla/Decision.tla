------------------------------ MODULE Decision ------------------------------
(***************************************************************************)
(* What one height of consensus promises: every node decides at most once, *)
(* and all that decide decide the same value.                              *)
(***************************************************************************)
CONSTANTS Nodes, Values, Undecided

VARIABLE decided

Init == decided = [n \in Nodes |-> Undecided]

\* Node n decides the value x that nobody contradicts.
Decide(n, x) ==
  /\ decided[n] = Undecided
  /\ \A m \in Nodes : decided[m] \in {Undecided, x}
  /\ decided' = [decided EXCEPT ![n] = x]

Next == \E n \in Nodes : decided'[n] \in Values /\ Decide(n, decided'[n])

Spec == Init /\ [][Next]_decided
=============================================================================
