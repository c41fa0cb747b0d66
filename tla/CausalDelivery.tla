---------------------------- MODULE CausalDelivery ----------------------------
(***************************************************************************)
(* What a buffer of blocks that arrive before their parents promises: each *)
(* block is delivered once, and after all of its parents.                  *)
(***************************************************************************)
CONSTANTS Blocks, Parents

VARIABLE delivered

CausalInit == delivered = {}

Deliver(b) ==
  /\ b \notin delivered
  /\ Parents[b] \subseteq delivered
  /\ delivered' = delivered \cup {b}

CausalNext == \E b \in Blocks : Deliver(b)

CausalSpec == CausalInit /\ [][CausalNext]_delivered
=============================================================================
