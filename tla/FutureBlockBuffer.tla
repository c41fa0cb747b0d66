--------------------------- MODULE FutureBlockBuffer ---------------------------
(***************************************************************************)
(* The buffer of blocks that arrived before their parents.  Its caller is  *)
(* the consensus layer: it offers a block on receipt, marks it seen when it *)
(* enters the DAG, and evicts the expired ones once per round.  mark_seen  *)
(* releases waiting blocks in a cascade, which is modelled step by step:   *)
(* the iteration order of the code's hash sets is arbitrary.               *)
(***************************************************************************)
EXTENDS Integers, FiniteSets, Sequences

CONSTANTS
  Blocks,       \* block ids
  Parents,      \* block id -> the ids its header names as parents
  ttl_rounds,
  cap,
  MaxRound      \* bound on the rounds of a run

ASSUME BufferAssumption ==
  /\ Parents \in [Blocks -> SUBSET Blocks]
  /\ ttl_rounds \in Nat /\ cap \in Nat /\ MaxRound \in Nat

VARIABLES
  pending,      \* buffered block -> [missing, inserted_round]
  waiting_on,   \* missing parent -> the blocks that wait for it
  frontier,     \* mark_seen: the stack of blocks that became available
  avail,        \* mark_seen: the block popped last, {} before the first
  waiters,      \* mark_seen: its waiters that are still to be visited
  released,     \* mark_seen: its result so far
  seen,         \* the caller's DAG
  round         \* the caller's round

bufferVars == <<pending, waiting_on, frontier, avail, waiters, released, seen, round>>

Idle == frontier = <<>> /\ avail = {}

BufferInit ==
  /\ pending = [b \in {} |-> 0]
  /\ waiting_on = [b \in {} |-> {}]
  /\ frontier = <<>>
  /\ avail = {}
  /\ waiters = {}
  /\ released = <<>>
  /\ seen = {}
  /\ round = 0

Drop(f, S) == [x \in DOMAIN f \ S |-> f[x]]

-----------------------------------------------------------------------------
\* offer, by its outcomes.
Duplicate(b) == b \in DOMAIN pending \/ b \in seen
Missing(b) == Parents[b] \ seen

Index(b, missing) ==
  waiting_on' = [p \in DOMAIN waiting_on \cup missing |->
    (IF p \in DOMAIN waiting_on THEN waiting_on[p] ELSE {})
      \cup (IF p \in missing THEN {b} ELSE {})]

OfferBuffered(b) ==
  /\ Idle /\ ~Duplicate(b) /\ Missing(b) # {}
  /\ Cardinality(DOMAIN pending) < cap
  /\ Index(b, Missing(b))
  /\ pending' = [x \in DOMAIN pending \cup {b} |->
       IF x = b THEN [missing |-> Missing(b), inserted_round |-> round]
       ELSE pending[x]]
  /\ UNCHANGED <<frontier, avail, waiters, released, seen, round>>

\* Offer::Ready: the caller inserts the block into its DAG and marks it seen.
OfferReady(b) ==
  /\ Idle /\ ~Duplicate(b) /\ Missing(b) = {}
  /\ seen' = seen \cup {b}
  /\ frontier' = <<b>>
  /\ UNCHANGED <<pending, waiting_on, avail, waiters, released, round>>

\* Offer::DroppedAtCapacity and Offer::Duplicate leave everything as it was.

-----------------------------------------------------------------------------
\* mark_seen: pop the frontier ...
PopFrontier ==
  /\ frontier # <<>> /\ avail = {}
  /\ LET top == frontier[Len(frontier)] IN
     /\ avail' = {top}
     /\ waiters' = IF top \in DOMAIN waiting_on THEN waiting_on[top] ELSE {}
     /\ waiting_on' = Drop(waiting_on, {top})
  /\ frontier' = SubSeq(frontier, 1, Len(frontier) - 1)
  /\ UNCHANGED <<pending, released, seen, round>>

\* ... and visit its waiters: one whose last missing parent this was is
\* released and becomes available in turn.
ReleaseOnly(w) ==
  /\ pending' = Drop(pending, {w})
  /\ released' = Append(released, w)
  /\ UNCHANGED frontier

Release(w) ==
  /\ pending' = Drop(pending, {w})
  /\ released' = Append(released, w)
  /\ frontier' = Append(frontier, w)

SomeMissing(w) == pending[w].missing \cap avail # {}
LastMissing(w) == pending[w].missing \subseteq avail

\* A waiter that is no longer pending is passed over.
VisitWaiter(w) ==
  /\ w \in waiters
  /\ waiters' = waiters \ {w}
  /\ IF w \in DOMAIN pending /\ LastMissing(w)
     THEN Release(w)
     ELSE /\ pending' = [b \in DOMAIN pending |-> IF b # w THEN pending[b]
                          ELSE [pending[w] EXCEPT !.missing = @ \ avail]]
          /\ UNCHANGED <<released, frontier>>
  /\ UNCHANGED <<waiting_on, avail, seen, round>>

WaitersDone ==
  /\ avail # {} /\ waiters = {}
  /\ avail' = {}
  /\ IF frontier = <<>>
     THEN \* mark_seen returns; the caller inserts what it released
          /\ seen' = seen \cup {released[i] : i \in 1..Len(released)}
          /\ released' = <<>>
     ELSE UNCHANGED <<seen, released>>
  /\ UNCHANGED <<pending, waiting_on, frontier, waiters, round>>

-----------------------------------------------------------------------------
\* The reverse index without the entries of the evicted blocks.
StaleIndex(expired) == waiting_on
CleanIndex(expired) ==
  LET rest == [p \in DOMAIN waiting_on |-> waiting_on[p] \
                 {b \in expired : p \in pending[b].missing}]
  IN [p \in {q \in DOMAIN rest : rest[q] # {}} |-> rest[p]]

\* A new round, and evict_expired.
NextRound ==
  /\ Idle /\ round < MaxRound
  /\ round' = round + 1
  /\ LET expired == {b \in DOMAIN pending :
                       round' - pending[b].inserted_round > ttl_rounds} IN
     /\ waiting_on' = CleanIndex(expired)
     /\ pending' = Drop(pending, expired)
  /\ UNCHANGED <<frontier, avail, waiters, released, seen>>

BufferNext ==
  \/ \E b \in Blocks : OfferBuffered(b) \/ OfferReady(b)
  \/ PopFrontier
  \/ \E w \in Blocks : VisitWaiter(w)
  \/ WaitersDone
  \/ NextRound

BufferSpec == BufferInit /\ [][BufferNext]_bufferVars

-----------------------------------------------------------------------------
\* The two indexes agree: whenever no call is under way, waiting_on is the
\* inverse of the missing sets and has no empty entries, whatever was offered,
\* released, evicted or dropped in between (offer, mark_seen, evict_expired).
IndexIsInverse ==
  Idle => /\ \A p \in DOMAIN waiting_on : waiting_on[p] # {}
          /\ \A p, b \in Blocks :
               (p \in DOMAIN waiting_on /\ b \in waiting_on[p])
                 <=> (b \in DOMAIN pending /\ p \in pending[b].missing)

\* No block is overlooked: whenever no call is under way a buffered block
\* waits for exactly its parents that were not seen, and for at least one, and
\* the buffer is within its cap.
WaitsForUnseen ==
  /\ Cardinality(DOMAIN pending) <= cap
  /\ Idle => \A b \in DOMAIN pending :
               /\ pending[b].missing = Parents[b] \ seen
               /\ pending[b].missing # {}

\* Every block reaches the DAG once, and after all of its parents: the blocks
\* seen and released implement causal delivery.
Causal == INSTANCE CausalDelivery
  WITH delivered <- seen \cup {released[i] : i \in 1..Len(released)}
ImplementsCausalDelivery == Causal!CausalSpec
=============================================================================
